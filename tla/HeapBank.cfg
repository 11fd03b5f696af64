SPECIFICATION HeapSpec
CONSTANTS
    p1 = p1
    p2 = p2
    Process <- OneProcess
    NoOwner = NoOwner
    Header = 5
    MinBlock = 9
    Slack = 8
    Bank = 32
    FirstRAM = 0
    LastRAM = 80
    Request <- RequestSizes
    RequestBA <- SizesSmallBA
    MaxBlocks = 4
INVARIANT BinsFree
CHECK_DEADLOCK FALSE
