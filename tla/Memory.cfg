SPECIFICATION MemorySpec
CONSTANTS
    Jobs <- MCJobs
    Rubbish = {0, 7}
    Offsets = {640, 3328}
    Scripts <- MCScripts
    p1 = p1
    p2 = p2
    Process <- TwoProcesses
    NoOwner = NoOwner
    Header = 5
    MinBlock = 9
    Slack = 8
    Bank = 32
    FirstRAM = 0
    LastRAM = 80
    Request <- RequestSizes
    RequestBA <- SizesBA
    MaxBlocks = 4
SYMMETRY Same
INVARIANTS ComputesScript OutputAsPlanned LoadedRight HeapSound
CHECK_DEADLOCK FALSE
