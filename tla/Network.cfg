CONSTANTS
    wings1 = wings1
    wings2 = wings2
    provider = provider
    PppHosts <- TwoHosts
    Provider <- provider
    MaxTrans = 3
    MaxID = 9
    MaxLine = 3
    MaxTrouble = 2
    MaxCons = 2
    MaxData = 3
    MaxVisits = 2
    FileLen = 2
    BufLen = 2
    Posted = 1
    Wanted <- Wants
    DiskBlocks = {1, 2}
    Units = {0, 1}
    Rd = 1
    Wr = 2
    INBUFLEN = 5
    MaxStream = 5
    MaxAfter = 1
    Sizes = {1, 2}
    MaxWritten = 4
SPECIFICATION NetworkSpec
INVARIANTS AddressGranted WaitsForAll WholeAnswer PipeSound
PROPERTIES LinkSettles Carried Served ReadsBack DiskAnswers PipeLetsGo
CHECK_DEADLOCK FALSE
