CONSTANTS
    fs = fs  dv = dv  a = a  b = b
    pfs = pfs  pdv = pdv  pa = pa  pb = pb
    files = files  blocks = blocks  tick = tick
    NullTH = NullTH  NoChan = NoChan
    Thread <- MCThread
    Process <- MCProcess
    ProcOf <- MCProcOf
    Channel = {files, blocks}
    Pulse = {tick}
    MaxPul = 1
    Boot = {fs, dv, a, b}
    BootPrio <- AllEqual
    NewPrio = {}
    Serves <- MCServes
    Calls <- MCCalls
SPECIFICATION LoopSpec
PROPERTIES SendReturns
