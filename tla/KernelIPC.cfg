CONSTANTS
    s1 = s1  s2 = s2  a1 = a1  b1 = b1
    srv = srv  pa = pa  pb = pb  ch = ch  ch2 = ch2  tick = tick
    NullTH = NullTH  NoChan = NoChan
    Thread <- MCThread
    Process <- MCProcess
    ProcOf <- MCProcOf
    Channel = {ch, ch2}
    Pulse = {tick}
    MaxPul = 1
    Boot = {s1, a1, b1}
    BootPrio <- ClientFirst
    NewPrio = {5}
    Serves <- MCServes
    Calls <- MCCalls
SPECIFICATION Spec
INVARIANTS TypeOK Located NoMissedMeeting MemLocked RcvIDValid BestRuns
PROPERTIES KeepsPromise
