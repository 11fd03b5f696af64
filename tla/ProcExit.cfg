CONSTANTS
    s1 = s1  pm = pm  mm = mm  a1 = a1  a2 = a2  a3 = a3  b1 = b1
    srv = srv  kern = kern  pa = pa  pb = pb
    ch = ch  ca = ca  cp = cp  cm = cm  died = died
    NullTH = NullTH  NoChan = NoChan  NoTh = NoTh
    PROC = cp
    MEMM = cm
    Thread <- MCThread
    Process <- MCProcess
    ProcOf <- MCProcOf
    Channel <- MCChannel
    Owner <- MCOwner
    Pulse = {died}
    Died = died
    MaxPul = 1
    Boot = {s1, pm, mm, a1, a2, b1}
    BootPrio <- WindowServer
    NewPrio = {}
    Serves <- MCServes
    Calls <- MCCalls
    FileChan = ch
    Files = {pa}
    Child <- MCChild
    Exits = {a1}
    Leaves = {a2, b1}
    Daemons = {a2}
    Signals <- MCSignals
    BootOrder <- ServerFirst
SPECIFICATION ExitSpec
INVARIANTS ExitSound NoGhostKept ReadersDone
