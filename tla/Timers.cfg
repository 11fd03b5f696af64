CONSTANTS
    p1 = p1
    x1 = x1
    x2 = x2
    x3 = x3
    NoTimer = NoTimer
    NoOwner = NoOwner
    Process <- OneProcess
    Tidy <- OneProcess
    Timer <- ThreeTimers
    Slots = 4
    FirstSlots = 2
    Wrap = 10
    Delay <- Delays
    Late = 1
SPECIFICATION FairSpec
INVARIANT TimersSound
PROPERTY Fires
