CONSTANTS
    t1 = t1
    t2 = t2
    NoPulse = NoPulse
    Thread <- TwoThreads
    Source <- TimerAndIRQ
    Sender <- TimerAndIRQ
    Size = 3
SPECIFICATION Spec
INVARIANTS KernelSafe RingIsQueue
PROPERTY RingDrains
CHECK_DEADLOCK FALSE
