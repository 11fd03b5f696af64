CONSTANTS
    t1 = t1
    t2 = t2
    Thread <- TwoThreads
    Preempt = TRUE
SPECIFICATION MutexSpec
INVARIANT NobodyForgotten
CHECK_DEADLOCK FALSE
