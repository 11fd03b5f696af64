SPECIFICATION Spec
CONSTANTS
    t1 = t1
    t2 = t2
    t3 = t3
    t4 = t4
    q1 = q1
    q2 = q2
    NullTH = NullTH
    Run = Run
    None = None
    Thread <- MCThread
    Queue <- MCQueue
    Rank <- MCRank
INVARIANTS Mutual HeadsOn
PROPERTY KeepsLists
