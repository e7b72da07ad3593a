SPECIFICATION Spec
CONSTANTS
    s1 = s1  s2 = s2
    t1 = t1  t2 = t2
    NoSession = NoSession
    Sessions <- OneSession
    Threads <- TwoThreads
    MaxRuns = 1
    MaxLive = 1
    MaxHistory = 1
    MaxRestarts = 0
    Encrypted = FALSE
    Calls <- ThreadedCalls
SYMMETRY MCSymmetry
INVARIANTS
    TerminalSnapshotRetained
CHECK_DEADLOCK FALSE
