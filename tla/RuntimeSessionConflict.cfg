SPECIFICATION Spec
CONSTANTS
    s1 = s1  s2 = s2
    t1 = t1  t2 = t2
    NoSession = NoSession
    Sessions <- TwoSessions
    Threads <- TwoThreads
    MaxRuns = 1
    MaxLive = 2
    MaxHistory = 2
    MaxRestarts = 0
    Encrypted = TRUE
    Calls <- UnlockCalls
SYMMETRY MCSymmetry
INVARIANTS
    OneSessionExecutes
CHECK_DEADLOCK FALSE
