SPECIFICATION Spec
CONSTANTS
    s1 = s1  s2 = s2
    t1 = t1  t2 = t2
    NoSession = NoSession
    Sessions <- TwoSessions
    Threads <- OneThread
    MaxRuns = 1
    MaxLive = 1
    MaxHistory = 2
    MaxRestarts = 1
    Encrypted = TRUE
    Calls <- AllButClose
SYMMETRY MCSymmetry
INVARIANTS
    HistoryAgrees
    NodesRunUnlocked
PROPERTIES
    EndingsAreFinal
CHECK_DEADLOCK FALSE
