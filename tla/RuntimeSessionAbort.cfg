SPECIFICATION FairSpec
CONSTANTS
    s1 = s1  s2 = s2
    t1 = t1  t2 = t2
    NoSession = NoSession
    Sessions <- OneSession
    Threads <- TwoThreads
    MaxRuns = 2
    MaxLive = 1
    MaxHistory = 1
    MaxRestarts = 1
    Encrypted = FALSE
    Calls <- CloseCalls
INVARIANTS
    TypeOK
    OneWorkerPerSession
    StreamEndsWithOutcome
PROPERTIES
    AbortSettles
CHECK_DEADLOCK FALSE
