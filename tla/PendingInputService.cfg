SPECIFICATION FairSpec
CONSTANTS
    e1 = e1  e2 = e2
    r1 = r1  r2 = r2  r3 = r3
    v1 = v1
    None = None
    Executions <- MCExecutions
    Requests <- MCRequests
    Values <- MCValues
    Owner <- MCOwner
    Timed <- MCTimed
    TerminalRecordLimit = 1
INVARIANTS
    TypeOK
    TakenAnswerDelivered
    RequestsAreSettled
PROPERTIES
    ImplementsInputAnswer
    WaiterIsReleased
CHECK_DEADLOCK FALSE
