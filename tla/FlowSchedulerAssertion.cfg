SPECIFICATION Spec
CONSTANTS
    NoNode = NoNode
    Flows <- JustAssert
    MaxSteps = 9
    MaxItems = 2
INVARIANTS
    FailedBranchNeedsFailure
CHECK_DEADLOCK FALSE
