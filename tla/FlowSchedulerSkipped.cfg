SPECIFICATION Spec
CONSTANTS
    NoNode = NoNode
    Flows <- JustWaits
    MaxSteps = 9
    MaxItems = 2
INVARIANTS
    SkippedAreUnreachable
CHECK_DEADLOCK FALSE
