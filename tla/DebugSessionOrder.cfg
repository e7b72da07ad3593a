SPECIFICATION DebugSpec
CONSTANTS
    Plans <- MisplacedPlans
    Nowhere = Nowhere
    MaxTokens = 4
INVARIANT DebugMatchesRun
CHECK_DEADLOCK FALSE
