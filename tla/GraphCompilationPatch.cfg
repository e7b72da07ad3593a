\* A patch of the graph that the client has just seen is saved: it is not, when
\* the graph holds a component graph.
SPECIFICATION GraphSpec
CONSTANTS
    g1 = g1
    g2 = g2
    Clients = {g1}
    Workspaces <- SampleWorkspaces
    Requests <- SampleRequests
    ComponentKinds <- SampleKinds
    ComponentKey = "component"
    Redrawn <- SampleFields
    MaxHistory = 1
    MaxTurns = 2
    NoDocument <- NothingDrawn
    Rejected = Rejected
INVARIANTS PatchAppliesCurrent
CHECK_DEADLOCK FALSE
