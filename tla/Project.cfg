SPECIFICATION ProjectSpec
CONSTANTS
    c1 = c1
    c2 = c2
    p1 = p1
    a1 = a1
    b1 = b1
    k1 = k1
    f1 = f1
    f2 = f2
    f3 = f3
    f4 = f4
    f5 = f5
    f6 = f6
    x1 = x1
    x2 = x2
    y1 = y1
    d1 = d1
    d2 = d2
    \* FlowScheduler
    NoNode = NoNode
    Flows <- AllFlows
    MaxSteps = 9
    MaxItems = 2
    \* ProjectDocuments
    Editors = {c1, c2}
    Projects = {p1}
    NoProject = NoProject
    Torn = Torn
    Sessions <- EditingSessions
    MaxReplaced = 1
    MaxRestarts = 1
    \* Configuration
    Admins = {c1, c2}
    MaxSettingChanges = 2
    MaxKills = 1
    \* PythonRuntime
    Callers = {c1, c2}
    Lines = {x1, x2, y1}
    Package <- PackageOf
    RequirementSets <- RequirementFiles
    NoFile = NoFile
    MaxRequests = 3
    MaxRequirements = 1
    MaxBaseLosses = 1
    MaxCrashes = 1
    \* Resources
    Users = {c1, c2}
    Names = {a1, b1, k1, f1, f2, f3, f4, f5, f6}
    FreshNames = {f1, f2, f3, f4, f5, f6}
    Registries <- SampleRegistries
    Packages <- SamplePackages
    MaxJobs = 3
    \* GraphCompilation
    g1 = g1
    g2 = g2
    Clients = {g1, g2}
    Workspaces <- SampleWorkspaces
    Requests <- SampleRequests
    ComponentKinds <- SampleKinds
    ComponentKey = "component"
    Redrawn <- SampleFields
    MaxHistory = 1
    MaxTurns = 3
    NoDocument <- NothingDrawn
    Rejected = Rejected
    \* ProjectPackages
    Packers = {c1, c2}
    Keys = {k1}
    PackedProjects <- SampleProjects
    SessionDirs = {d1, d2}
    MaxPackageJobs = 4
    NoDir = NoDir
    NoPack = NoPack
    TornPack = TornPack
INVARIANTS ProjectTypeOK OutcomeAgrees RunsOnce AllReached CleanMeansSaved
    PlanIsRunnable StampsAreTrue PackagesAreClosed PackagedRunsArePrepared
PROPERTIES ImplementsFlowOrder FlowRunEnds NoLostEdit SettingsAreKept PreparedMeansInstalled
    ImportsKeepReferences ReadsKeepGraph
CHECK_DEADLOCK FALSE
