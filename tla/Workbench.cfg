SPECIFICATION WorkbenchSpec
CONSTANTS
    sa = sa
    sb = sb
    ui = ui
    ex = ex
    c1 = c1
    c2 = c2
    \* SessionStream
    StreamSessions = {sa, sb}
    UiClients = {ui}
    ExternalClients = {ex}
    Watched <- WatchedSession
    HistoryLimit = 2
    ClosedLimit = 1
    MaxSubscribers = 1
    MaxEvents <- SessionEvents
    AbortedSessions = {sa}
    \* WorkbenchEvents
    HistoryRoom = 1
    MaxChanges = 2
    \* DebugSession
    Plans <- DebuggedPlans
    Nowhere = Nowhere
    MaxTokens = 8
    \* Operations
    Requests = {c1, c2, ui}
    Keys = {sa, sb}
    Reserved = Reserved
    EntryLimit = 1
    MaxEffects = 2
    MaxHostStops = 1
    \* ComponentCalls
    Components = {c1, c2, sa}
    MaxDepth = 2
    MaxCalls = 3
    \* BrowserTabs
    NoTab = NoTab
    RecordLimit = 2
    MaxTabs = 3
    MaxFrames = 1
    MaxAnnounced = 1
    \* NetworkSession
    Handles = {1, 2, 3}
    Subscriptions = {3}
    NoHandle = NoHandle
    MaxWork = 2
    \* DebugHistory
    DebugSessions = {sa, sb}
    Writers = {c1, c2}
    Nobody = Nobody
    TornFrame = TornFrame
    NoCursor = NoCursor
    Retention = 1
    MaxDebugEvents = 2
    MaxFaults = 1
INVARIANTS WorkbenchTypeOK DebugFollowsPlan StepRunsOneNode ReplayIsGapless EffectOncePerKey
    CallsAreSound NodesHitChosenTab NothingStaysOpen
    HistoryIsWhole
PROPERTIES DebugSettles StreamIsServed UiConverges
CHECK_DEADLOCK FALSE
