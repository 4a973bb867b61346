SPECIFICATION SyncSpec
CONSTANTS
    f1 = f1
    f2 = f2
    l1 = l1
    given = given
    Handlers = {h1, h2}
    Fps = {f1, f2}
    NoFp = NoFp
    EventIds = {l1, given}
    NoId = NoId
    Unclaimed = Unclaimed
    Absent = Absent
    LocalId <- LocalIds
    Alerts <- LocalAlerts
    RemoteEnabled = FALSE
    Persistent = TRUE
    StoreErrors = TRUE
    MaxAttempts = 2
    MaxCrashes = 1
    Feed <- LocalFeed
    ErrorBodies = {}
    Stamps = {0, 1}
    Epoch <- LocalEpoch
    Lookbacks = {1}
    Recents = {1}
    NoRow = NoRow
    NoEvent = NoEvent
    Batches = {1}
    MaxRetries = 1
    MaxRuns = 1
    Manual = {given}
INVARIANTS
    BoundToOwnEvent
    AnswersAgree
    OrphansHaveCauses
