SPECIFICATION SyncSpec
CONSTANTS
    f1 = f1
    f2 = f2
    l1 = l1
    given = given
    Handlers = {h1, h2}
    Fps = {f1}
    NoFp = NoFp
    EventIds = {given}
    NoId = NoId
    Unclaimed = Unclaimed
    Absent = Absent
    LocalId <- RemoteIds
    Alerts <- RemoteAlerts
    RemoteEnabled = TRUE
    Persistent = TRUE
    StoreErrors = TRUE
    MaxAttempts = 2
    MaxCrashes = 1
    Feed <- RemoteFeed
    ErrorBodies <- RemoteErrors
    Stamps = {0, 1, 2, 3}
    Epoch <- RemoteEpoch
    Lookbacks = {1, 3}
    Recents = {1, 2}
    NoRow = NoRow
    NoEvent = NoEvent
    Batches = {1, 2}
    MaxRetries = 2
    MaxRuns = 2
    Manual = {}
INVARIANTS
    AtMostOneAttempt
    NothingSlipsBy
    RowsAgreeWithClaims
    FailuresLookPushed
PROPERTIES
    LedgerSpec
