SPECIFICATION PlatformSpec
CONSTANTS
    AuditActions <- RepairedActions
    Emails = {e1, e2}
    Slugs = {s1, s2}
    ApiKeys = {k1}
    AccountRequests = {a1, a2}
    DatasetIds = {d1}
    Contents = {"c1", "c2"}
    DatasetRequests = {r1, r2, r3}
    ConfigIds = {f1}
    ConfigRuns = {n1}
    Urls = {"h1", "h2"}
    ConfigRequests = {u1, u2}
    MaxVersion = 2
    Instances = {i1, i2, i3}
    BuiltinCount = 2
    CustomNames = {m1}
    MetricRequests = {q1, q2}
    RowIds = {1, 2, 3}
    RequestedSize = 2
    Readers = {x1}
    Analyses = {y1}
    Executions = {v1, v2}
    ClaimCount = 2
    ExportPage = 3
    Callers = {c1, c2, c3}
    Limit = 2
    Window = 3
    MaxClock = 4
    Calls = {p1, p2, p3}
    LiveRuns = {l1, l2}
    LiveWorkers = {w1}
    MaxSockets = 3
    ReconnectAttempts = 1
    MaxInFlight = 1
INVARIANTS
    OneFounderPerOrganization
    LateCheckIsFinal
    DeliveriesAreBounded
    DuplicatesAreBounded
    SeededCatalogueIsComplete
    InsertsHideNothing
    CompletedReportsAreComplete
    ExcessIsUnseen
    NobodyWaitsForNothing
    SessionOutlivesAccessToken
    StreamShowsItsRun
PROPERTIES
    RevocationIsFinal
    ReadyNeverRegresses
    EveryCallSettles
CHECK_DEADLOCK FALSE
