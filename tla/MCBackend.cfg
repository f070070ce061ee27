SPECIFICATION BackendSpec
CONSTANTS
    Parts = {"sync", "stream", "webhook", "mail", "sweep", "appeals", "disputes", "records", "pages", "roles", "answers"}
    grant1 = grant1
    contributor1 = contributor1
    Grant = {grant1}
    Contributor = {contributor1}
    RecipientOf <- PayTo
    Disputed = {1}
    Worker = {w1, w2}
    w1 = w1
    w2 = w2
    MaxVersion = 2
    MaxLedger = 2
    MaxEvents = 2
    Span = 1
    Page = 1
    MaxRequests = 1
    MaxFaults = 1
    MaxRows = 3
    Poll = {1, 2}
    Take = 2
    MaxConnections = 2
    MaxCuts = 1
    Delivery = {a1, a2}
    Task = {w1, w2}
    MaxAttempts = 2
    DisableAfter = 2
    Filter = {TRUE, FALSE}
    MaxTroubles = 1
    Mail = {1, 2, 3}
    MaxTries = 2
    BatchSize = 2
    Milestone = {1}
    Windows = {3, 1}
    MaxDay = 5
    Deadlines = {2, 3, 4}
    MaxMoves = 1
    a1 = a1
    a2 = a2
    Reviewer = {a1, a2}
    AppealRequest = {w1, w2}
    MaxSeatRows = 2
    MaxRejections = 1
    MaxSeatChanges = 1
    c1 = c1
    Council = {c1}
    DisputeRequest = {1, 2}
    MaxDisputes = 2
    MaxCalls = 4
    Editor = {w1, w2}
    MaxEditCalls = 4
    u1 = u1
    u2 = u2
    Account = {u1, u2}
    FirstAdmin = {u1}
    RoleRequest = {1, 2}
    MaxRoleCalls = 3
    MaxId = 3
    MaxTick = 2
    Fine = 2
    Limit = 1
    Author = {1, 2}
    AnswerRequest = {1, 2}
    Ttl = 1
    MaxHours = 3
INVARIANTS
    ChainIsFollowed
    DeliveriesAreSound
    CasesAreSound
    AnswersAreKept
    WalksAreFaithful
SYMMETRY BackendSymmetry
CHECK_DEADLOCK FALSE
