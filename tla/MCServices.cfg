SPECIFICATION LiveSpec
CONSTANTS
    Parts = {"sync", "stream", "webhook", "mail", "sdkTransactions", "webTransactions", "optimistic", "balances", "sdkEvents", "webEvents", "board", "search", "notices", "storage", "council", "shell", "dashboard"}
    grant1 = grant1
    contributor1 = contributor1
    Grant = {grant1}
    Contributor = {contributor1}
    RecipientOf <- PayTo
    Disputed = {1}
    Worker = {w1}
    w1 = w1
    w2 = w2
    MaxVersion = 2
    MaxLedger = 2
    MaxEvents = 2
    Span = 1
    Page = 1
    MaxRequests = 1
    MaxFaults = 1
    MaxRows = 2
    Poll = {1, 2}
    Take = 1
    MaxConnections = 2
    MaxCuts = 1
    Delivery = {a1}
    Task = {w1, w2}
    MaxAttempts = 2
    DisableAfter = 2
    Filter = {TRUE}
    MaxTroubles = 0
    Mail = {1, 2}
    MaxTries = 2
    BatchSize = 2
    Milestone = {1}
    Windows = {3, 1}
    MaxDay = 5
    Deadlines = {2, 3, 4}
    MaxMoves = 1
    a1 = a1
    a2 = a2
    Reviewer = {a1, a2}
    AppealRequest = {w1, w2}
    MaxSeatRows = 2
    MaxRejections = 1
    MaxSeatChanges = 1
    c1 = c1
    Council = {c1}
    DisputeRequest = {1, 2}
    MaxDisputes = 2
    MaxCalls = 4
    Editor = {w1, w2}
    MaxEditCalls = 4
    u1 = u1
    u2 = u2
    Account = {u1, u2}
    FirstAdmin = {u1}
    RoleRequest = {1, 2}
    MaxRoleCalls = 3
    MaxId = 3
    MaxTick = 2
    Fine = 2
    Limit = 1
    Author = {1, 2}
    AnswerRequest = {1, 2}
    Ttl = 1
    MaxHours = 3
    call1 = call1
    call2 = call2
    Call = {call1}
    MaxSends = 2
    MaxNetErrors = 1
    MaxRpcFaults = 2
    Sub = {call1}
    Request = {1, 2}
    HasSocket = TRUE
    MaxRetries = 1
    MaxEmitted = 2
    PageLimit = 1
    MaxEventFaults = 1
    Exec = {1, 2}
    MaxRpcErrors = 0
    MaxOthers = 0
    Mut = {1, 2}
    Budget = 3
    AutoClose = 2
    MaxReaders = 2
    MaxOffers = 2
    Donor = {"a", "b"}
    HeldBy <- TwoPurses
    Thousand = 3
    MaxDonations = 3
    Fetch = {1, 2}
    MaxBalanceChanges = 1
    MaxHorizonErrors = 1
    FeedAsk = {1, 2}
    MaxWebRetries = 1
    MaxWebEvents = 2
    MaxWebEventFaults = 1
    MaxSources = 3
    PollEvery = 5
    MaxBackOff = 9
    Key = {1, 2}
    Required = 2
    KeyHint <- SameKey
    KeyWeight <- EqualWeights
    SubmitCall = {1, 2}
    MaxCopies = 3
    MaxSessions = 2
    MaxWalletTurns = 2
    Address = {"a", "b"}
    ReviewerWallet = {"a"}
    MaxConnects = 2
    MaxWalletFaults = 1
    ViewCall = {1, 2}
    Funding = {1, 2}
    Needs = {1, 2}
    ViewTtl = 2
    Allowed = 2
    BaseReserve = 1
    FeeBuffer = 1
    Balance = 5
    MaxClock = 4
    MaxReadFaults = 1
    Waiting = {1, 2}
    Wallets = {1, 2}
    BatchMax = 1
    MaxFetches = 3
    Budgets = {3}
    MaxMilestones = 3
    MaxReviewerSeats = 4
    DraftDays = 0
    MaxTyped = 4
    MinSeats = 1
    MaxSeats = 2
    MaxBoxEdits = 6
    Images = {1}
    Papers = {2}
    Uploading = {1, 2}
    Content <- PlainAndImage
    Viewer = {1, 2}
    Download = {1, 2}
    Gateways <- TwoGateways
    MaxPicks = 3
    MaxLooks = 3
    HistoryPage = 1
    Asking = {1, 2}
    MaxTxs = 3
    MaxAsks = 4
    Status = {"open"}
    Words = {"bridge"}
    FoundFor <- TwoPages
    MaxClicks = 2
    MaxListFaults = 0
    Queries = {"b"}
    Catalogue <- ThreeGrants
    WordsOf <- WordsAsked
    ApiHits <- Indexed
    Leaders <- Ranked
    StartsWith <- Starting
    MilestonesOf <- TwoMilestones
    Loading = {1, 2}
    MaxKeys = 1
    MaxSearchFaults = 1
    PageCap = 2
    PageSizes = {0, 1, 3}
    MaxHydrates = 4
    Holder = {"w1", "w2"}
    CouncilHolder = {}
    Payloads = {{}, {"w1"}, {"w1", "w2"}}
    MaxKept = 2
    MaxToasts = 2
    MaxReconnects = 1
    MaxTold = 2
    MaxBellClicks = 1
    tab1 = tab1
    tab2 = tab2
    Tab = {tab1, tab2}
    Options <- TwoPreferences
    Default <- AtFirst
    Watchable = {"g1", "g2"}
    WatchMax = 1
    MaxSettings = 2
    CouncilWallets = {"c1", "c2"}
    OtherWallets = {"o"}
    Case = {"m1"}
    Loader = {1, 2}
    MaxTurns = 3
    MaxPanelFaults = 2
    DashWallet = {"w1"}
    DashAsk = {1, 2, 3}
    MaxDashTurns = 3
    MaxDashFaults = 1
    Keys = {"g", "r", "?", "/", "j", "Enter", "Escape"}
    MaxGrid = 2
    MaxPresses = 1
    MaxOutages = 1
PROPERTIES
    
    CallsAndEventsEnd
    PagesSettle
CHECK_DEADLOCK FALSE
