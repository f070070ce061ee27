SPECIFICATION ClientSpec
CONSTANTS
    Parts = {"sdkTransactions", "sdkEvents", "webTransactions", "optimistic", "balances", "grantPage", "fundForm", "webEvents", "liveHook", "signatures", "signers", "wallet", "views", "funding"}
    call1 = call1
    call2 = call2
    Call = {call1, call2}
    MaxSends = 2
    MaxNetErrors = 1
    MaxRpcFaults = 2
    Sub = {call1, call2}
    Request = {1, 2}
    HasSocket = TRUE
    MaxRetries = 1
    MaxEmitted = 2
    PageLimit = 1
    MaxEventFaults = 1
    Exec = {1, 2}
    MaxRpcErrors = 1
    MaxOthers = 1
    Mut = {1, 2}
    Budget = 3
    AutoClose = 2
    MaxReaders = 2
    MaxOffers = 2
    Donor = {"a", "b"}
    HeldBy <- TwoPurses
    Thousand = 3
    MaxDonations = 3
    Fetch = {1, 2}
    MaxBalanceChanges = 2
    MaxHorizonErrors = 1
    FeedAsk = {1, 2}
    MaxWebRetries = 1
    MaxWebEvents = 2
    MaxWebEventFaults = 2
    MaxSources = 3
    PollEvery = 5
    MaxBackOff = 9
    Key = {1, 2}
    Required = 2
    KeyHint <- SameKey
    KeyWeight <- EqualWeights
    SubmitCall = {1, 2}
    MaxCopies = 3
    MaxSessions = 2
    MaxWalletTurns = 2
    Address = {"a", "b"}
    ReviewerWallet = {"a"}
    MaxConnects = 1
    MaxWalletFaults = 1
    ViewCall = {1, 2}
    Funding = {1, 2}
    Needs = {1, 2}
    ViewTtl = 2
    Allowed = 2
    BaseReserve = 1
    FeeBuffer = 1
    Balance = 5
    MaxClock = 3
    MaxReadFaults = 1
INVARIANTS
    
    MoneyIsTrue
    
PROPERTIES
    TheSettledStaySettled
SYMMETRY ClientSymmetry
CHECK_DEADLOCK FALSE
