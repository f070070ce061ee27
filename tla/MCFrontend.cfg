SPECIFICATION FrontSpec
CONSTANTS
    Parts = {"batch", "form", "zone", "viewer", "history", "board", "search", "notices", "storage", "council", "shell", "dashboard", "list", "boxes"}
    Waiting = {1, 2}
    Wallets = {1, 2}
    BatchMax = 1
    MaxFetches = 2
    Budgets = {3}
    MaxMilestones = 3
    MaxReviewerSeats = 4
    DraftDays = 0
    MaxTyped = 4
    MinSeats = 1
    MaxSeats = 2
    MaxBoxEdits = 6
    Images = {1}
    Papers = {2}
    Uploading = {1, 2}
    Content <- PlainAndImage
    Viewer = {1, 2}
    Download = {1, 2}
    Gateways <- TwoGateways
    MaxPicks = 3
    MaxLooks = 3
    HistoryPage = 1
    Asking = {1, 2}
    MaxTxs = 3
    MaxAsks = 3
    Status = {"open"}
    Words = {"bridge"}
    FoundFor <- TwoPages
    MaxClicks = 3
    MaxListFaults = 1
    Queries = {"b", "r"}
    Catalogue <- ThreeGrants
    WordsOf <- WordsAsked
    ApiHits <- Indexed
    Leaders <- Ranked
    StartsWith <- Starting
    MilestonesOf <- TwoMilestones
    Loading = {1, 2}
    MaxKeys = 2
    MaxSearchFaults = 1
    PageCap = 2
    PageSizes = {0, 1, 3}
    MaxHydrates = 4
    Holder = {"w1", "w2"}
    CouncilHolder = {}
    Payloads = {{}, {"w1"}, {"w1", "w2"}}
    MaxKept = 2
    MaxToasts = 2
    MaxReconnects = 1
    MaxTold = 3
    MaxBellClicks = 2
    tab1 = tab1
    tab2 = tab2
    Tab = {tab1, tab2}
    Options <- TwoPreferences
    Default <- AtFirst
    Watchable = {"g1", "g2", "g3"}
    WatchMax = 2
    MaxSettings = 3
    CouncilWallets = {"c1", "c2"}
    OtherWallets = {"o"}
    Case = {"m1", "m2"}
    Loader = {1, 2}
    MaxTurns = 4
    MaxPanelFaults = 2
    DashWallet = {"w1", "w2"}
    DashAsk = {1, 2, 3}
    MaxDashTurns = 4
    MaxDashFaults = 1
    Keys = {"g", "r", "?", "/", "j", "Enter", "Escape"}
    MaxGrid = 2
    MaxPresses = 3
    MaxOutages = 1
INVARIANTS
    
    
    ShellIsSoundOnAllPages
PROPERTIES
    StepsAreAsMeant
SYMMETRY TabSymmetry
CHECK_DEADLOCK FALSE
