SPECIFICATION Spec
CONSTANTS
    g1 = g1
    g2 = g2
    f1 = f1
    f2 = f2
    s1 = s1
    s2 = s2
    Grant = {g1, g2}
    NumMilestones = 1
    Module = {"Grants"}
    MaxTime = 0
    Funder = {f1, f2}
    HighSecurity = {g2}
    Signer = {s1, s2}
    Signers <- TwoSign
    Cleared = {g1, g2}
    EntryPoints = {"swap_and_fund", "refund_funder", "lock", "config", "cancel"}
    MilestoneAmount = 100
    Funding = {60}
    Configs <- PlainConfig
    BondAmount = 10
    CollateralAmount = 20
    ForfeitBps = 5000
    TreasurySet = TRUE
    BondTerm = 0
    MaxDeposited = 120
INVARIANTS
    OpenMirrorAgrees
    SignedBeforeRelease
    PaidForApprovedWork
PROPERTIES
    CancelRefunds
CHECK_DEADLOCK FALSE
