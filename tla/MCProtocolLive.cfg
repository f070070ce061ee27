SPECIFICATION FairSpec
CONSTANTS
    g1 = g1
    g2 = g2
    f1 = f1
    f2 = f2
    s1 = s1
    s2 = s2
    Grant = {g1}
    NumMilestones = 2
    Module = {"Grants"}
    MaxTime = 0
    Funder = {f1, f2}
    HighSecurity = {}
    Signer = {s1}
    Signers <- TwoSign
    Cleared = {g1}
    EntryPoints = {"config", "cancel", "refund_funder", "timer", "split", "swap_and_fund"}
    MilestoneAmount = 50
    Funding = {60}
    Configs <- ThresholdConfig
    BondAmount = 10
    CollateralAmount = 20
    ForfeitBps = 5000
    TreasurySet = TRUE
    BondTerm = 0
    MaxDeposited = 120
PROPERTIES
    ReadyGrantsEnd
CHECK_DEADLOCK FALSE
