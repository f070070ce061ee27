SPECIFICATION FairSpec
CONSTANTS
    g1 = g1
    g2 = g2
    f1 = f1
    f2 = f2
    s1 = s1
    s2 = s2
    Grant = {g1}
    NumMilestones = 1
    Module = {"Grants"}
    MaxTime = 0
    Funder = {f1}
    HighSecurity = {g1}
    Signer = {s1, s2}
    Signers <- TwoSign
    Cleared = {g1}
    EntryPoints = {"config"}
    MilestoneAmount = 100
    Funding = {60}
    Configs <- PlainConfig
    BondAmount = 10
    CollateralAmount = 20
    ForfeitBps = 5000
    TreasurySet = TRUE
    BondTerm = 0
    MaxDeposited = 120
PROPERTIES
    ReadyGrantsEnd
CHECK_DEADLOCK FALSE
