SPECIFICATION Spec
CONSTANTS
    g1 = g1
    g2 = g2
    f1 = f1
    f2 = f2
    s1 = s1
    s2 = s2
    Grant = {g1, g2}
    NumMilestones = 1
    Module = {"Grants"}
    MaxTime = 1
    Funder = {f1}
    HighSecurity = {}
    Signer = {s1, s2}
    Signers <- TwoSign
    Cleared = {g1, g2}
    EntryPoints = {"config", "bond", "collateral", "cancel", "refund_funder", "clock"}
    MilestoneAmount = 100
    Funding = {120}
    Configs <- PlainConfig
    BondAmount = 10
    CollateralAmount = 20
    ForfeitBps = 5000
    TreasurySet = TRUE
    BondTerm = 0
    MaxDeposited = 120
INVARIANTS
    Solvent

    
CHECK_DEADLOCK FALSE
