SPECIFICATION Spec
CONSTANTS
    g1 = g1
    g2 = g2
    f1 = f1
    f2 = f2
    s1 = s1
    s2 = s2
    Grant = {g1}
    NumMilestones = 1
    Module = {"Grants"}
    MaxTime = 0
    Funder = {f1}
    HighSecurity = {g1}
    Signer = {s1}
    Signers <- OneSign
    Cleared = {g1}
    EntryPoints = {"gates", "swap_and_pay", "refund_funder", "proposal", "config", "timer", "dispute", "collateral", "collateral_entries", "cancel"}
    MilestoneAmount = 100
    Funding = {100}
    Configs <- PlainConfig
    BondAmount = 10
    CollateralAmount = 100
    ForfeitBps = 5000
    TreasurySet = TRUE
    BondTerm = 0
    MaxDeposited = 100
INVARIANTS
    ProtocolTypeOK
    CompletedMeansApproved
PROPERTIES
    FinalStaysFinal
CHECK_DEADLOCK FALSE
