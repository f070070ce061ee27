SPECIFICATION EscrowSpec
CONSTANTS
    Funder = {f1, f2, f3, f4}
    Amount = {1, 2}
    MaxDeposits = 6
INVARIANTS
    EscrowTypeOK
    BalanceIsBacked
    RefundsWithinContributions
PROPERTIES
    SharesAreProportional
CHECK_DEADLOCK FALSE
