\* Units of 15 s and of 50000 USDT.
CONSTANTS
    SpotAmount = 2
    PerpAmount = 1
    SettleTimeout = 2
    TokenLife = 4
    Budget <- MCBudget
SPECIFICATION Spec
INVARIANTS
    ProvisionInv
    ReadyIsFunded
    ArrangedIsOnItsWay
PROPERTY
    ProvisionEnds
\* Provisioning ends.
CHECK_DEADLOCK FALSE
