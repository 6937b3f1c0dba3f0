SPECIFICATION FairSpec
CONSTANTS
    Amount = 1999
    SettlementId = "settlement"
    \* two rates a deployment may carry, and 0, which is not a rate
    ConfigRates = {0, 250, 300}
    OtherPrices = {}
    MaxRestarts = 1
    MaxStorageFaults = 0
INVARIANTS
    RecoveryScheduled
PROPERTIES
    ChargeIsSettled
    SettledIsBooked
    GateIsReleased
    KeepsPromise
CHECK_DEADLOCK FALSE
