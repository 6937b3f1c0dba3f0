SPECIFICATION Spec
CONSTANTS
    Amount = 1999
    SettlementId = "settlement"
    \* two rates a deployment may carry, and 0, which is not a rate
    ConfigRates = {0, 250, 300}
    OtherPrices = {}
    MaxRestarts = 0
    MaxStorageFaults = 2
PROPERTIES
    RecoveryAlarmRemainsFallback
CHECK_DEADLOCK FALSE
