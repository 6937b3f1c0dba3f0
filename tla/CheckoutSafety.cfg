SPECIFICATION Spec
CONSTANTS
    Amount = 1999
    SettlementId = "settlement"
    \* two rates a deployment may carry, and 0, which is not a rate
    ConfigRates = {0, 250, 300}
    OtherPrices = {"2099"}
    MaxRestarts = 1
    MaxStorageFaults = 1
INVARIANTS
    TypeOK
    SingleCharge
    SettledIsCharged
    BookedAtPinnedRate
    CompletedIsBooked
    HeldOfferWatched
PROPERTIES
    ConsentAtEgress
    StoppedIsClosed
    ImplementsPromise
CHECK_DEADLOCK FALSE
