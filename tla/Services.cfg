SPECIFICATION ServicesSpec
CONSTANTS
    Part = {"flags", "coinbase", "basket"}
    Thread = {a, b}
    Toggle = {x}
    MaxWrites = 2
    ByHand = TRUE
    Coinbase = coinbase
    Kraken = kraken
    Stale = 1
    MaxSlow = 1
    MaxAge = 4
    MaxBackoff = 1
    MaxErrors = 1
INVARIANTS
    ServicesTypeOK
    NeverStaleForGood
    OneReader
    HealthyIsRecent
PROPERTIES
    CatchesUp
    FeedRecovers
CHECK_DEADLOCK FALSE
