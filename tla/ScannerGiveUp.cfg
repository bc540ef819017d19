SPECIFICATION Spec
CONSTANTS
    MinEdge = 100
    MinRemaining = 2
    MaxRemaining = 4
    MaxCI = 15
    MaxOpen = 2
    StopLoss = 60
    MaxStale = 1
    MinDepth = 200
    StrikeCap = 90
    MinGap = 10
    StratLo = 1
    StratHi = 6
    StratDepth = 50
    StratEdge = 300
    StratCI = 100
    HotWindow = 1
    HotInterval = 1
    ColdInterval = 2
    DiscoverEvery = 2
    ReconcileDelay = 1
    ReconcileMaxAttempts = 2
    btc = btc
    m1 = m1
    f1 = f1
    f2 = f2
    Asset = {btc}
    AssetOf <- OneAssetOf
    Open <- OneOpen
    Close <- OneClose
    Ticker = {m1}
    Fill = {f1, f2}
    Side = {"yes"}
    Size = 1
    Price = 40
    Fee = 1
    Signal <- GoodOnly
    Powers = {}
    Faults = {}
    MaxTime = 5
    DayLength = 3
    MaxDay = 1
    MaxRestarts = 0
    MaxLookupFailures = 1
INVARIANTS
    OpenFillsPending
CHECK_DEADLOCK FALSE
