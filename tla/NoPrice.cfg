SPECIFICATION Spec
CONSTANTS
    Price = {2,3}
    Strike = 2
    LagWindow = 1
    MovePct = 10
    AvgWindow = 2
    Retained = 4
    Lo = 0
    Hi = 5
    Whole = 4
    Ask = {1,3}
    MinFill = 1
    MinEdge = 1
    Fee = 0
    MaxStale = 1
    Close = 4
    MaxTime = 5
    MaxTicks = 3
INVARIANT NoTradeWithoutPrice
CHECK_DEADLOCK FALSE
