SPECIFICATION FairSpec
CONSTANTS
    c1 = c1
    c2 = c2
    t1 = t1
    Cid = {c1, c2}
    Ticker = {t1}
    Mapped = {t1}
    Side = {"yes"}
    Size = 2
    Price = 40
    Fee = 1
    MaxOpen = 2
    StopLoss = 50
    StrikeCap = 500
    MaxAttempts = 1
    MaxDay = 0
    MaxRestarts = 0
    Faults = {"cancel_failed", "no_order_id", "partial_fill", "persist"}
PROPERTIES
    RestingResolves
CHECK_DEADLOCK FALSE
