SPECIFICATION Spec
CONSTANTS
    c1 = c1
    c2 = c2
    t1 = t1
    Cid = {c1, c2}
    Ticker = {t1}
    Mapped = {t1}
    Side = {"yes"}
    Size = 1
    Price = 40
    Fee = 1
    MaxOpen = 2
    StopLoss = 50
    StrikeCap = 500
    MaxAttempts = 2
    MaxDay = 0
    MaxRestarts = 0
    Faults = {"create_reply_lost"}
SYMMETRY CidSymmetry
INVARIANTS
    RetrySafe
CHECK_DEADLOCK FALSE
