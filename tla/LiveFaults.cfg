SPECIFICATION Spec
CONSTANTS
    c1 = c1
    c2 = c2
    t1 = t1
    Cid = {c1, c2}
    Ticker = {t1}
    Mapped = {t1}
    Side = {"yes"}
    Size = 2
    Price = 40
    Fee = 1
    MaxOpen = 2
    StopLoss = 50
    StrikeCap = 500
    MaxAttempts = 2
    MaxDay = 1
    MaxRestarts = 1
    Faults = {"create_reply_lost", "cancel_failed", "cancel_reply_lost", "no_order_id", "partial_fill", "close_on_resting", "persist"}
SYMMETRY CidSymmetry
INVARIANTS
    TypeOK
    NotionalExact
    OrdersMatchExchange
    NeverOverBooked
    CanceledIsDead
    RowNeverAhead
    PnlCountedOnce
CHECK_DEADLOCK FALSE
