SPECIFICATION Spec
CONSTANTS
    c1 = c1
    c2 = c2
    c3 = c3
    t1 = t1
    Cid = {c1, c2, c3}
    Ticker = {t1}
    Mapped = {t1}
    Side = {"no"}
    Size = 2
    Price = 40
    Fee = 1
    MaxOpen = 2
    StopLoss = 50
    StrikeCap = 500
    MaxAttempts = 1
    MaxDay = 0
    MaxRestarts = 0
    Faults = {"partial_fill", "flags", "cancel_failed", "cancel_reply_lost", "persist"}
SYMMETRY CidSymmetry
INVARIANTS
    ExposureCap
    KillLeaksAtMostOne
PROPERTIES
    LedgerKept
CHECK_DEADLOCK FALSE
