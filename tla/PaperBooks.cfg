SPECIFICATION Spec
CONSTANTS
    MinEdge = 100
    MinRemaining = 5
    MaxRemaining = 300
    MaxCI = 15
    MaxStale = 3
    MinDepth = 20000
    MinGap = 10
    f1 = f1
    f2 = f2
    f3 = f3
    f4 = f4
    t1 = t1
    t2 = t2
    Fill = {f1, f2, f3, f4}
    Ticker = {t1, t2}
    Side = {"yes", "no"}
    Size = 1
    Price = 40
    Fee = 1
    MaxOpen = 3
    StopLoss = 40
    StrikeCap = 90
    MaxDay = 1
    MaxRestarts = 1
    Faults = {"persist"}
SYMMETRY FillSymmetry
INVARIANTS
    TypeOK
    StrikeExposureCapped
    DayLossBounded
    PnlMatchesRows
PROPERTIES
    LedgerKept
    FrozenInOneProcess
CHECK_DEADLOCK FALSE
