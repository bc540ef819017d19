SPECIFICATION Spec
CONSTANTS
    Event = {e1, e2}
    Job = {j1}
    BucketSize = 2
    Lookback = 3
    DayLength = 4
    Retain = 9
    MaxTime = 6
    Faults = {}
PROPERTY RowsKeepTheirEvents
CHECK_DEADLOCK FALSE
