SPECIFICATION Spec
CONSTANTS
    Part = {"rollup", "windows", "books", "pulls", "migrations", "ideas", "collect"}
    Event = {e1}
    Job = {j1, j2}
    BucketSize = 2
    Lookback = 3
    DayLength = 4
    Retain = 4
    Faults = {"tear", "die"}
    RollupTime = 5
    Reference = {2, 3}
    Strike = 2
    LagWindow = 1
    MovePct = 10
    AvgWindow = 2
    Retained = 4
    Lo = 0
    Hi = 5
    Ask = {1, 3}
    MinFill = 1
    MinEdge = 1
    Fee = 0
    MaxStale = 1
    MaxTicks = 3
    WindowTime = 5
    Ticker = {m1}
    Level = {1, 2}
    Whole = 4
    Close = 4
    Second = 2
    HotWindow = 2
    HotInterval = 1
    ColdInterval = 2
    MaxLoop = 2
    BookTime = 9
    Kind = {"trades", "tape", "markets", "candles", "archive", "archived_tape"}
    Run = {r1, r2}
    MaxRecord = 4
    From = 4
    To = 7
    Chunk = 2
    MaxTries = 2
    MaxStarts = 2
    Backend = {"sqlite", "postgres"}
    MaxFaults = 1
    Slug = {s1, s2}
    Trade = {t1}
    Named = {t1}
    Boards = 1
    Series = {x1, x2}
    Url = {u1, u2}
    SameName = {u1, u2}
    MaxVersion = 2
    CommitEvery = 2
INVARIANTS
    RecordsTypeOK
    PageCountsOnce
    SignalsRestOnWindows
    QuotesAreTrue
    QuotedBooksAreFresh
    StoredOncePerRun
    DoneIsComplete
    MigratesWhole
    UserIsWhole
    ResearchIsStored
PROPERTY RunsHeal
CHECK_DEADLOCK FALSE
