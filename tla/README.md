# KalshiTrader in TLA+

KalshiTrader scans Kalshi's 15-minute crypto binaries, prices them against a
spot reference, and takes positions on paper, or with real money through a live
executor. This directory specifies what in it moves positions and money, the
services the trading loop reads, and the scripts that keep its records. TLC
checks the modules on small instances; TLAPS proves what matters most for every
instance.

Paths are those of `PROJECT.json`: `src/src/...` is the Python package root,
`src/scripts/...` the scripts, `src/docs/...` the documents, `src/tests/...` the
tests.

## 1. Inventory

| Component | State | Operations | What makes it hard |
|---|---|---|---|
| Live executor (`execution/kalshi_live_executor.py`) | resting and filled orders, notional per strike, P/L per day, settlements; all in memory | submit, poll_pending (cancel on timeout, match fills), reconcile | every REST call can fail, be lost or be answered late; the exchange moves between two calls; statements raise after memory changed; nothing is reloaded on a restart |
| Paper executor (`execution/kalshi_paper_executor.py`) | open fills, notional, P/L per day, settlements | submit, reconcile | a statement that raises in the middle of a settlement; the daily stop across midnight and restarts |
| Risk rules (`risk/kalshi_rules.py`) | none: ten pure rules over an opportunity and a context | decide | boundaries, defaults of a partial context, which side of the book a rule reads |
| Shadow evaluator (`execution/kalshi_shadow_evaluator.py`) | pending reconciliations with attempts; rows of shadow_decisions | tick: score, persist, hook, register, reconcile | failures of the lookup, attempts, hooks that raise, a restart with unreconciled rows |
| Scanner (`run_kalshi_shadow.py`) | the market catalog, last fetch per ticker | discover, snapshot_books, sample_reference, run_loop, the paper bridge | stale books and stale times when a fetch fails, catalog pruning, flags read from a poller |
| Market source (`market/kalshi_market.py`) | book cache with time stamps and lifecycle | apply_snapshot, apply_delta, update_lifecycle, get_quotes, is_healthy | staleness, two critical sections per fetch, threads of the fetch pool |
| References (`market/crypto_reference.py`, `coinbase_ws.py`, `kraken_ws.py`, `basket_ws.py`) | a cached price per venue, the recorded tick | start, stop, record_tick, get_spot, get_price, get_age_us | socket threads against the scanner, reconnects, a join that times out, two reads that are not one |
| Strategies (`strategy/*.py`) | rolling price histories | evaluate, record_reference_tick | windows pruned at one moment and read at another, quotes older than the prices, missing prices |
| Runtime flags (`runtime_flags.py`) | a JSON file, the poller's copy and mtime | load, save, apply_dashboard_patch, FlagsPoller.get | two writers, a reader that looks at mtime, corrupt files |
| Event log and timing (`observability/*.py`, `phase_timing_rollup.py`) | daily JSONL files, rows per bucket | timed_phase, record, run, persist | torn lines, jobs that overlap or die, midnight, a window that cuts a bucket |
| Dashboard (`dashboards/kalshi.py`) | none of its own | read pages, patch flags, the page of phase timings with its fallback | concurrent requests, rows that change under it |
| Data pulls (`scripts/*_pull.py`) | a cursor, rows not yet committed, the tables | page, retry, give up, store | pages that shift as records appear, runs that overlap, die and repeat; tables without a key |
| Migrations (`scripts/migrate_db.py`) | the schema | statements, then ALTERs whose errors are partly swallowed | databases of older releases, locks, deaths, transactions of Postgres |
| Research and ideas (`research/series_registry.py`, `scripts/kalshi_*`) | tables of series, terms, candidates, users, trades; files beside them | discover, download, upsert, build, write | several stores per step, partial commits, repeated downloads |
| REST client, platform adapters, ops events, alerting, configuration, backtest, analysis | see section 9 | | I/O, reporting and offline computation |

How they interact: `run_loop` calls the coordinator (catalog, books, references)
and then `tick` of the evaluator; `tick` turns cached books into quotes, asks the
strategy, persists a decision row, and calls the decision hook, which asks the
runtime flags and the risk engine and submits to the paper executor. Pending
markets are looked up after their expiry and the answer goes back through the
reconcile hook to the executor. The live executor has the same three entry
points (submit, poll_pending, reconcile) and the same risk rules. Socket threads
write the prices the coordinator samples; a pool of workers fills the book cache;
every phase leaves an event in the log, which a cron job rolls up for the
dashboard. The scripts share only the database with all of this.

Properties that make each part correct, and that the modules state: the caps of
the risk rules hold for what is *really* held, not for what was held when they
were asked; every order, fill and cent is counted exactly once, in memory and in
the tables; the executor's view of the exchange is never ahead of it; no position
is taken in a closed market; everything that was opened is settled some day; an
operator's flags reach the runner and stay as they were set; a price, a book and a
signal are of the time they claim to be of; a record of the exchange is stored
as often as the table allows and none is skipped; what a script leaves behind
when it dies is consistent, and the next run completes it.

The shipped loop (`main`) wires the paper bridge only. The live executor is
driven by the tests and documented as the next step (its docstring: `poll_pending()`
is called by the run loop each tick); it is modelled with the caller's contract
that its docstring and tests give.

## 2. Modules

| Module | Stands for | Proofs |
|---|---|---|
| `LiveExecutor` (`MCLiveExecutor`) | the live executor against the exchange | `LiveExecutorProofs` |
| `RiskRules` | the ten rules and the engine, as operators | used by the proofs of the executors |
| `PaperExecutor` (`MCPaperExecutor`) | the paper executor; also the abstract specification of what the scanner does to positions | `PaperExecutorProofs` |
| `PositionLedger` | the abstract specification of both executors: positions, P/L per day, the cap and the daily stop | implemented in `LiveExecutorProofs`, `PaperExecutorProofs`, `ShadowScannerProofs` |
| `ShadowScanner` (`MCShadowScanner`) | coordinator, loop, evaluator and bridge, composed with `PaperExecutor` by `INSTANCE` | `ShadowScannerProofs` |
| `RuntimeFlags` | flags file, dashboard handlers, poller | `RuntimeFlagsProofs` |
| `ReferenceFeeds` | socket threads, fetchers, basket, recorded tick | `ReferenceFeedsProofs` |
| `MCServices` | `RuntimeFlags` and `ReferenceFeeds`, alone and as a basket, in one run | `ServicesProofs` |
| `PriceWindows` | the rolling windows and signals of the three strategies | `MarketDataProofs` |
| `MarketBook` | the book cache, its workers, tiers, deltas and quotes | `MarketDataProofs` |
| `PhaseTimings` | event log, rollup job and the dashboard's page | `MarketDataProofs` |
| `DataPulls` | five scripts that page through history | `RecordsProofs` |
| `Migrations` | `migrate_db` on SQLite and Postgres | `RecordsProofs` |
| `IdeasPull`, `ResearchCollect` | the social data; series, contract terms and registry | `RecordsProofs` |
| `MCRecords` | the seven modules from `PriceWindows` to `ResearchCollect` in one run | `RecordsProofs`, `MarketDataProofs` |

`X_Variant` next to a definition `X` is `X` with one plausible bug. No
specification uses the variants; substituting one for `X` makes TLC violate a
property, which shows that the property depends on the code and not on the shape
of the model.

`MCServices` and `MCRecords` are sums. Their parts share no state in the code,
so an interleaving of them would show nothing: the variable `part` picks one,
its module moves, and the others keep a single initial state. `MCRecords` gives
the parts their variables by `INSTANCE ... WITH`.

### LiveExecutor

The executor is one thread, so its handlers never overlap; what interleaves with
them is the exchange. Each handler is split exactly at its REST calls (`pc` names
the call about to be made) and everything between two calls is one action:

| Code | Actions |
|---|---|
| `submit` up to `create_order` | `BeginSubmit` (rules, flags, a fresh client order id) |
| one attempt of `create_order` | `CreateAnswered`, `CreateRefused`, `CreateReplyLost` |
| `poll_pending`: `_cancel_order` per aged order, `get_fills`, `_match_and_apply_fill` | `PollStart`, `CancelDone` / `CancelRaised`, `PollFills`, `ApplyFill` |
| `reconcile` | `ReconcileStart`, `SettleOne` / `SettleRaised` |
| exchange, clock, operator, process | `XFill`, `XResolve`, `Age`, `NewDay`, `FlipKill`, `FlipAsset`, `Restart` |

Memory comes before the row in every handler, as in the code, so a statement that
raises (`"persist"`) leaves memory changed. All orders have one size and one
price; rules that look at the quote alone are left to `RiskRules`. The circuit
breaker may refuse any submit, which is a submit that does not happen. Two
variables are the exchange's own truth (`xstate`, `xqty`), and `underKill` is
history for one property.

### PaperExecutor and RiskRules

`submit` and `reconcile` talk to nobody but the database and run in the scanner's
thread: one action each. `submit` writes its row before memory, so an insert
that raises changes nothing; `Reconcile(t, S)` settles the fills `S` before a
statement raises, all of them if none does. The P/L bucket is the UTC day of the
settlement.

### PositionLedger

The live executor's docstring calls the paper variant "same public surface".
`PositionLedger` is what that surface promises, without exchange, markets, rows
and strikes: a position is `Take`n below the cap on a day that has not reached the
stop, is `Cancel`ed, or is `Realize`d once, on one day that has begun, for no more than
it can win or lose; `Pop` is the moment from which a reconcile no longer counts it
as open, and what a statement that raises leaves behind is dropped and never
comes back. `Forget` is the restart, P/L and all. Both executors define `Stands`,
where each order or fill stands, as the refinement mapping:

| In the ledger | Live executor | Paper executor |
|---|---|---|
| new | no submit yet, one in progress, or one that failed | no row |
| held | in `_resting` or `_filled_by_ticker` | in `_open_fills` |
| due | popped by the reconcile in progress | (one action) |
| settled | in `_settlements` | in `_settlements` |
| dropped | canceled, or filled or lost and in no collection | a row, but in no collection |

### ShadowScanner

The thread of `run_loop`: `Discover` or `SkipDiscover`, `Snapshot`, then per
evaluator `StartTick` (get_quotes) or `SkipTick` (strategy flag off), `Decide` and
`Hook` per recommended quote, `StartReconcile`, one `Lookup...` per ready market,
`EndTick`. The steps are separate because time passes between them (`Tick`
happens anywhere when calls are slow), and because the operator, the exchange and
a crash may come between any two. What the strategy sees is an arbitrary member
of `Signal`; where it comes from is the subject of `PriceWindows`. A market has
one `stamp`, which is both the time of its book and of its last fetch;
`MarketBook` has the two apart. Exceptions are modelled where they land: the
hook's are swallowed by the evaluator, those of `persist_decision` end the
process.

`Paper == INSTANCE PaperExecutor`: `Hook` takes `Paper!Submit` and
`LookupResolved` takes `Paper!Reconcile`, so positions change in the way
`PaperExecutor` says and in no other.

### RuntimeFlags

A version of the file is its content, whether it parses, and a modification time
that no other version has. `DashboardLoad` and `DashboardSave` are the two ends
of a handler, which has no `await` in between; an edit by hand may come there.
`_refresh` is split at its reads: `Stat`, `Compare`, `Acquire`, `ReadFile`,
`Assign`, per thread, as the class promises to be safe for worker threads.

### ReferenceFeeds

One action per critical section of a socket thread (`Message`, `Closes`, `Error`,
`Wake`), of its owner (`Start`, `StopSet`, `StopReturns`, the join with or without
its thread) and of `sample_reference` with a fetcher (`BeginSample`, `GetPrice`,
`GetAge`, `EndSample`). A price is its age, which `Tick` increases, since age is
all that staleness is about. The fetcher's two reads are two steps; `raced` notes
a tick between them. A basket takes the median of what is fresh, which can be
as old as the oldest; that one is recorded. The Coinbase and the Kraken class
differ in URLs and message formats only.

### PriceWindows

`Sample`, `FetchBook`, `GetQuotes`, one `Evaluate...` per strategy, in one thread,
with time between any two. The queues of the lag and the average strategy forget
at a record only (`Recorded`), `evaluate` looks at windows of its own; `history`
keeps every tick, for comparison. The normal distribution is replaced by what its
symmetry gives for every volatility: a chance on a grid that lies on the side of
one half on which the estimate lies of the strike. The averages are compared
by cross-multiplication.

### MarketBook

The coordinator's turn (`BeginTurn`, `EndSnapshot`, `GetQuotes`), one worker per due
ticker with its two critical sections (`ApplySnapshot`, `UpdateLifecycle`) or a
failed request, and `Delta`. Time runs in parts of a second, because `_is_due`
compares whole seconds with exact stamps. A ladder is a sequence of prices.
`Delta` may come before the first snapshot: it makes the entry, as `apply_delta` does.

### PhaseTimings

`Stamp` and `Append` are two steps of `record`, since the time is taken before the
lock; `AppendFails` tears a line. A job reads the file of today, then that of the
day of `since_us`, then replaces rows one statement at a time, then prunes. A
row is how often it counts each event. `PageCount` is the dashboard's sum with its
fallback.

### DataPulls, Migrations, IdeasPull, ResearchCollect

`DataPulls` has one walk with the differences between the scripts as predicates
of `kind`: `Keyed`, `Autocommit`, `Raises`, `PastStart`, `NoCursor`, `AtStart`. A page
is any newest part of what lies beyond the cursor, or a span of time for candles.
`Dies` leaves the newest rows of a page, if rows are committed one by one.

`Migrations` has the list of statements as data and the effect of SQL on a set of
tables, columns and indexes. Databases of older releases lack what later ones
added. On SQLite a statement is in effect at once; on Postgres a failed one
aborts the transaction, even if its error is swallowed.

`IdeasPull` stores leaderboards (committed at once), then users one by one:
`PullProfile` writes the row, `StoreTrades` the trades and commits both. A profile
may come under another slug than asked for (`nick`), and a user's trades may
have no source. `ResearchCollect` walks its steps in order, each committed as the
script does, with the files written beside the tables.

## 3. Runs

| Run | Question | Instance | Distinct states |
|---|---|---|---|
| `live_faults` | do the books stay consistent with each other, the tables and the exchange? | 2 orders, 1 market, 2 attempts, 2 days, 1 restart, every fault except the flags | 963 464 |
| `live_exposure` | is every step one of the ledger, and do the cap and the kill switch bind what is at risk on the exchange? | 3 orders against a cap of 2, the NO side (`live_faults` has YES), fills in pieces, flags, failing DELETEs and statements | 1 809 928 |
| `live_poll` | does every resting order end? | 2 orders, partial fills, missing order ids, failing DELETEs and statements | 119 220 |
| `live_retry` (violation) | does a failed submit leave no live order? | lost create replies | |
| `paper_books` | is every step one of the ledger, and do the limits, the P/L and the daily stop hold across half settlements, midnight and a restart? | 4 fills, 2 markets, cap 3, stop below one loss, strike cap of 2 fills | 467 034 |
| `scanner_faults` | is a fill ever taken in a closed market? | 1 market, failing discover, fetch, lookup and statements, slow steps, every flag, 1 restart | 1 754 304 |
| `scanner_settles` | is every row realized and every fill settled? | 1 market, failing discover and fetch, slow steps, late resolution | 19 244 |
| `scanner_give_up` (violation) | do open fills stay registered? | one failed lookup | |
| `services` | do the flags reach every reader, and is a feed read by one thread, recent when healthy, and back after any failure? | flags: 2 threads, 2 versions, edits by hand, removal, both restarts; feeds: 2 threads of one venue with stops, or 2 venues | 807 935 |
| `records` | do the parts that keep records lose, repeat or mix nothing? | see below | 1 395 414 |
| `rollup` (violation) | does a row keep the events it counts? | 2 events, 1 job | |
| `no_price` (violation) | is nothing submitted without a price? | no sample before the first quote | |

Deadlock is not checked: every instance stops where its bounds (client ids,
fills, days, runs, time) run out.

**What the properties say.** *Executors.* `LedgerKept` is the refinement of
`PositionLedger`: no interleaving of creates, polls, settlements and failures takes
a position past the cap or the stop, or settles or revives one that is gone.
`NotionalExact`, `ExposureCap` and `StrikeExposureCapped` relate the numbers the risk
rules read to what is held, in memory or on the exchange. `ExposureCap` has partial
fills: an order leaves `_resting` with its first fill record while the rest of it is
still live, and must keep its slot. It leaves out the orders that a cancel `CutShort`
after a part had filled, as no book has that part. `OrdersMatchExchange`,
`NeverOverBooked`, `CanceledIsDead` and `RowNeverAhead` relate memory, tables and
exchange after any sequence of failures. `PnlCountedOnce` and `PnlMatchesRows` say
that each settlement is counted once, on its UTC day and at its market's outcome. `DayLossBounded` says how
far beyond the stop a day can go, since the rule looks at realized P/L only;
`FrozenInOneProcess`, that a stopped day takes no fill until the process ends.
`KillLeaksAtMostOne` is what the kill switch really guarantees. *Scanner.*
`NoFillAfterClose` needs two rules together, one on the age of the book and one
on the time left that the book carries. `OpenFillsPending`, `RowsRealized` and
`FillsSettle`: nothing that was opened is forgotten. *Services.* `NeverStaleForGood`,
`CatchesUp`; `OneReader`, `FeedRecovers`; `HealthyIsRecent` gives the bound the
code has for a price behind a healthy source: the limit of the fetcher, the time
of a sample and the limit of `is_healthy` added up. *Records.* `PageCountsOnce` and
`RunsHeal` for the rollup; `SignalsRestOnWindows` (queues against the whole
history, recency of a lag signal, what the average is credited with, the
estimate between two of the prices it is made of); `QuotesAreTrue` (time
left and book are of one fetch, or there is no time left) and `QuotedBooksAreFresh`; `StoredOncePerRun` and `DoneIsComplete`; `MigratesWhole`;
`UserIsWhole`; `ResearchIsStored`.

**Bounds.** Each names a scenario it has to reach. Two orders let one be cancelled
while the other fills and shares its strike; three against a cap of two let a
slot be freed and taken again. Size 2 is the smallest order that fills in two
pieces. Two attempts make one retry. Two days and one restart put midnight and a
crash between a fill and its settlement. `paper_books` has a stop no larger than
the loss of one fill and a cap of three, so that the stop trips with two positions
still open, and a strike cap between two and three fills. The scanner's clock
has five units for a market that closes at 3 with a stale limit of 1, a shortest
time left of 2 and intervals of 1 and 2, so that every book can be stale, fresh,
or left over from before the close; two attempts and one failed lookup make a
market old enough to be given up. Markets of the scanner do not interact except
through the paper executor, whose run has two; the theorems hold for any number.

*services.* Two threads and two versions of the file are what it takes for an old
version to overwrite a newer one. Two socket threads of a venue are an old one
and its successor; one error and one doubling of the sleep show the reconnect;
ages up to 4 tell the bound of 3 from what is beyond it. The basket has one thread
per venue and no owner that restarts it, as `main` has none.

*records.* Rollup: one event, two jobs, buckets of 2, a lookback of 3 and days of 4
units up to time 5, so that a window crosses midnight and cuts a bucket. Windows:
three samples of two prices, one on the strike, a window of 1 for the lag and of 2
for the average, a close at 4: a queue can be pruned, be left unpruned, and be
read before, in and after the last window. Books: one ticker, two price levels,
half seconds, the two tiers. Pulls: four records, one before the range, two in it
and one behind it, spans of candles that take two pages for the range, two runs that
may overlap or follow each other, pages of every length. Migrations:
every database an older release can have left, two overlapping runs, one fault.
Ideas: two users, one trade, one leaderboard, two runs. Research: two series, two
documents whose URLs share a file name, two revisions, commits every second row,
two runs.

**Fairness.** `LiveExecutor`: the loop calls `poll_pending` each tick
(`kalshi_live_executor.py`, module docstring), so a poll starts and runs to its
end; time passes; strong fairness on `CancelDone`, `PollFills` and `ApplyFill`
says that a call which may fail does not fail for ever. Nothing is assumed of
submits, of the exchange filling orders, or of the operator. `ShadowScanner`:
`run_loop` loops until stopped (weak fairness of `Loop`), the clock advances, and
the exchange resolves a closed market; lookups do not fail in `scanner_settles`,
because with failures the property is false (`scanner_give_up`). `MCServices`: the
loop calls `get` on each turn and a started refresh runs on (`Polls`); `CatchesUp`
assumes that the runner is not restarted for ever and that the file stays. A
venue that is connected sends messages, a sleep ends, the loop samples and time
passes (`OneFeeds`, `TwoFeed`); `FeedRecovers` speaks of feeds that are not
stopped for good. Errors are bounded in number: a network that is down for ever
brings no price.

## 4. Theorems

All proofs are checked by TLAPS to the last leaf. Assumptions on constants are
the named ASSUMEs of the modules, which TLC evaluates in the runs, or stand in
the theorem.

*The ledger.* `LiveKeepsLedger` and `PaperKeepsLedger`: `Spec => LedgerKept`, step by
step. Beside the executors' own invariants the live one needs `LedgerInv`: no P/L
is booked ahead of the clock, and a create call in progress was asked for on a day
that was not stopped, or is answered on the next, which has no P/L yet.
`ScannerKeepsLedger` carries it to the running scanner.

*LiveExecutorProofs.* `IInv` joins the types, `Bookkeeping` (the collections
partition the orders by status, and the loops in progress hold only orders that
are still theirs), `RoomForCurrent` (the create call in progress has passed the
cap; without it `OpenPositionCap` is not inductive, as the position is counted
after the call), `ExchangeLag` (what was heard of the exchange is true of it) and
the safety properties themselves. It gives `TypeCorrect`, `OpenPositionsCapped`,
`NotionalIsExact`, `ExchangeAgrees`, `FillsNeverOverBooked`, `CanceledStaysDead` and
`RowsNeverAhead` for any number of orders, markets, days and restarts under every
fault. `DailyPnlIsTheSettlements` counts P/L by sets of single contracts, so that
the sum grows by exactly one order when one is settled and no induction over a
sum is needed; a settled market no longer changes its outcome. `DayLossIsBounded`
says of real money what the paper executor's theorem says of paper; its invariant
`LossInv` speaks of two days at once, today's and that of a reconcile that began
before midnight, and counts the orders due besides those held. TLC has checked
`LossInv` on the instances of `live_faults` and `live_exposure`. `KillLeaksOneCreate`
adds that orders placed under an engaged switch are the one whose call was in
progress; it assumes that `asset_by_ticker` knows every ticker.
`CapitalAtRiskCapped` assumes that the faults it cannot survive are absent (creates
are acknowledged with an id, no restart): `live_retry` shows the first outside. Its
invariant `RiskIsHeld` has every order that is at risk held or cut short. `DayLossIsBounded` assumes a stop above zero, as `RiskAssumption`
does for the paper executor.

*PaperExecutorProofs.* `IInv` adds `NotionalCoversOpen` (a failed settlement
leaves notional too high, never too low) and `LossBound` (today's loss if every
open position were to lose), which carries `DayLossBounded` across a day change.
It gives `TypeCorrect`, `OpenPositionsCapped`, `StrikeCapHolds`,
`DayLossIsBounded`; on top of it `PnlIsThatOfTheRows` and, with `RowsAreOurs`,
the action property `FrozenUntilRestart`.

*ShadowScannerProofs.* `ImplementsPaper`: `Spec => Paper!Spec`. The theorems about
the paper executor are carried over: `PaperBooksHold` has its bounds and its P/L in
the running scanner, `TypeCorrect` the types of both. `NoFillOnClosed` assumes
`MaxStale < MinRemaining` (3 s and 5 s in the shipped rules) and uses
`LeftOfStamp` and `OppOfBook`: the time left that a decision carries is that of
the moment its book was fetched, and no snapshot comes between a decision and its
hook. `OpenFillsArePending` assumes that no lookup fails.

*RuntimeFlagsProofs, ReferenceFeedsProofs, ServicesProofs.* `NoStaleFlags`, for any
number of threads and versions: the invariant adds `LockHeld` and `Noted`: once
the noted time is that of the file, some thread has yet to read it, or the one
that holds the lock has read it, or the poller has it. For the feeds: a live
thread is the current one (so `start`, which looks at the current one only, never
makes a second), and each price the fetcher holds or has accepted is no older than
the limit and the time of the sample so far, unless the reads raced. `FeedsTyped`
has the counters within their bounds. `ServicesProofs` carries these to the
composition that the run checks: `FeedsHaveOneReader`, `HealthySourcesAreRecent`,
`ServedFlagsNeverStale`, `ServicesTyped`.

*RecordsProofs.* `ResearchStored`: rows in memory and in the table describe the
file of their URL, which is why a file that is there must not be asked for again.
`UserStaysWhole`: between a profile and its trades the run that wrote the one is the
only one that can commit the other, as it holds the write lock.
`FinishedPullIsComplete` rests on `WalkOf`: every record of the range that is not
stored, or waiting to be, lies beyond the cursor. New records are newer than the
walk. `StoredAtMostOncePerRun` counts, for each record, the runs that may still
store it (`Storing`): its rows and those runs together never exceed the runs that
were started. `RunsMigrateTheWhole`, for any number of overlapping runs and any
database of an older release: a run sees what each statement it has passed leaves
behind (`Walked`), at most one run has a transaction open on Postgres
(`OneTransaction`), and what a statement has made is never taken away. The list of
statements is the code's own, so the proof looks at each of them. It assumes that
`Backend` names the two that `migrate_db` knows.

*MarketDataProofs, the cache.* `QuotesStayTrue` and `QuotesStayFresh`. Ladders are
sequences in ascending order without repetition, which snapshots and deltas keep, so
that the best price is an end of the sequence. Freshness is an argument about times
alone: when a turn begins, the last fetch of a book that is not due lies less than
its tier's interval and one second back (`FetchedInTime`), since `_is_due` compares
whole seconds, and a turn has a longest duration. `CacheInv` adds that book and time
left come from one fetch, except while a worker stands between its two locked
sections, and that an entry which only deltas have made has no time left.
`BooksAssumption`: prices are
finitely many numbers, lengths of time natural numbers, a second not zero.

*MarketDataProofs, the rollup.* `PageCountsEventsOnce` and the action property
`RunsHealTheTable`. A job has counted (`CountInv`) each event once,
nothing but what it has read, and all it has read that was whole when it started;
its rows are those it makes unless another job wrote meanwhile. Nothing is stamped
in the future (`LogInv`), so the files of a window are those of two days at most. The
second assumes `Lookback <= DayLength` beside `RollupAssumption`: the job reads the
files of two days only, and the shipped look-back is a fraction of a day.

*MarketDataProofs, the windows.* `SignalsStayOnWindows`. `WindowsInv` has for each
queue that it holds the newest ticks of the whole history and that what it forgot
is older than its window (`TailOf`), although it is pruned when a tick is recorded
and read later. `WindowsAssumption` asks `AvgWindow <= Retained` of the buffer of the
average: "2 min - covers the 60s avg window + slack"
(`partial_avg_fair_value.py:241`). The estimate's place between two of its prices
rests on lemmas about totals (`TotalBounds`), which are counted as sets of units
(`Total`), so that no induction over a sum is needed. `RecordsTyped` adds up the types of all
seven parts; `RecordsAssumption` joins the assumptions of the parts, finitely many
runs and at least one start.

Only model-checked: the liveness properties (`RestingResolves`, `RowsRealized`,
`FillsSettle`, `CatchesUp`, `FeedRecovers`), since no installed prover handles ENABLED
and with it fairness; and the four runs that show a divergence. Every safety
invariant and every action property of the other runs is stated by a theorem.

## 5. Divergences that a run shows

- `live_retry`: "Kalshi rejects duplicates with the same key, so retry is safe"
  (`src/src/kalshi_api.py:261`), but the rejection of the duplicate makes `submit`
  report a failure while the first order rests, tracked by nobody.
- `scanner_give_up`: an unsettled market "will retry on the next tick"
  (`src/src/execution/kalshi_shadow_evaluator.py:67`), but attempts are counted on
  such answers, so one failed lookup drops an old market.
- `rollup`: "Re-running over the same window produces the same final state —
  idempotent by design" (`src/src/phase_timing_rollup.py:17`), but the window cuts
  a bucket, whose complete row is replaced by one of its last events.
- `no_price`: `ReferenceFeedStaleRule` is "fail-closed"
  (`src/src/risk/kalshi_rules.py:195`), but the bridge hands it the time of the book,
  and a missing price counts as a chance of 0.

## 6. Divergences met while modelling, without a run

*Live executor and rules.*
- A DELETE that took effect but whose reply was lost is answered 404 for ever:
  the order stays in `_resting` and keeps its slot and notional
  (`kalshi_live_executor.py:486-494`). `live_poll` excludes this fault.
- An order without an `order_id` is marked canceled without any DELETE.
- The plan says "Handles partial fills"
  (`src/docs/kalshi_crypto_fair_value_scanner_plan.md:209`), but the first record
  takes the order out of `_resting` (`kalshi_live_executor.py:534`): the records of
  the rest match nothing, so a settlement counts one part only and the P/L the
  stop reads is short of the account's. If a poll cancels an order before it has
  seen the record of a part, none of its contracts is booked (`CutShort`).
- `get_fills` asks for one page of 100 records.
- A ticker that `asset_by_ticker` does not know bypasses the kill switch, which is
  nested under its asset (`kalshi_live_executor.py:276-289`).
- The daily stop freezes entries "until the day rolls over" (`kalshi_rules.py:174`),
  but a restart forgets it (`kalshi_paper_executor.py:140`).
- `BookDepthRule` speaks of "the side we're buying" and reads the bids of that
  side, while a buyer is matched with the bids of the other
  (`kalshi_rules.py:235-241`, `kalshi_market.py:84-87`).

*Scanner, market and references.*
- With a strategy's flag off, its reconciliation stops as well, although the
  docstring of `run_loop` says that the evaluator still polls data
  (`run_kalshi_shadow.py:825-832`).
- Decision rows of an earlier process are not looked up again; the statement that
  would select them is unused (`kalshi_shadow_evaluator.py:108`).
- `execution_enabled` is documented for live execution but also stops paper fills
  (`runtime_flags.py:60-61`, `run_kalshi_shadow.py:582-589`), and `scan_enabled`
  takes effect at the next discover only.
- `_is_due` truncates the time of now to seconds, so that a tier of one second may
  be passed over for almost two (`run_kalshi_shadow.py:118-119`, 291-307).
- `is_healthy` takes the oldest of all books, those of closed markets included
  (`kalshi_market.py:492`). A delta stamps its book as new without refreshing
  `time_remaining_s`, and one before the first snapshot makes a quotable book of a
  single level with no time left (516-528), which `TimeWindowRule` refuses; `seq` is stored and never compared. `get_quotes` means to skip
  an unsupported comparator, but builds the quote first, whose constructor raises
  (`kalshi_market.py:451-473`, `core/models.py:105`).
- A fetcher reads a price and then its age; a tick in between makes an old price
  look fresh, without any bound on its age (`coinbase_ws.py:222-224`,
  `basket_ws.py:68-73`).
- `get_spot` serves a price of any age; with several sources its fallback returns
  the one inserted first, even if it is the outlier. The bridge passes the time
  of the quote as that of the reference tick (`run_kalshi_shadow.py:593-596`).
- `start` after a `stop` whose join timed out returns without effect: the old
  thread ends a moment later and the feed is left without one. Calling it
  again starts it, which is how `FeedRecovers` is to be read.
- `partial_avg` without any tick in the window weighs the spot by the time left
  only, so the estimate is (time left / 60) of the price
  (`partial_avg_fair_value.py:106-113`; its docstring: it "degrades to naive spot
  model", 57-60).

*Flags, timings and dashboard.*
- "The dashboard cannot flip it back" (`runtime_flags.py:13`), but it can release the
  kill switch (`runtime_flags.py:217`, 239-247).
- A flags file that is removed, written and removed again while a thread reloads
  it leaves the poller with flags of a file that no longer exists; and an edit by
  hand between load and save of a handler is overwritten.
- The line that follows a torn one in the event log is lost as well.
- Rollup jobs that overlap may leave an older row over a newer one; `RunsHeal`
  leaves these out (`mixed`).
- The largest of the buckets' percentiles is shown as an upper bound of that of the
  window, which it is not (`dashboards/kalshi.py:577-580`).
- The ages in the freshness panel are "always now" by a comment
  (`dashboards/kalshi.py:325-326`) and are anchored at the last decision;
  `events_by_level` counts the latest 50 events only; `pnl_per_dec` of the totals
  divides by all decisions, reconciled or not.
- Alerts are sent from the thread that raises them, and the Discord backend
  answers success for events it filters out.

*Scripts.*
- Candles stop at the first empty page, so a stretch without trades longer than a
  page ends the pull; `DoneIsComplete` assumes there is none.
- Re-runs of `kalshi_trades_pull` and `coinbase_historical_pull` store rows again;
  `historical_pull` replaces rows and sets the columns it does not know
  (settlement, expiration value, last price) to NULL.
- `public_pull`, `series_discover` and `registry_build` never commit on Postgres,
  where the registry file is written while its rows are rolled back; contract
  terms commit in part. `ResearchCollect` is on SQLite.
- `migrate_db` "works against SQLite or Postgres" (`migrate_db.py:3`), but on Postgres
  it completes on no database, new ones included: the first ALTER finds the column
  that CREATE has just made, its "already exists" is swallowed, the transaction is
  aborted by it and the next statement raises (`migrate_db.py:493-500`, 533-545). A SQLite database whose entries lack `time_period`
  raises at the index on it (184), before the ALTER that would add it.
  `MigratesWhole` speaks of the runs that report success.
- A trade two users share belongs to the one pulled last; trades without an id are
  stored once per user; leaderboard entries are inserted again by every run. The
  ideas pull holds SQLite's write lock across up to 100 requests of pages.
- Two documents whose URLs end in the same name share a file, so the second is
  described by the first; a torn PDF is taken for whole by the next run
  (`kalshi_contract_terms_pull.py:121`, 143). Collection runs that overlap could
  leave a row unlike its file; the model has one at a time.

## 7. Hazards

`PROJECT.json` lists what is hard to test at the line where it bites, with the
properties that would notice. Those without a property say why none can hold or
why the model cannot reach them.

## 8. Plan

Done: the core (live executor, rules, paper executor, scanner, flags);
`MarketBook`, `ReferenceFeeds` and `PriceWindows`; the offline parts with state
(`PhaseTimings`, `DataPulls`, `Migrations`, `IdeasPull`, `ResearchCollect`);
`PositionLedger`, implemented by both executors; proofs of every safety invariant
and action property that the passing runs check.

Left, in order:
1. A ledger that keeps the day of a reconcile, so that the bound on a day's loss
   is a theorem of the ledger and no longer one of each executor.
2. The partner evaluators in `ShadowScanner`, with shared tables and pending lists
   of their own.
3. `MarketBook` under `ShadowScanner` in place of its single `stamp`, and the proof
   that its quotes are those the scanner assumes.
4. The backtest's accounting against that of the executors.

## 9. Not modelled, and why

Pages of the dashboard other than the ones above, alerting and ops events render
or record what others decided, and nothing reads them back. Configuration is
read once and appears as CONSTANTS. Signing, throttling and transport of the REST
client are I/O, and so are the adapters over an external library. The values of
the probability models, the registry's scores and the calibration of volatility
are real-valued; only their comparisons matter here and those are modelled.
The backtests and the analysis of simulations read tables once, sequentially,
and print a report. `kalshi_track_reference.py` stores one price a second and
keeps nothing. `main`'s wiring and command line are not state.
