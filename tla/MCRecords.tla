----------------------------- MODULE MCRecords ------------------------------
(***************************************************************************)
(* The parts around the trading loop that keep records, in one run.  They  *)
(* share no state, so each behaviour is one of a single part and the       *)
(* others stay as they were: the sum of their state graphs.                *)
(***************************************************************************)
EXTENDS Integers

CONSTANTS
    Part,                                        \* the parts
    Event, Job, BucketSize, Lookback, DayLength, Retain, Faults,
    Strike, LagWindow, MovePct, AvgWindow, Retained, Lo, Hi, Ask,
    MinFill, MinEdge, Fee, MaxStale, MaxTicks,
    Ticker, Second, HotWindow, HotInterval, ColdInterval, MaxLoop,
    Kind, Run, MaxRecord, From, To, Chunk, MaxTries,
    Backend, MaxFaults,
    Slug, Trade, Named, Boards,
    Series, Url, SameName, MaxVersion, CommitEvery,
    \* of several parts
    Close, Whole, MaxStarts, RollupTime, WindowTime, BookTime, Reference, Level

VARIABLES
    part,
    rollupTime, stamp, written, appending, torn, job, started, known, counted, done, mixed, rollup,
    now, history, ticks, buffer, fetched, quote, signal,
    time, began, phase, tickers, due, worker, book, updated, left, lastFetched,
    whole, failed, quotes,
    kind, exists, newest, table, pull, cursor, uncommitted, tries, existed, pulls,
    backend, schema, found, stage, next, view, aborted, faults,
    entries, profiles, trades, walk, number, board, seen, todo, user, pages,
    pending, sourced, nick, walks, traded,
    listed, version, series, file, terms, candidates, registry, step, staged,
    memory, urls, rows, count, starts

rollupVars  == <<rollupTime, stamp, written, appending, torn, job, started, known, counted, done,
                 mixed, rollup>>
windowVars  == <<now, history, ticks, buffer, fetched, quote, signal>>
bookVars    == <<time, began, phase, tickers, due, worker, book, updated, left, lastFetched,
                 whole, failed, quotes>>
pullVars    == <<kind, exists, newest, table, pull, cursor, uncommitted, tries, existed, pulls>>
migrateVars == <<backend, schema, found, stage, next, view, aborted, faults>>
ideasVars   == <<entries, profiles, trades, walk, number, board, seen, todo, user, pages,
                 pending, sourced, nick, walks, traded>>
collectVars == <<listed, version, series, file, terms, candidates, registry, step, staged,
                 memory, urls, rows, count, starts>>
allVars     == <<part, rollupVars, windowVars, bookVars, pullVars, migrateVars, ideasVars,
                 collectVars>>

Rollup  == INSTANCE PhaseTimings WITH
               MaxTime <- RollupTime, time <- rollupTime, stage <- job, rows <- rollup
Windows == INSTANCE PriceWindows WITH MaxTime <- WindowTime, Price <- Reference
Books   == INSTANCE MarketBook WITH
               MaxTime <- BookTime, Price <- Level, known <- tickers, stamp <- updated
Pulls   == INSTANCE DataPulls WITH stage <- pull, staged <- uncommitted, starts <- pulls
Migrate == INSTANCE Migrations
Ideas   == INSTANCE IdeasPull WITH stage <- walk, starts <- walks
Collect == INSTANCE ResearchCollect WITH stage <- step, entries <- memory, todo <- urls

\* A part that does not move has one initial state.
Init ==
    /\ part \in Part
    /\ Rollup!Init /\ Windows!Init /\ Books!Init /\ Pulls!Init /\ Migrate!Init
    /\ Ideas!Init /\ Collect!Init
    /\ part = "pulls" \/ kind = CHOOSE k \in Kind : TRUE
    /\ part = "migrations" \/ (backend = "sqlite" /\ schema = {})
    /\ part = "ideas" \/ (sourced = {} /\ nick = [s \in Slug |-> s])
    /\ part = "collect" \/ listed = {}

Next ==
    /\ UNCHANGED part
    /\ \/ /\ part = "rollup" /\ Rollup!Next
          /\ UNCHANGED <<windowVars, bookVars, pullVars, migrateVars, ideasVars, collectVars>>
       \/ /\ part = "windows" /\ Windows!Next
          /\ UNCHANGED <<rollupVars, bookVars, pullVars, migrateVars, ideasVars, collectVars>>
       \/ /\ part = "books" /\ Books!Next
          /\ UNCHANGED <<rollupVars, windowVars, pullVars, migrateVars, ideasVars, collectVars>>
       \/ /\ part = "pulls" /\ Pulls!Next
          /\ UNCHANGED <<rollupVars, windowVars, bookVars, migrateVars, ideasVars, collectVars>>
       \/ /\ part = "migrations" /\ Migrate!Next
          /\ UNCHANGED <<rollupVars, windowVars, bookVars, pullVars, ideasVars, collectVars>>
       \/ /\ part = "ideas" /\ Ideas!Next
          /\ UNCHANGED <<rollupVars, windowVars, bookVars, pullVars, migrateVars, collectVars>>
       \/ /\ part = "collect" /\ Collect!Next
          /\ UNCHANGED <<rollupVars, windowVars, bookVars, pullVars, migrateVars, ideasVars>>

Spec == Init /\ [][Next]_allVars

-----------------------------------------------------------------------------
(* The properties are those of the modules, where they are stated.         *)

\* The type invariant of the part that moves.
RecordsTypeOK ==
    CASE part = "rollup"     -> Rollup!TypeOK
      [] part = "windows"    -> Windows!TypeOK
      [] part = "books"      -> Books!TypeOK
      [] part = "pulls"      -> Pulls!TypeOK
      [] part = "migrations" -> Migrate!TypeOK
      [] part = "ideas"      -> Ideas!TypeOK
      [] part = "collect"    -> Collect!TypeOK

\* Phase timings: a page counts an event once, and the next run heals a row.
PageCountsOnce == part = "rollup" => Rollup!PageCountsOnce
RunsHeal       == [][Rollup!HealsAtItsEnd]_rollupVars

\* Rolling windows: what a lag signal and an estimate of the average rest on.
SignalsRestOnWindows == part = "windows" => Windows!SignalsRestOnWindows

\* The book cache: quotes of one fetch with the best price, and their age.
QuotesAreTrue       == part = "books" => Books!QuotesAreTrue
QuotedBooksAreFresh == part = "books" => Books!QuotedBooksAreFresh

\* The scripts: history pulls, migrations, social data, research.
StoredOncePerRun == part = "pulls" => Pulls!StoredOncePerRun
DoneIsComplete   == part = "pulls" => Pulls!DoneIsComplete
MigratesWhole    == part = "migrations" => Migrate!MigratesWhole
UserIsWhole      == part = "ideas" => Ideas!UserIsWhole
ResearchIsStored == part = "collect" => Collect!ResearchIsStored
=============================================================================
