---------------------------- MODULE PhaseTimings ----------------------------
(***************************************************************************)
(* The path of a phase_timing event: timed_phase stamps it, EventLogger    *)
(* appends it to the file of its UTC day, src/phase_timing_rollup.py,      *)
(* started by cron, aggregates the trailing window of the files into one   *)
(* row per bucket, and the dashboard sums the rows of a window.            *)
(*                                                                         *)
(* Several threads stamp and append, two cron jobs may overlap and either  *)
(* side may die anywhere.  A row is represented by how often it counts     *)
(* each event, from which its count, errors and percentiles follow; one    *)
(* phase stands for all, as a row is about one phase.                      *)
(***************************************************************************)
EXTENDS Integers, FiniteSetsExt

CONSTANTS
    Event,       \* events the scanner records
    Job,         \* runs of the cron entry that may overlap
    BucketSize,  \* bucket_seconds
    Lookback,    \* lookback_minutes
    DayLength,   \* length of a UTC day
    Retain,      \* retain_days, beyond MaxTime if omitted
    MaxTime,     \* bound on the clock
    Faults       \* "tear": an append leaves half a line; "die": a job dies

VARIABLES
    time,
    stamp,     \* ts_us of an event, None before it is recorded
    written,   \* events whose line can be decoded
    appending, \* stamped, not yet appended
    torn,      \* days whose file ends in half a line
    stage,     \* where a job is
    started,   \* its now_us
    known,     \* what the files held then (history)
    counted,   \* how often it has read each event
    done,      \* buckets whose row it has replaced
    mixed,     \* another job has changed rows since it started (history)
    rows       \* phase_timing_rollup: how often the row of a bucket counts an event

log    == <<stamp, written, appending, torn>>
jobs   == <<stage, started, known, counted, done, mixed>>
ptVars == <<time, log, jobs, rows>>

None == -1

Day(t)    == t \div DayLength
Floor(t)  == (t \div BucketSize) * BucketSize
Bucket    == {Floor(t) : t \in 0..MaxTime}
Nothing   == [e \in Event |-> 0]

Init ==
    /\ time = 0
    /\ stamp = [e \in Event |-> None] /\ written = {} /\ appending = {} /\ torn = {}
    /\ stage = [j \in Job |-> "idle"] /\ started = [j \in Job |-> 0]
    /\ known = [j \in Job |-> {}] /\ counted = [j \in Job |-> Nothing]
    /\ done = [j \in Job |-> {}] /\ mixed = [j \in Job |-> FALSE]
    /\ rows = [b \in Bucket |-> Nothing]

-----------------------------------------------------------------------------
(* timed_phase and EventLogger.record                                      *)

\* The phase is over; record takes the time before it takes the lock.
Stamp(e) ==
    /\ stamp[e] = None
    /\ stamp' = [stamp EXCEPT ![e] = time]
    /\ appending' = appending \cup {e}
    /\ UNCHANGED <<time, written, torn, jobs, rows>>

\* The line goes to the file of the day of its stamp.  Behind half a line it
\* cannot be decoded either.
Append(e) ==
    /\ e \in appending
    /\ appending' = appending \ {e}
    /\ LET d == Day(stamp[e]) IN
         IF d \in torn THEN torn' = torn \ {d} /\ UNCHANGED written
                       ELSE written' = written \cup {e} /\ UNCHANGED torn
    /\ UNCHANGED <<time, stamp, jobs, rows>>

\* The process dies, or the disk is full, in the middle of a line or before it.
AppendFails(e) ==
    /\ e \in appending /\ "tear" \in Faults
    /\ appending' = appending \ {e}
    /\ torn' \in {torn, torn \cup {Day(stamp[e])}}
    /\ UNCHANGED <<time, stamp, written, jobs, rows>>

-----------------------------------------------------------------------------
(* phase_timing_rollup.run                                                 *)

\* since_us is not rounded down to the start of a bucket.
Since(j) == started[j] - Lookback

Start(j) ==
    /\ stage[j] \in {"idle", "ended"}
    /\ stage' = [stage EXCEPT ![j] = "today"]
    /\ started' = [started EXCEPT ![j] = time]
    /\ known' = [known EXCEPT ![j] = written]
    /\ UNCHANGED <<time, log, counted, done, mixed, rows>>

\* collect_recent_events, one file: lines from since_us on.
Lines(j, day) == {e \in written : Day(stamp[e]) = day /\ stamp[e] >= Since(j)}
Adding(j, E)  == [e \in Event |-> counted[j][e] + (IF e \in E THEN 1 ELSE 0)]

ReadToday(j) ==
    /\ stage[j] = "today"
    /\ counted' = [counted EXCEPT ![j] = Adding(j, Lines(j, Day(started[j])))]
    /\ stage' = [stage EXCEPT ![j] = "since"]
    /\ UNCHANGED <<time, log, started, known, done, mixed, rows>>

\* The file of the day of since_us, if that is another day.
OtherDay_Always(j) == TRUE
OtherDay_Never(j) == FALSE
OtherDay(j) == Day(Since(j)) # Day(started[j])

ReadSince(j) ==
    /\ stage[j] = "since"
    /\ counted' = [counted EXCEPT ![j] = Adding(j, IF OtherDay(j) THEN Lines(j, Day(Since(j))) ELSE {})]
    /\ stage' = [stage EXCEPT ![j] = "persist"]
    /\ UNCHANGED <<time, log, started, known, done, mixed, rows>>

\* aggregate_events: events are grouped by the bucket of their stamp, without
\* the bucket that is still open.
Closed(j, b) == b < Floor(started[j])

Aggregate(j) ==
    [b \in Bucket |-> [e \in Event |->
        IF Closed(j, b) /\ Floor(stamp[e]) = b THEN counted[j][e] ELSE 0]]

\* persist: the row of every bucket with an event is replaced, by a statement
\* that commits on its own, between those of another job.
Mixed(j) == [k \in Job |-> mixed[k] \/ (k # j /\ stage[k] \notin {"idle", "ended"})]

Missing(j) == {b \in Bucket \ done[j] : Aggregate(j)[b] # Nothing}

Upsert(j) ==
    /\ stage[j] = "persist" /\ Missing(j) # {}
    /\ LET b == Min(Missing(j)) IN
         /\ rows' = [rows EXCEPT ![b] = Aggregate(j)[b]]
         /\ done' = [done EXCEPT ![j] = @ \cup {b}]
    /\ mixed' = Mixed(j)
    /\ UNCHANGED <<time, log, stage, started, known, counted>>

Pruned(j) == [b \in Bucket |-> IF b < started[j] - Retain THEN Nothing ELSE rows[b]]

Ends(j, how) ==
    /\ stage' = [stage EXCEPT ![j] = how]
    /\ started' = [started EXCEPT ![j] = 0]
    /\ known' = [known EXCEPT ![j] = {}]
    /\ counted' = [counted EXCEPT ![j] = Nothing]
    /\ done' = [done EXCEPT ![j] = {}]
    /\ mixed' = [(IF how = "ended" THEN Mixed(j) ELSE mixed) EXCEPT ![j] = FALSE]
    /\ UNCHANGED <<time, log>>

Persist(j) ==
    /\ stage[j] = "persist" /\ Missing(j) = {}
    /\ rows' = Pruned(j) /\ Ends(j, "ended")

\* The rows written before the end stay.
Die(j) ==
    /\ "die" \in Faults /\ stage[j] \notin {"idle", "ended"}
    /\ Ends(j, "idle") /\ UNCHANGED rows

Tick ==
    /\ time < MaxTime /\ time' = time + 1
    /\ UNCHANGED <<log, jobs, rows>>

Next ==
    \/ \E e \in Event : Stamp(e) \/ Append(e) \/ AppendFails(e)
    \/ \E j \in Job : Start(j) \/ ReadToday(j) \/ ReadSince(j) \/ Upsert(j) \/ Persist(j) \/ Die(j)
    \/ Tick

Spec == Init /\ [][Next]_ptVars
-----------------------------------------------------------------------------
(* The dashboard                                                           *)

\* fetch: the rows of the buckets that start inside the window.
InPage(b, cutoff) == b >= cutoff

\* The sum of their counts: each event of a row, as often as it is counted there.
InRow(b, e) == {b} \X {e} \X (1..rows[b][e])
RollupCount(cutoff) ==
    Cardinality(UNION {InRow(b, e) : b \in {c \in Bucket : InPage(c, cutoff)}, e \in Event})

\* _fetch_phase_timings: the file of today, whatever the window.
TodayCount == Cardinality({e \in written : Day(stamp[e]) = Day(time)})

\* _fetch_phase_rollup falls back to the file when the window has no row.
PageCount(cutoff) == IF RollupCount(cutoff) > 0 THEN RollupCount(cutoff) ELSE TodayCount
-----------------------------------------------------------------------------
\* The type of every variable.
TypeOK ==
    /\ time \in 0..MaxTime
    /\ stamp \in [Event -> 0..MaxTime \cup {None}]
    /\ written \subseteq Event /\ appending \subseteq Event
    /\ torn \subseteq {Day(t) : t \in 0..MaxTime}
    /\ stage \in [Job -> {"idle", "today", "since", "persist", "ended"}]
    /\ started \in [Job -> 0..MaxTime] /\ known \in [Job -> SUBSET Event]
    /\ counted \in [Job -> [Event -> 0..2]]
    /\ done \in [Job -> SUBSET Bucket] /\ mixed \in [Job -> BOOLEAN]
    /\ rows \in [Bucket -> [Event -> 0..2]]

\* "Open (in-progress) buckets are excluded from writes so the numbers in the
\* dashboard never flicker": whatever has a row is over, and belongs there.
OnlyClosedBuckets ==
    \A b \in Bucket, e \in Event :
        rows[b][e] > 0 => b + BucketSize <= time /\ Floor(stamp[e]) = b

\* An event is counted once however the runs overlap, around midnight too: "count
\* [is] exact", so a page never shows more than the log has of its window.
PageCountsOnce ==
    \A cutoff \in 0..time :
        RollupCount(cutoff) > 0 =>
            PageCount(cutoff) <= Cardinality({e \in written : stamp[e] >= cutoff})

\* "Crashes or missed runs self-heal next time": a run that ends has counted
\* every event that was in the files when it started, in each bucket that is
\* over and lies in its window as a whole, on both sides of midnight, whatever
\* runs died before it and whatever late lines the earlier ones missed.  (Rows
\* of another job that writes in the meantime may be older.)
HealsAtItsEnd ==
    \A j \in Job : stage[j] # "ended" /\ stage'[j] = "ended" /\ ~mixed[j] =>
        \A e \in known[j] :
            LET b == Floor(stamp[e]) IN
            /\ b >= Since(j) /\ Closed(j, b)
            /\ b >= started[j] - Retain
            => rows'[b][e] = 1

RunsHeal == [][HealsAtItsEnd]_ptVars

\* "Re-running over the same window produces the same final state - idempotent by
\* design", and a row's count "is exact": a later run does not take away what the
\* row of a bucket has counted.
RowsKeepTheirEvents ==
    [][\A b \in Bucket, e \in Event : rows[b][e] > 0 => rows'[b][e] > 0]_ptVars
=============================================================================
