----------------------------- MODULE Migrations -----------------------------
(***************************************************************************)
(* scripts/migrate_db.py: the statements that create the tables, then the  *)
(* ALTERs that bring an older database up to date.  A run walks through    *)
(* them; on SQLite each is in effect at once, on Postgres all of them are  *)
(* one transaction.  Runs may overlap, die anywhere, find the database     *)
(* locked, and be started again.                                           *)
(*                                                                         *)
(* The schema is a set of things <<kind, table, column>>.  Only the        *)
(* tables and columns that later releases changed or added are told apart, *)
(* and the indexes on the original columns of a table count as one, on "". *)
(***************************************************************************)
EXTENDS Integers, Sequences

CONSTANTS
    Backend,   \* of "sqlite" and "postgres"
    Run,       \* runs that may overlap
    MaxFaults  \* bound on deaths and timeouts for the lock

-----------------------------------------------------------------------------
(* The statements                                                          *)

Create(t, added) == [does |-> "table", on |-> t, columns |-> added]
Index(t, c)      == [does |-> "index", on |-> t, columns |-> {c}]
Alter(t, c)      == [does |-> "alter", on |-> t, columns |-> {c}]

\* Tables that have not changed since they were first released: those created
\* one after the other count as one, and are whole or not there.
Plain(ts) == Create(ts, {})

\* In the order in which the releases brought them.
ResearchTables ==
    <<Create("markets", {"settlement_ts"}), Index("markets", ""),
      Plain("trades, snapshots, ticks")>>
Decisions == <<Create("shadow_decisions", {}), Index("shadow_decisions", "")>>
IdeasTables ==
    <<Create("profiles", {"metrics"}), Index("profiles", ""),
      Create("entries", {"time_period", "metric_value"}), Index("entries", ""),
      Index("entries", "time_period"), Plain("ideas_trades")>>
LaterTables ==
    <<Plain("series, terms, candidates"), Plain("fills, orders, settlements"),
      Plain("ops_events, rollup")>>
SCHEMA_STATEMENTS == ResearchTables \o Decisions \o IdeasTables \o LaterTables

\* How many of them each release had.
Releases == {0, 5, 11, 14}

SAFE_ALTER_STATEMENTS ==
    <<Alter("markets", "settlement_ts"), Alter("profiles", "metrics"),
      Alter("entries", "time_period"), Alter("entries", "metric_value"),
      Create("coinbase_trades", {}), Index("coinbase_trades", ""),
      Alter("shadow_decisions", "strategy_label"),
      Index("shadow_decisions", "strategy_label")>>

Statement == SCHEMA_STATEMENTS \o SAFE_ALTER_STATEMENTS
IsSafe(i) == i > Len(SCHEMA_STATEMENTS)

-----------------------------------------------------------------------------
(* What a statement makes of a schema                                      *)

Thing(kind, t, c) == <<kind, t, c>>
Has(schema, t, c) == IF c = "" THEN Thing("table", t, "") \in schema
                               ELSE Thing("column", t, c) \in schema

\* What a statement adds; the columns of an ALTER and of an index are one.
Made(s) ==
    CASE s.does = "table" -> {Thing("table", s.on, "")}
                               \cup {Thing("column", s.on, c) : c \in s.columns}
      [] s.does = "index" -> {Thing("index", s.on, c) : c \in s.columns}
      [] s.does = "alter" -> {Thing("column", s.on, c) : c \in s.columns}

\* Only CREATE says IF NOT EXISTS; it leaves a table that is there as it is.
Effect(s, schema) ==
    IF s.does = "table" /\ Has(schema, s.on, "") THEN schema ELSE schema \cup Made(s)

Outcome(s, schema) ==
    CASE s.does = "table" -> "done"
      [] s.does = "index" -> IF \A c \in s.columns : Has(schema, s.on, c)
                             THEN "done" ELSE "no such column"
      [] s.does = "alter" -> IF ~Has(schema, s.on, "") THEN "no such table"
                             ELSE IF \E c \in s.columns : Has(schema, s.on, c)
                             THEN "duplicate column" ELSE "done"

MadeBy(n)  == UNION {Made(Statement[i]) : i \in 1..n}
FullSchema == MadeBy(Len(Statement))

\* The first releases, whose tables lack some of the columns of today.
Older(n, lacks) == {x \in MadeBy(n) : <<x[2], x[3]>> \notin lacks}

Added == {<<x[2], x[3]>> : x \in {y \in FullSchema : y[1] = "column"}}

-----------------------------------------------------------------------------

VARIABLES
    backend, \* the scheme of the URL
    schema,  \* what the database has
    found,   \* what it had at the start (history)
    stage,   \* of each run: "idle", "running", "ended", "raised" or "died"
    next,    \* the statement it is about to send
    view,    \* Postgres: the schema inside its transaction
    aborted, \* Postgres: a statement of the transaction has failed
    faults   \* faults so far

walks  == <<stage, next, view, aborted>>
mgVars == <<backend, schema, found, walks, faults>>

Init ==
    /\ backend \in Backend
    /\ \E n \in Releases : \E lacks \in {{}, Added} \cup {{x} : x \in Added} :
               schema = Older(n, lacks)
    /\ found = schema
    /\ stage = [r \in Run |-> "idle"] /\ next = [r \in Run |-> 1]
    /\ view = [r \in Run |-> {}] /\ aborted = [r \in Run |-> FALSE]
    /\ faults = 0

\* migrate: the scheme of the URL selects the backend.  On Postgres a second run
\* waits for the locks of the first.
Start(r) ==
    /\ stage[r] # "running"
    /\ backend = "postgres" => \A q \in Run : stage[q] # "running"
    /\ stage' = [stage EXCEPT ![r] = "running"]
    /\ view' = [view EXCEPT ![r] = IF backend = "sqlite" THEN {} ELSE schema]
    /\ aborted' = [aborted EXCEPT ![r] = FALSE]
    /\ UNCHANGED <<backend, schema, found, next, faults>>

Pending(r) == stage[r] = "running" /\ next[r] <= Len(Statement)
Sees(r)    == IF backend = "sqlite" THEN schema ELSE view[r]

\* What _run_safe_alters passes over: the error of a column that is there,
\* which the two backends word differently.
Swallowed_Everything(error) == TRUE
Swallowed(error) == error = "duplicate column"

\* What comes of the next statement.  Postgres refuses every statement of a
\* transaction in which one has failed.
Result(r) == IF aborted[r] THEN "transaction aborted"
             ELSE Outcome(Statement[next[r]], Sees(r))

Goes(r, error) == IsSafe(next[r]) /\ Swallowed(error)

Execute(r) ==
    /\ Pending(r) /\ Result(r) = "done"
    /\ LET after == Effect(Statement[next[r]], Sees(r))
       IN  IF backend = "sqlite" THEN schema' = after /\ UNCHANGED view
                                 ELSE view' = [view EXCEPT ![r] = after] /\ UNCHANGED schema
    /\ next' = [next EXCEPT ![r] = @ + 1]
    /\ UNCHANGED <<backend, found, stage, aborted, faults>>

\* Python calls it an exception; if it is swallowed the run goes on.
Fail(r, error) ==
    /\ IF Goes(r, error)
       THEN next' = [next EXCEPT ![r] = @ + 1] /\ UNCHANGED stage
       ELSE stage' = [stage EXCEPT ![r] = "raised"] /\ next' = [next EXCEPT ![r] = 1]
    /\ aborted' = [aborted EXCEPT ![r] = backend = "postgres"]
    /\ UNCHANGED <<backend, schema, found, view>>

Refused(r) == Pending(r) /\ Result(r) # "done" /\ Fail(r, Result(r)) /\ UNCHANGED faults

Locked(r) ==
    /\ backend = "sqlite" /\ Pending(r) /\ faults < MaxFaults
    /\ Fail(r, "database is locked") /\ faults' = faults + 1

\* conn.commit, which has nothing left to do on SQLite.
Commit(r) ==
    /\ stage[r] = "running" /\ next[r] > Len(Statement)
    /\ schema' = IF backend = "sqlite" \/ aborted[r] THEN schema ELSE view[r]
    /\ stage' = [stage EXCEPT ![r] = "ended"] /\ next' = [next EXCEPT ![r] = 1]
    /\ UNCHANGED <<backend, found, view, aborted, faults>>

Die(r) ==
    /\ stage[r] = "running" /\ faults < MaxFaults /\ faults' = faults + 1
    /\ stage' = [stage EXCEPT ![r] = "died"] /\ next' = [next EXCEPT ![r] = 1]
    /\ UNCHANGED <<backend, schema, found, view, aborted>>

Next ==
    \E r \in Run :
        Start(r) \/ Execute(r) \/ Refused(r) \/ Locked(r) \/ Commit(r) \/ Die(r)

Spec == Init /\ [][Next]_mgVars

-----------------------------------------------------------------------------
(* Properties                                                              *)

TypeOK ==
    /\ backend \in Backend
    /\ schema \subseteq FullSchema /\ found \subseteq FullSchema
    /\ stage \in [Run -> {"idle", "running", "ended", "raised", "died"}]
    /\ next \in [Run -> 1..(Len(Statement) + 1)]
    /\ view \in [Run -> SUBSET FullSchema] /\ aborted \in [Run -> BOOLEAN]
    /\ faults \in 0..MaxFaults

\* A database whose table of leaderboard entries is older than its column
\* time_period: the index on that column is created before the ALTER.
TooOld == Thing("table", "entries", "") \in found
          /\ Thing("column", "entries", "time_period") \notin found

\* A run that ends leaves the whole schema, whatever release the database
\* came from and whichever runs died in it or overlapped: no table, no later
\* column and no index is passed over.  Without faults SQLite raises on a
\* database that is too old, and on no other.  A Postgres database that is not
\* migrated as a whole is left as it was found.
MigratesWhole ==
    /\ (\E r \in Run : stage[r] = "ended") => schema = FullSchema
    /\ backend = "postgres" => schema \in {found, FullSchema}
    /\ backend = "sqlite" /\ faults = 0 =>
           \A r \in Run : stage[r] = "raised" => TooOld
=============================================================================
