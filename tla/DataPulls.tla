----------------------------- MODULE DataPulls ------------------------------
(***************************************************************************)
(* The scripts that page through the history of an exchange and store it:  *)
(*   "trades"   coinbase_trades_pull,  "tape"     kalshi_trades_pull,      *)
(*   "markets"  kalshi_public_pull,    "candles"  coinbase_historical_pull,*)
(*   "archive"  kalshi_historical_pull, its markets, and then, from a      *)
(*              second walk of the same kind, "archived_tape", their trades*)
(*                                                                         *)
(* All walk back from the newest record.  They differ in what ends the     *)
(* walk, in whether the table has a key, and in when rows are committed.   *)
(* Records appear while a script is paging; runs of a script may overlap,  *)
(* die anywhere and be started again.                                      *)
(***************************************************************************)
EXTENDS Integers

CONSTANTS
    Kind,       \* the scripts
    Run,        \* runs that may overlap
    MaxRecord,  \* bound on the records of the exchange
    From, To,   \* the range asked for
    Chunk,      \* time a page of candles spans
    MaxTries,   \* hard cap on the requests of "trades"
    MaxStarts   \* bound on the runs

Record == 1..MaxRecord

\* The time of a record: two units apart, so that a cursor fits in between.
At(i) == 2 * i
Infinity == 2 * MaxRecord + 2

VARIABLES
    kind,      \* the script
    exists,    \* records of the exchange
    newest,    \* the last of them so far; others may have been left out
    table,     \* how many rows a record has
    stage, cursor, staged, tries,  \* of each run: cursor, rows not committed, requests
    existed,   \* records when it was started (history)
    starts     \* runs so far (history)

exchange == <<exists, newest>>
runs     == <<stage, cursor, staged, tries, existed, starts>>
dpVars   == <<kind, exchange, table, runs>>

Init ==
    /\ kind \in Kind
    /\ exists = {} /\ newest = 0
    /\ table = [i \in Record |-> 0]
    /\ stage = [r \in Run |-> "idle"] /\ cursor = [r \in Run |-> 0]
    /\ staged = [r \in Run |-> {}] /\ tries = [r \in Run |-> 0]
    /\ existed = [r \in Run |-> {}] /\ starts = 0

\* A trade, a market that settles, a minute with trades; or one without.
Happens ==
    /\ newest < MaxRecord /\ newest' = newest + 1
    /\ exists' \in {exists, exists \cup {newest + 1}}
    /\ UNCHANGED <<kind, table, runs>>

-----------------------------------------------------------------------------
(* Differences between the scripts                                         *)

\* A unique index with the error caught, and INSERT OR REPLACE.
Keyed_Never == FALSE
Keyed == kind \in {"trades", "markets", "archive"}

Autocommit == kind \in {"trades", "tape"}

\* The API client raises where the others stop.
Raises == kind \in {"archive", "archived_tape"}

\* Rows of a page that are stored.
InRange(i) ==
    CASE kind \in {"tape", "archived_tape"} -> TRUE
      [] kind = "markets" -> From <= At(i)
      [] OTHER            -> From <= At(i) /\ At(i) <= To

\* What the next request returns: the newest records beyond the cursor, candles
\* those of a span of time.
Older(r) ==
    IF kind = "candles"
    THEN {i \in exists : At(i) <= cursor[r] /\ At(i) >= From /\ At(i) >= cursor[r] - Chunk}
    ELSE {i \in exists : At(i) < cursor[r]}

Newest(S, all) == \A i \in S, k \in all : k > i => k \in S

\* A page has the newest of them, however many fit.
PagesOf(r) ==
    IF kind = "candles" THEN {Older(r)}
    ELSE {S \in SUBSET Older(r) : Newest(S, Older(r)) /\ (S = {} => Older(r) = {})}

\* The cursor is the oldest record seen; for candles a moment before it.
Oldest(page) == CHOOSE i \in page : \A k \in page : i <= k

CursorAfter_OneBack(page) == At(Oldest(page)) - 2
CursorAfter_CandleBack(page) == IF kind = "candles" THEN At(Oldest(page)) - 2 ELSE At(Oldest(page))
CursorAfter(page) == IF kind = "candles" THEN At(Oldest(page)) - 1 ELSE At(Oldest(page))

\* The walk is over.
PastStart(page) == kind \in {"trades", "markets"} /\ \E i \in page : At(i) < From
NoCursor(r, page) == kind \notin {"trades", "candles"} /\ page = Older(r)
AtStart(page) == kind = "candles" /\ CursorAfter(page) <= From

-----------------------------------------------------------------------------
Goto(r, where) == stage' = [stage EXCEPT ![r] = where]

Rows(S) == [i \in Record |-> IF i \notin S THEN table[i] ELSE IF Keyed THEN 1 ELSE table[i] + 1]

Begin(r) ==
    /\ stage[r] \in {"idle", "done", "cut"} /\ starts < MaxStarts
    /\ Goto(r, "paging") /\ starts' = starts + 1
    /\ cursor' = [cursor EXCEPT ![r] = IF kind = "candles" THEN To ELSE Infinity]
    /\ staged' = [staged EXCEPT ![r] = {}] /\ tries' = [tries EXCEPT ![r] = 0]
    /\ existed' = [existed EXCEPT ![r] = exists]
    /\ UNCHANGED <<kind, exchange, table>>

\* Only "trades" counts its requests.
MayTry(r) == kind = "trades" => tries[r] < MaxTries
Tried(r)  == tries' = [tries EXCEPT ![r] = IF kind = "trades" THEN @ + 1 ELSE @]

\* The rows of the page that are wanted, committed at once or kept for later.
Takes(r, S) ==
    IF Autocommit THEN table' = Rows(S) /\ UNCHANGED staged
                  ELSE staged' = [staged EXCEPT ![r] = @ \cup S] /\ UNCHANGED table

Page(r) ==
    /\ stage[r] = "paging" /\ MayTry(r) /\ Tried(r)
    /\ \E page \in PagesOf(r) :
        /\ Takes(r, {i \in page : InRange(i)})
        /\ IF page = {} \/ PastStart(page) \/ NoCursor(r, page) \/ AtStart(page)
           THEN Goto(r, "storing") /\ UNCHANGED cursor
           ELSE cursor' = [cursor EXCEPT ![r] = CursorAfter(page)] /\ UNCHANGED stage
    /\ UNCHANGED <<kind, exchange, existed, starts>>

\* A transport error or a 429: the same request again.
Retry(r) ==
    /\ stage[r] = "paging" /\ ~Raises /\ MayTry(r) /\ Tried(r)
    /\ UNCHANGED <<kind, exchange, table, stage, cursor, staged, existed, starts>>

\* Another status, or the cap: what there is is stored all the same.
GivesUp(r) ==
    /\ stage[r] = "paging"
    /\ Goto(r, "storing_part")
    /\ UNCHANGED <<kind, exchange, table, cursor, staged, tries, existed, starts>>

\* The commit behind the loop.
Store(r) ==
    /\ stage[r] \in {"storing", "storing_part"}
    /\ table' = Rows(staged[r]) /\ staged' = [staged EXCEPT ![r] = {}]
    /\ Goto(r, IF stage[r] = "storing" THEN "done" ELSE "cut")
    /\ UNCHANGED <<kind, exchange, cursor, tries, existed, starts>>

\* The script dies, or its request raises: the newest rows of a page may be in
\* the table already, rows that were not committed are gone.
Dies(r) ==
    /\ stage[r] \in {"paging", "storing", "storing_part"}
    /\ Goto(r, "idle") /\ staged' = [staged EXCEPT ![r] = {}]
    /\ \E S \in SUBSET Older(r) :
         /\ Newest(S, Older(r))
         /\ table' = IF Autocommit /\ stage[r] = "paging"
                     THEN Rows({i \in S : InRange(i)}) ELSE table
    /\ UNCHANGED <<kind, exchange, cursor, tries, existed, starts>>

Next ==
    \/ Happens
    \/ \E r \in Run : Begin(r) \/ Page(r) \/ Retry(r) \/ GivesUp(r) \/ Store(r) \/ Dies(r)

Spec == Init /\ [][Next]_dpVars
-----------------------------------------------------------------------------
\* The type of every variable.
TypeOK ==
    /\ kind \in Kind /\ newest \in 0..MaxRecord /\ exists \subseteq 1..newest
    /\ table \in [Record -> 0..MaxStarts]
    /\ stage \in [Run -> {"idle", "paging", "storing", "storing_part", "done", "cut"}]
    /\ cursor \in [Run -> 0..Infinity] /\ staged \in [Run -> SUBSET Record]
    /\ tries \in [Run -> 0..MaxTries] /\ existed \in [Run -> SUBSET exists]
    /\ starts \in 0..MaxStarts

\* A record has one row in a table with a key, and elsewhere at most one for each
\* run, although pages shift as records appear, requests are repeated, runs
\* overlap, die in the middle of a page and start again.
StoredOncePerRun ==
    \A i \in Record :
        table[i] <= IF kind \in {"tape", "archived_tape", "candles"} THEN starts ELSE 1

\* Candles have no stretch without trades that a page would find empty.
Gapless(r) ==
    \A t \in From..To :
        \E i \in existed[r] : At(i) <= t /\ At(i) >= From /\ At(i) >= t - Chunk

\* A run that comes to its end has stored every record of the range that was
\* there when it started, whatever came in meanwhile.  (Candles end at the first
\* empty page, see the README.)
DoneIsComplete ==
    \A r \in Run :
        stage[r] = "done" /\ (kind = "candles" => Gapless(r)) =>
            \A i \in existed[r] : InRange(i) => table[i] > 0
=============================================================================
