--------------------------- MODULE PaperExecutor ---------------------------
(***************************************************************************)
(* KalshiPaperExecutor (src/execution/kalshi_paper_executor.py): virtual   *)
(* fills, settled when their market resolves.  Both handlers run to their  *)
(* end in the scanner's thread and talk to nobody but the database, so     *)
(* each is one action; a statement that raises ends it early.              *)
(*                                                                         *)
(* Every fill buys Size contracts at Price cents and pays Fee cents.  A    *)
(* submit that a rule about the quote refuses changes nothing and is left  *)
(* out here; the module that composes the scanner adds those rules.        *)
(***************************************************************************)
EXTENDS RiskRules, FiniteSets

CONSTANTS
    Fill,         \* fills: one paper_fills row each
    Ticker, Side,
    Size, Price, Fee,
    MaxDay,       \* bound on the number of UTC days
    MaxRestarts,  \* bound on the number of process restarts
    Faults        \* {"persist"} if a settlement statement may raise

Day     == 0..MaxDay
NoDay   == -1
Outcome == {"yes", "no", "no_data"}
None    == "none"

ASSUME PaperAssumption ==
    /\ IsFiniteSet(Fill) /\ Side \subseteq {"yes", "no"}
    /\ Size \in Nat \ {0} /\ Price \in 1..99 /\ Fee \in Nat
    /\ MaxDay \in Nat /\ MaxRestarts \in Nat /\ Faults \subseteq {"persist"}

VARIABLES
    \* memory of the executor
    openFills,  \* _open_fills
    notional,   \* _notional_by_strike, 0 when the key is absent
    dailyPnl,   \* _daily_pnl, cents per UTC day
    settled,    \* _settlements
    \* database
    taken,      \* fills with a row in paper_fills
    ticker, side,   \* what those rows say
    settleRow,  \* UTC day of the fill's row in paper_settlements, or NoDay
    \* environment
    today, market, restarts

memory == <<openFills, notional, dailyPnl, settled>>
db     == <<taken, ticker, side, settleRow>>
vars   == <<memory, db, today, market, restarts>>

Init ==
    /\ openFills = {} /\ settled = {} /\ taken = {}
    /\ notional = [t \in Ticker |-> 0] /\ dailyPnl = [d \in Day |-> 0]
    /\ ticker = [f \in Fill |-> None] /\ side = [f \in Fill |-> None]
    /\ settleRow = [f \in Fill |-> NoDay]
    /\ today = 0 /\ market = [t \in Ticker |-> "open"] /\ restarts = 0

-----------------------------------------------------------------------------
Cost      == Price * Size
WorstLoss == Cost + Fee
Of(t, S)  == {f \in S : ticker[f] = t}

OpenPositions == Cardinality(openFills)

\* The opportunity and the part of the RiskContext that the bridge fills from
\* the executor's getters.
Opp(t)  == [ticker |-> t, price |-> Price, size |-> Size]
Context == [open |-> OpenPositions, pnl |-> dailyPnl[today], notional |-> notional]

NotionalWith_Credited(t) == notional[t] - Cost
NotionalWith(t) == notional[t] + Cost

\* submit: the row first (if its insert raises nothing happened), then memory.
Submit(f, t, s) ==
    /\ f \notin taken
    /\ PositionRules(Opp(t), Context)
    /\ taken' = taken \cup {f}
    /\ ticker' = [ticker EXCEPT ![f] = t]
    /\ side' = [side EXCEPT ![f] = s]
    /\ openFills' = openFills \cup {f}
    /\ notional' = [notional EXCEPT ![t] = NotionalWith(t)]
    /\ UNCHANGED <<dailyPnl, settled, settleRow, today, market, restarts>>

\* binary_payoff: no_data pays the NO side.
Winners_NoDataVoids(S, o) == {f \in S : side[f] = o}
Winners(S, o) == {f \in S : side[f] = (IF o = "no_data" THEN "no" ELSE o)}

\* Realized P/L of settling the fills S: 100 cents per winning contract, less
\* what they cost and their fees.
PnlOf(S, o) == 100 * Size * Cardinality(Winners(S, o)) - WorstLoss * Cardinality(S)

\* utc_day_bucket of the settlement's time.
Bucket_OfTheStart == 0
Bucket == today

Popped_Kept(t) == openFills
Popped(t) == openFills \ Of(t, openFills)

\* reconcile: the fills of the ticker leave _open_fills first; S are those
\* settled before a statement raised, all of them if none did.  Only then is
\* the notional of the strike forgotten.
Reconcile(t, S) ==
    LET fills == Of(t, openFills) IN
    /\ market[t] # "open" /\ fills # {}
    /\ S \subseteq fills
    /\ S = fills \/ "persist" \in Faults
    /\ openFills' = Popped(t)
    /\ settled' = settled \cup S
    /\ dailyPnl' = [dailyPnl EXCEPT ![Bucket] = @ + PnlOf(S, market[t])]
    /\ settleRow' = [f \in Fill |-> IF f \in S THEN today ELSE settleRow[f]]
    /\ notional' = IF S = fills THEN [notional EXCEPT ![t] = 0] ELSE notional
    /\ UNCHANGED <<taken, ticker, side, today, market, restarts>>

-----------------------------------------------------------------------------
Resolve(t, o) ==
    /\ market[t] = "open"
    /\ market' = [market EXCEPT ![t] = o]
    /\ UNCHANGED <<memory, db, today, restarts>>

NewDay ==
    /\ today < MaxDay
    /\ today' = today + 1
    /\ UNCHANGED <<memory, db, market, restarts>>

\* Nothing is reloaded from the database.
Restart ==
    /\ restarts < MaxRestarts
    /\ restarts' = restarts + 1
    /\ openFills' = {} /\ settled' = {}
    /\ notional' = [t \in Ticker |-> 0] /\ dailyPnl' = [d \in Day |-> 0]
    /\ UNCHANGED <<db, today, market>>

Next == \/ \E f \in Fill, t \in Ticker, s \in Side : Submit(f, t, s)
        \/ \E t \in Ticker, S \in SUBSET Fill : Reconcile(t, S)
        \/ \E t \in Ticker, o \in Outcome : Resolve(t, o)
        \/ NewDay
        \/ Restart

Spec == Init /\ [][Next]_vars
-----------------------------------------------------------------------------
\* The type of every variable.
TypeOK ==
    /\ openFills \subseteq Fill /\ settled \subseteq Fill /\ taken \subseteq Fill
    /\ notional \in [Ticker -> Nat] /\ dailyPnl \in [Day -> Int]
    /\ ticker \in [Fill -> Ticker \cup {None}] /\ side \in [Fill -> Side \cup {None}]
    /\ settleRow \in [Fill -> Day \cup {NoDay}]
    /\ today \in Day /\ restarts \in 0..MaxRestarts
    /\ market \in [Ticker -> Outcome \cup {"open"}]

\* DailyLossRule looks at realized P/L only, so positions already open when the
\* stop is reached may still lose, across midnight too: the loss of any UTC day
\* exceeds the stop by less than the worst loss of max_concurrent positions.
DayLossBounded ==
    \A d \in Day : -dailyPnl[d] < StopLoss + WorstLoss * MaxOpen

\* The capital in open fills of one strike never exceeds the cap of
\* PositionAccountabilityRule, although settlements may fail half way and leave
\* notional behind.
StrikeExposureCapped ==
    \A t \in Ticker : Cost * Cardinality(Of(t, openFills)) <= StrikeCap

\* What settling the fills S yields by what their rows say.
WonBy(S) == {f \in S : \/ side[f] = market[ticker[f]]
                       \/ side[f] = "no" /\ market[ticker[f]] = "no_data"}
PnlBy(S) == 100 * Size * Cardinality(WonBy(S)) - WorstLoss * Cardinality(S)

SettledOn(d) == {f \in settled : settleRow[f] = d}
RowsOn(d)    == {f \in Fill : settleRow[f] = d}

\* The P/L that the daily stop reads is the P/L of the settlements of this
\* process, each counted once, on the day its row says, at its market's outcome.
PnlMatchesRows == \A d \in Day : dailyPnl[d] = PnlBy(SettledOn(d))

\* open_positions() never exceeds max_concurrent.
OpenPositionCap == OpenPositions <= MaxOpen

\* DailyLossRule: "Once realized <= -stop, new entries are frozen until the day
\* rolls over", with the day's realized P/L as the settlement rows have it.
Stopped == PnlBy(RowsOn(today)) <= -StopLoss
FrozenOnceStopped == [][Stopped => openFills' \subseteq openFills]_vars

\* The same as long as the process has not been restarted.
FrozenInOneProcess ==
    [][Stopped /\ restarts = 0 => openFills' \subseteq openFills]_vars
-----------------------------------------------------------------------------
(* The inductive invariant.                                                *)

\* What the executor holds is what it took, each fill in one place.
Bookkeeping ==
    /\ openFills \cup settled \subseteq taken
    /\ openFills \cap settled = {}
    /\ \A f \in taken : ticker[f] \in Ticker
    /\ \A f \in Fill : settleRow[f] # NoDay => f \in taken \ openFills
    /\ \A f \in settled : settleRow[f] # NoDay /\ market[ticker[f]] # "open"

\* A failed settlement leaves notional of fills that are gone, never less than
\* what the open ones cost.
NotionalCoversOpen ==
    \A t \in Ticker : notional[t] >= Cost * Cardinality(Of(t, openFills))

\* Today's loss, were every open position to lose.
LossBound == WorstLoss * OpenPositions - dailyPnl[today] < StopLoss + WorstLoss * MaxOpen

\* The days to come have no P/L.
FutureEmpty == \A d \in Day : d > today => dailyPnl[d] = 0

IInv == /\ TypeOK /\ Bookkeeping /\ OpenPositionCap /\ NotionalCoversOpen
        /\ StrikeExposureCapped /\ LossBound /\ FutureEmpty /\ DayLossBounded

\* Until the process is restarted, its settlements are all there are.
RowsAreOurs == restarts = 0 => \A f \in Fill : settleRow[f] # NoDay => f \in settled
-----------------------------------------------------------------------------
(* The abstract specification.                                             *)

\* Where a fill stands in the ledger of positions: one that a restart or a
\* failed settlement left behind is nobody's.
Stands == [f \in Fill |->
    IF f \in openFills THEN "held"
    ELSE IF f \in settled THEN "settled"
    ELSE IF f \in taken THEN "dropped" ELSE "new"]

Ledger == INSTANCE PositionLedger WITH
    Position <- Fill, stands <- Stands, pnl <- dailyPnl,
    Worst <- WorstLoss, Best <- 100 * Size - WorstLoss

LedgerKept == Ledger!Spec
=============================================================================
