--------------------------- MODULE ShadowScanner ---------------------------
(***************************************************************************)
(* The process of src/run_kalshi_shadow.py: run_loop drives the            *)
(* LiveDataCoordinator (catalog of markets, order-book snapshots) and the  *)
(* KalshiShadowEvaluator (decisions, retried reconciliation), whose hooks  *)
(* feed the paper executor of PaperExecutor.                               *)
(*                                                                         *)
(* Everything runs in one thread, but time passes between its steps, calls *)
(* to the exchange fail one by one, markets close and resolve when they    *)
(* please, the operator flips flags and the process may die at any point.  *)
(* A statement that raises in persist_decision or _apply_realized is not   *)
(* caught anywhere below main and ends the process: it is a Restart.       *)
(***************************************************************************)
EXTENDS RiskRules, FiniteSets

CONSTANTS
    Fill, Ticker, Side, Size, Price, Fee, MaxDay, MaxRestarts,  \* PaperExecutor
    Asset, AssetOf,       \* ASSET_FROM_SERIES, one series per asset
    Open, Close,          \* when a market opens and closes
    Signal,               \* what the model and the book may say of a market
    StratLo, StratHi,     \* StrategyConfig.time_window_seconds
    StratDepth, StratEdge, StratCI,
    HotWindow, HotInterval, ColdInterval,   \* snapshot_tiers
    DiscoverEvery,        \* run_loop(discover_every)
    ReconcileDelay, ReconcileMaxAttempts,   \* ShadowConfig
    Powers,               \* flags the operator flips
    Faults,               \* what may go wrong
    MaxTime, DayLength,   \* bound on the clock, length of a UTC day
    MaxLookupFailures     \* bound on failed settlement lookups

ASSUME ScannerAssumption ==
    /\ IsFiniteSet(Fill) /\ Side \subseteq {"yes", "no"}
    /\ Size \in Nat \ {0} /\ Price \in 1..99 /\ Fee \in Nat
    /\ MaxDay \in Nat /\ MaxRestarts \in Nat
    /\ AssetOf \in [Ticker -> Asset] /\ (\A s \in Signal : s.side \in Side)
    /\ Open \in [Ticker -> Nat] /\ Close \in [Ticker -> Nat]
    /\ StratLo \in Nat /\ StratHi \in Nat
    /\ HotWindow \in Nat /\ HotInterval \in Nat /\ ColdInterval \in Nat
    /\ DiscoverEvery \in Nat \ {0}
    /\ ReconcileDelay \in Nat /\ ReconcileMaxAttempts \in Nat \ {0}
    /\ Powers \subseteq {"kill", "execution", "scan", "strategy"}
    /\ Faults \subseteq {"persist", "discover", "fetch", "slow"}
    /\ MaxTime \in Nat /\ DayLength \in Nat \ {0} /\ MaxLookupFailures \in Nat

VARIABLES
    \* the paper executor, its tables and its environment
    openFills, notional, dailyPnl, settled, taken, ticker, side, settleRow,
    today, market, restarts,
    \* the coordinator
    catalog,      \* keys of _market_meta and _asset_by_ticker
    stamp,        \* last_update_us of the book, also _last_fetched_us
    left,         \* time_remaining_s stored with the book
    \* the loop and the evaluator
    pc, iter,     \* where the thread is; i % discover_every
    todo,         \* quotes still to be scored in this tick
    opp,          \* the opportunity given to decision_hook
    pending,      \* attempts of _pending_reconcile, or NotPending
    ready,        \* the local list of _reconcile_pending
    unrealized,   \* tickers with shadow_decisions rows without an outcome
    \* the operator's flags, as the poller returns them
    kill, execOff, scanOff, strategyOff,
    \* environment
    now, failures

Paper == INSTANCE PaperExecutor WITH Faults <- Faults \cap {"persist"}

paper   == <<openFills, notional, dailyPnl, settled, taken, ticker, side, settleRow,
             today, market, restarts>>
data    == <<catalog, stamp, left>>
flags   == <<kill, execOff, scanOff, strategyOff>>
scoring == <<todo, opp>>
recon   == <<pending, ready, unrealized, failures>>
vars    == <<paper, data, pc, iter, scoring, recon, flags, now>>

NotPending == -1
NoOpp == [ticker |-> "none"]

Init ==
    /\ Paper!Init
    /\ catalog = {} /\ stamp = [t \in Ticker |-> NoTick] /\ left = [t \in Ticker |-> 0]
    /\ pc = "loop" /\ iter = 0 /\ todo = {} /\ opp = NoOpp
    /\ pending = [t \in Ticker |-> NotPending] /\ ready = {} /\ unrealized = {}
    /\ kill = FALSE /\ execOff = {} /\ scanOff = {} /\ strategyOff = FALSE
    /\ now = 0 /\ failures = 0

-----------------------------------------------------------------------------
(* LiveDataCoordinator                                                     *)

Listed == {t \in Ticker : Open[t] <= now /\ now < Close[t]}

\* discover: an asset whose scanning is off loses its markets, one whose
\* request failed keeps them, the others have those listed as open.
Keeps(failed) ==
    {t \in Ticker : /\ AssetOf[t] \notin scanOff
                    /\ IF AssetOf[t] \in failed THEN t \in catalog ELSE t \in Listed}

Discover(failed) ==
    /\ pc = "loop" /\ iter = 0
    /\ failed # {} => "discover" \in Faults
    /\ catalog' = Keeps(failed)
    /\ pc' = "snapshot"
    /\ UNCHANGED <<paper, stamp, left, iter, scoring, recon, flags, now>>

SkipDiscover ==
    /\ pc = "loop" /\ iter # 0
    /\ pc' = "snapshot"
    /\ UNCHANGED <<paper, data, iter, scoring, recon, flags, now>>

Remaining_Unclamped(t) == Close[t] - now
Remaining(t) == IF now < Close[t] THEN Close[t] - now ELSE 0

Interval(t) == IF Remaining(t) <= HotWindow THEN HotInterval ELSE ColdInterval

Due == {t \in catalog : stamp[t] = NoTick \/ now - stamp[t] >= Interval(t)}

\* snapshot_books: every due market is fetched, some in vain; a book is stored
\* with its time and the time its market has left.
Snapshot(failed) ==
    /\ pc = "snapshot"
    /\ failed \subseteq Due /\ (failed # {} => "fetch" \in Faults)
    /\ stamp' = [t \in Ticker |-> IF t \in Due \ failed THEN now ELSE stamp[t]]
    /\ left' = [t \in Ticker |-> IF t \in Due \ failed THEN Remaining(t) ELSE left[t]]
    /\ pc' = "flags"
    /\ UNCHANGED <<paper, catalog, iter, scoring, recon, flags, now>>

-----------------------------------------------------------------------------
(* KalshiShadowEvaluator.tick                                              *)

\* A strategy whose flag is off has its whole tick skipped.
SkipTick ==
    /\ pc = "flags" /\ strategyOff
    /\ pc' = "loop" /\ iter' = (iter + 1) % DiscoverEvery
    /\ UNCHANGED <<paper, data, scoring, recon, flags, now>>

\* get_quotes: a quote for every market of the catalog that has a book.
StartTick ==
    /\ pc = "flags" /\ ~strategyOff
    /\ todo' = {t \in catalog : stamp[t] # NoTick}
    /\ pc' = "score"
    /\ UNCHANGED <<paper, data, iter, opp, recon, flags, now>>

\* The gates of KalshiFairValueStrategy.evaluate.
Recommends(t, s) ==
    /\ StratLo <= left[t] /\ left[t] < StratHi
    /\ \E d \in DOMAIN s.depth : s.depth[d] >= StratDepth
    /\ s.ci <= StratCI /\ s.edge >= StratEdge

Opportunity(t, s) ==
    [ticker |-> t, side |-> s.side, price |-> Price, size |-> Size,
     edge |-> s.edge, ci |-> s.ci, remaining |-> left[t], depth |-> s.depth,
     comparator |-> s.comparator, strike |-> s.strike, reference |-> s.reference]

\* persist_decision, before the hook.
Decide(t, s) ==
    /\ pc = "score" /\ t \in todo
    /\ Recommends(t, s)
    /\ todo' = todo \ {t}
    /\ opp' = Opportunity(t, s)
    /\ unrealized' = unrealized \cup {t}
    /\ pc' = "hook"
    /\ UNCHANGED <<paper, data, iter, pending, ready, failures, flags, now>>

\* The quote carries the time of its book.
QuoteTime_Now(t) == now
QuoteTime(t) == stamp[t]

Context == [now |-> now, lastTick |-> QuoteTime(opp.ticker), degraded |-> FALSE]

Blocked(t) == kill \/ AssetOf[t] \in execOff

\* decision_hook: the flags, the rules about the quote; Paper!Submit asks the
\* rules about positions.
Allowed == ~Blocked(opp.ticker) /\ QuoteRules(opp, Context)

Register_IfFilled(t) == IF openFills' = openFills THEN pending[t] ELSE 0
Register(t) == IF pending[t] = NotPending THEN 0 ELSE pending[t]

\* An exception in the hook is swallowed; the market is registered for
\* reconciliation whatever the hook did.
Hook ==
    /\ pc = "hook"
    /\ \/ Allowed /\ \E f \in Fill : Paper!Submit(f, opp.ticker, opp.side)
       \/ /\ ~(Allowed /\ PositionRules(opp, Paper!Context)) \/ taken = Fill \/ "persist" \in Faults
          /\ UNCHANGED paper
    /\ pending' = [pending EXCEPT ![opp.ticker] = Register(opp.ticker)]
    /\ opp' = NoOpp /\ pc' = "score"
    /\ UNCHANGED <<data, iter, todo, ready, unrealized, failures, flags, now>>

-----------------------------------------------------------------------------
(* _reconcile_pending                                                      *)

Ready_OfTheCatalog ==
    {t \in catalog : pending[t] # NotPending /\ Close[t] + ReconcileDelay <= now}
Ready == {t \in Ticker : pending[t] # NotPending /\ Close[t] + ReconcileDelay <= now}

\* The strategy recommends nothing for the quotes that are left.
StartReconcile ==
    /\ pc = "score"
    /\ todo' = {} /\ ready' = Ready
    /\ pc' = "reconcile"
    /\ UNCHANGED <<paper, data, iter, opp, pending, unrealized, failures, flags, now>>

Attempts(t) ==
    IF pending[t] < ReconcileMaxAttempts THEN pending[t] + 1 ELSE pending[t]

\* The lookup failed: the market is given up once the attempts are used up.
LookupFailed(t) ==
    /\ pc = "reconcile" /\ t \in ready
    /\ failures < MaxLookupFailures
    /\ failures' = failures + 1
    /\ ready' = ready \ {t}
    /\ pending' = [pending EXCEPT ![t] =
                      IF Attempts(t) >= ReconcileMaxAttempts THEN NotPending ELSE Attempts(t)]
    /\ UNCHANGED <<paper, data, pc, iter, scoring, unrealized, flags, now>>

\* An answer without a result leaves the market pending, one attempt older.
AfterUnresolved_GivesUp(t) ==
    IF Attempts(t) >= ReconcileMaxAttempts THEN NotPending ELSE Attempts(t)
AfterUnresolved(t) == Attempts(t)

LookupUnresolved(t) ==
    /\ pc = "reconcile" /\ t \in ready
    /\ market[t] = "open"
    /\ ready' = ready \ {t}
    /\ pending' = [pending EXCEPT ![t] = AfterUnresolved(t)]
    /\ UNCHANGED <<paper, data, pc, iter, scoring, unrealized, failures, flags, now>>

\* A result: _apply_realized writes it to every row of the market, the market
\* is no longer pending and reconcile_hook settles its fills.
LookupResolved(t) ==
    /\ pc = "reconcile" /\ t \in ready
    /\ market[t] # "open"
    /\ ready' = ready \ {t}
    /\ unrealized' = unrealized \ {t}
    /\ pending' = [pending EXCEPT ![t] = NotPending]
    /\ \/ \E S \in SUBSET Fill : Paper!Reconcile(t, S)
       \/ Paper!Of(t, openFills) = {} /\ UNCHANGED paper
    /\ UNCHANGED <<data, pc, iter, scoring, failures, flags, now>>

EndTick ==
    /\ pc = "reconcile" /\ ready = {}
    /\ pc' = "loop" /\ iter' = (iter + 1) % DiscoverEvery
    /\ UNCHANGED <<paper, data, scoring, recon, flags, now>>

-----------------------------------------------------------------------------
(* The clock, the exchange, the operator and the process                   *)

\* Time passes between two ticks of the loop, and inside one if the calls it
\* makes are slow.
Tick ==
    /\ now < MaxTime
    /\ pc = "loop" \/ "slow" \in Faults
    /\ now' = now + 1
    /\ IF now' % DayLength = 0 /\ today < MaxDay THEN Paper!NewDay ELSE UNCHANGED paper
    /\ UNCHANGED <<data, pc, iter, scoring, recon, flags>>

Resolve(t) ==
    /\ Close[t] <= now
    /\ \E o \in Paper!Outcome : Paper!Resolve(t, o)
    /\ UNCHANGED <<data, pc, iter, scoring, recon, flags, now>>

Flip ==
    /\ \/ "kill" \in Powers /\ kill' = ~kill /\ UNCHANGED <<execOff, scanOff, strategyOff>>
       \/ "strategy" \in Powers /\ strategyOff' = ~strategyOff /\ UNCHANGED <<kill, execOff, scanOff>>
       \/ \E a \in Asset :
            \/ /\ "execution" \in Powers /\ UNCHANGED <<kill, scanOff, strategyOff>>
               /\ execOff' = IF a \in execOff THEN execOff \ {a} ELSE execOff \cup {a}
            \/ /\ "scan" \in Powers /\ UNCHANGED <<kill, execOff, strategyOff>>
               /\ scanOff' = IF a \in scanOff THEN scanOff \ {a} ELSE scanOff \cup {a}
    /\ UNCHANGED <<paper, data, pc, iter, scoring, recon, now>>

\* The process dies anywhere and is started again: only the tables and the
\* flags file remain.
Restart ==
    /\ Paper!Restart
    /\ catalog' = {} /\ stamp' = [t \in Ticker |-> NoTick] /\ left' = [t \in Ticker |-> 0]
    /\ pc' = "loop" /\ iter' = 0 /\ todo' = {} /\ opp' = NoOpp
    /\ pending' = [t \in Ticker |-> NotPending] /\ ready' = {}
    /\ UNCHANGED <<unrealized, failures, flags, now>>

Loop ==
    \/ \E failed \in SUBSET Asset : Discover(failed)
    \/ SkipDiscover
    \/ \E failed \in SUBSET Ticker : Snapshot(failed)
    \/ SkipTick
    \/ StartTick
    \/ \E t \in Ticker, s \in Signal : Decide(t, s)
    \/ Hook
    \/ StartReconcile
    \/ \E t \in Ticker : LookupFailed(t) \/ LookupUnresolved(t) \/ LookupResolved(t)
    \/ EndTick

Next == Loop \/ Tick \/ (\E t \in Ticker : Resolve(t)) \/ Flip \/ Restart

Spec == Init /\ [][Next]_vars

\* The loop runs until it is stopped, time goes on and every market resolves.
FairSpec == /\ Spec /\ WF_vars(Loop) /\ WF_vars(Tick)
            /\ \A t \in Ticker : WF_vars(Resolve(t))
-----------------------------------------------------------------------------
\* The type of every variable of the scanner.
ScannerTypes ==
    /\ catalog \subseteq Ticker
    /\ stamp \in [Ticker -> 0..MaxTime \cup {NoTick}] /\ left \in [Ticker -> Nat]
    /\ pc \in {"loop", "snapshot", "flags", "score", "hook", "reconcile"}
    /\ iter \in 0..(DiscoverEvery - 1)
    /\ todo \subseteq Ticker /\ ready \subseteq Ticker /\ unrealized \subseteq Ticker
    /\ pc = "hook" <=> opp # NoOpp
    /\ pending \in [Ticker -> 0..ReconcileMaxAttempts \cup {NotPending}]
    /\ kill \in BOOLEAN /\ strategyOff \in BOOLEAN
    /\ execOff \subseteq Asset /\ scanOff \subseteq Asset
    /\ now \in 0..MaxTime /\ failures \in 0..MaxLookupFailures

\* The type of every variable; the time a book says is left is never negative.
TypeOK == Paper!TypeOK /\ ScannerTypes

\* No paper fill is taken on a market that has closed, however old the book the
\* decision was made on: TimeWindowRule reads the time left when the book was
\* fetched and ReferenceFeedStaleRule bounds the age of the book, so it takes
\* both, and a stale limit shorter than the shortest time left.
NoFillAfterClose ==
    [][\A f \in taken' \ taken : now < Close[ticker'[f]]]_vars

\* A market with open paper fills is always registered for reconciliation, so
\* that its positions are settled some day: "Returning None means the market
\* hasn't settled yet. The evaluator falls back gracefully and will retry on the
\* next tick".
OpenFillsPending == \A f \in openFills : pending[ticker[f]] # NotPending

\* Every decision row gets its outcome: nothing is left behind when a market is
\* pruned from the catalog, is answered without a result, or had no fill.
RowsRealized == \A t \in Ticker : t \in unrealized ~> t \notin unrealized

\* Every paper fill is settled and gives its position back.
FillsSettle == \A f \in Fill : f \in openFills ~> f \in settled
-----------------------------------------------------------------------------
(* The inductive invariant.                                                *)

\* The time left that goes with a book is that of the moment it was fetched.
LeftOfStamp == \A t \in Ticker : left[t] > 0 => left[t] = Close[t] - stamp[t]

\* No snapshot comes between a decision and its hook.
OppOfBook == pc = "hook" => /\ opp.ticker \in Ticker /\ opp.side \in Side
                             /\ opp.remaining = left[opp.ticker]

FillsOfRows ==
    /\ taken \subseteq Fill /\ openFills \subseteq taken
    /\ ticker \in [Fill -> Ticker \cup {Paper!None}]
    /\ \A f \in openFills : ticker[f] \in Ticker

ReadyPending == \A t \in ready : pending[t] # NotPending

IInv == ScannerTypes /\ LeftOfStamp /\ OppOfBook /\ FillsOfRows /\ ReadyPending
=============================================================================
