---------------------------- MODULE LiveExecutor ----------------------------
(***************************************************************************)
(* KalshiLiveExecutor (src/execution/kalshi_live_executor.py) against the  *)
(* Kalshi exchange.  The executor is one thread: submit, poll_pending and  *)
(* reconcile never overlap, but the exchange moves between any two of its  *)
(* REST calls, so each handler is split exactly at those calls (`pc`) and  *)
(* everything between two calls is one action.                             *)
(*                                                                         *)
(* Order data is abstracted to what the properties tell apart: every order *)
(* asks Size contracts at Price cents; a quote that fails a rule that only *)
(* looks at the quote is a submit without effect and is not modelled.      *)
(***************************************************************************)
EXTENDS Integers, FiniteSets

CONSTANTS
    Cid,          \* client order ids, each used by one submit (uuid4)
    Ticker,       \* market tickers
    Mapped,       \* the tickers that asset_by_ticker knows
    Side,         \* the sides the strategy recommends
    Size, Price,  \* contracts and limit price (cents) of every order
    Fee,          \* fee in cents per contract reported on a fill
    MaxOpen,      \* OpenPositionsRule.max_concurrent
    StopLoss,     \* DailyLossRule.stop_usd, in cents
    StrikeCap,    \* PositionAccountabilityRule.per_strike_cap_usd, in cents
    MaxAttempts,  \* RetryPolicy: attempts of one REST call
    MaxDay,       \* bound on the number of UTC days
    MaxRestarts,  \* bound on the number of process restarts
    Faults        \* what the environment may do wrong, a subset of AllFaults

AllFaults == {"create_reply_lost",  \* order accepted, the reply never arrives
              "cancel_failed",      \* DELETE does not reach the exchange
              "cancel_reply_lost",  \* DELETE took effect, the reply is lost
              "no_order_id",        \* create reply without an order id
              "partial_fill",       \* a fill smaller than the order
              "close_on_resting",   \* the market resolves over a live order
              "persist",            \* a database statement raises
              "flags"}              \* the operator uses the runtime flags

Outcome == {"yes", "no", "no_data"}
Day     == 0..MaxDay
None    == "none"
NoDay   == -1

ASSUME LiveAssumption ==
    /\ IsFiniteSet(Cid) /\ None \notin Cid
    /\ Mapped \subseteq Ticker /\ Side \subseteq {"yes", "no"}
    /\ Size \in Nat \ {0} /\ Price \in 1..99 /\ Fee \in Nat
    /\ MaxOpen \in Nat /\ StopLoss \in Nat /\ StrikeCap \in Nat
    /\ MaxAttempts \in Nat \ {0} /\ MaxDay \in Nat /\ MaxRestarts \in Nat
    /\ Faults \subseteq AllFaults

VARIABLES
    \* memory of the executor
    \* (one function per LiveOrder field, keyed by client order id)
    status,     \* LiveOrder.status, and where a submit without one stands
    ticker,     \* the market asked for
    side,       \* the side asked for
    hasId,      \* the create reply carried an order_id
    qty,        \* fill_quantity
    resting,    \* _resting: client ids of the orders thought to be live
    filled,     \* _filled_by_ticker: filled and not yet settled
    notional,   \* _notional_by_strike, 0 when the key is absent
    dailyPnl,   \* _daily_pnl, cents per UTC day
    settled,    \* orders in _settlements
    settledOn,  \* LiveSettlement.settled_at_us, as a UTC day
    \* control of the handler in progress
    pc,         \* the REST call the executor is about to make
    cur,        \* the client order id of the submit in progress
    attempt,    \* attempts already made of the create call
    todo,       \* orders the handler's loop still has to cancel or settle
    response,   \* fill records of the last get_fills not yet looked at
    now,        \* the day reconcile read from its clock before its loop
    \* database
    row,        \* live_orders.status, "none" without a row
    settleRow,  \* orders with a row in live_settlements
    \* environment
    aged,       \* orders older than cancel_timeout_s
    today,      \* current UTC day
    kill,       \* execution_kill_switch
    assetOff,   \* tickers whose asset has execution disabled
    restarts,   \* process restarts so far
    xstate,     \* exchange: state of the order with that client id
    xqty,       \* exchange: contracts filled
    xfills,     \* exchange: the fill records <<client id, contracts>>
    market,     \* exchange: "open", or the outcome
    \* history, read by properties only
    underKill   \* orders the exchange accepted since the switch was engaged

orders  == <<status, ticker, side, hasId, qty>>
ledger  == <<dailyPnl, settled, settledOn>>
memory  == <<orders, resting, filled, notional, ledger>>
control == <<pc, cur, attempt, todo, response, now>>
db      == <<row, settleRow>>
exchange == <<xstate, xqty, xfills, market>>
operator == <<kill, assetOff>>
vars == <<memory, control, db, exchange, operator, underKill,
          aged, today, restarts>>

Init ==
    /\ status = [c \in Cid |-> "none"]
    /\ ticker = [c \in Cid |-> None] /\ side = [c \in Cid |-> None]
    /\ hasId = [c \in Cid |-> FALSE] /\ qty = [c \in Cid |-> 0]
    /\ resting = {} /\ filled = {} /\ settled = {}
    /\ notional = [t \in Ticker |-> 0]
    /\ dailyPnl = [d \in Day |-> 0] /\ settledOn = [c \in Cid |-> NoDay]
    /\ now = 0
    /\ pc = "idle" /\ cur = None /\ attempt = 0 /\ todo = {} /\ response = {}
    /\ row = [c \in Cid |-> "none"] /\ settleRow = {}
    /\ aged = {} /\ today = 0 /\ restarts = 0
    /\ kill = FALSE /\ assetOff = {}
    /\ xstate = [c \in Cid |-> "none"]
    /\ xqty = [c \in Cid |-> 0] /\ xfills = {}
    /\ market = [t \in Ticker |-> "open"]
    /\ underKill = {}

-----------------------------------------------------------------------------
(* What the gates read.  An operator X_Variant is X with one plausible bug; *)
(* no specification uses it, it shows that a property would notice the bug.  *)

OpenPositions_FilledOnly == Cardinality(filled)
OpenPositions_WholeFills == Cardinality(resting) + Cardinality({c \in filled : qty[c] = Size})
OpenPositions == Cardinality(resting) + Cardinality(filled)

Cost == Price * Size

\* OpenPositionsRule, DailyLossRule, PositionAccountabilityRule over a context
\* filled from the executor's own getters.
RiskApproves(t) ==
    /\ OpenPositions < MaxOpen
    /\ dailyPnl[today] > -StopLoss
    /\ notional[t] + Cost <= StrikeCap

FlagsAllow_AssetOnly(t) == t \in Mapped => t \notin assetOff

\* `if asset and not flags.is_asset_execution_enabled(asset)` refuses.
FlagsAllow(t) == t \in Mapped => (~kill /\ t \notin assetOff)

Of(t, S) == {c \in S : ticker[c] = t}

-----------------------------------------------------------------------------
(* submit                                                                  *)

\* _make_client_order_id: a new uuid4 for every submit.
FreshId_ReusedAfterCancel(c) == status[c] \in {"none", "canceled"}
FreshId(c) == status[c] = "none"

\* Up to the create call.  The breaker of the platform library may refuse at
\* any time; a refusal changes nothing.
BeginSubmit(c, t, s) ==
    /\ pc = "idle"
    /\ FreshId(c)
    /\ RiskApproves(t)
    /\ FlagsAllow(t)
    /\ pc' = "creating" /\ cur' = c /\ attempt' = 0
    /\ status' = [status EXCEPT ![c] = "creating"]
    /\ ticker' = [ticker EXCEPT ![c] = t]
    /\ side' = [side EXCEPT ![c] = s]
    /\ UNCHANGED <<hasId, qty, resting, filled, notional, ledger,
                   todo, response, now, db, exchange, operator, underKill, aged, today, restarts>>

\* The exchange accepts an order: never twice for one client order id.
XAccept(c) ==
    /\ xstate[c] = "none"
    /\ market[ticker[c]] = "open"
    /\ xstate' = [xstate EXCEPT ![c] = "resting"]
    /\ underKill' = IF kill THEN underKill \cup {c} ELSE underKill
    /\ UNCHANGED <<xqty, xfills, market>>

\* _persist_order, _persist_fill_update, _persist_cancel: the statement either
\* takes effect or raises, and an update without a row id is skipped.
Persist(c, value, ok) ==
    /\ ok \/ "persist" \in Faults
    /\ row' = IF ok THEN [row EXCEPT ![c] = value] ELSE row
UpdateRow(c, value, ok) ==
    IF row[c] = "none" THEN ok /\ row' = row ELSE Persist(c, value, ok)

\* create_order answered.  The order is tracked before its row is written, so
\* an exception of the insert leaves it tracked.
CreateAnswered(withId, persisted) ==
    /\ pc = "creating"
    /\ withId \/ "no_order_id" \in Faults
    /\ XAccept(cur)
    /\ status' = [status EXCEPT ![cur] = "resting"]
    /\ hasId' = [hasId EXCEPT ![cur] = withId]
    /\ resting' = resting \cup {cur}
    /\ notional' = [notional EXCEPT ![ticker[cur]] = @ + Cost]
    /\ Persist(cur, "resting", persisted)
    /\ pc' = "idle" /\ cur' = None /\ attempt' = 0
    /\ UNCHANGED <<ticker, side, qty, filled, ledger, todo, response, now,
                   settleRow, operator, aged, today, restarts>>

AttemptFailed_NewIdPerAttempt ==
    IF attempt + 1 < MaxAttempts
    THEN /\ attempt' = attempt + 1 /\ UNCHANGED pc
         /\ \E c \in Cid : /\ FreshId(c) /\ cur' = c
                          /\ status' = [status EXCEPT ![c] = "creating"]
    ELSE /\ pc' = "idle" /\ cur' = None /\ attempt' = 0
         /\ status' = [status EXCEPT ![cur] = "failed"]

\* One attempt raised: retried with the same client order id, or reported as
\* order-create-failed without any trace in memory.
AttemptFailed ==
    IF attempt + 1 < MaxAttempts
    THEN attempt' = attempt + 1 /\ UNCHANGED <<pc, cur, status>>
    ELSE /\ pc' = "idle" /\ cur' = None /\ attempt' = 0
         /\ status' = [status EXCEPT ![cur] = "failed"]

\* The request is lost, rejected, or refused as a duplicate.
CreateRefused ==
    /\ pc = "creating"
    /\ AttemptFailed
    /\ UNCHANGED <<ticker, side, hasId, qty, resting, filled, notional, ledger,
                   todo, response, now, db, exchange, operator, underKill, aged, today, restarts>>

\* The exchange accepted the order and the reply is lost.
CreateReplyLost ==
    /\ pc = "creating"
    /\ "create_reply_lost" \in Faults
    /\ XAccept(cur)
    /\ AttemptFailed
    /\ UNCHANGED <<ticker, side, hasId, qty, resting, filled, notional, ledger,
                   todo, response, now, db, operator, aged, today, restarts>>

-----------------------------------------------------------------------------
(* poll_pending                                                            *)

PollStart ==
    /\ pc = "idle"
    /\ resting # {}
    /\ todo' = resting \cap aged
    /\ pc' = "canceling"
    /\ UNCHANGED <<memory, cur, attempt, response, now, db, exchange, operator,
                   underKill, aged, today, restarts>>

\* The DELETE: skipped without an order id, served if the order is live.
RestCancel_NeverSent(c) == UNCHANGED xstate
RestCancel_NeedsId(c) ==
    /\ hasId[c] /\ xstate[c] = "resting"
    /\ xstate' = [xstate EXCEPT ![c] = "canceled"]
RestCancel(c) ==
    \/ ~hasId[c] /\ UNCHANGED xstate
    \/ /\ hasId[c] /\ xstate[c] = "resting"
       /\ xstate' = [xstate EXCEPT ![c] = "canceled"]

\* The notional of a strike after one of its orders is canceled.
Remaining_Unclamped(t) == notional[t] - Cost
Remaining_Kept(t) == notional[t]
Remaining(t) == IF notional[t] - Cost <= 0 THEN 0 ELSE notional[t] - Cost

\* _cancel_order returned True: no REST call was needed (no order id), or the
\* DELETE was answered.  Memory first, then the row.
CancelDone(c, persisted) ==
    /\ pc = "canceling" /\ c \in todo
    /\ RestCancel(c)
    /\ status' = [status EXCEPT ![c] = "canceled"]
    /\ resting' = resting \ {c}
    /\ notional' = [notional EXCEPT ![ticker[c]] = Remaining(ticker[c])]
    /\ UpdateRow(c, "canceled", persisted)
    /\ IF persisted THEN todo' = todo \ {c} /\ pc' = pc
                    ELSE todo' = {} /\ pc' = "idle"
    /\ UNCHANGED <<ticker, side, hasId, qty, filled, ledger, cur, attempt,
                   response, now, settleRow, xqty, xfills, market, operator, underKill, aged, today,
                   restarts>>

\* _cancel_order returned False: the DELETE failed, its reply was lost, or the
\* exchange no longer has a live order of that id.  The order stays resting.
CancelRaised(c) ==
    /\ pc = "canceling" /\ c \in todo /\ hasId[c]
    /\ \/ /\ xstate[c] # "resting" \/ "cancel_failed" \in Faults
          /\ UNCHANGED xstate
       \/ /\ xstate[c] = "resting" /\ "cancel_reply_lost" \in Faults
          /\ xstate' = [xstate EXCEPT ![c] = "canceled"]
    /\ todo' = todo \ {c}
    /\ UNCHANGED <<memory, pc, cur, attempt, response, now, db, xqty, xfills,
                   market, operator, underKill, aged, today, restarts>>

\* get_fills, called only if something is still resting; `got` is its answer
\* (nothing if the call raised).
PollFills(got) ==
    /\ pc = "canceling" /\ todo = {}
    /\ got \in (IF resting = {} THEN {{}} ELSE {{}, xfills})
    /\ response' = got
    /\ pc' = IF got = {} THEN "idle" ELSE "applying"
    /\ UNCHANGED <<memory, cur, attempt, todo, now, db, exchange, operator, underKill,
                   aged, today, restarts>>

\* fill_quantity of a record <<client order id, count>>.
FillQty_Asked(f) == Size
FillQty(f) == f[2]

\* _match_and_apply_fill of one record.  The first record of an order settles
\* its quantity and takes it out of _resting; later ones match nothing.
ApplyFill(f, persisted) ==
    /\ pc = "applying" /\ f \in response
    /\ LET c == f[1] IN
       IF c \in resting
       THEN /\ status' = [status EXCEPT ![c] = "filled"]
            /\ qty' = [qty EXCEPT ![c] = FillQty(f)]
            /\ resting' = resting \ {c}
            /\ filled' = filled \cup {c}
            /\ UpdateRow(c, "filled", persisted)
       ELSE persisted /\ UNCHANGED <<status, qty, resting, filled, row>>
    /\ response' = IF persisted THEN response \ {f} ELSE {}
    /\ pc' = IF response' = {} THEN "idle" ELSE pc
    /\ UNCHANGED <<ticker, side, hasId, notional, ledger, cur, attempt, todo,
                   now, settleRow, exchange, operator, underKill, aged, today, restarts>>

-----------------------------------------------------------------------------
(* reconcile                                                               *)

\* binary_payoff, in cents; no_data pays the NO side.
Payoff(outcome, s) ==
    IF s = (IF outcome = "no_data" THEN "no" ELSE outcome) THEN 100 ELSE 0

\* computed_pnl_usd of an order, in cents.
Pnl(c, outcome) ==
    (Payoff(outcome, side[c]) - Price - Fee) * qty[c]

\* _filled_by_ticker without the ticker.
Popped_Kept(t) == filled
Popped(t) == filled \ Of(t, filled)

\* The filled orders of the ticker leave _filled_by_ticker before the loop, and
\* the clock is read; get_settlements only feeds the discrepancy report and may
\* fail, and may take the call past midnight.
ReconcileStart(t) ==
    /\ pc = "idle"
    /\ market[t] # "open"
    /\ Of(t, filled) # {}
    /\ todo' = Of(t, filled)
    /\ filled' = Popped(t)
    /\ pc' = "settling" /\ now' = today
    /\ UNCHANGED <<orders, resting, notional, ledger, cur, attempt, response,
                   db, exchange, operator, underKill, aged, today,
                   restarts>>

\* One turn of the loop.  An order without a row is not persisted; the last
\* turn is followed by the pop of the ticker's whole notional.
SettleOne(c) ==
    /\ pc = "settling" /\ c \in todo
    /\ LET t == ticker[c] IN
       /\ settled' = settled \cup {c}
       /\ settledOn' = [settledOn EXCEPT ![c] = now]
       /\ dailyPnl' = [dailyPnl EXCEPT ![now] = @ + Pnl(c, market[t])]
       /\ settleRow' = IF row[c] = "none" THEN settleRow
                                         ELSE settleRow \cup {c}
       /\ todo' = todo \ {c}
       /\ IF todo' = {}
          THEN pc' = "idle" /\ now' = 0 /\ notional' = [notional EXCEPT ![t] = 0]
          ELSE UNCHANGED <<pc, now, notional>>
    /\ UNCHANGED <<orders, resting, filled, cur, attempt, response, row,
                   exchange, operator, underKill, aged, today, restarts>>

\* The settlement insert of one order raises: the rest of the list, already
\* popped, is never settled, and the notional stays.
SettleRaised(c) ==
    /\ pc = "settling" /\ c \in todo
    /\ row[c] # "none" /\ "persist" \in Faults
    /\ pc' = "idle" /\ todo' = {} /\ now' = 0
    /\ UNCHANGED <<memory, cur, attempt, response, db, exchange, operator,
                   underKill, aged, today, restarts>>

-----------------------------------------------------------------------------
(* The environment: exchange, clock, operator, process.                    *)

XFill(c, q) ==
    /\ xstate[c] = "resting"
    /\ q \in 1..(Size - xqty[c])
    /\ q = Size - xqty[c] \/ "partial_fill" \in Faults
    /\ xqty' = [xqty EXCEPT ![c] = @ + q]
    /\ xfills' = xfills \cup {<<c, q>>}
    /\ xstate' = IF xqty'[c] = Size THEN [xstate EXCEPT ![c] = "executed"]
                                    ELSE xstate
    /\ UNCHANGED <<memory, control, db, market, operator, underKill, aged,
                   today, restarts>>

\* The market resolves; what still rests in it is cancelled by the exchange.
XResolve(t, o) ==
    /\ market[t] = "open"
    /\ LET live == {c \in Cid : xstate[c] = "resting" /\ ticker[c] = t} IN
       /\ live = {} \/ "close_on_resting" \in Faults
       /\ xstate' = [c \in Cid |-> IF c \in live THEN "canceled" ELSE xstate[c]]
    /\ market' = [market EXCEPT ![t] = o]
    /\ UNCHANGED <<memory, control, db, xqty, xfills, operator, underKill, aged,
                   today, restarts>>

\* cancel_timeout_s elapses; the age counts from before the create call.
Age(c) ==
    /\ status[c] \in {"creating", "resting"} /\ c \notin aged
    /\ aged' = aged \cup {c}
    /\ UNCHANGED <<memory, control, db, exchange, operator, underKill, today,
                   restarts>>

NewDay ==
    /\ today < MaxDay
    /\ today' = today + 1
    /\ UNCHANGED <<memory, control, db, exchange, operator, underKill, aged,
                   restarts>>

FlipKill ==
    /\ "flags" \in Faults
    /\ kill' = ~kill
    /\ underKill' = {}
    /\ UNCHANGED <<memory, control, db, exchange, assetOff, aged, today, restarts>>

FlipAsset(t) ==
    /\ "flags" \in Faults
    /\ assetOff' = IF t \in assetOff THEN assetOff \ {t} ELSE assetOff \cup {t}
    /\ UNCHANGED <<memory, control, db, exchange, kill, underKill, aged, today,
                   restarts>>

\* The process dies anywhere and starts again: nothing reloads the orders.
Restart ==
    /\ restarts < MaxRestarts
    /\ restarts' = restarts + 1
    /\ status' = [c \in Cid |-> IF status[c] \in {"none", "failed"}
                                THEN status[c] ELSE "lost"]
    /\ resting' = {} /\ filled' = {} /\ settled' = {}
    /\ notional' = [t \in Ticker |-> 0]
    /\ dailyPnl' = [d \in Day |-> 0] /\ settledOn' = [c \in Cid |-> NoDay]
    /\ now' = 0
    /\ pc' = "idle" /\ cur' = None /\ attempt' = 0 /\ todo' = {} /\ response' = {}
    /\ UNCHANGED <<ticker, side, hasId, qty, db, exchange, operator, underKill, aged, today>>

-----------------------------------------------------------------------------
CreateReply == \/ \E withId, ok \in BOOLEAN : CreateAnswered(withId, ok)
               \/ CreateRefused
               \/ CreateReplyLost

Submit == \/ \E c \in Cid, t \in Ticker, s \in Side : BeginSubmit(c, t, s)
          \/ CreateReply

Poll == \/ PollStart
        \/ \E c \in Cid, ok \in BOOLEAN : CancelDone(c, ok)
        \/ \E c \in Cid : CancelRaised(c)
        \/ \E got \in {{}, xfills} : PollFills(got)
        \/ \E f \in xfills, ok \in BOOLEAN : ApplyFill(f, ok)

Settle == \/ \E t \in Ticker : ReconcileStart(t)
          \/ \E c \in Cid : SettleOne(c)
          \/ \E c \in Cid : SettleRaised(c)

Environment == \/ \E c \in Cid, q \in 1..Size : XFill(c, q)
               \/ \E t \in Ticker, o \in Outcome : XResolve(t, o)
               \/ \E c \in Cid : Age(c)
               \/ NewDay
               \/ FlipKill
               \/ \E t \in Ticker : FlipAsset(t)
               \/ Restart

Next == Submit \/ Poll \/ Settle \/ Environment

Spec == Init /\ [][Next]_vars

\* The run loop calls poll_pending on every tick, so a poll always starts and
\* runs to its end, and time passes.  Strong fairness says that a call that may
\* fail does not fail for ever: a DELETE the exchange can serve is answered, and
\* get_fills brings its records.  Nothing is assumed of submits, of the exchange
\* filling orders, or of the operator.
Fairness ==
    /\ WF_vars(CreateReply)
    /\ WF_vars(PollStart)
    /\ \A c \in Cid : /\ WF_vars(Age(c))
                      /\ SF_vars(CancelDone(c, TRUE))
                      /\ WF_vars(CancelRaised(c))
                      /\ WF_vars(SettleOne(c))
    /\ WF_vars(PollFills({}))
    /\ SF_vars(xfills # {} /\ PollFills(xfills))
    /\ SF_vars(\E f \in xfills : ApplyFill(f, TRUE))

FairSpec == Spec /\ Fairness
-----------------------------------------------------------------------------
(* Properties.                                                             *)

MemoryTypeOK ==
    /\ status \in [Cid -> {"none", "creating", "resting", "filled", "canceled",
                           "failed", "lost"}]
    /\ ticker \in [Cid -> Ticker \cup {None}] /\ side \in [Cid -> Side \cup {None}]
    /\ hasId \in [Cid -> BOOLEAN] /\ qty \in [Cid -> 0..Size]
    /\ resting \subseteq Cid /\ filled \subseteq Cid /\ settled \subseteq Cid
    /\ notional \in [Ticker -> Nat]
    /\ dailyPnl \in [Day -> Int] /\ settledOn \in [Cid -> Day \cup {NoDay}]

ControlTypeOK ==
    /\ pc \in {"idle", "creating", "canceling", "applying", "settling"}
    /\ cur \in Cid \cup {None}
    /\ (pc = "creating") <=> (cur \in Cid)
    /\ attempt \in 0..(MaxAttempts - 1) /\ now \in Day
    /\ todo \subseteq Cid /\ response \subseteq (Cid \X (1..Size))

WorldTypeOK ==
    /\ row \in [Cid -> {"none", "resting", "filled", "canceled"}]
    /\ settleRow \subseteq Cid /\ aged \subseteq Cid
    /\ today \in Day /\ restarts \in 0..MaxRestarts
    /\ kill \in BOOLEAN /\ assetOff \subseteq Ticker
    /\ xstate \in [Cid -> {"none", "resting", "executed", "canceled"}]
    /\ xqty \in [Cid -> 0..Size] /\ xfills \subseteq (Cid \X (1..Size))
    /\ market \in [Ticker -> Outcome \cup {"open"}]
    /\ underKill \subseteq Cid

\* The type of every variable.
TypeOK == MemoryTypeOK /\ ControlTypeOK /\ WorldTypeOK

Tracked == {"resting", "filled", "canceled"}

\* open_positions() never exceeds max_concurrent, whatever order of creates,
\* fills, cancels and failures led there: no step between two submits adds one.
OpenPositionCap == OpenPositions <= MaxOpen

\* Until a market resolves, the notional kept for its strike is exactly the cost
\* of the orders the executor holds on it: what PositionAccountabilityRule reads
\* is neither inflated by a cancelled order nor short of a filled one.
NotionalExact ==
    \A t \in Ticker : market[t] = "open" =>
        notional[t] = Cost * Cardinality(Of(t, resting \cup filled))

\* Every order on the exchange is one the executor tracks, or the one of the
\* create call in progress, or its submit was reported as failed (or died with
\* the process); and every tracked order exists.  A retry that did not keep its
\* client order id would leave a second order that nothing accounts for.
OrdersMatchExchange ==
    \A c \in Cid :
        /\ xstate[c] # "none" => \/ status[c] \in Tracked \cup {"failed", "lost"}
                                 \/ c = cur
        /\ status[c] \in Tracked => xstate[c] # "none"

\* The executor never books more contracts than the exchange filled.
NeverOverBooked ==
    \A c \in Cid : status[c] = "filled" =>
        qty[c] > 0 /\ qty[c] <= xqty[c]

\* An order reported as canceled over REST can no longer fill.
CanceledIsDead ==
    \A c \in Cid : status[c] = "canceled" /\ hasId[c] =>
        xstate[c] = "canceled"

\* The row of an order never records a fill or a cancel that did not happen,
\* although any statement may raise after the memory was changed.
RowNeverAhead ==
    \A c \in Cid : row[c] \in {"filled", "canceled"} =>
        status[c] \in {row[c], "lost"}

\* The contracts of the orders S, one by one, and those that pay 100 cents.
Contracts(S) == {k \in S \X (1..Size) : k[2] <= qty[k[1]]}
Won(S) == {c \in S : Payoff(market[ticker[c]], side[c]) = 100}
PnlBy(S) == 100 * Cardinality(Contracts(Won(S)))
              - (Price + Fee) * Cardinality(Contracts(S))

SettledOn(d) == {c \in settled : settledOn[c] = d}

\* The P/L the daily stop reads of a UTC day is the P/L of the filled contracts
\* of the orders settled on it, each counted once, at the outcome of its market,
\* however often a market is reconciled and wherever a reconcile failed.
PnlCountedOnce == \A d \in Day : dailyPnl[d] = PnlBy(SettledOn(d))

\* The orders that put capital at risk: live, or filled in an open market.
AtRisk == {c \in Cid : /\ xstate[c] # "none"
                       /\ market[ticker[c]] = "open"
                       /\ xstate[c] = "resting" \/ xqty[c] > 0}

\* The timeout canceled the rest of these orders after a part of them had filled:
\* the records of that part match nothing any more.
CutShort == {c \in Cid : /\ status[c] = "canceled" /\ xstate[c] = "canceled"
                         /\ xqty[c] > 0}

\* What is really at risk on the exchange, not what the executor believes, stays
\* within max_concurrent, also while an order that its first fill record took out
\* of _resting still has contracts to fill: all but the orders cut short, whose
\* contracts no book has.
ExposureCap == Cardinality(AtRisk \ CutShort) <= MaxOpen

\* After the kill switch is engaged at most one more order reaches the exchange:
\* the one whose create call had passed the flag gate already.
KillLeaksAtMostOne == Cardinality(underKill) <= 1

\* kalshi_api.create_order: "Kalshi rejects duplicates with the same key, so
\* retry is safe": a submit that is reported as failed left no live order.
RetrySafe == \A c \in Cid : status[c] = "failed" => xstate[c] # "resting"

\* An order the executor holds as resting is eventually resolved: filled or
\* canceled, so that its open-position slot and its notional come back.
RestingResolves ==
    \A c \in Cid : status[c] = "resting" ~> status[c] # "resting"
-----------------------------------------------------------------------------
(* The inductive invariant behind the safety properties.                   *)

\* The collections of the executor partition its orders by status, and the
\* loops in progress only hold orders that are still theirs.
Bookkeeping ==
    /\ resting = {c \in Cid : status[c] = "resting"}
    /\ filled \cup settled \subseteq {c \in Cid : status[c] = "filled"}
    /\ filled \cap settled = {}
    /\ \A c \in Cid : status[c] = "creating" <=> c = cur
    /\ \A c \in Cid : status[c] # "none" => ticker[c] \in Ticker
    /\ pc = "canceling" => todo \subseteq resting
    /\ pc = "settling" =>
          /\ todo \subseteq {c \in Cid : status[c] = "filled"}
          /\ todo \cap (filled \cup settled) = {}
          /\ \A c \in todo : market[ticker[c]] # "open"
    /\ pc \in {"idle", "creating", "applying"} => todo = {}
    /\ \A c \in settled : market[ticker[c]] # "open"

\* The create call in progress has passed the cap.
RoomForCurrent == pc = "creating" => OpenPositions < MaxOpen

\* What the executor knows of the exchange.
ExchangeLag ==
    /\ response \subseteq xfills
    /\ \A f \in xfills : f[2] <= xqty[f[1]]
    /\ \A c \in Cid : status[c] = "none" => xstate[c] = "none"
    /\ \A c \in Cid : xstate[c] = "none" => xqty[c] = 0

IInv == /\ TypeOK /\ Bookkeeping /\ RoomForCurrent /\ OpenPositionCap
        /\ ExchangeLag /\ NotionalExact /\ OrdersMatchExchange
        /\ NeverOverBooked /\ CanceledIsDead

\* The environments in which the exchange's view cannot escape the executor's:
\* every accepted create is acknowledged with an order id, and the process does not
\* restart.  Orders may fill in pieces, DELETEs, replies to DELETEs and database
\* statements may fail, and the market may close at any time.
Reliable ==
    /\ Faults \cap {"create_reply_lost", "no_order_id"} = {}
    /\ MaxRestarts = 0

\* In those environments, what is at risk on the exchange is held in memory or was
\* cut short.
RiskIsHeld ==
    /\ AtRisk \subseteq resting \cup filled \cup CutShort
    /\ \A c \in resting : hasId[c]
-----------------------------------------------------------------------------
(* The abstract specification.                                             *)

\* Where an order stands in the ledger of positions: submits that failed took
\* no position.
Stands == [c \in Cid |->
    IF c \in resting \cup filled THEN "held"
    ELSE IF c \in settled THEN "settled"
    ELSE IF pc = "settling" /\ c \in todo THEN "due"
    ELSE IF status[c] \in {"canceled", "filled", "lost"} THEN "dropped"
    ELSE "new"]

\* Fees are paid per contract that filled, so a small fill costs less.
WorstOfOrder == (Price + Fee) * Size
BestOfOrder  == (100 - Price) * Size

Ledger == INSTANCE PositionLedger WITH
    Position <- Cid, stands <- Stands, pnl <- dailyPnl,
    Worst <- WorstOfOrder, Best <- BestOfOrder

LedgerKept == Ledger!Spec

\* What the refinement needs beside IInv: P/L is not booked ahead of the clock,
\* and a create call in progress was asked for on a day that was not stopped, or
\* is answered on the next, which has no P/L yet.
LedgerInv ==
    /\ now <= today
    /\ \A d \in Day : d > today => dailyPnl[d] = 0
    /\ pc = "creating" => ~Ledger!Stopped(today)
-----------------------------------------------------------------------------
(* What a day can lose.                                                    *)

\* DailyLossRule looks at realized P/L only, and a reconcile that began before
\* midnight books on the day it began: still no UTC day loses more than the stop
\* and the worst loss of max_concurrent orders together.
DayLossBounded ==
    \A d \in Day : -dailyPnl[d] < StopLoss + WorstOfOrder * MaxOpen

\* Orders popped and not yet settled, which open_positions() no longer counts.
DueOrders == IF pc = "settling" THEN Cardinality(todo) ELSE 0

\* The loss of the day if every order held or due were to lose; of the day a
\* reconcile books on, if every order still due does; and no create call is under
\* way on a stopped day.
LossInv ==
    /\ OpenPositions + DueOrders <= MaxOpen
    /\ WorstOfOrder * (OpenPositions + DueOrders) - dailyPnl[today]
          < StopLoss + WorstOfOrder * MaxOpen
    /\ pc = "settling" =>
          /\ WorstOfOrder * DueOrders - dailyPnl[now] < StopLoss + WorstOfOrder * MaxOpen
          /\ \A d \in Day : d > now => dailyPnl[d] = 0
    /\ pc = "creating" => dailyPnl[today] > -StopLoss
    /\ DayLossBounded
=============================================================================
