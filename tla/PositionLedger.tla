--------------------------- MODULE PositionLedger ---------------------------
(***************************************************************************)
(* What an executor promises of positions and money, live or on paper      *)
(* ("same public surface", src/execution/kalshi_live_executor.py): a       *)
(* position is taken below the cap and the daily stop, leaves once, and is *)
(* settled at most once, for no more than it can win or lose.  Exchange,   *)
(* markets, rows and the notional per strike are left to the executors.    *)
(***************************************************************************)
EXTENDS Integers, FiniteSets

CONSTANTS
    Position,     \* what may be taken: orders, or fills on paper
    MaxOpen,      \* OpenPositionsRule.max_concurrent
    StopLoss,     \* DailyLossRule.stop_usd, in cents
    Worst, Best,  \* the most one position can lose and win, in cents
    MaxDay        \* bound on the number of UTC days

Day == 0..MaxDay

VARIABLES
    stands,  \* "new", "held", "due" (about to be settled), "settled", "dropped"
    pnl,     \* realized P/L per UTC day, as the daily stop reads it
    today

vars == <<stands, pnl, today>>

Init ==
    /\ stands = [p \in Position |-> "new"]
    /\ pnl = [d \in Day |-> 0]
    /\ today = 0

-----------------------------------------------------------------------------
In(where) == {p \in Position : stands[p] \in where}
Moved(S, where) == [p \in Position |-> IF p \in S THEN where ELSE stands[p]]

\* The day has realized a loss of StopLoss.
Stopped(d) == pnl[d] < 0 /\ pnl[d] <= -StopLoss

\* A position is taken, of those that never were.
Take(p) ==
    /\ stands[p] = "new"
    /\ Cardinality(In({"held"})) < MaxOpen
    /\ ~Stopped(today)
    /\ stands' = Moved({p}, "held")
    /\ UNCHANGED <<pnl, today>>

\* A position is given up before its market resolves: a canceled order.
Cancel(p) ==
    /\ stands[p] = "held"
    /\ stands' = Moved({p}, "dropped")
    /\ UNCHANGED <<pnl, today>>

\* Positions stop counting as open before they are settled.
Pop(F) ==
    /\ F # {} /\ F \subseteq In({"held"})
    /\ stands' = Moved(F, "due")
    /\ UNCHANGED <<pnl, today>>

\* What n positions may yield.
Gains(n) == -(Worst * n)..(Best * n)

\* Of the positions F the executor settles S, on one day not after today; the
\* rest is dropped, as a statement raised.
Realize(F, S) ==
    /\ F # {} /\ F \subseteq In({"held", "due"}) /\ S \subseteq F
    /\ stands' = [p \in Position |-> IF p \in S THEN "settled"
                                     ELSE IF p \in F THEN "dropped"
                                     ELSE stands[p]]
    /\ \E d \in 0..today, g \in Gains(Cardinality(S)) : pnl' = [pnl EXCEPT ![d] = @ + g]
    /\ UNCHANGED today

NewDay ==
    /\ today < MaxDay
    /\ today' = today + 1
    /\ UNCHANGED <<stands, pnl>>

\* The process restarts with empty books; what it held, or was about to take,
\* is nobody's.
Forget ==
    /\ stands' \in [Position -> {"new", "dropped"}]
    /\ \A p \in Position : stands[p] # "new" => stands'[p] = "dropped"
    /\ pnl' = [d \in Day |-> 0]
    /\ UNCHANGED today

Next == \/ \E p \in Position : Take(p) \/ Cancel(p)
        \/ \E F \in SUBSET In({"held"}) : Pop(F)
        \/ \E F \in SUBSET In({"held", "due"}) : \E S \in SUBSET F : Realize(F, S)
        \/ NewDay
        \/ Forget

Spec == Init /\ [][Next]_vars
=============================================================================
