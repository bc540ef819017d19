------------------------ MODULE PaperExecutorProofs ------------------------
(***************************************************************************)
(* Proofs about PaperExecutor for every number of fills, tickers, days and *)
(* restarts and every price, size and limit.                               *)
(***************************************************************************)
EXTENDS PaperExecutor, FiniteSetTheorems, TLAPS

USE RiskAssumption, PaperAssumption

\* Products of naturals: natural, monotone and distributive.
LEMMA Times ==
    ASSUME NEW w \in Nat, NEW a \in Nat, NEW b \in Nat
    PROVE  /\ w * a \in Nat /\ w * 0 = 0 /\ w * 1 = w
           /\ a <= b => w * a <= w * b
           /\ w * (a + b) = w * a + w * b
OBVIOUS

\* Costs are natural numbers of cents.
LEMMA CostIsNat == Cost \in Nat /\ WorstLoss \in Nat /\ WorstLoss * MaxOpen \in Nat
<1>1. \A a, b \in Nat : a * b \in Nat
  BY Times
<1>2. Cost \in Nat
  BY <1>1 DEF Cost
<1>3. WorstLoss \in Nat
  BY <1>2 DEF WorstLoss
<1> QED
  BY <1>1, <1>2, <1>3

\* Sets of fills are finite, and counting the disjoint union of two adds up.
LEMMA Count ==
    ASSUME NEW A \in SUBSET Fill, NEW B \in SUBSET Fill
    PROVE  /\ IsFiniteSet(A) /\ Cardinality(A) \in Nat
           /\ A \subseteq B => Cardinality(A) <= Cardinality(B)
           /\ A \cap B = {} => Cardinality(A \cup B) = Cardinality(A) + Cardinality(B)
<1>1. IsFiniteSet(A) /\ IsFiniteSet(B)
  BY FS_Subset
<1>2. Cardinality(A) \in Nat /\ Cardinality(B) \in Nat
  BY <1>1, FS_CardinalityType
<1>3. A \subseteq B => Cardinality(A) <= Cardinality(B)
  BY <1>1, FS_Subset
<1>4. ASSUME A \cap B = {} PROVE Cardinality(A \cup B) = Cardinality(A) + Cardinality(B)
  <2>1. Cardinality(A \cup B)
        = Cardinality(A) + Cardinality(B) - Cardinality(A \cap B)
    BY <1>1, FS_Union
  <2>2. Cardinality(A \cap B) = 0
    BY <1>4, FS_EmptySet
  <2> QED
    BY <2>1, <2>2, <1>2
<1> QED
  BY <1>1, <1>2, <1>3, <1>4

\* Settling fills costs at most their worst loss.
LEMMA PnlAtLeast ==
    ASSUME NEW S \in SUBSET Fill, NEW o
    PROVE  PnlOf(S, o) \in Int /\ PnlOf(S, o) >= -(WorstLoss * Cardinality(S))
<1> DEFINE won == Cardinality(Winners(S, o))
           gain == 100 * Size * won
           loss == WorstLoss * Cardinality(S)
<1>1. Winners(S, o) \in SUBSET Fill
  BY DEF Winners
<1>2. won \in Nat /\ Cardinality(S) \in Nat
  BY <1>1, Count
<1>3. gain \in Nat
  <2>1. 100 * Size \in Nat
    OBVIOUS
  <2> HIDE DEF won
  <2> QED BY <2>1, <1>2, Times
<1>4. loss \in Nat
  BY <1>2, CostIsNat, Times
<1> HIDE DEF gain, loss
<1>5. gain - loss \in Int /\ gain - loss >= -loss
  BY <1>3, <1>4
<1> QED
  BY <1>5 DEF PnlOf, gain, loss

\* The initial state satisfies the invariant.
LEMMA InitIInv == Init => IInv
<1> SUFFICES ASSUME Init PROVE IInv
  OBVIOUS
<1> USE DEF Init
<1>1. TypeOK
  BY DEF TypeOK, Day
<1>2. Bookkeeping
  BY DEF Bookkeeping
<1>3. OpenPositions = 0 /\ \A t \in Ticker : Of(t, openFills) = {}
  BY FS_EmptySet DEF OpenPositions, Of
<1>4. OpenPositionCap
  BY <1>3 DEF OpenPositionCap
<1>5. \A t \in Ticker : Cost * Cardinality(Of(t, openFills)) = 0
  BY <1>3, FS_EmptySet, CostIsNat, Times
<1>6. NotionalCoversOpen /\ StrikeExposureCapped
  BY <1>5 DEF NotionalCoversOpen, StrikeExposureCapped
<1>7. \A d \in Day : dailyPnl[d] = 0
  OBVIOUS
<1>8. today \in Day
  BY DEF Day
<1>9. LossBound
  BY <1>3, <1>7, <1>8, CostIsNat, Times DEF LossBound
<1>10. FutureEmpty /\ DayLossBounded
  BY <1>7, CostIsNat DEF FutureEmpty, DayLossBounded
<1> QED
  BY <1>1, <1>2, <1>4, <1>6, <1>9, <1>10 DEF IInv

\* A submit that the rules let through keeps the invariant.
LEMMA SubmitStep ==
    ASSUME IInv, NEW f \in Fill, NEW t \in Ticker, NEW s \in Side, Submit(f, t, s)
    PROVE  IInv'
<1> DEFINE n == OpenPositions
<1>0. TypeOK /\ Bookkeeping /\ OpenPositionCap
  BY DEF IInv
<1>1. f \notin openFills
  BY <1>0 DEF Submit, Bookkeeping
<1>2. openFills \in SUBSET Fill /\ openFills' = openFills \cup {f}
  BY <1>0 DEF TypeOK, Submit
<1>3. n \in Nat /\ OpenPositions' = n + 1
  <2>1. Cardinality({f}) = 1
    BY FS_Singleton
  <2> QED
    BY <1>1, <1>2, <2>1, Count DEF OpenPositions
<1>4. /\ n < MaxOpen /\ dailyPnl[today] > -StopLoss
      /\ notional[t] + Cost <= StrikeCap
  BY DEF Submit, PositionRules, OpenPositionsRule, DailyLossRule,
         PositionAccountability, Opp, Context, Cost
<1>5. TypeOK'
  <2>1. notional' \in [Ticker -> Nat]
    BY <1>0, CostIsNat DEF TypeOK, Submit, NotionalWith
  <2> QED
    BY <1>0, <2>1 DEF TypeOK, Submit
<1>6. Bookkeeping'
  BY <1>0, <1>1 DEF Bookkeeping, Submit, TypeOK
<1>7. OpenPositionCap'
  BY <1>3, <1>4 DEF OpenPositionCap
<1>8. ASSUME NEW u \in Ticker
      PROVE  /\ notional'[u] >= Cost * Cardinality(Of(u, openFills))'
             /\ Cost * Cardinality(Of(u, openFills))' <= StrikeCap
  <2> DEFINE A == Of(u, openFills)
             m == Cardinality(A)
  <2>1. A \in SUBSET Fill /\ m \in Nat
    BY <1>2, Count DEF Of
  <2>2. notional[u] \in Nat /\ notional[u] >= Cost * m /\ Cost * m <= StrikeCap
    BY <1>0 DEF IInv, NotionalCoversOpen, StrikeExposureCapped, TypeOK
  <2>3. CASE u = t
    <3>1. Of(u, openFills)' = A \cup {f} /\ f \notin A
      BY <1>0, <1>1, <1>2, <2>3 DEF Of, Submit, TypeOK
    <3>2. Cardinality(Of(u, openFills))' = m + 1
      <4>1. Cardinality({f}) = 1
        BY FS_Singleton
      <4>2. {f} \in SUBSET Fill /\ A \cap {f} = {}
        BY <3>1
      <4>3. Cardinality(A \cup {f}) = m + 1
        <5> HIDE DEF A
        <5>1. Cardinality(A \cup {f}) = Cardinality(A) + Cardinality({f})
          BY <2>1, <4>2, Count
        <5> QED
          BY <5>1, <4>1
      <4> QED
        BY <3>1, <4>3
    <3>3. notional'[u] = notional[u] + Cost
      BY <1>0, <2>3 DEF Submit, NotionalWith, TypeOK
    <3>4. Cost * (m + 1) = Cost * m + Cost
      BY <2>1, CostIsNat, Times
    <3> HIDE DEF m, A
    <3>5. Cost * m \in Nat
      BY <2>1, CostIsNat, Times
    <3> QED
      BY <1>4, <2>2, <2>3, <3>2, <3>3, <3>4, <3>5, CostIsNat
  <2>4. CASE u # t
    <3>1. Of(u, openFills)' = A
      BY <1>0, <1>1, <1>2, <2>4 DEF Of, Submit, TypeOK
    <3>2. notional'[u] = notional[u]
      BY <1>0, <2>4 DEF Submit, TypeOK
    <3> QED
      BY <2>2, <3>1, <3>2
  <2> QED
    BY <2>3, <2>4
<1>9. NotionalCoversOpen' /\ StrikeExposureCapped'
  BY <1>8, CostIsNat DEF NotionalCoversOpen, StrikeExposureCapped, Cost
<1>10. LossBound'
  <2>1. WorstLoss * (n + 1) <= WorstLoss * MaxOpen
    <3> HIDE DEF n
    <3> QED BY <1>3, <1>4, CostIsNat, Times
  <2>2. WorstLoss * (n + 1) \in Nat
    BY <1>3, CostIsNat, Times
  <2>3. UNCHANGED <<dailyPnl, today>> /\ dailyPnl[today] \in Int
    BY <1>0 DEF Submit, TypeOK
  <2>4. (WorstLoss * OpenPositions)' = WorstLoss * (n + 1)
    BY <1>3 DEF WorstLoss, Cost
  <2> DEFINE a == WorstLoss * (n + 1)
             b == WorstLoss * MaxOpen
  <2> HIDE DEF a, b, n
  <2>5. a - dailyPnl[today] < StopLoss + b
    BY <1>4, <2>1, <2>2, <2>3, CostIsNat DEF a, b
  <2> QED
    BY <2>3, <2>4, <2>5 DEF LossBound, a, b, WorstLoss, Cost
<1>11. FutureEmpty' /\ DayLossBounded'
  BY DEF IInv, Submit, FutureEmpty, DayLossBounded, WorstLoss, Cost
<1> QED
  BY <1>5, <1>6, <1>7, <1>9, <1>10, <1>11 DEF IInv

\* Settling a market, completely or until a statement raises, keeps it.
LEMMA ReconcileStep ==
    ASSUME IInv, NEW t \in Ticker, NEW S \in SUBSET Fill, Reconcile(t, S)
    PROVE  IInv'
<1> DEFINE fills == Of(t, openFills)
           n == OpenPositions
           k == Cardinality(fills)
           pnl == PnlOf(S, market[t])
<1>0. TypeOK /\ Bookkeeping /\ OpenPositionCap
  BY DEF IInv
<1>1. /\ openFills \in SUBSET Fill /\ fills \in SUBSET Fill /\ S \subseteq fills
      /\ openFills' = openFills \ fills /\ fills \subseteq openFills
  BY <1>0 DEF TypeOK, Of, Reconcile, Popped
<1>2. UNCHANGED <<taken, ticker, side, today, market, restarts>>
  BY DEF Reconcile
<1>3. /\ n \in Nat /\ k \in Nat /\ Cardinality(S) \in Nat /\ Cardinality(S) <= k
      /\ OpenPositions' \in Nat /\ n = OpenPositions' + k
  <2>1. openFills' \in SUBSET Fill /\ openFills' \cap fills = {}
        /\ openFills' \cup fills = openFills
    BY <1>1
  <2>2. Cardinality(openFills) = Cardinality(openFills') + k
    BY <1>1, <2>1, Count
  <2> QED
    BY <1>1, <2>1, <2>2, Count DEF OpenPositions
<1>4. pnl \in Int /\ pnl >= -(WorstLoss * Cardinality(S))
  BY PnlAtLeast
<1>5. dailyPnl' = [dailyPnl EXCEPT ![today] = @ + pnl]
  BY DEF Reconcile, Bucket
<1>6. dailyPnl' \in [Day -> Int] /\ dailyPnl'[today] = dailyPnl[today] + pnl
      /\ dailyPnl[today] \in Int /\ \A d \in Day : d # today => dailyPnl'[d] = dailyPnl[d]
  <2> HIDE DEF pnl
  <2> QED BY <1>0, <1>4, <1>5 DEF TypeOK
<1>7. TypeOK'
  <2>1. notional' \in [Ticker -> Nat]
    BY <1>0 DEF TypeOK, Reconcile
  <2>2. settleRow' \in [Fill -> Day \cup {NoDay}]
    BY <1>0 DEF TypeOK, Reconcile
  <2>3. settled' \subseteq Fill
    BY <1>0 DEF TypeOK, Reconcile
  <2> QED
    BY <1>0, <1>1, <1>2, <1>6, <2>1, <2>2, <2>3 DEF TypeOK
<1>8. Bookkeeping'
  <2>1. \A g \in S : ticker[g] = t /\ g \in openFills /\ g \in taken
    BY <1>0, <1>1 DEF Of, Bookkeeping
  <2>2. today # NoDay /\ market[t] # "open"
    BY <1>0 DEF TypeOK, Reconcile, Day, NoDay
  <2>3. settled' = settled \cup S
        /\ settleRow' = [g \in Fill |-> IF g \in S THEN today ELSE settleRow[g]]
    BY DEF Reconcile
  <2>4. openFills' \cap settled' = {}
    BY <1>0, <1>1, <2>3 DEF Bookkeeping
  <2>5. \A g \in Fill : settleRow'[g] # NoDay => g \in taken \ openFills'
    BY <1>0, <1>1, <2>1, <2>3 DEF Bookkeeping
  <2>6. \A g \in settled' : settleRow'[g] # NoDay /\ market[ticker[g]] # "open"
    BY <1>0, <1>1, <2>1, <2>2, <2>3 DEF Bookkeeping, TypeOK
  <2>7. openFills' \cup settled' \subseteq taken
    BY <1>0, <1>1, <2>1, <2>3 DEF Bookkeeping
  <2>8. \A g \in taken : ticker[g] \in Ticker
    BY <1>0 DEF Bookkeeping
  <2> QED
    BY <1>2, <2>4, <2>5, <2>6, <2>7, <2>8 DEF Bookkeeping
<1>9. OpenPositionCap'
  <2>1. n <= MaxOpen
    BY <1>0 DEF OpenPositionCap
  <2>2. OpenPositions' <= MaxOpen
    BY <1>3, <2>1
  <2> QED
    BY <2>2 DEF OpenPositionCap
<1>10. ASSUME NEW u \in Ticker
       PROVE  /\ notional'[u] >= Cost * Cardinality(Of(u, openFills))'
              /\ Cost * Cardinality(Of(u, openFills))' <= StrikeCap
  <2>1. notional[u] \in Nat /\ notional[u] >= Cost * Cardinality(Of(u, openFills))
        /\ Cost * Cardinality(Of(u, openFills)) <= StrikeCap
    BY <1>0 DEF IInv, NotionalCoversOpen, StrikeExposureCapped, TypeOK
  <2>2. CASE u = t
    <3>1. Of(u, openFills)' = {}
      BY <1>1, <1>2, <2>2 DEF Of
    <3>2. Cost * Cardinality(Of(u, openFills))' = 0
      BY <3>1, FS_EmptySet, CostIsNat, Times
    <3>3. notional'[u] \in Nat
      BY <1>7 DEF TypeOK
    <3> QED
      BY <3>2, <3>3
  <2>3. CASE u # t
    <3>1. Of(u, openFills)' = Of(u, openFills)
      BY <1>1, <1>2, <2>3 DEF Of
    <3>2. notional'[u] = notional[u]
      BY <1>0, <2>3 DEF Reconcile, TypeOK
    <3> QED
      BY <2>1, <3>1, <3>2
  <2> QED
    BY <2>2, <2>3
<1>11. NotionalCoversOpen' /\ StrikeExposureCapped'
  BY <1>10 DEF NotionalCoversOpen, StrikeExposureCapped, Cost
<1>12. WorstLoss * OpenPositions' - dailyPnl'[today] < StopLoss + WorstLoss * MaxOpen
  <2> DEFINE a == WorstLoss * OpenPositions'
             b == WorstLoss * k
             c == WorstLoss * Cardinality(S)
             m == WorstLoss * MaxOpen
  <2>1. a \in Nat /\ b \in Nat /\ c \in Nat /\ m \in Nat
    BY <1>3, CostIsNat, Times
  <2>2. WorstLoss * n = a + b
    <3> HIDE DEF n, k
    <3> QED BY <1>3, CostIsNat, Times
  <2>3. c <= b
    <3> HIDE DEF k
    <3> QED BY <1>3, CostIsNat, Times
  <2>4. WorstLoss * n - dailyPnl[today] < StopLoss + m
    BY DEF IInv, LossBound
  <2> HIDE DEF a, b, c, m, n, pnl
  <2>5. pnl >= -c
    BY <1>4 DEF c, pnl
  <2>6. a - (dailyPnl[today] + pnl) < StopLoss + m
    BY <1>4, <1>6, <2>1, <2>2, <2>3, <2>4, <2>5
  <2> QED
    BY <1>6, <2>6 DEF a, m
<1>13. LossBound'
  BY <1>2, <1>12 DEF LossBound, WorstLoss, Cost
<1>14. FutureEmpty'
  <2>1. \A d \in Day : d > today => d # today
    BY <1>0 DEF TypeOK, Day
  <2>2. \A d \in Day : d > today => dailyPnl[d] = 0
    BY DEF IInv, FutureEmpty
  <2>3. \A d \in Day : d > today => dailyPnl'[d] = 0
    BY <1>6, <2>1, <2>2
  <2> QED
    BY <1>2, <2>3 DEF FutureEmpty
<1>15. DayLossBounded'
  <2>1. WorstLoss * OpenPositions' \in Nat /\ WorstLoss * MaxOpen \in Nat
    BY <1>3, CostIsNat, Times
  <2>2. ASSUME NEW d \in Day
        PROVE  -dailyPnl'[d] < StopLoss + WorstLoss * MaxOpen
    <3>1. CASE d = today
      <4> DEFINE a == WorstLoss * OpenPositions'
                 m == WorstLoss * MaxOpen
                 p == dailyPnl'[today]
      <4>1. p \in Int
        BY <1>0, <1>6 DEF TypeOK
      <4>2. a \in Nat /\ m \in Nat /\ a - p < StopLoss + m
        BY <1>12, <2>1
      <4> HIDE DEF a, m, p
      <4>3. -p < StopLoss + m
        BY <4>1, <4>2
      <4> QED
        BY <3>1, <4>3 DEF m, p
    <3>2. CASE d # today
      BY <1>6, <3>2 DEF IInv, DayLossBounded
    <3> QED
      BY <3>1, <3>2
  <2> QED
    BY <2>2 DEF DayLossBounded, WorstLoss, Cost
<1> QED
  BY <1>7, <1>8, <1>9, <1>11, <1>13, <1>14, <1>15 DEF IInv

\* So do the steps of the environment.
LEMMA EnvironmentStep ==
    ASSUME IInv,
           \/ \E t \in Ticker, o \in Outcome : Resolve(t, o)
           \/ NewDay \/ Restart \/ UNCHANGED vars
    PROVE  IInv'
<1> USE DEF memory, db, vars
<1>0. TypeOK /\ Bookkeeping /\ OpenPositionCap
  BY DEF IInv
<1>1. ASSUME NEW t \in Ticker, NEW o \in Outcome, Resolve(t, o)
      PROVE  IInv'
  <2>1. UNCHANGED <<memory, db, today, restarts>>
    BY <1>1 DEF Resolve
  <2>2. market' = [market EXCEPT ![t] = o] /\ o # "open"
    BY <1>1 DEF Resolve, Outcome
  <2>3. TypeOK'
    BY <1>0, <2>1, <2>2 DEF TypeOK
  <2>4. Bookkeeping'
    BY <1>0, <2>1, <2>2 DEF Bookkeeping, TypeOK
  <2> QED
    BY <2>1, <2>3, <2>4 DEF IInv, OpenPositionCap, OpenPositions, NotionalCoversOpen,
       StrikeExposureCapped, Of, LossBound, FutureEmpty, DayLossBounded, WorstLoss, Cost
<1>2. ASSUME NewDay PROVE IInv'
  <2>1. UNCHANGED <<memory, db, market, restarts>> /\ today' = today + 1 /\ today < MaxDay
    BY <1>2 DEF NewDay
  <2>2. today' \in Day /\ dailyPnl[today'] = 0
    BY <1>0, <2>1 DEF TypeOK, Day, IInv, FutureEmpty
  <2>3. TypeOK'
    BY <1>0, <2>1, <2>2 DEF TypeOK
  <2>4. FutureEmpty'
    BY <1>0, <2>1 DEF IInv, FutureEmpty, TypeOK, Day
  <2>5. LossBound'
    <3> DEFINE a == WorstLoss * OpenPositions
               m == WorstLoss * MaxOpen
    <3>1. OpenPositions \in Nat /\ OpenPositions <= MaxOpen
      BY <1>0, Count DEF TypeOK, OpenPositionCap, OpenPositions
    <3>2. a \in Nat /\ m \in Nat /\ a <= m
      BY <3>1, CostIsNat, Times
    <3> HIDE DEF a, m
    <3>3. a - 0 < StopLoss + m
      BY <3>2
    <3> QED
      BY <2>1, <2>2, <3>3 DEF LossBound, WorstLoss, Cost, OpenPositions, a, m
  <2> QED
    BY <2>1, <2>3, <2>4, <2>5 DEF IInv, Bookkeeping, OpenPositionCap, OpenPositions,
       NotionalCoversOpen, StrikeExposureCapped, Of, DayLossBounded, WorstLoss, Cost
<1>3. ASSUME Restart PROVE IInv'
  <2>1. /\ openFills' = {} /\ settled' = {}
        /\ notional' = [u \in Ticker |-> 0] /\ dailyPnl' = [d \in Day |-> 0]
        /\ UNCHANGED <<db, today, market>> /\ restarts' = restarts + 1
        /\ restarts < MaxRestarts
    BY <1>3 DEF Restart
  <2>2. TypeOK' /\ Bookkeeping'
    BY <1>0, <2>1 DEF TypeOK, Bookkeeping
  <2>3. OpenPositions' = 0 /\ \A u \in Ticker : Of(u, openFills)' = {}
    BY <2>1, FS_EmptySet DEF OpenPositions, Of
  <2>4. \A u \in Ticker : Cost * Cardinality(Of(u, openFills))' = 0
    BY <2>3, FS_EmptySet, CostIsNat, Times
  <2>5. NotionalCoversOpen' /\ StrikeExposureCapped' /\ OpenPositionCap'
    BY <2>1, <2>3, <2>4 DEF NotionalCoversOpen, StrikeExposureCapped, OpenPositionCap, Cost
  <2>6. \A d \in Day : dailyPnl'[d] = 0
    BY <2>1
  <2>7. today' \in Day
    BY <2>2 DEF TypeOK
  <2>8. LossBound'
    BY <2>3, <2>6, <2>7, CostIsNat, Times DEF LossBound, WorstLoss, Cost
  <2>9. FutureEmpty' /\ DayLossBounded'
    BY <2>6, CostIsNat DEF FutureEmpty, DayLossBounded, WorstLoss, Cost
  <2> QED
    BY <2>2, <2>5, <2>8, <2>9 DEF IInv
<1>4. ASSUME UNCHANGED vars PROVE IInv'
  BY <1>4 DEF IInv, TypeOK, Bookkeeping, OpenPositionCap, OpenPositions,
     NotionalCoversOpen, StrikeExposureCapped, Of, LossBound, FutureEmpty,
     DayLossBounded, WorstLoss, Cost
<1> QED
  BY <1>1, <1>2, <1>3, <1>4

\* The invariant holds in every reachable state.
THEOREM Invariant == Spec => []IInv
<1>1. IInv /\ [Next]_vars => IInv'
  <2> SUFFICES ASSUME IInv, [Next]_vars PROVE IInv'
    OBVIOUS
  <2> QED
    BY SubmitStep, ReconcileStep, EnvironmentStep DEF Next
<1> QED
  BY <1>1, InitIInv, PTL DEF Spec

\* Every reachable state is well typed.
THEOREM TypeCorrect == Spec => []TypeOK
<1>1. IInv => TypeOK
  BY DEF IInv
<1> QED
  BY <1>1, Invariant, PTL

\* open_positions() stays within max_concurrent.
THEOREM OpenPositionsCapped == Spec => []OpenPositionCap
<1>1. IInv => OpenPositionCap
  BY DEF IInv
<1> QED
  BY <1>1, Invariant, PTL

\* The capital in one strike stays within its cap.
THEOREM StrikeCapHolds == Spec => []StrikeExposureCapped
<1>1. IInv => StrikeExposureCapped
  BY DEF IInv
<1> QED
  BY <1>1, Invariant, PTL

\* The loss of a day exceeds the stop by less than max_concurrent worst losses.
THEOREM DayLossIsBounded == Spec => []DayLossBounded
<1>1. IInv => DayLossBounded
  BY DEF IInv
<1> QED
  BY <1>1, Invariant, PTL

-----------------------------------------------------------------------------
\* Settling fills of one market yields what their rows will say.
LEMMA PnlOfIsPnlBy ==
    ASSUME TypeOK, NEW t \in Ticker, NEW S \in SUBSET Fill,
           \A f \in S : ticker[f] = t
    PROVE  PnlOf(S, market[t]) = PnlBy(S)
<1>1. \A f \in S : side[f] # "no_data"
  BY DEF TypeOK, None
<1>2. Winners(S, market[t]) = WonBy(S)
  BY <1>1 DEF Winners, WonBy
<1> QED
  BY <1>2 DEF PnlOf, PnlBy

\* The P/L of two disjoint sets of fills adds up.
LEMMA PnlAdds ==
    ASSUME NEW A \in SUBSET Fill, NEW B \in SUBSET Fill, A \cap B = {}
    PROVE  PnlBy(A \cup B) = PnlBy(A) + PnlBy(B) /\ PnlBy(A) \in Int
<1> DEFINE wA == Cardinality(WonBy(A))
           wB == Cardinality(WonBy(B))
           nA == Cardinality(A)
           nB == Cardinality(B)
           v  == 100 * Size
<1>1. WonBy(A) \in SUBSET Fill /\ WonBy(B) \in SUBSET Fill /\ WonBy(A) \cap WonBy(B) = {}
      /\ WonBy(A \cup B) = WonBy(A) \cup WonBy(B)
  BY DEF WonBy
<1>2. /\ Cardinality(WonBy(A \cup B)) = wA + wB /\ Cardinality(A \cup B) = nA + nB
      /\ wA \in Nat /\ wB \in Nat /\ nA \in Nat /\ nB \in Nat
  BY <1>1, Count
<1>3. v \in Nat /\ WorstLoss \in Nat
  BY CostIsNat
<1> HIDE DEF wA, wB, nA, nB, v
<1>4. v * (wA + wB) = v * wA + v * wB /\ v * wA \in Nat /\ v * wB \in Nat
  BY <1>2, <1>3, Times
<1>5. WorstLoss * (nA + nB) = WorstLoss * nA + WorstLoss * nB
      /\ WorstLoss * nA \in Nat /\ WorstLoss * nB \in Nat
  BY <1>2, <1>3, Times
<1>6. PnlBy(A \cup B) = v * (wA + wB) - WorstLoss * (nA + nB)
  BY <1>2 DEF PnlBy, v
<1>7. PnlBy(A) = v * wA - WorstLoss * nA /\ PnlBy(B) = v * wB - WorstLoss * nB
  BY DEF PnlBy, v, wA, nA, wB, nB
<1> QED
  BY <1>4, <1>5, <1>6, <1>7

\* No fills, no P/L.
LEMMA PnlOfNone == PnlBy({}) = 0
<1>1. WonBy({}) = {} /\ Cardinality({}) = 0
  BY FS_EmptySet DEF WonBy
<1>2. 100 * Size * 0 = 0 /\ WorstLoss * 0 = 0
  BY CostIsNat, Times
<1> QED
  BY <1>1, <1>2 DEF PnlBy

\* Every step keeps the agreement of the daily P/L with the rows.
LEMMA PnlStep == IInv /\ PnlMatchesRows /\ [Next]_vars => PnlMatchesRows'
<1> SUFFICES ASSUME IInv, PnlMatchesRows, [Next]_vars PROVE PnlMatchesRows'
  OBVIOUS
<1> USE DEF memory, db, vars
<1>0. TypeOK /\ Bookkeeping
  BY DEF IInv
<1>1. ASSUME NEW f \in Fill, NEW t \in Ticker, NEW s \in Side, Submit(f, t, s)
      PROVE  PnlMatchesRows'
  <2>1. UNCHANGED <<dailyPnl, settled, settleRow, market>> /\ f \notin settled
        /\ ticker' = [ticker EXCEPT ![f] = t] /\ side' = [side EXCEPT ![f] = s]
    BY <1>0, <1>1 DEF Submit, Bookkeeping
  <2>2. \A g \in settled : g \in Fill /\ ticker'[g] = ticker[g] /\ side'[g] = side[g]
    BY <1>0, <2>1 DEF TypeOK
  <2>3. ASSUME NEW d \in Day PROVE PnlBy(SettledOn(d))' = PnlBy(SettledOn(d))
    <3>1. SettledOn(d)' = SettledOn(d)
      BY <2>1 DEF SettledOn
    <3>2. WonBy(SettledOn(d))' = WonBy(SettledOn(d))
      BY <2>1, <2>2, <3>1 DEF WonBy, SettledOn
    <3> QED
      BY <3>1, <3>2 DEF PnlBy, WorstLoss, Cost
  <2> QED
    BY <2>1, <2>3 DEF PnlMatchesRows
<1>2. ASSUME NEW t \in Ticker, NEW S \in SUBSET Fill, Reconcile(t, S)
      PROVE  PnlMatchesRows'
  <2>1. /\ UNCHANGED <<ticker, side, today, market>>
        /\ settled' = settled \cup S
        /\ settleRow' = [g \in Fill |-> IF g \in S THEN today ELSE settleRow[g]]
        /\ S \subseteq Of(t, openFills)
    BY <1>2 DEF Reconcile
  <2>2. S \cap settled = {} /\ \A g \in S : ticker[g] = t
    BY <1>0, <2>1 DEF Bookkeeping, Of
  <2>3. today \in Day /\ settled \in SUBSET Fill
    BY <1>0 DEF TypeOK
  <2>4. /\ dailyPnl'[today] = dailyPnl[today] + PnlOf(S, market[t])
        /\ \A d \in Day : d # today => dailyPnl'[d] = dailyPnl[d]
    <3>1. dailyPnl' = [dailyPnl EXCEPT ![today] = @ + PnlOf(S, market[t])]
      BY <1>2 DEF Reconcile, Bucket
    <3> QED
      BY <1>0, <3>1 DEF TypeOK
  <2>5. ASSUME NEW d \in Day, d # today
        PROVE  dailyPnl'[d] = PnlBy(SettledOn(d))'
    <3>1. SettledOn(d)' = SettledOn(d)
      BY <2>1, <2>2, <2>3, <2>5 DEF SettledOn
    <3>2. PnlBy(SettledOn(d))' = PnlBy(SettledOn(d))
      BY <2>1, <3>1 DEF PnlBy, WonBy, WorstLoss, Cost
    <3> QED
      BY <2>4, <2>5, <3>2 DEF PnlMatchesRows
  <2>6. dailyPnl'[today] = PnlBy(SettledOn(today))'
    <3>1. SettledOn(today)' = SettledOn(today) \cup S /\ SettledOn(today) \cap S = {}
      BY <2>1, <2>2, <2>3 DEF SettledOn
    <3>2. SettledOn(today) \in SUBSET Fill
      BY <2>3 DEF SettledOn
    <3>3. PnlBy(SettledOn(today) \cup S) = PnlBy(SettledOn(today)) + PnlBy(S)
      BY <3>1, <3>2, PnlAdds
    <3>4. PnlBy(SettledOn(today))' = PnlBy(SettledOn(today) \cup S)
      BY <2>1, <3>1 DEF PnlBy, WonBy, WorstLoss, Cost
    <3>5. PnlOf(S, market[t]) = PnlBy(S)
      BY <1>0, <2>2, PnlOfIsPnlBy
    <3>6. dailyPnl[today] = PnlBy(SettledOn(today))
      BY <2>3 DEF PnlMatchesRows
    <3> QED
      BY <2>4, <3>3, <3>4, <3>5, <3>6
  <2> QED
    BY <2>1, <2>5, <2>6 DEF PnlMatchesRows
<1>3. ASSUME NEW t \in Ticker, NEW o \in Outcome, Resolve(t, o)
      PROVE  PnlMatchesRows'
  <2>1. /\ UNCHANGED <<memory, db>> /\ market[t] = "open"
        /\ market' = [market EXCEPT ![t] = o]
    BY <1>3 DEF Resolve
  <2>2. \A g \in settled : market'[ticker[g]] = market[ticker[g]]
    BY <1>0, <2>1 DEF Bookkeeping, TypeOK
  <2>3. ASSUME NEW d \in Day PROVE PnlBy(SettledOn(d))' = PnlBy(SettledOn(d))
    <3>1. SettledOn(d)' = SettledOn(d)
      BY <2>1 DEF SettledOn
    <3>2. WonBy(SettledOn(d))' = WonBy(SettledOn(d))
      BY <2>1, <2>2, <3>1 DEF WonBy, SettledOn
    <3> QED
      BY <3>1, <3>2 DEF PnlBy, WorstLoss, Cost
  <2> QED
    BY <2>1, <2>3 DEF PnlMatchesRows
<1>4. CASE NewDay \/ UNCHANGED vars
  <2>1. UNCHANGED <<memory, db, market>>
    BY <1>4 DEF NewDay
  <2> QED
    BY <2>1 DEF PnlMatchesRows, SettledOn, PnlBy, WonBy, WorstLoss, Cost
<1>5. CASE Restart
  <2>1. settled' = {} /\ dailyPnl' = [d \in Day |-> 0]
    BY <1>5 DEF Restart
  <2>2. \A d \in Day : SettledOn(d)' = {}
    BY <2>1 DEF SettledOn
  <2>3. PnlBy({})' = 0
    <3>1. WonBy({})' = {} /\ Cardinality({}) = 0
      BY FS_EmptySet DEF WonBy
    <3>2. 100 * Size * 0 = 0 /\ WorstLoss * 0 = 0
      BY CostIsNat, Times
    <3>3. WorstLoss' = WorstLoss
      BY DEF WorstLoss, Cost
    <3>4. PnlBy({})' = 100 * Size * Cardinality(WonBy({})') - WorstLoss * Cardinality({})
      BY <3>3 DEF PnlBy
    <3>5. PnlBy({})' = 100 * Size * 0 - WorstLoss * 0
      BY <3>1, <3>4
    <3> QED
      BY <3>2, <3>5
  <2>4. \A d \in Day : PnlBy(SettledOn(d))' = PnlBy({})'
    BY <2>2 DEF PnlBy, WonBy
  <2> QED
    BY <2>1, <2>3, <2>4 DEF PnlMatchesRows
<1> QED
  BY <1>1, <1>2, <1>3, <1>4, <1>5 DEF Next

\* The P/L read by the daily stop is that of this process's settlement rows.
THEOREM PnlIsThatOfTheRows == Spec => []PnlMatchesRows
<1>1. Init => PnlMatchesRows
  <2> SUFFICES ASSUME Init PROVE PnlMatchesRows
    OBVIOUS
  <2>1. \A d \in Day : SettledOn(d) = {} /\ dailyPnl[d] = 0
    BY DEF Init, SettledOn
  <2> QED
    BY <2>1, PnlOfNone DEF PnlMatchesRows
<1> QED
  BY <1>1, PnlStep, Invariant, PTL DEF Spec

\* Every step keeps the rows those of this process.
LEMMA RowsStep == IInv /\ RowsAreOurs /\ [Next]_vars => RowsAreOurs'
<1> SUFFICES ASSUME IInv, RowsAreOurs, [Next]_vars PROVE RowsAreOurs'
  OBVIOUS
<1>0. TypeOK
  BY DEF IInv
<1>1. CASE \E t \in Ticker, S \in SUBSET Fill : Reconcile(t, S)
  BY <1>0, <1>1 DEF Reconcile, RowsAreOurs, TypeOK
<1>2. CASE Restart
  BY <1>0, <1>2 DEF Restart, RowsAreOurs, TypeOK
<1>3. CASE \/ \E f \in Fill, t \in Ticker, s \in Side : Submit(f, t, s)
           \/ \E t \in Ticker, o \in Outcome : Resolve(t, o)
           \/ NewDay \/ UNCHANGED vars
  BY <1>3 DEF Submit, Resolve, NewDay, RowsAreOurs, vars, memory, db
<1> QED
  BY <1>1, <1>2, <1>3 DEF Next

\* Until the process is restarted, nothing is bought for the rest of a day
\* whose realized loss has reached the stop.
THEOREM FrozenUntilRestart == Spec => FrozenInOneProcess
<1> DEFINE J == IInv /\ PnlMatchesRows /\ RowsAreOurs
           A == Stopped /\ restarts = 0 => openFills' \subseteq openFills
<1>1. J /\ [Next]_vars => [A]_vars
  <2> SUFFICES ASSUME J, Next, PnlBy(RowsOn(today)) <= -StopLoss, restarts = 0
               PROVE  openFills' \subseteq openFills
    BY DEF Stopped
  <2>1. TypeOK
    BY DEF IInv
  <2>2. restarts = 0 /\ today \in Day /\ settled \subseteq Fill /\ today # NoDay
    BY <2>1 DEF TypeOK, Day, NoDay
  <2>3. RowsOn(today) = SettledOn(today)
    BY <2>2 DEF RowsAreOurs, RowsOn, SettledOn
  <2>4. dailyPnl[today] <= -StopLoss /\ dailyPnl[today] \in Int
    BY <2>1, <2>2, <2>3 DEF PnlMatchesRows, TypeOK
  <2>5. ~ \E f \in Fill, t \in Ticker, s \in Side : Submit(f, t, s)
    <3> SUFFICES ASSUME NEW f \in Fill, NEW t \in Ticker, NEW s \in Side, Submit(f, t, s)
                 PROVE  FALSE
      OBVIOUS
    <3>1. dailyPnl[today] > -StopLoss
      BY DEF Submit, PositionRules, OpenPositionsRule, DailyLossRule,
             PositionAccountability, Opp, Context, Cost
    <3> QED
      BY <2>4, <3>1
  <2> QED
    BY <2>5 DEF Next, Reconcile, Popped, Resolve, NewDay, Restart, memory, db
<1>2. Spec => []RowsAreOurs
  <2>1. Init => RowsAreOurs
    BY DEF Init, RowsAreOurs
  <2> QED
    BY <2>1, RowsStep, Invariant, PTL DEF Spec
<1>3. Spec => []J
  BY <1>2, Invariant, PnlIsThatOfTheRows, PTL
<1>4. Spec => [][Next]_vars
  BY DEF Spec
<1>5. J /\ [Next]_vars => [Stopped /\ restarts = 0 => openFills' \subseteq openFills]_vars
  BY <1>1
<1> HIDE DEF J
<1> QED
  BY <1>3, <1>4, <1>5, PTL DEF FrozenInOneProcess

-----------------------------------------------------------------------------
(* The paper executor implements the ledger of positions.                  *)

\* The ledger counts as the executor does.
LEMMA LedgerCounts == \A S : Ledger!Cardinality(S) = Cardinality(S)
BY DEF Ledger!Cardinality, Cardinality

\* What is held in the ledger is what the executor has open.
LEMMA HeldIsOpen == ASSUME TypeOK PROVE Ledger!In({"held"}) = openFills
BY DEF TypeOK, Ledger!In, Stands

\* Settling fills yields what the ledger allows for as many positions.
LEMMA PnlIsAGain ==
    ASSUME NEW S \in SUBSET Fill, NEW o
    PROVE  PnlOf(S, o) \in Ledger!Gains(Cardinality(S))
<1> DEFINE n == Cardinality(S)
           won == Cardinality(Winners(S, o))
           most == 100 * Size
<1>1. n \in Nat /\ won \in Nat /\ won <= n
  BY Count DEF Winners
<1>2. most \in Nat /\ WorstLoss \in Nat
  BY CostIsNat
<1> HIDE DEF n, won, most
<1>3. /\ most * won \in Nat /\ most * n \in Nat /\ WorstLoss * n \in Nat
      /\ most * won <= most * n
  BY <1>1, <1>2, Times
<1>4. (most - WorstLoss) * n = most * n - WorstLoss * n
  BY <1>1, <1>2
<1>5. most * won - WorstLoss * n \in -(WorstLoss * n)..((most - WorstLoss) * n)
  BY <1>3, <1>4
<1> QED
  BY <1>5 DEF PnlOf, Ledger!Gains, n, won, most

\* Every step of the executor is one of the ledger, or leaves it alone.
LEMMA LedgerStep ==
    ASSUME IInv, [Next]_vars
    PROVE  [Ledger!Next]_(Ledger!vars)
<1>0. TypeOK /\ Bookkeeping
  BY DEF IInv
<1> USE DEF Ledger!vars
<1>1. ASSUME NEW f \in Fill, NEW t \in Ticker, NEW s \in Side, Submit(f, t, s)
      PROVE  Ledger!Next
  <2>1. Cardinality(Ledger!In({"held"})) < MaxOpen
    BY <1>0, <1>1, HeldIsOpen
       DEF Submit, PositionRules, OpenPositionsRule, Context, OpenPositions
  <2>2. ~Ledger!Stopped(today)
    <3>1. dailyPnl[today] \in Int /\ dailyPnl[today] > -StopLoss
      BY <1>0, <1>1 DEF TypeOK, Submit, PositionRules, DailyLossRule, Context
    <3> QED
      BY <3>1 DEF Ledger!Stopped
  <2>3. Stands[f] = "new"
    BY <1>0, <1>1 DEF Stands, Submit, Bookkeeping
  <2>4. Stands' = [g \in Fill |-> IF g \in {f} THEN "held" ELSE Stands[g]]
    BY <1>1 DEF Stands, Submit
  <2>5. Ledger!Take(f)
    BY <1>1, <2>1, <2>2, <2>3, <2>4, LedgerCounts DEF Ledger!Take, Ledger!Moved, Submit
  <2> QED
    BY <2>5 DEF Ledger!Next
<1>2. ASSUME NEW t \in Ticker, NEW S \in SUBSET Fill, Reconcile(t, S)
      PROVE  Ledger!Next
  <2> DEFINE F == Of(t, openFills)
  <2>1. F # {} /\ F \subseteq openFills /\ S \subseteq F
    BY <1>2 DEF Reconcile, Of
  <2>2. openFills' = openFills \ F /\ settled' = settled \cup S
        /\ UNCHANGED <<taken, today>>
    BY <1>2 DEF Reconcile, Popped
  <2> HIDE DEF F
  <2>3. F \in SUBSET Ledger!In({"held", "due"}) /\ S \in SUBSET F
    BY <1>0, <2>1 DEF TypeOK, Ledger!In, Stands
  <2>4. Stands' = [g \in Fill |-> IF g \in S THEN "settled"
                                  ELSE IF g \in F THEN "dropped"
                                  ELSE Stands[g]]
    BY <1>0, <2>1, <2>2 DEF TypeOK, Bookkeeping, Stands
  <2>5. \E d \in 0..today, g \in Ledger!Gains(Cardinality(S)) :
            dailyPnl' = [dailyPnl EXCEPT ![d] = @ + g]
    <3>1. today \in 0..today
      BY <1>0 DEF TypeOK, Day
    <3>2. dailyPnl' = [dailyPnl EXCEPT ![today] = @ + PnlOf(S, market[t])]
      BY <1>2 DEF Reconcile, Bucket
    <3>3. PnlOf(S, market[t]) \in Ledger!Gains(Cardinality(S))
      BY PnlIsAGain
    <3> QED
      BY <3>1, <3>2, <3>3
  <2>6. Ledger!Realize(F, S)
    BY <2>1, <2>2, <2>3, <2>4, <2>5, LedgerCounts DEF Ledger!Realize
  <2> QED
    BY <2>3, <2>6 DEF Ledger!Next
<1>3. CASE \/ \E t \in Ticker, o \in Outcome : Resolve(t, o)
           \/ UNCHANGED vars
  <2>1. UNCHANGED <<openFills, settled, taken, dailyPnl, today>>
    BY <1>3 DEF Resolve, vars, memory, db
  <2> QED
    BY <2>1 DEF Stands
<1>4. CASE NewDay
  <2>1. UNCHANGED Stands
    BY <1>4 DEF NewDay, memory, db, Stands
  <2>2. Ledger!NewDay
    BY <1>4, <2>1 DEF NewDay, memory, Ledger!NewDay
  <2> QED
    BY <2>2 DEF Ledger!Next
<1>5. CASE Restart
  <2>1. Stands' = [f \in Fill |-> IF f \in taken THEN "dropped" ELSE "new"]
    BY <1>5 DEF Restart, db, Stands
  <2>2. \A f \in Fill : Stands[f] # "new" => f \in taken
    BY <1>0 DEF Stands, Bookkeeping
  <2>3. dailyPnl' = [d \in Day |-> 0] /\ UNCHANGED today
    BY <1>5 DEF Restart
  <2>4. Ledger!Forget
    BY <2>1, <2>2, <2>3 DEF Ledger!Forget, Ledger!Day, Day
  <2> QED
    BY <2>4 DEF Ledger!Next
<1> QED
  BY <1>1, <1>2, <1>3, <1>4, <1>5 DEF Next

\* The paper executor implements PositionLedger: a fill is taken under the cap
\* and the daily stop, settled once or never, for what it can yield.
THEOREM PaperKeepsLedger == Spec => LedgerKept
<1>1. Init => Ledger!Init
  BY DEF Init, Ledger!Init, Ledger!Day, Day, Stands
<1>2. IInv /\ [Next]_vars => [Ledger!Next]_(Ledger!vars)
  BY LedgerStep
<1> QED
  BY <1>1, <1>2, Invariant, PTL DEF Spec, LedgerKept, Ledger!Spec
=============================================================================
