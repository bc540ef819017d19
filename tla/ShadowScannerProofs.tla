------------------------ MODULE ShadowScannerProofs ------------------------
(***************************************************************************)
(* Proofs about ShadowScanner for every catalog of markets, every timing   *)
(* and every failure.                                                      *)
(***************************************************************************)
EXTENDS ShadowScanner, TLAPS

PaperProofs == INSTANCE PaperExecutorProofs WITH Faults <- Faults \cap {"persist"}

USE RiskAssumption, ScannerAssumption

\* Whatever the scanner does is a step of the paper executor, or none.
LEMMA PaperStep == OppOfBook /\ [Next]_vars => [Paper!Next]_(Paper!vars)
<1> SUFFICES ASSUME OppOfBook, [Next]_vars PROVE [Paper!Next]_(Paper!vars)
  OBVIOUS
<1> DEFINE P == [Paper!Next]_(Paper!vars)
<1>0. UNCHANGED paper => P
  BY DEF Paper!vars, Paper!memory, Paper!db, paper
<1>1. CASE Hook
  <2>1. CASE \E f \in Fill : Paper!Submit(f, opp.ticker, opp.side)
    <3>1. opp.ticker \in Ticker /\ opp.side \in Side
      BY <1>1 DEF Hook, OppOfBook
    <3> QED
      BY <2>1, <3>1 DEF Paper!Next
  <2> QED
    BY <1>1, <1>0, <2>1 DEF Hook
<1>2. CASE \E t \in Ticker : LookupResolved(t)
  <2> PICK t \in Ticker : LookupResolved(t)
    BY <1>2
  <2>1. CASE \E S \in SUBSET Fill : Paper!Reconcile(t, S)
    BY <2>1 DEF Paper!Next
  <2> QED
    BY <1>0, <2>1 DEF LookupResolved
<1>3. CASE Tick
  BY <1>0, <1>3 DEF Tick, Paper!Next
<1>4. CASE \E t \in Ticker : Resolve(t)
  BY <1>4 DEF Resolve, Paper!Next
<1>5. CASE Restart
  BY <1>5 DEF Restart, Paper!Next
<1>6. CASE \/ \E failed \in SUBSET Asset : Discover(failed)
           \/ SkipDiscover
           \/ \E failed \in SUBSET Ticker : Snapshot(failed)
           \/ SkipTick \/ StartTick
           \/ \E t \in Ticker, s \in Signal : Decide(t, s)
           \/ StartReconcile \/ EndTick \/ Flip
  BY <1>0, <1>6 DEF Discover, SkipDiscover, Snapshot, SkipTick, StartTick, Decide,
                    StartReconcile, EndTick, Flip
<1>7. CASE \E t \in Ticker : LookupFailed(t) \/ LookupUnresolved(t)
  BY <1>0, <1>7 DEF LookupFailed, LookupUnresolved
<1>8. CASE UNCHANGED vars
  BY <1>0, <1>8 DEF vars
<1> QED
  BY <1>1, <1>2, <1>3, <1>4, <1>5, <1>6, <1>7, <1>8 DEF Next, Loop

\* The fills of the paper executor are those of its rows.
LEMMA FillsStep == OppOfBook /\ FillsOfRows /\ [Next]_vars => FillsOfRows'
<1> SUFFICES ASSUME FillsOfRows, [Paper!Next]_(Paper!vars) PROVE FillsOfRows'
  BY PaperStep
<1> USE DEF FillsOfRows, Paper!None
<1>1. CASE \E f \in Fill, t \in Ticker, s \in Side : Paper!Submit(f, t, s)
  <2> PICK f \in Fill, t \in Ticker, s \in Side : Paper!Submit(f, t, s)
    BY <1>1
  <2>1. /\ f \notin taken /\ taken' = taken \cup {f} /\ openFills' = openFills \cup {f}
        /\ ticker' = [ticker EXCEPT ![f] = t]
    BY DEF Paper!Submit
  <2>2. ticker' \in [Fill -> Ticker \cup {"none"}]
    BY <2>1
  <2>3. \A g \in openFills' : ticker'[g] \in Ticker
    BY <2>1
  <2> QED
    BY <2>1, <2>2, <2>3
<1>2. CASE \E t \in Ticker, S \in SUBSET Fill : Paper!Reconcile(t, S)
  BY <1>2 DEF Paper!Reconcile, Paper!Popped
<1>3. CASE (\E t \in Ticker, o \in Paper!Outcome : Paper!Resolve(t, o)) \/ Paper!NewDay
  BY <1>3 DEF Paper!Resolve, Paper!NewDay, Paper!memory, Paper!db
<1>4. CASE Paper!Restart
  BY <1>4 DEF Paper!Restart, Paper!db
<1>5. CASE UNCHANGED Paper!vars
  BY <1>5 DEF Paper!vars, Paper!memory, Paper!db
<1> QED
  BY <1>1, <1>2, <1>3, <1>4, <1>5 DEF Paper!Next

\* The types of the scanner's variables.
LEMMA TypesStep == IInv /\ [Next]_vars => ScannerTypes'
<1> SUFFICES ASSUME IInv, [Next]_vars PROVE ScannerTypes'
  OBVIOUS
<1> USE DEF ScannerTypes, IInv
<1>1. CASE \E failed \in SUBSET Asset : Discover(failed)
  BY <1>1 DEF Discover, Keeps, scoring, recon, flags
<1>2. CASE SkipDiscover
  BY <1>2 DEF SkipDiscover, data, scoring, recon, flags
<1>3. CASE \E failed \in SUBSET Ticker : Snapshot(failed)
  <2> PICK failed \in SUBSET Ticker : Snapshot(failed)
    BY <1>3
  <2>1. \A t \in Ticker : Remaining(t) \in Nat
    BY DEF Remaining
  <2> QED
    BY <2>1 DEF Snapshot, scoring, recon, flags
<1>4. CASE SkipTick
  BY <1>4 DEF SkipTick, data, scoring, recon, flags
<1>5. CASE StartTick
  BY <1>5 DEF StartTick, data, recon, flags
<1>6. CASE \E t \in Ticker, s \in Signal : Decide(t, s)
  <2> PICK t \in Ticker, s \in Signal : Decide(t, s)
    BY <1>6
  <2>1. opp' # NoOpp
    BY DEF Decide, Opportunity, NoOpp
  <2> QED
    BY <2>1 DEF Decide, data, flags
<1>7. CASE Hook
  BY <1>7 DEF Hook, Register, OppOfBook, data, flags
<1>8. CASE StartReconcile
  BY <1>8 DEF StartReconcile, Ready, data, flags
<1>9. CASE \E t \in Ticker : LookupFailed(t)
  BY <1>9 DEF LookupFailed, Attempts, ReadyPending, NotPending, data, scoring, flags
<1>10. CASE \E t \in Ticker : LookupUnresolved(t)
  BY <1>10 DEF LookupUnresolved, AfterUnresolved, Attempts, ReadyPending, NotPending,
               data, scoring, flags
<1>11. CASE \E t \in Ticker : LookupResolved(t)
  BY <1>11 DEF LookupResolved, data, scoring, flags
<1>12. CASE EndTick
  BY <1>12 DEF EndTick, data, scoring, recon, flags
<1>13. CASE Tick
  BY <1>13 DEF Tick, data, scoring, recon, flags
<1>14. CASE \E t \in Ticker : Resolve(t)
  BY <1>14 DEF Resolve, data, scoring, recon, flags
<1>15. CASE Flip
  BY <1>15 DEF Flip, data, scoring, recon
<1>16. CASE Restart
  BY <1>16 DEF Restart, flags
<1>17. CASE UNCHANGED vars
  BY <1>17 DEF vars, data, scoring, recon, flags
<1> QED
  BY <1>1, <1>2, <1>3, <1>4, <1>5, <1>6, <1>7, <1>8, <1>9, <1>10, <1>11, <1>12, <1>13,
     <1>14, <1>15, <1>16, <1>17 DEF Next, Loop

\* A book, the time left with it and the opportunity made of it go together.
LEMMA BookStep == IInv /\ [Next]_vars => LeftOfStamp' /\ OppOfBook'
<1> SUFFICES ASSUME IInv, [Next]_vars PROVE LeftOfStamp' /\ OppOfBook'
  OBVIOUS
<1> USE DEF LeftOfStamp, OppOfBook, IInv
<1>1. CASE \E failed \in SUBSET Ticker : Snapshot(failed)
  <2> PICK failed \in SUBSET Ticker : Snapshot(failed)
    BY <1>1
  <2>1. pc' # "hook"
    BY DEF Snapshot
  <2>2. ASSUME NEW t \in Ticker, left'[t] > 0 PROVE left'[t] = Close[t] - stamp'[t]
    BY <2>2 DEF Snapshot, Remaining
  <2> QED
    BY <2>1, <2>2
<1>2. CASE \E t \in Ticker, s \in Signal : Decide(t, s)
  BY <1>2 DEF Decide, Opportunity, data
<1>3. CASE Restart
  BY <1>3 DEF Restart
<1>4. CASE (\E failed \in SUBSET Asset : Discover(failed)) \/ SkipDiscover
  BY <1>4 DEF Discover, SkipDiscover, data
<1>5. CASE SkipTick \/ StartTick \/ Hook \/ StartReconcile \/ EndTick
  BY <1>5 DEF SkipTick, StartTick, Hook, StartReconcile, EndTick, data
<1>6. CASE \E t \in Ticker : LookupFailed(t) \/ LookupUnresolved(t) \/ LookupResolved(t)
  BY <1>6 DEF LookupFailed, LookupUnresolved, LookupResolved, data, scoring
<1>7. CASE Tick \/ (\E t \in Ticker : Resolve(t)) \/ Flip
  BY <1>7 DEF Tick, Resolve, Flip, data, scoring
<1>8. CASE UNCHANGED vars
  BY <1>8 DEF vars, data, scoring
<1> QED
  BY <1>1, <1>2, <1>3, <1>4, <1>5, <1>6, <1>7, <1>8 DEF Next, Loop

\* What _reconcile_pending still has to look up is pending.
LEMMA ReadyStep == IInv /\ [Next]_vars => ReadyPending'
<1> SUFFICES ASSUME IInv, [Next]_vars PROVE ReadyPending'
  OBVIOUS
<1> USE DEF ReadyPending, IInv
<1>1. CASE Hook
  BY <1>1 DEF Hook, Register, NotPending, ScannerTypes
<1>2. CASE StartReconcile
  BY <1>2 DEF StartReconcile, Ready
<1>3. CASE \E t \in Ticker : LookupFailed(t) \/ LookupUnresolved(t) \/ LookupResolved(t)
  BY <1>3 DEF LookupFailed, LookupUnresolved, LookupResolved, ScannerTypes
<1>4. CASE Restart
  BY <1>4 DEF Restart
<1>5. CASE \/ \E failed \in SUBSET Asset : Discover(failed)
           \/ SkipDiscover
           \/ \E failed \in SUBSET Ticker : Snapshot(failed)
           \/ SkipTick \/ StartTick
           \/ \E t \in Ticker, s \in Signal : Decide(t, s)
           \/ EndTick
  BY <1>5 DEF Discover, SkipDiscover, Snapshot, SkipTick, StartTick, Decide, EndTick, recon
<1>6. CASE Tick \/ (\E t \in Ticker : Resolve(t)) \/ Flip
  BY <1>6 DEF Tick, Resolve, Flip, recon
<1>7. CASE UNCHANGED vars
  BY <1>7 DEF vars, recon
<1> QED
  BY <1>1, <1>2, <1>3, <1>4, <1>5, <1>6, <1>7 DEF Next, Loop

\* The inductive invariant.
THEOREM Invariant == Spec => []IInv
<1>1. Init => IInv
  <2> SUFFICES ASSUME Init PROVE IInv
    OBVIOUS
  <2>1. ScannerTypes
    <3>1. /\ stamp \in [Ticker -> 0..MaxTime \cup {NoTick}] /\ left \in [Ticker -> Nat]
          /\ pending \in [Ticker -> 0..ReconcileMaxAttempts \cup {NotPending}]
      BY DEF Init
    <3>2. 0 \in 0..(DiscoverEvery - 1) /\ 0 \in 0..MaxTime /\ 0 \in 0..MaxLookupFailures
      OBVIOUS
    <3> QED
      BY <3>1, <3>2 DEF Init, ScannerTypes
  <2>2. LeftOfStamp /\ OppOfBook /\ ReadyPending
    BY DEF Init, LeftOfStamp, OppOfBook, ReadyPending
  <2>3. FillsOfRows
    BY DEF Init, Paper!Init, FillsOfRows, Paper!None
  <2> QED
    BY <2>1, <2>2, <2>3 DEF IInv
<1>2. IInv /\ [Next]_vars => IInv'
  BY TypesStep, BookStep, ReadyStep, FillsStep DEF IInv
<1> QED
  BY <1>1, <1>2, PTL DEF Spec

\* The scanner implements the paper executor: every theorem about PaperExecutor
\* holds in the scanner, whatever its data, its clock and its retries do.
THEOREM ImplementsPaper == Spec => Paper!Spec
<1>1. Init => Paper!Init
  BY DEF Init
<1>2. IInv /\ [Next]_vars => [Paper!Next]_(Paper!vars)
  BY PaperStep DEF IInv
<1> QED
  BY <1>1, <1>2, Invariant, PTL DEF Spec, Paper!Spec

\* If a quote goes stale sooner than the shortest time left that is traded (3 s
\* and 5 s in default_rules), no fill is taken on a market that has closed.
THEOREM NoFillOnClosed ==
    ASSUME MaxStale < MinRemaining
    PROVE  Spec => NoFillAfterClose
<1> DEFINE A == \A f \in taken' \ taken : now < Close[ticker'[f]]
<1>1. IInv /\ [Next]_vars => [A]_vars
  <2> SUFFICES ASSUME IInv, Next PROVE A
    OBVIOUS
  <2>1. CASE Hook /\ taken' # taken
    <3>1. Allowed /\ \E f \in Fill : Paper!Submit(f, opp.ticker, opp.side)
      BY <2>1 DEF Hook, paper
    <3>2. PICK f \in Fill : Paper!Submit(f, opp.ticker, opp.side)
      BY <3>1
    <3>3. taken' \ taken \subseteq {f} /\ ticker'[f] = opp.ticker
      BY <3>2 DEF Paper!Submit, IInv, FillsOfRows
    <3>4. opp.ticker \in Ticker /\ opp.remaining = left[opp.ticker]
      BY <2>1 DEF Hook, IInv, OppOfBook
    <3>5. /\ opp.remaining \in MinRemaining..MaxRemaining
          /\ now - stamp[opp.ticker] <= MaxStale
      BY <3>1 DEF Allowed, QuoteRules, TimeWindow, ReferenceFeedStale, Context, QuoteTime
    <3>6. /\ left[opp.ticker] \in Nat /\ now \in Int /\ Close[opp.ticker] \in Int
          /\ stamp[opp.ticker] \in Int
      BY <3>4 DEF IInv, ScannerTypes, NoTick
    <3>7. left[opp.ticker] > 0
      BY <3>4, <3>5, <3>6
    <3>8. left[opp.ticker] = Close[opp.ticker] - stamp[opp.ticker]
      BY <3>4, <3>7 DEF IInv, LeftOfStamp
    <3>9. now < Close[opp.ticker]
      BY <3>4, <3>5, <3>6, <3>8
    <3> QED
      BY <3>3, <3>9
  <2>2. CASE ~Hook
    <3>1. taken' = taken
      <4>1. CASE \E t \in Ticker : LookupResolved(t)
        BY <4>1 DEF LookupResolved, Paper!Reconcile, paper
      <4>2. CASE Tick \/ (\E t \in Ticker : Resolve(t)) \/ Flip \/ Restart
        BY <4>2 DEF Tick, Resolve, Flip, Restart, Paper!NewDay, Paper!Resolve, Paper!Restart,
                    Paper!db, paper
      <4>3. CASE \E t \in Ticker : LookupFailed(t) \/ LookupUnresolved(t)
        BY <4>3 DEF LookupFailed, LookupUnresolved, paper
      <4> QED
        BY <2>2, <4>1, <4>2, <4>3 DEF Next, Loop, Discover, SkipDiscover, Snapshot, SkipTick,
             StartTick, Decide, StartReconcile, EndTick, paper
    <3> QED
      BY <3>1
  <2> QED
    BY <2>1, <2>2
<1> QED
  BY <1>1, Invariant, PTL DEF Spec, NoFillAfterClose

\* As long as no lookup fails, a market with open fills stays registered, however
\* often it is answered without a result.
THEOREM OpenFillsArePending ==
    ASSUME MaxLookupFailures = 0
    PROVE  Spec => []OpenFillsPending
<1>1. Init => OpenFillsPending
  BY DEF Init, Paper!Init, OpenFillsPending
<1>2. IInv /\ OpenFillsPending /\ [Next]_vars => OpenFillsPending'
  <2> SUFFICES ASSUME IInv, OpenFillsPending, [Next]_vars PROVE OpenFillsPending'
    OBVIOUS
  <2> USE DEF OpenFillsPending
  <2>0. /\ pending \in [Ticker -> 0..ReconcileMaxAttempts \cup {NotPending}]
        /\ failures \in Nat /\ ready \subseteq Ticker
        /\ \A f \in openFills : ticker[f] \in Ticker
        /\ openFills \subseteq taken /\ ticker \in [Fill -> Ticker \cup {"none"}]
    BY DEF IInv, ScannerTypes, FillsOfRows, Paper!None
  <2>1. CASE Hook
    <3>1. opp.ticker \in Ticker
      BY <2>1 DEF Hook, IInv, OppOfBook
    <3>2. \A t \in Ticker : pending[t] # NotPending => pending'[t] # NotPending
      BY <2>0, <2>1, <3>1 DEF Hook, Register, NotPending
    <3>3. pending'[opp.ticker] # NotPending
      BY <2>0, <2>1, <3>1 DEF Hook, Register, NotPending
    <3>4. CASE \E f \in Fill : Paper!Submit(f, opp.ticker, opp.side)
      <4> PICK f \in Fill : Paper!Submit(f, opp.ticker, opp.side)
        BY <3>4
      <4>1. /\ f \notin taken /\ openFills' = openFills \cup {f}
            /\ ticker' = [ticker EXCEPT ![f] = opp.ticker]
        BY DEF Paper!Submit
      <4> QED
        BY <2>0, <3>2, <3>3, <4>1
    <3> QED
      BY <2>0, <2>1, <3>2, <3>4 DEF Hook, paper
  <2>2. CASE \E t \in Ticker : LookupFailed(t)
    BY <2>0, <2>2 DEF LookupFailed
  <2>3. CASE \E t \in Ticker : LookupUnresolved(t)
    <3> PICK t \in Ticker : LookupUnresolved(t)
      BY <2>3
    <3>1. pending[t] \in Nat
      BY <2>0 DEF LookupUnresolved, IInv, ReadyPending
    <3>2. AfterUnresolved(t) # NotPending
      BY <3>1 DEF AfterUnresolved, Attempts, NotPending
    <3> QED
      BY <2>0, <3>2 DEF LookupUnresolved, paper
  <2>4. CASE \E t \in Ticker : LookupResolved(t)
    <3> PICK t \in Ticker : LookupResolved(t)
      BY <2>4
    <3>1. \A f \in openFills' : f \in openFills /\ ticker'[f] = ticker[f] /\ ticker[f] # t
      BY DEF LookupResolved, Paper!Reconcile, Paper!Popped, Paper!Of, paper
    <3> QED
      BY <2>0, <3>1 DEF LookupResolved
  <2>5. CASE Restart
    BY <2>5 DEF Restart, Paper!Restart
  <2>6. CASE Tick \/ (\E t \in Ticker : Resolve(t)) \/ Flip
    BY <2>6 DEF Tick, Resolve, Flip, Paper!NewDay, Paper!Resolve, Paper!memory, Paper!db,
                paper, recon
  <2>7. CASE \/ \E failed \in SUBSET Asset : Discover(failed)
             \/ SkipDiscover
             \/ \E failed \in SUBSET Ticker : Snapshot(failed)
             \/ SkipTick \/ StartTick
             \/ \E t \in Ticker, s \in Signal : Decide(t, s)
             \/ StartReconcile \/ EndTick
    BY <2>7 DEF Discover, SkipDiscover, Snapshot, SkipTick, StartTick, Decide,
                StartReconcile, EndTick, paper, recon
  <2>8. CASE UNCHANGED vars
    BY <2>8 DEF vars, paper, recon
  <2> QED
    BY <2>1, <2>2, <2>3, <2>4, <2>5, <2>6, <2>7, <2>8 DEF Next, Loop
<1> QED
  BY <1>1, <1>2, Invariant, PTL DEF Spec

-----------------------------------------------------------------------------
(* What is proved of the paper executor, in the scanner.                   *)

\* The two instances of PaperExecutor count alike.
LEMMA SameCount ==
    /\ \A S : Paper!Cardinality(S) = PaperProofs!Cardinality(S)
    /\ \A S : PaperProofs!IsFiniteSet(S) <=> IsFiniteSet(S)
BY DEF Paper!Cardinality, PaperProofs!Cardinality, PaperProofs!IsFiniteSet, IsFiniteSet

\* The scanner's parameters are those the proofs about the executor assume.
LEMMA PaperParameters == PaperProofs!PaperAssumption
BY SameCount DEF PaperProofs!PaperAssumption

\* The initial states and the steps of the executor in the scanner are those of
\* the module the proofs are about.
LEMMA PaperIsProved ==
    (Paper!Init => PaperProofs!Init) /\ (Paper!Next => PaperProofs!Next)
<1>1. Paper!Init => PaperProofs!Init
  BY DEF Paper!Init, Paper!Day, Paper!None, Paper!NoDay,
         PaperProofs!Init, PaperProofs!Day, PaperProofs!None, PaperProofs!NoDay
<1>2. ASSUME NEW f \in Fill, NEW t \in Ticker, NEW s \in Side, Paper!Submit(f, t, s)
      PROVE  PaperProofs!Submit(f, t, s)
  BY <1>2, SameCount
     DEF Paper!Submit, Paper!PositionRules, Paper!OpenPositionsRule, Paper!DailyLossRule,
         Paper!PositionAccountability, Paper!Opp, Paper!Context, Paper!OpenPositions,
         Paper!NotionalWith, Paper!Cost,
         PaperProofs!Submit, PaperProofs!PositionRules, PaperProofs!OpenPositionsRule,
         PaperProofs!DailyLossRule, PaperProofs!PositionAccountability, PaperProofs!Opp,
         PaperProofs!Context, PaperProofs!OpenPositions, PaperProofs!NotionalWith,
         PaperProofs!Cost
<1>3. ASSUME NEW t \in Ticker, NEW S \in SUBSET Fill, Paper!Reconcile(t, S)
      PROVE  PaperProofs!Reconcile(t, S)
  BY <1>3, SameCount
     DEF Paper!Reconcile, Paper!Of, Paper!Popped, Paper!PnlOf, Paper!Winners, Paper!Bucket,
         Paper!WorstLoss, Paper!Cost,
         PaperProofs!Reconcile, PaperProofs!Of, PaperProofs!Popped, PaperProofs!PnlOf,
         PaperProofs!Winners, PaperProofs!Bucket, PaperProofs!WorstLoss, PaperProofs!Cost
<1>4. ASSUME NEW t \in Ticker, NEW o \in Paper!Outcome, Paper!Resolve(t, o)
      PROVE  o \in PaperProofs!Outcome /\ PaperProofs!Resolve(t, o)
  BY <1>4 DEF Paper!Outcome, Paper!Resolve, Paper!memory, Paper!db,
              PaperProofs!Outcome, PaperProofs!Resolve, PaperProofs!memory, PaperProofs!db
<1>5. Paper!NewDay => PaperProofs!NewDay
  BY DEF Paper!NewDay, Paper!memory, Paper!db,
         PaperProofs!NewDay, PaperProofs!memory, PaperProofs!db
<1>6. Paper!Restart => PaperProofs!Restart
  BY DEF Paper!Restart, Paper!Day, Paper!db,
         PaperProofs!Restart, PaperProofs!Day, PaperProofs!db
<1> QED
  BY <1>1, <1>2, <1>3, <1>4, <1>5, <1>6 DEF Paper!Next, PaperProofs!Next

\* The inductive invariant of the paper executor holds in the scanner, and its
\* daily P/L is that of its rows.
LEMMA PaperInv == Spec => [](PaperProofs!IInv /\ PaperProofs!PnlMatchesRows)
<1> DEFINE J == PaperProofs!IInv /\ PaperProofs!PnlMatchesRows
<1>1. Init => J
  <2> SUFFICES ASSUME Init PROVE J
    OBVIOUS
  <2>1. PaperProofs!Init
    BY PaperIsProved DEF Init
  <2>2. \A d \in PaperProofs!Day :
           PaperProofs!SettledOn(d) = {} /\ dailyPnl[d] = 0
    BY <2>1 DEF PaperProofs!Init, PaperProofs!SettledOn
  <2>3. PaperProofs!PnlMatchesRows
    BY <2>2, PaperParameters, PaperProofs!PnlOfNone
       DEF PaperProofs!PaperAssumption, PaperProofs!PnlMatchesRows
  <2> QED
    BY <2>1, <2>3, PaperParameters, PaperProofs!InitIInv DEF PaperProofs!PaperAssumption
<1>2. IInv /\ J /\ [Next]_vars => J'
  <2> SUFFICES ASSUME IInv, J, [Next]_vars PROVE J'
    OBVIOUS
  <2>1. PaperProofs!Next \/ UNCHANGED PaperProofs!vars
    BY PaperStep, PaperIsProved
       DEF IInv, Paper!vars, Paper!memory, Paper!db,
           PaperProofs!vars, PaperProofs!memory, PaperProofs!db
  <2>2. PaperProofs!IInv'
    BY <2>1, PaperParameters, PaperProofs!SubmitStep, PaperProofs!ReconcileStep,
       PaperProofs!EnvironmentStep
       DEF PaperProofs!PaperAssumption, PaperProofs!Next
  <2>3. PaperProofs!PnlMatchesRows'
    BY <2>1, PaperParameters, PaperProofs!PnlStep DEF PaperProofs!PaperAssumption
  <2> QED
    BY <2>2, <2>3
<1> HIDE DEF J
<1> QED
  BY <1>1, <1>2, Invariant, PTL DEF Spec, J

\* Every reachable state of the scanner is well typed.
THEOREM TypeCorrect == Spec => []TypeOK
<1>1. PaperProofs!IInv => Paper!TypeOK
  BY DEF PaperProofs!IInv, PaperProofs!TypeOK, PaperProofs!Day, PaperProofs!NoDay,
         PaperProofs!None, PaperProofs!Outcome,
         Paper!TypeOK, Paper!Day, Paper!NoDay, Paper!None, Paper!Outcome
<1>2. IInv /\ PaperProofs!IInv => TypeOK
  BY <1>1 DEF IInv, TypeOK
<1> QED
  BY <1>2, Invariant, PaperInv, PTL

\* In the whole process, however late its books, its quotes and its lookups are,
\* paper positions stay within their cap, strikes within theirs, a day loses less
\* than the stop and the worst loss of all positions, and the P/L it reads is
\* that of the settlement rows.
THEOREM PaperBooksHold ==
    Spec => [](/\ Paper!OpenPositionCap /\ Paper!StrikeExposureCapped
               /\ Paper!DayLossBounded /\ Paper!PnlMatchesRows)
<1>1. PaperProofs!IInv => Paper!OpenPositionCap
  BY SameCount DEF PaperProofs!IInv, PaperProofs!OpenPositionCap, PaperProofs!OpenPositions,
                   Paper!OpenPositionCap, Paper!OpenPositions
<1>2. PaperProofs!IInv => Paper!StrikeExposureCapped
  BY SameCount DEF PaperProofs!IInv, PaperProofs!StrikeExposureCapped, PaperProofs!Of,
                   PaperProofs!Cost, Paper!StrikeExposureCapped, Paper!Of, Paper!Cost
<1>3. PaperProofs!IInv => Paper!DayLossBounded
  BY DEF PaperProofs!IInv, PaperProofs!DayLossBounded, PaperProofs!WorstLoss,
         PaperProofs!Cost, PaperProofs!Day,
         Paper!DayLossBounded, Paper!WorstLoss, Paper!Cost, Paper!Day
<1>4. PaperProofs!PnlMatchesRows => Paper!PnlMatchesRows
  BY SameCount
     DEF PaperProofs!PnlMatchesRows, PaperProofs!PnlBy, PaperProofs!WonBy,
         PaperProofs!SettledOn, PaperProofs!WorstLoss, PaperProofs!Cost, PaperProofs!Day,
         Paper!PnlMatchesRows, Paper!PnlBy, Paper!WonBy, Paper!SettledOn, Paper!WorstLoss,
         Paper!Cost, Paper!Day
<1> QED
  BY <1>1, <1>2, <1>3, <1>4, PaperInv, PTL

\* The scanner, with its strategy, its flags and its failures, keeps the ledger of
\* positions as the paper executor does alone.
THEOREM ScannerKeepsLedger == Spec => PaperProofs!LedgerKept
<1>1. Init => PaperProofs!Ledger!Init
  BY PaperIsProved
     DEF Init, PaperProofs!Init, PaperProofs!Day, PaperProofs!Stands,
         PaperProofs!Ledger!Init, PaperProofs!Ledger!Day
<1>2. ASSUME IInv, PaperProofs!IInv, [Next]_vars
      PROVE  [PaperProofs!Ledger!Next]_(PaperProofs!Ledger!vars)
  <2>1. PaperProofs!Next \/ UNCHANGED PaperProofs!vars
    BY <1>2, PaperStep, PaperIsProved
       DEF IInv, Paper!vars, Paper!memory, Paper!db,
           PaperProofs!vars, PaperProofs!memory, PaperProofs!db
  <2> QED
    BY <1>2, <2>1, PaperParameters, PaperProofs!LedgerStep DEF PaperProofs!PaperAssumption
<1> QED
  BY <1>1, <1>2, Invariant, PaperInv, PTL
     DEF Spec, PaperProofs!LedgerKept, PaperProofs!Ledger!Spec
=============================================================================
