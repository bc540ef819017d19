------------------------- MODULE LiveExecutorProofs -------------------------
(***************************************************************************)
(* Proofs about LiveExecutor for every number of orders, tickers, sizes,   *)
(* prices and limits.                                                      *)
(***************************************************************************)
EXTENDS LiveExecutor, FiniteSetTheorems, TLAPS

USE LiveAssumption

\* The P/L of an order is an integer number of cents.
LEMMA PnlIsInt ==
    ASSUME NEW c \in Cid, TypeOK, NEW o
    PROVE  Pnl(c, o) \in Int
<1> DEFINE q == qty[c]
           k == Payoff(o, side[c]) - Price - Fee
<1>1. q \in Int
  BY DEF TypeOK, MemoryTypeOK
<1>2. k \in Int
  BY DEF Payoff
<1>3. \A a, b \in Int : a * b \in Int
  OBVIOUS
<1> HIDE DEF q, k
<1>4. k * q \in Int
  BY <1>1, <1>2, <1>3
<1>5. QED
  BY <1>4 DEF Pnl, q, k

\* The cost of an order is a positive number of cents.
LEMMA CostIsNat == Cost \in Nat /\ Cost > 0
<1>1. \A a, b \in Nat \ {0} : a * b \in Nat /\ a * b > 0
  OBVIOUS
<1>2. QED
  BY <1>1 DEF Cost

\* An update keeps the type of a function.
LEMMA FunUpdate ==
    ASSUME NEW S, NEW T, NEW f \in [S -> T], NEW x, NEW v, x \in S => v \in T
    PROVE  [f EXCEPT ![x] = v] \in [S -> T]
OBVIOUS

\* Every step keeps the types.
LEMMA TypeStep == TypeOK /\ [Next]_vars => TypeOK'
<1> SUFFICES ASSUME TypeOK, [Next]_vars PROVE TypeOK'
  OBVIOUS
<1> USE DEF orders, memory, ledger, control, db, exchange, operator, None, Day
<1>0. MemoryTypeOK /\ ControlTypeOK /\ WorldTypeOK
  BY DEF TypeOK
<1>1. ASSUME NEW c \in Cid, NEW t \in Ticker, NEW s \in Side, BeginSubmit(c, t, s)
      PROVE  TypeOK'
  BY <1>1 DEF BeginSubmit, FreshId, TypeOK, MemoryTypeOK, ControlTypeOK, WorldTypeOK
<1>2. ASSUME NEW withId \in BOOLEAN, NEW ok \in BOOLEAN, CreateAnswered(withId, ok)
      PROVE  TypeOK'
  <2>1. MemoryTypeOK'
    <3>1. cur \in Cid
      BY <1>0, <1>2 DEF CreateAnswered, ControlTypeOK
    <3>2. notional' = [notional EXCEPT ![ticker[cur]] = @ + Cost]
      BY <1>2 DEF CreateAnswered
    <3>3. notional \in [Ticker -> Nat]
      BY <1>0 DEF MemoryTypeOK
    <3>4. notional' \in [Ticker -> Nat]
      <4>1. ticker[cur] \in Ticker => notional[ticker[cur]] + Cost \in Nat
        BY <3>3, CostIsNat
      <4> QED BY <3>2, <3>3, <4>1, FunUpdate
    <3> QED
      BY <1>0, <1>2, <3>1, <3>4 DEF CreateAnswered, MemoryTypeOK
  <2>2. ControlTypeOK'
    BY <1>0, <1>2 DEF CreateAnswered, XAccept, Persist, ControlTypeOK
  <2>3. WorldTypeOK'
    BY <1>0, <1>2 DEF CreateAnswered, XAccept, Persist, WorldTypeOK, ControlTypeOK
  <2> QED
    BY <2>1, <2>2, <2>3 DEF TypeOK
<1>3. ASSUME CreateRefused
      PROVE  TypeOK'
  <2>1. MemoryTypeOK'
    BY <1>0, <1>3 DEF CreateRefused, AttemptFailed, MemoryTypeOK, ControlTypeOK
  <2>2. ControlTypeOK'
    BY <1>0, <1>3 DEF CreateRefused, AttemptFailed, ControlTypeOK
  <2>3. WorldTypeOK'
    BY <1>0, <1>3 DEF CreateRefused, AttemptFailed, WorldTypeOK, ControlTypeOK
  <2> QED
    BY <2>1, <2>2, <2>3 DEF TypeOK
<1>4. ASSUME CreateReplyLost
      PROVE  TypeOK'
  <2>1. MemoryTypeOK'
    BY <1>0, <1>4 DEF CreateReplyLost, AttemptFailed, XAccept, MemoryTypeOK, ControlTypeOK
  <2>2. ControlTypeOK'
    BY <1>0, <1>4 DEF CreateReplyLost, AttemptFailed, XAccept, ControlTypeOK
  <2>3. WorldTypeOK'
    BY <1>0, <1>4 DEF CreateReplyLost, AttemptFailed, XAccept, WorldTypeOK, ControlTypeOK
  <2> QED
    BY <2>1, <2>2, <2>3 DEF TypeOK
<1>5. ASSUME PollStart
      PROVE  TypeOK'
  BY <1>5 DEF PollStart, TypeOK, MemoryTypeOK, ControlTypeOK, WorldTypeOK
<1>6. ASSUME NEW c \in Cid, NEW ok \in BOOLEAN, CancelDone(c, ok)
      PROVE  TypeOK'
  <2>1. MemoryTypeOK'
    <3> DEFINE left == notional[ticker[c]] - Cost
    <3>1. notional' = [notional EXCEPT ![ticker[c]] = IF left <= 0 THEN 0 ELSE left]
      BY <1>6 DEF CancelDone, Remaining
    <3>2. notional \in [Ticker -> Nat]
      BY <1>0 DEF MemoryTypeOK
    <3>3. ticker[c] \in Ticker => (IF left <= 0 THEN 0 ELSE left) \in Nat
      BY <3>2, CostIsNat
    <3>4. notional' \in [Ticker -> Nat]
      <4> HIDE DEF left
      <4> QED BY <3>1, <3>2, <3>3
    <3> QED
      BY <1>0, <1>6, <3>4 DEF CancelDone, MemoryTypeOK
  <2>2. ControlTypeOK'
    BY <1>0, <1>6 DEF CancelDone, RestCancel, Remaining, UpdateRow, Persist, ControlTypeOK
  <2>3. WorldTypeOK'
    BY <1>0, <1>6 DEF CancelDone, RestCancel, Remaining, UpdateRow, Persist, WorldTypeOK
  <2> QED
    BY <2>1, <2>2, <2>3 DEF TypeOK
<1>7. ASSUME NEW c \in Cid, CancelRaised(c)
      PROVE  TypeOK'
  BY <1>7 DEF CancelRaised, TypeOK, MemoryTypeOK, ControlTypeOK, WorldTypeOK
<1>8. ASSUME NEW got \in {{}, xfills}, PollFills(got)
      PROVE  TypeOK'
  BY <1>8 DEF PollFills, TypeOK, MemoryTypeOK, ControlTypeOK, WorldTypeOK
<1>9. ASSUME NEW f \in xfills, NEW ok \in BOOLEAN, ApplyFill(f, ok)
      PROVE  TypeOK'
  <2>1. MemoryTypeOK'
    <3>1. f[1] \in Cid /\ f[2] \in 1..Size
      BY <1>0 DEF WorldTypeOK
    <3> DEFINE c == f[1]
               q == f[2]
    <3>2. q \in 0..Size
      BY <3>1
    <3>3. \/ UNCHANGED <<status, qty, resting, filled>>
          \/ /\ status' = [status EXCEPT ![c] = "filled"]
             /\ qty' = [qty EXCEPT ![c] = q]
             /\ resting' = resting \ {c}
             /\ filled' = filled \cup {c}
      BY <1>9 DEF ApplyFill, FillQty
    <3>4. UNCHANGED <<ticker, side, hasId, notional, dailyPnl, settled, settledOn>>
      BY <1>9 DEF ApplyFill, FillQty
    <3> HIDE DEF q, c
    <3>5. CASE UNCHANGED <<status, qty, resting, filled>>
      BY <1>0, <3>4, <3>5 DEF MemoryTypeOK
    <3>6. CASE /\ status' = [status EXCEPT ![c] = "filled"]
               /\ qty' = [qty EXCEPT ![c] = q]
               /\ resting' = resting \ {c}
               /\ filled' = filled \cup {c}
      <4>1. qty' \in [Cid -> 0..Size]
        BY <1>0, <3>2, <3>6 DEF MemoryTypeOK
      <4>2. status' \in [Cid -> {"none", "creating", "resting", "filled",
                                 "canceled", "failed", "lost"}]
        BY <1>0, <3>6 DEF MemoryTypeOK
      <4>3. resting' \subseteq Cid /\ filled' \subseteq Cid
        BY <1>0, <3>1, <3>6 DEF MemoryTypeOK, c
      <4> QED
        BY <1>0, <3>4, <4>1, <4>2, <4>3 DEF MemoryTypeOK
    <3> QED
      BY <3>3, <3>5, <3>6
  <2>2. ControlTypeOK'
    BY <1>0, <1>9
         DEF ApplyFill, FillQty, UpdateRow, Persist, ControlTypeOK, ControlTypeOK, WorldTypeOK
  <2>3. WorldTypeOK'
    BY <1>0, <1>9
         DEF ApplyFill, FillQty, UpdateRow, Persist, WorldTypeOK, ControlTypeOK, WorldTypeOK
  <2> QED
    BY <2>1, <2>2, <2>3 DEF TypeOK
<1>10. ASSUME NEW t \in Ticker, ReconcileStart(t)
      PROVE  TypeOK'
  BY <1>10 DEF ReconcileStart, Popped, Of, TypeOK, MemoryTypeOK, ControlTypeOK, WorldTypeOK
<1>11. ASSUME NEW c \in Cid, SettleOne(c)
      PROVE  TypeOK'
  <2>1. MemoryTypeOK'
    <3> DEFINE t == ticker[c]
               p == Pnl(c, market[t])
    <3>1. p \in Int
      BY PnlIsInt
    <3>2. /\ dailyPnl' = [dailyPnl EXCEPT ![now] = @ + p]
          /\ settledOn' = [settledOn EXCEPT ![c] = now]
          /\ settled' = settled \cup {c}
          /\ notional' = [notional EXCEPT ![t] = 0] \/ notional' = notional
          /\ UNCHANGED <<orders, resting, filled>>
      BY <1>11 DEF SettleOne
    <3> HIDE DEF p, t
    <3>3. dailyPnl' \in [Day -> Int]
      <4>1. dailyPnl \in [Day -> Int]
        BY <1>0 DEF MemoryTypeOK
      <4>2. now \in Day => dailyPnl[now] + p \in Int
        BY <4>1, <3>1
      <4> QED BY <4>1, <4>2, <3>2, FunUpdate
    <3>4. now \in Day
      BY <1>0 DEF ControlTypeOK
    <3>5. settledOn' \in [Cid -> Day \cup {NoDay}]
      BY <1>0, <3>2, <3>4 DEF MemoryTypeOK
    <3> QED
      BY <1>0, <3>2, <3>3, <3>5 DEF MemoryTypeOK
  <2>2. ControlTypeOK'
    BY <1>0, <1>11 DEF SettleOne, ControlTypeOK
  <2>3. WorldTypeOK'
    BY <1>0, <1>11 DEF SettleOne, WorldTypeOK
  <2> QED
    BY <2>1, <2>2, <2>3 DEF TypeOK
<1>12. ASSUME NEW c \in Cid, SettleRaised(c)
      PROVE  TypeOK'
  <2>1. MemoryTypeOK'
    BY <1>0, <1>12 DEF SettleRaised, MemoryTypeOK
  <2>2. ControlTypeOK'
    BY <1>0, <1>12 DEF SettleRaised, ControlTypeOK
  <2>3. WorldTypeOK'
    BY <1>0, <1>12 DEF SettleRaised, WorldTypeOK
  <2> QED
    BY <2>1, <2>2, <2>3 DEF TypeOK
<1>13. ASSUME NEW c \in Cid, NEW q \in 1..Size, XFill(c, q)
      PROVE  TypeOK'
  <2>1. MemoryTypeOK'
    BY <1>0, <1>13 DEF XFill, MemoryTypeOK
  <2>2. ControlTypeOK'
    BY <1>0, <1>13 DEF XFill, ControlTypeOK
  <2>3. WorldTypeOK'
    BY <1>0, <1>13 DEF XFill, WorldTypeOK
  <2> QED
    BY <2>1, <2>2, <2>3 DEF TypeOK
<1>14. ASSUME NEW t \in Ticker, NEW o \in Outcome, XResolve(t, o)
      PROVE  TypeOK'
  BY <1>14 DEF XResolve, TypeOK, MemoryTypeOK, ControlTypeOK, WorldTypeOK
<1>15. ASSUME NEW c \in Cid, Age(c)
      PROVE  TypeOK'
  BY <1>15 DEF Age, TypeOK, MemoryTypeOK, ControlTypeOK, WorldTypeOK
<1>16. ASSUME NewDay
      PROVE  TypeOK'
  BY <1>16 DEF NewDay, TypeOK, MemoryTypeOK, ControlTypeOK, WorldTypeOK
<1>17. ASSUME FlipKill
      PROVE  TypeOK'
  BY <1>17 DEF FlipKill, TypeOK, MemoryTypeOK, ControlTypeOK, WorldTypeOK
<1>18. ASSUME NEW t \in Ticker, FlipAsset(t)
      PROVE  TypeOK'
  BY <1>18 DEF FlipAsset, TypeOK, MemoryTypeOK, ControlTypeOK, WorldTypeOK
<1>19. ASSUME Restart
      PROVE  TypeOK'
  <2>1. MemoryTypeOK'
    BY <1>0, <1>19 DEF Restart, MemoryTypeOK
  <2>2. ControlTypeOK'
    BY <1>0, <1>19 DEF Restart, ControlTypeOK
  <2>3. WorldTypeOK'
    BY <1>0, <1>19 DEF Restart, WorldTypeOK
  <2> QED
    BY <2>1, <2>2, <2>3 DEF TypeOK
<1>20. CASE UNCHANGED vars
  BY <1>20 DEF vars, TypeOK, MemoryTypeOK, ControlTypeOK, WorldTypeOK
<1>21. QED
  BY <1>1, <1>2, <1>3, <1>4, <1>5, <1>6, <1>7, <1>8, <1>9, <1>10, <1>11, <1>12, <1>13, <1>14,
         <1>15, <1>16, <1>17, <1>18, <1>19, <1>20
       DEF Next, Submit, CreateReply, Poll, Settle, Environment

\* Every step keeps the executor's collections consistent with the statuses.
LEMMA BookkeepingStep ==
    TypeOK /\ Bookkeeping /\ [Next]_vars => Bookkeeping'
<1> SUFFICES ASSUME TypeOK, Bookkeeping, [Next]_vars PROVE Bookkeeping'
  OBVIOUS
<1> USE DEF orders, memory, ledger, control, db, exchange, operator, None, Day
<1>1. ASSUME NEW c \in Cid, NEW t \in Ticker, NEW s \in Side, BeginSubmit(c, t, s)
      PROVE  Bookkeeping'
  BY <1>1
       DEF BeginSubmit, FreshId, TypeOK, MemoryTypeOK, ControlTypeOK, WorldTypeOK, Bookkeeping,
           Of
<1>2. ASSUME NEW withId \in BOOLEAN, NEW ok \in BOOLEAN, CreateAnswered(withId, ok)
      PROVE  Bookkeeping'
  BY <1>2
       DEF CreateAnswered, XAccept, Persist, TypeOK, MemoryTypeOK, ControlTypeOK, WorldTypeOK,
           Bookkeeping, Of
<1>3. ASSUME CreateRefused
      PROVE  Bookkeeping'
  BY <1>3
       DEF CreateRefused, AttemptFailed, TypeOK, MemoryTypeOK, ControlTypeOK, WorldTypeOK,
           Bookkeeping, Of
<1>4. ASSUME CreateReplyLost
      PROVE  Bookkeeping'
  <2>1. CASE attempt + 1 < MaxAttempts
    BY <1>4, <2>1 DEF CreateReplyLost, AttemptFailed, XAccept, Bookkeeping
  <2>2. CASE ~(attempt + 1 < MaxAttempts)
    <3>1. /\ pc = "creating" /\ pc' = "idle" /\ cur' = None
          /\ status' = [status EXCEPT ![cur] = "failed"]
          /\ UNCHANGED <<ticker, resting, filled, settled, todo, market>>
      BY <1>4, <2>2 DEF CreateReplyLost, AttemptFailed, XAccept
    <3>2. cur \in Cid /\ None \notin Cid
      BY <3>1 DEF TypeOK, ControlTypeOK
    <3> QED
      BY <3>1, <3>2 DEF TypeOK, MemoryTypeOK, Bookkeeping
  <2> QED
    BY <2>1, <2>2
<1>5. ASSUME PollStart
      PROVE  Bookkeeping'
  BY <1>5 DEF PollStart, TypeOK, MemoryTypeOK, ControlTypeOK, WorldTypeOK, Bookkeeping, Of
<1>6. ASSUME NEW c \in Cid, NEW ok \in BOOLEAN, CancelDone(c, ok)
      PROVE  Bookkeeping'
  BY <1>6
       DEF CancelDone, RestCancel, Remaining, UpdateRow, Persist, TypeOK, MemoryTypeOK,
           ControlTypeOK, WorldTypeOK, Bookkeeping, Of
<1>7. ASSUME NEW c \in Cid, CancelRaised(c)
      PROVE  Bookkeeping'
  BY <1>7 DEF CancelRaised, TypeOK, MemoryTypeOK, ControlTypeOK, WorldTypeOK, Bookkeeping, Of
<1>8. ASSUME NEW got \in {{}, xfills}, PollFills(got)
      PROVE  Bookkeeping'
  BY <1>8 DEF PollFills, TypeOK, MemoryTypeOK, ControlTypeOK, WorldTypeOK, Bookkeeping, Of
<1>9. ASSUME NEW f \in xfills, NEW ok \in BOOLEAN, ApplyFill(f, ok)
      PROVE  Bookkeeping'
  <2>1. /\ UNCHANGED <<ticker, settled, market, cur, todo>>
        /\ pc = "applying" /\ pc' \in {"idle", "applying"}
    BY <1>9 DEF ApplyFill
  <2>2. CASE UNCHANGED <<status, resting, filled>>
    BY <2>1, <2>2 DEF Bookkeeping
  <2>3. CASE /\ f[1] \in resting
             /\ status' = [status EXCEPT ![f[1]] = "filled"]
             /\ resting' = resting \ {f[1]} /\ filled' = filled \cup {f[1]}
    BY <2>1, <2>3 DEF TypeOK, MemoryTypeOK, ControlTypeOK, Bookkeeping
  <2> QED
    BY <1>9, <2>2, <2>3 DEF ApplyFill
<1>10. ASSUME NEW t \in Ticker, ReconcileStart(t)
      PROVE  Bookkeeping'
  BY <1>10
       DEF ReconcileStart, Popped, Of, TypeOK, MemoryTypeOK, ControlTypeOK, WorldTypeOK,
           Bookkeeping, Of
<1>11. ASSUME NEW c \in Cid, SettleOne(c)
      PROVE  Bookkeeping'
  BY <1>11 DEF SettleOne, TypeOK, MemoryTypeOK, ControlTypeOK, WorldTypeOK, Bookkeeping, Of
<1>12. ASSUME NEW c \in Cid, SettleRaised(c)
      PROVE  Bookkeeping'
  BY <1>12 DEF SettleRaised, TypeOK, MemoryTypeOK, ControlTypeOK, WorldTypeOK, Bookkeeping, Of
<1>13. ASSUME NEW c \in Cid, NEW q \in 1..Size, XFill(c, q)
      PROVE  Bookkeeping'
  BY <1>13 DEF XFill, TypeOK, MemoryTypeOK, ControlTypeOK, WorldTypeOK, Bookkeeping, Of
<1>14. ASSUME NEW t \in Ticker, NEW o \in Outcome, XResolve(t, o)
      PROVE  Bookkeeping'
  BY <1>14 DEF XResolve, TypeOK, MemoryTypeOK, ControlTypeOK, WorldTypeOK, Bookkeeping, Of
<1>15. ASSUME NEW c \in Cid, Age(c)
      PROVE  Bookkeeping'
  BY <1>15 DEF Age, TypeOK, MemoryTypeOK, ControlTypeOK, WorldTypeOK, Bookkeeping, Of
<1>16. ASSUME NewDay
      PROVE  Bookkeeping'
  BY <1>16 DEF NewDay, TypeOK, MemoryTypeOK, ControlTypeOK, WorldTypeOK, Bookkeeping, Of
<1>17. ASSUME FlipKill
      PROVE  Bookkeeping'
  BY <1>17 DEF FlipKill, TypeOK, MemoryTypeOK, ControlTypeOK, WorldTypeOK, Bookkeeping, Of
<1>18. ASSUME NEW t \in Ticker, FlipAsset(t)
      PROVE  Bookkeeping'
  BY <1>18 DEF FlipAsset, TypeOK, MemoryTypeOK, ControlTypeOK, WorldTypeOK, Bookkeeping, Of
<1>19. ASSUME Restart
      PROVE  Bookkeeping'
  BY <1>19 DEF Restart, TypeOK, MemoryTypeOK, ControlTypeOK, WorldTypeOK, Bookkeeping, Of
<1>20. CASE UNCHANGED vars
  BY <1>20 DEF vars, TypeOK, MemoryTypeOK, ControlTypeOK, WorldTypeOK, Bookkeeping, Of
<1>21. QED
  BY <1>1, <1>2, <1>3, <1>4, <1>5, <1>6, <1>7, <1>8, <1>9, <1>10, <1>11, <1>12, <1>13, <1>14,
         <1>15, <1>16, <1>17, <1>18, <1>19, <1>20
       DEF Next, Submit, CreateReply, Poll, Settle, Environment

\* Every step keeps what the executor may believe of the exchange.
LEMMA LagStep ==
    TypeOK /\ Bookkeeping /\ ExchangeLag /\ [Next]_vars => ExchangeLag'
<1> SUFFICES ASSUME TypeOK, Bookkeeping, ExchangeLag, [Next]_vars PROVE ExchangeLag'
  OBVIOUS
<1> USE DEF orders, memory, ledger, control, db, exchange, operator, None, Day
<1>1. ASSUME NEW c \in Cid, NEW t \in Ticker, NEW s \in Side, BeginSubmit(c, t, s)
      PROVE  ExchangeLag'
  BY <1>1
       DEF BeginSubmit, FreshId, TypeOK, MemoryTypeOK, ControlTypeOK, WorldTypeOK, Bookkeeping,
           ExchangeLag
<1>2. ASSUME NEW withId \in BOOLEAN, NEW ok \in BOOLEAN, CreateAnswered(withId, ok)
      PROVE  ExchangeLag'
  BY <1>2
       DEF CreateAnswered, XAccept, Persist, TypeOK, MemoryTypeOK, ControlTypeOK, WorldTypeOK,
           Bookkeeping, ExchangeLag
<1>3. ASSUME CreateRefused
      PROVE  ExchangeLag'
  BY <1>3
       DEF CreateRefused, AttemptFailed, TypeOK, MemoryTypeOK, ControlTypeOK, WorldTypeOK,
           Bookkeeping, ExchangeLag
<1>4. ASSUME CreateReplyLost
      PROVE  ExchangeLag'
  BY <1>4
       DEF CreateReplyLost, AttemptFailed, XAccept, TypeOK, MemoryTypeOK, ControlTypeOK,
           WorldTypeOK, Bookkeeping, ExchangeLag
<1>5. ASSUME PollStart
      PROVE  ExchangeLag'
  BY <1>5 DEF PollStart, TypeOK, MemoryTypeOK, ControlTypeOK, WorldTypeOK, Bookkeeping, ExchangeLag
<1>6. ASSUME NEW c \in Cid, NEW ok \in BOOLEAN, CancelDone(c, ok)
      PROVE  ExchangeLag'
  BY <1>6
       DEF CancelDone, RestCancel, Remaining, UpdateRow, Persist, TypeOK, MemoryTypeOK,
           ControlTypeOK, WorldTypeOK, Bookkeeping, ExchangeLag
<1>7. ASSUME NEW c \in Cid, CancelRaised(c)
      PROVE  ExchangeLag'
  BY <1>7
       DEF CancelRaised, TypeOK, MemoryTypeOK, ControlTypeOK, WorldTypeOK, Bookkeeping,
           ExchangeLag
<1>8. ASSUME NEW got \in {{}, xfills}, PollFills(got)
      PROVE  ExchangeLag'
  BY <1>8 DEF PollFills, TypeOK, MemoryTypeOK, ControlTypeOK, WorldTypeOK, Bookkeeping, ExchangeLag
<1>9. ASSUME NEW f \in xfills, NEW ok \in BOOLEAN, ApplyFill(f, ok)
      PROVE  ExchangeLag'
  BY <1>9
       DEF ApplyFill, FillQty, UpdateRow, Persist, TypeOK, MemoryTypeOK, ControlTypeOK,
           WorldTypeOK, Bookkeeping, ExchangeLag
<1>10. ASSUME NEW t \in Ticker, ReconcileStart(t)
      PROVE  ExchangeLag'
  BY <1>10
       DEF ReconcileStart, Popped, Of, TypeOK, MemoryTypeOK, ControlTypeOK, WorldTypeOK,
           Bookkeeping, ExchangeLag
<1>11. ASSUME NEW c \in Cid, SettleOne(c)
      PROVE  ExchangeLag'
  BY <1>11 DEF SettleOne, TypeOK, MemoryTypeOK, ControlTypeOK, WorldTypeOK, Bookkeeping, ExchangeLag
<1>12. ASSUME NEW c \in Cid, SettleRaised(c)
      PROVE  ExchangeLag'
  BY <1>12
       DEF SettleRaised, TypeOK, MemoryTypeOK, ControlTypeOK, WorldTypeOK, Bookkeeping,
           ExchangeLag
<1>13. ASSUME NEW c \in Cid, NEW q \in 1..Size, XFill(c, q)
      PROVE  ExchangeLag'
  BY <1>13 DEF XFill, TypeOK, MemoryTypeOK, ControlTypeOK, WorldTypeOK, Bookkeeping, ExchangeLag
<1>14. ASSUME NEW t \in Ticker, NEW o \in Outcome, XResolve(t, o)
      PROVE  ExchangeLag'
  BY <1>14 DEF XResolve, TypeOK, MemoryTypeOK, ControlTypeOK, WorldTypeOK, Bookkeeping, ExchangeLag
<1>15. ASSUME NEW c \in Cid, Age(c)
      PROVE  ExchangeLag'
  BY <1>15 DEF Age, TypeOK, MemoryTypeOK, ControlTypeOK, WorldTypeOK, Bookkeeping, ExchangeLag
<1>16. ASSUME NewDay
      PROVE  ExchangeLag'
  BY <1>16 DEF NewDay, TypeOK, MemoryTypeOK, ControlTypeOK, WorldTypeOK, Bookkeeping, ExchangeLag
<1>17. ASSUME FlipKill
      PROVE  ExchangeLag'
  BY <1>17 DEF FlipKill, TypeOK, MemoryTypeOK, ControlTypeOK, WorldTypeOK, Bookkeeping, ExchangeLag
<1>18. ASSUME NEW t \in Ticker, FlipAsset(t)
      PROVE  ExchangeLag'
  BY <1>18 DEF FlipAsset, TypeOK, MemoryTypeOK, ControlTypeOK, WorldTypeOK, Bookkeeping, ExchangeLag
<1>19. ASSUME Restart
      PROVE  ExchangeLag'
  BY <1>19 DEF Restart, TypeOK, MemoryTypeOK, ControlTypeOK, WorldTypeOK, Bookkeeping, ExchangeLag
<1>20. CASE UNCHANGED vars
  BY <1>20 DEF vars, TypeOK, MemoryTypeOK, ControlTypeOK, WorldTypeOK, Bookkeeping, ExchangeLag
<1>21. QED
  BY <1>1, <1>2, <1>3, <1>4, <1>5, <1>6, <1>7, <1>8, <1>9, <1>10, <1>11, <1>12, <1>13, <1>14,
         <1>15, <1>16, <1>17, <1>18, <1>19, <1>20
       DEF Next, Submit, CreateReply, Poll, Settle, Environment

\* Every step keeps the tie between the executor's orders and the exchange's.
LEMMA ExchangeStep ==
    TypeOK /\ Bookkeeping /\ ExchangeLag /\ OrdersMatchExchange /\ NeverOverBooked /\
          CanceledIsDead /\ [Next]_vars => (OrdersMatchExchange /\ NeverOverBooked /\
          CanceledIsDead)'
<1> SUFFICES ASSUME TypeOK, Bookkeeping, ExchangeLag, OrdersMatchExchange, NeverOverBooked,
      CanceledIsDead, [Next]_vars
            PROVE (OrdersMatchExchange /\ NeverOverBooked /\ CanceledIsDead)'
  OBVIOUS
<1> USE DEF orders, memory, ledger, control, db, exchange, operator, None, Day
<1>1. ASSUME NEW c \in Cid, NEW t \in Ticker, NEW s \in Side, BeginSubmit(c, t, s)
      PROVE  (OrdersMatchExchange /\ NeverOverBooked /\ CanceledIsDead)'
  BY <1>1
       DEF BeginSubmit, FreshId, TypeOK, MemoryTypeOK, ControlTypeOK, WorldTypeOK, Bookkeeping,
           ExchangeLag, OrdersMatchExchange, NeverOverBooked, CanceledIsDead, Tracked
<1>2. ASSUME NEW withId \in BOOLEAN, NEW ok \in BOOLEAN, CreateAnswered(withId, ok)
      PROVE  (OrdersMatchExchange /\ NeverOverBooked /\ CanceledIsDead)'
  BY <1>2
       DEF CreateAnswered, XAccept, Persist, TypeOK, MemoryTypeOK, ControlTypeOK, WorldTypeOK,
           Bookkeeping, ExchangeLag, OrdersMatchExchange, NeverOverBooked, CanceledIsDead,
         Tracked
<1>3. ASSUME CreateRefused
      PROVE  (OrdersMatchExchange /\ NeverOverBooked /\ CanceledIsDead)'
  BY <1>3
       DEF CreateRefused, AttemptFailed, TypeOK, MemoryTypeOK, ControlTypeOK, WorldTypeOK,
           Bookkeeping, ExchangeLag, OrdersMatchExchange, NeverOverBooked, CanceledIsDead,
         Tracked
<1>4. ASSUME CreateReplyLost
      PROVE  (OrdersMatchExchange /\ NeverOverBooked /\ CanceledIsDead)'
  BY <1>4
       DEF CreateReplyLost, AttemptFailed, XAccept, TypeOK, MemoryTypeOK, ControlTypeOK,
           WorldTypeOK, Bookkeeping, ExchangeLag, OrdersMatchExchange, NeverOverBooked,
         CanceledIsDead, Tracked
<1>5. ASSUME PollStart
      PROVE  (OrdersMatchExchange /\ NeverOverBooked /\ CanceledIsDead)'
  BY <1>5
       DEF PollStart, TypeOK, MemoryTypeOK, ControlTypeOK, WorldTypeOK, Bookkeeping,
           ExchangeLag, OrdersMatchExchange, NeverOverBooked, CanceledIsDead, Tracked
<1>6. ASSUME NEW c \in Cid, NEW ok \in BOOLEAN, CancelDone(c, ok)
      PROVE  (OrdersMatchExchange /\ NeverOverBooked /\ CanceledIsDead)'
  BY <1>6
       DEF CancelDone, RestCancel, Remaining, UpdateRow, Persist, TypeOK, MemoryTypeOK,
           ControlTypeOK, WorldTypeOK, Bookkeeping, ExchangeLag, OrdersMatchExchange,
         NeverOverBooked, CanceledIsDead, Tracked
<1>7. ASSUME NEW c \in Cid, CancelRaised(c)
      PROVE  (OrdersMatchExchange /\ NeverOverBooked /\ CanceledIsDead)'
  BY <1>7
       DEF CancelRaised, TypeOK, MemoryTypeOK, ControlTypeOK, WorldTypeOK, Bookkeeping,
           ExchangeLag, OrdersMatchExchange, NeverOverBooked, CanceledIsDead, Tracked
<1>8. ASSUME NEW got \in {{}, xfills}, PollFills(got)
      PROVE  (OrdersMatchExchange /\ NeverOverBooked /\ CanceledIsDead)'
  BY <1>8
       DEF PollFills, TypeOK, MemoryTypeOK, ControlTypeOK, WorldTypeOK, Bookkeeping,
           ExchangeLag, OrdersMatchExchange, NeverOverBooked, CanceledIsDead, Tracked
<1>9. ASSUME NEW f \in xfills, NEW ok \in BOOLEAN, ApplyFill(f, ok)
      PROVE  (OrdersMatchExchange /\ NeverOverBooked /\ CanceledIsDead)'
  <2>1. f[1] \in Cid /\ f[2] \in 1..Size /\ f[2] <= xqty[f[1]]
    BY DEF TypeOK, WorldTypeOK, ExchangeLag
  <2> DEFINE c == f[1]
  <2>2. UNCHANGED <<cur, hasId, xstate, xqty>>
    BY <1>9 DEF ApplyFill, FillQty
  <2>3. CASE c \in resting
    <3>1. /\ status' = [status EXCEPT ![c] = "filled"]
          /\ qty' = [qty EXCEPT ![c] = f[2]]
      BY <1>9, <2>3 DEF ApplyFill, FillQty
    <3>2. status[c] = "resting"
      BY <2>3 DEF Bookkeeping
    <3> QED
      BY <2>1, <2>2, <3>1, <3>2 DEF TypeOK, MemoryTypeOK, OrdersMatchExchange,
         NeverOverBooked, CanceledIsDead, Tracked
  <2>4. CASE c \notin resting
    <3>1. UNCHANGED <<status, qty>>
      BY <1>9, <2>4 DEF ApplyFill, FillQty
    <3> QED
      BY <2>2, <3>1 DEF OrdersMatchExchange, NeverOverBooked, CanceledIsDead
  <2> QED
    BY <2>3, <2>4
<1>10. ASSUME NEW t \in Ticker, ReconcileStart(t)
      PROVE  (OrdersMatchExchange /\ NeverOverBooked /\ CanceledIsDead)'
  BY <1>10
       DEF ReconcileStart, Popped, Of, TypeOK, MemoryTypeOK, ControlTypeOK, WorldTypeOK,
           Bookkeeping, ExchangeLag, OrdersMatchExchange, NeverOverBooked, CanceledIsDead,
         Tracked
<1>11. ASSUME NEW c \in Cid, SettleOne(c)
      PROVE  (OrdersMatchExchange /\ NeverOverBooked /\ CanceledIsDead)'
  BY <1>11
       DEF SettleOne, TypeOK, MemoryTypeOK, ControlTypeOK, WorldTypeOK, Bookkeeping,
           ExchangeLag, OrdersMatchExchange, NeverOverBooked, CanceledIsDead, Tracked
<1>12. ASSUME NEW c \in Cid, SettleRaised(c)
      PROVE  (OrdersMatchExchange /\ NeverOverBooked /\ CanceledIsDead)'
  BY <1>12
       DEF SettleRaised, TypeOK, MemoryTypeOK, ControlTypeOK, WorldTypeOK, Bookkeeping,
           ExchangeLag, OrdersMatchExchange, NeverOverBooked, CanceledIsDead, Tracked
<1>13. ASSUME NEW c \in Cid, NEW q \in 1..Size, XFill(c, q)
      PROVE  (OrdersMatchExchange /\ NeverOverBooked /\ CanceledIsDead)'
  BY <1>13
       DEF XFill, TypeOK, MemoryTypeOK, ControlTypeOK, WorldTypeOK, Bookkeeping, ExchangeLag,
           OrdersMatchExchange, NeverOverBooked, CanceledIsDead, Tracked
<1>14. ASSUME NEW t \in Ticker, NEW o \in Outcome, XResolve(t, o)
      PROVE  (OrdersMatchExchange /\ NeverOverBooked /\ CanceledIsDead)'
  BY <1>14
       DEF XResolve, TypeOK, MemoryTypeOK, ControlTypeOK, WorldTypeOK, Bookkeeping,
           ExchangeLag, OrdersMatchExchange, NeverOverBooked, CanceledIsDead, Tracked
<1>15. ASSUME NEW c \in Cid, Age(c)
      PROVE  (OrdersMatchExchange /\ NeverOverBooked /\ CanceledIsDead)'
  BY <1>15
       DEF Age, TypeOK, MemoryTypeOK, ControlTypeOK, WorldTypeOK, Bookkeeping, ExchangeLag,
           OrdersMatchExchange, NeverOverBooked, CanceledIsDead, Tracked
<1>16. ASSUME NewDay
      PROVE  (OrdersMatchExchange /\ NeverOverBooked /\ CanceledIsDead)'
  BY <1>16
       DEF NewDay, TypeOK, MemoryTypeOK, ControlTypeOK, WorldTypeOK, Bookkeeping, ExchangeLag,
           OrdersMatchExchange, NeverOverBooked, CanceledIsDead, Tracked
<1>17. ASSUME FlipKill
      PROVE  (OrdersMatchExchange /\ NeverOverBooked /\ CanceledIsDead)'
  BY <1>17
       DEF FlipKill, TypeOK, MemoryTypeOK, ControlTypeOK, WorldTypeOK, Bookkeeping,
           ExchangeLag, OrdersMatchExchange, NeverOverBooked, CanceledIsDead, Tracked
<1>18. ASSUME NEW t \in Ticker, FlipAsset(t)
      PROVE  (OrdersMatchExchange /\ NeverOverBooked /\ CanceledIsDead)'
  BY <1>18
       DEF FlipAsset, TypeOK, MemoryTypeOK, ControlTypeOK, WorldTypeOK, Bookkeeping,
           ExchangeLag, OrdersMatchExchange, NeverOverBooked, CanceledIsDead, Tracked
<1>19. ASSUME Restart
      PROVE  (OrdersMatchExchange /\ NeverOverBooked /\ CanceledIsDead)'
  BY <1>19
       DEF Restart, TypeOK, MemoryTypeOK, ControlTypeOK, WorldTypeOK, Bookkeeping, ExchangeLag,
           OrdersMatchExchange, NeverOverBooked, CanceledIsDead, Tracked
<1>20. CASE UNCHANGED vars
  BY <1>20
       DEF vars, TypeOK, MemoryTypeOK, ControlTypeOK, WorldTypeOK, Bookkeeping, ExchangeLag,
           OrdersMatchExchange, NeverOverBooked, CanceledIsDead, Tracked
<1>21. QED
  BY <1>1, <1>2, <1>3, <1>4, <1>5, <1>6, <1>7, <1>8, <1>9, <1>10, <1>11, <1>12, <1>13, <1>14,
         <1>15, <1>16, <1>17, <1>18, <1>19, <1>20
       DEF Next, Submit, CreateReply, Poll, Settle, Environment

\* The executor's collections are finite.
LEMMA Finite ==
    ASSUME TypeOK, NEW S, S \subseteq Cid
    PROVE  IsFiniteSet(S) /\ Cardinality(S) \in Nat
BY FS_Subset, FS_CardinalityType


\* The orders the executor holds on a strike are finitely many.
LEMMA FiniteOf ==
    ASSUME TypeOK, NEW u
    PROVE  /\ IsFiniteSet(Of(u, resting \cup filled))
           /\ Cardinality(Of(u, resting \cup filled)) \in Nat
BY Finite DEF Of, TypeOK, MemoryTypeOK

\* Every step keeps the open positions within the cap.
LEMMA CapStep ==
    TypeOK /\ Bookkeeping /\ RoomForCurrent /\ OpenPositionCap /\ [Next]_vars =>
          (RoomForCurrent /\ OpenPositionCap)'
<1> SUFFICES ASSUME TypeOK, Bookkeeping, RoomForCurrent, OpenPositionCap, [Next]_vars
            PROVE (RoomForCurrent /\ OpenPositionCap)'
  OBVIOUS
<1> USE DEF orders, memory, ledger, control, db, exchange, operator, None, Day
<1>0. /\ IsFiniteSet(resting) /\ Cardinality(resting) \in Nat
      /\ IsFiniteSet(filled) /\ Cardinality(filled) \in Nat
  BY Finite DEF TypeOK, MemoryTypeOK
<1>1. ASSUME NEW c \in Cid, NEW t \in Ticker, NEW s \in Side, BeginSubmit(c, t, s)
      PROVE  (RoomForCurrent /\ OpenPositionCap)'
  BY <1>1 DEF BeginSubmit, FreshId, RiskApproves, OpenPositions, OpenPositionCap, RoomForCurrent
<1>2. ASSUME NEW withId \in BOOLEAN, NEW ok \in BOOLEAN, CreateAnswered(withId, ok)
      PROVE  (RoomForCurrent /\ OpenPositionCap)'
  <2>1. cur \in Cid /\ cur \notin resting
    BY <1>2 DEF CreateAnswered, TypeOK, ControlTypeOK, Bookkeeping
  <2>2. Cardinality(resting \cup {cur}) = Cardinality(resting) + 1
    BY <1>0, <2>1, FS_AddElement
  <2>3. resting' = resting \cup {cur} /\ filled' = filled /\ pc = "creating" /\ pc' = "idle"
    BY <1>2 DEF CreateAnswered
  <2> QED
    BY <1>0, <2>2, <2>3 DEF OpenPositions, OpenPositionCap, RoomForCurrent
<1>3. ASSUME CreateRefused
      PROVE  (RoomForCurrent /\ OpenPositionCap)'
  BY <1>3 DEF CreateRefused, AttemptFailed, OpenPositions, OpenPositionCap, RoomForCurrent
<1>4. ASSUME CreateReplyLost
      PROVE  (RoomForCurrent /\ OpenPositionCap)'
  BY <1>4
       DEF CreateReplyLost, AttemptFailed, XAccept, OpenPositions, OpenPositionCap,
           RoomForCurrent
<1>5. ASSUME PollStart
      PROVE  (RoomForCurrent /\ OpenPositionCap)'
  BY <1>5 DEF PollStart, OpenPositions, OpenPositionCap, RoomForCurrent
<1>6. ASSUME NEW c \in Cid, NEW ok \in BOOLEAN, CancelDone(c, ok)
      PROVE  (RoomForCurrent /\ OpenPositionCap)'
  <2>1. c \in resting
    BY <1>6 DEF CancelDone, Remaining, Bookkeeping
  <2>2. Cardinality(resting \ {c}) = Cardinality(resting) - 1
    BY <1>0, <2>1, FS_RemoveElement
  <2>3. resting' = resting \ {c} /\ filled' = filled /\ pc' # "creating"
    BY <1>6 DEF CancelDone, Remaining
  <2> QED
    BY <1>0, <2>2, <2>3 DEF OpenPositions, OpenPositionCap, RoomForCurrent
<1>7. ASSUME NEW c \in Cid, CancelRaised(c)
      PROVE  (RoomForCurrent /\ OpenPositionCap)'
  BY <1>7 DEF CancelRaised, OpenPositions, OpenPositionCap, RoomForCurrent
<1>8. ASSUME NEW got \in {{}, xfills}, PollFills(got)
      PROVE  (RoomForCurrent /\ OpenPositionCap)'
  BY <1>8 DEF PollFills, OpenPositions, OpenPositionCap, RoomForCurrent
<1>9. ASSUME NEW f \in xfills, NEW ok \in BOOLEAN, ApplyFill(f, ok)
      PROVE  (RoomForCurrent /\ OpenPositionCap)'
  <2> DEFINE c == f[1]
  <2>1. pc' # "creating"
    BY <1>9 DEF ApplyFill, FillQty
  <2>2. CASE c \in resting
    <3>1. c \notin filled
      BY <2>2 DEF Bookkeeping
    <3>2. Cardinality(resting \ {c}) = Cardinality(resting) - 1
      BY <1>0, <2>2, FS_RemoveElement
    <3>3. Cardinality(filled \cup {c}) = Cardinality(filled) + 1
      BY <1>0, <3>1, FS_AddElement
    <3>4. resting' = resting \ {c} /\ filled' = filled \cup {c}
      BY <1>9, <2>2 DEF ApplyFill, FillQty
    <3> QED
      BY <1>0, <2>1, <3>2, <3>3, <3>4 DEF OpenPositions, OpenPositionCap, RoomForCurrent
  <2>3. CASE c \notin resting
    BY <1>9, <2>1, <2>3 DEF ApplyFill, OpenPositions, OpenPositionCap, RoomForCurrent
  <2> QED
    BY <2>2, <2>3
<1>10. ASSUME NEW t \in Ticker, ReconcileStart(t)
      PROVE  (RoomForCurrent /\ OpenPositionCap)'
  <2>1. resting' = resting /\ filled' \subseteq filled /\ pc' # "creating"
    BY <1>10 DEF ReconcileStart, Popped
  <2>2. Cardinality(filled') <= Cardinality(filled) /\ Cardinality(filled') \in Nat
    BY <1>0, <2>1, FS_Subset, FS_CardinalityType
  <2> QED
    BY <1>0, <2>1, <2>2 DEF OpenPositions, OpenPositionCap, RoomForCurrent
<1>11. ASSUME NEW c \in Cid, SettleOne(c)
      PROVE  (RoomForCurrent /\ OpenPositionCap)'
  BY <1>11 DEF SettleOne, OpenPositions, OpenPositionCap, RoomForCurrent
<1>12. ASSUME NEW c \in Cid, SettleRaised(c)
      PROVE  (RoomForCurrent /\ OpenPositionCap)'
  BY <1>12 DEF SettleRaised, OpenPositions, OpenPositionCap, RoomForCurrent
<1>13. ASSUME NEW c \in Cid, NEW q \in 1..Size, XFill(c, q)
      PROVE  (RoomForCurrent /\ OpenPositionCap)'
  BY <1>13 DEF XFill, OpenPositions, OpenPositionCap, RoomForCurrent
<1>14. ASSUME NEW t \in Ticker, NEW o \in Outcome, XResolve(t, o)
      PROVE  (RoomForCurrent /\ OpenPositionCap)'
  BY <1>14 DEF XResolve, OpenPositions, OpenPositionCap, RoomForCurrent
<1>15. ASSUME NEW c \in Cid, Age(c)
      PROVE  (RoomForCurrent /\ OpenPositionCap)'
  BY <1>15 DEF Age, OpenPositions, OpenPositionCap, RoomForCurrent
<1>16. ASSUME NewDay
      PROVE  (RoomForCurrent /\ OpenPositionCap)'
  BY <1>16 DEF NewDay, OpenPositions, OpenPositionCap, RoomForCurrent
<1>17. ASSUME FlipKill
      PROVE  (RoomForCurrent /\ OpenPositionCap)'
  BY <1>17 DEF FlipKill, OpenPositions, OpenPositionCap, RoomForCurrent
<1>18. ASSUME NEW t \in Ticker, FlipAsset(t)
      PROVE  (RoomForCurrent /\ OpenPositionCap)'
  BY <1>18 DEF FlipAsset, OpenPositions, OpenPositionCap, RoomForCurrent
<1>19. ASSUME Restart
      PROVE  (RoomForCurrent /\ OpenPositionCap)'
  BY <1>19, FS_EmptySet DEF Restart, OpenPositions, OpenPositionCap, RoomForCurrent
<1>20. CASE UNCHANGED vars
  BY <1>20 DEF vars, OpenPositions, OpenPositionCap, RoomForCurrent
<1>21. QED
  BY <1>1, <1>2, <1>3, <1>4, <1>5, <1>6, <1>7, <1>8, <1>9, <1>10, <1>11, <1>12, <1>13, <1>14,
         <1>15, <1>16, <1>17, <1>18, <1>19, <1>20
       DEF Next, Submit, CreateReply, Poll, Settle, Environment

\* The cost of any number of orders is a natural number.
LEMMA CostTimesNat == \A n \in Nat : Cost * n \in Nat /\ Cost * 0 = 0
BY CostIsNat

\* One order more costs its cost more: the nonlinear step, taken once.
LEMMA CostTimesSucc == \A n \in Nat : Cost * (n + 1) = Cost * n + Cost
BY CostIsNat

\* Every step keeps the notional of an open market equal to what is held on it.
LEMMA NotionalStep ==
    TypeOK /\ Bookkeeping /\ NotionalExact /\ [Next]_vars => NotionalExact'
<1> SUFFICES ASSUME TypeOK, Bookkeeping, NotionalExact, [Next]_vars PROVE NotionalExact'
  OBVIOUS
<1> USE DEF orders, memory, ledger, control, db, exchange, operator, None, Day
<1>1. ASSUME NEW c \in Cid, NEW t \in Ticker, NEW s \in Side, BeginSubmit(c, t, s)
      PROVE  NotionalExact'
  <2> SUFFICES ASSUME NEW u \in Ticker, market'[u] = "open"
               PROVE  notional'[u] = Cost * Cardinality({d \in resting' \cup filled' : ticker'[d] = u})
    BY DEF NotionalExact, Of
  <2> DEFINE held == Of(u, resting \cup filled)
  <2>0. Cardinality(held) \in Nat /\ IsFiniteSet(held)
    BY FiniteOf
  <2>1. UNCHANGED <<notional, market, resting, filled>> /\ c \notin resting \cup filled
    BY <1>1 DEF BeginSubmit, FreshId, Bookkeeping
  <2>2. \A d \in resting \cup filled : ticker'[d] = ticker[d]
    BY <1>1, <2>1 DEF BeginSubmit, FreshId, TypeOK, MemoryTypeOK
  <2>3. {d \in resting' \cup filled' : ticker'[d] = u} = held
    BY <2>1, <2>2 DEF Of
  <2> QED
    BY <2>1, <2>3 DEF NotionalExact
<1>2. ASSUME NEW withId \in BOOLEAN, NEW ok \in BOOLEAN, CreateAnswered(withId, ok)
      PROVE  NotionalExact'
  <2> SUFFICES ASSUME NEW u \in Ticker, market'[u] = "open"
               PROVE  notional'[u] = Cost * Cardinality({d \in resting' \cup filled' : ticker'[d] = u})
    BY DEF NotionalExact, Of
  <2> DEFINE held == Of(u, resting \cup filled)
  <2>0. Cardinality(held) \in Nat /\ IsFiniteSet(held)
    BY FiniteOf
  <2>1. /\ cur \in Cid /\ cur \notin resting \cup filled
        /\ notional' = [notional EXCEPT ![ticker[cur]] = @ + Cost]
        /\ resting' = resting \cup {cur}
        /\ UNCHANGED <<ticker, filled, market>>
    BY <1>2 DEF CreateAnswered, XAccept, TypeOK, ControlTypeOK, Bookkeeping
  <2>2. notional[u] = Cost * Cardinality(held) /\ notional[u] \in Nat
    BY <2>1 DEF NotionalExact, TypeOK, MemoryTypeOK
  <2>3. CASE ticker[cur] = u
    <3>1. {d \in resting' \cup filled' : ticker'[d] = u} = held \cup {cur}
      BY <2>1, <2>3 DEF Of
    <3>2. Cardinality(held \cup {cur}) = Cardinality(held) + 1
      BY <2>0, <2>1, FS_AddElement DEF Of
    <3>3. notional'[u] = notional[u] + Cost
      BY <2>1, <2>3 DEF TypeOK, MemoryTypeOK
    <3> QED
      BY <2>0, <2>2, <3>1, <3>2, <3>3, CostIsNat, CostTimesSucc
  <2>4. CASE ticker[cur] # u
    <3>1. {d \in resting' \cup filled' : ticker'[d] = u} = held
      BY <2>1, <2>4 DEF Of
    <3>2. notional'[u] = notional[u]
      BY <2>1, <2>4 DEF TypeOK, MemoryTypeOK
    <3> QED
      BY <2>2, <3>1, <3>2
  <2> QED
    BY <2>3, <2>4
<1>3. ASSUME CreateRefused
      PROVE  NotionalExact'
  BY <1>3 DEF CreateRefused, AttemptFailed, NotionalExact, Of
<1>4. ASSUME CreateReplyLost
      PROVE  NotionalExact'
  BY <1>4 DEF CreateReplyLost, AttemptFailed, XAccept, NotionalExact, Of
<1>5. ASSUME PollStart
      PROVE  NotionalExact'
  BY <1>5 DEF PollStart, NotionalExact, Of
<1>6. ASSUME NEW c \in Cid, NEW ok \in BOOLEAN, CancelDone(c, ok)
      PROVE  NotionalExact'
  <2> SUFFICES ASSUME NEW u \in Ticker, market'[u] = "open"
               PROVE  notional'[u] = Cost * Cardinality({d \in resting' \cup filled' : ticker'[d] = u})
    BY DEF NotionalExact, Of
  <2> DEFINE held == Of(u, resting \cup filled)
  <2>0. Cardinality(held) \in Nat /\ IsFiniteSet(held)
    BY FiniteOf
  <2> DEFINE left == notional[ticker[c]] - Cost
  <2>1. /\ c \in resting /\ c \notin filled
        /\ notional' = [notional EXCEPT ![ticker[c]] = IF left <= 0 THEN 0 ELSE left]
        /\ resting' = resting \ {c}
        /\ UNCHANGED <<ticker, filled, market>>
    BY <1>6 DEF CancelDone, Remaining, Bookkeeping
  <2>2. notional[u] = Cost * Cardinality(held) /\ notional[u] \in Nat
    BY <2>1 DEF NotionalExact, TypeOK, MemoryTypeOK
  <2>3. CASE ticker[c] = u
    <3>1. {d \in resting' \cup filled' : ticker'[d] = u} = held \ {c}
      BY <2>1, <2>3 DEF Of
    <3>2. c \in held
      BY <2>1, <2>3 DEF Of
    <3>3. Cardinality(held \ {c}) = Cardinality(held) - 1 /\ Cardinality(held \ {c}) \in Nat
      BY <2>0, <3>2, FS_RemoveElement, FS_CardinalityType
    <3>4. notional[u] = Cost * Cardinality(held \ {c}) + Cost
      BY <2>0, <2>2, <3>3, CostTimesSucc
    <3>5. Cost * Cardinality(held \ {c}) \in Nat
      BY <3>3, CostIsNat, CostTimesNat
    <3>6. left = Cost * Cardinality(held \ {c})
      BY <2>3, <3>4, <3>5, CostIsNat
    <3>7. notional'[u] = IF left <= 0 THEN 0 ELSE left
      BY <2>1, <2>3 DEF TypeOK, MemoryTypeOK
    <3> HIDE DEF left
    <3>8. left \in Nat
      BY <3>5, <3>6
    <3>9. notional'[u] = left
      BY <3>7, <3>8
    <3> QED
      BY <3>1, <3>6, <3>9
  <2>4. CASE ticker[c] # u
    <3>1. {d \in resting' \cup filled' : ticker'[d] = u} = held
      BY <2>1, <2>4 DEF Of
    <3>2. notional'[u] = notional[u]
      BY <2>1, <2>4 DEF TypeOK, MemoryTypeOK
    <3> QED
      BY <2>2, <3>1, <3>2
  <2> QED
    BY <2>3, <2>4
<1>7. ASSUME NEW c \in Cid, CancelRaised(c)
      PROVE  NotionalExact'
  BY <1>7 DEF CancelRaised, NotionalExact, Of
<1>8. ASSUME NEW got \in {{}, xfills}, PollFills(got)
      PROVE  NotionalExact'
  BY <1>8 DEF PollFills, NotionalExact, Of
<1>9. ASSUME NEW f \in xfills, NEW ok \in BOOLEAN, ApplyFill(f, ok)
      PROVE  NotionalExact'
  <2> SUFFICES ASSUME NEW u \in Ticker, market'[u] = "open"
               PROVE  notional'[u] = Cost * Cardinality({d \in resting' \cup filled' : ticker'[d] = u})
    BY DEF NotionalExact, Of
  <2> DEFINE held == Of(u, resting \cup filled)
  <2>0. Cardinality(held) \in Nat /\ IsFiniteSet(held)
    BY FiniteOf
  <2>1. UNCHANGED <<ticker, notional, market>>
    BY <1>9 DEF ApplyFill, FillQty
  <2>2. resting' \cup filled' = resting \cup filled
    BY <1>9 DEF ApplyFill, FillQty
  <2>3. {d \in resting' \cup filled' : ticker'[d] = u} = held
    BY <2>1, <2>2 DEF Of
  <2> QED
    BY <2>1, <2>3 DEF NotionalExact
<1>10. ASSUME NEW t \in Ticker, ReconcileStart(t)
      PROVE  NotionalExact'
  <2> SUFFICES ASSUME NEW u \in Ticker, market'[u] = "open"
               PROVE  notional'[u] = Cost * Cardinality({d \in resting' \cup filled' : ticker'[d] = u})
    BY DEF NotionalExact, Of
  <2> DEFINE held == Of(u, resting \cup filled)
  <2>0. Cardinality(held) \in Nat /\ IsFiniteSet(held)
    BY FiniteOf
  <2>1. /\ UNCHANGED <<ticker, notional, market, resting>>
        /\ filled' = filled \ Of(t, filled) /\ market[t] # "open"
    BY <1>10 DEF ReconcileStart, Popped
  <2>2. {d \in resting' \cup filled' : ticker'[d] = u} = held
    BY <2>1 DEF Of
  <2> QED
    BY <2>1, <2>2 DEF NotionalExact
<1>11. ASSUME NEW c \in Cid, SettleOne(c)
      PROVE  NotionalExact'
  <2> SUFFICES ASSUME NEW u \in Ticker, market'[u] = "open"
               PROVE  notional'[u] = Cost * Cardinality({d \in resting' \cup filled' : ticker'[d] = u})
    BY DEF NotionalExact, Of
  <2> DEFINE held == Of(u, resting \cup filled)
  <2>0. Cardinality(held) \in Nat /\ IsFiniteSet(held)
    BY FiniteOf
  <2>1. UNCHANGED <<ticker, market, resting, filled>> /\ market[ticker[c]] # "open"
    BY <1>11 DEF SettleOne, Bookkeeping
  <2>2. notional'[u] = notional[u]
    BY <1>11, <2>1 DEF SettleOne, TypeOK, MemoryTypeOK
  <2> QED
    BY <2>1, <2>2 DEF NotionalExact, Of
<1>12. ASSUME NEW c \in Cid, SettleRaised(c)
      PROVE  NotionalExact'
  BY <1>12 DEF SettleRaised, NotionalExact, Of
<1>13. ASSUME NEW c \in Cid, NEW q \in 1..Size, XFill(c, q)
      PROVE  NotionalExact'
  BY <1>13 DEF XFill, NotionalExact, Of
<1>14. ASSUME NEW t \in Ticker, NEW o \in Outcome, XResolve(t, o)
      PROVE  NotionalExact'
  <2> SUFFICES ASSUME NEW u \in Ticker, market'[u] = "open"
               PROVE  notional'[u] = Cost * Cardinality({d \in resting' \cup filled' : ticker'[d] = u})
    BY DEF NotionalExact, Of
  <2> DEFINE held == Of(u, resting \cup filled)
  <2>0. Cardinality(held) \in Nat /\ IsFiniteSet(held)
    BY FiniteOf
  <2>1. UNCHANGED <<ticker, notional, resting, filled>> /\ market[u] = "open"
    BY <1>14 DEF XResolve, TypeOK, WorldTypeOK
  <2> QED
    BY <2>1 DEF NotionalExact, Of
<1>15. ASSUME NEW c \in Cid, Age(c)
      PROVE  NotionalExact'
  BY <1>15 DEF Age, NotionalExact, Of
<1>16. ASSUME NewDay
      PROVE  NotionalExact'
  BY <1>16 DEF NewDay, NotionalExact, Of
<1>17. ASSUME FlipKill
      PROVE  NotionalExact'
  BY <1>17 DEF FlipKill, NotionalExact, Of
<1>18. ASSUME NEW t \in Ticker, FlipAsset(t)
      PROVE  NotionalExact'
  BY <1>18 DEF FlipAsset, NotionalExact, Of
<1>19. ASSUME Restart
      PROVE  NotionalExact'
  <2> SUFFICES ASSUME NEW u \in Ticker, market'[u] = "open"
               PROVE  notional'[u] = Cost * Cardinality({d \in resting' \cup filled' : ticker'[d] = u})
    BY DEF NotionalExact, Of
  <2> DEFINE held == Of(u, resting \cup filled)
  <2>0. Cardinality(held) \in Nat /\ IsFiniteSet(held)
    BY FiniteOf
  <2>1. notional'[u] = 0 /\ {d \in resting' \cup filled' : ticker'[d] = u} = {}
    BY <1>19 DEF Restart
  <2> QED
    BY <2>1, FS_EmptySet, CostTimesNat, CostIsNat
<1>20. CASE UNCHANGED vars
  BY <1>20 DEF vars, NotionalExact, Of
<1>21. QED
  BY <1>1, <1>2, <1>3, <1>4, <1>5, <1>6, <1>7, <1>8, <1>9, <1>10, <1>11, <1>12, <1>13, <1>14,
         <1>15, <1>16, <1>17, <1>18, <1>19, <1>20
       DEF Next, Submit, CreateReply, Poll, Settle, Environment

\* In a reliable environment every step keeps what is at risk in memory, or cuts it
\* short.
LEMMA RiskIsHeldStep ==
    Reliable /\ TypeOK /\ Bookkeeping /\ ExchangeLag /\ RiskIsHeld /\ [Next]_vars => RiskIsHeld'
<1> SUFFICES ASSUME Reliable, TypeOK, Bookkeeping, ExchangeLag, RiskIsHeld, [Next]_vars
            PROVE RiskIsHeld'
  OBVIOUS
<1> USE DEF orders, memory, ledger, control, db, exchange, operator, None, Day
<1>1. ASSUME NEW c \in Cid, NEW t \in Ticker, NEW s \in Side, BeginSubmit(c, t, s)
      PROVE  RiskIsHeld'
  BY <1>1
       DEF BeginSubmit, FreshId, TypeOK, MemoryTypeOK, ControlTypeOK, WorldTypeOK, Reliable,
           Bookkeeping, ExchangeLag, RiskIsHeld, AtRisk, CutShort, Of
<1>2. ASSUME NEW withId \in BOOLEAN, NEW ok \in BOOLEAN, CreateAnswered(withId, ok)
      PROVE  RiskIsHeld'
  BY <1>2
       DEF CreateAnswered, XAccept, Persist, TypeOK, MemoryTypeOK, ControlTypeOK, WorldTypeOK,
           Reliable, Bookkeeping, ExchangeLag, RiskIsHeld, AtRisk, CutShort, Of
<1>3. ASSUME CreateRefused
      PROVE  RiskIsHeld'
  BY <1>3
       DEF CreateRefused, AttemptFailed, TypeOK, MemoryTypeOK, ControlTypeOK, WorldTypeOK,
           Reliable, Bookkeeping, ExchangeLag, RiskIsHeld, AtRisk, CutShort, Of
<1>4. ASSUME CreateReplyLost
      PROVE  RiskIsHeld'
  BY <1>4
       DEF CreateReplyLost, AttemptFailed, XAccept, TypeOK, MemoryTypeOK, ControlTypeOK,
           WorldTypeOK, Reliable, Bookkeeping, ExchangeLag, RiskIsHeld, AtRisk, CutShort, Of
<1>5. ASSUME PollStart
      PROVE  RiskIsHeld'
  BY <1>5
       DEF PollStart, TypeOK, MemoryTypeOK, ControlTypeOK, WorldTypeOK, Reliable, Bookkeeping,
           ExchangeLag, RiskIsHeld, AtRisk, CutShort, Of
<1>6. ASSUME NEW c \in Cid, NEW ok \in BOOLEAN, CancelDone(c, ok)
      PROVE  RiskIsHeld'
  BY <1>6
       DEF CancelDone, RestCancel, Remaining, UpdateRow, Persist, TypeOK, MemoryTypeOK,
           ControlTypeOK, WorldTypeOK, Reliable, Bookkeeping, ExchangeLag, RiskIsHeld,
           AtRisk, CutShort, Of
<1>7. ASSUME NEW c \in Cid, CancelRaised(c)
      PROVE  RiskIsHeld'
  BY <1>7
       DEF CancelRaised, TypeOK, MemoryTypeOK, ControlTypeOK, WorldTypeOK, Reliable,
           Bookkeeping, ExchangeLag, RiskIsHeld, AtRisk, CutShort, Of
<1>8. ASSUME NEW got \in {{}, xfills}, PollFills(got)
      PROVE  RiskIsHeld'
  BY <1>8
       DEF PollFills, TypeOK, MemoryTypeOK, ControlTypeOK, WorldTypeOK, Reliable, Bookkeeping,
           ExchangeLag, RiskIsHeld, AtRisk, CutShort, Of
<1>9. ASSUME NEW f \in xfills, NEW ok \in BOOLEAN, ApplyFill(f, ok)
      PROVE  RiskIsHeld'
  BY <1>9
       DEF ApplyFill, FillQty, UpdateRow, Persist, TypeOK, MemoryTypeOK, ControlTypeOK,
           WorldTypeOK, Reliable, Bookkeeping, ExchangeLag, RiskIsHeld, AtRisk, CutShort, Of
<1>10. ASSUME NEW t \in Ticker, ReconcileStart(t)
      PROVE  RiskIsHeld'
  BY <1>10
       DEF ReconcileStart, Popped, Of, TypeOK, MemoryTypeOK, ControlTypeOK, WorldTypeOK,
           Reliable, Bookkeeping, ExchangeLag, RiskIsHeld, AtRisk, CutShort, Of
<1>11. ASSUME NEW c \in Cid, SettleOne(c)
      PROVE  RiskIsHeld'
  BY <1>11
       DEF SettleOne, TypeOK, MemoryTypeOK, ControlTypeOK, WorldTypeOK, Reliable, Bookkeeping,
           ExchangeLag, RiskIsHeld, AtRisk, CutShort, Of
<1>12. ASSUME NEW c \in Cid, SettleRaised(c)
      PROVE  RiskIsHeld'
  BY <1>12
       DEF SettleRaised, TypeOK, MemoryTypeOK, ControlTypeOK, WorldTypeOK, Reliable,
           Bookkeeping, ExchangeLag, RiskIsHeld, AtRisk, CutShort, Of
<1>13. ASSUME NEW c \in Cid, NEW q \in 1..Size, XFill(c, q)
      PROVE  RiskIsHeld'
  BY <1>13
       DEF XFill, TypeOK, MemoryTypeOK, ControlTypeOK, WorldTypeOK, Reliable, Bookkeeping,
           ExchangeLag, RiskIsHeld, AtRisk, CutShort, Of
<1>14. ASSUME NEW t \in Ticker, NEW o \in Outcome, XResolve(t, o)
      PROVE  RiskIsHeld'
  BY <1>14
       DEF XResolve, TypeOK, MemoryTypeOK, ControlTypeOK, WorldTypeOK, Reliable, Bookkeeping,
           ExchangeLag, RiskIsHeld, AtRisk, CutShort, Of
<1>15. ASSUME NEW c \in Cid, Age(c)
      PROVE  RiskIsHeld'
  BY <1>15
       DEF Age, TypeOK, MemoryTypeOK, ControlTypeOK, WorldTypeOK, Reliable, Bookkeeping,
           ExchangeLag, RiskIsHeld, AtRisk, CutShort, Of
<1>16. ASSUME NewDay
      PROVE  RiskIsHeld'
  BY <1>16
       DEF NewDay, TypeOK, MemoryTypeOK, ControlTypeOK, WorldTypeOK, Reliable, Bookkeeping,
           ExchangeLag, RiskIsHeld, AtRisk, CutShort, Of
<1>17. ASSUME FlipKill
      PROVE  RiskIsHeld'
  BY <1>17
       DEF FlipKill, TypeOK, MemoryTypeOK, ControlTypeOK, WorldTypeOK, Reliable, Bookkeeping,
           ExchangeLag, RiskIsHeld, AtRisk, CutShort, Of
<1>18. ASSUME NEW t \in Ticker, FlipAsset(t)
      PROVE  RiskIsHeld'
  BY <1>18
       DEF FlipAsset, TypeOK, MemoryTypeOK, ControlTypeOK, WorldTypeOK, Reliable, Bookkeeping,
           ExchangeLag, RiskIsHeld, AtRisk, CutShort, Of
<1>19. ASSUME Restart
      PROVE  RiskIsHeld'
  BY <1>19
       DEF Restart, TypeOK, MemoryTypeOK, ControlTypeOK, WorldTypeOK, Reliable, Bookkeeping,
           ExchangeLag, RiskIsHeld, AtRisk, CutShort, Of
<1>20. CASE UNCHANGED vars
  BY <1>20
       DEF vars, TypeOK, MemoryTypeOK, ControlTypeOK, WorldTypeOK, Reliable, Bookkeeping,
           ExchangeLag, RiskIsHeld, AtRisk, CutShort, Of
<1>21. QED
  BY <1>1, <1>2, <1>3, <1>4, <1>5, <1>6, <1>7, <1>8, <1>9, <1>10, <1>11, <1>12, <1>13, <1>14,
         <1>15, <1>16, <1>17, <1>18, <1>19, <1>20
       DEF Next, Submit, CreateReply, Poll, Settle, Environment

\* A row that says filled or canceled belongs to an order that ended so, or that
\* the process has lost; no other step touches its row.
LEMMA RowStep ==
    TypeOK /\ Bookkeeping /\ RowNeverAhead /\ [Next]_vars => RowNeverAhead'
<1> SUFFICES ASSUME TypeOK, Bookkeeping, RowNeverAhead, [Next]_vars PROVE RowNeverAhead'
  OBVIOUS
<1> USE DEF orders, memory, ledger, control, db, exchange, operator, None
<1>1. ASSUME NEW c \in Cid, NEW t \in Ticker, NEW s \in Side, BeginSubmit(c, t, s)
      PROVE  RowNeverAhead'
  BY <1>1 DEF BeginSubmit, FreshId, TypeOK, MemoryTypeOK, ControlTypeOK, WorldTypeOK,
       Bookkeeping, RowNeverAhead
<1>2. ASSUME NEW withId \in BOOLEAN, NEW ok \in BOOLEAN, CreateAnswered(withId, ok)
      PROVE  RowNeverAhead'
  BY <1>2 DEF CreateAnswered, XAccept, Persist, TypeOK, MemoryTypeOK, ControlTypeOK,
       WorldTypeOK, Bookkeeping, RowNeverAhead
<1>3. ASSUME CreateRefused
      PROVE  RowNeverAhead'
  BY <1>3 DEF CreateRefused, AttemptFailed, TypeOK, MemoryTypeOK, ControlTypeOK, WorldTypeOK,
       Bookkeeping, RowNeverAhead
<1>4. ASSUME CreateReplyLost
      PROVE  RowNeverAhead'
  BY <1>4 DEF CreateReplyLost, AttemptFailed, XAccept, TypeOK, MemoryTypeOK, ControlTypeOK,
       WorldTypeOK, Bookkeeping, RowNeverAhead
<1>5. ASSUME PollStart
      PROVE  RowNeverAhead'
  BY <1>5 DEF PollStart, TypeOK, MemoryTypeOK, ControlTypeOK, WorldTypeOK, Bookkeeping,
       RowNeverAhead
<1>6. ASSUME NEW c \in Cid, NEW ok \in BOOLEAN, CancelDone(c, ok)
      PROVE  RowNeverAhead'
  BY <1>6 DEF CancelDone, RestCancel, UpdateRow, Persist, TypeOK, MemoryTypeOK, ControlTypeOK,
       WorldTypeOK, Bookkeeping, RowNeverAhead
<1>7. ASSUME NEW c \in Cid, CancelRaised(c)
      PROVE  RowNeverAhead'
  BY <1>7 DEF CancelRaised, TypeOK, MemoryTypeOK, ControlTypeOK, WorldTypeOK, Bookkeeping,
       RowNeverAhead
<1>8. ASSUME NEW got \in {{}, xfills}, PollFills(got)
      PROVE  RowNeverAhead'
  BY <1>8 DEF PollFills, TypeOK, MemoryTypeOK, ControlTypeOK, WorldTypeOK, Bookkeeping,
       RowNeverAhead
<1>9. ASSUME NEW f \in xfills, NEW ok \in BOOLEAN, ApplyFill(f, ok)
      PROVE  RowNeverAhead'
  <2>1. f[1] \in Cid
    BY DEF TypeOK, WorldTypeOK
  <2> DEFINE c == f[1]
  <2>2. CASE c \in resting
    <3>1. /\ status' = [status EXCEPT ![c] = "filled"]
          /\ row' = row \/ row' = [row EXCEPT ![c] = "filled"]
      BY <1>9, <2>2 DEF ApplyFill, UpdateRow, Persist
    <3>2. status[c] = "resting"
      BY <2>2 DEF Bookkeeping
    <3> QED
      BY <2>1, <3>1, <3>2 DEF RowNeverAhead, TypeOK, MemoryTypeOK, WorldTypeOK
  <2>3. CASE c \notin resting
    <3>1. UNCHANGED <<status, row>>
      BY <1>9, <2>3 DEF ApplyFill
    <3> QED
      BY <3>1 DEF RowNeverAhead
  <2> QED
    BY <2>2, <2>3
<1>10. ASSUME NEW t \in Ticker, ReconcileStart(t)
      PROVE  RowNeverAhead'
  BY <1>10 DEF ReconcileStart, TypeOK, MemoryTypeOK, ControlTypeOK, WorldTypeOK, Bookkeeping,
       RowNeverAhead
<1>11. ASSUME NEW c \in Cid, SettleOne(c)
      PROVE  RowNeverAhead'
  BY <1>11 DEF SettleOne, TypeOK, MemoryTypeOK, ControlTypeOK, WorldTypeOK, Bookkeeping,
       RowNeverAhead
<1>12. ASSUME NEW c \in Cid, SettleRaised(c)
      PROVE  RowNeverAhead'
  BY <1>12 DEF SettleRaised, TypeOK, MemoryTypeOK, ControlTypeOK, WorldTypeOK, Bookkeeping,
       RowNeverAhead
<1>13. ASSUME NEW c \in Cid, NEW q \in 1..Size, XFill(c, q)
      PROVE  RowNeverAhead'
  BY <1>13 DEF XFill, TypeOK, MemoryTypeOK, ControlTypeOK, WorldTypeOK, Bookkeeping,
       RowNeverAhead
<1>14. ASSUME NEW t \in Ticker, NEW o \in Outcome, XResolve(t, o)
      PROVE  RowNeverAhead'
  BY <1>14 DEF XResolve, TypeOK, MemoryTypeOK, ControlTypeOK, WorldTypeOK, Bookkeeping,
       RowNeverAhead
<1>15. ASSUME NEW c \in Cid, Age(c)
      PROVE  RowNeverAhead'
  BY <1>15 DEF Age, TypeOK, MemoryTypeOK, ControlTypeOK, WorldTypeOK, Bookkeeping, RowNeverAhead
<1>16. ASSUME NewDay
      PROVE  RowNeverAhead'
  BY <1>16 DEF NewDay, TypeOK, MemoryTypeOK, ControlTypeOK, WorldTypeOK, Bookkeeping,
       RowNeverAhead
<1>17. ASSUME FlipKill
      PROVE  RowNeverAhead'
  BY <1>17 DEF FlipKill, TypeOK, MemoryTypeOK, ControlTypeOK, WorldTypeOK, Bookkeeping,
       RowNeverAhead
<1>18. ASSUME NEW t \in Ticker, FlipAsset(t)
      PROVE  RowNeverAhead'
  BY <1>18 DEF FlipAsset, TypeOK, MemoryTypeOK, ControlTypeOK, WorldTypeOK, Bookkeeping,
       RowNeverAhead
<1>19. ASSUME Restart
      PROVE  RowNeverAhead'
  BY <1>19 DEF Restart, TypeOK, MemoryTypeOK, ControlTypeOK, WorldTypeOK, Bookkeeping,
       RowNeverAhead
<1>20. CASE UNCHANGED vars
  BY <1>20 DEF vars, TypeOK, MemoryTypeOK, ControlTypeOK, WorldTypeOK, Bookkeeping,
       RowNeverAhead
<1>21. QED
  BY <1>1, <1>2, <1>3, <1>4, <1>5, <1>6, <1>7, <1>8, <1>9, <1>10, <1>11, <1>12, <1>13, <1>14,
       <1>15, <1>16, <1>17, <1>18, <1>19, <1>20 DEF Next, Submit, CreateReply, Poll, Settle,
       Environment

\* What was accepted under the kill switch: nothing while it is off, and while a
\* create is in progress nothing but its order.
LeakOfCurrent ==
    /\ ~kill => underKill = {}
    /\ pc = "creating" => underKill \subseteq {cur}
    /\ \A c, d \in underKill : c = d

\* Every step keeps that: the flags are read before a create begins.
LEMMA LeakStep ==
    ASSUME Mapped = Ticker
    PROVE  TypeOK /\ Bookkeeping /\ LeakOfCurrent /\ [Next]_vars => LeakOfCurrent'
<1> SUFFICES ASSUME TypeOK, Bookkeeping, LeakOfCurrent, [Next]_vars PROVE LeakOfCurrent'
  OBVIOUS
<1> USE DEF orders, memory, ledger, control, db, exchange, operator, None
<1>1. ASSUME NEW c \in Cid, NEW t \in Ticker, NEW s \in Side, BeginSubmit(c, t, s)
      PROVE  LeakOfCurrent'
  BY <1>1 DEF BeginSubmit, FreshId, TypeOK, MemoryTypeOK, ControlTypeOK, WorldTypeOK,
       LeakOfCurrent, FlagsAllow
<1>2. ASSUME NEW withId \in BOOLEAN, NEW ok \in BOOLEAN, CreateAnswered(withId, ok)
      PROVE  LeakOfCurrent'
  BY <1>2 DEF CreateAnswered, XAccept, Persist, TypeOK, MemoryTypeOK, ControlTypeOK,
       WorldTypeOK, LeakOfCurrent
<1>3. ASSUME CreateRefused
      PROVE  LeakOfCurrent'
  BY <1>3 DEF CreateRefused, AttemptFailed, TypeOK, MemoryTypeOK, ControlTypeOK, WorldTypeOK,
       LeakOfCurrent
<1>4. ASSUME CreateReplyLost
      PROVE  LeakOfCurrent'
  BY <1>4 DEF CreateReplyLost, AttemptFailed, XAccept, TypeOK, MemoryTypeOK, ControlTypeOK,
       WorldTypeOK, LeakOfCurrent
<1>5. ASSUME PollStart
      PROVE  LeakOfCurrent'
  BY <1>5 DEF PollStart, TypeOK, MemoryTypeOK, ControlTypeOK, WorldTypeOK, LeakOfCurrent
<1>6. ASSUME NEW c \in Cid, NEW ok \in BOOLEAN, CancelDone(c, ok)
      PROVE  LeakOfCurrent'
  BY <1>6 DEF CancelDone, RestCancel, UpdateRow, Persist, TypeOK, MemoryTypeOK, ControlTypeOK,
       WorldTypeOK, LeakOfCurrent
<1>7. ASSUME NEW c \in Cid, CancelRaised(c)
      PROVE  LeakOfCurrent'
  BY <1>7 DEF CancelRaised, TypeOK, MemoryTypeOK, ControlTypeOK, WorldTypeOK, LeakOfCurrent
<1>8. ASSUME NEW got \in {{}, xfills}, PollFills(got)
      PROVE  LeakOfCurrent'
  BY <1>8 DEF PollFills, TypeOK, MemoryTypeOK, ControlTypeOK, WorldTypeOK, LeakOfCurrent
<1>9. ASSUME NEW f \in xfills, NEW ok \in BOOLEAN, ApplyFill(f, ok)
      PROVE  LeakOfCurrent'
  BY <1>9 DEF ApplyFill, FillQty, UpdateRow, Persist, TypeOK, MemoryTypeOK, ControlTypeOK,
       WorldTypeOK, LeakOfCurrent
<1>10. ASSUME NEW t \in Ticker, ReconcileStart(t)
      PROVE  LeakOfCurrent'
  BY <1>10 DEF ReconcileStart, TypeOK, MemoryTypeOK, ControlTypeOK, WorldTypeOK, LeakOfCurrent
<1>11. ASSUME NEW c \in Cid, SettleOne(c)
      PROVE  LeakOfCurrent'
  BY <1>11 DEF SettleOne, TypeOK, MemoryTypeOK, ControlTypeOK, WorldTypeOK, LeakOfCurrent
<1>12. ASSUME NEW c \in Cid, SettleRaised(c)
      PROVE  LeakOfCurrent'
  BY <1>12 DEF SettleRaised, TypeOK, MemoryTypeOK, ControlTypeOK, WorldTypeOK, LeakOfCurrent
<1>13. ASSUME NEW c \in Cid, NEW q \in 1..Size, XFill(c, q)
      PROVE  LeakOfCurrent'
  BY <1>13 DEF XFill, TypeOK, MemoryTypeOK, ControlTypeOK, WorldTypeOK, LeakOfCurrent
<1>14. ASSUME NEW t \in Ticker, NEW o \in Outcome, XResolve(t, o)
      PROVE  LeakOfCurrent'
  BY <1>14 DEF XResolve, TypeOK, MemoryTypeOK, ControlTypeOK, WorldTypeOK, LeakOfCurrent
<1>15. ASSUME NEW c \in Cid, Age(c)
      PROVE  LeakOfCurrent'
  BY <1>15 DEF Age, TypeOK, MemoryTypeOK, ControlTypeOK, WorldTypeOK, LeakOfCurrent
<1>16. ASSUME NewDay
      PROVE  LeakOfCurrent'
  BY <1>16 DEF NewDay, TypeOK, MemoryTypeOK, ControlTypeOK, WorldTypeOK, LeakOfCurrent
<1>17. ASSUME FlipKill
      PROVE  LeakOfCurrent'
  BY <1>17 DEF FlipKill, TypeOK, MemoryTypeOK, ControlTypeOK, WorldTypeOK, LeakOfCurrent
<1>18. ASSUME NEW t \in Ticker, FlipAsset(t)
      PROVE  LeakOfCurrent'
  BY <1>18 DEF FlipAsset, TypeOK, MemoryTypeOK, ControlTypeOK, WorldTypeOK, LeakOfCurrent
<1>19. ASSUME Restart
      PROVE  LeakOfCurrent'
  BY <1>19 DEF Restart, TypeOK, MemoryTypeOK, ControlTypeOK, WorldTypeOK, LeakOfCurrent
<1>20. CASE UNCHANGED vars
  BY <1>20 DEF vars, TypeOK, MemoryTypeOK, ControlTypeOK, WorldTypeOK, LeakOfCurrent
<1>21. QED
  BY <1>1, <1>2, <1>3, <1>4, <1>5, <1>6, <1>7, <1>8, <1>9, <1>10, <1>11, <1>12, <1>13, <1>14,
       <1>15, <1>16, <1>17, <1>18, <1>19, <1>20 DEF Next, Submit, CreateReply, Poll, Settle,
       Environment

\* The initial state satisfies the inductive invariant: nothing is held, nothing
\* is on the exchange.
LEMMA InitInv == Init => IInv
<1> SUFFICES ASSUME Init PROVE IInv
  OBVIOUS
<1> USE DEF Init, None, Day
<1>1. TypeOK
  <2>1. MemoryTypeOK
    BY DEF MemoryTypeOK
  <2>2. ControlTypeOK
    BY DEF ControlTypeOK
  <2>3. WorldTypeOK
    <3>1. today \in Day /\ restarts \in 0..MaxRestarts
      OBVIOUS
    <3>2. xqty \in [Cid -> 0..Size] /\ market \in [Ticker -> Outcome \cup {"open"}]
      OBVIOUS
    <3>3. row \in [Cid -> {"none", "resting", "filled", "canceled"}]
      OBVIOUS
    <3>4. xstate \in [Cid -> {"none", "resting", "executed", "canceled"}]
      OBVIOUS
    <3> QED
      BY <3>1, <3>2, <3>3, <3>4 DEF WorldTypeOK
  <2> QED
    BY <2>1, <2>2, <2>3 DEF TypeOK
<1>2. Bookkeeping
  BY DEF Bookkeeping
<1>3. RoomForCurrent /\ OpenPositionCap
  BY FS_EmptySet DEF RoomForCurrent, OpenPositionCap, OpenPositions
<1>4. ExchangeLag
  BY DEF ExchangeLag
<1>5. NotionalExact
  <2>1. \A u \in Ticker : Of(u, resting \cup filled) = {} /\ notional[u] = 0
    BY DEF Of
  <2> QED
    BY <2>1, FS_EmptySet, CostTimesNat DEF NotionalExact
<1>6. OrdersMatchExchange /\ NeverOverBooked /\ CanceledIsDead
  BY DEF OrdersMatchExchange, NeverOverBooked, CanceledIsDead, Tracked
<1>7. QED
  BY <1>1, <1>2, <1>3, <1>4, <1>5, <1>6 DEF IInv

\* IInv is an invariant of every behaviour.
THEOREM Invariant == Spec => []IInv
<1>1. IInv /\ [Next]_vars => IInv'
  BY TypeStep, BookkeepingStep, LagStep, ExchangeStep, CapStep, NotionalStep
     DEF IInv
<1>2. QED
  BY InitInv, <1>1, PTL DEF Spec

\* Every variable keeps its type.
THEOREM TypeCorrect == Spec => []TypeOK
<1>1. IInv => TypeOK
  BY DEF IInv
<1>2. QED
  BY Invariant, <1>1, PTL

\* However creates, polls, fills, cancels, settlements and failures interleave,
\* resting plus filled orders never exceed max_concurrent.
THEOREM OpenPositionsCapped == Spec => []OpenPositionCap
<1>1. IInv => OpenPositionCap
  BY DEF IInv
<1>2. QED
  BY Invariant, <1>1, PTL

\* While a market is open, the notional PositionAccountabilityRule reads for it
\* is the cost of exactly the orders held on it, whatever raised in between.
THEOREM NotionalIsExact == Spec => []NotionalExact
<1>1. IInv => NotionalExact
  BY DEF IInv
<1>2. QED
  BY Invariant, <1>1, PTL

\* No order on the exchange is unaccounted for, unless its submit was reported as
\* failed or the process died; no fill is over-booked; no canceled order lives.
THEOREM ExchangeAgrees ==
    Spec => [](OrdersMatchExchange /\ NeverOverBooked /\ CanceledIsDead)
<1>1. IInv => OrdersMatchExchange /\ NeverOverBooked /\ CanceledIsDead
  BY DEF IInv
<1>2. QED
  BY Invariant, <1>1, PTL

\* In a reliable environment the orders that put capital at risk on the exchange
\* are at most max_concurrent, whatever fills in pieces: the cap binds the account,
\* not just the memory, but for the orders that a cancel cut short.
THEOREM CapitalAtRiskCapped ==
    ASSUME Reliable
    PROVE  Spec => []ExposureCap
<1>1. Init => RiskIsHeld
  BY DEF Init, RiskIsHeld, AtRisk
<1>2. IInv /\ RiskIsHeld /\ [Next]_vars => RiskIsHeld'
  BY RiskIsHeldStep DEF IInv
<1>3. IInv /\ RiskIsHeld => ExposureCap
  <2> SUFFICES ASSUME IInv, RiskIsHeld PROVE ExposureCap
    OBVIOUS
  <2>1. /\ IsFiniteSet(resting) /\ Cardinality(resting) \in Nat
        /\ IsFiniteSet(filled) /\ Cardinality(filled) \in Nat
        /\ Cardinality(resting \cap filled) \in Nat
    BY Finite DEF IInv, TypeOK, MemoryTypeOK
  <2>2. /\ IsFiniteSet(resting \cup filled)
        /\ Cardinality(resting \cup filled) =
              Cardinality(resting) + Cardinality(filled) - Cardinality(resting \cap filled)
    BY <2>1, FS_Union
  <2>3. AtRisk \ CutShort \subseteq resting \cup filled
    BY DEF RiskIsHeld
  <2>4. /\ Cardinality(AtRisk \ CutShort) <= Cardinality(resting \cup filled)
        /\ Cardinality(AtRisk \ CutShort) \in Nat
    BY <2>2, <2>3, FS_Subset, FS_CardinalityType
  <2> QED
    BY <2>1, <2>2, <2>4 DEF IInv, OpenPositionCap, OpenPositions, ExposureCap
<1>4. QED
  BY Invariant, <1>1, <1>2, <1>3, PTL DEF Spec

\* No fill is booked that the exchange does not have, nor more of it.
THEOREM FillsNeverOverBooked == Spec => []NeverOverBooked
<1>1. IInv => NeverOverBooked
  BY DEF IInv
<1>2. QED
  BY Invariant, <1>1, PTL

\* An order the executor reports as canceled over REST can no longer fill, also
\* when the timeout's DELETE races with a fill or its reply is lost.
THEOREM CanceledStaysDead == Spec => []CanceledIsDead
<1>1. IInv => CanceledIsDead
  BY DEF IInv
<1>2. QED
  BY Invariant, <1>1, PTL

\* No row of live_orders is ahead of its order, whichever statement raises.
THEOREM RowsNeverAhead == Spec => []RowNeverAhead
<1>1. Init => RowNeverAhead
  BY DEF Init, RowNeverAhead
<1>2. IInv /\ RowNeverAhead /\ [Next]_vars => RowNeverAhead'
  BY RowStep DEF IInv
<1>3. QED
  BY Invariant, <1>1, <1>2, PTL DEF Spec

\* If every ticker is mapped to its asset, at most the create in progress reaches
\* the exchange after the kill switch is engaged, retries and lost replies
\* included.
THEOREM KillLeaksOneCreate ==
    ASSUME Mapped = Ticker
    PROVE  Spec => []KillLeaksAtMostOne
<1>1. Init => LeakOfCurrent
  BY DEF Init, LeakOfCurrent
<1>2. IInv /\ LeakOfCurrent /\ [Next]_vars => LeakOfCurrent'
  BY LeakStep DEF IInv
<1>3. LeakOfCurrent => KillLeaksAtMostOne
  <2> SUFFICES ASSUME LeakOfCurrent PROVE Cardinality(underKill) <= 1
    BY DEF KillLeaksAtMostOne
  <2>1. CASE underKill = {}
    BY <2>1, FS_EmptySet
  <2>2. CASE underKill # {}
    <3>1. PICK c : c \in underKill
      BY <2>2
    <3>2. underKill = {c}
      BY <3>1 DEF LeakOfCurrent
    <3> QED
      BY <3>2, FS_Singleton
  <2> QED
    BY <2>1, <2>2
<1>4. QED
  BY Invariant, <1>1, <1>2, <1>3, PTL DEF Spec
-----------------------------------------------------------------------------
\* Multiplication distributes over sums.
LEMMA Distributes ==
    ASSUME NEW k \in Int, NEW a \in Int, NEW b \in Int
    PROVE  k * (a + b) = k * a + k * b /\ k * a \in Int
OBVIOUS

\* The contracts of a set of orders are finitely many, and those of disjoint
\* sets of orders are different ones.
LEMMA ContractsAdd ==
    ASSUME NEW A \in SUBSET Cid, NEW B \in SUBSET Cid, A \cap B = {}
    PROVE  /\ Cardinality(Contracts(A)) \in Nat
           /\ Cardinality(Contracts(A \cup B))
                = Cardinality(Contracts(A)) + Cardinality(Contracts(B))
<1>1. ASSUME NEW S \in SUBSET Cid PROVE IsFiniteSet(Contracts(S))
  <2>1. IsFiniteSet(S) /\ IsFiniteSet(1..Size)
    BY FS_Subset, FS_Interval DEF LiveAssumption
  <2>2. IsFiniteSet(S \X (1..Size))
    BY <2>1, FS_Product
  <2> QED
    BY <2>2, FS_Subset DEF Contracts
<1>2. /\ Contracts(A \cup B) = Contracts(A) \cup Contracts(B)
      /\ Contracts(A) \cap Contracts(B) = {}
  BY DEF Contracts
<1>3. IsFiniteSet(Contracts(A)) /\ IsFiniteSet(Contracts(B))
  BY <1>1
<1>4. Cardinality(Contracts(A)) \in Nat /\ Cardinality(Contracts(B)) \in Nat
  BY <1>3, FS_CardinalityType
<1>5. Cardinality(Contracts(A) \cup Contracts(B))
        = Cardinality(Contracts(A)) + Cardinality(Contracts(B)) - Cardinality({})
  BY <1>2, <1>3, FS_Union
<1>6. Cardinality({}) = 0
  BY FS_EmptySet
<1> DEFINE nA == Cardinality(Contracts(A))
           nB == Cardinality(Contracts(B))
<1>7. Cardinality(Contracts(A \cup B)) = nA + nB - 0
  BY <1>2, <1>5, <1>6
<1> HIDE DEF nA, nB
<1> QED
  BY <1>4, <1>7 DEF nA, nB

\* No orders, no P/L.
LEMMA PnlOfNone == PnlBy({}) = 0
<1>1. Won({}) = {} /\ Contracts({}) = {}
  BY DEF Won, Contracts
<1>2. Price + Fee \in Int
  BY DEF LiveAssumption
<1>3. \A k \in Int : 100 * 0 - k * 0 = 0
  OBVIOUS
<1>4. PnlBy({}) = 100 * 0 - (Price + Fee) * 0
  BY <1>1, FS_EmptySet DEF PnlBy
<1> QED
  BY <1>2, <1>3, <1>4

\* The P/L of disjoint sets of orders adds up.
LEMMA PnlAdds ==
    ASSUME NEW A \in SUBSET Cid, NEW B \in SUBSET Cid, A \cap B = {}
    PROVE  PnlBy(A \cup B) = PnlBy(A) + PnlBy(B)
<1> DEFINE nA == Cardinality(Contracts(A))
           nB == Cardinality(Contracts(B))
           wA == Cardinality(Contracts(Won(A)))
           wB == Cardinality(Contracts(Won(B)))
           k  == Price + Fee
<1>1. /\ Won(A) \in SUBSET Cid /\ Won(B) \in SUBSET Cid /\ Won(A) \cap Won(B) = {}
      /\ Won(A \cup B) = Won(A) \cup Won(B)
  BY DEF Won
<1>2. /\ Cardinality(Contracts(A \cup B)) = nA + nB
      /\ Cardinality(Contracts(Won(A \cup B))) = wA + wB
      /\ nA \in Nat /\ nB \in Nat /\ wA \in Nat /\ wB \in Nat
  BY <1>1, ContractsAdd
<1>3. k \in Int
  BY DEF LiveAssumption
<1>4. /\ PnlBy(A \cup B) = 100 * (wA + wB) - k * (nA + nB)
      /\ PnlBy(A) = 100 * wA - k * nA /\ PnlBy(B) = 100 * wB - k * nB
  BY <1>2 DEF PnlBy
<1> HIDE DEF nA, nB, wA, wB, k
<1>5. k * (nA + nB) = k * nA + k * nB /\ k * nA \in Int /\ k * nB \in Int
  BY <1>2, <1>3, Distributes
<1> QED
  BY <1>2, <1>4, <1>5

\* A settlement of one order is worth what reconcile computes for it.
LEMMA PnlOfOne ==
    ASSUME TypeOK, NEW c \in Cid
    PROVE  PnlBy({c}) = Pnl(c, market[ticker[c]])
<1> DEFINE q == qty[c]
           p == Payoff(market[ticker[c]], side[c])
           k == Price + Fee
<1>1. q \in 0..Size
  BY DEF TypeOK, MemoryTypeOK
<1>2. Contracts({c}) = {c} \X (1..q)
  BY <1>1 DEF Contracts
<1>3. Cardinality({c} \X (1..q)) = q
  <2>1. IsFiniteSet({c}) /\ Cardinality({c}) = 1
    BY FS_Singleton
  <2>2. IsFiniteSet(1..q) /\ Cardinality(1..q) = q
    <3>1. IsFiniteSet(1..q) /\ Cardinality(1..q) = IF 1 > q THEN 0 ELSE q - 1 + 1
      <4>1. 1 \in Int /\ q \in Int
        BY <1>1
      <4> HIDE DEF q
      <4> QED
        BY <4>1, FS_Interval
    <3> QED
      BY <1>1, <3>1
  <2>3. Cardinality({c} \X (1..q)) = Cardinality({c}) * Cardinality(1..q)
    BY <2>1, <2>2, FS_Product
  <2> HIDE DEF q
  <2>4. 1 * q = q
    BY <1>1
  <2> QED
    BY <2>1, <2>2, <2>3, <2>4
<1>4. p \in {0, 100}
  BY DEF Payoff
<1>5. k \in Int
  BY DEF LiveAssumption
<1>6. Cardinality(Contracts({c})) = q
  BY <1>2, <1>3
<1>7. Cardinality(Contracts(Won({c}))) = IF p = 100 THEN q ELSE 0
  <2>1. CASE p = 100
    <3>1. Won({c}) = {c}
      BY <2>1 DEF Won
    <3> QED
      BY <1>6, <2>1, <3>1
  <2>2. CASE p # 100
    <3>1. Won({c}) = {} /\ Contracts({}) = {}
      BY <2>2 DEF Won, Contracts
    <3> QED
      BY <2>2, <3>1, FS_EmptySet
  <2> QED
    BY <2>1, <2>2
<1>8. PnlBy({c}) = 100 * (IF p = 100 THEN q ELSE 0) - k * q
  BY <1>6, <1>7 DEF PnlBy
<1>9. Pnl(c, market[ticker[c]]) = (p - Price - Fee) * q
  BY DEF Pnl
<1>10. p - Price - Fee = p - k
  BY <1>4 DEF LiveAssumption
<1> HIDE DEF p, q, k
<1>11. (p - k) * q = p * q - k * q
  BY <1>1, <1>4, <1>5
<1> QED
  BY <1>1, <1>4, <1>5, <1>8, <1>9, <1>10, <1>11

\* The P/L of a day moves only with its settlements: a step that settles nothing
\* and leaves the settled orders and their markets alone does not change it.
LEMMA PnlUndisturbed ==
    ASSUME NEW d, SettledOn(d)' = SettledOn(d),
           \A c \in SettledOn(d) : /\ qty'[c] = qty[c] /\ side'[c] = side[c]
                                   /\ market'[ticker'[c]] = market[ticker[c]]
    PROVE  PnlBy(SettledOn(d))' = PnlBy(SettledOn(d))
<1>1. Won(SettledOn(d))' = Won(SettledOn(d))
  BY DEF Won, Payoff
<1>2. Contracts(SettledOn(d))' = Contracts(SettledOn(d))
  BY DEF Contracts
<1>3. Contracts(Won(SettledOn(d)))' = Contracts(Won(SettledOn(d)))
  BY <1>1 DEF Contracts, Won
<1> QED
  BY <1>2, <1>3 DEF PnlBy

\* Every step keeps the agreement of the daily P/L with the settlements.
LEMMA PnlStep ==
    TypeOK /\ Bookkeeping /\ PnlCountedOnce /\ [Next]_vars => PnlCountedOnce'
<1> SUFFICES ASSUME TypeOK, Bookkeeping, PnlCountedOnce, [Next]_vars
             PROVE  PnlCountedOnce'
  OBVIOUS
<1> USE DEF orders, memory, ledger, control, db, exchange, operator
<1>0. /\ settled \subseteq Cid /\ settledOn \in [Cid -> Day \cup {NoDay}]
      /\ dailyPnl \in [Day -> Int] /\ now \in Day
  BY DEF TypeOK, MemoryTypeOK, ControlTypeOK
<1>1. \A c \in settled : /\ status[c] = "filled" /\ ticker[c] \in Ticker
                         /\ c \notin resting /\ c # cur /\ market[ticker[c]] # "open"
  BY DEF Bookkeeping, TypeOK, MemoryTypeOK
<1>2. ASSUME /\ UNCHANGED ledger
             /\ \A c \in settled : /\ qty'[c] = qty[c] /\ side'[c] = side[c]
                                   /\ market'[ticker'[c]] = market[ticker[c]]
      PROVE  PnlCountedOnce'
  <2>1. ASSUME NEW d \in Day PROVE PnlBy(SettledOn(d))' = PnlBy(SettledOn(d))
    <3>1. SettledOn(d)' = SettledOn(d)
      BY <1>2 DEF SettledOn
    <3>2. \A c \in SettledOn(d) : /\ qty'[c] = qty[c] /\ side'[c] = side[c]
                                  /\ market'[ticker'[c]] = market[ticker[c]]
      BY <1>2 DEF SettledOn
    <3> QED
      BY <3>1, <3>2, PnlUndisturbed
  <2> QED
    BY <1>2, <2>1 DEF PnlCountedOnce, Day
<1>3. ASSUME NEW c \in Cid, NEW t \in Ticker, NEW s \in Side, BeginSubmit(c, t, s)
      PROVE  PnlCountedOnce'
  <2>1. c \notin settled
    BY <1>1, <1>3 DEF BeginSubmit, FreshId
  <2> QED
    BY <1>0, <1>2, <1>3, <2>1 DEF BeginSubmit, TypeOK, MemoryTypeOK
<1>4. ASSUME NEW f \in xfills, NEW ok \in BOOLEAN, ApplyFill(f, ok)
      PROVE  PnlCountedOnce'
  <2>1. f[1] \in resting => f[1] \notin settled
    BY <1>1
  <2>2. UNCHANGED <<side, ticker, market, ledger>>
    BY <1>4 DEF ApplyFill
  <2>3. \A c \in settled : qty'[c] = qty[c]
    <3>1. qty' = qty \/ (f[1] \in resting /\ qty' = [qty EXCEPT ![f[1]] = FillQty(f)])
      BY <1>4 DEF ApplyFill
    <3> QED
      BY <1>0, <2>1, <3>1 DEF TypeOK, MemoryTypeOK
  <2> QED
    BY <1>2, <2>2, <2>3
<1>5. ASSUME NEW t \in Ticker, NEW o \in Outcome, XResolve(t, o)
      PROVE  PnlCountedOnce'
  <2>1. /\ UNCHANGED <<memory>> /\ market[t] = "open"
        /\ market' = [market EXCEPT ![t] = o]
    BY <1>5 DEF XResolve
  <2>2. \A c \in settled : market'[ticker[c]] = market[ticker[c]]
    BY <1>1, <2>1 DEF TypeOK, WorldTypeOK
  <2> QED
    BY <1>2, <2>1, <2>2
<1>6. ASSUME NEW c \in Cid, SettleOne(c)
      PROVE  PnlCountedOnce'
  <2>1. /\ UNCHANGED <<orders, market>> /\ c \notin settled
        /\ settled' = settled \cup {c}
        /\ settledOn' = [settledOn EXCEPT ![c] = now]
        /\ dailyPnl' = [dailyPnl EXCEPT ![now] = @ + Pnl(c, market[ticker[c]])]
    BY <1>6 DEF SettleOne, Bookkeeping
  <2>2. ASSUME NEW d \in Day, d # now
        PROVE  dailyPnl'[d] = PnlBy(SettledOn(d))'
    <3>1. SettledOn(d)' = SettledOn(d)
      BY <1>0, <2>1, <2>2 DEF SettledOn
    <3>2. PnlBy(SettledOn(d))' = PnlBy(SettledOn(d))
      BY <2>1, <3>1, PnlUndisturbed
    <3>3. dailyPnl'[d] = dailyPnl[d]
      BY <1>0, <2>1, <2>2
    <3> QED
      BY <3>2, <3>3 DEF PnlCountedOnce
  <2>3. ASSUME NEW d \in Day, d = now
        PROVE  dailyPnl'[d] = PnlBy(SettledOn(d))'
    <3>1. SettledOn(d) \cup {c} \in SUBSET Cid /\ SettledOn(d) \cap {c} = {}
      BY <1>0, <2>1 DEF SettledOn
    <3>2. PnlBy(SettledOn(d) \cup {c}) = PnlBy(SettledOn(d)) + PnlBy({c})
      BY <3>1, PnlAdds
    <3>3. SettledOn(d)' = SettledOn(d) \cup {c}
      BY <1>0, <2>1, <2>3 DEF SettledOn
    <3>4. PnlBy(SettledOn(d))' = PnlBy(SettledOn(d) \cup {c})
      <4>1. Won(SettledOn(d))' = Won(SettledOn(d) \cup {c})
        BY <2>1, <3>3 DEF Won, Payoff
      <4>2. Contracts(SettledOn(d))' = Contracts(SettledOn(d) \cup {c})
        BY <2>1, <3>3 DEF Contracts
      <4>3. Contracts(Won(SettledOn(d)))' = Contracts(Won(SettledOn(d) \cup {c}))
        BY <2>1, <4>1 DEF Contracts
      <4> QED
        BY <4>2, <4>3 DEF PnlBy
    <3>5. PnlBy({c}) = Pnl(c, market[ticker[c]])
      BY PnlOfOne
    <3>6. dailyPnl'[d] = dailyPnl[d] + Pnl(c, market[ticker[c]])
      BY <1>0, <2>1, <2>3
    <3>7. dailyPnl[d] = PnlBy(SettledOn(d))
      BY DEF PnlCountedOnce
    <3> QED
      BY <3>2, <3>4, <3>5, <3>6, <3>7
  <2> QED
    BY <2>2, <2>3 DEF PnlCountedOnce, Day
<1>7. CASE Restart
  <2>1. settled' = {} /\ dailyPnl' = [d \in Day |-> 0]
    BY <1>7 DEF Restart
  <2>2. \A d \in Day : SettledOn(d)' = {}
    BY <2>1 DEF SettledOn
  <2>3. PnlBy({})' = 0
    <3>1. Won({})' = {} /\ Contracts({})' = {} /\ Contracts(Won({}))' = {}
      BY DEF Won, Contracts
    <3>2. Won({}) = {} /\ Contracts({}) = {} /\ Contracts(Won({})) = {}
      BY DEF Won, Contracts
    <3>3. PnlBy({})' = PnlBy({})
      BY <3>1, <3>2 DEF PnlBy
    <3> QED
      BY <3>3, PnlOfNone
  <2>4. \A d \in Day : PnlBy(SettledOn(d))' = PnlBy({})'
    BY <2>2 DEF PnlBy, Won, Contracts
  <2> QED
    BY <2>1, <2>3, <2>4 DEF PnlCountedOnce, Day
<1>8. CASE \/ \E withId, ok \in BOOLEAN : CreateAnswered(withId, ok)
           \/ CreateRefused \/ CreateReplyLost \/ PollStart
           \/ \E c \in Cid, ok \in BOOLEAN : CancelDone(c, ok)
           \/ \E c \in Cid : CancelRaised(c)
           \/ \E got \in {{}, xfills} : PollFills(got)
  <2>1. UNCHANGED <<ledger, qty, side, ticker, market>>
    BY <1>8 DEF CreateAnswered, CreateRefused, CreateReplyLost, PollStart, CancelDone,
                CancelRaised, PollFills, XAccept
  <2> QED
    BY <1>2, <2>1
<1>9. CASE \/ \E t \in Ticker : ReconcileStart(t)
           \/ \E c \in Cid : SettleRaised(c)
           \/ \E c \in Cid, q \in 1..Size : XFill(c, q)
           \/ \E c \in Cid : Age(c)
           \/ NewDay \/ FlipKill
           \/ \E t \in Ticker : FlipAsset(t)
           \/ UNCHANGED vars
  <2>1. UNCHANGED <<ledger, qty, side, ticker, market>>
    BY <1>9 DEF ReconcileStart, SettleRaised, XFill, Age, NewDay, FlipKill, FlipAsset, vars
  <2> QED
    BY <1>2, <2>1
<1> QED
  BY <1>3, <1>4, <1>5, <1>6, <1>7, <1>8, <1>9
     DEF Next, Submit, CreateReply, Poll, Settle, Environment

\* The P/L that the daily stop reads of a day is that of the orders settled on
\* it, each counted once.
THEOREM DailyPnlIsTheSettlements == Spec => []PnlCountedOnce
<1>1. Init => PnlCountedOnce
  <2> SUFFICES ASSUME Init PROVE PnlCountedOnce
    OBVIOUS
  <2>1. \A d \in Day : SettledOn(d) = {} /\ dailyPnl[d] = 0
    BY DEF Init, SettledOn
  <2> QED
    BY <2>1, PnlOfNone DEF PnlCountedOnce
<1>2. IInv => TypeOK /\ Bookkeeping
  BY DEF IInv
<1> QED
  BY <1>1, <1>2, PnlStep, Invariant, PTL DEF Spec

-----------------------------------------------------------------------------
(* The live executor implements the ledger of positions.                   *)

\* The ledger counts as the executor does.
LEMMA LedgerCounts == \A S : Ledger!Cardinality(S) = Cardinality(S)
BY DEF Ledger!Cardinality, Cardinality

\* What is held in the ledger are the open positions of the executor.
LEMMA HeldIsOpen ==
    ASSUME TypeOK, Bookkeeping
    PROVE  /\ Ledger!In({"held"}) = resting \cup filled
           /\ Cardinality(resting \cup filled) = OpenPositions
<1>1. resting \subseteq Cid /\ filled \subseteq Cid
  BY DEF TypeOK, MemoryTypeOK
<1>2. resting \cap filled = {}
  BY DEF Bookkeeping
<1>3. Ledger!In({"held"}) = resting \cup filled
  BY <1>1 DEF Ledger!In, Stands
<1>4. IsFiniteSet(resting) /\ IsFiniteSet(filled)
  BY <1>1, FS_Subset
<1>5. Cardinality(resting \cup filled)
      = Cardinality(resting) + Cardinality(filled) - Cardinality(resting \cap filled)
  BY <1>4, FS_Union
<1>6. Cardinality(resting \cap filled) = 0
  BY <1>2, FS_EmptySet
<1>7. Cardinality(resting) \in Nat /\ Cardinality(filled) \in Nat
  BY <1>4, FS_CardinalityType
<1> QED
  BY <1>3, <1>5, <1>6, <1>7 DEF OpenPositions

\* Settling one order yields what the ledger allows for one position.
LEMMA PnlIsAGain ==
    ASSUME TypeOK, NEW c \in Cid, NEW o
    PROVE  Pnl(c, o) \in Ledger!Gains(1)
<1> DEFINE q == qty[c]
           pay == Payoff(o, side[c])
           each == Price + Fee
           most == 100 - Price
<1>1. /\ q \in Nat /\ q <= Size /\ each \in Nat /\ most \in Nat
      /\ 100 - each \in Int /\ 100 - each <= most
  BY DEF TypeOK, MemoryTypeOK
<1>2. pay \in {0, 100}
  BY DEF Payoff
<1>3. \A a, n, b \in Nat : n <= b => a * n \in Nat /\ a * b \in Nat /\ a * n <= a * b
  OBVIOUS
<1>4. Pnl(c, o) = (pay - each) * q
  <2>1. Payoff(o, side[c]) - Price - Fee = pay - each
    BY <1>2
  <2> QED
    BY <2>1 DEF Pnl
<1>5. Ledger!Gains(1) = -(each * Size)..(most * Size)
  <2>1. Ledger!Gains(1) = -(WorstOfOrder * 1)..(BestOfOrder * 1)
    BY DEF Ledger!Gains
  <2>2. WorstOfOrder = each * Size /\ BestOfOrder = most * Size
    BY DEF WorstOfOrder, BestOfOrder
  <2> QED
    BY <1>1, <1>3, <2>1, <2>2
<1> HIDE DEF q, each, pay, most
<1>6. /\ each * q \in Nat /\ each * Size \in Nat /\ each * q <= each * Size
      /\ most * q \in Nat /\ most * Size \in Nat /\ most * q <= most * Size
  BY <1>1, <1>3
<1>7. CASE pay = 0
  <2>1. (pay - each) * q = -(each * q)
    BY <1>1, <1>7
  <2> QED
    BY <1>4, <1>5, <1>6, <2>1
<1>8. CASE pay = 100
  <2>1. (pay - each) * q = 100 * q - each * q
    BY <1>1, <1>8
  <2>2. \A a, b \in Int : a <= b => a * q <= b * q
    BY <1>1
  <2>3. (pay - each) * q <= most * q
    BY <1>1, <1>8, <2>2
  <2> QED
    BY <1>1, <1>4, <1>5, <1>6, <2>1, <2>3
<1> QED
  BY <1>2, <1>7, <1>8

\* The clock of the ledger and the stop a create call has passed.
LEMMA LedgerInvStep ==
    ASSUME TypeOK, LedgerInv, [Next]_vars
    PROVE  LedgerInv'
<1> USE DEF Ledger!Stopped
<1>0. /\ dailyPnl \in [Day -> Int] /\ today \in Day /\ now \in Day
      /\ \A d \in Day : d \in Int
  BY DEF TypeOK, MemoryTypeOK, ControlTypeOK, WorldTypeOK, Day
<1>1. ASSUME UNCHANGED <<dailyPnl, today>>, now' \in {0, now, today},
             pc' = "creating" => pc = "creating"
      PROVE  LedgerInv'
  BY <1>0, <1>1 DEF LedgerInv, Day
<1>2. ASSUME NEW c \in Cid, NEW t \in Ticker, NEW s \in Side, BeginSubmit(c, t, s)
      PROVE  LedgerInv'
  <2>1. UNCHANGED <<dailyPnl, today, now>> /\ dailyPnl[today] > -StopLoss
    BY <1>2 DEF BeginSubmit, RiskApproves, ledger
  <2> QED
    BY <1>0, <2>1 DEF LedgerInv
<1>3. CASE CreateReply
  <2>1. UNCHANGED <<dailyPnl, today, now>> /\ pc = "creating"
    BY <1>3 DEF CreateReply, CreateAnswered, CreateRefused, CreateReplyLost, ledger
  <2> QED
    BY <1>1, <2>1
<1>4. CASE Poll
  <2>1. UNCHANGED <<dailyPnl, today, now>> /\ pc' # "creating"
    BY <1>4 DEF Poll, PollStart, CancelDone, CancelRaised, PollFills, ApplyFill,
                memory, ledger
  <2> QED
    BY <1>1, <2>1
<1>5. CASE \E t \in Ticker : ReconcileStart(t)
  <2>1. UNCHANGED <<dailyPnl, today>> /\ now' = today /\ pc' # "creating"
    BY <1>5 DEF ReconcileStart, ledger
  <2> QED
    BY <1>1, <2>1
<1>6. CASE \E c \in Cid : SettleRaised(c)
  <2>1. UNCHANGED <<dailyPnl, today>> /\ now' = 0 /\ pc' # "creating"
    BY <1>6 DEF SettleRaised, memory, ledger
  <2> QED
    BY <1>1, <2>1
<1>7. ASSUME NEW c \in Cid, SettleOne(c)
      PROVE  LedgerInv'
  <2> DEFINE gain == Pnl(c, market[ticker[c]])
  <2>1. /\ dailyPnl' = [dailyPnl EXCEPT ![now] = @ + gain]
        /\ today' = today /\ now' \in {0, now} /\ pc' # "creating"
    BY <1>7 DEF SettleOne
  <2> HIDE DEF gain
  <2>2. \A d \in Day : d > today => dailyPnl'[d] = 0
    BY <1>0, <2>1 DEF LedgerInv
  <2> QED
    BY <1>0, <2>1, <2>2 DEF LedgerInv, Day
<1>8. CASE NewDay
  <2>1. /\ UNCHANGED <<dailyPnl, now, pc>> /\ today' = today + 1 /\ today' \in Day
    BY <1>0, <1>8 DEF NewDay, memory, ledger, control, Day
  <2>2. dailyPnl'[today'] = 0
    BY <1>0, <2>1 DEF LedgerInv
  <2> QED
    BY <1>0, <2>1, <2>2 DEF LedgerInv
<1>9. CASE Restart
  <2>1. /\ dailyPnl' = [d \in Day |-> 0] /\ now' = 0 /\ pc' = "idle" /\ today' = today
    BY <1>9 DEF Restart
  <2> QED
    BY <1>0, <2>1 DEF LedgerInv, Day
<1>10. CASE \/ \E c \in Cid, q \in 1..Size : XFill(c, q)
            \/ \E t \in Ticker, o \in Outcome : XResolve(t, o)
            \/ \E c \in Cid : Age(c)
            \/ FlipKill
            \/ \E t \in Ticker : FlipAsset(t)
            \/ UNCHANGED vars
  <2>1. UNCHANGED <<dailyPnl, today, now, pc>>
    BY <1>10 DEF XFill, XResolve, Age, FlipKill, FlipAsset, vars, memory, control, ledger
  <2> QED
    BY <1>1, <2>1
<1> QED
  BY <1>2, <1>3, <1>4, <1>5, <1>6, <1>7, <1>8, <1>9, <1>10
     DEF Next, Submit, Settle, Environment

\* Every step of the executor is one of the ledger, or leaves it alone.
LEMMA LedgerStep ==
    ASSUME IInv, LedgerInv, [Next]_vars
    PROVE  [Ledger!Next]_(Ledger!vars)
<1>0. TypeOK /\ Bookkeeping /\ RoomForCurrent
  BY DEF IInv
<1>1. /\ status \in [Cid -> {"none", "creating", "resting", "filled", "canceled",
                             "failed", "lost"}]
      /\ resting \subseteq Cid /\ filled \subseteq Cid /\ settled \subseteq Cid
      /\ todo \subseteq Cid
      /\ dailyPnl \in [Day -> Int] /\ today \in Day /\ now \in Day
  BY <1>0 DEF TypeOK, MemoryTypeOK, ControlTypeOK, WorldTypeOK
<1> USE DEF Ledger!vars
<1>2. ASSUME NEW c \in Cid, NEW t \in Ticker, NEW s \in Side, BeginSubmit(c, t, s)
      PROVE  UNCHANGED Ledger!vars
  BY <1>0, <1>1, <1>2 DEF BeginSubmit, FreshId, ledger, Bookkeeping, Stands
<1>3. ASSUME NEW withId \in BOOLEAN, NEW ok \in BOOLEAN, CreateAnswered(withId, ok)
      PROVE  Ledger!Next
  <2>1. cur \in Cid /\ status[cur] = "creating" /\ pc = "creating"
    BY <1>0, <1>3 DEF CreateAnswered, TypeOK, ControlTypeOK, Bookkeeping
  <2>2. Cardinality(Ledger!In({"held"})) < MaxOpen
    BY <1>0, <2>1, HeldIsOpen DEF RoomForCurrent
  <2>3. ~Ledger!Stopped(today)
    BY <2>1 DEF LedgerInv
  <2>4. Stands[cur] = "new"
    BY <1>0, <2>1 DEF Bookkeeping, Stands
  <2>5. Stands' = [c \in Cid |-> IF c \in {cur} THEN "held" ELSE Stands[c]]
    BY <1>0, <1>1, <1>3, <2>1 DEF CreateAnswered, ledger, Bookkeeping, Stands
  <2>6. UNCHANGED <<dailyPnl, today>>
    BY <1>3 DEF CreateAnswered, ledger
  <2>7. Ledger!Take(cur)
    BY <2>2, <2>3, <2>4, <2>5, <2>6, LedgerCounts DEF Ledger!Take, Ledger!Moved
  <2> QED
    BY <2>1, <2>7 DEF Ledger!Next
<1>4. CASE CreateRefused \/ CreateReplyLost
  <2>1. cur \in Cid /\ status[cur] = "creating" /\ pc = "creating"
    BY <1>0, <1>4 DEF CreateRefused, CreateReplyLost, TypeOK, ControlTypeOK, Bookkeeping
  <2>2. /\ UNCHANGED <<resting, filled, settled, todo, dailyPnl, today>>
        /\ AttemptFailed
    BY <1>4 DEF CreateRefused, CreateReplyLost, ledger
  <2> QED
    BY <1>0, <1>1, <2>1, <2>2 DEF AttemptFailed, Bookkeeping, Stands
<1>5. ASSUME NEW c \in Cid, NEW ok \in BOOLEAN, CancelDone(c, ok)
      PROVE  Ledger!Next
  <2>1. c \in resting /\ pc = "canceling" /\ status[c] = "resting"
    BY <1>0, <1>5 DEF CancelDone, Bookkeeping
  <2>2. /\ UNCHANGED <<filled, settled, dailyPnl, today>> /\ pc' # "settling"
        /\ resting' = resting \ {c} /\ status' = [status EXCEPT ![c] = "canceled"]
    BY <1>5 DEF CancelDone, ledger
  <2>3. Stands' = [p \in Cid |-> IF p \in {c} THEN "dropped" ELSE Stands[p]]
    BY <1>0, <1>1, <2>1, <2>2 DEF Bookkeeping, Stands
  <2>4. Ledger!Cancel(c)
    BY <2>1, <2>2, <2>3 DEF Ledger!Cancel, Ledger!Moved, Stands
  <2> QED
    BY <2>4 DEF Ledger!Next
<1>6. ASSUME NEW f \in xfills, NEW ok \in BOOLEAN, ApplyFill(f, ok)
      PROVE  UNCHANGED Ledger!vars
  <2>1. UNCHANGED <<settled, todo, dailyPnl, today>> /\ pc # "settling" /\ pc' # "settling"
    BY <1>6 DEF ApplyFill, ledger
  <2>2. CASE f[1] \in resting
    <3>1. /\ resting' = resting \ {f[1]} /\ filled' = filled \cup {f[1]}
          /\ status' = [status EXCEPT ![f[1]] = "filled"]
      BY <1>6, <2>2 DEF ApplyFill
    <3> QED
      BY <1>0, <1>1, <2>1, <2>2, <3>1 DEF Bookkeeping, Stands
  <2>3. CASE f[1] \notin resting
    BY <1>6, <2>1, <2>3 DEF ApplyFill, Stands
  <2> QED
    BY <2>2, <2>3
<1>7. ASSUME NEW t \in Ticker, ReconcileStart(t)
      PROVE  Ledger!Next
  <2> DEFINE F == Of(t, filled)
  <2>1. F # {} /\ F \subseteq filled
    BY <1>7 DEF ReconcileStart, Of
  <2>2. /\ UNCHANGED <<status, resting, settled, dailyPnl, today>>
        /\ pc = "idle" /\ pc' = "settling" /\ todo' = F /\ filled' = filled \ F
    BY <1>7 DEF ReconcileStart, Popped, orders, ledger
  <2> HIDE DEF F
  <2>3. F \in SUBSET Ledger!In({"held"})
    BY <1>1, <2>1 DEF Ledger!In, Stands
  <2>4. \A c \in F : c \notin resting /\ c \notin settled
    BY <1>0, <2>1 DEF Bookkeeping
  <2>5. Stands' = [c \in Cid |-> IF c \in F THEN "due" ELSE Stands[c]]
    BY <2>1, <2>2, <2>4 DEF Stands
  <2>6. Ledger!Pop(F)
    BY <2>1, <2>2, <2>3, <2>5 DEF Ledger!Pop, Ledger!Moved
  <2> QED
    BY <2>3, <2>6 DEF Ledger!Next
<1>8. ASSUME NEW c \in Cid, SettleOne(c)
      PROVE  Ledger!Next
  <2> DEFINE gain == Pnl(c, market[ticker[c]])
  <2>1. pc = "settling" /\ c \in todo
    BY <1>8 DEF SettleOne
  <2>2. /\ UNCHANGED <<status, resting, filled, today>>
        /\ settled' = settled \cup {c} /\ todo' = todo \ {c}
        /\ todo' # {} => pc' = "settling"
        /\ dailyPnl' = [dailyPnl EXCEPT ![now] = @ + gain]
    BY <1>8 DEF SettleOne, orders
  <2>3. gain \in Ledger!Gains(1)
    BY <1>0, PnlIsAGain
  <2> HIDE DEF gain
  <2>4. \A p \in todo : p \notin resting \cup filled \cup settled
    BY <1>0, <1>1, <2>1 DEF Bookkeeping
  <2>5. {c} \in SUBSET Ledger!In({"held", "due"})
    BY <2>1, <2>4 DEF Ledger!In, Stands
  <2>6. Stands' = [p \in Cid |-> IF p \in {c} THEN "settled"
                                 ELSE IF p \in {c} THEN "dropped"
                                 ELSE Stands[p]]
    BY <2>1, <2>2, <2>4 DEF Stands
  <2>7. now \in 0..today
    BY <1>1 DEF LedgerInv, Day
  <2>8. Cardinality({c}) = 1
    BY FS_Singleton
  <2>9. Ledger!Realize({c}, {c})
    BY <2>2, <2>3, <2>5, <2>6, <2>7, <2>8, LedgerCounts DEF Ledger!Realize
  <2> QED
    BY <2>5, <2>9 DEF Ledger!Next
<1>9. ASSUME NEW c \in Cid, SettleRaised(c)
      PROVE  Ledger!Next
  <2>1. pc = "settling" /\ c \in todo
    BY <1>9 DEF SettleRaised
  <2>2. /\ UNCHANGED <<status, resting, filled, settled, dailyPnl, today>> /\ pc' = "idle"
    BY <1>9 DEF SettleRaised, memory, orders, ledger
  <2>3. \A p \in todo : /\ p \notin resting \cup filled \cup settled
                        /\ status[p] = "filled"
    BY <1>0, <1>1, <2>1 DEF Bookkeeping
  <2>4. todo \in SUBSET Ledger!In({"held", "due"})
    BY <1>1, <2>1, <2>3 DEF Ledger!In, Stands
  <2>5. Stands' = [p \in Cid |-> IF p \in {} THEN "settled"
                                 ELSE IF p \in todo THEN "dropped"
                                 ELSE Stands[p]]
    BY <2>1, <2>2, <2>3 DEF Stands
  <2>6. \E d \in 0..today, g \in Ledger!Gains(0) : dailyPnl' = [dailyPnl EXCEPT ![d] = @ + g]
    <3>1. 0 \in Ledger!Gains(0)
      BY DEF Ledger!Gains, WorstOfOrder, BestOfOrder
    <3>2. today \in 0..today
      BY <1>1 DEF Day
    <3>3. dailyPnl' = [dailyPnl EXCEPT ![today] = @ + 0]
      BY <1>1, <2>2
    <3> QED
      BY <3>1, <3>2, <3>3
  <2>7. Cardinality({}) = 0
    BY FS_EmptySet
  <2>8. Ledger!Realize(todo, {})
    BY <2>1, <2>2, <2>4, <2>5, <2>6, <2>7, LedgerCounts DEF Ledger!Realize
  <2> QED
    BY <2>4, <2>8 DEF Ledger!Next
<1>10. CASE NewDay
  <2>1. UNCHANGED <<Stands, dailyPnl>>
    BY <1>10 DEF NewDay, memory, orders, ledger, control, Stands
  <2>2. Ledger!NewDay
    BY <1>10, <2>1 DEF NewDay, Ledger!NewDay
  <2> QED
    BY <2>2 DEF Ledger!Next
<1>11. CASE Restart
  <2>1. Stands' = [c \in Cid |-> IF status[c] \in {"none", "failed"} THEN "new"
                                 ELSE "dropped"]
    BY <1>1, <1>11 DEF Restart, Stands
  <2>2. \A c \in Cid : Stands[c] # "new" => status[c] \notin {"none", "failed"}
    BY <1>0, <1>1 DEF Bookkeeping, Stands
  <2>3. dailyPnl' = [d \in Day |-> 0] /\ UNCHANGED today
    BY <1>11 DEF Restart
  <2>4. Ledger!Forget
    BY <2>1, <2>2, <2>3 DEF Ledger!Forget, Ledger!Day, Day
  <2> QED
    BY <2>4 DEF Ledger!Next
<1>12. CASE \/ PollStart
            \/ \E c \in Cid : CancelRaised(c)
            \/ \E got \in {{}, xfills} : PollFills(got)
  <2>1. /\ UNCHANGED <<status, resting, filled, settled, dailyPnl, today>>
        /\ pc # "settling" /\ pc' # "settling"
    BY <1>12 DEF PollStart, CancelRaised, PollFills, memory, orders, ledger
  <2> QED
    BY <2>1 DEF Stands
<1>13. CASE \/ \E c \in Cid, q \in 1..Size : XFill(c, q)
            \/ \E t \in Ticker, o \in Outcome : XResolve(t, o)
            \/ \E c \in Cid : Age(c)
            \/ FlipKill
            \/ \E t \in Ticker : FlipAsset(t)
            \/ UNCHANGED vars
  <2>1. UNCHANGED <<status, resting, filled, settled, pc, todo, dailyPnl, today>>
    BY <1>13 DEF XFill, XResolve, Age, FlipKill, FlipAsset, vars, memory, orders, control,
                 ledger
  <2> QED
    BY <2>1 DEF Stands
<1> QED
  BY <1>2, <1>3, <1>4, <1>5, <1>6, <1>7, <1>8, <1>9, <1>10, <1>11, <1>12, <1>13
     DEF Next, Submit, CreateReply, Poll, Settle, Environment

\* The live executor implements PositionLedger under every fault: an order is
\* taken below the cap and the daily stop, is canceled, settled once or never,
\* for no more than it can yield.
THEOREM LiveKeepsLedger == Spec => LedgerKept
<1>1. Init => Ledger!Init /\ LedgerInv
  BY DEF Init, Ledger!Init, Ledger!Day, Day, Stands, LedgerInv
<1>2. IInv /\ LedgerInv /\ [Next]_vars => LedgerInv' /\ [Ledger!Next]_(Ledger!vars)
  BY LedgerInvStep, LedgerStep DEF IInv
<1> QED
  BY <1>1, <1>2, Invariant, PTL DEF Spec, LedgerKept, Ledger!Spec

-----------------------------------------------------------------------------
(* What a day can lose.                                                    *)

\* Products with the worst loss of an order.
LEMMA WorstTimes ==
    /\ WorstOfOrder \in Nat /\ WorstOfOrder * 0 = 0
    /\ \A a, b \in Nat : /\ WorstOfOrder * a \in Nat
                         /\ a <= b => WorstOfOrder * a <= WorstOfOrder * b
    /\ \A a \in Nat : WorstOfOrder * (a + 1) = WorstOfOrder * a + WorstOfOrder
<1> DEFINE w == WorstOfOrder
<1>1. w \in Nat
  <2>1. \A a, b \in Nat : a * b \in Nat
    OBVIOUS
  <2> QED
    BY <2>1 DEF WorstOfOrder
<1> HIDE DEF w
<1>2. /\ w * 0 = 0
      /\ \A a, b \in Nat : w * a \in Nat /\ (a <= b => w * a <= w * b)
      /\ \A a \in Nat : w * (a + 1) = w * a + w
  BY <1>1
<1> QED
  BY <1>1, <1>2 DEF w

\* Sets of orders can be counted.
LEMMA Counts ==
    \A S \in SUBSET Cid : IsFiniteSet(S) /\ Cardinality(S) \in Nat
BY FS_Subset, FS_CardinalityType

\* A step that books nothing, holds no more orders and begins nothing keeps the
\* bound.
LEMMA LossKept ==
    ASSUME TypeOK, TypeOK', LossInv, UNCHANGED <<dailyPnl, today>>,
           OpenPositions' + DueOrders' <= OpenPositions + DueOrders,
           pc' = "settling" => pc = "settling" /\ now' = now /\ DueOrders' <= DueOrders,
           pc' = "creating" => pc = "creating"
    PROVE  LossInv'
<1> DEFINE m == OpenPositions + DueOrders
           n == OpenPositions' + DueOrders'
           bound == StopLoss + WorstOfOrder * MaxOpen
<1>1. m \in Nat /\ n \in Nat /\ DueOrders \in Nat /\ DueOrders' \in Nat
  <2>1. OpenPositions \in Nat /\ DueOrders \in Nat
    BY Counts DEF TypeOK, MemoryTypeOK, ControlTypeOK, OpenPositions, DueOrders
  <2>2. OpenPositions' \in Nat /\ DueOrders' \in Nat
    <3>1. /\ resting' \in SUBSET Cid /\ filled' \in SUBSET Cid /\ todo' \in SUBSET Cid
      BY DEF TypeOK, MemoryTypeOK, ControlTypeOK
    <3>2. /\ Cardinality(resting') \in Nat /\ Cardinality(filled') \in Nat
          /\ Cardinality(todo') \in Nat
      BY <3>1, Counts
    <3> QED
      BY <3>2 DEF OpenPositions, DueOrders
  <2>3. \A a, b \in Nat : a + b \in Nat
    OBVIOUS
  <2> QED
    BY <2>1, <2>2, <2>3
<1>2. n <= m /\ WorstOfOrder * n <= WorstOfOrder * m
      /\ (DueOrders' <= DueOrders => WorstOfOrder * DueOrders' <= WorstOfOrder * DueOrders)
      /\ WorstOfOrder * n \in Nat /\ WorstOfOrder * m \in Nat
      /\ WorstOfOrder * DueOrders \in Nat /\ WorstOfOrder * DueOrders' \in Nat
  BY <1>1, WorstTimes
<1>3. /\ bound \in Int /\ dailyPnl \in [Day -> Int] /\ today \in Day /\ now \in Day
  BY WorstTimes DEF TypeOK, MemoryTypeOK, ControlTypeOK, WorldTypeOK
<1>4. /\ m <= MaxOpen /\ WorstOfOrder * m - dailyPnl[today] < bound
      /\ pc = "settling" =>
            /\ WorstOfOrder * DueOrders - dailyPnl[now] < bound
            /\ \A d \in Day : d > now => dailyPnl[d] = 0
      /\ pc = "creating" => dailyPnl[today] > -StopLoss
      /\ DayLossBounded
  BY DEF LossInv
<1>5. WorstOfOrder' = WorstOfOrder
  BY DEF WorstOfOrder
<1> HIDE DEF m, bound
<1>6. n <= MaxOpen /\ WorstOfOrder * n - dailyPnl'[today'] < bound
  BY <1>1, <1>2, <1>3, <1>4
<1>7. pc' = "settling" =>
            /\ WorstOfOrder * DueOrders' - dailyPnl'[now'] < bound
            /\ \A d \in Day : d > now' => dailyPnl'[d] = 0
  BY <1>1, <1>2, <1>3, <1>4
<1>8. pc' = "creating" => dailyPnl'[today'] > -StopLoss
  BY <1>4
<1>9. DayLossBounded'
  BY <1>4 DEF DayLossBounded, WorstOfOrder
<1> QED
  BY <1>5, <1>6, <1>7, <1>8, <1>9 DEF LossInv, bound

\* Taking an order: the day is not stopped and the cap leaves room for it.
LEMMA LossOfCreate ==
    ASSUME IInv, IInv', LossInv, StopLoss > 0,
           NEW withId \in BOOLEAN, NEW ok \in BOOLEAN, CreateAnswered(withId, ok)
    PROVE  LossInv'
<1>1. /\ pc = "creating" /\ pc' = "idle" /\ UNCHANGED <<dailyPnl, today>>
  BY DEF CreateAnswered, ledger
<1>2. DueOrders' = 0
  BY <1>1 DEF DueOrders
<1>3. OpenPositions' \in Nat /\ OpenPositions' <= MaxOpen
  <2>1. resting' \in SUBSET Cid /\ filled' \in SUBSET Cid
    BY DEF IInv, TypeOK, MemoryTypeOK
  <2>2. Cardinality(resting') \in Nat /\ Cardinality(filled') \in Nat
    BY <2>1, Counts
  <2>3. OpenPositions' <= MaxOpen
    BY DEF IInv, OpenPositionCap
  <2>4. OpenPositions' = Cardinality(resting') + Cardinality(filled')
    BY DEF OpenPositions
  <2> QED
    BY <2>2, <2>3, <2>4
<1>4. dailyPnl[today] \in Int /\ dailyPnl[today] > -StopLoss
  BY <1>1 DEF IInv, TypeOK, MemoryTypeOK, WorldTypeOK, LossInv
<1>5. /\ WorstOfOrder * OpenPositions' <= WorstOfOrder * MaxOpen
      /\ WorstOfOrder * OpenPositions' \in Nat /\ WorstOfOrder * MaxOpen \in Nat
  BY <1>3, WorstTimes
<1>6. WorstOfOrder * (OpenPositions' + DueOrders') - dailyPnl'[today']
         < StopLoss + WorstOfOrder * MaxOpen
  <2>1. \A m \in Nat : m + 0 = m
    OBVIOUS
  <2>2. OpenPositions' + DueOrders' = OpenPositions'
    BY <1>2, <1>3, <2>1
  <2> QED
    BY <1>1, <1>4, <1>5, <2>2
<1>7. OpenPositions' + DueOrders' <= MaxOpen
  <2>1. \A m \in Nat : m + 0 = m
    OBVIOUS
  <2> QED
    BY <1>2, <1>3, <2>1
<1>8. DayLossBounded'
  BY <1>1 DEF LossInv, DayLossBounded, WorstOfOrder
<1> QED
  BY <1>1, <1>6, <1>7, <1>8 DEF LossInv, WorstOfOrder

\* Popping the orders of a market moves them from open to due.
LEMMA LossOfPop ==
    ASSUME IInv, IInv', LossInv, LedgerInv, NEW t \in Ticker, ReconcileStart(t)
    PROVE  LossInv'
<1>1. /\ pc = "idle" /\ pc' = "settling" /\ now' = today
      /\ todo' = Of(t, filled) /\ filled' = filled \ Of(t, filled)
      /\ UNCHANGED <<resting, dailyPnl, today>>
  BY DEF ReconcileStart, Popped, ledger
<1>2. DueOrders = 0 /\ DueOrders' = Cardinality(todo')
  BY <1>1 DEF DueOrders
<1>3. /\ Cardinality(resting) \in Nat /\ Cardinality(filled) \in Nat
      /\ Cardinality(filled') \in Nat /\ Cardinality(todo') \in Nat
      /\ Cardinality(filled) = Cardinality(filled') + Cardinality(todo')
  <2>1. resting \in SUBSET Cid /\ filled \in SUBSET Cid
    BY DEF IInv, TypeOK, MemoryTypeOK
  <2>2. /\ filled' \in SUBSET Cid /\ todo' \in SUBSET Cid
        /\ filled' \cup todo' = filled /\ filled' \cap todo' = {}
    BY <1>1, <2>1 DEF Of
  <2>3. /\ IsFiniteSet(filled') /\ IsFiniteSet(todo')
        /\ Cardinality(resting) \in Nat /\ Cardinality(filled) \in Nat
        /\ Cardinality(filled') \in Nat /\ Cardinality(todo') \in Nat
    BY <2>1, <2>2, Counts
  <2>4. Cardinality(filled' \cup todo') = Cardinality(filled') + Cardinality(todo')
                                            - Cardinality(filled' \cap todo')
    BY <2>3, FS_Union
  <2>5. Cardinality(filled' \cap todo') = 0
    BY <2>2, FS_EmptySet
  <2>6. \A a, b, m, e \in Nat : m = a + b - e /\ e = 0 => m = a + b
    OBVIOUS
  <2>7. Cardinality(filled) = Cardinality(filled') + Cardinality(todo')
                                - Cardinality(filled' \cap todo')
    BY <2>2, <2>4
  <2> QED
    BY <2>3, <2>5, <2>6, <2>7
<1>4. /\ OpenPositions' \in Nat /\ DueOrders' \in Nat /\ OpenPositions \in Nat
      /\ OpenPositions' + DueOrders' = OpenPositions + DueOrders
  BY <1>1, <1>2, <1>3 DEF OpenPositions
<1>5. /\ WorstOfOrder * DueOrders' <= WorstOfOrder * (OpenPositions' + DueOrders')
      /\ WorstOfOrder * DueOrders' \in Nat /\ WorstOfOrder * MaxOpen \in Nat
      /\ WorstOfOrder * (OpenPositions' + DueOrders') \in Nat
  <2>1. OpenPositions' + DueOrders' \in Nat /\ DueOrders' <= OpenPositions' + DueOrders'
    <3>1. \A a, b \in Nat : a + b \in Nat /\ b <= a + b
      OBVIOUS
    <3> QED
      BY <1>4, <3>1
  <2> QED
    BY <1>4, <2>1, WorstTimes
<1>6. dailyPnl[today] \in Int
  BY DEF IInv, TypeOK, MemoryTypeOK, WorldTypeOK
<1>7. /\ OpenPositions' + DueOrders' <= MaxOpen
      /\ WorstOfOrder * (OpenPositions' + DueOrders') - dailyPnl'[today']
            < StopLoss + WorstOfOrder * MaxOpen
  BY <1>1, <1>4 DEF LossInv
<1>8. WorstOfOrder * DueOrders' - dailyPnl'[now'] < StopLoss + WorstOfOrder * MaxOpen
  BY <1>1, <1>5, <1>6, <1>7
<1>9. \A d \in Day : d > now' => dailyPnl'[d] = 0
  BY <1>1 DEF LedgerInv
<1>10. DayLossBounded'
  BY <1>1 DEF LossInv, DayLossBounded, WorstOfOrder
<1> QED
  BY <1>1, <1>7, <1>8, <1>9, <1>10 DEF LossInv, WorstOfOrder

\* Settling one order costs at most its worst loss, on the day of the reconcile.
LEMMA LossOfSettle ==
    ASSUME IInv, IInv', LossInv, LedgerInv, StopLoss > 0, NEW c \in Cid, SettleOne(c)
    PROVE  LossInv'
<1> DEFINE gain == Pnl(c, market[ticker[c]])
           k == DueOrders
           n == OpenPositions
           limit == StopLoss + WorstOfOrder * MaxOpen
<1>1. /\ pc = "settling" /\ c \in todo /\ todo' = todo \ {c}
      /\ dailyPnl' = [dailyPnl EXCEPT ![now] = @ + gain]
      /\ IF todo' = {} THEN pc' = "idle" ELSE pc' = "settling" /\ now' = now
      /\ UNCHANGED <<resting, filled, today>>
  BY DEF SettleOne
<1>2. n \in Nat /\ k \in Nat /\ OpenPositions' = n /\ k = DueOrders' + 1 /\ DueOrders' \in Nat
  <2>1. /\ resting \in SUBSET Cid /\ filled \in SUBSET Cid /\ todo \in SUBSET Cid
        /\ todo' \in SUBSET Cid
    BY <1>1 DEF IInv, TypeOK, MemoryTypeOK, ControlTypeOK
  <2>2. /\ IsFiniteSet(todo) /\ Cardinality(resting) \in Nat /\ Cardinality(filled) \in Nat
        /\ Cardinality(todo) \in Nat /\ Cardinality(todo') \in Nat
    BY <2>1, Counts
  <2>3. Cardinality(todo \ {c}) = Cardinality(todo) - 1
    BY <1>1, <2>2, FS_RemoveElement
  <2>4. DueOrders' = Cardinality(todo')
    <3>1. todo' = {} => Cardinality(todo') = 0
      BY FS_EmptySet
    <3> QED
      BY <1>1, <3>1 DEF DueOrders
  <2>5. k = Cardinality(todo) /\ OpenPositions' = n /\ n \in Nat
    BY <1>1, <2>2 DEF DueOrders, OpenPositions
  <2> QED
    BY <1>1, <2>2, <2>3, <2>4, <2>5
<1>3. gain \in Int /\ gain >= -WorstOfOrder
  <2>1. gain \in Ledger!Gains(1)
    BY PnlIsAGain DEF IInv
  <2>2. Ledger!Gains(1) = -(WorstOfOrder * 1)..(BestOfOrder * 1)
    BY DEF Ledger!Gains
  <2>3. WorstOfOrder * 1 = WorstOfOrder /\ BestOfOrder * 1 \in Int
    BY WorstTimes DEF BestOfOrder
  <2> QED
    BY <2>1, <2>2, <2>3, WorstTimes
<1>4. /\ dailyPnl \in [Day -> Int] /\ now \in Day /\ today \in Day /\ now <= today
      /\ \A d \in Day : d \in Int
  BY DEF IInv, TypeOK, MemoryTypeOK, ControlTypeOK, WorldTypeOK, LedgerInv, Day
<1>5. /\ n + k <= MaxOpen
      /\ WorstOfOrder * (n + k) - dailyPnl[today] < limit
      /\ WorstOfOrder * k - dailyPnl[now] < limit
      /\ \A d \in Day : d > now => dailyPnl[d] = 0
      /\ \A d \in Day : -dailyPnl[d] < limit
  BY <1>1 DEF LossInv, DayLossBounded
<1>6. /\ WorstOfOrder \in Nat /\ WorstOfOrder * MaxOpen \in Nat
      /\ WorstOfOrder * k \in Nat /\ WorstOfOrder * DueOrders' \in Nat
      /\ WorstOfOrder * k = WorstOfOrder * DueOrders' + WorstOfOrder
  BY <1>2, WorstTimes
<1>7. /\ WorstOfOrder * (n + k) = WorstOfOrder * (n + DueOrders') + WorstOfOrder
      /\ WorstOfOrder * (n + DueOrders') \in Nat
      /\ WorstOfOrder * (n + DueOrders') <= WorstOfOrder * MaxOpen
  <2>1. /\ n + DueOrders' \in Nat /\ n + k = (n + DueOrders') + 1
        /\ n + DueOrders' <= MaxOpen
    <3>1. \A a, e, l \in Nat : a + (e + 1) <= l =>
             a + e \in Nat /\ a + (e + 1) = (a + e) + 1 /\ a + e <= l
      OBVIOUS
    <3>2. n + (DueOrders' + 1) <= MaxOpen /\ MaxOpen \in Nat
      BY <1>2, <1>5
    <3> QED
      BY <1>2, <3>1, <3>2
  <2> QED
    BY <2>1, WorstTimes
<1> HIDE DEF gain, k, n
<1>8. /\ dailyPnl'[now] = dailyPnl[now] + gain
      /\ \A d \in Day : d # now => dailyPnl'[d] = dailyPnl[d]
      /\ \A d \in Day : dailyPnl[d] \in Int
  BY <1>1, <1>3, <1>4
<1>9. WorstOfOrder * DueOrders' - dailyPnl'[now] < limit
  BY <1>3, <1>4, <1>5, <1>6, <1>8
<1>10. WorstOfOrder * (n + DueOrders') - dailyPnl'[today] < limit
  <2>1. CASE now = today
    BY <1>3, <1>4, <1>5, <1>6, <1>7, <1>8, <2>1
  <2>2. CASE now # today
    <3>1. today > now
      BY <1>4, <2>2
    <3>2. dailyPnl'[today] = 0
      BY <1>4, <1>5, <1>8, <2>2, <3>1
    <3> QED
      BY <1>6, <1>7, <3>2
  <2> QED
    BY <2>1, <2>2
<1>11. \A d \in Day : -dailyPnl'[d] < limit
  <2>1. -dailyPnl'[now] < limit
    BY <1>3, <1>4, <1>6, <1>8, <1>9
  <2> QED
    BY <1>5, <1>8, <2>1
<1>12. \A d \in Day : d > now => dailyPnl'[d] = 0
  <2>1. \A d \in Day : d > now => d # now
    BY <1>4
  <2> QED
    BY <1>5, <1>8, <2>1
<1>13. n + DueOrders' <= MaxOpen
  <2>1. \A a, b, e, l \in Nat : b = e + 1 /\ a + b <= l => a + e <= l
    OBVIOUS
  <2> QED
    BY <1>2, <1>5, <2>1
<1>14. OpenPositions' = n /\ WorstOfOrder' = WorstOfOrder /\ pc' # "creating"
  BY <1>1, <1>2 DEF WorstOfOrder
<1> QED
  BY <1>1, <1>9, <1>10, <1>11, <1>12, <1>13, <1>14 DEF LossInv, DayLossBounded

\* Orders that are canceled or filled leave no more of them open.
LEMMA OpenOfPoll ==
    ASSUME TypeOK, Bookkeeping,
           \/ \E c \in Cid, ok \in BOOLEAN : CancelDone(c, ok)
           \/ \E f \in xfills, ok \in BOOLEAN : ApplyFill(f, ok)
    PROVE  OpenPositions' <= OpenPositions /\ OpenPositions' \in Nat
<1>1. resting \in SUBSET Cid /\ filled \in SUBSET Cid /\ resting \cap filled = {}
  BY DEF TypeOK, MemoryTypeOK, Bookkeeping
<1>2. /\ IsFiniteSet(resting) /\ IsFiniteSet(filled)
      /\ Cardinality(resting) \in Nat /\ Cardinality(filled) \in Nat
  BY <1>1, Counts
<1>3. ASSUME NEW c \in resting
      PROVE  /\ Cardinality(resting \ {c}) = Cardinality(resting) - 1
             /\ Cardinality(filled \cup {c}) = Cardinality(filled) + 1
             /\ Cardinality(resting \ {c}) \in Nat
  <2>1. c \notin filled /\ resting \ {c} \in SUBSET Cid
    BY <1>1
  <2> QED
    BY <1>2, <2>1, Counts, FS_RemoveElement, FS_AddElement
<1>4. ASSUME NEW c \in Cid, NEW ok \in BOOLEAN, CancelDone(c, ok)
      PROVE  OpenPositions' <= OpenPositions /\ OpenPositions' \in Nat
  <2>1. c \in resting
    BY <1>4 DEF CancelDone, Bookkeeping
  <2>2. resting' = resting \ {c} /\ filled' = filled
    BY <1>4 DEF CancelDone
  <2>3. /\ Cardinality(resting') = Cardinality(resting) - 1
        /\ Cardinality(resting') \in Nat /\ Cardinality(filled') = Cardinality(filled)
    BY <1>3, <2>1, <2>2
  <2> QED
    BY <1>2, <2>3 DEF OpenPositions
<1>5. ASSUME NEW f \in xfills, NEW ok \in BOOLEAN, ApplyFill(f, ok)
      PROVE  OpenPositions' <= OpenPositions /\ OpenPositions' \in Nat
  <2>1. CASE f[1] \in resting
    <3>1. resting' = resting \ {f[1]} /\ filled' = filled \cup {f[1]}
      BY <1>5, <2>1 DEF ApplyFill
    <3> QED
      BY <1>2, <1>3, <2>1, <3>1 DEF OpenPositions
  <2>2. CASE f[1] \notin resting
    BY <1>2, <1>5, <2>2 DEF ApplyFill, OpenPositions
  <2> QED
    BY <2>1, <2>2
<1> QED
  BY <1>4, <1>5

\* Every step keeps the bound on what a day can lose.
LEMMA LossStep ==
    ASSUME IInv, IInv', LossInv, LedgerInv, StopLoss > 0, [Next]_vars
    PROVE  LossInv'
<1>0. TypeOK /\ TypeOK' /\ Bookkeeping
  BY DEF IInv
<1>1. /\ dailyPnl \in [Day -> Int] /\ today \in Day /\ MaxOpen \in Nat
      /\ WorstOfOrder * MaxOpen \in Nat /\ WorstOfOrder * 0 = 0
  BY <1>0, WorstTimes DEF TypeOK, MemoryTypeOK, WorldTypeOK
<1>2. OpenPositions \in Nat /\ DueOrders \in Nat
  BY <1>0, Counts DEF TypeOK, MemoryTypeOK, ControlTypeOK, OpenPositions, DueOrders
<1>3. ASSUME UNCHANGED <<dailyPnl, today, resting, filled, pc, todo, now>>
      PROVE  LossInv'
  <2>1. OpenPositions' = OpenPositions /\ DueOrders' = DueOrders
    BY <1>3 DEF OpenPositions, DueOrders
  <2>2. OpenPositions' + DueOrders' <= OpenPositions + DueOrders
    BY <1>2, <2>1
  <2>3. pc' = "settling" => pc = "settling" /\ now' = now /\ DueOrders' <= DueOrders
    BY <1>2, <1>3, <2>1
  <2> QED
    BY <1>0, <1>3, <2>2, <2>3, LossKept
<1>4. ASSUME UNCHANGED <<dailyPnl, today>>, OpenPositions' \in Nat,
             OpenPositions' <= OpenPositions, pc' \notin {"creating", "settling"}
      PROVE  LossInv'
  <2>1. DueOrders' = 0
    BY <1>4 DEF DueOrders
  <2>2. \A a, b, e \in Nat : a <= b => a + 0 <= b + e
    OBVIOUS
  <2>3. OpenPositions' + DueOrders' <= OpenPositions + DueOrders
    BY <1>2, <1>4, <2>1, <2>2
  <2> QED
    BY <1>0, <1>4, <2>3, LossKept
<1>5. ASSUME NEW c \in Cid, NEW t \in Ticker, NEW s \in Side, BeginSubmit(c, t, s)
      PROVE  LossInv'
  <2>1. /\ UNCHANGED <<dailyPnl, today, resting, filled>> /\ pc = "idle" /\ pc' = "creating"
        /\ dailyPnl[today] > -StopLoss
    BY <1>5 DEF BeginSubmit, RiskApproves, ledger
  <2>2. OpenPositions' = OpenPositions /\ DueOrders' = DueOrders
    BY <2>1 DEF OpenPositions, DueOrders
  <2> QED
    BY <2>1, <2>2 DEF LossInv, DayLossBounded, WorstOfOrder
<1>6. ASSUME NEW withId \in BOOLEAN, NEW ok \in BOOLEAN, CreateAnswered(withId, ok)
      PROVE  LossInv'
  BY <1>6, LossOfCreate
<1>7. CASE CreateRefused \/ CreateReplyLost
  <2>1. /\ UNCHANGED <<dailyPnl, today, resting, filled, now, todo>> /\ pc = "creating"
        /\ pc' \in {"idle", "creating"}
    BY <1>7 DEF CreateRefused, CreateReplyLost, AttemptFailed, ledger
  <2>2. CASE pc' = pc
    BY <1>3, <2>1, <2>2
  <2>3. CASE pc' = "idle"
    <3>1. OpenPositions' = OpenPositions
      BY <2>1 DEF OpenPositions
    <3> QED
      BY <1>2, <1>4, <2>1, <2>3, <3>1
  <2> QED
    BY <2>1, <2>2, <2>3
<1>8. CASE \/ \E c \in Cid, ok \in BOOLEAN : CancelDone(c, ok)
           \/ \E f \in xfills, ok \in BOOLEAN : ApplyFill(f, ok)
  <2>1. UNCHANGED <<dailyPnl, today>> /\ pc' \notin {"creating", "settling"}
    BY <1>8 DEF CancelDone, ApplyFill, ledger
  <2>2. OpenPositions' <= OpenPositions /\ OpenPositions' \in Nat
    BY <1>0, <1>8, OpenOfPoll
  <2> QED
    BY <1>4, <2>1, <2>2
<1>9. CASE \/ PollStart
           \/ \E c \in Cid : CancelRaised(c)
           \/ \E got \in {{}, xfills} : PollFills(got)
           \/ \E c \in Cid : SettleRaised(c)
  <2>1. /\ UNCHANGED <<dailyPnl, today, resting, filled>>
        /\ pc' \notin {"creating", "settling"}
    BY <1>9 DEF PollStart, CancelRaised, PollFills, SettleRaised, memory, ledger
  <2>2. OpenPositions' = OpenPositions
    BY <2>1 DEF OpenPositions
  <2> QED
    BY <1>2, <1>4, <2>1, <2>2
<1>10. ASSUME NEW t \in Ticker, ReconcileStart(t)
       PROVE  LossInv'
  BY <1>10, LossOfPop
<1>11. ASSUME NEW c \in Cid, SettleOne(c)
       PROVE  LossInv'
  BY <1>11, LossOfSettle
<1>12. CASE NewDay
  <2> DEFINE n == OpenPositions + DueOrders
  <2>1. /\ UNCHANGED <<dailyPnl, now, pc, todo, resting, filled>> /\ today' = today + 1
        /\ today' \in Day
    BY <1>1, <1>12 DEF NewDay, memory, ledger, control, Day
  <2>2. OpenPositions' = OpenPositions /\ DueOrders' = DueOrders
    BY <2>1 DEF OpenPositions, DueOrders
  <2>3. dailyPnl'[today'] = 0
    <3>1. today' > today
      BY <1>1, <2>1 DEF Day
    <3> QED
      BY <2>1, <3>1 DEF LedgerInv
  <2>4. n \in Nat /\ n <= MaxOpen
    BY <1>2 DEF LossInv
  <2>5. WorstOfOrder * n \in Nat /\ WorstOfOrder * n <= WorstOfOrder * MaxOpen
    BY <1>1, <2>4, WorstTimes
  <2> HIDE DEF n
  <2>6. WorstOfOrder * n - dailyPnl'[today'] < StopLoss + WorstOfOrder * MaxOpen
    BY <1>1, <2>3, <2>5
  <2>7. dailyPnl'[today'] > -StopLoss
    BY <2>3
  <2> QED
    BY <2>1, <2>2, <2>6, <2>7 DEF LossInv, DayLossBounded, WorstOfOrder, n
<1>13. CASE Restart
  <2>1. /\ resting' = {} /\ filled' = {} /\ pc' = "idle" /\ today' = today
        /\ dailyPnl' = [d \in Day |-> 0]
    BY <1>13 DEF Restart
  <2>2. OpenPositions' = 0 /\ DueOrders' = 0
    BY <2>1, FS_EmptySet DEF OpenPositions, DueOrders
  <2>3. OpenPositions' + DueOrders' = 0
    BY <2>2
  <2>4. \A d \in Day : dailyPnl'[d] = 0
    BY <2>1
  <2>5. 0 < StopLoss + WorstOfOrder * MaxOpen
    BY <1>1
  <2>6. WorstOfOrder * 0 - dailyPnl'[today'] < StopLoss + WorstOfOrder * MaxOpen
    BY <1>1, <2>1, <2>4, <2>5
  <2>7. DayLossBounded'
    BY <2>4, <2>5 DEF DayLossBounded, WorstOfOrder
  <2> QED
    BY <1>1, <2>1, <2>3, <2>6, <2>7 DEF LossInv, WorstOfOrder
<1>14. CASE \/ \E c \in Cid, q \in 1..Size : XFill(c, q)
            \/ \E t \in Ticker, o \in Outcome : XResolve(t, o)
            \/ \E c \in Cid : Age(c)
            \/ FlipKill
            \/ \E t \in Ticker : FlipAsset(t)
            \/ UNCHANGED vars
  <2>1. UNCHANGED <<dailyPnl, today, resting, filled, pc, todo, now>>
    BY <1>14 DEF XFill, XResolve, Age, FlipKill, FlipAsset, vars, memory, control, ledger
  <2> QED
    BY <1>3, <2>1
<1> QED
  BY <1>5, <1>6, <1>7, <1>8, <1>9, <1>10, <1>11, <1>12, <1>13, <1>14
     DEF Next, Submit, CreateReply, Poll, Settle, Environment

\* Under every fault, however settlements fail and whatever midnight falls into,
\* a UTC day loses less than the stop and the worst loss of max_concurrent orders.
THEOREM DayLossIsBounded ==
    ASSUME StopLoss > 0
    PROVE  Spec => []DayLossBounded
<1>1. Init => LedgerInv /\ LossInv
  <2> SUFFICES ASSUME Init PROVE LedgerInv /\ LossInv
    OBVIOUS
  <2>1. /\ pc = "idle" /\ today = 0 /\ now = 0 /\ 0 \in Day
        /\ resting = {} /\ filled = {} /\ \A d \in Day : dailyPnl[d] = 0
    BY DEF Init, Day
  <2>2. OpenPositions = 0 /\ DueOrders = 0 /\ OpenPositions + DueOrders = 0
    BY <2>1, FS_EmptySet DEF OpenPositions, DueOrders
  <2>3. 0 < StopLoss + WorstOfOrder * MaxOpen /\ WorstOfOrder * 0 = 0
    BY WorstTimes
  <2>4. WorstOfOrder * 0 - dailyPnl[today] < StopLoss + WorstOfOrder * MaxOpen
    BY <2>1, <2>3
  <2> QED
    BY <2>1, <2>2, <2>3, <2>4 DEF LedgerInv, LossInv, DayLossBounded
<1>2. IInv /\ IInv' /\ LedgerInv /\ LossInv /\ [Next]_vars => LedgerInv' /\ LossInv'
  BY LedgerInvStep, LossStep DEF IInv
<1>3. LossInv => DayLossBounded
  BY DEF LossInv
<1> QED
  BY <1>1, <1>2, <1>3, Invariant, PTL DEF Spec
=============================================================================
