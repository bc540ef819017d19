-------------------------- MODULE MarketDataProofs --------------------------
(***************************************************************************)
(* Proofs about three parts of MCRecords: the cache of order books, for    *)
(* any levels, tickers and intervals; the rollup of phase timings, for any *)
(* events, jobs, days and buckets; and the rolling windows of the          *)
(* strategies, for any prices, windows and thresholds.  With RecordsProofs *)
(* they add up to the types of all parts.                                  *)
(***************************************************************************)
EXTENDS RecordsProofs, FunctionTheorems

\* Prices are finitely many numbers; every length of time is a number, a second
\* has a length.
BooksAssumption ==
    /\ IsFiniteSet(Level) /\ Level \subseteq Int /\ Whole \in Int
    /\ Close \in Nat /\ Second \in Nat \ {0} /\ HotWindow \in Nat
    /\ HotInterval \in Nat /\ ColdInterval \in Nat
    /\ MaxLoop \in Nat /\ BookTime \in Nat

-----------------------------------------------------------------------------
(* Ladders                                                                 *)

\* The sequences of levels in ascending order.
IsLadder(l) == l \in Seq(Level) /\ \A i, j \in 1..Len(l) : i < j => l[i] < l[j]

\* The cache counts as the standard module does.
LEMMA CountsAlike ==
    \A S : Books!Cardinality(S) = Cardinality(S)
BY DEF Books!Cardinality, Cardinality

\* A ladder has at most one level for each price.
LEMMA LadderIsShort ==
    ASSUME IsFiniteSet(Level), Level \subseteq Int, NEW l, IsLadder(l)
    PROVE  Len(l) <= Cardinality(Level)
<1>1. Len(l) \in Nat /\ l \in [1..Len(l) -> Level]
  BY LenProperties DEF IsLadder
<1>2. \A i, j \in 1..Len(l) : l[i] = l[j] => i = j
  <2>1. \A i \in 1..Len(l) : l[i] \in Int
    BY <1>1
  <2> QED
    BY <1>1, <2>1 DEF IsLadder
<1>3. l \in Injection(1..Len(l), Level)
  BY <1>1, <1>2, Fun_IsInj
<1>4. Cardinality(1..Len(l)) <= Cardinality(Level)
  BY <1>3, FS_Injection
<1> QED
  BY <1>1, <1>4, FS_Interval

\* What the module calls ladders are these.
LEMMA LadderDef ==
    ASSUME IsFiniteSet(Level), Level \subseteq Int, NEW l
    PROVE  l \in Books!Ladder <=> IsLadder(l)
<1>1. Cardinality(Level) \in Nat
  BY FS_CardinalityType
<1>2. ASSUME l \in Books!Ladder
      PROVE  IsLadder(l)
  <2>1. PICK m \in 0..Cardinality(Level) : l \in [1..m -> Level]
    BY <1>2, CountsAlike DEF Books!Ladder, Books!SeqOf
  <2>2. l \in Seq(Level) /\ Len(l) = m /\ DOMAIN l = 1..m
    BY <1>1, <2>1
  <2> QED
    BY <1>2, <2>2 DEF Books!Ladder, IsLadder
<1>3. ASSUME IsLadder(l)
      PROVE  l \in Books!Ladder
  <2>1. Len(l) \in Nat /\ l \in [1..Len(l) -> Level] /\ DOMAIN l = 1..Len(l)
    BY <1>3, LenProperties DEF IsLadder
  <2>2. Len(l) <= Cardinality(Level)
    BY <1>3, LadderIsShort
  <2>3. l \in Books!SeqOf(Level, Cardinality(Level))
    BY <1>1, <2>1, <2>2 DEF Books!SeqOf
  <2> QED
    BY <1>3, <2>1, <2>3, CountsAlike DEF Books!Ladder, IsLadder
<1> QED
  BY <1>2, <1>3

\* A price has its place in a ladder: behind the lower levels, before the higher.
LEMMA PlaceDivides ==
    ASSUME IsFiniteSet(Level), Level \subseteq Int, NEW l, IsLadder(l), NEW p \in Level,
           \A i \in 1..Len(l) : l[i] # p
    PROVE  /\ Books!Place(l, p) \in 1..(Len(l) + 1)
           /\ \A i \in 1..Len(l) : i < Books!Place(l, p) => l[i] < p
           /\ \A i \in 1..Len(l) : i >= Books!Place(l, p) => p < l[i]
<1> DEFINE higher == {i \in DOMAIN l : p < l[i]} \cup {Len(l) + 1}
<1>1. Len(l) \in Nat /\ DOMAIN l = 1..Len(l) /\ \A i \in 1..Len(l) : l[i] \in Int
  BY LenProperties, ElementOfSeq DEF IsLadder
<1>2. higher \in SUBSET Nat /\ higher # {}
  BY <1>1
<1>3. /\ Books!Place(l, p) \in higher
      /\ \A k \in higher : Books!Place(l, p) <= k
  <2> HIDE DEF higher
  <2>1. PICK i \in higher : \A k \in higher : i <= k
    BY <1>2, LeastOf
  <2>2. Books!Min(higher) \in higher /\ \A k \in higher : Books!Min(higher) <= k
    BY <2>1 DEF Books!Min
  <2> QED
    BY <2>2 DEF Books!Place, higher
<1>4. \A i \in 1..Len(l) : i < Books!Place(l, p) => ~(p < l[i])
  BY <1>1, <1>3
<1>5. p \in Int
  OBVIOUS
<1>6. \A i \in 1..Len(l) : i >= Books!Place(l, p) => p < l[i]
  <2> SUFFICES ASSUME NEW i \in 1..Len(l), i >= Books!Place(l, p) PROVE p < l[i]
    OBVIOUS
  <2>1. Books!Place(l, p) \in 1..Len(l) /\ p < l[Books!Place(l, p)]
    BY <1>1, <1>3
  <2> QED
    BY <1>1, <1>5, <2>1 DEF IsLadder
<1> QED
  BY <1>1, <1>3, <1>4, <1>5, <1>6

\* A level that is not there is placed in order.
LEMMA PlacedIsLadder ==
    ASSUME IsFiniteSet(Level), Level \subseteq Int, NEW l, IsLadder(l), NEW p \in Level,
           \A i \in 1..Len(l) : l[i] # p
    PROVE  IsLadder(Books!Placed(l, p))
<1> DEFINE at    == Books!Place(l, p)
           lower == SubSeq(l, 1, at - 1)
           upper == SubSeq(l, at, Len(l))
           all   == (lower \o <<p>>) \o upper
<1>1. Len(l) \in Nat /\ \A i \in 1..Len(l) : l[i] \in Level /\ l[i] \in Int
  BY LenProperties, ElementOfSeq DEF IsLadder
<1>2. /\ at \in 1..(Len(l) + 1)
      /\ \A i \in 1..Len(l) : i < at => l[i] < p
      /\ \A i \in 1..Len(l) : i >= at => p < l[i]
  BY PlaceDivides
<1> HIDE DEF at
<1>3. /\ lower \in Seq(Level) /\ Len(lower) = at - 1
      /\ \A i \in 1..(at - 1) : lower[i] = l[i]
  BY <1>1, <1>2, SubSeqProperties
<1>4. /\ upper \in Seq(Level) /\ Len(upper) = Len(l) - at + 1
      /\ \A i \in 1..(Len(l) - at + 1) : upper[i] = l[at + i - 1]
  BY <1>1, <1>2, SubSeqProperties
<1> HIDE DEF lower, upper
<1>5. /\ lower \o <<p>> \in Seq(Level) /\ Len(lower \o <<p>>) = at
      /\ \A i \in 1..at : (lower \o <<p>>)[i] = IF i < at THEN l[i] ELSE p
  BY <1>2, <1>3, ConcatProperties
<1>6. /\ all \in Seq(Level) /\ Len(all) = Len(l) + 1
      /\ \A i \in 1..(Len(l) + 1) :
            all[i] = IF i < at THEN l[i] ELSE IF i = at THEN p ELSE l[i - 1]
  <2> DEFINE front == lower \o <<p>>
  <2> HIDE DEF front
  <2>1. /\ front \in Seq(Level) /\ Len(front) = at
        /\ \A i \in 1..at : front[i] = IF i < at THEN l[i] ELSE p
    BY <1>5 DEF front
  <2>2. /\ front \o upper \in Seq(Level) /\ Len(front \o upper) = at + (Len(l) - at + 1)
        /\ \A i \in 1..(at + (Len(l) - at + 1)) :
              (front \o upper)[i] = IF i <= at THEN front[i] ELSE upper[i - at]
    <3>1. Len(upper) = Len(l) - at + 1 /\ upper \in Seq(Level) /\ front \in Seq(Level)
          /\ Len(front) = at
      BY <1>4, <2>1
    <3>2. /\ front \o upper \in Seq(Level)
          /\ Len(front \o upper) = Len(front) + Len(upper)
          /\ \A i \in 1..(Len(front) + Len(upper)) :
                (front \o upper)[i] = IF i <= Len(front) THEN front[i] ELSE upper[i - Len(front)]
      BY <3>1, ConcatProperties
    <3> QED
      BY <3>1, <3>2
  <2>3. all = front \o upper
    BY DEF front
  <2> HIDE DEF all
  <2>4. at + (Len(l) - at + 1) = Len(l) + 1
    BY <1>1, <1>2
  <2>5. /\ all \in Seq(Level) /\ Len(all) = Len(l) + 1
        /\ \A i \in 1..(Len(l) + 1) :
              all[i] = IF i <= at THEN front[i] ELSE upper[i - at]
    BY <2>2, <2>3, <2>4
  <2>6. ASSUME NEW i \in 1..(Len(l) + 1)
        PROVE  all[i] = IF i < at THEN l[i] ELSE IF i = at THEN p ELSE l[i - 1]
    <3>1. CASE i <= at
      BY <1>2, <2>1, <2>5, <3>1
    <3>2. CASE i > at
      <4>1. i - at \in 1..(Len(l) - at + 1) /\ at + (i - at) - 1 = i - 1
        BY <1>1, <1>2, <3>2
      <4>2. upper[i - at] = l[i - 1]
        BY <1>4, <4>1
      <4> QED
        BY <1>2, <2>5, <3>2, <4>2
    <3> QED
      BY <1>2, <3>1, <3>2
  <2> QED
    BY <2>5, <2>6
<1>7. Books!Placed(l, p) = all
  BY DEF Books!Placed, Books!InsertAt, all, lower, upper, at
<1> HIDE DEF all
<1>8. ASSUME NEW i \in 1..(Len(l) + 1), NEW j \in 1..(Len(l) + 1), i < j
      PROVE  all[i] < all[j]
  <2>1. \A a, b \in 1..Len(l) : a < b => l[a] < l[b]
    BY DEF IsLadder
  <2>2. p \in Int /\ (i > at => i - 1 \in 1..Len(l)) /\ (j > at => j - 1 \in 1..Len(l))
        /\ (i < at => i \in 1..Len(l)) /\ (j < at => j \in 1..Len(l))
    BY <1>1, <1>2
  <2>3. CASE i < at
    <3>1. CASE j < at
      BY <1>6, <1>8, <2>1, <2>2, <2>3, <3>1
    <3>2. CASE j = at
      BY <1>2, <1>6, <2>2, <2>3, <3>2
    <3>3. CASE j > at
      <4>1. all[i] = l[i] /\ l[i] < p /\ all[j] = l[j - 1]
        BY <1>2, <1>6, <2>2, <2>3, <3>3
      <4>2. p < l[j - 1]
        BY <1>1, <1>2, <2>2, <3>3
      <4> QED
        BY <1>1, <2>2, <2>3, <3>3, <4>1, <4>2
    <3> QED
      BY <1>2, <3>1, <3>2, <3>3
  <2>4. CASE i = at
    BY <1>1, <1>2, <1>6, <1>8, <2>2, <2>4
  <2>5. CASE i > at
    <3>1. all[i] = l[i - 1] /\ all[j] = l[j - 1]
      BY <1>2, <1>6, <1>8, <2>5
    <3>2. i - 1 < j - 1 /\ i - 1 \in 1..Len(l) /\ j - 1 \in 1..Len(l)
      BY <1>2, <1>8, <2>2, <2>5
    <3> QED
      BY <2>1, <3>1, <3>2
  <2> QED
    BY <1>2, <2>3, <2>4, <2>5
<1> QED
  BY <1>6, <1>7, <1>8 DEF IsLadder

\* Taking the level of a price away leaves the ladder without it.
LEMMA OthersIsLadder ==
    ASSUME IsFiniteSet(Level), Level \subseteq Int, NEW l, IsLadder(l), NEW p \in Level
    PROVE  /\ IsLadder(Books!Others(l, p))
           /\ \A i \in 1..Len(Books!Others(l, p)) : Books!Others(l, p)[i] # p
<1>1. Len(l) \in Nat /\ \A i \in 1..Len(l) : l[i] \in Level /\ l[i] \in Int
  BY LenProperties, ElementOfSeq DEF IsLadder
<1>2. CASE \A i \in 1..Len(l) : l[i] # p
  <2>1. Books!Others(l, p) = l
    BY <1>2 DEF Books!Others, Books!RemoveFirst
  <2> QED
    BY <1>2, <2>1
<1>3. CASE \E i \in 1..Len(l) : l[i] = p
  <2> DEFINE places == {i \in 1..Len(l) : l[i] = p}
             at    == Books!Min(places)
             lower == SubSeq(l, 1, at - 1)
             upper == SubSeq(l, at + 1, Len(l))
             all   == lower \o upper
  <2>1. at \in places
    <3>1. places \in SUBSET Nat /\ places # {}
      BY <1>1, <1>3
    <3>2. PICK i \in places : \A k \in places : i <= k
      BY <3>1, LeastOf
    <3> HIDE DEF places
    <3> QED
      BY <3>2 DEF Books!Min
  <2>2. Books!Others(l, p) = all
    BY <1>3 DEF Books!Others, Books!RemoveFirst, Books!SelectInSeq, Books!RemoveAt
  <2>3. at \in 1..Len(l) /\ l[at] = p
    BY <2>1
  <2> HIDE DEF at, places
  <2>4. /\ lower \in Seq(Level) /\ Len(lower) = at - 1
        /\ \A i \in 1..(at - 1) : lower[i] = l[i]
    BY <1>1, <2>3, SubSeqProperties
  <2>5. /\ upper \in Seq(Level) /\ Len(upper) = Len(l) - at
        /\ \A i \in 1..(Len(l) - at) : upper[i] = l[at + i]
    <3>1. at + 1 \in Int /\ Len(l) \in Int /\ \A i \in at + 1..Len(l) : l[i] \in Level
      BY <1>1, <2>3
    <3>2. /\ upper \in Seq(Level)
          /\ Len(upper) = IF at + 1 <= Len(l) THEN Len(l) - (at + 1) + 1 ELSE 0
          /\ \A i \in 1..(Len(l) - (at + 1) + 1) : upper[i] = l[(at + 1) + i - 1]
      BY <3>1, SubSeqProperties
    <3> HIDE DEF upper
    <3> QED
      BY <1>1, <2>3, <3>2
  <2> HIDE DEF lower, upper
  <2>6. /\ all \in Seq(Level) /\ Len(all) = Len(l) - 1
        /\ \A i \in 1..(Len(l) - 1) : all[i] = IF i < at THEN l[i] ELSE l[i + 1]
    <3>1. /\ all \in Seq(Level) /\ Len(all) = (at - 1) + (Len(l) - at)
          /\ \A i \in 1..((at - 1) + (Len(l) - at)) :
                all[i] = IF i <= at - 1 THEN lower[i] ELSE upper[i - (at - 1)]
      BY <2>4, <2>5, ConcatProperties
    <3> HIDE DEF all
    <3>2. (at - 1) + (Len(l) - at) = Len(l) - 1
      BY <1>1, <2>3
    <3>3. ASSUME NEW i \in 1..(Len(l) - 1)
          PROVE  all[i] = IF i < at THEN l[i] ELSE l[i + 1]
      <4>1. CASE i < at
        BY <2>3, <2>4, <3>1, <3>2, <4>1
      <4>2. CASE i >= at
        <5>1. i - (at - 1) \in 1..(Len(l) - at) /\ at + (i - (at - 1)) = i + 1
          BY <1>1, <2>3, <4>2
        <5>2. upper[i - (at - 1)] = l[i + 1]
          BY <2>5, <5>1
        <5>3. all[i] = upper[i - (at - 1)]
          BY <2>3, <3>1, <3>2, <4>2
        <5> QED
          BY <2>3, <4>2, <5>2, <5>3
      <4> QED
        BY <2>3, <4>1, <4>2
    <3> QED
      BY <3>1, <3>2, <3>3
  <2> HIDE DEF all
  <2>7. ASSUME NEW i \in 1..(Len(l) - 1)
        PROVE  /\ i \in 1..Len(l) /\ i + 1 \in 1..Len(l)
               /\ all[i] = IF i < at THEN l[i] ELSE l[i + 1]
    BY <1>1, <2>6
  <2>8. \A a, b \in 1..Len(l) : a < b => l[a] < l[b]
    BY DEF IsLadder
  <2>9. ASSUME NEW i \in 1..(Len(l) - 1), NEW j \in 1..(Len(l) - 1), i < j
        PROVE  all[i] < all[j]
    <3>1. CASE j < at
      BY <2>3, <2>7, <2>8, <2>9, <3>1
    <3>2. CASE i < at /\ j >= at
      BY <2>3, <2>7, <2>8, <2>9, <3>2
    <3>3. CASE i >= at
      BY <2>3, <2>7, <2>8, <2>9, <3>3
    <3> QED
      BY <2>3, <3>1, <3>2, <3>3
  <2>10. ASSUME NEW i \in 1..(Len(l) - 1)
         PROVE  all[i] # p
    <3>1. CASE i < at
      BY <1>1, <2>3, <2>7, <2>8, <3>1
    <3>2. CASE i >= at
      BY <1>1, <2>3, <2>7, <2>8, <3>2
    <3> QED
      BY <2>3, <3>1, <3>2
  <2> QED
    BY <2>2, <2>6, <2>9, <2>10 DEF IsLadder
<1> QED
  BY <1>2, <1>3

-----------------------------------------------------------------------------
(* The cache                                                               *)

\* A book that was fetched, and its last fetch did not fail, is one that its tier
\* let pass at the beginning of the turn, or one of this turn.
FetchedInTime(t) ==
    /\ lastFetched[t] # Books!Never
    /\ began - lastFetched[t] < Books!TierOf(began) * Second + Second

\* The turn of a worker: it has applied its book in this turn, the time left is
\* of the same turn as the book, and a quote finds no book between the two.  An
\* entry that deltas have made has no time left until its first fetch.
CacheInv ==
    /\ time - began <= MaxLoop
    /\ phase # "fetching" => due = {}
    /\ phase # "idle" => quotes = {}
    /\ \A t \in Ticker : worker[t] # "none" <=> t \in due
    /\ \A t \in Ticker : worker[t] = "applied" => updated[t] >= began
    /\ \A t \in Ticker : lastFetched[t] # Books!Never => updated[t] >= lastFetched[t] - MaxLoop
    /\ \A t \in Ticker : Books!Fetched(t) /\ worker[t] # "applied" => whole[t]
    /\ \A t \in Ticker : ~Books!Fetched(t) => left[t] = 0
    /\ phase # "idle" => \A t \in tickers \ due : t \notin failed => FetchedInTime(t)

\* The inductive invariant of the cache.
BooksInv == Books!TypeOK /\ CacheInv /\ Books!QuotesAreTrue /\ Books!QuotedBooksAreFresh

\* A time is less than a second behind the second it lies in.
LEMMA SecondsOf ==
    ASSUME Second \in Nat \ {0}, NEW t \in Nat
    PROVE  /\ Books!Seconds(t) \in Nat /\ Books!Seconds(t) * Second \in Nat
           /\ Books!Seconds(t) * Second <= t /\ t < Books!Seconds(t) * Second + Second
BY DEF Books!Seconds

\* The tier of a turn is that of its beginning.
LEMMA TierIsInterval ==
    ASSUME BooksAssumption, NEW t \in Ticker, time \in Nat
    PROVE  /\ Books!Interval(t) = Books!TierOf(time)
           /\ Books!TierOf(time) \in Nat /\ Books!TierOf(time) * Second \in Nat
<1>1. /\ Books!Seconds(time) \in Nat /\ Close \in Nat /\ HotWindow \in Nat /\ Second \in Nat
      /\ HotInterval \in Nat /\ ColdInterval \in Nat
  BY SecondsOf DEF BooksAssumption
<1>2. Books!RemainingNow <= HotWindow <=> Close - Books!Seconds(time) <= HotWindow
  BY <1>1 DEF Books!RemainingNow
<1>3. Books!Interval(t) = Books!TierOf(time)
  BY <1>2 DEF Books!Interval, Books!TierOf
<1>4. Books!TierOf(time) \in Nat
  BY <1>1 DEF Books!TierOf
<1>5. \A a, b \in Nat : a * b \in Nat
  OBVIOUS
<1> QED
  BY <1>1, <1>3, <1>4, <1>5

\* The seconds left to a market are a number, of at most those to its close.
LEMMA RemainingType ==
    ASSUME BooksAssumption, time \in Nat
    PROVE  Books!RemainingNow \in 0..Close
<1>1. Books!Seconds(time) \in Nat /\ Close \in Nat
  BY SecondsOf DEF BooksAssumption
<1> QED
  BY <1>1 DEF Books!RemainingNow

\* A turn leaves the books alone that are not due.
LEMMA NotDueIsInTime ==
    ASSUME BooksAssumption, Books!TypeOK, NEW t \in Ticker, ~Books!IsDue(t)
    PROVE  /\ lastFetched[t] # Books!Never
           /\ time - lastFetched[t] < Books!TierOf(time) * Second + Second
<1>1. time \in Nat /\ lastFetched[t] \in Int
  BY DEF Books!TypeOK, Books!Never, BooksAssumption
<1> DEFINE sec == Books!Seconds(time) * Second
           gap == Books!TierOf(time) * Second
<1>2. sec \in Nat /\ time < sec + Second /\ gap \in Nat /\ Second \in Nat
  BY <1>1, SecondsOf, TierIsInterval DEF BooksAssumption
<1>3. lastFetched[t] # Books!Never /\ ~(sec - lastFetched[t] >= gap)
  BY <1>1, TierIsInterval DEF Books!IsDue
<1> HIDE DEF sec, gap
<1>4. time - lastFetched[t] < gap + Second
  BY <1>1, <1>2, <1>3
<1> QED
  BY <1>3, <1>4 DEF gap

\* The best level of a ladder is its last.
LEMMA BestIsLast ==
    ASSUME BooksAssumption, NEW l \in Books!Ladder
    PROVE  \A i \in DOMAIN l : Books!AskFrom(l) <= Whole - l[i]
<1>1. IsLadder(l)
  BY LadderDef DEF BooksAssumption
<1>2. /\ Len(l) \in Nat /\ DOMAIN l = 1..Len(l) /\ \A i \in 1..Len(l) : l[i] \in Int
  BY <1>1, LenProperties, ElementOfSeq DEF IsLadder, BooksAssumption
<1>3. \A i \in 1..Len(l) : l[i] <= l[Len(l)] /\ l # <<>>
  BY <1>1, <1>2 DEF IsLadder
<1> QED
  BY <1>2, <1>3 DEF Books!AskFrom, Books!Last, BooksAssumption

\* Placing or taking away a level of a ladder leaves a ladder.
LEMMA DeltaKeepsLadder ==
    ASSUME BooksAssumption, NEW l \in Books!Ladder, NEW p \in Level
    PROVE  /\ Books!Others(l, p) \in Books!Ladder
           /\ Books!Placed(Books!Others(l, p), p) \in Books!Ladder
<1>1. IsLadder(l)
  BY LadderDef DEF BooksAssumption
<1>2. /\ IsLadder(Books!Others(l, p))
      /\ \A i \in 1..Len(Books!Others(l, p)) : Books!Others(l, p)[i] # p
  BY <1>1, OthersIsLadder DEF BooksAssumption
<1>3. IsLadder(Books!Placed(Books!Others(l, p), p))
  BY <1>2, PlacedIsLadder DEF BooksAssumption
<1> QED
  BY <1>2, <1>3, LadderDef DEF BooksAssumption

\* What is quoted does not change with the rest, unless time passes.
LEMMA QuotesKept ==
    ASSUME Books!QuotesAreTrue, Books!QuotedBooksAreFresh,
           quotes' = {} \/ UNCHANGED <<quotes, time, began, failed, lastFetched>>
    PROVE  Books!QuotesAreTrue' /\ Books!QuotedBooksAreFresh'
<1>1. CASE quotes' = {}
  BY <1>1 DEF Books!QuotesAreTrue, Books!QuotesAreWhole, Books!AskIsBest,
              Books!QuotedBooksAreFresh
<1>2. CASE UNCHANGED <<quotes, time, began, failed, lastFetched>>
  BY <1>2 DEF Books!QuotesAreTrue, Books!QuotesAreWhole, Books!AskIsBest, Books!Fetched,
              Books!QuotedBooksAreFresh, Books!TierOf, Books!Seconds
<1> QED
  BY <1>1, <1>2

\* The quotes of a turn are whole, with the best ask there is, and in time.
LEMMA QuotesMade ==
    ASSUME BooksAssumption, Books!TypeOK, CacheInv, Books!GetQuotes
    PROVE  Books!QuotesAreTrue' /\ Books!QuotedBooksAreFresh'
<1>1. /\ phase = "fetched" /\ UNCHANGED <<time, began, failed, lastFetched>>
      /\ \A q \in quotes' : \E t \in tickers : updated[t] # Books!Never /\ q = Books!QuoteOf(t)
  BY DEF Books!GetQuotes, Books!clock, Books!cache
<1>2. /\ tickers \subseteq Ticker /\ due = {} /\ \A t \in Ticker : worker[t] = "none"
      /\ time \in Nat /\ began \in Nat
      /\ \A t \in Ticker : updated[t] \in Int /\ lastFetched[t] \in Int
  BY <1>1 DEF Books!TypeOK, CacheInv, Books!Never, BooksAssumption
<1>3. ASSUME NEW q \in quotes'
      PROVE  /\ IF Books!Fetched(q.ticker) THEN q.whole ELSE q.left = 0
             /\ \A i \in DOMAIN q.ladders["no"] : q.yes <= Whole - q.ladders["no"][i]
             /\ \A i \in DOMAIN q.ladders["yes"] : q.no <= Whole - q.ladders["yes"][i]
             /\ q.ticker \notin failed =>
                  time - q.stamp < Books!TierOf(began) * Second + Second + 2 * MaxLoop
  <2>1. PICK t \in tickers : updated[t] # Books!Never /\ q = Books!QuoteOf(t)
    BY <1>1, <1>3
  <2>2. /\ q.whole = whole[t] /\ q.ticker = t /\ q.stamp = updated[t]
        /\ q.left = left[t] /\ q.ladders = book[t]
        /\ q.yes = Books!AskFrom(book[t]["no"]) /\ q.no = Books!AskFrom(book[t]["yes"])
    BY <2>1 DEF Books!QuoteOf
  <2>3. IF Books!Fetched(q.ticker) THEN q.whole ELSE q.left = 0
    BY <1>2, <2>1, <2>2 DEF CacheInv
  <2>4. book[t]["no"] \in Books!Ladder /\ book[t]["yes"] \in Books!Ladder
    BY <1>2 DEF Books!TypeOK, Books!Sides
  <2>5. ASSUME t \notin failed
        PROVE  time - updated[t] < Books!TierOf(began) * Second + Second + 2 * MaxLoop
    <3>1. /\ lastFetched[t] # Books!Never
          /\ began - lastFetched[t] < Books!TierOf(began) * Second + Second
      BY <1>1, <1>2, <2>1, <2>5 DEF CacheInv, FetchedInTime
    <3>2. updated[t] >= lastFetched[t] - MaxLoop /\ time - began <= MaxLoop
      BY <1>2, <3>1 DEF CacheInv
    <3> DEFINE gap == Books!TierOf(began) * Second
    <3>3. gap \in Int
      <4>1. Books!TierOf(began) \in Nat /\ Second \in Nat
        BY DEF Books!TierOf, BooksAssumption
      <4> QED
        BY <4>1
    <3>4. began - lastFetched[t] < gap + Second /\ MaxLoop \in Nat /\ Second \in Nat
      BY <3>1 DEF BooksAssumption
    <3> HIDE DEF gap
    <3>5. time - updated[t] < gap + Second + 2 * MaxLoop
      BY <1>2, <3>2, <3>3, <3>4
    <3> QED
      BY <3>5 DEF gap
  <2> QED
    BY <2>2, <2>3, <2>4, <2>5, BestIsLast
<1>4. Books!QuotesAreTrue'
  BY <1>1, <1>3 DEF Books!QuotesAreTrue, Books!QuotesAreWhole, Books!Fetched, Books!AskIsBest
<1>5. Books!QuotedBooksAreFresh'
  BY <1>1, <1>3 DEF Books!QuotedBooksAreFresh, Books!TierOf, Books!Seconds
<1> QED
  BY <1>4, <1>5

\* Every step of the cache keeps the invariant.
LEMMA BooksStep ==
    ASSUME BooksAssumption
    PROVE  BooksInv /\ (Books!Next \/ UNCHANGED bookVars) => BooksInv'
<1> SUFFICES ASSUME BooksInv, Books!Next \/ UNCHANGED bookVars PROVE BooksInv'
  OBVIOUS
<1> USE DEF Books!clock, Books!turn, Books!cache, Books!Fetched
<1>t. /\ time \in Nat /\ began \in Nat /\ began <= time /\ tickers \subseteq Ticker
      /\ due \subseteq tickers /\ MaxLoop \in Nat /\ BookTime \in Nat
      /\ \A t \in Ticker : updated[t] \in Int /\ updated[t] <= time
      /\ \A t \in Ticker : lastFetched[t] \in Int /\ lastFetched[t] <= time
  BY DEF BooksInv, Books!TypeOK, Books!Never, BooksAssumption
<1>1. ASSUME Books!Discover
      PROVE  BooksInv'
  <2>1. Books!TypeOK' /\ CacheInv'
    BY <1>1, <1>t DEF Books!Discover, BooksInv, Books!TypeOK, CacheInv
  <2> QED
    BY <1>1, <2>1, QuotesKept DEF Books!Discover, BooksInv
<1>2. ASSUME Books!BeginTurn
      PROVE  BooksInv'
  <2>1. /\ phase = "idle" /\ phase' = "fetching" /\ began' = time /\ quotes' = {}
        /\ due' = {t \in tickers : Books!IsDue(t)}
        /\ worker' = [t \in Ticker |-> IF t \in due' THEN "asked" ELSE "none"]
        /\ UNCHANGED <<time, tickers, book, updated, left, lastFetched, whole, failed>>
    BY <1>2 DEF Books!BeginTurn
  <2>2. Books!TypeOK'
    BY <1>t, <2>1 DEF BooksInv, Books!TypeOK
  <2>3. \A t \in tickers \ due' : FetchedInTime(t)'
    <3> SUFFICES ASSUME NEW t \in tickers, ~Books!IsDue(t) PROVE FetchedInTime(t)'
      BY <2>1
    <3>1. /\ lastFetched[t] # Books!Never
          /\ time - lastFetched[t] < Books!TierOf(time) * Second + Second
      BY <1>t, NotDueIsInTime DEF BooksInv
    <3> QED
      BY <2>1, <3>1 DEF FetchedInTime, Books!TierOf, Books!Seconds
  <2>4. CacheInv'
    <3>1. \A t \in Ticker : worker[t] # "applied"
      BY <2>1 DEF BooksInv, CacheInv
    <3>2. time' - began' <= MaxLoop
      BY <1>t, <2>1
    <3> QED
      BY <2>1, <2>3, <3>1, <3>2 DEF BooksInv, CacheInv
  <2> QED
    BY <2>1, <2>2, <2>4, QuotesKept DEF BooksInv
<1>3. ASSUME Books!EndSnapshot
      PROVE  BooksInv'
  <2>1. Books!TypeOK' /\ CacheInv'
    BY <1>3, <1>t DEF Books!EndSnapshot, Books!PoolDone, BooksInv, Books!TypeOK, CacheInv,
                      FetchedInTime, Books!TierOf, Books!Seconds
  <2> QED
    BY <1>3, <2>1, QuotesKept DEF Books!EndSnapshot, BooksInv
<1>4. ASSUME Books!GetQuotes
      PROVE  BooksInv'
  <2>1. Books!TypeOK' /\ CacheInv'
    BY <1>4, <1>t DEF Books!GetQuotes, BooksInv, Books!TypeOK, CacheInv
  <2> QED
    BY <1>4, <2>1, QuotesMade DEF BooksInv
<1>5. ASSUME Books!Tick
      PROVE  BooksInv'
  <2>1. /\ time < BookTime /\ time' = time + 1 /\ time' - began <= MaxLoop /\ quotes' = {}
        /\ UNCHANGED <<began, phase, tickers, due, worker, book, updated, left, lastFetched,
                       whole, failed>>
    BY <1>5 DEF Books!Tick
  <2>2. Books!TypeOK'
    <3>1. Books!Never..time \subseteq Books!Never..time' /\ time' \in 0..BookTime
          /\ began' \in 0..time'
      BY <1>t, <2>1 DEF Books!Never
    <3> QED
      BY <2>1, <3>1 DEF BooksInv, Books!TypeOK
  <2>3. CacheInv'
    BY <2>1 DEF BooksInv, CacheInv, FetchedInTime, Books!TierOf, Books!Seconds
  <2> QED
    BY <2>1, <2>2, <2>3, QuotesKept DEF BooksInv
<1>6. ASSUME NEW t \in Ticker, Books!FetchFails(t)
      PROVE  BooksInv'
  <2>1. /\ worker[t] = "asked" /\ worker' = [worker EXCEPT ![t] = "none"]
        /\ due' = due \ {t} /\ failed' = failed \cup {t}
        /\ UNCHANGED <<time, began, phase, tickers, book, updated, left, lastFetched, whole,
                       quotes>>
    BY <1>6 DEF Books!FetchFails
  <2>2. t \in due /\ phase = "fetching" /\ quotes = {}
    BY <2>1 DEF BooksInv, CacheInv
  <2>3. Books!TypeOK'
    BY <1>t, <2>1 DEF BooksInv, Books!TypeOK
  <2>4. CacheInv'
    BY <1>t, <2>1, <2>2, <2>3 DEF BooksInv, CacheInv, Books!TypeOK, FetchedInTime,
                                  Books!TierOf, Books!Seconds
  <2> QED
    BY <2>1, <2>2, <2>3, <2>4, QuotesKept DEF BooksInv
<1>7. ASSUME NEW t \in Ticker, Books!ApplySnapshot(t)
      PROVE  BooksInv'
  <2>1. PICK ladders \in [Books!Sides -> Books!Ladder] : book' = [book EXCEPT ![t] = ladders]
    BY <1>7 DEF Books!ApplySnapshot
  <2>2. /\ worker[t] = "asked" /\ worker' = [worker EXCEPT ![t] = "applied"]
        /\ updated' = [updated EXCEPT ![t] = time] /\ whole' = [whole EXCEPT ![t] = FALSE]
        /\ UNCHANGED <<time, began, phase, tickers, due, left, lastFetched, failed, quotes>>
    BY <1>7 DEF Books!ApplySnapshot
  <2>3. t \in due /\ phase = "fetching" /\ quotes = {}
    BY <2>2 DEF BooksInv, CacheInv
  <2>4. Books!TypeOK'
    BY <1>t, <2>1, <2>2 DEF BooksInv, Books!TypeOK, Books!Never
  <2>5. CacheInv'
    BY <1>t, <2>2, <2>3, <2>4 DEF BooksInv, CacheInv, Books!TypeOK, FetchedInTime,
                                  Books!TierOf, Books!Seconds
  <2> QED
    BY <2>2, <2>3, <2>4, <2>5, QuotesKept DEF BooksInv
<1>8. ASSUME NEW t \in Ticker, Books!UpdateLifecycle(t)
      PROVE  BooksInv'
  <2>1. /\ worker[t] = "applied" /\ worker' = [worker EXCEPT ![t] = "none"]
        /\ due' = due \ {t} /\ left' = [left EXCEPT ![t] = Books!RemainingNow]
        /\ lastFetched' = [lastFetched EXCEPT ![t] = time]
        /\ whole' = [whole EXCEPT ![t] = TRUE] /\ failed' = failed \ {t}
        /\ UNCHANGED <<time, began, phase, tickers, book, updated, quotes>>
    BY <1>8 DEF Books!UpdateLifecycle
  <2>2. t \in due /\ phase = "fetching" /\ quotes = {} /\ updated[t] >= began
    BY <2>1 DEF BooksInv, CacheInv
  <2>3. Books!TypeOK'
    BY <1>t, <2>1, RemainingType DEF BooksInv, Books!TypeOK, Books!Never
  <2>4. FetchedInTime(t)' /\ updated'[t] >= lastFetched'[t] - MaxLoop
    <3>1. lastFetched'[t] = time /\ updated'[t] = updated[t] /\ time - began <= MaxLoop
      BY <2>1 DEF BooksInv, Books!TypeOK, CacheInv
    <3>2. Books!TierOf(began) * Second \in Nat /\ Second \in Nat \ {0}
      <4>1. Books!TierOf(began) \in Nat /\ Second \in Nat \ {0}
        BY DEF Books!TierOf, BooksAssumption
      <4> QED
        BY <4>1
    <3>3. began - time < Books!TierOf(began) * Second + Second
      BY <1>t, <3>2
    <3> QED
      BY <1>t, <2>1, <2>2, <3>1, <3>3 DEF FetchedInTime, Books!TierOf, Books!Seconds, Books!Never
  <2>5. CacheInv'
    <3>1. \A u \in Ticker \ {t} :
              /\ lastFetched'[u] = lastFetched[u] /\ updated'[u] = updated[u]
              /\ worker'[u] = worker[u] /\ whole'[u] = whole[u] /\ left'[u] = left[u]
      BY <2>1 DEF BooksInv, Books!TypeOK
    <3>2. worker'[t] = "none" /\ whole'[t] = TRUE /\ lastFetched'[t] # Books!Never
      BY <1>t, <2>1 DEF BooksInv, Books!TypeOK, Books!Never
    <3>3. \A u \in Ticker \ {t} : FetchedInTime(u) => FetchedInTime(u)'
      BY <2>1, <3>1 DEF FetchedInTime, Books!TierOf, Books!Seconds
    <3> QED
      BY <1>t, <2>1, <2>2, <2>4, <3>1, <3>2, <3>3 DEF BooksInv, CacheInv
  <2> QED
    BY <2>1, <2>2, <2>3, <2>5, QuotesKept DEF BooksInv
<1>9. ASSUME NEW t \in Ticker, NEW side \in Books!Sides, NEW price \in Level, NEW on \in BOOLEAN,
             Books!Delta(t, side, price, on)
      PROVE  BooksInv'
  <2> DEFINE others == Books!Others(book[t][side], price)
             after  == IF on THEN Books!Placed(others, price) ELSE others
  <2>1. /\ book' = [book EXCEPT ![t][side] = after]
        /\ updated' = [updated EXCEPT ![t] = time] /\ quotes' = {}
        /\ UNCHANGED <<time, began, phase, tickers, due, worker, left, lastFetched, whole,
                       failed>>
    BY <1>9 DEF Books!Delta
  <2>2. after \in Books!Ladder
    <3>1. book[t][side] \in Books!Ladder
      BY DEF BooksInv, Books!TypeOK
    <3> QED
      BY <3>1, DeltaKeepsLadder
  <2> HIDE DEF after
  <2>3. Books!TypeOK'
    BY <1>t, <2>1, <2>2 DEF BooksInv, Books!TypeOK, Books!Never
  <2>4. CacheInv'
    BY <1>t, <2>1 DEF BooksInv, CacheInv, Books!TypeOK, FetchedInTime, Books!TierOf,
                      Books!Seconds
  <2> QED
    BY <2>1, <2>3, <2>4, QuotesKept DEF BooksInv
<1>10. CASE UNCHANGED bookVars
  <2>1. Books!TypeOK' /\ CacheInv'
    BY <1>10 DEF bookVars, BooksInv, Books!TypeOK, CacheInv, FetchedInTime, Books!TierOf,
                 Books!Seconds
  <2> QED
    BY <1>10, <2>1, QuotesKept DEF bookVars, BooksInv
<1>11. QED
  BY <1>1, <1>2, <1>3, <1>4, <1>5, <1>6, <1>7, <1>8, <1>9, <1>10 DEF Books!Next

\* The cache begins empty.
LEMMA BooksInit == BooksAssumption /\ Books!Init => BooksInv
<1> SUFFICES ASSUME BooksAssumption, Books!Init PROVE BooksInv
  OBVIOUS
<1>1. <<>> \in Books!Ladder
  <2>1. IsLadder(<<>>)
    BY DEF IsLadder
  <2> QED
    BY <2>1, LadderDef DEF BooksAssumption
<1>2. Books!TypeOK
  BY <1>1 DEF Books!Init, Books!TypeOK, Books!Never, BooksAssumption
<1>3. CacheInv
  BY DEF Books!Init, CacheInv, Books!Fetched, BooksAssumption
<1>4. quotes = {}
  BY DEF Books!Init
<1> QED
  BY <1>2, <1>3, <1>4 DEF BooksInv, Books!QuotesAreTrue, Books!QuotesAreWhole, Books!AskIsBest,
                          Books!QuotedBooksAreFresh

\* The invariant holds in every state.
LEMMA BooksInvariant == ASSUME BooksAssumption PROVE Spec => []BooksInv
<1>1. Init => BooksInv
  BY BooksInit DEF Init
<1>2. BooksInv /\ [Next]_allVars => BooksInv'
  <2>1. [Next]_allVars => Books!Next \/ UNCHANGED bookVars
    BY DEF Next, allVars
  <2> QED
    BY <2>1, BooksStep
<1>3. QED
  BY <1>1, <1>2, PTL DEF Spec

\* Whatever snapshots, deltas, failures and turns a book has been through, a
\* quote is of one fetch and its asks are the best there are.
THEOREM QuotesStayTrue == ASSUME BooksAssumption PROVE Spec => []QuotesAreTrue
<1>1. BooksInv => QuotesAreTrue
  BY DEF BooksInv, QuotesAreTrue
<1>2. QED
  BY <1>1, BooksInvariant, PTL

\* The book of a quote is no older than its tier, a second and two turns allow,
\* unless its last fetch failed: for any tiers, tickers and lengths of a turn.
THEOREM QuotesStayFresh == ASSUME BooksAssumption PROVE Spec => []QuotedBooksAreFresh
<1>1. BooksInv => QuotedBooksAreFresh
  BY DEF BooksInv, QuotedBooksAreFresh
<1>2. QED
  BY <1>1, BooksInvariant, PTL

-----------------------------------------------------------------------------
(* The rollup of phase timings                                             *)

\* Events are finitely many; a bucket and a day have a length.
RollupAssumption ==
    /\ IsFiniteSet(Event) /\ BucketSize \in Nat \ {0} /\ DayLength \in Nat \ {0}
    /\ Lookback \in Nat /\ Retain \in Nat /\ RollupTime \in Nat

\* What a job has counted by now: the lines of the day it started on, then those
\* of the day its window began on; each once, if these days differ.
HasRead(j, e) ==
    /\ e \in written /\ stamp[e] >= Rollup!Since(j)
    /\ \/ Rollup!Day(stamp[e]) = Rollup!Day(started[j])
       \/ job[j] = "persist" /\ Rollup!Day(stamp[e]) = Rollup!Day(Rollup!Since(j))

\* What it has to have counted by now: the same, of the lines that were whole
\* when it started.
MustRead(j, e) ==
    /\ e \in known[j] /\ stamp[e] >= Rollup!Since(j)
    /\ \/ Rollup!Day(stamp[e]) = Rollup!Day(started[j])
       \/ job[j] = "persist" /\ Rollup!Day(stamp[e]) = Rollup!Day(Rollup!Since(j))

\* It has counted what it had to and nothing that was not there, each once; and
\* the rows it has written are those it makes, if no other job wrote meanwhile.
CountInv(j) ==
    /\ job[j] \notin {"since", "persist"} => counted[j] = Rollup!Nothing /\ done[j] = {}
    /\ job[j] = "since" => done[j] = {}
    /\ \A e \in Event : counted[j][e] \in 0..1
    /\ \A e \in Event : counted[j][e] = 1 => HasRead(j, e)
    /\ job[j] \in {"since", "persist"} => \A e \in Event : MustRead(j, e) => counted[j][e] = 1
    /\ known[j] \subseteq written /\ \A e \in known[j] : stamp[e] <= started[j]
    /\ ~mixed[j] => \A b \in done[j] : rollup[b] = Rollup!Aggregate(j)[b]

\* A row counts lines of its own bucket, each once.
RowsInv ==
    \A b \in Rollup!Bucket, e \in Event :
        /\ rollup[b][e] \in 0..1
        /\ rollup[b][e] = 1 => e \in written /\ Rollup!Floor(stamp[e]) = b

\* What is or will be in the log has a time, and nothing is of the future.
LogInv ==
    /\ \A e \in written \cup appending : stamp[e] # Rollup!None
    /\ \A e \in Event : stamp[e] <= rollupTime
    /\ \A j \in Job : started[j] <= rollupTime

\* The inductive invariant of the rollup.
RollupInv == Rollup!TypeOK /\ LogInv /\ RowsInv /\ \A j \in Job : CountInv(j)

\* The rows a job would write do not change when other events are stamped or
\* written, and neither does what it has counted.
LEMMA JobKept ==
    ASSUME NEW j \in Job, RollupInv, Rollup!TypeOK',
           job'[j] = job[j], counted'[j] = counted[j], started'[j] = started[j],
           known'[j] = known[j], done'[j] = done[j],
           written \subseteq written', \A e \in written : stamp'[e] = stamp[e],
           ~mixed'[j] => ~mixed[j] /\ \A b \in done[j] : rollup'[b] = rollup[b]
    PROVE  CountInv(j)'
<1>1. CountInv(j) /\ \A e \in Event : counted[j][e] \in 0..1
  BY DEF RollupInv, CountInv
<1>2. \A e \in Event : counted[j][e] = 1 => e \in written
  BY <1>1 DEF CountInv, HasRead
<1>3. Rollup!Aggregate(j)' = Rollup!Aggregate(j)
  <2>1. ASSUME NEW b \in Rollup!Bucket, NEW e \in Event
        PROVE  (IF Rollup!Closed(j, b)' /\ Rollup!Floor(stamp'[e]) = b THEN counted'[j][e] ELSE 0)
               = (IF Rollup!Closed(j, b) /\ Rollup!Floor(stamp[e]) = b THEN counted[j][e] ELSE 0)
    <3>1. CASE counted[j][e] = 1
      BY <1>2, <3>1 DEF Rollup!Closed
    <3>2. CASE counted[j][e] = 0
      BY <3>2
    <3> QED
      BY <1>1, <3>1, <3>2
  <2> QED
    BY <2>1 DEF Rollup!Aggregate, Rollup!Floor
<1>4. \A e \in Event : HasRead(j, e) => HasRead(j, e)'
  BY DEF HasRead, Rollup!Since, Rollup!Day
<1>5. known[j] \subseteq written /\ known[j] \subseteq Event
  BY <1>1 DEF CountInv, RollupInv, Rollup!TypeOK
<1>6. \A e \in Event : MustRead(j, e)' => MustRead(j, e)
  BY <1>5 DEF MustRead, Rollup!Since, Rollup!Day
<1>7. \A e \in known'[j] : stamp'[e] <= started'[j]
  BY <1>1, <1>5 DEF CountInv
<1> QED
  BY <1>1, <1>3, <1>4, <1>5, <1>6, <1>7 DEF CountInv, Rollup!Nothing

\* What is recorded does not change what the rows hold.
LEMMA LogKeepsRows ==
    ASSUME RollupInv, UNCHANGED rollup,
           written \subseteq written', \A e \in written : stamp'[e] = stamp[e]
    PROVE  RowsInv'
BY DEF RollupInv, RowsInv, Rollup!Floor, Rollup!Bucket

\* Recording an event.
LEMMA LogStep ==
    ASSUME RollupAssumption, RollupInv, NEW e \in Event,
           Rollup!Stamp(e) \/ Rollup!Append(e) \/ Rollup!AppendFails(e)
    PROVE  RollupInv'
<1> USE DEF Rollup!jobs
<1>1. Rollup!TypeOK' /\ LogInv'
  <2>1. CASE Rollup!Stamp(e)
    <3>1. /\ stamp' = [stamp EXCEPT ![e] = rollupTime] /\ appending' = appending \cup {e}
          /\ UNCHANGED <<rollupTime, written, torn, job, started, known, counted, done, mixed,
                         rollup>>
      BY <2>1 DEF Rollup!Stamp
    <3>2. rollupTime \in 0..RollupTime /\ rollupTime # Rollup!None
      BY DEF RollupInv, Rollup!TypeOK, Rollup!None, RollupAssumption
    <3>3. stamp' \in [Event -> 0..RollupTime \cup {Rollup!None}]
      BY <3>1, <3>2 DEF RollupInv, Rollup!TypeOK
    <3>4. Rollup!TypeOK'
      BY <3>1, <3>3 DEF RollupInv, Rollup!TypeOK, Rollup!Bucket, Rollup!Day, Rollup!Floor
    <3>5. LogInv'
      BY <3>1, <3>2, <3>4 DEF RollupInv, Rollup!TypeOK, LogInv
    <3> QED
      BY <3>4, <3>5
  <2>2. CASE Rollup!Append(e)
    BY <2>2 DEF Rollup!Append, RollupInv, Rollup!TypeOK, LogInv, Rollup!None, Rollup!Bucket,
                Rollup!Floor, RollupAssumption
  <2>3. CASE Rollup!AppendFails(e)
    <3>1. stamp[e] \in 0..RollupTime
      BY <2>3 DEF Rollup!AppendFails, RollupInv, Rollup!TypeOK, LogInv
    <3>2. Rollup!Day(stamp[e]) \in {Rollup!Day(t) : t \in 0..RollupTime}
      BY <3>1
    <3> QED
      BY <2>3, <3>2 DEF Rollup!AppendFails, RollupInv, Rollup!TypeOK, LogInv
  <2> QED
    BY <2>1, <2>2, <2>3
<1>2. /\ written \subseteq written' /\ \A f \in written : stamp'[f] = stamp[f]
      /\ UNCHANGED <<job, started, known, counted, done, mixed, rollup>>
  BY DEF Rollup!Stamp, Rollup!Append, Rollup!AppendFails, RollupInv, Rollup!TypeOK, LogInv
<1>3. \A j \in Job : CountInv(j)'
  BY <1>1, <1>2, JobKept
<1> QED
  BY <1>1, <1>2, <1>3, LogKeepsRows DEF RollupInv

\* A job that reads a file counts its lines once.
LEMMA ReadStep ==
    ASSUME RollupAssumption, RollupInv, NEW j \in Job,
           Rollup!ReadToday(j) \/ Rollup!ReadSince(j)
    PROVE  RollupInv'
<1> USE DEF Rollup!log
<1> DEFINE E == IF Rollup!ReadToday(j) THEN Rollup!Lines(j, Rollup!Day(started[j]))
                ELSE IF Rollup!OtherDay(j) THEN Rollup!Lines(j, Rollup!Day(Rollup!Since(j)))
                ELSE {}
           next2 == IF job[j] = "today" THEN "since" ELSE "persist"
<1>1. /\ job[j] = IF Rollup!ReadToday(j) THEN "today" ELSE "since"
      /\ counted' = [counted EXCEPT ![j] = Rollup!Adding(j, E)]
      /\ job' = [job EXCEPT ![j] = next2]
      /\ UNCHANGED <<rollupTime, stamp, written, appending, torn, started, known, done, mixed,
                     rollup>>
  BY DEF Rollup!ReadToday, Rollup!ReadSince
<1>t. /\ job \in [Job -> {"idle", "today", "since", "persist", "ended"}]
      /\ counted \in [Job -> [Event -> 0..2]]
  BY DEF RollupInv, Rollup!TypeOK
<1>2. \A e \in Event : e \in E <=>
          /\ e \in written /\ stamp[e] >= Rollup!Since(j)
          /\ \/ job[j] = "today" /\ Rollup!Day(stamp[e]) = Rollup!Day(started[j])
             \/ /\ job[j] = "since" /\ Rollup!Day(stamp[e]) = Rollup!Day(Rollup!Since(j))
                /\ Rollup!Day(Rollup!Since(j)) # Rollup!Day(started[j])
  BY <1>1 DEF Rollup!Lines, Rollup!OtherDay
<1> HIDE DEF E
<1>3. /\ job'[j] = next2
      /\ \A e \in Event : counted'[j][e] = counted[j][e] + (IF e \in E THEN 1 ELSE 0)
  BY <1>1, <1>t DEF Rollup!Adding
<1>4. \A e \in Event : counted[j][e] \in 0..1 /\ (counted[j][e] = 1 => HasRead(j, e))
  BY DEF RollupInv, CountInv
<1>5. job[j] = "today" => \A e \in Event : counted[j][e] = 0
  BY DEF RollupInv, CountInv, Rollup!Nothing
<1>6. job[j] = "since" => \A e \in Event : counted[j][e] = 1 =>
          Rollup!Day(stamp[e]) = Rollup!Day(started[j])
  BY <1>4 DEF HasRead
<1>7. job[j] \in {"today", "since"}
  BY <1>1
<1>8. \A e \in Event : counted[j][e] = 1 => e \notin E
  BY <1>2, <1>5, <1>6, <1>7
<1>9. \A e \in Event : counted'[j][e] \in 0..1
  BY <1>3, <1>4, <1>8
<1>10. \A e \in Event : counted'[j][e] = 1 <=> counted[j][e] = 1 \/ e \in E
  BY <1>3, <1>4, <1>8
<1>11. Rollup!TypeOK'
  <2>1. counted' \in [Job -> [Event -> 0..2]]
    <3>1. Rollup!Adding(j, E) \in [Event -> 0..2]
      BY <1>4, <1>t DEF Rollup!Adding
    <3> QED
      BY <1>1, <1>t, <3>1
  <2>2. job' \in [Job -> {"idle", "today", "since", "persist", "ended"}]
    BY <1>1, <1>t
  <2> QED
    BY <1>1, <2>1, <2>2 DEF RollupInv, Rollup!TypeOK, Rollup!Bucket, Rollup!Day, Rollup!Floor
<1>12. CountInv(j)'
  <2>1. \A e \in Event : counted'[j][e] = 1 => HasRead(j, e)'
    <3> SUFFICES ASSUME NEW e \in Event, counted'[j][e] = 1 PROVE HasRead(j, e)'
      OBVIOUS
    <3>1. CASE counted[j][e] = 1
      <4>1. HasRead(j, e)
        BY <1>4, <3>1
      <4> QED
        BY <1>1, <1>3, <1>7, <4>1 DEF HasRead, Rollup!Since, Rollup!Day
    <3>2. CASE e \in E
      BY <1>1, <1>2, <1>3, <1>7, <3>2 DEF HasRead, Rollup!Since, Rollup!Day
    <3> QED
      BY <1>10, <3>1, <3>2
  <2>2. \A e \in Event : MustRead(j, e)' => counted'[j][e] = 1
    <3> SUFFICES ASSUME NEW e \in Event, MustRead(j, e)' PROVE counted[j][e] = 1 \/ e \in E
      BY <1>10
    <3>1. /\ e \in known[j] /\ e \in written /\ stamp[e] >= Rollup!Since(j)
          /\ \/ Rollup!Day(stamp[e]) = Rollup!Day(started[j])
             \/ job[j] = "since" /\ Rollup!Day(stamp[e]) = Rollup!Day(Rollup!Since(j))
      BY <1>1, <1>3, <1>7 DEF MustRead, Rollup!Since, Rollup!Day, RollupInv, CountInv
    <3>2. CASE job[j] = "today"
      BY <1>2, <3>1, <3>2
    <3>3. CASE job[j] = "since"
      <4>1. Rollup!Day(stamp[e]) = Rollup!Day(started[j]) => counted[j][e] = 1
        BY <3>1, <3>3 DEF RollupInv, CountInv, MustRead
      <4> QED
        BY <1>2, <3>1, <3>3, <4>1
    <3> QED
      BY <1>7, <3>2, <3>3
  <2>3. done'[j] = {}
    BY <1>1, <1>7 DEF RollupInv, CountInv
  <2>4. known'[j] \subseteq written' /\ \A e \in known'[j] : stamp'[e] <= started'[j]
    BY <1>1 DEF RollupInv, CountInv
  <2> QED
    BY <1>3, <1>9, <2>1, <2>2, <2>3, <2>4 DEF CountInv
<1>13. \A k \in Job \ {j} : CountInv(k)'
  BY <1>1, <1>t, <1>11, JobKept
<1>14. LogInv' /\ RowsInv'
  BY <1>1, LogKeepsRows DEF RollupInv, LogInv
<1> QED
  BY <1>11, <1>12, <1>13, <1>14 DEF RollupInv

\* A job notes the time and what the files have.
LEMMA StartStep ==
    ASSUME RollupAssumption, RollupInv, NEW j \in Job, Rollup!Start(j)
    PROVE  RollupInv'
<1> USE DEF Rollup!log
<1>1. /\ job[j] \in {"idle", "ended"} /\ job' = [job EXCEPT ![j] = "today"]
      /\ started' = [started EXCEPT ![j] = rollupTime]
      /\ known' = [known EXCEPT ![j] = written]
      /\ UNCHANGED <<rollupTime, stamp, written, appending, torn, counted, done, mixed, rollup>>
  BY DEF Rollup!Start
<1>2. Rollup!TypeOK'
  BY <1>1 DEF RollupInv, Rollup!TypeOK, Rollup!Bucket, Rollup!Day, Rollup!Floor
<1>3. /\ job'[j] = "today" /\ started'[j] = rollupTime /\ known'[j] = written
      /\ counted'[j] = Rollup!Nothing /\ done'[j] = {}
  BY <1>1 DEF RollupInv, Rollup!TypeOK, CountInv
<1>4. \A e \in Event : counted'[j][e] = 0
  BY <1>3 DEF Rollup!Nothing
<1>5. \A e \in written : stamp'[e] <= rollupTime
  BY <1>1 DEF RollupInv, LogInv, Rollup!TypeOK
<1>6. CountInv(j)'
  BY <1>1, <1>3, <1>4, <1>5 DEF CountInv, Rollup!Nothing
<1>7. \A k \in Job \ {j} : CountInv(k)'
  BY <1>1, <1>2, JobKept DEF RollupInv, Rollup!TypeOK
<1>8. LogInv'
  BY <1>1 DEF RollupInv, LogInv, Rollup!TypeOK
<1> QED
  BY <1>1, <1>2, <1>6, <1>7, <1>8, LogKeepsRows DEF RollupInv

\* A row of a job counts, once, events that were written in its bucket.
LEMMA AggregateRow ==
    ASSUME RollupInv, NEW j \in Job, NEW b \in Rollup!Bucket
    PROVE  /\ Rollup!Aggregate(j)[b] \in [Event -> 0..2]
           /\ \A e \in Event :
                /\ Rollup!Aggregate(j)[b][e] \in 0..1
                /\ Rollup!Aggregate(j)[b][e] = 1 =>
                     e \in written /\ Rollup!Floor(stamp[e]) = b
<1>1. \A e \in Event : counted[j][e] \in 0..1 /\ (counted[j][e] = 1 => e \in written)
  BY DEF RollupInv, CountInv, HasRead
<1>2. Rollup!Aggregate(j)[b] = [e \in Event |->
          IF Rollup!Closed(j, b) /\ Rollup!Floor(stamp[e]) = b THEN counted[j][e] ELSE 0]
  BY DEF Rollup!Aggregate
<1>3. Rollup!Aggregate(j)[b] \in [Event -> 0..2]
  BY <1>1, <1>2
<1>4. ASSUME NEW e \in Event
      PROVE  /\ Rollup!Aggregate(j)[b][e] \in 0..1
             /\ Rollup!Aggregate(j)[b][e] = 1 =>
                  e \in written /\ Rollup!Floor(stamp[e]) = b
  BY <1>1, <1>2
<1> QED
  BY <1>3, <1>4

\* Buckets are numbers, so there is a first among those a job has not written.
LEMMA BucketsAreNumbers ==
    ASSUME RollupAssumption
    PROVE  /\ \A t \in Nat : Rollup!Floor(t) \in Nat /\ Rollup!Floor(t) <= t
           /\ Rollup!Bucket \in SUBSET Nat
<1>1. ASSUME NEW t \in Nat
      PROVE  Rollup!Floor(t) \in Nat /\ Rollup!Floor(t) <= t
  BY DEF Rollup!Floor, RollupAssumption
<1> QED
  BY <1>1 DEF Rollup!Bucket, RollupAssumption

\* The bucket a job writes next is the first of those it has yet to write.
LEMMA FirstMissing ==
    ASSUME RollupAssumption, NEW j \in Job, Rollup!Missing(j) # {}
    PROVE  Rollup!Min(Rollup!Missing(j)) \in Rollup!Missing(j)
<1>1. Rollup!Missing(j) \in SUBSET Nat
  BY BucketsAreNumbers DEF Rollup!Missing
<1>2. PICK b \in Rollup!Missing(j) : \A c \in Rollup!Missing(j) : b <= c
  BY <1>1, LeastOf
<1> QED
  BY <1>2 DEF Rollup!Min

\* A job that replaces a row.
LEMMA UpsertStep ==
    ASSUME RollupAssumption, RollupInv, NEW j \in Job, Rollup!Upsert(j)
    PROVE  RollupInv'
<1> USE DEF Rollup!log
<1> DEFINE b == Rollup!Min(Rollup!Missing(j))
<1>1. /\ job[j] = "persist" /\ Rollup!Missing(j) # {}
      /\ rollup' = [rollup EXCEPT ![b] = Rollup!Aggregate(j)[b]]
      /\ done' = [done EXCEPT ![j] = @ \cup {b}] /\ mixed' = Rollup!Mixed(j)
      /\ UNCHANGED <<rollupTime, stamp, written, appending, torn, job, started, known, counted>>
  BY DEF Rollup!Upsert
<1>2. b \in Rollup!Bucket
  BY <1>1, FirstMissing DEF Rollup!Missing
<1> HIDE DEF b
<1>3. Rollup!Aggregate(j)[b] \in [Event -> 0..2]
  BY <1>2, AggregateRow
<1>t. /\ rollup \in [Rollup!Bucket -> [Event -> 0..2]] /\ done \in [Job -> SUBSET Rollup!Bucket]
      /\ mixed \in [Job -> BOOLEAN]
  BY DEF RollupInv, Rollup!TypeOK
<1>4. Rollup!TypeOK'
  <2>1. rollup' \in [Rollup!Bucket -> [Event -> 0..2]] /\ done' \in [Job -> SUBSET Rollup!Bucket]
    BY <1>1, <1>2, <1>3, <1>t
  <2>2. mixed' \in [Job -> BOOLEAN]
    BY <1>1, Zenon DEF Rollup!Mixed
  <2>3. Rollup!Bucket' = Rollup!Bucket
    BY DEF Rollup!Bucket, Rollup!Floor
  <2> QED
    BY <1>1, <2>1, <2>2, <2>3 DEF RollupInv, Rollup!TypeOK, Rollup!Day
<1>5. LogInv'
  BY <1>1 DEF RollupInv, LogInv
<1>6. RowsInv'
  <2>1. \A e \in Event :
            /\ Rollup!Aggregate(j)[b][e] \in 0..1
            /\ Rollup!Aggregate(j)[b][e] = 1 => e \in written /\ Rollup!Floor(stamp[e]) = b
    BY <1>2, AggregateRow
  <2>2. ASSUME NEW c \in Rollup!Bucket, NEW e \in Event
        PROVE  /\ rollup'[c][e] \in 0..1
               /\ rollup'[c][e] = 1 => e \in written' /\ Rollup!Floor(stamp'[e]) = c
    <3>1. CASE c = b
      <4>1. rollup'[c] = Rollup!Aggregate(j)[b]
        BY <1>1, <1>2, <1>t, <3>1
      <4> QED
        BY <1>1, <2>1, <3>1, <4>1
    <3>2. CASE c # b
      <4>1. rollup'[c] = rollup[c]
        BY <1>1, <1>t, <3>2
      <4> QED
        BY <1>1, <4>1 DEF RollupInv, RowsInv
    <3> QED
      BY <3>1, <3>2
  <2> QED
    BY <2>2 DEF RowsInv, Rollup!Bucket, Rollup!Floor
<1>7. CountInv(j)'
  <2>1. mixed'[j] = mixed[j]
    BY <1>1, <1>t, Zenon DEF Rollup!Mixed
  <2>2. Rollup!Aggregate(j)' = Rollup!Aggregate(j)
    BY <1>1 DEF Rollup!Aggregate, Rollup!Closed, Rollup!Floor, Rollup!Bucket
  <2>3. done'[j] = done[j] \cup {b} /\ done[j] \subseteq Rollup!Bucket
    BY <1>1, <1>t
  <2>4. ~mixed'[j] => \A c \in done'[j] : rollup'[c] = Rollup!Aggregate(j)[c]
    <3> SUFFICES ASSUME ~mixed[j], NEW c \in done[j] \cup {b}
                 PROVE  rollup'[c] = Rollup!Aggregate(j)[c]
      BY <2>1, <2>3
    <3>1. CASE c = b
      BY <1>1, <1>2, <1>t, <3>1
    <3>2. CASE c # b
      <4>1. rollup[c] = Rollup!Aggregate(j)[c]
        BY <3>2 DEF RollupInv, CountInv
      <4> QED
        BY <1>1, <1>t, <2>3, <3>2, <4>1
    <3> QED
      BY <3>1, <3>2
  <2>5. /\ \A e \in Event : HasRead(j, e)' <=> HasRead(j, e)
        /\ \A e \in Event : MustRead(j, e)' <=> MustRead(j, e)
    BY <1>1 DEF HasRead, MustRead, Rollup!Since, Rollup!Day
  <2> QED
    BY <1>1, <2>2, <2>4, <2>5 DEF RollupInv, CountInv, Rollup!Nothing
<1>8. ASSUME NEW k \in Job \ {j}
      PROVE  CountInv(k)'
  <2>1. job[k] \in {"idle", "ended"} => done[k] = {}
    BY DEF RollupInv, CountInv
  <2>2. ~mixed'[k] => ~mixed[k] /\ job[k] \in {"idle", "ended"}
    BY <1>1, <1>8, Zenon DEF Rollup!Mixed
  <2>3. done'[k] = done[k]
    BY <1>1, <1>t
  <2> QED
    BY <1>1, <1>4, <2>1, <2>2, <2>3, JobKept
<1> QED
  BY <1>4, <1>5, <1>6, <1>7, <1>8 DEF RollupInv

\* A job that ends or dies: it prunes the rows, or leaves them.
LEMMA EndStep ==
    ASSUME RollupAssumption, RollupInv, NEW j \in Job, Rollup!Persist(j) \/ Rollup!Die(j)
    PROVE  RollupInv'
<1> USE DEF Rollup!log
<1> DEFINE how == IF Rollup!Persist(j) THEN "ended" ELSE "idle"
<1>1. /\ job' = [job EXCEPT ![j] = how]
      /\ started' = [started EXCEPT ![j] = 0] /\ known' = [known EXCEPT ![j] = {}]
      /\ counted' = [counted EXCEPT ![j] = Rollup!Nothing] /\ done' = [done EXCEPT ![j] = {}]
      /\ UNCHANGED <<rollupTime, stamp, written, appending, torn>>
      /\ mixed' = [(IF Rollup!Persist(j) THEN Rollup!Mixed(j) ELSE mixed) EXCEPT ![j] = FALSE]
      /\ rollup' = IF Rollup!Persist(j) THEN Rollup!Pruned(j) ELSE rollup
  BY DEF Rollup!Persist, Rollup!Die, Rollup!Ends
<1>t. /\ rollup \in [Rollup!Bucket -> [Event -> 0..2]] /\ mixed \in [Job -> BOOLEAN]
      /\ job \in [Job -> {"idle", "today", "since", "persist", "ended"}]
      /\ counted \in [Job -> [Event -> 0..2]] /\ started \in [Job -> 0..RollupTime]
      /\ known \in [Job -> SUBSET Event] /\ done \in [Job -> SUBSET Rollup!Bucket]
  BY DEF RollupInv, Rollup!TypeOK
<1>2. how \in {"ended", "idle"}
  OBVIOUS
<1> HIDE DEF how
<1>3. Rollup!Nothing \in [Event -> 0..2] /\ \A e \in Event : Rollup!Nothing[e] = 0
  BY DEF Rollup!Nothing
<1>4. \A b \in Rollup!Bucket : rollup'[b] = Rollup!Nothing \/ rollup'[b] = rollup[b]
  BY <1>1 DEF Rollup!Pruned
<1>5. Rollup!TypeOK'
  <2>1. rollup' \in [Rollup!Bucket -> [Event -> 0..2]]
    BY <1>1, <1>3, <1>t DEF Rollup!Pruned
  <2>2. mixed' \in [Job -> BOOLEAN]
    <3>1. Rollup!Mixed(j) \in [Job -> BOOLEAN]
      BY Zenon DEF Rollup!Mixed
    <3> QED
      BY <1>1, <1>t, <3>1
  <2>3. Rollup!Bucket' = Rollup!Bucket
    BY DEF Rollup!Bucket, Rollup!Floor
  <2>4. 0 \in 0..RollupTime
    BY DEF RollupAssumption
  <2>5. /\ job' \in [Job -> {"idle", "today", "since", "persist", "ended"}]
        /\ counted' \in [Job -> [Event -> 0..2]] /\ started' \in [Job -> 0..RollupTime]
        /\ known' \in [Job -> SUBSET Event] /\ done' \in [Job -> SUBSET Rollup!Bucket]
    BY <1>1, <1>2, <1>3, <1>t, <2>4
  <2> QED
    BY <1>1, <2>1, <2>2, <2>3, <2>5 DEF RollupInv, Rollup!TypeOK, Rollup!Day
<1>6. LogInv'
  <2>1. rollupTime >= 0
    BY DEF RollupInv, Rollup!TypeOK, RollupAssumption
  <2> QED
    BY <1>1, <1>t, <2>1 DEF RollupInv, LogInv
<1>7. RowsInv'
  <2>1. ASSUME NEW b \in Rollup!Bucket, NEW e \in Event
        PROVE  /\ rollup'[b][e] \in 0..1
               /\ rollup'[b][e] = 1 => e \in written' /\ Rollup!Floor(stamp'[e]) = b
    BY <1>1, <1>3, <1>4 DEF RollupInv, RowsInv
  <2> QED
    BY <2>1 DEF RowsInv, Rollup!Bucket, Rollup!Floor
<1>8. CountInv(j)'
  <2>1. /\ job'[j] \in {"ended", "idle"} /\ counted'[j] = Rollup!Nothing /\ done'[j] = {}
        /\ known'[j] = {}
    BY <1>1, <1>2, <1>t
  <2> QED
    BY <1>3, <2>1 DEF CountInv, Rollup!Nothing
<1>9. ASSUME NEW k \in Job \ {j}
      PROVE  CountInv(k)'
  <2>1. job[k] \in {"idle", "ended"} => done[k] = {}
    BY DEF RollupInv, CountInv
  <2>2. /\ job'[k] = job[k] /\ counted'[k] = counted[k] /\ started'[k] = started[k]
        /\ known'[k] = known[k] /\ done'[k] = done[k]
    BY <1>1, <1>t
  <2>3. CASE Rollup!Persist(j)
    <3>1. mixed'[k] = Rollup!Mixed(j)[k]
      <4>1. Rollup!Mixed(j) \in [Job -> BOOLEAN]
        BY Zenon DEF Rollup!Mixed
      <4> QED
        BY <1>1, <1>9, <2>3, <4>1
    <3>2. ~Rollup!Mixed(j)[k] => ~mixed[k] /\ job[k] \in {"idle", "ended"}
      BY <1>9, Zenon DEF Rollup!Mixed
    <3> QED
      BY <1>1, <1>5, <2>1, <2>2, <3>1, <3>2, JobKept
  <2>4. CASE ~Rollup!Persist(j)
    <3>1. mixed'[k] = mixed[k] /\ rollup' = rollup
      BY <1>1, <1>9, <1>t, <2>4
    <3> QED
      BY <1>1, <1>5, <2>2, <3>1, JobKept
  <2> QED
    BY <2>3, <2>4
<1> QED
  BY <1>5, <1>6, <1>7, <1>8, <1>9 DEF RollupInv

\* Every step keeps the invariant.
LEMMA RollupStep ==
    ASSUME RollupAssumption
    PROVE  RollupInv /\ (Rollup!Next \/ UNCHANGED rollupVars) => RollupInv'
<1> SUFFICES ASSUME RollupInv, Rollup!Next \/ UNCHANGED rollupVars PROVE RollupInv'
  OBVIOUS
<1>1. ASSUME Rollup!Tick \/ UNCHANGED rollupVars
      PROVE  RollupInv'
  <2>1. /\ rollupTime' \in 0..RollupTime /\ rollupTime <= rollupTime'
        /\ UNCHANGED <<stamp, written, appending, torn, job, started, known, counted, done,
                       mixed, rollup>>
    BY <1>1 DEF Rollup!Tick, rollupVars, Rollup!log, Rollup!jobs, RollupInv, Rollup!TypeOK,
                RollupAssumption
  <2>2. Rollup!TypeOK'
    BY <2>1 DEF RollupInv, Rollup!TypeOK, Rollup!Bucket, Rollup!Floor, Rollup!Day
  <2>3. LogInv'
    <3>1. rollupTime \in Int /\ rollupTime' \in Int
      BY <2>1 DEF RollupInv, Rollup!TypeOK
    <3>2. \A e \in Event : stamp[e] \in Int
      BY DEF RollupInv, Rollup!TypeOK, Rollup!None
    <3>3. \A j \in Job : started[j] \in Int
      BY DEF RollupInv, Rollup!TypeOK
    <3> QED
      BY <2>1, <3>1, <3>2, <3>3 DEF RollupInv, LogInv
  <2> QED
    BY <2>1, <2>2, <2>3, JobKept, LogKeepsRows DEF RollupInv
<1> QED
  BY <1>1, LogStep, StartStep, ReadStep, UpsertStep, EndStep DEF Rollup!Next

\* The log begins empty, and the table too.
LEMMA RollupInit == RollupAssumption /\ Rollup!Init => RollupInv
<1> SUFFICES ASSUME RollupAssumption, Rollup!Init PROVE RollupInv
  OBVIOUS
<1>1. Rollup!Nothing \in [Event -> 0..2] /\ \A e \in Event : Rollup!Nothing[e] = 0
  BY DEF Rollup!Nothing
<1>2. Rollup!TypeOK
  BY <1>1 DEF Rollup!Init, Rollup!TypeOK, RollupAssumption
<1>3. LogInv /\ RowsInv
  BY <1>1 DEF Rollup!Init, LogInv, RowsInv, Rollup!None, RollupAssumption
<1>4. \A j \in Job : CountInv(j)
  BY <1>1 DEF Rollup!Init, CountInv
<1> QED
  BY <1>2, <1>3, <1>4 DEF RollupInv

\* The invariant holds in every state.
LEMMA RollupInvariant == ASSUME RollupAssumption PROVE Spec => []RollupInv
<1>1. Init => RollupInv
  BY RollupInit DEF Init
<1>2. RollupInv /\ [Next]_allVars => RollupInv'
  <2>1. [Next]_allVars => Rollup!Next \/ UNCHANGED rollupVars
    BY DEF Next, allVars
  <2> QED
    BY <2>1, RollupStep
<1>3. QED
  BY <1>1, <1>2, PTL DEF Spec

\* The rollup counts as the standard module does.
LEMMA RollupCountsAlike == \A S : Rollup!Cardinality(S) = Cardinality(S)
BY DEF Rollup!Cardinality, Cardinality

\* However jobs overlap, die and run around midnight, the page of a window
\* counts no event twice and none that the log has not got.
THEOREM PageCountsEventsOnce == ASSUME RollupAssumption PROVE Spec => []PageCountsOnce
<1>1. RollupInv => PageCountsOnce
  <2> SUFFICES ASSUME RollupInv, NEW cutoff \in 0..rollupTime, Rollup!RollupCount(cutoff) > 0
               PROVE  Rollup!PageCount(cutoff)
                        <= Rollup!Cardinality({e \in written : stamp[e] >= cutoff})
    BY DEF PageCountsOnce, Rollup!PageCountsOnce
  <2> DEFINE page == UNION {Rollup!InRow(b, e) : b \in {c \in Rollup!Bucket :
                                                       Rollup!InPage(c, cutoff)}, e \in Event}
             lines == {e \in written : stamp[e] >= cutoff}
             event == [p \in page |-> p[2]]
  <2>1. ASSUME NEW p \in page
        PROVE  /\ p[2] \in lines /\ p = <<Rollup!Floor(stamp[p[2]]), p[2], 1>>
    <3>1. PICK b \in Rollup!Bucket, e \in Event :
              Rollup!InPage(b, cutoff) /\ p \in Rollup!InRow(b, e)
      OBVIOUS
    <3>2. PICK n \in 1..rollup[b][e] : p = <<b, e, n>>
      BY <3>1 DEF Rollup!InRow
    <3>3. rollup[b][e] = 1 /\ e \in written /\ Rollup!Floor(stamp[e]) = b /\ n = 1
      BY <3>2 DEF RollupInv, RowsInv
    <3>4. stamp[e] \in Nat /\ cutoff \in Nat
      BY <3>3 DEF RollupInv, LogInv, Rollup!TypeOK, RollupAssumption
    <3>5. b \in Nat /\ b <= stamp[e] /\ b >= cutoff
      BY <3>1, <3>3, <3>4, BucketsAreNumbers DEF Rollup!InPage
    <3> QED
      BY <3>2, <3>3, <3>4, <3>5
  <2>2. IsFiniteSet(lines)
    <3>1. lines \in SUBSET Event
      BY DEF RollupInv, Rollup!TypeOK
    <3> QED
      BY <3>1, FS_Subset DEF RollupAssumption
  <2> HIDE DEF page, lines
  <2>3. event \in Injection(page, lines)
    <3>1. event \in [page -> lines]
      BY <2>1
    <3>2. \A p, q \in page : event[p] = event[q] => p = q
      BY <2>1
    <3> HIDE DEF event
    <3> QED
      BY <3>1, <3>2, Fun_IsInj
  <2>4. Cardinality(page) <= Cardinality(lines)
    BY <2>2, <2>3, FS_Injection
  <2>5. Rollup!PageCount(cutoff) = Cardinality(page)
    BY RollupCountsAlike DEF Rollup!PageCount, Rollup!RollupCount, page
  <2> QED
    BY <2>4, <2>5, RollupCountsAlike DEF lines
<1>2. QED
  BY <1>1, RollupInvariant, PTL

\* What lies between two times no further apart than a day is of the day of one.
LEMMA OneOfTwoDays ==
    ASSUME NEW D \in Nat \ {0}, NEW a \in Int, NEW b \in Int, NEW c \in Int,
           a <= b, b <= c, c - a <= D
    PROVE  b \div D = a \div D \/ b \div D = c \div D
<1> DEFINE q == a \div D  r == b \div D  s == c \div D
<1>1. /\ q \in Int /\ D * q <= a /\ a < D * q + D
      /\ r \in Int /\ D * r <= b /\ b < D * r + D
      /\ s \in Int /\ D * s <= c /\ c < D * s + D
  OBVIOUS
<1> HIDE DEF q, r, s
<1>2. \A i, k \in Int : i < k => D * i + D <= D * k
  <2> SUFFICES ASSUME NEW i \in Int, NEW k \in Int, i < k PROVE D * i + D <= D * k
    OBVIOUS
  <2>1. k - i - 1 \in Nat
    OBVIOUS
  <2>2. D * (k - i - 1) \in Nat
    BY <2>1
  <2>3. D * (k - i - 1) = D * k - D * i - D
    BY <2>1
  <2>4. D * k \in Int /\ D * i \in Int
    OBVIOUS
  <2> QED
    BY <2>2, <2>3, <2>4
<1>3. q <= r /\ r <= s
  <2>1. ~(r < q) /\ ~(s < r)
    BY <1>1, <1>2
  <2> QED
    BY <1>1, <2>1
<1>4. ~(q < r /\ r < s)
  <2> SUFFICES ASSUME q < r, r < s PROVE FALSE
    OBVIOUS
  <2>1. D * q + D <= D * r /\ D * r + D <= D * s
    BY <1>1, <1>2
  <2>2. D * q \in Int /\ D * r \in Int /\ D * s \in Int
    BY <1>1
  <2> QED
    BY <1>1, <2>1, <2>2
<1> QED
  BY <1>1, <1>3, <1>4 DEF q, r, s

\* A run whose window is no longer than a day, and that ends undisturbed, has
\* counted all that the files held when it started in the buckets of its window:
\* whichever runs died before it, and whatever lines came late.
THEOREM RunsHealTheTable ==
    ASSUME RollupAssumption, Lookback <= DayLength
    PROVE  Spec => RunsHeal
<1>1. RollupInv /\ [Next]_allVars => [Rollup!HealsAtItsEnd]_rollupVars
  <2> SUFFICES ASSUME RollupInv, Rollup!Next, NEW j \in Job,
                      job[j] # "ended", job'[j] = "ended", ~mixed[j], NEW e \in known[j],
                      Rollup!Floor(stamp[e]) >= Rollup!Since(j),
                      Rollup!Closed(j, Rollup!Floor(stamp[e])),
                      Rollup!Floor(stamp[e]) >= started[j] - Retain
               PROVE  rollup'[Rollup!Floor(stamp[e])][e] = 1
    <3>1. [Next]_allVars => Rollup!Next \/ UNCHANGED rollupVars
      BY DEF Next, allVars
    <3> QED
      BY <3>1, Zenon DEF Rollup!HealsAtItsEnd
  <2> DEFINE b == Rollup!Floor(stamp[e])
  <2>1. /\ job[j] = "persist" /\ Rollup!Missing(j) = {} /\ rollup' = Rollup!Pruned(j)
    BY DEF Rollup!Next, Rollup!Stamp, Rollup!Append, Rollup!AppendFails, Rollup!Start,
           Rollup!ReadToday, Rollup!ReadSince, Rollup!Upsert, Rollup!Persist, Rollup!Die,
           Rollup!Ends, Rollup!Tick, Rollup!jobs, RollupInv, Rollup!TypeOK
  <2>2. /\ e \in written /\ e \in Event /\ stamp[e] \in 0..RollupTime /\ stamp[e] <= started[j]
        /\ started[j] \in Nat /\ Rollup!Since(j) \in Int /\
              started[j] - Rollup!Since(j) <= DayLength
    BY DEF RollupInv, CountInv, LogInv, Rollup!TypeOK, Rollup!Since, RollupAssumption
  <2>3. b \in Rollup!Bucket /\ b \in Nat /\ b <= stamp[e]
    BY <2>2, BucketsAreNumbers DEF Rollup!Bucket, RollupAssumption
  <2>4. stamp[e] >= Rollup!Since(j)
    BY <2>2, <2>3
  <2>5. \/ Rollup!Day(stamp[e]) = Rollup!Day(started[j])
        \/ Rollup!Day(stamp[e]) = Rollup!Day(Rollup!Since(j))
    BY <2>2, <2>4, OneOfTwoDays DEF Rollup!Day, RollupAssumption
  <2>6. counted[j][e] = 1
    BY <2>1, <2>2, <2>4, <2>5 DEF RollupInv, CountInv, MustRead
  <2>7. Rollup!Aggregate(j)[b][e] = 1
    BY <2>2, <2>3, <2>6 DEF Rollup!Aggregate
  <2>8. b \in done[j]
    <3>1. Rollup!Aggregate(j)[b] # Rollup!Nothing
      BY <2>2, <2>7 DEF Rollup!Nothing
    <3> QED
      BY <2>1, <2>3, <3>1 DEF Rollup!Missing
  <2>9. rollup[b] = Rollup!Aggregate(j)[b]
    BY <2>8 DEF RollupInv, CountInv
  <2>10. rollup'[b] = rollup[b]
    <3>1. ~(b < started[j] - Retain)
      BY <2>2, <2>3 DEF RollupAssumption
    <3> QED
      BY <2>1, <2>3, <3>1 DEF Rollup!Pruned
  <2> QED
    BY <2>7, <2>9, <2>10
<1>2. QED
  BY <1>1, RollupInvariant, PTL DEF Spec, RunsHeal

-----------------------------------------------------------------------------
(* The rolling windows of the strategies                                   *)

\* Prices are numbers, and so is every length of time; the buffer of the average
\* retains its window ("2 min - covers the 60s avg window + slack").
WindowsAssumption ==
    /\ Reference \subseteq Nat /\ Strike \in Int
    /\ LagWindow \in Nat /\ AvgWindow \in Nat /\ Retained \in Nat /\ AvgWindow <= Retained
    /\ Close \in Nat /\ WindowTime \in Nat

\* A tick.
Record == [ts : Nat, price : Reference]

\* A queue has the newest ticks of a log, and what it has forgotten is older than
\* its window.
TailOf(queue, log, window, at) ==
    \E d \in 0..Len(log) :
        /\ Len(queue) = Len(log) - d /\ (d = Len(log) => d = 0)
        /\ \A i \in 1..Len(queue) : queue[i] = log[i + d]
        /\ \A i \in 1..d : log[i].ts < at - window

\* The log is in the order of time.
InOrder == \A i, k \in 1..Len(history) : i <= k => history[i].ts <= history[k].ts

\* The inductive invariant of the windows.
WindowsInv ==
    /\ Windows!TypeOK /\ InOrder
    /\ TailOf(ticks, history, LagWindow, now) /\ TailOf(buffer, history, Retained, now)
    /\ Windows!LagSignalIsRecent

\* What record leaves of a queue: the new tick and those of its window.
LEMMA RecordedTail ==
    ASSUME NEW log \in Seq(Record), NEW queue \in Seq(Record), NEW window \in Nat,
           NEW price \in Reference, now \in Nat, TailOf(queue, log, window, now)
    PROVE  LET new == Windows!Recorded(queue, price, window)
           IN  /\ new \in Seq(Record)
               /\ TailOf(new, Append(log, [ts |-> now, price |-> price]), window, now)
<1> DEFINE rec  == [ts |-> now, price |-> price]
           all  == Append(queue, rec)
           n    == Len(queue) + 1
           longer == Append(log, rec)
           kept == {i \in DOMAIN all : Windows!Kept(all[i], window)}
           first == Windows!Min(kept)
           new  == SubSeq(all, first, n)
<1>1. rec \in Record /\ rec.ts = now
  BY DEF Record
<1>2. /\ n \in Nat /\ Len(log) \in Nat /\ Len(queue) \in Nat
      /\ all \in Seq(Record) /\ Len(all) = n /\ DOMAIN all = 1..n
      /\ all[n] = rec /\ \A i \in 1..Len(queue) : all[i] = queue[i]
      /\ longer \in Seq(Record) /\ Len(longer) = Len(log) + 1
      /\ longer[Len(log) + 1] = rec /\ \A i \in 1..Len(log) : longer[i] = log[i]
  <2> HIDE DEF rec
  <2> QED
    BY <1>1
<1> HIDE DEF rec, all, longer
<1>3. first \in kept /\ \A i \in kept : first <= i
  <2>1. n \in kept
    BY <1>1, <1>2 DEF Windows!Kept
  <2>2. kept \in SUBSET Nat
    BY <1>2
  <2>3. \E i \in kept : \A k \in kept : i <= k
    BY <2>1, <2>2, LeastOf
  <2> HIDE DEF kept
  <2> QED
    BY <2>3 DEF Windows!Min
<1>4. first \in 1..n /\ \A i \in 1..(first - 1) : all[i].ts < now - window
  <2>1. first \in 1..n
    BY <1>2, <1>3, Zenon
  <2>2. ASSUME NEW i \in 1..(first - 1)
        PROVE  all[i].ts < now - window
    <3>1. i \in 1..n /\ i < first /\ ~(first <= i)
      BY <1>2, <2>1
    <3>2. ~Windows!Kept(all[i], window)
      BY <1>2, <1>3, <3>1, Zenon
    <3>3. all[i] \in Record
      BY <1>2, <3>1
    <3> QED
      BY <3>2, <3>3 DEF Windows!Kept, Record
  <2> QED
    BY <2>1, <2>2
<1> HIDE DEF kept, first, n
<1>5. /\ new \in Seq(Record) /\ Len(new) = n - first + 1
      /\ \A i \in 1..(n - first + 1) : new[i] = all[first + i - 1]
  BY <1>2, <1>4, SubSeqProperties
<1> HIDE DEF new
<1>6. PICK d \in 0..Len(log) :
          /\ Len(queue) = Len(log) - d /\ (d = Len(log) => d = 0)
          /\ \A i \in 1..Len(queue) : queue[i] = log[i + d]
          /\ \A i \in 1..d : log[i].ts < now - window
  BY DEF TailOf
<1>7. TailOf(new, longer, window, now)
  <2> DEFINE e == d + first - 1
  <2>1. /\ n = Len(queue) + 1 /\ n = Len(log) - d + 1 /\ d \in Nat /\ first \in Nat
        /\ 1 <= first /\ first <= n /\ d <= Len(log)
    BY <1>2, <1>4, <1>6 DEF n
  <2>2. e \in 0..Len(longer) /\ Len(new) = Len(longer) - e /\ e # Len(longer)
    BY <1>2, <1>5, <2>1
  <2>3. ASSUME NEW i \in 1..Len(new)
        PROVE  new[i] = longer[i + e]
    <3>1. new[i] = all[first + i - 1] /\ first + i - 1 \in 1..n
      BY <1>5, <2>1
    <3>2. CASE first + i - 1 = n
      <4>1. i + e = Len(log) + 1
        BY <2>1, <3>2
      <4> QED
        BY <1>2, <3>1, <3>2, <4>1
    <3>3. CASE first + i - 1 # n
      <4> DEFINE q == first + i - 1
      <4>1. q \in 1..Len(queue) /\ q + d = i + e /\ q + d \in 1..Len(log)
        BY <2>1, <3>1, <3>3
      <4>2. all[q] = queue[q] /\ queue[q] = log[q + d] /\ longer[q + d] = log[q + d]
        BY <1>2, <1>6, <4>1
      <4> QED
        BY <3>1, <4>1, <4>2
    <3> QED
      BY <3>2, <3>3
  <2>4. ASSUME NEW i \in 1..e
        PROVE  longer[i].ts < now - window
    <3>1. CASE i <= d
      <4>1. i \in 1..d /\ i \in 1..Len(log)
        BY <2>1, <3>1
      <4> QED
        BY <1>2, <1>6, <4>1
    <3>2. CASE i > d
      <4>1. i - d \in 1..(first - 1) /\ i - d \in 1..Len(queue) /\ i \in 1..Len(log)
        BY <2>1, <3>2
      <4>2. all[i - d] = queue[i - d] /\ queue[i - d] = log[i] /\ longer[i] = log[i]
        BY <1>2, <1>6, <2>1, <4>1
      <4> QED
        BY <1>4, <4>1, <4>2
    <3> QED
      BY <2>1, <3>1, <3>2
  <2> HIDE DEF e
  <2> QED
    BY <2>2, <2>3, <2>4 DEF TailOf
<1>8. Windows!Recorded(queue, price, window) = new
  BY <1>2 DEF Windows!Recorded, new, first, kept, all, rec
<1> QED
  BY <1>5, <1>7, <1>8 DEF longer, rec

\* The windows count as the standard module does.
LEMMA WindowsCountAlike == \A S : Windows!Cardinality(S) = Cardinality(S)
BY DEF Windows!Cardinality, Cardinality

\* The units of the prices of some ticks: their number is the total.
Units(queue, I) == UNION {{i} \X (1..queue[i].price) : i \in I}

\* A unit is of a tick and within its price.
LEMMA UnitOf ==
    \A queue, I, u : u \in Units(queue, I) <=>
        \E i \in I : \E n \in 1..queue[i].price : u = <<i, n>>
BY DEF Units

\* Finitely many ticks have finitely many units, and their total is a number.
LEMMA TotalIsNumber ==
    ASSUME NEW queue, NEW I, IsFiniteSet(I), \A i \in I : queue[i].price \in Nat
    PROVE  /\ IsFiniteSet(Units(queue, I)) /\ Windows!Total(queue, I) \in Nat
           /\ Windows!Total(queue, I) = Cardinality(Units(queue, I))
<1> DEFINE f == [i \in I |-> {i} \X (1..queue[i].price)]
           parts == {{i} \X (1..queue[i].price) : i \in I}
<1>1. IsFiniteSet(parts)
  <2>1. f \in Surjection(I, parts)
    BY Fun_IsSurj
  <2> HIDE DEF f, parts
  <2> QED
    BY <2>1, FS_Surjection
<1>2. ASSUME NEW p \in parts
      PROVE  IsFiniteSet(p)
  <2>1. PICK i \in I : p = {i} \X (1..queue[i].price)
    OBVIOUS
  <2>2. IsFiniteSet({i})
    BY FS_Singleton
  <2>3. 1 \in Int /\ queue[i].price \in Int
    OBVIOUS
  <2>4. IsFiniteSet(1..queue[i].price)
    BY <2>3, FS_Interval, Zenon
  <2> QED
    BY <2>1, <2>2, <2>4, FS_Product
<1>3. IsFiniteSet(Units(queue, I))
  <2>1. Units(queue, I) = UNION parts
    BY DEF Units
  <2> HIDE DEF parts
  <2> QED
    BY <1>1, <1>2, <2>1, FS_UNION
<1>4. Windows!Total(queue, I) = Cardinality(Units(queue, I))
  BY WindowsCountAlike, Zenon DEF Windows!Total, Units
<1> QED
  BY <1>3, <1>4, FS_CardinalityType

\* A total lies between what the ticks would make if all had the least price and
\* if all had the greatest.
LEMMA TotalBounds ==
    ASSUME NEW queue, NEW I, IsFiniteSet(I), \A i \in I : queue[i].price \in Nat,
           NEW m \in Nat
    PROVE  /\ (\A i \in I : m <= queue[i].price) =>
                  Cardinality(I) * m <= Windows!Total(queue, I)
           /\ (\A i \in I : queue[i].price <= m) =>
                  Windows!Total(queue, I) <= Cardinality(I) * m
<1> DEFINE box == I \X (1..m)
<1>1. IsFiniteSet(box) /\ Cardinality(box) = Cardinality(I) * m
  <2>1. IsFiniteSet(1..m) /\ Cardinality(1..m) = m
    BY FS_Interval
  <2> QED
    BY <2>1, FS_Product
<1>2. /\ IsFiniteSet(Units(queue, I))
      /\ Windows!Total(queue, I) = Cardinality(Units(queue, I))
  BY TotalIsNumber
<1>3. ASSUME \A i \in I : m <= queue[i].price
      PROVE  box \subseteq Units(queue, I)
  <2> SUFFICES ASSUME NEW i \in I, NEW n \in 1..m
               PROVE  <<i, n>> \in Units(queue, I)
    OBVIOUS
  <2>1. n \in 1..queue[i].price
    BY <1>3
  <2> QED
    BY <2>1, UnitOf, Zenon
<1>4. ASSUME \A i \in I : queue[i].price <= m
      PROVE  Units(queue, I) \subseteq box
  <2> SUFFICES ASSUME NEW u \in Units(queue, I)
               PROVE  u \in box
    OBVIOUS
  <2>1. PICK i \in I : \E n \in 1..queue[i].price : u = <<i, n>>
    <3>1. u \in Units(queue, I) => \E i \in I : \E n \in 1..queue[i].price : u = <<i, n>>
      BY UnitOf, SMT
    <3> QED
      BY <3>1
  <2>2. PICK n \in 1..queue[i].price : u = <<i, n>>
    BY <2>1
  <2>3. n \in 1..m
    BY <1>4
  <2> QED
    BY <2>2, <2>3
<1> HIDE DEF box
<1> QED
  BY <1>1, <1>2, <1>3, <1>4, FS_Subset

\* A queue and the log have the same ticks, as many and of the same total, in
\* every part of its window.
LEMMA TailIsExact ==
    ASSUME NEW queue \in Seq(Record), history \in Seq(Record), WindowsAssumption,
           NEW window \in Nat, now \in Nat, TailOf(queue, history, window, now),
           NEW from \in Int, from >= now - window, NEW to \in Int
    PROVE  Windows!SameTicks(queue, from, to)
<1> DEFINE all == Windows!InWindow(history, from, to)
           own == Windows!InWindow(queue, from, to)
<1>1. PICK d \in 0..Len(history) :
          /\ Len(queue) = Len(history) - d
          /\ \A i \in 1..Len(queue) : queue[i] = history[i + d]
          /\ \A i \in 1..d : history[i].ts < now - window
  BY DEF TailOf
<1>2. /\ Len(history) \in Nat /\ Len(queue) \in Nat
      /\ \A i \in 1..Len(history) : history[i].ts \in Nat /\ history[i].price \in Nat
      /\ \A i \in 1..Len(queue) : queue[i].ts \in Nat /\ queue[i].price \in Nat
  <2>1. \A i \in 1..Len(history) : history[i] \in Record
    OBVIOUS
  <2>2. \A i \in 1..Len(queue) : queue[i] \in Record
    OBVIOUS
  <2>3. \A x \in Record : x.ts \in Nat /\ x.price \in Nat
    BY DEF Record, WindowsAssumption
  <2> QED
    BY <2>1, <2>2, <2>3
<1>3. /\ all = {i \in 1..Len(history) : from <= history[i].ts /\ history[i].ts <= to}
      /\ own = {i \in 1..Len(queue) : from <= queue[i].ts /\ queue[i].ts <= to}
  BY DEF Windows!InWindow
<1> HIDE DEF all, own
<1>4. \A i \in own : i + d \in all /\ queue[i] = history[i + d]
  BY <1>1, <1>2, <1>3
<1>5. \A k \in all : k - d \in own /\ queue[k - d] = history[k]
  <2> SUFFICES ASSUME NEW k \in all PROVE k - d \in own /\ queue[k - d] = history[k]
    OBVIOUS
  <2>1. k \in 1..Len(history) /\ ~(history[k].ts < now - window)
    BY <1>2, <1>3
  <2>2. k - d \in 1..Len(queue) /\ (k - d) + d = k
    BY <1>1, <1>2, <2>1
  <2> QED
    BY <1>1, <1>3, <2>2
<1>6. own \subseteq Nat /\ all \subseteq Nat /\ IsFiniteSet(own) /\ IsFiniteSet(all)
  <2>1. IsFiniteSet(1..Len(queue)) /\ IsFiniteSet(1..Len(history))
    BY <1>2, FS_Interval
  <2> QED
    BY <1>2, <1>3, <2>1, FS_Subset
<1>7. Cardinality(own) = Cardinality(all)
  <2> DEFINE f == [i \in own |-> i + d]
  <2>1. f \in Bijection(own, all)
    <3>1. f \in [own -> all]
      BY <1>4
    <3>2. \A i, k \in own : f[i] = f[k] => i = k
      BY <1>6
    <3>3. \A k \in all : \E i \in own : f[i] = k
      BY <1>5, <1>6
    <3> HIDE DEF f
    <3>4. f \in Injection(own, all) /\ f \in Surjection(own, all)
      BY <3>1, <3>2, <3>3, Fun_IsInj, Fun_IsSurj
    <3> QED
      BY <3>4 DEF Bijection
  <2> HIDE DEF f
  <2> QED
    BY <1>6, <2>1, FS_Bijection DEF ExistsBijection
<1>8. Cardinality(Units(queue, own)) = Cardinality(Units(history, all))
  <2> DEFINE P == Units(queue, own)
             Q == Units(history, all)
             g == [u \in P |-> <<u[1] + d, u[2]>>]
  <2>1. ASSUME NEW u \in P
        PROVE  /\ u[1] \in own /\ u = <<u[1], u[2]>> /\ u[2] \in 1..queue[u[1]].price
               /\ <<u[1] + d, u[2]>> \in Q
    <3>1. PICK i \in own : \E n \in 1..queue[i].price : u = <<i, n>>
      <4>1. u \in P => \E i \in own : \E n \in 1..queue[i].price : u = <<i, n>>
        BY UnitOf, SMT
      <4> QED
        BY <4>1
    <3>2. PICK n \in 1..queue[i].price : u = <<i, n>>
      BY <3>1
    <3>3. i + d \in all /\ n \in 1..history[i + d].price
      BY <1>4
    <3>4. <<i + d, n>> \in Q
      BY <3>3, UnitOf, Zenon
    <3> QED
      BY <3>2, <3>4
  <2>2. ASSUME NEW v \in Q
        PROVE  \E u \in P : <<u[1] + d, u[2]>> = v
    <3>1. PICK k \in all : \E n \in 1..history[k].price : v = <<k, n>>
      <4>1. v \in Q => \E k \in all : \E n \in 1..history[k].price : v = <<k, n>>
        BY UnitOf, SMT
      <4> QED
        BY <4>1
    <3>2. PICK n \in 1..history[k].price : v = <<k, n>>
      BY <3>1
    <3>3. k - d \in own /\ n \in 1..queue[k - d].price /\ (k - d) + d = k
      BY <1>5, <1>6
    <3>4. <<k - d, n>> \in P
      BY <3>3, UnitOf, Zenon
    <3> QED
      BY <3>2, <3>3, <3>4
  <2>3. IsFiniteSet(P)
    BY <1>2, <1>3, <1>6, TotalIsNumber
  <2> HIDE DEF P, Q
  <2>4. g \in Bijection(P, Q)
    <3>1. g \in [P -> Q]
      BY <2>1
    <3>2. \A u, w \in P : g[u] = g[w] => u = w
      <4> SUFFICES ASSUME NEW u \in P, NEW w \in P, g[u] = g[w] PROVE u = w
        OBVIOUS
      <4>1. u[1] \in Nat /\ w[1] \in Nat /\ u = <<u[1], u[2]>> /\ w = <<w[1], w[2]>>
        BY <1>6, <2>1
      <4>2. u[1] + d = w[1] + d /\ u[2] = w[2]
        OBVIOUS
      <4>3. u[1] = w[1]
        BY <4>1, <4>2
      <4> QED
        BY <4>1, <4>2, <4>3, Zenon
    <3>3. \A v \in Q : \E u \in P : g[u] = v
      BY <2>2
    <3> HIDE DEF g
    <3>4. g \in Injection(P, Q) /\ g \in Surjection(P, Q)
      BY <3>1, <3>2, <3>3, Fun_IsInj, Fun_IsSurj
    <3> QED
      BY <3>4 DEF Bijection
  <2> HIDE DEF g
  <2>5. Cardinality(P) = Cardinality(Q)
    BY <2>3, <2>4, FS_Bijection DEF ExistsBijection
  <2> QED
    BY <2>5 DEF P, Q
<1>9. /\ Windows!Total(queue, own) = Cardinality(Units(queue, own))
      /\ Windows!Total(history, all) = Cardinality(Units(history, all))
  BY <1>2, <1>3, <1>6, TotalIsNumber
<1> QED
  BY <1>7, <1>8, <1>9, WindowsCountAlike, Zenon DEF Windows!SameTicks, all, own

\* A set of numbers that has a bound has a greatest.
LEMMA GreatestOf ==
    ASSUME NEW S \in SUBSET Nat, S # {}, NEW b \in Nat, \A i \in S : i <= b
    PROVE  \E i \in S : \A k \in S : k <= i
<1> DEFINE bounds == {x \in Nat : \A i \in S : i <= x}
<1>1. PICK x \in bounds : \A y \in bounds : x <= y
  <2>1. bounds \in SUBSET Nat /\ bounds # {}
    OBVIOUS
  <2> HIDE DEF bounds
  <2> QED
    BY <2>1, LeastOf
<1>2. x \in S
  <2>1. SUFFICES ASSUME x \notin S PROVE FALSE
    OBVIOUS
  <2>2. \A i \in S : i <= x - 1 /\ x - 1 \in Nat
    BY <2>1
  <2>3. x - 1 \in bounds
    BY <2>2
  <2>4. x <= x - 1
    BY <1>1, <2>3
  <2> QED
    BY <2>4
<1> QED
  BY <1>2

\* No price is greater than the total.
LEMMA TermInTotal ==
    ASSUME NEW queue, NEW I, IsFiniteSet(I), \A i \in I : queue[i].price \in Nat, NEW k \in I
    PROVE  queue[k].price <= Windows!Total(queue, I)
<1> DEFINE n == queue[k].price
           own == {k} \X (1..n)
<1>1. Cardinality(own) = n
  <2>1. IsFiniteSet({k}) /\ Cardinality({k}) = 1
    BY FS_Singleton
  <2>2. n \in Nat
    OBVIOUS
  <2> HIDE DEF n
  <2>3. IsFiniteSet(1..n) /\ Cardinality(1..n) = n
    BY <2>2, FS_Interval
  <2>4. Cardinality({k} \X (1..n)) = Cardinality({k}) * Cardinality(1..n)
    BY <2>1, <2>3, FS_Product
  <2>5. 1 * n = n
    BY <2>2
  <2> QED
    BY <2>1, <2>3, <2>4, <2>5
<1>2. own \subseteq Units(queue, I)
  BY DEF Units
<1>3. /\ IsFiniteSet(Units(queue, I))
      /\ Windows!Total(queue, I) = Cardinality(Units(queue, I))
  BY TotalIsNumber
<1> HIDE DEF own
<1> QED
  BY <1>1, <1>2, <1>3, FS_Subset

\* A factor keeps an order.
LEMMA Scaled ==
    ASSUME NEW a \in Nat, NEW b \in Nat, NEW c \in Nat, b <= c
    PROVE  a * b <= a * c
<1>1. c - b \in Nat
  OBVIOUS
<1>2. a * (c - b) \in Nat /\ a * b \in Nat /\ a * c \in Nat
  BY <1>1
<1>3. a * (c - b) = a * c - a * b
  OBVIOUS
<1> QED
  BY <1>2, <1>3

\* A mean of which the part seen weighs as long as it took and the price of now
\* for the rest of the window lies between bounds of both.
LEMMA WeightedMean ==
    ASSUME NEW o \in Nat, NEW f \in Nat, NEW n \in Nat, NEW total \in Nat, NEW s \in Nat,
           NEW m \in Nat
    PROVE  /\ n * m <= total /\ m <= s => (n * (o + f)) * m <= o * total + n * f * s
           /\ total <= n * m /\ s <= m => o * total + n * f * s <= (n * (o + f)) * m
<1>1. n * m \in Nat /\ n * f \in Nat
  OBVIOUS
<1>2. (n * (o + f)) * m = o * (n * m) + (n * f) * m
  OBVIOUS
<1> DEFINE nm == n * m
           nf == n * f
<1> HIDE DEF nm, nf
<1>3. /\ nm <= total => o * nm <= o * total
      /\ total <= nm => o * total <= o * nm
      /\ m <= s => nf * m <= nf * s
      /\ s <= m => nf * s <= nf * m
  BY <1>1, Scaled DEF nm, nf
<1>4. nm \in Nat /\ nf \in Nat
  BY <1>1 DEF nm, nf
<1>5. /\ o * nm \in Nat /\ o * total \in Nat /\ nf * m \in Nat /\ nf * s \in Nat
  BY <1>4
<1>6. (n * (o + f)) * m = o * nm + nf * m
  BY <1>2 DEF nm, nf
<1>7. o * total + n * f * s = o * total + nf * s
  BY DEF nf
<1> DEFINE a == o * nm
           b == o * total
           c == nf * m
           d == nf * s
<1>8. /\ nm <= total /\ m <= s => a + c <= b + d
      /\ total <= nm /\ s <= m => b + d <= a + c
  <2>1. a \in Nat /\ b \in Nat /\ c \in Nat /\ d \in Nat
    BY <1>5
  <2>2. /\ nm <= total => a <= b
        /\ total <= nm => b <= a
        /\ m <= s => c <= d
        /\ s <= m => d <= c
    BY <1>3
  <2> HIDE DEF a, b, c, d
  <2> QED
    BY <2>1, <2>2
<1> QED
  BY <1>6, <1>7, <1>8 DEF nm

\* The types of what the windows are read from.
LEMMA WindowTypes ==
    ASSUME WindowsAssumption, Windows!TypeOK
    PROVE  /\ now \in Nat /\ fetched \in Int /\ fetched <= now
           /\ history \in Seq(Record) /\ ticks \in Seq(Record) /\ buffer \in Seq(Record)
           /\ \A i \in 1..Len(history) : history[i].ts <= now
           /\ \A i \in 1..Len(ticks) : ticks[i].ts <= now
           /\ \A i \in 1..Len(buffer) : buffer[i].ts <= now
           /\ quote.at \in Int /\ quote.at <= now /\ quote.spot \in Nat
           /\ Windows!Remaining \in Nat
<1>1. now \in Nat /\ fetched \in Int /\ fetched <= now
  BY DEF Windows!TypeOK, WindowsAssumption
<1> DEFINE R == [ts : 0..now, price : Reference]
<1>2. history \in Seq(R) /\ ticks \in Seq(R) /\ buffer \in Seq(R)
  BY DEF Windows!TypeOK
<1>3. \A x \in R : x \in Record /\ x.ts <= now
  BY <1>1 DEF Record
<1> HIDE DEF R
<1>4. \A q \in Seq(R) : q \in Seq(Record) /\ \A i \in 1..Len(q) : q[i].ts <= now
  <2> SUFFICES ASSUME NEW q \in Seq(R)
               PROVE  q \in Seq(Record) /\ \A i \in 1..Len(q) : q[i].ts <= now
    OBVIOUS
  <2>1. \A i \in 1..Len(q) : q[i] \in R
    OBVIOUS
  <2>2. Len(q) \in Nat /\ q = [i \in 1..Len(q) |-> q[i]]
    OBVIOUS
  <2> QED
    BY <1>3, <2>1, <2>2
<1>5. quote.at \in Int /\ quote.at <= now /\ quote.spot \in Nat
  <2>1. quote.at \in -1..fetched /\ quote.spot \in Reference \cup {0}
    BY DEF Windows!TypeOK
  <2> DEFINE a == quote.at
             s == quote.spot
  <2> HIDE DEF a, s
  <2>2. a \in -1..fetched /\ s \in Reference \cup {0}
    BY <2>1 DEF a, s
  <2>3. a \in Int /\ a <= now
    BY <1>1, <2>2
  <2>4. s \in Nat
    BY <2>2 DEF WindowsAssumption
  <2> QED
    BY <2>3, <2>4 DEF a, s
<1>6. Windows!Remaining \in Nat
  BY <1>5 DEF Windows!Remaining, WindowsAssumption
<1> QED
  BY <1>1, <1>2, <1>4, <1>5, <1>6

\* The ticks of a window are finitely many and have prices.
LEMMA InWindowIs ==
    ASSUME NEW queue \in Seq(Record), WindowsAssumption, NEW from, NEW to
    PROVE  LET I == Windows!InWindow(queue, from, to)
           IN  /\ I \subseteq 1..Len(queue) /\ IsFiniteSet(I) /\ Cardinality(I) \in Nat
               /\ \A i \in I : /\ queue[i].ts \in Nat /\ queue[i].price \in Nat
                               /\ from <= queue[i].ts /\ queue[i].ts <= to
<1> DEFINE I == Windows!InWindow(queue, from, to)
<1>1. /\ I \subseteq 1..Len(queue)
      /\ \A i \in I : from <= queue[i].ts /\ queue[i].ts <= to
  BY DEF Windows!InWindow
<1> HIDE DEF I
<1>2. IsFiniteSet(I)
  <2>1. Len(queue) \in Nat
    OBVIOUS
  <2>2. IsFiniteSet(1..Len(queue))
    BY <2>1, FS_Interval
  <2> QED
    BY <1>1, <2>2, FS_Subset
<1>3. \A i \in I : queue[i].ts \in Nat /\ queue[i].price \in Nat
  <2>1. \A i \in I : queue[i] \in Record
    BY <1>1
  <2> QED
    BY <2>1 DEF Record, WindowsAssumption
<1> QED
  BY <1>1, <1>2, <1>3, FS_CardinalityType DEF I

\* What the observed part of the window is.
LEMMA ObservedIs ==
    ASSUME WindowsAssumption, Windows!TypeOK
    PROVE  /\ Windows!ObsStart \in Int
           /\ Windows!ObsStart = now + Windows!Remaining - AvgWindow
           /\ Windows!Credited = {} => Windows!Observed = 0
           /\ Windows!Credited # {} =>
                  /\ Windows!Credited = Windows!InWindow(buffer, Windows!ObsStart, now)
                  /\ Windows!Observed \in Nat /\ Windows!Observed > 0
                  /\ Windows!Observed + Windows!Remaining = AvgWindow
                  /\ Windows!Observed = now - Windows!ObsStart
<1>1. now \in Nat /\ Windows!Remaining \in Nat /\ AvgWindow \in Nat
  BY WindowTypes DEF WindowsAssumption
<1>2. Windows!ObsStart \in Int /\ Windows!ObsStart = now + Windows!Remaining - AvgWindow
  BY <1>1 DEF Windows!ObsStart, Windows!CloseUs
<1>3. Windows!Credited = {} => Windows!Observed = 0
  BY DEF Windows!Observed
<1>4. ASSUME Windows!Credited # {}
      PROVE  /\ now > Windows!ObsStart
             /\ Windows!Credited = Windows!InWindow(buffer, Windows!ObsStart, now)
             /\ Windows!Observed = now - Windows!ObsStart
  BY <1>4 DEF Windows!Credited, Windows!Observed
<1> QED
  BY <1>1, <1>2, <1>3, <1>4

\* However old a book is, nothing is credited to a window before it opens.
LEMMA OwnWindowCredited ==
    ASSUME WindowsAssumption, Windows!TypeOK
    PROVE  Windows!CreditsOwnWindow
<1> SUFFICES ASSUME quote # Windows!NoQuote, Windows!Remaining > 0
             PROVE  /\ \A i \in Windows!Credited : buffer[i].ts >= Close - AvgWindow
                    /\ Windows!Observed > 0 =>
                           Windows!Observed <= now - (Close - AvgWindow)
  BY DEF Windows!CreditsOwnWindow
<1>1. /\ now \in Nat /\ buffer \in Seq(Record) /\ Close \in Nat /\ AvgWindow \in Nat
      /\ quote.at \in Int /\ quote.at <= now
  BY WindowTypes DEF WindowsAssumption
<1>2. Windows!Remaining = Close - quote.at
  BY DEF Windows!Remaining
<1>3. Windows!ObsStart \in Int /\ Windows!ObsStart >= Close - AvgWindow
  BY <1>1, <1>2, ObservedIs
<1>4. CASE Windows!Credited = {}
  BY <1>4, ObservedIs
<1>5. CASE Windows!Credited # {}
  <2>1. /\ \A i \in Windows!Credited :
              buffer[i].ts \in Nat /\ Windows!ObsStart <= buffer[i].ts
        /\ Windows!Observed = now - Windows!ObsStart
    BY <1>1, <1>5, ObservedIs, InWindowIs
  <2> QED
    BY <1>1, <1>3, <2>1
<1> QED
  BY <1>4, <1>5

\* The estimate lies between two of the prices it is made of.
LEMMA EstimateBetween ==
    ASSUME WindowsAssumption, Windows!TypeOK
    PROVE  Windows!EstimateIsAverage
<1> DEFINE I    == Windows!Credited
           near == {quote.spot} \cup {buffer[i].price : i \in I}
           T    == Windows!Total(buffer, I)
           D    == Windows!EstimateDen
           N    == Windows!EstimateNum
<1> SUFFICES ASSUME quote.spot > 0, I # {} \/ Windows!Remaining >= AvgWindow
             PROVE  /\ \E low \in near : D * low <= N
                    /\ \E high \in near : N <= D * high
  BY DEF Windows!EstimateIsAverage
<1>1. /\ quote.spot \in Nat /\ AvgWindow \in Nat /\ Windows!Remaining \in Nat
      /\ buffer \in Seq(Record)
  BY WindowTypes DEF WindowsAssumption
<1>2. CASE I = {}
  <2>1. Windows!Observed = 0 /\ Windows!Many = 1 /\ Windows!Future = AvgWindow
    BY <1>1, <1>2, ObservedIs DEF Windows!Many, Windows!Future
  <2>2. T \in Nat
    BY <1>2, TotalIsNumber, FS_EmptySet
  <2> HIDE DEF T
  <2>3. D = AvgWindow /\ N = AvgWindow * quote.spot
    BY <1>1, <2>1, <2>2 DEF Windows!EstimateDen, Windows!EstimateNum, T
  <2>4. AvgWindow * quote.spot \in Nat
    BY <1>1
  <2>5. D * quote.spot <= N /\ N <= D * quote.spot
    BY <2>3, <2>4
  <2> QED
    BY <2>5
<1>3. CASE I # {}
  <2> DEFINE n == Cardinality(I)
             o == Windows!Observed
             f == Windows!Remaining
  <2>1. /\ IsFiniteSet(I) /\ n \in Nat /\ \A i \in I : buffer[i].price \in Nat
    BY <1>1, <1>3, ObservedIs, InWindowIs
  <2>2. o \in Nat /\ o > 0 /\ o + f = AvgWindow
    BY <1>3, ObservedIs
  <2>3. Windows!Future = f /\ Windows!Many = n
    BY <1>1, <1>3, <2>2, WindowsCountAlike DEF Windows!Future, Windows!Many
  <2>4. T \in Nat
    BY <2>1, TotalIsNumber
  <2>5. N = o * T + n * f * quote.spot /\ D = n * (o + f)
    BY <2>2, <2>3 DEF Windows!EstimateNum, Windows!EstimateDen
  <2>6. near \in SUBSET Nat /\ near # {}
    BY <1>1, <2>1
  <2>7. \A p \in near : p <= T + quote.spot
    BY <1>1, <2>1, <2>4, TermInTotal
  <2>8. quote.spot \in near /\ \A i \in I : buffer[i].price \in near
    OBVIOUS
  <2>9. T + quote.spot \in Nat
    BY <1>1, <2>4
  <2> HIDE DEF I, near, T, D, N, n, o, f
  <2>10. PICK low \in near : \A p \in near : low <= p
    BY <2>6, LeastOf
  <2>11. PICK high \in near : \A p \in near : p <= high
    BY <2>6, <2>7, <2>9, GreatestOf
  <2>12. low \in Nat /\ high \in Nat /\ f \in Nat
    BY <1>1, <2>6 DEF f
  <2>13. n * low <= T /\ T <= n * high
    BY <2>1, <2>8, <2>10, <2>11, <2>12, TotalBounds DEF n, T
  <2>14. low <= quote.spot /\ quote.spot <= high
    BY <2>8, <2>10, <2>11
  <2>15. /\ (n * (o + f)) * low <= o * T + n * f * quote.spot
         /\ o * T + n * f * quote.spot <= (n * (o + f)) * high
    BY <1>1, <2>1, <2>2, <2>4, <2>12, <2>13, <2>14, WeightedMean
  <2>16. D * low <= N /\ N <= D * high
    BY <2>5, <2>15
  <2> QED
    BY <2>16
<1> QED
  BY <1>2, <1>3

\* A lag signal is a move of the newest window.
LEMMA LagIsRecent ==
    ASSUME WindowsAssumption, WindowsInv, NEW b, Windows!EvaluateLag(b)
    PROVE  Windows!LagSignalIsRecent'
<1> DEFINE I    == Windows!Averaged
           last == ticks[Len(ticks)].price
           T    == Windows!Total(ticks, I)
           n    == Cardinality(I)
<1>1. /\ now \in Nat /\ history \in Seq(Record) /\ ticks \in Seq(Record) /\ LagWindow \in Nat
      /\ \A i \in 1..Len(history) : history[i].ts \in Nat /\ history[i].ts <= now
  <2>1. /\ now \in Nat /\ history \in Seq(Record) /\ ticks \in Seq(Record)
        /\ \A i \in 1..Len(history) : history[i].ts <= now
    BY WindowTypes DEF WindowsInv
  <2>2. \A i \in 1..Len(history) : history[i] \in Record
    BY <2>1
  <2> QED
    BY <2>1, <2>2 DEF Record, WindowsAssumption
<1>2. /\ I # {} /\ history' = history /\ now' = now
      /\ \/ Windows!MoveUp > 0 /\ signal'.side = "yes"
         \/ Windows!MoveUp < 0 /\ signal'.side = "no"
  BY DEF Windows!EvaluateLag, Windows!LagSide, Windows!Signals
<1>3. /\ I \subseteq 1..Len(ticks) /\ IsFiniteSet(I) /\ n \in Nat
      /\ \A i \in I : /\ ticks[i].ts \in Nat /\ ticks[i].price \in Nat
                      /\ now - LagWindow <= ticks[i].ts
  BY <1>1, InWindowIs DEF Windows!Averaged
<1>4. Len(ticks) \in Nat /\ Len(ticks) \in 1..Len(ticks) /\ last \in Nat
  <2>1. Len(ticks) \in Nat /\ Len(ticks) \in 1..Len(ticks)
    <3>1. Len(ticks) \in Nat
      BY <1>1
    <3>2. PICK i \in 1..Len(ticks) : TRUE
      BY <1>2, <1>3, Zenon
    <3> QED
      BY <3>1, <3>2
  <2>2. ticks[Len(ticks)] \in Record
    BY <1>1, <2>1
  <2> QED
    BY <2>1, <2>2 DEF Record, WindowsAssumption
<1>5. Windows!MoveUp = last * n - T
  BY WindowsCountAlike DEF Windows!MoveUp, Windows!Last
<1>6. T \in Nat
  BY <1>3, TotalIsNumber
<1>7. /\ Windows!MoveUp > 0 => \E i \in I : ticks[i].price < last
      /\ Windows!MoveUp < 0 => \E i \in I : ticks[i].price > last
  <2>1. /\ (\A i \in I : last <= ticks[i].price) => n * last <= T
        /\ (\A i \in I : ticks[i].price <= last) => T <= n * last
    BY <1>3, <1>4, TotalBounds
  <2>2. \A i \in I : ticks[i].price \in Nat
    BY <1>3
  <2>3. n * last = last * n /\ last * n \in Nat
    BY <1>3, <1>4
  <2> DEFINE m == last * n
  <2> HIDE DEF I, last, T, n, m
  <2>4. /\ (\A i \in I : last <= ticks[i].price) => m <= T
        /\ (\A i \in I : ticks[i].price <= last) => T <= m
        /\ m \in Nat /\ Windows!MoveUp = m - T
    BY <1>5, <2>1, <2>3 DEF m
  <2> QED
    BY <1>4, <1>6, <2>2, <2>4
<1>8. PICK d \in 0..Len(history) :
          Len(ticks) = Len(history) - d /\ \A i \in 1..Len(ticks) : ticks[i] = history[i + d]
  BY DEF WindowsInv, TailOf
<1>9. Windows!Last(history).price = last /\ Len(history) \in 1..Len(history)
  <2>1. Len(ticks) + d = Len(history) /\ Len(history) \in 1..Len(history)
    BY <1>1, <1>4, <1>8
  <2> QED
    BY <1>4, <1>8, <2>1 DEF Windows!Last
<1>10. ASSUME NEW i \in I
       PROVE  /\ i + d \in Windows!InWindow(history, now - LagWindow, now)
              /\ history[i + d].price = ticks[i].price
              /\ Windows!Last(history).ts >= now - LagWindow
  <2>1. i \in 1..Len(ticks) /\ i + d \in 1..Len(history) /\ i + d <= Len(history)
    BY <1>1, <1>3, <1>8
  <2>2. history[i + d] = ticks[i] /\ history[i + d].ts <= history[Len(history)].ts
    BY <1>8, <1>9, <2>1 DEF WindowsInv, InOrder
  <2>3. /\ history[i + d].ts \in Nat /\ history[i + d].ts <= now
        /\ history[Len(history)].ts \in Nat
    BY <1>1, <1>9, <2>1
  <2>4. history[i + d].ts >= now - LagWindow
    BY <1>1, <1>3, <2>2, <2>3
  <2> QED
    BY <1>1, <2>1, <2>2, <2>3, <2>4 DEF Windows!InWindow, Windows!Last
<1>11. PICK i \in I : IF signal'.side = "yes" THEN ticks[i].price < last
                                              ELSE ticks[i].price > last
  BY <1>2, <1>7
<1> HIDE DEF I, last
<1>12. /\ Windows!Last(history).ts >= now - LagWindow
       /\ \E k \in Windows!InWindow(history, now - LagWindow, now) :
             IF signal'.side = "yes" THEN history[k].price < Windows!Last(history).price
                                     ELSE history[k].price > Windows!Last(history).price
  BY <1>9, <1>10, <1>11
<1> QED
  BY <1>2, <1>12 DEF Windows!LagSignalIsRecent, Windows!InWindow, Windows!Last

\* What the strategies conclude rests on their windows.
LEMMA WindowsRest ==
    ASSUME WindowsAssumption, WindowsInv
    PROVE  Windows!SignalsRestOnWindows
<1>1. Windows!SameTicks(ticks, now - LagWindow, now)
  <2>1. /\ now \in Nat /\ history \in Seq(Record) /\ ticks \in Seq(Record)
        /\ LagWindow \in Nat /\ now \in Int
    BY WindowTypes DEF WindowsInv, WindowsAssumption
  <2>2. now - LagWindow \in Int /\ now - LagWindow >= now - LagWindow
    BY <2>1
  <2> QED
    BY <2>1, <2>2, TailIsExact DEF WindowsInv
<1>2. Windows!SameTicks(buffer, Windows!ObsStart, now)
  <2>1. /\ now \in Nat /\ history \in Seq(Record) /\ buffer \in Seq(Record)
        /\ Retained \in Nat /\ now \in Int /\ AvgWindow \in Nat /\ AvgWindow <= Retained
        /\ Windows!Remaining \in Nat
    BY WindowTypes DEF WindowsInv, WindowsAssumption
  <2>2. Windows!ObsStart \in Int /\ Windows!ObsStart >= now - Retained
    BY <2>1, ObservedIs DEF WindowsInv
  <2> QED
    BY <2>1, <2>2, TailIsExact DEF WindowsInv
<1>3. Windows!CreditsOwnWindow /\ Windows!EstimateIsAverage
  BY OwnWindowCredited, EstimateBetween DEF WindowsInv
<1> QED
  BY <1>1, <1>2, <1>3 DEF Windows!SignalsRestOnWindows, Windows!WindowsExact, WindowsInv

\* Recording a tick keeps the invariant.
LEMMA SampleKeeps ==
    ASSUME WindowsAssumption, WindowsInv, NEW price \in Reference, Windows!Sample(price)
    PROVE  WindowsInv'
<1> DEFINE rec == [ts |-> now, price |-> price]
           R   == [ts : 0..now, price : Reference]
<1>1. /\ now \in Nat /\ history \in Seq(Record) /\ ticks \in Seq(Record)
      /\ buffer \in Seq(Record) /\ LagWindow \in Nat /\ Retained \in Nat
  BY WindowTypes DEF WindowsInv, WindowsAssumption
<1>2. /\ history' = Append(history, rec)
      /\ ticks' = Windows!Recorded(ticks, price, LagWindow)
      /\ buffer' = Windows!Recorded(buffer, price, Retained)
      /\ signal' = Windows!NoSignal /\ now' = now /\ fetched' = fetched /\ quote' = quote
  BY DEF Windows!Sample
<1>3. TailOf(ticks, history, LagWindow, now)' /\ TailOf(buffer, history, Retained, now)'
  BY <1>1, <1>2, RecordedTail DEF WindowsInv
<1>4. history \in Seq(R) /\ ticks \in Seq(R) /\ buffer \in Seq(R) /\ rec \in R
  BY <1>1 DEF WindowsInv, Windows!TypeOK
<1>5. history' \in Seq(R)
  BY <1>2, <1>4
<1>6. ticks' \in Seq(R) /\ buffer' \in Seq(R)
  <2>1. ASSUME NEW queue \in Seq(Record), NEW window \in Nat,
               TailOf(queue, history, window, now)
        PROVE  Windows!Recorded(queue, price, window) \in Seq(R)
    <3> DEFINE new == Windows!Recorded(queue, price, window)
    <3>1. new \in Seq(Record) /\ TailOf(new, history', window, now)
      BY <1>1, <1>2, <2>1, RecordedTail
    <3> HIDE DEF new
    <3>2. PICK d \in 0..Len(history') :
              /\ Len(new) = Len(history') - d
              /\ \A i \in 1..Len(new) : new[i] = history'[i + d]
      BY <3>1 DEF TailOf
    <3>3. ASSUME NEW i \in 1..Len(new)
          PROVE  new[i] \in R
      <4>1. i + d \in 1..Len(history')
        BY <1>5, <3>2
      <4> HIDE DEF R
      <4> QED
        BY <1>5, <3>2, <4>1
    <3>4. Len(new) \in Nat /\ new = [i \in 1..Len(new) |-> new[i]]
      BY <3>1
    <3> HIDE DEF R
    <3> QED
      BY <3>3, <3>4 DEF new
  <2> QED
    BY <1>1, <1>2, <2>1 DEF WindowsInv
<1>7. Windows!TypeOK'
  BY <1>2, <1>5, <1>6 DEF WindowsInv, Windows!TypeOK, Windows!NoSignal
<1>8. InOrder'
  <2> SUFFICES ASSUME NEW i \in 1..Len(history'), NEW k \in 1..Len(history'), i <= k
               PROVE  history'[i].ts <= history'[k].ts
    BY DEF InOrder
  <2>1. /\ Len(history) \in Nat /\ Len(history') = Len(history) + 1
        /\ history'[Len(history) + 1] = rec
        /\ \A j \in 1..Len(history) : history'[j] = history[j] /\ history[j].ts <= now
    <3>1. \A j \in 1..Len(history) : history[j].ts <= now
      BY WindowTypes DEF WindowsInv
    <3>2. rec \in R /\ history \in Seq(R)
      BY <1>4
    <3> HIDE DEF rec, R
    <3> QED
      BY <1>2, <3>1, <3>2
  <2>2. CASE k = Len(history) + 1
    <3>1. history'[k].ts = now
      BY <2>1, <2>2
    <3>2. CASE i = Len(history) + 1
      BY <1>1, <2>2, <3>1, <3>2
    <3>3. CASE i # Len(history) + 1
      <4>1. i \in 1..Len(history)
        BY <2>1, <3>3
      <4> QED
        BY <2>1, <3>1, <4>1
    <3> QED
      BY <3>2, <3>3
  <2>3. CASE k # Len(history) + 1
    <3>1. i \in 1..Len(history) /\ k \in 1..Len(history)
      BY <2>1, <2>3
    <3> QED
      BY <2>1, <3>1 DEF WindowsInv, InOrder
  <2> QED
    BY <2>2, <2>3
<1>9. Windows!LagSignalIsRecent'
  BY <1>2 DEF Windows!LagSignalIsRecent, Windows!NoSignal
<1> QED
  BY <1>3, <1>7, <1>8, <1>9 DEF WindowsInv

\* What a queue has forgotten stays older than its window as time passes.
LEMMA LaterTail ==
    ASSUME NEW log \in Seq(Record), NEW queue, NEW window \in Nat, NEW at \in Nat,
           TailOf(queue, log, window, at)
    PROVE  TailOf(queue, log, window, at + 1)
<1>1. PICK d \in 0..Len(log) :
          /\ Len(queue) = Len(log) - d /\ (d = Len(log) => d = 0)
          /\ \A i \in 1..Len(queue) : queue[i] = log[i + d]
          /\ \A i \in 1..d : log[i].ts < at - window
  BY DEF TailOf
<1>2. ASSUME NEW i \in 1..d PROVE log[i].ts < (at + 1) - window
  <2>1. log[i] \in Record
    BY <1>1
  <2>2. log[i].ts \in Nat /\ log[i].ts < at - window
    BY <1>1, <2>1 DEF Record
  <2> QED
    BY <2>2
<1>3. \A i \in 1..d : log[i].ts < (at + 1) - window
  BY <1>2
<1> QED
  BY <1>1, <1>3, Zenon DEF TailOf

\* Neither does what it forgot become newer as time passes, nor does an
\* evaluation or a quote touch it.
LEMMA WindowsStep ==
    ASSUME WindowsAssumption, WindowsInv, Windows!Next \/ UNCHANGED windowVars
    PROVE  WindowsInv'
<1>1. now \in Nat /\ fetched \in Int /\ fetched <= now
  BY WindowTypes DEF WindowsInv
<1>2. ASSUME NEW price \in Reference, Windows!Sample(price) PROVE WindowsInv'
  BY <1>2, SampleKeeps
<1>3. ASSUME UNCHANGED <<now, history, ticks, buffer>>, Windows!TypeOK',
             Windows!LagSignalIsRecent'
      PROVE  WindowsInv'
  BY <1>3 DEF WindowsInv, InOrder, TailOf
<1>4. CASE Windows!FetchBook
  <2>1. Windows!TypeOK'
    BY <1>1, <1>4
       DEF Windows!FetchBook, WindowsInv, Windows!TypeOK, Windows!NoQuote, Windows!NoSignal
  <2>2. Windows!LagSignalIsRecent'
    BY <1>4 DEF Windows!FetchBook, Windows!LagSignalIsRecent, Windows!NoSignal
  <2> QED
    BY <1>3, <1>4, <2>1, <2>2 DEF Windows!FetchBook
<1>5. CASE Windows!GetQuotes
  <2>1. Windows!Spot \in Reference \cup {0}
    <3>1. CASE history = <<>>
      BY <3>1 DEF Windows!Spot
    <3>2. CASE history # <<>>
      <4>1. history \in Seq(Record)
        BY WindowTypes DEF WindowsInv
      <4>2. history[Len(history)] \in Record
        BY <3>2, <4>1
      <4> QED
        BY <3>2, <4>2 DEF Windows!Spot, Windows!Last, Record
    <3> QED
      BY <3>1, <3>2
  <2>2. fetched \in -1..fetched
    BY <1>1 DEF WindowsInv, Windows!TypeOK
  <2>3. Windows!TypeOK'
    BY <1>5, <2>1, <2>2 DEF Windows!GetQuotes, WindowsInv, Windows!TypeOK, Windows!NoSignal
  <2>4. Windows!LagSignalIsRecent'
    BY <1>5 DEF Windows!GetQuotes, Windows!LagSignalIsRecent, Windows!NoSignal
  <2> QED
    BY <1>3, <1>5, <2>3, <2>4 DEF Windows!GetQuotes
<1>6. CASE Windows!EndTick
  <2>1. -1 \in -1..fetched
    BY <1>1 DEF WindowsInv, Windows!TypeOK
  <2>2. Windows!TypeOK'
    BY <1>6, <2>1
       DEF Windows!EndTick, WindowsInv, Windows!TypeOK, Windows!NoQuote, Windows!NoSignal
  <2>3. Windows!LagSignalIsRecent'
    BY <1>6 DEF Windows!EndTick, Windows!LagSignalIsRecent, Windows!NoSignal
  <2> QED
    BY <1>3, <1>6, <2>2, <2>3 DEF Windows!EndTick
<1>7. CASE Windows!Tick
  <2>1. now' = now + 1 /\ now' \in 0..WindowTime
    BY <1>1, <1>7 DEF Windows!Tick, WindowsInv, Windows!TypeOK, WindowsAssumption
  <2>2. UNCHANGED <<history, ticks, buffer, fetched, quote>> /\ signal' = Windows!NoSignal
    BY <1>7 DEF Windows!Tick
  <2>3. {history, ticks, buffer}' \subseteq Seq([ts : 0..now', price : Reference])
    <3>1. \A x : x \in [ts : 0..now, price : Reference] =>
                 x \in [ts : 0..now', price : Reference]
      BY <1>1, <2>1
    <3> DEFINE R == [ts : 0..now, price : Reference]
               S == [ts : 0..now', price : Reference]
    <3>2. {history, ticks, buffer} \subseteq Seq(R)
      BY DEF WindowsInv, Windows!TypeOK
    <3> HIDE DEF R, S
    <3>3. \A x \in R : x \in S
      BY <3>1 DEF R, S
    <3>4. ASSUME NEW q \in Seq(R) PROVE q \in Seq(S)
      <4>1. Len(q) \in Nat /\ q = [i \in 1..Len(q) |-> q[i]] /\ \A i \in 1..Len(q) : q[i] \in R
        OBVIOUS
      <4> QED
        BY <3>3, <4>1
    <3> QED
      BY <2>2, <3>2, <3>4 DEF S
  <2>4. Windows!TypeOK'
    BY <1>1, <2>1, <2>2, <2>3 DEF WindowsInv, Windows!TypeOK, Windows!NoSignal
  <2>5. Windows!LagSignalIsRecent'
    BY <2>2 DEF Windows!LagSignalIsRecent, Windows!NoSignal
  <2>6. ASSUME NEW queue, NEW window \in Nat, TailOf(queue, history, window, now)
        PROVE  TailOf(queue, history, window, now + 1)
    <3>1. history \in Seq(Record)
      BY WindowTypes DEF WindowsInv
    <3> QED
      BY <1>1, <2>6, <3>1, LaterTail
  <2>7. TailOf(ticks, history, LagWindow, now)' /\ TailOf(buffer, history, Retained, now)'
    BY <2>1, <2>2, <2>6 DEF WindowsInv, WindowsAssumption
  <2> QED
    BY <2>2, <2>4, <2>5, <2>7 DEF WindowsInv, InOrder
<1>8. ASSUME NEW b \in Windows!Book,
             Windows!EvaluateStat(b) \/ Windows!EvaluateLag(b) \/ Windows!EvaluateAvg(b)
      PROVE  WindowsInv'
  <2>1. /\ UNCHANGED <<now, history, ticks, buffer, fetched, quote>>
        /\ signal'.by \in {"stat", "lag", "avg"} /\ signal'.side \in {"yes", "no"}
        /\ signal'.taken \in BOOLEAN /\ signal' = [by |-> signal'.by, side |-> signal'.side,
                                                   taken |-> signal'.taken]
        /\ signal'.by = "lag" => Windows!EvaluateLag(b)
    <3>1. \A c : \A r \in Windows!Recommended(c, b) : r[1] \in {"yes", "no"}
      BY DEF Windows!Recommended
    <3>2. Windows!ReachesExecutor \in BOOLEAN
      BY DEF Windows!ReachesExecutor
    <3>3. CASE Windows!EvaluateStat(b)
      <4>1. PICK c, r : r[1] \in {"yes", "no"} /\ Windows!Signals("stat", r[1])
        BY <3>1, <3>3 DEF Windows!EvaluateStat, Windows!SignalsIfSure
      <4> QED
        BY <3>2, <4>1 DEF Windows!Signals
    <3>4. CASE Windows!EvaluateLag(b)
      <4>1. PICK s : s \in {"yes", "no"} /\ Windows!Signals("lag", s)
        BY <3>4 DEF Windows!EvaluateLag, Windows!LagSide
      <4> QED
        BY <3>2, <3>4, <4>1 DEF Windows!Signals
    <3>5. CASE Windows!EvaluateAvg(b)
      <4>1. PICK c, r : r[1] \in {"yes", "no"} /\ Windows!Signals("avg", r[1])
        BY <3>1, <3>5 DEF Windows!EvaluateAvg, Windows!SignalsIfSure
      <4> QED
        BY <3>2, <4>1 DEF Windows!Signals
    <3> QED
      BY <1>8, <3>3, <3>4, <3>5
  <2>2. Windows!TypeOK'
    <3>1. signal' \in [by : {"nobody", "stat", "lag", "avg"}, side : {"none", "yes", "no"},
                       taken : BOOLEAN]
      BY <2>1
    <3> QED
      BY <2>1, <3>1 DEF WindowsInv, Windows!TypeOK
  <2>3. Windows!LagSignalIsRecent'
    <3>1. CASE signal'.by = "lag"
      BY <2>1, <3>1, LagIsRecent
    <3>2. CASE signal'.by # "lag"
      BY <3>2 DEF Windows!LagSignalIsRecent
    <3> QED
      BY <3>1, <3>2
  <2> QED
    BY <1>3, <2>1, <2>2, <2>3
<1>9. CASE UNCHANGED windowVars
  BY <1>9 DEF windowVars, WindowsInv, Windows!TypeOK, InOrder, TailOf,
              Windows!LagSignalIsRecent, Windows!InWindow, Windows!Last
<1> QED
  BY <1>2, <1>4, <1>5, <1>6, <1>7, <1>8, <1>9 DEF Windows!Next, Windows!Evaluate

\* Before the first tick all is empty.
LEMMA WindowsInit ==
    ASSUME WindowsAssumption, Windows!Init
    PROVE  WindowsInv
<1>1. <<>> \in Seq([ts : 0..now, price : Reference]) /\ Len(<<>>) = 0
  OBVIOUS
<1>2. Windows!TypeOK
  BY <1>1 DEF Windows!Init, Windows!TypeOK, Windows!NoQuote, Windows!NoSignal,
              WindowsAssumption
<1>3. InOrder /\ Windows!LagSignalIsRecent
  BY DEF Windows!Init, InOrder, Windows!LagSignalIsRecent, Windows!NoSignal
<1>4. TailOf(ticks, history, LagWindow, now) /\ TailOf(buffer, history, Retained, now)
  BY <1>1 DEF Windows!Init, TailOf
<1> QED
  BY <1>2, <1>3, <1>4 DEF WindowsInv

\* The invariant holds in every state.
LEMMA WindowsInvariant == ASSUME WindowsAssumption PROVE Spec => []WindowsInv
<1>1. Init => WindowsInv
  BY WindowsInit DEF Init
<1>2. WindowsInv /\ [Next]_allVars => WindowsInv'
  <2>1. [Next]_allVars => Windows!Next \/ UNCHANGED windowVars
    BY DEF Next, allVars
  <2> QED
    BY <2>1, WindowsStep
<1>3. QED
  BY <1>1, <1>2, PTL DEF Spec

\* Whichever ticks a strategy has forgotten and however old its quote is, what it
\* averages is all there is of its window, a lag signal is a move of that window,
\* and an estimate lies between the prices it is made of.
THEOREM SignalsStayOnWindows ==
    ASSUME WindowsAssumption PROVE Spec => []SignalsRestOnWindows
<1>1. WindowsInv => SignalsRestOnWindows
  BY WindowsRest DEF SignalsRestOnWindows
<1>2. QED
  BY <1>1, WindowsInvariant, PTL

-----------------------------------------------------------------------------
(* The types of all parts                                                  *)

\* The parts there are.
AllParts == {"rollup", "windows", "books", "pulls", "migrations", "ideas", "collect"}

\* What the parts assume; the range of a pull ends by its infinity, and a bound
\* on the runs lets there be one.
RecordsAssumption ==
    /\ Part \subseteq AllParts
    /\ BooksAssumption /\ RollupAssumption /\ WindowsAssumption
    /\ PullsAssumption /\ IsFiniteSet(Run) /\ To \in 0..Pulls!Infinity /\ MaxTries \in Nat
    /\ MigrateAssumption
    /\ Boards \in Nat /\ MaxStarts \in Nat \ {0}
    /\ SameName \subseteq Url /\ MaxVersion \in Nat \ {0} /\ CommitEvery \in Nat \ {0}

\* A step of the research scripts goes on to one of the later ones.
LEMMA StepsOn ==
    ASSUME NEW i \in 1..5, Collect!OnTo(i)
    PROVE  step' \in {"idle", "discover", "terms", "registry", "files", "analysis", "ended",
                      "failed"}
<1>1. Len(Collect!Steps) = 5
  BY DEF Collect!Steps
<1>2. PICK j \in i..5 : step' = Collect!Steps[j]
  BY <1>1 DEF Collect!OnTo
<1>3. j \in {1, 2, 3, 4, 5}
  BY <1>2
<1> QED
  BY <1>2, <1>3 DEF Collect!Steps

\* Writing the row of a URL counts on, up to a full batch.
LEMMA UpsertCounts ==
    ASSUME NEW u, NEW contents, Collect!Upsert(u, contents), count \in Nat,
           CommitEvery \in Nat \ {0}
    PROVE  count' \in 0..(CommitEvery - 1)
BY DEF Collect!Upsert

\* The types of the research scripts, beside their invariant.
LEMMA CollectTyped ==
    ASSUME SameName \subseteq Url, MaxVersion \in Nat \ {0}, CommitEvery \in Nat \ {0},
           MaxStarts \in Nat
    PROVE  Spec => []Collect!TypeOK
<1> DEFINE Inv == ResearchInv /\ Collect!TypeOK
<1>1. Init => Inv
  BY DEF Init, Collect!Init, Collect!NoRows, Collect!Described, ResearchInv, Collect!TypeOK
<1>2. Inv /\ (Collect!Next \/ UNCHANGED collectVars) => Inv'
  <2> SUFFICES ASSUME Inv, Collect!Next \/ UNCHANGED collectVars PROVE Inv'
    OBVIOUS
  <2> USE DEF Collect!exchange, Collect!tables, Collect!rcRun
  <2>1. ResearchInv'
    BY CollectStep
  <2>2. ASSUME Collect!Relist \/ \E u \in Url : Collect!Revise(u)
        PROVE  Collect!TypeOK'
    BY <2>1, <2>2 DEF Collect!Relist, Collect!Revise, Collect!TypeOK, ResearchInv
  <2>3. ASSUME Collect!Start
        PROVE  Collect!TypeOK'
    BY <2>3, StepsOn DEF Collect!Start, Collect!TypeOK
  <2>4. ASSUME Collect!SeriesPage
        PROVE  Collect!TypeOK'
    BY <2>4 DEF Collect!SeriesPage, Collect!UpsertSeries, Collect!TypeOK
  <2>5. ASSUME Collect!CommitSeries
        PROVE  Collect!TypeOK'
    <3>1. step' \in {"idle", "discover", "terms", "registry", "files", "analysis", "ended",
                     "failed"}
      BY <2>5, StepsOn DEF Collect!CommitSeries, Collect!TypeOK
    <3> QED
      BY <2>5, <3>1 DEF Collect!CommitSeries, Collect!TypeOK
  <2>6. ASSUME NEW u \in Url,
               Collect!ReadTerm(u) \/ Collect!Download(u) \/ Collect!SkipTerm(u)
        PROVE  Collect!TypeOK'
    <3>1. count' \in 0..(CommitEvery - 1)
      BY <2>6, UpsertCounts
         DEF Collect!ReadTerm, Collect!Download, Collect!SkipTerm, Collect!TypeOK
    <3>2. UNCHANGED <<listed, series, candidates, registry, step, staged, memory, starts>>
      BY <2>6 DEF Collect!ReadTerm, Collect!Download, Collect!SkipTerm
    <3>3. urls' \subseteq Url
      BY <2>6 DEF Collect!ReadTerm, Collect!Download, Collect!SkipTerm, Collect!TypeOK
    <3> QED
      BY <2>1, <3>1, <3>2, <3>3 DEF Collect!TypeOK, ResearchInv
  <2>7. ASSUME Collect!CommitTerms
        PROVE  Collect!TypeOK'
    <3>1. /\ step' \in {"idle", "discover", "terms", "registry", "files", "analysis", "ended",
                        "failed"}
          /\ count' = 0 /\ urls' = {}
          /\ UNCHANGED <<listed, series, candidates, registry, staged, memory, starts>>
      BY <2>7, StepsOn DEF Collect!CommitTerms
    <3> QED
      BY <2>1, <3>1 DEF Collect!TypeOK, ResearchInv
  <2>8. ASSUME Collect!BuildRegistry
        PROVE  Collect!TypeOK'
    BY <2>8
       DEF Collect!BuildRegistry, Collect!StoreCandidates, Collect!Registries, Collect!TypeOK
  <2>9. ASSUME Collect!WriteRegistry
        PROVE  Collect!TypeOK'
    BY <2>9, StepsOn DEF Collect!WriteRegistry, Collect!TypeOK
  <2>10. ASSUME Collect!Analyse
         PROVE  Collect!TypeOK'
    BY <2>10 DEF Collect!Analyse, Collect!TypeOK
  <2>11. ASSUME Collect!Fail \/ \E u \in Url : Collect!TearFile(u)
         PROVE  Collect!TypeOK'
    <3>1. Collect!Fails
      BY <2>11 DEF Collect!Fail, Collect!TearFile
    <3> QED
      BY <2>1, <3>1 DEF Collect!Fails, Collect!TypeOK, ResearchInv
  <2>12. ASSUME UNCHANGED collectVars
         PROVE  Collect!TypeOK'
    BY <2>12 DEF collectVars, Collect!TypeOK, Collect!Described
  <2>13. Collect!TypeOK'
    BY <2>2, <2>3, <2>4, <2>5, <2>6, <2>7, <2>8, <2>9, <2>10, <2>11, <2>12 DEF Collect!Next
  <2> QED
    BY <2>1, <2>13
<1>3. Inv /\ [Next]_allVars => Inv'
  <2>1. [Next]_allVars => Collect!Next \/ UNCHANGED collectVars
    BY DEF Next, allVars
  <2> QED
    BY <1>2, <2>1
<1> QED
  BY <1>1, <1>3, PTL DEF Spec

\* The types of the social data script.
LEMMA IdeasTyped ==
    ASSUME Boards \in Nat, MaxStarts \in Nat
    PROVE  Spec => []Ideas!TypeOK
<1>1. Init => Ideas!TypeOK
  <2> SUFFICES ASSUME Ideas!Init PROVE Ideas!TypeOK
    BY DEF Init
  <2>1. nick \in [Slug -> Slug]
    BY DEF Ideas!Init
  <2> QED
    BY <2>1 DEF Ideas!Init, Ideas!TypeOK
<1>2. Ideas!TypeOK /\ (Ideas!Next \/ UNCHANGED ideasVars) => Ideas!TypeOK'
  <2> SUFFICES ASSUME Ideas!TypeOK, Ideas!Next \/ UNCHANGED ideasVars PROVE Ideas!TypeOK'
    OBVIOUS
  <2> USE DEF Ideas!tables, Ideas!ipWorld
  <2>1. ASSUME NEW r \in Run, Ideas!Start(r)
        PROVE  Ideas!TypeOK'
    BY <2>1 DEF Ideas!Start, Ideas!TypeOK
  <2>2. ASSUME NEW r \in Run, Ideas!ReadBoard(r)
        PROVE  Ideas!TypeOK'
    BY <2>2
       DEF Ideas!ReadBoard, Ideas!Discover, Ideas!EntriesOf, Ideas!InsertEntries, Ideas!TypeOK
  <2>3. ASSUME NEW r \in Run, Ideas!AddUsers(r)
        PROVE  Ideas!TypeOK'
    BY <2>3 DEF Ideas!AddUsers, Ideas!Discover, Ideas!TypeOK
  <2>4. ASSUME NEW r \in Run, Ideas!PullProfile(r)
        PROVE  Ideas!TypeOK'
    BY <2>4 DEF Ideas!PullProfile, Ideas!UpsertProfile, Ideas!ProfileOf, Ideas!TypeOK
  <2>5. ASSUME NEW r \in Run, Ideas!ReadPage(r)
        PROVE  Ideas!TypeOK'
    BY <2>5 DEF Ideas!ReadPage, Ideas!TypeOK
  <2>6. ASSUME NEW r \in Run, Ideas!StoreTrades(r)
        PROVE  Ideas!TypeOK'
    <3>1. PICK s \in user[r] :
              /\ trades' = [t \in Trade |-> IF t \in pages[r] THEN Ideas!Rows(t, nick[s])
                                            ELSE trades[t]]
              /\ traded' = [traded EXCEPT ![nick[s]] = number[r]]
      BY <2>6 DEF Ideas!StoreTrades, Ideas!UpsertTrades, Ideas!ProfileOf
    <3>2. s \in Slug /\ nick[s] \in Slug /\ number[r] \in 0..MaxStarts
      BY <3>1 DEF Ideas!TypeOK
    <3>3. trades' \in [Trade -> SUBSET Slug] /\ traded' \in [Slug -> 0..MaxStarts]
      BY <3>1, <3>2 DEF Ideas!Rows, Ideas!TypeOK
    <3>4. profiles' \in [Slug -> 0..MaxStarts] /\ pending' \in [Run -> SUBSET Slug]
      BY <2>6, <3>2 DEF Ideas!StoreTrades, Ideas!CommitProfiles, Ideas!TypeOK
    <3>5. /\ walk' = [walk EXCEPT ![r] = "users"]
          /\ user' = [user EXCEPT ![r] = {}] /\ pages' = [pages EXCEPT ![r] = {}]
          /\ UNCHANGED <<entries, number, board, seen, todo, sourced, nick, walks>>
      BY <2>6 DEF Ideas!StoreTrades
    <3> QED
      BY <3>3, <3>4, <3>5 DEF Ideas!TypeOK
  <2>7. ASSUME NEW r \in Run, Ideas!Finish(r)
        PROVE  Ideas!TypeOK'
    <3>1. number[r] \in 0..MaxStarts
      BY DEF Ideas!TypeOK
    <3> QED
      BY <2>7, <3>1 DEF Ideas!Finish, Ideas!CommitProfiles, Ideas!TypeOK
  <2>8. ASSUME NEW r \in Run, Ideas!Fail(r)
        PROVE  Ideas!TypeOK'
    BY <2>8 DEF Ideas!Fail, Ideas!TypeOK
  <2>9. CASE UNCHANGED ideasVars
    BY <2>9 DEF ideasVars, Ideas!TypeOK
  <2> QED
    BY <2>1, <2>2, <2>3, <2>4, <2>5, <2>6, <2>7, <2>8, <2>9 DEF Ideas!Next
<1>3. Ideas!TypeOK /\ [Next]_allVars => Ideas!TypeOK'
  <2>1. [Next]_allVars => Ideas!Next \/ UNCHANGED ideasVars
    BY DEF Next, allVars
  <2> QED
    BY <1>2, <2>1
<1> QED
  BY <1>1, <1>3, PTL DEF Spec

\* The bounds of the pulls, which their types leave open.
PullsBounds ==
    /\ newest \in 0..MaxRecord /\ exists \subseteq 1..newest
    /\ cursor \in [Run -> 0..Pulls!Infinity]
    /\ tries \in [Run -> 0..MaxTries] /\ existed \in [Run -> SUBSET exists]
    /\ pulls \in 0..MaxStarts

\* The bounds hold after every step.
LEMMA PullsBounded ==
    ASSUME RecordsAssumption, PullsTypes, PullsBounds, Pulls!Next \/ UNCHANGED pullVars
    PROVE  PullsBounds'
<1> USE DEF Pulls!Goto, Pulls!exchange, Pulls!runs, RecordsAssumption
<1>1. CASE Pulls!Happens
  <2>1. /\ newest' \in 0..MaxRecord /\ exists' \subseteq 1..newest' /\ exists \subseteq exists'
        /\ UNCHANGED <<cursor, tries, existed, pulls>>
    BY <1>1 DEF Pulls!Happens, PullsBounds, PullsAssumption
  <2> QED
    BY <2>1 DEF PullsBounds
<1>2. ASSUME NEW r \in Run, Pulls!Begin(r)
      PROVE  PullsBounds'
  <2>1. Pulls!Infinity \in Nat /\ MaxTries \in Nat /\ MaxStarts \in Nat
    BY DEF Pulls!Infinity, PullsAssumption
  <2>2. IF kind = "candles" THEN To \in 0..Pulls!Infinity
                            ELSE Pulls!Infinity \in 0..Pulls!Infinity
    BY <2>1
  <2> QED
    BY <1>2, <2>1, <2>2 DEF Pulls!Begin, PullsBounds
<1>3. ASSUME NEW r \in Run, Pulls!MayTry(r), Pulls!Tried(r)
      PROVE  tries' \in [Run -> 0..MaxTries]
  BY <1>3 DEF Pulls!MayTry, Pulls!Tried, PullsBounds
<1>4. ASSUME NEW r \in Run, Pulls!Page(r)
      PROVE  PullsBounds'
  <2>1. PICK page \in Pulls!PagesOf(r) :
           \/ UNCHANGED cursor
           \/ page # {} /\ cursor' = [cursor EXCEPT ![r] = Pulls!CursorAfter(page)]
    BY <1>4 DEF Pulls!Page
  <2>2. UNCHANGED <<newest, exists, existed, pulls>> /\ tries' \in [Run -> 0..MaxTries]
    BY <1>3, <1>4 DEF Pulls!Page
  <2>3. ASSUME page # {}
        PROVE  Pulls!CursorAfter(page) \in 0..Pulls!Infinity
    <3>1. page \subseteq exists
      BY DEF Pulls!PagesOf, Pulls!Older
    <3>2. page \subseteq Nat /\ page \subseteq 1..MaxRecord
      BY <3>1 DEF PullsTypes, Pulls!Record
    <3>3. Pulls!Oldest(page) \in 1..MaxRecord
      BY <2>3, <3>2, OldestOfPage
    <3> QED
      BY <3>3 DEF Pulls!CursorAfter, Pulls!At, Pulls!Infinity, PullsAssumption
  <2>4. cursor' \in [Run -> 0..Pulls!Infinity]
    BY <2>1, <2>3 DEF PullsBounds
  <2> QED
    BY <2>2, <2>4 DEF PullsBounds
<1>5. ASSUME NEW r \in Run, Pulls!Retry(r)
      PROVE  PullsBounds'
  BY <1>3, <1>5 DEF Pulls!Retry, PullsBounds
<1>6. ASSUME NEW r \in Run, Pulls!GivesUp(r) \/ Pulls!Store(r) \/ Pulls!Dies(r)
      PROVE  PullsBounds'
  BY <1>6 DEF Pulls!GivesUp, Pulls!Store, Pulls!Dies, PullsBounds
<1>7. CASE UNCHANGED pullVars
  BY <1>7 DEF pullVars, PullsBounds
<1> QED
  BY <1>1, <1>2, <1>4, <1>5, <1>6, <1>7 DEF Pulls!Next

\* The types of the history pulls: no record has more rows than there are runs.
LEMMA PullsTyped ==
    ASSUME RecordsAssumption
    PROVE  Spec => [](part = "pulls" => Pulls!TypeOK)
<1> DEFINE Inv == PullsTypes /\ PullsBounds
<1>1. Init => Inv
  <2> SUFFICES ASSUME Pulls!Init PROVE Inv
    BY DEF Init
  <2>1. Pulls!Infinity \in Nat /\ MaxTries \in Nat /\ MaxStarts \in Nat /\ MaxRecord \in Nat
    BY DEF Pulls!Infinity, PullsAssumption, RecordsAssumption
  <2> QED
    BY <2>1 DEF Pulls!Init, PullsTypes, PullsBounds
<1>2. Inv /\ [Next]_allVars => Inv'
  <2>1. [Next]_allVars => Pulls!Next \/ UNCHANGED pullVars
    BY DEF Next, allVars
  <2> QED
    BY <2>1, PullsTypesStep, PullsBounded DEF RecordsAssumption
<1>3. Spec => []StoredOncePerRun
  BY StoredAtMostOncePerRun DEF RecordsAssumption
<1>4. Inv /\ StoredOncePerRun => (part = "pulls" => Pulls!TypeOK)
  <2> SUFFICES ASSUME Inv, StoredOncePerRun, part = "pulls" PROVE Pulls!TypeOK
    OBVIOUS
  <2>1. ASSUME NEW i \in Pulls!Record
        PROVE  table[i] \in 0..MaxStarts
    <3>1. table[i] \in Nat /\ MaxStarts \in Nat \ {0} /\ pulls \in 0..MaxStarts
      BY DEF PullsTypes, PullsBounds, RecordsAssumption
    <3>2. table[i] <= IF kind \in {"tape", "archived_tape", "candles"} THEN pulls ELSE 1
      BY DEF StoredOncePerRun, Pulls!StoredOncePerRun
    <3>3. table[i] <= pulls \/ table[i] <= 1
      BY <3>2
    <3> QED
      BY <3>1, <3>3
  <2>2. table \in [Pulls!Record -> 0..MaxStarts]
    BY <2>1 DEF PullsTypes
  <2> QED
    BY <2>2 DEF PullsTypes, PullsBounds, Pulls!TypeOK
<1> QED
  BY <1>1, <1>2, <1>3, <1>4, PTL DEF Spec

\* The types of the parts with an invariant that contains them.
LEMMA OthersTyped ==
    ASSUME RecordsAssumption
    PROVE  Spec => []Rollup!TypeOK /\ []Windows!TypeOK /\ []Books!TypeOK /\ []Migrate!TypeOK
<1>1. RollupInv => Rollup!TypeOK
  BY DEF RollupInv
<1>2. WindowsInv => Windows!TypeOK
  BY DEF WindowsInv
<1>3. BooksInv => Books!TypeOK
  BY DEF BooksInv
<1>4. MigrateInv => Migrate!TypeOK
  BY DEF MigrateInv
<1>5. Spec => []RollupInv
  BY RollupInvariant DEF RecordsAssumption
<1>6. Spec => []WindowsInv
  BY WindowsInvariant DEF RecordsAssumption
<1>7. Spec => []BooksInv
  BY BooksInvariant DEF RecordsAssumption
<1>8. Spec => []MigrateInv
  BY MigrateInvariant DEF RecordsAssumption
<1> QED
  BY <1>1, <1>2, <1>3, <1>4, <1>5, <1>6, <1>7, <1>8, PTL

\* Every variable of every part keeps its type: so no position, cursor, count or
\* time leaves its range, whichever part moves.
THEOREM RecordsTyped == ASSUME RecordsAssumption PROVE Spec => []RecordsTypeOK
<1>1. Spec => [](part \in Part)
  <2>1. Init => part \in Part
    BY DEF Init
  <2>2. part \in Part /\ [Next]_allVars => (part \in Part)'
    BY DEF Next, allVars
  <2> QED
    BY <2>1, <2>2, PTL DEF Spec
<1>2. Spec => []Collect!TypeOK /\ []Ideas!TypeOK /\ [](part = "pulls" => Pulls!TypeOK)
  <2>1. Spec => []Collect!TypeOK
    BY CollectTyped DEF RecordsAssumption
  <2>2. Spec => []Ideas!TypeOK
    BY IdeasTyped DEF RecordsAssumption
  <2>3. Spec => [](part = "pulls" => Pulls!TypeOK)
    BY PullsTyped
  <2> QED
    BY <2>1, <2>2, <2>3
<1>3. Spec => []Rollup!TypeOK /\ []Windows!TypeOK /\ []Books!TypeOK /\ []Migrate!TypeOK
  BY OthersTyped
<1>4. (/\ part \in Part
       /\ Rollup!TypeOK /\ Windows!TypeOK /\ Books!TypeOK
       /\ (part = "pulls" => Pulls!TypeOK)
       /\ Migrate!TypeOK /\ Ideas!TypeOK /\ Collect!TypeOK)
      => RecordsTypeOK
  BY DEF RecordsTypeOK, RecordsAssumption, AllParts
<1> QED
  BY <1>1, <1>2, <1>3, <1>4, PTL
=============================================================================
