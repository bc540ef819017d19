------------------------ MODULE ReferenceFeedsProofs ------------------------
(***************************************************************************)
(* Proofs about ReferenceFeeds, for any number of venues and threads and   *)
(* any limits.                                                             *)
(***************************************************************************)
EXTENDS ReferenceFeeds, TLAPS

\* Only the thread that start made last is alive, and a stop that saw it end is
\* not followed by a price.
ThreadInv ==
    /\ thread \in [Venue -> [Thread -> {"running", "sleeping", "ended"}]]
    /\ current \in [Venue -> Thread] /\ joined \in [Venue -> BOOLEAN]
    /\ \A v \in Venue, th \in Thread : thread[v][th] # "ended" => th = current[v]
    /\ \A v \in Venue : joined[v] => thread[v][current[v]] = "ended"

\* A thread that is alive goes on or ends; all else about the threads stays.
LEMMA ThreadMoves ==
    ASSUME ThreadInv, NEW v \in Venue, NEW th \in Thread, thread[v][th] # "ended",
           NEW where \in {"running", "sleeping", "ended"},
           thread' = [thread EXCEPT ![v][th] = where], UNCHANGED <<current, joined>>
    PROVE  ThreadInv'
BY DEF ThreadInv

\* Every step keeps it.
LEMMA ThreadStep == ThreadInv /\ [Next]_rfVars => ThreadInv'
<1> SUFFICES ASSUME ThreadInv, [Next]_rfVars PROVE ThreadInv'
  OBVIOUS
<1> USE DEF Goto, fetch, source, feeds
<1>1. ASSUME NEW v \in Venue, NEW th \in Thread, Message(v, th)
      PROVE  ThreadInv'
  <2>1. CASE stop[v]
    BY <1>1, <2>1, ThreadMoves DEF Message
  <2>2. CASE ~stop[v]
    BY <1>1, <2>2 DEF Message, ThreadInv
  <2> QED
    BY <2>1, <2>2
<1>2. ASSUME NEW v \in Venue, NEW th \in Thread, Closes(v, th)
      PROVE  ThreadInv'
  <2>1. CASE stop[v]
    BY <1>2, <2>1, ThreadMoves DEF Closes
  <2>2. CASE ~stop[v]
    BY <1>2, <2>2 DEF Closes, ThreadInv
  <2> QED
    BY <2>1, <2>2
<1>3. ASSUME NEW v \in Venue, NEW th \in Thread, Error(v, th)
      PROVE  ThreadInv'
  BY <1>3, ThreadMoves DEF Error, AfterError
<1>4. ASSUME NEW v \in Venue, NEW th \in Thread, Wake(v, th)
      PROVE  ThreadInv'
  BY <1>4, ThreadMoves DEF Wake
<1>5. ASSUME NEW v \in Venue, Start(v)
      PROVE  ThreadInv'
  BY <1>5 DEF Start, MayStart, Alive, ThreadInv
<1>6. ASSUME NEW v \in Venue, StopSet(v)
      PROVE  ThreadInv'
  BY <1>6 DEF StopSet, ThreadInv
<1>7. ASSUME NEW v \in Venue, StopReturns(v)
      PROVE  ThreadInv'
  BY <1>7 DEF StopReturns, ThreadInv
<1>8. ASSUME UNCHANGED <<thread, current, joined>>
      PROVE  ThreadInv'
  BY <1>8 DEF ThreadInv
<1>9. CASE Reads \/ Tick
  BY <1>8, <1>9 DEF Reads, BeginSample, GetPrice, GetAge, EndSample, Tick
<1>10. CASE UNCHANGED rfVars
  BY <1>8, <1>10 DEF rfVars
<1> QED
  BY <1>1, <1>2, <1>3, <1>4, <1>5, <1>6, <1>7, <1>9, <1>10 DEF Next

\* One thread of each venue runs at the start.
LEMMA ThreadInit == Init => ThreadInv
BY DEF Init, ThreadInv

\* With one thread alive, it is the current one.
LEMMA ThreadReaders == ThreadInv => OneReader
BY DEF ThreadInv, OneReader, Alive

\* A feed has one thread at a time, and none once a stop has seen it end,
\* whatever starts, stops that time out, errors and sleeps come.
THEOREM FeedHasOneReader == Spec => []OneReader
BY ThreadInit, ThreadStep, ThreadReaders, PTL DEF Spec

-----------------------------------------------------------------------------

\* What the sampler holds has the age the venue's cache has, and what it has
\* accepted is as old as the limit and the time since, unless a tick came between
\* two reads.
AgeInv ==
    /\ age \in [Venue -> Int] /\ held \in Int /\ accepted \subseteq Int
    /\ spent \in 0..MaxSlow /\ behind \in Int /\ since \in Int
    /\ turn \subseteq Venue
    /\ ~sampling => asking = {} /\ turn = {} /\ accepted = {}
    /\ ~raced => \A v \in turn : held = age[v]
    /\ ~raced => \A a \in accepted : a <= Stale + spent
    /\ ~suspect => behind <= Stale + MaxSlow

\* An age grows by at most one.
LEMMA OlderByOne ==
    ASSUME MaxAge \in Nat, NEW a \in Int
    PROVE  Older(a) \in Int /\ Older(a) <= a + 1
BY DEF Older, None

\* Every step keeps it.
LEMMA AgeStep ==
    ASSUME Stale \in Nat, MaxSlow \in Nat, MaxAge \in Nat
    PROVE  AgeInv /\ [Next]_rfVars => AgeInv'
<1> SUFFICES ASSUME AgeInv, [Next]_rfVars PROVE AgeInv'
  OBVIOUS
<1> USE DEF fetch, source, feeds
<1>1. ASSUME NEW v \in Venue, NEW th \in Thread, Message(v, th)
      PROVE  AgeInv'
  <2>1. ~raced' => ~raced /\ v \notin turn
    BY <1>1, Zenon DEF Message
  <2>2. /\ age' = [age EXCEPT ![v] = 0]
        /\ UNCHANGED <<sampling, asking, turn, held, accepted, spent, behind, suspect, since>>
    BY <1>1 DEF Message, Ingest
  <2> QED
    BY <2>1, <2>2 DEF AgeInv
<1>2. ASSUME UNCHANGED <<age, sampling, asking, turn, held, accepted, raced, spent,
                         behind, suspect, since>>
      PROVE  AgeInv'
  BY <1>2 DEF AgeInv
<1>3. ASSUME NEW v \in Venue, NEW th \in Thread, Closes(v, th) \/ Error(v, th) \/ Wake(v, th)
      PROVE  AgeInv'
  BY <1>2, <1>3 DEF Closes, Error, Wake
<1>4. ASSUME NEW v \in Venue, Start(v) \/ StopSet(v) \/ StopReturns(v)
      PROVE  AgeInv'
  BY <1>2, <1>4 DEF Start, StopSet, StopReturns
<1>5. CASE BeginSample
  <2>1. /\ turn = {} /\ accepted = {} /\ sampling' = TRUE /\ raced' = FALSE /\ spent' = 0
        /\ UNCHANGED <<age, turn, held, accepted, behind, suspect, since>>
    BY <1>5 DEF BeginSample, AgeInv
  <2> QED
    BY <2>1 DEF AgeInv
<1>6. ASSUME NEW v \in Venue, GetPrice(v)
      PROVE  AgeInv'
  BY <1>6 DEF GetPrice, AgeInv
<1>7. ASSUME NEW v \in Venue, GetAge(v)
      PROVE  AgeInv'
  BY <1>7 DEF GetAge, Fresh, AgeInv, None
<1>8. CASE EndSample
  <2>1. /\ accepted' = {} /\ spent' = 0 /\ raced' = FALSE
        /\ UNCHANGED <<age, asking, turn, held>> /\ asking = {} /\ turn = {}
    BY <1>8 DEF EndSample
  <2>2. \/ \E a \in accepted : behind' = a /\ suspect' = raced /\ since' = 0
        \/ behind' = 0 /\ suspect' = raced /\ since' = 0
        \/ UNCHANGED <<behind, suspect, since>>
    BY <1>8 DEF EndSample, Record, RestFallback
  <2>3. /\ behind' \in Int /\ since' \in Int
        /\ ~suspect' => behind' <= Stale + MaxSlow
    BY <2>2 DEF AgeInv
  <2> QED
    BY <2>1, <2>3 DEF AgeInv
<1>9. CASE Tick
  <2>1. /\ sampling => spent < MaxSlow
        /\ spent' = IF sampling THEN spent + 1 ELSE 0
        /\ age' = [v \in Venue |-> Older(age[v])] /\ held' = Older(held)
        /\ accepted' = {Older(a) : a \in accepted}
        /\ since' = IF behind = None THEN 0 ELSE Older(since)
        /\ UNCHANGED <<sampling, asking, turn, raced, behind, suspect>>
    BY <1>9 DEF Tick
  <2>2. /\ age' \in [Venue -> Int] /\ held' \in Int /\ accepted' \subseteq Int
        /\ since' \in Int /\ spent' \in 0..MaxSlow
    <3>1. age \in [Venue -> Int] /\ held \in Int /\ accepted \subseteq Int /\ since \in Int
      BY DEF AgeInv
    <3>2. \A a \in Int : Older(a) \in Int
      BY OlderByOne
    <3>3. age' \in [Venue -> Int]
      BY <2>1, <3>1, <3>2
    <3>4. held' \in Int /\ accepted' \subseteq Int
      BY <2>1, <3>1, <3>2
    <3>5. since' \in Int
      BY <2>1, <3>1, <3>2
    <3>6. spent' \in 0..MaxSlow
      BY <2>1 DEF AgeInv
    <3> QED
      BY <3>3, <3>4, <3>5, <3>6
  <2>3. ~raced' => \A v \in turn' : held' = age'[v]
    BY <2>1 DEF AgeInv
  <2>4. ~raced' => \A a \in accepted' : a <= Stale + spent'
    <3> SUFFICES ASSUME ~raced, NEW a \in accepted PROVE Older(a) <= Stale + spent'
      BY <2>1
    <3>1. sampling /\ a \in Int /\ a <= Stale + spent /\ spent' = spent + 1
      BY <2>1 DEF AgeInv
    <3> QED
      BY <3>1, OlderByOne DEF AgeInv
  <2> QED
    BY <2>1, <2>2, <2>3, <2>4 DEF AgeInv
<1>10. CASE UNCHANGED rfVars
  BY <1>2, <1>10 DEF rfVars
<1> QED
  BY <1>1, <1>3, <1>4, <1>5, <1>6, <1>7, <1>8, <1>9, <1>10 DEF Next, Reads

\* No price is held, accepted or recorded at the start.
LEMMA AgeInit ==
    ASSUME Stale \in Nat, MaxSlow \in Nat
    PROVE  Init => AgeInv
BY DEF Init, AgeInv, None

\* Recorded within the fetcher's limit and the time of a sample, and healthy since.
LEMMA AgeOfSpot ==
    ASSUME Stale \in Nat, MaxSlow \in Nat
    PROVE  AgeInv => HealthyIsRecent
BY DEF AgeInv, HealthyIsRecent, Healthy, SpotAge

\* The price behind a healthy source is at most twice as old as the limit, the
\* time of the sample added, unless a tick came between the two reads of a venue.
THEOREM HealthySourceIsRecent ==
    ASSUME Stale \in Nat, MaxSlow \in Nat, MaxAge \in Nat
    PROVE  Spec => []HealthyIsRecent
<1>1. Init => AgeInv
  BY AgeInit
<1>2. AgeInv /\ [Next]_rfVars => AgeInv'
  BY AgeStep
<1>3. AgeInv => HealthyIsRecent
  BY AgeOfSpot
<1>4. QED
  BY <1>1, <1>2, <1>3, PTL DEF Spec

-----------------------------------------------------------------------------

\* A venue whose turn it is has given a price.
TypeInv == TypeOK /\ (turn # {} => held # None)

\* An age stays within the bound.
LEMMA OlderIsBounded ==
    ASSUME MaxAge \in Nat
    PROVE  /\ \A a \in 0..MaxAge : Older(a) \in 0..MaxAge
           /\ Older(None) = None
BY DEF Older, None

\* A change of one thread's entry keeps the type.
LEMMA EntryTyped ==
    ASSUME NEW S, NEW f \in [Venue -> [Thread -> S]], NEW v \in Venue, NEW th \in Thread,
           NEW x \in S
    PROVE  [f EXCEPT ![v][th] = x] \in [Venue -> [Thread -> S]]
OBVIOUS

\* Every step of a thread keeps the types.
LEMMA ThreadTypes ==
    ASSUME MaxBackoff \in Nat, MaxErrors \in Nat, MaxAge \in Nat, TypeInv,
           NEW v \in Venue, NEW th \in Thread,
           Message(v, th) \/ Closes(v, th) \/ Error(v, th) \/ Wake(v, th)
    PROVE  TypeInv'
<1> USE DEF fetch, source
<1> DEFINE Where == {"running", "sleeping", "ended"}
<1>1. /\ thread \in [Venue -> [Thread -> Where]]
      /\ backoff \in [Venue -> [Thread -> 0..MaxBackoff]]
  BY DEF TypeInv, TypeOK
<1>2. /\ \A where \in Where : [thread EXCEPT ![v][th] = where] \in [Venue -> [Thread -> Where]]
      /\ \A n \in 0..MaxBackoff :
            [backoff EXCEPT ![v][th] = n] \in [Venue -> [Thread -> 0..MaxBackoff]]
  BY <1>1, EntryTyped
<1>3. \/ thread' = thread
      \/ \E where \in Where : thread' = [thread EXCEPT ![v][th] = where]
  BY DEF Message, Closes, Error, Wake, Goto, AfterError
<1>4. \/ backoff' = backoff
      \/ \E n \in 0..MaxBackoff : backoff' = [backoff EXCEPT ![v][th] = n]
  <2>1. backoff[v][th] \in 0..MaxBackoff
    BY <1>1
  <2>2. (IF backoff[v][th] < MaxBackoff THEN backoff[v][th] + 1 ELSE MaxBackoff) \in 0..MaxBackoff
    BY <2>1
  <2>3. 0 \in 0..MaxBackoff
    OBVIOUS
  <2> QED
    BY <2>2, <2>3 DEF Message, Closes, Error, Wake, Backoff
<1>5. /\ thread' \in [Venue -> [Thread -> Where]]
      /\ backoff' \in [Venue -> [Thread -> 0..MaxBackoff]]
  BY <1>1, <1>2, <1>3, <1>4
<1>6. /\ age' = age \/ age' = [age EXCEPT ![v] = 0]
      /\ connected' = connected \/ \E b \in BOOLEAN : connected' = [connected EXCEPT ![v] = b]
      /\ raced' = raced \/ raced' = (raced \/ v \in turn)
      /\ errors' = errors \/ (errors < MaxErrors /\ errors' = errors + 1)
      /\ UNCHANGED <<current, stop, joining, joined, sampling, asking, turn, held, accepted,
                     spent, behind, suspect, since>>
  BY DEF Message, Closes, Error, Wake, Ingest
<1>7. age' \in [Venue -> 0..MaxAge \cup {None}] /\ connected' \in [Venue -> BOOLEAN]
  <2>1. age \in [Venue -> 0..MaxAge \cup {None}] /\ connected \in [Venue -> BOOLEAN]
    BY DEF TypeInv, TypeOK
  <2>2. 0 \in 0..MaxAge \cup {None}
    OBVIOUS
  <2> QED
    BY <1>6, <2>1, <2>2
<1>8. raced' \in BOOLEAN /\ errors' \in 0..MaxErrors
  <2>1. raced \in BOOLEAN /\ errors \in 0..MaxErrors
    BY DEF TypeInv, TypeOK
  <2>2. raced' \in BOOLEAN
    BY <1>6, <2>1, Zenon
  <2>3. errors' \in 0..MaxErrors
    BY <1>6, <2>1
  <2> QED
    BY <2>2, <2>3
<1> HIDE DEF Where
<1> QED
  BY <1>5, <1>6, <1>7, <1>8 DEF TypeInv, TypeOK, Where

\* Every step of the owner keeps the types.
LEMMA OwnerTypes ==
    ASSUME MaxBackoff \in Nat, TypeInv, NEW v \in Venue,
           Start(v) \/ StopSet(v) \/ StopReturns(v)
    PROVE  TypeInv'
<1> USE DEF fetch, source
<1>1. CASE Start(v)
  <2> DEFINE Where == {"running", "sleeping", "ended"}
  <2>1. PICK th \in Thread : /\ thread' = [thread EXCEPT ![v][th] = "running"]
                             /\ backoff' = [backoff EXCEPT ![v][th] = 0]
                             /\ current' = [current EXCEPT ![v] = th]
    BY <1>1 DEF Start, Goto, Backoff
  <2>2. /\ thread \in [Venue -> [Thread -> Where]]
        /\ backoff \in [Venue -> [Thread -> 0..MaxBackoff]]
    BY DEF TypeInv, TypeOK
  <2>3. thread' \in [Venue -> [Thread -> Where]]
    BY <2>1, <2>2, EntryTyped
  <2>4. backoff' \in [Venue -> [Thread -> 0..MaxBackoff]]
    BY <2>1, <2>2, EntryTyped
  <2>5. /\ current' \in [Venue -> Thread] /\ stop' \in [Venue -> BOOLEAN]
        /\ joined' \in [Venue -> BOOLEAN]
        /\ UNCHANGED <<joining, connected, age, errors, fetch, source>>
    BY <1>1, <2>1 DEF Start, TypeInv, TypeOK
  <2> HIDE DEF Where
  <2> QED
    BY <2>3, <2>4, <2>5 DEF TypeInv, TypeOK, Where
<1>2. CASE StopSet(v)
  BY <1>2 DEF StopSet, TypeInv, TypeOK
<1>3. CASE StopReturns(v)
  <2>1. (thread[v][current[v]] = "ended") \in BOOLEAN
    OBVIOUS
  <2> QED
    BY <1>3, <2>1 DEF StopReturns, TypeInv, TypeOK
<1> QED
  BY <1>1, <1>2, <1>3

\* Every step of the sampler and of the clock keeps the types.
LEMMA SampleTypes ==
    ASSUME MaxSlow \in Nat, MaxAge \in Nat, TypeInv, Reads \/ Tick
    PROVE  TypeInv'
<1> USE DEF feeds, source
<1>0. TypeOK /\ (turn # {} => held # None)
  BY DEF TypeInv
<1>1. CASE BeginSample
  <2>1. asking' = Venue /\ spent' \in 0..MaxSlow
    BY <1>1 DEF BeginSample
  <2>3. sampling' \in BOOLEAN /\ raced' \in BOOLEAN
    BY <1>1, Zenon DEF BeginSample
  <2>2. UNCHANGED <<feeds, turn, held, accepted, source>>
    BY <1>1 DEF BeginSample
  <2> QED
    BY <1>0, <2>1, <2>2, <2>3 DEF TypeInv, TypeOK
<1>2. ASSUME NEW v \in Venue, GetPrice(v)
      PROVE  TypeInv'
  BY <1>0, <1>2 DEF GetPrice, TypeInv, TypeOK
<1>3. ASSUME NEW v \in Venue, GetAge(v)
      PROVE  TypeInv'
  <2>1. held \in 0..MaxAge
    BY <1>0, <1>3 DEF GetAge, TypeOK
  <2>2. accepted' \subseteq 0..MaxAge /\ turn' = {} /\ held' = None
    BY <1>0, <1>3, <2>1 DEF GetAge, TypeOK
  <2>3. UNCHANGED <<feeds, sampling, asking, raced, spent, source>>
    BY <1>3 DEF GetAge
  <2> QED
    BY <1>0, <2>2, <2>3 DEF TypeInv, TypeOK
<1>4. CASE EndSample
  <2>1. \/ \E a \in accepted : behind' = a /\ suspect' = raced /\ since' = 0
        \/ behind' = 0 /\ suspect' = raced /\ since' = 0
        \/ UNCHANGED <<behind, suspect, since>>
    BY <1>4 DEF EndSample, Record, RestFallback
  <2>2. behind' \in 0..MaxAge \cup {None} /\ suspect' \in BOOLEAN /\ since' \in 0..MaxAge
    BY <1>0, <2>1 DEF TypeOK
  <2>3. accepted' = {} /\ spent' \in 0..MaxSlow
    BY <1>4 DEF EndSample
  <2>5. sampling' \in BOOLEAN /\ raced' \in BOOLEAN
    BY <1>4, Zenon DEF EndSample
  <2>4. UNCHANGED <<feeds, asking, turn, held>>
    BY <1>4 DEF EndSample
  <2> QED
    BY <1>0, <2>2, <2>3, <2>4, <2>5 DEF TypeInv, TypeOK
<1>5. CASE Tick
  <2> DEFINE Age == 0..MaxAge \cup {None}
  <2>1. \A a \in Age : Older(a) \in Age /\ (Older(a) = None => a = None)
    BY OlderIsBounded DEF None
  <2>2. age' \in [Venue -> Age] /\ held' \in Age /\ (turn # {} => held' # None)
    BY <1>0, <1>5, <2>1 DEF Tick, TypeOK
  <2>3. accepted' \subseteq 0..MaxAge
    BY <1>0, <1>5, OlderIsBounded DEF Tick, TypeOK
  <2>4. since' \in 0..MaxAge
    <3>1. since' = 0 \/ since' = Older(since)
      BY <1>5 DEF Tick
    <3> QED
      BY <1>0, <3>1, OlderIsBounded DEF TypeOK
  <2>5. spent' \in 0..MaxSlow
    BY <1>0, <1>5 DEF Tick, TypeOK
  <2>6. UNCHANGED <<thread, current, stop, joining, joined, connected, backoff, errors,
                    sampling, asking, turn, raced, behind, suspect>>
    BY <1>5 DEF Tick
  <2> QED
    BY <1>0, <2>2, <2>3, <2>4, <2>5, <2>6 DEF TypeInv, TypeOK
<1> QED
  BY <1>1, <1>2, <1>3, <1>4, <1>5 DEF Reads

\* Every step keeps the types.
LEMMA TypeStep ==
    ASSUME MaxSlow \in Nat, MaxAge \in Nat, MaxBackoff \in Nat, MaxErrors \in Nat
    PROVE  TypeInv /\ [Next]_rfVars => TypeInv'
<1>1. TypeInv /\ UNCHANGED rfVars => TypeInv'
  BY DEF TypeInv, TypeOK, rfVars, feeds, fetch, source
<1> QED
  BY <1>1, ThreadTypes, OwnerTypes, SampleTypes DEF Next

\* The initial states are well typed.
LEMMA TypeInit ==
    ASSUME MaxSlow \in Nat, MaxAge \in Nat, MaxBackoff \in Nat, MaxErrors \in Nat
    PROVE  Init => TypeInv
<1> SUFFICES ASSUME Init PROVE TypeInv
  OBVIOUS
<1>1. PICK th \in Thread :
         /\ thread = [v \in Venue |-> [t \in Thread |-> IF t = th THEN "running" ELSE "ended"]]
         /\ current = [v \in Venue |-> th]
  BY DEF Init
<1>2. /\ thread \in [Venue -> [Thread -> {"running", "sleeping", "ended"}]]
      /\ current \in [Venue -> Thread]
  BY <1>1
<1>3. /\ stop \in [Venue -> BOOLEAN] /\ joining \in [Venue -> BOOLEAN]
      /\ joined \in [Venue -> BOOLEAN] /\ connected \in [Venue -> BOOLEAN]
      /\ backoff \in [Venue -> [Thread -> 0..MaxBackoff]]
      /\ age \in [Venue -> 0..MaxAge \cup {None}] /\ errors \in 0..MaxErrors
  BY DEF Init
<1>4. /\ sampling \in BOOLEAN /\ asking \subseteq Venue /\ turn = {}
      /\ held \in 0..MaxAge \cup {None} /\ accepted \subseteq 0..MaxAge
      /\ raced \in BOOLEAN /\ spent \in 0..MaxSlow
      /\ behind \in 0..MaxAge \cup {None} /\ suspect \in BOOLEAN /\ since \in 0..MaxAge
  <2>1. sampling \in BOOLEAN /\ raced \in BOOLEAN /\ suspect \in BOOLEAN
    BY DEF Init
  <2>2. asking \subseteq Venue /\ turn = {} /\ accepted \subseteq 0..MaxAge
    BY DEF Init
  <2>3. /\ held \in 0..MaxAge \cup {None} /\ spent \in 0..MaxSlow
        /\ behind \in 0..MaxAge \cup {None} /\ since \in 0..MaxAge
    BY DEF Init
  <2> QED
    BY <2>1, <2>2, <2>3
<1> QED
  BY <1>2, <1>3, <1>4 DEF TypeInv, TypeOK

\* Every variable of the feeds, of the fetcher and of the source keeps its type:
\* an age that was accepted is an age, never the absence of one.
THEOREM FeedsTyped ==
    ASSUME MaxSlow \in Nat, MaxAge \in Nat, MaxBackoff \in Nat, MaxErrors \in Nat
    PROVE  Spec => []TypeOK
<1>1. Init => TypeInv
  BY TypeInit
<1>2. TypeInv /\ [Next]_rfVars => TypeInv'
  BY TypeStep
<1>3. TypeInv => TypeOK
  BY DEF TypeInv
<1> QED
  BY <1>1, <1>2, <1>3, PTL DEF Spec
=============================================================================
