--------------------------- MODULE ServicesProofs ---------------------------
(***************************************************************************)
(* Proofs about MCServices, for any number of threads and toggles and any  *)
(* limits: those about the flags and about the reference feeds, carried    *)
(* over to the parts they are run as.                                      *)
(***************************************************************************)
EXTENDS MCServices, RuntimeFlagsProofs

\* The facts about the feeds, for one restarted venue and for the basket.
OneProofs == INSTANCE ReferenceFeedsProofs WITH Venue <- {Coinbase}, Owned <- TRUE
TwoProofs == INSTANCE ReferenceFeedsProofs WITH
                 Venue <- {Coinbase, Kraken}, Owned <- FALSE, Thread <- {Reader}, MaxErrors <- 0

\* The steps and the first states of the restarted feed are those of the module the
\* proofs are about.
LEMMA OneIsProved == (One!Init => OneProofs!Init) /\ (One!Next => OneProofs!Next)
<1>1. One!Init => OneProofs!Init
  BY DEF One!Init, One!None, OneProofs!Init, OneProofs!None
<1>2. One!Next => OneProofs!Next
  BY DEF One!Next, One!Message, One!Closes, One!Error, One!Wake, One!Start, One!StopSet,
       One!StopReturns, One!Reads, One!Tick, One!BeginSample, One!GetPrice, One!GetAge,
       One!EndSample, One!Goto, One!Backoff, One!Ingest, One!AfterError, One!MayStart,
       One!Alive, One!Fresh, One!Record, One!Oldest, One!RestFallback, One!Older,
       One!None, One!feeds, One!fetch, One!source, OneProofs!Next, OneProofs!Message,
       OneProofs!Closes, OneProofs!Error, OneProofs!Wake, OneProofs!Start,
       OneProofs!StopSet, OneProofs!StopReturns, OneProofs!Reads, OneProofs!Tick,
       OneProofs!BeginSample, OneProofs!GetPrice, OneProofs!GetAge, OneProofs!EndSample,
       OneProofs!Goto, OneProofs!Backoff, OneProofs!Ingest, OneProofs!AfterError,
       OneProofs!MayStart, OneProofs!Alive, OneProofs!Fresh, OneProofs!Record,
       OneProofs!Oldest, OneProofs!RestFallback, OneProofs!Older, OneProofs!None,
       OneProofs!feeds, OneProofs!fetch, OneProofs!source
<1> QED
  BY <1>1, <1>2

\* Its threads and its ages hold to their invariants.
LEMMA OneInv ==
    ASSUME Stale \in Nat, MaxSlow \in Nat, MaxAge \in Nat
    PROVE  /\ One!Init => OneProofs!ThreadInv /\ OneProofs!AgeInv
           /\ OneProofs!ThreadInv /\ OneProofs!AgeInv /\ (One!Next \/ UNCHANGED feedVars)
                => OneProofs!ThreadInv' /\ OneProofs!AgeInv'
<1>1. One!Init => OneProofs!ThreadInv /\ OneProofs!AgeInv
  BY OneIsProved, OneProofs!ThreadInit, OneProofs!AgeInit
<1>2. UNCHANGED feedVars => UNCHANGED OneProofs!rfVars
  BY DEF feedVars, OneProofs!rfVars, OneProofs!feeds, OneProofs!fetch, OneProofs!source
<1> QED
  BY <1>1, <1>2, OneIsProved, OneProofs!ThreadStep, OneProofs!AgeStep

\* They give the properties.
LEMMA OneHolds ==
    ASSUME Stale \in Nat, MaxSlow \in Nat, OneProofs!ThreadInv, OneProofs!AgeInv
    PROVE  One!OneReader /\ One!HealthyIsRecent
<1>1. OneProofs!OneReader /\ OneProofs!HealthyIsRecent
  BY OneProofs!ThreadReaders, OneProofs!AgeOfSpot
<1>2. One!OneReader
  BY <1>1 DEF One!OneReader, One!Alive, OneProofs!OneReader, OneProofs!Alive
<1>3. One!HealthyIsRecent
  BY <1>1 DEF One!HealthyIsRecent, One!Healthy, One!SpotAge, One!None,
              OneProofs!HealthyIsRecent, OneProofs!Healthy, OneProofs!SpotAge, OneProofs!None
<1> QED
  BY <1>2, <1>3

\* The steps and the first states of the basket are those of the module the proofs are about.
LEMMA TwoIsProved == (Two!Init => TwoProofs!Init) /\ (Two!Next => TwoProofs!Next)
<1>1. Two!Init => TwoProofs!Init
  BY DEF Two!Init, Two!None, TwoProofs!Init, TwoProofs!None
<1>2. Two!Next => TwoProofs!Next
  BY DEF Two!Next, Two!Message, Two!Closes, Two!Error, Two!Wake, Two!Start, Two!StopSet,
       Two!StopReturns, Two!Reads, Two!Tick, Two!BeginSample, Two!GetPrice, Two!GetAge,
       Two!EndSample, Two!Goto, Two!Backoff, Two!Ingest, Two!AfterError, Two!MayStart,
       Two!Alive, Two!Fresh, Two!Record, Two!Oldest, Two!RestFallback, Two!Older,
       Two!None, Two!feeds, Two!fetch, Two!source, TwoProofs!Next, TwoProofs!Message,
       TwoProofs!Closes, TwoProofs!Error, TwoProofs!Wake, TwoProofs!Start,
       TwoProofs!StopSet, TwoProofs!StopReturns, TwoProofs!Reads, TwoProofs!Tick,
       TwoProofs!BeginSample, TwoProofs!GetPrice, TwoProofs!GetAge, TwoProofs!EndSample,
       TwoProofs!Goto, TwoProofs!Backoff, TwoProofs!Ingest, TwoProofs!AfterError,
       TwoProofs!MayStart, TwoProofs!Alive, TwoProofs!Fresh, TwoProofs!Record,
       TwoProofs!Oldest, TwoProofs!RestFallback, TwoProofs!Older, TwoProofs!None,
       TwoProofs!feeds, TwoProofs!fetch, TwoProofs!source
<1> QED
  BY <1>1, <1>2

\* Its threads and its ages hold to their invariants.
LEMMA TwoInv ==
    ASSUME Stale \in Nat, MaxSlow \in Nat, MaxAge \in Nat
    PROVE  /\ Two!Init => TwoProofs!ThreadInv /\ TwoProofs!AgeInv
           /\ TwoProofs!ThreadInv /\ TwoProofs!AgeInv /\ (Two!Next \/ UNCHANGED feedVars)
                => TwoProofs!ThreadInv' /\ TwoProofs!AgeInv'
<1>1. Two!Init => TwoProofs!ThreadInv /\ TwoProofs!AgeInv
  BY TwoIsProved, TwoProofs!ThreadInit, TwoProofs!AgeInit
<1>2. UNCHANGED feedVars => UNCHANGED TwoProofs!rfVars
  BY DEF feedVars, TwoProofs!rfVars, TwoProofs!feeds, TwoProofs!fetch, TwoProofs!source
<1> QED
  BY <1>1, <1>2, TwoIsProved, TwoProofs!ThreadStep, TwoProofs!AgeStep

\* They give the properties.
LEMMA TwoHolds ==
    ASSUME Stale \in Nat, MaxSlow \in Nat, TwoProofs!ThreadInv, TwoProofs!AgeInv
    PROVE  Two!OneReader /\ Two!HealthyIsRecent
<1>1. TwoProofs!OneReader /\ TwoProofs!HealthyIsRecent
  BY TwoProofs!ThreadReaders, TwoProofs!AgeOfSpot
<1>2. Two!OneReader
  BY <1>1 DEF Two!OneReader, Two!Alive, TwoProofs!OneReader, TwoProofs!Alive
<1>3. Two!HealthyIsRecent
  BY <1>1 DEF Two!HealthyIsRecent, Two!Healthy, Two!SpotAge, Two!None,
              TwoProofs!HealthyIsRecent, TwoProofs!Healthy, TwoProofs!SpotAge, TwoProofs!None
<1> QED
  BY <1>2, <1>3

-----------------------------------------------------------------------------

\* The inductive invariant of the feeds, in the part that runs them.
FeedsInv ==
    /\ part = "coinbase" => OneProofs!ThreadInv /\ OneProofs!AgeInv
    /\ part = "basket" => TwoProofs!ThreadInv /\ TwoProofs!AgeInv

\* The invariant of the feeds holds in every reachable state.
LEMMA FeedsInvariant ==
    ASSUME Stale \in Nat, MaxSlow \in Nat, MaxAge \in Nat
    PROVE  ServicesSpec => []FeedsInv
<1>1. ServicesInit => FeedsInv
  <2> SUFFICES ASSUME ServicesInit PROVE FeedsInv
    OBVIOUS
  <2>1. (part = "coinbase" => One!Init) /\ (part = "basket" => Two!Init)
    BY DEF ServicesInit
  <2> QED
    BY <2>1, OneInv, TwoInv DEF FeedsInv
<1>2. FeedsInv /\ [ServicesNext]_allVars => FeedsInv'
  <2> SUFFICES ASSUME FeedsInv, [ServicesNext]_allVars PROVE FeedsInv'
    OBVIOUS
  <2>1. /\ part' = part
        /\ part = "coinbase" => One!Next \/ UNCHANGED feedVars
        /\ part = "basket" => Two!Next \/ UNCHANGED feedVars
    BY DEF ServicesNext, allVars
  <2> QED
    BY <2>1, OneInv, TwoInv DEF FeedsInv
<1> QED
  BY <1>1, <1>2, PTL DEF ServicesSpec

\* A feed has one thread at a time, and none once a stop has seen it end, alone
\* and in the basket.
THEOREM FeedsHaveOneReader ==
    ASSUME Stale \in Nat, MaxSlow \in Nat, MaxAge \in Nat
    PROVE  ServicesSpec => []OneReader
<1>1. FeedsInv => OneReader
  BY OneHolds, TwoHolds DEF FeedsInv, OneReader
<1> QED
  BY <1>1, FeedsInvariant, PTL

\* The price behind a healthy source is at most twice as old as the limit, the
\* time of a sample added, alone and in the basket, unless a tick came between
\* the two reads of a venue.
THEOREM HealthySourcesAreRecent ==
    ASSUME Stale \in Nat, MaxSlow \in Nat, MaxAge \in Nat
    PROVE  ServicesSpec => []HealthyIsRecent
<1>1. FeedsInv => HealthyIsRecent
  BY OneHolds, TwoHolds DEF FeedsInv, HealthyIsRecent
<1> QED
  BY <1>1, FeedsInvariant, PTL

\* No version of the flags file is missed for good, whichever threads poll it.
THEOREM ServedFlagsNeverStale == ServicesSpec => []NeverStaleForGood
<1>1. ServicesInit => Init
  BY DEF ServicesInit
<1>2. [ServicesNext]_allVars => [Next]_vars
  BY DEF ServicesNext, allVars
<1> QED
  BY <1>1, <1>2, NoStaleFlags, PTL DEF ServicesSpec, Spec

\* The types of the feeds, as the part they are run as.
LEMMA OneTyped ==
    ASSUME MaxSlow \in Nat, MaxAge \in Nat, MaxBackoff \in Nat, MaxErrors \in Nat
    PROVE  /\ One!Init => OneProofs!TypeInv
           /\ OneProofs!TypeInv /\ (One!Next \/ UNCHANGED feedVars) => OneProofs!TypeInv'
           /\ OneProofs!TypeInv => One!TypeOK
<1>1. UNCHANGED feedVars => UNCHANGED OneProofs!rfVars
  BY DEF feedVars, OneProofs!rfVars, OneProofs!feeds, OneProofs!fetch, OneProofs!source
<1>2. OneProofs!TypeInv => One!TypeOK
  BY DEF OneProofs!TypeInv, OneProofs!TypeOK, OneProofs!None, One!TypeOK, One!None
<1> QED
  BY <1>1, <1>2, OneIsProved, OneProofs!TypeInit, OneProofs!TypeStep

\* The types of the basket.
LEMMA TwoTyped ==
    ASSUME MaxSlow \in Nat, MaxAge \in Nat, MaxBackoff \in Nat
    PROVE  /\ Two!Init => TwoProofs!TypeInv
           /\ TwoProofs!TypeInv /\ (Two!Next \/ UNCHANGED feedVars) => TwoProofs!TypeInv'
           /\ TwoProofs!TypeInv => Two!TypeOK
<1>1. UNCHANGED feedVars => UNCHANGED TwoProofs!rfVars
  BY DEF feedVars, TwoProofs!rfVars, TwoProofs!feeds, TwoProofs!fetch, TwoProofs!source
<1>2. TwoProofs!TypeInv => Two!TypeOK
  BY DEF TwoProofs!TypeInv, TwoProofs!TypeOK, TwoProofs!None, Two!TypeOK, Two!None
<1>3. 0 \in Nat
  OBVIOUS
<1> QED
  BY <1>1, <1>2, <1>3, TwoIsProved, TwoProofs!TypeInit, TwoProofs!TypeStep

\* The inductive types, in the part that has the variables.
PartsTyped ==
    /\ part \in Part
    /\ part = "coinbase" => OneProofs!TypeInv
    /\ part = "basket" => TwoProofs!TypeInv

\* The variables of whichever part runs keep their types.
THEOREM ServicesTyped ==
    ASSUME MaxSlow \in Nat, MaxAge \in Nat, MaxBackoff \in Nat, MaxErrors \in Nat,
           Part \subseteq {"flags", "coinbase", "basket"}
    PROVE  ServicesSpec => []ServicesTypeOK
<1>1. ServicesInit => PartsTyped
  <2> SUFFICES ASSUME ServicesInit PROVE PartsTyped
    OBVIOUS
  <2>1. (part = "coinbase" => One!Init) /\ (part = "basket" => Two!Init)
    BY DEF ServicesInit
  <2> QED
    BY <2>1, OneTyped, TwoTyped DEF PartsTyped, ServicesInit
<1>2. PartsTyped /\ [ServicesNext]_allVars => PartsTyped'
  <2> SUFFICES ASSUME PartsTyped, [ServicesNext]_allVars PROVE PartsTyped'
    OBVIOUS
  <2>1. /\ part' = part
        /\ part = "coinbase" => One!Next \/ UNCHANGED feedVars
        /\ part = "basket" => Two!Next \/ UNCHANGED feedVars
    BY DEF ServicesNext, allVars
  <2> QED
    BY <2>1, OneTyped, TwoTyped DEF PartsTyped
<1>3. ServicesSpec => []TypeOK
  <2>1. ServicesInit => Init
    BY DEF ServicesInit
  <2>2. [ServicesNext]_allVars => [Next]_vars
    BY DEF ServicesNext, allVars
  <2> QED
    BY <2>1, <2>2, TypeCorrect, PTL DEF ServicesSpec, Spec
<1>4. PartsTyped /\ TypeOK => ServicesTypeOK
  BY OneTyped, TwoTyped DEF PartsTyped, ServicesTypeOK
<1> QED
  BY <1>1, <1>2, <1>3, <1>4, PTL DEF ServicesSpec
=============================================================================
