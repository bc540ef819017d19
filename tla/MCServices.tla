----------------------------- MODULE MCServices -----------------------------
(***************************************************************************)
(* The two services with threads of their own that the trading loop reads, *)
(* in one run: the flags poller, and the reference feeds as one venue that *)
(* its owner restarts or as a basket of two.  They share no state, so each *)
(* behaviour is one of a single part and the other stays as it was.        *)
(***************************************************************************)
EXTENDS RuntimeFlags

CONSTANTS
    Part,                  \* the parts
    Coinbase, Kraken,      \* the venues
    Stale, MaxSlow, MaxAge, MaxBackoff, MaxErrors

VARIABLES
    part,
    thread, current, stop, joining, joined, connected, backoff, age, errors,
    sampling, asking, turn, held, accepted, raced, spent,
    behind, suspect, since

feedVars == <<thread, current, stop, joining, joined, connected, backoff, age, errors,
              sampling, asking, turn, held, accepted, raced, spent, behind, suspect, since>>
allVars  == <<part, vars, feedVars>>

One    == INSTANCE ReferenceFeeds WITH Venue <- {Coinbase}, Owned <- TRUE
Reader == CHOOSE th \in Thread : TRUE
Two    == INSTANCE ReferenceFeeds WITH
              Venue <- {Coinbase, Kraken}, Owned <- FALSE, Thread <- {Reader}, MaxErrors <- 0

\* A part that does not move has one initial state.
ServicesInit ==
    /\ part \in Part
    /\ Init
    /\ part = "flags" \/ at = Booting(Reader)
    /\ IF part = "basket" THEN Two!Init ELSE One!Init
    /\ part = "flags" => \A v \in {Coinbase} : current[v] = Reader

ServicesNext ==
    /\ UNCHANGED part
    /\ \/ part = "flags" /\ Next /\ UNCHANGED feedVars
       \/ part = "coinbase" /\ One!Next /\ UNCHANGED vars
       \/ part = "basket" /\ Two!Next /\ UNCHANGED vars

\* FairSpec of RuntimeFlags and Fairness of ReferenceFeeds, for the part that
\* moves.
Polls ==
    \A th \in Thread :
        /\ WF_allVars(part = "flags" /\ Get(th) /\ UNCHANGED <<part, feedVars>>)
        /\ WF_allVars(part = "flags" /\ Refresh(th) /\ UNCHANGED <<part, feedVars>>)

OneFeeds ==
    /\ \A th \in Thread :
         /\ WF_allVars(part = "coinbase" /\ One!Message(Coinbase, th) /\ UNCHANGED <<part, vars>>)
         /\ WF_allVars(part = "coinbase" /\ One!Wake(Coinbase, th) /\ UNCHANGED <<part, vars>>)
    /\ WF_allVars(part = "coinbase" /\ One!Reads /\ UNCHANGED <<part, vars>>)
    /\ WF_allVars(part = "coinbase" /\ One!Tick /\ UNCHANGED <<part, vars>>)

TwoFeed ==
    /\ \A v \in {Coinbase, Kraken} :
         /\ WF_allVars(part = "basket" /\ Two!Message(v, Reader) /\ UNCHANGED <<part, vars>>)
         /\ WF_allVars(part = "basket" /\ Two!Wake(v, Reader) /\ UNCHANGED <<part, vars>>)
    /\ WF_allVars(part = "basket" /\ Two!Reads /\ UNCHANGED <<part, vars>>)
    /\ WF_allVars(part = "basket" /\ Two!Tick /\ UNCHANGED <<part, vars>>)

ServicesSpec == ServicesInit /\ [][ServicesNext]_allVars /\ Polls /\ OneFeeds /\ TwoFeed

-----------------------------------------------------------------------------
(* The properties are those of the modules, where they are stated.         *)

\* The type invariant of the part that moves.
ServicesTypeOK ==
    CASE part = "flags"    -> TypeOK
      [] part = "coinbase" -> One!TypeOK
      [] part = "basket"   -> Two!TypeOK

\* A feed has one thread at a time, and none once a stop has seen it end.
OneReader ==
    CASE part = "coinbase" -> One!OneReader
      [] part = "basket"   -> Two!OneReader
      [] OTHER             -> TRUE

\* A healthy source has a price of bounded age.
HealthyIsRecent ==
    CASE part = "coinbase" -> One!HealthyIsRecent
      [] part = "basket"   -> Two!HealthyIsRecent
      [] OTHER             -> TRUE

\* FeedRecovers of ReferenceFeeds: a feed that is not stopped brings a new
\* price again and again, after errors, sleeps and stops that timed out.
Runs(v) == part # "flags" /\ v \in DOMAIN stop /\ ~stop[v]

FeedRecovers ==
    \A v \in {Coinbase, Kraken} : <>[]Runs(v) => []<>(Runs(v) /\ age[v] = 0)
=============================================================================
