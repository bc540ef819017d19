--------------------------- MODULE ReferenceFeeds ---------------------------
(***************************************************************************)
(* The reference price of one asset: the socket threads of coinbase_ws and *)
(* kraken_ws, the fetcher over one venue or the basket of several, the     *)
(* REST fallback, and the tick that sample_reference records.              *)
(*                                                                         *)
(* A price is represented by its age, which is all that staleness is       *)
(* about: Tick makes every price older, up to MaxAge.  The fetcher reads a *)
(* price and then, in a second critical section, its age; the threads and  *)
(* the clock run in between.                                               *)
(***************************************************************************)
EXTENDS Integers

CONSTANTS
    Venue,       \* Coinbase, or Coinbase and Kraken
    Thread,      \* identities of socket threads
    Stale,       \* staleness_threshold_us
    MaxSlow,     \* bound on the time one sample takes
    MaxAge,      \* ages beyond this are not told apart
    MaxBackoff,  \* reconnect_max_s, in doublings of reconnect_initial_s
    Owned,       \* whether the owner stops and starts the feeds again
    MaxErrors    \* bound on the errors of connections

VARIABLES
    \* the feeds
    thread,     \* where each thread of a venue is
    current,    \* _thread
    stop,       \* _stop_event
    joining,    \* the owner waits in stop()
    joined,     \* the last stop saw its thread end (history)
    connected,
    backoff,    \* of each thread
    age,        \* of the cached price
    errors,
    \* the sampler
    sampling,   \* sample_reference is under way
    asking,     \* venues the fetcher has yet to ask
    turn, held, \* the venue whose price it holds, and the age of that price
    accepted,   \* ages of the prices it has accepted
    raced,      \* a tick came between its two reads (history)
    spent,      \* time since the sample began
    \* the reference source
    behind,     \* age of the last recorded price when it was recorded
    suspect,    \* that sample was raced (history)
    since       \* time since then

feeds  == <<thread, current, stop, joining, joined, connected, backoff, age, errors>>
fetch  == <<sampling, asking, turn, held, accepted, raced, spent>>
source == <<behind, suspect, since>>
rfVars == <<feeds, fetch, source>>

None == -1

Alive(v) == {th \in Thread : thread[v][th] # "ended"}

\* main starts every feed before it enters the loop.
Init ==
    /\ \E th \in Thread :
        /\ thread = [v \in Venue |-> [t \in Thread |-> IF t = th THEN "running" ELSE "ended"]]
        /\ current = [v \in Venue |-> th]
    /\ stop = [v \in Venue |-> FALSE] /\ joining = [v \in Venue |-> FALSE]
    /\ joined = [v \in Venue |-> FALSE] /\ connected = [v \in Venue |-> FALSE]
    /\ backoff = [v \in Venue |-> [t \in Thread |-> 0]]
    /\ age = [v \in Venue |-> None] /\ errors = 0
    /\ sampling = FALSE /\ asking = {} /\ turn = {} /\ held = None
    /\ accepted = {} /\ raced = FALSE /\ spent = 0
    /\ behind = None /\ suspect = FALSE /\ since = 0

-----------------------------------------------------------------------------
(* A socket thread: _main_loop, _run_once, _ingest                         *)

Goto(v, th, where) == thread' = [thread EXCEPT ![v][th] = where]
Backoff(v, th, n)  == backoff' = [backoff EXCEPT ![v][th] = n]

\* The price of a message replaces the cached one.
Ingest(v) == age' = [age EXCEPT ![v] = 0]

\* A message; a stopped thread notices only now.
Message(v, th) ==
    /\ thread[v][th] = "running"
    /\ Ingest(v)
    /\ connected' = [connected EXCEPT ![v] = TRUE]
    /\ raced' = (raced \/ v \in turn)
    /\ IF stop[v] THEN Goto(v, th, "ended") /\ Backoff(v, th, 0)
                  ELSE UNCHANGED <<thread, backoff>>
    /\ UNCHANGED <<current, stop, joining, joined, errors, sampling, asking, turn, held,
                   accepted, spent, source>>

\* The peer closes the connection: the loop goes round at once.
Closes(v, th) ==
    /\ thread[v][th] = "running"
    /\ Backoff(v, th, 0)
    /\ IF stop[v] THEN Goto(v, th, "ended") ELSE UNCHANGED thread
    /\ UNCHANGED <<current, stop, joining, joined, connected, age, errors, fetch, source>>

\* Connecting or reading raises.
AfterError_Ends(v) == "ended"
AfterError(v) == IF stop[v] THEN "ended" ELSE "sleeping"

Error(v, th) ==
    /\ thread[v][th] = "running" /\ errors < MaxErrors
    /\ errors' = errors + 1
    /\ connected' = [connected EXCEPT ![v] = FALSE]
    /\ Goto(v, th, AfterError(v))
    /\ UNCHANGED <<current, stop, joining, joined, backoff, age, fetch, source>>

\* The sleep, which no stop interrupts, is over.
Wake(v, th) ==
    /\ thread[v][th] = "sleeping"
    /\ Backoff(v, th, IF backoff[v][th] < MaxBackoff THEN backoff[v][th] + 1 ELSE MaxBackoff)
    /\ Goto(v, th, IF stop[v] THEN "ended" ELSE "running")
    /\ UNCHANGED <<current, stop, joining, joined, connected, age, errors, fetch, source>>

-----------------------------------------------------------------------------
(* The owner: start and stop                                               *)

MayStart_Always(v) == TRUE
MayStart(v) == thread[v][current[v]] = "ended"

Start(v) ==
    /\ Owned /\ ~joining[v]
    /\ MayStart(v)
    /\ stop' = [stop EXCEPT ![v] = FALSE]
    /\ \E th \in Thread \ Alive(v) :
        /\ Goto(v, th, "running") /\ Backoff(v, th, 0)
        /\ current' = [current EXCEPT ![v] = th]
    /\ joined' = [joined EXCEPT ![v] = FALSE]
    /\ UNCHANGED <<joining, connected, age, errors, fetch, source>>

StopSet(v) ==
    /\ Owned /\ ~joining[v]
    /\ stop' = [stop EXCEPT ![v] = TRUE]
    /\ joining' = [joining EXCEPT ![v] = TRUE]
    /\ UNCHANGED <<thread, current, joined, connected, backoff, age, errors, fetch, source>>

\* join returns when the thread has ended, or when the timeout has passed.
StopReturns(v) ==
    /\ joining[v]
    /\ joining' = [joining EXCEPT ![v] = FALSE]
    /\ joined' = [joined EXCEPT ![v] = thread[v][current[v]] = "ended"]
    /\ connected' = [connected EXCEPT ![v] = FALSE]
    /\ UNCHANGED <<thread, current, stop, backoff, age, errors, fetch, source>>

-----------------------------------------------------------------------------
(* The fetcher and sample_reference                                        *)

BeginSample ==
    /\ ~sampling /\ sampling' = TRUE
    /\ asking' = Venue /\ raced' = FALSE /\ spent' = 0
    /\ UNCHANGED <<feeds, turn, held, accepted, source>>

\* get_price; a venue without a price is passed over.
GetPrice(v) ==
    /\ v \in asking /\ turn = {}
    /\ asking' = asking \ {v}
    /\ IF age[v] = None THEN UNCHANGED <<turn, held>> ELSE turn' = {v} /\ held' = age[v]
    /\ UNCHANGED <<feeds, sampling, accepted, raced, spent, source>>

\* get_age_us, of whatever the cache has now.
Fresh_Unchecked(v) == TRUE
Fresh(v) == age[v] <= Stale

GetAge(v) ==
    /\ v \in turn
    /\ turn' = {} /\ held' = None
    /\ accepted' = IF Fresh(v) THEN accepted \cup {held} ELSE accepted
    /\ UNCHANGED <<feeds, sampling, asking, raced, spent, source>>

\* record_tick: the tick carries the time of the sample.
Record(a) == behind' = a /\ suspect' = raced /\ since' = 0

\* The median of what is fresh may be as old as the oldest of it.
Oldest(a) == \A other \in accepted : other <= a

\* Nothing is fresh: an answer of REST, or no tick at all.
RestFallback == Record(0) \/ UNCHANGED source

EndSample ==
    /\ sampling /\ asking = {} /\ turn = {}
    /\ IF accepted # {} THEN \E a \in accepted : Oldest(a) /\ Record(a) ELSE RestFallback
    /\ sampling' = FALSE /\ accepted' = {} /\ spent' = 0 /\ raced' = FALSE
    /\ UNCHANGED <<feeds, asking, turn, held>>

-----------------------------------------------------------------------------
Older(a) == IF a = None THEN None ELSE IF a < MaxAge THEN a + 1 ELSE MaxAge

Tick ==
    /\ sampling => spent < MaxSlow
    /\ spent' = IF sampling THEN spent + 1 ELSE 0
    /\ age' = [v \in Venue |-> Older(age[v])]
    /\ held' = Older(held) /\ accepted' = {Older(a) : a \in accepted}
    /\ since' = IF behind = None THEN 0 ELSE Older(since)
    /\ UNCHANGED <<thread, current, stop, joining, joined, connected, backoff, errors,
                   sampling, asking, turn, raced, behind, suspect>>

Reads == BeginSample \/ (\E v \in Venue : GetPrice(v) \/ GetAge(v)) \/ EndSample

Next ==
    \/ \E v \in Venue, th \in Thread :
         Message(v, th) \/ Closes(v, th) \/ Error(v, th) \/ Wake(v, th)
    \/ \E v \in Venue : Start(v) \/ StopSet(v) \/ StopReturns(v)
    \/ Reads \/ Tick

Spec == Init /\ [][Next]_rfVars

\* The venues send prices, a sleep ends, the loop samples and time passes.
Fairness ==
    /\ \A v \in Venue, th \in Thread : WF_rfVars(Message(v, th)) /\ WF_rfVars(Wake(v, th))
    /\ WF_rfVars(Reads) /\ WF_rfVars(Tick)
-----------------------------------------------------------------------------
(* What the readers see                                                    *)

\* get_spot has one source, and serves its last tick however old it is.
SpotAge == behind + since

\* is_healthy looks at the time the tick carries.
Healthy == behind # None /\ since <= Stale
-----------------------------------------------------------------------------
\* The type of every variable.
TypeOK ==
    /\ thread \in [Venue -> [Thread -> {"running", "sleeping", "ended"}]]
    /\ current \in [Venue -> Thread]
    /\ stop \in [Venue -> BOOLEAN] /\ joining \in [Venue -> BOOLEAN]
    /\ joined \in [Venue -> BOOLEAN] /\ connected \in [Venue -> BOOLEAN]
    /\ backoff \in [Venue -> [Thread -> 0..MaxBackoff]]
    /\ age \in [Venue -> 0..MaxAge \cup {None}] /\ errors \in 0..MaxErrors
    /\ sampling \in BOOLEAN /\ asking \subseteq Venue /\ turn \subseteq Venue
    /\ held \in 0..MaxAge \cup {None} /\ accepted \subseteq 0..MaxAge
    /\ raced \in BOOLEAN /\ spent \in 0..MaxSlow
    /\ behind \in 0..MaxAge \cup {None} /\ suspect \in BOOLEAN /\ since \in 0..MaxAge

\* A feed has one thread at a time, and none once a stop has seen it end: no
\* price arrives from a feed that is stopped, and no two threads write its cache,
\* in whatever order starts, stops that time out, errors and sleeps come.
OneReader ==
    \A v \in Venue : /\ \A th, other \in Alive(v) : th = other
                     /\ joined[v] => Alive(v) = {}

\* What a healthy source is worth.  The tick carries the time of the sample, so
\* the price behind it may be twice as old as the limit, but no older, unless its
\* venue ticked between the fetcher's two reads and an old price passed for new.
HealthyIsRecent == Healthy /\ ~suspect => SpotAge <= Stale + MaxSlow + Stale

\* Errors, sleeps that double and a stale cache are not for ever: unless it is
\* stopped, every feed brings a new price again and again.
FeedRecovers == \A v \in Venue : <>[](~stop[v]) => []<>(age[v] = 0)
=============================================================================
