----------------------------- MODULE MarketBook -----------------------------
(***************************************************************************)
(* The cache of order books in KalshiMarketSource: the coordinator's       *)
(* thread, the pool of workers it fetches the due books with, the deltas   *)
(* of the WebSocket, and the quotes get_quotes makes of the cache.         *)
(*                                                                         *)
(* The clock runs in parts of a second, as the tiers compare times         *)
(* truncated to whole seconds with exact stamps.  A ladder is the sequence *)
(* of its prices: a level is there or not, quantities have no effect on    *)
(* the best price.                                                         *)
(***************************************************************************)
EXTENDS Integers, SequencesExt

CONSTANTS
    Ticker,
    Price,         \* prices of levels, in parts of Whole
    Whole,
    Close,         \* when the markets close, in seconds
    Second,        \* the parts of a second
    HotWindow, HotInterval, ColdInterval,  \* the two tiers, in seconds
    MaxLoop,       \* bound on what one turn of the loop takes
    MaxTime        \* bound on the clock

Sides == {"yes", "no"}

VARIABLES
    time, began,  \* now, and when the turn of the loop began
    phase,        \* of the coordinator's thread
    known,        \* _market_meta
    due, worker,  \* books still to fetch in this turn, and where their workers are
    book,         \* the ladders of each entry
    stamp, left,  \* last_update_us and time_remaining_s of it
    lastFetched,  \* _last_fetched_us
    whole,        \* left belongs to the same fetch as the book (history)
    failed,       \* tickers whose last fetch failed (history)
    quotes        \* what get_quotes returned

clock  == <<time, began>>
turn   == <<phase, known, due, worker>>
cache  == <<book, stamp, left, lastFetched, whole, failed>>
mbVars == <<clock, turn, cache, quotes>>

Never == -1

Init ==
    /\ time = 0 /\ began = 0 /\ phase = "idle"
    /\ known = {} /\ due = {} /\ worker = [t \in Ticker |-> "none"]
    /\ book = [t \in Ticker |-> [side \in Sides |-> <<>>]]
    /\ stamp = [t \in Ticker |-> Never] /\ left = [t \in Ticker |-> 0]
    /\ lastFetched = [t \in Ticker |-> Never]
    /\ whole = [t \in Ticker |-> FALSE] /\ failed = {} /\ quotes = {}

-----------------------------------------------------------------------------
(* The coordinator: discover, snapshot_books                               *)

Seconds(t)   == t \div Second
RemainingNow == IF Seconds(time) < Close THEN Close - Seconds(time) ELSE 0

\* What discover finds; the stamps of a ticker it prunes stay.
Discover ==
    /\ phase = "idle"
    /\ known' \in SUBSET Ticker /\ quotes' = {}
    /\ UNCHANGED <<clock, phase, due, worker, cache>>

\* _is_due: the time of now is that of its second, the stamp is exact, and the
\* tier is that of the time the market has left now.
Interval_OfTheCache(t) == IF left[t] <= HotWindow THEN HotInterval ELSE ColdInterval
Interval(t) == IF RemainingNow <= HotWindow THEN HotInterval ELSE ColdInterval

IsDue(t) ==
    \/ lastFetched[t] = Never
    \/ Seconds(time) * Second - lastFetched[t] >= Interval(t) * Second

BeginTurn ==
    /\ phase = "idle"
    /\ phase' = "fetching" /\ began' = time
    /\ due' = {t \in known : IsDue(t)}
    /\ worker' = [t \in Ticker |-> IF t \in due' THEN "asked" ELSE "none"]
    /\ quotes' = {}
    /\ UNCHANGED <<time, known, cache>>

\* A worker: the request fails, or its book and then the time left are stored,
\* in two critical sections.
FetchFails(t) ==
    /\ worker[t] = "asked"
    /\ worker' = [worker EXCEPT ![t] = "none"] /\ due' = due \ {t}
    /\ failed' = failed \cup {t}
    /\ UNCHANGED <<clock, phase, known, book, stamp, left, lastFetched, whole, quotes>>

\* The ladders the exchange sends: the levels of a side in ascending order.
Ladder ==
    {levels \in SeqOf(Price, Cardinality(Price)) :
        \A i, j \in DOMAIN levels : i < j => levels[i] < levels[j]}

\* apply_snapshot: both ladders as the exchange sends them.
ApplySnapshot(t) ==
    /\ worker[t] = "asked"
    /\ worker' = [worker EXCEPT ![t] = "applied"]
    /\ \E ladders \in [Sides -> Ladder] : book' = [book EXCEPT ![t] = ladders]
    /\ stamp' = [stamp EXCEPT ![t] = time] /\ whole' = [whole EXCEPT ![t] = FALSE]
    /\ UNCHANGED <<clock, phase, known, due, left, lastFetched, failed, quotes>>

UpdateLifecycle(t) ==
    /\ worker[t] = "applied"
    /\ worker' = [worker EXCEPT ![t] = "none"] /\ due' = due \ {t}
    /\ left' = [left EXCEPT ![t] = RemainingNow]
    /\ lastFetched' = [lastFetched EXCEPT ![t] = time]
    /\ whole' = [whole EXCEPT ![t] = TRUE] /\ failed' = failed \ {t}
    /\ UNCHANGED <<clock, phase, known, book, stamp, quotes>>

\* The list of pool.map is complete when every worker is done.
PoolDone_Started == \A t \in due : worker[t] # "asked"
PoolDone == due = {}

EndSnapshot ==
    /\ phase = "fetching" /\ PoolDone
    /\ phase' = "fetched"
    /\ UNCHANGED <<clock, known, due, worker, cache, quotes>>

-----------------------------------------------------------------------------
(* The WebSocket: apply_delta replaces one level, or takes it away, also   *)
(* of a ticker that has no entry yet, which makes an empty one             *)

\* The level is appended, and the sort moves it to where the higher ones begin.
Place(ladder, price) == Min({i \in DOMAIN ladder : price < ladder[i]} \cup {Len(ladder) + 1})

Placed_AtTheEnd(ladder, price) == Append(ladder, price)
Placed(ladder, price) == InsertAt(ladder, Place(ladder, price), price)

\* No two levels of a ladder have the same price.
Others_All(ladder, price) == ladder
Others(ladder, price) == RemoveFirst(ladder, price)

Delta(t, side, price, on) ==
    LET others == Others(book[t][side], price) IN
    /\ book' = [book EXCEPT ![t][side] = IF on THEN Placed(others, price) ELSE others]
    /\ stamp' = [stamp EXCEPT ![t] = time]
    /\ quotes' = {}
    /\ UNCHANGED <<clock, turn, left, lastFetched, whole, failed>>

-----------------------------------------------------------------------------
(* get_quotes                                                              *)

\* The best level is the last; the ask is what the best bid of the other side
\* leaves, and out of reach without one.
AskFrom(bids) == IF bids = <<>> THEN Whole ELSE Whole - Last(bids)

QuoteOf(t) ==
    [ticker |-> t, stamp |-> stamp[t], left |-> left[t], whole |-> whole[t],
     yes |-> AskFrom(book[t]["no"]), no |-> AskFrom(book[t]["yes"]), ladders |-> book[t]]

GetQuotes ==
    /\ phase = "fetched" /\ phase' = "idle"
    /\ quotes' = {QuoteOf(t) : t \in {k \in known : stamp[k] # Never}}
    /\ UNCHANGED <<clock, known, due, worker, cache>>

-----------------------------------------------------------------------------
\* A turn, the pause behind it included, takes at most MaxLoop.
Tick ==
    /\ time < MaxTime /\ time' = time + 1
    /\ time' - began <= MaxLoop
    /\ quotes' = {}
    /\ UNCHANGED <<began, turn, cache>>

Next ==
    \/ Discover \/ BeginTurn \/ EndSnapshot \/ GetQuotes \/ Tick
    \/ \E t \in Ticker :
        \/ FetchFails(t) \/ ApplySnapshot(t) \/ UpdateLifecycle(t)
        \/ \E side \in Sides, price \in Price, on \in BOOLEAN : Delta(t, side, price, on)

Spec == Init /\ [][Next]_mbVars
-----------------------------------------------------------------------------
\* The type of every variable.
TypeOK ==
    /\ time \in 0..MaxTime /\ began \in 0..time
    /\ phase \in {"idle", "fetching", "fetched"}
    /\ known \subseteq Ticker /\ due \subseteq known
    /\ worker \in [Ticker -> {"none", "asked", "applied"}]
    /\ book \in [Ticker -> [Sides -> Ladder]]
    /\ stamp \in [Ticker -> Never..time] /\ left \in [Ticker -> 0..Close]
    /\ lastFetched \in [Ticker -> Never..time] /\ whole \in [Ticker -> BOOLEAN]
    /\ failed \subseteq Ticker

\* A worker stores a book and the time its market has left in two steps that the
\* lock does not join; no quote has the one of a fetch without the other.  A book
\* made of deltas before any fetch is quoted as well, but with no time left, which
\* TimeWindowRule refuses.
Fetched(t) == lastFetched[t] # Never
QuotesAreWhole ==
    \A q \in quotes : IF Fetched(q.ticker) THEN q.whole ELSE q.left = 0

\* Whatever snapshots and deltas a book has been through, the ask of a quote is
\* the best price there is: no level of the other side asks for less.
AskIsBest ==
    \A q \in quotes :
        /\ \A i \in DOMAIN q.ladders["no"] : q.yes <= Whole - q.ladders["no"][i]
        /\ \A i \in DOMAIN q.ladders["yes"] : q.no <= Whole - q.ladders["yes"][i]

\* So what a strategy is quoted is one book and the best price in it.
QuotesAreTrue == QuotesAreWhole /\ AskIsBest

\* The tiers hold up to the truncation: unless its last fetch failed, the book of
\* a quote is no older than the interval of the tier it was in when the turn
\* began, one second, and the two turns of its fetch and of the quote.
TierOf(t) == IF Close - Seconds(t) <= HotWindow THEN HotInterval ELSE ColdInterval

QuotedBooksAreFresh ==
    \A q \in quotes :
        q.ticker \notin failed =>
            time - q.stamp < TierOf(began) * Second + Second + 2 * MaxLoop
=============================================================================
