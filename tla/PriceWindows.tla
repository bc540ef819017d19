---------------------------- MODULE PriceWindows ----------------------------
(***************************************************************************)
(* The three strategies over one market: the rolling histories that        *)
(* sample_reference feeds, what evaluate reads from them, and the          *)
(* opportunity that reaches the paper executor.                            *)
(*                                                                         *)
(* The scanner samples, fetches the book and evaluates in one thread; a    *)
(* fetch or a sample may fail, and every step takes time.  The normal      *)
(* distribution is represented by what the gates depend on: a chance on a  *)
(* grid that lies on the same side of one half as the estimated price lies *)
(* of the strike, for any volatility.                                      *)
(***************************************************************************)
EXTENDS Integers, SequencesExt

CONSTANTS
    Price,      \* prices the reference can have
    Strike,
    LagWindow,  \* rolling_window_us of PureLagConfig
    MovePct,    \* move_threshold_bps, in percent
    AvgWindow,  \* the window before the close whose average settles the market
    Retained,   \* tick_window_us
    Lo, Hi,     \* time_window_seconds
    Whole,      \* a contract pays this much, and chances are parts of it
    Ask,        \* prices of contracts
    MinFill, MinEdge, Fee,
    MaxStale,   \* max_stale_s of ReferenceFeedStaleRule
    Close,      \* when the market closes
    MaxTime, MaxTicks  \* bounds on the clock and on the samples

VARIABLES
    now,
    history,  \* every tick recorded (history)
    ticks,    \* of _AssetRollingPrice
    buffer,   \* of _AssetTickBuffer
    fetched,  \* when the book in the cache was fetched
    quote,    \* the quote under evaluation
    signal    \* the opportunity just made

pwVars == <<now, history, ticks, buffer, fetched, quote, signal>>

NoQuote  == [at |-> -1, spot |-> 0]
NoSignal == [by |-> "nobody", side |-> "none", taken |-> FALSE]

Init ==
    /\ now = 0 /\ history = <<>> /\ ticks = <<>> /\ buffer = <<>>
    /\ fetched = -1 /\ quote = NoQuote /\ signal = NoSignal

-----------------------------------------------------------------------------
(* The loop of the scanner                                                 *)

\* record: the front goes while it is older than the window.
Kept_Strictly(tick, window) == tick.ts > now - window
Kept(tick, window) == tick.ts >= now - window

Recorded(queue, price, window) ==
    LET all  == Append(queue, [ts |-> now, price |-> price])
        kept == {i \in DOMAIN all : Kept(all[i], window)}
    IN  SubSeq(all, Min(kept), Len(all))

Sample(price) ==
    /\ quote = NoQuote /\ Len(history) < MaxTicks
    /\ history' = Append(history, [ts |-> now, price |-> price])
    /\ ticks' = Recorded(ticks, price, LagWindow)
    /\ buffer' = Recorded(buffer, price, Retained)
    /\ signal' = NoSignal
    /\ UNCHANGED <<now, fetched, quote>>

\* The time the market has left is noted with the book.
FetchBook ==
    /\ quote = NoQuote /\ fetched' = now
    /\ signal' = NoSignal
    /\ UNCHANGED <<now, history, ticks, buffer, quote>>

\* get_spot is the last tick however old it is; get_quotes puts 0 for none.
Spot == IF history = <<>> THEN 0 ELSE Last(history).price

GetQuotes ==
    /\ quote = NoQuote /\ fetched # -1
    /\ quote' = [at |-> fetched, spot |-> Spot]
    /\ signal' = NoSignal
    /\ UNCHANGED <<now, history, ticks, buffer, fetched>>

EndTick ==
    /\ quote # NoQuote /\ quote' = NoQuote
    /\ signal' = NoSignal
    /\ UNCHANGED <<now, history, ticks, buffer, fetched>>

Tick ==
    /\ now < MaxTime /\ now' = now + 1
    /\ signal' = NoSignal
    /\ UNCHANGED <<history, ticks, buffer, fetched, quote>>

-----------------------------------------------------------------------------
(* evaluate: the gates the strategies share                                *)

\* time_remaining_s of the quote, as it was when the book was fetched.
Remaining == IF quote.at < Close THEN Close - quote.at ELSE 0

\* The rest of a quote: its asks, whether a side has the depth, its comparator.
Book == [yes : Ask, no : Ask, deep : BOOLEAN, comparator : {"above", "below", "between"}]

Gates(b) == quote # NoQuote /\ Lo <= Remaining /\ Remaining < Hi /\ b.deep

\* ReferenceFeedStaleRule is handed the time of the book as that of the tick.
ReachesExecutor == now - quote.at <= MaxStale

Signals(by, side) ==
    /\ signal' = [by |-> by, side |-> side, taken |-> ReachesExecutor]
    /\ UNCHANGED <<now, history, ticks, buffer, fetched, quote>>

\* The sides of the book with an edge, in the order of the code.
YesEdge(c, b) == c - b.yes - Fee
NoEdge(c, b)  == (Whole - c) - b.no - Fee

Recommended(c, b) ==
    IF YesEdge(c, b) > NoEdge(c, b) /\ YesEdge(c, b) > 0 THEN {<<"yes", YesEdge(c, b)>>}
    ELSE IF NoEdge(c, b) > 0 THEN {<<"no", NoEdge(c, b)>>}
    ELSE {}

\* On a grid of quarters the limit on ci_width leaves the certain chances.
Sure(c) == c \in {0, Whole}

SignalsIfSure(by, c, b) ==
    /\ Sure(c)
    /\ \E r \in Recommended(c, b) : r[2] >= MinEdge /\ Signals(by, r[1])

\* What the estimate num / den can make of the chance that the close is at the
\* strike or above, and of that of yes.
Likely(num, den) ==
    {c \in 0..Whole : /\ num > Strike * den => 2 * c >= Whole
                      /\ num < Strike * den => 2 * c <= Whole}

OfYes(c, b) == IF b.comparator = "below" THEN Whole - c ELSE c

-----------------------------------------------------------------------------
(* KalshiFairValueStrategy                                                 *)

\* Without a price the model says no, whatever the comparator.
StatChances(b) == IF quote.spot <= 0 THEN {0} ELSE {OfYes(c, b) : c \in Likely(quote.spot, 1)}

EvaluateStat(b) ==
    /\ Gates(b) /\ b.comparator # "between"
    /\ \E c \in StatChances(b) : SignalsIfSure("stat", c, b)

-----------------------------------------------------------------------------
(* PureLagStrategy                                                         *)

InWindow(queue, from, to) == {i \in DOMAIN queue : from <= queue[i].ts /\ queue[i].ts <= to}

\* The sum of the prices, in their smallest unit.
Total(queue, I) == Cardinality(UNION {{i} \X (1..queue[i].price) : i \in I})

\* rolling_mean looks at the time again, as record may not have run since.
Averaged_AllTicks == DOMAIN ticks
Averaged == InWindow(ticks, now - LagWindow, now)

\* The latest price against the mean, times the number of ticks.
MoveUp == Last(ticks).price * Cardinality(Averaged) - Total(ticks, Averaged)

Moved(distance) == 100 * distance >= MovePct * Total(ticks, Averaged)

LagSide(b, side, ask) ==
    /\ ask >= MinFill /\ Whole - ask - Fee >= MinEdge
    /\ Signals("lag", side)

EvaluateLag(b) ==
    /\ Gates(b) /\ Averaged # {}
    /\ \/ MoveUp > 0 /\ Moved(MoveUp) /\ LagSide(b, "yes", b.yes)
       \/ MoveUp < 0 /\ Moved(-MoveUp) /\ LagSide(b, "no", b.no)

-----------------------------------------------------------------------------
(* PartialAvgFairValueStrategy                                             *)

\* close_us is the time of the evaluation and the time the quote had left.
CloseUs == now + Remaining

ObsStart_LastWindow == now - AvgWindow
ObsStart == CloseUs - AvgWindow

\* The ticks of the part of the window that is over, and the time they stand for.
Credited == IF now > ObsStart THEN InWindow(buffer, ObsStart, now) ELSE {}
Observed == IF Credited = {} THEN 0 ELSE now - ObsStart

\* _window_split: what the window has still to come.
Future_WholeWindow == AvgWindow
Future ==
    IF Observed > 0 THEN AvgWindow - Observed
    ELSE IF Remaining < AvgWindow THEN Remaining ELSE AvgWindow

\* e_close_avg, times the window and the number of its ticks.
Many        == IF Credited = {} THEN 1 ELSE Cardinality(Credited)
EstimateNum == Observed * Total(buffer, Credited) + Many * Future * quote.spot
EstimateDen == Many * AvgWindow

AvgChances(b) ==
    IF quote.spot <= 0 \/ Remaining <= 0
    THEN {OfYes(IF quote.spot >= Strike THEN Whole ELSE 0, b)}
    ELSE {OfYes(c, b) : c \in Likely(EstimateNum, EstimateDen)}

EvaluateAvg(b) ==
    /\ Gates(b) /\ b.comparator # "between"
    /\ \E c \in AvgChances(b) : SignalsIfSure("avg", c, b)

-----------------------------------------------------------------------------
Evaluate == \E b \in Book : EvaluateStat(b) \/ EvaluateLag(b) \/ EvaluateAvg(b)

Next ==
    \/ \E price \in Price : Sample(price)
    \/ FetchBook \/ GetQuotes \/ EndTick \/ Tick \/ Evaluate

Spec == Init /\ [][Next]_pwVars
-----------------------------------------------------------------------------
\* The type of every variable.
TypeOK ==
    /\ now \in 0..MaxTime
    /\ {history, ticks, buffer} \subseteq Seq([ts : 0..now, price : Price])
    /\ fetched \in -1..now
    /\ quote \in [at : -1..fetched, spot : Price \cup {0}]
    /\ signal \in [by : {"nobody", "stat", "lag", "avg"}, side : {"none", "yes", "no"},
                   taken : BOOLEAN]

SameTicks(queue, from, to) ==
    LET all == InWindow(history, from, to)
        own == InWindow(queue, from, to)
    IN Cardinality(own) = Cardinality(all) /\ Total(queue, own) = Total(history, all)

\* The queues forget only at a record, and the readers look later and at other
\* windows: what they average is still what the whole history has there.
WindowsExact ==
    /\ SameTicks(ticks, now - LagWindow, now)
    /\ quote # NoQuote => SameTicks(buffer, ObsStart, now)

\* A lag signal is a move of the last LagWindow, not of a feed that has stopped:
\* the newest price is of that window, and so is one it has moved away from.
LagSignalIsRecent ==
    signal.by = "lag" =>
        /\ Last(history).ts >= now - LagWindow
        /\ \E i \in InWindow(history, now - LagWindow, now) :
             IF signal.side = "yes" THEN history[i].price < Last(history).price
                                    ELSE history[i].price > Last(history).price

\* However old the book is, the average is not credited with prices from before
\* its window, nor with more time than has passed of it.
CreditsOwnWindow ==
    quote # NoQuote /\ Remaining > 0 =>
        /\ \A i \in Credited : buffer[i].ts >= Close - AvgWindow
        /\ Observed > 0 => Observed <= now - (Close - AvgWindow)

\* Before the window opens and whenever ticks of it were seen, the estimate is an
\* average of those ticks and the spot: it lies between two of them.  (Inside the
\* window without ticks it need not, see the README.)
EstimateIsAverage ==
    quote # NoQuote /\ quote.spot > 0 /\ (Credited # {} \/ Remaining >= AvgWindow) =>
        LET seen == {quote.spot} \cup {buffer[i].price : i \in Credited} IN
        /\ \E low \in seen : EstimateDen * low <= EstimateNum
        /\ \E high \in seen : EstimateNum <= EstimateDen * high

\* What the two strategies with windows of their own conclude rests on the ticks
\* of those windows, whichever ticks were forgotten and however old the quote is.
SignalsRestOnWindows ==
    WindowsExact /\ LagSignalIsRecent /\ CreditsOwnWindow /\ EstimateIsAverage

\* ReferenceFeedStaleRule "guards against the scanner submitting on a stale spot
\* price" and is "fail-closed": nothing is submitted before there is a price.
NoTradeWithoutPrice == signal.taken => history # <<>>
=============================================================================
