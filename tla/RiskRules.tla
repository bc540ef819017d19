----------------------------- MODULE RiskRules -----------------------------
(***************************************************************************)
(* The ten rules of src/risk/kalshi_rules.py and the engine that runs      *)
(* them.  The rules are pure, so they are operators.  Money is in cents,   *)
(* widths in hundredths, edges and gaps in basis points, times in units of *)
(* which MaxStale and the window bounds are multiples.                     *)
(*                                                                         *)
(* An opportunity is a record                                              *)
(*   [ticker, side, price, size, edge, ci, remaining, depth,               *)
(*    comparator, strike, reference]                                       *)
(* with depth[s] the notional of the bids resting on side s, and a context *)
(* is a record [now, lastTick, open, pnl, notional, degraded], with        *)
(* notional a function of tickers.                                         *)
(***************************************************************************)
EXTENDS Integers

CONSTANTS
    MinEdge,       \* MinEdgeAfterFeesRule.min_bps
    MinRemaining,  \* TimeWindowRule.min_s
    MaxRemaining,  \* TimeWindowRule.max_s
    MaxCI,         \* CIWidthRule.max_width
    MaxOpen,       \* OpenPositionsRule.max_concurrent
    StopLoss,      \* DailyLossRule.stop_usd
    MaxStale,      \* ReferenceFeedStaleRule.max_stale_s
    MinDepth,      \* BookDepthRule.min_top_usd
    StrikeCap,     \* PositionAccountabilityRule.per_strike_cap_usd
    MinGap         \* StrikeProximityRule.min_bps

ASSUME RiskAssumption ==
    /\ MinEdge \in Nat /\ MinRemaining \in Nat /\ MaxRemaining \in Nat
    /\ MaxCI \in Nat /\ MaxOpen \in Nat /\ StopLoss \in Nat \ {0}
    /\ MaxStale \in Nat /\ MinDepth \in Nat /\ StrikeCap \in Nat
    /\ MinGap \in Nat

NoTick == -1   \* last_reference_tick_us is None

-----------------------------------------------------------------------------
MinEdgeAfterFees(opp, ctx) == opp.edge >= MinEdge

TimeWindow(opp, ctx) == opp.remaining \in MinRemaining..MaxRemaining

CIWidth(opp, ctx) == opp.ci <= MaxCI

OpenPositionsRule_AtTheCap(opp, ctx) == ctx.open <= MaxOpen
OpenPositionsRule(opp, ctx) == ctx.open < MaxOpen

DailyLossRule_Never(opp, ctx) == TRUE
DailyLossRule(opp, ctx) == ctx.pnl > -StopLoss

\* A context without a tick is refused; the age may reach MaxStale exactly.
ReferenceFeedStale_AbsentIsFresh(opp, ctx) ==
    ctx.lastTick = NoTick \/ ctx.now - ctx.lastTick <= MaxStale
ReferenceFeedStale_AnyAge(opp, ctx) == ctx.lastTick # NoTick
ReferenceFeedStale(opp, ctx) ==
    ctx.lastTick # NoTick /\ ctx.now - ctx.lastTick <= MaxStale

\* Reads the depth of the recommended side itself.
BookDepth(opp, ctx) == opp.side # "none" => opp.depth[opp.side] >= MinDepth

NoDataResolveNo(opp, ctx) == ~(ctx.degraded /\ opp.side = "yes")

PositionAccountability_ExistingOnly(opp, ctx) ==
    ctx.notional[opp.ticker] <= StrikeCap
PositionAccountability(opp, ctx) ==
    ctx.notional[opp.ticker] + opp.price * opp.size <= StrikeCap

Gap(opp) == IF opp.reference >= opp.strike THEN opp.reference - opp.strike
                                           ELSE opp.strike - opp.reference

\* Only two comparators are constrained; a zero strike is refused.
StrikeProximity(opp, ctx) ==
    opp.comparator \in {"above", "below"} =>
        opp.strike # 0 /\ Gap(opp) * 10000 >= MinGap * opp.strike

-----------------------------------------------------------------------------
\* The rules that read what the executor holds, and those that read the quote.
PositionRules(opp, ctx) ==
    /\ OpenPositionsRule(opp, ctx) /\ DailyLossRule(opp, ctx)
    /\ PositionAccountability(opp, ctx)

QuoteRules(opp, ctx) ==
    /\ MinEdgeAfterFees(opp, ctx)   /\ TimeWindow(opp, ctx)
    /\ CIWidth(opp, ctx)            /\ ReferenceFeedStale(opp, ctx)
    /\ BookDepth(opp, ctx)          /\ NoDataResolveNo(opp, ctx)
    /\ StrikeProximity(opp, ctx)

\* RiskEngine.decide over default_rules: every rule is asked, one refusal is
\* enough.
Approved(opp, ctx) == PositionRules(opp, ctx) /\ QuoteRules(opp, ctx)
=============================================================================
