------------------------------ MODULE RiskLimits ------------------------------
(***************************************************************************)
(* The pre-trade gate of risk/limits.py, between the proposals of the      *)
(* strategies and of the operator's tools and the orders at the broker.    *)
(*                                                                         *)
(* Orders are routed one at a time: the gate judges a proposal on the      *)
(* account and on the positions table, the broker accepts it, and only     *)
(* then is the position's row written.  Money is counted in units.  Each   *)
(* proposal is judged under at most one adverse circumstance, because      *)
(* every rule looks at one of its own.                                     *)
(***************************************************************************)
EXTENDS Integers, Sequences, FiniteSets, FiniteSetsExt

CONSTANTS
    Symbols,
    StrategyIds,
    TypeOf,             \* the type of each strategy
    DefaultStrategyId,  \* the strategy_id of a Proposal that names none
    MaxConcurrent,      \* max_concurrent of each strategy
    MaxConcurrentTotal, \* max_concurrent_total
    Equity,             \* account equity
    FloorPct,           \* buying_power_floor_pct
    PositionPct,        \* max_position_pct_of_account
    UsualRisk,          \* what a proposal puts at risk, usually
    LargeRisk,          \* and what an outsized one does
    PmccCap,            \* max_capital_per_position_usd of the pmcc strategy
    MaxLostRows         \* bound: crashes between the broker and the row

ASSUME LimitsAssumption ==
    /\ IsFiniteSet(Symbols) /\ IsFiniteSet(StrategyIds)
    /\ TypeOf \in [StrategyIds -> {"wheel", "spread", "pmcc", "swing"}]
    /\ DefaultStrategyId \in StrategyIds
    /\ MaxConcurrent \in [StrategyIds -> Nat]
    /\ {MaxConcurrentTotal, Equity, FloorPct, PositionPct, PmccCap, MaxLostRows} \subseteq Nat
    /\ {UsualRisk, LargeRisk} \subseteq Nat \ {0}

VARIABLES
    book,       \* the positions table: state and capital at risk of each row
    routeStep,  \* "idle", "judged" or "accepted"
    asked,      \* the proposal being routed
    failures,   \* the rules that failed it
    lostRows    \* accepted opens whose row a crash kept from being written,
                \* with what the broker reserves for each

limitsVars == <<book, routeStep, asked, failures, lostRows>>

Keys == Symbols \X StrategyIds
Circumstances == {"none", "earnings", "no_csps", "no_bear_calls", "unscreened", "macro",
                  "uncovered", "no_quote", "illiquid", "large"}
Rules == {"buying_power_floor", "per_position_cap", "concurrent_positions_cap",
          "concurrent_total_cap", "earnings_blackout", "liquidity", "regime", "tier2_screen",
          "macro_blackout", "pmcc_position_cap", "pmcc_short_above_breakeven"}

MultiLeg == {"MULTI_LEG_OPEN", "MULTI_LEG_CLOSE"}
Closing  == {"BUY_TO_CLOSE", "SELL_TO_CLOSE", "MULTI_LEG_CLOSE"}

\* What each type of strategy opens: order type, and option type or direction.
Opens == [wheel  |-> {<<"SELL_TO_OPEN", "PUT">>, <<"SELL_TO_OPEN", "CALL">>},
          spread |-> {<<"MULTI_LEG_OPEN", "bull_put">>, <<"MULTI_LEG_OPEN", "bear_call">>,
                      <<"MULTI_LEG_OPEN", "iron_condor">>},
          pmcc   |-> {<<"BUY_TO_OPEN", "CALL">>, <<"SELL_TO_OPEN", "CALL">>},
          swing  |-> {<<"BUY_TO_OPEN", "CALL">>, <<"BUY_TO_OPEN", "PUT">>}]

\* And how its positions are closed.
Closes == [wheel |-> "BUY_TO_CLOSE", spread |-> "MULTI_LEG_CLOSE",
           pmcc |-> "BUY_TO_CLOSE", swing |-> "SELL_TO_CLOSE"]

ProposalType == [symbol : Symbols, strategy : StrategyIds,
                 type : {"SELL_TO_OPEN", "BUY_TO_OPEN"} \cup MultiLeg \cup Closing,
                 what : {"PUT", "CALL", "bull_put", "bear_call", "iron_condor"},
                 risk : Nat]
NoProposal == [type |-> "none"]

RowOf(p)    == book[<<p.symbol, p.strategy>>]
IsClose(p)  == p.type \in Closing
IsMulti(p)  == p.type \in MultiLeg
Kind(p)     == TypeOf[p.strategy]

\* SPREAD_CLOSED is bookkeeping, not exposure.
Active   == {k \in Keys : book[k].state \notin {"IDLE", "SPREAD_CLOSED"}}
ActiveOf(s) == {k \in Active : k[2] = s}

\* The capital at risk in some of the rows.
CapitalOf(rows, S) == MapThenSumSet(LAMBDA k : rows[k].risk, S)

\* The broker reserves for every order it accepted, rows or no rows.
BuyingPower == Equity - CapitalOf(book, Active) - CapitalOf(lostRows, DOMAIN lostRows)

LimitsTypeOK ==
    /\ book \in [Keys -> [state : {"IDLE", "PENDING", "OPEN", "SPREAD_CLOSED"}, risk : Nat]]
    /\ routeStep \in {"idle", "judged", "accepted"}
    /\ asked \in ProposalType \cup {NoProposal}
    /\ failures \subseteq Rules
    /\ lostRows \in Seq([strategy : StrategyIds, risk : Nat])

LimitsInit ==
    /\ book = [k \in Keys |-> [state |-> "IDLE", risk |-> 0]]
    /\ routeStep = "idle" /\ asked = NoProposal /\ failures = {} /\ lostRows = <<>>

-----------------------------------------------------------------------------
(* The rules: each is true when it FAILS the proposal under circumstance c. *)

\* Faulty variants: the floor as it is before the order; the cap off by one.
FloorBeforeOrder(p) == ~ IsClose(p) /\ 100 * BuyingPower < FloorPct * Equity
CapOffByOne(p) ==
    /\ \A k \in ActiveOf(p.strategy) : k[1] # p.symbol
    /\ Cardinality(ActiveOf(p.strategy)) > MaxConcurrent[p.strategy]

BuyingPowerFails(p) ==
    ~ IsClose(p) /\ 100 * BuyingPower < FloorPct * Equity + 100 * p.risk

PositionCapFails(p) == ~ IsClose(p) /\ 100 * p.risk > PositionPct * Equity

\* Managing a position of the strategy takes no new slot, and nothing else is
\* exempt: a close passes because its row is active.
ConcurrentCapFails(p) ==
    /\ \A k \in ActiveOf(p.strategy) : k[1] # p.symbol
    /\ Cardinality(ActiveOf(p.strategy)) + 1 > MaxConcurrent[p.strategy]

TotalCapFails(p) ==
    /\ <<p.symbol, p.strategy>> \notin Active
    /\ Cardinality(Active) + 1 > MaxConcurrentTotal

EarningsFails(p, c) == ~ IsClose(p) /\ c = "earnings"

LiquidityFails(p, c) == ~ IsMulti(p) /\ c \in {"no_quote", "illiquid"}

\* A bear-call spread has a flag of its own.
RegimeFailsMultiLeg(p, c) ==
    /\ p.type = "MULTI_LEG_OPEN"
    /\ c = (IF p.what = "bear_call" THEN "no_bear_calls" ELSE "no_csps")

\* A swing carries its own gate, and of the single legs only puts and the PMCC's
\* long call are bullish entries.
RegimeFails(p, c) ==
    /\ ~ IsMulti(p) /\ p.type # "BUY_TO_CLOSE" /\ Kind(p) # "swing"
    /\ p.what = "PUT" \/ (Kind(p) = "pmcc" /\ p.type = "BUY_TO_OPEN")
    /\ c = "no_csps"

ScreenFails(p, c) == ~ IsClose(p) /\ p.what # "bear_call" /\ c = "unscreened"

MacroFails(p, c) == ~ IsClose(p) /\ p.type # "BUY_TO_OPEN" /\ c = "macro"

PmccCapFails(p, c) ==
    Kind(p) = "pmcc" /\ p.type = "BUY_TO_OPEN" /\ c # "no_quote" /\ p.risk > PmccCap

\* No open long to cover the short, or one whose breakeven is above it.
PmccCoverFails(p, c) ==
    /\ Kind(p) = "pmcc" /\ p.type = "SELL_TO_OPEN"
    /\ RowOf(p).state = "IDLE" \/ c = "uncovered"

Failures(p, c) ==
    {r \in Rules :
        CASE r = "buying_power_floor"         -> BuyingPowerFails(p)
          [] r = "per_position_cap"           -> PositionCapFails(p)
          [] r = "concurrent_positions_cap"   -> ConcurrentCapFails(p)
          [] r = "concurrent_total_cap"       -> TotalCapFails(p)
          [] r = "earnings_blackout"          -> EarningsFails(p, c)
          [] r = "liquidity"                  -> LiquidityFails(p, c)
          [] r = "regime"                     -> RegimeFails(p, c) \/ RegimeFailsMultiLeg(p, c)
          [] r = "tier2_screen"               -> ScreenFails(p, c)
          [] r = "macro_blackout"             -> MacroFails(p, c)
          [] r = "pmcc_position_cap"          -> PmccCapFails(p, c)
          [] r = "pmcc_short_above_breakeven" -> PmccCoverFails(p, c)}

-----------------------------------------------------------------------------
(* The routing of one proposal. *)

\* evaluate, for every reason somebody has to ask.  The strategies propose for
\* their own rows, and their closes carry the quotes they were decided on.
Judge(p, c) ==
    /\ routeStep = "idle"
    /\ asked' = p /\ failures' = Failures(p, c) /\ routeStep' = "judged"
    /\ UNCHANGED <<book, lostRows>>

StrategyOpens ==
    \E k \in Keys, c \in Circumstances :
        \E o \in Opens[TypeOf[k[2]]] :
            /\ (book[k].state = "OPEN") = (o = <<"SELL_TO_OPEN", "CALL">>)
            /\ book[k].state # "PENDING"
            /\ Judge([symbol |-> k[1], strategy |-> k[2], type |-> o[1], what |-> o[2],
                      risk |-> IF c = "large" THEN LargeRisk ELSE UsualRisk], c)

StrategyCloses ==
    \E k \in Keys, c \in Circumstances \ {"no_quote"} :
        /\ book[k].state = "OPEN"
        /\ Judge([symbol |-> k[1], strategy |-> k[2], type |-> Closes[TypeOf[k[2]]],
                  what |-> "PUT", risk |-> book[k].risk], c)

\* The earnings recheck and manual_close build their contract from the order
\* that opened it, without a quote; manual_close names no strategy at all.
UnquotedCloses(s) ==
    \E k \in Keys :
        /\ TypeOf[k[2]] = "wheel" /\ book[k].state = "OPEN" /\ s \in {k[2], DefaultStrategyId}
        /\ Judge([symbol |-> k[1], strategy |-> s, type |-> "BUY_TO_CLOSE",
                  what |-> "PUT", risk |-> book[k].risk], "no_quote")

Refuse ==
    /\ routeStep = "judged" /\ failures # {}
    /\ routeStep' = "idle" /\ asked' = NoProposal /\ failures' = {}
    /\ UNCHANGED <<book, lostRows>>

\* The broker takes the order, or rejects it.
Submit(accepted) ==
    /\ routeStep = "judged" /\ failures = {}
    /\ IF accepted THEN routeStep' = "accepted" /\ UNCHANGED asked
                   ELSE routeStep' = "idle" /\ asked' = NoProposal
    /\ UNCHANGED <<book, failures, lostRows>>

\* A new position starts PENDING; a call on shares already held, and a close,
\* leave the row's capital alone until the fill.
WriteRow ==
    /\ routeStep = "accepted"
    /\ book' = IF RowOf(asked).state \in {"IDLE", "SPREAD_CLOSED"} /\ ~ IsClose(asked)
               THEN [book EXCEPT ![<<asked.symbol, asked.strategy>>] =
                                     [state |-> "PENDING", risk |-> asked.risk]]
               ELSE book
    /\ routeStep' = "idle" /\ asked' = NoProposal
    /\ UNCHANGED <<failures, lostRows>>

\* The process dies with the order at the broker and no row.
CrashBeforeRow ==
    /\ routeStep = "accepted" /\ Len(lostRows) < MaxLostRows
    /\ lostRows' = IF RowOf(asked).state \in {"IDLE", "SPREAD_CLOSED"} /\ ~ IsClose(asked)
                   THEN Append(lostRows, [strategy |-> asked.strategy, risk |-> asked.risk])
                   ELSE lostRows
    /\ routeStep' = "idle" /\ asked' = NoProposal
    /\ UNCHANGED <<book, failures>>

-----------------------------------------------------------------------------
\* The reconciler, between two routings: an order fills or dies, a position ends.
RowMoves ==
    /\ routeStep = "idle"
    /\ \E k \in Active :
         \/ book[k].state = "PENDING" /\ book' = [book EXCEPT ![k].state = "OPEN"]
         \/ book[k].state = "PENDING" /\ book' = [book EXCEPT ![k] = [state |-> "IDLE", risk |-> 0]]
         \/ /\ book[k].state = "OPEN"
            /\ book' = [book EXCEPT ![k] = [state |-> IF TypeOf[k[2]] = "spread"
                                                      THEN "SPREAD_CLOSED" ELSE "IDLE",
                                            risk |-> 0]]
    /\ UNCHANGED <<routeStep, asked, failures, lostRows>>

LimitsNext ==
    \/ StrategyOpens \/ StrategyCloses \/ \E s \in StrategyIds : UnquotedCloses(s)
    \/ Refuse \/ \E accepted \in BOOLEAN : Submit(accepted)
    \/ WriteRow \/ CrashBeforeRow \/ RowMoves

LimitsSpec == LimitsInit /\ [][LimitsNext]_limitsVars

-----------------------------------------------------------------------------
\* No strategy has more live rows than its own cap, nor all of them together
\* more than the account's: closing a spread, which leaves a row behind, gives
\* its slot back, and a second order on a live row takes none.
CapsHold ==
    /\ \A s \in StrategyIds : Cardinality(ActiveOf(s)) <= MaxConcurrent[s]
    /\ Cardinality(Active) <= MaxConcurrentTotal

\* At a constant equity the floor of the buying power is left, whatever is open at
\* the broker: orders that a crash left without a row, which no cap counts, included.
BuyingPowerFloorHolds == 100 * BuyingPower >= FloorPct * Equity

\* What _is_close says of closes: that they bypass the buying-power floor, the
\* position cap, the earnings blackout, the regime, the screen and the
\* concurrent caps.  (Of liquidity it says nothing.)
ClosesBypassGates ==
    routeStep = "judged" /\ IsClose(asked) => failures \subseteq {"liquidity"}
=============================================================================
