-------------------------------- MODULE ZeroDte --------------------------------
(***************************************************************************)
(* The same-day spreads of strategies/zero_dte.py: one tick after another  *)
(* of a trading day, the entry window in the morning, the flatten in the   *)
(* afternoon, and the hour from which the broker liquidates what is left.  *)
(*                                                                         *)
(* A tick reconciles, then walks the open spreads for closes and then all  *)
(* symbols for entries.  A tick whose kill switch is tripped does neither. *)
(*                                                                         *)
(* A close keeps its row SPREAD_OPEN and is proposed again by every walk.  *)
(* The router decides by the orders row of the close what becomes of the   *)
(* proposal: it leaves a fresh order alone, cancels a stale one and sends  *)
(* another, which may fail; and the broker may end a close at any time.    *)
(* A cancel is final here and closes of one symbol count as one; a cancel  *)
(* overtaken by a fill, an answer that is lost and several closes at once  *)
(* are module Router's.                                                    *)
(***************************************************************************)
EXTENDS Integers, FiniteSets

CONSTANTS
    Underlyings,
    EntryStart, EntryEnd,   \* the entry window, both ends inclusive
    FlattenAt,              \* flatten_et
    LiquidatedAt,           \* the broker force-liquidates from here on
    MaxPerDay,              \* max_positions_per_day
    DailyLossCap,           \* zero_dte_daily_loss_usd
    CapitalCap,             \* max_capital_per_spread_usd
    MaxLosses,              \* the max losses a structure may come with
    Credit,                 \* the raw credit of a structure worth taking
    Debits,                 \* what it may cost to close
    HalfSpread,             \* half the summed bid-ask spreads of the legs
    SlippageAdder,          \* stop_slippage_adder
    ProfitDebit             \* closing at this debit or less takes the profit

ASSUME ZeroDteAssumption ==
    /\ {EntryStart, EntryEnd, FlattenAt, LiquidatedAt, MaxPerDay, DailyLossCap, CapitalCap,
        Credit, HalfSpread, SlippageAdder, ProfitDebit} \subseteq Nat
    /\ EntryStart <= EntryEnd /\ EntryEnd < FlattenAt /\ FlattenAt < LiquidatedAt
    /\ Debits \subseteq Nat /\ MaxLosses \subseteq Nat \ {0}

VARIABLES
    clock,      \* the time of day
    tickStep,   \* "asleep", "reconciled", "closing" or "opening"
    unseen,     \* symbols the current walk has still to visit
    spread,     \* the position row of each symbol, and its cycles started today
    working,    \* the order of each symbol at the broker, and whether it filled
    booked,     \* zero_dte_ledger: the penalized P&L of each symbol's latest
                \* row, 0 as long as it has no exit
    realized,   \* realized_pnl_on(today)
    closeRow,   \* the orders row with the client id of the symbol's close: none,
                \* pending, or ended (filled, cancelled or rejected)
    endedSince, \* history: symbols whose close the broker ended after the reconcile pass
    chance      \* history: the spreads that some tick at or past the flatten time
                \* visited with quotes in hand and a router that takes the order,
                \* and whose close was not lost since

zeroDteVars == <<clock, tickStep, unseen, spread, working, booked, realized, closeRow, endedSince,
                 chance>>
orderVars   == <<working, closeRow, endedSince, chance>>

Idle      == [state |-> "IDLE", started |-> 0]
NoWorking == [what |-> "none", filled |-> FALSE]
NewClose  == [what |-> "close", filled |-> FALSE]

ZeroDteTypeOK ==
    /\ clock \in 0 .. LiquidatedAt
    /\ tickStep \in {"asleep", "reconciled", "closing", "opening"}
    /\ unseen \subseteq Underlyings
    /\ spread \in [Underlyings -> [state : {"IDLE", "SPREAD_PENDING", "SPREAD_OPEN", "SPREAD_CLOSED"},
                                   started : Nat]]
    /\ working \in [Underlyings -> [what : {"none", "entry", "close"}, filled : BOOLEAN]]
    /\ booked \in [Underlyings -> Int]
    /\ realized \in Int
    /\ closeRow \in [Underlyings -> {"none", "pending", "ended"}]
    /\ endedSince \subseteq Underlyings /\ chance \subseteq Underlyings

ZeroDteInit ==
    /\ clock = 0 /\ tickStep = "asleep" /\ unseen = {}
    /\ spread = [u \in Underlyings |-> Idle]
    /\ working = [u \in Underlyings |-> NoWorking]
    /\ booked = [u \in Underlyings |-> 0] /\ realized = 0
    /\ closeRow = [u \in Underlyings |-> "none"] /\ endedSince = {} /\ chance = {}

InEntryWindow == EntryStart <= clock /\ clock <= EntryEnd
PastFlatten   == clock >= FlattenAt

-----------------------------------------------------------------------------
(* The ledger: written when an order is proposed, whatever becomes of it. *)

EntryPenalized == Credit - HalfSpread
ExitPenalized(debit) == debit + HalfSpread + (IF PastFlatten THEN SlippageAdder ELSE 0)

\* A new row: what the older ones realized stays realized.
WriteEntryLedger(u) == booked' = [booked EXCEPT ![u] = 0] /\ UNCHANGED realized

\* The latest row of the symbol; a repeated close overwrites its own figures.
WriteExitLedger(u, debit) ==
    LET pnl == EntryPenalized - ExitPenalized(debit)
    IN  booked' = [booked EXCEPT ![u] = pnl] /\ realized' = realized - booked[u] + pnl

-----------------------------------------------------------------------------
(* The tick. *)

\* Faulty variant: a close that ended without a fill goes unnoticed.
OnlyFills(u) ==
    IF closeRow[u] = "pending" /\ working[u].filled THEN "ended" ELSE closeRow[u]

\* The status of a close as the reconciler leaves it: a pending one that does not
\* work any more at the broker has ended.
CloseSeen(u) ==
    IF closeRow[u] = "pending" /\ working[u] # NewClose THEN "ended" ELSE closeRow[u]

\* Fills found by the reconciler; a cycle starts with the fill of its entry.  A
\* close that ended otherwise leaves the row as it is.
Reconcile ==
    /\ tickStep = "asleep"
    /\ spread' = [u \in Underlyings |->
         IF ~ working[u].filled THEN spread[u]
         ELSE IF working[u].what = "entry"
              THEN [state |-> "SPREAD_OPEN", started |-> spread[u].started + 1]
              ELSE [spread[u] EXCEPT !.state = "SPREAD_CLOSED"]]
    /\ working' = [u \in Underlyings |-> IF working[u].filled THEN NoWorking ELSE working[u]]
    /\ closeRow' = [u \in Underlyings |-> CloseSeen(u)] /\ endedSince' = {}
    /\ tickStep' = "reconciled"
    /\ UNCHANGED <<clock, unseen, booked, realized, chance>>

\* The kill switch, read once per tick: a tripped one ends the tick.
ReadSwitch(tripped) ==
    /\ tickStep = "reconciled"
    /\ IF tripped THEN tickStep' = "asleep" /\ UNCHANGED unseen
       ELSE /\ tickStep' = "closing"
            /\ unseen' = {u \in Underlyings : spread[u].state = "SPREAD_OPEN"}
    /\ UNCHANGED <<clock, spread, booked, realized, orderVars>>

\* _replace_stale_pending, "skip": the close of the day is pending and young enough
\* to be left alone, or its cancel is refused.
LeavesPending(u) == closeRow[u] = "pending" /\ UNCHANGED <<working, closeRow>>

\* "proceed", or "replace" with a fresh id after an ended order; a close that fills
\* meanwhile is not taken back.
Submits(u) ==
    /\ closeRow[u] # "pending"
    /\ working' = [working EXCEPT ![u] = IF @.filled THEN @ ELSE NewClose]
    /\ closeRow' = [closeRow EXCEPT ![u] = IF @ = "none" THEN "pending" ELSE @]

\* "replace" of a stale order: cancelled at the broker and in its row, and only then
\* submitted anew.  What filled cannot be cancelled.
Cancels(u, after) ==
    /\ closeRow[u] = "pending" /\ ~ working[u].filled
    /\ working' = [working EXCEPT ![u] = after]
    /\ closeRow' = [closeRow EXCEPT ![u] = "ended"]

\* place_multi_leg takes the close, or has it at the broker already.
Takes(u) == LeavesPending(u) \/ Submits(u) \/ Cancels(u, NewClose)

\* The risk gate or the broker refuses it; after a cancel nothing is left.
Refuses(u) == UNCHANGED <<working, closeRow>> \/ Cancels(u, NoWorking)

CloseLost(u) == working[u].what = "close" /\ working'[u].what # "close"

\* propose_close_for_symbol, when every leg has a quote: past the flatten time
\* whatever the P&L, before it for the profit.  The wing is the stop.
Close(u, debit, taken) ==
    /\ tickStep = "closing" /\ u \in unseen /\ unseen' = unseen \ {u}
    /\ IF PastFlatten \/ debit <= ProfitDebit
       THEN WriteExitLedger(u, debit) /\ IF taken THEN Takes(u) ELSE Refuses(u)
       ELSE UNCHANGED <<working, closeRow, booked, realized>>
    /\ chance' = IF clock >= FlattenAt /\ taken /\ u \notin endedSince THEN chance \cup {u}
                 ELSE IF CloseLost(u) THEN chance \ {u} ELSE chance
    /\ UNCHANGED <<clock, tickStep, spread, endedSince>>

\* A leg without a quote: nothing is closed, the deadline notwithstanding.
SkipUnquoted(u) ==
    /\ tickStep = "closing" /\ u \in unseen /\ unseen' = unseen \ {u}
    /\ UNCHANGED <<clock, tickStep, spread, booked, realized, orderVars>>

ClosesDone ==
    /\ tickStep = "closing" /\ unseen = {}
    /\ tickStep' = "opening" /\ unseen' = Underlyings
    /\ UNCHANGED <<clock, spread, booked, realized, orderVars>>

\* floor(cap / max loss), at half the cap under a drawdown warning.
SizingQuantity(maxLoss, half) == (IF half THEN CapitalCap \div 2 ELSE CapitalCap) \div maxLoss

\* Faulty variant: only what is open counts against the day.
EntersAgain(u) == InEntryWindow /\ spread[u].state \in {"IDLE", "SPREAD_CLOSED"}

MayEnter(u) ==
    /\ InEntryWindow
    /\ spread[u].state \in {"IDLE", "SPREAD_CLOSED"}
    /\ spread[u].started < MaxPerDay
    /\ DailyLossCap > 0 => realized > - DailyLossCap

\* propose_for_symbol, once the trend gate let it pass and the chain had a
\* structure worth its credit.  The ledger row is written with the proposal;
\* the router may still refuse it.  Other legs than the last ones give the close to
\* come a client id of its own.
Open(u, maxLoss, half, routed) ==
    /\ tickStep = "opening" /\ u \in unseen /\ unseen' = unseen \ {u}
    /\ MayEnter(u) /\ SizingQuantity(maxLoss, half) > 0
    /\ WriteEntryLedger(u)
    /\ IF routed
       THEN /\ working' = [working EXCEPT ![u] = [what |-> "entry", filled |-> FALSE]]
            /\ spread' = [spread EXCEPT ![u].state = "SPREAD_PENDING"]
            /\ \E known \in {closeRow[u], "none"} : closeRow' = [closeRow EXCEPT ![u] = known]
       ELSE UNCHANGED <<working, spread, closeRow>>
    /\ UNCHANGED <<clock, tickStep, realized, endedSince, chance>>

\* Outside the gates, in a downtrend, without a structure, or over the cap.
SkipEntry(u) ==
    /\ tickStep = "opening" /\ u \in unseen /\ unseen' = unseen \ {u}
    /\ UNCHANGED <<clock, tickStep, spread, booked, realized, orderVars>>

OpensDone ==
    /\ tickStep = "opening" /\ unseen = {}
    /\ tickStep' = "asleep"
    /\ UNCHANGED <<clock, unseen, spread, booked, realized, orderVars>>

-----------------------------------------------------------------------------
(* The broker, which does not wait for the tick, and the clock.            *)

Fill(u) ==
    /\ working[u].what # "none"
    /\ working' = [working EXCEPT ![u].filled = TRUE]
    /\ UNCHANGED <<clock, tickStep, unseen, spread, booked, realized, closeRow, endedSince, chance>>

\* A close at the broker is rejected, cancelled or expires.
CloseEnds(u) ==
    /\ working[u] = NewClose
    /\ working' = [working EXCEPT ![u] = NoWorking]
    /\ endedSince' = endedSince \cup {u} /\ chance' = chance \ {u}
    /\ UNCHANGED <<clock, tickStep, unseen, spread, booked, realized, closeRow>>

\* An entry that stays unfilled is cancelled by the stale sweep, and its row
\* goes back to what the next entry starts from.
CancelEntry(u) ==
    /\ tickStep = "asleep" /\ working[u] = [what |-> "entry", filled |-> FALSE]
    /\ working' = [working EXCEPT ![u] = NoWorking]
    /\ spread' = [spread EXCEPT ![u].state = "IDLE"]
    /\ UNCHANGED <<clock, tickStep, unseen, booked, realized, closeRow, endedSince, chance>>

TimePasses ==
    /\ tickStep = "asleep" /\ clock < LiquidatedAt
    /\ clock' = clock + 1
    /\ UNCHANGED <<tickStep, unseen, spread, booked, realized, orderVars>>

\* The broker closes what expires today, and tomorrow starts from nothing.
NextDay ==
    /\ tickStep = "asleep" /\ clock = LiquidatedAt
    /\ clock' = 0 /\ realized' = 0
    /\ spread' = [u \in Underlyings |-> Idle]
    /\ working' = [u \in Underlyings |-> NoWorking]
    /\ booked' = [u \in Underlyings |-> 0]
    /\ closeRow' = [u \in Underlyings |-> "none"] /\ endedSince' = {} /\ chance' = {}
    /\ UNCHANGED <<tickStep, unseen>>

ZeroDteNext ==
    \/ Reconcile \/ \E tripped \in BOOLEAN : ReadSwitch(tripped)
    \/ ClosesDone \/ OpensDone \/ TimePasses \/ NextDay
    \/ \E u \in Underlyings :
         \/ \E debit \in Debits, taken \in BOOLEAN : Close(u, debit, taken)
         \/ SkipUnquoted(u)
         \/ \E maxLoss \in MaxLosses, half, routed \in BOOLEAN : Open(u, maxLoss, half, routed)
         \/ SkipEntry(u) \/ Fill(u) \/ CloseEnds(u) \/ CancelEntry(u)

ZeroDteSpec == ZeroDteInit /\ [][ZeroDteNext]_zeroDteVars

-----------------------------------------------------------------------------
\* A symbol makes one round trip a day, counting what really filled: neither
\* the rows left by a finished one, nor an entry cancelled and repriced, nor a
\* fill found late lets a second one through.
OneRoundTripPerDay == \A u \in Underlyings : spread[u].started <= MaxPerDay

\* A spread that is still open past the flatten time has its close at the broker,
\* or no tick since then had the kill switch clear, a quote for every leg and a
\* router that took the order; or else that close was lost after the tick, ended by
\* the broker or cancelled for a replacement that failed.  What is lost, the next
\* tick that can makes good: the row of an ended close does not pass for a working one.
MissedFlattenIsExcused ==
    \A u \in Underlyings :
        spread[u].state = "SPREAD_OPEN" /\ u \in chance => working[u].what = "close"

\* What propose_all_closes says: the flatten fires on the first tick at or after
\* the deadline, regardless of gates.
FlattenFiresAtDeadline ==
    [][\A u \in Underlyings :
         tickStep = "reconciled" /\ tickStep' = "asleep" /\ PastFlatten
           => spread[u].state # "SPREAD_OPEN"]_zeroDteVars
=============================================================================
