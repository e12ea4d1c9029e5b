------------------------------- MODULE Router -------------------------------
(***************************************************************************)
(* Orders leave the bot here: the proposers of each strategy, the roll     *)
(* evaluator that places orders from inside the reconcile pass, and the    *)
(* router's submission, which is three writes (broker, orders row,         *)
(* positions row) with a crash possible between any two of them.           *)
(*                                                                         *)
(* Prices, Greeks, risk limits and news decide WHETHER a proposal is made  *)
(* and let through; here any proposal may be made in a state that allows   *)
(* it, and any proposal may be dropped.                                    *)
(***************************************************************************)
EXTENDS Brokerage

CONSTANTS
    Trading,         \* the strategies that trade the symbol
    OrdersGoStale,   \* BOOLEAN: a resting order can outlive stale_pending_minutes
    CancelIsAsync,   \* BOOLEAN: an accepted cancel only starts cancelling
    CancelRefusals,  \* "raised" (Alpaca) or "swallowed" (paper, tastytrade)
    SubmitAnswers,   \* broker statuses a submission may be answered with
    AnswersLost,     \* BOOLEAN: an order may land though its submission fails
    ClosesWithOpens, \* BOOLEAN: a strategy's close and open may trigger in one pass
    RollActions      \* what the roll evaluator may decide

ASSUME RouterAssumption ==
    /\ Trading \subseteq Strategies
    /\ OrdersGoStale \in BOOLEAN /\ CancelIsAsync \in BOOLEAN
    /\ CancelRefusals \in {"raised", "swallowed"}
    /\ SubmitAnswers \subseteq {"open", "filled", "cancelled"}
    /\ AnswersLost \in BOOLEAN /\ ClosesWithOpens \in BOOLEAN
    /\ RollActions \subseteq {"CLOSE", "ROLL", "HALT"}

Proposal(s, type, target) == [strategy |-> s, type |-> type, target |-> target]

\* "Any in-flight order on this (symbol, strategy)", as the wheel's close pass asks.
InFlight(s) == \E o \in LocallyLive : Owner(o) = s

-----------------------------------------------------------------------------
(* What each strategy may propose in the present state. *)

ShortTypes == {"STO_PUT", "STO_CALL"}

\* Buy or sell back the latest order of these types in the row's cycle.
CloseOf(s, types) ==
    {Proposal(s, ClosingTypeOf(Type(o)), o) : o \in LatestFilled(row[s].cycle, types)}

WheelCloses(s) ==
    IF row[s].state \in {"CSP_OPEN", "CC_OPEN"} /\ ~InFlight(s)
    THEN CloseOf(s, ShortTypes) ELSE {}

WheelOpens(s) ==
    IF row[s].state \in {"NONE", "IDLE"} THEN {Proposal(s, "STO_PUT", None)}
    ELSE IF row[s].state = "SHARES_HELD" /\ row[s].shares = 1
    THEN {Proposal(s, "STO_CALL", None)} ELSE {}

SpreadCloses(s) ==
    IF row[s].state = "SPREAD_OPEN" THEN CloseOf(s, {"MLEG_OPEN"}) ELSE {}

SpreadOpens(s) ==
    IF row[s].state \in {"NONE", "IDLE", "SPREAD_CLOSED"}
    THEN {Proposal(s, "MLEG_OPEN", None)} ELSE {}

PmccCloses(s) ==
    CASE row[s].state = "PMCC_BOTH_OPEN" -> CloseOf(s, {"STO_CALL"})
      [] row[s].state = "PMCC_LONG_OPEN" -> CloseOf(s, {"BTO"})
      [] OTHER -> {}

PmccOpens(s) ==
    IF row[s].state \in {"NONE", "IDLE"} THEN {Proposal(s, "BTO", None)}
    ELSE IF row[s].state = "PMCC_LONG_OPEN" /\ LatestFilled(row[s].cycle, {"BTO"}) # {}
    THEN {Proposal(s, "STO_CALL", None)} ELSE {}

SwingCloses(s) ==
    IF row[s].state = "SWING_OPEN" THEN CloseOf(s, {"BTO"}) ELSE {}

SwingOpens(s) ==
    IF row[s].state \in {"NONE", "IDLE"} THEN {Proposal(s, "BTO", None)} ELSE {}

Closes(s) == CASE Kind(s) = "wheel" -> WheelCloses(s)
               [] Kind(s) = "pmcc"  -> PmccCloses(s)
               [] Kind(s) = "swing" -> SwingCloses(s)
               [] OTHER             -> SpreadCloses(s)

Opens(s) == CASE Kind(s) = "wheel" -> WheelOpens(s)
              [] Kind(s) = "pmcc"  -> PmccOpens(s)
              [] Kind(s) = "swing" -> SwingOpens(s)
              [] OTHER             -> SpreadOpens(s)

SequencesOver(S) == {<<>>} \cup {<<p>> : p \in S}

\* One strategy's pass: closes, then opens, both computed before either is
\* routed.  A strategy none of whose triggers fires is passed over.
Propose(s) ==
    /\ phase = "proposing" /\ s \in todoRows
    /\ plan = <<>> /\ routing = NotRouting
    /\ \E c \in SequencesOver(Closes(s)), o \in SequencesOver(Opens(s)) :
         /\ ClosesWithOpens \/ c = <<>> \/ o = <<>>
         /\ plan' = c \o o /\ plan' # <<>>
    /\ todoRows' = todoRows \ {s}
    /\ UNCHANGED <<brokerVars, dbVars, timeVars, phase, cursor, readVars, routing>>

-----------------------------------------------------------------------------
(* The roll trigger scan, inside the reconcile pass. *)

\* The short the row's state says is open.
RollShort(s) == IF row[s].state \in {"CSP_OPEN", "CC_OPEN"}
                THEN LatestFilled(row[s].cycle, ShortTypes) ELSE {}

\* The evaluator closes the short, closes it and sells the next one, or (rule
\* and model disagree) hands the position to the operator; rows it holds are
\* passed over.
ScanRoll(s) ==
    /\ phase = "rolling" /\ s \in todoRows
    /\ plan = <<>> /\ routing = NotRouting
    /\ todoRows' = todoRows \ {s}
    /\ \E short \in RollShort(s), action \in RollActions :
         LET close == Proposal(s, ClosingTypeOf(Type(short)), short)
             open  == Proposal(s, Type(short), None)
         IN  /\ row' = IF action = "HALT" THEN Flagged({s}) ELSE row
             /\ plan' = CASE action = "HALT" -> <<>>
                          [] action = "ROLL" -> <<close, open>>
                          [] OTHER           -> <<close>>
    /\ UNCHANGED <<brokerVars, local, cycle, timeVars, phase, cursor, readVars, routing>>

-----------------------------------------------------------------------------
(* Routing one proposal. *)

\* The order that carries the proposal's deterministic, day-scoped client id:
\* the first one submitted for it today.  Replacements carry other ids.
BaseOrder(p) == EarliestOf({o \in Submitted : o >= dayStart /\ placed[o] = p})

AtHead(p) == plan # <<>> /\ p = Head(plan) /\ routing = NotRouting

\* A roll's second leg is placed only if placing the first did not raise.
AfterFailure == IF phase = "rolling" THEN <<>> ELSE Tail(plan)

\* The entry window, a risk rule, the news check, dry run, or a base order that
\* is still young (or whose cancel was refused): nothing is submitted.
Drop(p) ==
    /\ AtHead(p)
    /\ plan' = Tail(plan)
    /\ UNCHANGED <<brokerVars, dbVars, timeVars, phase, cursor, readVars, todoRows, routing>>

CancelAccepted(status) ==
    CASE ~CancelIsAsync                    -> Ended(status)
      [] CancelIsAsync /\ status = "open" -> "cancelling"
      [] OTHER                             -> status

\* _replace_stale_pending: cancel the base order at the broker and mark it
\* CANCELLED locally; the proposal then goes out under a fresh id.
ReplaceStale(p) ==
    \E base \in BaseOrder(p) :
        /\ OrdersGoStale /\ AtHead(p)
        /\ local[base].status \in LiveStatuses
        /\ \/ /\ atBroker[base] \in LiveAtBroker
              /\ atBroker' = [atBroker EXCEPT ![base] = CancelAccepted(@)]
           \/ /\ atBroker[base] \notin LiveAtBroker /\ CancelRefusals = "swallowed"
              /\ UNCHANGED atBroker
        /\ local' = [local EXCEPT ![base].status = "CANCELLED"]
        /\ UNCHANGED <<placed, legs, stock, row, cycle, timeVars, phase, cursor,
                       readVars, todoRows, routeVars>>

\* Faulty variant: an order still working does not hold its client id.
AlwaysAvailable(p) == TRUE

\* The client id is free: no base order, a terminal one (a fresh id is minted),
\* or an entry that picked another contract than the base order's.
IdAvailable(p) ==
    p.type \in ClosingTypes =>
        \A base \in BaseOrder(p) : local[base].status \in {"FILLED", "CANCELLED"}

Lands(p, status) ==
    LET o == Len(placed) + 1
    IN  /\ Len(placed) < MaxOrders
        /\ status = "filled" => Fillable(p)
        /\ placed' = Append(placed, p)
        /\ atBroker' = [atBroker EXCEPT ![o] = status]
        /\ legs' = IF status = "filled" THEN LegsAfter(o, p) ELSE legs
        /\ UNCHANGED stock

\* First write: the broker accepts the order and answers with a status.
Submit(p) ==
    /\ AtHead(p) /\ IdAvailable(p)
    /\ \E status \in SubmitAnswers : Lands(p, status)
    /\ routing' = [order |-> Len(placed) + 1, next |-> "persist"]
    /\ UNCHANGED <<dbVars, timeVars, phase, cursor, readVars, todoRows, plan>>

\* The broker rejects the order or stays unreachable.
SubmitFails(p) ==
    /\ AtHead(p)
    /\ plan' = AfterFailure
    /\ UNCHANGED <<brokerVars, dbVars, timeVars, phase, cursor, readVars, todoRows, routing>>

\* The order lands but the answer is lost; the retry repeats the client id, is
\* refused as a duplicate, and the exception leaves no local row.
SubmitAnswerLost(p) ==
    /\ AnswersLost /\ AtHead(p) /\ IdAvailable(p)
    /\ Lands(p, "open")
    /\ plan' = AfterFailure
    /\ UNCHANGED <<dbVars, timeVars, phase, cursor, readVars, todoRows, routing>>

\* Package closes and PMCC buybacks leave the positions row alone.
MovesRow(p) == /\ p.type # "MLEG_CLOSE"
               /\ ~(Kind(p.strategy) = "pmcc" /\ p.type = "BTC_CALL")

Routed == plan' = Tail(plan) /\ routing' = NotRouting

\* Second write: insert the orders row, with the status the broker answered.
PersistOrder ==
    LET o == routing.order
        p == placed[o]
    IN  /\ routing.next = "persist"
        /\ local' = [local EXCEPT ![o] = [status |-> Reported(atBroker[o]), cycle |-> None]]
        /\ IF MovesRow(p)
           THEN routing' = [routing EXCEPT !.next = "upsert"] /\ UNCHANGED plan
           ELSE Routed
        /\ UNCHANGED <<brokerVars, row, cycle, timeVars, phase, cursor, readVars, todoRows>>

\* Third write: the positions row takes its pending state (inserted if absent).
UpsertPositionPending ==
    LET p == placed[routing.order]
    IN  /\ routing.next = "upsert"
        /\ row' = [row EXCEPT ![p.strategy].state =
                     PendingStateFor(Kind(p.strategy), p.type, @)]
        /\ Routed
        /\ UNCHANGED <<brokerVars, local, cycle, timeVars, phase, cursor, readVars, todoRows>>

-----------------------------------------------------------------------------
\* Entry orders the sweep may cancel: PENDING only, PARTIAL is left to a human.
Sweepable == {o \in Submitted : local[o].status = "PENDING" /\ Type(o) \in OpeningTypes}

\* cancel_stale_pending_opens: cancel stale entries at the BROKER only; then the
\* propose pass runs, unless the kill switch tripped.
SweepStaleOpens ==
    /\ phase = "sweeping"
    /\ \E stale \in SUBSET Sweepable :
         /\ stale # {} => OrdersGoStale
         /\ atBroker' = [o \in OrderIds |->
                           IF o \in stale /\ atBroker[o] \in LiveAtBroker
                           THEN CancelAccepted(atBroker[o]) ELSE atBroker[o]]
    /\ \/ phase' = "proposing" /\ todoRows' = Trading
       \/ phase' = "between" /\ todoRows' = {}
    /\ UNCHANGED <<placed, legs, stock, dbVars, timeVars, cursor, readVars, routeVars>>

EndTick ==
    /\ phase = "proposing" /\ plan = <<>> /\ routing = NotRouting
    /\ phase' = "between" /\ todoRows' = {}
    /\ UNCHANGED <<brokerVars, dbVars, timeVars, cursor, readVars, routeVars>>

EndRollScan ==
    /\ phase = "rolling" /\ plan = <<>> /\ routing = NotRouting
    /\ phase' = "sweeping" /\ todoRows' = {}
    /\ UNCHANGED <<brokerVars, dbVars, timeVars, cursor, readVars, routeVars>>

RouterStep ==
    \/ \E s \in Strategies : Propose(s) \/ ScanRoll(s)
    \/ \E p \in {plan[i] : i \in 1 .. Len(plan)} :
          \/ Drop(p) \/ ReplaceStale(p)
          \/ Submit(p) \/ SubmitFails(p) \/ SubmitAnswerLost(p)
    \/ PersistOrder \/ UpsertPositionPending
    \/ SweepStaleOpens \/ EndTick \/ EndRollScan
=============================================================================
