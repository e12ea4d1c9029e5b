------------------------- MODULE OperatorRows_proofs -------------------------
(***************************************************************************)
(* Proof that the bot respects the operator: a row in an operator state is *)
(* moved only by the fill of one of its own orders, in any environment.    *)
(***************************************************************************)
EXTENDS Ledger_proofs

\* Nothing is planned for a row the operator owns, the order in progress is the
\* one at the head of the plan, and a row the bot flags is MANUAL_INTERVENTION.
OperatorInv ==
    /\ \A s \in Strategies : row[s].state \notin {"BROKER_DOWN", "KILLED"}
    /\ \A i \in 1 .. Len(plan) : ~OperatorOwned(plan[i].strategy)
    /\ routing # NotRouting => placed[routing.order] = Head(plan)

\* The rows the operator owns stay as they are.
OwnedRowsStay ==
    \A s \in Strategies : OperatorOwned(s) => row'[s].state = row[s].state

\* No state but MANUAL_INTERVENTION is taken from the operator's.
NoOtherOperatorState ==
    \A s \in Strategies : row'[s].state \in {"BROKER_DOWN", "KILLED"} => row'[s].state = row[s].state

-----------------------------------------------------------------------------
\* Flagging leaves the operator's rows alone.
LEMMA FlaggedStays ==
    ASSUME Inv, OperatorInv, NEW flags, row' = Flagged(flags)
    PROVE  OwnedRowsStay /\ NoOtherOperatorState
  BY DEF Flagged, OperatorInv, OwnedRowsStay, NoOtherOperatorState, OperatorOwned, OperatorStates,
         Inv, TypeInv, TypeOK, DatabaseTypeOK, RowType

\* One row's state is written with a state of the bot's, or with MANUAL, or not
\* at all: then no other row of the operator moves.
LEMMA OneRowWritten ==
    ASSUME Inv, OperatorInv, NEW r \in Strategies,
           \A t \in Strategies \ {r} : row'[t].state = row[t].state,
           row'[r].state \notin {"BROKER_DOWN", "KILLED"}
    PROVE  /\ NoOtherOperatorState
           /\ (OperatorOwned(r) => row'[r].state = row[r].state) => OwnedRowsStay
  BY DEF OwnedRowsStay, NoOtherOperatorState

\* The handler of a fill writes the row of the order's strategy, or flags it, or
\* inserts one where there is none.
LEMMA OnFillRows ==
    ASSUME Inv, OperatorInv, NEW s \in Strategies, NEW o \in OrderIds, OnFill(s, o)
    PROVE  /\ NoOtherOperatorState
           /\ \A t \in Strategies \ {s} : OperatorOwned(t) => row'[t].state = row[t].state
<1>1. row \in [Strategies -> RowType] /\ DefaultStrategy \in Strategies
  BY StrategiesAssumption DEF Inv, TypeInv, TypeOK, DatabaseTypeOK
<1> DEFINE Goal == /\ NoOtherOperatorState
                   /\ \A t \in Strategies \ {s} : OperatorOwned(t) => row'[t].state = row[t].state
<1>2. ASSUME NEW r \in Strategies, NEW state, state \notin {"BROKER_DOWN", "KILLED"},
             \A t \in Strategies : row'[t].state = IF t = r THEN state ELSE row[t].state,
             r = s \/ row[r].state = "NONE"
      PROVE  Goal
  BY <1>2 DEF NoOtherOperatorState, OperatorOwned, OperatorStates
<1>3. ASSUME NEW r \in Strategies, NEW state, NEW c, state \notin {"BROKER_DOWN", "KILLED"},
             row' = WithState(r, state, c), r = s \/ row[r].state = "NONE"
      PROVE  Goal
  <2>1. \A t \in Strategies : row'[t].state = IF t = r THEN state ELSE row[t].state
    BY <1>1, <1>3 DEF WithState, RowType
  <2> QED
    BY <1>2, <1>3, <2>1
<1>4. ASSUME NEW state \in {"SPREAD_CLOSED", "IDLE"},
             row' = [row EXCEPT ![s].state = state, ![s].cycle = None]
      PROVE  Goal
  <2>1. \A t \in Strategies : row'[t].state = IF t = s THEN state ELSE row[t].state
    BY <1>1, <1>4 DEF RowType
  <2> QED
    BY <1>2, <1>4, <2>1
<1>5. CASE row' = Flagged({s})
  BY <1>5, FlaggedStays DEF OwnedRowsStay
<1>6. ~InsertRaises(s) => InsertTarget(s) \in Strategies
                          /\ (InsertTarget(s) = s \/ row[InsertTarget(s)].state = "NONE")
  BY <1>1 DEF InsertRaises, InsertTarget, HasRow
<1>7. CASE OnPmccFill(s, o)
  BY <1>3, <1>4, <1>5, <1>7 DEF OnPmccFill, OpenLong, CloseLong, UnhandledFill
<1>8. CASE OnSwingFill(s, o)
  BY <1>3, <1>4, <1>5, <1>8 DEF OnSwingFill, OpenLong, CloseLong, UnhandledFill
<1>9. CASE OpenSpread(s, o) \/ CloseSpread(s, o)
  BY <1>3, <1>4, <1>9 DEF OpenSpread, CloseSpread
<1>10. CASE SellPut(s, o) \/ SellCall(s, o)
  BY <1>3, <1>5, <1>6, <1>10 DEF SellPut, SellCall
<1>11. CASE BuyBack(s, o) \/ UnhandledFill(s)
  BY <1>3, <1>5, <1>6, <1>11 DEF BuyBack, UnhandledFill
<1> QED
  BY <1>7, <1>8, <1>9, <1>10, <1>11 DEF OnFill, OnWheelOrSpreadFill

-----------------------------------------------------------------------------
(* The reconcile pass: nothing is planned, so only the rows matter. *)

\* What a step may do to the rows the operator owns.
RowsRespected ==
    \A s \in Strategies : (OperatorOwned(s) /\ row'[s].state # row[s].state) =>
        /\ dispatching # None
        /\ Owner(dispatching) = s
        /\ answer[dispatching] = "FILLED"

\* Outside the routing phases there is nothing planned to protect.
LEMMA NothingPlanned ==
    ASSUME Inv, OperatorInv, phase \notin {"rolling", "proposing"},
           UNCHANGED <<plan, routing>>, NoOtherOperatorState
    PROVE  OperatorInv'
<1>1. plan = <<>> /\ routing = NotRouting
  BY DEF Inv, Ledger, RoutingInv, TypeInv, Shape
<1> QED
  BY <1>1 DEF OperatorInv, NoOtherOperatorState

\* Dispatching an order: only its own fill moves a row the operator owns.
LEMMA DispatchRespects ==
    ASSUME Inv, OperatorInv, NEW o \in OrderIds, DispatchOrderTransition(o)
    PROVE  NoOtherOperatorState /\ RowsRespected
<1>1. dispatching = o /\ o # None /\ Owner(o) \in Strategies /\ row \in [Strategies -> RowType]
  BY SubmittedType, MaxOrdersAssumption
     DEF DispatchOrderTransition, Inv, TypeInv, TypeOK, Shape, DatabaseTypeOK, OrderIds, None
<1>2. CASE answer[o] = "FILLED"
  <2>1. OnFill(Owner(o), o)
    BY <1>2 DEF DispatchOrderTransition
  <2> QED
    BY <1>1, <1>2, <2>1, OnFillRows DEF RowsRespected
<1>3. CASE answer[o] # "FILLED" /\ ObservedPartialFill(o)
  <2>1. row' = Flagged({Owner(o)})
    BY <1>3 DEF DispatchOrderTransition
  <2> QED
    BY <2>1, FlaggedStays DEF OwnedRowsStay, RowsRespected
<1>4. CASE answer[o] # "FILLED" /\ ~ObservedPartialFill(o)
  <2>1. OnCancel(Owner(o), o)
    BY <1>4 DEF DispatchOrderTransition
  <2>2. \A t \in Strategies :
           row'[t].state = IF t = Owner(o) THEN RestoredState(t, o) ELSE row[t].state
    BY <1>1, <2>1 DEF OnCancel, RowType
  <2> QED
    BY <2>2 DEF RestoredState, OperatorInv, NoOtherOperatorState, RowsRespected, OperatorOwned,
                OperatorStates
<1> QED
  BY <1>2, <1>3, <1>4

\* Inferring what happened to a row never moves one the operator owns.
LEMMA DiffRespects ==
    ASSUME Inv, OperatorInv, NEW s \in Strategies, DiffOne(s)
    PROVE  NoOtherOperatorState /\ OwnedRowsStay
<1>1. row \in [Strategies -> RowType]
  BY DEF Inv, TypeInv, TypeOK, DatabaseTypeOK
<1>2. CASE OperatorOwned(s)
  <2>1. UNCHANGED row
    BY <1>2 DEF DiffOne, OperatorOwned, OperatorStates, DiffCspOpen, DiffCcOpen,
                DiffWheelPending, DiffSpreadOpen, DiffSpreadPending, DiffPmccOpen,
                DiffPmccPending, DiffNoTransition, Stay
  <2> QED
    BY <2>1 DEF NoOtherOperatorState, OwnedRowsStay
<1>3. CASE ~OperatorOwned(s)
  <2>1. \/ row' = row \/ row' = Flagged({s}) \/ row' = Flattened(s)
        \/ row' = [row EXCEPT ![s].state = "SHARES_HELD", ![s].shares = 1]
        \/ \E state \in States \ {"BROKER_DOWN", "KILLED"} : \E c : row' = WithState(s, state, c)
    BY DEF DiffOne, DiffCspOpen, DiffCcOpen, DiffWheelPending, DiffSpreadOpen,
           DiffSpreadPending, DiffPmccOpen, DiffPmccPending, DiffNoTransition, Stay, Flag,
           Heal, OnCspExpiration, OnAssignment, OnCalledAway, OpenLong, States
  <2>2. ASSUME NEW state \in States \ {"BROKER_DOWN", "KILLED"}, NEW c,
               row' = WithState(s, state, c)
        PROVE  \A t \in Strategies : row'[t].state = IF t = s THEN state ELSE row[t].state
    BY <1>1, <2>2 DEF WithState, RowType
  <2>3. CASE row' = Flattened(s)
             \/ row' = [row EXCEPT ![s].state = "SHARES_HELD", ![s].shares = 1]
    BY <1>1, <1>3, <2>3 DEF Flattened, RowType, NoOtherOperatorState, OwnedRowsStay
  <2>4. CASE row' = row \/ row' = Flagged({s})
    BY <2>4, FlaggedStays DEF NoOtherOperatorState, OwnedRowsStay
  <2>5. CASE \E state \in States \ {"BROKER_DOWN", "KILLED"} : \E c : row' = WithState(s, state, c)
    BY <1>3, <2>2, <2>5 DEF NoOtherOperatorState, OwnedRowsStay
  <2> QED
    BY <2>1, <2>3, <2>4, <2>5
<1> QED
  BY <1>2, <1>3

\* The reconcile pass respects the operator.
LEMMA ReconcilerRespects ==
    ASSUME Inv, OperatorInv, ReconcilerStep
    PROVE  OperatorInv' /\ RowsRespected
<1>1. phase \notin {"rolling", "proposing"} /\ UNCHANGED <<plan, routing>>
  BY DEF ReconcilerStep, FetchPositions, FetchOrders, UnknownOrder, PersistStatus,
         DispatchOrderTransition, OrdersProcessed, DiffOne, RowsDiffed, AuditCycleParity,
         UnchangedByReconciler, routeVars
<1>2. SUFFICES NoOtherOperatorState /\ RowsRespected
  BY <1>1, NothingPlanned
<1>3. CASE \E o \in OrderIds : DispatchOrderTransition(o)
  BY <1>3, DispatchRespects
<1>4. CASE \E s \in Strategies : DiffOne(s)
  BY <1>4, DiffRespects DEF OwnedRowsStay, RowsRespected
<1>5. CASE ~(\/ \E o \in OrderIds : DispatchOrderTransition(o)
             \/ \E s \in Strategies : DiffOne(s))
  <2>1. UNCHANGED row \/ \E flags : row' = Flagged(flags)
    BY <1>5 DEF ReconcilerStep, FetchPositions, FetchOrders, UnknownOrder, PersistStatus,
                OrdersProcessed, RowsDiffed, AuditCycleParity, FlagSymbol, dbVars
  <2> QED
    BY <2>1, FlaggedStays DEF NoOtherOperatorState, OwnedRowsStay, RowsRespected
<1> QED
  BY <1>3, <1>4, <1>5

-----------------------------------------------------------------------------
(* Routing: nothing is proposed for a row the operator owns. *)

\* What a strategy proposes is for itself, in a state that is not the operator's.
LEMMA ProposalsRespect ==
    ASSUME Inv, NEW s \in Strategies
    PROVE  \A p \in Closes(s) \cup Opens(s) : p.strategy = s /\ ~OperatorOwned(s)
<1>1. \A p \in Closes(s) \cup Opens(s) : p.strategy = s
  BY ProposalsType DEF Inv, TypeInv, TypeOK
<1>2. OperatorOwned(s) => Closes(s) = {} /\ Opens(s) = {}
  BY DEF OperatorOwned, OperatorStates, Closes, Opens, WheelCloses, WheelOpens, PmccCloses,
         PmccOpens, SwingCloses, SwingOpens, SpreadCloses, SpreadOpens
<1> QED
  BY <1>1, <1>2

\* A shorter plan, with no row written, needs no new argument.
LEMMA PlanShrinks ==
    ASSUME Inv, OperatorInv, plan # <<>>, plan' \in {plan, Tail(plan), <<>>},
           routing' = NotRouting, UNCHANGED row
    PROVE  OperatorInv' /\ RowsRespected
<1>1. plan \in Seq(Proposals)
  BY DEF Inv, TypeInv, TypeOK, RouteTypeOK
<1>2. \A i \in 1 .. Len(plan') : \E j \in 1 .. Len(plan) : plan'[i] = plan[j]
  <2>1. CASE plan' = Tail(plan)
    <3>1. \A i \in 1 .. Len(plan') : i + 1 \in 1 .. Len(plan) /\ plan'[i] = plan[i + 1]
      BY <1>1, <2>1
    <3> QED
      BY <3>1
  <2>2. CASE plan' \in {plan, <<>>}
    BY <2>2
  <2> QED
    BY <2>1, <2>2
<1> QED
  BY <1>2 DEF OperatorInv, RowsRespected, OperatorOwned

\* Making a proposal.
LEMMA ProposeRespects ==
    ASSUME Inv, OperatorInv, NEW s \in Strategies, Propose(s)
    PROVE  OperatorInv' /\ RowsRespected
<1>1. UNCHANGED row /\ UNCHANGED routing /\ routing = NotRouting
  BY DEF Propose, dbVars
<1>2. PICK c \in SequencesOver(Closes(s)), o \in SequencesOver(Opens(s)) : plan' = c \o o
  BY DEF Propose
<1>3. \A i \in 1 .. Len(plan') : plan'[i] \in Closes(s) \cup Opens(s)
  BY <1>2 DEF SequencesOver
<1> QED
  BY <1>1, <1>3, ProposalsRespect DEF OperatorInv, RowsRespected, OperatorOwned

\* The roll scan plans for a row whose short is open, or hands it over.
LEMMA ScanRollRespects ==
    ASSUME Inv, OperatorInv, NEW s \in Strategies, ScanRoll(s)
    PROVE  OperatorInv' /\ RowsRespected
<1>1. UNCHANGED routing /\ routing = NotRouting
  BY DEF ScanRoll
<1>2. CASE plan' = <<>>
  <2>1. UNCHANGED row \/ row' = Flagged({s})
    BY <1>2 DEF ScanRoll
  <2>2. NoOtherOperatorState /\ OwnedRowsStay
    BY <2>1, FlaggedStays DEF NoOtherOperatorState, OwnedRowsStay
  <2> QED
    BY <1>1, <1>2, <2>2 DEF OperatorInv, NoOtherOperatorState, OwnedRowsStay, RowsRespected
<1>3. CASE plan' # <<>>
  <2>1. UNCHANGED row /\ row[s].state \in {"CSP_OPEN", "CC_OPEN"}
    BY <1>3 DEF ScanRoll, RollShort
  <2>2. PICK short \in RollShort(s) :
          LET close == Proposal(s, ClosingTypeOf(Type(short)), short)
              open  == Proposal(s, Type(short), None)
          IN  plan' = <<close, open>> \/ plan' = <<close>>
    BY <1>3 DEF ScanRoll
  <2>3. \A i \in 1 .. Len(plan') : plan'[i].strategy = s
    BY <2>2 DEF Proposal
  <2> QED
    BY <1>1, <2>1, <2>3 DEF OperatorInv, RowsRespected, OperatorOwned, OperatorStates
<1> QED
  BY <1>2, <1>3

\* Submitting and recording an order: no row is written.
LEMMA SubmissionRespects ==
    ASSUME Inv, OperatorInv, NEW p,
           ReplaceStale(p) \/ Drop(p) \/ SubmitFails(p) \/ Submit(p) \/ SubmitAnswerLost(p)
    PROVE  OperatorInv' /\ RowsRespected
<1>1. UNCHANGED row /\ routing = NotRouting /\ plan # <<>> /\ p = Head(plan)
  BY DEF ReplaceStale, Drop, SubmitFails, Submit, SubmitAnswerLost, AtHead, dbVars
<1>2. CASE ReplaceStale(p) \/ Drop(p) \/ SubmitFails(p) \/ SubmitAnswerLost(p)
  <2>1. plan' \in {plan, Tail(plan), <<>>} /\ routing' = NotRouting
    BY <1>1, <1>2 DEF ReplaceStale, Drop, SubmitFails, SubmitAnswerLost, AfterFailure, routeVars
  <2> QED
    BY <1>1, <2>1, PlanShrinks
<1>3. CASE Submit(p)
  <2>1. /\ routing'.order = Len(placed) + 1 /\ placed' = Append(placed, p)
        /\ UNCHANGED <<row, plan>>
    BY <1>3 DEF Submit, Lands, dbVars
  <2>2. placed'[routing'.order] = Head(plan')
    BY <1>1, <2>1 DEF Inv, TypeInv, TypeOK, BrokerTypeOK
  <2> QED
    BY <2>1, <2>2 DEF OperatorInv, RowsRespected, OperatorOwned
<1> QED
  BY <1>2, <1>3

\* Recording the order, then the pending state of the row it was planned for:
\* that row is not the operator's, and the state it takes is the bot's.
LEMMA RecordingRespects ==
    ASSUME Inv, OperatorInv, PersistOrder \/ UpsertPositionPending
    PROVE  OperatorInv' /\ RowsRespected
<1> DEFINE o == routing.order
           p == placed[o]
<1>1. routing # NotRouting /\ plan # <<>> /\ p = Head(plan) /\ plan \in Seq(Proposals)
  BY DEF PersistOrder, UpsertPositionPending, NotRouting, OperatorInv, Inv, TypeInv, TypeOK,
         Shape, RouteTypeOK
<1>2. p = plan[1] /\ 1 \in 1 .. Len(plan) /\ p.strategy \in Strategies
  <2>1. p = plan[1] /\ 1 \in 1 .. Len(plan) /\ p \in Proposals
    BY <1>1
  <2> QED
    BY <2>1 DEF Proposals
<1>3. CASE PersistOrder /\ routing' = NotRouting
  BY <1>1, <1>3, PlanShrinks DEF PersistOrder, Routed
<1>4. CASE PersistOrder /\ routing' # NotRouting
  <2>1. UNCHANGED <<plan, row, placed>> /\ routing' = [routing EXCEPT !.next = "upsert"]
    BY <1>4 DEF PersistOrder, Routed, brokerVars
  <2>2. routing'.order = o
    BY <2>1 DEF Inv, TypeInv, TypeOK, RouteTypeOK
  <2> QED
    BY <1>1, <2>1, <2>2 DEF OperatorInv, RowsRespected, OperatorOwned
<1>5. CASE UpsertPositionPending
  <2> DEFINE s == p.strategy
             state == PendingStateFor(Kind(s), p.type, row[s].state)
  <2>1. /\ \A t \in Strategies : row'[t].state = IF t = s THEN state ELSE row[t].state
        /\ plan' = Tail(plan) /\ routing' = NotRouting
    BY <1>2, <1>5 DEF UpsertPositionPending, Routed, Inv, TypeInv, TypeOK, DatabaseTypeOK, RowType
  <2>2. ~OperatorOwned(s)
    BY <1>2 DEF OperatorInv
  <2>3. state \notin OperatorStates
    BY <2>2 DEF PendingStateFor, OperatorOwned, OperatorStates
  <2>4. \A t \in Strategies : OperatorOwned(t)' <=> OperatorOwned(t)
    BY <2>1, <2>2, <2>3 DEF OperatorOwned
  <2>5. \A i \in 1 .. Len(plan') : plan'[i].strategy \in Strategies /\ ~OperatorOwned(plan'[i].strategy)
    <3>1. \A i \in 1 .. Len(Tail(plan)) : i + 1 \in 1 .. Len(plan) /\ Tail(plan)[i] = plan[i + 1]
      BY <1>1
    <3>2. \A i \in 1 .. Len(plan) : plan[i] \in Proposals
      BY <1>1
    <3> QED
      BY <2>1, <3>1, <3>2 DEF OperatorInv, Proposals
  <2>6. OperatorInv'
    BY <2>1, <2>3, <2>4, <2>5 DEF OperatorInv, OperatorStates
  <2> QED
    BY <2>1, <2>2, <2>6 DEF RowsRespected
<1> QED
  BY <1>3, <1>4, <1>5

-----------------------------------------------------------------------------
(* The theorem. *)

\* Every step respects the operator.
LEMMA StepRespects ==
    ASSUME Inv, OperatorInv, [BotNext]_botVars
    PROVE  OperatorInv' /\ RowsRespected
<1>1. CASE ReconcilerStep
  BY <1>1, ReconcilerRespects
<1>2. CASE RouterStep
  <2>1. CASE SweepStaleOpens \/ EndTick \/ EndRollScan
    BY <2>1 DEF SweepStaleOpens, EndTick, EndRollScan, dbVars, routeVars, brokerVars, Inv, Ledger,
                RoutingInv, TypeInv, Shape, OperatorInv, RowsRespected, OperatorOwned
  <2> QED
    BY <1>2, <2>1, ProposeRespects, ScanRollRespects, SubmissionRespects, RecordingRespects
       DEF RouterStep
<1>3. CASE BrokerStep
  <2>1. UNCHANGED <<row, placed, plan, routing>>
    BY <1>3 DEF BrokerStep, Fill, PartialFill, EndOrder, Expire, Assign, UnchangedByBroker,
                dbVars, routeVars
  <2> QED
    BY <2>1 DEF OperatorInv, RowsRespected, OperatorOwned
<1>4. CASE NewDay \/ UNCHANGED botVars
  <2>1. UNCHANGED <<row, placed, plan, routing>>
    BY <1>4 DEF NewDay, botVars, vars, dbVars, routeVars
  <2> QED
    BY <2>1 DEF OperatorInv, RowsRespected, OperatorOwned
<1>5. CASE Crash
  BY <1>5 DEF Crash, dbVars, OperatorInv, RowsRespected, OperatorOwned
<1> QED
  BY <1>1, <1>2, <1>3, <1>4, <1>5 DEF BotNext, TickStep

\* No plan exists at first, and no row is the operator's.
LEMMA InitRespects == BotInit => OperatorInv
  BY DEF BotInit, Init, OperatorInv

\* A row the operator owns is moved by the fill of one of its own orders only:
\* no cancel, inferred expiration, heal, roll or new order touches it.
THEOREM OperatorIsRespected == Spec => OperatorRowsRespected
<1>1. Inv /\ OperatorInv /\ [BotNext]_botVars => OperatorInv' /\ [RowsRespected]_botVars
  BY StepRespects
<1>2. [RowsRespected]_botVars <=>
        [\A s \in Strategies :
           (OperatorOwned(s) /\ row'[s].state # row[s].state) =>
              /\ dispatching # None
              /\ Owner(dispatching) = s
              /\ answer[dispatching] = "FILLED"]_botVars
  BY DEF RowsRespected
<1> QED
  BY <1>1, <1>2, InitRespects, LedgerIsTrue, PTL DEF Spec, OperatorRowsRespected
=============================================================================
