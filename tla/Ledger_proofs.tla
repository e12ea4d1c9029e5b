---------------------------- MODULE Ledger_proofs ----------------------------
(***************************************************************************)
(* Proofs about the cycle ledger: a fill never opens a second cycle, and   *)
(* an ended cycle is never written again, whatever crashes, answers arrive *)
(* late, orders are replaced or rows are healed.                           *)
(***************************************************************************)
EXTENDS BotTypes_proofs

\* Only submitted orders are known to anyone, and the database's FILLED is true.
OrdersInv ==
    /\ \A o \in OrderIds \ Submitted : /\ atBroker[o] = "none" /\ local[o].status = "none"
                                       /\ cycle[o].status = "none"
    /\ \A o \in Submitted : atBroker[o] # "none"
    /\ \A o \in Submitted : local[o].status = "FILLED" => atBroker[o] = "filled"

\* A cycle was opened once, by an order the database knows to be filled.
CyclesInv ==
    \A o \in OrderIds : /\ cycle[o].status # "duplicated"
                        /\ cycle[o].status # "none" => local[o].status = "FILLED"

\* The answer being processed is not older than what was concluded from it.
AnswerInv ==
    /\ phase # "processing" => todo = {}
    /\ \A o \in todo : /\ answer[o] # "none"
                       /\ answer[o] = "FILLED" => atBroker[o] = "filled"
                       /\ cycle[o].status # "none" => answer[o] = "FILLED"
    /\ dispatching # None => /\ cycle[dispatching].status = "none"
                             /\ local[dispatching].status = answer[dispatching]

\* Orders are routed in two phases only, and the one in progress is the latest
\* and has no effect yet.
RoutingInv ==
    /\ plan # <<>> => phase \in {"rolling", "proposing"}
    /\ routing # NotRouting =>
          /\ routing.order = Len(placed)
          /\ cycle[routing.order].status = "none"
          /\ routing.next = "upsert" => local[routing.order].status # "none"

\* A diagonal row is pending for an order that is its strategy's latest purchase
\* and has opened no cycle.
LongPendingFor(s, o) ==
    /\ Kind(s) = "pmcc" /\ Owner(o) = s /\ Type(o) = "BTO"
    /\ cycle[o].status = "none"
    /\ \A p \in LocallyKnown : (Owner(p) = s /\ Type(p) = "BTO") => p <= o

PmccInv ==
    \A s \in Strategies : row[s].state = "PMCC_LONG_PENDING" =>
        \E o \in LocallyKnown : LongPendingFor(s, o)

Ledger == OrdersInv /\ CyclesInv /\ AnswerInv /\ RoutingInv /\ PmccInv

Inv == TypeInv /\ Ledger

-----------------------------------------------------------------------------
(* What keeps each part of the invariant. *)

\* The broker neither forgets a fill nor an order.
BrokerForward ==
    \A o \in OrderIds : /\ atBroker[o] = "filled" => atBroker'[o] = "filled"
                        /\ atBroker'[o] = "none" <=> atBroker[o] = "none"

\* A diagonal's pending row keeps its order if neither is touched.
LEMMA PmccKept ==
    ASSUME Inv, placed' = placed,
           \A o \in Submitted : local'[o].status = "none" <=> local[o].status = "none",
           \A s \in Strategies : row'[s].state = "PMCC_LONG_PENDING" =>
               /\ row[s].state = "PMCC_LONG_PENDING"
               /\ \A o \in Submitted : (Owner(o) = s /\ cycle[o].status = "none") =>
                       cycle'[o].status = "none"
    PROVE  PmccInv'
<1> SUFFICES ASSUME NEW s \in Strategies, row'[s].state = "PMCC_LONG_PENDING"
             PROVE  \E o \in LocallyKnown' : LongPendingFor(s, o)'
  BY DEF PmccInv
<1>1. PICK o \in LocallyKnown : LongPendingFor(s, o)
  BY DEF Inv, Ledger, PmccInv
<1>2. LocallyKnown' = LocallyKnown
  BY DEF LocallyKnown, Submitted
<1>3. LongPendingFor(s, o)'
  BY <1>1, <1>2 DEF LongPendingFor, LocallyKnown, Owner, Type
<1> QED
  BY <1>1, <1>2, <1>3

\* A step that moves the broker's orders forward, and the phase, and no more.
LEMMA BrokerKeeps ==
    ASSUME Inv, BrokerForward,
           UNCHANGED <<placed, row, local, cycle, answer, todo, dispatching, plan, routing>>,
           phase' = phase \/ (todo = {} /\ dispatching = None /\ plan = <<>>)
    PROVE  Ledger'
<1> USE DEF Inv, Ledger
<1>0. Submitted \subseteq OrderIds /\ todo \subseteq OrderIds
  BY SubmittedType DEF TypeInv, TypeOK, TickTypeOK
<1>1. OrdersInv'
  BY <1>0 DEF OrdersInv, BrokerForward, Submitted
<1>2. CyclesInv'
  BY DEF CyclesInv
<1>3. AnswerInv'
  BY <1>0 DEF AnswerInv, BrokerForward
<1>4. RoutingInv'
  BY DEF RoutingInv
<1>5. PmccInv'
  BY PmccKept
<1> QED
  BY <1>1, <1>2, <1>3, <1>4, <1>5

\* A step that leaves the orders and the cycles alone, pends no row, reads no
\* answer, and only shortens the work in progress.
LEMMA QuietStep ==
    ASSUME Inv, UNCHANGED <<placed, atBroker, local, cycle>>,
           \A s \in Strategies : row'[s].state = "PMCC_LONG_PENDING" =>
                                 row[s].state = "PMCC_LONG_PENDING",
           \/ todo' = {} /\ dispatching' = None
           \/ UNCHANGED <<answer, todo, dispatching, phase>>,
           routing' = NotRouting \/ UNCHANGED routing,
           plan' = <<>> \/ phase' \in {"rolling", "proposing"}
    PROVE  Ledger'
<1> USE DEF Inv, Ledger
<1>1. OrdersInv' /\ CyclesInv'
  BY DEF OrdersInv, CyclesInv, Submitted
<1>2. AnswerInv'
  BY DEF AnswerInv
<1>3. RoutingInv'
  BY DEF RoutingInv
<1>4. PmccInv'
  BY PmccKept
<1> QED
  BY <1>1, <1>2, <1>3, <1>4

-----------------------------------------------------------------------------
(* The steps of the broker, of the calendar and of a crash. *)

\* An end of an order is not a fill and does not forget the order.
LEMMA EndedForward ==
    \A status \in BrokerStatuses :
        /\ status = "filled" => Ended(status) = "filled"
        /\ Ended(status) = "none" <=> status = "none"
        /\ CancelAccepted(status) = "none" <=> status = "none"
  BY DEF Ended, CancelAccepted, BrokerStatuses, LiveAtBroker

\* Whatever the market, the night or the sweep does, the ledger stays true.
LEMMA BrokerStepLedger == Inv /\ (BrokerStep \/ NewDay \/ SweepStaleOpens) => Ledger'
<1> SUFFICES ASSUME Inv, BrokerStep \/ NewDay \/ SweepStaleOpens
             PROVE  Ledger'
  OBVIOUS
<1>1. atBroker \in [OrderIds -> BrokerStatuses]
  BY DEF Inv, TypeInv, TypeOK, BrokerTypeOK
<1>2. CASE BrokerStep
  <2>1. BrokerForward
    BY <1>1, <1>2, EndedForward
       DEF BrokerStep, Fill, PartialFill, EndOrder, Expire, Assign, BrokerForward, LiveAtBroker
  <2>2. UnchangedByBroker
    BY <1>2 DEF BrokerStep, Fill, PartialFill, EndOrder, Expire, Assign
  <2> QED
    BY <2>1, <2>2, BrokerKeeps DEF UnchangedByBroker, dbVars, readVars, routeVars
<1>3. CASE NewDay
  <2>1. BrokerForward
    BY <1>1, <1>3, EndedForward DEF NewDay, BrokerForward
  <2> QED
    BY <1>3, <2>1, BrokerKeeps DEF NewDay, dbVars, readVars, routeVars
<1>4. CASE SweepStaleOpens
  <2>1. BrokerForward
    BY <1>1, <1>4, EndedForward DEF SweepStaleOpens, BrokerForward, LiveAtBroker
  <2>2. todo = {} /\ dispatching = None /\ plan = <<>>
    BY <1>4 DEF SweepStaleOpens, Inv, TypeInv, Shape, Ledger, AnswerInv, RoutingInv
  <2> QED
    BY <1>4, <2>1, <2>2, BrokerKeeps DEF SweepStaleOpens, dbVars, readVars, routeVars
<1> QED
  BY <1>2, <1>3, <1>4

\* Flagging a row for the operator pends no row.
LEMMA FlaggedPendsNothing ==
    \A flags : \A s \in Strategies : Flagged(flags)[s].state = "PMCC_LONG_PENDING" =>
                                     row[s].state = "PMCC_LONG_PENDING"
  BY DEF Flagged

\* The steps that only move the tick on, drop work or flag rows.
LEMMA QuietStepsLedger ==
    ASSUME Inv,
           \/ Crash \/ FetchPositions \/ OrdersProcessed \/ RowsDiffed \/ AuditCycleParity
           \/ EndTick \/ EndRollScan
           \/ \E p : Drop(p) \/ SubmitFails(p)
           \/ \E s \in Strategies : Propose(s) \/ ScanRoll(s)
           \/ \E o \in OrderIds : UnknownOrder(o)
    PROVE  Ledger'
<1> USE FlaggedPendsNothing DEF brokerVars, dbVars, readVars, routeVars
<1>1. /\ dispatching # None => dispatching \in todo /\ phase = "processing"
      /\ phase # "processing" => todo = {}
      /\ plan # <<>> => phase \in {"rolling", "proposing"}
      /\ DefaultStrategy \in Strategies
      /\ row \in [Strategies -> RowType]
  BY StrategiesAssumption
     DEF Inv, TypeInv, TypeOK, DatabaseTypeOK, Shape, Ledger, AnswerInv, RoutingInv
<1>2. CASE Crash
  BY <1>2, QuietStep DEF Crash
<1>3. CASE FetchPositions
  BY <1>1, <1>3, QuietStep DEF FetchPositions
<1>4. CASE OrdersProcessed
  BY <1>1, <1>4, QuietStep DEF OrdersProcessed
<1>5. CASE RowsDiffed
  BY <1>1, <1>5, QuietStep DEF RowsDiffed, UnchangedByReconciler
<1>6. CASE AuditCycleParity
  BY <1>1, <1>6, QuietStep DEF AuditCycleParity
<1>7. CASE EndTick \/ EndRollScan
  BY <1>1, <1>7, QuietStep DEF EndTick, EndRollScan
<1>8. ASSUME NEW p, Drop(p) \/ SubmitFails(p)
      PROVE  Ledger'
  BY <1>1, <1>8, QuietStep DEF Drop, SubmitFails, AtHead
<1>9. ASSUME NEW s \in Strategies, Propose(s) \/ ScanRoll(s)
      PROVE  Ledger'
  BY <1>1, <1>9, QuietStep DEF Propose, ScanRoll
<1>10. ASSUME NEW o \in OrderIds, UnknownOrder(o)
       PROVE  Ledger'
  <2> USE DEF Inv, Ledger
  <2>1. UNCHANGED <<placed, atBroker, local, cycle, answer, dispatching, phase, plan, routing>>
    BY <1>10 DEF UnknownOrder, UnchangedByReconciler
  <2>2. todo' \subseteq todo
    BY <1>10 DEF UnknownOrder
  <2>3. OrdersInv' /\ CyclesInv' /\ RoutingInv'
    BY <2>1 DEF OrdersInv, CyclesInv, RoutingInv, Submitted
  <2>4. AnswerInv'
    BY <2>1, <2>2 DEF AnswerInv
  <2>5. PmccInv'
    BY <1>1, <1>10, <2>1, PmccKept DEF UnknownOrder, FlagSymbol
  <2> QED
    BY <2>3, <2>4, <2>5
<1> QED
  BY <1>2, <1>3, <1>4, <1>5, <1>6, <1>7, <1>8, <1>9, <1>10

-----------------------------------------------------------------------------
(* Reading and processing orders. *)

\* FILLED is reported of filled orders only, and every order submitted has a
\* status to report.
LEMMA ReportedMeans ==
    \A status \in BrokerStatuses : /\ Reported(status) = "FILLED" <=> status = "filled"
                                   /\ Reported(status) = "none" <=> status = "none"
  BY DEF Reported, BrokerStatuses, LiveAtBroker

\* A fresh answer agrees with every cycle opened so far.
LEMMA FetchOrdersLedger == Inv /\ FetchOrders => Ledger'
<1> SUFFICES ASSUME Inv, FetchOrders
             PROVE  Ledger'
  OBVIOUS
<1> USE DEF Inv, Ledger, brokerVars, dbVars, routeVars
<1>1. UNCHANGED <<placed, atBroker, row, local, cycle, dispatching, plan, routing>>
  BY DEF FetchOrders
<1>2. OrdersInv' /\ CyclesInv'
  BY <1>1 DEF OrdersInv, CyclesInv, Submitted
<1>3. plan = <<>> /\ routing = NotRouting /\ dispatching = None
  BY DEF FetchOrders, RoutingInv, TypeInv, Shape
<1>4. RoutingInv'
  BY <1>1, <1>3 DEF RoutingInv
<1>5. PmccInv'
  BY <1>1, PmccKept
<1>6. AnswerInv'
  <2>1. OrdersSince \subseteq Submitted /\ Submitted \subseteq OrderIds
    BY SubmittedType DEF OrdersSince, TypeInv, TypeOK
  <2>2. \A o \in OrdersSince : atBroker[o] \in BrokerStatuses /\ atBroker[o] # "none"
    BY <2>1 DEF OrdersInv, TypeInv, TypeOK, BrokerTypeOK
  <2>3. \A o \in OrdersSince : answer'[o] = Reported(atBroker[o])
    BY <2>1 DEF FetchOrders
  <2>4. \A o \in OrdersSince : cycle[o].status # "none" => atBroker[o] = "filled"
    BY <2>1 DEF OrdersInv, CyclesInv
  <2> QED
    BY <1>1, <1>3, <2>2, <2>3, <2>4, ReportedMeans DEF AnswerInv, FetchOrders
<1> QED
  BY <1>2, <1>4, <1>5, <1>6

\* Writing the broker's status keeps what it says of fills and cycles.
LEMMA PersistStatusLedger == \A o \in OrderIds : Inv /\ PersistStatus(o) => Ledger'
<1> SUFFICES ASSUME NEW o \in OrderIds, Inv, PersistStatus(o)
             PROVE  Ledger'
  OBVIOUS
<1> USE DEF Inv, Ledger
<1>1. /\ UNCHANGED <<placed, atBroker, row, cycle, answer, phase, plan, routing>>
      /\ phase = "processing" /\ dispatching = None /\ o \in todo /\ o \in Submitted
      /\ local[o].status # "none" /\ answer[o] # "none"
      /\ o # None
  BY MaxOrdersAssumption
     DEF PersistStatus, UnchangedByReconciler, brokerVars, routeVars, TypeInv, Shape, AnswerInv,
         OrderIds, None
<1>2. /\ local'[o].status = answer[o]
      /\ \A q \in OrderIds \ {o} : local'[q] = local[q]
      /\ \A q \in OrderIds : local'[q].cycle = local[q].cycle
  BY DEF PersistStatus, TypeInv, TypeOK, DatabaseTypeOK, LocalType
<1>3. Submitted \subseteq OrderIds /\ todo \subseteq OrderIds
  BY SubmittedType DEF TypeInv, TypeOK, TickTypeOK
<1>4. OrdersInv'
  BY <1>1, <1>2, <1>3 DEF OrdersInv, AnswerInv, Submitted
<1>5. CyclesInv'
  BY <1>1, <1>2, <1>3 DEF CyclesInv, AnswerInv
<1>6. AnswerInv'
  <2>1. CASE NeedsDispatch(o)
    <3>1. cycle[o].status = "none"
      BY <2>1 DEF NeedsDispatch, CyclesInv, LiveStatuses
    <3>2. dispatching' = o /\ todo' = todo
      BY <2>1 DEF PersistStatus
    <3> QED
      BY <1>1, <1>2, <3>1, <3>2 DEF AnswerInv
  <2>2. CASE ~NeedsDispatch(o)
    BY <1>1, <2>2 DEF PersistStatus, AnswerInv
  <2> QED
    BY <2>1, <2>2
<1>7. RoutingInv'
  <2>1. plan = <<>> /\ routing = NotRouting
    BY <1>1 DEF RoutingInv, TypeInv, Shape
  <2> QED
    BY <1>1, <2>1 DEF RoutingInv
<1>8. PmccInv'
  BY <1>1, <1>2, <1>3, PmccKept
<1> QED
  BY <1>4, <1>5, <1>6, <1>7, <1>8

-----------------------------------------------------------------------------
(* Effects on the ledger. *)

\* A step that opens at most a cycle of order o, which is filled and has none,
\* ends open ones, books orders to cycles, and has no work in progress but o.
Books(o) ==
    /\ UNCHANGED <<placed, atBroker, answer, phase, plan, routing>>
    /\ todo' = todo \ {o} /\ dispatching' = None
    /\ plan = <<>> /\ routing = NotRouting
    /\ \A q \in OrderIds : local'[q].status = local[q].status
    /\ \A q \in OrderIds \ {o} :
          /\ cycle'[q].status = "none" <=> cycle[q].status = "none"
          /\ cycle'[q].status # "duplicated"
    /\ cycle'[o].status # "duplicated"
    /\ cycle'[o].status # "none" => local[o].status = "FILLED"
    /\ \A q \in OrderIds : cycle[q].status = "ended" => cycle'[q] = cycle[q]

\* Such a step keeps the ledger true if it pends no diagonal row, and resolves
\* the one whose cycle it opens.
LEMMA BooksKeep ==
    ASSUME Inv, NEW o \in OrderIds, Books(o),
           \A s \in Strategies : row'[s].state = "PMCC_LONG_PENDING" =>
               /\ row[s].state = "PMCC_LONG_PENDING"
               /\ Owner(o) = s => (cycle[o].status = "none" => cycle'[o].status = "none")
    PROVE  Ledger'
<1> USE DEF Inv, Ledger
<1>1. Submitted \subseteq OrderIds /\ todo \subseteq OrderIds
  BY SubmittedType DEF TypeInv, TypeOK, TickTypeOK
<1>2. OrdersInv'
  BY <1>1 DEF Books, OrdersInv, Submitted, TypeInv, TypeOK, BrokerTypeOK
<1>3. CyclesInv'
  BY DEF Books, CyclesInv
<1>4. AnswerInv'
  BY <1>1 DEF Books, AnswerInv
<1>5. RoutingInv'
  BY DEF Books, RoutingInv
<1>6. PmccInv'
  BY <1>1, PmccKept DEF Books
<1> QED
  BY <1>2, <1>3, <1>4, <1>5, <1>6

\* A cycle opened for an order that has none is a new one; others are untouched.
LEMMA OpenedCycleIsNew ==
    ASSUME DatabaseTypeOK, NEW o \in OrderIds, cycle[o].status = "none"
    PROVE  /\ OpenedCycle(o)[o].status = "open"
           /\ \A q \in OrderIds \ {o} : OpenedCycle(o)[q] = cycle[q]
  BY DEF OpenedCycle, DatabaseTypeOK, CycleType

\* Ending a cycle only changes an open one, to ended.
LEMMA ClosedCycleWasOpen ==
    ASSUME DatabaseTypeOK, NEW c \in Ref, NEW outcome
    PROVE  \A q \in OrderIds :
              \/ ClosedCycle(c, outcome)[q] = cycle[q]
              \/ cycle[q].status = "open" /\ ClosedCycle(c, outcome)[q].status = "ended"
  BY DEF ClosedCycle, DatabaseTypeOK, CycleType

\* Booking an order to a cycle does not change its status.
LEMMA TagKeepsStatus ==
    ASSUME DatabaseTypeOK, NEW o, NEW c
    PROVE  \A q \in OrderIds : /\ Tagged(o, c)[q].status = local[q].status
                               /\ TaggedOnce(o, c)[q].status = local[q].status
  BY DEF Tagged, TaggedOnce, DatabaseTypeOK, LocalType

\* What the writes to a row do to the states of the rows.
LEMMA RowStatesWritten ==
    ASSUME DatabaseTypeOK, NEW s
    PROVE  \A t \in Strategies :
             /\ \A state, c : WithState(s, state, c)[t].state =
                                 IF t = s THEN state ELSE row[t].state
             /\ \A state : [row EXCEPT ![s].state = state, ![s].cycle = None][t].state =
                              IF t = s THEN state ELSE row[t].state
             /\ Flattened(s)[t].state = IF t = s THEN "IDLE" ELSE row[t].state
  BY DEF WithState, Flattened, DatabaseTypeOK, RowType

\* What a handler may do to the cycles when it is given order o: open the cycle
\* of o, which has none, or end an open one.
CyclesMove(o) ==
    /\ \A q \in OrderIds : local'[q].status = local[q].status
    /\ \A q \in OrderIds :
         \/ cycle'[q] = cycle[q]
         \/ cycle[q].status = "open" /\ cycle'[q].status = "ended"
         \/ q = o /\ cycle[q].status = "none" /\ cycle'[q].status = "open"

\* No handler pends a diagonal row; one that opens a cycle resolves the row.
RowsResolve(o) ==
    \A t \in Strategies : row'[t].state = "PMCC_LONG_PENDING" =>
        /\ row[t].state = "PMCC_LONG_PENDING"
        /\ Owner(o) = t => (cycle[o].status = "none" => cycle'[o].status = "none")

\* The handler of a fill opens the order's cycle or ends an open one, and no
\* diagonal row stays pending for an order whose cycle it opens.
LEMMA OnFillBooks ==
    ASSUME Inv, NEW o \in OrderIds, NEW s \in Strategies, Owner(o) = s,
           cycle[o].status = "none", OnFill(s, o)
    PROVE  CyclesMove(o) /\ RowsResolve(o)
<1>1. DatabaseTypeOK /\ row[s].cycle \in Ref
  BY DEF Inv, TypeInv, TypeOK, DatabaseTypeOK, RowType
<1>2. row[s].state = "PMCC_LONG_PENDING" => Kind(s) = "pmcc"
  BY DEF Inv, Ledger, PmccInv, LongPendingFor
<1>3. InsertTarget(s) \in {s, DefaultStrategy}
      /\ (InsertTarget(s) # s => row[s].state = "NONE")
  BY DEF InsertTarget, HasRow
<1>4. CyclesMove(o)
  BY <1>1, OpenedCycleIsNew, ClosedCycleWasOpen, TagKeepsStatus
     DEF OnFill, OnPmccFill, OnSwingFill, OnWheelOrSpreadFill, OpenSpread, CloseSpread, SellPut, SellCall, BuyBack,
         UnhandledFill, OpenLong, CloseLong, CyclesMove
<1>5. RowsResolve(o)
  <2>1. ASSUME NEW r, NEW state, state # "PMCC_LONG_PENDING",
               row' = WithState(r, state, None) \/ row' = WithState(r, state, row[s].cycle)
               \/ row' = WithState(r, state, o)
               \/ row' = [row EXCEPT ![r].state = state, ![r].cycle = None],
               r = s \/ Kind(s) # "pmcc"
        PROVE  RowsResolve(o)
    <3>1. \A t \in Strategies : row'[t].state = IF t = r THEN state ELSE row[t].state
      <4>1. CASE row' = [row EXCEPT ![r].state = state, ![r].cycle = None]
        BY <1>1, <4>1 DEF DatabaseTypeOK, RowType
      <4>2. ASSUME NEW c, row' = WithState(r, state, c)
            PROVE  \A t \in Strategies : row'[t].state = IF t = r THEN state ELSE row[t].state
        BY <1>1, <4>2 DEF WithState, DatabaseTypeOK, RowType
      <4> QED
        BY <2>1, <4>1, <4>2
    <3> QED
      BY <1>2, <2>1, <3>1 DEF RowsResolve
  <2>2. ASSUME row' = Flagged({s})
        PROVE  RowsResolve(o)
    <3>1. row'[s].state = "MANUAL_INTERVENTION"
      BY <2>2 DEF Flagged, Inv, TypeInv, TypeOK, DatabaseTypeOK, RowType
    <3> QED
      BY <2>2, <3>1, FlaggedPendsNothing DEF RowsResolve
  <2>3. CASE Kind(s) = "pmcc"
    <3>1. OnPmccFill(s, o)
      BY <2>3 DEF OnFill
    <3> QED
      BY <2>1, <2>2, <3>1 DEF OnPmccFill, OpenLong, CloseLong, UnhandledFill
  <2>4. CASE Kind(s) = "swing"
    <3>1. OnSwingFill(s, o)
      BY <2>4 DEF OnFill
    <3> QED
      BY <2>1, <2>2, <2>4, <3>1 DEF OnSwingFill, OpenLong, CloseLong, UnhandledFill
  <2>5. CASE Kind(s) \notin {"pmcc", "swing"}
    <3>1. OnWheelOrSpreadFill(s, o)
      BY <2>5 DEF OnFill
    <3>2. CASE OpenSpread(s, o) \/ CloseSpread(s, o)
      BY <2>1, <3>2 DEF OpenSpread, CloseSpread
    <3>3. CASE SellPut(s, o) \/ SellCall(s, o)
      BY <2>1, <2>2, <2>5, <3>3 DEF SellPut, SellCall
    <3>4. CASE BuyBack(s, o) \/ UnhandledFill(s)
      BY <2>1, <2>2, <2>5, <3>4 DEF BuyBack, UnhandledFill
    <3> QED
      BY <3>1, <3>2, <3>3, <3>4 DEF OnWheelOrSpreadFill
  <2> QED
    BY <2>3, <2>4, <2>5
<1> QED
  BY <1>4, <1>5

\* Dispatching an order keeps the ledger true.
LEMMA DispatchLedger == \A o \in OrderIds : Inv /\ DispatchOrderTransition(o) =>
                                            Ledger' /\ CyclesMove(o)
<1> SUFFICES ASSUME NEW o \in OrderIds, Inv, DispatchOrderTransition(o)
             PROVE  Ledger' /\ CyclesMove(o)
  OBVIOUS
<1>1. /\ UNCHANGED <<placed, atBroker, answer, phase, plan, routing>>
      /\ todo' = todo \ {o} /\ dispatching' = None /\ phase = "processing"
      /\ dispatching = o /\ o # None
  BY MaxOrdersAssumption
     DEF DispatchOrderTransition, UnchangedByReconciler, brokerVars, routeVars, OrderIds, None
<1>2. /\ plan = <<>> /\ routing = NotRouting
      /\ cycle[o].status = "none" /\ local[o].status = answer[o]
  BY <1>1 DEF Inv, Ledger, TypeInv, Shape, RoutingInv, AnswerInv
<1>3. Owner(o) \in Strategies /\ row \in [Strategies -> RowType]
  BY <1>1, SubmittedType DEF Inv, TypeInv, TypeOK, Shape, DatabaseTypeOK
<1>4. CyclesMove(o) /\ RowsResolve(o) /\ (cycle'[o].status # "none" => answer[o] = "FILLED")
  <2>1. CASE answer[o] = "FILLED"
    BY <1>2, <1>3, <2>1, OnFillBooks DEF DispatchOrderTransition
  <2>2. CASE answer[o] # "FILLED"
    <3>1. UNCHANGED <<local, cycle>>
      BY <2>2 DEF DispatchOrderTransition, OnCancel
    <3>2. \A t \in Strategies : row'[t].state = "PMCC_LONG_PENDING" =>
                                row[t].state = "PMCC_LONG_PENDING"
      BY <1>3, <2>2, FlaggedPendsNothing
         DEF DispatchOrderTransition, OnCancel, RestoredState, RowType
    <3> QED
      BY <1>2, <3>1, <3>2 DEF CyclesMove, RowsResolve
  <2> QED
    BY <2>1, <2>2
<1>5. Books(o)
  BY <1>1, <1>2, <1>4 DEF Books, CyclesMove, Inv, Ledger, CyclesInv
<1> QED
  BY <1>4, <1>5, BooksKeep DEF RowsResolve

\* Inferring what happened to a row keeps the ledger true: a cycle is opened
\* only for a purchase that has none.
LEMMA DiffOneLedger ==
    ASSUME Inv, NEW s \in Strategies, DiffOne(s)
    PROVE  Ledger' /\ \E o \in OrderIds : CyclesMove(o)
<1>1. /\ UNCHANGED <<placed, atBroker, answer, phase, todo, dispatching, plan, routing>>
      /\ phase = "diffing"
  BY DEF DiffOne, UnchangedByReconciler, brokerVars, routeVars
<1>2. /\ plan = <<>> /\ routing = NotRouting /\ todo = {} /\ dispatching = None
      /\ DatabaseTypeOK /\ row[s].cycle \in Ref
  BY <1>1 DEF Inv, Ledger, TypeInv, TypeOK, Shape, RoutingInv, AnswerInv, DatabaseTypeOK, RowType
<1>3. ASSUME NEW o \in OrderIds, CyclesMove(o), RowsResolve(o),
             cycle'[o].status # "none" => local[o].status = "FILLED"
      PROVE  Ledger' /\ \E q \in OrderIds : CyclesMove(q)
  <2>1. Books(o)
    BY <1>1, <1>2, <1>3 DEF Books, CyclesMove, Inv, Ledger, CyclesInv
  <2> QED
    BY <1>3, <2>1, BooksKeep DEF RowsResolve
<1>4. ASSUME NEW o \in LatestIfFilled(s, "BTO"), row[s].state = "PMCC_LONG_PENDING",
             OpenLong(s, o, "PMCC_LONG_OPEN")
      PROVE  Ledger' /\ \E q \in OrderIds : CyclesMove(q)
  <2>1. /\ o \in Submitted /\ o \in OrderIds /\ Owner(o) = s /\ Type(o) = "BTO"
        /\ local[o].status = "FILLED" /\ o \in LocallyKnown
        /\ \A p \in LocallyKnown : (Owner(p) = s /\ Type(p) = "BTO") => p <= o
    BY <1>4, SubmittedType DEF LatestIfFilled, LatestOf, LocallyKnown, Inv, TypeInv, TypeOK
  <2>2. PICK q \in LocallyKnown : LongPendingFor(s, q)
    BY <1>4 DEF Inv, Ledger, PmccInv
  <2>3. q = o
    <3>1. q <= o /\ o <= q
      BY <2>1, <2>2 DEF LongPendingFor
    <3> QED
      BY <2>1, <2>2, <3>1, SubmittedType
         DEF LocallyKnown, Submitted, Inv, TypeInv, TypeOK, OrderIds
  <2>4. cycle[o].status = "none"
    BY <2>2, <2>3 DEF LongPendingFor
  <2>5. CyclesMove(o)
    BY <1>2, <1>4, <2>1, <2>4, OpenedCycleIsNew, TagKeepsStatus DEF OpenLong, CyclesMove
  <2>6. RowsResolve(o)
    <3>1. \A t \in Strategies :
             row'[t].state = IF t = s THEN "PMCC_LONG_OPEN" ELSE row[t].state
      BY <1>2, <1>4 DEF OpenLong, WithState, DatabaseTypeOK, RowType
    <3> QED
      BY <2>1, <3>1 DEF RowsResolve
  <2> QED
    BY <1>3, <2>1, <2>5, <2>6
<1>5. ASSUME ~ \E o \in LatestIfFilled(s, "BTO") :
                  row[s].state = "PMCC_LONG_PENDING" /\ OpenLong(s, o, "PMCC_LONG_OPEN")
      PROVE  Ledger' /\ \E q \in OrderIds : CyclesMove(q)
  <2>1. UNCHANGED local
    BY <1>5 DEF DiffOne, DiffCspOpen, DiffCcOpen, DiffWheelPending, DiffSpreadOpen,
                DiffSpreadPending, DiffPmccOpen, DiffPmccPending, DiffNoTransition, Stay, Flag,
                Heal, OnCspExpiration, OnAssignment, OnCalledAway
  <2>2. UNCHANGED cycle \/ \E outcome : cycle' = ClosedCycle(row[s].cycle, outcome)
    BY <1>5 DEF DiffOne, DiffCspOpen, DiffCcOpen, DiffWheelPending, DiffSpreadOpen,
                DiffSpreadPending, DiffPmccOpen, DiffPmccPending, DiffNoTransition, Stay, Flag,
                Heal, OnCspExpiration, OnAssignment, OnCalledAway
  <2>3. \A t \in Strategies : row'[t].state = "PMCC_LONG_PENDING" =>
                              row[t].state = "PMCC_LONG_PENDING"
    <3>1. \/ row' = row \/ row' = Flagged({s}) \/ row' = Flattened(s)
          \/ row' = [row EXCEPT ![s].state = "SHARES_HELD", ![s].shares = 1]
          \/ \E state \in States \ {"PMCC_LONG_PENDING"} : row' = WithState(s, state, None)
      BY <1>5 DEF DiffOne, DiffCspOpen, DiffCcOpen, DiffWheelPending, DiffSpreadOpen,
                  DiffSpreadPending, DiffPmccOpen, DiffPmccPending, DiffNoTransition, Stay, Flag,
                  Heal, OnCspExpiration, OnAssignment, OnCalledAway, States
    <3>2. ASSUME NEW state \in States \ {"PMCC_LONG_PENDING"}, row' = WithState(s, state, None)
          PROVE  \A t \in Strategies : row'[t].state = IF t = s THEN state ELSE row[t].state
      BY <1>2, <3>2 DEF WithState, DatabaseTypeOK, RowType
    <3>3. CASE row' = Flattened(s)
               \/ row' = [row EXCEPT ![s].state = "SHARES_HELD", ![s].shares = 1]
      BY <1>2, <3>3 DEF Flattened, DatabaseTypeOK, RowType
    <3> QED
      BY <3>1, <3>2, <3>3, FlaggedPendsNothing
  <2>4. PICK o \in OrderIds : TRUE
    BY MaxOrdersAssumption DEF OrderIds
  <2>5. \A q \in OrderIds : \/ cycle'[q] = cycle[q]
                            \/ cycle[q].status = "open" /\ cycle'[q].status = "ended"
    BY <1>2, <2>2, ClosedCycleWasOpen
  <2>6. CyclesMove(o) /\ RowsResolve(o)
    BY <2>1, <2>3, <2>5 DEF CyclesMove, RowsResolve
  <2>7. cycle'[o].status # "none" => local[o].status = "FILLED"
    BY <2>5 DEF Inv, Ledger, CyclesInv
  <2> QED
    BY <1>3, <2>6, <2>7
<1> QED
  BY <1>4, <1>5

-----------------------------------------------------------------------------
(* Submitting orders. *)

\* Replacing a stale order keeps the ledger true: it was still working locally.
LEMMA ReplaceStaleLedger == \A p : Inv /\ ReplaceStale(p) => Ledger'
<1> SUFFICES ASSUME NEW p, Inv, ReplaceStale(p)
             PROVE  Ledger'
  OBVIOUS
<1> USE DEF Inv, Ledger
<1>1. PICK base \in BaseOrder(p) :
        /\ local[base].status \in LiveStatuses
        /\ local' = [local EXCEPT ![base].status = "CANCELLED"]
        /\ \/ atBroker[base] \in LiveAtBroker
              /\ atBroker' = [atBroker EXCEPT ![base] = CancelAccepted(@)]
           \/ atBroker' = atBroker
  BY DEF ReplaceStale
<1>2. /\ UNCHANGED <<placed, row, cycle, answer, todo, dispatching, phase, plan, routing>>
      /\ routing = NotRouting /\ plan # <<>>
  BY DEF ReplaceStale, AtHead, readVars, routeVars
<1>3. base \in Submitted /\ Submitted \subseteq OrderIds
  BY SubmittedType DEF BaseOrder, EarliestOf, TypeInv, TypeOK
<1>4. BrokerForward
  BY <1>1, <1>3, EndedForward DEF BrokerForward, TypeInv, TypeOK, BrokerTypeOK, LiveAtBroker
<1>5. /\ local'[base].status = "CANCELLED"
      /\ \A q \in OrderIds \ {base} : local'[q] = local[q]
  BY <1>1, <1>3 DEF TypeInv, TypeOK, DatabaseTypeOK, LocalType
<1>6. OrdersInv'
  BY <1>2, <1>3, <1>4, <1>5 DEF OrdersInv, BrokerForward, Submitted
<1>7. CyclesInv'
  BY <1>1, <1>2, <1>3, <1>5 DEF CyclesInv, LiveStatuses
<1>8. AnswerInv' /\ RoutingInv'
  <2>1. todo = {} /\ dispatching = None
    BY <1>2 DEF AnswerInv, RoutingInv, TypeInv, Shape
  <2> QED
    BY <1>2, <2>1 DEF AnswerInv, RoutingInv
<1>9. PmccInv'
  BY <1>1, <1>2, <1>3, <1>5, PmccKept DEF LiveStatuses
<1> QED
  BY <1>6, <1>7, <1>8, <1>9

\* A new order has no effect yet.
LEMMA SubmitLedger == \A p : Inv /\ (Submit(p) \/ SubmitAnswerLost(p)) => Ledger'
<1> SUFFICES ASSUME NEW p, Inv, Submit(p) \/ SubmitAnswerLost(p)
             PROVE  Ledger'
  OBVIOUS
<1> USE DEF Inv, Ledger
<1> DEFINE new == Len(placed) + 1
<1>1. PICK status \in BrokerStatuses \ {"none"} : Lands(p, status)
  BY RouterAssumption DEF Submit, SubmitAnswerLost, BrokerStatuses, LiveAtBroker
<1>2. /\ UNCHANGED <<row, local, cycle, answer, todo, dispatching, phase>>
      /\ routing = NotRouting /\ plan # <<>>
  BY DEF Submit, SubmitAnswerLost, AtHead, dbVars, readVars
<1>3. /\ placed \in Seq(Proposals) /\ Len(placed) \in Nat /\ p \in Proposals
      /\ new \in OrderIds /\ new \notin Submitted
      /\ Submitted \subseteq OrderIds
  BY <1>1, <1>2, MaxOrdersAssumption, SubmittedType
     DEF Lands, Submitted, OrderIds, Submit, SubmitAnswerLost, AtHead, TypeInv, TypeOK,
         BrokerTypeOK, RouteTypeOK
<1>4. /\ placed' = Append(placed, p) /\ Len(placed') = new
      /\ atBroker'[new] = status
      /\ \A q \in OrderIds \ {new} : atBroker'[q] = atBroker[q]
  BY <1>1, <1>3 DEF Lands, TypeInv, TypeOK, BrokerTypeOK
<1>5. Submitted' = Submitted \cup {new} /\ \A q \in Submitted : placed'[q] = placed[q]
  BY <1>3, <1>4 DEF Submitted
<1>6. local[new].status = "none" /\ cycle[new].status = "none"
  BY <1>3 DEF OrdersInv
<1>7. OrdersInv'
  BY <1>2, <1>3, <1>4, <1>5, <1>6 DEF OrdersInv
<1>8. CyclesInv'
  BY <1>2 DEF CyclesInv
<1>9. todo = {} /\ dispatching = None
  BY <1>2 DEF AnswerInv, RoutingInv, TypeInv, Shape
<1>10. AnswerInv'
  BY <1>2, <1>9 DEF AnswerInv
<1>11. RoutingInv'
  <2>1. CASE Submit(p)
    BY <1>2, <1>4, <1>6, <2>1 DEF Submit, RoutingInv, NotRouting
  <2>2. CASE SubmitAnswerLost(p)
    BY <1>2, <2>2 DEF SubmitAnswerLost, RoutingInv
  <2> QED
    BY <2>1, <2>2
<1>12. PmccInv'
  <2>1. LocallyKnown' = LocallyKnown
    BY <1>2, <1>5, <1>6 DEF LocallyKnown
  <2>2. \A q \in LocallyKnown : Owner(q)' = Owner(q) /\ Type(q)' = Type(q)
    BY <1>5 DEF LocallyKnown, Owner, Type
  <2> QED
    BY <1>2, <2>1, <2>2 DEF PmccInv, LongPendingFor
<1> QED
  BY <1>7, <1>8, <1>10, <1>11, <1>12

\* Recording a new order makes it its strategy's latest.
LEMMA PersistOrderLedger == Inv /\ PersistOrder => Ledger'
<1> SUFFICES ASSUME Inv, PersistOrder
             PROVE  Ledger'
  OBVIOUS
<1> USE DEF Inv, Ledger
<1> DEFINE o == routing.order
<1>1. /\ UNCHANGED <<placed, atBroker, row, cycle, answer, todo, dispatching, phase>>
      /\ routing # NotRouting /\ plan # <<>>
  BY DEF PersistOrder, brokerVars, readVars, NotRouting, TypeInv, Shape
<1>2. /\ o = Len(placed) /\ o \in Submitted /\ o \in OrderIds /\ cycle[o].status = "none"
      /\ Submitted \subseteq OrderIds
  BY <1>1, SubmittedType DEF PersistOrder, RoutingInv, TypeInv, TypeOK, Shape
<1>3. /\ local'[o].status = Reported(atBroker[o])
      /\ \A q \in OrderIds \ {o} : local'[q] = local[q]
  BY <1>2 DEF PersistOrder, TypeInv, TypeOK, DatabaseTypeOK, LocalType
<1>4. local'[o].status # "none" /\ (local'[o].status = "FILLED" => atBroker[o] = "filled")
  BY <1>2, <1>3, ReportedMeans DEF OrdersInv, TypeInv, TypeOK, BrokerTypeOK
<1>5. OrdersInv' /\ CyclesInv'
  BY <1>1, <1>2, <1>3, <1>4 DEF OrdersInv, CyclesInv, Submitted
<1>6. todo = {} /\ dispatching = None /\ phase \in {"rolling", "proposing"}
  BY <1>1 DEF AnswerInv, RoutingInv, TypeInv, Shape
<1>7. AnswerInv'
  BY <1>1, <1>6 DEF AnswerInv
<1>8. RoutingInv'
  <2>1. CASE routing' = NotRouting
    BY <1>1, <1>6, <2>1 DEF RoutingInv
  <2>2. CASE routing' = [routing EXCEPT !.next = "upsert"]
    <3>1. routing'.order = o
      BY <2>2 DEF TypeInv, TypeOK, RouteTypeOK
    <3> QED
      BY <1>1, <1>2, <1>4, <1>6, <3>1 DEF RoutingInv
  <2> QED
    BY <2>1, <2>2 DEF PersistOrder, Routed
<1>9. PmccInv'
  <2>1. SUFFICES ASSUME NEW s \in Strategies, row[s].state = "PMCC_LONG_PENDING"
                 PROVE  \E q \in LocallyKnown' : LongPendingFor(s, q)'
    BY <1>1 DEF PmccInv
  <2>2. PICK q \in LocallyKnown : LongPendingFor(s, q)
    BY <2>1 DEF PmccInv
  <2>3. LocallyKnown' = LocallyKnown \cup {o}
    BY <1>1, <1>2, <1>3, <1>4 DEF LocallyKnown, Submitted
  <2>4. \A p \in LocallyKnown : p <= o
    BY <1>2 DEF LocallyKnown, Submitted, TypeInv, TypeOK, BrokerTypeOK
  <2>5. CASE Owner(o) = s /\ Type(o) = "BTO"
    BY <1>1, <1>2, <2>2, <2>3, <2>4, <2>5
       DEF LongPendingFor, Owner, Type, Submitted, OrderIds
  <2>6. CASE ~(Owner(o) = s /\ Type(o) = "BTO")
    BY <1>1, <2>2, <2>3, <2>6 DEF LongPendingFor, Owner, Type
  <2> QED
    BY <2>5, <2>6
<1> QED
  BY <1>5, <1>7, <1>8, <1>9

\* A row is pended for the order just recorded.
LEMMA UpsertLedger == Inv /\ UpsertPositionPending => Ledger'
<1> SUFFICES ASSUME Inv, UpsertPositionPending
             PROVE  Ledger'
  OBVIOUS
<1> USE DEF Inv, Ledger
<1> DEFINE o == routing.order
<1>1. /\ UNCHANGED <<placed, atBroker, local, cycle, answer, todo, dispatching, phase>>
      /\ routing # NotRouting /\ plan # <<>> /\ routing' = NotRouting
  BY DEF UpsertPositionPending, Routed, brokerVars, readVars, NotRouting, TypeInv, Shape
<1>2. /\ o = Len(placed) /\ o \in Submitted /\ o \in LocallyKnown /\ cycle[o].status = "none"
  BY <1>1 DEF UpsertPositionPending, RoutingInv, TypeInv, Shape, LocallyKnown
<1>3. OrdersInv' /\ CyclesInv'
  BY <1>1 DEF OrdersInv, CyclesInv, Submitted
<1>4. AnswerInv' /\ RoutingInv'
  BY <1>1 DEF AnswerInv, RoutingInv
<1>5. PmccInv'
  <2>1. SUFFICES ASSUME NEW s \in Strategies, row'[s].state = "PMCC_LONG_PENDING"
                 PROVE  \E q \in LocallyKnown : LongPendingFor(s, q)
    BY <1>1 DEF PmccInv, LocallyKnown, Submitted, LongPendingFor, Owner, Type
  <2>2. CASE row[s].state = "PMCC_LONG_PENDING"
    BY <2>2 DEF PmccInv
  <2>3. CASE row[s].state # "PMCC_LONG_PENDING"
    <3>1. /\ Owner(o) = s
          /\ PendingStateFor(Kind(s), Type(o), row[s].state) = "PMCC_LONG_PENDING"
      BY <2>1, <2>3 DEF UpsertPositionPending, Owner, Type, TypeInv, TypeOK, DatabaseTypeOK,
                        RowType
    <3>2. Kind(s) = "pmcc" /\ Type(o) = "BTO"
      BY <2>3, <3>1 DEF PendingStateFor
    <3>3. \A p \in LocallyKnown : p <= o
      BY <1>2 DEF LocallyKnown, Submitted, TypeInv, TypeOK, BrokerTypeOK
    <3> QED
      BY <1>2, <3>1, <3>2, <3>3 DEF LongPendingFor
  <2> QED
    BY <2>2, <2>3
<1> QED
  BY <1>3, <1>4, <1>5

-----------------------------------------------------------------------------
(* The theorems. *)

\* The initial ledger is empty.
LEMMA InitLedger == BotInit => Inv
<1> SUFFICES ASSUME BotInit
             PROVE  Ledger
  BY InitTypes DEF Inv
<1>1. Submitted = {}
  BY DEF BotInit, Init, Submitted
<1> QED
  BY <1>1 DEF BotInit, Init, Ledger, OrdersInv, CyclesInv, AnswerInv, RoutingInv, PmccInv

\* Every step keeps the ledger true.
LEMMA StepLedger == Inv /\ [BotNext]_botVars => Inv'
<1> SUFFICES ASSUME Inv, [BotNext]_botVars
             PROVE  Ledger'
  BY StepTypes DEF Inv
<1>1. CASE ReconcilerStep
  BY <1>1, QuietStepsLedger, FetchOrdersLedger, PersistStatusLedger, DispatchLedger, DiffOneLedger
     DEF ReconcilerStep
<1>2. CASE RouterStep
  BY <1>2, QuietStepsLedger, BrokerStepLedger, ReplaceStaleLedger, SubmitLedger,
     PersistOrderLedger, UpsertLedger DEF RouterStep
<1>3. CASE BrokerStep \/ NewDay \/ Crash
  BY <1>3, BrokerStepLedger, QuietStepsLedger
<1>4. CASE UNCHANGED botVars
  BY <1>4 DEF botVars, vars, Inv, Ledger, OrdersInv, CyclesInv, AnswerInv, RoutingInv, PmccInv,
              Submitted, LocallyKnown, LongPendingFor, Owner, Type
<1> QED
  BY <1>1, <1>2, <1>3, <1>4 DEF BotNext, TickStep

\* The ledger is true in every reachable state.
THEOREM LedgerIsTrue == Spec => []Inv
  BY InitLedger, StepLedger, PTL DEF Spec

\* A fill opens at most one cycle, through crashes, replacements and heals.
THEOREM OneCyclePerFill == Spec => []NoDuplicateCycle
<1>1. Inv => NoDuplicateCycle
  BY DEF Inv, Ledger, CyclesInv, NoDuplicateCycle
<1> QED
  BY <1>1, LedgerIsTrue, PTL

\* The FILLED of the orders table is the broker's: no order is believed filled
\* that did not fill, and no cycle was opened without a fill.
NothingIsMadeUp ==
    /\ \A o \in Submitted : local[o].status = "FILLED" => atBroker[o] = "filled"
    /\ \A c \in Submitted : cycle[c].status # "none" => atBroker[c] = "filled"

THEOREM LedgerMatchesBroker == Spec => []NothingIsMadeUp
<1>1. Inv => NothingIsMadeUp
  BY SubmittedType
     DEF Inv, TypeInv, TypeOK, Ledger, OrdersInv, CyclesInv, NothingIsMadeUp
<1> QED
  BY <1>1, LedgerIsTrue, PTL

\* A step never rewrites an ended cycle.
LEMMA EndedStep ==
    ASSUME Inv, [BotNext]_botVars, NEW c \in OrderIds, cycle[c].status = "ended"
    PROVE  cycle'[c] = cycle[c]
<1>1. ASSUME NEW o \in OrderIds, CyclesMove(o)
      PROVE  cycle'[c] = cycle[c]
  BY <1>1 DEF CyclesMove
<1>2. CASE ReconcilerStep
  <2>1. CASE \/ \E o \in OrderIds : DispatchOrderTransition(o)
             \/ \E s \in Strategies : DiffOne(s)
    BY <1>1, <2>1, DispatchLedger, DiffOneLedger
  <2>2. CASE ~(\/ \E o \in OrderIds : DispatchOrderTransition(o)
               \/ \E s \in Strategies : DiffOne(s))
    BY <1>2, <2>2 DEF ReconcilerStep, FetchPositions, FetchOrders, UnknownOrder, PersistStatus,
                      OrdersProcessed, RowsDiffed, AuditCycleParity, dbVars
  <2> QED
    BY <2>1, <2>2
<1>3. CASE RouterStep
  BY <1>3 DEF RouterStep, Propose, ScanRoll, Drop, ReplaceStale, Submit, SubmitFails,
              SubmitAnswerLost, PersistOrder, UpsertPositionPending, SweepStaleOpens, EndTick,
              EndRollScan, dbVars
<1>4. CASE BrokerStep
  BY <1>4 DEF BrokerStep, Fill, PartialFill, EndOrder, Expire, Assign, UnchangedByBroker, dbVars
<1>5. CASE NewDay \/ Crash \/ UNCHANGED botVars
  BY <1>5 DEF NewDay, Crash, botVars, vars, dbVars
<1> QED
  BY <1>2, <1>3, <1>4, <1>5 DEF BotNext, TickStep

\* An ended cycle keeps the outcome it was ended with, for ever.
THEOREM EndedIsFinal == Spec => EndedCyclesAreFinal
<1>1. Inv /\ [BotNext]_botVars =>
        [\A c \in OrderIds : cycle[c].status = "ended" => cycle'[c] = cycle[c]]_botVars
  BY EndedStep
<1> QED
  BY <1>1, LedgerIsTrue, PTL DEF Spec, EndedCyclesAreFinal
=============================================================================
