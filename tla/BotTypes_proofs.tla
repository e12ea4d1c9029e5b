--------------------------- MODULE BotTypes_proofs ---------------------------
(***************************************************************************)
(* Type correctness of the trading bot, for any set of strategies, any     *)
(* number of orders and every environment the constants describe.          *)
(***************************************************************************)
EXTENDS Safety, TLAPS

\* What the types alone do not say: the orders being processed were submitted,
\* an order is dispatched only in the processing loop, and the submission in
\* progress is of a submitted order, for a proposal still in the plan.
Shape ==
    /\ todo \subseteq Submitted
    /\ dispatching # None => dispatching \in todo /\ phase = "processing"
    /\ routing.next # "none" => routing.order \in Submitted
    /\ routing # NotRouting => plan # <<>>

TypeInv == TypeOK /\ Shape

-----------------------------------------------------------------------------
(* Lemmas about the operators the actions are built from. *)

\* Every status of the broker has a translation the database can hold.
LEMMA ReportedType == \A status \in BrokerStatuses : Reported(status) \in LocalStatuses
  BY DEF BrokerStatuses, LiveAtBroker, LocalStatuses, LiveStatuses, Reported

\* An order that ends, or is asked to, has a status of the broker.
LEMMA EndedType ==
    \A status \in BrokerStatuses :
        Ended(status) \in BrokerStatuses /\ CancelAccepted(status) \in BrokerStatuses
  BY DEF BrokerStatuses, LiveAtBroker, Ended, CancelAccepted

\* An opening order puts on known legs.
LEMMA LegsOpenedType == \A kind, type : LegsOpenedBy(kind, type) \subseteq Legs
  BY DEF LegsOpenedBy, Legs

\* The legs alive after a trade are known legs.
LEMMA LegsAfterType ==
    ASSUME legs \in [OrderIds -> SUBSET Legs], NEW o, NEW p
    PROVE  LegsAfter(o, p) \in [OrderIds -> SUBSET Legs]
  BY LegsOpenedType DEF LegsAfter

\* The orders submitted are order ids, and each is a proposal that was routed.
LEMMA SubmittedType ==
    ASSUME BrokerTypeOK
    PROVE  /\ Submitted \subseteq OrderIds
           /\ \A o \in Submitted : placed[o] \in Proposals
           /\ \A o \in Submitted : Owner(o) \in Strategies /\ Type(o) \in OrderTypes
<1>1. Len(placed) \in Nat /\ Len(placed) <= MaxOrders
  BY DEF BrokerTypeOK
<1>2. Submitted \subseteq OrderIds
  BY <1>1, MaxOrdersAssumption DEF Submitted, OrderIds
<1>3. \A o \in Submitted : placed[o] \in Proposals
  BY DEF BrokerTypeOK, Submitted
<1> QED
  BY <1>2, <1>3 DEF Owner, Type, Proposals

\* The state a row takes when an order is placed is a state.
LEMMA PendingStateType ==
    \A kind, type : \A state \in RowStates : PendingStateFor(kind, type, state) \in RowStates
  BY DEF PendingStateFor, RowStates, States

\* The writes to the database give values of the database's types.
LEMMA DatabaseWrites ==
    ASSUME DatabaseTypeOK
    PROVE  /\ \A s \in Strategies, state \in RowStates, c \in Ref :
                 WithState(s, state, c) \in [Strategies -> RowType]
           /\ \A s \in Strategies : Flattened(s) \in [Strategies -> RowType]
           /\ \A flags : Flagged(flags) \in [Strategies -> RowType]
           /\ \A o : OpenedCycle(o) \in [OrderIds -> CycleType]
           /\ \A c \in Ref, outcome \in Outcomes : ClosedCycle(c, outcome) \in [OrderIds -> CycleType]
           /\ \A o \in Ref, c \in Ref : Tagged(o, c) \in [OrderIds -> LocalType]
           /\ \A o \in Ref, c \in Ref : TaggedOnce(o, c) \in [OrderIds -> LocalType]
<1> USE DEF DatabaseTypeOK
<1>1. \A s \in Strategies, state \in RowStates, c \in Ref :
          WithState(s, state, c) \in [Strategies -> RowType]
  BY DEF WithState, RowType
<1>2. \A s \in Strategies : Flattened(s) \in [Strategies -> RowType]
  BY MaxOrdersAssumption DEF Flattened, RowType, RowStates, States, Ref, None
<1>3. \A flags : Flagged(flags) \in [Strategies -> RowType]
  BY DEF Flagged, RowType, RowStates, States
<1>4. \A o : OpenedCycle(o) \in [OrderIds -> CycleType]
  BY DEF OpenedCycle, CycleType
<1>5. \A c \in Ref, outcome \in Outcomes : ClosedCycle(c, outcome) \in [OrderIds -> CycleType]
  BY DEF ClosedCycle, CycleType
<1>6. \A o \in Ref, c \in Ref : Tagged(o, c) \in [OrderIds -> LocalType]
  BY DEF Tagged, LocalType
<1>7. \A o \in Ref, c \in Ref : TaggedOnce(o, c) \in [OrderIds -> LocalType]
  BY <1>6 DEF TaggedOnce
<1> QED
  BY <1>1, <1>2, <1>3, <1>4, <1>5, <1>6, <1>7

-----------------------------------------------------------------------------
(* The broker's steps. *)

\* A step that leaves the bot alone and writes well-typed broker variables.
LEMMA BrokerWrites ==
    ASSUME TypeInv, UnchangedByBroker,
           atBroker' \in [OrderIds -> BrokerStatuses],
           legs' \in [OrderIds -> SUBSET Legs], stock' \in Int
    PROVE  TypeInv'
<1> USE DEF TypeInv, TypeOK, UnchangedByBroker, dbVars, timeVars, readVars, routeVars
<1>1. BrokerTypeOK'
  BY DEF BrokerTypeOK
<1>2. DatabaseTypeOK'
  BY DEF DatabaseTypeOK
<1>3. TickTypeOK'
  BY DEF TickTypeOK
<1>4. RouteTypeOK' /\ Shape'
  BY DEF RouteTypeOK, Shape, Submitted
<1> QED
  BY <1>1, <1>2, <1>3, <1>4

\* Fills, ends, expirations and assignments keep the types.
LEMMA BrokerStepTypes == TypeInv /\ BrokerStep => TypeInv'
<1> SUFFICES ASSUME TypeInv, BrokerStep
             PROVE  TypeInv'
  OBVIOUS
<1>1. PICK o \in OrderIds : \/ Fill(o) \/ PartialFill(o) \/ EndOrder(o) \/ Expire(o)
                            \/ \E leg \in Legs : Assign(o, leg)
  BY DEF BrokerStep
<1>2. /\ atBroker \in [OrderIds -> BrokerStatuses]
      /\ legs \in [OrderIds -> SUBSET Legs] /\ stock \in Int
  BY DEF TypeInv, TypeOK, BrokerTypeOK
<1>3. CASE Fill(o)
  <2>1. atBroker' \in [OrderIds -> BrokerStatuses]
    BY <1>2, <1>3 DEF Fill, BrokerStatuses
  <2>2. legs' \in [OrderIds -> SUBSET Legs]
    BY <1>2, <1>3, LegsAfterType DEF Fill
  <2> QED
    BY <1>2, <1>3, <2>1, <2>2, BrokerWrites DEF Fill
<1>4. CASE PartialFill(o)
  <2>1. atBroker' \in [OrderIds -> BrokerStatuses]
    BY <1>2, <1>4 DEF PartialFill, BrokerStatuses, LiveAtBroker
  <2>2. legs' \in [OrderIds -> SUBSET Legs]
    BY <1>2, <1>4, LegsAfterType DEF PartialFill
  <2> QED
    BY <1>2, <1>4, <2>1, <2>2, BrokerWrites DEF PartialFill
<1>5. CASE EndOrder(o)
  <2>1. atBroker' \in [OrderIds -> BrokerStatuses]
    BY <1>2, <1>5, EndedType DEF EndOrder
  <2> QED
    BY <1>2, <1>5, <2>1, BrokerWrites DEF EndOrder
<1>6. CASE Expire(o)
  <2>1. legs' \in [OrderIds -> SUBSET Legs]
    BY <1>2, <1>6 DEF Expire
  <2> QED
    BY <1>2, <1>6, <2>1, BrokerWrites DEF Expire
<1>7. ASSUME NEW leg \in Legs, Assign(o, leg)
      PROVE  TypeInv'
  <2>1. legs' \in [OrderIds -> SUBSET Legs]
    BY <1>2, <1>7 DEF Assign
  <2>2. stock' \in Int
    BY <1>2, <1>7 DEF Assign
  <2> QED
    BY <1>2, <1>7, <2>1, <2>2, BrokerWrites DEF Assign
<1> QED
  BY <1>1, <1>3, <1>4, <1>5, <1>6, <1>7

\* So does a night.
LEMMA NewDayTypes == TypeInv /\ NewDay => TypeInv'
<1> SUFFICES ASSUME TypeInv, NewDay
             PROVE  TypeInv'
  OBVIOUS
<1> USE DEF TypeInv, TypeOK, NewDay, dbVars, readVars, routeVars
<1>1. BrokerTypeOK'
  BY EndedType DEF BrokerTypeOK
<1>2. DatabaseTypeOK'
  BY DEF DatabaseTypeOK
<1>3. TickTypeOK'
  <2>1. dayStart' \in 1 .. MaxOrders + 1
    BY MaxOrdersAssumption DEF BrokerTypeOK
  <2>2. aged' \subseteq OrderIds
    BY DEF TickTypeOK
  <2> QED
    BY <2>1, <2>2 DEF TickTypeOK
<1>4. RouteTypeOK' /\ Shape'
  BY DEF RouteTypeOK, Shape, Submitted
<1> QED
  BY <1>1, <1>2, <1>3, <1>4

-----------------------------------------------------------------------------
(* The reconciler's writes to the database. *)

\* A handler that flags a row writes a row of the right type.
LEMMA FlagTypes ==
    ASSUME DatabaseTypeOK, NEW flags, row' = Flagged(flags), UNCHANGED <<local, cycle>>
    PROVE  DatabaseTypeOK'
  BY DatabaseWrites DEF DatabaseTypeOK

\* The handler of a fill writes well-typed rows, whatever the order.
LEMMA OnFillTypes ==
    ASSUME DatabaseTypeOK, NEW s \in Strategies, NEW o \in OrderIds, OnFill(s, o)
    PROVE  DatabaseTypeOK'
<1>1. /\ row[s].cycle \in Ref /\ row[s].state \in RowStates
      /\ o \in Ref /\ None \in Ref /\ None # o
  BY MaxOrdersAssumption DEF DatabaseTypeOK, RowType, Ref, OrderIds, None
<1>2. InsertTarget(s) \in Strategies
  BY StrategiesAssumption DEF InsertTarget
<1>3. {"SPREAD_OPEN", "SPREAD_CLOSED", "CSP_OPEN", "CC_OPEN", "IDLE", "SHARES_HELD",
       "PMCC_LONG_OPEN", "PMCC_BOTH_OPEN", "SWING_OPEN"} \subseteq RowStates
  BY DEF RowStates, States
<1>4. ASSUME NEW state \in {"SPREAD_CLOSED", "IDLE"}
      PROVE  [row EXCEPT ![s].state = state, ![s].cycle = None] \in [Strategies -> RowType]
  BY <1>1, <1>3 DEF DatabaseTypeOK, RowType
<1>5. {"closed", "rolled"} \subseteq Outcomes
  BY DEF Outcomes
<1>6. local \in [OrderIds -> LocalType] /\ cycle \in [OrderIds -> CycleType]
  BY DEF DatabaseTypeOK
<1>7. CASE OpenSpread(s, o)
  BY <1>1, <1>3, <1>7, DatabaseWrites DEF OpenSpread, DatabaseTypeOK
<1>8. CASE CloseSpread(s, o)
  BY <1>1, <1>4, <1>5, <1>8, DatabaseWrites DEF CloseSpread, DatabaseTypeOK
<1>9. CASE SellPut(s, o)
  BY <1>1, <1>2, <1>3, <1>6, <1>9, DatabaseWrites DEF SellPut, DatabaseTypeOK
<1>10. CASE SellCall(s, o)
  BY <1>1, <1>2, <1>3, <1>6, <1>10, DatabaseWrites DEF SellCall, DatabaseTypeOK
<1>11. CASE BuyBack(s, o)
  BY <1>1, <1>2, <1>3, <1>5, <1>6, <1>11, DatabaseWrites DEF BuyBack, DatabaseTypeOK
<1>12. CASE UnhandledFill(s)
  BY <1>12, FlagTypes DEF UnhandledFill
<1>13. ASSUME NEW state \in {"PMCC_LONG_OPEN", "SWING_OPEN"}, OpenLong(s, o, state)
       PROVE  DatabaseTypeOK'
  BY <1>1, <1>3, <1>13, DatabaseWrites DEF OpenLong, DatabaseTypeOK
<1>14. ASSUME NEW outcome \in {"closed", "rolled"}, CloseLong(s, o, outcome)
       PROVE  DatabaseTypeOK'
  BY <1>1, <1>4, <1>5, <1>14, DatabaseWrites DEF CloseLong, DatabaseTypeOK
<1>15. CASE OnPmccFill(s, o)
  <2>1. CASE \/ row' = WithState(s, "PMCC_BOTH_OPEN", None)
                /\ local' = Tagged(o, row[s].cycle) /\ UNCHANGED cycle
             \/ row' = WithState(s, "PMCC_LONG_OPEN", None)
                /\ local' = TaggedOnce(o, row[s].cycle) /\ UNCHANGED cycle
    BY <1>1, <1>3, <1>6, <2>1, DatabaseWrites DEF DatabaseTypeOK
  <2> QED
    BY <1>12, <1>13, <1>14, <1>15, <2>1 DEF OnPmccFill
<1>16. CASE OnSwingFill(s, o)
  BY <1>12, <1>13, <1>14, <1>16 DEF OnSwingFill
<1> QED
  BY <1>7, <1>8, <1>9, <1>10, <1>11, <1>12, <1>15, <1>16 DEF OnFill, OnWheelOrSpreadFill

\* The end of an order writes a well-typed row.
LEMMA OnCancelTypes ==
    ASSUME DatabaseTypeOK, NEW s \in Strategies, NEW o, OnCancel(s, o)
    PROVE  DatabaseTypeOK'
<1>1. RestoredState(s, o) \in RowStates
  BY DEF RestoredState, DatabaseTypeOK, RowType, RowStates, States
<1> QED
  BY <1>1 DEF OnCancel, DatabaseTypeOK, RowType

\* The inferences from the position snapshot write well-typed rows.
LEMMA DiffOneTypes ==
    ASSUME BrokerTypeOK, DatabaseTypeOK, NEW s \in Strategies,
           \/ DiffCspOpen(s) \/ DiffCcOpen(s) \/ DiffWheelPending(s)
           \/ DiffSpreadOpen(s) \/ DiffSpreadPending(s)
           \/ DiffPmccOpen(s) \/ DiffPmccPending(s) \/ DiffNoTransition(s)
    PROVE  DatabaseTypeOK'
<1> DEFINE HealTo == {"CSP_OPEN", "IDLE", "CC_OPEN", "SHARES_HELD", "SPREAD_OPEN",
                      "PMCC_LONG_OPEN", "PMCC_BOTH_OPEN"}
<1>1. CASE Stay
  BY <1>1 DEF Stay, DatabaseTypeOK
<1>2. CASE Flag(s)
  BY <1>2, FlagTypes DEF Flag
<1>3. ASSUME NEW state \in HealTo, Heal(s, state)
      PROVE  DatabaseTypeOK'
  <2>1. state \in RowStates /\ None \in Ref
    BY MaxOrdersAssumption DEF RowStates, States, None, Ref
  <2> QED
    BY <1>3, <2>1, DatabaseWrites DEF Heal, DatabaseTypeOK
<1>4. ASSUME NEW outcome \in {"expired", "called_away"}, row' = Flattened(s),
             cycle' = ClosedCycle(row[s].cycle, outcome), UNCHANGED local
      PROVE  DatabaseTypeOK'
  <2>1. outcome \in Outcomes /\ row[s].cycle \in Ref
    BY DEF Outcomes, DatabaseTypeOK, RowType
  <2> QED
    BY <1>4, <2>1, DatabaseWrites DEF DatabaseTypeOK
<1>5. CASE OnAssignment(s)
  <2>1. "SHARES_HELD" \in RowStates /\ 1 \in 0 .. 1
    BY DEF RowStates, States
  <2>2. [row EXCEPT ![s].state = "SHARES_HELD", ![s].shares = 1] \in [Strategies -> RowType]
    BY <2>1 DEF DatabaseTypeOK, RowType
  <2> QED
    BY <1>5, <2>2 DEF OnAssignment, DatabaseTypeOK
<1>6. ASSUME NEW o \in OrderIds, OpenLong(s, o, "PMCC_LONG_OPEN")
      PROVE  DatabaseTypeOK'
  <2>1. "PMCC_LONG_OPEN" \in RowStates /\ o \in Ref
    BY MaxOrdersAssumption DEF RowStates, States, Ref, OrderIds
  <2> QED
    BY <1>6, <2>1, DatabaseWrites DEF OpenLong, DatabaseTypeOK
<1>7. CASE DiffCspOpen(s)
  BY <1>1, <1>2, <1>4, <1>5, <1>7 DEF DiffCspOpen, OnCspExpiration
<1>8. CASE DiffCcOpen(s)
  BY <1>1, <1>2, <1>3, <1>4, <1>8, FlagTypes DEF DiffCcOpen, OnCalledAway
<1>9. CASE DiffWheelPending(s)
  BY <1>1, <1>3, <1>9 DEF DiffWheelPending
<1>10. CASE DiffSpreadOpen(s)
  BY <1>1, <1>2, <1>4, <1>10 DEF DiffSpreadOpen
<1>11. CASE DiffSpreadPending(s)
  BY <1>1, <1>2, <1>3, <1>11 DEF DiffSpreadPending
<1>12. CASE DiffPmccOpen(s)
  BY <1>1, <1>2, <1>3, <1>12 DEF DiffPmccOpen
<1>13. CASE DiffPmccPending(s)
  <2>1. \A o \in LatestIfFilled(s, "BTO") : o \in OrderIds
    BY SubmittedType DEF LatestIfFilled, LatestOf, LocallyKnown
  <2> QED
    BY <1>1, <1>3, <1>6, <1>13, <2>1 DEF DiffPmccPending
<1>14. CASE DiffNoTransition(s)
  BY <1>1, <1>14 DEF DiffNoTransition
<1> QED
  BY <1>7, <1>8, <1>9, <1>10, <1>11, <1>12, <1>13, <1>14

-----------------------------------------------------------------------------
(* The reconciler's steps. *)

\* A step of the reconciler that keeps the broker, the plan and what it read.
LEMMA ReconcilerWrites ==
    ASSUME TypeInv, UnchangedByReconciler, DatabaseTypeOK',
           phase' \in Phases, todoRows' \subseteq Strategies,
           todo' \subseteq todo, dispatching' \in Ref, wasStatus' \in LocalStatuses,
           dispatching' # None => dispatching' \in todo' /\ phase' = "processing"
    PROVE  TypeInv'
<1> USE DEF TypeInv, TypeOK, UnchangedByReconciler, brokerVars, timeVars, routeVars
<1>1. BrokerTypeOK' /\ RouteTypeOK'
  BY DEF BrokerTypeOK, RouteTypeOK
<1>2. TickTypeOK'
  BY DEF TickTypeOK
<1>3. Shape'
  BY DEF Shape, Submitted
<1> QED
  BY <1>1, <1>2, <1>3

\* Reading the broker.
LEMMA FetchTypes == TypeInv /\ (FetchPositions \/ FetchOrders) => TypeInv'
<1> USE DEF brokerVars, dbVars, timeVars, routeVars
<1>1. ASSUME TypeInv, FetchPositions
      PROVE  TypeInv'
  <2> USE <1>1 DEF FetchPositions, TypeInv, TypeOK
  <2>1. snapshot' \in [put : BOOLEAN, call : BOOLEAN, long : BOOLEAN, shares : Int]
    BY DEF PositionsNow, BrokerTypeOK
  <2>2. TickTypeOK'
    BY <2>1 DEF TickTypeOK, Phases
  <2>3. BrokerTypeOK' /\ DatabaseTypeOK' /\ RouteTypeOK'
    BY DEF BrokerTypeOK, DatabaseTypeOK, RouteTypeOK
  <2>4. Shape'
    BY DEF Shape, Submitted
  <2> QED
    BY <2>2, <2>3, <2>4
<1>2. ASSUME TypeInv, FetchOrders
      PROVE  TypeInv'
  <2> USE <1>2 DEF FetchOrders, TypeInv, TypeOK
  <2>1. answer' \in [OrderIds -> LocalStatuses]
    BY ReportedType DEF BrokerTypeOK, LocalStatuses
  <2>2. OrdersSince \subseteq Submitted /\ Submitted \subseteq OrderIds
    BY SubmittedType DEF OrdersSince
  <2>3. cursor' \in 1 .. MaxOrders + 1
    BY MaxOrdersAssumption DEF BrokerTypeOK
  <2>4. TickTypeOK'
    BY <2>1, <2>2, <2>3 DEF TickTypeOK, Phases
  <2>5. BrokerTypeOK' /\ DatabaseTypeOK' /\ RouteTypeOK'
    BY DEF BrokerTypeOK, DatabaseTypeOK, RouteTypeOK
  <2>6. Shape'
    BY <2>2 DEF Shape, Submitted
  <2> QED
    BY <2>4, <2>5, <2>6
<1> QED
  BY <1>1, <1>2

\* Processing one order of the answer.
LEMMA ProcessTypes ==
    ASSUME TypeInv, NEW o \in OrderIds,
           UnknownOrder(o) \/ PersistStatus(o) \/ DispatchOrderTransition(o)
    PROVE  TypeInv'
<1>1. /\ o \in Ref /\ None \in Ref /\ DefaultStrategy \in Strategies
      /\ wasStatus \in LocalStatuses /\ phase \in Phases /\ dispatching \in Ref
      /\ todoRows \subseteq Strategies /\ answer[o] \in LocalStatuses
      /\ "none" \in LocalStatuses
  BY MaxOrdersAssumption, StrategiesAssumption
     DEF Ref, OrderIds, None, TypeInv, TypeOK, TickTypeOK, RouteTypeOK, LocalStatuses
<1>2. DatabaseTypeOK
  BY DEF TypeInv, TypeOK
<1>3. CASE UnknownOrder(o)
  <2>1. DatabaseTypeOK'
    BY <1>2, <1>3, FlagTypes DEF UnknownOrder, FlagSymbol
  <2> QED
    BY <1>1, <1>3, <2>1, ReconcilerWrites DEF UnknownOrder
<1>4. CASE PersistStatus(o)
  <2>1. local[o].status \in LocalStatuses
    BY <1>2 DEF DatabaseTypeOK, LocalType
  <2>2. DatabaseTypeOK'
    BY <1>1, <1>2, <1>4 DEF PersistStatus, DatabaseTypeOK, LocalType
  <2>3. CASE NeedsDispatch(o)
    BY <1>1, <1>4, <2>1, <2>2, <2>3, ReconcilerWrites DEF PersistStatus
  <2>4. CASE ~NeedsDispatch(o)
    BY <1>1, <1>4, <2>2, <2>4, ReconcilerWrites DEF PersistStatus
  <2> QED
    BY <2>3, <2>4
<1>5. CASE DispatchOrderTransition(o)
  <2>1. o # None
    BY MaxOrdersAssumption DEF OrderIds, None
  <2>2. Owner(o) \in Strategies
    BY <1>5, <2>1, SubmittedType DEF DispatchOrderTransition, TypeInv, TypeOK, Shape
  <2>3. DatabaseTypeOK'
    BY <1>2, <1>5, <2>2, OnFillTypes, OnCancelTypes, FlagTypes DEF DispatchOrderTransition
  <2> QED
    BY <1>1, <1>5, <2>3, ReconcilerWrites DEF DispatchOrderTransition
<1> QED
  BY <1>3, <1>4, <1>5

\* From the orders to the rows, to the audit, to the roll scan.
LEMMA PhaseTypes ==
    ASSUME TypeInv, OrdersProcessed \/ RowsDiffed \/ AuditCycleParity
    PROVE  TypeInv'
<1> USE DEF TypeInv, TypeOK, brokerVars, dbVars, timeVars, routeVars
<1>1. DatabaseTypeOK'
  BY DatabaseWrites DEF OrdersProcessed, RowsDiffed, AuditCycleParity, DatabaseTypeOK
<1>2. CASE OrdersProcessed
  <2>1. TickTypeOK'
    BY <1>2 DEF OrdersProcessed, TickTypeOK, Phases, NoAnswer, LocalStatuses
  <2>2. BrokerTypeOK' /\ RouteTypeOK'
    BY <1>2 DEF OrdersProcessed, BrokerTypeOK, RouteTypeOK
  <2>3. Shape'
    BY <1>2 DEF OrdersProcessed, Shape, Submitted
  <2> QED
    BY <1>1, <2>1, <2>2, <2>3
<1>3. CASE RowsDiffed
  <2>1. dispatching \in Ref /\ wasStatus \in LocalStatuses /\ todoRows \subseteq Strategies
    BY DEF TickTypeOK, RouteTypeOK
  <2>2. dispatching = None
    BY <1>3 DEF RowsDiffed, Shape
  <2> QED
    BY <1>1, <1>3, <2>1, <2>2, ReconcilerWrites DEF RowsDiffed, Phases
<1>4. CASE AuditCycleParity
  <2>1. TickTypeOK'
    BY <1>4 DEF AuditCycleParity, TickTypeOK, Phases, NoSnapshot
  <2>2. BrokerTypeOK' /\ RouteTypeOK'
    BY <1>4 DEF AuditCycleParity, BrokerTypeOK, RouteTypeOK
  <2>3. Shape'
    BY <1>4 DEF AuditCycleParity, Shape, Submitted
  <2> QED
    BY <1>1, <2>1, <2>2, <2>3
<1> QED
  BY <1>2, <1>3, <1>4

\* The whole reconcile pass keeps the types.
LEMMA ReconcilerStepTypes == TypeInv /\ ReconcilerStep => TypeInv'
<1> SUFFICES ASSUME TypeInv, ReconcilerStep
             PROVE  TypeInv'
  OBVIOUS
<1>1. ASSUME NEW s \in Strategies, DiffOne(s)
      PROVE  TypeInv'
  <2>1. DatabaseTypeOK'
    BY <1>1, DiffOneTypes DEF DiffOne, TypeInv, TypeOK
  <2>2. dispatching = None
    BY <1>1 DEF DiffOne, TypeInv, Shape
  <2>3. /\ phase \in Phases /\ dispatching \in Ref /\ wasStatus \in LocalStatuses
        /\ todoRows \subseteq Strategies
    BY DEF TypeInv, TypeOK, TickTypeOK, RouteTypeOK
  <2> QED
    BY <1>1, <2>1, <2>2, <2>3, ReconcilerWrites DEF DiffOne
<1> QED
  BY <1>1, FetchTypes, ProcessTypes, PhaseTypes DEF ReconcilerStep

-----------------------------------------------------------------------------
(* What is proposed. *)

\* A closing order of a type exists for every opening type.
LEMMA ClosingTypeType == \A type : ClosingTypeOf(type) \in OrderTypes
  BY DEF ClosingTypeOf, OrderTypes, ClosingTypes

\* The latest filled orders of a cycle are orders submitted.
LEMMA LatestFilledType == \A c, types : LatestFilled(c, types) \subseteq Submitted
  BY DEF LatestFilled, LatestOf

\* Every strategy's proposals are proposals, and its own.
LEMMA ProposalsType ==
    ASSUME BrokerTypeOK, NEW s \in Strategies
    PROVE  \A p \in Closes(s) \cup Opens(s) : p \in Proposals /\ p.strategy = s
<1>1. Submitted \subseteq Ref /\ None \in Ref
  BY SubmittedType, MaxOrdersAssumption DEF Ref, OrderIds, None
<1>2. ASSUME NEW type \in OrderTypes, NEW target \in Ref
      PROVE  Proposal(s, type, target) \in Proposals /\ Proposal(s, type, target).strategy = s
  BY DEF Proposal, Proposals
<1>3. \A types : \A p \in CloseOf(s, types) : p \in Proposals /\ p.strategy = s
  BY <1>1, <1>2, ClosingTypeType, LatestFilledType DEF CloseOf
<1>4. \A p \in Closes(s) : p \in Proposals /\ p.strategy = s
  BY <1>3 DEF Closes, WheelCloses, PmccCloses, SwingCloses, SpreadCloses
<1>5. {"STO_PUT", "STO_CALL", "BTO", "MLEG_OPEN"} \subseteq OrderTypes
  BY DEF OrderTypes, OpeningTypes
<1>6. \A p \in Opens(s) : p \in Proposals /\ p.strategy = s
  BY <1>1, <1>2, <1>5 DEF Opens, WheelOpens, PmccOpens, SwingOpens, SpreadOpens
<1> QED
  BY <1>4, <1>6

\* At most one of a set of proposals is a plan.
LEMMA SequencesOverType ==
    ASSUME NEW S, S \subseteq Proposals, NEW seq \in SequencesOver(S)
    PROVE  seq \in Seq(Proposals)
<1>1. CASE seq = <<>>
  BY <1>1
<1>2. ASSUME NEW p \in S, seq = <<p>>
      PROVE  seq \in Seq(Proposals)
  <2>1. p \in Proposals
    OBVIOUS
  <2> QED
    BY <1>2, <2>1
<1> QED
  BY <1>1, <1>2 DEF SequencesOver

-----------------------------------------------------------------------------
(* The router's steps. *)

\* A step of the router that only moves the tick and its plan.
LEMMA RouterMoves ==
    ASSUME TypeInv, UNCHANGED <<brokerVars, dbVars, timeVars, cursor, readVars>>,
           phase' = phase \/ (phase' \in Phases /\ phase # "processing"), RouteTypeOK',
           routing' = NotRouting \/ UNCHANGED routeVars
    PROVE  TypeInv'
<1> USE DEF TypeInv, TypeOK, brokerVars, dbVars, timeVars, readVars, routeVars
<1>1. BrokerTypeOK' /\ DatabaseTypeOK'
  BY DEF BrokerTypeOK, DatabaseTypeOK
<1>2. TickTypeOK'
  BY DEF TickTypeOK
<1>3. Shape'
  BY DEF Shape, Submitted, NotRouting
<1> QED
  BY <1>1, <1>2, <1>3

\* An order that reaches the broker keeps the broker's types.
LEMMA LandsTypes ==
    ASSUME BrokerTypeOK, NEW p \in Proposals, NEW status \in BrokerStatuses, Lands(p, status)
    PROVE  /\ BrokerTypeOK'
           /\ Submitted \subseteq Submitted' /\ Len(placed) + 1 \in Submitted'
           /\ Len(placed) + 1 \in Ref
<1> USE DEF BrokerTypeOK
<1>1. Len(placed) \in Nat /\ Len(placed) < MaxOrders
  BY DEF Lands
<1>2. placed' \in Seq(Proposals) /\ Len(placed') = Len(placed) + 1
  BY DEF Lands
<1>3. atBroker' \in [OrderIds -> BrokerStatuses]
  BY DEF Lands
<1>4. legs' \in [OrderIds -> SUBSET Legs]
  BY LegsAfterType DEF Lands
<1>5. stock' \in Int /\ Len(placed') <= MaxOrders
  BY <1>1, <1>2, MaxOrdersAssumption DEF Lands
<1> QED
  BY <1>1, <1>2, <1>3, <1>4, <1>5, MaxOrdersAssumption DEF Submitted, Ref

\* Proposing and scanning for rolls make plans of proposals.
LEMMA ProposeTypes ==
    ASSUME TypeInv, NEW s \in Strategies, Propose(s) \/ ScanRoll(s)
    PROVE  TypeInv'
<1>1. BrokerTypeOK /\ DatabaseTypeOK /\ RouteTypeOK
  BY DEF TypeInv, TypeOK
<1>2. CASE Propose(s)
  <2>1. PICK c \in SequencesOver(Closes(s)), o \in SequencesOver(Opens(s)) : plan' = c \o o
    BY <1>2 DEF Propose
  <2>2. c \in Seq(Proposals) /\ o \in Seq(Proposals)
    <3>1. Closes(s) \subseteq Proposals /\ Opens(s) \subseteq Proposals
      BY <1>1, ProposalsType
    <3> QED
      BY <3>1, SequencesOverType
  <2>3. RouteTypeOK'
    BY <1>1, <1>2, <2>1, <2>2 DEF Propose, RouteTypeOK
  <2> QED
    BY <1>2, <2>3, RouterMoves DEF Propose
<1>3. CASE ScanRoll(s)
  <2>1. CASE plan' = <<>> /\ UNCHANGED row
    <3>1. RouteTypeOK'
      BY <1>1, <1>3, <2>1 DEF ScanRoll, RouteTypeOK
    <3> QED
      BY <1>3, <2>1, <3>1, RouterMoves DEF ScanRoll, dbVars
  <2>2. CASE ~(plan' = <<>> /\ UNCHANGED row)
    <3>1. PICK short \in RollShort(s), action \in RollActions :
            LET close == Proposal(s, ClosingTypeOf(Type(short)), short)
                open  == Proposal(s, Type(short), None)
            IN  /\ row' = IF action = "HALT" THEN Flagged({s}) ELSE row
                /\ plan' = CASE action = "HALT" -> <<>>
                             [] action = "ROLL" -> <<close, open>>
                             [] OTHER           -> <<close>>
      BY <1>3, <2>2 DEF ScanRoll
    <3>2. short \in Submitted
      BY <3>1, LatestFilledType DEF RollShort
    <3>3. /\ Proposal(s, ClosingTypeOf(Type(short)), short) \in Proposals
          /\ Proposal(s, Type(short), None) \in Proposals
      BY <1>1, <3>2, SubmittedType, ClosingTypeType, MaxOrdersAssumption
         DEF Proposal, Proposals, Ref, OrderIds, None
    <3>4. RouteTypeOK'
      BY <1>1, <1>3, <3>1, <3>3 DEF ScanRoll, RouteTypeOK
    <3>5. DatabaseTypeOK'
      BY <1>1, <1>3, <3>1, DatabaseWrites DEF ScanRoll, DatabaseTypeOK
    <3>6. BrokerTypeOK' /\ TickTypeOK'
      BY <1>3 DEF ScanRoll, TypeInv, TypeOK, BrokerTypeOK, TickTypeOK, brokerVars, timeVars,
                  readVars
    <3>7. Shape'
      BY <1>3 DEF ScanRoll, TypeInv, Shape, Submitted, brokerVars, readVars
    <3> QED
      BY <3>4, <3>5, <3>6, <3>7 DEF TypeInv, TypeOK
  <2> QED
    BY <2>1, <2>2
<1> QED
  BY <1>2, <1>3

\* Dropping, replacing and submitting the proposal at the head of the plan.
LEMMA RoutingTypes ==
    ASSUME TypeInv, NEW p,
           Drop(p) \/ ReplaceStale(p) \/ Submit(p) \/ SubmitFails(p) \/ SubmitAnswerLost(p)
    PROVE  TypeInv'
<1>1. BrokerTypeOK /\ DatabaseTypeOK /\ TickTypeOK /\ RouteTypeOK /\ Shape
  BY DEF TypeInv, TypeOK
<1>2. /\ p \in Proposals /\ Tail(plan) \in Seq(Proposals) /\ <<>> \in Seq(Proposals)
  BY <1>1 DEF Drop, ReplaceStale, Submit, SubmitFails, SubmitAnswerLost, AtHead, RouteTypeOK
<1>3. ASSUME plan' \in Seq(Proposals), UNCHANGED todoRows
      PROVE  UNCHANGED routing => RouteTypeOK'
  BY <1>1, <1>3 DEF RouteTypeOK
<1>4. CASE Drop(p) \/ SubmitFails(p)
  <2>1. plan' \in Seq(Proposals) /\ UNCHANGED <<todoRows, routing>> /\ routing = NotRouting
    BY <1>2, <1>4 DEF Drop, SubmitFails, AfterFailure, AtHead
  <2> QED
    BY <1>3, <1>4, <2>1, RouterMoves DEF Drop, SubmitFails
<1>5. CASE ReplaceStale(p)
  <2>1. PICK base \in BaseOrder(p) :
          /\ atBroker' \in {[atBroker EXCEPT ![base] = CancelAccepted(@)], atBroker}
          /\ local' = [local EXCEPT ![base].status = "CANCELLED"]
    BY <1>5 DEF ReplaceStale
  <2>2. BrokerTypeOK'
    BY <1>1, <1>5, <2>1, EndedType DEF ReplaceStale, BrokerTypeOK
  <2>3. DatabaseTypeOK'
    <3>1. "CANCELLED" \in LocalStatuses
      BY DEF LocalStatuses
    <3>2. local' \in [OrderIds -> LocalType]
      BY <1>1, <2>1, <3>1 DEF DatabaseTypeOK, LocalType
    <3> QED
      BY <1>1, <1>5, <3>2 DEF ReplaceStale, DatabaseTypeOK
  <2>4. TickTypeOK' /\ RouteTypeOK'
    BY <1>1, <1>5 DEF ReplaceStale, TickTypeOK, RouteTypeOK, timeVars, readVars, routeVars
  <2>5. Shape'
    BY <1>1, <1>5 DEF ReplaceStale, Shape, Submitted, readVars, routeVars
  <2> QED
    BY <2>2, <2>3, <2>4, <2>5 DEF TypeInv, TypeOK
<1>6. CASE Submit(p) \/ SubmitAnswerLost(p)
  <2>1. PICK status \in BrokerStatuses : Lands(p, status)
    BY <1>6, RouterAssumption DEF Submit, SubmitAnswerLost, BrokerStatuses, LiveAtBroker
  <2>2. /\ BrokerTypeOK' /\ Submitted \subseteq Submitted'
        /\ Len(placed) + 1 \in Submitted' /\ Len(placed) + 1 \in Ref
    BY <1>1, <1>2, <2>1, LandsTypes
  <2>3. DatabaseTypeOK' /\ TickTypeOK'
    BY <1>1, <1>6 DEF Submit, SubmitAnswerLost, DatabaseTypeOK, TickTypeOK, dbVars, timeVars,
                      readVars
  <2>4. RouteTypeOK'
    <3>1. plan' \in Seq(Proposals) /\ todoRows' = todoRows
      BY <1>1, <1>2, <1>6 DEF Submit, SubmitAnswerLost, AfterFailure, RouteTypeOK
    <3>2. routing' \in [order : Ref, next : {"none", "persist", "upsert"}]
      BY <1>1, <1>6, <2>2 DEF Submit, SubmitAnswerLost, RouteTypeOK
    <3> QED
      BY <1>1, <3>1, <3>2 DEF RouteTypeOK
  <2>5. Shape'
    <3>1. /\ todo' = todo /\ dispatching' = dispatching /\ phase' = phase
          /\ routing = NotRouting /\ plan # <<>>
      BY <1>6 DEF Submit, SubmitAnswerLost, AtHead, readVars
    <3>2. CASE Submit(p)
      BY <1>1, <2>2, <3>1, <3>2 DEF Submit, Shape
    <3>3. CASE SubmitAnswerLost(p)
      BY <1>1, <2>2, <3>1, <3>3 DEF SubmitAnswerLost, Shape
    <3> QED
      BY <1>6, <3>2, <3>3
  <2> QED
    BY <2>2, <2>3, <2>4, <2>5 DEF TypeInv, TypeOK
<1> QED
  BY <1>4, <1>5, <1>6

\* The database writes of a submission.
LEMMA SubmissionTypes ==
    ASSUME TypeInv, PersistOrder \/ UpsertPositionPending
    PROVE  TypeInv'
<1>1. BrokerTypeOK /\ DatabaseTypeOK /\ TickTypeOK /\ RouteTypeOK /\ Shape
  BY DEF TypeInv, TypeOK
<1>2. routing.order \in Submitted /\ routing.order \in OrderIds
  BY <1>1, SubmittedType DEF PersistOrder, UpsertPositionPending, Shape
<1>3. plan' \in Seq(Proposals)
  <2>1. plan # <<>>
    BY <1>1 DEF PersistOrder, UpsertPositionPending, Shape, NotRouting
  <2>2. plan \in Seq(Proposals) /\ Tail(plan) \in Seq(Proposals)
    BY <1>1, <2>1 DEF RouteTypeOK
  <2>3. plan' = plan \/ plan' = Tail(plan)
    BY DEF PersistOrder, UpsertPositionPending, Routed
  <2> QED
    BY <2>2, <2>3
<1>4. routing' \in [order : Ref, next : {"none", "persist", "upsert"}]
  BY <1>1, MaxOrdersAssumption
     DEF PersistOrder, UpsertPositionPending, Routed, NotRouting, RouteTypeOK, Ref, None
<1>5. RouteTypeOK'
  BY <1>1, <1>3, <1>4 DEF PersistOrder, UpsertPositionPending, RouteTypeOK
<1>6. BrokerTypeOK' /\ TickTypeOK'
  BY <1>1 DEF PersistOrder, UpsertPositionPending, BrokerTypeOK, TickTypeOK, brokerVars,
              timeVars, readVars
<1>7. DatabaseTypeOK'
  <2>1. CASE PersistOrder
    <3>1. None \in Ref /\ Reported(atBroker[routing.order]) \in LocalStatuses
      BY <1>1, <1>2, ReportedType, MaxOrdersAssumption DEF BrokerTypeOK, None, Ref
    <3>2. [status |-> Reported(atBroker[routing.order]), cycle |-> None] \in LocalType
      BY <3>1 DEF LocalType
    <3> QED
      BY <1>1, <2>1, <3>2 DEF PersistOrder, DatabaseTypeOK
  <2>2. CASE UpsertPositionPending
    <3>1. ASSUME NEW s \in Strategies, NEW kind, NEW type
          PROVE  PendingStateFor(kind, type, row[s].state) \in RowStates
      BY <1>1, PendingStateType DEF DatabaseTypeOK, RowType
    <3> QED
      BY <1>1, <2>2, <3>1 DEF UpsertPositionPending, DatabaseTypeOK, RowType
  <2> QED
    BY <2>1, <2>2
<1>8. Shape'
  <2>1. UNCHANGED <<placed, phase, todo, dispatching>>
    BY DEF PersistOrder, UpsertPositionPending, brokerVars, readVars
  <2>2. \/ routing' = NotRouting
        \/ routing' = [routing EXCEPT !.next = "upsert"] /\ plan' = plan
    BY DEF PersistOrder, UpsertPositionPending, Routed
  <2>3. routing # NotRouting
    BY DEF PersistOrder, UpsertPositionPending, NotRouting
  <2>4. CASE routing' = NotRouting
    BY <1>1, <2>1, <2>4 DEF Shape, Submitted, NotRouting
  <2>5. CASE routing' = [routing EXCEPT !.next = "upsert"] /\ plan' = plan
    <3>1. routing'.order = routing.order
      BY <1>1, <2>5 DEF RouteTypeOK
    <3> QED
      BY <1>1, <1>2, <2>1, <2>3, <2>5, <3>1 DEF Shape, Submitted
  <2> QED
    BY <2>2, <2>4, <2>5
<1> QED
  BY <1>5, <1>6, <1>7, <1>8 DEF TypeInv, TypeOK

\* The sweep, and the ends of the router's phases.
LEMMA SweepTypes ==
    ASSUME TypeInv, SweepStaleOpens \/ EndTick \/ EndRollScan
    PROVE  TypeInv'
<1>1. BrokerTypeOK /\ DatabaseTypeOK /\ TickTypeOK /\ RouteTypeOK /\ Shape
  BY DEF TypeInv, TypeOK
<1>2. CASE EndTick \/ EndRollScan
  <2>1. RouteTypeOK'
    BY <1>1, <1>2 DEF EndTick, EndRollScan, RouteTypeOK, routeVars
  <2> QED
    BY <1>2, <2>1, RouterMoves DEF EndTick, EndRollScan, Phases, routeVars
<1>3. CASE SweepStaleOpens
  <2>1. BrokerTypeOK'
    BY <1>1, <1>3, EndedType DEF SweepStaleOpens, BrokerTypeOK
  <2>2. DatabaseTypeOK' /\ TickTypeOK'
    BY <1>1, <1>3 DEF SweepStaleOpens, DatabaseTypeOK, TickTypeOK, Phases, dbVars, timeVars,
                      readVars
  <2>3. RouteTypeOK'
    BY <1>1, <1>3, RouterAssumption DEF SweepStaleOpens, RouteTypeOK, routeVars
  <2>4. Shape'
    BY <1>1, <1>3 DEF SweepStaleOpens, Shape, Submitted, readVars, routeVars
  <2> QED
    BY <2>1, <2>2, <2>3, <2>4 DEF TypeInv, TypeOK
<1> QED
  BY <1>2, <1>3

-----------------------------------------------------------------------------
\* A crash leaves the database and the broker as they are and forgets the rest.
LEMMA CrashTypes == TypeInv /\ Crash => TypeInv'
<1> SUFFICES ASSUME TypeInv, Crash
             PROVE  TypeInv'
  OBVIOUS
<1> USE DEF TypeInv, TypeOK, Crash, brokerVars, dbVars, timeVars
<1>1. BrokerTypeOK' /\ DatabaseTypeOK'
  BY DEF BrokerTypeOK, DatabaseTypeOK
<1>2. TickTypeOK'
  BY MaxOrdersAssumption
     DEF TickTypeOK, Phases, NoSnapshot, NoAnswer, Ref, None, LocalStatuses
<1>3. RouteTypeOK' /\ Shape'
  BY MaxOrdersAssumption DEF RouteTypeOK, Shape, NotRouting, Ref, None
<1> QED
  BY <1>1, <1>2, <1>3

\* The initial state: no row, no order, no position.
LEMMA InitTypes == BotInit => TypeInv
<1> SUFFICES ASSUME Init
             PROVE  TypeInv
  BY DEF BotInit
<1> USE DEF Init
<1>1. None \in Ref /\ 0 \in 0 .. 1 /\ 1 \in 1 .. MaxOrders + 1
  BY MaxOrdersAssumption DEF None, Ref
<1>2. BrokerTypeOK
  BY MaxOrdersAssumption DEF BrokerTypeOK, BrokerStatuses
<1>3. DatabaseTypeOK
  BY <1>1 DEF DatabaseTypeOK, RowType, RowStates, LocalType, LocalStatuses, CycleType, Outcomes
<1>4. TickTypeOK
  BY <1>1 DEF TickTypeOK, Phases, NoSnapshot, NoAnswer, LocalStatuses
<1>5. RouteTypeOK /\ Shape
  BY <1>1 DEF RouteTypeOK, Shape, NotRouting
<1> QED
  BY <1>2, <1>3, <1>4, <1>5 DEF TypeInv, TypeOK

\* Every step of the bot, the broker and the calendar keeps the types.
LEMMA StepTypes == TypeInv /\ [BotNext]_botVars => TypeInv'
<1> SUFFICES ASSUME TypeInv, [BotNext]_botVars
             PROVE  TypeInv'
  OBVIOUS
<1>1. CASE RouterStep
  BY <1>1, ProposeTypes, RoutingTypes, SubmissionTypes, SweepTypes DEF RouterStep
<1>2. CASE UNCHANGED botVars
  BY <1>2 DEF botVars, vars, TypeInv, TypeOK, BrokerTypeOK, DatabaseTypeOK, TickTypeOK,
              RouteTypeOK, Shape, Submitted
<1> QED
  BY <1>1, <1>2, ReconcilerStepTypes, BrokerStepTypes, NewDayTypes, CrashTypes
     DEF BotNext, TickStep

\* What is true of the shape of the variables in every reachable state.
THEOREM BotTypes == Spec => []TypeInv
  BY InitTypes, StepTypes, PTL DEF Spec

\* Every variable has its type in every reachable state, for any strategies and
\* kinds, any number of orders and any environment the constants describe.
THEOREM BotTypeCorrect == Spec => []TypeOK
<1>1. TypeInv => TypeOK
  BY DEF TypeInv
<1> QED
  BY <1>1, BotTypes, PTL
=============================================================================
