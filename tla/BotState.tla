------------------------------ MODULE BotState ------------------------------
(***************************************************************************)
(* The state shared by the broker, the order router and the reconciler,    *)
(* for ONE underlying symbol on which several strategies may run.          *)
(*                                                                         *)
(* Orders are numbered in the order they reach the broker, so an order's   *)
(* number is also its submission time: the reconciler's cursor is an order *)
(* number, and "submitted since" is a comparison.  A wheel_cycles row is   *)
(* named by the order whose fill opened it.                                *)
(***************************************************************************)
EXTENDS PositionStates, Naturals, Integers, Sequences, FiniteSets

CONSTANTS
    Strategies,       \* the strategy ids that may have a row for the symbol
    KindOf,           \* the type of each strategy
    DefaultStrategy,  \* "monthly_wheel": the column default of positions.strategy_id
    MaxOrders         \* bound: how many orders are ever submitted

ASSUME StrategiesAssumption ==
    /\ DefaultStrategy \in Strategies
    /\ KindOf \in [Strategies -> Kinds]

ASSUME MaxOrdersAssumption == MaxOrders \in Nat \ {0}

OrderIds == 1 .. MaxOrders
None     == 0
Ref      == 0 .. MaxOrders

\* What an order is for: whose it is, what it does, and for a closing order
\* the opening order whose contracts it trades.
Proposals == [strategy : Strategies, type : OrderTypes, target : Ref]

Phases == {"between", "orders", "processing", "diffing", "audit", "rolling",
           "sweeping", "proposing"}

VARIABLES
    \* the broker
    placed,      \* sequence of the orders submitted
    atBroker,    \* status of each order at the broker
    legs,        \* legs of each opening order still alive at the broker
    stock,       \* lots of 100 shares in the account (negative: short)
    \* the database
    row,         \* positions: one row per strategy
    local,       \* orders: status and cycle_id
    cycle,       \* wheel_cycles
    aged,        \* cycles older than cycle_parity_min_age_days
    dayStart,    \* first order number of the current trading day
    \* the process
    phase,       \* how far the tick has come
    cursor,      \* _orders_cursor: orders below it were already looked at
    snapshot,    \* the answer of get_positions
    answer,      \* the answer of get_orders_since
    todo,        \* orders of the answer not yet processed
    dispatching, \* the order whose status is written and not yet dispatched
    wasStatus,   \* that order's status before it was written
    todoRows,    \* strategies the current phase has still to walk
    plan,        \* proposals waiting to be routed
    routing      \* the submission in progress: order number and next write

brokerVars == <<placed, atBroker, legs, stock>>
dbVars     == <<row, local, cycle>>
timeVars   == <<aged, dayStart>>
readVars   == <<snapshot, answer, todo, dispatching, wasStatus>>
routeVars  == <<plan, routing>>
vars == <<placed, atBroker, legs, stock, row, local, cycle, aged, dayStart,
          phase, cursor, snapshot, answer, todo, dispatching, wasStatus,
          todoRows, plan, routing>>

-----------------------------------------------------------------------------
Submitted == 1 .. Len(placed)
Owner(o)  == placed[o].strategy
Type(o)   == placed[o].type
Kind(s)   == KindOf[s]

NoSnapshot == [put |-> FALSE, call |-> FALSE, long |-> FALSE, shares |-> 0]
NoAnswer   == [o \in OrderIds |-> "none"]
NotRouting == [order |-> None, next |-> "none"]

RowType   == [state : RowStates, cycle : Ref, shares : 0 .. 1]
LocalType == [status : LocalStatuses, cycle : Ref]
CycleType == [status : {"none", "open", "ended", "duplicated"}, outcome : Outcomes]

BrokerTypeOK ==
    /\ placed \in Seq(Proposals) /\ Len(placed) <= MaxOrders
    /\ atBroker \in [OrderIds -> BrokerStatuses]
    /\ legs \in [OrderIds -> SUBSET Legs]
    /\ stock \in Int

DatabaseTypeOK ==
    /\ row \in [Strategies -> RowType]
    /\ local \in [OrderIds -> LocalType]
    /\ cycle \in [OrderIds -> CycleType]

TickTypeOK ==
    /\ aged \subseteq OrderIds
    /\ dayStart \in 1 .. MaxOrders + 1
    /\ phase \in Phases
    /\ cursor \in 1 .. MaxOrders + 1
    /\ snapshot \in [put : BOOLEAN, call : BOOLEAN, long : BOOLEAN, shares : Int]
    /\ answer \in [OrderIds -> LocalStatuses]
    /\ todo \subseteq OrderIds
    /\ dispatching \in Ref
    /\ wasStatus \in LocalStatuses

RouteTypeOK ==
    /\ todoRows \subseteq Strategies
    /\ plan \in Seq(Proposals)
    /\ routing \in [order : Ref, next : {"none", "persist", "upsert"}]

\* Every variable has its type.
TypeOK == BrokerTypeOK /\ DatabaseTypeOK /\ TickTypeOK /\ RouteTypeOK

Init ==
    /\ placed = <<>>
    /\ atBroker = [o \in OrderIds |-> "none"]
    /\ legs = [o \in OrderIds |-> {}]
    /\ stock = 0
    /\ row = [s \in Strategies |-> [state |-> "NONE", cycle |-> None, shares |-> 0]]
    /\ local = [o \in OrderIds |-> [status |-> "none", cycle |-> None]]
    /\ cycle = [o \in OrderIds |-> [status |-> "none", outcome |-> "none"]]
    /\ aged = {} /\ dayStart = 1
    /\ phase = "between" /\ cursor = 1
    /\ snapshot = NoSnapshot /\ answer = NoAnswer /\ todo = {}
    /\ dispatching = None /\ wasStatus = "none"
    /\ todoRows = {} /\ plan = <<>> /\ routing = NotRouting

-----------------------------------------------------------------------------
(* Queries on the database. *)

\* get_by_symbol(account, symbol, strategy_id) returns a row.
HasRow(s) == row[s].state # "NONE"

\* list_active(): every row that is not IDLE.
Active == {s \in Strategies : HasRow(s) /\ row[s].state # "IDLE"}

\* list_pending(): the orders the database still believes to be working.
LocallyLive == {o \in Submitted : local[o].status \in LiveStatuses}

\* The orders with a row in the orders table.
LocallyKnown == {o \in Submitted : local[o].status # "none"}

\* The latest and the earliest of a set of orders: one order, or none.
LatestOf(S)   == {o \in S : \A p \in S : p <= o}
EarliestOf(S) == {o \in S : \A p \in S : o <= p}

\* The latest FILLED order of the given types booked to cycle c.
LatestFilled(c, types) ==
    LatestOf({o \in Submitted : /\ c # None /\ local[o].cycle = c
                                /\ local[o].status = "FILLED"
                                /\ Type(o) \in types})

-----------------------------------------------------------------------------
(* Writes to the database, as values of the next state. *)

\* Faulty variant: the new cycle is not written to the row.
WithStateOnly(s, state, c) == [row EXCEPT ![s].state = state]

\* _set_position_state: a cycle of None leaves the row's pointer alone.
WithState(s, state, c) ==
    [row EXCEPT ![s].state = state, ![s].cycle = IF c = None THEN @ ELSE c]

\* The update the expiration and called-away handlers make: flat, no pointer.
Flattened(s) == [row EXCEPT ![s] = [state |-> "IDLE", cycle |-> None, shares |-> 0]]

\* _flag_manual_intervention for known strategies; inserts a row if there is none.
Flagged(flags) ==
    [s \in Strategies |-> IF s \in flags
                          THEN [row[s] EXCEPT !.state = "MANUAL_INTERVENTION"]
                          ELSE row[s]]

\* Insert a wheel_cycles row for the fill of order o.
OpenedCycle(o) ==
    [cycle EXCEPT ![o].status = IF @ = "none" THEN "open" ELSE "duplicated"]

\* _close_cycle: no effect on a missing or an ended cycle.
ClosedCycle(c, outcome) ==
    IF c # None /\ cycle[c].status = "open"
    THEN [cycle EXCEPT ![c] = [status |-> "ended", outcome |-> outcome]]
    ELSE cycle

\* orders.update(id, cycle_id = c); a cycle of None is never written.
Tagged(o, c) == IF c = None THEN local ELSE [local EXCEPT ![o].cycle = c]

\* Faulty variant: closing fills are not booked to a cycle.
NeverTagged(o, c) == local

\* The buyback's tag: only when the order has no cycle yet.
TaggedOnce(o, c) == IF local[o].cycle = None THEN Tagged(o, c) ELSE local
=============================================================================
