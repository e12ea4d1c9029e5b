----------------------------- MODULE Reconciler -----------------------------
(***************************************************************************)
(* One pass of Reconciler.reconcile_once: read the broker's positions, then *)
(* its orders; process every order of the answer; infer expirations and    *)
(* assignments from the position snapshot; audit cycles and shares.        *)
(***************************************************************************)
EXTENDS Brokerage

-----------------------------------------------------------------------------
(* Reading the broker: two calls, and time passes between them. *)

FetchPositions ==
    /\ phase = "between"
    /\ snapshot' = PositionsNow
    /\ phase' = "orders"
    /\ UNCHANGED <<brokerVars, dbVars, timeVars, cursor, answer, todo,
                   dispatching, wasStatus, todoRows, routeVars>>

\* Faulty variant: the lookback forgets the orders still working.
SinceCursor == {o \in Submitted : o >= cursor}

\* The orders submitted since the cursor, or since the oldest order that is
\* still working locally if that one is older.
OrdersSince == {o \in Submitted : o >= cursor \/ \E p \in LocallyLive : p <= o}

FetchOrders ==
    /\ phase = "orders"
    /\ answer' = [o \in OrderIds |-> IF o \in OrdersSince
                                     THEN Reported(atBroker[o]) ELSE "none"]
    /\ todo' = OrdersSince
    /\ cursor' = Len(placed) + 1
    /\ phase' = "processing"
    /\ UNCHANGED <<brokerVars, dbVars, timeVars, snapshot, dispatching,
                   wasStatus, todoRows, routeVars>>

-----------------------------------------------------------------------------
(* Fills.  Each handler is the effect on the three tables of dispatching the *)
(* fill of order o to its strategy's row.                                    *)

\* _set_position_state called without a strategy id inserts a missing row under
\* the column default; if that row exists the insert raises.
InsertTarget(s) == IF HasRow(s) THEN s ELSE DefaultStrategy
InsertRaises(s) == ~HasRow(s) /\ HasRow(DefaultStrategy)

OpenSpread(s, o) ==
    /\ cycle' = OpenedCycle(o)
    /\ row' = WithState(s, "SPREAD_OPEN", o)
    /\ local' = Tagged(o, o)

CloseSpread(s, o) ==
    LET c == row[s].cycle
    IN  /\ row' = [row EXCEPT ![s].state = "SPREAD_CLOSED", ![s].cycle = None]
        /\ local' = TaggedOnce(o, c)
        /\ cycle' = ClosedCycle(c, "closed")

\* A put opens a cycle of its own.
SellPut(s, o) ==
    /\ cycle' = OpenedCycle(o)
    /\ IF InsertRaises(s)
       THEN row' = Flagged({s}) /\ UNCHANGED local
       ELSE row' = WithState(InsertTarget(s), "CSP_OPEN", o) /\ local' = Tagged(o, o)

\* A covered call continues the cycle its row is in.
SellCall(s, o) ==
    /\ UNCHANGED cycle
    /\ IF InsertRaises(s)
       THEN row' = Flagged({s}) /\ UNCHANGED local
       ELSE /\ row' = WithState(InsertTarget(s), "CC_OPEN", row[s].cycle)
            /\ local' = Tagged(o, row[s].cycle)

\* Buying a put back ends the cycle but leaves the row's pointer on it.
BuyBack(s, o) ==
    LET put == Type(o) = "BTC_PUT"
        c   == row[s].cycle
    IN  /\ local' = TaggedOnce(o, c)
        /\ IF InsertRaises(s)
           THEN row' = Flagged({s}) /\ UNCHANGED cycle
           ELSE /\ row' = WithState(InsertTarget(s), IF put THEN "IDLE" ELSE "SHARES_HELD", None)
                /\ cycle' = IF put THEN ClosedCycle(c, "closed") ELSE cycle

\* _on_fill's last branch, and those of the pmcc and swing handlers.
UnhandledFill(s) == row' = Flagged({s}) /\ UNCHANGED <<local, cycle>>

OpenLong(s, o, state) ==
    /\ cycle' = OpenedCycle(o)
    /\ row' = WithState(s, state, o)
    /\ local' = Tagged(o, o)

CloseLong(s, o, outcome) ==
    LET c == row[s].cycle
    IN  /\ local' = TaggedOnce(o, c)
        /\ row' = [row EXCEPT ![s].state = "IDLE", ![s].cycle = None]
        /\ cycle' = ClosedCycle(c, outcome)

OnPmccFill(s, o) ==
    LET c == row[s].cycle
    IN  CASE Type(o) = "BTO" -> OpenLong(s, o, "PMCC_LONG_OPEN")
          [] Type(o) = "STO_CALL" -> /\ row' = WithState(s, "PMCC_BOTH_OPEN", None)
                                     /\ local' = Tagged(o, c) /\ UNCHANGED cycle
          [] Type(o) = "BTC_CALL" -> /\ row' = WithState(s, "PMCC_LONG_OPEN", None)
                                     /\ local' = TaggedOnce(o, c) /\ UNCHANGED cycle
          [] Type(o) = "STC" -> CloseLong(s, o, "rolled")
          [] OTHER -> UnhandledFill(s)

OnSwingFill(s, o) ==
    CASE Type(o) = "BTO" -> OpenLong(s, o, "SWING_OPEN")
      [] Type(o) = "STC" -> CloseLong(s, o, "closed")
      [] OTHER -> UnhandledFill(s)

OnWheelOrSpreadFill(s, o) ==
    CASE Type(o) = "MLEG_OPEN"  -> OpenSpread(s, o)
      [] Type(o) = "MLEG_CLOSE" -> CloseSpread(s, o)
      [] Type(o) = "STO_PUT"    -> SellPut(s, o)
      [] Type(o) = "STO_CALL"   -> SellCall(s, o)
      [] Type(o) \in {"BTC_PUT", "BTC_CALL"} -> BuyBack(s, o)
      [] OTHER -> UnhandledFill(s)

OnFill(s, o) ==
    CASE Kind(s) = "pmcc"  -> OnPmccFill(s, o)
      [] Kind(s) = "swing" -> OnSwingFill(s, o)
      [] OTHER             -> OnWheelOrSpreadFill(s, o)

-----------------------------------------------------------------------------
(* Cancels. *)

\* Faulty variant: an order's end resets its row whatever state it is in.
RestoredAlways(s, o) == CASE Type(o) \in OpeningTypes -> "IDLE"
                          [] Type(o) = "BTC_PUT"      -> "CSP_OPEN"
                          [] OTHER                    -> row[s].state

\* The state an unfilled order's end restores; the row's own state if it is not
\* in the matching pending state.
RestoredState(s, o) ==
    LET state == row[s].state
    IN  CASE Type(o) = "MLEG_OPEN" /\ state = "SPREAD_PENDING"  -> "IDLE"
          [] Type(o) = "MLEG_CLOSE" /\ state = "SPREAD_PENDING" -> "SPREAD_OPEN"
          [] Type(o) = "STO_PUT" /\ state = "CSP_PENDING"       -> "IDLE"
          [] Type(o) = "STO_CALL" /\ state = "CC_PENDING"       -> "SHARES_HELD"
          [] Type(o) = "BTO" /\ state \in {"SWING_PENDING", "PMCC_LONG_PENDING"} -> "IDLE"
          [] Type(o) = "STC" /\ state = "PMCC_CLOSING"          -> "PMCC_LONG_OPEN"
          [] OTHER -> state

OnCancel(s, o) ==
    /\ row' = [row EXCEPT ![s].state = RestoredState(s, o)]
    /\ UNCHANGED <<local, cycle>>

\* Faulty variant: the quantity in the terminal answer is ignored.
SeenPartialBefore(o) == wasStatus = "PARTIAL"

\* Some quantity executed before the order ended: seen PARTIAL on an earlier
\* tick, or reported in the terminal answer.
ObservedPartialFill(o) == wasStatus = "PARTIAL" \/ atBroker[o] = "part_cancelled"

-----------------------------------------------------------------------------
(* Processing the answer, one order at a time. *)

UnchangedByReconciler == UNCHANGED <<brokerVars, timeVars, cursor, snapshot,
                                     answer, routeVars>>

\* Symbol-only flag: lands on an arbitrary row of the symbol, on a new row of
\* the default strategy if there is none.
FlagSymbol ==
    \/ \E s \in Strategies : HasRow(s) /\ row' = Flagged({s})
    \/ (\A s \in Strategies : ~HasRow(s)) /\ row' = Flagged({DefaultStrategy})

UnknownOrder(o) ==
    /\ phase = "processing" /\ dispatching = None /\ o \in todo
    /\ local[o].status = "none"
    /\ FlagSymbol
    /\ todo' = todo \ {o}
    /\ UNCHANGED <<local, cycle, phase, dispatching, wasStatus, todoRows>>
    /\ UnchangedByReconciler

\* Faulty variant: a terminal answer is dispatched however often it is read.
DispatchTerminal(o) == answer[o] \in {"FILLED", "CANCELLED"}

\* The order was working and is now terminal: there is something to dispatch.
NeedsDispatch(o) == /\ local[o].status \in LiveStatuses
                    /\ answer[o] \in {"FILLED", "CANCELLED"}

\* The broker's status is written first, in a transaction of its own.
PersistStatus(o) ==
    /\ phase = "processing" /\ dispatching = None /\ o \in todo
    /\ local[o].status # "none"
    /\ local' = [local EXCEPT ![o].status = answer[o]]
    /\ IF NeedsDispatch(o)
       THEN dispatching' = o /\ wasStatus' = local[o].status /\ UNCHANGED todo
       ELSE todo' = todo \ {o} /\ UNCHANGED <<dispatching, wasStatus>>
    /\ UNCHANGED <<row, cycle, phase, todoRows>>
    /\ UnchangedByReconciler

\* Then the transition is dispatched.
DispatchOrderTransition(o) ==
    LET s == Owner(o)
    IN  /\ phase = "processing" /\ dispatching = o
        /\ IF answer[o] = "FILLED" THEN OnFill(s, o)
           ELSE IF ObservedPartialFill(o)
           THEN row' = Flagged({s}) /\ UNCHANGED <<local, cycle>>
           ELSE OnCancel(s, o)
        /\ todo' = todo \ {o} /\ dispatching' = None /\ wasStatus' = "none"
        /\ UNCHANGED <<phase, todoRows>>
        /\ UnchangedByReconciler

\* Every order is processed: walk the rows, or, if the symbol has none while
\* the broker shows something, create one for the operator.
BrokerPresent == snapshot # NoSnapshot

OrdersProcessed ==
    /\ phase = "processing" /\ todo = {}
    /\ phase' = "diffing"
    /\ todoRows' = {s \in Strategies : HasRow(s)}
    /\ row' = IF BrokerPresent /\ \A s \in Strategies : ~HasRow(s)
              THEN Flagged({DefaultStrategy}) ELSE row
    /\ answer' = NoAnswer
    /\ UNCHANGED <<brokerVars, local, cycle, timeVars, cursor, snapshot, todo,
                   dispatching, wasStatus, routeVars>>
=============================================================================
