---------------------------- MODULE PositionDiff ----------------------------
(***************************************************************************)
(* The second half of the reconcile pass: what the orders do not say is    *)
(* inferred from the shape of the broker's positions (_diff_one), and then *)
(* cycles and shares are audited.  The position snapshot is the one read   *)
(* BEFORE the orders.                                                      *)
(***************************************************************************)
EXTENDS Reconciler

HasShortPut  == snapshot.put
HasShortCall == snapshot.call
HasShares    == snapshot.shares # 0

\* Another row of the symbol holds or expects stock.
SharesClaimedByOther(s) ==
    \E t \in Active \ {s} : row[t].shares > 0 \/ row[t].state \in ShareHoldingStates

\* Any working order on the symbol, whichever strategy it belongs to.
HasInflightOrder == LocallyLive # {}

\* The strategy's latest order of the type, if that one is FILLED.
LatestIfFilled(s, type) ==
    {o \in LatestOf({p \in LocallyKnown : Owner(p) = s /\ Type(p) = type}) :
        local[o].status = "FILLED"}

-----------------------------------------------------------------------------
(* The branches of _diff_one, one per group of states. *)

Stay == UNCHANGED <<row, cycle, local>>

Flag(s) == row' = Flagged({s}) /\ UNCHANGED <<cycle, local>>

Heal(s, state) == row' = WithState(s, state, None) /\ UNCHANGED <<cycle, local>>

OnCspExpiration(s) == /\ row' = Flattened(s)
                      /\ cycle' = ClosedCycle(row[s].cycle, "expired")
                      /\ UNCHANGED local

OnAssignment(s) == /\ row' = [row EXCEPT ![s].state = "SHARES_HELD", ![s].shares = 1]
                   /\ UNCHANGED <<cycle, local>>

DiffCspOpen(s) ==
    /\ row[s].state = "CSP_OPEN"
    /\ CASE HasShortPut -> Stay
         [] ~HasShortPut /\ HasShares /\ SharesClaimedByOther(s) -> Flag(s)
         [] ~HasShortPut /\ HasShares /\ ~SharesClaimedByOther(s) -> OnAssignment(s)
         [] OTHER -> OnCspExpiration(s)

\* Called away: the sale is booked at the strike of the cycle's latest call; a
\* row that held shares but has no such call is left to the operator.
OnCalledAway(s) ==
    LET c      == row[s].cycle
        sold   == LatestFilled(c, {"STO_PUT"}) # {} \/ row[s].shares > 0
        strike == LatestFilled(c, {"STO_CALL"}) # {}
    IN  IF sold /\ ~strike THEN Flag(s)
        ELSE /\ row' = Flattened(s)
             /\ cycle' = ClosedCycle(c, "called_away")
             /\ UNCHANGED local

DiffCcOpen(s) ==
    /\ row[s].state = "CC_OPEN"
    /\ CASE HasShortCall -> Stay
         [] ~HasShortCall /\ HasShares -> Heal(s, "SHARES_HELD")
         [] OTHER -> OnCalledAway(s)

\* A wheel row stranded in a pending state, its fill or cancel never dispatched.
DiffWheelPending(s) ==
    LET state == row[s].state
    IN  /\ state \in {"CSP_PENDING", "CC_PENDING"}
        /\ CASE HasInflightOrder -> Stay
             [] ~HasInflightOrder /\ state = "CSP_PENDING" /\ HasShortPut -> Heal(s, "CSP_OPEN")
             [] ~HasInflightOrder /\ state = "CSP_PENDING" /\ ~BrokerPresent -> Heal(s, "IDLE")
             [] ~HasInflightOrder /\ state = "CC_PENDING" /\ HasShortCall -> Heal(s, "CC_OPEN")
             [] ~HasInflightOrder /\ state = "CC_PENDING" /\ ~HasShortCall /\ HasShares ->
                   Heal(s, "SHARES_HELD")
             [] OTHER -> Stay

DiffSpreadOpen(s) ==
    /\ row[s].state = "SPREAD_OPEN"
    /\ IF Kind(s) = "calendar"
       THEN IF ~HasShortCall /\ ~HasShares THEN Flag(s) ELSE Stay
       ELSE CASE ~BrokerPresent -> /\ row' = Flattened(s)
                                   /\ cycle' = ClosedCycle(row[s].cycle, "expired")
                                   /\ UNCHANGED local
              [] BrokerPresent /\ HasShares -> Flag(s)
              [] OTHER -> Stay

DiffSpreadPending(s) ==
    /\ row[s].state = "SPREAD_PENDING"
    /\ CASE HasInflightOrder -> Stay
         [] ~HasInflightOrder /\ BrokerPresent -> Heal(s, "SPREAD_OPEN")
         [] OTHER -> Flag(s)

DiffPmccOpen(s) ==
    /\ row[s].state \in {"PMCC_LONG_OPEN", "PMCC_BOTH_OPEN"}
    /\ CASE HasShares -> Flag(s)
         [] ~HasShares /\ row[s].state = "PMCC_BOTH_OPEN" /\ ~HasShortCall ->
               Heal(s, "PMCC_LONG_OPEN")
         [] OTHER -> Stay

\* A PMCC row is healed from the strategy's own orders, not from the shape.
DiffPmccPending(s) ==
    LET state == row[s].state
        long  == LatestIfFilled(s, "BTO")
        short == LatestIfFilled(s, "STO_CALL")
    IN  /\ state \in {"PMCC_LONG_PENDING", "PMCC_SHORT_PENDING"}
        /\ CASE HasInflightOrder -> Stay
             [] ~HasInflightOrder /\ state = "PMCC_LONG_PENDING" /\ long # {} ->
                   \E o \in long : OpenLong(s, o, "PMCC_LONG_OPEN")
             [] ~HasInflightOrder /\ state = "PMCC_LONG_PENDING" /\ long = {} ->
                   Heal(s, "IDLE")
             [] ~HasInflightOrder /\ state = "PMCC_SHORT_PENDING" /\ short # {} ->
                   Heal(s, "PMCC_BOTH_OPEN")
             [] OTHER -> Heal(s, "PMCC_LONG_OPEN")

DiffedStates == {"CSP_OPEN", "CC_OPEN", "CSP_PENDING", "CC_PENDING", "SPREAD_OPEN",
                 "SPREAD_PENDING", "PMCC_LONG_OPEN", "PMCC_BOTH_OPEN",
                 "PMCC_LONG_PENDING", "PMCC_SHORT_PENDING"}

\* The states _diff_one intentionally leaves alone.
DiffNoTransition(s) == row[s].state \notin DiffedStates /\ Stay

DiffOne(s) ==
    /\ phase = "diffing" /\ s \in todoRows
    /\ \/ DiffCspOpen(s) \/ DiffCcOpen(s) \/ DiffWheelPending(s)
       \/ DiffSpreadOpen(s) \/ DiffSpreadPending(s)
       \/ DiffPmccOpen(s) \/ DiffPmccPending(s) \/ DiffNoTransition(s)
    /\ todoRows' = todoRows \ {s}
    /\ UNCHANGED <<phase, todo, dispatching, wasStatus>>
    /\ UnchangedByReconciler

RowsDiffed ==
    /\ phase = "diffing" /\ todoRows = {}
    /\ phase' = "audit"
    /\ UNCHANGED <<dbVars, todo, dispatching, wasStatus, todoRows>>
    /\ UnchangedByReconciler

-----------------------------------------------------------------------------
(* The parity audit. *)

\* Faulty variant: the audit follows the pointer of the row.
PointedOrphans == {s \in Strategies : /\ row[s].cycle \in aged
                                       /\ cycle[row[s].cycle].status = "open"
                                       /\ row[s].state \in AbandonedStates}

\* (a) an old open cycle whose row carries no exposure, or is missing.
Orphans == {Owner(c) : c \in {d \in aged : /\ cycle[d].status = "open"
                                           /\ row[Owner(d)].state \in AbandonedStates \cup {"NONE"}}}

\* (b) shares in a row whose state holds none.
StrayShares(rows) ==
    {s \in Strategies : /\ rows[s].shares # 0
                        /\ rows[s].state \notin ShareHoldingStates \cup OperatorStates}

\* The lots the rows of the symbol add up to: a row holds one or none.
LocalShares == Cardinality({s \in Strategies : row[s].shares = 1})

\* The per-symbol share totals differ: the flag names the symbol only.
AuditCycleParity ==
    LET flags == Orphans \cup StrayShares(Flagged(Orphans))
        known == {s \in Strategies : HasRow(s)} \cup Orphans
    IN  /\ phase = "audit"
        /\ IF LocalShares = snapshot.shares \/ known = {}
           THEN row' = Flagged(flags)
           ELSE \E s \in known : row' = Flagged(flags \cup {s})
        /\ phase' = "rolling"
        /\ todoRows' = Strategies
        /\ snapshot' = NoSnapshot
        /\ UNCHANGED <<brokerVars, local, cycle, timeVars, cursor, answer, todo,
                       dispatching, wasStatus, routeVars>>

ReconcilerStep ==
    \/ FetchPositions \/ FetchOrders
    \/ \E o \in OrderIds : UnknownOrder(o) \/ PersistStatus(o) \/ DispatchOrderTransition(o)
    \/ OrdersProcessed
    \/ \E s \in Strategies : DiffOne(s)
    \/ RowsDiffed \/ AuditCycleParity
=============================================================================
