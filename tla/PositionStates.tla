--------------------------- MODULE PositionStates ---------------------------
(***************************************************************************)
(* The vocabulary shared by the router, the reconciler and the broker:     *)
(* position states, order types, order statuses, the option legs each      *)
(* kind of order trades, and the tables that relate them.  Nothing here    *)
(* changes state.                                                          *)
(***************************************************************************)

Kinds == {"wheel", "put_spread", "call_spread", "iron_condor", "calendar",
          "pmcc", "swing"}

SpreadKinds == {"put_spread", "call_spread", "iron_condor", "calendar"}

\* The states a stored position row takes.  "NONE" stands for no row at all.
States == {"IDLE", "SCANNING", "CSP_PENDING", "CSP_OPEN", "ROLL_EVAL",
           "CSP_CLOSED", "ASSIGNED", "SHARES_HELD", "CC_PENDING", "CC_OPEN",
           "CC_CLOSED", "CALLED_AWAY", "SPREAD_PENDING", "SPREAD_OPEN",
           "SPREAD_CLOSED", "SPREAD_ASSIGNED", "PMCC_LONG_PENDING",
           "PMCC_LONG_OPEN", "PMCC_SHORT_PENDING", "PMCC_BOTH_OPEN",
           "PMCC_CLOSING", "SWING_PENDING", "SWING_OPEN", "BROKER_DOWN",
           "MANUAL_INTERVENTION", "KILLED"}

RowStates == States \cup {"NONE"}

\* States owned by a human: the bot must not move a row out of them on its own.
OperatorStates == {"MANUAL_INTERVENTION", "BROKER_DOWN", "KILLED"}

\* States that carry no exposure of an open cycle (the parity audit's table).
AbandonedStates == {"IDLE", "SCANNING", "CSP_CLOSED", "CC_CLOSED",
                    "CALLED_AWAY", "SPREAD_CLOSED", "SPREAD_ASSIGNED"}

\* States in which a row legitimately carries stock.
ShareHoldingStates == {"ASSIGNED", "SHARES_HELD", "CC_PENDING", "CC_OPEN"}

\* An order type joined with the option type it trades, where that matters.
OpeningTypes == {"STO_PUT", "STO_CALL", "BTO", "MLEG_OPEN"}
ClosingTypes == {"BTC_PUT", "BTC_CALL", "STC", "MLEG_CLOSE"}
OrderTypes   == OpeningTypes \cup ClosingTypes

\* Order statuses in the database; REJECTED is handled exactly as CANCELLED.
LiveStatuses  == {"PENDING", "PARTIAL"}
LocalStatuses == LiveStatuses \cup {"FILLED", "CANCELLED", "none"}

\* What the broker knows of an order.  A "cancelling" order is still live;
\* "part_cancelled" is a cancelled order of which some quantity executed.
LiveAtBroker   == {"open", "partial", "cancelling"}
BrokerStatuses == LiveAtBroker \cup {"filled", "cancelled", "part_cancelled", "none"}

\* Faulty variant: a status the adapter's table lacks is passed through raw.
ReportedRaw(status) ==
    CASE status \in {"open", "none"} -> IF status = "open" THEN "PENDING" ELSE status
      [] status = "partial" -> "PARTIAL"
      [] status = "filled"  -> "FILLED"
      [] OTHER              -> status

\* The adapter's translation of the broker's status.
Reported(status) ==
    CASE status \in {"open", "cancelling"}           -> "PENDING"
      [] status = "partial"                          -> "PARTIAL"
      [] status = "filled"                           -> "FILLED"
      [] status \in {"cancelled", "part_cancelled"}  -> "CANCELLED"
      [] OTHER                                       -> "none"

Legs == {"short_put", "short_call", "long_put", "long_call"}

\* The legs an opening order of a strategy of this kind puts on.
LegsOpenedBy(kind, type) ==
    CASE type = "STO_PUT"  -> {"short_put"}
      [] type = "STO_CALL" -> {"short_call"}
      [] type = "BTO"      -> {"long_call"}
      [] type = "MLEG_OPEN" ->
            (CASE kind = "put_spread"  -> {"short_put", "long_put"}
               [] kind = "iron_condor" -> Legs
               [] OTHER                -> {"short_call", "long_call"})
      [] OTHER -> {}

\* The closing order that undoes an opening order.
ClosingTypeOf(type) ==
    CASE type = "STO_PUT"  -> "BTC_PUT"
      [] type = "STO_CALL" -> "BTC_CALL"
      [] type = "BTO"      -> "STC"
      [] OTHER             -> "MLEG_CLOSE"

(***************************************************************************)
(* The state a row takes when an order is placed for it.  A row keeps its  *)
(* state when a package close or a PMCC buyback is placed: only their      *)
(* fills move it.                                                          *)
(***************************************************************************)
PendingStateFor(kind, type, current) ==
    CASE kind = "swing" -> IF type = "BTO" THEN "SWING_PENDING" ELSE "SWING_OPEN"
      [] kind = "pmcc" ->
            (CASE type = "BTO"      -> "PMCC_LONG_PENDING"
               [] type = "STO_CALL" -> "PMCC_SHORT_PENDING"
               [] type = "STC"      -> "PMCC_CLOSING"
               [] OTHER             -> current)
      [] OTHER ->
            (CASE type = "MLEG_OPEN"  -> "SPREAD_PENDING"
               [] type = "MLEG_CLOSE" -> current
               [] type = "STO_PUT"    -> "CSP_PENDING"
               [] type = "STO_CALL"   -> "CC_PENDING"
               [] type = "BTC_PUT"    -> "CSP_OPEN"
               [] OTHER               -> "CC_OPEN")

Outcomes == {"none", "closed", "expired", "called_away", "rolled"}
=============================================================================
