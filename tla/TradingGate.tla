----------------------------- MODULE TradingGate -----------------------------
(***************************************************************************)
(* What the kill switch promises the rest of the bot: a gate in front of   *)
(* the entries.  An automatic halt shuts it and keeps it shut until an     *)
(* operator lifts the halt or the session ends; lifting a halt does not    *)
(* open the gate, the next check does.                                     *)
(***************************************************************************)

VARIABLES
    halt,       \* an automatic halt is on record
    mayTrade    \* the latest check lets entries through

gateVars == <<halt, mayTrade>>

GateInit == halt = FALSE /\ mayTrade = FALSE

Halt     == halt' = TRUE /\ mayTrade' = FALSE
Withhold == mayTrade' = FALSE /\ UNCHANGED halt
Permit   == ~ halt /\ mayTrade' = TRUE /\ UNCHANGED halt
Lift     == halt' = FALSE /\ UNCHANGED mayTrade
EndSession == halt' = FALSE /\ mayTrade' = FALSE

GateNext == Halt \/ Withhold \/ Permit \/ Lift \/ EndSession

GateSpec == GateInit /\ [][GateNext]_gateVars
=============================================================================
