----------------------------- MODULE MCWheelBot -----------------------------
(***************************************************************************)
(* Instances of the bot for TLC: which strategies trade the symbol.        *)
(***************************************************************************)
EXTENDS Liveness

CONSTANTS monthly_wheel, weekly_wheel, put_spread, bear_call, condor, calendar,
          pmcc, swing

MCKindOf == [s \in Strategies |->
    CASE s \in {monthly_wheel, weekly_wheel} -> "wheel"
      [] s = put_spread -> "put_spread"
      [] s = bear_call  -> "call_spread"
      [] s = condor     -> "iron_condor"
      [] s = calendar   -> "calendar"
      [] s = pmcc       -> "pmcc"
      [] OTHER          -> "swing"]

(***************************************************************************)
(* Several single-strategy instances in one run: the first strategy to     *)
(* propose is the only one that trades the symbol from then on.            *)
(***************************************************************************)
OneTrades == LET orders == placed \o plan
             IN  \A i \in 1 .. Len(orders) : orders[i].strategy = orders[1].strategy

SoleTraderSpec == BotInit /\ [][BotNext /\ OneTrades']_botVars

FairSoleTraderSpec ==
    SoleTraderSpec /\ WF_botVars(TickStep /\ OneTrades') /\ SF_botVars(DaysPass)
=============================================================================
