------------------------------- MODULE MCGates -------------------------------
(***************************************************************************)
(* Instances for TLC of the gates in front of an order.  They share no     *)
(* state, so each behaviour is about one of them.                          *)
(***************************************************************************)
EXTENDS KillSwitch, StrategyRuntime, RiskLimits, ZeroDte, Watchlists, Intelligence

VARIABLE focus

gatesVars == <<vars, runtimeVars, limitsVars, zeroDteVars, watchlistVars, intelligenceVars, focus>>

MCOutcomes      == {2, -1, -3}
MCDisableAt     == -3
MCWarnAt        == -2
MCMaxConcurrent == [s \in StrategyIds |-> 1]
MCTypeOf        == [s \in StrategyIds |-> IF s \in {"monthly", "weekly"} THEN "wheel" ELSE s]

GatesInit ==
    /\ focus \in {"kill_switch", "breakers", "limits", "zero_dte", "watchlists", "intelligence"}
    /\ Init /\ RuntimeInit /\ LimitsInit /\ ZeroDteInit /\ WatchlistInit /\ IntelligenceInit

OnKillSwitch   == focus = "kill_switch"
                  /\ UNCHANGED <<runtimeVars, limitsVars, zeroDteVars, watchlistVars, intelligenceVars, focus>>
OnBreakers     == focus = "breakers"
                  /\ UNCHANGED <<vars, limitsVars, zeroDteVars, watchlistVars, intelligenceVars, focus>>
OnLimits       == focus = "limits"
                  /\ UNCHANGED <<vars, runtimeVars, zeroDteVars, watchlistVars, intelligenceVars, focus>>
OnZeroDte      == focus = "zero_dte"
                  /\ UNCHANGED <<vars, runtimeVars, limitsVars, watchlistVars, intelligenceVars, focus>>
OnWatchlists   == focus = "watchlists"
                  /\ UNCHANGED <<vars, runtimeVars, limitsVars, zeroDteVars, intelligenceVars, focus>>
OnIntelligence == focus = "intelligence"
                  /\ UNCHANGED <<vars, runtimeVars, limitsVars, zeroDteVars, watchlistVars, focus>>

GatesNext ==
    \/ OnKillSwitch   /\ Next
    \/ OnBreakers     /\ RuntimeNext
    \/ OnLimits       /\ LimitsNext
    \/ OnZeroDte      /\ ZeroDteNext
    \/ OnWatchlists   /\ WatchlistNext
    \/ OnIntelligence /\ IntelligenceNext

GatesSpec == GatesInit /\ [][GatesNext]_gatesVars

\* FairSpec and FairRuntimeSpec, each for the behaviours that are about it.
FairGatesSpec ==
    /\ GatesSpec
    /\ WF_gatesVars(OnKillSwitch /\ TickStep)
    /\ WF_gatesVars(OnKillSwitch /\ ClearKillSwitchLatch)
    /\ WF_gatesVars(OnBreakers /\ PassNext)
    /\ SF_gatesVars(OnBreakers /\ DayPasses)

\* Every variable of every gate keeps its type: among others no row names a
\* cause, a state or a verdict that its reader does not know.
GatesTypeOK ==
    /\ TypeOK /\ RuntimeTypeOK /\ LimitsTypeOK /\ ZeroDteTypeOK
    /\ WatchlistTypeOK /\ IntelligenceTypeOK
=============================================================================
