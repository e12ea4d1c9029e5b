------------------------------ MODULE WheelBot ------------------------------
(***************************************************************************)
(* The trading bot: one process that repeats a tick (reconcile, sweep,     *)
(* propose, route) against a broker that moves on its own, and that may    *)
(* crash and restart.                                                      *)
(***************************************************************************)
EXTENDS PositionDiff, Router

CONSTANTS
    CrashAt,    \* the places at which the process may die
    MaxCrashes  \* bound: how many times it does

\* Besides the phases of a tick: between an order's status write and its
\* dispatch, and between the writes of a submission.
Places == Phases \cup {"dispatching", "routing"}

ASSUME CrashAssumption == CrashAt \subseteq Places /\ MaxCrashes \in Nat

VARIABLE crashes

botVars == <<vars, crashes>>

Place == CASE dispatching # None                          -> "dispatching"
           [] dispatching = None /\ routing # NotRouting -> "routing"
           [] OTHER                                       -> phase

\* The process dies and restarts.  The database and the broker survive; the
\* cursor starts over from the beginning of time.
Crash ==
    /\ Place \in CrashAt /\ crashes < MaxCrashes
    /\ crashes' = crashes + 1
    /\ phase' = "between" /\ cursor' = 1
    /\ snapshot' = NoSnapshot /\ answer' = NoAnswer /\ todo' = {}
    /\ dispatching' = None /\ wasStatus' = "none"
    /\ todoRows' = {} /\ plan' = <<>> /\ routing' = NotRouting
    /\ UNCHANGED <<brokerVars, dbVars, timeVars>>

TickStep == (ReconcilerStep \/ RouterStep) /\ UNCHANGED crashes

BotInit == Init /\ crashes = 0

BotNext ==
    \/ TickStep
    \/ (BrokerStep \/ NewDay) /\ UNCHANGED crashes
    \/ Crash

Spec == BotInit /\ [][BotNext]_botVars
=============================================================================
