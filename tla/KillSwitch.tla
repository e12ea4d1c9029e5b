----------------------------- MODULE KillSwitch -----------------------------
(***************************************************************************)
(* The kill switch of one trading day: the stop file an operator touches,  *)
(* the daily_state row that records why the bot stopped, the check every   *)
(* tick makes before it proposes entries, and the release command, which   *)
(* runs in another process (the MCP server) and writes the same file and   *)
(* the same row.                                                           *)
(***************************************************************************)

CONSTANTS
    RemovedByHand,      \* BOOLEAN: operators also delete the stop file themselves
    ReleasedDuringCheck \* BOOLEAN: a release may land in the middle of a check

ASSUME KillSwitchAssumption ==
    RemovedByHand \in BOOLEAN /\ ReleasedDuringCheck \in BOOLEAN

VARIABLES
    stopFile,   \* the file exists
    drawdown,   \* equity is below the session open by more than the limit
    streak,     \* the latest closed cycles are all losers, up to the limit
    armed,      \* daily_state.kill_switch_armed
    reason,     \* daily_state.kill_switch_reason: the causes it names
    pc,         \* where the tick is
    found,      \* the check's list of reasons
    anchor,     \* the daily_state row as the check read it
    verdict,    \* the outcome of this tick's check
    releasing,  \* the release command has removed the file, not yet the latch
    halted,     \* history: an automatic trip happened and was not released
    override,   \* history: a release is in force, nothing new happened since
    inForce     \* history: the release that was in force when the check began

worldVars   == <<stopFile, drawdown, streak>>
rowVars     == <<armed, reason>>
checkVars   == <<pc, found, anchor, verdict>>
historyVars == <<halted, override, inForce>>
vars == <<stopFile, drawdown, streak, armed, reason, pc, found, anchor, verdict,
          releasing, halted, override, inForce>>

Causes    == {"manual", "drawdown", "consecutive"}
Automatic == {"drawdown", "consecutive"}
Places    == {"idle", "reconciling", "sampled", "anchored", "measured", "checked"}

\* A release made while no cause persists is "calm", else "stressed".
Releases  == {"none", "calm", "stressed"}

TypeOK ==
    /\ stopFile \in BOOLEAN /\ drawdown \in BOOLEAN /\ streak \in BOOLEAN
    /\ armed \in BOOLEAN /\ reason \in SUBSET Causes
    /\ pc \in Places /\ found \in SUBSET Causes
    /\ anchor \in [armed : BOOLEAN, reason : SUBSET Causes]
    /\ verdict \in {"none", "ok", "tripped"}
    /\ releasing \in BOOLEAN /\ halted \in BOOLEAN
    /\ override \in Releases /\ inForce \in Releases

NoAnchor == [armed |-> FALSE, reason |-> {}]

Init ==
    /\ stopFile = FALSE /\ drawdown = FALSE /\ streak = FALSE
    /\ armed = FALSE /\ reason = {}
    /\ pc = "idle" /\ found = {} /\ anchor = NoAnchor /\ verdict = "none"
    /\ releasing = FALSE
    /\ halted = FALSE /\ override = "none" /\ inForce = "none"

\* Something new happened: an earlier release is no longer the last word.
NothingInForce == override' = "none" /\ inForce' = "none"

-----------------------------------------------------------------------------
(* The world: the operator, the market, the closed cycles. *)

EngageKillSwitch ==
    /\ stopFile' = TRUE
    /\ NothingInForce
    /\ UNCHANGED <<drawdown, streak, rowVars, checkVars, releasing, halted>>

RemoveStopFile ==
    /\ RemovedByHand /\ stopFile
    /\ stopFile' = FALSE
    /\ UNCHANGED <<drawdown, streak, rowVars, checkVars, releasing, historyVars>>

EquityMoves ==
    /\ drawdown' = ~drawdown
    /\ IF drawdown THEN UNCHANGED <<override, inForce>> ELSE NothingInForce
    /\ UNCHANGED <<stopFile, streak, rowVars, checkVars, releasing, halted>>

\* The reconcile pass closes a cycle at a loss or at a profit.
CycleCloses ==
    /\ pc = "reconciling"
    /\ streak' = ~streak
    /\ IF streak THEN UNCHANGED <<override, inForce>> ELSE NothingInForce
    /\ UNCHANGED <<stopFile, drawdown, rowVars, checkVars, releasing, halted>>

\* A new date: a new daily_state row, a new session-open equity.
NewDay ==
    /\ pc = "idle" /\ ~releasing
    /\ drawdown' = FALSE /\ armed' = FALSE /\ reason' = {}
    /\ anchor' = NoAnchor /\ verdict' = "none"
    /\ halted' = FALSE /\ NothingInForce
    /\ UNCHANGED <<stopFile, streak, pc, found, releasing>>

-----------------------------------------------------------------------------
(* release_kill_switch: unlink the file, then clear the latch. *)

ReleaseUnlink ==
    /\ ~releasing
    /\ ReleasedDuringCheck \/ pc = "idle"
    /\ stopFile' = FALSE /\ releasing' = TRUE
    /\ UNCHANGED <<drawdown, streak, rowVars, checkVars, historyVars>>

\* Faulty variant: the release only removes the file.
NotCleared == [armed |-> armed, reason |-> reason]

\* The one write that can disarm the row.
Cleared == [armed |-> FALSE, reason |-> {}]

ClearKillSwitchLatch ==
    /\ releasing
    /\ armed' = Cleared.armed /\ reason' = Cleared.reason /\ releasing' = FALSE
    /\ halted' = FALSE
    /\ override' = CASE stopFile               -> "none"
                     [] ~stopFile /\ ~drawdown /\ ~streak -> "calm"
                     [] OTHER                  -> "stressed"
    /\ UNCHANGED <<worldVars, checkVars, inForce>>

-----------------------------------------------------------------------------
(* The tick. *)

StartTick ==
    /\ pc = "idle"
    /\ ReleasedDuringCheck \/ ~releasing
    /\ pc' = "reconciling" /\ verdict' = "none"
    /\ UNCHANGED <<worldVars, rowVars, found, anchor, releasing, historyVars>>

\* Rule 10: does the stop file exist?
SampleStopFile ==
    /\ pc = "reconciling"
    /\ found' = IF stopFile THEN {"manual"} ELSE {}
    /\ pc' = "sampled"
    /\ inForce' = override
    /\ UNCHANGED <<worldVars, rowVars, anchor, verdict, releasing, halted, override>>

ReadAnchor ==
    /\ pc = "sampled"
    /\ anchor' = [armed |-> armed, reason |-> reason]
    /\ pc' = "anchored"
    /\ UNCHANGED <<worldVars, rowVars, found, verdict, releasing, historyVars>>

\* Faulty variant: every tick decides afresh.
NotLatched == FALSE

\* The session latch: the row is armed and names an automatic cause.
Latched == anchor.armed /\ anchor.reason \cap Automatic # {}

\* Rules 8 and 9; without a cause of its own the check repeats a latched one.
Measure ==
    LET causes == found \cup (IF drawdown THEN {"drawdown"} ELSE {})
                        \cup (IF streak THEN {"consecutive"} ELSE {})
    IN  /\ pc = "anchored"
        /\ found' = IF causes = {} /\ Latched THEN anchor.reason ELSE causes
        /\ pc' = "measured"
        /\ UNCHANGED <<worldVars, rowVars, anchor, verdict, releasing, historyVars>>

\* Faulty variants: the latest check's outcome replaces the row; the latch is
\* stored as a cause of its own.
Replaced   == [armed |-> found # {}, reason |-> found]
Relabelled == [armed |-> armed \/ found # {}, reason |-> found \cup {"latched"}]

\* The upsert keeps the larger armed flag and the FIRST reason.
Upserted == [armed  |-> armed \/ found # {},
             reason |-> IF reason # {} THEN reason ELSE found]

Persist ==
    /\ pc = "measured"
    /\ armed' = Upserted.armed /\ reason' = Upserted.reason
    /\ verdict' = IF found # {} THEN "tripped" ELSE "ok"
    /\ halted' = (halted \/ found \cap Automatic # {})
    /\ pc' = "checked"
    /\ UNCHANGED <<worldVars, found, anchor, releasing, override, inForce>>

\* Entries are proposed only if the verdict is "ok"; then the tick ends.
EndTick ==
    /\ pc = "checked"
    /\ pc' = "idle"
    /\ UNCHANGED <<worldVars, rowVars, found, anchor, verdict, releasing, historyVars>>

\* The process dies, or an exception of the check ends it; a supervisor
\* restarts it.
Restart ==
    /\ pc # "idle"
    /\ pc' = "idle" /\ found' = {} /\ anchor' = NoAnchor /\ verdict' = "none"
    /\ UNCHANGED <<worldVars, rowVars, releasing, historyVars>>

\* A roll sells its new short only if this holds: it reads the file and the row
\* itself, because the check comes later in the tick.
RollMaySell == ~stopFile /\ ~armed

-----------------------------------------------------------------------------
TickStep == StartTick \/ SampleStopFile \/ ReadAnchor \/ Measure \/ Persist \/ EndTick

Next ==
    \/ TickStep \/ Restart
    \/ EngageKillSwitch \/ RemoveStopFile \/ EquityMoves \/ CycleCloses \/ NewDay
    \/ ReleaseUnlink \/ ClearKillSwitchLatch

Spec == Init /\ [][Next]_vars

\* The loop keeps ticking and a release command runs to its end.
FairSpec == Spec /\ WF_vars(TickStep) /\ WF_vars(ClearKillSwitchLatch)

-----------------------------------------------------------------------------
(* Properties. *)

\* A trip on record under an automatic cause stays tripped for the rest of the
\* session: no check of the same day lets entries through until an operator
\* releases the switch, also if equity recovers, a cycle closes at a profit, the
\* stop file comes and goes or the process restarts.
RecordedTripHolds == reason \cap Automatic # {} => verdict # "ok"

\* "An automatic trip now stays tripped for the rest of the snapshot_date":
\* every automatic trip, also one that happened under a manual stop.
LatchHolds == halted => verdict # "ok"

\* While an automatic trip holds, the row the roll path reads is armed: a roll
\* does not sell a new short though its own check has not run yet.
HaltIsRecorded == halted => ~RollMaySell

\* A release made when no cause persists is respected: a check begun after it
\* does not trip until something new happens.
CalmReleaseRespected == inForce = "calm" => verdict # "tripped" \/ pc # "checked"

\* "The operator always has the override": also a release made while a cause
\* persists lets the next check pass.
OperatorAlwaysHasTheOverride ==
    inForce # "none" => verdict # "tripped" \/ pc # "checked"

\* Manual trips are not latched: once the file is gone and a check that found no
\* cause has completed, rolls may sell again.
ManualTripsAreNotLatched ==
    (pc = "checked" /\ verdict = "ok" /\ ~stopFile) => RollMaySell

\* If from some moment on no cause persists and the operator keeps releasing the
\* switch, entries are eventually let through for good.
NoCause == ~stopFile /\ ~drawdown /\ ~streak
TradingResumes ==
    (<>[]NoCause /\ []<>releasing) => <>[](pc = "checked" => verdict = "ok")

\* The switch is the gate that module TradingGate describes: an automatic halt
\* is the cause on record in the row, and the gate is open after a check that
\* found nothing, until the next tick.
Gate == INSTANCE TradingGate WITH
            halt     <- reason \cap Automatic # {},
            mayTrade <- verdict = "ok"

ImplementsTradingGate == Gate!GateSpec
=============================================================================
