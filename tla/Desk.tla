--------------------------------- MODULE Desk ---------------------------------
(***************************************************************************)
(* What takes the rows of one symbol out of the bot's hands and gives them *)
(* back: the loop's failure counter (execution/loop.py), the earnings      *)
(* recheck and its watchdog (risk/earnings_recheck.py), and from processes *)
(* of their own the operator's restore (risk/manual_flags.py) and flatten  *)
(* (mcp_server/service.py).  What the reconcile pass itself does to a row  *)
(* is module Reconciler's; here it opens, ends or flags one.               *)
(*                                                                         *)
(* The recheck and its watchdog know what a row holds from its cycle: from *)
(* a filled opening order of it with an expiration.  A row without one is  *)
(* passed over by both, and a flatten makes such rows: it clears the cycle *)
(* whether or not the broker let it close the legs, and the flag that the  *)
(* recheck writes over the row, or the restore of it, brings none back.    *)
(***************************************************************************)
EXTENDS Naturals, FiniteSets

CONSTANTS
    Wheels,         \* the symbol's wheel rows
    Spreads,        \* its spread rows
    WheelStates,    \* which of CSP_OPEN and CC_OPEN a wheel row goes through
    FirstRow,       \* the row a lookup by symbol alone returns
    MaxFailures,    \* max_failures_before_pause
    CheckInterval,  \* check_interval_ticks
    RecheckActions  \* earnings_recheck.action, one of "flag_manual" and "close"

Rows == Wheels \cup Spreads

ASSUME DeskAssumption ==
    /\ Wheels \cap Spreads = {} /\ FirstRow \in Rows
    /\ WheelStates \subseteq {"CSP_OPEN", "CC_OPEN"}
    /\ MaxFailures \in Nat \ {0} /\ CheckInterval \in Nat \ {0}
    /\ RecheckActions \subseteq {"flag_manual", "close"}

VARIABLES
    row,        \* each row's state
    legs,       \* the broker holds legs of the row's position
    knownLeg,   \* the row's current cycle has a filled opening order with an expiration;
                \* not read of an IDLE row
    flagLog,    \* the newest state_log entry into MANUAL: its from_state and its author
    estimate,   \* next earnings as the provider has it: "inside" the hold, "outside", "unknown"
    reachable,  \* a reconcile pass succeeds
    failures,   \* consecutive failed ticks, in memory
    sinceCheck, \* ticks_since_check, in memory
    deskStep,   \* where the tick is; "cut" if the one before it was cut short
    active,     \* the rows as list_active returned them, as far as their cycle tells a leg;
                \* "IDLE" for one it tells none of, and once a row was visited
    todo,       \* those the tick has still to visit
    flagging,   \* a flag whose log entry is not written: row, from_state and author
    flattening, \* a flatten has closed the legs and not yet written the row
    action      \* the configured action

deskVars == <<row, legs, knownLeg, flagLog, estimate, reachable, failures, sinceCheck, deskStep,
              active, todo, flagging, flattening, action>>
positions == <<row, legs, knownLeg>>
worldOf  == <<estimate, reachable, action>>
memory   == <<failures, sinceCheck, deskStep, active, todo, flagging>>

OpenStates(r) == IF r \in Wheels THEN WheelStates ELSE {"SPREAD_OPEN"}
Eligible  == {"CSP_OPEN", "CC_OPEN", "SPREAD_OPEN"}
RowStates == Eligible \cup {"IDLE", "MANUAL", "BROKER_DOWN"}
Authors   == {"recheck", "reconciler"}
NoLogEntry   == [from |-> "none", by |-> "nobody"]
LogEntries   == [from : Eligible, by : Authors] \cup {NoLogEntry}
NoFlag    == [row |-> "none", entry |-> NoLogEntry]

DeskTypeOK ==
    /\ row \in [Rows -> RowStates] /\ legs \in [Rows -> BOOLEAN] /\ knownLeg \in [Rows -> BOOLEAN]
    /\ flagLog \in [Rows -> LogEntries]
    /\ estimate \in {"inside", "outside", "unknown"} /\ reachable \in BOOLEAN
    /\ failures \in 0 .. MaxFailures /\ sinceCheck \in 0 .. CheckInterval - 1
    /\ deskStep \in {"idle", "cut", "reconciled", "recheck", "watchdog", "marking"}
    /\ active \in [Rows -> RowStates] /\ todo \subseteq Rows
    /\ flagging \in [row : Rows, entry : LogEntries] \cup {NoFlag}
    /\ flattening \in BOOLEAN
    /\ action \in RecheckActions

AllIdle == [r \in Rows |-> "IDLE"]

DeskInit ==
    /\ row = AllIdle
    /\ legs = [r \in Rows |-> FALSE] /\ knownLeg = [r \in Rows |-> FALSE]
    /\ flagLog = [r \in Rows |-> NoLogEntry]
    /\ estimate = "outside" /\ reachable = TRUE
    /\ failures = 0 /\ sinceCheck = 0 /\ deskStep = "idle" /\ active = AllIdle /\ todo = {}
    /\ flagging = NoFlag /\ flattening = FALSE
    /\ action \in RecheckActions

UpdateState(r, state) == row' = [row EXCEPT ![r] = state]

-----------------------------------------------------------------------------
(* The loop: ReconcilerLoop.tick. *)

Leave(step) == deskStep' = step /\ active' = AllIdle /\ todo' = {}
ToIdle == Leave("idle")

TickSucceeds ==
    /\ deskStep \in {"idle", "cut"} /\ reachable
    /\ failures' = 0 /\ deskStep' = "reconciled"
    /\ UNCHANGED <<positions, flagLog, worldOf, sinceCheck, active, todo, flagging,
                   flattening>>

\* Faulty variant: a failure after the session was primed counts from one again.
CountsFromOne == 1

Counted == IF failures < MaxFailures THEN failures + 1 ELSE failures

\* The connection fails; from max_failures_before_pause on, so are all rows
\* marked that are active now.
TickFails ==
    /\ deskStep \in {"idle", "cut"} /\ ~ reachable
    /\ failures' = Counted
    /\ IF failures' >= MaxFailures
       THEN deskStep' = "marking" /\ todo' = {r \in Rows : row[r] # "IDLE"}
       ELSE deskStep' = "idle" /\ UNCHANGED todo
    /\ UNCHANGED <<positions, flagLog, worldOf, sinceCheck, active, flagging, flattening>>

\* BROKER_DOWN over whatever the row says by now; nothing is logged.
MarkBrokerDown ==
    /\ deskStep = "marking"
    /\ \/ \E r \in todo :
            UpdateState(r, "BROKER_DOWN") /\ todo' = todo \ {r} /\ UNCHANGED <<deskStep, active>>
       \/ todo = {} /\ ToIdle /\ UNCHANGED row
    /\ UNCHANGED <<legs, knownLeg, flagLog, worldOf, failures, sinceCheck, flagging, flattening>>

\* The reconcile pass, seen from here.  It opens a row, whose cycle may come without
\* the order that a crash kept it from tagging, or with one without an expiration;
\* it ends one whose legs are gone or go; or it flags one, with a log entry.  (That it
\* may flag an idle row too, in an audit of cycles days old, is module Reconciler's.)
ReconcileRow(r) ==
    /\ deskStep = "reconciled"
    /\ \/ /\ row[r] = "IDLE" /\ \E s \in OpenStates(r) : UpdateState(r, s)
          /\ legs' = [legs EXCEPT ![r] = TRUE] /\ UNCHANGED flagLog
          /\ \E known \in BOOLEAN : knownLeg' = [knownLeg EXCEPT ![r] = known]
       \/ /\ row[r] \in Eligible /\ UpdateState(r, "IDLE")
          /\ legs' = [legs EXCEPT ![r] = FALSE] /\ UNCHANGED flagLog
          /\ knownLeg' = [knownLeg EXCEPT ![r] = FALSE]
       \/ /\ row[r] \in Eligible
          /\ UpdateState(r, "MANUAL")
          /\ flagLog' = [flagLog EXCEPT ![r] = [from |-> row[r], by |-> "reconciler"]]
          /\ UNCHANGED <<legs, knownLeg>>
    /\ UNCHANGED <<worldOf, memory, flattening>>

-----------------------------------------------------------------------------
(* check_open_positions_for_new_earnings. *)

\* Faulty variant: every row but a flagged one.
EveryActiveRow == {r \in Rows : row[r] \notin {"IDLE", "MANUAL"}}

\* Rows in a state that holds an expiration, and with a cycle that tells it.
Rechecked == {r \in Rows : row[r] \in Eligible /\ knownLeg[r]}

\* list_active, which the recheck and the watchdog read with one guard: neither looks
\* any further at a row without a cycle, or whose cycle tells no expiration.
Listed(r) == IF knownLeg[r] THEN row[r] ELSE "IDLE"

\* Every check_interval_ticks-th call reads the rows; the others return.
EarningsRecheck ==
    /\ deskStep = "reconciled"
    /\ IF sinceCheck + 1 < CheckInterval
       THEN sinceCheck' = sinceCheck + 1 /\ ToIdle
       ELSE /\ sinceCheck' = 0 /\ deskStep' = "recheck"
            /\ active' = [r \in Rows |-> Listed(r)] /\ todo' = Rechecked
    /\ UNCHANGED <<positions, flagLog, worldOf, failures, flagging, flattening>>

\* No date: not at risk as far as the bot can tell.
AtRisk == estimate = "inside"

\* Faulty variant: what cannot be closed is skipped.
FlagsOnly(r) == action = "flag_manual"

\* A spread cannot be closed from here, it is flagged.
IsFlagged(r) == action = "flag_manual" \/ active[r] = "SPREAD_OPEN"

\* A row that is fine, or that is to be closed: the switch may be tripped, the
\* router may drop the order, and the pass takes no notice.
PassesOver(r) ==
    /\ deskStep = "recheck" /\ flagging = NoFlag /\ r \in todo
    /\ ~ (AtRisk /\ IsFlagged(r))
    /\ todo' = todo \ {r} /\ active' = [active EXCEPT ![r] = "IDLE"]
    /\ legs' \in IF AtRisk THEN {legs, [legs EXCEPT ![r] = FALSE]} ELSE {legs}
    /\ UNCHANGED <<row, knownLeg, flagLog, worldOf, failures, sinceCheck, deskStep, flagging, flattening>>

\* _flag_manual: the row first, without a second look at it.
FlagManual(r) ==
    /\ deskStep = "recheck" /\ flagging = NoFlag /\ r \in todo
    /\ AtRisk /\ IsFlagged(r)
    /\ UpdateState(r, "MANUAL")
    /\ flagging' = [row |-> r, entry |-> [from |-> active[r], by |-> "recheck"]]
    /\ todo' = todo \ {r} /\ active' = [active EXCEPT ![r] = "IDLE"]
    /\ UNCHANGED <<legs, knownLeg, flagLog, worldOf, failures, sinceCheck, deskStep, flattening>>

LogFlag ==
    /\ flagging # NoFlag /\ flagging' = NoFlag
    /\ flagLog' = [flagLog EXCEPT ![flagging.row] = flagging.entry]
    /\ UNCHANGED <<positions, worldOf, failures, sinceCheck, deskStep, active, todo,
                   flattening>>

\* Faulty variant: the watchdog is handed the rows the recheck looks at.
EligibleOnly == {r \in Rows : active[r] \in Eligible}

\* The flagged rows as they were when the pass began, by Listed only those with a
\* cycle that tells their expiration.
Watched == {r \in Rows : active[r] = "MANUAL"}

BeginWatchdog ==
    /\ deskStep = "recheck" /\ todo = {} /\ flagging = NoFlag
    /\ deskStep' = "watchdog" /\ todo' = Watched
    /\ UNCHANGED <<positions, flagLog, worldOf, failures, sinceCheck, active, flagging,
                   flattening>>

\* The watchdog asks for a nudge about a flag of the recheck's own whose estimate
\* has moved out of the hold; module AlertLimiter has what becomes of it.
AsksForNudge(r) ==
    deskStep = "watchdog" /\ r \in todo /\ flagLog[r].by = "recheck" /\ estimate = "outside"

WatchFlag ==
    /\ deskStep = "watchdog"
    /\ \/ \E r \in todo :
            todo' = todo \ {r} /\ active' = [active EXCEPT ![r] = "IDLE"] /\ UNCHANGED deskStep
       \/ todo = {} /\ ToIdle
    /\ UNCHANGED <<positions, flagLog, worldOf, failures, sinceCheck, flagging, flattening>>

\* The provider's lookup raises: _post_tick reports it and goes on without.
RecheckRaises ==
    /\ deskStep \in {"recheck", "watchdog"} /\ flagging = NoFlag
    /\ Leave("cut")
    /\ UNCHANGED <<positions, flagLog, worldOf, failures, sinceCheck, flagging,
                   flattening>>

\* The process ends, also by an exception of the kill switch's check, and is
\* started again; both counters begin anew.
BotDies ==
    /\ failures' = 0 /\ sinceCheck' = 0 /\ flagging' = NoFlag /\ Leave("cut")
    /\ UNCHANGED <<positions, flagLog, worldOf, flattening>>

-----------------------------------------------------------------------------
(* The operator and the world. *)

\* restore_position without an explicit state.  Refused unless the row is
\* flagged and the newest entry into MANUAL names where from.
RestorePosition(r) ==
    /\ row[r] = "MANUAL" /\ flagLog[r] # NoLogEntry
    /\ UpdateState(r, flagLog[r].from)
    /\ UNCHANGED <<legs, knownLeg, flagLog, worldOf, memory, flattening>>

\* flatten_position closes every leg of the symbol, as far as the broker lets it,
FlattenCloses ==
    /\ ~ flattening /\ \E r \in Rows : legs[r]
    /\ legs' \in {f \in [Rows -> BOOLEAN] : \A r \in Rows : f[r] => legs[r]}
    /\ flattening' = TRUE
    /\ UNCHANGED <<row, knownLeg, flagLog, worldOf, memory>>

\* and then marks one row IDLE and without a cycle, the first of the symbol, whatever
\* the broker said.
FlattenMarks ==
    /\ flattening /\ flattening' = FALSE
    /\ UpdateState(FirstRow, "IDLE") /\ knownLeg' = [knownLeg EXCEPT ![FirstRow] = FALSE]
    /\ UNCHANGED <<legs, flagLog, worldOf, memory>>

WorldTurns ==
    /\ estimate' \in {"inside", "outside", "unknown"} /\ reachable' \in BOOLEAN
    /\ UNCHANGED <<positions, flagLog, memory, flattening, action>>

-----------------------------------------------------------------------------
DeskStep ==
    \/ TickSucceeds \/ TickFails \/ MarkBrokerDown
    \/ EarningsRecheck \/ LogFlag \/ BeginWatchdog \/ WatchFlag
    \/ \E r \in Rows : PassesOver(r) \/ FlagManual(r)

DeskNext ==
    \/ DeskStep \/ RecheckRaises \/ BotDies
    \/ \E r \in Rows : ReconcileRow(r) \/ RestorePosition(r)
    \/ FlattenCloses \/ FlattenMarks \/ WorldTurns

DeskSpec == DeskInit /\ [][DeskNext]_deskVars

\* The loop goes on ticking.
FairDeskSpec == DeskSpec /\ WF_deskVars(DeskStep)

-----------------------------------------------------------------------------
(* Properties. *)

\* From some moment on neither the process nor a recheck is cut short.
Settled == <>[](deskStep # "cut")

\* While earnings stay inside the hold, no row that the recheck is to flag goes
\* unmanaged and unflagged for good: every open one becomes a human's again and
\* again, however often it is restored and whatever the kill switch says, provided
\* the process and the connection last for a pass.  Only a row whose cycle is lost,
\* by a flatten or by an order left untagged, is out of the recheck's sight.
EarningsRiskSurfaces ==
    (Settled /\ <>[](estimate = "inside" /\ reachable)) =>
        \A r \in Rows :
            (action = "flag_manual" \/ r \in Spreads) =>
                []<>(row[r] \notin Eligible \/ ~ knownLeg[r])

\* Once the estimate has moved out of the hold for good, a flag of the recheck
\* that nobody lifts is brought up again and again, not forgotten, as long as the
\* row has its cycle.
StaleFlagsComeUp ==
    (Settled /\ <>[](estimate = "outside" /\ reachable)) =>
        \A r \in Rows :
            <>[](row[r] = "MANUAL" /\ flagLog[r].by = "recheck" /\ knownLeg[r]) =>
                []<><<AsksForNudge(r) /\ r \notin todo'>>_deskVars

\* "a flag that silently disappears is worse than a nudge": the flag of a row whose
\* cycle a flatten has cleared disappears from the watchdog.
EveryFlagComesUp ==
    (Settled /\ <>[](estimate = "outside" /\ reachable)) =>
        \A r \in Rows :
            <>[](row[r] = "MANUAL" /\ flagLog[r].by = "recheck") =>
                []<><<AsksForNudge(r) /\ r \notin todo'>>_deskVars

\* An outage that lasts takes every row out of the bot's hands, those restored
\* during it included.
OutagePausesRows ==
    (Settled /\ <>[](~ reachable)) => <>[](\A r \in Rows : row[r] \notin Eligible)

\* "MANUAL_INTERVENTION is a one-way latch by design - the bot never auto-clears it".
ManualIsOneWay ==
    [][\A r \in Rows : row[r] = "MANUAL" =>
         row'[r] = "MANUAL" \/ RestorePosition(r) \/ FlattenMarks]_deskVars

\* A restore puts a row "back exactly where it was when the bot flagged it", so
\* the flag of every flagged row is on record.
FlagsAreOnRecord ==
    \A r \in Rows : row[r] = "MANUAL" /\ flagging.row # r => flagLog[r] # NoLogEntry

\* A row is not booked flat while the broker holds its legs.
FlatMeansFlat == \A r \in Rows : row[r] = "IDLE" => ~ legs[r]
=============================================================================
