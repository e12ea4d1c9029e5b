-------------------------- MODULE KillSwitch_proofs --------------------------
(***************************************************************************)
(* Proofs about the kill switch: the type invariant, the record of an      *)
(* automatic halt and the latch of a recorded trip hold whatever operators *)
(* do; a calm release is respected if releases do not land in the middle   *)
(* of a check; every automatic trip is latched if, besides, only releases  *)
(* remove the stop file; and the switch implements module TradingGate.     *)
(***************************************************************************)
EXTENDS KillSwitch, TLAPS

\* Every variable keeps its type, for any use of the stop file and the release.
THEOREM TypeCorrect == Spec => []TypeOK
<1>1. Init => TypeOK
  <2> SUFFICES ASSUME Init PROVE TypeOK
    OBVIOUS
  <2>1. stopFile \in BOOLEAN /\ drawdown \in BOOLEAN /\ streak \in BOOLEAN
    BY DEF Init
  <2>2. armed \in BOOLEAN /\ reason \in SUBSET Causes
    BY DEF Init
  <2>3. pc \in Places /\ found \in SUBSET Causes
    BY DEF Init, Places
  <2>4. anchor \in [armed : BOOLEAN, reason : SUBSET Causes]
    BY DEF Init, NoAnchor
  <2>5. verdict \in {"none", "ok", "tripped"} /\ releasing \in BOOLEAN
    BY DEF Init
  <2>6. halted \in BOOLEAN /\ override \in Releases /\ inForce \in Releases
    BY DEF Init, Releases
  <2> QED
    BY <2>1, <2>2, <2>3, <2>4, <2>5, <2>6 DEF TypeOK
<1>2. TypeOK /\ [Next]_vars => TypeOK'
  <2> SUFFICES ASSUME TypeOK, [Next]_vars
               PROVE  TypeOK'
    OBVIOUS
  <2> USE DEF TypeOK, Places, Releases, worldVars, rowVars, checkVars, historyVars
  <2>1. CASE EngageKillSwitch
    BY <2>1 DEF EngageKillSwitch, NothingInForce
  <2>2. CASE RemoveStopFile
    <3>1. stopFile' \in BOOLEAN
      BY <2>2 DEF RemoveStopFile
    <3>2. UNCHANGED <<drawdown, streak, rowVars, checkVars, releasing, historyVars>>
      BY <2>2 DEF RemoveStopFile
    <3> QED
      BY <3>1, <3>2
  <2>3. CASE EquityMoves
    BY <2>3 DEF EquityMoves, NothingInForce
  <2>4. CASE CycleCloses
    BY <2>4 DEF CycleCloses, NothingInForce
  <2>5. CASE NewDay
    BY <2>5 DEF NewDay, NothingInForce, NoAnchor
  <2>6. CASE ReleaseUnlink
    BY <2>6 DEF ReleaseUnlink
  <2>7. CASE ClearKillSwitchLatch
    BY <2>7 DEF ClearKillSwitchLatch, Cleared
  <2>8. CASE TickStep
    <3>1. CASE StartTick
      BY <3>1 DEF StartTick
    <3>2. CASE SampleStopFile
      BY <3>2 DEF SampleStopFile, Causes
    <3>3. CASE ReadAnchor
      BY <3>3 DEF ReadAnchor
    <3>4. CASE Measure
      BY <3>4 DEF Measure, Causes
    <3>5. CASE Persist
      BY <3>5 DEF Persist, Upserted
    <3>6. CASE EndTick
      BY <3>6 DEF EndTick
    <3> QED
      BY <2>8, <3>1, <3>2, <3>3, <3>4, <3>5, <3>6 DEF TickStep
  <2>9. CASE Restart
    BY <2>9 DEF Restart, NoAnchor
  <2>10. CASE UNCHANGED vars
    BY <2>10 DEF vars
  <2> QED
    BY <2>1, <2>2, <2>3, <2>4, <2>5, <2>6, <2>7, <2>8, <2>9, <2>10 DEF Next
<1> QED
  BY <1>1, <1>2, PTL DEF Spec

-----------------------------------------------------------------------------
\* An automatic trip is on record in the row for as long as it holds.
Recorded == halted => armed

\* A roll sells no new short while an automatic trip holds, whether or not the
\* stop file is removed by hand and releases land in the middle of a check.
THEOREM RollsRespectTheHalt == Spec => []HaltIsRecorded
<1>1. Init => Recorded
  BY DEF Init, Recorded
<1>2. TypeOK /\ Recorded /\ [Next]_vars => Recorded'
  <2> SUFFICES ASSUME TypeOK, Recorded, [Next]_vars
               PROVE  Recorded'
    OBVIOUS
  <2>1. CASE Persist
    BY <2>1 DEF Persist, Upserted, Recorded, TypeOK, Causes
  <2>2. CASE NewDay \/ ClearKillSwitchLatch
    BY <2>2 DEF NewDay, ClearKillSwitchLatch, Recorded
  <2>3. CASE UNCHANGED <<armed, halted>>
    BY <2>3 DEF Recorded
  <2>4. Persist \/ NewDay \/ ClearKillSwitchLatch \/ UNCHANGED <<armed, halted>>
    BY DEF Next, TickStep, StartTick, SampleStopFile, ReadAnchor, Measure, EndTick,
           Restart, EngageKillSwitch, RemoveStopFile, EquityMoves, CycleCloses,
           ReleaseUnlink, NothingInForce, rowVars, checkVars, historyVars, vars
  <2> QED
    BY <2>1, <2>2, <2>3, <2>4
<1>3. TypeOK /\ Recorded => HaltIsRecorded
  BY DEF TypeOK, Recorded, HaltIsRecorded, RollMaySell
<1> QED
  BY <1>1, <1>2, <1>3, TypeCorrect, PTL DEF Spec

-----------------------------------------------------------------------------
\* Why a recorded trip holds.  Nothing but a release or a new day takes the cause
\* off the row, and a release leaves none; so a check that read no automatic
\* cause ends before another one can write it, and one that read it repeats it.
RecordInv ==
    /\ armed <=> reason # {}
    /\ (pc = "anchored" /\ reason \cap Automatic # {}) =>
          anchor.armed /\ anchor.reason \cap Automatic # {}
    /\ (pc = "measured" /\ reason \cap Automatic # {}) => found # {}
    /\ RecordedTripHolds

\* The invariant behind the latch of a recorded trip.
LEMMA RecordInvariant == Spec => [](TypeOK /\ RecordInv)
<1>1. Init => RecordInv
  BY DEF Init, RecordInv, RecordedTripHolds
<1>2. TypeOK /\ RecordInv /\ [Next]_vars => RecordInv'
  <2> SUFFICES ASSUME TypeOK, RecordInv, [Next]_vars
               PROVE  RecordInv'
    OBVIOUS
  <2> USE DEF TypeOK, Places, RecordInv, RecordedTripHolds, Causes, Automatic,
              worldVars, rowVars, checkVars, historyVars
  <2>1. CASE EngageKillSwitch
    BY <2>1 DEF EngageKillSwitch, NothingInForce
  <2>2. CASE RemoveStopFile
    BY <2>2 DEF RemoveStopFile
  <2>3. CASE EquityMoves
    BY <2>3 DEF EquityMoves, NothingInForce
  <2>4. CASE CycleCloses
    BY <2>4 DEF CycleCloses, NothingInForce
  <2>5. CASE NewDay
    BY <2>5 DEF NewDay, NothingInForce, NoAnchor
  <2>6. CASE ReleaseUnlink
    BY <2>6 DEF ReleaseUnlink
  <2>7. CASE ClearKillSwitchLatch
    BY <2>7 DEF ClearKillSwitchLatch, Cleared
  <2>8. CASE TickStep
    <3>1. CASE StartTick
      BY <3>1 DEF StartTick
    <3>2. CASE SampleStopFile
      BY <3>2 DEF SampleStopFile
    <3>3. CASE ReadAnchor
      BY <3>3 DEF ReadAnchor
    <3>4. CASE Measure
      BY <3>4 DEF Measure, Latched
    <3>5. CASE Persist
      BY <3>5 DEF Persist, Upserted
    <3>6. CASE EndTick
      BY <3>6 DEF EndTick
    <3> QED
      BY <2>8, <3>1, <3>2, <3>3, <3>4, <3>5, <3>6 DEF TickStep
  <2>9. CASE Restart
    BY <2>9 DEF Restart, NoAnchor
  <2>10. CASE UNCHANGED vars
    BY <2>10 DEF vars
  <2> QED
    BY <2>1, <2>2, <2>3, <2>4, <2>5, <2>6, <2>7, <2>8, <2>9, <2>10 DEF Next
<1> QED
  BY <1>1, <1>2, TypeCorrect, PTL DEF Spec

\* A trip recorded under an automatic cause is latched for the session, whoever
\* removes the stop file and wherever in a check a release lands.
THEOREM RecordedTripsLatch == Spec => []RecordedTripHolds
<1>1. RecordInv => RecordedTripHolds
  BY DEF RecordInv
<1> QED
  BY <1>1, RecordInvariant, PTL

\* The switch implements the gate of module TradingGate, for any use of the stop
\* file and the release: a check shuts it, leaves it shut or, with no automatic
\* cause on record, opens it; a release lifts the halt and opens nothing.
THEOREM SwitchIsAGate == Spec => ImplementsTradingGate
<1>1. Init => Gate!GateInit
  BY DEF Init, Gate!GateInit
<1>2. TypeOK /\ RecordInv /\ [Next]_vars => [Gate!GateNext]_Gate!gateVars
  <2> SUFFICES ASSUME TypeOK, RecordInv, [Next]_vars
               PROVE  [Gate!GateNext]_Gate!gateVars
    OBVIOUS
  <2> DEFINE halt     == reason \cap Automatic # {}
             mayTrade == verdict = "ok"
  <2>1. CASE Persist
    <3>1. CASE found = {}
      <4>1. reason' = reason /\ mayTrade'
        BY <2>1, <3>1 DEF Persist, Upserted
      <4>2. ~ halt
        BY <2>1, <3>1 DEF Persist, RecordInv
      <4> QED
        BY <4>1, <4>2 DEF Gate!GateNext, Gate!Permit
    <3>2. CASE found # {}
      <4>1. ~ mayTrade'
        BY <2>1, <3>2 DEF Persist
      <4>2. halt' \/ halt' = halt
        BY <2>1 DEF Persist, Upserted
      <4> QED
        BY <4>1, <4>2 DEF Gate!GateNext, Gate!Halt, Gate!Withhold
    <3> QED
      BY <3>1, <3>2
  <2>2. CASE ClearKillSwitchLatch
    <3>1. ~ halt' /\ mayTrade' = mayTrade
      BY <2>2 DEF ClearKillSwitchLatch, Cleared, checkVars
    <3> QED
      BY <3>1 DEF Gate!GateNext, Gate!Lift
  <2>3. CASE NewDay
    <3>1. ~ halt' /\ ~ mayTrade'
      BY <2>3 DEF NewDay
    <3> QED
      BY <3>1 DEF Gate!GateNext, Gate!EndSession
  <2>4. CASE StartTick \/ Restart
    <3>1. reason' = reason /\ ~ mayTrade'
      BY <2>4 DEF StartTick, Restart, rowVars
    <3> QED
      BY <3>1 DEF Gate!GateNext, Gate!Withhold
  <2>5. CASE UNCHANGED <<reason, verdict>>
    BY <2>5 DEF Gate!gateVars
  <2>6. \/ Persist \/ ClearKillSwitchLatch \/ NewDay \/ StartTick \/ Restart
        \/ UNCHANGED <<reason, verdict>>
    BY DEF Next, TickStep, SampleStopFile, ReadAnchor, Measure, EndTick,
           EngageKillSwitch, RemoveStopFile, EquityMoves, CycleCloses,
           ReleaseUnlink, NothingInForce, rowVars, checkVars, historyVars, vars
  <2> QED
    BY <2>1, <2>2, <2>3, <2>4, <2>5, <2>6
<1> QED
  BY <1>1, <1>2, RecordInvariant, PTL DEF Spec, ImplementsTradingGate, Gate!GateSpec

-----------------------------------------------------------------------------
\* Why the latch holds.  A halt is either on record as automatic, in which case
\* every check repeats it, or the row was armed by hand first and keeps that
\* reason; then the stop file is still there, since only a release removes it.
Halting == "manual" \in found \/ (armed /\ reason \cap Automatic # {})

LatchInv ==
    /\ armed <=> reason # {}
    /\ releasing => pc = "idle"
    /\ (pc \in {"sampled", "anchored", "measured"} /\ "manual" \in found) => stopFile
    /\ ("manual" \in reason /\ ~releasing) => stopFile
    /\ pc = "anchored" => anchor.armed = armed /\ anchor.reason = reason
    /\ (halted /\ pc \in {"sampled", "anchored"}) => Halting
    /\ (halted /\ pc = "measured") => found # {}
    /\ halted => armed /\ verdict # "ok"

\* An automatic trip stays tripped until it is released, provided the stop file
\* is removed only by the release command and never in the middle of a check.
THEOREM AutomaticTripsLatch ==
    ASSUME ~RemovedByHand, ~ReleasedDuringCheck
    PROVE  Spec => []LatchHolds
<1>1. Init => LatchInv
  BY DEF Init, LatchInv, Halting
<1>2. TypeOK /\ LatchInv /\ [Next]_vars => LatchInv'
  <2> SUFFICES ASSUME TypeOK, LatchInv, [Next]_vars
               PROVE  LatchInv'
    OBVIOUS
  <2> USE DEF TypeOK, Places, LatchInv, Halting, Causes, Automatic,
              worldVars, rowVars, checkVars, historyVars
  <2>1. CASE EngageKillSwitch
    BY <2>1 DEF EngageKillSwitch, NothingInForce
  <2>2. CASE RemoveStopFile
    BY <2>2 DEF RemoveStopFile
  <2>3. CASE EquityMoves
    BY <2>3 DEF EquityMoves, NothingInForce
  <2>4. CASE CycleCloses
    BY <2>4 DEF CycleCloses, NothingInForce
  <2>5. CASE NewDay
    BY <2>5 DEF NewDay, NothingInForce, NoAnchor
  <2>6. CASE ReleaseUnlink
    BY <2>6 DEF ReleaseUnlink
  <2>7. CASE ClearKillSwitchLatch
    BY <2>7 DEF ClearKillSwitchLatch, Cleared
  <2>8. CASE TickStep
    <3>1. CASE StartTick
      BY <3>1 DEF StartTick
    <3>2. CASE SampleStopFile
      BY <3>2 DEF SampleStopFile
    <3>3. CASE ReadAnchor
      BY <3>3 DEF ReadAnchor
    <3>4. CASE Measure
      BY <3>4 DEF Measure, Latched
    <3>5. CASE Persist
      BY <3>5 DEF Persist, Upserted
    <3>6. CASE EndTick
      BY <3>6 DEF EndTick
    <3> QED
      BY <2>8, <3>1, <3>2, <3>3, <3>4, <3>5, <3>6 DEF TickStep
  <2>9. CASE Restart
    BY <2>9 DEF Restart, NoAnchor
  <2>10. CASE UNCHANGED vars
    BY <2>10 DEF vars
  <2> QED
    BY <2>1, <2>2, <2>3, <2>4, <2>5, <2>6, <2>7, <2>8, <2>9, <2>10 DEF Next
<1>3. LatchInv => LatchHolds
  BY DEF LatchInv, LatchHolds
<1> QED
  BY <1>1, <1>2, <1>3, TypeCorrect, PTL DEF Spec

-----------------------------------------------------------------------------
\* Why a calm release is respected.  While it is the last word no cause exists
\* and the row is clear, so the check begun after it finds nothing to repeat.
CalmInv ==
    /\ releasing => pc = "idle"
    /\ override = "calm" => /\ ~stopFile /\ ~drawdown /\ ~streak
                            /\ ~armed /\ reason = {}
    /\ pc \notin {"idle", "reconciling"} => inForce = override
    /\ inForce = "calm" =>
          /\ override = "calm"
          /\ pc \in {"sampled", "anchored", "measured"} => found = {}
          /\ pc = "anchored" => ~anchor.armed
          /\ pc = "checked" => verdict # "tripped"

\* A check begun after a release made in calm does not trip until something new
\* happens, provided the release did not land in the middle of an earlier check;
\* it does not matter who removes the stop file.
THEOREM CalmReleaseHolds ==
    ASSUME ~ReleasedDuringCheck
    PROVE  Spec => []CalmReleaseRespected
<1>1. Init => CalmInv
  BY DEF Init, CalmInv
<1>2. TypeOK /\ CalmInv /\ [Next]_vars => CalmInv'
  <2> SUFFICES ASSUME TypeOK, CalmInv, [Next]_vars
               PROVE  CalmInv'
    OBVIOUS
  <2> USE DEF TypeOK, Places, Releases, CalmInv, Causes,
              worldVars, rowVars, checkVars, historyVars
  <2>1. CASE EngageKillSwitch
    BY <2>1 DEF EngageKillSwitch, NothingInForce
  <2>2. CASE RemoveStopFile
    BY <2>2 DEF RemoveStopFile
  <2>3. CASE EquityMoves
    BY <2>3 DEF EquityMoves, NothingInForce
  <2>4. CASE CycleCloses
    BY <2>4 DEF CycleCloses, NothingInForce
  <2>5. CASE NewDay
    BY <2>5 DEF NewDay, NothingInForce, NoAnchor
  <2>6. CASE ReleaseUnlink
    BY <2>6 DEF ReleaseUnlink
  <2>7. CASE ClearKillSwitchLatch
    BY <2>7 DEF ClearKillSwitchLatch, Cleared
  <2>8. CASE TickStep
    <3>1. CASE StartTick
      BY <3>1 DEF StartTick
    <3>2. CASE SampleStopFile
      BY <3>2 DEF SampleStopFile
    <3>3. CASE ReadAnchor
      BY <3>3 DEF ReadAnchor
    <3>4. CASE Measure
      BY <3>4 DEF Measure, Latched
    <3>5. CASE Persist
      BY <3>5 DEF Persist, Upserted
    <3>6. CASE EndTick
      BY <3>6 DEF EndTick
    <3> QED
      BY <2>8, <3>1, <3>2, <3>3, <3>4, <3>5, <3>6 DEF TickStep
  <2>9. CASE Restart
    BY <2>9 DEF Restart, NoAnchor
  <2>10. CASE UNCHANGED vars
    BY <2>10 DEF vars
  <2> QED
    BY <2>1, <2>2, <2>3, <2>4, <2>5, <2>6, <2>7, <2>8, <2>9, <2>10 DEF Next
<1>3. TypeOK /\ CalmInv => CalmReleaseRespected
  BY DEF TypeOK, Places, CalmInv, CalmReleaseRespected
<1> QED
  BY <1>1, <1>2, <1>3, TypeCorrect, PTL DEF Spec
=============================================================================
