--------------------------- MODULE Services_proofs ---------------------------
(***************************************************************************)
(* Proofs about what runs around the trading loop: the bot never trades on *)
(* a schema that lacks a migration's statement, a completed backup never   *)
(* leaves the directory without a good one, and alerts, migrations,        *)
(* backups and the desk keep their types.                                  *)
(***************************************************************************)
EXTENDS MCServices, TLAPS

\* Why a recorded migration is whole: it is recorded once all its statements are
\* executed, each of them is in force from then until a rollback, and only the
\* migration under way, which is not recorded, is rolled back.
SchemaInv ==
    /\ \A v \in recorded : Whole(v)
    /\ running # 0 => running \notin recorded /\ done <= schema[running]
                                              /\ saved <= schema[running]
    /\ process = "trading" => running = 0 /\ Pending = {}

LEMMA FilesAreSequences ==
    /\ Versions \subseteq Nat \ {0}
    /\ \A v \in Versions : Len(Files[v]) \in Nat
<1>1. Files \in Seq(Seq({"rows", "schema", "schema_if"}) \ {<<>>})
  BY MigrationAssumption
<1>2. Versions = 1 .. Len(Files) /\ Len(Files) \in Nat
  BY <1>1 DEF Versions
<1>3. \A v \in Versions : Files[v] \in Seq({"rows", "schema", "schema_if"})
  BY <1>1, <1>2
<1> QED
  BY <1>2, <1>3

\* A migration under way or not, the runner keeps its types and SchemaInv.
LEMMA SchemaInvariant == MigrationSpec => [](MigrationTypeOK /\ SchemaInv)
<1>1. MigrationInit => MigrationTypeOK /\ SchemaInv
  <2> SUFFICES ASSUME MigrationInit PROVE MigrationTypeOK /\ SchemaInv
    OBVIOUS
  <2>1. schema \in [Versions -> Nat] /\ \A v \in Versions : schema[v] = 0
    BY DEF MigrationInit
  <2>2. \A v \in Versions : schema[v] <= Len(Files[v])
    BY <2>1, FilesAreSequences
  <2> QED
    BY <2>1, <2>2 DEF MigrationInit, MigrationTypeOK, SchemaInv
<1>2. MigrationTypeOK /\ SchemaInv /\ [MigrationNext]_migrationVars
        => MigrationTypeOK' /\ SchemaInv'
  <2> SUFFICES ASSUME MigrationTypeOK, SchemaInv, [MigrationNext]_migrationVars
               PROVE  MigrationTypeOK' /\ SchemaInv'
    OBVIOUS
  <2> USE FilesAreSequences DEF MigrationTypeOK, SchemaInv, Whole, Pending
  <2>1. CASE Start
    BY <2>1 DEF Start
  <2>2. CASE NextPending
    <3>1. PICK v \in Pending : running' = v /\ saved' = schema[v]
      BY <2>2 DEF NextPending
    <3>2. v \in Nat \ {0} /\ v \notin recorded /\ schema[v] \in Nat
      BY <3>1
    <3> QED
      BY <2>2, <3>1, <3>2 DEF NextPending
  <2>3. CASE Execute
    <3>1. schema'[running] = IF done + 1 > schema[running] THEN done + 1 ELSE schema[running]
      BY <2>3 DEF Execute
    <3>2. schema' \in [Versions -> Nat] /\ \A v \in Versions \ {running} : schema'[v] = schema[v]
      BY <2>3 DEF Execute
    <3>3. done' = done + 1 /\ done' <= Len(Files[running])
      BY <2>3 DEF Execute
    <3>4. saved' = saved \/ saved' = schema'[running]
      BY <2>3 DEF Execute
    <3>5. UNCHANGED <<recorded, running, process>> /\ running # 0 /\ inTxn' \in BOOLEAN
      BY <2>3 DEF Execute
    <3>6. MigrationTypeOK'
      BY <3>1, <3>2, <3>3, <3>4, <3>5
    <3> QED
      BY <3>1, <3>2, <3>3, <3>4, <3>5, <3>6
  <2>4. CASE RecordVersion
    <3>1. schema[running] = Len(Files[running])
      BY <2>4 DEF RecordVersion, AllExecuted
    <3> QED
      BY <2>4, <3>1 DEF RecordVersion, AllExecuted
  <2>5. CASE RollBack
    <3>1. schema' \in [Versions -> Nat]
      BY <2>5 DEF RollBack
    <3>2. \A v \in Versions : schema'[v] <= Len(Files[v])
      BY <2>5 DEF RollBack
    <3>3. \A v \in recorded : schema'[v] = schema[v]
      BY <2>5 DEF RollBack
    <3>4. /\ running' = 0 /\ done' = 0 /\ inTxn' = FALSE /\ saved' = 0
          /\ process' = "down" /\ recorded' = recorded
      BY <2>5 DEF RollBack
    <3> QED
      BY <3>1, <3>2, <3>3, <3>4
  <2>6. CASE OpenDatabase
    BY <2>6 DEF OpenDatabase
  <2>7. CASE Stop
    BY <2>7 DEF Stop
  <2>8. CASE UNCHANGED migrationVars
    BY <2>8 DEF migrationVars
  <2> QED
    BY <2>1, <2>2, <2>3, <2>4, <2>5, <2>6, <2>7, <2>8
       DEF MigrationNext, StatementFails, MigrationDies
<1> QED
  BY <1>1, <1>2, PTL DEF MigrationSpec

\* Whatever statements the migrations consist of and wherever earlier attempts
\* died, the bot trades on a schema with every statement of every migration.
THEOREM WholeSchema == MigrationSpec => []TradesOnWholeSchema
<1>1. MigrationTypeOK /\ SchemaInv => TradesOnWholeSchema
  BY DEF MigrationTypeOK, SchemaInv, TradesOnWholeSchema, Pending
<1> QED
  BY <1>1, SchemaInvariant, PTL

-----------------------------------------------------------------------------
\* Why a backup survives: the day's file is not there before it is written, so
\* writing it spoils no good one, and pruning finds a good one of today.
BackupInv ==
    /\ backupStep \in {"waiting", "copied"} => \A f \in files : f.age > 0
    /\ backupStep = "pruning" => \E f \in files : f.good /\ f.age = 0
    /\ backupStep = "writing" /\ everMade => \E f \in files : f.good /\ f.age > 0
    /\ ABackupSurvives

\* Once a backup was made there is a good one, for any number of days it is kept
\* and any nights that fail, provided nobody runs the script twice on a day.
THEOREM BackupsSurvive ==
    ASSUME ~ RunsAgain
    PROVE  BackupSpec => []ABackupSurvives
<1>1. BackupInit => BackupTypeOK /\ BackupInv
  BY DEF BackupInit, BackupTypeOK, BackupInv, ABackupSurvives
<1>2. BackupTypeOK /\ BackupInv /\ [BackupNext]_backupVars => BackupTypeOK' /\ BackupInv'
  <2> SUFFICES ASSUME BackupTypeOK, BackupInv, [BackupNext]_backupVars
               PROVE  BackupTypeOK' /\ BackupInv'
    OBVIOUS
  <2> USE BackupAssumption DEF BackupTypeOK, BackupInv, ABackupSurvives
  <2>1. CASE Copy
    BY <2>1 DEF Copy
  <2>2. CASE OpenFile
    <3>1. Older = files
      BY <2>2 DEF OpenFile, Older
    <3>2. files' = files \cup {[age |-> 0, good |-> FALSE]}
      BY <2>2, <3>1 DEF OpenFile
    <3>3. BackupTypeOK'
      <4>1. [age |-> 0, good |-> FALSE] \in [age : 0 .. MaxAge, good : BOOLEAN]
        OBVIOUS
      <4>2. backupStep' = "writing" /\ everMade' = everMade
        BY <2>2 DEF OpenFile
      <4> QED
        BY <3>2, <4>1, <4>2
    <3>4. everMade => \E f \in files' : f.good /\ f.age > 0
      BY <2>2, <3>2 DEF OpenFile
    <3> QED
      BY <2>2, <3>3, <3>4 DEF OpenFile
  <2>3. CASE Compressed
    <3> DEFINE today == [age |-> 0, good |-> TRUE]
    <3>1. files' = Older \cup {today}
      BY <2>3 DEF Compressed
    <3>2. today \in files' /\ today.good /\ today.age = 0
      BY <3>1
    <3>3. BackupTypeOK'
      <4>1. today \in [age : 0 .. MaxAge, good : BOOLEAN]
        OBVIOUS
      <4>2. Older \subseteq [age : 0 .. MaxAge, good : BOOLEAN]
        BY DEF Older
      <4>3. backupStep' = "pruning" /\ everMade' = TRUE
        BY <2>3 DEF Compressed
      <4> HIDE DEF today
      <4> QED
        BY <3>1, <4>1, <4>2, <4>3
    <3> QED
      BY <2>3, <3>2, <3>3 DEF Compressed
  <2>4. CASE Prune
    BY <2>4 DEF Prune, PrunesNow
  <2>5. CASE BackupDies
    BY <2>5 DEF BackupDies
  <2>6. CASE NextNight
    <3>1. \A f \in files : IF f.age < MaxAge THEN f.age + 1 \in 1 .. MaxAge
                                             ELSE f.age \in 1 .. MaxAge
      OBVIOUS
    <3> DEFINE Aged(f) == [f EXCEPT !.age = IF @ < MaxAge THEN @ + 1 ELSE @]
    <3>2. \A f \in files : /\ Aged(f) \in [age : 0 .. MaxAge, good : BOOLEAN]
                           /\ Aged(f).age > 0 /\ Aged(f).good = f.good
      BY <3>1
    <3>3. files' = {Aged(f) : f \in files}
      BY <2>6 DEF NextNight
    <3>4. BackupTypeOK' /\ \A f \in files' : f.age > 0
      BY <2>6, <3>2, <3>3 DEF NextNight
    <3>5. (\E f \in files : f.good) => \E f \in files' : f.good
      <4>1. \A f \in files : f.good => Aged(f) \in files' /\ Aged(f).good
        BY <3>2, <3>3
      <4> QED
        BY <4>1
    <3> QED
      BY <2>6, <3>4, <3>5 DEF NextNight
  <2>7. CASE UNCHANGED backupVars
    BY <2>7 DEF backupVars
  <2> QED
    BY <2>1, <2>2, <2>3, <2>4, <2>5, <2>6, <2>7 DEF BackupNext
<1>3. BackupInv => ABackupSurvives
  BY DEF BackupInv
<1> QED
  BY <1>1, <1>2, <1>3, PTL DEF BackupSpec

-----------------------------------------------------------------------------
(* The types. *)

\* The alert's row, its callers and its history keep their types.
THEOREM AlertTypes == AlertSpec => []AlertTypeOK
<1> USE AlertAssumption DEF AlertTypeOK
<1>1. AlertInit => AlertTypeOK
  <2> SUFFICES ASSUME AlertInit PROVE AlertTypeOK
    OBVIOUS
  <2>1. alerter \in [Alerters -> {"idle", "leave", "first", "second", "dead"}]
    BY DEF AlertInit
  <2>2. quiet \in 0 .. Cooldown
    BY DEF AlertInit
  <2> QED
    BY <2>1, <2>2 DEF AlertInit
<1>2. AlertTypeOK /\ [AlertNext]_alertVars => AlertTypeOK'
  <2> SUFFICES ASSUME AlertTypeOK, [AlertNext]_alertVars PROVE AlertTypeOK'
    OBVIOUS
  <2>1. ASSUME NEW p \in Alerters, AsksLeave(p) PROVE AlertTypeOK'
    BY <2>1 DEF AsksLeave, Goes, AfterAsking
  <2>2. ASSUME NEW p \in Alerters, RecordsFiring(p) PROVE AlertTypeOK'
    <3>1. alerter' \in [Alerters -> {"idle", "leave", "first", "second", "dead"}]
      BY <2>2 DEF RecordsFiring, Goes
    <3>2. firedTwice' \in BOOLEAN /\ quiet' \in 0 .. Cooldown
      BY <2>2 DEF RecordsFiring
    <3> QED
      BY <2>2, <3>1, <3>2 DEF RecordsFiring
  <2>3. ASSUME NEW p \in Alerters, Delivers(p) PROVE AlertTypeOK'
    <3>1. alerter' \in [Alerters -> {"idle", "leave", "first", "second", "dead"}]
      BY <2>3 DEF Delivers, Goes
    <3>2. heard' \in BOOLEAN
      BY <2>3 DEF Delivers
    <3> QED
      BY <2>3, <3>1, <3>2 DEF Delivers
  <2>4. ASSUME NEW p \in Alerters, AlerterDies(p) \/ AlerterRestarts(p) PROVE AlertTypeOK'
    BY <2>4 DEF AlerterDies, AlerterRestarts, Goes
  <2>5. CASE HourPasses
    BY <2>5 DEF HourPasses
  <2>6. CASE WorldMoves
    BY <2>6 DEF WorldMoves
  <2>7. CASE UNCHANGED alertVars
    BY <2>7 DEF alertVars
  <2> QED
    BY <2>1, <2>2, <2>3, <2>4, <2>5, <2>6, <2>7 DEF AlertNext, AlertStep
<1> QED
  BY <1>1, <1>2, PTL DEF AlertSpec

\* The backup files keep their types, whoever runs the script and however often.
THEOREM BackupTypes == BackupSpec => []BackupTypeOK
<1> DEFINE file == [age : 0 .. MaxAge, good : BOOLEAN]
<1>1. BackupInit => BackupTypeOK
  BY DEF BackupInit, BackupTypeOK
<1>2. BackupTypeOK /\ [BackupNext]_backupVars => BackupTypeOK'
  <2> SUFFICES ASSUME BackupTypeOK, [BackupNext]_backupVars PROVE BackupTypeOK'
    OBVIOUS
  <2>a. files \subseteq file /\ Older \subseteq file
    BY DEF BackupTypeOK, Older
  <2>b. \A good \in BOOLEAN : [age |-> 0, good |-> good] \in file
    BY BackupAssumption
  <2>c. \A f \in files : [f EXCEPT !.age = IF @ < MaxAge THEN @ + 1 ELSE @] \in file
    BY <2>a, BackupAssumption
  <2> HIDE DEF file
  <2>1. files' \subseteq file
    <3>1. CASE Copy \/ BackupDies \/ UNCHANGED backupVars
      BY <2>a, <3>1 DEF Copy, BackupDies, backupVars
    <3>2. CASE OpenFile \/ Compressed
      BY <2>a, <2>b, <3>2 DEF OpenFile, Compressed
    <3>3. CASE Prune
      BY <2>a, <3>3 DEF Prune
    <3>4. CASE NextNight
      BY <2>c, <3>4 DEF NextNight
    <3> QED
      BY <3>1, <3>2, <3>3, <3>4 DEF BackupNext
  <2>2. /\ backupStep' \in {"waiting", "copied", "writing", "pruning", "ended"}
        /\ everMade' \in BOOLEAN
    BY DEF BackupTypeOK, BackupNext, backupVars, Copy, OpenFile, Compressed, Prune, BackupDies,
           NextNight
  <2> QED
    BY <2>1, <2>2 DEF BackupTypeOK, file
<1> QED
  BY <1>1, <1>2, PTL DEF BackupSpec

\* Why a flag has an author and a state its reader knows: the recheck has still to
\* visit only rows it read in a state that it looks at.
DeskInv ==
    deskStep = "recheck" => \A r \in todo : active[r] \in Eligible

\* The rows, the broker's legs, the flags and the loop's memory keep their types,
\* whatever the operator, the world and a death of the process do between two steps.
THEOREM DeskTypes == DeskSpec => []DeskTypeOK
<1> USE DeskAssumption DEF DeskTypeOK, DeskInv
<1>1. DeskInit => DeskTypeOK /\ DeskInv
  <2> SUFFICES ASSUME DeskInit PROVE DeskTypeOK /\ DeskInv
    OBVIOUS
  <2>1. row \in [Rows -> RowStates] /\ active \in [Rows -> RowStates]
    BY DEF DeskInit, AllIdle, RowStates
  <2>2. legs \in [Rows -> BOOLEAN] /\ knownLeg \in [Rows -> BOOLEAN] /\ flagLog \in [Rows -> LogEntries]
    BY DEF DeskInit, LogEntries
  <2>3. failures \in 0 .. MaxFailures /\ sinceCheck \in 0 .. CheckInterval - 1
    BY DEF DeskInit
  <2>4. flagging \in [row : Rows, entry : LogEntries] \cup {NoFlag}
    BY DEF DeskInit
  <2> QED
    BY <2>1, <2>2, <2>3, <2>4 DEF DeskInit
<1>2. DeskTypeOK /\ DeskInv /\ [DeskNext]_deskVars => DeskTypeOK' /\ DeskInv'
  <2> SUFFICES ASSUME DeskTypeOK, DeskInv, [DeskNext]_deskVars PROVE DeskTypeOK' /\ DeskInv'
    OBVIOUS
  <2>a. AllIdle \in [Rows -> RowStates]
    BY DEF AllIdle, RowStates
  <2>b. /\ Eligible \subseteq RowStates /\ {"IDLE", "MANUAL", "BROKER_DOWN"} \subseteq RowStates
        /\ \A r \in Rows : OpenStates(r) \subseteq Eligible
    BY DEF Eligible, RowStates, OpenStates
  <2>c. \A from \in Eligible, by \in Authors : [from |-> from, by |-> by] \in LogEntries
    BY DEF LogEntries
  <2>d. \A e \in LogEntries : e # NoLogEntry => e.from \in Eligible
    BY DEF LogEntries
  <2>e. \A r \in Rows, e \in LogEntries :
          [row |-> r, entry |-> e] \in [row : Rows, entry : LogEntries]
    OBVIOUS
  <2>1. CASE TickSucceeds
    BY <2>1 DEF TickSucceeds, worldOf, positions
  <2>2. CASE TickFails
    BY <2>2 DEF TickFails, Counted, worldOf, positions
  <2>3. CASE MarkBrokerDown
    BY <2>3, <2>a, <2>b DEF MarkBrokerDown, UpdateState, ToIdle, Leave, worldOf, positions
  <2>4. ASSUME NEW r \in Rows, ReconcileRow(r) PROVE DeskTypeOK' /\ DeskInv'
    <3>1. row' \in [Rows -> RowStates]
      BY <2>4, <2>b DEF ReconcileRow, UpdateState
    <3>2. legs' \in [Rows -> BOOLEAN] /\ knownLeg' \in [Rows -> BOOLEAN]
      BY <2>4 DEF ReconcileRow
    <3>3. flagLog' \in [Rows -> LogEntries]
      BY <2>4, <2>c DEF ReconcileRow, Authors
    <3> QED
      BY <2>4, <3>1, <3>2, <3>3 DEF ReconcileRow, worldOf, positions, memory
  <2>5. CASE EarningsRecheck
    <3>1. ASSUME NEW r \in Rows
          PROVE  Listed(r) \in RowStates /\ (row[r] \in Eligible /\ knownLeg[r] => Listed(r) \in Eligible)
      BY DEF Listed, RowStates, Eligible
    <3>2. CASE ToIdle
      BY <2>5, <2>a, <3>2 DEF EarningsRecheck, ToIdle, Leave, worldOf, positions
    <3>3. CASE /\ sinceCheck' = 0 /\ deskStep' = "recheck"
               /\ active' = [r \in Rows |-> Listed(r)] /\ todo' = Rechecked
      <4>1. active' \in [Rows -> RowStates] /\ \A r \in todo' : active'[r] \in Eligible
        BY <3>1, <3>3 DEF Rechecked
      <4>2. todo' \subseteq Rows
        BY <3>3 DEF Rechecked
      <4> QED
        BY <2>5, <3>3, <4>1, <4>2 DEF EarningsRecheck, worldOf, positions
    <3> QED
      BY <2>5, <3>2, <3>3 DEF EarningsRecheck
  <2>6. ASSUME NEW r \in Rows, PassesOver(r) PROVE DeskTypeOK' /\ DeskInv'
    <3>1. legs' \in [Rows -> BOOLEAN]
      BY <2>6 DEF PassesOver
    <3>2. active' \in [Rows -> RowStates] /\ todo' = todo \ {r}
          /\ \A q \in todo' : active'[q] = active[q]
      BY <2>6, <2>b DEF PassesOver
    <3> QED
      BY <2>6, <3>1, <3>2 DEF PassesOver, worldOf, positions
  <2>7. ASSUME NEW r \in Rows, FlagManual(r) PROVE DeskTypeOK' /\ DeskInv'
    <3>1. active[r] \in Eligible
      BY <2>7 DEF FlagManual
    <3>2. flagging' \in [row : Rows, entry : LogEntries] \cup {NoFlag}
      BY <2>7, <2>c, <2>e, <3>1 DEF FlagManual, Authors
    <3>3. active' \in [Rows -> RowStates] /\ todo' = todo \ {r}
          /\ \A q \in todo' : active'[q] = active[q]
      BY <2>7, <2>b DEF FlagManual
    <3>4. row' \in [Rows -> RowStates]
      BY <2>7, <2>b DEF FlagManual, UpdateState
    <3> QED
      BY <2>7, <3>2, <3>3, <3>4 DEF FlagManual, worldOf, positions
  <2>8. CASE LogFlag
    <3>1. flagging.row \in Rows /\ flagging.entry \in LogEntries
      BY <2>8 DEF LogFlag
    <3> QED
      BY <2>8, <3>1 DEF LogFlag, worldOf, positions
  <2>9. CASE BeginWatchdog
    BY <2>9 DEF BeginWatchdog, Watched, worldOf, positions
  <2>10. CASE WatchFlag
    BY <2>10, <2>a, <2>b DEF WatchFlag, ToIdle, Leave, worldOf, positions
  <2>11. CASE RecheckRaises \/ BotDies
    BY <2>11, <2>a DEF RecheckRaises, BotDies, Leave, worldOf, positions
  <2>12. ASSUME NEW r \in Rows, RestorePosition(r) PROVE DeskTypeOK' /\ DeskInv'
    BY <2>12, <2>b, <2>d DEF RestorePosition, UpdateState, worldOf, positions, memory
  <2>13. CASE FlattenCloses
    BY <2>13 DEF FlattenCloses, worldOf, memory
  <2>16. CASE FlattenMarks
    <3>1. row' \in [Rows -> RowStates] /\ knownLeg' \in [Rows -> BOOLEAN]
      BY <2>16, <2>b DEF FlattenMarks, UpdateState
    <3> QED
      BY <2>16, <3>1 DEF FlattenMarks, worldOf, memory
  <2>14. CASE WorldTurns
    BY <2>14 DEF WorldTurns, memory, positions
  <2>15. CASE UNCHANGED deskVars
    BY <2>15 DEF deskVars, worldOf, positions
  <2> QED
    BY <2>1, <2>2, <2>3, <2>4, <2>5, <2>6, <2>7, <2>8, <2>9, <2>10, <2>11, <2>12, <2>13,
       <2>14, <2>15, <2>16 DEF DeskNext, DeskStep
<1> QED
  BY <1>1, <1>2, PTL DEF DeskSpec

\* Every service keeps its types whatever becomes of the others.
THEOREM ServicesTypes == ServicesSpec => []ServicesTypeOK
<1>1. ServicesInit => AlertInit /\ MigrationInit /\ BackupInit /\ DeskInit
  BY DEF ServicesInit
<1>2. [ServicesNext]_servicesVars =>
        /\ [AlertNext]_alertVars /\ [MigrationNext]_migrationVars
        /\ [BackupNext]_backupVars /\ [DeskNext]_deskVars
  BY DEF ServicesNext, OnAlerts, OnMigrations, OnBackup, OnDesk, servicesVars
<1>3. ServicesSpec => AlertSpec /\ MigrationSpec /\ BackupSpec /\ DeskSpec
  BY <1>1, <1>2, PTL DEF ServicesSpec, AlertSpec, MigrationSpec, BackupSpec, DeskSpec
<1> QED
  BY <1>3, AlertTypes, SchemaInvariant, BackupTypes, DeskTypes, PTL DEF ServicesTypeOK
=============================================================================
