------------------------------- MODULE Backup -------------------------------
(***************************************************************************)
(* scripts/backup_db.py, once a night: a copy of the database into a       *)
(* temporary file, its compression into the day's backup, and the pruning  *)
(* of old backups.  Only the first is atomic.                              *)
(***************************************************************************)
EXTENDS Naturals

CONSTANTS
    Keep,       \* --keep, in days
    MaxAge,     \* bound: backups older than this are not told apart
    RunsAgain   \* BOOLEAN: an operator may run the script again on the same day

ASSUME BackupAssumption == Keep \in Nat /\ MaxAge \in Nat /\ MaxAge > Keep /\ RunsAgain \in BOOLEAN

VARIABLES
    files,      \* the age of each backup file, and whether it can be restored
    backupStep, \* "waiting", "copied", "writing", "pruning", "ended"
    everMade    \* history: a backup was completed once

backupVars == <<files, backupStep, everMade>>

BackupTypeOK ==
    /\ files \subseteq [age : 0 .. MaxAge, good : BOOLEAN]
    /\ backupStep \in {"waiting", "copied", "writing", "pruning", "ended"}
    /\ everMade \in BOOLEAN

BackupInit == files = {} /\ backupStep = "waiting" /\ everMade = FALSE

Older == {f \in files : f.age > 0}

\* The online copy, which a writing bot cannot tear.
Copy ==
    /\ \/ backupStep = "waiting"
       \/ RunsAgain /\ backupStep = "ended"
    /\ backupStep' = "copied"
    /\ UNCHANGED <<files, everMade>>

\* The day's file is opened for writing: what it held is gone.
OpenFile ==
    /\ backupStep = "copied" /\ backupStep' = "writing"
    /\ files' = Older \cup {[age |-> 0, good |-> FALSE]}
    /\ UNCHANGED everMade

\* Faulty variant: pruning does not wait for the day's backup.
PrunesAnyTime == backupStep \in {"copied", "pruning"}

Compressed ==
    /\ backupStep = "writing" /\ backupStep' = "pruning"
    /\ files' = Older \cup {[age |-> 0, good |-> TRUE]}
    /\ everMade' = TRUE

\* Pruning comes last.
PrunesNow == backupStep = "pruning"

\* Older than the cutoff, by the date in the file's name and whatever its content.
Prune ==
    /\ PrunesNow
    /\ files' = {f \in files : f.age <= Keep}
    /\ backupStep' = IF backupStep = "pruning" THEN "ended" ELSE "copied"
    /\ UNCHANGED everMade

\* The script dies, or raises, at any point; cron runs it again tomorrow.
BackupDies ==
    /\ backupStep \in {"copied", "writing", "pruning"} /\ backupStep' = "ended"
    /\ UNCHANGED <<files, everMade>>

NextNight ==
    /\ backupStep \in {"waiting", "ended"} /\ backupStep' = "waiting"
    /\ files' = {[f EXCEPT !.age = IF @ < MaxAge THEN @ + 1 ELSE @] : f \in files}
    /\ UNCHANGED everMade

BackupNext == Copy \/ OpenFile \/ Compressed \/ Prune \/ BackupDies \/ NextNight

BackupSpec == BackupInit /\ [][BackupNext]_backupVars

-----------------------------------------------------------------------------
\* Once a backup was completed there is always one that can be restored, however
\* many nights fail in a row and wherever: nothing is pruned before the backup
\* that replaces it is whole.
ABackupSurvives == everMade => \E f \in files : f.good
=============================================================================
