------------------------------ MODULE MCServices ------------------------------
(***************************************************************************)
(* Instances for TLC of what runs around the trading loop.  These parts    *)
(* share no state, so each behaviour is about one of them.                 *)
(***************************************************************************)
EXTENDS AlertLimiter, Migrations, Backup, Desk

VARIABLE focus

servicesVars == <<alertVars, migrationVars, backupVars, deskVars, focus>>

MCFiles == << <<"schema_if", "schema_if">>, <<"schema", "schema", "rows", "schema_if">>,
              <<"schema", "rows">>, <<"schema", "schema">> >>

ServicesInit ==
    /\ focus \in {"alerts", "migrations", "backup", "desk"}
    /\ AlertInit /\ MigrationInit /\ BackupInit /\ DeskInit
    /\ focus # "desk" => action = CHOOSE a \in RecheckActions : TRUE

OnAlerts     == focus = "alerts" /\ UNCHANGED <<migrationVars, backupVars, deskVars, focus>>
OnMigrations == focus = "migrations" /\ UNCHANGED <<alertVars, backupVars, deskVars, focus>>
OnBackup     == focus = "backup" /\ UNCHANGED <<alertVars, migrationVars, deskVars, focus>>
OnDesk       == focus = "desk" /\ UNCHANGED <<alertVars, migrationVars, backupVars, focus>>

ServicesNext ==
    \/ OnAlerts     /\ AlertNext
    \/ OnMigrations /\ MigrationNext
    \/ OnBackup     /\ BackupNext
    \/ OnDesk       /\ DeskNext

ServicesSpec == ServicesInit /\ [][ServicesNext]_servicesVars

\* FairAlertSpec and FairDeskSpec, each for the behaviours that are about it.
FairServicesSpec ==
    /\ ServicesSpec
    /\ WF_servicesVars(OnAlerts /\ HourPasses)
    /\ \A p \in Alerters : WF_servicesVars(OnAlerts /\ AlertStep(p))
    /\ WF_servicesVars(OnDesk /\ DeskStep)

\* Every variable of every service keeps its type: among others no flag is left
\* with an author, and no migration with a statement, that its reader does not know.
ServicesTypeOK == AlertTypeOK /\ MigrationTypeOK /\ BackupTypeOK /\ DeskTypeOK
===============================================================================
