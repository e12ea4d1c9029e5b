\* An alert that two processes watch, four migrations, a nightly backup, and a
\* wheel row and a spread row of one symbol.
SPECIFICATION FairServicesSpec
CONSTANTS
    Alerters = {"bot", "script"}
    Cooldown = 2
    Files <- MCFiles
    Keep = 2
    MaxAge = 3
    RunsAgain = FALSE
    Wheels = {"w"}
    Spreads = {"s"}
    WheelStates = {"CSP_OPEN"}
    FirstRow = "w"
    MaxFailures = 2
    CheckInterval = 2
    RecheckActions = {"flag_manual", "close"}
INVARIANTS
    ServicesTypeOK
    TradesOnWholeSchema
    ABackupSurvives
PROPERTIES
    LastingTroubleIsHeard
    EarningsRiskSurfaces
    StaleFlagsComeUp
    OutagePausesRows
