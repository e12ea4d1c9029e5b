\* A process that dies between two statements of a migration.
SPECIFICATION ServicesSpec
CONSTANTS
    Alerters = {"bot", "script"}
    Cooldown = 2
    Files <- MCFiles
    Keep = 2
    MaxAge = 3
    RunsAgain = FALSE
    Wheels = {"w"}
    Spreads = {"s"}
    WheelStates = {"CSP_OPEN"}
    FirstRow = "w"
    MaxFailures = 2
    CheckInterval = 2
    RecheckActions = {"flag_manual", "close"}
INVARIANT
    MigrationIsAtomic
