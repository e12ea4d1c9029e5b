\* A condor whose stale orders are replaced, with slow cancels, refused cancels
\* that nobody notices, and submissions answered with a terminal status.
SPECIFICATION Spec
CONSTANTS
    monthly_wheel = monthly_wheel
    weekly_wheel = weekly_wheel
    put_spread = put_spread
    bear_call = bear_call
    condor = condor
    calendar = calendar
    pmcc = pmcc
    swing = swing
    Strategies = {monthly_wheel, condor}
    Trading = {condor}
    KindOf <- MCKindOf
    DefaultStrategy = monthly_wheel
    MaxOrders = 4
    BrokerMovesAt = {"between", "processing", "diffing", "audit", "rolling", "sweeping", "proposing"}
    CrashAt = {}
    MaxCrashes = 0
    OrdersGoStale = TRUE
    CancelIsAsync = TRUE
    CancelRefusals = "swallowed"
    SubmitAnswers = {"open", "filled", "cancelled"}
    AnswersLost = FALSE
    OrdersEndMidDay = TRUE
    LongsExpire = FALSE
    ClosesWithOpens = FALSE
    RollActions = {}
INVARIANTS
    OneEntryAtATime
    NoDuplicateCycle
