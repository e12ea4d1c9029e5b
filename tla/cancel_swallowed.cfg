\* A refused cancel is taken for an accepted one.
SPECIFICATION Spec
CONSTANTS
    monthly_wheel = monthly_wheel
    weekly_wheel = weekly_wheel
    put_spread = put_spread
    bear_call = bear_call
    condor = condor
    calendar = calendar
    pmcc = pmcc
    swing = swing
    Strategies = {monthly_wheel, condor}
    Trading = {condor}
    KindOf <- MCKindOf
    DefaultStrategy = monthly_wheel
    MaxOrders = 4
    BrokerMovesAt = {"between", "processing", "diffing", "audit", "rolling", "sweeping", "proposing"}
    CrashAt = {}
    MaxCrashes = 0
    OrdersGoStale = TRUE
    CancelIsAsync = FALSE
    CancelRefusals = "swallowed"
    SubmitAnswers = {"open"}
    AnswersLost = FALSE
    OrdersEndMidDay = FALSE
    LongsExpire = FALSE
    ClosesWithOpens = FALSE
    RollActions = {}
INVARIANTS
    ExpiredMeansExpired
