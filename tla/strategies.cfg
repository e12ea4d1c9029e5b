\* A wheel also closed by the roll evaluator, a call spread, a condor, a calendar, a
\* diagonal or a swing, one of them trading the symbol; orders end with the day.
SPECIFICATION SoleTraderSpec
CONSTANTS
    monthly_wheel = monthly_wheel
    weekly_wheel = weekly_wheel
    put_spread = put_spread
    bear_call = bear_call
    condor = condor
    calendar = calendar
    pmcc = pmcc
    swing = swing
    Strategies = {monthly_wheel, bear_call, condor, calendar, pmcc, swing}
    Trading = {monthly_wheel, bear_call, condor, calendar, pmcc, swing}
    KindOf <- MCKindOf
    DefaultStrategy = monthly_wheel
    MaxOrders = 4
    BrokerMovesAt = {"between", "processing", "diffing", "audit", "rolling", "sweeping", "proposing"}
    CrashAt = {"orders", "processing", "diffing", "audit", "rolling", "sweeping", "proposing"}
    MaxCrashes = 1
    OrdersGoStale = FALSE
    CancelIsAsync = FALSE
    CancelRefusals = "raised"
    SubmitAnswers = {"open"}
    AnswersLost = FALSE
    OrdersEndMidDay = FALSE
    LongsExpire = FALSE
    ClosesWithOpens = FALSE
    RollActions = {"CLOSE", "HALT"}
INVARIANTS
    ExposureTracked
    NoOrphanCycle
    OneCloseAtATime
    EndedCyclesAreComplete
    CallsCovered
