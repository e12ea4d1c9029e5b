\* A wheel and a put spread on the same symbol: one position snapshot for both.
SPECIFICATION Spec
CONSTANTS
    monthly_wheel = monthly_wheel
    weekly_wheel = weekly_wheel
    put_spread = put_spread
    bear_call = bear_call
    condor = condor
    calendar = calendar
    pmcc = pmcc
    swing = swing
    Strategies = {monthly_wheel, put_spread}
    Trading = {monthly_wheel, put_spread}
    KindOf <- MCKindOf
    DefaultStrategy = monthly_wheel
    MaxOrders = 3
    BrokerMovesAt = {"between", "processing", "diffing", "audit", "rolling", "sweeping", "proposing"}
    CrashAt = {"orders", "processing", "diffing", "audit", "rolling", "sweeping", "proposing"}
    MaxCrashes = 1
    OrdersGoStale = FALSE
    CancelIsAsync = FALSE
    CancelRefusals = "raised"
    SubmitAnswers = {"open"}
    AnswersLost = FALSE
    OrdersEndMidDay = FALSE
    LongsExpire = FALSE
    ClosesWithOpens = FALSE
    RollActions = {}
INVARIANTS
    ExposureTracked
PROPERTIES
    ImplementsPositionLife
