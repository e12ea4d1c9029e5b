\* A close rejected during the session and proposed again.
SPECIFICATION Spec
CONSTANTS
    monthly_wheel = monthly_wheel
    weekly_wheel = weekly_wheel
    put_spread = put_spread
    bear_call = bear_call
    condor = condor
    calendar = calendar
    pmcc = pmcc
    swing = swing
    Strategies = {monthly_wheel, condor}
    Trading = {condor}
    KindOf <- MCKindOf
    DefaultStrategy = monthly_wheel
    MaxOrders = 4
    BrokerMovesAt = {"between"}
    CrashAt = {}
    MaxCrashes = 0
    OrdersGoStale = FALSE
    CancelIsAsync = FALSE
    CancelRefusals = "raised"
    SubmitAnswers = {"open"}
    AnswersLost = FALSE
    OrdersEndMidDay = TRUE
    LongsExpire = FALSE
    ClosesWithOpens = FALSE
    RollActions = {}
INVARIANTS
    OneCloseAtATime
