\* The long roll and the short sale trigger in one pass.
SPECIFICATION Spec
CONSTANTS
    monthly_wheel = monthly_wheel
    weekly_wheel = weekly_wheel
    put_spread = put_spread
    bear_call = bear_call
    condor = condor
    calendar = calendar
    pmcc = pmcc
    swing = swing
    Strategies = {monthly_wheel, pmcc}
    Trading = {pmcc}
    KindOf <- MCKindOf
    DefaultStrategy = monthly_wheel
    MaxOrders = 4
    BrokerMovesAt = {"between"}
    CrashAt = {}
    MaxCrashes = 0
    OrdersGoStale = FALSE
    CancelIsAsync = FALSE
    CancelRefusals = "raised"
    SubmitAnswers = {"open"}
    AnswersLost = FALSE
    OrdersEndMidDay = FALSE
    LongsExpire = FALSE
    ClosesWithOpens = TRUE
    RollActions = {}
INVARIANTS
    CallsCovered
