\* A crash before the dispatch of a swing order.
SPECIFICATION FairSpec
CONSTANTS
    monthly_wheel = monthly_wheel
    weekly_wheel = weekly_wheel
    put_spread = put_spread
    bear_call = bear_call
    condor = condor
    calendar = calendar
    pmcc = pmcc
    swing = swing
    Strategies = {monthly_wheel, swing}
    Trading = {swing}
    KindOf <- MCKindOf
    DefaultStrategy = monthly_wheel
    MaxOrders = 2
    BrokerMovesAt = {"between"}
    CrashAt = {"dispatching"}
    MaxCrashes = 1
    OrdersGoStale = FALSE
    CancelIsAsync = FALSE
    CancelRefusals = "raised"
    SubmitAnswers = {"open"}
    AnswersLost = FALSE
    OrdersEndMidDay = FALSE
    LongsExpire = FALSE
    ClosesWithOpens = FALSE
    RollActions = {}
PROPERTIES
    PendingResolves
