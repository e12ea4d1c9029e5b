\* A wheel that rolls or a diagonal, and one crash between a status write and its dispatch.
SPECIFICATION FairSoleTraderSpec
CONSTANTS
    monthly_wheel = monthly_wheel
    weekly_wheel = weekly_wheel
    put_spread = put_spread
    bear_call = bear_call
    condor = condor
    calendar = calendar
    pmcc = pmcc
    swing = swing
    Strategies = {monthly_wheel, pmcc}
    Trading = {monthly_wheel, pmcc}
    KindOf <- MCKindOf
    DefaultStrategy = monthly_wheel
    MaxOrders = 3
    BrokerMovesAt = {"between"}
    CrashAt = {"dispatching"}
    MaxCrashes = 1
    OrdersGoStale = FALSE
    CancelIsAsync = FALSE
    CancelRefusals = "raised"
    SubmitAnswers = {"open"}
    AnswersLost = FALSE
    OrdersEndMidDay = FALSE
    LongsExpire = FALSE
    ClosesWithOpens = FALSE
    RollActions = {"ROLL"}
PROPERTIES
    PendingResolves
    OrphansSurface
