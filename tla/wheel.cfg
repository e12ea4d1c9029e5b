\* One wheel, four orders: fills in every phase but between the two reads, one
\* crash anywhere but inside a dispatch or a submission, lost answers, stale
\* orders, slow cancels.
SPECIFICATION Spec
CONSTANTS
    monthly_wheel = monthly_wheel
    weekly_wheel = weekly_wheel
    put_spread = put_spread
    bear_call = bear_call
    condor = condor
    calendar = calendar
    pmcc = pmcc
    swing = swing
    Strategies = {monthly_wheel}
    Trading = {monthly_wheel}
    KindOf <- MCKindOf
    DefaultStrategy = monthly_wheel
    MaxOrders = 4
    BrokerMovesAt = {"between", "processing", "diffing", "audit", "rolling", "sweeping", "proposing"}
    CrashAt = {"orders", "processing", "diffing", "audit", "rolling", "sweeping", "proposing"}
    MaxCrashes = 1
    OrdersGoStale = TRUE
    CancelIsAsync = TRUE
    CancelRefusals = "raised"
    SubmitAnswers = {"open"}
    AnswersLost = TRUE
    OrdersEndMidDay = TRUE
    LongsExpire = FALSE
    ClosesWithOpens = FALSE
    RollActions = {"HALT"}
INVARIANTS
    TypeOK
    ExposureTracked
    FillsAreBooked
    ExpiredMeansExpired
PROPERTIES
    EndedCyclesAreFinal
    OperatorRowsRespected
