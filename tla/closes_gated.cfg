\* manual_close on the row of a strategy that is not the default one.
SPECIFICATION GatesSpec
CONSTANTS
    RemovedByHand = TRUE
    ReleasedDuringCheck = FALSE
    Outcomes <- MCOutcomes
    DisableAt <- MCDisableAt
    WarnAt <- MCWarnAt
    RollingWindow = 1
    AutoReset = 2
    MinCycles = 2
    MinWinRate = 50
    MinExpectancy = 0
    MaxClosed = 2
    Symbols = {"a", "b"}
    StrategyIds = {"monthly", "weekly", "spread", "pmcc"}
    TypeOf <- MCTypeOf
    DefaultStrategyId = "monthly"
    MaxConcurrent <- MCMaxConcurrent
    MaxConcurrentTotal = 2
    Equity = 6
    FloorPct = 20
    PositionPct = 50
    UsualRisk = 2
    LargeRisk = 4
    PmccCap = 3
    MaxLostRows = 1
    Underlyings = {"spy", "qqq"}
    EntryStart = 1
    EntryEnd = 2
    FlattenAt = 3
    LiquidatedAt = 4
    MaxPerDay = 1
    DailyLossCap = 3
    CapitalCap = 4
    MaxLosses = {3, 5}
    Credit = 3
    Debits = {1, 6}
    HalfSpread = 1
    SlippageAdder = 1
    ProfitDebit = 1
    Listed = {"a"}
    Discovered = {"b", "c"}
    Barred = {"c"}
    MaxAdds = 1
    MaxDrops = 1
    MinSymbols = 1
    AutoApply = FALSE
    MaxRuns = 2
    Models = {"m1", "m2", "m3"}
    Quorum = 2
    Answers = {"ROLL", "CLOSE"}
    RollRules = {"ROLL", "CLOSE"}
    DailyCap = 3
    MinEstimate = 2
    MaxEstimate = 3
    MaxCost = 3
    OrderSizes = {1}
INVARIANT
    ClosesBypassGates
