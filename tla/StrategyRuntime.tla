--------------------------- MODULE StrategyRuntime ---------------------------
(***************************************************************************)
(* The gates on the entries of ONE strategy: the drawdown breaker          *)
(* (risk/auto_disable.py), the win-rate floor (risk/win_rate_floor.py) and *)
(* the expectancy floor (risk/expectancy_floor.py).  All three write the   *)
(* strategy's row of strategy_runtime_state, each from what it read a few  *)
(* awaits before, while the control server, the re-enable script and the   *)
(* dashboard work on the same row from processes of their own.  Strategies *)
(* share nothing here, so one is enough.                                   *)
(*                                                                         *)
(* Time is kept as ages and remaining days, so it has no end.              *)
(***************************************************************************)
EXTENDS Integers, Sequences, FiniteSets, FiniteSetsExt

CONSTANTS
    Outcomes,       \* the possible final_pnl of a closed cycle
    DisableAt,      \* auto_disable_drawdown_usd
    WarnAt,         \* drawdown_warning_usd
    RollingWindow,  \* ROLLING_WINDOW_DAYS
    AutoReset,      \* AUTO_RESET_DAYS
    MinCycles,      \* min_closed_cycles of both floors
    MinWinRate,     \* min_win_rate_pct
    MinExpectancy,  \* min_expectancy_usd
    MaxClosed       \* bound: how many closed cycles are remembered

ASSUME RuntimeAssumption ==
    /\ Outcomes \subseteq Int
    /\ {RollingWindow, MinCycles, MinWinRate} \subseteq Nat /\ AutoReset \in Nat \ {0}
    /\ {DisableAt, WarnAt, MinExpectancy} \subseteq Int /\ DisableAt <= WarnAt
    /\ MaxClosed \in Nat /\ MinCycles \in 1 .. MaxClosed

NoDate == -1

VARIABLES
    runtime,    \* the row: the days left of disabled_until, drawdown_state, pause_state
    closed,     \* the closed cycles, newest last: age in days and final_pnl
    passStep,   \* how far the tick's pass over the strategy has come
    opens,      \* the gate's verdict: no entries, or entries at this size
    seen,       \* what the check in progress has read and decided
    reader,     \* another process between reading a stale row and deleting it
    pausedBy,   \* history: who wrote the pause that is in force
    breached    \* history: a completed check found the strategy disabled, and
                \* neither time nor anybody else has released it since

runtimeVars == <<runtime, closed, passStep, opens, seen, reader, pausedBy, breached>>

PassSteps == {"idle", "gate_stale", "gate_pause", "entries", "drawdown", "drawdown_stale",
              "drawdown_write", "win_rate", "win_rate_write", "expectancy", "expectancy_write"}

\* No row and a row of NULLs read alike.
NoRow == [until |-> NoDate, drawdown |-> "NULL", pause |-> "NULL"]

RuntimeTypeOK ==
    /\ runtime \in [until : {NoDate} \cup 0 .. AutoReset, drawdown : {"NULL", "WARNING", "DISABLED"},
                    pause : {"NULL", "LOW_WIN_RATE", "NEGATIVE_EXPECTANCY"}]
    /\ closed \in Seq([age : 0 .. RollingWindow + 1, pnl : Outcomes]) /\ Len(closed) <= MaxClosed
    /\ passStep \in PassSteps
    /\ opens \in {"none", "half", "full"}
    /\ seen \in {"-", "NORMAL", "WARNING", "DISABLED", "pause"}
    /\ reader \in BOOLEAN
    /\ pausedBy \in {"nobody", "win_rate", "expectancy", "operator"}
    /\ breached \in BOOLEAN

RuntimeInit ==
    /\ runtime = NoRow /\ closed = <<>> /\ passStep = "idle" /\ opens = "none"
    /\ seen = "-" /\ reader = FALSE /\ pausedBy = "nobody" /\ breached = FALSE

-----------------------------------------------------------------------------
(* The row. *)

\* Faulty variant: the reset date itself still counts as disabled.
StaysDisabled == IF runtime.until >= 0 THEN "DISABLED" ELSE "NORMAL"

\* current_state: a disabled_until that has passed is stale, whatever the rest
\* of the row says.
CurrentState ==
    IF runtime.until > 0 THEN "DISABLED"
    ELSE IF runtime.until = 0 THEN "stale"
    ELSE IF runtime.drawdown = "WARNING" THEN "WARNING" ELSE "NORMAL"

\* enable deletes the row: both gates at once.
Enable == runtime' = NoRow /\ pausedBy' = "nobody" /\ breached' = FALSE

Disable == runtime' = [runtime EXCEPT !.until = AutoReset, !.drawdown = "DISABLED"]
MarkWarning == runtime' = [runtime EXCEPT !.until = NoDate, !.drawdown = "WARNING"]
MarkPaused(state, who) == runtime' = [runtime EXCEPT !.pause = state] /\ pausedBy' = who

-----------------------------------------------------------------------------
(* The gauges, over the closed cycles. *)

Total(S) == MapThenSumSet(LAMBDA i : closed[i].pnl, S)
Windowed == {i \in DOMAIN closed : closed[i].age <= RollingWindow}
LastN    == {i \in DOMAIN closed : i > Len(closed) - MinCycles}

DrawdownTarget ==
    IF Total(Windowed) <= DisableAt THEN "DISABLED"
    ELSE IF Total(Windowed) <= WarnAt THEN "WARNING" ELSE "NORMAL"

\* Fewer closed cycles than the minimum: no verdict.
LowWinRate ==
    /\ Len(closed) >= MinCycles
    /\ 100 * Cardinality({i \in LastN : closed[i].pnl > 0}) < MinWinRate * MinCycles

LowExpectancy == Len(closed) >= MinCycles /\ Total(LastN) < MinExpectancy * MinCycles

-----------------------------------------------------------------------------
(* The gate of _propose_and_route. *)

GateReadsDrawdown ==
    /\ passStep = "idle"
    /\ CASE CurrentState = "DISABLED" -> passStep' = "entries" /\ opens' = "none"
         [] CurrentState = "stale"    -> passStep' = "gate_stale" /\ opens' = "full"
         [] CurrentState = "WARNING"  -> passStep' = "gate_pause" /\ opens' = "half"
         [] CurrentState = "NORMAL"   -> passStep' = "gate_pause" /\ opens' = "full"
    /\ UNCHANGED <<runtime, closed, seen, reader, pausedBy, breached>>

GateClearsStale ==
    /\ passStep = "gate_stale"
    /\ Enable /\ passStep' = "gate_pause"
    /\ UNCHANGED <<closed, opens, seen, reader>>

GateReadsPause ==
    /\ passStep = "gate_pause"
    /\ passStep' = "entries"
    /\ opens' = IF runtime.pause # "NULL" THEN "none" ELSE opens
    /\ UNCHANGED <<runtime, closed, seen, reader, pausedBy, breached>>

\* The strategy's proposals are routed; one that raises ends the strategy's
\* pass, its checks included.
Dispatch(raises) ==
    /\ passStep = "entries"
    /\ passStep' = IF raises THEN "idle" ELSE "drawdown"
    /\ opens' = "none"
    /\ UNCHANGED <<runtime, closed, seen, reader, pausedBy, breached>>

-----------------------------------------------------------------------------
(* The three checks after the strategy's orders were routed. *)

\* Faulty variant: a strategy that is disabled is judged afresh.
JudgesAfresh ==
    /\ passStep = "drawdown" /\ passStep' = "drawdown_write"
    /\ seen' = DrawdownTarget
    /\ breached' = (breached \/ CurrentState = "DISABLED")
    /\ UNCHANGED <<runtime, closed, opens, reader, pausedBy>>

DrawdownReads ==
    /\ passStep = "drawdown"
    /\ seen' = DrawdownTarget
    /\ CASE CurrentState = "DISABLED" -> passStep' = "win_rate" /\ breached' = TRUE
         [] CurrentState = "stale"    -> passStep' = "drawdown_stale" /\ UNCHANGED breached
         [] CurrentState = "WARNING"  ->
              /\ passStep' = IF seen' = "WARNING" THEN "win_rate" ELSE "drawdown_write"
              /\ UNCHANGED breached
         [] CurrentState = "NORMAL"   ->
              /\ passStep' = IF seen' = "NORMAL" THEN "win_rate" ELSE "drawdown_write"
              /\ UNCHANGED breached
    /\ UNCHANGED <<runtime, closed, opens, reader, pausedBy>>

DrawdownClearsStale ==
    /\ passStep = "drawdown_stale"
    /\ Enable /\ passStep' = IF seen = "NORMAL" THEN "win_rate" ELSE "drawdown_write"
    /\ UNCHANGED <<closed, opens, seen, reader>>

\* NORMAL is only written over a WARNING: enable, which drops the whole row.
DrawdownWrites ==
    /\ passStep = "drawdown_write" /\ passStep' = "win_rate" /\ seen' = "-"
    /\ \/ seen = "DISABLED" /\ Disable /\ breached' = TRUE /\ UNCHANGED pausedBy
       \/ seen = "WARNING" /\ MarkWarning /\ UNCHANGED <<pausedBy, breached>>
       \/ seen = "NORMAL" /\ Enable
    /\ UNCHANGED <<closed, opens, reader>>

\* Faulty variant: a pause in force does not keep a floor from its own.
FloorReadsAnyway(step, write, low, then) ==
    /\ passStep = step
    /\ passStep' = IF low THEN write ELSE then
    /\ seen' = "-"
    /\ UNCHANGED <<runtime, closed, opens, reader, pausedBy, breached>>

\* A floor that sees any pause, its own or the other floor's, writes nothing.
FloorReads(step, write, low, then) ==
    /\ passStep = step
    /\ passStep' = IF low /\ runtime.pause = "NULL" THEN write ELSE then
    /\ seen' = "-"
    /\ UNCHANGED <<runtime, closed, opens, reader, pausedBy, breached>>

FloorWrites(write, state, who, then) ==
    /\ passStep = write /\ passStep' = then
    /\ MarkPaused(state, who)
    /\ UNCHANGED <<closed, opens, seen, reader, breached>>

WinRateReads     == FloorReads("win_rate", "win_rate_write", LowWinRate, "expectancy")
WinRateWrites    == FloorWrites("win_rate_write", "LOW_WIN_RATE", "win_rate", "expectancy")
ExpectancyReads  == FloorReads("expectancy", "expectancy_write", LowExpectancy, "idle")
ExpectancyWrites == FloorWrites("expectancy_write", "NEGATIVE_EXPECTANCY", "expectancy", "idle")

\* A check that raises is reported, and the next check runs.
MonitorFails ==
    /\ \/ passStep \in {"drawdown", "drawdown_stale", "drawdown_write"} /\ passStep' = "win_rate"
       \/ passStep \in {"win_rate", "win_rate_write"} /\ passStep' = "expectancy"
       \/ passStep \in {"expectancy", "expectancy_write"} /\ passStep' = "idle"
    /\ seen' = "-"
    /\ UNCHANGED <<runtime, closed, opens, reader, pausedBy, breached>>

-----------------------------------------------------------------------------
(* The rest of the world. *)

\* The reconciler books the end of a cycle before the next pass.
CycleEnds ==
    /\ passStep = "idle"
    /\ \E p \in Outcomes :
         LET longer == Append(closed, [age |-> 0, pnl |-> p])
         IN  closed' = SubSeq(longer, IF Len(longer) > MaxClosed THEN 2 ELSE 1, Len(longer))
    /\ UNCHANGED <<runtime, passStep, opens, seen, reader, pausedBy, breached>>

DayPasses ==
    /\ passStep = "idle"
    /\ closed' = [i \in DOMAIN closed |->
                    [closed[i] EXCEPT !.age = IF @ > RollingWindow THEN @ ELSE @ + 1]]
    /\ runtime' = [runtime EXCEPT !.until = IF @ > 0 THEN @ - 1 ELSE @]
    /\ breached' = (breached /\ runtime'.until > 0)
    /\ UNCHANGED <<passStep, opens, seen, reader, pausedBy>>

\* The control server's pause_strategy and reenable_strategy; the script is
\* the same delete.  Neither waits for the tick.
PauseStrategy ==
    /\ MarkPaused("LOW_WIN_RATE", "operator")
    /\ UNCHANGED <<closed, passStep, opens, seen, reader, breached>>

ReenableStrategy ==
    /\ runtime # NoRow
    /\ Enable
    /\ UNCHANGED <<closed, passStep, opens, seen, reader>>

\* The dashboard's overview, and the listing of disabled strategies, also
\* delete a row they found stale.
ReaderFindsStale ==
    /\ CurrentState = "stale" /\ reader' = TRUE
    /\ UNCHANGED <<runtime, closed, passStep, opens, seen, pausedBy, breached>>

ReaderClears ==
    /\ reader /\ reader' = FALSE /\ Enable
    /\ UNCHANGED <<closed, passStep, opens, seen>>

-----------------------------------------------------------------------------
PassNext ==
    \/ GateReadsDrawdown \/ GateClearsStale \/ GateReadsPause
    \/ \E raises \in BOOLEAN : Dispatch(raises)
    \/ DrawdownReads \/ DrawdownClearsStale \/ DrawdownWrites
    \/ WinRateReads \/ WinRateWrites \/ ExpectancyReads \/ ExpectancyWrites
    \/ MonitorFails

Operator == PauseStrategy \/ ReenableStrategy

RuntimeNext ==
    PassNext \/ CycleEnds \/ DayPasses \/ Operator \/ ReaderFindsStale \/ ReaderClears

RuntimeSpec == RuntimeInit /\ [][RuntimeNext]_runtimeVars

\* The loop ticks, and days pass however often it does.
FairRuntimeSpec == RuntimeSpec /\ WF_runtimeVars(PassNext) /\ SF_runtimeVars(DayPasses)

-----------------------------------------------------------------------------
\* Once a completed check has found the drawdown past the disable threshold,
\* no entries are routed until the reset date passes or somebody deletes the
\* row: a recovering P&L does not soften the breaker, nor does a floor's write.
LossesStopEntries == passStep = "entries" /\ breached => opens = "none"

\* The two floors share one column, and neither takes over a pause of the other.
FloorsKeepEachOthersPause ==
    [][{pausedBy, pausedBy'} # {"win_rate", "expectancy"}]_runtimeVars

\* A strategy disabled by its drawdown is enabled again one day.
DisableEnds == (runtime.until # NoDate) ~> (runtime.until = NoDate)

\* What risk/win_rate_floor.py says of a pause: that only the operator ends it.
PauseNeverAutoClears ==
    [][runtime.pause # "NULL" => (runtime'.pause # "NULL" \/ ReenableStrategy)]_runtimeVars
=============================================================================
