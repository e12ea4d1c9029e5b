----------------------------- MODULE Gates_proofs -----------------------------
(***************************************************************************)
(* Proofs about the gates in front of an order, for any thresholds,        *)
(* windows, caps, hours, budgets and lists: every gate keeps its types; a  *)
(* breaker that has tripped keeps the entries out and the two floors leave *)
(* each other's pause alone; the concurrent caps hold; a same-day spread   *)
(* makes one round trip, and past the flatten time it stays open only for  *)
(* a reason; the day's model costs pass the cap by a bounded amount, and a *)
(* rerun of the regime job keeps the day's veto; the buying power keeps    *)
(* its floor.                                                              *)
(*                                                                         *)
(* The kill switch, which has a module of its own, comes with its theorems *)
(* from KillSwitch_proofs.                                                 *)
(***************************************************************************)
EXTENDS MCGates, KillSwitch_proofs, FiniteSetTheorems, SequenceTheorems,
        WellFoundedInduction, TLAPS

-----------------------------------------------------------------------------
(* The strategy breakers.  Neither argument needs the gauges, nor more of  *)
(* the types than the verdicts.                                            *)

RowType == [until : Int, drawdown : {"NULL", "WARNING", "DISABLED"},
            pause : {"NULL", "LOW_WIN_RATE", "NEGATIVE_EXPECTANCY"}]

LEMMA EmptyRow == NoRow \in RowType /\ ~ (NoRow.until > 0) /\ NoRow.pause = "NULL"
BY DEF NoRow, RowType, NoDate

LEMMA RowWrites ==
    ASSUME runtime \in RowType
    PROVE  /\ Disable => runtime' \in RowType /\ runtime'.until > 0 /\ runtime'.pause = runtime.pause
           /\ MarkWarning => runtime' \in RowType /\ runtime'.pause = runtime.pause
           /\ DayPasses => runtime' \in RowType /\ runtime'.pause = runtime.pause
           /\ \A state \in {"LOW_WIN_RATE", "NEGATIVE_EXPECTANCY"} : \A who :
                MarkPaused(state, who) =>
                    runtime' \in RowType /\ runtime'.until = runtime.until /\ runtime'.pause # "NULL"
<1>a. ASSUME NEW n \in Int, NEW d \in {"WARNING", "DISABLED"},
             runtime' = [runtime EXCEPT !.until = n, !.drawdown = d]
      PROVE  runtime' \in RowType /\ runtime'.until = n /\ runtime'.pause = runtime.pause
  BY <1>a DEF RowType
<1>1. Disable => runtime' \in RowType /\ runtime'.until > 0 /\ runtime'.pause = runtime.pause
  <2>1. AutoReset \in Int /\ AutoReset > 0
    BY RuntimeAssumption
  <2> QED
    BY <2>1, <1>a DEF Disable
<1>2. MarkWarning => runtime' \in RowType /\ runtime'.pause = runtime.pause
  <2>1. NoDate \in Int
    BY DEF NoDate
  <2> QED
    BY <2>1, <1>a DEF MarkWarning
<1>3. DayPasses => runtime' \in RowType /\ runtime'.pause = runtime.pause
  BY DEF DayPasses, RowType
<1>4. ASSUME NEW state \in {"LOW_WIN_RATE", "NEGATIVE_EXPECTANCY"}, NEW who, MarkPaused(state, who)
      PROVE  runtime' \in RowType /\ runtime'.until = runtime.until /\ runtime'.pause # "NULL"
  BY <1>4 DEF MarkPaused, RowType
<1> QED
  BY <1>1, <1>2, <1>3, <1>4

\* Why the breaker holds.  A breach leaves the row with days to go, which only a
\* delete or the reset date ends; a check or a gate that is about to write over
\* the row, or has let entries through, has read it without any.
BreachInv ==
    /\ runtime \in RowType
    /\ breached => runtime.until > 0
    /\ passStep \in {"gate_stale", "gate_pause", "drawdown_stale", "drawdown_write"}
         => ~ breached
    /\ LossesStopEntries

\* After a completed check has found the drawdown past its threshold no entries are
\* routed until the reset date, whatever the P&L, the floors, the operator's pause
\* or another process do to the row.
THEOREM BreachesStopEntries == RuntimeSpec => []LossesStopEntries
<1> USE EmptyRow DEF BreachInv, LossesStopEntries
<1>1. RuntimeInit => BreachInv
  BY DEF RuntimeInit
<1>2. BreachInv /\ [RuntimeNext]_runtimeVars => BreachInv'
  <2> SUFFICES ASSUME BreachInv, [RuntimeNext]_runtimeVars PROVE BreachInv'
    OBVIOUS
  <2> USE RuntimeAssumption
  <2>1. CASE GateReadsDrawdown
    <3>1. CASE runtime.until > 0
      <4>1. passStep' = "entries" /\ opens' = "none"
        BY <2>1, <3>1 DEF GateReadsDrawdown, CurrentState
      <4> QED
        BY <2>1, <3>1, <4>1 DEF GateReadsDrawdown
    <3>2. CASE ~ (runtime.until > 0)
      <4>1. passStep' \in {"gate_stale", "gate_pause"}
        BY <2>1, <3>2 DEF GateReadsDrawdown, CurrentState
      <4> QED
        BY <2>1, <3>2, <4>1 DEF GateReadsDrawdown
    <3> QED
      BY <3>1, <3>2
  <2>2. CASE GateClearsStale \/ DrawdownClearsStale \/ ReaderClears \/ ReenableStrategy
    BY <2>2 DEF GateClearsStale, DrawdownClearsStale, ReaderClears, ReenableStrategy, Enable
  <2>3. CASE GateReadsPause
    BY <2>3 DEF GateReadsPause
  <2>4. CASE \E raises \in BOOLEAN : Dispatch(raises)
    BY <2>4 DEF Dispatch
  <2>5. CASE DrawdownReads
    <3>1. CASE runtime.until > 0
      <4>1. passStep' = "win_rate" /\ runtime' = runtime
        BY <2>5, <3>1 DEF DrawdownReads, CurrentState
      <4> QED
        BY <3>1, <4>1
    <3>2. CASE ~ (runtime.until > 0)
      <4>1. breached' = breached /\ runtime' = runtime /\ passStep' # "entries"
        BY <2>5, <3>2 DEF DrawdownReads, CurrentState
      <4> QED
        BY <3>2, <4>1
    <3> QED
      BY <3>1, <3>2
  <2>6. CASE DrawdownWrites
    <3> passStep' = "win_rate" /\ ~ breached
      BY <2>6 DEF DrawdownWrites
    <3>1. CASE seen = "DISABLED"
      <4>1. runtime' \in RowType /\ runtime'.until > 0
        BY <2>6, <3>1, RowWrites DEF DrawdownWrites
      <4> QED
        BY <4>1
    <3>2. CASE seen = "WARNING"
      <4>1. runtime' \in RowType /\ breached' = breached
        BY <2>6, <3>2, RowWrites DEF DrawdownWrites
      <4> QED
        BY <4>1
    <3>3. CASE seen = "NORMAL"
      BY <2>6, <3>3 DEF DrawdownWrites, Enable
    <3> QED
      BY <2>6, <3>1, <3>2, <3>3 DEF DrawdownWrites
  <2>7. CASE WinRateReads \/ ExpectancyReads
    <3>1. UNCHANGED <<runtime, breached>>
      BY <2>7 DEF WinRateReads, ExpectancyReads, FloorReads
    <3>2. passStep' \in {"win_rate_write", "expectancy", "expectancy_write", "idle"}
      BY <2>7 DEF WinRateReads, ExpectancyReads, FloorReads
    <3> QED
      BY <3>1, <3>2
  <2>8. CASE WinRateWrites \/ ExpectancyWrites \/ PauseStrategy
    <3>1. runtime' \in RowType /\ runtime'.until = runtime.until
      BY <2>8, RowWrites DEF WinRateWrites, ExpectancyWrites, FloorWrites, PauseStrategy
    <3>2. /\ UNCHANGED <<breached, opens>>
          /\ passStep' \in {passStep, "expectancy", "idle"}
      BY <2>8 DEF WinRateWrites, ExpectancyWrites, FloorWrites, PauseStrategy
    <3> QED
      BY <3>1, <3>2
  <2>9. CASE MonitorFails
    BY <2>9 DEF MonitorFails
  <2>10. CASE CycleEnds
    BY <2>10 DEF CycleEnds
  <2>11. CASE DayPasses
    <3>1. runtime' \in RowType
      BY <2>11, RowWrites
    <3>2. (breached' => runtime'.until > 0) /\ passStep' = "idle"
      BY <2>11 DEF DayPasses
    <3> QED
      BY <3>1, <3>2
  <2>12. CASE ReaderFindsStale
    BY <2>12 DEF ReaderFindsStale
  <2>13. CASE UNCHANGED runtimeVars
    BY <2>13 DEF runtimeVars
  <2> QED
    BY <2>1, <2>2, <2>3, <2>4, <2>5, <2>6, <2>7, <2>8, <2>9, <2>10, <2>11, <2>12, <2>13
       DEF RuntimeNext, PassNext, Operator
<1> QED
  BY <1>1, <1>2, PTL DEF RuntimeSpec

-----------------------------------------------------------------------------
\* Why the floors keep apart: a floor is about to write only if it saw no pause,
\* and since then nobody but the operator can have made one.
PauseInv ==
    /\ runtime \in RowType
    /\ runtime.pause = "NULL" => pausedBy = "nobody"
    /\ passStep = "win_rate_write"   => pausedBy # "expectancy"
    /\ passStep = "expectancy_write" => pausedBy # "win_rate"

\* No step turns a pause of one floor into a pause of the other.
THEOREM FloorsKeepApart == RuntimeSpec => FloorsKeepEachOthersPause
<1> USE EmptyRow DEF PauseInv
<1>1. RuntimeInit => PauseInv
  BY DEF RuntimeInit
<1>2. PauseInv /\ [RuntimeNext]_runtimeVars
        => PauseInv' /\ [{pausedBy, pausedBy'} # {"win_rate", "expectancy"}]_runtimeVars
  <2> SUFFICES ASSUME PauseInv, [RuntimeNext]_runtimeVars
               PROVE  PauseInv' /\ {pausedBy, pausedBy'} # {"win_rate", "expectancy"}
    OBVIOUS
  <2> USE RuntimeAssumption
  <2>1. CASE GateClearsStale \/ DrawdownClearsStale \/ ReaderClears \/ ReenableStrategy
    BY <2>1 DEF GateClearsStale, DrawdownClearsStale, ReaderClears, ReenableStrategy, Enable
  <2>2. CASE DrawdownWrites
    <3> passStep' = "win_rate"
      BY <2>2 DEF DrawdownWrites
    <3>1. CASE seen = "DISABLED"
      <4>1. runtime' \in RowType /\ runtime'.pause = runtime.pause /\ pausedBy' = pausedBy
        BY <2>2, <3>1, RowWrites DEF DrawdownWrites
      <4> QED
        BY <4>1
    <3>2. CASE seen = "WARNING"
      <4>1. runtime' \in RowType /\ runtime'.pause = runtime.pause /\ pausedBy' = pausedBy
        BY <2>2, <3>2, RowWrites DEF DrawdownWrites
      <4> QED
        BY <4>1
    <3>3. CASE seen = "NORMAL"
      BY <2>2, <3>3 DEF DrawdownWrites, Enable
    <3> QED
      BY <2>2, <3>1, <3>2, <3>3 DEF DrawdownWrites
  <2>3. CASE WinRateReads \/ ExpectancyReads
    <3>1. UNCHANGED <<runtime, pausedBy>>
      BY <2>3 DEF WinRateReads, ExpectancyReads, FloorReads
    <3>2. \/ passStep' \in {"win_rate_write", "expectancy_write"} /\ runtime.pause = "NULL"
          \/ passStep' \in {"expectancy", "idle"}
      BY <2>3 DEF WinRateReads, ExpectancyReads, FloorReads
    <3> QED
      BY <3>1, <3>2
  <2>4. CASE WinRateWrites \/ ExpectancyWrites \/ PauseStrategy
    <3>1. runtime' \in RowType /\ runtime'.pause # "NULL"
      BY <2>4, RowWrites DEF WinRateWrites, ExpectancyWrites, FloorWrites, PauseStrategy
    <3>2. CASE WinRateWrites \/ ExpectancyWrites
      BY <3>1, <3>2 DEF WinRateWrites, ExpectancyWrites, FloorWrites, MarkPaused
    <3>3. CASE PauseStrategy
      BY <3>1, <3>3 DEF PauseStrategy, MarkPaused
    <3> QED
      BY <2>4, <3>2, <3>3
  <2>5. CASE DayPasses
    <3>1. runtime' \in RowType /\ runtime'.pause = runtime.pause
      BY <2>5, RowWrites
    <3> QED
      BY <2>5, <3>1 DEF DayPasses
  <2>6. CASE MonitorFails
    BY <2>6 DEF MonitorFails
  <2>7. CASE UNCHANGED <<runtime, pausedBy>> /\ passStep' \notin {"win_rate_write", "expectancy_write"}
    BY <2>7
  <2>8. CASE UNCHANGED <<runtime, pausedBy, passStep>>
    BY <2>8
  <2>9. CASE GateReadsDrawdown
    <3>1. passStep' \in {"entries", "gate_stale", "gate_pause"} /\ UNCHANGED <<runtime, pausedBy>>
      BY <2>9 DEF GateReadsDrawdown, CurrentState
    <3> QED
      BY <3>1, <2>7
  <2>10. CASE GateReadsPause \/ \E raises \in BOOLEAN : Dispatch(raises)
    BY <2>7, <2>10 DEF GateReadsPause, Dispatch
  <2>11. CASE DrawdownReads
    <3>1. passStep' \in {"win_rate", "drawdown_stale", "drawdown_write"} /\ UNCHANGED <<runtime, pausedBy>>
      BY <2>11 DEF DrawdownReads, CurrentState
    <3> QED
      BY <3>1, <2>7
  <2>12. CASE CycleEnds \/ ReaderFindsStale \/ UNCHANGED runtimeVars
    BY <2>8, <2>12 DEF CycleEnds, ReaderFindsStale, runtimeVars
  <2> QED
    BY <2>1, <2>2, <2>3, <2>4, <2>5, <2>6, <2>9, <2>10, <2>11, <2>12
       DEF RuntimeNext, PassNext, Operator
<1> QED
  BY <1>1, <1>2, PTL DEF RuntimeSpec, FloorsKeepEachOthersPause

-----------------------------------------------------------------------------
(* The risk limits and the same-day spreads. *)

\* Why the caps hold: one order is routed at a time, and from its judgement until
\* its row is written no other row is.
CapsInv ==
    /\ book \in [Keys -> [state : {"IDLE", "PENDING", "OPEN", "SPREAD_CLOSED"}, risk : Nat]]
    /\ routeStep \in {"idle", "judged", "accepted"}
    /\ routeStep # "idle" => <<asked.symbol, asked.strategy>> \in Keys
                             /\ asked.strategy \in StrategyIds /\ asked.risk \in Nat
    /\ routeStep = "accepted" \/ (routeStep = "judged" /\ failures = {})
         => ~ ConcurrentCapFails(asked) /\ ~ TotalCapFails(asked)
    /\ CapsHold

LEMMA ActiveIsFinite ==
    /\ IsFiniteSet(Active) /\ Cardinality(Active) \in Nat
    /\ \A s : IsFiniteSet(ActiveOf(s)) /\ Cardinality(ActiveOf(s)) \in Nat
<1>1. IsFiniteSet(Keys)
  BY FS_Product, LimitsAssumption DEF Keys
<1>2. Active \in SUBSET Keys /\ \A s : ActiveOf(s) \in SUBSET Keys
  BY DEF Active, ActiveOf
<1> QED
  BY <1>1, <1>2, FS_Subset, FS_CardinalityType

\* A judgement without failures has found room under both caps.
LEMMA NoFailures ==
    ASSUME NEW p, NEW c, Failures(p, c) = {}
    PROVE  ~ ConcurrentCapFails(p) /\ ~ TotalCapFails(p)
<1>1. "concurrent_positions_cap" \in Rules /\ "concurrent_total_cap" \in Rules
  BY DEF Rules
<1>2. ConcurrentCapFails(p) => "concurrent_positions_cap" \in Failures(p, c)
  BY <1>1 DEF Failures
<1>3. TotalCapFails(p) => "concurrent_total_cap" \in Failures(p, c)
  BY <1>1 DEF Failures
<1> QED
  BY <1>2, <1>3

\* Rows that leave the active ones leave room.
LEMMA FewerRows ==
    ASSUME CapsHold, Active' \subseteq Active
    PROVE  CapsHold'
<1>1. \A s : ActiveOf(s)' \subseteq ActiveOf(s)
  BY DEF ActiveOf
<1>2. Cardinality(Active') <= Cardinality(Active) /\ Cardinality(Active') \in Nat
  BY ActiveIsFinite, FS_Subset, FS_CardinalityType
<1>3. \A s : Cardinality(ActiveOf(s)') <= Cardinality(ActiveOf(s)) /\ Cardinality(ActiveOf(s)') \in Nat
  BY <1>1, ActiveIsFinite, FS_Subset, FS_CardinalityType
<1>4. MaxConcurrentTotal \in Nat /\ \A s \in StrategyIds : MaxConcurrent[s] \in Nat
  BY LimitsAssumption
<1> QED
  BY <1>2, <1>3, <1>4, ActiveIsFinite DEF CapsHold

\* No strategy has more live rows than its cap, nor all together more than the
\* account's, wherever the process dies and whatever the operator's tools close.
THEOREM CapsAreKept == LimitsSpec => []CapsHold
<1>1. LimitsInit => CapsInv
  <2> SUFFICES ASSUME LimitsInit PROVE CapsInv
    OBVIOUS
  <2>1. book \in [Keys -> [state : {"IDLE", "PENDING", "OPEN", "SPREAD_CLOSED"}, risk : Nat]]
    BY DEF LimitsInit
  <2>2. Active = {} /\ \A s : ActiveOf(s) = {}
    BY DEF LimitsInit, Active, ActiveOf
  <2>3. CapsHold
    BY <2>2, FS_EmptySet, LimitsAssumption DEF CapsHold
  <2> QED
    BY <2>1, <2>3 DEF LimitsInit, CapsInv
<1>2. CapsInv /\ [LimitsNext]_limitsVars => CapsInv'
  <2> SUFFICES ASSUME CapsInv, [LimitsNext]_limitsVars
               PROVE  CapsInv'
    OBVIOUS
  <2>1. ASSUME NEW p, NEW c, Judge(p, c), <<p.symbol, p.strategy>> \in Keys,
               p.strategy \in StrategyIds, p.risk \in Nat
        PROVE  CapsInv'
    <3>1. book' = book /\ asked' = p /\ routeStep' = "judged" /\ failures' = Failures(p, c)
      BY <2>1 DEF Judge
    <3>2. failures' = {} => (~ ConcurrentCapFails(asked) /\ ~ TotalCapFails(asked))'
      <4>1. ASSUME failures' = {} PROVE ~ ConcurrentCapFails(p) /\ ~ TotalCapFails(p)
        BY <3>1, <4>1, NoFailures
      <4> QED
        BY <3>1, <4>1 DEF ConcurrentCapFails, TotalCapFails, ActiveOf, Active
    <3>3. CapsHold'
      BY <3>1 DEF CapsInv, CapsHold, ActiveOf, Active
    <3> QED
      BY <2>1, <3>1, <3>2, <3>3 DEF CapsInv
  <2>2. CASE StrategyOpens
    <3>1. UsualRisk \in Nat /\ LargeRisk \in Nat
      BY LimitsAssumption
    <3>2. PICK k \in Keys, c \in Circumstances : \E o \in Opens[TypeOf[k[2]]] :
            Judge([symbol |-> k[1], strategy |-> k[2], type |-> o[1], what |-> o[2],
                   risk |-> IF c = "large" THEN LargeRisk ELSE UsualRisk], c)
      BY <2>2 DEF StrategyOpens
    <3>3. <<k[1], k[2]>> \in Keys /\ k[2] \in StrategyIds
      BY DEF Keys
    <3> QED
      BY <2>1, <3>1, <3>2, <3>3
  <2>3. CASE StrategyCloses
    <3>1. PICK k \in Keys, c \in Circumstances :
            Judge([symbol |-> k[1], strategy |-> k[2], type |-> Closes[TypeOf[k[2]]],
                   what |-> "PUT", risk |-> book[k].risk], c)
      BY <2>3 DEF StrategyCloses
    <3>2. <<k[1], k[2]>> \in Keys /\ k[2] \in StrategyIds /\ book[k].risk \in Nat
      BY DEF Keys, CapsInv
    <3> QED
      BY <2>1, <3>1, <3>2
  <2>4. CASE \E s \in StrategyIds : UnquotedCloses(s)
    <3>1. PICK s \in StrategyIds, k \in Keys :
            Judge([symbol |-> k[1], strategy |-> s, type |-> "BUY_TO_CLOSE",
                   what |-> "PUT", risk |-> book[k].risk], "no_quote")
      BY <2>4 DEF UnquotedCloses
    <3>2. <<k[1], s>> \in Keys /\ book[k].risk \in Nat
      BY DEF Keys, CapsInv
    <3> QED
      BY <2>1, <3>1, <3>2
  <2>5. ASSUME book' = book, asked' = asked \/ routeStep' = "idle",
               routeStep' \in {"idle", "accepted"},
               routeStep' = "accepted" => routeStep = "judged" /\ failures = {}
        PROVE  CapsInv'
    <3>1. CapsHold'
      BY <2>5 DEF CapsInv, CapsHold, ActiveOf, Active
    <3>2. routeStep' = "accepted" => (~ ConcurrentCapFails(asked) /\ ~ TotalCapFails(asked))'
      BY <2>5 DEF CapsInv, ConcurrentCapFails, TotalCapFails, ActiveOf, Active
    <3> QED
      BY <2>5, <3>1, <3>2 DEF CapsInv
  <2>6. CASE Refuse
    BY <2>5, <2>6 DEF Refuse
  <2>7. CASE \E accepted \in BOOLEAN : Submit(accepted)
    BY <2>5, <2>7 DEF Submit
  <2>8. CASE CrashBeforeRow
    BY <2>5, <2>8 DEF CrashBeforeRow
  <2>9. CASE WriteRow
    <3> DEFINE key == <<asked.symbol, asked.strategy>>
               starts == RowOf(asked).state \in {"IDLE", "SPREAD_CLOSED"} /\ ~ IsClose(asked)
               row == [state |-> "PENDING", risk |-> asked.risk]
    <3>1. CASE ~ starts
      BY <2>5, <2>9, <3>1 DEF WriteRow
    <3>2. CASE starts
      <4>1. /\ book' = [book EXCEPT ![key] = row] /\ routeStep' = "idle"
            /\ key \in Keys /\ asked.strategy \in StrategyIds /\ asked.risk \in Nat
            /\ key \notin Active
        BY <2>9, <3>2 DEF WriteRow, CapsInv, RowOf, Active
      <4>2. ~ ConcurrentCapFails(asked) /\ ~ TotalCapFails(asked)
        BY <2>9 DEF WriteRow, CapsInv
      <4>3. Active' = Active \cup {key}
        BY <4>1 DEF Active, CapsInv
      <4>a. PICK st \in StrategyIds : st = asked.strategy
        BY <4>1
      <4>b. PICK k \in Keys : k = key
        BY <4>1
      <4>4. /\ ActiveOf(st)' \subseteq ActiveOf(st) \cup {k}
            /\ \A s : s # st => ActiveOf(s)' = ActiveOf(s)
        <5>1. k[2] = st /\ Active' = Active \cup {k}
          BY <4>3, <4>a, <4>b
        <5> QED
          BY <5>1 DEF ActiveOf
      <4>5. Cardinality(ActiveOf(st)) + 1 <= MaxConcurrent[st]
        <5>1. \A l \in ActiveOf(asked.strategy) : l[1] # asked.symbol
          BY <4>1 DEF ActiveOf, Active, Keys
        <5>2. MaxConcurrent[st] \in Nat
          BY LimitsAssumption
        <5> QED
          BY <4>2, <4>a, <5>1, <5>2, ActiveIsFinite DEF ConcurrentCapFails
      <4>6. Cardinality(Active) + 1 <= MaxConcurrentTotal
        BY <4>1, <4>2, ActiveIsFinite, LimitsAssumption DEF TotalCapFails
      <4>7. Cardinality(Active') <= MaxConcurrentTotal
        <5>1. Active' = Active \cup {k} /\ k \notin Active
          BY <4>1, <4>3, <4>b
        <5>2. Cardinality(Active \cup {k}) = Cardinality(Active) + 1
          BY <5>1, ActiveIsFinite, FS_AddElement
        <5> QED
          BY <4>6, <5>1, <5>2
      <4>8. Cardinality(ActiveOf(st)') <= MaxConcurrent[st]
        <5> DEFINE more == ActiveOf(st) \cup {k}
        <5>1. IsFiniteSet(more) /\ Cardinality(more) \in Nat
          BY ActiveIsFinite, FS_AddElement, FS_CardinalityType
        <5>2. Cardinality(more) <= Cardinality(ActiveOf(st)) + 1
          BY ActiveIsFinite, FS_AddElement
        <5>3. ActiveOf(st)' \subseteq more
          BY <4>4
        <5> HIDE DEF more
        <5>4. Cardinality(ActiveOf(st)') <= Cardinality(more) /\ Cardinality(ActiveOf(st)') \in Nat
          BY <5>1, <5>3, FS_Subset, FS_CardinalityType
        <5>5. MaxConcurrent[st] \in Nat
          BY LimitsAssumption
        <5> QED
          BY <4>5, <5>1, <5>2, <5>4, <5>5, ActiveIsFinite
      <4>9. CapsHold'
        <5>1. \A s \in StrategyIds : Cardinality(ActiveOf(s)') <= MaxConcurrent[s]
          <6> SUFFICES ASSUME NEW s \in StrategyIds
                       PROVE  Cardinality(ActiveOf(s)') <= MaxConcurrent[s]
            OBVIOUS
          <6>1. CASE s = st
            BY <4>8, <6>1
          <6>2. CASE s # st
            BY <4>4, <6>2 DEF CapsInv, CapsHold
          <6> QED
            BY <6>1, <6>2
        <5> QED
          BY <4>7, <5>1 DEF CapsHold
      <4>10. book' \in [Keys -> [state : {"IDLE", "PENDING", "OPEN", "SPREAD_CLOSED"}, risk : Nat]]
        BY <4>1 DEF CapsInv
      <4> QED
        BY <4>1, <4>9, <4>10 DEF CapsInv
    <3> QED
      BY <3>1, <3>2
  <2>10. CASE RowMoves
    <3>1. PICK k \in Active, r \in [state : {"IDLE", "OPEN", "SPREAD_CLOSED"}, risk : Nat] :
            book' = [book EXCEPT ![k] = r]
      <4>1. PICK k \in Active :
              \/ book' = [book EXCEPT ![k].state = "OPEN"]
              \/ \E s \in {"IDLE", "SPREAD_CLOSED"} : book' = [book EXCEPT ![k] = [state |-> s, risk |-> 0]]
        BY <2>10 DEF RowMoves
      <4>2. k \in Keys /\ book[k].risk \in Nat
        BY DEF Active, CapsInv
      <4>3. [book EXCEPT ![k].state = "OPEN"]
              = [book EXCEPT ![k] = [state |-> "OPEN", risk |-> book[k].risk]]
        <5>1. book[k] \in [state : {"IDLE", "PENDING", "OPEN", "SPREAD_CLOSED"}, risk : Nat]
          BY <4>2 DEF CapsInv
        <5>2. [book[k] EXCEPT !.state = "OPEN"] = [state |-> "OPEN", risk |-> book[k].risk]
          BY <5>1
        <5> QED
          BY <5>2
      <4> QED
        BY <4>1, <4>2, <4>3
    <3>2. Active' \subseteq Active
      BY <3>1 DEF Active, CapsInv
    <3>3. book' \in [Keys -> [state : {"IDLE", "PENDING", "OPEN", "SPREAD_CLOSED"}, risk : Nat]]
      BY <3>1 DEF Active, CapsInv
    <3>4. routeStep' = "idle"
      BY <2>10 DEF RowMoves
    <3> QED
      BY <3>2, <3>3, <3>4, FewerRows DEF CapsInv
  <2>11. CASE UNCHANGED limitsVars
    BY <2>11 DEF limitsVars, CapsInv, CapsHold, ConcurrentCapFails, TotalCapFails, ActiveOf, Active
  <2> QED
    BY <2>2, <2>3, <2>4, <2>6, <2>7, <2>8, <2>9, <2>10, <2>11 DEF LimitsNext
<1>3. CapsInv => CapsHold
  BY DEF CapsInv
<1> QED
  BY <1>1, <1>2, <1>3, PTL DEF LimitsSpec

-----------------------------------------------------------------------------
SpreadRow == [state : {"IDLE", "SPREAD_PENDING", "SPREAD_OPEN", "SPREAD_CLOSED"}, started : Nat]
WorkingOrder == [what : {"none", "entry", "close"}, filled : BOOLEAN]
RowStatus == {"none", "pending", "ended"}

LEMMA Hours ==
    /\ MaxPerDay \in Nat /\ EntryEnd \in Nat /\ FlattenAt \in Nat
    /\ LiquidatedAt \in Nat /\ EntryEnd < FlattenAt
BY ZeroDteAssumption

\* Why a day has its round trips and no more: an entry is only made while the
\* started cycles leave room, and a symbol has one order at a time.  And why a
\* spread left open is excused: no entry works past the flatten time on a symbol
\* whose close was routed, and a row that says pending stands for a close at the
\* broker, or for one that ended after the reconcile pass.
RoundTripInv ==
    /\ clock \in Nat
    /\ spread \in [Underlyings -> SpreadRow]
    /\ working \in [Underlyings -> WorkingOrder]
    /\ closeRow \in [Underlyings -> RowStatus]
    /\ \A u \in Underlyings :
         /\ working[u].what = "entry" => spread[u].state = "SPREAD_PENDING" /\ spread[u].started < MaxPerDay
         /\ working[u].filled => working[u].what # "none"
         /\ closeRow[u] = "pending" => /\ spread[u].state = "SPREAD_OPEN"
                                       /\ working[u].what = "close" \/ u \in endedSince
         /\ u \in chance => working[u].what # "entry"
    /\ \A u \in unseen : tickStep = "closing" => spread[u].state = "SPREAD_OPEN"
    /\ unseen \subseteq Underlyings
    /\ chance # {} => clock >= FlattenAt
    /\ OneRoundTripPerDay
    /\ MissedFlattenIsExcused

\* What the router does with a proposed close touches one symbol's order and row.
LEMMA CloseSteps ==
    ASSUME NEW u \in Underlyings,
           working \in [Underlyings -> WorkingOrder], closeRow \in [Underlyings -> RowStatus],
           Takes(u) \/ Refuses(u) \/ UNCHANGED <<working, closeRow>>
    PROVE  /\ working' \in [Underlyings -> WorkingOrder] /\ closeRow' \in [Underlyings -> RowStatus]
           /\ \A v \in Underlyings \ {u} : working'[v] = working[v] /\ closeRow'[v] = closeRow[v]
           /\ working'[u] \in {working[u], NewClose, NoWorking}
           /\ closeRow'[u] = "pending" =>
                \/ closeRow[u] = "pending" /\ working'[u] = working[u]
                \/ working[u].filled /\ working'[u] = working[u]
                \/ working'[u] = NewClose
           /\ Takes(u) => \/ closeRow[u] = "pending" /\ working'[u] = working[u]
                          \/ working[u].filled /\ working'[u] = working[u]
                          \/ working'[u] = NewClose
<1>0. NewClose \in WorkingOrder /\ NoWorking \in WorkingOrder
  BY DEF NewClose, NoWorking, WorkingOrder
<1>1. CASE UNCHANGED <<working, closeRow>>
  <2>1. Takes(u) => closeRow[u] = "pending" \/ working[u].filled \/ working'[u] = NewClose
    BY <1>1 DEF Takes, LeavesPending, Submits, Cancels
  <2> QED
    BY <1>1, <2>1
<1>2. CASE Submits(u)
  <2>1. working' = [working EXCEPT ![u] = IF working[u].filled THEN working[u] ELSE NewClose]
    BY <1>2 DEF Submits
  <2>2. closeRow' = [closeRow EXCEPT ![u] = IF closeRow[u] = "none" THEN "pending" ELSE closeRow[u]]
    BY <1>2 DEF Submits
  <2>3. closeRow' \in [Underlyings -> RowStatus]
    BY <2>2 DEF RowStatus
  <2> QED
    BY <1>0, <2>1, <2>2, <2>3
<1>3. ASSUME NEW after \in {NewClose, NoWorking}, Cancels(u, after)
      PROVE  /\ working' = [working EXCEPT ![u] = after] /\ working'[u] = after
             /\ closeRow' = [closeRow EXCEPT ![u] = "ended"] /\ closeRow'[u] = "ended"
             /\ working' \in [Underlyings -> WorkingOrder] /\ closeRow' \in [Underlyings -> RowStatus]
  BY <1>0, <1>3 DEF Cancels, RowStatus
<1>4. CASE Cancels(u, NewClose)
  BY <1>3, <1>4
<1>5. CASE Cancels(u, NoWorking) /\ ~ UNCHANGED <<working, closeRow>> /\ ~ Submits(u) /\ ~ Cancels(u, NewClose)
  <2>1. ~ Takes(u)
    BY <1>5 DEF Takes, LeavesPending
  <2> QED
    BY <1>3, <1>5, <2>1
<1> QED
  BY <1>1, <1>2, <1>4, <1>5 DEF Takes, Refuses, LeavesPending

LEMMA RoundTripInvariant == ZeroDteSpec => []RoundTripInv
<1> USE Hours
<1>1. ZeroDteInit => RoundTripInv
  BY DEF ZeroDteInit, RoundTripInv, SpreadRow, WorkingOrder, RowStatus, Idle, NoWorking,
         OneRoundTripPerDay, MissedFlattenIsExcused
<1>2. RoundTripInv /\ [ZeroDteNext]_zeroDteVars => RoundTripInv'
  <2> SUFFICES ASSUME RoundTripInv, [ZeroDteNext]_zeroDteVars
               PROVE  RoundTripInv'
    OBVIOUS
  <2> USE DEF RoundTripInv, SpreadRow, WorkingOrder, RowStatus, OneRoundTripPerDay, MissedFlattenIsExcused
  <2>1. CASE Reconcile
    <3>1. ASSUME NEW u \in Underlyings
          PROVE  /\ spread'[u] \in SpreadRow /\ working'[u] \in WorkingOrder /\ closeRow'[u] \in RowStatus
                 /\ spread'[u].started <= MaxPerDay
                 /\ working'[u].what = "entry" =>
                      spread'[u].state = "SPREAD_PENDING" /\ spread'[u].started < MaxPerDay
                 /\ working'[u].filled => working'[u].what # "none"
                 /\ closeRow'[u] = "pending" => spread'[u].state = "SPREAD_OPEN" /\ working'[u].what = "close"
                 /\ u \in chance => working'[u].what # "entry"
                 /\ spread'[u].state = "SPREAD_OPEN" /\ u \in chance => working'[u].what = "close"
      <4>0. closeRow'[u] = CloseSeen(u)
        BY <2>1 DEF Reconcile
      <4>1. CASE ~ working[u].filled
        <5>1. spread'[u] = spread[u] /\ working'[u] = working[u]
          BY <2>1, <4>1 DEF Reconcile
        <5>2. closeRow'[u] = "pending" => closeRow[u] = "pending" /\ working[u].what = "close"
          BY <4>0 DEF CloseSeen, NewClose
        <5>3. closeRow'[u] \in RowStatus
          BY <4>0 DEF CloseSeen
        <5> QED
          BY <5>1, <5>2, <5>3
      <4>5. ASSUME working[u].filled
            PROVE  closeRow'[u] # "pending" /\ closeRow'[u] \in RowStatus
        BY <4>0, <4>5 DEF CloseSeen, NewClose
      <4>2. CASE working[u].filled /\ working[u].what = "entry"
        <5>1. spread'[u] = [state |-> "SPREAD_OPEN", started |-> spread[u].started + 1]
              /\ working'[u] = NoWorking /\ u \notin chance
          BY <2>1, <4>2 DEF Reconcile
        <5>2. spread[u].started \in Nat /\ spread[u].started < MaxPerDay
          BY <4>2
        <5> QED
          BY <4>2, <4>5, <5>1, <5>2 DEF NoWorking
      <4>3. CASE working[u].filled /\ working[u].what # "entry"
        <5>1. spread'[u] = [spread[u] EXCEPT !.state = "SPREAD_CLOSED"] /\ working'[u] = NoWorking
          BY <2>1, <4>3 DEF Reconcile
        <5>2. spread[u] \in SpreadRow /\ spread[u].started <= MaxPerDay
          OBVIOUS
        <5> QED
          BY <4>3, <4>5, <5>1, <5>2 DEF NoWorking
      <4> QED
        BY <4>1, <4>2, <4>3
    <3>2. /\ spread' = [u \in Underlyings |-> spread'[u]]
          /\ working' = [u \in Underlyings |-> working'[u]]
          /\ closeRow' = [u \in Underlyings |-> closeRow'[u]]
      BY <2>1 DEF Reconcile
    <3>3. /\ spread' \in [Underlyings -> SpreadRow] /\ working' \in [Underlyings -> WorkingOrder]
          /\ closeRow' \in [Underlyings -> RowStatus]
      BY <3>1, <3>2
    <3>4. UNCHANGED <<clock, unseen, chance>> /\ tickStep' = "reconciled"
      BY <2>1 DEF Reconcile
    <3> QED
      BY <3>1, <3>3, <3>4
  <2>2. CASE \E tripped \in BOOLEAN : ReadSwitch(tripped)
    BY <2>2 DEF ReadSwitch, orderVars
  <2>3. ASSUME NEW u \in Underlyings, NEW debit \in Debits, NEW taken \in BOOLEAN,
               Close(u, debit, taken)
        PROVE  RoundTripInv'
    <3>1. UNCHANGED <<clock, tickStep, spread, endedSince>> /\ unseen' \subseteq unseen
          /\ spread[u].state = "SPREAD_OPEN" /\ working[u].what # "entry"
      BY <2>3 DEF Close
    <3>2. Takes(u) \/ Refuses(u) \/ UNCHANGED <<working, closeRow>>
      BY <2>3 DEF Close
    <3>3. /\ working' \in [Underlyings -> WorkingOrder] /\ closeRow' \in [Underlyings -> RowStatus]
          /\ \A v \in Underlyings \ {u} : working'[v] = working[v] /\ closeRow'[v] = closeRow[v]
          /\ working'[u] \in {working[u], NewClose, NoWorking}
      BY <3>2, CloseSteps
    <3>4. closeRow'[u] = "pending" => working'[u].what = "close" \/ u \in endedSince
      <4>1. closeRow'[u] = "pending" => \/ closeRow[u] = "pending" /\ working'[u] = working[u]
                                        \/ working[u].filled /\ working'[u] = working[u]
                                        \/ working'[u] = NewClose
        BY <3>2, CloseSteps
      <4>2. working[u].what \in {"none", "entry", "close"}
        OBVIOUS
      <4> QED
        BY <3>1, <4>1, <4>2 DEF NewClose
    <3>5. /\ working'[u].what # "entry" /\ (working'[u].filled => working'[u].what # "none")
      BY <3>1, <3>3 DEF NewClose, NoWorking
    <3>6. /\ chance' \subseteq chance \cup {u}
          /\ chance' # {} => clock >= FlattenAt
          /\ u \in chance' => working'[u].what = "close"
      <4>1. CASE clock >= FlattenAt /\ taken /\ u \notin endedSince
        <5>1. chance' = chance \cup {u} /\ Takes(u)
          BY <2>3, <4>1 DEF Close, PastFlatten
        <5>2. \/ closeRow[u] = "pending" /\ working'[u] = working[u]
              \/ working[u].filled /\ working'[u] = working[u]
              \/ working'[u] = NewClose
          BY <5>1, CloseSteps
        <5>3. working[u].what \in {"none", "entry", "close"}
          OBVIOUS
        <5>4. working'[u].what = "close"
          BY <3>1, <4>1, <5>2, <5>3 DEF NewClose
        <5> QED
          BY <4>1, <5>1, <5>4
      <4>2. CASE ~ (clock >= FlattenAt /\ taken /\ u \notin endedSince)
        <5>1. chance' = IF CloseLost(u) THEN chance \ {u} ELSE chance
          BY <2>3, <4>2 DEF Close
        <5>2. u \in chance' => u \in chance /\ ~ CloseLost(u)
          BY <5>1
        <5>3. u \in chance => working[u].what = "close"
          BY <3>1
        <5> QED
          BY <5>1, <5>2, <5>3 DEF CloseLost
      <4> QED
        BY <4>1, <4>2
    <3>7. ASSUME NEW v \in Underlyings
          PROVE  /\ working'[v].what = "entry" =>
                      spread'[v].state = "SPREAD_PENDING" /\ spread'[v].started < MaxPerDay
                 /\ working'[v].filled => working'[v].what # "none"
                 /\ closeRow'[v] = "pending" => /\ spread'[v].state = "SPREAD_OPEN"
                                                /\ working'[v].what = "close" \/ v \in endedSince'
                 /\ v \in chance' => working'[v].what # "entry"
                 /\ spread'[v].state = "SPREAD_OPEN" /\ v \in chance' => working'[v].what = "close"
      <4>1. CASE v = u
        BY <3>1, <3>4, <3>5, <3>6, <4>1
      <4>2. CASE v # u
        <5>1. working'[v] = working[v] /\ closeRow'[v] = closeRow[v] /\ (v \in chance' => v \in chance)
          BY <3>3, <3>6, <4>2
        <5> QED
          BY <3>1, <5>1
      <4> QED
        BY <4>1, <4>2
    <3> QED
      BY <3>1, <3>3, <3>6, <3>7
  <2>4. ASSUME NEW u \in Underlyings, SkipUnquoted(u) \/ SkipEntry(u)
        PROVE  RoundTripInv'
    BY <2>4 DEF SkipUnquoted, SkipEntry, orderVars
  <2>5. CASE ClosesDone \/ OpensDone
    BY <2>5 DEF ClosesDone, OpensDone, orderVars
  <2>6. ASSUME NEW u \in Underlyings, NEW maxLoss \in MaxLosses, NEW half \in BOOLEAN,
               NEW routed \in BOOLEAN, Open(u, maxLoss, half, routed)
        PROVE  RoundTripInv'
    <3>1. UNCHANGED <<clock, tickStep, endedSince, chance>> /\ unseen' \subseteq unseen /\ tickStep = "opening"
      BY <2>6 DEF Open
    <3>2. spread[u].started < MaxPerDay /\ clock <= EntryEnd /\ spread[u].state # "SPREAD_OPEN"
      BY <2>6 DEF Open, MayEnter, InEntryWindow
    <3>3. chance = {}
      BY <3>2
    <3>4. CASE routed
      <4>1. /\ working' = [working EXCEPT ![u] = [what |-> "entry", filled |-> FALSE]]
            /\ spread' = [spread EXCEPT ![u].state = "SPREAD_PENDING"]
            /\ \E known \in {closeRow[u], "none"} : closeRow' = [closeRow EXCEPT ![u] = known]
        BY <2>6, <3>4 DEF Open
      <4>2. /\ closeRow' \in [Underlyings -> RowStatus] /\ closeRow'[u] # "pending"
            /\ \A v \in Underlyings \ {u} : closeRow'[v] = closeRow[v]
        <5>1. PICK known \in {closeRow[u], "none"} : closeRow' = [closeRow EXCEPT ![u] = known]
          BY <4>1
        <5>2. closeRow[u] # "pending" /\ closeRow[u] \in RowStatus
          BY <3>2
        <5> QED
          BY <5>1, <5>2
      <4> QED
        BY <3>1, <3>2, <3>3, <4>1, <4>2
    <3>5. CASE ~ routed
      BY <2>6, <3>1, <3>5 DEF Open
    <3> QED
      BY <3>4, <3>5
  <2>7. ASSUME NEW u \in Underlyings, Fill(u)
        PROVE  RoundTripInv'
    <3>1. working' = [working EXCEPT ![u].filled = TRUE] /\ working[u].what # "none"
          /\ UNCHANGED <<clock, tickStep, unseen, spread, closeRow, endedSince, chance>>
      BY <2>7 DEF Fill
    <3>2. /\ working' \in [Underlyings -> WorkingOrder]
          /\ \A v \in Underlyings : working'[v].what = working[v].what
      <4>1. working' \in [Underlyings -> WorkingOrder]
        BY <3>1
      <4>2. ASSUME NEW v \in Underlyings PROVE working'[v].what = working[v].what
        BY <3>1
      <4> QED
        BY <4>1, <4>2
    <3>3. ASSUME NEW v \in Underlyings
          PROVE  working'[v].filled => working'[v].what # "none"
      <4>1. CASE v = u
        BY <3>1, <3>2, <4>1
      <4>2. CASE v # u
        <5>1. working'[v] = working[v]
          BY <3>1, <4>2
        <5> QED
          BY <5>1
      <4> QED
        BY <4>1, <4>2
    <3> QED
      BY <3>1, <3>2, <3>3
  <2>8. ASSUME NEW u \in Underlyings, CancelEntry(u)
        PROVE  RoundTripInv'
    <3>1. working' = [working EXCEPT ![u] = NoWorking] /\ spread' = [spread EXCEPT ![u].state = "IDLE"]
          /\ UNCHANGED <<clock, tickStep, unseen, closeRow, endedSince, chance>> /\ tickStep = "asleep"
          /\ spread[u].state = "SPREAD_PENDING"
      BY <2>8 DEF CancelEntry
    <3> QED
      BY <3>1 DEF NoWorking
  <2>12. ASSUME NEW u \in Underlyings, CloseEnds(u)
         PROVE  RoundTripInv'
    <3>1. working' = [working EXCEPT ![u] = NoWorking]
          /\ endedSince' = endedSince \cup {u} /\ chance' = chance \ {u}
          /\ UNCHANGED <<clock, tickStep, unseen, spread, closeRow>>
      BY <2>12 DEF CloseEnds
    <3> QED
      BY <3>1 DEF NoWorking
  <2>9. CASE TimePasses
    BY <2>9 DEF TimePasses, orderVars
  <2>10. CASE NextDay
    BY <2>10 DEF NextDay, Idle, NoWorking
  <2>11. CASE UNCHANGED zeroDteVars
    BY <2>11 DEF zeroDteVars
  <2> QED
    BY <2>1, <2>2, <2>3, <2>4, <2>5, <2>6, <2>7, <2>8, <2>9, <2>10, <2>11, <2>12 DEF ZeroDteNext
<1> QED
  BY <1>1, <1>2, PTL DEF ZeroDteSpec

\* A symbol starts no more same-day spreads than a day allows, however late the
\* fills are found and however often an entry is cancelled and repriced.
THEOREM RoundTripsAreCounted == ZeroDteSpec => []OneRoundTripPerDay
<1>1. RoundTripInv => OneRoundTripPerDay
  BY DEF RoundTripInv
<1> QED
  BY <1>1, RoundTripInvariant, PTL

\* A spread open past the flatten time has its close at the broker, unless every
\* tick since then was stopped, had no quotes or was refused the order, or the
\* close was lost after the last tick that could route it.
THEOREM FlattensAreMissedForAReason == ZeroDteSpec => []MissedFlattenIsExcused
<1>1. RoundTripInv => MissedFlattenIsExcused
  BY DEF RoundTripInv
<1> QED
  BY <1>1, RoundTripInvariant, PTL

-----------------------------------------------------------------------------
(* The model calls. *)

Bound == DailyCap + Cardinality(Callers) * MaxCost

LEMMA CallersAreFinite ==
    /\ IsFiniteSet(Callers) /\ Cardinality(Callers) \in Nat /\ Cardinality(Callers) >= 1
    /\ \A S \in SUBSET Callers :
         IsFiniteSet(S) /\ Cardinality(S) \in Nat /\ Cardinality(S) <= Cardinality(Callers)
<1>1. IsFiniteSet(Jobs)
  <2>1. IsFiniteSet({"regime"}) /\ Jobs = {"regime"} \cup {"news"}
    BY FS_Singleton DEF Jobs
  <2> QED
    BY <2>1, FS_AddElement
<1>2. IsFiniteSet(Callers)
  BY <1>1, FS_Union, IntelligenceAssumption DEF Callers
<1>3. Callers # {}
  BY DEF Callers, Jobs
<1>4. Cardinality(Callers) \in Nat /\ Cardinality(Callers) # 0
  BY <1>2, <1>3, FS_CardinalityType, FS_EmptySet
<1> QED
  BY <1>2, <1>4, FS_Subset, FS_CardinalityType

LEMMA Times ==
    ASSUME NEW a \in Nat, NEW b \in Nat, NEW w \in Nat, a <= b
    PROVE  /\ a * w \in Nat /\ a * w <= b * w
           /\ (a + 1) * w = a * w + w /\ (b - 1) * w = b * w - w
OBVIOUS

\* Why the overshoot is bounded.  A call passes when the cap leaves room for its
\* estimate; from then on each caller adds one call at its full price at most, what
\* a call costs takes the place of that price, and a new day only lowers the sum.
BudgetInv ==
    /\ spent \in Nat /\ calls \in SUBSET Callers
    /\ calls # {} \/ spent > 0 => spent + Cardinality(calls) * MaxCost + MinEstimate <= Bound

LEMMA BudgetTypes ==
    /\ DailyCap \in Nat /\ MinEstimate \in Nat /\ MaxEstimate \in Nat /\ MinEstimate > 0
    /\ MaxCost \in Nat /\ MaxCost > 0 /\ Bound \in Nat
<1>1. DailyCap \in Nat /\ MinEstimate \in Nat /\ MaxEstimate \in Nat /\ MinEstimate > 0
      /\ MaxCost \in Nat /\ MaxCost > 0
  BY IntelligenceAssumption
<1>2. Cardinality(Callers) * MaxCost \in Nat
  BY <1>1, CallersAreFinite, Times
<1> QED
  BY <1>1, <1>2 DEF Bound

\* The day's recorded cost exceeds the cap by less than the full price of one call
\* of each caller, however far the estimates are off, however the calls of all
\* callers interleave and over midnight.
THEOREM OvershootIsBounded == IntelligenceSpec => []OvershootBounded
<1> USE BudgetTypes DEF BudgetInv
<1>1. IntelligenceInit => BudgetInv
  BY DEF IntelligenceInit
<1>2. BudgetInv /\ [IntelligenceNext]_intelligenceVars => BudgetInv'
  <2> SUFFICES ASSUME BudgetInv, [IntelligenceNext]_intelligenceVars
               PROVE  BudgetInv'
    OBVIOUS
  <2> DEFINE k == Cardinality(calls)
             n == Cardinality(Callers)
  <2>0. /\ k \in Nat /\ n \in Nat /\ k <= n /\ IsFiniteSet(calls)
        /\ k * MaxCost \in Nat /\ n * MaxCost \in Nat
        /\ (k + 1) * MaxCost = k * MaxCost + MaxCost
        /\ (k - 1) * MaxCost = k * MaxCost - MaxCost
    BY CallersAreFinite, Times
  <2>1. ASSUME NEW c \in Callers, PassBudget(c)
        PROVE  BudgetInv'
    <3>1. calls' = calls \cup {c} /\ c \notin calls /\ spent' = spent
          /\ spent + MinEstimate <= DailyCap
      BY <2>1 DEF PassBudget, Calling, Affordable, Estimates
    <3>2. calls' \in SUBSET Callers /\ Cardinality(calls') = k + 1 /\ k + 1 <= n
      BY <3>1, <2>0, FS_AddElement, CallersAreFinite
    <3>3. Cardinality(calls') * MaxCost \in Nat /\ Cardinality(calls') * MaxCost <= n * MaxCost
      BY <3>2, <2>0, Times
    <3> HIDE DEF k, n
    <3>4. spent' + Cardinality(calls') * MaxCost + MinEstimate <= Bound
      BY <3>1, <3>3, <2>0 DEF Bound, n
    <3> QED
      BY <3>1, <3>2, <3>4
  <2>2. ASSUME NEW c \in calls, calls' = calls \ {c},
               spent' \in Nat, spent' <= spent + MaxCost
        PROVE  BudgetInv'
    <3>1. calls' \in SUBSET Callers /\ Cardinality(calls') = k - 1
      BY <2>2, <2>0, FS_RemoveElement
    <3>2. spent + k * MaxCost + MinEstimate <= Bound
      BY <2>2
    <3> HIDE DEF k, n
    <3>3. Cardinality(calls') * MaxCost = k * MaxCost - MaxCost
      BY <3>1, <2>0
    <3>4. spent' + Cardinality(calls') * MaxCost + MinEstimate <= Bound
      BY <2>2, <3>2, <3>3, <2>0
    <3> QED
      BY <2>2, <3>1, <3>4
  <2>3. ASSUME NEW c \in Callers, CallFails(c)
        PROVE  BudgetInv'
    <3>1. c \in calls /\ calls' = calls \ {c} /\ spent' = spent
      BY <2>3 DEF CallFails
    <3>2. spent' \in Nat /\ spent' <= spent + MaxCost
      BY <3>1
    <3> QED
      BY <2>2, <3>1, <3>2
  <2>4. ASSUME NEW c, Record(c)
        PROVE  BudgetInv'
    <3>1. PICK cost \in 1 .. MaxCost : spent' = spent + cost
      BY <2>4 DEF Record
    <3>2. spent' \in Nat /\ spent' <= spent + MaxCost
      BY <3>1
    <3> QED
      BY <2>2, <2>4, <3>2 DEF Record
  <2>5. CASE DateChanges
    <3>1. spent' = 0 /\ calls' = calls
      BY <2>5 DEF DateChanges
    <3>2. calls # {} => k * MaxCost + MinEstimate <= Bound
      BY <2>0 DEF k
    <3> QED
      BY <3>1, <3>2, <2>0
  <2>6. CASE UNCHANGED <<spent, calls>>
    BY <2>6
  <2>7. \/ \E c \in Callers : PassBudget(c) \/ CallFails(c)
        \/ \E c : Record(c)
        \/ DateChanges
        \/ UNCHANGED <<spent, calls>>
    BY DEF IntelligenceNext, MemberRefused, MemberAnswers, NewsUnchecked, NewsAnswers,
           VetoAnswers, RollTriggers, Orchestrate, WriteSnapshot, intelligenceVars
  <2> QED
    BY <2>1, <2>3, <2>4, <2>5, <2>6, <2>7
<1>3. BudgetInv => OvershootBounded
  <2> SUFFICES ASSUME BudgetInv PROVE OvershootBounded
    OBVIOUS
  <2>1. Cardinality(calls) * MaxCost \in Nat
    BY CallersAreFinite, Times
  <2> QED
    BY <2>1 DEF OvershootBounded, Bound
<1> QED
  BY <1>1, <1>2, <1>3, PTL DEF IntelligenceSpec

-----------------------------------------------------------------------------
\* Nothing but the model's own answer takes the veto off the day's snapshot: not
\* the rerun that writes the row again, and midnight ends the day instead.
THEOREM VetoSurvivesReruns == IntelligenceSpec => RerunKeepsVeto
<1> DEFINE Snapshot == latest \in [today : BOOLEAN, veto : BOOLEAN] /\ spent \in Nat
<1>1. IntelligenceInit => Snapshot
  BY DEF IntelligenceInit
<1>2. Snapshot /\ [IntelligenceNext]_intelligenceVars
        => Snapshot' /\ [latest.today /\ latest.veto /\ ~ latest'.veto
                           => "regime" \in calls /\ spent' > spent]_intelligenceVars
  <2> SUFFICES ASSUME Snapshot, [IntelligenceNext]_intelligenceVars
               PROVE  /\ Snapshot'
                      /\ latest.today /\ latest.veto /\ ~ latest'.veto
                           => "regime" \in calls /\ spent' > spent
    OBVIOUS
  <2>1. CASE VetoAnswers
    <3>1. PICK cost \in 1 .. MaxCost : spent' = spent + cost
      BY <2>1 DEF VetoAnswers, Record
    <3>2. PICK veto \in BOOLEAN : latest' = [latest EXCEPT !.veto = veto]
      BY <2>1 DEF VetoAnswers
    <3>3. spent' \in Nat /\ spent' > spent
      BY <3>1, BudgetTypes
    <3>4. "regime" \in calls
      BY <2>1 DEF VetoAnswers, Record
    <3> QED
      BY <3>2, <3>3, <3>4
  <2>2. CASE WriteSnapshot
    BY <2>2 DEF WriteSnapshot, RowUpserted
  <2>3. CASE DateChanges
    BY <2>3 DEF DateChanges
  <2>4. CASE latest' = latest /\ spent' \in Nat
    BY <2>4
  <2>5. ASSUME NEW c, Record(c)
        PROVE  spent' \in Nat
    BY <2>5, BudgetTypes DEF Record
  <2>6. CASE UNCHANGED <<spent, latest>>
    BY <2>6
  <2>7. \/ VetoAnswers \/ WriteSnapshot \/ DateChanges
        \/ UNCHANGED <<spent, latest>>
        \/ latest' = latest /\ \E c : Record(c)
    BY DEF IntelligenceNext, PassBudget, CallFails, MemberRefused, MemberAnswers, NewsUnchecked,
           NewsAnswers, RollTriggers, Orchestrate, intelligenceVars
  <2> QED
    BY <2>1, <2>2, <2>3, <2>4, <2>5, <2>6, <2>7
<1> QED
  BY <1>1, <1>2, PTL DEF IntelligenceSpec, RerunKeepsVeto

-----------------------------------------------------------------------------
(* The types. *)

\* The lists of closed cycles that a gate works with are of at most n.
LEMMA ACycleMore ==
    ASSUME NEW S, NEW q \in Seq(S), NEW n \in Nat \ {0}, Len(q) <= n, NEW e \in S
    PROVE  LET longer == Append(q, e)
               kept == SubSeq(longer, IF Len(longer) > n THEN 2 ELSE 1, Len(longer))
           IN  kept \in Seq(S) /\ Len(kept) <= n
<1> DEFINE longer == Append(q, e)
           from == IF Len(longer) > n THEN 2 ELSE 1
<1>1. longer \in Seq(S) /\ Len(longer) = Len(q) + 1 /\ Len(q) \in Nat
  OBVIOUS
<1>2. from \in 1 .. Len(longer) + 1 /\ Len(longer) - from + 1 <= n /\ Len(longer) - from + 1 >= 0
  BY <1>1
<1> HIDE DEF longer, from
<1>3. SubSeq(longer, from, Len(longer)) \in Seq(S)
  BY <1>1, <1>2
<1>4. Len(SubSeq(longer, from, Len(longer))) <= n
  BY <1>1, <1>2
<1> QED
  BY <1>3, <1>4 DEF longer, from

LEMMA CyclesAge ==
    ASSUME NEW S, NEW q \in Seq(S), NEW r, r = [i \in DOMAIN q |-> r[i]],
           \A i \in DOMAIN q : r[i] \in S
    PROVE  r \in Seq(S) /\ Len(r) = Len(q)
OBVIOUS

\* The breaker's row, its closed cycles and its pass keep their types.
THEOREM RuntimeTypes == RuntimeSpec => []RuntimeTypeOK
<1> USE RuntimeAssumption DEF NoDate
<1>1. RuntimeInit => RuntimeTypeOK
  <2>1. <<>> \in Seq([age : 0 .. RollingWindow + 1, pnl : Outcomes]) /\ Len(<<>>) <= MaxClosed
    OBVIOUS
  <2>2. NoRow \in [until : {NoDate} \cup 0 .. AutoReset, drawdown : {"NULL", "WARNING", "DISABLED"},
                  pause : {"NULL", "LOW_WIN_RATE", "NEGATIVE_EXPECTANCY"}]
    BY DEF NoRow
  <2> QED
    BY <2>1, <2>2 DEF RuntimeInit, RuntimeTypeOK, PassSteps
<1>2. RuntimeTypeOK /\ [RuntimeNext]_runtimeVars => RuntimeTypeOK'
  <2> SUFFICES ASSUME RuntimeTypeOK, [RuntimeNext]_runtimeVars
               PROVE  RuntimeTypeOK'
    OBVIOUS
  <2> DEFINE Rows == [until : {NoDate} \cup 0 .. AutoReset, drawdown : {"NULL", "WARNING", "DISABLED"},
                      pause : {"NULL", "LOW_WIN_RATE", "NEGATIVE_EXPECTANCY"}]
             Cycles == [age : 0 .. RollingWindow + 1, pnl : Outcomes]
  <2>0. runtime \in Rows /\ closed \in Seq(Cycles) /\ Len(closed) <= MaxClosed
    BY DEF RuntimeTypeOK
  <2>a. NoRow \in Rows
    BY DEF NoRow
  <2>c. ASSUME NEW n \in {NoDate} \cup 0 .. AutoReset, NEW d \in {"WARNING", "DISABLED"},
               runtime' = [runtime EXCEPT !.until = n, !.drawdown = d]
        PROVE  runtime' \in Rows
    BY <2>0, <2>c
  <2>d. AutoReset \in 0 .. AutoReset /\ MaxClosed \in Nat \ {0}
    OBVIOUS
  <2>b. CASE runtime' \in Rows /\ UNCHANGED closed /\ passStep' \in PassSteps
             /\ opens' \in {"none", "half", "full"} /\ seen' \in {"-", "NORMAL", "WARNING", "DISABLED", "pause"}
             /\ reader' \in BOOLEAN /\ pausedBy' \in {"nobody", "win_rate", "expectancy", "operator"}
             /\ breached' \in BOOLEAN
    BY <2>b DEF RuntimeTypeOK
  <2> USE DEF RuntimeTypeOK, PassSteps
  <2>1. CASE GateReadsDrawdown
    BY <2>0, <2>b, <2>1 DEF GateReadsDrawdown, CurrentState
  <2>2. CASE GateClearsStale \/ DrawdownClearsStale
    BY <2>a, <2>b, <2>2 DEF GateClearsStale, DrawdownClearsStale, Enable
  <2>3. CASE GateReadsPause
    BY <2>0, <2>b, <2>3 DEF GateReadsPause
  <2>4. CASE \E raises \in BOOLEAN : Dispatch(raises)
    BY <2>0, <2>b, <2>4 DEF Dispatch
  <2>5. CASE DrawdownReads
    <3>1. seen' \in {"NORMAL", "WARNING", "DISABLED"}
      BY <2>5 DEF DrawdownReads, DrawdownTarget
    <3>2. passStep' \in PassSteps /\ breached' \in BOOLEAN
      BY <2>5 DEF DrawdownReads, CurrentState
    <3> QED
      BY <2>0, <2>b, <2>5, <3>1, <3>2 DEF DrawdownReads
  <2>6. CASE DrawdownWrites
    <3>1. CASE seen = "DISABLED" /\ Disable /\ breached' = TRUE /\ UNCHANGED pausedBy
      <4>1. runtime' \in Rows
        BY <2>c, <2>d, <3>1 DEF Disable
      <4> QED
        BY <2>b, <2>6, <3>1, <4>1 DEF DrawdownWrites
    <3>2. CASE seen = "WARNING" /\ MarkWarning /\ UNCHANGED <<pausedBy, breached>>
      <4>1. runtime' \in Rows
        BY <2>c, <3>2 DEF MarkWarning
      <4> QED
        BY <2>b, <2>6, <3>2, <4>1 DEF DrawdownWrites
    <3>3. CASE seen = "NORMAL" /\ Enable
      BY <2>a, <2>b, <2>6, <3>3 DEF DrawdownWrites, Enable
    <3> QED
      BY <2>6, <3>1, <3>2, <3>3 DEF DrawdownWrites
  <2>7. CASE WinRateReads \/ ExpectancyReads
    BY <2>0, <2>b, <2>7 DEF WinRateReads, ExpectancyReads, FloorReads
  <2>8. CASE WinRateWrites \/ ExpectancyWrites \/ PauseStrategy
    <3>1. PICK state \in {"LOW_WIN_RATE", "NEGATIVE_EXPECTANCY"},
               who \in {"win_rate", "expectancy", "operator"} : MarkPaused(state, who)
      BY <2>8 DEF WinRateWrites, ExpectancyWrites, FloorWrites, PauseStrategy
    <3>2. runtime' \in Rows /\ pausedBy' = who
      BY <2>0, <3>1 DEF MarkPaused
    <3> QED
      BY <2>b, <2>8, <3>2 DEF WinRateWrites, ExpectancyWrites, FloorWrites, PauseStrategy
  <2>9. CASE MonitorFails
    BY <2>0, <2>b, <2>9 DEF MonitorFails
  <2>10. CASE CycleEnds
    <3>1. PICK p \in Outcomes :
            LET longer == Append(closed, [age |-> 0, pnl |-> p])
            IN  closed' = SubSeq(longer, IF Len(longer) > MaxClosed THEN 2 ELSE 1, Len(longer))
      BY <2>10 DEF CycleEnds
    <3>2. [age |-> 0, pnl |-> p] \in Cycles
      OBVIOUS
    <3> HIDE DEF Cycles
    <3>3. closed' \in Seq(Cycles) /\ Len(closed') <= MaxClosed
      BY <2>0, <2>d, <3>1, <3>2, ACycleMore
    <3>4. UNCHANGED <<runtime, passStep, opens, seen, reader, pausedBy, breached>>
      BY <2>10 DEF CycleEnds
    <3> QED
      BY <3>3, <3>4 DEF Cycles
  <2>11. CASE DayPasses
    <3> DEFINE older == [i \in DOMAIN closed |->
                           [closed[i] EXCEPT !.age = IF @ > RollingWindow THEN @ ELSE @ + 1]]
    <3>1. ASSUME NEW i \in DOMAIN closed PROVE older[i] \in Cycles
      <4>1. closed[i] \in Cycles
        <5> HIDE DEF Cycles
        <5>1. \A q \in Seq(Cycles) : \A j \in DOMAIN q : q[j] \in Cycles
          OBVIOUS
        <5> QED
          BY <2>0, <5>1
      <4>2. closed[i].age \in 0 .. RollingWindow + 1 /\ RollingWindow \in Nat
        BY <4>1
      <4>3. (IF closed[i].age > RollingWindow THEN closed[i].age ELSE closed[i].age + 1)
              \in 0 .. RollingWindow + 1
        BY <4>2
      <4> QED
        BY <4>1, <4>3
    <3>2. closed' = [i \in DOMAIN closed |-> older[i]]
      BY <2>11 DEF DayPasses
    <3>3. runtime' \in Rows
      <4>1. runtime' = [runtime EXCEPT !.until = IF @ > 0 THEN @ - 1 ELSE @]
        BY <2>11 DEF DayPasses
      <4>2. (IF runtime.until > 0 THEN runtime.until - 1 ELSE runtime.until) \in {NoDate} \cup 0 .. AutoReset
        BY <2>0
      <4> QED
        BY <2>0, <4>1, <4>2
    <3> HIDE DEF Cycles, older
    <3>4. closed' \in Seq(Cycles) /\ Len(closed') <= MaxClosed
      <4>1. closed' = [i \in DOMAIN closed |-> closed'[i]] /\ \A i \in DOMAIN closed : closed'[i] \in Cycles
        BY <3>1, <3>2
      <4> QED
        BY <2>0, <4>1, CyclesAge
    <3>5. UNCHANGED <<passStep, opens, seen, reader, pausedBy>> /\ breached' \in BOOLEAN
      BY <2>11 DEF DayPasses
    <3> QED
      BY <3>3, <3>4, <3>5 DEF Cycles
  <2>12. CASE ReenableStrategy
    <3>1. runtime' \in Rows /\ pausedBy' = "nobody" /\ breached' = FALSE
      BY <2>a, <2>12 DEF ReenableStrategy, Enable
    <3>2. UNCHANGED <<closed, passStep, opens, seen, reader>>
      BY <2>12 DEF ReenableStrategy
    <3> QED
      BY <2>b, <3>1, <3>2
  <2>13. CASE ReaderFindsStale
    BY <2>0, <2>b, <2>13 DEF ReaderFindsStale
  <2>14. CASE ReaderClears
    <3>1. runtime' \in Rows /\ pausedBy' = "nobody" /\ breached' = FALSE /\ reader' = FALSE
      BY <2>a, <2>14 DEF ReaderClears, Enable
    <3>2. UNCHANGED <<closed, passStep, opens, seen>>
      BY <2>14 DEF ReaderClears
    <3> QED
      BY <2>b, <3>1, <3>2
  <2>15. CASE UNCHANGED runtimeVars
    BY <2>15 DEF runtimeVars
  <2> QED
    BY <2>1, <2>2, <2>3, <2>4, <2>5, <2>6, <2>7, <2>8, <2>9, <2>10, <2>11, <2>12, <2>13, <2>14, <2>15
       DEF RuntimeNext, PassNext, Operator
<1> QED
  BY <1>1, <1>2, PTL DEF RuntimeSpec

\* Whatever is being routed is a proposal.
LimitsTyped == LimitsTypeOK /\ (routeStep # "idle" => asked \in ProposalType)

\* One more lost row is one more element of the list.
LEMMA ALossMore ==
    ASSUME NEW S, NEW rows \in Seq(S), NEW lost \in S
    PROVE  LET more == Append(rows, lost)
           IN  /\ more \in Seq(S)
               /\ DOMAIN more = DOMAIN rows \cup {Len(rows) + 1}
               /\ Len(rows) + 1 \notin DOMAIN rows
               /\ more[Len(rows) + 1] = lost
               /\ \A i \in DOMAIN rows : more[i] = rows[i]
BY AppendProperties

\* No step takes the positions table, the proposal being routed or the lost rows
\* out of their types.
LEMMA LimitsStepTypes ==
    ASSUME LimitsTyped, [LimitsNext]_limitsVars
    PROVE  LimitsTyped'
<1> USE LimitsAssumption DEF LimitsTyped
<1>0. \A p, c : Failures(p, c) \subseteq Rules
  BY DEF Failures
<1> DEFINE Books == [Keys -> [state : {"IDLE", "PENDING", "OPEN", "SPREAD_CLOSED"}, risk : Nat]]
<1>a. ASSUME NEW p \in ProposalType, NEW c, Judge(p, c)
      PROVE  LimitsTyped'
  BY <1>0, <1>a DEF Judge, LimitsTypeOK
<1>1. CASE StrategyOpens
  <2>1. PICK k \in Keys, c \in Circumstances : \E o \in Opens[TypeOf[k[2]]] :
          Judge([symbol |-> k[1], strategy |-> k[2], type |-> o[1], what |-> o[2],
                 risk |-> IF c = "large" THEN LargeRisk ELSE UsualRisk], c)
    BY <1>1 DEF StrategyOpens
  <2>2. PICK o \in Opens[TypeOf[k[2]]] :
          Judge([symbol |-> k[1], strategy |-> k[2], type |-> o[1], what |-> o[2],
                 risk |-> IF c = "large" THEN LargeRisk ELSE UsualRisk], c)
    BY <2>1
  <2>3. k[1] \in Symbols /\ k[2] \in StrategyIds /\ TypeOf[k[2]] \in {"wheel", "spread", "pmcc", "swing"}
    BY DEF Keys
  <2>4. /\ o[1] \in {"SELL_TO_OPEN", "BUY_TO_OPEN"} \cup MultiLeg
        /\ o[2] \in {"PUT", "CALL", "bull_put", "bear_call", "iron_condor"}
    BY <2>3 DEF Opens, MultiLeg
  <2>5. UsualRisk \in Nat /\ LargeRisk \in Nat
    OBVIOUS
  <2>6. [symbol |-> k[1], strategy |-> k[2], type |-> o[1], what |-> o[2],
         risk |-> IF c = "large" THEN LargeRisk ELSE UsualRisk] \in ProposalType
    BY <2>3, <2>4, <2>5 DEF ProposalType
  <2> QED
    BY <1>a, <2>2, <2>6
<1>2. CASE StrategyCloses
  <2>1. PICK k \in Keys, c \in Circumstances :
          Judge([symbol |-> k[1], strategy |-> k[2], type |-> Closes[TypeOf[k[2]]],
                 what |-> "PUT", risk |-> book[k].risk], c)
    BY <1>2 DEF StrategyCloses
  <2>2. /\ k[1] \in Symbols /\ k[2] \in StrategyIds /\ book[k].risk \in Nat
        /\ Closes[TypeOf[k[2]]] \in Closing
    BY DEF Keys, Closes, Closing, LimitsTypeOK
  <2> QED
    BY <1>a, <2>1, <2>2 DEF ProposalType
<1>3. CASE \E s \in StrategyIds : UnquotedCloses(s)
  <2>1. PICK s \in StrategyIds, k \in Keys :
          Judge([symbol |-> k[1], strategy |-> s, type |-> "BUY_TO_CLOSE",
                 what |-> "PUT", risk |-> book[k].risk], "no_quote")
    BY <1>3 DEF UnquotedCloses
  <2>2. k[1] \in Symbols /\ book[k].risk \in Nat /\ "BUY_TO_CLOSE" \in Closing
    BY DEF Keys, Closing, LimitsTypeOK
  <2> QED
    BY <1>a, <2>1, <2>2 DEF ProposalType
<1>4. CASE Refuse \/ \E accepted \in BOOLEAN : Submit(accepted)
  BY <1>4 DEF Refuse, Submit, LimitsTypeOK
<1>5. CASE WriteRow
  <2>1. /\ asked \in ProposalType /\ asked.risk \in Nat
        /\ [state |-> "PENDING", risk |-> asked.risk]
              \in [state : {"IDLE", "PENDING", "OPEN", "SPREAD_CLOSED"}, risk : Nat]
    BY <1>5 DEF WriteRow, ProposalType
  <2>2. book' \in Books
    BY <1>5, <2>1 DEF WriteRow, LimitsTypeOK
  <2> QED
    BY <1>5, <2>2 DEF WriteRow, LimitsTypeOK
<1>6. CASE CrashBeforeRow
  <2>1. [strategy |-> asked.strategy, risk |-> asked.risk] \in [strategy : StrategyIds, risk : Nat]
    BY <1>6 DEF CrashBeforeRow, ProposalType
  <2>2. lostRows' = lostRows \/ lostRows' = Append(lostRows, [strategy |-> asked.strategy, risk |-> asked.risk])
    BY <1>6 DEF CrashBeforeRow
  <2>3. lostRows' \in Seq([strategy : StrategyIds, risk : Nat])
    <3> DEFINE Lost == [strategy : StrategyIds, risk : Nat]
    <3>1. PICK lost \in Lost : lostRows' \in {lostRows, Append(lostRows, lost)}
      BY <2>1, <2>2
    <3>2. lostRows \in Seq(Lost)
      BY DEF LimitsTypeOK
    <3> HIDE DEF Lost
    <3>3. Append(lostRows, lost) \in Seq(Lost)
      BY <3>2, ALossMore
    <3>4. lostRows' \in Seq(Lost)
      BY <3>1, <3>2, <3>3
    <3> QED
      BY <3>4 DEF Lost
  <2> QED
    BY <1>6, <2>3 DEF CrashBeforeRow, LimitsTypeOK
<1>7. CASE RowMoves
  <2>1. PICK k \in Active :
          \/ book' = [book EXCEPT ![k].state = "OPEN"]
          \/ \E s \in {"IDLE", "SPREAD_CLOSED"} : book' = [book EXCEPT ![k] = [state |-> s, risk |-> 0]]
    BY <1>7 DEF RowMoves
  <2>2. book' \in Books
    <3>1. book \in Books /\ k \in Keys
      BY DEF Active, LimitsTypeOK
    <3>2. CASE book' = [book EXCEPT ![k].state = "OPEN"]
      BY <3>1, <3>2
    <3>3. CASE \E s \in {"IDLE", "SPREAD_CLOSED"} : book' = [book EXCEPT ![k] = [state |-> s, risk |-> 0]]
      BY <3>1, <3>3
    <3> QED
      BY <2>1, <3>2, <3>3
  <2> QED
    BY <1>7, <2>2 DEF RowMoves, LimitsTypeOK
<1>8. CASE UNCHANGED limitsVars
  BY <1>8 DEF limitsVars, LimitsTypeOK
<1> QED
  BY <1>1, <1>2, <1>3, <1>4, <1>5, <1>6, <1>7, <1>8 DEF LimitsNext

\* The positions table, the proposal being judged and the rules it failed keep
\* their types.
THEOREM LimitsTypes == LimitsSpec => []LimitsTypeOK
<1>1. LimitsInit => LimitsTyped
  BY LimitsAssumption DEF LimitsInit, LimitsTypeOK, LimitsTyped
<1>2. LimitsTyped /\ [LimitsNext]_limitsVars => LimitsTyped'
  BY LimitsStepTypes
<1>3. LimitsTyped => LimitsTypeOK
  BY DEF LimitsTyped
<1> QED
  BY <1>1, <1>2, <1>3, PTL DEF LimitsSpec

\* A table stays one when an entry is replaced by another of its type.
LEMMA Updated ==
    ASSUME NEW D, NEW R, NEW f \in [D -> R], NEW x, NEW v \in R
    PROVE  [f EXCEPT ![x] = v] \in [D -> R]
OBVIOUS

\* The clock, the walk over the symbols, their spreads, orders and ledger keep
\* their types.
THEOREM ZeroDteTypes == ZeroDteSpec => []ZeroDteTypeOK
<1> USE ZeroDteAssumption
<1>1. ZeroDteInit => ZeroDteTypeOK
  BY DEF ZeroDteInit, ZeroDteTypeOK, Idle, NoWorking
<1>2. ZeroDteTypeOK /\ [ZeroDteNext]_zeroDteVars => ZeroDteTypeOK'
  <2> SUFFICES ASSUME ZeroDteTypeOK, [ZeroDteNext]_zeroDteVars
               PROVE  ZeroDteTypeOK'
    OBVIOUS
  <2> USE DEF ZeroDteTypeOK
  <2>a. ASSUME NEW w \in WorkingOrder, NEW u
        PROVE  [working EXCEPT ![u] = w] \in [Underlyings -> [what : {"none", "entry", "close"}, filled : BOOLEAN]]
    BY Updated DEF WorkingOrder
  <2>b. ASSUME NEW s \in {"IDLE", "SPREAD_PENDING"}, NEW u \in Underlyings
        PROVE  [spread EXCEPT ![u].state = s]
                 \in [Underlyings -> [state : {"IDLE", "SPREAD_PENDING", "SPREAD_OPEN", "SPREAD_CLOSED"},
                                      started : Nat]]
    OBVIOUS
  <2>c. /\ NoWorking \in WorkingOrder /\ [what |-> "entry", filled |-> FALSE] \in WorkingOrder
    BY DEF NoWorking, WorkingOrder
  <2>1. CASE Reconcile
    <3>1. ASSUME NEW u \in Underlyings
          PROVE  (spread[u] \in SpreadRow /\ spread[u].started \in Nat) /\ working[u] \in WorkingOrder
      BY DEF SpreadRow, WorkingOrder
    <3>2. ASSUME NEW u \in Underlyings
          PROVE  spread'[u] \in SpreadRow /\ working'[u] \in WorkingOrder
      <4>1. CASE ~ working[u].filled
        <5>1. spread'[u] = spread[u] /\ working'[u] = working[u]
          BY <2>1, <4>1 DEF Reconcile
        <5> QED
          BY <3>1, <5>1
      <4>2. CASE working[u].filled /\ working[u].what = "entry"
        <5>1. spread'[u] = [state |-> "SPREAD_OPEN", started |-> spread[u].started + 1]
              /\ working'[u] = NoWorking
          BY <2>1, <4>2 DEF Reconcile
        <5> QED
          BY <3>1, <5>1 DEF SpreadRow, WorkingOrder, NoWorking
      <4>3. CASE working[u].filled /\ working[u].what # "entry"
        <5>1. spread'[u] = [spread[u] EXCEPT !.state = "SPREAD_CLOSED"] /\ working'[u] = NoWorking
          BY <2>1, <4>3 DEF Reconcile
        <5> QED
          BY <3>1, <5>1 DEF SpreadRow, WorkingOrder, NoWorking
      <4> QED
        BY <4>1, <4>2, <4>3
    <3>3. spread' = [u \in Underlyings |-> spread'[u]] /\ working' = [u \in Underlyings |-> working'[u]]
      BY <2>1 DEF Reconcile
    <3>4. spread' \in [Underlyings -> SpreadRow] /\ working' \in [Underlyings -> WorkingOrder]
      BY <3>2, <3>3
    <3>5. UNCHANGED <<clock, unseen, booked, realized, chance>> /\ tickStep' = "reconciled"
      BY <2>1 DEF Reconcile
    <3>6. closeRow' \in [Underlyings -> {"none", "pending", "ended"}] /\ endedSince' = {}
      BY <2>1 DEF Reconcile, CloseSeen
    <3> QED
      BY <3>4, <3>5, <3>6 DEF SpreadRow, WorkingOrder
  <2>2. CASE \E tripped \in BOOLEAN : ReadSwitch(tripped)
    BY <2>2 DEF ReadSwitch, orderVars
  <2>3. ASSUME NEW u \in Underlyings, NEW debit \in Debits, NEW taken \in BOOLEAN,
               Close(u, debit, taken)
        PROVE  ZeroDteTypeOK'
    <3>1. UNCHANGED <<clock, tickStep, spread, endedSince>> /\ unseen' \subseteq unseen
          /\ chance' \subseteq chance \cup {u}
      BY <2>3 DEF Close
    <3>2. Takes(u) \/ Refuses(u) \/ UNCHANGED <<working, closeRow>>
      BY <2>3 DEF Close
    <3>3. /\ working' \in [Underlyings -> [what : {"none", "entry", "close"}, filled : BOOLEAN]]
          /\ closeRow' \in [Underlyings -> {"none", "pending", "ended"}]
      BY <3>2, CloseSteps DEF WorkingOrder, RowStatus
    <3>4. booked' \in [Underlyings -> Int] /\ realized' \in Int
      <4>1. CASE UNCHANGED <<booked, realized>>
        BY <4>1
      <4>2. CASE WriteExitLedger(u, debit)
        <5>0. /\ Credit \in Int /\ HalfSpread \in Int /\ SlippageAdder \in Int /\ debit \in Int
          <6>1. Credit \in Nat /\ HalfSpread \in Nat /\ SlippageAdder \in Nat /\ Debits \subseteq Nat
            OBVIOUS
          <6>2. debit \in Nat
            BY <6>1
          <6> QED
            BY <6>1, <6>2
        <5>1. EntryPenalized - ExitPenalized(debit) \in Int
          BY <5>0 DEF EntryPenalized, ExitPenalized
        <5> QED
          BY <4>2, <5>1 DEF WriteExitLedger
      <4> QED
        BY <2>3, <4>1, <4>2 DEF Close
    <3> QED
      BY <3>1, <3>3, <3>4
  <2>4. ASSUME NEW u \in Underlyings, SkipUnquoted(u) \/ SkipEntry(u)
        PROVE  ZeroDteTypeOK'
    BY <2>4 DEF SkipUnquoted, SkipEntry, orderVars
  <2>5. CASE ClosesDone \/ OpensDone
    BY <2>5 DEF ClosesDone, OpensDone, orderVars
  <2>6. ASSUME NEW u \in Underlyings, NEW maxLoss \in MaxLosses, NEW half \in BOOLEAN,
               NEW routed \in BOOLEAN, Open(u, maxLoss, half, routed)
        PROVE  ZeroDteTypeOK'
    <3>1. UNCHANGED <<clock, tickStep, endedSince, chance, realized>> /\ unseen' \subseteq unseen
      BY <2>6 DEF Open, WriteEntryLedger
    <3>2. booked' = [booked EXCEPT ![u] = 0]
      BY <2>6 DEF Open, WriteEntryLedger
    <3>3. \/ UNCHANGED <<working, spread>>
          \/ /\ working' = [working EXCEPT ![u] = [what |-> "entry", filled |-> FALSE]]
             /\ spread' = [spread EXCEPT ![u].state = "SPREAD_PENDING"]
      BY <2>6 DEF Open
    <3>4. /\ working' \in [Underlyings -> [what : {"none", "entry", "close"}, filled : BOOLEAN]]
          /\ spread' \in [Underlyings -> [state : {"IDLE", "SPREAD_PENDING", "SPREAD_OPEN", "SPREAD_CLOSED"},
                                          started : Nat]]
      <4>1. CASE UNCHANGED <<working, spread>>
        BY <4>1
      <4>2. CASE /\ working' = [working EXCEPT ![u] = [what |-> "entry", filled |-> FALSE]]
                 /\ spread' = [spread EXCEPT ![u].state = "SPREAD_PENDING"]
        BY <2>a, <2>b, <2>c, <4>2
      <4> QED
        BY <3>3, <4>1, <4>2
    <3>5. booked' \in [Underlyings -> Int]
      BY <3>2
    <3>6. closeRow' \in [Underlyings -> {"none", "pending", "ended"}]
      <4>1. PICK known \in {closeRow[u], "none"} : closeRow' \in {closeRow, [closeRow EXCEPT ![u] = known]}
        BY <2>6 DEF Open
      <4> QED
        BY <4>1
    <3> QED
      BY <3>1, <3>4, <3>5, <3>6
  <2>7. ASSUME NEW u \in Underlyings, Fill(u) \/ CloseEnds(u) \/ CancelEntry(u)
        PROVE  ZeroDteTypeOK'
    <3>1. CASE Fill(u)
      <4>1. working' = [working EXCEPT ![u].filled = TRUE] /\ UNCHANGED <<clock, tickStep, unseen, spread, booked, realized, closeRow, endedSince, chance>>
        BY <3>1 DEF Fill
      <4>2. working' \in [Underlyings -> [what : {"none", "entry", "close"}, filled : BOOLEAN]]
        BY <4>1
      <4> QED
        BY <4>1, <4>2
    <3>2. CASE CancelEntry(u)
      <4>1. /\ working' \in [Underlyings -> [what : {"none", "entry", "close"}, filled : BOOLEAN]]
            /\ spread' \in [Underlyings -> [state : {"IDLE", "SPREAD_PENDING", "SPREAD_OPEN", "SPREAD_CLOSED"},
                                            started : Nat]]
        BY <2>a, <2>b, <2>c, <3>2 DEF CancelEntry
      <4> QED
        BY <3>2, <4>1 DEF CancelEntry
    <3>3. CASE CloseEnds(u)
      BY <2>a, <2>c, <3>3 DEF CloseEnds
    <3> QED
      BY <2>7, <3>1, <3>2, <3>3
  <2>8. CASE TimePasses
    BY <2>8 DEF TimePasses, orderVars
  <2>9. CASE NextDay
    BY <2>9 DEF NextDay, Idle, NoWorking
  <2>10. CASE UNCHANGED zeroDteVars
    BY <2>10 DEF zeroDteVars
  <2> QED
    BY <2>1, <2>2, <2>3, <2>4, <2>5, <2>6, <2>7, <2>8, <2>9, <2>10 DEF ZeroDteNext
<1> QED
  BY <1>1, <1>2, PTL DEF ZeroDteSpec

\* The guardrails put nothing in a run but known symbols: members, or adds and
\* drops somebody asked for.
LEMMA GuardrailEntries ==
    ASSUME NEW members \in SUBSET Known, NEW protected, NEW eligible,
           NEW wantAdds \in SUBSET Known, NEW wantDrops \in SUBSET Known,
           NEW e \in EnforceGuardrails([members |-> members, protected |-> protected],
                                       eligible, wantAdds, wantDrops)
    PROVE  e \subseteq Known \X Actions
<1>1. PICK adds \in SUBSET wantAdds, drops \in SUBSET members : e = Entries(members, adds, drops)
  BY DEF EnforceGuardrails, AtMost, Spared
<1> QED
  BY <1>1 DEF Entries, Actions

\* The stored runs, the job's reading and the entries it writes keep their types.
THEOREM WatchlistTypes == WatchlistSpec => []WatchlistTypeOK
<1> USE WatchlistAssumption DEF WatchlistTypeOK
<1> DEFINE Statuses == {"none", "proposed", "applied", "rejected", "superseded", "failed"}
           Runs == [status : Statuses, entries : SUBSET (Known \X Actions),
                    members : SUBSET Known, whole : BOOLEAN]
<1>1. WatchlistInit => WatchlistTypeOK
  BY DEF WatchlistInit, NoRun, NoBase
<1>2. WatchlistTypeOK /\ [WatchlistNext]_watchlistVars => WatchlistTypeOK'
  <2> SUFFICES ASSUME WatchlistTypeOK, [WatchlistNext]_watchlistVars
               PROVE  WatchlistTypeOK'
    OBVIOUS
  <2>a. \A r : [runs EXCEPT ![r].status = "failed"] \in [RunIds -> Runs]
    OBVIOUS
  <2>b. \A r : \A applied \in [RunIds -> Runs] : ApplyRun(r, applied) \in [RunIds -> Runs]
    BY DEF ApplyRun
  <2>c. \A r \in RunIds : Membership(r) \subseteq Known
    BY DEF Membership
  <2>d. NoBase \in [members : SUBSET Known, protected : SUBSET Known]
    BY DEF NoBase
  <2>1. CASE Ask
    <3>1. EffectiveUniverse \subseteq Known
      BY <2>c DEF EffectiveUniverse, AppliedRuns, Known
    <3> QED
      BY <2>1, <3>1 DEF Ask
  <2>2. CASE AskFails
    BY <2>2, <2>d DEF AskFails
  <2>3. CASE Unparseable
    BY <2>3, <2>a, <2>d DEF Unparseable
  <2>4. CASE Propose
    <3>1. toWrite' \subseteq Known \X Actions
      <4>1. PICK eligible \in EligibleAdds, wantAdds \in SUBSET Known, wantDrops \in SUBSET Known :
              toWrite' \in EnforceGuardrails(base, eligible, wantAdds, wantDrops)
        BY <2>4 DEF Propose
      <4>2. base = [members |-> base.members, protected |-> base.protected] /\ base.members \in SUBSET Known
        OBVIOUS
      <4> QED
        BY <4>1, <4>2, GuardrailEntries
    <3>2. [NoRun EXCEPT !.status = "proposed", !.members = base.members] \in Runs
      BY DEF NoRun
    <3>3. runs' \in [RunIds -> Runs]
      BY <2>4, <3>2 DEF Propose
    <3> QED
      BY <2>4, <3>1, <3>3 DEF Propose
  <2>5. CASE WriteEntry
    <3>1. PICK e \in toWrite : /\ runs' = [runs EXCEPT ![NewestRun].entries = @ \cup {e}]
                               /\ toWrite' = toWrite \ {e}
      BY <2>5 DEF WriteEntry
    <3>2. e \in Known \X Actions
      OBVIOUS
    <3>3. runs' \in [RunIds -> Runs]
      <4>1. NewestRun \in RunIds => [runs[NewestRun] EXCEPT !.entries = @ \cup {e}] \in Runs
        BY <3>2
      <4>2. runs' = [runs EXCEPT ![NewestRun] = [runs[NewestRun] EXCEPT !.entries = @ \cup {e}]]
        BY <3>1
      <4> HIDE DEF Runs
      <4> QED
        BY <4>1, <4>2 DEF Runs
    <3> QED
      BY <2>5, <3>1, <3>3 DEF WriteEntry
  <2>6. CASE Conclude
    <3> DEFINE done == [runs EXCEPT ![NewestRun].whole = TRUE]
    <3>1. done \in [RunIds -> Runs]
      OBVIOUS
    <3>2. [done EXCEPT ![NewestRun].status = "rejected"] \in [RunIds -> Runs]
      <4> HIDE DEF done
      <4> QED
        BY <3>1
    <3>3. runs' \in {[done EXCEPT ![NewestRun].status = "rejected"], ApplyRun(NewestRun, done), done}
      BY <2>6 DEF Conclude
    <3>4. runs' \in [RunIds -> Runs]
      <4> HIDE DEF done, Runs
      <4> QED
        BY <2>b, <3>1, <3>2, <3>3
    <3> QED
      BY <2>6, <2>d, <3>4 DEF Conclude
  <2>7. CASE JobDies
    BY <2>7, <2>d DEF JobDies
  <2>8. CASE \E r \in RunIds : FindProposed(r)
    BY <2>8 DEF FindProposed, RunIds
  <2>9. CASE \E approve \in BOOLEAN : Decide(approve)
    <3>1. [runs EXCEPT ![review].status = "rejected"] \in [RunIds -> Runs]
      OBVIOUS
    <3>2. runs' \in [RunIds -> Runs]
      BY <2>9, <2>b, <3>1 DEF Decide
    <3> QED
      BY <2>9, <3>2 DEF Decide
  <2>10. CASE PositionMoves
    BY <2>10 DEF PositionMoves
  <2>11. CASE UNCHANGED watchlistVars
    BY <2>11 DEF watchlistVars
  <2> QED
    BY <2>1, <2>2, <2>3, <2>4, <2>5, <2>6, <2>7, <2>8, <2>9, <2>10, <2>11 DEF WatchlistNext
<1> QED
  BY <1>1, <1>2, PTL DEF WatchlistSpec

\* The budget, the ballot, the roll, the snapshot and the entry keep their types.
THEOREM IntelligenceTypes == IntelligenceSpec => []IntelligenceTypeOK
<1> USE IntelligenceAssumption DEF IntelligenceTypeOK
<1>1. IntelligenceInit => IntelligenceTypeOK
  BY DEF IntelligenceInit, Unasked, NoRoll, NoEntry
<1>2. IntelligenceTypeOK /\ [IntelligenceNext]_intelligenceVars => IntelligenceTypeOK'
  <2> SUFFICES ASSUME IntelligenceTypeOK, [IntelligenceNext]_intelligenceVars
               PROVE  IntelligenceTypeOK'
    OBVIOUS
  <2>a. ASSUME NEW c, Record(c) PROVE spent' \in Nat /\ calls' \subseteq Callers
    BY <2>a DEF Record
  <2>1. ASSUME NEW c \in Callers, PassBudget(c) \/ CallFails(c)
        PROVE  IntelligenceTypeOK'
    BY <2>1 DEF PassBudget, CallFails
  <2>2. ASSUME NEW m \in Models, MemberRefused(m) \/ MemberAnswers(m)
        PROVE  IntelligenceTypeOK'
    BY <2>2, <2>a DEF MemberRefused, MemberAnswers
  <2>3. CASE NewsUnchecked
    BY <2>3 DEF NewsUnchecked
  <2>4. CASE NewsAnswers
    <3>1. PICK q \in OrderSizes, v \in {"proceed", "caution", "block"} :
            entry' = [asked |-> q, placed |-> Placed(v, q)]
      BY <2>4 DEF NewsAnswers
    <3>2. Placed(v, q) \in Nat
      BY DEF Placed
    <3> QED
      BY <2>4, <2>a, <3>1, <3>2 DEF NewsAnswers
  <2>5. CASE VetoAnswers
    BY <2>5, <2>a DEF VetoAnswers
  <2>6. CASE RollTriggers
    BY <2>6 DEF RollTriggers, Unasked
  <2>7. CASE Orchestrate
    BY <2>7 DEF Orchestrate
  <2>8. CASE WriteSnapshot \/ DateChanges
    <3>1. \A veto \in BOOLEAN : [today |-> TRUE, veto |-> veto] \in [today : BOOLEAN, veto : BOOLEAN]
      OBVIOUS
    <3>2. latest' \in [today : BOOLEAN, veto : BOOLEAN]
      <4>1. CASE WriteSnapshot
        <5>1. (latest.today /\ latest.veto) \in BOOLEAN
          BY Zenon
        <5>2. [today |-> TRUE, veto |-> (latest.today /\ latest.veto)] \in [today : BOOLEAN, veto : BOOLEAN]
          BY <3>1, <5>1, Zenon
        <5> QED
          BY <4>1, <5>2, Zenon DEF WriteSnapshot, RowUpserted
      <4>2. CASE DateChanges
        BY <4>2 DEF DateChanges
      <4> QED
        BY <2>8, <4>1, <4>2
    <3>3. spent' \in Nat /\ UNCHANGED <<calls, votes, roll, entry>>
      BY <2>8 DEF WriteSnapshot, DateChanges
    <3> QED
      BY <3>2, <3>3
  <2>9. CASE UNCHANGED intelligenceVars
    BY <2>9 DEF intelligenceVars
  <2> QED
    BY <2>1, <2>2, <2>3, <2>4, <2>5, <2>6, <2>7, <2>8, <2>9 DEF IntelligenceNext
<1> QED
  BY <1>1, <1>2, PTL DEF IntelligenceSpec

\* Every gate keeps its types whatever becomes of the others.
THEOREM GatesTypes == GatesSpec => []GatesTypeOK
<1>1. GatesInit => /\ Init /\ RuntimeInit /\ LimitsInit /\ ZeroDteInit
                   /\ WatchlistInit /\ IntelligenceInit
  BY DEF GatesInit
<1>2. [GatesNext]_gatesVars =>
        /\ [Next]_vars /\ [RuntimeNext]_runtimeVars /\ [LimitsNext]_limitsVars
        /\ [ZeroDteNext]_zeroDteVars /\ [WatchlistNext]_watchlistVars
        /\ [IntelligenceNext]_intelligenceVars
  BY DEF GatesNext, OnKillSwitch, OnBreakers, OnLimits, OnZeroDte, OnWatchlists, OnIntelligence,
         gatesVars
<1>3. GatesSpec => /\ Spec /\ RuntimeSpec /\ LimitsSpec /\ ZeroDteSpec
                   /\ WatchlistSpec /\ IntelligenceSpec
  BY <1>1, <1>2, PTL DEF GatesSpec, Spec, RuntimeSpec, LimitsSpec, ZeroDteSpec, WatchlistSpec,
                         IntelligenceSpec
<1> QED
  BY <1>3, TypeCorrect, RuntimeTypes, LimitsTypes, ZeroDteTypes, WatchlistTypes, IntelligenceTypes, PTL
     DEF GatesTypeOK

-----------------------------------------------------------------------------
(* The floor of the watchlists. *)

\* What the guardrails let through: adds that are no members, drops that are, and
\* no drop too many.
Guarded(members, entries) ==
    \E adds, drops \in SUBSET Known :
        /\ entries = Entries(members, adds, drops)
        /\ adds \cap members = {} /\ drops \subseteq members
        /\ \/ Cardinality(members) + Cardinality(adds) - Cardinality(drops) >= MinSymbols
           \/ drops = {}

LEMMA KnownIsFinite ==
    /\ IsFiniteSet(Known) /\ MinSymbols \in Nat
    /\ \A S \in SUBSET Known : IsFiniteSet(S) /\ Cardinality(S) \in Nat
<1>1. IsFiniteSet(Known)
  BY FS_Union, WatchlistAssumption DEF Known
<1> QED
  BY <1>1, FS_Subset, FS_CardinalityType, WatchlistAssumption

\* Whatever the model asks to add and to drop, and whichever of it the caps let
\* through, the guardrails answer with guarded entries.
LEMMA GuardrailsGuard ==
    ASSUME NEW members \in SUBSET Known, NEW protected, NEW eligible,
           NEW wantAdds \in SUBSET Known, NEW wantDrops \in SUBSET Known,
           NEW e \in EnforceGuardrails([members |-> members, protected |-> protected],
                                       eligible, wantAdds, wantDrops)
    PROVE  Guarded(members, e)
<1>0. PICK adds \in AtMost((wantAdds \ members) \cap eligible, MaxAdds),
           drops \in AtMost((wantDrops \cap members) \ protected, MaxDrops) :
             e \in {Entries(members, adds, d) : d \in Spared(members, adds, drops)}
  BY DEF EnforceGuardrails
<1>1. PICK spared \in Spared(members, adds, drops) : e = Entries(members, adds, spared)
  BY <1>0
<1>2. /\ adds \in SUBSET Known /\ adds \cap members = {}
      /\ drops \subseteq members /\ drops \in SUBSET Known /\ spared \subseteq drops
  BY <1>0, <1>1 DEF AtMost, Spared
<1> DEFINE room == Cardinality(members) + Cardinality(adds)
           n == IF room >= MinSymbols THEN room - MinSymbols ELSE 0
<1>3. Cardinality(members) \in Nat /\ Cardinality(adds) \in Nat /\ Cardinality(drops) \in Nat
      /\ IsFiniteSet(spared) /\ Cardinality(spared) \in Nat /\ MinSymbols \in Nat
  BY <1>2, KnownIsFinite
<1>4. Cardinality(spared) <= n
  <2>1. Cardinality(spared) = IF Cardinality(drops) <= n THEN Cardinality(drops) ELSE n
    BY <1>1 DEF Spared, AtMost
  <2> QED
    BY <1>3, <2>1
<1>5. CASE room >= MinSymbols
  <2>1. Cardinality(members) + Cardinality(adds) - Cardinality(spared) >= MinSymbols
    BY <1>3, <1>4, <1>5
  <2>2. spared \in SUBSET Known /\ spared \subseteq members
    BY <1>2
  <2> HIDE DEF room, n
  <2> QED
    BY <1>1, <1>2, <2>1, <2>2, Zenon DEF Guarded
<1>6. CASE ~ (room >= MinSymbols)
  <2>1. Cardinality(spared) = 0
    BY <1>3, <1>4, <1>6
  <2>2. spared = {}
    BY <1>3, <2>1, FS_EmptySet
  <2> QED
    BY <1>1, <1>2, <2>2 DEF Guarded
<1> QED
  BY <1>5, <1>6

\* A run whose entries are all those the guardrails let through keeps the floor.
LEMMA GuardedKeepsTheFloor ==
    ASSUME NEW r \in RunIds, NEW members \in SUBSET Known, Guarded(members, runs[r].entries)
    PROVE  \/ Cardinality(Membership(r)) >= MinSymbols
           \/ Cardinality(Membership(r)) >= Cardinality(members)
<1>1. PICK adds \in SUBSET Known, drops \in SUBSET Known :
        /\ runs[r].entries = Entries(members, adds, drops)
        /\ adds \cap members = {} /\ drops \subseteq members
        /\ \/ Cardinality(members) + Cardinality(adds) - Cardinality(drops) >= MinSymbols
           \/ drops = {}
  BY DEF Guarded
<1> DEFINE kept == members \ drops
<1>2. Membership(r) = adds \cup kept
  <2>1. \A s : <<s, "add">> \in Entries(members, adds, drops) <=> s \in adds
    BY DEF Entries
  <2>2. \A s : <<s, "keep">> \in Entries(members, adds, drops) <=> s \in kept
    BY DEF Entries
  <2>3. adds \subseteq Known /\ kept \subseteq Known
    OBVIOUS
  <2> HIDE DEF kept
  <2> QED
    BY <1>1, <2>1, <2>2, <2>3 DEF Membership
<1>3. /\ IsFiniteSet(members) /\ IsFiniteSet(adds) /\ IsFiniteSet(kept)
      /\ Cardinality(members) \in Nat /\ Cardinality(adds) \in Nat /\ Cardinality(drops) \in Nat
      /\ MinSymbols \in Nat
  BY KnownIsFinite
<1>4. Cardinality(kept) = Cardinality(members) - Cardinality(drops)
  <2>1. members \cap drops = drops
    BY <1>1
  <2> QED
    BY <1>3, <2>1, FS_Difference
<1>5. Cardinality(Membership(r)) = Cardinality(adds) + Cardinality(kept)
  <2>1. adds \cap kept = {} /\ Cardinality({}) = 0
    BY <1>1, FS_EmptySet
  <2>2. Cardinality(adds \cup kept) = Cardinality(adds) + Cardinality(kept) - Cardinality(adds \cap kept)
    BY <1>3, FS_Union
  <2>3. Cardinality(kept) \in Nat
    BY KnownIsFinite
  <2>4. Membership(r) = adds \cup kept
    BY <1>2
  <2> HIDE DEF kept
  <2>5. Cardinality(adds \cup kept) = Cardinality(adds) + Cardinality(kept) - 0
    BY <2>1, <2>2
  <2> QED
    BY <1>3, <2>3, <2>4, <2>5
<1>6. drops = {} => Cardinality(drops) = 0
  BY FS_EmptySet
<1>7. Cardinality(Membership(r)) = Cardinality(members) + Cardinality(adds) - Cardinality(drops)
  BY <1>3, <1>4, <1>5
<1>8. CASE drops = {}
  BY <1>3, <1>6, <1>7, <1>8
<1>9. CASE Cardinality(members) + Cardinality(adds) - Cardinality(drops) >= MinSymbols
  BY <1>7, <1>9
<1> QED
  BY <1>1, <1>8, <1>9

\* The stored runs are the first so many.
Stored(n) == \A r \in RunIds : runs[r].status # "none" <=> r <= n

LEMMA NewestIsLast ==
    ASSUME NEW n \in 0 .. MaxRuns, Stored(n)
    PROVE  NewestRun = n
<1>1. n \in Nat /\ MaxRuns \in Nat
  BY WatchlistAssumption
<1>2. {r \in RunIds : runs[r].status # "none"} = 1 .. n
  BY <1>1 DEF Stored, RunIds
<1>3. Cardinality(1 .. n) = n
  BY <1>1, FS_Interval
<1> QED
  BY <1>2, <1>3 DEF NewestRun

\* Why a whole run keeps the floor: what was written of the newest run and what is
\* still to be written make up what the guardrails let through, and only the job
\* writes entries, of that run alone.
FloorInv ==
    /\ \E n \in 0 .. MaxRuns :
         /\ Stored(n)
         /\ jobStep = "asked" => n < MaxRuns
         /\ jobStep = "writing" => /\ n > 0 /\ ~ runs[n].whole /\ runs[n].members = base.members
                                   /\ Guarded(base.members, toWrite \cup runs[n].entries)
    /\ \A r \in RunIds : runs[r].status = "none" => runs[r] = NoRun
    /\ review # 0 => runs[review].status # "none"
    /\ WholeRunsKeepTheFloor

\* A run that was written to its end keeps the floor, or the membership it found
\* below it, for any lists, caps and answers, wherever the job dies over a run and
\* whichever runs the operator approves, rejects or supersedes meanwhile.
THEOREM WholeRunsKeepFloor == WatchlistSpec => []WholeRunsKeepTheFloor
<1> USE WatchlistAssumption
<1>1. WatchlistInit => FloorInv
  <2> SUFFICES ASSUME WatchlistInit PROVE FloorInv
    OBVIOUS
  <2>1. \A r \in RunIds : runs[r] = NoRun /\ NoRun.status = "none" /\ ~ NoRun.whole
    BY DEF WatchlistInit, NoRun
  <2>2. Stored(0)
    BY <2>1 DEF Stored, RunIds
  <2>3. jobStep = "idle" /\ review = 0 /\ 0 \in 0 .. MaxRuns
    BY DEF WatchlistInit
  <2> QED
    BY <2>1, <2>2, <2>3 DEF FloorInv, WholeRunsKeepTheFloor
<1>2. WatchlistTypeOK /\ FloorInv /\ [WatchlistNext]_watchlistVars => FloorInv'
  <2> SUFFICES ASSUME WatchlistTypeOK, FloorInv, [WatchlistNext]_watchlistVars
               PROVE  FloorInv'
    OBVIOUS
  <2>0. PICK n \in 0 .. MaxRuns :
          /\ Stored(n)
          /\ jobStep = "asked" => n < MaxRuns
          /\ jobStep = "writing" => /\ n > 0 /\ ~ runs[n].whole /\ runs[n].members = base.members
                                    /\ Guarded(base.members, toWrite \cup runs[n].entries)
    BY DEF FloorInv
  <2>a. NewestRun = n /\ n \in Nat /\ MaxRuns \in Nat
    BY <2>0, NewestIsLast
  <2>b. /\ \A r \in RunIds : runs[r].status = "none" => runs[r] = NoRun
        /\ WholeRunsKeepTheFloor /\ DOMAIN runs = RunIds
        /\ base.members \in SUBSET Known /\ jobStep \in {"idle", "asked", "writing"}
        /\ review # 0 => review \in RunIds /\ runs[review].status # "none"
    BY DEF FloorInv, WatchlistTypeOK, RunIds
  \* Nothing is stored, and no entry written.
  <2>c. ASSUME /\ DOMAIN runs' = RunIds
               /\ \A r \in RunIds : /\ runs'[r].entries = runs[r].entries
                                    /\ runs'[r].members = runs[r].members
                                    /\ runs'[r].status = "none" => runs'[r] = runs[r]
                                    /\ runs[r].status = "none" => runs'[r] = runs[r]
                                    /\ runs'[r].whole => runs[r].whole,
               \/ jobStep' = "idle"
               \/ UNCHANGED <<jobStep, base, toWrite>>,
               review' # 0 => review' \in RunIds /\ runs[review'].status # "none"
        PROVE  FloorInv'
    <3>1. Stored(n)'
      BY <2>0, <2>c DEF Stored
    <3>2. \A r \in RunIds : Membership(r)' = Membership(r)
      BY <2>c DEF Membership
    <3>3. WholeRunsKeepTheFloor'
      BY <2>b, <2>c, <3>2 DEF WholeRunsKeepTheFloor
    <3>4. n > 0 => n \in RunIds
      BY <2>a DEF RunIds
    <3>5. jobStep' = "writing" => /\ n > 0 /\ ~ runs'[n].whole /\ runs'[n].members = base'.members
                                  /\ Guarded(base.members, toWrite \cup runs[n].entries)'
      <4> SUFFICES ASSUME jobStep' = "writing"
                   PROVE  /\ n > 0 /\ ~ runs'[n].whole /\ runs'[n].members = base'.members
                          /\ Guarded(base.members, toWrite \cup runs[n].entries)'
        OBVIOUS
      <4>1. UNCHANGED <<jobStep, base, toWrite>> /\ n > 0 /\ n \in RunIds
        BY <2>0, <2>c, <3>4
      <4>2. runs'[n].entries = runs[n].entries
        BY <2>c, <4>1
      <4>3. Guarded(base.members, toWrite \cup runs[n].entries)'
        BY <2>0, <4>1, <4>2 DEF Guarded
      <4> QED
        BY <2>0, <2>c, <4>1, <4>3
    <3>6. \A r \in RunIds : runs'[r].status = "none" => runs'[r] = NoRun
      BY <2>b, <2>c
    <3>7. jobStep' = "asked" => n < MaxRuns
      BY <2>0, <2>c
    <3>8. review' # 0 => runs'[review'].status # "none"
      BY <2>c
    <3> QED
      BY <3>1, <3>3, <3>5, <3>6, <3>7, <3>8 DEF FloorInv
  \* A run is put in force, or decided against.
  <2>d. ASSUME NEW r \in RunIds, NEW s \in {"applied", "rejected"}, runs[r].status # "none",
               \/ runs' = ApplyRun(r, runs) \/ runs' = [runs EXCEPT ![r].status = s]
        PROVE  /\ DOMAIN runs' = RunIds
               /\ \A q \in RunIds : /\ runs'[q].entries = runs[q].entries
                                    /\ runs'[q].members = runs[q].members
                                    /\ runs'[q].status = "none" => runs'[q] = runs[q]
                                    /\ runs[q].status = "none" => runs'[q] = runs[q]
                                    /\ runs'[q].whole => runs[q].whole
    <3>1. CASE runs' = ApplyRun(r, runs)
      BY <2>d, <3>1 DEF ApplyRun, WatchlistTypeOK
    <3>2. CASE runs' = [runs EXCEPT ![r].status = s]
      BY <2>d, <3>2 DEF WatchlistTypeOK
    <3> QED
      BY <2>d, <3>1, <3>2
  <2>1. CASE Ask
    <3>1. jobStep' = "asked" /\ n < MaxRuns /\ runs' = runs /\ review' = review
      BY <2>1, <2>a DEF Ask
    <3>2. Stored(n)' /\ WholeRunsKeepTheFloor'
      BY <2>0, <2>b, <3>1 DEF Stored, WholeRunsKeepTheFloor, Membership
    <3> QED
      BY <2>b, <3>1, <3>2 DEF FloorInv
  <2>2. CASE AskFails \/ JobDies \/ (\E r \in RunIds : FindProposed(r)) \/ PositionMoves
             \/ UNCHANGED watchlistVars
    <3>1. runs' = runs /\ (jobStep' = "idle" \/ UNCHANGED <<jobStep, base, toWrite>>)
      BY <2>2 DEF AskFails, JobDies, FindProposed, PositionMoves, watchlistVars
    <3>2. review' = review \/ (review' \in RunIds /\ runs[review'].status = "proposed")
      BY <2>2 DEF AskFails, JobDies, FindProposed, PositionMoves, watchlistVars
    <3> QED
      BY <2>b, <2>c, <3>1, <3>2
  \* A new run, with a status and no entries yet.
  <2>e. ASSUME NEW s \in {"failed", "proposed"}, n < MaxRuns,
               runs'[n + 1].status = s, runs'[n + 1].entries = {}, runs'[n + 1].whole = FALSE,
               \A r \in RunIds : r # n + 1 => runs'[r] = runs[r]
        PROVE  /\ n + 1 \in 0 .. MaxRuns /\ n + 1 \in RunIds /\ Stored(n + 1)'
               /\ \A r \in RunIds : runs'[r].status = "none" => runs'[r] = NoRun
               /\ WholeRunsKeepTheFloor'
               /\ review # 0 => runs'[review].status # "none"
    <3>1. n + 1 \in RunIds /\ n + 1 \in 0 .. MaxRuns
      BY <2>a, <2>e DEF RunIds
    <3>2. /\ runs'[n + 1].status # "none" /\ ~ runs'[n + 1].whole
          /\ \A r \in RunIds : r # n + 1 => runs'[r] = runs[r]
      BY <2>e
    <3>3. Stored(n + 1)'
      <4>1. \A r \in RunIds : r \in Nat /\ (r <= n + 1 <=> (r <= n \/ r = n + 1))
        BY <2>a DEF RunIds
      <4> QED
        BY <2>0, <3>2, <4>1 DEF Stored
    <3>4. WholeRunsKeepTheFloor'
      BY <2>b, <3>2 DEF WholeRunsKeepTheFloor, Membership
    <3> QED
      BY <2>b, <3>1, <3>2, <3>3, <3>4
  <2>3. CASE Unparseable
    <3>1. n < MaxRuns /\ jobStep' = "idle" /\ review' = review
      BY <2>0, <2>3 DEF Unparseable
    <3>2. n + 1 \in RunIds /\ runs[n + 1] = NoRun
      BY <2>0, <2>a, <2>b, <3>1 DEF Stored, RunIds
    <3>3. /\ runs'[n + 1].status = "failed" /\ runs'[n + 1].entries = {}
          /\ runs'[n + 1].whole = FALSE
          /\ \A r \in RunIds : r # n + 1 => runs'[r] = runs[r]
      <4>1. runs' = [runs EXCEPT ![n + 1] = [NoRun EXCEPT !.status = "failed"]]
        BY <2>3, <2>a, <3>2 DEF Unparseable
      <4> QED
        BY <2>b, <3>2, <4>1 DEF NoRun
    <3> QED
      BY <2>e, <3>1, <3>3 DEF FloorInv
  <2>4. CASE Propose
    <3>1. /\ n < MaxRuns /\ jobStep' = "writing" /\ base' = base /\ review' = review
          /\ runs' = [runs EXCEPT ![n + 1] =
                        [NoRun EXCEPT !.status = "proposed", !.members = base.members]]
      BY <2>0, <2>4, <2>a DEF Propose
    <3>a. n + 1 \in RunIds /\ n + 1 > 0
      BY <2>a, <3>1 DEF RunIds
    <3>b. runs'[n + 1] = [NoRun EXCEPT !.status = "proposed", !.members = base.members]
      BY <2>b, <3>1, <3>a
    <3>c. /\ runs'[n + 1].status = "proposed" /\ runs'[n + 1].entries = {}
          /\ runs'[n + 1].whole = FALSE /\ runs'[n + 1].members = base.members
          /\ \A r \in RunIds : r # n + 1 => runs'[r] = runs[r]
      BY <2>b, <3>1, <3>b DEF NoRun
    <3>2. Guarded(base.members, toWrite')
      <4>1. PICK eligible \in EligibleAdds, wantAdds \in SUBSET Known, wantDrops \in SUBSET Known :
              toWrite' \in EnforceGuardrails(base, eligible, wantAdds, wantDrops)
        BY <2>4 DEF Propose
      <4>2. base = [members |-> base.members, protected |-> base.protected]
        BY DEF WatchlistTypeOK
      <4> QED
        BY <2>b, <4>1, <4>2, GuardrailsGuard
    <3>3. /\ n + 1 \in 0 .. MaxRuns /\ Stored(n + 1)'
          /\ \A r \in RunIds : runs'[r].status = "none" => runs'[r] = NoRun
          /\ WholeRunsKeepTheFloor'
          /\ review # 0 => runs'[review].status # "none"
      BY <2>e, <3>1, <3>c
    <3>4. /\ runs'[n + 1].entries = {} /\ ~ runs'[n + 1].whole
          /\ runs'[n + 1].members = base'.members /\ n + 1 > 0
      BY <3>1, <3>a, <3>c
    <3>5. Guarded(base.members, toWrite \cup runs[n + 1].entries)'
      <4>1. toWrite' \cup runs'[n + 1].entries = toWrite'
        BY <3>4
      <4> QED
        BY <3>1, <3>2, <4>1 DEF Guarded
    <3> QED
      BY <2>a, <3>1, <3>3, <3>4, <3>5 DEF FloorInv
  <2>5. CASE WriteEntry
    <3>1. PICK e \in toWrite : /\ runs' = [runs EXCEPT ![n].entries = @ \cup {e}]
                               /\ toWrite' = toWrite \ {e}
      BY <2>5, <2>a DEF WriteEntry
    <3>2. jobStep = "writing" /\ UNCHANGED <<jobStep, base, review>> /\ n \in RunIds /\ n > 0
      BY <2>0, <2>5, <2>a DEF WriteEntry, RunIds
    <3>3. /\ runs'[n] = [runs[n] EXCEPT !.entries = @ \cup {e}]
          /\ \A r \in RunIds : r # n => runs'[r] = runs[r]
      BY <2>b, <3>1, <3>2
    <3>4. /\ runs'[n].status = runs[n].status /\ runs'[n].whole = runs[n].whole
          /\ runs'[n].members = runs[n].members /\ runs'[n].entries = runs[n].entries \cup {e}
      <4>1. runs[n] = [status |-> runs[n].status, entries |-> runs[n].entries,
                       members |-> runs[n].members, whole |-> runs[n].whole]
        BY <3>2 DEF WatchlistTypeOK
      <4> QED
        BY <3>3, <4>1
    <3>5. toWrite' \cup runs'[n].entries = toWrite \cup runs[n].entries
      BY <3>1, <3>4
    <3>6. Stored(n)' /\ runs[n].status # "none"
      <4>1. \A r \in RunIds : runs'[r].status = runs[r].status
        BY <3>3, <3>4
      <4>2. n <= n
        BY <2>a
      <4> QED
        BY <2>0, <3>2, <4>1, <4>2 DEF Stored
    <3>7. WholeRunsKeepTheFloor'
      BY <2>0, <2>b, <3>2, <3>3, <3>4 DEF WholeRunsKeepTheFloor, Membership
    <3>8. /\ \A r \in RunIds : runs'[r].status = "none" => runs'[r] = NoRun
          /\ review # 0 => runs'[review].status # "none"
      BY <2>b, <3>3, <3>4, <3>6
    <3>9. Guarded(base.members, toWrite \cup runs[n].entries)'
      BY <2>0, <3>2, <3>5 DEF Guarded
    <3> QED
      BY <2>0, <3>2, <3>4, <3>6, <3>7, <3>8, <3>9 DEF FloorInv
  <2>6. CASE Conclude
    <3> DEFINE done == [runs EXCEPT ![n].whole = TRUE]
    <3>1. /\ jobStep = "writing" /\ jobStep' = "idle" /\ toWrite = {} /\ n \in RunIds /\ review' = review
          /\ runs' \in {[done EXCEPT ![n].status = "rejected"], ApplyRun(n, done), done}
      BY <2>0, <2>6, <2>a DEF Conclude, RunIds
    <3>2. runs[n].status # "none"
      BY <2>0, <2>a, <3>1 DEF Stored
    <3>3. \A r \in RunIds : /\ runs'[r].entries = runs[r].entries /\ runs'[r].members = runs[r].members
                            /\ runs'[r].status = "none" <=> runs[r].status = "none"
                            /\ r # n => (runs'[r].whole <=> runs[r].whole)
                            /\ runs[r].status = "none" => runs'[r] = runs[r]
      <4> DEFINE row == [status : {"none", "proposed", "applied", "rejected", "superseded",
                                   "failed"},
                         entries : SUBSET (Known \X Actions), members : SUBSET Known,
                         whole : BOOLEAN]
      <4>11. runs \in [RunIds -> row]
        BY DEF WatchlistTypeOK
      <4>12. [runs[n] EXCEPT !.whole = TRUE] \in row
        BY <3>1, <4>11
      <4>13. done = [runs EXCEPT ![n] = [runs[n] EXCEPT !.whole = TRUE]]
        OBVIOUS
      <4>14. /\ [runs[n] EXCEPT !.whole = TRUE].entries = runs[n].entries
            /\ [runs[n] EXCEPT !.whole = TRUE].members = runs[n].members
            /\ [runs[n] EXCEPT !.whole = TRUE].status = runs[n].status
        BY <3>1, <4>11
      <4> HIDE DEF row, done
      <4>15. done \in [RunIds -> row]
        BY <4>11, <4>12, <4>13
      <4>16. \A r \in RunIds : IF r = n THEN done[r] = [runs[n] EXCEPT !.whole = TRUE]
                                       ELSE done[r] = runs[r]
        BY <4>11, <4>13
      <4>17. done[n].status # "none"
        BY <3>1, <3>2, <4>14, <4>16
      <4>18. \A r \in RunIds : /\ done[r].entries = runs[r].entries
                               /\ done[r].members = runs[r].members
                               /\ done[r].status = runs[r].status
                               /\ r # n => done[r] = runs[r]
        BY <4>14, <4>16
      <4>2. CASE runs' = done
        BY <3>2, <4>15, <4>17, <4>18, <4>2
      <4>3. CASE runs' = [done EXCEPT ![n].status = "rejected"]
        BY <3>2, <4>15, <4>17, <4>18, <4>3 DEF row
      <4>4. CASE runs' = ApplyRun(n, done)
        BY <3>2, <4>15, <4>17, <4>18, <4>4 DEF ApplyRun, row
      <4> QED
        BY <3>1, <4>2, <4>3, <4>4
    <3>4. Stored(n)'
      BY <2>0, <3>3 DEF Stored
    <3>5. \/ Cardinality(Membership(n)) >= MinSymbols
          \/ Cardinality(Membership(n)) >= Cardinality(runs[n].members)
      BY <2>0, <2>b, <3>1, GuardedKeepsTheFloor
    <3>6. WholeRunsKeepTheFloor'
      <4>1. \A r \in RunIds : Membership(r)' = Membership(r)
        BY <3>3 DEF Membership
      <4> QED
        BY <2>b, <3>3, <3>5, <4>1 DEF WholeRunsKeepTheFloor
    <3> QED
      BY <2>b, <3>1, <3>3, <3>4, <3>6 DEF FloorInv
  <2>7. CASE \E approve \in BOOLEAN : Decide(approve)
    <3>1. review # 0 /\ review' = 0 /\ UNCHANGED <<jobStep, base, toWrite>>
          /\ (runs' = ApplyRun(review, runs) \/ runs' = [runs EXCEPT ![review].status = "rejected"])
      BY <2>7 DEF Decide
    <3> QED
      BY <2>b, <2>c, <2>d, <3>1
  <2> QED
    BY <2>1, <2>2, <2>3, <2>4, <2>5, <2>6, <2>7 DEF WatchlistNext
<1> QED
  BY <1>1, <1>2, WatchlistTypes, PTL DEF WatchlistSpec, FloorInv

-----------------------------------------------------------------------------
(* Sums over the rows.  A sum is a fold, a recursive function on the parts of *)
(* the set, and what it comes to is shown by looking at a smallest part for   *)
(* which it would not.                                                        *)

\* Of some numbers one is smallest.
LEMMA SmallestNumber ==
    ASSUME NEW T \in SUBSET Nat, T # {}
    PROVE  \E n \in T : \A m \in T : ~(m < n)
<1> DEFINE R == {pair \in Nat \X Nat : pair[1] < pair[2]}
<1>1. IsWellFoundedOn(R, Nat)
  BY NatLessThanWellFounded, Zenon DEF OpToRel
<1>2. \A x, y \in Nat : ~(<<y, x>> \in R) => ~(y < x)
  OBVIOUS
<1> HIDE DEF R
<1>3. PICK n \in T : \A m \in T : ~(<<m, n>> \in R)
  BY <1>1, WFMin
<1> QED
  BY <1>2, <1>3

\* And of some parts of a finite set one has fewest elements.
LEMMA SmallestPart ==
    ASSUME NEW K, IsFiniteSet(K), NEW T \in SUBSET (SUBSET K), T # {}
    PROVE  \E s \in T : /\ IsFiniteSet(s) /\ Cardinality(s) \in Nat
                        /\ \A t \in T : ~(Cardinality(t) < Cardinality(s))
<1> DEFINE sizes == {Cardinality(t) : t \in T}
<1>1. \A t \in T : IsFiniteSet(t) /\ Cardinality(t) \in Nat
  BY FS_Subset, FS_CardinalityType
<1>2. sizes \in SUBSET Nat /\ sizes # {}
  BY <1>1
<1>3. PICK n \in sizes : \A m \in sizes : ~(m < n)
  <2> HIDE DEF sizes
  <2> QED
    BY <1>2, SmallestNumber
<1>4. PICK s \in T : Cardinality(s) = n
  BY <1>3
<1> QED
  BY <1>1, <1>3, <1>4

\* Without its next element a part is a part still, and a smaller one.
NextOf(s) == CHOOSE x \in s : TRUE

LEMMA TakingNext ==
    ASSUME NEW s, IsFiniteSet(s), s # {}
    PROVE  /\ NextOf(s) \in s /\ IsFiniteSet(s \ {NextOf(s)})
           /\ Cardinality(s \ {NextOf(s)}) = Cardinality(s) - 1
           /\ Cardinality(s) \in Nat /\ Cardinality(s) # 0
<1>1. NextOf(s) \in s
  BY DEF NextOf
<1> QED
  BY <1>1, FS_RemoveElement, FS_CardinalityType, FS_EmptySet

\* f adds up the capital at risk in every part of D, one row after the other.
AddUp(rows, f, s) == IF s = {} THEN 0 ELSE rows[NextOf(s)].risk + f[s \ {NextOf(s)}]
Adds(f, rows, D)  == f = [s \in SUBSET D |-> AddUp(rows, f, s)]

\* There is such a function: what it is on sets of n elements says what it is
\* on those of one more.
LEMMA SumsExist ==
    ASSUME NEW rows, NEW D, IsFiniteSet(D)
    PROVE  \E f : Adds(f, rows, D)
<1> DEFINE Small(n)      == {s \in SUBSET D : Cardinality(s) <= n}
           AddsSmall(f, n) == f = [s \in Small(n) |-> AddUp(rows, f, s)]
           Bad           == {n \in Nat : ~ \E f : AddsSmall(f, n)}
<1>1. \A s \in SUBSET D : IsFiniteSet(s) /\ Cardinality(s) \in Nat
  BY FS_Subset, FS_CardinalityType
<1>2. ASSUME Bad # {}
      PROVE  FALSE
  <2>1. PICK n \in Bad : \A m \in Bad : ~(m < n)
    BY <1>2, SmallestNumber
  <2>2. CASE n = 0
    <3>1. \A s \in Small(n) : s = {}
      BY <1>1, <2>2, FS_EmptySet
    <3> DEFINE f == [s \in Small(n) |-> 0]
    <3>2. AddsSmall(f, n)
      BY <3>1 DEF AddUp
    <3> QED
      BY <2>1, <3>2
  <2>3. CASE n # 0
    <3>1. n - 1 \in Nat /\ n - 1 < n
      BY <2>3
    <3>2. PICK g : AddsSmall(g, n - 1)
      BY <2>1, <3>1
    <3> DEFINE f == [s \in Small(n) |-> AddUp(rows, g, s)]
    <3>3. ASSUME NEW s \in Small(n)
          PROVE  AddUp(rows, g, s) = AddUp(rows, f, s)
      <4> DEFINE t == s \ {NextOf(s)}
      <4>1. CASE s = {}
        BY <4>1 DEF AddUp
      <4>2. CASE s # {}
        <5>1. t \in SUBSET D /\ Cardinality(t) <= n - 1 /\ Cardinality(t) <= n
          BY <1>1, <3>1, <4>2, TakingNext
        <5>2. t \in Small(n - 1) /\ t \in Small(n)
          BY <5>1
        <5>3. g[t] = AddUp(rows, g, t) /\ f[t] = AddUp(rows, g, t)
          <6> HIDE DEF t, Small
          <6> QED
            BY <3>2, <5>2
        <5> QED
          BY <4>2, <5>3 DEF AddUp
      <4> QED
        BY <4>1, <4>2
    <3>4. AddsSmall(f, n)
      <4> HIDE DEF Small
      <4> QED
        BY <3>3
    <3> QED
      BY <2>1, <3>4
  <2> QED
    BY <2>2, <2>3
<1>3. Cardinality(D) \in Nat
  BY FS_CardinalityType
<1>4. PICK f : AddsSmall(f, Cardinality(D))
  BY <1>2, <1>3
<1>5. Small(Cardinality(D)) = SUBSET D
  BY FS_Subset
<1> HIDE DEF Small
<1> QED
  BY <1>4, <1>5 DEF Adds
\* A sum depends on the rows it is over, not on the function that adds them up.
LEMMA SumsAgree ==
    ASSUME NEW rows, NEW f, NEW D, Adds(f, rows, D),
           NEW others, NEW g, NEW E, Adds(g, others, E),
           NEW S \in SUBSET (D \cap E), IsFiniteSet(S),
           \A k \in S : rows[k].risk = others[k].risk
    PROVE  f[S] = g[S]
<1> DEFINE Bad == {s \in SUBSET S : f[s] # g[s]}
<1>1. ASSUME Bad # {}
      PROVE  FALSE
  <2>1. PICK s \in Bad : IsFiniteSet(s) /\ Cardinality(s) \in Nat
                         /\ \A t \in Bad : ~(Cardinality(t) < Cardinality(s))
    <3> HIDE DEF Bad
    <3>1. Bad \in SUBSET (SUBSET S)
      BY DEF Bad
    <3> QED
      BY <1>1, <3>1, SmallestPart
  <2>2. s \in SUBSET S /\ s \in SUBSET D /\ s \in SUBSET E /\ f[s] # g[s]
    OBVIOUS
  <2>3. f[s] = AddUp(rows, f, s) /\ g[s] = AddUp(others, g, s)
    BY <2>2 DEF Adds
  <2>4. s # {}
    BY <2>2, <2>3 DEF AddUp
  <2> DEFINE t == s \ {NextOf(s)}
  <2>5. NextOf(s) \in S /\ t \in SUBSET S /\ Cardinality(t) < Cardinality(s)
    BY <2>1, <2>2, <2>4, TakingNext
  <2>6. f[t] = g[t]
    BY <2>1, <2>5
  <2> QED
    BY <2>2, <2>3, <2>4, <2>5, <2>6 DEF AddUp
<1> QED
  BY <1>1

\* The capital at risk in some rows is found by adding.
LEMMA CapitalByAdding ==
    ASSUME NEW rows, NEW D, IsFiniteSet(D)
    PROVE  \E f : Adds(f, rows, D) /\ CapitalOf(rows, D) = f[D]
<1> DEFINE g == CHOOSE f : Adds(f, rows, D)
<1>1. Adds(g, rows, D)
  <2>1. \E f : Adds(f, rows, D)
    BY SumsExist
  <2> QED
    BY <2>1, Zenon
<1>2. CapitalOf(rows, D) = g[D]
  BY Zenon DEF CapitalOf, MapThenSumSet, MapThenFoldSet, Adds, AddUp, NextOf
<1> QED
  BY <1>1, <1>2

\* Rows with the same capital in them have the same sum.
LEMMA CapitalAgrees ==
    ASSUME NEW rows, NEW others, NEW D, IsFiniteSet(D),
           \A k \in D : rows[k].risk = others[k].risk
    PROVE  CapitalOf(rows, D) = CapitalOf(others, D)
<1>1. PICK f : Adds(f, rows, D) /\ CapitalOf(rows, D) = f[D]
  BY CapitalByAdding
<1>2. PICK g : Adds(g, others, D) /\ CapitalOf(others, D) = g[D]
  BY CapitalByAdding
<1>3. f[D] = g[D]
  BY <1>1, <1>2, SumsAgree
<1> QED
  BY <1>1, <1>2, <1>3

\* No rows hold nothing, and of others one is taken out next.
LEMMA CapitalStep ==
    ASSUME NEW rows, NEW D, IsFiniteSet(D)
    PROVE  CapitalOf(rows, D) =
             IF D = {} THEN 0
             ELSE rows[NextOf(D)].risk + CapitalOf(rows, D \ {NextOf(D)})
<1>1. PICK f : Adds(f, rows, D) /\ CapitalOf(rows, D) = f[D]
  BY CapitalByAdding
<1>2. f[D] = AddUp(rows, f, D)
  BY <1>1 DEF Adds
<1>3. CASE D = {}
  BY <1>1, <1>2, <1>3 DEF AddUp
<1>4. CASE D # {}
  <2> DEFINE E == D \ {NextOf(D)}
  <2>1. IsFiniteSet(E) /\ E \in SUBSET (D \cap E)
    BY <1>4, TakingNext
  <2>2. PICK g : Adds(g, rows, E) /\ CapitalOf(rows, E) = g[E]
    BY <2>1, CapitalByAdding
  <2>3. f[E] = g[E]
    <3> HIDE DEF E
    <3> QED
      BY <1>1, <2>1, <2>2, SumsAgree
  <2> QED
    BY <1>1, <1>2, <1>4, <2>2, <2>3 DEF AddUp
<1> QED
  BY <1>3, <1>4

\* The sum is a number, and any row can be taken out of it.
LEMMA CapitalWithout ==
    ASSUME NEW rows, NEW D, IsFiniteSet(D), \A k \in D : rows[k].risk \in Nat
    PROVE  /\ CapitalOf(rows, D) \in Nat
           /\ \A k \in D : CapitalOf(rows, D) = CapitalOf(rows, D \ {k}) + rows[k].risk
<1> DEFINE Good(s) == /\ CapitalOf(rows, s) \in Nat
                      /\ \A k \in s : CapitalOf(rows, s) = CapitalOf(rows, s \ {k}) + rows[k].risk
           Bad == {s \in SUBSET D : ~ Good(s)}
<1>1. ASSUME Bad # {}
      PROVE  FALSE
  <2>1. PICK s \in Bad : IsFiniteSet(s) /\ Cardinality(s) \in Nat
                         /\ \A t \in Bad : ~(Cardinality(t) < Cardinality(s))
    <3> HIDE DEF Bad
    <3>1. Bad \in SUBSET (SUBSET D)
      BY DEF Bad
    <3> QED
      BY <1>1, <3>1, SmallestPart
  <2>2. s \in SUBSET D /\ ~ Good(s)
    OBVIOUS
  <2>3. \A t \in SUBSET D : Cardinality(t) < Cardinality(s) => Good(t)
    BY <2>1
  <2>4. s # {}
    <3> SUFFICES ASSUME s = {} PROVE FALSE
      OBVIOUS
    <3>1. CapitalOf(rows, s) = 0
      BY <2>1, CapitalStep
    <3> QED
      BY <2>2, <3>1
  <2> HIDE DEF Good
  <2> DEFINE n == NextOf(s)
             t == s \ {n}
  <2>5. n \in s /\ t \in SUBSET D /\ IsFiniteSet(t) /\ Cardinality(t) < Cardinality(s) /\ rows[n].risk \in Nat
    <3>1. n \in s /\ IsFiniteSet(t) /\ Cardinality(t) = Cardinality(s) - 1
      BY <2>1, <2>4, TakingNext
    <3>2. s \subseteq D
      BY <2>2
    <3> HIDE DEF n
    <3>3. Cardinality(t) < Cardinality(s)
      BY <2>1, <3>1
    <3> QED
      BY <3>1, <3>2, <3>3
  <2>6. CapitalOf(rows, s) = rows[n].risk + CapitalOf(rows, t)
    BY <2>1, <2>4, CapitalStep
  <2>7. Good(t)
    BY <2>3, <2>5
  <2>8. CapitalOf(rows, t) \in Nat /\ CapitalOf(rows, s) \in Nat
    BY <2>5, <2>6, <2>7 DEF Good
  <2>9. ASSUME NEW k \in s
        PROVE  CapitalOf(rows, s) = CapitalOf(rows, s \ {k}) + rows[k].risk
    <3>1. CASE k = n
      BY <2>5, <2>6, <2>8, <3>1
    <3>2. CASE k # n
      <4> DEFINE u == s \ {k}
                 v == t \ {k}
      <4>1. /\ u \in SUBSET D /\ IsFiniteSet(u) /\ Cardinality(u) < Cardinality(s)
            /\ n \in u /\ k \in t /\ v = u \ {n} /\ rows[k].risk \in Nat /\ v \in SUBSET D
            /\ Cardinality(v) < Cardinality(s)
        <5>1. Cardinality(u) = Cardinality(s) - 1 /\ IsFiniteSet(u)
          BY <2>1, FS_RemoveElement
        <5>2. Cardinality(v) = Cardinality(t) - 1 /\ Cardinality(t) \in Nat
          BY <2>5, <3>2, FS_RemoveElement, FS_CardinalityType
        <5> QED
          BY <2>1, <2>2, <2>5, <3>2, <5>1, <5>2
      <4>2. Good(u) /\ Good(v)
        BY <2>3, <4>1
      <4>3. /\ CapitalOf(rows, t) = CapitalOf(rows, v) + rows[k].risk
            /\ CapitalOf(rows, u) = CapitalOf(rows, v) + rows[n].risk
            /\ CapitalOf(rows, v) \in Nat
        BY <2>7, <4>1, <4>2 DEF Good
      <4> HIDE DEF u, v, t, n
      <4>4. CapitalOf(rows, s) = CapitalOf(rows, u) + rows[k].risk
        BY <2>5, <2>6, <2>8, <4>1, <4>3
      <4> QED
        BY <4>4 DEF u
    <3> QED
      BY <3>1, <3>2
  <2> QED
    BY <2>2, <2>8, <2>9 DEF Good
<1>2. Good(D)
  BY <1>1
<1> QED
  BY <1>2

\* And a row more adds what it holds.
LEMMA CapitalWith ==
    ASSUME NEW rows, NEW D, IsFiniteSet(D), \A k \in D : rows[k].risk \in Nat,
           NEW x, x \notin D, rows[x].risk \in Nat
    PROVE  CapitalOf(rows, D \cup {x}) = CapitalOf(rows, D) + rows[x].risk
<1> DEFINE E == D \cup {x}
<1>1. IsFiniteSet(E) /\ x \in E /\ E \ {x} = D /\ \A k \in E : rows[k].risk \in Nat
  BY FS_AddElement
<1> HIDE DEF E
<1>2. CapitalOf(rows, E) = CapitalOf(rows, E \ {x}) + rows[x].risk
  BY <1>1, CapitalWithout
<1> QED
  BY <1>1, <1>2 DEF E

-----------------------------------------------------------------------------
(* The floor under the buying power. *)

\* Why the floor holds: from the judgement of an order until its row is written,
\* or lost, nothing else takes buying power.
PowerInv ==
    /\ LimitsTyped
    /\ routeStep = "accepted" \/ (routeStep = "judged" /\ failures = {})
         => ~ BuyingPowerFails(asked)
    /\ BuyingPowerFloorHolds

\* What the broker reserves are numbers, whatever rows it is for.
LEMMA Reserved ==
    ASSUME LimitsTyped
    PROVE  /\ IsFiniteSet(Active) /\ \A k \in Active : k \in Keys /\ book[k].risk \in Nat
           /\ IsFiniteSet(DOMAIN lostRows) /\ \A i \in DOMAIN lostRows : lostRows[i].risk \in Nat
           /\ CapitalOf(book, Active) \in Nat
           /\ CapitalOf(lostRows, DOMAIN lostRows) \in Nat
           /\ BuyingPower \in Int /\ FloorPct * Equity \in Nat
<1>1. IsFiniteSet(Active) /\ \A k \in Active : k \in Keys /\ book[k].risk \in Nat
  BY ActiveIsFinite DEF LimitsTyped, LimitsTypeOK, Active
<1>2. lostRows \in Seq([strategy : StrategyIds, risk : Nat])
  BY DEF LimitsTyped, LimitsTypeOK
<1>3. DOMAIN lostRows = 1 .. Len(lostRows) /\ Len(lostRows) \in Nat
  BY <1>2
<1>4. IsFiniteSet(DOMAIN lostRows)
  BY <1>3, FS_Interval
<1>5. \A i \in DOMAIN lostRows : lostRows[i].risk \in Nat
  <2> DEFINE Lost == [strategy : StrategyIds, risk : Nat]
  <2>1. \A i \in DOMAIN lostRows : lostRows[i] \in Lost
    <3> HIDE DEF Lost
    <3> QED
      BY <1>2, <1>3, ElementOfSeq DEF Lost
  <2> QED
    BY <2>1
<1>6. CapitalOf(book, Active) \in Nat /\ CapitalOf(lostRows, DOMAIN lostRows) \in Nat
  BY <1>1, <1>4, <1>5, CapitalWithout
<1>7. Equity \in Nat /\ FloorPct \in Nat
  BY LimitsAssumption
<1> QED
  BY <1>1, <1>4, <1>5, <1>6, <1>7 DEF BuyingPower

\* A judgement without failures has found buying power left for the order.
LEMMA PowerFound ==
    ASSUME NEW p, NEW c, Failures(p, c) = {}
    PROVE  ~ BuyingPowerFails(p)
<1>1. "buying_power_floor" \in Rules
  BY DEF Rules
<1>2. BuyingPowerFails(p) => "buying_power_floor" \in Failures(p, c)
  BY <1>1 DEF Failures
<1> QED
  BY <1>2

\* Where neither table changes, the buying power does not.
LEMMA SamePower ==
    ASSUME UNCHANGED <<book, lostRows>>
    PROVE  BuyingPower' = BuyingPower
BY DEF BuyingPower, Active

\* A row more takes what it puts at risk.
LEMMA ARowMore ==
    ASSUME LimitsTyped, NEW key \in Keys, key \notin Active, NEW risk \in Nat,
           book' = [book EXCEPT ![key] = [state |-> "PENDING", risk |-> risk]],
           UNCHANGED lostRows
    PROVE  BuyingPower' = BuyingPower - risk
<1>1. Active' = Active \cup {key}
  BY DEF Active, LimitsTyped, LimitsTypeOK
<1>2. book'[key].risk = risk /\ \A k \in Active : book'[k] = book[k]
  BY DEF LimitsTyped, LimitsTypeOK, Active
<1>3. IsFiniteSet(Active) /\ \A k \in Active : book'[k].risk \in Nat
  BY <1>2, Reserved
<1>5. CapitalOf(book', Active \cup {key}) = CapitalOf(book', Active) + book'[key].risk
  <2>1. PICK after : after = book'
    OBVIOUS
  <2>2. PICK A : A = Active
    OBVIOUS
  <2>3. /\ IsFiniteSet(A) /\ \A k \in A : after[k].risk \in Nat
        /\ key \notin A /\ after[key].risk \in Nat
    BY <1>2, <1>3, <2>1, <2>2
  <2>4. CapitalOf(after, A \cup {key}) = CapitalOf(after, A) + after[key].risk
    BY <2>3, CapitalWith
  <2> QED
    BY <2>1, <2>2, <2>4
<1>6. CapitalOf(book', Active) = CapitalOf(book, Active)
  <2>1. \A k \in Active : book'[k].risk = book[k].risk
    BY <1>2
  <2>2. PICK after, A : after = book' /\ A = Active
    OBVIOUS
  <2>3. IsFiniteSet(A) /\ \A k \in A : after[k].risk = book[k].risk
    BY <1>3, <2>1, <2>2
  <2>4. CapitalOf(after, A) = CapitalOf(book, A)
    BY <2>3, CapitalAgrees
  <2> QED
    BY <2>2, <2>4
<1>7. CapitalOf(book', Active') = CapitalOf(book, Active) + risk
  BY <1>1, <1>2, <1>5, <1>6
<1> QED
  BY <1>7, Reserved, LimitsAssumption DEF BuyingPower

\* So does a row that a crash kept from being written.
LEMMA ALossTakes ==
    ASSUME LimitsTyped, NEW lost \in [strategy : StrategyIds, risk : Nat],
           lostRows' = Append(lostRows, lost), UNCHANGED book
    PROVE  BuyingPower' = BuyingPower - lost.risk
<1> DEFINE i == Len(lostRows) + 1
           D == DOMAIN lostRows
<1>1. lostRows \in Seq([strategy : StrategyIds, risk : Nat])
  BY DEF LimitsTyped, LimitsTypeOK
<1>2. /\ DOMAIN lostRows' = D \cup {i} /\ i \notin D /\ lostRows'[i] = lost
      /\ \A k \in D : lostRows'[k] = lostRows[k]
  BY <1>1, ALossMore
<1>3. lost.risk \in Nat
  OBVIOUS
<1> HIDE DEF i
<1>4. IsFiniteSet(D) /\ \A k \in D : lostRows[k].risk \in Nat
  BY Reserved
<1> HIDE DEF D
<1>5. \A k \in D : lostRows'[k].risk = lostRows[k].risk /\ lostRows'[k].risk \in Nat
  BY <1>2, <1>4
<1>6. CapitalOf(lostRows', D \cup {i}) = CapitalOf(lostRows', D) + lostRows'[i].risk
  <2>1. PICK after : after = lostRows'
    OBVIOUS
  <2>2. /\ \A k \in D : after[k].risk \in Nat
        /\ i \notin D /\ after[i].risk \in Nat
    BY <1>2, <1>3, <1>5, <2>1 DEF D
  <2>3. CapitalOf(after, D \cup {i}) = CapitalOf(after, D) + after[i].risk
    BY <1>4, <2>2, CapitalWith
  <2> QED
    BY <2>1, <2>3
<1>7. CapitalOf(lostRows', D) = CapitalOf(lostRows, D)
  BY <1>4, <1>5, CapitalAgrees
<1>8. CapitalOf(lostRows', DOMAIN lostRows') = CapitalOf(lostRows, DOMAIN lostRows) + lost.risk
  BY <1>2, <1>6, <1>7 DEF D
<1>9. Active' = Active
  BY DEF Active
<1>10. BuyingPower' = Equity - CapitalOf(book, Active) - CapitalOf(lostRows', DOMAIN lostRows')
  BY <1>9 DEF BuyingPower
<1>11. PICK x \in Nat, y \in Nat : x = CapitalOf(book, Active) /\ y = CapitalOf(lostRows, DOMAIN lostRows)
  BY Reserved
<1>12. BuyingPower = Equity - x - y /\ Equity \in Nat
  BY <1>11, LimitsAssumption DEF BuyingPower
<1>13. BuyingPower' = Equity - x - (y + lost.risk)
  BY <1>8, <1>10, <1>11
<1> QED
  BY <1>3, <1>12, <1>13

\* A position that fills reserves what it did, and one that ends no longer.
LEMMA RowsRelease ==
    ASSUME LimitsTyped, RowMoves
    PROVE  BuyingPower' >= BuyingPower /\ BuyingPower' \in Int
<1>1. PICK k \in Active :
        \/ book' = [book EXCEPT ![k].state = "OPEN"]
        \/ \E s \in {"IDLE", "SPREAD_CLOSED"} : book' = [book EXCEPT ![k] = [state |-> s, risk |-> 0]]
  BY DEF RowMoves
<1>2. lostRows' = lostRows /\ k \in Keys /\ book[k].risk \in Nat
  BY Reserved DEF RowMoves
<1>3. CASE book' = [book EXCEPT ![k].state = "OPEN"]
  <2>1. Active' = Active /\ \A l \in Active : book'[l].risk = book[l].risk
    BY <1>2, <1>3 DEF Active, LimitsTyped, LimitsTypeOK
  <2>2. CapitalOf(book', Active') = CapitalOf(book, Active)
    BY <2>1, Reserved, CapitalAgrees
  <2> QED
    BY <1>2, <2>2, Reserved, LimitsAssumption DEF BuyingPower
<1>4. ASSUME NEW s \in {"IDLE", "SPREAD_CLOSED"},
             book' = [book EXCEPT ![k] = [state |-> s, risk |-> 0]]
      PROVE  BuyingPower' >= BuyingPower /\ BuyingPower' \in Int
  <2>1. Active' = Active \ {k} /\ \A l \in Active \ {k} : book'[l] = book[l]
    BY <1>2, <1>4 DEF Active, LimitsTyped, LimitsTypeOK
  <2>2. IsFiniteSet(Active \ {k})
    BY Reserved, FS_RemoveElement
  <2>3. CapitalOf(book', Active \ {k}) = CapitalOf(book, Active \ {k})
    BY <2>1, <2>2, CapitalAgrees
  <2>4. /\ CapitalOf(book, Active) = CapitalOf(book, Active \ {k}) + book[k].risk
        /\ CapitalOf(book, Active \ {k}) \in Nat
    BY <2>2, Reserved, CapitalWithout
  <2>5. CapitalOf(book', Active') = CapitalOf(book, Active \ {k})
    BY <2>1, <2>3
  <2> QED
    BY <1>2, <2>4, <2>5, Reserved, LimitsAssumption DEF BuyingPower
<1> QED
  BY <1>1, <1>3, <1>4

\* No step takes the buying power under the floor.
LEMMA StepFloor ==
    ASSUME PowerInv, [LimitsNext]_limitsVars
    PROVE  PowerInv'
<1> DEFINE floor == FloorPct * Equity
<1>1. LimitsTyped /\ LimitsTyped'
  BY LimitsStepTypes DEF PowerInv
<1>2. BuyingPower \in Int /\ floor \in Int /\ floor' = floor
  BY <1>1, Reserved
<1>3. 100 * BuyingPower >= floor
  BY DEF PowerInv, BuyingPowerFloorHolds
<1>4. ASSUME BuyingPower' >= BuyingPower, BuyingPower' \in Int, routeStep' = "idle"
      PROVE  PowerInv'
  <2>a. PICK before \in Int, after \in Int, f \in Int :
           before = BuyingPower /\ after = BuyingPower' /\ f = floor
    BY <1>2, <1>4
  <2>b. 100 * before >= f /\ after >= before
    BY <1>3, <1>4, <2>a
  <2>c. 100 * after >= f
    BY <2>b
  <2>1. 100 * BuyingPower' >= floor
    BY <2>a, <2>c
  <2> QED
    BY <1>1, <1>4, <2>1 DEF PowerInv, BuyingPowerFloorHolds, floor
<1>5. ASSUME BuyingPower' = BuyingPower,
             asked' = asked, routeStep' = "accepted" => routeStep = "judged" /\ failures = {},
             routeStep' # "judged"
      PROVE  PowerInv'
  <2>1. routeStep' = "accepted" => ~ BuyingPowerFails(asked)'
    BY <1>5 DEF PowerInv, BuyingPowerFails, IsClose
  <2> QED
    BY <1>1, <1>5, <2>1 DEF PowerInv, BuyingPowerFloorHolds
<1>6. ASSUME NEW p, NEW c, Judge(p, c)
      PROVE  PowerInv'
  <2>1. BuyingPower' = BuyingPower /\ asked' = p /\ routeStep' = "judged" /\ failures' = Failures(p, c)
    BY <1>6, SamePower DEF Judge
  <2>2. failures' = {} => ~ BuyingPowerFails(asked)'
    <3>1. failures' = {} => ~ BuyingPowerFails(p)
      BY <2>1, PowerFound
    <3> QED
      BY <2>1, <3>1 DEF BuyingPowerFails, IsClose
  <2> QED
    BY <1>1, <2>1, <2>2 DEF PowerInv, BuyingPowerFloorHolds
<1>7. CASE StrategyOpens \/ StrategyCloses \/ \E s \in StrategyIds : UnquotedCloses(s)
  BY <1>6, <1>7 DEF StrategyOpens, StrategyCloses, UnquotedCloses
<1>8. CASE Refuse \/ \E accepted \in BOOLEAN : Submit(accepted)
  <2>1. BuyingPower' = BuyingPower
    BY <1>8, SamePower DEF Refuse, Submit
  <2> QED
    BY <1>2, <1>4, <1>5, <1>8, <2>1 DEF Refuse, Submit
\* An order the broker took, whose row is about to be written or lost.
<1>9. ASSUME routeStep = "accepted", routeStep' = "idle",
             BuyingPower' = BuyingPower - asked.risk, ~ IsClose(asked)
      PROVE  PowerInv'
  <2>1. ~ (100 * BuyingPower < floor + 100 * asked.risk) /\ asked.risk \in Nat
    BY <1>1, <1>9 DEF PowerInv, BuyingPowerFails, LimitsTyped, ProposalType
  <2> HIDE DEF floor
  <2>2. 100 * BuyingPower' >= floor
    BY <1>2, <1>9, <2>1
  <2> QED
    BY <1>1, <1>9, <2>2 DEF PowerInv, BuyingPowerFloorHolds, floor
<1> DEFINE starts == RowOf(asked).state \in {"IDLE", "SPREAD_CLOSED"} /\ ~ IsClose(asked)
<1>10. CASE WriteRow
  <2>1. CASE ~ starts
    <3>1. BuyingPower' = BuyingPower
      BY <1>10, <2>1, SamePower DEF WriteRow
    <3> QED
      BY <1>2, <1>4, <1>10, <3>1 DEF WriteRow
  <2>2. CASE starts
    <3> DEFINE key == <<asked.symbol, asked.strategy>>
    <3>1. routeStep = "accepted" /\ asked \in ProposalType
      BY <1>1, <1>10 DEF WriteRow, LimitsTyped
    <3>2. key \in Keys /\ key \notin Active /\ asked.risk \in Nat
      BY <2>2, <3>1 DEF ProposalType, Keys, RowOf, Active
    <3>3. book' = [book EXCEPT ![key] = [state |-> "PENDING", risk |-> asked.risk]] /\ UNCHANGED lostRows
      BY <1>10, <2>2 DEF WriteRow
    <3>4. BuyingPower' = BuyingPower - asked.risk
      <4> HIDE DEF key
      <4> QED
        BY <1>1, <3>2, <3>3, ARowMore
    <3> QED
      BY <1>9, <1>10, <2>2, <3>4 DEF WriteRow
  <2> QED
    BY <2>1, <2>2
<1>11. CASE CrashBeforeRow
  <2>1. CASE ~ starts
    <3>1. BuyingPower' = BuyingPower
      BY <1>11, <2>1, SamePower DEF CrashBeforeRow
    <3> QED
      BY <1>2, <1>4, <1>11, <3>1 DEF CrashBeforeRow
  <2>2. CASE starts
    <3>1. asked \in ProposalType
      BY <1>1, <1>11 DEF CrashBeforeRow, LimitsTyped
    <3>2. PICK lost \in [strategy : StrategyIds, risk : Nat] :
            lost.risk = asked.risk /\ lostRows' = Append(lostRows, lost)
      BY <1>11, <2>2, <3>1 DEF CrashBeforeRow, ProposalType
    <3>3. BuyingPower' = BuyingPower - asked.risk
      BY <1>1, <1>11, <3>2, ALossTakes DEF CrashBeforeRow
    <3> QED
      BY <1>9, <1>11, <2>2, <3>3 DEF CrashBeforeRow
  <2> QED
    BY <2>1, <2>2
<1>12. CASE RowMoves
  <2>1. BuyingPower' >= BuyingPower /\ BuyingPower' \in Int /\ routeStep' = "idle"
    BY <1>1, <1>12, RowsRelease DEF RowMoves
  <2> QED
    BY <1>4, <2>1
<1>13. CASE UNCHANGED limitsVars
  <2>1. BuyingPower' = BuyingPower
    BY <1>13, SamePower DEF limitsVars
  <2> QED
    BY <1>1, <1>13, <2>1 DEF limitsVars, PowerInv, BuyingPowerFails, IsClose, BuyingPowerFloorHolds
<1> QED
  BY <1>7, <1>8, <1>10, <1>11, <1>12, <1>13 DEF LimitsNext

\* The floor of the buying power is left whatever is open at the broker, orders
\* whose rows a crash lost included, if it is a percentage.
THEOREM FloorIsKept ==
    ASSUME FloorPct <= 100
    PROVE  LimitsSpec => []BuyingPowerFloorHolds
<1>1. LimitsInit => PowerInv
  <2> SUFFICES ASSUME LimitsInit PROVE PowerInv
    OBVIOUS
  <2>1. LimitsTyped
    BY LimitsAssumption DEF LimitsInit, LimitsTypeOK, LimitsTyped
  <2>2. Active = {} /\ DOMAIN lostRows = {}
    BY DEF LimitsInit, Active
  <2>3. CapitalOf(book, {}) = 0 /\ CapitalOf(lostRows, {}) = 0
    BY CapitalStep, FS_EmptySet
  <2>4. BuyingPower = Equity
    BY <2>2, <2>3, LimitsAssumption DEF BuyingPower
  <2>5. 100 * Equity >= FloorPct * Equity
    BY LimitsAssumption
  <2> QED
    BY <2>1, <2>4, <2>5 DEF LimitsInit, PowerInv, BuyingPowerFloorHolds
<1>2. PowerInv /\ [LimitsNext]_limitsVars => PowerInv'
  BY StepFloor
<1>3. PowerInv => BuyingPowerFloorHolds
  BY DEF PowerInv
<1> QED
  BY <1>1, <1>2, <1>3, PTL DEF LimitsSpec
=============================================================================
