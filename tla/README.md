# Wheelbot: a TLA+ model of the trading bot

Wheelbot is one Python process that trades options strategies (wheels, vertical
spreads, iron condors, calendars, diagonals, long-call swings) through a broker's
API. It never sees an event: it polls. Each tick reads the broker's positions and
orders, compares them with a SQLite database, infers what happened, and places
new orders. Nearly everything that can go wrong is a matter of *when*: an order
that fills between two reads, a crash between two writes, a cancel that is
overtaken by a fill, a close that is proposed again on every tick. Around the loop
stand gates that other processes reach too (kill switch, breakers, risk limits,
budgets, watchlists) and services that must survive a death at any step
(migrations, backups, alerts, flags). This directory models the loop, the gates and
the services, and says what they guarantee, and under which conditions.

Commands (in this directory): `tlc -config wheel.cfg MCWheelBot`,
`tlc -config gates.cfg MCGates`, `tlc -config services.cfg MCServices`,
`tlapm Ledger_proofs.tla`.

## 1. Inventory

| Part | State it keeps | Operations | What makes it correct |
|---|---|---|---|
| Reconciler (`execution/reconciler.py`) | orders cursor (in memory) | read positions, read orders, process each order (status write, then dispatch), diff each row, parity audit, roll scan | no exposure is forgotten, fills are booked once, cycles end once with the right outcome, a human's row is left alone |
| Router (`execution/router.py`) | none | place, place package, replace a stale order, sweep stale entries | no doubled entry or close; every order at the broker has a row |
| Loop and entry point (`execution/loop.py`, `scripts/run_bot.py`) | failure counter | tick, propose and route per strategy, execute rolls, BROKER_DOWN | phases in order; closes and opens of one pass agree; a lasting outage takes every row out of the bot's hands |
| Kill switch (`execution/kill_switch.py`, `mcp_server/service.py`) | `daily_state` row, stop file | check, engage, release, prime a session | an automatic trip lasts for the day; a release is respected |
| Broker adapters (`platforms/`) | the account (paper) or none | place, cancel, positions, orders | status table total; refused cancels are visible |
| Repositories (`db/`) | SQLite tables | queries and single-row writes | uniqueness and cursor queries |
| Proposers (`strategies/`) | none | per state: open, close, wait | propose only from a state that allows it |
| 0DTE (`strategies/zero_dte.py`) | paper ledger | window, entry, flatten | at most N round trips a day; a flatten is missed only for a reason |
| Roll advisor (`strategies/roll_*.py`) | none | rule and model decide | disagreement goes to the operator |
| Risk limits (`risk/limits.py`) | none | pre-trade rules | caps hold over orders in flight; closes pass |
| Strategy breakers (`risk/auto_disable.py`, `win_rate_floor.py`, `expectancy_floor.py`) | `strategy_runtime_state` | check and apply, re-enable | a breach stops entries; a pause is not undone by another breaker; a disabled strategy comes back |
| Earnings recheck, manual flags (`risk/`) | flags in `positions` and the state log | flag, restore, stale alert | earnings inside a hold reach a human; a stale flag is brought up |
| Intelligence (`intelligence/`) | `llm_decisions` costs | budgeted calls | overshoot of the daily cap is bounded; models only hold back; a veto lasts its day |
| Watchlists (`intelligence/universe_refresh.py`) | `watchlists` runs | propose, apply, overlay | a refresh keeps enough symbols; one run is in force |
| Calendars, alerts (`data/`, `core/notify.py`) | `macro_events`, `alert_rate_limits` | refresh, rate-limited alert | a lasting condition is heard |
| Scripts (`scripts/`) | schema version, backups | migrate, back up, repair | no trading on a partial schema; a good backup survives |
| Dashboard, backtests | none | read | - |

How they interact. The loop calls the reconciler, then the kill switch's check,
then the post-tick pass, which sweeps, proposes and routes. The roll evaluator is
a callback of the reconciler that calls the router from *inside* the reconcile
pass. Reconciler, router and MCP server share the database; the MCP server is
another process and shares the stop file too. The broker changes state between
any two calls. Hard behaviours, at their lines, are the `hazards` of
`PROJECT.json`.

## 2. Modules

```
PositionStates      states, order types, statuses, the tables that relate them
  BotState          all variables, types, queries and writes of the database
    Brokerage       the market: fills, partial fills, expiry, assignment, nights
      Router        proposers, roll scan, submission in three writes, sweep
      Reconciler    the two reads, order processing, fills and cancels
        PositionDiff   inference from positions, parity audit
          WheelBot  the composed process (PositionDiff + Router), crash, Spec
            Safety     what must never happen  (refines PositionLife)
              Liveness   fairness and what must eventually happen
                MCWheelBot   instances for TLC
              BotTypes_proofs > Ledger_proofs > OperatorRows_proofs
                                              > Stages_proofs > Exposure_proofs

PositionLife        what the bot promises about positions (abstract)

TradingGate         what the kill switch promises (abstract)
KillSwitch          stop file, daily_state row, check, release    > KillSwitch_proofs
StrategyRuntime     three breakers over one strategy's row        \
RiskLimits          the rules of the pre-trade gate                |
ZeroDte             a day of same-day spreads                      > Gates_proofs
Watchlists          a strategy's weekly refresh and its approval   |
Intelligence        model calls, budget, votes, vetoes            /
  MCGates           the six above for TLC

AlertLimiter        one rate-limited alert
Migrations          pending migrations, statement by statement  \
Backup              a night's backup and pruning                /  > Services_proofs
Desk                failures, earnings recheck, flags, restore, flatten
  MCServices        the four above for TLC
```

`MCGates` and `MCServices` extend modules that share no state: `focus`, chosen in the
first state, makes each behaviour about one of them, so a run is the union of its
parts' state spaces and one `.cfg` states all their properties.

`WheelBot` has one symbol, several strategies. Strategies interact only through what they share
for a symbol (the position snapshot, `_has_inflight_order`, symbol-only flags),
so one symbol is the unit.

Correspondence with the code:

| Model | Code |
|---|---|
| `placed`, `atBroker`, `legs`, `stock` | the broker's orders, their status, live option legs by the order that opened them, lots of shares |
| `row[s]` | the `positions` row of strategy `s` (state, `current_cycle_id`, 100-share lots) |
| `local[o]` | the `orders` row of order `o` (status, `cycle_id`) |
| `cycle[o]` | the `wheel_cycles` row opened by the fill of order `o` |
| `phase` | where `ReconcilerLoop.tick` is; a change of phase is where the code awaits |
| `snapshot`, `answer`, `cursor` | the answers of `get_positions` and `get_orders_since`, `_orders_cursor` |
| `dispatching`, `wasStatus` | between the status write and `_dispatch_order_transition` |
| `runtime`, `passStep` | the `strategy_runtime_state` row; how far `_propose_and_route` has come with a strategy |
| `book`, `asked`, `lostRows` | position rows as the caps count them, the proposal in `OrderRouter.place`, the accepted orders whose row a crash prevented, in turn |
| `clock`, `spread`, `booked`, `closeRow` | the time of day, the 0DTE row and its cycles of the day, the latest `zero_dte_ledger` row, the `orders` row with the close's client id |
| `runs`, `base`, `review` | `watchlist_runs` with entries, what `run_universe_refresh` read, what `approve_watchlist` read |
| `spent`, `calls`, `votes`, `latest` | `total_cost_today`, calls between budget check and cost record, ensemble answers, the newest `regime_snapshots` row |
| `quiet`, `alerter` | what is left of a cooldown, each process inside `try_fire` or `send` |
| `schema`, `inTxn`, `saved` | statements in force, the connection's implicit transaction, what a rollback leaves |
| `row`, `knownLeg`, `flagLog`, `active` (`Desk`) | `positions.state`, whether `current_cycle_id` leads to a filled opening order with an expiration, the newest `state_log` entry into MANUAL_INTERVENTION, the rows as the recheck read them |
| `plan`, `routing` | proposals computed and not yet routed; the submission between its three writes |

Choices worth knowing:

* An order's number is its submission time, so "since the cursor" compares
  numbers. The five seconds of safety margin of the real lookback are not needed.
* Prices, deltas, days to expiry, risk rules, news and the entry window decide
  whether a proposal is made or dropped. Here any proposal a state allows may be
  made (`Propose`) and any may be dropped (`Drop`). `ClosesWithOpens` says whether
  a strategy's close and open may trigger in the same pass.
* `PositionLife` names a position by its entry order. `Safety` maps to it: a position
  is *entering* while its entry may still fill, *held* or *leaving* (a close is out)
  while its cycle is open, *over* after that; `contracts` are the broker's live legs
  and `handed` the rows in an operator state.
* REJECTED is CANCELLED: no handler tells them apart.
* A long call alone does not count as `HasShortCall`. This follows the Alpaca
  adapter, where the side of a leg is visible.
* A position row carries no more than one lot; option rows carry none.
* `DefaultStrategy` is the column default of `positions.strategy_id`. It matters
  where the code inserts a row without naming a strategy.
* The operator's own interventions on rows (restore, flatten) are steps of `Desk`
  and not of `WheelBot`, where a row in `MANUAL_INTERVENTION` stays there until one
  of its own orders fills. `Desk` in turn has the reconcile pass only as three
  outcomes for a row.
* In `Desk` the recheck and the watchdog see a row only through its cycle, as the
  code does: without one, or with one that tells no expiration, both pass it over. A
  flatten clears the cycle whether or not the broker closed the legs, and neither
  the flag the recheck writes over the row nor its restore brings it back; nor does
  the reconciler, which leaves a flagged row alone and finds nothing amiss in one
  whose leg is alive; its parity audit passes over active and flagged rows. (An idle
  row may be flagged by that audit, or for an unknown order; `Desk` leaves this out
  and `Reconciler` has it.) `EarningsRiskSurfaces` and `StaleFlagsComeUp` are
  therefore about rows that have their cycle, and `EveryFlagComesUp` (section 4) is
  not true.
* `StrategyRuntime` keeps time as ages and remaining days. A pass is split where the
  code awaits, so the MCP server, the re-enable script and the dashboard (whose
  overview deletes a row it found stale) act between a check's read and its write.
* `RiskLimits` judges a proposal under at most one adverse circumstance, because
  each rule looks at one of its own; the rules about capital and slots are always
  judged. All types of proposals are asked, the quoteless and strategy-less ones of
  the operator's tools included.
* `ZeroDte` writes the ledger with the proposal, as the code does, whatever the
  router makes of it; the figures feed the daily loss cap. The age of a pending close
  is not modelled: the router may find it fresh and leave it, or stale, and then
  cancels it before it submits another, which may fail. The broker may end a close at
  any moment. A cancel is final, and several closes of a symbol count as one.
* `Intelligence` keeps the estimate a call is admitted with (`len // 4` tokens of
  prompt and the maximum of output) apart from the price it books (the tokens the
  answer reports); no relation between the two is assumed. No majority means the
  rule acts alone, an answer of the majority that is no roll action is no decision,
  an `advisory` caution places like "proceed".
* `Migrations` has the transaction as Python's `sqlite3` opens it: before a statement
  that changes rows, and no other. `MCFiles` are shapes found under `db/migrations`.
* Definitions commented "Faulty variant" are not used by any action. Each is a
  plausible bug in the definition that follows it; substituting it must break the
  property that `PROJECT.json` pairs it with.

## 3. What is checked

Environment. An environment is a choice of constants: when the broker moves
(`BrokerMovesAt`), where the process dies (`CrashAt`, at most `MaxCrashes` times),
whether orders go stale, cancels are asynchronous, refused cancels raise, answers
get lost, orders end during the session, long calls reach their expiration. The
passing runs let the broker move in every phase but between the two reads, and
the process die in every phase but inside a dispatch or a submission. Those
exclusions, and the others below, are not conveniences: each is matched by a
counterexample (section 4).

| Run | Instance | Properties |
|---|---|---|
| `wheel` | one wheel, 4 orders, 1 crash; stale orders, slow cancels, rejections, lost answers, roll halts | `TypeOK`, `ExposureTracked`, `FillsAreBooked`, `ExpiredMeansExpired`, `EndedCyclesAreFinal`, `OperatorRowsRespected` |
| `strategies` | a wheel, call spread, condor, calendar, diagonal or swing trades the symbol, 4 orders, 1 crash; orders end with the day; the roll evaluator closes too | `ExposureTracked`, `NoOrphanCycle`, `OneCloseAtATime`, `EndedCyclesAreComplete`, `CallsCovered` |
| `shared` | a wheel and a put spread together, 3 orders, 1 crash | `ExposureTracked`, `ImplementsPositionLife` |
| `replace` | a condor, 4 orders; stale orders replaced, refused cancels swallowed, terminal answers | `OneEntryAtATime`, `NoDuplicateCycle` |
| `liveness` | a wheel that rolls or a diagonal, 3 orders, a crash between status write and dispatch | `PendingResolves`, `OrphansSurface` |
| `gates` | the six gates, one at a time (below) | see the table of gates |
| `services` | the four services, one at a time (below) | see the table of services |

The gates (`gates`, about 260,000 states; `GatesTypeOK` is their common type invariant):

| Gate | Instance | Properties |
|---|---|---|
| kill switch | releases between checks, the file also removed by hand, restarts | `RecordedTripHolds`, `HaltIsRecorded`, `CalmReleaseRespected`, `TradingResumes`, `ImplementsTradingGate` |
| breakers | two closed cycles remembered with P&L 2, -1 or -3 against -2 and -3, a window of one day, a reset after two | `LossesStopEntries`, `FloorsKeepEachOthersPause`, `DisableEnds` |
| limits | two symbols; two wheels, a spread and a diagonal, one slot each, two in all; equity 6, risks 2 or 4; one crash before a row | `CapsHold`, `BuyingPowerFloorHolds` |
| 0DTE | two underlyings over a day of five hours, one round trip each, debits and losses on both sides of every threshold; closes replaced, refused and ended by the broker at any step | `OneRoundTripPerDay`, `MissedFlattenIsExcused` |
| watchlists | one listed symbol, one discovered and one barred, two runs, one add and one drop each | `WholeRunsKeepTheFloor` |
| intelligence | three models with a quorum of two, two jobs; a cap of 3, estimates of 2 or 3, costs of 1 to 3 | `OvershootBounded`, `RerunKeepsVeto` |

The services (`services`, about 420,000 states; `ServicesTypeOK` is their common type invariant):

| Service | Instance | Properties |
|---|---|---|
| alerts | two processes, a cooldown of two hours, a webhook that comes and goes | `LastingTroubleIsHeard` |
| migrations | four files: all guarded, schema then rows, schema twice, with a failure or death at every statement | `TradesOnWholeSchema` |
| backup | two days kept, a death at every step, one run a day | `ABackupSurvives` |
| desk | a wheel row and a spread row, pauses after two failures, a recheck every second tick, both configured actions; rows with and without a cycle that tells the leg | `EarningsRiskSurfaces`, `StaleFlagsComeUp`, `OutagePausesRows` |

`strategies` uses `SoleTraderSpec`: the first strategy to propose is the only one
that trades from then on, so the run is the union of six single-strategy
instances.

Bounds. Four orders cover an entry, its replacement or re-entry, a close and the
close's replacement; a wheel gets as far as put, assignment, call, buyback. Three
orders cover the interactions of two strategies, since each needs one order of
its own and one of them a close. One crash is enough for each window because a
crash resets all process state: after it the system is a fresh process over the
same database, and a second crash only repeats the first from there. `aged`
jumps: a cycle is younger or older than `cycle_parity_min_age_days`, which is all
the audit asks. There is no bound on time, nights or ticks.

Fairness. `FairSpec` assumes that the loop keeps ticking (`run_forever` has no
exit, and the service manager restarts a dead process: WF on `TickStep`) and that
nights pass (SF on `DaysPass`, because a night needs the bot idle, which recurs).
Nothing is assumed of the market, of triggers or of submissions. For the kill
switch: ticks continue, and a release command that removed the file goes on to
clear the row. For the breakers: the pass over a strategy goes on (WF), and days pass
(SF, because a day passes between two passes). For the alerts: hours pass, and every
process evaluates its condition again (WF each). For the desk: ticks continue (WF on
`DeskStep`); nothing is assumed of the reconciler's findings, the operator or the
earnings provider. The desk's three liveness properties assume in their premises
that from some moment on no pass is cut short by a death or a raising lookup and
that the estimate, or the outage, lasts.

In the gates and services the bounds are the smallest at which each rule has both a
case that passes and one that fails: two closed cycles are the floors' minimum and
let one leave the window while the other stays; two symbols and two slots in all let
a cap be full by either count; a day of five hours has a tick before, in and after
each window; three models are the least with a majority that is not unanimous, and
all five callers can be in flight together; two processes are enough for a race
over a row, and two runs for one to supersede the other. Nights, ticks and days have no
bound: ages stop at the largest the code tells apart.

Deadlock is checked in every run.

## 4. What the code does not guarantee

Five runs are expected to fail, each on a statement of the repository itself.

| Run | Statement | What happens |
|---|---|---|
| `stale_snapshot` | a mismatch is flagged, never auto-corrected (reconciler docstring) | a put fills between `get_positions` and `get_orders_since`; the same pass dispatches the fill and then infers the put's expiration from the older positions |
| `crash_before_dispatch` | "bot crashes mid-order are recoverable" | the terminal status is committed before the dispatch; a crash in between and the fill is never dispatched |
| `duplicate_close` | duplicate protection "lives in the position-state gates" | after a rejected package close every tick mints a fresh id, and closes stack up |
| `torn_migration` | "Apply a migration atomically" | a schema statement ahead of the first row statement is committed as it runs; after a failure it stays, and every restart fails on it |
| `closes_gated` | "Closes must bypass entry-side risk gates (... concurrent caps)" | the caps exempt orders on an active row of the proposal's strategy, and `manual_close` names no strategy: closing another strategy's row is refused when slots are full |

Further configurations, kept beside them for the environments the passing runs
exclude, end in a counterexample as well:

| Configuration | Property | Environment |
|---|---|---|
| `pmcc_naked_call` | `CallsCovered` | a diagonal's long roll and short sale trigger in one pass; both are computed before either is routed, though `pmcc_close.py:23-26` says the long must wait for the short |
| `ks_removed_by_hand` | `LatchHolds` | a drawdown under a manual stop keeps the manual reason, and deleting the file resumes trading, against `kill_switch.py:125-127` |
| `crash_in_submission` | `OneEntryAtATime` | the process dies between the writes of a submission |
| `answered_filled` | `FillsAreBooked` | the submission is answered FILLED, so the row is never pending |
| `cancel_swallowed` | `ExpiredMeansExpired` | a refused cancel returns silently (paper, tastytrade) |
| `roll_race` | `ExposureTracked` | a roll's buyback and its new sale fill in the other order |
| `pmcc_long_expires` | `CallsCovered` | the long call reaches its expiration unrolled |
| `spread_call_assigned` | `CallsCovered` | a wheel and a call spread trade the symbol; overnight the wheel's put expires and the spread's short call is assigned, and any stock row, a short one too, reads as `SHARES_HELD` (`alpaca_broker.py:252`), so the wheel books an assignment and sells a call |
| `unknown_order` | `ExposureTracked` | an order without a local row, on a symbol with two rows |
| `swing_stranded` | `PendingResolves` | a swing's fill lost to a crash: no branch heals `SWING_PENDING` |
| `ks_release_race` | `CalmReleaseRespected` | a release between a check's read and its write |
| `ks_override` | `OperatorAlwaysHasTheOverride` | a release while the loss streak persists |
| `ks_manual_latched` | `ManualTripsAreNotLatched` | the row stays armed after a manual trip, and rolls read the row |

The gates and services have statements of their own that do not hold. To see one,
put it in the place of the properties of `gates.cfg` or `services.cfg` (as a PROPERTY
where it is a box over steps):

| Statement | Module | What the code or its docs say, and what happens |
|---|---|---|
| `PauseNeverAutoClears` | `StrategyRuntime` | `win_rate_floor.py:166-169` says a pause never recovers by itself; the drawdown breaker's recovery and a stale `disabled_until` delete the whole row, the pause with it |
| `FlattenFiresAtDeadline` | `ZeroDte` | `zero_dte.py:864-866` "Runs every tick regardless of gates [...], so the 15:00 flatten fires on the first tick at/after the deadline"; a tripped kill switch ends the tick before it |
| `MembershipNeverShrinksBelowFloor` | `Watchlists` | a job that dies between the run's row and its entries leaves a proposed run that can be approved |
| `OpenPositionsStayListed` | `Watchlists` | a position opened after the job read the protected symbols, or before a late approval, is dropped |
| `VetoEndsWithItsDay` | `Intelligence` | the bot reads the latest snapshot; on a day without one yesterday's veto goes on halving sizes |
| `CapIsNeverBreached` | `Intelligence` | `budget.py:135` "if running this call could breach the cap": calls in flight together each see the old total, and a call may cost more than it was estimated at |
| `OneFiringPerCooldown` | `AlertLimiter` | two processes both read the row before either writes it |
| `RestartsGoOn` | `Migrations` | "a deploy that ships a new migration self-heals"; after a torn migration each restart fails on the same statement |
| `ABackupSurvives` with `RunsAgain = TRUE` | `Backup` | a second run of the same day opens the day's good file for writing and may die over it |
| `ManualIsOneWay` | `Desk` | "the bot never auto-clears it"; an outage overwrites MANUAL_INTERVENTION with BROKER_DOWN |
| `FlagsAreOnRecord` | `Desk` | "put it back exactly where it was"; a death between the flag and its log entry leaves nothing to restore from |
| `EveryFlagComesUp` | `Desk` | `earnings_recheck.py:455-456` "a flag that silently disappears is worse than a nudge"; a row flattened between the recheck's read and its flag is flagged without a cycle, and the watchdog passes over it |
| `FlatMeansFlat` | `Desk` | flatten marks one row of the symbol IDLE, whichever the lookup returns, and also when a leg could not be closed |

Facts met on the way that no property is about: a strategy re-enabled by hand is
disabled again by the next check while the same closed cycles are in the window; the
dashboard's read-then-delete can drop a disable written in between; a row that went
IDLE can be overwritten BROKER_DOWN from the list read before, and restore refuses
BROKER_DOWN; the recheck's tick counter starts over with the process; closes are
subject to the liquidity rule, so an unquoted single-leg close is refused.

## 5. What is proved

TLAPS checks these for every set of strategies of every kind, every number of
orders, every environment and any number of crashes, and for the gates and services
for every value of their constants that their assumptions allow.

* **Types** (`BotTypes_proofs`). `BotTypeCorrect`: `Spec => []TypeOK`. The
  inductive invariant `TypeInv` adds a *shape*: what is being processed was
  submitted, an order is dispatched only in the processing phase, and a submission
  in progress is of a submitted order while its proposal is still in the plan.
* **Ledger** (`Ledger_proofs`). The invariant `Ledger` relates the three accounts
  of an order: broker, answer in hand, orders table. Filled is final at the
  broker; an answer saying FILLED or CANCELLED is true; a local FILLED is the
  broker's; a cycle exists only for a filled order; an order about to be
  dispatched has no cycle yet; a diagonal's pending row waits for an order that has
  opened none. From it follow
  `LedgerMatchesBroker` (nothing is recorded that did not happen),
  `OneCyclePerFill` (`NoDuplicateCycle`) and `EndedIsFinal`
  (`EndedCyclesAreFinal`). `NoDuplicateCycle` alone is not inductive: that a fill
  is dispatched once rests on the status write that precedes it, and for the
  diagonal also on the heal seeing only orders already FILLED locally.
* **Operator rows** (`OperatorRows_proofs`). `OperatorIsRespected`
  (`OperatorRowsRespected`): a row a human owns is moved only by the fill of one of
  its own orders. Needed on top of the ledger (`OperatorInv`): no proposal waits
  for a row a human owns, and a submission in progress is of the proposal at the
  head of the plan; so the pending state written last never lands on such a row.
* **Exposure** (`Stages_proofs`, `Exposure_proofs`). `BooksAreExact`: in an
  undisturbed environment `Spec => []ExactInv`, and from it `ExposureIsTracked`
  (`ExposureTracked`), `NoCycleIsOrphaned` (`NoOrphanCycle`), `OneCloseHolds`
  (`OneCloseAtATime`), `OneEntryHolds` (`OneEntryAtATime`), `FillsHaveEffect`
  (`FillsAreBooked`), `ExpiredIsExpired` (`ExpiredMeansExpired`) and
  `EndedIsComplete` (`EndedCyclesAreComplete`); and, if moreover no long call is held
  to its expiration and a wheel has its symbol to itself, `CallsAreCovered`
  (`CallsCovered`). See below.
* **Positions** (`Exposure_proofs`). `PositionsLive` (`ImplementsPositionLife`): in the
  same environment the bot refines `PositionLife`, so a strategy enters only when it
  has no position in progress and the operator none of its rows, the books end a
  position only when its contracts are gone, and contracts that an ended entry leaves
  are the operator's until an order of the strategy fills. `NoneIsForgotten` follows
  from the abstract specification alone, by its own invariant (`LifeInv`): at every
  moment, and not only after a pass, a strategy has one position in progress, and
  live contracts of an entry belong to such a position or the operator has the row.
* **Kill switch** (`KillSwitch_proofs`). `TypeCorrect`; `RollsRespectTheHalt`
  (`HaltIsRecorded`) and `RecordedTripsLatch` (`RecordedTripHolds`) for every
  interleaving; `CalmReleaseHolds` if releases do not land inside a check;
  `SwitchIsAGate`, the refinement of `TradingGate` (`ImplementsTradingGate`): the
  halt is the automatic cause on record, the gate is open after a check that found
  nothing, and by `RecordedTripsLatch` no check opens it over a halt;
  `AutomaticTripsLatch` (`LatchHolds`, the repository's own claim) if besides only
  a release removes the file. The two assumptions are the ones whose failure
  `ks_release_race` and `ks_removed_by_hand` show.

* **Breakers** (`Gates_proofs`, as the three that follow). `BreachesStopEntries`
  (`LossesStopEntries`): inductive with the strengthening that a breach in force has a
  `disabled_until` ahead of it, so every path that could soften the row (a warning, a
  recovery, a stale read of another process) either finds it still ahead or releases
  the breach. `FloorsKeepApart` (`FloorsKeepEachOthersPause`): a floor about to write
  has seen no pause of the other floor, and only an operator can have put one since.
* **Entries**. `CapsAreKept` (`CapsHold`): the proposal that was
  judged is still within the caps when its row is written, because orders are routed one
  at a time and no other row is written in between. `RoundTripsAreCounted` (`OneRoundTripPerDay`): an entry at the broker still
  has its round trip to spare. `FlattensAreMissedForAReason`
  (`MissedFlattenIsExcused`): an open spread that an able tick has visited past the
  flatten time has a close working, unless the close was lost since. What is needed
  (`RoundTripInv`) is that an orders row that says pending, which makes the router
  leave the symbol alone, stands for a close at the broker or for one that ended
  after the reconcile pass; then a tick that can route does restore a lost close.
  `FloorIsKept` (`BuyingPowerFloorHolds`), if the floor is a percentage: from the
  judgement of a proposal to the writing of its row nothing else takes buying power,
  so the broker accepts it over the floor it was judged on, and between the two what
  will be reserved is counted neither in a row nor lost (`PowerInv`).
  An order whose row a crash lost keeps its reservation, any number of them. The
  account is a sum over rows, and the facts needed about sums
  (that one exists for every finite set, does not depend on the order, and moves by
  what one row moves) are lemmas: each induction looks at a smallest number, or a
  smallest part of the set, for which the fact would fail.
* **Intelligence**. `OvershootIsBounded` (`OvershootBounded`):
  each call in flight was admitted when what was spent left room for its estimate, so
  what is spent, the least estimate and the full prices of the calls in flight stay
  together under the cap and the full price of every caller's call; the cost takes
  the place of that price, whatever the estimate was. This needs cardinalities of the
  set of calls and holds over midnight because the date only lowers what was spent.
  `VetoSurvivesReruns` (`RerunKeepsVeto`).
* **Watchlists**. `WholeRunsKeepFloor` (`WholeRunsKeepTheFloor`): a strategy whose
  runs complete never falls under the floor. The counting argument is in lemmas on
  cardinalities of the lists before and after a run.
* **Types of the gates and services**. `GatesTypes` (`GatesTypeOK`) and
  `ServicesTypes` (`ServicesTypeOK`), component by component.
* **Services** (`Services_proofs`). `WholeSchema` (`TradesOnWholeSchema`): a recorded
  migration is whole and what a rollback would leave is never more than is in force;
  `BackupsSurvive` (`ABackupSurvives`) if the script does not run twice on a day.

How the exposure theorems go. None of the seven properties is inductive, nor is
their conjunction with the ledger: whether a vanished leg may be concluded upon
depends on what the orders table still expects, and whether a close may be proposed
on what the row says, so the rows, the orders and the broker's account must be
described together. `ExactInv` does it in three parts. `Inv` is the types and the
ledger. `OrdersAgree` is eleven statements about single orders and the pass: how far
the database may lag behind the broker (`StatusInv`, `AnswersInv`), that fills are
booked to cycles of their own strategy (`TagsInv`), what a closing order closes and
what its fill has done (`ClosesInv`, `OneCloseInv`, `ExpiredInv`), that yesterday's
orders are heard of before anything is concluded from positions (`FreshInv`), that
what is planned is still what the row asks for (`PlanInv`), and that the snapshot,
being older than the orders, shows every leg the orders say is alive (`SnapInv`).
`StagesInv` says that each strategy's position is in one of eight stages (flat,
entering, holding, resting, selling, called, a spread's pending order that ended
with its day, and stuck with the operator). A stage says which orders are still
working, which carry legs and which cycle is open; and the row shows a state of that
stage, or belongs to the operator, or a submission in progress is about to write it.
`StageFrame` is the lemma every step uses: a step that does not touch a strategy's
own orders, cycles and row leaves it in its stage. The steps of the market, the
calendar and the router are in `Stages_proofs`, the reconcile pass (dispatch of
fills and cancels, inference from positions) in `Exposure_proofs`.

`Undisturbed`, the hypothesis of these theorems, speaks of the environment's
constants only: orders are not replaced when stale, the broker does not end day
orders inside the day, an answer to a submission arrives and says open, a close and
an open of one strategy do not trigger in the same pass, the advisor does not roll
(it closes or halts), nothing fills between the two reads of a pass, and the process
does not die between the writes of a submission or between a status and its
dispatch. Crashes elsewhere are allowed in any number, cancels may be synchronous or
not and refused in either way, and any number of strategies of every kind may share
the symbol. None of it can be
dropped: on the instance of `strategies`, allowing any one of these things makes TLC
find one of the seven properties violated (`Undisturbed` names it beside the
conjunct). `strategies` and `shared` run under all of them; `wheel` and `replace` show
which properties a wheel or a condor alone keeps under fewer.

The refinement goes by the same case analysis. The steps that only read, write a
status on its way to its dispatch or move the tick on leave every order as live as it
was (`LiveStays`), so they are stutters or flags (`QuietLives`). What is left is one
lemma for each kind of step that moves a position: the market (`MarketLives`), a
submission (`SubmitLives`), the dispatch of a fill (`FillLives`) or of a cancel
(`CancelLives`), and a conclusion from positions (`DiffLives`). Two of them rest on
facts that no single table shows: a fill books to the one cycle its stage waits for
(`FillExpected`), and a cancelled close leaves no other close of the position at work
(`OneCloseInv`).

`CallsAreCovered` needs more than the books, since neither the account's stock nor a
diagonal's long call appears in a stage. `CoverInv` adds to `ExactInv` that only the
strategies that trade the symbol submit or are planned (`OnlyTraders`), that a long
call that was bought is there until a close of it has traded (`LongsHeld`), and that
the account holds what a wheel takes it to hold (`StockFits`): nothing while a put of
it is sold or may be, one lot while a call is, and what its row says while none is.
The stages give the rest: a strategy has one call sold or working at most, and under a
diagonal's the cycle of its long call is open with no close of it under way. The two
further hypotheses are needed: `pmcc_long_expires` drops `~LongsExpire` and
`spread_call_assigned` drops `WheelTradesAlone`, and each loses the property.
`strategies` meets the second one behaviour by behaviour, as its strategies trade one
at a time.

The assumptions on constants are named where they are declared
(`StrategiesAssumption`, `MaxOrdersAssumption`, `BrokerAssumption`,
`RouterAssumption`, `CrashAssumption`, `KillSwitchAssumption`, and one in each gate
and service), are typing conditions and orders between thresholds, and are evaluated by
the runs of their modules.

Only model-checked: liveness (fairness and ENABLED are beyond the prover), and the
claims that are violated. Every other property of the runs is stated by a theorem. No
recursive operator is declared; the library's sums over sets, which `BuyingPower`
uses, are recursive functions.

## 6. Not modelled

* Amounts of money in the trading tick (premiums, cost basis, cycle P&L), quantities
  other than "some" and "all", order legs beyond presence. The gates count capital in
  units where a rule is about it.
* Contract selection, Greeks, signals, the roll rule's thresholds, scores, how the
  regime is computed: floating-point functions of market data that decide which
  proposal is made. Every model takes their results as free choices.
* The position-news sentry and the screener: they notify or rank and change no state
  the bot acts on. Fetching and parsing of calendars, news, quotes; sessions with
  brokers; notification texts and logging.
* The dashboard but for its one write, the queries of the MCP server, backtests,
  simulations and one-off repair scripts: nothing of them runs inside the loop's
  decisions.

## 7. Plan

Done: the trading tick, its refinement of the life of a position, the gates and the
services, with the proofs above. What is left:

1. The loss streak and cycle P&L, as functions against reference definitions.
