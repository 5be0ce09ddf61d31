# fx-system in TLA+

A verification project for `fx-system`, a trading system for foreign exchange
written in Rust: three strategies that learn by Monte Carlo episodes, a risk
pipeline every order passes, a replay engine, a forward-test runner, an event
bus with stores, and a FIX gateway. The modules here model its control: what
changes state, under which guard, in which order. Line numbers below refer to
files under `crates/`.

- `RiskRules`, `PeriodicLimits`: the rules of the risk pipeline, as operators.
- `BacktestEngine`: the replay loop. `BacktestEngineProofs` proves all of its safety properties,
  from lemmas about the risk rules that `RiskRulesProofs` has for both programs.
  `Projector`: the event-sourced book behind it.
- `ForwardRunner`: the forward-test loop. `ForwardRunnerProofs` proves its properties, and that it
  implements `TradingSession`.
- `KillSwitch`: the order mask shared by threads. `LpExecution`: the choice and the recalibration of
  liquidity providers. `OrderPathProofs` proves the types and the two invariants of the one, and all
  properties of the other.
- `Tier2Store`: the delta-encoded event store, with crashes.
- `EventBus`, `GapDetector`, `MarketData`: the market data path from the feed to the
  detector that halts trading. `EventPathProofs` proves the coding and all properties of the store,
  how a shutdown ends the path, that events arrive in order, and for which losses trading halts.
- `Fractions`, `QFunction`, `McEvaluator`, `DecisionPolicy`, `StrategyCore`, `ChangePoint`, `QState`,
  composed by `Learning`: how the strategies decide and learn. `LearningProofs` proves what the
  change point detector, strategies B and C and the files of the learned state promise.
- `FixSession`, `BacktestData`, `ForwardFeed`, `Monitoring`, `Telemetry`, `FeatureExtraction`, `Regime`,
  `ExecutionModels`, `EventTiers`, `CommandLine`, put beside each other by `Services`: the
  parts around the two engines. `ServicesProofs` proves a property of each of seven of
  them: sequence numbers, drawdowns, alerts, the store of tier 1, the results of a command, the models of
  the liquidity providers, the features and the regime.
- `FractionProofs`: the lemmas about numbers, fractions in lowest terms, their order and their sums that the
  two modules rest on.
- `MC*.tla`, `MC*.cfg`: small instances for TLC. `MCLearning`, `MCServices` and `MCBacktestEngine` also
  hold facts of functions, as assumptions that TLC evaluates over all small inputs.

Sections: 1 inventory, 2-9 the modules with their properties and findings, 10 runs
and bounds, 11 fairness, 12 proofs, 13 findings and observed behaviour, 14 what is not
modelled, 15 plan. A definition marked *Fault* is a plausible mistake in the definition
after it; each property is violated when the one replaces the other, which shows that
the property can tell.

## 1. Inventory

| Component | State it keeps | Operations | Interacts by | Hard because |
|---|---|---|---|---|
| `BacktestEngine` (backtest/src/engine.rs) | episodes, lifecycle, mask, regime, last tick; per batch: projector, limit tracker, gap detector | `run`, `run_from_stream`, `run_from_events`, `run_inner`'s phases | calls | five ways to close a position, each of which may be rejected; state that outlives a batch next to state that does not |
| `StateProjector` (events/src/projector.rs) | positions, aggregates, limit state, version, hash | `process_event`, `process_execution_for_strategy`, `update_limit_state`, `snapshot` | calls, snapshots that are cloned | copies that go stale within a tick |
| `HierarchicalRiskLimiter`, `PeriodicLimitTracker` (risk/src/limits.rs, engine.rs:374) | base of each period | `update`, `evaluate`, `passes_q_threshold` | calls | a halt that is recomputed and not remembered |
| `GlobalPositionChecker`, `DynamicRiskBarrier` (risk/src/global_position.rs, barrier.rs) | none | `validate_order`, `evaluate` | calls | lots against units |
| `LifecycleManager` (risk/src/lifecycle.rs) | alive, counters, rolling returns | `record_episode`, `validate_order`, `revive` | returns a command nobody executes | culling while a position is open |
| `KillSwitch` (risk/src/kill_switch.rs) | an atomic flag, a start, statistics, history | `record_tick`, `validate_order`, `trigger`, `reset`, `reset_stats`, `stats` | shared by threads: two atomics, four mutexes | races between them |
| `McEvaluator` (strategy/src/mc_eval.rs) | active episodes with their transitions | `start_episode`, `record_transition`, `end_episode(_and_update)` | calls, with assertions | must agree with the positions; returns are computed backwards |
| Policies (strategy/src/thompson_sampling.rs, policy.rs, bayesian_lr.rs) | posterior of each action, trade window, inflation | `decide`, `update`, `reset_*` | calls | incremental updates of an inverse; an inflation that comes and goes |
| Strategies A, B, C (strategy/src/strategy_*.rs) | an episode each | `decide`, `start_episode`, `end_episode` | calls | end their episode before the close is known |
| `ChangePointDetector` (strategy/src/change_point.rs) | a window of each feature, counters, a flag | `observe`, `observe_and_respond`, `decay_recent_changes`, resets | calls | a change of one feature leaves the others unobserved |
| Q-state (strategy/src/q_state.rs, engine.rs 502-561) | a file | `export_q_state`, `import_q_state` | files | three restores, none of them undone |
| `GapDetector` (events/src/gap_detector.rs) | last sequence number, halt | `process_market_event(_sync)`, `reset_halt` | events | out-of-order and lost events |
| `PartitionedEventBus` (events/src/bus.rs) | counters, four broadcast channels | `publish`, `recv`, `recv_from` | messages between tasks | numbers allocated and sent in two steps, lag, starvation |
| Stores (events/src/store/) | sled trees, memory, files | `store`, `load`, `replay`, `remove`, `archive_expired` | persistence | writes that are not a transaction, deltas |
| `ForwardTestRunner` (forward/src/runner.rs) | as the engine, and a latched halt | `run` | asynchronous loop | one snapshot for several orders |
| Feeds (forward/src/feed.rs, backtest/src/data.rs) | cursor, buffer, window | `connect`, `next_tick`, `disconnect`, `load_csv`, `StreamingCsvReader` | files, restarts | two readers of one file |
| `ExecutionGateway`, LP monitor and recalibration (execution/src/) | fill rates, safe mode, models of each LP | `simulate_execution`, `evaluate`, `check_completion` | calls | late reports, a switch within a recalibration |
| `FixSession` (gateway/src/fix.rs) | session state, sequence numbers | `connect`, `send_*`, `handle_incoming`, `logout`, `disconnect` | tasks, network | await between read and increment |
| `FeedManager`, `MarketGateway` (gateway/src/market.rs) | state, flag, task handle | `start`, `run`, `stop`, `shutdown` | tasks, network | a state that is overwritten |
| Features, regime (strategy/src/extractor.rs, regime.rs) | rolling windows, posterior | `process_*`, `extract`, `update` | calls | running sums, a model that fails |
| Alerts, tracker, reports (forward/src/alert.rs, tracker.rs, comparison.rs, report.rs) | debounce table, equity window | `evaluate_*`, `record_*`, `compare` | calls | suppression of what is worse; a window that forgets the peak |
| Observability (core/src/observability.rs; engine.rs, runner.rs) | counts of breaches, rolling statistics | `tick`, `evaluate` | calls | debounce by consecutive ticks |
| `fx-cli` (cli/src/) | files | `backtest`, `forward-test`, `validate` | files, a Python pipeline | a command that stops half way |

What makes each correct, in one line each:

- Engine: an entry is made only when every gate is open *now*; a position is closed
  by its maximum holding time whatever is halted; a hard halt lasts its period;
  episodes follow positions.
- Projector: a position is opened from flat or closed whole, so that its entry price and
  time are those of its only trade; totals are the sum of the positions.
- Kill switch: a mask lasts its duration; the statistics cover the history; no deadlock.
- Learning: the posterior is the least squares of the discounted returns; inflation ends;
  a change is a change of that feature; what is imported is what was exported.
- Stores: what is stored is what is loaded, in every order, after every crash.
- Bus: a subscriber receives a stream in order, or knows that it did not.
- Forward runner: as the engine, with orders of one tick judged one after the other.
- Feeds: a backtest and a forward test of one file see one market.
- FIX session: no sequence number is used twice by calls that do not overlap; every call ends.
- Liquidity providers: orders avoid the adversarial; safe mode is about the one in use and ends by what was seen of it.
- Features, market models, tracker: what is kept incrementally is what the history gives.
- Alerts: what persists is reported, and nothing that does not.
- Command line: a learned state is on disk only beside the results it comes from.

`PROJECT.json` lists the hazards of this code, each at its line, with the
properties that would catch it going wrong.

## 2. The engine: `RiskRules`, `Projector`, `BacktestEngine`

`RiskRules` holds what is a function of its arguments: `Evaluate` and
`PassesQThreshold` (limits.rs), `WithinGlobalLimit`, `PriorityRank`,
`LotDivisor` (global_position.rs), `UpdatePositionFromFill`, `MarkToMarket`
(projector.rs), `RecordEpisode` and `Revive` (lifecycle.rs).

`Projector` is the whole `StateProjector`: every event of the bus, in any order and with any time
stamp, as an operator from a snapshot to a snapshot, with staleness, version, hash and the
payload of a snapshot event. `MCBacktestEngine` folds it over all sequences of up to four of ten
events and compares the result with what the events say as a set (`SnapshotProjected`).

`BacktestEngine` is `run_inner`. One thread runs it, so that its steps need no
interleaving; they are separate actions because each may go several ways. `pc` is
the phase and `todo` the strategies its loop has still to visit:
| pc | Code | Actions |
|---|---|---|
| `ready` | 892-984, 1735-1753 | `MarketTick`, `UndecodableTick`, `EndOfData` |
| `weekend` | 939-982 | `CloseAllPositions`, `WeekendClosed` |
| `maxHold` | 1017-1079 | `CloseMaxHold`, `UpdateRegime` |
| `decide` | 1081-1174 | `GetStrategyDecision`, `DecisionsMade` |
| `execute` | 1176-1744 | `ExecuteClose`, `ExecuteNothing`, `KillSwitchMasked`, `HardLimit`, `Refused`, `Enter`, `TickDone` |
| `halt` | 1352-1410 | `CloseAllPositions`, `HaltClosed` |
| `endOfData` | 1753-1849, 737-780 | `CloseAtEnd`, `NextBatch`, `Finish` |

What is abstracted, and how:

- *Execution.* `simulate_execution` draws a fill or a rejection and a price: an order is
  filled whole, at `mid` plus a member of `Slippages`, or rejected, as `FillOutcomes` says.
- *Decisions.* A strategy picks any side the position limit of the snapshot allows, with any
  of `QValues`. Its own episode (`episode`) is modelled exactly: it ends on a timeout before
  the close is attempted, is synchronised with the position, and starts before the order.
- *Anomalies.* The kill switch and the gap detector may fire at any tick. The mask is timed by
  the wall clock, which ticks of a replay know nothing of, so an order may find it expired.
  `KillSwitch` models the switch itself.
- *Regime.* Unknown or not, at every tick, as an input.
- *Lifecycle.* Whether the Sharpe ratio and the regime PnL are below their floors is an input of
  `RecordEpisode`; episodes and bad windows are counted up to the values that matter.
- *Calendar.* Days of `DayTicks` ticks, weeks of seven days from a Monday, months of
  `MonthDays` days. The code takes the keys of day, ISO week and month in Helsinki time for
  the limits and for the weekend both, so one clock is enough.
- *Numbers.* Amounts are integers; `LotUnit` currency units are one unit of the global limit,
  and the code's quotients are products here.
- *Staleness* is zero in a replay (the projector is given the tick's own time), so
  the barrier's lot is the constant `BarrierLot`.

A batch ends at any length (`EndOfData` is always enabled after the first tick).
`NextBatch` forgets exactly what `run_inner` creates: projector, tracker, gap
detector. It keeps the episodes, the lifecycle and the mask.

### Properties

| Property | Says |
|---|---|
| `EpisodeMatchesPosition` | active Monte Carlo episodes are those of the open positions while a batch is replayed |
| `CulledIsFlat` | a culled strategy has no position, although its close command is dropped |
| `EntryGated` | at an entry no gate is shut, and the book itself, not the copy the entry was judged by, is within the hard limits |
| `HardHaltHolds` | while day, week and month last, a broken hard limit stays broken |
| `NoOverstay` | when closes are filled, no position is older than the maximum at the end of a tick |
| `FillsOpenOrClose` | a fill opens from flat or closes whole |
| `Termination` | the replay ends |
| `SnapshotProjected` (assumption) | totals are those of the positions, the version counts ticks and executions, the hash is the snapshot's own where the text before it says so |

### Runs

| Run | Instance | Shows |
|---|---|---|
| `backtest_strict` | A and B, lots above the limit, three ticks of a Friday and a Monday, every gate and rejection | the first four properties |
| `backtest_wide` | A and B, lots within the limit, every order filled, two batches of three ticks | `NoOverstay`, `FillsOpenOrClose`, `Termination` |
| `backtest_halt` | two positions, one rising while the other is closed at a loss | `HardHaltHolds` is violated: the halt is lifted within the week |

Bounds: `MaxTicks` ticks a batch, `MaxBatches` batches, two prices, two Q-values, one
slippage. Three ticks are enough to open, to lose and to be judged by the loss, and
to cross a weekend in between; two strategies are enough for every order of
closes and entries within a tick, and for a rank above zero. Limits are chosen so that
one losing trade breaks the daily MTM stage and two break a hard one.
Deadlock is checked in every run: the engine stops in `Finished` only.

`HardHaltHolds` holds in `backtest_strict` for a reason of its own: the global limit compares
lots with units (section 13), so that one strategy's position blocks every other entry and
there is no second position whose gain could lift the halt.

## 3. `KillSwitch`

Every call is a sequence of steps (`Program`), each of which one thread takes at once: an
atomic load, store or swap, the acquisition of a mutex, or what is done under one. `work[t]`
is what thread `t` has still to do. `activate_mask` is three steps (flag; `Instant::now()`;
start) because the start is read before its mutex is taken. Whether an
interval is anomalous is an input once `MinSamples` intervals are counted.

`kill_switch` lets one thread record ticks, validate orders, trigger and reset, as the engine and the
forward runner do, while a second reads and resets the statistics. The mask then lasts its
duration (`MaskHolds`), the statistics count what is in the history (`HistoryCounted`), and every
call returns (`CallsReturn`) under weak fairness of each thread: the operating system schedules a
thread that is not waiting for a mutex, and a mutex is held for a few steps.

`kill_switch_operator` moves `trigger` to another thread, as `kill_switch_signal_handler` does.
Then `MaskHolds` fails: `validate_order` finds an earlier mask expired, the operator
sets a new one, and `validate_order` takes the new one down.

Bounds: `MaxTime` instants, `MaxCalls` calls of a thread, a history of two. Two threads are enough for
every pair of calls to overlap.

`MaskHolds` and `HistoryCounted` are proved for any threads and calls (section 12), the
first when one thread makes the calls that set or lift the mask.

## 4. The forward runner: `PeriodicLimits`, `ForwardRunner`, `TradingSession`

`PeriodicLimits` holds what engine and runner share: the tracker of the losses of day, week
and month (`Roll`, `LimitsOf`) and the runner's `TradingHaltState` (`HaltActive`, `HaltFor`).

`ForwardRunner` is `ForwardTestRunner::run`. A tick that arrives (`Arrive`: kill switch, gap
detector, mark to market, limits; 347-401) goes one of five ways, each an action, in the
order the code asks: a latched halt (`HaltedTick`, 403-430), a mask, gap halt or empty
barrier (`SkippedTick`, 431-494), a broken hard limit (`BreachTick`, then
`ForceCloseOpenPositions`, 496-569), an unknown regime (`UnknownRegimeTick`, 590-659), or
trading (`TradingTick`). Then come Phase 1 and the copy of the book (`CloseMaxHold`,
663-720), the decisions on that copy (`Decide`, 722-786), their execution (`TriggerExit`,
`Nothing`, `Enter`, `EntryRejected`, 800-1117), and the end (`Shutdown`, `FeedFails`).

What is abstracted, and how:

- Orders are executed by falling sampled Q-value, and the samples are inputs: any order of the
  strategies in `todo`.
- `Close(S)` closes a set in one step. Between two closes nothing but the limits is looked
  at, and these depend on the sum only, so the order of closes tells nothing apart.
- Whether a strategy's Sharpe ratio or regime PnL is below its floor is an input as in the engine,
  with what the code forces: returns that are all zero have a ratio of zero, which is not bad.
- The daily MTM stage and the barrier's lot do not reduce the lots of this runner; the
  model has neither. Time stamps ascend, staleness is zero, the mask runs by the wall clock.
- The runner numbers the ticks itself (365-366), so the number `Arrive` gives the detector is
  the count of ticks. `lost` is what the feed did not deliver; no code reads it.

`TradingSession` says what any such loop should promise, in four actions: enter from
flat unless halted, leave whole, stop for a period, and let time pass. `ForwardRunner`
implements it under `holding <- OpenPositions, learning <- mc` (`KeepsSession`).

| Property | Says |
|---|---|
| `OwnPositionFresh` | the copy of the book is right about every strategy still to execute |
| `KeepsSession` | the runner implements `TradingSession`: entries from flat and not during a halt, closes that are whole, episodes with their positions, a halt neither shortened nor replaced |
| `SevereGapHalts` | a severe gap halts (violated in `forward_gap`, section 13) |

`EpisodeMatchesPosition` and `FillsOpenOrClose` are what `KeepsSession` says of the positions
and their episodes, in the runner's own terms.

The hard limits are evaluated once a tick, before Phase 1 (496-497). No property asks whether
a loss realised within a tick keeps the next strategy of that tick out: in this model, as
in the code, it does not.

## 5. The event store: `Tier2Store`

A payload is a sequence of bits, `ComputeDelta` and `ApplyDelta` work on it as the code does on
bytes; compression is lossless and left out. `Tier2Store` is one stream. `store` is an action
that fixes the entry (`Store`) and one per tree it writes, in the code's order, then `Flush`.
A `Crash` may come between any two: sled recovers a prefix of its log, so the writes before
the crash are there and the later ones are not. `remove` deletes header and data, or the
header alone when the process ends in between; the index entry stays, as in the code. After a
crash the writer goes on with the next event or stores the same event again.

`load` and `replay` are operators (`Load`, `Replay`, `ReplayFails`): the nearest base at or
before the event, and a walk over the index from there.

| Property | Says |
|---|---|
| `BaseHeals` | whatever has happened before, an event stored at once is read back if a whole event has been stored since the last fault; without faults: everything is read back |
| `Durable` | what can be read stays readable through every write, crash and removal of a later event |
| `ReplayAgrees` | load and replay, two walks in the code, find the same payload |
| `IndexBacked` | no crash leaves an index entry without data and header |

The hypotheses of these properties are facts a user of the store should know. A crash after
the payload is noted as the last one and before `store` returns makes a retry encode the event
against itself, and a crash between index and last payload makes the next delta be taken
against another payload than replay applies it to: both spoil the events up to the next base.
So does the removal of an event that later deltas rest on, and every replay that walks over
a removed event fails, since its index entry stays. When the first whole event is
interrupted before its base is noted, `load` of the deltas after it finds no base and returns
the delta in place of the payload. `design.md:412` asks that events be skipped by their id when they come
twice; the store does not look, `EventSubscriber` does.

## 6. The market data path: `EventBus`, `GapDetector`, `MarketData`

`EventBus` has streams with a counter each. `publish` is two steps, as in the code: the number
under the lock of the counters, the event after it (`TakeNumber`, `Send`). A channel of tokio
keeps the last `Capacity` events; `recv` and `recv_from` are one operator, `Poll`, on the
streams asked: they go through them in order up to the first event whose id is new, put a
receiver that lags at the oldest event kept, and return nothing for it.
`GapDetector` is the verdict of `detect_gap` on the distance of two events; whether an
interval stands out statistically is an input once there are `MinSamples` of them.

`MarketData` composes them with the gateway: `FeedManager` (`start`, `run`, `try_reconnect`,
`stop`) in the steps between its awaits, `MarketGateway::shutdown` in three steps from another
task, and two consumers, the detector's and one that listens to the gaps as well. The sources
have these parts and no program that joins them; the composition is the one of the diagram
in design.md section 2 (lines 34-47). The feed is external and may refuse or fail at every
call. `handle` is whether the task of `run` was registered with `set_connection_handle`:
then `shutdown` aborts it, at an await; otherwise whoever awaited `run` calls `stop`. `stop`
by a registered task would abort itself, and is not modelled.

| Property | Says |
|---|---|
| `QuietAfterShutdown` | at most the tick that was awaited is published after a request to shut down, though the state that announces it may be overwritten by `Connected` |
| `ShutdownReturns` | a manager that is shut down ends, a reconnection without a maximum of attempts included |
| `InOrder` | a consumer sees the gateway's events in the order of their numbers, over losses |
| `HaltsOnLoss` | the detector halts exactly when a severe number of events was lost in the channel before an event of a later time |

What `HaltsOnLoss` says of equal times is a limit of the detector: `detect_gap` returns before it
looks at the numbers when the time has not advanced, and the number is taken over all
the same, so such a loss is never noticed. `InOrder` needs one publisher a stream, which is
what the sources have; two may overtake each other between number and event. Ids of events
are fresh, so the ids a subscriber has seen skip nothing here.

## 7. The choice of a liquidity provider: `LpExecution`

Orders go to one liquidity provider (LP) at a time. `LpRiskMonitor` keeps an exponential average
of each one's fills and a count of its rejections in a row; `check_adversarial` judges the LP in use and
`switch_lp` goes on to the next that is not adversarial. `LpRecalibrationManager` is then in safe mode
until `check_completion` finds enough reports of the new LP, and either its errors small or the
time up. `ExecutionGateway` joins the two, and the module models the calls of the gateway:

| Action | Code |
|---|---|
| `SimulateExecution` | gateway.rs 229-305: the order, its record, the judgement in one call |
| `Process` | `process_fill`, `process_rejection`, 309-337 |
| `ProcessWithTimestamp` | `process_fill_with_prediction`, `process_rejection_with_timestamp`, 315-349: the manager hears of it too |
| `CheckLpSwitch`, `SwitchFrom` | 351-370, with lp_monitor.rs 104-175 and lp_recalibration.rs 129-157 |
| `CheckRecalibration` | 373-380 |
| `Pass` | the caller's timestamps |

What is abstracted: whether an order is filled is free, since the probability is that of a model
fed by everything before; an average is a whole number of `1 / Scale`, rounded up; counters stop
at the bound they are compared with; whether the two errors are below their thresholds is an
input, except that without a fill they are infinite. Reports come from LPs that orders
were sent to, in any order and as late as one likes.

| Property | Says |
|---|---|
| `SafeModeIsOfActive` | in safe mode the manager's target is the LP orders go to, also when a switch follows a switch |
| `AdversarialOnlyAsLastResort` | an adversarial LP is used only when all are |
| `LeftForGood` | an LP that was left stays adversarial and unused for ever |
| `CompletionEarned` | safe mode ends only after enough reports of the LP in use, made since it came into use |

`LeftForGood` is what a reader of `recovery_threshold` would not expect: only the LP in use is judged
(lp_monitor.rs:105), so the threshold can acquit no LP but the last one, and once every LP has
been adversarial the last stays in use for the rest of the process. The unit tests of
recovery put the first LP back with `set_active_lp`, which the gateway does not offer.

A second thing the model makes plain: `SimulateExecution` never tells the manager, and no program
in `src/` makes the calls that do, nor `check_recalibration`. In a replay or a forward test safe mode
does not end once an LP was switched, whatever the "at most 5 minutes" of README.md:1251 says;
and since nobody multiplies lots by `recalibration_lot_multiplier` it has no effect on orders,
though design.md:623 asks for a quarter of the lots.

## 8. Decisions and learning: the `Learning` family

| Module | Code | Models |
|---|---|---|
| `Fractions` | | exact fractions in place of floating point |
| `QFunction` | strategy/bayesian_lr.rs | the posterior of an action: `update` by Sherman-Morrison with its adaptive noise, prediction, variance, sampling, resets, inflation |
| `McEvaluator` | strategy/mc_eval.rs | transitions with their rewards, discounted returns, the updates of the Q-function |
| `DecisionPolicy` | strategy/thompson_sampling.rs, policy.rs | penalties, the consistency check, the choice with its tie rule, lots, hold degeneration and inflation |
| `StrategyCore` | strategy/strategy_a.rs, strategy_b.rs, strategy_c.rs | trigger, appended features, episode, `decide` |
| `ChangePoint` | strategy/change_point.rs | a window of each feature, the best split, the grace period, the response of the Q-function |
| `QState` | strategy/q_state.rs, backtest/engine.rs 502-561 | export, sanitizing, the file, import strategy by strategy |
| `Learning` | | the state machine over them |

The modules hold operators that take a record of the code's struct and return it after the call,
as the code's methods do. `Learning` has one action per operation and a variable `scenario`: a
behaviour interleaves the operations of one scenario (`episodes`, `decisions`, `detector`,
`strategies`, `state`), so that state spaces which have nothing to do with each other add up.

What is abstracted, and how:

- *Numbers* are exact fractions, so that an incremental algorithm can be compared with its definition
  without a tolerance. A root is compared by squares; the exponentials of a time decay and the
  logarithms of a Hoeffding bound are tables (`ExpMinus`, `LogCuts`).
- *Samples.* The values a posterior is sampled at are inputs (`RawValues`): three vectors in
  which the first action is best, two are equal, or holding is best.
- *Features* are two coordinates; the posterior is a matrix of two by two, all of whose entries are used.
- *Strategies.* What comes of an order is not the strategy's to know: the position it is shown
  at the next tick is any (`held`), so entries that were never filled, closes that failed and
  positions opened by nobody are all met.
- *Files.* The disk refuses or not; a file may come from another version, or with other strategies.
- *Numbers that are not finite* (`NotFinite`) are met where states are exported and imported: an observation
  whose return or feature is one goes into the model as it is (`UpdatesLost`, bayesian_lr.rs 84-113), and the
  file has zero in its place (q_state.rs 13-55).

| Property | Says |
|---|---|
| `RegressionExact` | after any episodes the weights of each action solve the regularised least squares problem of the discounted returns, with rewards taken from their definition |
| `GraceKept` | two changes of a feature are a grace period of its own observations apart |
| `RetrainingJustified` | the flag is up only after enough changes since it was cleared, and while not all have decayed |
| `EpisodesTracked` | after a decision a strategy has an episode only of a position, or of the entry just decided, and not one out of time |
| `LevelRecovers` | a policy that goes on deciding, and from some time on trades often enough, comes back to no inflation |
| `ImportRestores` | an import without an error brings each strategy back from its own state: exactly, but for a noise raised to the floor, where that was finite; with zeros for the numbers of `b` and the matrix that were not, which is another state than was exported |

`MCLearning` evaluates as assumptions: signals are shares (`SignalsAreShares`), each strategy appends
five features that do not depend on the side (`FeaturesAppended`), time is left exactly while an
episode need not end (`RemainingAgrees`), learning makes certain what was seen and leaves the other
actions alone (`LearningIsCertain`), resets forget what they say (`ResetForgets`), averages
are of the total (`RewardsAverage`), and a model that met a feature without a number comes back from a file
certain of zero, which no later observation changes (`LostMatrixNeverLearns`).

## 9. Around the engines: the `Services` family

| Part | Modules | Code | Operations |
|---|---|---|---|
| `fix` | `FixSession` | gateway/fix.rs | `connect`, every `send_*`, `logout`, `disconnect`, `handle_incoming`, by any tasks, in steps between awaits |
| `feed` | `BacktestData`, `ForwardFeed` | backtest/data.rs, engine.rs 737-860, stats.rs; forward/feed.rs, config.rs; gateway/fix.rs from 721 | the streaming reader with its window and batches, and the feed with restarts, on one file |
| `tracking` | `Monitoring`, `BacktestData` | forward/tracker.rs, runner.rs 1058-1121, backtest/stats.rs | fills, each recorded at once, and the equity reported at the end of a tick or not |
| `alerting` | `Monitoring` | forward/alert.rs | evaluation at any time |
| `telemetry` | `Telemetry`, `Monitoring` | engine.rs, runner.rs, core/observability.rs | ticks, decisions, metrics, anomalies |
| `regime` | `FeatureExtraction`, `Regime` | strategy/extractor.rs, features.rs, regime.rs; the callers in engine.rs and runner.rs | quotes, executions, a model that answers, fails or is missing |
| `execution` | `ExecutionModels` | execution/otc_model.rs, gateway.rs, risk/barrier.rs, forward/paper.rs | orders at any provider, with their outcomes |
| `tiers` | `EventTiers` | events/store/tier1.rs, tier3.rs, schema.rs, runtime.rs | concurrent calls in the writes they make, crashes |
| `command` | `CommandLine` | cli/main.rs, args.rs, config.rs, output.rs | a command stage by stage, with errors, a kill, and commands after it |

These share no state. `Services` has a variable `part`, and a behaviour is one of one part.

What is abstracted, and how:

- *FIX.* A step is what lies between two awaits or atomic operations. The counterparty answers a
  logon with anything, closes, or stays silent until the timeout; a message is a type and
  fields that are texts or numbers. Sends do not reach the wire, in the code as here.
- *Feeds.* A cell of a file parses or not, in every form of time stamp the code knows; an hour that the
  clocks repeat and one that they skip are among the times. The `u64` of nanoseconds overflows at `Word`.
- *Numbers* are fractions; `Root`, `LogReturn`, `ExpOf`, `PLogP` are constants of the modules, of which
  the instance keeps what is used (a root of nothing is nothing).
- *Draws* (last look, hidden liquidity, slippage) are inputs, of every outcome with a probability above zero.
- *The model of the regime* is external: its dimension fits or not, it answers or fails.
- *Tier 1* is two trees of sled: what is written is in memory at once, a crash keeps a prefix.
- *A command* may stop at any stage by an error or a kill; a file is truncated before it is written.

| Property | Says |
|---|---|
| `NumbersFresh` | a message whose number was loaded with the counter unmoved since does not repeat one sent the same way; messages that overlap may share a number, which is what the code does |
| `FixCallsReturn` | every call of the session returns, `connect` with a silent counterparty included |
| `FeedsAgree` | what a backtest streams and what a forward test is given, restarts included, are the same ticks in the same order, where the file loads whole; the one numbers them by their place in the file, the other from one, which differs by the ticks before the period |
| `DrawdownsAgree` | the drawdown of the tracker is the deepest fall of all it was told of, whatever its window; that of the summary, over the fills, may be deeper by what fell between two reports, and never is when each fill had one of its own; the parts of a breakdown add up |
| `PersistingReported` | a loss that persists is raised again after the interval, and nothing within it |
| `AlertsEarned` | a metric alerts exactly when it was at its level for as many ticks on end as the debounce asks |
| `FeaturesCurrent` | windows and running sums are those of the last quotes, executions those of the last interval, the posterior a distribution |
| `ModelsMatchHistory` | Beta counts, mean and variance of each provider are those of its own history |
| `StoreSurvives` | an event whose store has returned is loaded through crashes and the calls of others until its removal is asked for |
| `ExportFollowsResults` | a Q-state becomes whole only beside the whole results of the same run |

`MCServices` evaluates as assumptions what is a function and no state machine: the barrier tightens
with age, events and paper results of an order agree, rates are shares, an upcast settles, versions
and numbers grow without gaps, tier 3 keeps what it was given, strategy ids are read back,
a configuration that is written out loads the same, forward limits are below zero, an API feed
needs its key, health adds up, diagnostics and written results add up, batches merge in any
grouping, a comparison is sound, a report stops at the file that fails, kinds of alerts do not
hold each other back, drift is of its window, both programs tell the same of a decision, the
extractor reads what the last tick brought, and weights give a distribution.

## 10. Runs and bounds

| Run | Instance | Shows |
|---|---|---|
| `backtest_strict`, `backtest_wide`, `backtest_halt` | section 2 | |
| `kill_switch`, `kill_switch_operator` | section 3 | |
| `forward_runner` | A and B, lots above the global limit, five ticks at distances of a part of a day or a day, every gate and rejection, a feed that may fail | `OwnPositionFresh`, `KeepsSession` |
| `forward_gap` | three ticks lost in the feed | `SevereGapHalts` is violated |
| `tier2_store` | five events, a base at every third, payloads of lengths one and two, two faults | section 5 |
| `market_data` | four ticks of two times, a channel of one event, no maximum of attempts | section 6 |
| `lp_execution` | three LPs, averages in tenths, an alpha of a quarter, two rejections or a low rate to be adversarial, two reports and two units of time to recalibrate | section 7 |
| `learning` | two coordinates, three transitions in two episodes; windows of one to three values of two features, four observations; a trade window of two decisions; four ticks of B and C; two updates in all, with a return or a feature that is not finite or without, and any number of exports and imports | section 8 |
| `services` | per part: two tasks, three FIX calls; files of up to three rows and two periods, one of which begins inside the file, one restart, batches and windows of two; four fills and reports; four evaluations; three ticks of metrics; three quotes and one execution; three orders at two providers; three events of two numbers, two calls and two crashes; three runs of a command | section 9 |

Why these are enough. Five ticks of the forward runner open, lose, halt, end the day and
open again. Five events of the store are two bases with two deltas after the first and one
after the second; two faults are a crash and a crash of its retry, or a crash and a
removal; payloads of two lengths meet both halves of the coding. With room for one event in
the channel, four ticks give losses of one and of two, below and at the
threshold, and an event after them; two times are what detection needs, which
compares neighbours only. `MaxAttempts` is zero, the case in which only a shutdown ends a
reconnection; with a maximum the loop ends by itself, and `QuietOnceShutDown` (section 12)
holds for every maximum. Three LPs are a switch during the recalibration that an earlier
one began, and a last LP with nobody to switch to; alpha and thresholds are such that
either reason to be adversarial comes up without the other, and that the last LP recovers.

Two dimensions and three transitions of different directions give a posterior whose off-diagonal
entries matter, and two episodes a second one that starts from what the first has left; a step
with the same action before and after another is where a return is taken of the wrong step. Four observations fill
a window of three, find a change, pass its grace period of two and find the next. A file of three rows
has a row that is none between, before or after two that are, an hour skipped and an hour repeated.
Two tasks and three calls are a call within another and one after both. Three ticks of metrics are one more than
the debounce of two, and three quotes one more than the windows of two. Two events of one number and
one of another, with two calls at once, are every pair of writes that meet in the index.

Deadlock is checked where the code must go on (engine, kill switch, runner, liquidity providers). It
is not checked in `tier2_store`, where all events may be stored and the faults used up, in
`market_data`, where feed and tasks may have ended and nothing is left to receive, and in
`learning` and `services`, whose operations end at their bounds.

## 11. Fairness

- `BacktestEngine!FairSpec`: weak fairness of `Next`. The engine is a loop of one thread over a
  finite list, so it takes its next step as long as it has one.
- `KillSwitch`: weak fairness of each thread, see section 3.
- `MarketData!FairMarketSpec`: weak fairness of the manager's steps and of an abort. The runtime
  schedules a task that is ready, and a feed that is asked answers, with a tick, a lost
  connection or an error. A feed that stays silent would keep an unregistered task waiting
  for ever: `run` looks at the flag only between two ticks. Nothing is assumed of
  the consumers or of who shuts down.
- `FixSession`, in `Services!Spec`: weak fairness of the steps of each task (`Advances`). The
  runtime schedules a task that is ready, and the only waits for the counterparty are under a timeout,
  which is a step of the waiting task. Nothing is assumed of the counterparty.
- `LevelRecovers` assumes no fairness of the specification: that decisions go on, and that the
  policy trades often enough from some time on, are premises of the property.

## 12. Proofs

TLAPS proves these for every value of the constants, from the assumptions the modules name:
`SizesAssumption`, `LossesAssumption`, `CalendarAssumption`, `EngineAssumption`, `BatchAssumption`,
`RunnerAssumption` of the two programs; `KillSwitchAssumption`; `StoreAssumption`; `BusAssumption`,
`DetectorAssumption`, `MarketDataAssumption`, `MarketAssumption` (the gateway alone publishes on the
stream of the market); `LpAssumption`; `FixAssumption`; `AlertingAssumption`; `TierAssumption` (an
id is of one event); `FeedAssumption` (times are u64, and the reader's window is not empty);
`CommandAssumption` (the subcommands are those of the parser); `QAssumption`,
`RewardAssumption`, `CoreAssumption`, `PolicyAssumption`, `DetectorAssumption` of the learning.

| Theorem | Says | Argument |
|---|---|---|
| `BacktestEngineProofs!TypeCorrect` | `TypeOK` | the invariant `Inv` below |
| `BacktestEngineProofs!EpisodesMatch` | `EpisodeMatchesPosition` | `Inv` |
| `BacktestEngineProofs!CulledAreFlat` | `CulledIsFlat` | `Inv` |
| `BacktestEngineProofs!FillsOpenOrCloseAlways` | `FillsOpenOrClose` | `Inv`, and what each step does to the book |
| `BacktestEngineProofs!EntriesAreGated` | `EntryGated` | `GateInv` below |
| `BacktestEngineProofs!PositionsAreClosedInTime` | `NoOverstay`, when closes are filled | `HoldInv` below |
| `BacktestEngineProofs!HardHaltsHold` | `HardHaltHolds`, for limits as by default | `HaltInv` below |
| `ForwardRunnerProofs!RunnerTypeCorrect` | `TypeOK` | `Inv` of the runner, below |
| `ForwardRunnerProofs!RunnerEpisodesMatch` | `EpisodeMatchesPosition` | `Inv` |
| `ForwardRunnerProofs!OwnPositionStaysFresh` | `OwnPositionFresh` | `Inv` |
| `ForwardRunnerProofs!RunnerFills` | `FillsOpenOrClose` | `Inv`, and `OwnPositionFresh` at an entry |
| `ForwardRunnerProofs!RunnerKeepsSession` | `KeepsSession`: the runner implements `TradingSession` | one lemma per kind of step |
| `OrderPathProofs!KillSwitchTypeCorrect` | `TypeOK` | after `CountInv`, which bounds the history |
| `OrderPathProofs!HistoryIsCounted` | `HistoryCounted` | `CountInv` below |
| `OrderPathProofs!MaskIsHeld` | `MaskHolds`, when one thread sets and lifts the mask | `MaskInv` below |
| `EventPathProofs!DeltaRoundTrip` | applying the delta of two payloads to the first gives the second, whatever their lengths | by position: within and past the end of the first |
| `EventPathProofs!StoreTypeCorrect` | `TypeOK` | `TypeOK` and what a store in progress knows of its order |
| `EventPathProofs!IndexIsBacked` | `IndexBacked` | `IndexInv` below |
| `EventPathProofs!ReplayAlwaysAgrees` | `ReplayAgrees` | walks, below |
| `EventPathProofs!ReadableStaysReadable` | `Durable` | `Ahead` and walks |
| `EventPathProofs!BasesAlwaysHeal` | `BaseHeals` | `CalmInv` and walks |
| `EventPathProofs!QuietOnceShutDown` | `QuietAfterShutdown` | `Quiet` below |
| `EventPathProofs!ReceivedInOrder` | `InOrder` | `Channel` and `Handed` below |
| `EventPathProofs!HaltsForLosses` | `HaltsOnLoss` | `Channel` and `Handed` |
| `OrderPathProofs!LpTypeCorrect` | `LpTypeOK` | inductive as it stands |
| `OrderPathProofs!TargetFollowsSwitch` | `SafeModeIsOfActive` | `Agreement` below |
| `OrderPathProofs!LastResort` | `AdversarialOnlyAsLastResort` | `Agreement` |
| `OrderPathProofs!NeverReturns` | `LeftForGood` | `Agreement` |
| `OrderPathProofs!SafeModeIsEarned` | `CompletionEarned` | `Agreement` |
| `ServicesProofs!NumbersAreFresh` | `NumbersFresh` | `NumbersInv` below |
| `ServicesProofs!PersistingIsReported` | `PersistingReported`, for an interval that is not zero | `AlertingInv` below |
| `ServicesProofs!StoresSurvive` | `StoreSurvives` | `TierInv` below |
| `ServicesProofs!ExportsFollowResults` | `ExportFollowsResults` | `CommandInv` below |
| `ServicesProofs!ModelsAreTheHistory` | `ModelsMatchHistory`, for priors and slippages in lowest terms | `ExecutionInv` below |
| `ServicesProofs!FeaturesAreCurrent` | `FeaturesCurrent`, for quotes and functions as below | `RegimeInv` below |
| `ServicesProofs!DrawdownsAlwaysAgree` | `DrawdownsAgree`, for profits in lowest terms | `TrackingInv` below |
| `ServicesProofs!FeedsAlwaysAgree` | `FeedsAgree` | `FeedInv` below |
| `LearningProofs!RetrainingIsJustified` | `RetrainingJustified` | `RetrainInv` below |
| `LearningProofs!GraceIsKept` | `GraceKept` | `GraceInv` below |
| `LearningProofs!EpisodesAreTracked` | `EpisodesTracked`, when positions may be held | `EpisodeInv` below |
| `LearningProofs!ImportBringsBackTheExport` | `ImportRestores`, when the first variance is above the floor | `StateInv` below |
| `LearningProofs!RegressionIsExact` | `RegressionExact`, for equities, features and sizes in lowest terms | `RegressionInv` below |

Ten theorems have a hypothesis:

- `PositionsAreClosedInTime`: closes are not rejected, and `MaxHold > 0`. A close that is rejected is
  tried again at the next tick, so a position may be late by as many ticks as there are
  rejections; holding times are 30 seconds to 10 minutes by default.
- `HardHaltsHold`: the limits are at most zero, and the smallest lot that may be ordered exceeds the global
  limit. So it is by default: limits.rs 64-73 has negative limits, and a quarter of 100000 units is
  more than the limit of 10. The run `backtest_halt` shows the halt lifted when it is not so.
- `PersistingIsReported`: the interval is not zero. With zero every evaluation of a loss raises an alert, and two at
  one time are within no interval; the sources pass 100 ms, 1 s or 10 s.
- `MaskIsHeld`: one thread sets and lifts the mask (`kill_switch_operator` shows that it is needed).
- `EpisodesAreTracked`: `MaxHoldB` and `MaxHoldC` are not zero. An episode of a strategy that may hold for
  no time is over as it begins; the defaults are 5 and 10 minutes.
- `ImportBringsBackTheExport`: the variance a model starts with is not below the floor an update leaves,
  0.01 and 1e-10 in the sources. A model that was never updated would otherwise come back with the floor.
- `ModelsAreTheHistory`, `DrawdownsAlwaysAgree`: the priors, slippages and profits are in lowest terms, as all results of the
  operations on fractions are; the same number in two forms would be unequal to itself.
- `RegressionIsExact`: equities and features are in lowest terms, lots and variances fractions (`EpisodeFitting`).
- `FeaturesAreCurrent`: the quotes and fills are records of fractions in lowest terms with natural times
  (`MarketFitting`), and the functions the model leaves abstract answer what the code relies on
  (`MathFitting`): a root, a logarithm of two prices and an exponential of a number are numbers, no exponential is
  negative and that of zero is positive (softmax subtracts the greatest score, regime.rs), and an
  inference that succeeds answers weights not all zero.

*Risk rules.* `RiskRulesProofs` holds the lemmas engine and runner share: what a fill makes of a
position (`FillType`, `FullCloseIsFlat`, `FillOpens`), that an entry passes only with room below the
limit (`PassingNeedsLimit`, `NoRoomBeyondLimit`) and with no hard limit broken (`BreachHalts`).

*Engine.* `EpisodeMatchesPosition` and `CulledIsFlat` hold only while a batch is replayed, and the
phases between batches must restore them. `Inv` is `TypeOK`, both properties under
`Replaying`, what the closes at the end of a batch guarantee to the next one
(`EndClosesEpisodes`), and that a stream of batches decodes (`StreamsDecode`, from
`BatchAssumption`). There is one lemma per action, and lemmas for fills and closes
(`FillStep`, `CloseStep`, `CloseAndEnd`) that the five kinds of close share.

An entry is judged by copies made earlier in the tick: who was asked, whether the
market was known, the limits after the last close. `GateInv` says that these copies are true until they
are used: the limits are those of the book and of the periods of this tick from Phase 1 on,
closes within the tick included, and nobody has been asked in a gap halt or an unknown regime.
`HoldInv` says which positions may be overdue in each phase: none but those Phase 1 has still to visit, which
are open, enabled, and have a time they were opened at; a position is never opened at time zero, since the
clock has started, and zero is what the code takes for no position. `HaltInv` says that one position at most is open and is
beyond the global limit, so that no second one can gain while a limit is broken; that a broken limit finds no position
left, so the realised total cannot change; and that the limits agree with that total except within the
loop over a weekend, where closes are counted after the last.

*Forward runner.* Decisions are taken from a copy of the book and executed one after the other.
`Inv` is `TypeOK`, `EpisodeMatchesPosition`, `OwnPositionFresh` and what they rest on: the copy is the book until
the first decision is executed (`CopyFresh`), whoever is still to execute has decided
(`TodoDecided`), no halt is on while a tick is worked on (`Unhalted`), and positions are closed by force only for a
broken limit (`Breached`). The refinement maps each kind of step to one action of
`TradingSession` or to a stutter: ticks (`TickRefines`), closes (`CloseRefines`), the forced
close with its halt (`BreachRefines`) and entries (`EnterRefines`), for which `Unhalted` gives the guard
and `OwnPositionFresh` that the entry is from flat.

*Kill switch.* Between the two steps of a reset the statistics count less than the history holds, and
other threads record and reset meanwhile. `CountInv` adds `ResetOrdered`, what is left of each
call: the clearing of the history comes after every clearing of the statistics, and a call that has
a history to clear consists of steps of a reset only, so that nothing ends it early. With that, a
thread is in the middle of a reset until it clears the history itself. For `MaskHolds` a thread
that is about to take the mask down must know that the mask is over. It has looked before and the
flag may have gone up since, unless it is the only thread that does both: `MaskInv(r)` says of the
one thread `r` that what is left of its call has these steps in their order (`Chained`), that when
one of them is next its condition still holds (`Ready`), and that the others have steps about
the statistics only.

*Store.* That index entries have data and header is no invariant, since a removal breaks it and
the index stays. `IndexInv` says it of the entries whose header has not been removed and
adds what each stage of `store` has written already; the action property follows from it step by step.

`Load` and `Replay` are recursive functions over the numbers of events. Lemmas give such a
walk its existence, its uniqueness and its value from the nearest base (`WalkExists`, `WalkUnique`,
`WalkFromBase`), by induction over the numbers (`IntervalInduction`). `ReplayAgrees` then needs that each
base, and so each place a load may start at, is in the index (`Indexed`). `Durable` needs that a write
is of a number above all stored ones (`Ahead`), so that all a load reads is kept (`Kept`).
`BaseHeals` needs the most: `CalmInv` follows the events stored since the last fault. They are in all trees, whole with a base
or as a delta on the one before (`CalmStored`); nothing else is in the index from the first of them on but
the event at hand (`CalmAlone`); the payload noted last is the last one's (`LastNoted`); and what a store in
progress has encoded and written agrees with both (`Underway`). TLC checked `CalmInv` on the instance of
`tier2_store` before it was proved. A walk from a base among these events then decodes each to its payload (`CalmWalk`).

*Market data.* `late <= 1` is not inductive: a manager about to receive may still take its tick.
`Quiet` says that before a request no tick is late, and that after one the manager which has
taken one is past receiving and finds the flag set when it comes back to it.
For `InOrder` and `HaltsOnLoss`, `Channel` says that the i-th event of the market has the number i, and that the
counter is one ahead exactly between number and event of the gateway, an abort there included; `Handed`, that the detector
holds the number of the event it was handed last and its receiver stands beyond it. So the
distance of two numbers the detector compares is what was lost in between, and no event is taken
for one that was seen.

*Liquidity providers.* `Agreement` is the two invariants with `ObservationsReported`: in safe mode what
has been observed was reported of the LP in use since the last switch. That the target is the
LP in use makes a report count as one, and a switch starts both counts from nothing. For
`AdversarialOnlyAsLastResort` one needs that the round `switch_lp` makes, `(old + i) % N`, visits every other LP
and not the active one (`NthAll`, `NthOther`), for any `N`.

*FIX session.* A number that has been used says nothing of one that is about to be, unless the
counter is between them: `NumbersInv` says that a number not raced is the counter itself and that
every number counted is below it. What is left to show is that a counterparty can set the
counter to a number only, for which the lemmas follow a field from the message to `Read`.

*Alerts.* The code compares a loss with its threshold as numbers, the model as fractions in lowest
terms: the greatest common divisor, a recursive function, exists and divides both numbers (`GcdExists`,
`GcdDivides`), so that reducing keeps the value (`FracIs`) and the comparison is that of the numbers (`FracBelow`).
`AlertingInv` adds to the property that the evaluator holds the time of the last alert raised
(`LastReported`): the property looks back over all evaluations, the evaluator at that one time only.

*Tier 1.* What is on disk after a crash is a fold of writes over what was flushed, for any prefix of the rest.
`TierInv` says of every prefix that the trees are `Sound`: an index entry has its event unless its
removal was asked for, and what was stored has its event and an entry of its number. What is left to write
of each call says what it has done (`Underway`), so that a call returns only when its writes are in memory, and
a `flush` makes the whole of them the new base. Writes of calls at once are in any order, and an index entry may be
overwritten by another event of its number, so only an entry of the number is kept. The order of a
replay is by the number of events that precede (`Ordered`): that it has all its elements is
`OrderedHas`, by cardinalities.

*Commands.* `CommandInv` is about what is left of a job: in it, a result that is created is written
later, and the export comes after all results (`InOrder`); a job that will still export has its results on
disk whole, or still to write (`Accounted`). An error or a kill leaves files and shortens nothing; a
stage that goes wrong ends the job, so that its export never happens.

*Fractions.* `FractionProofs` shows that `Gcd` of multiples is the multiple of the `Gcd` (`GcdTimes`), so that two fractions
are identical in lowest terms exactly when they are equal as numbers (`FracSame`). From there a fraction is brought
to a denominator it shares with others (`OneDenominator`), and every law is one of integers: the sums
commute and associate, products distribute, a division is undone by a product (`OverTimes`), the order is total and a difference
keeps it. `SumFrac` is a recursive function; `SumMore` and `SumTail` say what it does at both ends.

*Liquidity models.* `ExecutionInv` says of each LP that its counts are those of its requests in the history and that its
mean and variance are `MomentsOf` its slippages: the mean times their number is their sum, and the variance times
their number the sum of the squares less the mean times the sum. Welford's step keeps both
(`RunningMean`, `TwoDistances`); that the sum of squared distances from the mean is the same number is `SumOfSquares`.

*Features and regime.* `RegimeInv` says that each window is the last of the quotes, with the running sums those of its
values: the value that leaves is subtracted again (`SumsLess`), which is exact on fractions; that the
executions kept are a suffix of the history, the longest with times from the cutoff on (`SuffixMore`, `PruneFits`: the code prunes from the front
only, which is enough because times are in order); and that the posterior sums to one after a prior, an answer or a
softmax (`SharesAddUp`, `SoftmaxSum`).

*Drawdowns.* `Fallen` says of a sequence what its greatest value and its deepest fall are, and one value more
takes one step of the code to keep (`FallenMore`); the fall is then the one the property chooses, since the order tells
fractions apart (`OrderSame`). `TrackingInv` says it of the reported equities for the tracker and of those after each fill for
the summary; `MarksFit`, that a report has the equity after the fills before it, and that reports are in the order
of these. When each fill had a report of its own, the two equities of the summary's fall were reported, in
this order (`AloneIs`), so that the fall is one the tracker compared (`NotDeeper`). The walk of the summary is a
recursive function over all fills, so that it has to be shown not to change at earlier ones (`EquityKept`).

*Feeds.* A file loads in one way or not at all (`LoadedOnce`), and where it loads the reader and the stream are as far as the
ticks that were numbered: `ReadSoFar` says that what was handed to the engine, in batches or about to be,
is what the first of them become (`HandedOf`, `FirstOf`), that the rows left and the time to be
exceeded are those behind it, and the window the last ticks up to it (`WindowMore`). `DeliveredSoFar` says that the ticks the recorded feed gave
and those it has left are together the ticks selected, which are those of the period's events (`SelectedIs`). The file is in order of
time (`LoadedInOrder`), so that the ticks before the period are its first (`BeforeCounted`) and the events of the
period are numbered on from them (`FedNumbers`), where the runner counts from one. What is taken of a
beginning begins what is taken of the whole (`TakenFirst`), which makes both a beginning of the same ticks. Where the file does
not load, `InTime` still has the events in order and none later than the last tick read. `FeedInv` is all of it.

*Learning.* `RetrainInv`: the changes that have not decayed are some of those since the flag was cleared, and the
flag needs both. `GraceInv`: within a grace period the detector has counted the observations the history has, and
outside it at least a grace period of them is over; a detection of one feature leaves the features behind it unobserved, and the
history with them (`PushedMeans`). `EpisodeInv`: an episode in strategies B and C is of the position held, or of
this decision's order, and not out of time; `Tracked` follows it through the four stages of
`decide` (settling, synchronising, idling, the order). `StateInv`: all models are `Learnt` (of the dimension, and while all numbers are finite with weights that solve and a variance not below the
floor), those held, those exported and those in a file; a file is what was exported or is refused at
some strategy. A model that is restored solves for its weights again,
and gets the same ones where it was finite (`RestoredStored`).

*Regression.* Fractions in lowest terms are a commutative ring (`Ring`), vectors of them have a bilinear product
(`DotAlong`). `Inverts` says that a matrix is the inverse of a linear map that is nowhere negative: `Gram`, the
regularisation and the completed episodes. An observation adds one term to the map and one of Sherman and Morrison to
the matrix; they cancel (`Cancels`, `InvertsMore`), and the number divided by is at least one, since the map is not negative
(`Gained`). `Fits` adds that `b` is the sum of the returns and the weights their product, so that the weights solve the problem
(`FitSolves`). `RegressionInv` says it of every action, and of the buffer that its rewards are those of the
definition, its peak the greatest equity before the next step (`BufferFits`). At the end of an episode the
returns from the last reward back are the discounted sums from each step on (`ReturnOfIs`, `ReturnsMatch`), and each update
in order takes the problem one step further (`SolvesMore`, `EpisodeSolved`), as the sums over the episodes go (`GramEnded`).

`Gcd`, sums, the walks of the store and the fold of writes are recursive functions. The library's induction
theorems take an operator as a parameter and cannot be used; induction is by the least number of a set
(`LeastNumber`, from `NatLessThanWellFounded` and `WFMin`) and its consequence `IntervalInduction`, which takes a set.

Only model-checked, among the safety properties:

- `AlertsEarned`: folds over the thresholds and over the decisions of a tick.

The assumptions of `MCLearning`, `MCServices` and `Projector` are evaluated by TLC over small inputs.
Liveness (`Termination`, `CallsReturn`, `ShutdownReturns`, `LevelRecovers`, `FixCallsReturn`) is beyond
the prover, which knows neither fairness nor ENABLED.

## 13. Findings and observed behaviour

A run that expects a violation checks what a comment or the design says of the code:

1. *A halt of the engine is not latched* (`backtest_halt`; engine.rs:406, limits.rs:53). A
   weekly, daily or monthly halt is recomputed at every update: with positions held
   together it is lifted by a later gain.
2. *An operator's trigger may be undone* (`kill_switch_operator`; kill_switch.rs:308). An order
   check that found an earlier mask expired takes the new one down.
3. *The gap halt of the forward runner cannot be reached* (`forward_gap`; runner.rs:365, design.md:427):
   the detector is given numbers without gaps. The halt works where the caller's
   numbers are kept, as in `run_from_events` of the engine.

The rest was met while modelling and is in the model as it is in the code. A reader of the code should know it:

- *Engine.* The global limit compares lots with units (global_position.rs:124, the comment at 95), so
  that with the default sizes one strategy's position blocks every other entry. Positions that could not be
  closed at the end of a batch, and the losses of the day, are forgotten by the next (engine.rs:855, the
  comment at 738). The profit of a closing fill enters no reward (2472). A strategy's timeout ends
  its episode though the close may not fill. A last event that does not decode leaves the end of data without a
  close (1755). A weekend is noticed only when the first tick after it comes on a Monday (2066).
  A fill does not recompute `total_unrealized` (projector.rs:235). An import that fails half way
  leaves the strategies before it restored (551-560).
- *Projector.* A decision's lot multiplier is overwritten by the staleness at once. Strategy events with a time
  later than the tick's change what is hashed without a new hash. `process_event` books an execution
  to the strategy that spoke last.
- *Kill switch.* After the first eviction `m2` holds a variance and no sum of squares (206). A
  `max_history` of 0 panics at the first interval.
- *Lifecycle.* Both programs report returns of entries, which realise nothing, so the forward runner never culls.
- *Change points.* The search leaves out the first values of a window (389-395), so that a feature that is
  constant and not zero can be found to change; after a detection the features behind it miss the observation
  (281-294). The engine never observes; the forward runner does (runner.rs:730) and reads neither the
  flag nor decays the count. A full reset of a policy leaves its level of inflation.
- *Q-states.* A state that is not finite is exported with zeros and imported without an error, where the
  README says that the posterior is saved (src/README.md:127). A matrix that was lost comes back as zeros: the model is
  certain, predicts zero and never learns again.
- *Drawdowns.* The tracker is not told of the equity between the fills of one tick, nor on ticks that end early
  (runner.rs 451, 472, 493, 587): the summary's drawdown may be the deeper one.
- *Inflation.* The level decays, the covariance it was applied to does not (design.md:183-185).
- *FIX.* `send_message` reads the state twice (600-612). A logon whose write fails leaves the session
  logging on, and sends then succeed (348-351). A `connect` under way turns a disconnected session
  into a logged-on one (401). A SequenceReset puts tag 34 in twice.
- *Features.* The long average of the volatility is never assigned, so a spike is never found and the time since the last
  one is always a day; a held gap has no effect; a session that is entered again on another day is not opened anew.
- *Regime.* The default threshold of 1.8 is above ln 4, so with four regimes the state is never unknown. The
  forward runner keeps the last posterior when a loaded model fails (runner.rs:599-607), the engine does not.
- *Observability.* A warning at an entropy of 2.0 of three actions, or of 1.5 of four regimes, is
  above what there is. A gain as large as a limit alerts as a loss does. The forward runner measures before
  this tick's observation (393, 788), the engine after it.
- *Alerts.* A warning suppresses a critical alert of its kind within the interval. `AlertSystem` and the
  comparison are used by tests only. A comparison with a backtest that earned nothing is infinite.
- *Configuration.* A float that is written as an integer is ignored, a negative integer wraps, a
  partial table of positions replaces the whole (cli/config.rs). Limits that are not numbers pass the forward
  configuration's validation; overrides of the command line are not validated.
- *Feeds.* With a period that begins inside the file, backtest and forward test number the same tick differently
  (engine.rs 664-670, runner.rs:365). A reconnect without a disconnect appends the buffer again. `load_csv` of the forward test fails at
  the first bad row, the backtest's reader goes on. An hour that the clocks repeat fails a file
  or is lost. Two headers of one meaning make every row an error.
- *Stores.* Two events of one stream and number, from two runs, share an index entry in tier 1; an event stored twice
  in tier 3 is replayed twice; one whose archive cannot be written is lost. Two publishers of one
  stream may overtake each other, and a busy stream starves those after it (bus.rs:154).
- *Execution.* `simulate_execution` never tells the recalibration manager, so that safe mode lasts for ever in a replay.
  The reasons `execution_rejected` and `weekend_halt` are unknown to the codes of events (runtime.rs 92-114).
  A limit order to buy is priced above the mid (gateway.rs 248-252), and the reason for a rejection
  is last look with the probability of passing it.
- *Command line.* Files are truncated in place; a stale `validation_result.json` is taken for the new one;
  a run that is interrupted reports no ticks.

## 14. Not modelled, and why

- *Floating point*: rounding, overflow to infinity and NaN in arithmetic, except where the code asks for them (an
  observation or a state that is not finite). Properties of the learning code are of exact arithmetic; that finite numbers
  overflow is not modelled, and neither are cells of a file of market data that read as NaN.
- *What libraries do*: TCP, TLS, tokio, sled, the ONNX runtime, clap, serde. They are modelled as
  the code uses them, with the failures it looks for.
- *Distributions*: prices and probabilities of otc_model.rs are numbers the gateway computes, and the
  draws are choices; that a sample is distributed as it should be is out of reach.
- *Interval statistics* of kill switch and gap detector: whether an interval is anomalous is an input.
- *Tier 2 with concurrent writers*: the module has one writer of one stream, as the programs have.
- *Functions nobody calls*: `validate_full`, `check_direction_feasibility`, `publish_snapshot`, `reset_all`
  of the lifecycle; accessors, texts and log lines.
- *Dump of regime features, latency statistics of the gateway*: written and never read.
- *Research code*: Python and shell around the system; `CommandLine` has its call as a stage that may fail.

## 15. Plan

1. `AlertsEarned` with its folds as recursive functions.
2. Tier 2 with two writers of one stream.
3. The interval statistics of kill switch and detector over fractions, before and after an eviction.
