# TLA+ models of the RWUSD hedge strategy

These modules model the parts of the repository whose correctness depends on
long sequences of steps: the order lifecycle of the dry-run simulation, the
runner that drives it and saves it, the profit ledger that moves realized
profit in and out of RWUSD, the live runner whose two threads share one memory,
the symbol choice of the backtest, and the supervised simulation with its log
and its verdict. TLC checks them on small instances; TLAPS proves
the central invariants for every value of the constants. Paths below are
relative to the repository (`src/...` is its package directory).

## The system

| Component | State it keeps | Operations | Talks to |
|---|---|---|---|
| Tick quote planner (`src/strategy/tick_quote_planner.py`) | none (target, tolerance) | `plan_opening`, `plan_exit` | called by the quote runtime |
| Order lifecycle (`src/strategy/dry_run_order_lifecycle.py`) | filled quantity of both legs, orders, cycle, requote count | `replace_orders`, `apply_execution`, `expire_orders_older_than`, `advance_cycle`, `match`, three ticks | planner, runner |
| Runner (`src/app/live_runner.py`) | engine phase, `HedgeState`, `ProfitBucket`, pending side, lifecycle, latest prices | `run_cycle`, `restore_state`, `reconcile_remote_state`, `on_order_filled`, `on_order_failed` | selector, risk rules, harvest rule, transfer planner, account service, state store |
| Hedge engine (`src/strategy/hedge_engine.py`) | phase, symbol | `on_symbol_selected`, `mark_hedged`, `on_pnl_update`, `on_take_profit_completed`, `on_rebalance_restored` | runner, backtest |
| Capital rules (`src/risk/rules.py`, `src/portfolio/transfers.py`, `src/portfolio/yield_accrual.py`, `src/strategy/pnl_manager.py`, `harvest_rules.py`, `rebalance.py`) | none: functions of snapshot and bucket | evaluate, plan sweep or redemption, accrue, record | runner, backtest |
| Persistence (`src/infra/persistence.py`) | SQLite tables for hedge, runtime and lifecycle state | three saves with a commit each, three loads | runner |
| Runtime loop (`src/app/live_runtime.py`, `live_cycle_inputs.py`) | loop counters | poll inputs with retries, `run_cycle`; user stream thread in live mode | runner, orchestrator |
| Orchestrator and bootstrap (`src/app/live_orchestrator.py`, `bootstrap.py`) | none | preflight, restore, reconcile, wiring | everything |
| Backtest engine (`src/backtest/engine.py`) | `BacktestRuntimeState` | `run`, `run_sequence` | selector, capital rules |
| Selector and routes (`src/market/selector.py`, `src/strategy/leg_route.py`) | none | `select`, `select_many`, route choice | runner, backtest |
| Exchange adapters (`src/exchange/*.py`) | listen key | signed requests, user stream loop, event parsing | runner |
| Simulation supervision (`scripts/run_server_sim_*.py`, `ops/`) | batch directories, `runner-state.json`, `latest.json`, observation history | daemon attempts and resumes batches; heartbeat thread refreshes the summary; systemd restarts | runtime, reports |
| Log and reports (`src/infra/logging.py`, `simulation_report.py`, `simulation_outcome.py`, ...) | `live_sim_runtime.jsonl` and report files | append a line, sum the lines up, give the verdict | runtime, batch, heartbeat |
| Configuration, preflight | files | read, validate | all |

A cycle of the simulation runs on one thread: `LiveRuntime` polls the input
provider and calls `run_cycle`, which accrues interest, evaluates the risk
limits (a hard limit ends the cycle in PAUSED), tops up, fills simulated
orders, marks the positions, takes profit, restores a closed leg, sweeps profit
and opens a hedge, saving its state at many places in between. In live mode a
second thread applies fills and failures that the exchange reports, to the same
memory and without a lock.

A simulation is a batch: a directory with a database, an event log and reports.
The daemon runs one batch after another and takes up again the batch that it
left incomplete; while a batch runs, a heartbeat thread reads the log and writes
the same summary file the batch writes at its end.

**What is hard here.** Partial fills followed by requotes; cumulative
executions that arrive late or twice; plans that reduce one leg while opening
the other; state copied between the lifecycle, the hedge state and the engine;
saves that consist of three commits; restarts and crashes; a bucket rebuilt
field by field in five places; two hosts that apply the same capital rules in
different orders; files that two threads write and that a death leaves half
written; a log that is resumed by a process that restored a newer state; fills
that name a side but not the order they belong to; a cooldown counted in minutes
of the day. `PROJECT.json` lists each hazard at its line with the
properties that watch it.

**What makes each component correct.** A plan completes to a neutral hedge.
The lifecycle works on the orders of one plan, counts every lot once, never
reduces more than it holds and never opens more than planned. The runner's
phase tells what is held, what is in memory between cycles is what is saved,
exposure never exceeds the target, a pause adds none, an opening ends. With live
orders, what counts as filled is held, every unit held has a reason, and neither
thread leaves the other in a phase that nothing continues. A backtest does not
give up a hedge for another symbol and leaves a symbol only for a better one,
after the cooldown where it is told the time. The ledger balances, a sweep
respects the reserve, a top-up is sufficient. A batch that was started is
forgotten only when `runner-state.json` could not be read and otherwise ends
complete as long as the logs can be parsed, a finished one is left alone,
`latest.json` can be followed, and the log counts each transfer once.

## Modules

| Module | Models | Notes |
|---|---|---|
| `QuotePlanner` | planner and `risk_reduction_plan` as operators | a plan is a function from the quoted sides to orders, at most one per side |
| `SimulatedMatching` | when a simulated order fills and by how much | `remaining * fill_fraction` rounded to a lot down or up, both allowed |
| `OrderLifecycle` | the lifecycle, one action per operation, one step per iteration of a match | an order is named by the plan that created it and its side |
| `QuoteSlots` | abstract: what the lifecycle promises | per side a quantity and at most one working order; implemented by `OrderLifecycle` |
| `CapitalRules` | risk limits, transfer plans, booking operations | amounts in cents |
| `ProfitLedger` | the closed loop over many cycles in both hosts | `host` is "live" (`run_cycle`) or "backtest" (`BacktestEngine.run`), chosen from `Hosts` |
| `DryRunRunner` | `LiveRunner` in dry-run mode, persistence, restart, crash | one operator per method; a cycle is their composition |
| `DryRunPolling` | the loop of `LiveRuntime` around the runner, with fairness | extends `DryRunRunner` |
| `LiveHedge` | `LiveRunner` with live orders: main thread, stream thread, exchange, reconciliation, restart | one step is what a thread does between two calls that leave the interpreter |
| `BacktestSequence` | calls of `BacktestEngine.run`, each given the state of the last: symbol choice, phase, simulated legs | one active symbol |
| `RuntimeLog` | the loop of `LiveRuntime` and its event log, `build_runtime_summary`, `build_simulation_outcome` | the log is what the summary has in hand after its last line |
| `SimBatches` | daemon, batch, heartbeat thread and systemd restart | of a file only whether it is absent, torn, stale or whole |
| `SerialBatches` | abstract: what the supervision promises to a reader of its results | the batches begun, those sealed, those lost and the published one; implemented by `SimBatches` |
| `MC*` | constants of the runs | |
| `*Proofs` | theorems and proofs | of the module they are named for |

`SimulatedMatching` extends `QuotePlanner`; `OrderLifecycle` and `DryRunRunner`
extend `SimulatedMatching`; `ProfitLedger` extends `CapitalRules`.

**OrderLifecycle.** `position` is `_long_quantity` and `_short_quantity`,
`orders` is `_orders`, `plans` stands for `_next_order_number`, `cycle` is
`_cycle`; `mark` and `matching` are the local state of a running `match` loop.
A call that raises changes nothing and is therefore no step; that no iteration
of a match raises is the property `MatchNeverRaises`. `Execute` is the entry
`LiveRunner.apply_dry_run_order_execution`, which accepts an execution for any
order whatever its age. REJECTED is a status nothing assigns and is left out.

**ProfitLedger.** Of the strategy only the state of the loop is kept (opening,
hedged, rebalancing, stopped). `swept` and `redeemed` add up the transfers, so
that the bucket can be compared with the money that moved. Prices, quantities
and fees are abstracted to the net profit a leg offers in a cycle.

**DryRunRunner.** `m` is the memory of the runner, `disk` the three tables.
Within a cycle, every `_persist_state` appends what it saves to `m.log`; a
completed cycle leaves the last entry on disk, and `Crash` leaves a prefix:
all of the first k-1 saves and the first j of the three commits of the kth.
`Restart` is a stop between two cycles. Because the working orders all come
from one plan (theorem `LiveOrdersOfOnePlan`), the lifecycle is one slot per side with
the price and age of the plan. The bucket keeps its harvest count, whether the
buffer holds profit, and readiness. The inputs of a cycle are the closing price
of the symbol (0: no row), the risk level, whether a top-up is due, whether
interest accrues, whether the selector selects the symbol, whether the harvest
is worth its costs, whether a restore is allowed now, how much may be swept and
how shares of lots are rounded; an input the cycle never reads is left fixed.
`SavedBetweenCycles` leaves the readiness of the bucket out:
`_set_closed_loop_status` runs after the last save of a cycle.

**LiveHedge.** `memory` is what both threads share: engine phase and symbol,
the filled flags of `HedgeState`, the pending side and the failures counted per
leg. `main` is the next step of `run_cycle`, `stream` the connection with its
retries and the reports on their way, `handler` the order the stream thread is
about to place, `saved` the symbol in the hedge table, `held` what the account
holds. An order is one `Unit`, which may be executed, executed in part or not at
all; either is reported if the stream is up. A save of the stream thread fails
with SQLite, which refuses a connection made by another thread, after the memory
was changed: `Stores` takes this store and one that works with any thread.
`Start` reconciles the stored hedge with the account's and then begins with a
new runner, because `build_live_runtime` wires two. `closed`, `surplus` and
`counts` serve the properties and the bounds: the legs of which a closing order
was executed, what restores and recoveries may have bought beyond an opening,
and how often each thing happened.

**BacktestSequence.** `runtime` is `BacktestRuntimeState` without its ledger,
`minute` the minute of the day of the last batch. A batch may come without
its minute (`NoMinute`), as every batch of `run_sequence` does by default
(`engine.py:420-424`; tests/backtest/test_backtest_engine.py:775, 872, 918 run it so):
the selector then neither holds a symbol nor applies the cooldown
(`selector.py:139`), a switch leaves the minute of an earlier one
(`engine.py:540`) and a restore is allowed (`engine.py:506`). `age`, `timed` and
`left` serve the properties: the real minutes since the last switch, whether its
batch told its minute and, when a symbol was left that could be kept, after how
long, for how much better a score, and whether both switches told their minutes.
A batch is any choice of rows with a score or blocked; `Gaps` are the minutes
between two batches.

**RuntimeLog.** `bucket` is the bucket of the runner and `saved` its row in
`runtime_state`; `previous` are the two counts `LiveRuntime` subtracts for a
loop line. A transfer saves the bucket first (`Transfer`) and logs its detail
line afterwards (`LogTransfer`); `CompleteLoop` writes the line that replaces
the details. `read` is what the single pass of `build_runtime_summary` over the
log holds after the last line, `Verdict` the outcome made of it. `Crash` may
come between any two of these, and `Start` resumes with the saved counts.

**SimBatches.** `pc` is the step of the daemon's process: the daemon and the
batch run on one thread, and one action is one file opened, one file written or
one decision. `beat` is the heartbeat thread, which reads the log, holds the
summary it built (`held`), opens and writes. Text that two writers put in one
file may end torn (`Closed`). `Fault` stands for whatever a step may raise: the
exchange, a provider that was retried often enough, the disk. `runner` and
`latest` are replaced in one step, as `os.replace` does, other files are not.
An attempt takes up the batch that `runner` names (`Attempt`), but when
`runner-state.json` cannot be read or parsed, `_discover_resumable_batch_dir`
returns None and a new batch is begun beside it (`AttemptUnread`;
`run_server_sim_daemon.py:156-159`). When that batch is marked as running, the
pointer to the other one is overwritten: an incomplete batch that is not named is
`Forgotten`. `liveLog` is the log of the live trader, which another process
writes and every attempt summarizes first (`liveSummary`); once a line of it was
written in part (`LiveLogTorn`) it stays `"broken"` and that step always raises.
That the log is missing is one of the faults.

## Runs

| Run | Shows | States |
|---|---|---|
| `order_lifecycle` | order and position consistency, refinement of `QuoteSlots` | 209,010 |
| `profit_ledger` | books, sweeps, top-ups and the harvest buffer in both hosts | 12,510 |
| `dry_run_runner` | phases, saves, exposure and bookings with restarts and two crashes | 19,297 |
| `opening_ends` | liveness of an opening at a fixed price, with restarts | 228 |
| `runtime_log` | the summary misses at most one transfer per death; a pass is earned | 266,699 |
| `sim_batches` | a started batch is forgotten only by a failed read of its pointer, finished ones are sealed, archived and readable; every other intact one completes; refinement of `SerialBatches` | 728,499 |
| `live_hedge` | two threads, lost reports, failed orders and deaths: filled legs are held, exposure is explained, no phase is orphaned, an opening is noticed | 468,197 |
| `backtest_sequence` | across midnight: phases match legs, hedges are not abandoned, switches are earned, with and without minutes | 52,688 |
| `pause_blocks_exposure` | violated: a risk pause re-creates a closed leg | |
| `opening_ends_moving` | violated: legs balanced below target are never completed | |
| `resumes_safely` | violated: after a restart a second hedge is opened beside the held one | |
| `hedged_holds_both_legs` | violated: the fill of a closing order is taken for a restored leg | |

**Bounds.**

- `order_lifecycle`: two plans with orders, one `advance_cycle`, targets 2 and
  4, prices 1 and 2, half fills with a minimum of one lot, legs that start at
  3 and 1. Two plans are enough for every interaction of an older and a newer
  order; the unequal start makes one plan reduce and open at once; one cycle is
  the age of a timeout.
- `profit_ledger`: nine snapshots, one for each outcome of the risk rules and
  transfer planner, and none; profit and redemptions up to 5, interest up to 1:
  several harvests, sweeps and redemptions in a row.
- `dry_run_runner`: two prices whose targets are 4 and 3 lots, so that a
  requote meets a leg above and below its target; half fills with a minimum of
  two lots; a timeout after two cycles and two requotes; two harvests; two
  crashes at any commit. `PhaseMatchesLegs` and `SavedBetweenCycles` are claims about
  behaviours without a crash between the commits (restarts between cycles are
  included); `ExposureBounded` and `HarvestsBackedByCloses` are claimed with it.
- `opening_ends`: one price, a target of 32 lots (halves stay whole lots until
  the last), a timeout of two cycles, three requotes, no crash. The bound is
  essential: with two prices the property fails, which is what
  `opening_ends_moving` shows, and with a crash between two commits it fails too.
- `live_hedge`: one symbol, both stores, one retry of the stream, two lives, two
  orders that fail, one profit taken, one restore repeated in a later cycle. Two
  lives meet a hedge that an earlier one left, the second failure of a leg is the
  one that flattens, and a repeated restore crosses the report of the first.
- `backtest_sequence`: two symbols, scores 0 to 2 with a threshold of 2, a day of
  12 minutes with a cooldown of 7 and an interval of 3, gaps of 1, 8 and 12
  minutes. The cooldown is longer than half a day, so that it spans midnight and
  a gap of a day looks like no time at all. Each batch tells its minute or does
  not. The theorems drop these bounds.
- `runtime_log`: runs of two loops, one retry, two failures of the provider,
  two deaths: a death before, between and after the loops of a resumed run, and
  a run that raises and is started again.
- `sim_batches`: two batches, two deaths, one fault, one torn line, one failed
  read of `runner-state.json`, one heartbeat, and a live log that breaks at any
  time or never: the second batch meets what the first left behind or is begun
  beside it, a death meets a batch that was already resumed, the heartbeat
  overlaps each write of the summary.
- `resumes_safely` (two lives, nothing fails) and `hedged_holds_both_legs` (one
  life, one profit taken) use the smallest bounds at which the disagreement shows.

Deadlock is checked in the runs of the lifecycle, the ledger, the dry-run runner
and the backtest. The other three modules really stop: a run of `RuntimeLog` ends
after `--max-loops`, the number of batches of `SimBatches` is a bound, and in
`LiveHedge` a process may have died for the last time or may not start again
because the account does not reconcile.

**Fairness.** Three modules assume some. In `DryRunPolling`, `RowsKeepComing` says that the
loop, which has no bound and retries its input provider, keeps passing rows of
the symbol to `run_cycle`. It says nothing about what a cycle does. `turn`
flips with every such cycle, so weak fairness on `turn` states it without
asking that a cycle change the state. In `SimBatches`, weak fairness of
`Advance` says that the daemon is started again when it is down (the unit file
says `Restart=always`), that its thread is not postponed for ever, and that a run
ends, which `max_loops` brings about; weak fairness of the heartbeat's begun
write says that the other thread is not postponed inside it. No fairness is
assumed of a fault's absence: faults and deaths are bounded instead, since an
exchange that fails for ever completes no batch. In `LiveHedge`, weak fairness of
`PlaceLong \/ PlaceShort` says that the main thread goes on with an opening it
began, and weak fairness of `HandleStream` that the stream thread handles the
reports it has; both are threads of one running interpreter. Neither says that
the process lives, that an order is executed or that the stream stays up.

**Assumptions about the environment of `SimBatches`.** A later batch has a later
directory name (the names are local times in seconds, and a
batch or the backoff after a failed one takes longer). The join of the heartbeat ends within its
timeout, which is at least 30 seconds (`run_server_sim_batch.py:150`). The
heartbeat's own writes of `runner-state.json` name the running batch and change
nothing that is read.

## Where the code and its documents disagree

Shown by a run:

1. *A risk pause adds exposure* (`pause_blocks_exposure`). Take profit and
   restore change `sim_*_qty` but not the lifecycle, and the hard risk tick
   copies the lifecycle's old quantities back.
2. *An opening may stop half way without a crash* (`opening_ends_moving`).
   A requote for the missing leg fills, the legs are equal below the target, and
   only an expiry quotes again.
3. *A restarted live runtime opens a second hedge* (`resumes_safely`).
   Bootstrap gives the orchestrator one runner, which restores and reconciles, and
   `LiveRuntime` another, which starts empty and IDLE.
4. *HEDGED with one leg* (`hedged_holds_both_legs`). `on_order_filled` looks at
   the side of a fill only. The fill of the order that closes a leg for profit
   sets the leg as filled again; the runner is HEDGED, nothing is pending, and the
   leg is gone.

Met while modelling, and part of the models, without a run of their own:

- *Redemption drops the harvest buffer.* `LiveRunner._execute_redeem_topup`
  rebuilds the bucket without `harvest_buffer` and `closed_loop_ready`; profit
  harvested before it is never swept. `BacktestEngine._record_redeem` keeps both.
  `BufferKept` therefore claims the live host only until its first redemption.
- *An opening may stop after a crash between two commits.* The hedge table says
  OPENING_HEDGE, the lifecycle table holds no orders, and nothing quotes.
- *A torn log line stops the supervision.* `build_runtime_summary` raises on a
  line written in part; the batch is resumed with every attempt, is never
  complete, and no later batch is run. `IntactCompletes` leaves such a batch out.
- *So does a torn line of the live trader's log.* Every attempt of every batch
  begins with a summary of that whole log (`run_server_sim_batch.py:86-89`), so
  one line that cannot be parsed stops them all. `IntactCompletes` claims nothing
  after that.
- *An unreadable `runner-state.json` abandons a batch.* The next attempt begins
  another one and overwrites the only pointer. tests/unit/test_run_server_sim_daemon.py:204
  asserts that such a file is ignored, so this is what the code is meant to do;
  `ForgottenOnlyUnread` and `SerialBatches` allow one loss for each such read and
  none besides.
- *Without `minute_of_day` there is no cooldown.* `SwitchesAreEarned` claims only
  the threshold of switches whose batches did not tell their minutes.
- *A death loses a top-up from the summary.* The resumed run counts the restored
  bucket as reported, and the next loop line drops the detail line: a batch that
  needed a top-up may pass. `LossBounded` says that it is at most one per death.

## Proofs

`QuotePlannerProofs`: an opening plan completes to legs within the tolerance,
neither below zero nor above both the target and the larger leg held
(`OpeningPlanCompletesNeutral`); an exit plan to legs at least as balanced as
before, neither below zero nor above the larger one, and equal when it restores a
leg (`ExitPlanAddsNoExposure`). Both rest on lemmas that every plan fits under the
exposure cap and that a plan that fits completes within it.

`OrderLifecycleProofs`: the inductive invariant `LifecycleInv` is `TypeOK`,
`LiveOrdersFromOnePlan`, `ReduceOnlyCovered` and `ExposureBounded` together.
None of them is inductive alone: that a reduction stays covered needs that no
second order of the side can take what it covers, which is
`LiveOrdersFromOnePlan`; that exposure stays bounded needs that position and
remainder move against each other, which needs the order facts of `TypeOK`. A
plan establishes the invariant because `replace_orders` leaves no older working
order and the plan fits the position; an execution keeps it because it moves
lots from the one working order of a side to its leg (orders are named by plan
and side, so one plan means one order per side). `LiveOrdersOfOnePlan`,
`ReductionsCovered`, `MatchesComplete` and `ExposureStaysBounded` follow.

Every step of the lifecycle is a step of `QuoteSlots` under the mapping that takes a side's slot from its working order
(`LifecycleImplementsSlots`). A slot is a function of the orders only because a
side has one working order, so the proof needs `LifecycleInv` before and after
the step; that a plan completes to neutral legs comes from the planner's lemmas.
`OrdersOnlyGoForward` proves the action property for the same steps: a canceled
or expired order stays as it is and a FILLED one is never canceled or expired. It
does not say that a FILLED order stays FILLED, because a late PARTIALLY_FILLED
report of its whole quantity changes the status back (`apply_execution`, 239-259).
`PositionsAreTheirFills` compares a quantity with fills. A sum over the orders
would need induction over them; the model counts the set of filled lots instead
(`FilledLots`), and an accepted execution adds exactly the lots between the last
report and this one, so that the cardinality grows by what the leg moves.

`DryRunRunnerProofs`: a cycle is a composition of methods, so the invariant
`RunnerInv` is stated of any memory a method may leave behind, the saves in its
log included (`Sound`), and each method has a lemma that it keeps it. Three
parts carry the theorems. *Books*: a working order reduces what is held or
opens within the largest target; with it `ExposureStaysBounded`. *Ledger*:
closes exceed booked harvests by at most the bookings lost in crashes. It relates
the hedge table to the runtime table of the save before it as well (`Follows`),
because a crash between two commits leaves just these two; `HarvestsAreBacked`
needs no more. *Phases*: `LegsFit` and that the tables are the memory hold only
while `crashes = 0`, since a mixture of tables satisfies neither;
`PhasesMatchLegs` and `StateIsSaved` are stated with that condition, as the runs
check them. `RunnerInvariant` covers any number of cycles, restarts and crashes.

`ProfitLedgerProofs`: `LedgerInv` ties every amount of the bucket to `swept`
and `redeemed`. Each booking operation has a lemma that it keeps the balance
for amounts the planner can return; `LedgerTypeCorrect`, `BooksBalance`,
`BufferIsKept`, `SweepsAreSafe` and `TopupsSuffice` follow for both hosts. For
the buffer the invariant also says that it is all of the available profit.

`LiveHedgeProofs`: `FilledIsHeld` is not inductive, since a leg may be about to
count as filled while its report is queued. `HedgeInv` says of a leg that counts,
now or after a report on its way, that it is held unless a closing order for it
was executed in this life; that without a symbol nothing was ordered and no
report is on its way; that profit is being taken only while the main thread is between closing and
booking; and that HEDGED is both legs filled but for the pending one.
`NoPhaseOrphaned` and `FilledLegsAreHeld` follow for any number of lives,
failures, retries and symbols and any interleaving of the threads.
`ExposureIsExplained` needs a budget (`BudgetInv`): beside what is held, a side
may still be bought once for the opening of this life that has not ordered it,
for a restore about to be placed, for a recovery the stream thread is about to
place, and for each failed order whose report is still queued. Every order uses up
one of these, a failed one is exchanged for its report, and a received
failure for the recovery or for nothing. That an opening is paid for once per
life rests on `HedgeInv`: a runner that is IDLE has ordered nothing.

`BacktestSequenceProofs`: the selector compares minutes of the day, the property
real minutes. The invariant says that the age of a symbol is the difference of
the minutes plus some whole days; a cooldown that has passed by the minutes of
the day has therefore passed in real minutes, for every length of a day, cooldown
and gap, if the batches of both switches told their minutes, whatever those in
between told (`SwitchesEarned`). `PhasesMatchLegs` and `HedgesNotAbandoned` need that
a runtime state without a symbol is idle.

`RuntimeLogProofs`: `LogInv` says, for each kind of transfer, that what the
loop lines count is behind `previous` by at most one for every death, that the
saved bucket is ahead of `previous` by at most the transfer of the running
cycle, and that the pending details are that transfer or were lost with a death.
`LossBounded` alone is not inductive: a loop line drops the details, and only
`previous` tells that it counts them itself. `LossIsBounded` and
`PassesAreEarned` follow for any number of loops, retries and deaths.

`SimBatchesProofs`: `AttemptInv` says that while a batch is worked on
`runner-state.json` names it, and that before that write the batch chosen is not
complete. `DroppedInv` counts ahead: a batch is dropped when it is begun,
incomplete, and neither named nor, while another one has been chosen but not yet
marked, about to be; there are never more of them than reads have failed. A
failed read drops at most the batch that was named, every other step drops none,
and the batches that are forgotten are among the dropped ones
(`ForgottenOnlyByUnread`). With what
`TypeOK` says of the heartbeat (it is off when no batch runs) follows the action
property `SealedForGood`: once a process has left a complete batch, no step of
either thread changes a file of it, for any number of batches, deaths, faults,
torn lines, failed reads and heartbeats. `ReportInv` is about the last files of an attempt. For
`LatestReadable`, what the attempt has written so far is whole (`OutputsInv`), no
batch after the named one holds a file (`NamedIsLast`), and the batch that
`latest.json` names is complete and left (`LatestInv`), so that no later attempt
opens its reports. For `FinishedArchived`, while nothing dies or fails the history is
torn only while it is being written, and a batch whose comparison exists is in it
or is the current one (`ArchiveInv`).

Every step of the supervision is a step of `SerialBatches` or a stutter
(`BatchesAreSerial`). A batch is begun when its database or log exists, sealed
when it is complete and its process has left it, and lost when it is forgotten,
which happens when another one is marked as running. While the daemon is at work
every begun batch but its own is sealed or lost (`OthersAreOver`), so
that there is never a second one in work; by `NamedIsLast` no begun batch has a
later number, so that batches begin in order and `RepairLatest`, which takes the
last complete batch there is, can only take the one in work. One more invariant
is needed (`RunsOnDatabase`): the cycles run only once the database exists, so
that no batch is begun and left in the same step by a death within a line of its
log.

The proofs rest on the named assumptions of the modules: positive targets and
prices (at least one price in `DryRunRunner`), a fill fraction in (0, 1],
non-negative limits, that the exposure cap is at least every target and initial
leg, and natural numbers as bounds. The bounds are constants: the theorems
hold for each value of them.

Every invariant and action property that a run checks and expects to hold is
also a theorem, of the same definition. Only model-checked are the liveness
properties `OpeningEnds`, `IntactCompletes` and `OpeningNoticed`: liveness under
fairness and `ENABLED` are out of this prover's reach.

## Not modelled

- Formatting, configuration, preflight and HTTP are output or input without
  behaviour over time; of the reports only what the supervision reads back is
  modelled.
- The two steps of a live sweep (transfer to spot, subscription) and of a live
  redemption (redemption, transfer back): an error of either ends the process,
  the next runner starts with an empty bucket, and no code looks for the money in
  between, so that there is no later step to model. `transfer_pm_to_spot` and
  `transfer_spot_to_pm` (`src/exchange/binance_account.py:207-219`) send the same
  request. The first is listed as a hazard.
- Preemption inside a step of `LiveHedge`: the threads alternate at the calls that
  leave the interpreter, not between two bytecodes. Sizes and filters of live
  orders and the USDC maker route are left out; an order is one unit.
- Several active symbols in one batch (`select_many`): nothing of them is carried
  over to the next call.
- Quantities of the simulation are lots: that a fill fraction below one without a
  minimum fill never completes an order is invisible (listed as a hazard).
  Decimal precision is not modelled.

## Plan

1. *Done:* planner, lifecycle, capital rules, ledger, dry-run runner, polling,
   event log and verdict, supervised batches; live orders with the user stream,
   reconciliation and restart; symbol choice and simulated legs of the backtest.
2. *Done:* proofs of every invariant and action property the runs check; the
   refinements of `QuoteSlots` and of `SerialBatches`.
3. *Left:* the live top-up and harvest inside `LiveHedge`, so that the capital
   rules and the two threads are checked together; what `CapitalRules` and the
   planner promise, as lemmas for all amounts.
