---------------------------- MODULE DryRunRunner ----------------------------
(***************************************************************************)
(* LiveRunner in dry-run mode (src/app/live_runner.py) over one candidate  *)
(* symbol, as the simulation runs it: run_cycle after run_cycle on one     *)
(* thread, its state saved by _persist_state in three SQLite tables that   *)
(* are committed one after another (src/infra/persistence.py), a crash     *)
(* anywhere between two commits, and restore_state on the next start.      *)
(*                                                                         *)
(* A method is an operator from the runner's memory to its memory, or to   *)
(* the set of memories it may end with when it depends on what the model   *)
(* leaves open; a cycle calls them in the order of run_cycle.  log         *)
(* collects what each _persist_state of the cycle saves; a crash keeps a   *)
(* prefix of it.  Working orders all come from one plan (theorem           *)
(* LiveOrdersOfOnePlan), so the lifecycle of orders is kept here as one    *)
(* slot per side with the price and age of the plan.  The amounts of the   *)
(* profit bucket are ProfitLedger's subject: here it keeps its harvest     *)
(* count, whether the buffer holds profit and closed_loop_ready.           *)
(***************************************************************************)
EXTENDS SimulatedMatching, Sequences

CONSTANTS
  Prices,            \* closing prices of a row
  TargetAt,          \* target notional / price, in lots
  FillNum, FillDen,  \* DryRunMatchingEngine fill_fraction
  MinFill,           \* DryRunMatchingEngine min_fill_quantity
  Timeout,           \* dry_run_order_timeout_cycles
  MaxRequotes,       \* dry_run_max_requotes
  Threshold,         \* long_take_profit and short_take_profit
  Risks,             \* what RiskRuleSet may say: see RiskLevels
  MaxHarvests,       \* bound: harvests
  MaxCrashes         \* bound: crashes

(* No snapshot; a snapshot within the limits, beyond a soft limit (reduce) *)
(* or beyond a hard limit (pause).                                         *)
RiskLevels == {"none", "calm", "soft", "hard"}

ASSUME PriceAssumption == /\ Prices # {} /\ Prices \subseteq Nat \ {0}
                          /\ TargetAt \in [Prices -> Nat \ {0}]
ASSUME FillAssumption == /\ FillDen \in Nat \ {0}
                         /\ FillNum \in 1..FillDen
                         /\ MinFill \in Nat
ASSUME RequoteAssumption == Timeout \in Nat /\ MaxRequotes \in Nat
ASSUME ThresholdAssumption == Threshold \in Nat \ {0}
ASSUME RiskAssumption == Risks \subseteq RiskLevels
ASSUME BoundsAssumption == MaxHarvests \in Nat /\ MaxCrashes \in Nat

VARIABLES
  m,        \* memory of the runner
  disk,     \* the three tables
  crashes   \* crashes so far

vars == <<m, disk, crashes>>

Phases == {"IDLE", "OPENING_HEDGE", "HEDGED", "TAKING_PROFIT", "REBALANCING",
           "PAUSED"}

Flat == [s \in Sides |-> 0]

NoSlot == [remaining |-> 0, reduceOnly |-> FALSE]

(* DryRunOrderLifecycle with quantities qty and no orders                  *)
NewBook(qty) == [qty |-> qty, slot |-> [s \in Sides |-> NoSlot],
                 price |-> 0, age |-> 0, requotes |-> 0]

(* HedgeState                                                              *)
NewHedge(phase) == [phase |-> phase, qty |-> Flat, entry |-> Flat,
                    mark |-> 0, closes |-> 0]

NewBucket == [harvests |-> 0, buffered |-> FALSE, ready |-> FALSE]

(* phase is HedgeEngine.phase, last is _latest_prices.                     *)
NewMemory == [phase |-> "IDLE", pending |-> "NONE", hedge |-> NewHedge("IDLE"),
              bucket |-> NewBucket, book |-> NewBook(Flat), last |-> 0,
              log |-> << >>]

-----------------------------------------------------------------------------
(* _persist_state: hedge_state, then runtime_state, then the lifecycle.    *)

Tables(x) == [hedge |-> x.hedge,
              runtime |-> [bucket |-> x.bucket, pending |-> x.pending],
              book |-> x.book]

Persist(x) == [x EXCEPT !.log = Append(@, Tables(x))]

(* What the disk holds when j of the three commits of next were made.      *)
Committed(last, next, j) ==
  [hedge   |-> IF j >= 1 THEN next.hedge   ELSE last.hedge,
   runtime |-> IF j >= 2 THEN next.runtime ELSE last.runtime,
   book    |-> IF j >= 3 THEN next.book    ELSE last.book]

(* restore_state; _latest_prices starts empty.                             *)
Restored(tables) ==
  [phase |-> tables.hedge.phase, pending |-> tables.runtime.pending,
   hedge |-> tables.hedge, bucket |-> tables.runtime.bucket,
   book |-> tables.book, last |-> 0, log |-> << >>]

SetPhase(x, phase) == [x EXCEPT !.phase = phase, !.hedge.phase = phase]

-----------------------------------------------------------------------------
(* The lifecycle: OrderLifecycle with one slot per side                    *)

(* replace_orders                                                          *)
Quoted(book, plan, price) ==
  [book EXCEPT
     !.slot = [s \in Sides |->
                 IF s \in DOMAIN plan
                   THEN [remaining |-> plan[s].quantity,
                         reduceOnly |-> plan[s].reduceOnly]
                   ELSE NoSlot],
     !.price = price,
     !.age = 0]

Working(book) == {s \in Sides : book.slot[s].remaining > 0}

(* The sides whose order fills at the mark price.                          *)
Matched(book, price) ==
  {s \in Working(book) :
     IsMarketable(s, book.slot[s].reduceOnly, book.price, price)}

(* delta lots of each side's order fill.                                   *)
Filled(book, delta) ==
  [book EXCEPT
     !.slot = [s \in Sides |->
                 IF book.slot[s].remaining = delta[s] THEN NoSlot
                 ELSE [book.slot[s] EXCEPT !.remaining = @ - delta[s]]],
     !.qty = [s \in Sides |->
                IF book.slot[s].reduceOnly THEN book.qty[s] - delta[s]
                                           ELSE book.qty[s] + delta[s]]]

(* match; a share of lots is rounded down or up.                           *)
AfterMatch(book, price) ==
  LET shares(s) ==
        IF s \in Matched(book, price)
          THEN FillDeltas(book.slot[s].remaining, FillNum, FillDen, MinFill)
          ELSE {0}
      deltas == {d \in [Sides -> UNION {shares(s) : s \in Sides}] :
                   \A s \in Sides : d[s] \in shares(s)}
  IN {Filled(book, d) : d \in deltas}

(* advance_cycle; the age matters only while orders work and may time out. *)
Aged(book) ==
  IF Timeout > 0 /\ Working(book) # {} THEN [book EXCEPT !.age = @ + 1]
                                       ELSE book

(* register_timeout_requote; counted only when the count limits something. *)
Expired(book) ==
  [book EXCEPT !.slot = [s \in Sides |-> NoSlot],
               !.age = 0,
               !.requotes = IF MaxRequotes > 0 THEN @ + 1 ELSE 0]

-----------------------------------------------------------------------------
(* _sync_dry_run_lifecycle_state                                           *)
Sync(x, price) == Persist([x EXCEPT !.hedge.qty = x.book.qty,
                                    !.hedge.mark = price])

(* Mutant: the plan is made from the hedge state, not from the lifecycle.  *)
OpeningTickOfHedge(x, price) ==
  Sync([x EXCEPT !.book = Quoted(@, PlanOpening(TargetAt[price], 0,
                                                x.hedge.qty), price)], price)

(* run_dry_run_opening_tick, run_dry_run_hard_risk_tick                    *)
OpeningTick(x, price) ==
  Sync([x EXCEPT !.book = Quoted(@, PlanOpening(TargetAt[price], 0, @.qty),
                                 price)], price)

HardRiskTick(x, price) ==
  Sync([x EXCEPT !.book = Quoted(@, RiskReductionPlan(@.qty), price)], price)

(* _seed_dry_run_lifecycle_from_state                                      *)
Seeded(x) ==
  IF x.book.qty # Flat \/ x.hedge.qty = Flat THEN x
  ELSE [x EXCEPT !.book = NewBook(x.hedge.qty)]

(* Mutant: a leg must exceed the target.                                   *)
OpeningExceeded(x, price) ==
  x.phase = "OPENING_HEDGE" /\ \A s \in Sides : x.book.qty[s] > TargetAt[price]

(* The opening is complete when both legs hold the target at this price.   *)
OpeningComplete(x, price) ==
  x.phase = "OPENING_HEDGE" /\ \A s \in Sides : x.book.qty[s] >= TargetAt[price]

(* Orders of the sides opened were filled: their entry prices are set and  *)
(* the opening may be complete.                                            *)
Entered(x, opened, price) ==
  [x EXCEPT !.hedge.entry =
     [s \in Sides |-> IF s \in opened /\ @[s] = 0 THEN price ELSE @[s]]]

(* mark_hedged, with what the runner resets beside it.                     *)
Hedged(x) ==
  [SetPhase(x, "HEDGED") EXCEPT !.pending = "NONE", !.book.requotes = 0]

Settled(x, opened, price) ==
  LET y == Entered(x, opened, price)
  IN Sync(IF OpeningComplete(y, price) THEN Hedged(y) ELSE y, price)

(* expire_orders_older_than finds one                                      *)
Overdue(book) == Timeout > 0 /\ Working(book) # {} /\ book.age >= Timeout

(* They are expired, and quoted anew unless that was done too often.       *)
Expire(x) == [x EXCEPT !.book = Expired(@)]

GivesUp(x) == MaxRequotes > 0 /\ x.book.requotes > MaxRequotes

(* _advance_dry_run_orders; it returns when it gives up, and without a     *)
(* fill it does not look at the completion of the opening.                 *)
Advance(x, price, advanceCycle) ==
  LET book == Seeded(x).book
      hit == Matched(book, price)
      opened == {s \in hit : ~book.slot[s].reduceOnly}
      ages(b) == IF advanceCycle THEN Aged(b) ELSE b
      filled == {[Seeded(x) EXCEPT !.book = ages(b)] :
                   b \in AfterMatch(book, price)}
      overdue == {y \in filled : advanceCycle /\ Overdue(y.book)}
      expired == {Expire(y) : y \in overdue}
      givenUp == {y \in expired : GivesUp(y)}
      quoted == {OpeningTick(y, price) : y \in expired \ givenUp}
  IN {Sync(SetPhase(y, "PAUSED"), price) : y \in givenUp}
     \cup {IF hit = {} THEN y ELSE Settled(y, opened, price) :
             y \in quoted \cup (filled \ overdue)}

-----------------------------------------------------------------------------
(* A hard limit ends the cycle: both legs are reduced and the engine stops.*)
PauseOnRisk(x) ==
  LET mark == x.hedge.mark
      reduced == IF mark > 0
                   THEN UNION {Advance(y, mark, FALSE) :
                                 y \in {HardRiskTick(Seeded(x), mark)}}
                   ELSE {x}
  IN {Persist(SetPhase(y, "PAUSED")) : y \in reduced}

(* _execute_redeem_topup drops the buffer with the rest of the bucket.     *)
RedeemTopup(x) == Persist([x EXCEPT !.bucket.buffered = FALSE,
                                    !.bucket.ready = FALSE])

(* _mark_virtual_positions_from_rows                                       *)
MarkVirtualPositions(x, quote) ==
  IF x.phase = "HEDGED" /\ quote # 0 /\ x.hedge.qty # Flat
    THEN Persist([x EXCEPT !.hedge.mark = quote]) ELSE x

Pnl(hedge, s) ==
  hedge.qty[s] * (IF s = "LONG" THEN hedge.mark - hedge.entry[s]
                                ELSE hedge.entry[s] - hedge.mark)

(* HedgeEngine.on_pnl_update: the side that takes profit, long first.      *)
ProfitSides(x, quote) ==
  IF x.phase = "HEDGED" /\ quote # 0 /\ x.hedge.qty # Flat
    THEN {s \in Sides : Pnl(x.hedge, s) >= Threshold} ELSE {}

ProfitSide(x, quote) ==
  IF "LONG" \in ProfitSides(x, quote) THEN "LONG" ELSE "SHORT"

(* Mutant: the side stays pending.                                         *)
RestoreStillPending(x, s) ==
  LET price == IF x.hedge.mark > 0 THEN x.hedge.mark ELSE x.last
      restored == SetPhase([x EXCEPT !.hedge.qty[s] = TargetAt[price],
                                     !.hedge.entry[s] = price], "HEDGED")
  IN IF price = 0 THEN x ELSE Persist(restored)

(* _execute_restore_now: the mark is that of the last cycle that was       *)
(* hedged.                                                                 *)
RestoreNow(x, s) ==
  LET price == IF x.hedge.mark > 0 THEN x.hedge.mark ELSE x.last
      restored == SetPhase([x EXCEPT !.hedge.qty[s] = TargetAt[price],
                                     !.hedge.entry[s] = price,
                                     !.pending = "NONE"], "HEDGED")
  IN IF price = 0 THEN x ELSE Persist(restored)

(* Mutant: the reduction of risk is left to the next save.                 *)
ReduceRiskUnsaved(x) == SetPhase([x EXCEPT !.pending = "NONE"], "PAUSED")

(* _execute_reduce_risk: in dry run nothing is flattened.                  *)
ReduceRisk(x) == Persist(SetPhase([x EXCEPT !.pending = "NONE"], "PAUSED"))

(* RebalancePlanner.decide and what follows it: outside an evaluation      *)
(* checkpoint, or in bull mode, the leg is restored later.  The status set *)
(* last is not persisted.                                                  *)
Rebalance(x, s, risk) ==
  LET after == IF risk = "soft" THEN {ReduceRisk(x)} ELSE {x, RestoreNow(x, s)}
  IN {[y EXCEPT !.bucket.ready = y.phase = "HEDGED"] : y \in after}

(* _execute_take_profit_close                                              *)
CloseLeg(x, s) ==
  Persist([x EXCEPT !.phase = "TAKING_PROFIT", !.hedge.qty[s] = 0,
                    !.hedge.closes = @ + 1])

(* Mutant: the profit is booked and saved before the leg is closed.        *)
BookAndClose(x, s) ==
  LET booked == Persist([x EXCEPT !.pending = s,
                  !.bucket = [harvests |-> @.harvests + 1, buffered |-> TRUE,
                              ready |-> FALSE]])
  IN Persist(SetPhase(CloseLeg(booked, s), "REBALANCING"))

(* The leg is closed and saved, then the profit is booked and saved.       *)
CloseAndBook(x, s) ==
  LET booked == [CloseLeg(x, s) EXCEPT !.pending = s,
                   !.bucket = [harvests |-> @.harvests + 1, buffered |-> TRUE,
                               ready |-> FALSE]]
  IN Persist(SetPhase(booked, "REBALANCING"))

(* _maybe_handle_take_profit: HarvestRule.evaluate refuses below the soft  *)
(* limit, and elsewhere when the profit is not worth its costs.            *)
TakeProfit(x, quote, risk) ==
  LET s == ProfitSide(x, quote)
      kept == Persist([SetPhase(x, "HEDGED") EXCEPT !.pending = "NONE"])
  IN IF risk = "soft" \/ x.hedge.qty[s] = 0 THEN {kept}
     ELSE {kept} \cup UNION {Rebalance(y, s, risk) :
                                 y \in {CloseAndBook(x, s)}}

(* plan_profit_sweep and _execute_profit_sweep: none, a part or all of the *)
(* buffer may be swept.                                                    *)
Sweep(x, risk) ==
  LET swept == {Persist([x EXCEPT !.bucket.buffered = rest]) : rest \in BOOLEAN}
  IN IF /\ risk = "calm" /\ x.pending = "NONE" /\ x.phase = "HEDGED"
        /\ x.bucket.ready /\ x.bucket.buffered
       THEN {x} \cup swept ELSE {x}

(* on_symbol_selected and _execute_open_hedge                              *)
Open(x, quote) ==
  LET chosen == [x EXCEPT !.phase = "OPENING_HEDGE",
                          !.hedge = NewHedge("OPENING_HEDGE")]
      ticked == {OpeningTick(y, quote) : y \in {Persist(Persist(chosen))}}
  IN UNION {Advance(y, quote, FALSE) : y \in ticked}

(* run_cycle with a row to work on: what the working orders, the take      *)
(* profit and the rebalancing do.                                          *)
FillOpening(x, quote) ==
  LET price == IF quote = 0 THEN x.last ELSE quote
      seen == [x EXCEPT !.last = price]
  IN IF seen.phase = "OPENING_HEDGE" /\ price # 0
       THEN Advance(seen, price, TRUE) ELSE {seen}

Harvest(x, quote, risk) ==
  IF ProfitSides(x, quote) # {} THEN TakeProfit(x, quote, risk)
  ELSE IF x.phase = "REBALANCING" /\ x.pending # "NONE"
    THEN Rebalance(x, x.pending, risk)
  ELSE {x}

(* The symbol of the row may be selected.  (An engine that harvested or    *)
(* rebalances is not IDLE.)                                                *)
Select(x, quote) ==
  IF x.phase = "IDLE" /\ quote # 0 THEN {x} \cup Open(x, quote) ELSE {x}

(* Interest is accrued, and saved, when time has elapsed.                  *)
Accrue(x) == {x, Persist(x)}

(* The transfer planner may redeem when there is a snapshot.               *)
Topup(x, risk) == IF risk = "none" THEN {x} ELSE {x, RedeemTopup(x)}

(* run_cycle with a snapshot beyond a hard limit                           *)
PausedCycle(x) == UNION {PauseOnRisk(y) : y \in Accrue(x)}

(* run_cycle otherwise; quote is 0 without a row of the symbol.            *)
TradedCycle(x, quote, risk) ==
  LET toppedUp == UNION {Topup(y, risk) : y \in Accrue(x)}
      filled == UNION {FillOpening(y, quote) : y \in toppedUp}
      marked == {MarkVirtualPositions(y, quote) : y \in filled}
      harvested == UNION {Harvest(y, quote, risk) : y \in marked}
      swept == UNION {Sweep(y, risk) : y \in harvested}
  IN UNION {Select(y, quote) : y \in swept}

-----------------------------------------------------------------------------
Init == m = NewMemory /\ disk = Tables(NewMemory) /\ crashes = 0

(* A cycle ends with after.                                                *)
Ends(after) == /\ after.bucket.harvests <= MaxHarvests
               /\ m' = [after EXCEPT !.log = << >>]
               /\ disk' = IF after.log = << >> THEN disk
                                               ELSE after.log[Len(after.log)]
               /\ UNCHANGED crashes

Pause == "hard" \in Risks /\ \E after \in PausedCycle(m) : Ends(after)

Trade(quote, risk) == \E after \in TradedCycle(m, quote, risk) : Ends(after)

(* The process stops between two cycles and starts again.                  *)
Restart == /\ m' = Restored(disk)
           /\ UNCHANGED <<disk, crashes>>

(* What a cycle may save, one _persist_state after another.                *)
Logs ==
  LET traded == UNION {TradedCycle(m, q, r) : q \in Prices \cup {0},
                                              r \in Risks \ {"hard"}}
      paused == IF "hard" \in Risks THEN PausedCycle(m) ELSE {}
  IN {after.log : after \in traded \cup paused}

(* The process dies within a cycle, after j commits of its kth             *)
(* _persist_state, and starts again.                                       *)
Crash == /\ crashes < MaxCrashes
         /\ \E log \in Logs : \E k \in DOMAIN log, j \in 0..2 :
              disk' = Committed(IF k = 1 THEN disk ELSE log[k - 1], log[k], j)
         /\ disk'.runtime.bucket.harvests <= MaxHarvests
         /\ m' = Restored(disk')
         /\ crashes' = crashes + 1

Next == \/ Pause
        \/ \E quote \in Prices \cup {0}, risk \in Risks \ {"hard"} :
             Trade(quote, risk)
        \/ Restart
        \/ Crash

Spec == Init /\ [][Next]_vars

-----------------------------------------------------------------------------
(* A quantity the target at some price covers.                             *)
WithinTarget(quantity) == \E p \in Prices : quantity <= TargetAt[p]

Hedges == [phase : Phases, qty : Positions, entry : [Sides -> Prices \cup {0}],
           mark : Prices \cup {0}, closes : Nat]

Buckets == [harvests : 0..MaxHarvests, buffered : BOOLEAN, ready : BOOLEAN]

Books == [qty : Positions,
          slot : [Sides -> [remaining : Nat, reduceOnly : BOOLEAN]],
          price : Prices \cup {0}, age : 0..Timeout, requotes : Nat]

(* Memory and tables have their types, and log is empty between cycles.    *)
TypeOK ==
  /\ m \in [phase : Phases \ {"TAKING_PROFIT"}, pending : Sides \cup {"NONE"},
            hedge : Hedges, bucket : Buckets, book : Books,
            last : Prices \cup {0}, log : {<< >>}]
  /\ disk \in [hedge : Hedges, book : Books,
               runtime : [bucket : Buckets, pending : Sides \cup {"NONE"}]]
  /\ crashes \in 0..MaxCrashes

(* As long as no crash separated the three commits, the phase tells what   *)
(* is held: HEDGED is two legs and nothing pending, REBALANCING is exactly *)
(* the other leg of the pending side, and the two copies of the phase      *)
(* agree, whatever restarts happened between cycles.                       *)
PhaseMatchesLegs ==
  crashes = 0 =>
    /\ m.phase = m.hedge.phase
    /\ m.phase = "HEDGED"
         => m.pending = "NONE" /\ \A s \in Sides : m.hedge.qty[s] > 0
    /\ m.phase = "REBALANCING"
         => /\ m.pending \in Sides
            /\ m.hedge.qty[m.pending] = 0
            /\ m.hedge.qty[Opposite(m.pending)] > 0
    /\ m.phase \in {"IDLE", "OPENING_HEDGE"} => m.pending = "NONE"

(* Whatever happened in a cycle, at its end the tables hold the strategy   *)
(* state the memory holds: every path ends in a save.  (The readiness of   *)
(* the loop, the age of quotes and the latest prices are not saved; after  *)
(* a crash a lifecycle seeded anew is not saved until an order fills.)     *)
SavedBetweenCycles ==
  crashes = 0 =>
    /\ disk.hedge = m.hedge
    /\ disk.runtime.pending = m.pending
    /\ disk.runtime.bucket
         = [m.bucket EXCEPT !.ready = disk.runtime.bucket.ready]
    /\ disk.book = [m.book EXCEPT !.age = disk.book.age]

(* No leg, with what is still working to open it, exceeds the largest      *)
(* target: neither requotes nor a crash between two commits opens a leg    *)
(* twice.                                                                  *)
ExposureBounded ==
  \A s \in Sides :
    /\ WithinTarget(m.hedge.qty[s])
    /\ WithinTarget(m.book.qty[s])
    /\ ~m.book.slot[s].reduceOnly
         => WithinTarget(m.book.qty[s] + m.book.slot[s].remaining)

(* A restarted simulation never owns profit of a leg it has not closed,    *)
(* and loses at most one harvest per crash.                                *)
HarvestsBackedByCloses ==
  m.hedge.closes - m.bucket.harvests \in 0..crashes

(* A cycle that pauses on a hard limit adds to no leg.                     *)
PauseBlocksExposure ==
  [][Pause => \A s \in Sides : m'.hedge.qty[s] <= m.hedge.qty[s]]_vars
=============================================================================
