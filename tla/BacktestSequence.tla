-------------------------- MODULE BacktestSequence --------------------------
(***************************************************************************)
(* Calls of BacktestEngine.run with one active symbol, each given the      *)
(* runtime state the last one returned, as run_sequence and the demo make  *)
(* them: which symbol a cycle selects (SymbolSelector, src/market/), and   *)
(* what becomes of the simulated legs of the hedge.  Profit, transfers and *)
(* RWUSD are in ProfitLedger.                                              *)
(*                                                                         *)
(* Prices are positive.  A profit that is not worth a harvest counts as    *)
(* none: either leaves the hedge as it was.  Bull mode postpones a restore *)
(* like a batch that does not allow it.  A call that raises (the row of a  *)
(* held symbol is missing) ends the sequence and is no step.  A batch may  *)
(* come without minute_of_day, as every batch of run_sequence does unless  *)
(* it is told the minutes.                                                 *)
(***************************************************************************)
EXTENDS Integers

CONSTANTS
  Symbols,
  NoSymbol,    \* no current symbol
  Blocked,     \* stands for the score of a blocked row
  Scores,      \* scores of the other rows
  Threshold,   \* switch_threshold
  Eval,        \* eval_interval_minutes
  Cooldown,    \* switch_cooldown_minutes
  Day,         \* minutes of a day
  Gaps         \* minutes between two batches

ASSUME SymbolsAssumption == NoSymbol \notin Symbols
ASSUME ScoresAssumption ==
  Scores \subseteq Int /\ Blocked \notin Int /\ Threshold \in Int
ASSUME MinutesAssumption ==
  /\ Eval \in Nat \ {0} /\ Day \in Nat \ {0} /\ Cooldown \in Nat
  /\ Gaps \subseteq Nat \ {0}

VARIABLES
  runtime,  \* BacktestRuntimeState: symbol, phase, pending side, minute of
            \* the last switch, and the simulated legs
  minute,   \* minute of the day at the last batch, told or not
  age,      \* minutes since the symbol was switched, up to a day and more
  timed,    \* the batch that switched to the symbol told its minute
  left      \* of a symbol that was left in the last cycle though it could
            \* be kept: after how many minutes, for how much better a score,
            \* and whether the batches of both switches told their minutes

vars == <<runtime, minute, age, timed, left>>

Sides == {"LONG", "SHORT"}
Phases == {"IDLE", "HEDGED", "REBALANCING", "PAUSED"}
NoMinute == -1   \* no minute_of_day, or no minute of the last switch

(* Rows of one symbol each; a symbol may have none.                        *)
Batches == UNION {[offered -> Scores \cup {Blocked}] :
                    offered \in SUBSET Symbols}

NewRuntime == [symbol |-> NoSymbol, phase |-> "IDLE", pending |-> "NONE",
               switched |-> NoMinute, legs |-> {}]

Init == /\ runtime = NewRuntime
        /\ minute \in 0..(Day - 1)
        /\ age = 0
        /\ timed = FALSE
        /\ left = {}

-----------------------------------------------------------------------------
(* SymbolSelector.select                                                   *)

Eligible(batch) == {y \in DOMAIN batch : batch[y] # Blocked}

(* The first of the ranked symbols: any of the best ones, in row order.    *)
Best(batch) ==
  {y \in Eligible(batch) : \A z \in Eligible(batch) : batch[z] <= batch[y]}

(* Mutant: the difference of the minutes is not taken around midnight.     *)
CooldownActiveToday(r, now) ==
  r.switched # NoMinute /\ now >= r.switched /\ now - r.switched < Cooldown

CooldownActive(r, now) ==
  r.switched # NoMinute /\ (now - r.switched) % Day < Cooldown

(* _should_hold_current_symbol                                             *)
Stays(r, batch, now) ==
  /\ r.symbol \in Eligible(batch) /\ now # NoMinute
  /\ now % Eval # 0 \/ CooldownActive(r, now)

(* _choose_selected_symbol                                                 *)
Chosen(r, batch) ==
  IF Eligible(batch) = {} THEN {NoSymbol}
  ELSE {IF /\ r.symbol \in Eligible(batch) /\ y # r.symbol
           /\ batch[y] - batch[r.symbol] < Threshold
          THEN r.symbol ELSE y : y \in Best(batch)}

(* Mutant: a hedge is not held while its leg is missing.                   *)
HeldIfComplete(r) == r.phase = "HEDGED"

(* _hold_current_symbol_during_active_cycle                                *)
Held(r) == \/ r.phase = "HEDGED"
           \/ r.phase = "REBALANCING" /\ r.pending # "NONE"

Selected(r, batch, now) ==
  IF Held(r) \/ Stays(r, batch, now) THEN {r.symbol} ELSE Chosen(r, batch)

-----------------------------------------------------------------------------
(* BacktestEngine.run                                                      *)

(* _resolve_last_switch_minute, _seed_hedge_engine, _initialize_sim_hedge: *)
(* another symbol is hedged at once, the same one goes on.  Without a      *)
(* minute, that of an earlier switch is kept.                              *)
Seeded(r, y, now) ==
  IF y = r.symbol
    THEN [r EXCEPT !.phase = IF @ = "IDLE" THEN "HEDGED" ELSE @]
    ELSE [symbol |-> y, phase |-> "HEDGED", pending |-> "NONE",
          switched |-> IF now = NoMinute THEN r.switched ELSE now,
          legs |-> Sides]

(* _resolve_allow_restore_now: given with the batch, or an eval checkpoint,*)
(* or allowed when there is no minute.                                     *)
Allowances == {"yes", "no", "by minute"}
MayRestore(allowance, now) ==
  \/ allowance = "yes"
  \/ allowance = "by minute" /\ (now = NoMinute \/ now % Eval = 0)

(* Mutant: the legs are left when the risk is reduced.                     *)
RebalancedKeepingLegs(r, s, reduce, restore) ==
  IF reduce THEN [r EXCEPT !.phase = "PAUSED", !.pending = "NONE"]
  ELSE IF restore THEN [r EXCEPT !.phase = "HEDGED", !.pending = "NONE",
                                 !.legs = @ \cup {s}]
  ELSE [r EXCEPT !.phase = "REBALANCING", !.pending = s]

(* Mutant: the side pending before the cycle is restored.                  *)
RebalancedPending(r, s, reduce, restore) ==
  IF reduce THEN [r EXCEPT !.phase = "PAUSED", !.pending = "NONE",
                           !.legs = {}]
  ELSE IF restore THEN [r EXCEPT !.phase = "HEDGED", !.pending = "NONE",
                                 !.legs = @ \cup {r.pending}]
  ELSE [r EXCEPT !.phase = "REBALANCING", !.pending = s]

(* RebalancePlanner.decide and what is done about it: the risk is reduced, *)
(* the leg restored, or restored later.                                    *)
Rebalanced(r, s, reduce, restore) ==
  IF reduce THEN [r EXCEPT !.phase = "PAUSED", !.pending = "NONE",
                           !.legs = {}]
  ELSE IF restore THEN [r EXCEPT !.phase = "HEDGED", !.pending = "NONE",
                                 !.legs = @ \cup {s}]
  ELSE [r EXCEPT !.phase = "REBALANCING", !.pending = s]

(* The rebalancing of an earlier cycle goes on.                            *)
Continue(r, reduce, restore) ==
  /\ r.phase = "REBALANCING" /\ r.pending # "NONE"
  /\ runtime' = Rebalanced(r, r.pending, reduce, restore)

(* A leg shows a profit worth a harvest: it is closed, then rebalanced.    *)
TakeProfit(r, s, reduce, restore) ==
  /\ r.phase = "HEDGED"
  /\ runtime' = Rebalanced([r EXCEPT !.legs = @ \ {s}], s, reduce, restore)

Keep(r) == /\ r.phase # "REBALANCING" \/ r.pending = "NONE"
           /\ runtime' = [r EXCEPT !.pending = "NONE"]

(* The runtime state is built anew, without simulated legs.                *)
RunWithoutSymbol(batch, now) ==
  /\ NoSymbol \in Selected(runtime, batch, now)
  /\ runtime' = [runtime EXCEPT !.legs = {}]

RunWithSymbol(batch, now) ==
  \E y \in Selected(runtime, batch, now) \cap DOMAIN batch :
    LET r == Seeded(runtime, y, now)
    IN \/ Keep(r)
       \/ \E reduce \in BOOLEAN, allowance \in Allowances :
            LET restore == MayRestore(allowance, now)
            IN \/ Continue(r, reduce, restore)
               \/ \E s \in Sides : TakeProfit(r, s, reduce, restore)

(* age, timed and left only serve the properties: minutes are counted up to*)
(* a day and a cooldown, after which no cooldown can be confused with      *)
(* another.                                                                *)
Aged(gap) == IF age + gap < Day + Cooldown THEN age + gap ELSE Day + Cooldown

Switches == runtime'.symbol # runtime.symbol

Left(batch, gap, now) ==
  IF Switches /\ runtime.symbol \in Eligible(batch)
    THEN {[after |-> Aged(gap),
           by    |-> batch[runtime'.symbol] - batch[runtime.symbol],
           timed |-> timed /\ now # NoMinute]}
    ELSE {}

NextCycle ==
  \E gap \in Gaps, batch \in Batches :
    /\ minute' = (minute + gap) % Day
    /\ \E now \in {minute', NoMinute} :
         /\ RunWithoutSymbol(batch, now) \/ RunWithSymbol(batch, now)
         /\ timed' = IF Switches THEN now # NoMinute ELSE timed
         /\ left' = Left(batch, gap, now)
    /\ age' = IF Switches THEN 0 ELSE Aged(gap)

Spec == Init /\ [][NextCycle]_vars

-----------------------------------------------------------------------------
TypeOK ==
  /\ runtime \in [symbol : Symbols \cup {NoSymbol}, phase : Phases,
                  pending : Sides \cup {"NONE"},
                  switched : {NoMinute} \cup 0..(Day - 1), legs : SUBSET Sides]
  /\ minute \in 0..(Day - 1)
  /\ age \in Nat /\ timed \in BOOLEAN
  /\ left \subseteq [after : Nat, by : Int, timed : BOOLEAN]

(* The phase tells which simulated legs there are, through harvests,       *)
(* restores that come later, stops, switches and cycles without a symbol,  *)
(* which throw the simulated legs away.                                    *)
PhaseMatchesLegs ==
  /\ runtime.phase = "HEDGED" => runtime.legs = Sides
  /\ runtime.phase = "REBALANCING"
       => /\ runtime.pending \in Sides
          /\ runtime.legs = Sides \ {runtime.pending}
  /\ runtime.phase \in {"IDLE", "PAUSED"} => runtime.legs = {}

(* A hedge is never exchanged for one on another symbol while it has a     *)
(* leg, and one that was stopped is not taken up again on the same symbol. *)
HedgeNotAbandoned ==
  [][IF runtime'.symbol = runtime.symbol
       THEN runtime.symbol # NoSymbol /\ runtime.legs = {}
              => runtime'.legs = {}
       ELSE runtime.legs = {}]_vars

(* A symbol that could be kept is left only for one that is better by the  *)
(* threshold.  Where batches tell their minutes it is not left before the  *)
(* cooldown either, counted in real minutes, though the code has only the  *)
(* minutes of the day; the batches in between need not have told theirs.   *)
SwitchesAreEarned ==
  \A change \in left : /\ change.by >= Threshold
                       /\ change.timed => change.after >= Cooldown
=============================================================================
