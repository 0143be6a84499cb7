---------------------------- MODULE QuotePlanner ----------------------------
(***************************************************************************)
(* The tick-level quote plans of src/strategy/tick_quote_planner.py and    *)
(* DryRunOrderLifecycle.risk_reduction_plan.  A plan is the tuple of limit *)
(* orders that replaces every working order; it holds at most one order    *)
(* per position side, so it is written as a function from the quoted sides *)
(* to the order.  The price of a plan (the mid price of the tick) belongs  *)
(* to the tick and is added when the orders are created.  Quantities are   *)
(* counted in lots.                                                        *)
(***************************************************************************)
EXTENDS Integers

Sides == {"LONG", "SHORT"}

Opposite(s) == IF s = "LONG" THEN "SHORT" ELSE "LONG"

Abs(n) == IF n < 0 THEN -n ELSE n

Positions == [Sides -> Nat]

Imbalance(pos) == Abs(pos["LONG"] - pos["SHORT"])

LargerLeg(pos) ==
  IF pos["LONG"] < pos["SHORT"] THEN pos["SHORT"] ELSE pos["LONG"]

SmallerLeg(pos) ==
  IF pos["LONG"] < pos["SHORT"] THEN pos["LONG"] ELSE pos["SHORT"]

MissingSide(pos) == IF pos["LONG"] < pos["SHORT"] THEN "LONG" ELSE "SHORT"

-----------------------------------------------------------------------------
(* QuoteOrder: BUY opens a LONG and reduces a SHORT, SELL the reverse.     *)

OpenOrder(q)   == [quantity |-> q, reduceOnly |-> FALSE]

ReduceOrder(q) == [quantity |-> q, reduceOnly |-> TRUE]

IsBuy(s, reduceOnly) == (s = "LONG") # reduceOnly

NoOrders == [s \in {} |-> OpenOrder(0)]

(* What the position becomes when every order of the plan is filled.       *)
Completed(pos, plan) ==
  [s \in Sides |->
     IF s \notin DOMAIN plan THEN pos[s]
     ELSE IF plan[s].reduceOnly THEN pos[s] - plan[s].quantity
     ELSE pos[s] + plan[s].quantity]

-----------------------------------------------------------------------------
(* TickQuotePlanner.plan_opening                                           *)

TargetReached(target, tol, pos) == \A s \in Sides : pos[s] + tol >= target

(* Mutant: a deficit leg is opened by the whole target.                    *)
PlanExcessAndTarget(target, pos) ==
  [s \in {x \in Sides : pos[x] # target} |->
     IF pos[s] > target THEN ReduceOrder(pos[s] - target)
                        ELSE OpenOrder(target)]

PlanExcessAndDeficit(target, pos) ==
  [s \in {x \in Sides : pos[x] # target} |->
     IF pos[s] > target THEN ReduceOrder(pos[s] - target)
                        ELSE OpenOrder(target - pos[s])]

(* Mutant: balanced legs are both opened by the whole target.              *)
PlanOpeningInFull(target, tol, pos) ==
  IF TargetReached(target, tol, pos)
    THEN NoOrders
  ELSE IF \E s \in Sides : pos[s] > target
    THEN PlanExcessAndDeficit(target, pos)
  ELSE IF Imbalance(pos) <= tol
    THEN [s \in Sides |-> OpenOrder(target)]
  ELSE [s \in {MissingSide(pos)} |-> OpenOrder(Imbalance(pos))]

PlanOpening(target, tol, pos) ==
  IF TargetReached(target, tol, pos)
    THEN NoOrders
  ELSE IF \E s \in Sides : pos[s] > target
    THEN PlanExcessAndDeficit(target, pos)
  ELSE IF Imbalance(pos) <= tol
    THEN [s \in Sides |-> OpenOrder(target - LargerLeg(pos))]
  ELSE [s \in {MissingSide(pos)} |-> OpenOrder(Imbalance(pos))]

(* TickQuotePlanner.plan_exit                                              *)
PlanExit(tol, pos, allRealized) ==
  IF allRealized
    THEN NoOrders
  ELSE IF Imbalance(pos) > tol
    THEN [s \in {MissingSide(pos)} |-> OpenOrder(Imbalance(pos))]
  ELSE IF SmallerLeg(pos) = 0
    THEN NoOrders
  ELSE [s \in Sides |-> ReduceOrder(SmallerLeg(pos))]

(* Mutant: both legs are reduced by the larger one.                        *)
RiskReductionOfLarger(pos) ==
  [s \in {x \in Sides : pos[x] > 0} |-> ReduceOrder(LargerLeg(pos))]

(* DryRunOrderLifecycle.risk_reduction_plan                                *)
RiskReductionPlan(pos) ==
  [s \in {x \in Sides : pos[x] > 0} |-> ReduceOrder(pos[s])]
=============================================================================
