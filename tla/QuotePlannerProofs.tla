------------------------- MODULE QuotePlannerProofs -------------------------
(***************************************************************************)
(* What the tick plans are for every target, tolerance and pair of filled  *)
(* quantities: at most one order per side, never for nothing, reductions   *)
(* covered by what is held, openings within the cap, and a hedge that is   *)
(* neutral once the plan has filled.                                       *)
(***************************************************************************)
EXTENDS QuotePlanner, TLAPS

Quotes == [quantity : Nat \ {0}, reduceOnly : BOOLEAN]

PlanFits(plan, pos, cap) ==
  /\ DOMAIN plan \subseteq Sides
  /\ \A s \in DOMAIN plan :
       /\ plan[s] \in Quotes
       /\ plan[s].reduceOnly => plan[s].quantity <= pos[s]
       /\ ~plan[s].reduceOnly => pos[s] + plan[s].quantity <= cap

-----------------------------------------------------------------------------
(* The two legs as numbers.                                                *)
LEMMA Legs ==
  ASSUME NEW pos \in Positions
  PROVE  /\ pos["LONG"] \in Nat
         /\ pos["SHORT"] \in Nat
         /\ \A s \in Sides : pos[s] \in Nat
         /\ Imbalance(pos) \in Nat
         /\ LargerLeg(pos) \in Nat
         /\ SmallerLeg(pos) \in Nat
         /\ MissingSide(pos) \in Sides
         /\ \A s \in Sides : SmallerLeg(pos) <= pos[s] /\ pos[s] <= LargerLeg(pos)
         /\ pos[MissingSide(pos)] + Imbalance(pos) = LargerLeg(pos)
         /\ \A s \in Sides : LargerLeg(pos) <= pos[s] + Imbalance(pos)
BY DEF Positions, Sides, Imbalance, LargerLeg, SmallerLeg, MissingSide, Abs

(* Legs that end at one quantity are neutral.                              *)
LEMMA EqualLegs ==
  ASSUME NEW f, NEW n \in Int, \A s \in Sides : f[s] = n
  PROVE  Imbalance(f) = 0
BY DEF Imbalance, Abs, Sides

(* Moving both legs by the same quantity keeps their difference.           *)
LEMMA ShiftedLegs ==
  ASSUME NEW f, NEW pos \in Positions, NEW d \in Int,
         \A s \in Sides : f[s] = pos[s] + d
  PROVE  Imbalance(f) = Imbalance(pos)
BY Legs DEF Imbalance, Abs, Sides

(* A plan fits when each order opens within the cap or reduces what is     *)
(* held.                                                                   *)
LEMMA FitsByOrder ==
  ASSUME NEW plan, NEW pos \in Positions, NEW cap \in Nat,
         DOMAIN plan \subseteq Sides,
         \A s \in DOMAIN plan :
           \E q \in Nat \ {0} :
             \/ plan[s] = ReduceOrder(q) /\ q <= pos[s]
             \/ plan[s] = OpenOrder(q) /\ pos[s] + q <= cap
  PROVE  PlanFits(plan, pos, cap)
<1>1. ASSUME NEW s \in DOMAIN plan
      PROVE  /\ plan[s] \in Quotes
             /\ plan[s].reduceOnly => plan[s].quantity <= pos[s]
             /\ ~plan[s].reduceOnly => pos[s] + plan[s].quantity <= cap
  <2>1. PICK q \in Nat \ {0} :
          \/ plan[s] = ReduceOrder(q) /\ q <= pos[s]
          \/ plan[s] = OpenOrder(q) /\ pos[s] + q <= cap
    BY <1>1
  <2>2. CASE plan[s] = ReduceOrder(q) /\ q <= pos[s]
    BY <2>2 DEF Quotes, ReduceOrder
  <2>3. CASE plan[s] = OpenOrder(q) /\ pos[s] + q <= cap
    BY <2>3 DEF Quotes, OpenOrder
  <2>4. QED
    BY <2>1, <2>2, <2>3
<1>2. QED
  BY <1>1 DEF PlanFits

(* What a completed plan leaves on each side.                              *)
LEMMA CompletedSide ==
  ASSUME NEW plan, NEW pos, NEW s \in Sides
  PROVE  /\ s \notin DOMAIN plan => Completed(pos, plan)[s] = pos[s]
         /\ \A q : s \in DOMAIN plan /\ plan[s] = OpenOrder(q)
                   => Completed(pos, plan)[s] = pos[s] + q
         /\ \A q : s \in DOMAIN plan /\ plan[s] = ReduceOrder(q)
                   => Completed(pos, plan)[s] = pos[s] - q
BY DEF Completed, OpenOrder, ReduceOrder

(* The plan for legs of which one exceeds the target.                      *)
LEMMA ExcessAndDeficitSide ==
  ASSUME NEW target \in Nat \ {0}, NEW pos \in Positions, NEW s \in Sides
  PROVE  LET plan == PlanExcessAndDeficit(target, pos)
         IN /\ DOMAIN plan \subseteq Sides
            /\ s \notin DOMAIN plan => pos[s] = target
            /\ s \in DOMAIN plan =>
                 \/ /\ pos[s] > target
                    /\ plan[s] = ReduceOrder(pos[s] - target)
                 \/ /\ pos[s] < target
                    /\ plan[s] = OpenOrder(target - pos[s])
<1>1. pos[s] \in Nat
  BY Legs
<1>2. CASE pos[s] = target
  BY <1>2 DEF PlanExcessAndDeficit
<1>3. CASE pos[s] > target
  BY <1>1, <1>3 DEF PlanExcessAndDeficit
<1>4. CASE pos[s] < target
  BY <1>1, <1>4 DEF PlanExcessAndDeficit
<1>5. QED
  BY <1>1, <1>2, <1>3, <1>4

(* Every plan of plan_opening fits, so _new_order never raises             *)
(* order_quantity_must_be_positive after the old orders were canceled.     *)
LEMMA OpeningPlanFits ==
  ASSUME NEW target \in Nat \ {0}, NEW tol \in Nat, NEW pos \in Positions,
         NEW cap \in Nat,
         target <= cap, \A s \in Sides : pos[s] <= cap
  PROVE  PlanFits(PlanOpening(target, tol, pos), pos, cap)
<1> DEFINE plan == PlanOpening(target, tol, pos)
<1> USE Legs
<1>1. CASE TargetReached(target, tol, pos)
  BY <1>1 DEF PlanOpening, NoOrders, PlanFits
<1>2. CASE /\ ~TargetReached(target, tol, pos)
           /\ \E s \in Sides : pos[s] > target
  <2>1. plan = PlanExcessAndDeficit(target, pos)
    BY <1>2 DEF PlanOpening
  <2>2. DOMAIN plan \subseteq Sides
    BY <2>1 DEF PlanExcessAndDeficit
  <2> HIDE DEF plan
  <2>3. ASSUME NEW s \in DOMAIN plan
        PROVE  \E q \in Nat \ {0} :
                 \/ plan[s] = ReduceOrder(q) /\ q <= pos[s]
                 \/ plan[s] = OpenOrder(q) /\ pos[s] + q <= cap
    <3>1. s \in Sides /\ pos[s] \in Nat
      BY <2>2
    <3>2. \/ pos[s] > target /\ plan[s] = ReduceOrder(pos[s] - target)
          \/ pos[s] < target /\ plan[s] = OpenOrder(target - pos[s])
      BY <2>1, <3>1, ExcessAndDeficitSide
    <3>3. CASE pos[s] > target /\ plan[s] = ReduceOrder(pos[s] - target)
      <4>1. pos[s] - target \in Nat \ {0} /\ pos[s] - target <= pos[s]
        BY <3>1, <3>3
      <4>2. QED
        BY <3>3, <4>1
    <3>4. CASE pos[s] < target /\ plan[s] = OpenOrder(target - pos[s])
      <4>1. target - pos[s] \in Nat \ {0} /\ pos[s] + (target - pos[s]) <= cap
        BY <3>1, <3>4
      <4>2. QED
        BY <3>4, <4>1
    <3>5. QED
      BY <3>2, <3>3, <3>4
  <2>4. PlanFits(plan, pos, cap)
    BY <2>2, <2>3, FitsByOrder
  <2>5. QED
    BY <2>4 DEF plan
<1>3. CASE /\ ~TargetReached(target, tol, pos)
           /\ ~\E s \in Sides : pos[s] > target
           /\ Imbalance(pos) <= tol
  <2>1. plan = [s \in Sides |-> OpenOrder(target - LargerLeg(pos))]
    BY <1>3 DEF PlanOpening
  <2>2. LargerLeg(pos) < target
    <3>1. PICK s \in Sides : ~(pos[s] + tol >= target)
      BY <1>3 DEF TargetReached
    <3>2. QED
      BY <1>3, <3>1
  <2>3. QED
    BY <2>1, <2>2 DEF PlanFits, Quotes, OpenOrder
<1>4. CASE /\ ~TargetReached(target, tol, pos)
           /\ ~\E s \in Sides : pos[s] > target
           /\ ~(Imbalance(pos) <= tol)
  <2>1. plan = [s \in {MissingSide(pos)} |-> OpenOrder(Imbalance(pos))]
    BY <1>4 DEF PlanOpening
  <2>2. Imbalance(pos) > 0 /\ LargerLeg(pos) <= cap
    BY <1>4 DEF LargerLeg, Sides
  <2>3. QED
    BY <2>1, <2>2 DEF PlanFits, Quotes, OpenOrder
<1>5. QED
  BY <1>1, <1>2, <1>3, <1>4

(* Every plan of plan_exit fits.                                           *)
LEMMA ExitPlanFits ==
  ASSUME NEW tol \in Nat, NEW pos \in Positions, NEW realized \in BOOLEAN,
         NEW cap \in Nat, \A s \in Sides : pos[s] <= cap
  PROVE  PlanFits(PlanExit(tol, pos, realized), pos, cap)
<1> DEFINE plan == PlanExit(tol, pos, realized)
<1> USE Legs
<1>1. CASE plan = NoOrders
  BY <1>1 DEF NoOrders, PlanFits
<1>2. CASE /\ plan = [s \in {MissingSide(pos)} |-> OpenOrder(Imbalance(pos))]
           /\ Imbalance(pos) > tol
  <2>1. Imbalance(pos) > 0 /\ LargerLeg(pos) <= cap
    BY <1>2 DEF LargerLeg, Sides
  <2>2. QED
    BY <1>2, <2>1 DEF PlanFits, Quotes, OpenOrder
<1>3. CASE /\ plan = [s \in Sides |-> ReduceOrder(SmallerLeg(pos))]
           /\ SmallerLeg(pos) # 0
  BY <1>3 DEF PlanFits, Quotes, ReduceOrder
<1>4. QED
  BY <1>1, <1>2, <1>3 DEF PlanExit

(* Every risk reduction plan fits.                                         *)
LEMMA RiskPlanFits ==
  ASSUME NEW pos \in Positions, NEW cap \in Nat
  PROVE  PlanFits(RiskReductionPlan(pos), pos, cap)
<1> DEFINE plan == RiskReductionPlan(pos)
<1>1. /\ DOMAIN plan = {x \in Sides : pos[x] > 0}
      /\ \A s \in DOMAIN plan : plan[s] = ReduceOrder(pos[s])
  BY DEF RiskReductionPlan
<1> HIDE DEF plan
<1>2. PlanFits(plan, pos, cap)
  BY <1>1, Legs, FitsByOrder
<1>3. QED
  BY <1>2 DEF plan

-----------------------------------------------------------------------------
(* A plan that fits leaves, when filled, neither leg below zero nor above  *)
(* the cap.                                                                *)
LEMMA FitCompletesWithin ==
  ASSUME NEW plan, NEW pos \in Positions, NEW cap \in Nat,
         PlanFits(plan, pos, cap), \A s \in Sides : pos[s] <= cap
  PROVE  \A s \in Sides : Completed(pos, plan)[s] \in 0..cap
<1>1. ASSUME NEW s \in Sides
      PROVE  Completed(pos, plan)[s] \in 0..cap
  <2>1. pos[s] \in 0..cap
    BY Legs
  <2>2. CASE s \notin DOMAIN plan
    BY <2>1, <2>2 DEF Completed
  <2>3. CASE s \in DOMAIN plan
    <3>1. /\ plan[s].quantity \in Nat /\ plan[s].reduceOnly \in BOOLEAN
          /\ plan[s].reduceOnly => plan[s].quantity <= pos[s]
          /\ ~plan[s].reduceOnly => pos[s] + plan[s].quantity <= cap
      BY <2>3 DEF PlanFits, Quotes
    <3>2. Completed(pos, plan)[s] =
            IF plan[s].reduceOnly THEN pos[s] - plan[s].quantity
                                  ELSE pos[s] + plan[s].quantity
      BY <2>3 DEF Completed
    <3>3. QED
      BY <2>1, <3>1, <3>2
  <2>4. QED
    BY <2>2, <2>3
<1>2. QED
  BY <1>1

(* What an opening for target may leave on a side.                         *)
OpeningCap(target, pos) ==
  IF target < LargerLeg(pos) THEN LargerLeg(pos) ELSE target

LEMMA OpeningCompletesWithin ==
  ASSUME NEW target \in Nat \ {0}, NEW tol \in Nat, NEW pos \in Positions
  PROVE  \A s \in Sides :
           Completed(pos, PlanOpening(target, tol, pos))[s]
             \in 0..OpeningCap(target, pos)
<1>1. /\ OpeningCap(target, pos) \in Nat /\ target <= OpeningCap(target, pos)
      /\ \A s \in Sides : pos[s] <= OpeningCap(target, pos)
  BY Legs DEF OpeningCap
<1>2. PlanFits(PlanOpening(target, tol, pos), pos, OpeningCap(target, pos))
  BY <1>1, OpeningPlanFits
<1>3. QED
  BY <1>1, <1>2, FitCompletesWithin

(* Legs that differ by at most the tolerance when an opening has filled.   *)
LEMMA OpeningCompletesBalanced ==
  ASSUME NEW target \in Nat \ {0}, NEW tol \in Nat, NEW pos \in Positions,
         ~TargetReached(target, tol, pos)
  PROVE  Imbalance(Completed(pos, PlanOpening(target, tol, pos))) <= tol
<1> DEFINE plan == PlanOpening(target, tol, pos)
           done == Completed(pos, plan)
<1> USE Legs
<1>1. CASE \E s \in Sides : pos[s] > target
  <2>1. plan = PlanExcessAndDeficit(target, pos)
    BY <1>1 DEF PlanOpening
  <2> HIDE DEF plan
  <2>2. ASSUME NEW s \in Sides
        PROVE  done[s] = target
    <3>1. pos[s] \in Nat
      BY Legs
    <3>2. \/ s \notin DOMAIN plan /\ pos[s] = target
          \/ s \in DOMAIN plan /\ plan[s] = ReduceOrder(pos[s] - target)
          \/ s \in DOMAIN plan /\ plan[s] = OpenOrder(target - pos[s])
      BY <2>1, ExcessAndDeficitSide
    <3>3. \/ done[s] = pos[s] /\ pos[s] = target
          \/ done[s] = pos[s] - (pos[s] - target)
          \/ done[s] = pos[s] + (target - pos[s])
      BY <3>2, CompletedSide
    <3>4. QED
      BY <3>1, <3>3
  <2>3. \A s \in Sides : done[s] = target
    BY <2>2
  <2>4. QED
    BY <2>3, EqualLegs DEF plan
<1>2. CASE /\ ~\E s \in Sides : pos[s] > target
           /\ Imbalance(pos) <= tol
  <2>1. plan = [s \in Sides |-> OpenOrder(target - LargerLeg(pos))]
    BY <1>2 DEF PlanOpening
  <2>2. DOMAIN plan = Sides
        /\ \A s \in Sides : plan[s] = OpenOrder(target - LargerLeg(pos))
    BY <2>1
  <2> HIDE DEF plan
  <2>3. ASSUME NEW s \in Sides
        PROVE  done[s] = pos[s] + (target - LargerLeg(pos))
    BY <2>2, CompletedSide
  <2>4. Imbalance(done) = Imbalance(pos)
    <3>1. target - LargerLeg(pos) \in Int
      BY Legs
    <3>2. QED
      BY <2>3, <3>1, ShiftedLegs
  <2>5. QED
    BY <1>2, <2>4 DEF plan
<1>3. CASE /\ ~\E s \in Sides : pos[s] > target
           /\ ~(Imbalance(pos) <= tol)
  <2>1. plan = [s \in {MissingSide(pos)} |-> OpenOrder(Imbalance(pos))]
    BY <1>3 DEF PlanOpening
  <2>2. /\ done[MissingSide(pos)] = LargerLeg(pos)
        /\ \A s \in Sides \ {MissingSide(pos)} : done[s] = pos[s]
    BY <2>1 DEF Completed, OpenOrder
  <2>3. \A s \in Sides : done[s] = LargerLeg(pos)
    BY <2>2 DEF MissingSide, LargerLeg, Sides
  <2>4. QED
    BY <2>3, EqualLegs
<1>4. QED
  BY <1>1, <1>2, <1>3

(* plan_opening preserves "a neutral long/short quantity": whatever it     *)
(* quotes leaves, when filled, legs that differ by at most the tolerance,  *)
(* neither below zero nor above both the target and the larger leg held.   *)
THEOREM OpeningPlanCompletesNeutral ==
  ASSUME NEW target \in Nat \ {0}, NEW tol \in Nat, NEW pos \in Positions,
         ~TargetReached(target, tol, pos)
  PROVE  LET done == Completed(pos, PlanOpening(target, tol, pos))
         IN /\ Imbalance(done) <= tol
            /\ \A s \in Sides :
                 /\ done[s] >= 0
                 /\ done[s] <= target \/ done[s] <= LargerLeg(pos)
<1> DEFINE done == Completed(pos, PlanOpening(target, tol, pos))
<1>1. Imbalance(done) <= tol
  BY OpeningCompletesBalanced
<1>2. \A s \in Sides : done[s] \in 0..OpeningCap(target, pos)
  BY OpeningCompletesWithin
<1> HIDE DEF done
<1>3. ASSUME NEW s \in Sides
      PROVE  /\ done[s] >= 0
             /\ done[s] <= target \/ done[s] <= LargerLeg(pos)
  <2>1. done[s] \in 0..OpeningCap(target, pos) /\ LargerLeg(pos) \in Nat
    BY <1>2, Legs
  <2>2. QED
    BY <2>1 DEF OpeningCap
<1>4. QED
  BY <1>1, <1>3 DEF done

(* Legs that differ by no more than they did when an exit has filled, and  *)
(* by nothing when it restores a leg.                                      *)
LEMMA ExitCompletesBalanced ==
  ASSUME NEW tol \in Nat, NEW pos \in Positions, NEW realized \in BOOLEAN
  PROVE  LET done == Completed(pos, PlanExit(tol, pos, realized))
         IN /\ Imbalance(done) <= Imbalance(pos)
            /\ ~realized /\ Imbalance(pos) > tol => Imbalance(done) = 0
<1> DEFINE plan == PlanExit(tol, pos, realized)
           done == Completed(pos, plan)
<1> USE Legs
<1>1. CASE plan = NoOrders /\ (realized \/ Imbalance(pos) <= tol)
  <2>1. \A s \in Sides : done[s] = pos[s] + 0
    BY <1>1 DEF NoOrders, Completed
  <2>2. Imbalance(done) = Imbalance(pos)
    <3> HIDE DEF plan
    <3> QED
      BY <2>1, ShiftedLegs
  <2>3. QED
    BY <1>1, <2>2 DEF plan
<1>2. CASE plan = [s \in {MissingSide(pos)} |-> OpenOrder(Imbalance(pos))]
  <2>1. /\ done[MissingSide(pos)] = LargerLeg(pos)
        /\ \A s \in Sides \ {MissingSide(pos)} : done[s] = pos[s]
    BY <1>2 DEF Completed, OpenOrder
  <2>2. \A s \in Sides : done[s] = LargerLeg(pos)
    BY <2>1 DEF MissingSide, LargerLeg, Sides
  <2>3. Imbalance(done) = 0
    BY <2>2, EqualLegs
  <2>4. QED
    BY <2>3
<1>3. CASE /\ plan = [s \in Sides |-> ReduceOrder(SmallerLeg(pos))]
           /\ Imbalance(pos) <= tol
  <2>1. DOMAIN plan = Sides
        /\ \A s \in Sides : plan[s] = ReduceOrder(SmallerLeg(pos))
    BY <1>3
  <2> HIDE DEF plan
  <2>2. ASSUME NEW s \in Sides
        PROVE  done[s] = pos[s] - SmallerLeg(pos)
    BY <2>1, CompletedSide
  <2>3. SmallerLeg(pos) \in Nat /\ \A s \in Sides : pos[s] \in Nat
    BY Legs
  <2>4. Imbalance(done) = Imbalance(pos)
    <3>1. ASSUME NEW s \in Sides
          PROVE  done[s] = pos[s] + (0 - SmallerLeg(pos))
      BY <2>2, <2>3
    <3>2. QED
      BY <2>3, <3>1, ShiftedLegs
  <2>5. QED
    BY <1>3, <2>4 DEF plan
<1>4. QED
  BY <1>1, <1>2, <1>3 DEF PlanExit

(* plan_exit adds no exposure: once filled, neither leg is below zero nor  *)
(* above the larger leg held, the legs differ by no more than they did,    *)
(* and after a leg was restored they are equal.                            *)
THEOREM ExitPlanAddsNoExposure ==
  ASSUME NEW tol \in Nat, NEW pos \in Positions, NEW realized \in BOOLEAN
  PROVE  LET done == Completed(pos, PlanExit(tol, pos, realized))
         IN /\ \A s \in Sides : done[s] >= 0 /\ done[s] <= LargerLeg(pos)
            /\ Imbalance(done) <= Imbalance(pos)
            /\ ~realized /\ Imbalance(pos) > tol => Imbalance(done) = 0
<1> DEFINE plan == PlanExit(tol, pos, realized)
           done == Completed(pos, plan)
<1>1. PlanFits(plan, pos, LargerLeg(pos))
  BY Legs, ExitPlanFits
<1> HIDE DEF plan
<1>2. \A s \in Sides : done[s] \in 0..LargerLeg(pos)
  BY <1>1, Legs, FitCompletesWithin
<1> HIDE DEF done
<1>3. ASSUME NEW s \in Sides
      PROVE  done[s] >= 0 /\ done[s] <= LargerLeg(pos)
  <2>1. done[s] \in 0..LargerLeg(pos) /\ LargerLeg(pos) \in Nat
    BY <1>2, Legs
  <2>2. QED
    BY <2>1
<1>4. QED
  BY <1>3, ExitCompletesBalanced DEF done, plan
=============================================================================
