------------------------ MODULE OrderLifecycleProofs ------------------------
(***************************************************************************)
(* Theorems about OrderLifecycle for every value of its constants.  The    *)
(* inductive invariant LifecycleInv says that the working orders come from *)
(* one plan, are covered by the position when they reduce it and stay      *)
(* under the exposure cap when they open.  A plan establishes it because   *)
(* replace_orders leaves no older working order; an execution keeps it     *)
(* because a quantity only moves with the one working order of its side.   *)
(* The lifecycle implements QuoteSlots: a side's slot is its one working   *)
(* order, and that there is at most one is what LifecycleInv is needed for.*)
(* Quantities are compared with fills as numbers of lots: FilledLots grows *)
(* by the lots an execution reports beyond those reported before.          *)
(***************************************************************************)
EXTENDS OrderLifecycle, QuotePlannerProofs, FiniteSetTheorems

LifecycleInv == /\ TypeOK
                /\ LiveOrdersFromOnePlan
                /\ ReduceOnlyCovered
                /\ ExposureBounded

OrderOK(id, o) ==
  /\ o \in Order
  /\ o.filled <= o.quantity
  /\ o.status = "FILLED" => Remaining(o) = 0

-----------------------------------------------------------------------------
(* The order facts of TypeOK, for one order.                               *)
LEMMA OrderFacts ==
  ASSUME TypeOK, NEW id \in DOMAIN orders
  PROVE  /\ OrderOK(id, orders[id])
         /\ id[1] \in Nat /\ id[1] <= plans
         /\ Side(id) \in Sides
         /\ id = <<id[1], Side(id)>>
         /\ orders[id].created <= cycle
         /\ Remaining(orders[id]) \in Nat
BY BoundsAssumption DEF TypeOK, OrderOK, Order, OrderIds, Side, Remaining

(* Working orders come from one plan, and a plan has one order per side.   *)
OneLiveOrderPerSide ==
  \A a, b \in LiveOrders : Side(a) = Side(b) => a = b

LEMMA OneLivePerSide ==
  ASSUME TypeOK, LiveOrdersFromOnePlan
  PROVE  OneLiveOrderPerSide
<1>1. ASSUME NEW a \in LiveOrders, NEW b \in LiveOrders, Side(a) = Side(b)
      PROVE  a = b
  <2>1. a \in DOMAIN orders /\ b \in DOMAIN orders
    BY DEF LiveOrders, ActiveOrders
  <2>2. a = <<a[1], Side(a)>> /\ b = <<b[1], Side(b)>>
    BY <2>1, OrderFacts
  <2>3. a[1] = b[1]
    BY DEF LiveOrdersFromOnePlan
  <2>4. QED
    BY <1>1, <2>2, <2>3
<1>2. QED
  BY <1>1 DEF OneLiveOrderPerSide

(* The share of an order a match fills is at most what remains.            *)
LEMMA FillDeltasBounded ==
  ASSUME NEW id, Remaining(orders[id]) \in Nat, NEW d \in MatchDeltas(id)
  PROVE  d \in 0..Remaining(orders[id])
BY FillAssumption DEF MatchDeltas, FillDeltas, Shares

(* No iteration of a running match is refused.                             *)
LEMMA MatchAccepted ==
  ASSUME LifecycleInv
  PROVE  MatchNeverRaises
<1> USE DEF LifecycleInv
<1>1. ASSUME NEW id \in matching, NEW delta \in MatchDeltas(id)
      PROVE  LET cumulative == orders[id].filled + delta
             IN ExecutionAccepted(id, cumulative,
                                  IF cumulative = orders[id].quantity
                                    THEN "FILLED" ELSE "PARTIALLY_FILLED")
  <2>1. id \in ActiveOrders /\ id \in DOMAIN orders
    BY DEF TypeOK, ActiveOrders
  <2>2. /\ OrderOK(id, orders[id])
        /\ Side(id) \in Sides
        /\ Remaining(orders[id]) \in Nat
    BY <2>1, OrderFacts
  <2>3. delta \in 0..Remaining(orders[id])
    BY <2>2, FillDeltasBounded
  <2>4. position[Side(id)] \in Nat
    BY <2>2 DEF TypeOK, Positions
  <2>5. orders[id].reduceOnly => delta <= position[Side(id)]
    <3>1. CASE Remaining(orders[id]) = 0
      BY <2>3, <2>4, <3>1
    <3>2. CASE Remaining(orders[id]) > 0
      <4>1. id \in LiveOrders
        BY <2>1, <3>2 DEF LiveOrders
      <4>2. QED
        BY <2>2, <2>3, <2>4, <4>1 DEF ReduceOnlyCovered
    <3>3. QED
      BY <2>2, <3>1, <3>2
  <2>6. QED
    BY <2>1, <2>2, <2>3, <2>4, <2>5
       DEF ExecutionAccepted, ActiveOrders, IsActive, ActiveStatuses,
           OrderOK, Order, Remaining
<1>2. QED
  BY <1>1 DEF MatchNeverRaises

-----------------------------------------------------------------------------
(* Each action preserves the invariant.                                    *)

LEMMA InitInv == Init => LifecycleInv
<1> SUFFICES ASSUME Init PROVE LifecycleInv
  OBVIOUS
<1>1. TypeOK
  BY InitialAssumption, BoundsAssumption DEF Init, TypeOK
<1>2. LiveOrders = {}
  BY DEF Init, LiveOrders, ActiveOrders
<1>3. \A s \in Sides : position[s] <= ExposureCap
  BY CapAssumption DEF Init
<1>4. QED
  BY <1>1, <1>2, <1>3
     DEF LifecycleInv, LiveOrdersFromOnePlan, ReduceOnlyCovered, ExposureBounded

LEMMA ReplaceInv ==
  ASSUME LifecycleInv, NEW plan, NEW price \in Nat \ {0}, matching = {},
         PlanFits(plan, position, ExposureCap), ReplaceOrders(plan, price)
  PROVE  LifecycleInv'
<1> DEFINE created == {<<plans + 1, s>> : s \in DOMAIN plan}
<1> USE DEF LifecycleInv
<1>1. /\ created # {} => plans < MaxPlans
      /\ orders' = [id \in DOMAIN orders \cup created |->
                      IF id \in created THEN NewOrder(plan[Side(id)], price)
                                        ELSE Canceled(orders[id])]
      /\ plans' = IF created = {} THEN plans ELSE plans + 1
      /\ UNCHANGED <<position, cycle, mark, matching>>
  BY DEF ReplaceOrders
<1>2. DOMAIN orders' = DOMAIN orders \cup created
  BY <1>1
<1>3. plans \in Nat /\ cycle \in Nat /\ position \in Positions
  BY BoundsAssumption DEF TypeOK
<1>4. ASSUME NEW id \in created
      PROVE  /\ Side(id) \in DOMAIN plan
             /\ Side(id) \in Sides
             /\ id = <<plans + 1, Side(id)>>
             /\ id[1] = plans + 1
             /\ plans < MaxPlans
             /\ plans' = plans + 1
             /\ orders'[id] = NewOrder(plan[Side(id)], price)
  <2>1. PICK s \in DOMAIN plan : id = <<plans + 1, s>>
    BY <1>4
  <2>2. Side(id) = s /\ id[1] = plans + 1
    BY <2>1 DEF Side
  <2>3. QED
    BY <1>1, <1>4, <2>1, <2>2 DEF PlanFits
<1>5. ASSUME NEW id \in created
      PROVE  /\ orders'[id] \in Order
             /\ orders'[id].filled = 0
             /\ orders'[id].status = "NEW"
             /\ orders'[id].created = cycle
             /\ orders'[id].quantity = plan[Side(id)].quantity
             /\ orders'[id].reduceOnly = plan[Side(id)].reduceOnly
             /\ plan[Side(id)].quantity \in Nat \ {0}
  <2>1. plan[Side(id)] \in Quotes
    BY <1>4 DEF PlanFits
  <2>2. /\ plan[Side(id)].quantity \in Nat \ {0}
        /\ plan[Side(id)].reduceOnly \in BOOLEAN
    BY <2>1 DEF Quotes
  <2>3. orders'[id] = NewOrder(plan[Side(id)], price)
    BY <1>4
  <2>4. NewOrder(plan[Side(id)], price) \in Order
    BY <1>3, <2>2 DEF NewOrder, Order, ActiveStatuses
  <2>5. QED
    BY <2>2, <2>3, <2>4 DEF NewOrder
<1>6. ASSUME NEW id \in DOMAIN orders, id \notin created
      PROVE  orders'[id] = Canceled(orders[id])
  BY <1>1, <1>6
<1>7. TypeOK'
  <2>1. position' \in Positions /\ cycle' \in 0..MaxCycle /\ mark' \in Prices \cup {0}
    BY <1>1 DEF TypeOK
  <2>2. plans' \in 0..MaxPlans
    BY <1>1, BoundsAssumption DEF TypeOK
  <2>3. DOMAIN orders' \subseteq OrderIds
    <3>1. ASSUME NEW id \in created PROVE id \in OrderIds
      BY <1>3, <1>4, BoundsAssumption DEF OrderIds
    <3>2. QED
      BY <1>2, <3>1 DEF TypeOK
  <2>4. ASSUME NEW id \in DOMAIN orders'
        PROVE  /\ orders'[id] \in Order
               /\ orders'[id].filled <= orders'[id].quantity
               /\ orders'[id].status = "FILLED" => Remaining(orders'[id]) = 0
               /\ id[1] <= plans' /\ orders'[id].created <= cycle'
    <3>1. CASE id \in created
      <4>1. /\ orders'[id] \in Order
            /\ orders'[id].filled = 0
            /\ orders'[id].status = "NEW"
            /\ orders'[id].created = cycle
        BY <1>5, <3>1
      <4>2. id[1] = plans + 1 /\ plans' = plans + 1
        BY <1>4, <3>1
      <4>3. orders'[id].quantity \in Nat
        BY <4>1 DEF Order
      <4>4. QED
        BY <1>1, <1>3, <4>1, <4>2, <4>3
    <3>2. CASE id \notin created
      <4>1. id \in DOMAIN orders /\ orders'[id] = Canceled(orders[id])
        BY <1>2, <1>6, <3>2
      <4>2. /\ OrderOK(id, orders[id])
            /\ id[1] \in Nat /\ id[1] <= plans
            /\ orders[id].created <= cycle
        BY <4>1, OrderFacts
      <4>3. /\ OrderOK(id, orders'[id])
            /\ orders'[id].created = orders[id].created
        BY <4>1, <4>2
           DEF Canceled, OrderOK, Order, Remaining, TerminalStatuses, ActiveStatuses
      <4>4. QED
        BY <1>1, <1>3, <4>2, <4>3 DEF OrderOK
    <3>3. QED
      BY <3>1, <3>2
  <2>5. matching' \subseteq ActiveOrders'
    BY <1>1
  <2>6. QED
    BY <2>1, <2>2, <2>3, <2>4, <2>5 DEF TypeOK
<1>8. LiveOrders' \subseteq created
  <2>1. ASSUME NEW id \in LiveOrders', id \notin created PROVE FALSE
    <3>1. id \in DOMAIN orders'
          /\ orders'[id].status \in ActiveStatuses
      BY DEF LiveOrders, ActiveOrders, IsActive
    <3>2. id \in DOMAIN orders /\ orders'[id] = Canceled(orders[id])
      BY <1>2, <1>6, <2>1, <3>1
    <3>3. orders[id] \in Order
      BY <3>2, OrderFacts DEF OrderOK
    <3>4. QED
      BY <3>1, <3>2, <3>3 DEF Canceled, IsActive, ActiveStatuses, Order
  <2>2. QED
    BY <2>1
<1>9. LiveOrdersFromOnePlan'
  BY <1>4, <1>5, <1>8 DEF LiveOrdersFromOnePlan
<1>10. ASSUME NEW id \in LiveOrders'
       PROVE  /\ id \in created
              /\ Remaining(orders'[id]) = plan[Side(id)].quantity
              /\ orders'[id].reduceOnly = plan[Side(id)].reduceOnly
  BY <1>5, <1>8 DEF Remaining
<1>11. ReduceOnlyCovered'
  BY <1>1, <1>4, <1>10 DEF ReduceOnlyCovered, PlanFits
<1>12. ExposureBounded'
  BY <1>1, <1>4, <1>10 DEF ExposureBounded, PlanFits
<1>13. QED
  BY <1>7, <1>9, <1>11, <1>12

LEMMA ExecutionInv ==
  ASSUME LifecycleInv, NEW id \in DOMAIN orders, NEW cumulative \in Nat,
         NEW status, ApplyExecution(id, cumulative, status),
         matching' \subseteq matching \ {id}, mark' \in Prices \cup {0}
  PROVE  LifecycleInv'
<1> DEFINE o == orders[id]
           n == [o EXCEPT !.filled = cumulative, !.status = status]
           delta == cumulative - o.filled
           s == Side(id)
<1> USE DEF LifecycleInv
<1>1. /\ OrderOK(id, o)
      /\ s \in Sides
      /\ Remaining(o) \in Nat
      /\ id[1] \in Nat /\ id[1] <= plans
      /\ o.created <= cycle
  BY OrderFacts
<1>2. /\ o.status \notin {"CANCELED", "EXPIRED"}
      /\ status \in {"PARTIALLY_FILLED", "FILLED"}
      /\ o.filled <= cumulative
      /\ cumulative <= o.quantity
      /\ status = "FILLED" => cumulative = o.quantity
      /\ o.reduceOnly => delta <= position[s]
      /\ position' = [position EXCEPT ![s] = IF o.reduceOnly THEN @ - delta
                                                             ELSE @ + delta]
      /\ orders' = [orders EXCEPT ![id] = n]
      /\ plans' = plans /\ cycle' = cycle
  BY DEF ApplyExecution, ExecutionAccepted
<1>3. /\ o.quantity \in Nat /\ o.filled \in Nat /\ delta \in Nat
      /\ o.reduceOnly \in BOOLEAN
      /\ position \in [Sides -> Nat]
  BY <1>1, <1>2 DEF OrderOK, Order, TypeOK, Positions
<1>4. /\ n \in Order
      /\ n.filled = cumulative /\ n.status = status
      /\ n.quantity = o.quantity /\ n.reduceOnly = o.reduceOnly
      /\ n.created = o.created
      /\ Remaining(n) = o.quantity - cumulative
      /\ Remaining(n) = Remaining(o) - delta
  <2>1. o \in Order /\ status \in {"PARTIALLY_FILLED", "FILLED"}
    BY <1>1, <1>2 DEF OrderOK
  <2> HIDE DEF o
  <2>2. n = [o EXCEPT !.filled = cumulative, !.status = status]
    OBVIOUS
  <2> HIDE DEF n
  <2>3. /\ n \in Order
        /\ n.filled = cumulative /\ n.status = status
        /\ n.quantity = o.quantity /\ n.reduceOnly = o.reduceOnly
        /\ n.created = o.created
    BY <2>1, <2>2 DEF Order, ActiveStatuses, TerminalStatuses
  <2>4. Remaining(n) = o.quantity - cumulative
    BY <2>3 DEF Remaining
  <2>5. Remaining(n) = Remaining(o) - delta
    BY <1>3, <2>4 DEF Remaining
  <2>6. QED
    BY <2>3, <2>4, <2>5
<1>5. /\ DOMAIN orders' = DOMAIN orders
      /\ orders'[id] = n
      /\ \A x \in DOMAIN orders : x # id => orders'[x] = orders[x]
  BY <1>2
<1> HIDE DEF n
<1>6. TypeOK'
  <2>1. position' \in Positions
    BY <1>1, <1>2, <1>3 DEF Positions
  <2>2. ASSUME NEW x \in DOMAIN orders'
        PROVE  /\ orders'[x] \in Order
               /\ orders'[x].filled <= orders'[x].quantity
               /\ orders'[x].status = "FILLED" => Remaining(orders'[x]) = 0
               /\ x[1] <= plans' /\ orders'[x].created <= cycle'
    <3>1. CASE x = id
      BY <1>1, <1>2, <1>3, <1>4, <1>5, <3>1
    <3>2. CASE x # id
      BY <1>2, <1>5, <3>2 DEF TypeOK
    <3>3. QED
      BY <3>1, <3>2
  <2>3. matching' \subseteq ActiveOrders'
    <3>1. ASSUME NEW x \in matching'
          PROVE  x \in ActiveOrders'
      <4>1. x # id /\ x \in ActiveOrders
        BY <3>1 DEF TypeOK
      <4>2. QED
        BY <1>5, <4>1 DEF ActiveOrders
    <3>2. QED
      BY <3>1
  <2>4. QED
    BY <1>2, <1>5, <2>1, <2>2, <2>3 DEF TypeOK
<1>7. ASSUME Remaining(o) > 0
      PROVE  id \in LiveOrders
  BY <1>1, <1>2, <1>7
     DEF LiveOrders, ActiveOrders, IsActive, OrderOK, Order, ActiveStatuses,
         TerminalStatuses
<1>8. LiveOrders' \subseteq LiveOrders
  <2>1. ASSUME NEW x \in LiveOrders' PROVE x \in LiveOrders
    <3>1. CASE x = id
      BY <1>1, <1>3, <1>4, <1>5, <1>7, <3>1 DEF LiveOrders, ActiveOrders
    <3>2. CASE x # id
      BY <1>5, <3>2 DEF LiveOrders, ActiveOrders
    <3>3. QED
      BY <3>1, <3>2
  <2>2. QED
    BY <2>1
<1>9. LiveOrdersFromOnePlan'
  <2>1. ASSUME NEW x \in LiveOrders' PROVE orders'[x].created = orders[x].created
    BY <1>4, <1>5, <1>8 DEF LiveOrders, ActiveOrders
  <2>2. QED
    BY <1>8, <2>1 DEF LiveOrdersFromOnePlan
<1>10. ASSUME NEW x \in LiveOrders', x # id
       PROVE  /\ orders'[x] = orders[x]
              /\ Side(x) \in Sides
              /\ position'[Side(x)] = position[Side(x)]
  <2>1. x \in LiveOrders /\ x \in DOMAIN orders
    BY <1>8 DEF LiveOrders, ActiveOrders
  <2>2. orders'[x] = orders[x] /\ Side(x) \in Sides
    BY <1>5, <1>10, <2>1, OrderFacts
  <2>3. CASE delta = 0
    BY <1>1, <1>2, <1>3, <2>2, <2>3
  <2>4. CASE delta > 0
    <3>1. id \in LiveOrders
      BY <1>2, <1>3, <1>7, <2>4 DEF Remaining
    <3>2. Side(x) # s
      BY <1>10, <2>1, <3>1, OneLivePerSide DEF OneLiveOrderPerSide
    <3>3. QED
      BY <1>1, <1>2, <1>3, <2>2, <3>2
  <2>5. QED
    BY <1>3, <2>3, <2>4
<1>11. /\ position'[s] = IF o.reduceOnly THEN position[s] - delta
                                         ELSE position[s] + delta
       /\ position[s] \in Nat
  BY <1>1, <1>2, <1>3
<1>12. ReduceOnlyCovered'
  <2>1. ASSUME NEW x \in LiveOrders', orders'[x].reduceOnly
        PROVE  Remaining(orders'[x]) <= position'[Side(x)]
    <3>1. CASE x = id
      <4>1. Remaining(o) <= position[s]
        BY <1>4, <1>5, <1>8, <2>1, <3>1 DEF ReduceOnlyCovered
      <4>2. QED
        BY <1>1, <1>3, <1>4, <1>5, <1>11, <2>1, <3>1, <4>1
    <3>2. CASE x # id
      BY <1>8, <1>10, <2>1, <3>2 DEF ReduceOnlyCovered
    <3>3. QED
      BY <3>1, <3>2
  <2>2. QED
    BY <2>1 DEF ReduceOnlyCovered
<1>13. ExposureBounded'
  <2>1. position'[s] <= ExposureCap
    <3>1. CASE o.reduceOnly
      BY <1>1, <1>3, <1>11, <3>1, CapAssumption DEF ExposureBounded
    <3>2. CASE ~o.reduceOnly /\ delta = 0
      BY <1>1, <1>11, <3>2 DEF ExposureBounded
    <3>3. CASE ~o.reduceOnly /\ delta > 0
      <4>1. id \in LiveOrders
        BY <1>2, <1>3, <1>7, <3>3 DEF Remaining
      <4>2. position[s] + Remaining(o) <= ExposureCap
        BY <3>3, <4>1 DEF ExposureBounded
      <4>3. delta <= Remaining(o)
        BY <1>2, <1>3 DEF Remaining
      <4>4. QED
        BY <1>1, <1>3, <1>11, <3>3, <4>2, <4>3, CapAssumption
    <3>4. QED
      BY <1>3, <3>1, <3>2, <3>3
  <2>2. \A t \in Sides : position'[t] <= ExposureCap
    BY <1>2, <1>3, <2>1 DEF ExposureBounded
  <2>3. ASSUME NEW x \in LiveOrders', ~orders'[x].reduceOnly
        PROVE  position'[Side(x)] + Remaining(orders'[x]) <= ExposureCap
    <3>1. CASE x = id
      <4>1. position[s] + Remaining(o) <= ExposureCap
        BY <1>4, <1>5, <1>8, <2>3, <3>1 DEF ExposureBounded
      <4>2. QED
        BY <1>1, <1>3, <1>4, <1>5, <1>11, <2>3, <3>1, <4>1
    <3>2. CASE x # id
      BY <1>8, <1>10, <2>3, <3>2 DEF ExposureBounded
    <3>3. QED
      BY <3>1, <3>2
  <2>4. QED
    BY <2>2, <2>3 DEF ExposureBounded
<1>14. QED
  BY <1>6, <1>9, <1>12, <1>13

(* Steps that leave positions alone and change no order but to withdraw    *)
(* working ones.                                                           *)
LEMMA ExpireInv ==
  ASSUME LifecycleInv, matching = {}, NEW ids \in SUBSET ActiveOrders,
         ExpireOrders(ids)
  PROVE  LifecycleInv'
<1> USE DEF LifecycleInv
<1>1. /\ orders' = [id \in DOMAIN orders |->
                      IF id \in ids THEN [orders[id] EXCEPT !.status = "EXPIRED"]
                                    ELSE orders[id]]
      /\ UNCHANGED <<position, plans, cycle, mark, matching>>
  BY DEF ExpireOrders
<1>2. DOMAIN orders' = DOMAIN orders
  BY <1>1
<1>3. ASSUME NEW id \in DOMAIN orders
      PROVE  /\ OrderOK(id, orders'[id])
             /\ orders'[id].created = orders[id].created
             /\ IsActive(orders'[id]) => orders'[id] = orders[id]
  <2>1. OrderOK(id, orders[id])
    BY OrderFacts
  <2>2. CASE id \in ids
    BY <1>1, <2>1, <2>2
       DEF OrderOK, Order, Remaining, IsActive, ActiveStatuses, TerminalStatuses
  <2>3. CASE id \notin ids
    BY <1>1, <2>1, <2>3
  <2>4. QED
    BY <2>2, <2>3
<1>4. TypeOK'
  BY <1>1, <1>2, <1>3 DEF TypeOK, OrderOK
<1>5. ASSUME NEW id \in LiveOrders'
      PROVE  id \in LiveOrders /\ orders'[id] = orders[id]
  BY <1>2, <1>3 DEF LiveOrders, ActiveOrders
<1>6. position' = position
  BY <1>1
<1>7. LiveOrdersFromOnePlan'
  BY <1>5 DEF LiveOrdersFromOnePlan
<1>8. ReduceOnlyCovered'
  BY <1>5, <1>6 DEF ReduceOnlyCovered
<1>9. ExposureBounded'
  BY <1>5, <1>6 DEF ExposureBounded
<1>10. QED
  BY <1>4, <1>7, <1>8, <1>9

-----------------------------------------------------------------------------
LEMMA NextInv == LifecycleInv /\ [Next]_vars => LifecycleInv'
<1> SUFFICES ASSUME LifecycleInv, [Next]_vars PROVE LifecycleInv'
  OBVIOUS
<1>1. /\ position \in Positions
      /\ \A s \in Sides : position[s] <= ExposureCap
      /\ ExposureCap \in Nat
  BY CapAssumption DEF LifecycleInv, TypeOK, ExposureBounded
<1>2. ASSUME NEW p \in Prices, NEW t \in Targets, OpeningTick(t, p)
      PROVE  LifecycleInv'
  <2>1. p \in Nat \ {0} /\ t \in Nat \ {0} /\ t <= ExposureCap
    BY PricesAssumption, TargetsAssumption, CapAssumption
  <2>2. PlanFits(PlanOpening(t, Tolerance, position), position, ExposureCap)
    BY <1>1, <2>1, ToleranceAssumption, OpeningPlanFits
  <2>3. QED
    BY <1>2, <2>1, <2>2, ReplaceInv DEF OpeningTick
<1>3. ASSUME NEW p \in Prices, NEW r \in BOOLEAN, ExitTick(r, p)
      PROVE  LifecycleInv'
  <2>1. p \in Nat \ {0}
    BY PricesAssumption
  <2>2. PlanFits(PlanExit(Tolerance, position, r), position, ExposureCap)
    BY <1>1, ToleranceAssumption, ExitPlanFits
  <2>3. QED
    BY <1>3, <2>1, <2>2, ReplaceInv DEF ExitTick
<1>4. ASSUME NEW p \in Prices, HardRiskTick(p)
      PROVE  LifecycleInv'
  <2>1. p \in Nat \ {0}
    BY PricesAssumption
  <2>2. PlanFits(RiskReductionPlan(position), position, ExposureCap)
    BY <1>1, RiskPlanFits
  <2>3. QED
    BY <1>4, <2>1, <2>2, ReplaceInv DEF HardRiskTick
<1>5. ASSUME NEW p \in Prices, BeginMatch(p)
      PROVE  LifecycleInv'
  BY <1>5 DEF BeginMatch, LifecycleInv, TypeOK, LiveOrdersFromOnePlan,
              ReduceOnlyCovered, ExposureBounded, LiveOrders, ActiveOrders
<1>6. ASSUME NEW id \in DOMAIN orders,
             NEW c \in orders[id].filled..orders[id].quantity,
             NEW st \in {"PARTIALLY_FILLED", "FILLED"}, Execute(id, c, st)
      PROVE  LifecycleInv'
  <2>1. c \in Nat
    BY <1>6, OrderFacts DEF LifecycleInv, OrderOK, Order
  <2>2. /\ ApplyExecution(id, c, st)
        /\ matching' \subseteq matching \ {id}
        /\ mark' \in Prices \cup {0}
    BY <1>6 DEF Execute, LifecycleInv, TypeOK
  <2>3. QED
    BY <2>1, <2>2, ExecutionInv
<1>7. ASSUME NEW id \in matching, MatchOrder(id)
      PROVE  LifecycleInv'
  <2>1. id \in DOMAIN orders
    BY DEF LifecycleInv, TypeOK, ActiveOrders
  <2>2. /\ orders[id].filled \in Nat
        /\ Remaining(orders[id]) \in Nat
    BY <2>1, OrderFacts DEF LifecycleInv, OrderOK, Order
  <2>3. PICK delta \in MatchDeltas(id) :
          LET cumulative == orders[id].filled + delta
          IN ApplyExecution(id, cumulative,
                            IF cumulative = orders[id].quantity
                              THEN "FILLED" ELSE "PARTIALLY_FILLED")
    BY <1>7 DEF MatchOrder
  <2>4. orders[id].filled + delta \in Nat
    BY <2>2, FillDeltasBounded
  <2>5. matching' \subseteq matching \ {id} /\ mark' \in Prices \cup {0}
    BY <1>7 DEF MatchOrder, LifecycleInv, TypeOK
  <2>6. QED
    BY <2>1, <2>3, <2>4, <2>5, ExecutionInv
<1>8. CASE AdvanceCycle
  <2>1. TypeOK'
    BY <1>8, BoundsAssumption DEF AdvanceCycle, LifecycleInv, TypeOK, ActiveOrders, Order
  <2>2. QED
    BY <1>8, <2>1 DEF AdvanceCycle, LifecycleInv, LiveOrdersFromOnePlan,
                ReduceOnlyCovered, ExposureBounded, LiveOrders, ActiveOrders
<1>9. CASE ExpireOlderThan
  BY <1>9, ExpireInv DEF ExpireOlderThan, Overdue
<1>10. CASE UNCHANGED vars
  BY <1>10 DEF vars, LifecycleInv, TypeOK, LiveOrdersFromOnePlan,
               ReduceOnlyCovered, ExposureBounded, LiveOrders, ActiveOrders
<1>11. QED
  BY <1>2, <1>3, <1>4, <1>5, <1>6, <1>7, <1>8, <1>9, <1>10 DEF Next

(* The inductive invariant holds in every reachable state.                 *)
THEOREM LifecycleInvariant == Spec => []LifecycleInv
<1>1. QED
  BY InitInv, NextInv, PTL DEF Spec

(* Orders, quantities and counters keep their types, and an order is never *)
(* filled beyond its quantity.                                             *)
THEOREM TypeCorrect == Spec => []TypeOK
<1>1. LifecycleInv => TypeOK
  BY DEF LifecycleInv
<1>2. QED
  BY <1>1, LifecycleInvariant, PTL

(* The working orders are those of one plan.                               *)
THEOREM LiveOrdersOfOnePlan == Spec => []LiveOrdersFromOnePlan
<1>1. LifecycleInv => LiveOrdersFromOnePlan
  BY DEF LifecycleInv
<1>2. QED
  BY <1>1, LifecycleInvariant, PTL

(* A working reduce-only order is covered by the quantity it reduces.      *)
THEOREM ReductionsCovered == Spec => []ReduceOnlyCovered
<1>1. LifecycleInv => ReduceOnlyCovered
  BY DEF LifecycleInv
<1>2. QED
  BY <1>1, LifecycleInvariant, PTL

(* A match never stops half way on a refused execution.                    *)
THEOREM MatchesComplete == Spec => []MatchNeverRaises
<1>1. LifecycleInv => MatchNeverRaises
  BY MatchAccepted
<1>2. QED
  BY <1>1, LifecycleInvariant, PTL

(* Held and working quantities never exceed the largest target.            *)
THEOREM ExposureStaysBounded == Spec => []ExposureBounded
<1>1. LifecycleInv => ExposureBounded
  BY DEF LifecycleInv
<1>2. QED
  BY <1>1, LifecycleInvariant, PTL

-----------------------------------------------------------------------------
(* Refinement                                                              *)

NoOrder == [remaining |-> 0, reduceOnly |-> FALSE]
SlotFor(o) == [remaining |-> Remaining(o), reduceOnly |-> o.reduceOnly]

(* The slot of a side is empty or that of the side's one working order.    *)
SlotsOfOrders ==
  \A s \in Sides :
    /\ LiveOn(s) = {} => SlotOf(s) = NoOrder
    /\ \A id \in LiveOn(s) : SlotOf(s) = SlotFor(orders[id])

LEMMA SlotsAreOrders == LifecycleInv => SlotsOfOrders
<1> SUFFICES ASSUME LifecycleInv, NEW s \in Sides
             PROVE  /\ LiveOn(s) = {} => SlotOf(s) = NoOrder
                    /\ \A id \in LiveOn(s) : SlotOf(s) = SlotFor(orders[id])
  BY DEF SlotsOfOrders
<1>1. LiveOn(s) = {} => SlotOf(s) = NoOrder
  BY DEF SlotOf, NoOrder
<1>2. ASSUME NEW id \in LiveOn(s) PROVE SlotOf(s) = SlotFor(orders[id])
  <2>1. \A x \in LiveOn(s) : x = id
    BY OneLivePerSide DEF LifecycleInv, OneLiveOrderPerSide, LiveOn
  <2>2. (CHOOSE x \in LiveOn(s) : TRUE) = id
    BY <2>1
  <2> QED BY <2>2 DEF SlotOf, SlotFor
<1> QED BY <1>1, <1>2

LEMMA SlotsAreOrdersAfter == LifecycleInv' => SlotsOfOrders'
BY SlotsAreOrders, PTL

LEMMA SlotInit == Init => Abstract!Init
<1> SUFFICES ASSUME Init PROVE Abstract!Init
  OBVIOUS
<1>1. LiveOrders = {}
  BY DEF Init, LiveOrders, ActiveOrders
<1>2. \A s \in Sides : SlotOf(s) = [remaining |-> 0, reduceOnly |-> FALSE]
  BY <1>1 DEF SlotOf, LiveOn
<1> QED BY <1>2 DEF Init, Abstract!Init, Abstract!Idle, Abstract!Sides, Sides

-----------------------------------------------------------------------------
(* Every plan that has an order completes to legs within the tolerance.    *)
LEMMA ExitPlanCompletesNeutral ==
  ASSUME NEW tol \in Nat, NEW pos \in Positions, NEW realized \in BOOLEAN,
         DOMAIN PlanExit(tol, pos, realized) # {}
  PROVE  Imbalance(Completed(pos, PlanExit(tol, pos, realized))) <= tol
<1> DEFINE plan == PlanExit(tol, pos, realized)
           done == Completed(pos, plan)
<1>1. plan # NoOrders
  BY DEF NoOrders
<1>2. CASE Imbalance(pos) <= tol
  <2>1. Imbalance(done) <= Imbalance(pos) /\ Imbalance(pos) \in Nat
    BY ExitPlanAddsNoExposure, Legs
  <2>2. done \in [Sides -> Int]
    <3>1. PlanFits(plan, pos, LargerLeg(pos))
      BY ExitPlanFits, Legs
    <3> QED BY <3>1, Legs DEF PlanFits, Quotes, Completed
  <2>3. Imbalance(done) \in Nat
    BY <2>2 DEF Imbalance, Abs, Sides
  <2> QED BY <1>2, <2>1, <2>3
<1>3. CASE ~(Imbalance(pos) <= tol)
  <2>1. plan = [s \in {MissingSide(pos)} |-> OpenOrder(Imbalance(pos))]
    BY <1>1, <1>3, Legs DEF PlanExit
  <2>2. /\ done[MissingSide(pos)] = LargerLeg(pos)
        /\ \A s \in Sides \ {MissingSide(pos)} : done[s] = pos[s]
    BY <2>1, Legs DEF Completed, OpenOrder
  <2>3. \A s \in Sides : done[s] = LargerLeg(pos)
    BY <2>2 DEF MissingSide, LargerLeg, Sides
  <2>4. Imbalance(done) = 0
    BY <2>3, EqualLegs, Legs
  <2> QED BY <2>4
<1> QED BY <1>2, <1>3

LEMMA RiskPlanCompletesFlat ==
  ASSUME NEW pos \in Positions
  PROVE  Imbalance(Completed(pos, RiskReductionPlan(pos))) = 0
<1>1. \A s \in Sides : Completed(pos, RiskReductionPlan(pos))[s] = 0
  BY Legs DEF Completed, RiskReductionPlan, ReduceOrder
<1> QED BY <1>1, EqualLegs

-----------------------------------------------------------------------------
(* replace_orders is a replacement of both slots.                          *)
LEMMA PlanReplaces ==
  ASSUME LifecycleInv, LifecycleInv', NEW plan, NEW price,
         PlanFits(plan, position, ExposureCap),
         DOMAIN plan # {} => Imbalance(Completed(position, plan)) <= Tolerance,
         ReplaceOrders(plan, price)
  PROVE  Abstract!Replace
<1> DEFINE created == {<<plans + 1, s>> : s \in DOMAIN plan}
           done == Completed(position, plan)
<1>1. /\ orders' = [id \in DOMAIN orders \cup created |->
                      IF id \in created THEN NewOrder(plan[Side(id)], price)
                                        ELSE Canceled(orders[id])]
      /\ UNCHANGED position
  BY DEF ReplaceOrders
<1>2. position \in Positions
  BY DEF LifecycleInv, TypeOK
<1>3. ASSUME NEW s \in Sides
      PROVE  SlotOf(s)' = IF s \in DOMAIN plan
                            THEN [remaining |-> plan[s].quantity,
                                  reduceOnly |-> plan[s].reduceOnly]
                            ELSE NoOrder
  <2>1. CASE s \in DOMAIN plan
    <3> DEFINE id == <<plans + 1, s>>
    <3>1. id \in created /\ Side(id) = s
      BY <2>1 DEF Side
    <3>2. id \in DOMAIN orders' /\ orders'[id] = NewOrder(plan[s], price)
      BY <1>1, <3>1
    <3>3. plan[s].quantity \in Nat \ {0}
      BY <2>1 DEF PlanFits, Quotes
    <3>4. /\ orders'[id].status = "NEW" /\ orders'[id].filled = 0
          /\ orders'[id].quantity = plan[s].quantity
          /\ orders'[id].reduceOnly = plan[s].reduceOnly
      BY <3>2 DEF NewOrder
    <3>5. Remaining(orders'[id]) = plan[s].quantity
      BY <3>3, <3>4 DEF Remaining
    <3> HIDE DEF id
    <3>6. id \in LiveOn(s)'
      BY <3>1, <3>2, <3>3, <3>4, <3>5
         DEF LiveOn, LiveOrders, ActiveOrders, IsActive, ActiveStatuses
    <3>7. SlotOf(s)' = SlotFor(orders'[id])
      BY <3>6, SlotsAreOrdersAfter DEF SlotsOfOrders
    <3> QED BY <2>1, <3>4, <3>5, <3>7 DEF SlotFor
  <2>2. CASE s \notin DOMAIN plan
    <3>1. ASSUME NEW id \in LiveOn(s)' PROVE FALSE
      <4>1. /\ id \in DOMAIN orders' /\ IsActive(orders'[id]) /\ Side(id) = s
        BY <3>1 DEF LiveOn, LiveOrders, ActiveOrders
      <4>2. id \notin created
        BY <2>2, <4>1 DEF Side
      <4>3. id \in DOMAIN orders /\ orders'[id] = Canceled(orders[id])
        BY <1>1, <4>1, <4>2
      <4>4. orders[id] \in Order
        BY <4>3, OrderFacts DEF LifecycleInv, OrderOK
      <4> QED BY <4>1, <4>3, <4>4 DEF Canceled, IsActive, ActiveStatuses, Order
    <3>2. LiveOn(s)' = {}
      BY <3>1
    <3> QED BY <2>2, <3>2, SlotsAreOrdersAfter DEF SlotsOfOrders
  <2> QED BY <2>1, <2>2
<1>4. ASSUME NEW s \in Sides
      PROVE  /\ SlotOf(s)' \in Abstract!Slots
             /\ (IF SlotOf(s)'.reduceOnly THEN position[s] - SlotOf(s)'.remaining
                                          ELSE position[s] + SlotOf(s)'.remaining)
                  = done[s]
             /\ done[s] \in Nat
  <2>1. position[s] \in Nat
    BY <1>2, Legs
  <2>2. CASE s \in DOMAIN plan
    BY <1>3, <2>1, <2>2 DEF PlanFits, Quotes, Completed, Abstract!Slots
  <2>3. CASE s \notin DOMAIN plan
    <3>1. done[s] = position[s]
      BY <2>3, CompletedSide
    <3>2. SlotOf(s)' = NoOrder
      BY <1>3, <2>3
    <3>3. /\ NoOrder \in Abstract!Slots
          /\ NoOrder.reduceOnly = FALSE /\ NoOrder.remaining = 0
      BY DEF NoOrder, Abstract!Slots
    <3> HIDE DEF done
    <3> QED BY <2>1, <3>1, <3>2, <3>3
  <2> QED BY <2>2, <2>3
<1>5. ASSUME NEW s \in Sides, SlotOf(s)' # NoOrder
      PROVE  Imbalance(done) <= Tolerance
  BY <1>3, <1>5
<1>6. [s \in Sides |-> SlotOf(s)'] \in [Abstract!Sides -> Abstract!Slots]
  BY <1>4 DEF Abstract!Sides, Sides
<1> QED BY <1>1, <1>4, <1>5, <1>6
        DEF Abstract!Replace, Abstract!Planned, Abstract!Abs, Abstract!Sides,
            Abstract!Idle, NoOrder, Imbalance, Abs, Sides

-----------------------------------------------------------------------------
(* Steps that change neither orders nor positions change no slot.          *)
LEMMA SameSlots ==
  ASSUME UNCHANGED <<position, orders>>
  PROVE  UNCHANGED Abstract!slotVars
BY DEF Abstract!slotVars, SlotOf, LiveOn, LiveOrders, ActiveOrders, Remaining

(* An execution for nothing new leaves the working orders as they are.     *)
LEMMA RepeatedExecution ==
  ASSUME LifecycleInv, LifecycleInv', NEW id \in DOMAIN orders,
         NEW cumulative \in Nat, NEW status,
         ApplyExecution(id, cumulative, status), cumulative = orders[id].filled
  PROVE  UNCHANGED Abstract!slotVars
<1> DEFINE o == orders[id]
           n == [o EXCEPT !.filled = cumulative, !.status = status]
<1>1. /\ o.status \notin {"CANCELED", "EXPIRED"}
      /\ status \in {"PARTIALLY_FILLED", "FILLED"}
      /\ status = "FILLED" => cumulative = o.quantity
      /\ orders' = [orders EXCEPT ![id] = n]
      /\ position' = [position EXCEPT
                        ![Side(id)] = IF o.reduceOnly
                                        THEN @ - (cumulative - o.filled)
                                        ELSE @ + (cumulative - o.filled)]
  BY DEF ApplyExecution, ExecutionAccepted
<1>2. /\ OrderOK(id, o) /\ Side(id) \in Sides /\ o \in Order
      /\ position \in [Sides -> Nat]
  BY OrderFacts DEF LifecycleInv, OrderOK, TypeOK, Positions
<1>3. position' = position
  BY <1>1, <1>2 DEF Order
<1>4. /\ n.status = status /\ n.filled = o.filled /\ n.quantity = o.quantity
      /\ n.reduceOnly = o.reduceOnly
  BY <1>2 DEF Order
<1>5. /\ Remaining(n) = Remaining(o)
      /\ Remaining(o) > 0 => (IsActive(n) <=> IsActive(o))
  BY <1>1, <1>2, <1>4
     DEF Remaining, IsActive, ActiveStatuses, TerminalStatuses, Order, OrderOK
<1> HIDE DEF n
<1>6. /\ DOMAIN orders' = DOMAIN orders /\ orders'[id] = n
      /\ \A x \in DOMAIN orders : x # id => orders'[x] = orders[x]
  BY <1>1
<1>7. LiveOrders' = LiveOrders
  BY <1>5, <1>6 DEF LiveOrders, ActiveOrders
<1>8. ASSUME NEW s \in Sides PROVE SlotOf(s)' = SlotOf(s)
  <2>1. LiveOn(s)' = LiveOn(s)
    BY <1>7 DEF LiveOn
  <2>2. CASE LiveOn(s) = {}
    BY <2>1, <2>2, SlotsAreOrders, SlotsAreOrdersAfter DEF SlotsOfOrders
  <2>3. ASSUME NEW x \in LiveOn(s) PROVE SlotOf(s)' = SlotOf(s)
    <3>1. x \in DOMAIN orders
      BY DEF LiveOn, LiveOrders, ActiveOrders
    <3>2. SlotFor(orders'[x]) = SlotFor(orders[x])
      BY <1>4, <1>5, <1>6, <3>1 DEF SlotFor
    <3> QED BY <2>1, <3>2, SlotsAreOrders, SlotsAreOrdersAfter DEF SlotsOfOrders
  <2> QED BY <2>2, <2>3
<1> QED BY <1>3, <1>8 DEF Abstract!slotVars, Abstract!Sides, Sides

(* An execution that fills something is a fill of the slot of its side.    *)
LEMMA ExecutionFills ==
  ASSUME LifecycleInv, LifecycleInv', NEW id \in DOMAIN orders,
         NEW cumulative \in Nat, NEW status,
         ApplyExecution(id, cumulative, status), cumulative # orders[id].filled
  PROVE  Abstract!Next
<1> DEFINE o == orders[id]
           n == [o EXCEPT !.filled = cumulative, !.status = status]
           s == Side(id)
           q == cumulative - o.filled
<1>1. /\ o.status \notin {"CANCELED", "EXPIRED"}
      /\ status \in {"PARTIALLY_FILLED", "FILLED"}
      /\ status = "FILLED" => cumulative = o.quantity
      /\ o.filled <= cumulative /\ cumulative <= o.quantity
      /\ orders' = [orders EXCEPT ![id] = n]
      /\ position' = [position EXCEPT
                        ![s] = IF o.reduceOnly THEN @ - q ELSE @ + q]
  BY DEF ApplyExecution, ExecutionAccepted
<1>2. /\ OrderOK(id, o) /\ s \in Sides /\ o \in Order
      /\ o.filled \in Nat /\ o.quantity \in Nat
  BY OrderFacts DEF LifecycleInv, OrderOK, Order
<1>3. /\ n.status = status /\ n.filled = cumulative
      /\ n.quantity = o.quantity /\ n.reduceOnly = o.reduceOnly
  BY <1>2 DEF Order
<1>4. /\ q \in 1..Remaining(o) /\ Remaining(n) = Remaining(o) - q
      /\ Remaining(o) \in Nat
      /\ Remaining(n) > 0 => IsActive(n)
  BY <1>1, <1>2, <1>3 DEF Remaining, IsActive, ActiveStatuses
<1> HIDE DEF n
<1>5. /\ DOMAIN orders' = DOMAIN orders /\ orders'[id] = n
      /\ \A x \in DOMAIN orders : x # id => orders'[x] = orders[x]
  BY <1>1
<1>6. id \in LiveOn(s)
  BY <1>1, <1>2, <1>4
     DEF LiveOn, LiveOrders, ActiveOrders, IsActive, OrderOK, Order,
         ActiveStatuses, TerminalStatuses
<1>7. SlotOf(s) = SlotFor(o)
  BY <1>2, <1>6, SlotsAreOrders DEF SlotsOfOrders
<1>8. \A x \in LiveOn(s) : x = id
  BY <1>6, OneLivePerSide DEF LifecycleInv, OneLiveOrderPerSide, LiveOn
<1>9. SlotOf(s)' = Abstract!Working(Remaining(o) - q, o.reduceOnly)
  <2>1. CASE Remaining(n) > 0
    <3>1. id \in LiveOn(s)'
      BY <1>4, <1>5, <2>1 DEF LiveOn, LiveOrders, ActiveOrders
    <3>2. SlotOf(s)' = SlotFor(n)
      BY <1>2, <1>5, <3>1, SlotsAreOrdersAfter DEF SlotsOfOrders
    <3> QED BY <1>3, <1>4, <2>1, <3>2 DEF SlotFor, Abstract!Working
  <2>2. CASE ~(Remaining(n) > 0)
    <3>1. ASSUME NEW x \in LiveOn(s)' PROVE FALSE
      <4>1. /\ x \in DOMAIN orders /\ Remaining(orders'[x]) > 0
            /\ IsActive(orders'[x]) /\ Side(x) = s
        BY <1>5, <3>1 DEF LiveOn, LiveOrders, ActiveOrders
      <4>2. x # id
        BY <1>5, <2>2, <4>1
      <4>3. x \in LiveOn(s)
        BY <1>5, <4>1, <4>2 DEF LiveOn, LiveOrders, ActiveOrders
      <4> QED BY <1>8, <4>2, <4>3
    <3>2. SlotOf(s)' = NoOrder
      BY <1>2, <3>1, SlotsAreOrdersAfter DEF SlotsOfOrders
    <3>3. Remaining(o) - q = 0
      BY <1>4, <2>2
    <3> QED BY <3>2, <3>3 DEF Abstract!Working, Abstract!Idle, NoOrder
  <2> QED BY <2>1, <2>2
<1>10. ASSUME NEW t \in Sides, t # s PROVE SlotOf(t)' = SlotOf(t)
  <2>1. LiveOn(t)' = LiveOn(t)
    BY <1>5, <1>10 DEF LiveOn, LiveOrders, ActiveOrders
  <2>2. CASE LiveOn(t) = {}
    BY <2>1, <2>2, SlotsAreOrders, SlotsAreOrdersAfter DEF SlotsOfOrders
  <2>3. ASSUME NEW x \in LiveOn(t) PROVE SlotOf(t)' = SlotOf(t)
    <3>1. x \in DOMAIN orders /\ x # id
      BY <1>10 DEF LiveOn, LiveOrders, ActiveOrders
    <3>2. orders'[x] = orders[x]
      BY <1>5, <3>1
    <3> QED BY <2>1, <3>2, SlotsAreOrders, SlotsAreOrdersAfter DEF SlotsOfOrders
  <2> QED BY <2>2, <2>3
<1>11. SlotFor(o).remaining = Remaining(o) /\ SlotFor(o).reduceOnly = o.reduceOnly
  BY DEF SlotFor
<1> HIDE DEF o, q, s
<1>12. Abstract!Fill(s, q)
  BY <1>1, <1>2, <1>4, <1>7, <1>9, <1>10, <1>11
     DEF Abstract!Fill, Abstract!Sides, Sides
<1> QED BY <1>2, <1>4, <1>7, <1>11, <1>12 DEF Abstract!Next, Abstract!Sides, Sides

(* A timeout withdraws the slots whose working order is overdue.           *)
LEMMA ExpiryWithdraws ==
  ASSUME LifecycleInv, LifecycleInv', ExpireOlderThan
  PROVE  Abstract!Next
<1> DEFINE S == {s \in Sides : LiveOn(s) \cap Overdue # {}}
<1>1. /\ position' = position /\ DOMAIN orders' = DOMAIN orders
      /\ \A x \in DOMAIN orders :
           orders'[x] = IF x \in Overdue THEN [orders[x] EXCEPT !.status = "EXPIRED"]
                                         ELSE orders[x]
  BY DEF ExpireOlderThan, ExpireOrders
<1>2. ASSUME NEW x \in DOMAIN orders, x \in Overdue
      PROVE  orders'[x].status = "EXPIRED"
  BY <1>1, <1>2, OrderFacts DEF LifecycleInv, OrderOK, Order
<1>3. LiveOrders' = LiveOrders \ Overdue
  BY <1>1, <1>2 DEF LiveOrders, ActiveOrders, IsActive, ActiveStatuses
<1>4. ASSUME NEW s \in Sides
      PROVE  LiveOn(s)' = LiveOn(s) \ Overdue
  BY <1>3 DEF LiveOn
<1>5. ASSUME NEW s \in S PROVE SlotOf(s)' = NoOrder
  <2>1. PICK id \in LiveOn(s) : id \in Overdue
    OBVIOUS
  <2>2. \A x \in LiveOn(s) : x = id
    BY OneLivePerSide DEF LifecycleInv, OneLiveOrderPerSide, LiveOn
  <2>3. LiveOn(s)' = {}
    BY <1>4, <2>1, <2>2
  <2> QED BY <2>3, SlotsAreOrdersAfter DEF SlotsOfOrders
<1>6. ASSUME NEW s \in Sides, s \notin S PROVE SlotOf(s)' = SlotOf(s)
  <2>1. LiveOn(s)' = LiveOn(s)
    BY <1>4, <1>6
  <2>2. CASE LiveOn(s) = {}
    BY <2>1, <2>2, SlotsAreOrders, SlotsAreOrdersAfter DEF SlotsOfOrders
  <2>3. ASSUME NEW x \in LiveOn(s) PROVE SlotOf(s)' = SlotOf(s)
    <3>1. x \in DOMAIN orders /\ x \notin Overdue
      BY <1>6 DEF LiveOn, LiveOrders, ActiveOrders
    <3>2. orders'[x] = orders[x]
      BY <1>1, <3>1
    <3> QED BY <2>1, <3>2, SlotsAreOrders, SlotsAreOrdersAfter DEF SlotsOfOrders
  <2> QED BY <2>2, <2>3
<1> S \in SUBSET Sides
  OBVIOUS
<1> HIDE DEF S
<1>7. Abstract!Withdraw(S)
  BY <1>1, <1>5, <1>6
     DEF Abstract!Withdraw, Abstract!Sides, Sides, Abstract!Idle, NoOrder
<1> QED BY <1>7 DEF Abstract!Next, Abstract!Sides, Sides

(* A tick replaces both slots by what its plan leaves neutral.             *)
LEMMA TicksReplace ==
  ASSUME LifecycleInv, LifecycleInv', NEW p \in Prices,
         \/ \E t \in Targets : OpeningTick(t, p)
         \/ \E realized \in BOOLEAN : ExitTick(realized, p)
         \/ HardRiskTick(p)
  PROVE  Abstract!Replace
<1>1. /\ position \in Positions /\ Tolerance \in Nat /\ ExposureCap \in Nat
      /\ \A s \in Sides : position[s] <= ExposureCap
  BY ToleranceAssumption, CapAssumption DEF LifecycleInv, TypeOK, ExposureBounded
<1>2. ASSUME NEW t \in Targets, OpeningTick(t, p) PROVE Abstract!Replace
  <2> DEFINE plan == PlanOpening(t, Tolerance, position)
  <2>1. t \in Nat \ {0} /\ t <= ExposureCap
    BY TargetsAssumption, CapAssumption
  <2>2. PlanFits(plan, position, ExposureCap)
    BY <1>1, <2>1, OpeningPlanFits
  <2>3. TargetReached(t, Tolerance, position) => DOMAIN plan = {}
    BY DEF PlanOpening, NoOrders
  <2>4. ~TargetReached(t, Tolerance, position)
          => Imbalance(Completed(position, plan)) <= Tolerance
    BY <1>1, <2>1, OpeningPlanCompletesNeutral
  <2>5. ReplaceOrders(plan, p)
    BY <1>2 DEF OpeningTick
  <2> HIDE DEF plan
  <2> QED BY <2>2, <2>3, <2>4, <2>5, PlanReplaces
<1>3. ASSUME NEW realized \in BOOLEAN, ExitTick(realized, p)
      PROVE  Abstract!Replace
  <2> DEFINE plan == PlanExit(Tolerance, position, realized)
  <2>1. PlanFits(plan, position, ExposureCap)
    BY <1>1, ExitPlanFits
  <2>2. DOMAIN plan # {} => Imbalance(Completed(position, plan)) <= Tolerance
    BY <1>1, ExitPlanCompletesNeutral
  <2>3. ReplaceOrders(plan, p)
    BY <1>3 DEF ExitTick
  <2> HIDE DEF plan
  <2> QED BY <2>1, <2>2, <2>3, PlanReplaces
<1>4. ASSUME HardRiskTick(p) PROVE Abstract!Replace
  <2> DEFINE plan == RiskReductionPlan(position)
  <2>1. PlanFits(plan, position, ExposureCap)
    BY <1>1, RiskPlanFits
  <2>2. Imbalance(Completed(position, plan)) <= Tolerance
    BY <1>1, RiskPlanCompletesFlat
  <2>3. ReplaceOrders(plan, p)
    BY <1>4 DEF HardRiskTick
  <2> HIDE DEF plan
  <2> QED BY <2>1, <2>2, <2>3, PlanReplaces
<1> QED BY <1>2, <1>3, <1>4

(* What Execute and an iteration of a match apply.                         *)
LEMMA Executions ==
  ASSUME LifecycleInv,
         \/ \E id \in DOMAIN orders :
              \E c \in orders[id].filled..orders[id].quantity :
                \E st \in {"PARTIALLY_FILLED", "FILLED"} : Execute(id, c, st)
         \/ \E id \in matching : MatchOrder(id)
  PROVE  \E id \in DOMAIN orders, c \in Nat, st \in {"PARTIALLY_FILLED", "FILLED"} :
           ApplyExecution(id, c, st)
<1>1. ASSUME NEW id \in DOMAIN orders
      PROVE  orders[id].filled \in Nat /\ orders[id].quantity \in Nat
  BY OrderFacts DEF LifecycleInv, OrderOK, Order
<1>2. ASSUME NEW id \in DOMAIN orders,
             NEW c \in orders[id].filled..orders[id].quantity,
             NEW st \in {"PARTIALLY_FILLED", "FILLED"}, Execute(id, c, st)
      PROVE  c \in Nat /\ ApplyExecution(id, c, st)
  BY <1>1, <1>2 DEF Execute
<1>3. ASSUME NEW id \in matching, MatchOrder(id)
      PROVE  \E c \in Nat, st \in {"PARTIALLY_FILLED", "FILLED"} :
               id \in DOMAIN orders /\ ApplyExecution(id, c, st)
  <2>1. id \in DOMAIN orders
    BY DEF LifecycleInv, TypeOK, ActiveOrders
  <2>2. PICK d \in MatchDeltas(id) :
          ApplyExecution(id, orders[id].filled + d,
                         IF orders[id].filled + d = orders[id].quantity
                           THEN "FILLED" ELSE "PARTIALLY_FILLED")
    BY <1>3 DEF MatchOrder
  <2>3. Remaining(orders[id]) \in Nat
    BY <2>1, OrderFacts DEF LifecycleInv
  <2>4. orders[id].filled + d \in Nat
    BY <1>1, <2>1, <2>3, FillDeltasBounded
  <2> QED BY <2>1, <2>2, <2>4
<1> QED BY <1>2, <1>3

LEMMA NextImplementsSlots ==
  LifecycleInv /\ LifecycleInv' /\ [Next]_vars => [Abstract!Next]_(Abstract!slotVars)
<1> SUFFICES ASSUME LifecycleInv, LifecycleInv', [Next]_vars
             PROVE  [Abstract!Next]_(Abstract!slotVars)
  OBVIOUS
<1>1. ASSUME NEW p \in Prices,
             \/ \E t \in Targets : OpeningTick(t, p)
             \/ \E realized \in BOOLEAN : ExitTick(realized, p)
             \/ HardRiskTick(p)
      PROVE  Abstract!Next
  BY <1>1, TicksReplace DEF Abstract!Next
<1>2. ASSUME NEW id \in DOMAIN orders, NEW c \in Nat,
             NEW st \in {"PARTIALLY_FILLED", "FILLED"}, ApplyExecution(id, c, st)
      PROVE  [Abstract!Next]_(Abstract!slotVars)
  BY <1>2, RepeatedExecution, ExecutionFills
<1>3. CASE ExpireOlderThan
  BY <1>3, ExpiryWithdraws
<1>4. ASSUME UNCHANGED <<position, orders>>
      PROVE  [Abstract!Next]_(Abstract!slotVars)
  BY <1>4, SameSlots
<1>5. ASSUME NEW p \in Prices, BeginMatch(p) PROVE UNCHANGED <<position, orders>>
  BY <1>5 DEF BeginMatch
<1>6. AdvanceCycle \/ UNCHANGED vars => UNCHANGED <<position, orders>>
  BY DEF AdvanceCycle, vars
<1> QED BY <1>1, <1>2, <1>3, <1>4, <1>5, <1>6, Executions DEF Next

(* Positions move only by fills of the one working order of a side, and    *)
(* new orders complete to a neutral hedge: the lifecycle implements the    *)
(* slots it promises.                                                      *)
THEOREM LifecycleImplementsSlots == Spec => ImplementsQuoteSlots
<1> QED BY SlotInit, NextImplementsSlots, LifecycleInvariant, PTL
        DEF Spec, ImplementsQuoteSlots, Abstract!Spec

-----------------------------------------------------------------------------
(* No step takes an order back: executions are cumulative, what was        *)
(* canceled or expired stays as it is, and what was filled is not withdrawn*)
OrdersProgress ==
  \A id \in DOMAIN orders :
    /\ id \in DOMAIN orders'
    /\ orders'[id].filled >= orders[id].filled
    /\ orders'[id].quantity = orders[id].quantity
    /\ orders'[id].price = orders[id].price
    /\ orders'[id].reduceOnly = orders[id].reduceOnly
    /\ orders[id].status \in {"CANCELED", "EXPIRED"} => orders'[id] = orders[id]
    /\ orders[id].status = "FILLED"
         => orders'[id].status \notin {"CANCELED", "EXPIRED"}

LEMMA PlanProgress ==
  ASSUME LifecycleInv, NEW plan, NEW price, ReplaceOrders(plan, price)
  PROVE  OrdersProgress
<1> DEFINE created == {<<plans + 1, s>> : s \in DOMAIN plan}
<1>1. ASSUME NEW id \in DOMAIN orders
      PROVE  /\ id \in DOMAIN orders'
             /\ orders'[id] = Canceled(orders[id])
             /\ orders[id] \in Order
  <2>1. id[1] \in Nat /\ id[1] <= plans /\ orders[id] \in Order
    BY OrderFacts DEF LifecycleInv, OrderOK
  <2>2. plans \in Nat
    BY BoundsAssumption DEF LifecycleInv, TypeOK
  <2>3. id \notin created
    BY <2>1, <2>2
  <2> QED BY <2>1, <2>3 DEF ReplaceOrders
<1>2. ASSUME NEW o \in Order
      PROVE  /\ Canceled(o).filled >= o.filled
             /\ Canceled(o).quantity = o.quantity
             /\ Canceled(o).price = o.price
             /\ Canceled(o).reduceOnly = o.reduceOnly
             /\ o.status \in {"CANCELED", "EXPIRED", "FILLED"}
                  => Canceled(o) = o
  BY DEF Canceled, IsActive, ActiveStatuses, Order
<1> QED BY <1>1, <1>2 DEF OrdersProgress

LEMMA ExecutionProgress ==
  ASSUME LifecycleInv, NEW id \in DOMAIN orders, NEW c \in Nat, NEW st,
         ApplyExecution(id, c, st)
  PROVE  OrdersProgress
<1> DEFINE n == [orders[id] EXCEPT !.filled = c, !.status = st]
<1>1. /\ orders[id].status \notin {"CANCELED", "EXPIRED"}
      /\ st \notin {"CANCELED", "EXPIRED"}
      /\ orders[id].filled <= c
      /\ orders' = [orders EXCEPT ![id] = n]
  BY DEF ApplyExecution, ExecutionAccepted
<1>2. \A x \in DOMAIN orders : orders[x] \in Order
  BY DEF LifecycleInv, TypeOK
<1>3. /\ n.filled = c /\ n.status = st /\ n.quantity = orders[id].quantity
      /\ n.price = orders[id].price /\ n.reduceOnly = orders[id].reduceOnly
  BY <1>2 DEF Order
<1> HIDE DEF n
<1>4. /\ DOMAIN orders' = DOMAIN orders /\ orders'[id] = n
      /\ \A x \in DOMAIN orders : x # id => orders'[x] = orders[x]
  BY <1>1
<1>5. ASSUME NEW x \in DOMAIN orders, x # id
      PROVE  orders'[x] = orders[x] /\ orders[x].filled >= orders[x].filled
  BY <1>2, <1>4, <1>5 DEF Order
<1> QED BY <1>1, <1>3, <1>4, <1>5 DEF OrdersProgress

LEMMA NextProgress == LifecycleInv /\ [Next]_vars => OrdersProgress
<1> SUFFICES ASSUME LifecycleInv, [Next]_vars PROVE OrdersProgress
  OBVIOUS
<1>1. \A x \in DOMAIN orders : orders[x] \in Order
  BY DEF LifecycleInv, TypeOK
<1>2. orders' = orders => OrdersProgress
  BY <1>1 DEF OrdersProgress, Order
<1>3. ASSUME NEW plan, NEW p, ReplaceOrders(plan, p) PROVE OrdersProgress
  BY <1>3, PlanProgress
<1>4. ASSUME NEW id \in DOMAIN orders, NEW c \in Nat,
             NEW st \in {"PARTIALLY_FILLED", "FILLED"}, ApplyExecution(id, c, st)
      PROVE  OrdersProgress
  BY <1>4, ExecutionProgress
<1>5. CASE ExpireOlderThan
  <2>1. /\ DOMAIN orders' = DOMAIN orders
        /\ \A x \in DOMAIN orders :
             orders'[x] = IF x \in Overdue
                            THEN [orders[x] EXCEPT !.status = "EXPIRED"]
                            ELSE orders[x]
    BY <1>5 DEF ExpireOlderThan, ExpireOrders
  <2>2. \A x \in Overdue : orders[x].status \in {"NEW", "PARTIALLY_FILLED"}
    BY DEF Overdue, ActiveOrders, IsActive, ActiveStatuses
  <2> QED BY <1>1, <2>1, <2>2 DEF OrdersProgress, Order
<1>6. /\ \A p \in Prices : BeginMatch(p) => orders' = orders
      /\ AdvanceCycle \/ UNCHANGED vars => orders' = orders
  BY DEF BeginMatch, AdvanceCycle, vars
<1> QED BY <1>2, <1>3, <1>4, <1>5, <1>6, Executions
        DEF Next, OpeningTick, ExitTick, HardRiskTick

(* A canceled or expired order is never changed again, no timeout and no   *)
(* replacement withdraws a FILLED one, and no order loses fills or changes *)
(* what it was created as.                                                 *)
THEOREM OrdersOnlyGoForward == Spec => OrdersOnlyProgress
<1>1. LifecycleInv /\ [Next]_vars
        => [\A id \in DOMAIN orders :
             /\ id \in DOMAIN orders'
             /\ orders'[id].filled >= orders[id].filled
             /\ orders'[id].quantity = orders[id].quantity
             /\ orders'[id].price = orders[id].price
             /\ orders'[id].reduceOnly = orders[id].reduceOnly
             /\ orders[id].status \in {"CANCELED", "EXPIRED"}
                  => orders'[id] = orders[id]
             /\ orders[id].status = "FILLED"
                  => orders'[id].status \notin {"CANCELED", "EXPIRED"}]_vars
  BY NextProgress DEF OrdersProgress
<1> QED BY <1>1, LifecycleInvariant, PTL DEF Spec, OrdersOnlyProgress

-----------------------------------------------------------------------------
(* Quantities as numbers of lots.                                          *)

(* The lots from one above a to b of one order are b - a.                  *)
LEMMA LotsOfOne ==
  ASSUME NEW x, NEW a \in Nat, NEW b \in Nat, a <= b
  PROVE  /\ IsFiniteSet({x} \X (a+1..b))
         /\ Cardinality({x} \X (a+1..b)) = b - a
<1> DEFINE f == [k \in a+1..b |-> <<x, k>>]
<1>1. f \in Bijection(a+1..b, {x} \X (a+1..b))
  <2>1. f \in [a+1..b -> {x} \X (a+1..b)]
    OBVIOUS
  <2>2. \A k, l \in a+1..b : f[k] = f[l] => k = l
    OBVIOUS
  <2>3. \A t \in {x} \X (a+1..b) : \E k \in a+1..b : f[k] = t
    <3>1. ASSUME NEW t \in {x} \X (a+1..b) PROVE t[2] \in a+1..b /\ f[t[2]] = t
      OBVIOUS
    <3> QED BY <3>1
  <2> HIDE DEF f
  <2> QED BY <2>1, <2>2, <2>3 DEF Bijection, Injection, Surjection, IsInjective
<1>2. ExistsBijection(a+1..b, {x} \X (a+1..b))
  BY <1>1 DEF ExistsBijection
<1>3. /\ IsFiniteSet(a+1..b)
      /\ Cardinality(a+1..b) = b - a
  <2>1. a+1 \in Int /\ b \in Int /\ (a+1 > b => b - a = 0)
    OBVIOUS
  <2>2. /\ IsFiniteSet(a+1..b)
        /\ Cardinality(a+1..b) = IF a+1 > b THEN 0 ELSE b-(a+1)+1
    BY <2>1, FS_Interval
  <2> QED BY <2>1, <2>2
<1> QED BY <1>2, <1>3, FS_Bijection

(* Sets of lots that share none add up.                                    *)
LEMMA LotsAddUp ==
  ASSUME NEW L, NEW N, IsFiniteSet(L), IsFiniteSet(N), L \cap N = {}
  PROVE  /\ IsFiniteSet(L \cup N)
         /\ Cardinality(L \cup N) = Cardinality(L) + Cardinality(N)
<1>1. /\ IsFiniteSet(L \cup N)
      /\ Cardinality(L \cup N) = Cardinality(L) + Cardinality(N) - Cardinality({})
  BY FS_Union
<1>2. Cardinality(L) \in Nat /\ Cardinality(N) \in Nat /\ Cardinality({}) = 0
  BY FS_CardinalityType, FS_EmptySet
<1> QED BY <1>1, <1>2

-----------------------------------------------------------------------------
(* A position is its seed and the lots filled.  That the lots of an order  *)
(* are finitely many is part of the invariant, whose basis is no orders.   *)
FillsInv ==
  /\ PositionMatchesFills
  /\ \A s \in Sides, ro \in BOOLEAN : IsFiniteSet(FilledLots(s, ro))

LEMMA LotsAreOfOrders ==
  ASSUME NEW s, NEW ro, NEW t
  PROVE  t \in FilledLots(s, ro)
           <=> \E id \in DOMAIN orders :
                 /\ Side(id) = s
                 /\ orders[id].reduceOnly = ro
                 /\ t \in {id} \X (1..orders[id].filled)
BY DEF FilledLots

LEMMA LotsAreOfOrdersAfter ==
  ASSUME NEW s, NEW ro, NEW t
  PROVE  t \in FilledLots(s, ro)'
           <=> \E id \in DOMAIN orders' :
                 /\ Side(id) = s
                 /\ orders'[id].reduceOnly = ro
                 /\ t \in {id} \X (1..orders'[id].filled)
BY DEF FilledLots

(* A step that fills nothing keeps every order's lots.                     *)
LEMMA NothingFilled ==
  ASSUME FillsInv, position' = position,
         DOMAIN orders \subseteq DOMAIN orders',
         \A id \in DOMAIN orders :
           /\ orders'[id].filled = orders[id].filled
           /\ orders'[id].reduceOnly = orders[id].reduceOnly,
         \A id \in DOMAIN orders' \ DOMAIN orders : orders'[id].filled = 0
  PROVE  FillsInv'
<1>1. ASSUME NEW s, NEW ro PROVE FilledLots(s, ro)' = FilledLots(s, ro)
  <2>1. ASSUME NEW t PROVE t \in FilledLots(s, ro)' <=> t \in FilledLots(s, ro)
    <3>1. ASSUME NEW id \in DOMAIN orders' \ DOMAIN orders
          PROVE  t \notin {id} \X (1..orders'[id].filled)
      BY 1..0 = {}
    <3> QED BY <3>1, LotsAreOfOrders, LotsAreOfOrdersAfter
  <2> QED BY <2>1
<1> QED BY <1>1 DEF FillsInv, PositionMatchesFills

(* An accepted execution adds the lots from the last report to this one.   *)
LEMMA ExecutionAddsLots ==
  ASSUME LifecycleInv, FillsInv,
         NEW id \in DOMAIN orders, NEW c \in Nat, NEW st,
         ApplyExecution(id, c, st)
  PROVE  FillsInv'
<1> PICK a, z, r : /\ a = orders[id].filled
                   /\ z = Side(id)
                   /\ r = orders[id].reduceOnly
  OBVIOUS
<1>1. /\ a \in Nat /\ a <= c /\ z \in Sides /\ r \in BOOLEAN
      /\ position \in [Sides -> Nat]
      /\ position' = [position EXCEPT ![z] = IF r THEN @ - (c - a)
                                                  ELSE @ + (c - a)]
  BY OrderFacts
     DEF LifecycleInv, TypeOK, OrderOK, Order, Positions, ApplyExecution,
         ExecutionAccepted
<1>2. /\ DOMAIN orders' = DOMAIN orders
      /\ orders'[id].filled = c /\ orders'[id].reduceOnly = r
      /\ \A x \in DOMAIN orders \ {id} : orders'[x] = orders[x]
  <2> DEFINE n == [orders[id] EXCEPT !.filled = c, !.status = st]
  <2>1. orders' = [orders EXCEPT ![id] = n]
    BY DEF ApplyExecution
  <2>2. n.filled = c /\ n.reduceOnly = r
    BY DEF LifecycleInv, TypeOK, Order
  <2> HIDE DEF n
  <2> QED BY <2>1, <2>2
<1>3. ASSUME NEW s, NEW ro, s # z \/ ro # r
      PROVE  FilledLots(s, ro)' = FilledLots(s, ro)
  <2>1. \A t : t \in FilledLots(s, ro)' <=> t \in FilledLots(s, ro)
    BY <1>2, <1>3, LotsAreOfOrders, LotsAreOfOrdersAfter
  <2> QED BY <2>1
<1>4. FilledLots(z, r)' = FilledLots(z, r) \cup ({id} \X (a+1..c))
  <2>1. {id} \X (1..c) = ({id} \X (1..a)) \cup ({id} \X (a+1..c))
    BY <1>1
  <2>2. ASSUME NEW t
        PROVE  t \in FilledLots(z, r)'
                 <=> t \in FilledLots(z, r) \/ t \in {id} \X (a+1..c)
    BY <1>2, <2>1, LotsAreOfOrders, LotsAreOfOrdersAfter
  <2> QED BY <2>2
<1>5. \A k \in a+1..c : <<id, k>> \notin FilledLots(z, r)
  BY <1>1, LotsAreOfOrders
<1>6. IsFiniteSet(FilledLots(z, r))
  BY <1>1 DEF FillsInv
<1>7. /\ IsFiniteSet(FilledLots(z, r)')
      /\ Cardinality(FilledLots(z, r)') = Cardinality(FilledLots(z, r)) + (c - a)
  <2>0. PICK L, N : L = FilledLots(z, r) /\ N = {id} \X (a+1..c)
    OBVIOUS
  <2>1. IsFiniteSet(L) /\ L \cap N = {} /\ FilledLots(z, r)' = L \cup N
    BY <1>4, <1>5, <1>6, <2>0
  <2>2. IsFiniteSet(N) /\ Cardinality(N) = c - a
    BY <1>1, <2>0, LotsOfOne
  <2>3. IsFiniteSet(L \cup N) /\ Cardinality(L \cup N) = Cardinality(L) + (c - a)
    BY <2>1, <2>2, LotsAddUp
  <2> QED BY <2>0, <2>1, <2>3
<1>8. \A s \in Sides, ro \in BOOLEAN : IsFiniteSet(FilledLots(s, ro)')
  BY <1>3, <1>7 DEF FillsInv
<1>9. ASSUME NEW s \in Sides
      PROVE  position'[s] + Cardinality(FilledLots(s, TRUE)')
               = InitialPosition[s] + Cardinality(FilledLots(s, FALSE)')
  <2>0. PICK pos, seed, reduced, opened, pos2, reduced2, opened2 :
          /\ pos = position[s] /\ seed = InitialPosition[s]
          /\ reduced = Cardinality(FilledLots(s, TRUE))
          /\ opened = Cardinality(FilledLots(s, FALSE))
          /\ pos2 = position'[s]
          /\ reduced2 = Cardinality(FilledLots(s, TRUE)')
          /\ opened2 = Cardinality(FilledLots(s, FALSE)')
    OBVIOUS
  <2>1. reduced \in Nat /\ opened \in Nat
    BY <2>0, FS_CardinalityType DEF FillsInv
  <2>2. seed \in Nat /\ pos \in Nat
    BY <1>1, <2>0, InitialAssumption DEF Positions
  <2>3. pos + reduced = seed + opened
    BY <2>0 DEF FillsInv, PositionMatchesFills
  <2>4. CASE s # z
    <3>1. pos2 = pos /\ reduced2 = reduced /\ opened2 = opened
      BY <1>1, <1>3, <2>0, <2>4
    <3> QED BY <2>0, <2>3, <3>1
  <2>5. CASE s = z /\ r
    <3>1. opened2 = opened
      BY <1>3, <2>0, <2>5
    <3>2. pos2 = pos - (c - a)
      BY <1>1, <2>0, <2>5
    <3>3. reduced2 = reduced + (c - a)
      BY <1>1, <1>7, <2>0, <2>5
    <3>4. pos2 + reduced2 = seed + opened2
      BY <1>1, <2>1, <2>2, <2>3, <3>1, <3>2, <3>3
    <3> QED BY <2>0, <3>4
  <2>6. CASE s = z /\ ~r
    <3>1. reduced2 = reduced
      BY <1>3, <2>0, <2>6
    <3>2. pos2 = pos + (c - a)
      BY <1>1, <2>0, <2>6
    <3>3. opened2 = opened + (c - a)
      BY <1>1, <1>7, <2>0, <2>6
    <3>4. pos2 + reduced2 = seed + opened2
      BY <1>1, <2>1, <2>2, <2>3, <3>1, <3>2, <3>3
    <3> QED BY <2>0, <3>4
  <2> QED BY <2>4, <2>5, <2>6
<1> QED BY <1>8, <1>9 DEF FillsInv, PositionMatchesFills

LEMMA FillsInit == Init => FillsInv
<1> SUFFICES ASSUME Init PROVE FillsInv
  OBVIOUS
<1>1. ASSUME NEW s, NEW ro PROVE FilledLots(s, ro) = {}
  <2>1. DOMAIN orders = {}
    BY DEF Init
  <2> QED BY <2>1 DEF FilledLots
<1>2. IsFiniteSet({}) /\ Cardinality({}) = 0
  BY FS_EmptySet
<1>3. position = InitialPosition /\ \A s \in Sides : InitialPosition[s] \in Nat
  BY InitialAssumption DEF Init, Positions
<1> QED BY <1>1, <1>2, <1>3 DEF FillsInv, PositionMatchesFills

LEMMA NextFills == LifecycleInv /\ FillsInv /\ [Next]_vars => FillsInv'
<1> SUFFICES ASSUME LifecycleInv, FillsInv, [Next]_vars PROVE FillsInv'
  OBVIOUS
<1>1. ASSUME NEW plan, NEW p, ReplaceOrders(plan, p) PROVE FillsInv'
  <2> DEFINE created == {<<plans + 1, s>> : s \in DOMAIN plan}
  <2>1. /\ DOMAIN orders \subseteq DOMAIN orders'
        /\ position' = position
        /\ \A id \in DOMAIN orders' \ DOMAIN orders :
             orders'[id] = NewOrder(plan[Side(id)], p)
    BY <1>1 DEF ReplaceOrders
  <2>2. \A id \in DOMAIN orders : orders'[id] = Canceled(orders[id])
    <3>1. ASSUME NEW id \in DOMAIN orders PROVE id \notin created
      BY OrderFacts, BoundsAssumption DEF LifecycleInv, TypeOK
    <3> QED BY <1>1, <3>1 DEF ReplaceOrders
  <2>3. ASSUME NEW o \in Order
        PROVE  Canceled(o).filled = o.filled /\ Canceled(o).reduceOnly = o.reduceOnly
    BY DEF Canceled, Order
  <2>4. \A id \in DOMAIN orders : orders[id] \in Order
    BY DEF LifecycleInv, TypeOK
  <2>5. \A id \in DOMAIN orders' \ DOMAIN orders : orders'[id].filled = 0
    BY <2>1 DEF NewOrder
  <2> HIDE DEF created
  <2> QED BY <2>1, <2>2, <2>3, <2>4, <2>5, NothingFilled
<1>2. ASSUME NEW id \in DOMAIN orders, NEW c \in Nat,
             NEW st \in {"PARTIALLY_FILLED", "FILLED"}, ApplyExecution(id, c, st)
      PROVE  FillsInv'
  BY <1>2, ExecutionAddsLots
<1>3. CASE ExpireOlderThan
  <2>1. /\ DOMAIN orders' = DOMAIN orders
        /\ position' = position
        /\ \A x \in DOMAIN orders :
             orders'[x] = IF x \in Overdue
                            THEN [orders[x] EXCEPT !.status = "EXPIRED"]
                            ELSE orders[x]
    BY <1>3 DEF ExpireOlderThan, ExpireOrders
  <2>2. \A x \in DOMAIN orders : orders[x] \in Order
    BY DEF LifecycleInv, TypeOK
  <2>3. \A x \in DOMAIN orders :
          /\ orders'[x].filled = orders[x].filled
          /\ orders'[x].reduceOnly = orders[x].reduceOnly
    BY <2>1, <2>2 DEF Order
  <2> QED BY <2>1, <2>3, NothingFilled
<1>4. CASE orders' = orders /\ position' = position
  BY <1>4, NothingFilled
<1>5. /\ \A p \in Prices : BeginMatch(p) => orders' = orders /\ position' = position
      /\ AdvanceCycle \/ UNCHANGED vars => orders' = orders /\ position' = position
  BY DEF BeginMatch, AdvanceCycle, vars
<1> QED BY <1>1, <1>2, <1>3, <1>4, <1>5, Executions
        DEF Next, OpeningTick, ExitTick, HardRiskTick

(* The quantity of each side is the seeded quantity plus every lot its     *)
(* opening orders filled minus every lot its reducing orders filled        *)
(* (apply_execution, whatever executions are reported again or late).      *)
THEOREM PositionsAreTheirFills == Spec => []PositionMatchesFills
<1>1. Init => LifecycleInv /\ FillsInv
  BY InitInv, FillsInit
<1>2. LifecycleInv /\ FillsInv /\ [Next]_vars => (LifecycleInv /\ FillsInv)'
  BY NextInv, NextFills
<1>3. FillsInv => PositionMatchesFills
  BY DEF FillsInv
<1> QED BY <1>1, <1>2, <1>3, PTL DEF Spec
=============================================================================
