--------------------------- MODULE OrderLifecycle ---------------------------
(***************************************************************************)
(* The in-memory order lifecycle of the dry-run simulation                 *)
(* (src/strategy/dry_run_order_lifecycle.py): DryRunOrderLifecycle,        *)
(* DryRunMatchingEngine and the ticks of DryRunQuoteRuntime.               *)
(*                                                                         *)
(* The code numbers orders dry-1, dry-2, ...; here an order is named by    *)
(* the plan that created it and its position side, which orders the names  *)
(* in the same way.  REJECTED is a status no statement assigns, so it is   *)
(* not among the statuses.  The requote counter belongs to the runner's    *)
(* use of the lifecycle and is modelled in DryRunRunner.                   *)
(***************************************************************************)
EXTENDS SimulatedMatching, FiniteSets

CONSTANTS
  Targets,          \* target quantities a tick may plan for
  Prices,           \* mid and mark prices
  Tolerance,        \* TickQuotePlanner balance_tolerance
  FillNum, FillDen, \* DryRunMatchingEngine fill_fraction = FillNum / FillDen
  MinFill,          \* DryRunMatchingEngine min_fill_quantity
  MaxAge,           \* argument of expire_orders_older_than
  InitialPosition,  \* quantities the lifecycle is created with
  ExposureCap,      \* bounds every target and every initial quantity
  MaxPlans,         \* bound: plans that create orders
  MaxCycle          \* bound: advance_cycle calls

ASSUME TargetsAssumption == Targets \subseteq Nat \ {0}
ASSUME PricesAssumption == Prices \subseteq Nat \ {0}
ASSUME ToleranceAssumption == Tolerance \in Nat
ASSUME FillAssumption == /\ FillDen \in Nat \ {0}
                         /\ FillNum \in 1..FillDen
                         /\ MinFill \in Nat
ASSUME AgeAssumption == MaxAge \in Nat
ASSUME InitialAssumption == InitialPosition \in Positions
ASSUME CapAssumption == /\ ExposureCap \in Nat
                        /\ \A t \in Targets : t <= ExposureCap
                        /\ \A s \in Sides : InitialPosition[s] <= ExposureCap
ASSUME BoundsAssumption == MaxPlans \in Nat /\ MaxCycle \in Nat

VARIABLES
  position,   \* _long_quantity, _short_quantity
  orders,     \* _orders
  plans,      \* stands for _next_order_number
  cycle,      \* _cycle
  mark,       \* the mark price of the running match
  matching    \* orders that the loop of the running match still visits

vars == <<position, orders, plans, cycle, mark, matching>>

ActiveStatuses   == {"NEW", "PARTIALLY_FILLED"}
TerminalStatuses == {"CANCELED", "EXPIRED", "FILLED"}

OrderIds == (1..MaxPlans) \X Sides

Order == [quantity   : Nat \ {0},
          price      : Nat \ {0},
          reduceOnly : BOOLEAN,
          filled     : Nat,
          status     : ActiveStatuses \cup TerminalStatuses,
          created    : Nat]

Side(id)  == id[2]
Remaining(o) == o.quantity - o.filled
IsActive(o)  == o.status \in ActiveStatuses

ActiveOrders == {id \in DOMAIN orders : IsActive(orders[id])}

(* Working orders: active ones that can still move a quantity.             *)
LiveOrders == {id \in ActiveOrders : Remaining(orders[id]) > 0}

Init == /\ position = InitialPosition
        /\ orders = [id \in {} |-> [status |-> "NEW"]]
        /\ plans = 0
        /\ cycle = 0
        /\ mark = 0
        /\ matching = {}

-----------------------------------------------------------------------------
(* replace_orders: cancel every active order, create the plan's orders.    *)

NewOrder(quote, price) ==
  [quantity |-> quote.quantity, price |-> price,
   reduceOnly |-> quote.reduceOnly, filled |-> 0,
   status |-> "NEW", created |-> cycle]

(* Mutant: partially filled orders survive a replacement.                  *)
CanceledIfNew(o) ==
  IF o.status = "NEW" THEN [o EXCEPT !.status = "CANCELED"] ELSE o

Canceled(o) == IF IsActive(o) THEN [o EXCEPT !.status = "CANCELED"] ELSE o

ReplaceOrders(plan, price) ==
  LET created == {<<plans + 1, s>> : s \in DOMAIN plan}
  IN /\ created # {} => plans < MaxPlans
     /\ orders' = [id \in DOMAIN orders \cup created |->
                     IF id \in created THEN NewOrder(plan[Side(id)], price)
                                       ELSE Canceled(orders[id])]
     /\ plans' = IF created = {} THEN plans ELSE plans + 1
     /\ UNCHANGED <<position, cycle, mark, matching>>

(* DryRunQuoteRuntime: one tick plans from the filled quantities.          *)
OpeningTick(target, price) ==
  /\ matching = {}
  /\ ReplaceOrders(PlanOpening(target, Tolerance, position), price)

ExitTick(allRealized, price) ==
  /\ matching = {}
  /\ ReplaceOrders(PlanExit(Tolerance, position, allRealized), price)

HardRiskTick(price) ==
  /\ matching = {}
  /\ ReplaceOrders(RiskReductionPlan(position), price)

-----------------------------------------------------------------------------
(* apply_execution: the conditions under which it does not raise, and what *)
(* it then changes.  A raise leaves the lifecycle as it was.               *)

(* Mutant: FILLED is believed without comparing the quantities.            *)
ExecutionUnverified(id, cumulative, status) ==
  LET o == orders[id]
  IN /\ o.status \notin {"CANCELED", "EXPIRED"}
     /\ o.filled <= cumulative
     /\ cumulative <= o.quantity
     /\ o.reduceOnly => cumulative - o.filled <= position[Side(id)]

ExecutionAccepted(id, cumulative, status) ==
  LET o == orders[id]
  IN /\ o.status \notin {"CANCELED", "EXPIRED"}
     /\ status \in {"PARTIALLY_FILLED", "FILLED"}
     /\ o.filled <= cumulative
     /\ cumulative <= o.quantity
     /\ status = "FILLED" => cumulative = o.quantity
     /\ o.reduceOnly => cumulative - o.filled <= position[Side(id)]

(* Mutant: the cumulative quantity is taken for the new fill.              *)
ApplyCumulative(id, cumulative, status) ==
  LET o == orders[id]
  IN /\ ExecutionAccepted(id, cumulative, status)
     /\ o.reduceOnly => cumulative <= position[Side(id)]
     /\ position' = [position EXCEPT
                       ![Side(id)] = IF o.reduceOnly THEN @ - cumulative
                                                     ELSE @ + cumulative]
     /\ orders' = [orders EXCEPT ![id] = [@ EXCEPT !.filled = cumulative,
                                                   !.status = status]]
     /\ UNCHANGED <<plans, cycle>>

ApplyExecution(id, cumulative, status) ==
  LET o == orders[id]
      delta == cumulative - o.filled
  IN /\ ExecutionAccepted(id, cumulative, status)
     /\ position' = [position EXCEPT
                       ![Side(id)] = IF o.reduceOnly THEN @ - delta
                                                     ELSE @ + delta]
     /\ orders' = [orders EXCEPT ![id] = [@ EXCEPT !.filled = cumulative,
                                                   !.status = status]]
     /\ UNCHANGED <<plans, cycle>>

(* LiveRunner.apply_dry_run_order_execution: an execution reported for any *)
(* order, whatever its age.                                                *)
Execute(id, cumulative, status) ==
  /\ matching = {}
  /\ ApplyExecution(id, cumulative, status)
  /\ UNCHANGED <<mark, matching>>

-----------------------------------------------------------------------------
(* DryRunMatchingEngine.match: a loop over the orders active when it       *)
(* starts.  Each iteration is a step; no other operation runs in between.  *)

Marketable(id, price) ==
  IsMarketable(Side(id), orders[id].reduceOnly, orders[id].price, price)

MatchDeltas(id) == FillDeltas(Remaining(orders[id]), FillNum, FillDen, MinFill)

BeginMatch(price) ==
  /\ matching = {}
  /\ mark' = price
  /\ matching' = {id \in ActiveOrders : Marketable(id, price)}
  /\ matching' # {}
  /\ UNCHANGED <<position, orders, plans, cycle>>

MatchOrder(id) ==
  /\ id \in matching
  /\ \E delta \in MatchDeltas(id) :
       LET cumulative == orders[id].filled + delta
       IN ApplyExecution(id, cumulative,
                         IF cumulative = orders[id].quantity
                           THEN "FILLED" ELSE "PARTIALLY_FILLED")
  /\ matching' = matching \ {id}
  /\ mark' = IF matching' = {} THEN 0 ELSE mark

-----------------------------------------------------------------------------
(* advance_cycle; expire_orders_older_than                                 *)

AdvanceCycle ==
  /\ matching = {}
  /\ cycle < MaxCycle
  /\ cycle' = cycle + 1
  /\ UNCHANGED <<position, orders, plans, mark, matching>>

(* Mutant: the timeout looks at every order, not at the active ones.       *)
OverdueOfAll ==
  {id \in DOMAIN orders : cycle - orders[id].created >= MaxAge}

Overdue == {id \in ActiveOrders : cycle - orders[id].created >= MaxAge}

ExpireOrders(ids) ==
  /\ orders' = [id \in DOMAIN orders |->
                  IF id \in ids THEN [orders[id] EXCEPT !.status = "EXPIRED"]
                                ELSE orders[id]]
  /\ UNCHANGED <<position, plans, cycle, mark, matching>>

ExpireOlderThan ==
  /\ matching = {}
  /\ MaxAge > 0
  /\ Overdue # {}
  /\ ExpireOrders(Overdue)

-----------------------------------------------------------------------------
Next ==
  \/ \E p \in Prices :
       \/ \E t \in Targets : OpeningTick(t, p)
       \/ \E realized \in BOOLEAN : ExitTick(realized, p)
       \/ HardRiskTick(p)
       \/ BeginMatch(p)
  \/ \E id \in DOMAIN orders :
       \E c \in orders[id].filled..orders[id].quantity :
         \E st \in {"PARTIALLY_FILLED", "FILLED"} : Execute(id, c, st)
  \/ \E id \in matching : MatchOrder(id)
  \/ AdvanceCycle
  \/ ExpireOlderThan

Spec == Init /\ [][Next]_vars

-----------------------------------------------------------------------------
(* Each field has its type; an order never fills beyond its quantity and   *)
(* is FILLED only when it is full.                                         *)
TypeOK ==
  /\ position \in Positions
  /\ DOMAIN orders \subseteq OrderIds
  /\ \A id \in DOMAIN orders :
       /\ orders[id] \in Order
       /\ orders[id].filled <= orders[id].quantity
       /\ orders[id].status = "FILLED" => Remaining(orders[id]) = 0
       /\ id[1] <= plans /\ orders[id].created <= cycle
  /\ plans \in 0..MaxPlans
  /\ cycle \in 0..MaxCycle
  /\ mark \in Prices \cup {0}
  /\ matching \subseteq ActiveOrders

(* Every working reduce-only order is covered by the quantity it reduces,  *)
(* so apply_execution never raises reduce_only_fill_exceeds_position out   *)
(* of the middle of a match.                                               *)
ReduceOnlyCovered ==
  \A id \in LiveOrders :
    orders[id].reduceOnly => Remaining(orders[id]) <= position[Side(id)]

(* No iteration of a match is refused by apply_execution, so a match never *)
(* stops half way with the first leg filled and the second untouched.      *)
MatchNeverRaises ==
  \A id \in matching : \A delta \in MatchDeltas(id) :
    LET cumulative == orders[id].filled + delta
    IN ExecutionAccepted(id, cumulative,
                         IF cumulative = orders[id].quantity
                           THEN "FILLED" ELSE "PARTIALLY_FILLED")

(* The quantities held plus everything still working never exceed the      *)
(* largest target or seeded leg: partial fills followed by requotes add no *)
(* exposure beyond the plan.                                               *)
ExposureBounded ==
  /\ \A s \in Sides : position[s] <= ExposureCap
  /\ \A id \in LiveOrders :
       ~orders[id].reduceOnly
         => position[Side(id)] + Remaining(orders[id]) <= ExposureCap

(* Working orders all come from one plan, so a timeout withdraws both legs *)
(* of a plan or neither, never one of them.                                *)
LiveOrdersFromOnePlan ==
  \A a, b \in LiveOrders : a[1] = b[1] /\ orders[a].created = orders[b].created

(* The lots that orders of a side, opening or reducing, have filled: a lot *)
(* is an order and the number of one unit of its fills.                    *)
FilledLots(s, reduceOnly) ==
  UNION {{id} \X (1..orders[id].filled) :
           id \in {x \in DOMAIN orders : /\ Side(x) = s
                                        /\ orders[x].reduceOnly = reduceOnly}}

(* The quantity of each side is the seeded quantity plus every lot its     *)
(* opening orders ever filled minus every lot its reducing orders filled:  *)
(* cumulative reports, repeated or late, are counted once.                 *)
PositionMatchesFills ==
  \A s \in Sides :
    position[s] + Cardinality(FilledLots(s, TRUE))
      = InitialPosition[s] + Cardinality(FilledLots(s, FALSE))

(* A canceled or expired order is never changed again, no timeout and no   *)
(* replacement withdraws a FILLED one, and no order loses fills or changes *)
(* what it was created as.  (A late report may still turn a FILLED order   *)
(* into a PARTIALLY_FILLED one of the same fills.)                         *)
OrdersOnlyProgress ==
  [][\A id \in DOMAIN orders :
       /\ id \in DOMAIN orders'
       /\ orders'[id].filled >= orders[id].filled
       /\ orders'[id].quantity = orders[id].quantity
       /\ orders'[id].price = orders[id].price
       /\ orders'[id].reduceOnly = orders[id].reduceOnly
       /\ orders[id].status \in {"CANCELED", "EXPIRED"}
            => orders'[id] = orders[id]
       /\ orders[id].status = "FILLED"
            => orders'[id].status \notin {"CANCELED", "EXPIRED"}]_vars

-----------------------------------------------------------------------------
(* Refinement of the per-side slots.                                       *)

LiveOn(s) == {id \in LiveOrders : Side(id) = s}

SlotOf(s) ==
  IF LiveOn(s) = {} THEN [remaining |-> 0, reduceOnly |-> FALSE]
  ELSE LET id == CHOOSE x \in LiveOn(s) : TRUE
       IN [remaining |-> Remaining(orders[id]),
           reduceOnly |-> orders[id].reduceOnly]

Abstract == INSTANCE QuoteSlots WITH slot <- [s \in Sides |-> SlotOf(s)]

(* The lifecycle implements the per-side slots: positions move only by     *)
(* fills of the one working order of a side, and new orders are neutral.   *)
ImplementsQuoteSlots == Abstract!Spec
=============================================================================
