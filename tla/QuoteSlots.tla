----------------------------- MODULE QuoteSlots -----------------------------
(***************************************************************************)
(* What the dry-run order lifecycle promises to the runner, without orders,*)
(* ids, statuses, prices or cycles: each position side holds a quantity    *)
(* and at most one working order (a slot).  A tick replaces both slots at  *)
(* once by a plan that leaves the hedge neutral when it fills; a fill      *)
(* moves the quantity by exactly what leaves the slot; a reduce-only order *)
(* never takes a side below zero.  The detailed OrderLifecycle implements  *)
(* this specification.                                                     *)
(***************************************************************************)
EXTENDS QuotePlanner

CONSTANTS Tolerance,        \* allowed difference between the legs
          InitialPosition   \* quantities the lifecycle is created with

VARIABLES position, slot

slotVars == <<position, slot>>

Idle == [remaining |-> 0, reduceOnly |-> FALSE]

Slots == [remaining : Nat, reduceOnly : BOOLEAN]

TypeOK == /\ position \in Positions
          /\ slot \in [Sides -> Slots]

Init == /\ position = InitialPosition
        /\ slot = [s \in Sides |-> Idle]

(* A working order for q lots; nothing left to fill is no order.           *)
Working(q, reduceOnly) ==
  IF q = 0 THEN Idle ELSE [remaining |-> q, reduceOnly |-> reduceOnly]

(* The quantity of side s once its working order has filled.               *)
Planned(s) ==
  IF slot[s].reduceOnly THEN position[s] - slot[s].remaining
                        ELSE position[s] + slot[s].remaining

(* Every working order is replaced; new ones complete to a neutral hedge.  *)
Replace ==
  /\ slot' \in [Sides -> Slots]
  /\ UNCHANGED position
  /\ (\E s \in Sides : slot'[s] # Idle)
       => Abs(Planned("LONG")' - Planned("SHORT")') <= Tolerance
  /\ \A s \in Sides : Planned(s)' >= 0

Fill(s, q) ==
  /\ q \in 1..slot[s].remaining
  /\ slot' = [slot EXCEPT ![s] = Working(@.remaining - q, @.reduceOnly)]
  /\ position' = [position EXCEPT
                    ![s] = IF slot[s].reduceOnly THEN @ - q ELSE @ + q]

(* Working orders on the sides of S expire.                                *)
Withdraw(S) ==
  /\ slot' = [s \in Sides |-> IF s \in S THEN Idle ELSE slot[s]]
  /\ UNCHANGED position

Next == \/ Replace
        \/ \E s \in Sides : \E q \in 1..slot[s].remaining : Fill(s, q)
        \/ \E S \in SUBSET Sides : Withdraw(S)

Spec == Init /\ [][Next]_slotVars
=============================================================================
