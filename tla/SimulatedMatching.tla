-------------------------- MODULE SimulatedMatching --------------------------
(***************************************************************************)
(* When DryRunMatchingEngine fills a simulated order and by how much       *)
(* (src/strategy/dry_run_order_lifecycle.py).  The share of an order that  *)
(* fills is remaining * fill_fraction, a Decimal; in whole lots it is that *)
(* product rounded down or up.                                             *)
(***************************************************************************)
EXTENDS QuotePlanner

(* _is_marketable                                                          *)
IsMarketable(s, reduceOnly, orderPrice, markPrice) ==
  IF IsBuy(s, reduceOnly) THEN markPrice <= orderPrice
                          ELSE markPrice >= orderPrice

(* The lots next to remaining * num / den.                                 *)
Shares(remaining, num, den) ==
  {d \in 0..remaining : /\ den * d - remaining * num < den
                        /\ remaining * num - den * d < den}

(* Mutant: the minimum fill is not limited to what remains.                *)
FillDeltasUnlimited(remaining, num, den, min) ==
  {IF d < min THEN min ELSE d : d \in Shares(remaining, num, den)}

(* The lots one match may fill: the share, or the minimum fill when the    *)
(* share is smaller, but never more than what remains.                     *)
FillDeltas(remaining, num, den, min) ==
  {IF min > 0 /\ d < min
     THEN IF remaining < min THEN remaining ELSE min
     ELSE d : d \in Shares(remaining, num, den)}
=============================================================================
