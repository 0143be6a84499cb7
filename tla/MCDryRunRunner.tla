--------------------------- MODULE MCDryRunRunner ---------------------------
(***************************************************************************)
(* Small instances of DryRunRunner for TLC: the target notional buys four  *)
(* lots at the lower price and three at the higher one.                    *)
(***************************************************************************)
EXTENDS DryRunRunner

TwoPrices == 1..2

TwoTargets == [p \in TwoPrices |-> 5 - p]
=============================================================================
