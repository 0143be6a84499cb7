--------------------------- MODULE MCDryRunPolling ---------------------------
(***************************************************************************)
(* Small instances of DryRunPolling for TLC.                               *)
(***************************************************************************)
EXTENDS DryRunPolling

(* Halves are whole lots until one lot is left.                            *)
OneTarget == [p \in {1} |-> 4]

LargeTarget == [p \in {1} |-> 32]

TwoTargets == [p \in 1..2 |-> IF p = 1 THEN 4 ELSE 3]
=============================================================================
