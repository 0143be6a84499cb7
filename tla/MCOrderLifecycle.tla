-------------------------- MODULE MCOrderLifecycle --------------------------
(***************************************************************************)
(* Small instances of OrderLifecycle for TLC.                              *)
(***************************************************************************)
EXTENDS OrderLifecycle

Flat == [s \in Sides |-> 0]

(* A lifecycle seeded from an unbalanced simulated hedge.                  *)
Lopsided == [s \in Sides |-> IF s = "LONG" THEN 3 ELSE 1]
=============================================================================
