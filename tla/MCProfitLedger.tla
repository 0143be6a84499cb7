--------------------------- MODULE MCProfitLedger ---------------------------
(***************************************************************************)
(* Small instances of ProfitLedger for TLC.  Thresholds: hard 1, soft 2,   *)
(* redeem 4; reserve 3.                                                    *)
(***************************************************************************)
EXTENDS ProfitLedger

Account(available, uniMmr, equity) ==
  [known |-> TRUE, available |-> available, uniMmr |-> uniMmr,
   equity |-> equity, exposed |-> FALSE, drawn |-> FALSE]

(* A loss, and two profits worth a harvest.                                *)
SomeNets == {-1, 1, 2}

NoSnapshot == [Account(0, 0, 0) EXCEPT !.known = FALSE]

(* Rich; just above the reserve; below it; short of margin twice; at the   *)
(* soft and the hard limit; over a leverage limit; drawn down; unknown.    *)
SomeAccounts ==
  {Account(9, 5, 3), Account(4, 5, 3), Account(2, 5, 3), Account(8, 3, 2),
   Account(5, 3, 4), Account(9, 1, 3), Account(2, 0, 3),
   [Account(2, 3, 3) EXCEPT !.exposed = TRUE],
   [Account(2, 3, 3) EXCEPT !.drawn = TRUE], NoSnapshot}
=============================================================================
