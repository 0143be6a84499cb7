---------------------------- MODULE DryRunPolling ----------------------------
(***************************************************************************)
(* The loop of LiveRuntime.__call__ (src/app/live_runtime.py) around the   *)
(* runner: it polls the cycle input provider, with retries, and passes     *)
(* what it gets to run_cycle, for as long as the process lives.  turn      *)
(* changes with every cycle that is given a row of the symbol; it states   *)
(* the fairness of the loop without a claim that a cycle changes anything. *)
(***************************************************************************)
EXTENDS DryRunRunner

VARIABLE turn

pollingVars == <<vars, turn>>

PollingInit == Init /\ turn = FALSE

(* The provider returns a row of the symbol.                               *)
CycleWithRow == /\ \/ \E quote \in Prices, risk \in Risks \ {"hard"} :
                        Trade(quote, risk)
                   \/ Pause
                /\ turn' = ~turn

(* The provider may return no row, the process may stop or die and is      *)
(* started again.                                                          *)
PollingNext == \/ CycleWithRow
               \/ Next /\ UNCHANGED turn

(* The loop has no bound and retries its provider: rows keep coming.       *)
RowsKeepComing == WF_turn(turn' = ~turn)

FairSpec == PollingInit /\ [][PollingNext]_pollingVars /\ RowsKeepComing

-----------------------------------------------------------------------------
(* An opening ends, hedged or given up, when rows of the symbol keep       *)
(* coming.                                                                 *)
OpeningEnds == m.phase = "OPENING_HEDGE" ~> m.phase # "OPENING_HEDGE"
=============================================================================
