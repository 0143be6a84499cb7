---------------------------- MODULE SerialBatches ----------------------------
(***************************************************************************)
(* What the supervised simulation promises whoever collects its results,   *)
(* without processes, files, deaths and heartbeats: batches are worked on  *)
(* one after the other in the order of their numbers, one is begun only    *)
(* when every earlier one was sealed or lost, a sealed one stays sealed,   *)
(* and the pointer to the latest results moves only to the batch in work,  *)
(* so never back to an earlier one.  The batch in work may be lost, a few  *)
(* times in all; a lost one is never completed.  The detailed SimBatches   *)
(* implements this specification.                                          *)
(***************************************************************************)
EXTENDS Naturals, FiniteSets

CONSTANTS Numbers,  \* numbers of the batches
          Losses    \* batches that may be lost

VARIABLES begun,     \* batches with a simulation to show
          sealed,    \* batches that are complete and left
          lost,      \* batches that were given up before they were complete
          published  \* batch the latest results are of, 0 before the first

serialVars == <<begun, sealed, lost, published>>

TypeOK == /\ begun \subseteq Numbers /\ sealed \subseteq begun
          /\ lost \subseteq begun \ sealed
          /\ published \in begun \cup {0}

Init == begun = {} /\ sealed = {} /\ lost = {} /\ published = 0

Finished == sealed \cup lost

(* The batch in work: there is at most one.                                *)
InWork(b) == begun \ Finished = {b}

Begin(b) == /\ begun = Finished
            /\ \A earlier \in begun : earlier < b
            /\ begun' = begun \cup {b}
            /\ UNCHANGED <<sealed, lost, published>>

Publish(b) == /\ InWork(b)
              /\ published' = b
              /\ UNCHANGED <<begun, sealed, lost>>

Seal(b) == /\ InWork(b)
           /\ sealed' = sealed \cup {b}
           /\ UNCHANGED <<begun, lost, published>>

Lose(b) == /\ InWork(b)
           /\ Cardinality(lost) < Losses
           /\ lost' = lost \cup {b}
           /\ UNCHANGED <<begun, sealed, published>>

Next == \E b \in Numbers : Begin(b) \/ Publish(b) \/ Seal(b) \/ Lose(b)

Spec == Init /\ [][Next]_serialVars
=============================================================================
