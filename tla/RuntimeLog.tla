----------------------------- MODULE RuntimeLog -----------------------------
(***************************************************************************)
(* The event log of a simulated batch and what is concluded from it: the   *)
(* loop of LiveRuntime writes the lines, the process may die between any   *)
(* save of the profit bucket and the line about it and is resumed on the   *)
(* same log, build_runtime_summary adds the lines up, and                  *)
(* build_simulation_outcome gives the verdict of the batch.                *)
(*                                                                         *)
(* What a cycle decides is the subject of ProfitLedger and DryRunRunner;   *)
(* here it may redeem a top-up, then sweep profit, or stop at a hard risk  *)
(* limit.  Lines that count nothing are left out, and so are the counters  *)
(* of symbols and actions, which are kept like those of the transfers.     *)
(*                                                                         *)
(* build_runtime_summary goes over the lines once, from first to last: the *)
(* log is represented by what it has in hand after the last line written.  *)
(***************************************************************************)
EXTENDS Naturals, Sequences

CONSTANTS
  MaxLoops,      \* max_loops of a run
  CycleRetries,  \* cycle_retry_attempts
  MaxFailures,   \* bound: failures of the cycle input provider
  MaxCrashes     \* bound: deaths of the process

ASSUME LoopAssumption == MaxLoops \in Nat \ {0} /\ CycleRetries \in Nat
ASSUME BoundsAssumption == MaxFailures \in Nat /\ MaxCrashes \in Nat

VARIABLES
  pc,        \* what the process does next
  bucket,    \* profit bucket in memory: counts, and whether principal is left
  saved,     \* the profit bucket of runtime_state
  todo,      \* transfers the running cycle still has to make
  hard,      \* the running cycle met the hard limit of uniMMR
  loops,     \* loop_count
  attempts,  \* attempts_remaining
  previous,  \* previous_profit_sweep_count, previous_redeem_topup_count
  read,      \* what the lines of live_sim_runtime.jsonl add up to
  failures, crashes

vars == <<pc, bucket, saved, todo, hard, loops, attempts, previous, read,
          failures, crashes>>

Kinds == {"topup", "sweep"}

None == [k \in Kinds |-> 0]

NewBucket == [count |-> None, funded |-> TRUE]

(* A cycle tops up before it sweeps; a top-up needs principal.             *)
Cycles == {<< >>, <<"topup">>, <<"sweep">>, <<"topup", "sweep">>}

TopsUp(cycle) == cycle # << >> /\ Head(cycle) = "topup"

-----------------------------------------------------------------------------
(* build_runtime_summary                                                   *)

NothingRead == [loops |-> 0, retries |-> 0, hard |-> 0, funded |-> FALSE,
                count |-> None, pending |-> None]

(* runtime.loop_completed: its counts replace the details before it.       *)
ReadLoop(r, counts, isHard, funded) ==
  [r EXCEPT !.loops = @ + 1,
            !.hard = IF isHard THEN @ + 1 ELSE @,
            !.funded = funded,
            !.count = [k \in Kinds |-> @[k] + counts[k]],
            !.pending = None]

(* live.redeem_topup_executed, live.profit_sweep_executed                  *)
ReadDetail(r, k) == [r EXCEPT !.pending[k] = @ + 1]

(* runtime.loop_retry                                                      *)
ReadRetry(r) == [r EXCEPT !.retries = @ + 1]

(* Details that no loop followed are counted at the end.                   *)
Summed(r) == [k \in Kinds |-> r.count[k] + r.pending[k]]

(* build_simulation_outcome of the summary                                 *)

(* Mutant: only the sweeps are looked at.                                  *)
VerdictOfSweeps(r) ==
  IF ~r.funded \/ r.hard > 0 THEN "fail"
  ELSE IF Summed(r)["sweep"] > 0 THEN "pass" ELSE "borderline"

(* The verdict                                                             *)
Verdict(r) ==
  IF ~r.funded \/ r.hard > 0 THEN "fail"
  ELSE IF Summed(r)["sweep"] > 0 /\ Summed(r)["topup"] = 0 THEN "pass"
  ELSE "borderline"

-----------------------------------------------------------------------------
(* Mutant: a restored bucket is counted again.                             *)
NothingCounted(restored) == None

(* What was counted before this run.  Without a row in runtime_state it is *)
(* nothing, and the bucket is new.                                         *)
Counted(restored) == restored.count

(* profit_sweep_count and redeem_topup_count of a completed loop           *)
Uncounted == [k \in Kinds |-> IF bucket.count[k] < previous[k] THEN 0
                              ELSE bucket.count[k] - previous[k]]

(* Mutant: loop_count goes on from the run before.                         *)
StartAgain == /\ pc = "down"
              /\ bucket' = saved
              /\ previous' = Counted(saved)
              /\ attempts' = CycleRetries
              /\ todo' = << >> /\ hard' = FALSE
              /\ pc' = "polling"
              /\ UNCHANGED <<saved, loops, read, failures, crashes>>

(* LiveRuntime.__call__ until its loop, with restore_state                 *)
Start == /\ pc = "down"
         /\ bucket' = saved
         /\ previous' = Counted(saved)
         /\ loops' = 0
         /\ attempts' = CycleRetries
         /\ todo' = << >> /\ hard' = FALSE
         /\ pc' = "polling"
         /\ UNCHANGED <<saved, read, failures, crashes>>

(* The provider fails: it is asked again, or the run raises.               *)
PollFails == /\ pc = "polling"
             /\ failures < MaxFailures
             /\ failures' = failures + 1
             /\ read' = ReadRetry(read)
             /\ \/ attempts > 0 /\ attempts' = attempts - 1 /\ UNCHANGED pc
                \/ attempts = 0 /\ pc' = "down" /\ UNCHANGED attempts
             /\ UNCHANGED <<bucket, saved, todo, hard, loops, previous,
                            crashes>>

(* A cycle begins; the hard limit of uniMMR ends it before any transfer.   *)
Poll == /\ pc = "polling"
        /\ hard' \in BOOLEAN
        /\ todo' \in {c \in Cycles : /\ hard' => c = << >>
                                     /\ TopsUp(c) => bucket.funded}
        /\ pc' = "cycle"
        /\ UNCHANGED <<bucket, saved, loops, attempts, previous, read,
                       failures, crashes>>

(* _execute_redeem_topup, _execute_profit_sweep until the state is saved;  *)
(* a top-up may redeem all there is.                                       *)
Transfer == /\ pc = "cycle" /\ todo # << >>
            /\ \E funded \in IF Head(todo) = "sweep" THEN {TRUE} ELSE BOOLEAN :
                 bucket' = [bucket EXCEPT !.count[Head(todo)] = @ + 1,
                                          !.funded = funded]
            /\ saved' = bucket'
            /\ pc' = "transferred"
            /\ UNCHANGED <<todo, hard, loops, attempts, previous, read,
                           failures, crashes>>

(* _log_redeem_topup_executed, _log_profit_sweep_executed                  *)
LogTransfer == /\ pc = "transferred"
               /\ read' = ReadDetail(read, Head(todo))
               /\ todo' = Tail(todo)
               /\ pc' = "cycle"
               /\ UNCHANGED <<bucket, saved, hard, loops, attempts, previous,
                              failures, crashes>>

(* The loop is completed; max_loops may end the run.                       *)
CompleteLoop == /\ pc = "cycle" /\ todo = << >>
                /\ read' = ReadLoop(read, Uncounted, hard, bucket.funded)
                /\ previous' = bucket.count
                /\ loops' = loops + 1
                /\ attempts' = CycleRetries
                /\ pc' = IF loops + 1 >= MaxLoops THEN "done" ELSE "polling"
                /\ UNCHANGED <<bucket, saved, todo, hard, failures, crashes>>

(* The process dies and is resumed, also after the last loop when the      *)
(* batch was not completed.                                                *)
Crash == /\ pc # "down" /\ crashes < MaxCrashes
         /\ crashes' = crashes + 1
         /\ pc' = "down"
         /\ bucket' = saved /\ previous' = None
         /\ todo' = << >> /\ hard' = FALSE
         /\ UNCHANGED <<saved, loops, attempts, read, failures>>

Init == /\ pc = "down"
        /\ bucket = NewBucket /\ saved = NewBucket
        /\ todo = << >> /\ hard = FALSE
        /\ loops = 0 /\ attempts = CycleRetries /\ previous = None
        /\ read = NothingRead
        /\ failures = 0 /\ crashes = 0

Next == \/ Start \/ PollFails \/ Poll \/ Transfer \/ LogTransfer
        \/ CompleteLoop \/ Crash

Spec == Init /\ [][Next]_vars

-----------------------------------------------------------------------------
Counts == [Kinds -> Nat]

Buckets == [count : Counts, funded : BOOLEAN]

Readings == [loops : Nat, retries : Nat, hard : Nat, funded : BOOLEAN,
             count : Counts, pending : Counts]

TypeOK ==
  /\ pc \in {"down", "polling", "cycle", "transferred", "done"}
  /\ bucket \in Buckets /\ saved \in Buckets
  /\ todo \in Cycles /\ (pc = "transferred" => todo # << >>)
  /\ hard \in BOOLEAN
  /\ loops \in 0..MaxLoops /\ attempts \in 0..CycleRetries
  /\ previous \in Counts
  /\ read \in Readings
  /\ failures \in 0..MaxFailures /\ crashes \in 0..MaxCrashes

(* At any moment, and so whenever the heartbeat looks, the summary counts  *)
(* no transfer twice and misses none, but for the one that is being logged *)
(* and at most one of a kind for every death of the process.               *)
LossBounded ==
  \A k \in Kinds :
    LET inHand == IF pc = "transferred" /\ Head(todo) = k THEN 1 ELSE 0
        counted == Summed(read)[k]
    IN /\ counted <= saved.count[k]
       /\ saved.count[k] <= counted + inHand + crashes

(* A batch that was not interrupted passes only when it swept profit and   *)
(* needed no top-up.                                                       *)
PassIsEarned ==
  pc = "done" /\ crashes = 0 /\ Verdict(read) = "pass"
    => bucket.count["sweep"] > 0 /\ bucket.count["topup"] = 0
=============================================================================
