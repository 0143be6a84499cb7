-------------------------- MODULE SimBatchesProofs --------------------------
(***************************************************************************)
(* For any number of batches, deaths, faults, torn lines and heartbeats: a *)
(* begun batch that is not complete is the one runner-state.json names,    *)
(* but for one at most for each failed read of that file, and a batch that *)
(* was completed and left is never touched again.                          *)
(*                                                                         *)
(* ForgottenOnlyUnread is not inductive alone.  Files come into being only *)
(* in the batch of the attempt, so it must be the named one while the      *)
(* daemon works; and between the choice of a batch and the write of        *)
(* runner-state.json the file still names a batch that was dropped by the  *)
(* failed read, so the count must be of the batches dropped.               *)
(*                                                                         *)
(* ReportInv is about the last files of an attempt.  latest.json can be    *)
(* read because what the attempt has written so far is whole and nothing   *)
(* is written after it into a complete batch; the history loses no batch   *)
(* because, without a death or fault, it is torn only while it is written. *)
(***************************************************************************)
EXTENDS SimBatches, FiniteSetTheorems, TLAPS

Away == {"down", "idle"}

(* The batch of the attempt was made and is the named one once the daemon  *)
(* works; before, it is incomplete, and new unless it is the named one.    *)
AttemptInv ==
  /\ pc \notin Away => batch > 0
  /\ pc \notin Away \cup {"made"} => runner = batch
  /\ pc = "made" => ~Complete(batch) /\ (batch = runner \/ ~Started(batch))

(* The batches no attempt will take up, among them the named one when the  *)
(* attempt under way is about to name another.                             *)
Pending == IF pc = "made" THEN batch ELSE runner

Dropped == {b \in Batches : Started(b) /\ ~Complete(b) /\ b # Pending}

DroppedInv == Cardinality(Dropped) <= used.unread

BatchInv == TypeOK /\ AttemptInv /\ DroppedInv

(* Only files of the batch of the attempt change, and none disappears.     *)
Grows ==
  /\ file' \in [Batches -> [Files -> Statuses]]
  /\ \A b \in Batches \ {batch} : file'[b] = file[b]
  /\ \A b \in Batches, f \in Files : Exists(b, f) => Exists(b, f)'

(* A step that leaves the choice of the batch alone, and what the daemon   *)
(* does after it.                                                          *)
SameBatch ==
  /\ UNCHANGED <<batch, made, runner>>
  /\ used'.unread = used.unread
  /\ pc' # "made"
  /\ pc \in Away => pc' \in Away
  /\ pc' \notin Away => pc \notin Away \cup {"made"}

(* A step of the daemon or of its heartbeat, and any other: it changes     *)
(* nothing but the log of the live trader.                                 *)
ThreadStep == Next /\ ~LiveLogTorn

NoThreadStep ==
  UNCHANGED <<main, file, runner, latest, history, beat, held, used>>

SealedStep ==
  \A b \in Batches : Sealed(b) => Sealed(b)' /\ file'[b] = file[b]

-----------------------------------------------------------------------------
LEMMA FilesFact == /\ Required \subseteq Files /\ Writes \subseteq Files
                   /\ "log" \in Files /\ "db" \in Files /\ "summary" \in Files
BY DEF Required, Writes, Files

LEMMA AfterFact ==
  ASSUME NEW f \in Writes
  PROVE  After[f] \in Steps /\ After[f] \notin Away \cup {"made", "join"}
BY DEF After, Writes, Steps, Away

(* One file of the batch is written.                                       *)
LEMMA OneFileGrows ==
  ASSUME TypeOK, batch > 0, NEW g \in Files, NEW st \in Statuses \ {"none"},
         file' = [file EXCEPT ![batch][g] = st]
  PROVE  Grows
<1>1. batch \in Batches
  BY BoundsAssumption DEF TypeOK, Batches
<1>2. file \in [Batches -> [Files -> Statuses]]
  BY DEF TypeOK
<1>3. file' \in [Batches -> [Files -> Statuses]]
  BY <1>1, <1>2
<1>4. ASSUME NEW b \in Batches, NEW f \in Files
      PROVE  file'[b][f] = IF b = batch /\ f = g THEN st ELSE file[b][f]
  BY <1>1, <1>2, <1>4
<1>5. \A b \in Batches \ {batch} : file'[b] = file[b]
  BY <1>1, <1>2
<1> QED
  BY <1>3, <1>4, <1>5 DEF Grows, Exists

(* A line is added to the log, and the summary is older than it.           *)
LEMMA LogGrows ==
  ASSUME TypeOK, batch > 0, NEW st \in Statuses \ {"none"},
         file' = [file EXCEPT ![batch]["log"] = st,
                              ![batch]["summary"] = Outdated(@)]
  PROVE  Grows
<1>1. batch \in Batches
  BY BoundsAssumption DEF TypeOK, Batches
<1>2. file \in [Batches -> [Files -> Statuses]]
  BY DEF TypeOK
<1> DEFINE old == file[batch]["summary"]
<1>3. old \in Statuses /\ Outdated(old) \in Statuses
      /\ (old # "none" => Outdated(old) # "none")
  BY <1>1, <1>2, FilesFact DEF Outdated, Statuses
<1> DEFINE row == [file[batch] EXCEPT !["log"] = st,
                                     !["summary"] = Outdated(old)]
<1>4. file' = [file EXCEPT ![batch] = row]
  BY <1>1, <1>2, FilesFact
<1> HIDE DEF old
<1>5. row \in [Files -> Statuses]
  BY <1>1, <1>2, <1>3
<1>6. file' \in [Batches -> [Files -> Statuses]]
  <2> HIDE DEF row
  <2> QED
    BY <1>2, <1>4, <1>5
<1>7. ASSUME NEW f \in Files
      PROVE  file'[batch][f] = IF f = "log" THEN st
                               ELSE IF f = "summary" THEN Outdated(old)
                               ELSE file[batch][f]
  BY <1>1, <1>2, <1>4, <1>7
<1>8. \A b \in Batches \ {batch} : file'[b] = file[b]
  BY <1>1, <1>2, <1>4
<1>9. ASSUME NEW b \in Batches, NEW f \in Files, Exists(b, f)
      PROVE  Exists(b, f)'
  BY <1>3, <1>7, <1>8, <1>9 DEF Exists, old
<1> QED
  BY <1>6, <1>8, <1>9 DEF Grows

LEMMA NothingGrows ==
  ASSUME TypeOK, UNCHANGED file
  PROVE  Grows
BY DEF TypeOK, Grows, Exists

-----------------------------------------------------------------------------
(* Files that grow keep what was complete complete, and what has not been  *)
(* begun elsewhere not begun.                                              *)
LEMMA CompleteStays ==
  ASSUME Grows, NEW b \in Batches
  PROVE  /\ Complete(b) => Complete(b)'
         /\ b # batch => (Started(b)' <=> Started(b))
         /\ b # batch => (Complete(b)' <=> Complete(b))
BY FilesFact DEF Grows, Complete, Started, Exists

LEMMA DroppedFinite ==
  /\ IsFiniteSet(Dropped) /\ Cardinality(Dropped) \in Nat
<1>1. IsFiniteSet(Batches)
  BY BoundsAssumption, FS_Interval DEF Batches
<1>2. Dropped \in SUBSET Batches
  BY DEF Dropped
<1>3. IsFiniteSet(Dropped)
  BY <1>1, <1>2, FS_Subset
<1> QED
  BY <1>3, FS_CardinalityType

(* While the count of failed reads stays, no batch may be dropped.         *)
LEMMA DroppedStays ==
  ASSUME DroppedInv, used \in UsedBounds, used'.unread = used.unread,
         Dropped' \subseteq Dropped
  PROVE  DroppedInv'
<1>1. used.unread \in Nat /\ Cardinality(Dropped) <= used.unread
  BY BoundsAssumption DEF UsedBounds, DroppedInv
<1>2. IsFiniteSet(Dropped') /\ Cardinality(Dropped') <= Cardinality(Dropped)
  BY DroppedFinite, FS_Subset
<1>3. Cardinality(Dropped) \in Nat /\ Cardinality(Dropped') \in Nat
  BY <1>2, DroppedFinite, FS_CardinalityType
<1> QED
  BY <1>1, <1>2, <1>3 DEF DroppedInv

(* A step on the same batch keeps the rest of the invariant.               *)
LEMMA SameBatchKeeps ==
  ASSUME BatchInv, Grows, SameBatch,
         pc \in Away \cup {"made"} => UNCHANGED file
  PROVE  AttemptInv' /\ DroppedInv' /\ SealedStep
<1>1. AttemptInv'
  BY DEF BatchInv, AttemptInv, SameBatch
<1>2. CASE UNCHANGED file
  <2>1. \A b \in Batches : /\ Started(b)' <=> Started(b)
                           /\ Complete(b)' <=> Complete(b)
    BY <1>2 DEF Started, Complete, Exists
  <2>2. \A b \in Batches : Started(b) /\ b # runner => b # Pending
    BY DEF BatchInv, AttemptInv, Pending
  <2>3. Dropped' \subseteq Dropped
    BY <2>1, <2>2 DEF Dropped, Pending, SameBatch
  <2>4. DroppedInv'
    BY <2>3, DroppedStays DEF BatchInv, TypeOK, SameBatch
  <2>5. SealedStep
    BY <1>2, <2>1 DEF SealedStep, Sealed, SameBatch, Away
  <2> QED
    BY <1>1, <2>4, <2>5
<1>3. CASE pc \notin Away \cup {"made"}
  <2>1. runner = batch
    BY <1>3 DEF BatchInv, AttemptInv
  <2>2. Dropped' \subseteq Dropped
    BY <1>3, <2>1, CompleteStays DEF Dropped, Pending, SameBatch
  <2>3. DroppedInv'
    BY <2>2, DroppedStays DEF BatchInv, TypeOK, SameBatch
  <2>4. \A b \in Batches : Sealed(b) => b # batch
    BY <1>3 DEF Sealed, Away
  <2>5. SealedStep
    BY <2>4, CompleteStays DEF SealedStep, Sealed, SameBatch, Grows
  <2> QED
    BY <1>1, <2>3, <2>5
<1> QED
  BY <1>2, <1>3

(* What either way of choosing a batch has in common.                      *)
Chooses ==
  /\ pc = "idle" /\ pc' = "made"
  /\ batch' \in Batches /\ batch' \in 0..made' /\ batch' > 0
  /\ made' \in 0..MaxBatches /\ made <= made'
  /\ ~Complete(batch') /\ (batch' = runner \/ ~Started(batch'))
  /\ runner <= batch'
  /\ used' \in UsedBounds
  /\ UNCHANGED <<open, file, runner, latest, liveLog, history, beat, held>>

LEMMA NewBatchFacts ==
  ASSUME TypeOK, NewBatch
  PROVE  /\ batch' \in Batches /\ batch' \in 0..made' /\ batch' > 0
         /\ made' \in 0..MaxBatches /\ made <= made'
         /\ ~Complete(batch') /\ ~Started(batch') /\ runner <= batch'
<1>1. /\ made \in Nat /\ made < MaxBatches /\ MaxBatches \in Nat
      /\ batch' = made + 1 /\ made' = made + 1 /\ runner \in 0..made
  BY BoundsAssumption DEF TypeOK, NewBatch
<1>2. batch' \in Batches /\ batch' > made
  BY <1>1 DEF Batches
<1>3. \A f \in Files : ~Exists(batch', f)
  BY <1>2 DEF TypeOK
<1> QED
  BY <1>1, <1>2, <1>3, FilesFact DEF Complete, Started, Required

LEMMA AttemptChooses ==
  ASSUME BatchInv, Attempt
  PROVE  Chooses /\ used' = used /\ Dropped' \subseteq Dropped
<1>1. /\ pc = "idle" /\ pc' = "made" /\ used' = used
      /\ UNCHANGED <<open, file, runner, latest, liveLog, history, beat, held>>
  BY DEF Attempt
<1>2. \A b \in Batches : /\ Started(b)' <=> Started(b)
                         /\ Complete(b)' <=> Complete(b)
  BY <1>1 DEF Started, Complete, Exists
<1>3. /\ made \in 0..MaxBatches /\ runner \in 0..made /\ used \in UsedBounds
      /\ Pending = runner /\ Pending' = batch'
  BY <1>1 DEF BatchInv, TypeOK, Pending
<1>4. CASE batch' \in Resumable /\ UNCHANGED made
  <2>1. /\ batch' = runner /\ batch' \in 1..made /\ ~Complete(batch')
        /\ made' = made
    BY <1>4 DEF Resumable
  <2>2. Chooses
    BY <1>1, <1>3, <2>1, BoundsAssumption DEF Chooses, Batches
  <2> QED
    BY <1>1, <1>2, <1>3, <2>1, <2>2 DEF Dropped
<1>5. CASE Resumable = {} /\ NewBatch
  <2>1. Chooses
    BY <1>1, <1>3, <1>5, NewBatchFacts DEF Chooses, BatchInv
  <2>2. runner \in Batches => ~Started(runner) \/ Complete(runner)
    BY <1>3, <1>5 DEF Resumable, Batches
  <2> QED
    BY <1>1, <1>2, <1>3, <2>1, <2>2 DEF Dropped
<1> QED
  BY <1>4, <1>5 DEF Attempt

LEMMA AttemptUnreadChooses ==
  ASSUME BatchInv, AttemptUnread
  PROVE  /\ Chooses /\ used'.unread = used.unread + 1
         /\ used'.crashes = used.crashes /\ used'.faults = used.faults
         /\ Dropped' \subseteq Dropped \cup {runner}
<1>1. /\ pc = "idle" /\ pc' = "made" /\ NewBatch /\ Use("unread")
      /\ UNCHANGED <<open, file, runner, latest, liveLog, history, beat, held>>
  BY DEF AttemptUnread
<1>2. /\ used' \in UsedBounds /\ used'.unread = used.unread + 1
      /\ used'.crashes = used.crashes /\ used'.faults = used.faults
  BY BoundsAssumption DEF AttemptUnread, Use, BatchInv, TypeOK, UsedBounds
<1>3. Chooses
  BY <1>1, <1>2, NewBatchFacts DEF Chooses, BatchInv
<1>4. \A b \in Batches : /\ Started(b)' <=> Started(b)
                         /\ Complete(b)' <=> Complete(b)
  BY <1>1 DEF Started, Complete, Exists
<1>5. Dropped' \subseteq Dropped \cup {runner}
  BY <1>1, <1>4 DEF Dropped, Pending
<1> QED
  BY <1>2, <1>3, <1>5

LEMMA ChoosesKeeps ==
  ASSUME BatchInv, Chooses
  PROVE  TypeOK' /\ AttemptInv' /\ SealedStep
<1>1. /\ file' = file /\ pc = "idle" /\ pc' = "made" /\ runner' = runner
      /\ latest' = latest /\ history' = history
  BY DEF Chooses
<1>2. \A b \in Batches : /\ Started(b)' <=> Started(b)
                         /\ Complete(b)' <=> Complete(b)
  BY <1>1 DEF Started, Complete, Exists
<1>3. made \in 0..MaxBatches /\ runner \in 0..made /\ latest \in 0..made
  BY DEF BatchInv, TypeOK
<1>4. TypeOK'
  <2>1. /\ runner' \in 0..made' /\ latest' \in 0..made'
        /\ history' \in [entries : SUBSET (1..made'), torn : BOOLEAN]
    <3>1. 1..made \subseteq 1..made' /\ 0..made \subseteq 0..made'
      BY <1>3 DEF Chooses
    <3> QED
      BY <1>1, <1>3, <3>1 DEF BatchInv, TypeOK
  <2>2. \A b \in Batches : b > made' => \A f \in Files : ~Exists(b, f)'
    BY <1>1, <1>3 DEF Chooses, BatchInv, TypeOK, Exists, Batches
  <2> QED
    BY <1>1, <2>1, <2>2 DEF Chooses, BatchInv, TypeOK, Steps, Writes
<1>5. AttemptInv'
  BY <1>1, <1>2 DEF Chooses, AttemptInv, Away, Complete, Started, Exists
<1>6. SealedStep
  BY <1>1, <1>2 DEF Chooses, SealedStep, Sealed
<1> QED
  BY <1>4, <1>5, <1>6

LEMMA AttemptKeeps ==
  ASSUME BatchInv, Attempt \/ AttemptUnread
  PROVE  TypeOK' /\ AttemptInv' /\ DroppedInv' /\ SealedStep /\ Chooses
<1>1. Chooses
  BY AttemptChooses, AttemptUnreadChooses
<1>2. TypeOK' /\ AttemptInv' /\ SealedStep
  BY <1>1, ChoosesKeeps
<1>3. CASE Attempt
  <2>1. used'.unread = used.unread /\ Dropped' \subseteq Dropped
    BY <1>3, AttemptChooses
  <2>2. DroppedInv'
    BY <2>1, DroppedStays DEF BatchInv, TypeOK
  <2> QED
    BY <1>1, <1>2, <2>2
<1>4. CASE AttemptUnread
  <2>1. /\ Dropped' \subseteq Dropped \cup {runner}
        /\ used'.unread = used.unread + 1
    BY <1>4, AttemptUnreadChooses
  <2>2. /\ IsFiniteSet(Dropped \cup {runner})
        /\ Cardinality(Dropped \cup {runner}) <= Cardinality(Dropped) + 1
    BY DroppedFinite, FS_AddElement
  <2>3. Cardinality(Dropped') <= Cardinality(Dropped) + 1
    BY <2>1, <2>2, DroppedFinite, FS_Subset, FS_CardinalityType
  <2>4. Cardinality(Dropped) <= used.unread /\ used.unread \in Nat
    BY BoundsAssumption DEF BatchInv, DroppedInv, TypeOK, UsedBounds
  <2>5. Cardinality(Dropped') \in Nat
    BY <2>1, <2>2, FS_Subset, FS_CardinalityType
  <2> QED
    BY <1>1, <1>2, <2>1, <2>3, <2>4, <2>5, DroppedFinite DEF DroppedInv
<1> QED
  BY <1>1, <1>2, <1>3, <1>4

LEMMA MarkRunningKeeps ==
  ASSUME BatchInv, MarkRunning
  PROVE  TypeOK' /\ AttemptInv' /\ DroppedInv' /\ SealedStep
<1>1. /\ file' = file /\ batch' = batch /\ made' = made /\ used' = used
      /\ pc = "made" /\ pc' = "liveSummary" /\ runner' = batch
  BY DEF MarkRunning
<1>2. \A b \in Batches : /\ Started(b)' <=> Started(b)
                         /\ Complete(b)' <=> Complete(b)
  BY <1>1 DEF Started, Complete, Exists
<1>3. TypeOK'
  BY <1>1 DEF BatchInv, TypeOK, MarkRunning, Steps, Writes, Exists
<1>4. AttemptInv'
  BY <1>1 DEF BatchInv, AttemptInv, Away
<1>5. DroppedInv'
  <2>1. Dropped' \subseteq Dropped
    BY <1>1, <1>2 DEF Dropped, Pending
  <2> QED
    BY <1>1, <2>1, DroppedStays DEF BatchInv, TypeOK
<1>6. SealedStep
  BY <1>1, <1>2 DEF SealedStep, Sealed
<1> QED
  BY <1>3, <1>4, <1>5, <1>6

-----------------------------------------------------------------------------
(* What every other step has in common.                                    *)
StepFacts ==
  /\ TypeOK' /\ Grows /\ SameBatch
  /\ pc \in Away \cup {"made"} => UNCHANGED file

LEMMA UnmadeStays ==
  ASSUME TypeOK, Grows, UNCHANGED <<batch, made>>
  PROVE  \A b \in Batches : b > made' => \A f \in Files : ~Exists(b, f)'
BY DEF TypeOK, Grows, Exists, Batches

(* Each bound is kept by the step that uses it.                            *)
LEMMA UsedFaults ==
  ASSUME used \in UsedBounds, used.faults < MaxFaults, Use("faults")
  PROVE  used' \in UsedBounds /\ used'.unread = used.unread
BY BoundsAssumption DEF UsedBounds, Use

LEMMA UsedTears ==
  ASSUME used \in UsedBounds, used.tears < MaxTears, Use("tears")
  PROVE  used' \in UsedBounds /\ used'.unread = used.unread
BY BoundsAssumption DEF UsedBounds, Use

LEMMA UsedBeats ==
  ASSUME used \in UsedBounds, used.beats < MaxBeats, Use("beats")
  PROVE  used' \in UsedBounds /\ used'.unread = used.unread
BY BoundsAssumption DEF UsedBounds, Use

LEMMA UsedCrashes ==
  ASSUME used \in UsedBounds, used.crashes < MaxCrashes, Use("crashes")
  PROVE  used' \in UsedBounds /\ used'.unread = used.unread
BY BoundsAssumption DEF UsedBounds, Use

-----------------------------------------------------------------------------
(* Steps that write no file of a batch.                                    *)
LEMMA BootStep == BatchInv /\ Boot => StepFacts
<1> SUFFICES ASSUME BatchInv, Boot PROVE StepFacts
  OBVIOUS
<1>1. UNCHANGED file /\ Grows /\ UNCHANGED <<batch, made>>
  BY NothingGrows DEF BatchInv, Boot
<1>2. TypeOK'
  BY <1>1, UnmadeStays DEF BatchInv, TypeOK, Boot, Steps, Writes
<1> QED
  BY <1>1, <1>2 DEF StepFacts, SameBatch, Boot, Away

LEMMA BeginArchiveStep == BatchInv /\ BeginArchive => StepFacts
<1> SUFFICES ASSUME BatchInv, BeginArchive PROVE StepFacts
  OBVIOUS
<1>1. UNCHANGED file /\ Grows /\ UNCHANGED <<batch, made>>
  BY NothingGrows DEF BatchInv, BeginArchive
<1>2. batch \in 1..made
  BY DEF BatchInv, AttemptInv, TypeOK, BeginArchive, Away
<1>3. history' \in [entries : SUBSET (1..made), torn : BOOLEAN]
  BY <1>2 DEF BatchInv, TypeOK, BeginArchive, Archived
<1>4. TypeOK'
  BY <1>1, <1>3, UnmadeStays DEF BatchInv, TypeOK, BeginArchive
<1> QED
  BY <1>1, <1>4 DEF StepFacts, SameBatch, BeginArchive, Away

LEMMA EndArchiveStep == BatchInv /\ EndArchive => StepFacts
<1> SUFFICES ASSUME BatchInv, EndArchive PROVE StepFacts
  OBVIOUS
<1>1. UNCHANGED file /\ Grows /\ UNCHANGED <<batch, made>>
  BY NothingGrows DEF BatchInv, EndArchive
<1>2. history' \in [entries : SUBSET (1..made), torn : BOOLEAN]
  BY DEF BatchInv, TypeOK, EndArchive
<1>3. TypeOK'
  BY <1>1, <1>2, UnmadeStays DEF BatchInv, TypeOK, EndArchive, Steps, Writes
<1> QED
  BY <1>1, <1>3 DEF StepFacts, SameBatch, EndArchive, Away

LEMMA RepairLatestStep == BatchInv /\ RepairLatest => StepFacts
<1> SUFFICES ASSUME BatchInv, RepairLatest PROVE StepFacts
  OBVIOUS
<1>1. UNCHANGED file /\ Grows /\ UNCHANGED <<batch, made>>
  BY NothingGrows DEF BatchInv, RepairLatest
<1>2. latest' \in 0..made
  BY DEF BatchInv, TypeOK, RepairLatest
<1>3. TypeOK'
  BY <1>1, <1>2, UnmadeStays
     DEF BatchInv, TypeOK, RepairLatest, Steps, Writes
<1> QED
  BY <1>1, <1>3 DEF StepFacts, SameBatch, RepairLatest, Away

LEMMA StopStep == BatchInv /\ Stop => StepFacts
<1> SUFFICES ASSUME BatchInv, Stop PROVE StepFacts
  OBVIOUS
<1>1. UNCHANGED file /\ Grows /\ UNCHANGED <<batch, made>>
  BY NothingGrows DEF BatchInv, Stop
<1>2. TypeOK'
  BY <1>1, UnmadeStays DEF BatchInv, TypeOK, Stop
<1> QED
  BY <1>1, <1>2 DEF StepFacts, SameBatch, Stop, Away

(* The batch that is left is already the named one.                        *)
LEMMA JoinStep == BatchInv /\ Join => StepFacts
<1> SUFFICES ASSUME BatchInv, Join PROVE StepFacts
  OBVIOUS
<1>1. UNCHANGED file /\ Grows /\ UNCHANGED <<batch, made>>
  BY NothingGrows DEF BatchInv, Join
<1>2. runner' = runner
  BY DEF BatchInv, AttemptInv, Join, Away
<1>3. TypeOK'
  BY <1>1, <1>2, UnmadeStays DEF BatchInv, TypeOK, Join
<1> QED
  BY <1>1, <1>2, <1>3 DEF StepFacts, SameBatch, Join, Away

(* The daemon fails in a step and goes on to stop the heartbeat.           *)
LEMMA RaiseFacts ==
  ASSUME BatchInv, Raise, Grows, pc \in Steps, held' \in {"none", "stale", "whole"},
         held # "none" => held' # "none", used' \in UsedBounds,
         used'.unread = used.unread
  PROVE  StepFacts
<1>1. pc \notin {"down", "idle", "made", "stop", "join"}
  BY DEF Steps, Writes
<1>2. TypeOK'
  BY <1>1, UnmadeStays DEF BatchInv, TypeOK, Raise, Grows
<1> QED
  BY <1>1, <1>2 DEF StepFacts, SameBatch, Raise, Away

LEMMA UnreadableStep == BatchInv /\ Unreadable => StepFacts
<1> SUFFICES ASSUME BatchInv, Unreadable PROVE StepFacts
  OBVIOUS
<1>1. UNCHANGED <<file, held, used>> /\ Raise /\ pc \in Steps
  BY DEF Unreadable, Steps
<1>2. Grows
  BY <1>1, NothingGrows DEF BatchInv
<1> QED
  BY <1>1, <1>2, RaiseFacts DEF BatchInv, TypeOK

LEMMA FaultStep == BatchInv /\ Fault => StepFacts
<1> SUFFICES ASSUME BatchInv, Fault PROVE StepFacts
  OBVIOUS
<1>1. UNCHANGED <<file, held>> /\ Raise /\ pc \in Steps
  BY DEF Fault
<1>2. Grows
  BY <1>1, NothingGrows DEF BatchInv
<1>3. used' \in UsedBounds /\ used'.unread = used.unread
  BY UsedFaults DEF Fault, BatchInv, TypeOK
<1> QED
  BY <1>1, <1>2, <1>3, RaiseFacts DEF BatchInv, TypeOK

LEMMA NotMarkedStep == BatchInv /\ NotMarked => StepFacts
<1> SUFFICES ASSUME BatchInv, NotMarked PROVE StepFacts
  OBVIOUS
<1>1. UNCHANGED file /\ Grows /\ UNCHANGED <<batch, made>>
  BY NothingGrows DEF BatchInv, NotMarked
<1>2. used' \in UsedBounds /\ used'.unread = used.unread
  BY UsedFaults DEF NotMarked, BatchInv, TypeOK
<1>3. TypeOK'
  BY <1>1, <1>2, UnmadeStays DEF BatchInv, TypeOK, NotMarked
<1> QED
  BY <1>1, <1>2, <1>3
     DEF StepFacts, SameBatch, NotMarked, Away

LEMMA DieFacts ==
  ASSUME BatchInv, Die, Grows, used' \in UsedBounds,
         used'.unread = used.unread,
         pc \in Away \cup {"made"} => UNCHANGED file
  PROVE  StepFacts
<1>1. TypeOK'
  BY UnmadeStays DEF BatchInv, TypeOK, Die, Grows
<1> QED
  BY <1>1 DEF StepFacts, SameBatch, Die, Away

LEMMA CrashStep == BatchInv /\ Crash => StepFacts
<1> SUFFICES ASSUME BatchInv, Crash PROVE StepFacts
  OBVIOUS
<1>1. Die /\ UNCHANGED file /\ Grows
  BY NothingGrows DEF BatchInv, Crash
<1>2. used' \in UsedBounds /\ used'.unread = used.unread
  BY UsedCrashes DEF Crash, Die, BatchInv, TypeOK
<1> QED
  BY <1>1, <1>2, DieFacts

LEMMA BeatReadStep == BatchInv /\ BeatRead => StepFacts
<1> SUFFICES ASSUME BatchInv, BeatRead PROVE StepFacts
  OBVIOUS
<1>1. UNCHANGED file /\ Grows /\ UNCHANGED <<batch, made>>
  BY NothingGrows DEF BatchInv, BeatRead, main
<1>2. used' \in UsedBounds /\ used'.unread = used.unread
  BY UsedBeats DEF BeatRead, BatchInv, TypeOK
<1>3. TypeOK'
  BY <1>1, <1>2, UnmadeStays DEF BatchInv, TypeOK, BeatRead, main
<1> QED
  BY <1>1, <1>2, <1>3
     DEF StepFacts, SameBatch, BeatRead, main, BatchInv, TypeOK, Away

LEMMA BeatFailsStep == BatchInv /\ BeatFails => StepFacts
<1> SUFFICES ASSUME BatchInv, BeatFails PROVE StepFacts
  OBVIOUS
<1>1. UNCHANGED file /\ Grows /\ UNCHANGED <<batch, made>>
  BY NothingGrows DEF BatchInv, BeatFails, main
<1>2. used' \in UsedBounds /\ used'.unread = used.unread
  BY UsedFaults DEF BeatFails, BatchInv, TypeOK
<1>3. TypeOK'
  BY <1>1, <1>2, UnmadeStays DEF BatchInv, TypeOK, BeatFails, main
<1> QED
  BY <1>1, <1>2, <1>3
     DEF StepFacts, SameBatch, BeatFails, main, BatchInv, TypeOK, Away

-----------------------------------------------------------------------------
(* Steps that write a file of the batch.                                   *)
LEMMA BatchIsMade ==
  ASSUME BatchInv, pc \notin Away
  PROVE  batch > 0 /\ batch \in 1..made
BY DEF BatchInv, AttemptInv, TypeOK

LEMMA BeginWriteStep == BatchInv /\ BeginWrite => StepFacts
<1> SUFFICES ASSUME BatchInv, BeginWrite PROVE StepFacts
  OBVIOUS
<1>1. pc \in Writes /\ pc \notin Away \cup {"made"}
  BY DEF BeginWrite, Writes, Away
<1>2. Grows
  <2>1. file' = [file EXCEPT ![batch][pc] = "torn"]
    BY DEF BeginWrite
  <2>2. "torn" \in Statuses \ {"none"} /\ pc \in Files
    BY <1>1, FilesFact DEF Statuses
  <2> QED
    BY <1>1, <2>1, <2>2, BatchIsMade, OneFileGrows DEF BatchInv
<1>3. TypeOK'
  BY <1>2, UnmadeStays DEF BatchInv, TypeOK, BeginWrite, Grows
<1> QED
  BY <1>1, <1>2, <1>3 DEF StepFacts, SameBatch, BeginWrite, Away

LEMMA EndWriteStep == BatchInv /\ EndWrite => StepFacts
<1> SUFFICES ASSUME BatchInv, EndWrite PROVE StepFacts
  OBVIOUS
<1>1. pc \in Writes /\ pc \notin Away \cup {"made"}
  BY DEF EndWrite, Writes, Away
<1>2. Grows
  <2>1. PICK status \in Closed(file[batch][pc], "whole") :
          file' = [file EXCEPT ![batch][pc] = status]
    BY DEF EndWrite
  <2>2. status \in Statuses \ {"none"} /\ pc \in Files
    BY <1>1, <2>1, FilesFact DEF Statuses, Closed
  <2> QED
    BY <1>1, <2>1, <2>2, BatchIsMade, OneFileGrows DEF BatchInv
<1>3. pc' \in Steps /\ pc' \notin Away \cup {"made", "join"}
  BY <1>1, AfterFact DEF EndWrite
<1>4. TypeOK'
  BY <1>1, <1>2, <1>3, UnmadeStays DEF BatchInv, TypeOK, EndWrite, Grows, Away
<1> QED
  BY <1>1, <1>2, <1>3, <1>4 DEF StepFacts, SameBatch, EndWrite, Away

LEMMA BuildStep == BatchInv /\ Build => StepFacts
<1> SUFFICES ASSUME BatchInv, Build PROVE StepFacts
  OBVIOUS
<1>1. pc \notin Away \cup {"made"}
  BY DEF Build, Away
<1>2. Grows
  <2>1. "whole" \in Statuses \ {"none"} /\ "db" \in Files
    BY FilesFact DEF Statuses
  <2>2. file' = [file EXCEPT ![batch]["db"] = "whole"]
    BY DEF Build
  <2> QED
    BY <1>1, <2>1, <2>2, BatchIsMade, OneFileGrows DEF BatchInv
<1>3. TypeOK'
  BY <1>2, UnmadeStays DEF BatchInv, TypeOK, Build, Grows, Steps
<1> QED
  BY <1>1, <1>2, <1>3 DEF StepFacts, SameBatch, Build, Away

(* A line is added to the log: the summary in hand is older than it too.   *)
LEMMA AppendFacts ==
  ASSUME BatchInv, AppendLine
  PROVE  /\ Grows /\ pc \notin Away \cup {"made"}
         /\ held' \in {"none", "stale", "whole"}
         /\ held # "none" => held' # "none"
<1>1. pc \notin Away \cup {"made"}
  BY DEF AppendLine, Away
<1>2. Appended(file[batch]["log"]) \in Statuses \ {"none"}
  BY DEF Appended, Statuses
<1>3. file \in [Batches -> [Files -> Statuses]] /\ batch \in Batches
  BY <1>1, BatchIsMade, BoundsAssumption DEF BatchInv, TypeOK, Batches
<1>4. file' = [file EXCEPT ![batch]["log"] = Appended(file[batch]["log"]),
                           ![batch]["summary"] = Outdated(@)]
  BY <1>3, FilesFact DEF AppendLine
<1>5. Grows
  BY <1>1, <1>2, <1>4, BatchIsMade, LogGrows DEF BatchInv
<1> QED
  BY <1>1, <1>5 DEF AppendLine, Outdated, BatchInv, TypeOK

LEMMA LoopStep == BatchInv /\ Loop => StepFacts
<1> SUFFICES ASSUME BatchInv, Loop PROVE StepFacts
  OBVIOUS
<1>1. /\ Grows /\ pc \notin Away \cup {"made"}
      /\ held' \in {"none", "stale", "whole"}
      /\ held # "none" => held' # "none"
  BY AppendFacts DEF Loop
<1>2. UNCHANGED <<pc, open, batch, made, runner, latest, liveLog, history,
                  beat, used>>
  BY DEF Loop, main
<1>3. TypeOK'
  BY <1>1, <1>2, UnmadeStays DEF BatchInv, TypeOK, Grows
<1> QED
  BY <1>1, <1>2, <1>3 DEF StepFacts, SameBatch, Away

LEMMA EndRunStep == BatchInv /\ EndRun => StepFacts
<1> SUFFICES ASSUME BatchInv, EndRun PROVE StepFacts
  OBVIOUS
<1>1. /\ Grows /\ pc \notin Away \cup {"made"}
      /\ held' \in {"none", "stale", "whole"}
      /\ held # "none" => held' # "none"
  BY AppendFacts DEF EndRun
<1>2. /\ UNCHANGED <<open, batch, made, runner, latest, liveLog, history,
                     beat, used>>
      /\ pc' = "summary"
  BY DEF EndRun
<1>3. TypeOK'
  BY <1>1, <1>2, UnmadeStays DEF BatchInv, TypeOK, Grows, Steps, Writes, Away
<1> QED
  BY <1>1, <1>2, <1>3 DEF StepFacts, SameBatch, Away

LEMMA TornGrows ==
  ASSUME BatchInv, pc = "run", file' = TornLog(batch)
  PROVE  Grows
<1> DEFINE old == file[batch]["log"]
           st == IF old \in {"none", "lines"} THEN "torn" ELSE "broken"
<1>1. st \in Statuses \ {"none"}
  BY DEF Statuses
<1>2. file \in [Batches -> [Files -> Statuses]] /\ batch \in Batches
      /\ batch > 0
  BY BatchIsMade, BoundsAssumption DEF BatchInv, TypeOK, Batches, Away
<1>3. file' = [file EXCEPT ![batch]["log"] = st,
                           ![batch]["summary"] = Outdated(@)]
  BY <1>2, FilesFact DEF TornLog
<1> HIDE DEF st
<1> QED
  BY <1>1, <1>2, <1>3, LogGrows DEF BatchInv

LEMMA TearLineStep == BatchInv /\ TearLine => StepFacts
<1> SUFFICES ASSUME BatchInv, TearLine PROVE StepFacts
  OBVIOUS
<1>1. Raise /\ Grows /\ pc \in Steps
  BY TornGrows DEF TearLine, Steps
<1>2. used' \in UsedBounds /\ used'.unread = used.unread
  BY UsedTears DEF TearLine, BatchInv, TypeOK
<1>3. /\ held' \in {"none", "stale", "whole"}
      /\ held # "none" => held' # "none"
  BY DEF TearLine, Outdated, BatchInv, TypeOK
<1> QED
  BY <1>1, <1>2, <1>3, RaiseFacts

LEMMA CrashInLineStep == BatchInv /\ CrashInLine => StepFacts
<1> SUFFICES ASSUME BatchInv, CrashInLine PROVE StepFacts
  OBVIOUS
<1>1. Die /\ Grows /\ pc \notin Away \cup {"made"}
  BY TornGrows DEF CrashInLine, Away
<1>2. used' \in UsedBounds /\ used'.unread = used.unread
  <2>1. /\ used \in UsedBounds
        /\ used.crashes + 1 \in 0..MaxCrashes /\ used.tears + 1 \in 0..MaxTears
    BY BoundsAssumption DEF CrashInLine, Die, BatchInv, TypeOK, UsedBounds
  <2>2. used' = [used EXCEPT !.crashes = used.crashes + 1,
                             !.tears = used.tears + 1]
    BY DEF CrashInLine
  <2> QED
    BY <2>1, <2>2 DEF UsedBounds
<1> QED
  BY <1>1, <1>2, DieFacts

LEMMA BeatOpenStep == BatchInv /\ BeatOpen => StepFacts
<1> SUFFICES ASSUME BatchInv, BeatOpen PROVE StepFacts
  OBVIOUS
<1>1. pc \notin Away \cup {"made"}
  BY DEF BeatOpen, BatchInv, TypeOK, Away
<1>2. Grows
  <2>1. "torn" \in Statuses \ {"none"} /\ "summary" \in Files
    BY FilesFact DEF Statuses
  <2>2. file' = [file EXCEPT ![batch]["summary"] = "torn"]
    BY DEF BeatOpen
  <2> QED
    BY <1>1, <2>1, <2>2, BatchIsMade, OneFileGrows DEF BatchInv
<1>3. TypeOK'
  BY <1>2, UnmadeStays DEF BatchInv, TypeOK, BeatOpen, Grows, main
<1> QED
  BY <1>1, <1>2, <1>3 DEF StepFacts, SameBatch, BeatOpen, main, Away

LEMMA BeatWriteStep == BatchInv /\ BeatWrite => StepFacts
<1> SUFFICES ASSUME BatchInv, BeatWrite PROVE StepFacts
  OBVIOUS
<1>1. pc \notin Away \cup {"made"}
  BY DEF BeatWrite, BatchInv, TypeOK, Away
<1>2. Grows
  <2>1. PICK status \in Closed(file[batch]["summary"], held) :
          file' = [file EXCEPT ![batch]["summary"] = status]
    BY DEF BeatWrite
  <2>2. status \in Statuses \ {"none"} /\ "summary" \in Files
    BY <2>1, FilesFact DEF Statuses, Closed, BeatWrite, BatchInv, TypeOK
  <2> QED
    BY <1>1, <2>1, <2>2, BatchIsMade, OneFileGrows DEF BatchInv
<1>3. TypeOK'
  BY <1>2, UnmadeStays DEF BatchInv, TypeOK, BeatWrite, Grows, main
<1> QED
  BY <1>1, <1>2, <1>3 DEF StepFacts, SameBatch, BeatWrite, main, Away

-----------------------------------------------------------------------------
LEMMA BatchInit == Init => BatchInv
<1> SUFFICES ASSUME Init PROVE BatchInv
  OBVIOUS
<1>1. \A b \in Batches, f \in Files : file[b][f] = "none"
  BY DEF Init
<1>2. file \in [Batches -> [Files -> Statuses]]
  BY DEF Init, Statuses
<1>3. used \in UsedBounds
  BY BoundsAssumption DEF Init, UsedBounds
<1>4. \A b \in Batches : ~Started(b)
  BY <1>1, FilesFact DEF Started, Exists
<1>5. history \in [entries : SUBSET (1..made), torn : BOOLEAN]
  BY DEF Init
<1>6. made \in 0..MaxBatches /\ batch \in 0..made
      /\ runner \in 0..made /\ latest \in 0..made
  BY BoundsAssumption DEF Init
<1>7. \A b \in Batches : \A f \in Files : ~Exists(b, f)
  BY <1>1 DEF Exists
<1>8. TypeOK
  BY <1>2, <1>3, <1>5, <1>6, <1>7 DEF Init, TypeOK
<1>9. DroppedInv
  <2>1. Dropped = {} /\ used.unread = 0
    BY <1>4 DEF Dropped, Init
  <2> QED
    BY <2>1, FS_EmptySet DEF DroppedInv
<1> QED
  BY <1>8, <1>9 DEF BatchInv, AttemptInv, Init, Away

LEMMA StepFactsKeep ==
  ASSUME BatchInv, StepFacts
  PROVE  BatchInv' /\ SealedStep
BY SameBatchKeeps DEF StepFacts, BatchInv

(* Every step but the three that choose a batch.                           *)
LEMMA OtherSteps ==
  ASSUME BatchInv, ThreadStep, ~Attempt, ~AttemptUnread, ~MarkRunning
  PROVE  StepFacts
<1>1. CASE Advance
  BY <1>1, BootStep, BeginWriteStep, EndWriteStep, BuildStep, EndRunStep,
     BeginArchiveStep, EndArchiveStep, RepairLatestStep, StopStep, JoinStep,
     UnreadableStep DEF Advance
<1>2. CASE Loop \/ Beat \/ BeatFails
  BY <1>2, LoopStep, BeatReadStep, BeatOpenStep, BeatWriteStep, BeatFailsStep
     DEF Beat
<1>3. CASE Fault \/ NotMarked \/ TearLine \/ Crash \/ CrashInLine
  BY <1>3, FaultStep, NotMarkedStep, TearLineStep, CrashStep, CrashInLineStep
<1> QED
  BY <1>1, <1>2, <1>3 DEF ThreadStep, Next

LEMMA StepKinds ==
  ASSUME [Next]_vars, TypeOK
  PROVE  \/ ThreadStep
         \/ NoThreadStep /\ liveLog' \in {"lines", "broken"}
BY DEF ThreadStep, NoThreadStep, LiveLogTorn, vars, main, TypeOK

LEMMA BatchNext == BatchInv /\ [Next]_vars => BatchInv' /\ SealedStep
<1> SUFFICES ASSUME BatchInv, [Next]_vars PROVE BatchInv' /\ SealedStep
  OBVIOUS
<1>1. CASE NoThreadStep /\ liveLog' \in {"lines", "broken"}
  BY <1>1 DEF NoThreadStep, main, BatchInv, TypeOK, AttemptInv, DroppedInv,
              Dropped, Pending, SealedStep, Sealed, Started, Complete, Exists
<1>2. CASE Attempt \/ AttemptUnread
  BY <1>2, AttemptKeeps DEF BatchInv
<1>3. CASE MarkRunning
  BY <1>3, MarkRunningKeeps DEF BatchInv
<1>4. CASE ThreadStep /\ ~Attempt /\ ~AttemptUnread /\ ~MarkRunning
  BY <1>4, OtherSteps, StepFactsKeep
<1> QED
  BY <1>1, <1>2, <1>3, <1>4, StepKinds DEF BatchInv

(* What no attempt will find is among what was dropped.                    *)
LEMMA ForgottenAreDropped ==
  ASSUME BatchInv
  PROVE  /\ {b \in Batches : Forgotten(b)} \subseteq Dropped
         /\ IsFiniteSet({b \in Batches : Forgotten(b)})
         /\ ForgottenOnlyUnread
<1>1. {b \in Batches : Forgotten(b)} \subseteq Dropped
  BY DEF BatchInv, AttemptInv, Forgotten, Dropped, Pending
<1>2. /\ IsFiniteSet({b \in Batches : Forgotten(b)})
      /\ Cardinality({b \in Batches : Forgotten(b)}) <= Cardinality(Dropped)
      /\ Cardinality({b \in Batches : Forgotten(b)}) \in Nat
  BY <1>1, DroppedFinite, FS_Subset, FS_CardinalityType
<1>3. used.unread \in Nat
  BY BoundsAssumption DEF BatchInv, TypeOK, UsedBounds
<1> QED
  BY <1>1, <1>2, <1>3, DroppedFinite
     DEF BatchInv, DroppedInv, ForgottenOnlyUnread

-----------------------------------------------------------------------------
LEMMA BatchInvariant == Spec => []BatchInv
  BY BatchInit, BatchNext, PTL DEF Spec

(* The heartbeat runs only while a batch does, and files exist only in the *)
(* directories that were made.                                             *)
THEOREM BatchTypeCorrect == Spec => []TypeOK
<1>1. BatchInv => TypeOK
  BY DEF BatchInv
<1> QED
  BY <1>1, BatchInvariant, PTL

(* Whatever fails or dies, a begun batch is lost sight of only when        *)
(* runner-state.json could not be read, and one at most for each such read:*)
(* without one, the batch that is not complete is the one the daemon will  *)
(* find there.                                                             *)
THEOREM ForgottenOnlyByUnread == Spec => []ForgottenOnlyUnread
<1>1. BatchInv => ForgottenOnlyUnread
  BY ForgottenAreDropped
<1> QED
  BY <1>1, BatchInvariant, PTL

(* A batch that was completed and left is never worked on again, by either *)
(* thread.                                                                 *)
THEOREM SealedForGood == Spec => SealedStaysSealed
<1>1. SealedStep => [\A b \in Batches :
                       Sealed(b) => Sealed(b)' /\ file'[b] = file[b]]_vars
  BY DEF SealedStep
<1> QED
  BY <1>1, BatchInit, BatchNext, PTL DEF Spec, SealedStaysSealed

-----------------------------------------------------------------------------
(* What the reports of a batch are worth                                   *)

(* The last files of a batch: only the daemon's own steps write them.      *)
Outputs == {"snapshot", "outcome", "comparison", "report"}

(* The steps of an attempt after the file was written, and those after the *)
(* summary.                                                                *)
Later(f) == CASE f = "snapshot"   -> {"outcome", "comparison", "report",
                                      "archive", "latest"}
              [] f = "outcome"    -> {"comparison", "report", "archive",
                                      "latest"}
              [] f = "comparison" -> {"report", "archive", "latest"}
              [] f = "report"     -> {"archive", "latest"}

Reporting == Outputs \cup {"archive", "latest"}

(* The daemon has left the steps of its batch.                             *)
Left == {"down", "idle", "stop", "join"}

(* What an attempt has written so far is whole, and what a complete batch  *)
(* needs is there when the attempt comes to its end.                       *)
OutputsInv ==
  /\ \A f \in Outputs : pc \in Later(f) => file[batch][f] = "whole"
  /\ pc \in Outputs /\ open => file[batch][pc] = "torn"
  /\ pc \in Steps \ {"liveSummary"} => Exists(batch, "liveSummary")
  /\ pc \in {"summary"} \cup Reporting => Exists(batch, "log")
  /\ pc \in Reporting => Exists(batch, "summary")

(* No batch after the named one holds a file.                              *)
NamedIsLast ==
  /\ \A b \in Batches : b > runner => \A f \in Files : ~Exists(b, f)
  /\ pc = "made" => batch >= runner

(* The batch latest.json names is complete, so no attempt takes it up.     *)
LatestInv ==
  latest # 0 => /\ Complete(latest)
                /\ \A f \in Outputs : file[latest][f] = "whole"
                /\ latest = batch => pc \in Left

(* The comparison was begun and the history is not written yet.            *)
Unarchived == \/ pc = "comparison" /\ open
              \/ pc = "report"
              \/ pc = "archive" /\ ~open

Faultless == used.crashes = 0 /\ used.faults = 0

ArchiveInv ==
  Faultless =>
    /\ history.torn => pc = "archive" /\ open
    /\ \A b \in Batches : Exists(b, "comparison") =>
         b \in history.entries \/ (b = batch /\ Unarchived)

ReportInv == OutputsInv /\ NamedIsLast /\ LatestInv /\ ArchiveInv

(* A step that writes none of the last files.                              *)
Keeps == \A b \in Batches, f \in Outputs : file'[b][f] = file[b][f]

-----------------------------------------------------------------------------
LEMMA OutputFacts ==
  /\ Outputs \subseteq Files /\ Outputs \subseteq Writes
  /\ Required \subseteq Outputs \cup {"liveSummary", "log", "summary"}
  /\ Outputs \subseteq Required \cup {"report"} /\ "liveSummary" \in Files
BY DEF Outputs, Files, Writes, Required

LEMMA LaterFacts ==
  ASSUME NEW f \in Outputs
  PROVE  /\ Later(f) \subseteq Reporting /\ f \notin Later(f)
         /\ "latest" \in Later(f) /\ "archive" \in Later(f)
         /\ \A p \in Writes : After[p] \in Later(f) => p = f \/ p \in Later(f)
BY DEF Later, Outputs, Reporting, After, Writes

LEMMA OneFileKeeps ==
  ASSUME TypeOK, batch \in Batches, NEW g \in Files \ Outputs, NEW st,
         file' = [file EXCEPT ![batch][g] = st]
  PROVE  Keeps
<1>1. file \in [Batches -> [Files -> Statuses]]
  BY DEF TypeOK
<1>2. ASSUME NEW b \in Batches, NEW f \in Outputs
      PROVE  file'[b][f] = file[b][f]
  BY <1>1, OutputFacts
<1> QED
  BY <1>2 DEF Keeps

LEMMA LogKeeps ==
  ASSUME TypeOK, batch \in Batches, NEW st, NEW old,
         file' = [file EXCEPT ![batch]["log"] = st, ![batch]["summary"] = old]
  PROVE  Keeps
<1>1. file \in [Batches -> [Files -> Statuses]]
  BY DEF TypeOK
<1>2. "log" \notin Outputs /\ "summary" \notin Outputs
  BY DEF Outputs
<1>3. ASSUME NEW b \in Batches, NEW f \in Outputs
      PROVE  file'[b][f] = file[b][f]
  BY <1>1, <1>2, OutputFacts
<1> QED
  BY <1>3 DEF Keeps

LEMMA WorkedBatch ==
  ASSUME BatchInv, pc \notin Away
  PROVE  batch \in Batches
BY BatchIsMade, BoundsAssumption DEF BatchInv, TypeOK, Batches

LEMMA AppendKeeps ==
  ASSUME BatchInv, AppendLine
  PROVE  Keeps
<1>1. batch \in Batches
  BY WorkedBatch DEF AppendLine, Away
<1>2. file' = [file EXCEPT ![batch]["log"] = Appended(file[batch]["log"]),
                           ![batch]["summary"] = Outdated(file[batch]["summary"])]
  BY <1>1, FilesFact DEF AppendLine, BatchInv, TypeOK
<1> QED
  BY <1>1, <1>2, LogKeeps DEF BatchInv

LEMMA TornKeeps ==
  ASSUME BatchInv, pc = "run", file' = TornLog(batch)
  PROVE  Keeps
<1> DEFINE log == file[batch]["log"]
           torn == IF log \in {"none", "lines"} THEN "torn" ELSE "broken"
<1>1. batch \in Batches
  BY WorkedBatch DEF Away
<1>2. file' = [file EXCEPT ![batch]["log"] = torn,
                           ![batch]["summary"] = Outdated(file[batch]["summary"])]
  BY <1>1, FilesFact DEF TornLog, BatchInv, TypeOK
<1> HIDE DEF torn
<1> QED
  BY <1>1, <1>2, LogKeeps DEF BatchInv

LEMMA SummaryKeeps ==
  ASSUME BatchInv, beat # "off", NEW st,
         file' = [file EXCEPT ![batch]["summary"] = st]
  PROVE  Keeps
<1>1. batch \in Batches
  BY WorkedBatch DEF BatchInv, TypeOK, Away
<1>2. "summary" \in Files \ Outputs
  BY DEF Files, Outputs, Writes
<1> QED
  BY <1>1, <1>2, OneFileKeeps DEF BatchInv

(* Only the two halves of a write touch the last files.                    *)
LEMMA StepsKeep ==
  ASSUME BatchInv, ThreadStep, ~BeginWrite, ~EndWrite
  PROVE  Keeps
<1>1. CASE UNCHANGED file
  BY <1>1 DEF Keeps
<1>2. CASE Build
  <2>1. batch \in Batches
    BY <1>2, WorkedBatch DEF Build, Away
  <2>2. "db" \in Files \ Outputs
    BY DEF Files, Outputs
  <2> QED
    BY <1>2, <2>1, <2>2, OneFileKeeps DEF Build, BatchInv
<1>3. CASE Loop \/ EndRun
  BY <1>3, AppendKeeps DEF Loop, EndRun
<1>4. CASE TearLine \/ CrashInLine
  BY <1>4, TornKeeps DEF TearLine, CrashInLine
<1>5. CASE BeatOpen \/ BeatWrite
  BY <1>5, SummaryKeeps DEF BeatOpen, BeatWrite
<1>6. CASE AttemptUnread \/ (Advance /\ ~Build /\ ~EndRun)
  BY <1>1, <1>6 DEF Advance, Boot, Attempt, AttemptUnread, MarkRunning,
     BeginArchive, EndArchive, RepairLatest, Stop, Join, Unreadable
<1>7. CASE BeatRead \/ BeatFails \/ Fault \/ NotMarked \/ Crash
  BY <1>1, <1>7 DEF BeatRead, BeatFails, Fault, NotMarked, Crash
<1> QED
  BY <1>2, <1>3, <1>4, <1>5, <1>6, <1>7 DEF ThreadStep, Next, Beat

-----------------------------------------------------------------------------
(* NamedIsLast                                                             *)

LEMMA NamedKept ==
  ASSUME BatchInv, NamedIsLast, ThreadStep
  PROVE  NamedIsLast'
<1>1. CASE Attempt \/ AttemptUnread
  <2>1. Chooses /\ runner \in Nat /\ batch' \in Nat
    BY <1>1, AttemptKeeps DEF Chooses, BatchInv, TypeOK
  <2> QED
    BY <2>1 DEF Chooses, NamedIsLast, Exists
<1>2. CASE MarkRunning
  <2>1. /\ file' = file /\ runner' = batch /\ pc' = "liveSummary"
        /\ batch >= runner /\ runner \in Nat /\ batch \in Nat
    BY <1>2 DEF MarkRunning, BatchInv, TypeOK, NamedIsLast
  <2>2. \A b \in Batches : b > batch => b > runner
    BY <2>1 DEF Batches
  <2> QED
    BY <2>1, <2>2 DEF NamedIsLast, Exists
<1>3. CASE ~Attempt /\ ~AttemptUnread /\ ~MarkRunning
  <2>1. StepFacts
    BY <1>3, OtherSteps
  <2>2. runner' = runner /\ pc' # "made" /\ runner \in Nat
    BY <2>1 DEF StepFacts, SameBatch, BatchInv, TypeOK
  <2>3. CASE pc \in Away \cup {"made"}
    BY <2>1, <2>2, <2>3 DEF StepFacts, NamedIsLast, Exists
  <2>4. CASE pc \notin Away \cup {"made"}
    <3>1. runner = batch
      BY <2>4 DEF BatchInv, AttemptInv
    <3>2. \A b \in Batches : b > runner => file'[b] = file[b]
      BY <2>1, <2>2, <3>1 DEF StepFacts, Grows, Batches
    <3> QED
      BY <2>2, <3>2 DEF NamedIsLast, Exists
  <2> QED
    BY <2>3, <2>4
<1> QED
  BY <1>1, <1>2, <1>3

-----------------------------------------------------------------------------
(* OutputsInv                                                              *)

(* Outside the steps of an attempt it claims nothing.                      *)
LEMMA OutputsAway ==
  ASSUME pc' \in Left \cup {"made", "liveSummary"}
  PROVE  OutputsInv'
<1>1. pc' \notin Reporting \cup {"summary"} \cup (Steps \ {"liveSummary"})
  BY DEF Left, Reporting, Outputs, Steps, Writes
<1> QED
  BY <1>1, LaterFacts DEF OutputsInv, Reporting

(* A step of the other thread, or one more cycle, leaves the files alone.  *)
LEMMA OutputsStay ==
  ASSUME BatchInv, OutputsInv, Keeps, Grows, pc \notin Away,
         UNCHANGED <<pc, open, batch>>
  PROVE  OutputsInv'
<1>1. batch \in Batches
  BY WorkedBatch
<1> QED
  BY <1>1, FilesFact, OutputFacts DEF OutputsInv, Keeps, Grows, Exists

LEMMA BeginWriteOutputs ==
  ASSUME BatchInv, OutputsInv, BeginWrite
  PROVE  OutputsInv'
<1>1. /\ pc \in Writes /\ ~open /\ pc' = pc /\ batch' = batch
      /\ file' = [file EXCEPT ![batch][pc] = "torn"]
      /\ batch \in Batches /\ file \in [Batches -> [Files -> Statuses]]
  BY WorkedBatch DEF BeginWrite, Writes, Away, BatchInv, TypeOK
<1>2. /\ file'[batch][pc] = "torn"
      /\ \A f \in Files \ {pc} : file'[batch][f] = file[batch][f]
  BY <1>1, FilesFact
<1>3. \A f \in Outputs : pc \in Later(f) => f # pc /\ f \in Files
  BY LaterFacts, OutputFacts
<1>4. \A f \in Files : Exists(batch, f) => Exists(batch, f)'
  BY <1>1, BeginWriteStep DEF StepFacts, Grows
<1> QED
  BY <1>1, <1>2, <1>3, <1>4, FilesFact, OutputFacts DEF OutputsInv

LEMMA EndWriteOutputs ==
  ASSUME BatchInv, OutputsInv, EndWrite
  PROVE  OutputsInv'
<1>1. PICK status \in Closed(file[batch][pc], "whole") :
        file' = [file EXCEPT ![batch][pc] = status]
  BY DEF EndWrite
<1>2. /\ pc \in Writes /\ open /\ pc' = After[pc] /\ ~open' /\ batch' = batch
      /\ batch \in Batches /\ file \in [Batches -> [Files -> Statuses]]
  BY WorkedBatch DEF EndWrite, Writes, Away, BatchInv, TypeOK
<1>3. /\ file'[batch][pc] = status
      /\ \A f \in Files \ {pc} : file'[batch][f] = file[batch][f]
  BY <1>1, <1>2, FilesFact
<1>4. status # "none" /\ (pc \in Outputs => status = "whole")
  BY <1>1, <1>2 DEF Closed, OutputsInv
<1>5. \A f \in Files : Exists(batch, f) \/ f = pc => Exists(batch, f)'
  BY <1>2, <1>3, <1>4, EndWriteStep DEF StepFacts, Grows, Exists
<1>6. ASSUME NEW f \in Outputs, pc' \in Later(f)
      PROVE  file'[batch][f] = "whole"
  <2>1. pc = f \/ pc \in Later(f)
    BY <1>2, <1>6, LaterFacts
  <2> QED
    BY <1>3, <1>4, <2>1, OutputFacts, LaterFacts DEF OutputsInv
<1>7. pc' \in Steps \ {"liveSummary"} => Exists(batch, "liveSummary")'
  <2>1. pc = "liveSummary" \/ pc \in Steps \ {"liveSummary"}
    BY <1>2 DEF Steps
  <2> QED
    BY <1>5, <2>1, FilesFact DEF OutputsInv, Files, Writes
<1>8. pc' \in {"summary"} \cup Reporting => Exists(batch, "log")'
  <2>1. pc' \in {"summary"} \cup Reporting => pc \in {"summary"} \cup Reporting
    BY <1>2 DEF After, Writes, Reporting, Outputs
  <2> QED
    BY <1>5, <2>1, FilesFact DEF OutputsInv
<1>9. pc' \in Reporting => Exists(batch, "summary")'
  <2>1. pc' \in Reporting => pc = "summary" \/ pc \in Reporting
    BY <1>2 DEF After, Writes, Reporting, Outputs
  <2> QED
    BY <1>5, <2>1, FilesFact DEF OutputsInv
<1> QED
  BY <1>2, <1>6, <1>7, <1>8, <1>9 DEF OutputsInv

LEMMA RunOutputs ==
  ASSUME BatchInv, OutputsInv, Build \/ EndRun
  PROVE  OutputsInv'
<1>1. /\ pc \in {"build", "run"} /\ batch' = batch /\ batch \in Batches
      /\ pc' \in {"run", "summary"}
      /\ pc' = "summary" => AppendLine
  BY WorkedBatch DEF Build, EndRun, AppendLine, Away
<1>2. Grows
  BY BuildStep, EndRunStep DEF StepFacts
<1>3. pc' \notin Reporting /\ pc' \notin Outputs
  BY <1>1 DEF Reporting, Outputs
<1>4. Exists(batch, "liveSummary")'
  BY <1>1, <1>2 DEF OutputsInv, Steps, Grows, Files, Writes
<1>5. AppendLine => Exists(batch, "log")'
  <2>1. file \in [Batches -> [Files -> Statuses]]
    BY DEF BatchInv, TypeOK
  <2>2. Appended(file[batch]["log"]) # "none"
    BY DEF Appended
  <2> QED
    BY <1>1, <2>1, <2>2, FilesFact DEF AppendLine, Exists
<1> QED
  BY <1>1, <1>3, <1>4, <1>5, LaterFacts DEF OutputsInv

LEMMA ArchiveOutputs ==
  ASSUME BatchInv, OutputsInv, BeginArchive \/ EndArchive
  PROVE  OutputsInv'
<1>1. /\ pc = "archive" /\ pc' \in {"archive", "latest"}
      /\ file' = file /\ batch' = batch
  BY DEF BeginArchive, EndArchive
<1>2. pc \in Reporting /\ pc \in Steps \ {"liveSummary"} /\ pc' \notin Outputs
  BY <1>1 DEF Reporting, Steps, Outputs, Writes
<1> QED
  BY <1>1, <1>2, LaterFacts DEF OutputsInv, Exists

LEMMA OutputsKept ==
  ASSUME BatchInv, OutputsInv, ThreadStep
  PROVE  OutputsInv'
<1>1. CASE BeginWrite \/ EndWrite
  BY <1>1, BeginWriteOutputs, EndWriteOutputs
<1>2. CASE Build \/ EndRun \/ BeginArchive \/ EndArchive
  BY <1>2, RunOutputs, ArchiveOutputs
<1>3. CASE Loop \/ Beat \/ BeatFails
  <2>1. UNCHANGED <<pc, open, batch>> /\ pc \notin Away
    BY <1>3 DEF Loop, AppendLine, Beat, BeatRead, BeatOpen, BeatWrite,
                BeatFails, main, BatchInv, TypeOK, Away
  <2>2. Keeps
    BY <1>3, <2>1, StepsKeep DEF BeginWrite, EndWrite, Loop, Beat, BeatRead, BeatOpen, BeatWrite
  <2>3. Grows
    BY <1>3, LoopStep, BeatReadStep, BeatOpenStep, BeatWriteStep, BeatFailsStep
       DEF StepFacts, Beat
  <2> QED
    BY <2>1, <2>2, <2>3, OutputsStay
<1>4. CASE \/ Boot \/ Attempt \/ AttemptUnread \/ MarkRunning
           \/ RepairLatest \/ Stop \/ Join
  BY <1>4, OutputsAway DEF Boot, Attempt, AttemptUnread, MarkRunning,
     RepairLatest, Stop, Join, Left
<1>5. CASE Unreadable \/ Fault \/ NotMarked \/ TearLine \/ Crash \/ CrashInLine
  BY <1>5, OutputsAway DEF Unreadable, Fault, NotMarked, TearLine, Crash,
     CrashInLine, Raise, Die, Left
<1> QED
  BY <1>1, <1>2, <1>3, <1>4, <1>5 DEF ThreadStep, Next, Advance

-----------------------------------------------------------------------------
(* LatestInv                                                               *)

LEMMA AttemptLatest ==
  ASSUME LatestInv, Chooses
  PROVE  LatestInv'
<1>1. file' = file /\ latest' = latest /\ ~Complete(batch')
  BY DEF Chooses
<1>2. latest # 0 => latest # batch'
  BY <1>1 DEF LatestInv
<1> QED
  BY <1>1, <1>2 DEF LatestInv, Complete, Exists

(* A complete batch is not the one a start is marked of: it is left.       *)
LEMMA MarkRunningLatest ==
  ASSUME LatestInv, MarkRunning
  PROVE  LatestInv'
BY DEF MarkRunning, LatestInv, Complete, Exists, Left

(* The batch whose attempt comes to its end is the last complete one.      *)
LEMMA RepairTakesBatch ==
  ASSUME BatchInv, OutputsInv, NamedIsLast, RepairLatest
  PROVE  /\ latest' = batch /\ Complete(batch)
         /\ batch \in Batches /\ runner = batch
<1>1. /\ pc = "latest" /\ batch \in 1..made /\ made \in 0..MaxBatches
  BY BatchIsMade DEF RepairLatest, BatchInv, TypeOK, Away
<1>2. runner = batch
  BY <1>1 DEF BatchInv, AttemptInv, Away
<1>3. Complete(batch)
  BY <1>1, OutputFacts, LaterFacts
     DEF OutputsInv, Complete, Exists, Reporting, Steps, Writes
<1>4. PICK b \in 1..made : LastComplete(b) /\ latest' = b
  BY DEF RepairLatest
<1>5. /\ b \in Batches /\ b \in Nat
      /\ batch \in Batches /\ batch \in Nat
  BY <1>1, <1>4, BoundsAssumption DEF Batches
<1>6. b >= batch
  BY <1>1, <1>3, <1>4 DEF LastComplete
<1>7. ~(b > batch)
  BY <1>2, <1>4, <1>5, FilesFact DEF NamedIsLast, LastComplete, Complete, Required
<1> QED
  BY <1>2, <1>3, <1>4, <1>5, <1>6, <1>7

LEMMA RepairLatestKeeps ==
  ASSUME BatchInv, OutputsInv, NamedIsLast, RepairLatest
  PROVE  LatestInv'
<1>1. file' = file /\ batch' = batch /\ pc = "latest" /\ pc' = "stop"
  BY DEF RepairLatest
<1>2. latest' = batch /\ Complete(batch)
  BY RepairTakesBatch
<1>3. \A f \in Outputs : file[batch][f] = "whole"
  BY <1>1, LaterFacts DEF OutputsInv
<1> QED
  BY <1>1, <1>2, <1>3 DEF LatestInv, Complete, Exists, Left

LEMMA OtherLatest ==
  ASSUME BatchInv, LatestInv, StepFacts, latest' = latest,
         pc \in Left => pc' \in Left /\ Keeps
  PROVE  LatestInv'
<1> SUFFICES ASSUME latest # 0
             PROVE  /\ Complete(latest)'
                    /\ \A f \in Outputs : file'[latest][f] = "whole"
                    /\ latest = batch' => pc' \in Left
  BY DEF LatestInv
<1>1. latest \in Batches /\ batch' = batch /\ Grows
  BY BoundsAssumption DEF BatchInv, TypeOK, Batches, StepFacts, SameBatch
<1>2. Complete(latest)'
  <2>1. \A b \in Batches : Complete(b) => Complete(b)'
    BY <1>1, CompleteStays
  <2>2. \A b \in Batches : b = latest => (Complete(latest)' <=> Complete(b)')
    BY DEF Complete, Exists
  <2> QED
    BY <1>1, <2>1, <2>2 DEF LatestInv
<1>3. CASE latest = batch
  BY <1>1, <1>2, <1>3 DEF LatestInv, Keeps
<1>4. CASE latest # batch
  BY <1>1, <1>2, <1>4 DEF LatestInv, Grows
<1> QED
  BY <1>3, <1>4

LEMMA LatestKept ==
  ASSUME BatchInv, OutputsInv, NamedIsLast, LatestInv, ThreadStep
  PROVE  LatestInv'
<1>1. CASE Attempt \/ AttemptUnread \/ MarkRunning \/ RepairLatest
  BY <1>1, AttemptKeeps, AttemptLatest, MarkRunningLatest, RepairLatestKeeps
<1>2. CASE ~Attempt /\ ~AttemptUnread /\ ~MarkRunning /\ ~RepairLatest
  <2>1. StepFacts
    BY <1>2, OtherSteps
  <2>2. latest' = latest
    BY <1>2 DEF ThreadStep, Next, Advance, Beat, Boot, BeginWrite, EndWrite,
       Build, EndRun, BeginArchive, EndArchive, Stop, Join, Unreadable, Loop,
       BeatRead, BeatOpen, BeatWrite, BeatFails, Fault, NotMarked, TearLine,
       Crash, CrashInLine, Raise, Die
  <2>3. pc \in Left => pc' \in Left
    BY <1>2 DEF ThreadStep, Next, Advance, Beat, Boot, BeginWrite, EndWrite,
       Build, EndRun, BeginArchive, EndArchive, Stop, Join, Unreadable, Loop,
       BeatRead, BeatOpen, BeatWrite, BeatFails, Fault, NotMarked, TearLine,
       Crash, CrashInLine, Raise, Die, AppendLine, main, Left, Writes
  <2>4. pc \in Left => Keeps
    BY StepsKeep DEF BeginWrite, EndWrite, Left, Writes
  <2> QED
    BY <2>1, <2>2, <2>3, <2>4, OtherLatest
<1> QED
  BY <1>1, <1>2

-----------------------------------------------------------------------------
(* ArchiveInv                                                              *)

(* What was used is not given back.                                        *)
LEMMA StaysFaultless ==
  ASSUME BatchInv, ThreadStep, Faultless'
  PROVE  /\ Faultless
         /\ ~Fault /\ ~NotMarked /\ ~BeatFails /\ ~Crash /\ ~CrashInLine
<1>1. used \in UsedBounds /\ used.crashes \in Nat /\ used.faults \in Nat
  BY BoundsAssumption DEF BatchInv, TypeOK, UsedBounds
<1>2. Use("faults") => ~Faultless'
  BY <1>1 DEF Use, Faultless, UsedBounds
<1>3. Use("crashes") => ~Faultless'
  BY <1>1 DEF Use, Faultless, UsedBounds
<1>4. ~CrashInLine
  <2>1. ASSUME CrashInLine PROVE used'.crashes = used.crashes + 1
    BY <1>1, <2>1 DEF CrashInLine, UsedBounds
  <2> QED
    BY <1>1, <2>1 DEF Faultless
<1>5. Use("tears") \/ Use("unread") \/ Use("beats") \/ used' = used
        => Faultless
  BY <1>1 DEF Use, Faultless, UsedBounds
<1>6. ~Fault /\ ~NotMarked /\ ~BeatFails /\ ~Crash
  BY <1>2, <1>3 DEF Fault, NotMarked, BeatFails, Crash
<1>7. Use("tears") \/ Use("unread") \/ Use("beats") \/ used' = used
  BY <1>4, <1>6 DEF ThreadStep, Next, Advance, Beat, Boot, Attempt,
     AttemptUnread, MarkRunning, BeginWrite, EndWrite, Build, EndRun,
     BeginArchive, EndArchive, RepairLatest, Stop, Join, Unreadable, Loop,
     BeatRead, BeatOpen, BeatWrite, TearLine
<1> QED
  BY <1>4, <1>5, <1>6, <1>7

(* No step outside the writes of the comparison, the report and the        *)
(* history changes what is archived.                                       *)
LEMMA ArchiveStays ==
  ASSUME ArchiveInv, Faultless, Keeps, history' = history,
         ~Unarchived \/ UNCHANGED <<pc, open, batch>>,
         ~(pc = "archive" /\ open) \/ UNCHANGED <<pc, open>>
  PROVE  ArchiveInv'
<1>1. \A b \in Batches : Exists(b, "comparison")' <=> Exists(b, "comparison")
  BY DEF Keeps, Exists, Outputs
<1> QED
  BY <1>1 DEF ArchiveInv, Unarchived

LEMMA BeginWriteArchive ==
  ASSUME BatchInv, ArchiveInv, Faultless, BeginWrite
  PROVE  ArchiveInv'
<1>1. /\ pc \in Writes /\ ~open /\ pc' = pc /\ open' /\ batch' = batch
      /\ history' = history
      /\ file' = [file EXCEPT ![batch][pc] = "torn"]
      /\ batch \in Batches /\ file \in [Batches -> [Files -> Statuses]]
  BY WorkedBatch DEF BeginWrite, Writes, Away, BatchInv, TypeOK
<1>2. \A b \in Batches : Exists(b, "comparison")'
        => Exists(b, "comparison") \/ (b = batch /\ pc = "comparison")
  BY <1>1, OutputFacts DEF Exists, Outputs
<1>3. ~history.torn
  BY <1>1 DEF ArchiveInv, Writes
<1>4. Unarchived => Unarchived'
  BY <1>1 DEF Unarchived, Writes
<1>5. pc = "comparison" => Unarchived'
  BY <1>1 DEF Unarchived
<1> QED
  BY <1>1, <1>2, <1>3, <1>4, <1>5 DEF ArchiveInv

LEMMA EndWriteArchive ==
  ASSUME BatchInv, ArchiveInv, Faultless, EndWrite
  PROVE  ArchiveInv'
<1>1. PICK status \in Closed(file[batch][pc], "whole") :
        file' = [file EXCEPT ![batch][pc] = status]
  BY DEF EndWrite
<1>2. /\ pc \in Writes /\ open /\ pc' = After[pc] /\ ~open' /\ batch' = batch
      /\ history' = history
      /\ batch \in Batches /\ file \in [Batches -> [Files -> Statuses]]
  BY WorkedBatch DEF EndWrite, Writes, Away, BatchInv, TypeOK
<1>3. \A b \in Batches : Exists(b, "comparison")'
        => Exists(b, "comparison") \/ (b = batch /\ pc = "comparison")
  BY <1>1, <1>2, OutputFacts DEF Exists, Outputs
<1>4. ~history.torn
  BY <1>2 DEF ArchiveInv, Writes
<1>5. Unarchived => Unarchived'
  BY <1>2 DEF Unarchived, Writes, After
<1>6. pc = "comparison" => Unarchived'
  BY <1>2 DEF Unarchived, Writes, After
<1> QED
  BY <1>2, <1>3, <1>4, <1>5, <1>6 DEF ArchiveInv

LEMMA BeginArchiveArchive ==
  ASSUME BatchInv, ArchiveInv, Faultless, BeginArchive
  PROVE  ArchiveInv'
<1>1. /\ pc = "archive" /\ ~open /\ pc' = pc /\ open' /\ file' = file
      /\ history' = Archived
  BY DEF BeginArchive
<1>2. ~history.torn
  BY <1>1 DEF ArchiveInv
<1>3. history'.entries = history.entries \cup {batch}
  BY <1>1, <1>2 DEF Archived
<1> QED
  BY <1>1, <1>3 DEF ArchiveInv, Exists

LEMMA EndArchiveArchive ==
  ASSUME BatchInv, ArchiveInv, Faultless, EndArchive
  PROVE  ArchiveInv'
<1>1. /\ pc = "archive" /\ open /\ file' = file
      /\ history' = [history EXCEPT !.torn = FALSE]
      /\ history \in [entries : SUBSET (1..made), torn : BOOLEAN]
  BY DEF EndArchive, BatchInv, TypeOK
<1>2. ~history'.torn /\ history'.entries = history.entries
  BY <1>1
<1>3. ~Unarchived
  BY <1>1 DEF Unarchived
<1> QED
  BY <1>1, <1>2, <1>3 DEF ArchiveInv, Exists

LEMMA ArchiveKept ==
  ASSUME BatchInv, ArchiveInv, ThreadStep
  PROVE  ArchiveInv'
<1> SUFFICES ASSUME Faultless' PROVE ArchiveInv'
  BY DEF ArchiveInv
<1>1. /\ Faultless
      /\ ~Fault /\ ~NotMarked /\ ~BeatFails /\ ~Crash /\ ~CrashInLine
  BY StaysFaultless
<1>2. CASE BeginWrite \/ EndWrite \/ BeginArchive \/ EndArchive
  BY <1>1, <1>2, BeginWriteArchive, EndWriteArchive, BeginArchiveArchive,
     EndArchiveArchive
<1>3. CASE ~BeginWrite /\ ~EndWrite /\ ~BeginArchive /\ ~EndArchive
  <2>1. Keeps
    BY <1>3, StepsKeep
  <2>2. history' = history
    BY <1>1, <1>3 DEF ThreadStep, Next, Advance, Beat, Boot, Attempt,
       AttemptUnread, MarkRunning, Build, EndRun, RepairLatest, Stop, Join,
       Unreadable, Loop, BeatRead, BeatOpen, BeatWrite, TearLine, Raise
  <2>3. CASE Loop \/ Beat
    BY <1>1, <2>1, <2>2, <2>3, ArchiveStays
       DEF Loop, Beat, BeatRead, BeatOpen, BeatWrite, main
  <2>4. CASE Unreadable
    <3>1. ~open /\ pc \notin {"report", "archive"}
      BY <2>4 DEF Unreadable, Readable, Writes
    <3> QED
      BY <1>1, <2>1, <2>2, <3>1, ArchiveStays DEF Unarchived
  <2>5. CASE pc \notin {"comparison", "report", "archive"}
    BY <1>1, <2>1, <2>2, <2>5, ArchiveStays DEF Unarchived
  <2>6. \/ Loop \/ Beat \/ Unreadable
        \/ pc \notin {"comparison", "report", "archive"}
    BY <1>1, <1>3 DEF ThreadStep, Next, Advance, Boot, Attempt, AttemptUnread,
       MarkRunning, Build, EndRun, AppendLine, RepairLatest, Stop, Join,
       TearLine
  <2> QED
    BY <2>3, <2>4, <2>5, <2>6
<1> QED
  BY <1>2, <1>3

-----------------------------------------------------------------------------
LEMMA ReportInit == Init => ReportInv
<1> SUFFICES ASSUME Init PROVE ReportInv
  OBVIOUS
<1>1. pc = "down" /\ latest = 0 /\ ~history.torn
      /\ \A b \in Batches : \A f \in Files : ~Exists(b, f)
  BY DEF Init, Exists
<1>2. OutputsInv
  BY <1>1, LaterFacts
     DEF OutputsInv, Reporting, Outputs, Steps, Writes
<1>3. NamedIsLast /\ LatestInv
  BY <1>1 DEF NamedIsLast, LatestInv
<1>4. ArchiveInv
  BY <1>1, OutputFacts DEF ArchiveInv, Outputs
<1> QED
  BY <1>2, <1>3, <1>4 DEF ReportInv

LEMMA ReportNext == BatchInv /\ ReportInv /\ [Next]_vars => ReportInv'
<1> SUFFICES ASSUME BatchInv, ReportInv, [Next]_vars PROVE ReportInv'
  OBVIOUS
<1>1. CASE NoThreadStep
  BY <1>1 DEF NoThreadStep, main, ReportInv, OutputsInv, NamedIsLast,
              LatestInv, ArchiveInv, Unarchived, Faultless, Complete, Exists
<1>2. CASE ThreadStep
  BY <1>2, OutputsKept, NamedKept, LatestKept, ArchiveKept DEF ReportInv
<1> QED
  BY <1>1, <1>2, StepKinds DEF BatchInv

LEMMA ReportInvariant == Spec => [](BatchInv /\ ReportInv)
  BY BatchInit, BatchNext, ReportInit, ReportNext, PTL DEF Spec

(* latest.json names a batch whose reports can be read: the attempt that   *)
(* wrote it had written them whole, and a complete batch is taken up by no *)
(* later attempt, whichever deaths and failures there were before or since.*)
THEOREM LatestReadable == Spec => []LatestIsReadable
<1>1. ReportInv => LatestIsReadable
  BY DEF ReportInv, LatestInv, LatestIsReadable, Outputs
<1> QED
  BY <1>1, ReportInvariant, PTL

(* While nothing fails or dies, the history of the observation loses no    *)
(* batch: it is never read while it is torn, and every complete batch was  *)
(* added before its attempt ended.                                         *)
THEOREM FinishedArchived == Spec => []FinishedAreArchived
<1>1. ReportInv => FinishedAreArchived
  BY DEF ReportInv, ArchiveInv, Unarchived, Faultless, FinishedAreArchived,
         Sealed, Complete, Required
<1> QED
  BY <1>1, ReportInvariant, PTL

-----------------------------------------------------------------------------
(* The batches are worked on one after the other                           *)

(* The database is there when the first line of the log is written: a      *)
(* batch does not begin with a line that a death has torn.                 *)
RunsOnDatabase == pc = "run" => Exists(batch, "db")

LEMMA RunKeeps ==
  ASSUME BatchInv, RunsOnDatabase, [Next]_vars
  PROVE  RunsOnDatabase'
<1> SUFFICES ASSUME pc' = "run" PROVE Exists(batch, "db")'
  BY DEF RunsOnDatabase
<1>1. CASE NoThreadStep
  BY <1>1 DEF NoThreadStep, main, RunsOnDatabase, Exists
<1>2. CASE Build
  <2>1. batch \in Batches /\ "db" \in Files
    BY <1>2, BatchIsMade, FilesFact, BoundsAssumption
       DEF Build, Away, BatchInv, TypeOK, Batches
  <2> QED
    BY <1>2, <2>1 DEF Build, BatchInv, TypeOK, Exists
<1>3. CASE ThreadStep /\ ~Build
  <2>1. \A f \in Writes : After[f] # "run"
    BY DEF After, Writes
  <2>2. pc = "run" /\ ~Attempt /\ ~AttemptUnread /\ ~MarkRunning
    BY <1>3, <2>1 DEF ThreadStep, Next, Advance, Beat, Boot, Attempt,
       AttemptUnread, MarkRunning, BeginWrite, EndWrite, EndRun, BeginArchive,
       EndArchive, RepairLatest, Stop, Join, Unreadable, Loop, BeatRead,
       BeatOpen, BeatWrite, BeatFails, Fault, NotMarked, TearLine, Crash,
       CrashInLine, Raise, Die, main
  <2>3. StepFacts
    BY <1>3, <2>2, OtherSteps
  <2>4. batch \in Batches /\ "db" \in Files
    BY <2>2, BatchIsMade, FilesFact, BoundsAssumption
       DEF Away, BatchInv, TypeOK, Batches
  <2> QED
    BY <2>2, <2>3, <2>4
       DEF RunsOnDatabase, StepFacts, SameBatch, Grows, Exists
<1> QED
  BY <1>1, <1>2, <1>3, StepKinds DEF BatchInv

(* A step that leaves the batch of the attempt changes no file, but for a  *)
(* death within a line.                                                    *)
LEMMA LeavingChangesNothing ==
  ASSUME ThreadStep, pc \notin Away, pc' \in Away, pc # "run"
  PROVE  UNCHANGED file
<1>1. \A f \in Writes : After[f] \notin Away
  BY AfterFact
<1> QED
  BY <1>1 DEF ThreadStep, Next, Advance, Beat, Boot, Attempt, AttemptUnread,
     MarkRunning, BeginWrite, EndWrite, Build, EndRun, BeginArchive,
     EndArchive, RepairLatest, Stop, Join, Unreadable, Loop, BeatRead,
     BeatOpen, BeatWrite, BeatFails, Fault, NotMarked, TearLine, Crash,
     CrashInLine, Raise, Die, main, Away

LEMMA CompleteIsStarted ==
  ASSUME NEW b, Complete(b)
  PROVE  Started(b)
BY DEF Complete, Required, Started

(* While the daemon is at work every other batch it has begun is sealed or *)
(* lost.                                                                   *)
OverWith(b) == Sealed(b) \/ Forgotten(b)

LEMMA OthersAreOver ==
  ASSUME BatchInv, pc \notin Away \cup {"made"}
  PROVE  /\ ~OverWith(batch)
         /\ \A b \in Batches \ {batch} : Started(b) <=> OverWith(b)
BY CompleteIsStarted
   DEF BatchInv, AttemptInv, OverWith, Sealed, Forgotten, Away

(* What the abstract state is made of stays as it is.                      *)
LEMMA NothingSerial ==
  ASSUME latest' = latest,
         \A b \in Batches : /\ Started(b)' <=> Started(b)
                            /\ Sealed(b)' <=> Sealed(b)
                            /\ Forgotten(b)' <=> Forgotten(b)
  PROVE  UNCHANGED Serial!serialVars
<1>1. {b \in Batches : Started(b)}' = {b \in Batches : Started(b)}
  OBVIOUS
<1>2. {b \in Batches : Sealed(b)}' = {b \in Batches : Sealed(b)}
  OBVIOUS
<1>3. {b \in Batches : Forgotten(b)}' = {b \in Batches : Forgotten(b)}
  OBVIOUS
<1> QED
  BY <1>1, <1>2, <1>3 DEF Serial!serialVars

LEMMA SameCount ==
  ASSUME NEW S
  PROVE  Serial!Cardinality(S) = Cardinality(S)
BY DEF Serial!Cardinality, Cardinality

LEMMA AttemptSerial ==
  ASSUME Chooses
  PROVE  UNCHANGED Serial!serialVars
<1>1. /\ file' = file /\ latest' = latest /\ runner' = runner
      /\ pc = "idle" /\ pc' = "made" /\ ~Complete(batch')
  BY DEF Chooses
<1>2. \A b \in Batches : /\ Started(b)' <=> Started(b)
                         /\ Complete(b)' <=> Complete(b)
  BY <1>1 DEF Started, Complete, Exists
<1>3. \A b \in Batches : /\ Sealed(b)' <=> Sealed(b)
                         /\ Forgotten(b)' <=> Forgotten(b)
  BY <1>1, <1>2 DEF Sealed, Forgotten
<1> QED
  BY <1>1, <1>2, <1>3, NothingSerial

(* When another batch than the one that was begun is named, that is lost.  *)
LEMMA MarkRunningSerial ==
  ASSUME BatchInv, BatchInv', MarkRunning
  PROVE  Serial!Next \/ UNCHANGED Serial!serialVars
<1>1. /\ file' = file /\ latest' = latest /\ batch' = batch /\ used' = used
      /\ pc = "made" /\ pc' = "liveSummary" /\ runner' = batch
      /\ ~Complete(batch) /\ (batch = runner \/ ~Started(batch))
  BY DEF MarkRunning, BatchInv, AttemptInv
<1>2. \A b \in Batches : /\ Started(b)' <=> Started(b)
                         /\ Complete(b)' <=> Complete(b)
  BY <1>1 DEF Started, Complete, Exists
<1>3. \A b \in Batches : Sealed(b)' <=> Sealed(b)
  BY <1>1, <1>2 DEF Sealed
<1> DEFINE abandoned == /\ runner # batch /\ runner \in Batches
                        /\ Started(runner) /\ ~Complete(runner)
<1>4. CASE ~abandoned
  <2>1. \A b \in Batches : Forgotten(b)' <=> Forgotten(b)
    BY <1>1, <1>2, <1>4 DEF Forgotten
  <2> QED
    BY <1>1, <1>2, <1>3, <2>1, NothingSerial
<1>5. CASE abandoned
  <2> DEFINE Begun  == {b \in Batches : Started(b)}
             Closed1 == {b \in Batches : Sealed(b)}
             Gone   == {b \in Batches : Forgotten(b)}
  <2>1. \A b \in Batches : Started(b) <=> b = runner \/ OverWith(b)
    BY <1>1, <1>5, CompleteIsStarted DEF OverWith, Sealed, Forgotten
  <2>2. ~Sealed(runner) /\ ~Forgotten(runner)
    BY <1>5 DEF Sealed, Forgotten
  <2>3. Serial!InWork(runner)
    BY <1>5, <2>1, <2>2 DEF Serial!InWork, Serial!Finished, OverWith
  <2>4. \A b \in Batches : Forgotten(b)' <=> Forgotten(b) \/ b = runner
    BY <1>1, <1>2, <1>5 DEF Forgotten
  <2>5. Gone' = Gone \cup {runner} /\ runner \notin Gone
    BY <1>5, <2>2, <2>4
  <2>6. Cardinality(Gone) < MaxUnread
    <3>1. IsFiniteSet(Gone) /\ Cardinality(Gone) \in Nat
      BY ForgottenAreDropped, FS_CardinalityType
    <3>2. Cardinality(Gone \cup {runner}) = Cardinality(Gone) + 1
      BY <2>5, <3>1, FS_AddElement
    <3>3. Cardinality(Gone') <= used'.unread
      <4>1. ForgottenOnlyUnread'
        BY ForgottenAreDropped, PTL
      <4> QED
        BY <4>1 DEF ForgottenOnlyUnread
    <3>4. used'.unread \in Int /\ used'.unread <= MaxUnread
      BY <1>1, BoundsAssumption DEF BatchInv, TypeOK, UsedBounds
    <3>5. Cardinality(Gone) + 1 <= used'.unread
      BY <2>5, <3>2, <3>3
    <3> HIDE DEF Gone
    <3> QED
      BY <3>1, <3>4, <3>5, BoundsAssumption
  <2>7. Begun' = Begun /\ Closed1' = Closed1
    BY <1>2, <1>3
  <2>8. Serial!Lose(runner)
    <3>1. Serial!Cardinality(Gone) < MaxUnread
      BY <2>6, SameCount
    <3> QED
      BY <1>1, <2>3, <2>5, <2>7, <3>1 DEF Serial!Lose
  <2> QED
    BY <1>5, <2>8 DEF Serial!Next
<1> QED
  BY <1>4, <1>5

(* latest.json is moved to the batch in work.                              *)
LEMMA RepairLatestSerial ==
  ASSUME BatchInv, OutputsInv, NamedIsLast, RepairLatest
  PROVE  Serial!Next
<1>1. latest' = batch /\ Complete(batch) /\ batch \in Batches
  BY RepairTakesBatch
<1>2. /\ file' = file /\ batch' = batch /\ runner' = runner
      /\ pc = "latest" /\ pc' = "stop"
  BY DEF RepairLatest
<1>3. \A b \in Batches : /\ Started(b)' <=> Started(b)
                         /\ Complete(b)' <=> Complete(b)
  BY <1>2 DEF Started, Complete, Exists
<1>4. \A b \in Batches : /\ Sealed(b)' <=> Sealed(b)
                         /\ Forgotten(b)' <=> Forgotten(b)
  BY <1>2, <1>3 DEF Sealed, Forgotten
<1>5. /\ ~OverWith(batch) /\ Started(batch)
      /\ \A b \in Batches \ {batch} : Started(b) <=> OverWith(b)
  BY <1>1, <1>2, OthersAreOver, CompleteIsStarted DEF Away
<1>6. Serial!InWork(batch)
  BY <1>1, <1>5 DEF Serial!InWork, Serial!Finished, OverWith
<1>7. Serial!Publish(batch)
  <2>1. {b \in Batches : Started(b)}' = {b \in Batches : Started(b)}
    BY <1>3
  <2>2. {b \in Batches : Sealed(b)}' = {b \in Batches : Sealed(b)}
    BY <1>4
  <2>3. {b \in Batches : Forgotten(b)}' = {b \in Batches : Forgotten(b)}
    BY <1>4
  <2> QED
    BY <1>1, <1>6, <2>1, <2>2, <2>3 DEF Serial!Publish
<1> QED
  BY <1>1, <1>7 DEF Serial!Next

(* Any other step begins or seals the batch of the attempt, or neither.    *)
LEMMA StepSerial ==
  ASSUME BatchInv, NamedIsLast, RunsOnDatabase, ThreadStep, StepFacts,
         latest' = latest
  PROVE  Serial!Next \/ UNCHANGED Serial!serialVars
<1>1. Grows /\ SameBatch /\ batch' = batch /\ runner' = runner
  BY DEF StepFacts, SameBatch
<1>2. \A b \in Batches : b # batch => /\ Started(b)' <=> Started(b)
                                      /\ Complete(b)' <=> Complete(b)
  BY <1>1, CompleteStays
<1>3. \A b \in Batches : b # batch => /\ Sealed(b)' <=> Sealed(b)
                                      /\ Forgotten(b)' <=> Forgotten(b)
  BY <1>1, <1>2 DEF Sealed, Forgotten
<1>4. CASE pc \in Away \cup {"made"}
  <2>1. UNCHANGED file /\ pc' \in Away
    BY <1>1, <1>4 DEF StepFacts, SameBatch
  <2>2. \A b \in Batches : /\ Started(b)' <=> Started(b)
                           /\ Complete(b)' <=> Complete(b)
    BY <2>1 DEF Started, Complete, Exists
  <2>3. pc \in Away \/ ~Complete(batch)
    BY <1>4 DEF BatchInv, AttemptInv
  <2>4. \A b \in Batches : /\ Sealed(b)' <=> Sealed(b)
                           /\ Forgotten(b)' <=> Forgotten(b)
    BY <1>1, <2>1, <2>2, <2>3 DEF Sealed, Forgotten, Away
  <2> QED
    BY <2>2, <2>4, NothingSerial
<1>5. CASE pc \notin Away \cup {"made"}
  <2>1. batch \in Batches /\ batch \in Nat
    BY <1>5, BatchIsMade, BoundsAssumption DEF BatchInv, TypeOK, Batches
  <2>2. /\ ~OverWith(batch) /\ runner = batch
        /\ \A b \in Batches : b # batch => (Started(b) <=> OverWith(b))
    BY <1>5, OthersAreOver DEF BatchInv, AttemptInv
  <2>3. ~Forgotten(batch) /\ ~Forgotten(batch)'
    BY <1>1, <2>2 DEF Forgotten
  <2>4. {b \in Batches : Forgotten(b)}' = {b \in Batches : Forgotten(b)}
    <3>1. \A b \in Batches : Forgotten(b)' <=> Forgotten(b)
      BY <1>1, <1>3, <2>3
    <3> QED
      BY <3>1
  <2>5. Started(batch) => Started(batch)'
    BY <1>1, <2>1, FilesFact DEF Grows, Started, Exists
  <2>6. CASE ~Started(batch) /\ Started(batch)'
    <3>1. pc' \notin Away
      <4>1. pc # "run"
        BY <2>6 DEF RunsOnDatabase, Started
      <4>2. UNCHANGED file => (Started(batch)' <=> Started(batch))
        BY <1>1 DEF Started, Exists
      <4> QED
        BY <1>5, <2>6, <4>1, <4>2, LeavingChangesNothing
    <3>2. ~Sealed(batch)'
      BY <1>1, <3>1 DEF Sealed, Away
    <3>3. \A b \in Batches : Started(b) => b < batch
      <4>1. \A b \in Batches : b > batch => ~Started(b)
        BY <2>2, FilesFact DEF NamedIsLast, Started
      <4> QED
        BY <2>1, <2>6, <4>1, BoundsAssumption DEF Batches
    <3>4. {b \in Batches : Started(b)}
            = {b \in Batches : Sealed(b)} \cup {b \in Batches : Forgotten(b)}
      BY <2>1, <2>2, <2>6 DEF OverWith
    <3>5. {b \in Batches : Started(b)}'
            = {b \in Batches : Started(b)} \cup {batch}
      BY <1>1, <1>2, <2>1, <2>6
    <3>6. {b \in Batches : Sealed(b)}' = {b \in Batches : Sealed(b)}
      BY <1>1, <1>3, <2>1, <2>2, <3>2 DEF OverWith
    <3>7. Serial!Begin(batch)
      BY <2>4, <3>3, <3>4, <3>5, <3>6 DEF Serial!Begin, Serial!Finished
    <3> QED
      BY <2>1, <3>7 DEF Serial!Next
  <2>7. CASE Started(batch) /\ Sealed(batch)'
    <3>1. Serial!InWork(batch)
      BY <2>1, <2>2, <2>7 DEF Serial!InWork, Serial!Finished, OverWith
    <3>2. {b \in Batches : Started(b)}' = {b \in Batches : Started(b)}
      BY <1>1, <1>2, <2>1, <2>5, <2>7
    <3>3. {b \in Batches : Sealed(b)}'
            = {b \in Batches : Sealed(b)} \cup {batch}
      BY <1>1, <1>3, <2>1, <2>7
    <3>4. Serial!Seal(batch)
      BY <2>4, <3>1, <3>2, <3>3 DEF Serial!Seal
    <3> QED
      BY <2>1, <3>4 DEF Serial!Next
  <2>8. CASE /\ Started(batch)' <=> Started(batch)
             /\ ~Sealed(batch)'
    <3>1. \A b \in Batches : /\ Started(b)' <=> Started(b)
                             /\ Sealed(b)' <=> Sealed(b)
                             /\ Forgotten(b)' <=> Forgotten(b)
      BY <1>1, <1>2, <1>3, <2>2, <2>3, <2>8 DEF OverWith
    <3> QED
      BY <3>1, NothingSerial
  <2>9. Sealed(batch)' => Started(batch)'
    BY <1>1, CompleteIsStarted DEF Sealed, Complete, Started, Required
  <2> QED
    BY <2>5, <2>6, <2>7, <2>8, <2>9
<1> QED
  BY <1>4, <1>5

LEMMA SerialNext ==
  ASSUME BatchInv, ReportInv, RunsOnDatabase, [Next]_vars
  PROVE  [Serial!Next]_(Serial!serialVars)
<1>1. CASE NoThreadStep
  <2>1. \A b \in Batches : /\ Started(b)' <=> Started(b)
                           /\ Sealed(b)' <=> Sealed(b)
                           /\ Forgotten(b)' <=> Forgotten(b)
    BY <1>1 DEF NoThreadStep, main, Started, Sealed, Forgotten, Complete,
                Exists
  <2> QED
    BY <1>1, <2>1, NothingSerial DEF NoThreadStep
<1>2. CASE Attempt \/ AttemptUnread \/ MarkRunning
  BY <1>2, AttemptKeeps, AttemptSerial, MarkRunningSerial, BatchNext
<1>3. CASE RepairLatest
  BY <1>3, RepairLatestSerial DEF ReportInv
<1>4. CASE /\ ThreadStep /\ ~Attempt /\ ~AttemptUnread
           /\ ~MarkRunning /\ ~RepairLatest
  <2>1. StepFacts
    BY <1>4, OtherSteps
  <2>2. latest' = latest
    BY <1>4 DEF ThreadStep, Next, Advance, Beat, Boot, BeginWrite, EndWrite,
       Build, EndRun, BeginArchive, EndArchive, Stop, Join, Unreadable, Loop,
       BeatRead, BeatOpen, BeatWrite, BeatFails, Fault, NotMarked, TearLine,
       Crash, CrashInLine, Raise, Die
  <2> QED
    BY <1>4, <2>1, <2>2, StepSerial DEF ReportInv
<1> QED
  BY <1>1, <1>2, <1>3, <1>4, StepKinds DEF BatchInv

LEMMA SerialInit == Init => Serial!Init /\ RunsOnDatabase
<1> SUFFICES ASSUME Init PROVE Serial!Init /\ RunsOnDatabase
  OBVIOUS
<1>1. \A b \in Batches : ~Started(b) /\ ~Sealed(b) /\ ~Forgotten(b)
  BY FilesFact
     DEF Init, Started, Sealed, Forgotten, Complete, Exists, Required
<1> QED
  BY <1>1 DEF Init, Serial!Init, RunsOnDatabase

(* The supervised simulation implements the serial batches: whatever fails *)
(* or dies, none is begun before an older one, none beside one that is not *)
(* complete but for those that were lost, at most one for each failed read *)
(* of runner-state.json, and latest.json only moves to the batch in work.  *)
THEOREM BatchesAreSerial == Spec => ImplementsSerialBatches
<1>1. Init => Serial!Init /\ RunsOnDatabase
  BY SerialInit
<1>2. BatchInv /\ RunsOnDatabase /\ [Next]_vars => RunsOnDatabase'
  BY RunKeeps
<1>3. BatchInv /\ ReportInv /\ RunsOnDatabase /\ [Next]_vars
        => [Serial!Next]_(Serial!serialVars)
  BY SerialNext
<1> QED
  BY <1>1, <1>2, <1>3, ReportInvariant, PTL
     DEF Spec, ImplementsSerialBatches, Serial!Spec
=============================================================================
