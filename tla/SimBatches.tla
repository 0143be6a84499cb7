----------------------------- MODULE SimBatches -----------------------------
(***************************************************************************)
(* The supervised simulation: scripts/run_server_sim_daemon.py runs one    *)
(* batch of scripts/run_server_sim_batch.py after another in its process,  *)
(* resuming the batch that runner-state.json names when it was left        *)
(* incomplete, while a heartbeat thread of the batch refreshes its summary.*)
(* The daemon may die anywhere and is started again by systemd.            *)
(*                                                                         *)
(* Batches are numbered as their directories are named: by the time of     *)
(* their creation.  Of a file only its status is kept: a file is torn from *)
(* the moment it is opened for writing until its text is written, whole    *)
(* afterwards, and a summary becomes stale when its log grows.  Only       *)
(* runner-state.json and latest.json are replaced in one step; they are    *)
(* not synced, so a read of the former may fail all the same.  The         *)
(* heartbeat's own writes of runner-state.json change nothing that is      *)
(* read.  The log of the live trader, which each attempt summarizes first, *)
(* is written by another process.  supervisor-state.json is not read by    *)
(* anything, and the backoff only takes time.                              *)
(***************************************************************************)
EXTENDS Naturals, FiniteSets

CONSTANTS
  MaxBatches,  \* bound: batch directories
  MaxCrashes,  \* bound: deaths of the daemon
  MaxFaults,   \* bound: failed requests, reads and writes
  MaxTears,    \* bound: lines of a log that are written in part
  MaxUnread,   \* bound: reads of runner-state.json that fail
  MaxBeats     \* bound: summaries begun by the heartbeat

ASSUME BoundsAssumption ==
  /\ MaxBatches \in Nat /\ MaxCrashes \in Nat /\ MaxFaults \in Nat
  /\ MaxTears \in Nat /\ MaxUnread \in Nat /\ MaxBeats \in Nat

VARIABLES
  pc,        \* what the daemon does next
  open,      \* the file of this step is open and not written yet
  batch,     \* batch of this attempt
  made,      \* batch directories 1..made exist
  file,      \* status of each file of each batch
  runner,    \* batch runner-state.json names, 0 without the file
  latest,    \* batch latest.json names, 0 without the file
  liveLog,   \* status of the log of the live trader, another process
  history,   \* observation/history.json
  beat,      \* what the heartbeat thread does
  held,      \* status of the summary the heartbeat is going to write
  used       \* how much of each bound was used

main == <<pc, open, batch, made>>
vars == <<main, file, runner, latest, liveLog, history, beat, held, used>>

Batches == 1..MaxBatches

(* The files a step writes, in the order of the steps.                     *)
Writes == {"liveSummary", "summary", "snapshot", "outcome", "comparison",
           "report"}

Files == Writes \cup {"db", "log"}

(* _REQUIRED_BATCH_RELATIVE_PATHS                                          *)
Required == {"liveSummary", "log", "summary", "snapshot", "outcome",
             "comparison"}

(* The step after a written file.                                          *)
After == [f \in Writes |->
            CASE f = "liveSummary" -> "build"
              [] f = "summary"     -> "snapshot"
              [] f = "snapshot"    -> "outcome"
              [] f = "outcome"     -> "comparison"
              [] f = "comparison"  -> "report"
              [] f = "report"      -> "archive"]

Steps == Writes \cup {"build", "run", "archive", "latest"}

-----------------------------------------------------------------------------
Exists(b, f) == file[b][f] # "none"

(* _is_complete_batch_dir                                                  *)
Complete(b) == \A f \in Required : Exists(b, f)

Started(b) == Exists(b, "log") \/ Exists(b, "db")

(* Mutant: both the log and the database are asked for.                    *)
ResumableWithBoth ==
  {b \in 1..made : /\ b = runner
                   /\ ~Complete(b)
                   /\ Exists(b, "log") /\ Exists(b, "db")}

(* Mutant: a complete batch is taken up again.                             *)
ResumableAnyway == {b \in 1..made : b = runner /\ Started(b)}

(* _discover_resumable_batch_dir: at most the batch that was named last    *)
Resumable == {b \in 1..made : b = runner /\ ~Complete(b) /\ Started(b)}

(* A line is written to the end of a log; it joins a line that was torn.   *)
Appended(log) == IF log \in {"none", "lines"} THEN "lines" ELSE "broken"

Outdated(summary) == IF summary = "whole" THEN "stale" ELSE summary

(* What the text of one writer leaves of a file that was torn when it was  *)
(* opened.  Text written over another's text may leave a tail of it.       *)
Closed(now, text) == IF now = "torn" THEN {text} ELSE {text, "torn"}

Use(what) == used' = [used EXCEPT ![what] = @ + 1]

-----------------------------------------------------------------------------
(* The daemon: cli of run_server_sim_daemon.py                             *)

Boot == /\ pc = "down"
        /\ pc' = "idle"
        /\ UNCHANGED <<open, batch, made, file, runner, latest, liveLog,
                       history, beat, held, used>>

(* _resolve_batch_dir makes the directory of a new batch.                  *)
NewBatch == made < MaxBatches /\ made' = made + 1 /\ batch' = made + 1

Attempt == /\ pc = "idle"
           /\ \/ batch' \in Resumable /\ UNCHANGED made
              \/ Resumable = {} /\ NewBatch
           /\ pc' = "made"
           /\ UNCHANGED <<open, file, runner, latest, liveLog, history, beat,
                          held, used>>

(* runner-state.json cannot be read or parsed: whatever it names, a new    *)
(* batch is begun.                                                         *)
AttemptUnread == /\ pc = "idle" /\ runner # 0
                 /\ used.unread < MaxUnread /\ Use("unread")
                 /\ NewBatch
                 /\ pc' = "made"
                 /\ UNCHANGED <<open, file, runner, latest, liveLog, history,
                                beat, held>>

(* runner-state.json is written and the heartbeat started.                 *)
MarkRunning == /\ pc = "made"
               /\ runner' = batch
               /\ beat' = "waiting"
               /\ pc' = "liveSummary"
               /\ UNCHANGED <<open, batch, made, file, latest, liveLog,
                              history, held, used>>

(* What a step reads before it opens its file: build_runtime_summary needs *)
(* every line of the log, the live trader's or the batch's own, and the    *)
(* comparison needs a whole summary.                                       *)
Readable(f) == /\ f = "liveSummary" => liveLog = "lines"
               /\ f = "summary" => file[batch]["log"] = "lines"
               /\ f = "comparison" => file[batch]["summary"] # "torn"

BeginWrite == /\ pc \in Writes /\ ~open /\ Readable(pc)
              /\ open' = TRUE
              /\ file' = [file EXCEPT ![batch][pc] = "torn"]
              /\ UNCHANGED <<pc, batch, made, runner, latest, liveLog, history,
                             beat, held, used>>

EndWrite == /\ pc \in Writes /\ open
            /\ \E status \in Closed(file[batch][pc], "whole") :
                 file' = [file EXCEPT ![batch][pc] = status]
            /\ open' = FALSE
            /\ pc' = After[pc]
            /\ UNCHANGED <<batch, made, runner, latest, liveLog, history, beat,
                           held, used>>

(* build_live_sim_runtime creates live_state.db; the runtime restores it.  *)
Build == /\ pc = "build"
         /\ file' = [file EXCEPT ![batch]["db"] = "whole"]
         /\ pc' = "run"
         /\ UNCHANGED <<open, batch, made, runner, latest, liveLog, history,
                        beat, held, used>>

(* JsonlFileLogger.log                                                     *)
AppendLine ==
  /\ pc = "run"
  /\ file' = [file EXCEPT ![batch]["log"] = Appended(@),
                          ![batch]["summary"] = Outdated(@)]
  /\ held' = Outdated(held)

Loop == /\ AppendLine
        /\ UNCHANGED <<main, runner, latest, liveLog, history, beat, used>>

(* max_loops cycles were made.                                             *)
EndRun == /\ AppendLine
          /\ pc' = "summary"
          /\ UNCHANGED <<open, batch, made, runner, latest, liveLog, history,
                         beat, used>>

(* Mutant: the history is written without the entries it had.              *)
ArchivedAlone == [entries |-> {batch}, torn |-> TRUE]

(* write_observation_archive: a history that cannot be read has no entries.*)
Archived == [entries |-> (IF history.torn THEN {} ELSE history.entries)
                         \cup {batch},
             torn    |-> TRUE]

BeginArchive == /\ pc = "archive" /\ ~open
                /\ open' = TRUE
                /\ history' = Archived
                /\ UNCHANGED <<pc, batch, made, file, runner, latest, liveLog,
                               beat, held, used>>

EndArchive == /\ pc = "archive" /\ open
              /\ open' = FALSE
              /\ pc' = "latest"
              /\ history' = [history EXCEPT !.torn = FALSE]
              /\ UNCHANGED <<batch, made, file, runner, latest, liveLog, beat,
                             held, used>>

(* Mutant: the first complete batch is taken.                              *)
FirstComplete(b) == Complete(b) /\ \A c \in 1..made : Complete(c) => b <= c

(* _select_latest_complete_batch                                           *)
LastComplete(b) == Complete(b) /\ \A c \in 1..made : Complete(c) => c <= b

(* _repair_latest_pointer                                                  *)
RepairLatest == /\ pc = "latest"
                /\ \E b \in 1..made : LastComplete(b) /\ latest' = b
                /\ pc' = "stop"
                /\ UNCHANGED <<open, batch, made, file, runner, liveLog,
                               history, beat, held, used>>

(* finally: the heartbeat is told to stop ...                              *)
Stop == /\ pc = "stop"
        /\ pc' = "join"
        /\ UNCHANGED <<open, batch, made, file, runner, latest, liveLog,
                       history, beat, held, used>>

(* Mutant: the heartbeat is left to itself.                                *)
JoinWithoutWaiting == /\ pc = "join"
                      /\ runner' = batch
                      /\ pc' = "idle"
                      /\ UNCHANGED <<open, batch, made, file, latest, liveLog,
                                     history, beat, held, used>>

(* ... and joined, which takes less than the timeout of the join.          *)
Join == /\ pc = "join" /\ beat = "waiting"
        /\ beat' = "off"
        /\ runner' = batch
        /\ pc' = "idle"
        /\ UNCHANGED <<open, batch, made, file, latest, liveLog, history, held,
                       used>>

-----------------------------------------------------------------------------
(* What goes wrong                                                         *)

(* A step raises: what it was writing stays as it is.                      *)
Raise == /\ open' = FALSE
         /\ pc' = "stop"
         /\ UNCHANGED <<batch, made, runner, latest, liveLog, history, beat>>

(* A file cannot be parsed.                                                *)
Unreadable == /\ pc \in Writes /\ ~open /\ ~Readable(pc)
              /\ Raise
              /\ UNCHANGED <<file, held, used>>

(* The exchange, a provider that was retried often enough, or the disk.    *)
Fault == /\ used.faults < MaxFaults /\ Use("faults")
         /\ pc \in Steps
         /\ Raise
         /\ UNCHANGED <<file, held>>

(* runner-state.json cannot be written: outside of try.                    *)
NotMarked == /\ used.faults < MaxFaults /\ Use("faults")
             /\ pc = "made"
             /\ pc' = "idle"
             /\ UNCHANGED <<open, batch, made, file, runner, latest, liveLog,
                            history, beat, held>>

TornLog(b) == [file EXCEPT ![b]["log"] =
                 IF @ \in {"none", "lines"} THEN "torn" ELSE "broken",
                 ![b]["summary"] = Outdated(@)]

(* The disk is full in the middle of a line.                               *)
TearLine == /\ used.tears < MaxTears /\ Use("tears")
            /\ pc = "run"
            /\ file' = TornLog(batch)
            /\ held' = Outdated(held)
            /\ Raise

(* The daemon dies, and its heartbeat with it; when the machine dies the   *)
(* last line of the log may be torn.                                       *)
Die == /\ pc # "down"
       /\ used.crashes < MaxCrashes
       /\ pc' = "down"
       /\ open' = FALSE
       /\ beat' = "off"
       /\ held' = "none"
       /\ UNCHANGED <<batch, made, runner, latest, liveLog, history>>

Crash == Die /\ Use("crashes") /\ UNCHANGED file

CrashInLine ==
  /\ Die
  /\ pc = "run" /\ used.tears < MaxTears
  /\ file' = TornLog(batch)
  /\ used' = [used EXCEPT !.crashes = @ + 1, !.tears = @ + 1]

(* The live trader's JsonlFileLogger appends a part of a line to its log;  *)
(* the next line is joined to it, so it is never mended.                   *)
LiveLogTorn == /\ liveLog = "lines"
               /\ liveLog' = "broken"
               /\ UNCHANGED <<main, file, runner, latest, history, beat, held,
                              used>>

-----------------------------------------------------------------------------
(* _runner_heartbeat_loop                                                  *)

(* The log is read; a line that cannot be parsed is left for the next beat.*)
BeatRead == /\ beat = "waiting" /\ pc # "join"
            /\ used.beats < MaxBeats /\ Use("beats")
            /\ file[batch]["log"] = "lines"
            /\ beat' = "holding"
            /\ held' = "whole"
            /\ UNCHANGED <<main, file, runner, latest, liveLog, history>>

BeatOpen == /\ beat = "holding"
            /\ beat' = "writing"
            /\ file' = [file EXCEPT ![batch]["summary"] = "torn"]
            /\ UNCHANGED <<main, runner, latest, liveLog, history, held, used>>

BeatWrite == /\ beat = "writing"
             /\ \E status \in Closed(file[batch]["summary"], held) :
                  file' = [file EXCEPT ![batch]["summary"] = status]
             /\ beat' = "waiting"
             /\ held' = "none"
             /\ UNCHANGED <<main, runner, latest, liveLog, history, used>>

(* An OSError is skipped too.                                              *)
BeatFails == /\ beat = "writing"
             /\ used.faults < MaxFaults /\ Use("faults")
             /\ beat' = "waiting"
             /\ held' = "none"
             /\ UNCHANGED <<main, file, runner, latest, liveLog, history>>

-----------------------------------------------------------------------------
Init == /\ pc = "down" /\ open = FALSE /\ batch = 0 /\ made = 0
        /\ file = [b \in Batches |-> [f \in Files |-> "none"]]
        /\ runner = 0 /\ latest = 0 /\ liveLog = "lines"
        /\ history = [entries |-> {}, torn |-> FALSE]
        /\ beat = "off" /\ held = "none"
        /\ used = [crashes |-> 0, faults |-> 0, tears |-> 0, unread |-> 0,
                   beats |-> 0]

(* What the main thread does when nothing goes wrong, but for Loop.        *)
Advance == \/ Boot \/ Attempt \/ MarkRunning \/ BeginWrite \/ EndWrite
           \/ Build \/ EndRun \/ BeginArchive \/ EndArchive \/ RepairLatest
           \/ Stop \/ Join \/ Unreadable

Beat == BeatRead \/ BeatOpen \/ BeatWrite

Next == \/ Advance \/ Loop \/ Beat \/ BeatFails
        \/ Fault \/ NotMarked \/ AttemptUnread \/ TearLine \/ LiveLogTorn
        \/ Crash \/ CrashInLine

Spec == Init /\ [][Next]_vars

(* The daemon is always restarted, a step of either thread is not          *)
(* postponed for ever, and a run ends after its max_loops cycles.          *)
Fairness == WF_vars(Advance) /\ WF_vars(BeatOpen \/ BeatWrite)

FairSpec == Spec /\ Fairness

-----------------------------------------------------------------------------
Statuses == {"none", "torn", "stale", "whole", "lines", "broken"}

UsedBounds == [crashes : 0..MaxCrashes, faults : 0..MaxFaults,
               tears : 0..MaxTears, unread : 0..MaxUnread, beats : 0..MaxBeats]

(* The heartbeat runs while a batch does, and a directory that was not made*)
(* has no files.                                                           *)
TypeOK ==
  /\ pc \in Steps \cup {"down", "idle", "made", "stop", "join"}
  /\ open \in BOOLEAN
  /\ made \in 0..MaxBatches /\ batch \in 0..made
  /\ file \in [Batches -> [Files -> Statuses]]
  /\ \A b \in Batches : b > made => \A f \in Files : ~Exists(b, f)
  /\ runner \in 0..made /\ latest \in 0..made
  /\ liveLog \in {"lines", "broken"}
  /\ history \in [entries : SUBSET (1..made), torn : BOOLEAN]
  /\ beat \in {"off", "waiting", "holding", "writing"}
  /\ beat = "off" <=> pc \in {"down", "idle", "made"}
  /\ held \in {"none", "stale", "whole"}
  /\ beat \in {"holding", "writing"} => held # "none"
  /\ used \in UsedBounds

(* A batch that holds a simulation, is not complete and is not named by    *)
(* runner-state.json is never taken up again.                              *)
Forgotten(b) == Started(b) /\ ~Complete(b) /\ b # runner

(* Whatever fails or dies, a begun batch is forgotten only when            *)
(* runner-state.json could not be read, and one at most for each such read.*)
ForgottenOnlyUnread ==
  Cardinality({b \in Batches : Forgotten(b)}) <= used.unread

(* A batch is sealed when it is complete and its process has left it.      *)
Sealed(b) ==
  Complete(b) /\ (b = batch => pc \in {"down", "idle"})

(* A sealed batch is never worked on again and none of its files changes,  *)
(* not even its summary by a heartbeat that outlived its batch.            *)
SealedStaysSealed ==
  [][\A b \in Batches :
       Sealed(b) => Sealed(b)' /\ file'[b] = file[b]]_vars

(* latest.json names a batch whose comparison, snapshot and outcome can be *)
(* read, even when a batch was torn by a death after its last file was     *)
(* opened and therefore counts as complete.                                *)
LatestIsReadable ==
  latest # 0 => \A f \in {"snapshot", "outcome", "comparison", "report"} :
                  file[latest][f] = "whole"

(* As long as nothing fails or dies, every batch the daemon has finished   *)
(* with stays in the observation history.                                  *)
FinishedAreArchived ==
  used.crashes = 0 /\ used.faults = 0 =>
    \A b \in Batches : Sealed(b) => b \in history.entries

(* A simulation that was begun is completed, resumed as often as it takes, *)
(* unless a line of its log, or of the live trader's log, was written in   *)
(* part, or runner-state.json could not be read and it was forgotten.      *)
IntactCompletes ==
  \A b \in Batches :
    Started(b) ~> \/ Complete(b)
                  \/ file[b]["log"] \in {"torn", "broken"}
                  \/ liveLog = "broken" \/ Forgotten(b)

(* The results a reader of the output root may rely on.                    *)
Serial == INSTANCE SerialBatches
            WITH Numbers   <- Batches,
                 Losses    <- MaxUnread,
                 begun     <- {b \in Batches : Started(b)},
                 sealed    <- {b \in Batches : Sealed(b)},
                 lost      <- {b \in Batches : Forgotten(b)},
                 published <- latest

(* Whatever fails or dies, the daemon works on one batch after the other:  *)
(* none is begun before an older one, and none beside one that is not      *)
(* complete but for those lost, one at most for each failed read of        *)
(* runner-state.json; latest.json only moves to the batch in work.         *)
ImplementsSerialBatches == Serial!Spec
=============================================================================
