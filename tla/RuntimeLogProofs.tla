-------------------------- MODULE RuntimeLogProofs --------------------------
(***************************************************************************)
(* For every number of loops, retries, failures and deaths of the process: *)
(* what the log adds up to is bounded on both sides, and a batch that was  *)
(* not interrupted passes only when it earned it.                          *)
(*                                                                         *)
(* The counts of a kind of transfer are compared in three places.  The     *)
(* bucket is ahead of `previous` by at most the one transfer of the cycle; *)
(* `previous` is ahead of the loop lines by at most one per death; the     *)
(* details that follow the last loop line never exceed what is missing.    *)
(***************************************************************************)
EXTENDS RuntimeLog, TLAPS

InHand(k) == IF pc = "transferred" /\ Head(todo) = k THEN 1 ELSE 0

(* Transfers of a kind in what is left of a cycle                          *)
In(c, k) == IF c = <<k>> \/ c = <<"topup", "sweep">> THEN 1 ELSE 0

(* What the running cycle has still to transfer                            *)
Ahead(k) == IF pc = "transferred" THEN In(Tail(todo), k) ELSE In(todo, k)

(* One kind of transfer: s in the bucket, p counted by the loop, r in loop *)
(* lines and q in details that no loop line follows.                       *)
KindInv(k) ==
  LET s == saved.count[k]
      p == previous[k]
      r == read.count[k]
      q == read.pending[k]
  IN /\ r + q + InHand(k) <= s
     /\ s <= r + q + InHand(k) + crashes
     /\ IF pc = "down" THEN s <= r + crashes
        ELSE /\ r <= p /\ p <= r + crashes
             /\ p <= s /\ s + Ahead(k) <= p + 1
             /\ pc \in {"polling", "done"} => s = p

LogInv == /\ TypeOK
          /\ bucket = saved
          /\ pc \in {"down", "polling", "done"} => todo = << >>
          /\ pc \in {"polling", "cycle", "transferred"} => loops < MaxLoops
          /\ \A k \in Kinds : KindInv(k)

-----------------------------------------------------------------------------
(* The first transfer of a cycle and the rest of it.                       *)
LEMMA HeadAndTail ==
  ASSUME NEW c \in Cycles, c # << >>
  PROVE  /\ Head(c) \in Kinds
         /\ Tail(c) \in Cycles
         /\ \A k \in Kinds : In(c, k) = In(Tail(c), k)
                                        + (IF Head(c) = k THEN 1 ELSE 0)
<1>1. CASE c = <<"topup">>
  <2>1. Head(c) = "topup" /\ Tail(c) = << >>
    BY <1>1
  <2> QED
    BY <1>1, <2>1 DEF Cycles, Kinds, In
<1>2. CASE c = <<"sweep">>
  <2>1. Head(c) = "sweep" /\ Tail(c) = << >>
    BY <1>2
  <2> QED
    BY <1>2, <2>1 DEF Cycles, Kinds, In
<1>3. CASE c = <<"topup", "sweep">>
  <2>1. Head(c) = "topup" /\ Tail(c) = <<"sweep">>
    BY <1>3
  <2> QED
    BY <1>3, <2>1 DEF Cycles, Kinds, In
<1> QED
  BY <1>1, <1>2, <1>3 DEF Cycles

LEMMA AtMostOnce ==
  ASSUME NEW c \in Cycles, NEW k \in Kinds
  PROVE  In(c, k) \in 0..1 /\ In(<< >>, k) = 0
BY DEF In, Kinds

LEMMA EmptyCycle == << >> \in Cycles
BY DEF Cycles

LEMMA NoneCounted == None \in Counts /\ \A k \in Kinds : None[k] = 0
BY DEF None, Counts

(* The numbers that KindInv compares.                                      *)
LEMMA Numbers ==
  ASSUME TypeOK, NEW k \in Kinds
  PROVE  /\ saved.count[k] \in Nat /\ previous[k] \in Nat
         /\ read.count[k] \in Nat /\ read.pending[k] \in Nat
         /\ crashes \in Nat
         /\ InHand(k) \in 0..1 /\ Ahead(k) \in 0..1
<1>1. /\ saved.count[k] \in Nat /\ previous[k] \in Nat
      /\ read.count[k] \in Nat /\ read.pending[k] \in Nat
  BY DEF TypeOK, Counts, Buckets, Readings
<1>2. crashes \in Nat
  BY BoundsAssumption DEF TypeOK
<1>3. InHand(k) \in 0..1
  BY DEF InHand
<1>4. pc = "transferred" => Tail(todo) \in Cycles
  BY HeadAndTail DEF TypeOK
<1>5. Ahead(k) \in 0..1
  BY <1>4, AtMostOnce DEF Ahead, TypeOK
<1> QED
  BY <1>1, <1>2, <1>3, <1>5

LEMMA LogInit == Init => LogInv
<1> SUFFICES ASSUME Init PROVE LogInv
  OBVIOUS
<1>1. bucket \in Buckets /\ read \in Readings
  BY NoneCounted DEF Init, NewBucket, NothingRead, Buckets, Readings
<1>2. /\ loops \in 0..MaxLoops /\ attempts \in 0..CycleRetries
      /\ failures \in 0..MaxFailures /\ crashes \in 0..MaxCrashes
  BY LoopAssumption, BoundsAssumption DEF Init
<1>3. saved \in Buckets /\ previous \in Counts
  BY <1>1, NoneCounted DEF Init
<1>4. TypeOK
  BY <1>1, <1>2, <1>3, EmptyCycle DEF TypeOK, Init
<1>5. ASSUME NEW k \in Kinds PROVE KindInv(k)
  <2>1. /\ saved.count[k] = 0 /\ read.count[k] = 0 /\ read.pending[k] = 0
        /\ InHand(k) = 0 /\ crashes = 0 /\ pc = "down"
    BY NoneCounted DEF Init, NewBucket, NothingRead, InHand
  <2> QED
    BY <2>1 DEF KindInv
<1> QED
  BY <1>5, <1>4 DEF LogInv, Init

-----------------------------------------------------------------------------
(* The run starts with what was saved, and counts from there.              *)
LEMMA StartKeeps == LogInv /\ Start => LogInv'
<1> SUFFICES ASSUME LogInv, Start PROVE LogInv'
  OBVIOUS
<1>1. saved \in Buckets /\ previous' = saved.count /\ previous' \in Counts
  BY DEF LogInv, TypeOK, Start, Counted, Buckets
<1>2. /\ loops' \in 0..MaxLoops /\ loops' < MaxLoops
      /\ attempts' \in 0..CycleRetries
  BY LoopAssumption DEF Start
<1>3. TypeOK'
  BY <1>1, <1>2, EmptyCycle DEF LogInv, TypeOK, Start
<1>4. ASSUME NEW k \in Kinds PROVE KindInv(k)'
  <2>1. /\ saved'.count[k] = saved.count[k] /\ previous'[k] = saved.count[k]
        /\ read' = read /\ crashes' = crashes
        /\ pc = "down" /\ pc' = "polling"
    BY <1>1 DEF Start
  <2>2. InHand(k) = 0 /\ InHand(k)' = 0 /\ Ahead(k)' = 0
    BY <1>4, EmptyCycle, AtMostOnce DEF Start, InHand, Ahead
  <2>3. /\ saved.count[k] \in Nat /\ previous[k] \in Nat
        /\ read.count[k] \in Nat /\ read.pending[k] \in Nat
        /\ crashes \in Nat
        /\ InHand(k) \in 0..1 /\ Ahead(k) \in 0..1
        /\ KindInv(k)
    BY <1>4, Numbers DEF LogInv
  <2> QED
    BY <2>1, <2>2, <2>3 DEF KindInv
<1> QED
  BY <1>3, <1>4, <1>2 DEF LogInv, Start

LEMMA PollFailsKeeps == LogInv /\ PollFails => LogInv'
<1> SUFFICES ASSUME LogInv, PollFails PROVE LogInv'
  OBVIOUS
<1>1. /\ read' \in Readings
      /\ read'.count = read.count /\ read'.pending = read.pending
  BY DEF LogInv, PollFails, ReadRetry, TypeOK, Readings
<1>2. failures' \in 0..MaxFailures /\ attempts' \in 0..CycleRetries
  BY LoopAssumption, BoundsAssumption DEF LogInv, TypeOK, PollFails
<1>3. TypeOK'
  BY <1>1, <1>2 DEF LogInv, TypeOK, PollFails
<1>4. ASSUME NEW k \in Kinds PROVE KindInv(k)'
  <2>1. /\ saved' = saved /\ previous' = previous /\ crashes' = crashes
        /\ pc = "polling" /\ pc' \in {"polling", "down"} /\ todo' = todo
    BY DEF PollFails
  <2>2. InHand(k) = 0 /\ InHand(k)' = 0 /\ Ahead(k)' = Ahead(k)
    BY <2>1 DEF InHand, Ahead
  <2>3. /\ saved.count[k] \in Nat /\ previous[k] \in Nat
        /\ read.count[k] \in Nat /\ read.pending[k] \in Nat
        /\ crashes \in Nat
        /\ InHand(k) \in 0..1 /\ Ahead(k) \in 0..1
        /\ KindInv(k)
    BY <1>4, Numbers DEF LogInv
  <2> QED
    BY <1>1, <2>1, <2>2, <2>3 DEF KindInv
<1> QED
  BY <1>3, <1>4 DEF LogInv, PollFails

LEMMA PollKeeps == LogInv /\ Poll => LogInv'
<1> SUFFICES ASSUME LogInv, Poll PROVE LogInv'
  OBVIOUS
<1>1. TypeOK'
  BY DEF LogInv, TypeOK, Poll
<1>2. ASSUME NEW k \in Kinds PROVE KindInv(k)'
  <2>1. /\ saved' = saved /\ previous' = previous /\ crashes' = crashes
        /\ read' = read /\ pc = "polling" /\ pc' = "cycle"
    BY DEF Poll
  <2>2. InHand(k) = 0 /\ InHand(k)' = 0 /\ Ahead(k)' \in 0..1
    BY <1>1, <1>2, <2>1, AtMostOnce DEF InHand, Ahead, TypeOK
  <2>3. /\ saved.count[k] \in Nat /\ previous[k] \in Nat
        /\ read.count[k] \in Nat /\ read.pending[k] \in Nat
        /\ crashes \in Nat
        /\ InHand(k) \in 0..1 /\ Ahead(k) \in 0..1
        /\ KindInv(k)
    BY <1>2, Numbers DEF LogInv
  <2> QED
    BY <2>1, <2>2, <2>3 DEF KindInv
<1> QED
  BY <1>1, <1>2 DEF LogInv, Poll

(* A transfer is made at most once in a cycle and is then in hand.         *)
LEMMA TransferKeeps == LogInv /\ Transfer => LogInv'
<1> SUFFICES ASSUME LogInv, Transfer PROVE LogInv'
  OBVIOUS
<1>1. /\ todo \in Cycles /\ todo # << >> /\ todo' = todo
      /\ pc = "cycle" /\ pc' = "transferred"
      /\ read' = read /\ previous' = previous /\ crashes' = crashes
  BY DEF LogInv, TypeOK, Transfer
<1>2. Head(todo) \in Kinds
  BY <1>1, HeadAndTail
<1>3. PICK funded \in BOOLEAN :
        bucket' = [bucket EXCEPT !.count[Head(todo)] = @ + 1, !.funded = funded]
  BY DEF Transfer
<1>4. /\ saved' = bucket'
      /\ bucket' \in Buckets
      /\ \A k \in Kinds : saved'.count[k] = saved.count[k]
                                            + (IF Head(todo) = k THEN 1 ELSE 0)
  <2>1. bucket \in Buckets /\ saved = bucket
    BY DEF LogInv, TypeOK
  <2>2. bucket'.count = [bucket.count EXCEPT ![Head(todo)] = @ + 1]
    BY <1>3, <2>1 DEF Buckets
  <2>3. bucket.count \in Counts
    BY <2>1 DEF Buckets
  <2>4. /\ bucket'.count \in Counts
        /\ \A k \in Kinds : bucket'.count[k] = bucket.count[k]
                                + (IF Head(todo) = k THEN 1 ELSE 0)
    BY <1>2, <2>2, <2>3 DEF Counts
  <2>5. bucket' = [count |-> bucket'.count, funded |-> funded]
    BY <1>3, <2>1 DEF Buckets
  <2>6. bucket' \in Buckets
    BY <2>4, <2>5 DEF Buckets
  <2> QED
    BY <2>1, <2>4, <2>6 DEF Transfer
<1>5. TypeOK'
  BY <1>4 DEF LogInv, TypeOK, Transfer
<1>6. ASSUME NEW k \in Kinds PROVE KindInv(k)'
  <2>1. /\ InHand(k) = 0
        /\ InHand(k)' = IF Head(todo) = k THEN 1 ELSE 0
    BY <1>1 DEF InHand
  <2>2. Ahead(k) = Ahead(k)' + InHand(k)'
    BY <1>1, <1>6, <2>1, HeadAndTail DEF Ahead
  <2>3. Ahead(k)' \in 0..1
    BY <1>1, <1>6, HeadAndTail, AtMostOnce DEF Ahead
  <2>4. saved'.count[k] = saved.count[k] + InHand(k)'
    BY <1>4, <1>6, <2>1
  <2>5. InHand(k)' \in 0..1
    BY <2>1
  <2>6. /\ saved.count[k] \in Nat /\ previous[k] \in Nat
        /\ read.count[k] \in Nat /\ read.pending[k] \in Nat
        /\ crashes \in Nat
        /\ InHand(k) \in 0..1 /\ Ahead(k) \in 0..1
        /\ KindInv(k)
    BY <1>6, Numbers DEF LogInv
  <2> QED
    BY <1>1, <2>1, <2>2, <2>3, <2>4, <2>5, <2>6 DEF KindInv
<1> QED
  BY <1>1, <1>4, <1>5, <1>6 DEF LogInv, Transfer

(* What was in hand becomes a detail of the log.                           *)
LEMMA LogTransferKeeps == LogInv /\ LogTransfer => LogInv'
<1> SUFFICES ASSUME LogInv, LogTransfer PROVE LogInv'
  OBVIOUS
<1>1. /\ todo \in Cycles /\ todo # << >> /\ todo' = Tail(todo)
      /\ pc = "transferred" /\ pc' = "cycle"
      /\ saved' = saved /\ previous' = previous /\ crashes' = crashes
  BY DEF LogInv, TypeOK, LogTransfer
<1>2. Head(todo) \in Kinds /\ Tail(todo) \in Cycles
  BY <1>1, HeadAndTail
<1>3. /\ read' \in Readings
      /\ read'.count = read.count
      /\ \A k \in Kinds : read'.pending[k] = read.pending[k]
                                             + (IF Head(todo) = k THEN 1 ELSE 0)
  <2>1. read \in Readings /\ read' = [read EXCEPT !.pending[Head(todo)] = @ + 1]
    BY DEF LogInv, TypeOK, LogTransfer, ReadDetail
  <2>2. read.pending \in Counts
    BY <2>1 DEF Readings
  <2> DEFINE pending == [read.pending EXCEPT ![Head(todo)] = @ + 1]
  <2>3. /\ pending \in Counts
        /\ \A k \in Kinds : pending[k] = read.pending[k]
                                         + (IF Head(todo) = k THEN 1 ELSE 0)
    BY <1>2, <2>2 DEF Counts
  <2>4. read' = [read EXCEPT !.pending = pending]
    BY <2>1 DEF Readings
  <2> HIDE DEF pending
  <2>5. /\ read' \in Readings
        /\ read'.count = read.count /\ read'.pending = pending
    BY <2>1, <2>3, <2>4 DEF Readings
  <2> QED
    BY <2>3, <2>5
<1>4. TypeOK'
  BY <1>1, <1>2, <1>3 DEF LogInv, TypeOK, LogTransfer
<1>5. ASSUME NEW k \in Kinds PROVE KindInv(k)'
  <2>1. /\ InHand(k) = IF Head(todo) = k THEN 1 ELSE 0
        /\ InHand(k)' = 0 /\ Ahead(k)' = Ahead(k)
    BY <1>1 DEF InHand, Ahead
  <2>2. read'.pending[k] = read.pending[k] + InHand(k)
    BY <1>3, <1>5, <2>1
  <2>3. /\ saved.count[k] \in Nat /\ previous[k] \in Nat
        /\ read.count[k] \in Nat /\ read.pending[k] \in Nat
        /\ crashes \in Nat
        /\ InHand(k) \in 0..1 /\ Ahead(k) \in 0..1
        /\ KindInv(k)
    BY <1>5, Numbers DEF LogInv
  <2> QED
    BY <1>1, <1>3, <2>1, <2>2, <2>3 DEF KindInv
<1> QED
  BY <1>1, <1>4, <1>5 DEF LogInv, LogTransfer

(* The loop line replaces the details by what the bucket gained.           *)
LEMMA CompleteLoopKeeps == LogInv /\ CompleteLoop => LogInv'
<1> SUFFICES ASSUME LogInv, CompleteLoop PROVE LogInv'
  OBVIOUS
<1>1. /\ pc = "cycle" /\ pc' \in {"done", "polling"} /\ todo = << >>
      /\ todo' = << >> /\ saved' = saved /\ bucket' = bucket
      /\ crashes' = crashes /\ previous' = saved.count
  BY DEF LogInv, CompleteLoop
<1>2. \A k \in Kinds : /\ previous[k] <= saved.count[k]
                       /\ saved.count[k] \in Nat /\ previous[k] \in Nat
  BY <1>1, Numbers DEF LogInv, KindInv
<1>3. \A k \in Kinds : Uncounted[k] = saved.count[k] - previous[k]
  BY <1>2 DEF LogInv, Uncounted
<1>4. \A k \in Kinds : Uncounted[k] \in Nat
  BY <1>2, <1>3
<1>5. /\ read' \in Readings
      /\ read'.pending = None
      /\ \A k \in Kinds : read'.count[k] = read.count[k] + Uncounted[k]
  <2>1. [k \in Kinds |-> read.count[k] + Uncounted[k]] \in Counts
    BY <1>4 DEF LogInv, TypeOK, Readings, Counts
  <2>2. read \in Readings /\ hard \in BOOLEAN /\ bucket.funded \in BOOLEAN
    BY DEF LogInv, TypeOK, Buckets
  <2>3. read' = [read EXCEPT
                   !.loops = @ + 1,
                   !.hard = IF hard THEN @ + 1 ELSE @,
                   !.funded = bucket.funded,
                   !.count = [k \in Kinds |-> @[k] + Uncounted[k]],
                   !.pending = None]
    BY DEF CompleteLoop, ReadLoop
  <2> DEFINE count == [k \in Kinds |-> read.count[k] + Uncounted[k]]
  <2>4. \A k \in Kinds : count[k] = read.count[k] + Uncounted[k]
    OBVIOUS
  <2> DEFINE limits == IF hard THEN read.hard + 1 ELSE read.hard
  <2>5. limits \in Nat
    BY <2>2 DEF Readings
  <2>6. read' = [read EXCEPT !.loops = @ + 1,
                             !.hard = limits,
                             !.funded = bucket.funded,
                             !.count = count,
                             !.pending = None]
    BY <2>2, <2>3 DEF Readings
  <2>7. count \in Counts
    BY <2>1
  <2> HIDE DEF count, limits
  <2>8. read' = [loops |-> read.loops + 1, retries |-> read.retries,
                 hard |-> limits, funded |-> bucket.funded,
                 count |-> count, pending |-> None]
    BY <2>2, <2>6 DEF Readings
  <2>9. read.loops + 1 \in Nat /\ read.retries \in Nat
    BY <2>2 DEF Readings
  <2>10. /\ read' \in Readings
        /\ read'.count = count /\ read'.pending = None
    BY <2>2, <2>7, <2>5, <2>8, <2>9, NoneCounted DEF Readings
  <2> QED
    BY <2>4, <2>10
<1>6. saved.count \in Counts
  BY DEF LogInv, TypeOK, Buckets
<1>7. /\ loops' \in 0..MaxLoops /\ attempts' \in 0..CycleRetries
      /\ pc' = "polling" => loops' < MaxLoops
  BY LoopAssumption DEF LogInv, TypeOK, CompleteLoop
<1>8. TypeOK'
  BY <1>1, <1>5, <1>6, <1>7 DEF LogInv, TypeOK, CompleteLoop
<1>9. ASSUME NEW k \in Kinds PROVE KindInv(k)'
  <2>1. /\ InHand(k) = 0 /\ InHand(k)' = 0 /\ Ahead(k)' = 0
    BY <1>1, <1>9, EmptyCycle, AtMostOnce DEF InHand, Ahead
  <2>2. /\ read'.pending[k] = 0
        /\ read'.count[k] = read.count[k] + (saved.count[k] - previous[k])
        /\ previous'[k] = saved.count[k]
    BY <1>1, <1>3, <1>5, <1>9, NoneCounted
  <2>3. /\ saved.count[k] \in Nat /\ previous[k] \in Nat
        /\ read.count[k] \in Nat /\ read.pending[k] \in Nat
        /\ crashes \in Nat
        /\ InHand(k) \in 0..1 /\ Ahead(k) \in 0..1
        /\ KindInv(k)
    BY <1>9, Numbers DEF LogInv
  <2> QED
    BY <1>1, <2>1, <2>2, <2>3 DEF KindInv
<1> QED
  BY <1>1, <1>7, <1>8, <1>9 DEF LogInv

(* A death costs at most the transfer of a kind that `previous` lacked.    *)
LEMMA CrashKeeps == LogInv /\ Crash => LogInv'
<1> SUFFICES ASSUME LogInv, Crash PROVE LogInv'
  OBVIOUS
<1>1. /\ pc # "down" /\ pc' = "down" /\ bucket' = saved /\ saved' = saved
      /\ todo' = << >> /\ read' = read /\ crashes' = crashes + 1
  BY DEF Crash
<1>2. crashes' \in 0..MaxCrashes
  BY BoundsAssumption DEF LogInv, TypeOK, Crash
<1>3. TypeOK'
  BY <1>1, <1>2, NoneCounted, EmptyCycle DEF LogInv, TypeOK, Crash
<1>4. ASSUME NEW k \in Kinds PROVE KindInv(k)'
  <2>1. InHand(k)' = 0
    BY <1>1 DEF InHand
  <2>2. /\ saved.count[k] \in Nat /\ previous[k] \in Nat
        /\ read.count[k] \in Nat /\ read.pending[k] \in Nat
        /\ crashes \in Nat
        /\ InHand(k) \in 0..1 /\ Ahead(k) \in 0..1
        /\ KindInv(k)
    BY <1>4, Numbers DEF LogInv
  <2> QED
    BY <1>1, <2>1, <2>2 DEF KindInv
<1> QED
  BY <1>1, <1>3, <1>4 DEF LogInv

LEMMA LogNext == LogInv /\ [Next]_vars => LogInv'
<1>1. LogInv /\ UNCHANGED vars => LogInv'
  BY DEF LogInv, TypeOK, KindInv, InHand, Ahead, vars
<1> QED
  BY <1>1, StartKeeps, PollFailsKeeps, PollKeeps, TransferKeeps,
     LogTransferKeeps, CompleteLoopKeeps, CrashKeeps DEF Next

-----------------------------------------------------------------------------
LEMMA LogInvariant == Spec => []LogInv
  BY LogInit, LogNext, PTL DEF Spec

LEMMA SumOfKind ==
  ASSUME LogInv, NEW k \in Kinds
  PROVE  /\ Summed(read)[k] \in Nat /\ saved.count[k] \in Nat
         /\ Summed(read)[k] <= saved.count[k]
         /\ saved.count[k] <= Summed(read)[k] + InHand(k) + crashes
<1>1. Summed(read)[k] = read.count[k] + read.pending[k]
  BY DEF Summed
<1> QED
  BY <1>1, Numbers DEF LogInv, KindInv

(* Every reachable state has its types.                                    *)
THEOREM LogTypeCorrect == Spec => []TypeOK
<1>1. LogInv => TypeOK
  BY DEF LogInv
<1> QED
  BY <1>1, LogInvariant, PTL

(* The summary of a log misses at most one transfer of a kind for every    *)
(* death of the process, besides the one being logged, and counts none     *)
(* twice, whatever the numbers of loops, retries, failures and deaths.     *)
THEOREM LossIsBounded == Spec => []LossBounded
<1>1. LogInv => LossBounded
  BY SumOfKind DEF LossBounded, InHand
<1> QED
  BY <1>1, LogInvariant, PTL

(* Without a death, "pass" is given only to a batch that swept profit and  *)
(* needed no top-up.                                                       *)
THEOREM PassesAreEarned == Spec => []PassIsEarned
<1>1. ASSUME LogInv, pc = "done", crashes = 0, Verdict(read) = "pass"
      PROVE  bucket.count["sweep"] > 0 /\ bucket.count["topup"] = 0
  <2>1. Summed(read)["sweep"] > 0 /\ Summed(read)["topup"] = 0
    BY <1>1 DEF Verdict
  <2>2. ASSUME NEW k \in Kinds
        PROVE  bucket.count[k] = Summed(read)[k] /\ bucket.count[k] \in Nat
    <3>1. InHand(k) = 0 /\ bucket = saved
      BY <1>1 DEF InHand, LogInv
    <3> QED
      BY <1>1, <2>2, <3>1, SumOfKind
  <2>3. "sweep" \in Kinds /\ "topup" \in Kinds
    BY DEF Kinds
  <2> QED
    BY <2>1, <2>2, <2>3
<1>2. LogInv => PassIsEarned
  BY <1>1 DEF PassIsEarned
<1> QED
  BY <1>2, LogInvariant, PTL
=============================================================================
