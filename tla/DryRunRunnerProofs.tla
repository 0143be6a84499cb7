------------------------- MODULE DryRunRunnerProofs -------------------------
(***************************************************************************)
(* Theorems about the dry-run runner, for all prices, targets, fill        *)
(* fractions, timeouts and limits and any number of cycles, restarts and   *)
(* crashes.                                                                *)
(*                                                                         *)
(* A cycle is a composition of methods, so the invariant is stated of any  *)
(* memory x a method may leave behind, its log included: Sound(x).  What   *)
(* is claimed of tables is claimed of each table alone or of a hedge table *)
(* with the runtime table saved before it: only this survives a crash      *)
(* between two commits, which mixes the tables of two saves.               *)
(***************************************************************************)
EXTENDS DryRunRunner, QuotePlannerProofs, SequenceTheorems

Lots == {q \in Nat : WithinTarget(q)}

Pendings == Sides \cup {"NONE"}

SoundHedges == [phase : Phases \ {"TAKING_PROFIT"}, qty : [Sides -> Lots],
                entry : [Sides -> Prices \cup {0}], mark : Prices \cup {0},
                closes : Nat]

SoundBuckets == [harvests : Nat, buffered : BOOLEAN, ready : BOOLEAN]

Slots == [remaining : Nat, reduceOnly : BOOLEAN]

BookTypes == [qty : [Sides -> Lots], slot : [Sides -> Slots],
              price : Prices \cup {0}, age : Nat, requotes : Nat]

(* A working order reduces what is held or opens within the target.        *)
SlotFits(slot, quantity) ==
  /\ slot.reduceOnly => slot.remaining <= quantity
  /\ ~slot.reduceOnly => quantity + slot.remaining \in Lots
  /\ slot.remaining = 0 => slot = NoSlot

SlotsFit(book) == \A s \in Sides : SlotFits(book.slot[s], book.qty[s])

(* Orders do not get as old as the timeout.                                *)
SoundBooks == {b \in BookTypes : SlotsFit(b) /\ (b.age = 0 \/ b.age < Timeout)}

SoundTables == [hedge : SoundHedges, book : SoundBooks,
                runtime : [bucket : SoundBuckets, pending : Pendings]]

Memories == [phase : Phases, pending : Pendings, hedge : SoundHedges,
             bucket : SoundBuckets, book : SoundBooks,
             last : Prices \cup {0}, log : Seq(SoundTables)]

-----------------------------------------------------------------------------
(* Closes are booked but for the lost ones, and only by a hedge.           *)
Ledger(hedge, bucket, lost) ==
  /\ hedge.closes - bucket.harvests \in 0..lost
  /\ hedge.phase = "IDLE" => hedge.closes = 0 /\ bucket.harvests = 0

LedgerOf(tables, lost) == Ledger(tables.hedge, tables.runtime.bucket, lost)

(* A crash while u is saved after t leaves the runtime of t or of u.       *)
Follows(t, u) == /\ Ledger(u.hedge, t.runtime.bucket, crashes + 1)
                 /\ LedgerOf(u, crashes + 1)

(* What was saved before the kth save of a cycle.                          *)
Before(log, k) == IF k = 1 THEN disk ELSE log[k - 1]

Chain(log) == \A k \in 1..Len(log) : Follows(Before(log, k), log[k])

(* What was saved last.                                                    *)
Prior(log) == IF log = << >> THEN disk ELSE log[Len(log)]

(* The closes and harvests of the memory are saved.                        *)
Booked(x) ==
  LET t == Prior(x.log)
  IN /\ t.hedge.closes = x.hedge.closes
     /\ t.runtime.bucket.harvests = x.bucket.harvests
     /\ t.hedge.phase = "IDLE" => x.bucket.harvests = 0

StartSound == disk \in SoundTables /\ crashes \in Nat /\ LedgerOf(disk, crashes)

Sound(x) == /\ StartSound
            /\ x \in Memories
            /\ x.phase = x.hedge.phase
            /\ Ledger(x.hedge, x.bucket, crashes)
            /\ Chain(x.log)
            /\ Booked(x)

(* The strategy state of the memory is saved.                              *)
Saved(x) ==
  LET t == Prior(x.log)
  IN /\ t.hedge = x.hedge
     /\ t.runtime.pending = x.pending
     /\ t.runtime.bucket.harvests = x.bucket.harvests
     /\ t.runtime.bucket.buffered = x.bucket.buffered
     /\ t.book.qty = x.book.qty /\ t.book.slot = x.book.slot
     /\ t.book.price = x.book.price /\ t.book.requotes = x.book.requotes

(* The phase tells what is held, and an opening holds what the lifecycle   *)
(* has filled.                                                             *)
LegsFit(x) ==
  /\ x.phase = "HEDGED"
       => x.pending = "NONE" /\ \A s \in Sides : x.hedge.qty[s] > 0
  /\ x.phase = "REBALANCING"
       => /\ x.pending \in Sides
          /\ x.hedge.qty[x.pending] = 0
          /\ x.hedge.qty[Opposite(x.pending)] > 0
  /\ x.phase \in {"IDLE", "OPENING_HEDGE"} => x.pending = "NONE"
  /\ x.phase = "OPENING_HEDGE" => x.hedge.qty = x.book.qty

(* Between two cycles                                                      *)
RunnerInv ==
  /\ Sound(m)
  /\ m.log = << >>
  /\ m.bucket.harvests <= MaxHarvests
  /\ disk.runtime.bucket.harvests <= MaxHarvests
  /\ crashes <= MaxCrashes
  /\ crashes = 0 => LegsFit(m) /\ Saved(m)

-----------------------------------------------------------------------------
(* Saving                                                                  *)

LEMMA TablesSound ==
  ASSUME NEW x \in Memories
  PROVE  Tables(x) \in SoundTables
BY DEF Tables, SoundTables, Memories

LEMMA PriorSound ==
  ASSUME StartSound, NEW log \in Seq(SoundTables)
  PROVE  Prior(log) \in SoundTables
BY LenProperties, EmptySeq, ElementOfSeq DEF Prior, StartSound

LEMMA PersistFields ==
  ASSUME NEW x \in Memories
  PROVE  /\ Persist(x) \in Memories
         /\ Persist(x).log = Append(x.log, Tables(x))
         /\ Persist(x).phase = x.phase /\ Persist(x).pending = x.pending
         /\ Persist(x).hedge = x.hedge /\ Persist(x).bucket = x.bucket
         /\ Persist(x).book = x.book /\ Persist(x).last = x.last
<1>1. Append(x.log, Tables(x)) \in Seq(SoundTables)
  BY TablesSound, AppendProperties DEF Memories
<1> QED BY <1>1 DEF Persist, Memories

LEMMA PriorAfter ==
  ASSUME NEW log \in Seq(SoundTables), NEW t \in SoundTables
  PROVE  Prior(Append(log, t)) = t
BY AppendProperties, LenProperties, EmptySeq DEF Prior

(* A save after another one extends the chain.                             *)
LEMMA ChainAppend ==
  ASSUME StartSound, NEW log \in Seq(SoundTables), NEW t \in SoundTables,
         Chain(log), Follows(Prior(log), t)
  PROVE  Chain(Append(log, t))
<1> DEFINE longer == Append(log, t)
<1>1. /\ Len(log) \in Nat /\ Len(longer) = Len(log) + 1
      /\ \A i \in 1..Len(log) : longer[i] = log[i]
      /\ longer[Len(log) + 1] = t
  BY AppendProperties, LenProperties
<1>2. log = << >> <=> Len(log) = 0
  BY EmptySeq
<1> HIDE DEF longer
<1> SUFFICES ASSUME NEW k \in 1..Len(longer)
             PROVE  Follows(Before(longer, k), longer[k])
  BY DEF Chain, longer
<1>3. CASE k \in 1..Len(log)
  <2>1. longer[k] = log[k] /\ Before(longer, k) = Before(log, k)
    BY <1>1, <1>3 DEF Before
  <2> QED BY <1>3, <2>1 DEF Chain
<1>4. CASE k = Len(log) + 1
  <2>1. longer[k] = t /\ Before(longer, k) = Prior(log)
    BY <1>1, <1>2, <1>4 DEF Before, Prior
  <2> QED BY <2>1
<1> QED BY <1>1, <1>3, <1>4

LEMMA LedgerLosesMore ==
  ASSUME NEW hedge \in SoundHedges, NEW bucket \in SoundBuckets,
         NEW lost \in Nat, Ledger(hedge, bucket, lost)
  PROVE  Ledger(hedge, bucket, lost + 1)
BY DEF Ledger, SoundHedges, SoundBuckets

(* A save follows the one before when at most one harvest is not booked    *)
(* yet, and leaves nothing unsaved.                                        *)
LEMMA PersistAfter ==
  ASSUME NEW x \in Memories, StartSound, Chain(x.log),
         Follows(Prior(x.log), Tables(x))
  PROVE  /\ Chain(Persist(x).log)
         /\ Prior(Persist(x).log) = Tables(x)
BY ChainAppend, PriorAfter, PersistFields, TablesSound DEF Memories

LEMMA PersistSaves ==
  ASSUME NEW x \in Memories
  PROVE  Saved(Persist(x))
<1>1. Prior(Persist(x).log) = Tables(x)
  BY PersistFields, PriorAfter, TablesSound DEF Memories
<1> QED BY <1>1, PersistFields DEF Saved, Tables

LEMMA PersistSound ==
  ASSUME NEW x, Sound(x)
  PROVE  Sound(Persist(x)) /\ Saved(Persist(x))
<1>1. x \in Memories /\ StartSound /\ Chain(x.log)
  BY DEF Sound
<1>2. Prior(x.log) \in SoundTables /\ crashes \in Nat
  BY <1>1, PriorSound DEF Memories, StartSound
<1>3. Ledger(x.hedge, x.bucket, crashes + 1)
  BY <1>1, <1>2, LedgerLosesMore DEF Sound, Memories
<1>4. Ledger(x.hedge, Prior(x.log).runtime.bucket, crashes + 1)
  BY <1>3 DEF Sound, Booked, Ledger
<1>5. Follows(Prior(x.log), Tables(x))
  BY <1>3, <1>4 DEF Follows, LedgerOf, Tables
<1>6. Chain(Persist(x).log) /\ Prior(Persist(x).log) = Tables(x)
  BY <1>1, <1>5, PersistAfter
<1>7. Booked(Persist(x))
  BY <1>1, <1>6, PersistFields DEF Sound, Ledger, Booked, Tables
<1> QED BY <1>1, <1>6, <1>7, PersistFields, PersistSaves DEF Sound

(* What is not a close, a harvest or a first hedge keeps the books.        *)
LEMMA SoundUpdate ==
  ASSUME NEW x, Sound(x), NEW y \in Memories, y.log = x.log,
         y.phase = y.hedge.phase, y.hedge.closes = x.hedge.closes,
         y.bucket.harvests = x.bucket.harvests,
         y.hedge.phase = "IDLE" => x.hedge.phase = "IDLE"
  PROVE  Sound(y)
BY DEF Sound, Ledger, Booked

-----------------------------------------------------------------------------
(* The lifecycle                                                           *)

LEMMA LotsFacts ==
  /\ 0 \in Lots /\ Lots \subseteq Nat
  /\ \A q \in Lots, n \in Nat : n <= q => n \in Lots
  /\ \A p \in Prices : TargetAt[p] \in Lots /\ TargetAt[p] \in Nat \ {0}
<1>1. PICK p \in Prices : TRUE
  BY PriceAssumption
<1>2. \A r \in Prices : TargetAt[r] \in Nat \ {0}
  BY PriceAssumption
<1>3. 0 \in Lots
  BY <1>1, <1>2 DEF Lots, WithinTarget
<1>4. ASSUME NEW q \in Lots, NEW n \in Nat, n <= q
      PROVE  n \in Lots
  <2>1. PICK r \in Prices : q <= TargetAt[r]
    BY DEF Lots, WithinTarget
  <2>2. q \in Nat /\ TargetAt[r] \in Nat
    BY <1>2 DEF Lots
  <2>3. n <= TargetAt[r]
    BY <1>4, <2>1, <2>2
  <2> QED BY <2>3 DEF Lots, WithinTarget
<1>5. \A r \in Prices : TargetAt[r] \in Lots
  BY <1>2 DEF Lots, WithinTarget
<1>6. Lots \subseteq Nat
  BY DEF Lots
<1> QED BY <1>2, <1>3, <1>4, <1>5, <1>6

LEMMA PriceFacts == /\ 0 \notin Prices /\ Prices \subseteq Nat
BY PriceAssumption

LEMMA TwoSides == "LONG" \in Sides /\ "SHORT" \in Sides
BY DEF Sides

LEMMA FlatLots == Flat \in [Sides -> Lots]
BY LotsFacts DEF Flat

(* A plan that fits the quantities gives a sound lifecycle.                *)
LEMMA QuotedSound ==
  ASSUME NEW b \in SoundBooks, NEW plan, NEW price \in Prices,
         \E p \in Prices : PlanFits(plan, b.qty, TargetAt[p])
  PROVE  /\ Quoted(b, plan, price) \in SoundBooks
         /\ Quoted(b, plan, price).qty = b.qty
<1> DEFINE q == Quoted(b, plan, price)
           slots == [s \in Sides |->
                 IF s \in DOMAIN plan
                   THEN [remaining |-> plan[s].quantity,
                         reduceOnly |-> plan[s].reduceOnly]
                   ELSE NoSlot]
<1>1. PICK p \in Prices : PlanFits(plan, b.qty, TargetAt[p])
  OBVIOUS
<1>2. b \in BookTypes /\ SlotsFit(b)
  BY DEF SoundBooks
<1>3. ASSUME NEW s \in Sides
      PROVE  slots[s] \in Slots /\ SlotFits(slots[s], b.qty[s])
  <2>1. b.qty[s] \in Lots /\ b.qty[s] \in Nat
    BY <1>2, LotsFacts DEF BookTypes
  <2>2. CASE s \in DOMAIN plan
    <3>1. /\ plan[s] \in Quotes
          /\ plan[s].reduceOnly => plan[s].quantity <= b.qty[s]
          /\ ~plan[s].reduceOnly => b.qty[s] + plan[s].quantity <= TargetAt[p]
      BY <1>1, <2>2 DEF PlanFits
    <3>2. TargetAt[p] \in Lots
      BY LotsFacts
    <3>3. plan[s].quantity \in Nat \ {0} /\ plan[s].reduceOnly \in BOOLEAN
      BY <3>1 DEF Quotes
    <3>4. ~plan[s].reduceOnly => b.qty[s] + plan[s].quantity \in Lots
      BY <2>1, <3>1, <3>2, <3>3, LotsFacts
    <3>5. slots[s] = [remaining |-> plan[s].quantity,
                      reduceOnly |-> plan[s].reduceOnly]
      BY <2>2
    <3> HIDE DEF slots
    <3> QED BY <3>1, <3>3, <3>4, <3>5 DEF Slots, SlotFits
  <2>3. CASE s \notin DOMAIN plan
    <3>1. slots[s] = NoSlot
      BY <2>3
    <3> HIDE DEF slots
    <3> QED BY <2>1, <3>1 DEF Slots, SlotFits, NoSlot
  <2> QED BY <2>2, <2>3
<1>4. slots \in [Sides -> Slots]
  BY <1>3
<1>5. q = [b EXCEPT !.slot = slots, !.price = price, !.age = 0]
  BY DEF Quoted
<1> HIDE DEF slots
<1> HIDE DEF q
<1>6. q \in BookTypes /\ q.slot = slots /\ q.qty = b.qty /\ q.age = 0
  BY <1>2, <1>4, <1>5 DEF BookTypes
<1>7. SlotsFit(q)
  BY <1>3, <1>6 DEF SlotsFit
<1>8. q \in SoundBooks /\ q.qty = b.qty
  BY <1>6, <1>7 DEF SoundBooks
<1> QED BY <1>8 DEF q

(* The quantities of a lifecycle are within the target of one price.       *)
LEMMA LotsCapped ==
  ASSUME NEW qty \in [Sides -> Lots], NEW price \in Prices
  PROVE  \E p \in Prices : /\ TargetAt[price] <= TargetAt[p]
                           /\ \A s \in Sides : qty[s] <= TargetAt[p]
<1>1. PICK l \in Prices : qty["LONG"] <= TargetAt[l]
  BY TwoSides DEF Lots, WithinTarget
<1>2. PICK h \in Prices : qty["SHORT"] <= TargetAt[h]
  BY TwoSides DEF Lots, WithinTarget
<1>3. /\ TargetAt[l] \in Nat /\ TargetAt[h] \in Nat /\ TargetAt[price] \in Nat
      /\ qty["LONG"] \in Nat /\ qty["SHORT"] \in Nat
  BY LotsFacts, TwoSides DEF Lots
<1>4. \E p \in {l, h, price} : /\ TargetAt[l] <= TargetAt[p]
                               /\ TargetAt[h] <= TargetAt[p]
                               /\ TargetAt[price] <= TargetAt[p]
  BY <1>3
<1>5. PICK p \in {l, h, price} : /\ TargetAt[l] <= TargetAt[p]
                                 /\ TargetAt[h] <= TargetAt[p]
                                 /\ TargetAt[price] <= TargetAt[p]
  BY <1>4
<1>6. TargetAt[p] \in Nat
  BY <1>3
<1>7. /\ qty["LONG"] <= TargetAt[p] /\ qty["SHORT"] <= TargetAt[p]
  BY <1>1, <1>2, <1>3, <1>5, <1>6
<1> QED BY <1>5, <1>7 DEF Sides

LEMMA SoundPositions ==
  ASSUME NEW qty \in [Sides -> Lots]
  PROVE  qty \in Positions
BY LotsFacts DEF Positions

LEMMA OpeningQuoted ==
  ASSUME NEW b \in SoundBooks, NEW price \in Prices
  PROVE  LET q == Quoted(b, PlanOpening(TargetAt[price], 0, b.qty), price)
         IN q \in SoundBooks /\ q.qty = b.qty
<1>1. b.qty \in [Sides -> Lots] /\ b.qty \in Positions
  BY SoundPositions DEF SoundBooks, BookTypes
<1>2. PICK p \in Prices : /\ TargetAt[price] <= TargetAt[p]
                          /\ \A s \in Sides : b.qty[s] <= TargetAt[p]
  BY <1>1, LotsCapped
<1>3. TargetAt[price] \in Nat \ {0} /\ TargetAt[p] \in Nat
  BY LotsFacts
<1>4. PlanFits(PlanOpening(TargetAt[price], 0, b.qty), b.qty, TargetAt[p])
  BY <1>1, <1>2, <1>3, OpeningPlanFits
<1> QED BY <1>4, QuotedSound

LEMMA ReductionQuoted ==
  ASSUME NEW b \in SoundBooks, NEW price \in Prices
  PROVE  LET q == Quoted(b, RiskReductionPlan(b.qty), price)
         IN q \in SoundBooks /\ q.qty = b.qty
<1>1. b.qty \in Positions
  BY SoundPositions DEF SoundBooks, BookTypes
<1>2. TargetAt[price] \in Nat
  BY LotsFacts
<1>3. PlanFits(RiskReductionPlan(b.qty), b.qty, TargetAt[price])
  BY <1>1, <1>2, RiskPlanFits
<1> QED BY <1>3, QuotedSound

(* A match fills no more than remains.                                     *)
LEMMA SharesBounded ==
  ASSUME NEW remaining \in Nat,
         NEW d \in FillDeltas(remaining, FillNum, FillDen, MinFill)
  PROVE  d \in Nat /\ d <= remaining
BY FillAssumption DEF FillDeltas, Shares

(* Filling a part of an order keeps it covered or within the target.       *)
LEMMA FilledSlotFits ==
  ASSUME NEW slot \in Slots, NEW q \in Lots, SlotFits(slot, q),
         NEW d \in Nat, d <= slot.remaining
  PROVE  LET filled == IF slot.remaining = d THEN NoSlot
                       ELSE [slot EXCEPT !.remaining = @ - d]
             after == IF slot.reduceOnly THEN q - d ELSE q + d
         IN filled \in Slots /\ after \in Lots /\ SlotFits(filled, after)
<1> DEFINE filled == IF slot.remaining = d THEN NoSlot
                     ELSE [slot EXCEPT !.remaining = @ - d]
           after == IF slot.reduceOnly THEN q - d ELSE q + d
<1>1. q \in Nat /\ slot.remaining \in Nat /\ slot.reduceOnly \in BOOLEAN
  BY LotsFacts DEF Slots
<1>2. after \in Lots /\ after \in Nat
  <2>1. CASE slot.reduceOnly
    <3>1. q - d \in Nat /\ q - d <= q
      BY <1>1, <2>1 DEF SlotFits
    <3> QED BY <2>1, <3>1, LotsFacts
  <2>2. CASE ~slot.reduceOnly
    <3>1. q + d \in Nat /\ q + d <= q + slot.remaining
          /\ q + slot.remaining \in Lots
      BY <1>1, <2>2 DEF SlotFits
    <3> QED BY <2>2, <3>1, LotsFacts
  <2> QED BY <1>1, <2>1, <2>2
<1>3. CASE slot.remaining = d
  <2>1. filled = NoSlot
    BY <1>3
  <2> HIDE DEF filled, after
  <2>2. filled \in Slots /\ after \in Lots /\ SlotFits(filled, after)
    BY <1>2, <2>1 DEF Slots, SlotFits, NoSlot
  <2> QED BY <2>2 DEF filled, after
<1>4. CASE slot.remaining # d
  <2>1. /\ filled = [slot EXCEPT !.remaining = slot.remaining - d]
        /\ slot.remaining - d \in Nat \ {0}
    BY <1>1, <1>4
  <2> HIDE DEF filled
  <2>2. /\ filled \in Slots /\ filled.remaining = slot.remaining - d
        /\ filled.reduceOnly = slot.reduceOnly
    BY <2>1 DEF Slots
  <2>3. SlotFits(filled, after)
    <3>1. CASE slot.reduceOnly
      <4>1. after = q - d
        BY <3>1
      <4> QED BY <1>1, <2>1, <2>2, <3>1, <4>1 DEF SlotFits
    <3>2. CASE ~slot.reduceOnly
      <4>1. after = q + d
        BY <3>2
      <4>2. after + filled.remaining = q + slot.remaining
        BY <1>1, <2>2, <4>1
      <4> QED BY <1>1, <2>1, <2>2, <3>2, <4>2 DEF SlotFits
    <3> QED BY <1>1, <3>1, <3>2
  <2>4. filled \in Slots /\ after \in Lots /\ SlotFits(filled, after)
    BY <1>2, <2>2, <2>3
  <2> QED BY <2>4 DEF filled
<1> QED BY <1>3, <1>4

LEMMA AfterMatchCases ==
  ASSUME NEW b \in SoundBooks, NEW price \in Prices,
         NEW after \in AfterMatch(b, price)
  PROVE  \E d \in [Sides -> Nat] :
           /\ \A s \in Sides : /\ d[s] <= b.slot[s].remaining
                               /\ s \notin Matched(b, price) => d[s] = 0
           /\ after = Filled(b, d)
<1> DEFINE shares(s) ==
             IF s \in Matched(b, price)
               THEN FillDeltas(b.slot[s].remaining, FillNum, FillDen, MinFill)
               ELSE {0}
           some == UNION {shares(s) : s \in Sides}
<1>1. \A s \in Sides : b.slot[s].remaining \in Nat
  BY DEF SoundBooks, BookTypes, Slots
<1>2. PICK d \in [Sides -> some] : /\ \A s \in Sides : d[s] \in shares(s)
                                   /\ after = Filled(b, d)
  BY DEF AfterMatch
<1> HIDE DEF some
<1>3. ASSUME NEW s \in Sides
      PROVE  /\ d[s] \in Nat /\ d[s] <= b.slot[s].remaining
             /\ s \notin Matched(b, price) => d[s] = 0
  BY <1>1, <1>2, SharesBounded
<1>4. d \in [Sides -> Nat]
  BY <1>2, <1>3
<1> QED BY <1>2, <1>3, <1>4

(* A match keeps a lifecycle sound; without a hit nothing happens.         *)
LEMMA AfterMatchSound ==
  ASSUME NEW b \in SoundBooks, NEW price \in Prices,
         NEW after \in AfterMatch(b, price)
  PROVE  /\ after \in SoundBooks
         /\ after.age = b.age
         /\ Matched(b, price) = {} => after = b
<1>1. b \in BookTypes /\ SlotsFit(b) /\ (b.age = 0 \/ b.age < Timeout)
  BY DEF SoundBooks
<1>2. PICK d \in [Sides -> Nat] :
        /\ \A s \in Sides : /\ d[s] <= b.slot[s].remaining
                            /\ s \notin Matched(b, price) => d[s] = 0
        /\ after = Filled(b, d)
  BY AfterMatchCases
<1> DEFINE slots == [s \in Sides |->
                       IF b.slot[s].remaining = d[s] THEN NoSlot
                       ELSE [b.slot[s] EXCEPT !.remaining = @ - d[s]]]
           lots == [s \in Sides |->
                      IF b.slot[s].reduceOnly THEN b.qty[s] - d[s]
                                              ELSE b.qty[s] + d[s]]
<1>3. after = [b EXCEPT !.slot = slots, !.qty = lots]
  BY <1>2 DEF Filled
<1>4. ASSUME NEW s \in Sides
      PROVE  /\ slots[s] \in Slots /\ lots[s] \in Lots
             /\ SlotFits(slots[s], lots[s])
  <2>1. /\ b.slot[s] \in Slots /\ b.qty[s] \in Lots
        /\ SlotFits(b.slot[s], b.qty[s])
    BY <1>1 DEF BookTypes, SlotsFit
  <2>2. d[s] \in Nat /\ d[s] <= b.slot[s].remaining
    BY <1>2
  <2> QED BY <2>1, <2>2, FilledSlotFits
<1>5. slots \in [Sides -> Slots] /\ lots \in [Sides -> Lots]
  BY <1>4
<1>6. ASSUME Matched(b, price) = {}
      PROVE  slots = b.slot /\ lots = b.qty
  <2>1. \A s \in Sides : d[s] = 0
    BY <1>2, <1>6
  <2>2. ASSUME NEW s \in Sides
        PROVE  slots[s] = b.slot[s] /\ lots[s] = b.qty[s]
    <3>1. b.slot[s] \in Slots /\ b.qty[s] \in Nat /\ b.slot[s].remaining \in Nat
          /\ (b.slot[s].remaining = 0 => b.slot[s] = NoSlot)
      BY <1>1, LotsFacts DEF BookTypes, Slots, SlotsFit, SlotFits
    <3>2. lots[s] = b.qty[s]
      BY <2>1, <3>1
    <3>3. CASE b.slot[s].remaining = 0
      BY <2>1, <3>1, <3>3
    <3>4. CASE b.slot[s].remaining # 0
      <4>1. slots[s] = [b.slot[s] EXCEPT !.remaining = b.slot[s].remaining]
        BY <2>1, <3>1, <3>4
      <4> HIDE DEF slots
      <4> QED BY <3>1, <3>2, <4>1 DEF Slots
    <3> QED BY <3>2, <3>3, <3>4
  <2>3. b.slot \in [Sides -> Slots] /\ b.qty \in [Sides -> Lots]
    BY <1>1 DEF BookTypes
  <2> QED BY <1>5, <2>2, <2>3
<1> HIDE DEF slots, lots
<1>7. /\ after \in BookTypes /\ after.slot = slots /\ after.qty = lots
      /\ after.age = b.age
  BY <1>1, <1>3, <1>5 DEF BookTypes
<1>8. SlotsFit(after)
  BY <1>4, <1>7 DEF SlotsFit
<1>9. Matched(b, price) = {} => after = b
  BY <1>1, <1>3, <1>6 DEF BookTypes
<1> QED BY <1>1, <1>7, <1>8, <1>9 DEF SoundBooks

(* What is expired is empty; what is not due to expire may age.            *)
LEMMA ExpiredSound ==
  ASSUME NEW b \in BookTypes
  PROVE  Expired(b) \in SoundBooks /\ Expired(b).qty = b.qty
<1> DEFINE e == Expired(b)
           none == [s \in Sides |-> NoSlot]
           count == IF MaxRequotes > 0 THEN b.requotes + 1 ELSE 0
<1>1. none \in [Sides -> Slots] /\ \A s \in Sides : none[s] = NoSlot
  BY DEF NoSlot, Slots
<1>2. e = [b EXCEPT !.slot = none, !.age = 0, !.requotes = count]
  BY DEF Expired
<1>3. count \in Nat
  BY DEF BookTypes
<1> HIDE DEF e, none, count
<1>4. e \in BookTypes /\ e.slot = none /\ e.qty = b.qty /\ e.age = 0
  BY <1>1, <1>2, <1>3 DEF BookTypes
<1>5. ASSUME NEW s \in Sides
      PROVE  SlotFits(e.slot[s], e.qty[s])
  <2>1. b.qty[s] \in Lots
    BY DEF BookTypes
  <2>2. b.qty[s] \in Nat
    BY <2>1, LotsFacts
  <2>3. e.slot[s] = NoSlot /\ e.qty[s] = b.qty[s]
    BY <1>1, <1>4
  <2> QED BY <2>1, <2>2, <2>3 DEF SlotFits, NoSlot
<1>6. e \in SoundBooks /\ e.qty = b.qty
  BY <1>4, <1>5 DEF SoundBooks, SlotsFit
<1> QED BY <1>6 DEF e

LEMMA AgedSound ==
  ASSUME NEW b \in SoundBooks
  PROVE  /\ Aged(b) \in BookTypes
         /\ Aged(b).qty = b.qty /\ Aged(b).slot = b.slot
         /\ Aged(b).price = b.price /\ Aged(b).requotes = b.requotes
         /\ ~Overdue(Aged(b)) => Aged(b) \in SoundBooks
<1>1. b \in BookTypes /\ SlotsFit(b)
  BY DEF SoundBooks
<1>2. CASE Timeout > 0 /\ Working(b) # {}
  <2>1. Aged(b) = [b EXCEPT !.age = @ + 1]
    BY <1>2 DEF Aged
  <2>2. /\ Aged(b) \in BookTypes
        /\ Aged(b).qty = b.qty /\ Aged(b).slot = b.slot
        /\ Aged(b).price = b.price /\ Aged(b).requotes = b.requotes
    BY <1>1, <2>1 DEF BookTypes
  <2>3. SlotsFit(Aged(b)) /\ Working(Aged(b)) = Working(b)
    BY <1>1, <2>2 DEF SlotsFit, Working
  <2>4. Aged(b).age \in Nat /\ Timeout \in Nat
    BY <2>2, RequoteAssumption DEF BookTypes
  <2>5. ~Overdue(Aged(b)) => Aged(b).age < Timeout
    BY <1>2, <2>3, <2>4 DEF Overdue
  <2> QED BY <2>2, <2>3, <2>5 DEF SoundBooks
<1>3. CASE ~(Timeout > 0 /\ Working(b) # {})
  BY <1>1, <1>3 DEF Aged
<1> QED BY <1>2, <1>3

LEMMA NewBookSound ==
  ASSUME NEW qty \in [Sides -> Lots]
  PROVE  NewBook(qty) \in SoundBooks /\ NewBook(qty).qty = qty
<1> DEFINE none == [s \in Sides |-> NoSlot]
<1>1. none \in [Sides -> Slots] /\ \A s \in Sides : none[s] = NoSlot
  BY DEF NoSlot, Slots
<1>2. NewBook(qty) = [qty |-> qty, slot |-> none, price |-> 0, age |-> 0,
                      requotes |-> 0]
  BY DEF NewBook
<1> HIDE DEF none
<1>3. NewBook(qty) \in BookTypes
  BY <1>1, <1>2 DEF BookTypes
<1>4. ASSUME NEW s \in Sides
      PROVE  SlotFits(NewBook(qty).slot[s], NewBook(qty).qty[s])
  <2>1. qty[s] \in Lots
    OBVIOUS
  <2>2. qty[s] \in Nat
    BY <2>1, LotsFacts
  <2>3. NewBook(qty).slot[s] = NoSlot
    BY <1>1, <1>2
  <2> QED BY <1>2, <2>1, <2>2, <2>3 DEF SlotFits, NoSlot
<1> QED BY <1>2, <1>3, <1>4 DEF SoundBooks, SlotsFit

-----------------------------------------------------------------------------
(* Methods that change one part of the memory                              *)

LEMMA MemoryParts ==
  ASSUME NEW x, Sound(x)
  PROVE  /\ x \in Memories /\ x.phase = x.hedge.phase
         /\ x.hedge \in SoundHedges /\ x.bucket \in SoundBuckets
         /\ x.book \in SoundBooks /\ x.book.qty \in [Sides -> Lots]
         /\ x.hedge.qty \in [Sides -> Lots]
BY DEF Sound, Memories, SoundHedges, SoundBooks, BookTypes

(* Another lifecycle                                                       *)
LEMMA BookSet ==
  ASSUME NEW x, Sound(x), NEW b \in SoundBooks, NEW y,
         y = [x EXCEPT !.book = b]
  PROVE  /\ Sound(y) /\ y.book = b /\ y.phase = x.phase
         /\ y.pending = x.pending /\ y.hedge = x.hedge
         /\ y.bucket = x.bucket /\ y.log = x.log /\ y.last = x.last
<1>1. x \in Memories
  BY MemoryParts
<1>2. /\ y \in Memories /\ y.book = b /\ y.phase = x.phase
      /\ y.pending = x.pending /\ y.hedge = x.hedge
      /\ y.bucket = x.bucket /\ y.log = x.log /\ y.last = x.last
  BY <1>1 DEF Memories
<1> QED BY <1>2, MemoryParts, SoundUpdate

LEMMA SetPhaseSound ==
  ASSUME NEW x, Sound(x), NEW phase \in Phases \ {"IDLE", "TAKING_PROFIT"}
  PROVE  LET y == SetPhase(x, phase)
         IN /\ Sound(y) /\ y.phase = phase /\ y.pending = x.pending
            /\ y.hedge.qty = x.hedge.qty /\ y.book = x.book
            /\ y.bucket = x.bucket /\ y.log = x.log
<1> DEFINE y == SetPhase(x, phase)
           h == [x.hedge EXCEPT !.phase = phase]
<1>1. x \in Memories /\ x.hedge \in SoundHedges
  BY MemoryParts
<1>2. /\ h \in SoundHedges /\ h.phase = phase /\ h.qty = x.hedge.qty
      /\ h.closes = x.hedge.closes
  BY <1>1 DEF SoundHedges
<1>3. y = [x EXCEPT !.phase = phase, !.hedge = h]
  BY <1>1 DEF SetPhase, Memories
<1> HIDE DEF y, h
<1>4. /\ y \in Memories /\ y.phase = phase /\ y.pending = x.pending
      /\ y.hedge = h /\ y.book = x.book /\ y.bucket = x.bucket
      /\ y.log = x.log
  BY <1>1, <1>2, <1>3 DEF Memories
<1>5. Sound(y)
  BY <1>2, <1>4, SoundUpdate
<1> QED BY <1>2, <1>4, <1>5 DEF y, h

(* The quantities and the mark of the hedge are those of the lifecycle and *)
(* of the tick, and are saved.                                             *)
LEMMA SyncSound ==
  ASSUME NEW x, Sound(x), NEW price \in Prices
  PROVE  LET y == Sync(x, price)
         IN /\ Sound(y) /\ Saved(y)
            /\ y.phase = x.phase /\ y.pending = x.pending
            /\ y.hedge.qty = x.book.qty /\ y.book = x.book
<1> DEFINE h == [x.hedge EXCEPT !.qty = x.book.qty, !.mark = price]
           w == [x EXCEPT !.hedge = h]
<1>1. /\ x \in Memories /\ x.hedge \in SoundHedges
      /\ x.book.qty \in [Sides -> Lots] /\ x.phase = x.hedge.phase
  BY MemoryParts
<1>2. /\ h \in SoundHedges /\ h.qty = x.book.qty /\ h.phase = x.hedge.phase
      /\ h.closes = x.hedge.closes
  BY <1>1 DEF SoundHedges
<1>3. Sync(x, price) = Persist(w)
  BY <1>1 DEF Sync, Memories
<1> HIDE DEF h
<1>4. /\ w \in Memories /\ w.phase = x.phase /\ w.pending = x.pending
      /\ w.hedge = h /\ w.book = x.book /\ w.bucket = x.bucket
      /\ w.log = x.log
  BY <1>1, <1>2 DEF Memories
<1> HIDE DEF w
<1>5. Sound(w)
  BY <1>1, <1>2, <1>4, SoundUpdate
<1> QED BY <1>2, <1>3, <1>4, <1>5, PersistSound, PersistFields

LEMMA OpeningTickSound ==
  ASSUME NEW x, Sound(x), NEW price \in Prices
  PROVE  LET y == OpeningTick(x, price)
         IN /\ Sound(y) /\ Saved(y)
            /\ y.phase = x.phase /\ y.pending = x.pending
            /\ y.hedge.qty = y.book.qty
<1> DEFINE q == Quoted(x.book, PlanOpening(TargetAt[price], 0, x.book.qty),
                       price)
           w == [x EXCEPT !.book = q]
<1>1. x \in Memories /\ x.book \in SoundBooks
  BY MemoryParts
<1>2. q \in SoundBooks
  BY <1>1, OpeningQuoted
<1>3. OpeningTick(x, price) = Sync(w, price)
  BY <1>1 DEF OpeningTick, Memories
<1> HIDE DEF q
<1>4. Sound(w) /\ w.phase = x.phase /\ w.pending = x.pending
  BY <1>2, BookSet
<1> HIDE DEF w
<1> QED BY <1>3, <1>4, SyncSound

LEMMA HardRiskTickSound ==
  ASSUME NEW x, Sound(x), NEW price \in Prices
  PROVE  Sound(HardRiskTick(x, price))
<1> DEFINE q == Quoted(x.book, RiskReductionPlan(x.book.qty), price)
           w == [x EXCEPT !.book = q]
<1>1. x \in Memories /\ x.book \in SoundBooks
  BY MemoryParts
<1>2. q \in SoundBooks
  BY <1>1, ReductionQuoted
<1>3. HardRiskTick(x, price) = Sync(w, price)
  BY <1>1 DEF HardRiskTick, Memories
<1> HIDE DEF q
<1>4. Sound(w)
  BY <1>2, BookSet
<1> HIDE DEF w
<1> QED BY <1>3, <1>4, SyncSound

LEMMA SeededSound ==
  ASSUME NEW x, Sound(x)
  PROVE  /\ Sound(Seeded(x)) /\ Seeded(x).phase = x.phase
         /\ Seeded(x).pending = x.pending
         /\ x.hedge.qty = x.book.qty => Seeded(x) = x
<1>1. x.hedge.qty \in [Sides -> Lots]
  BY MemoryParts
<1>2. CASE Seeded(x) = x
  BY <1>2
<1>3. CASE /\ x.book.qty = Flat /\ x.hedge.qty # Flat
           /\ Seeded(x) = [x EXCEPT !.book = NewBook(x.hedge.qty)]
  <2>1. NewBook(x.hedge.qty) \in SoundBooks
    BY <1>1, NewBookSound
  <2> QED BY <1>3, <2>1, BookSet
<1> QED BY <1>2, <1>3 DEF Seeded

(* Fills set entry prices; only where there was none.                      *)
LEMMA EnteredSound ==
  ASSUME NEW x, Sound(x), NEW opened, NEW price \in Prices
  PROVE  LET y == Entered(x, opened, price)
         IN /\ Sound(y) /\ y.phase = x.phase /\ y.pending = x.pending
            /\ y.book = x.book
<1> DEFINE entries == [s \in Sides |-> IF s \in opened /\ x.hedge.entry[s] = 0
                                         THEN price ELSE x.hedge.entry[s]]
           h == [x.hedge EXCEPT !.entry = entries]
           y == Entered(x, opened, price)
<1>1. x \in Memories /\ x.hedge \in SoundHedges /\ x.phase = x.hedge.phase
  BY MemoryParts
<1>2. entries \in [Sides -> Prices \cup {0}]
  BY <1>1 DEF SoundHedges
<1>3. y = [x EXCEPT !.hedge = h]
  BY <1>1 DEF Memories, Entered
<1> HIDE DEF entries, y
<1>4. /\ h \in SoundHedges /\ h.phase = x.hedge.phase
      /\ h.closes = x.hedge.closes
  BY <1>1, <1>2 DEF SoundHedges
<1> HIDE DEF h
<1>5. /\ y \in Memories /\ y.phase = x.phase /\ y.pending = x.pending
      /\ y.hedge = h /\ y.book = x.book /\ y.bucket = x.bucket
      /\ y.log = x.log
  BY <1>1, <1>3, <1>4 DEF Memories
<1>6. Sound(y)
  BY <1>1, <1>4, <1>5, SoundUpdate
<1> QED BY <1>5, <1>6 DEF y

LEMMA HedgedSound ==
  ASSUME NEW x, Sound(x)
  PROVE  LET y == Hedged(x)
         IN /\ Sound(y) /\ y.phase = "HEDGED" /\ y.pending = "NONE"
            /\ y.book.qty = x.book.qty
<1>0. PICK z : z = SetPhase(x, "HEDGED")
  OBVIOUS
<1> DEFINE c == [x.book EXCEPT !.requotes = 0]
           y == Hedged(x)
<1>1. "HEDGED" \in Phases \ {"IDLE", "TAKING_PROFIT"} /\ "NONE" \in Pendings
  BY DEF Phases, Pendings
<1>2. Sound(z) /\ z.phase = "HEDGED" /\ z.book = x.book
  BY <1>1, <1>0, SetPhaseSound
<1>3. y = [z EXCEPT !.pending = "NONE", !.book = [z.book EXCEPT !.requotes = 0]]
  BY <1>0 DEF Hedged
<1> HIDE DEF y
<1>4. y = [z EXCEPT !.pending = "NONE", !.book = c]
  BY <1>2, <1>3
<1>5. c \in SoundBooks /\ c.qty = x.book.qty
  <2>1. x.book \in SoundBooks
    BY MemoryParts
  <2> QED BY <2>1 DEF SoundBooks, BookTypes, SlotsFit
<1> HIDE DEF c
<1>6. z \in Memories /\ z.phase = z.hedge.phase
  BY <1>2, MemoryParts
<1>7. /\ y \in Memories /\ y.phase = "HEDGED" /\ y.pending = "NONE"
      /\ y.hedge = z.hedge /\ y.book = c /\ y.bucket = z.bucket
      /\ y.log = z.log
  BY <1>1, <1>2, <1>4, <1>5, <1>6 DEF Memories
<1>8. Sound(y)
  BY <1>2, <1>6, <1>7, SoundUpdate
<1> QED BY <1>5, <1>7, <1>8 DEF y

(* An opening is complete only when both legs hold the target.             *)
LEMMA SettledSound ==
  ASSUME NEW x, Sound(x), NEW opened, NEW price \in Prices
  PROVE  /\ Sound(Settled(x, opened, price)) /\ Saved(Settled(x, opened, price))
         /\ x.phase = "OPENING_HEDGE" /\ x.pending = "NONE"
              => LegsFit(Settled(x, opened, price))
<1>1. PICK w : w = Entered(x, opened, price)
  OBVIOUS
<1>2. Sound(w) /\ w.phase = x.phase /\ w.pending = x.pending /\ w.book = x.book
  BY <1>1, EnteredSound
<1>3. PICK y : y = Settled(x, opened, price)
  OBVIOUS
<1>4. y = Sync(IF OpeningComplete(w, price) THEN Hedged(w) ELSE w, price)
  BY <1>1, <1>3 DEF Settled
<1>5. CASE OpeningComplete(w, price)
  <2>1. PICK d : d = Hedged(w)
    OBVIOUS
  <2>2. ASSUME NEW s \in Sides
        PROVE  w.book.qty[s] > 0
    <3>1. TargetAt[price] \in Nat \ {0}
      BY LotsFacts
    <3>2. w.book.qty[s] \in Nat
      BY <1>2, MemoryParts, LotsFacts
    <3>3. w.book.qty[s] >= TargetAt[price]
      BY <1>5 DEF OpeningComplete
    <3> QED BY <3>1, <3>2, <3>3
  <2>3. Sound(d) /\ d.phase = "HEDGED" /\ d.pending = "NONE"
        /\ d.book.qty = w.book.qty
    BY <1>2, <2>1, HedgedSound
  <2>4. /\ Sound(y) /\ Saved(y) /\ y.phase = "HEDGED" /\ y.pending = "NONE"
        /\ y.hedge.qty = w.book.qty
    BY <1>4, <1>5, <2>1, <2>3, SyncSound
  <2>5. LegsFit(y)
    BY <2>2, <2>4 DEF LegsFit
  <2> QED BY <1>3, <2>4, <2>5
<1>6. CASE ~OpeningComplete(w, price)
  <2>1. /\ Sound(y) /\ Saved(y) /\ y.phase = x.phase /\ y.pending = x.pending
        /\ y.hedge.qty = y.book.qty
    BY <1>2, <1>4, <1>6, SyncSound
  <2>2. x.phase = "OPENING_HEDGE" /\ x.pending = "NONE" => LegsFit(y)
    BY <2>1 DEF LegsFit
  <2> QED BY <1>3, <2>1, <2>2
<1> QED BY <1>5, <1>6

-----------------------------------------------------------------------------
(* _advance_dry_run_orders on the seeded memory w, with lifecycle b after  *)
(* the match and a once aged: its orders time out too often, are quoted    *)
(* anew or stay; what was hit then settles.                                *)
Requoted(w, price, advance, a, q) ==
  \/ q = OpeningTick([w EXCEPT !.book = Expired(a)], price)
  \/ q = [w EXCEPT !.book = a] /\ ~(advance /\ Overdue(a))

AdvancedTo(w, price, advance, b, opened, a, y) ==
  /\ a = IF advance THEN Aged(b) ELSE b
  /\ \/ y = Sync(SetPhase([w EXCEPT !.book = Expired(a)], "PAUSED"), price)
     \/ \E q : /\ Requoted(w, price, advance, a, q)
               /\ \/ y = q /\ Matched(w.book, price) = {}
                  \/ y = Settled(q, opened, price)

LEMMA AdvanceCases ==
  ASSUME NEW x, Sound(x), NEW price \in Prices, NEW advance \in BOOLEAN,
         NEW y \in Advance(x, price, advance), NEW w, w = Seeded(x)
  PROVE  \E b \in AfterMatch(w.book, price) : \E opened, a :
           AdvancedTo(w, price, advance, b, opened, a, y)
<1> DEFINE book == w.book
           hit == Matched(book, price)
           opened == {s \in hit : ~book.slot[s].reduceOnly}
           ages(b) == IF advance THEN Aged(b) ELSE b
           filled == {[w EXCEPT !.book = ages(b)] :
                        b \in AfterMatch(book, price)}
           overdue == {z \in filled : advance /\ Overdue(z.book)}
           expired == {Expire(z) : z \in overdue}
           givenUp == {z \in expired : GivesUp(z)}
           quoted == {OpeningTick(z, price) : z \in expired \ givenUp}
<1>1. w \in Memories
  BY SeededSound, MemoryParts
<1>2. ASSUME NEW b
      PROVE  /\ [w EXCEPT !.book = ages(b)].book = ages(b)
             /\ Expire([w EXCEPT !.book = ages(b)])
                  = [w EXCEPT !.book = Expired(ages(b))]
  BY <1>1 DEF Expire, Memories
<1>3. y \in {Sync(SetPhase(z, "PAUSED"), price) : z \in givenUp}
            \cup {IF hit = {} THEN z ELSE Settled(z, opened, price) :
                    z \in quoted \cup (filled \ overdue)}
  BY DEF Advance
<1>4. ASSUME NEW z \in expired
      PROVE  \E b \in AfterMatch(book, price) :
               z = [w EXCEPT !.book = Expired(ages(b))]
  <2>1. PICK f \in overdue : z = Expire(f)
    OBVIOUS
  <2>2. PICK b \in AfterMatch(book, price) : f = [w EXCEPT !.book = ages(b)]
    OBVIOUS
  <2> QED BY <1>2, <2>1, <2>2
<1>5. CASE y \in {Sync(SetPhase(z, "PAUSED"), price) : z \in givenUp}
  <2>1. PICK z \in expired : y = Sync(SetPhase(z, "PAUSED"), price)
    BY <1>5
  <2>2. PICK b \in AfterMatch(book, price) :
          z = [w EXCEPT !.book = Expired(ages(b))]
    BY <1>4
  <2> QED BY <2>1, <2>2 DEF AdvancedTo
<1>6. CASE y \in {IF hit = {} THEN z ELSE Settled(z, opened, price) :
                    z \in quoted \cup (filled \ overdue)}
  <2>1. PICK q \in quoted \cup (filled \ overdue) :
          y = IF hit = {} THEN q ELSE Settled(q, opened, price)
    BY <1>6
  <2>2. (y = q /\ hit = {}) \/ y = Settled(q, opened, price)
    BY <2>1
  <2>3. CASE q \in quoted
    <3>1. PICK z \in expired : q = OpeningTick(z, price)
      BY <2>3
    <3>2. PICK b \in AfterMatch(book, price) :
            z = [w EXCEPT !.book = Expired(ages(b))]
      BY <1>4
    <3> QED BY <2>2, <3>1, <3>2 DEF AdvancedTo, Requoted
  <2>4. CASE q \in filled \ overdue
    <3>1. PICK b \in AfterMatch(book, price) : q = [w EXCEPT !.book = ages(b)]
      BY <2>4
    <3>2. ~(advance /\ Overdue(ages(b)))
      BY <1>2, <2>4, <3>1
    <3> QED BY <2>2, <3>1, <3>2 DEF AdvancedTo, Requoted
  <2> QED BY <2>1, <2>3, <2>4
<1> QED BY <1>3, <1>5, <1>6

(* An opening that is advanced stays one, or both legs are held, or the    *)
(* runner pauses; and whatever fills is saved.                             *)
LEMMA AdvanceSound ==
  ASSUME NEW x, Sound(x), NEW price \in Prices, NEW advance \in BOOLEAN,
         NEW y \in Advance(x, price, advance)
  PROVE  /\ Sound(y)
         /\ x.phase = "OPENING_HEDGE" /\ LegsFit(x) /\ Saved(x)
              => LegsFit(y) /\ Saved(y)
<1>1. PICK w : w = Seeded(x)
  OBVIOUS
<1>2. /\ Sound(w) /\ w.phase = x.phase /\ w.pending = x.pending
      /\ x.hedge.qty = x.book.qty => w = x
  BY <1>1, SeededSound
<1>0. PICK b \in AfterMatch(w.book, price) :
        \E opened, a : AdvancedTo(w, price, advance, b, opened, a, y)
  BY <1>1, AdvanceCases
<1>3. PICK opened, a : AdvancedTo(w, price, advance, b, opened, a, y)
  BY <1>0
<1>4. b \in SoundBooks /\ (Matched(w.book, price) = {} => b = w.book)
  BY <1>2, MemoryParts, AfterMatchSound
<1>5. /\ a \in BookTypes /\ a.qty = b.qty /\ a.slot = b.slot
      /\ a.price = b.price /\ a.requotes = b.requotes
      /\ ~(advance /\ Overdue(a)) => a \in SoundBooks
  BY <1>3, <1>4, AgedSound DEF SoundBooks, AdvancedTo
<1>6. PICK e : e = [w EXCEPT !.book = Expired(a)]
  OBVIOUS
<1>7. Sound(e) /\ e.phase = x.phase /\ e.pending = x.pending
  BY <1>2, <1>5, <1>6, ExpiredSound, BookSet
<1>8. CASE y = Sync(SetPhase(e, "PAUSED"), price)
  <2>1. PICK z : z = SetPhase(e, "PAUSED")
    OBVIOUS
  <2>2. "PAUSED" \in Phases \ {"IDLE", "TAKING_PROFIT"}
    BY DEF Phases
  <2>3. Sound(z) /\ z.phase = "PAUSED"
    BY <1>7, <2>1, <2>2, SetPhaseSound
  <2>4. Sound(y) /\ Saved(y) /\ y.phase = "PAUSED"
    BY <1>8, <2>1, <2>3, SyncSound
  <2> QED BY <2>4 DEF LegsFit
<1>9. ASSUME NEW q, Requoted(w, price, advance, a, q),
             \/ y = q /\ Matched(w.book, price) = {}
             \/ y = Settled(q, opened, price)
      PROVE  /\ Sound(y)
             /\ x.phase = "OPENING_HEDGE" /\ LegsFit(x) /\ Saved(x)
                  => LegsFit(y) /\ Saved(y)
  <2>1. /\ Sound(q) /\ q.phase = x.phase /\ q.pending = x.pending
        /\ \/ Saved(q) /\ q.hedge.qty = q.book.qty
           \/ q.book = a /\ q.hedge = w.hedge /\ q.bucket = w.bucket
              /\ q.log = w.log
    <3>1. CASE q = OpeningTick(e, price)
      BY <1>7, <3>1, OpeningTickSound
    <3>2. CASE q = [w EXCEPT !.book = a] /\ a \in SoundBooks
      BY <1>2, <3>2, BookSet
    <3> QED BY <1>5, <1>6, <1>9, <3>1, <3>2 DEF Requoted
  <2>2. CASE y = Settled(q, opened, price)
    BY <2>1, <2>2, SettledSound DEF LegsFit
  <2>3. CASE y = q /\ Matched(w.book, price) = {}
    <3> SUFFICES ASSUME x.phase = "OPENING_HEDGE", LegsFit(x), Saved(x)
                 PROVE  LegsFit(y) /\ Saved(y)
      BY <2>1, <2>3
    <3>1. y.phase = "OPENING_HEDGE" /\ y.pending = "NONE" /\ w = x
      BY <1>2, <2>1, <2>3 DEF LegsFit
    <3>2. y.hedge.qty = y.book.qty /\ Saved(y)
      <4>1. CASE Saved(q) /\ q.hedge.qty = q.book.qty
        BY <2>3, <4>1
      <4>2. CASE q.book = a /\ q.hedge = w.hedge /\ q.bucket = w.bucket
                 /\ q.log = w.log
        BY <1>4, <1>5, <2>1, <2>3, <3>1, <4>2 DEF LegsFit, Saved
      <4> QED BY <2>1, <4>1, <4>2
    <3> QED BY <3>1, <3>2 DEF LegsFit
  <2> QED BY <1>9, <2>2, <2>3
<1> QED BY <1>3, <1>6, <1>8, <1>9 DEF AdvancedTo

-----------------------------------------------------------------------------
(* The steps of a cycle: each takes a good memory to good memories.        *)

Good(x) == Sound(x) /\ (crashes = 0 => LegsFit(x) /\ Saved(x))

LEMMA PersistGood ==
  ASSUME NEW x, Sound(x), crashes = 0 => LegsFit(x)
  PROVE  /\ Good(Persist(x))
         /\ Persist(x).phase = x.phase /\ Persist(x).pending = x.pending
         /\ Persist(x).hedge = x.hedge
<1>1. Sound(Persist(x)) /\ Saved(Persist(x))
  BY PersistSound
<1>2. /\ Persist(x).phase = x.phase /\ Persist(x).pending = x.pending
      /\ Persist(x).hedge = x.hedge /\ Persist(x).book = x.book
  BY PersistFields DEF Sound
<1>3. LegsFit(x) => LegsFit(Persist(x))
  BY <1>2 DEF LegsFit
<1> QED BY <1>1, <1>2, <1>3 DEF Good

LEMMA AdvanceGood ==
  ASSUME NEW x, Good(x), x.phase = "OPENING_HEDGE", NEW price \in Prices,
         NEW advance \in BOOLEAN, NEW y \in Advance(x, price, advance)
  PROVE  Good(y)
BY AdvanceSound DEF Good

(* PAUSED claims nothing of the legs.                                      *)
LEMMA PauseOnRiskGood ==
  ASSUME NEW x, Sound(x), NEW y \in PauseOnRisk(x)
  PROVE  Good(y)
<1> DEFINE mark == x.hedge.mark
           reduced == IF mark > 0
                        THEN UNION {Advance(z, mark, FALSE) :
                                      z \in {HardRiskTick(Seeded(x), mark)}}
                        ELSE {x}
<1>1. PICK r \in reduced : y = Persist(SetPhase(r, "PAUSED"))
  BY DEF PauseOnRisk
<1>2. Sound(r)
  <2>1. CASE mark > 0
    <3>1. mark \in Prices
      BY <2>1, MemoryParts DEF SoundHedges
    <3>2. r \in Advance(HardRiskTick(Seeded(x), mark), mark, FALSE)
      BY <2>1
    <3>3. Sound(HardRiskTick(Seeded(x), mark))
      BY <3>1, SeededSound, HardRiskTickSound
    <3> QED BY <3>1, <3>2, <3>3, AdvanceSound
  <2>2. CASE ~(mark > 0)
    BY <2>2
  <2> QED BY <2>1, <2>2
<1>3. PICK z : z = SetPhase(r, "PAUSED")
  OBVIOUS
<1>4. "PAUSED" \in Phases \ {"IDLE", "TAKING_PROFIT"}
  BY DEF Phases
<1>5. Sound(z) /\ z.phase = "PAUSED"
  BY <1>2, <1>3, <1>4, SetPhaseSound
<1>6. LegsFit(z)
  BY <1>5 DEF LegsFit
<1> QED BY <1>1, <1>3, <1>5, <1>6, PersistGood

(* What changes no phase, pending side or quantity keeps the claims about  *)
(* the legs.                                                               *)
LEMMA LegsKept ==
  ASSUME NEW x, NEW y, LegsFit(x), y.phase = x.phase, y.pending = x.pending,
         y.hedge.qty = x.hedge.qty, y.book = x.book
  PROVE  LegsFit(y)
BY DEF LegsFit

(* Another bucket with the same harvests                                   *)
LEMMA BucketSet ==
  ASSUME NEW x, Sound(x), NEW bucket \in SoundBuckets,
         bucket.harvests = x.bucket.harvests, NEW y,
         y = [x EXCEPT !.bucket = bucket]
  PROVE  /\ Sound(y) /\ (LegsFit(x) => LegsFit(y))
         /\ Saved(x) /\ bucket.buffered = x.bucket.buffered => Saved(y)
<1>1. x \in Memories /\ x.phase = x.hedge.phase
  BY MemoryParts
<1>2. /\ y \in Memories /\ y.phase = x.phase /\ y.pending = x.pending
      /\ y.hedge = x.hedge /\ y.bucket = bucket /\ y.book = x.book
      /\ y.log = x.log
  BY <1>1 DEF Memories
<1>3. Sound(y)
  BY <1>1, <1>2, SoundUpdate
<1> QED BY <1>2, <1>3, LegsKept DEF Saved

LEMMA RedeemTopupGood ==
  ASSUME NEW x, Good(x)
  PROVE  Good(RedeemTopup(x))
<1> DEFINE b == [x.bucket EXCEPT !.buffered = FALSE, !.ready = FALSE]
<1>1. x \in Memories /\ x.bucket \in SoundBuckets
  BY MemoryParts DEF Good
<1>2. PICK w : w = [x EXCEPT !.bucket = b]
  OBVIOUS
<1>3. RedeemTopup(x) = Persist(w)
  BY <1>1, <1>2 DEF RedeemTopup, Memories
<1>4. b \in SoundBuckets /\ b.harvests = x.bucket.harvests
  BY <1>1 DEF SoundBuckets
<1> HIDE DEF b
<1>5. Sound(w) /\ (LegsFit(x) => LegsFit(w))
  BY <1>2, <1>4, BucketSet DEF Good
<1> QED BY <1>3, <1>5, PersistGood DEF Good

LEMMA SweepGood ==
  ASSUME NEW x, Good(x), NEW risk, NEW y \in Sweep(x, risk)
  PROVE  Good(y)
<1>1. CASE y = x
  BY <1>1
<1>2. ASSUME NEW rest \in BOOLEAN,
             y = Persist([x EXCEPT !.bucket.buffered = rest])
      PROVE  Good(y)
  <2> DEFINE b == [x.bucket EXCEPT !.buffered = rest]
  <2>1. x \in Memories /\ x.bucket \in SoundBuckets
    BY MemoryParts DEF Good
  <2>2. PICK w : w = [x EXCEPT !.bucket = b]
    OBVIOUS
  <2>3. y = Persist(w)
    BY <1>2, <2>1, <2>2 DEF Memories
  <2>4. b \in SoundBuckets /\ b.harvests = x.bucket.harvests
    BY <2>1 DEF SoundBuckets
  <2> HIDE DEF b
  <2>5. Sound(w) /\ (LegsFit(x) => LegsFit(w))
    BY <2>2, <2>4, BucketSet DEF Good
  <2> QED BY <2>3, <2>5, PersistGood DEF Good
<1> QED BY <1>1, <1>2 DEF Sweep

(* Another hedge of the same closes                                        *)
WithHedge(x, hedge, pending) ==
  [x EXCEPT !.phase = hedge.phase, !.pending = pending, !.hedge = hedge]

LEMMA HedgeSet ==
  ASSUME NEW x, Sound(x), NEW hedge \in SoundHedges,
         hedge.closes = x.hedge.closes,
         hedge.phase = "IDLE" => x.hedge.phase = "IDLE",
         NEW pending \in Pendings, NEW y, y = WithHedge(x, hedge, pending)
  PROVE  /\ Sound(y) /\ y.phase = hedge.phase /\ y.pending = pending
         /\ y.hedge = hedge /\ y.bucket = x.bucket /\ y.book = x.book
         /\ y.log = x.log
<1>1. x \in Memories
  BY MemoryParts
<1>2. hedge.phase \in Phases
  BY DEF SoundHedges
<1>3. /\ y \in Memories /\ y.phase = hedge.phase /\ y.pending = pending
      /\ y.hedge = hedge /\ y.bucket = x.bucket /\ y.book = x.book
      /\ y.log = x.log
  BY <1>1, <1>2 DEF Memories, WithHedge
<1> QED BY <1>3, SoundUpdate

LEMMA MarkGood ==
  ASSUME NEW x, Good(x), NEW quote \in Prices \cup {0}
  PROVE  Good(MarkVirtualPositions(x, quote))
<1>1. CASE MarkVirtualPositions(x, quote) = x
  BY <1>1
<1>2. CASE MarkVirtualPositions(x, quote)
             = Persist([x EXCEPT !.hedge.mark = quote])
  <2> DEFINE h == [x.hedge EXCEPT !.mark = quote]
  <2>1. /\ x \in Memories /\ x.hedge \in SoundHedges
        /\ x.phase = x.hedge.phase /\ x.pending \in Pendings
    BY MemoryParts DEF Good, Memories
  <2>2. PICK w : w = WithHedge(x, h, x.pending)
    OBVIOUS
  <2>3. h.phase = x.phase
    BY <2>1 DEF SoundHedges
  <2>4. [x EXCEPT !.hedge.mark = quote] = w
    BY <2>1, <2>2, <2>3 DEF Memories, WithHedge
  <2>5. /\ h \in SoundHedges /\ h.qty = x.hedge.qty
        /\ h.closes = x.hedge.closes /\ h.phase = x.hedge.phase
    BY <2>1 DEF SoundHedges
  <2> HIDE DEF h
  <2>6. /\ Sound(w) /\ w.phase = h.phase /\ w.pending = x.pending
        /\ w.hedge = h /\ w.book = x.book
    BY <2>1, <2>2, <2>5, HedgeSet DEF Good
  <2>7. LegsFit(x) => LegsFit(w)
    BY <2>1, <2>5, <2>6, LegsKept
  <2> QED BY <1>2, <2>4, <2>6, <2>7, PersistGood DEF Good
<1> QED BY <1>1, <1>2 DEF MarkVirtualPositions

(* The leg that was closed is held again.                                  *)
LEMMA RestoreNowGood ==
  ASSUME NEW x, Good(x), NEW s \in Sides, x.phase = "REBALANCING",
         x.pending = s
  PROVE  Good(RestoreNow(x, s))
<1> DEFINE price == IF x.hedge.mark > 0 THEN x.hedge.mark ELSE x.last
           qty == [x.hedge.qty EXCEPT ![s] = TargetAt[price]]
           entry == [x.hedge.entry EXCEPT ![s] = price]
           h == [x.hedge EXCEPT !.qty = qty, !.entry = entry]
           back == [x EXCEPT !.hedge.qty[s] = TargetAt[price],
                             !.hedge.entry[s] = price, !.pending = "NONE"]
<1>1. /\ x \in Memories /\ x.hedge \in SoundHedges /\ x.phase = x.hedge.phase
      /\ x.hedge.qty \in [Sides -> Lots]
      /\ x.hedge.entry \in [Sides -> Prices \cup {0}]
      /\ price \in Prices \cup {0}
  BY MemoryParts DEF Good, Memories, SoundHedges
<1>2. CASE price = 0
  BY <1>2 DEF RestoreNow
<1>3. CASE price # 0
  <2>1. RestoreNow(x, s) = Persist(SetPhase(back, "HEDGED"))
    BY <1>3 DEF RestoreNow
  <2>2. PICK w : w = WithHedge(x, h, "NONE")
    OBVIOUS
  <2>3. h.phase = x.phase
    BY <1>1 DEF SoundHedges
  <2>4. back = w
    BY <1>1, <2>2, <2>3 DEF Memories, SoundHedges, WithHedge
  <2> HIDE DEF back
  <2>5. price \in Prices
    BY <1>1, <1>3
  <2> HIDE DEF price
  <2>6. TargetAt[price] \in Lots /\ TargetAt[price] > 0
    BY <2>5, LotsFacts
  <2>7. /\ qty \in [Sides -> Lots] /\ entry \in [Sides -> Prices \cup {0}]
        /\ qty[s] = TargetAt[price]
        /\ \A r \in Sides : r # s => qty[r] = x.hedge.qty[r]
    BY <1>1, <2>5, <2>6
  <2> HIDE DEF qty, entry
  <2>8. "HEDGED" \in Phases \ {"IDLE", "TAKING_PROFIT"} /\ "NONE" \in Pendings
    BY DEF Phases, Pendings
  <2>9. /\ h \in SoundHedges /\ h.phase = x.hedge.phase /\ h.qty = qty
        /\ h.closes = x.hedge.closes
    BY <1>1, <2>7 DEF SoundHedges
  <2> HIDE DEF h
  <2>10. Sound(w) /\ w.pending = "NONE" /\ w.hedge = h
    BY <2>2, <2>8, <2>9, HedgeSet DEF Good
  <2>11. PICK z : z = SetPhase(w, "HEDGED")
    OBVIOUS
  <2>12. /\ Sound(z) /\ z.phase = "HEDGED" /\ z.pending = "NONE"
         /\ z.hedge.qty = qty
    BY <2>8, <2>9, <2>10, <2>11, SetPhaseSound
  <2>13. LegsFit(x) => LegsFit(z)
    <3> SUFFICES ASSUME LegsFit(x), NEW r \in Sides
                 PROVE  qty[r] > 0
      BY <2>12 DEF LegsFit
    <3>1. CASE r = s
      BY <2>6, <2>7, <3>1
    <3>2. CASE r = Opposite(s)
      <4>1. x.hedge.qty[r] > 0
        BY <3>2 DEF LegsFit
      <4>2. r # s
        BY <3>2 DEF Opposite, Sides
      <4> QED BY <2>7, <4>1, <4>2
    <3> QED BY <3>1, <3>2 DEF Opposite, Sides
  <2> QED BY <2>1, <2>4, <2>11, <2>12, <2>13, PersistGood DEF Good
<1> QED BY <1>2, <1>3

LEMMA ReduceRiskGood ==
  ASSUME NEW x, Sound(x)
  PROVE  Good(ReduceRisk(x))
<1> DEFINE h == [x.hedge EXCEPT !.phase = "PAUSED"]
<1>1. x \in Memories /\ x.hedge \in SoundHedges /\ x.phase = x.hedge.phase
  BY MemoryParts
<1>2. PICK w : w = WithHedge(x, h, "NONE")
  OBVIOUS
<1>3. ReduceRisk(x) = Persist(w)
  BY <1>1, <1>2 DEF ReduceRisk, SetPhase, Memories, SoundHedges, WithHedge
<1>4. "PAUSED" \in Phases \ {"IDLE", "TAKING_PROFIT"} /\ "NONE" \in Pendings
  BY DEF Phases, Pendings
<1>5. /\ h \in SoundHedges /\ h.phase = "PAUSED"
      /\ h.closes = x.hedge.closes
  BY <1>1, <1>4 DEF SoundHedges
<1> HIDE DEF h
<1>6. Sound(w) /\ w.phase = "PAUSED"
  BY <1>2, <1>4, <1>5, HedgeSet
<1>7. LegsFit(w)
  BY <1>6 DEF LegsFit
<1> QED BY <1>3, <1>6, <1>7, PersistGood

LEMMA RebalanceGood ==
  ASSUME NEW x, Good(x), NEW s \in Sides, x.phase = "REBALANCING",
         x.pending = s, NEW risk, NEW y \in Rebalance(x, s, risk)
  PROVE  Good(y)
<1>1. PICK z \in (IF risk = "soft" THEN {ReduceRisk(x)}
                 ELSE {x, RestoreNow(x, s)}) :
        y = [z EXCEPT !.bucket.ready = z.phase = "HEDGED"]
  BY DEF Rebalance
<1>2. Good(z)
  BY <1>1, ReduceRiskGood, RestoreNowGood DEF Good
<1> DEFINE ready == z.phase = "HEDGED"
           b == [z.bucket EXCEPT !.ready = ready]
<1>3. z \in Memories /\ z.bucket \in SoundBuckets
  BY <1>2, MemoryParts DEF Good
<1>4. y = [z EXCEPT !.bucket = b]
  BY <1>1, <1>3 DEF Memories
<1>5. ready \in BOOLEAN
  OBVIOUS
<1> HIDE DEF ready
<1>6. /\ b \in SoundBuckets /\ b.harvests = z.bucket.harvests
      /\ b.buffered = z.bucket.buffered
  BY <1>3, <1>5 DEF SoundBuckets
<1> HIDE DEF b
<1> QED BY <1>2, <1>4, <1>6, BucketSet DEF Good

(* A harvest: the close is saved before its booking, and a crash between   *)
(* the two loses it.                                                       *)
LEMMA CloseLegSound ==
  ASSUME NEW x, Sound(x), x.phase = "HEDGED", NEW s \in Sides
  PROVE  LET y == CloseLeg(x, s)
         IN /\ y \in Memories /\ Chain(y.log)
            /\ Prior(y.log).hedge.closes = x.hedge.closes + 1
            /\ Prior(y.log).runtime.bucket.harvests = x.bucket.harvests
            /\ Prior(y.log).hedge.phase = "HEDGED"
            /\ y.hedge.closes = x.hedge.closes + 1
            /\ y.bucket = x.bucket /\ y.hedge.phase = "HEDGED"
            /\ y.hedge.qty[s] = 0
            /\ \A r \in Sides : r # s => y.hedge.qty[r] = x.hedge.qty[r]
<1> DEFINE qty == [x.hedge.qty EXCEPT ![s] = 0]
           n == x.hedge.closes + 1
           h == [x.hedge EXCEPT !.qty = qty, !.closes = n]
<1>1. /\ x \in Memories /\ x.hedge \in SoundHedges /\ x.hedge.phase = "HEDGED"
      /\ x.hedge.qty \in [Sides -> Lots] /\ x.hedge.closes \in Nat
      /\ x.bucket \in SoundBuckets /\ x.bucket.harvests \in Nat
  BY MemoryParts DEF SoundHedges, SoundBuckets
<1>2. PICK w : w = [x EXCEPT !.phase = "TAKING_PROFIT", !.hedge = h]
  OBVIOUS
<1>3. CloseLeg(x, s) = Persist(w)
  BY <1>1, <1>2 DEF CloseLeg, Memories, SoundHedges
<1>4. /\ qty \in [Sides -> Lots] /\ qty[s] = 0
      /\ \A r \in Sides : r # s => qty[r] = x.hedge.qty[r]
  BY <1>1, LotsFacts
<1>n. n \in Nat /\ n = x.hedge.closes + 1
  BY <1>1
<1> HIDE DEF qty, n
<1>5. /\ h \in SoundHedges /\ h.phase = "HEDGED" /\ h.qty = qty
      /\ h.closes = x.hedge.closes + 1
  BY <1>1, <1>4, <1>n DEF SoundHedges
<1> HIDE DEF h
<1>6. "TAKING_PROFIT" \in Phases
  BY DEF Phases
<1>7. /\ w \in Memories /\ w.hedge = h /\ w.bucket = x.bucket
      /\ w.log = x.log
  BY <1>1, <1>2, <1>5, <1>6 DEF Memories
<1>8. StartSound /\ crashes \in Nat /\ Chain(w.log)
  BY <1>7 DEF Sound, StartSound
<1>9. Ledger(h, x.bucket, crashes + 1)
  BY <1>1, <1>5, <1>8 DEF Sound, Ledger
<1>10. Ledger(h, Prior(x.log).runtime.bucket, crashes + 1)
  BY <1>1, <1>5, <1>9 DEF Sound, Booked, Ledger
<1>11. Tables(w).hedge = h /\ Tables(w).runtime.bucket = x.bucket
  BY <1>7 DEF Tables
<1>12. Follows(Prior(w.log), Tables(w))
  BY <1>7, <1>9, <1>10, <1>11 DEF Follows, LedgerOf
<1>13. Chain(Persist(w).log) /\ Prior(Persist(w).log) = Tables(w)
  BY <1>7, <1>8, <1>12, PersistAfter
<1>14. /\ Persist(w) \in Memories /\ Persist(w).hedge = h
       /\ Persist(w).bucket = x.bucket
  BY <1>7, PersistFields
<1> QED BY <1>3, <1>4, <1>5, <1>11, <1>13, <1>14

LEMMA CloseAndBookGood ==
  ASSUME NEW x, Good(x), x.phase = "HEDGED", NEW s \in Sides
  PROVE  /\ Good(CloseAndBook(x, s))
         /\ CloseAndBook(x, s).phase = "REBALANCING"
         /\ CloseAndBook(x, s).pending = s
<1>1. PICK c : c = CloseLeg(x, s)
  OBVIOUS
<1>2. /\ c \in Memories /\ Chain(c.log)
      /\ Prior(c.log).hedge.closes = x.hedge.closes + 1
      /\ Prior(c.log).runtime.bucket.harvests = x.bucket.harvests
      /\ Prior(c.log).hedge.phase = "HEDGED"
      /\ c.hedge.closes = x.hedge.closes + 1
      /\ c.bucket = x.bucket /\ c.hedge.phase = "HEDGED"
      /\ c.hedge.qty[s] = 0
      /\ \A r \in Sides : r # s => c.hedge.qty[r] = x.hedge.qty[r]
  BY <1>1, CloseLegSound DEF Good
<1> DEFINE b == [harvests |-> c.bucket.harvests + 1, buffered |-> TRUE,
                 ready |-> FALSE]
           h == [c.hedge EXCEPT !.phase = "REBALANCING"]
           z == SetPhase([c EXCEPT !.pending = s, !.bucket = b], "REBALANCING")
<1>3. CloseAndBook(x, s) = Persist(z)
  BY <1>1, <1>2 DEF CloseAndBook, Memories
<1>4. z = [c EXCEPT !.phase = "REBALANCING", !.pending = s, !.bucket = b,
                    !.hedge = h]
  BY <1>2 DEF SetPhase, Memories
<1> HIDE DEF z
<1>5. /\ c.hedge \in SoundHedges /\ x.hedge \in SoundHedges
      /\ x.bucket \in SoundBuckets
      /\ x.hedge.closes \in Nat /\ x.bucket.harvests \in Nat
  BY <1>2, MemoryParts DEF Memories, Good, SoundHedges, SoundBuckets
<1>6. "REBALANCING" \in Phases \ {"IDLE", "TAKING_PROFIT"} /\ s \in Pendings
  BY DEF Phases, Pendings
<1>7. b \in SoundBuckets /\ b.harvests = x.bucket.harvests + 1
  BY <1>2, <1>5 DEF SoundBuckets
<1> HIDE DEF b
<1>8. /\ h \in SoundHedges /\ h.phase = "REBALANCING" /\ h.qty = c.hedge.qty
      /\ h.closes = x.hedge.closes + 1
  BY <1>2, <1>5, <1>6 DEF SoundHedges
<1> HIDE DEF h
<1>9. /\ z \in Memories /\ z.phase = "REBALANCING" /\ z.pending = s
      /\ z.hedge = h /\ z.bucket = b /\ z.log = c.log /\ z.book = c.book
  BY <1>2, <1>4, <1>6, <1>7, <1>8 DEF Memories
<1>10. StartSound /\ crashes \in Nat /\ Ledger(x.hedge, x.bucket, crashes)
  BY DEF Good, Sound, StartSound
<1>11. Ledger(h, b, crashes) /\ Ledger(h, b, crashes + 1)
  BY <1>5, <1>7, <1>8, <1>10 DEF Ledger
<1>12. Ledger(h, Prior(c.log).runtime.bucket, crashes + 1)
  BY <1>2, <1>5, <1>8, <1>10 DEF Ledger
<1>13. Tables(z).hedge = h /\ Tables(z).runtime.bucket = b
  BY <1>9 DEF Tables
<1>14. Follows(Prior(z.log), Tables(z))
  BY <1>9, <1>11, <1>12, <1>13 DEF Follows, LedgerOf
<1>15. Chain(Persist(z).log) /\ Prior(Persist(z).log) = Tables(z)
  BY <1>2, <1>9, <1>10, <1>14, PersistAfter
<1>16. PICK y : y = Persist(z)
  OBVIOUS
<1>17. /\ y \in Memories /\ y.phase = "REBALANCING" /\ y.pending = s
       /\ y.hedge = h /\ y.bucket = b /\ Saved(y)
  BY <1>9, <1>16, PersistFields, PersistSaves
<1>18. Booked(y)
  BY <1>8, <1>13, <1>15, <1>16, <1>17 DEF Booked
<1>19. Sound(y)
  BY <1>8, <1>10, <1>11, <1>15, <1>16, <1>17, <1>18 DEF Sound
<1>20. LegsFit(x) => LegsFit(y)
  <2>1. Opposite(s) \in Sides /\ Opposite(s) # s
    BY DEF Opposite, Sides
  <2> QED BY <1>2, <1>8, <1>17, <2>1 DEF LegsFit
<1> QED BY <1>3, <1>16, <1>17, <1>19, <1>20 DEF Good

LEMMA TakeProfitGood ==
  ASSUME NEW x, Good(x), NEW quote, ProfitSides(x, quote) # {}, NEW risk,
         NEW y \in TakeProfit(x, quote, risk)
  PROVE  Good(y)
<1> DEFINE s == ProfitSide(x, quote)
           kept == Persist([SetPhase(x, "HEDGED") EXCEPT !.pending = "NONE"])
<1>1. x.phase = "HEDGED" /\ s \in Sides
  BY DEF ProfitSides, ProfitSide, Sides
<1>2. y \in {kept} \cup UNION {Rebalance(z, s, risk) :
                                 z \in {CloseAndBook(x, s)}}
  BY DEF TakeProfit
<1>3. CASE y = kept
  <2>1. PICK w : w = SetPhase(x, "HEDGED")
    OBVIOUS
  <2>2. "HEDGED" \in Phases \ {"IDLE", "TAKING_PROFIT"} /\ "NONE" \in Pendings
    BY DEF Phases, Pendings
  <2>3. /\ Sound(w) /\ w.phase = "HEDGED" /\ w.hedge.qty = x.hedge.qty
        /\ w.book = x.book
    BY <2>1, <2>2, SetPhaseSound DEF Good
  <2>4. w \in Memories /\ w.phase = w.hedge.phase /\ w.hedge \in SoundHedges
    BY <2>3, MemoryParts
  <2>5. PICK z : z = WithHedge(w, w.hedge, "NONE")
    OBVIOUS
  <2>6. z = [w EXCEPT !.pending = "NONE"]
    BY <2>4, <2>5 DEF WithHedge, Memories
  <2>7. /\ Sound(z) /\ z.phase = "HEDGED" /\ z.pending = "NONE"
        /\ z.hedge = w.hedge
    BY <2>2, <2>3, <2>4, <2>5, HedgeSet
  <2>8. LegsFit(x) => LegsFit(z)
    BY <1>1, <2>3, <2>7 DEF LegsFit
  <2> QED BY <1>3, <2>1, <2>6, <2>7, <2>8, PersistGood DEF Good
<1>4. CASE y \in Rebalance(CloseAndBook(x, s), s, risk)
  BY <1>1, <1>4, CloseAndBookGood, RebalanceGood
<1> QED BY <1>2, <1>3, <1>4

LEMMA HarvestGood ==
  ASSUME NEW x, Good(x), NEW quote, NEW risk, NEW y \in Harvest(x, quote, risk)
  PROVE  Good(y)
<1>1. CASE ProfitSides(x, quote) # {}
  BY <1>1, TakeProfitGood DEF Harvest
<1>2. CASE /\ x.phase = "REBALANCING" /\ x.pending # "NONE"
           /\ y \in Rebalance(x, x.pending, risk)
  <2>1. x.pending \in Sides
    BY <1>2, MemoryParts DEF Good, Memories, Pendings
  <2> QED BY <1>2, <2>1, RebalanceGood
<1>3. CASE y = x
  BY <1>3
<1> QED BY <1>1, <1>2, <1>3 DEF Harvest

(* A selection starts the books of a hedge at zero; the engine was IDLE.   *)
LEMMA OpenGood ==
  ASSUME NEW x, Good(x), x.phase = "IDLE", NEW quote \in Prices,
         NEW y \in Open(x, quote)
  PROVE  Good(y)
<1> DEFINE h == NewHedge("OPENING_HEDGE")
<1>1. PICK c : c = [x EXCEPT !.phase = "OPENING_HEDGE", !.hedge = h]
  OBVIOUS
<1>2. y \in Advance(OpeningTick(Persist(Persist(c)), quote), quote, FALSE)
  BY <1>1 DEF Open
<1>3. /\ x \in Memories /\ x.phase = x.hedge.phase
      /\ x.hedge.closes = 0 /\ x.bucket.harvests = 0
  BY MemoryParts DEF Good, Sound, Ledger
<1>4. "OPENING_HEDGE" \in Phases \ {"IDLE", "TAKING_PROFIT"}
  BY DEF Phases
<1>5. [s \in Sides |-> 0] \in [Sides -> Prices \cup {0}]
  OBVIOUS
<1>6. /\ h \in SoundHedges /\ h.phase = "OPENING_HEDGE" /\ h.closes = 0
  BY <1>4, <1>5, FlatLots DEF SoundHedges, NewHedge, Flat
<1> HIDE DEF h
<1>7. /\ c \in Memories /\ c.phase = "OPENING_HEDGE" /\ c.pending = x.pending
      /\ c.hedge = h /\ c.bucket = x.bucket /\ c.log = x.log
  BY <1>1, <1>3, <1>4, <1>6 DEF Memories
<1>8. Sound(c)
  BY <1>3, <1>6, <1>7, SoundUpdate DEF Good
<1>9. PICK p : p = Persist(Persist(c))
  OBVIOUS
<1>10. Sound(p) /\ p.phase = "OPENING_HEDGE" /\ p.pending = x.pending
  BY <1>7, <1>8, <1>9, PersistSound, PersistFields DEF Sound
<1>11. PICK t : t = OpeningTick(p, quote)
  OBVIOUS
<1>12. /\ Sound(t) /\ Saved(t) /\ t.phase = "OPENING_HEDGE"
       /\ t.pending = x.pending /\ t.hedge.qty = t.book.qty
  BY <1>10, <1>11, OpeningTickSound
<1>13. Good(t)
  BY <1>12 DEF Good, LegsFit
<1> QED BY <1>2, <1>9, <1>11, <1>12, <1>13, AdvanceGood

LEMMA FillOpeningGood ==
  ASSUME NEW x, Good(x), NEW quote \in Prices \cup {0},
         NEW y \in FillOpening(x, quote)
  PROVE  Good(y)
<1> DEFINE price == IF quote = 0 THEN x.last ELSE quote
<1>1. PICK seen : seen = [x EXCEPT !.last = price]
  OBVIOUS
<1>2. x \in Memories /\ x.phase = x.hedge.phase /\ price \in Prices \cup {0}
  BY MemoryParts DEF Good, Memories
<1>3. \/ y = seen
      \/ /\ seen.phase = "OPENING_HEDGE" /\ price # 0
         /\ y \in Advance(seen, price, TRUE)
  BY <1>1 DEF FillOpening
<1> HIDE DEF price
<1>4. /\ seen \in Memories /\ seen.phase = x.phase
      /\ seen.pending = x.pending /\ seen.hedge = x.hedge
      /\ seen.bucket = x.bucket /\ seen.book = x.book /\ seen.log = x.log
  BY <1>1, <1>2 DEF Memories
<1>5. Sound(seen)
  BY <1>2, <1>4, SoundUpdate DEF Good
<1>6. Good(seen)
  BY <1>4, <1>5 DEF Good, LegsFit, Saved
<1> QED BY <1>2, <1>3, <1>6, AdvanceGood

LEMMA SelectGood ==
  ASSUME NEW x, Good(x), NEW quote \in Prices \cup {0},
         NEW y \in Select(x, quote)
  PROVE  Good(y)
BY OpenGood DEF Select

LEMMA AccrueGood ==
  ASSUME NEW x, Good(x), NEW y \in Accrue(x)
  PROVE  Good(y)
BY PersistGood DEF Accrue, Good

LEMMA TopupGood ==
  ASSUME NEW x, Good(x), NEW risk, NEW y \in Topup(x, risk)
  PROVE  Good(y)
BY RedeemTopupGood DEF Topup

LEMMA PausedCycleGood ==
  ASSUME NEW x, Good(x), NEW y \in PausedCycle(x)
  PROVE  Good(y)
<1>1. PICK z \in Accrue(x) : y \in PauseOnRisk(z)
  BY DEF PausedCycle
<1> QED BY <1>1, AccrueGood, PauseOnRiskGood DEF Good

LEMMA TradedCycleGood ==
  ASSUME NEW x, Good(x), NEW quote \in Prices \cup {0}, NEW risk,
         NEW y \in TradedCycle(x, quote, risk)
  PROVE  Good(y)
<1> DEFINE toppedUp == UNION {Topup(z, risk) : z \in Accrue(x)}
           filled == UNION {FillOpening(z, quote) : z \in toppedUp}
           marked == {MarkVirtualPositions(z, quote) : z \in filled}
           harvested == UNION {Harvest(z, quote, risk) : z \in marked}
           swept == UNION {Sweep(z, risk) : z \in harvested}
<1>1. y \in UNION {Select(z, quote) : z \in swept}
  BY DEF TradedCycle
<1>2. \A z \in toppedUp : Good(z)
  BY AccrueGood, TopupGood
<1> HIDE DEF toppedUp
<1>3. \A z \in filled : Good(z)
  BY <1>2, FillOpeningGood
<1> HIDE DEF filled
<1>4. \A z \in marked : Good(z)
  BY <1>3, MarkGood
<1> HIDE DEF marked
<1>5. \A z \in harvested : Good(z)
  BY <1>4, HarvestGood
<1> HIDE DEF harvested
<1>6. \A z \in swept : Good(z)
  BY <1>5, SweepGood
<1> HIDE DEF swept
<1> QED BY <1>1, <1>6, SelectGood

-----------------------------------------------------------------------------
(* The invariant                                                           *)

LEMMA EmptyLog ==
  /\ << >> \in Seq(SoundTables) /\ Len(<< >>) = 0
  /\ Chain(<< >>) /\ Chain(<< >>)'
  /\ Prior(<< >>) = disk /\ Prior(<< >>)' = disk'
BY EmptySeq DEF Chain, Prior

LEMMA RestoredMemory ==
  ASSUME NEW t \in SoundTables
  PROVE  LET x == Restored(t)
         IN /\ x \in Memories /\ x.phase = x.hedge.phase /\ x.hedge = t.hedge
            /\ x.bucket = t.runtime.bucket /\ x.pending = t.runtime.pending
            /\ x.book = t.book /\ x.log = << >>
BY EmptySeq DEF Restored, SoundTables, Memories, SoundHedges

(* A memory with a sound saved state and no log                            *)
LEMMA FreshSound ==
  ASSUME NEW x \in Memories, x.phase = x.hedge.phase, x.log = << >>,
         StartSound, x.hedge = disk.hedge, x.bucket = disk.runtime.bucket
  PROVE  Sound(x)
BY EmptyLog DEF Sound, StartSound, LedgerOf, Booked, Ledger

LEMMA InitInv == ASSUME Init PROVE RunnerInv
<1>1. [s \in Sides |-> 0] \in [Sides -> Prices \cup {0}]
  OBVIOUS
<1>2. "IDLE" \in Phases \ {"TAKING_PROFIT"} /\ "NONE" \in Pendings
  BY DEF Phases, Pendings
<1>3. NewHedge("IDLE") \in SoundHedges
  BY <1>1, <1>2, FlatLots DEF NewHedge, SoundHedges, Flat
<1>4. NewBook(Flat) \in SoundBooks /\ NewBook(Flat).qty = Flat
  BY FlatLots, NewBookSound
<1>5. /\ m.phase = "IDLE" /\ m.pending = "NONE" /\ m.hedge = NewHedge("IDLE")
      /\ m.bucket = NewBucket /\ m.book = NewBook(Flat) /\ m.log = << >>
      /\ m \in Memories
  BY <1>2, <1>3, <1>4, EmptySeq
  DEF Init, NewMemory, Memories, NewBucket, SoundBuckets
<1>6. /\ disk \in SoundTables /\ disk.hedge = m.hedge
      /\ disk.runtime.bucket = m.bucket /\ disk.runtime.pending = m.pending
      /\ disk.book = m.book
  BY <1>5, TablesSound DEF Init, Tables
<1>7. /\ m.hedge.phase = "IDLE" /\ m.hedge.closes = 0
      /\ m.hedge.qty = Flat /\ m.bucket.harvests = 0
  BY <1>5 DEF NewHedge, NewBucket
<1>8. StartSound
  BY <1>6, <1>7 DEF Init, StartSound, LedgerOf, Ledger
<1>9. Sound(m)
  BY <1>5, <1>6, <1>7, <1>8, FreshSound
<1>10. LegsFit(m) /\ Saved(m)
  BY <1>5, <1>6, EmptyLog DEF LegsFit, Saved
<1> QED BY <1>5, <1>6, <1>7, <1>9, <1>10, BoundsAssumption DEF RunnerInv, Init

LEMMA InvGood == ASSUME RunnerInv PROVE Good(m)
BY DEF RunnerInv, Good

LEMMA PriorLedger ==
  ASSUME NEW x, Sound(x)
  PROVE  LedgerOf(Prior(x.log), crashes)
<1>1. /\ x.log \in Seq(SoundTables) /\ crashes \in Nat
      /\ Len(x.log) \in Nat /\ (x.log = << >> <=> Len(x.log) = 0)
  BY LenProperties, EmptySeq DEF Sound, StartSound, Memories
<1>2. CASE x.log = << >>
  BY <1>2 DEF Prior, Sound, StartSound
<1>3. CASE x.log # << >>
  <2>1. Len(x.log) \in 1..Len(x.log) /\ Prior(x.log) = x.log[Len(x.log)]
    BY <1>1, <1>3 DEF Prior
  <2>2. LedgerOf(Prior(x.log), crashes + 1)
    BY <2>1 DEF Sound, Chain, Follows
  <2> QED BY <2>2 DEF Sound, Booked, LedgerOf, Ledger
<1> QED BY <1>2, <1>3

(* A cycle ends with what it saved last on the disk.                       *)
LEMMA EndsInv ==
  ASSUME RunnerInv, NEW x, Good(x), Ends(x)
  PROVE  RunnerInv'
<1>1. /\ x \in Memories /\ x.phase = x.hedge.phase /\ StartSound
      /\ x.log \in Seq(SoundTables) /\ crashes \in Nat
  BY DEF Good, Sound, StartSound, Memories
<1>2. /\ m' \in Memories /\ m'.phase = x.phase /\ m'.pending = x.pending
      /\ m'.hedge = x.hedge /\ m'.bucket = x.bucket /\ m'.book = x.book
      /\ m'.log = << >>
  BY <1>1, EmptySeq DEF Ends, Memories
<1>3. disk' = Prior(x.log) /\ crashes' = crashes
  BY DEF Ends, Prior
<1>4. disk' \in SoundTables /\ LedgerOf(disk', crashes)
  BY <1>1, <1>3, PriorSound, PriorLedger DEF Good
<1>5. StartSound'
  BY <1>1, <1>3, <1>4 DEF StartSound, LedgerOf
<1>6. Ledger(m'.hedge, m'.bucket, crashes')
  BY <1>2, <1>3 DEF Good, Sound
<1>7. Booked(m)'
  BY <1>2, <1>3, EmptyLog DEF Good, Sound, Booked, Prior
<1>8. Sound(m)'
  BY <1>1, <1>2, <1>5, <1>6, <1>7, EmptyLog DEF Sound
<1>9. crashes' = 0 => LegsFit(m)' /\ Saved(m)'
  BY <1>2, <1>3 DEF Good, LegsFit, Saved, Prior
<1>10. /\ m'.bucket.harvests <= MaxHarvests
       /\ disk'.runtime.bucket.harvests <= MaxHarvests
  BY <1>2, <1>3 DEF Ends, Good, Sound, Booked
<1> QED BY <1>2, <1>3, <1>8, <1>9, <1>10 DEF RunnerInv

LEMMA RestartInv == ASSUME RunnerInv, Restart PROVE RunnerInv'
<1>1. /\ m' = Restored(disk) /\ disk' = disk /\ crashes' = crashes
      /\ StartSound /\ disk \in SoundTables
  BY DEF Restart, RunnerInv, Sound, StartSound
<1>2. /\ m' \in Memories /\ m'.phase = m'.hedge.phase
      /\ m'.hedge = disk.hedge /\ m'.bucket = disk.runtime.bucket
      /\ m'.pending = disk.runtime.pending /\ m'.book = disk.book
      /\ m'.log = << >>
  BY <1>1, RestoredMemory
<1>3. Sound(m')
  BY <1>1, <1>2, FreshSound
<1>4. Sound(m)'
  BY <1>1, <1>3 DEF Sound, StartSound, Chain, Follows, Before, Booked, Prior
<1>5. crashes = 0 => LegsFit(m)' /\ Saved(m)'
  BY <1>1, <1>2 DEF RunnerInv, Sound, LegsFit, Saved, Prior
<1> QED BY <1>1, <1>2, <1>4, <1>5 DEF RunnerInv

(* What a crash leaves: the hedge of the kth save or of the one before,    *)
(* with the runtime of either but no older hedge.                          *)
LEMMA CommittedSound ==
  ASSUME NEW x, Sound(x), NEW k \in DOMAIN x.log, NEW j \in 0..2
  PROVE  LET t == Committed(Before(x.log, k), x.log[k], j)
         IN t \in SoundTables /\ LedgerOf(t, crashes + 1)
<1>1. /\ x.log \in Seq(SoundTables) /\ StartSound /\ crashes \in Nat
      /\ Chain(x.log) /\ DOMAIN x.log = 1..Len(x.log) /\ Len(x.log) \in Nat
  BY LenProperties DEF Sound, StartSound, Memories
<1>2. PICK t : t = Before(x.log, k)
  OBVIOUS
<1>3. PICK u : u = x.log[k]
  OBVIOUS
<1>4. Follows(t, u) /\ u \in SoundTables
  BY <1>1, <1>2, <1>3, ElementOfSeq DEF Chain
<1>5. t \in SoundTables /\ LedgerOf(t, crashes + 1)
  <2>1. CASE k = 1
    <3>1. t = disk
      BY <1>2, <2>1 DEF Before
    <3>2. disk.hedge \in SoundHedges /\ disk.runtime.bucket \in SoundBuckets
      BY <1>1 DEF StartSound, SoundTables
    <3> QED BY <1>1, <3>1, <3>2, LedgerLosesMore DEF StartSound, LedgerOf
  <2>2. CASE k # 1
    <3>1. k - 1 \in 1..Len(x.log) /\ t = x.log[k - 1]
      BY <1>1, <1>2, <2>2 DEF Before
    <3> QED BY <1>1, <3>1, ElementOfSeq DEF Chain, Follows
  <2> QED BY <2>1, <2>2
<1>6. PICK c : c = Committed(t, u, j)
  OBVIOUS
<1>7. /\ c \in SoundTables
      /\ \/ c.hedge = t.hedge /\ c.runtime = t.runtime
         \/ c.hedge = u.hedge /\ c.runtime = t.runtime
         \/ c.hedge = u.hedge /\ c.runtime = u.runtime
  BY <1>4, <1>5, <1>6 DEF Committed, SoundTables
<1>8. LedgerOf(c, crashes + 1)
  BY <1>4, <1>5, <1>7 DEF LedgerOf, Follows
<1> QED BY <1>2, <1>3, <1>6, <1>7, <1>8

LEMMA LogsGood ==
  ASSUME RunnerInv, NEW log \in Logs
  PROVE  \E x : Good(x) /\ x.log = log
<1>1. Good(m)
  BY InvGood
<1> DEFINE traded == UNION {TradedCycle(m, q, r) : q \in Prices \cup {0},
                                                  r \in Risks \ {"hard"}}
           paused == IF "hard" \in Risks THEN PausedCycle(m) ELSE {}
<1>2. PICK x \in traded \cup paused : log = x.log
  BY DEF Logs
<1>3. x \in PausedCycle(m) => Good(x)
  BY <1>1, PausedCycleGood
<1>4. ASSUME NEW q \in Prices \cup {0}, NEW r, x \in TradedCycle(m, q, r)
      PROVE  Good(x)
  BY <1>1, <1>4, TradedCycleGood
<1>5. \/ x \in PausedCycle(m)
      \/ \E q \in Prices \cup {0}, r \in Risks \ {"hard"} :
           x \in TradedCycle(m, q, r)
  BY <1>2
<1>6. Good(x)
  BY <1>3, <1>4, <1>5
<1> QED BY <1>2, <1>6

LEMMA CrashInv == ASSUME RunnerInv, Crash PROVE RunnerInv'
<1>0. PICK log \in Logs : \E k \in DOMAIN log, j \in 0..2 :
        disk' = Committed(Before(log, k), log[k], j)
  BY DEF Crash, Before
<1>1. PICK k \in DOMAIN log, j \in 0..2 :
        disk' = Committed(Before(log, k), log[k], j)
  BY <1>0
<1>2. PICK x : Good(x) /\ x.log = log
  BY LogsGood
<1>3. disk' \in SoundTables /\ LedgerOf(disk', crashes + 1)
  BY <1>1, <1>2, CommittedSound DEF Good
<1>4. /\ crashes \in Nat /\ crashes' = crashes + 1 /\ crashes < MaxCrashes
      /\ m' = Restored(disk') /\ disk'.runtime.bucket.harvests <= MaxHarvests
  BY DEF Crash, RunnerInv, Sound, StartSound
<1>5. StartSound'
  BY <1>3, <1>4 DEF StartSound, LedgerOf
<1>6. /\ m' \in Memories /\ m'.phase = m'.hedge.phase
      /\ m'.hedge = disk'.hedge /\ m'.bucket = disk'.runtime.bucket
      /\ m'.log = << >>
  BY <1>3, <1>4, RestoredMemory
<1>7. Sound(m)'
  BY <1>5, <1>6, EmptyLog DEF Sound, StartSound, LedgerOf, Booked, Ledger, Prior
<1>8. crashes' <= MaxCrashes /\ crashes' # 0
  BY <1>4, BoundsAssumption
<1> QED BY <1>4, <1>6, <1>7, <1>8 DEF RunnerInv

LEMMA StutterInv == ASSUME RunnerInv, UNCHANGED vars PROVE RunnerInv'
<1>1. m' = m /\ disk' = disk /\ crashes' = crashes
  BY DEF vars
<1> QED BY <1>1
  DEF RunnerInv, Sound, StartSound, LedgerOf, Ledger, Chain, Follows, Before,
      Booked, LegsFit, Saved, Prior

-----------------------------------------------------------------------------
(* The invariant holds after every cycle, restart and crash: whatever the  *)
(* methods of a cycle leave behind is sound, what they save one after      *)
(* another may be cut off anywhere, and as long as it never was the phase  *)
(* tells what is held and what is held is saved.                           *)
THEOREM RunnerInvariant == Spec => []RunnerInv
<1>1. Init => RunnerInv
  BY InitInv
<1>2. RunnerInv /\ [Next]_vars => RunnerInv'
  <2> SUFFICES ASSUME RunnerInv, [Next]_vars PROVE RunnerInv'
    OBVIOUS
  <2>1. CASE Pause
    <3>1. PICK x \in PausedCycle(m) : Ends(x)
      BY <2>1 DEF Pause
    <3> QED BY <3>1, InvGood, PausedCycleGood, EndsInv
  <2>2. ASSUME NEW quote \in Prices \cup {0}, NEW risk \in Risks \ {"hard"},
               Trade(quote, risk)
        PROVE  RunnerInv'
    <3>1. PICK x \in TradedCycle(m, quote, risk) : Ends(x)
      BY <2>2 DEF Trade
    <3> QED BY <3>1, InvGood, TradedCycleGood, EndsInv
  <2>3. CASE Restart
    BY <2>3, RestartInv
  <2>4. CASE Crash
    BY <2>4, CrashInv
  <2>5. CASE UNCHANGED vars
    BY <2>5, StutterInv
  <2> QED BY <2>1, <2>2, <2>3, <2>4, <2>5 DEF Next
<1> QED BY <1>1, <1>2, PTL DEF Spec

(* Memory and tables have their types.                                     *)
LEMMA InvTypes == ASSUME RunnerInv PROVE TypeOK
<1>1. /\ m \in Memories /\ m.phase = m.hedge.phase /\ m.log = << >>
      /\ disk \in SoundTables /\ crashes \in Nat
  BY DEF RunnerInv, Sound, StartSound
<1>2. \A h \in SoundHedges : h \in Hedges
  BY SoundPositions DEF SoundHedges, Hedges
<1>3. ASSUME NEW b \in SoundBuckets, b.harvests <= MaxHarvests
      PROVE  b \in Buckets
  BY <1>3, BoundsAssumption DEF SoundBuckets, Buckets
<1>4. ASSUME NEW b \in SoundBooks
      PROVE  b \in Books
  <2>1. b.age \in 0..Timeout
    BY RequoteAssumption DEF SoundBooks, BookTypes
  <2>2. b.qty \in Positions
    BY SoundPositions DEF SoundBooks, BookTypes
  <2> QED BY <2>1, <2>2 DEF SoundBooks, BookTypes, Books, Slots
<1>5. /\ m.hedge \in Hedges /\ m.bucket \in Buckets /\ m.book \in Books
      /\ m.phase \in Phases \ {"TAKING_PROFIT"} /\ m.pending \in Pendings
  BY <1>1, <1>2, <1>3, <1>4 DEF RunnerInv, Memories, SoundHedges
<1>6. /\ disk.hedge \in Hedges /\ disk.runtime.bucket \in Buckets
      /\ disk.book \in Books /\ disk.runtime.pending \in Pendings
  BY <1>1, <1>2, <1>3, <1>4 DEF RunnerInv, SoundTables
<1>7. m \in [phase : Phases \ {"TAKING_PROFIT"}, pending : Sides \cup {"NONE"},
             hedge : Hedges, bucket : Buckets, book : Books,
             last : Prices \cup {0}, log : {<< >>}]
  BY <1>1, <1>5 DEF Memories, Pendings
<1>8. disk \in [hedge : Hedges, book : Books,
               runtime : [bucket : Buckets, pending : Sides \cup {"NONE"}]]
  BY <1>1, <1>6 DEF SoundTables, Pendings
<1>9. crashes \in 0..MaxCrashes
  BY <1>1, BoundsAssumption DEF RunnerInv
<1> QED BY <1>7, <1>8, <1>9 DEF TypeOK

THEOREM TypeCorrect == Spec => []TypeOK
BY RunnerInvariant, InvTypes, PTL

(* As long as no crash separated two commits, the phase tells what is      *)
(* held, over any sequence of cycles and restarts.                         *)
THEOREM PhasesMatchLegs == Spec => []PhaseMatchesLegs
<1>1. RunnerInv => PhaseMatchesLegs
  BY DEF RunnerInv, Sound, LegsFit, PhaseMatchesLegs
<1> QED BY <1>1, RunnerInvariant, PTL

(* Every path through a cycle ends in a save of what it changed.           *)
THEOREM StateIsSaved == Spec => []SavedBetweenCycles
<1>1. ASSUME RunnerInv, crashes = 0
      PROVE  /\ disk.hedge = m.hedge /\ disk.runtime.pending = m.pending
             /\ disk.runtime.bucket
                  = [m.bucket EXCEPT !.ready = disk.runtime.bucket.ready]
             /\ disk.book = [m.book EXCEPT !.age = disk.book.age]
  <2>1. /\ Saved(m) /\ m.log = << >> /\ m \in Memories /\ disk \in SoundTables
    BY <1>1 DEF RunnerInv, Sound, StartSound
  <2>2. m.bucket \in SoundBuckets /\ disk.runtime.bucket \in SoundBuckets
    BY <2>1 DEF Memories, SoundTables
  <2>3. m.book \in BookTypes /\ disk.book \in BookTypes
    BY <2>1 DEF Memories, SoundTables, SoundBooks
  <2>4. disk.runtime.bucket
          = [m.bucket EXCEPT !.ready = disk.runtime.bucket.ready]
    BY <2>1, <2>2 DEF Saved, Prior, SoundBuckets
  <2>5. disk.book = [m.book EXCEPT !.age = disk.book.age]
    BY <2>1, <2>3 DEF Saved, Prior, BookTypes
  <2> QED BY <2>1, <2>4, <2>5 DEF Saved, Prior
<1>2. RunnerInv => SavedBetweenCycles
  BY <1>1 DEF SavedBetweenCycles
<1> QED BY <1>2, RunnerInvariant, PTL

(* No leg, with what works to open it, exceeds the largest target, however *)
(* prices move, orders time out and crashes mix what is saved.             *)
THEOREM ExposureStaysBounded == Spec => []ExposureBounded
<1>1. ASSUME RunnerInv, NEW s \in Sides
      PROVE  /\ WithinTarget(m.hedge.qty[s])
             /\ WithinTarget(m.book.qty[s])
             /\ ~m.book.slot[s].reduceOnly
                  => WithinTarget(m.book.qty[s] + m.book.slot[s].remaining)
  <2>1. m.hedge \in SoundHedges /\ m.book \in BookTypes /\ SlotsFit(m.book)
    BY <1>1 DEF RunnerInv, Sound, Memories, SoundBooks
  <2>2. m.hedge.qty[s] \in Lots /\ m.book.qty[s] \in Lots
    BY <2>1 DEF SoundHedges, BookTypes
  <2>3. ~m.book.slot[s].reduceOnly
          => m.book.qty[s] + m.book.slot[s].remaining \in Lots
    BY <2>1 DEF SlotsFit, SlotFits
  <2> QED BY <2>2, <2>3 DEF Lots
<1>2. RunnerInv => ExposureBounded
  BY <1>1 DEF ExposureBounded
<1> QED BY <1>2, RunnerInvariant, PTL

(* A harvest is booked only after its close is saved; each crash between   *)
(* the two loses at most one.                                              *)
THEOREM HarvestsAreBacked == Spec => []HarvestsBackedByCloses
<1>1. RunnerInv => HarvestsBackedByCloses
  BY DEF RunnerInv, Sound, Ledger, HarvestsBackedByCloses
<1> QED BY <1>1, RunnerInvariant, PTL
=============================================================================
