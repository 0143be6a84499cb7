--------------------------- MODULE LiveHedgeProofs ---------------------------
(***************************************************************************)
(* Proofs about LiveHedge, for any number of symbols, lives, retries and   *)
(* failures: the types, that no phase is orphaned, that a leg counted as   *)
(* filled is held, and that what is held is explained.  The last one needs *)
(* a budget (BudgetInv): a unit may be bought once for each opening,       *)
(* restore and report of a failure that is yet to come.                    *)
(***************************************************************************)
EXTENDS LiveHedge, SequenceTheorems, FiniteSetTheorems, TLAPS

(* An order for a leg that is reported as filled.                          *)
Queued(s) == \E i \in 1..Len(stream.reports) :
               stream.reports[i] = [kind |-> "filled", side |-> s]

(* What makes the memory count on a leg, now or later: it is filled, will  *)
(* be reported, is pending, or is about to be booked as closed.            *)
Counts(s) == \/ memory.filled[s]
             \/ Queued(s)
             \/ memory.pending = s
             \/ main.step = "book" /\ main.side = s

CountedIsHeld ==
  \A s \in Sides \ closed : Counts(s) => held[memory.symbol][s] > 0

(* Without a symbol nothing was ordered.                                   *)
Quiet ==
  memory.symbol = NoSymbol
    => /\ \A s \in Sides : ~memory.filled[s]
       /\ memory.pending = "NONE"
       /\ memory.phase \in {"IDLE", "PAUSED"}
       /\ main.step \in {"down", "cycle"}
       /\ stream.reports = << >>
       /\ handler = NoOrder
       /\ closed = {}

DownIsNew == main.step = "down" => memory = NewMemory

IdleIsQuiet == memory.phase = "IDLE" => memory.symbol = NoSymbol

(* While a leg is being closed only a fill can have changed the phase.     *)
Closing ==
  main.step \in {"close", "book"}
    => \/ memory.phase = "TAKING_PROFIT"
       \/ memory.phase = "HEDGED" /\ \A s \in Sides : memory.filled[s]

HedgedIsFilled ==
  memory.phase = "HEDGED"
    => \A s \in Sides : memory.filled[s] \/ memory.pending = s

HedgeInv == /\ TypeOK /\ Quiet /\ DownIsNew /\ IdleIsQuiet /\ Closing
            /\ NoPhaseIsOrphaned /\ HedgedIsFilled /\ CountedIsHeld

-----------------------------------------------------------------------------
(* The parts of TypeOK by name                                             *)

Memories == [phase : Phases, symbol : Symbols \cup {NoSymbol},
             filled : [Sides -> BOOLEAN], pending : Sides \cup {"NONE"},
             failed : [Sides -> BOOLEAN]]
Places == [step : Steps, side : Sides]
Streams == [state : {"connecting", "up", "ended"}, retries : Nat,
            reports : Seq(Reports)]
Holdings == [Symbols -> [Sides -> Nat]]
Counters == [lives : Nat, failures : Nat, harvests : Nat, restores : Nat]

LEMMA TypeParts ==
  TypeOK => /\ store \in Stores /\ memory \in Memories /\ main \in Places
            /\ stream \in Streams /\ handler \in Orders
            /\ saved \in Symbols \cup {NoSymbol} /\ held \in Holdings
            /\ closed \subseteq Sides /\ surplus \in [Sides -> Nat]
            /\ counts \in Counters
BY DEF TypeOK, Memories, Places, Streams, Holdings, Counters

LEMMA TypesAfter ==
  ASSUME store' \in Stores, memory' \in Memories, main' \in Places,
         stream' \in Streams, handler' \in Orders,
         saved' \in Symbols \cup {NoSymbol}, held' \in Holdings,
         closed' \subseteq Sides, surplus' \in [Sides -> Nat],
         counts' \in Counters
  PROVE  TypeOK'
BY DEF TypeOK, Memories, Places, Streams, Holdings, Counters

-----------------------------------------------------------------------------
(* What an order does, whether it is executed, in part or not at all.      *)

Ordered(s, closes) == Executed(s, closes) \/ NotExecuted(s, closes)

(* The stream after an order is the old one or has one report more, and    *)
(* that one names the side of the order.                                   *)
LEMMA ReportedQueue ==
  ASSUME TypeOK, NEW k \in {"filled", "failed"}, NEW s \in Sides,
         stream' = Reported(k, s)
  PROVE  /\ stream' \in Streams
         /\ \A t \in Sides : Queued(t)' => Queued(t) \/ (k = "filled" /\ t = s)
<1> DEFINE r == [kind |-> k, side |-> s]
           q == stream.reports
<1>1. r \in Reports /\ q \in Seq(Reports) /\ stream \in Streams
  BY DEF TypeOK, Reports, Streams
<1>2. CASE stream.state = "up"
  <2>1. stream' = [stream EXCEPT !.reports = Append(q, r)]
    BY <1>2 DEF Reported
  <2>2. /\ Append(q, r) \in Seq(Reports)
        /\ Len(Append(q, r)) = Len(q) + 1
        /\ \A i \in 1..Len(q) : Append(q, r)[i] = q[i]
        /\ Append(q, r)[Len(q) + 1] = r
    BY <1>1, AppendProperties
  <2>3. stream' \in Streams /\ stream'.reports = Append(q, r)
    BY <1>1, <2>1, <2>2 DEF Streams
  <2>4. ASSUME NEW t \in Sides, Queued(t)'
        PROVE  Queued(t) \/ (k = "filled" /\ t = s)
    <3>1. PICK i \in 1..(Len(q) + 1) :
            Append(q, r)[i] = [kind |-> "filled", side |-> t]
      BY <2>2, <2>3, <2>4 DEF Queued
    <3>2. CASE i \in 1..Len(q)
      BY <2>2, <3>1, <3>2 DEF Queued
    <3>3. CASE i = Len(q) + 1
      BY <2>2, <3>1, <3>3
    <3>4. Len(q) \in Nat
      BY <1>1, LenProperties
    <3> QED BY <3>1, <3>2, <3>3, <3>4
  <2> QED BY <2>3, <2>4
<1>3. CASE stream.state # "up"
  BY <1>1, <1>3 DEF Reported, Queued
<1> QED BY <1>2, <1>3

LEMMA MovedTypes ==
  ASSUME TypeOK, NEW s \in Sides, NEW c \in BOOLEAN, NEW q \in Nat,
         Moved(s, c, q)
  PROVE  /\ held' \in Holdings
         /\ closed' \subseteq Sides
<1>1. \A n \in Nat : Larger(0, n - q) \in Nat /\ n + q \in Nat
  BY DEF Larger
<1>2. \A y \in Symbols, t \in Sides : held[y][t] \in Nat
  BY DEF TypeOK
<1>3. held' = [held EXCEPT ![memory.symbol][s] =
                 IF c THEN Larger(0, @ - q) ELSE @ + q]
  BY DEF Moved
<1>4. held \in Holdings
  BY TypeParts
<1>5. held' \in Holdings
  BY <1>1, <1>2, <1>3, <1>4 DEF Holdings
<1>6. closed' \subseteq Sides
  BY DEF Moved, TypeOK
<1> QED BY <1>5, <1>6

LEMMA OrderedTypes ==
  ASSUME TypeOK, NEW s \in Sides, NEW c \in BOOLEAN, Ordered(s, c)
  PROVE  /\ held' \in Holdings
         /\ closed' \subseteq Sides
         /\ stream' \in Streams
         /\ surplus' \in [Sides -> Nat]
         /\ counts' \in Counters
<1>1. CASE Executed(s, c)
  <2>1. Moved(s, c, Unit) /\ stream' = Reported("filled", s)
    BY <1>1 DEF Executed
  <2>2. UNCHANGED <<surplus, counts>>
    BY <1>1 DEF Executed
  <2>3. Unit \in Nat
    BY DEF Unit
  <2>4. /\ held' \in Holdings
        /\ closed' \subseteq Sides
    BY <2>1, <2>3, MovedTypes
  <2>5. stream' \in Streams
    BY <2>1, ReportedQueue
  <2> QED BY <2>2, <2>4, <2>5, TypeParts
<1>2. CASE NotExecuted(s, c)
  <2>1. PICK part \in 0..(Unit - 1) :
          /\ Moved(s, c, part)
          /\ surplus' = [surplus EXCEPT ![s] = @ + IF c THEN Unit ELSE part]
    BY <1>2 DEF NotExecuted
  <2>2. part \in Nat
    BY DEF Unit
  <2>3. stream' \in Streams
    BY <1>2, ReportedQueue DEF NotExecuted
  <2>4. counts' = [counts EXCEPT !.failures = @ + 1]
    BY <1>2 DEF NotExecuted
  <2>5. surplus' \in [Sides -> Nat]
    <3>1. (IF c THEN Unit ELSE part) \in Nat
      BY <2>2 DEF Unit
    <3>2. surplus \in [Sides -> Nat]
      BY DEF TypeOK
    <3> QED BY <2>1, <3>1, <3>2
  <2>6. counts' \in Counters
    <3>1. counts \in Counters
      BY TypeParts
    <3> QED BY <2>4, <3>1 DEF Counters
  <2>7. /\ held' \in Holdings
        /\ closed' \subseteq Sides
    BY <2>1, <2>2, MovedTypes
  <2> QED BY <2>3, <2>5, <2>6, <2>7
<1> QED BY <1>1, <1>2 DEF Ordered

LEMMA PlaceOrders ==
  ASSUME NEW s \in Sides
  PROVE  /\ Place(s) => Ordered(s, FALSE)
         /\ Close(s) => Ordered(s, TRUE) /\ held[memory.symbol][s] > 0
BY DEF Place, Close, Ordered

-----------------------------------------------------------------------------
(* Types                                                                   *)

LEMMA Constructed ==
  /\ NewMemory \in Memories
  /\ NoStream \in Streams
  /\ NoOrder \in Orders
  /\ \A n \in Nat, u \in {"connecting", "up", "ended"} : Stream(u, n) \in Streams
  /\ \A t \in Steps, s \in Sides : At(t, s) \in Places
  /\ \A s \in Sides : Opposite(s) \in Sides
  /\ Idle \in Places /\ Down \in Places
BY EmptySeq DEF NewMemory, Memories, Phases, Sides, NoStream, Stream, Streams,
     NoOrder, Orders, At, Places, Steps, Opposite, Idle, Down

LEMMA TypeInit == Init => TypeOK
<1> SUFFICES ASSUME Init PROVE TypeOK
  OBVIOUS
<1>1. /\ memory \in Memories /\ main \in Places /\ stream \in Streams
      /\ handler \in Orders
  BY Constructed DEF Init
<1>2. counts \in Counters
  BY DEF Init, Counters
<1>3. /\ held \in Holdings /\ surplus \in [Sides -> Nat]
      /\ closed \subseteq Sides
  BY DEF Init, Holdings
<1>4. store \in Stores /\ saved \in Symbols \cup {NoSymbol}
  BY DEF Init
<1> QED BY <1>1, <1>2, <1>3, <1>4
        DEF TypeOK, Memories, Places, Streams, Holdings, Counters

LEMMA TypeStart == TypeOK /\ Start => TypeOK'
<1> SUFFICES ASSUME TypeOK, Start PROVE TypeOK'
  OBVIOUS
<1>1. saved' \in Symbols \cup {NoSymbol}
  BY DEF Start, Routes
<1>2. counts' \in Counters
  BY TypeParts DEF Start, Counters
<1>3. stream' \in Streams
  BY Constructed, LiveBoundsAssumption DEF Start
<1>4. memory' \in Memories /\ main' \in Places
  BY Constructed DEF Start
<1>5. UNCHANGED <<store, handler, held, closed, surplus>>
  BY DEF Start
<1> QED BY <1>1, <1>2, <1>3, <1>4, <1>5, TypeParts, TypesAfter

LEMMA TypeDie == TypeOK /\ Die => TypeOK'
<1> SUFFICES ASSUME TypeOK, Die PROVE TypeOK'
  OBVIOUS
<1>1. /\ memory' \in Memories /\ main' \in Places /\ stream' \in Streams
      /\ handler' \in Orders /\ closed' \subseteq Sides
  BY Constructed DEF Die
<1>2. UNCHANGED <<store, saved, held, surplus, counts>>
  BY DEF Die
<1> QED BY <1>1, <1>2, TypeParts, TypesAfter

LEMMA TypeOpenHedge ==
  ASSUME NEW y \in Symbols
  PROVE  TypeOK /\ OpenHedge(y) => TypeOK'
<1> SUFFICES ASSUME TypeOK, OpenHedge(y) PROVE TypeOK'
  OBVIOUS
<1>1. memory' \in Memories
  BY TypeParts DEF OpenHedge, Memories, Phases
<1>2. main' \in Places
  BY Constructed DEF OpenHedge, Steps, Sides
<1>3. saved' = y
  BY DEF OpenHedge
<1>4. UNCHANGED <<store, stream, handler, held, closed, surplus, counts>>
  BY DEF OpenHedge, ThreadOnly, bookkeeping
<1> QED BY <1>1, <1>2, <1>3, <1>4, TypeParts, TypesAfter

(* The steps that place one order.                                         *)
LEMMA TypeOrderStep ==
  ASSUME TypeOK, NEW s \in Sides, NEW c \in BOOLEAN, Ordered(s, c),
         main' \in Places, handler' \in Orders,
         UNCHANGED <<store, memory, saved>>
  PROVE  TypeOK'
BY OrderedTypes, TypeParts, TypesAfter

LEMMA TypePlaceOrders ==
  TypeOK /\ (PlaceLong \/ PlaceShort \/ PlaceRestore) => TypeOK'
<1> SUFFICES ASSUME TypeOK, PlaceLong \/ PlaceShort \/ PlaceRestore
             PROVE  TypeOK'
  OBVIOUS
<1>1. PICK s \in Sides : Place(s)
  BY DEF PlaceLong, PlaceShort, PlaceRestore, TypeOK, Sides
<1>2. main' \in Places
  BY Constructed DEF PlaceLong, PlaceShort, PlaceRestore, Steps, Sides
<1>3. handler' \in Orders /\ UNCHANGED <<store, memory, saved>>
  BY DEF PlaceLong, PlaceShort, PlaceRestore, ThreadOnly, TypeOK
<1> QED BY <1>1, <1>2, <1>3, PlaceOrders, TypeOrderStep

LEMMA TypeCloseOrders == TypeOK /\ (CloseLeg \/ Flatten) => TypeOK'
<1> SUFFICES ASSUME TypeOK, CloseLeg \/ Flatten PROVE TypeOK'
  OBVIOUS
<1>1. main.side \in Sides /\ Close(main.side)
  BY DEF CloseLeg, Flatten, TypeOK
<1>2. main' \in Places
  BY <1>1, Constructed DEF CloseLeg, Flatten, Steps
<1>3. handler' \in Orders /\ UNCHANGED <<store, memory, saved>>
  BY DEF CloseLeg, Flatten, ThreadOnly, TypeOK
<1> QED BY <1>1, <1>2, <1>3, PlaceOrders, TypeOrderStep

LEMMA TypeBookings ==
  TypeOK /\ (HardPause \/ KeepHedge \/ BookClose \/ ReduceRisk) => TypeOK'
<1> SUFFICES ASSUME TypeOK, HardPause \/ KeepHedge \/ BookClose \/ ReduceRisk
             PROVE  TypeOK'
  OBVIOUS
<1>1. memory \in Memories /\ main.side \in Sides /\ counts \in Counters
  BY DEF TypeOK, Memories, Counters
<1>2. /\ memory' \in Memories
      /\ main' \in Places
      /\ counts' \in Counters
      /\ saved' = memory.symbol
      /\ UNCHANGED <<store, handler, stream, held, closed, surplus>>
  <2>1. CASE HardPause
    <3>1. memory' \in Memories
      BY <1>1, <2>1 DEF HardPause, Memories, Phases
    <3> QED BY <1>1, <2>1, <3>1, TypeParts DEF HardPause, ThreadOnly, bookkeeping
  <2>2. CASE KeepHedge
    <3>1. memory' \in Memories
      BY <1>1, <2>2 DEF KeepHedge, Memories, Phases
    <3> QED BY <1>1, <2>2, <3>1, TypeParts DEF KeepHedge, ThreadOnly, bookkeeping
  <2>3. CASE BookClose
    <3>1. memory' = Closed(memory, main.side)
      BY <2>3 DEF BookClose
    <3>2. memory' \in Memories
      BY <1>1, <3>1 DEF Closed, Memories, Phases
    <3>3. counts' \in Counters
      BY <1>1, <2>3 DEF BookClose, Counters
    <3> QED BY <1>1, <2>3, <3>2, <3>3, Constructed DEF BookClose, ThreadOnly, Steps
  <2>4. CASE ReduceRisk
    BY <1>1, <2>4, Constructed
       DEF ReduceRisk, ThreadOnly, bookkeeping, Memories, Phases
  <2> QED BY <2>1, <2>2, <2>3, <2>4
<1> QED BY <1>1, <1>2, TypeParts, TypesAfter DEF Memories

LEMMA TypeDecisions ==
  TypeOK /\ (Decide \/ ContinueRebalancing \/ \E s \in Sides : TakeProfit(s))
    => TypeOK'
<1> SUFFICES ASSUME TypeOK,
                    Decide \/ ContinueRebalancing \/ \E s \in Sides : TakeProfit(s)
             PROVE  TypeOK'
  OBVIOUS
<1>1. /\ memory \in Memories /\ main.side \in Sides /\ counts \in Counters
      /\ surplus \in [Sides -> Nat] /\ Unit \in Nat
  BY DEF TypeOK, Memories, Counters, Unit
<1>2. /\ memory' \in Memories
      /\ main' \in Places
      /\ counts' \in Counters
      /\ surplus' \in [Sides -> Nat]
      /\ UNCHANGED <<store, handler, stream, held, closed, saved>>
  <2>1. CASE Decide
    BY <1>1, <2>1, Constructed DEF Decide, ThreadOnly, Steps
  <2>2. CASE ContinueRebalancing
    <3>1. counts' \in Counters
      BY <1>1, <2>2 DEF ContinueRebalancing, Counters
    <3>2. surplus' \in [Sides -> Nat]
      BY <1>1, <2>2 DEF ContinueRebalancing
    <3>3. main' \in Places
      BY <1>1, <2>2, Constructed DEF ContinueRebalancing, Steps
    <3> QED BY <1>1, <2>2, <3>1, <3>2, <3>3 DEF ContinueRebalancing, ThreadOnly
  <2>3. CASE \E s \in Sides : TakeProfit(s)
    BY <1>1, <2>3, Constructed
       DEF TakeProfit, ThreadOnly, bookkeeping, Memories, Phases, Steps
  <2> QED BY <2>1, <2>2, <2>3
<1> QED BY <1>2, TypeParts, TypesAfter

(* What the stream may be after it broke, or after a report was handled.   *)
LEMMA BrokenStreams ==
  ASSUME TypeOK
  PROVE  Broken \subseteq Streams
<1>1. stream.retries \in Nat
  BY DEF TypeOK
<1>2. stream.retries > 0 => stream.retries - 1 \in Nat
  BY <1>1
<1> QED BY <1>2, Constructed DEF Broken

LEMMA ReceivedStream ==
  ASSUME TypeOK, stream.reports # << >>
  PROVE  /\ Received \in Streams
         /\ Head(stream.reports) \in Reports
         /\ Received.reports = Tail(stream.reports)
<1>1. stream \in Streams /\ stream.reports \in Seq(Reports)
  BY DEF TypeOK, Streams
<1>2. Head(stream.reports) \in Reports /\ Tail(stream.reports) \in Seq(Reports)
  BY <1>1, HeadTailProperties
<1> QED BY <1>1, <1>2 DEF Received, Streams

LEMMA TypeStream == TypeOK /\ (Connect \/ Disconnect) => TypeOK'
<1> SUFFICES ASSUME TypeOK, Connect \/ Disconnect PROVE TypeOK'
  OBVIOUS
<1>1. stream' \in Streams
  BY BrokenStreams, Constructed DEF Connect, Disconnect, TypeOK
<1>2. handler' \in Orders
  BY Constructed, TypeParts DEF Connect, Disconnect
<1>3. UNCHANGED <<store, memory, main, saved, held, closed, surplus, counts>>
  BY DEF Connect, Disconnect, bookkeeping
<1> QED BY <1>1, <1>2, <1>3, TypeParts, TypesAfter

LEMMA TypeSaves ==
  ASSUME TypeOK, SavesOrBreaks, stream.reports # << >>
  PROVE  stream' \in Streams /\ saved' \in Symbols \cup {NoSymbol}
BY BrokenStreams, ReceivedStream DEF SavesOrBreaks, TypeOK

LEMMA TypeReceive == TypeOK /\ Receive => TypeOK'
<1> SUFFICES ASSUME TypeOK, Receive PROVE TypeOK'
  OBVIOUS
<1> DEFINE report == Head(stream.reports)
<1>1. stream.reports # << >> /\ report \in Reports
  BY ReceivedStream DEF Receive
<1>2. report.side \in Sides /\ memory \in Memories
  BY <1>1 DEF Reports, TypeOK, Memories
<1>3. UNCHANGED <<store, main, held, closed, surplus, counts>>
  BY DEF Receive, bookkeeping
<1>4. CASE OnOrderFilled
  <2>1. memory' = Filled(memory, report.side)
    BY <1>4 DEF OnOrderFilled
  <2>2. memory' \in Memories
    BY <1>2, <2>1 DEF Filled, Memories, Phases
  <2> QED BY <1>1, <1>3, <1>4, <2>2, TypeSaves
          DEF OnOrderFilled, TypeOK, Memories, Streams
<1>5. CASE Recover(report.side)
  <2>1. memory' \in Memories
    BY <1>2, <1>5 DEF Recover, Memories
  <2>2. handler' \in Orders
    BY <1>2, <1>5, Constructed DEF Recover, Orders, At
  <2> QED BY <1>1, <1>3, <1>5, <2>1, <2>2, TypeSaves
          DEF Recover, TypeOK, Memories, Streams
<1>6. CASE FlattenFilled(report.side)
  <2>1. handler' \in Orders
    BY <1>6, Constructed DEF FlattenFilled, Orders, At, Sides
  <2> QED BY <1>1, <1>3, <1>6, <2>1, ReceivedStream
          DEF FlattenFilled, TypeOK, Memories, Streams
<1> QED BY <1>4, <1>5, <1>6 DEF Receive, OnOrderFailed

LEMMA TypeRecovery == TypeOK /\ Recovery => TypeOK'
<1> SUFFICES ASSUME TypeOK, Recovery PROVE TypeOK'
  OBVIOUS
<1>1. handler.side \in Sides
  BY DEF Recovery, TypeOK, Orders
<1>2. PICK c \in BOOLEAN : Ordered(handler.side, c)
  BY <1>1, PlaceOrders DEF Recovery
<1>3. handler' \in Orders /\ UNCHANGED <<store, memory, main, saved>>
  BY Constructed DEF Recovery
<1>4. main' \in Places
  BY <1>3, TypeParts
<1> QED BY <1>1, <1>2, <1>3, <1>4, TypeOrderStep

LEMMA TypeNext == TypeOK /\ [Next]_vars => TypeOK'
<1> SUFFICES ASSUME TypeOK, [Next]_vars PROVE TypeOK'
  OBVIOUS
<1>1. CASE RunCycle
  BY <1>1, TypeOpenHedge, TypePlaceOrders, TypeCloseOrders, TypeBookings,
     TypeDecisions DEF RunCycle
<1>2. CASE HandleStream
  BY <1>2, TypeReceive, TypeRecovery DEF HandleStream
<1>3. CASE UNCHANGED vars
  BY <1>3 DEF vars, TypeOK
<1> QED BY <1>1, <1>2, <1>3, TypeStart, TypeDie, TypeStream DEF Next

(* Every reachable state has its types: in particular no leg is held a     *)
(* negative number of times and no retry is made that is not allowed.      *)
THEOREM TypeCorrect == Spec => []TypeOK
BY TypeInit, TypeNext, PTL DEF Spec

-----------------------------------------------------------------------------
(* What each kind of step makes the memory count on                        *)

LEMMA MovedHoldings ==
  ASSUME TypeOK, memory.symbol \in Symbols,
         NEW s \in Sides, NEW c \in BOOLEAN, NEW q \in Nat, Moved(s, c, q)
  PROVE  /\ \A t \in Sides : t # s =>
              held'[memory.symbol][t] = held[memory.symbol][t]
         /\ ~c => held'[memory.symbol][s] = held[memory.symbol][s] + q
         /\ c /\ q = 0 => held'[memory.symbol][s] = held[memory.symbol][s]
         /\ closed' = IF c /\ q > 0 THEN closed \cup {s} ELSE closed
<1>1. held \in [Symbols -> [Sides -> Nat]]
  BY TypeParts DEF Holdings
<1>2. held' = [held EXCEPT ![memory.symbol][s] =
                 IF c THEN Larger(0, @ - q) ELSE @ + q]
  BY DEF Moved
<1>3. \A n \in Nat : Larger(0, n - 0) = n
  BY DEF Larger
<1>4. held[memory.symbol][s] \in Nat
  BY <1>1
<1> QED BY <1>1, <1>2, <1>3, <1>4 DEF Moved

(* An order makes the memory count on a leg only if it is then held, or    *)
(* was closed.                                                             *)
LEMMA OrderKeepsCount ==
  ASSUME TypeOK, CountedIsHeld, memory.symbol \in Symbols,
         NEW s \in Sides, NEW c \in BOOLEAN, Ordered(s, c),
         c => held[memory.symbol][s] > 0,
         UNCHANGED memory,
         \/ main' = main
         \/ main'.step # "book"
         \/ c /\ main'.side = s
  PROVE  CountedIsHeld'
<1> DEFINE y == memory.symbol
<1>1. \A t \in Sides : held[y][t] \in Nat
  BY TypeParts DEF Holdings
<1> SUFFICES ASSUME NEW t \in Sides \ closed', Counts(t)'
             PROVE  held'[y][t] > 0
  BY DEF CountedIsHeld
<1>2. CASE Executed(s, c)
  <2>1. Moved(s, c, Unit) /\ stream' = Reported("filled", s) /\ Unit = 2
    BY <1>2 DEF Executed, Unit
  <2>2. CASE t = s
    <3>1. ~c
      BY <2>1, <2>2, MovedHoldings
    <3> QED BY <1>1, <2>1, <2>2, <3>1, MovedHoldings
  <2>3. CASE t # s
    <3>1. t \notin closed /\ held'[y][t] = held[y][t]
      BY <2>1, <2>3, MovedHoldings
    <3>2. Queued(t)' => Queued(t)
      BY <2>1, <2>3, ReportedQueue
    <3>3. Counts(t)
      BY <2>3, <3>2 DEF Counts
    <3> QED BY <3>1, <3>3 DEF CountedIsHeld
  <2> QED BY <2>2, <2>3
<1>3. CASE NotExecuted(s, c)
  <2>1. PICK part \in Nat : Moved(s, c, part)
    BY <1>3 DEF NotExecuted, Unit
  <2>2. Queued(t)' => Queued(t)
    BY <1>3, ReportedQueue DEF NotExecuted
  <2>3. CASE t = s /\ c
    <3>1. ~(part > 0)
      <4>1. part > 0 => s \in closed'
        BY <2>1, <2>3 DEF Moved
      <4> QED BY <2>3, <4>1
    <3>2. part = 0
      BY <3>1
    <3>3. held'[y][s] = held[y][s]
      BY <2>1, <2>3, <3>2, MovedHoldings
    <3> QED BY <2>3, <3>3
  <2>4. CASE t # s \/ ~c
    <3>1. Counts(t)
      BY <2>2, <2>4 DEF Counts
    <3>2. t \notin closed
      BY <2>1, <2>4, MovedHoldings
    <3>3. held[y][t] > 0 /\ held[y][t] \in Nat
      BY <1>1, <3>1, <3>2 DEF CountedIsHeld
    <3>4. CASE t # s
      <4>1. held'[y][t] = held[y][t]
        BY <2>1, <3>4, MovedHoldings
      <4> QED BY <3>3, <4>1
    <3>5. CASE t = s /\ ~c
      <4>1. held'[y][t] = held[y][t] + part
        BY <2>1, <3>5, MovedHoldings
      <4> QED BY <2>1, <3>3, <4>1
    <3> QED BY <2>4, <3>4, <3>5
  <2> QED BY <2>3, <2>4
<1> QED BY <1>2, <1>3 DEF Ordered

(* A report that was received is queued no longer.                         *)
LEMMA ReceivedQueue ==
  ASSUME TypeOK, stream.reports # << >>, stream' = Received,
         NEW t \in Sides, Queued(t)'
  PROVE  Queued(t)
<1> DEFINE q == stream.reports
<1>1. q \in Seq(Reports) /\ stream'.reports = Tail(q)
  BY ReceivedStream, TypeParts DEF Streams
<1>2. /\ Len(q) \in Nat /\ Len(Tail(q)) = Len(q) - 1
      /\ \A i \in 1..Len(Tail(q)) : Tail(q)[i] = q[i + 1]
  BY <1>1, HeadTailProperties, LenProperties
<1>3. PICK i \in 1..Len(Tail(q)) :
        Tail(q)[i] = [kind |-> "filled", side |-> t]
  BY <1>1 DEF Queued
<1>4. i + 1 \in 1..Len(q) /\ q[i + 1] = [kind |-> "filled", side |-> t]
  BY <1>2, <1>3
<1> QED BY <1>4 DEF Queued

LEMMA HeadIsQueued ==
  ASSUME TypeOK, stream.reports # << >>, Head(stream.reports).kind = "filled"
  PROVE  Queued(Head(stream.reports).side)
<1> DEFINE q == stream.reports
<1>1. q \in Seq(Reports)
  BY TypeParts DEF Streams
<1>2. Head(q) \in Reports /\ Head(q) = q[1] /\ 1 \in 1..Len(q)
  BY <1>1, HeadTailProperties, LenProperties, EmptySeq
<1>3. q[1] = [kind |-> "filled", side |-> Head(q).side]
  BY <1>2 DEF Reports
<1> QED BY <1>2, <1>3 DEF Queued

LEMMA NothingQueued ==
  ASSUME stream'.reports = << >>, NEW t \in Sides
  PROVE  ~Queued(t)'
BY DEF Queued

LEMMA BrokenIsEmpty ==
  ASSUME TypeOK, stream' \in Broken
  PROVE  stream'.reports = << >>
BY DEF Broken, NoStream, Stream

(* Saving or breaking makes no report appear.                              *)
LEMMA SavesQueue ==
  ASSUME TypeOK, SavesOrBreaks, stream.reports # << >>, NEW t \in Sides,
         Queued(t)'
  PROVE  Queued(t)
BY ReceivedQueue, NothingQueued, BrokenIsEmpty DEF SavesOrBreaks
-----------------------------------------------------------------------------
(* The invariant                                                           *)

(* Whoever is at a step of an order, or handles a report, has a symbol.    *)
LEMMA HasSymbol ==
  ASSUME TypeOK, Quiet, DownIsNew,
         \/ main.step \notin {"down", "cycle"}
         \/ memory.phase \notin {"IDLE", "PAUSED"}
         \/ stream.reports # << >>
         \/ handler # NoOrder
  PROVE  memory.symbol \in Symbols /\ main.step # "down"
<1>1. memory.symbol \in Symbols
  BY DEF TypeOK, Quiet
<1>2. NewMemory.symbol = NoSymbol
  BY DEF NewMemory
<1> QED BY <1>1, <1>2, NoSymbolAssumption DEF DownIsNew

(* A step that leaves the memory alone, enters and leaves no closing, and  *)
(* keeps what is counted held.                                             *)
LEMMA SameMemory ==
  ASSUME HedgeInv, memory.symbol \in Symbols, UNCHANGED memory,
         main'.step # "down",
         main.step \in {"close", "book"} <=> main'.step \in {"close", "book"},
         TypeOK', CountedIsHeld'
  PROVE  HedgeInv'
<1>1. Quiet'
  BY NoSymbolAssumption DEF Quiet
<1>2. DownIsNew' /\ IdleIsQuiet' /\ HedgedIsFilled'
  BY DEF HedgeInv, DownIsNew, IdleIsQuiet, HedgedIsFilled
<1>3. Closing' /\ NoPhaseIsOrphaned'
  BY DEF HedgeInv, Closing, NoPhaseIsOrphaned
<1> QED BY <1>1, <1>2, <1>3 DEF HedgeInv

LEMMA HedgeInit == Init => HedgeInv
<1> SUFFICES ASSUME Init PROVE HedgeInv
  OBVIOUS
<1>1. memory = NewMemory /\ main = Down /\ stream = NoStream
      /\ handler = NoOrder /\ closed = {}
  BY DEF Init
<1>2. Quiet /\ DownIsNew /\ IdleIsQuiet /\ Closing /\ NoPhaseIsOrphaned
      /\ HedgedIsFilled
  BY <1>1 DEF Quiet, DownIsNew, IdleIsQuiet, Closing, NoPhaseIsOrphaned,
     HedgedIsFilled, NewMemory, Down, At, NoStream, Stream, Sides
<1>3. CountedIsHeld
  <2> SUFFICES ASSUME NEW s \in Sides, Counts(s) PROVE FALSE
    BY DEF CountedIsHeld
  <2> QED BY <1>1 DEF Counts, Queued, NewMemory, Down, At, NoStream, Stream,
             Sides
<1> QED BY <1>2, <1>3, TypeInit DEF HedgeInv

(* A process that begins or has ended counts on nothing.                   *)
LEMMA FreshMemory ==
  ASSUME memory' = NewMemory, stream'.reports = << >>, handler' = NoOrder,
         closed' = {}, main'.step \in {"down", "cycle"}, TypeOK'
  PROVE  HedgeInv'
<1>1. /\ Quiet' /\ DownIsNew' /\ IdleIsQuiet' /\ Closing'
      /\ NoPhaseIsOrphaned' /\ HedgedIsFilled'
  BY DEF Quiet, DownIsNew, IdleIsQuiet, Closing, NoPhaseIsOrphaned,
     HedgedIsFilled, NewMemory, Sides
<1>2. CountedIsHeld'
  <2> SUFFICES ASSUME NEW s \in Sides, Counts(s)' PROVE FALSE
    BY DEF CountedIsHeld
  <2> QED BY NothingQueued DEF Counts, NewMemory, Sides
<1> QED BY <1>1, <1>2 DEF HedgeInv

LEMMA HedgeStart == HedgeInv /\ Start => HedgeInv'
<1> SUFFICES ASSUME HedgeInv, Start PROVE HedgeInv'
  OBVIOUS
<1>1. memory = NewMemory
  BY DEF Start, HedgeInv, DownIsNew, Down, At
<1>2. handler = NoOrder /\ closed = {}
  BY <1>1 DEF HedgeInv, Quiet, NewMemory
<1>3. TypeOK'
  BY TypeStart DEF HedgeInv
<1> QED BY <1>2, <1>3, FreshMemory DEF Start, Stream, Idle, At

LEMMA HedgeDie == HedgeInv /\ Die => HedgeInv'
BY TypeDie, FreshMemory DEF HedgeInv, Die, NoStream, Stream, Down, At

LEMMA HedgeOpenHedge ==
  ASSUME NEW y \in Symbols
  PROVE  HedgeInv /\ OpenHedge(y) => HedgeInv'
<1> SUFFICES ASSUME HedgeInv, OpenHedge(y) PROVE HedgeInv'
  OBVIOUS
<1>1. memory.symbol = NoSymbol
  BY DEF OpenHedge, MayOpen, HedgeInv, IdleIsQuiet
<1>2. /\ memory.pending = "NONE" /\ stream.reports = << >> /\ memory \in Memories
  BY <1>1, TypeParts DEF HedgeInv, Quiet
<1>3. TypeOK'
  BY TypeOpenHedge DEF HedgeInv
<1>4. /\ memory'.symbol = y /\ memory'.phase = "OPENING_HEDGE"
      /\ memory'.pending = "NONE"
      /\ \A s \in Sides : ~memory'.filled[s]
      /\ main'.step = "long" /\ stream' = stream
  BY <1>2 DEF OpenHedge, At, Memories
<1>5. /\ Quiet' /\ DownIsNew' /\ IdleIsQuiet' /\ Closing'
      /\ NoPhaseIsOrphaned' /\ HedgedIsFilled'
  BY <1>4, NoSymbolAssumption
     DEF Quiet, DownIsNew, IdleIsQuiet, Closing, NoPhaseIsOrphaned,
     HedgedIsFilled
<1>6. CountedIsHeld'
  <2> SUFFICES ASSUME NEW s \in Sides, Counts(s)' PROVE FALSE
    BY DEF CountedIsHeld
  <2> QED BY <1>2, <1>4, NothingQueued DEF Counts, Sides
<1> QED BY <1>3, <1>5, <1>6 DEF HedgeInv

LEMMA HedgePlaceOrders ==
  HedgeInv /\ (PlaceLong \/ PlaceShort \/ PlaceRestore) => HedgeInv'
<1> SUFFICES ASSUME HedgeInv, PlaceLong \/ PlaceShort \/ PlaceRestore
             PROVE  HedgeInv'
  OBVIOUS
<1>1. TypeOK /\ TypeOK'
  BY TypePlaceOrders DEF HedgeInv
<1>2. memory.symbol \in Symbols
  BY <1>1, HasSymbol DEF HedgeInv, PlaceLong, PlaceShort, PlaceRestore
<1>3. PICK s \in Sides : Place(s)
  BY <1>1 DEF PlaceLong, PlaceShort, PlaceRestore, TypeOK, Sides
<1>4. /\ main'.step \in {"short", "cycle"}
      /\ main.step \in {"long", "short", "restore"}
      /\ UNCHANGED memory
  BY DEF PlaceLong, PlaceShort, PlaceRestore, At, Idle
<1>5. CountedIsHeld'
  BY <1>1, <1>2, <1>3, <1>4, PlaceOrders, OrderKeepsCount DEF HedgeInv
<1> QED BY <1>1, <1>2, <1>4, <1>5, SameMemory

LEMMA HedgeCloseOrders == HedgeInv /\ (CloseLeg \/ Flatten) => HedgeInv'
<1> SUFFICES ASSUME HedgeInv, CloseLeg \/ Flatten PROVE HedgeInv'
  OBVIOUS
<1>1. TypeOK /\ TypeOK'
  BY TypeCloseOrders DEF HedgeInv
<1>2. memory.symbol \in Symbols
  BY <1>1, HasSymbol DEF HedgeInv, CloseLeg, Flatten
<1>3. /\ main.side \in Sides /\ Close(main.side)
      /\ \/ main.step = "close" /\ main'.step = "book"
         \/ main.step = "flatten" /\ main'.step = "pause"
      /\ main'.side = main.side
      /\ UNCHANGED memory
  <2>1. main.side \in Sides
    BY <1>1 DEF TypeOK
  <2>2. CASE CloseLeg
    BY <2>1, <2>2 DEF CloseLeg, At
  <2>3. CASE Flatten
    BY <2>1, <2>3 DEF Flatten, At
  <2> QED BY <2>2, <2>3
<1>4. PICK c \in BOOLEAN : /\ c /\ Ordered(main.side, c)
                           /\ held[memory.symbol][main.side] > 0
  BY <1>3, PlaceOrders
<1>5. CountedIsHeld'
  BY <1>1, <1>2, <1>3, <1>4, OrderKeepsCount DEF HedgeInv
<1> QED BY <1>1, <1>2, <1>3, <1>5, SameMemory

(* The other bookings of the main thread.                                  *)
LEMMA HedgeBookings ==
  HedgeInv /\ (HardPause \/ KeepHedge \/ BookClose \/ ReduceRisk) => HedgeInv'
<1> SUFFICES ASSUME HedgeInv, HardPause \/ KeepHedge \/ BookClose \/ ReduceRisk
             PROVE  HedgeInv'
  OBVIOUS
<1>1. TypeOK /\ TypeOK' /\ memory \in Memories /\ main.side \in Sides
  BY TypeBookings, TypeParts DEF HedgeInv, Places
<1>2. stream' = stream /\ held' = held /\ closed' = closed /\ handler' = handler
  BY DEF HardPause, KeepHedge, BookClose, ReduceRisk, ThreadOnly, bookkeeping
<1>3. \A t \in Sides : Queued(t)' <=> Queued(t)
  BY <1>2 DEF Queued
<1>4. memory'.symbol = memory.symbol
  BY <1>1 DEF HardPause, KeepHedge, BookClose, ReduceRisk, Closed, Memories
<1>5. CASE HardPause
  <2>1. /\ memory'.phase = "PAUSED" /\ memory'.filled = memory.filled
        /\ memory'.pending = memory.pending
        /\ main' = main /\ main.step = "cycle"
    BY <1>1, <1>5 DEF HardPause, Memories, Idle, At
  <2>2. /\ Quiet' /\ DownIsNew' /\ IdleIsQuiet' /\ Closing'
        /\ NoPhaseIsOrphaned' /\ HedgedIsFilled'
    BY <1>2, <1>4, <2>1
       DEF HedgeInv, Quiet, DownIsNew, IdleIsQuiet, Closing, NoPhaseIsOrphaned,
       HedgedIsFilled
  <2>3. CountedIsHeld'
    BY <1>2, <1>3, <1>4, <2>1 DEF HedgeInv, CountedIsHeld, Counts
  <2> QED BY <1>1, <2>2, <2>3 DEF HedgeInv
<1>6. CASE KeepHedge
  <2>1. /\ memory'.phase = "HEDGED" /\ memory.phase = "HEDGED"
        /\ \A t \in Sides : memory'.filled[t]
        /\ memory'.pending = "NONE"
        /\ main' = main /\ main.step = "cycle"
    BY <1>1, <1>6 DEF KeepHedge, Memories, Idle, At
  <2>2. memory.symbol # NoSymbol
    BY <2>1 DEF HedgeInv, Quiet
  <2>3. /\ Quiet' /\ DownIsNew' /\ IdleIsQuiet' /\ Closing'
        /\ NoPhaseIsOrphaned' /\ HedgedIsFilled'
    BY <1>4, <2>1, <2>2
       DEF Quiet, DownIsNew, IdleIsQuiet, Closing, NoPhaseIsOrphaned,
       HedgedIsFilled
  <2>4. \A t \in Sides : Counts(t)
    BY <2>1 DEF HedgeInv, HedgedIsFilled, Counts
  <2>5. CountedIsHeld'
    BY <1>2, <1>4, <2>4 DEF HedgeInv, CountedIsHeld
  <2> QED BY <1>1, <2>3, <2>5 DEF HedgeInv
<1>7. CASE BookClose
  <2> DEFINE s == main.side
  <2>1. /\ memory' = Closed(memory, s) /\ main.step = "book"
        /\ main'.step = "decide"
    BY <1>7 DEF BookClose, At
  <2>2. memory.symbol \in Symbols
    BY <1>1, <2>1, HasSymbol DEF HedgeInv
  <2>3. /\ memory'.pending = s
        /\ \A t \in Sides : t # s => memory'.filled[t] = memory.filled[t]
        /\ ~memory'.filled[s]
        /\ memory'.phase = IF memory.phase = "TAKING_PROFIT" THEN "REBALANCING"
                           ELSE memory.phase
    BY <1>1, <2>1 DEF Closed, Memories
  <2>4. \/ memory.phase = "TAKING_PROFIT" /\ memory'.phase = "REBALANCING"
        \/ /\ memory.phase = "HEDGED" /\ memory'.phase = "HEDGED"
           /\ \A t \in Sides : memory.filled[t]
    BY <2>1, <2>3 DEF HedgeInv, Closing
  <2>5. /\ Quiet' /\ DownIsNew' /\ IdleIsQuiet' /\ Closing'
        /\ NoPhaseIsOrphaned'
    BY <1>1, <1>4, <2>1, <2>2, <2>3, <2>4, NoSymbolAssumption
       DEF Quiet, DownIsNew, IdleIsQuiet, Closing, NoPhaseIsOrphaned
  <2>6. HedgedIsFilled'
    BY <2>3, <2>4 DEF HedgedIsFilled
  <2>7. ASSUME NEW t \in Sides, Counts(t)' PROVE Counts(t)
    <3>1. CASE t = s
      BY <2>1, <3>1 DEF Counts
    <3>2. CASE t # s
      BY <1>3, <2>1, <2>3, <2>7, <3>2 DEF Counts
    <3> QED BY <3>1, <3>2
  <2>8. CountedIsHeld'
    BY <1>2, <1>4, <2>7 DEF HedgeInv, CountedIsHeld
  <2> QED BY <1>1, <2>5, <2>6, <2>8 DEF HedgeInv
<1>8. CASE ReduceRisk
  <2>1. /\ memory'.phase = "PAUSED" /\ memory'.filled = memory.filled
        /\ memory'.pending = "NONE"
        /\ main'.step = "cycle" /\ main.step = "pause"
    BY <1>1, <1>8 DEF ReduceRisk, Memories, Idle, At
  <2>2. memory.symbol \in Symbols
    BY <1>1, <2>1, HasSymbol DEF HedgeInv
  <2>3. /\ Quiet' /\ DownIsNew' /\ IdleIsQuiet' /\ Closing'
        /\ NoPhaseIsOrphaned' /\ HedgedIsFilled'
    BY <1>4, <2>1, <2>2, NoSymbolAssumption
       DEF Quiet, DownIsNew, IdleIsQuiet, Closing, NoPhaseIsOrphaned,
       HedgedIsFilled
  <2>4. ASSUME NEW t \in Sides, Counts(t)' PROVE Counts(t)
    BY <1>3, <2>1, <2>4 DEF Counts, Sides
  <2>5. CountedIsHeld'
    BY <1>2, <1>4, <2>4 DEF HedgeInv, CountedIsHeld
  <2> QED BY <1>1, <2>3, <2>5 DEF HedgeInv
<1> QED BY <1>5, <1>6, <1>7, <1>8

LEMMA HedgeTakeProfit ==
  ASSUME NEW s \in Sides
  PROVE  HedgeInv /\ TakeProfit(s) => HedgeInv'
<1> SUFFICES ASSUME HedgeInv, TakeProfit(s) PROVE HedgeInv'
  OBVIOUS
<1>1. TypeOK /\ TypeOK' /\ memory \in Memories
  BY TypeDecisions, TypeParts DEF HedgeInv
<1>2. /\ memory'.phase = "TAKING_PROFIT" /\ memory'.filled = memory.filled
      /\ memory'.pending = memory.pending /\ memory'.symbol = memory.symbol
      /\ main'.step = "close"
      /\ UNCHANGED <<stream, held, closed, handler>>
  BY <1>1 DEF TakeProfit, Memories, At, bookkeeping, ThreadOnly
<1>3. memory.symbol \in Symbols
  BY <1>1, HasSymbol DEF HedgeInv, TakeProfit
<1>4. /\ Quiet' /\ DownIsNew' /\ IdleIsQuiet' /\ Closing'
      /\ NoPhaseIsOrphaned' /\ HedgedIsFilled'
  BY <1>2, <1>3, NoSymbolAssumption
     DEF Quiet, DownIsNew, IdleIsQuiet, Closing, NoPhaseIsOrphaned,
     HedgedIsFilled
<1>5. ASSUME NEW t \in Sides, Counts(t)' PROVE Counts(t)
  BY <1>2, <1>5 DEF Counts, Queued
<1>6. CountedIsHeld'
  BY <1>2, <1>5 DEF HedgeInv, CountedIsHeld
<1> QED BY <1>1, <1>4, <1>6 DEF HedgeInv

LEMMA HedgeDecisions == HedgeInv /\ (Decide \/ ContinueRebalancing) => HedgeInv'
<1> SUFFICES ASSUME HedgeInv, Decide \/ ContinueRebalancing PROVE HedgeInv'
  OBVIOUS
<1>1. TypeOK /\ TypeOK'
  BY TypeDecisions DEF HedgeInv
<1>2. /\ main.step \in {"decide", "cycle"}
      /\ main'.step \in {"cycle", "restore", "flatten"}
      /\ UNCHANGED <<memory, stream, held, closed, handler>>
  BY DEF Decide, ContinueRebalancing, Idle, At, ThreadOnly
<1>3. memory.symbol \in Symbols
  BY <1>1, HasSymbol DEF HedgeInv, Decide, ContinueRebalancing
<1>4. ASSUME NEW t \in Sides, Counts(t)' PROVE Counts(t)
  BY <1>2, <1>4 DEF Counts, Queued
<1>5. CountedIsHeld'
  BY <1>2, <1>4 DEF HedgeInv, CountedIsHeld
<1> QED BY <1>1, <1>2, <1>3, <1>5, SameMemory

-----------------------------------------------------------------------------
(* The stream thread                                                       *)

LEMMA HedgeStream == HedgeInv /\ (Connect \/ Disconnect) => HedgeInv'
<1> SUFFICES ASSUME HedgeInv, Connect \/ Disconnect PROVE HedgeInv'
  OBVIOUS
<1>1. TypeOK /\ TypeOK'
  BY TypeStream DEF HedgeInv
<1>2. stream'.reports = << >> /\ handler' \in {handler, NoOrder}
  BY <1>1, BrokenIsEmpty DEF Connect, Disconnect, NoStream, Stream
<1>3. UNCHANGED <<memory, main, held, closed>>
  BY DEF Connect, Disconnect, bookkeeping
<1>4. /\ Quiet' /\ DownIsNew' /\ IdleIsQuiet' /\ Closing'
      /\ NoPhaseIsOrphaned' /\ HedgedIsFilled'
  BY <1>2, <1>3
     DEF HedgeInv, Quiet, DownIsNew, IdleIsQuiet, Closing, NoPhaseIsOrphaned,
     HedgedIsFilled
<1>5. ASSUME NEW t \in Sides, Counts(t)' PROVE Counts(t)
  BY <1>2, <1>3, <1>5, NothingQueued DEF Counts
<1>6. CountedIsHeld'
  BY <1>3, <1>5 DEF HedgeInv, CountedIsHeld
<1> QED BY <1>1, <1>4, <1>6 DEF HedgeInv

(* A fill that is reported makes the leg count as filled, which the report *)
(* made it count on before.                                                *)
LEMMA HedgeFilled ==
  ASSUME HedgeInv, Receive, OnOrderFilled
  PROVE  HedgeInv'
<1> DEFINE s == Head(stream.reports).side
<1>1. /\ TypeOK /\ TypeOK' /\ memory \in Memories
      /\ stream.reports # << >>
  BY TypeReceive, TypeParts DEF HedgeInv, Receive
<1>2. s \in Sides /\ Queued(s)
  BY <1>1, ReceivedStream, HeadIsQueued DEF OnOrderFilled, Reports
<1>3. memory.symbol \in Symbols /\ main.step # "down"
  BY <1>1, HasSymbol DEF HedgeInv
<1>4. /\ SavesOrBreaks /\ memory' = Filled(memory, s)
      /\ UNCHANGED <<main, held, closed, handler>>
  BY DEF Receive, OnOrderFilled, bookkeeping
<1>5. /\ memory'.symbol = memory.symbol
      /\ \A t \in Sides : memory'.filled[t] => memory.filled[t] \/ t = s
      /\ memory'.pending \in {memory.pending, "NONE"}
      /\ \/ /\ memory'.phase = "HEDGED"
            /\ \A t \in Sides : memory'.filled[t]
         \/ /\ memory'.phase = memory.phase
            /\ memory'.pending = memory.pending
            /\ \A t \in Sides : memory.filled[t] => memory'.filled[t]
            /\ ~(\A t \in Sides : memory'.filled[t])
  BY <1>1, <1>2, <1>4 DEF Filled, Memories
<1>6. Quiet' /\ DownIsNew' /\ IdleIsQuiet'
  BY <1>3, <1>4, <1>5, NoSymbolAssumption
     DEF HedgeInv, Quiet, DownIsNew, IdleIsQuiet
<1>7. Closing' /\ NoPhaseIsOrphaned' /\ HedgedIsFilled'
  BY <1>4, <1>5
     DEF HedgeInv, Closing, NoPhaseIsOrphaned, HedgedIsFilled
<1>8. ASSUME NEW t \in Sides, Counts(t)' PROVE Counts(t)
  <2>1. Queued(t)' => Queued(t)
    BY <1>1, <1>4, SavesQueue
  <2> QED BY <1>2, <1>4, <1>5, <1>8, <2>1 DEF Counts, Sides
<1>9. CountedIsHeld'
  BY <1>4, <1>5, <1>8 DEF HedgeInv, CountedIsHeld
<1> QED BY <1>1, <1>6, <1>7, <1>9 DEF HedgeInv

(* A failure that is reported changes nothing that the invariant is about. *)
LEMMA HedgeFailed ==
  ASSUME HedgeInv, Receive, OnOrderFailed
  PROVE  HedgeInv'
<1> DEFINE s == Head(stream.reports).side
<1>1. /\ TypeOK /\ TypeOK' /\ memory \in Memories
      /\ stream.reports # << >>
  BY TypeReceive, TypeParts DEF HedgeInv, Receive
<1>2. memory.symbol \in Symbols /\ main.step # "down"
  BY <1>1, HasSymbol DEF HedgeInv
<1>3. /\ memory'.symbol = memory.symbol /\ memory'.phase = memory.phase
      /\ memory'.filled = memory.filled /\ memory'.pending = memory.pending
      /\ UNCHANGED <<main, held, closed>>
  BY <1>1 DEF Receive, OnOrderFailed, Recover, FlattenFilled, bookkeeping,
     Memories
<1>4. /\ Quiet' /\ DownIsNew' /\ IdleIsQuiet' /\ Closing'
      /\ NoPhaseIsOrphaned' /\ HedgedIsFilled'
  BY <1>2, <1>3, NoSymbolAssumption
     DEF HedgeInv, Quiet, DownIsNew, IdleIsQuiet, Closing, NoPhaseIsOrphaned,
     HedgedIsFilled
<1>5. ASSUME NEW t \in Sides, Counts(t)' PROVE Counts(t)
  <2>1. Queued(t)' => Queued(t)
    BY <1>1, SavesQueue, ReceivedQueue
       DEF OnOrderFailed, Recover, FlattenFilled
  <2> QED BY <1>3, <1>5, <2>1 DEF Counts
<1>6. CountedIsHeld'
  BY <1>3, <1>5 DEF HedgeInv, CountedIsHeld
<1> QED BY <1>1, <1>4, <1>6 DEF HedgeInv

LEMMA HedgeRecovery == HedgeInv /\ Recovery => HedgeInv'
<1> SUFFICES ASSUME HedgeInv, Recovery PROVE HedgeInv'
  OBVIOUS
<1>1. TypeOK /\ TypeOK' /\ handler.side \in Sides
  BY TypeRecovery DEF HedgeInv, Recovery, TypeOK, Orders
<1>2. memory.symbol \in Symbols /\ main.step # "down"
  BY <1>1, HasSymbol DEF HedgeInv, Recovery
<1>3. UNCHANGED <<memory, main>>
  BY DEF Recovery
<1>4. PICK c \in BOOLEAN : /\ Ordered(handler.side, c)
                           /\ c => held[memory.symbol][handler.side] > 0
  BY <1>1, PlaceOrders DEF Recovery
<1>5. CountedIsHeld'
  BY <1>1, <1>2, <1>3, <1>4, OrderKeepsCount DEF HedgeInv
<1> QED BY <1>1, <1>2, <1>3, <1>5, SameMemory

LEMMA HedgeNext == HedgeInv /\ [Next]_vars => HedgeInv'
<1> SUFFICES ASSUME HedgeInv, [Next]_vars PROVE HedgeInv'
  OBVIOUS
<1>1. CASE RunCycle
  BY <1>1, HedgeOpenHedge, HedgePlaceOrders, HedgeCloseOrders, HedgeBookings,
     HedgeTakeProfit, HedgeDecisions DEF RunCycle
<1>2. CASE HandleStream
  BY <1>2, HedgeFilled, HedgeFailed, HedgeRecovery DEF HandleStream, Receive
<1>3. CASE UNCHANGED vars
  <2>1. TypeOK'
    BY <1>3, TypeNext DEF HedgeInv
  <2>2. UNCHANGED <<memory, main, stream, handler, held, closed>>
    BY <1>3 DEF vars
  <2>3. \A t \in Sides : Counts(t)' <=> Counts(t)
    BY <2>2 DEF Counts, Queued
  <2> QED BY <2>1, <2>2, <2>3
          DEF HedgeInv, Quiet, DownIsNew, IdleIsQuiet, Closing,
          NoPhaseIsOrphaned, HedgedIsFilled, CountedIsHeld
<1> QED BY <1>1, <1>2, <1>3, HedgeStart, HedgeDie, HedgeStream DEF Next

(* The inductive invariant holds in every reachable state.                 *)
THEOREM HedgeInvariant == Spec => []HedgeInv
BY HedgeInit, HedgeNext, PTL DEF Spec

(* Neither thread leaves the other with a phase that no cycle continues: a *)
(* rebalancing knows its side, and profit is being taken only between the  *)
(* closing order and its booking.                                          *)
THEOREM NoPhaseOrphaned == Spec => []NoPhaseIsOrphaned
<1>1. HedgeInv => NoPhaseIsOrphaned
  BY DEF HedgeInv
<1> QED BY <1>1, HedgeInvariant, PTL

(* A leg that counts as filled is held, unless a closing order for it was  *)
(* executed in this life: fills may be reported late, in any interleaving  *)
(* with the cycles, and orders may fail, be recovered or be lost.          *)
THEOREM FilledLegsAreHeld == Spec => []FilledIsHeld
<1>1. HedgeInv => FilledIsHeld
  BY DEF HedgeInv, FilledIsHeld, CountedIsHeld, HedgedIsFilled, Counts
<1> QED BY <1>1, HedgeInvariant, PTL

-----------------------------------------------------------------------------
(* The budget of what is held.  An opening, a restore and a recovery may   *)
(* each still buy a unit of a side, and so may every failure whose report  *)
(* has yet to come: what is held and what may still be bought is explained *)
(* by the lives and the surplus so far.                                    *)

One(b) == IF b THEN 1 ELSE 0

(* This life's opening may still come, or has not ordered the side yet.    *)
OpeningDue(s) == \/ main.step # "down" /\ memory.phase = "IDLE"
                 \/ main.step = "long"
                 \/ main.step = "short" /\ s = "SHORT"

RestoreDue(s) == main.step = "restore" /\ main.side = s

RecoveryDue(s) == handler.step = "recover" /\ handler.side = s

Promised(s) == One(OpeningDue(s)) + One(RestoreDue(s)) + One(RecoveryDue(s))

(* The reports of failed orders of a side that are yet to be received.     *)
Failures(q, s) ==
  {i \in 1..Len(q) : q[i] = [kind |-> "failed", side |-> s]}

Balance(s) == Cardinality(Lots(s))
                + Unit * Cardinality(Failures(stream.reports, s)) - surplus[s]

BudgetInv ==
  \A s \in Sides : /\ IsFiniteSet(Lots(s))
                   /\ Balance(s) + Unit * Promised(s) <= Unit * counts.lives

-----------------------------------------------------------------------------
(* Counting lots                                                           *)

(* The lots from one above a to b of one symbol are b - a.                 *)
LEMMA LotsOfOne ==
  ASSUME NEW y, NEW a \in Nat, NEW b \in Nat, a <= b
  PROVE  /\ IsFiniteSet({y} \X (a+1..b))
         /\ Cardinality({y} \X (a+1..b)) = b - a
<1> DEFINE f == [k \in a+1..b |-> <<y, k>>]
<1>1. f \in Bijection(a+1..b, {y} \X (a+1..b))
  <2>1. f \in [a+1..b -> {y} \X (a+1..b)]
    OBVIOUS
  <2>2. \A k, l \in a+1..b : f[k] = f[l] => k = l
    OBVIOUS
  <2>3. ASSUME NEW t \in {y} \X (a+1..b) PROVE t[2] \in a+1..b /\ f[t[2]] = t
    OBVIOUS
  <2> HIDE DEF f
  <2> QED BY <2>1, <2>2, <2>3 DEF Bijection, Injection, Surjection, IsInjective
<1>2. a+1 \in Int /\ b \in Int /\ (a+1 > b => b - a = 0)
  OBVIOUS
<1>3. /\ IsFiniteSet(a+1..b)
      /\ Cardinality(a+1..b) = IF a+1 > b THEN 0 ELSE b - (a+1) + 1
  BY <1>2, FS_Interval
<1> QED BY <1>1, <1>2, <1>3, FS_Bijection DEF ExistsBijection

LEMMA LotsAddUp ==
  ASSUME NEW L, NEW N, IsFiniteSet(L), IsFiniteSet(N), L \cap N = {}
  PROVE  /\ IsFiniteSet(L \cup N)
         /\ Cardinality(L \cup N) = Cardinality(L) + Cardinality(N)
<1>1. /\ IsFiniteSet(L \cup N)
      /\ Cardinality(L \cup N) = Cardinality(L) + Cardinality(N) - Cardinality({})
  BY FS_Union
<1>2. Cardinality(L) \in Nat /\ Cardinality(N) \in Nat /\ Cardinality({}) = 0
  BY FS_CardinalityType, FS_EmptySet
<1> QED BY <1>1, <1>2

LEMMA LotIs ==
  ASSUME NEW s, NEW t
  PROVE  t \in Lots(s) <=> \E y \in Symbols : t \in {y} \X (1..held[y][s])
BY DEF Lots

LEMMA LotIsAfter ==
  ASSUME NEW s, NEW t
  PROVE  t \in Lots(s)' <=> \E y \in Symbols : t \in {y} \X (1..held'[y][s])
BY DEF Lots

(* An order moves lots of its side only: it adds what was bought, or takes *)
(* some away.                                                              *)
LEMMA MovedLots ==
  ASSUME TypeOK, memory.symbol \in Symbols, NEW s \in Sides, NEW c \in BOOLEAN,
         NEW q \in Nat, Moved(s, c, q), IsFiniteSet(Lots(s))
  PROVE  /\ \A t \in Sides : t # s => Lots(t)' = Lots(t)
         /\ IsFiniteSet(Lots(s)')
         /\ ~c => Cardinality(Lots(s)') = Cardinality(Lots(s)) + q
         /\ c => Cardinality(Lots(s)') <= Cardinality(Lots(s))
<1> PICK y : y = memory.symbol
  OBVIOUS
<1>1. PICK a : a = held[y][s]
  OBVIOUS
<1>2. held \in [Symbols -> [Sides -> Nat]] /\ y \in Symbols /\ a \in Nat
  BY <1>1, TypeParts DEF Holdings
<1>3. held' = [held EXCEPT ![y][s] = IF c THEN Larger(0, @ - q) ELSE @ + q]
  BY DEF Moved
<1>4. PICK b \in Nat : b = IF c THEN Larger(0, a - q) ELSE a + q
  <2>1. Larger(0, a - q) \in Nat /\ a + q \in Nat
    BY <1>2 DEF Larger
  <2> QED BY <2>1
<1>5. /\ held'[y][s] = b
      /\ \A x \in Symbols, t \in Sides :
           x # y \/ t # s => held'[x][t] = held[x][t]
  BY <1>1, <1>2, <1>3, <1>4
<1>6. ASSUME NEW t \in Sides, t # s PROVE Lots(t)' = Lots(t)
  <2>1. ASSUME NEW u PROVE u \in Lots(t)' <=> u \in Lots(t)
    BY <1>5, <1>6, LotIs, LotIsAfter
  <2> QED BY <2>1
<1>7. CASE ~c
  <2>1. b = a + q
    BY <1>4, <1>7
  <2>2. {y} \X (1..b) = ({y} \X (1..a)) \cup ({y} \X (a+1..b))
    BY <1>2, <2>1
  <2>3. ASSUME NEW u
        PROVE  u \in Lots(s)' <=> u \in Lots(s) \/ u \in {y} \X (a+1..b)
    <3>1. u \in {y} \X (1..held'[y][s])
            <=> u \in {y} \X (1..held[y][s]) \/ u \in {y} \X (a+1..b)
      BY <1>1, <1>5, <2>2
    <3>2. \A x \in Symbols : x # y =>
            {x} \X (1..held'[x][s]) = {x} \X (1..held[x][s])
      BY <1>5
    <3> QED BY <1>2, <3>1, <3>2, LotIs, LotIsAfter
  <2>4. PICK L, N : L = Lots(s) /\ N = {y} \X (a+1..b)
    OBVIOUS
  <2>5. L \cap N = {}
    BY <1>1, <1>2, <2>4, LotIs
  <2>6. Lots(s)' = L \cup N
    BY <2>3, <2>4
  <2>7. IsFiniteSet(N) /\ Cardinality(N) = q
    <3>1. a <= b /\ b - a = q
      BY <1>2, <2>1
    <3>2. IsFiniteSet(N) /\ Cardinality(N) = b - a
      BY <1>2, <2>4, <3>1, LotsOfOne
    <3> QED BY <3>1, <3>2
  <2>8. IsFiniteSet(L \cup N) /\ Cardinality(L \cup N) = Cardinality(L) + q
    BY <2>4, <2>5, <2>7, LotsAddUp
  <2> QED BY <1>6, <1>7, <2>4, <2>6, <2>8
<1>8. CASE c
  <2>1. b <= a
    BY <1>2, <1>4, <1>8 DEF Larger
  <2>2. \A x \in Symbols : {x} \X (1..held'[x][s]) \subseteq {x} \X (1..held[x][s])
    BY <1>1, <1>2, <1>5, <2>1
  <2>3. ASSUME NEW u \in Lots(s)' PROVE u \in Lots(s)
    BY <2>2, LotIs, LotIsAfter
  <2>4. PICK L, M : L = Lots(s) /\ M = Lots(s)'
    OBVIOUS
  <2>5. IsFiniteSet(M) /\ Cardinality(M) <= Cardinality(L)
    BY <2>3, <2>4, FS_Subset
  <2> QED BY <1>6, <1>8, <2>4, <2>5
<1> QED BY <1>7, <1>8

-----------------------------------------------------------------------------
(* Counting reports                                                        *)

LEMMA FailuresAreFinite ==
  ASSUME NEW q \in Seq(Reports), NEW s
  PROVE  IsFiniteSet(Failures(q, s)) /\ Cardinality(Failures(q, s)) \in Nat
<1>1. Len(q) \in Nat /\ Failures(q, s) \in SUBSET (1..Len(q))
  BY LenProperties DEF Failures
<1>2. IsFiniteSet(1..Len(q))
  BY <1>1, FS_Interval
<1> QED BY <1>1, <1>2, FS_Subset, FS_CardinalityType

LEMMA NoFailures ==
  ASSUME NEW s
  PROVE  Cardinality(Failures(<< >>, s)) = 0
BY FS_EmptySet DEF Failures

LEMMA FailuresAppend ==
  ASSUME NEW q \in Seq(Reports), NEW r \in Reports, NEW s
  PROVE  Cardinality(Failures(Append(q, r), s))
           = Cardinality(Failures(q, s))
               + One(r = [kind |-> "failed", side |-> s])
<1>1. PICK n \in Nat : n = Len(q)
  BY LenProperties
<1>2. PICK p : p = Append(q, r)
  OBVIOUS
<1>3. Len(p) = n + 1 /\ p[n + 1] = r /\ \A i \in 1..n : p[i] = q[i]
  BY <1>1, <1>2, AppendProperties
<1>4. PICK F : F = Failures(q, s)
  OBVIOUS
<1>5. IsFiniteSet(F) /\ n + 1 \notin F /\ Cardinality(F) \in Nat
  BY <1>1, <1>4, FailuresAreFinite DEF Failures
<1>6. Failures(p, s)
        = IF r = [kind |-> "failed", side |-> s] THEN F \cup {n + 1} ELSE F
  BY <1>1, <1>3, <1>4 DEF Failures
<1>7. Cardinality(F \cup {n + 1}) = Cardinality(F) + 1
  BY <1>5, FS_AddElement
<1> QED BY <1>2, <1>4, <1>5, <1>6, <1>7 DEF One

LEMMA FailuresTail ==
  ASSUME NEW q \in Seq(Reports), q # << >>, NEW s
  PROVE  Cardinality(Failures(Tail(q), s))
           = Cardinality(Failures(q, s))
               - One(Head(q) = [kind |-> "failed", side |-> s])
<1>1. PICK n \in Nat : n = Len(q)
  BY LenProperties
<1>2. PICK p : p = Tail(q)
  OBVIOUS
<1>3. /\ Len(p) = n - 1 /\ n > 0 /\ Head(q) = q[1] /\ p \in Seq(Reports)
      /\ \A i \in 1..(n - 1) : p[i] = q[i + 1]
  BY <1>1, <1>2, HeadTailProperties, EmptySeq
<1>4. PICK F, G : F = Failures(q, s) /\ G = Failures(p, s)
  OBVIOUS
<1>5. /\ IsFiniteSet(F) /\ IsFiniteSet(G) /\ Cardinality(F) \in Nat
      /\ F \subseteq 1..n /\ G \subseteq 1..(n - 1)
      /\ \A i \in 1..(n - 1) : i \in G <=> i + 1 \in F
      /\ 1 \in F <=> Head(q) = [kind |-> "failed", side |-> s]
  BY <1>1, <1>3, <1>4, FailuresAreFinite DEF Failures
<1>6. Cardinality(F \ {1}) = Cardinality(G)
  <2> DEFINE f == [i \in G |-> i + 1]
  <2>1. f \in [G -> F \ {1}]
    BY <1>1, <1>5
  <2>2. \A i, j \in G : f[i] = f[j] => i = j
    BY <1>5
  <2>3. ASSUME NEW k \in F \ {1} PROVE k - 1 \in G /\ f[k - 1] = k
    BY <1>1, <1>5
  <2> HIDE DEF f
  <2>4. f \in Bijection(G, F \ {1})
    BY <2>1, <2>2, <2>3 DEF Bijection, Injection, Surjection, IsInjective
  <2> QED BY <1>5, <2>4, FS_Bijection DEF ExistsBijection
<1>7. Cardinality(F \ {1})
        = IF 1 \in F THEN Cardinality(F) - 1 ELSE Cardinality(F)
  BY <1>5, FS_RemoveElement
<1> QED BY <1>2, <1>4, <1>5, <1>6, <1>7 DEF One

-----------------------------------------------------------------------------
(* Balances                                                                *)

LEMMA BalanceType ==
  ASSUME TypeOK, NEW s \in Sides, IsFiniteSet(Lots(s))
  PROVE  /\ Balance(s) \in Int
         /\ Cardinality(Lots(s)) \in Nat
         /\ Cardinality(Failures(stream.reports, s)) \in Nat
         /\ surplus[s] \in Nat
         /\ Promised(s) \in 0..3
         /\ counts.lives \in Nat
<1>1. Cardinality(Lots(s)) \in Nat
  BY FS_CardinalityType
<1>2. Cardinality(Failures(stream.reports, s)) \in Nat
  BY FailuresAreFinite, TypeParts DEF Streams
<1>3. surplus[s] \in Nat /\ counts.lives \in Nat
  BY TypeParts DEF Counters
<1>4. Promised(s) \in 0..3
  BY DEF Promised, One
<1> QED BY <1>1, <1>2, <1>3, <1>4 DEF Balance, Unit

LEMMA BalanceAfter ==
  ASSUME NEW s
  PROVE  Balance(s)' = Cardinality(Lots(s)')
                         + Unit * Cardinality(Failures(stream'.reports, s))
                         - surplus'[s]
BY DEF Balance

LEMMA ReportedFailures ==
  ASSUME TypeOK, NEW k \in {"filled", "failed"}, NEW s \in Sides,
         NEW t \in Sides, stream' = Reported(k, s)
  PROVE  Cardinality(Failures(stream'.reports, t))
           <= Cardinality(Failures(stream.reports, t))
                + One(k = "failed" /\ t = s)
<1> PICK q, r : q = stream.reports /\ r = [kind |-> k, side |-> s]
  OBVIOUS
<1>1. stream \in Streams /\ q \in Seq(Reports) /\ r \in Reports
  BY TypeParts DEF Streams, Reports
<1>2. Cardinality(Failures(q, t)) \in Nat
  BY <1>1, FailuresAreFinite
<1>3. CASE stream.state = "up"
  <2>1. stream'.reports = Append(q, r)
    BY <1>1, <1>3 DEF Reported, Streams
  <2>2. Cardinality(Failures(Append(q, r), t))
          = Cardinality(Failures(q, t)) + One(r = [kind |-> "failed", side |-> t])
    BY <1>1, FailuresAppend
  <2>3. (r = [kind |-> "failed", side |-> t]) => k = "failed" /\ t = s
    OBVIOUS
  <2> QED BY <1>2, <2>1, <2>2, <2>3 DEF One
<1>4. CASE stream.state # "up"
  BY <1>2, <1>4 DEF Reported, One
<1> QED BY <1>3, <1>4

(* An order to buy a side uses up a unit that was promised to it, whether  *)
(* it is executed, in part or not at all; no order uses up more.           *)
LEMMA OrderBalance ==
  ASSUME TypeOK, memory.symbol \in Symbols, NEW s \in Sides, NEW c \in BOOLEAN,
         Ordered(s, c), \A t \in Sides : IsFiniteSet(Lots(t))
  PROVE  /\ counts'.lives = counts.lives
         /\ \A t \in Sides :
              /\ IsFiniteSet(Lots(t)')
              /\ Balance(t)' <= Balance(t) + Unit * One(t = s /\ ~c)
<1>1. CASE Executed(s, c)
  <2>1. /\ Moved(s, c, Unit) /\ stream' = Reported("filled", s)
        /\ UNCHANGED <<surplus, counts>> /\ Unit \in Nat
    BY <1>1 DEF Executed, Unit
  <2>2. ASSUME NEW t \in Sides
        PROVE  /\ IsFiniteSet(Lots(t)')
               /\ Balance(t)' <= Balance(t) + Unit * One(t = s /\ ~c)
    <3>1. PICK n, f, u, m, g :
            /\ n = Cardinality(Lots(t)) /\ m = Cardinality(Lots(t)')
            /\ f = Cardinality(Failures(stream.reports, t))
            /\ g = Cardinality(Failures(stream'.reports, t))
            /\ u = surplus[t]
      OBVIOUS
    <3>2. g <= f
      <4>1. g <= f + One("filled" = "failed" /\ t = s)
        BY <2>1, <3>1, ReportedFailures
      <4>2. f \in Nat
        BY <3>1, BalanceType
      <4> QED BY <4>1, <4>2 DEF One
    <3>3. IsFiniteSet(Lots(t)') /\ m <= n + Unit * One(t = s /\ ~c)
      <4>1. n \in Nat
        BY <3>1, BalanceType
      <4>2. CASE t # s
        BY <2>1, <3>1, <4>1, <4>2, MovedLots DEF One, Unit
      <4>3. CASE t = s /\ c
        <5>1. IsFiniteSet(Lots(t)') /\ m <= n
          BY <2>1, <3>1, <4>3, MovedLots
        <5> QED BY <4>1, <4>3, <5>1 DEF One, Unit
      <4>4. CASE t = s /\ ~c
        <5>1. IsFiniteSet(Lots(t)') /\ m = n + Unit
          BY <2>1, <3>1, <4>4, MovedLots
        <5> QED BY <4>1, <4>4, <5>1 DEF One, Unit
      <4> QED BY <4>2, <4>3, <4>4
    <3>4. /\ n \in Nat /\ f \in Nat /\ u \in Nat /\ m \in Nat /\ g \in Nat
      <4>1. n \in Nat /\ f \in Nat /\ u \in Nat
        BY <3>1, BalanceType
      <4>2. m \in Nat
        BY <3>1, <3>3, FS_CardinalityType
      <4>3. g \in Nat
        BY <2>1, <3>1, ReportedQueue, FailuresAreFinite DEF Streams
      <4> QED BY <4>1, <4>2, <4>3
    <3>5. Balance(t) = n + Unit * f - u /\ Balance(t)' = m + Unit * g - u
      BY <2>1, <3>1, BalanceAfter DEF Balance
    <3> QED BY <3>2, <3>3, <3>4, <3>5 DEF Unit, One
  <2> QED BY <2>1, <2>2
<1>2. CASE NotExecuted(s, c)
  <2>1. PICK part \in 0..(Unit - 1) :
          /\ Moved(s, c, part)
          /\ surplus' = [surplus EXCEPT ![s] = @ + IF c THEN Unit ELSE part]
    BY <1>2 DEF NotExecuted
  <2>2. /\ stream' = Reported("failed", s) /\ part \in Nat
        /\ counts'.lives = counts.lives
    BY <1>2, TypeParts DEF NotExecuted, Unit, Counters
  <2>3. ASSUME NEW t \in Sides
        PROVE  /\ IsFiniteSet(Lots(t)')
               /\ Balance(t)' <= Balance(t) + Unit * One(t = s /\ ~c)
    <3>1. PICK n, f, u, m, g, v :
            /\ n = Cardinality(Lots(t)) /\ m = Cardinality(Lots(t)')
            /\ f = Cardinality(Failures(stream.reports, t))
            /\ g = Cardinality(Failures(stream'.reports, t))
            /\ u = surplus[t] /\ v = surplus'[t]
      OBVIOUS
    <3>2. g <= f + One(t = s)
      <4>1. g <= f + One("failed" = "failed" /\ t = s)
        BY <2>2, <3>1, ReportedFailures
      <4> QED BY <4>1 DEF One
    <3>3. n \in Nat /\ f \in Nat /\ u \in Nat
      BY <3>1, BalanceType
    <3>4. /\ IsFiniteSet(Lots(t)')
          /\ t # s => m = n /\ v = u
          /\ t = s /\ c => m <= n /\ v = u + Unit
          /\ t = s /\ ~c => m = n + part /\ v = u + part
      <4>1. surplus \in [Sides -> Nat]
        BY TypeParts
      <4>2. v = IF t = s THEN u + (IF c THEN Unit ELSE part) ELSE u
        BY <2>1, <3>1, <4>1
      <4>3. CASE t # s
        BY <2>1, <2>2, <3>1, <4>2, <4>3, MovedLots
      <4>4. CASE t = s
        BY <2>1, <2>2, <3>1, <4>2, <4>4, MovedLots
      <4> QED BY <4>3, <4>4
    <3>5. m \in Nat /\ g \in Nat /\ v \in Nat
      <4>1. m \in Nat
        BY <3>1, <3>4, FS_CardinalityType
      <4>2. g \in Nat
        BY <2>2, <3>1, ReportedQueue, FailuresAreFinite DEF Streams
      <4>3. v \in Nat
        BY <2>2, <3>3, <3>4 DEF Unit
      <4> QED BY <4>1, <4>2, <4>3
    <3>6. Balance(t) = n + Unit * f - u /\ Balance(t)' = m + Unit * g - v
      BY <3>1, BalanceAfter DEF Balance
    <3>7. CASE t # s
      BY <3>2, <3>3, <3>4, <3>5, <3>6, <3>7 DEF Unit, One
    <3>8. CASE t = s /\ c
      BY <3>2, <3>3, <3>4, <3>5, <3>6, <3>8 DEF Unit, One
    <3>9. CASE t = s /\ ~c
      BY <2>2, <3>2, <3>3, <3>4, <3>5, <3>6, <3>9 DEF Unit, One
    <3> QED BY <3>4, <3>7, <3>8, <3>9
  <2> QED BY <2>2, <2>3
<1> QED BY <1>1, <1>2 DEF Ordered

(* A step that orders nothing leaves the lots; what the queue and the      *)
(* surplus make of it is the rest of the balance.                          *)
LEMMA NoOrderBalance ==
  ASSUME TypeOK, TypeOK', NEW t \in Sides, IsFiniteSet(Lots(t)), held' = held
  PROVE  /\ IsFiniteSet(Lots(t)')
         /\ Balance(t)' = Balance(t)
              + Unit * (Cardinality(Failures(stream'.reports, t))
                          - Cardinality(Failures(stream.reports, t)))
              + (surplus[t] - surplus'[t])
<1>1. PICK n, f, u, g, v :
        /\ n = Cardinality(Lots(t))
        /\ f = Cardinality(Failures(stream.reports, t))
        /\ g = Cardinality(Failures(stream'.reports, t))
        /\ u = surplus[t] /\ v = surplus'[t]
  OBVIOUS
<1>2. Lots(t)' = Lots(t)
  BY DEF Lots
<1>3. n \in Nat /\ f \in Nat /\ u \in Nat
  BY <1>1, BalanceType
<1>4. g \in Nat /\ v \in Nat
  BY <1>1, FailuresAreFinite DEF TypeOK
<1>5. Balance(t) = n + Unit * f - u /\ Balance(t)' = n + Unit * g - v
  BY <1>1, <1>2, BalanceAfter DEF Balance
<1>6. Balance(t)' = Balance(t) + Unit * (g - f) + (u - v)
  BY <1>3, <1>4, <1>5 DEF Unit
<1> QED BY <1>1, <1>2, <1>6

(* No more is bought or promised than was promised before.                 *)
LEMMA BudgetKept ==
  ASSUME TypeOK, TypeOK', BudgetInv, counts'.lives = counts.lives,
         \A t \in Sides :
           /\ IsFiniteSet(Lots(t)')
           /\ \E d \in Int : /\ Balance(t)' <= Balance(t) + Unit * d
                             /\ Promised(t)' + d <= Promised(t)
  PROVE  BudgetInv'
<1> SUFFICES ASSUME NEW t \in Sides
             PROVE  /\ IsFiniteSet(Lots(t)')
                    /\ Balance(t)' + Unit * Promised(t)' <= Unit * counts'.lives
  BY DEF BudgetInv
<1>1. PICK d \in Int : /\ Balance(t)' <= Balance(t) + Unit * d
                       /\ Promised(t)' + d <= Promised(t)
  OBVIOUS
<1>2. PICK b, p, l, b2, p2 :
        /\ b = Balance(t) /\ p = Promised(t) /\ l = counts.lives
        /\ b2 = Balance(t)' /\ p2 = Promised(t)'
  OBVIOUS
<1>3. b \in Int /\ p \in Int /\ l \in Int
  BY <1>2, BalanceType DEF BudgetInv
<1>4. b2 \in Int /\ p2 \in Int
  <2>1. p2 \in Int
    BY <1>2 DEF Promised, One
  <2>2. /\ Cardinality(Lots(t)') \in Nat
        /\ Cardinality(Failures(stream'.reports, t)) \in Nat
        /\ surplus'[t] \in Nat
    BY FS_CardinalityType, FailuresAreFinite DEF TypeOK
  <2> QED BY <1>2, <2>1, <2>2, BalanceAfter DEF Unit
<1>5. b + Unit * p <= Unit * l
  BY <1>2 DEF BudgetInv
<1>6. b2 + Unit * p2 <= Unit * l
  BY <1>1, <1>2, <1>3, <1>4, <1>5 DEF Unit
<1> QED BY <1>2, <1>6

-----------------------------------------------------------------------------
(* The steps                                                               *)

(* Only a runner between two cycles, with nothing to handle, has yet to    *)
(* open its hedge.                                                         *)
LEMMA BusyIsNotIdle ==
  ASSUME HedgeInv,
         \/ main.step \notin {"down", "cycle"}
         \/ stream.reports # << >>
         \/ handler # NoOrder
  PROVE  memory.phase # "IDLE"
BY DEF HedgeInv, IdleIsQuiet, Quiet

(* A stream that broke or has just begun has no reports.                   *)
LEMMA EmptyQueue ==
  ASSUME TypeOK, NEW t \in Sides, stream'.reports = << >>
  PROVE  Cardinality(Failures(stream'.reports, t))
           - Cardinality(Failures(stream.reports, t)) <= 0
BY NoFailures, FailuresAreFinite DEF TypeOK

LEMMA BudgetInit == Init => BudgetInv
<1> SUFFICES ASSUME Init, NEW t \in Sides
             PROVE  /\ IsFiniteSet(Lots(t))
                    /\ Balance(t) + Unit * Promised(t) <= Unit * counts.lives
  BY DEF BudgetInv
<1>1. Lots(t) = {}
  BY DEF Init, Lots
<1>2. IsFiniteSet(Lots(t)) /\ Cardinality(Lots(t)) = 0
  BY <1>1, FS_EmptySet
<1>3. stream.reports = << >> /\ surplus[t] = 0 /\ counts.lives = 0
  BY DEF Init, NoStream, Stream
<1>4. Balance(t) = 0
  BY <1>2, <1>3, NoFailures DEF Balance, Unit
<1>5. Promised(t) = 0
  BY DEF Init, Promised, OpeningDue, RestoreDue, RecoveryDue, One, Down,
     NoOrder, At
<1> QED BY <1>2, <1>3, <1>4, <1>5 DEF Unit

(* A new life may open one hedge.                                          *)
LEMMA BudgetStart == HedgeInv /\ BudgetInv /\ Start => BudgetInv'
<1> SUFFICES ASSUME HedgeInv, BudgetInv, Start, NEW t \in Sides
             PROVE  /\ IsFiniteSet(Lots(t)')
                    /\ Balance(t)' + Unit * Promised(t)' <= Unit * counts'.lives
  BY DEF BudgetInv
<1>1. /\ TypeOK /\ TypeOK' /\ IsFiniteSet(Lots(t))
      /\ Balance(t) + Unit * Promised(t) <= Unit * counts.lives
  BY TypeStart DEF HedgeInv, BudgetInv
<1>2. /\ held' = held /\ surplus' = surplus /\ handler' = handler
      /\ stream'.reports = << >> /\ counts'.lives = counts.lives + 1
      /\ main.step = "down" /\ main'.step = "cycle"
  BY <1>1, TypeParts DEF Start, Stream, Counters, Down, Idle, At
<1> PICK e : e = Cardinality(Failures(stream'.reports, t))
                   - Cardinality(Failures(stream.reports, t))
  OBVIOUS
<1>3. e \in Int /\ e <= 0
  <2>1. e <= 0
    BY <1>1, <1>2, EmptyQueue
  <2>2. e \in Int
    BY <1>1, FailuresAreFinite DEF TypeOK
  <2> QED BY <2>1, <2>2
<1>4. IsFiniteSet(Lots(t)') /\ Balance(t)' = Balance(t) + Unit * e
  <2>1. surplus[t] - surplus'[t] = 0
    BY <1>1, <1>2, BalanceType
  <2>2. /\ IsFiniteSet(Lots(t)')
        /\ Balance(t)' = Balance(t) + Unit * e + (surplus[t] - surplus'[t])
    BY <1>1, <1>2, NoOrderBalance
  <2> QED BY <1>1, <1>3, <2>1, <2>2, BalanceType DEF Unit
<1>5. Promised(t)' <= Promised(t) + 1 /\ Promised(t)' \in Int
  BY <1>2 DEF Promised, OpeningDue, RestoreDue, RecoveryDue, One
<1>6. Balance(t) \in Int /\ Promised(t) \in Int /\ counts.lives \in Int
  BY <1>1, BalanceType
<1> QED BY <1>1, <1>2, <1>3, <1>4, <1>5, <1>6 DEF Unit

(* A step that orders nothing, leaves the surplus, receives no failure and *)
(* promises nothing new.                                                   *)
LEMMA BudgetOfPause ==
  ASSUME TypeOK, TypeOK', BudgetInv, counts'.lives = counts.lives,
         held' = held, surplus' = surplus,
         stream'.reports = << >> \/ stream'.reports = stream.reports,
         \A t \in Sides : Promised(t)' <= Promised(t)
  PROVE  BudgetInv'
<1>1. ASSUME NEW t \in Sides
      PROVE  /\ IsFiniteSet(Lots(t)')
             /\ Balance(t)' <= Balance(t) + Unit * 0
             /\ Promised(t)' + 0 <= Promised(t)
  <2>1. PICK e : e = Cardinality(Failures(stream'.reports, t))
                       - Cardinality(Failures(stream.reports, t))
    OBVIOUS
  <2>2. e \in Int /\ e <= 0
    <3>1. /\ Cardinality(Failures(stream'.reports, t)) \in Nat
          /\ Cardinality(Failures(stream.reports, t)) \in Nat
      BY FailuresAreFinite DEF TypeOK
    <3>2. CASE stream'.reports = << >>
      BY <2>1, <3>1, <3>2, EmptyQueue
    <3>3. CASE stream'.reports = stream.reports
      BY <2>1, <3>1, <3>3
    <3> QED BY <3>2, <3>3
  <2>3. IsFiniteSet(Lots(t)) /\ surplus[t] \in Nat /\ Balance(t) \in Int
    BY BalanceType DEF BudgetInv
  <2>4. /\ IsFiniteSet(Lots(t)')
        /\ Balance(t)' = Balance(t) + Unit * e + (surplus[t] - surplus'[t])
    BY <2>1, <2>3, NoOrderBalance
  <2>5. Promised(t)' \in Int /\ Promised(t) \in Int
    BY DEF Promised, One
  <2> QED BY <2>2, <2>3, <2>4, <2>5 DEF Unit
<1> QED BY <1>1, BudgetKept

LEMMA BudgetDie == HedgeInv /\ BudgetInv /\ Die => BudgetInv'
<1> SUFFICES ASSUME HedgeInv, BudgetInv, Die PROVE BudgetInv'
  OBVIOUS
<1>1. TypeOK /\ TypeOK'
  BY TypeDie DEF HedgeInv
<1>2. \A t \in Sides : Promised(t)' <= Promised(t)
  BY DEF Die, Down, NoOrder, At, Promised, OpeningDue, RestoreDue, RecoveryDue,
     One
<1> QED BY <1>1, <1>2, BudgetOfPause DEF Die, NoStream, Stream

(* The steps of the main thread that order nothing and grant nothing.      *)
LEMMA BudgetMain ==
  HedgeInv /\ BudgetInv /\ (\/ \E y \in Symbols : OpenHedge(y)
                            \/ HardPause \/ KeepHedge \/ BookClose \/ ReduceRisk
                            \/ \E s \in Sides : TakeProfit(s))
    => BudgetInv'
<1> SUFFICES ASSUME HedgeInv, BudgetInv,
                    \/ \E y \in Symbols : OpenHedge(y)
                    \/ HardPause \/ KeepHedge \/ BookClose \/ ReduceRisk
                    \/ \E s \in Sides : TakeProfit(s)
             PROVE  BudgetInv'
  OBVIOUS
<1>1. TypeOK /\ TypeOK' /\ memory \in Memories
  BY TypeOpenHedge, TypeBookings, TypeDecisions, TypeParts DEF HedgeInv
<1>2. /\ UNCHANGED <<held, surplus, stream, handler>>
      /\ counts'.lives = counts.lives
  BY <1>1, TypeParts
     DEF OpenHedge, HardPause, KeepHedge, BookClose, ReduceRisk, TakeProfit,
     bookkeeping, ThreadOnly, Counters
<1>3. \/ /\ main.step = "cycle" /\ memory.phase = "IDLE" /\ main'.step = "long"
         /\ memory'.phase # "IDLE"
      \/ /\ main'.step \notin {"long", "short", "restore"}
         /\ memory'.phase # "IDLE"
  <2>1. ASSUME NEW y \in Symbols, OpenHedge(y)
        PROVE  /\ main.step = "cycle" /\ memory.phase = "IDLE"
               /\ main'.step = "long" /\ memory'.phase # "IDLE"
    BY <1>1, <2>1 DEF OpenHedge, MayOpen, Idle, At, Memories
  <2>2. CASE HardPause
    BY <1>1, <2>2 DEF HardPause, Idle, At, Memories
  <2>3. CASE KeepHedge
    BY <1>1, <2>3 DEF KeepHedge, Idle, At, Memories
  <2>4. CASE BookClose
    <3>1. memory.phase # "IDLE"
      BY <2>4, BusyIsNotIdle DEF BookClose
    <3>2. memory' = Closed(memory, main.side)
      BY <2>4 DEF BookClose
    <3>3. memory'.phase # "IDLE"
      BY <1>1, <3>1, <3>2 DEF Closed, Memories
    <3> QED BY <2>4, <3>3 DEF BookClose, At
  <2>5. CASE ReduceRisk
    BY <1>1, <2>5 DEF ReduceRisk, Idle, At, Memories
  <2>6. ASSUME NEW s \in Sides, TakeProfit(s)
        PROVE  memory'.phase # "IDLE" /\ main'.step = "close"
    BY <1>1, <2>6 DEF TakeProfit, At, Memories
  <2> QED BY <2>1, <2>2, <2>3, <2>4, <2>5, <2>6
<1>4. \A t \in Sides : Promised(t)' <= Promised(t)
  BY <1>2, <1>3 DEF Promised, OpeningDue, RestoreDue, RecoveryDue, One
<1> QED BY <1>1, <1>2, <1>4, BudgetOfPause

(* The orders of either thread: a side that buys has one promise fewer.    *)
LEMMA BudgetOfOrder ==
  ASSUME HedgeInv, BudgetInv, TypeOK', memory.symbol \in Symbols,
         NEW s \in Sides, NEW c \in BOOLEAN, Ordered(s, c),
         \A t \in Sides : Promised(t)' + One(t = s /\ ~c) <= Promised(t)
  PROVE  BudgetInv'
<1>1. TypeOK /\ \A t \in Sides : IsFiniteSet(Lots(t))
  BY DEF HedgeInv, BudgetInv
<1>2. /\ counts'.lives = counts.lives
      /\ \A t \in Sides :
           /\ IsFiniteSet(Lots(t)')
           /\ Balance(t)' <= Balance(t) + Unit * One(t = s /\ ~c)
  BY <1>1, OrderBalance
<1>3. \A t \in Sides : One(t = s /\ ~c) \in Int
  BY DEF One
<1> QED BY <1>1, <1>2, <1>3, BudgetKept

LEMMA BudgetPlaceOrders ==
  HedgeInv /\ BudgetInv /\ (PlaceLong \/ PlaceShort \/ PlaceRestore)
    => BudgetInv'
<1> SUFFICES ASSUME HedgeInv, BudgetInv, PlaceLong \/ PlaceShort \/ PlaceRestore
             PROVE  BudgetInv'
  OBVIOUS
<1>1. /\ TypeOK /\ TypeOK' /\ memory.symbol \in Symbols /\ memory.phase # "IDLE"
      /\ handler' = handler /\ memory' = memory
  BY TypePlaceOrders, HasSymbol, BusyIsNotIdle
     DEF HedgeInv, PlaceLong, PlaceShort, PlaceRestore, ThreadOnly
<1>2. PICK s \in Sides :
        /\ Place(s)
        /\ \/ main.step = "long" /\ s = "LONG" /\ main'.step = "short"
           \/ main.step = "short" /\ s = "SHORT" /\ main'.step = "cycle"
           \/ main.step = "restore" /\ s = main.side /\ main'.step = "cycle"
  <2>1. CASE PlaceLong
    BY <2>1 DEF PlaceLong, Sides, At
  <2>2. CASE PlaceShort
    BY <2>2 DEF PlaceShort, Sides, Idle, At
  <2>3. CASE PlaceRestore
    <3>1. main.side \in Sides
      BY <1>1 DEF TypeOK
    <3> QED BY <2>3, <3>1 DEF PlaceRestore, Idle, At
  <2> QED BY <2>1, <2>2, <2>3
<1>3. Ordered(s, FALSE)
  BY <1>2, PlaceOrders
<1>4. ASSUME NEW t \in Sides
      PROVE  Promised(t)' + One(t = s /\ ~FALSE) <= Promised(t)
  BY <1>1, <1>2 DEF Promised, OpeningDue, RestoreDue, RecoveryDue, One, Sides
<1> QED BY <1>1, <1>3, <1>4, BudgetOfOrder

LEMMA BudgetCloseOrders ==
  HedgeInv /\ BudgetInv /\ (CloseLeg \/ Flatten) => BudgetInv'
<1> SUFFICES ASSUME HedgeInv, BudgetInv, CloseLeg \/ Flatten PROVE BudgetInv'
  OBVIOUS
<1>1. /\ TypeOK /\ TypeOK' /\ memory.symbol \in Symbols /\ memory.phase # "IDLE"
      /\ handler' = handler /\ memory' = memory
      /\ main'.step \in {"book", "pause"}
  BY TypeCloseOrders, HasSymbol, BusyIsNotIdle
     DEF HedgeInv, CloseLeg, Flatten, ThreadOnly, At
<1>2. main.side \in Sides /\ Close(main.side)
  BY <1>1 DEF CloseLeg, Flatten, TypeOK
<1>3. PICK s \in Sides : Ordered(s, TRUE)
  BY <1>2, PlaceOrders
<1>4. ASSUME NEW t \in Sides
      PROVE  Promised(t)' + One(t = s /\ ~TRUE) <= Promised(t)
  BY <1>1 DEF Promised, OpeningDue, RestoreDue, RecoveryDue, One
<1> QED BY <1>1, <1>3, <1>4, BudgetOfOrder

(* The recovery of a failed opening uses up what was promised for it.      *)
LEMMA BudgetRecovery == HedgeInv /\ BudgetInv /\ Recovery => BudgetInv'
<1> SUFFICES ASSUME HedgeInv, BudgetInv, Recovery PROVE BudgetInv'
  OBVIOUS
<1>1. /\ TypeOK /\ TypeOK' /\ memory.symbol \in Symbols
      /\ handler.side \in Sides /\ handler.step \in {"recover", "flatten"}
      /\ UNCHANGED <<main, memory>> /\ handler'.step = "none"
  <2>1. TypeOK /\ TypeOK' /\ handler # NoOrder
    BY TypeRecovery DEF HedgeInv, Recovery
  <2>2. memory.symbol \in Symbols
    BY <2>1, HasSymbol DEF HedgeInv
  <2>3. UNCHANGED <<main, memory>> /\ handler'.step = "none"
    BY DEF Recovery, NoOrder, At
  <2> QED BY <2>1, <2>2, <2>3 DEF TypeOK, Orders
<1>2. PICK s \in Sides : s = handler.side
  BY <1>1
<1>3. CASE handler.step = "recover"
  <2>1. Ordered(s, FALSE)
    BY <1>2, <1>3, PlaceOrders DEF Recovery
  <2>2. ASSUME NEW t \in Sides
        PROVE  Promised(t)' + One(t = s /\ ~FALSE) <= Promised(t)
    BY <1>1, <1>2, <1>3
       DEF Promised, OpeningDue, RestoreDue, RecoveryDue, One
  <2> QED BY <1>1, <2>1, <2>2, BudgetOfOrder
<1>4. CASE handler.step = "flatten"
  <2>1. Ordered(s, TRUE)
    BY <1>2, <1>4, PlaceOrders DEF Recovery
  <2>2. ASSUME NEW t \in Sides
        PROVE  Promised(t)' + One(t = s /\ ~TRUE) <= Promised(t)
    BY <1>1, <1>4 DEF Promised, OpeningDue, RestoreDue, RecoveryDue, One
  <2> QED BY <1>1, <2>1, <2>2, BudgetOfOrder
<1> QED BY <1>1, <1>3, <1>4

(* A restore is granted with a unit of surplus.                            *)
LEMMA BudgetDecisions ==
  HedgeInv /\ BudgetInv /\ (Decide \/ ContinueRebalancing) => BudgetInv'
<1> SUFFICES ASSUME HedgeInv, BudgetInv, Decide \/ ContinueRebalancing
             PROVE  BudgetInv'
  OBVIOUS
<1>1. /\ TypeOK /\ TypeOK' /\ surplus \in [Sides -> Nat]
      /\ UNCHANGED <<held, stream, handler, memory>>
      /\ main.step \in {"decide", "cycle"} /\ main.side \in Sides
  BY TypeDecisions, TypeParts
     DEF HedgeInv, Decide, ContinueRebalancing, ThreadOnly, Idle, At, Places
<1>2. counts'.lives = counts.lives
  BY <1>1, TypeParts DEF Decide, ContinueRebalancing, Counters
<1>3. memory.phase # "IDLE"
  BY BusyIsNotIdle DEF Decide, ContinueRebalancing
<1>4. CASE surplus' = surplus
  <2>1. main'.step \in {"cycle", "flatten"} \/ surplus' # surplus
    <3>1. \A s \in Sides : [surplus EXCEPT ![s] = @ + Unit] # surplus
      <4>1. ASSUME NEW s \in Sides, [surplus EXCEPT ![s] = @ + Unit] = surplus
            PROVE  FALSE
        <5>1. surplus[s] + Unit = surplus[s]
          BY <1>1, <4>1
        <5> QED BY <1>1, <5>1 DEF Unit
      <4> QED BY <4>1
    <3> QED BY <1>1, <3>1 DEF Decide, ContinueRebalancing, At, Idle, TypeOK
  <2>2. \A t \in Sides : Promised(t)' <= Promised(t)
    BY <1>1, <1>3, <1>4, <2>1
       DEF Promised, OpeningDue, RestoreDue, RecoveryDue, One
  <2> QED BY <1>1, <1>2, <1>4, <2>2, BudgetOfPause
<1>5. CASE surplus' # surplus
  <2>1. PICK s \in Sides : /\ surplus' = [surplus EXCEPT ![s] = @ + Unit]
                           /\ main'.step = "restore" /\ main'.side = s
    <3>1. CASE Decide
      BY <1>1, <1>5, <3>1 DEF Decide, At
    <3>2. CASE ContinueRebalancing
      BY <1>1, <1>5, <3>2 DEF ContinueRebalancing, At
    <3> QED BY <3>1, <3>2
  <2>2. ASSUME NEW t \in Sides
        PROVE  /\ IsFiniteSet(Lots(t)')
               /\ Balance(t)' <= Balance(t) + Unit * (-One(t = s))
               /\ Promised(t)' + (-One(t = s)) <= Promised(t)
               /\ -One(t = s) \in Int
    <3>1. /\ IsFiniteSet(Lots(t)) /\ Balance(t) \in Int
          /\ Cardinality(Failures(stream.reports, t)) \in Nat
      BY <1>1, BalanceType DEF BudgetInv
    <3>2. surplus[t] - surplus'[t] = -(Unit * One(t = s))
      BY <1>1, <2>1 DEF One, Unit
    <3>3. Cardinality(Failures(stream'.reports, t))
            - Cardinality(Failures(stream.reports, t)) = 0
      BY <1>1, <3>1
    <3>4. /\ IsFiniteSet(Lots(t)')
          /\ Balance(t)' = Balance(t)
               + Unit * (Cardinality(Failures(stream'.reports, t))
                           - Cardinality(Failures(stream.reports, t)))
               + (surplus[t] - surplus'[t])
      BY <1>1, <3>1, NoOrderBalance
    <3>5. Promised(t)' <= Promised(t) + One(t = s)
      BY <1>1, <1>3, <2>1
         DEF Promised, OpeningDue, RestoreDue, RecoveryDue, One
    <3> QED BY <3>1, <3>2, <3>3, <3>4, <3>5 DEF One, Unit, Promised
  <2> QED BY <1>1, <1>2, <2>2, BudgetKept
<1> QED BY <1>4, <1>5

(* A stream that connects or breaks has no reports, and its order is lost. *)
LEMMA BudgetStream == HedgeInv /\ BudgetInv /\ (Connect \/ Disconnect) => BudgetInv'
<1> SUFFICES ASSUME HedgeInv, BudgetInv, Connect \/ Disconnect PROVE BudgetInv'
  OBVIOUS
<1>1. TypeOK /\ TypeOK'
  BY TypeStream DEF HedgeInv
<1>2. /\ stream'.reports = << >> /\ handler' \in {handler, NoOrder}
      /\ UNCHANGED <<memory, main, held, surplus, counts>>
  BY <1>1, BrokenIsEmpty DEF Connect, Disconnect, NoStream, Stream, bookkeeping
<1>3. \A t \in Sides : Promised(t)' <= Promised(t)
  BY <1>2 DEF Promised, OpeningDue, RestoreDue, RecoveryDue, One, NoOrder, At
<1> QED BY <1>1, <1>2, <1>3, BudgetOfPause

(* A failure that is received becomes the promise of a recovery, or none.  *)
LEMMA BudgetReceive == HedgeInv /\ BudgetInv /\ Receive => BudgetInv'
<1> SUFFICES ASSUME HedgeInv, BudgetInv, Receive PROVE BudgetInv'
  OBVIOUS
<1>1. PICK q, r : q = stream.reports /\ r = Head(q)
  OBVIOUS
<1>2. /\ TypeOK /\ TypeOK' /\ memory \in Memories /\ q # << >> /\ r \in Reports
      /\ q \in Seq(Reports) /\ handler = NoOrder /\ memory.phase # "IDLE"
      /\ UNCHANGED <<main, held, surplus, counts>>
  BY <1>1, TypeReceive, TypeParts, ReceivedStream, BusyIsNotIdle
     DEF HedgeInv, Receive, bookkeeping, Streams
<1>3. r.side \in Sides /\ r.kind \in {"filled", "failed"}
  BY <1>2 DEF Reports
<1>4. memory'.phase # "IDLE"
  <2>1. CASE OnOrderFilled
    BY <1>1, <1>2, <1>3, <2>1 DEF OnOrderFilled, Filled, Memories
  <2>2. CASE OnOrderFailed
    BY <1>1, <1>2, <1>3, <2>2 DEF OnOrderFailed, Recover, FlattenFilled, Memories
  <2> QED BY <2>1, <2>2 DEF Receive
<1>5. \/ stream'.reports = << >> /\ handler'.step # "recover"
      \/ /\ stream'.reports = Tail(q)
         /\ \/ handler'.step # "recover"
            \/ r.kind = "failed" /\ handler'.side = r.side
  <2>1. Received.reports = Tail(q)
    BY <1>1, <1>2, ReceivedStream
  <2>2. NoOrder.step = "none"
    BY DEF NoOrder, At
  <2>3. stream' \in Broken => stream'.reports = << >>
    BY <1>2, BrokenIsEmpty
  <2>4. CASE OnOrderFilled
    BY <1>2, <2>1, <2>2, <2>3, <2>4 DEF OnOrderFilled, SavesOrBreaks
  <2>5. CASE r.kind = "failed" /\ Recover(r.side)
    <3>1. At("recover", r.side).side = r.side
      BY DEF At
    <3> QED BY <2>1, <2>2, <2>3, <2>5, <3>1 DEF Recover, SavesOrBreaks
  <2>6. CASE FlattenFilled(r.side)
    BY <2>1, <2>2, <2>6 DEF FlattenFilled, At
  <2> QED BY <1>1, <2>4, <2>5, <2>6 DEF Receive, OnOrderFailed
<1>6. ASSUME NEW t \in Sides
      PROVE  /\ IsFiniteSet(Lots(t)')
             /\ \E d \in Int : /\ Balance(t)' <= Balance(t) + Unit * d
                               /\ Promised(t)' + d <= Promised(t)
  <2>1. PICK f, g : /\ f = Cardinality(Failures(q, t))
                    /\ g = Cardinality(Failures(stream'.reports, t))
    OBVIOUS
  <2>2. f \in Nat /\ g \in Nat
    BY <1>2, <2>1, FailuresAreFinite DEF TypeOK
  <2>3. IsFiniteSet(Lots(t)) /\ surplus[t] \in Nat /\ Balance(t) \in Int
    BY <1>2, BalanceType DEF BudgetInv
  <2>4. /\ IsFiniteSet(Lots(t)')
        /\ Balance(t)' = Balance(t) + Unit * (g - f) + (surplus[t] - surplus'[t])
    BY <1>1, <1>2, <2>1, <2>3, NoOrderBalance
  <2>5. Balance(t)' = Balance(t) + Unit * (g - f)
    BY <1>2, <2>2, <2>3, <2>4 DEF Unit
  <2>6. Promised(t)' + (g - f) <= Promised(t)
    <3>1. /\ OpeningDue(t)' => OpeningDue(t)
          /\ RestoreDue(t)' <=> RestoreDue(t)
          /\ ~RecoveryDue(t)
      BY <1>2, <1>4 DEF OpeningDue, RestoreDue, RecoveryDue, NoOrder, At
    <3>2. g <= f /\ (RecoveryDue(t)' => g = f - 1)
      <4>1. CASE stream'.reports = << >> /\ handler'.step # "recover"
        BY <2>1, <2>2, <4>1, NoFailures DEF RecoveryDue
      <4>2. CASE /\ stream'.reports = Tail(q)
                 /\ \/ handler'.step # "recover"
                    \/ r.kind = "failed" /\ handler'.side = r.side
        <5>1. g = f - One(r = [kind |-> "failed", side |-> t])
          BY <1>1, <1>2, <2>1, <4>2, FailuresTail
        <5>2. RecoveryDue(t)' => r = [kind |-> "failed", side |-> t]
          BY <1>2, <4>2 DEF RecoveryDue, Reports
        <5> QED BY <2>2, <5>1, <5>2 DEF One
      <4> QED BY <1>5, <4>1, <4>2
    <3> QED BY <2>2, <3>1, <3>2 DEF Promised, One
  <2>7. g - f \in Int /\ Balance(t)' <= Balance(t) + Unit * (g - f)
    BY <2>2, <2>3, <2>5 DEF Unit
  <2> QED BY <2>4, <2>6, <2>7
<1> QED BY <1>2, <1>6, BudgetKept

LEMMA BudgetNext == HedgeInv /\ BudgetInv /\ [Next]_vars => BudgetInv'
<1> SUFFICES ASSUME HedgeInv, BudgetInv, [Next]_vars PROVE BudgetInv'
  OBVIOUS
<1>1. CASE RunCycle
  BY <1>1, BudgetMain, BudgetPlaceOrders, BudgetCloseOrders, BudgetDecisions
     DEF RunCycle
<1>2. CASE HandleStream
  BY <1>2, BudgetReceive, BudgetRecovery DEF HandleStream
<1>3. CASE UNCHANGED vars
  <2>1. TypeOK /\ TypeOK'
    BY <1>3, TypeNext DEF HedgeInv
  <2>2. UNCHANGED <<memory, main, stream, handler, held, surplus, counts>>
    BY <1>3 DEF vars
  <2>3. \A t \in Sides : Promised(t)' <= Promised(t)
    BY <2>2 DEF Promised, OpeningDue, RestoreDue, RecoveryDue, One
  <2> QED BY <2>1, <2>2, <2>3, BudgetOfPause
<1> QED BY <1>1, <1>2, <1>3, BudgetStart, BudgetDie, BudgetStream DEF Next

(* What is held of a side comes from one opening per life, from restores   *)
(* and from what failed orders executed or left to be recovered: lost and  *)
(* late reports, failures and the order of the two threads add nothing     *)
(* (LiveRunner.run_cycle beside LiveRuntime.handle_order_update).          *)
THEOREM ExposureIsExplained == Spec => []ExposureExplained
<1>1. HedgeInv /\ BudgetInv => ExposureExplained
  <2> SUFFICES ASSUME HedgeInv, BudgetInv, NEW s \in Sides
               PROVE  Cardinality(Lots(s)) <= Unit * counts.lives + surplus[s]
    BY DEF ExposureExplained
  <2>1. PICK n, f, u, l, p : /\ n = Cardinality(Lots(s)) /\ u = surplus[s]
                             /\ f = Cardinality(Failures(stream.reports, s))
                             /\ l = counts.lives /\ p = Promised(s)
    OBVIOUS
  <2>2. n \in Nat /\ f \in Nat /\ u \in Nat /\ l \in Nat /\ p \in 0..3
    BY <2>1, BalanceType DEF HedgeInv, BudgetInv
  <2>3. (n + Unit * f - u) + Unit * p <= Unit * l
    BY <2>1 DEF BudgetInv, Balance
  <2>4. n <= Unit * l + u
    BY <2>2, <2>3 DEF Unit
  <2> QED BY <2>1, <2>4
<1> QED BY <1>1, HedgeInit, HedgeNext, BudgetInit, BudgetNext, PTL DEF Spec
=============================================================================
