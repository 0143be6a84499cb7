------------------------------ MODULE LiveHedge ------------------------------
(***************************************************************************)
(* LiveRunner with live orders (dry_run off): the main thread runs cycles, *)
(* the background thread of LiveRuntime applies what the user stream       *)
(* reports of the orders, and both work on the same memory without a lock. *)
(* A step is what a thread does between two calls that leave the           *)
(* interpreter (a request to the exchange, a save); between two such calls *)
(* the other thread may run.  The process may die at any step: run_cycle   *)
(* lets every error through.  It is started again as bootstrap wires it:   *)
(* the orchestrator restores and reconciles a runner of its own, and the   *)
(* runtime works with another one, which starts empty.                     *)
(*                                                                         *)
(* An order is one Unit, the target notional at the price of the moment,   *)
(* and never too small to be placed; it is a market order, as it is with   *)
(* the USDC maker route off.  The capital steps are in ProfitLedger.       *)
(***************************************************************************)
EXTENDS Integers, Sequences, FiniteSets

CONSTANTS
  Symbols,        \* the candidate symbols
  NoSymbol,       \* None
  Stores,         \* "sqlite": a SqliteStateStore; "shared": a state store
                  \* that takes calls of any thread
  StreamRetries,  \* user_stream_retry_attempts
  MaxLives,       \* bound: processes started
  MaxFailures,    \* bound: accepted orders that are then not executed
  MaxHarvests,    \* bound: profits taken
  MaxRestores     \* bound: restores repeated in later cycles

ASSUME StoresAssumption == Stores \subseteq {"sqlite", "shared"}
ASSUME NoSymbolAssumption == NoSymbol \notin Symbols
ASSUME LiveBoundsAssumption ==
  /\ StreamRetries \in Nat /\ MaxLives \in Nat /\ MaxFailures \in Nat
  /\ MaxHarvests \in Nat /\ MaxRestores \in Nat

VARIABLES
  store,     \* kind of the state store
  memory,    \* LiveRunner's phase, symbol, filled, pending side and failures
  main,      \* what the main thread does next: a step and a side
  stream,    \* the user stream: its state, retries left, reports to come
  handler,   \* the order the stream thread is about to place
  saved,     \* the symbol in the hedge table
  held,      \* the exchange: units of each leg
  closed,    \* legs of which a closing order was executed in this life
  surplus,   \* per side: restore orders, and what recoveries have too much
  counts     \* lives, failures, harvests and restores so far

vars == <<store, memory, main, stream, handler, saved, held, closed, surplus,
          counts>>
bookkeeping == <<closed, surplus, counts>>

Sides == {"LONG", "SHORT"}
Opposite(s) == IF s = "LONG" THEN "SHORT" ELSE "LONG"

Unit == 2  \* an order, so that half of it may be executed

Larger(a, b) == IF a < b THEN b ELSE a

Phases == {"IDLE", "OPENING_HEDGE", "HEDGED", "TAKING_PROFIT", "REBALANCING",
           "PAUSED"}
Steps == {"down", "cycle", "long", "short", "close", "book", "decide",
          "restore", "flatten", "pause"}

At(step, s) == [step |-> step, side |-> s]
Idle == At("cycle", "LONG")
Down == At("down", "LONG")
NoOrder == At("none", "LONG")

NewMemory ==
  [phase |-> "IDLE", symbol |-> NoSymbol, filled |-> [s \in Sides |-> FALSE],
   pending |-> "NONE", failed |-> [s \in Sides |-> FALSE]]

Stream(state, retries) ==
  [state |-> state, retries |-> retries, reports |-> << >>]
NoStream == Stream("ended", 0)

Init ==
  /\ store \in Stores
  /\ memory = NewMemory
  /\ main = Down
  /\ stream = NoStream
  /\ handler = NoOrder
  /\ saved = NoSymbol
  /\ held = [y \in Symbols |-> [s \in Sides |-> 0]]
  /\ closed = {}
  /\ surplus = [s \in Sides |-> 0]
  /\ counts = [lives |-> 0, failures |-> 0, harvests |-> 0, restores |-> 0]

-----------------------------------------------------------------------------
(* The exchange executes an accepted order at once, or a part of it or     *)
(* nothing (EXPIRED, CANCELED); either is reported, to a connected stream. *)
(* Surplus is what a recovery of the whole order would then have too much. *)
Reported(kind, s) ==
  IF stream.state = "up"
    THEN [stream EXCEPT !.reports = Append(@, [kind |-> kind, side |-> s])]
    ELSE stream

Moved(s, closes, quantity) ==
  /\ held' = [held EXCEPT ![memory.symbol][s] =
                IF closes THEN Larger(0, @ - quantity) ELSE @ + quantity]
  /\ closed' = IF closes /\ quantity > 0 THEN closed \cup {s} ELSE closed

Executed(s, closes) ==
  /\ Moved(s, closes, Unit)
  /\ stream' = Reported("filled", s)
  /\ UNCHANGED <<surplus, counts>>

NotExecuted(s, closes) ==
  /\ counts.failures < MaxFailures
  /\ counts' = [counts EXCEPT !.failures = @ + 1]
  /\ stream' = Reported("failed", s)
  /\ \E part \in 0..(Unit - 1) :
       /\ Moved(s, closes, part)
       /\ surplus' = [surplus EXCEPT ![s] = @ + IF closes THEN Unit ELSE part]

(* place_um_order                                                          *)
Place(s) == Executed(s, FALSE) \/ NotExecuted(s, FALSE)

(* close_position: a reduce-only order is refused when nothing is held.    *)
Close(s) == /\ held[memory.symbol][s] > 0
            /\ Executed(s, TRUE) \/ NotExecuted(s, TRUE)

-----------------------------------------------------------------------------
(* The orchestrator reconciles the stored hedge with the account's, then   *)
(* the runtime begins with a new runner and a stream to connect.           *)
Routes == {y \in Symbols : \A s \in Sides : held[y][s] > 0}

Reconciled == /\ Cardinality(Routes) <= 1
              /\ saved = NoSymbol \/ Routes \subseteq {saved}

Start ==
  /\ main = Down
  /\ counts.lives < MaxLives
  /\ Reconciled
  /\ saved' = IF Routes = {} THEN NoSymbol ELSE CHOOSE y \in Routes : TRUE
  /\ memory' = NewMemory
  /\ main' = Idle
  /\ stream' = Stream("connecting", StreamRetries)
  /\ counts' = [counts EXCEPT !.lives = @ + 1]
  /\ UNCHANGED <<store, handler, held, closed, surplus>>

(* A call of the main thread raises (a refused order among them), or the   *)
(* machine stops.                                                          *)
Die ==
  /\ main # Down
  /\ main' = Down
  /\ memory' = NewMemory
  /\ stream' = NoStream
  /\ handler' = NoOrder
  /\ closed' = {}
  /\ UNCHANGED <<store, saved, held, surplus, counts>>

-----------------------------------------------------------------------------
(* The main thread: run_cycle                                              *)

ThreadOnly == UNCHANGED <<store, handler>>

(* Mutant: a hedge is opened anew after a stop.                            *)
MayOpenAnew(phase) == phase \in {"IDLE", "PAUSED"}

(* HedgeEngine.on_symbol_selected                                          *)
MayOpen(phase) == phase = "IDLE"

OpenHedge(y) ==
  /\ main = Idle
  /\ MayOpen(memory.phase)
  /\ memory' = [memory EXCEPT !.phase = "OPENING_HEDGE", !.symbol = y,
                              !.filled = [s \in Sides |-> FALSE]]
  /\ saved' = y
  /\ main' = At("long", "LONG")
  /\ UNCHANGED <<stream, held, bookkeeping>>
  /\ ThreadOnly

PlaceLong == /\ main.step = "long"
             /\ Place("LONG")
             /\ main' = At("short", "SHORT")
             /\ UNCHANGED <<memory, saved>>
             /\ ThreadOnly

PlaceShort == /\ main.step = "short"
              /\ Place("SHORT")
              /\ main' = Idle
              /\ UNCHANGED <<memory, saved>>
              /\ ThreadOnly

(* A hard limit ends the cycle.                                            *)
HardPause ==
  /\ main = Idle
  /\ memory.phase # "PAUSED"
  /\ memory' = [memory EXCEPT !.phase = "PAUSED"]
  /\ saved' = memory.symbol
  /\ UNCHANGED <<main, stream, held, bookkeeping>>
  /\ ThreadOnly

(* A leg shows profit, but the harvest rule refuses it.                    *)
KeepHedge ==
  /\ main = Idle
  /\ memory.phase = "HEDGED"
  /\ memory' = [memory EXCEPT !.filled = [s \in Sides |-> TRUE],
                              !.pending = "NONE"]
  /\ saved' = memory.symbol
  /\ UNCHANGED <<main, stream, held, bookkeeping>>
  /\ ThreadOnly

TakeProfit(s) ==
  /\ main = Idle
  /\ memory.phase = "HEDGED"
  /\ counts.harvests < MaxHarvests
  /\ memory' = [memory EXCEPT !.phase = "TAKING_PROFIT"]
  /\ main' = At("close", s)
  /\ UNCHANGED <<stream, saved, held, bookkeeping>>
  /\ ThreadOnly

CloseLeg == /\ main.step = "close"
            /\ Close(main.side)
            /\ main' = At("book", main.side)
            /\ UNCHANGED <<memory, saved>>
            /\ ThreadOnly

(* Mutant: the rebalancing begins before the side is pending.              *)
ClosedNotPending(x, s) ==
  [x EXCEPT !.filled[s] = FALSE,
            !.phase = IF @ = "TAKING_PROFIT" THEN "REBALANCING" ELSE @]

(* The leg counts as closed and the profit as taken; on_take_profit_       *)
(* completed moves on unless the other thread changed the phase.           *)
Closed(x, s) ==
  [x EXCEPT !.filled[s] = FALSE, !.pending = s,
            !.phase = IF @ = "TAKING_PROFIT" THEN "REBALANCING" ELSE @]

BookClose ==
  /\ main.step = "book"
  /\ memory' = Closed(memory, main.side)
  /\ saved' = memory.symbol
  /\ counts' = [counts EXCEPT !.harvests = @ + 1]
  /\ main' = At("decide", main.side)
  /\ UNCHANGED <<stream, held, closed, surplus>>
  /\ ThreadOnly

(* RebalancePlanner.decide after a harvest, which there is none of below   *)
(* the soft limit: the leg is restored now or in a later cycle, unless the *)
(* phase is another by now.                                                *)
Decide ==
  /\ main.step = "decide"
  /\ \/ /\ memory.phase = "REBALANCING"
        /\ main' = At("restore", main.side)
        /\ surplus' = [surplus EXCEPT ![main.side] = @ + Unit]
     \/ main' = Idle /\ UNCHANGED surplus
  /\ UNCHANGED <<memory, stream, saved, held, closed, counts>>
  /\ ThreadOnly

(* _maybe_continue_rebalancing: each later cycle restores or, below the    *)
(* soft limit, reduces.                                                    *)
ContinueRebalancing ==
  /\ main = Idle
  /\ memory.phase = "REBALANCING" /\ memory.pending \in Sides
  /\ \/ /\ counts.restores < MaxRestores
        /\ counts' = [counts EXCEPT !.restores = @ + 1]
        /\ surplus' = [surplus EXCEPT ![memory.pending] = @ + Unit]
        /\ main' = At("restore", memory.pending)
     \/ /\ main' = At("flatten", Opposite(memory.pending))
        /\ UNCHANGED <<counts, surplus>>
  /\ UNCHANGED <<memory, stream, saved, held, closed>>
  /\ ThreadOnly

(* _execute_restore_now: the state waits for the report of the fill.       *)
PlaceRestore == /\ main.step = "restore"
                /\ Place(main.side)
                /\ main' = Idle
                /\ UNCHANGED <<memory, saved>>
                /\ ThreadOnly

(* _execute_reduce_risk: the remaining leg is flattened, then the engine   *)
(* stops.                                                                  *)
Flatten == /\ main.step = "flatten"
           /\ Close(main.side)
           /\ main' = At("pause", main.side)
           /\ UNCHANGED <<memory, saved>>
           /\ ThreadOnly

ReduceRisk ==
  /\ main.step = "pause"
  /\ memory' = [memory EXCEPT !.phase = "PAUSED", !.pending = "NONE"]
  /\ saved' = memory.symbol
  /\ main' = Idle
  /\ UNCHANGED <<stream, held, bookkeeping>>
  /\ ThreadOnly

-----------------------------------------------------------------------------
(* The stream thread: run_user_stream_loop                                 *)

(* Mutant: the number of attempts is not checked.                          *)
BrokenUnchecked == {NoStream, Stream("connecting", stream.retries - 1)}

(* An error is retried with a new stream, as often as that is allowed and  *)
(* closing the old one succeeds; the reports in between are lost.          *)
Broken == {NoStream} \cup
          IF stream.retries > 0 THEN {Stream("connecting", stream.retries - 1)}
                                ELSE {}

Connect ==
  /\ stream.state = "connecting"
  /\ stream' \in {Stream("up", stream.retries), NoStream}
  /\ UNCHANGED <<store, memory, main, handler, saved, held, bookkeeping>>

(* The connection is closed, which ends the loop, or fails, which breaks   *)
(* it; an order about to be placed is not.                                 *)
Disconnect ==
  /\ stream.state = "up"
  /\ stream' \in Broken
  /\ handler' = NoOrder
  /\ UNCHANGED <<store, memory, main, saved, held, bookkeeping>>

Received == [stream EXCEPT !.reports = Tail(@)]

(* _persist_state of this thread: SQLite refuses a connection made by      *)
(* another thread, after the memory has changed.                           *)
SavesOrBreaks ==
  \/ /\ store = "shared"
     /\ saved' = memory.symbol
     /\ stream' = Received
  \/ /\ store = "sqlite"
     /\ UNCHANGED saved
     /\ stream' \in Broken

(* Mutant: the other leg is taken to be filled, too.                       *)
FilledBoth(x, s) ==
  [x EXCEPT !.filled = [t \in Sides |-> TRUE], !.failed[s] = FALSE,
            !.phase = "HEDGED", !.pending = "NONE"]

(* on_order_filled: a fill names a side, not what the order was for.       *)
Filled(x, s) ==
  LET noted == [x EXCEPT !.filled[s] = TRUE, !.failed[s] = FALSE]
  IN IF \A t \in Sides : noted.filled[t]
       THEN [noted EXCEPT !.phase = "HEDGED", !.pending = "NONE"] ELSE noted

OnOrderFilled ==
  LET report == Head(stream.reports)
  IN /\ report.kind = "filled"
     /\ memory' = Filled(memory, report.side)
     /\ SavesOrBreaks
     /\ UNCHANGED handler

(* Mutant: no failure is recovered.                                        *)
NeverFirstFailure(x, s) == FALSE

FirstFailure(x, s) == ~x.failed[s]

(* on_order_failed: the first failure of a leg is recovered, the next one  *)
(* flattens the leg that was filled; if none was, nothing is done.         *)
Recover(s) ==
  /\ FirstFailure(memory, s)
  /\ memory' = [memory EXCEPT !.failed[s] = TRUE]
  /\ SavesOrBreaks
  /\ handler' = IF store = "shared" THEN At("recover", s) ELSE NoOrder

FlattenFilled(s) ==
  /\ ~FirstFailure(memory, s)
  /\ handler' = IF memory.filled["LONG"] THEN At("flatten", "LONG")
                ELSE IF memory.filled["SHORT"] THEN At("flatten", "SHORT")
                ELSE NoOrder
  /\ stream' = Received
  /\ UNCHANGED <<memory, saved>>

OnOrderFailed ==
  LET report == Head(stream.reports)
  IN /\ report.kind = "failed"
     /\ Recover(report.side) \/ FlattenFilled(report.side)

Receive ==
  /\ stream.state = "up" /\ stream.reports # << >> /\ handler = NoOrder
  /\ OnOrderFilled \/ OnOrderFailed
  /\ UNCHANGED <<store, main, held, bookkeeping>>

(* _execute_recovery_action places the order.                              *)
Recovery ==
  /\ handler # NoOrder
  /\ IF handler.step = "recover" THEN Place(handler.side)
                                 ELSE Close(handler.side)
  /\ handler' = NoOrder
  /\ UNCHANGED <<store, memory, main, saved>>

-----------------------------------------------------------------------------
RunCycle ==
  \/ \E y \in Symbols : OpenHedge(y)
  \/ PlaceLong \/ PlaceShort
  \/ HardPause \/ KeepHedge
  \/ \E s \in Sides : TakeProfit(s)
  \/ CloseLeg \/ BookClose \/ Decide
  \/ ContinueRebalancing \/ PlaceRestore \/ Flatten \/ ReduceRisk

HandleStream == Receive \/ Recovery

Next == Start \/ Die \/ RunCycle \/ Connect \/ Disconnect \/ HandleStream

(* The main thread goes on with an opening it began, the stream thread     *)
(* with the reports it has: neither is postponed for ever.                 *)
Fairness == WF_vars(PlaceLong \/ PlaceShort) /\ WF_vars(HandleStream)

Spec == Init /\ [][Next]_vars /\ Fairness

-----------------------------------------------------------------------------
Orders == [step : {"recover", "flatten"}, side : Sides] \cup {NoOrder}
Reports == [kind : {"filled", "failed"}, side : Sides]

TypeOK ==
  /\ store \in Stores
  /\ memory \in [phase : Phases, symbol : Symbols \cup {NoSymbol},
                 filled : [Sides -> BOOLEAN], pending : Sides \cup {"NONE"},
                 failed : [Sides -> BOOLEAN]]
  /\ main \in [step : Steps, side : Sides]
  /\ stream \in [state : {"connecting", "up", "ended"}, retries : Nat,
                 reports : Seq(Reports)]
  /\ handler \in Orders
  /\ saved \in Symbols \cup {NoSymbol}
  /\ held \in [Symbols -> [Sides -> Nat]]
  /\ closed \subseteq Sides
  /\ surplus \in [Sides -> Nat]
  /\ counts \in [lives : Nat, failures : Nat, harvests : Nat, restores : Nat]

(* A leg that counts as filled is held, unless a closing order for it was  *)
(* executed in this life, and HEDGED is both legs filled but for one that  *)
(* is pending: whatever failed, was recovered or lost, an opening is never *)
(* taken for more than was bought.                                         *)
FilledIsHeld ==
  /\ \A s \in Sides \ closed :
       memory.filled[s] => held[memory.symbol][s] > 0
  /\ memory.phase = "HEDGED"
       => \A s \in Sides : memory.filled[s] \/ memory.pending = s

(* What is held of a side: units of a symbol, numbered from one.           *)
Lots(s) == UNION {{y} \X (1..held[y][s]) : y \in Symbols}

(* What is held of a side comes from one opening per life, from restores,  *)
(* from parts that were executed of failed orders, and from failed closing *)
(* orders, which are "recovered" too: repeated failures, lost reports and  *)
(* the order in which the two threads run add nothing.                     *)
ExposureExplained ==
  \A s \in Sides : Cardinality(Lots(s)) <= Unit * counts.lives + surplus[s]

(* A rebalancing always knows its side, and profit is being taken only     *)
(* between the closing order and its booking: neither thread leaves the    *)
(* other with a phase that no cycle continues.                             *)
NoPhaseIsOrphaned ==
  /\ memory.phase = "REBALANCING" => memory.pending \in Sides
  /\ memory.phase = "TAKING_PROFIT" => main.step \in {"close", "book"}

(* An opening whose reports can arrive, at most one of whose orders fails, *)
(* is recognised as hedged, whatever cycles come in between.               *)
OpeningNoticed ==
  \A n \in 0..MaxFailures :
    (main.step = "long" /\ stream.state = "up" /\ counts.failures = n)
      ~> \/ memory.phase = "HEDGED"
         \/ stream.state # "up"
         \/ counts.failures > n + 1

(* No hedge is opened beside one the account holds: README.md:15 says that *)
(* the state is saved so that a restarted runtime can resume safely.       *)
OpensBesideNone ==
  [][(\E y \in Symbols : OpenHedge(y)) => Routes = {}]_vars

(* Between two cycles HEDGED means that both legs are held: a test is      *)
(* named test_order_update_marks_hedged_only_after_both_legs_fill.         *)
HedgedHoldsBothLegs ==
  main = Idle /\ memory.phase = "HEDGED"
    => \A s \in Sides : held[memory.symbol][s] > 0
=============================================================================
