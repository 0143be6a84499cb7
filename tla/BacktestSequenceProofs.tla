----------------------- MODULE BacktestSequenceProofs -----------------------
(***************************************************************************)
(* What BacktestSequence says of phases, legs and switches holds for any   *)
(* number of symbols, any scores and any intervals, in particular for the  *)
(* minutes and the cooldown the configuration has.                         *)
(***************************************************************************)
EXTENDS BacktestSequence, TLAPS

Runtimes == [symbol : Symbols \cup {NoSymbol}, phase : Phases,
             pending : Sides \cup {"NONE"},
             switched : {NoMinute} \cup 0..(Day - 1), legs : SUBSET Sides]

(* PhaseMatchesLegs of any runtime state.                                  *)
Matches(r) ==
  /\ r.phase = "HEDGED" => r.legs = Sides
  /\ r.phase = "REBALANCING"
       => r.pending \in Sides /\ r.legs = Sides \ {r.pending}
  /\ r.phase \in {"IDLE", "PAUSED"} => r.legs = {}

(* A runtime state has no symbol just when it is idle.                     *)
IdleWithoutSymbol(r) == r.symbol = NoSymbol <=> r.phase = "IDLE"

(* A batch has a minute of the day or none.                                *)
Minutes == 0..(Day - 1)

(* The minutes of the day tell the age of a symbol up to whole days, if the*)
(* batch that switched to it told its minute.                              *)
AgeIsMinutes ==
  timed
    => /\ runtime.switched # NoMinute
       /\ \/ age = Day + Cooldown
          \/ \E k \in Nat : age = minute - runtime.switched + k * Day

SequenceInv == /\ TypeOK /\ Matches(runtime) /\ IdleWithoutSymbol(runtime)
               /\ AgeIsMinutes /\ SwitchesAreEarned

-----------------------------------------------------------------------------
(* Minutes                                                                 *)

LEMMA NextMinute ==
  ASSUME NEW m \in Nat
  PROVE  /\ m % Day \in 0..(Day - 1)
         /\ \E q \in Nat : m % Day = m - q * Day
<1> DEFINE q == m \div Day
<1>1. Day \in Nat /\ Day > 0
  BY MinutesAssumption
<1>2. m = Day * q + (m % Day) /\ m % Day \in 0..(Day - 1) /\ q \in Int
  BY <1>1
<1>3. q \in Nat
  BY <1>1
<1>4. Day * q = q * Day
  BY <1>1, <1>3
<1>5. m % Day = m - q * Day
  <2> DEFINE x == q * Day
  <2>1. x \in Nat /\ m = x + (m % Day)
    BY <1>1, <1>2, <1>3, <1>4
  <2> HIDE DEF x, q
  <2>2. m % Day = m - x
    BY <1>1, <1>2, <2>1
  <2> QED BY <2>2 DEF x
<1>6. m % Day \in 0..(Day - 1)
  BY <1>2
<1> HIDE DEF q
<1> QED BY <1>3, <1>5, <1>6

LEMMA SameMinute ==
  ASSUME NEW m \in 0..(Day - 1)
  PROVE  0 = m - m + 0 * Day /\ m # NoMinute
<1>1. m \in Nat /\ Day \in Nat /\ m # -1
  BY MinutesAssumption
<1>2. 0 * Day = 0 /\ m - m = 0
  BY <1>1
<1> QED BY <1>1, <1>2 DEF NoMinute

(* A difference of minutes of the day that is past the cooldown means that *)
(* as many minutes have passed.                                            *)
LEMMA PastCooldown ==
  ASSUME NEW m \in 0..(Day - 1), NEW w \in 0..(Day - 1), NEW a \in Nat,
         NEW k \in Nat, a = m - w + k * Day,
         ~((m - w) % Day < Cooldown)
  PROVE  a >= Cooldown
<1>1. Day \in Nat /\ Day > 0 /\ Cooldown \in Nat /\ m \in Nat /\ w \in Nat
  BY MinutesAssumption
<1>2. k = 0 \/ k * Day >= Day
  <2>1. k # 0 => \E j \in Nat : k = j + 1
    <3>1. k # 0 => k - 1 \in Nat /\ k = (k - 1) + 1
      OBVIOUS
    <3> QED BY <3>1
  <2>2. ASSUME NEW j \in Nat, k = j + 1
        PROVE  k * Day >= Day
    <3>1. (j + 1) * Day = j * Day + Day /\ j * Day \in Nat
      BY <1>1
    <3> QED BY <1>1, <2>2, <3>1
  <2> QED BY <2>1, <2>2
<1>3. k * Day \in Nat
  BY <1>1
<1>4. k = 0 => k * Day = 0
  BY <1>1
<1> DEFINE x == k * Day
<1>5. x \in Nat /\ (x = 0 \/ x >= Day) /\ a = m - w + x
  BY <1>2, <1>3, <1>4
<1> HIDE DEF x
<1>6. CASE m >= w
  <2>1. (m - w) % Day = m - w
    BY <1>1, <1>6
  <2> QED BY <1>1, <1>5, <2>1
<1>7. CASE m < w
  <2>1. (m - w) % Day = m - w + Day
    BY <1>1, <1>7
  <2>2. x >= Day
    BY <1>1, <1>5, <1>7
  <2> QED BY <1>1, <1>5, <2>1, <2>2
<1> QED BY <1>1, <1>6, <1>7

-----------------------------------------------------------------------------
(* Selection                                                               *)

LEMMA BatchFacts ==
  ASSUME NEW batch \in Batches
  PROVE  /\ DOMAIN batch \subseteq Symbols
         /\ \A y \in Eligible(batch) : y \in Symbols /\ batch[y] \in Int
<1>1. PICK offered \in SUBSET Symbols :
        batch \in [offered -> Scores \cup {Blocked}]
  BY DEF Batches
<1> QED BY <1>1, ScoresAssumption DEF Eligible

(* Another symbol is selected only when none is held or kept; it is        *)
(* eligible and better by the threshold than one that could be kept.       *)
LEMMA AnotherSelected ==
  ASSUME NEW batch \in Batches, NEW r, NEW now,
         NEW y \in Selected(r, batch, now), y # r.symbol
  PROVE  /\ ~Held(r) /\ ~Stays(r, batch, now)
         /\ y \in Chosen(r, batch)
         /\ y # NoSymbol => y \in Eligible(batch)
         /\ y # NoSymbol /\ r.symbol \in Eligible(batch)
              => batch[y] - batch[r.symbol] >= Threshold
<1>1. ~Held(r) /\ ~Stays(r, batch, now) /\ y \in Chosen(r, batch)
  BY DEF Selected
<1>2. CASE Eligible(batch) = {}
  BY <1>1, <1>2 DEF Chosen
<1>3. CASE Eligible(batch) # {}
  <2>1. PICK z \in Best(batch) :
          y = IF /\ r.symbol \in Eligible(batch) /\ z # r.symbol
                 /\ batch[z] - batch[r.symbol] < Threshold
                THEN r.symbol ELSE z
    BY <1>1, <1>3 DEF Chosen
  <2>2. y = z /\ z \in Eligible(batch)
    BY <2>1 DEF Best
  <2>3. r.symbol \in Eligible(batch)
          => ~(batch[y] - batch[r.symbol] < Threshold)
    BY <2>1, <2>2
  <2>4. r.symbol \in Eligible(batch)
          => batch[y] - batch[r.symbol] >= Threshold
    BY <2>2, <2>3, BatchFacts, ScoresAssumption
  <2> QED BY <1>1, <2>2, <2>4
<1> QED BY <1>2, <1>3

-----------------------------------------------------------------------------
(* One call of run                                                         *)

LEMMA SeededFacts ==
  ASSUME NEW r \in Runtimes, Matches(r), IdleWithoutSymbol(r),
         NEW y \in Symbols, NEW now \in Minutes \cup {NoMinute}
  PROVE  LET seed == Seeded(r, y, now)
         IN /\ seed \in Runtimes /\ Matches(seed)
            /\ seed.symbol = y /\ seed.phase # "IDLE"
            /\ seed.switched = IF y = r.symbol \/ now = NoMinute
                                 THEN r.switched ELSE now
            /\ y = r.symbol => seed = r
<1>1. CASE y = r.symbol
  <2>1. r.phase # "IDLE"
    BY <1>1, SymbolsAssumption DEF IdleWithoutSymbol
  <2>2. Seeded(r, y, now) = r
    BY <1>1, <2>1 DEF Seeded, Runtimes
  <2> QED BY <1>1, <2>1, <2>2
<1>2. CASE y # r.symbol
  <2> DEFINE switched == IF now = NoMinute THEN r.switched ELSE now
  <2>1. Seeded(r, y, now) = [symbol |-> y, phase |-> "HEDGED",
                             pending |-> "NONE", switched |-> switched,
                             legs |-> Sides]
    BY <1>2 DEF Seeded
  <2>2. switched \in {NoMinute} \cup 0..(Day - 1)
    BY DEF Runtimes, Minutes
  <2> QED BY <1>2, <2>1, <2>2 DEF Runtimes, Matches, Phases
<1> QED BY <1>1, <1>2

LEMMA RebalancedFacts ==
  ASSUME NEW r \in Runtimes, NEW s \in Sides, r.legs = Sides \ {s},
         NEW reduce \in BOOLEAN, NEW restore \in BOOLEAN
  PROVE  LET after == Rebalanced(r, s, reduce, restore)
         IN /\ after \in Runtimes /\ Matches(after)
            /\ after.symbol = r.symbol /\ after.switched = r.switched
            /\ after.phase # "IDLE"
<1>1. CASE reduce
  BY <1>1 DEF Rebalanced, Runtimes, Matches, Phases
<1>2. CASE ~reduce /\ restore
  BY <1>2 DEF Rebalanced, Runtimes, Matches, Phases
<1>3. CASE ~reduce /\ ~restore
  BY <1>3 DEF Rebalanced, Runtimes, Matches, Phases
<1> QED BY <1>1, <1>2, <1>3

(* A cycle with a symbol ends with that symbol, and phase and legs agree.  *)
LEMMA WithSymbolFacts ==
  ASSUME SequenceInv, NEW batch \in Batches,
         NEW now \in Minutes \cup {NoMinute}, RunWithSymbol(batch, now)
  PROVE  /\ runtime' \in Runtimes /\ Matches(runtime')
         /\ runtime'.symbol \in Selected(runtime, batch, now) \cap Symbols
         /\ runtime'.phase # "IDLE"
         /\ runtime'.switched = IF \/ runtime'.symbol = runtime.symbol
                                   \/ now = NoMinute
                                  THEN runtime.switched ELSE now
         /\ runtime'.symbol = runtime.symbol /\ runtime.legs = {}
              => runtime'.legs = {}
<1>1. PICK y \in Selected(runtime, batch, now) \cap DOMAIN batch :
        LET r == Seeded(runtime, y, now)
        IN \/ Keep(r)
           \/ \E reduce \in BOOLEAN, allowance \in Allowances :
                LET restore == MayRestore(allowance, now)
                IN \/ Continue(r, reduce, restore)
                   \/ \E s \in Sides : TakeProfit(r, s, reduce, restore)
  BY DEF RunWithSymbol
<1> DEFINE r == Seeded(runtime, y, now)
<1>2. y \in Symbols /\ runtime \in Runtimes
  BY BatchFacts DEF SequenceInv, TypeOK, Runtimes
<1>3. /\ r \in Runtimes /\ Matches(r)
      /\ r.symbol = y /\ r.phase # "IDLE"
      /\ r.switched = IF y = runtime.symbol \/ now = NoMinute
                        THEN runtime.switched ELSE now
      /\ y = runtime.symbol => r = runtime
  BY <1>2, SeededFacts DEF SequenceInv
<1> HIDE DEF r
<1>4. \A a \in Allowances : MayRestore(a, now) \in BOOLEAN
  BY DEF MayRestore
<1>5. CASE Keep(r)
  <2>1. runtime' = [r EXCEPT !.pending = "NONE"] /\ r.phase # "REBALANCING"
    BY <1>3, <1>5 DEF Keep, Matches, Sides
  <2>2. /\ runtime' \in Runtimes /\ runtime'.symbol = y
        /\ runtime'.phase = r.phase /\ runtime'.legs = r.legs
        /\ runtime'.switched = r.switched
    BY <1>3, <2>1 DEF Runtimes
  <2>3. Matches(runtime')
    BY <1>3, <2>1, <2>2 DEF Matches
  <2> QED BY <1>1, <1>2, <1>3, <2>2, <2>3
<1>6. ASSUME NEW reduce \in BOOLEAN, NEW restore \in BOOLEAN, NEW s \in Sides,
             \/ s = r.pending /\ Continue(r, reduce, restore)
             \/ TakeProfit(r, s, reduce, restore)
      PROVE  /\ runtime' \in Runtimes /\ Matches(runtime')
             /\ runtime'.symbol = y /\ runtime'.switched = r.switched
             /\ runtime'.phase # "IDLE" /\ r.legs # {}
  <2>1. CASE s = r.pending /\ Continue(r, reduce, restore)
    <3>1. /\ r.phase = "REBALANCING" /\ r.legs = Sides \ {s}
          /\ runtime' = Rebalanced(r, s, reduce, restore)
      BY <1>3, <2>1 DEF Continue, Matches
    <3>2. /\ runtime' \in Runtimes /\ Matches(runtime')
          /\ runtime'.symbol = y /\ runtime'.switched = r.switched
          /\ runtime'.phase # "IDLE"
      BY <1>3, <3>1, RebalancedFacts
    <3>3. r.legs # {}
      BY <3>1 DEF Sides
    <3> QED BY <3>2, <3>3
  <2>2. CASE TakeProfit(r, s, reduce, restore)
    <3> DEFINE c == [r EXCEPT !.legs = @ \ {s}]
    <3>1. /\ r.phase = "HEDGED" /\ r.legs = Sides
          /\ runtime' = Rebalanced(c, s, reduce, restore)
      BY <1>3, <2>2 DEF TakeProfit, Matches
    <3>2. /\ c \in Runtimes /\ c.legs = Sides \ {s}
          /\ c.symbol = r.symbol /\ c.switched = r.switched
      BY <1>3, <3>1 DEF Runtimes
    <3> HIDE DEF c
    <3> QED BY <1>3, <3>1, <3>2, RebalancedFacts DEF Sides
  <2> QED BY <1>6, <2>1, <2>2
<1>7. CASE ~Keep(r)
  <2>1. PICK reduce \in BOOLEAN, a \in Allowances :
          \/ Continue(r, reduce, MayRestore(a, now))
          \/ \E s \in Sides : TakeProfit(r, s, reduce, MayRestore(a, now))
    BY <1>1, <1>7 DEF r
  <2>2. \E s \in Sides :
          \/ s = r.pending /\ Continue(r, reduce, MayRestore(a, now))
          \/ TakeProfit(r, s, reduce, MayRestore(a, now))
    BY <1>3, <2>1 DEF Continue, Matches
  <2>3. MayRestore(a, now) \in BOOLEAN
    BY <1>4
  <2> QED BY <1>1, <1>2, <1>3, <1>6, <2>2, <2>3
<1> QED BY <1>5, <1>7

(* A cycle without a symbol finds no hedge.                                *)
LEMMA WithoutSymbolFacts ==
  ASSUME SequenceInv, NEW batch \in Batches, NEW now,
         RunWithoutSymbol(batch, now)
  PROVE  /\ runtime.phase \in {"IDLE", "PAUSED"}
         /\ runtime' = runtime
<1>1. runtime \in Runtimes /\ Matches(runtime) /\ IdleWithoutSymbol(runtime)
  BY DEF SequenceInv, TypeOK, Runtimes
<1>2. runtime.phase \in {"IDLE", "PAUSED"}
  <2>1. CASE runtime.symbol = NoSymbol
    BY <1>1, <2>1 DEF IdleWithoutSymbol
  <2>2. CASE runtime.symbol # NoSymbol
    <3>1. ~Held(runtime)
      BY <2>2, AnotherSelected DEF RunWithoutSymbol
    <3> QED BY <1>1, <3>1 DEF Held, Matches, Runtimes, Phases, Sides
  <2> QED BY <2>1, <2>2
<1>3. runtime.legs = {}
  BY <1>1, <1>2 DEF Matches
<1>4. runtime' = runtime
  BY <1>1, <1>3 DEF RunWithoutSymbol, Runtimes
<1> QED BY <1>2, <1>4

-----------------------------------------------------------------------------
(* What HedgeNotAbandoned says of one step.                                *)
NotAbandoned ==
  IF runtime'.symbol = runtime.symbol
    THEN runtime.symbol # NoSymbol /\ runtime.legs = {} => runtime'.legs = {}
    ELSE runtime.legs = {}

LEMMA SequenceInit == Init => SequenceInv
<1> SUFFICES ASSUME Init PROVE SequenceInv
  OBVIOUS
<1>1. runtime = NewRuntime /\ left = {} /\ age = 0 /\ timed = FALSE
      /\ minute \in 0..(Day - 1)
  BY DEF Init
<1>2. TypeOK
  BY <1>1 DEF TypeOK, NewRuntime, Phases
<1>3. Matches(runtime) /\ IdleWithoutSymbol(runtime)
  BY <1>1 DEF NewRuntime, Matches, IdleWithoutSymbol
<1>4. AgeIsMinutes /\ SwitchesAreEarned
  BY <1>1 DEF NewRuntime, AgeIsMinutes, SwitchesAreEarned
<1> QED BY <1>2, <1>3, <1>4 DEF SequenceInv

(* The age of a symbol that stays.                                         *)
LEMMA AgedFacts ==
  ASSUME SequenceInv, NEW gap \in Gaps
  PROVE  /\ Aged(gap) \in Nat
         /\ (minute + gap) % Day \in 0..(Day - 1)
         /\ timed
              => \/ Aged(gap) = Day + Cooldown
                 \/ \E k \in Nat : Aged(gap) = ((minute + gap) % Day)
                                                 - runtime.switched + k * Day
<1>1. /\ gap \in Nat /\ minute \in Nat /\ age \in Nat
      /\ Day \in Nat /\ Cooldown \in Nat
  BY MinutesAssumption DEF SequenceInv, TypeOK
<1>2. Aged(gap) \in Nat
  BY <1>1 DEF Aged
<1>3. minute + gap \in Nat /\ (minute + gap) % Day \in 0..(Day - 1)
  BY <1>1, NextMinute
<1>4. ASSUME timed, Aged(gap) # Day + Cooldown
      PROVE  \E k \in Nat : Aged(gap) = ((minute + gap) % Day)
                                          - runtime.switched + k * Day
  <2>1. Aged(gap) = age + gap /\ age # Day + Cooldown
    BY <1>1, <1>4 DEF Aged
  <2>2. runtime.switched \in Nat
    BY <1>4 DEF SequenceInv, TypeOK, AgeIsMinutes
  <2>3. PICK k \in Nat : age = minute - runtime.switched + k * Day
    BY <1>4, <2>1 DEF SequenceInv, AgeIsMinutes
  <2>4. PICK q \in Nat : (minute + gap) % Day = (minute + gap) - q * Day
    BY <1>3, NextMinute
  <2>5. (k + q) * Day = k * Day + q * Day /\ k * Day \in Nat /\ q * Day \in Nat
    BY <1>1
  <2> DEFINE x == k * Day
             y == q * Day
             z == (k + q) * Day
             n == (minute + gap) % Day
  <2>6. /\ x \in Nat /\ y \in Nat /\ z = x + y
        /\ age = minute - runtime.switched + x /\ n = (minute + gap) - y
    BY <2>3, <2>4, <2>5
  <2> HIDE DEF x, y, z, n
  <2>7. age + gap = n - runtime.switched + z
    BY <1>1, <2>2, <2>6
  <2>8. k + q \in Nat
    OBVIOUS
  <2> QED BY <2>1, <2>7, <2>8 DEF n, z
<1> QED BY <1>2, <1>3, <1>4

(* A symbol that could be kept is left for one that is better by the       *)
(* threshold, and after the cooldown if both switches have their minutes.  *)
Earned(c) == c.by >= Threshold /\ (c.timed => c.after >= Cooldown)

LEMMA LeftFacts ==
  ASSUME SequenceInv, NEW gap \in Gaps, NEW batch \in Batches,
         NEW now \in {(minute + gap) % Day, NoMinute},
         runtime'.symbol \in Selected(runtime, batch, now) \cap Symbols
  PROVE  \A c \in Left(batch, gap, now) :
           c \in [after : Nat, by : Int, timed : BOOLEAN] /\ Earned(c)
<1> DEFINE y == runtime'.symbol
           z == runtime.symbol
           told == timed /\ now # NoMinute
           change == [after |-> Aged(gap), by |-> batch[y] - batch[z],
                      timed |-> told]
<1> SUFFICES ASSUME Switches, z \in Eligible(batch)
             PROVE  /\ change \in [after : Nat, by : Int, timed : BOOLEAN]
                    /\ Earned(change)
  BY DEF Left
<1>1. y # z /\ y # NoSymbol /\ z # NoSymbol
  BY BatchFacts, SymbolsAssumption DEF Switches
<1>2. /\ ~Stays(runtime, batch, now)
      /\ y \in Eligible(batch)
      /\ batch[y] - batch[z] >= Threshold
  BY <1>1, AnotherSelected
<1>3. batch[y] \in Int /\ batch[z] \in Int
  BY <1>2, BatchFacts
<1>4. Aged(gap) \in Nat /\ told \in BOOLEAN
  BY AgedFacts DEF SequenceInv, TypeOK
<1>5. ASSUME told
      PROVE  Aged(gap) >= Cooldown
  <2>1. now = (minute + gap) % Day /\ now \in 0..(Day - 1)
    BY <1>5, AgedFacts
  <2>2. /\ runtime.switched # NoMinute
        /\ ~((now - runtime.switched) % Day < Cooldown)
    BY <1>2, <1>5 DEF Stays, CooldownActive, SequenceInv, AgeIsMinutes
  <2>3. runtime.switched \in 0..(Day - 1)
    BY <2>2 DEF SequenceInv, TypeOK
  <2>4. CASE Aged(gap) = Day + Cooldown
    BY <2>4, MinutesAssumption
  <2>5. CASE Aged(gap) # Day + Cooldown
    <3>1. PICK k \in Nat : Aged(gap) = now - runtime.switched + k * Day
      BY <1>5, <2>1, <2>5, AgedFacts
    <3> QED BY <1>4, <2>1, <2>2, <2>3, <3>1, PastCooldown
  <2> QED BY <2>4, <2>5
<1> HIDE DEF told
<1> QED BY <1>2, <1>3, <1>4, <1>5 DEF Earned

LEMMA SequenceNext ==
  SequenceInv /\ [NextCycle]_vars
    => SequenceInv' /\ (NotAbandoned \/ UNCHANGED vars)
<1> SUFFICES ASSUME SequenceInv, [NextCycle]_vars
             PROVE  SequenceInv' /\ (NotAbandoned \/ UNCHANGED vars)
  OBVIOUS
<1>1. CASE UNCHANGED vars
  BY <1>1 DEF vars, SequenceInv, TypeOK, Matches, IdleWithoutSymbol,
     AgeIsMinutes, SwitchesAreEarned
<1>2. ASSUME NEW gap \in Gaps, NEW batch \in Batches,
             NEW now \in {minute', NoMinute},
             minute' = (minute + gap) % Day,
             RunWithoutSymbol(batch, now) \/ RunWithSymbol(batch, now),
             timed' = IF Switches THEN now # NoMinute ELSE timed,
             age' = IF Switches THEN 0 ELSE Aged(gap),
             left' = Left(batch, gap, now)
      PROVE  SequenceInv' /\ NotAbandoned
  <2>1. /\ minute' \in 0..(Day - 1) /\ now \in Minutes \cup {NoMinute}
        /\ Aged(gap) \in Nat /\ age' \in Nat /\ timed' \in BOOLEAN
    BY <1>2, AgedFacts DEF Minutes, SequenceInv, TypeOK
  <2>2. CASE RunWithoutSymbol(batch, now)
    <3>1. runtime.phase \in {"IDLE", "PAUSED"} /\ runtime' = runtime
      BY <2>2, WithoutSymbolFacts
    <3>2. ~Switches /\ left' = {} /\ age' = Aged(gap) /\ timed' = timed
      BY <1>2, <3>1 DEF Switches, Left
    <3>3. TypeOK'
      BY <2>1, <3>1, <3>2 DEF SequenceInv, TypeOK
    <3>4. Matches(runtime') /\ IdleWithoutSymbol(runtime')
      BY <3>1 DEF SequenceInv
    <3>5. AgeIsMinutes'
      BY <1>2, <3>1, <3>2, AgedFacts DEF SequenceInv, AgeIsMinutes
    <3>6. SwitchesAreEarned'
      BY <3>2 DEF SwitchesAreEarned
    <3>7. NotAbandoned
      BY <3>1 DEF NotAbandoned
    <3> QED BY <3>3, <3>4, <3>5, <3>6, <3>7 DEF SequenceInv, Matches,
               IdleWithoutSymbol
  <2>3. CASE RunWithSymbol(batch, now)
    <3>1. /\ runtime' \in Runtimes /\ Matches(runtime')
          /\ runtime'.symbol
               \in Selected(runtime, batch, now) \cap Symbols
          /\ runtime'.phase # "IDLE"
          /\ runtime'.switched = IF \/ runtime'.symbol = runtime.symbol
                                    \/ now = NoMinute
                                   THEN runtime.switched ELSE now
          /\ runtime'.symbol = runtime.symbol /\ runtime.legs = {}
               => runtime'.legs = {}
      BY <2>1, <2>3, WithSymbolFacts
    <3>2. \A c \in left' :
            c \in [after : Nat, by : Int, timed : BOOLEAN] /\ Earned(c)
      BY <1>2, <3>1, LeftFacts
    <3>3. TypeOK'
      BY <2>1, <3>1, <3>2 DEF TypeOK, Runtimes
    <3>4. IdleWithoutSymbol(runtime')
      BY <3>1, SymbolsAssumption DEF IdleWithoutSymbol
    <3>5. SwitchesAreEarned'
      BY <3>2 DEF SwitchesAreEarned, Earned
    <3>6. AgeIsMinutes'
      <4>1. CASE Switches
        <5>1. timed' => runtime'.switched = minute' /\ age' = 0
          BY <1>2, <3>1, <4>1 DEF Switches
        <5>2. 0 = minute' - minute' + 0 * Day /\ minute' # NoMinute
          BY <2>1, SameMinute
        <5> QED BY <5>1, <5>2 DEF AgeIsMinutes
      <4>2. CASE ~Switches
        <5>1. /\ runtime'.symbol = runtime.symbol
              /\ runtime'.switched = runtime.switched /\ age' = Aged(gap)
              /\ timed' = timed
          BY <1>2, <3>1, <4>2 DEF Switches
        <5> QED BY <1>2, <5>1, AgedFacts DEF SequenceInv, AgeIsMinutes
      <4> QED BY <4>1, <4>2
    <3>7. NotAbandoned
      <4>1. CASE runtime'.symbol = runtime.symbol
        BY <3>1, <4>1 DEF NotAbandoned
      <4>2. CASE runtime'.symbol # runtime.symbol
        <5>1. ~Held(runtime)
          BY <3>1, <4>2, AnotherSelected
        <5>2. runtime.legs = {}
          BY <5>1 DEF Held, SequenceInv, TypeOK, Matches, Phases, Sides
        <5> QED BY <4>2, <5>2 DEF NotAbandoned
      <4> QED BY <4>1, <4>2
    <3> QED BY <3>1, <3>3, <3>4, <3>5, <3>6, <3>7 DEF SequenceInv, Matches,
               IdleWithoutSymbol
  <2> QED BY <1>2, <2>2, <2>3
<1>3. CASE NextCycle
  BY <1>2, <1>3 DEF NextCycle
<1> QED BY <1>1, <1>3

(* Every runtime state a sequence of batches hands on has its types.       *)
THEOREM SequenceTypeCorrect == Spec => []TypeOK
<1>1. SequenceInv => TypeOK
  BY DEF SequenceInv
<1> QED BY <1>1, SequenceInit, SequenceNext, PTL DEF Spec

(* The phase tells which simulated legs there are, whatever is selected,   *)
(* harvested, restored, stopped or left without a symbol.                  *)
THEOREM PhasesMatchLegs == Spec => []PhaseMatchesLegs
<1>1. SequenceInv => PhaseMatchesLegs
  BY DEF SequenceInv, Matches, PhaseMatchesLegs
<1> QED BY <1>1, SequenceInit, SequenceNext, PTL DEF Spec

(* A hedge with a leg is never left for another symbol, and a stopped one  *)
(* is not taken up again on the same symbol.                               *)
THEOREM HedgesNotAbandoned == Spec => HedgeNotAbandoned
<1>1. NotAbandoned \/ UNCHANGED vars
        => [IF runtime'.symbol = runtime.symbol
              THEN runtime.symbol # NoSymbol /\ runtime.legs = {}
                     => runtime'.legs = {}
              ELSE runtime.legs = {}]_vars
  BY DEF NotAbandoned
<1> QED BY <1>1, SequenceInit, SequenceNext, PTL DEF Spec, HedgeNotAbandoned

(* A symbol that could be kept is left only for one better by the          *)
(* threshold and, where both switches have their minutes, after the        *)
(* cooldown in real minutes: that the code compares minutes of the day     *)
(* never shortens a cooldown, whatever batches come without one in between.*)
THEOREM SwitchesEarned == Spec => []SwitchesAreEarned
<1>1. SequenceInv => SwitchesAreEarned
  BY DEF SequenceInv
<1> QED BY <1>1, SequenceInit, SequenceNext, PTL DEF Spec
=============================================================================
