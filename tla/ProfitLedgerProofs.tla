------------------------- MODULE ProfitLedgerProofs -------------------------
(***************************************************************************)
(* The books of ProfitLedger balance in both hosts, for every threshold,   *)
(* limit, rate and set of snapshots.  Every operation on the bucket keeps  *)
(* it balanced against the transfers made; a cycle is a chain of them.     *)
(***************************************************************************)
EXTENDS ProfitLedger, TLAPS

(* A bucket that agrees with sw swept and rd redeemed.                     *)
Balanced(b, sw, rd) ==
  /\ b \in Bucket /\ sw \in Nat /\ rd \in Nat
  /\ b.total = b.available + sw
  /\ b.principal = InitialPrincipal + sw - rd
  /\ b.redeemable = b.principal
  /\ b.buffer <= b.available

(* The buffer is all of what was harvested and not swept.                  *)
Whole(b) == b.buffer = b.available

LedgerInv == /\ host \in Hosts
             /\ Balanced(bucket, swept, redeemed)
             /\ host = "backtest" \/ redeemed = 0 => Whole(bucket)
             /\ loop \in LoopStates
             /\ snap \in Snapshot

(* What SweepIsSafe and TopupSuffices say of one step.                     *)
SweepStep ==
  swept' > swept => /\ snap'.available - (swept' - swept) >= PmReserve
                    /\ ~RiskReduces(snap')
                    /\ loop' = "hedged"

TopupStep ==
  (redeemed' > redeemed /\ snap'.uniMmr > 0)
    => \/ redeemed' - redeemed >= bucket.redeemable
       \/ (snap'.equity + (redeemed' - redeemed)) * snap'.uniMmr
            >= snap'.equity * RedeemUniMmr

(* Redeeming amount of what is redeemable brings uniMMR back or is all.    *)
TopupSufficient(s, redeemable, amount) ==
  (amount > 0 /\ s.uniMmr > 0)
    => \/ amount >= redeemable
       \/ (s.equity + amount) * s.uniMmr >= s.equity * RedeemUniMmr

-----------------------------------------------------------------------------
(* What the planners return.                                               *)

(* Rounding up, the product is not less than the dividend.                 *)
LEMMA CeilDivFact ==
  ASSUME NEW n \in Nat, NEW d \in Nat, d > 0
  PROVE  CeilDiv(n, d) \in Nat /\ CeilDiv(n, d) * d >= n
<1> DEFINE m == n + d - 1
           q == m \div d
<1>1. m \in Nat
  OBVIOUS
<1>2. m = d * q + (m % d) /\ m % d \in 0..(d - 1) /\ q \in Int
  BY <1>1
<1>3. q \in Nat
  BY <1>1
<1>4. d * q >= n
  BY <1>1, <1>2
<1>5. d * q = q * d
  BY <1>2
<1> QED
  BY <1>3, <1>4, <1>5 DEF CeilDiv

(* A sweep is a part of the buffer and leaves the reserve.                 *)
LEMMA SweepFact ==
  ASSUME NEW s \in Snapshot, NEW b \in Bucket
  PROVE  /\ PlanSweep(s, b) \in Nat
         /\ PlanSweep(s, b) <= b.buffer
         /\ PlanSweep(s, b) > 0 => s.available - PlanSweep(s, b) >= PmReserve
BY LimitsAssumption DEF PlanSweep, Smaller, Snapshot, Bucket

(* The amount asked for to bring uniMMR back is enough.                    *)
LEMMA RequiredFact ==
  ASSUME NEW s \in Snapshot, NEW b \in Bucket
  PROVE  /\ RequiredRedeem(s, b) \in Nat
         /\ s.uniMmr > 0
              => \/ RequiredRedeem(s, b) >= b.redeemable
                 \/ (s.equity + RequiredRedeem(s, b)) * s.uniMmr
                      >= s.equity * RedeemUniMmr
<1> DEFINE e == s.equity
           u == s.uniMmr
           r == RedeemUniMmr
<1>1. e \in Nat /\ u \in Nat /\ r \in Nat /\ b.redeemable \in Nat
  BY ThresholdsAssumption DEF Snapshot, Bucket
<1>2. CASE u >= r
  <2>1. RequiredRedeem(s, b) = 0
    BY <1>1, <1>2 DEF RequiredRedeem
  <2>2. e * u >= e * r
    BY <1>1, <1>2
  <2> QED
    BY <1>1, <2>1, <2>2
<1>3. CASE u < r /\ (u = 0 \/ e = 0)
  BY <1>1, <1>3 DEF RequiredRedeem
<1>4. CASE u < r /\ u # 0 /\ e # 0
  <2> DEFINE n == e * (r - u)
             a == CeilDiv(n, u)
  <2>1. u \in Nat \ {0}
    BY <1>1, <1>4
  <2>2. n \in Nat
    BY <1>1, <1>4
  <2>3. a \in Nat /\ a * u >= n
    <3> HIDE DEF n, u
    <3> QED
      BY <2>1, <2>2, CeilDivFact
  <2>4. RequiredRedeem(s, b) = a
    BY <1>1, <1>4 DEF RequiredRedeem
  <2> HIDE DEF a
  <2>5. (e + a) * u = e * u + a * u /\ e * u + e * (r - u) = e * r
    BY <1>1, <2>3
  <2>6. (e + a) * u >= e * r
    BY <1>1, <2>2, <2>3, <2>5
  <2> QED
    BY <2>3, <2>4, <2>6
<1> QED
  BY <1>1, <1>2, <1>3, <1>4

(* A redemption never exceeds what is redeemable.                          *)
LEMMA RedeemFact ==
  ASSUME NEW s \in Snapshot, NEW b \in Bucket
  PROVE  /\ PlanRedeem(s, b) \in Nat
         /\ PlanRedeem(s, b) <= b.redeemable
         /\ PlanRedeem(s, b) > 0
              => \/ PlanRedeem(s, b) = b.redeemable
                 \/ PlanRedeem(s, b) >= RequiredRedeem(s, b)
<1>1. RequiredRedeem(s, b) \in Nat
  BY RequiredFact
<1> QED
  BY <1>1, LimitsAssumption DEF PlanRedeem, Smaller, Snapshot, Bucket

LEMMA TopupFact ==
  ASSUME NEW s \in Snapshot, NEW b \in Bucket,
         NEW a, a = 0 \/ a = PlanRedeem(s, b)
  PROVE  TopupSufficient(s, b.redeemable, a)
<1> SUFFICES ASSUME a = PlanRedeem(s, b), a > 0, s.uniMmr > 0
             PROVE  \/ a >= b.redeemable
                    \/ (s.equity + a) * s.uniMmr >= s.equity * RedeemUniMmr
  BY DEF TopupSufficient
<1> DEFINE q == RequiredRedeem(s, b)
<1>1. /\ s.equity \in Nat /\ s.uniMmr \in Nat /\ b.redeemable \in Nat
      /\ RedeemUniMmr \in Nat /\ a \in Nat /\ q \in Nat
  BY ThresholdsAssumption, RequiredFact, RedeemFact DEF Snapshot, Bucket
<1>2. a = b.redeemable \/ a >= q
  BY RedeemFact
<1>3. q >= b.redeemable \/ (s.equity + q) * s.uniMmr >= s.equity * RedeemUniMmr
  BY RequiredFact
<1> HIDE DEF q
<1>4. a >= q => (s.equity + a) * s.uniMmr >= (s.equity + q) * s.uniMmr
  <2> SUFFICES ASSUME a >= q
               PROVE  (s.equity + a) * s.uniMmr >= (s.equity + q) * s.uniMmr
    OBVIOUS
  <2> DEFINE d == a - q
             m == s.equity + q
             u == s.uniMmr
  <2>1. d \in Nat /\ m \in Nat /\ u \in Nat /\ s.equity + a = m + d
    BY <1>1
  <2> HIDE DEF d, m, u
  <2>2. (m + d) * u = m * u + d * u /\ d * u \in Nat /\ m * u \in Nat
    BY <2>1
  <2>3. (m + d) * u >= m * u
    BY <2>2
  <2> QED
    BY <2>1, <2>3 DEF m, u
<1> DEFINE x == (s.equity + a) * s.uniMmr
           y == (s.equity + q) * s.uniMmr
           z == s.equity * RedeemUniMmr
<1>5. x \in Nat /\ y \in Nat /\ z \in Nat
  BY <1>1
<1> HIDE DEF x, y, z
<1>6. (a >= q => x >= y) /\ (q >= b.redeemable \/ y >= z)
  BY <1>3, <1>4 DEF x, y, z
<1>7. a >= b.redeemable \/ x >= z
  BY <1>1, <1>2, <1>5, <1>6
<1> QED
  BY <1>7 DEF x, z

-----------------------------------------------------------------------------
(* A record that EXCEPT makes of a bucket is a bucket when its fields are. *)

Fields == {"total", "available", "buffer", "principal", "interest",
           "redeemable", "ready"}

SameFields(b, c) == c = [k \in DOMAIN b |-> c[k]]

FieldTypes(c) ==
  /\ c.total \in Nat /\ c.available \in Nat /\ c.buffer \in Nat
  /\ c.principal \in Nat /\ c.interest \in Nat /\ c.redeemable \in Nat
  /\ c.ready \in BOOLEAN

LEMMA BucketFields ==
  ASSUME NEW b \in Bucket, NEW c, SameFields(b, c), FieldTypes(c)
  PROVE  c \in Bucket
<1>1. DOMAIN b = Fields
  BY DEF Bucket, Fields
<1>2. c = [k \in Fields |-> c[k]]
  BY <1>1 DEF SameFields
<1> QED
  BY <1>2 DEF Bucket, Fields, FieldTypes

-----------------------------------------------------------------------------
(* Every operation keeps the bucket balanced.                              *)

LEMMA AccrueKeeps ==
  ASSUME NEW b, NEW sw, NEW rd, Balanced(b, sw, rd), NEW elapsed \in BOOLEAN
  PROVE  Balanced(IF elapsed THEN Accrue(b, Rate) ELSE b, sw, rd)
<1>1. b.principal * Rate \in Nat
  BY ProfitsAssumption DEF Balanced, Bucket
<1>2. Balanced(Accrue(b, Rate), sw, rd)
  <2> DEFINE i == b.principal * Rate
  <2>1. Accrue(b, Rate) = [b EXCEPT !.interest = @ + i]
    BY DEF Accrue
  <2> HIDE DEF i
  <2> QED
    BY <1>1, <2>1 DEF Balanced, Bucket, i
<1> QED
  BY <1>2

LEMMA StatusKeeps ==
  ASSUME NEW b, NEW sw, NEW rd, Balanced(b, sw, rd), NEW ready \in BOOLEAN
  PROVE  Balanced(SetClosedLoopStatus(b, ready), sw, rd)
BY DEF Balanced, SetClosedLoopStatus, Bucket

LEMMA HarvestKeeps ==
  ASSUME NEW b, NEW sw, NEW rd, Balanced(b, sw, rd), NEW state,
         NEW s \in Snapshot, NEW net \in NetProfits, NEW mayRestore \in BOOLEAN
  PROVE  Balanced(HarvestAndRebalance(b, state, s, net, mayRestore), sw, rd)
<1> DEFINE ready == Decide(s, mayRestore) = "hedged"
<1>1. ready \in BOOLEAN
  OBVIOUS
<1>2. CASE Harvests(state, s, net)
  <2>1. net \in Nat
    BY <1>2, ProfitsAssumption DEF Harvests, MayHarvest
  <2>2. Balanced(RecordTakeProfit(b, net), sw, rd)
    <3> DEFINE c == RecordTakeProfit(b, net)
    <3>1. b \in Bucket
      BY DEF Balanced
    <3>2. SameFields(b, c)
      BY Zenon DEF SameFields, RecordTakeProfit
    <3>3. /\ c.total = b.total + net /\ c.available = b.available + net
          /\ c.buffer = b.buffer + net /\ c.principal = b.principal
          /\ c.interest = b.interest /\ c.redeemable = b.redeemable
          /\ c.ready \in BOOLEAN
      BY <3>1 DEF RecordTakeProfit, Bucket
    <3> HIDE DEF c
    <3>4. c \in Bucket
      <4>1. FieldTypes(c)
        BY <2>1, <3>1, <3>3 DEF FieldTypes, Bucket
      <4> QED
        BY <3>1, <3>2, <4>1, BucketFields
    <3>5. Balanced(c, sw, rd)
      BY <2>1, <3>3, <3>4 DEF Balanced, Bucket
    <3> QED
      BY <3>5 DEF c
  <2>3. state = "hedged"
    BY <1>2 DEF Harvests
  <2>4. HarvestAndRebalance(b, state, s, net, mayRestore)
          = SetClosedLoopStatus(RecordTakeProfit(b, net), ready)
    BY <1>2, <2>3 DEF HarvestAndRebalance
  <2> QED
    BY <1>1, <2>2, <2>4, StatusKeeps
<1>3. CASE state = "rebalancing"
  <2>1. HarvestAndRebalance(b, state, s, net, mayRestore)
          = SetClosedLoopStatus(b, ready)
    BY <1>3 DEF HarvestAndRebalance
  <2> QED
    BY <1>1, <2>1, StatusKeeps
<1>4. CASE ~Harvests(state, s, net) /\ state # "rebalancing"
  BY <1>4 DEF HarvestAndRebalance
<1> QED
  BY <1>2, <1>3, <1>4

LEMMA SweepKeeps ==
  ASSUME NEW b, NEW sw, NEW rd, Balanced(b, sw, rd),
         NEW a \in Nat, a <= b.buffer
  PROVE  Balanced(IF a > 0 THEN RecordSweep(b, a) ELSE b, sw + a, rd)
<1> DEFINE c == RecordSweep(b, a)
<1>1. b \in Bucket
  BY DEF Balanced
<1>2. SameFields(b, c)
  BY Zenon DEF SameFields, RecordSweep
<1>3. /\ c.total = b.total /\ c.available = b.available - a
      /\ c.buffer = b.buffer - a /\ c.principal = b.principal + a
      /\ c.interest = b.interest /\ c.redeemable = b.redeemable + a
      /\ c.ready \in BOOLEAN
  BY <1>1 DEF RecordSweep, Bucket
<1> HIDE DEF c
<1>4. a <= b.available
  BY DEF Balanced, Bucket
<1>5. c \in Bucket
  <2>1. FieldTypes(c)
    BY <1>1, <1>3, <1>4 DEF FieldTypes, Bucket
  <2> QED
    BY <1>1, <1>2, <2>1, BucketFields
<1>6. Balanced(c, sw + a, rd)
  BY <1>3, <1>5, InitialPrincipalAssumption DEF Balanced, Bucket
<1>7. a = 0 => Balanced(b, sw + a, rd)
  BY DEF Balanced
<1> QED
  BY <1>6, <1>7 DEF c

LEMMA RedeemKeeps ==
  ASSUME NEW b, NEW sw, NEW rd, Balanced(b, sw, rd),
         NEW a \in Nat, a <= b.redeemable
  PROVE  /\ Balanced(IF a > 0 THEN RecordRedeem(b, a) ELSE b, sw, rd + a)
         /\ Balanced(IF a > 0 THEN ExecuteRedeemTopup(b, a) ELSE b, sw, rd + a)
<1>1. b \in Bucket /\ a <= b.principal /\ b.principal \in Nat
  BY DEF Balanced, Bucket
<1>2. LessOrZero(b.principal, a) = b.principal - a
  BY <1>1 DEF LessOrZero
<1>3. LessOrZero(b.redeemable, a) = b.redeemable - a
  BY <1>2 DEF Balanced
<1> DEFINE c == RecordRedeem(b, a)
           d == ExecuteRedeemTopup(b, a)
<1>4. SameFields(b, c) /\ SameFields(b, d)
  BY Zenon DEF SameFields, RecordRedeem, ExecuteRedeemTopup
<1>5. /\ c.total = b.total /\ c.available = b.available
      /\ c.buffer = b.buffer /\ c.principal = b.principal - a
      /\ c.interest = b.interest /\ c.redeemable = b.redeemable - a
      /\ c.ready \in BOOLEAN
  BY <1>1, <1>2, <1>3 DEF RecordRedeem, Bucket
<1>6. /\ d.total = b.total /\ d.available = b.available
      /\ d.buffer = 0 /\ d.principal = b.principal - a
      /\ d.interest = b.interest /\ d.redeemable = b.redeemable - a
      /\ d.ready \in BOOLEAN
  BY <1>1, <1>2, <1>3 DEF ExecuteRedeemTopup, Bucket
<1> HIDE DEF c, d
<1>7. c \in Bucket /\ d \in Bucket
  <2>1. FieldTypes(c) /\ FieldTypes(d)
    BY <1>1, <1>2, <1>3, <1>5, <1>6 DEF FieldTypes, Balanced, Bucket
  <2> QED
    BY <1>1, <1>4, <2>1, BucketFields
<1>8. Balanced(c, sw, rd + a) /\ Balanced(d, sw, rd + a)
  BY <1>1, <1>5, <1>6, <1>7, InitialPrincipalAssumption
     DEF Balanced, Bucket
<1>9. a = 0 => Balanced(b, sw, rd + a)
  BY DEF Balanced
<1> QED
  BY <1>8, <1>9 DEF c, d

(* Every operation but the redemption of the live host keeps a buffer      *)
(* whole.                                                                  *)
LEMMA WholeKeeps ==
  ASSUME NEW b \in Bucket, Whole(b), NEW a \in Nat, NEW ready \in BOOLEAN
  PROVE  /\ Whole(Accrue(b, a)) /\ Whole(SetClosedLoopStatus(b, ready))
         /\ Whole(RecordTakeProfit(b, a)) /\ Whole(RecordSweep(b, a))
         /\ Whole(RecordRedeem(b, a))
BY DEF Whole, Bucket, Accrue, SetClosedLoopStatus, RecordTakeProfit,
   RecordSweep, RecordRedeem

LEMMA WholeInterest ==
  ASSUME NEW b \in Bucket, Whole(b), NEW elapsed \in BOOLEAN
  PROVE  Whole(IF elapsed THEN Accrue(b, Rate) ELSE b)
BY WholeKeeps, ProfitsAssumption

LEMMA WholeHarvest ==
  ASSUME NEW b, NEW sw, NEW rd, Balanced(b, sw, rd), Whole(b), NEW state,
         NEW s \in Snapshot, NEW net \in NetProfits, NEW mayRestore \in BOOLEAN
  PROVE  Whole(HarvestAndRebalance(b, state, s, net, mayRestore))
<1> DEFINE ready == Decide(s, mayRestore) = "hedged"
<1>1. ready \in BOOLEAN /\ b \in Bucket
  BY DEF Balanced
<1>2. CASE Harvests(state, s, net)
  <2>1. net \in Nat /\ state = "hedged"
    BY <1>2, ProfitsAssumption DEF Harvests, MayHarvest
  <2>2. Whole(RecordTakeProfit(b, net))
    BY <1>1, <2>1, WholeKeeps
  <2>3. Whole(SetClosedLoopStatus(RecordTakeProfit(b, net), ready))
    BY <1>1, <2>2 DEF Whole, SetClosedLoopStatus, RecordTakeProfit, Bucket
  <2> QED
    BY <1>2, <2>1, <2>3 DEF HarvestAndRebalance
<1>3. CASE state = "rebalancing"
  BY <1>1, <1>3, WholeKeeps DEF HarvestAndRebalance
<1>4. CASE ~Harvests(state, s, net) /\ state # "rebalancing"
  BY <1>4 DEF HarvestAndRebalance
<1> QED
  BY <1>2, <1>3, <1>4

LEMMA WholeSweep ==
  ASSUME NEW b \in Bucket, Whole(b), NEW a \in Nat
  PROVE  /\ Whole(IF a > 0 THEN RecordSweep(b, a) ELSE b)
         /\ Whole(IF a > 0 THEN RecordRedeem(b, a) ELSE b)
BY WholeKeeps

LEMMA LoopFact ==
  ASSUME NEW state \in LoopStates, NEW s, NEW net, NEW mayRestore
  PROVE  LoopAfter(state, s, net, mayRestore) \in LoopStates
BY DEF LoopAfter, Decide, LoopStates

-----------------------------------------------------------------------------
(* One cycle of the live runner: what it redeems, books and sweeps.        *)
LEMMA LiveCycleFacts ==
  ASSUME LedgerInv, NEW s \in Snapshots, NEW net \in NetProfits,
         NEW mayRestore \in BOOLEAN, NEW elapsed \in BOOLEAN,
         NEW filled \in BOOLEAN, LiveCycle(s, net, mayRestore, elapsed, filled)
  PROVE  /\ LedgerInv'
         /\ SweepStep
         /\ TopupStep
<1> DEFINE state == IF loop = "opening" /\ filled THEN "hedged" ELSE loop
           interest == Accrued(elapsed)
           topup == IF RiskTopsUp(s) THEN PlanRedeem(s, interest) ELSE 0
           topped == IF topup > 0 THEN ExecuteRedeemTopup(interest, topup)
                                  ELSE interest
           booked == HarvestAndRebalance(topped, state, s, net, mayRestore)
           after == LoopAfter(state, s, net, mayRestore)
           sweep == LiveSweep(booked, after, s)
<1>1. s \in Snapshot /\ state \in LoopStates
  BY SnapshotsAssumption DEF LedgerInv, LoopStates
<1>2. /\ bucket' = IF sweep > 0 THEN RecordSweep(booked, sweep) ELSE booked
      /\ loop' = after /\ swept' = swept + sweep
      /\ redeemed' = redeemed + topup /\ snap' = s /\ host' = host
  BY DEF LiveCycle
<1>3. Balanced(interest, swept, redeemed)
  BY AccrueKeeps DEF LedgerInv, Accrued
<1>4. interest.redeemable = bucket.redeemable
  BY DEF Accrued, Accrue, LedgerInv, Balanced, Bucket
<1>5. interest \in Bucket
  BY <1>3 DEF Balanced
<1>6. redeemed = 0 => Whole(interest)
  BY WholeInterest DEF LedgerInv, Balanced, Accrued
<1> HIDE DEF interest
<1>7. topup \in Nat /\ topup <= interest.redeemable
  BY <1>1, <1>5, RedeemFact DEF Bucket
<1>8. TopupSufficient(s, interest.redeemable, topup)
  BY <1>1, <1>5, <1>7, TopupFact
<1> HIDE DEF topup
<1>9. Balanced(topped, swept, redeemed + topup)
  BY <1>3, <1>7, RedeemKeeps
<1>10. redeemed' = 0 => Whole(topped)
  BY <1>2, <1>7, <1>6 DEF LedgerInv, Balanced
<1> HIDE DEF topped
<1>11. Balanced(booked, swept, redeemed + topup)
  BY <1>1, <1>9, HarvestKeeps
<1>12. booked \in Bucket
  BY <1>11 DEF Balanced
<1>13. redeemed' = 0 => Whole(booked)
  BY <1>1, <1>9, <1>10, WholeHarvest
<1> HIDE DEF booked
<1>14. /\ sweep \in Nat /\ sweep <= booked.buffer
       /\ sweep > 0 => /\ s.available - sweep >= PmReserve
                       /\ ~RiskReduces(s)
                       /\ after = "hedged"
  BY <1>1, <1>12, SweepFact DEF LiveSweep, Bucket
<1> HIDE DEF sweep
<1>15. Balanced(bucket', swept', redeemed')
  BY <1>2, <1>11, <1>14, SweepKeeps
<1>16. after \in LoopStates
  BY <1>1, LoopFact
<1> HIDE DEF after
<1>17. redeemed' = 0 => Whole(bucket')
  BY <1>2, <1>12, <1>14, <1>13, WholeSweep
<1>18. LedgerInv'
  BY <1>1, <1>2, <1>15, <1>16, <1>17 DEF LedgerInv, LiveCycle
<1>19. SweepStep
  BY <1>2, <1>14 DEF SweepStep, LedgerInv, Balanced
<1>20. TopupStep
  BY <1>2, <1>4, <1>7, <1>8 DEF TopupStep, TopupSufficient, LedgerInv, Balanced
<1> QED
  BY <1>18, <1>19, <1>20

(* One cycle of the backtest.                                              *)
LEMMA BacktestCycleFacts ==
  ASSUME LedgerInv, NEW s \in Snapshots, NEW net \in NetProfits,
         NEW mayRestore \in BOOLEAN, NEW elapsed \in BOOLEAN,
         NEW other \in BOOLEAN, BacktestCycle(s, net, mayRestore, elapsed, other)
  PROVE  /\ LedgerInv'
         /\ SweepStep
         /\ TopupStep
<1> DEFINE state == IF loop = "opening" \/ (loop = "stopped" /\ other)
                      THEN "hedged" ELSE loop
           after == LoopAfter(state, s, net, mayRestore)
           interest == Accrued(elapsed)
           booked == HarvestAndRebalance(interest, state, s, net, mayRestore)
           maySweep == ~RiskReduces(s) /\ after = "hedged"
           sweep == IF maySweep THEN PlanSweep(s, booked) ELSE 0
           saved == IF ~maySweep THEN SetClosedLoopStatus(booked, FALSE)
                    ELSE IF sweep > 0 THEN RecordSweep(booked, sweep)
                    ELSE booked
           topup == IF RiskTopsUp(s) THEN PlanRedeem(s, saved) ELSE 0
<1>1. s \in Snapshot /\ state \in LoopStates
  BY SnapshotsAssumption DEF LedgerInv, LoopStates
<1>2. /\ bucket' = IF topup > 0 THEN RecordRedeem(saved, topup) ELSE saved
      /\ loop' = after /\ swept' = swept + sweep
      /\ redeemed' = redeemed + topup /\ snap' = s /\ host' = host
  BY DEF BacktestCycle
<1>3. Balanced(interest, swept, redeemed)
  BY AccrueKeeps DEF LedgerInv, Accrued
<1>4. Whole(interest)
  BY WholeInterest DEF LedgerInv, Balanced, Accrued, BacktestCycle
<1> HIDE DEF interest
<1>5. Balanced(booked, swept, redeemed)
  BY <1>1, <1>3, HarvestKeeps
<1>6. booked \in Bucket /\ booked.redeemable = bucket.redeemable
  BY <1>5 DEF Balanced, LedgerInv
<1>7. Whole(booked)
  BY <1>1, <1>3, <1>4, WholeHarvest
<1> HIDE DEF booked
<1>8. /\ sweep \in Nat /\ sweep <= booked.buffer
      /\ sweep > 0 => /\ s.available - sweep >= PmReserve
                      /\ maySweep
  BY <1>1, <1>6, SweepFact DEF Bucket
<1>9. Balanced(saved, swept + sweep, redeemed)
  <2>1. CASE ~maySweep
    <3>1. sweep = 0 /\ saved = SetClosedLoopStatus(booked, FALSE)
      BY <2>1
    <3>2. Balanced(saved, swept, redeemed)
      BY <1>5, <3>1, StatusKeeps
    <3>3. swept + sweep = swept
      BY <3>1 DEF LedgerInv, Balanced
    <3> QED
      BY <3>2, <3>3
  <2>2. CASE maySweep
    <3>1. saved = IF sweep > 0 THEN RecordSweep(booked, sweep) ELSE booked
      BY <2>2
    <3> HIDE DEF saved, sweep
    <3> QED
      BY <1>5, <1>8, <3>1, SweepKeeps
  <2> QED
    BY <2>1, <2>2
<1>10. Whole(saved)
  <2>1. CASE ~maySweep
    BY <1>6, <1>7, <2>1, WholeKeeps
  <2>2. CASE maySweep
    <3>1. saved = IF sweep > 0 THEN RecordSweep(booked, sweep) ELSE booked
      BY <2>2
    <3> HIDE DEF saved, sweep
    <3> QED
      BY <1>6, <1>8, <1>7, <3>1, WholeSweep
  <2> QED
    BY <2>1, <2>2
<1> HIDE DEF saved, sweep
<1>11. saved \in Bucket /\ saved.redeemable = bucket.redeemable + sweep
  BY <1>8, <1>9, InitialPrincipalAssumption DEF Balanced, LedgerInv
<1>12. topup \in Nat /\ topup <= saved.redeemable
  BY <1>1, <1>11, RedeemFact DEF Bucket
<1>13. TopupSufficient(s, saved.redeemable, topup)
  BY <1>1, <1>11, <1>12, TopupFact
<1> HIDE DEF topup
<1>14. Balanced(bucket', swept', redeemed')
  BY <1>2, <1>9, <1>12, RedeemKeeps
<1>15. after \in LoopStates
  BY <1>1, LoopFact
<1> HIDE DEF after
<1>16. Whole(bucket')
  BY <1>2, <1>11, <1>12, <1>10, WholeSweep
<1>17. LedgerInv'
  BY <1>1, <1>2, <1>14, <1>15, <1>16 DEF LedgerInv
<1>18. SweepStep
  BY <1>2, <1>8 DEF SweepStep, LedgerInv, Balanced
<1>19. TopupStep
  BY <1>2, <1>8, <1>11, <1>12, <1>13
     DEF TopupStep, TopupSufficient, LedgerInv, Balanced, Bucket
<1> QED
  BY <1>17, <1>18, <1>19

-----------------------------------------------------------------------------
LEMMA LedgerInit == Init => LedgerInv
<1> SUFFICES ASSUME Init PROVE LedgerInv
  OBVIOUS
<1>1. bucket \in Bucket
  BY InitialPrincipalAssumption DEF Init, NewBucket, Bucket
<1> QED
  BY <1>1, SnapshotsAssumption, InitialPrincipalAssumption
     DEF Init, NewBucket, LedgerInv, Balanced, Whole, LoopStates

(* Every step keeps the invariant, and what it sweeps and redeems is safe. *)
LEMMA LedgerNext ==
  LedgerInv /\ [Next]_ledgerVars => LedgerInv' /\ SweepStep /\ TopupStep
<1> SUFFICES ASSUME LedgerInv, [Next]_ledgerVars
             PROVE  LedgerInv' /\ SweepStep /\ TopupStep
  OBVIOUS
<1>1. ASSUME swept' = swept, redeemed' = redeemed
      PROVE  SweepStep /\ TopupStep
  BY <1>1 DEF SweepStep, TopupStep, LedgerInv, Balanced
<1>2. CASE UNCHANGED ledgerVars
  BY <1>1, <1>2 DEF ledgerVars, LedgerInv, Balanced
<1>3. ASSUME NEW s \in Snapshots, NEW elapsed \in BOOLEAN,
             LivePause(s, elapsed) \/ BacktestWithoutSymbol(s, elapsed)
      PROVE  LedgerInv' /\ SweepStep /\ TopupStep
  <2>1. /\ bucket' = Accrued(elapsed) /\ swept' = swept
        /\ redeemed' = redeemed /\ snap' = s /\ host' = host
        /\ loop' \in LoopStates
    BY <1>3 DEF LivePause, BacktestWithoutSymbol, LedgerInv, LoopStates
  <2>2. Balanced(bucket', swept', redeemed')
    BY <2>1, AccrueKeeps DEF LedgerInv, Accrued
  <2>3. Whole(bucket) => Whole(bucket')
    BY <2>1, WholeInterest DEF LedgerInv, Balanced, Accrued
  <2> QED
    BY <1>1, <2>1, <2>2, <2>3, SnapshotsAssumption DEF LedgerInv
<1>4. CASE Next
  BY <1>3, <1>4, LiveCycleFacts, BacktestCycleFacts DEF Next
<1> QED
  BY <1>2, <1>4

-----------------------------------------------------------------------------
(* In every reachable state of either host, for all parameters: amounts    *)
(* are never negative and the bucket has its type.                         *)
THEOREM LedgerTypeCorrect == Spec => []TypeOK
<1>1. LedgerInv => TypeOK
  BY DEF LedgerInv, TypeOK, Balanced
<1> QED
  BY <1>1, LedgerInit, LedgerNext, PTL DEF Spec

(* The books of the profit bucket agree with the transfers made, whatever  *)
(* the account does and in whatever order profit, sweeps and top-ups come. *)
THEOREM BooksBalance == Spec => []LedgerBalances
<1>1. LedgerInv => LedgerBalances
  BY DEF LedgerInv, LedgerBalances, Balanced
<1> QED
  BY <1>1, LedgerInit, LedgerNext, PTL DEF Spec

(* What was harvested and not swept is in the buffer, in the backtest and, *)
(* until the first redemption, in the live host.                           *)
THEOREM BufferIsKept == Spec => []BufferKept
<1>1. LedgerInv => BufferKept
  BY DEF LedgerInv, BufferKept, Balanced, Whole, Bucket
<1> QED
  BY <1>1, LedgerInit, LedgerNext, PTL DEF Spec

(* Every sweep leaves the reserve and waits for a whole, unthreatened      *)
(* hedge.                                                                  *)
THEOREM SweepsAreSafe == Spec => SweepIsSafe
<1>1. SweepStep => [swept' > swept
                      => /\ snap'.available - (swept' - swept) >= PmReserve
                         /\ ~RiskReduces(snap')
                         /\ loop' = "hedged"]_ledgerVars
  BY DEF SweepStep
<1> QED
  BY <1>1, LedgerInit, LedgerNext, PTL DEF Spec, SweepIsSafe

(* Every top-up for uniMMR brings it back to the threshold or asks for all *)
(* there is, for every threshold: rounding up to cents is enough.          *)
THEOREM TopupsSuffice == Spec => TopupSuffices
<1>1. TopupStep =>
        [(redeemed' > redeemed /\ snap'.uniMmr > 0)
           => \/ redeemed' - redeemed >= bucket.redeemable
              \/ (snap'.equity + (redeemed' - redeemed)) * snap'.uniMmr
                   >= snap'.equity * RedeemUniMmr]_ledgerVars
  BY DEF TopupStep
<1> QED
  BY <1>1, LedgerInit, LedgerNext, PTL DEF Spec, TopupSuffices
=============================================================================
