---------------------------- MODULE CapitalRules ----------------------------
(***************************************************************************)
(* The rules that move realized profit between the portfolio margin (PM)   *)
(* account and RWUSD: RiskRuleSet.evaluate (src/risk/rules.py), the        *)
(* TransferPlanner (src/portfolio/transfers.py), PnlManager                *)
(* (src/strategy/pnl_manager.py), accrue_rwusd_interest and the two ways   *)
(* the hosts book a redemption.  Amounts are counted in cents, uniMMR in   *)
(* units of its own.  A snapshot keeps, of PortfolioSnapshot, the          *)
(* available balance, uniMMR and equity, whether a leverage limit is       *)
(* exceeded and whether the drawdown is; known is FALSE when there is no   *)
(* snapshot.  Fields that are only reported are left out of the bucket.    *)
(***************************************************************************)
EXTENDS Integers

CONSTANTS SoftUniMmr, HardUniMmr, RedeemUniMmr,  \* RiskRuleSet thresholds
          PmReserve, MinSweep, MinRedeem         \* TransferPlanner limits

ASSUME ThresholdsAssumption ==
  SoftUniMmr \in Nat /\ HardUniMmr \in Nat /\ RedeemUniMmr \in Nat

ASSUME LimitsAssumption ==
  PmReserve \in Nat /\ MinSweep \in Nat /\ MinRedeem \in Nat

Snapshot == [known : BOOLEAN, available : Nat, uniMmr : Nat, equity : Nat,
             exposed : BOOLEAN, drawn : BOOLEAN]

(* ProfitBucket: realized_pnl_total, realized_pnl_available_for_deposit,   *)
(* harvest_buffer, rwusd_principal, rwusd_interest_accrued,                *)
(* rwusd_redeemable, closed_loop_ready.                                    *)
Bucket == [total : Nat, available : Nat, buffer : Nat, principal : Nat,
           interest : Nat, redeemable : Nat, ready : BOOLEAN]

NewBucket(principal) ==
  [total |-> 0, available |-> 0, buffer |-> 0, principal |-> principal,
   interest |-> 0, redeemable |-> principal, ready |-> FALSE]

-----------------------------------------------------------------------------
(* RiskRuleSet.evaluate                                                    *)

NeedsTopup(snap) ==
  \/ snap.uniMmr < RedeemUniMmr
  \/ PmReserve > 0 /\ snap.available < PmReserve

RiskPauses(snap) ==
  snap.known /\ (snap.uniMmr < HardUniMmr \/ snap.exposed \/ snap.drawn)

RiskReduces(snap) ==
  RiskPauses(snap) \/ (snap.known /\ snap.uniMmr < SoftUniMmr)

(* A drawdown that no other limit precedes asks for no top-up.             *)
RiskTopsUp(snap) ==
  /\ snap.known
  /\ NeedsTopup(snap)
  /\ ~(snap.drawn /\ snap.uniMmr >= HardUniMmr /\ ~snap.exposed)

(* HarvestRule.evaluate; without a snapshot the floor is never missed.     *)
MayHarvest(snap, net, minNet) ==
  /\ snap.known => snap.uniMmr >= SoftUniMmr
  /\ net >= minNet

-----------------------------------------------------------------------------
(* TransferPlanner                                                         *)

CeilDiv(n, d) == (n + d - 1) \div d

(* Mutant: min taken for max.                                              *)
SmallerSwapped(a, b) == IF a < b THEN b ELSE a

Smaller(a, b) == IF a < b THEN a ELSE b

(* _required_redeem_for_unimmr                                             *)
RequiredRedeem(snap, bucket) ==
  IF snap.uniMmr >= RedeemUniMmr THEN 0
  ELSE IF snap.uniMmr = 0 \/ snap.equity = 0 THEN bucket.redeemable
  ELSE CeilDiv(snap.equity * (RedeemUniMmr - snap.uniMmr), snap.uniMmr)

(* Mutant: the reserve is not held back.                                   *)
PlanSweepOfAvailable(snap, bucket) ==
  LET amount == Smaller(bucket.buffer, snap.available)
  IN IF bucket.ready /\ snap.available > PmReserve /\ amount >= MinSweep
       THEN amount ELSE 0

(* plan_sweep: the amount to sweep, 0 when the plan is not to sweep.       *)
PlanSweep(snap, bucket) ==
  LET amount == Smaller(bucket.buffer, snap.available - PmReserve)
  IN IF bucket.ready /\ snap.available > PmReserve /\ amount >= MinSweep
       THEN amount ELSE 0

(* Mutant: the quotient is rounded down.                                   *)
PlanRedeemFloor(snap, bucket) ==
  LET reserveGap == IF snap.available < PmReserve
                      THEN PmReserve - snap.available ELSE 0
      uniMmrGap == IF snap.uniMmr >= RedeemUniMmr THEN 0
                   ELSE IF snap.uniMmr = 0 THEN bucket.redeemable
                   ELSE (snap.equity * (RedeemUniMmr - snap.uniMmr))
                          \div snap.uniMmr
      wanted == IF reserveGap < uniMmrGap THEN uniMmrGap ELSE reserveGap
      amount == Smaller(wanted, bucket.redeemable)
  IN IF wanted > 0 /\ amount >= MinRedeem THEN amount ELSE 0

(* plan_redeem: the amount to redeem, 0 when the plan is not to redeem.    *)
PlanRedeem(snap, bucket) ==
  LET reserveGap == IF snap.available < PmReserve
                      THEN PmReserve - snap.available ELSE 0
      uniMmrGap == RequiredRedeem(snap, bucket)
      wanted == IF reserveGap < uniMmrGap THEN uniMmrGap ELSE reserveGap
      amount == Smaller(wanted, bucket.redeemable)
  IN IF wanted > 0 /\ amount >= MinRedeem THEN amount ELSE 0

-----------------------------------------------------------------------------
(* What the operations do to the bucket.                                   *)

(* accrue_rwusd_interest, for a rate of Rate cents per cent and cycle      *)
Accrue(bucket, rate) ==
  [bucket EXCEPT !.interest = @ + bucket.principal * rate]

(* PnlManager.record_take_profit                                           *)
RecordTakeProfit(bucket, net) ==
  [bucket EXCEPT !.total = @ + net,
                 !.available = @ + net,
                 !.buffer = @ + net,
                 !.ready = FALSE]

(* Mutant: the swept amount stays available for deposit.                   *)
RecordSweepTwice(bucket, amount) ==
  [bucket EXCEPT !.buffer = @ - amount,
                 !.principal = @ + amount,
                 !.redeemable = @ + amount,
                 !.ready = TRUE]

(* PnlManager.record_sweep                                                 *)
RecordSweep(bucket, amount) ==
  [bucket EXCEPT !.available = @ - amount,
                 !.buffer = @ - amount,
                 !.principal = @ + amount,
                 !.redeemable = @ + amount,
                 !.ready = TRUE]

LessOrZero(a, b) == IF b < a THEN a - b ELSE 0

(* Mutant: the bucket is built anew without the harvest buffer.            *)
RecordRedeemAnew(bucket, amount) ==
  [bucket EXCEPT !.principal = LessOrZero(@, amount),
                 !.redeemable = LessOrZero(@, amount),
                 !.buffer = 0]

(* BacktestEngine._record_redeem                                           *)
RecordRedeem(bucket, amount) ==
  [bucket EXCEPT !.principal = LessOrZero(@, amount),
                 !.redeemable = LessOrZero(@, amount)]

(* LiveRunner._execute_redeem_topup builds the bucket anew and leaves      *)
(* harvest_buffer and closed_loop_ready at their defaults.                 *)
ExecuteRedeemTopup(bucket, amount) ==
  [bucket EXCEPT !.principal = LessOrZero(@, amount),
                 !.redeemable = LessOrZero(@, amount),
                 !.buffer = 0,
                 !.ready = FALSE]

(* LiveRunner._set_closed_loop_status                                      *)
SetClosedLoopStatus(bucket, ready) == [bucket EXCEPT !.ready = ready]
=============================================================================
