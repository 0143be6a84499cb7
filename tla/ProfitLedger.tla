---------------------------- MODULE ProfitLedger ----------------------------
(***************************************************************************)
(* The RWUSD closed loop over many cycles: profit is harvested from a leg, *)
(* the leg is restored, the profit is swept into RWUSD, and RWUSD is       *)
(* redeemed when the account needs margin.  The same rules have two hosts  *)
(* that apply them in different orders: LiveRunner.run_cycle accrues, tops *)
(* up, harvests and sweeps; BacktestEngine.run accrues, harvests, sweeps   *)
(* and tops up.  Of the strategy only the state of the loop is kept:       *)
(* opening, hedged, rebalancing (a leg is closed) or stopped (PAUSED).     *)
(* swept and redeemed are the amounts ever subscribed and redeemed         *)
(* (subscribe_rwusd and redeem_rwusd of the account service).              *)
(***************************************************************************)
EXTENDS CapitalRules

CONSTANTS
  Hosts,             \* the hosts looked at, "live" and "backtest"
  Snapshots,         \* account snapshots a cycle may see
  NetProfits,        \* net profits a leg may offer in a cycle
  MinNet,            \* HarvestRule min_net_pnl
  Rate,              \* interest per cent of principal and cycle
  InitialPrincipal,  \* principal of the initial profit bucket
  MaxTotal,          \* bound: realized profit
  MaxRedeemed,       \* bound: redeemed amount
  MaxInterest        \* bound: accrued interest

ASSUME HostsAssumption == Hosts \subseteq {"live", "backtest"}
(* To the backtest a snapshot without equity and uniMMR is no snapshot.    *)
ASSUME SnapshotsAssumption ==
  /\ Snapshots \subseteq Snapshot
  /\ "backtest" \in Hosts
       => \A s \in Snapshots : s.known => s.equity > 0 \/ s.uniMmr > 0
ASSUME ProfitsAssumption ==
  NetProfits \subseteq Int /\ MinNet \in Nat /\ Rate \in Nat
ASSUME InitialPrincipalAssumption == InitialPrincipal \in Nat
ASSUME LedgerBoundsAssumption ==
  MaxTotal \in Nat /\ MaxRedeemed \in Nat /\ MaxInterest \in Nat

VARIABLES
  host,      \* the host that runs the cycles
  bucket,    \* the ProfitBucket
  loop,      \* state of the closed loop
  snap,      \* the snapshot the last cycle saw
  swept,     \* sum of all sweeps
  redeemed   \* sum of all redemptions

ledgerVars == <<host, bucket, loop, snap, swept, redeemed>>

LoopStates == {"opening", "hedged", "rebalancing", "stopped"}

Init == /\ host \in Hosts
        /\ bucket = NewBucket(InitialPrincipal)
        /\ loop = "opening"
        /\ snap \in Snapshots
        /\ swept = 0
        /\ redeemed = 0

-----------------------------------------------------------------------------
(* A leg closed with profit, or left closed by an earlier cycle, is dealt  *)
(* with by RebalancePlanner.decide.                                        *)
Decide(s, mayRestore) ==
  IF RiskReduces(s) THEN "stopped"
  ELSE IF mayRestore THEN "hedged" ELSE "rebalancing"

Harvests(state, s, net) == state = "hedged" /\ MayHarvest(s, net, MinNet)

LoopAfter(state, s, net, mayRestore) ==
  IF Harvests(state, s, net) \/ state = "rebalancing"
    THEN Decide(s, mayRestore) ELSE state

(* Take profit and rebalance: the loop is ready once both legs are back.   *)
HarvestAndRebalance(b, state, s, net, mayRestore) ==
  IF Harvests(state, s, net) \/ state = "rebalancing"
    THEN SetClosedLoopStatus(
           IF state = "hedged" THEN RecordTakeProfit(b, net) ELSE b,
           Decide(s, mayRestore) = "hedged")
    ELSE b

Accrued(elapsed) == IF elapsed THEN Accrue(bucket, Rate) ELSE bucket

Within(b) == /\ b.total <= MaxTotal
             /\ b.interest <= MaxInterest
             /\ redeemed' <= MaxRedeemed

-----------------------------------------------------------------------------
(* LiveRunner.run_cycle                                                    *)

(* A hard limit ends the cycle after the interest.                         *)
LivePause(s, elapsed) ==
  /\ host = "live" /\ UNCHANGED host
  /\ RiskPauses(s)
  /\ bucket' = Accrued(elapsed)
  /\ loop' = "stopped"
  /\ snap' = s
  /\ UNCHANGED <<swept, redeemed>>
  /\ Within(bucket')

(* Mutant: the sweep does not wait for the hedge to be restored.           *)
LiveSweepAnyPhase(b, state, s) ==
  IF s.known /\ ~RiskReduces(s) THEN PlanSweep(s, [b EXCEPT !.ready = TRUE])
                                ELSE 0

(* plan_profit_sweep                                                       *)
LiveSweep(b, state, s) ==
  IF s.known /\ ~RiskReduces(s) /\ state = "hedged" THEN PlanSweep(s, b)
                                                    ELSE 0

LiveCycle(s, net, mayRestore, elapsed, filled) ==
  /\ host = "live" /\ UNCHANGED host
  /\ ~RiskPauses(s)
  /\ LET state == IF loop = "opening" /\ filled THEN "hedged" ELSE loop
         interest == Accrued(elapsed)
         topup == IF RiskTopsUp(s) THEN PlanRedeem(s, interest) ELSE 0
         topped == IF topup > 0 THEN ExecuteRedeemTopup(interest, topup)
                                ELSE interest
         booked == HarvestAndRebalance(topped, state, s, net, mayRestore)
         sweep == LiveSweep(booked, LoopAfter(state, s, net, mayRestore), s)
     IN /\ bucket' = IF sweep > 0 THEN RecordSweep(booked, sweep) ELSE booked
        /\ loop' = LoopAfter(state, s, net, mayRestore)
        /\ swept' = swept + sweep
        /\ redeemed' = redeemed + topup
  /\ snap' = s
  /\ Within(bucket')

-----------------------------------------------------------------------------
(* BacktestEngine.run: a hard limit does not end the cycle, opening is     *)
(* immediate, a stopped hedge gives way to one on another symbol, and a    *)
(* cycle that may not sweep takes the loop's readiness back.               *)
BacktestCycle(s, net, mayRestore, elapsed, otherSymbol) ==
  /\ host = "backtest" /\ UNCHANGED host
  /\ LET state == IF loop = "opening" \/ (loop = "stopped" /\ otherSymbol)
                    THEN "hedged" ELSE loop
         after == LoopAfter(state, s, net, mayRestore)
         booked == HarvestAndRebalance(Accrued(elapsed), state, s, net,
                                       mayRestore)
         maySweep == ~RiskReduces(s) /\ after = "hedged"
         sweep == IF maySweep THEN PlanSweep(s, booked) ELSE 0
         saved == IF ~maySweep THEN SetClosedLoopStatus(booked, FALSE)
                  ELSE IF sweep > 0 THEN RecordSweep(booked, sweep) ELSE booked
         topup == IF RiskTopsUp(s) THEN PlanRedeem(s, saved) ELSE 0
     IN /\ bucket' = IF topup > 0 THEN RecordRedeem(saved, topup) ELSE saved
        /\ loop' = after
        /\ swept' = swept + sweep
        /\ redeemed' = redeemed + topup
  /\ snap' = s
  /\ Within(bucket')

(* No symbol qualifies and none is held: only the interest accrues.        *)
BacktestWithoutSymbol(s, elapsed) ==
  /\ host = "backtest" /\ UNCHANGED host
  /\ loop \in {"opening", "stopped"}
  /\ bucket' = Accrued(elapsed)
  /\ snap' = s
  /\ UNCHANGED <<loop, swept, redeemed>>
  /\ Within(bucket')

Next ==
  \E s \in Snapshots, elapsed \in BOOLEAN :
    \/ LivePause(s, elapsed)
    \/ BacktestWithoutSymbol(s, elapsed)
    \/ \E net \in NetProfits, mayRestore, other \in BOOLEAN :
         \/ LiveCycle(s, net, mayRestore, elapsed, other)
         \/ BacktestCycle(s, net, mayRestore, elapsed, other)

Spec == Init /\ [][Next]_ledgerVars

-----------------------------------------------------------------------------
(* Amounts are never negative and every field has its type.                *)
TypeOK == /\ host \in Hosts
          /\ bucket \in Bucket
          /\ loop \in LoopStates
          /\ snap \in Snapshot
          /\ swept \in Nat
          /\ redeemed \in Nat

(* The books agree with the transfers made: profit is available until it   *)
(* is swept, principal is what was subscribed and not redeemed, and no     *)
(* redemption asks for more than there is (so max(0, ...) hides nothing).  *)
LedgerBalances ==
  /\ bucket.total = bucket.available + swept
  /\ bucket.principal = InitialPrincipal + swept - redeemed
  /\ bucket.redeemable = bucket.principal
  /\ bucket.buffer <= bucket.available

(* A sweep leaves the reserve in the account, and is made only when the    *)
(* risk rules neither pause nor reduce and both legs are back.             *)
SweepIsSafe ==
  [][swept' > swept
       => /\ snap'.available - (swept' - swept) >= PmReserve
          /\ ~RiskReduces(snap')
          /\ loop' = "hedged"]_ledgerVars

(* A top-up for uniMMR brings it back to the threshold (uniMMR grows in    *)
(* proportion to equity) or asks for all RWUSD there was.                  *)
TopupSuffices ==
  [][(redeemed' > redeemed /\ snap'.uniMmr > 0)
       => \/ redeemed' - redeemed >= bucket.redeemable
          \/ (snap'.equity + (redeemed' - redeemed)) * snap'.uniMmr
               >= snap'.equity * RedeemUniMmr]_ledgerVars

(* What was harvested and not swept waits in the harvest buffer: cycles    *)
(* that stop, reduce, may not sweep or have no symbol lose nothing, nor do *)
(* redemptions in the backtest.  (In the live host a redemption builds the *)
(* bucket anew, without the buffer.)                                       *)
BufferKept ==
  host = "backtest" \/ redeemed = 0
    => bucket.buffer = bucket.total - swept
=============================================================================
