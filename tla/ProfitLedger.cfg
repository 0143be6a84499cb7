SPECIFICATION Spec
CONSTANTS
  SoftUniMmr = 2
  HardUniMmr = 1
  RedeemUniMmr = 4
  PmReserve = 3
  MinSweep = 1
  MinRedeem = 1
  Hosts = {"live", "backtest"}
  Snapshots <- SomeAccounts
  NetProfits <- SomeNets
  MinNet = 1
  Rate = 1
  InitialPrincipal = 2
  MaxTotal = 5
  MaxRedeemed = 5
  MaxInterest = 1
INVARIANTS
  TypeOK
  LedgerBalances
  BufferKept
PROPERTIES
  SweepIsSafe
  TopupSuffices
