SPECIFICATION Spec
CONSTANTS
  Symbols = {BTCUSDT}
  NoSymbol = NoSymbol
  Stores = {"sqlite", "shared"}
  StreamRetries = 0
  MaxLives = 1
  MaxFailures = 0
  MaxHarvests = 1
  MaxRestores = 0
CHECK_DEADLOCK FALSE
INVARIANTS HedgedHoldsBothLegs
