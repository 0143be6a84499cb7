SPECIFICATION Spec
CONSTANTS
  Symbols = {BTCUSDT, ETHUSDT}
  NoSymbol = NoSymbol
  Stores = {"sqlite", "shared"}
  StreamRetries = 0
  MaxLives = 2
  MaxFailures = 0
  MaxHarvests = 0
  MaxRestores = 0
CHECK_DEADLOCK FALSE
PROPERTIES OpensBesideNone
