SPECIFICATION Spec
CONSTANTS
  Symbols = {BTCUSDT}
  NoSymbol = NoSymbol
  Stores = {"sqlite", "shared"}
  StreamRetries = 1
  MaxLives = 2
  MaxFailures = 2
  MaxHarvests = 1
  MaxRestores = 1
CHECK_DEADLOCK FALSE
INVARIANTS TypeOK FilledIsHeld ExposureExplained NoPhaseIsOrphaned
PROPERTIES OpeningNoticed
