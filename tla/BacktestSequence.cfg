SPECIFICATION Spec
CONSTANTS
  Symbols = {BTCUSDT, ETHUSDT}
  NoSymbol = NoSymbol
  Blocked = Blocked
  Scores = {0, 1, 2}
  Threshold = 2
  Eval = 3
  Cooldown = 7
  Day = 12
  Gaps = {1, 8, 12}
INVARIANTS
  TypeOK
  PhaseMatchesLegs
  SwitchesAreEarned
PROPERTIES
  HedgeNotAbandoned
