SPECIFICATION Spec
CONSTANTS
  Targets = {2, 4}
  Prices = {1, 2}
  Tolerance = 0
  FillNum = 1
  FillDen = 2
  MinFill = 1
  MaxAge = 1
  InitialPosition <- Lopsided
  ExposureCap = 4
  MaxPlans = 2
  MaxCycle = 1
INVARIANTS
  TypeOK
  ReduceOnlyCovered
  MatchNeverRaises
  ExposureBounded
  LiveOrdersFromOnePlan
  PositionMatchesFills
PROPERTIES
  OrdersOnlyProgress
  ImplementsQuoteSlots
