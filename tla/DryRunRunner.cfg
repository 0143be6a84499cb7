SPECIFICATION Spec
CONSTANTS
  Prices <- TwoPrices
  TargetAt <- TwoTargets
  FillNum = 1
  FillDen = 2
  MinFill = 2
  Timeout = 2
  MaxRequotes = 2
  Threshold = 2
  Risks = {"none", "calm", "soft", "hard"}
  MaxHarvests = 2
  MaxCrashes = 2
INVARIANTS
  TypeOK
  PhaseMatchesLegs
  SavedBetweenCycles
  ExposureBounded
  HarvestsBackedByCloses
