SPECIFICATION Spec
CONSTANTS
  Prices <- TwoPrices
  TargetAt <- TwoTargets
  FillNum = 1
  FillDen = 2
  MinFill = 2
  Timeout = 1
  MaxRequotes = 1
  Threshold = 2
  Risks = {"none", "calm", "soft", "hard"}
  MaxHarvests = 2
  MaxCrashes = 0
PROPERTIES
  PauseBlocksExposure
