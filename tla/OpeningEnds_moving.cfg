SPECIFICATION FairSpec
CONSTANTS
  Prices = {1, 2}
  TargetAt <- TwoTargets
  FillNum = 1
  FillDen = 2
  MinFill = 1
  Timeout = 1
  MaxRequotes = 1
  Threshold = 2
  Risks = {"none", "calm", "soft", "hard"}
  MaxHarvests = 2
  MaxCrashes = 0
PROPERTIES
  OpeningEnds
