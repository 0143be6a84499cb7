SPECIFICATION FairSpec
CONSTANTS
  Prices = {1}
  TargetAt <- LargeTarget
  FillNum = 1
  FillDen = 2
  MinFill = 1
  Timeout = 2
  MaxRequotes = 3
  Threshold = 2
  Risks = {"none", "calm", "soft", "hard"}
  MaxHarvests = 2
  MaxCrashes = 0
PROPERTIES
  OpeningEnds
