SPECIFICATION Spec
CONSTANTS
  MaxLoops = 2
  CycleRetries = 1
  MaxFailures = 2
  MaxCrashes = 2
CHECK_DEADLOCK FALSE
INVARIANTS
  TypeOK
  LossBounded
  PassIsEarned
