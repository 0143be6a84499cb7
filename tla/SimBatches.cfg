SPECIFICATION FairSpec
CONSTANTS
  MaxBatches = 2
  MaxCrashes = 2
  MaxFaults = 1
  MaxTears = 1
  MaxUnread = 1
  MaxBeats = 1
CHECK_DEADLOCK FALSE
INVARIANTS
  TypeOK
  ForgottenOnlyUnread
  LatestIsReadable
  FinishedAreArchived
PROPERTIES
  SealedStaysSealed
  IntactCompletes
  ImplementsSerialBatches
