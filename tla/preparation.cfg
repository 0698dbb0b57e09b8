SPECIFICATION FairSpec
CONSTANTS
  a = a
  b = b
  Order <- TwoHosts
  MaxParallel = 1
  MaxCopies = 2
  MaxRecoveries = 1
  MaxDisturbances = 2
INVARIANT PreparationsBounded
PROPERTIES LaunchedWhereVerified StarvesOnlyWithCause
CHECK_DEADLOCK FALSE
