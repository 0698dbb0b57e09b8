SPECIFICATION FairSpec
CONSTANTS
  Processes = {p1, p2}
  Kinds = {"error", "complete"}
  Batch = 2
  Fragile = {"error"}
  MaxAlerts = 3
  MaxLosses = 1
INVARIANT TypeOK
INVARIANT PostedOnce
PROPERTIES ErrorIsCurrent OpenAlertHasCause
