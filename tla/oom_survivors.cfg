SPECIFICATION Spec
CONSTANTS
  Causes = {"kernel"}
  MaxCleanups = 2
  MaxCrashes = 1
CHECK_DEADLOCK FALSE
INVARIANT SurvivorsHoldReservation
