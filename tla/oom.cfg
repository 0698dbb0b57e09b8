SPECIFICATION Spec
CONSTANTS
  Causes = {"log", "kernel", "none"}
  MaxCleanups = 2
  MaxCrashes = 1
CHECK_DEADLOCK FALSE
INVARIANT SurvivorsHold
PROPERTY LoggedOomIsClassified
PROPERTY HoldEnds
