SPECIFICATION FairSpec
CONSTANTS
  j1 = j1
  j2 = j2
  Jobs = {j1, j2}
  Nodes = {n1}
  Attempts = {a1}
  None = None
  MaxAttempts <- OneEach
  FailoverSafe = {j1}
  Held = {j2}
  LocalCompute = {j1}
  Models = {j1}
  Validations = {}
  DependsOn <- Independent
  RetryBudget = 1
  MaxFailovers = 0
  MaxGrants = 0
INVARIANT DependenciesSettled
PROPERTIES QuarantineResolves FinishedRunIsReleased
