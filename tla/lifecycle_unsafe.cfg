SPECIFICATION Spec
CONSTANTS
  j1 = j1
  j2 = j2
  Jobs = {j1, j2}
  Nodes = {n1}
  Attempts = {a1, a2}
  None = None
  MaxAttempts <- OneEach
  FailoverSafe = {}
  Held = {}
  LocalCompute = {}
  Models = {j2}
  Validations = {j1}
  DependsOn <- Chain
  RetryBudget = 1
  MaxFailovers = 1
  MaxGrants = 0
SYMMETRY Symmetry
INVARIANT NoOverlap
INVARIANT VerdictIsBacked
INVARIANT ExecutedOnce
PROPERTY ImplementsResultAuthority
