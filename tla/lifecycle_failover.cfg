SPECIFICATION Spec
CONSTANTS
  j1 = j1
  j2 = j2
  Jobs = {j1}
  Nodes = {n1}
  Attempts = {a1, a2}
  None = None
  MaxAttempts <- TwoEach
  FailoverSafe = {j1}
  Held = {}
  LocalCompute = {j1}
  Models = {j1}
  Validations = {}
  DependsOn <- Independent
  RetryBudget = 1
  MaxFailovers = 1
  MaxGrants = 1
SYMMETRY Symmetry
INVARIANT TypeOK
INVARIANT JobAttemptAgreement
INVARIANT QueuedJobHasBudget
INVARIANT NoOverlap
INVARIANT ReconcileNeverRaises
PROPERTY TransitionsLegal
