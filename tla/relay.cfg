SPECIFICATION FairSpec
CONSTANTS
  c1 = c1
  c2 = c2
  d1 = d1
  d2 = d2
  n1 = n1
  n2 = n2
  None = None
  Consumers = {c1, c2}
  Deps = {d1, d2}
  Nodes = {n1, n2}
  Hosts = {n1, n2}
  Inputs <- OneShared
  Home <- OwnNodes
  Retirable = {d2}
  HfEnabled = TRUE
  MaxLive = 2
  MaxFails = 2
  MaxFaults = 1
  Lossy = TRUE
INVARIANTS TypeOK OneCopyUnderWay PendingIsBacked
PROPERTY StarvationHasCause
