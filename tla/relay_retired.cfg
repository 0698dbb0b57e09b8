SPECIFICATION FairSpec
CONSTANTS
  c1 = c1
  c2 = c2
  d1 = d1
  d2 = d2
  n1 = n1
  n2 = n2
  None = None
  Consumers = {c1}
  Deps = {d1, d2}
  Nodes = {n1, n2}
  Hosts = {n1, n2}
  Inputs <- Both
  Home <- OwnNodes
  Retirable = {d1}
  HfEnabled = TRUE
  MaxLive = 2
  MaxFails = 2
  MaxFaults = 0
  Lossy = FALSE
PROPERTY RetiredInputComesBack
