SPECIFICATION FairSpec
CONSTANTS
  Nodes = {n1, n2}
  PodKeys = {a}
  c1 = c1
  c2 = c2
  Names = {a}
  PodName <- OwnName
  ContainerNames = {c1}
  PodSpecs <- OnePinned
  Cpus = {1, 2}
  None = None
  MaxPods = 1
  MaxUpsets = 0
PROPERTIES EventuallyServedEverywhere
CHECK_DEADLOCK FALSE
