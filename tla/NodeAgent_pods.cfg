SPECIFICATION FairSpec
CONSTANTS
  Nodes = {n1}
  PodKeys = {a}
  c1 = c1
  c2 = c2
  Names = {a}
  PodName <- OwnName
  ContainerNames = {c1, c2}
  PodSpecs <- Mixed
  Cpus = {1, 2}
  None = None
  MaxPods = 2
  MaxUpsets = 2
INVARIANTS TypeOK CpusOwn NoWorkLost WorkInv
PROPERTIES UserEditsKept EventuallyServed EventuallyCollected
CHECK_DEADLOCK FALSE
