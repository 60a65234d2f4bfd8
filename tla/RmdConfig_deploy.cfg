SPECIFICATION FairSpec
CONSTANTS
  Nodes = {n1}
  rdt = rdt
  zone = zone
  Labels = {rdt, zone}
  Selectors <- SomeSelectors
  ManifestSelector <- Rdt
  LabelSets <- MaybeZone
  InitialLabels <- AllRdt
  None = None
  MaxEdits = 3
  MaxUpsets = 2
CONSTRAINT Budget
INVARIANTS TypeOK NoEventLost
PROPERTIES EventuallyDeployed EventuallyUndeployed EventuallyForgotten
CHECK_DEADLOCK FALSE
