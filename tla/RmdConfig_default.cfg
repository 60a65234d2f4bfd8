SPECIFICATION FairSpec
CONSTANTS
  Nodes = {n1, n2}
  rdt = rdt
  zone = zone
  Labels = {rdt, zone}
  Selectors <- NoSelector
  ManifestSelector <- Rdt
  LabelSets <- MaybeZone
  InitialLabels <- AllRdt
  None = None
  MaxEdits = 1
  MaxUpsets = 0
PROPERTIES EventuallyDefaulted
CHECK_DEADLOCK FALSE
