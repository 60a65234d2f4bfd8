SPECIFICATION Spec
CONSTANTS
  Nodes = {n1}
  Keys = {k1, k2}
  Names <- Keys
  NameOf <- OwnName
  LabelMaps <- OnlyRdt
  RmdSelector <- Rdt
  Specs <- Everywhere
  InitialLabels <- AllRdt
  None = None
  MaxEdits = 2
  MaxFaults = 1
  MaxStops = 1
  MaxRestarts = 0
  MaxRelabels = 0
  MaxForgets = 0
PROPERTIES OnlyOwnEntries
CHECK_DEADLOCK FALSE
