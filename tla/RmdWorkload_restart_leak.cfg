SPECIFICATION FairSpec
CONSTANTS
  Nodes = {n1}
  Keys = {k1}
  Names <- Keys
  NameOf <- OwnName
  LabelMaps <- OnlyRdt
  RmdSelector <- Rdt
  Specs <- Everywhere
  InitialLabels <- AllRdt
  None = None
  MaxEdits = 2
  MaxFaults = 0
  MaxStops = 0
  MaxRestarts = 1
  MaxRelabels = 0
  MaxForgets = 0
PROPERTIES EventuallyDeleted
CHECK_DEADLOCK FALSE
