SPECIFICATION FairSpec
CONSTANTS
  Nodes = {n1, n2}
  Keys = {k1}
  Names <- Keys
  NameOf <- OwnName
  LabelMaps <- LostRdt
  RmdSelector <- Rdt
  Specs <- FirstOrZone
  InitialLabels <- AllRdt
  None = None
  MaxEdits = 2
  MaxFaults = 1
  MaxStops = 1
  MaxRestarts = 1
  MaxRelabels = 1
  MaxForgets = 0
PROPERTIES EventuallyPlaced EventuallyReported EventuallyShrunk EventuallyDeletedIfKept
CHECK_DEADLOCK FALSE
