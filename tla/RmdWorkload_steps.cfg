SPECIFICATION Spec
CONSTANTS
  Nodes = {n1}
  Keys = {k1, k2}
  Names <- Keys
  NameOf <- OwnName
  LabelMaps <- OnlyRdt
  RmdSelector <- Rdt
  Specs <- Everywhere
  InitialLabels <- AllRdt
  None = None
  MaxEdits = 3
  MaxFaults = 1
  MaxStops = 1
  MaxRestarts = 1
  MaxRelabels = 0
  MaxForgets = 1
SYMMETRY Alike
CONSTRAINT TwoKindsOfUpset
INVARIANTS TypeOK OneEntryPerName DeletesOwn ServerInv StatusIdsOwn VersionsOrdered NothingForgotten
PROPERTIES ImplementsStore
CHECK_DEADLOCK FALSE
