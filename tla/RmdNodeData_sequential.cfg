SPECIFICATION Spec
CONSTANTS
  Nodes = {n1, n2, n3}
  Free = Free
  MaxUpdates = 4
  MaxDeletes = 2
  MaxScans = 1
SYMMETRY Perms
INVARIANTS TypeOK SequentialIsSet ListInv ScanMissesLittle ScanInv
PROPERTIES ImplementsSet
CHECK_DEADLOCK FALSE
