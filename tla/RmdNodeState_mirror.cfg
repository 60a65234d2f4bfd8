SPECIFICATION FairSpec
CONSTANTS
  Nodes = {n1, n2}
  Ips = {ip1, ip2}
  Names = {w}
  Specs <- Two
  Cpus = {0, 1, 2}
  Width = 8
  None = None
  Pending = Pending
  MaxChanges = 2
  MaxUpsets = 1
INVARIANTS TypeOK StatusOwn MirrorInv ShownAsAsked StaysInCycle
PROPERTIES EventuallyMirrored
CHECK_DEADLOCK FALSE
