SPECIFICATION FairSpec
CONSTANTS
  Pools <- SomePools
  None = None
  MaxUpsets = 4
INVARIANTS TypeOK WaysApart InReach
PROPERTIES EventuallyAdvertised
CHECK_DEADLOCK FALSE
