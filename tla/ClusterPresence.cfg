SPECIFICATION ClusterSpec
CONSTANTS
  i1 = i1
  i2 = i2
  Hubs = {i1, i2}
  MaxSockets = 3
  MissLimit = 0
  None = None
SYMMETRY Symmetry
INVARIANTS
  OwnerIsCurrent
CHECK_DEADLOCK FALSE
