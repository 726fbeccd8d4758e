SPECIFICATION Spec
CONSTANTS
  i1 = i1
  i2 = i2
  Hubs = {i1, i2}
  MaxSockets = 2
  MissLimit = 3
  None = None
INVARIANTS
  NewestIsHeld
  StatusTellsPresence
PROPERTIES
  RetiredStays
  SilentIsSwept
CHECK_DEADLOCK FALSE
