SPECIFICATION Spec
CONSTANTS
  u1 = u1
  u2 = u2
  Users = {u1, u2}
  Resv = {1, 2}
  MaxViews = 2
  MaxConfirms = 2
  None = None
SYMMETRY Symmetry
INVARIANTS
  OwnBookingsShown
  NeverAhead
  ButtonWaitsForItsCall
  PaidIsShown
  JobIsWatched
CHECK_DEADLOCK FALSE
