SPECIFICATION Spec
CONSTANTS
  Machines = {m1}
  Providers = {p1, p2}
  Buyers = {b1}
  Resv = {r1, r2}
  Prices = {1, 2}
  Candidates <- MCCandidates
  Declared <- MCDeclared
  Wishes <- MCWishes
  Asked <- MCAsked
  Percent = 1
  Unit <- MCUnit
  Instants = {0, 3}
  None = None
SYMMETRY MCSymmetry
CHECK_DEADLOCK FALSE
INVARIANTS
  OffersStand
  CatalogueWithinSearch
  RetiredIsIdle
  BetterRanksHigher
PROPERTIES
  OwnerStays
