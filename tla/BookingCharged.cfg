SPECIFICATION Spec
CONSTANTS
    Ids = {r1}
    Confirms = {c1}
    None = None
    MaxQueue = 2
INVARIANTS
    ChargedIsReserved
