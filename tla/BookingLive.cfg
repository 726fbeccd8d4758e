SPECIFICATION LiveSpec
CONSTANTS
    Ids = {r1}
    Confirms = {c1, c2}
    None = None
    MaxQueue = 2
PROPERTIES
    ConfirmsEnd
    HoldsEnd
    SlotRecovers
