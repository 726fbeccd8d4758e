SPECIFICATION Spec
CONSTANTS
    Ids = {r1, r2}
    Confirms = {c1, c2}
    None = None
    MaxQueue = 2
SYMMETRY Symmetry
INVARIANTS
    OnlyWaitingCallsWake
    HeldRowIsBacked
    ChargedIsReservedUnlessOvertaken
    ReconciledIsFreeUnlessOvertaken
PROPERTIES
    ImplementsSlotLock
