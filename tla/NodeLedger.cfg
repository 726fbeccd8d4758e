SPECIFICATION Spec
CONSTANTS
    Ids = {r1, r2}
    Threads = {t1, t2}
    Windows <- MCWindows
    HoldTTL = 1
    MaxClock = 3
    None = None
SYMMETRY Symmetry
INVARIANTS
    TypeOK
    NoDoubleBooking
    ReceiptHonoured
PROPERTIES
    OnlyLapsedOrYielded
    ImplementsSlotLock
