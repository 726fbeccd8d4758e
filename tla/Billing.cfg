SPECIFICATION Spec
CONSTANTS
    Resv = {r1}
    Calls = {c1, c2}
    UserOf <- MCUserOf
    ProviderOf <- MCProviderOf
    Prices = {1, 497}
    Slots = {60000, 60499, 119000, 3600000}
    Seconds = {2, 1501}
    Manual = TRUE
    None = None
CHECK_DEADLOCK FALSE
SYMMETRY Symmetry
INVARIANTS
    QuoteFair
    EveryPaisaAccounted
    FinalRowMatchesLedger
