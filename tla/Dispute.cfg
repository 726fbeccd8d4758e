SPECIFICATION LiveSpec
CONSTANTS
    Resv = {r1, r2, r3}
    NodeOf <- MCNodeOf
    Submits = {q1}
    Verified = {q1}
    Tiebreaks = {t1}
    Results <- TwoOutputs
    None = None
INVARIANTS
    ReputationMatchesLedger
    FaultFairlyAttributed
PROPERTIES
    EveryResultSettles
