SPECIFICATION Spec
CONSTANTS
    Resv = {r1, r2}
    NodeOf <- MCNodeOf
    Submits = {q1, q2}
    Verified = {q1}
    Tiebreaks = {}
    Results <- ThreeStatuses
    None = None
SYMMETRY Symmetry
INVARIANTS
    SettlementJustified
    ReputationMatchesLedger
