\* Every call ends: the system may stop.
CHECK_DEADLOCK FALSE
SPECIFICATION Spec
CONSTANTS
    Caller = {c1, c2, c3}
    Nobody = Nobody
    MaxRetries = 3
SYMMETRY MCSymmetry
INVARIANTS
    TypeOK
    ExclusiveUnlessStolen
    AtomicUnlessStolen
