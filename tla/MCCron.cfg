CONSTANTS
    Proc = {p, q}
    p = p
    q = q
    Definition <- TwoVersions
    Lease = 2
    Limit = 1
    Outcome = {"succeeded"}
    TxResult = {"ok", "lost", "unsure"}
    MaxTime = 3
    MaxFaults = 1
    None = None
SPECIFICATION Spec
SYMMETRY Symmetry
INVARIANTS
    NothingIsPassedOver
    LiveLeasesDoNotOverlap
PROPERTIES
    LateOwnersChangeNothing
    CatchUpIsKept
CHECK_DEADLOCK FALSE
