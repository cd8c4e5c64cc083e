CONSTANTS
    Node = {n1, n2, n3}
    None = None
    Standing = {n1, n2}
    MaxTerm = 2
SPECIFICATION LiveSpec
INVARIANTS
    TypeOK
    ElectionSafety
    VotesAreKept
    ViewsNameTheWinner
PROPERTIES
    CandidaciesAreFresh
    ImplementsRegistry
    StaleLeaderStepsDown
