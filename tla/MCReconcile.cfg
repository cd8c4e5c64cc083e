CONSTANTS
    Node = {1, 2, 3}
    Call = {a, b}
    a = a
    b = b
    None = None
    Intents <- SomeIntents
    Views <- SomeViews
    TxResult = {"ok", "lost", "unsure"}
    Switching = {1}
    MayRestart = TRUE
SPECIFICATION Spec
SYMMETRY Symmetry
INVARIANTS
    InactiveUnlessOvertaken
    EvidenceIsTrue
PROPERTIES
    SoleRolloutConverges
