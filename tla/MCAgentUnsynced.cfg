CONSTANTS
    Leader = {a, b}
    Assignment = {x, y}
    a = a
    b = b
    x = x
    y = y
    NoLeader = NoLeader
    NoAssignment = NoAssignment
    Legacy = Legacy
    SaveResult = {"ok", "lost", "unsynced"}
    PowerLoss = TRUE
    MaxTerm = 2
SYMMETRY Symmetry
SPECIFICATION Spec
PROPERTIES
    FencesOutlivePower
