CONSTANTS
    Node = {a, b, c, d}
    a = a
    b = b
    c = c
    d = d
    None = None
    Deployments <- TornDeployment
    MaxTerm = 2
    MaxVersion = 3
SPECIFICATION Spec
INVARIANT ElectionSafety
