CONSTANTS
    Node = {a, b, c, d}
    a = a
    b = b
    c = c
    d = d
    None = None
    Deployments <- AllDeployments
    MaxTerm = 2
    MaxVersion = 3
SPECIFICATION Spec
INVARIANTS
    AdjacentMembershipsAreSafe
    ChangedMembershipsAreDurable
PROPERTIES
    MembershipNeverRegresses
