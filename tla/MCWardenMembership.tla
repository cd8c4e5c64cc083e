------------------------- MODULE MCWardenMembership -------------------------
(* WardenMembership on small deployments. *)
EXTENDS WardenMembership

CONSTANTS a, b, c, d

Full(nodes) == nodes \X nodes

\* Two founders and a joiner; a leads term 1 and two nodes stand in term 2.
TwoTerms ==
    [nodes |-> {a, b, c}, founders |-> {a, b}, saves |-> {"ok"},
     links |-> Full({a, b, c}), restarting |-> {},
     standing |-> {<<a, 1>>, <<b, 2>>, <<c, 2>>}]

\* The same nodes under one leader, with failing saves and restarts.
FailingDisks ==
    [nodes |-> {a, b, c}, founders |-> {a, b}, saves |-> {"ok", "lost", "unsure"},
     links |-> Full({a, b, c}), restarting |-> {a, b, c}, standing |-> {<<a, 1>>}]

\* Three founders and a joiner, of which a and c, b and d cannot talk: c misses
\* what a does, and c and d both stand in term 2.
Torn ==
    [nodes |-> {a, b, c, d}, founders |-> {a, b, c}, saves |-> {"ok"},
     links |-> {<<a, b>>, <<a, d>>, <<b, c>>}, restarting |-> {},
     standing |-> {<<a, 1>>, <<c, 1>>, <<c, 2>>, <<d, 2>>}]

AllDeployments == {TwoTerms, FailingDisks, Torn}
TornDeployment == {Torn}
=============================================================================
