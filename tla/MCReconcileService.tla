------------------------- MODULE MCReconcileService -------------------------
EXTENDS ReconcileService, TLC

match(nodes, n) == [kind |-> "match", nodes |-> nodes, replicas |-> n]

\* Stop, follow the leader, and both replicas of a label.
SomeIntents == {[kind |-> "stop", nodes |-> {}, replicas |-> 0],
                [kind |-> "leader", nodes |-> {}, replicas |-> 0],
                match({1, 2}, 2)}

reports(leader, term, known, alive) ==
    [leader |-> leader, term |-> term, authoritative |-> TRUE,
     voters |-> {1, 2, 3}, known |-> known, alive |-> alive]

\* A first leader with everybody alive, and its successor, who lost node 1 and
\* whose list may have dropped it.
SomeViews == {reports(1, 1, {1, 2, 3}, {1, 2, 3}),
              reports(2, 2, {1, 2, 3}, {2, 3}),
              reports(2, 2, {2, 3}, {2, 3})}

Symmetry == Permutations(Call)
=============================================================================
