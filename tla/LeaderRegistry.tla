--------------------------- MODULE LeaderRegistry ---------------------------
(***************************************************************************)
(* What a Warden cluster promises to the consumers of its ClusterView      *)
(* (watchdog, dashboard, CandaceOS fences): a registry in which each term  *)
(* has at most one winner, and per node a shown pair (Term, LeaderID) that *)
(* is either a term without a leader or a term with its registered winner. *)
(* Nothing is promised about how fast a node learns, nor that the term it  *)
(* shows survives a restart.                                               *)
(***************************************************************************)
EXTENDS Naturals

CONSTANTS Node, None, MaxTerm

VARIABLES wins, shownTerm, shownLeader

Show(n, term, leader) ==
    /\ shownTerm' = [shownTerm EXCEPT ![n] = term]
    /\ shownLeader' = [shownLeader EXCEPT ![n] = leader]

Init ==
    /\ wins = {}
    /\ shownTerm = [n \in Node |-> 0]
    /\ shownLeader = [n \in Node |-> None]

\* A term nobody has won yet is won by n, which shows it at once.
Win(n, term) ==
    /\ \A w \in wins : w.term # term
    /\ wins' = wins \cup {[term |-> term, leader |-> n]}
    /\ Show(n, term, n)

\* A node learns the winner of a term that is not older than the one it shows.
Learn(n, w) ==
    /\ w.term >= shownTerm[n]
    /\ Show(n, w.term, w.leader)
    /\ UNCHANGED wins

\* A node moves to a term whose winner it does not know.  After a restart this
\* may be an older term.
Forget(n, term) ==
    /\ Show(n, term, None)
    /\ UNCHANGED wins

Next ==
    \E n \in Node :
        \/ \E term \in 0 .. MaxTerm : Win(n, term) \/ Forget(n, term)
        \/ \E w \in wins : Learn(n, w)

Spec == Init /\ [][Next]_<<wins, shownTerm, shownLeader>>
=============================================================================
