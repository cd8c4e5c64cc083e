-------------------------- MODULE MCAgentReconciler --------------------------
EXTENDS AgentReconciler, TLC

\* Leaders and assignments are only ever compared for equality.
Symmetry == Permutations(Leader) \cup Permutations(Assignment)
=============================================================================
