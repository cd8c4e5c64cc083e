-------------------------- MODULE MCWardenElection --------------------------
(* WardenElection with three voters, two of which stand for election. *)
EXTENDS WardenElection
=============================================================================
