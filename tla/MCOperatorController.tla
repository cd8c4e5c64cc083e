------------------------ MODULE MCOperatorController ------------------------
(* OperatorController with a few runs and turns. *)
EXTENDS OperatorController
=============================================================================
