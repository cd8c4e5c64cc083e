--------------------------- MODULE MCApprovalQueue ---------------------------
(* ApprovalQueue with a single approval. *)
EXTENDS ApprovalQueue
=============================================================================
