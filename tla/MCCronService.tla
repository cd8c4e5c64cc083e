--------------------------- MODULE MCCronService ----------------------------
(* CronService on a short timeline. *)
EXTENDS CronService, TLC

\* Two versions of the job, with different schedules and catch-up policies.
TwoVersions == {[at |-> {1, 2}, catchUp |-> "none", overlap |-> "skip"],
                [at |-> {1, 3}, catchUp |-> "latest", overlap |-> "skip"]}
Symmetry == Permutations(Proc)
=============================================================================
