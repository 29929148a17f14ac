-------------------------- MODULE MCMigrationPreview --------------------------
(* Instances for TLC. *)
EXTENDS MigrationPreview, TLC

CONSTANTS job1, job2, worker1, worker2

Symmetric == Permutations(Jobs) \cup Permutations(Workers)
=============================================================================
