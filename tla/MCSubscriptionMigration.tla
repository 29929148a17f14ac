----------------------- MODULE MCSubscriptionMigration -----------------------
(* Small instances of SubscriptionMigration for TLC. *)
EXTENDS SubscriptionMigration, TLC

CONSTANTS i1, i2, w1, w2, s1, s2

Symmetry == Permutations(Items) \cup Permutations(Workers) \cup Permutations(Slots)
=============================================================================
