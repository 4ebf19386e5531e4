---------------------------- MODULE MCLootTotals ----------------------------
(* Instances of LootTotals for TLC. *)
EXTENDS LootTotals, TLC

CONSTANTS p1, d1, d2, u1, u2, a1

LootSymmetry == Permutations(Drops) \cup Permutations(Updaters)
=============================================================================
