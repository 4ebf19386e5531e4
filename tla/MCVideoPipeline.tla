-------------------------- MODULE MCVideoPipeline --------------------------
(* Instances of VideoPipeline for TLC. *)
EXTENDS VideoPipeline, TLC

CONSTANTS r1, r2

RequestSymmetry == Permutations(Requests)
=============================================================================
