------------------------- MODULE MCSubmissionIntake -------------------------
(* Instances of SubmissionIntake for TLC. *)
EXTENDS SubmissionIntake, TLC

CONSTANTS s1, s2, s3, g1, g2, w1, w2

IntakeSymmetry ==
  Permutations(Sends) \cup Permutations(Guids) \cup Permutations(Workers)
=============================================================================
