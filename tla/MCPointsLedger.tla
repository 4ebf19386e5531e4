--------------------------- MODULE MCPointsLedger ---------------------------
(* Instances of PointsLedger for TLC.                                       *)
EXTENDS PointsLedger, TLC

CONSTANTS ann, g1, ref, w1, w2

MCMember == g1 :> {ann}
MCAwards == {[player |-> ann, group |-> None, amount |-> 2, days |-> 0],
             [player |-> ann, group |-> g1, amount |-> 1, days |-> 1],
             [player |-> None, group |-> g1, amount |-> 2, days |-> 2],
             [player |-> None, group |-> g1, amount |-> 1, days |-> None]}
MCWorkers == {w1, w2}
MCSymmetry == Permutations(MCWorkers)
MCSubscriber == ref :> ann
=============================================================================
