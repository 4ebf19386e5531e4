-------------------------- MODULE MCEntryModifier --------------------------
(* Instances of EntryModifier for TLC.                                      *)
EXTENDS EntryModifier, TLC

CONSTANTS ann, bob, cid, g1, g2, d1, d2, o1

\* Ann and Bob are in both groups, Cid in the second only.
MCMember == g1 :> {ann, bob} @@ g2 :> {ann, bob, cid}
MCReceiver == d1 :> ann @@ d2 :> bob
MCMonth == d1 :> 2 @@ d2 :> 1
MCOwner == o1 :> bob
MCNumber == d1 :> 1 @@ d2 :> 2 @@ o1 :> 1
MCWorth == d1 :> 6 @@ d2 :> 4
MCNamings == {{}, {bob, cid}}
=============================================================================
