----------------------- MODULE MCNotificationService -----------------------
(* Instances of NotificationService for TLC. *)
EXTENDS NotificationService, TLC

CONSTANTS loop, drain, p1, p2, p3, p4, p5, k1, k2, k3, k4, v1

Given(f, S) == [x \in S |-> f[x]]

\* p1 and p2 are rows of one drop for one group, p5 of that drop for another;
\* p2, p3 and p5 wait for the same video.
MCKeyOf == Given(p1 :> k1 @@ p2 :> k1 @@ p3 :> k2 @@ p4 :> k3 @@ p5 :> k4, Payloads)
MCVideoOf ==
  Given(p1 :> NoVideo @@ p2 :> v1 @@ p3 :> v1 @@ p4 :> NoVideo @@ p5 :> v1, Payloads)
MCEntryOf == Given(k1 :> k1 @@ k2 :> k2 @@ k3 :> k3 @@ k4 :> k1, Keys)

DropCaUpgrade ==
  Given(k1 :> "drop" @@ k2 :> "ca" @@ k3 :> "user_upgrade" @@ k4 :> "drop", Keys)
DropPbUnknown ==
  Given(k1 :> "drop" @@ k2 :> "pb" @@ k3 :> "unknown" @@ k4 :> "drop", Keys)
=============================================================================
