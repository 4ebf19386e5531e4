--------------------------- MODULE MCWebhookQueue ---------------------------
(* Instances of WebhookQueue for TLC. *)
EXTENDS WebhookQueue, TLC

CONSTANTS g1, g2, w1

E(kind, guid, what) == [kind |-> kind, guid |-> guid, what |-> what]

MCEmbeds ==
  {E("drop", None, w1), E("drop", g1, w1), E("quest", g1, w1), E("pb", g1, w1),
   E("pb", g2, w1), E("ca", g1, w1), E("ca", g2, w1), E("clog", g1, w1),
   E("pet", g1, w1), E("pet", g2, w1), E("pet", g1, None),
   E("experience", None, w1), E("other", None, w1)}

\* Two embeds in a request, and the ways one request can meet another again.
MCPayloads ==
  {<<>>, <<E("drop", g1, w1), E("ca", g1, w1)>>, <<E("ca", g2, w1)>>,
   <<E("drop", None, w1)>>, <<E("pb", g1, w1)>>, <<E("pb", g2, w1)>>,
   <<E("other", None, w1), E("pet", g1, w1)>>, <<E("pet", g2, w1)>>,
   <<E("pet", g1, None), E("experience", None, w1)>>,
   <<E("clog", g1, w1), E("quest", g1, w1)>>}
=============================================================================
