-------------------------- MODULE DeliveryPromise --------------------------
(***************************************************************************)
(* What the notification queue promises for drops while nothing fails: a   *)
(* queued row ends either sent or failed and then rests; a key is posted   *)
(* once, and no row for a key is sent before its message was posted.  A    *)
(* drop that was shown may be withdrawn: the rows that are still queued    *)
(* for it settle as before, and may bring its message again.               *)
(* docs/SUBMISSION_PIPELINE.md, Phase 3, and the table notified in         *)
(* docs/ARCHITECTURE.md ("Dedup guard: already-sent notifications").       *)
(***************************************************************************)
EXTENDS Naturals, Sequences

CONSTANTS Keys, Payloads, KeyOf, EntryOf

VARIABLES
  queue,   \* the rows: their payload and "queued", "sent" or "failed"
  posts,   \* messages posted for each key
  gone     \* keys that were withdrawn

Init ==
  /\ queue = <<>>
  /\ posts = [k \in Keys |-> 0]
  /\ gone = {}

Accept(p) ==
  /\ queue' = Append(queue, [payload |-> p, state |-> "queued"])
  /\ UNCHANGED <<posts, gone>>

\* The message of a key that some row still asks for.
Deliver(k) ==
  /\ posts[k] = 0 \/ k \in gone
  /\ \E i \in DOMAIN queue :
       queue[i].state = "queued" /\ KeyOf[queue[i].payload] = k
  /\ posts' = [posts EXCEPT ![k] = @ + 1]
  /\ UNCHANGED <<queue, gone>>

\* What a message showed is withdrawn from every group.
Withdraw(k) ==
  /\ posts[k] > 0
  /\ gone' = gone \cup {l \in Keys : EntryOf[l] = EntryOf[k]}
  /\ UNCHANGED <<queue, posts>>

Settle(i, state) ==
  /\ queue[i].state = "queued"
  /\ state = "sent" => posts[KeyOf[queue[i].payload]] > 0
  /\ queue' = [queue EXCEPT ![i].state = state]
  /\ UNCHANGED <<posts, gone>>

Next ==
  \/ \E p \in Payloads : Accept(p)
  \/ \E k \in Keys : Deliver(k) \/ Withdraw(k)
  \/ \E i \in DOMAIN queue : \E state \in {"sent", "failed"} : Settle(i, state)

Spec == Init /\ [][Next]_<<queue, posts, gone>>

=============================================================================
