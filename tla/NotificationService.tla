------------------------ MODULE NotificationService ------------------------
(***************************************************************************)
(* The Discord notification dispatcher (services/notification_service.py). *)
(*                                                                         *)
(* Submissions leave rows in the table notification_queue.  One process    *)
(* (bots/main.py) owns a NotificationService with two tasks: a loop that   *)
(* scans every few seconds and a forced drain every 30 seconds.  Both hold *)
(* _processing_lock for a whole scan.  A scan picks a batch of rows, and   *)
(* for each row: claims it ("processing", committed), defers it while its  *)
(* video is unfinished, skips it when the table notified says it was sent, *)
(* posts it to Discord, and only then commits "sent".  Everything between  *)
(* two awaits is one action; crashes and errors strike between them.       *)
(***************************************************************************)
EXTENDS Naturals, Sequences, FiniteSets

CONSTANTS
  Workers,       \* the tasks that scan: the loop and the forced drain
  LoopWorker,    \* the one that is the loop and runs the periodic cleanup
  None,          \* nobody holds the lock
  Keys,          \* a submission shown to a group: one NotifiedSubmission
  Payloads,      \* the data of a row; two payloads may share a key
  Videos,        \* rows of video_uploads
  NoVideo,       \* a payload without a video_key
  KeyOf,         \* [Payloads -> Keys]
  VideoOf,       \* [Payloads -> Videos \cup {NoVideo}]
  KindOf,        \* [Keys -> Kinds]
  EntryOf,       \* what a key shows: the groups of a player share his drop
  BatchSize,     \* rows taken by a scan (10 in the code)
  CleanupEvery,  \* loop iterations between cleanups (1000 in the code)
  MaxRows,       \* bound: rows ever queued
  MaxFaults,     \* bound: exceptions raised by the database or by Discord
  MaxCrashes     \* bound: crashes and restarts of the bot process

\* What the senders tell apart.  "pb" stands for pb and clog, "plain" for the
\* kinds that are neither looked up in notified nor recorded there, "unknown"
\* for the types the dispatcher has no sender for (dm_drop, ...).
Kinds == {"drop", "pb", "ca", "plain", "user_upgrade", "unknown"}

ASSUME WorkersAssumption ==
  /\ LoopWorker \in Workers
  /\ None \notin Workers
ASSUME PayloadAssumption ==
  /\ NoVideo \notin Videos
  /\ KeyOf \in [Payloads -> Keys]
  /\ VideoOf \in [Payloads -> Videos \cup {NoVideo}]
  /\ KindOf \in [Keys -> Kinds]
  /\ \A k, l \in Keys : EntryOf[k] = EntryOf[l] => KindOf[k] = KindOf[l]
ASSUME BoundsAssumption ==
  /\ BatchSize \in Nat \ {0}
  /\ CleanupEvery \in Nat \ {0}
  /\ MaxRows \in Nat
  /\ MaxFaults \in Nat
  /\ MaxCrashes \in Nat

VARIABLES
  rows,          \* notification_queue, in order of created_at
  notified,      \* keys with a committed NotifiedSubmission
  gone,          \* keys whose Drop was deleted, with its NotifiedSubmissions
  videos,        \* status of each row of video_uploads ("absent": no row)
  lock,          \* holder of _processing_lock
  pc,            \* where each task is
  batch,         \* ids selected by the scan and not visited yet
  cur,           \* locked_notification of each task (0: None or unbound)
  found,         \* its transaction, which began at the check, sees the Drop
  cycle,         \* cleanup_counter
  handled,       \* processed_count > 0 in this process
  notifiedUsers, \* self.notified_users: accounts already told of an upgrade
  posts,         \* history: messages Discord has accepted for each key
  unrecorded,    \* history: of these, how many the database never learnt of
  faults,        \* exceptions so far
  crashes        \* crashes so far

taskVars == <<lock, pc, batch, cur, found>>
memoryVars == <<cycle, handled, notifiedUsers>>
historyVars == <<posts, unrecorded>>
faultVars == <<faults, crashes>>
vars == <<rows, notified, gone, videos, taskVars, memoryVars, historyVars, faultVars>>

Statuses == {"pending", "processing", "video_processing", "sent", "failed"}
VideoStatuses ==
  {"absent", "pending", "uploaded", "processing", "processed", "failed"}
\* "stamped": processed_at is set.  "due": processed_at is null or older than
\* the 15 seconds after which a deferred row is looked at again.
Row == [payload: Payloads, status: Statuses, stamped: BOOLEAN, due: BOOLEAN]

Places == {"idle", "claim", "check", "send", "again", "mark"}

TypeOK ==
  /\ rows \in Seq(Row)
  /\ notified \in SUBSET Keys
  /\ gone \in SUBSET Keys
  /\ videos \in [Videos -> VideoStatuses]
  /\ lock \in Workers \cup {None}
  /\ pc \in [Workers -> Places]
  /\ batch \in [Workers -> SUBSET (1..Len(rows))]
  /\ cur \in [Workers -> 0..Len(rows)]
  /\ found \in [Workers -> BOOLEAN]
  /\ cycle \in 0..CleanupEvery
  /\ handled \in BOOLEAN
  /\ notifiedUsers \in SUBSET Keys
  /\ posts \in [Keys -> Nat]
  /\ unrecorded \in [Keys -> Nat]
  /\ faults \in 0..MaxFaults
  /\ crashes \in 0..MaxCrashes
  /\ \A w \in Workers :
       pc[w] \in {"check", "send", "again", "mark"} => cur[w] # 0

Key(i) == KeyOf[rows[i].payload]
Kind(i) == KindOf[Key(i)]
Video(i) == VideoOf[rows[i].payload]

Init ==
  /\ rows = <<>>
  /\ notified = {} /\ gone = {}
  /\ videos \in [Videos -> {"absent", "pending"}]
  /\ lock = None
  /\ pc = [w \in Workers |-> "idle"]
  /\ batch = [w \in Workers |-> {}]
  /\ cur = [w \in Workers |-> 0]
  /\ found = [w \in Workers |-> FALSE]
  /\ cycle = 0
  /\ handled = FALSE
  /\ notifiedUsers = {}
  /\ posts = [k \in Keys |-> 0]
  /\ unrecorded = [k \in Keys |-> 0]
  /\ faults = 0
  /\ crashes = 0

-----------------------------------------------------------------------------
(* The environment: submissions, the video pipeline, the clock.            *)

\* create_notification, in the transaction of the submission: the table's unique
\* constraint admits a payload once.
Enqueue(p) ==
  /\ Len(rows) < MaxRows /\ KeyOf[p] \notin gone
  /\ \A i \in DOMAIN rows : rows[i].payload # p
  /\ rows' = Append(rows, [payload |-> p, status |-> "pending",
                           stamped |-> FALSE, due |-> TRUE])
  /\ UNCHANGED <<notified, gone, videos, taskVars, memoryVars, historyVars, faultVars>>

\* The commits of the upload routes and of the video worker.
VideoMoves_Uploading == {<<"pending", "uploading">>, <<"uploading", "uploaded">>}
VideoMoves == {<<"pending", "uploaded">>, <<"pending", "failed">>,
               <<"uploaded", "processing">>, <<"processing", "uploaded">>}
VideoEnds == {<<"processing", "processed">>, <<"processing", "failed">>}

VideoStep(v, steps) ==
  /\ \E step \in steps : /\ videos[v] = step[1]
                         /\ videos' = [videos EXCEPT ![v] = step[2]]
  /\ UNCHANGED <<rows, notified, gone, taskVars, memoryVars, historyVars, faultVars>>

\* A request that read "pending" before the video was finished commits its
\* "uploaded" late: see VideoPipeline.
Requeue(v) ==
  /\ videos[v] \in {"processed", "failed"}
  /\ faults < MaxFaults
  /\ faults' = faults + 1
  /\ videos' = [videos EXCEPT ![v] = "uploaded"]
  /\ UNCHANGED <<rows, notified, gone, taskVars, memoryVars, historyVars, crashes>>

\* An administrator deletes the drop of a message that was recorded, for every
\* group it was shown to; the rows in the queue stay (services/entry_modifier).
ShownWith(k) == {l \in Keys : EntryOf[l] = EntryOf[k]}
Delete(k) ==
  /\ k \in notified
  /\ notified' = notified \ ShownWith(k)
  /\ gone' = gone \cup ShownWith(k)
  /\ UNCHANGED <<rows, videos, taskVars, memoryVars, historyVars, faultVars>>

\* Fifteen seconds pass for a deferred row.
RetryDue(i) ==
  /\ rows[i].status = "video_processing"
  /\ ~rows[i].due
  /\ rows' = [rows EXCEPT ![i].due = TRUE]
  /\ UNCHANGED <<notified, gone, videos, taskVars, memoryVars, historyVars, faultVars>>

-----------------------------------------------------------------------------
(* The scan.                                                               *)

Eligible_PendingOnly(i) == rows[i].status = "pending"
Eligible(i) ==
  \/ rows[i].status = "pending"
  \/ rows[i].status = "video_processing" /\ rows[i].due

\* The oldest BatchSize eligible rows.
Selected ==
  {i \in DOMAIN rows :
     /\ Eligible(i)
     /\ Cardinality({j \in 1..(i - 1) : Eligible(j)}) < BatchSize}

LockFree_Ignored == TRUE
LockFree == lock = None

\* async with _processing_lock, then the unlocked SELECT of the batch.
Begin(w) ==
  /\ pc[w] = "idle"
  /\ LockFree
  /\ lock' = w
  /\ pc' = [pc EXCEPT ![w] = "claim"]
  /\ batch' = [batch EXCEPT ![w] = Selected]
  /\ cur' = [cur EXCEPT ![w] = 0]
  /\ UNCHANGED <<rows, notified, gone, videos, found, memoryVars, historyVars, faultVars>>

IsFirst(i, ids) == i \in ids /\ \A j \in ids : i <= j

\* SELECT ... FOR UPDATE of one row; it is claimed if its status still allows.
Claim(w) ==
  /\ pc[w] = "claim"
  /\ \E i \in batch[w] :
       /\ IsFirst(i, batch[w])
       /\ batch' = [batch EXCEPT ![w] = @ \ {i}]
       /\ IF rows[i].status \in {"pending", "video_processing"}
            THEN /\ rows' = [rows EXCEPT ![i].status = "processing"]
                 /\ cur' = [cur EXCEPT ![w] = i]
                 /\ pc' = [pc EXCEPT ![w] = "check"]
            ELSE /\ cur' = [cur EXCEPT ![w] = 0]
                 /\ UNCHANGED <<rows, pc>>
  /\ UNCHANGED <<notified, gone, videos, lock, found, memoryVars, historyVars, faultVars>>

\* The claim raises.  When the SELECT itself raises, locked_notification is
\* still the row of the previous round, and the handler fails that one; when
\* the commit of "processing" raises, it is the row being claimed.  When the
\* handler's own commit raises, nothing is written and the scan is abandoned.
ClaimRaises(w) ==
  /\ pc[w] = "claim"
  /\ faults < MaxFaults
  /\ faults' = faults + 1
  /\ \E i \in batch[w] :
       /\ IsFirst(i, batch[w])
       /\ \/ /\ batch' = [batch EXCEPT ![w] = {}]
             /\ UNCHANGED <<rows, cur>>
          \/ \E failing \in {i, cur[w]} :
               /\ batch' = [batch EXCEPT ![w] = @ \ {i}]
               /\ cur' = [cur EXCEPT ![w] = failing]
               /\ rows' = IF failing = 0 THEN rows
                          ELSE [rows EXCEPT ![failing].status = "failed"]
  /\ UNCHANGED <<notified, gone, videos, lock, pc, found, memoryVars, historyVars, crashes>>

\* The rest of the loop iteration: a row ends with a status (and processed_at,
\* when the path sets it) or is left as it is, and the scan goes on.
Concluded(row, st, stamp) ==
  [payload |-> row.payload, status |-> st, stamped |-> row.stamped \/ stamp,
   due |-> st # "video_processing"]

Conclude(w, st, stamp) ==
  /\ rows' = [rows EXCEPT ![cur[w]] = Concluded(rows[cur[w]], st, stamp)]
  /\ pc' = [pc EXCEPT ![w] = "claim"]
  /\ found' = [found EXCEPT ![w] = FALSE]
  /\ UNCHANGED <<lock, batch, cur>>

\* The videos a row waits for: uploads that may still finish or fail.
Unfinished_UploadedIsReady == {"pending", "processing"}
Unfinished == {"pending", "uploaded", "processing"}

MustWait(i) == Video(i) # NoVideo /\ videos[Video(i)] \in Unfinished

\* _should_defer_for_video: try again later.
Defer(w) ==
  /\ pc[w] = "check"
  /\ MustWait(cur[w])
  /\ Conclude(w, "video_processing", TRUE)
  /\ handled' = TRUE
  /\ UNCHANGED <<notified, gone, videos, cycle, notifiedUsers, historyVars, faultVars>>

\* The table notified, looked up by drop_id, pb_id, ca_id or clog_id.
AlreadySent_Never(i) == FALSE
AlreadySent(i) == Key(i) \in notified

SkipDuplicate(w) ==
  /\ pc[w] = "check"
  /\ ~MustWait(cur[w])
  /\ AlreadySent(cur[w])
  /\ Conclude(w, "sent", TRUE)
  /\ handled' = TRUE
  /\ UNCHANGED <<notified, gone, videos, cycle, notifiedUsers, historyVars, faultVars>>

\* A sender that returns without touching the row: it stays "processing".
\* An upgrade notice for an account in notified_users always ends so; a drop
\* only when the lookup above raised and the sender's own lookup finds it;
\* a pb when WiseOldMan cannot list the group.
Leave(w) ==
  /\ pc[w] = "check"
  /\ ~MustWait(cur[w])
  /\ \/ /\ Kind(cur[w]) = "user_upgrade"
        /\ Key(cur[w]) \in notifiedUsers
        /\ UNCHANGED faults
     \/ /\ Kind(cur[w]) = "pb" \/ (Kind(cur[w]) = "drop" /\ AlreadySent(cur[w]))
        /\ faults < MaxFaults
        /\ faults' = faults + 1
  /\ pc' = [pc EXCEPT ![w] = "claim"]
  /\ handled' = TRUE
  /\ UNCHANGED <<rows, notified, gone, videos, lock, batch, cur, found, cycle, notifiedUsers,
                 historyVars, crashes>>

\* The sender starts; it looks up its channel and template next.  A lookup of
\* the video that raises counts as no reason to wait.
ToSender(w) ==
  /\ pc[w] = "check"
  /\ IF MustWait(cur[w])
       THEN faults < MaxFaults /\ faults' = faults + 1
       ELSE UNCHANGED faults
  /\ ~AlreadySent(cur[w])
  /\ IF Kind(cur[w]) = "user_upgrade"
       THEN /\ Key(cur[w]) \notin notifiedUsers
            /\ notifiedUsers' = notifiedUsers \cup {Key(cur[w])}
       ELSE UNCHANGED notifiedUsers
  /\ pc' = [pc EXCEPT ![w] = "send"]
  /\ found' = [found EXCEPT ![w] = Kind(cur[w]) = "drop" /\ Key(cur[w]) \notin gone]
  /\ UNCHANGED <<rows, notified, gone, videos, lock, batch, cur, cycle, handled,
                 historyVars, crashes>>

\* No channel, no template, no permission, or no sender for the type.
Refuse(w) ==
  /\ pc[w] = "send"
  /\ Conclude(w, "failed", FALSE)
  /\ handled' = TRUE
  /\ UNCHANGED <<notified, gone, videos, cycle, notifiedUsers, historyVars, faultVars>>

\* channel.send.  A combat achievement is posted, and when its MP4 can be
\* downloaded it is posted again with the video attached.
Post(w) ==
  /\ pc[w] = "send"
  /\ Kind(cur[w]) # "unknown"
  /\ posts' = [posts EXCEPT ![Key(cur[w])] = @ + 1]
  /\ \/ pc' = [pc EXCEPT ![w] = "mark"]
     \/ /\ Kind(cur[w]) = "ca"
        /\ Video(cur[w]) # NoVideo /\ videos[Video(cur[w])] = "processed"
        /\ pc' = [pc EXCEPT ![w] = "again"]
  /\ UNCHANGED <<rows, notified, gone, videos, lock, batch, cur, found, memoryVars,
                 unrecorded, faultVars>>

PostVideo(w) ==
  /\ pc[w] = "again"
  /\ posts' = [posts EXCEPT ![Key(cur[w])] = @ + 1]
  /\ pc' = [pc EXCEPT ![w] = "mark"]
  /\ UNCHANGED <<rows, notified, gone, videos, lock, batch, cur, found, memoryVars,
                 unrecorded, faultVars>>

\* The post with the local screenshot raised although Discord took it: the
\* sender's except branch posts once more without the attachment.
PostWithoutImage(w) ==
  /\ pc[w] = "mark"
  /\ Kind(cur[w]) \in {"pb", "ca", "plain"}
  /\ faults < MaxFaults
  /\ faults' = faults + 1
  /\ posts' = [posts EXCEPT ![Key(cur[w])] = @ + 1]
  /\ unrecorded' = [unrecorded EXCEPT ![Key(cur[w])] = @ + 1]
  /\ UNCHANGED <<rows, notified, gone, videos, taskVars, memoryVars, crashes>>

\* Only the drop sender adds a NotifiedSubmission, in the commit of "sent", and
\* only for a Drop that its transaction sees.
Records_Nothing(w) == FALSE
Records(w) == found[w]

Mark(w) ==
  /\ pc[w] = "mark"
  /\ Records(w) => Key(cur[w]) \notin gone
  /\ Conclude(w, "sent", TRUE)
  /\ notified' = IF Records(w) THEN notified \cup {Key(cur[w])} ELSE notified
  /\ handled' = TRUE
  /\ UNCHANGED <<gone, videos, cycle, notifiedUsers, historyVars, faultVars>>

\* The Drop was deleted since the check: the foreign key refuses the commit, the
\* session refuses those of the handlers, the scan is abandoned.
Orphan(w) ==
  /\ pc[w] = "mark"
  /\ Records(w) /\ Key(cur[w]) \in gone
  /\ pc' = [pc EXCEPT ![w] = "claim"]
  /\ batch' = [batch EXCEPT ![w] = {}]
  /\ found' = [found EXCEPT ![w] = FALSE]
  /\ unrecorded' = [unrecorded EXCEPT ![Key(cur[w])] = @ + 1]
  /\ UNCHANGED <<rows, notified, gone, videos, lock, cur, memoryVars, posts, faultVars>>

\* An exception while a row is in hand (Discord refuses or times out, a commit
\* fails).  The except branches commit "failed"; when that commit fails too,
\* the row stays "processing" and the scan is abandoned.
Raise(w) ==
  /\ pc[w] \in {"check", "send", "again", "mark"}
  /\ faults < MaxFaults
  /\ faults' = faults + 1
  /\ \/ Conclude(w, "failed", FALSE)
     \/ /\ pc' = [pc EXCEPT ![w] = "claim"]
        /\ batch' = [batch EXCEPT ![w] = {}]
        /\ found' = [found EXCEPT ![w] = FALSE]
        /\ UNCHANGED <<rows, lock, cur>>
  /\ unrecorded' = IF pc[w] \in {"again", "mark"}
                     THEN [unrecorded EXCEPT ![Key(cur[w])] = @ + 1]
                     ELSE unrecorded
  /\ UNCHANGED <<notified, gone, videos, memoryVars, posts, crashes>>

\* cleanup_stuck_notifications: claimed rows whose processed_at is null.
IsStuck(i) == rows[i].status = "processing" /\ ~rows[i].stamped

\* End of a scan.  The loop counts its iterations, and every CleanupEvery of
\* them, once this process has handled something, it runs the cleanup before
\* it releases the lock.  (The cleanup of notified asks for a column the table
\* does not have, and its error is logged: it deletes nothing.)
Finish(w) ==
  /\ pc[w] = "claim"
  /\ batch[w] = {}
  /\ pc' = [pc EXCEPT ![w] = "idle"]
  /\ cur' = [cur EXCEPT ![w] = 0]
  /\ lock' = None
  /\ IF w = LoopWorker /\ cycle + 1 >= CleanupEvery /\ handled
       THEN /\ rows' = [i \in DOMAIN rows |->
                          IF IsStuck(i) THEN [rows[i] EXCEPT !.status = "pending"]
                          ELSE rows[i]]
            /\ cycle' = 0
       ELSE /\ cycle' = IF w = LoopWorker /\ cycle < CleanupEvery
                          THEN cycle + 1 ELSE cycle
            /\ UNCHANGED rows
  /\ UNCHANGED <<notified, gone, videos, batch, found, handled, notifiedUsers, historyVars,
                 faultVars>>

Posted(w) == pc[w] \in {"again", "mark"}

\* The bot process dies, or stop() cancels the loop and the process ends, and is
\* started again; what it remembered is gone.
Crash ==
  /\ crashes < MaxCrashes
  /\ crashes' = crashes + 1
  /\ unrecorded' = [k \in Keys |->
       IF \E w \in Workers : Posted(w) /\ Key(cur[w]) = k
         THEN unrecorded[k] + 1 ELSE unrecorded[k]]
  /\ lock' = None
  /\ pc' = [w \in Workers |-> "idle"]
  /\ batch' = [w \in Workers |-> {}]
  /\ cur' = [w \in Workers |-> 0]
  /\ found' = [w \in Workers |-> FALSE]
  /\ cycle' = 0
  /\ handled' = FALSE
  /\ notifiedUsers' = {}
  /\ UNCHANGED <<rows, notified, gone, videos, posts, faults>>

-----------------------------------------------------------------------------
Handle(w) ==
  \/ Claim(w) \/ Defer(w) \/ SkipDuplicate(w) \/ Leave(w) \/ ToSender(w)
  \/ Refuse(w) \/ Post(w) \/ PostVideo(w) \/ Mark(w) \/ Orphan(w) \/ Finish(w)

Next ==
  \/ \E p \in Payloads : Enqueue(p)
  \/ \E k \in Keys : Delete(k)
  \/ \E v \in Videos : VideoStep(v, VideoMoves \cup VideoEnds)
  \/ \E v \in Videos : Requeue(v)
  \/ \E i \in DOMAIN rows : RetryDue(i)
  \/ \E w \in Workers :
       Begin(w) \/ Handle(w) \/ ClaimRaises(w) \/ PostWithoutImage(w) \/ Raise(w)
  \/ Crash

Spec == Init /\ [][Next]_vars

\* The loop task keeps scanning, and asyncio.Lock serves its waiters in order,
\* so drains cannot keep it out for ever; a scan under way goes on; uploads end
\* (the worker converts them or the cleanup expires them), however often a
\* conversion is put back; fifteen seconds pass.
Fairness ==
  /\ SF_vars(Begin(LoopWorker))
  /\ \A w \in Workers : WF_vars(Handle(w))
  /\ \A v \in Videos : /\ WF_vars(VideoStep(v, VideoMoves \cup VideoEnds))
                       /\ SF_vars(VideoStep(v, VideoEnds))
  /\ \A i \in 1..MaxRows : WF_vars(i \in DOMAIN rows /\ RetryDue(i))

FairSpec == Spec /\ Fairness

-----------------------------------------------------------------------------
(* Properties.                                                             *)

RowsOf(k) == {i \in DOMAIN rows : Key(i) = k}

\* A drop is posted to a group at most once, however many rows ask for it and
\* whichever task handles them, unless a post was lost to the database (a crash
\* or an exception between channel.send and the commit of "sent").  Nothing
\* holds back the rows that a deleted drop left in the queue.
DropsPostedOnce ==
  \A k \in Keys \ gone : KindOf[k] = "drop" => posts[k] <= 1 + unrecorded[k]

\* Every row posts at most once, posts the database missed apart.  Combat
\* achievements are left out: see CombatAchievementsPostedOnce.
OnePostPerRow ==
  \A k \in Keys : KindOf[k] # "ca" =>
    posts[k] <= Cardinality(RowsOf(k)) + unrecorded[k]

\* A row is only called sent when Discord has accepted a message for its key,
\* and a drop called sent is guarded against being posted again, until an
\* administrator deletes it.
SentWasPosted ==
  \A i \in DOMAIN rows : rows[i].status = "sent" =>
    /\ posts[Key(i)] > 0
    /\ Kind(i) = "drop" => Key(i) \in notified \cup gone

\* Nothing is posted ahead of its video: from the check to the commit of
\* "sent", across the awaits, the video is processed, failed or unknown, as
\* long as no lookup raised and no video was put back in the queue.
NeverAheadOfVideo ==
  faults = 0 => \A w \in Workers :
    /\ pc[w] \in {"send", "again", "mark"}
    /\ Video(cur[w]) # NoVideo
    => videos[Video(cur[w])] \in {"absent", "processed", "failed"}

\* The cleanup never takes a row out of the hands of a task at work on it.
CleanupSparesRowsInHand ==
  [][\A i \in DOMAIN rows :
       rows[i].status = "processing" /\ rows'[i].status = "pending" =>
         \A w \in Workers : cur[w] = i => pc[w] \in {"idle", "claim"}]_vars

\* Without faults every row ends sent or failed: no row is starved by the
\* batch limit or by deferred rows that come first.  A row that was deferred
\* before, and whose drop is deleted while it is posted, is left for good.
Stranded(i) ==
  Key(i) \in gone /\ rows[i].status = "processing" /\ rows[i].stamped
EveryRowSettles ==
  \A i \in 1..MaxRows :
    i \in DOMAIN rows ~>
      i \in DOMAIN rows /\ (rows[i].status \in {"sent", "failed"} \/ Stranded(i))

\* The abstract promise: see DeliveryPromise.
Promise == INSTANCE DeliveryPromise WITH
  queue <- [i \in DOMAIN rows |->
              [payload |-> rows[i].payload,
               state |-> IF rows[i].status \in {"sent", "failed"}
                           THEN rows[i].status ELSE "queued"]]

KeepsPromise == Promise!Spec

-----------------------------------------------------------------------------
(* What comments and documents say, and the code does not do.              *)

\* "Ensure we have a valid notification object for error handling" (625): an
\* error with one row leaves a row that was sent alone.
SentRowsStaySent ==
  [][\A i \in DOMAIN rows :
       rows[i].status = "sent" => rows'[i].status = "sent"]_vars

\* "Reset notifications that have been stuck in 'processing' status for too
\* long" (3644), in a process whose cleanup runs (it has handled something).
StuckRowsAreReset ==
  \A i \in 1..MaxRows :
    i \in DOMAIN rows /\ rows[i].status = "processing" /\ handled
      ~> i \in DOMAIN rows /\ rows[i].status # "processing"

\* "Don't notify the same user twice in quick succession" (1558): once that is
\* over, a later notice for the same account reaches an end.
UpgradeRowsSettle ==
  \A i \in 1..MaxRows :
    i \in DOMAIN rows /\ Kind(i) = "user_upgrade"
      ~> i \in DOMAIN rows /\ rows[i].status \in {"sent", "failed"}

\* "Prefer attaching MP4 if available" (3089): one message per row.
CombatAchievementsPostedOnce ==
  \A k \in Keys : KindOf[k] = "ca" =>
    posts[k] <= Cardinality(RowsOf(k)) + unrecorded[k]

=============================================================================
