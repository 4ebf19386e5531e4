--------------------------- MODULE VideoPipeline ---------------------------
(***************************************************************************)
(* A video from its upload ticket to the MP4 (api/routes/video.py,         *)
(* services/video_worker.py, and the video part of api/routes/webhook.py). *)
(*                                                                         *)
(* Three programs write the rows of video_uploads, each through its own    *)
(* database sessions: the upload routes, the webhook that carries the      *)
(* submission the video belongs to, and one worker process.  A session     *)
(* that read a row some time ago still writes what it decided then; a row  *)
(* flushed by an open transaction is locked until it commits.  Storage is  *)
(* the B2 backend (use_b2 is True) with a CDN base, so that a finished     *)
(* video has a lasting URL.                                                *)
(***************************************************************************)
EXTENDS Naturals, FiniteSets

CONSTANTS
  MaxVideos,     \* bound: tickets ever issued
  Requests,      \* requests for a ticket that may be served at once
  DailyLimit,    \* tickets a group may have in a day
  MaxConcurrent, \* conversions run side by side
  CleanupEvery,  \* polls of the worker between cleanups (12 in the code)
  MaxFaults,     \* bound: errors of FFmpeg, of storage or of the database
  MaxCrashes     \* bound: crashes of the worker process

ASSUME QuotaAssumption ==
  /\ MaxVideos \in Nat
  /\ DailyLimit \in Nat \ {0}
  /\ IsFiniteSet(Requests)
  /\ Requests # {}
ASSUME WorkerAssumption ==
  /\ MaxConcurrent \in Nat \ {0}
  /\ CleanupEvery \in Nat \ {0}
  /\ MaxFaults \in Nat
  /\ MaxCrashes \in Nat

\* VideoUpload.id, in order of created_at.
Videos == 1..MaxVideos

VARIABLES
  issued,    \* tickets committed today
  admitted,  \* requests that found the quota open and have no ticket yet
  status,    \* video_uploads.status ("absent": no row yet)
  aged,      \* the row is older than the cutoff of the cleanup that selects it
  raw,       \* the MJPEG in storage
  mp4,       \* videos whose MP4 is in storage
  confirming,\* complete-upload requests that have read "pending"
  hook,      \* where the webhook of each video is
  seen,      \* the status in its snapshot while the webhook is open
  linked,    \* videos whose row names its submission
  url,       \* videos whose submission has the URL
  worker,    \* where the worker loop is
  polls,     \* its cleanup_counter
  expiring,  \* rows its cleanup has selected as expired
  job,       \* where process_single_video is for each video
  faults, crashes

ticketVars == <<issued, admitted>>
storeVars == <<raw, mp4>>
hookVars == <<hook, seen>>
linkVars == <<linked, url>>
loopVars == <<worker, polls, expiring>>
faultVars == <<faults, crashes>>
vars == <<ticketVars, status, aged, storeVars, confirming, hookVars, linkVars,
          loopVars, job, faultVars>>

Statuses == {"absent", "pending", "uploaded", "processing", "processed", "failed"}

TypeOK ==
  /\ issued \in 0..MaxVideos
  /\ admitted \in SUBSET Requests
  /\ status \in [Videos -> Statuses]
  /\ aged \in SUBSET Videos
  /\ raw \in [Videos -> {"none", "stored", "deleted"}]
  /\ mp4 \in SUBSET Videos
  /\ confirming \in SUBSET Videos
  /\ hook \in [Videos -> {"none", "read", "wrote", "again", "done"}]
  /\ seen \in [Videos -> Statuses]
  /\ linked \in SUBSET Videos
  /\ url \in SUBSET Videos
  /\ worker \in {"poll", "sweep", "expire", "fetch"}
  /\ polls \in 0..(CleanupEvery - 1)
  /\ expiring \in SUBSET Videos
  /\ job \in [Videos -> {"none", "picked", "work", "stored", "finish", "plain", "linked"}]
  /\ faults \in 0..MaxFaults
  /\ crashes \in 0..MaxCrashes
  /\ \A v \in Videos : v <= issued <=> status[v] # "absent"

Init ==
  /\ issued = 0
  /\ admitted = {}
  /\ status = [v \in Videos |-> "absent"]
  /\ aged = {}
  /\ raw = [v \in Videos |-> "none"]
  /\ mp4 = {}
  /\ confirming = {}
  /\ hook = [v \in Videos |-> "none"]
  /\ seen = [v \in Videos |-> "absent"]
  /\ linked = {}
  /\ url = {}
  /\ worker = "poll"
  /\ polls = 0
  /\ expiring = {}
  /\ job = [v \in Videos |-> "none"]
  /\ faults = 0
  /\ crashes = 0

\* The row is not locked by the open transaction of a webhook.
Unlocked(v) == hook[v] # "wrote"

-----------------------------------------------------------------------------
(* Tickets and uploads.                                                    *)

QuotaOpen_Off == issued <= DailyLimit
QuotaOpen == issued < DailyLimit

\* _resolve_upload_context counts the tickets of the day...
Admit(r) ==
  /\ r \notin admitted
  /\ QuotaOpen
  /\ admitted' = admitted \cup {r}
  /\ UNCHANGED <<issued, status, aged, storeVars, confirming, hookVars, linkVars,
                 loopVars, job, faultVars>>

\* ... and _create_upload_ticket inserts one more, after several awaits.
Ticket(r) ==
  /\ r \in admitted
  /\ issued < MaxVideos
  /\ admitted' = admitted \ {r}
  /\ issued' = issued + 1
  /\ status' = [status EXCEPT ![issued + 1] = "pending"]
  /\ UNCHANGED <<aged, storeVars, confirming, hookVars, linkVars, loopVars,
                 job, faultVars>>

\* The plugin puts the MJPEG at the presigned URL while the URL is valid.
Upload(v) ==
  /\ status[v] # "absent"
  /\ v \notin aged
  /\ raw[v] = "none"
  /\ raw' = [raw EXCEPT ![v] = "stored"]
  /\ UNCHANGED <<ticketVars, status, aged, mp4, confirming, hookVars, linkVars,
                 loopVars, job, faultVars>>

\* _complete_upload_b2: the status must be "pending"; nothing looks whether
\* the object is there.
ConfirmRead(v) ==
  /\ status[v] = "pending"
  /\ confirming' = confirming \cup {v}
  /\ UNCHANGED <<ticketVars, status, aged, storeVars, hookVars, linkVars,
                 loopVars, job, faultVars>>

ConfirmCommit(v) ==
  /\ v \in confirming
  /\ Unlocked(v)
  /\ confirming' = confirming \ {v}
  /\ status' = [status EXCEPT ![v] = "uploaded"]
  /\ UNCHANGED <<ticketVars, aged, storeVars, hookVars, linkVars, loopVars,
                 job, faultVars>>

\* Half an hour passes for a row in conversion, an hour for a pending one.
Age(v) ==
  /\ status[v] \in {"pending", "processing"}
  /\ v \notin aged
  /\ aged' = aged \cup {v}
  /\ UNCHANGED <<ticketVars, status, storeVars, confirming, hookVars, linkVars,
                 loopVars, job, faultVars>>

-----------------------------------------------------------------------------
(* The webhook that carries the submission (direct mode).                  *)

\* _link_video_to_submission reads the row: the transaction's snapshot.
HookRead(v) ==
  /\ hook[v] = "none"
  /\ status[v] # "absent"
  /\ hook' = [hook EXCEPT ![v] = "read"]
  /\ seen' = [seen EXCEPT ![v] = status[v]]
  /\ UNCHANGED <<ticketVars, status, aged, storeVars, confirming, linkVars,
                 loopVars, job, faultVars>>

\* The next query of the processor flushes the row, and locks it.
HookFlush(v) ==
  /\ hook[v] = "read"
  /\ hook' = [hook EXCEPT ![v] = "wrote"]
  /\ UNCHANGED <<ticketVars, status, aged, storeVars, confirming, seen, linkVars,
                 loopVars, job, faultVars>>

\* The webhook's arrival stands for the confirmation of the upload.
Confirms_Unfinished(s) == s \in {"pending", "failed"}
Confirms(s) == s = "pending"

HookStatus(v) ==
  IF Confirms(seen[v]) THEN [status EXCEPT ![v] = "uploaded"] ELSE status

\* ensure_player_and_auth asks WiseOldMan about a player it does not know, and
\* ends the transaction first: it rolls back what was flushed, or (when a
\* player row was created before) commits it.  A new snapshot begins.
HookNewSnapshot(v) ==
  /\ hook[v] = "wrote"
  /\ hook' = [hook EXCEPT ![v] = "again"]
  /\ status' \in {status, HookStatus(v)}
  /\ seen' = [seen EXCEPT ![v] = status'[v]]
  /\ UNCHANGED <<ticketVars, aged, storeVars, confirming, linkVars, loopVars,
                 job, faultVars>>

\* _try_attach_video_url_to_drop and the commit.  The link is made when the
\* processor stored the submission, and the URL given when the snapshot shows
\* the video processed.
AttachesUrl_Always(s) == TRUE
AttachesUrl(s) == s = "processed"

HookCommit(v) ==
  /\ hook[v] \in {"wrote", "again"}
  /\ hook' = [hook EXCEPT ![v] = "done"]
  /\ seen' = [seen EXCEPT ![v] = "absent"]
  /\ status' = IF hook[v] = "wrote" THEN HookStatus(v) ELSE status
  /\ \/ UNCHANGED linkVars
     \/ /\ linked' = linked \cup {v}
        /\ url' = IF AttachesUrl(seen[v]) THEN url \cup {v} ELSE url
  /\ UNCHANGED <<ticketVars, aged, storeVars, confirming, loopVars, job, faultVars>>

\* The processor raises, or the API process dies.
HookRollback(v) ==
  /\ hook[v] \in {"read", "wrote", "again"}
  /\ hook' = [hook EXCEPT ![v] = "done"]
  /\ seen' = [seen EXCEPT ![v] = "absent"]
  /\ UNCHANGED <<ticketVars, status, aged, storeVars, confirming, linkVars,
                 loopVars, job, faultVars>>

-----------------------------------------------------------------------------
(* The worker loop.                                                        *)

NextPoll_NoReset == polls + 1
NextPoll == (polls + 1) % CleanupEvery

\* A new iteration, when gather has returned for every job of the last one.
Poll ==
  /\ worker = "poll"
  /\ \A v \in Videos : job[v] = "none"
  /\ polls' = NextPoll
  /\ worker' = IF polls' = 0 THEN "sweep" ELSE "fetch"
  /\ UNCHANGED <<ticketVars, status, aged, storeVars, confirming, hookVars,
                 linkVars, expiring, job, faultVars>>

IsStale_Never(v) == FALSE
IsStale(v) == status[v] = "processing" /\ v \in aged

\* _cleanup_stale_processing puts back what a crashed worker left, and
\* _cleanup_expired_pending selects the tickets that came to nothing.
Sweep ==
  /\ worker = "sweep"
  /\ \A v \in Videos : IsStale(v) => Unlocked(v)
  /\ status' = [v \in Videos |-> IF IsStale(v) THEN "uploaded" ELSE status[v]]
  /\ expiring' = {v \in aged : status[v] = "pending"}
  /\ worker' = "expire"
  /\ UNCHANGED <<ticketVars, aged, storeVars, confirming, hookVars, linkVars,
                 polls, job, faultVars>>

Expire ==
  /\ worker = "expire"
  /\ \A v \in expiring : Unlocked(v)
  /\ status' = [v \in Videos |-> IF v \in expiring THEN "failed" ELSE status[v]]
  /\ expiring' = {}
  /\ worker' = "fetch"
  /\ UNCHANGED <<ticketVars, aged, storeVars, confirming, hookVars, linkVars,
                 polls, job, faultVars>>

\* The oldest uploaded videos, MaxConcurrent of them.
Waiting(v) == status[v] = "uploaded"
Oldest == {v \in Videos : /\ Waiting(v)
                          /\ Cardinality({u \in 1..(v - 1) : Waiting(u)}) < MaxConcurrent}

Fetch ==
  /\ worker = "fetch"
  /\ job' = [v \in Videos |-> IF v \in Oldest THEN "picked" ELSE "none"]
  /\ worker' = "poll"
  /\ UNCHANGED <<ticketVars, status, aged, storeVars, confirming, hookVars,
                 linkVars, polls, expiring, faultVars>>

-----------------------------------------------------------------------------
(* process_single_video.                                                   *)

Start(v) ==
  /\ job[v] = "picked"
  /\ IF status[v] = "uploaded"
       THEN /\ Unlocked(v)
            /\ status' = [status EXCEPT ![v] = "processing"]
            /\ aged' = aged \ {v}
            /\ job' = [job EXCEPT ![v] = "work"]
       ELSE /\ job' = [job EXCEPT ![v] = "none"]
            /\ UNCHANGED <<status, aged>>
  /\ UNCHANGED <<ticketVars, storeVars, confirming, hookVars, linkVars, loopVars,
                 faultVars>>

\* Download, FFmpeg and the MP4's upload to storage have succeeded.
Store(v) ==
  /\ job[v] = "work"
  /\ raw[v] = "stored"
  /\ mp4' = mp4 \cup {v}
  /\ job' = [job EXCEPT ![v] = "stored"]
  /\ UNCHANGED <<ticketVars, status, aged, raw, confirming, hookVars, linkVars,
                 loopVars, faultVars>>

\* One of the three failed: without the MJPEG the download does.
Fail(v) ==
  /\ job[v] = "work"
  /\ Unlocked(v)
  /\ \/ raw[v] # "stored" /\ UNCHANGED faults
     \/ faults < MaxFaults /\ faults' = faults + 1
  /\ status' = [status EXCEPT ![v] = "failed"]
  /\ job' = [job EXCEPT ![v] = "none"]
  /\ UNCHANGED <<ticketVars, aged, storeVars, confirming, hookVars, linkVars,
                 loopVars, crashes>>

\* The raw file goes once the MP4 is stored, or stays when storage refuses.
Superseded_Early(v) == job[v] \in {"work", "stored"}
Superseded(v) == job[v] = "stored"

DeleteRaw(v) ==
  /\ Superseded(v)
  /\ raw' \in {raw, [raw EXCEPT ![v] = "deleted"]}
  /\ job' = [job EXCEPT ![v] = "finish"]
  /\ UNCHANGED <<ticketVars, status, aged, mp4, confirming, hookVars, linkVars,
                 loopVars, faultVars>>

\* The read of video.drop_id and of the submission's row...
ReadLink(v) ==
  /\ job[v] = "finish"
  /\ job' = [job EXCEPT ![v] = IF v \in linked THEN "linked" ELSE "plain"]
  /\ UNCHANGED <<ticketVars, status, aged, storeVars, confirming, hookVars,
                 linkVars, loopVars, faultVars>>

\* ... and the commit, which waits for a webhook that holds the row.
Complete(v) ==
  /\ job[v] \in {"plain", "linked"}
  /\ Unlocked(v)
  /\ status' = [status EXCEPT ![v] = "processed"]
  /\ url' = IF job[v] = "linked" THEN url \cup {v} ELSE url
  /\ job' = [job EXCEPT ![v] = "none"]
  /\ UNCHANGED <<ticketVars, aged, storeVars, confirming, hookVars, linked,
                 loopVars, faultVars>>

\* The except branch commits "failed"; when that fails too, the row is left.
Raise(v) ==
  /\ job[v] # "none"
  /\ faults < MaxFaults
  /\ faults' = faults + 1
  /\ \/ Unlocked(v) /\ status' = [status EXCEPT ![v] = "failed"]
     \/ UNCHANGED status
  /\ job' = [job EXCEPT ![v] = "none"]
  /\ UNCHANGED <<ticketVars, aged, storeVars, confirming, hookVars, linkVars,
                 loopVars, crashes>>

Crash ==
  /\ crashes < MaxCrashes
  /\ crashes' = crashes + 1
  /\ worker' = "poll"
  /\ polls' = 0
  /\ expiring' = {}
  /\ job' = [v \in Videos |-> "none"]
  /\ UNCHANGED <<ticketVars, status, aged, storeVars, confirming, hookVars,
                 linkVars, faults>>

-----------------------------------------------------------------------------
Job(v) ==
  Start(v) \/ Store(v) \/ Fail(v) \/ DeleteRaw(v) \/ ReadLink(v) \/ Complete(v)

Hook(v) == HookFlush(v) \/ HookNewSnapshot(v) \/ HookCommit(v) \/ HookRollback(v)

Loop == Poll \/ Sweep \/ Expire \/ Fetch

Next ==
  \/ \E r \in Requests : Admit(r) \/ Ticket(r)
  \/ \E v \in Videos :
       \/ Upload(v) \/ ConfirmRead(v) \/ ConfirmCommit(v) \/ Age(v)
       \/ HookRead(v) \/ Hook(v) \/ Job(v) \/ Raise(v)
  \/ Loop
  \/ Crash

Spec == Init /\ [][Next]_vars

\* The worker is a loop, gather runs every job, transactions end, time passes.
\* Nothing makes the plugin upload, confirm or send its webhook.
Fairness ==
  /\ WF_vars(Loop)
  /\ \A v \in Videos : WF_vars(Job(v)) /\ WF_vars(Hook(v)) /\ WF_vars(Age(v))

FairSpec == Spec /\ Fairness

-----------------------------------------------------------------------------
(* Properties.                                                             *)

\* What a player uploaded is never lost: the MJPEG is deleted only once the
\* MP4 is in storage, whatever fails or crashes in between and however often
\* the conversion is done again.
FootageKept == \A v \in Videos : raw[v] = "deleted" => v \in mp4

\* A video called processed can be played, and no submission carries the URL
\* of a video that cannot.
ServedIsThere ==
  \A v \in Videos : status[v] = "processed" \/ v \in url => v \in mp4

\* The quota is read before the ticket is written: requests served side by
\* side may pass it together, by no more than their number less one.
QuotaOverrunBounded == issued + 1 <= DailyLimit + Cardinality(Requests)

\* A finished video is taken up again only by a request that read "pending"
\* before it was finished; no cleanup and no job does it.
LateWriter(v) ==
  \/ v \in confirming
  \/ hook[v] = "wrote" /\ seen[v] = "pending"

FinishedStays ==
  [][\A v \in Videos :
       status[v] \in {"processed", "failed"} /\ status'[v] # status[v] =>
         LateWriter(v)]_vars

\* Every ticket comes to an end and stays there, wherever the worker crashes.
EveryVideoSettles ==
  \A v \in Videos : <>[](v <= issued => status[v] \in {"processed", "failed"})

-----------------------------------------------------------------------------
(* What comments say, and the code does not do.                            *)

\* "if the webhook already linked this video to a Drop, populate
\* drops.video_url" (video_worker 260), "if the video is already processed,
\* write drops.video_url" (webhook 134): whichever comes last gives the URL.
LinkedDropGetsUrl ==
  \A v \in linked : status[v] = "processed" /\ hook[v] = "done" => v \in url

\* "Reset videos stuck in 'processing' state back to 'uploaded' so they can be
\* retried. This handles crashed workers." (video_worker 354): a video whose
\* MP4 is in storage is not given up, even when no webhook meddles with it.
ConvertedNeverFails ==
  \A v \in mp4 : hook[v] = "none" => status[v] # "failed"

=============================================================================
