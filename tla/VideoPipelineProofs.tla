------------------------ MODULE VideoPipelineProofs ------------------------
(* Theorems about VideoPipeline, for any number of videos and requests,    *)
(* any limits and any number of faults and crashes.                        *)
EXTENDS VideoPipeline, FiniteSetTheorems, TLAPS

\* The values of job.
Stages == {"none", "picked", "work", "stored", "finish", "plain", "linked"}

\* The part of the type that the storage argument needs.
TablesOK ==
  /\ status \in [Videos -> Statuses]
  /\ raw \in [Videos -> {"none", "stored", "deleted"}]
  /\ hook \in [Videos -> {"none", "read", "wrote", "again", "done"}]
  /\ seen \in [Videos -> Statuses]
  /\ job \in [Videos -> Stages]

\* The MP4 of v is in storage whenever somebody relies on it: a job past the
\* upload of the MP4, a row that says processed, a webhook that saw it say so.
Backed(v) ==
  \/ v \in mp4
  \/ /\ raw[v] # "deleted"
     /\ status[v] # "processed"
     /\ seen[v] # "processed"
     /\ v \notin url
     /\ job[v] \notin {"stored", "finish", "plain", "linked"}

StoreInv == TablesOK /\ \A v \in Videos : Backed(v)

\* Nothing is in storage, and nobody relies on it, at the start.
LEMMA StoreInit == Init => StoreInv
  BY DEF Init, StoreInv, TablesOK, Backed, Statuses, Stages

\* Tickets, uploads and confirmations.
LEMMA UploadStep ==
  ASSUME StoreInv, NEW v \in Videos,
         Upload(v) \/ ConfirmRead(v) \/ ConfirmCommit(v) \/ Age(v)
  PROVE  StoreInv'
<1>1. CASE Upload(v)
  BY <1>1 DEF Upload, StoreInv, TablesOK, Backed, hookVars, linkVars
<1>2. CASE ConfirmRead(v) \/ Age(v)
  BY <1>2 DEF ConfirmRead, Age, StoreInv, TablesOK, Backed, storeVars, hookVars,
              linkVars
<1>3. CASE ConfirmCommit(v)
  BY <1>3 DEF ConfirmCommit, StoreInv, TablesOK, Backed, Statuses, storeVars,
              hookVars, linkVars
<1>4. QED
  BY <1>1, <1>2, <1>3

\* The quota check leaves every video alone, the ticket makes one pending.
LEMMA TicketStep ==
  ASSUME StoreInv, NEW r \in Requests, Admit(r) \/ Ticket(r)
  PROVE  StoreInv'
<1>1. CASE Admit(r)
  BY <1>1 DEF Admit, StoreInv, TablesOK, Backed, storeVars, hookVars, linkVars
<1>2. CASE Ticket(r)
  BY <1>2 DEF Ticket, StoreInv, TablesOK, Backed, Statuses, storeVars, hookVars,
              linkVars
<1>3. QED
  BY <1>1, <1>2

\* The webhook: it attaches a URL only when it saw the video processed.
LEMMA HookStep ==
  ASSUME StoreInv, NEW v \in Videos, HookRead(v) \/ Hook(v)
  PROVE  StoreInv'
<1>1. CASE HookRead(v)
  BY <1>1 DEF HookRead, StoreInv, TablesOK, Backed, storeVars, linkVars
<1>2. CASE HookFlush(v)
  BY <1>2 DEF HookFlush, StoreInv, TablesOK, Backed, storeVars, linkVars
<1>3. CASE HookNewSnapshot(v)
  <2>1. \/ status' = status
        \/ status' = [status EXCEPT ![v] = "uploaded"]
    BY <1>3 DEF HookNewSnapshot, HookStatus
  <2>2. seen' = [seen EXCEPT ![v] = status'[v]]
    BY <1>3 DEF HookNewSnapshot
  <2>3. QED
    BY <1>3, <2>1, <2>2 DEF HookNewSnapshot, StoreInv, TablesOK, Backed, Statuses,
                            storeVars, linkVars
<1>4. CASE HookCommit(v)
  <2>1. \/ status' = status
        \/ status' = [status EXCEPT ![v] = "uploaded"]
    BY <1>4 DEF HookCommit, HookStatus
  <2>2. \/ url' = url
        \/ seen[v] = "processed" /\ url' = url \cup {v}
    BY <1>4 DEF HookCommit, AttachesUrl, linkVars
  <2>3. /\ seen' = [seen EXCEPT ![v] = "absent"]
        /\ hook' = [hook EXCEPT ![v] = "done"]
        /\ UNCHANGED <<storeVars, job>>
    BY <1>4 DEF HookCommit
  <2>4. TablesOK'
    BY <2>1, <2>3 DEF StoreInv, TablesOK, Statuses, storeVars
  <2>5. QED
    BY <2>1, <2>2, <2>3, <2>4 DEF StoreInv, TablesOK, Backed, storeVars
<1>5. CASE HookRollback(v)
  BY <1>5 DEF HookRollback, StoreInv, TablesOK, Backed, Statuses, storeVars, linkVars
<1>6. QED
  BY <1>1, <1>2, <1>3, <1>4, <1>5 DEF Hook

\* The worker loop: its cleanup never calls a video processed.
LEMMA LoopStep ==
  ASSUME StoreInv, Loop \/ Crash
  PROVE  StoreInv'
<1>1. CASE Poll
  BY <1>1 DEF Poll, StoreInv, TablesOK, Backed, storeVars, hookVars, linkVars
<1>2. CASE Sweep
  BY <1>2 DEF Sweep, StoreInv, TablesOK, Backed, Statuses, storeVars, hookVars,
              linkVars
<1>3. CASE Expire
  BY <1>3 DEF Expire, StoreInv, TablesOK, Backed, Statuses, storeVars, hookVars,
              linkVars
<1>4. CASE Fetch
  BY <1>4 DEF Fetch, StoreInv, TablesOK, Backed, Stages, storeVars, hookVars,
              linkVars
<1>5. CASE Crash
  BY <1>5 DEF Crash, StoreInv, TablesOK, Backed, Stages, storeVars, hookVars,
              linkVars
<1>6. QED
  BY <1>1, <1>2, <1>3, <1>4, <1>5 DEF Loop

\* A conversion: the MP4 is stored before the raw file goes and before the row
\* is called processed, and nothing takes an MP4 away.
LEMMA JobStep ==
  ASSUME StoreInv, NEW v \in Videos, Job(v) \/ Raise(v)
  PROVE  StoreInv'
<1>1. CASE Start(v)
  BY <1>1 DEF Start, StoreInv, TablesOK, Backed, Statuses, Stages, storeVars,
              hookVars, linkVars
<1>2. CASE Store(v)
  BY <1>2 DEF Store, StoreInv, TablesOK, Backed, Stages, hookVars, linkVars
<1>3. CASE Fail(v) \/ Raise(v)
  BY <1>3 DEF Fail, Raise, StoreInv, TablesOK, Backed, Statuses, Stages, storeVars,
              hookVars, linkVars
<1>4. CASE DeleteRaw(v)
  BY <1>4 DEF DeleteRaw, Superseded, StoreInv, TablesOK, Backed, Stages, hookVars,
              linkVars
<1>5. CASE ReadLink(v)
  BY <1>5 DEF ReadLink, StoreInv, TablesOK, Backed, Stages, storeVars, hookVars,
              linkVars
<1>6. CASE Complete(v)
  BY <1>6 DEF Complete, StoreInv, TablesOK, Backed, Statuses, Stages, storeVars,
              hookVars
<1>7. QED
  BY <1>1, <1>2, <1>3, <1>4, <1>5, <1>6 DEF Job

\* Every step keeps the storage invariant.
LEMMA StoreNext == StoreInv /\ [Next]_vars => StoreInv'
<1> SUFFICES ASSUME StoreInv, [Next]_vars PROVE StoreInv'
  OBVIOUS
<1>1. CASE UNCHANGED vars
  BY <1>1 DEF vars, StoreInv, TablesOK, Backed, storeVars, hookVars, linkVars
<1>2. CASE Next
  BY <1>2, TicketStep, UploadStep, HookStep, LoopStep, JobStep DEF Next
<1>3. QED
  BY <1>1, <1>2

\* What relies on an MP4 finds one, in every reachable state.
THEOREM StorageInvariant == Spec => []StoreInv
  BY StoreInit, StoreNext, PTL DEF Spec

\* process_single_video never loses an upload: for any interleaving of jobs,
\* cleanups, webhooks, faults and crashes, the MJPEG is only gone once the MP4
\* is stored.
THEOREM UploadsAreNeverLost == Spec => []FootageKept
<1>1. StoreInv => FootageKept
  BY DEF StoreInv, Backed, FootageKept
<1>2. QED
  BY <1>1, StorageInvariant, PTL

\* A row that says processed, and a URL on a submission, have an MP4 behind
\* them, although the webhook decides on a snapshot that may be old.
THEOREM ServedVideosExist == Spec => []ServedIsThere
<1>1. StoreInv => ServedIsThere
  BY DEF StoreInv, Backed, ServedIsThere
<1>2. QED
  BY <1>1, StorageInvariant, PTL

-----------------------------------------------------------------------------
(* The quota.  The count of tickets is inductive only together with the    *)
(* requests that have been admitted and hold no ticket yet.                *)

QuotaInv ==
  /\ issued \in Nat
  /\ admitted \in SUBSET Requests
  /\ issued + Cardinality(admitted) + 1 <= DailyLimit + Cardinality(Requests)

\* Cardinalities of the sets of requests, as numbers.
LEMMA RequestCounts ==
  /\ Cardinality(Requests) \in Nat \ {0}
  /\ \A S \in SUBSET Requests :
       /\ Cardinality(S) \in Nat
       /\ Cardinality(S) <= Cardinality(Requests)
       /\ \A r \in Requests :
            /\ r \notin S => Cardinality(S \cup {r}) = Cardinality(S) + 1
            /\ r \in S => Cardinality(S \ {r}) = Cardinality(S) - 1
<1>1. IsFiniteSet(Requests) /\ Requests # {}
  BY QuotaAssumption
<1>2. Cardinality(Requests) \in Nat \ {0}
  BY <1>1, FS_CardinalityType, FS_EmptySet
<1>3. ASSUME NEW S \in SUBSET Requests
      PROVE  /\ IsFiniteSet(S)
             /\ Cardinality(S) \in Nat
             /\ Cardinality(S) <= Cardinality(Requests)
  BY <1>1, <1>3, FS_Subset, FS_CardinalityType
<1>4. ASSUME NEW S \in SUBSET Requests, NEW r \in Requests
      PROVE  /\ r \notin S => Cardinality(S \cup {r}) = Cardinality(S) + 1
             /\ r \in S => Cardinality(S \ {r}) = Cardinality(S) - 1
  BY <1>3, <1>4, FS_AddElement, FS_RemoveElement
<1>5. QED
  BY <1>2, <1>3, <1>4

\* Admission needs an open quota; a ticket uses up an admission.
LEMMA QuotaNext == QuotaInv /\ [Next]_vars => QuotaInv'
<1> SUFFICES ASSUME QuotaInv, [Next]_vars PROVE QuotaInv'
  OBVIOUS
<1>1. DailyLimit \in Nat /\ Cardinality(admitted) \in Nat
  BY QuotaAssumption, RequestCounts DEF QuotaInv
<1>2. ASSUME NEW r \in Requests, Admit(r) PROVE QuotaInv'
  <2>1. /\ issued < DailyLimit /\ issued' = issued
        /\ admitted' = admitted \cup {r}
    BY <1>2 DEF Admit, QuotaOpen
  <2>2. admitted' \in SUBSET Requests
    BY <2>1 DEF QuotaInv
  <2>3. /\ Cardinality(admitted') \in Nat
        /\ Cardinality(admitted') <= Cardinality(Requests)
        /\ Cardinality(Requests) \in Nat
    BY <2>2, RequestCounts
  <2>4. QED
    BY <1>1, <2>1, <2>2, <2>3 DEF QuotaInv
<1>3. ASSUME NEW r \in Requests, Ticket(r) PROVE QuotaInv'
  <2>1. r \in admitted /\ admitted' = admitted \ {r} /\ issued' = issued + 1
    BY <1>3 DEF Ticket
  <2>2. Cardinality(admitted') = Cardinality(admitted) - 1
    BY <2>1, RequestCounts DEF QuotaInv
  <2>3. Cardinality(Requests) \in Nat
    BY RequestCounts
  <2>4. QED
    BY <1>1, <2>1, <2>2, <2>3 DEF QuotaInv
<1>4. CASE UNCHANGED ticketVars
  BY <1>4 DEF ticketVars, QuotaInv
<1>5. ASSUME NEW v \in Videos,
             \/ Upload(v) \/ ConfirmRead(v) \/ ConfirmCommit(v) \/ Age(v)
             \/ HookRead(v) \/ Hook(v)
      PROVE  UNCHANGED ticketVars
  BY <1>5 DEF Upload, ConfirmRead, ConfirmCommit, Age, HookRead, Hook, HookFlush,
              HookNewSnapshot, HookCommit, HookRollback
<1>6. ASSUME NEW v \in Videos, Job(v) \/ Raise(v) PROVE UNCHANGED ticketVars
  BY <1>6 DEF Job, Start, Store, Fail, DeleteRaw, ReadLink, Complete, Raise
<1>7. CASE Loop \/ Crash
  BY <1>4, <1>7 DEF Loop, Poll, Sweep, Expire, Fetch, Crash
<1>8. CASE UNCHANGED vars
  BY <1>4, <1>8 DEF vars, ticketVars
<1>9. QED
  BY <1>2, <1>3, <1>4, <1>5, <1>6, <1>7, <1>8 DEF Next

\* A group passes its daily limit by less than the number of requests the API
\* serves at once, for every limit.
THEOREM QuotaIsBounded == Spec => []QuotaOverrunBounded
<1>1. Init => QuotaInv
  BY QuotaAssumption, RequestCounts, FS_EmptySet DEF Init, QuotaInv
<1>2. QuotaInv => QuotaOverrunBounded
  BY QuotaAssumption, RequestCounts DEF QuotaInv, QuotaOverrunBounded
<1>3. QED
  BY <1>1, <1>2, QuotaNext, PTL DEF Spec

-----------------------------------------------------------------------------
(* Types, and what has come to an end.  The last conjunct of TypeOK is     *)
(* inductive only when whoever writes a row is known to have found one;    *)
(* a cleanup and a job leave finished rows alone because a job's row is    *)
(* never finished while it runs, and the loop selects what to expire only  *)
(* when no job runs.                                                       *)

Steady(v) ==
  /\ hook[v] # "none" \/ v \in confirming => status[v] # "absent"
  /\ job[v] # "none" => worker = "poll" /\ status[v] \in {"uploaded", "processing"}
  /\ v \in expiring => worker = "expire" /\ status[v] \in {"pending", "uploaded"}

PipeInv == TypeOK /\ \A v \in Videos : Steady(v)

\* The start.
LEMMA PipeInit == Init => PipeInv
  BY QuotaAssumption, WorkerAssumption
  DEF Init, PipeInv, Steady, TypeOK, Statuses, Videos

\* A ticket makes a row where there was none.
LEMMA PipeTicket ==
  ASSUME PipeInv, NEW r \in Requests, Admit(r) \/ Ticket(r)
  PROVE  /\ PipeInv'
         /\ \A v \in Videos : status[v] # "absent" => status'[v] = status[v]
<1> USE QuotaAssumption, WorkerAssumption
<1>1. CASE Admit(r)
  BY <1>1 DEF Admit, PipeInv, Steady, TypeOK, storeVars, hookVars, linkVars, loopVars,
              faultVars
<1>2. CASE Ticket(r)
  <2>1. issued + 1 \in Videos /\ status[issued + 1] = "absent"
    BY <1>2 DEF Ticket, PipeInv, TypeOK, Videos
  <2>2. issued' \in 0..MaxVideos /\ status' \in [Videos -> Statuses]
    BY <1>2, <2>1 DEF Ticket, PipeInv, TypeOK, Videos, Statuses
  <2>3. \A v \in Videos : v <= issued' <=> status'[v] # "absent"
    BY <1>2, <2>1 DEF Ticket, PipeInv, TypeOK, Videos
  <2>4. TypeOK'
    BY <1>2, <2>2, <2>3 DEF Ticket, PipeInv, TypeOK, storeVars, hookVars, linkVars,
       loopVars, faultVars
  <2>5. \A v \in Videos : Steady(v)'
    BY <1>2, <2>1 DEF Ticket, PipeInv, Steady, TypeOK, hookVars, loopVars
  <2>6. \A v \in Videos : status[v] # "absent" => status'[v] = status[v]
    BY <1>2, <2>1 DEF Ticket, PipeInv, TypeOK
  <2> QED
    BY <2>4, <2>5, <2>6 DEF PipeInv
<1> QED
  BY <1>1, <1>2

\* A step that writes at most the row of v, which is there.
LEMMA PipeWrite ==
  ASSUME PipeInv, NEW v \in Videos, NEW st \in Statuses \ {"absent"}, status[v] # "absent",
         status' = [status EXCEPT ![v] = st], issued' = issued
  PROVE  /\ status' \in [Videos -> Statuses]
         /\ \A u \in Videos : u <= issued' <=> status'[u] # "absent"
BY DEF PipeInv, TypeOK

\* Uploads and their confirmation.
LEMMA PipeUpload ==
  ASSUME PipeInv, NEW v \in Videos,
         Upload(v) \/ ConfirmRead(v) \/ ConfirmCommit(v) \/ Age(v)
  PROVE  PipeInv'
<1>1. CASE Upload(v) \/ ConfirmRead(v) \/ Age(v)
  BY <1>1 DEF Upload, ConfirmRead, Age, PipeInv, Steady, TypeOK, ticketVars, storeVars,
     hookVars, linkVars, loopVars, faultVars
<1>2. CASE ConfirmCommit(v)
  <2>1. status' = [status EXCEPT ![v] = "uploaded"] /\ status[v] # "absent"
    BY <1>2 DEF ConfirmCommit, PipeInv, Steady
  <2>2. /\ status' \in [Videos -> Statuses]
        /\ \A u \in Videos : u <= issued' <=> status'[u] # "absent"
    BY <1>2, <2>1, PipeWrite DEF ConfirmCommit, Statuses, ticketVars
  <2>3. TypeOK'
    BY <1>2, <2>2 DEF ConfirmCommit, PipeInv, TypeOK, ticketVars, storeVars, hookVars,
       linkVars, loopVars, faultVars
  <2>4. \A u \in Videos : Steady(u)'
    BY <1>2, <2>1 DEF ConfirmCommit, PipeInv, Steady, TypeOK, hookVars, loopVars
  <2> QED
    BY <2>3, <2>4 DEF PipeInv
<1> QED
  BY <1>1, <1>2

\* What the webhook writes: "uploaded" where it saw "pending", or nothing.
LEMMA HookWrites ==
  ASSUME NEW v \in Videos, HookRead(v) \/ Hook(v)
  PROVE  \/ status' = status
         \/ /\ hook[v] = "wrote" /\ seen[v] = "pending"
            /\ status' = [status EXCEPT ![v] = "uploaded"]
BY DEF HookRead, Hook, HookFlush, HookNewSnapshot, HookCommit, HookRollback, HookStatus,
       Confirms

LEMMA PipeHook ==
  ASSUME PipeInv, NEW v \in Videos, HookRead(v) \/ Hook(v)
  PROVE  PipeInv'
<1>1. /\ hook' \in [Videos -> {"none", "read", "wrote", "again", "done"}]
      /\ status[v] # "absent"
      /\ \A u \in Videos \ {v} : hook'[u] = hook[u]
  BY DEF HookRead, Hook, HookFlush, HookNewSnapshot, HookCommit, HookRollback, PipeInv,
     Steady, TypeOK
<1>2. UNCHANGED <<ticketVars, aged, storeVars, confirming, loopVars, job, faultVars>>
  BY DEF HookRead, Hook, HookFlush, HookNewSnapshot, HookCommit, HookRollback
<1>3. /\ status' \in [Videos -> Statuses]
      /\ \A u \in Videos : u <= issued' <=> status'[u] # "absent"
      /\ \A u \in Videos : status'[u] = status[u] \/ (u = v /\ status'[u] = "uploaded")
  <2>1. CASE status' = status
    BY <1>2, <2>1 DEF PipeInv, TypeOK, ticketVars
  <2>2. CASE status' = [status EXCEPT ![v] = "uploaded"]
    <3>1. \A u \in Videos : status'[u] = status[u] \/ (u = v /\ status'[u] = "uploaded")
      BY <2>2 DEF PipeInv, TypeOK
    <3> QED
      BY <1>1, <1>2, <2>2, <3>1, PipeWrite DEF Statuses, ticketVars
  <2> QED
    BY <2>1, <2>2, HookWrites
<1>4. linked' \in SUBSET Videos /\ url' \in SUBSET Videos /\ seen' \in [Videos -> Statuses]
  <2>1. CASE HookRead(v) \/ HookFlush(v) \/ HookRollback(v)
    BY <2>1 DEF HookRead, HookFlush, HookRollback, PipeInv, TypeOK, linkVars, Statuses
  <2>2. CASE HookNewSnapshot(v)
    BY <1>3, <2>2 DEF HookNewSnapshot, PipeInv, TypeOK, linkVars
  <2>3. CASE HookCommit(v)
    BY <2>3 DEF HookCommit, PipeInv, TypeOK, linkVars, Statuses
  <2> QED
    BY <2>1, <2>2, <2>3 DEF Hook
<1>5. TypeOK'
  BY <1>1, <1>2, <1>3, <1>4 DEF PipeInv, TypeOK, ticketVars, storeVars, loopVars, faultVars
<1>6. ASSUME NEW u \in Videos PROVE Steady(u)'
  <2>1. status'[u] = "absent" => status[u] = "absent" /\ u # v
    BY <1>1, <1>3
  <2>2. Steady(u) /\ UNCHANGED <<confirming, worker, expiring, job>>
    BY <1>2 DEF PipeInv, loopVars
  <2> QED
    BY <1>1, <1>3, <2>1, <2>2 DEF Steady
<1> QED
  BY <1>5, <1>6 DEF PipeInv

\* The loop and the end of the worker.
LEMMA PipeLoop ==
  ASSUME PipeInv, Loop \/ Crash
  PROVE  PipeInv'
<1> USE QuotaAssumption, WorkerAssumption
<1> USE DEF storeVars, ticketVars, hookVars, linkVars, faultVars
<1>1. CASE Poll
  <2>1. polls' \in 0..(CleanupEvery - 1)
    BY <1>1 DEF Poll, NextPoll, PipeInv, TypeOK
  <2> QED
    BY <1>1, <2>1 DEF Poll, PipeInv, Steady, TypeOK
<1>2. CASE Sweep
  <2>1. status' \in [Videos -> Statuses] /\ \A v \in Videos :
          /\ status'[v] = "absent" <=> status[v] = "absent"
          /\ status[v] = "pending" => status'[v] = "pending"
    BY <1>2 DEF Sweep, IsStale, PipeInv, TypeOK, Statuses
  <2>2. TypeOK'
    BY <1>2, <2>1 DEF Sweep, PipeInv, TypeOK
  <2>3. \A v \in Videos : job[v] = "none"
    BY <1>2 DEF Sweep, PipeInv, Steady
  <2> QED
    BY <1>2, <2>1, <2>2, <2>3 DEF Sweep, PipeInv, Steady
<1>3. CASE Expire
  <2>1. status' \in [Videos -> Statuses] /\ \A v \in Videos :
          status'[v] = "absent" <=> status[v] = "absent"
    BY <1>3 DEF Expire, PipeInv, Steady, TypeOK, Statuses
  <2>2. TypeOK'
    BY <1>3, <2>1 DEF Expire, PipeInv, TypeOK
  <2>3. \A v \in Videos : job[v] = "none"
    BY <1>3 DEF Expire, PipeInv, Steady
  <2> QED
    BY <1>3, <2>1, <2>2, <2>3 DEF Expire, PipeInv, Steady
<1>4. CASE Fetch
  BY <1>4 DEF Fetch, Oldest, Waiting, PipeInv, Steady, TypeOK
<1>5. CASE Crash
  BY <1>5 DEF Crash, PipeInv, Steady, TypeOK
<1> QED
  BY <1>1, <1>2, <1>3, <1>4, <1>5 DEF Loop

\* A job: its row is in conversion, or was put back.
LEMMA PipeJob ==
  ASSUME PipeInv, NEW v \in Videos, Job(v) \/ Raise(v)
  PROVE  /\ PipeInv'
         /\ job[v] # "none"
         /\ \A u \in Videos \ {v} : status'[u] = status[u]
<1>1. job[v] # "none"
  BY DEF Job, Start, Store, Fail, DeleteRaw, Superseded, ReadLink, Complete, Raise
<1>2. worker = "poll" /\ status[v] \in {"uploaded", "processing"}
  BY <1>1 DEF PipeInv, Steady
<1>3. \/ status' = status
      \/ \E st \in {"processing", "failed", "processed"} : status' = [status EXCEPT ![v] = st]
  BY DEF Job, Start, Store, Fail, DeleteRaw, ReadLink, Complete, Raise
<1>4. job'[v] # "none" => status'[v] \in {"uploaded", "processing"}
  BY <1>2 DEF Job, Start, Store, Fail, DeleteRaw, ReadLink, Complete, Raise, PipeInv, TypeOK
<1>5. /\ job' \in [Videos -> {"none", "picked", "work", "stored", "finish", "plain", "linked"}]
      /\ \A u \in Videos \ {v} : job'[u] = job[u]
  BY DEF Job, Start, Store, Fail, DeleteRaw, ReadLink, Complete, Raise, PipeInv, TypeOK
<1>6. /\ raw' \in [Videos -> {"none", "stored", "deleted"}]
      /\ mp4' \in SUBSET Videos /\ aged' \in SUBSET Videos /\ url' \in SUBSET Videos
      /\ faults' \in 0..MaxFaults
  BY WorkerAssumption DEF Job, Start, Store, Fail, DeleteRaw, ReadLink, Complete, Raise,
     PipeInv, TypeOK, storeVars, linkVars, faultVars
<1>7. UNCHANGED <<ticketVars, confirming, hookVars, linked, loopVars, crashes>>
  BY DEF Job, Start, Store, Fail, DeleteRaw, ReadLink, Complete, Raise, linkVars, faultVars
<1>8. /\ status' \in [Videos -> Statuses]
      /\ \A u \in Videos : u <= issued' <=> status'[u] # "absent"
      /\ \A u \in Videos \ {v} : status'[u] = status[u]
      /\ status'[v] # "absent"
  <2>1. CASE status' = status
    BY <1>2, <1>7, <2>1 DEF PipeInv, TypeOK, ticketVars
  <2>2. ASSUME NEW st \in {"processing", "failed", "processed"},
               status' = [status EXCEPT ![v] = st]
        PROVE  /\ \A u \in Videos \ {v} : status'[u] = status[u]
               /\ status'[v] # "absent"
    BY <2>2 DEF PipeInv, TypeOK
  <2>3. ASSUME NEW st \in {"processing", "failed", "processed"},
               status' = [status EXCEPT ![v] = st]
        PROVE  /\ status' \in [Videos -> Statuses]
               /\ \A u \in Videos : u <= issued' <=> status'[u] # "absent"
    BY <1>2, <1>7, <2>3, PipeWrite DEF Statuses, ticketVars
  <2> QED
    BY <1>3, <2>1, <2>2, <2>3
<1>9. TypeOK'
  BY <1>5, <1>6, <1>7, <1>8 DEF PipeInv, TypeOK, ticketVars, hookVars, loopVars
<1>10. ASSUME NEW u \in Videos PROVE Steady(u)'
  <2>1. u \notin expiring'
    BY <1>2, <1>7 DEF PipeInv, Steady, loopVars
  <2> QED
    BY <1>2, <1>4, <1>5, <1>7, <1>8, <2>1 DEF PipeInv, Steady, hookVars, loopVars
<1> QED
  BY <1>1, <1>8, <1>9, <1>10 DEF PipeInv

\* Every step keeps the invariant.
LEMMA PipeNext == PipeInv /\ [Next]_vars => PipeInv'
<1> SUFFICES ASSUME PipeInv, [Next]_vars PROVE PipeInv'
  OBVIOUS
<1>1. CASE UNCHANGED vars
  BY <1>1 DEF vars, PipeInv, Steady, TypeOK, ticketVars, storeVars, hookVars, linkVars,
     loopVars, faultVars
<1>2. CASE Next
  BY <1>2, PipeTicket, PipeUpload, PipeHook, PipeLoop, PipeJob DEF Next
<1> QED
  BY <1>1, <1>2

\* Type correctness: in particular the rows are those of the tickets issued,
\* nobody writes a row that is not there.
THEOREM PipelineTypes == Spec => []TypeOK
<1>1. PipeInv => TypeOK
  BY DEF PipeInv
<1> QED
  BY <1>1, PipeInit, PipeNext, PTL DEF Spec

\* A processed or failed video is taken up again only by a request that read
\* "pending" before: neither a cleanup of the worker nor a job of it, whatever
\* they selected or began before, and whatever crashes.
THEOREM FinishedVideosStay == Spec => FinishedStays
<1>1. ASSUME PipeInv, [Next]_vars, NEW v \in Videos,
             status[v] \in {"processed", "failed"}, status'[v] # status[v]
      PROVE  LateWriter(v)
  <2>1. Steady(v) /\ status \in [Videos -> Statuses]
    BY <1>1 DEF PipeInv, TypeOK
  <2>2. ASSUME NEW r \in Requests, Admit(r) \/ Ticket(r) PROVE FALSE
    BY <1>1, <2>2, PipeTicket
  <2>3. ASSUME NEW u \in Videos, Upload(u) \/ ConfirmRead(u) \/ ConfirmCommit(u) \/ Age(u)
        PROVE  LateWriter(v)
    BY <1>1, <2>1, <2>3 DEF Upload, ConfirmRead, ConfirmCommit, Age, LateWriter
  <2>4. ASSUME NEW u \in Videos, HookRead(u) \/ Hook(u)
        PROVE  LateWriter(v)
    BY <1>1, <2>1, <2>4, HookWrites DEF LateWriter
  <2>5. ASSUME NEW u \in Videos, Job(u) \/ Raise(u) PROVE FALSE
    <3>1. job[u] # "none" /\ u = v
      BY <1>1, <2>5, PipeJob
    <3> QED
      BY <1>1, <2>1, <3>1 DEF Steady
  <2>6. CASE Loop \/ Crash
    BY <1>1, <2>1, <2>6 DEF Loop, Poll, Sweep, IsStale, Expire, Fetch, Crash, Steady
  <2>7. CASE UNCHANGED vars
    BY <1>1, <2>7 DEF vars
  <2> QED
    BY <1>1, <2>2, <2>3, <2>4, <2>5, <2>6, <2>7 DEF Next
<1>2. PipeInv /\ [Next]_vars =>
        [\A v \in Videos :
           status[v] \in {"processed", "failed"} /\ status'[v] # status[v] =>
             LateWriter(v)]_vars
  BY <1>1
<1> QED
  BY <1>2, PipeInit, PipeNext, PTL DEF Spec, FinishedStays

=============================================================================
