---------------------- MODULE NotificationServiceProofs ----------------------
(***************************************************************************)
(* Theorems about NotificationService for every set of tasks, payloads and *)
(* videos and every bound: types, the invariants of posting, and then how  *)
(* often the dispatcher posts, row by row, and what that makes of the      *)
(* promise.                                                                *)
(***************************************************************************)
EXTENDS NotificationService, SequenceTheorems, FiniteSetTheorems, TLAPS

\* What the tasks hold is a row of the queue.
LEMMA CurIsRow ==
  ASSUME TypeOK, NEW w \in Workers, pc[w] \in {"check", "send", "again", "mark"}
  PROVE  /\ cur[w] \in DOMAIN rows
         /\ rows[cur[w]] \in Row
         /\ Key(cur[w]) \in Keys
<1>1. cur[w] \in 1..Len(rows)
  BY DEF TypeOK
<1>2. rows[cur[w]] \in Row
  BY <1>1 DEF TypeOK
<1>3. rows[cur[w]].payload \in Payloads
  BY <1>2 DEF Row
<1>4. QED
  BY <1>1, <1>2, <1>3, PayloadAssumption DEF TypeOK, Key

\* Ending a row keeps the queue a queue of the same length.
LEMMA ConcludeType ==
  ASSUME TypeOK, NEW w \in Workers, pc[w] \in {"check", "send", "again", "mark"},
         NEW st \in Statuses, NEW stamp \in BOOLEAN, Conclude(w, st, stamp)
  PROVE  /\ rows' \in Seq(Row)
         /\ Len(rows') = Len(rows)
         /\ pc' \in [Workers -> Places]
         /\ found' \in [Workers -> BOOLEAN]
         /\ \A v \in Workers :
              pc'[v] \in {"check", "send", "again", "mark"} => pc'[v] = pc[v]
         /\ UNCHANGED <<lock, batch, cur>>
<1> DEFINE row == Concluded(rows[cur[w]], st, stamp)
<1>1. cur[w] \in 1..Len(rows) /\ rows[cur[w]] \in Row
  BY CurIsRow DEF TypeOK
<1>2. row \in Row
  BY <1>1 DEF Row, Concluded
<1>3. rows' = [rows EXCEPT ![cur[w]] = row]
  BY DEF Conclude
<1> HIDE DEF row
<1>4. rows' \in Seq(Row) /\ Len(rows') = Len(rows)
  BY <1>1, <1>2, <1>3, ExceptSeq DEF TypeOK
<1>5. QED
  BY <1>4 DEF Conclude, TypeOK, Places

\* Whatever TypeOK says of the tables and of the history alone.
TablesOK ==
  /\ rows \in Seq(Row)
  /\ notified \in SUBSET Keys
  /\ gone \in SUBSET Keys
  /\ videos \in [Videos -> VideoStatuses]
  /\ notifiedUsers \in SUBSET Keys
  /\ posts \in [Keys -> Nat]
  /\ unrecorded \in [Keys -> Nat]

\* ... and of the tasks and the counters.
TasksOK ==
  /\ lock \in Workers \cup {None}
  /\ pc \in [Workers -> Places]
  /\ batch \in [Workers -> SUBSET (1..Len(rows))]
  /\ cur \in [Workers -> 0..Len(rows)]
  /\ found \in [Workers -> BOOLEAN]
  /\ cycle \in 0..CleanupEvery
  /\ handled \in BOOLEAN
  /\ faults \in 0..MaxFaults
  /\ crashes \in 0..MaxCrashes
  /\ \A w \in Workers :
       pc[w] \in {"check", "send", "again", "mark"} => cur[w] # 0

\* The type invariant is its two parts.
LEMMA TypeParts == TypeOK <=> TablesOK /\ TasksOK
  BY DEF TypeOK, TablesOK, TasksOK

\* The initial states are well typed.
LEMMA InitType == Init => TypeOK
<1> SUFFICES ASSUME Init PROVE TypeOK
  OBVIOUS
<1>1. TablesOK
  BY DEF Init, TablesOK, VideoStatuses
<1>2. /\ pc \in [Workers -> Places]
      /\ batch \in [Workers -> SUBSET (1..Len(rows))]
      /\ found \in [Workers -> BOOLEAN]
      /\ \A w \in Workers :
           pc[w] \in {"check", "send", "again", "mark"} => cur[w] # 0
  BY DEF Init, Places
<1>3. cur \in [Workers -> 0..Len(rows)]
  <2>1. Len(rows) = 0
    BY DEF Init
  <2>2. QED
    BY <2>1 DEF Init
<1>4. lock \in Workers \cup {None} /\ handled \in BOOLEAN
  BY DEF Init
<1>5. /\ cycle \in 0..CleanupEvery
      /\ faults \in 0..MaxFaults
      /\ crashes \in 0..MaxCrashes
  BY BoundsAssumption DEF Init
<1>6. QED
  BY <1>1, <1>2, <1>3, <1>4, <1>5, TypeParts DEF TasksOK

\* Overwriting the status of one row keeps the queue a queue.
LEMMA StatusType ==
  ASSUME rows \in Seq(Row), NEW i \in 1..Len(rows), NEW st \in Statuses
  PROVE  /\ [rows EXCEPT ![i].status = st] \in Seq(Row)
         /\ Len([rows EXCEPT ![i].status = st]) = Len(rows)
<1> DEFINE row == [rows[i] EXCEPT !.status = st]
<1>1. rows[i] \in Row
  OBVIOUS
<1>2. row \in Row
  BY <1>1 DEF Row
<1>3. [rows EXCEPT ![i].status = st] = [rows EXCEPT ![i] = row]
  OBVIOUS
<1> HIDE DEF row
<1>4. QED
  BY <1>2, <1>3, ExceptSeq

\* A task that ends with its row (Conclude) and whatever else it changes.
LEMMA ConcludeKeepsType ==
  ASSUME TypeOK, NEW w \in Workers, pc[w] \in {"check", "send", "again", "mark"},
         NEW st \in Statuses, NEW stamp \in BOOLEAN, Conclude(w, st, stamp),
         UNCHANGED <<gone, videos, cycle, notifiedUsers, crashes>>,
         notified' \in SUBSET Keys, handled' \in BOOLEAN, faults' \in 0..MaxFaults,
         posts' \in [Keys -> Nat], unrecorded' \in [Keys -> Nat]
  PROVE  TypeOK'
<1>1. /\ rows' \in Seq(Row)
      /\ Len(rows') = Len(rows)
      /\ pc' \in [Workers -> Places]
      /\ found' \in [Workers -> BOOLEAN]
      /\ \A v \in Workers :
           pc'[v] \in {"check", "send", "again", "mark"} => pc'[v] = pc[v]
      /\ UNCHANGED <<lock, batch, cur>>
  BY ConcludeType
<1>2. QED
  BY <1>1 DEF TypeOK

\* Submissions, videos, the clock and the faults of a post keep the types.
LEMMA EnvironmentType ==
  ASSUME TypeOK,
         \/ \E p \in Payloads : Enqueue(p)
         \/ \E k \in Keys : Delete(k)
         \/ \E v \in Videos : VideoStep(v, VideoMoves \cup VideoEnds)
         \/ \E v \in Videos : Requeue(v)
         \/ \E i \in DOMAIN rows : RetryDue(i)
  PROVE  TypeOK'
<1>1. ASSUME NEW p \in Payloads, Enqueue(p) PROVE TypeOK'
  <2> DEFINE row == [payload |-> p, status |-> "pending",
                     stamped |-> FALSE, due |-> TRUE]
  <2>1. row \in Row
    BY DEF Row, Statuses
  <2>2. rows' = Append(rows, row)
    BY <1>1 DEF Enqueue
  <2> HIDE DEF row
  <2>3. rows' \in Seq(Row) /\ Len(rows') = Len(rows) + 1
    BY <2>1, <2>2 DEF TypeOK
  <2>4. /\ batch \in [Workers -> SUBSET (1..Len(rows'))]
        /\ cur \in [Workers -> 0..Len(rows')]
    BY <2>3 DEF TypeOK
  <2>5. QED
    BY <1>1, <2>3, <2>4
    DEF Enqueue, TypeOK, taskVars, memoryVars, historyVars, faultVars
<1>2. ASSUME NEW v \in Videos, VideoStep(v, VideoMoves \cup VideoEnds)
      PROVE  TypeOK'
  <2>1. videos' \in [Videos -> VideoStatuses]
    BY <1>2 DEF TypeOK, VideoStep, VideoMoves, VideoEnds, VideoStatuses
  <2>2. QED
    BY <1>2, <2>1
    DEF VideoStep, TypeOK, taskVars, memoryVars, historyVars, faultVars
<1>3. ASSUME NEW i \in DOMAIN rows, RetryDue(i) PROVE TypeOK'
  <2> DEFINE row == [rows[i] EXCEPT !.due = TRUE]
  <2>1. i \in 1..Len(rows) /\ rows[i] \in Row
    BY DEF TypeOK
  <2>2. row \in Row
    BY <2>1 DEF Row
  <2>3. rows' = [rows EXCEPT ![i] = row]
    BY <1>3 DEF RetryDue
  <2> HIDE DEF row
  <2>4. rows' \in Seq(Row) /\ Len(rows') = Len(rows)
    BY <2>1, <2>2, <2>3, ExceptSeq DEF TypeOK
  <2>5. QED
    BY <1>3, <2>4
    DEF RetryDue, TypeOK, taskVars, memoryVars, historyVars, faultVars
<1>4. ASSUME NEW v \in Videos, Requeue(v) PROVE TypeOK'
  <2>1. videos' \in [Videos -> VideoStatuses]
    BY <1>4 DEF TypeOK, Requeue, VideoStatuses
  <2>2. faults' \in 0..MaxFaults
    BY <1>4, BoundsAssumption DEF TypeOK, Requeue
  <2>3. QED
    BY <1>4, <2>1, <2>2
    DEF Requeue, TypeOK, taskVars, memoryVars, historyVars
<1>5. ASSUME NEW k \in Keys, Delete(k) PROVE TypeOK'
  <2>1. notified' \in SUBSET Keys /\ gone' \in SUBSET Keys
    BY <1>5 DEF Delete, ShownWith, TypeOK
  <2>2. QED
    BY <1>5, <2>1
    DEF Delete, TypeOK, taskVars, memoryVars, historyVars, faultVars
<1>6. QED
  BY <1>1, <1>2, <1>3, <1>4, <1>5

\* The start of a scan and the claims keep the types.
LEMMA ScanType ==
  ASSUME TypeOK, NEW w \in Workers, Begin(w) \/ Claim(w) \/ ClaimRaises(w)
  PROVE  TypeOK'
<1>1. CASE Begin(w)
  <2>1. Selected \subseteq 1..Len(rows)
    BY DEF Selected, TypeOK
  <2>2. /\ batch' \in [Workers -> SUBSET (1..Len(rows))]
        /\ cur' \in [Workers -> 0..Len(rows)]
        /\ pc' \in [Workers -> Places]
    BY <1>1, <2>1 DEF Begin, TypeOK, Places
  <2>3. QED
    BY <1>1, <2>2 DEF Begin, TypeOK, memoryVars, historyVars, faultVars
<1>2. CASE Claim(w)
  <2>1. PICK i \in batch[w] :
          /\ batch' = [batch EXCEPT ![w] = @ \ {i}]
          /\ IF rows[i].status \in {"pending", "video_processing"}
               THEN /\ rows' = [rows EXCEPT ![i].status = "processing"]
                    /\ cur' = [cur EXCEPT ![w] = i]
                    /\ pc' = [pc EXCEPT ![w] = "check"]
               ELSE /\ cur' = [cur EXCEPT ![w] = 0]
                    /\ UNCHANGED <<rows, pc>>
    BY <1>2 DEF Claim
  <2>2. i \in 1..Len(rows)
    BY DEF TypeOK
  <2>3. rows' \in Seq(Row) /\ Len(rows') = Len(rows)
    <3>1. rows \in Seq(Row) /\ "processing" \in Statuses
      BY DEF TypeOK, Statuses
    <3>2. CASE rows' = [rows EXCEPT ![i].status = "processing"]
      BY <2>2, <3>1, <3>2, StatusType
    <3>3. QED
      BY <2>1, <3>1, <3>2
  <2>4. /\ batch' \in [Workers -> SUBSET (1..Len(rows))]
        /\ cur' \in [Workers -> 0..Len(rows)]
        /\ pc' \in [Workers -> Places]
        /\ \A v \in Workers :
             pc'[v] \in {"check", "send", "again", "mark"} => cur'[v] # 0
    <3>1. pc[w] = "claim"
      BY <1>2 DEF Claim
    <3>2. /\ cur \in [Workers -> 0..Len(rows)]
          /\ pc \in [Workers -> Places]
          /\ batch \in [Workers -> SUBSET (1..Len(rows))]
          /\ \A v \in Workers :
               pc[v] \in {"check", "send", "again", "mark"} => cur[v] # 0
      BY DEF TypeOK
    <3>3. batch' \in [Workers -> SUBSET (1..Len(rows))]
      BY <2>1, <3>2
    <3>4. CASE rows[i].status \in {"pending", "video_processing"}
      <4>1. /\ cur' = [cur EXCEPT ![w] = i]
            /\ pc' = [pc EXCEPT ![w] = "check"]
        BY <2>1, <3>4
      <4>2. i # 0
        BY <2>2
      <4>3. QED
        BY <2>2, <3>2, <3>3, <4>1, <4>2 DEF Places
    <3>5. CASE rows[i].status \notin {"pending", "video_processing"}
      <4>1. cur' = [cur EXCEPT ![w] = 0] /\ pc' = pc
        BY <2>1, <3>5
      <4>2. 0 \in 0..Len(rows)
        BY <2>2
      <4>3. QED
        BY <3>1, <3>2, <3>3, <4>1, <4>2
    <3>6. QED
      BY <3>4, <3>5
  <2>5. QED
    BY <1>2, <2>3, <2>4 DEF Claim, TypeOK, memoryVars, historyVars, faultVars
<1>3. CASE ClaimRaises(w)
  <2>1. PICK i \in batch[w] :
          \/ /\ batch' = [batch EXCEPT ![w] = {}]
             /\ UNCHANGED <<rows, cur>>
          \/ \E failing \in {i, cur[w]} :
               /\ batch' = [batch EXCEPT ![w] = @ \ {i}]
               /\ cur' = [cur EXCEPT ![w] = failing]
               /\ rows' = IF failing = 0 THEN rows
                          ELSE [rows EXCEPT ![failing].status = "failed"]
    BY <1>3 DEF ClaimRaises
  <2>2. i \in 1..Len(rows) /\ cur[w] \in 0..Len(rows)
    BY DEF TypeOK
  <2>3. faults' \in 0..MaxFaults
    BY <1>3, BoundsAssumption DEF ClaimRaises, TypeOK
  <2>4. pc[w] = "claim" /\ UNCHANGED pc
    BY <1>3 DEF ClaimRaises
  <2>5. CASE batch' = [batch EXCEPT ![w] = {}] /\ UNCHANGED <<rows, cur>>
    BY <1>3, <2>3, <2>5
    DEF ClaimRaises, TypeOK, memoryVars, historyVars
  <2>6. ASSUME NEW failing \in {i, cur[w]},
               batch' = [batch EXCEPT ![w] = @ \ {i}],
               cur' = [cur EXCEPT ![w] = failing],
               rows' = IF failing = 0 THEN rows
                       ELSE [rows EXCEPT ![failing].status = "failed"]
        PROVE TypeOK'
    <3>1. rows' \in Seq(Row) /\ Len(rows') = Len(rows)
      <4>1. rows \in Seq(Row) /\ "failed" \in Statuses
        BY DEF TypeOK, Statuses
      <4>2. CASE failing # 0
        <5>1. failing \in 1..Len(rows)
          BY <2>2, <4>2
        <5>2. rows' = [rows EXCEPT ![failing].status = "failed"]
          BY <2>6, <4>2
        <5>3. QED
          BY <4>1, <5>1, <5>2, StatusType
      <4>3. QED
        BY <2>6, <4>1, <4>2
    <3>2. /\ batch' \in [Workers -> SUBSET (1..Len(rows))]
          /\ cur' \in [Workers -> 0..Len(rows)]
          /\ \A v \in Workers :
               pc'[v] \in {"check", "send", "again", "mark"} => cur'[v] # 0
      BY <2>2, <2>4, <2>6 DEF TypeOK
    <3>3. QED
      BY <1>3, <2>3, <3>1, <3>2
      DEF ClaimRaises, TypeOK, memoryVars, historyVars
  <2>7. QED
    BY <2>1, <2>5, <2>6
<1>4. QED
  BY <1>1, <1>2, <1>3

\* So does everything a task does with the row in hand.
LEMMA HandType ==
  ASSUME TypeOK, NEW w \in Workers,
         \/ Defer(w) \/ SkipDuplicate(w) \/ Leave(w) \/ ToSender(w) \/ Refuse(w)
         \/ Post(w) \/ PostVideo(w) \/ PostWithoutImage(w) \/ Mark(w) \/ Raise(w)
         \/ Orphan(w)
  PROVE  TypeOK'
<1>1. pc[w] \in {"check", "send", "again", "mark"}
  BY DEF Defer, SkipDuplicate, Leave, ToSender, Refuse, Post, PostVideo,
         PostWithoutImage, Mark, Raise, Orphan
<1>2. Key(cur[w]) \in Keys
  BY <1>1, CurIsRow
<1>3. /\ notified \in SUBSET Keys
      /\ handled \in BOOLEAN
      /\ faults \in 0..MaxFaults
      /\ posts \in [Keys -> Nat]
      /\ unrecorded \in [Keys -> Nat]
  BY DEF TypeOK
<1>4. CASE Defer(w) \/ SkipDuplicate(w) \/ Refuse(w) \/ Mark(w)
  <2>1. \E st \in Statuses, stamp \in BOOLEAN : Conclude(w, st, stamp)
    BY <1>4 DEF Defer, SkipDuplicate, Refuse, Mark, Statuses
  <2>2. notified' \in SUBSET Keys
    BY <1>2, <1>3, <1>4 DEF Defer, SkipDuplicate, Refuse, Mark
  <2>3. UNCHANGED <<gone, videos, cycle, notifiedUsers, historyVars, faultVars>>
    BY <1>4 DEF Defer, SkipDuplicate, Refuse, Mark
  <2>4. handled' = TRUE
    BY <1>4 DEF Defer, SkipDuplicate, Refuse, Mark
  <2>5. QED
    BY <1>1, <1>3, <2>1, <2>2, <2>3, <2>4, ConcludeKeepsType
    DEF historyVars, faultVars
<1>5. CASE Leave(w) \/ ToSender(w)
  <2>1. /\ faults' \in 0..MaxFaults
        /\ notifiedUsers' \in SUBSET Keys
        /\ handled' \in BOOLEAN
    <3>1. notifiedUsers \in SUBSET Keys
      BY DEF TypeOK
    <3>2. faults' = faults \/ (faults < MaxFaults /\ faults' = faults + 1)
      BY <1>5 DEF Leave, ToSender, faultVars
    <3>3. \/ UNCHANGED notifiedUsers
          \/ notifiedUsers' = notifiedUsers \cup {Key(cur[w])}
      BY <1>5 DEF Leave, ToSender
    <3>4. handled' = TRUE \/ UNCHANGED handled
      BY <1>5 DEF Leave, ToSender
    <3>5. faults' \in 0..MaxFaults
      BY <1>3, <3>2, BoundsAssumption
    <3>6. notifiedUsers' \in SUBSET Keys /\ handled' \in BOOLEAN
      BY <1>2, <1>3, <3>1, <3>3, <3>4
    <3>7. QED
      BY <3>5, <3>6
  <2>2. /\ UNCHANGED <<rows, notified, gone, videos, lock, batch, cur, cycle,
                       historyVars, crashes>>
        /\ found' \in [Workers -> BOOLEAN]
        /\ \/ pc' = [pc EXCEPT ![w] = "claim"]
           \/ pc' = [pc EXCEPT ![w] = "send"]
    BY <1>5 DEF Leave, ToSender, faultVars, TypeOK
  <2>3. QED
    BY <1>1, <2>1, <2>2 DEF TypeOK, historyVars, Places
<1>6. CASE Post(w) \/ PostVideo(w)
  <2>1. posts' = [posts EXCEPT ![Key(cur[w])] = @ + 1]
    BY <1>6 DEF Post, PostVideo
  <2>2. /\ UNCHANGED <<rows, notified, gone, videos, lock, batch, cur, found,
                       memoryVars, unrecorded, faultVars>>
        /\ \/ pc' = [pc EXCEPT ![w] = "mark"]
           \/ pc' = [pc EXCEPT ![w] = "again"]
    BY <1>6 DEF Post, PostVideo
  <2>3. /\ posts' \in [Keys -> Nat]
        /\ pc' \in [Workers -> Places]
        /\ \A v \in Workers :
             pc'[v] \in {"check", "send", "again", "mark"} => cur'[v] # 0
    <3>1. cur[w] # 0 /\ UNCHANGED cur
      BY <1>1, <2>2 DEF TypeOK
    <3>2. posts' \in [Keys -> Nat]
      BY <1>2, <1>3, <2>1
    <3>3. QED
      BY <2>2, <3>1, <3>2 DEF TypeOK, Places
  <2>4. QED
    BY <2>2, <2>3 DEF TypeOK, memoryVars, faultVars
<1>7. CASE PostWithoutImage(w)
  <2>1. posts' \in [Keys -> Nat] /\ unrecorded' \in [Keys -> Nat]
    BY <1>2, <1>3, <1>7 DEF PostWithoutImage
  <2>2. faults' \in 0..MaxFaults
    BY <1>3, <1>7, BoundsAssumption DEF PostWithoutImage
  <2>3. QED
    BY <1>7, <2>1, <2>2 DEF PostWithoutImage, TypeOK, taskVars, memoryVars
<1>8. CASE Raise(w)
  <2>1. unrecorded' \in [Keys -> Nat]
    BY <1>2, <1>3, <1>8 DEF Raise
  <2>2. faults' \in 0..MaxFaults
    BY <1>3, <1>8, BoundsAssumption DEF Raise
  <2>3. CASE Conclude(w, "failed", FALSE)
    <3>1. "failed" \in Statuses /\ FALSE \in BOOLEAN
      BY DEF Statuses
    <3>2. UNCHANGED <<notified, gone, videos, cycle, handled, notifiedUsers, posts,
                      crashes>>
      BY <1>8 DEF Raise, memoryVars
    <3>3. QED
      BY <1>1, <1>3, <2>1, <2>2, <2>3, <3>1, <3>2, ConcludeKeepsType
  <2>4. CASE /\ pc' = [pc EXCEPT ![w] = "claim"]
             /\ batch' = [batch EXCEPT ![w] = {}]
             /\ found' = [found EXCEPT ![w] = FALSE]
             /\ UNCHANGED <<rows, lock, cur>>
    BY <1>8, <2>1, <2>2, <2>4 DEF Raise, TypeOK, memoryVars, Places
  <2>5. QED
    BY <1>8, <2>3, <2>4 DEF Raise
<1>9. CASE Orphan(w)
  <2>1. unrecorded' \in [Keys -> Nat]
    BY <1>2, <1>3, <1>9 DEF Orphan
  <2>2. QED
    BY <1>9, <2>1 DEF Orphan, TypeOK, memoryVars, faultVars, Places
<1>10. QED
  BY <1>4, <1>5, <1>6, <1>7, <1>8, <1>9

\* So does the end of a scan, with or without the cleanup.
LEMMA FinishType ==
  ASSUME TypeOK, NEW w \in Workers, Finish(w)
  PROVE  TypeOK' /\ Len(rows') = Len(rows)
<1>1. rows' \in Seq(Row) /\ Len(rows') = Len(rows)
  <2> DEFINE Reset(i) == IF IsStuck(i) THEN [rows[i] EXCEPT !.status = "pending"]
                         ELSE rows[i]
  <2>1. ASSUME NEW i \in DOMAIN rows PROVE Reset(i) \in Row
    <3>1. rows[i] \in Row
      BY DEF TypeOK
    <3>2. QED
      BY <3>1 DEF Row, Statuses
  <2>2. rows \in Seq(Row) /\ DOMAIN rows = 1..Len(rows) /\ Len(rows) \in Nat
    BY DEF TypeOK
  <2>3. rows' = [i \in DOMAIN rows |-> Reset(i)] \/ rows' = rows
    BY DEF Finish
  <2> HIDE DEF Reset
  <2>4. QED
    BY <2>1, <2>2, <2>3, SeqDef
<1>2. cycle' \in 0..CleanupEvery
  BY BoundsAssumption DEF Finish, TypeOK
<1>3. /\ pc' \in [Workers -> Places]
      /\ cur' \in [Workers -> 0..Len(rows)]
      /\ \A v \in Workers :
           pc'[v] \in {"check", "send", "again", "mark"} => cur'[v] # 0
  BY DEF Finish, TypeOK, Places
<1>4. QED
  BY <1>1, <1>2, <1>3 DEF Finish, TypeOK, historyVars, faultVars

\* So does a crash of the bot.
LEMMA CrashType == TypeOK /\ Crash => TypeOK'
<1> SUFFICES ASSUME TypeOK, Crash PROVE TypeOK'
  OBVIOUS
<1>1. unrecorded' \in [Keys -> Nat]
  BY DEF Crash, TypeOK
<1>2. crashes' \in 0..MaxCrashes
  BY BoundsAssumption DEF Crash, TypeOK
<1>3. /\ pc' \in [Workers -> Places]
      /\ \A v \in Workers :
           ~(pc'[v] \in {"check", "send", "again", "mark"})
  BY DEF Crash, Places
<1>4. /\ batch' \in [Workers -> SUBSET (1..Len(rows))]
      /\ cur' \in [Workers -> 0..Len(rows)]
      /\ found' \in [Workers -> BOOLEAN]
  BY DEF Crash, TypeOK
<1>5. cycle' \in 0..CleanupEvery
  BY BoundsAssumption DEF Crash
<1>6. QED
  BY <1>1, <1>2, <1>3, <1>4, <1>5 DEF Crash, TypeOK

\* Every step keeps the types.
LEMMA NextType == TypeOK /\ [Next]_vars => TypeOK'
<1> SUFFICES ASSUME TypeOK, [Next]_vars PROVE TypeOK'
  OBVIOUS
<1>1. CASE Next
  BY <1>1, EnvironmentType, ScanType, HandType, FinishType, CrashType
  DEF Next, Handle
<1>2. CASE UNCHANGED vars
  BY <1>2 DEF vars, taskVars, memoryVars, historyVars, faultVars, TypeOK
<1>3. QED
  BY <1>1, <1>2

\* The tables, the tasks and the counters stay within their types: in
\* particular a task at work on a row always holds a row of the queue.
THEOREM TypeCorrect == Spec => []TypeOK
  BY InitType, NextType, PTL DEF Spec

-----------------------------------------------------------------------------
(* The inductive invariant.  TypeOK and the safety properties do not imply  *)
(* themselves one step later: what makes a drop post once is that one task  *)
(* at a time is inside a scan, and that the key it is posting is not yet    *)
(* recorded and has no other post the database is still to learn of; and    *)
(* that the task will record it, unless the drop is deleted.                *)

\* A task inside a scan holds the lock.
LockInv == \A w \in Workers : pc[w] # "idle" => lock = w

\* What is known of a row between the check and the commit of "sent".
HandInv ==
  \A w \in Workers :
    /\ pc[w] = "again" => Kind(cur[w]) = "ca"
    /\ pc[w] \in {"send", "mark"} /\ Kind(cur[w]) = "drop" =>
         Key(cur[w]) \notin notified
    /\ Posted(w) => posts[Key(cur[w])] > 0
    /\ pc[w] \in {"send", "again", "mark"} /\ found[w] => Kind(cur[w]) = "drop"
    /\ pc[w] \in {"send", "again", "mark"} /\ Kind(cur[w]) = "drop" =>
         found[w] \/ Key(cur[w]) \in gone

\* What is known of the history of a key.
PostInv ==
  \A k \in Keys :
    /\ k \in notified => posts[k] > 0
    /\ k \in notified \cup gone => KindOf[k] = "drop"
    /\ KindOf[k] = "drop" /\ k \notin gone =>
         /\ posts[k] <= 1 + unrecorded[k]
         /\ \/ k \in notified
            \/ \E w \in Workers : Posted(w) /\ Key(cur[w]) = k
            \/ posts[k] <= unrecorded[k]

IInv ==
  TypeOK /\ LockInv /\ HandInv /\ PostInv /\ SentWasPosted /\ NeverAheadOfVideo

\* The steps of task w inside a scan, its beginning and end apart.
Inside(w) ==
  \/ Claim(w) \/ ClaimRaises(w) \/ Defer(w) \/ SkipDuplicate(w) \/ Leave(w)
  \/ ToSender(w) \/ Refuse(w) \/ Post(w) \/ PostVideo(w) \/ PostWithoutImage(w)
  \/ Mark(w) \/ Orphan(w) \/ Raise(w)

Environment ==
  \/ \E p \in Payloads : Enqueue(p)
  \/ \E k \in Keys : Delete(k)
  \/ \E v \in Videos : VideoStep(v, VideoMoves \cup VideoEnds)
  \/ \E v \in Videos : Requeue(v)
  \/ \E i \in DOMAIN rows : RetryDue(i)

\* Every step is one of five kinds.
LEMMA StepKinds ==
  [Next]_vars =>
    \/ Environment
    \/ \E w \in Workers : Begin(w)
    \/ \E w \in Workers : Inside(w)
    \/ \E w \in Workers : Finish(w)
    \/ Crash
    \/ UNCHANGED vars
  BY DEF Next, Handle, Environment, Inside

\* A step outside the scans leaves the tasks where they are, and the records
\* too unless it deletes a drop.
LEMMA EnvironmentShape ==
  ASSUME Environment
  PROVE  /\ UNCHANGED <<lock, pc, batch, cur, found, notifiedUsers, posts, unrecorded>>
         /\ UNCHANGED <<notified, gone>> \/ \E k \in Keys : Delete(k)
         /\ notified' \subseteq notified
         /\ gone \subseteq gone'
         /\ notified \subseteq notified' \cup gone'
  BY DEF Environment, Enqueue, VideoStep, Requeue, RetryDue, Delete, taskVars,
         memoryVars, historyVars

\* A step inside a scan is taken by a task that is not idle; it keeps the lock
\* and leaves the other tasks where they are.
LEMMA InsideShape ==
  ASSUME TypeOK, NEW w \in Workers, Inside(w)
  PROVE  /\ pc[w] # "idle"
         /\ lock' = lock
         /\ UNCHANGED <<gone, videos>>
         /\ \A v \in Workers \ {w} : pc'[v] = pc[v] /\ cur'[v] = cur[v]
<1>1. pc \in [Workers -> Places] /\ cur \in [Workers -> 0..Len(rows)]
  BY DEF TypeOK
<1>2. CASE Claim(w) \/ ClaimRaises(w)
  BY <1>1, <1>2 DEF Claim, ClaimRaises
<1>3. CASE Defer(w) \/ SkipDuplicate(w) \/ Refuse(w) \/ Mark(w)
  BY <1>1, <1>3 DEF Defer, SkipDuplicate, Refuse, Mark, Conclude
<1>4. CASE Leave(w) \/ ToSender(w)
  BY <1>1, <1>4 DEF Leave, ToSender
<1>5. CASE Post(w) \/ PostVideo(w) \/ PostWithoutImage(w)
  BY <1>1, <1>5 DEF Post, PostVideo, PostWithoutImage, taskVars
<1>6. CASE Raise(w) \/ Orphan(w)
  BY <1>1, <1>6 DEF Raise, Orphan, Conclude
<1>7. QED
  BY <1>2, <1>3, <1>4, <1>5, <1>6 DEF Inside

\* The lock.
LEMMA LockStep == TypeOK /\ LockInv /\ [Next]_vars => LockInv'
<1> SUFFICES ASSUME TypeOK, LockInv, [Next]_vars PROVE LockInv'
  OBVIOUS
<1>1. pc \in [Workers -> Places] /\ lock \in Workers \cup {None}
  BY DEF TypeOK
<1>2. CASE Environment
  BY <1>2, EnvironmentShape DEF LockInv
<1>3. ASSUME NEW w \in Workers, Begin(w) PROVE LockInv'
  <2>1. lock = None /\ lock' = w /\ pc' = [pc EXCEPT ![w] = "claim"]
    BY <1>3 DEF Begin, LockFree
  <2>2. \A v \in Workers : pc[v] = "idle"
    BY <2>1, WorkersAssumption DEF LockInv
  <2>3. QED
    BY <1>1, <2>1, <2>2 DEF LockInv
<1>4. ASSUME NEW w \in Workers, Inside(w) PROVE LockInv'
  BY <1>4, InsideShape DEF LockInv
<1>5. ASSUME NEW w \in Workers, Finish(w) PROVE LockInv'
  <2>1. pc[w] = "claim" /\ pc' = [pc EXCEPT ![w] = "idle"]
    BY <1>5 DEF Finish
  <2>2. \A v \in Workers \ {w} : pc[v] = "idle"
    BY <2>1 DEF LockInv
  <2>3. QED
    BY <1>1, <2>1, <2>2 DEF LockInv
<1>6. CASE Crash
  BY <1>6 DEF Crash, LockInv
<1>7. CASE UNCHANGED vars
  BY <1>7 DEF vars, taskVars, LockInv
<1>8. QED
  BY <1>2, <1>3, <1>4, <1>5, <1>6, <1>7, StepKinds

\* While a task is inside a scan the others are idle.
LEMMA OthersIdle ==
  ASSUME LockInv, NEW w \in Workers, pc[w] # "idle"
  PROVE  \A v \in Workers \ {w} : pc[v] = "idle"
  BY DEF LockInv

\* No step takes a row from the queue or changes its payload.
LEMMA PayloadsKept ==
  ASSUME TypeOK, [Next]_vars, NEW i \in DOMAIN rows
  PROVE  i \in DOMAIN rows' /\ rows'[i].payload = rows[i].payload
<1>1. rows \in Seq(Row) /\ i \in 1..Len(rows) /\ rows[i] \in Row
  BY DEF TypeOK
<1>2. ASSUME NEW j \in DOMAIN rows, NEW row, rows' = [rows EXCEPT ![j] = row],
             row.payload = rows[j].payload
      PROVE  i \in DOMAIN rows' /\ rows'[i].payload = rows[i].payload
  BY <1>1, <1>2
<1>3. ASSUME NEW j, NEW st, rows' = [rows EXCEPT ![j].status = st]
      PROVE  i \in DOMAIN rows' /\ rows'[i].payload = rows[i].payload
  BY <1>1, <1>3 DEF Row
<1>4. ASSUME NEW w \in Workers, NEW st, NEW stamp, Conclude(w, st, stamp),
             pc[w] \in {"check", "send", "again", "mark"}
      PROVE  i \in DOMAIN rows' /\ rows'[i].payload = rows[i].payload
  <2>1. cur[w] \in DOMAIN rows
    BY <1>4, CurIsRow
  <2>2. Concluded(rows[cur[w]], st, stamp).payload = rows[cur[w]].payload
    BY DEF Concluded
  <2>3. rows' = [rows EXCEPT ![cur[w]] = Concluded(rows[cur[w]], st, stamp)]
    BY <1>4 DEF Conclude
  <2>4. QED
    BY <1>2, <2>1, <2>2, <2>3
<1>5. CASE Environment
  <2>1. ASSUME NEW p \in Payloads, Enqueue(p)
        PROVE  i \in DOMAIN rows' /\ rows'[i] = rows[i]
    BY <1>1, <2>1 DEF Enqueue
  <2>2. ASSUME NEW j \in DOMAIN rows, RetryDue(j)
        PROVE  i \in DOMAIN rows' /\ rows'[i].payload = rows[i].payload
    BY <1>1, <2>2 DEF RetryDue, Row
  <2>3. ASSUME NEW v \in Videos,
               VideoStep(v, VideoMoves \cup VideoEnds) \/ Requeue(v)
        PROVE  rows' = rows
    BY <2>3 DEF VideoStep, Requeue
  <2>4. ASSUME NEW k \in Keys, Delete(k) PROVE rows' = rows
    BY <2>4 DEF Delete
  <2>5. QED
    BY <1>5, <2>1, <2>2, <2>3, <2>4 DEF Environment
<1>6. ASSUME NEW w \in Workers, Begin(w) PROVE rows' = rows
  BY <1>6 DEF Begin
<1>7. ASSUME NEW w \in Workers, Inside(w)
      PROVE  i \in DOMAIN rows' /\ rows'[i].payload = rows[i].payload
  <2>1. CASE Claim(w) \/ ClaimRaises(w)
    <3>1. UNCHANGED rows \/ \E j, st : rows' = [rows EXCEPT ![j].status = st]
      BY <2>1 DEF Claim, ClaimRaises
    <3>2. QED
      BY <1>3, <3>1
  <2>2. CASE Defer(w) \/ SkipDuplicate(w) \/ Refuse(w) \/ Mark(w) \/ Raise(w)
    <3>1. pc[w] \in {"check", "send", "again", "mark"}
      BY <2>2 DEF Defer, SkipDuplicate, Refuse, Mark, Raise
    <3>2. UNCHANGED rows \/ \E st, stamp : Conclude(w, st, stamp)
      BY <2>2 DEF Defer, SkipDuplicate, Refuse, Mark, Raise
    <3>3. QED
      BY <1>4, <3>1, <3>2
  <2>3. CASE \/ Leave(w) \/ ToSender(w) \/ Post(w) \/ PostVideo(w) \/ PostWithoutImage(w)
             \/ Orphan(w)
    BY <2>3 DEF Leave, ToSender, Post, PostVideo, PostWithoutImage, Orphan
  <2>4. QED
    BY <1>7, <2>1, <2>2, <2>3 DEF Inside
<1>8. ASSUME NEW w \in Workers, Finish(w)
      PROVE  i \in DOMAIN rows' /\ rows'[i].payload = rows[i].payload
  BY <1>1, <1>8 DEF Finish, Row
<1>9. CASE Crash \/ UNCHANGED vars
  BY <1>9 DEF Crash, vars
<1>10. QED
  BY <1>5, <1>6, <1>7, <1>8, <1>9, StepKinds

\* Nor, therefore, what is derived from the payload of a row in hand.
LEMMA KeysKept ==
  ASSUME TypeOK, [Next]_vars, NEW i \in DOMAIN rows
  PROVE  Key(i)' = Key(i) /\ Kind(i)' = Kind(i) /\ Video(i)' = Video(i)
  BY PayloadsKept DEF Key, Kind, Video

\* What HandInv says of one task.
Holds(w) ==
  /\ pc[w] = "again" => Kind(cur[w]) = "ca"
  /\ pc[w] \in {"send", "mark"} /\ Kind(cur[w]) = "drop" =>
       Key(cur[w]) \notin notified
  /\ Posted(w) => posts[Key(cur[w])] > 0
  /\ pc[w] \in {"send", "again", "mark"} /\ found[w] => Kind(cur[w]) = "drop"
  /\ pc[w] \in {"send", "again", "mark"} /\ Kind(cur[w]) = "drop" =>
       found[w] \/ Key(cur[w]) \in gone

\* HandInv speaks of each task by itself.
LEMMA HandInvParts == HandInv <=> \A w \in Workers : Holds(w)
  BY DEF HandInv, Holds

\* A step inside a scan that posts nothing takes the task to "check", to
\* "claim", or, when its key is not recorded, to "send".
LEMMA QuietShape ==
  ASSUME TypeOK, NEW w \in Workers,
         \/ Claim(w) \/ ClaimRaises(w) \/ Defer(w) \/ SkipDuplicate(w) \/ Leave(w)
         \/ ToSender(w) \/ Refuse(w) \/ Mark(w) \/ Orphan(w) \/ Raise(w)
  PROVE  \/ pc'[w] \in {"claim", "check"}
         \/ /\ pc[w] = "check" /\ pc'[w] = "send"
            /\ Key(cur[w]) \notin notified
            /\ found'[w] = (Kind(cur[w]) = "drop" /\ Key(cur[w]) \notin gone)
            /\ UNCHANGED <<cur, notified, gone>>
<1>1. pc \in [Workers -> Places]
  BY DEF TypeOK
<1>2. CASE Claim(w)
  BY <1>1, <1>2 DEF Claim
<1>3. CASE ClaimRaises(w)
  BY <1>1, <1>3 DEF ClaimRaises
<1>4. CASE \/ Defer(w) \/ SkipDuplicate(w) \/ Refuse(w) \/ Mark(w) \/ Leave(w)
           \/ Orphan(w) \/ Raise(w)
  BY <1>1, <1>4 DEF Defer, SkipDuplicate, Refuse, Mark, Leave, Orphan, Raise, Conclude
<1>5. CASE ToSender(w)
  BY <1>1, <1>5 DEF ToSender, AlreadySent, TypeOK
<1>6. QED
  BY <1>2, <1>3, <1>4, <1>5

\* A post adds one to the row's key and leaves the row in hand.
LEMMA PostShape ==
  ASSUME TypeOK, NEW w \in Workers, Post(w) \/ PostVideo(w) \/ PostWithoutImage(w)
  PROVE  /\ posts' = [posts EXCEPT ![Key(cur[w])] = @ + 1]
         /\ UNCHANGED <<rows, cur, found, notified, gone>>
         /\ cur[w] \in DOMAIN rows /\ Key(cur[w]) \in Keys
         /\ pc'[w] \in {"again", "mark"}
<1>1. pc \in [Workers -> Places]
  BY DEF TypeOK
<1>2. pc[w] \in {"check", "send", "again", "mark"}
  BY DEF Post, PostVideo, PostWithoutImage
<1>3. QED
  BY <1>1, <1>2, CurIsRow DEF Post, PostVideo, PostWithoutImage, taskVars

\* What a task holds stays claimed until the task lets it go.
LEMMA HandStep == TypeOK /\ LockInv /\ HandInv /\ [Next]_vars => HandInv'
<1> SUFFICES ASSUME TypeOK, LockInv, HandInv, [Next]_vars, NEW v \in Workers
             PROVE  Holds(v)'
  BY DEF HandInv, Holds
<1>1. Holds(v)
  BY HandInvParts
<1>2. ASSUME pc'[v] \in {"idle", "claim", "check"} PROVE Holds(v)'
  BY <1>2 DEF Holds, Posted
<1>3. ASSUME pc'[v] = pc[v], UNCHANGED <<cur, found, posts>>,
             notified' \subseteq notified, gone \subseteq gone'
      PROVE  Holds(v)'
  <2>1. CASE pc[v] \in {"send", "again", "mark"}
    <3>1. cur[v] \in DOMAIN rows
      BY <2>1, CurIsRow
    <3>2. Key(cur[v])' = Key(cur[v]) /\ Kind(cur[v])' = Kind(cur[v])
      BY <1>3, <3>1, PayloadsKept DEF Key, Kind
    <3>3. QED
      BY <1>1, <1>3, <3>2 DEF Holds, Posted
  <2>2. CASE pc[v] \notin {"send", "again", "mark"}
    BY <1>3, <2>2 DEF Holds, Posted
  <2>3. QED
    BY <2>1, <2>2
<1>4. CASE Environment
  BY <1>3, <1>4, EnvironmentShape
<1>5. ASSUME NEW w \in Workers, Inside(w) PROVE Holds(v)'
  <2>1. pc[w] # "idle" /\ (v # w => pc[v] = "idle" /\ pc'[v] = "idle")
    BY <1>5, InsideShape, OthersIdle
  <2>2. CASE v # w
    BY <1>2, <2>1, <2>2
  <2>3. CASE v = w
    <3>1. CASE Post(w) \/ PostVideo(w) \/ PostWithoutImage(w)
      <4>1. posts'[Key(cur[w])] > 0
        BY <3>1, PostShape DEF TypeOK
      <4>2. Key(cur[w])' = Key(cur[w]) /\ Kind(cur[w])' = Kind(cur[w])
        BY <3>1, PostShape DEF Key, Kind
      <4>3. pc'[w] = "again" => Kind(cur[w]) = "ca"
        BY <3>1, <1>1, <2>3 DEF Post, PostVideo, PostWithoutImage, TypeOK, Holds, taskVars
      <4>4. Kind(cur[w]) = "drop" => Key(cur[w]) \notin notified
        BY <3>1, <1>1, <2>3 DEF Post, PostVideo, PostWithoutImage, Holds
      <4>5. pc'[w] \in {"again", "mark"} /\ UNCHANGED <<notified, gone, found, cur>>
        BY <3>1, PostShape
      <4>7. pc[w] \in {"send", "again", "mark"}
        BY <3>1 DEF Post, PostVideo, PostWithoutImage
      <4>6. QED
        BY <1>1, <2>3, <4>1, <4>2, <4>3, <4>4, <4>5, <4>7 DEF Holds, Posted
    <3>2. CASE ~(Post(w) \/ PostVideo(w) \/ PostWithoutImage(w))
      <4>1. \/ pc'[w] \in {"claim", "check"}
            \/ /\ pc[w] = "check" /\ pc'[w] = "send"
               /\ Key(cur[w]) \notin notified
               /\ found'[w] = (Kind(cur[w]) = "drop" /\ Key(cur[w]) \notin gone)
               /\ UNCHANGED <<cur, notified, gone>>
        BY <1>5, <3>2, QuietShape DEF Inside
      <4>2. CASE pc'[w] \in {"claim", "check"}
        BY <1>2, <2>3, <4>2
      <4>3. CASE /\ pc[w] = "check" /\ pc'[w] = "send"
                 /\ Key(cur[w]) \notin notified
                 /\ found'[w] = (Kind(cur[w]) = "drop" /\ Key(cur[w]) \notin gone)
                 /\ UNCHANGED <<cur, notified, gone>>
        <5>1. cur[w] \in DOMAIN rows
          BY <4>3, CurIsRow
        <5>2. Key(cur[w])' = Key(cur[w]) /\ Kind(cur[w])' = Kind(cur[w])
          BY <4>3, <5>1, PayloadsKept DEF Key, Kind
        <5>3. QED
          BY <2>3, <4>3, <5>2 DEF Holds, Posted
      <4>4. QED
        BY <4>1, <4>2, <4>3
    <3>3. QED
      BY <3>1, <3>2
  <2>4. QED
    BY <2>2, <2>3
<1>6. ASSUME NEW w \in Workers, Begin(w) \/ Finish(w) PROVE Holds(v)'
  <2>1. pc' = [pc EXCEPT ![w] = "claim"] \/ pc' = [pc EXCEPT ![w] = "idle"]
    BY <1>6 DEF Begin, Finish
  <2>2. v # w => pc[v] = "idle"
    BY <1>6, WorkersAssumption DEF Begin, LockFree, Finish, LockInv
  <2>3. pc'[v] \in {"idle", "claim", "check"}
    BY <2>1, <2>2 DEF TypeOK
  <2>4. QED
    BY <1>2, <2>3
<1>7. CASE Crash
  BY <1>2, <1>7 DEF Crash
<1>8. CASE UNCHANGED vars
  BY <1>3, <1>8 DEF vars, taskVars, historyVars
<1>9. QED
  BY <1>4, <1>5, <1>6, <1>7, <1>8, StepKinds

\* Some task has posted the message of k and is yet to record it.
InFlight(k) == \E w \in Workers : Posted(w) /\ Key(cur[w]) = k

\* What PostInv says of one key.
Counted(k) ==
  /\ k \in notified => posts[k] > 0
  /\ k \in notified \cup gone => KindOf[k] = "drop"
  /\ KindOf[k] = "drop" /\ k \notin gone =>
       /\ posts[k] <= 1 + unrecorded[k]
       /\ k \in notified \/ InFlight(k) \/ posts[k] <= unrecorded[k]

\* PostInv speaks of each key by itself.
LEMMA PostInvParts == PostInv <=> \A k \in Keys : Counted(k)
  BY DEF PostInv, Counted, InFlight

\* The only post in flight inside a scan is the scanning task's.
LEMMA InFlightIs ==
  ASSUME LockInv, NEW w \in Workers, pc[w] # "idle", NEW k
  PROVE  InFlight(k) <=> Posted(w) /\ Key(cur[w]) = k
  BY OthersIdle DEF InFlight, Posted

\* A step after which the post in flight is still in flight, with the same
\* history, and the same record unless the drop was deleted.
LEMMA SameCount ==
  ASSUME TypeOK, [Next]_vars, NEW k \in Keys, Counted(k),
         UNCHANGED <<posts, unrecorded, pc, cur>>,
         notified' \subseteq notified, gone \subseteq gone',
         notified \subseteq notified' \cup gone',
         k \in gone' => KindOf[k] = "drop"
  PROVE  Counted(k)'
<1>1. ASSUME NEW w \in Workers, Posted(w), Key(cur[w]) = k
      PROVE  Posted(w)' /\ Key(cur[w])' = k
  <2>1. cur[w] \in DOMAIN rows
    BY <1>1, CurIsRow DEF Posted
  <2>2. QED
    BY <1>1, <2>1, PayloadsKept DEF Posted, Key
<1>2. InFlight(k) => InFlight(k)'
  BY <1>1 DEF InFlight
<1>3. QED
  BY <1>2 DEF Counted

\* Inside a scan the account of posts stays right for every key.
LEMMA CountInside ==
  ASSUME TypeOK, LockInv, HandInv, PostInv, NEW w \in Workers, Inside(w),
         NEW k \in Keys
  PROVE  Counted(k)'
<1>1. Counted(k) /\ Holds(w)
  BY PostInvParts, HandInvParts
<1>2. posts \in [Keys -> Nat] /\ unrecorded \in [Keys -> Nat]
  BY DEF TypeOK
<1>3. pc[w] # "idle"
  BY InsideShape
<1>4. InFlight(k) <=> Posted(w) /\ Key(cur[w]) = k
  BY <1>3, InFlightIs
<1>5. CASE \/ Claim(w) \/ ClaimRaises(w) \/ Defer(w) \/ SkipDuplicate(w)
           \/ Leave(w) \/ ToSender(w) \/ Refuse(w)
  <2>1. UNCHANGED <<notified, gone, posts, unrecorded>>
    BY <1>5 DEF Claim, ClaimRaises, Defer, SkipDuplicate, Leave, ToSender,
                Refuse, historyVars
  <2>2. ~Posted(w)
    BY <1>5 DEF Claim, ClaimRaises, Defer, SkipDuplicate, Leave, ToSender,
                Refuse, Posted
  <2>3. \/ k \in notified \cup gone \/ posts[k] <= unrecorded[k]
        \/ KindOf[k] # "drop"
    BY <1>1, <1>4, <2>2 DEF Counted
  <2>4. QED
    BY <1>1, <2>1, <2>3 DEF Counted
<1>6. CASE Post(w) \/ PostVideo(w) \/ PostWithoutImage(w)
  <2>1. /\ posts' = [posts EXCEPT ![Key(cur[w])] = @ + 1]
        /\ UNCHANGED <<rows, cur, notified, gone>>
        /\ Key(cur[w]) \in Keys
        /\ pc'[w] \in {"again", "mark"}
    BY <1>6, PostShape
  <2>2. \/ UNCHANGED unrecorded
        \/ unrecorded' = [unrecorded EXCEPT ![Key(cur[w])] = @ + 1]
    BY <1>6 DEF Post, PostVideo, PostWithoutImage
  <2>3. CASE Key(cur[w]) # k
    <3>1. posts'[k] = posts[k] /\ unrecorded'[k] = unrecorded[k]
      BY <1>2, <2>1, <2>2, <2>3
    <3>2. ~InFlight(k)
      BY <1>4, <2>3
    <3>3. QED
      BY <1>1, <2>1, <3>1, <3>2 DEF Counted
  <2>4. CASE Key(cur[w]) = k
    <3>1. posts'[k] = posts[k] + 1 /\ unrecorded'[k] \in Nat
      BY <1>2, <2>1, <2>2, <2>4
    <3>2. InFlight(k)'
      BY <2>1, <2>4 DEF InFlight, Posted, Key
    <3>3. ASSUME KindOf[k] = "drop", k \notin gone
          PROVE  posts'[k] <= 1 + unrecorded'[k]
      <4>1. Post(w) /\ UNCHANGED unrecorded
        <5>1. Kind(cur[w]) = "drop"
          BY <2>4, <3>3 DEF Kind
        <5>2. ~PostVideo(w)
          BY <1>1, <5>1 DEF PostVideo, Holds
        <5>3. ~PostWithoutImage(w)
          BY <5>1 DEF PostWithoutImage
        <5>4. QED
          BY <1>6, <5>2, <5>3 DEF Post
      <4>2. pc[w] = "send" /\ k \notin notified /\ ~Posted(w)
        BY <1>1, <2>4, <3>3, <4>1 DEF Post, Holds, Kind, Posted
      <4>3. posts[k] <= unrecorded[k]
        BY <1>1, <1>4, <3>3, <4>2 DEF Counted
      <4>4. QED
        BY <1>2, <3>1, <4>1, <4>3
    <3>4. posts'[k] > 0
      BY <1>2, <3>1
    <3>5. QED
      BY <1>1, <2>1, <3>2, <3>3, <3>4 DEF Counted
  <2>5. QED
    BY <2>3, <2>4
<1>7. CASE Mark(w)
  <2>1. /\ UNCHANGED <<gone, posts, unrecorded>>
        /\ Posted(w)
        /\ notified' = IF found[w] THEN notified \cup {Key(cur[w])} ELSE notified
        /\ found[w] => Kind(cur[w]) = "drop"
        /\ Kind(cur[w]) = "drop" => found[w] \/ Key(cur[w]) \in gone
    BY <1>1, <1>7 DEF Mark, historyVars, Posted, Records, Holds
  <2>2. k \in notified' => posts[k] > 0
    BY <1>1, <2>1 DEF Counted, Holds
  <2>3. KindOf[k] = "drop" /\ k \notin gone =>
          k \in notified' \/ posts[k] <= unrecorded[k]
    BY <1>1, <1>4, <2>1 DEF Counted, Kind
  <2>4. k \in notified' => KindOf[k] = "drop"
    BY <1>1, <2>1 DEF Counted, Kind
  <2>5. QED
    BY <1>1, <2>1, <2>2, <2>3, <2>4 DEF Counted
<1>8. CASE Raise(w)
  <2>1. UNCHANGED <<notified, gone, posts>>
    BY <1>8 DEF Raise
  <2>2. unrecorded' = IF Posted(w)
                        THEN [unrecorded EXCEPT ![Key(cur[w])] = @ + 1]
                        ELSE unrecorded
    BY <1>8 DEF Raise, Posted
  <2>3. CASE Posted(w) /\ Key(cur[w]) = k
    <3>1. unrecorded'[k] = unrecorded[k] + 1
      BY <1>2, <2>2, <2>3
    <3>2. QED
      BY <1>1, <1>2, <2>1, <3>1 DEF Counted
  <2>4. CASE ~(Posted(w) /\ Key(cur[w]) = k)
    <3>1. unrecorded'[k] = unrecorded[k]
      BY <1>2, <2>2, <2>4
    <3>2. QED
      BY <1>1, <1>4, <2>1, <2>4, <3>1 DEF Counted
  <2>5. QED
    BY <2>3, <2>4
<1>9. CASE Orphan(w)
  <2>1. UNCHANGED <<notified, gone, posts>> /\ Key(cur[w]) \in gone
    BY <1>9 DEF Orphan
  <2>2. unrecorded' = [unrecorded EXCEPT ![Key(cur[w])] = @ + 1]
    BY <1>9 DEF Orphan
  <2>3. CASE Key(cur[w]) = k
    BY <1>1, <2>1, <2>3 DEF Counted
  <2>4. CASE Key(cur[w]) # k
    <3>1. unrecorded'[k] = unrecorded[k]
      BY <1>2, <2>2, <2>4
    <3>2. QED
      BY <1>1, <1>4, <2>1, <2>4, <3>1 DEF Counted
  <2>5. QED
    BY <2>3, <2>4
<1>10. QED
  BY <1>5, <1>6, <1>7, <1>8, <1>9 DEF Inside

\* Every step keeps the account of posts.
LEMMA PostStep == TypeOK /\ LockInv /\ HandInv /\ PostInv /\ [Next]_vars => PostInv'
<1> SUFFICES ASSUME TypeOK, LockInv, HandInv, PostInv, [Next]_vars, NEW k \in Keys
             PROVE  Counted(k)'
  BY DEF PostInv, Counted, InFlight
<1>1. Counted(k)
  BY PostInvParts
<1>2. CASE Environment \/ UNCHANGED vars
  <2>1. /\ UNCHANGED <<posts, unrecorded, pc, cur>>
        /\ notified' \subseteq notified
        /\ gone \subseteq gone'
        /\ notified \subseteq notified' \cup gone'
    BY <1>2, EnvironmentShape DEF vars, taskVars, historyVars
  <2>2. k \in gone => KindOf[k] = "drop"
    BY <1>1 DEF Counted
  <2>3. ASSUME NEW l \in Keys, Delete(l), k \in gone' PROVE KindOf[k] = "drop"
    <3>1. KindOf[l] = "drop"
      BY <2>3 DEF Delete, PostInv
    <3>2. k \in gone \/ EntryOf[k] = EntryOf[l]
      BY <2>3 DEF Delete, ShownWith
    <3>3. QED
      BY <2>2, <3>1, <3>2, PayloadAssumption
  <2>4. k \in gone' => KindOf[k] = "drop"
    BY <1>2, <2>2, <2>3, EnvironmentShape DEF vars
  <2>5. QED
    BY <1>1, <2>1, <2>4, SameCount
<1>3. ASSUME NEW w \in Workers, Begin(w) PROVE Counted(k)'
  <2>1. \A v \in Workers : pc[v] = "idle"
    BY <1>3, WorkersAssumption DEF Begin, LockFree, LockInv
  <2>2. ~InFlight(k)
    BY <2>1 DEF InFlight, Posted
  <2>3. UNCHANGED <<notified, gone, posts, unrecorded>>
    BY <1>3 DEF Begin, historyVars
  <2>4. QED
    BY <1>1, <2>2, <2>3 DEF Counted
<1>4. ASSUME NEW w \in Workers, Inside(w) PROVE Counted(k)'
  BY <1>4, CountInside
<1>5. ASSUME NEW w \in Workers, Finish(w) PROVE Counted(k)'
  <2>1. pc[w] = "claim" /\ UNCHANGED <<notified, gone, posts, unrecorded>>
    BY <1>5 DEF Finish, historyVars
  <2>2. ~InFlight(k)
    BY <2>1, InFlightIs DEF Posted
  <2>3. QED
    BY <1>1, <2>1, <2>2 DEF Counted
<1>6. CASE Crash
  <2>1. UNCHANGED <<notified, gone, posts>>
    BY <1>6 DEF Crash
  <2>2. unrecorded'[k] = IF InFlight(k) THEN unrecorded[k] + 1 ELSE unrecorded[k]
    BY <1>6 DEF Crash, InFlight
  <2>3. posts[k] \in Nat /\ unrecorded[k] \in Nat
    BY DEF TypeOK
  <2>4. QED
    BY <1>1, <2>1, <2>2, <2>3 DEF Counted
<1>7. QED
  BY <1>2, <1>3, <1>4, <1>5, <1>6, StepKinds

\* Posts are never taken back, nor records but by a deletion.
LEMMA HistoryGrows ==
  ASSUME TypeOK, [Next]_vars, NEW k \in Keys
  PROVE  /\ k \in notified \cup gone => k \in notified' \cup gone'
         /\ posts[k] > 0 => posts'[k] > 0
<1>1. posts \in [Keys -> Nat]
  BY DEF TypeOK
<1>2. ASSUME NEW w \in Workers, Inside(w)
      PROVE  /\ k \in notified \cup gone => k \in notified' \cup gone'
             /\ posts[k] > 0 => posts'[k] > 0
  <2>1. CASE Post(w) \/ PostVideo(w) \/ PostWithoutImage(w)
    BY <1>1, <2>1, PostShape
  <2>2. CASE Mark(w)
    BY <2>2 DEF Mark, historyVars
  <2>3. CASE \/ Claim(w) \/ ClaimRaises(w) \/ Defer(w) \/ SkipDuplicate(w)
             \/ Leave(w) \/ ToSender(w) \/ Refuse(w) \/ Orphan(w) \/ Raise(w)
    BY <2>3 DEF Claim, ClaimRaises, Defer, SkipDuplicate, Leave, ToSender,
                Refuse, Orphan, Raise, historyVars
  <2>4. QED
    BY <1>2, <2>1, <2>2, <2>3 DEF Inside
<1>3. CASE Environment
  BY <1>3, EnvironmentShape
<1>4. ASSUME NEW w \in Workers, Begin(w) \/ Finish(w)
      PROVE  UNCHANGED <<notified, gone, posts>>
  BY <1>4 DEF Begin, Finish, historyVars
<1>5. CASE Crash \/ UNCHANGED vars
  BY <1>5 DEF Crash, vars, historyVars
<1>6. QED
  BY <1>2, <1>3, <1>4, <1>5, StepKinds

\* A row becomes sent in two places only.
LEMMA SentOrigin ==
  ASSUME TypeOK, [Next]_vars, NEW i \in DOMAIN rows', rows'[i].status = "sent"
  PROVE  \/ i \in DOMAIN rows /\ rows[i].status = "sent"
         \/ \E w \in Workers : (SkipDuplicate(w) \/ Mark(w)) /\ i = cur[w]
<1> DEFINE Goal == \/ i \in DOMAIN rows /\ rows[i].status = "sent"
                   \/ \E w \in Workers : (SkipDuplicate(w) \/ Mark(w)) /\ i = cur[w]
<1>1. rows \in Seq(Row) /\ DOMAIN rows = 1..Len(rows)
  BY DEF TypeOK
<1>2. ASSUME NEW j, NEW st, st # "sent", rows' = [rows EXCEPT ![j].status = st]
      PROVE  Goal
  <2>1. i \in DOMAIN rows /\ rows[i] \in Row
    BY <1>1, <1>2
  <2>2. QED
    BY <1>2, <2>1 DEF Row
<1>3. ASSUME NEW w \in Workers, NEW st, NEW stamp, Conclude(w, st, stamp),
             st # "sent" \/ i # cur[w]
      PROVE  Goal
  BY <1>3 DEF Conclude, Concluded
<1>4. CASE Environment
  <2>1. ASSUME NEW p \in Payloads, Enqueue(p) PROVE Goal
    BY <1>1, <2>1 DEF Enqueue
  <2>2. ASSUME NEW j \in DOMAIN rows, RetryDue(j) PROVE Goal
    <3>1. i \in DOMAIN rows /\ rows[i] \in Row
      BY <1>1, <2>2 DEF RetryDue
    <3>2. QED
      BY <2>2, <3>1 DEF RetryDue, Row
  <2>3. ASSUME NEW v \in Videos,
               VideoStep(v, VideoMoves \cup VideoEnds) \/ Requeue(v)
        PROVE  Goal
    BY <2>3 DEF VideoStep, Requeue
  <2>4. ASSUME NEW k \in Keys, Delete(k) PROVE Goal
    BY <2>4 DEF Delete
  <2>5. QED
    BY <1>4, <2>1, <2>2, <2>3, <2>4 DEF Environment
<1>5. ASSUME NEW w \in Workers, Begin(w) PROVE Goal
  BY <1>5 DEF Begin
<1>6. ASSUME NEW w \in Workers, Inside(w) PROVE Goal
  <2>1. CASE Claim(w) \/ ClaimRaises(w)
    <3>1. \/ UNCHANGED rows
          \/ \E j, st : st # "sent" /\ rows' = [rows EXCEPT ![j].status = st]
      BY <2>1 DEF Claim, ClaimRaises
    <3>2. QED
      BY <1>2, <3>1
  <2>2. CASE SkipDuplicate(w) \/ Mark(w)
    <3>1. Conclude(w, "sent", TRUE)
      BY <2>2 DEF SkipDuplicate, Mark
    <3>2. QED
      BY <1>3, <2>2, <3>1
  <2>3. CASE Defer(w) \/ Refuse(w) \/ Raise(w)
    <3>1. \/ UNCHANGED rows
          \/ \E st, stamp : st # "sent" /\ Conclude(w, st, stamp)
      BY <2>3 DEF Defer, Refuse, Raise
    <3>2. QED
      BY <1>3, <3>1
  <2>4. CASE \/ Leave(w) \/ ToSender(w) \/ Post(w) \/ PostVideo(w) \/ PostWithoutImage(w)
             \/ Orphan(w)
    BY <2>4 DEF Leave, ToSender, Post, PostVideo, PostWithoutImage, Orphan
  <2>5. QED
    BY <1>6, <2>1, <2>2, <2>3, <2>4 DEF Inside
<1>7. ASSUME NEW w \in Workers, Finish(w) PROVE Goal
  <2>1. i \in DOMAIN rows /\ rows[i] \in Row
    BY <1>1, <1>7 DEF Finish
  <2>2. QED
    BY <1>7, <2>1 DEF Finish, Row
<1>8. CASE Crash \/ UNCHANGED vars
  BY <1>8 DEF Crash, vars
<1>9. QED
  BY <1>4, <1>5, <1>6, <1>7, <1>8, StepKinds

\* A row becomes sent only after a post, and a drop only with its record or after
\* it was deleted.
LEMMA SentStep ==
  TypeOK /\ LockInv /\ HandInv /\ PostInv /\ SentWasPosted /\ [Next]_vars
    => SentWasPosted'
<1> SUFFICES ASSUME TypeOK, LockInv, HandInv, PostInv, SentWasPosted, [Next]_vars,
                    NEW i \in DOMAIN rows', rows'[i].status = "sent"
             PROVE  /\ posts'[Key(i)'] > 0
                    /\ Kind(i)' = "drop" => Key(i)' \in notified' \cup gone'
  BY DEF SentWasPosted
<1>1. CASE i \in DOMAIN rows /\ rows[i].status = "sent"
  <2>1. posts[Key(i)] > 0 /\ (Kind(i) = "drop" => Key(i) \in notified \cup gone)
    BY <1>1 DEF SentWasPosted
  <2>2. Key(i)' = Key(i) /\ Kind(i)' = Kind(i)
    BY <1>1, KeysKept
  <2>3. Key(i) \in Keys
    <3>1. rows[i] \in Row
      BY <1>1 DEF TypeOK
    <3>2. QED
      BY <3>1, PayloadAssumption DEF Row, Key
  <2>4. QED
    BY <2>1, <2>2, <2>3, HistoryGrows
<1>2. ASSUME NEW w \in Workers, SkipDuplicate(w) \/ Mark(w), i = cur[w]
      PROVE  /\ posts'[Key(i)'] > 0
             /\ Kind(i)' = "drop" => Key(i)' \in notified' \cup gone'
  <2>1. i \in DOMAIN rows /\ Key(i) \in Keys
    BY <1>2, CurIsRow DEF SkipDuplicate, Mark
  <2>2. Key(i)' = Key(i) /\ Kind(i)' = Kind(i)
    BY <2>1, KeysKept
  <2>3. CASE SkipDuplicate(w)
    <3>1. Key(i) \in notified
      BY <1>2, <2>3 DEF SkipDuplicate, AlreadySent
    <3>2. posts[Key(i)] > 0
      BY <2>1, <3>1 DEF PostInv
    <3>3. QED
      BY <2>1, <2>2, <3>1, <3>2, HistoryGrows
  <2>4. CASE Mark(w)
    <3>1. posts[Key(i)] > 0
      BY <1>2, <2>4 DEF Mark, HandInv, Posted
    <3>2. Kind(i) = "drop" => Key(i) \in notified' \cup gone'
      BY <1>2, <2>4 DEF Mark, Records, HandInv
    <3>3. QED
      BY <2>1, <2>2, <3>1, <3>2, HistoryGrows
  <2>5. QED
    BY <1>2, <2>3, <2>4
<1>3. QED
  BY <1>1, <1>2, SentOrigin

\* Faults are never taken back.
LEMMA FaultsGrow == ASSUME TypeOK, [Next]_vars PROVE faults' \in {faults, faults + 1}
<1>1. CASE Environment
  BY <1>1 DEF Environment, Enqueue, VideoStep, Requeue, RetryDue, Delete, faultVars
<1>2. ASSUME NEW w \in Workers, Inside(w) PROVE faults' \in {faults, faults + 1}
  <2>1. CASE Claim(w) \/ ClaimRaises(w) \/ Defer(w) \/ SkipDuplicate(w) \/ Leave(w)
    BY <2>1 DEF Claim, ClaimRaises, Defer, SkipDuplicate, Leave, faultVars
  <2>2. CASE ToSender(w) \/ Refuse(w) \/ Mark(w) \/ Orphan(w) \/ Raise(w)
    BY <2>2 DEF ToSender, Refuse, Mark, Orphan, Raise, faultVars
  <2>3. CASE Post(w) \/ PostVideo(w) \/ PostWithoutImage(w)
    BY <2>3 DEF Post, PostVideo, PostWithoutImage, faultVars
  <2>4. QED
    BY <1>2, <2>1, <2>2, <2>3 DEF Inside
<1>3. ASSUME NEW w \in Workers, Begin(w) \/ Finish(w) PROVE faults' = faults
  BY <1>3 DEF Begin, Finish, faultVars
<1>4. CASE Crash \/ UNCHANGED vars
  BY <1>4 DEF Crash, vars, faultVars
<1>5. QED
  BY <1>1, <1>2, <1>3, <1>4, StepKinds

\* No row slips past the check while its video is unfinished.
LEMMA AheadStep ==
  TypeOK /\ LockInv /\ NeverAheadOfVideo /\ [Next]_vars => NeverAheadOfVideo'
<1> DEFINE Ready(w) == /\ pc[w] \in {"send", "again", "mark"}
                       /\ Video(cur[w]) # NoVideo
                       => videos[Video(cur[w])] \in {"absent", "processed", "failed"}
<1> SUFFICES ASSUME TypeOK, LockInv, NeverAheadOfVideo, [Next]_vars, faults' = 0,
                    NEW v \in Workers
             PROVE  Ready(v)'
  BY DEF NeverAheadOfVideo
<1>0. faults = 0
  BY FaultsGrow, BoundsAssumption DEF TypeOK
<1>1. Ready(v)
  BY <1>0 DEF NeverAheadOfVideo
<1>2. ASSUME pc'[v] \in {"idle", "claim", "check"} PROVE Ready(v)'
  BY <1>2
<1>3. ASSUME pc'[v] \in Places, pc'[v] \in {"send", "again", "mark"} =>
                     pc[v] \in {"send", "again", "mark"} /\ cur'[v] = cur[v],
             \A x \in Videos : videos[x] \in {"absent", "processed", "failed"} =>
                                 videos'[x] = videos[x]
      PROVE  Ready(v)'
  <2>1. CASE pc'[v] \in {"send", "again", "mark"}
    <3>1. pc[v] \in {"send", "again", "mark"} /\ cur'[v] = cur[v]
      BY <1>3, <2>1
    <3>2. cur[v] \in DOMAIN rows /\ rows[cur[v]] \in Row
      BY <3>1, CurIsRow
    <3>3. Video(cur[v]) \in Videos \cup {NoVideo}
      BY <3>2, PayloadAssumption DEF Row, Video
    <3>4. Video(cur[v])' = Video(cur[v])
      BY <3>1, <3>2, PayloadsKept DEF Video
    <3>5. QED
      BY <1>1, <1>3, <3>1, <3>3, <3>4
  <2>2. CASE pc'[v] \notin {"send", "again", "mark"}
    BY <2>2
  <2>3. QED
    BY <2>1, <2>2
<1>4. pc' \in [Workers -> Places]
  BY NextType DEF TypeOK
<1>5. CASE Environment
  <2>1. \A x \in Videos : videos[x] \in {"absent", "processed", "failed"} =>
                            videos'[x] = videos[x]
    <3>1. ASSUME NEW y \in Videos, VideoStep(y, VideoMoves \cup VideoEnds),
                 NEW x \in Videos, videos[x] \in {"absent", "processed", "failed"}
          PROVE  videos'[x] = videos[x]
      <4>1. PICK step \in VideoMoves \cup VideoEnds :
              /\ videos[y] = step[1]
              /\ videos' = [videos EXCEPT ![y] = step[2]]
        BY <3>1 DEF VideoStep
      <4>2. step[1] \in {"pending", "uploaded", "processing"}
        BY <4>1 DEF VideoMoves, VideoEnds
      <4>3. QED
        BY <3>1, <4>1, <4>2 DEF TypeOK
    <3>2. CASE \E y \in Videos : Requeue(y)
      BY <1>0, <3>2 DEF Requeue
    <3>3. CASE /\ ~\E y \in Videos : VideoStep(y, VideoMoves \cup VideoEnds)
               /\ ~\E y \in Videos : Requeue(y)
      BY <1>5, <3>3 DEF Environment, Enqueue, RetryDue, Delete
    <3>4. QED
      BY <3>1, <3>2, <3>3
  <2>2. QED
    BY <1>3, <1>4, <1>5, <2>1, EnvironmentShape
<1>6. ASSUME NEW w \in Workers, Inside(w) PROVE Ready(v)'
  <2>1. UNCHANGED videos /\ (v # w => pc'[v] = pc[v] /\ cur'[v] = cur[v])
    BY <1>6, InsideShape
  <2>2. CASE v # w
    BY <1>3, <1>4, <2>1, <2>2
  <2>3. CASE v = w /\ ToSender(w)
    <3>1. pc[w] = "check" /\ ~MustWait(cur[w]) /\ UNCHANGED <<rows, cur, videos>>
      BY <1>0, <2>3 DEF ToSender
    <3>2. cur[w] \in DOMAIN rows /\ rows[cur[w]] \in Row
      BY <3>1, CurIsRow
    <3>3. Video(cur[w]) \in Videos \cup {NoVideo}
      BY <3>2, PayloadAssumption DEF Row, Video
    <3>4. Video(cur[w]) # NoVideo =>
            videos[Video(cur[w])] \in {"absent", "processed", "failed"}
      BY <3>1, <3>3 DEF MustWait, Unfinished, TypeOK, VideoStatuses
    <3>5. QED
      BY <2>3, <3>1, <3>4 DEF Video
  <2>4. CASE v = w /\ ~ToSender(w)
    <3>1. CASE Post(w) \/ PostVideo(w) \/ PostWithoutImage(w)
      <4>1. pc[w] \in {"send", "again", "mark"}
        BY <3>1 DEF Post, PostVideo, PostWithoutImage
      <4>2. UNCHANGED cur
        BY <3>1, PostShape
      <4>3. QED
        BY <1>3, <1>4, <2>1, <2>4, <4>1, <4>2
    <3>2. CASE ~(Post(w) \/ PostVideo(w) \/ PostWithoutImage(w))
      <4>1. pc'[w] \in {"claim", "check"}
        <5>1. pc \in [Workers -> Places]
          BY DEF TypeOK
        <5>2. CASE Claim(w) \/ ClaimRaises(w)
          BY <5>1, <5>2 DEF Claim, ClaimRaises
        <5>3. CASE \/ Defer(w) \/ SkipDuplicate(w) \/ Refuse(w) \/ Mark(w)
                   \/ Leave(w) \/ Orphan(w) \/ Raise(w)
          BY <5>1, <5>3 DEF Defer, SkipDuplicate, Refuse, Mark, Leave, Orphan, Raise,
                            Conclude
        <5>4. QED
          BY <1>6, <2>4, <3>2, <5>2, <5>3 DEF Inside
      <4>2. QED
        BY <1>2, <2>4, <4>1
    <3>3. QED
      BY <3>1, <3>2
  <2>5. QED
    BY <2>2, <2>3, <2>4
<1>7. ASSUME NEW w \in Workers, Begin(w) \/ Finish(w) PROVE Ready(v)'
  <2>1. pc' = [pc EXCEPT ![w] = "claim"] \/ pc' = [pc EXCEPT ![w] = "idle"]
    BY <1>7 DEF Begin, Finish
  <2>2. v # w => pc[v] = "idle"
    BY <1>7, WorkersAssumption DEF Begin, LockFree, Finish, LockInv
  <2>3. pc'[v] \in {"idle", "claim", "check"}
    BY <2>1, <2>2 DEF TypeOK
  <2>4. QED
    BY <1>2, <2>3
<1>8. CASE Crash
  BY <1>2, <1>8 DEF Crash
<1>9. CASE UNCHANGED vars
  BY <1>3, <1>4, <1>9 DEF vars, taskVars
<1>10. QED
  BY <1>5, <1>6, <1>7, <1>8, <1>9, StepKinds

-----------------------------------------------------------------------------

\* The invariant holds at the start.
LEMMA InitInv == Init => IInv
<1> SUFFICES ASSUME Init PROVE IInv
  OBVIOUS
<1>1. TypeOK
  BY InitType
<1>2. \A w \in Workers : pc[w] = "idle"
  BY DEF Init
<1>3. LockInv /\ HandInv /\ NeverAheadOfVideo
  BY <1>2 DEF LockInv, HandInv, NeverAheadOfVideo, Posted
<1>4. PostInv
  <2>1. /\ \A k \in Keys : posts[k] = 0 /\ unrecorded[k] = 0
        /\ notified = {} /\ gone = {}
    BY DEF Init
  <2>2. QED
    BY <2>1 DEF PostInv
<1>5. SentWasPosted
  BY DEF Init, SentWasPosted
<1>6. QED
  BY <1>1, <1>3, <1>4, <1>5 DEF IInv

\* Every step keeps the invariant.
LEMMA NextInv == IInv /\ [Next]_vars => IInv'
  BY NextType, LockStep, HandStep, PostStep, SentStep, AheadStep DEF IInv

\* The strengthening of the safety properties holds in every reachable state:
\* types, mutual exclusion, claimed rows in hand, and the account of posts.
THEOREM InductiveInvariant == Spec => []IInv
  BY InitInv, NextInv, PTL DEF Spec

\* services/notification_service.py with the table notified: whatever the
\* number of tasks, rows for one key, faults and crashes, a drop is posted once
\* unless the database was kept from learning of a post, until it is deleted.
THEOREM DropsGoOutOnce == Spec => []DropsPostedOnce
<1>1. IInv => DropsPostedOnce
  BY DEF IInv, PostInv, DropsPostedOnce
<1>2. QED
  BY <1>1, InductiveInvariant, PTL

\* A row called "sent" has a message behind it, and a drop called "sent" is in
\* the table that keeps it from being sent again, unless it was deleted, before
\* or after it was sent.
THEOREM SentIsTrue == Spec => []SentWasPosted
<1>1. IInv => SentWasPosted
  BY DEF IInv
<1>2. QED
  BY <1>1, InductiveInvariant, PTL

\* The video decision of _should_defer_for_video still stands when the message
\* is posted and recorded, although the video worker runs in between.
THEOREM VideosComeFirst == Spec => []NeverAheadOfVideo
<1>1. IInv => NeverAheadOfVideo
  BY DEF IInv
<1>2. QED
  BY <1>1, InductiveInvariant, PTL

\* cleanup_stuck_notifications runs inside the lock, so it resets no row that a
\* task is posting: the action property, for any number of tasks.
THEOREM CleanupIsSafe == Spec => CleanupSparesRowsInHand
<1> DEFINE Spares ==
      \A i \in DOMAIN rows :
        rows[i].status = "processing" /\ rows'[i].status = "pending" =>
          \A w \in Workers : cur[w] = i => pc[w] \in {"idle", "claim"}
<1>1. IInv /\ [Next]_vars => [Spares]_vars
  <2> SUFFICES ASSUME IInv, Next, NEW i \in DOMAIN rows,
                      rows[i].status = "processing", rows'[i].status = "pending",
                      NEW v \in Workers
               PROVE  pc[v] \in {"idle", "claim"}
    OBVIOUS
  <2>1. rows \in Seq(Row) /\ rows[i] \in Row /\ [Next]_vars /\ TypeOK /\ LockInv
    BY DEF IInv, TypeOK
  <2>2. ASSUME NEW j, NEW st, rows' = [rows EXCEPT ![j].status = st],
               st # "pending"
        PROVE  FALSE
    BY <2>1, <2>2 DEF Row
  <2>3. ASSUME NEW w \in Workers, NEW st, NEW stamp, st # "pending",
               Conclude(w, st, stamp)
        PROVE  FALSE
    BY <2>1, <2>3 DEF Conclude, Concluded
  <2>4. CASE Environment
    <3>1. ASSUME NEW p \in Payloads, Enqueue(p) PROVE FALSE
      BY <2>1, <3>1 DEF Enqueue
    <3>2. ASSUME NEW j \in DOMAIN rows, RetryDue(j) PROVE FALSE
      BY <2>1, <3>2 DEF RetryDue, Row
    <3>3. ASSUME NEW x \in Videos,
                 VideoStep(x, VideoMoves \cup VideoEnds) \/ Requeue(x)
          PROVE  FALSE
      BY <3>3 DEF VideoStep, Requeue
    <3>4. ASSUME NEW k \in Keys, Delete(k) PROVE FALSE
      BY <3>4 DEF Delete
    <3>5. QED
      BY <2>4, <3>1, <3>2, <3>3, <3>4 DEF Environment
  <2>5. ASSUME NEW w \in Workers, Inside(w) PROVE FALSE
    <3>1. \/ UNCHANGED rows
          \/ \E j, st : st # "pending" /\ rows' = [rows EXCEPT ![j].status = st]
          \/ \E st, stamp : st # "pending" /\ Conclude(w, st, stamp)
      <4>1. CASE Claim(w) \/ ClaimRaises(w)
        BY <4>1 DEF Claim, ClaimRaises
      <4>2. CASE \/ Defer(w) \/ SkipDuplicate(w) \/ Refuse(w) \/ Mark(w) \/ Raise(w)
        BY <4>2 DEF Defer, SkipDuplicate, Refuse, Mark, Raise
      <4>3. CASE \/ Leave(w) \/ ToSender(w) \/ Post(w) \/ PostVideo(w)
                 \/ PostWithoutImage(w) \/ Orphan(w)
        BY <4>3 DEF Leave, ToSender, Post, PostVideo, PostWithoutImage, Orphan
      <4>4. QED
        BY <2>5, <4>1, <4>2, <4>3 DEF Inside
    <3>2. QED
      BY <2>2, <2>3, <3>1
  <2>6. ASSUME NEW w \in Workers, Finish(w) PROVE pc[v] \in {"idle", "claim"}
    <3>1. pc[w] = "claim"
      BY <2>6 DEF Finish
    <3>2. QED
      BY <2>1, <3>1, OthersIdle
  <2>7. ASSUME (\E w \in Workers : Begin(w)) \/ Crash \/ UNCHANGED vars PROVE FALSE
    BY <2>7 DEF Begin, Crash, vars
  <2>8. QED
    BY <2>1, <2>4, <2>5, <2>6, <2>7, StepKinds
<1>2. QED
  BY <1>1, InductiveInvariant, PTL DEF Spec, CleanupSparesRowsInHand

-----------------------------------------------------------------------------
(* A row in hand is claimed and not settled, so that each post has a row of *)
(* its own, settled or in hand, or the database missed it.                *)


InHand(w) == pc[w] \in {"check", "send", "again", "mark"}

\* A row in hand stays claimed.
Claimed == \A w \in Workers : InHand(w) => rows[cur[w]].status = "processing"

Settled(i) == rows[i].status \in {"sent", "failed"}

\* The rows of a key that need no further post, or whose post is in flight.
Answered(k) ==
  {i \in RowsOf(k) : Settled(i) \/ \E w \in Workers : Posted(w) /\ cur[w] = i}

PostsMatch(k) == KindOf[k] # "ca" => posts[k] <= Cardinality(Answered(k)) + unrecorded[k]

\* A payload has one row at most: the unique constraint of the table.
Distinct == \A i, j \in DOMAIN rows : rows[i].payload = rows[j].payload => i = j

CountInv == IInv /\ Claimed /\ Distinct /\ \A k \in Keys : PostsMatch(k)

-----------------------------------------------------------------------------
(* What a step does to a row.                                              *)

\* The status of a row changes in five ways.
LEMMA StatusMoves ==
  ASSUME TypeOK, [Next]_vars, NEW i \in DOMAIN rows
  PROVE  \/ rows'[i].status = rows[i].status
         \/ \E w \in Workers : /\ Claim(w)
                               /\ rows[i].status \in {"pending", "video_processing"}
                               /\ rows'[i].status = "processing"
         \/ \E w \in Workers : ClaimRaises(w) /\ rows'[i].status = "failed"
         \/ \E w \in Workers : InHand(w) /\ cur[w] = i /\ pc'[w] = "claim"
         \/ \E w \in Workers : /\ Finish(w)
                               /\ rows[i].status = "processing" /\ rows'[i].status = "pending"
<1> DEFINE Goal ==
         \/ rows'[i].status = rows[i].status
         \/ \E w \in Workers : /\ Claim(w)
                               /\ rows[i].status \in {"pending", "video_processing"}
                               /\ rows'[i].status = "processing"
         \/ \E w \in Workers : ClaimRaises(w) /\ rows'[i].status = "failed"
         \/ \E w \in Workers : InHand(w) /\ cur[w] = i /\ pc'[w] = "claim"
         \/ \E w \in Workers : /\ Finish(w)
                               /\ rows[i].status = "processing" /\ rows'[i].status = "pending"
<1>1. rows \in Seq(Row) /\ i \in 1..Len(rows) /\ rows[i] \in Row /\ pc \in [Workers -> Places]
  BY DEF TypeOK
<1>2. ASSUME NEW w \in Workers, NEW st, NEW stamp, Conclude(w, st, stamp), InHand(w)
      PROVE  Goal
  <2>1. CASE cur[w] = i
    <3>1. pc'[w] = "claim"
      BY <1>1, <1>2 DEF Conclude
    <3>. QED  BY <1>2, <2>1, <3>1
  <2>2. CASE cur[w] # i
    <3>1. rows'[i] = rows[i]
      BY <1>1, <1>2, <2>2 DEF Conclude
    <3>. QED  BY <3>1
  <2>. QED  BY <2>1, <2>2
<1>3. CASE Environment
  <2>1. ASSUME NEW p \in Payloads, Enqueue(p) PROVE Goal
    BY <1>1, <2>1 DEF Enqueue
  <2>2. ASSUME NEW j \in DOMAIN rows, RetryDue(j) PROVE Goal
    BY <1>1, <2>2 DEF RetryDue, Row
  <2>3. ASSUME NEW v \in Videos, VideoStep(v, VideoMoves \cup VideoEnds) \/ Requeue(v) PROVE Goal
    BY <2>3 DEF VideoStep, Requeue
  <2>4. ASSUME NEW k \in Keys, Delete(k) PROVE Goal
    BY <2>4 DEF Delete
  <2>. QED  BY <1>3, <2>1, <2>2, <2>3, <2>4 DEF Environment
<1>4. ASSUME NEW w \in Workers, Inside(w) PROVE Goal
  <2>1. CASE Claim(w)
    <3>1. PICK j \in batch[w] :
            IF rows[j].status \in {"pending", "video_processing"}
            THEN rows' = [rows EXCEPT ![j].status = "processing"]
            ELSE UNCHANGED rows
      BY <2>1 DEF Claim
    <3>2. CASE i = j /\ rows[j].status \in {"pending", "video_processing"}
      <4>1. rows'[i].status = "processing"
        BY <1>1, <3>1, <3>2 DEF Row
      <4>. QED  BY <2>1, <3>2, <4>1
    <3>3. CASE i # j \/ rows[j].status \notin {"pending", "video_processing"}
      <4>1. rows'[i] = rows[i]
        BY <1>1, <3>1, <3>3
      <4>. QED  BY <4>1
    <3>. QED  BY <3>2, <3>3
  <2>2. CASE ClaimRaises(w)
    <3>1. UNCHANGED rows \/ \E j : rows' = [rows EXCEPT ![j].status = "failed"]
      BY <2>2 DEF ClaimRaises
    <3>2. rows'[i].status = rows[i].status \/ rows'[i].status = "failed"
      BY <1>1, <3>1 DEF Row
    <3>. QED  BY <2>2, <3>2
  <2>3. CASE Defer(w) \/ SkipDuplicate(w) \/ Refuse(w) \/ Mark(w) \/ Raise(w)
    <3>1. InHand(w)
      BY <2>3 DEF Defer, SkipDuplicate, Refuse, Mark, Raise, InHand
    <3>2. UNCHANGED rows \/ \E st, stamp : Conclude(w, st, stamp)
      BY <2>3 DEF Defer, SkipDuplicate, Refuse, Mark, Raise
    <3>. QED  BY <1>2, <3>1, <3>2
  <2>4. CASE \/ Leave(w) \/ ToSender(w) \/ Post(w) \/ PostVideo(w) \/ PostWithoutImage(w)
             \/ Orphan(w)
    BY <2>4 DEF Leave, ToSender, Post, PostVideo, PostWithoutImage, Orphan
  <2>. QED  BY <1>4, <2>1, <2>2, <2>3, <2>4 DEF Inside
<1>5. ASSUME NEW w \in Workers, Finish(w) PROVE Goal
  <2>1. \/ rows'[i] = rows[i]
        \/ rows[i].status = "processing" /\ rows'[i].status = "pending"
    BY <1>1, <1>5 DEF Finish, IsStuck, Row
  <2>. QED  BY <1>5, <2>1
<1>6. CASE (\E w \in Workers : Begin(w)) \/ Crash \/ UNCHANGED vars
  BY <1>6 DEF Begin, Crash, vars
<1>. QED  BY <1>3, <1>4, <1>5, <1>6, StepKinds

\* A row is taken in hand by a claim; otherwise it was in hand already.
LEMMA HandMoves ==
  ASSUME TypeOK, [Next]_vars, NEW v \in Workers, InHand(v)'
  PROVE  \/ /\ Claim(v) /\ cur'[v] \in DOMAIN rows'
            /\ rows'[cur'[v]].status = "processing"
         \/ InHand(v) /\ cur'[v] = cur[v]
<1>1. /\ rows \in Seq(Row) /\ pc \in [Workers -> Places] /\ cur \in [Workers -> 0..Len(rows)]
      /\ batch \in [Workers -> SUBSET (1..Len(rows))]
  BY DEF TypeOK
<1>2. CASE Environment \/ UNCHANGED vars
  BY <1>2, EnvironmentShape DEF InHand, vars, taskVars
<1>3. ASSUME NEW w \in Workers, Inside(w), w # v PROVE InHand(v) /\ cur'[v] = cur[v]
  BY <1>3, InsideShape DEF InHand
<1>4. CASE Inside(v)
  <2>1. CASE Claim(v)
    <3>1. PICK i \in batch[v] :
            /\ rows[i].status \in {"pending", "video_processing"}
            /\ rows' = [rows EXCEPT ![i].status = "processing"]
            /\ cur' = [cur EXCEPT ![v] = i]
      BY <1>1, <2>1 DEF Claim, InHand
    <3>2. i \in 1..Len(rows) /\ rows[i] \in Row
      BY <1>1, <3>1
    <3>3. i \in DOMAIN rows' /\ rows'[i].status = "processing" /\ cur'[v] = i
      BY <1>1, <3>1, <3>2 DEF Row
    <3>. QED  BY <2>1, <3>3
  <2>2. CASE ClaimRaises(v)
    BY <1>1, <2>2 DEF ClaimRaises, InHand
  <2>3. CASE \/ Defer(v) \/ SkipDuplicate(v) \/ Refuse(v) \/ Mark(v) \/ Leave(v)
             \/ Orphan(v) \/ Raise(v)
    BY <1>1, <2>3 DEF Defer, SkipDuplicate, Refuse, Mark, Leave, Orphan, Raise, Conclude,
       InHand
  <2>4. CASE ToSender(v) \/ Post(v) \/ PostVideo(v) \/ PostWithoutImage(v)
    BY <1>1, <2>4 DEF ToSender, Post, PostVideo, PostWithoutImage, taskVars, InHand
  <2>. QED  BY <1>4, <2>1, <2>2, <2>3, <2>4 DEF Inside
<1>5. ASSUME NEW w \in Workers, Begin(w) \/ Finish(w) PROVE InHand(v) /\ cur'[v] = cur[v]
  BY <1>1, <1>5 DEF Begin, Finish, InHand
<1>6. CASE Crash
  BY <1>6 DEF Crash, InHand
<1>. QED  BY <1>2, <1>3, <1>4, <1>5, <1>6, StepKinds

\* What a task has claimed stays claimed while it works on it.
LEMMA ClaimedStep == TypeOK /\ LockInv /\ Claimed /\ [Next]_vars => Claimed'
<1>. SUFFICES ASSUME TypeOK, LockInv, Claimed, [Next]_vars, NEW v \in Workers, InHand(v)'
              PROVE  rows'[cur'[v]].status = "processing"
  BY DEF Claimed, InHand
<1>1. CASE InHand(v) /\ cur'[v] = cur[v]
  <2>1. cur[v] \in DOMAIN rows /\ rows[cur[v]].status = "processing" /\ pc[v] # "idle"
    BY <1>1, CurIsRow DEF Claimed, InHand
  <2>2. ASSUME NEW w \in Workers, pc[w] # "idle" PROVE w = v
    BY <2>1, <2>2 DEF LockInv
  <2>3. ASSUME NEW w \in Workers, Claim(w) \/ ClaimRaises(w) \/ Finish(w) PROVE FALSE
    <3>1. pc[w] = "claim"
      BY <2>3 DEF Claim, ClaimRaises, Finish
    <3>. QED  BY <1>1, <2>2, <3>1 DEF InHand
  <2>4. ASSUME NEW w \in Workers, InHand(w), pc'[w] = "claim" PROVE FALSE
    BY <2>2, <2>4 DEF InHand
  <2>. QED  BY <1>1, <2>1, <2>3, <2>4, StatusMoves
<1>. QED  BY <1>1, HandMoves

\* A payload is queued once.
LEMMA DistinctStep == TypeOK /\ Distinct /\ [Next]_vars => Distinct'
<1>. SUFFICES ASSUME TypeOK, Distinct, [Next]_vars, NEW i \in DOMAIN rows', NEW j \in DOMAIN rows',
                     rows'[i].payload = rows'[j].payload
              PROVE  i = j
  BY DEF Distinct
<1>1. rows \in Seq(Row) /\ rows' \in Seq(Row)
  BY NextType DEF TypeOK
<1>2. CASE DOMAIN rows' = DOMAIN rows
  BY <1>2, PayloadsKept DEF Distinct
<1>3. ASSUME NEW p \in Payloads, Enqueue(p) PROVE i = j
  <2>. DEFINE row == [payload |-> p, status |-> "pending", stamped |-> FALSE, due |-> TRUE]
  <2>1. rows' = Append(rows, row) /\ row \in Row /\ row.payload = p
    BY <1>3 DEF Enqueue, Row, Statuses
  <2>. HIDE DEF row
  <2>2. /\ Len(rows') = Len(rows) + 1 /\ \A n \in 1..Len(rows) : rows'[n] = rows[n]
        /\ rows'[Len(rows) + 1] = row
    BY <1>1, <2>1, AppendProperties
  <2>3. \A n \in 1..Len(rows) : rows[n].payload # p
    BY <1>3, <1>1 DEF Enqueue
  <2>4. i \in 1..(Len(rows) + 1) /\ j \in 1..(Len(rows) + 1) /\ Len(rows) \in Nat
    BY <1>1, <2>2
  <2>5. CASE i \in 1..Len(rows) /\ j \in 1..Len(rows)
    BY <1>1, <2>2, <2>5 DEF Distinct
  <2>6. CASE i \in 1..Len(rows) /\ j = Len(rows) + 1
    BY <2>1, <2>2, <2>3, <2>6
  <2>7. CASE i = Len(rows) + 1 /\ j \in 1..Len(rows)
    BY <2>1, <2>2, <2>3, <2>7
  <2>. QED  BY <2>4, <2>5, <2>6, <2>7
<1>4. ASSUME ~\E p \in Payloads : Enqueue(p) PROVE DOMAIN rows' = DOMAIN rows
  <2>1. ASSUME NEW w \in Workers, Inside(w) PROVE DOMAIN rows' = DOMAIN rows
    <3>1. CASE Claim(w) \/ ClaimRaises(w)
      BY <1>1, <3>1 DEF Claim, ClaimRaises
    <3>2. CASE Defer(w) \/ SkipDuplicate(w) \/ Refuse(w) \/ Mark(w) \/ Raise(w)
      BY <1>1, <3>2 DEF Defer, SkipDuplicate, Refuse, Mark, Raise, Conclude
    <3>3. CASE \/ Leave(w) \/ ToSender(w) \/ Post(w) \/ PostVideo(w) \/ PostWithoutImage(w)
               \/ Orphan(w)
      BY <3>3 DEF Leave, ToSender, Post, PostVideo, PostWithoutImage, Orphan
    <3>. QED  BY <2>1, <3>1, <3>2, <3>3 DEF Inside
  <2>2. ASSUME NEW w \in Workers, Finish(w) PROVE DOMAIN rows' = DOMAIN rows
    BY <2>2 DEF Finish
  <2>3. CASE Environment
    BY <1>1, <1>4, <2>3 DEF Environment, VideoStep, Requeue, RetryDue, Delete
  <2>4. CASE (\E w \in Workers : Begin(w)) \/ Crash \/ UNCHANGED vars
    BY <2>4 DEF Begin, Crash, vars
  <2>. QED  BY <2>1, <2>2, <2>3, <2>4, StepKinds
<1>. QED  BY <1>2, <1>3, <1>4

-----------------------------------------------------------------------------
(* The account of posts by rows.                                           *)

\* A settled row rests.
LEMMA SettledStays ==
  ASSUME TypeOK, Claimed, [Next]_vars, NEW i \in DOMAIN rows, Settled(i)
  PROVE  i \in DOMAIN rows' /\ Settled(i)'
<1>1. i \in DOMAIN rows'
  BY PayloadsKept
<1>2. ASSUME NEW w \in Workers, InHand(w), cur[w] = i PROVE FALSE
  BY <1>2 DEF Claimed, Settled
<1>. QED  BY <1>1, <1>2, StatusMoves DEF Settled

\* The steps after which the database no longer learns of the post of a task.
Loses(w) == Raise(w) \/ Orphan(w) \/ Crash

\* A post in flight stays so, or its row is settled, or it was missed.
LEMMA PostedStays ==
  ASSUME TypeOK, LockInv, [Next]_vars, NEW w \in Workers, Posted(w)
  PROVE  \/ Posted(w)' /\ cur'[w] = cur[w]
         \/ rows'[cur[w]].status = "sent"
         \/ Loses(w)
<1>1. /\ rows \in Seq(Row) /\ pc \in [Workers -> Places] /\ pc[w] \in {"again", "mark"}
      /\ cur[w] \in DOMAIN rows
  BY CurIsRow DEF TypeOK, Posted
<1>2. CASE Environment \/ UNCHANGED vars
  BY <1>2, EnvironmentShape DEF Posted, vars, taskVars
<1>3. ASSUME NEW v \in Workers, v # w PROVE ~Begin(v) /\ ~Inside(v) /\ ~Finish(v)
  <2>1. pc[v] = "idle" /\ lock # None
    BY <1>1, <1>3, OthersIdle, WorkersAssumption DEF LockInv
  <2>. QED  BY <1>1, <2>1, InsideShape DEF Begin, LockFree, Finish
<1>4. ~Begin(w) /\ ~Finish(w)
  BY <1>1 DEF Begin, Finish
<1>5. CASE Inside(w)
  <2>1. CASE Mark(w)
    BY <1>1, <2>1 DEF Mark, Conclude, Concluded
  <2>2. CASE PostVideo(w) \/ PostWithoutImage(w)
    BY <1>1, <2>2 DEF PostVideo, PostWithoutImage, Posted, taskVars
  <2>3. CASE ~(Mark(w) \/ PostVideo(w) \/ PostWithoutImage(w) \/ Loses(w))
    BY <1>1, <1>5, <2>3 DEF Inside, Claim, ClaimRaises, Defer, SkipDuplicate, Leave, ToSender,
       Refuse, Post, Loses
  <2>. QED  BY <2>1, <2>2, <2>3
<1>. QED  BY <1>2, <1>3, <1>4, <1>5, StepKinds DEF Loses

\* Answered rows are rows, hence finitely many.
LEMMA AnsweredFinite ==
  ASSUME TypeOK, NEW k
  PROVE  IsFiniteSet(Answered(k)) /\ Cardinality(Answered(k)) \in Nat
<1>1. Answered(k) \subseteq 1..Len(rows) /\ Len(rows) \in Nat
  BY DEF TypeOK, Answered, RowsOf
<1>2. IsFiniteSet(1..Len(rows))
  BY <1>1, FS_Interval
<1>. QED  BY <1>1, <1>2, FS_Subset, FS_CardinalityType

\* An answered row stays answered, but for the one whose post was missed.
LEMMA AnsweredStays ==
  ASSUME TypeOK, LockInv, Claimed, [Next]_vars, NEW k \in Keys, NEW i \in Answered(k)
  PROVE  \/ i \in Answered(k)'
         \/ \E w \in Workers : Posted(w) /\ cur[w] = i /\ Key(cur[w]) = k /\ Loses(w)
<1>1. i \in DOMAIN rows /\ Key(i) = k
  BY DEF Answered, RowsOf
<1>2. i \in DOMAIN rows' /\ Key(i)' = k
  BY <1>1, PayloadsKept, KeysKept
<1>3. CASE Settled(i)
  BY <1>1, <1>2, <1>3, SettledStays DEF Answered, RowsOf
<1>4. ASSUME NEW w \in Workers, Posted(w), cur[w] = i, ~Loses(w)
      PROVE  i \in Answered(k)'
  <2>1. (Posted(w)' /\ cur'[w] = i) \/ rows'[i].status = "sent"
    BY <1>4, PostedStays
  <2>. QED  BY <1>2, <2>1 DEF Answered, RowsOf, Settled
<1>. QED  BY <1>1, <1>3, <1>4 DEF Answered

\* How the account of a key moves: nothing; a post of a row that was not
\* answered; a post the database misses at once; a post it misses now.
LEMMA PostsMove ==
  ASSUME TypeOK, LockInv, HandInv, [Next]_vars, NEW k \in Keys, KindOf[k] # "ca"
  PROVE  \/ /\ posts'[k] = posts[k] /\ unrecorded'[k] = unrecorded[k]
            /\ ~\E w \in Workers : Posted(w) /\ Key(cur[w]) = k /\ Loses(w)
         \/ /\ posts'[k] = posts[k] + 1 /\ unrecorded'[k] = unrecorded[k]
            /\ \E w \in Workers : pc[w] = "send" /\ Key(cur[w]) = k /\ Post(w)
         \/ /\ posts'[k] = posts[k] + 1 /\ unrecorded'[k] = unrecorded[k] + 1
            /\ ~\E w \in Workers : Posted(w) /\ Key(cur[w]) = k /\ Loses(w)
         \/ /\ posts'[k] = posts[k] /\ unrecorded'[k] = unrecorded[k] + 1
            /\ \E w \in Workers : Posted(w) /\ Key(cur[w]) = k /\ Loses(w)
<1> DEFINE Missed == \E w \in Workers : Posted(w) /\ Key(cur[w]) = k /\ Loses(w)
<1>1. posts \in [Keys -> Nat] /\ unrecorded \in [Keys -> Nat] /\ crashes \in Nat /\ faults \in Nat
  BY BoundsAssumption DEF TypeOK
<1>2. ASSUME NEW w \in Workers, Post(w) \/ PostVideo(w) \/ PostWithoutImage(w), Missed
      PROVE  FALSE
  <2>1. UNCHANGED rows /\ pc'[w] \in {"again", "mark"} /\ crashes' = crashes
    BY <1>2, PostShape DEF Post, PostVideo, PostWithoutImage, faultVars
  <2>2. PICK v \in Workers : Posted(v) /\ Loses(v)
    BY <1>2
  <2>3. ~Crash
    BY <1>1, <2>1 DEF Crash
  <2>4. pc[w] # "idle" /\ pc[v] # "idle" /\ v = w
    BY <1>2, <2>2 DEF Post, PostVideo, PostWithoutImage, Posted, LockInv
  <2>5. pc'[w] = "claim"
    BY <2>2, <2>3, <2>4 DEF Loses, Raise, Orphan, Conclude, TypeOK
  <2>. QED  BY <2>1, <2>5
<1>3. ASSUME NEW w \in Workers, Post(w) \/ PostVideo(w) \/ PostWithoutImage(w)
      PROVE  \/ posts'[k] = posts[k] /\ unrecorded'[k] = unrecorded[k]
             \/ /\ posts'[k] = posts[k] + 1 /\ unrecorded'[k] = unrecorded[k]
                /\ pc[w] = "send" /\ Key(cur[w]) = k /\ Post(w)
             \/ posts'[k] = posts[k] + 1 /\ unrecorded'[k] = unrecorded[k] + 1
  <2>1. posts' = [posts EXCEPT ![Key(cur[w])] = @ + 1] /\ Key(cur[w]) \in Keys
    BY <1>3, PostShape
  <2>2. CASE Key(cur[w]) # k
    BY <1>1, <1>3, <2>1, <2>2 DEF Post, PostVideo, PostWithoutImage
  <2>3. CASE Key(cur[w]) = k
    <3>1. ~PostVideo(w)
      BY <2>3 DEF PostVideo, HandInv, Kind
    <3>. QED  BY <1>1, <1>3, <2>1, <2>3, <3>1 DEF Post, PostWithoutImage
  <2>. QED  BY <2>2, <2>3
<1>4. ASSUME NEW w \in Workers, Raise(w) \/ Orphan(w)
      PROVE  /\ posts'[k] = posts[k]
             /\ unrecorded'[k] = IF Posted(w) /\ Key(cur[w]) = k THEN unrecorded[k] + 1 ELSE unrecorded[k]
  BY <1>1, <1>4 DEF Raise, Orphan, Posted
<1>5. ASSUME NEW w \in Workers, Raise(w) \/ Orphan(w), Missed
      PROVE  Posted(w) /\ Key(cur[w]) = k
  <2>1. PICK v \in Workers : Posted(v) /\ Key(cur[v]) = k /\ Loses(v)
    BY <1>5
  <2>2. v = w
    BY <1>5, <2>1 DEF Raise, Orphan, Posted, LockInv
  <2>. QED  BY <2>1, <2>2
<1>6. CASE Crash
  BY <1>1, <1>6 DEF Crash, Loses
<1>7. ASSUME ~Crash, \A w \in Workers : ~Raise(w) /\ ~Orphan(w) /\ ~Post(w) /\ ~PostVideo(w) /\ ~PostWithoutImage(w)
      PROVE  posts' = posts /\ unrecorded' = unrecorded
  <2>1. ASSUME NEW w \in Workers, Inside(w) PROVE posts' = posts /\ unrecorded' = unrecorded
    BY <1>7, <2>1 DEF Inside, Claim, ClaimRaises, Defer, SkipDuplicate, Leave, ToSender,
       Refuse, Mark, historyVars
  <2>2. ASSUME NEW w \in Workers, Begin(w) \/ Finish(w) PROVE posts' = posts /\ unrecorded' = unrecorded
    BY <2>2 DEF Begin, Finish, historyVars
  <2>. QED  BY <1>7, <2>1, <2>2, EnvironmentShape, StepKinds DEF vars, historyVars
<1>. QED  BY <1>2, <1>3, <1>4, <1>5, <1>6, <1>7 DEF Loses

\* Each post has a row of its own, or was missed.
LEMMA PostsMatchStep ==
  ASSUME TypeOK, LockInv, HandInv, Claimed, [Next]_vars, NEW k \in Keys, PostsMatch(k)
  PROVE  PostsMatch(k)'
<1>. SUFFICES ASSUME KindOf[k] # "ca"
              PROVE  posts'[k] <= Cardinality(Answered(k)') + unrecorded'[k]
  BY DEF PostsMatch
<1>. DEFINE old == Cardinality(Answered(k))
            new == Cardinality(Answered(k)')
<1>1. TypeOK'
  BY NextType
<1>2. IsFiniteSet(Answered(k)) /\ old \in Nat
  BY AnsweredFinite
<1>3. IsFiniteSet(Answered(k)') /\ new \in Nat
  <2>1. Answered(k)' \subseteq 1..Len(rows') /\ Len(rows') \in Nat
    BY <1>1 DEF TypeOK, Answered, RowsOf
  <2>2. IsFiniteSet(1..Len(rows'))
    BY <2>1, FS_Interval
  <2>. QED  BY <2>1, <2>2, FS_Subset, FS_CardinalityType
<1>4. posts[k] \in Nat /\ unrecorded[k] \in Nat /\ posts[k] <= old + unrecorded[k]
  BY DEF TypeOK, PostsMatch
<1>5. ASSUME ~\E w \in Workers : Posted(w) /\ Key(cur[w]) = k /\ Loses(w)
      PROVE  old <= new
  <2>1. Answered(k) \subseteq Answered(k)'
    BY <1>5, AnsweredStays
  <2>. QED  BY <1>3, <2>1, FS_Subset
<1>6. ASSUME NEW w \in Workers, pc[w] = "send", Key(cur[w]) = k, Post(w) PROVE old + 1 <= new
  <2>1. cur[w] \in DOMAIN rows /\ UNCHANGED <<rows, cur>> /\ pc'[w] \in {"again", "mark"}
    BY <1>6, PostShape
  <2>2. cur[w] \notin Answered(k)
    <3>1. ~Settled(cur[w])
      BY <1>6 DEF Claimed, InHand, Settled
    <3>2. \A v \in Workers : ~Posted(v)
      BY <1>6, OthersIdle DEF Posted
    <3>. QED  BY <3>1, <3>2 DEF Answered
  <2>3. cur[w] \in Answered(k)'
    BY <1>6, <2>1 DEF Answered, RowsOf, Posted, Key
  <2>4. Answered(k) \subseteq Answered(k)'
    BY <1>6, <2>1 DEF Answered, RowsOf, Settled, Posted, Key, Post, TypeOK
  <2>5. Cardinality(Answered(k) \cup {cur[w]}) = old + 1
    BY <1>2, <2>2, FS_AddElement
  <2>6. Answered(k) \cup {cur[w]} \subseteq Answered(k)'
    BY <2>3, <2>4
  <2>. QED  BY <1>3, <2>5, <2>6, FS_Subset
<1>7. ASSUME NEW w \in Workers, Posted(w), Key(cur[w]) = k, Loses(w) PROVE old <= new + 1
  <2>1. \A v \in Workers \ {w} : ~Posted(v)
    BY <1>7, OthersIdle DEF Posted
  <2>2. Answered(k) \ {cur[w]} \subseteq Answered(k)'
    BY <2>1, AnsweredStays
  <2>3. Cardinality(Answered(k) \ {cur[w]}) \in {old, old - 1}
    BY <1>2, FS_RemoveElement
  <2>4. Cardinality(Answered(k) \ {cur[w]}) <= new
    BY <1>3, <2>2, FS_Subset
  <2>. QED  BY <1>2, <1>3, <2>3, <2>4
<1>8. \/ /\ posts'[k] = posts[k] /\ unrecorded'[k] = unrecorded[k] /\ old <= new
      \/ /\ posts'[k] = posts[k] + 1 /\ unrecorded'[k] = unrecorded[k] /\ old + 1 <= new
      \/ /\ posts'[k] = posts[k] + 1 /\ unrecorded'[k] = unrecorded[k] + 1 /\ old <= new
      \/ /\ posts'[k] = posts[k] /\ unrecorded'[k] = unrecorded[k] + 1 /\ old <= new + 1
  BY <1>5, <1>6, <1>7, PostsMove
<1>. HIDE DEF old, new
<1>9. posts'[k] <= new + unrecorded'[k]
  BY <1>2, <1>3, <1>4, <1>8
<1>. QED  BY <1>9 DEF new

\* The invariant that adds the account of rows to that of the keys.
THEOREM RowsAccountForPosts == Spec => []CountInv
<1>1. Init => CountInv
  <2>. SUFFICES ASSUME Init PROVE CountInv
    OBVIOUS
  <2>1. IInv /\ TypeOK
    BY InitInv DEF IInv
  <2>2. Claimed /\ Distinct
    BY DEF Init, Claimed, Distinct, InHand
  <2>3. ASSUME NEW k \in Keys PROVE PostsMatch(k)
    <3>1. posts[k] = 0 /\ unrecorded[k] = 0
      BY DEF Init
    <3>. QED  BY <2>1, <3>1, AnsweredFinite DEF PostsMatch
  <2>. QED  BY <2>1, <2>2, <2>3 DEF CountInv
<1>2. CountInv /\ [Next]_vars => CountInv'
  <2>. SUFFICES ASSUME CountInv, [Next]_vars PROVE CountInv'
    OBVIOUS
  <2>1. TypeOK /\ LockInv /\ HandInv /\ Claimed /\ Distinct /\ IInv
    BY DEF CountInv, IInv
  <2>2. IInv'
    BY <2>1, NextInv
  <2>3. Claimed' /\ Distinct'
    BY <2>1, ClaimedStep, DistinctStep
  <2>4. \A k \in Keys : PostsMatch(k)'
    BY <2>1, PostsMatchStep DEF CountInv
  <2>. QED  BY <2>2, <2>3, <2>4 DEF CountInv
<1>. QED  BY <1>1, <1>2, PTL DEF Spec

\* Whatever fails and however often a row is taken up again, a key is posted no
\* more often than it has rows, posts the database missed apart, for every kind
\* but combat achievements (the senders of notification_service.py).
THEOREM OneMessagePerRow == Spec => []OnePostPerRow
<1>1. CountInv => OnePostPerRow
  <2>. SUFFICES ASSUME CountInv, NEW k \in Keys, KindOf[k] # "ca"
                PROVE  posts[k] <= Cardinality(RowsOf(k)) + unrecorded[k]
    BY DEF OnePostPerRow
  <2>1. TypeOK
    BY DEF CountInv, IInv
  <2>2. Cardinality(Answered(k)) \in Nat /\ posts[k] <= Cardinality(Answered(k)) + unrecorded[k]
    BY <2>1, AnsweredFinite DEF CountInv, PostsMatch
  <2>3. /\ IsFiniteSet(RowsOf(k)) /\ Cardinality(RowsOf(k)) \in Nat
    <3>1. RowsOf(k) \subseteq 1..Len(rows) /\ Len(rows) \in Nat
      BY <2>1 DEF TypeOK, RowsOf
    <3>2. IsFiniteSet(1..Len(rows))
      BY <3>1, FS_Interval
    <3>. QED  BY <3>1, <3>2, FS_Subset, FS_CardinalityType
  <2>4. Cardinality(Answered(k)) <= Cardinality(RowsOf(k))
    <3>1. Answered(k) \subseteq RowsOf(k)
      BY DEF Answered
    <3>. QED  BY <2>3, <3>1, FS_Subset
  <2>5. posts[k] \in Nat /\ unrecorded[k] \in Nat
    BY <2>1 DEF TypeOK
  <2>. QED  BY <2>2, <2>3, <2>4, <2>5
<1>. QED  BY <1>1, RowsAccountForPosts, PTL

-----------------------------------------------------------------------------
(* The promise.                                                            *)

\* The queue as DeliveryPromise sees it.
Shown ==
  [i \in DOMAIN rows |->
     [payload |-> rows[i].payload,
      state |-> IF rows[i].status \in {"sent", "failed"} THEN rows[i].status ELSE "queued"]]

\* What the promise is about: nothing fails, and a key with several rows is a
\* drop; combat achievements may be posted twice.
Smooth ==
  /\ MaxFaults = 0 /\ MaxCrashes = 0
  /\ \A k \in Keys : KindOf[k] # "ca"
  /\ \A p, q \in Payloads : KeyOf[p] = KeyOf[q] /\ KindOf[KeyOf[p]] # "drop" => p = q

\* The database knows of every post for a drop that is not deleted.
Recorded == \A k \in Keys \ gone : unrecorded[k] = 0

\* Without faults no post is missed, but for those of deleted drops.
LEMMA NothingFails ==
  ASSUME Smooth, TypeOK
  PROVE  /\ ~Crash
         /\ \A w \in Workers : ~ClaimRaises(w) /\ ~PostWithoutImage(w) /\ ~Raise(w)
<1>1. faults \in 0..0 /\ crashes \in 0..0
  BY DEF TypeOK, Smooth
<1>. QED  BY <1>1 DEF Smooth, Crash, ClaimRaises, PostWithoutImage, Raise

\* Without faults and crashes the database learns of every post until the drop is
\* deleted.
LEMMA RecordedStep ==
  ASSUME Smooth, TypeOK, LockInv, HandInv, Recorded, [Next]_vars
  PROVE  Recorded'
<1>. SUFFICES ASSUME NEW k \in Keys, k \notin gone'
              PROVE  k \notin gone /\ unrecorded'[k] = unrecorded[k]
  BY DEF Recorded
<1>0. k \notin gone
  BY EnvironmentShape, InsideShape, StepKinds DEF Begin, Finish, Crash, vars
<1>1. ASSUME NEW w \in Workers, Inside(w) PROVE unrecorded'[k] = unrecorded[k]
  <2>1. CASE Orphan(w)
    BY <1>0, <2>1 DEF Orphan, TypeOK
  <2>2. CASE ~Orphan(w)
    BY <1>1, <2>2, NothingFails DEF Inside, Claim, Defer, SkipDuplicate, Leave, ToSender,
       Refuse, Post, PostVideo, Mark, historyVars
  <2>. QED  BY <2>1, <2>2
<1>2. ASSUME NEW w \in Workers, Begin(w) \/ Finish(w) PROVE unrecorded' = unrecorded
  BY <1>2 DEF Begin, Finish, historyVars
<1>. QED  BY <1>0, <1>1, <1>2, EnvironmentShape, NothingFails, StepKinds DEF vars, historyVars

\* A key that is no drop has one row.
LEMMA OneRow ==
  ASSUME Smooth, TypeOK, Distinct, NEW i \in DOMAIN rows, NEW j \in DOMAIN rows,
         Key(i) = Key(j), Kind(i) # "drop"
  PROVE  i = j
<1>1. rows[i] \in Row /\ rows[j] \in Row
  BY DEF TypeOK
<1>2. rows[i].payload = rows[j].payload
  BY <1>1 DEF Row, Smooth, Key, Kind
<1>. QED  BY <1>2 DEF Distinct

\* What has not been answered has not been posted, and nothing twice that is not
\* deleted.
LEMMA OnePost ==
  ASSUME Smooth, CountInv, Recorded, NEW i \in DOMAIN rows, Key(i) \notin gone
  PROVE  /\ Key(i) \in Keys
         /\ posts[Key(i)] \in {0, 1}
         /\ (\E w \in Workers : pc[w] = "send" /\ cur[w] = i) => posts[Key(i)] = 0
<1>. DEFINE k == Key(i)
<1>1. TypeOK /\ LockInv /\ HandInv /\ PostInv /\ Claimed /\ Distinct
  BY DEF CountInv, IInv
<1>2. k \in Keys
  <2>1. rows[i] \in Row
    BY <1>1 DEF TypeOK
  <2>. QED  BY <2>1, PayloadAssumption DEF Row, Key
<1>3. posts[k] \in Nat /\ unrecorded[k] = 0
  BY <1>1, <1>2 DEF TypeOK, Recorded
<1>4. CASE KindOf[k] = "drop"
  <2>1. Counted(k)
    BY <1>1, <1>2, PostInvParts
  <2>2. posts[k] <= 1
    BY <1>3, <1>4, <2>1 DEF Counted
  <2>3. ASSUME NEW w \in Workers, pc[w] = "send", cur[w] = i PROVE posts[k] = 0
    <3>1. k \notin notified
      BY <1>1, <1>4, <2>3 DEF HandInv, Kind
    <3>2. ~InFlight(k)
      BY <1>1, <2>3, InFlightIs DEF Posted
    <3>. QED  BY <1>3, <1>4, <2>1, <3>1, <3>2 DEF Counted
  <2>. QED  BY <1>2, <1>3, <2>2, <2>3
<1>5. CASE KindOf[k] # "drop"
  <2>1. Answered(k) \subseteq {i}
    BY <1>1, <1>5, OneRow DEF Answered, RowsOf, Kind
  <2>2. posts[k] <= Cardinality(Answered(k))
    <3>1. posts[k] <= Cardinality(Answered(k)) + unrecorded[k]
      BY <1>2 DEF CountInv, PostsMatch, Smooth
    <3>2. Cardinality(Answered(k)) \in Nat
      BY <1>1, AnsweredFinite
    <3>. QED  BY <1>3, <3>1, <3>2
  <2>3. Answered(k) = {} \/ Answered(k) = {i}
    BY <2>1
  <2>4. Cardinality({}) = 0 /\ Cardinality({i}) = 1
    BY FS_EmptySet, FS_Singleton
  <2>5. ASSUME NEW w \in Workers, pc[w] = "send", cur[w] = i PROVE Answered(k) = {}
    <3>1. ~Settled(i)
      BY <1>1, <2>5 DEF Claimed, InHand, Settled
    <3>2. \A v \in Workers : ~Posted(v)
      BY <1>1, <2>5, OthersIdle DEF Posted
    <3>. QED  BY <2>1, <3>1, <3>2 DEF Answered
  <2>6. posts[k] <= 1
    BY <1>3, <2>2, <2>3, <2>4
  <2>7. Answered(k) = {} => posts[k] = 0
    BY <1>3, <2>2, <2>4
  <2>. QED  BY <1>2, <1>3, <2>5, <2>6, <2>7
<1>. QED  BY <1>4, <1>5

\* Rows that keep their payloads and stay queued or settled as they were look
\* the same.
LEMMA ShownSame ==
  ASSUME DOMAIN rows' = DOMAIN rows,
         \A i \in DOMAIN rows :
           /\ rows'[i].payload = rows[i].payload
           /\ \/ rows'[i].status = rows[i].status
              \/ {rows[i].status, rows'[i].status} \cap {"sent", "failed"} = {}
  PROVE  Shown' = Shown
BY DEF Shown

\* A row that is concluded is settled in the promise, the others stay.
LEMMA ShownSettled ==
  ASSUME TypeOK, Claimed, NEW w \in Workers, InHand(w), NEW st \in {"sent", "failed"},
         NEW stamp \in BOOLEAN, Conclude(w, st, stamp)
  PROVE  /\ cur[w] \in DOMAIN Shown /\ Shown[cur[w]].state = "queued"
         /\ Shown' = [Shown EXCEPT ![cur[w]].state = st]
         /\ Shown[cur[w]].payload = rows[cur[w]].payload
<1>1. cur[w] \in DOMAIN rows /\ rows[cur[w]].status = "processing"
  BY CurIsRow DEF InHand, Claimed
<1>2. rows' = [rows EXCEPT ![cur[w]] = Concluded(rows[cur[w]], st, stamp)] /\ rows \in Seq(Row)
  BY DEF Conclude, TypeOK
<1>3. DOMAIN rows' = DOMAIN rows
  BY <1>2
<1>4. \A i \in DOMAIN rows :
        rows'[i] = IF i = cur[w] THEN Concluded(rows[i], st, stamp) ELSE rows[i]
  BY <1>1, <1>2
<1>5. /\ DOMAIN Shown = DOMAIN rows
      /\ Shown[cur[w]] = [payload |-> rows[cur[w]].payload, state |-> "queued"]
  BY <1>1 DEF Shown
<1>6. Concluded(rows[cur[w]], st, stamp).payload = rows[cur[w]].payload
      /\ Concluded(rows[cur[w]], st, stamp).status = st
  BY DEF Concluded
<1>7. Shown' = [i \in DOMAIN rows |-> IF i = cur[w] THEN [payload |-> rows[i].payload, state |-> st]
                                      ELSE Shown[i]]
  BY <1>1, <1>3, <1>4, <1>6 DEF Shown
<1>8. Shown' = [Shown EXCEPT ![cur[w]].state = st]
  <2>1. [Shown EXCEPT ![cur[w]].state = st] =
          [i \in DOMAIN rows |-> IF i = cur[w] THEN [Shown[i] EXCEPT !.state = st] ELSE Shown[i]]
    BY <1>5 DEF Shown
  <2>2. [Shown[cur[w]] EXCEPT !.state = st] = [payload |-> rows[cur[w]].payload, state |-> st]
    BY <1>5
  <2>. QED  BY <1>7, <2>1, <2>2
<1>. QED  BY <1>1, <1>5, <1>8

\* A row that is queued is queued in the promise.
LEMMA ShownQueued ==
  ASSUME TypeOK, NEW p \in Payloads, Enqueue(p)
  PROVE  Shown' = Append(Shown, [payload |-> p, state |-> "queued"])
<1>. DEFINE row == [payload |-> p, status |-> "pending", stamped |-> FALSE, due |-> TRUE]
            new == [payload |-> p, state |-> "queued"]
            R == [payload : Payloads, state : {"queued", "sent", "failed"}]
<1>1. rows \in Seq(Row) /\ row \in Row /\ rows' = Append(rows, row) /\ Len(rows) \in Nat
  BY DEF TypeOK, Enqueue, Row, Statuses
<1>2. /\ DOMAIN rows = 1..Len(rows) /\ DOMAIN rows' = 1..(Len(rows) + 1)
      /\ \A i \in 1..Len(rows) : rows[i] \in Row /\ rows'[i] = rows[i]
      /\ rows'[Len(rows) + 1] = row
  BY <1>1, AppendProperties
<1>3. Shown \in Seq(R) /\ Len(Shown) = Len(rows) /\ new \in R
  <2>1. Shown \in [1..Len(rows) -> R]
    BY <1>2 DEF Shown, Row
  <2>2. new \in R
    OBVIOUS
  <2>. HIDE DEF R, new
  <2>. QED  BY <1>1, <2>1, <2>2
<1>4. /\ Append(Shown, new) \in Seq(R) /\ Len(Append(Shown, new)) = Len(rows) + 1
      /\ \A i \in 1..Len(rows) : Append(Shown, new)[i] = Shown[i]
      /\ Append(Shown, new)[Len(rows) + 1] = new
  BY <1>3, AppendProperties
<1>5. /\ DOMAIN Shown' = 1..(Len(rows) + 1)
      /\ \A i \in 1..Len(rows) : Shown'[i] = Shown[i]
      /\ Shown'[Len(rows) + 1] = new
  BY <1>1, <1>2 DEF Shown
<1>6. Append(Shown, new) = [i \in 1..(Len(rows) + 1) |-> Append(Shown, new)[i]]
  BY <1>4
<1>7. Shown' = [i \in 1..(Len(rows) + 1) |-> Shown'[i]]
  BY <1>5 DEF Shown
<1>8. \A i \in 1..(Len(rows) + 1) : Shown'[i] = Append(Shown, new)[i]
  BY <1>1, <1>4, <1>5
<1>. QED  BY <1>6, <1>7, <1>8

\* The four operations of the promise, told by what is shown.
LEMMA PromiseAccepts ==
  ASSUME NEW p \in Payloads, posts' = posts, gone' = gone,
         Shown' = Append(Shown, [payload |-> p, state |-> "queued"])
  PROVE  Promise!Next
BY DEF Shown, Promise!Next, Promise!Accept

LEMMA PromiseDelivers ==
  ASSUME NEW i \in DOMAIN Shown, Shown[i].state = "queued",
         NEW k \in Keys, KeyOf[Shown[i].payload] = k, posts[k] = 0 \/ k \in gone,
         posts' = [posts EXCEPT ![k] = @ + 1], Shown' = Shown, gone' = gone
  PROVE  Promise!Next
BY DEF Shown, Promise!Next, Promise!Deliver

LEMMA PromiseWithdraws ==
  ASSUME NEW k \in Keys, posts[k] > 0, Shown' = Shown, posts' = posts,
         gone' = gone \cup ShownWith(k)
  PROVE  Promise!Next
BY DEF Shown, ShownWith, Promise!Next, Promise!Withdraw

LEMMA PromiseSettles ==
  ASSUME NEW i \in DOMAIN Shown, Shown[i].state = "queued",
         NEW st \in {"sent", "failed"},
         st = "sent" => posts[KeyOf[Shown[i].payload]] > 0,
         Shown' = [Shown EXCEPT ![i].state = st], posts' = posts, gone' = gone
  PROVE  Promise!Next
BY DEF Shown, Promise!Next, Promise!Settle

\* Steps that conclude no row and post nothing do not show.
LEMMA Unseen ==
  ASSUME Smooth, TypeOK, Claimed,
         \/ \E v \in Videos : VideoStep(v, VideoMoves \cup VideoEnds) \/ Requeue(v)
         \/ \E i \in DOMAIN rows : RetryDue(i)
         \/ \E w \in Workers : Begin(w) \/ Claim(w) \/ Defer(w) \/ Leave(w)
                               \/ ToSender(w) \/ Orphan(w) \/ Finish(w)
         \/ UNCHANGED vars
  PROVE  UNCHANGED <<Shown, posts, gone>>
<1>. DEFINE Alike == /\ DOMAIN rows' = DOMAIN rows
                     /\ \A i \in DOMAIN rows :
                          /\ rows'[i].payload = rows[i].payload
                          /\ \/ rows'[i].status = rows[i].status
                             \/ {rows[i].status, rows'[i].status} \cap {"sent", "failed"} = {}
<1>1. rows \in Seq(Row) /\ \A i \in DOMAIN rows : rows[i] \in Row
  BY DEF TypeOK
<1>2. rows' = rows => Alike
  OBVIOUS
<1>3. CASE \E v \in Videos : VideoStep(v, VideoMoves \cup VideoEnds) \/ Requeue(v)
  BY <1>2, <1>3, ShownSame DEF VideoStep, Requeue, historyVars
<1>4. ASSUME NEW i \in DOMAIN rows, RetryDue(i) PROVE UNCHANGED <<Shown, posts, gone>>
  <2>1. Alike
    BY <1>1, <1>4 DEF RetryDue, Row
  <2>. QED  BY <1>4, <2>1, ShownSame DEF RetryDue, historyVars
<1>5. ASSUME NEW w \in Workers, Begin(w) \/ Leave(w) \/ ToSender(w) \/ Orphan(w)
      PROVE  UNCHANGED <<Shown, posts, gone>>
  BY <1>2, <1>5, ShownSame DEF Begin, Leave, ToSender, Orphan, historyVars
<1>6. ASSUME NEW w \in Workers, Claim(w) PROVE UNCHANGED <<Shown, posts, gone>>
  <2>1. Alike
    <3>1. CASE rows' = rows
      BY <1>2, <3>1
    <3>2. ASSUME NEW i \in batch[w], rows[i].status \in {"pending", "video_processing"},
                 rows' = [rows EXCEPT ![i].status = "processing"]
          PROVE  Alike
      BY <1>1, <3>2 DEF Row
    <3>. QED  BY <1>6, <3>1, <3>2 DEF Claim
  <2>. QED  BY <1>6, <2>1, ShownSame DEF Claim, historyVars
<1>7. ASSUME NEW w \in Workers, Defer(w) PROVE UNCHANGED <<Shown, posts, gone>>
  <2>1. rows[cur[w]].status = "processing"
    BY <1>7 DEF Defer, Claimed, InHand
  <2>2. Alike
    BY <1>1, <1>7, <2>1 DEF Defer, Conclude, Concluded, Row
  <2>. QED  BY <1>7, <2>2, ShownSame DEF Defer, historyVars
<1>8. ASSUME NEW w \in Workers, Finish(w) PROVE UNCHANGED <<Shown, posts, gone>>
  <2>1. Alike
    <3>1. CASE rows' = rows
      BY <1>2, <3>1
    <3>2. CASE rows' = [i \in DOMAIN rows |->
                          IF IsStuck(i) THEN [rows[i] EXCEPT !.status = "pending"] ELSE rows[i]]
      BY <1>1, <3>2 DEF IsStuck, Row
    <3>. QED  BY <1>8, <3>1, <3>2 DEF Finish
  <2>. QED  BY <1>8, <2>1, ShownSame DEF Finish, historyVars
<1>9. CASE UNCHANGED vars
  BY <1>2, <1>9, ShownSame DEF vars, historyVars
<1>. QED  BY <1>3, <1>4, <1>5, <1>6, <1>7, <1>8, <1>9

\* Every step of the dispatcher is a step of the promise, or does not show.
LEMMA PromiseStep ==
  ASSUME Smooth, CountInv, Recorded, [Next]_vars
  PROVE  Promise!Next \/ UNCHANGED <<Shown, posts, gone>>
<1>1. TypeOK /\ LockInv /\ HandInv /\ PostInv /\ Claimed
  BY DEF CountInv, IInv
<1>2. ASSUME NEW p \in Payloads, Enqueue(p) PROVE Promise!Next
  BY <1>1, <1>2, ShownQueued, PromiseAccepts DEF Enqueue, historyVars
<1>3. ASSUME NEW w \in Workers, InHand(w)
      PROVE  /\ cur[w] \in DOMAIN rows /\ cur[w] \in DOMAIN Shown
             /\ Shown[cur[w]].state = "queued"
             /\ KeyOf[Shown[cur[w]].payload] = Key(cur[w])
             /\ Key(cur[w]) \in Keys
  <2>1. cur[w] \in DOMAIN rows /\ rows[cur[w]].status = "processing"
    BY <1>1, <1>3, CurIsRow DEF InHand, Claimed
  <2>. QED  BY <1>1, <1>3, <2>1, CurIsRow DEF InHand, Shown, Key
<1>4. ASSUME NEW w \in Workers, Post(w) PROVE Promise!Next
  <2>1. InHand(w) /\ (posts[Key(cur[w])] = 0 \/ Key(cur[w]) \in gone)
    BY <1>3, <1>4, OnePost DEF Post, InHand
  <2>2. /\ posts' = [posts EXCEPT ![Key(cur[w])] = @ + 1]
        /\ rows' = rows /\ gone' = gone
    BY <1>4, <2>1 DEF Post
  <2>3. Shown' = Shown
    BY <2>2, ShownSame
  <2>. QED  BY <1>3, <2>1, <2>2, <2>3, PromiseDelivers
<1>5. ASSUME NEW w \in Workers, PostVideo(w) PROVE FALSE
  <2>1. Kind(cur[w]) = "ca" /\ Key(cur[w]) \in Keys
    BY <1>1, <1>3, <1>5 DEF HandInv, PostVideo, InHand
  <2>. QED  BY <2>1 DEF Kind, Smooth
<1>6. ASSUME NEW w \in Workers, Refuse(w) PROVE Promise!Next
  <2>1. /\ InHand(w) /\ Conclude(w, "failed", FALSE)
        /\ posts' = posts /\ gone' = gone
    BY <1>6 DEF Refuse, InHand, historyVars
  <2>2. Shown' = [Shown EXCEPT ![cur[w]].state = "failed"]
    BY <1>1, <2>1, ShownSettled
  <2>. QED  BY <1>3, <2>1, <2>2, PromiseSettles
<1>7. ASSUME NEW w \in Workers, SkipDuplicate(w) \/ Mark(w) PROVE Promise!Next
  <2>1. /\ InHand(w) /\ Conclude(w, "sent", TRUE)
        /\ posts' = posts /\ gone' = gone
    BY <1>7 DEF SkipDuplicate, Mark, InHand, historyVars
  <2>2. Shown' = [Shown EXCEPT ![cur[w]].state = "sent"]
    BY <1>1, <2>1, ShownSettled
  <2>3. posts[Key(cur[w])] > 0
    BY <1>1, <1>3, <1>7, <2>1 DEF SkipDuplicate, AlreadySent, PostInv, Mark, HandInv, Posted
  <2>. QED  BY <1>3, <2>1, <2>2, <2>3, PromiseSettles
<1>8. ~Crash /\ \A w \in Workers : ~ClaimRaises(w) /\ ~PostWithoutImage(w) /\ ~Raise(w)
  BY <1>1, NothingFails
<1>9. CASE Environment
  <2>1. ASSUME NEW k \in Keys, Delete(k) PROVE Promise!Next
    <3>1. posts[k] > 0
      BY <1>1, <2>1 DEF Delete, PostInv
    <3>2. Shown' = Shown
      BY <2>1, ShownSame DEF Delete
    <3>. QED  BY <2>1, <3>1, <3>2, PromiseWithdraws DEF Delete, historyVars
  <2>. QED  BY <1>1, <1>2, <1>9, <2>1, Unseen DEF Environment
<1>10. ASSUME NEW w \in Workers, Inside(w) PROVE Promise!Next \/ UNCHANGED <<Shown, posts, gone>>
  BY <1>1, <1>4, <1>5, <1>6, <1>7, <1>8, <1>10, Unseen DEF Inside
<1>. QED  BY <1>1, <1>8, <1>9, <1>10, StepKinds, Unseen

\* Nothing failing, the queue keeps what DeliveryPromise promises, whatever the
\* tasks, the order of rows and their number for one drop, the batch size and
\* the moves of the videos: the docs' account of Phase 3 and of the table
\* notified is what the dispatcher does, with drops that may be withdrawn.
THEOREM PromiseIsKept == Smooth => (Spec => KeepsPromise)
<1>. SUFFICES ASSUME Smooth PROVE Spec => KeepsPromise
  OBVIOUS
<1>1. Init => Recorded /\ Promise!Init
  <2>. SUFFICES ASSUME Init PROVE Recorded /\ Promise!Init
    OBVIOUS
  <2>1. rows = <<>> /\ posts = [k \in Keys |-> 0] /\ gone = {} /\ Recorded
    BY DEF Init, Recorded
  <2>. QED  BY <2>1 DEF Promise!Init
<1>2. TypeOK /\ LockInv /\ HandInv /\ Recorded /\ [Next]_vars => Recorded'
  BY RecordedStep
<1>3. CountInv => TypeOK /\ LockInv /\ HandInv
  BY DEF CountInv, IInv
<1>4. Spec => []Recorded
  BY <1>1, <1>2, <1>3, RowsAccountForPosts, PTL DEF Spec
<1>5. CountInv /\ Recorded /\ [Next]_vars => [Promise!Next]_<<Shown, posts, gone>>
  BY PromiseStep
<1>. QED  BY <1>1, <1>4, <1>5, RowsAccountForPosts, PTL DEF Spec, KeepsPromise, Promise!Spec, Shown
=============================================================================
