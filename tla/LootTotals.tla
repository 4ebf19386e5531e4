----------------------------- MODULE LootTotals -----------------------------
(***************************************************************************)
(* A player's loot in Redis (services/redis_updates.py), told of each drop *)
(* by drop_processor and rebuilt from the table drops by the updater       *)
(* (player_total_update.py), by the bulk script and after an               *)
(* administrator's change (services/entry_modifier.py).                    *)
(*                                                                         *)
(* A total is the set of drops it counts, with how often: loot[m][d] is    *)
(* how often the total of month m of d's owner counts d.  The processes    *)
(* share nothing but the table and Redis; each pipeline of Redis is one    *)
(* action, and what a rebuild knows of the table is its transaction's      *)
(* snapshot.  The boards of the player's groups are written together with  *)
(* the global board and are not told apart from it here.                   *)
(***************************************************************************)
EXTENDS Naturals, FiniteSets

CONSTANTS
  Players,
  Drops,       \* bound: rows ever inserted
  Jobs,        \* threads that rebuild, one player at a time
  Updaters,    \* those of player_total_update.py: one tracker for all
  Admins,      \* those of entry_modifier.py: a tracker of its own for each call
  Nobody,      \* the player of a job that has none
  MaxMonth,    \* bound: months that begin
  MaxFaults    \* bound: failures of Redis, ends and exceptions of rebuilds

ASSUME LootAssumption ==
  /\ Updaters \subseteq Jobs
  /\ Admins \subseteq Jobs
  /\ Updaters \cap Admins = {}
  /\ Nobody \notin Players
  /\ MaxMonth \in Nat \ {0}
  /\ MaxFaults \in Nat

Months == 1..MaxMonth

VARIABLES
  month,      \* the current partition
  owner,      \* whose each drop is
  at,         \* where the handling of each drop is
  partition,  \* the month in a drop's row (0 before there is one)
  hidden,     \* rows an administrator has hidden
  loot,       \* player:{id}:{month}:total_loot
  allTime,    \* player:{id}:all:total_loot
  board,      \* leaderboard:{month}
  boardAll,   \* leaderboard:all
  stage,      \* where each job is
  who,        \* whom it rebuilds
  snap,       \* the drops of theirs its snapshot shows
  todo,       \* the months it has still to write
  excused,    \* history: drops that met a failure, a race or a month's end
  faults

table == <<month, owner, at, partition, hidden>>
keys == <<loot, allTime>>
boards == <<board, boardAll>>
jobs == <<stage, who, snap, todo>>
vars == <<table, keys, boards, jobs, excused, faults>>

\* From the insertion of the row to the end of its transaction.
Counted == {"keys", "boards", "told"}
Open == {"open"} \cup Counted
Places == {"none", "stored", "undone", "deleted"} \cup Open
Stages == {"idle", "changed", "read", "begun", "cleared", "keys", "boards"}

TypeOK ==
  /\ month \in Months
  /\ owner \in [Drops -> Players]
  /\ at \in [Drops -> Places]
  /\ partition \in [Drops -> 0..MaxMonth]
  /\ hidden \in SUBSET Drops
  /\ loot \in [Months -> [Drops -> Nat]]
  /\ allTime \in [Drops -> Nat]
  /\ board \in [Months -> [Drops -> Nat]]
  /\ boardAll \in [Drops -> Nat]
  /\ stage \in [Jobs -> Stages]
  /\ who \in [Jobs -> Players \cup {Nobody}]
  /\ snap \in [Jobs -> SUBSET Drops]
  /\ todo \in [Jobs -> SUBSET Months]
  /\ excused \in SUBSET Drops
  /\ faults \in 0..MaxFaults
  /\ \A j \in Jobs : stage[j] = "idle" <=> who[j] = Nobody

Nothing == [d \in Drops |-> 0]

Init ==
  /\ month = 1
  /\ owner \in [Drops -> Players]
  /\ at = [d \in Drops |-> "none"]
  /\ partition = Nothing
  /\ hidden = {}
  /\ loot = [m \in Months |-> Nothing]
  /\ allTime = Nothing
  /\ board = [m \in Months |-> Nothing]
  /\ boardAll = Nothing
  /\ stage = [j \in Jobs |-> "idle"]
  /\ who = [j \in Jobs |-> Nobody]
  /\ snap = [j \in Jobs |-> {}]
  /\ todo = [j \in Jobs |-> {}]
  /\ excused = {}
  /\ faults = 0

Of(p) == {d \in Drops : owner[d] = p}
Visible(d) == at[d] = "stored" /\ d \notin hidden

\* A job has its snapshot of the table, and has still to write.
UnderWay(j) == stage[j] \notin {"idle", "changed"}
Rebuilding(p) == \E j \in Jobs : who[j] = p /\ UnderWay(j)

Excuse(ds) == excused' = excused \cup ds
OneFault == faults < MaxFaults /\ faults' = faults + 1

-----------------------------------------------------------------------------
(* A drop.                                                                 *)

\* create_drop_object flushes the row; its month is the present one.
Insert(d) ==
  /\ at[d] = "none"
  /\ at' = [at EXCEPT ![d] = "open"]
  /\ partition' = [partition EXCEPT ![d] = month]
  /\ UNCHANGED <<month, owner, hidden, keys, boards, jobs, excused, faults>>

\* What incrby and zincrby do.
Added(total, d) == [total EXCEPT ![d] = @ + 1]

Uncounted_Late == {"open", "stored"}
Uncounted == {"open"}

\* Counting while a rebuild is under way, or into another month than the row's.
Unlucky(d) == Rebuilding(owner[d]) \/ partition[d] # month
CountedWithLuck(d) == IF Unlucky(d) THEN Excuse({d}) ELSE UNCHANGED excused

\* The player's keys, in one pipeline, of the month it is now.  The tracker of
\* this process rebuilds nobody, so its _processing_players is empty.
CountKeys(d) ==
  /\ at[d] \in Uncounted
  /\ at' = [at EXCEPT ![d] = "keys"]
  /\ loot' = [loot EXCEPT ![month] = Added(@, d)]
  /\ allTime' = Added(allTime, d)
  /\ CountedWithLuck(d)
  /\ UNCHANGED <<month, owner, partition, hidden, boards, jobs, faults>>

\* The monthly boards, in a second one; the month is asked for again.
CountBoard(d) ==
  /\ at[d] = "keys"
  /\ at' = [at EXCEPT ![d] = "boards"]
  /\ board' = [board EXCEPT ![month] = Added(@, d)]
  /\ CountedWithLuck(d)
  /\ UNCHANGED <<month, owner, partition, hidden, keys, boardAll, jobs, faults>>

\* The week's, the day's and the all-time board in a third, whose failure is
\* swallowed.
CountAllTimeBoard(d) ==
  /\ at[d] = "boards"
  /\ at' = [at EXCEPT ![d] = "told"]
  /\ \/ boardAll' = Added(boardAll, d) /\ UNCHANGED faults
     \/ OneFault /\ UNCHANGED boardAll
  /\ UNCHANGED <<month, owner, partition, hidden, keys, board, jobs, excused>>

\* A pipeline fails, executed or not: add_to_player gives up and says False,
\* which its caller does not read.
CountFails(d) ==
  /\ at[d] \in {"open", "keys"}
  /\ OneFault
  /\ at' = [at EXCEPT ![d] = "told"]
  /\ \/ UNCHANGED <<loot, allTime, board>>
     \/ /\ at[d] = "open"
        /\ loot' = [loot EXCEPT ![month] = Added(@, d)]
        /\ allTime' = Added(allTime, d)
        /\ UNCHANGED board
     \/ /\ at[d] = "keys"
        /\ board' = [board EXCEPT ![month] = Added(@, d)]
        /\ UNCHANGED keys
  /\ Excuse({d})
  /\ UNCHANGED <<month, owner, partition, hidden, boardAll, jobs>>

\* The processor's caller ends the transaction, after the counting.
Commit(d) ==
  /\ at[d] = "told"
  /\ at' = [at EXCEPT ![d] = "stored"]
  /\ UNCHANGED <<month, owner, partition, hidden, keys, boards, jobs, excused, faults>>

\* An exception or a crash: the row is gone, what Redis was told remains.
RollBack(d) ==
  /\ at[d] \in Open
  /\ at' = [at EXCEPT ![d] = "undone"]
  /\ IF at[d] = "open" THEN UNCHANGED excused ELSE Excuse({d})
  /\ UNCHANGED <<month, owner, partition, hidden, keys, boards, jobs, faults>>

-----------------------------------------------------------------------------
(* An administrator's change, which the same job follows with a rebuild.   *)

\* The row is changed and committed.
Change(j, d) ==
  /\ j \in Admins
  /\ stage[j] = "idle"
  /\ at[d] = "stored"
  /\ stage' = [stage EXCEPT ![j] = "changed"]
  /\ who' = [who EXCEPT ![j] = owner[d]]
  /\ IF Rebuilding(owner[d]) THEN Excuse({d}) ELSE UNCHANGED excused
  /\ UNCHANGED <<month, owner, partition, keys, boards, snap, todo, faults>>

HideToggle(j, d) ==
  /\ Change(j, d)
  /\ hidden' = IF d \in hidden THEN hidden \ {d} ELSE hidden \cup {d}
  /\ UNCHANGED at

Delete(j, d) ==
  /\ Change(j, d)
  /\ at' = [at EXCEPT ![d] = "deleted"]
  /\ UNCHANGED hidden

-----------------------------------------------------------------------------
(* A rebuild: force_update_player.                                         *)

\* Drop.hidden != True, of the rows that are committed.
InSnapshot_Dirty(d) == at[d] \in {"stored", "told"} /\ d \notin hidden
InSnapshot_AlsoHidden(d) == at[d] = "stored"
InSnapshot(d) == Visible(d)

Advance(j, place) == stage' = [stage EXCEPT ![j] = place]

\* The player is unmarked, however the rebuild ends.
EndJob_KeepsMark(j) ==
  /\ Advance(j, "idle")
  /\ UNCHANGED who
  /\ snap' = [snap EXCEPT ![j] = {}]
  /\ todo' = [todo EXCEPT ![j] = {}]
EndJob(j) ==
  /\ Advance(j, "idle")
  /\ who' = [who EXCEPT ![j] = Nobody]
  /\ snap' = [snap EXCEPT ![j] = {}]
  /\ todo' = [todo EXCEPT ![j] = {}]

\* The updater and the bulk script take up any player, one after the other.
Free(j) == j \notin Admins /\ stage[j] = "idle"

\* The session's first query: the snapshot.  Drops that Redis has been told of
\* and the table does not show yet will be forgotten.
Read(j, p) ==
  /\ Free(j) \/ (stage[j] = "changed" /\ who[j] = p)
  /\ Advance(j, "read")
  /\ who' = [who EXCEPT ![j] = p]
  /\ snap' = [snap EXCEPT ![j] = {d \in Of(p) : InSnapshot(d)}]
  /\ Excuse({d \in Of(p) : at[d] \in Counted})
  /\ UNCHANGED <<table, keys, boards, todo, faults>>

\* The tracker marks the player, or says False at once.
Marked(p) ==
  \E k \in Updaters : who[k] = p /\ stage[k] \notin {"idle", "changed", "read"}
Begin(j) ==
  /\ stage[j] = "read"
  /\ IF j \in Updaters /\ Marked(who[j]) THEN EndJob(j)
     ELSE Advance(j, "begun") /\ UNCHANGED <<who, snap, todo>>
  /\ UNCHANGED <<table, keys, boards, excused, faults>>

\* SET and ZADD of a player's total; deleting a key is the same with no drops.
Written_Increments(total, p, ds) ==
  [d \in Drops |-> IF d \in ds THEN total[d] + 1 ELSE total[d]]
Written(total, p, ds) ==
  [d \in Drops |-> IF owner[d] # p THEN total[d] ELSE IF d \in ds THEN 1 ELSE 0]

\* _clear_player_redis_data: every key of the player.
Clear(j) ==
  /\ stage[j] = "begun"
  /\ Advance(j, "cleared")
  /\ loot' = [m \in Months |-> Written(loot[m], who[j], {})]
  /\ allTime' = Written(allTime, who[j], {})
  /\ UNCHANGED <<table, boards, who, snap, todo, excused, faults>>

MonthsOf(ds) == {partition[d] : d \in ds}

\* _remove_from_leaderboards: the boards of the current month.  Without any
\* drops this is the end.
Remove(j) ==
  /\ stage[j] = "cleared"
  /\ board' = [board EXCEPT ![month] = Written(@, who[j], {})]
  /\ IF snap[j] = {} THEN EndJob(j)
     ELSE /\ Advance(j, "keys")
          /\ todo' = [todo EXCEPT ![j] = MonthsOf(snap[j])]
          /\ UNCHANGED <<who, snap>>
  /\ UNCHANGED <<table, keys, boardAll, excused, faults>>

\* The months come in the order of their first drops.
Turn(j, m) == m \in todo[j] /\ \A n \in todo[j] : m <= n
Rows(j, m) == {d \in snap[j] : partition[d] = m}

\* _rebuild_partition_data: SET for the month, and for all time as well.
SetKeys(j, m) ==
  /\ stage[j] = "keys"
  /\ Turn(j, m)
  /\ Advance(j, "boards")
  /\ loot' = [loot EXCEPT ![m] = Written(@, who[j], Rows(j, m))]
  /\ allTime' = Written(allTime, who[j], Rows(j, m))
  /\ UNCHANGED <<table, boards, who, snap, todo, excused, faults>>

\* update_leaderboards; after the last month the job is done.
SetBoard(j, m) ==
  /\ stage[j] = "boards"
  /\ Turn(j, m)
  /\ board' = [board EXCEPT ![m] = Written(@, who[j], Rows(j, m))]
  /\ IF todo[j] = {m} THEN EndJob(j)
     ELSE /\ Advance(j, "keys")
          /\ todo' = [todo EXCEPT ![j] = @ \ {m}]
          /\ UNCHANGED <<who, snap>>
  /\ UNCHANGED <<table, keys, boardAll, excused, faults>>

\* An exception, which force_update_player turns into False, or a crash: what
\* was deleted stays deleted, and after a change nothing was rebuilt.
Harmless(j) == j \notin Admins /\ stage[j] \in {"read", "begun"}
JobFails(j) ==
  /\ stage[j] # "idle"
  /\ OneFault
  /\ EndJob(j)
  /\ IF Harmless(j) THEN UNCHANGED excused ELSE Excuse(Of(who[j]))
  /\ UNCHANGED <<table, keys, boards>>

NextMonth ==
  /\ month < MaxMonth
  /\ month' = month + 1
  /\ UNCHANGED <<owner, at, partition, hidden, keys, boards, jobs, excused, faults>>

-----------------------------------------------------------------------------
Handle(d) ==
  \/ Insert(d) \/ CountKeys(d) \/ CountBoard(d) \/ CountAllTimeBoard(d)
  \/ CountFails(d) \/ Commit(d) \/ RollBack(d)

Rebuild(j) ==
  \/ \E p \in Players : Read(j, p)
  \/ Begin(j) \/ Clear(j) \/ Remove(j) \/ JobFails(j)
  \/ \E m \in Months : SetKeys(j, m) \/ SetBoard(j, m)

Next ==
  \/ \E d \in Drops : Handle(d)
  \/ \E j \in Jobs, d \in Drops : HideToggle(j, d) \/ Delete(j, d)
  \/ \E j \in Jobs : Rebuild(j)
  \/ NextMonth

Spec == Init /\ [][Next]_vars

-----------------------------------------------------------------------------
(* Properties.                                                             *)

\* No total and no board counts a drop twice, however increments and rebuilds
\* of several processes interleave: a drop is counted before its row can be
\* read, so a rebuild that saw it is never followed by its increment.
CountedOnce ==
  \A d \in Drops :
    /\ \A m \in Months : loot[m][d] <= 1 /\ board[m][d] <= 1
    /\ allTime[d] <= 1
    /\ boardAll[d] <= 1

\* A drop whose transaction was rolled back may linger in the totals until the
\* next rebuild; once it is out of one, no rebuild puts it back.
ForgottenStaysForgotten ==
  [][\A d \in Drops : at[d] = "undone" =>
       /\ \A m \in Months : loot'[m][d] <= loot[m][d] /\ board'[m][d] <= board[m][d]
       /\ allTime'[d] <= allTime[d]]_vars

\* When nothing is under way for a player, every drop that met no failure, no
\* race and no month's end is exactly where the table says: in its month's total
\* and on the current board if it is visible, in no total if it is not.  The
\* excuses are all the reasons for which an incremental update and a rebuild can
\* disagree.
Quiet(p) == \A j \in Jobs : who[j] # p
Settled(d) == at[d] \notin Open
Right(d) ==
  /\ \A m \in Months :
       loot[m][d] = IF Visible(d) /\ partition[d] = m THEN 1 ELSE 0
  /\ board[month][d] = IF Visible(d) /\ partition[d] = month THEN 1 ELSE 0
  /\ Visible(d) \/ allTime[d] = 0
ExactWhenQuiet ==
  \A p \in Players : Quiet(p) =>
    \A d \in Of(p) \ excused : Settled(d) => Right(d)

-----------------------------------------------------------------------------
(* What comments say, and the code does not do.                            *)

\* "Handles both incremental updates and force updates with concurrency safety"
\* (redis_updates 59): without a failure, a drop that is stored and visible is
\* in its month's total once nothing is under way.
NothingLost ==
  \A d \in Drops :
    Visible(d) /\ Quiet(owner[d]) => loot[partition[d]][d] = 1

=============================================================================
