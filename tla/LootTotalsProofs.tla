-------------------------- MODULE LootTotalsProofs --------------------------
(* Theorems about LootTotals, for any number of players, drops, jobs and    *)
(* months, and any number of faults.                                        *)
EXTENDS LootTotals, TLAPS

-----------------------------------------------------------------------------
(* Types.                                                                  *)

\* What a pipeline makes of a total is a total.
LEMMA WrittenType ==
  ASSUME TypeOK, NEW total \in [Drops -> Nat], NEW p, NEW ds
  PROVE  Written(total, p, ds) \in [Drops -> Nat]
  BY DEF Written

LEMMA AddedType ==
  ASSUME NEW total \in [Drops -> Nat], NEW d \in Drops
  PROVE  Added(total, d) \in [Drops -> Nat]
  BY DEF Added

\* What the table and the snapshots are to each other: a row has a month that has
\* begun, only committed rows are hidden or seen, and a job writes the months of
\* the drops it saw.
TableInv ==
  /\ \A d \in Drops :
       /\ at[d] = "none" \/ partition[d] \in 1..month
       /\ d \in hidden => at[d] \in {"stored", "deleted"}
  /\ \A j \in Jobs :
       /\ \A d \in snap[j] : at[d] \in {"stored", "deleted"} /\ owner[d] = who[j]
       /\ todo[j] \subseteq MonthsOf(snap[j])
       /\ stage[j] \notin {"keys", "boards"} => todo[j] = {}

\* Months are natural numbers.
LEMMA MonthType == Months \subseteq Nat /\ 1 \in Months
  BY LootAssumption DEF Months

LEMMA TypeInit == Init => TypeOK
  BY LootAssumption, MonthType
  DEF Init, TypeOK, Nothing, Places, Stages, Open, Counted

\* The handling of a drop.
LEMMA TypeHandle ==
  ASSUME TypeOK, NEW d \in Drops, Handle(d)
  PROVE  TypeOK'
<1> USE LootAssumption, MonthType
<1>1. CASE Insert(d)
  <2>1. partition' \in [Drops -> 0..MaxMonth]
    BY <1>1 DEF Insert, TypeOK, Months
  <2>2. QED
    BY <1>1, <2>1 DEF Insert, TypeOK, Places, Open, Counted, keys, boards, jobs
<1>2. CASE CountKeys(d)
  <2>1. loot' \in [Months -> [Drops -> Nat]] /\ allTime' \in [Drops -> Nat]
    BY <1>2, AddedType DEF CountKeys, TypeOK
  <2>2. excused' \in SUBSET Drops
    BY <1>2 DEF CountKeys, CountedWithLuck, Excuse, TypeOK
  <2>3. QED
    BY <1>2, <2>1, <2>2 DEF CountKeys, TypeOK, Places, Open, Counted, boards, jobs
<1>3. CASE CountBoard(d)
  <2>1. board' \in [Months -> [Drops -> Nat]]
    BY <1>3, AddedType DEF CountBoard, TypeOK
  <2>2. excused' \in SUBSET Drops
    BY <1>3 DEF CountBoard, CountedWithLuck, Excuse, TypeOK
  <2>3. QED
    BY <1>3, <2>1, <2>2 DEF CountBoard, TypeOK, Places, Open, Counted, keys, jobs
<1>4. CASE CountAllTimeBoard(d)
  <2>1. boardAll' \in [Drops -> Nat]
    BY <1>4, AddedType DEF CountAllTimeBoard, TypeOK
  <2>2. faults' \in 0..MaxFaults
    BY <1>4 DEF CountAllTimeBoard, OneFault, TypeOK
  <2>3. QED
    BY <1>4, <2>1, <2>2 DEF CountAllTimeBoard, TypeOK, Places, Open, Counted, keys, jobs
<1>5. CASE CountFails(d)
  <2>1. /\ loot' \in [Months -> [Drops -> Nat]]
        /\ allTime' \in [Drops -> Nat]
        /\ board' \in [Months -> [Drops -> Nat]]
    <3>1. CASE UNCHANGED <<loot, allTime, board>>
      BY <3>1 DEF TypeOK
    <3>2. CASE /\ loot' = [loot EXCEPT ![month] = Added(@, d)]
               /\ allTime' = Added(allTime, d)
               /\ UNCHANGED board
      BY <3>2, AddedType DEF TypeOK
    <3>3. CASE board' = [board EXCEPT ![month] = Added(@, d)] /\ UNCHANGED keys
      BY <3>3, AddedType DEF TypeOK, keys
    <3>4. QED
      BY <1>5, <3>1, <3>2, <3>3 DEF CountFails
  <2>2. excused' \in SUBSET Drops /\ faults' \in 0..MaxFaults
    BY <1>5 DEF CountFails, Excuse, OneFault, TypeOK
  <2>3. QED
    BY <1>5, <2>1, <2>2 DEF CountFails, TypeOK, Places, Open, Counted, jobs
<1>6. CASE Commit(d)
  BY <1>6 DEF Commit, TypeOK, Places, Open, Counted, keys, boards, jobs
<1>7. CASE RollBack(d)
  <2>1. excused' \in SUBSET Drops
    BY <1>7 DEF RollBack, Excuse, TypeOK
  <2>2. QED
    BY <1>7, <2>1 DEF RollBack, TypeOK, Places, Open, Counted, keys, boards, jobs
<1>8. QED
  BY <1>1, <1>2, <1>3, <1>4, <1>5, <1>6, <1>7 DEF Handle

\* An administrator's change.
LEMMA TypeChange ==
  ASSUME TypeOK, NEW j \in Jobs, NEW d \in Drops, HideToggle(j, d) \/ Delete(j, d)
  PROVE  TypeOK'
<1>1. Change(j, d)
  BY DEF HideToggle, Delete
<1>2. excused' \in SUBSET Drops
  BY <1>1 DEF Change, Excuse, TypeOK
<1>3. stage' \in [Jobs -> Stages] /\ who' \in [Jobs -> Players \cup {Nobody}]
  BY <1>1 DEF Change, TypeOK, Stages
<1>4. \A k \in Jobs : stage'[k] = "idle" <=> who'[k] = Nobody
  BY <1>1, LootAssumption DEF Change, TypeOK
<1>5. at' \in [Drops -> Places] /\ hidden' \in SUBSET Drops
  BY DEF HideToggle, Delete, TypeOK, Places
<1>6. QED
  BY <1>1, <1>2, <1>3, <1>4, <1>5 DEF Change, TypeOK, keys, boards

\* The end of a job, whatever else the step does.
LEMMA TypeEndJob ==
  ASSUME TypeOK, NEW j \in Jobs, EndJob(j)
  PROVE  /\ stage' \in [Jobs -> Stages]
         /\ who' \in [Jobs -> Players \cup {Nobody}]
         /\ snap' \in [Jobs -> SUBSET Drops]
         /\ todo' \in [Jobs -> SUBSET Months]
         /\ \A k \in Jobs : stage'[k] = "idle" <=> who'[k] = Nobody
  BY LootAssumption DEF EndJob, Advance, TypeOK, Stages

\* A step of a rebuild.
LEMMA TypeRebuild ==
  ASSUME TypeOK, TableInv, NEW j \in Jobs, Rebuild(j)
  PROVE  TypeOK'
<1> USE LootAssumption, MonthType
<1>1. ASSUME NEW p \in Players, Read(j, p)
      PROVE  TypeOK'
  <2>1. /\ stage' \in [Jobs -> Stages]
        /\ who' \in [Jobs -> Players \cup {Nobody}]
        /\ \A k \in Jobs : stage'[k] = "idle" <=> who'[k] = Nobody
    BY <1>1 DEF Read, Advance, TypeOK, Stages
  <2>2. snap' \in [Jobs -> SUBSET Drops] /\ excused' \in SUBSET Drops
    BY <1>1 DEF Read, Excuse, Of, TypeOK
  <2>3. QED
    BY <1>1, <2>1, <2>2 DEF Read, TypeOK, table, keys, boards
<1>2. CASE Begin(j)
  <2>1. CASE EndJob(j)
    BY <1>2, <2>1, TypeEndJob DEF Begin, TypeOK, table, keys, boards
  <2>2. CASE Advance(j, "begun") /\ UNCHANGED <<who, snap, todo>>
    BY <1>2, <2>2 DEF Begin, Advance, TypeOK, Stages, table, keys, boards
  <2>3. QED
    BY <1>2, <2>1, <2>2 DEF Begin
<1>3. CASE Clear(j)
  <2>1. loot' \in [Months -> [Drops -> Nat]] /\ allTime' \in [Drops -> Nat]
    BY <1>3, WrittenType DEF Clear, TypeOK
  <2>2. QED
    BY <1>3, <2>1 DEF Clear, Advance, TypeOK, Stages, table, boards
<1>4. CASE Remove(j)
  <2>1. board' \in [Months -> [Drops -> Nat]]
    BY <1>4, WrittenType DEF Remove, TypeOK
  <2>2. CASE EndJob(j)
    BY <1>4, <2>1, <2>2, TypeEndJob DEF Remove, TypeOK, table, keys
  <2>3. CASE /\ Advance(j, "keys")
             /\ todo' = [todo EXCEPT ![j] = MonthsOf(snap[j])]
             /\ UNCHANGED <<who, snap>>
    <3>0. \A d \in snap[j] : d \in Drops /\ partition[d] \in 1..month
      BY DEF TableInv, TypeOK
    <3>1. \A d \in snap[j] : d \in Drops /\ partition[d] \in Months
      BY <3>0 DEF TypeOK, Months
    <3>2. MonthsOf(snap[j]) \subseteq Months
      BY <3>1 DEF MonthsOf
    <3>3. todo' \in [Jobs -> SUBSET Months]
      BY <2>3, <3>2 DEF TypeOK
    <3>4. QED
      BY <1>4, <2>1, <2>3, <3>3 DEF Remove, Advance, TypeOK, Stages, table, keys
  <2>4. QED
    BY <1>4, <2>2, <2>3 DEF Remove
<1>5. ASSUME NEW m \in Months, SetKeys(j, m)
      PROVE  TypeOK'
  <2>1. loot' \in [Months -> [Drops -> Nat]] /\ allTime' \in [Drops -> Nat]
    BY <1>5, WrittenType DEF SetKeys, TypeOK
  <2>2. QED
    BY <1>5, <2>1 DEF SetKeys, Advance, TypeOK, Stages, table, boards
<1>6. ASSUME NEW m \in Months, SetBoard(j, m)
      PROVE  TypeOK'
  <2>1. board' \in [Months -> [Drops -> Nat]]
    BY <1>6, WrittenType DEF SetBoard, TypeOK
  <2>2. CASE EndJob(j)
    BY <1>6, <2>1, <2>2, TypeEndJob DEF SetBoard, TypeOK, table, keys
  <2>3. CASE /\ Advance(j, "keys")
             /\ todo' = [todo EXCEPT ![j] = @ \ {m}]
             /\ UNCHANGED <<who, snap>>
    BY <1>6, <2>1, <2>3 DEF SetBoard, Advance, TypeOK, Stages, table, keys
  <2>4. QED
    BY <1>6, <2>2, <2>3 DEF SetBoard
<1>7. CASE JobFails(j)
  <2>1. excused' \in SUBSET Drops /\ faults' \in 0..MaxFaults
    BY <1>7 DEF JobFails, Excuse, Of, OneFault, TypeOK
  <2>2. QED
    BY <1>7, <2>1, TypeEndJob DEF JobFails, TypeOK, table, keys, boards
<1>8. QED
  BY <1>1, <1>2, <1>3, <1>4, <1>5, <1>6, <1>7 DEF Rebuild

-----------------------------------------------------------------------------
(* The table and the snapshots.                                            *)

LEMMA TableInit == Init => TableInv
  BY DEF Init, TableInv, MonthsOf, Nothing

\* A drop's row moves on: it gets its month when it is inserted, and is seen by
\* no job before it is committed.
LEMMA TableHandle ==
  ASSUME TypeOK, TableInv, NEW d \in Drops, Handle(d)
  PROVE  TableInv'
<1>1. UNCHANGED <<month, owner, hidden, jobs>>
  BY DEF Handle, Insert, CountKeys, CountBoard, CountAllTimeBoard, CountFails,
         Commit, RollBack
<1>2. /\ at[d] \notin {"stored", "deleted", "undone"}
      /\ \E place \in Places \ {"none"} : at' = [at EXCEPT ![d] = place]
  BY DEF Handle, Insert, CountKeys, CountBoard, CountAllTimeBoard, CountFails,
         Commit, RollBack, Uncounted, Open, Counted, Places
<1>3. /\ partition' = partition \/ partition' = [partition EXCEPT ![d] = month]
      /\ at[d] = "none" => partition'[d] = month
  BY DEF Handle, Insert, CountKeys, CountBoard, CountAllTimeBoard, CountFails,
         Commit, RollBack, Uncounted, Open, Counted, TypeOK
<1>4. \A c \in Drops : at'[c] = "none" \/ partition'[c] \in 1..month
  BY <1>2, <1>3 DEF TableInv, TypeOK, Months
<1>5. \A j \in Jobs : \A c \in snap[j] :
        /\ c # d
        /\ at'[c] = at[c]
        /\ partition'[c] = partition[c]
  BY <1>2, <1>3 DEF TableInv, TypeOK
<1>6. \A j \in Jobs : MonthsOf(snap[j])' = MonthsOf(snap[j])
  BY <1>1, <1>5 DEF MonthsOf, jobs
<1>7. \A c \in Drops : c \in hidden => at'[c] \in {"stored", "deleted"}
  BY <1>2 DEF TableInv, TypeOK
<1>8. QED
  BY <1>1, <1>4, <1>5, <1>6, <1>7 DEF TableInv, jobs

LEMMA TableChange ==
  ASSUME TypeOK, TableInv, NEW j \in Jobs, NEW d \in Drops,
         HideToggle(j, d) \/ Delete(j, d)
  PROVE  TableInv'
<1>1. Change(j, d)
  BY DEF HideToggle, Delete
<1>2. snap[j] = {}
  <2>1. who[j] = Nobody
    BY <1>1 DEF Change, TypeOK
  <2>2. QED
    BY <2>1, LootAssumption DEF TableInv, TypeOK
<1>3. /\ UNCHANGED <<month, owner, partition, snap, todo>>
      /\ \A k \in Jobs : k # j => who'[k] = who[k]
  BY <1>1 DEF Change, TypeOK
<1>4. \A c \in Drops :
        /\ at'[c] # at[c] => (at[c] = "stored" /\ at'[c] = "deleted")
        /\ c \in hidden' => at'[c] \in {"stored", "deleted"}
  BY <1>1 DEF HideToggle, Delete, Change, TableInv, TypeOK
<1>5. \A k \in Jobs : \A c \in snap'[k] :
        at'[c] \in {"stored", "deleted"} /\ owner'[c] = who'[k]
  BY <1>2, <1>3, <1>4 DEF TableInv, TypeOK
<1>6. \A k \in Jobs :
        /\ todo'[k] \subseteq MonthsOf(snap[k])'
        /\ stage'[k] \notin {"keys", "boards"} => todo'[k] = {}
  BY <1>1, <1>3 DEF TableInv, MonthsOf, Change, TypeOK
<1>7. \A c \in Drops : at'[c] = "none" \/ partition'[c] \in 1..month'
  BY <1>3, <1>4 DEF TableInv
<1>8. QED
  BY <1>4, <1>5, <1>6, <1>7 DEF TableInv

\* A job: what it knows is what it read, and what it has to do comes from that.
LEMMA TableRebuild ==
  ASSUME TypeOK, TableInv, NEW j \in Jobs, Rebuild(j)
  PROVE  TableInv'
<1>1. UNCHANGED table
  BY DEF Rebuild, Read, Begin, Clear, Remove, SetKeys, SetBoard, JobFails
<1>2. \A k \in Jobs : k # j =>
        /\ stage'[k] = stage[k]
        /\ who'[k] = who[k]
        /\ snap'[k] = snap[k]
        /\ todo'[k] = todo[k]
  BY DEF Rebuild, Read, Begin, Clear, Remove, SetKeys, SetBoard, JobFails, EndJob,
         Advance, TypeOK
<1>3. /\ \A d \in snap'[j] : at[d] \in {"stored", "deleted"} /\ owner[d] = who'[j]
      /\ todo'[j] \subseteq MonthsOf(snap'[j])
      /\ stage'[j] \notin {"keys", "boards"} => todo'[j] = {}
  <2>1. CASE EndJob(j)
    BY <2>1 DEF EndJob, Advance, TypeOK
  <2>2. ASSUME NEW p \in Players, Read(j, p)
        PROVE  <1>3
    <3>1. snap'[j] \subseteq {d \in Of(p) : Visible(d)} /\ who'[j] = p
      BY <2>2 DEF Read, InSnapshot, TypeOK
    <3>2. todo'[j] = {}
      BY <2>2 DEF Read, Free, TableInv
    <3>3. QED
      BY <3>1, <3>2 DEF Of, Visible
  <2>3. CASE Begin(j) \/ Clear(j)
    BY <2>1, <2>3 DEF Begin, Clear, Advance, TableInv, TypeOK, MonthsOf
  <2>4. CASE Remove(j)
    BY <2>1, <2>4 DEF Remove, Advance, TableInv, TypeOK
  <2>5. ASSUME NEW m \in Months, SetKeys(j, m) \/ SetBoard(j, m)
        PROVE  <1>3
    BY <2>1, <2>5 DEF SetKeys, SetBoard, Advance, TableInv, TypeOK
  <2>6. QED
    BY <2>1, <2>2, <2>3, <2>4, <2>5 DEF Rebuild, JobFails
<1>4. \A k \in Jobs : MonthsOf(snap[k])' = MonthsOf(snap'[k])
  BY <1>1 DEF MonthsOf, table
<1>5. QED
  BY <1>1, <1>2, <1>3, <1>4 DEF TableInv, table, MonthsOf

\* A month begins.
LEMMA TypeAndTableMonth ==
  ASSUME TypeOK, TableInv, NextMonth
  PROVE  TypeOK' /\ TableInv'
<1>1. month' \in Months /\ month' = month + 1
  BY LootAssumption DEF NextMonth, TypeOK, Months
<1>2. TypeOK'
  BY <1>1 DEF NextMonth, TypeOK, keys, boards, jobs
<1>3. \A d \in Drops : partition[d] \in 1..month => partition[d] \in 1..month'
  BY <1>1, MonthType DEF TypeOK
<1>4. QED
  BY <1>1, <1>2, <1>3 DEF NextMonth, TableInv, MonthsOf, jobs

LEMMA TypeAndTableStep ==
  ASSUME TypeOK, TableInv, [Next]_vars
  PROVE  TypeOK' /\ TableInv'
<1>1. CASE UNCHANGED vars
  BY <1>1 DEF vars, table, keys, boards, jobs, TypeOK, TableInv, MonthsOf
<1>2. QED
  BY <1>1, TypeHandle, TypeChange, TypeRebuild, TableHandle, TableChange,
     TableRebuild, TypeAndTableMonth DEF Next

\* The types of all variables.
THEOREM TypeCorrect == Spec => []TypeOK
<1>1. Init => TypeOK /\ TableInv
  BY TypeInit, TableInit
<1>2. TypeOK /\ TableInv /\ [Next]_vars => TypeOK' /\ TableInv'
  BY TypeAndTableStep
<1>3. QED
  BY <1>1, <1>2, PTL DEF Spec

-----------------------------------------------------------------------------
(* A drop is counted before its row can be read.                           *)

\* Nothing counts a drop before its turn has come.
InOrder(d) ==
  /\ at[d] \in {"none", "open"} =>
       allTime[d] = 0 /\ \A m \in Months : loot[m][d] = 0
  /\ at[d] \in {"none", "open", "keys"} => \A m \in Months : board[m][d] = 0
  /\ at[d] \in {"none", "open", "keys", "boards"} => boardAll[d] = 0
OrderInv == \A d \in Drops : InOrder(d)

OnceInv == CountedOnce /\ OrderInv

LEMMA OnceInit == Init => OnceInv
  BY DEF Init, OnceInv, CountedOnce, OrderInv, InOrder, Nothing

\* Each pipeline counts a drop that it has not counted yet.
LEMMA OnceHandle ==
  ASSUME TypeOK, OnceInv, NEW d \in Drops, Handle(d)
  PROVE  OnceInv'
<1>1. CASE Insert(d) \/ Commit(d) \/ RollBack(d)
  BY <1>1 DEF Insert, Commit, RollBack, OnceInv, CountedOnce, OrderInv, InOrder, Open, Counted,
              TypeOK, keys, boards
<1>2. CASE CountKeys(d)
  <2>1. /\ \A m \in Months, c \in Drops :
             loot'[m][c] = IF c = d /\ m = month THEN 1 ELSE loot[m][c]
        /\ \A c \in Drops : allTime'[c] = IF c = d THEN 1 ELSE allTime[c]
    BY <1>2 DEF CountKeys, Added, OnceInv, OrderInv, InOrder, Uncounted, TypeOK
  <2>2. QED
    BY <1>2, <2>1 DEF CountKeys, OnceInv, CountedOnce, OrderInv, InOrder, Uncounted, TypeOK,
                      boards
<1>3. CASE CountBoard(d)
  <2>1. \A m \in Months, c \in Drops :
          board'[m][c] = IF c = d /\ m = month THEN 1 ELSE board[m][c]
    BY <1>3 DEF CountBoard, Added, OnceInv, OrderInv, InOrder, TypeOK
  <2>2. QED
    BY <1>3, <2>1 DEF CountBoard, OnceInv, CountedOnce, OrderInv, InOrder, TypeOK, keys
<1>4. CASE CountAllTimeBoard(d)
  <2>1. \A c \in Drops : c # d => boardAll'[c] = boardAll[c]
    BY <1>4 DEF CountAllTimeBoard, Added, TypeOK
  <2>2. boardAll'[d] <= 1
    BY <1>4 DEF CountAllTimeBoard, Added, OnceInv, OrderInv, InOrder, TypeOK
  <2>3. QED
    BY <1>4, <2>1, <2>2
    DEF CountAllTimeBoard, OnceInv, CountedOnce, OrderInv, InOrder, TypeOK, keys
<1>5. CASE CountFails(d)
  <2> DEFINE Maybe(new, old, c) == new = old \/ (c = d /\ new = 1)
  <2>1. /\ \A m \in Months, c \in Drops :
             Maybe(loot'[m][c], loot[m][c], c) /\ Maybe(board'[m][c], board[m][c], c)
        /\ \A c \in Drops : Maybe(allTime'[c], allTime[c], c)
    <3>1. CASE UNCHANGED <<loot, allTime, board>>
      BY <3>1
    <3>2. CASE /\ at[d] = "open"
               /\ loot' = [loot EXCEPT ![month] = Added(@, d)]
               /\ allTime' = Added(allTime, d)
               /\ UNCHANGED board
      BY <3>2 DEF Added, OnceInv, OrderInv, InOrder, TypeOK
    <3>3. CASE /\ at[d] = "keys"
               /\ board' = [board EXCEPT ![month] = Added(@, d)]
               /\ UNCHANGED keys
      BY <3>3 DEF Added, OnceInv, OrderInv, InOrder, TypeOK, keys
    <3>4. QED
      BY <1>5, <3>1, <3>2, <3>3 DEF CountFails
  <2>2. boardAll' = boardAll /\ at' = [at EXCEPT ![d] = "told"]
    BY <1>5 DEF CountFails
  <2>3. CountedOnce'
    BY <2>1, <2>2 DEF OnceInv, CountedOnce
  <2>4. OrderInv'
    BY <1>5, <2>1, <2>2 DEF CountFails, OnceInv, OrderInv, InOrder, TypeOK
  <2>5. QED
    BY <2>3, <2>4 DEF OnceInv
<1>6. QED
  BY <1>1, <1>2, <1>3, <1>4, <1>5 DEF Handle

\* A rebuild changes a count to what its snapshot says, or to nothing.
Overwrites(new, old, j, d) == new # old => new = 0 \/ (new = 1 /\ d \in snap[j])
Honest(j) ==
  /\ at' = at /\ boardAll' = boardAll
  /\ \A d \in Drops, m \in Months :
       /\ Overwrites(loot'[m][d], loot[m][d], j, d)
       /\ Overwrites(board'[m][d], board[m][d], j, d)
  /\ \A d \in Drops : Overwrites(allTime'[d], allTime[d], j, d)

LEMMA RebuildIsHonest ==
  ASSUME TypeOK, NEW j \in Jobs, Rebuild(j)
  PROVE  Honest(j)
<1>1. at' = at /\ boardAll' = boardAll
  BY DEF Rebuild, Read, Begin, Clear, Remove, SetKeys, SetBoard, JobFails, table, boards
<1>2. CASE (\E p \in Players : Read(j, p)) \/ Begin(j) \/ JobFails(j)
  BY <1>1, <1>2 DEF Honest, Overwrites, Read, Begin, JobFails, keys, boards
<1>3. CASE Clear(j)
  BY <1>1, <1>3 DEF Honest, Overwrites, Clear, Written, boards, TypeOK
<1>4. CASE Remove(j)
  BY <1>1, <1>4 DEF Honest, Overwrites, Remove, Written, keys, TypeOK
<1>5. ASSUME NEW m \in Months, SetKeys(j, m)
      PROVE  Honest(j)
  BY <1>1, <1>5 DEF Honest, Overwrites, SetKeys, Written, Rows, boards, TypeOK
<1>6. ASSUME NEW m \in Months, SetBoard(j, m)
      PROVE  Honest(j)
  BY <1>1, <1>6 DEF Honest, Overwrites, SetBoard, Written, Rows, keys, TypeOK
<1>7. QED
  BY <1>2, <1>3, <1>4, <1>5, <1>6 DEF Rebuild

LEMMA OnceStep ==
  ASSUME TypeOK, TableInv, OnceInv, [Next]_vars
  PROVE  OnceInv'
<1>1. ASSUME NEW j \in Jobs, Rebuild(j)
      PROVE  OnceInv'
  <2>1. Honest(j)
    BY <1>1, RebuildIsHonest
  <2>2. \A d \in snap[j] : at[d] \in {"stored", "deleted"}
    BY DEF TableInv
  <2>3. CountedOnce'
    BY <2>1 DEF Honest, Overwrites, OnceInv, CountedOnce
  <2>4. OrderInv'
    <3> SUFFICES ASSUME NEW d \in Drops
                 PROVE  InOrder(d)'
      BY DEF OrderInv
    <3>1. CASE d \in snap[j]
      BY <2>1, <2>2, <3>1 DEF Honest, InOrder
    <3>2. CASE d \notin snap[j]
      BY <2>1, <3>2 DEF Honest, Overwrites, OnceInv, OrderInv, InOrder
    <3>3. QED
      BY <3>1, <3>2
  <2>5. QED
    BY <2>3, <2>4 DEF OnceInv
<1>2. ASSUME NEW j \in Jobs, NEW d \in Drops, HideToggle(j, d) \/ Delete(j, d)
      PROVE  OnceInv'
  BY <1>2 DEF HideToggle, Delete, Change, OnceInv, CountedOnce, OrderInv, InOrder, TypeOK,
              keys, boards
<1>3. CASE NextMonth
  BY <1>3 DEF NextMonth, OnceInv, CountedOnce, OrderInv, InOrder, keys, boards
<1>4. CASE UNCHANGED vars
  BY <1>4 DEF vars, table, keys, boards, OnceInv, CountedOnce, OrderInv, InOrder
<1>5. QED
  BY <1>1, <1>2, <1>3, <1>4, OnceHandle DEF Next

\* No total counts a drop twice, whatever interleaves: increments come before the
\* commit, snapshots after it.
THEOREM NothingCountedTwice == Spec => []CountedOnce
<1>1. Init => TypeOK /\ TableInv /\ OnceInv
  BY TypeInit, TableInit, OnceInit
<1>2. TypeOK /\ TableInv /\ OnceInv /\ [Next]_vars
        => TypeOK' /\ TableInv' /\ OnceInv'
  BY TypeAndTableStep, OnceStep
<1>3. OnceInv => CountedOnce
  BY DEF OnceInv
<1>4. QED
  BY <1>1, <1>2, <1>3, PTL DEF Spec

\* The handling of a drop leaves the others alone.
LEMMA OtherDrop ==
  ASSUME TypeOK, NEW c \in Drops, Handle(c), NEW d \in Drops, c # d
  PROVE  /\ at'[d] = at[d]
         /\ partition'[d] = partition[d]
         /\ \A m \in Months : loot'[m][d] = loot[m][d] /\ board'[m][d] = board[m][d]
         /\ allTime'[d] = allTime[d]
<1>1. at'[d] = at[d] /\ partition'[d] = partition[d]
  BY DEF Handle, Insert, CountKeys, CountBoard, CountAllTimeBoard, CountFails, Commit,
         RollBack, TypeOK
<1>2. CASE Insert(c) \/ Commit(c) \/ RollBack(c) \/ CountAllTimeBoard(c)
  BY <1>1, <1>2 DEF Insert, Commit, RollBack, CountAllTimeBoard, keys, boards
<1>3. CASE CountKeys(c)
  BY <1>1, <1>3 DEF CountKeys, Added, boards, TypeOK
<1>4. CASE CountBoard(c)
  BY <1>1, <1>4 DEF CountBoard, Added, keys, TypeOK
<1>5. CASE CountFails(c)
  <2>1. CASE /\ loot' = [loot EXCEPT ![month] = Added(@, c)]
             /\ allTime' = Added(allTime, c)
             /\ UNCHANGED board
    BY <1>1, <2>1 DEF Added, TypeOK
  <2>2. CASE board' = [board EXCEPT ![month] = Added(@, c)] /\ UNCHANGED keys
    BY <1>1, <2>2 DEF Added, keys, TypeOK
  <2>3. QED
    BY <1>1, <1>5, <2>1, <2>2 DEF CountFails
<1>6. QED
  BY <1>2, <1>3, <1>4, <1>5 DEF Handle

\* The step formula of ForgottenStaysForgotten.
Forgets(d) ==
  /\ \A m \in Months : loot'[m][d] <= loot[m][d] /\ board'[m][d] <= board[m][d]
  /\ allTime'[d] <= allTime[d]

LEMMA ForgottenStep ==
  ASSUME TypeOK, TypeOK', TableInv, [Next]_vars, NEW d \in Drops, at[d] = "undone"
  PROVE  Forgets(d)
<1>1. ASSUME NEW j \in Jobs, Rebuild(j)
      PROVE  Forgets(d)
  <2>1. Honest(j) /\ d \notin snap[j]
    BY <1>1, RebuildIsHonest DEF TableInv
  <2>2. \A m \in Months :
          /\ loot'[m][d] = loot[m][d] \/ loot'[m][d] = 0
          /\ board'[m][d] = board[m][d] \/ board'[m][d] = 0
    BY <2>1 DEF Honest, Overwrites
  <2>3. allTime'[d] = allTime[d] \/ allTime'[d] = 0
    BY <2>1 DEF Honest, Overwrites
  <2>4. allTime[d] \in Nat /\ \A m \in Months : loot[m][d] \in Nat /\ board[m][d] \in Nat
    BY DEF TypeOK
  <2>5. QED
    BY <2>2, <2>3, <2>4 DEF Forgets
<1>2. ASSUME NEW c \in Drops, Handle(c)
      PROVE  Forgets(d)
  <2>1. c # d
    BY <1>2 DEF Handle, Insert, CountKeys, CountBoard, CountAllTimeBoard, CountFails,
                Commit, RollBack, Uncounted, Open, Counted
  <2>2. /\ \A m \in Months : loot'[m][d] = loot[m][d] /\ board'[m][d] = board[m][d]
        /\ allTime'[d] = allTime[d]
    BY <1>2, <2>1, OtherDrop
  <2>3. QED
    BY <2>2 DEF Forgets, TypeOK
<1>3. CASE UNCHANGED <<keys, boards>>
  BY <1>3 DEF Forgets, keys, boards, TypeOK
<1>4. QED
  BY <1>1, <1>2, <1>3 DEF Next, HideToggle, Delete, Change, NextMonth, vars

\* A drop that was rolled back and is out of a total never returns to it.
THEOREM UndoneStaysForgotten == Spec => ForgottenStaysForgotten
<1>1. Init => TypeOK /\ TableInv
  BY TypeInit, TableInit
<1>2. TypeOK /\ TableInv /\ [Next]_vars => TypeOK' /\ TableInv'
  BY TypeAndTableStep
<1>3. TypeOK /\ TypeOK' /\ TableInv /\ [Next]_vars =>
        [\A d \in Drops : at[d] = "undone" =>
           /\ \A m \in Months : loot'[m][d] <= loot[m][d] /\ board'[m][d] <= board[m][d]
           /\ allTime'[d] <= allTime[d]]_vars
  BY ForgottenStep DEF Forgets
<1>4. QED
  BY <1>1, <1>2, <1>3, PTL DEF Spec, ForgottenStaysForgotten

-----------------------------------------------------------------------------
(* Totals are right once nothing is under way.                             *)

\* A job has still to do something about d's owner: to delete the keys, to take
\* the player off the board, to write the total or the board of d's month.
Clears(j, d) == who[j] = owner[d] /\ stage[j] \in {"changed", "read", "begun"}
Removes(j, d) ==
  who[j] = owner[d] /\ stage[j] \in {"changed", "read", "begun", "cleared"}
Sets(j, d) ==
  /\ who[j] = owner[d]
  /\ \/ stage[j] = "cleared"
     \/ stage[j] = "keys" /\ partition[d] \in todo[j]
     \/ stage[j] = "boards" /\ partition[d] \in todo[j] /\ ~Turn(j, partition[d])
Adds(j, d) ==
  who[j] = owner[d] /\ stage[j] \in {"keys", "boards"} /\ partition[d] \in todo[j]

WillClear(d) == \E j \in Admins : Clears(j, d)
WillRemove(d) == \E j \in Admins : Removes(j, d)
WillSet(d) == \E j \in Jobs : Sets(j, d)
WillAdd(d) == \E j \in Jobs : Adds(j, d)

\* Every job under way has seen d as it is, and none is while d is uncommitted.
SeenRight(d) ==
  /\ \A j \in Jobs : who[j] = owner[d] /\ UnderWay(j) => (d \in snap[j] <=> Visible(d))
  /\ at[d] \in Counted => ~Rebuilding(owner[d])

\* d is counted where it should be, or a job will see to it.
KeysRight(d) ==
  /\ \A m \in Months : loot[m][d] # 0 =>
       m = partition[d] /\ (at[d] \in Counted \/ Visible(d) \/ WillClear(d))
  /\ allTime[d] # 0 => at[d] \in Counted \/ Visible(d) \/ WillClear(d)
  /\ at[d] \in Counted => loot[partition[d]][d] = 1
  /\ Visible(d) => loot[partition[d]][d] = 1 \/ WillSet(d) \/ WillClear(d)
BoardRight(d) ==
  /\ \A m \in Months : m > month => board[m][d] = 0
  /\ board[month][d] # 0 =>
       /\ partition[d] = month
       /\ at[d] \in {"boards", "told"} \/ Visible(d) \/ WillRemove(d)
  /\ at[d] \in {"boards", "told"} /\ partition[d] = month => board[month][d] = 1
  /\ Visible(d) /\ partition[d] = month =>
       board[month][d] = 1 \/ WillAdd(d) \/ WillRemove(d)

Tracked(d) == SeenRight(d) /\ KeysRight(d) /\ BoardRight(d)
ExactInv == \A d \in Drops \ excused : Tracked(d)

LEMMA ExactInit == Init => ExactInv
  BY LootAssumption
  DEF Init, ExactInv, Tracked, SeenRight, KeysRight, BoardRight, Nothing, UnderWay,
      Visible, Counted, Months

\* A step that is not about d leaves what is known of it.
LEMMA Untouched ==
  ASSUME NEW d \in Drops, Tracked(d),
         UNCHANGED <<month, owner, hidden, jobs>>,
         at'[d] = at[d], partition'[d] = partition[d],
         \A m \in Months : loot'[m][d] = loot[m][d] /\ board'[m][d] = board[m][d],
         allTime'[d] = allTime[d], month \in Months, partition[d] \in Months \/ at[d] = "none"
  PROVE  Tracked(d)'
<1>1. /\ WillClear(d)' = WillClear(d) /\ WillRemove(d)' = WillRemove(d)
      /\ WillSet(d)' = WillSet(d) /\ WillAdd(d)' = WillAdd(d)
  BY DEF WillClear, WillRemove, WillSet, WillAdd, Clears, Removes, Sets, Adds, Turn, jobs
<1>2. Visible(d)' = Visible(d) /\ SeenRight(d)'
  BY DEF Tracked, SeenRight, Visible, Rebuilding, UnderWay, jobs
<1>3. KeysRight(d)'
  BY <1>1, <1>2 DEF Tracked, KeysRight, Visible, Counted
<1>4. BoardRight(d)'
  BY <1>1, <1>2 DEF Tracked, BoardRight, Visible
<1>5. QED
  BY <1>2, <1>3, <1>4 DEF Tracked

\* What the handling of a drop leaves alone of jobs' intentions.
LEMMA SameWills ==
  ASSUME NEW d \in Drops, UNCHANGED <<owner, hidden, jobs>>
  PROVE  /\ WillClear(d)' = WillClear(d) /\ WillRemove(d)' = WillRemove(d)
         /\ partition'[d] = partition[d] => WillSet(d)' = WillSet(d)
         /\ partition'[d] = partition[d] => WillAdd(d)' = WillAdd(d)
         /\ Rebuilding(owner[d])' = Rebuilding(owner[d])
  BY DEF WillClear, WillRemove, WillSet, WillAdd, Clears, Removes, Sets, Adds, Turn,
         Rebuilding, UnderWay, jobs

\* The handling of d itself.
LEMMA ExactOwnHandle ==
  ASSUME TypeOK, TableInv, OnceInv, NEW d \in Drops, Tracked(d), Handle(d),
         d \notin excused'
  PROVE  Tracked(d)'
<1>1. UNCHANGED <<month, owner, hidden, jobs>> /\ month \in Months
  BY DEF Handle, Insert, CountKeys, CountBoard, CountAllTimeBoard, CountFails,
         Commit, RollBack, TypeOK
<1>2. /\ WillClear(d)' = WillClear(d) /\ WillRemove(d)' = WillRemove(d)
      /\ partition'[d] = partition[d] => WillSet(d)' = WillSet(d)
      /\ partition'[d] = partition[d] => WillAdd(d)' = WillAdd(d)
      /\ Rebuilding(owner[d])' = Rebuilding(owner[d])
  BY <1>1, SameWills
<1>3. \A j \in Jobs : UnderWay(j)' = UnderWay(j)
  BY <1>1 DEF UnderWay, jobs
<1>4. CASE Insert(d)
  <2>1. ~Visible(d) /\ ~Visible(d)' /\ at'[d] = "open"
    BY <1>4 DEF Insert, Visible, TypeOK
  <2>2. SeenRight(d)'
    BY <1>1, <1>2, <1>3, <2>1 DEF Tracked, SeenRight, Counted, jobs
  <2>3. /\ allTime'[d] = 0
        /\ \A m \in Months : loot'[m][d] = 0 /\ board'[m][d] = 0
    BY <1>4 DEF Insert, OnceInv, OrderInv, InOrder, keys, boards
  <2>4. QED
    BY <1>1, <2>1, <2>2, <2>3 DEF Tracked, KeysRight, BoardRight, Counted
<1>5. CASE CountKeys(d)
  <2>1. partition[d] = month /\ ~Rebuilding(owner[d])
    BY <1>5 DEF CountKeys, CountedWithLuck, Unlucky, Excuse
  <2>2. ~Visible(d) /\ ~Visible(d)' /\ at'[d] = "keys" /\ at[d] = "open"
    BY <1>5 DEF CountKeys, Uncounted, Visible, TypeOK
  <2>3. SeenRight(d)'
    BY <1>1, <1>2, <1>3, <2>1, <2>2 DEF Tracked, SeenRight, jobs
  <2>4. /\ loot'[month][d] = 1 /\ allTime'[d] = 1
        /\ \A m \in Months : m # month => loot'[m][d] = 0
    BY <1>5, <2>2 DEF CountKeys, Added, OnceInv, OrderInv, InOrder, TypeOK
  <2>5. \A m \in Months : board'[m][d] = 0
    BY <1>5, <2>2 DEF CountKeys, OnceInv, OrderInv, InOrder, boards
  <2>6. partition' = partition
    BY <1>5 DEF CountKeys
  <2>7. KeysRight(d)'
    BY <1>1, <2>1, <2>2, <2>4, <2>6 DEF KeysRight, Counted
  <2>8. BoardRight(d)'
    BY <1>1, <2>2, <2>5, <2>6 DEF BoardRight
  <2>9. QED
    BY <2>3, <2>7, <2>8 DEF Tracked
<1>6. CASE CountBoard(d)
  <2>1. partition[d] = month /\ UNCHANGED <<partition, keys>>
    BY <1>6 DEF CountBoard, CountedWithLuck, Unlucky, Excuse
  <2>2. ~Visible(d) /\ ~Visible(d)' /\ at'[d] = "boards" /\ at[d] = "keys"
    BY <1>6 DEF CountBoard, Visible, TypeOK
  <2>3. SeenRight(d)'
    BY <1>1, <1>2, <1>3, <2>2 DEF Tracked, SeenRight, Counted, jobs
  <2>4. board'[month][d] = 1 /\ \A m \in Months : m # month => board'[m][d] = 0
    BY <1>6, <2>2 DEF CountBoard, Added, OnceInv, OrderInv, InOrder, TypeOK
  <2>5. KeysRight(d)'
    BY <1>1, <2>1, <2>2 DEF Tracked, KeysRight, Counted, keys
  <2>6. BoardRight(d)'
    BY <1>1, <2>1, <2>2, <2>4, MonthType DEF BoardRight
  <2>7. QED
    BY <2>3, <2>5, <2>6 DEF Tracked
<1>7. CASE CountAllTimeBoard(d)
  <2>1. UNCHANGED <<partition, keys, board>>
    BY <1>7 DEF CountAllTimeBoard
  <2>2. ~Visible(d) /\ ~Visible(d)' /\ at'[d] = "told" /\ at[d] = "boards"
    BY <1>7 DEF CountAllTimeBoard, Visible, TypeOK
  <2>3. SeenRight(d)'
    BY <1>1, <1>2, <1>3, <2>2 DEF Tracked, SeenRight, Counted, jobs
  <2>4. QED
    BY <1>1, <1>2, <2>1, <2>2, <2>3 DEF Tracked, KeysRight, BoardRight, Counted, keys
<1>8. CASE CountFails(d)
  BY <1>8 DEF CountFails, Excuse
<1>9. CASE Commit(d)
  <2>1. UNCHANGED <<partition, keys, board>>
    BY <1>9 DEF Commit, boards
  <2>2. Visible(d)' /\ at[d] = "told" /\ at'[d] = "stored" /\ ~Visible(d)
    BY <1>1, <1>9 DEF Commit, Visible, TableInv, TypeOK
  <2>3. ~Rebuilding(owner[d])
    BY <2>2 DEF Tracked, SeenRight, Counted
  <2>4. SeenRight(d)'
    BY <1>1, <1>2, <1>3, <2>2, <2>3 DEF SeenRight, Counted, Rebuilding, UnderWay, jobs
  <2>5. QED
    BY <1>1, <1>2, <2>1, <2>2, <2>4 DEF Tracked, KeysRight, BoardRight, Counted, keys
<1>10. CASE RollBack(d)
  <2>1. UNCHANGED <<partition, keys, board>>
    BY <1>10 DEF RollBack, boards
  <2>2. at[d] = "open" /\ at'[d] = "undone" /\ ~Visible(d) /\ ~Visible(d)'
    BY <1>10 DEF RollBack, Excuse, Visible, Open, Counted, TypeOK
  <2>3. SeenRight(d)'
    BY <1>1, <1>2, <1>3, <2>2 DEF Tracked, SeenRight, Counted, jobs
  <2>4. QED
    BY <1>1, <1>2, <2>1, <2>2, <2>3 DEF Tracked, KeysRight, BoardRight, Counted, keys
<1>11. QED
  BY <1>4, <1>5, <1>6, <1>7, <1>8, <1>9, <1>10 DEF Handle

LEMMA ExactHandle ==
  ASSUME TypeOK, TableInv, OnceInv, ExactInv, NEW c \in Drops, Handle(c)
  PROVE  ExactInv'
<1> SUFFICES ASSUME NEW d \in Drops, d \notin excused'
             PROVE  Tracked(d)'
  BY DEF ExactInv
<1>1. UNCHANGED <<month, owner, hidden, jobs>> /\ excused \subseteq excused'
  BY DEF Handle, Insert, CountKeys, CountBoard, CountAllTimeBoard, CountFails, Commit,
         RollBack, CountedWithLuck, Excuse
<1>2. Tracked(d)
  BY <1>1 DEF ExactInv
<1>3. CASE c = d
  BY <1>2, <1>3, ExactOwnHandle
<1>4. CASE c # d
  <2>1. month \in Months /\ (partition[d] \in Months \/ at[d] = "none")
    BY DEF TableInv, TypeOK, Months
  <2>2. QED
    BY <1>1, <1>2, <1>4, <2>1, OtherDrop, Untouched
<1>5. QED
  BY <1>3, <1>4

\* What a step of jobs does not take away.
LEMMA KeepsTracked ==
  ASSUME NEW d \in Drops, Tracked(d), SeenRight(d)',
         month' = month, at'[d] = at[d], partition'[d] = partition[d],
         Visible(d)' <=> Visible(d),
         \A m \in Months : loot'[m][d] = loot[m][d] /\ board'[m][d] = board[m][d],
         allTime'[d] = allTime[d],
         month \in Months, partition[d] \in Months \/ at[d] = "none",
         WillClear(d) => WillClear(d)', WillRemove(d) => WillRemove(d)',
         WillSet(d) => WillSet(d)', WillAdd(d) => WillAdd(d)'
  PROVE  Tracked(d)'
<1>1. KeysRight(d)'
  BY DEF Tracked, KeysRight, Visible, Counted
<1>2. BoardRight(d)'
  BY DEF Tracked, BoardRight, Visible
<1>3. QED
  BY <1>1, <1>2 DEF Tracked

\* Only job j moves: whether something will be done is up to it.
OnlyJob(j) ==
  \A k \in Jobs : k # j =>
    /\ stage'[k] = stage[k]
    /\ who'[k] = who[k]
    /\ snap'[k] = snap[k]
    /\ todo'[k] = todo[k]

LEMMA OwnWills ==
  ASSUME NEW j \in Jobs, NEW d \in Drops, OnlyJob(j), owner' = owner,
         partition'[d] = partition[d]
  PROVE  /\ (j \in Admins /\ Clears(j, d) => Clears(j, d)') =>
              (WillClear(d) => WillClear(d)')
         /\ (j \in Admins /\ Removes(j, d) => Removes(j, d)') =>
              (WillRemove(d) => WillRemove(d)')
         /\ (Sets(j, d) => Sets(j, d)') => (WillSet(d) => WillSet(d)')
         /\ (Adds(j, d) => Adds(j, d)') => (WillAdd(d) => WillAdd(d)')
<1>1. \A k \in Jobs : k # j =>
        /\ Clears(k, d) => Clears(k, d)'
        /\ Removes(k, d) => Removes(k, d)'
        /\ Sets(k, d) => Sets(k, d)'
        /\ Adds(k, d) => Adds(k, d)'
  BY DEF OnlyJob, Clears, Removes, Sets, Adds, Turn
<1>2. Admins \subseteq Jobs
  BY LootAssumption
<1>3. QED
  BY <1>1, <1>2 DEF WillClear, WillRemove, WillSet, WillAdd

\* An administrator's change: the same job will rebuild the drop's owner, and no
\* other is at it.
LEMMA ExactChange ==
  ASSUME TypeOK, TableInv, ExactInv, NEW j \in Jobs, NEW c \in Drops,
         HideToggle(j, c) \/ Delete(j, c)
  PROVE  ExactInv'
<1> SUFFICES ASSUME NEW d \in Drops, d \notin excused'
             PROVE  Tracked(d)'
  BY DEF ExactInv
<1>1. Change(j, c)
  BY DEF HideToggle, Delete
<1>2. /\ j \in Admins /\ stage'[j] = "changed" /\ who'[j] = owner[c]
      /\ who[j] = Nobody /\ stage[j] = "idle"
      /\ OnlyJob(j)
  BY <1>1 DEF Change, OnlyJob, TypeOK
<1>3. Tracked(d)
  BY <1>1 DEF Change, Excuse, ExactInv
<1>4. owner[d] # Nobody /\ month \in Months /\ (partition[d] \in Months \/ at[d] = "none")
  BY LootAssumption DEF TableInv, TypeOK, Months
<1>5. \A k \in Jobs : who'[k] = owner[d] /\ UnderWay(k)' =>
        k # j /\ who[k] = owner[d] /\ UnderWay(k) /\ snap'[k] = snap[k]
  BY <1>2 DEF OnlyJob, UnderWay
<1>6. UNCHANGED <<month, owner, partition, keys, boards>>
  BY <1>1 DEF Change
<1>7. CASE d = c
  <2>1. ~Rebuilding(owner[d])
    BY <1>1, <1>7 DEF Change, Excuse
  <2>2. WillClear(d)' /\ WillRemove(d)'
    BY <1>2, <1>6, <1>7 DEF WillClear, WillRemove, Clears, Removes
  <2>3. at'[d] \in {"stored", "deleted"}
    BY <1>1, <1>7 DEF HideToggle, Delete, Change, TypeOK
  <2>4. SeenRight(d)'
    BY <1>5, <1>6, <2>1, <2>3 DEF SeenRight, Rebuilding, Counted
  <2>5. at[d] = "stored"
    BY <1>1, <1>7 DEF Change
  <2>6. KeysRight(d)'
    BY <1>3, <1>6, <2>2, <2>3, <2>5 DEF Tracked, KeysRight, Counted, keys
  <2>7. BoardRight(d)'
    BY <1>3, <1>6, <2>2, <2>3, <2>5 DEF Tracked, BoardRight, boards
  <2>8. QED
    BY <2>4, <2>6, <2>7 DEF Tracked
<1>8. CASE d # c
  <2>1. at'[d] = at[d] /\ (Visible(d)' <=> Visible(d))
    BY <1>8 DEF HideToggle, Delete, Change, Visible, TypeOK
  <2>2. SeenRight(d)'
    BY <1>3, <1>5, <1>6, <2>1 DEF Tracked, SeenRight, Rebuilding
  <2>3. ~Clears(j, d) /\ ~Removes(j, d) /\ ~Sets(j, d) /\ ~Adds(j, d)
    BY <1>2, <1>4 DEF Clears, Removes, Sets, Adds
  <2>4. /\ WillClear(d) => WillClear(d)'
        /\ WillRemove(d) => WillRemove(d)'
        /\ WillSet(d) => WillSet(d)'
        /\ WillAdd(d) => WillAdd(d)'
    BY <1>2, <1>6, <2>3, OwnWills
  <2>5. QED
    BY <1>3, <1>4, <1>6, <2>1, <2>2, <2>4, KeepsTracked DEF keys, boards
<1>9. QED
  BY <1>7, <1>8

\* A step of a rebuild touches the table not at all, and no job but its own.
LEMMA RebuildIsLocal ==
  ASSUME TypeOK, NEW j \in Jobs, Rebuild(j)
  PROVE  UNCHANGED table /\ OnlyJob(j) /\ excused \subseteq excused'
<1>1. UNCHANGED table /\ excused \subseteq excused'
  BY DEF Rebuild, Read, Begin, Clear, Remove, SetKeys, SetBoard, JobFails, Excuse
<1>2. OnlyJob(j)
  BY DEF Rebuild, Read, Begin, Clear, Remove, SetKeys, SetBoard, JobFails, EndJob,
         Advance, OnlyJob, TypeOK
<1>3. QED
  BY <1>1, <1>2

\* Whoever is under way after the step has seen d right: it was before, or has
\* just read it.
LEMMA RebuildSeen ==
  ASSUME TypeOK, NEW j \in Jobs, Rebuild(j), NEW d \in Drops, SeenRight(d),
         d \notin excused'
  PROVE  SeenRight(d)'
<1>1. UNCHANGED table /\ OnlyJob(j)
  BY RebuildIsLocal
<1>2. owner'[d] = owner[d] /\ at'[d] = at[d] /\ (Visible(d)' <=> Visible(d))
  BY <1>1 DEF table, Visible
<1>3. \A k \in Jobs : k # j =>
        /\ who'[k] = who[k] /\ snap'[k] = snap[k]
        /\ UnderWay(k)' <=> UnderWay(k)
  BY <1>1 DEF OnlyJob, UnderWay
<1>4. CASE ~(who'[j] = owner[d] /\ UnderWay(j)')
  BY <1>2, <1>3, <1>4 DEF SeenRight, Rebuilding
<1>5. CASE who[j] = owner[d] /\ UnderWay(j) /\ snap'[j] = snap[j]
  BY <1>2, <1>3, <1>5 DEF SeenRight, Rebuilding
<1>6. ASSUME NEW p \in Players, Read(j, p), who'[j] = owner[d]
      PROVE  SeenRight(d)'
  <2>1. p = owner[d] /\ d \in Of(p)
    BY <1>6 DEF Read, Of, TypeOK
  <2>2. at[d] \notin Counted
    BY <1>6, <2>1 DEF Read, Excuse
  <2>3. d \in snap'[j] <=> Visible(d)
    BY <1>6, <2>1 DEF Read, InSnapshot, TypeOK
  <2>4. QED
    BY <1>2, <1>3, <2>2, <2>3 DEF SeenRight
<1>7. CASE EndJob(j)
  BY <1>4, <1>7 DEF EndJob, Advance, UnderWay, TypeOK
<1>8. CASE Begin(j) \/ Clear(j) \/ Remove(j)
  BY <1>4, <1>5, <1>7, <1>8 DEF Begin, Clear, Remove, UnderWay
<1>9. ASSUME NEW m \in Months, SetKeys(j, m) \/ SetBoard(j, m)
      PROVE  SeenRight(d)'
  BY <1>4, <1>5, <1>7, <1>9 DEF SetKeys, SetBoard, UnderWay
<1>10. QED
  BY <1>4, <1>6, <1>7, <1>8, <1>9 DEF Rebuild, JobFails

\* A rebuild is about one player.
LEMMA OtherPlayer ==
  ASSUME TypeOK, NEW j \in Jobs, Rebuild(j), NEW d \in Drops, who[j] # owner[d]
  PROVE  /\ \A m \in Months : loot'[m][d] = loot[m][d] /\ board'[m][d] = board[m][d]
         /\ allTime'[d] = allTime[d]
<1>1. CASE (\E p \in Players : Read(j, p)) \/ Begin(j) \/ JobFails(j)
  BY <1>1 DEF Read, Begin, JobFails, keys, boards
<1>2. CASE Clear(j)
  BY <1>2 DEF Clear, Written, boards
<1>3. CASE Remove(j)
  BY <1>3 DEF Remove, Written, keys, TypeOK
<1>4. ASSUME NEW m \in Months, SetKeys(j, m)
      PROVE  /\ \A n \in Months : loot'[n][d] = loot[n][d] /\ board'[n][d] = board[n][d]
             /\ allTime'[d] = allTime[d]
  BY <1>4 DEF SetKeys, Written, boards, TypeOK
<1>5. ASSUME NEW m \in Months, SetBoard(j, m)
      PROVE  /\ \A n \in Months : loot'[n][d] = loot[n][d] /\ board'[n][d] = board[n][d]
             /\ allTime'[d] = allTime[d]
  BY <1>5 DEF SetBoard, Written, keys, TypeOK
<1>6. QED
  BY <1>1, <1>2, <1>3, <1>4, <1>5 DEF Rebuild

\* A rebuild of d's own player: what it deletes it will write, and what it writes
\* is what its snapshot says, which is right.
LEMMA ExactOwnRebuild ==
  ASSUME TypeOK, TableInv, NEW j \in Jobs, Rebuild(j),
         NEW d \in Drops, Tracked(d), d \notin excused', who[j] = owner[d]
  PROVE  Tracked(d)'
<1>1. UNCHANGED table /\ OnlyJob(j)
  BY RebuildIsLocal
<1>2. /\ month' = month /\ owner' = owner /\ partition' = partition
      /\ at'[d] = at[d] /\ (Visible(d)' <=> Visible(d))
  BY <1>1 DEF table, Visible
<1>3. /\ month \in Months /\ owner[d] \in Players /\ owner[d] # Nobody
      /\ partition[d] \in Months \/ at[d] = "none"
  BY LootAssumption DEF TableInv, TypeOK, Months
<1>4. SeenRight(d)'
  BY RebuildSeen DEF Tracked
<1>5. /\ (j \in Admins /\ Clears(j, d) => Clears(j, d)') =>
           (WillClear(d) => WillClear(d)')
      /\ (j \in Admins /\ Removes(j, d) => Removes(j, d)') =>
           (WillRemove(d) => WillRemove(d)')
      /\ (Sets(j, d) => Sets(j, d)') => (WillSet(d) => WillSet(d)')
      /\ (Adds(j, d) => Adds(j, d)') => (WillAdd(d) => WillAdd(d)')
  BY <1>1, <1>2, OwnWills
<1>6. UnderWay(j) => at[d] \notin Counted /\ (d \in snap[j] <=> Visible(d))
  BY DEF Tracked, SeenRight, Rebuilding
<1>7. CASE (\E p \in Players : Read(j, p)) \/ Begin(j) \/ JobFails(j)
  <2>1. /\ \A m \in Months : loot'[m][d] = loot[m][d] /\ board'[m][d] = board[m][d]
        /\ allTime'[d] = allTime[d]
    BY <1>7 DEF Read, Begin, JobFails, keys, boards
  <2>2. /\ j \in Admins /\ Clears(j, d) => Clears(j, d)'
        /\ j \in Admins /\ Removes(j, d) => Removes(j, d)'
        /\ Sets(j, d) => Sets(j, d)'
        /\ Adds(j, d) => Adds(j, d)'
    <3>1. ASSUME NEW p \in Players, Read(j, p)
          PROVE  <2>2
      <4>1. stage[j] = "changed" /\ stage'[j] = "read" /\ who'[j] = who[j]
        BY <1>3, <3>1 DEF Read, Free, Advance, TypeOK
      <4>2. QED
        BY <1>2, <4>1 DEF Clears, Removes, Sets, Adds
    <3>2. CASE Begin(j)
      <4>1. CASE Advance(j, "begun") /\ UNCHANGED <<who, snap, todo>>
        <5>1. stage[j] = "read" /\ stage'[j] = "begun" /\ who'[j] = who[j]
          BY <3>2, <4>1 DEF Begin, Advance, TypeOK
        <5>2. QED
          BY <1>2, <5>1 DEF Clears, Removes, Sets, Adds
      <4>2. CASE j \in Updaters
        BY <3>2, <4>1, <4>2, LootAssumption DEF Begin, Sets, Adds
      <4>3. QED
        BY <3>2, <4>1, <4>2 DEF Begin
    <3>3. CASE JobFails(j)
      <4>1. Harmless(j)
        BY <3>3 DEF JobFails, Excuse, Of
      <4>2. QED
        BY <4>1 DEF Harmless, Sets, Adds
    <3>4. QED
      BY <1>7, <3>1, <3>2, <3>3
  <2>3. QED
    BY <1>2, <1>3, <1>4, <1>5, <2>1, <2>2, KeepsTracked
<1>8. CASE Clear(j)
  <2>1. /\ allTime'[d] = 0
        /\ \A m \in Months : loot'[m][d] = 0 /\ board'[m][d] = board[m][d]
    BY <1>8 DEF Clear, Written, boards
  <2>2. stage[j] = "begun" /\ stage'[j] = "cleared" /\ who'[j] = who[j]
    BY <1>8 DEF Clear, Advance, TypeOK
  <2>3. Sets(j, d)' /\ WillSet(d)' /\ at[d] \notin Counted
    BY <1>2, <1>6, <2>2 DEF Sets, WillSet, UnderWay
  <2>4. (WillRemove(d) => WillRemove(d)') /\ (WillAdd(d) => WillAdd(d)')
    BY <1>2, <1>5, <2>2 DEF Removes, Adds
  <2>5. KeysRight(d)'
    BY <1>2, <2>1, <2>3 DEF KeysRight
  <2>6. BoardRight(d)'
    BY <1>2, <1>3, <2>1, <2>4 DEF Tracked, BoardRight
  <2>7. QED
    BY <1>4, <2>5, <2>6 DEF Tracked
<1>9. CASE Remove(j)
  <2>1. /\ allTime' = allTime /\ loot' = loot
        /\ board'[month][d] = 0
        /\ \A m \in Months : m # month => board'[m][d] = board[m][d]
    BY <1>9 DEF Remove, Written, keys, TypeOK
  <2>2. stage[j] = "cleared" /\ at[d] \notin Counted /\ (d \in snap[j] <=> Visible(d))
    BY <1>6, <1>9 DEF Remove, UnderWay
  <2>3. WillClear(d) => WillClear(d)'
    BY <1>5, <2>2 DEF Clears
  <2>4. Visible(d) => Sets(j, d)' /\ Adds(j, d)'
    <3>1. SUFFICES ASSUME Visible(d)
                   PROVE  Sets(j, d)' /\ Adds(j, d)'
      OBVIOUS
    <3>2. d \in snap[j]
      BY <2>2, <3>1
    <3>3. stage'[j] = "keys" /\ partition[d] \in todo'[j] /\ who'[j] = who[j]
      BY <1>9, <3>2 DEF Remove, Advance, MonthsOf, TypeOK
    <3>4. QED
      BY <1>2, <3>3 DEF Sets, Adds
  <2>5. Visible(d) => WillSet(d)' /\ WillAdd(d)'
    BY <2>4 DEF WillSet, WillAdd
  <2>6. KeysRight(d)'
    BY <1>2, <2>1, <2>2, <2>3, <2>5 DEF Tracked, KeysRight
  <2>7. BoardRight(d)'
    BY <1>2, <1>3, <2>1, <2>2, <2>5, MonthType DEF Tracked, BoardRight, Counted
  <2>8. QED
    BY <1>4, <2>6, <2>7 DEF Tracked
<1>10. ASSUME NEW m \in Months, SetKeys(j, m)
       PROVE  Tracked(d)'
  <2>1. stage[j] = "keys" /\ at[d] \notin Counted /\ (d \in snap[j] <=> Visible(d))
    BY <1>6, <1>10 DEF SetKeys, UnderWay
  <2>2. /\ stage'[j] = "boards" /\ who'[j] = who[j] /\ todo'[j] = todo[j]
        /\ Turn(j, m) /\ board' = board
    BY <1>10 DEF SetKeys, Advance, boards, TypeOK
  <2>3. /\ loot'[m][d] = IF Visible(d) /\ partition[d] = m THEN 1 ELSE 0
        /\ allTime'[d] = IF Visible(d) /\ partition[d] = m THEN 1 ELSE 0
        /\ \A n \in Months : n # m => loot'[n][d] = loot[n][d]
    BY <1>10, <2>1 DEF SetKeys, Written, Rows, TypeOK
  <2>4. /\ WillClear(d) => WillClear(d)'
        /\ WillRemove(d) => WillRemove(d)'
        /\ WillAdd(d) => WillAdd(d)'
    BY <1>2, <1>5, <2>1, <2>2 DEF Clears, Removes, Adds
  <2>5. partition[d] # m => (WillSet(d) => WillSet(d)')
    <3>1. SUFFICES ASSUME partition[d] # m, Sets(j, d)
                   PROVE  Sets(j, d)'
      BY <1>5
    <3>2. partition[d] \in todo[j]
      BY <2>1, <3>1 DEF Sets
    <3>3. ~(partition[d] <= m)
      <4>1. m \in Nat /\ partition[d] \in Nat
        BY <3>2, MonthType DEF TypeOK
      <4>2. m <= partition[d]
        BY <2>2, <3>2 DEF Turn
      <4>3. QED
        BY <3>1, <4>1, <4>2
    <3>4. m \in todo'[j] /\ ~Turn(j, partition[d])'
      BY <1>2, <2>2, <3>3 DEF Turn
    <3>5. QED
      BY <1>2, <2>2, <3>1, <3>2, <3>4 DEF Sets
  <2>6. KeysRight(d)'
    <3>1. KeysRight(d)
      BY DEF Tracked
    <3>2. \A n \in Months : loot'[n][d] # 0 =>
            n = partition[d] /\ (Visible(d) \/ WillClear(d)')
      BY <2>1, <2>3, <2>4, <3>1 DEF KeysRight
    <3>3. allTime'[d] # 0 => Visible(d)
      BY <2>3
    <3>4. Visible(d) => loot'[partition[d]][d] = 1 \/ WillSet(d)' \/ WillClear(d)'
      <4>1. CASE partition[d] = m
        BY <2>3, <4>1
      <4>2. CASE partition[d] # m
        BY <1>3, <2>3, <2>4, <2>5, <3>1, <4>2 DEF KeysRight, Visible
      <4>3. QED
        BY <4>1, <4>2
    <3>5. QED
      BY <1>2, <2>1, <3>2, <3>3, <3>4 DEF KeysRight
  <2>7. BoardRight(d)'
    BY <1>2, <2>2, <2>4 DEF Tracked, BoardRight
  <2>8. QED
    BY <1>4, <2>6, <2>7 DEF Tracked
<1>11. ASSUME NEW m \in Months, SetBoard(j, m)
       PROVE  Tracked(d)'
  <2>1. stage[j] = "boards" /\ at[d] \notin Counted /\ (d \in snap[j] <=> Visible(d))
    BY <1>6, <1>11 DEF SetBoard, UnderWay
  <2>2. Turn(j, m) /\ UNCHANGED keys
    BY <1>11 DEF SetBoard
  <2>3. /\ board'[m][d] = IF Visible(d) /\ partition[d] = m THEN 1 ELSE 0
        /\ \A n \in Months : n # m => board'[n][d] = board[n][d]
    BY <1>11, <2>1 DEF SetBoard, Written, Rows, TypeOK
  <2>4. m <= month
    <3>1. PICK c \in snap[j] : m = partition[c]
      BY <2>2 DEF Turn, TableInv, MonthsOf
    <3>2. c \in Drops /\ at[c] # "none"
      BY DEF TableInv, TypeOK
    <3>3. QED
      BY <3>1, <3>2 DEF TableInv
  <2>5. ASSUME partition[d] \in todo[j], partition[d] # m
        PROVE  Sets(j, d)' /\ Adds(j, d)'
    <3>1. stage'[j] = "keys" /\ who'[j] = who[j] /\ todo'[j] = todo[j] \ {m}
      BY <1>11, <2>5 DEF SetBoard, Advance, TypeOK
    <3>2. QED
      BY <1>2, <2>5, <3>1 DEF Sets, Adds
  <2>6. /\ WillClear(d) => WillClear(d)'
        /\ WillRemove(d) => WillRemove(d)'
    BY <1>5, <2>1 DEF Clears, Removes
  <2>7. WillSet(d) => WillSet(d)'
    BY <1>5, <2>1, <2>2, <2>5 DEF Sets
  <2>8. partition[d] # m => (WillAdd(d) => WillAdd(d)')
    BY <1>5, <2>5 DEF Adds
  <2>9. KeysRight(d)'
    BY <1>2, <2>1, <2>2, <2>6, <2>7 DEF Tracked, KeysRight, keys
  <2>10. BoardRight(d)'
    BY <1>2, <1>3, <2>1, <2>3, <2>4, <2>6, <2>8, MonthType
    DEF Tracked, BoardRight, Counted
  <2>11. QED
    BY <1>4, <2>9, <2>10 DEF Tracked
<1>12. QED
  BY <1>7, <1>8, <1>9, <1>10, <1>11 DEF Rebuild

LEMMA ExactRebuild ==
  ASSUME TypeOK, TableInv, ExactInv, NEW j \in Jobs, Rebuild(j)
  PROVE  ExactInv'
<1> SUFFICES ASSUME NEW d \in Drops, d \notin excused'
             PROVE  Tracked(d)'
  BY DEF ExactInv
<1>1. UNCHANGED table /\ OnlyJob(j) /\ Tracked(d)
  BY RebuildIsLocal DEF ExactInv
<1>2. CASE who[j] = owner[d]
  BY <1>1, <1>2, ExactOwnRebuild
<1>3. CASE who[j] # owner[d]
  <2>1. ~Clears(j, d) /\ ~Removes(j, d) /\ ~Sets(j, d) /\ ~Adds(j, d)
    BY <1>3 DEF Clears, Removes, Sets, Adds
  <2>2. /\ month' = month /\ owner' = owner /\ partition' = partition
        /\ at'[d] = at[d] /\ (Visible(d)' <=> Visible(d))
    BY <1>1 DEF table, Visible
  <2>3. /\ WillClear(d) => WillClear(d)'
        /\ WillRemove(d) => WillRemove(d)'
        /\ WillSet(d) => WillSet(d)'
        /\ WillAdd(d) => WillAdd(d)'
    BY <1>1, <2>1, <2>2, OwnWills
  <2>4. month \in Months /\ (partition[d] \in Months \/ at[d] = "none")
    BY DEF TableInv, TypeOK, Months
  <2>5. SeenRight(d)'
    BY <1>1, RebuildSeen DEF Tracked
  <2>6. QED
    BY <1>1, <1>3, <2>2, <2>3, <2>4, <2>5, OtherPlayer, KeepsTracked
<1>4. QED
  BY <1>2, <1>3

\* A month begins with an empty board, and no row is of it.
LEMMA ExactMonth ==
  ASSUME TypeOK, TableInv, ExactInv, NextMonth
  PROVE  ExactInv'
<1> SUFFICES ASSUME NEW d \in Drops, d \notin excused
             PROVE  Tracked(d)'
  BY DEF ExactInv, NextMonth
<1>1. Tracked(d)
  BY DEF ExactInv
<1>2. /\ month' = month + 1 /\ month \in Nat /\ month' \in Months
      /\ UNCHANGED <<owner, at, partition, hidden, keys, boards, jobs>>
  BY LootAssumption DEF NextMonth, TypeOK, Months
<1>3. at[d] = "none" \/ partition[d] # month'
  BY <1>2 DEF TableInv
<1>4. SeenRight(d)'
  BY <1>1, <1>2 DEF Tracked, SeenRight, Rebuilding, UnderWay, Visible, jobs
<1>5. WillSet(d)' = WillSet(d) /\ WillClear(d)' = WillClear(d)
  BY <1>2 DEF WillSet, WillClear, Sets, Clears, Turn, jobs
<1>6. KeysRight(d)'
  BY <1>1, <1>2, <1>5 DEF Tracked, KeysRight, Visible, keys
<1>7. \A m \in Months : m >= month' => board'[m][d] = 0
  BY <1>1, <1>2, MonthType DEF Tracked, BoardRight, boards
<1>8. BoardRight(d)'
  BY <1>2, <1>3, <1>7, MonthType DEF BoardRight, Visible
<1>9. QED
  BY <1>4, <1>6, <1>8 DEF Tracked

LEMMA ExactStep ==
  ASSUME TypeOK, TableInv, OnceInv, ExactInv, [Next]_vars
  PROVE  ExactInv'
<1>1. CASE UNCHANGED vars
  <2>1. UNCHANGED <<month, owner, hidden, jobs, at, partition, loot, board, allTime, excused>>
    BY <1>1 DEF vars, table, keys, boards
  <2>2. \A d \in Drops : month \in Months /\ (partition[d] \in Months \/ at[d] = "none")
    BY DEF TableInv, TypeOK, Months
  <2>3. QED
    BY <2>1, <2>2, Untouched DEF ExactInv
<1>2. QED
  BY <1>1, ExactHandle, ExactChange, ExactRebuild, ExactMonth DEF Next

\* With nothing under way, nothing is left to others.
LEMMA QuietIsExact ==
  ASSUME TypeOK, TableInv, OnceInv, ExactInv
  PROVE  ExactWhenQuiet
<1> SUFFICES ASSUME NEW p \in Players, Quiet(p), NEW d \in Of(p) \ excused, Settled(d)
             PROVE  Right(d)
  BY DEF ExactWhenQuiet
<1>1. d \in Drops /\ owner[d] = p /\ Tracked(d)
  BY DEF Of, ExactInv
<1>2. ~WillClear(d) /\ ~WillRemove(d) /\ ~WillSet(d) /\ ~WillAdd(d)
  BY <1>1, LootAssumption DEF Quiet, WillClear, WillRemove, WillSet, WillAdd, Clears,
     Removes, Sets, Adds
<1>3. at[d] \notin Counted
  BY DEF Settled, Open
<1>4. /\ month \in Months
      /\ Visible(d) => partition[d] \in Months
  BY <1>1 DEF TableInv, TypeOK, Months, Visible
<1>5. \A m \in Months : loot[m][d] = IF Visible(d) /\ partition[d] = m THEN 1 ELSE 0
  BY <1>1, <1>2, <1>3, <1>4 DEF Tracked, KeysRight
<1>6. board[month][d] = IF Visible(d) /\ partition[d] = month THEN 1 ELSE 0
  BY <1>1, <1>2, <1>3, <1>4 DEF Tracked, BoardRight, Counted
<1>7. Visible(d) \/ allTime[d] = 0
  BY <1>1, <1>2, <1>3 DEF Tracked, KeysRight
<1>8. QED
  BY <1>5, <1>6, <1>7 DEF Right

\* When nothing is under way for a player, the total of each month and the current
\* board count exactly the visible drops, the excused ones apart.
THEOREM ExactWhenNothingIsUnderWay == Spec => []ExactWhenQuiet
<1>1. Init => TypeOK /\ TableInv /\ OnceInv /\ ExactInv
  BY TypeInit, TableInit, OnceInit, ExactInit
<1>2. TypeOK /\ TableInv /\ OnceInv /\ ExactInv /\ [Next]_vars
        => TypeOK' /\ TableInv' /\ OnceInv' /\ ExactInv'
  BY TypeAndTableStep, OnceStep, ExactStep
<1>3. TypeOK /\ TableInv /\ OnceInv /\ ExactInv => ExactWhenQuiet
  BY QuietIsExact
<1>4. QED
  BY <1>1, <1>2, <1>3, PTL DEF Spec
=============================================================================
