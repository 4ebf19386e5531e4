------------------------ MODULE EntryModifierProofs ------------------------
(***************************************************************************)
(* Theorems about EntryModifier for every set of players, groups and drops *)
(* and any number of changes, rebuilds and exceptions.                     *)
(*                                                                         *)
(* The properties speak of moments at which nothing is under way; the      *)
(* invariants say what holds meanwhile.  PhasesFit ties the change under   *)
(* way to its drop and rows.  EvenInv: but for a drop whose value is being *)
(* changed, rows are those of one sharing of its value.  PaidDrops,        *)
(* PaidOthers, UnseenKnown: who is paid for which entry at each stage.     *)
(* CellsFit: a score is what drops and shares come to, or somebody has     *)
(* still to write it; ReadersKnow: what a rebuild read is so as long as    *)
(* nothing disturbed it, however old the transaction it read in.           *)
(***************************************************************************)
EXTENDS EntryModifier, FiniteSetTheorems, TLAPS

SplitRow == [drop : Drops, group : Groups, player : Players, value : Nat]
Snapshot == [month : Months, drop : Drops, value : Nat]

Stages == {"strip", "credits", "erase"}
Ops == {"hide", "unhide", "edit", "modify", "delete"}
IdleJobs == {IdleJob}
ChangeJobs ==
  [stage : Stages, op : Ops, drop : Drops, group : Groups,
   names : SUBSET Players, old : SUBSET Players]
WaitingJobs ==
  [stage : {"rebuild"}, todo : Seq(Players) \ {<<>>}, open : BOOLEAN, late : SUBSET Drops]
ReadingJobs ==
  [stage : {"read", "reset"}, todo : Seq(Players), open : BOOLEAN, late : SUBSET Drops, player : Players,
   own : SUBSET Snapshot, shares : SUBSET SplitRow, clash : BOOLEAN]
Jobs == IdleJobs \cup ChangeJobs \cup WaitingJobs \cup ReadingJobs

Types ==
  /\ state \in [Entries -> {"none", "open", "stored", "hidden", "gone"}]
  /\ value \in [Drops -> Nat]
  /\ named \in [Drops -> SUBSET Players]
  /\ pending \in [Drops -> SUBSET Groups]
  /\ rows \subseteq SplitRow
  /\ paid \in [Groups -> [Entries -> [Players -> Nat]]]
  /\ job \in [Actors -> Jobs]
  /\ fetching \subseteq Drops \X Groups

Changing == Bot.stage \in Stages
Reading(a) == job[a].stage \in {"read", "reset"}

\* What the other actor's steps leave of a job.
SameJob(i, j, ps) ==
  IF i.stage \in {"read", "reset"}
  THEN /\ j \in ReadingJobs
       /\ j.stage = i.stage /\ j.todo = i.todo /\ j.player = i.player
       /\ j.own = i.own /\ j.shares = i.shares
       /\ j.clash = (i.clash \/ i.player \in ps)
  ELSE IF i.stage = "rebuild" THEN j \in WaitingJobs /\ j.stage = i.stage /\ j.todo = i.todo
  ELSE j = i

LEMMA JobKinds ==
  ASSUME NEW j \in Jobs
  PROVE  /\ j.stage \in Stages => j \in ChangeJobs
         /\ j.stage = "rebuild" => j \in WaitingJobs
         /\ j.stage \in {"read", "reset"} => j \in ReadingJobs
         /\ j.stage = "idle" => j = IdleJob
         /\ j.stage \in Stages \cup {"rebuild", "read", "reset", "idle"}
BY DEF Jobs, IdleJobs, ChangeJobs, WaitingJobs, ReadingJobs, Stages, IdleJob

LEMMA DisturbedJobs ==
  ASSUME NEW jobs \in [Actors -> Jobs], NEW ps
  PROVE  /\ Disturbed(jobs, ps) \in [Actors -> Jobs]
         /\ \A a \in Actors : SameJob(jobs[a], Disturbed(jobs, ps)[a], ps)
<1>1. ASSUME NEW a \in Actors
      PROVE  Disturbed(jobs, ps)[a] \in Jobs /\ SameJob(jobs[a], Disturbed(jobs, ps)[a], ps)
  <2>1. CASE jobs[a].stage \in {"read", "reset"}
    <3>1. jobs[a] \in ReadingJobs
      BY <2>1, JobKinds
    <3>2. Disturbed(jobs, ps)[a] = IF jobs[a].player \in ps THEN [jobs[a] EXCEPT !.clash = TRUE] ELSE jobs[a]
      BY <2>1 DEF Disturbed
    <3>. QED  BY <2>1, <3>1, <3>2 DEF SameJob, Jobs, ReadingJobs
  <2>2. CASE jobs[a].stage \notin {"read", "reset"}
    BY <2>2, JobKinds DEF Disturbed, SameJob
  <2>. QED  BY <2>1, <2>2
<1>. QED  BY <1>1 DEF Disturbed

\* A commit, besides, is put down as later than the transactions that are open.
LEMMA UnreadJobs ==
  ASSUME NEW jobs \in [Actors -> Jobs], NEW ps, NEW d \in Drops
  PROVE  /\ Unread(Disturbed(jobs, ps), d) \in [Actors -> Jobs]
         /\ \A a \in Actors : SameJob(jobs[a], Unread(Disturbed(jobs, ps), d)[a], ps)
<1>. DEFINE D == Disturbed(jobs, ps)
<1>1. D \in [Actors -> Jobs] /\ \A a \in Actors : SameJob(jobs[a], D[a], ps)
  BY DisturbedJobs
<1>. HIDE DEF D
<1>2. ASSUME NEW a \in Actors
      PROVE  Unread(D, d)[a] \in Jobs /\ SameJob(jobs[a], Unread(D, d)[a], ps)
  <2>. DEFINE i == D[a]
              j == Unread(D, d)[a]
  <2>1. i \in Jobs /\ SameJob(jobs[a], i, ps)
    BY <1>1
  <2>2. j = IF i.stage \in {"rebuild", "read", "reset"} /\ i.open THEN [i EXCEPT !.late = @ \cup {d}] ELSE i
    BY DEF Unread
  <2>. SUFFICES j \in Jobs /\ SameJob(jobs[a], j, ps)
    OBVIOUS
  <2>. HIDE DEF i, j
  <2>3. CASE j = i
    BY <2>1, <2>3
  <2>4. CASE i.stage = "rebuild" /\ j = [i EXCEPT !.late = @ \cup {d}]
    <3>1. i \in WaitingJobs
      BY <2>1, <2>4, JobKinds
    <3>2. j \in WaitingJobs /\ j.stage = i.stage /\ j.todo = i.todo
      BY <2>4, <3>1 DEF WaitingJobs
    <3>3. jobs[a].stage = "rebuild" /\ i.todo = jobs[a].todo
      <4>1. jobs[a].stage \in {"read", "reset"} => i.stage = jobs[a].stage
        BY <2>1 DEF SameJob
      <4>2. jobs[a].stage \notin {"read", "reset", "rebuild"} => i = jobs[a]
        BY <2>1 DEF SameJob
      <4>3. jobs[a].stage = "rebuild"
        BY <2>4, <4>1, <4>2
      <4>. QED  BY <2>1, <4>3 DEF SameJob
    <3>4. j \in Jobs
      BY <3>2 DEF Jobs
    <3>. QED  BY <2>4, <3>2, <3>3, <3>4 DEF SameJob
  <2>5. CASE i.stage \in {"read", "reset"} /\ j = [i EXCEPT !.late = @ \cup {d}]
    <3>1. i \in ReadingJobs
      BY <2>1, <2>5, JobKinds
    <3>2. /\ j \in ReadingJobs /\ j.stage = i.stage /\ j.todo = i.todo /\ j.player = i.player
          /\ j.own = i.own /\ j.shares = i.shares /\ j.clash = i.clash
      BY <2>5, <3>1 DEF ReadingJobs
    <3>3. jobs[a].stage \in {"read", "reset"}
      <4>1. jobs[a].stage \notin {"read", "reset"} => i.stage \notin {"read", "reset"}
        BY <2>1 DEF SameJob
      <4>. QED  BY <2>5, <4>1
    <3>4. j \in Jobs
      BY <3>2 DEF Jobs
    <3>. QED  BY <2>1, <3>2, <3>3, <3>4 DEF SameJob
  <2>. QED  BY <2>2, <2>3, <2>4, <2>5
<1>3. DOMAIN Unread(D, d) = Actors /\ Unread(D, d) = [a \in Actors |-> Unread(D, d)[a]]
  BY DEF Unread
<1>4. Unread(D, d) \in [Actors -> Jobs] /\ \A a \in Actors : SameJob(jobs[a], Unread(D, d)[a], ps)
  BY <1>2, <1>3
<1>. QED  BY <1>4 DEF D

-----------------------------------------------------------------------------
(* Sums.  What a total is, is shown by induction over the size of the set:  *)
(* the set of numbers for which it holds is all of Nat (NatSet).            *)

First(s) == CHOOSE x \in s : TRUE

\* One step of the sum.
Body(it, f, s) == IF s = {} THEN 0 ELSE f[First(s)] + it[s \ {First(s)}]

Summable(S, f) == IsFiniteSet(S) /\ \A x \in S : f[x] \in Int

IsSum(it, f, S) == it = [s \in SUBSET S |-> Body(it, f, s)]

SumOver(it, S, f) == it \in [SUBSET S -> Int] /\ IsSum(it, f, S)

LEMMA NatSet ==
  ASSUME NEW T, 0 \in T, \A n \in Nat : n \in T => n + 1 \in T
  PROVE  Nat \subseteq T
<1>. DEFINE Less == {p \in Nat \X Nat : p[1] < p[2]}
<1>1. IsWellFoundedOn(Less, Nat)
  BY NatLessThanWellFounded DEF OpToRel
<1>2. SUFFICES ASSUME Nat \ T # {} PROVE FALSE
  OBVIOUS
<1>3. PICK m \in Nat \ T : \A n \in Nat \ T : ~(<<n, m>> \in Less)
  BY <1>1, <1>2, WFMin, Nat \ T \subseteq Nat
<1>4. m # 0 /\ m \in Nat
  BY <1>3
<1>5. m - 1 \in Nat /\ m = (m - 1) + 1 /\ m - 1 < m
  BY <1>4
<1>6. m - 1 \in T
  <2>1. SUFFICES ASSUME m - 1 \notin T PROVE FALSE
    OBVIOUS
  <2>2. <<m - 1, m>> \in Less
    BY <1>4, <1>5
  <2>. QED  BY <1>3, <1>5, <2>1, <2>2
<1>. QED  BY <1>3, <1>5, <1>6

LEMMA TotalIs ==
  ASSUME NEW S, NEW f
  PROVE  Total(S, f) = (CHOOSE it : IsSum(it, f, S))[S]
BY DEF Total, SumFunctionOnSet, FoldFunctionOnSet, MapThenFoldSet, IsSum, Body, First

LEMMA FirstLess ==
  ASSUME NEW s, s # {}, IsFiniteSet(s)
  PROVE  /\ First(s) \in s
         /\ Cardinality(s) \in Nat \ {0}
         /\ IsFiniteSet(s \ {First(s)})
         /\ Cardinality(s \ {First(s)}) = Cardinality(s) - 1
<1>1. First(s) \in s
  BY DEF First
<1>. QED  BY <1>1, FS_RemoveElement, FS_CardinalityType, FS_EmptySet

LEMMA SumExists ==
  ASSUME NEW S, IsFiniteSet(S), NEW f, \A x \in S : f[x] \in Int
  PROVE  \E it \in [SUBSET S -> Int] : IsSum(it, f, S)
<1>. DEFINE Upto(n) == \E it \in [SUBSET S -> Int] :
                         \A s \in SUBSET S : Cardinality(s) <= n => it[s] = Body(it, f, s)
            T == {n \in Nat : Upto(n)}
<1>1. \A s \in SUBSET S : IsFiniteSet(s) /\ Cardinality(s) \in Nat
  BY FS_Subset, FS_CardinalityType
<1>2. 0 \in T
  <2>. DEFINE none == [s \in SUBSET S |-> 0]
  <2>1. \A s \in SUBSET S : Cardinality(s) <= 0 => none[s] = Body(none, f, s)
    BY <1>1, FS_EmptySet DEF Body
  <2>2. none \in [SUBSET S -> Int]
    OBVIOUS
  <2>3. Upto(0)
    BY <2>1, <2>2
  <2>. QED  BY <2>3
<1>3. ASSUME NEW n \in Nat, n \in T PROVE n + 1 \in T
  <2>1. PICK it \in [SUBSET S -> Int] :
          \A s \in SUBSET S : Cardinality(s) <= n => it[s] = Body(it, f, s)
    BY <1>3
  <2>. DEFINE next == [s \in SUBSET S |-> Body(it, f, s)]
  <2>2. \A s \in SUBSET S : Body(it, f, s) \in Int
    BY DEF Body, First
  <2>3. next \in [SUBSET S -> Int]
    BY <2>2
  <2>4. ASSUME NEW s \in SUBSET S, Cardinality(s) <= n + 1 PROVE next[s] = Body(next, f, s)
    <3>1. CASE s = {}
      BY <3>1 DEF Body
    <3>2. CASE s # {}
      <4>. DEFINE r == s \ {First(s)}
      <4>1. r \in SUBSET S /\ Cardinality(r) <= n
        BY <1>1, <2>4, <3>2, FirstLess
      <4>2. next[r] = it[r]
        BY <2>1, <4>1
      <4>3. next[s] = f[First(s)] + it[r]
        BY <3>2 DEF Body
      <4>4. Body(next, f, s) = f[First(s)] + next[r]
        BY <3>2 DEF Body
      <4>. QED  BY <4>2, <4>3, <4>4
    <3>. QED  BY <3>1, <3>2
  <2>5. Upto(n + 1)
    BY <2>3, <2>4
  <2>. QED  BY <2>5
<1>4. Cardinality(S) \in T
  <2>. HIDE DEF T
  <2>. QED  BY <1>1, <1>2, <1>3, NatSet
<1>5. PICK it \in [SUBSET S -> Int] :
        \A s \in SUBSET S : Cardinality(s) <= Cardinality(S) => it[s] = Body(it, f, s)
  BY <1>4
<1>6. \A s \in SUBSET S : it[s] = Body(it, f, s)
  BY <1>1, <1>5, FS_Subset
<1>7. it = [s \in SUBSET S |-> Body(it, f, s)]
  BY <1>6
<1>. QED  BY <1>7 DEF IsSum

\* Two sums agree on the sets of both, if what they add does.
LEMMA SumsAgree ==
  ASSUME NEW S, IsFiniteSet(S), NEW T, NEW f, NEW g, NEW it, NEW ju,
         IsSum(it, f, S), IsSum(ju, g, T), \A x \in S \cap T : f[x] = g[x]
  PROVE  \A s \in SUBSET (S \cap T) : it[s] = ju[s]
<1>. DEFINE Agree(n) == \A s \in SUBSET (S \cap T) : Cardinality(s) = n => it[s] = ju[s]
            N == {n \in Nat : Agree(n)}
<1>1. \A s \in SUBSET (S \cap T) :
        /\ IsFiniteSet(s) /\ Cardinality(s) \in Nat
        /\ it[s] = Body(it, f, s) /\ ju[s] = Body(ju, g, s)
  BY FS_Subset, FS_CardinalityType DEF IsSum
<1>2. 0 \in N
  BY <1>1, FS_EmptySet DEF Body
<1>3. ASSUME NEW n \in Nat, n \in N PROVE n + 1 \in N
  <2>1. SUFFICES ASSUME NEW s \in SUBSET (S \cap T), Cardinality(s) = n + 1 PROVE it[s] = ju[s]
    OBVIOUS
  <2>2. s # {}
    BY <2>1, FS_EmptySet
  <2>. DEFINE r == s \ {First(s)}
  <2>3. r \in SUBSET (S \cap T) /\ Cardinality(r) = n /\ First(s) \in S \cap T
    BY <1>1, <2>1, <2>2, FirstLess
  <2>4. it[r] = ju[r] /\ f[First(s)] = g[First(s)]
    BY <1>3, <2>3
  <2>. QED  BY <1>1, <2>2, <2>4 DEF Body
<1>4. Nat \subseteq N
  <2>. HIDE DEF N
  <2>. QED  BY <1>2, <1>3, NatSet
<1>. QED  BY <1>1, <1>4

\* Any element may come first.
LEMMA SumAnyOrder ==
  ASSUME NEW S, NEW f, Summable(S, f), NEW it, SumOver(it, S, f),
         NEW t \in SUBSET S, NEW y \in t
  PROVE  it[t] = f[y] + it[t \ {y}]
<1>. USE DEF Summable, SumOver
<1>. DEFINE SumHolds(n) == \A s \in SUBSET S : Cardinality(s) = n => \A x \in s : it[s] = f[x] + it[s \ {x}]
            N == {n \in Nat : SumHolds(n)}
<1>1. \A s \in SUBSET S : IsFiniteSet(s) /\ Cardinality(s) \in Nat /\ it[s] = Body(it, f, s) /\ it[s] \in Int
  BY FS_Subset, FS_CardinalityType DEF IsSum
<1>2. 0 \in N
  BY <1>1, FS_EmptySet
<1>3. ASSUME NEW n \in Nat, n \in N PROVE n + 1 \in N
  <2>1. SUFFICES ASSUME NEW s \in SUBSET S, Cardinality(s) = n + 1, NEW x \in s
                 PROVE  it[s] = f[x] + it[s \ {x}]
    OBVIOUS
  <2>. DEFINE c == First(s)
  <2>2. c \in s /\ it[s] = f[c] + it[s \ {c}]
    BY <1>1, <2>1, FirstLess DEF Body
  <2>3. CASE x = c
    BY <2>2, <2>3
  <2>4. CASE x # c
    <3>. HIDE DEF c
    <3>1. Cardinality(s \ {c}) = n /\ Cardinality(s \ {x}) = n
      <4>1. IsFiniteSet(s) /\ c \in s /\ Cardinality(s) = n + 1
        BY <1>1, <2>1, <2>2
      <4>2. Cardinality(s \ {c}) = Cardinality(s) - 1 /\ Cardinality(s \ {x}) = Cardinality(s) - 1
        BY <4>1, FS_RemoveElement
      <4>. QED  BY <4>1, <4>2
    <3>2. it[s \ {c}] = f[x] + it[(s \ {c}) \ {x}]
      BY <1>3, <2>4, <3>1
    <3>3. it[s \ {x}] = f[c] + it[(s \ {x}) \ {c}]
      BY <1>3, <2>2, <2>4, <3>1
    <3>4. (s \ {c}) \ {x} = (s \ {x}) \ {c}
      OBVIOUS
    <3>. DEFINE rest == it[(s \ {x}) \ {c}]
    <3>5. f[x] \in Int /\ f[c] \in Int /\ rest \in Int
      BY <2>2, (s \ {x}) \ {c} \in SUBSET S
    <3>6. it[s] = f[c] + (f[x] + rest) /\ it[s \ {x}] = f[c] + rest
      BY <2>2, <3>2, <3>3, <3>4
    <3>. HIDE DEF rest
    <3>. QED  BY <3>5, <3>6
  <2>. QED  BY <2>3, <2>4
<1>4. Nat \subseteq N
  <2>. HIDE DEF N
  <2>. QED  BY <1>2, <1>3, NatSet
<1>. QED  BY <1>1, <1>4

SummedBy(it, S, f) ==
  /\ SumOver(it, S, f)
  /\ \A s \in SUBSET S : Total(s, f) = it[s]

\* What a total is.
LEMMA TotalIsSum ==
  ASSUME NEW S, NEW f, Summable(S, f)
  PROVE  \E it : SummedBy(it, S, f)
<1>1. PICK it \in [SUBSET S -> Int] : IsSum(it, f, S)
  BY SumExists DEF Summable
<1>2. ASSUME NEW s \in SUBSET S PROVE Total(s, f) = it[s]
  <2>1. IsFiniteSet(s) /\ IsFiniteSet(S)
    BY FS_Subset DEF Summable
  <2>. DEFINE ju == CHOOSE ju : IsSum(ju, f, s)
  <2>2. IsSum(ju, f, s)
    BY <2>1, SumExists DEF Summable
  <2>. HIDE DEF ju
  <2>3. \A u \in SUBSET (s \cap S) : ju[u] = it[u]
    BY <1>1, <2>1, <2>2, SumsAgree
  <2>4. Total(s, f) = ju[s]
    BY TotalIs DEF ju
  <2>. QED  BY <2>3, <2>4
<1>. QED  BY <1>1, <1>2 DEF SummedBy, SumOver

\* The sum of no numbers.
LEMMA TotalEmpty ==
  ASSUME NEW f
  PROVE  Total({}, f) = 0
<1>1. PICK it : SummedBy(it, {}, f)
  BY TotalIsSum, FS_EmptySet DEF Summable
<1>. QED  BY <1>1 DEF SummedBy, SumOver, IsSum, Body

LEMMA TotalType ==
  ASSUME NEW S, NEW f, Summable(S, f)
  PROVE  Total(S, f) \in Int
<1>1. PICK it : SummedBy(it, S, f)
  BY TotalIsSum
<1>. QED  BY <1>1 DEF SummedBy, SumOver

\* Any of the numbers may be added last.
LEMMA TotalSplit ==
  ASSUME NEW S, NEW f, Summable(S, f), NEW x \in S
  PROVE  Total(S, f) = f[x] + Total(S \ {x}, f)
<1>1. PICK it : SummedBy(it, S, f)
  BY TotalIsSum
<1>2. S \in SUBSET S /\ S \ {x} \in SUBSET S
  OBVIOUS
<1>3. SumOver(it, S, f)
  BY <1>1 DEF SummedBy
<1>4. it[S] = f[x] + it[S \ {x}]
  BY <1>2, <1>3, SumAnyOrder
<1>. QED  BY <1>1, <1>2, <1>4 DEF SummedBy, SumOver

\* Sums of the same numbers are the same.
LEMMA TotalSame ==
  ASSUME NEW S, NEW f, Summable(S, f), NEW g, \A x \in S : f[x] = g[x]
  PROVE  Total(S, f) = Total(S, g)
<1>1. PICK it : SummedBy(it, S, f)
  BY TotalIsSum
<1>2. Summable(S, g)
  BY DEF Summable
<1>3. PICK ju : SummedBy(ju, S, g)
  BY <1>2, TotalIsSum
<1>4. \A s \in SUBSET (S \cap S) : it[s] = ju[s]
  BY <1>1, <1>3, SumsAgree DEF SummedBy, SumOver, Summable
<1>. QED  BY <1>1, <1>3, <1>4 DEF SummedBy, SumOver

LEMMA SummableSubset ==
  ASSUME NEW S, NEW f, Summable(S, f), NEW T, T \subseteq S
  PROVE  Summable(T, f)
BY FS_Subset DEF Summable

\* Adding up two sets apart.
LEMMA TotalUnion ==
  ASSUME NEW S, NEW T, S \cap T = {}, NEW f, Summable(S, f), Summable(T, f)
  PROVE  Total(S \cup T, f) = Total(S, f) + Total(T, f)
<1>. DEFINE Adds(n) == \A u \in SUBSET T : Cardinality(u) = n =>
                         Total(S \cup u, f) = Total(S, f) + Total(u, f)
            N == {n \in Nat : Adds(n)}
<1>1. \A u \in SUBSET T : IsFiniteSet(u) /\ Cardinality(u) \in Nat /\ Summable(u, f) /\ Summable(S \cup u, f)
  <2>1. ASSUME NEW u \in SUBSET T PROVE IsFiniteSet(u) /\ Cardinality(u) \in Nat /\ IsFiniteSet(S \cup u)
    BY FS_Subset, FS_CardinalityType, FS_Union DEF Summable
  <2>. QED  BY <2>1 DEF Summable
<1>2. Total(S, f) \in Int
  BY TotalType
<1>3. 0 \in N
  <2>1. ASSUME NEW u \in SUBSET T, Cardinality(u) = 0 PROVE Total(S \cup u, f) = Total(S, f) + Total(u, f)
    <3>1. u = {} /\ S \cup u = S
      BY <1>1, <2>1, FS_EmptySet
    <3>. QED  BY <1>2, <3>1, TotalEmpty
  <2>. QED  BY <2>1
<1>4. ASSUME NEW n \in Nat, n \in N PROVE n + 1 \in N
  <2>1. SUFFICES ASSUME NEW u \in SUBSET T, Cardinality(u) = n + 1
                 PROVE  Total(S \cup u, f) = Total(S, f) + Total(u, f)
    OBVIOUS
  <2>2. u # {}
    BY <2>1, FS_EmptySet
  <2>3. PICK x \in u : TRUE
    BY <2>2
  <2>4. u \ {x} \in SUBSET T /\ Cardinality(u \ {x}) = n
    <3>1. IsFiniteSet(u) /\ x \in u
      BY <1>1
    <3>2. Cardinality(u \ {x}) = Cardinality(u) - 1
      BY <3>1, FS_RemoveElement
    <3>. QED  BY <2>1, <3>2
  <2>5. Total(S \cup (u \ {x}), f) = Total(S, f) + Total(u \ {x}, f)
    BY <1>4, <2>4
  <2>6. Total(u, f) = f[x] + Total(u \ {x}, f)
    BY <1>1, TotalSplit
  <2>7. Total(S \cup u, f) = f[x] + Total((S \cup u) \ {x}, f)
    BY <1>1, TotalSplit
  <2>8. (S \cup u) \ {x} = S \cup (u \ {x})
    BY <2>3
  <2>9. f[x] \in Int /\ Total(u \ {x}, f) \in Int
    BY <1>1, <2>4, TotalType DEF Summable
  <2>10. Total(S \cup u, f) = f[x] + (Total(S, f) + Total(u \ {x}, f))
    BY <2>5, <2>7, <2>8
  <2>. QED  BY <1>2, <2>6, <2>9, <2>10
<1>5. Nat \subseteq N
  <2>. HIDE DEF N
  <2>. QED  BY <1>3, <1>4, NatSet
<1>. QED  BY <1>1, <1>5

\* A sum of zeros.
LEMMA TotalZero ==
  ASSUME NEW S, NEW f, IsFiniteSet(S), \A x \in S : f[x] = 0
  PROVE  Total(S, f) = 0
<1>. DEFINE zero == [s \in SUBSET S |-> 0]
<1>1. Summable(S, f)
  BY DEF Summable
<1>2. PICK it : SummedBy(it, S, f)
  BY <1>1, TotalIsSum
<1>3. \A s \in SUBSET S : Body(zero, f, s) = 0
  BY DEF Body, First
<1>4. IsSum(zero, f, S)
  BY <1>3 DEF IsSum
<1>5. \A s \in SUBSET (S \cap S) : it[s] = zero[s]
  <2>. HIDE DEF zero
  <2>. QED  BY <1>2, <1>4, SumsAgree DEF SummedBy, SumOver
<1>. QED  BY <1>2, <1>5 DEF SummedBy, SumOver

\* Numbers that are not negative have a sum that is none, and zero only if they are.
LEMMA TotalOfNat ==
  ASSUME NEW S, NEW f, IsFiniteSet(S), \A x \in S : f[x] \in Nat
  PROVE  Total(S, f) \in Nat
<1>. DEFINE N == {n \in Nat : \A s \in SUBSET S : Cardinality(s) = n => Total(s, f) \in Nat}
<1>1. \A s \in SUBSET S : IsFiniteSet(s) /\ Cardinality(s) \in Nat /\ Summable(s, f)
  BY FS_Subset, FS_CardinalityType DEF Summable
<1>2. 0 \in N
  BY <1>1, FS_EmptySet, TotalEmpty
<1>3. ASSUME NEW n \in Nat, n \in N PROVE n + 1 \in N
  <2>1. SUFFICES ASSUME NEW s \in SUBSET S, Cardinality(s) = n + 1 PROVE Total(s, f) \in Nat
    OBVIOUS
  <2>2. PICK x \in s : TRUE
    BY <2>1, FS_EmptySet
  <2>3. s \ {x} \in SUBSET S /\ Cardinality(s \ {x}) = n
    BY <1>1, <2>1, FS_RemoveElement
  <2>4. Total(s \ {x}, f) \in Nat /\ f[x] \in Nat
    BY <1>3, <2>3
  <2>5. Total(s, f) = f[x] + Total(s \ {x}, f)
    BY <1>1, TotalSplit
  <2>. QED  BY <2>4, <2>5
<1>4. Nat \subseteq N
  <2>. HIDE DEF N
  <2>. QED  BY <1>2, <1>3, NatSet
<1>. QED  BY <1>1, <1>4

-----------------------------------------------------------------------------
(* Shares.                                                                 *)

LEMMA SharesAreRows ==
  ASSUME NEW d \in Drops, NEW g \in Groups, NEW ps \in SUBSET Players, NEW full \in Nat
  PROVE  /\ Shares(d, g, ps, full) \subseteq SplitRow
         /\ IsFiniteSet(Shares(d, g, ps, full))
         /\ Cardinality(Shares(d, g, ps, full)) = Cardinality(ps)
         /\ full \div (1 + Cardinality(ps)) \in Nat
<1>1. IsFiniteSet(ps) /\ Cardinality(ps) \in Nat
  BY SharingAssumption, FS_Subset, FS_CardinalityType
<1>. DEFINE v == full \div (1 + Cardinality(ps))
            f == [p \in ps |-> [drop |-> d, group |-> g, player |-> p, value |-> v]]
<1>2. v \in Nat
  BY <1>1
<1>3. Shares(d, g, ps, full) = {[drop |-> d, group |-> g, player |-> p, value |-> v] : p \in ps}
  BY DEF Shares
<1>. HIDE DEF v
<1>4. f \in Bijection(ps, Shares(d, g, ps, full))
  BY <1>3 DEF Bijection, Injection, IsInjective, Surjection
<1>5. IsFiniteSet(Shares(d, g, ps, full)) /\ Cardinality(Shares(d, g, ps, full)) = Cardinality(ps)
  <2>1. ExistsBijection(ps, Shares(d, g, ps, full))
    BY <1>4 DEF ExistsBijection
  <2>. QED  BY <1>1, <2>1, FS_Bijection
<1>6. Shares(d, g, ps, full) \subseteq SplitRow
  BY <1>2, <1>3 DEF SplitRow
<1>. QED  BY <1>2, <1>5, <1>6 DEF v

LEMMA SharesPlayers ==
  ASSUME NEW d \in Drops, NEW g \in Groups, NEW ps \in SUBSET Players, NEW full \in Nat
  PROVE  PlayersIn(Shares(d, g, ps, full)) = ps
<1>. DEFINE v == full \div (1 + Cardinality(ps))
<1>1. Shares(d, g, ps, full) = {[drop |-> d, group |-> g, player |-> p, value |-> v] : p \in ps}
  BY DEF Shares
<1>. HIDE DEF v
<1>2. ASSUME NEW p \in ps PROVE p \in PlayersIn(Shares(d, g, ps, full))
  <2>. DEFINE r == [drop |-> d, group |-> g, player |-> p, value |-> v]
  <2>1. r \in Shares(d, g, ps, full) /\ r.player = p
    BY <1>1
  <2>. QED  BY <2>1 DEF PlayersIn
<1>. QED  BY <1>1, <1>2 DEF PlayersIn

\* Players are put in a row, each of them.
LEMMA PlayersInARow ==
  ASSUME NEW ps \in SUBSET Players
  PROVE  /\ SetToSeq(ps) \in Seq(Players)
         /\ ToSet(SetToSeq(ps)) = ps
<1>1. IsFiniteSet(ps)
  BY SharingAssumption, FS_Subset
<1>2. Cardinality(ps) \in Nat /\ ExistsBijection(1..Cardinality(ps), ps)
  BY <1>1, FS_CardinalityType
<1>. DEFINE ok(f) == f \in [1..Cardinality(ps) -> ps] /\ IsInjective(f)
<1>3. \E f : ok(f)
  BY <1>2 DEF ExistsBijection, Bijection, Injection
<1>4. ok(SetToSeq(ps))
  <2>. HIDE DEF ok
  <2>1. ok(CHOOSE f : ok(f))
    BY <1>3
  <2>2. SetToSeq(ps) = CHOOSE f : ok(f)
    BY DEF SetToSeq, ok
  <2>. QED  BY <2>1, <2>2
<1>5. SetToSeq(ps) \in Seq(ps)
  BY <1>2, <1>4
<1>6. SetToSeq(ps) \in Surjection(1..Cardinality(ps), ps)
  <2>1. Cardinality(1..Cardinality(ps)) = Cardinality(ps)
    BY <1>2, FS_Interval
  <2>2. SetToSeq(ps) \in Injection(1..Cardinality(ps), ps)
    BY <1>4 DEF Injection
  <2>. QED  BY <1>1, <2>1, <2>2, FS_Injection
<1>7. ToSet(SetToSeq(ps)) = ps
  BY <1>4, <1>6 DEF ToSet, Surjection
<1>. QED  BY <1>5, <1>7

-----------------------------------------------------------------------------
(* Types.                                                                  *)

Payments == [Groups -> [Entries -> [Players -> Nat]]]

LEMMA PaymentType ==
  ASSUME NEW d, NEW ps, NEW g
  PROVE  /\ Payment(d, ps, g) \in [Players -> Nat]
         /\ \A p \in Players : Payment(d, ps, g)[p] <= 1
BY DEF Payment

\* What a payment adds.
LEMMA PaidType ==
  ASSUME paid \in Payments, NEW d \in Entries, NEW pays,
         \A g \in DOMAIN pays : pays[g] \in [Players -> Nat]
  PROVE  /\ Paid(pays, d) \in Payments
         /\ \A g \in Groups, e \in Entries, p \in Players :
              Paid(pays, d)[g][e][p] =
                paid[g][e][p] + IF g \in DOMAIN pays /\ e = d THEN pays[g][p] ELSE 0
<1>1. ASSUME NEW g \in Groups
      PROVE  /\ Paid(pays, d)[g] \in [Entries -> [Players -> Nat]]
             /\ \A e \in Entries, p \in Players :
                  Paid(pays, d)[g][e][p] =
                    paid[g][e][p] + IF g \in DOMAIN pays /\ e = d THEN pays[g][p] ELSE 0
  <2>1. paid[g] \in [Entries -> [Players -> Nat]]
    BY DEF Payments
  <2>2. CASE g \in DOMAIN pays
    <3>. DEFINE sum == [p \in Players |-> paid[g][d][p] + pays[g][p]]
    <3>1. sum \in [Players -> Nat]
      BY <2>1, <2>2
    <3>2. Paid(pays, d)[g] = [paid[g] EXCEPT ![d] = sum]
      BY <2>1, <2>2 DEF Paid
    <3>3. \A p \in Players : sum[p] = paid[g][d][p] + pays[g][p]
      OBVIOUS
    <3>. HIDE DEF sum
    <3>4. ASSUME NEW e \in Entries, NEW p \in Players
          PROVE  Paid(pays, d)[g][e][p] = paid[g][e][p] + IF g \in DOMAIN pays /\ e = d THEN pays[g][p] ELSE 0
      <4>1. paid[g][e][p] \in Nat
        BY <2>1
      <4>2. CASE e = d
        BY <2>1, <2>2, <3>2, <3>3, <4>2
      <4>3. CASE e # d
        BY <2>1, <3>2, <4>1, <4>3
      <4>. QED  BY <4>2, <4>3
    <3>. QED  BY <2>1, <3>1, <3>2, <3>4
  <2>3. CASE g \notin DOMAIN pays
    <3>1. Paid(pays, d)[g] = paid[g]
      BY <2>3 DEF Paid
    <3>. QED  BY <2>1, <2>3, <3>1
  <2>. QED  BY <2>2, <2>3
<1>. QED  BY <1>1 DEF Paid, Payments

LEMMA UnpaidType ==
  ASSUME paid \in Payments, NEW d \in Drops, NEW gs
  PROVE  /\ Unpaid(d, gs) \in Payments
         /\ \A g \in Groups, e \in Entries :
              Unpaid(d, gs)[g][e] = IF g \in gs /\ e \in SameNumber(d) THEN NoPay ELSE paid[g][e]
BY DEF Unpaid, Payments, NoPay

LEMMA BotMoves ==
  ASSUME job \in [Actors -> Jobs], NEW ps, NEW x \in Jobs,
         job' = [Disturbed(job, ps) EXCEPT !["bot"] = x]
  PROVE  /\ job' \in [Actors -> Jobs] /\ job'["bot"] = x
         /\ SameJob(job["updater"], job'["updater"], ps)
<1>1. "bot" \in Actors /\ "updater" \in Actors
  BY DEF Actors
<1>. QED  BY <1>1, DisturbedJobs

\* A change that begins.
LEMMA BotGoes ==
  ASSUME job \in [Actors -> Jobs], NEW d \in Drops, NEW g \in Groups, NEW ps \in SUBSET Players,
         NEW stage \in Stages, NEW op \in Ops, Goes(stage, op, d, g, ps)
  PROVE  /\ job' \in [Actors -> Jobs]
         /\ job'["bot"] = [stage |-> stage, op |-> op, drop |-> d, group |-> g, names |-> ps, old |-> {}]
         /\ SameJob(job["updater"], job'["updater"], Concerned(d))
<1>. DEFINE x == [stage |-> stage, op |-> op, drop |-> d, group |-> g, names |-> ps, old |-> {}]
<1>1. x \in ChangeJobs
  BY DEF ChangeJobs
<1>2. job' = [Disturbed(job, Concerned(d)) EXCEPT !["bot"] = x]
  BY DEF Goes
<1>3. x \in Jobs
  BY <1>1 DEF Jobs
<1>. HIDE DEF x
<1>4. job' \in [Actors -> Jobs] /\ job'["bot"] = x
      /\ SameJob(job["updater"], job'["updater"], Concerned(d))
  BY <1>2, <1>3, BotMoves
<1>. QED  BY <1>4 DEF x

\* The end of a change: its players are rebuilt.
LEMMA BotTurns ==
  ASSUME job \in [Actors -> Jobs], NEW d \in Drops, NEW ps \in SUBSET Players,
         (\E open \in BOOLEAN : FirstReceiver(d, ps, open)) \/ LastReceiver(d, ps)
  PROVE  /\ job' \in [Actors -> Jobs]
         /\ job'["bot"].stage = "rebuild"
         /\ job'["bot"].todo \in Seq(Players) \ {<<>>}
         /\ ToSet(job'["bot"].todo) = ps \cup {Receiver[d]}
         /\ SameJob(job["updater"], job'["updater"], ps \cup {Receiver[d]})
<1>. DEFINE s == SetToSeq(ps)
<1>1. s \in Seq(Players) /\ ToSet(s) = ps /\ Receiver[d] \in Players
  BY PlayersInARow, SharingAssumption
<1>. HIDE DEF s
<1>2. PICK t \in {<<Receiver[d]>> \o s, Append(s, Receiver[d])}, open \in BOOLEAN : Turns(t, open)
  BY DEF FirstReceiver, LastReceiver, s
<1>3. t \in Seq(Players) /\ t # <<>>
  <2>1. Append(s, Receiver[d]) \in Seq(Players) /\ Len(Append(s, Receiver[d])) = Len(s) + 1
    BY <1>1
  <2>2. <<Receiver[d]>> \o s \in Seq(Players) /\ Len(<<Receiver[d]>> \o s) = 1 + Len(s)
    BY <1>1
  <2>3. Len(s) \in Nat
    BY <1>1
  <2>4. t \in Seq(Players)
    BY <1>2, <2>1, <2>2
  <2>5. Len(t) = Len(s) + 1
    BY <1>2, <2>1, <2>2, <2>3
  <2>6. Len(<<>>) = 0
    OBVIOUS
  <2>. QED  BY <2>3, <2>4, <2>5, <2>6
<1>4. ToSet(t) = ps \cup {Receiver[d]}
  <2>1. CASE t = <<Receiver[d]>> \o s
    <3>1. Len(t) = 1 + Len(s) /\ t[1] = Receiver[d] /\ \A i \in 1..Len(s) : t[i + 1] = s[i]
      BY <1>1, <2>1
    <3>2. ASSUME NEW i \in 1..Len(t) PROVE t[i] \in ps \cup {Receiver[d]}
      <4>1. CASE i = 1
        BY <3>1, <4>1
      <4>2. CASE i # 1
        <5>1. i - 1 \in 1..Len(s) /\ i = (i - 1) + 1
          BY <1>1, <3>1, <4>2
        <5>2. t[i] = s[i - 1]
          BY <3>1, <5>1
        <5>. QED  BY <1>1, <5>1, <5>2 DEF ToSet
      <4>. QED  BY <4>1, <4>2
    <3>3. ASSUME NEW p \in ps PROVE p \in ToSet(t)
      <4>1. PICK i \in 1..Len(s) : s[i] = p
        BY <1>1 DEF ToSet
      <4>2. i + 1 \in 1..Len(t) /\ t[i + 1] = p
        BY <1>1, <3>1, <4>1
      <4>. QED  BY <1>3, <4>2 DEF ToSet
    <3>4. Receiver[d] \in ToSet(t)
      <4>1. 1 \in DOMAIN t
        BY <1>1, <1>3, <3>1
      <4>. QED  BY <3>1, <4>1 DEF ToSet
    <3>. QED  BY <1>3, <3>2, <3>3, <3>4 DEF ToSet
  <2>2. CASE t = Append(s, Receiver[d])
    <3>1. Len(t) = Len(s) + 1 /\ t[Len(s) + 1] = Receiver[d] /\ \A i \in 1..Len(s) : t[i] = s[i]
      BY <1>1, <2>2
    <3>2. ASSUME NEW i \in 1..Len(t) PROVE t[i] \in ps \cup {Receiver[d]}
      BY <1>1, <3>1 DEF ToSet
    <3>3. ASSUME NEW p \in ps PROVE p \in ToSet(t)
      <4>1. PICK i \in 1..Len(s) : s[i] = p
        BY <1>1 DEF ToSet
      <4>2. i \in 1..Len(t) /\ t[i] = p
        BY <1>1, <3>1, <4>1
      <4>. QED  BY <1>3, <4>2 DEF ToSet
    <3>4. Receiver[d] \in ToSet(t)
      <4>1. Len(s) + 1 \in DOMAIN t
        BY <1>1, <1>3, <3>1
      <4>. QED  BY <3>1, <4>1 DEF ToSet
    <3>. QED  BY <1>3, <3>2, <3>3, <3>4 DEF ToSet
  <2>. QED  BY <1>2, <2>1, <2>2
<1>. DEFINE x == Turn(t, open, {})
<1>5. x \in Jobs /\ job' = [Disturbed(job, ToSet(t)) EXCEPT !["bot"] = x]
  BY <1>2, <1>3 DEF Turns, Turn, Jobs, WaitingJobs
<1>6. x.stage = "rebuild" /\ x.todo = t
  BY DEF Turn
<1>. HIDE DEF x
<1>7. job' \in [Actors -> Jobs] /\ job'["bot"] = x
      /\ SameJob(job["updater"], job'["updater"], ToSet(t))
  BY <1>5, BotMoves
<1>. QED  BY <1>3, <1>4, <1>6, <1>7

\* The variables an administrator's first step may change, but for the job.
LEMMA ChangeTypes ==
  ASSUME Types, NEW d \in Drops, NEW g \in Groups,
         \/ StartHide(d, g) \/ Hide(d, g) \/ HideNothing(d, g) \/ Unhide(d, g) \/ Delete(d, g)
         \/ \E v \in Values : Edit(d, g, v)
         \/ \E ps \in Namings : ModifySplits(d, g, ps)
  PROVE  Types'
<1>. USE DEF Types
<1>1. paid \in Payments /\ d \in Entries
  BY DEF Payments, Entries
<1>2. \A gs : Unpaid(d, gs) \in Payments
  BY <1>1, UnpaidType
<1>3. \A ps \in Namings : ps \in SUBSET Players
  BY SharingAssumption
<1>4. CASE StartHide(d, g) \/ HideNothing(d, g)
  BY <1>4 DEF StartHide, HideNothing, table, entries
<1>5. CASE Hide(d, g)
  <2>1. job' \in [Actors -> Jobs]
    BY <1>5, BotGoes DEF Hide, Stages, Ops
  <2>. QED  BY <1>2, <1>5, <2>1 DEF Hide, Payments
<1>6. CASE Unhide(d, g)
  <2>1. job' \in [Actors -> Jobs]
    BY <1>6, BotGoes DEF Unhide, Stages, Ops
  <2>. QED  BY <1>6, <2>1 DEF Unhide
<1>7. CASE Delete(d, g)
  <2>1. job' \in [Actors -> Jobs]
    BY <1>7, BotGoes DEF Delete, Stages, Ops
  <2>. QED  BY <1>7, <2>1 DEF Delete, table, entries
<1>8. ASSUME NEW v \in Values, Edit(d, g, v) PROVE Types'
  <2>1. job' \in [Actors -> Jobs]
    <3>1. SplitNames(d, g) \in SUBSET Players
      BY DEF SplitNames
    <3>. QED  BY <1>8, <3>1, BotGoes DEF Edit, Stages, Ops
  <2>2. v \in Nat
    BY SharingAssumption
  <2>. QED  BY <1>2, <1>8, <2>1, <2>2 DEF Edit, Payments
<1>9. ASSUME NEW ps \in Namings, ModifySplits(d, g, ps) PROVE Types'
  <2>1. job' \in [Actors -> Jobs]
    BY <1>3, <1>9, BotGoes DEF ModifySplits, Stages, Ops
  <2>. QED  BY <1>2, <1>9, <2>1 DEF ModifySplits, entries, Payments
<1>. QED  BY <1>4, <1>5, <1>6, <1>7, <1>8, <1>9

\* Drops and other entries that come in.
LEMMA SharersType ==
  ASSUME Types, NEW d \in Drops, NEW g \in Groups
  PROVE  Sharers(d, g) \in SUBSET Players /\ Sharers(d, g) \subseteq Member[g]
BY SharingAssumption DEF Types, Sharers

LEMMA ArrivalTypes ==
  ASSUME Types, NEW d \in Drops,
         \/ \E ps \in Namings : Submit(d, ps)
         \/ \E g \in Groups : ShareOut(d, g) \/ ShareFails(d, g)
         \/ Commit(d) \/ RollBack(d)
  PROVE  Types'
<1>. USE DEF Types
<1>1. paid \in Payments /\ d \in Entries
  BY DEF Payments, Entries
<1>2. \A ps : Disturbed(job, ps) \in [Actors -> Jobs]
  BY DisturbedJobs
<1>3. ASSUME NEW ps \in Namings, Submit(d, ps) PROVE Types'
  <2>1. ps \in SUBSET Players /\ GroupsOf(Receiver[d]) \in SUBSET Groups
    BY SharingAssumption DEF GroupsOf
  <2>. QED  BY <1>1, <1>2, <1>3, <2>1 DEF Submit
<1>4. ASSUME NEW g \in Groups,
             pending' = [pending EXCEPT ![d] = @ \ {g}],
             paid' = Paid([h \in {g} |-> Payment(d, named[d], h)], d),
             \/ rows' = rows
             \/ \E rs \in SUBSET Shares(d, g, Sharers(d, g), value[d]) : rows' = rows \cup rs,
             \E ps : job' = Disturbed(job, ps),
             UNCHANGED <<state, value, named, fetching>>
      PROVE  Types'
  <2>1. Shares(d, g, Sharers(d, g), value[d]) \subseteq SplitRow
    BY SharersType, SharesAreRows
  <2>2. rows' \subseteq SplitRow
    BY <1>4, <2>1
  <2>3. paid' \in Payments
    <3>. DEFINE pays == [h \in {g} |-> Payment(d, named[d], h)]
    <3>1. \A h \in DOMAIN pays : pays[h] \in [Players -> Nat]
      BY PaymentType
    <3>. HIDE DEF pays
    <3>2. paid' = Paid(pays, d)
      BY <1>4 DEF pays
    <3>. QED  BY <1>1, <3>1, <3>2, PaidType
  <2>. QED  BY <1>2, <1>4, <2>2, <2>3 DEF Payments
<1>5. ASSUME NEW g \in Groups, ShareOut(d, g) PROVE Types'
  <2>1. \/ rows' = rows
        \/ \E rs \in SUBSET Shares(d, g, Sharers(d, g), value[d]) : rows' = rows \cup rs
    BY <1>5 DEF ShareOut
  <2>2. \E ps : job' = Disturbed(job, ps)
    BY <1>5 DEF ShareOut
  <2>. QED  BY <1>4, <1>5, <2>1, <2>2 DEF ShareOut
<1>6. ASSUME NEW g \in Groups, ShareFails(d, g) PROVE Types'
  <2>1. \E rs \in SUBSET Shares(d, g, Sharers(d, g), value[d]) : rows' = rows \cup rs
    BY <1>6 DEF ShareFails
  <2>2. \E ps : job' = Disturbed(job, ps)
    BY <1>6 DEF ShareFails
  <2>. QED  BY <1>4, <1>6, <2>1, <2>2 DEF ShareFails
<1>7. CASE Commit(d)
  <2>1. job' \in [Actors -> Jobs]
    BY <1>7, UnreadJobs DEF Commit
  <2>. QED  BY <1>1, <1>7, <2>1 DEF Commit
<1>8. CASE RollBack(d)
  <2>1. rows' \subseteq SplitRow
    BY <1>8 DEF RollBack
  <2>2. paid' \in [Groups -> [Entries -> [Players -> Nat]]]
    BY <1>1, <1>8 DEF RollBack, NoPay
  <2>. QED  BY <1>1, <1>2, <1>8, <2>1, <2>2 DEF RollBack
<1>. QED  BY <1>3, <1>5, <1>6, <1>7, <1>8

LEMMA AchieveTypes ==
  ASSUME Types, NEW o \in Others, Achieve(o)
  PROVE  Types'
<1>1. o \in Entries
  BY DEF Entries
<1>2. paid' \in [Groups -> [Entries -> [Players -> Nat]]]
  BY <1>1 DEF Types, Achieve
<1>. QED  BY <1>1, <1>2 DEF Types, Achieve

\* What is known of a change under way.
LEMMA ChangeJob ==
  ASSUME Types, Changing
  PROVE  /\ Bot \in ChangeJobs /\ Bot.drop \in Drops /\ Bot.drop \in Entries /\ Bot.group \in Groups
         /\ Bot.names \in SUBSET Players /\ Bot.old \in SUBSET Players
         /\ Bot.stage \in Stages /\ Bot.op \in Ops
<1>1. Bot \in Jobs
  BY DEF Types, Bot, Actors
<1>2. Bot \in ChangeJobs
  BY <1>1, JobKinds DEF Changing
<1>. QED  BY <1>2 DEF ChangeJobs, Entries

LEMMA RowPlayers ==
  ASSUME Types, NEW rs, rs \subseteq rows
  PROVE  PlayersIn(rs) \in SUBSET Players
BY DEF Types, PlayersIn, SplitRow

\* The second step of a change of splits.
LEMMA StripGoes ==
  ASSUME Types, Changing, NEW ps, NEW os \in SUBSET Players,
         job' = [Disturbed(job, ps) EXCEPT !["bot"].stage = "credits", !["bot"].old = os]
  PROVE  /\ job' \in [Actors -> Jobs]
         /\ job'["bot"] = [Bot EXCEPT !.stage = "credits", !.old = os]
         /\ SameJob(job["updater"], job'["updater"], ps)
<1>. DEFINE x == [Bot EXCEPT !.stage = "credits", !.old = os]
<1>1. Bot \in ChangeJobs
  BY ChangeJob
<1>2. x \in Jobs
  BY <1>1 DEF Jobs, ChangeJobs, Stages
<1>3. "bot" \in Actors /\ Bot = job["bot"] /\ Bot.stage \notin {"rebuild", "read", "reset"}
  BY DEF Actors, Bot, Changing, Stages
<1>4. Disturbed(job, ps) \in [Actors -> Jobs] /\ Disturbed(job, ps)["bot"] = Bot
  BY <1>3, DisturbedJobs DEF Types, SameJob
<1>5. job' = [Disturbed(job, ps) EXCEPT !["bot"] = x]
  BY <1>1, <1>3, <1>4
<1>. HIDE DEF x
<1>6. job' \in [Actors -> Jobs] /\ job'["bot"] = x /\ SameJob(job["updater"], job'["updater"], ps)
  BY <1>2, <1>5, BotMoves DEF Types
<1>. QED  BY <1>6 DEF x

LEMMA ChangeEnds ==
  ASSUME Types, NEW ps, job' = [Disturbed(job, ps) EXCEPT !["bot"] = IdleJob]
  PROVE  /\ job' \in [Actors -> Jobs]
         /\ job'["bot"] = IdleJob
         /\ SameJob(job["updater"], job'["updater"], ps)
BY BotMoves DEF Types, Jobs, IdleJobs

\* Those a drop is paid to anew.
LEMMA RepayType ==
  ASSUME Types, NEW d \in Drops, NEW g
  PROVE  /\ Repay(d) = [h \in GroupsOf(Receiver[d]) |-> Repay(d)[h]]
         /\ DOMAIN Repay(d) = GroupsOf(Receiver[d])
         /\ \A h \in DOMAIN Repay(d) : Repay(d)[h] \in [Players -> Nat]
         /\ \A h \in DOMAIN Repay(d), p \in Players : Repay(d)[h][p] <= 1
         /\ Paid(Repay(d), d) \in Payments
<1>1. DOMAIN Repay(d) = GroupsOf(Receiver[d])
      /\ \A h \in GroupsOf(Receiver[d]) : Repay(d)[h] = Payment(d, SplitNames(d, h), h)
  BY DEF Repay
<1>2. \A h \in DOMAIN Repay(d) : Repay(d)[h] \in [Players -> Nat]
                                /\ \A p \in Players : Repay(d)[h][p] <= 1
  BY <1>1, PaymentType
<1>3. paid \in Payments /\ d \in Entries
  BY DEF Types, Payments, Entries
<1>4. Paid(Repay(d), d) \in Payments
  BY <1>2, <1>3, PaidType
<1>. QED  BY <1>1, <1>2, <1>4 DEF Repay

LEMMA FollowTypes ==
  ASSUME Types, Follow
  PROVE  Types'
<1>. DEFINE d == Bot.drop
            g == Bot.group
<1>1. Changing
  BY DEF Follow, AfterHide, AfterUnhide, AfterEdit, Strip, AfterModify, Erase, ChangeFails,
         At_, Changing, Stages
<1>2. d \in Drops /\ g \in Groups /\ Bot.names \in SUBSET Players /\ Bot.old \in SUBSET Players
  BY <1>1, ChangeJob
<1>3. \A ps : Unpaid(d, ps) \in Payments
  BY <1>2, UnpaidType DEF Types, Payments
<1>4. Tracked(d, g) \subseteq rows /\ RowsOf(d) \subseteq rows
  BY DEF Tracked, RowsIn, RowsOf
<1>5. PlayersIn(Tracked(d, g)) \in SUBSET Players /\ PlayersIn(RowsOf(d)) \in SUBSET Players
  BY <1>4, RowPlayers
<1>6. CASE AfterHide
  <2>1. job' \in [Actors -> Jobs]
    BY <1>2, <1>5, <1>6, BotTurns DEF AfterHide, Types
  <2>. QED  BY <1>6, <2>1 DEF AfterHide, Types, table, entries
<1>7. CASE AfterUnhide
  <2>1. job' \in [Actors -> Jobs]
    BY <1>2, <1>5, <1>7, BotTurns DEF AfterUnhide, Types
  <2>2. paid' \in Payments
    BY <1>2, <1>7, RepayType DEF AfterUnhide
  <2>. QED  BY <1>7, <2>1, <2>2 DEF AfterUnhide, Types, entries, Payments
<1>8. CASE AfterEdit
  <2>. DEFINE gs == {h \in GroupsOf(Receiver[d]) : Tracked(d, h) # {}}
  <2>1. \A h \in gs : RowsIn(d, h) \subseteq rows
    BY DEF RowsIn, RowsOf
  <2>2. UNION {PlayersIn(RowsIn(d, h)) : h \in gs} \in SUBSET Players
    BY <2>1, RowPlayers
  <2>3. job' \in [Actors -> Jobs]
    BY <1>2, <1>8, <2>2, BotTurns DEF AfterEdit, Types
  <2>4. paid' \in Payments
    BY <1>2, <1>8, RepayType DEF AfterEdit
  <2>5. \A h \in gs : Revalued(d, h) \subseteq SplitRow
    <3>1. \A h \in gs : h \in Groups /\ PlayersIn(RowsIn(d, h)) \in SUBSET Players
      BY <2>1, RowPlayers DEF GroupsOf
    <3>. QED  BY <1>2, <3>1, SharesAreRows DEF Revalued, Types
  <2>6. rows' = {r \in rows : ~(r.drop = d /\ r.group \in gs)} \cup UNION {Revalued(d, h) : h \in gs}
    BY <1>8 DEF AfterEdit
  <2>7. rows' \subseteq SplitRow
    <3>1. UNION {Revalued(d, h) : h \in gs} \subseteq SplitRow
      BY <2>5
    <3>. QED  BY <2>6, <3>1 DEF Types
  <2>. QED  BY <1>8, <2>3, <2>4, <2>7 DEF AfterEdit, Types, entries, Payments
<1>9. CASE Strip
  <2>1. job' \in [Actors -> Jobs]
    BY <1>1, <1>5, <1>9, StripGoes DEF Strip
  <2>. QED  BY <1>9, <2>1 DEF Strip, Types, entries
<1>10. CASE AfterModify
  <2>. DEFINE ps == IF g \in Tracking THEN Bot.names \cap Member[g] ELSE {}
              rs == Shares(d, g, ps, value[d])
  <2>1. ps \in SUBSET Players /\ value[d] \in Nat
    BY <1>2 DEF Types
  <2>2. rs \subseteq SplitRow /\ PlayersIn(rs) = ps
    <3>. DEFINE full == value[d]
    <3>1. full \in Nat /\ rs = Shares(d, g, ps, full)
      BY <2>1
    <3>. HIDE DEF d, g, ps, rs, full
    <3>. QED  BY <1>2, <2>1, <3>1, SharesAreRows, SharesPlayers
  <2>3. job' \in [Actors -> Jobs]
    <3>1. \E open \in BOOLEAN : FirstReceiver(d, Bot.old \cup PlayersIn(rs), open)
      BY <1>10 DEF AfterModify
    <3>2. Bot.old \cup PlayersIn(rs) \in SUBSET Players
      BY <1>2, <2>1, <2>2
    <3>. HIDE DEF d, g, ps, rs
    <3>. QED  BY <1>2, <3>1, <3>2, BotTurns DEF Types
  <2>4. paid' \in Payments
    <3>. DEFINE pays == [h \in {g} |-> Payment(d, Bot.names, h)]
    <3>1. \A h \in DOMAIN pays : pays[h] \in [Players -> Nat]
      BY PaymentType
    <3>2. paid' = Paid(pays, d)
      BY <1>10 DEF AfterModify
    <3>. HIDE DEF pays
    <3>. QED  BY <1>2, <3>1, <3>2, PaidType DEF Types, Payments, Entries
  <2>5. rows' = rows \cup rs
    BY <1>10 DEF AfterModify
  <2>. QED  BY <1>10, <2>2, <2>3, <2>4, <2>5 DEF AfterModify, Types, entries, Payments
<1>11. CASE Erase
  <2>1. job' \in [Actors -> Jobs]
    BY <1>2, <1>5, <1>11, BotTurns DEF Erase, Types
  <2>. QED  BY <1>2, <1>3, <1>11, <2>1 DEF Erase, Types, Payments, Entries
<1>12. CASE ChangeFails
  <2>1. job' \in [Actors -> Jobs]
    BY <1>12, ChangeEnds DEF ChangeFails
  <2>. QED  BY <1>12, <2>1 DEF ChangeFails, Types, table, entries
<1>. QED  BY <1>6, <1>7, <1>8, <1>9, <1>10, <1>11, <1>12 DEF Follow

-----------------------------------------------------------------------------
(* Rebuilding: only jobs change, and boards.                               *)

\* What is read for a rebuild.
ReadJob(a, p) ==
  LET late == job[a].late IN
  [stage |-> "read", todo |-> Tail(job[a].todo), open |-> TRUE, late |-> late, player |-> p,
   own |-> {[month |-> Month[d], drop |-> d, value |-> value[d]] : d \in OwnDrops(p) \ late},
   shares |-> {r \in OwnShares(p) : r.drop \notin late},
   clash |-> Overlaps(a, p) \/ InFlux(p) \/ \E d \in late : p \in Concerned(d)]

LEMMA ReaderMoves ==
  ASSUME Types, NEW a \in Actors, NEW ps, NEW x \in Jobs,
         job' = [Disturbed(job, ps) EXCEPT ![a] = x]
  PROVE  /\ job' \in [Actors -> Jobs] /\ job'[a] = x
         /\ \A b \in Actors \ {a} : SameJob(job[b], job'[b], ps)
BY DisturbedJobs DEF Types

LEMMA ReadingJob ==
  ASSUME Types, NEW a \in Actors, Reading(a)
  PROVE  job[a] \in ReadingJobs
BY JobKinds DEF Types, Reading

LEMMA ReadMoves ==
  ASSUME Types, NEW a \in Actors, NEW p \in Players, Read(a, p)
  PROVE  /\ job' \in [Actors -> Jobs] /\ job'[a] = ReadJob(a, p)
         /\ \A b \in Actors \ {a} : SameJob(job[b], job'[b], {p})
         /\ UNCHANGED <<table, board, fetching, spent, history>>
<1>1. job[a] \in WaitingJobs
  BY JobKinds DEF Types, Read
<1>2. Tail(job[a].todo) \in Seq(Players)
  BY <1>1 DEF WaitingJobs
<1>3. \A d \in OwnDrops(p) : [month |-> Month[d], drop |-> d, value |-> value[d]] \in Snapshot
  BY DEF OwnDrops, Snapshot, Months, Types
<1>4. OwnShares(p) \subseteq SplitRow
  BY DEF OwnShares, Types
<1>5. (Overlaps(a, p) \/ InFlux(p) \/ \E d \in job[a].late : p \in Concerned(d)) \in BOOLEAN
      /\ job[a].late \in SUBSET Drops
  BY <1>1 DEF WaitingJobs
<1>6. ReadJob(a, p) \in ReadingJobs
  BY <1>2, <1>3, <1>4, <1>5 DEF ReadJob, ReadingJobs
<1>7. job' = [Disturbed(job, {p}) EXCEPT ![a] = ReadJob(a, p)]
  BY DEF Read, ReadJob
<1>8. ReadJob(a, p) \in Jobs
  BY <1>6 DEF Jobs
<1>9. UNCHANGED <<table, board, fetching, spent, history>>
  BY DEF Read
<1>. QED  BY <1>7, <1>8, <1>9, ReaderMoves

LEMMA ResetMoves ==
  ASSUME Types, NEW a \in Actors, Reset(a)
  PROVE  /\ job' \in [Actors -> Jobs] /\ job'[a] = [job[a] EXCEPT !.stage = "reset"]
         /\ \A b \in Actors \ {a} : SameJob(job[b], job'[b], {job[a].player})
<1>. DEFINE x == [job[a] EXCEPT !.stage = "reset"]
            D == Disturbed(job, {job[a].player})
<1>1. job[a] \in ReadingJobs /\ job[a].stage = "read"
  BY ReadingJob DEF Reset, Reading
<1>2. D \in [Actors -> Jobs] /\ SameJob(job[a], D[a], {job[a].player})
  BY DisturbedJobs DEF Types
<1>3. D[a] \in ReadingJobs /\ D[a].todo = job[a].todo /\ D[a].player = job[a].player
      /\ D[a].own = job[a].own /\ D[a].shares = job[a].shares
  BY <1>1, <1>2 DEF SameJob
<1>4. [[D[a] EXCEPT !.stage = "reset"] EXCEPT !.clash = job[a].clash] = x
  <2>1. D[a] = [job[a] EXCEPT !.clash = TRUE]
    BY <1>1 DEF Disturbed
  <2>. QED  BY <1>1, <2>1 DEF ReadingJobs
<1>5. job' = [D EXCEPT ![a] = [[D[a] EXCEPT !.stage = "reset"] EXCEPT !.clash = job[a].clash]]
  BY <1>2 DEF Reset
<1>6. x \in Jobs
  BY <1>1 DEF Jobs, ReadingJobs
<1>7. job' = [D EXCEPT ![a] = x]
  BY <1>4, <1>5
<1>. HIDE DEF x
<1>8. job' \in [Actors -> Jobs] /\ job'[a] = x
      /\ \A b \in Actors \ {a} : SameJob(job[b], job'[b], {job[a].player})
  BY <1>6, <1>7, ReaderMoves
<1>. QED  BY <1>8 DEF x

LEMMA TurnEnds ==
  ASSUME Types, NEW a \in Actors, AddShares(a) \/ RebuildFails(a)
  PROVE  /\ Reading(a)
         /\ job' \in [Actors -> Jobs] /\ \E open \in BOOLEAN : job'[a] = AfterTurn(job[a], open)
         /\ \A b \in Actors \ {a} : SameJob(job[b], job'[b], {job[a].player})
<1>1. Reading(a)
  BY DEF AddShares, RebuildFails, Reading
<1>2. job[a] \in ReadingJobs
  BY <1>1, ReadingJob
<1>3. \A open \in BOOLEAN : AfterTurn(job[a], open) \in Jobs
  BY <1>2 DEF AfterTurn, Turn, ReadingJobs, Jobs, IdleJobs, WaitingJobs
<1>4. PICK open \in BOOLEAN : job' = [Disturbed(job, {job[a].player}) EXCEPT ![a] = AfterTurn(job[a], open)]
  BY DEF AddShares, RebuildFails
<1>5. AfterTurn(job[a], open) \in Jobs
  BY <1>3
<1>. QED  BY <1>1, <1>4, <1>5, ReaderMoves

LEMMA StartMoves ==
  ASSUME Types, NEW p \in Players, Start(p)
  PROVE  /\ job["updater"].stage = "idle"
         /\ job' \in [Actors -> Jobs]
         /\ job'["updater"] = Turn(<<p>>, FALSE, {})
         /\ job'["bot"] = job["bot"]
<1>. DEFINE x == Turn(<<p>>, FALSE, {})
<1>1. <<p>> \in Seq(Players) \ {<<>>}
  <2>1. <<p>> \in Seq(Players) /\ Len(<<p>>) = 1 /\ Len(<<>>) = 0
    OBVIOUS
  <2>. QED  BY <2>1
<1>2. x \in Jobs /\ {"bot", "updater"} \subseteq Actors
  BY <1>1 DEF Turn, Jobs, WaitingJobs, Actors
<1>3. job' = [job EXCEPT !["updater"] = x] /\ job["updater"].stage = "idle"
  BY DEF Start
<1>. HIDE DEF x
<1>4. job' \in [Actors -> Jobs] /\ job'["updater"] = x /\ job'["bot"] = job["bot"]
  BY <1>2, <1>3 DEF Types
<1>. QED  BY <1>3, <1>4 DEF x

LEMMA RebuildShape ==
  ASSUME Types, Rebuild
  PROVE  job' \in [Actors -> Jobs] /\ UNCHANGED <<table, fetching, marked>>
<1>1. ASSUME NEW p \in Players, Start(p)
      PROVE  job' \in [Actors -> Jobs] /\ UNCHANGED <<table, fetching, marked>>
  BY <1>1, StartMoves DEF Start, history
<1>2. ASSUME NEW a \in Actors, NEW p \in Players, Read(a, p)
      PROVE  job' \in [Actors -> Jobs] /\ UNCHANGED <<table, fetching, marked>>
  BY <1>2, ReadMoves DEF history
<1>3. ASSUME NEW a \in Actors, Reset(a)
      PROVE  job' \in [Actors -> Jobs] /\ UNCHANGED <<table, fetching, marked>>
  <2>1. job' \in [Actors -> Jobs]
    BY <1>3, ResetMoves
  <2>. QED  BY <1>3, <2>1 DEF Reset, history
<1>4. ASSUME NEW a \in Actors, AddShares(a) \/ RebuildFails(a)
      PROVE  job' \in [Actors -> Jobs] /\ UNCHANGED <<table, fetching, marked>>
  <2>1. job' \in [Actors -> Jobs]
    BY <1>4, TurnEnds
  <2>. QED  BY <1>4, <2>1 DEF AddShares, RebuildFails
<1>. QED  BY <1>1, <1>2, <1>3, <1>4 DEF Rebuild

LEMMA NextTypes ==
  ASSUME Types, [Next]_vars
  PROVE  Types'
<1>1. ASSUME NEW d \in Drops, NEW g \in Groups, NEW v \in Values \ {value[d]}, Edit(d, g, v)
      PROVE  Types'
  <2>1. \E w \in Values : Edit(d, g, w)
    BY <1>1
  <2>. QED  BY <2>1, ChangeTypes
<1>2. CASE Change
  BY <1>1, <1>2, ChangeTypes DEF Change
<1>3. CASE Arrival
  BY <1>3, ArrivalTypes DEF Arrival
<1>4. CASE Rebuild
  BY <1>4, RebuildShape DEF Types, table, entries
<1>5. CASE UNCHANGED vars
  BY <1>5 DEF vars, Types
<1>. QED  BY <1>2, <1>3, <1>4, <1>5, AchieveTypes, FollowTypes DEF Next

-----------------------------------------------------------------------------
(* The phases of a drop, its rows and the change under way fit together.   *)

DropFits(d) ==
  /\ state[d] \notin {"open", "gone"} => pending[d] = {}
  /\ pending[d] \subseteq GroupsOf(Receiver[d])
  /\ state[d] \in {"none", "gone"} => RowsOf(d) = {}
  /\ \A g \in pending[d] : RowsIn(d, g) = {}
RowFits(r) ==
  /\ r.group \in Tracking /\ r.group \in GroupsOf(Receiver[r.drop])
  /\ r.player \in Member[r.group]
ChangeFits ==
  Changing =>
    /\ state[Bot.drop] \in {"stored", "hidden"}
    /\ Bot.group \in GroupsOf(Receiver[Bot.drop])
    /\ Bot.stage = "strip" => Bot.op = "modify"
    /\ Bot.stage = "erase" <=> Bot.op = "delete"
    /\ Bot.op = "hide" => state[Bot.drop] = "hidden"
    /\ Bot.op = "unhide" => state[Bot.drop] = "stored"
    /\ Bot.stage = "credits" /\ Bot.op = "modify" => RowsIn(Bot.drop, Bot.group) = {}
PhasesFit == (\A d \in Drops : DropFits(d)) /\ (\A r \in rows : RowFits(r)) /\ ChangeFits

\* A step that is none of the change under way.
KeptChange == Bot.stage \in Stages \/ Bot'.stage \in Stages => Bot' = Bot

LEMMA SameBot ==
  ASSUME NEW ps, SameJob(job["bot"], job'["bot"], ps)
  PROVE  KeptChange
BY DEF SameJob, KeptChange, Bot, Stages

LEMMA ArrivalJobs ==
  ASSUME Types, NEW ps,
         job' = Disturbed(job, ps) \/ \E d \in Drops : job' = Unread(Disturbed(job, ps), d)
  PROVE  KeptChange
<1>1. SameJob(job["bot"], job'["bot"], ps)
  BY DisturbedJobs, UnreadJobs DEF Types, Actors
<1>. QED  BY <1>1, SameBot

LEMMA RebuildJobs ==
  ASSUME Types, Rebuild
  PROVE  KeptChange
<1>1. {"bot", "updater"} = Actors
  BY DEF Actors
<1>2. ASSUME NEW p \in Players, Start(p) PROVE KeptChange
  BY <1>2, StartMoves DEF KeptChange, Bot
<1>3. ASSUME NEW a \in Actors, NEW ps, Bot.stage \notin Stages \/ a # "bot",
             job'[a].stage \notin Stages, \A b \in Actors \ {a} : SameJob(job[b], job'[b], ps)
      PROVE  KeptChange
  <2>1. CASE a = "bot"
    BY <1>3, <2>1 DEF KeptChange, Bot
  <2>2. CASE a # "bot"
    BY <1>1, <1>3, <2>2, SameBot
  <2>. QED  BY <2>1, <2>2
<1>4. ASSUME NEW a \in Actors, NEW p \in Players, Read(a, p) PROVE KeptChange
  <2>1. job'[a].stage = "read" /\ job[a].stage = "rebuild"
    BY <1>4, ReadMoves DEF ReadJob, Read
  <2>. QED  BY <1>3, <1>4, <2>1, ReadMoves DEF Stages, Bot
<1>5. ASSUME NEW a \in Actors, Reset(a) PROVE KeptChange
  <2>1. job'[a].stage = "reset" /\ job[a].stage = "read"
    <3>1. job[a].stage = "read"
      BY <1>5 DEF Reset
    <3>2. job[a] \in ReadingJobs
      BY <3>1, ReadingJob DEF Reading
    <3>3. job'[a] = [job[a] EXCEPT !.stage = "reset"]
      BY <1>5, ResetMoves
    <3>. QED  BY <3>1, <3>2, <3>3 DEF ReadingJobs
  <2>2. \A b \in Actors \ {a} : SameJob(job[b], job'[b], {job[a].player})
    BY <1>5, ResetMoves
  <2>. QED  BY <1>3, <2>1, <2>2 DEF Stages, Bot
<1>6. ASSUME NEW a \in Actors, AddShares(a) \/ RebuildFails(a) PROVE KeptChange
  <2>1. job'[a].stage \in {"idle", "rebuild"} /\ job[a].stage \in {"read", "reset"}
    <3>1. Reading(a) /\ \E open \in BOOLEAN : job'[a] = AfterTurn(job[a], open)
      BY <1>6, TurnEnds
    <3>2. \A open \in BOOLEAN : AfterTurn(job[a], open).stage \in {"idle", "rebuild"}
      BY DEF AfterTurn, Turn, IdleJob
    <3>. QED  BY <3>1, <3>2 DEF Reading
  <2>2. \A b \in Actors \ {a} : SameJob(job[b], job'[b], {job[a].player})
    BY <1>6, TurnEnds
  <2>. QED  BY <1>3, <2>1, <2>2 DEF Stages, Bot
<1>. QED  BY <1>2, <1>4, <1>5, <1>6 DEF Rebuild

\* What is so of the change under way stays so while its drop is left alone.
LEMMA ChangeStays ==
  ASSUME Types, ChangeFits, KeptChange,
         \A d \in Drops : state[d] \in {"stored", "hidden"} =>
           state'[d] = state[d] /\ \A g \in Groups : RowsIn(d, g)' = RowsIn(d, g)
  PROVE  ChangeFits'
<1>1. SUFFICES ASSUME Bot'.stage \in Stages PROVE ChangeFits'
  BY DEF ChangeFits, Changing
<1>2. Bot' = Bot /\ Changing
  BY <1>1 DEF KeptChange, Changing
<1>3. Bot.drop \in Drops /\ Bot.group \in Groups
  BY <1>2, ChangeJob
<1>. DEFINE d == Bot.drop
            g == Bot.group
<1>4. state'[d] = state[d] /\ {r \in {s \in rows' : s.drop = d} : r.group = g} = RowsIn(d, g)
  <2>1. state[d] \in {"stored", "hidden"}
    BY <1>2 DEF ChangeFits
  <2>2. ASSUME NEW e \in Drops, e = d
        PROVE  state'[e] = state[e] /\ {r \in {s \in rows' : s.drop = e} : r.group = g} = RowsIn(e, g)
    BY <1>3, <2>1, <2>2 DEF RowsIn, RowsOf
  <2>. QED  BY <1>3, <2>2
<1>5. d' = d /\ g' = g
  BY <1>2
<1>6. RowsIn(Bot.drop, Bot.group)' = RowsIn(Bot.drop, Bot.group)
  BY <1>4, <1>5 DEF RowsIn, RowsOf
<1>. QED  BY <1>2, <1>4, <1>6 DEF ChangeFits, Changing, GroupsOf

LEMMA ArrivalPhases ==
  ASSUME Types, PhasesFit, NEW d \in Drops,
         \/ \E ps \in Namings : Submit(d, ps)
         \/ \E g \in Groups : ShareOut(d, g) \/ ShareFails(d, g)
         \/ Commit(d) \/ RollBack(d)
  PROVE  PhasesFit' /\ KeptChange
<1>. USE DEF PhasesFit
<1>1. d \in Entries
  BY DEF Entries
<1>2. ASSUME NEW ps \in Namings, Submit(d, ps) PROVE PhasesFit' /\ KeptChange
  <2>1. KeptChange
    BY <1>2, ArrivalJobs DEF Submit
  <2>2. \A e \in Drops : RowsOf(e)' = RowsOf(e) /\ \A g \in Groups : RowsIn(e, g)' = RowsIn(e, g)
    BY <1>2 DEF Submit, RowsOf, RowsIn
  <2>3. ChangeFits'
    BY <1>1, <1>2, <2>1, <2>2, ChangeStays DEF Submit, Types, Entries
  <2>4. RowsOf(d) = {}
    BY <1>2 DEF Submit, DropFits
  <2>5. ASSUME NEW e \in Drops PROVE DropFits(e)'
    <3>1. CASE e = d
      BY <1>1, <1>2, <2>2, <2>4, <3>1 DEF Submit, DropFits, Types, RowsOf, RowsIn, GroupsOf
    <3>2. CASE e # d
      BY <1>1, <1>2, <2>2, <3>2 DEF Submit, DropFits, Types, RowsOf, RowsIn, GroupsOf
    <3>. QED  BY <3>1, <3>2
  <2>6. \A r \in rows' : RowFits(r)'
    BY <1>2 DEF Submit, RowFits, GroupsOf
  <2>. QED  BY <2>1, <2>3, <2>5, <2>6
<1>3. ASSUME NEW g \in Groups, NEW rs \in SUBSET Shares(d, g, Sharers(d, g), value[d]),
             rs = {} \/ g \in Tracking,
             state[d] = "open", g \in pending[d], rows' = rows \cup rs,
             pending' = [pending EXCEPT ![d] = @ \ {g}], UNCHANGED state, KeptChange
      PROVE  PhasesFit' /\ KeptChange
  <2>1. g \in GroupsOf(Receiver[d]) /\ pending[d] \subseteq GroupsOf(Receiver[d]) /\ RowsIn(d, g) = {}
    BY <1>3 DEF DropFits
  <2>2. \A r \in rs : r.drop = d /\ r.group = g /\ r.player \in Member[g]
    BY <1>3, SharersType DEF Shares
  <2>3. \A e \in Drops, h \in Groups : e # d \/ h # g => RowsIn(e, h)' = RowsIn(e, h)
    BY <1>3, <2>2 DEF RowsIn, RowsOf
  <2>4. \A e \in Drops : e # d => RowsOf(e)' = RowsOf(e)
    BY <1>3, <2>2 DEF RowsOf
  <2>5. ChangeFits'
    BY <1>3, <2>3, ChangeStays
  <2>6. ASSUME NEW e \in Drops PROVE DropFits(e)'
    <3>1. CASE e = d
      <4>1. pending'[d] = pending[d] \ {g} /\ state'[d] = "open"
        BY <1>3 DEF Types
      <4>2. \A h \in pending'[d] : RowsIn(d, h)' = {}
        BY <2>1, <2>3, <4>1 DEF DropFits, GroupsOf
      <4>. QED  BY <2>1, <3>1, <4>1, <4>2 DEF DropFits, GroupsOf
    <3>2. CASE e # d
      <4>1. pending'[e] = pending[e] /\ state'[e] = state[e]
        BY <1>3, <3>2 DEF Types
      <4>2. \A h \in pending[e] : RowsIn(e, h)' = {}
        BY <2>3, <3>2 DEF DropFits, GroupsOf
      <4>. QED  BY <2>4, <3>2, <4>1, <4>2 DEF DropFits, GroupsOf
    <3>. QED  BY <3>1, <3>2
  <2>7. \A r \in rows' : RowFits(r)'
    BY <1>3, <2>1, <2>2 DEF RowFits, GroupsOf
  <2>. QED  BY <1>3, <2>5, <2>6, <2>7
<1>4. ASSUME NEW g \in Groups, ShareOut(d, g) PROVE PhasesFit' /\ KeptChange
  <2>. DEFINE rs == IF IsShared(d, g) THEN Shares(d, g, Sharers(d, g), value[d]) ELSE {}
  <2>1. rs \in SUBSET Shares(d, g, Sharers(d, g), value[d]) /\ (rs = {} \/ g \in Tracking)
    BY DEF IsShared, Sharers
  <2>2. rows' = rows \cup rs /\ state[d] = "open" /\ g \in pending[d]
        /\ pending' = [pending EXCEPT ![d] = @ \ {g}] /\ UNCHANGED state
    BY <1>4 DEF ShareOut
  <2>3. KeptChange
    BY <1>4, ArrivalJobs DEF ShareOut
  <2>. HIDE DEF rs
  <2>. QED  BY <1>3, <2>1, <2>2, <2>3
<1>5. ASSUME NEW g \in Groups, ShareFails(d, g) PROVE PhasesFit' /\ KeptChange
  <2>1. PICK rs \in SUBSET Shares(d, g, Sharers(d, g), value[d]) : rows' = rows \cup rs
    BY <1>5 DEF ShareFails
  <2>2. g \in Tracking
    BY <1>5 DEF ShareFails, IsShared, Sharers
  <2>3. KeptChange
    BY <1>5, ArrivalJobs DEF ShareFails
  <2>. QED  BY <1>3, <1>5, <2>1, <2>2, <2>3 DEF ShareFails
<1>6. ASSUME state[d] = "open",
             \/ state' = [state EXCEPT ![d] = "stored"] /\ rows' = rows /\ pending[d] = {}
             \/ state' = [state EXCEPT ![d] = "gone"] /\ rows' = rows \ RowsOf(d),
             UNCHANGED pending, KeptChange
      PROVE  PhasesFit' /\ KeptChange
  <2>1. \A e \in Drops : e # d => RowsOf(e)' = RowsOf(e) /\ \A g \in Groups : RowsIn(e, g)' = RowsIn(e, g)
    BY <1>6 DEF RowsOf, RowsIn
  <2>2. ChangeFits'
    BY <1>1, <1>6, <2>1, ChangeStays DEF Types, Entries
  <2>3. ASSUME NEW e \in Drops PROVE DropFits(e)'
    <3>1. CASE e = d
      <4>1. CASE pending[d] = {} /\ state'[d] = "stored"
        BY <1>6, <3>1, <4>1 DEF DropFits, GroupsOf
      <4>2. CASE rows' = rows \ RowsOf(d) /\ state'[d] = "gone"
        <5>1. RowsOf(d)' = {} /\ \A g : RowsIn(d, g)' = {}
          BY <4>2 DEF RowsOf, RowsIn
        <5>. QED  BY <1>6, <3>1, <4>2, <5>1 DEF DropFits, GroupsOf
      <4>. QED  BY <1>1, <1>6, <4>1, <4>2 DEF Types
    <3>2. CASE e # d
      <4>1. state'[e] = state[e] /\ pending'[e] = pending[e]
        BY <1>1, <1>6, <3>2 DEF Types, Entries
      <4>. QED  BY <2>1, <3>2, <4>1 DEF DropFits, GroupsOf
    <3>. QED  BY <3>1, <3>2
  <2>4. \A r \in rows' : RowFits(r)'
    BY <1>6 DEF RowFits, GroupsOf
  <2>. QED  BY <1>6, <2>2, <2>3, <2>4
<1>7. CASE Commit(d)
  <2>1. KeptChange
    BY <1>7, ArrivalJobs DEF Commit
  <2>. QED  BY <1>6, <1>7, <2>1 DEF Commit
<1>8. CASE RollBack(d)
  <2>1. KeptChange
    BY <1>8, ArrivalJobs DEF RollBack
  <2>. QED  BY <1>6, <1>8, <2>1 DEF RollBack
<1>. QED  BY <1>2, <1>4, <1>5, <1>7, <1>8

LEMMA DropStays ==
  ASSUME NEW e \in Drops, DropFits(e), state'[e] = state[e], pending'[e] = pending[e],
         RowsOf(e)' = RowsOf(e)
  PROVE  DropFits(e)'
BY DEF DropFits, GroupsOf, RowsIn

\* The bot changes one drop, and leaves the rest alone.
LEMMA OneDropPhases ==
  ASSUME Types, PhasesFit, NEW d \in Drops, state[d] \in {"stored", "hidden"},
         NEW s \in {"stored", "hidden", "gone"}, state' = [state EXCEPT ![d] = s],
         s = "gone" => RowsOf(d)' = {}, UNCHANGED pending,
         \A r \in rows \cup rows' : r.drop # d => (r \in rows <=> r \in rows'),
         \A r \in rows' \ rows : RowFits(r)
  PROVE  (\A e \in Drops : DropFits(e)') /\ (\A r \in rows' : RowFits(r)')
<1>1. d \in Entries /\ pending[d] = {}
  BY DEF PhasesFit, DropFits, Entries
<1>2. DropFits(d)'
  BY <1>1 DEF DropFits, Types, GroupsOf
<1>3. ASSUME NEW e \in Drops, e # d PROVE DropFits(e)'
  <2>1. RowsOf(e)' = RowsOf(e)
    BY <1>3 DEF RowsOf
  <2>2. state'[e] = state[e] /\ pending'[e] = pending[e] /\ DropFits(e)
    BY <1>3 DEF PhasesFit, Types, Entries
  <2>. QED  BY <2>1, <2>2, DropStays
<1>4. \A r \in rows' : RowFits(r)'
  BY DEF PhasesFit, RowFits, GroupsOf
<1>. QED  BY <1>2, <1>3, <1>4

LEMMA NothingMoves ==
  ASSUME Types, PhasesFit, KeptChange, UNCHANGED <<state, pending, rows>>
  PROVE  PhasesFit'
<1>1. \A e \in Drops : RowsOf(e)' = RowsOf(e)
  BY DEF RowsOf
<1>2. \A e \in Drops : DropFits(e)'
  BY <1>1, DropStays DEF PhasesFit
<1>3. \A r \in rows' : RowFits(r)'
  BY DEF PhasesFit, RowFits, GroupsOf
<1>4. \A e \in Drops : \A g \in Groups : RowsIn(e, g)' = RowsIn(e, g)
  BY DEF RowsOf, RowsIn
<1>5. ChangeFits'
  BY <1>4, ChangeStays DEF PhasesFit
<1>. QED  BY <1>2, <1>3, <1>5 DEF PhasesFit

LEMMA ChangePhases ==
  ASSUME Types, PhasesFit, NEW d \in Drops, NEW g \in Groups,
         \/ StartHide(d, g) \/ Hide(d, g) \/ HideNothing(d, g) \/ Unhide(d, g) \/ Delete(d, g)
         \/ \E v \in Values : Edit(d, g, v)
         \/ \E ps \in Namings : ModifySplits(d, g, ps)
  PROVE  PhasesFit'
<1>1. CASE StartHide(d, g) \/ HideNothing(d, g)
  BY <1>1, NothingMoves DEF StartHide, HideNothing, table, entries, KeptChange, Bot
<1>2. ASSUME NEW s \in {"stored", "hidden"}, NEW stage \in Stages, NEW op \in Ops, NEW ps \in SUBSET Players,
             Changeable(d, g), state' = [state EXCEPT ![d] = s], UNCHANGED <<pending, rows>>,
             Goes(stage, op, d, g, ps), stage = "strip" <=> op = "modify", stage = "erase" <=> op = "delete",
             op = "hide" => s = "hidden", op = "unhide" => s = "stored"
      PROVE  PhasesFit'
  <2>1. (\A e \in Drops : DropFits(e)') /\ (\A r \in rows' : RowFits(r)')
    BY <1>2, OneDropPhases DEF Changeable
  <2>2. Bot' = [stage |-> stage, op |-> op, drop |-> d, group |-> g, names |-> ps, old |-> {}]
    BY <1>2, BotGoes DEF Types, Bot
  <2>3. state'[d] = s /\ g \in GroupsOf(Receiver[d])
    BY <1>2 DEF Types, Changeable, Entries
  <2>4. ChangeFits'
    BY <1>2, <2>2, <2>3 DEF ChangeFits, Changing, GroupsOf, Stages
  <2>. QED  BY <2>1, <2>4 DEF PhasesFit
<1>3. CASE Hide(d, g)
  BY <1>2, <1>3 DEF Hide, Stages, Ops
<1>4. CASE Unhide(d, g)
  BY <1>2, <1>4 DEF Unhide, Stages, Ops
<1>5. ASSUME Changeable(d, g) PROVE state = [state EXCEPT ![d] = state[d]] /\ state[d] \in {"stored", "hidden"}
  BY <1>5 DEF Changeable, Types
<1>6. CASE Delete(d, g)
  <2>1. Changeable(d, g) /\ Goes("erase", "delete", d, g, {}) /\ UNCHANGED <<state, pending, rows>>
    BY <1>6 DEF Delete, table, entries
  <2>. QED  BY <1>2, <1>5, <2>1 DEF Stages, Ops
<1>7. ASSUME NEW v \in Values, Edit(d, g, v) PROVE PhasesFit'
  <2>1. Changeable(d, g) /\ Goes("credits", "edit", d, g, SplitNames(d, g)) /\ UNCHANGED <<state, pending, rows>>
    BY <1>7 DEF Edit
  <2>2. SplitNames(d, g) \in SUBSET Players
    BY DEF SplitNames
  <2>. QED  BY <1>2, <1>5, <2>1, <2>2 DEF Stages, Ops
<1>8. ASSUME NEW ps \in Namings, ModifySplits(d, g, ps) PROVE PhasesFit'
  <2>1. Changeable(d, g) /\ Goes("strip", "modify", d, g, ps) /\ UNCHANGED <<state, pending, rows>>
    BY <1>8 DEF ModifySplits, entries
  <2>2. ps \in SUBSET Players
    BY SharingAssumption
  <2>. QED  BY <1>2, <1>5, <2>1, <2>2 DEF Stages, Ops
<1>. QED  BY <1>1, <1>3, <1>4, <1>6, <1>7, <1>8

\* What the steps of a change under way begin with.
LEMMA FollowsOf ==
  ASSUME Types, PhasesFit, Follow
  PROVE  /\ Changing /\ Bot.drop \in Drops /\ Bot.group \in Groups
         /\ state[Bot.drop] \in {"stored", "hidden"}
<1>1. Changing
  BY DEF Follow, AfterHide, AfterUnhide, AfterEdit, Strip, AfterModify, Erase, ChangeFails,
         At_, Changing, Stages
<1>. QED  BY <1>1, ChangeJob DEF PhasesFit, ChangeFits

LEMMA FollowPhases ==
  ASSUME Types, PhasesFit, Follow
  PROVE  PhasesFit'
<1>. DEFINE d == Bot.drop
            g == Bot.group
<1>1. Changing /\ d \in Drops /\ d \in Entries /\ g \in Groups /\ state[d] \in {"stored", "hidden"}
      /\ g \in GroupsOf(Receiver[d]) /\ state = [state EXCEPT ![d] = state[d]]
  BY FollowsOf DEF PhasesFit, ChangeFits, Entries, Types
<1>2. ASSUME Bot'.stage \notin Stages, UNCHANGED <<state, pending>>,
             \A r \in rows \cup rows' : r.drop # d => (r \in rows <=> r \in rows'),
             \A r \in rows' \ rows : RowFits(r)
      PROVE  PhasesFit'
  <2>1. (\A e \in Drops : DropFits(e)') /\ (\A r \in rows' : RowFits(r)')
    <3>1. PICK s \in {"stored", "hidden"} : state' = [state EXCEPT ![d] = s]
      BY <1>1, <1>2
    <3>. HIDE DEF d
    <3>. QED  BY <1>1, <1>2, <3>1, OneDropPhases
  <2>. QED  BY <1>2, <2>1 DEF PhasesFit, ChangeFits, Changing
<1>3. Tracked(d, g) \subseteq rows /\ RowsOf(d) \subseteq rows /\ PlayersIn(Tracked(d, g)) \in SUBSET Players
      /\ PlayersIn(RowsOf(d)) \in SUBSET Players
  <2>1. Tracked(d, g) \subseteq rows /\ RowsOf(d) \subseteq rows
    BY DEF Tracked, RowsIn, RowsOf
  <2>. QED  BY <2>1, RowPlayers
<1>4. CASE AfterHide
  <2>1. Bot'.stage = "rebuild"
    BY <1>1, <1>3, <1>4, BotTurns DEF AfterHide, Types, Bot
  <2>. QED  BY <1>2, <1>4, <2>1 DEF AfterHide, table, entries, Stages
<1>5. CASE AfterUnhide
  <2>1. Bot'.stage = "rebuild"
    BY <1>1, <1>3, <1>5, BotTurns DEF AfterUnhide, Types, Bot
  <2>. QED  BY <1>2, <1>5, <2>1 DEF AfterUnhide, entries, Stages
<1>6. CASE AfterEdit
  <2>. DEFINE gs == {h \in GroupsOf(Receiver[d]) : Tracked(d, h) # {}}
  <2>1. \A h \in gs : RowsIn(d, h) \subseteq rows /\ h \in Tracking /\ h \in GroupsOf(Receiver[d])
    BY DEF RowsIn, RowsOf, Tracked
  <2>2. UNION {PlayersIn(RowsIn(d, h)) : h \in gs} \in SUBSET Players
    BY <2>1, RowPlayers
  <2>3. Bot'.stage = "rebuild"
    BY <1>1, <1>6, <2>2, BotTurns DEF AfterEdit, Types, Bot
  <2>4. \A h \in gs : \A r \in Revalued(d, h) : r.drop = d /\ r.group = h /\ r.player \in PlayersIn(RowsIn(d, h))
    BY DEF Revalued, Shares
  <2>5. rows' = {r \in rows : ~(r.drop = d /\ r.group \in gs)} \cup UNION {Revalued(d, h) : h \in gs}
    BY <1>6 DEF AfterEdit
  <2>6. ASSUME NEW h \in gs, NEW r \in Revalued(d, h) PROVE RowFits(r)
    <3>1. PICK q \in RowsIn(d, h) : q.player = r.player
      BY <2>4 DEF PlayersIn
    <3>2. RowFits(q) /\ q.group = h
      BY <2>1, <3>1 DEF PhasesFit, RowsIn
    <3>. QED  BY <2>1, <2>4, <3>1, <3>2 DEF RowFits
  <2>7. \A r \in rows \cup rows' : r.drop # d => (r \in rows <=> r \in rows')
    BY <2>4, <2>5
  <2>8. \A r \in rows' \ rows : RowFits(r)
    BY <2>5, <2>6
  <2>. QED  BY <1>2, <1>6, <2>3, <2>7, <2>8 DEF AfterEdit, entries, Stages
<1>7. CASE Strip
  <2>1. Bot' = [Bot EXCEPT !.stage = "credits", !.old = PlayersIn(Tracked(d, g))]
    BY <1>1, <1>3, <1>7, StripGoes DEF Strip, Bot
  <2>2. Bot \in ChangeJobs /\ Bot.op = "modify"
    BY <1>1, <1>7, ChangeJob DEF Strip, At_
  <2>3. Bot'.stage = "credits" /\ Bot'.op = "modify" /\ Bot'.drop = d /\ Bot'.group = g
    BY <2>1, <2>2 DEF ChangeJobs
  <2>4. rows' = rows \ Tracked(d, g) /\ UNCHANGED <<state, pending>>
    BY <1>7 DEF Strip, entries
  <2>5. \A r \in Tracked(d, g) : r.drop = d
    BY DEF Tracked, RowsIn, RowsOf
  <2>6. (\A e \in Drops : DropFits(e)') /\ (\A r \in rows' : RowFits(r)')
    <3>1. PICK s \in {"stored", "hidden"} : state' = [state EXCEPT ![d] = s]
      BY <1>1, <2>4
    <3>. HIDE DEF d, g
    <3>. QED  BY <1>1, <2>4, <2>5, <3>1, OneDropPhases
  <2>7. {r \in {s \in rows' : s.drop = d} : r.group = g} = {}
    BY <1>1, <2>4 DEF Tracked, RowsIn, RowsOf, PhasesFit, RowFits
  <2>8. ChangeFits'
    BY <1>1, <2>3, <2>4, <2>7 DEF ChangeFits, Changing, RowsIn, RowsOf, GroupsOf
  <2>. QED  BY <2>6, <2>8 DEF PhasesFit
<1>8. CASE AfterModify
  <2>. DEFINE ps == IF g \in Tracking THEN Bot.names \cap Member[g] ELSE {}
              rs == Shares(d, g, ps, value[d])
  <2>1. \A r \in rs : r.drop = d /\ r.group = g /\ r.player \in ps
    BY DEF Shares
  <2>2. \A r \in rs : RowFits(r)
    BY <1>1, <2>1 DEF RowFits
  <2>3. Bot'.stage = "rebuild"
    <3>1. \E open \in BOOLEAN : FirstReceiver(d, Bot.old \cup PlayersIn(rs), open)
      BY <1>8 DEF AfterModify
    <3>2. Bot.old \cup PlayersIn(rs) \in SUBSET Players
      <4>1. Bot.old \in SUBSET Players /\ Bot.names \in SUBSET Players
        BY <1>1, ChangeJob
      <4>. QED  BY <2>1, <4>1 DEF PlayersIn
    <3>. HIDE DEF d, g, ps, rs
    <3>. QED  BY <1>1, <3>1, <3>2, BotTurns DEF Types, Bot
  <2>4. rows' = rows \cup rs
    BY <1>8 DEF AfterModify
  <2>. QED  BY <1>2, <1>8, <2>1, <2>2, <2>3, <2>4 DEF AfterModify, entries, Stages
<1>9. CASE Erase
  <2>1. Bot'.stage = "rebuild"
    BY <1>1, <1>3, <1>9, BotTurns DEF Erase, Types, Bot
  <2>2. rows' = rows \ RowsOf(d) /\ state' = [state EXCEPT ![d] = "gone"] /\ UNCHANGED pending
    BY <1>9 DEF Erase
  <2>3. \A r \in rows \cup rows' : r.drop # d => (r \in rows <=> r \in rows')
    BY <2>2 DEF RowsOf
  <2>4. {r \in rows' : r.drop = d} = {}
    BY <2>2 DEF RowsOf
  <2>5. (\A e \in Drops : DropFits(e)') /\ (\A r \in rows' : RowFits(r)')
    <3>1. PICK e \in Drops : e = d
      BY <1>1
    <3>2. RowsOf(e)' = {}
      BY <2>4, <3>1 DEF RowsOf
    <3>3. \A r \in rows \cup rows' : r.drop # e => (r \in rows <=> r \in rows')
      BY <2>3, <3>1
    <3>4. state' = [state EXCEPT ![e] = "gone"] /\ state[e] \in {"stored", "hidden"}
      BY <1>1, <2>2, <3>1
    <3>. QED  BY <2>2, <3>2, <3>3, <3>4, OneDropPhases
  <2>. QED  BY <2>1, <2>5 DEF PhasesFit, ChangeFits, Changing, Stages
<1>10. CASE ChangeFails
  <2>1. Bot'.stage = "idle"
    BY <1>10, ChangeEnds DEF ChangeFails, Bot, IdleJob
  <2>. QED  BY <1>2, <1>10, <2>1 DEF ChangeFails, table, entries, Stages
<1>. QED  BY <1>4, <1>5, <1>6, <1>7, <1>8, <1>9, <1>10 DEF Follow

LEMMA PhasesStep ==
  ASSUME Types, PhasesFit, [Next]_vars
  PROVE  PhasesFit'
<1>1. ASSUME NEW d \in Drops, NEW g \in Groups, NEW v \in Values \ {value[d]}, Edit(d, g, v)
      PROVE  PhasesFit'
  <2>1. \E w \in Values : Edit(d, g, w)
    BY <1>1
  <2>. QED  BY <2>1, ChangePhases
<1>2. CASE Change
  BY <1>1, <1>2, ChangePhases DEF Change
<1>3. CASE Arrival
  BY <1>3, ArrivalPhases DEF Arrival
<1>4. CASE Rebuild
  BY <1>4, RebuildShape, RebuildJobs, NothingMoves DEF table, entries
<1>5. ASSUME NEW o \in Others, Achieve(o) PROVE PhasesFit'
  <2>1. \A d \in Drops : state'[d] = state[d]
    BY <1>5, SharingAssumption DEF Achieve, Types, Entries
  <2>2. KeptChange /\ UNCHANGED <<pending, rows, job>>
    BY <1>5 DEF Achieve, KeptChange, Bot
  <2>3. \A e \in Drops : RowsOf(e)' = RowsOf(e) /\ \A g \in Groups : RowsIn(e, g)' = RowsIn(e, g)
    BY <2>2 DEF RowsOf, RowsIn
  <2>4. \A e \in Drops : DropFits(e)'
    BY <2>1, <2>2, <2>3, DropStays DEF PhasesFit
  <2>5. ChangeFits'
    BY <2>1, <2>2, <2>3, ChangeStays DEF PhasesFit
  <2>6. \A r \in rows' : RowFits(r)'
    BY <2>2 DEF PhasesFit, RowFits, GroupsOf
  <2>. QED  BY <2>4, <2>5, <2>6 DEF PhasesFit
<1>6. CASE UNCHANGED vars
  BY <1>6, NothingMoves DEF vars, KeptChange, Bot
<1>. QED  BY <1>2, <1>3, <1>4, <1>5, <1>6, FollowPhases DEF Next

LEMMA InitPhases ==
  ASSUME Init
  PROVE  Types /\ PhasesFit
<1>1. {IdleJob} \subseteq Jobs
  BY DEF Jobs, IdleJobs
<1>2. \A d \in Drops : Month[d] \in Months
  BY DEF Months
<1>3. state \in [Entries -> {"none", "open", "stored", "hidden", "gone"}]
  BY DEF Init
<1>4. paid \in [Groups -> [Entries -> [Players -> Nat]]]
  BY DEF Init
<1>5. job \in [Actors -> Jobs] /\ Bot.stage = "idle"
  BY <1>1 DEF Init, Bot, Actors, IdleJob
<1>6. Types
  BY <1>3, <1>4, <1>5, SharingAssumption DEF Init, Types
<1>7. PhasesFit
  BY <1>5 DEF Init, PhasesFit, DropFits, ChangeFits, Changing, Stages, RowsOf, RowsIn
<1>. QED  BY <1>6, <1>7

-----------------------------------------------------------------------------
(* The shares of a drop in a group are even.                               *)

\* Rows are of one value, but between a revaluation and what follows it.
Editing(d) == Bot.stage = "credits" /\ Bot.op = "edit" /\ Bot.drop = d
Even(d, g) == \E ps \in SUBSET Players : RowsIn(d, g) = Shares(d, g, ps, value[d])
Failed(d) == <<"failed", d>> \in marked
EvenInv == \A d \in Drops, g \in Groups : ~Failed(d) /\ ~Editing(d) => Even(d, g)

\* What is marked stays so.
LEMMA MarksStay ==
  ASSUME Next
  PROVE  marked \subseteq marked'
<1>1. CASE Arrival
  BY <1>1 DEF Arrival, Submit, ShareOut, ShareFails, Commit, RollBack, history, Mark
<1>2. CASE Change
  BY <1>2 DEF Change, StartHide, Hide, HideNothing, Unhide, Delete, Edit, ModifySplits, Struck, Mark, history
<1>3. CASE Follow
  BY <1>3 DEF Follow, AfterHide, AfterUnhide, AfterEdit, Strip, AfterModify, Erase, ChangeFails, Struck, Mark, history
<1>4. CASE Rebuild
  BY <1>4 DEF Rebuild, Start, Read, Reset, AddShares, RebuildFails, history
<1>5. CASE \E o \in Others : Achieve(o)
  BY <1>5 DEF Achieve, history
<1>. QED  BY <1>1, <1>2, <1>3, <1>4, <1>5 DEF Next

LEMMA EvenKept ==
  ASSUME NEW d \in Drops, NEW g \in Groups, Even(d, g), RowsOf(d)' = RowsOf(d), value'[d] = value[d]
  PROVE  Even(d, g)'
BY DEF Even, RowsIn, Shares

LEMMA EvenNone ==
  ASSUME NEW d \in Drops, NEW g \in Groups, RowsIn(d, g)' = {}
  PROVE  Even(d, g)'
<1>1. Shares(d, g, {}, value'[d]) = {}
  BY DEF Shares
<1>. QED  BY <1>1 DEF Even

LEMMA EvenShares ==
  ASSUME NEW d \in Drops, NEW g \in Groups, NEW ps \in SUBSET Players,
         RowsIn(d, g)' = Shares(d, g, ps, value[d]), value'[d] = value[d]
  PROVE  Even(d, g)'
BY DEF Even, Shares

\* No step but one that edits it.
LEMMA EvenFrame ==
  ASSUME Types, EvenInv, NEW d \in Drops, NEW g \in Groups, marked \subseteq marked',
         ~Failed(d)', ~Editing(d), RowsOf(d)' = RowsOf(d), value'[d] = value[d]
  PROVE  Even(d, g)'
<1>1. ~Failed(d)
  BY DEF Failed
<1>. QED  BY <1>1, EvenKept DEF EvenInv

LEMMA SameEditing ==
  ASSUME KeptChange, NEW d
  PROVE  Editing(d)' <=> Editing(d)
BY DEF KeptChange, Editing, Stages

LEMMA ArrivalEven ==
  ASSUME Types, PhasesFit, EvenInv, NEW d \in Drops,
         \/ \E ps \in Namings : Submit(d, ps)
         \/ \E g \in Groups : ShareOut(d, g) \/ ShareFails(d, g)
         \/ Commit(d) \/ RollBack(d)
  PROVE  EvenInv'
<1>1. KeptChange /\ marked \subseteq marked' /\ UNCHANGED value
  <2>1. KeptChange
    BY ArrivalPhases
  <2>2. Arrival
    BY DEF Arrival
  <2>3. UNCHANGED value
    BY DEF Submit, ShareOut, ShareFails, Commit, RollBack
  <2>. QED  BY <2>1, <2>2, <2>3, MarksStay DEF Next
<1>2. ASSUME NEW e \in Drops, NEW g \in Groups, ~Failed(e)', ~Editing(e)', RowsOf(e)' = RowsOf(e)
      PROVE  Even(e, g)'
  BY <1>1, <1>2, SameEditing, EvenFrame
<1>3. ASSUME NEW ps \in Namings, Submit(d, ps) PROVE EvenInv'
  BY <1>2, <1>3 DEF Submit, RowsOf, EvenInv
<1>4. CASE Commit(d)
  BY <1>2, <1>4 DEF Commit, RowsOf, EvenInv
<1>5. CASE RollBack(d)
  <2>1. \A g : RowsIn(d, g)' = {}
    BY <1>5 DEF RollBack, RowsIn, RowsOf
  <2>2. \A e \in Drops : e # d => RowsOf(e)' = RowsOf(e)
    BY <1>5 DEF RollBack, RowsOf
  <2>. QED  BY <1>2, <2>1, <2>2, EvenNone DEF EvenInv
<1>6. ASSUME NEW g \in Groups, ShareOut(d, g) PROVE EvenInv'
  <2>. DEFINE rs == IF IsShared(d, g) THEN Shares(d, g, Sharers(d, g), value[d]) ELSE {}
  <2>1. rows' = rows \cup rs /\ RowsIn(d, g) = {}
    BY <1>6 DEF ShareOut, PhasesFit, DropFits
  <2>2. \A r \in rs : r.drop = d /\ r.group = g
    BY DEF Shares
  <2>3. RowsIn(d, g)' = rs
    BY <2>1, <2>2 DEF RowsIn, RowsOf
  <2>4. \A h \in Groups : h # g => RowsIn(d, h)' = RowsIn(d, h)
    BY <2>1, <2>2 DEF RowsIn, RowsOf
  <2>5. \A e \in Drops : e # d => RowsOf(e)' = RowsOf(e)
    BY <2>1, <2>2 DEF RowsOf
  <2>6. Even(d, g)'
    BY <1>1, <2>3, SharersType, EvenShares, EvenNone
  <2>7. ASSUME NEW h \in Groups, ~Failed(d)', ~Editing(d)', h # g PROVE Even(d, h)'
    <3>1. Even(d, h)
      BY <1>1, <2>7, SameEditing DEF EvenInv, Failed
    <3>. QED  BY <1>1, <2>4, <2>7, <3>1 DEF Even, Shares
  <2>. QED  BY <1>2, <2>5, <2>6, <2>7 DEF EvenInv
<1>7. ASSUME NEW g \in Groups, ShareFails(d, g) PROVE EvenInv'
  <2>1. Failed(d)'
    BY <1>7 DEF ShareFails, Failed, Mark
  <2>2. PICK rs \in SUBSET Shares(d, g, Sharers(d, g), value[d]) : rows' = rows \cup rs
    BY <1>7 DEF ShareFails
  <2>3. \A r \in rs : r.drop = d
    BY DEF Shares
  <2>4. \A e \in Drops : e # d => RowsOf(e)' = RowsOf(e)
    BY <2>2, <2>3 DEF RowsOf
  <2>. QED  BY <1>2, <2>1, <2>4 DEF EvenInv
<1>. QED  BY <1>3, <1>4, <1>5, <1>6, <1>7

LEMMA ChangeEven ==
  ASSUME Types, PhasesFit, EvenInv, NEW d \in Drops, NEW g \in Groups,
         \/ StartHide(d, g) \/ Hide(d, g) \/ HideNothing(d, g) \/ Unhide(d, g) \/ Delete(d, g)
         \/ \E v \in Values \ {value[d]} : Edit(d, g, v)
         \/ \E ps \in Namings : ModifySplits(d, g, ps)
  PROVE  EvenInv'
<1>1. Change
  BY DEF Change
<1>2. marked \subseteq marked'
  BY <1>1, MarksStay DEF Next
<1>3. UNCHANGED rows /\ \A e \in Drops : RowsOf(e)' = RowsOf(e)
  BY DEF StartHide, Hide, HideNothing, Unhide, Delete, Edit, ModifySplits, table, RowsOf
<1>4. CASE StartHide(d, g) \/ HideNothing(d, g)
  BY <1>2, <1>3, <1>4, EvenFrame DEF StartHide, HideNothing, table, entries, Editing, Bot, EvenInv
<1>5. CASE Hide(d, g) \/ Unhide(d, g) \/ Delete(d, g) \/ \E ps \in Namings : ModifySplits(d, g, ps)
  <2>1. Bot.stage = "idle" /\ UNCHANGED value
    BY <1>5 DEF Hide, Unhide, Delete, ModifySplits, Changeable, table, entries, Bot
  <2>2. \A e : ~Editing(e)
    BY <2>1 DEF Editing
  <2>. QED  BY <1>2, <1>3, <2>1, <2>2, EvenFrame DEF EvenInv
<1>6. ASSUME NEW v \in Values, Edit(d, g, v) PROVE EvenInv'
  <2>1. Bot.stage = "idle" /\ value' = [value EXCEPT ![d] = v]
    BY <1>6 DEF Edit, Changeable, Bot
  <2>2. \A e : ~Editing(e)
    BY <2>1 DEF Editing
  <2>3. Editing(d)'
    <3>1. Goes("credits", "edit", d, g, SplitNames(d, g)) /\ SplitNames(d, g) \in SUBSET Players
      BY <1>6 DEF Edit, SplitNames
    <3>2. Bot' = [stage |-> "credits", op |-> "edit", drop |-> d, group |-> g, names |-> SplitNames(d, g), old |-> {}]
      BY <3>1, BotGoes DEF Types, Bot, Stages, Ops
    <3>. QED  BY <3>2 DEF Editing
  <2>4. \A e \in Drops : e # d => value'[e] = value[e]
    BY <2>1 DEF Types
  <2>. QED  BY <1>2, <1>3, <2>2, <2>3, <2>4, EvenFrame DEF EvenInv
<1>. QED  BY <1>4, <1>5, <1>6

LEMMA FollowEven ==
  ASSUME Types, PhasesFit, EvenInv, Follow
  PROVE  EvenInv'
<1>1. PICK d \in Drops, g \in Groups : d = Bot.drop /\ g = Bot.group
  BY FollowsOf
<1>2. marked \subseteq marked' /\ UNCHANGED value
  <2>1. marked \subseteq marked'
    BY MarksStay DEF Next
  <2>2. UNCHANGED value
    BY DEF Follow, AfterHide, AfterUnhide, AfterEdit, Strip, AfterModify, Erase, ChangeFails, table, entries
  <2>. QED  BY <2>1, <2>2
<1>3. \A e \in Drops : e # d => ~Editing(e)
  BY <1>1 DEF Editing
<1>4. ASSUME NEW e \in Drops, NEW h \in Groups, ~Failed(e)', e # d,
             \A r \in rows \cup rows' : r.drop # d => (r \in rows <=> r \in rows')
      PROVE  Even(e, h)'
  <2>1. RowsOf(e)' = RowsOf(e)
    BY <1>4 DEF RowsOf
  <2>. QED  BY <1>2, <1>3, <1>4, <2>1, EvenFrame
<1>5. CASE AfterHide \/ AfterUnhide
  <2>1. UNCHANGED rows /\ ~Editing(d)
    BY <1>5 DEF AfterHide, AfterUnhide, table, At_, Editing
  <2>2. \A e \in Drops : ~Editing(e) /\ RowsOf(e)' = RowsOf(e)
    BY <1>3, <2>1 DEF RowsOf
  <2>. QED  BY <1>2, <2>2, EvenFrame DEF EvenInv
<1>6. CASE AfterEdit
  <2>. DEFINE gs == {h \in GroupsOf(Receiver[d]) : Tracked(d, h) # {}}
  <2>1. rows' = {r \in rows : ~(r.drop = d /\ r.group \in gs)} \cup UNION {Revalued(d, h) : h \in gs}
    BY <1>1, <1>6 DEF AfterEdit
  <2>2. \A h \in gs : \A r \in Revalued(d, h) : r.drop = d /\ r.group = h
    BY DEF Revalued, Shares
  <2>3. ASSUME NEW h \in Groups PROVE Even(d, h)'
    <3>1. CASE h \in gs
      <4>1. RowsIn(d, h)' = Revalued(d, h)
        BY <2>1, <2>2, <3>1 DEF RowsIn, RowsOf
      <4>2. PlayersIn(RowsIn(d, h)) \in SUBSET Players
        BY RowPlayers DEF RowsIn, RowsOf
      <4>. QED  BY <1>2, <4>1, <4>2, EvenShares DEF Revalued
    <3>2. CASE h \notin gs
      <4>1. RowsIn(d, h) = {}
        BY <3>2 DEF Tracked, PhasesFit, RowFits, RowsIn, RowsOf
      <4>2. RowsIn(d, h)' = {}
        BY <2>1, <2>2, <3>2, <4>1 DEF RowsIn, RowsOf
      <4>. QED  BY <4>2, EvenNone
    <3>. QED  BY <3>1, <3>2
  <2>4. \A r \in rows \cup rows' : r.drop # d => (r \in rows <=> r \in rows')
    BY <2>1, <2>2
  <2>5. ASSUME NEW e \in Drops, NEW h \in Groups, ~Failed(e)' PROVE Even(e, h)'
    BY <1>4, <2>3, <2>4, <2>5
  <2>. QED  BY <2>5 DEF EvenInv
<1>7. ASSUME ~Editing(d), \A h \in Groups : h # g => RowsIn(d, h)' = RowsIn(d, h),
             \A r \in rows \cup rows' : r.drop # d => (r \in rows <=> r \in rows'),
             Even(d, g)'
      PROVE  EvenInv'
  <2>1. ASSUME NEW h \in Groups, h # g, ~Failed(d)' PROVE Even(d, h)'
    <3>1. Even(d, h)
      BY <1>2, <1>7, <2>1 DEF EvenInv, Failed
    <3>. QED  BY <1>2, <1>7, <2>1, <3>1 DEF Even, Shares
  <2>2. ASSUME NEW e \in Drops, NEW h \in Groups, ~Failed(e)' PROVE Even(e, h)'
    BY <1>4, <1>7, <2>1, <2>2
  <2>. QED  BY <2>2 DEF EvenInv
<1>8. CASE Strip
  <2>1. rows' = rows \ Tracked(d, g) /\ ~Editing(d)
    BY <1>1, <1>8 DEF Strip, At_, Editing
  <2>2. \A r \in Tracked(d, g) : r.drop = d /\ r.group = g
    BY DEF Tracked, RowsIn, RowsOf
  <2>3. RowsIn(d, g)' = {}
    BY <2>1 DEF Tracked, RowsIn, RowsOf, PhasesFit, RowFits
  <2>4. \A h \in Groups : h # g => RowsIn(d, h)' = RowsIn(d, h)
    BY <2>1, <2>2 DEF RowsIn, RowsOf
  <2>5. Even(d, g)'
    BY <2>3, EvenNone
  <2>. QED  BY <1>7, <2>1, <2>2, <2>4, <2>5
<1>9. CASE AfterModify
  <2>. DEFINE ps == IF g \in Tracking THEN Bot.names \cap Member[g] ELSE {}
              rs == Shares(d, g, ps, value[d])
  <2>1. rows' = rows \cup rs /\ ~Editing(d) /\ Bot.op = "modify" /\ Bot.stage = "credits"
    BY <1>1, <1>9 DEF AfterModify, At_, Editing
  <2>2. \A r \in rs : r.drop = d /\ r.group = g
    BY DEF Shares
  <2>3. RowsIn(d, g) = {}
    BY <1>1, <2>1 DEF PhasesFit, ChangeFits, Changing, Stages
  <2>4. RowsIn(d, g)' = rs
    BY <2>1, <2>2, <2>3 DEF RowsIn, RowsOf
  <2>5. \A h \in Groups : h # g => RowsIn(d, h)' = RowsIn(d, h)
    BY <2>1, <2>2 DEF RowsIn, RowsOf
  <2>6. ps \in SUBSET Players
    BY FollowsOf, ChangeJob
  <2>7. Even(d, g)'
    <3>. HIDE DEF ps
    <3>. QED  BY <1>2, <2>4, <2>6, EvenShares
  <2>. QED  BY <1>7, <2>1, <2>2, <2>5, <2>7
<1>10. CASE Erase
  <2>1. rows' = rows \ RowsOf(d)
    BY <1>1, <1>10 DEF Erase
  <2>2. \A h \in Groups : RowsIn(d, h)' = {}
    BY <2>1 DEF RowsIn, RowsOf
  <2>3. \A r \in rows \cup rows' : r.drop # d => (r \in rows <=> r \in rows')
    BY <2>1 DEF RowsOf
  <2>4. ASSUME NEW e \in Drops, NEW h \in Groups, ~Failed(e)' PROVE Even(e, h)'
    BY <1>4, <2>2, <2>3, <2>4, EvenNone
  <2>. QED  BY <2>4 DEF EvenInv
<1>11. CASE ChangeFails
  <2>1. Failed(d)' /\ UNCHANGED rows
    BY <1>1, <1>11 DEF ChangeFails, Failed, Mark, table
  <2>2. ASSUME NEW e \in Drops, NEW h \in Groups, ~Failed(e)' PROVE Even(e, h)'
    BY <1>4, <2>1, <2>2
  <2>. QED  BY <2>2 DEF EvenInv
<1>. QED  BY <1>5, <1>6, <1>8, <1>9, <1>10, <1>11 DEF Follow

LEMMA EvenStep ==
  ASSUME Types, PhasesFit, EvenInv, [Next]_vars
  PROVE  EvenInv'
<1>1. CASE Arrival
  BY <1>1, ArrivalEven DEF Arrival
<1>2. CASE Change
  BY <1>2, ChangeEven DEF Change
<1>3. ASSUME UNCHANGED <<value, rows>>, KeptChange, marked \subseteq marked' PROVE EvenInv'
  <2>1. \A d \in Drops : RowsOf(d)' = RowsOf(d)
    BY <1>3 DEF RowsOf
  <2>. QED  BY <1>3, <2>1, SameEditing, EvenFrame DEF EvenInv
<1>4. CASE Rebuild
  BY <1>3, <1>4, RebuildShape, RebuildJobs DEF table, entries
<1>5. CASE \E o \in Others : Achieve(o)
  BY <1>3, <1>5 DEF Achieve, history, KeptChange, Bot
<1>6. CASE UNCHANGED vars
  BY <1>3, <1>6 DEF vars, KeptChange, Bot
<1>. QED  BY <1>1, <1>2, <1>4, <1>5, <1>6, FollowEven DEF Next

\* SharesAreEven for every set of drops and any number of changes: the rows of
\* a drop in a group are what its value gives each head, whenever nothing is
\* under way.
THEOREM SharesEven == Spec => []SharesAreEven
<1>. DEFINE IInv == Types /\ PhasesFit /\ EvenInv
<1>1. Init => IInv
  <2>1. ASSUME Init, NEW d \in Drops, NEW g \in Groups PROVE Even(d, g)
    <3>1. RowsIn(d, g) = {} /\ Shares(d, g, {}, value[d]) = {}
      BY <2>1 DEF Init, RowsIn, RowsOf, Shares
    <3>. QED  BY <3>1 DEF Even
  <2>. QED  BY <2>1, InitPhases DEF EvenInv
<1>2. IInv /\ [Next]_vars => IInv'
  BY NextTypes, PhasesStep, EvenStep
<1>3. IInv => SharesAreEven
  <2>1. SUFFICES ASSUME IInv, Quiet, NEW d \in Drops, NEW g \in Groups, <<"failed", d>> \notin marked,
                        NEW r \in RowsIn(d, g)
                 PROVE  r.value = value[d] \div (1 + Cardinality(RowsIn(d, g)))
    BY DEF SharesAreEven
  <2>2. ~Editing(d)
    BY <2>1 DEF Quiet, Editing, Bot, Actors
  <2>3. PICK ps \in SUBSET Players : RowsIn(d, g) = Shares(d, g, ps, value[d])
    BY <2>1, <2>2 DEF EvenInv, Even, Failed
  <2>4. Cardinality(RowsIn(d, g)) = Cardinality(ps)
    BY <2>1, <2>3, SharesAreRows DEF Types
  <2>5. r.value = value[d] \div (1 + Cardinality(ps))
    BY <2>3 DEF Shares
  <2>. QED  BY <2>4, <2>5
<1>. QED  BY <1>1, <1>2, <1>3, PTL DEF Spec

-----------------------------------------------------------------------------
(* Points follow the entry that earned them.                               *)

\* When a drop has paid nobody in a group.
Blank(d, g) ==
  \/ state[d] \in {"none", "gone", "hidden"}
  \/ state[d] = "open" /\ g \in pending[d]
  \/ /\ Changing /\ Bot.drop = d
     /\ Bot.op \in {"unhide", "edit"} \/ (Bot.op = "modify" /\ Bot.group = g)
Nobody(d, g) == \A p \in Players : paid[g][d][p] = 0
Once(d, g) ==
  /\ Receiver[d] \in Member[g] => paid[g][d][Receiver[d]] = 1
  /\ \A p \in Players : paid[g][d][p] <= 1
PaidFor(d, g) == IF Blank(d, g) THEN Nobody(d, g) ELSE Once(d, g)
Spoiled(d) == Failed(d) \/ <<"unseen", d>> \in marked
PaidDrops == \A d \in Drops, g \in Groups : ~Spoiled(d) => PaidFor(d, g)
Keeps(o, g) ==
  state[o] = "stored" /\ Owner[o] \in Member[g] =>
    paid[g][o][Owner[o]] = 1 \/ <<"number", o>> \in marked
PaidOthers == \A o \in Others, g \in Groups : Keeps(o, g)
\* A change of splits or of the value of a hidden drop is known to be one.
UnseenKnown ==
  Changing /\ Bot.op \in {"edit", "modify"} /\ state[Bot.drop] = "hidden" =>
    <<"unseen", Bot.drop>> \in marked

\* The change under way is not of this drop, and does not come to be.
Aside(d) == KeptChange \/ ((Changing => Bot.drop # d) /\ (Changing' => Bot'.drop # d))

LEMMA BlankSame ==
  ASSUME NEW d \in Drops, NEW g \in Groups, state'[d] = state[d], pending'[d] = pending[d], Aside(d)
  PROVE  Blank(d, g)' <=> Blank(d, g)
BY DEF Blank, Aside, KeptChange, Changing

LEMMA PaidKept ==
  ASSUME PaidDrops, NEW d \in Drops, NEW g \in Groups, ~Spoiled(d)', marked \subseteq marked',
         Blank(d, g)' <=> Blank(d, g), paid'[g][d] = paid[g][d]
  PROVE  PaidFor(d, g)'
<1>1. PaidFor(d, g)
  BY DEF PaidDrops, Spoiled, Failed
<1>. QED  BY <1>1 DEF PaidFor, Nobody, Once

LEMMA PaidNobody ==
  ASSUME NEW d \in Drops, NEW g \in Groups, Nobody(d, g)', Blank(d, g)' \/ Receiver[d] \notin Member[g]
  PROVE  PaidFor(d, g)'
BY DEF PaidFor, Nobody, Once

LEMMA KeepsStay ==
  ASSUME PaidOthers, NEW o \in Others, NEW g \in Groups, marked \subseteq marked',
         state'[o] = state[o], paid'[g][o] = paid[g][o] \/ <<"number", o>> \in marked'
  PROVE  Keeps(o, g)'
BY DEF PaidOthers, Keeps

\* What the payments of a drop leave of the others.
LEMMA PaysOne ==
  ASSUME Types, NEW d \in Drops, NEW pays, \A g \in DOMAIN pays : pays[g] \in [Players -> Nat]
  PROVE  /\ \A g \in Groups, e \in Entries : e # d \/ g \notin DOMAIN pays => Paid(pays, d)[g][e] = paid[g][e]
         /\ \A g \in DOMAIN pays \cap Groups, p \in Players :
              Paid(pays, d)[g][d][p] = paid[g][d][p] + pays[g][p]
<1>1. paid \in Payments /\ d \in Entries
  BY DEF Types, Payments, Entries
<1>2. \A g \in DOMAIN pays \cap Groups, p \in Players :
              Paid(pays, d)[g][d][p] = paid[g][d][p] + pays[g][p]
  BY <1>1, PaidType
<1>3. ASSUME NEW g \in Groups, NEW e \in Entries, e # d \/ g \notin DOMAIN pays
      PROVE  Paid(pays, d)[g][e] = paid[g][e]
  BY <1>1, <1>3 DEF Paid, Payments
<1>. QED  BY <1>2, <1>3

\* A drop that has paid nobody pays once.
LEMMA PaysOnce ==
  ASSUME Types, NEW d \in Drops, NEW g \in Groups, NEW ps, Nobody(d, g),
         \A p \in Players : paid'[g][d][p] = paid[g][d][p] + Payment(d, ps, g)[p]
  PROVE  Once(d, g)'
<1>1. \A p \in Players : paid'[g][d][p] = Payment(d, ps, g)[p]
  <2>1. \A p \in Players : paid[g][d][p] = 0 /\ Payment(d, ps, g)[p] \in Nat
    BY PaymentType DEF Nobody
  <2>. QED  BY <2>1
<1>2. Receiver[d] \in Players
  BY SharingAssumption
<1>. QED  BY <1>1, <1>2 DEF Once, Payment

LEMMA ArrivalPaid ==
  ASSUME Types, PhasesFit, PaidDrops, PaidOthers, NEW d \in Drops,
         \/ \E ps \in Namings : Submit(d, ps)
         \/ \E g \in Groups : ShareOut(d, g) \/ ShareFails(d, g)
         \/ Commit(d) \/ RollBack(d)
  PROVE  PaidDrops' /\ PaidOthers'
<1>1. KeptChange /\ marked \subseteq marked' /\ d \in Entries /\ Drops \subseteq Entries /\ d \notin Others
      /\ Others \subseteq Entries
  <2>1. KeptChange
    BY ArrivalPhases
  <2>2. Arrival
    BY DEF Arrival
  <2>. QED  BY <2>1, <2>2, MarksStay, SharingAssumption DEF Next, Entries
<1>2. \A e : Aside(e)
  BY <1>1 DEF Aside
<1>3. ASSUME \A g \in Groups, e \in Entries : e # d => paid'[g][e] = paid[g][e],
             \A e \in Entries : e # d => state'[e] = state[e],
             \A e \in Drops : e # d => pending'[e] = pending[e],
             \A g \in Groups : ~Spoiled(d)' => PaidFor(d, g)'
      PROVE  PaidDrops' /\ PaidOthers'
  <2>1. PaidDrops'
    BY <1>1, <1>2, <1>3, BlankSame, PaidKept DEF PaidDrops
  <2>2. PaidOthers'
    BY <1>1, <1>3, KeepsStay DEF PaidOthers
  <2>. QED  BY <2>1, <2>2
<1>4. ASSUME NEW ps \in Namings, Submit(d, ps) PROVE PaidDrops' /\ PaidOthers'
  <2>1. UNCHANGED paid /\ state[d] = "none" /\ state'[d] = "open" /\ pending'[d] = GroupsOf(Receiver[d])
    BY <1>1, <1>4 DEF Submit, Types
  <2>2. ASSUME NEW g \in Groups, ~Spoiled(d)' PROVE PaidFor(d, g)'
    <3>1. Nobody(d, g)
      BY <1>1, <2>1, <2>2 DEF PaidDrops, Spoiled, Failed, PaidFor, Blank
    <3>2. Nobody(d, g)'
      BY <2>1, <3>1 DEF Nobody
    <3>3. Blank(d, g)' \/ Receiver[d] \notin Member[g]
      BY <2>1 DEF Blank, GroupsOf
    <3>. QED  BY <3>2, <3>3, PaidNobody
  <2>. QED  BY <1>1, <1>3, <1>4, <2>1, <2>2 DEF Submit, Types
<1>5. ASSUME NEW g \in Groups, ShareOut(d, g) \/ ShareFails(d, g) PROVE PaidDrops' /\ PaidOthers'
  <2>. DEFINE pays == [h \in {g} |-> Payment(d, named[d], h)]
  <2>1. paid' = Paid(pays, d) /\ UNCHANGED state /\ state[d] = "open" /\ g \in pending[d]
        /\ pending' = [pending EXCEPT ![d] = @ \ {g}]
    BY <1>5 DEF ShareOut, ShareFails
  <2>2. DOMAIN pays = {g} /\ pays[g] = Payment(d, named[d], g) /\ \A h \in DOMAIN pays : pays[h] \in [Players -> Nat]
    BY PaymentType
  <2>. HIDE DEF pays
  <2>3. \A h \in Groups, e \in Entries : e # d \/ h # g => paid'[h][e] = paid[h][e]
    BY <2>1, <2>2, PaysOne
  <2>4. \A p \in Players : paid'[g][d][p] = paid[g][d][p] + Payment(d, named[d], g)[p]
    BY <2>1, <2>2, PaysOne
  <2>5. ~(Changing /\ Bot.drop = d) /\ ~(Changing' /\ Bot'.drop = d)
    BY <1>1, <2>1 DEF PhasesFit, ChangeFits, KeptChange, Changing
  <2>6. pending'[d] = pending[d] \ {g} /\ state'[d] = "open"
    BY <2>1 DEF Types
  <2>7. ASSUME NEW h \in Groups, ~Spoiled(d)' PROVE PaidFor(d, h)'
    <3>1. PaidFor(d, h)
      BY <1>1, <2>7 DEF PaidDrops, Spoiled, Failed
    <3>2. CASE h = g
      <4>1. Blank(d, g) /\ ~Blank(d, g)'
        BY <2>1, <2>5, <2>6 DEF Blank
      <4>2. Once(d, g)'
        BY <2>4, <3>1, <3>2, <4>1, PaysOnce DEF PaidFor
      <4>. QED  BY <3>2, <4>1, <4>2 DEF PaidFor
    <3>3. CASE h # g
      <4>1. Blank(d, h)' <=> Blank(d, h)
        BY <2>1, <2>5, <2>6, <3>3 DEF Blank
      <4>. QED  BY <1>1, <2>3, <2>7, <3>3, <4>1, PaidKept
    <3>. QED  BY <3>2, <3>3
  <2>8. \A e \in Drops : e # d => pending'[e] = pending[e]
    BY <2>1 DEF Types
  <2>. QED  BY <1>3, <2>1, <2>3, <2>7, <2>8
<1>6. CASE Commit(d)
  <2>1. UNCHANGED <<paid, pending>> /\ state[d] = "open" /\ pending[d] = {} /\ state'[d] = "stored"
        /\ state' = [state EXCEPT ![d] = "stored"]
    BY <1>1, <1>6 DEF Commit, Types
  <2>2. ~(Changing /\ Bot.drop = d) /\ ~(Changing' /\ Bot'.drop = d)
    BY <1>1, <2>1 DEF PhasesFit, ChangeFits, KeptChange, Changing
  <2>3. \A g \in Groups : ~Blank(d, g) /\ ~Blank(d, g)'
    BY <2>1, <2>2 DEF Blank
  <2>. QED  BY <1>1, <1>3, <2>1, <2>3, PaidKept DEF Types
<1>7. CASE RollBack(d)
  <2>1. state'[d] = "gone" /\ state' = [state EXCEPT ![d] = "gone"] /\ UNCHANGED pending
        /\ paid' = [g \in Groups |-> [paid[g] EXCEPT ![d] = NoPay]]
    BY <1>1, <1>7 DEF RollBack, Types
  <2>2. \A g \in Groups : Nobody(d, g)'
    BY <1>1, <2>1 DEF Nobody, NoPay, Types
  <2>3. \A g \in Groups : Blank(d, g)'
    BY <2>1 DEF Blank
  <2>4. \A g \in Groups, e \in Entries : e # d => paid'[g][e] = paid[g][e]
    BY <1>1, <2>1 DEF Types
  <2>. QED  BY <1>1, <1>3, <2>1, <2>2, <2>3, <2>4, PaidNobody DEF Types
<1>. QED  BY <1>4, <1>5, <1>6, <1>7

LEMMA AchievePaid ==
  ASSUME Types, PaidDrops, PaidOthers, NEW o \in Others, Achieve(o)
  PROVE  PaidDrops' /\ PaidOthers'
<1>1. o \notin Drops /\ o \in Entries /\ Drops \subseteq Entries /\ Others \subseteq Entries /\ marked' = marked
      /\ KeptChange /\ UNCHANGED pending
  BY SharingAssumption DEF Entries, Achieve, history, KeptChange, Bot
<1>2. \A g \in Groups, e \in Entries : e # o => paid'[g][e] = paid[g][e] /\ state'[e] = state[e]
  BY <1>1 DEF Achieve, Types
<1>3. \A g \in Groups : Owner[o] \in Member[g] => paid'[g][o][Owner[o]] = 1
  BY <1>1, SharingAssumption DEF Achieve, Types
<1>4. PaidDrops'
  <2>1. \A d \in Drops : Aside(d)
    BY <1>1 DEF Aside
  <2>. QED  BY <1>1, <1>2, <2>1, BlankSame, PaidKept DEF PaidDrops
<1>5. PaidOthers'
  BY <1>1, <1>2, <1>3, KeepsStay DEF PaidOthers, Keeps
<1>. QED  BY <1>4, <1>5

\* What is left of the points of a number.
LEMMA Unpays ==
  ASSUME Types, NEW d \in Drops, NEW gs, Struck(d) \subseteq marked'
  PROVE  /\ \A g \in Groups, e \in Drops : e # d \/ g \notin gs => Unpaid(d, gs)[g][e] = paid[g][e]
         /\ \A g \in Groups \cap gs : Unpaid(d, gs)[g][d] = NoPay
         /\ \A g \in Groups, o \in Others : Unpaid(d, gs)[g][o] = paid[g][o] \/ <<"number", o>> \in marked'
<1>1. Drops \subseteq Entries /\ Others \subseteq Entries /\ d \notin Others
  BY SharingAssumption DEF Entries
<1>2. paid \in Payments
  BY DEF Types, Payments
<1>3. \A g \in Groups, e \in Entries :
        Unpaid(d, gs)[g][e] = IF g \in gs /\ e \in SameNumber(d) THEN NoPay ELSE paid[g][e]
  BY <1>2, UnpaidType
<1>4. \A e \in Drops : e \in SameNumber(d) <=> e = d
  BY <1>1, SharingAssumption DEF SameNumber
<1>5. \A o \in Others : o \in SameNumber(d) => <<"number", o>> \in marked'
  BY <1>1 DEF Struck, Mark
<1>. QED  BY <1>1, <1>3, <1>4, <1>5

LEMMA ChangePaid ==
  ASSUME Types, PhasesFit, PaidDrops, PaidOthers, UnseenKnown, NEW d \in Drops, NEW g \in Groups,
         \/ StartHide(d, g) \/ Hide(d, g) \/ HideNothing(d, g) \/ Unhide(d, g) \/ Delete(d, g)
         \/ \E v \in Values \ {value[d]} : Edit(d, g, v)
         \/ \E ps \in Namings : ModifySplits(d, g, ps)
  PROVE  PaidDrops' /\ PaidOthers' /\ UnseenKnown'
<1>1. marked \subseteq marked' /\ Drops \subseteq Entries /\ Others \subseteq Entries /\ d \notin Others /\ d \in Entries
  <2>1. Change
    BY DEF Change
  <2>. QED  BY <2>1, MarksStay, SharingAssumption DEF Next, Entries
<1>2. CASE StartHide(d, g) \/ HideNothing(d, g)
  <2>1. KeptChange /\ UNCHANGED <<table, job, marked>>
    BY <1>2 DEF StartHide, HideNothing, KeptChange, Bot, history
  <2>2. PaidDrops' /\ PaidOthers'
    BY <1>1, <2>1, BlankSame, PaidKept, KeepsStay DEF Aside, PaidDrops, PaidOthers, table, entries
  <2>. QED  BY <2>1, <2>2 DEF UnseenKnown, Changing, Bot, table, entries
<1>3. ASSUME ~Changing, Changing', Bot'.drop = d, UNCHANGED pending,
             \A e \in Entries : e # d => state'[e] = state[e],
             \A h \in Groups, e \in Drops : e # d => paid'[h][e] = paid[h][e],
             \A h \in Groups, o \in Others : paid'[h][o] = paid[h][o] \/ <<"number", o>> \in marked',
             Bot'.op \in {"edit", "modify"} /\ state'[d] = "hidden" => <<"unseen", d>> \in marked',
             \A h \in Groups : PaidFor(d, h) \/ Spoiled(d) => PaidFor(d, h)' \/ Spoiled(d)'
      PROVE  PaidDrops' /\ PaidOthers' /\ UnseenKnown'
  <2>4. UnseenKnown'
    BY <1>3 DEF UnseenKnown
  <2>5. ASSUME NEW e \in Drops, NEW h \in Groups, ~Spoiled(e)' PROVE PaidFor(e, h)'
    <3>1. CASE e = d
      BY <1>3, <2>5, <3>1 DEF PaidDrops
    <3>2. CASE e # d
      <4>1. Aside(e)
        BY <1>3, <3>2 DEF Aside
      <4>2. Blank(e, h)' <=> Blank(e, h)
        BY <1>1, <1>3, <3>2, <4>1, BlankSame
      <4>. QED  BY <1>1, <1>3, <2>5, <3>2, <4>2, PaidKept
    <3>. QED  BY <3>1, <3>2
  <2>6. PaidOthers'
    BY <1>1, <1>3, KeepsStay DEF PaidOthers
  <2>. QED  BY <2>4, <2>5, <2>6 DEF PaidDrops
<1>5. ASSUME NEW op \in Ops, NEW stage \in Stages, NEW ps, Changeable(d, g), Goes(stage, op, d, g, ps), ps \in SUBSET Players
      PROVE  ~Changing /\ Changing' /\ Bot'.drop = d /\ Bot'.op = op /\ Bot'.group = g
  <2>1. ~Changing
    BY <1>5 DEF Bot, Changing, Changeable, Stages
  <2>2. Bot' = [stage |-> stage, op |-> op, drop |-> d, group |-> g, names |-> ps, old |-> {}]
    BY <1>5, BotGoes DEF Types, Bot
  <2>. QED  BY <2>1, <2>2 DEF Changing
<1>6. ASSUME NEW h \in Groups, paid'[h][d] = NoPay, Blank(d, h)' PROVE PaidFor(d, h)'
  BY <1>6 DEF PaidFor, Nobody, NoPay
<1>7. ASSUME NEW h \in Groups, paid'[h][d] = paid[h][d], Blank(d, h)' <=> Blank(d, h), PaidFor(d, h) \/ Spoiled(d)
      PROVE  PaidFor(d, h)' \/ Spoiled(d)'
  BY <1>1, <1>7 DEF PaidFor, Nobody, Once, Spoiled, Failed
<1>8. CASE Hide(d, g)
  <2>1. Changeable(d, g) /\ Goes("credits", "hide", d, g, {}) /\ state' = [state EXCEPT ![d] = "hidden"]
        /\ paid' = Unpaid(d, Groups) /\ Struck(d) \subseteq marked' /\ UNCHANGED pending
    BY <1>8 DEF Hide
  <2>2. ~Changing /\ Changing' /\ Bot'.drop = d /\ Bot'.op = "hide"
    BY <1>5, <2>1 DEF Ops, Stages
  <2>3. \A h \in Groups : Blank(d, h)' /\ paid'[h][d] = NoPay
    BY <1>1, <2>1, Unpays DEF Blank, Types
  <2>4. \A e \in Entries : e # d => state'[e] = state[e]
    BY <1>1, <2>1 DEF Types
  <2>5. \A h \in Groups : PaidFor(d, h)'
    BY <1>6, <2>3
  <2>6. /\ \A h \in Groups, e \in Drops : e # d => paid'[h][e] = paid[h][e]
        /\ \A h \in Groups, o \in Others : paid'[h][o] = paid[h][o] \/ <<"number", o>> \in marked'
    BY <2>1, Unpays
  <2>. QED  BY <1>3, <2>1, <2>2, <2>4, <2>5, <2>6
<1>9. CASE Unhide(d, g)
  <2>1. Changeable(d, g) /\ Goes("credits", "unhide", d, g, {}) /\ state' = [state EXCEPT ![d] = "stored"]
        /\ UNCHANGED <<paid, pending>> /\ state[d] = "hidden"
    BY <1>9 DEF Unhide
  <2>2. ~Changing /\ Changing' /\ Bot'.drop = d /\ Bot'.op = "unhide"
    BY <1>5, <2>1 DEF Ops, Stages
  <2>3. \A h \in Groups : Blank(d, h)' /\ Blank(d, h)
    BY <2>1, <2>2 DEF Blank
  <2>4. \A e \in Entries : e # d => state'[e] = state[e]
    BY <1>1, <2>1 DEF Types
  <2>5. \A h \in Groups : PaidFor(d, h) \/ Spoiled(d) => PaidFor(d, h)' \/ Spoiled(d)'
    BY <1>7, <2>1, <2>3
  <2>. QED  BY <1>3, <2>1, <2>2, <2>4, <2>5
<1>10. CASE Delete(d, g)
  <2>1. Changeable(d, g) /\ Goes("erase", "delete", d, g, {}) /\ UNCHANGED <<state, paid, pending>>
    BY <1>10 DEF Delete, table, entries
  <2>2. ~Changing /\ Changing' /\ Bot'.drop = d /\ Bot'.op = "delete"
    BY <1>5, <2>1 DEF Ops, Stages
  <2>3. \A h \in Groups : Blank(d, h)' <=> Blank(d, h)
    BY <2>1, <2>2 DEF Blank
  <2>5. \A h \in Groups : PaidFor(d, h) \/ Spoiled(d) => PaidFor(d, h)' \/ Spoiled(d)'
    BY <1>7, <2>1, <2>3
  <2>. QED  BY <1>3, <2>1, <2>2, <2>5
<1>11. ASSUME NEW v \in Values, Edit(d, g, v) PROVE PaidDrops' /\ PaidOthers' /\ UnseenKnown'
  <2>1. Changeable(d, g) /\ Goes("credits", "edit", d, g, SplitNames(d, g)) /\ UNCHANGED <<state, pending>>
        /\ paid' = Unpaid(d, Groups) /\ marked' = Struck(d) \cup MarkHidden(d) /\ SplitNames(d, g) \in SUBSET Players
    BY <1>11 DEF Edit, SplitNames
  <2>2. ~Changing /\ Changing' /\ Bot'.drop = d /\ Bot'.op = "edit"
    BY <1>5, <2>1 DEF Ops, Stages
  <2>3. Struck(d) \subseteq marked'
    BY <2>1
  <2>4. \A h \in Groups : Blank(d, h)' /\ paid'[h][d] = NoPay
    BY <2>1, <2>2, <2>3, Unpays DEF Blank
  <2>5. state'[d] = "hidden" => <<"unseen", d>> \in marked'
    BY <2>1 DEF MarkHidden
  <2>6. \A h \in Groups : PaidFor(d, h)'
    BY <1>6, <2>4
  <2>7. /\ \A h \in Groups, e \in Drops : e # d => paid'[h][e] = paid[h][e]
        /\ \A h \in Groups, o \in Others : paid'[h][o] = paid[h][o] \/ <<"number", o>> \in marked'
    BY <2>1, <2>3, Unpays
  <2>. QED  BY <1>3, <2>1, <2>2, <2>5, <2>6, <2>7
<1>12. ASSUME NEW ps \in Namings, ModifySplits(d, g, ps) PROVE PaidDrops' /\ PaidOthers' /\ UnseenKnown'
  <2>1. Changeable(d, g) /\ Goes("strip", "modify", d, g, ps) /\ UNCHANGED <<state, pending>>
        /\ paid' = Unpaid(d, {g}) /\ marked' = Struck(d) \cup MarkHidden(d) /\ ps \in SUBSET Players
    BY <1>12, SharingAssumption DEF ModifySplits, entries
  <2>2. ~Changing /\ Changing' /\ Bot'.drop = d /\ Bot'.op = "modify" /\ Bot'.group = g
    BY <1>5, <2>1 DEF Ops, Stages
  <2>3. Struck(d) \subseteq marked'
    BY <2>1
  <2>4. Blank(d, g)' /\ paid'[g][d] = NoPay
    BY <2>1, <2>2, <2>3, Unpays DEF Blank
  <2>5. \A h \in Groups : h # g => (Blank(d, h)' <=> Blank(d, h)) /\ paid'[h][d] = paid[h][d]
    BY <2>1, <2>2, <2>3, Unpays DEF Blank
  <2>6. state'[d] = "hidden" => <<"unseen", d>> \in marked'
    BY <2>1 DEF MarkHidden
  <2>7. \A h \in Groups : PaidFor(d, h) \/ Spoiled(d) => PaidFor(d, h)' \/ Spoiled(d)'
    BY <1>6, <1>7, <2>4, <2>5
  <2>8. /\ \A h \in Groups, e \in Drops : e # d => paid'[h][e] = paid[h][e]
        /\ \A h \in Groups, o \in Others : paid'[h][o] = paid[h][o] \/ <<"number", o>> \in marked'
    BY <2>1, <2>3, Unpays
  <2>. QED  BY <1>3, <2>1, <2>2, <2>6, <2>7, <2>8
<1>. QED  BY <1>2, <1>8, <1>9, <1>10, <1>11, <1>12

LEMMA FollowPaid ==
  ASSUME Types, PhasesFit, PaidDrops, PaidOthers, UnseenKnown, Follow
  PROVE  PaidDrops' /\ PaidOthers' /\ UnseenKnown'
<1>1. PICK d \in Drops, g \in Groups : d = Bot.drop /\ g = Bot.group
  BY FollowsOf
<1>2. Changing /\ state[d] \in {"stored", "hidden"} /\ marked \subseteq marked' /\ d \in Entries
      /\ Drops \subseteq Entries /\ Others \subseteq Entries /\ d \notin Others
      /\ g \in GroupsOf(Receiver[d])
      /\ (Bot.op = "hide" => state[d] = "hidden") /\ (Bot.op = "unhide" => state[d] = "stored")
      /\ (Bot.op \in {"edit", "modify"} /\ state[d] = "hidden" => <<"unseen", d>> \in marked)
  BY <1>1, FollowsOf, MarksStay, SharingAssumption DEF Next, Entries, PhasesFit, ChangeFits, UnseenKnown
<1>3. ASSUME \A h \in Groups, e \in Drops : e # d => paid'[h][e] = paid[h][e],
             \A h \in Groups, o \in Others : paid'[h][o] = paid[h][o] \/ <<"number", o>> \in marked',
             \A e \in Entries : e # d => state'[e] = state[e], UNCHANGED pending,
             \/ Bot'.stage \notin Stages
             \/ Bot'.drop = d /\ Bot'.op = Bot.op /\ state'[d] = state[d],
             \A h \in Groups : PaidFor(d, h) /\ ~Spoiled(d) => PaidFor(d, h)' \/ Spoiled(d)'
      PROVE  PaidDrops' /\ PaidOthers' /\ UnseenKnown'
  <2>1. UnseenKnown'
    BY <1>1, <1>2, <1>3 DEF UnseenKnown, Changing
  <2>2. ASSUME NEW e \in Drops, NEW h \in Groups, ~Spoiled(e)' PROVE PaidFor(e, h)'
    <3>1. CASE e = d
      BY <1>2, <1>3, <2>2, <3>1 DEF PaidDrops, Spoiled, Failed
    <3>2. CASE e # d
      <4>1. Aside(e)
        BY <1>1, <1>3, <3>2 DEF Aside, Changing
      <4>2. Blank(e, h)' <=> Blank(e, h)
        BY <1>2, <1>3, <3>2, <4>1, BlankSame
      <4>. QED  BY <1>2, <1>3, <2>2, <3>2, <4>2, PaidKept
    <3>. QED  BY <3>1, <3>2
  <2>3. PaidOthers'
    BY <1>2, <1>3, KeepsStay DEF PaidOthers
  <2>. QED  BY <2>1, <2>2, <2>3 DEF PaidDrops
<1>4. Tracked(d, g) \subseteq rows /\ RowsOf(d) \subseteq rows /\ PlayersIn(Tracked(d, g)) \in SUBSET Players
      /\ PlayersIn(RowsOf(d)) \in SUBSET Players
  <2>1. Tracked(d, g) \subseteq rows /\ RowsOf(d) \subseteq rows
    BY DEF Tracked, RowsIn, RowsOf
  <2>. QED  BY <2>1, RowPlayers
<1>5. ASSUME NEW h \in Groups, paid'[h][d] = paid[h][d], Blank(d, h)' <=> Blank(d, h), PaidFor(d, h)
      PROVE  PaidFor(d, h)'
  BY <1>5 DEF PaidFor, Nobody, Once
<1>6. CASE AfterHide
  <2>1. Bot'.stage = "rebuild" /\ Bot.op = "hide" /\ UNCHANGED table
    BY <1>1, <1>4, <1>6, BotTurns DEF AfterHide, Types, Bot, At_
  <2>2. \A h \in Groups : Blank(d, h)' /\ Blank(d, h)
    BY <1>2, <2>1 DEF Blank, table, entries
  <2>. QED  BY <1>3, <1>5, <2>1, <2>2 DEF table, entries, Stages
<1>7. ASSUME Bot'.stage = "rebuild", Bot.op \in {"unhide", "edit"}, UNCHANGED entries, paid' = Paid(Repay(d), d)
      PROVE  PaidDrops' /\ PaidOthers' /\ UnseenKnown'
  <2>1. \A h \in Groups : Blank(d, h)
    BY <1>1, <1>2, <1>7 DEF Blank
  <2>2. \A h \in Groups, e \in Entries : e # d \/ h \notin GroupsOf(Receiver[d]) => paid'[h][e] = paid[h][e]
    BY <1>7, RepayType, PaysOne
  <2>3. \A h \in Groups \cap GroupsOf(Receiver[d]), p \in Players :
          paid'[h][d][p] = paid[h][d][p] + Payment(d, SplitNames(d, h), h)[p]
    <3>1. \A h \in GroupsOf(Receiver[d]) : Repay(d)[h] = Payment(d, SplitNames(d, h), h)
      BY DEF Repay
    <3>. QED  BY <1>7, <3>1, RepayType, PaysOne
  <2>4. ASSUME NEW h \in Groups, PaidFor(d, h), ~Spoiled(d) PROVE PaidFor(d, h)'
    <3>1. Nobody(d, h) /\ state[d] = "stored" /\ state'[d] = "stored" /\ ~Blank(d, h)'
      BY <1>2, <1>7, <2>1, <2>4 DEF PaidFor, Spoiled, entries, Blank, Changing, Stages
    <3>2. CASE h \in GroupsOf(Receiver[d])
      <4>1. Once(d, h)'
        BY <2>3, <3>1, <3>2, PaysOnce
      <4>. QED  BY <3>1, <4>1 DEF PaidFor
    <3>3. CASE h \notin GroupsOf(Receiver[d])
      <4>1. Receiver[d] \notin Member[h] /\ Nobody(d, h)'
        BY <1>2, <2>2, <3>1, <3>3 DEF GroupsOf, Nobody
      <4>. QED  BY <4>1, PaidNobody
    <3>. QED  BY <3>2, <3>3
  <2>. QED  BY <1>2, <1>3, <1>7, <2>2, <2>4 DEF entries, Stages
<1>8. CASE AfterUnhide
  <2>1. Bot'.stage = "rebuild"
    BY <1>1, <1>4, <1>8, BotTurns DEF AfterUnhide, Types, Bot
  <2>. QED  BY <1>1, <1>7, <1>8, <2>1 DEF AfterUnhide, At_
<1>9. CASE AfterEdit
  <2>. DEFINE gs == {h \in GroupsOf(Receiver[d]) : Tracked(d, h) # {}}
  <2>1. \A h \in gs : RowsIn(d, h) \subseteq rows
    BY DEF RowsIn, RowsOf
  <2>2. UNION {PlayersIn(RowsIn(d, h)) : h \in gs} \in SUBSET Players
    BY <2>1, RowPlayers
  <2>3. FirstReceiver(d, UNION {PlayersIn(RowsIn(d, h)) : h \in gs}, FALSE)
    BY <1>1, <1>9 DEF AfterEdit
  <2>4. Bot'.stage = "rebuild"
    <3>. HIDE DEF gs
    <3>. QED  BY <2>2, <2>3, BotTurns DEF Types, Bot
  <2>. QED  BY <1>1, <1>7, <1>9, <2>4 DEF AfterEdit, At_
<1>10. CASE Strip
  <2>1. Bot' = [Bot EXCEPT !.stage = "credits", !.old = PlayersIn(Tracked(d, g))]
    BY <1>1, <1>2, <1>4, <1>10, StripGoes DEF Strip, Bot
  <2>2. Bot \in ChangeJobs /\ UNCHANGED <<entries, paid>>
    BY <1>2, <1>10, ChangeJob DEF Strip
  <2>3. Bot'.stage = "credits" /\ Bot'.op = Bot.op /\ Bot'.drop = d /\ Bot'.group = g
    BY <1>1, <2>1, <2>2 DEF ChangeJobs
  <2>4. \A h \in Groups : Blank(d, h)' <=> Blank(d, h)
    BY <1>1, <1>2, <2>2, <2>3 DEF Blank, Changing, Stages, entries
  <2>. QED  BY <1>3, <1>5, <2>2, <2>3, <2>4 DEF entries
<1>11. CASE AfterModify
  <2>. DEFINE rs == Shares(d, g, IF g \in Tracking THEN Bot.names \cap Member[g] ELSE {}, value[d])
              pays == [h \in {g} |-> Payment(d, Bot.names, h)]
  <2>1. Bot'.stage = "rebuild"
    <3>1. \E open \in BOOLEAN : FirstReceiver(d, Bot.old \cup PlayersIn(rs), open)
      BY <1>1, <1>11 DEF AfterModify
    <3>2. Bot.old \cup PlayersIn(rs) \in SUBSET Players
      <4>1. Bot.old \in SUBSET Players /\ Bot.names \in SUBSET Players
        BY <1>2, ChangeJob
      <4>. QED  BY <4>1 DEF PlayersIn, Shares
    <3>. HIDE DEF rs
    <3>. QED  BY <3>1, <3>2, BotTurns DEF Types, Bot
  <2>2. Bot.op = "modify" /\ UNCHANGED entries /\ paid' = Paid(pays, d)
    BY <1>1, <1>11 DEF AfterModify, At_
  <2>3. DOMAIN pays = {g} /\ pays[g] = Payment(d, Bot.names, g) /\ \A h \in DOMAIN pays : pays[h] \in [Players -> Nat]
    BY PaymentType
  <2>. HIDE DEF pays
  <2>4. \A h \in Groups, e \in Entries : e # d \/ h # g => paid'[h][e] = paid[h][e]
    BY <2>2, <2>3, PaysOne
  <2>5. \A p \in Players : paid'[g][d][p] = paid[g][d][p] + Payment(d, Bot.names, g)[p]
    BY <2>2, <2>3, PaysOne
  <2>6. ASSUME NEW h \in Groups, PaidFor(d, h), ~Spoiled(d) PROVE PaidFor(d, h)'
    <3>1. state[d] = "stored" /\ state'[d] = "stored" /\ ~Blank(d, h)'
      BY <1>2, <2>1, <2>2, <2>6 DEF Spoiled, entries, Blank, Changing, Stages
    <3>2. CASE h = g
      <4>1. Blank(d, g)
        BY <1>1, <1>2, <2>2 DEF Blank
      <4>2. Once(d, g)'
        BY <2>5, <2>6, <3>2, <4>1, PaysOnce DEF PaidFor
      <4>. QED  BY <3>1, <3>2, <4>2 DEF PaidFor
    <3>3. CASE h # g
      <4>1. ~Blank(d, h)
        BY <1>1, <1>2, <2>2, <3>1, <3>3 DEF Blank
      <4>. QED  BY <1>2, <1>5, <2>4, <2>6, <3>1, <3>3, <4>1
    <3>. QED  BY <3>2, <3>3
  <2>. QED  BY <1>2, <1>3, <2>1, <2>2, <2>4, <2>6 DEF entries, Stages
<1>12. CASE Erase
  <2>1. Bot'.stage = "rebuild" /\ state' = [state EXCEPT ![d] = "gone"] /\ paid' = Unpaid(d, Groups)
        /\ Struck(d) \subseteq marked' /\ UNCHANGED pending
    BY <1>1, <1>4, <1>12, BotTurns DEF Erase, Types, Bot
  <2>2. \A h \in Groups : Blank(d, h)' /\ Nobody(d, h)'
    BY <1>2, <2>1, Unpays DEF Blank, Nobody, NoPay, Types
  <2>3. \A h \in Groups : PaidFor(d, h)'
    BY <2>2, PaidNobody
  <2>. QED  BY <1>2, <1>3, <2>1, <2>3, Unpays DEF Stages, Types
<1>13. CASE ChangeFails
  <2>1. Bot'.stage = "idle" /\ UNCHANGED table /\ Failed(d)'
    BY <1>1, <1>13, ChangeEnds DEF ChangeFails, Bot, IdleJob, Failed, Mark
  <2>. QED  BY <1>3, <2>1 DEF Spoiled, table, entries, Stages
<1>. QED  BY <1>6, <1>8, <1>9, <1>10, <1>11, <1>12, <1>13 DEF Follow

LEMMA PaidStep ==
  ASSUME Types, PhasesFit, PaidDrops, PaidOthers, UnseenKnown, [Next]_vars
  PROVE  PaidDrops' /\ PaidOthers' /\ UnseenKnown'
<1>1. ASSUME KeptChange, marked \subseteq marked', \A d \in Drops : state'[d] = state[d] \/ ~Changing \/ Bot.drop # d
      PROVE  UnseenKnown'
  <2>1. CASE Changing'
    <3>1. Bot' = Bot /\ Changing
      BY <1>1, <2>1 DEF KeptChange, Changing
    <3>2. state'[Bot.drop] = state[Bot.drop]
      BY <1>1, <3>1, ChangeJob
    <3>. QED  BY <1>1, <3>1, <3>2 DEF UnseenKnown
  <2>. QED  BY <2>1 DEF UnseenKnown
<1>2. CASE Arrival
  <2>1. PICK d \in Drops : \/ \E ps \in Namings : Submit(d, ps)
                           \/ \E g \in Groups : ShareOut(d, g) \/ ShareFails(d, g)
                           \/ Commit(d) \/ RollBack(d)
    BY <1>2 DEF Arrival
  <2>2. \A e \in Drops : state'[e] = state[e] \/ e = d
    BY <2>1 DEF Submit, ShareOut, ShareFails, Commit, RollBack, Types, Entries
  <2>3. state[d] \in {"none", "open"}
    BY <2>1 DEF Submit, ShareOut, ShareFails, Commit, RollBack
  <2>4. Changing => Bot.drop # d
    BY <2>3 DEF PhasesFit, ChangeFits
  <2>5. KeptChange /\ marked \subseteq marked'
    BY <1>2, <2>1, ArrivalPhases, MarksStay DEF Next
  <2>6. UnseenKnown'
    BY <1>1, <2>2, <2>4, <2>5
  <2>. QED  BY <2>1, <2>6, ArrivalPaid
<1>3. ASSUME NEW o \in Others, Achieve(o) PROVE PaidDrops' /\ PaidOthers' /\ UnseenKnown'
  <2>1. \A d \in Drops : state'[d] = state[d]
    BY <1>3, SharingAssumption DEF Achieve, Types, Entries
  <2>2. KeptChange /\ marked' = marked
    BY <1>3 DEF Achieve, KeptChange, Bot, history
  <2>. QED  BY <1>1, <1>3, <2>1, <2>2, AchievePaid
<1>4. ASSUME UNCHANGED <<table, marked>>, KeptChange PROVE PaidDrops' /\ PaidOthers' /\ UnseenKnown'
  <2>1. PaidDrops'
    BY <1>4, BlankSame, PaidKept DEF Aside, PaidDrops, table, entries
  <2>2. PaidOthers'
    BY <1>4, KeepsStay DEF PaidOthers, table, entries
  <2>. QED  BY <1>1, <1>4, <2>1, <2>2 DEF table, entries
<1>5. CASE Rebuild
  BY <1>4, <1>5, RebuildShape, RebuildJobs
<1>6. CASE UNCHANGED vars
  BY <1>4, <1>6 DEF vars, KeptChange, Bot, table, entries
<1>7. CASE Change
  BY <1>7, ChangePaid DEF Change
<1>. QED  BY <1>2, <1>3, <1>5, <1>6, <1>7, FollowPaid DEF Next

\* PointsFollowEntries for every set of drops, groups and players: when nothing
\* is under way, points of a group are those of entries that are there to be
\* seen, once each, whatever was submitted, hidden, restored, revalued, shared
\* anew and deleted before.
THEOREM PointsFollow == Spec => []PointsFollowEntries
<1>. DEFINE IInv == Types /\ PhasesFit /\ PaidDrops /\ PaidOthers /\ UnseenKnown
<1>1. Init => IInv
  <2>1. SUFFICES ASSUME Init PROVE IInv
    OBVIOUS
  <2>2. Drops \subseteq Entries /\ Others \subseteq Entries /\ Drops \cap Others = {}
    BY SharingAssumption DEF Entries
  <2>3. ~Changing
    BY <2>1 DEF Init, Changing, Bot, Actors, IdleJob, Stages
  <2>4. ASSUME NEW d \in Drops, NEW g \in Groups PROVE PaidFor(d, g)
    <3>1. state[d] \in {"none", "stored"}
      BY <2>1, <2>2 DEF Init
    <3>2. \A p \in Players : paid[g][d][p] = IF state[d] = "stored" /\ p = Receiver[d] /\ p \in Member[g] THEN 1 ELSE 0
      BY <2>1, <2>2 DEF Init
    <3>3. Receiver[d] \in Players
      BY SharingAssumption
    <3>. QED  BY <2>3, <3>1, <3>2, <3>3 DEF PaidFor, Blank, Nobody, Once
  <2>5. ASSUME NEW o \in Others, NEW g \in Groups PROVE Keeps(o, g)
    <3>1. state[o] = "none"
      BY <2>1, <2>2 DEF Init
    <3>. QED  BY <3>1 DEF Keeps
  <2>. QED  BY <2>1, <2>3, <2>4, <2>5, InitPhases DEF PaidDrops, PaidOthers, UnseenKnown
<1>2. IInv /\ [Next]_vars => IInv'
  BY NextTypes, PhasesStep, PaidStep
<1>3. IInv => PointsFollowEntries
  <2>1. SUFFICES ASSUME IInv, Quiet, NEW g \in Groups
                 PROVE  /\ \A d \in Drops : ~Spoiled(d) =>
                             IF Visible(d) THEN Once(d, g) ELSE Nobody(d, g)
                        /\ \A o \in Others : Keeps(o, g)
    BY DEF PointsFollowEntries, Spoiled, Failed, Once, Nobody, Keeps
  <2>2. ASSUME NEW d \in Drops, ~Spoiled(d) PROVE IF Visible(d) THEN Once(d, g) ELSE Nobody(d, g)
    <3>1. ~Changing /\ state[d] # "open"
      BY <2>1 DEF Quiet, Changing, Bot, Actors, Stages
    <3>2. state[d] \in {"none", "stored", "hidden", "gone"}
      BY <2>1, <3>1 DEF Types, Entries
    <3>3. Blank(d, g) <=> ~Visible(d)
      BY <3>1, <3>2 DEF Blank, Visible
    <3>. QED  BY <2>1, <2>2, <3>3 DEF PaidDrops, PaidFor
  <2>. QED  BY <2>1, <2>2 DEF PaidOthers
<1>. QED  BY <1>1, <1>2, <1>3, PTL DEF Spec

-----------------------------------------------------------------------------
(* Scores and what they are made of.                                       *)

\* Boards of every month and group, with a score for every player.
BoardShape == board = [m \in Months |-> [g \in Groups |-> [p \in Players |-> board[m][g][p]]]]

Counted(d) == state[d] \in {"open", "stored"}
OwnIn(p, m) == {d \in Drops : Counted(d) /\ Receiver[d] = p /\ Month[d] = m}
SharesIn(p, m, g) ==
  {r \in rows : r.player = p /\ r.group = g /\ Counted(r.drop) /\ Month[r.drop] = m}
Lows(g) == [d \in Drops |-> Lowered(RowsIn(d, g), value[d])]
ValueOf(S) == [r \in S |-> r.value]
\* A score is the worth of a player's drops and shares, less what some of the
\* former were lowered by.
Fits(p, m, g) ==
  \E lowered \in SUBSET OwnIn(p, m) :
    board[m][g][p] = Total(OwnIn(p, m), value) + Worths(SharesIn(p, m, g)) - Total(lowered, Lows(g))

FiniteRows == IsFiniteSet(rows)

LEMMA WorthsAre ==
  ASSUME NEW S
  PROVE  Worths(S) = Total(S, ValueOf(S))
BY DEF Worths, ValueOf

LEMMA WorthsSummable ==
  ASSUME NEW S, IsFiniteSet(S), \A r \in S : r.value \in Nat
  PROVE  Summable(S, ValueOf(S))
BY DEF Summable, ValueOf

LEMMA WorthsType ==
  ASSUME NEW S, IsFiniteSet(S), \A r \in S : r.value \in Nat
  PROVE  Worths(S) \in Int
BY WorthsAre, WorthsSummable, TotalType

LEMMA WorthsEmpty ==
  Worths({}) = 0
BY WorthsAre, TotalEmpty

\* Shares of two sets of rows apart add up.
LEMMA WorthsUnion ==
  ASSUME NEW S, NEW T, S \cap T = {}, IsFiniteSet(S), IsFiniteSet(T),
         \A r \in S \cup T : r.value \in Nat
  PROVE  Worths(S \cup T) = Worths(S) + Worths(T)
<1>. DEFINE f == ValueOf(S \cup T)
<1>1. Summable(S, f) /\ Summable(T, f)
  BY DEF Summable, ValueOf
<1>2. \A r \in S : f[r] = ValueOf(S)[r]
  BY DEF ValueOf
<1>3. \A r \in T : f[r] = ValueOf(T)[r]
  BY DEF ValueOf
<1>. HIDE DEF f
<1>4. Total(S \cup T, f) = Total(S, f) + Total(T, f)
  BY <1>1, TotalUnion
<1>5. Total(S, f) = Worths(S)
  BY <1>1, <1>2, TotalSame, WorthsAre
<1>6. Total(T, f) = Worths(T)
  BY <1>1, <1>3, TotalSame, WorthsAre
<1>. QED  BY <1>4, <1>5, <1>6, WorthsAre DEF f

\* What the sums of a score are made of.
LEMMA OwnSummable ==
  ASSUME Types, NEW S \in SUBSET Drops
  PROVE  Summable(S, value) /\ Total(S, value) \in Int
<1>1. IsFiniteSet(S)
  BY SharingAssumption, FS_Subset
<1>2. Summable(S, value)
  BY <1>1 DEF Types, Summable
<1>. QED  BY <1>2, TotalType

LEMMA LoweredType ==
  ASSUME NEW rs, rs \subseteq SplitRow, NEW full \in Nat
  PROVE  Lowered(rs, full) \in Int
<1>1. CASE rs = {}
  BY <1>1 DEF Lowered
<1>2. CASE rs # {}
  <2>1. (CHOOSE r \in rs : TRUE) \in rs
    BY <1>2
  <2>2. (CHOOSE r \in rs : TRUE).value \in Nat
    BY <2>1 DEF SplitRow
  <2>. QED  BY <1>2, <2>2 DEF Lowered
<1>. QED  BY <1>1, <1>2

LEMMA LowsSummable ==
  ASSUME Types, NEW S \in SUBSET Drops, NEW g
  PROVE  Summable(S, Lows(g)) /\ Total(S, Lows(g)) \in Int
<1>1. IsFiniteSet(S)
  BY SharingAssumption, FS_Subset
<1>2. ASSUME NEW d \in Drops PROVE Lows(g)[d] \in Int
  <2>1. RowsIn(d, g) \subseteq SplitRow /\ value[d] \in Nat
    BY DEF Types, RowsIn, RowsOf
  <2>2. Lowered(RowsIn(d, g), value[d]) \in Int
    BY <2>1, LoweredType
  <2>. QED  BY <2>2 DEF Lows
<1>3. Summable(S, Lows(g))
  BY <1>1, <1>2 DEF Summable
<1>. QED  BY <1>3, TotalType

LEMMA LowsSummableNext ==
  ASSUME Types', NEW S \in SUBSET Drops, NEW g
  PROVE  Summable(S, Lows(g)')
<1>1. IsFiniteSet(S)
  BY SharingAssumption, FS_Subset
<1>2. ASSUME NEW d \in Drops PROVE Lows(g)'[d] \in Int
  <2>1. RowsIn(d, g)' \subseteq SplitRow /\ value'[d] \in Nat
    BY DEF Types, RowsIn, RowsOf
  <2>2. Lowered(RowsIn(d, g)', value'[d]) \in Int
    BY <2>1, LoweredType
  <2>. QED  BY <2>2 DEF Lows
<1>. QED  BY <1>1, <1>2 DEF Summable

LEMMA SharesFinite ==
  ASSUME Types, FiniteRows, NEW S, S \subseteq rows
  PROVE  IsFiniteSet(S) /\ (\A r \in S : r.value \in Nat) /\ Worths(S) \in Int
<1>1. IsFiniteSet(S)
  BY FS_Subset DEF FiniteRows
<1>2. \A r \in S : r.value \in Nat
  BY DEF Types, SplitRow
<1>. QED  BY <1>1, <1>2, WorthsType

LEMMA FitsInt ==
  ASSUME Types, FiniteRows, NEW p, NEW m, NEW g, Fits(p, m, g)
  PROVE  board[m][g][p] \in Int
<1>1. PICK lowered \in SUBSET OwnIn(p, m) :
        board[m][g][p] = Total(OwnIn(p, m), value) + Worths(SharesIn(p, m, g)) - Total(lowered, Lows(g))
  BY DEF Fits
<1>2. OwnIn(p, m) \in SUBSET Drops /\ lowered \in SUBSET Drops
  BY DEF OwnIn
<1>3. Total(OwnIn(p, m), value) \in Int
  BY <1>2, OwnSummable
<1>4. Worths(SharesIn(p, m, g)) \in Int
  BY SharesFinite DEF SharesIn
<1>5. Total(lowered, Lows(g)) \in Int
  BY <1>2, LowsSummable
<1>. QED  BY <1>1, <1>3, <1>4, <1>5

\* A score stays right while what it is made of stays.
LEMMA CellFrame ==
  ASSUME Types, Types', NEW p, NEW m, NEW g, Fits(p, m, g),
         OwnIn(p, m)' = OwnIn(p, m), SharesIn(p, m, g)' = SharesIn(p, m, g),
         \A d \in OwnIn(p, m) : value'[d] = value[d] /\ RowsIn(d, g)' = RowsIn(d, g),
         board'[m][g][p] = board[m][g][p]
  PROVE  Fits(p, m, g)'
<1>1. PICK lowered \in SUBSET OwnIn(p, m) :
        board[m][g][p] = Total(OwnIn(p, m), value) + Worths(SharesIn(p, m, g)) - Total(lowered, Lows(g))
  BY DEF Fits
<1>2. OwnIn(p, m) \in SUBSET Drops /\ lowered \in SUBSET Drops
  BY DEF OwnIn
<1>3. Total(OwnIn(p, m), value) = Total(OwnIn(p, m), value')
  <2>1. Summable(OwnIn(p, m), value)
    BY <1>2, OwnSummable
  <2>. QED  BY <2>1, TotalSame
<1>4. Total(lowered, Lows(g)) = Total(lowered, Lows(g)')
  <2>1. Summable(lowered, Lows(g))
    BY <1>2, LowsSummable
  <2>2. \A d \in lowered : Lows(g)[d] = Lows(g)'[d]
    BY <1>2 DEF Lows
  <2>. QED  BY <2>1, <2>2, TotalSame
<1>5. board'[m][g][p] = Total(OwnIn(p, m)', value') + Worths(SharesIn(p, m, g)') - Total(lowered, Lows(g)')
  BY <1>1, <1>3, <1>4
<1>. QED  BY <1>5 DEF Fits, Worths

\* What a step leaves of a score and of what it is made of.
Spared(p, m, g) ==
  /\ \A d \in Drops : Receiver[d] = p /\ Month[d] = m =>
       state'[d] = state[d] /\ value'[d] = value[d] /\ RowsIn(d, g)' = RowsIn(d, g)
  /\ \A r \in rows \cup rows' : r.player = p /\ r.group = g /\ Month[r.drop] = m =>
       (r \in rows <=> r \in rows') /\ state'[r.drop] = state[r.drop]
  /\ board[m][g][p] \in Int => board'[m][g][p] = board[m][g][p]

\* A step leaves all that a rebuild of the player would read.
SparedAll(p) ==
  /\ \A d \in Drops : Receiver[d] = p => state'[d] = state[d] /\ value'[d] = value[d]
  /\ \A m \in Months, g \in Groups : Spared(p, m, g)

\* A step that is about one drop.
LEMMA OneDropSpares ==
  ASSUME Types, Types', NEW d \in Drops,
         \A e \in Drops : e # d => state'[e] = state[e] /\ value'[e] = value[e],
         \A r \in rows \cup rows' : r.drop # d => (r \in rows <=> r \in rows'),
         NEW p, NEW m, NEW g,
         \/ m # Month[d]
         \/ /\ p = Receiver[d] => state'[d] = state[d] /\ value'[d] = value[d] /\ RowsIn(d, g)' = RowsIn(d, g)
            /\ \A r \in rows \cup rows' : r.drop = d /\ r.player = p /\ r.group = g =>
                 (r \in rows <=> r \in rows') /\ state'[d] = state[d],
         board[m][g][p] \in Int => board'[m][g][p] = board[m][g][p]
  PROVE  Spared(p, m, g)
<1>1. \A e \in Drops : e # d => RowsIn(e, g)' = RowsIn(e, g)
  BY DEF RowsIn, RowsOf
<1>2. \A r \in rows \cup rows' : r.drop \in Drops
  BY DEF Types, SplitRow
<1>. QED  BY <1>1, <1>2 DEF Spared

LEMMA SparedFits ==
  ASSUME Types, Types', FiniteRows, NEW p, NEW m, NEW g, Spared(p, m, g), Fits(p, m, g)
  PROVE  Fits(p, m, g)'
<1>1. board'[m][g][p] = board[m][g][p]
  BY FitsInt DEF Spared
<1>2. OwnIn(p, m)' = OwnIn(p, m)
  BY DEF Spared, OwnIn, Counted
<1>3. SharesIn(p, m, g)' = SharesIn(p, m, g)
  BY DEF Spared, SharesIn, Counted
<1>4. \A d \in OwnIn(p, m) : value'[d] = value[d] /\ RowsIn(d, g)' = RowsIn(d, g)
  BY DEF Spared, OwnIn
<1>. QED  BY <1>1, <1>2, <1>3, <1>4, CellFrame

\* The boards of a month once scores changed.
LEMMA ScoredCells ==
  ASSUME BoardShape, NEW n \in Months, NEW by, board' = Scored(n, by)
  PROVE  /\ BoardShape'
         /\ \A m \in Months, g \in Groups, p \in Players :
              board'[m][g][p] = IF m = n /\ g \in DOMAIN by THEN board[m][g][p] + by[g][p] ELSE board[m][g][p]
<1>1. board' = [board EXCEPT ![n] = [g \in Groups |-> IF g \in DOMAIN by
                          THEN [p \in Players |-> board[n][g][p] + by[g][p]] ELSE board[n][g]]]
  BY DEF Scored
<1>2. DOMAIN board = Months /\ \A m \in Months : board[m] = [g \in Groups |-> [p \in Players |-> board[m][g][p]]]
  BY DEF BoardShape
<1>3. \A m \in Months : m # n => board'[m] = board[m]
  BY <1>1, <1>2
<1>4. board'[n] = [g \in Groups |-> IF g \in DOMAIN by
                          THEN [p \in Players |-> board[n][g][p] + by[g][p]] ELSE board[n][g]]
  BY <1>1, <1>2
<1>5. \A g \in Groups : board[n][g] = [p \in Players |-> board[n][g][p]]
  BY <1>2
<1>6. \A g \in Groups : board'[n][g] = IF g \in DOMAIN by
                          THEN [p \in Players |-> board[n][g][p] + by[g][p]] ELSE board[n][g]
  BY <1>4
<1>7. \A g \in Groups, p \in Players :
        board'[n][g][p] = IF g \in DOMAIN by THEN board[n][g][p] + by[g][p] ELSE board[n][g][p]
  BY <1>6
<1>8. \A g \in Groups : board'[n][g] = [p \in Players |-> board'[n][g][p]]
  BY <1>5, <1>6
<1>9. board'[n] = [g \in Groups |-> [p \in Players |-> board'[n][g][p]]]
  BY <1>4, <1>6, <1>8
<1>10. \A m \in Months : board'[m] = [g \in Groups |-> [p \in Players |-> board'[m][g][p]]]
  BY <1>2, <1>3, <1>9
<1>11. BoardShape'
  <2>1. board' = [m \in Months |-> board'[m]]
    BY <1>1, <1>2
  <2>. QED  BY <1>10, <2>1 DEF BoardShape
<1>. QED  BY <1>3, <1>7, <1>11

LEMMA CreditsNone ==
  ASSUME NEW d, NEW rs, NEW full, NEW p \in Players, p # Receiver[d], p \notin PlayersIn(rs)
  PROVE  Credits(d, rs, full)[p] = 0
<1>1. {r \in rs : r.player = p} = {}
  BY DEF PlayersIn
<1>2. Worths({r \in rs : r.player = p}) = 0
  BY <1>1, WorthsEmpty
<1>. QED  BY <1>2 DEF Credits

LEMMA ReversalNone ==
  ASSUME NEW d, NEW g, NEW full, NEW p \in Players, p # Receiver[d], p \notin PlayersIn(RowsIn(d, g))
  PROVE  Reversal(d, g, full)[p] = 0
<1>1. {r \in RowsIn(d, g) : r.player = p} = {}
  BY DEF PlayersIn
<1>2. Worths({r \in RowsIn(d, g) : r.player = p}) = 0
  BY <1>1, WorthsEmpty
<1>. QED  BY <1>2 DEF Reversal

\* The rows that come when drops are shared.
LEMMA FiniteStep ==
  ASSUME Types, PhasesFit, FiniteRows, [Next]_vars
  PROVE  FiniteRows'
<1>1. ASSUME NEW new, IsFiniteSet(new), rows' \subseteq rows \cup new PROVE FiniteRows'
  BY <1>1, FS_Union, FS_Subset DEF FiniteRows
<1>2. ASSUME rows' \subseteq rows PROVE FiniteRows'
  BY <1>2, FS_Subset DEF FiniteRows
<1>3. ASSUME NEW d \in Drops, NEW g \in Groups, ShareOut(d, g) \/ ShareFails(d, g) PROVE FiniteRows'
  <2>1. IsFiniteSet(Shares(d, g, Sharers(d, g), value[d]))
    BY SharersType, SharesAreRows DEF Types
  <2>2. rows' \subseteq rows \cup Shares(d, g, Sharers(d, g), value[d])
    BY <1>3 DEF ShareOut, ShareFails
  <2>. QED  BY <1>1, <2>1, <2>2
<1>4. CASE Arrival
  BY <1>2, <1>3, <1>4 DEF Arrival, Submit, Commit, RollBack
<1>5. CASE Change
  BY <1>2, <1>5 DEF Change, StartHide, Hide, HideNothing, Unhide, Delete, Edit, ModifySplits, table
<1>6. CASE Follow
  <2>1. PICK d \in Drops, g \in Groups : d = Bot.drop /\ g = Bot.group
    BY <1>6, FollowsOf
  <2>2. CASE AfterEdit
    <3>. DEFINE gs == {h \in GroupsOf(Receiver[d]) : Tracked(d, h) # {}}
                sets == {Revalued(d, h) : h \in gs}
    <3>1. rows' \subseteq rows \cup UNION sets
      BY <2>1, <2>2 DEF AfterEdit
    <3>2. IsFiniteSet(gs)
      BY SharingAssumption, FS_Subset DEF GroupsOf
    <3>3. IsFiniteSet(sets)
      <4>. DEFINE f == [h \in gs |-> Revalued(d, h)]
      <4>. HIDE DEF gs
      <4>1. f \in Surjection(gs, sets)
        BY DEF Surjection
      <4>. QED  BY <3>2, <4>1, FS_Surjection
    <3>4. ASSUME NEW h \in gs PROVE IsFiniteSet(Revalued(d, h))
      <4>1. h \in Groups /\ RowsIn(d, h) \subseteq rows
        BY DEF GroupsOf, RowsIn, RowsOf
      <4>2. PlayersIn(RowsIn(d, h)) \in SUBSET Players
        BY <4>1, RowPlayers
      <4>. QED  BY <4>1, <4>2, SharesAreRows DEF Revalued, Types
    <3>5. IsFiniteSet(UNION sets)
      <4>. HIDE DEF gs
      <4>. QED  BY <3>3, <3>4, FS_UNION
    <3>. QED  BY <1>1, <3>1, <3>5
  <2>3. CASE AfterModify
    <3>. DEFINE ps == IF g \in Tracking THEN Bot.names \cap Member[g] ELSE {}
    <3>1. ps \in SUBSET Players
      BY <1>6, FollowsOf, ChangeJob
    <3>2. rows' \subseteq rows \cup Shares(d, g, ps, value[d])
      BY <2>1, <2>3 DEF AfterModify
    <3>. HIDE DEF ps
    <3>. QED  BY <1>1, <3>1, <3>2, SharesAreRows DEF Types
  <2>. QED  BY <1>2, <1>6, <2>2, <2>3 DEF Follow, AfterHide, AfterUnhide, Strip, Erase, ChangeFails, table
<1>7. CASE Rebuild \/ (\E o \in Others : Achieve(o)) \/ UNCHANGED vars
  BY <1>2, <1>7, RebuildShape DEF Achieve, table, vars
<1>. QED  BY <1>4, <1>5, <1>6, <1>7 DEF Next

\* Rebuilding writes scores of one player.
LEMMA ResetCells ==
  ASSUME Types, BoardShape, NEW a \in Actors, Reset(a)
  PROVE  /\ BoardShape'
         /\ \A m \in Months, g \in Groups, p \in Players :
              board'[m][g][p] =
                IF p = job[a].player /\ g \in GroupsOf(p) /\ m \in MonthsOf(job[a].own) \cup {Now}
                THEN Sum(job[a].own, m) ELSE board[m][g][p]
<1>. DEFINE j == job[a]
<1>1. j.player \in Players
  BY ReadingJob DEF Reset, Reading, ReadingJobs
<1>2. board' = [m \in Months |-> [g \in Groups |->
       IF g \notin GroupsOf(j.player) \/ m \notin MonthsOf(j.own) \cup {Now} THEN board[m][g]
       ELSE [board[m][g] EXCEPT ![j.player] = Sum(j.own, m)]]]
  BY DEF Reset
<1>3. \A m \in Months, g \in Groups : board[m][g] = [p \in Players |-> board[m][g][p]]
  BY DEF BoardShape
<1>. HIDE DEF j
<1>4. \A m \in Months, g \in Groups :
        board'[m][g] = IF g \notin GroupsOf(j.player) \/ m \notin MonthsOf(j.own) \cup {Now} THEN board[m][g]
                       ELSE [board[m][g] EXCEPT ![j.player] = Sum(j.own, m)]
  BY <1>2
<1>5. ASSUME NEW m \in Months, NEW g \in Groups
      PROVE  /\ board'[m][g] = [p \in Players |-> board'[m][g][p]]
             /\ \A p \in Players : board'[m][g][p] =
                IF p = j.player /\ g \in GroupsOf(p) /\ m \in MonthsOf(j.own) \cup {Now}
                THEN Sum(j.own, m) ELSE board[m][g][p]
  <2>1. CASE g \notin GroupsOf(j.player) \/ m \notin MonthsOf(j.own) \cup {Now}
    BY <1>3, <1>4, <2>1
  <2>2. CASE ~(g \notin GroupsOf(j.player) \/ m \notin MonthsOf(j.own) \cup {Now})
    <3>1. board'[m][g] = [board[m][g] EXCEPT ![j.player] = Sum(j.own, m)]
      BY <1>4, <2>2
    <3>2. board[m][g] = [p \in Players |-> board[m][g][p]]
      BY <1>3
    <3>. QED  BY <1>1, <2>2, <3>1, <3>2
  <2>. QED  BY <2>1, <2>2
<1>6. board' = [m \in Months |-> [g \in Groups |-> board'[m][g]]]
  BY <1>2
<1>7. BoardShape'
  BY <1>5, <1>6 DEF BoardShape
<1>. QED  BY <1>5, <1>7 DEF j

Given(j, m, g) == Worths({r \in Applied(j) : Month[r.drop] = m /\ r.group = g})

LEMMA AddCells ==
  ASSUME Types, BoardShape, NEW a \in Actors, AddShares(a)
  PROVE  /\ BoardShape'
         /\ \A m \in Months, g \in Groups, p \in Players :
              board'[m][g][p] =
                IF p = job[a].player THEN board[m][g][p] + Given(job[a], m, g) ELSE board[m][g][p]
<1>. DEFINE j == job[a]
<1>1. j.player \in Players
  BY ReadingJob DEF AddShares, Reading, ReadingJobs
<1>2. board' = [m \in Months |-> [g \in Groups |-> [board[m][g] EXCEPT ![j.player] = @ + Given(j, m, g)]]]
  BY DEF AddShares, Given
<1>3. \A m \in Months, g \in Groups : board[m][g] = [p \in Players |-> board[m][g][p]]
  BY DEF BoardShape
<1>. HIDE DEF j
<1>4. \A m \in Months, g \in Groups :
        board'[m][g] = [board[m][g] EXCEPT ![j.player] = board[m][g][j.player] + Given(j, m, g)]
  BY <1>1, <1>2, <1>3
<1>5. ASSUME NEW m \in Months, NEW g \in Groups
      PROVE  /\ board'[m][g] = [p \in Players |-> board'[m][g][p]]
             /\ \A p \in Players : board'[m][g][p] =
                IF p = j.player THEN board[m][g][p] + Given(j, m, g) ELSE board[m][g][p]
  <2>1. board[m][g] = [p \in Players |-> board[m][g][p]]
    BY <1>3
  <2>2. board'[m][g] = [board[m][g] EXCEPT ![j.player] = board[m][g][j.player] + Given(j, m, g)]
    BY <1>4
  <2>. QED  BY <1>1, <2>1, <2>2
<1>6. board' = [m \in Months |-> [g \in Groups |-> board'[m][g]]]
  BY <1>2
<1>7. BoardShape'
  <2>1. \A m \in Months : [g \in Groups |-> board'[m][g]] = [g \in Groups |-> [p \in Players |-> board'[m][g][p]]]
    BY <1>5
  <2>. QED  BY <1>6, <2>1 DEF BoardShape
<1>. QED  BY <1>5, <1>7 DEF j

LEMMA ShapeStep ==
  ASSUME Types, PhasesFit, BoardShape, [Next]_vars
  PROVE  BoardShape'
<1>1. \A d \in Drops : Month[d] \in Months
  BY DEF Months
<1>2. ASSUME UNCHANGED board PROVE BoardShape'
  BY <1>2 DEF BoardShape
<1>3. ASSUME NEW d \in Drops, NEW by, board' = Scored(Month[d], by) PROVE BoardShape'
  BY <1>1, <1>3, ScoredCells
<1>4. CASE Arrival
  BY <1>2, <1>3, <1>4 DEF Arrival, Submit, ShareOut, ShareFails, Commit, RollBack
<1>5. CASE Change
  BY <1>2, <1>3, <1>5 DEF Change, StartHide, Hide, HideNothing, Unhide, Delete, Edit, ModifySplits
<1>6. CASE Follow
  BY <1>2, <1>3, <1>6, FollowsOf DEF Follow, AfterHide, AfterUnhide, AfterEdit, Strip, AfterModify, Erase, ChangeFails
<1>7. CASE Rebuild
  BY <1>2, <1>7, ResetCells, AddCells DEF Rebuild, Start, Read, RebuildFails
<1>8. CASE (\E o \in Others : Achieve(o)) \/ UNCHANGED vars
  BY <1>2, <1>8 DEF Achieve, vars
<1>. QED  BY <1>4, <1>5, <1>6, <1>7, <1>8 DEF Next

-----------------------------------------------------------------------------
(* Which scores may be wrong for now, and what a rebuild knows.            *)

\* A change under way has disturbed the score, and not yet called for a rebuild.
Touched(p, m) ==
  /\ Changing /\ Month[Bot.drop] = m
  /\ \/ Bot.op # "modify" /\ p \in {Receiver[Bot.drop]} \cup PlayersIn(RowsOf(Bot.drop))
     \/ Bot.op = "modify" /\ Bot.stage = "credits" /\ p \in {Receiver[Bot.drop]} \cup Bot.old
\* The bot will rebuild the player, or is at it.
Awaited(p) ==
  \/ Bot.stage \in {"rebuild", "read", "reset"} /\ p \in ToSet(Bot.todo)
  \/ Reading("bot") /\ Bot.player = p
Reached(a) == MonthsOf(job[a].own) \cup {Now}
InReset(p, m) == \E a \in Actors : job[a].stage = "reset" /\ job[a].player = p /\ m \in Reached(a)
Excused(p, m) == <<p, m>> \in off \/ Touched(p, m) \/ Awaited(p) \/ InReset(p, m)
CellsFit ==
  \A m \in Months, g \in Groups : \A p \in Member[g] : Excused(p, m) \/ Fits(p, m, g)

\* What a rebuild that no other step disturbed knows is so.
Snap(d) == [month |-> Month[d], drop |-> d, value |-> value[d]]
Undisturbed(a) ==
  LET p == job[a].player IN
  /\ job[a].own = {Snap(d) : d \in OwnDrops(p)}
  /\ job[a].shares = OwnShares(p)
  /\ \A d \in Drops : state[d] = "open" => Receiver[d] # p /\ p \notin PlayersIn(RowsOf(d))
  /\ \A m \in Months : ~Touched(p, m)
  /\ \A b \in Actors \ {a} : Reading(b) => job[b].player # p
  /\ job[a].stage = "reset" =>
       \A g \in GroupsOf(p), m \in Reached(a) : board[m][g][p] = Sum(job[a].own, m)
ReadersKnow == \A a \in Actors : Reading(a) /\ ~job[a].clash => Undisturbed(a)

\* Adding up what was read of drops is adding up the drops.
LEMMA SnapshotSum ==
  ASSUME Types, NEW S \in SUBSET Drops
  PROVE  Worths({Snap(d) : d \in S}) = Total(S, value)
<1>. DEFINE Same(n) == \A u \in SUBSET S : Cardinality(u) = n =>
                         /\ IsFiniteSet({Snap(d) : d \in u})
                         /\ Worths({Snap(d) : d \in u}) = Total(u, value)
            N == {n \in Nat : Same(n)}
<1>1. \A u \in SUBSET S : IsFiniteSet(u) /\ Cardinality(u) \in Nat /\ Summable(u, value) /\ Total(u, value) \in Int
  BY SharingAssumption, FS_Subset, FS_CardinalityType, OwnSummable
<1>2. 0 \in N
  <2>1. ASSUME NEW u \in SUBSET S, Cardinality(u) = 0
        PROVE  IsFiniteSet({Snap(d) : d \in u}) /\ Worths({Snap(d) : d \in u}) = Total(u, value)
    <3>1. u = {} /\ {Snap(d) : d \in u} = {}
      BY <1>1, <2>1, FS_EmptySet
    <3>. QED  BY <3>1, FS_EmptySet, WorthsEmpty, TotalEmpty
  <2>. QED  BY <2>1
<1>3. ASSUME NEW n \in Nat, n \in N PROVE n + 1 \in N
  <2>1. SUFFICES ASSUME NEW u \in SUBSET S, Cardinality(u) = n + 1
                 PROVE  IsFiniteSet({Snap(d) : d \in u}) /\ Worths({Snap(d) : d \in u}) = Total(u, value)
    OBVIOUS
  <2>2. PICK x \in u : TRUE
    BY <2>1, FS_EmptySet
  <2>. DEFINE w == u \ {x}
  <2>3. w \in SUBSET S /\ Cardinality(w) = n
    <3>1. IsFiniteSet(u) /\ x \in u
      BY <1>1, <2>2
    <3>2. Cardinality(u \ {x}) = Cardinality(u) - 1
      BY <3>1, FS_RemoveElement
    <3>. QED  BY <2>1, <3>2
  <2>. HIDE DEF w
  <2>4. IsFiniteSet({Snap(d) : d \in w}) /\ Worths({Snap(d) : d \in w}) = Total(w, value)
    BY <1>3, <2>3
  <2>5. {Snap(d) : d \in u} = {Snap(d) : d \in w} \cup {Snap(x)} /\ {Snap(d) : d \in w} \cap {Snap(x)} = {}
    BY <2>2 DEF Snap, w
  <2>6. \A r \in {Snap(d) : d \in w} \cup {Snap(x)} : r.value \in Nat
    BY <2>2 DEF Types, Snap, w
  <2>7. Worths({Snap(x)}) = value[x]
    <3>1. Worths({Snap(x)}) = Total({Snap(x)}, ValueOf({Snap(x)}))
      BY WorthsAre
    <3>2. Snap(x) \in {Snap(x)} /\ {Snap(x)} \ {Snap(x)} = {}
      OBVIOUS
    <3>3. Snap(x).value = value[x] /\ value[x] \in Nat /\ ValueOf({Snap(x)})[Snap(x)] = value[x]
      BY <2>2 DEF Types, Snap, ValueOf
    <3>4. Summable({Snap(x)}, ValueOf({Snap(x)}))
      <4>1. IsFiniteSet({Snap(x)})
        BY FS_Singleton
      <4>2. \A r \in {Snap(x)} : ValueOf({Snap(x)})[r] = value[x]
        BY <3>3
      <4>. QED  BY <3>3, <4>1, <4>2 DEF Summable
    <3>5. Total({Snap(x)}, ValueOf({Snap(x)})) = value[x] + Total({}, ValueOf({Snap(x)}))
      BY <3>2, <3>3, <3>4, TotalSplit
    <3>. QED  BY <3>1, <3>3, <3>5, TotalEmpty
  <2>8. Total(u, value) = value[x] + Total(w, value)
    BY <1>1, <2>2, TotalSplit DEF w
  <2>9. Worths({Snap(d) : d \in w} \cup {Snap(x)}) = Worths({Snap(d) : d \in w}) + Worths({Snap(x)})
    BY <2>4, <2>5, <2>6, FS_Singleton, WorthsUnion
  <2>10. value[x] \in Nat /\ Total(w, value) \in Int
    BY <1>1, <2>2, <2>3 DEF Types
  <2>11. IsFiniteSet({Snap(d) : d \in u})
    <3>1. IsFiniteSet({Snap(x)})
      BY FS_Singleton
    <3>2. IsFiniteSet({Snap(d) : d \in w} \cup {Snap(x)})
      BY <2>4, <3>1, FS_Union
    <3>. QED  BY <2>5, <3>2
  <2>12. Worths({Snap(d) : d \in u}) = Total(w, value) + value[x]
    BY <2>4, <2>5, <2>7, <2>9
  <2>. QED  BY <2>8, <2>10, <2>11, <2>12
<1>4. Cardinality(S) \in N
  <2>. HIDE DEF N
  <2>. QED  BY <1>1, <1>2, <1>3, NatSet
<1>. QED  BY <1>4

LEMMA OwnSum ==
  ASSUME Types, NEW p, NEW own, own = {Snap(d) : d \in OwnDrops(p)}, NEW m
  PROVE  Sum(own, m) = Total({d \in OwnDrops(p) : Month[d] = m}, value) /\ Sum(own, m) \in Int
<1>. DEFINE S == {d \in OwnDrops(p) : Month[d] = m}
<1>1. {o \in own : o.month = m} = {Snap(d) : d \in S}
  BY DEF Snap
<1>2. S \in SUBSET Drops
  BY DEF OwnDrops
<1>. HIDE DEF S
<1>3. Sum(own, m) = Total(S, value) /\ Total(S, value) \in Int
  BY <1>1, <1>2, SnapshotSum, OwnSummable DEF Sum
<1>. QED  BY <1>3 DEF S

\* The jobs that go on.
LEMMA InResetKept ==
  ASSUME Types, NEW ps, \A a \in Actors : job[a].stage = "reset" => SameJob(job[a], job'[a], ps),
         NEW p, NEW m, InReset(p, m)
  PROVE  InReset(p, m)'
<1>1. PICK a \in Actors : job[a].stage = "reset" /\ job[a].player = p /\ m \in Reached(a)
  BY DEF InReset
<1>2. job'[a].stage = "reset" /\ job'[a].player = p /\ job'[a].own = job[a].own
  BY <1>1 DEF SameJob
<1>3. m \in Reached(a)'
  BY <1>1, <1>2 DEF Reached, MonthsOf
<1>. QED  BY <1>2, <1>3 DEF InReset

LEMMA AwaitedKept ==
  ASSUME Types, NEW ps, SameJob(job["bot"], job'["bot"], ps), NEW p, Awaited(p)
  PROVE  Awaited(p)'
BY DEF Awaited, SameJob, Bot, Reading

LEMMA TouchedKept ==
  ASSUME KeptChange, Changing => RowsOf(Bot.drop)' = RowsOf(Bot.drop), NEW p, NEW m, Touched(p, m)
  PROVE  Touched(p, m)'
BY DEF KeptChange, Touched, Changing

\* Steps beside the bot's own.
LEMMA BesideCells ==
  ASSUME Types, CellsFit, off \subseteq off', KeptChange,
         Changing => {r \in rows' : r.drop = Bot.drop} = RowsOf(Bot.drop),
         NEW ps, \A a \in Actors : SameJob(job[a], job'[a], ps),
         \A m \in Months, g \in Groups : \A p \in Member[g] :
           Fits(p, m, g) => <<p, m>> \in off' \/ Fits(p, m, g)'
  PROVE  CellsFit'
<1>1. ASSUME NEW m \in Months, NEW g \in Groups, NEW p \in Member[g]
      PROVE  Excused(p, m)' \/ Fits(p, m, g)'
  <2>1. Touched(p, m) => Touched(p, m)'
    <3>1. Changing => RowsOf(Bot.drop)' = RowsOf(Bot.drop)
      BY DEF KeptChange, Changing, RowsOf
    <3>. QED  BY <3>1, TouchedKept
  <2>2. Awaited(p) => Awaited(p)'
    BY AwaitedKept DEF Actors
  <2>3. InReset(p, m) => InReset(p, m)'
    BY InResetKept
  <2>. QED  BY <2>1, <2>2, <2>3 DEF CellsFit, Excused
<1>. QED  BY <1>1 DEF CellsFit

\* The bot begins a change: no score was touched or awaited before.
LEMMA BeginCells ==
  ASSUME Types, CellsFit, off \subseteq off', Bot.stage = "idle",
         NEW ps, SameJob(job["updater"], job'["updater"], ps),
         \A m \in Months, g \in Groups : \A p \in Member[g] :
           Fits(p, m, g) => Touched(p, m)' \/ Fits(p, m, g)'
  PROVE  CellsFit'
<1>1. \A p, m : ~Touched(p, m) /\ ~Awaited(p)
  BY DEF Touched, Awaited, Changing, Stages, Reading, Bot
<1>2. \A a \in Actors : job[a].stage = "reset" => SameJob(job[a], job'[a], ps)
  BY DEF Actors, Bot
<1>3. \A p, m : InReset(p, m) => InReset(p, m)'
  BY <1>2, InResetKept
<1>. QED  BY <1>1, <1>3 DEF CellsFit, Excused

\* The bot goes on with a change.
LEMMA FollowCells ==
  ASSUME Types, CellsFit, off \subseteq off', Changing,
         NEW ps, SameJob(job["updater"], job'["updater"], ps),
         \A m \in Months, g \in Groups : \A p \in Member[g] :
           Touched(p, m) \/ Fits(p, m, g) =>
             <<p, m>> \in off' \/ Touched(p, m)' \/ Awaited(p)' \/ Fits(p, m, g)'
  PROVE  CellsFit'
<1>1. \A p, m : ~Awaited(p)
  BY DEF Awaited, Changing, Stages, Reading, Bot
<1>2. \A a \in Actors : job[a].stage = "reset" => SameJob(job[a], job'[a], ps)
  BY DEF Actors, Bot, Changing, Stages
<1>3. \A p, m : InReset(p, m) => InReset(p, m)'
  BY <1>2, InResetKept
<1>. QED  BY <1>1, <1>3 DEF CellsFit, Excused

\* A rebuild goes on knowing what it knows.
LEMMA ReaderSpared ==
  ASSUME Types, Types', NEW a \in Actors, Reading(a), Undisturbed(a),
         NEW ps, SameJob(job[a], job'[a], ps), NEW p, p = job[a].player,
         SparedAll(p), \A m \in Months : ~Touched(p, m)',
         \A b \in Actors \ {a} : job'[b].stage \in {"read", "reset"} => job'[b].player # p
  PROVE  Undisturbed(a)'
<1>1. job'[a].player = p /\ job'[a].own = job[a].own /\ job'[a].shares = job[a].shares
      /\ job'[a].stage = job[a].stage
  BY DEF SameJob, Reading
<1>2. OwnDrops(p)' = OwnDrops(p) /\ \A d \in OwnDrops(p) : value'[d] = value[d]
  BY DEF OwnDrops, Visible, SparedAll
<1>3. job[a].own = {Snap(d) : d \in OwnDrops(p)}
  BY DEF Undisturbed
<1>4. \A d \in OwnDrops(p) : Snap(d)' = Snap(d)
  BY <1>2 DEF Snap
<1>5. job'[a].own = {Snap(d)' : d \in OwnDrops(p)'}
  BY <1>1, <1>2, <1>3, <1>4
<1>0. \A r \in rows \cup rows' : r.player = p => (r \in rows <=> r \in rows') /\ state'[r.drop] = state[r.drop]
  <2>1. \A r \in rows \cup rows' : r.group \in Groups /\ Month[r.drop] \in Months
    BY DEF Types, SplitRow, Months
  <2>. QED  BY <2>1 DEF Spared, SparedAll
<1>6. OwnShares(p)' = OwnShares(p)
  BY <1>0 DEF OwnShares, Visible
<1>7. job[a].shares = OwnShares(p)
  BY DEF Undisturbed
<1>8. ASSUME job'[a].stage = "reset", NEW g \in GroupsOf(p), NEW m \in Reached(a)'
      PROVE  board'[m][g][p] = Sum(job'[a].own, m)
  <2>1. m \in Reached(a)
    BY <1>1 DEF Reached, MonthsOf
  <2>2. m \in Months
    <3>1. job[a].own \subseteq Snapshot
      BY ReadingJob DEF ReadingJobs
    <3>2. MonthsOf(job[a].own) \subseteq Months
      BY <3>1 DEF MonthsOf, Snapshot
    <3>. QED  BY <2>1, <3>2 DEF Reached, Months
  <2>3. board[m][g][p] = Sum(job[a].own, m)
    BY <1>1, <1>8, <2>1 DEF Undisturbed
  <2>4. Sum(job[a].own, m) \in Int
    BY <1>3, OwnSum
  <2>5. g \in Groups
    BY DEF GroupsOf
  <2>. QED  BY <1>1, <2>2, <2>3, <2>4, <2>5 DEF Spared, SparedAll, Sum
<1>9. ASSUME NEW d \in Drops, state'[d] = "open" PROVE Receiver[d] # p /\ p \notin PlayersIn(RowsOf(d))'
  <2>1. state[d] = "open" => Receiver[d] # p /\ p \notin PlayersIn(RowsOf(d))
    BY DEF Undisturbed
  <2>2. Receiver[d] # p
    BY <1>9, <2>1 DEF SparedAll
  <2>3. ASSUME NEW r \in rows', r.drop = d, r.player = p PROVE FALSE
    BY <1>0, <1>9, <2>1, <2>3 DEF RowsOf, PlayersIn
  <2>. QED  BY <2>2, <2>3 DEF RowsOf, PlayersIn
<1>10. GroupsOf(p)' = GroupsOf(p)
  BY DEF GroupsOf
<1>. QED  BY <1>1, <1>5, <1>6, <1>7, <1>8, <1>9, <1>10 DEF Undisturbed, Reading

\* The rebuilds under way when one of the other steps is taken.
LEMMA BesideReaders ==
  ASSUME Types, Types', ReadersKnow, KeptChange,
         Changing => {r \in rows' : r.drop = Bot.drop} = RowsOf(Bot.drop),
         NEW ps, \A a \in Actors : SameJob(job[a], job'[a], ps),
         \A p \in Players : p \notin ps => SparedAll(p)
  PROVE  ReadersKnow'
<1>1. SUFFICES ASSUME NEW a \in Actors, job'[a].stage \in {"read", "reset"}, ~job'[a].clash
               PROVE  Undisturbed(a)'
  BY DEF ReadersKnow, Reading
<1>2. \A b \in Actors : (job'[b].stage \in {"read", "reset"} <=> Reading(b)) /\ (Reading(b) => job'[b].player = job[b].player)
  BY DEF SameJob, Reading
<1>3. Reading(a) /\ ~job[a].clash /\ job[a].player \notin ps
  BY <1>1, <1>2 DEF SameJob, Reading
<1>4. PICK p \in Players : p = job[a].player
  BY <1>3, ReadingJob DEF ReadingJobs
<1>5. Undisturbed(a) /\ SparedAll(p)
  BY <1>3, <1>4 DEF ReadersKnow
<1>6. \A m \in Months : ~Touched(p, m)'
  <2>1. Changing' => Bot' = Bot /\ Changing /\ RowsOf(Bot.drop)' = RowsOf(Bot.drop)
    BY DEF KeptChange, Changing, RowsOf
  <2>2. \A m \in Months : ~Touched(p, m)
    BY <1>4, <1>5 DEF Undisturbed
  <2>. QED  BY <2>1, <2>2 DEF Touched
<1>7. \A b \in Actors \ {a} : job'[b].stage \in {"read", "reset"} => job'[b].player # p
  BY <1>2, <1>4, <1>5 DEF Undisturbed
<1>. QED  BY <1>3, <1>4, <1>5, <1>6, <1>7, ReaderSpared

BoardInv == FiniteRows /\ BoardShape /\ CellsFit /\ ReadersKnow

\* A drop comes in: its receiver's boards of the month go up.
LEMMA SubmitScores ==
  ASSUME Types, Types', PhasesFit, PhasesFit', BoardInv, NEW d \in Drops, NEW ps \in Namings, Submit(d, ps)
  PROVE  CellsFit' /\ ReadersKnow'
<1>. DEFINE by == [g \in GroupsOf(Receiver[d]) |-> [p \in Players |-> IF p = Receiver[d] THEN value[d] ELSE 0]]
<1>. USE DEF BoardInv
<1>1. Receiver[d] \in Players /\ Month[d] = Now /\ Now \in Months /\ d \in Entries
  BY SharingAssumption DEF Submit, Months, Entries
<1>2. RowsOf(d) = {} /\ UNCHANGED <<rows, value, off>> /\ state[d] = "none" /\ state'[d] = "open"
      /\ \A e \in Drops : e # d => state'[e] = state[e]
  BY <1>1 DEF Submit, PhasesFit, DropFits, history, Types, Entries
<1>3. \A a \in Actors : SameJob(job[a], job'[a], {Receiver[d]})
  BY DisturbedJobs DEF Submit, Types
<1>4. KeptChange /\ (Changing => {r \in rows' : r.drop = Bot.drop} = RowsOf(Bot.drop))
  BY <1>2, ArrivalPhases DEF RowsOf
<1>5. \A m \in Months, g \in Groups, p \in Players :
        board'[m][g][p] = IF m = Now /\ g \in GroupsOf(Receiver[d])
                          THEN board[m][g][p] + (IF p = Receiver[d] THEN value[d] ELSE 0) ELSE board[m][g][p]
  <2>1. board' = Scored(Now, by) /\ DOMAIN by = GroupsOf(Receiver[d])
        /\ \A g \in DOMAIN by, p \in Players : by[g][p] = IF p = Receiver[d] THEN value[d] ELSE 0
    BY DEF Submit
  <2>. HIDE DEF by
  <2>. QED  BY <1>1, <2>1, ScoredCells
<1>6. ASSUME NEW p \in Players, NEW m \in Months, NEW g \in Groups, p # Receiver[d] \/ m # Now
      PROVE  Spared(p, m, g)
  <2>1. board[m][g][p] \in Int => board'[m][g][p] = board[m][g][p]
    BY <1>5, <1>6
  <2>2. \A r \in rows \cup rows' : r.drop # d
    BY <1>2 DEF RowsOf
  <2>. QED  BY <1>1, <1>2, <1>6, <2>1, <2>2, OneDropSpares
<1>7. \A p \in Players : p \notin {Receiver[d]} => SparedAll(p)
  BY <1>2, <1>6 DEF SparedAll
<1>8. ReadersKnow'
  BY <1>3, <1>4, <1>7, BesideReaders
<1>9. ASSUME NEW g \in Groups, NEW p \in Member[g], p = Receiver[d], Fits(p, Now, g)
      PROVE  Fits(p, Now, g)'
  <2>1. PICK lowered \in SUBSET OwnIn(p, Now) :
          board[Now][g][p] = Total(OwnIn(p, Now), value) + Worths(SharesIn(p, Now, g)) - Total(lowered, Lows(g))
    BY <1>9 DEF Fits
  <2>2. g \in GroupsOf(Receiver[d]) /\ p \in Players
    BY <1>1, <1>9 DEF GroupsOf
  <2>3. board'[Now][g][p] = board[Now][g][p] + value[d]
    BY <1>1, <1>5, <1>9, <2>2
  <2>4. d \notin OwnIn(p, Now) /\ OwnIn(p, Now)' = OwnIn(p, Now) \cup {d}
    BY <1>1, <1>2, <1>9 DEF OwnIn, Counted
  <2>5. OwnIn(p, Now) \in SUBSET Drops /\ OwnIn(p, Now) \cup {d} \in SUBSET Drops /\ lowered \in SUBSET Drops
    BY DEF OwnIn
  <2>6. Total(OwnIn(p, Now) \cup {d}, value) = value[d] + Total(OwnIn(p, Now), value)
    <3>1. (OwnIn(p, Now) \cup {d}) \ {d} = OwnIn(p, Now)
      BY <2>4
    <3>. QED  BY <2>5, <3>1, OwnSummable, TotalSplit
  <2>7. SharesIn(p, Now, g)' = SharesIn(p, Now, g)
    <3>1. \A r \in rows : r.drop # d /\ r.drop \in Drops
      BY <1>2 DEF RowsOf, Types, SplitRow
    <3>. QED  BY <1>2, <3>1 DEF SharesIn, Counted
  <2>8. Lows(g)' = Lows(g)
    BY <1>2 DEF Lows, RowsIn, RowsOf
  <2>9. /\ value[d] \in Int /\ Total(OwnIn(p, Now), value) \in Int
        /\ Total(lowered, Lows(g)) \in Int /\ Worths(SharesIn(p, Now, g)) \in Int
    <3>1. Worths(SharesIn(p, Now, g)) \in Int
      BY SharesFinite DEF SharesIn
    <3>. QED  BY <2>5, <3>1, OwnSummable, LowsSummable DEF Types
  <2>10. board'[Now][g][p] = Total(OwnIn(p, Now) \cup {d}, value) + Worths(SharesIn(p, Now, g)) - Total(lowered, Lows(g))
    BY <2>1, <2>3, <2>6, <2>9
  <2>11. board'[Now][g][p] = Total(OwnIn(p, Now)', value') + Worths(SharesIn(p, Now, g)') - Total(lowered, Lows(g)')
    BY <1>2, <2>4, <2>7, <2>8, <2>10
  <2>12. lowered \in SUBSET (OwnIn(p, Now)')
    BY <2>4
  <2>. QED  BY <2>11, <2>12 DEF Fits, Worths
<1>10. \A m \in Months, g \in Groups : \A p \in Member[g] : Fits(p, m, g) => Fits(p, m, g)'
  <2>1. \A g \in Groups : Member[g] \subseteq Players
    BY SharingAssumption
  <2>. QED  BY <1>6, <1>9, <2>1, SparedFits
<1>11. CellsFit'
  BY <1>2, <1>3, <1>4, <1>10, BesideCells
<1>. QED  BY <1>8, <1>11

\* A drop is shared: what its receiver is lowered by, and what its sharers get.
LEMMA ShareOutScores ==
  ASSUME Types, Types', PhasesFit, PhasesFit', BoardInv, FiniteRows', NEW d \in Drops, NEW o \in Groups, ShareOut(d, o)
  PROVE  CellsFit' /\ ReadersKnow'
<1>. DEFINE rs == IF IsShared(d, o) THEN Shares(d, o, Sharers(d, o), value[d]) ELSE {}
            n == Month[d]
            R == Receiver[d]
            full == value[d]
            credit == Credits(d, rs, value[d])
            ps == {R} \cup PlayersIn(rs)
<1>. USE DEF BoardInv
<1>1. R \in Players /\ n \in Months /\ full \in Nat
  BY SharingAssumption DEF Months, Types
<1>2. rows' = rows \cup rs /\ UNCHANGED <<state, value, off>> /\ state[d] = "open"
      /\ RowsIn(d, o) = {}
  BY DEF ShareOut, PhasesFit, DropFits, history
<1>3. \A r \in rs : r.drop = d /\ r.group = o /\ r \in SplitRow
  <2>1. Shares(d, o, Sharers(d, o), value[d]) \subseteq SplitRow
    BY SharersType, SharesAreRows DEF Types
  <2>. QED  BY <2>1 DEF Shares
<1>4. \A a \in Actors : SameJob(job[a], job'[a], ps)
  BY DisturbedJobs DEF ShareOut, Types
<1>5. KeptChange /\ (Changing => {r \in rows' : r.drop = Bot.drop} = RowsOf(Bot.drop))
  <2>1. KeptChange
    BY ArrivalPhases
  <2>2. Changing => Bot.drop # d
    BY <1>2 DEF PhasesFit, ChangeFits
  <2>. QED  BY <1>2, <1>3, <2>1, <2>2 DEF RowsOf
<1>6. \A m \in Months, g \in Groups, p \in Players :
        board'[m][g][p] = IF m = n /\ g = o THEN board[m][g][p] + credit[p] ELSE board[m][g][p]
  <2>. DEFINE by == [h \in {o} |-> Credits(d, rs, value[d])]
  <2>1. board' = Scored(n, by)
    BY DEF ShareOut
  <2>2. DOMAIN by = {o} /\ by[o] = credit
    OBVIOUS
  <2>. HIDE DEF by, credit, rs, n
  <2>. QED  BY <1>1, <2>1, <2>2, ScoredCells
<1>7. IsFiniteSet(rs) /\ \A p \in Players : credit[p] = Worths({r \in rs : r.player = p}) - (IF p = R THEN Lowered(rs, full) ELSE 0)
  <2>1. IsFiniteSet(rs)
    BY <1>2, FS_Subset DEF FiniteRows
  <2>. QED  BY <2>1 DEF Credits
<1>8. \A p \in Players : p \notin ps => credit[p] = 0
  BY CreditsNone
<1>. HIDE DEF rs, n, R, full, credit
<1>9. ASSUME NEW p \in Players, NEW m \in Months, NEW g \in Groups, p \notin ps \/ m # n \/ g # o
      PROVE  Spared(p, m, g)
  <2>1. board[m][g][p] \in Int => board'[m][g][p] = board[m][g][p]
    BY <1>6, <1>8, <1>9
  <2>2. p \notin ps \/ g # o => \A r \in rows \cup rows' : r.drop = d /\ r.player = p /\ r.group = g =>
                 (r \in rows <=> r \in rows') /\ state'[d] = state[d]
    BY <1>2, <1>3 DEF PlayersIn
  <2>3. g # o => RowsIn(d, g)' = RowsIn(d, g)
    BY <1>2, <1>3 DEF RowsIn, RowsOf
  <2>4. \A r \in rows \cup rows' : r.drop # d => (r \in rows <=> r \in rows')
    BY <1>2, <1>3
  <2>5. \A e \in Drops : state'[e] = state[e] /\ value'[e] = value[e]
    BY <1>2
  <2>. QED  BY <1>9, <2>1, <2>2, <2>3, <2>4, <2>5, OneDropSpares DEF R, n
<1>10. \A p \in Players : p \notin ps => SparedAll(p)
  BY <1>2, <1>9 DEF SparedAll
<1>11. ReadersKnow'
  <2>. HIDE DEF ps
  <2>. QED  BY <1>4, <1>5, <1>10, BesideReaders
<1>12. ASSUME NEW p \in Players, Fits(p, n, o)
       PROVE  Fits(p, n, o)'
  <2>. DEFINE mine == {r \in rs : r.player = p}
              S == SharesIn(p, n, o)
              W == OwnIn(p, n)
  <2>1. PICK L \in SUBSET W : board[n][o][p] = Total(W, value) + Worths(S) - Total(L, Lows(o))
    BY <1>12 DEF Fits
  <2>2. W \in SUBSET Drops /\ L \in SUBSET Drops /\ W' = W
    BY <1>2 DEF OwnIn, Counted
  <2>3. SharesIn(p, n, o)' = S \cup mine /\ S \cap mine = {}
    <3>1. \A r \in rs : r \notin rows
      BY <1>2, <1>3 DEF RowsIn, RowsOf
    <3>. QED  BY <1>2, <1>3, <3>1 DEF SharesIn, Counted, n
  <2>4. IsFiniteSet(S) /\ IsFiniteSet(mine) /\ \A r \in S \cup mine : r.value \in Nat
    <3>1. S \subseteq rows
      BY DEF SharesIn
    <3>2. IsFiniteSet(mine)
      BY <1>7, FS_Subset
    <3>. QED  BY <1>3, <3>1, <3>2, SharesFinite DEF SplitRow
  <2>5. Worths(S \cup mine) = Worths(S) + Worths(mine) /\ Worths(S) \in Int /\ Worths(mine) \in Int
    <3>1. Worths(S \cup mine) = Worths(S) + Worths(mine)
      BY <2>3, <2>4, WorthsUnion
    <3>2. Worths(S) \in Int /\ Worths(mine) \in Int
      BY <2>4, WorthsType
    <3>. QED  BY <3>1, <3>2
  <2>6. Total(W, value) \in Int /\ Total(L, Lows(o)) \in Int
    BY <2>2, OwnSummable, LowsSummable
  <2>7. board'[n][o][p] = board[n][o][p] + (Worths(mine) - (IF p = R THEN Lowered(rs, full) ELSE 0))
    BY <1>1, <1>6, <1>7
  <2>8. \A e \in Drops : e # d => Lows(o)'[e] = Lows(o)[e]
    <3>1. \A e \in Drops : e # d => RowsIn(e, o)' = RowsIn(e, o)
      BY <1>2, <1>3 DEF RowsIn, RowsOf
    <3>. QED  BY <1>2, <3>1 DEF Lows
  <2>. HIDE DEF mine, S, W
  <2>9. ASSUME NEW M \in SUBSET W, Total(M, Lows(o)') = Total(L, Lows(o)) + (IF p = R THEN Lowered(rs, full) ELSE 0)
        PROVE  Fits(p, n, o)'
    <3>1. Lowered(rs, full) \in Int
      BY <1>1, <1>3, LoweredType
    <3>2. board'[n][o][p] = Total(W, value) + Worths(S \cup mine) - Total(M, Lows(o)')
      BY <2>1, <2>5, <2>6, <2>7, <2>9, <3>1
    <3>3. board'[n][o][p] = Total(W', value') + Worths(SharesIn(p, n, o)') - Total(M, Lows(o)')
      BY <1>2, <2>2, <2>3, <3>2
    <3>. QED  BY <2>2, <2>9, <3>3 DEF Fits, Worths, W
  <2>10. CASE p = R
    <3>1. d \in W /\ Lows(o)[d] = 0
      BY <1>2, <2>10 DEF W, OwnIn, Counted, n, R, Lows, Lowered
    <3>2. Lows(o)'[d] = Lowered(rs, full)
      <4>1. RowsIn(d, o)' = rs
        BY <1>2, <1>3 DEF RowsIn, RowsOf
      <4>. QED  BY <1>2, <4>1 DEF Lows, full
    <3>. DEFINE Z == L \ {d}
                M == Z \cup {d}
    <3>3. Z \in SUBSET Drops /\ M \in SUBSET Drops /\ M \in SUBSET W /\ d \in M /\ M \ {d} = Z
      BY <2>2, <3>1
    <3>4. Total(L, Lows(o)) = Total(Z, Lows(o))
      <4>1. CASE d \in L
        <5>1. Total(L, Lows(o)) = Lows(o)[d] + Total(Z, Lows(o))
          BY <2>2, <4>1, LowsSummable, TotalSplit
        <5>. QED  BY <3>1, <3>3, <5>1, LowsSummable
      <4>2. CASE d \notin L
        <5>1. Z = L
          BY <4>2
        <5>. QED  BY <5>1
      <4>. QED  BY <4>1, <4>2
    <3>. HIDE DEF Z
    <3>5. Total(Z, Lows(o)) = Total(Z, Lows(o)')
      <4>1. \A e \in Z : Lows(o)[e] = Lows(o)'[e]
        BY <2>8, <3>3 DEF Z
      <4>. QED  BY <3>3, <4>1, LowsSummable, TotalSame
    <3>6. Summable(M, Lows(o)')
      BY <3>3, LowsSummableNext
    <3>. HIDE DEF M
    <3>7. Total(M, Lows(o)') = Lowered(rs, full) + Total(Z, Lows(o)')
      BY <3>2, <3>3, <3>6, TotalSplit
    <3>8. Lowered(rs, full) \in Int /\ Total(Z, Lows(o)) \in Int
      BY <1>1, <1>3, <3>3, LoweredType, LowsSummable
    <3>. QED  BY <2>9, <2>10, <3>3, <3>4, <3>5, <3>7, <3>8
  <2>11. CASE p # R
    <3>1. d \notin W
      BY <2>11 DEF W, OwnIn, R
    <3>2. \A e \in L : Lows(o)[e] = Lows(o)'[e]
      BY <2>2, <2>8, <3>1
    <3>3. Total(L, Lows(o)') = Total(L, Lows(o))
      BY <2>2, <3>2, LowsSummable, TotalSame
    <3>. QED  BY <2>6, <2>9, <2>11, <3>3
  <2>. QED  BY <2>10, <2>11
<1>13. \A m \in Months, g \in Groups : \A p \in Member[g] : Fits(p, m, g) => Fits(p, m, g)'
  <2>1. \A g \in Groups : Member[g] \subseteq Players
    BY SharingAssumption
  <2>2. ASSUME NEW m \in Months, NEW g \in Groups, NEW p \in Players, Fits(p, m, g) PROVE Fits(p, m, g)'
    BY <1>9, <1>12, <2>2, SparedFits
  <2>. QED  BY <2>1, <2>2
<1>14. CellsFit'
  <2>. HIDE DEF ps
  <2>. QED  BY <1>2, <1>4, <1>5, <1>13, BesideCells
<1>. QED  BY <1>11, <1>14

\* A step that has no part in scores, nor in what rebuilds read.
LEMMA NothingScored ==
  ASSUME Types, Types', BoardInv, UNCHANGED <<rows, value, board, off, job>>,
         \A d \in Drops : state'[d] = state[d]
  PROVE  CellsFit' /\ ReadersKnow'
<1>. USE DEF BoardInv
<1>1. \A a \in Actors : SameJob(job[a], job'[a], {})
  <2>1. SUFFICES ASSUME NEW a \in Actors PROVE SameJob(job[a], job[a], {})
    OBVIOUS
  <2>2. Reading(a) => job[a] \in ReadingJobs /\ job[a].clash \in BOOLEAN
    BY ReadingJob DEF ReadingJobs
  <2>3. job[a].stage = "rebuild" => job[a] \in WaitingJobs
    BY JobKinds DEF Types
  <2>. QED  BY <2>2, <2>3 DEF SameJob, Reading
<1>2. KeptChange /\ (Changing => {r \in rows' : r.drop = Bot.drop} = RowsOf(Bot.drop))
  BY DEF RowsOf, KeptChange, Bot
<1>3. \A r \in rows : r.drop \in Drops
  BY DEF Types, SplitRow
<1>4. \A p, m, g : Spared(p, m, g)
  BY <1>3 DEF Spared, RowsIn, RowsOf
<1>5. \A p : SparedAll(p)
  BY <1>4 DEF SparedAll
<1>6. \A p, m, g : Fits(p, m, g) => Fits(p, m, g)'
  BY <1>4, SparedFits
<1>. QED  BY <1>1, <1>2, <1>5, <1>6, BesideReaders, BesideCells

\* A step that is about one drop, and admits to have left its players' scores wrong.
LEMMA ForsakenCells ==
  ASSUME Types, Types', PhasesFit, PhasesFit', BoardInv, NEW d \in Drops, state[d] = "open",
         KeptChange, \A a \in Actors : SameJob(job[a], job'[a], Concerned(d)),
         off' = off \cup At(Concerned(d), d),
         \A e \in Drops : value'[e] = value[e] /\ (e # d => state'[e] = state[e]),
         \A r \in rows \cup rows' : r.drop = d => r.player \in Concerned(d),
         \A r \in rows \cup rows' : r.drop # d => (r \in rows <=> r \in rows'),
         \A m \in Months, g \in Groups, p \in Players :
           p \notin Concerned(d) \/ m # Month[d] => (board[m][g][p] \in Int => board'[m][g][p] = board[m][g][p])
  PROVE  CellsFit' /\ ReadersKnow'
<1>. USE DEF BoardInv
<1>1. Changing => {r \in rows' : r.drop = Bot.drop} = RowsOf(Bot.drop)
  <2>1. Changing => Bot.drop # d
    BY DEF PhasesFit, ChangeFits
  <2>. QED  BY <2>1 DEF RowsOf
<1>2. Receiver[d] \in Concerned(d) /\ Month[d] \in Months /\ Receiver[d] \in Players
  BY SharingAssumption DEF Concerned, Months
<1>3. ASSUME NEW p \in Players, NEW m \in Months, NEW g \in Groups, p \notin Concerned(d) \/ m # Month[d]
      PROVE  Spared(p, m, g)
  <2>1. board[m][g][p] \in Int => board'[m][g][p] = board[m][g][p]
    BY <1>3
  <2>2. p \notin Concerned(d) => p # Receiver[d] /\ \A r \in rows \cup rows' : r.drop = d => r.player # p
    BY <1>2
  <2>. QED  BY <1>3, <2>1, <2>2, OneDropSpares
<1>4. ASSUME NEW p \in Players, p \notin Concerned(d) PROVE SparedAll(p)
  <2>1. \A e \in Drops : Receiver[e] = p => state'[e] = state[e] /\ value'[e] = value[e]
    BY <1>2, <1>4
  <2>. QED  BY <1>3, <1>4, <2>1 DEF SparedAll
<1>5. ReadersKnow'
  <2>1. \A p \in Players : p \notin Concerned(d) => SparedAll(p)
    BY <1>4
  <2>. QED  BY <1>1, <2>1, BesideReaders
<1>6. ASSUME NEW p \in Players, NEW m \in Months, NEW g \in Groups, Fits(p, m, g)
      PROVE  <<p, m>> \in off' \/ Fits(p, m, g)'
  <2>1. CASE p \notin Concerned(d) \/ m # Month[d]
    BY <1>3, <1>6, <2>1, SparedFits
  <2>2. CASE p \in Concerned(d) /\ m = Month[d]
    BY <2>2 DEF At
  <2>. QED  BY <2>1, <2>2
<1>7. CellsFit'
  <2>1. \A m \in Months, g \in Groups : \A p \in Member[g] : Fits(p, m, g) => <<p, m>> \in off' \/ Fits(p, m, g)'
    BY <1>6, SharingAssumption
  <2>. QED  BY <1>1, <2>1, BesideCells
<1>. QED  BY <1>5, <1>7

LEMMA ShareFailsScores ==
  ASSUME Types, Types', PhasesFit, PhasesFit', BoardInv, NEW d \in Drops, NEW o \in Groups, ShareFails(d, o)
  PROVE  CellsFit' /\ ReadersKnow'
<1>. DEFINE all == Shares(d, o, Sharers(d, o), value[d])
            n == Month[d]
            by(rs, last) == [h \in {o} |-> [Credits(d, rs, value[d]) EXCEPT ![last.player] = @ - last.value]]
<1>0. PICK rs \in SUBSET all : \E last \in rs : rows' = rows \cup rs /\ board' = Scored(n, by(rs, last))
  BY DEF ShareFails
<1>1. PICK last \in rs : rows' = rows \cup rs /\ board' = Scored(n, by(rs, last))
  BY <1>0
<1>2. UNCHANGED <<state, value>> /\ off' = off \cup At(Concerned(d), d) /\ state[d] = "open"
  BY DEF ShareFails
<1>3. \A r \in all : r.drop = d /\ r.group = o /\ r.player \in Sharers(d, o)
  BY DEF Shares
<1>4. Sharers(d, o) \subseteq Concerned(d) /\ Receiver[d] \in Concerned(d)
  BY DEF Sharers, Concerned
<1>5. \A a \in Actors : SameJob(job[a], job'[a], Concerned(d))
  BY DisturbedJobs DEF ShareFails, Types
<1>6. KeptChange
  BY ArrivalPhases
<1>7. ASSUME NEW m \in Months, NEW g \in Groups, NEW p \in Players, p \notin Concerned(d) \/ m # n, board[m][g][p] \in Int
      PROVE  board'[m][g][p] = board[m][g][p]
  <2>. DEFINE b == by(rs, last)
              credit == Credits(d, rs, value[d])
  <2>1. DOMAIN b = {o} /\ b[o] = [credit EXCEPT ![last.player] = @ - last.value]
    OBVIOUS
  <2>2. n \in Months /\ board' = Scored(n, b) /\ BoardShape
    BY <1>1 DEF Months, BoardInv
  <2>. HIDE DEF b, n, credit
  <2>3. board'[m][g][p] = IF m = n /\ g \in DOMAIN b THEN board[m][g][p] + b[g][p] ELSE board[m][g][p]
    BY <2>2, ScoredCells
  <2>4. CASE m = n /\ g = o
    <3>1. p # Receiver[d] /\ p \notin PlayersIn(rs) /\ p # last.player
      BY <1>1, <1>3, <1>4, <1>7, <2>4 DEF PlayersIn
    <3>2. credit[p] = 0
      BY <3>1, CreditsNone DEF credit
    <3>3. credit = [q \in Players |-> credit[q]]
      BY DEF Credits, credit
    <3>4. b[o][p] = 0
      BY <2>1, <3>1, <3>2, <3>3
    <3>5. board'[m][g][p] = board[m][g][p] + 0
      BY <2>1, <2>3, <2>4, <3>4
    <3>6. board[m][g][p] \in Int
      BY <1>7
    <3>. QED  BY <3>5, <3>6
  <2>5. CASE ~(m = n /\ g = o)
    BY <2>1, <2>3, <2>5
  <2>. QED  BY <2>4, <2>5
<1>8. \A r \in rows \cup rows' : r.drop = d => r.player \in Concerned(d)
  <2>1. \A r \in rows : r.drop = d => r.player \in Concerned(d)
    BY DEF Concerned, PlayersIn, RowsOf
  <2>. QED  BY <1>1, <1>3, <1>4, <2>1
<1>9. \A r \in rows \cup rows' : r.drop # d => (r \in rows <=> r \in rows')
  BY <1>1, <1>3
<1>. HIDE DEF n
<1>. QED  BY <1>2, <1>5, <1>6, <1>7, <1>8, <1>9, ForsakenCells DEF n

LEMMA RollBackScores ==
  ASSUME Types, Types', PhasesFit, PhasesFit', BoardInv, NEW d \in Drops, RollBack(d)
  PROVE  CellsFit' /\ ReadersKnow'
<1>1. UNCHANGED <<board, value>> /\ off' = off \cup At(Concerned(d), d) /\ state[d] = "open"
      /\ rows' = rows \ RowsOf(d)
  BY DEF RollBack
<1>2. \A e \in Drops : e # d => state'[e] = state[e]
  BY DEF RollBack, Types, Entries
<1>3. \A a \in Actors : SameJob(job[a], job'[a], Concerned(d))
  BY DisturbedJobs DEF RollBack, Types
<1>4. KeptChange
  BY ArrivalPhases
<1>5. \A r \in rows : r.drop = d => r.player \in Concerned(d)
  BY DEF Concerned, PlayersIn, RowsOf
<1>6. \A r \in rows : r.drop # d => r \notin RowsOf(d)
  BY DEF RowsOf
<1>. QED  BY <1>1, <1>2, <1>3, <1>4, <1>5, <1>6, ForsakenCells

\* The drop and its shares are there to see.
LEMMA CommitScores ==
  ASSUME Types, Types', PhasesFit, PhasesFit', BoardInv, NEW d \in Drops, Commit(d)
  PROVE  CellsFit' /\ ReadersKnow'
<1>. USE DEF BoardInv
<1>1. UNCHANGED <<board, value, rows, off>> /\ state[d] = "open" /\ state'[d] = "stored"
      /\ \A e \in Drops : e # d => state'[e] = state[e]
  BY DEF Commit, history, Types, Entries
<1>2. \A a \in Actors : SameJob(job[a], job'[a], Concerned(d))
  BY UnreadJobs DEF Commit, Types
<1>3. KeptChange /\ (Changing => {r \in rows' : r.drop = Bot.drop} = RowsOf(Bot.drop))
  BY <1>1, ArrivalPhases DEF RowsOf
<1>4. \A r \in rows : r.drop \in Drops
  BY DEF Types, SplitRow
<1>5. ASSUME NEW p \in Players, p \notin Concerned(d) PROVE SparedAll(p)
  <2>1. p # Receiver[d] /\ \A r \in rows : r.drop = d => r.player # p
    BY <1>5 DEF Concerned, PlayersIn, RowsOf
  <2>2. \A e \in Drops : Receiver[e] = p => e # d
    BY <2>1
  <2>3. \A e \in Drops : \A g : RowsIn(e, g)' = RowsIn(e, g)
    BY <1>1 DEF RowsIn, RowsOf
  <2>4. \A m \in Months, g \in Groups : Spared(p, m, g)
    BY <1>1, <1>4, <2>1, <2>2, <2>3 DEF Spared
  <2>. QED  BY <1>1, <2>2, <2>4 DEF SparedAll
<1>6. ReadersKnow'
  <2>1. \A p \in Players : p \notin Concerned(d) => SparedAll(p)
    BY <1>5
  <2>. QED  BY <1>2, <1>3, <2>1, BesideReaders
<1>7. ASSUME NEW m \in Months, NEW g \in Groups, NEW p \in Players, Fits(p, m, g)
      PROVE  Fits(p, m, g)'
  <2>1. \A e \in Drops : Counted(e)' <=> Counted(e)
    BY <1>1 DEF Counted
  <2>2. OwnIn(p, m)' = OwnIn(p, m)
    BY <2>1 DEF OwnIn
  <2>3. SharesIn(p, m, g)' = SharesIn(p, m, g)
    BY <1>1, <1>4, <2>1 DEF SharesIn
  <2>4. \A e \in OwnIn(p, m) : value'[e] = value[e] /\ RowsIn(e, g)' = RowsIn(e, g)
    BY <1>1 DEF RowsIn, RowsOf
  <2>. QED  BY <1>1, <1>7, <2>2, <2>3, <2>4, CellFrame
<1>8. CellsFit'
  <2>1. \A m \in Months, g \in Groups : \A p \in Member[g] : Fits(p, m, g) => Fits(p, m, g)'
    BY <1>7, SharingAssumption
  <2>. QED  BY <1>1, <1>2, <1>3, <2>1, BesideCells
<1>. QED  BY <1>6, <1>8

\* Another entry has no part in scores.
LEMMA AchieveScores ==
  ASSUME Types, Types', PhasesFit, PhasesFit', BoardInv, NEW o \in Others, Achieve(o)
  PROVE  CellsFit' /\ ReadersKnow'
<1>1. \A e \in Drops : state'[e] = state[e]
  BY SharingAssumption DEF Achieve, Types, Entries
<1>. QED  BY <1>1, NothingScored DEF Achieve, history

\* The updater goes on when the bot takes a step of a change.
LEMMA BotReaders ==
  ASSUME Types, Types', ReadersKnow, NEW ps, SameJob(job["updater"], job'["updater"], ps),
         job'["bot"].stage \notin {"read", "reset"},
         \A p \in Players : p \notin ps => SparedAll(p) /\ \A m \in Months : ~Touched(p, m)'
  PROVE  ReadersKnow'
<1>1. SUFFICES ASSUME NEW a \in Actors, job'[a].stage \in {"read", "reset"}, ~job'[a].clash
               PROVE  Undisturbed(a)'
  BY DEF ReadersKnow, Reading
<1>2. a = "updater" /\ Actors \ {a} = {"bot"}
  BY <1>1 DEF Actors
<1>3. Reading(a) /\ ~job[a].clash /\ job[a].player \notin ps /\ SameJob(job[a], job'[a], ps)
  BY <1>1, <1>2 DEF SameJob, Reading
<1>4. PICK p \in Players : p = job[a].player
  BY <1>3, ReadingJob DEF ReadingJobs
<1>5. Undisturbed(a) /\ SparedAll(p) /\ \A m \in Months : ~Touched(p, m)'
  BY <1>3, <1>4 DEF ReadersKnow
<1>. QED  BY <1>2, <1>3, <1>4, <1>5, ReaderSpared

\* The players whose scores a drop is in.
InvolvedIn(d) == {Receiver[d]} \cup PlayersIn(RowsOf(d))

\* A change begins: the scores the drop is in are wrong from now on.
LEMMA BegunScores ==
  ASSUME Types, Types', BoardInv, NEW d \in Drops, Bot.stage = "idle",
         UNCHANGED <<rows, off>>, Bot'.stage \in Stages, Bot'.drop = d, Bot'.op # "modify",
         SameJob(job["updater"], job'["updater"], Concerned(d)),
         \A e \in Drops : e # d => state'[e] = state[e] /\ value'[e] = value[e],
         \A m \in Months, g \in Groups, p \in Players :
           p \notin InvolvedIn(d) \/ m # Month[d] => (board[m][g][p] \in Int => board'[m][g][p] = board[m][g][p])
  PROVE  CellsFit' /\ ReadersKnow'
<1>. USE DEF BoardInv
<1>1. InvolvedIn(d) \subseteq Concerned(d) /\ Receiver[d] \in InvolvedIn(d)
      /\ \A r \in rows : r.drop = d => r.player \in InvolvedIn(d)
  BY DEF InvolvedIn, Concerned, PlayersIn, RowsOf
<1>2. ASSUME NEW p \in Players, NEW m \in Months, NEW g \in Groups, p \notin InvolvedIn(d) \/ m # Month[d]
      PROVE  Spared(p, m, g)
  <2>1. board[m][g][p] \in Int => board'[m][g][p] = board[m][g][p]
    BY <1>2
  <2>2. p \notin InvolvedIn(d) => p # Receiver[d] /\ \A r \in rows \cup rows' : r.drop = d => r.player # p
    BY <1>1
  <2>. QED  BY <1>2, <2>1, <2>2, OneDropSpares
<1>3. \A p, m : Touched(p, m)' <=> m = Month[d] /\ p \in InvolvedIn(d)
  <2>1. RowsOf(d)' = RowsOf(d)
    BY DEF RowsOf
  <2>. QED  BY <2>1 DEF Touched, Changing, InvolvedIn
<1>4. ReadersKnow'
  <2>1. ASSUME NEW p \in Players, p \notin Concerned(d)
        PROVE  SparedAll(p) /\ \A m \in Months : ~Touched(p, m)'
    <3>1. p \notin InvolvedIn(d) /\ p # Receiver[d]
      BY <1>1, <2>1
    <3>2. \A e \in Drops : Receiver[e] = p => state'[e] = state[e] /\ value'[e] = value[e]
      BY <3>1
    <3>. QED  BY <1>2, <1>3, <3>1, <3>2 DEF SparedAll
  <2>2. job'["bot"].stage \notin {"read", "reset"}
    BY DEF Bot, Stages
  <2>. QED  BY <2>1, <2>2, BotReaders
<1>5. ASSUME NEW p \in Players, NEW m \in Months, NEW g \in Groups, Fits(p, m, g)
      PROVE  Touched(p, m)' \/ Fits(p, m, g)'
  BY <1>2, <1>3, <1>5, SparedFits
<1>6. CellsFit'
  <2>1. \A m \in Months, g \in Groups : \A p \in Member[g] : Fits(p, m, g) => Touched(p, m)' \/ Fits(p, m, g)'
    BY <1>5, SharingAssumption
  <2>. QED  BY <2>1, BeginCells
<1>. QED  BY <1>4, <1>6

\* Taking a drop's credits back group by group.
LEMMA DeleteBoards ==
  ASSUME Types, FiniteRows, BoardShape, NEW d \in Drops, NEW h \in Groups, Delete(d, h),
         NEW m \in Months, NEW g \in Groups, NEW p \in Players, p \notin InvolvedIn(d) \/ m # Month[d],
         board[m][g][p] \in Int
  PROVE  board'[m][g][p] = board[m][g][p]
<1>. DEFINE by == [k \in Tracking |->
                    LET back == Reversal(d, k, value[d]) IN [q \in Players |-> Cardinality(RowsIn(d, k)) * back[q]]]
            n == Month[d]
<1>1. n \in Months /\ board' = Scored(n, by)
  BY DEF Delete, Months
<1>2. DOMAIN by = Tracking
  OBVIOUS
<1>3. ASSUME g \in Tracking, m = n PROVE by[g][p] = 0
  <2>1. p # Receiver[d] /\ p \notin PlayersIn(RowsIn(d, g))
    BY <1>3 DEF InvolvedIn, PlayersIn, RowsIn
  <2>2. Reversal(d, g, value[d])[p] = 0
    BY <2>1, ReversalNone
  <2>3. Cardinality(RowsIn(d, g)) \in Nat
    <3>1. RowsIn(d, g) \subseteq rows
      BY DEF RowsIn, RowsOf
    <3>. QED  BY <3>1, SharesFinite, FS_CardinalityType
  <2>4. by[g][p] = Cardinality(RowsIn(d, g)) * Reversal(d, g, value[d])[p]
    BY <1>3
  <2>. QED  BY <2>2, <2>3, <2>4
<1>. HIDE DEF by, n
<1>4. board'[m][g][p] = IF m = n /\ g \in DOMAIN by THEN board[m][g][p] + by[g][p] ELSE board[m][g][p]
  BY <1>1, ScoredCells
<1>. QED  BY <1>2, <1>3, <1>4

LEMMA ChangeScores ==
  ASSUME Types, Types', BoardInv, NEW d \in Drops, NEW g \in Groups,
         \/ StartHide(d, g) \/ Hide(d, g) \/ HideNothing(d, g) \/ Unhide(d, g) \/ Delete(d, g)
         \/ \E v \in Values : Edit(d, g, v)
         \/ \E ps \in Namings : ModifySplits(d, g, ps)
  PROVE  CellsFit' /\ ReadersKnow'
<1>1. CASE StartHide(d, g) \/ HideNothing(d, g)
  BY <1>1, NothingScored DEF StartHide, HideNothing, table, entries, history
<1>2. ASSUME NEW stage \in Stages, NEW op \in Ops, NEW ps \in SUBSET Players, Goes(stage, op, d, g, ps)
      PROVE  /\ Bot'.stage \in Stages /\ Bot'.drop = d /\ Bot'.op = op /\ Bot'.stage = stage
             /\ SameJob(job["updater"], job'["updater"], Concerned(d))
  <2>1. /\ job'["bot"] = [stage |-> stage, op |-> op, drop |-> d, group |-> g, names |-> ps, old |-> {}]
        /\ SameJob(job["updater"], job'["updater"], Concerned(d))
    BY <1>2, BotGoes DEF Types
  <2>2. Bot' = [stage |-> stage, op |-> op, drop |-> d, group |-> g, names |-> ps, old |-> {}]
    BY <2>1 DEF Bot
  <2>. QED  BY <2>1, <2>2
<1>3. "credits" \in Stages /\ "erase" \in Stages /\ "strip" \in Stages /\ {"hide", "unhide", "edit", "delete", "modify"} \subseteq Ops
      /\ {} \in SUBSET Players /\ SplitNames(d, g) \in SUBSET Players
  BY DEF Stages, Ops, SplitNames
<1>4. CASE Hide(d, g)
  <2>1. UNCHANGED <<rows, off, value, board>> /\ Bot.stage = "idle" /\ Goes("credits", "hide", d, g, {})
    BY <1>4 DEF Hide, Changeable, Bot
  <2>2. \A e \in Drops : e # d => state'[e] = state[e]
    BY <1>4 DEF Hide, Types, Entries
  <2>. QED  BY <1>2, <1>3, <2>1, <2>2, BegunScores
<1>5. CASE Unhide(d, g)
  <2>1. UNCHANGED <<rows, off, value, board>> /\ Bot.stage = "idle" /\ Goes("credits", "unhide", d, g, {})
    BY <1>5 DEF Unhide, Changeable, Bot, history
  <2>2. \A e \in Drops : e # d => state'[e] = state[e]
    BY <1>5 DEF Unhide, Types, Entries
  <2>. QED  BY <1>2, <1>3, <2>1, <2>2, BegunScores
<1>6. CASE \E v \in Values : Edit(d, g, v)
  <2>1. UNCHANGED <<rows, off, state, board>> /\ Bot.stage = "idle" /\ Goes("credits", "edit", d, g, SplitNames(d, g))
    BY <1>6 DEF Edit, Changeable, Bot
  <2>2. \A e \in Drops : e # d => value'[e] = value[e]
    BY <1>6 DEF Edit, Types
  <2>. QED  BY <1>2, <1>3, <2>1, <2>2, BegunScores
<1>7. CASE Delete(d, g)
  <2>1. UNCHANGED <<rows, off, state, value>> /\ Bot.stage = "idle" /\ Goes("erase", "delete", d, g, {})
    BY <1>7 DEF Delete, Changeable, Bot, table, entries, history
  <2>2. \A m \in Months, h \in Groups, p \in Players :
          p \notin InvolvedIn(d) \/ m # Month[d] => (board[m][h][p] \in Int => board'[m][h][p] = board[m][h][p])
    BY <1>7, DeleteBoards DEF BoardInv
  <2>. QED  BY <1>2, <1>3, <2>1, <2>2, BegunScores
<1>8. CASE \E ps \in Namings : ModifySplits(d, g, ps)
  <2>1. PICK ps \in Namings : ModifySplits(d, g, ps)
    BY <1>8
  <2>2. UNCHANGED <<rows, off, state, value, board>> /\ Bot.stage = "idle" /\ Goes("strip", "modify", d, g, ps)
    BY <2>1 DEF ModifySplits, Changeable, Bot, entries
  <2>3. ps \in SUBSET Players
    BY SharingAssumption
  <2>4. Bot'.stage = "strip" /\ Bot'.op = "modify" /\ SameJob(job["updater"], job'["updater"], Concerned(d))
    BY <1>2, <1>3, <2>2, <2>3
  <2>5. \A p, m : ~Touched(p, m)'
    BY <2>4 DEF Touched
  <2>6. \A p, m, h : Spared(p, m, h)
    <3>1. \A r \in rows : r.drop \in Drops
      BY DEF Types, SplitRow
    <3>. QED  BY <2>2, <3>1 DEF Spared, RowsIn, RowsOf
  <2>7. \A p : SparedAll(p)
    BY <2>2, <2>6 DEF SparedAll
  <2>8. \A p, m, h : Fits(p, m, h) => Fits(p, m, h)'
    BY <2>6, SparedFits DEF BoardInv
  <2>9. CellsFit'
    BY <2>2, <2>4, <2>8, BeginCells DEF BoardInv
  <2>10. job'["bot"].stage \notin {"read", "reset"}
    BY <2>4 DEF Bot
  <2>11. ReadersKnow'
    BY <2>4, <2>5, <2>7, <2>10, BotReaders DEF BoardInv
  <2>. QED  BY <2>9, <2>11
<1>. QED  BY <1>1, <1>4, <1>5, <1>6, <1>7, <1>8

\* A change ends: the bot will rebuild the receiver and those named.
LEMMA TurnedScores ==
  ASSUME Types, Types', PhasesFit, BoardInv, Changing, NEW d \in Drops, d = Bot.drop,
         NEW ps \in SUBSET Players,
         (\E open \in BOOLEAN : FirstReceiver(d, ps, open)) \/ LastReceiver(d, ps),
         off \subseteq off',
         \A p \in Players, m \in Months : Touched(p, m) => p \in ps \cup {Receiver[d]} \/ <<p, m>> \in off',
         \A e \in Drops : value'[e] = value[e] /\ (e # d => state'[e] = state[e]),
         \A r \in rows \cup rows' : r.drop # d => (r \in rows <=> r \in rows'),
         \A r \in rows \cup rows' : r.drop = d /\ r.player \notin ps \cup {Receiver[d]} =>
           (r \in rows <=> r \in rows') /\ state'[d] = state[d],
         \A m \in Months, g \in Groups, p \in Players : p \notin ps \cup {Receiver[d]} =>
           (board[m][g][p] \in Int => board'[m][g][p] = board[m][g][p])
  PROVE  CellsFit' /\ ReadersKnow'
<1>. DEFINE qs == ps \cup {Receiver[d]}
<1>. USE DEF BoardInv
<1>1. /\ job'["bot"].stage = "rebuild" /\ ToSet(job'["bot"].todo) = qs
      /\ SameJob(job["updater"], job'["updater"], qs)
  BY BotTurns DEF Types
<1>. HIDE DEF qs
<1>2. Bot'.stage = "rebuild" /\ ToSet(Bot'.todo) = qs
  BY <1>1 DEF Bot
<1>3. \A p : Awaited(p)' <=> p \in qs
  BY <1>1, <1>2 DEF Awaited, Reading
<1>4. \A p, m : ~Touched(p, m)'
  BY <1>2 DEF Touched, Changing, Stages
<1>5. ASSUME NEW p \in Players, NEW m \in Months, NEW g \in Groups, p \notin qs
      PROVE  Spared(p, m, g)
  <2>1. board[m][g][p] \in Int => board'[m][g][p] = board[m][g][p]
    BY <1>5 DEF qs
  <2>2. p # Receiver[d] /\ \A r \in rows \cup rows' : r.drop = d /\ r.player = p =>
           (r \in rows <=> r \in rows') /\ state'[d] = state[d]
    BY <1>5 DEF qs
  <2>. QED  BY <2>1, <2>2, OneDropSpares
<1>6. ASSUME NEW p \in Players, p \notin qs PROVE SparedAll(p)
  <2>1. \A e \in Drops : Receiver[e] = p => state'[e] = state[e] /\ value'[e] = value[e]
    BY <1>6 DEF qs
  <2>. QED  BY <1>5, <1>6, <2>1 DEF SparedAll
<1>7. ReadersKnow'
  <2>1. job'["bot"].stage \notin {"read", "reset"}
    BY <1>1
  <2>. QED  BY <1>1, <1>4, <1>6, <2>1, BotReaders
<1>8. ASSUME NEW p \in Players, NEW m \in Months, NEW g \in Groups, Touched(p, m) \/ Fits(p, m, g)
      PROVE  <<p, m>> \in off' \/ Touched(p, m)' \/ Awaited(p)' \/ Fits(p, m, g)'
  <2>1. CASE p \in qs
    BY <1>3, <2>1
  <2>2. CASE p \notin qs /\ Touched(p, m)
    BY <2>2 DEF qs
  <2>3. CASE p \notin qs /\ Fits(p, m, g)
    BY <1>5, <2>3, SparedFits
  <2>. QED  BY <1>8, <2>1, <2>2, <2>3
<1>9. CellsFit'
  <2>1. \A m \in Months, g \in Groups : \A p \in Member[g] : Touched(p, m) \/ Fits(p, m, g) =>
          <<p, m>> \in off' \/ Touched(p, m)' \/ Awaited(p)' \/ Fits(p, m, g)'
    BY <1>8, SharingAssumption
  <2>. QED  BY <1>1, <2>1, FollowCells
<1>. QED  BY <1>7, <1>9

\* A change has touched who has a part in its drop.
LEMMA TouchedInvolved ==
  ASSUME NEW p, NEW m, Touched(p, m), Bot.op # "modify"
  PROVE  p \in InvolvedIn(Bot.drop) /\ m = Month[Bot.drop]
BY DEF Touched, InvolvedIn

\* Who has shares in other groups than the one at hand is given up.
LEMMA MissedOrTold ==
  ASSUME NEW d \in Drops, NEW ps, NEW p \in InvolvedIn(d), p \notin ps \cup {Receiver[d]}
  PROVE  <<p, Month[d]>> \in Missed(d, ps)
BY DEF InvolvedIn, Missed, At

LEMMA AfterHideScores ==
  ASSUME Types, Types', PhasesFit, BoardInv, AfterHide \/ AfterUnhide
  PROVE  CellsFit' /\ ReadersKnow'
<1>1. Follow
  BY DEF Follow
<1>2. PICK d \in Drops, g \in Groups : d = Bot.drop /\ g = Bot.group
  BY <1>1, FollowsOf
<1>. DEFINE rs == Tracked(d, g)
            ps == PlayersIn(rs)
            n == Month[d]
<1>3. Changing /\ Bot.op # "modify"
  BY <1>1, FollowsOf DEF AfterHide, AfterUnhide, At_
<1>4. UNCHANGED <<state, value, rows>> /\ off' = off \cup Missed(d, ps) /\ LastReceiver(d, ps)
  BY <1>2 DEF AfterHide, AfterUnhide, table, entries
<1>5. ps \in SUBSET Players
  <2>1. rs \subseteq rows
    BY DEF Tracked, RowsIn, RowsOf
  <2>. QED  BY <2>1, RowPlayers
<1>6. ASSUME NEW p \in Players, NEW m \in Months, Touched(p, m)
      PROVE  p \in ps \cup {Receiver[d]} \/ <<p, m>> \in off'
  <2>. HIDE DEF ps
  <2>. QED  BY <1>2, <1>3, <1>4, <1>6, TouchedInvolved, MissedOrTold
<1>7. PICK by : /\ board' = Scored(n, by) /\ DOMAIN by \subseteq {g}
                /\ g \in DOMAIN by => \A p \in Players : p \notin ps \cup {Receiver[d]} => by[g][p] = 0
  <2>1. CASE AfterHide
    <3>. DEFINE by == [h \in {g} \cap Tracking |-> Reversal(d, h, value[d])]
    <3>1. board' = Scored(n, by)
      BY <1>2, <2>1 DEF AfterHide
    <3>2. DOMAIN by \subseteq {g} /\ (g \in DOMAIN by => g \in Tracking /\ by[g] = Reversal(d, g, value[d]))
      OBVIOUS
    <3>3. g \in Tracking => ps = PlayersIn(RowsIn(d, g))
      BY DEF Tracked
    <3>. HIDE DEF by, ps, n
    <3>. QED  BY <3>1, <3>2, <3>3, ReversalNone
  <2>2. CASE AfterUnhide
    <3>. DEFINE by == [h \in {g} |-> Credits(d, rs, value[d])]
    <3>1. board' = Scored(n, by)
      BY <1>2, <2>2 DEF AfterUnhide
    <3>2. DOMAIN by = {g} /\ by[g] = Credits(d, rs, value[d])
      OBVIOUS
    <3>. HIDE DEF by, rs, n
    <3>. QED  BY <3>1, <3>2, CreditsNone
  <2>. QED  BY <2>1, <2>2
<1>. HIDE DEF ps
<1>8. ASSUME NEW m \in Months, NEW h \in Groups, NEW p \in Players, p \notin ps \cup {Receiver[d]}, board[m][h][p] \in Int
      PROVE  board'[m][h][p] = board[m][h][p]
  <2>1. n \in Months /\ BoardShape
    BY DEF Months, BoardInv
  <2>. HIDE DEF n
  <2>2. board'[m][h][p] = IF m = n /\ h \in DOMAIN by THEN board[m][h][p] + by[h][p] ELSE board[m][h][p]
    BY <1>7, <2>1, ScoredCells
  <2>. QED  BY <1>7, <1>8, <2>2
<1>. QED  BY <1>2, <1>3, <1>4, <1>5, <1>6, <1>8, TurnedScores

\* Every share of a drop is in a group the edit looks at.
LEMMA AfterEditScores ==
  ASSUME Types, Types', PhasesFit, BoardInv, AfterEdit
  PROVE  CellsFit' /\ ReadersKnow'
<1>1. Follow
  BY DEF Follow
<1>2. PICK d \in Drops : d = Bot.drop
  BY <1>1, FollowsOf
<1>. DEFINE gs == {g \in GroupsOf(Receiver[d]) : Tracked(d, g) # {}}
            ps == UNION {PlayersIn(RowsIn(d, g)) : g \in gs}
            n == Month[d]
            by == [g \in gs |->
                     LET new == Credits(d, Revalued(d, g), value[d])
                         old == Credits(d, RowsIn(d, g), OldWorth(RowsIn(d, g)))
                     IN [p \in Players |-> new[p] - old[p]]]
<1>3. Changing /\ Bot.op # "modify"
  BY <1>1, FollowsOf DEF AfterEdit, At_
<1>4. UNCHANGED <<state, value, off>> /\ FirstReceiver(d, ps, FALSE) /\ board' = Scored(n, by)
  BY <1>2 DEF AfterEdit, entries, history
<1>5. rows' = {r \in rows : ~(r.drop = d /\ r.group \in gs)} \cup UNION {Revalued(d, g) : g \in gs}
  BY <1>2 DEF AfterEdit
<1>6. ASSUME NEW g \in gs
      PROVE  /\ g \in Groups /\ PlayersIn(RowsIn(d, g)) \in SUBSET Players
             /\ PlayersIn(Revalued(d, g)) = PlayersIn(RowsIn(d, g))
             /\ PlayersIn(RowsIn(d, g)) \subseteq ps
             /\ \A r \in Revalued(d, g) : r.drop = d /\ r.player \in ps
  <2>1. g \in Groups /\ RowsIn(d, g) \subseteq rows
    BY DEF GroupsOf, RowsIn, RowsOf
  <2>2. PlayersIn(RowsIn(d, g)) \in SUBSET Players
    BY <2>1, RowPlayers
  <2>3. PlayersIn(Revalued(d, g)) = PlayersIn(RowsIn(d, g))
    BY <2>1, <2>2, SharesPlayers DEF Revalued, Types
  <2>4. \A r \in Revalued(d, g) : r.drop = d /\ r.player \in PlayersIn(RowsIn(d, g))
    BY DEF Revalued, Shares
  <2>. QED  BY <2>1, <2>2, <2>3, <2>4
<1>7. ps \in SUBSET Players
  BY <1>6
<1>8. ASSUME NEW r \in rows, r.drop = d PROVE r.group \in gs /\ r.player \in ps
  <2>1. r.group \in Tracking /\ r.group \in GroupsOf(Receiver[d])
    BY <1>8 DEF PhasesFit, RowFits
  <2>2. r \in RowsIn(d, r.group)
    BY <1>8 DEF RowsIn, RowsOf
  <2>3. r.group \in gs
    BY <2>1, <2>2 DEF Tracked
  <2>. QED  BY <2>2, <2>3 DEF PlayersIn
<1>9. ASSUME NEW p \in Players, NEW m \in Months, Touched(p, m) PROVE p \in ps \cup {Receiver[d]}
  <2>1. p \in InvolvedIn(d)
    BY <1>2, <1>3, <1>9, TouchedInvolved
  <2>. QED  BY <1>8, <2>1 DEF InvolvedIn, PlayersIn, RowsOf
<1>. HIDE DEF ps
<1>10. ASSUME NEW g \in gs, NEW p \in Players, p \notin ps \cup {Receiver[d]} PROVE by[g][p] = 0
  <2>1. p \notin PlayersIn(RowsIn(d, g)) /\ p \notin PlayersIn(Revalued(d, g)) /\ p # Receiver[d]
    BY <1>6, <1>10
  <2>2. /\ Credits(d, Revalued(d, g), value[d])[p] = 0
        /\ Credits(d, RowsIn(d, g), OldWorth(RowsIn(d, g)))[p] = 0
    BY <2>1, CreditsNone
  <2>3. by[g][p] = Credits(d, Revalued(d, g), value[d])[p] - Credits(d, RowsIn(d, g), OldWorth(RowsIn(d, g)))[p]
    OBVIOUS
  <2>. QED  BY <2>2, <2>3
<1>11. ASSUME NEW m \in Months, NEW h \in Groups, NEW p \in Players, p \notin ps \cup {Receiver[d]}, board[m][h][p] \in Int
       PROVE  board'[m][h][p] = board[m][h][p]
  <2>1. n \in Months /\ BoardShape /\ DOMAIN by = gs
    BY DEF Months, BoardInv
  <2>2. h \in gs => by[h][p] = 0
    BY <1>10, <1>11
  <2>. HIDE DEF n, by, gs
  <2>3. board'[m][h][p] = IF m = n /\ h \in DOMAIN by THEN board[m][h][p] + by[h][p] ELSE board[m][h][p]
    BY <1>4, <2>1, ScoredCells
  <2>. QED  BY <1>11, <2>1, <2>2, <2>3
<1>12. \A r \in rows \cup rows' : r.drop # d => (r \in rows <=> r \in rows')
  BY <1>5, <1>6
<1>13. \A r \in rows \cup rows' : r.drop = d => r.player \in ps
  BY <1>5, <1>6, <1>8
<1>. QED  BY <1>2, <1>3, <1>4, <1>7, <1>9, <1>11, <1>12, <1>13, TurnedScores

\* The drop is shared anew.
LEMMA AfterModifyScores ==
  ASSUME Types, Types', PhasesFit, BoardInv, AfterModify
  PROVE  CellsFit' /\ ReadersKnow'
<1>1. Follow
  BY DEF Follow
<1>2. PICK d \in Drops, g \in Groups : d = Bot.drop /\ g = Bot.group
  BY <1>1, FollowsOf
<1>. DEFINE sharers == IF g \in Tracking THEN Bot.names \cap Member[g] ELSE {}
            rs == Shares(d, g, sharers, value[d])
            ps == Bot.old \cup PlayersIn(rs)
            n == Month[d]
            by == [h \in {g} |-> Credits(d, rs, value[d])]
<1>3. Changing /\ Bot.op = "modify"
  BY <1>1, FollowsOf DEF AfterModify, At_
<1>4. /\ UNCHANGED <<state, value, off>> /\ board' = Scored(n, by) /\ rows' = rows \cup rs
      /\ \E open \in BOOLEAN : FirstReceiver(d, ps, open)
  BY <1>2 DEF AfterModify, entries, history
<1>5. sharers \in SUBSET Players /\ Bot.old \in SUBSET Players
  BY <1>3, ChangeJob
<1>6. PlayersIn(rs) = sharers /\ \A r \in rs : r.drop = d /\ r.player \in PlayersIn(rs)
  <2>. HIDE DEF sharers
  <2>1. PlayersIn(rs) = sharers
    BY <1>5, SharesPlayers DEF Types
  <2>. QED  BY <2>1 DEF Shares
<1>7. ps \in SUBSET Players
  BY <1>5, <1>6
<1>8. \A p, m : Touched(p, m) => p \in ps \cup {Receiver[d]}
  BY <1>2, <1>3 DEF Touched
<1>9. ASSUME NEW m \in Months, NEW h \in Groups, NEW p \in Players, p \notin ps \cup {Receiver[d]}, board[m][h][p] \in Int
      PROVE  board'[m][h][p] = board[m][h][p]
  <2>1. n \in Months /\ BoardShape /\ DOMAIN by = {g} /\ by[g] = Credits(d, rs, value[d])
    BY DEF Months, BoardInv
  <2>2. Credits(d, rs, value[d])[p] = 0
    <3>. HIDE DEF rs
    <3>. QED  BY <1>9, CreditsNone
  <2>. HIDE DEF n, by, rs, ps
  <2>3. board'[m][h][p] = IF m = n /\ h \in DOMAIN by THEN board[m][h][p] + by[h][p] ELSE board[m][h][p]
    BY <1>4, <2>1, ScoredCells
  <2>. QED  BY <1>9, <2>1, <2>2, <2>3
<1>10. /\ \A r \in rows \cup rows' : r.drop # d => (r \in rows <=> r \in rows')
       /\ \A r \in rows \cup rows' : r.drop = d /\ r.player \notin ps \cup {Receiver[d]} =>
            (r \in rows <=> r \in rows')
  BY <1>4, <1>6
<1>. HIDE DEF ps
<1>. QED  BY <1>2, <1>3, <1>4, <1>7, <1>8, <1>9, <1>10, TurnedScores

LEMMA EraseScores ==
  ASSUME Types, Types', PhasesFit, BoardInv, Erase
  PROVE  CellsFit' /\ ReadersKnow'
<1>1. Follow
  BY DEF Follow
<1>2. PICK d \in Drops : d = Bot.drop
  BY <1>1, FollowsOf
<1>. DEFINE ps == PlayersIn(RowsOf(d))
<1>3. Changing /\ Bot.op # "modify"
  <2>1. Changing /\ Bot.stage = "erase" /\ Bot.op = "delete"
    BY <1>1, FollowsOf DEF Erase, At_
  <2>. QED  BY <2>1
<1>4. UNCHANGED <<value, board, off>> /\ rows' = rows \ RowsOf(d) /\ FirstReceiver(d, ps, FALSE)
  BY <1>2 DEF Erase
<1>5. \A e \in Drops : e # d => state'[e] = state[e]
  BY <1>2 DEF Erase, Types, Entries
<1>6. ps \in SUBSET Players
  <2>1. RowsOf(d) \subseteq rows
    BY DEF RowsOf
  <2>. QED  BY <2>1, RowPlayers
<1>7. \A p, m : Touched(p, m) => p \in ps \cup {Receiver[d]}
  BY <1>2, <1>3 DEF Touched
<1>8. \A r \in rows : r.drop = d => r.player \in ps
  BY DEF PlayersIn, RowsOf
<1>9. \A r \in rows : r.drop # d => r \notin RowsOf(d)
  BY DEF RowsOf
<1>. HIDE DEF ps
<1>. QED  BY <1>2, <1>3, <1>4, <1>5, <1>6, <1>7, <1>8, <1>9, TurnedScores

\* A change stops short of its end.
LEMMA ChangeFailsScores ==
  ASSUME Types, Types', PhasesFit, BoardInv, ChangeFails
  PROVE  CellsFit' /\ ReadersKnow'
<1>. USE DEF BoardInv
<1>1. Follow
  BY DEF Follow
<1>2. PICK d \in Drops : d = Bot.drop
  BY <1>1, FollowsOf
<1>3. Changing
  BY <1>1, FollowsOf
<1>4. UNCHANGED <<state, value, rows, board>> /\ off' = off \cup At(Concerned(d) \cup Bot.old \cup Bot.names, d)
      /\ job' = [Disturbed(job, Concerned(d)) EXCEPT !["bot"] = IdleJob]
  BY <1>2 DEF ChangeFails, table, entries
<1>5. job'["bot"] = IdleJob /\ SameJob(job["updater"], job'["updater"], Concerned(d))
  BY <1>4, ChangeEnds
<1>6. \A p, m : ~Touched(p, m)'
  BY <1>5 DEF Touched, Changing, Bot, IdleJob, Stages
<1>7. \A p, m : Touched(p, m) => <<p, m>> \in off'
  <2>1. \A p, m : Touched(p, m) => m = Month[d] /\ p \in Concerned(d) \cup Bot.old
    BY <1>2 DEF Touched, Concerned
  <2>. QED  BY <1>4, <2>1 DEF At
<1>8. \A p, m, g : Spared(p, m, g)
  <2>1. \A r \in rows : r.drop \in Drops
    BY DEF Types, SplitRow
  <2>. QED  BY <1>4, <2>1 DEF Spared, RowsIn, RowsOf
<1>9. \A p : SparedAll(p)
  BY <1>4, <1>8 DEF SparedAll
<1>10. \A p, m, g : Fits(p, m, g) => Fits(p, m, g)'
  BY <1>8, SparedFits
<1>11. CellsFit'
  BY <1>3, <1>4, <1>5, <1>7, <1>10, FollowCells
<1>12. ReadersKnow'
  <2>1. job'["bot"].stage \notin {"read", "reset"}
    BY <1>5 DEF IdleJob
  <2>. QED  BY <1>5, <1>6, <1>9, <2>1, BotReaders
<1>. QED  BY <1>11, <1>12

\* The old shares are taken back; from now on their scores are wrong.
LEMMA StripScores ==
  ASSUME Types, Types', PhasesFit, BoardInv, Strip
  PROVE  CellsFit' /\ ReadersKnow'
<1>. USE DEF BoardInv
<1>1. Follow
  BY DEF Follow
<1>2. PICK d \in Drops, g \in Groups : d = Bot.drop /\ g = Bot.group
  BY <1>1, FollowsOf
<1>. DEFINE old == PlayersIn(Tracked(d, g))
            qs == old \cup {Receiver[d]}
            n == Month[d]
            by == [h \in {g} \cap Tracking |-> Reversal(d, h, value[d])]
<1>3. Changing /\ Bot.stage = "strip" /\ Bot.op = "modify"
  BY <1>1, FollowsOf DEF Strip, At_
<1>4. UNCHANGED <<state, value, off>> /\ rows' = rows \ Tracked(d, g) /\ board' = Scored(n, by)
      /\ job' = [Disturbed(job, Concerned(d)) EXCEPT !["bot"].stage = "credits", !["bot"].old = old]
  BY <1>2 DEF Strip, entries, history
<1>5. old \in SUBSET Players /\ qs \subseteq Concerned(d) /\ \A r \in Tracked(d, g) : r.drop = d /\ r.player \in old
  <2>1. Tracked(d, g) \subseteq rows
    BY DEF Tracked, RowsIn, RowsOf
  <2>2. old \in SUBSET Players
    BY <2>1, RowPlayers
  <2>. QED  BY <2>2 DEF Tracked, RowsIn, RowsOf, Concerned, PlayersIn
<1>. HIDE DEF old
<1>6. job'["bot"] = [Bot EXCEPT !.stage = "credits", !.old = old]
      /\ SameJob(job["updater"], job'["updater"], Concerned(d))
  BY <1>3, <1>4, <1>5, StripGoes
<1>7. Bot'.stage = "credits" /\ Bot'.op = "modify" /\ Bot'.drop = d /\ Bot'.old = old
  <2>1. Bot' = [Bot EXCEPT !.stage = "credits", !.old = old] /\ Bot \in ChangeJobs
    BY <1>3, <1>6, ChangeJob DEF Bot
  <2>. QED  BY <1>2, <1>3, <2>1 DEF ChangeJobs
<1>8. \A p, m : Touched(p, m)' <=> m = n /\ p \in qs
  BY <1>7 DEF Touched, Changing, Stages
<1>9. \A p, m : ~Touched(p, m)
  BY <1>3 DEF Touched
<1>10. ASSUME NEW m \in Months, NEW h \in Groups, NEW p \in Players, p \notin qs \/ m # n, board[m][h][p] \in Int
       PROVE  board'[m][h][p] = board[m][h][p]
  <2>1. n \in Months /\ DOMAIN by = {g} \cap Tracking /\ (g \in Tracking => by[g] = Reversal(d, g, value[d]))
    BY DEF Months
  <2>2. g \in Tracking /\ p \notin qs => Reversal(d, g, value[d])[p] = 0
    BY ReversalNone DEF old, Tracked
  <2>. HIDE DEF n, by, qs
  <2>3. board'[m][h][p] = IF m = n /\ h \in DOMAIN by THEN board[m][h][p] + by[h][p] ELSE board[m][h][p]
    BY <1>4, <2>1, ScoredCells
  <2>. QED  BY <1>10, <2>1, <2>2, <2>3
<1>11. ASSUME NEW p \in Players, NEW m \in Months, NEW h \in Groups, p \notin qs \/ m # n
       PROVE  Spared(p, m, h)
  <2>1. board[m][h][p] \in Int => board'[m][h][p] = board[m][h][p]
    BY <1>10, <1>11
  <2>2. p \notin qs => p # Receiver[d] /\ \A r \in rows \cup rows' : r.drop = d /\ r.player = p => (r \in rows <=> r \in rows')
    BY <1>4, <1>5
  <2>3. \A r \in rows \cup rows' : r.drop # d => (r \in rows <=> r \in rows')
    BY <1>4, <1>5
  <2>4. \A e \in Drops : state'[e] = state[e] /\ value'[e] = value[e]
    BY <1>4
  <2>. QED  BY <1>11, <2>1, <2>2, <2>3, <2>4, OneDropSpares
<1>12. ReadersKnow'
  <2>1. ASSUME NEW p \in Players, p \notin Concerned(d) PROVE SparedAll(p) /\ \A m \in Months : ~Touched(p, m)'
    BY <1>4, <1>5, <1>8, <1>11, <2>1 DEF SparedAll
  <2>2. job'["bot"].stage \notin {"read", "reset"}
    BY <1>7 DEF Bot
  <2>. QED  BY <1>6, <2>1, <2>2, BotReaders
<1>13. ASSUME NEW p \in Players, NEW m \in Months, NEW h \in Groups, Touched(p, m) \/ Fits(p, m, h)
       PROVE  Touched(p, m)' \/ Fits(p, m, h)'
  BY <1>8, <1>9, <1>11, <1>13, SparedFits
<1>14. CellsFit'
  <2>1. \A m \in Months, h \in Groups : \A p \in Member[h] : Touched(p, m) \/ Fits(p, m, h) =>
          Touched(p, m)' \/ Fits(p, m, h)'
    BY <1>13, SharingAssumption
  <2>. QED  BY <1>3, <1>4, <1>6, <2>1, FollowCells
<1>. QED  BY <1>12, <1>14

LEMMA FollowScores ==
  ASSUME Types, Types', PhasesFit, BoardInv, Follow
  PROVE  CellsFit' /\ ReadersKnow'
BY AfterHideScores, AfterEditScores, StripScores, AfterModifyScores, EraseScores, ChangeFailsScores DEF Follow

-----------------------------------------------------------------------------
(* Rebuilding scores.                                                      *)

\* What a step of one rebuild leaves of a score's excuse.
LEMMA ExcusedKept ==
  ASSUME Types, KeptChange, UNCHANGED rows, NEW a \in Actors, NEW ps,
         \A b \in Actors \ {a} : SameJob(job[b], job'[b], ps),
         NEW q, NEW m, Excused(q, m), <<q, m>> \in off => <<q, m>> \in off',
         a = "bot" /\ Awaited(q) => Awaited(q)',
         ~(job[a].stage = "reset" /\ job[a].player = q)
  PROVE  Excused(q, m)'
<1>1. Touched(q, m) => Touched(q, m)'
  <2>1. Changing => RowsOf(Bot.drop)' = RowsOf(Bot.drop)
    BY DEF KeptChange, Changing, RowsOf
  <2>. QED  BY <2>1, TouchedKept
<1>2. Awaited(q) => Awaited(q)'
  <2>1. CASE a = "bot"
    BY <2>1
  <2>2. CASE a # "bot"
    BY <2>2, AwaitedKept DEF Actors
  <2>. QED  BY <2>1, <2>2
<1>3. InReset(q, m) => InReset(q, m)'
  <2>1. SUFFICES ASSUME InReset(q, m) PROVE InReset(q, m)'
    OBVIOUS
  <2>2. PICK b \in Actors : job[b].stage = "reset" /\ job[b].player = q /\ m \in Reached(b)
    BY <2>1 DEF InReset
  <2>3. SameJob(job[b], job'[b], ps)
    BY <2>2
  <2>4. job'[b].stage = "reset" /\ job'[b].player = q /\ job'[b].own = job[b].own
    BY <2>2, <2>3 DEF SameJob
  <2>5. m \in Reached(b)'
    BY <2>2, <2>4 DEF Reached, MonthsOf
  <2>. QED  BY <2>4, <2>5 DEF InReset
<1>. QED  BY <1>1, <1>2, <1>3 DEF Excused

\* What it leaves to the other one.
LEMMA RebuildReaders ==
  ASSUME Types, Types', ReadersKnow, KeptChange, UNCHANGED <<rows, state, value>>,
         NEW a \in Actors, NEW ps, \A b \in Actors \ {a} : SameJob(job[b], job'[b], ps),
         \A m \in Months, g \in Groups, p \in Players : p \notin ps =>
           (board[m][g][p] \in Int => board'[m][g][p] = board[m][g][p]),
         job'[a].stage \in {"read", "reset"} => job'[a].player \in ps /\ (job'[a].clash \/ Undisturbed(a)')
  PROVE  ReadersKnow'
<1>1. SUFFICES ASSUME NEW b \in Actors \ {a}, job'[b].stage \in {"read", "reset"}, ~job'[b].clash
               PROVE  Undisturbed(b)'
  BY DEF ReadersKnow, Reading
<1>2. SameJob(job[b], job'[b], ps)
  BY <1>1
<1>3. Reading(b) /\ ~job[b].clash /\ job[b].player \notin ps
  BY <1>1, <1>2 DEF SameJob, Reading
<1>4. PICK p \in Players : p = job[b].player
  BY <1>3, ReadingJob DEF ReadingJobs
<1>5. Undisturbed(b)
  BY <1>3 DEF ReadersKnow
<1>6. \A m, g : RowsIn(m, g)' = RowsIn(m, g)
  BY DEF RowsIn, RowsOf
<1>7. \A r \in rows : r.drop \in Drops
  BY DEF Types, SplitRow
<1>8. \A m \in Months, g \in Groups : Spared(p, m, g)
  BY <1>3, <1>4, <1>6, <1>7 DEF Spared
<1>9. SparedAll(p)
  BY <1>8 DEF SparedAll
<1>10. \A m \in Months : ~Touched(p, m)'
  <2>1. Changing' => Bot' = Bot /\ Changing /\ RowsOf(Bot.drop)' = RowsOf(Bot.drop)
    BY DEF KeptChange, Changing, RowsOf
  <2>2. \A m \in Months : ~Touched(p, m)
    BY <1>4, <1>5 DEF Undisturbed
  <2>. QED  BY <2>1, <2>2 DEF Touched
<1>11. \A c \in Actors \ {b} : job'[c].stage \in {"read", "reset"} => job'[c].player # p
  <2>1. Actors \ {b} = {a}
    BY <1>1 DEF Actors
  <2>. QED  BY <1>3, <1>4, <2>1
<1>. QED  BY <1>1, <1>2, <1>3, <1>4, <1>5, <1>9, <1>10, <1>11, ReaderSpared

\* Scores of whom a rebuild is not about.
LEMMA SameCells ==
  ASSUME Types, Types', FiniteRows, UNCHANGED <<rows, state, value>>, NEW p, NEW m, NEW g,
         board[m][g][p] \in Int => board'[m][g][p] = board[m][g][p], Fits(p, m, g)
  PROVE  Fits(p, m, g)'
<1>1. \A d, h : RowsIn(d, h)' = RowsIn(d, h)
  BY DEF RowsIn, RowsOf
<1>2. Spared(p, m, g)
  BY <1>1 DEF Spared
<1>. QED  BY <1>2, SparedFits

LEMMA StartScores ==
  ASSUME Types, Types', BoardInv, NEW p \in Players, Start(p)
  PROVE  CellsFit' /\ ReadersKnow'
<1>. USE DEF BoardInv
<1>1. UNCHANGED <<rows, state, value, board, off>>
  BY DEF Start, table, entries, history
<1>2. job["updater"].stage = "idle" /\ job'["updater"].stage = "rebuild" /\ job'["bot"] = job["bot"]
  <2>1. job["updater"].stage = "idle" /\ job'["updater"] = Turn(<<p>>, FALSE, {})
        /\ job'["bot"] = job["bot"]
    BY StartMoves
  <2>. QED  BY <2>1 DEF Turn
<1>3. "updater" \in Actors /\ Actors \ {"updater"} = {"bot"}
  BY DEF Actors
<1>4. SameJob(job["bot"], job'["bot"], {})
  <2>1. Reading("bot") => job["bot"] \in ReadingJobs /\ job["bot"].clash \in BOOLEAN
    BY <1>3, ReadingJob DEF ReadingJobs
  <2>2. job["bot"].stage = "rebuild" => job["bot"] \in WaitingJobs
    BY <1>3, JobKinds DEF Types
  <2>. QED  BY <1>2, <2>1, <2>2 DEF SameJob, Reading
<1>5. KeptChange
  BY <1>2 DEF KeptChange, Bot
<1>6. ReadersKnow'
  BY <1>1, <1>2, <1>3, <1>4, <1>5, RebuildReaders
<1>7. \A q, m : Excused(q, m) => Excused(q, m)'
  BY <1>1, <1>2, <1>3, <1>4, <1>5, ExcusedKept
<1>8. \A q, m, g : Fits(q, m, g) => Fits(q, m, g)'
  BY <1>1, SameCells
<1>9. CellsFit'
  BY <1>7, <1>8 DEF CellsFit
<1>. QED  BY <1>6, <1>9

\* A rebuild reads drops and shares.
LEMMA ReadScores ==
  ASSUME Types, Types', BoardInv, NEW a \in Actors, NEW p \in Players, Read(a, p)
  PROVE  CellsFit' /\ ReadersKnow'
<1>. USE DEF BoardInv
<1>1. UNCHANGED <<rows, state, value, board, off>>
  BY DEF Read, table, entries, history
<1>2. job'[a] = ReadJob(a, p) /\ \A b \in Actors \ {a} : SameJob(job[b], job'[b], {p})
  BY ReadMoves
<1>3. job[a].stage = "rebuild" /\ job[a] \in WaitingJobs /\ p = Head(job[a].todo)
  BY JobKinds DEF Read, Types
<1>. DEFINE late == job[a].late
<1>4. job'[a].stage = "read" /\ job'[a].player = p /\ job'[a].todo = Tail(job[a].todo)
      /\ job'[a].own = {Snap(d) : d \in OwnDrops(p) \ late}
      /\ job'[a].shares = {r \in OwnShares(p) : r.drop \notin late}
      /\ job'[a].clash = (Overlaps(a, p) \/ InFlux(p) \/ \E d \in late : p \in Concerned(d))
  BY <1>2 DEF ReadJob, Snap
<1>5. KeptChange
  BY RebuildJobs DEF Rebuild
<1>6. ASSUME ~job'[a].clash PROVE Undisturbed(a)'
  <2>1. ~Overlaps(a, p) /\ ~InFlux(p) /\ \A d \in late : p \notin Concerned(d)
    BY <1>4, <1>6
  <2>0. OwnDrops(p) \ late = OwnDrops(p) /\ {r \in OwnShares(p) : r.drop \notin late} = OwnShares(p)
    <3>1. \A d \in OwnDrops(p) : p \in Concerned(d)
      BY DEF OwnDrops, Concerned
    <3>2. \A r \in OwnShares(p) : p \in Concerned(r.drop)
      BY DEF OwnShares, Concerned, PlayersIn, RowsOf
    <3>. QED  BY <2>1, <3>1, <3>2
  <2>2. \A d \in Drops : state[d] = "open" => Receiver[d] # p /\ p \notin PlayersIn(RowsOf(d))
    BY <2>1 DEF InFlux, Concerned
  <2>3. \A m : ~Touched(p, m)
    BY <2>1 DEF InFlux, Concerned, Touched, Changing, Stages
  <2>4. \A b \in Actors \ {a} : job'[b].stage \in {"read", "reset"} => job'[b].player # p
    <3>1. ASSUME NEW b \in Actors \ {a}, job'[b].stage \in {"read", "reset"} PROVE job'[b].player # p
      <4>1. SameJob(job[b], job'[b], {p})
        BY <1>2
      <4>2. job[b].stage \in {"read", "reset"} /\ job'[b].player = job[b].player
        BY <3>1, <4>1 DEF SameJob
      <4>. QED  BY <2>1, <4>2 DEF Overlaps
    <3>. QED  BY <3>1
  <2>5. \A m : ~Touched(p, m)'
    <3>1. Changing' => Bot' = Bot /\ Changing /\ RowsOf(Bot.drop)' = RowsOf(Bot.drop)
      BY <1>1, <1>5 DEF KeptChange, Changing, RowsOf
    <3>. QED  BY <2>3, <3>1 DEF Touched
  <2>6. OwnDrops(p)' = OwnDrops(p) /\ OwnShares(p)' = OwnShares(p)
    BY <1>1 DEF OwnDrops, OwnShares, Visible
  <2>7. \A d : Snap(d)' = Snap(d)
    BY <1>1 DEF Snap
  <2>8. job'[a].own = {Snap(d)' : d \in OwnDrops(p)'} /\ job'[a].shares = OwnShares(p)'
    BY <1>4, <2>0, <2>6, <2>7
  <2>9. \A d \in Drops : state'[d] = "open" => Receiver[d] # p /\ p \notin PlayersIn(RowsOf(d))'
    BY <1>1, <2>2 DEF PlayersIn, RowsOf
  <2>. QED  BY <1>4, <2>4, <2>5, <2>6, <2>8, <2>9 DEF Undisturbed, Reading
<1>7. ReadersKnow'
  BY <1>1, <1>2, <1>4, <1>5, <1>6, RebuildReaders
<1>8. ASSUME NEW q, a = "bot", Awaited(q) PROVE Awaited(q)'
  <2>1. job[a].todo \in Seq(Players) /\ job[a].todo # <<>>
    BY <1>3 DEF WaitingJobs
  <2>. DEFINE s == job[a].todo
  <2>2. q \in ToSet(s)
    BY <1>3, <1>8 DEF Awaited, Reading, Bot
  <2>. HIDE DEF s
  <2>3. s \in Seq(Players) /\ s # <<>>
    BY <2>1 DEF s
  <2>4. PICK i \in 1..Len(s) : s[i] = q
    BY <2>2 DEF ToSet
  <2>5. q = Head(s) \/ q \in ToSet(Tail(s))
    <3>1. CASE i = 1
      BY <2>3, <2>4, <3>1
    <3>2. CASE i # 1
      <4>1. i - 1 \in 1..Len(Tail(s)) /\ Tail(s)[i - 1] = q
        BY <2>3, <2>4, <3>2
      <4>2. Tail(s) \in Seq(Players)
        BY <2>3
      <4>3. DOMAIN Tail(s) = 1..Len(Tail(s))
        BY <4>2
      <4>4. q \in {Tail(s)[j] : j \in DOMAIN Tail(s)}
        BY <4>1, <4>3, Zenon
      <4>. QED  BY <4>4, Zenon DEF ToSet
    <3>. QED  BY <3>1, <3>2
  <2>6. q = p \/ q \in ToSet(job'[a].todo)
    BY <1>3, <1>4, <2>5 DEF s
  <2>. QED  BY <1>4, <1>8, <2>6 DEF Awaited, Reading, Bot
<1>9. \A q, m : Excused(q, m) => Excused(q, m)'
  BY <1>1, <1>2, <1>3, <1>5, <1>8, ExcusedKept
<1>10. \A q, m, g : Fits(q, m, g) => Fits(q, m, g)'
  BY <1>1, SameCells
<1>11. CellsFit'
  BY <1>9, <1>10 DEF CellsFit
<1>. QED  BY <1>7, <1>11

\* It writes what a player's own drops are worth.
LEMMA ResetScores ==
  ASSUME Types, Types', BoardInv, NEW a \in Actors, Reset(a)
  PROVE  CellsFit' /\ ReadersKnow'
<1>. USE DEF BoardInv
<1>1. UNCHANGED <<rows, state, value, off>> /\ job[a].stage = "read"
  BY DEF Reset, table, entries, history
<1>2. job[a] \in ReadingJobs
  BY <1>1, ReadingJob DEF Reading
<1>3. PICK p \in Players : p = job[a].player
  BY <1>2 DEF ReadingJobs
<1>4. job'[a] = [job[a] EXCEPT !.stage = "reset"] /\ \A b \in Actors \ {a} : SameJob(job[b], job'[b], {p})
  BY <1>3, ResetMoves
<1>5. job'[a].stage = "reset" /\ job'[a].player = p /\ job'[a].todo = job[a].todo
      /\ job'[a].own = job[a].own /\ job'[a].shares = job[a].shares /\ job'[a].clash = job[a].clash
  BY <1>2, <1>3, <1>4 DEF ReadingJobs
<1>6. KeptChange
  BY RebuildJobs DEF Rebuild
<1>7. \A m \in Months, g \in Groups, q \in Players :
        board'[m][g][q] = IF q = p /\ g \in GroupsOf(q) /\ m \in Reached(a)
                          THEN Sum(job[a].own, m) ELSE board[m][g][q]
  BY <1>3, ResetCells DEF Reached
<1>8. Reached(a)' = Reached(a) /\ Reached(a) \subseteq Months
  <2>1. MonthsOf(job[a].own) \subseteq Months
    BY <1>2 DEF ReadingJobs, MonthsOf, Snapshot
  <2>. QED  BY <1>5, <2>1 DEF Reached, Months, MonthsOf
<1>9. ASSUME ~job'[a].clash PROVE Undisturbed(a)'
  <2>1. Undisturbed(a)
    BY <1>1, <1>5, <1>9 DEF ReadersKnow, Reading
  <2>2. \A d \in Drops : state'[d] = "open" => Receiver[d] # p /\ p \notin PlayersIn(RowsOf(d))'
    BY <1>1, <1>3, <2>1 DEF Undisturbed, PlayersIn, RowsOf
  <2>3. \A m \in Months : ~Touched(p, m)'
    <3>1. Changing' => Bot' = Bot /\ Changing /\ RowsOf(Bot.drop)' = RowsOf(Bot.drop)
      BY <1>1, <1>6 DEF KeptChange, Changing, RowsOf
    <3>2. \A m \in Months : ~Touched(p, m)
      BY <1>3, <2>1 DEF Undisturbed
    <3>. QED  BY <3>1, <3>2 DEF Touched
  <2>4. ASSUME NEW b \in Actors \ {a}, job'[b].stage \in {"read", "reset"} PROVE job'[b].player # p
    <3>1. SameJob(job[b], job'[b], {p})
      BY <1>4
    <3>2. Reading(b) /\ job'[b].player = job[b].player
      BY <2>4, <3>1 DEF SameJob, Reading
    <3>. QED  BY <1>3, <2>1, <3>2 DEF Undisturbed
  <2>5. OwnDrops(p)' = OwnDrops(p) /\ OwnShares(p)' = OwnShares(p) /\ \A d : Snap(d)' = Snap(d)
    BY <1>1 DEF OwnDrops, OwnShares, Visible, Snap
  <2>6. job'[a].own = {Snap(d)' : d \in OwnDrops(p)'} /\ job'[a].shares = OwnShares(p)'
    BY <1>3, <1>5, <2>1, <2>5 DEF Undisturbed
  <2>7. \A g \in GroupsOf(p), m \in Reached(a) : board'[m][g][p] = Sum(job'[a].own, m)
    BY <1>5, <1>7, <1>8 DEF GroupsOf
  <2>8. Reading(a)' /\ GroupsOf(p)' = GroupsOf(p)
    BY <1>5 DEF Reading, GroupsOf
  <2>9. \A g \in GroupsOf(p)', m \in Reached(a)' : board'[m][g][p] = Sum(job[a].own, m)'
    BY <1>8, <2>7, <2>8 DEF Sum, Worths
  <2>. QED  BY <1>5, <2>2, <2>3, <2>4, <2>6, <2>8, <2>9 DEF Undisturbed, Reading
<1>10. ReadersKnow'
  <2>. DEFINE qs == {p}
  <2>1. \A m \in Months, g \in Groups, q \in Players : q \notin qs =>
          (board[m][g][q] \in Int => board'[m][g][q] = board[m][g][q])
    BY <1>7
  <2>2. job'[a].player \in qs /\ (job'[a].clash \/ Undisturbed(a)')
    BY <1>5, <1>9
  <2>3. \A b \in Actors \ {a} : SameJob(job[b], job'[b], qs)
    BY <1>4
  <2>. HIDE DEF qs
  <2>. QED  BY <1>1, <1>6, <2>1, <2>2, <2>3, RebuildReaders
<1>11. ASSUME NEW q, a = "bot", Awaited(q) PROVE Awaited(q)'
  <2>1. q \in ToSet(job[a].todo) \/ q = p
    BY <1>3, <1>11 DEF Awaited, Bot
  <2>. QED  BY <1>5, <1>11, <2>1 DEF Awaited, Bot, Reading
<1>12. \A q, m : Excused(q, m) => Excused(q, m)'
  BY <1>1, <1>4, <1>6, <1>11, ExcusedKept
<1>13. ASSUME NEW m \in Months, NEW g \in Groups, NEW q \in Member[g], Fits(q, m, g)
       PROVE  Excused(q, m)' \/ Fits(q, m, g)'
  <2>1. q \in Players
    BY SharingAssumption
  <2>2. CASE q = p /\ m \in Reached(a)
    BY <1>5, <1>8, <2>2 DEF Excused, InReset
  <2>3. CASE ~(q = p /\ m \in Reached(a))
    BY <1>1, <1>7, <1>13, <2>1, <2>3, SameCells
  <2>. QED  BY <2>2, <2>3
<1>14. CellsFit'
  BY <1>12, <1>13 DEF CellsFit
<1>. QED  BY <1>10, <1>14

\* A turn of a rebuild ends: what it leaves of others' scores.
LEMMA TurnScores ==
  ASSUME Types, Types', BoardInv, NEW a \in Actors, AddShares(a) \/ RebuildFails(a),
         \A m \in Months, g \in Groups, q \in Players : q # job[a].player => board'[m][g][q] = board[m][g][q],
         \A q, m : q # job[a].player => (<<q, m>> \in off => <<q, m>> \in off')
  PROVE  /\ ReadersKnow'
         /\ \A m \in Months, g \in Groups : \A q \in Member[g] : q # job[a].player => Excused(q, m)' \/ Fits(q, m, g)'
<1>. USE DEF BoardInv
<1>1. UNCHANGED <<rows, state, value>>
  BY DEF AddShares, RebuildFails, table, entries
<1>2. Reading(a) /\ \A b \in Actors \ {a} : SameJob(job[b], job'[b], {job[a].player})
  BY TurnEnds
<1>3. PICK open \in BOOLEAN : job'[a] = AfterTurn(job[a], open)
  BY TurnEnds
<1>4. job'[a].stage \notin {"read", "reset"} /\ (job[a].todo # <<>> => job'[a].stage = "rebuild" /\ job'[a].todo = job[a].todo)
  BY <1>3 DEF AfterTurn, Turn, IdleJob
<1>5. KeptChange
  BY RebuildJobs DEF Rebuild
<1>6. ReadersKnow'
  <2>. DEFINE qs == {job[a].player}
  <2>1. \A m \in Months, g \in Groups, q \in Players : q \notin qs =>
          (board[m][g][q] \in Int => board'[m][g][q] = board[m][g][q])
    OBVIOUS
  <2>2. \A b \in Actors \ {a} : SameJob(job[b], job'[b], qs)
    BY <1>2
  <2>. HIDE DEF qs
  <2>. QED  BY <1>1, <1>4, <1>5, <2>1, <2>2, RebuildReaders
<1>7. ASSUME NEW m \in Months, NEW g \in Groups, NEW q \in Member[g], q # job[a].player
      PROVE  Excused(q, m)' \/ Fits(q, m, g)'
  <2>1. q \in Players
    BY SharingAssumption
  <2>2. a = "bot" /\ Awaited(q) => Awaited(q)'
    <3>1. SUFFICES ASSUME a = "bot", Awaited(q) PROVE Awaited(q)'
      OBVIOUS
    <3>2. q \in ToSet(job[a].todo)
      BY <1>7, <3>1 DEF Awaited, Bot
    <3>3. job[a].todo # <<>>
      BY <3>2 DEF ToSet
    <3>. QED  BY <1>4, <3>1, <3>2, <3>3 DEF Awaited, Bot
  <2>3. CASE Excused(q, m)
    BY <1>1, <1>2, <1>5, <1>7, <2>2, <2>3, ExcusedKept
  <2>4. CASE Fits(q, m, g)
    BY <1>1, <1>7, <2>1, <2>4, SameCells
  <2>. QED  BY <2>3, <2>4 DEF CellsFit
<1>. QED  BY <1>6, <1>7

LEMMA RebuildFailsScores ==
  ASSUME Types, Types', BoardInv, NEW a \in Actors, RebuildFails(a)
  PROVE  CellsFit' /\ ReadersKnow'
<1>1. UNCHANGED board /\ off' = off \cup ({job[a].player} \X Months)
  BY DEF RebuildFails
<1>2. /\ ReadersKnow'
      /\ \A m \in Months, g \in Groups : \A q \in Member[g] : q # job[a].player => Excused(q, m)' \/ Fits(q, m, g)'
  BY <1>1, TurnScores
<1>3. \A m \in Months : <<job[a].player, m>> \in off'
  BY <1>1
<1>. QED  BY <1>2, <1>3 DEF CellsFit, Excused

\* The scores a rebuild that nobody disturbed has written, and those it left.
LEMMA RebuiltCell ==
  ASSUME Types, Types', PhasesFit, BoardInv, NEW a \in Actors, AddShares(a), Undisturbed(a),
         NEW p \in Players, p = job[a].player, NEW m \in Months, NEW g \in GroupsOf(p),
         m \notin Reached(a) => board'[m][g][p] = 0,
         m \notin Reached(a) \/ job[a].own = {} => \A r \in job[a].shares : Month[r.drop] # m
  PROVE  Fits(p, m, g)'
<1>. USE DEF BoardInv
<1>. DEFINE j == job[a]
            S == {r \in j.shares : Month[r.drop] = m /\ r.group = g}
<1>1. UNCHANGED <<rows, state, value>> /\ j.stage = "reset"
  BY DEF AddShares, table, entries
<1>2. j.own = {Snap(d) : d \in OwnDrops(p)} /\ j.shares = OwnShares(p)
  BY DEF Undisturbed
<1>3. \A d \in Drops : state[d] = "open" => Receiver[d] # p /\ p \notin PlayersIn(RowsOf(d))
  BY DEF Undisturbed
<1>4. OwnIn(p, m) = {d \in OwnDrops(p) : Month[d] = m}
  BY <1>3 DEF OwnIn, OwnDrops, Counted, Visible
<1>5. SharesIn(p, m, g) = S
  <2>1. \A r \in rows : r.group \in Tracking /\ r.drop \in Drops
    BY DEF PhasesFit, RowFits, Types, SplitRow
  <2>2. \A r \in rows : r.player = p => state[r.drop] # "open"
    BY <1>3, <2>1 DEF PlayersIn, RowsOf
  <2>. QED  BY <1>2, <2>1, <2>2 DEF SharesIn, OwnShares, Counted, Visible
<1>6. Sum(j.own, m) = Total(OwnIn(p, m), value) /\ Sum(j.own, m) \in Int
  BY <1>2, <1>4, OwnSum
<1>7. board'[m][g][p] = Total(OwnIn(p, m), value) + Worths(SharesIn(p, m, g))
  <2>1. CASE m \notin Reached(a)
    <3>1. OwnIn(p, m) = {}
      <4>1. \A d \in OwnDrops(p) : Month[d] \in Reached(a)
        <5>1. \A d \in OwnDrops(p) : Snap(d) \in j.own /\ Snap(d).month = Month[d]
          BY <1>2 DEF Snap
        <5>. QED  BY <5>1 DEF Reached, MonthsOf
      <4>. QED  BY <1>4, <2>1, <4>1
    <3>2. SharesIn(p, m, g) = {}
      BY <1>5, <2>1
    <3>3. Total({}, value) = 0 /\ Worths({}) = 0
      BY TotalEmpty, WorthsEmpty
    <3>. QED  BY <2>1, <3>1, <3>2, <3>3
  <2>2. CASE m \in Reached(a)
    <3>1. g \in Groups
      BY DEF GroupsOf
    <3>2. board[m][g][p] = Sum(j.own, m)
      BY <1>1, <2>2 DEF Undisturbed
    <3>3. board'[m][g][p] = board[m][g][p] + Given(j, m, g)
      BY <3>1, AddCells
    <3>4. Given(j, m, g) = Worths(S)
      <4>1. CASE j.own = {}
        <5>1. S = {} /\ {r \in Applied(j) : Month[r.drop] = m /\ r.group = g} = {}
          BY <4>1 DEF Applied
        <5>. QED  BY <5>1 DEF Given
      <4>2. CASE j.own # {}
        BY <4>2 DEF Given, Applied
      <4>. QED  BY <4>1, <4>2
    <3>. QED  BY <1>5, <1>6, <3>2, <3>3, <3>4
  <2>. QED  BY <2>1, <2>2
<1>8. OwnIn(p, m)' = OwnIn(p, m) /\ SharesIn(p, m, g)' = SharesIn(p, m, g)
  BY <1>1 DEF OwnIn, SharesIn, Counted
<1>9. Total({}, Lows(g)') = 0 /\ Total(OwnIn(p, m), value) \in Int /\ Worths(SharesIn(p, m, g)) \in Int
  <2>1. SharesIn(p, m, g) \subseteq rows /\ OwnIn(p, m) \in SUBSET Drops
    BY DEF SharesIn, OwnIn
  <2>. QED  BY <2>1, TotalEmpty, OwnSummable, SharesFinite
<1>10. board'[m][g][p] = Total(OwnIn(p, m)', value') + Worths(SharesIn(p, m, g)') - Total({}, Lows(g)')
  BY <1>1, <1>7, <1>8, <1>9
<1>. QED  BY <1>10 DEF Fits, Worths

LEMMA AddSharesScores ==
  ASSUME Types, Types', PhasesFit, BoardInv, NEW a \in Actors, AddShares(a)
  PROVE  CellsFit' /\ ReadersKnow'
<1>. USE DEF BoardInv
<1>1. Reading(a) /\ job[a] \in ReadingJobs
  BY ReadingJob, TurnEnds
<1>2. PICK p \in Players : p = job[a].player
  BY <1>1 DEF ReadingJobs
<1>. DEFINE reached == MonthsOf(job[a].own) \cup {Now}
            stale == {m \in Months :
              \/ m \notin reached /\ \E g \in Groups : board'[m][g][p] # 0
              \/ (m \notin reached \/ job[a].own = {}) /\ \E r \in job[a].shares : Month[r.drop] = m}
<1>3. off' = (off \ ({p} \X reached)) \cup ({p} \X (IF job[a].clash THEN Months ELSE stale))
  BY <1>2 DEF AddShares
<1>4. /\ ReadersKnow'
      /\ \A m \in Months, g \in Groups : \A q \in Member[g] : q # p => Excused(q, m)' \/ Fits(q, m, g)'
  <2>1. \A m \in Months, g \in Groups, q \in Players : q # job[a].player => board'[m][g][q] = board[m][g][q]
    BY AddCells
  <2>2. \A q, m : q # job[a].player => (<<q, m>> \in off => <<q, m>> \in off')
    BY <1>2, <1>3
  <2>. QED  BY <1>2, <2>1, <2>2, TurnScores
<1>5. ASSUME NEW m \in Months, NEW g \in Groups, p \in Member[g]
      PROVE  <<p, m>> \in off' \/ Fits(p, m, g)'
  <2>1. CASE job[a].clash
    BY <1>3, <2>1
  <2>2. CASE ~job[a].clash /\ m \in stale
    BY <1>3, <2>2
  <2>3. CASE ~job[a].clash /\ m \notin stale
    <3>1. Undisturbed(a)
      BY <1>1, <2>3 DEF ReadersKnow
    <3>2. g \in GroupsOf(p)
      BY <1>5 DEF GroupsOf
    <3>3. m \notin Reached(a) => board'[m][g][p] = 0
      BY <2>3 DEF Reached
    <3>4. m \notin Reached(a) \/ job[a].own = {} => \A r \in job[a].shares : Month[r.drop] # m
      BY <2>3 DEF Reached
    <3>. QED  BY <1>2, <3>1, <3>2, <3>3, <3>4, RebuiltCell
  <2>. QED  BY <2>1, <2>2, <2>3
<1>6. CellsFit'
  BY <1>4, <1>5 DEF CellsFit, Excused
<1>. QED  BY <1>4, <1>6

LEMMA RebuildScores ==
  ASSUME Types, Types', PhasesFit, BoardInv, Rebuild
  PROVE  CellsFit' /\ ReadersKnow'
BY StartScores, ReadScores, ResetScores, AddSharesScores, RebuildFailsScores DEF Rebuild

LEMMA ArrivalScores ==
  ASSUME Types, Types', PhasesFit, PhasesFit', BoardInv, FiniteRows', Arrival
  PROVE  CellsFit' /\ ReadersKnow'
BY SubmitScores, ShareOutScores, ShareFailsScores, CommitScores, RollBackScores DEF Arrival

LEMMA NoScores ==
  ASSUME Types, Types', BoardInv, UNCHANGED vars
  PROVE  CellsFit' /\ ReadersKnow'
BY NothingScored DEF vars

LEMMA BoardStep ==
  ASSUME Types, PhasesFit, BoardInv, [Next]_vars
  PROVE  BoardInv'
<1>1. Types' /\ PhasesFit'
  BY NextTypes, PhasesStep
<1>2. FiniteRows' /\ BoardShape'
  BY FiniteStep, ShapeStep DEF BoardInv
<1>3. CellsFit' /\ ReadersKnow'
  <2>1. CASE Arrival
    BY <1>1, <1>2, <2>1, ArrivalScores
  <2>2. CASE \E o \in Others : Achieve(o)
    BY <1>1, <2>2, AchieveScores
  <2>3. CASE Change
    <3>1. PICK d \in Drops, g \in Groups :
            \/ StartHide(d, g) \/ Hide(d, g) \/ HideNothing(d, g) \/ Unhide(d, g) \/ Delete(d, g)
            \/ \E v \in Values \ {value[d]} : Edit(d, g, v)
            \/ \E ps \in Namings : ModifySplits(d, g, ps)
      BY <2>3 DEF Change
    <3>2. (\E v \in Values \ {value[d]} : Edit(d, g, v)) => \E v \in Values : Edit(d, g, v)
      OBVIOUS
    <3>. QED  BY <1>1, <3>1, <3>2, ChangeScores
  <2>4. CASE Follow
    BY <1>1, <2>4, FollowScores
  <2>5. CASE Rebuild
    BY <1>1, <2>5, RebuildScores
  <2>6. CASE UNCHANGED vars
    BY <1>1, <2>6, NoScores
  <2>. QED  BY <2>1, <2>2, <2>3, <2>4, <2>5, <2>6 DEF Next
<1>. QED  BY <1>2, <1>3 DEF BoardInv

LEMMA InitBoards ==
  ASSUME Init
  PROVE  BoardInv
<1>1. rows = {} /\ value = Worth /\ Bot = IdleJob /\ \A a \in Actors : job[a] = IdleJob
  BY DEF Init, Bot, Actors
<1>2. FiniteRows
  BY <1>1, FS_EmptySet DEF FiniteRows
<1>3. ReadersKnow
  BY <1>1 DEF ReadersKnow, Reading, IdleJob
<1>4. board = [m \in Months |-> [g \in Groups |-> [p \in Players |->
       Total({d \in Drops : state[d] = "stored" /\ Month[d] = m /\ Receiver[d] = p /\ p \in Member[g]}, value)]]]
  BY DEF Init
<1>5. BoardShape
  BY <1>4 DEF BoardShape
<1>6. ASSUME NEW m \in Months, NEW g \in Groups, NEW p \in Member[g]
      PROVE  Fits(p, m, g)
  <2>1. p \in Players
    BY SharingAssumption
  <2>2. board[m][g][p] =
          Total({d \in Drops : state[d] = "stored" /\ Month[d] = m /\ Receiver[d] = p /\ p \in Member[g]}, value)
    BY <1>4, <2>1
  <2>3. {d \in Drops : state[d] = "stored" /\ Month[d] = m /\ Receiver[d] = p /\ p \in Member[g]} = OwnIn(p, m)
    <3>1. \A d \in Drops : state[d] # "open"
      BY DEF Init, Entries
    <3>. QED  BY <1>6, <3>1 DEF OwnIn, Counted
  <2>4. SharesIn(p, m, g) = {} /\ Worths({}) = 0 /\ Total({}, Lows(g)) = 0
    BY <1>1, WorthsEmpty, TotalEmpty DEF SharesIn
  <2>5. Total(OwnIn(p, m), value) \in Int
    <3>1. Types
      BY InitPhases
    <3>2. OwnIn(p, m) \in SUBSET Drops
      BY DEF OwnIn
    <3>. QED  BY <3>1, <3>2, OwnSummable
  <2>6. board[m][g][p] = Total(OwnIn(p, m), value)
    BY <2>2, <2>3
  <2>7. Worths(SharesIn(p, m, g)) = 0
    BY <2>4
  <2>8. board[m][g][p] = Total(OwnIn(p, m), value) + Worths(SharesIn(p, m, g)) - Total({}, Lows(g))
    BY <2>4, <2>5, <2>6, <2>7
  <2>. QED  BY <2>8 DEF Fits
<1>7. CellsFit
  BY <1>6 DEF CellsFit
<1>. QED  BY <1>2, <1>3, <1>5, <1>7 DEF BoardInv

\* What BoardsAddUp says of one score.
AddsUp(p, m, g) ==
  LET own == {d \in Drops : Visible(d) /\ Receiver[d] = p /\ Month[d] = m}
      shares == {r \in rows : /\ r.player = p /\ r.group = g /\ g \in Tracking
                              /\ Visible(r.drop) /\ Month[r.drop] = m}
  IN \/ <<p, m>> \in off
     \/ \E lowered \in SUBSET own :
          board[m][g][p] = Total(own, value) + Worths(shares)
                           - Total(lowered, [d \in lowered |-> Lowered(RowsIn(d, g), value[d])])

\* When nothing is under way, a member's score on his group's board of a month
\* is the worth of his drops to be seen and of his shares in others', less what
\* some of his own shared drops were lowered by, unless it was left off.
THEOREM BoardsFit == Spec => []BoardsAddUp
<1>. DEFINE IInv == Types /\ PhasesFit /\ BoardInv
<1>1. Init => IInv
  BY InitPhases, InitBoards
<1>2. IInv /\ [Next]_vars => IInv'
  BY NextTypes, PhasesStep, BoardStep
<1>3. IInv => BoardsAddUp
  <2>0. SUFFICES ASSUME IInv, Quiet, NEW m \in Months, NEW g \in Groups, NEW p \in Member[g]
                 PROVE  AddsUp(p, m, g)
    BY DEF BoardsAddUp, AddsUp
  <2>1. SUFFICES ASSUME <<p, m>> \notin off PROVE AddsUp(p, m, g)
    BY DEF AddsUp
  <2>. DEFINE own == {d \in Drops : Visible(d) /\ Receiver[d] = p /\ Month[d] = m}
              shares == {r \in rows : /\ r.player = p /\ r.group = g /\ g \in Tracking
                                      /\ Visible(r.drop) /\ Month[r.drop] = m}
              low(lowered) == [d \in lowered |-> Lowered(RowsIn(d, g), value[d])]
  <2>2. \A a \in Actors : job[a].stage = "idle"
    BY <2>0 DEF Quiet
  <2>3. Bot.stage = "idle"
    BY <2>2 DEF Bot, Actors
  <2>4. ~Excused(p, m)
    BY <2>1, <2>2, <2>3 DEF Excused, Touched, Awaited, InReset, Changing, Stages, Reading, Bot
  <2>5. Fits(p, m, g)
    BY <2>0, <2>4 DEF BoardInv, CellsFit
  <2>6. \A d \in Drops : Counted(d) <=> Visible(d)
    BY <2>0 DEF Quiet, Counted, Visible
  <2>7. own = OwnIn(p, m)
    BY <2>6 DEF OwnIn
  <2>8. shares = SharesIn(p, m, g)
    <3>1. \A r \in rows : r.drop \in Drops /\ r.group \in Tracking
      BY <2>0 DEF Types, SplitRow, PhasesFit, RowFits
    <3>. QED  BY <2>6, <3>1 DEF SharesIn
  <2>9. PICK lowered \in SUBSET own : board[m][g][p] = Total(own, value) + Worths(shares) - Total(lowered, Lows(g))
    BY <2>5, <2>7, <2>8 DEF Fits
  <2>10. Total(lowered, Lows(g)) = Total(lowered, low(lowered))
    <3>1. lowered \in SUBSET Drops
      OBVIOUS
    <3>2. \A d \in lowered : Lows(g)[d] = low(lowered)[d]
      BY <3>1 DEF Lows
    <3>3. Summable(lowered, Lows(g))
      BY <2>0, <3>1, LowsSummable
    <3>. HIDE DEF low
    <3>. QED  BY <3>2, <3>3, TotalSame
  <2>. QED  BY <2>9, <2>10 DEF AddsUp
<1>. QED  BY <1>1, <1>2, <1>3, PTL DEF Spec
=============================================================================
