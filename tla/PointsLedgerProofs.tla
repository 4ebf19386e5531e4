------------------------- MODULE PointsLedgerProofs -------------------------
(***************************************************************************)
(* The ledger balances for any number of sessions, credits and grants.     *)
(* The invariant says of a purchase at work that the rows it holds are as  *)
(* it read them and are held by nobody else, and that it went through them *)
(* in order; of a monthly run, that what it holds was due when it read it. *)
(***************************************************************************)
EXTENDS PointsLedger, SequenceTheorems, FiniteSetTheorems, WellFoundedInduction, TLAPS

CreditRow ==
  [player : Players \cup {None}, group : Groups \cup {None}, amount : Nat, remaining : Nat,
   expires : Nat, status : {"active", "expired", "revoked"}, revoked : BOOLEAN]
GrantRow == [ref : Refs, amount : Nat, status : {"active", "cancelled"}, last : Nat, due : Nat]

Tables ==
  /\ credits \in Seq(CreditRow) /\ allocated \in Seq(Nat)
  /\ Len(allocated) = Len(credits)
  /\ grants \in Seq(GrantRow)
  /\ now \in Nat
  /\ tx = [w \in Workers |-> tx[w]]

Holds(w) ==
  LET t == tx[w] IN
  t.stage = "taking" =>
    /\ t \in [stage : {"taking"}, rows : SUBSET Ids, next : SUBSET t.rows, at : Nat,
              cost : Nat, left : Nat, seen : [t.rows -> Nat], taken : [t.rows -> Nat]]
    /\ \A c \in t.rows : /\ t.taken[c] <= t.seen[c] /\ t.seen[c] = credits[c].remaining
                         /\ c \in t.next \/ HasExpired(c, t.at) => t.taken[c] = 0
    /\ Total(t.rows, t.taken) + t.left = t.cost
    /\ \A c \in Met(t), d \in t.next : Sooner(c, d)
    /\ \A d \in Met(t) : ~HasExpired(d, t.at) /\ t.taken[d] < t.seen[d] =>
         t.left = 0 /\ \A c \in Met(t) : t.taken[c] > 0 => c = d \/ Sooner(c, d)

Means(w) ==
  LET t == tx[w] IN
  /\ t.stage = "asking" => t.cost \in Nat
  /\ t.stage = "ensuring" => /\ t.ref \in Refs /\ t.amount \in Nat
                             /\ t.id = 0 \/ t.id \in GrantIds

WasDue(w) ==
  LET t == tx[w] IN
  t.stage = "granting" =>
    /\ t \in [stage : {"granting"}, order : Seq(GrantIds), at : Nat, clash : SUBSET GrantIds,
              amount : [1..Len(t.order) -> Nat]]
    /\ \A i \in Held(t) : \/ grants[i].last = Never \/ t.at >= grants[i].last + Month
                          \/ i \in hurried \/ i \in t.clash

Schedule ==
  \A i \in GrantIds : \/ grants[i].last = Never \/ grants[i].due = Never
                      \/ i \in hurried \/ grants[i].due >= grants[i].last + Month

Inv ==
  /\ Tables
  /\ CreditsBalance
  /\ Schedule
  /\ \A v, w \in Workers : v # w => Locked(v) \cap Locked(w) = {}
  /\ \A w \in Workers : Holds(w) /\ Means(w) /\ WasDue(w)

-----------------------------------------------------------------------------
(* Sums over finite sets.                                                  *)

Some(S) == CHOOSE x \in S : TRUE

\* One step of the sum.
Body(it, f, s) == IF s = {} THEN 0 ELSE f[Some(s)] + it[s \ {Some(s)}]

Summable(S, f) == IsFiniteSet(S) /\ \A x \in S : f[x] \in Int

IsSum(it, f, S) == it = [s \in SUBSET S |-> Body(it, f, s)]

SumOver(it, S, f) == it \in [SUBSET S -> Int] /\ IsSum(it, f, S)

LEMMA NatSet ==
  ASSUME NEW T, 0 \in T, \A n \in Nat : n \in T => n + 1 \in T
  PROVE  Nat \subseteq T
<1>. DEFINE Less == {p \in Nat \X Nat : p[1] < p[2]}
<1>1. IsWellFoundedOn(Less, Nat)
  BY NatLessThanWellFounded DEF OpToRel
<1>2. SUFFICES ASSUME Nat \ T # {} PROVE FALSE
  OBVIOUS
<1>3. PICK m \in Nat \ T : \A n \in Nat \ T : ~(<<n, m>> \in Less)
  BY <1>1, <1>2, WFMin, Nat \ T \subseteq Nat
<1>4. m # 0 /\ m \in Nat
  BY <1>3
<1>5. m - 1 \in Nat /\ m = (m - 1) + 1 /\ m - 1 < m
  BY <1>4
<1>6. m - 1 \in T
  <2>1. SUFFICES ASSUME m - 1 \notin T PROVE FALSE
    OBVIOUS
  <2>2. <<m - 1, m>> \in Less
    BY <1>4, <1>5
  <2>. QED  BY <1>3, <1>5, <2>1, <2>2
<1>. QED  BY <1>3, <1>5, <1>6

LEMMA TotalIs ==
  ASSUME NEW S, NEW f
  PROVE  Total(S, f) = (CHOOSE it : IsSum(it, f, S))[S]
BY DEF Total, SumFunctionOnSet, FoldFunctionOnSet, MapThenFoldSet, IsSum, Body, Some

LEMMA SomeLess ==
  ASSUME NEW s, s # {}, IsFiniteSet(s)
  PROVE  /\ Some(s) \in s
         /\ Cardinality(s) \in Nat \ {0}
         /\ IsFiniteSet(s \ {Some(s)})
         /\ Cardinality(s \ {Some(s)}) = Cardinality(s) - 1
<1>1. Some(s) \in s
  BY DEF Some
<1>. QED  BY <1>1, FS_RemoveElement, FS_CardinalityType, FS_EmptySet

LEMMA SumExists ==
  ASSUME NEW S, IsFiniteSet(S), NEW f, \A x \in S : f[x] \in Int
  PROVE  \E it \in [SUBSET S -> Int] : IsSum(it, f, S)
<1>. DEFINE Upto(n) == \E it \in [SUBSET S -> Int] :
                         \A s \in SUBSET S : Cardinality(s) <= n => it[s] = Body(it, f, s)
            T == {n \in Nat : Upto(n)}
<1>1. \A s \in SUBSET S : IsFiniteSet(s) /\ Cardinality(s) \in Nat
  BY FS_Subset, FS_CardinalityType
<1>2. 0 \in T
  <2>. DEFINE none == [s \in SUBSET S |-> 0]
  <2>1. \A s \in SUBSET S : Cardinality(s) <= 0 => none[s] = Body(none, f, s)
    BY <1>1, FS_EmptySet DEF Body
  <2>2. none \in [SUBSET S -> Int]
    OBVIOUS
  <2>3. Upto(0)
    BY <2>1, <2>2
  <2>. QED  BY <2>3
<1>3. ASSUME NEW n \in Nat, n \in T PROVE n + 1 \in T
  <2>1. PICK it \in [SUBSET S -> Int] :
          \A s \in SUBSET S : Cardinality(s) <= n => it[s] = Body(it, f, s)
    BY <1>3
  <2>. DEFINE next == [s \in SUBSET S |-> Body(it, f, s)]
  <2>2. \A s \in SUBSET S : Body(it, f, s) \in Int
    BY DEF Body, Some
  <2>3. next \in [SUBSET S -> Int]
    BY <2>2
  <2>4. ASSUME NEW s \in SUBSET S, Cardinality(s) <= n + 1 PROVE next[s] = Body(next, f, s)
    <3>1. CASE s = {}
      BY <3>1 DEF Body
    <3>2. CASE s # {}
      <4>. DEFINE r == s \ {Some(s)}
      <4>1. r \in SUBSET S /\ Cardinality(r) <= n
        BY <1>1, <2>4, <3>2, SomeLess
      <4>2. next[r] = it[r]
        BY <2>1, <4>1
      <4>3. next[s] = f[Some(s)] + it[r]
        BY <3>2 DEF Body
      <4>4. Body(next, f, s) = f[Some(s)] + next[r]
        BY <3>2 DEF Body
      <4>. QED  BY <4>2, <4>3, <4>4
    <3>. QED  BY <3>1, <3>2
  <2>5. Upto(n + 1)
    BY <2>3, <2>4
  <2>. QED  BY <2>5
<1>4. Cardinality(S) \in T
  <2>. HIDE DEF T
  <2>. QED  BY <1>1, <1>2, <1>3, NatSet
<1>5. PICK it \in [SUBSET S -> Int] :
        \A s \in SUBSET S : Cardinality(s) <= Cardinality(S) => it[s] = Body(it, f, s)
  BY <1>4
<1>6. \A s \in SUBSET S : it[s] = Body(it, f, s)
  BY <1>1, <1>5, FS_Subset
<1>7. it = [s \in SUBSET S |-> Body(it, f, s)]
  BY <1>6
<1>. QED  BY <1>7 DEF IsSum

\* Two sums agree on the sets of both, if what they add does.
LEMMA SumsAgree ==
  ASSUME NEW S, IsFiniteSet(S), NEW T, NEW f, NEW g, NEW it, NEW ju,
         IsSum(it, f, S), IsSum(ju, g, T), \A x \in S \cap T : f[x] = g[x]
  PROVE  \A s \in SUBSET (S \cap T) : it[s] = ju[s]
<1>. DEFINE Agree(n) == \A s \in SUBSET (S \cap T) : Cardinality(s) = n => it[s] = ju[s]
            N == {n \in Nat : Agree(n)}
<1>1. \A s \in SUBSET (S \cap T) :
        /\ IsFiniteSet(s) /\ Cardinality(s) \in Nat
        /\ it[s] = Body(it, f, s) /\ ju[s] = Body(ju, g, s)
  BY FS_Subset, FS_CardinalityType DEF IsSum
<1>2. 0 \in N
  BY <1>1, FS_EmptySet DEF Body
<1>3. ASSUME NEW n \in Nat, n \in N PROVE n + 1 \in N
  <2>1. SUFFICES ASSUME NEW s \in SUBSET (S \cap T), Cardinality(s) = n + 1 PROVE it[s] = ju[s]
    OBVIOUS
  <2>2. s # {}
    BY <2>1, FS_EmptySet
  <2>. DEFINE r == s \ {Some(s)}
  <2>3. r \in SUBSET (S \cap T) /\ Cardinality(r) = n /\ Some(s) \in S \cap T
    BY <1>1, <2>1, <2>2, SomeLess
  <2>4. it[r] = ju[r] /\ f[Some(s)] = g[Some(s)]
    BY <1>3, <2>3
  <2>. QED  BY <1>1, <2>2, <2>4 DEF Body
<1>4. Nat \subseteq N
  <2>. HIDE DEF N
  <2>. QED  BY <1>2, <1>3, NatSet
<1>. QED  BY <1>1, <1>4

\* Any element may come first.
LEMMA SumAnyOrder ==
  ASSUME NEW S, NEW f, Summable(S, f), NEW it, SumOver(it, S, f),
         NEW t \in SUBSET S, NEW y \in t
  PROVE  it[t] = f[y] + it[t \ {y}]
<1>. USE DEF Summable, SumOver
<1>. DEFINE SumHolds(n) == \A s \in SUBSET S : Cardinality(s) = n => \A x \in s : it[s] = f[x] + it[s \ {x}]
            N == {n \in Nat : SumHolds(n)}
<1>1. \A s \in SUBSET S : IsFiniteSet(s) /\ Cardinality(s) \in Nat /\ it[s] = Body(it, f, s) /\ it[s] \in Int
  BY FS_Subset, FS_CardinalityType DEF IsSum
<1>2. 0 \in N
  BY <1>1, FS_EmptySet
<1>3. ASSUME NEW n \in Nat, n \in N PROVE n + 1 \in N
  <2>1. SUFFICES ASSUME NEW s \in SUBSET S, Cardinality(s) = n + 1, NEW x \in s
                 PROVE  it[s] = f[x] + it[s \ {x}]
    OBVIOUS
  <2>. DEFINE c == Some(s)
  <2>2. c \in s /\ it[s] = f[c] + it[s \ {c}]
    BY <1>1, <2>1, SomeLess DEF Body
  <2>3. CASE x = c
    BY <2>2, <2>3
  <2>4. CASE x # c
    <3>. HIDE DEF c
    <3>1. Cardinality(s \ {c}) = n /\ Cardinality(s \ {x}) = n
      <4>1. IsFiniteSet(s) /\ c \in s /\ Cardinality(s) = n + 1
        BY <1>1, <2>1, <2>2
      <4>2. Cardinality(s \ {c}) = Cardinality(s) - 1 /\ Cardinality(s \ {x}) = Cardinality(s) - 1
        BY <4>1, FS_RemoveElement
      <4>. QED  BY <4>1, <4>2
    <3>2. it[s \ {c}] = f[x] + it[(s \ {c}) \ {x}]
      BY <1>3, <2>4, <3>1
    <3>3. it[s \ {x}] = f[c] + it[(s \ {x}) \ {c}]
      BY <1>3, <2>2, <2>4, <3>1
    <3>4. (s \ {c}) \ {x} = (s \ {x}) \ {c}
      OBVIOUS
    <3>. DEFINE rest == it[(s \ {x}) \ {c}]
    <3>5. f[x] \in Int /\ f[c] \in Int /\ rest \in Int
      BY <2>2, (s \ {x}) \ {c} \in SUBSET S
    <3>6. it[s] = f[c] + (f[x] + rest) /\ it[s \ {x}] = f[c] + rest
      BY <2>2, <3>2, <3>3, <3>4
    <3>. HIDE DEF rest
    <3>. QED  BY <3>5, <3>6
  <2>. QED  BY <2>3, <2>4
<1>4. Nat \subseteq N
  <2>. HIDE DEF N
  <2>. QED  BY <1>2, <1>3, NatSet
<1>. QED  BY <1>1, <1>4

SummedBy(it, S, f) ==
  /\ SumOver(it, S, f)
  /\ \A s \in SUBSET S : Total(s, f) = it[s]

\* What a total is.
LEMMA TotalIsSum ==
  ASSUME NEW S, NEW f, Summable(S, f)
  PROVE  \E it : SummedBy(it, S, f)
<1>1. PICK it \in [SUBSET S -> Int] : IsSum(it, f, S)
  BY SumExists DEF Summable
<1>2. ASSUME NEW s \in SUBSET S PROVE Total(s, f) = it[s]
  <2>1. IsFiniteSet(s) /\ IsFiniteSet(S)
    BY FS_Subset DEF Summable
  <2>. DEFINE ju == CHOOSE ju : IsSum(ju, f, s)
  <2>2. IsSum(ju, f, s)
    BY <2>1, SumExists DEF Summable
  <2>. HIDE DEF ju
  <2>3. \A u \in SUBSET (s \cap S) : ju[u] = it[u]
    BY <1>1, <2>1, <2>2, SumsAgree
  <2>4. Total(s, f) = ju[s]
    BY TotalIs DEF ju
  <2>. QED  BY <2>3, <2>4
<1>. QED  BY <1>1, <1>2 DEF SummedBy, SumOver

LEMMA TotalType ==
  ASSUME NEW S, NEW f, Summable(S, f)
  PROVE  Total(S, f) \in Int
<1>1. PICK it : SummedBy(it, S, f)
  BY TotalIsSum
<1>. QED  BY <1>1 DEF SummedBy, SumOver

\* Any of the numbers may be added last.
LEMMA TotalSplit ==
  ASSUME NEW S, NEW f, Summable(S, f), NEW x \in S
  PROVE  Total(S, f) = f[x] + Total(S \ {x}, f)
<1>1. PICK it : SummedBy(it, S, f)
  BY TotalIsSum
<1>2. S \in SUBSET S /\ S \ {x} \in SUBSET S
  OBVIOUS
<1>3. SumOver(it, S, f)
  BY <1>1 DEF SummedBy
<1>4. it[S] = f[x] + it[S \ {x}]
  BY <1>2, <1>3, SumAnyOrder
<1>. QED  BY <1>1, <1>2, <1>4 DEF SummedBy, SumOver

\* Sums of the same numbers are the same.
LEMMA TotalSame ==
  ASSUME NEW S, NEW f, Summable(S, f), NEW g, \A x \in S : f[x] = g[x]
  PROVE  Total(S, f) = Total(S, g)
<1>1. PICK it : SummedBy(it, S, f)
  BY TotalIsSum
<1>2. Summable(S, g)
  BY DEF Summable
<1>3. PICK ju : SummedBy(ju, S, g)
  BY <1>2, TotalIsSum
<1>4. \A s \in SUBSET (S \cap S) : it[s] = ju[s]
  BY <1>1, <1>3, SumsAgree DEF SummedBy, SumOver, Summable
<1>. QED  BY <1>1, <1>3, <1>4 DEF SummedBy, SumOver

\* A sum of zeros.
LEMMA TotalZero ==
  ASSUME NEW S, NEW f, IsFiniteSet(S), \A x \in S : f[x] = 0
  PROVE  Total(S, f) = 0
<1>. DEFINE zero == [s \in SUBSET S |-> 0]
<1>1. Summable(S, f)
  BY DEF Summable
<1>2. PICK it : SummedBy(it, S, f)
  BY <1>1, TotalIsSum
<1>3. \A s \in SUBSET S : Body(zero, f, s) = 0
  BY DEF Body, Some
<1>4. IsSum(zero, f, S)
  BY <1>3 DEF IsSum
<1>5. \A s \in SUBSET (S \cap S) : it[s] = zero[s]
  <2>. HIDE DEF zero
  <2>. QED  BY <1>2, <1>4, SumsAgree DEF SummedBy, SumOver
<1>. QED  BY <1>2, <1>5 DEF SummedBy, SumOver

\* One of the numbers is another.
LEMMA TotalChanged ==
  ASSUME NEW S, NEW f, Summable(S, f), NEW g, Summable(S, g), NEW x \in S,
         \A y \in S \ {x} : g[y] = f[y]
  PROVE  Total(S, g) = Total(S, f) - f[x] + g[x]
<1>. DEFINE R == S \ {x}
<1>1. Summable(R, f)
  BY FS_Subset DEF Summable
<1>2. Total(R, f) = Total(R, g) /\ Total(R, f) \in Int
  BY <1>1, TotalSame, TotalType
<1>3. Total(S, f) = f[x] + Total(R, f) /\ Total(S, g) = g[x] + Total(R, g)
  BY TotalSplit
<1>4. f[x] \in Int /\ g[x] \in Int
  BY DEF Summable
<1>. HIDE DEF R
<1>. QED  BY <1>2, <1>3, <1>4

-----------------------------------------------------------------------------
(* Sequences.                                                              *)

LEMMA FunctionIsSeq ==
  ASSUME NEW R, NEW n \in Nat, NEW f \in [1..n -> R]
  PROVE  f \in Seq(R) /\ Len(f) = n
OBVIOUS

LEMMA SeqIsFunction ==
  ASSUME NEW R, NEW f \in Seq(R)
  PROVE  f \in [1..Len(f) -> R] /\ DOMAIN f = 1..Len(f) /\ Len(f) \in Nat
OBVIOUS

\* The rows that were there are there after an insertion; the others are new.
LEMMA Inserted ==
  ASSUME NEW R, NEW s \in Seq(R), NEW t \in Seq(R)
  PROVE  /\ s \o t \in Seq(R) /\ Len(s \o t) = Len(s) + Len(t)
         /\ DOMAIN s \subseteq DOMAIN (s \o t)
         /\ \A i \in DOMAIN s : (s \o t)[i] = s[i]
         /\ \A i \in DOMAIN (s \o t) \ DOMAIN s :
              i - Len(s) \in 1..Len(t) /\ (s \o t)[i] = t[i - Len(s)]
<1>1. /\ s \o t \in Seq(R) /\ Len(s \o t) = Len(s) + Len(t)
      /\ \A i \in 1..Len(s) + Len(t) :
           (s \o t)[i] = IF i <= Len(s) THEN s[i] ELSE t[i - Len(s)]
  BY ConcatProperties
<1>2. /\ DOMAIN s = 1..Len(s) /\ DOMAIN (s \o t) = 1..Len(s) + Len(t)
      /\ Len(s) \in Nat /\ Len(t) \in Nat
  BY <1>1, SeqIsFunction
<1>. QED  BY <1>1, <1>2

LEMMA InsertedNumbers ==
  ASSUME NEW s \in Seq(Nat), NEW t \in Seq(Nat)
  PROVE  /\ s \o t \in Seq(Nat) /\ Len(s \o t) = Len(s) + Len(t)
         /\ \A i \in DOMAIN s : (s \o t)[i] = s[i]
         /\ \A i \in DOMAIN (s \o t) \ DOMAIN s :
              i - Len(s) \in 1..Len(t) /\ (s \o t)[i] = t[i - Len(s)]
<1>. DEFINE R == Nat
<1>1. s \in Seq(R) /\ t \in Seq(R)
  OBVIOUS
<1>. HIDE DEF R
<1>2. /\ s \o t \in Seq(R) /\ Len(s \o t) = Len(s) + Len(t)
      /\ \A i \in DOMAIN s : (s \o t)[i] = s[i]
      /\ \A i \in DOMAIN (s \o t) \ DOMAIN s :
              i - Len(s) \in 1..Len(t) /\ (s \o t)[i] = t[i - Len(s)]
  BY <1>1, Inserted
<1>. QED  BY <1>2 DEF R

\* A row of which nothing was taken.
Whole(row) == row.status = "active" /\ ~row.revoked /\ row.remaining = row.amount

Balanced(row, taken) ==
  /\ row.status = "revoked" => row.revoked
  /\ row.revoked => row.status # "active" /\ row.remaining = 0 /\ taken <= row.amount
  /\ ~row.revoked => row.remaining >= 0 /\ row.remaining + taken = row.amount

LEMMA WholeBalances ==
  ASSUME NEW row \in CreditRow, Whole(row)
  PROVE  Balanced(row, 0)
BY DEF Whole, Balanced, CreditRow

LEMMA LedgerIs == CreditsBalance <=> \A c \in Ids : Balanced(credits[c], allocated[c])
BY DEF CreditsBalance, Balanced

LEMMA LedgerIsNext == CreditsBalance' <=> \A c \in Ids' : Balanced(credits'[c], allocated'[c])
BY DEF CreditsBalance, Balanced

-----------------------------------------------------------------------------
(* What a session is at while another works.                               *)

\* A purchase goes on as long as nobody writes the rows it holds.
LEMMA HoldsStays ==
  ASSUME NEW w \in Workers, Holds(w), tx'[w] = tx[w], Ids \subseteq Ids',
         \A c \in Locked(w) : /\ credits'[c].remaining = credits[c].remaining
                              /\ credits'[c].expires = credits[c].expires
  PROVE  Holds(w)'
<1>. SUFFICES ASSUME tx[w].stage = "taking" PROVE Holds(w)'
  BY DEF Holds
<1>. DEFINE t == tx[w]
<1>1. Locked(w) = t.rows
  BY DEF Locked
<1>2. \A c \in t.rows : HasExpired(c, t.at)' <=> HasExpired(c, t.at)
  BY <1>1 DEF HasExpired
<1>3. \A c, d \in t.rows : Sooner(c, d)' <=> Sooner(c, d)
  BY <1>1 DEF Sooner
<1>4. Met(t) \subseteq t.rows /\ t.next \subseteq t.rows
  BY DEF Met, Holds
<1>. QED  BY <1>1, <1>2, <1>3, <1>4 DEF Holds, Met

LEMMA MeansStays ==
  ASSUME NEW w \in Workers, Means(w), tx'[w] = tx[w], GrantIds \subseteq GrantIds'
  PROVE  Means(w)'
BY DEF Means

LEMMA HeldAreRows ==
  ASSUME NEW w \in Workers, WasDue(w), tx[w].stage = "granting"
  PROVE  Held(tx[w]) \subseteq GrantIds
BY SeqIsFunction DEF Held, WasDue

LEMMA WasDueStays ==
  ASSUME NEW w \in Workers, WasDue(w), tx'[w] = tx[w], GrantIds \subseteq GrantIds',
         \A i \in GrantIds : grants'[i].last = grants[i].last,
         hurried \subseteq hurried'
  PROVE  WasDue(w)'
<1>. SUFFICES ASSUME tx[w].stage = "granting" PROVE WasDue(w)'
  BY DEF WasDue
<1>1. Held(tx[w]) \subseteq GrantIds /\ Held(tx[w])' = Held(tx[w])
  BY HeldAreRows DEF Held
<1>2. Seq(GrantIds) \subseteq Seq(GrantIds')
  OBVIOUS
<1>. QED  BY <1>1, <1>2 DEF WasDue

LEMMA IdleIsSound ==
  ASSUME NEW w \in Workers, tx'[w] = Idle
  PROVE  Holds(w)' /\ Means(w)' /\ WasDue(w)' /\ Locked(w)' = {}
BY DEF Idle, Holds, Means, WasDue, Locked

\* A step of the sessions in S keeps the invariant if it keeps it for them and
\* for the tables, and leaves the rows that others hold alone.
LEMMA SessionStep ==
  ASSUME Inv, NEW S \in SUBSET Workers,
         Tables', CreditsBalance', Schedule', Ids \subseteq Ids', GrantIds \subseteq GrantIds',
         \A i \in GrantIds : grants'[i].last = grants[i].last, hurried \subseteq hurried',
         \A w \in S : /\ Holds(w)' /\ Means(w)' /\ WasDue(w)'
                      /\ \A v \in Workers \ {w} : Locked(v) \cap Locked(w)' = {},
         \A v \in Workers \ S :
           /\ tx'[v] = tx[v]
           /\ \A c \in Locked(v) : /\ credits'[c].remaining = credits[c].remaining
                                   /\ credits'[c].expires = credits[c].expires,
         \A v, w \in S : v = w
  PROVE  Inv'
<1>1. ASSUME NEW v \in Workers \ S
      PROVE  Holds(v)' /\ Means(v)' /\ WasDue(v)' /\ Locked(v)' = Locked(v)
  BY HoldsStays, MeansStays, WasDueStays DEF Inv, Locked
<1>2. ASSUME NEW v \in Workers, NEW w \in Workers, v # w
      PROVE  Locked(v)' \cap Locked(w)' = {}
  <2>1. CASE v \in S
    BY <2>1, <1>1, <1>2
  <2>2. CASE w \in S
    BY <2>2, <1>1, <1>2
  <2>3. CASE v \notin S /\ w \notin S
    BY <2>3, <1>1, <1>2 DEF Inv
  <2>. QED  BY <2>1, <2>2, <2>3
<1>. QED  BY <1>1, <1>2 DEF Inv

\* One that writes no table.
LEMMA QuietStep ==
  ASSUME Inv, UNCHANGED <<credits, allocated, grants, now>>, hurried' = hurried,
         NEW w \in Workers, NEW t, tx' = [tx EXCEPT ![w] = t],
         Holds(w)', Means(w)', WasDue(w)',
         \A v \in Workers \ {w} : Locked(v) \cap Locked(w)' = {}
  PROVE  Inv'
<1>1. Tables' /\ \A v \in Workers \ {w} : tx'[v] = tx[v]
  BY DEF Inv, Tables
<1>2. CreditsBalance'
  BY DEF Inv, CreditsBalance, Ids
<1>3. Schedule'
  BY DEF Inv, Schedule, GrantIds
<1>4. Ids' = Ids /\ GrantIds' = GrantIds
  BY DEF Ids, GrantIds
<1>. DEFINE S == {w}
<1>5. /\ S \in SUBSET Workers /\ \A u, v \in S : u = v
      /\ \A u \in S : /\ Holds(u)' /\ Means(u)' /\ WasDue(u)'
                      /\ \A v \in Workers \ {u} : Locked(v) \cap Locked(u)' = {}
      /\ \A v \in Workers \ S : tx'[v] = tx[v]
  BY <1>1
<1>. HIDE DEF S
<1>. QED  BY <1>1, <1>2, <1>3, <1>4, <1>5, SessionStep

LEMMA GoesIdle ==
  ASSUME Inv, NEW w \in Workers, Goes(w, Idle)
  PROVE  /\ tx' = [tx EXCEPT ![w] = Idle] /\ tx'[w] = Idle
         /\ Holds(w)' /\ Means(w)' /\ WasDue(w)' /\ Locked(w)' = {}
<1>1. tx' = [tx EXCEPT ![w] = Idle] /\ tx'[w] = Idle
  BY DEF Goes, Inv, Tables
<1>. QED  BY <1>1, IdleIsSound

\* Rows rewritten in place.
LEMMA Rewritten ==
  ASSUME NEW R, NEW s \in Seq(R), NEW f, f = [i \in DOMAIN s |-> f[i]],
         \A i \in DOMAIN s : f[i] \in R
  PROVE  f \in Seq(R) /\ Len(f) = Len(s) /\ DOMAIN f = DOMAIN s
<1>1. DOMAIN s = 1..Len(s) /\ Len(s) \in Nat
  OBVIOUS
<1>2. f \in [1..Len(s) -> R]
  BY <1>1
<1>. QED  BY <1>1, <1>2, FunctionIsSeq

-----------------------------------------------------------------------------
(* The actions.                                                            *)

LEMMA InitSound == Init => Inv
<1>. SUFFICES ASSUME Init PROVE Inv
  OBVIOUS
<1>1. Ids = {} /\ GrantIds = {}
  BY DEF Init, Ids, GrantIds
<1>2. Tables
  BY DEF Init, Tables
<1>3. \A w \in Workers : Holds(w) /\ Means(w) /\ WasDue(w) /\ Locked(w) = {}
  BY DEF Init, Idle, Holds, Means, WasDue, Locked
<1>. QED  BY <1>1, <1>2, <1>3 DEF Inv, CreditsBalance, Schedule

LEMMA TickSound == Inv /\ Tick => Inv'
<1>. SUFFICES ASSUME Inv, Tick PROVE Inv'
  OBVIOUS
<1>1. Tables' /\ \A v \in Workers : tx'[v] = tx[v]
  BY DEF Inv, Tables, Tick
<1>2. CreditsBalance' /\ Schedule' /\ Ids' = Ids /\ GrantIds' = GrantIds
  BY DEF Inv, CreditsBalance, Schedule, Ids, GrantIds, Tick
<1>3. {} \in SUBSET Workers
  OBVIOUS
<1>. QED  BY <1>1, <1>2, <1>3, SessionStep DEF Tick

\* What a row of credits is made of.
LEMMA CreditIsRow ==
  ASSUME NEW player \in Players \cup {None}, NEW group \in Groups \cup {None},
         NEW amount \in Nat, NEW expires \in Nat
  PROVE  Credit(player, group, amount, expires) \in CreditRow
BY DEF Credit, CreditRow

\* Credits are added to, with nothing taken from the new ones.
LEMMA Adds ==
  ASSUME Inv, NEW new \in Seq(CreditRow), NEW none \in Seq(Nat), Len(none) = Len(new),
         credits' = credits \o new, allocated' = allocated \o none,
         \A i \in 1..Len(new) : none[i] = 0 /\ Whole(new[i])
  PROVE  /\ credits' \in Seq(CreditRow) /\ allocated' \in Seq(Nat)
         /\ Len(allocated') = Len(credits')
         /\ Ids \subseteq Ids' /\ \A c \in Ids : credits'[c] = credits[c]
         /\ CreditsBalance'
<1>1. /\ credits \in Seq(CreditRow) /\ allocated \in Seq(Nat) /\ Len(allocated) = Len(credits)
  BY DEF Inv, Tables
<1>2. /\ credits' \in Seq(CreditRow) /\ Len(credits') = Len(credits) + Len(new)
      /\ Ids \subseteq Ids' /\ \A c \in Ids : credits'[c] = credits[c]
      /\ \A c \in Ids' \ Ids : c - Len(credits) \in 1..Len(new)
                              /\ credits'[c] = new[c - Len(credits)]
  BY <1>1, Inserted DEF Ids
<1>3. /\ allocated' \in Seq(Nat) /\ Len(allocated') = Len(allocated) + Len(none)
      /\ \A c \in DOMAIN allocated : allocated'[c] = allocated[c]
      /\ \A c \in DOMAIN allocated' \ DOMAIN allocated :
            c - Len(allocated) \in 1..Len(none) /\ allocated'[c] = none[c - Len(allocated)]
  BY <1>1, InsertedNumbers
<1>4. DOMAIN allocated = Ids /\ DOMAIN allocated' = Ids'
  BY <1>1, <1>2, <1>3, SeqIsFunction DEF Ids
<1>5. ASSUME NEW c \in Ids' PROVE Balanced(credits'[c], allocated'[c])
  <2>1. CASE c \in Ids
    BY <2>1, <1>2, <1>3, <1>4, LedgerIs DEF Inv
  <2>2. CASE c \notin Ids
    <3>1. allocated'[c] = 0 /\ Whole(credits'[c])
      BY <2>2, <1>1, <1>2, <1>3, <1>4, <1>5
    <3>2. credits'[c] \in CreditRow
      BY <1>2, <1>5, SeqIsFunction DEF Ids
    <3>. QED  BY <3>1, <3>2, WholeBalances
  <2>. QED  BY <2>1, <2>2
<1>. QED  BY <1>1, <1>2, <1>3, <1>5, LedgerIsNext

LEMMA AwardSound == ASSUME NEW a \in Awards PROVE Inv /\ Award(a) => Inv'
<1>. SUFFICES ASSUME Inv, Award(a) PROVE Inv'
  OBVIOUS
<1>. DEFINE row == Credit(a.player, a.group, a.amount, Expiry(a.player, a.days))
<1>1. row \in CreditRow /\ Whole(row)
  <2>1. Expiry(a.player, a.days) \in Nat
    BY LedgerAssumption DEF Expiry, Never, Inv, Tables
  <2>2. a.player \in Players \cup {None} /\ a.group \in Groups \cup {None} /\ a.amount \in Nat
    BY LedgerAssumption
  <2>. QED  BY <2>1, <2>2, CreditIsRow DEF Credit, Whole
<1>. HIDE DEF row
<1>2. /\ credits' = credits \o <<row>> /\ allocated' = allocated \o <<0>>
      /\ <<row>> \in Seq(CreditRow) /\ <<0>> \in Seq(Nat) /\ Len(<<0>>) = Len(<<row>>)
      /\ \A i \in 1..Len(<<row>>) : <<0>>[i] = 0 /\ Whole(<<row>>[i])
  <2>1. credits' = Append(credits, row) /\ allocated' = Append(allocated, 0)
    BY DEF Award, row
  <2>2. credits \in Seq(CreditRow) /\ allocated \in Seq(Nat)
    BY DEF Inv, Tables
  <2>3. credits' = credits \o <<row>>
    BY <1>1, <2>1, <2>2, AppendIsConcat
  <2>4. allocated' = allocated \o <<0>>
    <3>1. 0 \in Nat
      OBVIOUS
    <3>. QED  BY <2>1, <2>2, <3>1, AppendIsConcat
  <2>. QED  BY <1>1, <2>3, <2>4
<1>3. /\ credits' \in Seq(CreditRow) /\ allocated' \in Seq(Nat)
      /\ Len(allocated') = Len(credits')
      /\ Ids \subseteq Ids' /\ \A c \in Ids : credits'[c] = credits[c]
      /\ CreditsBalance'
  BY <1>2, Adds
<1>4. Tables' /\ Schedule' /\ GrantIds' = GrantIds /\ tx' = tx
  BY <1>3 DEF Award, Inv, Tables, Schedule, GrantIds
<1>5. \A v \in Workers : Locked(v) \subseteq Ids
  BY DEF Inv, Holds, Locked
<1>6. {} \in SUBSET Workers
  OBVIOUS
<1>. QED  BY <1>3, <1>4, <1>5, <1>6, SessionStep DEF Award

\* Credits are rewritten in place by a session that holds no row, or no longer:
\* it leaves the rows of the others alone.
LEMMA RewriteSound ==
  ASSUME Inv, NEW w \in Workers, Locked(w)' = {}, Holds(w)', Means(w)', WasDue(w)',
         tx' = [v \in Workers |-> tx'[v]], \A v \in Workers \ {w} : tx'[v] = tx[v],
         credits' = [c \in Ids |-> credits'[c]], allocated' = [c \in Ids |-> allocated'[c]],
         \A c \in Ids : credits'[c] \in CreditRow /\ allocated'[c] \in Nat,
         CreditsBalance',
         \A v \in Workers \ {w} : \A c \in Locked(v) : credits'[c] = credits[c],
         UNCHANGED <<grants, now, hurried>>
  PROVE  Inv'
<1>1. /\ credits \in Seq(CreditRow) /\ allocated \in Seq(Nat) /\ Len(allocated) = Len(credits)
      /\ DOMAIN credits = Ids
  BY DEF Inv, Tables, Ids
<1>2. DOMAIN allocated = Ids
  BY <1>1, SeqIsFunction
<1>3. credits' \in Seq(CreditRow) /\ Len(credits') = Len(credits) /\ Ids' = Ids
  BY <1>1, Rewritten DEF Ids
<1>4. allocated' \in Seq(Nat) /\ Len(allocated') = Len(allocated)
  BY <1>1, <1>2, Rewritten
<1>5. Tables' /\ Schedule' /\ GrantIds' = GrantIds
  BY <1>1, <1>3, <1>4 DEF Inv, Tables, Schedule, GrantIds
<1>. DEFINE S == {w}
<1>6. /\ S \in SUBSET Workers /\ \A u, v \in S : u = v
      /\ \A u \in S : /\ Holds(u)' /\ Means(u)' /\ WasDue(u)'
                      /\ \A v \in Workers \ {u} : Locked(v) \cap Locked(u)' = {}
      /\ \A v \in Workers \ S : /\ tx'[v] = tx[v]
                              /\ \A c \in Locked(v) : credits'[c] = credits[c]
  OBVIOUS
<1>7. \A i \in GrantIds : grants'[i].last = grants[i].last
  OBVIOUS
<1>8. hurried \subseteq hurried' /\ Ids \subseteq Ids' /\ GrantIds \subseteq GrantIds'
  BY <1>3, <1>5
<1>. HIDE DEF S
<1>. QED  BY <1>5, <1>6, <1>7, <1>8, SessionStep

LEMMA RowOf ==
  ASSUME Inv, NEW c \in Ids
  PROVE  credits[c] \in CreditRow /\ allocated[c] \in Nat
BY SeqIsFunction DEF Inv, Tables, Ids

\* Other columns of a row than those that balance.
LEMMA Recoloured ==
  ASSUME NEW row \in CreditRow, NEW new, new = [row EXCEPT !.status = "expired"]
  PROVE  /\ new \in CreditRow /\ new.remaining = row.remaining /\ new.amount = row.amount
         /\ new.revoked = row.revoked /\ new.status = "expired"
BY DEF CreditRow

LEMMA Reduced ==
  ASSUME NEW row \in CreditRow, NEW left \in Nat
  PROVE  /\ [row EXCEPT !.remaining = left] \in CreditRow
         /\ [row EXCEPT !.remaining = left].remaining = left
         /\ [row EXCEPT !.remaining = left].amount = row.amount
         /\ [row EXCEPT !.remaining = left].revoked = row.revoked
         /\ [row EXCEPT !.remaining = left].status = row.status
BY DEF CreditRow

LEMMA RevokeSound ==
  ASSUME NEW w \in Workers, NEW c \in Ids PROVE Inv /\ Revoke(w, c) => Inv'
<1>. SUFFICES ASSUME Inv, Revoke(w, c) PROVE Inv'
  OBVIOUS
<1>1. tx'[w] = Idle /\ tx' = tx
  BY DEF Revoke, Begin
<1>2. Holds(w)' /\ Means(w)' /\ WasDue(w)' /\ Locked(w)' = {}
  BY <1>1, IdleIsSound
<1>. DEFINE row == [credits[c] EXCEPT !.remaining = 0, !.status = "revoked", !.revoked = TRUE]
<1>3. /\ credits[c] \in CreditRow /\ row \in CreditRow /\ row.remaining = 0
      /\ row.amount = credits[c].amount /\ row.revoked /\ row.status = "revoked"
  BY RowOf DEF CreditRow
<1>4. credits' = [credits EXCEPT ![c] = row]
  BY <1>3 DEF Revoke
<1>5. credits = [d \in Ids |-> credits[d]] /\ allocated = [d \in Ids |-> allocated[d]]
  BY SeqIsFunction DEF Inv, Tables, Ids
<1>. HIDE DEF row
<1>6. /\ credits' = [d \in Ids |-> credits'[d]] /\ credits'[c] = row
      /\ \A d \in Ids \ {c} : credits'[d] = credits[d]
  BY <1>4, <1>5
<1>7. /\ allocated' = [d \in Ids |-> allocated'[d]] /\ allocated' = allocated
      /\ UNCHANGED <<grants, now, hurried>>
  BY <1>5 DEF Revoke
<1>8. \A d \in Ids : credits'[d] \in CreditRow /\ allocated'[d] \in Nat
  BY <1>3, <1>6, <1>7, RowOf
<1>9. CreditsBalance'
  <2>1. Ids' = Ids
    BY <1>6 DEF Ids
  <2>2. allocated[c] <= credits[c].amount
    BY RowOf DEF Inv, CreditsBalance, CreditRow
  <2>3. Balanced(credits'[c], allocated'[c])
    BY <2>2, <1>3, <1>6, <1>7 DEF Balanced
  <2>4. \A d \in Ids \ {c} : Balanced(credits'[d], allocated'[d])
    BY <1>6, <1>7, LedgerIs DEF Inv
  <2>. QED  BY <2>1, <2>3, <2>4, LedgerIsNext
<1>10. \A v \in Workers \ {w} : \A d \in Locked(v) : credits'[d] = credits[d]
  <2>1. \A v \in Workers \ {w} : Locked(v) \subseteq Ids /\ c \notin Locked(v)
    BY DEF Inv, Holds, Locked, Revoke, LockFree
  <2>. QED  BY <2>1, <1>6
<1>11. tx' = [v \in Workers |-> tx'[v]] /\ \A v \in Workers \ {w} : tx'[v] = tx[v]
  BY <1>1 DEF Inv, Tables
<1>. QED  BY <1>2, <1>6, <1>7, <1>8, <1>9, <1>10, <1>11, RewriteSound

LEMMA ListExpiredSound ==
  ASSUME NEW w \in Workers PROVE Inv /\ ListExpired(w) => Inv'
<1>. SUFFICES ASSUME Inv, ListExpired(w) PROVE Inv'
  OBVIOUS
<1>1. PICK ids \in SUBSET Ids : tx' = [tx EXCEPT ![w] = [stage |-> "expiring", ids |-> ids]]
  BY DEF ListExpired, Goes
<1>2. tx'[w] = [stage |-> "expiring", ids |-> ids]
  BY <1>1 DEF Inv, Tables
<1>3. Holds(w)' /\ Means(w)' /\ WasDue(w)' /\ Locked(w)' = {}
  BY <1>2 DEF Holds, Means, WasDue, Locked
<1>. QED  BY <1>1, <1>3, QuietStep DEF ListExpired

LEMMA MarkExpiredSound ==
  ASSUME NEW w \in Workers PROVE Inv /\ MarkExpired(w) => Inv'
<1>. SUFFICES ASSUME Inv, MarkExpired(w) PROVE Inv'
  OBVIOUS
<1>1. /\ tx' = [tx EXCEPT ![w] = Idle] /\ Locked(w)' = {}
      /\ Holds(w)' /\ Means(w)' /\ WasDue(w)'
  BY GoesIdle DEF MarkExpired
<1>2. tx' = [v \in Workers |-> tx'[v]] /\ \A v \in Workers \ {w} : tx'[v] = tx[v]
  BY <1>1 DEF Inv, Tables
<1>3. /\ credits' = [d \in Ids |-> credits'[d]]
      /\ \A d \in Ids \ tx[w].ids : credits'[d] = credits[d]
      /\ \A d \in Ids : d \in tx[w].ids => credits'[d] = [credits[d] EXCEPT !.status = "expired"]
  BY DEF MarkExpired
<1>4. /\ allocated' = [d \in Ids |-> allocated'[d]] /\ allocated' = allocated
      /\ UNCHANGED <<grants, now, hurried>>
  BY SeqIsFunction DEF Inv, Tables, Ids, MarkExpired
<1>5. ASSUME NEW d \in Ids
      PROVE  /\ credits'[d] \in CreditRow /\ allocated'[d] \in Nat
             /\ credits'[d].remaining = credits[d].remaining
             /\ credits'[d].amount = credits[d].amount
             /\ credits'[d].revoked = credits[d].revoked
             /\ credits'[d].status \in {credits[d].status, "expired"}
  <2>1. credits[d] \in CreditRow /\ allocated'[d] \in Nat
    BY <1>4, RowOf
  <2>2. CASE d \in tx[w].ids
    BY <2>1, <2>2, <1>3, Recoloured
  <2>3. CASE d \notin tx[w].ids
    BY <2>1, <2>3, <1>3
  <2>. QED  BY <2>2, <2>3
<1>6. CreditsBalance'
  <2>1. Ids' = Ids
    BY <1>3 DEF Ids
  <2>2. ASSUME NEW d \in Ids PROVE Balanced(credits'[d], allocated'[d])
    <3>1. Balanced(credits[d], allocated[d])
      BY LedgerIs DEF Inv
    <3>. QED  BY <3>1, <1>4, <1>5 DEF Balanced
  <2>. QED  BY <2>1, <2>2, LedgerIsNext
<1>7. \A v \in Workers \ {w} : \A d \in Locked(v) : credits'[d] = credits[d]
  <2>1. \A v \in Workers \ {w} : Locked(v) \subseteq Ids /\ Locked(v) \cap tx[w].ids = {}
    BY DEF Inv, Holds, Locked, MarkExpired, LockFree
  <2>. QED  BY <2>1, <1>3
<1>. QED  BY <1>1, <1>2, <1>3, <1>4, <1>5, <1>6, <1>7, RewriteSound

\* The first of some rows of grants is one of them.
LEMMA FirstIsOne ==
  ASSUME Inv, NEW ids \in SUBSET GrantIds, ids # {}
  PROVE  First(ids) \in ids
<1>1. ids \subseteq Nat
  BY SeqIsFunction DEF Inv, Tables, GrantIds
<1>. DEFINE Less == {p \in Nat \X Nat : p[1] < p[2]}
<1>2. IsWellFoundedOn(Less, Nat)
  BY NatLessThanWellFounded DEF OpToRel
<1>3. PICK i \in ids : \A j \in ids : ~(<<j, i>> \in Less)
  BY <1>1, <1>2, WFMin
<1>4. ASSUME NEW j \in ids PROVE i <= j
  <2>1. i \in Nat /\ j \in Nat /\ <<j, i>> \notin {p \in Nat \X Nat : p[1] < p[2]}
    BY <1>1, <1>3
  <2>2. ~(j < i)
    BY <2>1
  <2>. QED  BY <2>1, <2>2
<1>. QED  BY <1>4 DEF First

LEMMA AskSound ==
  ASSUME NEW w \in Workers, NEW purse \in Purses, NEW cost \in Costs
  PROVE  Inv /\ Ask(w, purse, cost) => Inv'
<1>. SUFFICES ASSUME Inv, Ask(w, purse, cost) PROVE Inv'
  OBVIOUS
<1>. DEFINE t == [stage |-> "asking", purse |-> purse, cost |-> cost, at |-> now]
<1>1. tx' = [tx EXCEPT ![w] = t] /\ tx'[w] = t
  BY DEF Ask, Goes, Inv, Tables
<1>2. Holds(w)' /\ Means(w)' /\ WasDue(w)' /\ Locked(w)' = {}
  BY <1>1, LedgerAssumption DEF Holds, Means, WasDue, Locked
<1>. QED  BY <1>1, <1>2, QuietStep DEF Ask

LEMMA IdsFinite == Inv => IsFiniteSet(Ids)
<1>. SUFFICES ASSUME Inv PROVE IsFiniteSet(Ids)
  OBVIOUS
<1>1. Ids = 1..Len(credits) /\ Len(credits) \in Int /\ 1 \in Int
  BY SeqIsFunction DEF Inv, Tables, Ids
<1>2. IsFiniteSet(1..Len(credits))
  BY <1>1, FS_Interval
<1>. QED  BY <1>1, <1>2

LEMMA LockSound ==
  ASSUME NEW w \in Workers PROVE Inv /\ Lock(w) => Inv'
<1>. SUFFICES ASSUME Inv, Lock(w) PROVE Inv'
  OBVIOUS
<1>. DEFINE rows == Eligible(w)
            seen == [c \in rows |-> credits[c].remaining]
            taken == [c \in rows |-> 0]
            t == [stage |-> "taking", rows |-> rows, next |-> rows, at |-> now, seen |-> seen,
                  taken |-> taken, cost |-> tx[w].cost, left |-> tx[w].cost]
<1>1. tx' = [tx EXCEPT ![w] = t] /\ tx'[w] = t
  BY DEF Lock, Goes, Inv, Tables
<1>2. /\ rows \subseteq Ids /\ now \in Nat /\ tx[w].cost \in Nat
      /\ Ids' = Ids /\ credits' = credits
  BY DEF Eligible, Inv, Tables, Means, Lock, Ids
<1>3. seen \in [rows -> Nat] /\ taken \in [rows -> Nat]
  BY <1>2, RowOf DEF CreditRow
<1>4. \A v \in Workers \ {w} : Locked(v) \cap rows = {}
  BY DEF Lock, LockFree
<1>. HIDE DEF rows
<1>5. /\ t.stage = "taking" /\ t.rows = rows /\ t.next = rows /\ t.at = now /\ t.seen = seen
      /\ t.taken = taken /\ t.left = tx[w].cost /\ Met(t) = {}
      /\ t \in [stage : {"taking"}, rows : SUBSET Ids, next : SUBSET rows, at : Nat, cost : Nat,
                left : Nat, seen : [rows -> Nat], taken : [rows -> Nat]]
  BY <1>2, <1>3 DEF Met
<1>6. \A c \in rows : taken[c] = 0 /\ seen[c] = credits'[c].remaining /\ taken[c] <= seen[c]
  BY <1>2, <1>3
<1>7. t.cost = tx[w].cost
  OBVIOUS
<1>. HIDE DEF t, seen, taken
<1>8. Total(t.rows, t.taken) + t.left = t.cost
  <2>1. Total(rows, taken) = 0
    BY <1>2, <1>6, IdsFinite, FS_Subset, TotalZero
  <2>. QED  BY <2>1, <1>2, <1>5, <1>7
<1>9. Holds(w)'
  BY <1>1, <1>2, <1>5, <1>6, <1>8 DEF Holds, Met
<1>10. Means(w)' /\ WasDue(w)' /\ Locked(w)' = rows
  BY <1>1, <1>5 DEF Means, WasDue, Locked
<1>. QED  BY <1>1, <1>4, <1>9, <1>10, QuietStep DEF Lock

LEMMA TakeSound ==
  ASSUME NEW w \in Workers PROVE Inv /\ Take(w) => Inv'
<1>. SUFFICES ASSUME Inv, Take(w) PROVE Inv'
  OBVIOUS
<1>. DEFINE t == tx[w]
<1>1. t.stage = "taking" /\ t.left > 0 /\ Holds(w)
  BY DEF Take, Inv
<1>2. PICK c \in t.next :
        /\ \A d \in t.next \ {c} : Sooner(c, d)
        /\ Goes(w, [t EXCEPT !.next = @ \ {c}, !.taken[c] = Share(c, t), !.left = @ - Share(c, t)])
  BY DEF Take
<1>. DEFINE u == [t EXCEPT !.next = @ \ {c}, !.taken[c] = Share(c, t), !.left = @ - Share(c, t)]
<1>3. /\ t \in [stage : {"taking"}, rows : SUBSET Ids, next : SUBSET t.rows, at : Nat,
                cost : Nat, left : Nat, seen : [t.rows -> Nat], taken : [t.rows -> Nat]]
      /\ c \in t.rows
  BY <1>1, <1>2 DEF Holds
<1>4. /\ Share(c, t) \in Nat /\ Share(c, t) <= t.seen[c] /\ Share(c, t) <= t.left
      /\ HasExpired(c, t.at) => Share(c, t) = 0
      /\ ~HasExpired(c, t.at) /\ Share(c, t) < t.seen[c] => Share(c, t) = t.left
  BY <1>3 DEF Share
<1>5. /\ u.stage = "taking" /\ u.rows = t.rows /\ u.next = t.next \ {c} /\ u.at = t.at
      /\ u.seen = t.seen /\ u.left = t.left - Share(c, t) /\ u.cost = t.cost
      /\ u.taken = [t.taken EXCEPT ![c] = Share(c, t)]
      /\ u \in [stage : {"taking"}, rows : SUBSET Ids, next : SUBSET t.rows, at : Nat,
                cost : Nat, left : Nat, seen : [t.rows -> Nat], taken : [t.rows -> Nat]]
  <2>. DEFINE given == [t.taken EXCEPT ![c] = Share(c, t)]
              rest == t.left - Share(c, t)
  <2>1. given \in [t.rows -> Nat] /\ rest \in Nat /\ t.next \ {c} \in SUBSET t.rows
    BY <1>3, <1>4
  <2>2. u = [t EXCEPT !.next = t.next \ {c}, !.taken = given, !.left = rest]
    BY <1>3
  <2>. HIDE DEF given, rest, u
  <2>3. u \in [stage : {"taking"}, rows : SUBSET Ids, next : SUBSET t.rows, at : Nat,
                cost : Nat, left : Nat, seen : [t.rows -> Nat], taken : [t.rows -> Nat]]
    BY <2>1, <2>2, <1>3
  <2>4. /\ u.stage = "taking" /\ u.rows = t.rows /\ u.next = t.next \ {c} /\ u.at = t.at
        /\ u.seen = t.seen /\ u.left = rest /\ u.taken = given /\ u.cost = t.cost
    BY <2>1, <2>2, <1>3
  <2>. QED  BY <2>3, <2>4 DEF given, rest
<1>6. u.taken[c] = Share(c, t) /\ \A d \in t.rows \ {c} : u.taken[d] = t.taken[d]
  BY <1>3, <1>5
<1>7. tx' = [tx EXCEPT ![w] = u] /\ tx'[w] = u
  BY <1>2 DEF Goes, Inv, Tables
<1>. HIDE DEF u
<1>8. Met(u) = Met(t) \cup {c} /\ c \notin Met(t) /\ Met(t) \subseteq t.rows
  BY <1>2, <1>3, <1>5 DEF Met
<1>9. /\ \A d \in t.rows : /\ u.taken[d] <= u.seen[d] /\ u.seen[d] = credits[d].remaining
                           /\ d \in u.next \/ HasExpired(d, u.at) => u.taken[d] = 0
      /\ \A x \in Met(u), d \in u.next : Sooner(x, d)
  <2>1. ASSUME NEW d \in t.rows
        PROVE  /\ u.taken[d] <= u.seen[d] /\ u.seen[d] = credits[d].remaining
               /\ d \in u.next \/ HasExpired(d, u.at) => u.taken[d] = 0
    <3>1. CASE d = c
      BY <3>1, <1>1, <1>3, <1>4, <1>5, <1>6 DEF Holds
    <3>2. CASE d # c
      BY <3>2, <1>1, <1>3, <1>5, <1>6 DEF Holds
    <3>. QED  BY <3>1, <3>2
  <2>2. \A x \in Met(u), d \in u.next : Sooner(x, d)
    BY <1>1, <1>2, <1>5, <1>8 DEF Holds
  <2>. QED  BY <2>1, <2>2
<1>10. ASSUME NEW d \in Met(u), ~HasExpired(d, u.at), u.taken[d] < u.seen[d]
       PROVE  u.left = 0 /\ \A x \in Met(u) : u.taken[x] > 0 => x = d \/ Sooner(x, d)
  <2>1. CASE d = c
    <3>1. u.left = 0
      BY <2>1, <1>3, <1>4, <1>5, <1>6, <1>10
    <3>2. \A x \in Met(t) : Sooner(x, c)
      BY <1>1, <1>2 DEF Holds
    <3>. QED  BY <2>1, <3>1, <3>2, <1>8
  <2>2. CASE d # c
    <3>1. d \in Met(t) /\ t.taken[d] < t.seen[d] /\ ~HasExpired(d, t.at)
      BY <2>2, <1>5, <1>6, <1>8, <1>10
    <3>2. t.left = 0
      BY <3>1, <1>1 DEF Holds
    <3>. QED  BY <3>2, <1>1
  <2>. QED  BY <2>1, <2>2
<1>11. Ids' = Ids /\ credits' = credits
  BY DEF Take, Ids
<1>14. Total(u.rows, u.taken) + u.left = u.cost
  <2>1. IsFiniteSet(t.rows)
    BY <1>3, IdsFinite, FS_Subset
  <2>2. Summable(t.rows, t.taken) /\ Summable(t.rows, u.taken)
    BY <2>1, <1>3, <1>5 DEF Summable
  <2>3. t.taken[c] = 0 /\ Total(t.rows, t.taken) + t.left = t.cost
    BY <1>1, <1>2, <1>3 DEF Holds
  <2>4. Total(t.rows, u.taken) = Total(t.rows, t.taken) - t.taken[c] + u.taken[c]
    BY <2>2, <1>3, <1>6, TotalChanged
  <2>5. Total(t.rows, t.taken) \in Int /\ Total(t.rows, u.taken) \in Int
    BY <2>2, TotalType
  <2>6. t.left \in Nat /\ t.cost \in Nat
    BY <1>3
  <2>. QED  BY <2>3, <2>4, <2>5, <2>6, <1>4, <1>5, <1>6
<1>12. Holds(w)'
  BY <1>3, <1>5, <1>7, <1>9, <1>10, <1>11, <1>14 DEF Holds, Met, HasExpired, Sooner
<1>13. Means(w)' /\ WasDue(w)' /\ Locked(w)' = Locked(w)
  BY <1>1, <1>5, <1>7 DEF Means, WasDue, Locked
<1>. QED  BY <1>7, <1>12, <1>13, QuietStep DEF Take, Inv

\* What a purchase writes, row by row.
LEMMA Paid ==
  ASSUME Inv, NEW w \in Workers, Pay(w), NEW c \in Ids
  PROVE  /\ credits'[c] \in CreditRow /\ allocated'[c] \in Nat
         /\ credits'[c].amount = credits[c].amount
         /\ credits'[c].revoked = credits[c].revoked
         /\ credits'[c].status \in {credits[c].status, "expired"}
         /\ c \notin tx[w].rows => credits'[c] = credits[c] /\ allocated'[c] = allocated[c]
         /\ c \in tx[w].rows =>
              /\ credits'[c].remaining = tx[w].seen[c] - tx[w].taken[c]
              /\ allocated'[c] = allocated[c] + tx[w].taken[c]
              /\ tx[w].seen[c] = credits[c].remaining
              /\ tx[w].seen[c] \in Nat /\ tx[w].taken[c] \in Nat /\ tx[w].taken[c] <= tx[w].seen[c]
<1>. DEFINE t == tx[w]
<1>1. /\ t \in [stage : {"taking"}, rows : SUBSET Ids, next : SUBSET t.rows, at : Nat,
                cost : Nat, left : Nat, seen : [t.rows -> Nat], taken : [t.rows -> Nat]]
      /\ \A d \in t.rows : /\ t.taken[d] <= t.seen[d] /\ t.seen[d] = credits[d].remaining
                           /\ d \in t.next \/ HasExpired(d, t.at) => t.taken[d] = 0
  BY DEF Pay, Inv, Holds
<1>2. credits[c] \in CreditRow /\ allocated[c] \in Nat
  BY RowOf
<1>3. /\ credits'[c] = IF c \notin Met(t) THEN credits[c]
                        ELSE IF HasExpired(c, t.at) THEN [credits[c] EXCEPT !.status = "expired"]
                        ELSE [credits[c] EXCEPT !.remaining = t.seen[c] - t.taken[c]]
      /\ allocated'[c] = IF c \in t.rows THEN allocated[c] + t.taken[c] ELSE allocated[c]
  BY DEF Pay
<1>4. Met(t) \subseteq t.rows /\ \A d \in t.rows \ Met(t) : d \in t.next
  BY DEF Met
<1>5. CASE c \notin t.rows
  BY <1>2, <1>3, <1>4, <1>5
<1>6. CASE c \in t.rows
  <2>1. t.seen[c] \in Nat /\ t.taken[c] \in Nat /\ t.seen[c] = credits[c].remaining
    BY <1>1, <1>6
  <2>2. c \notin Met(t) \/ HasExpired(c, t.at) =>
          t.taken[c] = 0 /\ t.taken[c] <= t.seen[c] /\ t.seen[c] = t.seen[c] - t.taken[c]
    BY <2>1, <1>1, <1>4, <1>6
  <2>3. CASE c \notin Met(t)
    <3>1. credits'[c] = credits[c] /\ allocated'[c] = allocated[c] + t.taken[c]
      BY <2>3, <1>3, <1>6
    <3>2. allocated'[c] \in Nat
      BY <3>1, <2>1, <1>2
    <3>. QED  BY <3>1, <3>2, <2>1, <2>2, <2>3, <1>2, <1>6
  <2>4. CASE c \in Met(t) /\ HasExpired(c, t.at)
    <3>1. /\ credits'[c] = [credits[c] EXCEPT !.status = "expired"]
          /\ allocated'[c] = allocated[c] + t.taken[c]
      BY <2>4, <1>3, <1>6
    <3>2. allocated'[c] \in Nat
      BY <3>1, <2>1, <1>2
    <3>3. /\ credits'[c] \in CreditRow
          /\ credits'[c].remaining = credits[c].remaining /\ credits'[c].amount = credits[c].amount
          /\ credits'[c].revoked = credits[c].revoked /\ credits'[c].status = "expired"
      BY <3>1, <1>2, Recoloured
    <3>4. t.taken[c] <= t.seen[c] /\ t.seen[c] = t.seen[c] - t.taken[c]
      BY <2>2, <2>4
    <3>. QED  BY <3>1, <3>2, <3>3, <3>4, <2>1, <1>6
  <2>5. CASE c \in Met(t) /\ ~HasExpired(c, t.at)
    <3>1. t.seen[c] - t.taken[c] \in Nat
      BY <2>1, <1>1, <1>6
    <3>2. /\ credits'[c] = [credits[c] EXCEPT !.remaining = t.seen[c] - t.taken[c]]
          /\ allocated'[c] = allocated[c] + t.taken[c] /\ t.taken[c] <= t.seen[c]
      BY <2>5, <1>1, <1>3, <1>6
    <3>3. /\ credits'[c] \in CreditRow /\ credits'[c].remaining = t.seen[c] - t.taken[c]
          /\ credits'[c].amount = credits[c].amount
          /\ credits'[c].revoked = credits[c].revoked /\ credits'[c].status = credits[c].status
      <4>1. PICK rest \in Nat : rest = t.seen[c] - t.taken[c]
        BY <3>1
      <4>2. credits'[c] = [credits[c] EXCEPT !.remaining = rest]
        BY <4>1, <3>2
      <4>. QED  BY <4>1, <4>2, <1>2, Reduced
    <3>4. allocated'[c] \in Nat
      BY <3>2, <2>1, <1>2
    <3>. QED  BY <3>2, <3>3, <3>4, <2>1, <1>6
  <2>. QED  BY <2>3, <2>4, <2>5
<1>. QED  BY <1>5, <1>6

LEMMA PaySound ==
  ASSUME NEW w \in Workers PROVE Inv /\ Pay(w) => Inv'
<1>. SUFFICES ASSUME Inv, Pay(w) PROVE Inv'
  OBVIOUS
<1>1. /\ tx' = [tx EXCEPT ![w] = Idle] /\ Locked(w)' = {}
      /\ Holds(w)' /\ Means(w)' /\ WasDue(w)'
  BY GoesIdle DEF Pay
<1>2. tx' = [v \in Workers |-> tx'[v]] /\ \A v \in Workers \ {w} : tx'[v] = tx[v]
  BY <1>1 DEF Inv, Tables
<1>3. /\ credits' = [c \in Ids |-> credits'[c]] /\ allocated' = [c \in Ids |-> allocated'[c]]
      /\ UNCHANGED <<grants, now, hurried>>
  BY DEF Pay
<1>4. \A c \in Ids : credits'[c] \in CreditRow /\ allocated'[c] \in Nat
  BY Paid
<1>5. CreditsBalance'
  <2>1. Ids' = Ids
    BY <1>3 DEF Ids
  <2>2. ASSUME NEW c \in Ids PROVE Balanced(credits'[c], allocated'[c])
    <3>1. /\ credits[c].remaining \in Nat /\ allocated[c] \in Nat /\ credits[c].amount \in Nat
          /\ Balanced(credits[c], allocated[c])
      BY RowOf, LedgerIs DEF Inv, CreditRow
    <3>2. CASE c \notin tx[w].rows
      BY <3>1, <3>2, Paid
    <3>3. CASE c \in tx[w].rows
      <4>1. PICK seen \in Nat, taken \in Nat :
              /\ taken <= seen /\ seen = credits[c].remaining
              /\ credits'[c].remaining = seen - taken /\ allocated'[c] = allocated[c] + taken
        BY <3>3, Paid
      <4>2. /\ credits'[c].amount = credits[c].amount /\ credits'[c].revoked = credits[c].revoked
            /\ credits'[c].status \in {credits[c].status, "expired"}
        BY Paid
      <4>. QED  BY <3>1, <4>1, <4>2 DEF Balanced
    <3>. QED  BY <3>2, <3>3
  <2>. QED  BY <2>1, <2>2, LedgerIsNext
<1>6. \A v \in Workers \ {w} : \A c \in Locked(v) : credits'[c] = credits[c]
  <2>1. \A v \in Workers \ {w} : Locked(v) \subseteq Ids /\ Locked(v) \cap tx[w].rows = {}
    BY DEF Inv, Holds, Locked, Pay
  <2>. QED  BY <2>1, Paid
<1>. QED  BY <1>1, <1>2, <1>3, <1>4, <1>5, <1>6, RewriteSound

LEMMA RefuseSound ==
  ASSUME NEW w \in Workers PROVE Inv /\ Refuse(w) => Inv'
BY GoesIdle, QuietStep DEF Refuse

LEMMA RollBackSound ==
  ASSUME NEW w \in Workers PROVE Inv /\ RollBack(w) => Inv'
BY GoesIdle, QuietStep DEF RollBack

LEMMA FindSound ==
  ASSUME NEW w \in Workers, NEW ref \in Refs, NEW amount \in Amounts, NEW onUpgrade \in BOOLEAN
  PROVE  Inv /\ Find(w, ref, amount, onUpgrade) => Inv'
<1>. SUFFICES ASSUME Inv, Find(w, ref, amount, onUpgrade) PROVE Inv'
  OBVIOUS
<1>. DEFINE t == [stage |-> "ensuring", ref |-> ref, amount |-> amount, onUpgrade |-> onUpgrade,
                  id |-> IF Of(ref) = {} THEN 0 ELSE First(Of(ref)),
                  row |-> IF Of(ref) = {} THEN None ELSE grants[First(Of(ref))]]
<1>1. tx' = [tx EXCEPT ![w] = t] /\ tx'[w] = t
  BY DEF Find, Goes, Inv, Tables
<1>2. Of(ref) # {} => First(Of(ref)) \in Of(ref)
  BY FirstIsOne DEF Of
<1>3. /\ t.stage = "ensuring" /\ t.ref \in Refs /\ t.amount \in Nat
      /\ t.id = 0 \/ t.id \in GrantIds
  BY <1>2, LedgerAssumption DEF Of
<1>4. GrantIds' = GrantIds /\ GrantIds \subseteq Nat
  BY SeqIsFunction DEF Find, GrantIds, Inv, Tables
<1>. HIDE DEF t
<1>5. Holds(w)' /\ Means(w)' /\ WasDue(w)' /\ Locked(w)' = {}
  BY <1>1, <1>3, <1>4 DEF Holds, Means, WasDue, Locked
<1>. QED  BY <1>1, <1>5, QuietStep DEF Find

\* A step that writes the grants and nothing of the credits.
LEMMA GrantsWritten ==
  ASSUME Inv, NEW w \in Workers, tx'[w] = Idle, UNCHANGED <<credits, allocated, now>>,
         tx' = [v \in Workers |-> tx'[v]], \A v \in Workers \ {w} : tx'[v] = tx[v],
         grants' \in Seq(GrantRow), Schedule', GrantIds \subseteq GrantIds',
         \A i \in GrantIds : grants'[i].last = grants[i].last, hurried \subseteq hurried'
  PROVE  Inv'
<1>1. Tables' /\ CreditsBalance' /\ Ids' = Ids
  BY DEF Inv, Tables, CreditsBalance, Ids
<1>2. Holds(w)' /\ Means(w)' /\ WasDue(w)' /\ Locked(w)' = {}
  BY IdleIsSound
<1>. DEFINE S == {w}
<1>3. /\ S \in SUBSET Workers /\ \A u, v \in S : u = v
      /\ \A u \in S : /\ Holds(u)' /\ Means(u)' /\ WasDue(u)'
                      /\ \A v \in Workers \ {u} : Locked(v) \cap Locked(u)' = {}
      /\ \A v \in Workers \ S : tx'[v] = tx[v]
  BY <1>2
<1>. HIDE DEF S
<1>. QED  BY <1>1, <1>3, SessionStep

LEMMA GrantOf ==
  ASSUME Inv, NEW i \in GrantIds PROVE grants[i] \in GrantRow
BY SeqIsFunction DEF Inv, Tables, GrantIds

LEMMA InsertSound ==
  ASSUME NEW w \in Workers, NEW due \in {now, now + Month} PROVE Inv /\ Insert(w, due) => Inv'
<1>. SUFFICES ASSUME Inv, Insert(w, due) PROVE Inv'
  OBVIOUS
<1>. DEFINE row == [ref |-> tx[w].ref, amount |-> tx[w].amount, status |-> "active",
                    last |-> Never, due |-> due]
<1>1. tx' = [v \in Workers |-> tx'[v]] /\ tx'[w] = Idle /\ \A v \in Workers \ {w} : tx'[v] = tx[v]
  BY DEF Insert, Goes, Inv, Tables
<1>2. row \in GrantRow /\ row.last = Never
  <2>1. tx[w].ref \in Refs /\ tx[w].amount \in Nat
    BY DEF Insert, Inv, Means
  <2>2. due \in Nat
    BY LedgerAssumption DEF Inv, Tables
  <2>. QED  BY <2>1, <2>2 DEF GrantRow, Never
<1>3. grants' = Append(grants, row) /\ grants \in Seq(GrantRow)
  BY DEF Insert, Inv, Tables
<1>. HIDE DEF row
<1>4. /\ grants' \in Seq(GrantRow) /\ GrantIds' = GrantIds \cup {Len(grants) + 1}
      /\ \A i \in GrantIds : grants'[i] = grants[i]
      /\ grants'[Len(grants) + 1] = row
  BY <1>2, <1>3, AppendProperties DEF GrantIds
<1>5. Schedule'
  BY <1>2, <1>4 DEF Inv, Schedule, Insert
<1>. QED  BY <1>1, <1>4, <1>5, GrantsWritten DEF Insert

LEMMA UpdateSound ==
  ASSUME NEW w \in Workers PROVE Inv /\ Update(w) => Inv'
<1>. SUFFICES ASSUME Inv, Update(w) PROVE Inv'
  OBVIOUS
<1>. DEFINE t == tx[w]
            old == grants[t.id]
            row == [old EXCEPT !.amount = IF t.amount # t.row.amount THEN t.amount ELSE @,
                               !.status = IF t.row.status # "active" THEN "active" ELSE @,
                               !.due = IF Upgrades(t) \/ Revives(t) THEN now ELSE @]
<1>1. tx' = [v \in Workers |-> tx'[v]] /\ tx'[w] = Idle /\ \A v \in Workers \ {w} : tx'[v] = tx[v]
  BY DEF Update, Goes, Inv, Tables
<1>2. t.id \in GrantIds /\ t.amount \in Nat /\ now \in Nat /\ old \in GrantRow
  BY GrantOf DEF Update, Inv, Means, Tables
<1>3. /\ row \in GrantRow /\ row.last = old.last
      /\ row.due = old.due \/ Upgrades(t) \/ Revives(t)
  BY <1>2 DEF GrantRow
<1>4. grants' = [grants EXCEPT ![t.id] = row] /\ grants \in Seq(GrantRow)
  BY <1>2 DEF Update, GrantRow, Inv, Tables
<1>. HIDE DEF row
<1>5. /\ grants' \in Seq(GrantRow) /\ GrantIds' = GrantIds /\ grants'[t.id] = row
      /\ \A i \in GrantIds \ {t.id} : grants'[i] = grants[i]
  BY <1>2, <1>3, <1>4 DEF GrantIds
<1>6. hurried \subseteq hurried' /\ (Upgrades(t) \/ Revives(t) => t.id \in hurried')
  BY DEF Update, Upgrades, Revives
<1>7. Schedule'
  BY <1>2, <1>3, <1>5, <1>6 DEF Inv, Schedule
<1>. QED  BY <1>1, <1>3, <1>5, <1>6, <1>7, GrantsWritten DEF Update

LEMMA CancelSound ==
  ASSUME NEW w \in Workers, NEW ref \in Refs PROVE Inv /\ Cancel(w, ref) => Inv'
<1>. SUFFICES ASSUME Inv, Cancel(w, ref) PROVE Inv'
  OBVIOUS
<1>. DEFINE i == First(Of(ref))
            row == [grants[i] EXCEPT !.status = "cancelled", !.due = Never]
<1>1. tx' = [v \in Workers |-> tx'[v]] /\ tx'[w] = Idle /\ \A v \in Workers \ {w} : tx'[v] = tx[v]
  BY DEF Cancel, Begin, Inv, Tables
<1>2. i \in GrantIds
  BY FirstIsOne DEF Of, Cancel
<1>3. /\ grants[i] \in GrantRow /\ row \in GrantRow /\ row.due = Never
      /\ row.last = grants[i].last
  BY <1>2, GrantOf DEF GrantRow, Never
<1>4. grants' = [grants EXCEPT ![i] = row] /\ grants \in Seq(GrantRow)
  BY <1>2, <1>3 DEF Cancel, GrantRow, Inv, Tables
<1>. HIDE DEF row, i
<1>5. /\ grants' \in Seq(GrantRow) /\ GrantIds' = GrantIds /\ grants'[i] = row
      /\ \A j \in GrantIds \ {i} : grants'[j] = grants[j]
  BY <1>2, <1>3, <1>4 DEF GrantIds
<1>6. Schedule'
  BY <1>2, <1>3, <1>5 DEF Inv, Schedule, Cancel
<1>. QED  BY <1>1, <1>3, <1>5, <1>6, GrantsWritten DEF Cancel

LEMMA FetchSound ==
  ASSUME NEW w \in Workers PROVE Inv /\ Fetch(w) => Inv'
<1>. SUFFICES ASSUME Inv, Fetch(w) PROVE Inv'
  OBVIOUS
<1>1. PICK n \in 1..Batch : \E order \in [1..n -> DueNow] :
        Goes(w, [stage |-> "granting", order |-> order, at |-> now, clash |-> {},
                 amount |-> [k \in 1..n |-> grants[order[k]].amount]])
  BY DEF Fetch
<1>2. PICK order \in [1..n -> DueNow] :
        Goes(w, [stage |-> "granting", order |-> order, at |-> now, clash |-> {},
                 amount |-> [k \in 1..n |-> grants[order[k]].amount]])
  BY <1>1
<1>. DEFINE amount == [k \in 1..n |-> grants[order[k]].amount]
            t == [stage |-> "granting", order |-> order, at |-> now, clash |-> {}, amount |-> amount]
<1>3. n \in Nat /\ DueNow \subseteq GrantIds /\ now \in Nat
  BY LedgerAssumption DEF DueNow, Inv, Tables
<1>4. order \in Seq(GrantIds) /\ Len(order) = n /\ order \in Seq(DueNow) /\ DOMAIN order = 1..n
  BY <1>3, FunctionIsSeq
<1>5. amount \in [1..n -> Nat]
  <2>1. ASSUME NEW k \in 1..n PROVE grants[order[k]].amount \in Nat
    <3>1. order[k] \in GrantIds
      BY <1>3
    <3>. QED  BY <3>1, GrantOf DEF GrantRow
  <2>. QED  BY <2>1
<1>. HIDE DEF amount
<1>6. /\ t.stage = "granting" /\ t.order = order /\ t.at = now /\ t.clash = {} /\ t.amount = amount
      /\ t \in [stage : {"granting"}, order : Seq(GrantIds), at : Nat, clash : SUBSET GrantIds,
                amount : [1..Len(order) -> Nat]]
  BY <1>3, <1>4, <1>5
<1>7. tx' = [tx EXCEPT ![w] = t] /\ tx'[w] = t
  BY <1>2 DEF Goes, Inv, Tables, amount
<1>. HIDE DEF t
<1>8. Held(t) \subseteq DueNow
  BY <1>4, <1>6 DEF Held
<1>9. \A i \in Held(t) : grants[i].last = Never \/ now >= grants[i].last + Month \/ i \in hurried
  <2>1. ASSUME NEW i \in Held(t)
        PROVE  grants[i].last = Never \/ now >= grants[i].last + Month \/ i \in hurried
    <3>1. i \in GrantIds /\ grants[i].due # Never /\ grants[i].due <= now
      BY <1>8 DEF DueNow, IsDue
    <3>2. grants[i].due \in Nat /\ grants[i].last \in Nat
      BY <3>1, GrantOf DEF GrantRow
    <3>. QED  BY <3>1, <3>2, <1>3, LedgerAssumption DEF Inv, Schedule
  <2>. QED  BY <2>1
<1>10. GrantIds' = GrantIds /\ grants' = grants /\ hurried' = hurried
  BY DEF Fetch, GrantIds
<1>11. WasDue(w)'
  BY <1>6, <1>7, <1>9, <1>10 DEF WasDue, Held
<1>12. Holds(w)' /\ Means(w)' /\ Locked(w)' = {}
  BY <1>6, <1>7 DEF Holds, Means, Locked
<1>. QED  BY <1>7, <1>11, <1>12, QuietStep DEF Fetch

\* A monthly run inserts credits for what it holds, and sets when each grant
\* is due next; what another run holds of them clashes.
LEMMA GrantSound ==
  ASSUME NEW w \in Workers PROVE Inv /\ Grant(w) => Inv'
<1>. SUFFICES ASSUME Inv, Grant(w) PROVE Inv'
  OBVIOUS
<1>. DEFINE t == tx[w]
            none == [k \in 1..Len(t.order) |-> 0]
<1>1. /\ t \in [stage : {"granting"}, order : Seq(GrantIds), at : Nat, clash : SUBSET GrantIds,
                amount : [1..Len(t.order) -> Nat]]
      /\ Held(t) \subseteq GrantIds
  BY HeldAreRows DEF Inv, WasDue, Grant
<1>2. /\ Len(t.order) \in Nat /\ t.order \in [1..Len(t.order) -> GrantIds] /\ t.at \in Nat
      /\ t.amount \in [1..Len(t.order) -> Nat]
  BY <1>1, SeqIsFunction
<1>3. ASSUME NEW k \in 1..Len(t.order)
      PROVE  Given(t)[k] \in CreditRow /\ Whole(Given(t)[k])
  <2>1. Given(t)[k] = Credit(Subscriber[grants[t.order[k]].ref], None, t.amount[k], Never)
    BY DEF Given
  <2>2. grants[t.order[k]].ref \in Refs
    BY <1>2, GrantOf DEF GrantRow
  <2>3. Subscriber[grants[t.order[k]].ref] \in Players /\ t.amount[k] \in Nat /\ Never \in Nat
    BY <2>2, <1>2, LedgerAssumption DEF Never
  <2>4. PICK player \in Players, amount \in Nat : Given(t)[k] = Credit(player, None, amount, Never)
    BY <2>1, <2>3
  <2>. QED  BY <2>3, <2>4, CreditIsRow DEF Credit, Whole
<1>4. /\ Given(t) \in Seq(CreditRow) /\ Len(Given(t)) = Len(t.order)
      /\ none \in Seq(Nat) /\ Len(none) = Len(t.order)
  <2>1. Given(t) \in [1..Len(t.order) -> CreditRow]
    BY <1>3 DEF Given
  <2>2. none \in [1..Len(t.order) -> Nat]
    OBVIOUS
  <2>. HIDE DEF none
  <2>3. Given(t) \in Seq(CreditRow) /\ Len(Given(t)) = Len(t.order)
    BY <1>2, <2>1, FunctionIsSeq
  <2>4. none \in Seq(Nat) /\ Len(none) = Len(t.order)
    BY <1>2, <2>2, FunctionIsSeq
  <2>. QED  BY <2>3, <2>4
<1>5. /\ credits' = credits \o Given(t) /\ allocated' = allocated \o none
      /\ \A k \in 1..Len(Given(t)) : none[k] = 0 /\ Whole(Given(t)[k])
  BY <1>3, <1>4 DEF Grant
<1>. HIDE DEF none
<1>6. /\ credits' \in Seq(CreditRow) /\ allocated' \in Seq(Nat) /\ Len(allocated') = Len(credits')
      /\ Ids \subseteq Ids' /\ \A c \in Ids : credits'[c] = credits[c]
      /\ CreditsBalance'
  BY <1>4, <1>5, Adds
<1>7. /\ grants' = [i \in GrantIds |-> grants'[i]]
      /\ \A i \in GrantIds \ Held(t) : grants'[i] = grants[i]
      /\ \A i \in Held(t) : /\ grants'[i] \in GrantRow
                           /\ grants'[i].last = t.at /\ grants'[i].due = t.at + Month
  <2>1. ASSUME NEW i \in Held(t)
        PROVE  /\ grants'[i] \in GrantRow
               /\ grants'[i].last = t.at /\ grants'[i].due = t.at + Month
    <3>1. PICK due \in Nat : due = t.at + Month
      BY <1>2, LedgerAssumption
    <3>2. grants'[i] = [grants[i] EXCEPT !.last = t.at, !.due = due]
      BY <1>1, <3>1 DEF Grant, NextDue
    <3>3. grants[i] \in GrantRow
      BY <1>1, GrantOf
    <3>. QED  BY <3>1, <3>2, <3>3, <1>2 DEF GrantRow
  <2>. QED  BY <2>1 DEF Grant
<1>8. grants' \in Seq(GrantRow) /\ GrantIds' = GrantIds
  <2>1. \A i \in GrantIds : grants'[i] \in GrantRow
    BY <1>7, GrantOf
  <2>2. grants \in Seq(GrantRow)
    BY DEF Inv, Tables
  <2>. QED  BY <1>7, <2>1, <2>2, Rewritten DEF GrantIds
<1>9. Schedule'
  <2>1. ASSUME NEW i \in GrantIds
        PROVE  \/ grants'[i].last = Never \/ grants'[i].due = Never
               \/ i \in hurried' \/ grants'[i].due >= grants'[i].last + Month
    <3>1. CASE i \in Held(t)
      <4>1. t.at + Month >= t.at + Month
        BY <1>2, LedgerAssumption
      <4>. QED  BY <3>1, <4>1, <1>7
    <3>2. CASE i \notin Held(t)
      BY <3>2, <1>7 DEF Inv, Schedule, Grant
    <3>. QED  BY <3>1, <3>2
  <2>. QED  BY <2>1, <1>8 DEF Schedule
<1>10. Tables'
  BY <1>6, <1>8 DEF Inv, Tables, Grant
<1>11. tx'[w] = Idle /\ \A v \in Workers \ {w} :
         IF tx[v].stage = "granting" THEN tx'[v] = [tx[v] EXCEPT !.clash = tx[v].clash \cup Held(t)]
         ELSE tx'[v] = tx[v]
  BY DEF Grant
<1>12. ASSUME NEW v \in Workers \ {w}
       PROVE  Holds(v)' /\ Means(v)' /\ WasDue(v)' /\ Locked(v)' = Locked(v)
  <2>1. CASE tx[v].stage # "granting"
    <3>1. tx'[v] = tx[v] /\ Locked(v) \subseteq Ids
      BY <2>1, <1>11 DEF Inv, Holds, Locked
    <3>2. WasDue(v)'
      BY <2>1, <3>1 DEF WasDue
    <3>3. Holds(v)'
      BY <3>1, <1>6, HoldsStays DEF Inv
    <3>4. Means(v)' /\ Locked(v)' = Locked(v)
      BY <3>1, <1>8, MeansStays DEF Inv, Locked
    <3>. QED  BY <3>2, <3>3, <3>4
  <2>2. CASE tx[v].stage = "granting"
    <3>. DEFINE u == tx'[v]
    <3>1. /\ tx[v] \in [stage : {"granting"}, order : Seq(GrantIds), at : Nat,
                       clash : SUBSET GrantIds, amount : [1..Len(tx[v].order) -> Nat]]
          /\ Held(tx[v]) \subseteq GrantIds
      BY <2>2, HeldAreRows DEF Inv, WasDue
    <3>2. u = [tx[v] EXCEPT !.clash = tx[v].clash \cup Held(t)]
      BY <2>2, <1>11
    <3>3. /\ u \in [stage : {"granting"}, order : Seq(GrantIds), at : Nat,
                    clash : SUBSET GrantIds, amount : [1..Len(tx[v].order) -> Nat]]
          /\ u.stage = "granting" /\ u.order = tx[v].order /\ u.at = tx[v].at
          /\ u.clash = tx[v].clash \cup Held(t)
      <4>1. tx[v].clash \cup Held(t) \in SUBSET GrantIds
        BY <1>1, <3>1
      <4>. QED  BY <3>1, <3>2, <4>1
    <3>. HIDE DEF u
    <3>4. Held(u) = Held(tx[v])
      BY <3>3 DEF Held
    <3>5. ASSUME NEW i \in Held(u)
          PROVE  \/ grants'[i].last = Never \/ u.at >= grants'[i].last + Month
                 \/ i \in hurried' \/ i \in u.clash
      <4>1. CASE i \in Held(t)
        BY <4>1, <3>3
      <4>2. CASE i \notin Held(t)
        <5>1. \/ grants[i].last = Never \/ tx[v].at >= grants[i].last + Month
              \/ i \in hurried \/ i \in tx[v].clash
          BY <2>2, <3>4 DEF Inv, WasDue
        <5>2. grants'[i] = grants[i] /\ (i \in hurried => i \in hurried')
          BY <4>2, <3>1, <3>4, <1>7 DEF Grant
        <5>. QED  BY <5>1, <5>2, <3>3
      <4>. QED  BY <4>1, <4>2
    <3>6. WasDue(v)'
      BY <3>3, <3>5, <1>8 DEF WasDue, Held, u
    <3>7. Holds(v)' /\ Means(v)' /\ Locked(v)' = {} /\ Locked(v) = {}
      BY <2>2, <3>3 DEF Holds, Means, Locked, u
    <3>. QED  BY <3>6, <3>7
  <2>. QED  BY <2>1, <2>2
<1>13. Holds(w)' /\ Means(w)' /\ WasDue(w)' /\ Locked(w)' = {}
  BY <1>11, IdleIsSound
<1>14. \A u, v \in Workers : u # v => Locked(u)' \cap Locked(v)' = {}
  BY <1>12, <1>13 DEF Inv
<1>. QED  BY <1>6, <1>9, <1>10, <1>12, <1>13, <1>14 DEF Inv

-----------------------------------------------------------------------------
(* The theorems.                                                           *)

LEMMA NextSound == Inv /\ [Next]_vars => Inv'
<1>. SUFFICES ASSUME Inv, [Next]_vars PROVE Inv'
  OBVIOUS
<1>1. CASE Tick
  BY <1>1, TickSound
<1>2. ASSUME NEW a \in Awards, Award(a) PROVE Inv'
  BY <1>2, AwardSound
<1>3. ASSUME NEW w \in Workers, NEW c \in Ids, Revoke(w, c) PROVE Inv'
  BY <1>3, RevokeSound
<1>4. ASSUME NEW w \in Workers, ListExpired(w) \/ MarkExpired(w) PROVE Inv'
  BY <1>4, ListExpiredSound, MarkExpiredSound
<1>5. ASSUME NEW w \in Workers, NEW purse \in Purses, NEW cost \in Costs, Ask(w, purse, cost)
      PROVE  Inv'
  BY <1>5, AskSound
<1>6. ASSUME NEW w \in Workers, Lock(w) \/ Take(w) \/ Pay(w) \/ Refuse(w) PROVE Inv'
  BY <1>6, LockSound, TakeSound, PaySound, RefuseSound
<1>7. ASSUME NEW w \in Workers, NEW ref \in Refs, NEW amount \in Amounts, NEW onUpgrade \in BOOLEAN,
             Find(w, ref, amount, onUpgrade)
      PROVE  Inv'
  BY <1>7, FindSound
<1>8. ASSUME NEW w \in Workers, NEW due \in {now, now + Month}, Insert(w, due) PROVE Inv'
  BY <1>8, InsertSound
<1>9. ASSUME NEW w \in Workers, NEW ref \in Refs, Cancel(w, ref) PROVE Inv'
  BY <1>9, CancelSound
<1>10. ASSUME NEW w \in Workers, Update(w) \/ Fetch(w) \/ Grant(w) \/ RollBack(w) PROVE Inv'
  BY <1>10, UpdateSound, FetchSound, GrantSound, RollBackSound
<1>11. CASE UNCHANGED vars
  <2>1. Tables' /\ CreditsBalance' /\ Schedule' /\ tx' = tx
    BY <1>11 DEF vars, Inv, Tables, CreditsBalance, Schedule, Ids, GrantIds
  <2>2. Ids' = Ids /\ GrantIds' = GrantIds /\ {} \in SUBSET Workers
    BY <1>11 DEF vars, Ids, GrantIds
  <2>. QED  BY <1>11, <2>1, <2>2, SessionStep DEF vars
<1>. QED
  BY <1>1, <1>2, <1>3, <1>4, <1>5, <1>6, <1>7, <1>8, <1>9, <1>10, <1>11 DEF Next

\* The invariant, with what is said of purchases and monthly runs at work.
THEOREM InductiveInvariant == Spec => []Inv
<1>1. Init => Inv
  BY InitSound
<1>2. Inv /\ [Next]_vars => Inv'
  BY NextSound
<1>. QED  BY <1>1, <1>2, PTL DEF Spec

\* What is left of a credit and what was taken from it make it up, or it was
\* revoked and nothing is left, whatever sessions do beside each other
\* (points.py, _consume_points, expire_due_credits, revoke_credit).
THEOREM LedgerBalances == Spec => []CreditsBalance
<1>1. Inv => CreditsBalance
  BY DEF Inv
<1>. QED  BY <1>1, InductiveInvariant, PTL

\* A monthly run gives a grant only a month after it was last given
\* (points.py, process_recurring_point_grants).
THEOREM MonthlyGrants == Spec => GrantsAreMonthly
<1>. DEFINE Due == \A w \in Workers : Grant(w) =>
       \A i \in Held(tx[w]) : \/ grants[i].last = Never \/ tx[w].at >= grants[i].last + Month
                            \/ i \in hurried \/ i \in tx[w].clash
<1>1. Inv => Due
  BY DEF Inv, WasDue, Grant
<1>. HIDE DEF Due
<1>2. Spec => [][Due]_vars
  BY <1>1, InductiveInvariant, PTL
<1>. QED  BY <1>2 DEF GrantsAreMonthly, Due

\* A purchase takes its price, from what expires soonest and from nothing that
\* has expired
\* (points.py, _consume_points).
THEOREM SoonestFirstHolds == Spec => SoonestFirst
<1>. DEFINE Good(w) == {c \in tx[w].rows : credits[c].expires = Never \/ credits[c].expires > tx[w].at}
            InOrder == \A w \in Workers :
              LET t == tx[w]
                  good == {c \in t.rows : credits[c].expires = Never \/ credits[c].expires > t.at}
              IN Pay(w) =>
                /\ Total(t.rows, [c \in t.rows |-> allocated'[c] - allocated[c]]) = t.cost
                /\ \A c \in t.rows \ good : allocated'[c] = allocated[c]
                /\ \A c, d \in good : allocated'[c] > allocated[c] /\ credits'[d].remaining > 0 =>
                     \/ credits[d].expires = Never
                     \/ credits[c].expires # Never /\ credits[c].expires <= credits[d].expires
<1>1. ASSUME Inv PROVE InOrder
  <2>. SUFFICES ASSUME NEW w \in Workers, Pay(w)
                PROVE  /\ Total(tx[w].rows, [c \in tx[w].rows |-> allocated'[c] - allocated[c]]) = tx[w].cost
                       /\ \A c \in tx[w].rows \ Good(w) : allocated'[c] = allocated[c]
                       /\ \A c, d \in Good(w) :
                            allocated'[c] > allocated[c] /\ credits'[d].remaining > 0 =>
                              \/ credits[d].expires = Never
                              \/ credits[c].expires # Never /\ credits[c].expires <= credits[d].expires
    OBVIOUS
  <2>. DEFINE t == tx[w]
  <2>1. /\ Holds(w) /\ t.stage = "taking" /\ t.left = 0 /\ t.rows \subseteq Ids /\ t.at \in Nat
    BY <1>1 DEF Inv, Pay, Holds
  <2>2. \A c \in t.rows : /\ credits[c].expires \in Nat /\ allocated[c] \in Nat
                          /\ c \in Nat
    <3>1. Ids \subseteq Nat
      BY <1>1, SeqIsFunction DEF Inv, Tables, Ids
    <3>. QED  BY <1>1, <2>1, <3>1, RowOf DEF CreditRow
  <2>3. \A c \in t.rows : c \notin Good(w) <=> HasExpired(c, t.at)
    BY <2>1, <2>2 DEF HasExpired, Never
  <2>4. \A c \in t.rows : /\ allocated'[c] = allocated[c] + t.taken[c]
                          /\ credits'[c].remaining = t.seen[c] - t.taken[c]
                          /\ t.taken[c] \in Nat /\ t.seen[c] \in Nat /\ t.taken[c] <= t.seen[c]
    BY <1>1, <2>1, Paid
  <2>5. ASSUME NEW c \in t.rows \ Good(w) PROVE allocated'[c] = allocated[c]
    <3>1. t.taken[c] = 0
      BY <2>1, <2>3 DEF Holds
    <3>. QED  BY <3>1, <2>2, <2>4
  <2>6. ASSUME NEW c \in Good(w), NEW d \in Good(w), allocated'[c] > allocated[c],
               credits'[d].remaining > 0
        PROVE  \/ credits[d].expires = Never
               \/ credits[c].expires # Never /\ credits[c].expires <= credits[d].expires
    <3>1. t.taken[c] > 0 /\ t.taken[d] < t.seen[d]
      BY <2>2, <2>4, <2>6
    <3>2. c \in Met(t)
      BY <2>1, <3>1 DEF Holds, Met
    <3>3. c = d \/ Sooner(c, d)
      <4>1. CASE d \in t.next
        BY <4>1, <2>1, <3>2 DEF Holds
      <4>2. CASE d \notin t.next
        BY <4>2, <2>1, <2>3, <3>1, <3>2 DEF Holds, Met
      <4>. QED  BY <4>1, <4>2
    <3>. QED  BY <3>3, <2>2 DEF Sooner, Never
  <2>7. Total(t.rows, [c \in t.rows |-> allocated'[c] - allocated[c]]) = t.cost
    <3>. DEFINE debit == [c \in t.rows |-> allocated'[c] - allocated[c]]
    <3>1. \A c \in t.rows : t.taken[c] = debit[c] /\ t.taken[c] \in Int
      BY <2>2, <2>4
    <3>2. Summable(t.rows, t.taken)
      BY <1>1, <2>1, <3>1, IdsFinite, FS_Subset DEF Summable
    <3>. HIDE DEF debit
    <3>3. Total(t.rows, t.taken) = Total(t.rows, debit) /\ Total(t.rows, t.taken) \in Int
      BY <3>1, <3>2, TotalSame, TotalType
    <3>4. Total(t.rows, t.taken) + t.left = t.cost
      BY <2>1 DEF Holds
    <3>. QED  BY <2>1, <3>3, <3>4 DEF debit
  <2>. QED  BY <2>5, <2>6, <2>7
<1>. HIDE DEF InOrder
<1>2. Spec => [][InOrder]_vars
  BY <1>1, InductiveInvariant, PTL
<1>. QED  BY <1>2, PTL DEF SoonestFirst, InOrder
=============================================================================
