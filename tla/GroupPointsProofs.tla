------------------------- MODULE GroupPointsProofs -------------------------
(***************************************************************************)
(* What every group and every submission can rely on: the rules and limits *)
(* hold of every payment, nobody is paid twice who is not named twice, the *)
(* notice tells what the table holds, and an equal split adds up.          *)
(*                                                                         *)
(* The first two rest on an account of the payments: there is an injection *)
(* from the rows to the places of the names that were paid, 0 standing for *)
(* the receiver.  The others are about sums over the rows, so that it is   *)
(* proved first what one payment more does to a sum.                       *)
(***************************************************************************)
EXTENDS GroupPoints, FiniteSetTheorems, WellFoundedInduction, TLAPS

Accounted(f) ==
  /\ \A j \in DOMAIN rows :
       IF f[j] = 0 THEN rows[j][1] = sub.receiver /\ stage \notin {"rules", "people", "shares"}
       ELSE /\ f[j] \in Sharers \ left
            /\ rows[j][1] = Who[sub.names[f[j]]]
  /\ \A j, k \in DOMAIN rows : f[j] = f[k] => j = k

Inv ==
  /\ sub \in Submissions /\ group \in Groups
  /\ stage \in Stages
  /\ left \subseteq Sharers
  /\ rows \in Seq(Players \X Int)
  /\ stage \in {"people", "shares"} => Applicable /\ award \in Nat
  /\ share \in Nat
  /\ stage \in {"rules", "people"} => left = {} /\ rows = <<>>
  /\ left # {} => Setting("sharing") /\ ~NoSplit
  /\ RulesAndLimits
  /\ \E f \in [DOMAIN rows -> Nat] : Accounted(f)

-----------------------------------------------------------------------------
(* Bounds.                                                                 *)

\* Limits are natural numbers, whoever set them.
LEMMA LimitsAreNatural ==
  ASSUME group \in Groups
  PROVE  Setting("min") \in Nat /\ Setting("max") \in Nat
BY GroupAssumption, NamesAssumption DEF Setting, SettingsOK, Fallback

\* What is paid after bounds is within them.
LEMMA BoundsBind ==
  ASSUME NEW lo \in Nat, NEW hi \in Nat, Setting("min") = lo, Setting("max") = hi,
         NEW points \in Int, Bounded(points) > 0
  PROVE  /\ Bounded(points) \in Int
         /\ hi # 0 => Bounded(points) <= hi
         /\ Bounded(points) >= lo \/ (hi # 0 /\ Bounded(points) = hi)
BY SMT DEF Bounded

-----------------------------------------------------------------------------
(* Prices are numbers.                                                     *)

\* A first rule or event exists among those that apply.
LEMMA FirstIsOneOfThem ==
  ASSUME NEW S, S \subseteq Nat, S # {}
  PROVE  Min(S) \in S
<1>. DEFINE Less == {p \in Nat \X Nat : p[1] < p[2]}
<1>1. IsWellFoundedOn(Less, Nat)
  BY NatLessThanWellFounded DEF OpToRel
<1>2. PICK n \in S : \A m \in S : ~(<<m, n>> \in Less)
  BY <1>1, WFMin
<1>3. ASSUME NEW m \in S PROVE n <= m
  <2>1. m \in Nat /\ n \in Nat
    OBVIOUS
  <2>2. <<m, n>> \notin {p \in Nat \X Nat : p[1] < p[2]}
    BY <1>2
  <2>3. ~(m < n)
    BY <2>1, <2>2
  <2>. QED  BY <2>1, <2>3
<1>. QED  BY <1>3 DEF Min

LEMMA Division ==
  ASSUME NEW a \in Nat, NEW b \in Nat \ {0}
  PROVE  a \div b \in Nat
BY SMT

LEMMA Product ==
  ASSUME NEW a \in Nat, NEW b \in Nat
  PROVE  a * b \in Nat
BY SMT

LEMMA PriceIsNatural ==
  ASSUME sub \in Submissions, group \in Groups, Applicable
  PROVE  Price \in Nat
<1>1. Awards[sub.reason] \in Nat /\ Divisor \in Nat \ {0}
  BY GroupAssumption DEF Applicable, Awards, UsualAwards, Divisor
<1>2. sub.value \in Nat /\ (sub.qty # None => sub.qty \in Nat \ {0})
  BY SubmissionAssumption
<1>3. ASSUME NEW v \in Nat, NEW d \in Nat \ {0} PROVE RoundHalfUp(v, d) \in Nat
  <2>1. d \div 2 \in Nat
    BY Division
  <2>. QED  BY <2>1, Division DEF RoundHalfUp
<1>4. DropPrice(Awards[sub.reason]) \in Nat
  <2>1. CASE sub.qty # None /\ ~Setting("stacks")
    <3>1. RoundHalfUp(sub.value \div sub.qty, Divisor) \in Nat
      BY <1>1, <1>2, <1>3, <2>1, Division
    <3>2. RoundHalfUp(sub.value \div sub.qty, Divisor) * Awards[sub.reason] \in Nat
      BY <1>1, <3>1, Product
    <3>. QED  BY <1>2, <2>1, <3>2, Product DEF DropPrice
  <2>2. CASE ~(sub.qty # None /\ ~Setting("stacks"))
    <3>1. RoundHalfUp(sub.value, Divisor) \in Nat
      BY <1>1, <1>2, <1>3
    <3>. QED  BY <1>1, <2>2, <3>1, Product DEF DropPrice
  <2>. QED  BY <2>1, <2>2
<1>5. ASSUME Overriding # {} PROVE ModPrice(group.mods[Min(Overriding)]) \in Nat
  <2>1. Min(Overriding) \in DOMAIN group.mods
    <3>1. Overriding \subseteq DOMAIN group.mods /\ Overriding \subseteq Nat
      BY GroupAssumption DEF Overriding
    <3>. QED  BY <1>5, <3>1, FirstIsOneOfThem
  <2>. DEFINE mod == group.mods[Min(Overriding)]
  <2>2. mod.award \in Nat /\ mod.divisor \in Nat \ {0}
    BY <2>1, GroupAssumption
  <2>. HIDE DEF mod
  <2>3. RoundHalfUp(sub.value, mod.divisor) \in Nat
    BY <1>2, <1>3, <2>2
  <2>4. ModPrice(mod) \in Nat
    BY <1>2, <2>2, <2>3, Product DEF ModPrice
  <2>. QED  BY <2>4 DEF mod
<1>. QED  BY <1>1, <1>4, <1>5 DEF Price

LEMMA EventsKeepNumbers ==
  ASSUME group \in Groups, NEW points \in Int
  PROVE  AfterEvent(points) \in Int
<1>1. CASE Events = {}
  BY <1>1 DEF AfterEvent
<1>2. CASE Events # {}
  <2>1. Min(Events) \in DOMAIN group.events
    <3>1. Events \subseteq DOMAIN group.events /\ Events \subseteq Nat
      BY GroupAssumption DEF Events
    <3>. QED  BY <1>2, <3>1, FirstIsOneOfThem
  <2>. DEFINE e == group.events[Min(Events)]
  <2>2. e.value \in Int
    BY <2>1, GroupAssumption
  <2>3. AfterEvent(points) = CASE e.op = "multiply" -> points * e.value
                               [] e.op = "add" -> points + e.value
                               [] OTHER -> e.value
    BY <1>2 DEF AfterEvent
  <2>. HIDE DEF e
  <2>4. points * e.value \in Int /\ points + e.value \in Int
    BY <2>2
  <2>. QED  BY <2>2, <2>3, <2>4
<1>. QED  BY <1>1, <1>2

LEMMA SharersAreFinite ==
  ASSUME sub \in Submissions
  PROVE  IsFiniteSet(Sharers)
<1>1. IsFiniteSet(DOMAIN sub.names)
  <2>1. DOMAIN sub.names = 1..Len(sub.names) /\ Len(sub.names) \in Nat
    BY SubmissionAssumption
  <2>. QED  BY <2>1, FS_Interval
<1>. QED  BY <1>1, FS_Subset DEF Sharers, Included

LEMMA SharesAreNatural ==
  ASSUME sub \in Submissions, NEW points \in Nat
  PROVE  ShareOf(points) \in Nat
<1>1. IsFiniteSet(Sharers)
  BY SharersAreFinite
<1>2. Cardinality(Sharers) + 1 \in Nat \ {0}
  BY <1>1, FS_CardinalityType
<1>3. points + (Cardinality(Sharers) + 1) - 1 \in Nat
  BY <1>2
<1>. QED  BY <1>2, <1>3, Division DEF ShareOf, PerPerson, CeilDiv

\* Whatever an event makes of a payment, it is within the limits.
LEMMA DuesAreWithinLimits ==
  ASSUME group \in Groups, NEW points \in Nat, NEW due \in {DueShare(points), DueOwn(points)},
         due > 0
  PROVE  /\ due \in Int
         /\ Setting("max") # 0 => due <= Setting("max")
         /\ \/ due >= Setting("min")
            \/ Setting("max") # 0 /\ due = Setting("max")
<1>1. Setting("min") \in Nat /\ Setting("max") \in Nat
  BY LimitsAreNatural
<1>2. AfterEvent(points) \in Int
  BY EventsKeepNumbers
<1>3. PICK p \in Int : due = Bounded(p)
  BY <1>2 DEF DueShare, DueOwn
<1>. QED  BY <1>1, <1>3, BoundsBind

-----------------------------------------------------------------------------
(* The steps.                                                              *)

\* Nothing the rules look at changes while they are looked at.
LEMMA InputsStay ==
  ASSUME UNCHANGED <<sub, group>>
  PROVE  /\ Sharers' = Sharers /\ Applicable' = Applicable /\ NoSplit' = NoSplit
         /\ \A key : Setting(key)' = Setting(key)
         /\ \A player, points : Right(player, points)' = Right(player, points)
<1>1. Sharers' = Sharers
  BY DEF Sharers, Included, Fresh
<1>2. Applicable' = Applicable
  BY DEF Applicable, Awards, Allowed, OnList, Listed, Matches
<1>3. NoSplit' = NoSplit
  BY DEF NoSplit, OnList, Listed, Matches
<1>4. \A key : Setting(key)' = Setting(key)
  BY DEF Setting
<1>. QED  BY <1>1, <1>2, <1>3, <1>4 DEF Right

LEMMA StartIsAccounted ==
  ASSUME Init
  PROVE  Inv
<1>1. Accounted([j \in DOMAIN rows |-> 0])
  BY DEF Init, Accounted
<1>2. [j \in DOMAIN rows |-> 0] \in [DOMAIN rows -> Nat]
  OBVIOUS
<1>3. RulesAndLimits /\ rows \in Seq(Players \X Int)
  BY DEF Init, RulesAndLimits
<1>. QED  BY <1>1, <1>2, <1>3 DEF Init, Inv, Stages

\* A payment of a share takes the place of its name, which nobody took before.
LEMMA ShareIsAccounted ==
  ASSUME Inv, PayShare
  PROVE  Inv'
<1>1. UNCHANGED <<sub, group, stage, award, share>> /\ stage = "shares"
  BY DEF PayShare, inputVars
<1>. USE InputsStay
<1>2. PICK k \in left :
        /\ left' = left \ {k}
        /\ IF DueShare(share) > 0
           THEN Pay(Who[sub.names[k]], DueShare(share)) \/ Fails
           ELSE UNCHANGED payVars
  BY DEF PayShare
<1>3. PICK f \in [DOMAIN rows -> Nat] : Accounted(f)
  BY DEF Inv
<1>4. CASE UNCHANGED rows
  <2>1. Accounted(f)'
    BY <1>1, <1>2, <1>3, <1>4 DEF Accounted
  <2>2. RulesAndLimits'
    BY <1>1, <1>4 DEF Inv, RulesAndLimits
  <2>. QED  BY <1>1, <1>2, <1>3, <1>4, <2>1, <2>2 DEF Inv
<1>5. CASE DueShare(share) > 0 /\ Pay(Who[sub.names[k]], DueShare(share))
  <2>. DEFINE player == Who[sub.names[k]]
              due == DueShare(share)
  <2>1. rows' = Append(rows, <<player, due>>)
    BY <1>5 DEF Pay
  <2>2. k \in Sharers /\ k \in Nat \ {0} /\ player \in Players /\ player \in group.members
    <3>1. k \in Sharers /\ player \in group.members
      BY <1>2 DEF Inv, Sharers
    <3>2. k \in DOMAIN sub.names
      BY <3>1 DEF Sharers, Included
    <3>. QED  BY <3>1, <3>2, SubmissionAssumption, GroupAssumption DEF Inv
  <2>3. /\ due \in Int
        /\ Right(player, due)
    BY <1>1, <1>2, <1>5, <2>2, DuesAreWithinLimits DEF Inv, Right
  <2>4. /\ rows \in Seq(Players \X Int)
        /\ rows' \in Seq(Players \X Int)
        /\ DOMAIN rows = 1..Len(rows)
        /\ DOMAIN rows' = 1..(Len(rows) + 1)
        /\ \A j \in DOMAIN rows : rows'[j] = rows[j]
        /\ rows'[Len(rows) + 1] = <<player, due>>
        /\ Len(rows) \in Nat
    <3>. HIDE DEF player, due
    <3>. QED  BY <2>1, <2>2, <2>3 DEF Inv
  <2>5. RulesAndLimits'
    <3>1. \A j \in DOMAIN rows' : Right(rows'[j][1], rows'[j][2])
      <4>1. \A j \in DOMAIN rows : Right(rows'[j][1], rows'[j][2])
        BY <2>4 DEF Inv, RulesAndLimits
      <4>2. Right(rows'[Len(rows) + 1][1], rows'[Len(rows) + 1][2])
        BY <2>3, <2>4
      <4>. QED  BY <2>4, <4>1, <4>2
    <3>. QED  BY <1>1, <3>1 DEF RulesAndLimits
  <2>6. \E g \in [DOMAIN rows' -> Nat] : Accounted(g)'
    <3>. HIDE DEF player, due
    <3>1. PICK g : g = [j \in 1..(Len(rows) + 1) |-> IF j \in DOMAIN rows THEN f[j] ELSE k]
      OBVIOUS
    <3>2. \A j \in DOMAIN rows : g[j] = f[j] /\ f[j] \in Sharers \ left /\ f[j] # 0
                                  /\ rows[j][1] = Who[sub.names[f[j]]]
      BY <1>1, <1>3, <2>4, <3>1 DEF Accounted
    <3>3. g[Len(rows) + 1] = k /\ Len(rows) + 1 \in DOMAIN rows'
      BY <2>4, <3>1
    <3>4. g \in [DOMAIN rows' -> Nat]
      BY <1>3, <2>2, <2>4, <3>1
    <3>5. \A j \in DOMAIN rows' : g[j] # 0 /\ g[j] \in Sharers \ left'
                                   /\ rows'[j][1] = Who[sub.names[g[j]]]
      <4>1. ASSUME NEW j \in DOMAIN rows
            PROVE  g[j] # 0 /\ g[j] \in Sharers \ left' /\ rows'[j][1] = Who[sub.names[g[j]]]
        BY <1>2, <2>4, <3>2
      <4>2. rows'[Len(rows) + 1][1] = Who[sub.names[k]]
        BY <2>4 DEF player
      <4>. QED  BY <1>2, <2>2, <2>4, <3>3, <4>1, <4>2
    <3>6. \A j, i \in DOMAIN rows' : g[j] = g[i] => j = i
      <4>1. \A j, i \in DOMAIN rows : g[j] = g[i] => j = i
        BY <1>3, <3>2 DEF Accounted
      <4>2. ASSUME NEW j \in DOMAIN rows PROVE g[j] # g[Len(rows) + 1]
        BY <1>2, <3>2, <3>3
      <4>3. \A j \in DOMAIN rows' : j \in DOMAIN rows \/ j = Len(rows) + 1
        BY <2>4
      <4>. QED  BY <4>1, <4>2, <4>3
    <3>7. Accounted(g)'
      BY <1>1, <3>5, <3>6 DEF Accounted
    <3>. QED  BY <3>4, <3>7
  <2>. HIDE DEF player, due
  <2>7. left' \subseteq Sharers
    BY <1>2 DEF Inv
  <2>. QED  BY <1>1, <1>2, <2>4, <2>5, <2>6, <2>7 DEF Inv
<1>. QED  BY <1>2, <1>4, <1>5 DEF Fails, payVars

\* The receiver is paid last, and once.
LEMMA OwnIsAccounted ==
  ASSUME Inv, PayOwn
  PROVE  Inv'
<1>1. /\ UNCHANGED <<sub, group, award, left, share>>
      /\ stage = "shares" /\ stage' = "over" /\ left = {}
  BY DEF PayOwn, inputVars
<1>. USE InputsStay
<1>2. PICK f \in [DOMAIN rows -> Nat] : Accounted(f)
  BY DEF Inv
<1>3. CASE UNCHANGED rows
  <2>1. Accounted(f)'
    BY <1>1, <1>2, <1>3 DEF Accounted
  <2>2. RulesAndLimits'
    BY <1>1, <1>3 DEF Inv, RulesAndLimits
  <2>. QED  BY <1>1, <1>2, <1>3, <2>1, <2>2 DEF Inv, Stages
<1>4. CASE DueOwn(award) > 0 /\ Pay(sub.receiver, DueOwn(award))
  <2>. DEFINE due == DueOwn(award)
  <2>1. rows' = Append(rows, <<sub.receiver, due>>)
    BY <1>4 DEF Pay
  <2>2. due \in Int /\ Right(sub.receiver, due)
    BY <1>1, <1>4, DuesAreWithinLimits DEF Inv, Right
  <2>3. /\ rows \in Seq(Players \X Int)
        /\ rows' \in Seq(Players \X Int)
        /\ DOMAIN rows = 1..Len(rows)
        /\ DOMAIN rows' = 1..(Len(rows) + 1)
        /\ \A j \in DOMAIN rows : rows'[j] = rows[j]
        /\ rows'[Len(rows) + 1] = <<sub.receiver, due>>
        /\ Len(rows) \in Nat
    <3>1. sub.receiver \in Players
      BY SubmissionAssumption DEF Inv
    <3>. HIDE DEF due
    <3>. QED  BY <2>1, <2>2, <3>1 DEF Inv
  <2>. HIDE DEF due
  <2>4. RulesAndLimits'
    <3>1. \A j \in DOMAIN rows : Right(rows'[j][1], rows'[j][2])
      BY <2>3 DEF Inv, RulesAndLimits
    <3>2. Right(rows'[Len(rows) + 1][1], rows'[Len(rows) + 1][2])
      BY <2>2, <2>3
    <3>3. \A j \in DOMAIN rows' : Right(rows'[j][1], rows'[j][2])
      BY <2>3, <3>1, <3>2
    <3>. QED  BY <1>1, <3>3 DEF RulesAndLimits
  <2>5. \E g \in [DOMAIN rows' -> Nat] : Accounted(g)'
    <3>1. PICK g : g = [j \in 1..(Len(rows) + 1) |-> IF j \in DOMAIN rows THEN f[j] ELSE 0]
      OBVIOUS
    <3>2. \A j \in DOMAIN rows : g[j] = f[j] /\ f[j] \in Sharers /\ f[j] # 0
                                  /\ rows[j][1] = Who[sub.names[f[j]]]
      BY <1>1, <1>2, <2>3, <3>1 DEF Accounted
    <3>3. g[Len(rows) + 1] = 0
      BY <2>3, <3>1
    <3>4. g \in [DOMAIN rows' -> Nat]
      BY <1>2, <2>3, <3>1
    <3>5. \A j \in DOMAIN rows' :
            IF g[j] = 0 THEN rows'[j][1] = sub.receiver
            ELSE g[j] \in Sharers /\ rows'[j][1] = Who[sub.names[g[j]]]
      <4>1. ASSUME NEW j \in DOMAIN rows
            PROVE  g[j] # 0 /\ g[j] \in Sharers /\ rows'[j][1] = Who[sub.names[g[j]]]
        BY <2>3, <3>2
      <4>2. rows'[Len(rows) + 1][1] = sub.receiver
        BY <2>3
      <4>3. \A j \in DOMAIN rows' : j \in DOMAIN rows \/ j = Len(rows) + 1
        BY <2>3
      <4>. QED  BY <3>3, <4>1, <4>2, <4>3
    <3>6. \A j, i \in DOMAIN rows' : g[j] = g[i] => j = i
      <4>1. \A j, i \in DOMAIN rows : g[j] = g[i] => j = i
        BY <1>2, <3>2 DEF Accounted
      <4>2. \A j \in DOMAIN rows' : j \in DOMAIN rows \/ j = Len(rows) + 1
        BY <2>3
      <4>. QED  BY <3>2, <3>3, <4>1, <4>2
    <3>7. Accounted(g)'
      BY <1>1, <3>5, <3>6 DEF Accounted
    <3>. QED  BY <3>4, <3>7
  <2>. QED  BY <1>1, <2>3, <2>4, <2>5 DEF Inv, Stages
<1>. QED  BY <1>3, <1>4 DEF PayOwn, Fails, payVars

LEMMA StepsAreAccounted ==
  ASSUME Inv, [Next]_vars
  PROVE  Inv'
<1>. USE InputsStay
<1>1. PICK f \in [DOMAIN rows -> Nat] : Accounted(f)
  BY DEF Inv
<1>2. ASSUME UNCHANGED <<sub, group, left, share, rows>>, stage' \in Stages,
             stage' \in {"people", "shares"} => Applicable /\ award' \in Nat,
             stage' \in {"rules", "people"} => left = {} /\ rows = <<>>,
             stage' \in {"rules", "people", "shares"} => stage \in {"rules", "people", "shares"}
      PROVE  Inv'
  <2>1. Accounted(f)'
    BY <1>1, <1>2 DEF Accounted
  <2>2. RulesAndLimits'
    BY <1>2 DEF Inv, RulesAndLimits
  <2>3. /\ sub' \in Submissions /\ group' \in Groups /\ stage' \in Stages
        /\ left' \subseteq Sharers' /\ rows' \in Seq(Players \X Int) /\ share' \in Nat
    BY <1>2 DEF Inv
  <2>4. (left # {} => Setting("sharing") /\ ~NoSplit)'
    BY <1>2 DEF Inv
  <2>. QED  BY <1>1, <1>2, <2>1, <2>2, <2>3, <2>4 DEF Inv
<1>3. CASE Deny
  BY <1>2, <1>3 DEF Deny, inputVars, payVars, Stages
<1>4. CASE PriceIt
  BY <1>2, <1>4, PriceIsNatural DEF PriceIt, inputVars, payVars, Stages, Inv
<1>5. CASE Bar
  BY <1>2, <1>5 DEF Bar, inputVars, payVars, Stages
<1>6. CASE ShareOut
  <2>1. /\ UNCHANGED <<sub, group, rows>> /\ stage = "people" /\ stage' = "shares"
        /\ rows = <<>> /\ left = {} /\ award \in Nat /\ Applicable
    BY <1>6 DEF ShareOut, inputVars, payVars, Inv
  <2>2. /\ left' \subseteq Sharers /\ share' \in Nat /\ award' \in Nat
        /\ left' # {} => Setting("sharing") /\ ~NoSplit
    BY <1>6, <2>1, SharesAreNatural DEF ShareOut, Shares, Inv
  <2>3. Accounted(f)' /\ RulesAndLimits'
    BY <2>1 DEF Accounted, RulesAndLimits
  <2>4. (left # {} => Setting("sharing") /\ ~NoSplit)'
    BY <2>1, <2>2
  <2>5. f \in [DOMAIN rows' -> Nat]
    BY <1>1, <2>1
  <2>. QED  BY <2>1, <2>2, <2>3, <2>4, <2>5 DEF Inv, Stages
<1>7. CASE PayShare
  BY <1>7, ShareIsAccounted
<1>8. CASE PayOwn
  BY <1>8, OwnIsAccounted
<1>9. CASE Raise
  BY <1>2, <1>9 DEF Raise, inputVars, Stages
<1>10. CASE EndTransaction
  <2>1. CASE UNCHANGED rows
    BY <1>2, <1>10, <2>1 DEF EndTransaction, inputVars, Stages
  <2>2. CASE rows' = <<>>
    <3>1. /\ UNCHANGED <<sub, group, left, award, share>> /\ stage' = "ended"
      BY <1>10 DEF EndTransaction, inputVars
    <3>2. PICK g : g = [j \in {} |-> 0]
      OBVIOUS
    <3>3. g \in [DOMAIN rows' -> Nat] /\ Accounted(g)' /\ RulesAndLimits'
      BY <2>2, <3>2 DEF Accounted, RulesAndLimits
    <3>4. rows' \in Seq(Players \X Int)
      BY <2>2
    <3>5. (left # {} => Setting("sharing") /\ ~NoSplit)'
      BY <3>1 DEF Inv
    <3>. QED  BY <3>1, <3>3, <3>4, <3>5 DEF Inv, Stages
  <2>. QED  BY <1>10, <2>1, <2>2 DEF EndTransaction
<1>11. CASE UNCHANGED vars
  BY <1>2, <1>11 DEF vars, Inv
<1>. QED
  BY <1>3, <1>4, <1>5, <1>6, <1>7, <1>8, <1>9, <1>10, <1>11 DEF Next

\* The account holds at every moment.
THEOREM InductiveInvariant == Spec => []Inv
<1>1. Init => Inv
  BY StartIsAccounted
<1>2. Inv /\ [Next]_vars => Inv'
  BY StepsAreAccounted
<1>. QED  BY <1>1, <1>2, PTL DEF Spec

-----------------------------------------------------------------------------
(* The theorems.                                                           *)

\* For every configuration of a group and every submission, what is paid is what
\* the lists, the sharing and the bounds allow.
THEOREM PaymentsKeepTheRules == Spec => []RulesAndLimits
<1>1. Inv => RulesAndLimits
  BY DEF Inv
<1>. QED  BY <1>1, InductiveInvariant, PTL

\* However many names are given, and however they are spelt, nobody gets two
\* payments who is not named in two ways that the comparison tells apart.
LEMMA AccountsPayOnce ==
  ASSUME Inv
  PROVE  OnePaymentEach
<1>1. PICK f \in [DOMAIN rows -> Nat] : Accounted(f)
  BY DEF Inv
<1>. DEFINE Given == {sub.own} \cup {sub.names[i] : i \in DOMAIN sub.names}
<1>2. ASSUME NEW i \in Sharers, NEW j \in Sharers, i # j
      PROVE  /\ sub.names[i] \in Given /\ sub.names[j] \in Given
             /\ Lower[sub.names[i]] # Lower[sub.names[j]]
  <2>1. /\ i \in DOMAIN sub.names /\ j \in DOMAIN sub.names
        /\ Fresh(i) /\ Fresh(j)
    BY DEF Sharers, Included
  <2>2. i \in Nat \ {0} /\ j \in Nat \ {0}
    BY <2>1, SubmissionAssumption DEF Inv
  <2>3. i \in 1..(j - 1) \/ j \in 1..(i - 1)
    BY <1>2, <2>2
  <2>. QED  BY <2>1, <2>3 DEF Fresh
<1>3. ASSUME NEW i \in Sharers
      PROVE  sub.names[i] \in Given /\ Lower[sub.names[i]] # Lower[sub.own]
  BY DEF Sharers, Included, Fresh
<1>4. ASSUME NEW j \in DOMAIN rows, NEW k \in DOMAIN rows, j < k, rows[j][1] = rows[k][1]
      PROVE  \E a, b \in Given :
               /\ Lower[a] # Lower[b]
               /\ Who[a] = rows[j][1]
               /\ Who[b] = rows[j][1] \/ (b = sub.own /\ rows[j][1] = sub.receiver)
  <2>1. f[j] # f[k]
    <3>1. j \in Nat /\ k \in Nat
      BY DEF Inv
    <3>. QED  BY <1>1, <1>4, <3>1 DEF Accounted
  <2>2. CASE f[j] # 0 /\ f[k] # 0
    <3>1. /\ f[j] \in Sharers /\ f[k] \in Sharers
          /\ Who[sub.names[f[j]]] = rows[j][1] /\ Who[sub.names[f[k]]] = rows[j][1]
      BY <1>1, <1>4, <2>2 DEF Accounted
    <3>. QED  BY <1>2, <2>1, <3>1
  <2>3. CASE f[k] = 0
    <3>1. /\ rows[k][1] = sub.receiver /\ f[j] \in Sharers
          /\ Who[sub.names[f[j]]] = rows[j][1]
      BY <1>1, <2>1, <2>3 DEF Accounted
    <3>2. sub.own \in Given
      OBVIOUS
    <3>. HIDE DEF Given
    <3>. QED  BY <1>3, <1>4, <3>1, <3>2
  <2>4. CASE f[j] = 0
    <3>1. /\ rows[j][1] = sub.receiver /\ f[k] \in Sharers
          /\ Who[sub.names[f[k]]] = rows[k][1]
      BY <1>1, <2>1, <2>4 DEF Accounted
    <3>2. sub.own \in Given
      OBVIOUS
    <3>. HIDE DEF Given
    <3>. QED  BY <1>3, <1>4, <3>1, <3>2
  <2>. QED  BY <2>2, <2>3, <2>4
<1>. QED  BY <1>4 DEF OnePaymentEach

\* Nobody is paid twice for one submission who is not named twice.
THEOREM PaidOnce == Spec => []OnePaymentEach
<1>. QED  BY AccountsPayOnce, InductiveInvariant, PTL

-----------------------------------------------------------------------------
(* What payments come to.                                                  *)

\* Induction over the natural numbers as a set.
LEMMA NatSet ==
  ASSUME NEW T, 0 \in T, \A n \in Nat : n \in T => n + 1 \in T
  PROVE  Nat \subseteq T
<1>. DEFINE Less == {p \in Nat \X Nat : p[1] < p[2]}
<1>1. IsWellFoundedOn(Less, Nat)
  BY NatLessThanWellFounded DEF OpToRel
<1>2. SUFFICES ASSUME Nat \ T # {} PROVE FALSE
  OBVIOUS
<1>3. PICK n \in Nat \ T : \A m \in Nat \ T : ~(<<m, n>> \in Less)
  BY <1>1, <1>2, WFMin
<1>4. n # 0 /\ n - 1 \in Nat
  OBVIOUS
<1>5. n - 1 \in Nat \ T
  BY <1>4
<1>6. <<n - 1, n>> \in Less
  BY <1>4
<1>. QED  BY <1>3, <1>5, <1>6

Gain(rs, n, who) == IF rs[n][1] \in who THEN rs[n][2] ELSE 0
\* Sums of the first rows.
Sums(f, rs, who) == f = [n \in 0..Len(rs) |-> IF n = 0 THEN 0 ELSE f[n - 1] + Gain(rs, n, who)]
SumOf(rs, who) == (CHOOSE f : Sums(f, rs, who))[Len(rs)]

LEMMA PaidIs ==
  ASSUME NEW who
  PROVE  Paid(who) = SumOf(rows, who) /\ Paid(who)' = SumOf(rows', who)
BY DEF Paid, Sums, SumOf, Gain

LEMMA SumsAre ==
  ASSUME NEW f, NEW rs, NEW who, Len(rs) \in Nat
  PROVE  Sums(f, rs, who) <=> /\ f = [n \in 0..Len(rs) |-> f[n]] /\ f[0] = 0
                              /\ \A n \in 1..Len(rs) : f[n] = f[n - 1] + Gain(rs, n, who)
<1>1. ASSUME Sums(f, rs, who)
      PROVE  /\ f = [n \in 0..Len(rs) |-> f[n]] /\ f[0] = 0
             /\ \A n \in 1..Len(rs) : f[n] = f[n - 1] + Gain(rs, n, who)
  <2>1. f = [n \in 0..Len(rs) |-> IF n = 0 THEN 0 ELSE f[n - 1] + Gain(rs, n, who)]
    BY <1>1 DEF Sums
  <2>2. \A n \in 0..Len(rs) : f[n] = IF n = 0 THEN 0 ELSE f[n - 1] + Gain(rs, n, who)
    BY <2>1
  <2>3. f = [n \in 0..Len(rs) |-> f[n]]
    BY <2>1
  <2>. QED  BY <2>2, <2>3
<1>2. ASSUME f = [n \in 0..Len(rs) |-> f[n]], f[0] = 0,
             \A n \in 1..Len(rs) : f[n] = f[n - 1] + Gain(rs, n, who)
      PROVE  Sums(f, rs, who)
  <2>1. \A n \in 0..Len(rs) : f[n] = IF n = 0 THEN 0 ELSE f[n - 1] + Gain(rs, n, who)
    BY <1>2
  <2>2. [n \in 0..Len(rs) |-> f[n]] = [n \in 0..Len(rs) |-> IF n = 0 THEN 0 ELSE f[n - 1] + Gain(rs, n, who)]
    BY <2>1
  <2>. QED  BY <1>2, <2>2 DEF Sums
<1>. QED  BY <1>1, <1>2

LEMMA SumsExist ==
  ASSUME NEW rs \in Seq(Players \X Int), NEW who
  PROVE  \E f \in [0..Len(rs) -> Int] : Sums(f, rs, who)
<1>. DEFINE Upto(m) == \E f \in [0..m -> Int] : f[0] = 0 /\ \A n \in 1..m : f[n] = f[n - 1] + Gain(rs, n, who)
            T == {m \in Nat : m <= Len(rs) => Upto(m)}
<1>1. Len(rs) \in Nat /\ \A n \in 1..Len(rs) : Gain(rs, n, who) \in Int
  <2>1. \A n \in 1..Len(rs) : rs[n] \in Players \X Int
    OBVIOUS
  <2>. QED  BY <2>1 DEF Gain
<1>2. 0 \in T
  <2>1. PICK f : f = [n \in 0..0 |-> 0]
    OBVIOUS
  <2>2. f \in [0..0 -> Int] /\ f[0] = 0 /\ \A n \in 1..0 : f[n] = f[n - 1] + Gain(rs, n, who)
    BY <2>1
  <2>3. Upto(0)
    BY <2>2
  <2>. HIDE DEF Upto
  <2>. QED  BY <2>3
<1>3. ASSUME NEW m \in Nat, m \in T PROVE m + 1 \in T
  <2>1. SUFFICES ASSUME m + 1 <= Len(rs) PROVE Upto(m + 1)
    OBVIOUS
  <2>0. Upto(m)
    <3>1. m <= Len(rs) => Upto(m)
      BY <1>3
    <3>2. m <= Len(rs)
      BY <1>1, <2>1
    <3>. QED  BY <3>1, <3>2
  <2>2. PICK f \in [0..m -> Int] : f[0] = 0 /\ \A n \in 1..m : f[n] = f[n - 1] + Gain(rs, n, who)
    BY <2>0
  <2>3. PICK h : h = [n \in 0..(m + 1) |-> IF n = m + 1 THEN f[m] + Gain(rs, m + 1, who) ELSE f[n]]
    OBVIOUS
  <2>4. Gain(rs, m + 1, who) \in Int
    BY <1>1, <2>1
  <2>5. h \in [0..(m + 1) -> Int]
    BY <2>2, <2>3, <2>4
  <2>6. h[0] = 0 /\ h[m + 1] = h[m] + Gain(rs, m + 1, who)
    BY <2>2, <2>3
  <2>7. \A n \in 1..m : h[n] = h[n - 1] + Gain(rs, n, who)
    BY <2>2, <2>3
  <2>8. \A n \in 1..(m + 1) : n = m + 1 \/ n \in 1..m
    OBVIOUS
  <2>9. \A n \in 1..(m + 1) : h[n] = h[n - 1] + Gain(rs, n, who)
    <3>1. h[m + 1] = h[(m + 1) - 1] + Gain(rs, m + 1, who)
      BY <2>6
    <3>. QED  BY <2>7, <2>8, <3>1
  <2>. QED  BY <2>5, <2>6, <2>9
<1>4. Len(rs) \in T
  <2>. HIDE DEF T
  <2>. QED  BY <1>1, <1>2, <1>3, NatSet
<1>5. PICK f \in [0..Len(rs) -> Int] : f[0] = 0 /\ \A n \in 1..Len(rs) : f[n] = f[n - 1] + Gain(rs, n, who)
  BY <1>1, <1>4
<1>6. Sums(f, rs, who)
  BY <1>1, <1>5, SumsAre
<1>. QED  BY <1>6

\* Sums of the same first rows are the same.
LEMMA SumsAgree ==
  ASSUME NEW rs \in Seq(Players \X Int), NEW rt \in Seq(Players \X Int), NEW who, NEW f, NEW h,
         Sums(f, rs, who), Sums(h, rt, who), Len(rs) <= Len(rt), \A n \in 1..Len(rs) : rs[n] = rt[n]
  PROVE  \A n \in 0..Len(rs) : f[n] = h[n]
<1>. DEFINE T == {n \in Nat : n <= Len(rs) => f[n] = h[n]}
<1>1. Len(rs) \in Nat /\ Len(rt) \in Nat
  OBVIOUS
<1>2. /\ f[0] = 0 /\ \A n \in 1..Len(rs) : f[n] = f[n - 1] + Gain(rs, n, who)
      /\ h[0] = 0 /\ \A n \in 1..Len(rt) : h[n] = h[n - 1] + Gain(rt, n, who)
  BY <1>1, SumsAre
<1>3. 0 \in T
  BY <1>2
<1>4. ASSUME NEW n \in Nat, n \in T PROVE n + 1 \in T
  <2>1. SUFFICES ASSUME n + 1 <= Len(rs) PROVE f[n + 1] = h[n + 1]
    OBVIOUS
  <2>2. f[n] = h[n] /\ n + 1 \in 1..Len(rs) /\ n + 1 \in 1..Len(rt) /\ (n + 1) - 1 = n
    BY <1>1, <1>4, <2>1
  <2>3. Gain(rs, n + 1, who) = Gain(rt, n + 1, who)
    BY <2>2 DEF Gain
  <2>. QED  BY <1>2, <2>2, <2>3
<1>5. Nat \subseteq T
  <2>. HIDE DEF T
  <2>. QED  BY <1>3, <1>4, NatSet
<1>. QED  BY <1>1, <1>5

LEMMA SumOfIs ==
  ASSUME NEW rs \in Seq(Players \X Int), NEW who, NEW f, Sums(f, rs, who)
  PROVE  SumOf(rs, who) = f[Len(rs)] /\ SumOf(rs, who) \in Int
<1>1. PICK h : h = CHOOSE x : Sums(x, rs, who)
  OBVIOUS
<1>2. Sums(h, rs, who)
  BY <1>1
<1>3. PICK k \in [0..Len(rs) -> Int] : Sums(k, rs, who)
  BY SumsExist
<1>4. Len(rs) \in 0..Len(rs) /\ Len(rs) <= Len(rs)
  OBVIOUS
<1>5. h[Len(rs)] = f[Len(rs)] /\ h[Len(rs)] = k[Len(rs)]
  BY <1>2, <1>3, <1>4, SumsAgree
<1>. QED  BY <1>1, <1>3, <1>4, <1>5 DEF SumOf

\* One payment more.
LEMMA SumOfMore ==
  ASSUME NEW rs \in Seq(Players \X Int), NEW player \in Players, NEW points \in Int, NEW who
  PROVE  /\ SumOf(Append(rs, <<player, points>>), who) = SumOf(rs, who) + (IF player \in who THEN points ELSE 0)
         /\ SumOf(rs, who) \in Int
<1>. DEFINE rt == Append(rs, <<player, points>>)
<1>1. Len(rs) \in Nat /\ Len(rt) = Len(rs) + 1 /\ rt \in Seq(Players \X Int)
      /\ (\A n \in 1..Len(rs) : rs[n] = rt[n]) /\ rt[Len(rs) + 1] = <<player, points>>
  OBVIOUS
<1>. HIDE DEF rt
<1>2. PICK f \in [0..Len(rs) -> Int] : Sums(f, rs, who)
  BY SumsExist
<1>3. PICK h \in [0..Len(rt) -> Int] : Sums(h, rt, who)
  BY <1>1, SumsExist
<1>4. f[Len(rs)] = h[Len(rs)]
  <2>1. Len(rs) \in 0..Len(rs) /\ Len(rs) <= Len(rt)
    BY <1>1
  <2>2. \A n \in 0..Len(rs) : f[n] = h[n]
    <3>1. rs \in Seq(Players \X Int) /\ rt \in Seq(Players \X Int) /\ Sums(f, rs, who) /\ Sums(h, rt, who)
          /\ Len(rs) <= Len(rt) /\ \A n \in 1..Len(rs) : rs[n] = rt[n]
      BY <1>1, <1>2, <1>3, <2>1
    <3>. QED  BY SMTT(30), <3>1, SumsAgree
  <2>. QED  BY <2>1, <2>2
<1>5. h[Len(rt)] = h[Len(rs)] + Gain(rt, Len(rs) + 1, who)
  <2>1. Len(rt) \in Nat /\ Len(rt) \in 1..Len(rt) /\ Len(rt) - 1 = Len(rs)
    BY <1>1
  <2>2. \A n \in 1..Len(rt) : h[n] = h[n - 1] + Gain(rt, n, who)
    BY <1>3, <2>1, SumsAre
  <2>3. h[Len(rt)] = h[Len(rt) - 1] + Gain(rt, Len(rt), who)
    BY <2>1, <2>2
  <2>. QED  BY <1>1, <2>1, <2>3
<1>6. Gain(rt, Len(rs) + 1, who) = IF player \in who THEN points ELSE 0
  BY <1>1 DEF Gain
<1>7. SumOf(rs, who) = f[Len(rs)] /\ SumOf(rt, who) = h[Len(rt)] /\ SumOf(rs, who) \in Int
  BY <1>1, <1>2, <1>3, SumOfIs
<1>. QED  BY <1>4, <1>5, <1>6, <1>7 DEF rt

LEMMA SumOfNone ==
  ASSUME NEW who
  PROVE  SumOf(<<>>, who) = 0
<1>1. <<>> \in Seq(Players \X Int) /\ Len(<<>>) = 0
  OBVIOUS
<1>2. PICK f : Sums(f, <<>>, who)
  BY <1>1, SumsExist
<1>3. f[0] = 0
  BY <1>1, <1>2, SumsAre
<1>. QED  BY <1>1, <1>2, <1>3, SumOfIs

\* What a payment adds to what was paid.
LEMMA PaidMore ==
  ASSUME rows \in Seq(Players \X Int), NEW player \in Players, NEW points \in Int,
         rows' = Append(rows, <<player, points>>), NEW who
  PROVE  Paid(who)' = Paid(who) + (IF player \in who THEN points ELSE 0) /\ Paid(who) \in Int
<1>1. SumOf(Append(rows, <<player, points>>), who) = SumOf(rows, who) + (IF player \in who THEN points ELSE 0)
      /\ SumOf(rows, who) \in Int
  BY Zenon, SumOfMore
<1>2. SumOf(rows', who) = SumOf(Append(rows, <<player, points>>), who)
  OBVIOUS
<1>. QED  BY <1>1, <1>2, PaidIs

LEMMA PaidNone ==
  ASSUME NEW who
  PROVE  /\ rows = <<>> => Paid(who) = 0
         /\ rows' = <<>> => Paid(who)' = 0
BY PaidIs, SumOfNone

LEMMA PaidStays ==
  ASSUME UNCHANGED rows, NEW who
  PROVE  Paid(who)' = Paid(who)
BY PaidIs

-----------------------------------------------------------------------------
(* The notice.                                                             *)

Agree == result.total = Paid(Players) /\ result.receiver = Paid({sub.receiver})

\* Until the session is given up, what is reported is what was paid so far.
Reported ==
  /\ stage # "ended" /\ (stage = "over" => ~spoiled) => Agree
  /\ stage = "ended" /\ rows # <<>> => Agree

\* A payment that is recorded, or is not made, keeps them in step.
LEMMA PaymentsAreReported ==
  ASSUME Inv, UNCHANGED sub, Agree, NEW player \in Players, NEW points \in Int, Pay(player, points)
  PROVE  Agree'
<1>1. rows' = Append(rows, <<player, points>>) /\ rows \in Seq(Players \X Int)
  BY DEF Pay, Inv
<1>0. PICK own : own = {sub.receiver}
  OBVIOUS
<1>2. Agree <=> result.total = Paid(Players) /\ result.receiver = Paid(own)
  BY <1>0 DEF Agree
<1>3. Agree' <=> result.total' = Paid(Players)' /\ result.receiver' = Paid(own)'
  <2>1. {sub.receiver}' = own
    BY <1>0
  <2>2. Paid({sub.receiver})' = Paid(own)'
    BY <2>1, PaidIs
  <2>. QED  BY <2>2 DEF Agree
<1>4. /\ result'.total = result.total + points
      /\ result'.receiver = result.receiver + IF player \in own THEN points ELSE 0
  BY <1>0 DEF Pay, Recorded
<1>5. /\ Paid(Players)' = Paid(Players) + points
      /\ Paid(own)' = Paid(own) + (IF player \in own THEN points ELSE 0)
  <2>1. Paid(Players)' = Paid(Players) + (IF player \in Players THEN points ELSE 0)
    BY <1>1, PaidMore
  <2>2. Paid(own)' = Paid(own) + (IF player \in own THEN points ELSE 0)
    BY <1>1, PaidMore
  <2>. QED  BY <2>1, <2>2
<1>. QED  BY <1>2, <1>3, <1>4, <1>5

LEMMA NothingIsReported ==
  ASSUME UNCHANGED <<sub, rows, result>>, Agree
  PROVE  Agree'
BY PaidStays DEF Agree

LEMMA StepsAreReported ==
  ASSUME Inv, Reported, [Next]_vars
  PROVE  Reported'
<1>1. sub.receiver \in Players
  BY SubmissionAssumption DEF Inv
<1>2. \A k \in left : Who[sub.names[k]] \in Players
  BY GroupAssumption DEF Inv, Sharers
<1>3. stage = "shares" /\ DueOwn(award) > 0 => DueOwn(award) \in Int
  BY DuesAreWithinLimits DEF Inv
<1>4. DueShare(share) > 0 => DueShare(share) \in Int
  BY DuesAreWithinLimits DEF Inv
<1>5. ASSUME UNCHANGED <<sub, rows, result>>, stage # "ended", stage' # "ended", stage = "over" => stage' = "over",
             stage' = "over" => (spoiled = spoiled' \/ spoiled')
      PROVE  Reported'
  BY <1>5, NothingIsReported DEF Reported
<1>6. CASE Deny
  BY <1>5, <1>6 DEF Deny, inputVars, payVars
<1>7. CASE PriceIt
  BY <1>5, <1>7 DEF PriceIt, inputVars, payVars
<1>8. CASE Bar
  BY <1>5, <1>8 DEF Bar, inputVars, payVars
<1>9. CASE ShareOut
  BY <1>5, <1>9 DEF ShareOut, inputVars, payVars
<1>10. CASE PayShare
  <2>1. PICK k \in left :
          IF DueShare(share) > 0 THEN Pay(Who[sub.names[k]], DueShare(share)) \/ Fails ELSE UNCHANGED payVars
    BY <1>10 DEF PayShare
  <2>2. UNCHANGED sub /\ stage = "shares" /\ stage' = "shares"
    BY <1>10 DEF PayShare, inputVars
  <2>3. CASE UNCHANGED <<rows, result>>
    BY <1>5, <2>2, <2>3
  <2>4. CASE DueShare(share) > 0 /\ Pay(Who[sub.names[k]], DueShare(share))
    <3>1. Agree
      BY <2>2 DEF Reported
    <3>2. Agree'
      BY <1>2, <1>4, <2>2, <2>4, <3>1, PaymentsAreReported
    <3>. QED  BY <2>2, <3>2 DEF Reported
  <2>. QED  BY <2>1, <2>3, <2>4 DEF Fails, payVars
<1>11. CASE PayOwn
  <2>1. UNCHANGED sub /\ stage = "shares" /\ stage' = "over"
    BY <1>11 DEF PayOwn, inputVars
  <2>2. CASE UNCHANGED <<rows, result>> /\ (spoiled = spoiled' \/ spoiled')
    BY <1>5, <2>1, <2>2
  <2>3. CASE DueOwn(award) > 0 /\ Pay(sub.receiver, DueOwn(award))
    <3>1. Agree
      BY <2>1 DEF Reported
    <3>2. DueOwn(award) \in Int
      BY <1>3, <2>1, <2>3 DEF Inv
    <3>3. Agree'
      BY <1>1, <2>1, <2>3, <3>1, <3>2, PaymentsAreReported
    <3>. QED  BY <2>1, <3>3 DEF Reported
  <2>. QED  BY <1>11, <2>2, <2>3 DEF PayOwn, Fails, payVars
<1>12. CASE Raise
  BY <1>12 DEF Raise, Reported
<1>13. CASE EndTransaction
  <2>1. UNCHANGED <<sub, result>> /\ stage = "over" /\ stage' = "ended"
        /\ (rows' = <<>> \/ (~spoiled /\ UNCHANGED rows))
    BY <1>13 DEF EndTransaction, inputVars
  <2>. QED  BY <2>1, NothingIsReported DEF Reported
<1>14. CASE UNCHANGED vars
  BY <1>14, NothingIsReported DEF vars, Reported
<1>. QED
  BY <1>6, <1>7, <1>8, <1>9, <1>10, <1>11, <1>12, <1>13, <1>14 DEF Next

\* However many names share and whichever payments fail, the notice tells what
\* the table will hold, the receiver's part and the whole.
THEOREM ReportHolds == Spec => []ReportIsTrue
<1>1. Init => Reported
  BY PaidNone DEF Init, Reported, Agree, NoPoints
<1>2. Inv /\ Reported /\ [Next]_vars => Reported'
  BY StepsAreReported
<1>3. Reported => ReportIsTrue
  BY DEF Reported, ReportIsTrue, Agree
<1>. QED  BY <1>1, <1>2, <1>3, InductiveInvariant, PTL DEF Spec

-----------------------------------------------------------------------------
(* The split.                                                              *)

LEMMA RoundingUp ==
  ASSUME NEW P \in Nat, NEW n \in Nat \ {0}
  PROVE  /\ CeilDiv(P, n) \in Nat
         /\ P <= CeilDiv(P, n) * n
         /\ CeilDiv(P, n) * n < P + n
<1>. DEFINE a == P + n - 1
            q == a \div n
<1>1. a \in Nat /\ q \in Nat
  BY Division
<1>2. q * n <= a /\ a < q * n + n
  BY SMT
<1>3. q = CeilDiv(P, n)
  BY DEF CeilDiv
<1>4. q * n \in Int
  BY <1>1
<1>. QED  BY <1>1, <1>2, <1>3, <1>4

LEMMA OneMore ==
  ASSUME NEW a \in Int, NEW b \in Int
  PROVE  a * (b + 1) = a * b + a
BY SMT

\* Without bounds and events what is due is what is shared out.
LEMMA PlainDues ==
  ASSUME Events = {}, Setting("min") = 0, Setting("max") = 0, NEW points \in Nat
  PROVE  DueShare(points) = points /\ DueOwn(points) = points
<1>1. AfterEvent(points) = points
  BY DEF AfterEvent
<1>2. Bounded(points) = points
  BY DEF Bounded
<1>. QED  BY <1>1, <1>2 DEF DueShare, DueOwn

EqualSplit ==
  /\ Shares /\ Setting("method") = "equal_split"
  /\ Events = {} /\ Setting("min") = 0 /\ Setting("max") = 0

\* Each share is the price over those who share, and as many were paid as are no
\* longer to be paid.
Split ==
  EqualSplit /\ ~spoiled =>
    /\ stage = "people" => award = Price
    /\ stage = "shares" =>
         /\ award = PerPerson(Price) /\ share = award
         /\ Paid(Players) = share * (Cardinality(Sharers) - Cardinality(left))
    /\ stage = "over" /\ rows # <<>> =>
         Applicable /\ Paid(Players) = PerPerson(Price) * (Cardinality(Sharers) + 1)

LEMMA SplitInputsStay ==
  ASSUME UNCHANGED <<sub, group>>
  PROVE  /\ EqualSplit' = EqualSplit /\ Price' = Price /\ Sharers' = Sharers /\ Applicable' = Applicable
         /\ \A points : PerPerson(points)' = PerPerson(points)
<1>1. /\ Sharers' = Sharers /\ Applicable' = Applicable /\ NoSplit' = NoSplit
      /\ \A key : Setting(key)' = Setting(key)
  BY InputsStay
<1>2. Events' = Events
  BY DEF Events, AppliesTo
<1>3. Overriding' = Overriding /\ Awards' = Awards /\ Divisor' = Divisor
  BY DEF Overriding, Matches, Awards, Divisor
<1>4. \A each : DropPrice(each)' = DropPrice(each)
  BY <1>1, <1>3 DEF DropPrice
<1>5. \A mod : ModPrice(mod)' = ModPrice(mod)
  BY DEF ModPrice
<1>6. Price' = Price
  BY <1>3, <1>4, <1>5 DEF Price
<1>7. EqualSplit' = EqualSplit
  BY <1>1, <1>2 DEF EqualSplit, Shares
<1>8. \A points : PerPerson(points)' = PerPerson(points)
  BY <1>1 DEF PerPerson
<1>. QED  BY <1>1, <1>6, <1>7, <1>8

LEMMA SplitOut ==
  ASSUME Inv, Split, ShareOut
  PROVE  Split'
<1>1. UNCHANGED <<sub, group, rows, spoiled>> /\ stage = "people" /\ stage' = "shares" /\ rows = <<>>
  BY DEF ShareOut, inputVars, payVars, Inv
<1>2. SUFFICES ASSUME EqualSplit, ~spoiled PROVE Split'
  BY <1>1, SplitInputsStay DEF Split
<1>3. award = Price /\ left' = Sharers /\ share' = PerPerson(Price) /\ award' = PerPerson(Price)
  BY <1>1, <1>2 DEF Split, EqualSplit, ShareOut, ShareOf
<1>4. PerPerson(Price)' = PerPerson(Price) /\ Sharers' = Sharers
  BY <1>1, SplitInputsStay
<1>5. Paid(Players)' = 0
  BY <1>1, PaidNone
<1>6. Cardinality(Sharers) \in Nat
  BY SharersAreFinite, FS_CardinalityType DEF Inv
<1>7. share' \in Nat
  <2>1. Price \in Nat
    BY <1>1, PriceIsNatural DEF Inv
  <2>2. CeilDiv(Price, Cardinality(Sharers) + 1) \in Nat
    BY <1>6, <2>1, RoundingUp
  <2>. QED  BY <1>3, <2>2 DEF PerPerson
<1>8. share' * (Cardinality(Sharers) - Cardinality(Sharers)) = 0
  BY <1>6, <1>7
<1>9. (Paid(Players) = share * (Cardinality(Sharers) - Cardinality(left)))'
  BY <1>3, <1>4, <1>5, <1>8
<1>. QED  BY <1>1, <1>3, <1>4, <1>9 DEF Split

LEMMA SplitShare ==
  ASSUME Inv, Split, PayShare
  PROVE  Split'
<1>1. UNCHANGED <<sub, group, award, share>> /\ stage = "shares" /\ stage' = "shares" /\ ~spoiled
  BY DEF PayShare, inputVars
<1>2. PICK k \in left :
        /\ left' = left \ {k}
        /\ IF DueShare(share) > 0
           THEN Pay(Who[sub.names[k]], DueShare(share)) \/ Fails
           ELSE UNCHANGED payVars
  BY DEF PayShare
<1>3. SUFFICES ASSUME EqualSplit, ~spoiled' PROVE Split'
  BY <1>1, SplitInputsStay DEF Split
<1>4. /\ award = PerPerson(Price) /\ share = award
      /\ Paid(Players) = share * (Cardinality(Sharers) - Cardinality(left))
  BY <1>1, <1>3 DEF Split
<1>5. PerPerson(Price)' = PerPerson(Price) /\ Sharers' = Sharers
  BY <1>1, SplitInputsStay
<1>6. DueShare(share) = share /\ share \in Nat
  BY <1>3, PlainDues DEF EqualSplit, Inv
<1>7. /\ Cardinality(Sharers) \in Nat /\ Cardinality(left) \in Nat
      /\ Cardinality(left') = Cardinality(left) - 1
  <2>1. IsFiniteSet(Sharers) /\ IsFiniteSet(left)
    BY SharersAreFinite, FS_Subset DEF Inv
  <2>. QED  BY <1>2, <2>1, FS_CardinalityType, FS_RemoveElement
<1>. DEFINE paid == Cardinality(Sharers) - Cardinality(left)
<1>8. Cardinality(Sharers) - Cardinality(left') = paid + 1 /\ paid \in Int
  BY <1>7
<1>9. Paid(Players)' = share * paid + share
  <2>1. CASE share = 0
    <3>1. UNCHANGED rows
      BY <1>2, <1>6, <2>1 DEF payVars
    <3>2. Paid(Players)' = Paid(Players)
      BY <3>1, PaidStays
    <3>3. 0 * paid = 0 /\ 0 * paid + 0 = 0
      BY <1>8
    <3>. QED  BY <1>4, <2>1, <3>2, <3>3
  <2>2. CASE share > 0
    <3>1. Pay(Who[sub.names[k]], share)
      BY <1>2, <1>3, <1>6, <2>2 DEF Fails
    <3>2. Who[sub.names[k]] \in Players
      BY <1>2, GroupAssumption DEF Inv, Sharers
    <3>3. rows \in Seq(Players \X Int) /\ rows' = Append(rows, <<Who[sub.names[k]], share>>) /\ share \in Int
      BY <1>6, <3>1 DEF Pay, Inv
    <3>4. Paid(Players)' = Paid(Players) + (IF Who[sub.names[k]] \in Players THEN share ELSE 0)
      BY <3>2, <3>3, PaidMore
    <3>. QED  BY <1>4, <3>2, <3>4
  <2>. QED  BY <1>6, <2>1, <2>2
<1>10. share * (paid + 1) = share * paid + share
  BY <1>6, <1>8, OneMore
<1>11. (Paid(Players) = share * (Cardinality(Sharers) - Cardinality(left)))'
  <2>. HIDE DEF paid
  <2>. QED  BY <1>1, <1>5, <1>8, <1>9, <1>10
<1>. QED  BY <1>1, <1>4, <1>5, <1>11 DEF Split

LEMMA SplitOwn ==
  ASSUME Inv, Split, PayOwn
  PROVE  Split'
<1>1. UNCHANGED <<sub, group, award, share, left>> /\ stage = "shares" /\ stage' = "over" /\ left = {} /\ ~spoiled
  BY DEF PayOwn, inputVars
<1>2. SUFFICES ASSUME EqualSplit, ~spoiled' PROVE Split'
  BY <1>1, SplitInputsStay DEF Split
<1>3. /\ award = PerPerson(Price) /\ share = award
      /\ Paid(Players) = share * (Cardinality(Sharers) - Cardinality(left))
  BY <1>1, <1>2 DEF Split
<1>4. PerPerson(Price)' = PerPerson(Price) /\ Sharers' = Sharers /\ Applicable' = Applicable
  BY <1>1, SplitInputsStay
<1>5. DueOwn(award) = share /\ share \in Nat /\ Applicable
  BY <1>1, <1>2, <1>3, PlainDues DEF EqualSplit, Inv
<1>6. Cardinality(Sharers) \in Nat /\ Cardinality(left) = 0
  BY <1>1, SharersAreFinite, FS_CardinalityType, FS_EmptySet DEF Inv
<1>7. Paid(Players) = share * Cardinality(Sharers)
  BY <1>3, <1>6
<1>8. share * (Cardinality(Sharers) + 1) = share * Cardinality(Sharers) + share
  BY <1>5, <1>6, OneMore
<1>9. Paid(Players)' = share * Cardinality(Sharers) + share
  <2>1. CASE share = 0
    <3>1. UNCHANGED rows
      BY <1>5, <2>1 DEF payVars, PayOwn
    <3>2. Paid(Players)' = Paid(Players)
      BY <3>1, PaidStays
    <3>3. 0 * Cardinality(Sharers) = 0 /\ 0 * Cardinality(Sharers) + 0 = 0
      BY <1>6
    <3>. QED  BY <1>7, <2>1, <3>2, <3>3
  <2>2. CASE share > 0
    <3>1. Pay(sub.receiver, share)
      BY <1>2, <1>5, <2>2 DEF Fails, PayOwn
    <3>2. sub.receiver \in Players
      BY SubmissionAssumption DEF Inv
    <3>3. rows \in Seq(Players \X Int) /\ rows' = Append(rows, <<sub.receiver, share>>) /\ share \in Int
      BY <1>5, <3>1 DEF Pay, Inv
    <3>4. Paid(Players)' = Paid(Players) + (IF sub.receiver \in Players THEN share ELSE 0)
      BY <3>2, <3>3, PaidMore
    <3>. QED  BY <1>7, <3>2, <3>4
  <2>. QED  BY <1>5, <2>1, <2>2
<1>. QED  BY <1>1, <1>3, <1>4, <1>5, <1>8, <1>9 DEF Split

LEMMA StepsSplit ==
  ASSUME Inv, Split, [Next]_vars
  PROVE  Split'
<1>1. CASE Deny
  BY <1>1 DEF Deny, payVars, Split, Inv
<1>2. CASE PriceIt
  <2>1. UNCHANGED <<sub, group>> /\ award' = Price /\ stage' = "people"
    BY <1>2 DEF PriceIt, inputVars
  <2>. QED  BY <2>1, SplitInputsStay DEF Split
<1>3. CASE Bar
  BY <1>3 DEF Bar, payVars, Split, Inv
<1>4. CASE ShareOut
  BY <1>4, SplitOut
<1>5. CASE PayShare
  BY <1>5, SplitShare
<1>6. CASE PayOwn
  BY <1>6, SplitOwn
<1>7. CASE Raise
  BY <1>7 DEF Raise, Split
<1>8. CASE EndTransaction
  BY <1>8 DEF EndTransaction, Split
<1>9. CASE UNCHANGED vars
  <2>1. UNCHANGED <<sub, group, stage, award, left, share, rows, spoiled>>
    BY <1>9 DEF vars
  <2>2. Paid(Players)' = Paid(Players)
    BY <2>1, PaidStays
  <2>. QED  BY <2>1, <2>2, SplitInputsStay DEF Split
<1>. QED
  BY <1>1, <1>2, <1>3, <1>4, <1>5, <1>6, <1>7, <1>8, <1>9 DEF Next

LEMMA SplitsComeOut ==
  ASSUME Inv, Split
  PROVE  SplitAddsUp
<1>1. SUFFICES ASSUME stage = "over", EqualSplit, rows # <<>>, ~spoiled
               PROVE  Price <= Paid(Players) /\ Paid(Players) < Price + Cardinality(Sharers) + 1
  BY DEF SplitAddsUp, EqualSplit
<1>2. Applicable /\ Paid(Players) = PerPerson(Price) * (Cardinality(Sharers) + 1)
  BY <1>1 DEF Split
<1>3. Price \in Nat
  BY <1>2, PriceIsNatural DEF Inv
<1>4. Cardinality(Sharers) \in Nat /\ Cardinality(Sharers) + 1 \in Nat \ {0}
  BY SharersAreFinite, FS_CardinalityType DEF Inv
<1>5. /\ Price <= PerPerson(Price) * (Cardinality(Sharers) + 1)
      /\ PerPerson(Price) * (Cardinality(Sharers) + 1) < Price + (Cardinality(Sharers) + 1)
  BY <1>3, <1>4, RoundingUp DEF PerPerson
<1>. QED  BY <1>2, <1>3, <1>4, <1>5

\* Whatever the price and however many share it, an equal split makes no points
\* and loses none but for the rounding up.
THEOREM SplitsAddUp == Spec => []SplitAddsUp
<1>1. Init => Split
  BY DEF Init, Split
<1>2. Inv /\ Split /\ [Next]_vars => Split'
  BY StepsSplit
<1>3. Inv /\ Split => SplitAddsUp
  BY SplitsComeOut
<1>. QED  BY <1>1, <1>2, <1>3, InductiveInvariant, PTL DEF Spec
=============================================================================
