---------------------------- MODULE GroupPoints ----------------------------
(***************************************************************************)
(* Points a group gives for what its members achieve                       *)
(* (data/submissions/point_awards.py).  check_and_award_points runs inside *)
(* the transaction of a submission, once for each group of the receiver:   *)
(* the group's lists may deny it, its rules price it, and the price is     *)
(* shared with the players named beside the receiver.  Each payment is a   *)
(* flushed row of player_points; an error of the flush is swallowed, but   *)
(* it leaves the session unable to go on until it is rolled back.          *)
(***************************************************************************)
EXTENDS Integers, Sequences, FiniteSets, FiniteSetsExt

CONSTANTS
  Groups,       \* configurations of a group, see GroupAssumption
  Defaults,     \* the settings of group 1, which stand in for missing ones
  Submissions,  \* what is submitted, see SubmissionAssumption
  Players,
  Names,        \* spellings of player names
  None,         \* no such player; no quantity; no award for a reason
  Who,          \* the player a spelling is resolved to
  Lower,        \* a spelling in lower case
  MaxFaults     \* bound: payments whose flush fails

Lists == {"blacklist", "whitelist", "no_split"}
Methods == {"equal_split", "award_all", "other"}
Operations == {"multiply", "add", "set"}

\* What a setting is if neither the group nor group 1 has it.
Fallback ==
  [stacks |-> FALSE, groupOnly |-> FALSE, sharing |-> FALSE, method |-> "equal_split",
   min |-> 0, max |-> 0]

SettingsOK(settings) ==
  \A key \in DOMAIN settings \cap DOMAIN Fallback :
    CASE key \in {"min", "max"} -> settings[key] \in Nat
      [] key = "method" -> settings[key] \in Methods
      [] OTHER -> settings[key] \in BOOLEAN

ASSUME NamesAssumption ==
  /\ Who \in [Names -> Players \cup {None}]
  /\ None \notin Players /\ None \notin Nat
  /\ DOMAIN Lower = Names
  /\ SettingsOK(Defaults)
  /\ MaxFaults \in Nat

\* An id of 0 in a list, a rule or an event stands for any; in a submission it
\* is missing.  Events are listed newest first.
ASSUME GroupAssumption ==
  \A g \in Groups :
    /\ g.active \in BOOLEAN /\ g.members \subseteq Players
    /\ \A r \in DOMAIN g.awards : g.awards[r] \in Nat
    /\ g.divisor \in Nat \ {0}
    /\ \A e \in g.lists : e.list \in Lists /\ e.item \in Nat /\ e.npc \in Nat
    /\ DOMAIN g.mods \subseteq Nat /\ DOMAIN g.events \subseteq Nat
    /\ \A k \in DOMAIN g.mods : g.mods[k].award \in Nat /\ g.mods[k].divisor \in Nat \ {0}
    /\ \A k \in DOMAIN g.events : g.events[k].value \in Int
    /\ SettingsOK(g.settings)

ASSUME SubmissionAssumption ==
  \A s \in Submissions :
    /\ s.value \in Nat /\ s.qty \in (Nat \ {0}) \cup {None}
    /\ s.receiver \in Players /\ s.own \in Names
    /\ s.names \in Seq(Names)

VARIABLES
  sub, group, \* the submission and the group
  stage,
  award,     \* point_award: the receiver's, as far as it is worked out
  left,      \* valid_share_targets still to be paid, by their places
  share,     \* what each of them is due, before events and bounds
  rows,      \* the rows of player_points, flushed or committed
  result,    \* what the submission's notice will say
  spoiled,   \* a flush failed: nothing more can be done in the transaction
  faults

vars == <<sub, group, stage, award, left, share, rows, result, spoiled, faults>>

Stages == {"rules", "people", "shares", "over", "ended"}

-----------------------------------------------------------------------------
(* What the rules say.                                                     *)

\* A missing setting is that of group 1, or the fallback; the group gets a copy,
\* which says the same.
Setting(key) ==
  IF key \in DOMAIN group.settings THEN group.settings[key]
  ELSE IF key \in DOMAIN Defaults THEN Defaults[key]
  ELSE Fallback[key]

\* A group without any award is given the usual ones, which are left as they are.
UsualAwards ==
  [drop |-> 1, pb |-> 1, pet |-> 10, clog |-> 1, easy_ca |-> 1, medium_ca |-> 2,
   hard_ca |-> 3, elite_ca |-> 4, master_ca |-> 5, grandmaster_ca |-> 6]
Awards == IF DOMAIN group.awards = {} THEN UsualAwards ELSE group.awards
Divisor == IF DOMAIN group.awards = {} THEN 10000000 ELSE group.divisor

\* Filters on item and NPC.
Matches(e) == e.item \in {0, sub.item} /\ e.npc \in {0, sub.npc}

\* An empty entry of a list matches nothing.
Listed(e) == (e.item # 0 \/ e.npc # 0) /\ Matches(e)
OnList(list) == {e \in group.lists : e.list = list}

Allowed ==
  /\ \A e \in OnList("blacklist") : ~Listed(e)
  /\ OnList("whitelist") # {} => \E e \in OnList("whitelist") : Listed(e)
NoSplit == \E e \in OnList("no_split") : Listed(e)

RoundHalfUp(value, divisor) == (value + divisor \div 2) \div divisor
CeilDiv(value, divisor) == (value + divisor - 1) \div divisor

\* The first rule for this item, NPC and reason.
Overriding == {k \in DOMAIN group.mods : Matches(group.mods[k]) /\ group.mods[k].kind = sub.reason}

ModPrice(mod) ==
  IF sub.qty # None THEN mod.award * sub.qty
  ELSE IF sub.reason = "drop" /\ mod.divisor > 1
       THEN RoundHalfUp(sub.value, mod.divisor) * mod.award
  ELSE mod.award

\* Items of a stack are priced one by one unless the group counts stacks.
DropPrice(each) ==
  IF sub.qty # None /\ ~Setting("stacks")
  THEN RoundHalfUp(sub.value \div sub.qty, Divisor) * each * sub.qty
  ELSE RoundHalfUp(sub.value, Divisor) * each

Price ==
  IF Overriding # {} THEN ModPrice(group.mods[Min(Overriding)])
  ELSE IF sub.reason = "drop" THEN DropPrice(Awards[sub.reason])
  ELSE Awards[sub.reason]

\* The newest event that is on, is meant for this and can be carried out.
AppliesTo(e) ==
  /\ e.kind \in {"any", sub.reason}
  /\ e.from <= sub.time /\ sub.time <= e.to
  /\ \/ e.target = "any"
     \/ e.target = "item" /\ sub.item # 0 /\ e.id \in {0, sub.item}
     \/ e.target = "npc" /\ sub.npc # 0 /\ e.id \in {0, sub.npc}
Events == {k \in DOMAIN group.events : AppliesTo(group.events[k]) /\ group.events[k].op \in Operations}

AfterEvent(points) ==
  IF Events = {} THEN points
  ELSE LET e == group.events[Min(Events)]
       IN  CASE e.op = "multiply" -> points * e.value
             [] e.op = "add" -> points + e.value
             [] OTHER -> e.value

\* A minimum above the maximum gives way; 0 is no bound.
Bounded(points) ==
  LET lo == Setting("min")
      hi == Setting("max")
      least == IF hi # 0 /\ lo > hi THEN hi ELSE lo
      capped == IF hi # 0 /\ points > hi THEN hi ELSE points
  IN  IF points <= 0 THEN 0 ELSE IF capped < least THEN least ELSE capped

\* Others are paid out of something only, the receiver by an event alone too.
\* Bounds come last.
DueShare_BoundsFirst(points) == IF points > 0 THEN AfterEvent(Bounded(points)) ELSE 0
DueShare(points) == Bounded(IF points > 0 THEN AfterEvent(points) ELSE points)
DueOwn(points) == Bounded(AfterEvent(points))

-----------------------------------------------------------------------------
(* Who shares.                                                             *)

\* _normalize_player_names: neither the receiver nor a name again, by case.
Fresh_Again(k) == Lower[sub.names[k]] # Lower[sub.own]
Fresh(k) ==
  /\ Lower[sub.names[k]] # Lower[sub.own]
  /\ \A j \in 1..(k - 1) : Lower[sub.names[j]] # Lower[sub.names[k]]

Included == {k \in DOMAIN sub.names : Fresh(k)}

\* The places of those of them who are in the group.
Sharers == {k \in Included : Who[sub.names[k]] \in group.members}

\* Only for what is done alone or with somebody of the group.
Barred == Setting("groupOnly") /\ Included # {} /\ Sharers = {}

Shares == ~NoSplit /\ Setting("sharing") /\ Sharers # {}

PerPerson_NotReceiver(points) == CeilDiv(points, Cardinality(Sharers))
PerPerson(points) == CeilDiv(points, Cardinality(Sharers) + 1)

ShareOf(points) ==
  CASE Setting("method") = "equal_split" -> PerPerson(points)
    [] Setting("method") = "award_all" -> points
    [] OTHER -> 0

-----------------------------------------------------------------------------
(* The steps of check_and_award_points.                                    *)

TypeOK ==
  /\ sub \in Submissions /\ group \in Groups
  /\ stage \in Stages
  /\ award \in Nat /\ share \in Nat
  /\ left \subseteq Sharers
  /\ rows \in Seq(Players \X (Nat \ {0}))
  /\ result.receiver \in Nat /\ result.total \in Nat
  /\ spoiled \in BOOLEAN /\ faults \in 0..MaxFaults

NoPoints == [receiver |-> 0, total |-> 0, paid |-> <<>>]

Init ==
  /\ sub \in Submissions /\ group \in Groups
  /\ stage = "rules"
  /\ award = 0 /\ left = {} /\ share = 0
  /\ rows = <<>> /\ result = NoPoints
  /\ spoiled = FALSE /\ faults = 0

inputVars == <<sub, group>>
payVars == <<rows, result, spoiled, faults>>

Applicable == group.active /\ sub.reason \in DOMAIN Awards /\ Allowed

\* The group has no points, none for this, or its lists deny them.
Deny ==
  /\ stage = "rules" /\ ~Applicable
  /\ stage' = "over"
  /\ UNCHANGED <<inputVars, award, left, share, payVars>>

PriceIt ==
  /\ stage = "rules" /\ Applicable
  /\ award' = Price
  /\ stage' = "people"
  /\ UNCHANGED <<inputVars, left, share, payVars>>

Bar ==
  /\ stage = "people" /\ Barred
  /\ stage' = "over"
  /\ UNCHANGED <<inputVars, award, left, share, payVars>>

\* An equal share is the receiver's as well.
ShareOut ==
  /\ stage = "people" /\ ~Barred
  /\ IF Shares
     THEN /\ left' = Sharers /\ share' = ShareOf(award)
          /\ award' = IF Setting("method") = "equal_split" THEN ShareOf(award) ELSE award
     ELSE UNCHANGED <<award, left, share>>
  /\ stage' = "shares"
  /\ UNCHANGED <<inputVars, payVars>>

\* award_player_points and _record_award.
Recorded_AsReceivers(player, points) ==
  [receiver |-> result.receiver + points, total |-> result.total + points,
   paid |-> Append(result.paid, <<player, points>>)]
Recorded(player, points) ==
  [receiver |-> result.receiver + IF player = sub.receiver THEN points ELSE 0,
   total |-> result.total + points,
   paid |-> Append(result.paid, <<player, points>>)]

Pay(player, points) ==
  /\ rows' = Append(rows, <<player, points>>)
  /\ result' = Recorded(player, points)
  /\ UNCHANGED <<spoiled, faults>>

\* The flush fails, for a reason that names too many players for its column
\* too: nothing is recorded, and the session is of no more use.
Fails ==
  /\ faults < MaxFaults /\ faults' = faults + 1
  /\ spoiled' = TRUE
  /\ UNCHANGED <<rows, result>>

\* In the order of the names.
PayShare ==
  /\ stage = "shares" /\ ~spoiled
  /\ \E k \in left :
       /\ \A j \in left : k <= j
       /\ left' = left \ {k}
       /\ IF DueShare(share) > 0
          THEN Pay(Who[sub.names[k]], DueShare(share)) \/ Fails
          ELSE UNCHANGED payVars
  /\ UNCHANGED <<inputVars, stage, award, share>>

PayOwn ==
  /\ stage = "shares" /\ left = {} /\ ~spoiled
  /\ stage' = "over"
  /\ IF DueOwn(award) > 0
     THEN Pay(sub.receiver, DueOwn(award)) \/ Fails
     ELSE UNCHANGED payVars
  /\ UNCHANGED <<inputVars, award, left, share>>

\* The next query in a spoiled session raises: the caller is left without a
\* result.
Raise ==
  /\ stage = "shares" /\ spoiled
  /\ stage' = "over"
  /\ result' = NoPoints
  /\ UNCHANGED <<inputVars, award, left, share, rows, spoiled, faults>>

\* The submission's transaction ends, for good only if nothing spoiled it.
EndTransaction ==
  /\ stage = "over"
  /\ stage' = "ended"
  /\ \/ ~spoiled /\ UNCHANGED rows
     \/ rows' = <<>>
  /\ UNCHANGED <<inputVars, award, left, share, result, spoiled, faults>>

Next ==
  \/ Deny \/ PriceIt \/ Bar \/ ShareOut
  \/ PayShare \/ PayOwn \/ Raise \/ EndTransaction

Spec == Init /\ [][Next]_vars

-----------------------------------------------------------------------------
(* Properties.                                                             *)

\* What the rows of some players come to.
Paid(who) ==
  LET upTo[n \in 0..Len(rows)] ==
        IF n = 0 THEN 0 ELSE upTo[n - 1] + (IF rows[n][1] \in who THEN rows[n][2] ELSE 0)
  IN  upTo[Len(rows)]

\* Nobody is paid twice for one submission, unless two of the names given, the
\* receiver's among them, are his and differ by more than case: a blank and an
\* underscore are told apart when names are compared and not when the player
\* is looked up (lines 663 and 682).
OnePaymentEach ==
  \A j, k \in DOMAIN rows : j < k /\ rows[j][1] = rows[k][1] =>
    \E a, b \in {sub.own} \cup {sub.names[i] : i \in DOMAIN sub.names} :
      /\ Lower[a] # Lower[b]
      /\ Who[a] = rows[j][1]
      /\ Who[b] = rows[j][1] \/ (b = sub.own /\ rows[j][1] = sub.receiver)

\* An equal split gives out what there was to give, and rounds up by less than
\* a point a head, the receiver counted: sharing makes no points.
SplitAddsUp ==
  stage = "over" /\ Shares /\ Setting("method") = "equal_split" /\ rows # <<>> /\ ~spoiled
    /\ Events = {} /\ Setting("min") = 0 /\ Setting("max") = 0 =>
    /\ Price <= Paid(Players)
    /\ Paid(Players) < Price + Cardinality(Sharers) + 1

Right(player, points) ==
  /\ Applicable
  /\ player = sub.receiver \/ (player \in group.members /\ Setting("sharing") /\ ~NoSplit)
  /\ Setting("max") # 0 => points <= Setting("max")
  /\ points >= Setting("min") \/ (Setting("max") # 0 /\ points = Setting("max"))

\* What the rules say holds of every payment, the ones of a share after an event
\* too: the lists allow it, it goes to the receiver or to somebody of the group
\* while the group shares, and it is within the group's bounds.
RulesAndLimits == \A k \in DOMAIN rows : Right(rows[k][1], rows[k][2])

\* What the notice says of the points is what will be in the table, the parts
\* of a player named twice added up, though payments fail without a word.
ReportIsTrue ==
  /\ stage = "over" /\ ~spoiled =>
       result.total = Paid(Players) /\ result.receiver = Paid({sub.receiver})
  /\ stage = "ended" /\ rows # <<>> =>
       result.total = Paid(Players) /\ result.receiver = Paid({sub.receiver})

=============================================================================
