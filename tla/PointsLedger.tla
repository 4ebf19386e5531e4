---------------------------- MODULE PointsLedger ----------------------------
(***************************************************************************)
(* The ledger of points (services/points.py): credits of players and of    *)
(* groups that expire, are revoked, or are spent on features with the ones *)
(* that expire soonest first, and grants that give a player's points again *)
(* each month.  A purchase locks the rows it may take from; the sweep of   *)
(* expired credits and the monthly run read without locks and write later. *)
(***************************************************************************)
EXTENDS Integers, Sequences, FiniteSets, Functions

CONSTANTS
  Players, Groups, None,
  Member,      \* the players of a group
  Awards,      \* what may be awarded, see LedgerAssumption
  Costs,       \* what features cost
  Refs,        \* pledges and Nitro boosts, the external_ref of a grant
  Subscriber,  \* the player of a Ref
  Amounts,     \* points per month
  Month,       \* a month, in steps of the clock
  Batch,       \* grants taken by one monthly run
  Workers,     \* sessions at work at once
  MaxCredits,  \* bound: credits
  MaxNow,      \* bound: the clock
  MaxGrants,   \* bound: rows of recurring grants
  MaxBegun,    \* bound: what sessions set out to do
  MaxTroubles  \* bound: exceptions

ASSUME LedgerAssumption ==
  /\ None \notin Players \cup Groups
  /\ Member \in [Groups -> SUBSET Players] /\ Subscriber \in [Refs -> Players]
  /\ \A a \in Awards : /\ a.player \in Players \cup {None} /\ a.group \in Groups \cup {None}
                       /\ a.amount \in Nat \ {0} /\ a.days \in Nat \cup {None}
  /\ Costs \subseteq Nat \ {0} /\ Amounts \subseteq Nat \ {0}
  /\ Month \in Nat \ {0} /\ Batch \in Nat \ {0}
  /\ {MaxCredits, MaxNow, MaxGrants, MaxBegun, MaxTroubles} \subseteq Nat

VARIABLES
  credits,    \* point_credits, by id; "revoked" is that revoked_at is set
  allocated,  \* what the allocations of all debits say was taken from each
  grants,     \* recurring_point_grants, by id
  tx,         \* what each session is at
  now,
  begun, troubles,
  hurried     \* history: grants made due at once since they were last given

vars == <<credits, allocated, grants, tx, now, begun, troubles, hurried>>

Never == 0     \* expires_at or a due date that is NULL
Ids == DOMAIN credits
GrantIds == DOMAIN grants
Total(S, f) == SumFunctionOnSet(f, S)
Idle == [stage |-> "idle"]

Init ==
  /\ credits = <<>> /\ allocated = <<>> /\ grants = <<>>
  /\ tx = [w \in Workers |-> Idle]
  /\ now = 1 /\ begun = 0 /\ troubles = 0 /\ hurried = {}

Begin(w) == tx[w] = Idle /\ begun < MaxBegun /\ begun' = begun + 1
Trouble == troubles < MaxTroubles /\ troubles' = troubles + 1
Goes(w, t) == tx' = [tx EXCEPT ![w] = t]

Tick ==
  /\ now < MaxNow
  /\ now' = now + 1
  /\ UNCHANGED <<credits, allocated, grants, tx, begun, troubles, hurried>>

-----------------------------------------------------------------------------
(* Credits.                                                                *)

\* Nothing said of days is no expiry, and so are no days for a player; a
\* group's credit of no days expires at once.
Expiry(player, days) ==
  IF days = None \/ (player # None /\ days = 0) THEN Never ELSE now + days
Credit(player, group, amount, expires) ==
  [player |-> player, group |-> group, amount |-> amount, remaining |-> amount,
   expires |-> expires, status |-> "active", revoked |-> FALSE]

Award(a) ==
  /\ Len(credits) < MaxCredits
  /\ credits' = Append(credits, Credit(a.player, a.group, a.amount, Expiry(a.player, a.days)))
  /\ allocated' = Append(allocated, 0)
  /\ UNCHANGED <<grants, tx, now, begun, troubles, hurried>>

\* What a purchase holds locked until it commits.
Locked(w) == IF tx[w].stage = "taking" THEN tx[w].rows ELSE {}
LockFree_Ignored(w, ids) == TRUE
LockFree(w, ids) == \A v \in Workers \ {w} : Locked(v) \cap ids = {}

Revoke(w, c) ==
  /\ Begin(w) /\ LockFree(w, {c})
  /\ credits' = [credits EXCEPT ![c].remaining = 0, ![c].status = "revoked", ![c].revoked = TRUE]
  /\ UNCHANGED <<allocated, grants, tx, now, troubles, hurried>>

\* expire_due_credits: the ids first, then an update that looks no further.
ListExpired(w) ==
  LET ids == {c \in Ids : /\ credits[c].status = "active"
                          /\ credits[c].expires # Never /\ credits[c].expires <= now} IN
  /\ Begin(w) /\ ids # {}
  /\ Goes(w, [stage |-> "expiring", ids |-> ids])
  /\ UNCHANGED <<credits, allocated, grants, now, troubles, hurried>>

MarkExpired(w) ==
  /\ tx[w].stage = "expiring" /\ LockFree(w, tx[w].ids)
  /\ credits' = [c \in Ids |-> IF c \in tx[w].ids THEN [credits[c] EXCEPT !.status = "expired"]
                               ELSE credits[c]]
  /\ Goes(w, Idle)
  /\ UNCHANGED <<allocated, grants, now, begun, troubles, hurried>>

-----------------------------------------------------------------------------
(* Purchases.                                                              *)

\* A purchase for a player, for a group from its own, or for a group with a
\* member's credits, which may be of any scope.
Purses == [for : Players, by : {None}] \cup [for : Groups, by : Players \cup {None}]
Owns(purse, c) ==
  IF purse.for \in Players THEN credits[c].player = purse.for
  ELSE credits[c].group = purse.for \/ (purse.by # None /\ credits[c].player = purse.by)

Active(c, at) ==
  /\ credits[c].status = "active" /\ credits[c].remaining > 0
  /\ credits[c].expires = Never \/ credits[c].expires > at

Sooner_ById(c, d) == c < d
Sooner(c, d) ==
  LET x == credits[c].expires
      y == credits[d].expires
  IN \/ x # Never /\ (y = Never \/ x < y)
     \/ x = y /\ c < d

\* The query is made up with the time at hand, before it may have to wait.
Ask(w, purse, cost) ==
  /\ Begin(w)
  /\ purse.by # None => purse.by \in Member[purse.for]
  /\ Goes(w, [stage |-> "asking", purse |-> purse, cost |-> cost, at |-> now])
  /\ UNCHANGED <<credits, allocated, grants, now, troubles, hurried>>

Eligible(w) == {c \in Ids : Owns(tx[w].purse, c) /\ Active(c, tx[w].at)}

\* SELECT ... FOR UPDATE: what was read stays as it is until the commit.
Lock(w) ==
  /\ tx[w].stage = "asking" /\ LockFree(w, Eligible(w))
  /\ Goes(w, [stage |-> "taking", rows |-> Eligible(w), next |-> Eligible(w), at |-> now,
              seen |-> [c \in Eligible(w) |-> credits[c].remaining],
              taken |-> [c \in Eligible(w) |-> 0], cost |-> tx[w].cost, left |-> tx[w].cost])
  /\ UNCHANGED <<credits, allocated, grants, now, begun, troubles, hurried>>

HasExpired(c, at) == credits[c].expires # Never /\ credits[c].expires <= at
Share(c, t) ==
  IF HasExpired(c, t.at) THEN 0 ELSE IF t.seen[c] <= t.left THEN t.seen[c] ELSE t.left

\* One round of _consume_points' loop.
Take(w) ==
  LET t == tx[w] IN
  /\ t.stage = "taking" /\ t.left > 0
  /\ \E c \in t.next :
       /\ \A d \in t.next \ {c} : Sooner(c, d)
       /\ Goes(w, [t EXCEPT !.next = @ \ {c}, !.taken[c] = Share(c, t), !.left = @ - Share(c, t)])
  /\ UNCHANGED <<credits, allocated, grants, now, begun, troubles, hurried>>

\* Expired credits it came across are called so in the same transaction.
Met(t) == t.rows \ t.next
Pay(w) ==
  LET t == tx[w] IN
  /\ t.stage = "taking" /\ t.left = 0
  /\ credits' = [c \in Ids |->
       IF c \notin Met(t) THEN credits[c]
       ELSE IF HasExpired(c, t.at) THEN [credits[c] EXCEPT !.status = "expired"]
       ELSE [credits[c] EXCEPT !.remaining = t.seen[c] - t.taken[c]]]
  /\ allocated' = [c \in Ids |-> IF c \in t.rows THEN allocated[c] + t.taken[c] ELSE allocated[c]]
  /\ Goes(w, Idle)
  /\ UNCHANGED <<grants, now, begun, troubles, hurried>>

\* Insufficient points: all is rolled back.
Refuse(w) ==
  /\ tx[w].stage = "taking" /\ tx[w].left > 0 /\ tx[w].next = {}
  /\ Goes(w, Idle)
  /\ UNCHANGED <<credits, allocated, grants, now, begun, troubles, hurried>>

-----------------------------------------------------------------------------
(* Monthly grants.                                                         *)

Of(ref) == {i \in GrantIds : grants[i].ref = ref}
First(ids) == CHOOSE i \in ids : \A j \in ids : i <= j

Find(w, ref, amount, onUpgrade) ==
  /\ Begin(w)
  /\ Goes(w, [stage |-> "ensuring", ref |-> ref, amount |-> amount, onUpgrade |-> onUpgrade,
              id |-> IF Of(ref) = {} THEN 0 ELSE First(Of(ref)),
              row |-> IF Of(ref) = {} THEN None ELSE grants[First(Of(ref))]])
  /\ UNCHANGED <<credits, allocated, grants, now, troubles, hurried>>

\* A new grant is due at once or in a month.
Insert(w, due) ==
  /\ tx[w].stage = "ensuring" /\ tx[w].id = 0
  /\ Len(grants) < MaxGrants
  /\ due \in {now, now + Month}
  /\ grants' = Append(grants, [ref |-> tx[w].ref, amount |-> tx[w].amount, status |-> "active",
                               last |-> Never, due |-> due])
  /\ Goes(w, Idle)
  /\ UNCHANGED <<credits, allocated, now, begun, troubles, hurried>>

Upgrades_NoLess(t) == t.amount >= t.row.amount /\ t.onUpgrade
Upgrades(t) == t.amount > t.row.amount /\ t.onUpgrade
Revives(t) == t.row.status # "active" /\ (t.row.due = Never \/ t.row.due > now)

\* Only the columns it changes from what it read are written.
Update(w) ==
  LET t == tx[w] IN
  /\ t.stage = "ensuring" /\ t.id # 0
  /\ grants' = [grants EXCEPT
       ![t.id].amount = IF t.amount # t.row.amount THEN t.amount ELSE @,
       ![t.id].status = IF t.row.status # "active" THEN "active" ELSE @,
       ![t.id].due = IF Upgrades(t) \/ Revives(t) THEN now ELSE @]
  /\ hurried' = hurried \cup
       (IF t.row.status # "active" \/ (t.amount > t.row.amount /\ t.onUpgrade) THEN {t.id} ELSE {})
  /\ Goes(w, Idle)
  /\ UNCHANGED <<credits, allocated, now, begun, troubles>>

Cancel(w, ref) ==
  /\ Begin(w) /\ Of(ref) # {}
  /\ grants' = [grants EXCEPT ![First(Of(ref))].status = "cancelled", ![First(Of(ref))].due = Never]
  /\ UNCHANGED <<credits, allocated, tx, now, troubles, hurried>>

IsDue(i) == grants[i].status = "active" /\ grants[i].due # Never /\ grants[i].due <= now
Earlier(i, j) == grants[i].due < grants[j].due \/ (grants[i].due = grants[j].due /\ i < j)
DueNow == {i \in GrantIds : IsDue(i)}

\* ORDER BY next_due_at, id LIMIT batch_size.
Fetch(w) ==
  /\ Begin(w)
  /\ \E n \in 1..Batch : \E order \in [1..n -> DueNow] :
       /\ \A k, l \in 1..n : k < l => Earlier(order[k], order[l])
       /\ \A i \in DueNow \ {order[k] : k \in 1..n} : n = Batch /\ Earlier(order[n], i)
       /\ Goes(w, [stage |-> "granting", order |-> order, at |-> now, clash |-> {},
                   amount |-> [k \in 1..n |-> grants[order[k]].amount]])
  /\ UNCHANGED <<credits, allocated, grants, now, troubles, hurried>>

\* The next month is counted from the run, not from when it was due.
NextDue(i, at) == at + Month
Held(t) == {t.order[k] : k \in DOMAIN t.order}
Given(t) ==
  [k \in 1..Len(t.order) |->
     Credit(Subscriber[grants[t.order[k]].ref], None, t.amount[k], Never)]

Grant(w) ==
  LET t == tx[w] IN
  /\ t.stage = "granting"
  /\ Len(credits) + Len(t.order) <= MaxCredits
  /\ credits' = credits \o Given(t)
  /\ allocated' = allocated \o [k \in 1..Len(t.order) |-> 0]
  /\ grants' = [i \in GrantIds |-> IF i \notin Held(t) THEN grants[i]
                  ELSE [grants[i] EXCEPT !.last = t.at, !.due = NextDue(i, t.at)]]
  /\ hurried' = hurried \ Held(t)
  /\ tx' = [v \in Workers |->
       IF v = w THEN Idle
       ELSE IF tx[v].stage = "granting" THEN [tx[v] EXCEPT !.clash = @ \cup Held(t)] ELSE tx[v]]
  /\ UNCHANGED <<now, begun, troubles>>

\* A flush that fails: the exception is swallowed for the one grant, but it
\* has ended the transaction, and all of the batch is rolled back.  So does
\* any other exception to what its session was at.
RollBack(w) ==
  /\ Trouble
  /\ tx[w] # Idle
  /\ Goes(w, Idle)
  /\ UNCHANGED <<credits, allocated, grants, now, begun, hurried>>

Next ==
  \/ Tick
  \/ \E a \in Awards : Award(a)
  \/ \E w \in Workers :
       \/ \E c \in Ids : Revoke(w, c)
       \/ ListExpired(w) \/ MarkExpired(w)
       \/ \E purse \in Purses, cost \in Costs : Ask(w, purse, cost)
       \/ Lock(w) \/ Take(w) \/ Pay(w) \/ Refuse(w)
       \/ \E ref \in Refs, amount \in Amounts, onUpgrade \in BOOLEAN : Find(w, ref, amount, onUpgrade)
       \/ (\E due \in {now, now + Month} : Insert(w, due)) \/ Update(w)
       \/ \E ref \in Refs : Cancel(w, ref)
       \/ Fetch(w) \/ Grant(w) \/ RollBack(w)

Spec == Init /\ [][Next]_vars

-----------------------------------------------------------------------------
\* What is left of a credit and what the debits say was taken from it make up
\* what was given, unless it was revoked, which leaves nothing of it for good
\* and takes back nothing already spent (points.py, _consume_points and
\* revoke_credit).  No two purchases spend the same point, and neither the sweep
\* nor a purchase beside a revocation undoes it; the sweep may call a revoked
\* credit expired again, so revoked_at tells, and never the status alone.
CreditsBalance ==
  \A c \in Ids : LET row == credits[c] IN
    /\ row.status = "revoked" => row.revoked
    /\ row.revoked => row.status # "active" /\ row.remaining = 0 /\ allocated[c] <= row.amount
    /\ ~row.revoked => row.remaining >= 0 /\ row.remaining + allocated[c] = row.amount

\* A purchase takes its price, no more and no less, from credits that have not
\* expired when it holds them, and from none while it leaves points on one that
\* expires sooner (points.py, _consume_points).
SoonestFirst ==
  [][\A w \in Workers : LET t == tx[w]
                            good == {c \in t.rows : credits[c].expires = Never \/ credits[c].expires > t.at}
     IN Pay(w) =>
       /\ Total(t.rows, [c \in t.rows |-> allocated'[c] - allocated[c]]) = t.cost
       /\ \A c \in t.rows \ good : allocated'[c] = allocated[c]
       /\ \A c, d \in good : allocated'[c] > allocated[c] /\ credits'[d].remaining > 0 =>
            \/ credits[d].expires = Never
            \/ credits[c].expires # Never /\ credits[c].expires <= credits[d].expires]_vars

\* A grant gives its points again only a month after it last did, unless it was
\* raised or revived since or two runs overlapped: the run reads what is due
\* without a lock (process_recurring_point_grants).
GrantsAreMonthly ==
  [][\A w \in Workers : Grant(w) =>
       \A i \in Held(tx[w]) : \/ grants[i].last = Never \/ tx[w].at >= grants[i].last + Month
                            \/ i \in hurried \/ i \in tx[w].clash]_vars
=============================================================================
