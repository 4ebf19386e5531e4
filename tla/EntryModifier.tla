--------------------------- MODULE EntryModifier ---------------------------
(***************************************************************************)
(* Drops shared by several players, and the administrators who change them *)
(* (services/entry_modifier.py).  A group that tracks splits lowers the    *)
(* receiver's score on its board and credits the players named beside him  *)
(* (drop.py, _award_split_gp_credits); rows of drop_splits let a rebuild   *)
(* of a player credit them again (redis_updates.py).  The group's points   *)
(* for the drop are rows that carry its number and nothing else.           *)
(*   An administrator hides, restores, deletes or revalues a drop, or      *)
(* names other players: the database, the boards and the points follow in  *)
(* several steps, between which drops arrive and the updater rebuilds.     *)
(***************************************************************************)
EXTENDS Integers, Sequences, FiniteSets, FiniteSetsExt, SequencesExt

CONSTANTS
  Players, Groups,
  Member,       \* the players of a group
  Tracking,     \* the groups with split_gp_tracking
  Drops,
  Receiver,     \* of a drop
  Month, Now,   \* the month of a drop; the current one
  Others,       \* personal bests and the like, which earn points too
  Owner,        \* of one of Others
  Number,       \* the key of a drop, or of another entry in its own table
  Worth,        \* what a drop is worth when it comes
  Values,       \* what it is revalued to
  Namings,      \* the sets of players named beside a receiver
  MaxChanges,   \* bound: changes by administrators
  MaxRebuilds,  \* bound: rebuilds by the updater
  MaxTroubles   \* bound: exceptions

ASSUME SharingAssumption ==
  /\ IsFiniteSet(Players) /\ IsFiniteSet(Groups) /\ IsFiniteSet(Drops)
  /\ Member \in [Groups -> SUBSET Players] /\ Tracking \subseteq Groups
  /\ Receiver \in [Drops -> Players] /\ Owner \in [Others -> Players]
  /\ DOMAIN Month = Drops /\ Drops \cap Others = {}
  /\ \A c, d \in Drops : Number[c] = Number[d] => c = d
  /\ Worth \in [Drops -> Nat] /\ Values \subseteq Nat /\ Namings \subseteq SUBSET Players
  /\ {MaxChanges, MaxRebuilds, MaxTroubles} \subseteq Nat

Entries == Drops \cup Others
Months == {Month[d] : d \in Drops} \cup {Now}
Actors == {"bot", "updater"}

VARIABLES
  state,     \* of an entry; a drop is "open" from its first count to its commit
  value,     \* of a drop
  named,     \* the players named when it was submitted
  pending,   \* the groups drop_processor has not come to yet
  rows,      \* drop_splits
  paid,      \* player_points: how often an entry earned a player points in a group
  board,     \* Redis: the score of a player on a group's board of a month
  job,       \* what the bot and the updater are at
  fetching,  \* drops whose hiding waits for Discord
  spent,     \* changes, rebuilds and troubles so far
  off,       \* history: players and months whose score was left wrong
  marked     \* history: what befell an entry's points or shares

vars == <<state, value, named, pending, rows, paid, board, job, fetching, spent, off, marked>>
entries == <<state, value, named, pending>>
table == <<entries, rows, paid>>
history == <<off, marked>>

GroupsOf(p) == {g \in Groups : p \in Member[g]}
RowsOf(d) == {r \in rows : r.drop = d}
RowsIn(d, g) == {r \in RowsOf(d) : r.group = g}
PlayersIn(rs) == {r.player : r \in rs}
Concerned(d) == {Receiver[d]} \cup named[d] \cup PlayersIn(RowsOf(d))
At(ps, d) == ps \X {Month[d]}

Total(S, f) == SumFunctionOnSet(f, S)
Worths(S) == Total(S, [x \in S |-> x.value])
NoPay == [p \in Players |-> 0]
IdleJob == [stage |-> "idle"]

\* Old drops are in the table, counted and paid for.
Init ==
  /\ state = [e \in Entries |-> IF e \in Drops /\ Month[e] # Now THEN "stored" ELSE "none"]
  /\ value = Worth
  /\ named = [d \in Drops |-> {}] /\ pending = [d \in Drops |-> {}]
  /\ rows = {} /\ fetching = {} /\ off = {} /\ marked = {}
  /\ paid = [g \in Groups |-> [e \in Entries |-> [p \in Players |->
       IF state[e] = "stored" /\ p = Receiver[e] /\ p \in Member[g] THEN 1 ELSE 0]]]
  /\ board = [m \in Months |-> [g \in Groups |-> [p \in Players |->
       Total({d \in Drops : state[d] = "stored" /\ Month[d] = m /\ Receiver[d] = p /\ p \in Member[g]},
             value)]]]
  /\ job = [a \in Actors |-> IdleJob]
  /\ spent = [changes |-> 0, rebuilds |-> 0, troubles |-> 0]

May(what, max) == spent[what] < max /\ spent' = [spent EXCEPT ![what] = @ + 1]
Trouble == May("troubles", MaxTroubles)

\* History only: a rebuild under way sees the scores or drops of ps change.
Disturbed(jobs, ps) ==
  [a \in Actors |-> IF jobs[a].stage \in {"read", "reset"} /\ jobs[a].player \in ps
                    THEN [jobs[a] EXCEPT !.clash = TRUE] ELSE jobs[a]]

\* An open transaction reads the tables as they were when it began.
Unread(jobs, d) ==
  [a \in Actors |-> IF jobs[a].stage \in {"rebuild", "read", "reset"} /\ jobs[a].open
                    THEN [jobs[a] EXCEPT !.late = @ \cup {d}] ELSE jobs[a]]

-----------------------------------------------------------------------------
(* Shares, credits and points.                                             *)

Shares(d, g, ps, full) ==
  {[drop |-> d, group |-> g, player |-> p, value |-> full \div (1 + Cardinality(ps))] : p \in ps}

\* What the receiver is lowered by: all rows of a drop and group have one value.
Lowered(rs, full) == IF rs = {} THEN 0 ELSE full - (CHOOSE r \in rs : TRUE).value

\* The change of scores when a drop worth full is shared as in rs.
Credits(d, rs, full) ==
  [p \in Players |-> Worths({r \in rs : r.player = p})
                     - (IF p = Receiver[d] THEN Lowered(rs, full) ELSE 0)]

\* _reverse_split_credits: the receiver is not lowered further.
Reversal(d, g, full) ==
  LET rs == RowsIn(d, g) IN
  [p \in Players |-> (IF p = Receiver[d] /\ Lowered(rs, full) > 0 THEN Lowered(rs, full) ELSE 0)
                     - Worths({r \in rs : r.player = p})]

\* The boards of a month once each group's scores have changed by by[g].
Scored(m, by) ==
  [board EXCEPT ![m] = [g \in Groups |-> IF g \in DOMAIN by
                          THEN [p \in Players |-> @[g][p] + by[g][p]] ELSE @[g]]]

\* check_and_award_points, its pricing left out: one payment a player.
Payment(d, ps, g) ==
  [p \in Players |-> IF p \in Member[g] /\ p \in ps \cup {Receiver[d]} THEN 1 ELSE 0]
Paid(pays, d) ==
  [g \in Groups |-> IF g \in DOMAIN pays
     THEN [paid[g] EXCEPT ![d] = [p \in Players |-> @[p] + pays[g][p]]] ELSE paid[g]]

\* The delete knows the number of an entry only.
SameNumber(d) == {e \in Entries : Number[e] = Number[d]}
Unpaid_Receiver(d, gs) ==
  [g \in Groups |-> [e \in Entries |-> IF g \in gs /\ e \in SameNumber(d) THEN [paid[g][e] EXCEPT ![Receiver[d]] = 0]
                                       ELSE paid[g][e]]]
Unpaid(d, gs) ==
  [g \in Groups |-> [e \in Entries |-> IF g \in gs /\ e \in SameNumber(d) THEN NoPay ELSE paid[g][e]]]
Mark(why, es) == marked \cup ({why} \X es)
Struck(d) == Mark("number", SameNumber(d) \ {d})

\* _get_split_player_names: read off the points of that number.
SplitNames(d, g) ==
  {p \in Players \ {Receiver[d]} : \E e \in SameNumber(d) : paid[g][e][p] > 0}

-----------------------------------------------------------------------------
(* Drops and other entries come in.                                        *)

Submit(d, ps) ==
  /\ state[d] = "none" /\ Month[d] = Now
  /\ state' = [state EXCEPT ![d] = "open"]
  /\ named' = [named EXCEPT ![d] = ps]
  /\ pending' = [pending EXCEPT ![d] = GroupsOf(Receiver[d])]
  /\ board' = Scored(Now, [g \in GroupsOf(Receiver[d]) |->
                [p \in Players |-> IF p = Receiver[d] THEN value[d] ELSE 0]])
  /\ job' = Disturbed(job, {Receiver[d]})
  /\ UNCHANGED <<value, rows, paid, fetching, spent, history>>

Sharers(d, g) == IF g \in Tracking THEN named[d] \cap Member[g] ELSE {}
IsShared(d, g) == Sharers(d, g) # {} /\ value[d] \div (1 + Cardinality(Sharers(d, g))) < value[d]

\* One group of drop_processor: points, then splits.
ShareOut(d, g) ==
  /\ state[d] = "open" /\ g \in pending[d]
  /\ pending' = [pending EXCEPT ![d] = @ \ {g}]
  /\ paid' = Paid([h \in {g} |-> Payment(d, named[d], h)], d)
  /\ LET rs == IF IsShared(d, g) THEN Shares(d, g, Sharers(d, g), value[d]) ELSE {}
     IN /\ rows' = rows \cup rs
        /\ board' = Scored(Month[d], [h \in {g} |-> Credits(d, rs, value[d])])
        /\ job' = Disturbed(job, {Receiver[d]} \cup PlayersIn(rs))
  /\ UNCHANGED <<state, value, named, fetching, spent, history>>

\* Redis fails on the way; the exception is swallowed and the rows added so
\* far will be committed.  The last of them was not credited.
ShareFails(d, g) ==
  /\ Trouble
  /\ state[d] = "open" /\ g \in pending[d] /\ IsShared(d, g)
  /\ pending' = [pending EXCEPT ![d] = @ \ {g}]
  /\ paid' = Paid([h \in {g} |-> Payment(d, named[d], h)], d)
  /\ LET all == Shares(d, g, Sharers(d, g), value[d])
     IN \E rs \in SUBSET all : \E last \in rs :
          /\ rows' = rows \cup rs
          /\ board' = Scored(Month[d], [h \in {g} |->
               [Credits(d, rs, value[d]) EXCEPT ![last.player] = @ - last.value]])
  /\ off' = off \cup At(Concerned(d), d)
  /\ marked' = Mark("failed", {d})
  /\ job' = Disturbed(job, Concerned(d))
  /\ UNCHANGED <<state, value, named, fetching>>

Commit(d) ==
  /\ state[d] = "open" /\ pending[d] = {}
  /\ state' = [state EXCEPT ![d] = "stored"]
  /\ job' = Unread(Disturbed(job, Concerned(d)), d)
  /\ UNCHANGED <<value, named, pending, rows, paid, board, fetching, spent, history>>

\* Redis is not rolled back with the rest.
RollBack(d) ==
  /\ Trouble
  /\ state[d] = "open"
  /\ state' = [state EXCEPT ![d] = "gone"]
  /\ rows' = rows \ RowsOf(d)
  /\ paid' = [g \in Groups |-> [paid[g] EXCEPT ![d] = NoPay]]
  /\ off' = off \cup At(Concerned(d), d)
  /\ job' = Disturbed(job, Concerned(d))
  /\ UNCHANGED <<value, named, pending, board, fetching, marked>>

\* Another kind of submission earns its player points.
Achieve(o) ==
  /\ state[o] = "none"
  /\ state' = [state EXCEPT ![o] = "stored"]
  /\ paid' = [g \in Groups |-> [paid[g] EXCEPT ![o] =
                [p \in Players |-> IF p = Owner[o] /\ p \in Member[g] THEN 1 ELSE 0]]]
  /\ UNCHANGED <<value, named, pending, rows, board, job, fetching, spent, history>>

-----------------------------------------------------------------------------
(* An administrator changes a drop.  The bot runs one handler at a time: of *)
(* the calls they wait for before the end, only the fetching of the message *)
(* that a hiding keeps leaves the thread.                                   *)

Changeable(d, g) ==
  /\ job["bot"].stage = "idle"
  /\ state[d] \in {"stored", "hidden"} /\ g \in GroupsOf(Receiver[d])
Goes(stage, op, d, g, ps) ==
  job' = [Disturbed(job, Concerned(d)) EXCEPT !["bot"] =
            [stage |-> stage, op |-> op, drop |-> d, group |-> g, names |-> ps, old |-> {}]]

StartHide(d, g) ==
  /\ May("changes", MaxChanges)
  /\ Changeable(d, g) /\ state[d] = "stored"
  /\ fetching' = fetching \cup {<<d, g>>}
  /\ UNCHANGED <<table, board, job, history>>

Hide(d, g) ==
  /\ <<d, g>> \in fetching /\ Changeable(d, g)
  /\ fetching' = fetching \ {<<d, g>>}
  /\ state' = [state EXCEPT ![d] = "hidden"]
  /\ paid' = Unpaid(d, Groups)
  /\ marked' = Struck(d)
  /\ Goes("credits", "hide", d, g, {})
  /\ UNCHANGED <<value, named, pending, rows, board, spent, off>>

\* The drop was deleted meanwhile: the update matches no row.
HideNothing(d, g) ==
  /\ <<d, g>> \in fetching /\ state[d] = "gone"
  /\ fetching' = fetching \ {<<d, g>>}
  /\ UNCHANGED <<table, board, job, spent, history>>

Unhide(d, g) ==
  /\ May("changes", MaxChanges)
  /\ Changeable(d, g) /\ state[d] = "hidden"
  /\ state' = [state EXCEPT ![d] = "stored"]
  /\ Goes("credits", "unhide", d, g, {})
  /\ UNCHANGED <<value, named, pending, rows, paid, board, fetching, history>>

MarkHidden(d) == IF state[d] = "hidden" THEN {<<"unseen", d>>} ELSE {}

\* The names are those _load_context read; nothing uses them.
Edit(d, g, v) ==
  /\ May("changes", MaxChanges)
  /\ Changeable(d, g)
  /\ value' = [value EXCEPT ![d] = v]
  /\ paid' = Unpaid(d, Groups)
  /\ marked' = Struck(d) \cup MarkHidden(d)
  /\ Goes("credits", "edit", d, g, SplitNames(d, g))
  /\ UNCHANGED <<state, named, pending, rows, board, fetching, off>>

ModifySplits(d, g, ps) ==
  /\ May("changes", MaxChanges)
  /\ Changeable(d, g)
  /\ paid' = Unpaid(d, {g})
  /\ marked' = Struck(d) \cup MarkHidden(d)
  /\ Goes("strip", "modify", d, g, ps)
  /\ UNCHANGED <<entries, rows, board, fetching, off>>

\* Each row reverses all rows of its group.
Delete(d, g) ==
  /\ May("changes", MaxChanges)
  /\ Changeable(d, g)
  /\ board' = Scored(Month[d], [h \in Tracking |->
       LET back == Reversal(d, h, value[d]) IN
       [p \in Players |-> Cardinality(RowsIn(d, h)) * back[p]]])
  /\ Goes("erase", "delete", d, g, {})
  /\ UNCHANGED <<table, fetching, history>>

Bot == job["bot"]
At_(stage, op) == Bot.stage = stage /\ Bot.op = op
\* Whose turn it is next, in a transaction that is open or in a new one.
Turn(players, open, late) ==
  [stage |-> "rebuild", todo |-> players, open |-> open, late |-> IF open THEN late ELSE {}]
\* The handler's last part: who is rebuilt.
Turns(players, open) ==
  job' = [Disturbed(job, ToSet(players)) EXCEPT !["bot"] = Turn(players, open, {})]
FirstReceiver(d, ps, open) == Turns(<<Receiver[d]>> \o SetToSeq(ps), open)
\* The handlers that come to him last have asked about the group before.
LastReceiver(d, ps) == Turns(Append(SetToSeq(ps), Receiver[d]), TRUE)
Tracked(d, g) == IF g \in Tracking THEN RowsIn(d, g) ELSE {}
\* History only: credits in other groups than the handler looks at.
Missed(d, ps) == {x \in At(PlayersIn(RowsOf(d)), d) : x[1] \notin ps \cup {Receiver[d]}}

AfterHide ==
  LET d == Bot.drop IN
  LET g == Bot.group IN
  LET rs == Tracked(d, g) IN
  /\ At_("credits", "hide")
  /\ board' = Scored(Month[d], [h \in {g} \cap Tracking |-> Reversal(d, h, value[d])])
  /\ off' = off \cup Missed(d, PlayersIn(rs))
  /\ LastReceiver(d, PlayersIn(rs))
  /\ UNCHANGED <<table, fetching, spent, marked>>

Repay(d) == [g \in GroupsOf(Receiver[d]) |-> Payment(d, SplitNames(d, g), g)]

AfterUnhide ==
  LET d == Bot.drop IN
  LET g == Bot.group IN
  LET rs == Tracked(d, g) IN
  /\ At_("credits", "unhide")
  /\ paid' = Paid(Repay(d), d)
  /\ board' = Scored(Month[d], [h \in {g} |-> Credits(d, rs, value[d])])
  /\ off' = off \cup Missed(d, PlayersIn(rs))
  /\ LastReceiver(d, PlayersIn(rs))
  /\ UNCHANGED <<entries, rows, fetching, spent, marked>>

\* The old full value is taken to be the old share times the heads.
Revalued_NotStored(d, g) == RowsIn(d, g)
Revalued(d, g) == Shares(d, g, PlayersIn(RowsIn(d, g)), value[d])
OldWorth(rs) == (1 + Cardinality(rs)) * (CHOOSE r \in rs : TRUE).value
AfterEdit ==
  LET d == Bot.drop IN
  LET gs == {g \in GroupsOf(Receiver[d]) : Tracked(d, g) # {}} IN
  /\ At_("credits", "edit")
  /\ paid' = Paid(Repay(d), d)
  /\ rows' = {r \in rows : ~(r.drop = d /\ r.group \in gs)} \cup UNION {Revalued(d, g) : g \in gs}
  /\ board' = Scored(Month[d], [g \in gs |->
       LET new == Credits(d, Revalued(d, g), value[d])
           old == Credits(d, RowsIn(d, g), OldWorth(RowsIn(d, g)))
       IN [p \in Players |-> new[p] - old[p]]])
  /\ FirstReceiver(d, UNION {PlayersIn(RowsIn(d, g)) : g \in gs}, FALSE)
  /\ UNCHANGED <<entries, fetching, spent, history>>

Strip ==
  LET d == Bot.drop IN
  LET g == Bot.group IN
  /\ At_("strip", "modify")
  /\ board' = Scored(Month[d], [h \in {g} \cap Tracking |-> Reversal(d, h, value[d])])
  /\ rows' = rows \ Tracked(d, g)
  /\ job' = [Disturbed(job, Concerned(d)) EXCEPT !["bot"].stage = "credits",
                                             !["bot"].old = PlayersIn(Tracked(d, g))]
  /\ UNCHANGED <<entries, paid, fetching, spent, history>>

\* Without new rows there is no commit after the question about the group.
AfterModify ==
  LET d == Bot.drop IN
  LET g == Bot.group IN
  LET rs == Shares(d, g, IF g \in Tracking THEN Bot.names \cap Member[g] ELSE {}, value[d]) IN
  /\ At_("credits", "modify")
  /\ paid' = Paid([h \in {g} |-> Payment(d, Bot.names, h)], d)
  /\ rows' = rows \cup rs
  /\ board' = Scored(Month[d], [h \in {g} |-> Credits(d, rs, value[d])])
  /\ FirstReceiver(d, Bot.old \cup PlayersIn(rs), rs = {})
  /\ UNCHANGED <<entries, fetching, spent, history>>

Erase ==
  LET d == Bot.drop IN
  /\ At_("erase", "delete")
  /\ state' = [state EXCEPT ![d] = "gone"]
  /\ rows' = rows \ RowsOf(d)
  /\ paid' = Unpaid(d, Groups)
  /\ marked' = Struck(d)
  /\ FirstReceiver(d, PlayersIn(RowsOf(d)), FALSE)
  /\ UNCHANGED <<value, named, pending, board, fetching, spent, off>>

\* An exception ends the handler: what was committed and what Redis took stays.
ChangeFails ==
  LET d == Bot.drop IN
  /\ Trouble
  /\ Bot.stage \in {"strip", "credits", "erase"}
  /\ off' = off \cup At(Concerned(d) \cup Bot.old \cup Bot.names, d)
  /\ marked' = Mark("failed", {d})
  /\ job' = [Disturbed(job, Concerned(d)) EXCEPT !["bot"] = IdleJob]
  /\ UNCHANGED <<table, board, fetching>>

-----------------------------------------------------------------------------
(* Rebuilding a player, by the bot after a change or by the updater.       *)

Visible(d) == state[d] = "stored"
OwnDrops(p) == {d \in Drops : Visible(d) /\ Receiver[d] = p}
OwnShares_Hidden(p) == {r \in rows : r.player = p /\ r.group \in Tracking}
\* _apply_split_credits: rows of tracking groups whose drop is there to see.
OwnShares(p) == {r \in rows : r.player = p /\ r.group \in Tracking /\ Visible(r.drop)}
InFlux(p) ==
  \/ \E d \in Drops : state[d] = "open" /\ p \in Concerned(d)
  \/ Bot.stage \in {"strip", "credits", "erase"} /\ p \in Concerned(Bot.drop) \cup Bot.names \cup Bot.old

Start(p) ==
  /\ May("rebuilds", MaxRebuilds)
  /\ job["updater"].stage = "idle"
  /\ job' = [job EXCEPT !["updater"] = Turn(<<p>>, FALSE, {})]
  /\ UNCHANGED <<table, board, fetching, history>>

Overlaps(a, p) ==
  \E b \in Actors \ {a} : job[b].stage \in {"read", "reset"} /\ job[b].player = p

\* The transaction may be that of a player before.
Read(a, p) ==
  LET late == job[a].late IN
  /\ job[a].stage = "rebuild" /\ p = Head(job[a].todo)
  /\ job' = [Disturbed(job, {p}) EXCEPT ![a] =
       [stage |-> "read", todo |-> Tail(job[a].todo), open |-> TRUE, late |-> late, player |-> p,
        own |-> {[month |-> Month[d], drop |-> d, value |-> value[d]] : d \in OwnDrops(p) \ late},
        shares |-> {r \in OwnShares(p) : r.drop \notin late},
        clash |-> Overlaps(a, p) \/ InFlux(p) \/ \E d \in late : p \in Concerned(d)]]
  /\ UNCHANGED <<table, board, fetching, spent, history>>

MonthsOf(own) == {o.month : o \in own}
Sum(own, m) == Worths({o \in own : o.month = m})
\* ZREM from the boards of the current month, ZADD of each month with drops.
Reset(a) ==
  LET j == job[a] IN
  /\ j.stage = "read"
  /\ board' = [m \in Months |-> [g \in Groups |->
       IF g \notin GroupsOf(j.player) \/ m \notin MonthsOf(j.own) \cup {Now} THEN board[m][g]
       ELSE [board[m][g] EXCEPT ![j.player] = Sum(j.own, m)]]]
  /\ job' = [Disturbed(job, {j.player}) EXCEPT ![a].stage = "reset", ![a].clash = j.clash]
  /\ UNCHANGED <<table, fetching, spent, history>>

\* A rebuild that finds no drop, or fails, does not commit.
AfterTurn(j, open) == IF j.todo = <<>> THEN IdleJob ELSE Turn(j.todo, open, j.late)

\* A player without drops is not credited again.  The scores of an older month
\* without drops of his are not set anew, shares are added to what is there.
Applied(j) == IF j.own = {} THEN {} ELSE j.shares
AddShares(a) ==
  LET j == job[a] IN
  LET p == j.player IN
  LET given(m, g) == Worths({r \in Applied(j) : Month[r.drop] = m /\ r.group = g}) IN
  LET reached == MonthsOf(j.own) \cup {Now} IN
  LET stale == {m \in Months :
        \/ m \notin reached /\ \E g \in Groups : board'[m][g][p] # 0
        \/ (m \notin reached \/ j.own = {}) /\ \E r \in j.shares : Month[r.drop] = m} IN
  /\ j.stage = "reset"
  /\ board' = [m \in Months |-> [g \in Groups |-> [board[m][g] EXCEPT ![p] = @ + given(m, g)]]]
  /\ off' = (off \ ({p} \X reached))
            \cup ({p} \X (IF j.clash THEN Months ELSE stale))
  /\ job' = [Disturbed(job, {p}) EXCEPT ![a] = AfterTurn(j, j.own = {})]
  /\ UNCHANGED <<table, fetching, spent, marked>>

\* Swallowed; the next player's turn.
RebuildFails(a) ==
  LET j == job[a] IN
  /\ Trouble
  /\ j.stage \in {"read", "reset"}
  /\ off' = off \cup ({j.player} \X Months)
  /\ job' = [Disturbed(job, {j.player}) EXCEPT ![a] = AfterTurn(j, TRUE)]
  /\ UNCHANGED <<table, board, fetching, marked>>

Arrival == \E d \in Drops :
  \/ \E ps \in Namings : Submit(d, ps)
  \/ \E g \in Groups : ShareOut(d, g) \/ ShareFails(d, g)
  \/ Commit(d) \/ RollBack(d)
Change == \E d \in Drops, g \in Groups :
  \/ StartHide(d, g) \/ Hide(d, g) \/ HideNothing(d, g) \/ Unhide(d, g) \/ Delete(d, g)
  \/ \E v \in Values \ {value[d]} : Edit(d, g, v)
  \/ \E ps \in Namings : ModifySplits(d, g, ps)
Follow == AfterHide \/ AfterUnhide \/ AfterEdit \/ Strip \/ AfterModify \/ Erase \/ ChangeFails
Rebuild == (\E p \in Players : Start(p)) \/ \E a \in Actors :
  \/ \E p \in Players : Read(a, p)
  \/ Reset(a) \/ AddShares(a) \/ RebuildFails(a)

Next == Arrival \/ (\E o \in Others : Achieve(o)) \/ Change \/ Follow \/ Rebuild

Spec == Init /\ [][Next]_vars

-----------------------------------------------------------------------------
Quiet ==
  /\ \A a \in Actors : job[a].stage = "idle"
  /\ \A d \in Drops : state[d] # "open"

\* When nothing is under way, a member's score on a group's board is the worth
\* of his drops to be seen and of his shares in others', less what some of his
\* own shared drops were lowered by: a rebuild forgets that they were
\* (redis_updates.py, _apply_split_credits).  Excused is whose score was left off
\* by an exception; by a rebuild that met another or a drop of his, or read in a
\* transaction older than a drop of his, or found no drop of his; by an older
\* month without drops of his where he had a score or a share; or by a hiding
\* that looked at one group only.
BoardsAddUp ==
  Quiet => \A m \in Months, g \in Groups : \A p \in Member[g] :
    LET own == {d \in Drops : Visible(d) /\ Receiver[d] = p /\ Month[d] = m}
        shares == {r \in rows : /\ r.player = p /\ r.group = g /\ g \in Tracking
                                /\ Visible(r.drop) /\ Month[r.drop] = m}
    IN \/ <<p, m>> \in off
       \/ \E lowered \in SUBSET own :
            board[m][g][p] = Total(own, value) + Worths(shares)
                             - Total(lowered, [d \in lowered |-> Lowered(RowsIn(d, g), value[d])])

\* Points of a group follow the entry that earned them: a drop to be seen has
\* paid its receiver once and nobody twice, a hidden or deleted one pays
\* nobody, and another entry keeps what it earned.  Excused is an entry whose
\* change failed, a drop changed while it was hidden, and an entry of another
\* kind with the number of a drop that was changed (entry_modifier.py,
\* _delete_points_for_drop).
PointsFollowEntries ==
  Quiet => \A g \in Groups :
    /\ \A d \in Drops : (<<"failed", d>> \notin marked /\ <<"unseen", d>> \notin marked) =>
         IF Visible(d)
         THEN /\ Receiver[d] \in Member[g] => paid[g][d][Receiver[d]] = 1
              /\ \A p \in Players : paid[g][d][p] <= 1
         ELSE \A p \in Players : paid[g][d][p] = 0
    /\ \A o \in Others : (state[o] = "stored" /\ Owner[o] \in Member[g]) =>
         paid[g][o][Owner[o]] = 1 \/ <<"number", o>> \in marked

\* The shares of a drop in a group are equal and are what its value gives each
\* head, however often it was revalued and shared anew, unless a change of it
\* failed half-way.
SharesAreEven ==
  Quiet => \A d \in Drops, g \in Groups : <<"failed", d>> \notin marked =>
    \A r \in RowsIn(d, g) : r.value = value[d] \div (1 + Cardinality(RowsIn(d, g)))

\* What the header of entry_modifier.py says of a change of value, that it
\* reaches the points too: who shared the points of the drop before is paid again.
SharersStayPaid ==
  [][(AfterEdit /\ Bot.op = "edit") =>
       \A p \in Bot.names \cap Member[Bot.group] : paid'[Bot.group][Bot.drop][p] > 0]_vars
=============================================================================
