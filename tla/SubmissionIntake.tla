-------------------------- MODULE SubmissionIntake --------------------------
(***************************************************************************)
(* A drop from its arrival to its row (api/routes/webhook.py,              *)
(* bots/webhook_bot.py, data/submissions/common.py and drop.py, db/ops.py).*)
(*                                                                         *)
(* Several API processes and one bot process run the same processor.  Each *)
(* process remembers the guids it has let in, in a list of its own; the    *)
(* database is asked for a recent row of the guid in the transaction's     *)
(* snapshot.  Redis totals and global points are written at once, the row  *)
(* and its notices with the transaction.  Everything between two awaits is *)
(* one action.                                                             *)
(***************************************************************************)
EXTENDS Naturals, Sequences, FiniteSets

CONSTANTS
  Sends,       \* bound: deliveries of drops, resends by the plugin included
  Guids,       \* the plugin's identifiers of drops
  Workers,     \* API processes
  Bot,         \* the process of bots/webhook_bot.py
  CacheSize,   \* guids a process remembers (1000 in the code)
  MaxAttempts, \* attempts of the bot at one delivery (3 in the code)
  MaxFaults,   \* bound: exceptions raised by the database or by a service
  MaxCrashes   \* bound: ends of a process (killed, recycled, restarted)

Procs == Workers \cup {Bot}

ASSUME IntakeAssumption ==
  /\ IsFiniteSet(Sends)
  /\ Bot \notin Workers
  /\ CacheSize \in Nat \ {0}
  /\ MaxAttempts \in Nat \ {0}
  /\ MaxFaults \in Nat
  /\ MaxCrashes \in Nat

VARIABLES
  proc, guid,  \* where each delivery goes and what it carries
  at,          \* where its handling is
  snap,        \* deliveries whose snapshot shows a recent row of their guid
  tries,       \* attempts begun
  early,       \* deliveries whose row is committed while they are handled
  answer,      \* what became of each delivery
  cache,       \* unique_id_cache["drop"] of each process
  rows,        \* the table drops: the deliveries that stored each guid
  recent,      \* guids with a row of the API less than an hour old
  gp,          \* how often Redis has counted each guid
  credits,     \* global point credits given for each guid
  notices,     \* notification_queue: rows for each guid
  remembered,  \* history: what each process has put in its list since it began
  wave,        \* history: deliveries at hand when a guid got its recent row
  missed,      \* history: rows of each guid that Redis was not told of
  undone,      \* history: attempts rolled back after Redis was told
  faults, crashes

given == <<proc, guid>>
tableVars == <<rows, recent, notices, wave>>
totalVars == <<gp, credits, missed, undone>>
memoryVars == <<cache, remembered>>
faultVars == <<faults, crashes>>
vars == <<given, at, snap, tries, early, answer, tableVars, totalVars,
          memoryVars, faultVars>>

Places == {"none", "open", "work", "counted", "noticed", "failed", "over"}
Answers == {"none", "stored", "refused", "ignored", "error", "lost"}

\* From the insertion of the row to the end of the transaction.
Counted == {"counted", "noticed"}
InHand(s) == at[s] \in {"open", "work"} \cup Counted

TypeOK ==
  /\ proc \in [Sends -> Procs]
  /\ guid \in [Sends -> Guids]
  /\ at \in [Sends -> Places]
  /\ snap \in SUBSET Sends
  /\ tries \in [Sends -> 0..MaxAttempts]
  /\ early \in SUBSET {s \in Sends : at[s] \in Counted}
  /\ answer \in [Sends -> Answers]
  /\ cache \in [Procs -> Seq(Guids)]
  /\ \A p \in Procs : Len(cache[p]) <= CacheSize
  /\ rows \in [Guids -> Seq(Sends)]
  /\ recent \in SUBSET Guids
  /\ gp \in [Guids -> Nat]
  /\ credits \in [Guids -> Nat]
  /\ notices \in [Guids -> Nat]
  /\ remembered \in [Procs -> Seq(Guids)]
  /\ wave \in [Guids -> SUBSET Sends]
  /\ missed \in [Guids -> Nat]
  /\ undone \in [Guids -> Nat]
  /\ faults \in 0..MaxFaults
  /\ crashes \in 0..MaxCrashes
  /\ \A s \in Sends : at[s] = "over" <=> answer[s] # "none"

Init ==
  /\ proc \in [Sends -> Procs]
  /\ guid \in [Sends -> Guids]
  /\ at = [s \in Sends |-> "none"]
  /\ snap = {}
  /\ tries = [s \in Sends |-> 0]
  /\ early = {}
  /\ answer = [s \in Sends |-> "none"]
  /\ cache = [p \in Procs |-> <<>>]
  /\ rows = [g \in Guids |-> <<>>]
  /\ recent = {}
  /\ gp = [g \in Guids |-> 0]
  /\ credits = [g \in Guids |-> 0]
  /\ notices = [g \in Guids |-> 0]
  /\ remembered = [p \in Procs |-> <<>>]
  /\ wave = [g \in Guids |-> {}]
  /\ missed = [g \in Guids |-> 0]
  /\ undone = [g \in Guids |-> 0]
  /\ faults = 0
  /\ crashes = 0

Goes(s, place) == at' = [at EXCEPT ![s] = place]

Ends(s, outcome) ==
  /\ Goes(s, "over")
  /\ answer' = [answer EXCEPT ![s] = outcome]
  /\ early' = early \ {s}

-----------------------------------------------------------------------------
(* The check.                                                              *)

\* A session is opened: a webhook's first query may come long before the
\* check (the player's row, then the image is saved).  The bot tries again
\* what failed with a lost connection, in a new session.
Arrive(s) ==
  /\ \/ at[s] = "none"
     \/ at[s] = "failed" /\ tries[s] < MaxAttempts
  /\ Goes(s, "open")
  /\ tries' = [tries EXCEPT ![s] = @ + 1]
  /\ snap' = IF guid[s] \in recent THEN snap \cup {s} ELSE snap \ {s}
  /\ UNCHANGED <<given, early, answer, tableVars, totalVars, memoryVars, faultVars>>

Known(s) == \E k \in DOMAIN cache[proc[s]] : cache[proc[s]][k] = guid[s]

\* append, and pop(0) when the list is too long.
Pushed_Grows(list, g) == Append(list, g)
Pushed_DropsNewest(list, g) ==
  IF Len(list) < CacheSize THEN Append(list, g) ELSE Append(Tail(list), list[1])
Pushed(list, g) ==
  IF Len(list) < CacheSize THEN Append(list, g) ELSE Tail(Append(list, g))

Remember(s) ==
  /\ cache' = [cache EXCEPT ![proc[s]] = Pushed(@, guid[s])]
  /\ remembered' = [remembered EXCEPT ![proc[s]] = Append(@, guid[s])]

StoredLately_Unasked(s) == FALSE
StoredLately(s) == s \in snap

\* ensure_can_create says False: the processor returns None and the answer is
\* the one of success.
Ignore(s) ==
  /\ at[s] = "open"
  /\ IF Known(s) THEN UNCHANGED memoryVars
     ELSE StoredLately(s) /\ Remember(s)
  /\ Ends(s, "ignored")
  /\ UNCHANGED <<given, snap, tries, tableVars, totalVars, faultVars>>

\* It says True, having put the guid in the list.
Admit(s) ==
  /\ at[s] = "open"
  /\ ~Known(s)
  /\ ~StoredLately(s)
  /\ Remember(s)
  /\ Goes(s, "work")
  /\ UNCHANGED <<given, snap, tries, early, answer, tableVars, totalVars, faultVars>>

-----------------------------------------------------------------------------
(* drop_processor.                                                         *)

Refusable_Late == {"work", "counted"}
Refusable == {"work"}

\* Item, player, NPC or verification say no, or create_drop_object rolled back
\* and returned None.
Refuse(s) ==
  /\ at[s] \in Refusable
  /\ Ends(s, "refused")
  /\ UNCHANGED <<given, snap, tries, tableVars, totalVars, memoryVars, faultVars>>

\* create_drop_object flushes the row and add_to_player counts it in Redis at
\* once; when Redis fails it is not counted and nobody is told.  What a rebuild
\* in another process makes of it is LootTotals' question.
Count(s) ==
  /\ at[s] = "work"
  /\ Goes(s, "counted")
  /\ \/ gp' = [gp EXCEPT ![guid[s]] = @ + 1] /\ UNCHANGED missed
     \/ missed' = [missed EXCEPT ![guid[s]] = @ + 1] /\ UNCHANGED gp
  /\ UNCHANGED <<given, snap, tries, early, answer, tableVars, credits, undone,
                 memoryVars, faultVars>>

\* The row of s becomes visible.  Only rows of the API count as recent.
StoreRow(s) ==
  /\ rows' = [rows EXCEPT ![guid[s]] = Append(@, s)]
  /\ IF proc[s] = Bot THEN UNCHANGED <<recent, wave>>
     ELSE /\ recent' = recent \cup {guid[s]}
          /\ wave' = IF guid[s] \in recent THEN wave
                     ELSE [wave EXCEPT ![guid[s]] =
                             {t \in Sends : InHand(t) /\ guid[t] = guid[s]}]

\* get_player_groups_with_global puts a new player in the global group, and
\* commits the session of its caller: the drop's row goes with it.
JoinGlobal(s) ==
  /\ at[s] = "counted"
  /\ s \notin early
  /\ rows[guid[s]] = <<>>
  /\ StoreRow(s)
  /\ early' = early \cup {s}
  /\ UNCHANGED <<given, at, snap, tries, answer, notices, totalVars, memoryVars,
                 faultVars>>

\* A notice is added to the caller's session.
NoticesOnAdd_Commits(g) == [notices EXCEPT ![g] = @ + 1]
NoticesOnAdd(g) == notices

\* A group shows drops of this value: global points are given and committed in
\* a session of their own, if they are due, and a notice is made.
Notify(s) ==
  /\ at[s] = "counted"
  /\ Goes(s, "noticed")
  /\ credits' \in {credits, [credits EXCEPT ![guid[s]] = @ + 1]}
  /\ notices' = NoticesOnAdd(guid[s])
  /\ UNCHANGED <<given, snap, tries, early, answer, rows, recent, wave, gp, missed,
                 undone, memoryVars, faultVars>>

\* What the caller's commit makes visible.
CommitData(s) ==
  /\ IF s \in early THEN UNCHANGED <<rows, recent, wave>> ELSE StoreRow(s)
  /\ notices' = IF at[s] = "noticed" THEN [notices EXCEPT ![guid[s]] = @ + 1]
                ELSE notices

Commit(s) ==
  /\ at[s] \in Counted
  /\ CommitData(s)
  /\ Ends(s, "stored")
  /\ UNCHANGED <<given, snap, tries, totalVars, memoryVars, faultVars>>

-----------------------------------------------------------------------------
(* What goes wrong.                                                        *)

\* Attempts of a set of deliveries whose rows are rolled back.
RollBack(ss) ==
  undone' = [g \in Guids |->
    undone[g] + Cardinality({s \in ss : at[s] \in Counted
                                        /\ s \notin early /\ guid[s] = g})]

\* The webhook answers with an error; the bot waits and tries again.
AfterError(s) ==
  IF proc[s] = Bot /\ tries[s] < MaxAttempts
    THEN Goes(s, "failed") /\ early' = early \ {s} /\ UNCHANGED answer
    ELSE Ends(s, "error")

\* An exception: before the check, of its query (the guid is in the list
\* already), of a service, of the database.  The caller rolls back, unless the
\* commit was done and only its acknowledgement was lost.
Fault(s) ==
  /\ InHand(s)
  /\ faults < MaxFaults
  /\ faults' = faults + 1
  /\ \/ UNCHANGED memoryVars
     \/ at[s] = "open" /\ ~Known(s) /\ Remember(s)
  /\ \/ RollBack({s}) /\ UNCHANGED tableVars
     \/ at[s] \in Counted /\ CommitData(s) /\ UNCHANGED undone
  /\ AfterError(s)
  /\ UNCHANGED <<given, snap, tries, gp, credits, missed, crashes>>

\* A process ends, and with it what it handles and what it remembers.
Crash(p) ==
  /\ crashes < MaxCrashes
  /\ crashes' = crashes + 1
  /\ LET gone == {s \in Sends : proc[s] = p /\ (InHand(s) \/ at[s] = "failed")}
     IN  /\ RollBack(gone)
         /\ at' = [s \in Sends |-> IF s \in gone THEN "over" ELSE at[s]]
         /\ answer' = [s \in Sends |-> IF s \in gone THEN "lost" ELSE answer[s]]
         /\ early' = early \ gone
  /\ cache' = [cache EXCEPT ![p] = <<>>]
  /\ remembered' = [remembered EXCEPT ![p] = <<>>]
  /\ UNCHANGED <<given, snap, tries, tableVars, gp, credits, missed, faults>>

\* An hour passes for the rows of a guid.
Hour(g) ==
  /\ g \in recent
  /\ recent' = recent \ {g}
  /\ snap' = {s \in snap : guid[s] # g}
  /\ UNCHANGED <<given, at, tries, early, answer, rows, notices, wave, totalVars,
                 memoryVars, faultVars>>

-----------------------------------------------------------------------------
Next ==
  \/ \E s \in Sends :
       \/ Arrive(s) \/ Ignore(s) \/ Admit(s) \/ Refuse(s) \/ Count(s)
       \/ JoinGlobal(s) \/ Notify(s) \/ Commit(s) \/ Fault(s)
  \/ \E p \in Procs : Crash(p)
  \/ \E g \in Guids : Hour(g)

Spec == Init /\ [][Next]_vars

-----------------------------------------------------------------------------
(* Properties.                                                             *)

\* A process lets a guid in again only when the list has since taken CacheSize
\* others: until then a resend to the same process, or a retry by the bot, is
\* recognised, whatever failed in between.
ReadmittedOnlyAfterEviction ==
  \A p \in Procs : \A j \in DOMAIN remembered[p] : \A i \in 1..(j - 1) :
    remembered[p][i] = remembered[p][j] => j - i > CacheSize

\* While a guid has a recent row of the API, another row of it comes only from
\* deliveries that were at hand when that row was committed: a resend after the
\* answer is recognised by every process, also by one that has just started.
OneWave ==
  [][\A g \in Guids :
       g \in recent /\ Len(rows'[g]) > Len(rows[g]) =>
         rows'[g][Len(rows'[g])] \in wave[g]]_vars

\* The totals in Redis differ from the table by what is being handled, what
\* was rolled back and what Redis missed, and by nothing else; points are given
\* at most once for each of these.
Pending(g) == {s \in Sends : at[s] \in Counted /\ s \notin early /\ guid[s] = g}
TotalsExplained ==
  \A g \in Guids :
    LET handled == Len(rows[g]) + Cardinality(Pending(g)) + undone[g]
    IN  gp[g] + missed[g] = handled /\ credits[g] <= handled

\* No notice is queued for a drop that is not in the table, whatever is rolled
\* back and whichever helper commits.
NoticesHaveDrops == \A g \in Guids : notices[g] <= Len(rows[g])

-----------------------------------------------------------------------------
(* What comments say, and the code does not do.                            *)

\* "Decorator to retry database operations on connection failures"
\* (webhook_bot 222): a retry that ends without an error has stored the drop.
RetryStores ==
  \A s \in Sends : tries[s] > 1 /\ answer[s] = "ignored" => rows[guid[s]] # <<>>

=============================================================================
