---------------------------- MODULE WebhookQueue ----------------------------
(***************************************************************************)
(* Queue mode (api/routes/webhook.py, workers/webhook_consumer.py): the API *)
(* answers a request once its payload is in a Redis list and its screenshot *)
(* in a temporary file; one consumer pops the list and runs, one after the  *)
(* other, the processors of the embeds (data/submissions).  The processors  *)
(* differ in where they ask for the guid, where they commit and in which    *)
(* order they make their notices.  Notices go through create_notification,  *)
(* which remembers a hash of the content whoever it is for.                 *)
(***************************************************************************)
EXTENDS Naturals, Sequences, FiniteSets

CONSTANTS
  Embeds,      \* what a payload is made of: kind, guid, what was achieved
  Payloads,    \* sequences of embeds a request may carry
  None,        \* nothing in hand; an item that has no row; no guid
  MaxRequests, \* bound: requests that arrive, resends included
  CacheSize,   \* guids remembered per kind (1000 in the code)
  HashSize,    \* hashes remembered per group (100 in the code)
  MaxTroubles  \* bound: exceptions of the database, Redis or a service, and ends
               \* of the consumer, which is started again

Kinds == {"drop", "pb", "ca", "clog", "pet", "quest", "experience", "other"}

ASSUME QueueAssumption ==
  /\ \A e \in Embeds : e.kind \in Kinds /\ {"guid", "what"} \subseteq DOMAIN e
  /\ Payloads \subseteq Seq(Embeds)
  /\ None \notin Nat
  /\ CacheSize \in Nat \ {0}
  /\ HashSize \in Nat
  /\ MaxRequests \in Nat /\ MaxTroubles \in Nat

VARIABLES
  payload,         \* what each request carries, in the order they arrived
  told,            \* what its sender was answered
  queue,           \* the list webhook:queue
  files,           \* requests whose temporary file is on disk
  hand, at,        \* the consumer: its entry, the stage of the embed
  flushed,         \* rows of the open transaction
  buffer,          \* notices of the open transaction
  cache,           \* unique_id_cache: guids per kind
  hashes,          \* stored_notifications of the group
  rows, recent,    \* the tables; rows less than an hour old
  better,          \* embeds that improved a personal best on file
  notices,         \* notification_queue
  credits,         \* points given by award_points_to_player
  fate,            \* how the embeds of each request that were handled ended
  forgot,          \* history: contents whose hash was forgotten
  lost,            \* history: entries in hand when the consumer ended
  troubles

frontVars == <<payload, told, queue>>
memoryVars == <<cache, hashes, forgot>>
openVars == <<flushed, buffer>>
tableVars == <<rows, recent, better, notices>>
troubleVars == <<lost, troubles>>
vars == <<frontVars, files, hand, at, openVars, memoryVars, tableVars,
          credits, fate, troubleVars>>

Requests == DOMAIN payload

\* An embed of a request, by its place.
Slots == UNION {{<<d, i>> : i \in DOMAIN payload[d]} : d \in Requests}
Embed(x) == payload[x[1]][x[2]]
Kind(x) == Embed(x).kind

\* Guids may be missing; a missing one is remembered and looked up like any.
SameGuid(x, y) == Kind(x) = Kind(y) /\ Embed(x).guid = Embed(y).guid
SameWhat(x, y) == Kind(x) = Kind(y) /\ Embed(x).what = Embed(y).what

Stages == {"next", "entered", "credited", "announced"}
Fates == {"skipped", "ignored", "refused", "known", "quiet", "told", "kept", "cut"}
Tos == {"group", "dm", "milestone"}

\* The embed whose turn it is.
Slot == IF hand = None THEN <<None, 1>> ELSE <<hand, Len(fate[hand]) + 1>>
Waiting == {queue[k] : k \in DOMAIN queue}

Init ==
  /\ payload = <<>> /\ told = <<>> /\ queue = <<>> /\ fate = <<>>
  /\ files = {}
  /\ hand = None /\ at = "next"
  /\ flushed = {} /\ buffer = {}
  /\ cache = [k \in Kinds |-> <<>>]
  /\ hashes = <<>>
  /\ rows = {} /\ recent = {} /\ better = {} /\ notices = {} /\ credits = {}
  /\ forgot = {} /\ lost = {}
  /\ troubles = 0

TypeOK ==
  /\ payload \in Seq(Payloads) /\ Len(payload) <= MaxRequests
  /\ told \in [Requests -> {"queued", "error"}]
  /\ queue \in Seq(Requests)
  /\ files \subseteq Requests
  /\ hand \in Requests \cup {None} /\ at \in Stages
  /\ at # "next" => Slot \in Slots
  /\ flushed \subseteq {Slot}
  /\ buffer \subseteq {Slot} \X Tos
  /\ \A k \in Kinds : Len(cache[k]) <= CacheSize
  /\ Len(hashes) <= HashSize + 1
  /\ rows \cup better \cup credits \subseteq Slots /\ recent \subseteq rows
  /\ notices \subseteq Slots \X Tos
  /\ fate \in [Requests -> Seq(Fates)]
  /\ \A d \in Requests : Len(fate[d]) <= Len(payload[d])
  /\ lost \subseteq Requests
  /\ troubles \in 0..MaxTroubles

-----------------------------------------------------------------------------
(* The acceptor.  Every request brings a screenshot; one without leaves no   *)
(* file behind and is treated alike.                                       *)

Trouble == troubles < MaxTroubles /\ troubles' = troubles + 1

Arrives(p, answer) ==
  /\ Len(payload) < MaxRequests
  /\ payload' = Append(payload, p)
  /\ told' = Append(told, answer)
  /\ fate' = Append(fate, <<>>)
  /\ files' = files \cup {Len(payload) + 1}
  /\ UNCHANGED <<hand, at, openVars, memoryVars, tableVars, credits, lost>>

\* The screenshot is saved, the entry is pushed and the sender is told so.
Accept(p) ==
  /\ Arrives(p, "queued")
  /\ queue' = Append(queue, Len(payload) + 1)
  /\ UNCHANGED troubles

\* Redis refuses the entry: the answer is an error, the file stays.
PushFails(p) ==
  /\ Trouble
  /\ Arrives(p, "error")
  /\ UNCHANGED queue

-----------------------------------------------------------------------------
(* The consumer's loop.                                                    *)

\* BLPOP.  A payload without embeds is left where it is, before the try whose
\* finally removes the file.
Popped_OnlyIfFull(q) == IF payload[Head(q)] = <<>> THEN q ELSE Tail(q)
Popped(q) == Tail(q)
Take ==
  /\ hand = None /\ queue # <<>>
  /\ queue' = Popped(queue)
  /\ hand' = IF payload[Head(queue)] = <<>> THEN None ELSE Head(queue)
  /\ at' = "next"
  /\ UNCHANGED <<payload, told, files, openVars, memoryVars, tableVars, credits,
                 fate, troubleVars>>

InItem(kinds) == Slot \in Slots /\ at = "next" /\ Kind(Slot) \in kinds

\* The processor of the embed in hand is done and its caller has committed.
NextEmbed(outcome) ==
  /\ fate' = [fate EXCEPT ![hand] = Append(@, outcome)]
  /\ at' = "next"
  /\ UNCHANGED <<frontVars, files, hand, troubleVars>>

\* An unknown type, or a world that is neither main nor seasonal.
Skip ==
  /\ InItem({"other"})
  /\ NextEmbed("skipped")
  /\ UNCHANGED <<openVars, memoryVars, tableVars, credits>>

LetGo ==
  /\ hand' = None /\ at' = "next"
  /\ flushed' = {} /\ buffer' = {}

\* The finally block.
Finally_OnSuccess == files' = IF Slot \in Slots THEN files ELSE files \ {hand}
Finally == files' = files \ {hand}

\* Every embed was handled.
Release ==
  /\ hand # None /\ Slot \notin Slots
  /\ LetGo /\ Finally
  /\ UNCHANGED <<frontVars, memoryVars, tableVars, credits, fate, troubleVars>>

-----------------------------------------------------------------------------
(* ensure_can_create.                                                      *)

Asked(x) == Kind(x) \in {"drop", "pb", "ca", "clog", "pet"}
            \/ (Kind(x) = "quest" /\ Embed(x).guid # None)

Known_AnyKind(x) ==
  \E k \in Kinds : \E j \in DOMAIN cache[k] : cache[k][j] = Embed(x).guid
Known(x) == \E j \in DOMAIN cache[Kind(x)] : cache[Kind(x)][j] = Embed(x).guid

StoredLately_Unasked(x) == FALSE
StoredLately(x) == \E y \in recent : SameGuid(x, y)

Remember(x) ==
  /\ cache' = [cache EXCEPT ![Kind(x)] =
       IF Len(@) < CacheSize THEN Append(@, Embed(x).guid)
       ELSE Tail(Append(@, Embed(x).guid))]
  /\ UNCHANGED <<hashes, forgot>>

MayCreate(x) == Asked(x) => ~Known(x) /\ ~StoredLately(x)
Admitted(x) == MayCreate(x) /\ (IF Asked(x) THEN Remember(x) ELSE UNCHANGED memoryVars)

\* A resend: the processor returns and the caller commits nothing.
Ignore ==
  /\ InItem(Kinds \ {"other"}) /\ ~MayCreate(Slot)
  /\ IF Known(Slot) THEN UNCHANGED memoryVars ELSE Remember(Slot)
  /\ NextEmbed("ignored")
  /\ UNCHANGED <<openVars, tableVars, credits>>

\* Player, item or NPC are not known or not verified.  Combat achievements
\* look at the player before the guid.
Refuse ==
  /\ InItem(Kinds \ {"other"})
  /\ IF Kind(Slot) = "ca" THEN UNCHANGED memoryVars ELSE Admitted(Slot)
  /\ NextEmbed("refused")
  /\ UNCHANGED <<openVars, tableVars, credits>>

-----------------------------------------------------------------------------
(* The processors: entry and points.                                       *)

OnFile(x) == \E y \in rows : SameWhat(x, y)

\* The row of x is inserted, or the open transaction is committed with it.
Commits(xs) ==
  LET improving == {x \in xs : Kind(x) = "pb" /\ OnFile(x)}
  IN  /\ rows' = rows \cup (xs \ improving)
      /\ better' = better \cup improving
      /\ recent' = recent \cup (xs \ improving)
                   \cup {y \in rows : \E x \in improving : SameWhat(x, y)}

Enter(stage) ==
  /\ at' = stage
  /\ UNCHANGED <<frontVars, files, hand, buffer, notices, fate, troubleVars>>

\* drop_processor and quest_processor flush a row that their caller commits.
EnterFlushed ==
  /\ InItem({"drop", "quest"}) /\ Admitted(Slot)
  /\ flushed' = {Slot}
  /\ Enter("credited")
  /\ UNCHANGED <<rows, recent, better, credits>>

\* pb_processor: a first time or a better one is flushed.
EnterPb ==
  /\ InItem({"pb"}) /\ Admitted(Slot)
  /\ flushed' = {Slot}
  /\ Enter("credited")
  /\ UNCHANGED <<rows, recent, better, credits>>

\* A time on file that is not beaten is not announced.
PbNotBeaten ==
  /\ InItem({"pb"}) /\ Admitted(Slot) /\ OnFile(Slot)
  /\ NextEmbed("known")
  /\ UNCHANGED <<openVars, tableVars, credits>>

\* clog_processor and pet_processor commit a new entry at once.
EnterOnce_Flushes ==
  /\ InItem({"clog", "pet"}) /\ Admitted(Slot) /\ ~OnFile(Slot)
  /\ flushed' = IF Embed(Slot).what = None THEN {} ELSE {Slot}
  /\ Enter("entered")
  /\ UNCHANGED <<rows, recent, better, credits>>
EnterOnce ==
  /\ InItem({"clog", "pet"}) /\ Admitted(Slot) /\ ~OnFile(Slot)
  /\ IF Embed(Slot).what = None THEN UNCHANGED <<rows, recent, better>>
     ELSE Commits({Slot})
  /\ Enter("entered")
  /\ UNCHANGED <<flushed, credits>>

\* One that is on file is not announced, unless the game says that the pet is
\* a duplicate.
OnceOnFile ==
  /\ InItem({"clog", "pet"}) /\ Admitted(Slot) /\ OnFile(Slot)
  /\ \/ NextEmbed("known") /\ UNCHANGED openVars
     \/ Kind(Slot) = "pet" /\ Enter("credited") /\ UNCHANGED flushed
  /\ UNCHANGED <<rows, recent, better, notices, credits>>

\* ca_processor commits a new entry at once.
EnterCa ==
  /\ InItem({"ca"}) /\ Admitted(Slot)
  /\ IF OnFile(Slot) THEN UNCHANGED <<rows, recent, better>> ELSE Commits({Slot})
  /\ Enter("entered")
  /\ UNCHANGED <<flushed, credits>>

\* experience_processor updates its row and commits; it asks for no guid.
EnterExperience ==
  /\ InItem({"experience"})
  /\ Commits({Slot})
  /\ Enter("credited")
  /\ UNCHANGED <<memoryVars, flushed, credits>>

\* award_points_to_player, in a session of its own, right after the entry; a
\* combat achievement gets points each time, its notices only the first time.
Credit ==
  /\ hand # None /\ at = "entered"
  /\ credits' \in IF Kind(Slot) = "ca" THEN {credits, credits \cup {Slot}}
                  ELSE {credits \cup {Slot}}
  /\ IF Kind(Slot) = "ca" /\ Slot \notin rows
       THEN NextEmbed("known") /\ UNCHANGED openVars
       ELSE /\ at' = "credited"
            /\ UNCHANGED <<frontVars, files, hand, openVars, fate, troubleVars>>
  /\ UNCHANGED <<memoryVars, tableVars>>

\* get_player_groups_with_global puts a new player in the global group first,
\* which commits what is open.
Joins == rows = {} /\ Commits(flushed) /\ flushed' = {}

\* drop_processor gives points of its own once, for the first group but the
\* global one that is to be told of a drop of that value.  They are committed
\* in the session of award_points_to_player, while the drop is but flushed.
CreditedDrop(x) == Kind(x) = "drop" /\ x \in credits
CreditDrop ==
  /\ hand # None /\ at = "credited" /\ Kind(Slot) = "drop" /\ ~CreditedDrop(Slot)
  /\ credits' = credits \cup {Slot}
  /\ Joins \/ UNCHANGED <<rows, recent, better, flushed>>
  /\ UNCHANGED <<frontVars, files, hand, at, buffer, memoryVars, notices, fate, troubleVars>>

-----------------------------------------------------------------------------
(* The processors: notices.                                                *)

\* What may be made for the group's players, in this order.  A drop: the group
\* has a minimum value, the player may want a message of his own first.
DropNotices == {<<"group">>, <<"dm", "group">>}

\* A combat achievement: the group has a lowest tier.
CaNotices == {<<"group">>, <<"dm", "group">>}

\* A pet: the group wants pets.
PetNotices == {<<"group">>, <<"dm", "group">>}

\* A quest: the group wants quests.
QuestNotices == {<<"group">>, <<"dm", "group">>}

\* A time: the group comes first.
PbNotices == {<<"group">>, <<"group", "dm">>}

\* A slot of the collection log: the player is told even if no group wants it.
ClogNotices == {<<"group">>, <<"dm">>, <<"group", "dm">>}

\* A level: the group may have named this total level as a milestone.
ExperienceNotices ==
  {<<"group">>, <<"group", "milestone">>, <<"group", "dm">>, <<"group", "milestone", "dm">>}

Notices(x) ==
  CASE Kind(x) = "drop" -> DropNotices
    [] Kind(x) = "ca" -> CaNotices
    [] Kind(x) = "pet" -> PetNotices
    [] Kind(x) = "quest" -> QuestNotices
    [] Kind(x) = "pb" -> PbNotices
    [] Kind(x) = "clog" -> ClogNotices
    [] OTHER -> ExperienceNotices

\* What is hashed.  Whom it is for is no part of it, only a slot's message to the
\* player is worded apart; drops, times and quests carry the id of their row.
RowId(x) == IF Kind(x) \in {"drop", "pb", "quest"} THEN x ELSE <<>>
Content(x, to) == <<Embed(x), RowId(x), IF Kind(x) = "clog" THEN to ELSE "same">>

Hashed(list, c) == \E j \in DOMAIN list : list[j] = c

\* create_notification: too long a list gives up its newest entries; then the
\* content is looked up and remembered.
Trimmed_Never(list) == list
Trimmed(list) == IF Len(list) > HashSize THEN SubSeq(list, 1, HashSize) ELSE list
Made_Unremembered(list, c) == Trimmed(list)
Made(list, c) == IF Hashed(Trimmed(list), c) THEN Trimmed(list) ELSE Append(Trimmed(list), c)

\* The memory before each of the notices in tos, and after the last.
Memory(x, tos) ==
  LET mem[k \in 0..Len(tos)] ==
        IF k = 0 THEN hashes ELSE Made(mem[k - 1], Content(x, tos[k]))
  IN  mem

\* A notice that is hashed already is not made; the others are in the caller's
\* transaction.  The groups were asked for before a drop's points were given.
Announce ==
  /\ hand # None /\ at = "credited"
  /\ \E tos \in Notices(Slot) :
       LET mem == Memory(Slot, tos)
           made == {<<Slot, tos[k]>> : k \in
             {j \in DOMAIN tos : ~Hashed(Trimmed(mem[j - 1]), Content(Slot, tos[j]))}}
       IN  /\ hashes' = mem[Len(tos)]
           /\ buffer' = made
           /\ forgot' = forgot \cup
                {mem[k - 1][HashSize + 1] : k \in {j \in 1..Len(tos) : Len(mem[j - 1]) > HashSize}}
  /\ \/ UNCHANGED <<rows, recent, better, flushed>>
     \/ Joins /\ ~CreditedDrop(Slot)
  /\ at' = "announced"
  /\ UNCHANGED <<frontVars, files, hand, cache, notices, credits, fate, troubleVars>>

\* No group wants it or sees the screenshot it asks for; or so many levels that
\* it looks like a first synchronisation.  A drop that gave points is told of.
StayQuiet ==
  /\ hand # None /\ at = "credited" /\ ~CreditedDrop(Slot)
  /\ Commits(flushed) /\ flushed' = {}
  /\ NextEmbed("quiet")
  /\ UNCHANGED <<buffer, memoryVars, notices, credits>>

\* The caller's commit.
Commit ==
  /\ hand # None /\ at = "announced"
  /\ Commits(flushed) /\ flushed' = {}
  /\ notices' = notices \cup buffer /\ buffer' = {}
  /\ NextEmbed("told")
  /\ UNCHANGED <<memoryVars, credits>>

-----------------------------------------------------------------------------
(* What goes wrong.                                                        *)

\* What is left of the entry in hand will not be handled.
CutShort == fate' = IF Slot \in Slots THEN [fate EXCEPT ![hand] = Append(@, "cut")] ELSE fate

\* An exception, in the middle of ensure_can_create too: the session is rolled
\* back, unless only the answer to its commit was lost; the file is removed,
\* the rest of the entry is dropped.
Fault ==
  /\ Slot \in Slots
  /\ Trouble
  /\ \/ UNCHANGED memoryVars
     \/ at = "next" /\ Asked(Slot) /\ ~Known(Slot) /\ Remember(Slot)
  /\ \/ UNCHANGED tableVars
     \/ at = "announced" /\ Commits(flushed) /\ notices' = notices \cup buffer
  /\ CutShort
  /\ LetGo /\ Finally
  /\ UNCHANGED <<frontVars, credits, lost>>

\* experience_processor keeps its exceptions to itself: its caller commits what
\* there is and goes on.
FaultKept ==
  /\ Slot \in Slots /\ Kind(Slot) = "experience"
  /\ Trouble
  /\ notices' = notices \cup buffer /\ buffer' = {}
  /\ fate' = [fate EXCEPT ![hand] = Append(@, "kept")]
  /\ at' = "next"
  /\ UNCHANGED <<frontVars, files, hand, flushed, memoryVars, rows, recent,
                 better, credits, lost>>

\* The consumer ends, with its entry and its memory; it is started again.
Crash ==
  /\ Trouble
  /\ LetGo
  /\ lost' = IF hand = None THEN lost ELSE lost \cup {hand}
  /\ CutShort
  /\ cache' = [k \in Kinds |-> <<>>]
  /\ hashes' = <<>>
  /\ forgot' = forgot \cup {hashes[j] : j \in DOMAIN hashes}
  /\ UNCHANGED <<frontVars, files, tableVars, credits>>

\* An hour passes for a row.
Hour(x) ==
  /\ x \in recent
  /\ recent' = recent \ {x}
  /\ UNCHANGED <<frontVars, files, hand, at, openVars, memoryVars, rows,
                 better, notices, credits, fate, troubleVars>>

-----------------------------------------------------------------------------
Processors ==
  \/ Skip \/ Ignore \/ Refuse
  \/ EnterFlushed \/ EnterPb \/ PbNotBeaten \/ EnterOnce \/ OnceOnFile
  \/ EnterCa \/ EnterExperience \/ Credit \/ CreditDrop \/ Announce \/ StayQuiet \/ Commit

Consumer == Take \/ Processors \/ Release

Next ==
  \/ \E p \in Payloads : Accept(p) \/ PushFails(p)
  \/ Consumer \/ Fault \/ FaultKept \/ Crash
  \/ \E x \in Slots : Hour(x)

Spec == Init /\ [][Next]_vars

\* The consumer runs, and is started again when it ended.
FairSpec == Spec /\ WF_vars(Consumer)

-----------------------------------------------------------------------------
(* Properties.                                                             *)

Over(d) == d \in Requests /\ told[d] = "queued" /\ d \notin Waiting /\ hand # d
Handled(x) == x[2] <= Len(fate[x[1]])
Ended(x, fates) == Handled(x) /\ fate[x[1]][x[2]] \in fates

\* What the API called queued is in the tables once it was taken, or there is
\* a reason: the sender was not known, the type was not, its guid was met
\* before, its achievement is on file, or an exception or the end of the
\* consumer cut the entry short.  Nothing slips through between the list,
\* the loop over the embeds and the transactions.
AcceptedIsAccountedFor ==
  \A x \in Slots : Over(x[1]) =>
    \/ x \in rows \cup better
    \/ Ended(x, {"skipped", "refused", "kept"})
    \/ Ended(x, {"ignored"}) /\ \E y \in Slots \ {x} : SameGuid(x, y) /\ Handled(y)
    \/ Handled(x) /\ (OnFile(x) \/ Embed(x).what = None)
    \/ \E y \in Slots : y[1] = x[1] /\ y[2] <= x[2] /\ Ended(y, {"cut"})

\* The one consumer never stores a guid twice within the hour, whatever it
\* forgot, whatever was cut short, and though every processor asks in its own
\* place (experience does not ask).
OneRecentRow ==
  \A x, y \in recent : x # y /\ SameGuid(x, y) => Kind(x) = "experience" \/ ~Asked(x)

\* A content goes to a group twice only after its hash was forgotten, with the
\* process or because the list gives up its newest.
ToldOnce ==
  \A n1, n2 \in notices : n1 # n2 /\ Content(n1[1], n1[2]) = Content(n2[1], n2[2]) =>
    Content(n1[1], n1[2]) \in forgot

\* Points for a combat achievement, a slot of the collection log or a pet are
\* given for an entry that is in the table, and once for each slot and pet,
\* whatever is rolled back around them.  A drop's points are committed before
\* the drop (drop.py): they have their drop, or it is in the open transaction,
\* or the entry was cut short - then they stay without it, and a resend gives
\* them again.
CreditsHaveEntries ==
  \A x \in credits :
    \/ Embed(x).what = None
    \/ Kind(x) = "drop" /\ (x \in rows \/ x \in flushed \/ Ended(x, {"cut"}))
    \/ /\ Kind(x) # "drop" /\ OnFile(x)
       /\ Kind(x) \in {"clog", "pet"} => \A y \in credits \ {x} : ~SameWhat(x, y)

\* A screenshot waits for its entry and goes with it; what stays behind is from
\* a request that was refused, one without embeds, or one that was cut short.
FilesFollowEntries ==
  \A d \in files :
    \/ d \in Waiting \/ d = hand
    \/ told[d] = "error" \/ payload[d] = <<>>
    \/ d \in lost

\* Every entry is taken and let go, whatever is raised on the way.
EveryEntryIsTaken ==
  \A d \in 1..MaxRequests :
    d \in Requests /\ told[d] = "queued" ~> Over(d)

-----------------------------------------------------------------------------
(* What the documentation says, and the code does not do.                  *)

\* "Optionally also creates a dm_drop notification" (SUBMISSION_PIPELINE.md:154):
\* a drop that was announced was announced to its group.
GroupIsTold ==
  \A x \in Slots : Ended(x, {"told"}) /\ Kind(x) = "drop" =>
    \E n \in notices : n[2] = "group" /\ Embed(n[1]) = Embed(x)

=============================================================================
