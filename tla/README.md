# DropTracker in TLA+

DropTracker is a multi-process Python system around a RuneScape plugin: players'
clients report drops, personal bests, collection-log slots and the like; the
system stores them in MySQL, counts them in Redis, gives points to clans and
posts notices to Discord. This directory models the parts of it in which state
outlives a call and several programs change it. Each module is a translation of
the code named in its header; `PROJECT.json` gives the lines for every
definition.

How to run it: `tlc -config NotificationFaults.cfg MCNotificationService`, and
likewise for every other configuration with the MC module of its component;
`tlapm NotificationServiceProofs.tla` (or `VideoPipelineProofs`,
`SubmissionIntakeProofs`, `LootTotalsProofs`, `PointsLedgerProofs`,
`GroupPointsProofs`, `WebhookQueueProofs`, `EntryModifierProofs`) for the proofs.

## 1. The system

### Inventory

| Component | State it keeps | Operations | Who else touches the state | What makes it correct |
|---|---|---|---|---|
| **Notification dispatcher** (`services/notification_service.py`) | `notification_queue.status/processed_at`; `notified`; in memory the lock, `notified_users`, the cleanup counter | scan of ten rows (loop every 3 s, forced drain every 30 s), claim, defer for a video, skip what was sent, one sender per type, cleanup of stuck rows | processors insert rows; the video worker decides when a deferred row may go; an administrator's delete removes drops and rows of `notified` | a drop goes out once, until it is deleted; "sent" means posted; nothing goes ahead of its video; every row ends |
| **Video pipeline** (`api/routes/video.py`, `services/video_worker.py`, part of `api/routes/webhook.py`) | `video_uploads`, raw and final objects in storage, `drops.video_url` | ticket under a daily quota, confirmation, webhook's link, worker: fetch, convert, store, delete raw, complete; two cleanups | three programs write one row, each with its own sessions | footage is never lost; a URL can be served; the quota holds; every video ends |
| **Submission intake, direct mode** (`api/routes/webhook.py`, `bots/webhook_bot.py`, `data/submissions/common.py`, `drop.py`, `db/ops.py`) | `drops`, `unique_id_cache` of each process, Redis totals, points, notices | check for duplicates, store, count, notify, commit; the bot's retries | several API processes and the bot run the same code | a drop is stored once; what is counted or announced is stored |
| **Submission intake, queue mode** (`api/routes/webhook.py`, `workers/webhook_consumer.py`, the processors in `data/submissions/`) | Redis list `webhook:queue`, temp files, the tables of every kind of entry | accept (RPUSH), consume (BLPOP), one processor per embed with its own commits | API processes push, one consumer pops; the points ledger is written in sessions of its own | what was accepted is stored or there is a reason; no guid twice; no file stays |
| **Loot totals** (`services/redis_updates.py`, `player_total_update.py`, `bulk_redis_update.py`, `services/entry_modifier.py`) | a player's totals of each month and of all time, leaderboards; the set of players being rebuilt, one per tracker object | incremental add, force rebuild, an administrator's hiding, showing and deleting of a drop, split credits | every process that stores a drop, the updater, the bulk script, the bot | no drop counted twice; totals equal the table once nothing is under way |
| **Entry modifier and split credits** (`services/entry_modifier.py`, `_award_split_gp_credits` in `drop.py`, `_apply_split_credits` in `redis_updates.py`) | `drop_splits`, boards of groups, `drops.hidden/value`, rows of `player_points` | share out a drop, hide, show, delete, revalue, share anew, rebuild | processors, the bot's handlers, the updater | boards are the sum of drops and shares; points follow their entry; shares are even |
| **Points ledger** (`services/points.py`) | `point_credits`, debits, recurring grants | award, spend in order of expiry, expire, revoke, monthly grants | processors, admin commands, scheduled jobs | what is left and what was taken make up what was given; a month's points once |
| **Group point awards** (`data/submissions/point_awards.py`) | rules and settings of a group, `player_points` | allow, price, share among the players named, bound, pay | processors and the entry modifier, in their transactions | nobody is paid twice; the shares add up; a bound is not passed; the notice says what was paid |
| Discord outbox (`services/discord_outbox.py`) | `discord_outbox` rows | drain a batch, send, one commit | the web app inserts rows | each row is sent |
| Player identity (`data/submissions/common.py`) | `players`, bound account hashes | find by hash, by name, by WiseOldMan id; create; rename | every processor | one player for one account |
| **Notice deduplication** (`create_notification`) | a list of hashes per group, in memory | refuse what was queued lately | every processor | a group is told a thing once, and is told it |
| Events and board games (`games/`) | boards, teams, tiles | bot commands, submissions | | a separate product, disabled in the main bot |
| Hall of fame, lootboards, web APIs, commands, monitoring, scripts | little or none of their own | queries, drawing, formatting | | |

### How they interact

The plugin sends a drop to an API process (or, for old clients, to a Discord
channel that the webhook bot listens to). The processor checks for duplicates,
inserts the row, counts it in Redis, gives points, and inserts rows into
`notification_queue`; its caller commits. The dispatcher, in the main bot's
process, polls that table and posts. Videos go directly from the plugin to
storage; the submission's webhook links the video, the worker converts it, and
the dispatcher holds a notice back while its video is unfinished. The processes
share nothing but MySQL, Redis and object storage.

### Where it is hard

* **Interleaving.** Two tasks scan one queue; three programs write one
  `video_uploads` row; several processes handle copies of one submission.
* **Stale reads.** A request decides on a status it read before an await, and
  writes its decision after somebody else has finished the row; a handler rebuilds
  one player after the other in a transaction that may be older than their drops.
* **Guards that are taken away.** Deleting a drop removes the rows that say it was
  posted, and leaves its notices in the queue.
* **Crash and partial failure.** A message is posted before the database learns
  of it; the raw file is deleted before the commit that says so; Redis and the
  points ledger are written before the transaction that may roll back.
* **Memory that outlives a rollback.** `unique_id_cache`, `notified_users`, the
  notices' hashes are changed at once and never corrected.
* **Guards that reach one process.** The tracker marks the player it rebuilds so
  that drops are not counted meanwhile, but drops are counted in other processes
  than the ones that rebuild.
* **Limits.** A batch of ten, a list of a thousand guids, a daily quota.
* **Liveness.** Rows that nobody looks at any more.

`PROJECT.json` lists these hazards at the lines where they bite, with the
properties that watch each of them, or the reason why none does yet.

## 2. Modules

| Module | Contents |
|---|---|
| `NotificationService` | the dispatcher; the video's status and the queue's producers are its environment |
| `DeliveryPromise` | what the queue promises for drops while nothing fails; implemented by `NotificationService` |
| `VideoPipeline` | tickets, uploads, confirmations, webhook, worker |
| `SubmissionIntake` | deliveries of drops in the API processes and the bot |
| `LootTotals` | a player's loot in Redis: counting, changes, rebuilds |
| `WebhookQueue` | queue mode: acceptor, list, consumer, every kind of embed; hashes of notices |
| `EntryModifier` | shared drops on the boards of groups, the points they earn, what administrators change |
| `GroupPoints` | one award of a group's points, from the rules to the rows and the notice |
| `PointsLedger` | credits, purchases, the sweep of expired credits, monthly grants |
| `MC…` | instances for TLC |
| `…Proofs` | theorems about each of these eight components |

### NotificationService and the code

`rows` is the table in order of `created_at`; a row keeps its payload, status,
whether `processed_at` is set (`stamped`) and whether the 15 seconds of a
deferred row are over (`due`). `KeyOf` says which payloads stand for the same
submission in the same group, so that the table `notified` is a set of keys;
`KindOf` tells apart the senders that differ in control: `drop` (looked up in
`notified` and recorded there, if the row of the drop is found), `pb` (pb and
collection log: looked up, never recorded), `ca` (posts a second message when it has an MP4), `user_upgrade`
(returns early for an account in `notified_users`), `plain`, and `unknown`
(no sender). For each task `pc` is where it stands between two awaits, `batch`
what its scan still has to visit, and `cur` is `locked_notification`, which
outlives a round as it does in the code. `gone` holds the keys whose drop an
administrator has deleted, for every group it was shown to (`EntryOf` says which
keys show one drop); `found` says whether the transaction of a task, which began
with the check, sees the drop.

`Begin`, `Claim`, `ClaimRaises` and `Finish` are
`process_pending_notifications` and its loop; `Defer`, `SkipDuplicate`, `Leave`,
`ToSender`, `Refuse`, `Post`, `PostVideo`, `PostWithoutImage`, `Mark`, `Orphan`
and `Raise` are `process_notification_with_session` and the senders. `Post` and
`Mark` are separate because Discord's answer is awaited before the commit. `Mark`
records the key only if the drop was found (`Records`); a drop that was found and
has been deleted since makes the commit fail at its foreign key (`Orphan`).
`posts` and `unrecorded` are history: what Discord accepted, and how much of
that the database never learnt. The environment is `Enqueue`
(`create_notification`), `Delete` (`_handle_delete_confirm`, which removes the drop
and its rows of `notified` and leaves the queue as it is), `VideoStep` and `Requeue`
(the statuses as `VideoPipeline` moves them), `RetryDue` (time) and `Crash`.

`DeliveryPromise` is what a reader of the queue may count on: a key is delivered
once, a row ends sent only after that, and `Withdraw` takes back what was
delivered, for every group; what is still queued for a withdrawn key may bring
its message again.

### VideoPipeline and the code

`status` is the column; `raw` and `mp4` are the two objects. The quota's count
and the insertion of the ticket are two actions (`Admit`, `Ticket`), as are the
read and the commit of a confirmation (`ConfirmRead`, `ConfirmCommit`). The
webhook's transaction is `HookRead` (the snapshot, kept in `seen`), `HookFlush`
(from here its row is locked: `Unlocked` guards every other write of that row)
and `HookCommit` or `HookRollback`; `HookNewSnapshot` is the rollback or commit
that `ensure_player_and_auth` does on its caller's session half-way. The worker
is one loop (`Poll`, `Sweep`, `Expire`, `Fetch`), and `process_single_video` is
`Start`, `Store` or `Fail`, `DeleteRaw`, `ReadLink`, `Complete`, with `Raise`
anywhere. `aged` abstracts the two cutoffs (30 and 60 minutes). The read of
`drop_id` and the commit of the URL are separate, as the ORM's reads and flush are.

### SubmissionIntake and the code

A delivery `s` goes to process `proc[s]` with guid `guid[s]`; a resend by the
plugin is another delivery with the same guid, to any process. `at[s]` is
where its handling is. `Arrive` opens the session and takes the snapshot
(`snap`), `Ignore` and `Admit` are `ensure_can_create`; `Refuse`, `Count`,
`JoinGlobal` and `Notify` are `drop_processor` with the helpers it calls, and
`Commit` is its caller. `JoinGlobal` is the commit that
`get_player_groups_with_global` does on its caller's session for a new player.
`Fault` is an exception anywhere, with the caller's rollback, the loss of the
commit's acknowledgement included; for the bot `AfterError` is the retry
decorator. `Crash(p)` ends one process, which forgets its list. `gp`, `credits`
and `notices` count, for each guid, what Redis, the points ledger and the queue
have of it. `remembered`, `wave`, `missed` and `undone` are history.

### LootTotals and the code

A total is kept as the drops it counts: `loot[m][d]` is how often the total of
month `m` of d's owner counts `d`, `board` the same for the global leaderboard
of a month, `allTime` and `boardAll` for all time. The amounts are left out; a
total is the sum over its drops. `at[d]` follows `drop_processor` and
`add_to_player` through the three pipelines (`CountKeys`, `CountBoard`,
`CountAllTimeBoard`, or `CountFails`) to `Commit` or `RollBack`. `partition[d]`
is the month in the row; each pipeline asks for the month again, and
`NextMonth` may come between.

A job `j` is a thread that runs `force_update_player`: one of the updater's, one
of the bulk script, or an administrator's button (`HideToggle`, `Delete`), which
commits and then rebuilds. `Read` is the first query of its transaction. Everything
after it works on that snapshot, since the data engine leaves MySQL at REPEATABLE
READ (`db/models/base.py` lowers the level for the forum's engine only).
`Begin` is the check and the mark of the tracker, shared only by the updater's
threads (`Marked`). `Clear`, `Remove`, then for each month `SetKeys` and
`SetBoard` are the pipelines of the rebuild in their order.

`excused` is history: the drops for which counting and rebuilding may disagree,
because a pipeline or a rebuild failed, because the drop was rolled back after it
was counted, because it was counted or changed while its owner was being rebuilt,
or counted and not yet committed when a snapshot was taken, or because the month
turned between its row and its count.

### WebhookQueue and the code

A request `d` is its place among the arrivals; `payload[d]` is the sequence of its
embeds, each a kind, a guid (or `None`) and what was achieved. `Accept` is queue
mode's branch of the route: file, RPUSH, answer; `PushFails` its error. The
consumer's `Take` is BLPOP with the check for embeds, `Release` and every `Finally`
the block that removes the file. `hand` and `at` say which embed of the entry is at
which stage: `Ignore` and `Refuse` leave it early; `Enter…` is where a processor
makes its row, which it flushes (`EnterFlushed`, `EnterPb`) or commits at once
(`EnterOnce` for log slots and pets, `EnterCa`, `EnterExperience`); `Credit` is
`award_points_to_player` in a session of its own; a drop's own points are given later,
on the way to its notices, and committed while the drop is only flushed
(`CreditDrop`). `Joins` is the commit that `get_player_groups_with_global` does on its
caller's session for a new player. `Announce` makes the notices, in
the order of that kind's code (`Notices`), through `create_notification`, whose list
of hashes is `hashes`; `Commit` and `StayQuiet` end with the caller's commit.
`Fault` is an exception anywhere, `FaultKept` one that `experience_processor`
swallows, `Crash` the end of the process, which forgets `cache` and `hashes`.
`fate` records how the handling of each embed ended, `forgot` and `lost` are history.

### EntryModifier and the code

`state[d]` is a drop's row (`open` while its transaction is, `hidden` for
`Drop.hidden`), `rows` the table `drop_splits`, `paid[g][e][p]` how many rows of
`player_points` name entry `e` for player `p` in group `g`, `board[m][g][p]` the
score in Redis. `Submit`, `ShareOut`, `Commit` and `RollBack` are `drop_processor`
as far as boards, shares and points go: score first, then group by group the points
and `_award_split_gp_credits`. A handler of the bot runs in parts, each of which
commits or writes Redis before the next: `StartHide`, `Hide` and `AfterHide`;
`Unhide` and `AfterUnhide`; `Edit` and `AfterEdit`; `ModifySplits`, `Strip` and
`AfterModify`; `Delete` and `Erase`; its last part rebuilds the players concerned
in its order. Only the fetching of a message lets another handler in between
(`fetching`). `Read`, `Reset`, `AddShares` are a rebuild as the boards see it,
by the bot or the updater. A rebuild reads in the transaction its session has open,
or in a new one: `Turn` says with which of the two the next player's turn begins
(`open`), `late` which drops were committed since that transaction began and are not
seen in it (`Unread`). Hiding and showing ask about the group after their commit, so
that their first rebuild finds a transaction open, and `AfterTurn` leaves it open for
the next when a rebuild found no drop or failed. `Credits` and `Reversal` give the
scores' changes with
the receiver's reduction; `SplitNames` reads the names off the points, as the code
does. `off` and `marked` are history: scores that a failure, an overlap of rebuilds,
a rebuild in too old a transaction or a handler that looks at one group only has
left wrong, and entries whose points met a failure, a change while hidden, or the
deletion by number of another kind's entry. A rebuild takes a score out of `off`.

### GroupPoints and the code

One behaviour is one call of `check_and_award_points`, its inputs chosen in
`Init`: a submission with the names given beside the receiver, and a group with its
settings, awards, lists, rules and events. `Deny`, `PriceIt`, `Bar`, `ShareOut`,
`PayShare`, `PayOwn` are its parts in their order. `Allowed` and `NoSplit` are the
lists, `Price` the rules and the rounding, `AfterEvent` and `Bounded` what is done
to each payment, `Sharers` the normalised names that belong to the group, and
`Who` the look-up of a name, which makes blanks and underscores one. `rows` is
`player_points`, `result` what the notice will say. `Fails` is a flush that
raises and is swallowed, after which the session is of no use (`spoiled`): `Raise`
is the next query, `EndTransaction` the caller's commit or rollback.

### PointsLedger and the code

`credits` and `grants` are the tables in order of id, `allocated` sums the
allocations of all debits. A session `tx[w]` is at one thing. `Award` and `Revoke`
are one transaction each (no days mean no expiry for a player and an expiry at once
for a group: `Expiry`). A purchase (`_consume_points`) is `Ask` (the query with the
clock it was made with), `Lock` (SELECT … FOR UPDATE), one `Take` for each round of
its loop, and `Pay` or `Refuse`; `Locked` makes others wait. The sweep reads ids
(`ListExpired`) and writes them (`MarkExpired`) in two statements.
`ensure_recurring_grant` is `Find` and `Insert` or `Update`, which writes only the
columns it changed from what it had read; the monthly run is `Fetch` and `Grant`.
`RollBack` is an exception in any session. `hurried` is history: the grants made due
at once since they were last given; `clash` in a run's state, the grants another run
gave since it read.

## 3. Runs

| Run (`.cfg`) | Instance | Shows |
|---|---|---|
| `NotificationFaults` | 4 payloads over 3 keys, at most 3 rows, deletions, both tasks, batch 2, cleanup after every iteration, 1 exception, 1 crash | `DropsPostedOnce`, `OnePostPerRow`, `SentWasPosted`, `NeverAheadOfVideo`, `CleanupSparesRowsInHand` |
| `NotificationLive` | 5 payloads over 4 keys, two of them one drop in two groups, at most 3 rows, deletions, batch 1, no faults, fair | `EveryRowSettles`; `KeepsPromise` (refinement of `DeliveryPromise`) |
| `VideoFaults` | 3 videos, 2 requests at once, quota 1, 1 job, 1 error, 1 crash | `FootageKept`, `ServedIsThere`, `QuotaOverrunBounded`, `FinishedStays` |
| `VideoLive` | 2 videos, 1 crash, fair | `EveryVideoSettles` |
| `VideoLinkRace` | 1 video, no faults | counterexample to `LinkedDropGetsUrl` |
| `IntakeFaults` | 3 deliveries of 2 guids, 2 API processes and the bot, list of 1, 2 attempts, 1 exception, 1 crash | `ReadmittedOnlyAfterEviction`, `OneWave`, `TotalsExplained`, `NoticesHaveDrops` |
| `LootFaults` | 2 drops of one player, 2 updater threads and an administrator, 2 months, 1 failure | `CountedOnce`, `ForgottenStaysForgotten`, `ExactWhenQuiet` |
| `QueueFaults` | 2 requests of up to 2 embeds, 10 payloads of all kinds, cache and hashes of 1, 1 exception or end of the consumer, fair | `AcceptedIsAccountedFor`, `OneRecentRow`, `ToldOnce`, `CreditsHaveEntries`, `FilesFollowEntries`, `EveryEntryIsTaken` |
| `QueueGroupTold` | 1 request, no trouble | counterexample to `GroupIsTold` |
| `EntryChanges` | 3 players, 2 tracking groups, 2 drops and 1 other entry, 2 changes, 1 rebuild, 1 exception | `BoardsAddUp`, `PointsFollowEntries`, `SharesAreEven` |
| `GroupPoints` | 150 groups, each with 23 submissions, 1 failing flush | `OnePaymentEach`, `SplitAddsUp`, `RulesAndLimits`, `ReportIsTrue` |
| `PointsLedger` | 2 sessions, 2 credits, 2 grants, 3 clock steps with a month of 2, 4 undertakings, 1 exception | `CreditsBalance`, `SoonestFirst`, `GrantsAreMonthly` |

The first four runs with faults, and `QueueFaults`, also check the type invariant of
their module; those of the ledger, the awards and the entries are part of what is proved.

**Bounds.** Every bound is a constant with "bound:" in its declaration. Two
tasks are all the code has. Two rows of one key, a third of another and a batch
of two make a duplicate in one batch, a duplicate in the next, and a row left
behind by the limit. The two rows of one key, one of which waits for a video,
make a drop that is posted, deleted and asked for again; in `NotificationLive` the
same drop is shown to a second group as well. Two payloads share the one video so that a deferral, the
duplicate check and the order of the batch meet. One exception and one crash
are allowed anywhere and in either order, which is enough for every
loss the code has a branch for; the theorems below remove these bounds. The
cleanup runs after every iteration of the loop in `NotificationFaults`, where
its interference is the question, and after every second one elsewhere. In
`VideoLive` two videos compete for one job, so the limit of `MaxConcurrent` is
reached. Three videos with two requests reach the quota's overrun exactly. In
`IntakeFaults` a list of one guid is full at once, so eviction, readmission and
the table's answer all happen with three deliveries. Proc and guid of every
delivery are chosen in `Init`, so one run covers resends to the same process,
to another, and through the bot. In `LootFaults` two
updater threads meet on one mark, the administrator rebuilds beside them without
one, and two drops of one player make a snapshot that shows one and not the other;
with two months a rebuild has two rounds and the month can turn anywhere. What a
job does to other players' drops is the subject of the lemma `OtherPlayer`, so one
player is enough. In `QueueFaults` both memories hold one item, so each is full
at once and forgets; the payloads meet again with the same guid, with another guid for the
same achievement, and with none. `EntryChanges` has an old drop and one that comes
in, receivers in one and in two groups, and another entry with the number of a
drop; 7 is no multiple of the heads that share it. Two changes make each pair of
handlers follow one another, with a rebuild of the updater anywhere beside them.
In `PointsLedger` two credits with different expiries, one of them a group's, two
purchases and a sweep fit into the four undertakings, and so do two monthly runs
beside a raise or a cancellation. `GroupPoints` varies a plain group in every list,
rule, event, setting and bound, and a submission in the names given (by case, by
underscore, the receiver's own, of no member, unknown) and the kinds of price.

**What is excused.** Some properties name states the code is known to spoil and
speak of all the others. For the hazards behind these excuses the property is no
guard: it tolerates them and shows that nothing beyond them goes wrong. Such are a
video put back by a late confirmation between the check and the post
(`NeverAheadOfVideo` asks for no faults), a submission refused because its guid was
remembered and then rolled back (`AcceptedIsAccountedFor` takes it for a resend), drops
counted, changed or of a turned month beside a rebuild (`ExactWhenQuiet`), the
scores in `off` (`BoardsAddUp`), the posts of a deleted drop (`DropsPostedOnce`), and
grants of two runs that overlapped (`GrantsAreMonthly`). `PROJECT.json` says so at each
of these hazards.

Symmetry is used where the permuted values
have no role of their own, in runs with safety properties only.

**Deadlock** is checked in the runs of the dispatcher and the videos, whose tasks
never stop scanning. In the others requests, drops, changes or undertakings are
bounded, and a run simply ends.

**Fairness.** *Dispatcher:* the loop is a `while` with a sleep, and
`asyncio.Lock` serves its waiters in order, hence strong fairness of
`Begin(LoopWorker)`; a scan under way goes on (`Handle`); a video in
conversion ends however often it is put back (strong fairness of `VideoEnds`,
the property `EveryVideoSettles` of `VideoPipeline`); 15 seconds pass
(`RetryDue`). Nothing is assumed of the drain or of the producers.
*Video:* the worker's loop, each job that `gather` started, open transactions
and time go on. The plugin need not upload, confirm or send its webhook.
*Queue:* `run_consumer` is a `while` loop that handles one entry after the other
and catches what is raised, and the process is started again when it ends: weak
fairness of `Consumer`. Nothing is assumed of arrivals, of time, or of exceptions.

### What the counterexamples say

1. **A finished video without its URL** (`VideoLinkRace`). The worker reads
   `drop_id` before the webhook commits the link, and the webhook's snapshot
   is older than the worker's commit: each leaves the URL to the other.
2. **A group that is not told** (`QueueGroupTold`). The hash in
   `create_notification` does not say whom a notice is for. `drop_processor` makes
   the player's own message first, and the group's, of the same content, is then
   taken for a duplicate. The same holds of pets, achievements and quests; a log
   slot's messages are worded apart, and of a time the group's comes first.

Each module states more of this kind, which TLC refutes on an instance as small as
these; no run is kept for them.

* `SentRowsStaySent`: when the locking SELECT of the next row raises,
  `locked_notification` is still the row of the last round; the handler marks that
  one failed (`notification_service.py:626`), although it was posted.
* `StuckRowsAreReset`: the cleanup asks for `processed_at IS NULL` and never
  uses the age it computes. A row that was deferred for its video once has
  `processed_at` set; when it is then claimed and lost, it stays in `processing`.
* `ConvertedNeverFails`: the raw file is deleted before the commit of "processed".
  After a crash in between, the retry has nothing to download and commits "failed".
* `RetryStores`: the guid is remembered before anything is stored and is not
  forgotten on rollback, so the second attempt takes the drop for a duplicate
  and ends as a success. It also answers a plugin's resend after an error.
* `NothingLost`: the updater takes its snapshot before a drop is committed and
  deletes the player's keys after the drop was counted. The drop is stored and
  visible, and no total has it until somebody rebuilds again. The mark that
  should prevent this lives in the updater's tracker.
* `SharersStayPaid`: a change of value deletes the points of the drop and then
  reads off those points whom to pay again (`entry_modifier.py:1037-1050`): the
  receiver is, those who shared are not. Its header promises that "All changes
  propagate through the database, Redis cache, and point system."
* `UpgradeRowsSettle`, after the comment at `notification_service.py:1558`: a second
  upgrade notice of an account is left in `processing` for good (`Leave`).

Points and Redis totals given for a transaction that rolls back are not taken
back; `TotalsExplained` states exactly by how much the totals may then differ.
The all-time total, which a rebuild sets to each month's total in turn
(`SetKeys`; `redis_updates.py:585`), ends as the last month's.

## 4. Proofs

The theorems hold for every value of the constants that satisfies the modules'
assumptions: any number of tasks, rows, payloads, videos, requests, processes,
deliveries, faults and crashes.

* `NotificationServiceProofs`. `TypeCorrect` first. What makes a drop go out
  once is not visible in `DropsPostedOnce` itself; `IInv` adds that a task
  inside a scan holds the lock (`LockInv`), that the row it has in hand is not
  recorded in `notified` between the check and the commit (`HandInv`), and, for
  each drop's key until the drop is deleted, that a post is either recorded, in the
  hands of a task, or counted in `unrecorded` (`PostInv`). After that nothing is
  claimed of the key but that each row posts once. `InductiveInvariant` proves
  `Spec => []IInv`; `DropsGoOutOnce`, `SentIsTrue`, `VideosComeFirst` follow,
  and `CleanupIsSafe` is the action property. The argument groups the actions:
  the environment and the quiet steps keep the keys and the counts, and only
  `Post`, `Mark`, `Orphan`, `Raise` and `Crash` move the account of a key, and `Delete`
  takes a key out of it.
  The second half of the module goes on from there. `CountInv` adds the account of the
  rows: no two tasks have one row in hand (`Claimed`, `Distinct`), and a key has at
  most as many posts as rows that were answered or whose answer a task still has in
  hand, posts the database missed (by `Raise`, `Orphan` or `Crash`: `Loses`) apart (`PostsMatch`): `RowsAccountForPosts`, hence
  `OneMessagePerRow`. `PromiseIsKept` is the refinement: under `Smooth` (no faults,
  no crashes, no combat achievements, and several payloads for one key only for
  drops) every step maps, through `Shown`, to a step of `DeliveryPromise` or to a
  stutter. `Shown` leaves a row "queued" until it is sent or failed;
  a post is `Deliver`, a row's commit is `Settle`, a deletion is `Withdraw`, since what
  is in `notified` was posted. That a key is delivered once rests
  on `OnePost`: a row on its way to Discord has no post yet, for drops by `IInv`, for
  other kinds by the account of rows; that a row called sent was delivered rests on
  `Recorded`: until the drop is deleted no post is missed. The assumption is
  needed: with faults a drop may be announced twice, which the promise excludes.
* `VideoPipelineProofs`. `StoreInv` says for each video that its MP4 is stored,
  or else that nothing anywhere (a status, a snapshot, a URL, a stage of a job)
  pretends so and the raw file was not deleted. From it `UploadsAreNeverLost` and
  `ServedVideosExist`. `QuotaInv` counts the tickets with the requests admitted
  and not served yet: `QuotaIsBounded`. `PipeInv` says who may write a row
  (`Steady`): a request or the webhook only what it has found, a job only a row that
  is "uploaded" or "processing" while the worker is polling, an expiry only what the
  worker chose while no job runs; with it `FinishedVideosStay`, since the worker never
  has a finished row in hand and only a web process that read it earlier can move it.
* `SubmissionIntakeProofs`. `MemoryInv` says that a process's list is the tail of
  what it has ever remembered, hence `KnownUntilEvicted` for every size of the
  list. `Types` makes `IntakeTypes`. `WaveInv` says that while a guid has a recent
  row, every delivery that the table would not stop belongs to the wave that was
  at hand when it was stored: `ResendsStoreNothing`. `NoticeInv` counts the rows
  that were committed ahead of their notices: `NoticesFollowDrops`. `TotalsInv`
  strengthens `TotalsExplained` by the deliveries that Redis knows of and whose points
  are still to come (`Unpaid`), for only then do the points never outrun what was
  counted: `TotalsAreExplained`.
* `LootTotalsProofs`. `TableInv`: a row has a month that has begun, and a job's
  snapshot holds only rows that were committed. `OnceInv`: no total counts a drop
  before its turn; increments come before the commit and snapshots after it, hence
  `NothingCountedTwice`. `RebuildIsHonest`: a rebuild changes a count to nothing
  or to what its snapshot shows, hence `UndoneStaysForgotten`. `ExactInv` says,
  for every drop that is not excused, that every job under way has seen it as it
  is, and that each count is right or some job has still to clear, remove, set or
  add it (`WillClear`, `WillRemove`, `WillSet`, `WillAdd`); when the player is
  quiet nobody has, and `ExactWhenNothingIsUnderWay` follows. `ExactWhenQuiet` by
  itself says nothing while a job is under way, so it is far from inductive.
* `PointsLedgerProofs`. `Tables` gives the rows their types. That no point is spent
  twice rests on what a session knows of the rows it locked, which no other session
  has: `Holds` says that they are as it read them, that it took from none more
  than it read, that what it took and what is left to take make up its price, and that it
  went through them in order, so that a row it passed by without emptying it was its
  last. `Schedule` says a grant is due no
  sooner than a month after it was last given unless it is hurried, and `WasDue` the
  same of what a run has in hand unless it clashed. `InductiveInvariant` gives
  `LedgerBalances` and the two action properties `SoonestFirstHolds` and
  `MonthlyGrants`, for any number of sessions, credits and grants.
* `GroupPointsProofs`. The invariant says that there is an injection (`Accounted`)
  from the rows of `player_points` to the places of the names that were paid, the
  receiver's being 0: `PaidOnce`
  then needs only that two places with one name differ by more than case, and
  `PaymentsKeepTheRules` that each payment was bounded and allowed when it was made.
  What the rows come to is a sum, the function `Paid` of the rows; `PaidMore` says
  what one payment adds to it. `Reported` says that the notice agrees with the rows
  until the session is given up: `ReportHolds`. `Split` says that with an equal split,
  no event and no bounds each payment so far is the price over the heads, rounded up,
  and that what was paid is that much for each name which is no longer `left`; with `RoundingUp`
  (what the division gives) `SplitsAddUp` follows for every price and number of heads.
* `EntryModifierProofs`. All three properties speak of moments at which nothing is
  under way, so none is inductive: the invariants say what holds meanwhile.
  `Types` and `PhasesFit` (a drop that is open, shared, changed; which rows and
  which change there can be then) serve all of them. `SharesEven` rests on `EvenInv`:
  the rows of a drop in a group are those of one sharing of its value,
  except between the commit of a new value and the part of the handler that
  rewrites the rows. `PointsFollow` rests on `PaidDrops`, `PaidOthers` and
  `UnseenKnown`: who is paid for an entry at each stage of its life and of its change,
  and that a drop which was changed while hidden is known to have been.
  `BoardsFit` rests on `BoardInv`: a score is what drops and shares come to
  (`Fits`), or it was left off, or somebody has still to write it: a change that has
  not come to its last part (`Touched`), the bot's queue of rebuilds
  (`Awaited`), a rebuild that has set the score and not added the shares (`InReset`).
  A rebuild may set a score right because what it read is still so unless another
  step disturbed it (`ReadersKnow`), whichever transaction it read in: a drop that was
  committed since is in `late`, and whoever it concerns is left off. The sums over drops, rows and snapshots are
  `Total`s, folds over sets; what one element more or less does to them is proved
  first (`TotalSplit`, `TotalSame`, `WorthsUnion`, `SnapshotSum`).
* `WebhookQueueProofs` covers all six invariants of the queue mode. `Shape` is the
  consumer's place in its entry; `Tables` what the open transaction may hold and that
  an embed past its first stage is entered or about to be; both are known after every
  step from two classifications (`EntryKinds`, `StageMoves`), so that the theorems do
  not go through the actions again. `FilesGoWithEntries` needs no more than `Shape`.
  `PointsHaveEntries` adds `Unpaid`: a slot or a pet that was just entered was not on
  file, hence not paid for. A drop's points are committed before it, and the theorem
  says so: they have their drop, or it is in the open transaction, or its entry was
  cut short. `StoredOnceWithinTheHour` adds `Fresh`: what is open has
  no recent row of its guid, and a time is on file once. It has a hypothesis,
  `GuidsNameTimes`: a guid stands for one time. Without it a better time would make an
  old row recent beside a newer one of the same guid. `NothingSlipsThrough` adds that
  what is remembered or stored was met (`Met`), that each embed which ended has its
  reason (`AllAccounted`) and that an entry that was let go was handled to its end or
  cut short (`Through`). `NoticesAreNotRepeated` follows the memory from notice to
  notice (`AnnounceWhat`); `MemoryIs` unfolds its recursive definition, which three
  notices at most allow without induction. `QueueTypes` adds the sizes of the caches.

Every safety property that a passing run checks, the action properties and the
refinement are theorems, `OneRecentRow` and `KeepsPromise` under the hypotheses
given above. Only model-checked are the three liveness properties
(`EveryRowSettles`, `EveryVideoSettles`, `EveryEntryIsTaken`), which are out of the
prover's reach, and the two counterexamples.

**Sums.** The provers have no induction over data: the library's theorems take an
operator as a parameter. Where a sum over rows or drops is concerned, the proofs
go through a set instead: the numbers `n` for which the claim holds of everything
of size `n` are all of `Nat`, since the smallest number outside would follow
one inside (`NatSet`, from the library's `WFMin` and `NatLessThanWellFounded`; in
`GroupPointsProofs` and `EntryModifierProofs`).

**What the proofs corrected.** `BoardsAddUp` at first excused fewer scores.
A rebuild visits the months in which its player has drops of his own and the
current one; in any other month the old score stays, and shares are credited on top of
it each time (`_apply_split_credits` after `_rebuild_partition_data`). A player
who keeps a score or a share in such a month is left off, which `AddShares` now
records (`stale`); it takes more players and months than the instance has, so
only the proof met it.

## 5. What is left out, and the abstractions

* Embeds, wording, channels and templates of the senders, permissions and group
  configuration: a sender may refuse (`Refuse`) or post.
* The seasonal (`world_type`) variants of processors and senders, which follow the
  same control over tables of their own.
* In `SubmissionIntake`: several groups for one drop. Requests with more than one
  embed, submissions without a guid and processors of other kinds are in
  `WebhookQueue`. Redis is a counter there: how totals are kept is `LootTotals`.
* In `LootTotals`: the boards of groups and edits of a drop, which are in
  `EntryModifier`; the keys and boards of days and weeks; items and
  lists of recent drops, which move with the totals; the seasonal keys, which no
  rebuild touches. `_clear_player_redis_data`
  lists a player's keys and deletes them in a second command; a key that is first
  made between the two is taken to be deleted as well, which concerns only drops
  counted during a rebuild, all of them excused.
* In `WebhookQueue`: adventure logs; the group's points, which are
  `GroupPoints`; several groups for one player. What a notice says, the
  address of its screenshot included, is the embed it is about.
* In `EntryModifier`: a group's pricing, which is `GroupPoints`: a drop earns each
  player one payment. A name given twice in a list. The current month does not turn
  (that is `LootTotals`). What a failed handler has written to Redis by then is left
  out, the scores it may have left wrong are marked instead. What the model shows and
  no property forbids: a hidden drop that is changed and then shown is paid twice;
  a delete reverses a group's shares once for each of its rows, which the rebuild
  that follows puts right; a hiding looks at the shares of one group only; points are
  deleted by number, of entries of other kinds too; a rebuild forgets that the
  receiver's own score was lowered.
* In `PointsLedger`: activations of features and the balances computed by queries.
  Within `src/` only `award_points_to_player` is called; the rest is the interface for
  the scheduler and the site. A flush that fails in a monthly run ends the whole batch,
  although the comment there says "Continue with other grants" (`points.py:601`); two
  `ensure_recurring_grant` at once can make twin grants; the sweep can overwrite
  "revoked". All three are modelled (`RollBack`, `Insert`, `MarkExpired`).
* In `VideoPipeline`: the local storage backend with its retention sweep, and the
  status route; the dispatcher's deletion of local videos after it posted.
* `cleanup_tracking_dicts` is to delete rows of `notified` after 30 days, but it
  asks for `NotifiedSubmission.created_at`, a column the model class does not
  have (it has `date_added`); the error is logged and nothing is deleted. Rows of
  `notified` go with a deleted drop only (`Delete`). Two rare programs that delete as
  well are not modelled: the removal of a group, which takes its rows of the queue
  along (`commands/admin.py:279`), and the script against duplicate drops
  (`database_script.py`).
* The cleanup of stuck rows reads through the global scoped session
  (`notification_service.py:3648`), whose transaction may be older than what it is to
  judge; the model reads the rows as they are. `CleanupSparesRowsInHand` is about the
  lock, not about such a reading.
* `OnePostPerRow` leaves combat achievements out: with an MP4 they are
  posted twice by design of the code, contrary to the comment beside it.
  `CombatAchievementsPostedOnce` states the comment; no run asks for it.

### Not modelled

* **Discord outbox**: one function that selects pending rows, sends each and commits
  once. A model would restate it: overlapping drains send twice, a crash before the
  commit sends the batch again, and nothing in the code is meant to prevent either.
* **Player identity**: what it does depends on the answers of an outside service and
  on names that players change there; its commits and rollbacks on its caller's
  session, which is where it matters, are in `VideoPipeline` (`HookNewSnapshot`)
  and in the intakes (`JoinGlobal`, `Announce`).
* **Events and board games**: `games/events/BoardGame.py` calls methods and columns the
  repository does not define and is disabled in the bot; there is no program to be
  faithful to.
* **Hall of fame, lootboards, web APIs, commands, monitoring, scripts**: queries,
  drawing and formatting over the tables above, one request at a time. They are
  most of the repository's lines and hold next to none of its state.

## 6. Plan

Done: `NotificationService` and `DeliveryPromise`; `VideoPipeline`;
`SubmissionIntake`; `LootTotals`; `PointsLedger`; `GroupPoints`; `WebhookQueue`;
`EntryModifier`.

Left, in this order:

1. Composition of `VideoPipeline` and `NotificationService`, so that `VideoStep`
   and `Requeue` are the pipeline's own actions and "ahead of its video" is
   stated of the whole.
2. `LootTotals` in the place of the counter of `SubmissionIntake`.
3. For `EntryModifier`, a bound on which of a receiver's own drops a score may be
   lowered by: `BoardsAddUp` lets it be any set of them.
