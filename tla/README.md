# CodexKeeper in TLA+

CodexKeeper collects usage events from CodexProxy (CPA) over Redis' RESP
protocol, keeps them in SQLite, derives the numbers its dashboards show, and
keeps a local copy of CPA's credentials. This directory holds TLA+ models of
the parts of it where several goroutines, the database and the network meet,
the TLC configurations that check them, and TLAPS proofs of what matters most.

    tlc -workers 2 -config UsageInbox_run.cfg UsageInbox
    tlc -workers 2 -config KeeperServices_run.cfg MCKeeperServices
    tlapm UsageAggregationProofs.tla

`PROJECT.json` lists components, runs, mutants, hazards, findings and theorems,
and maps every definition to the lines of code it stands for.

## The system

    CodexProxy --SUBSCRIBE / LPOP--> ingest runner --> redis_usage_inboxes
                                        |                     |
                  connected, refresh,   |                     v
                  polling required      |             process runner --> usage_events
                                        v                     |               |
    CodexProxy --HTTP--> metadata sync runner                 | committed     |
                             ^      |  usage_identities        v               |
                  refresh    |      +--------------> aggregation runner <-----+
                             |       identities changed   |
                     HTTP requests                        v
                                          rollups, identity totals, archive

| Part | State | Operations | What is hard | What makes it correct |
|---|---|---|---|---|
| Usage ingest (`poller/redis_ingest_runner.go`, sources, writers) | subscription, batch in memory, inbox rows | subscribe, drain backlog, receive in windows, insert, retry, reconnect | LPOP has no acknowledgement; shutdown and deadlines cut running calls | no message doubled, forgotten or reordered; a consumed batch is stored; the backlog drains; shutdown ends |
| Inbox processing (`service/sync.go`, `poller/redis_process_runner.go`, `repository/redis_usage_inbox.go`) | row status and attempts, events | list, decode, look up, commit, mark failures, clean up | marks outside the transaction; cleanup and crash between statements | one event per row; attempts counted and paced; every row settles |
| Aggregation and archive (`poller/usage_aggregation_runner.go`, `repository/usage_aggregation_*.go`, `usage_identities.go`, `usage_event_archive.go`) | three cursors, a cursor per identity, targets in memory | notify, freeze a target, page turns, identity scans, archive | targets live in memory only; three transactions per page; deferral in the middle of a turn | every event in every number exactly once; no event forgotten; nothing archived uncounted |
| Metadata sync (`app/metadata_sync.go`, `service/metadata_sync.go`, coordinator, credential services) | mode, signals, debounce, local rows | sync, single and bulk changes, delete, refresh | a fetch that overlaps a change; late local writes; lost announcements | no rollback; convergence |
| Quota refresh tasks (`quota/refresh.go`, `auto_refresh.go`, `inspection.go`) | task map, dispatchers, worker tokens, rounds | refresh, dispatch, complete, inspect, automatic rounds, shutdown | a record is a pointer that others replace; check, lookup and creation are separate | one call per account at a time; every task and round ends |
| Quota header cache (`quota/header_cache_worker.go`, `codex_header.go`, `claude_header.go`) | pending map, wake channel, the task map again | append, flush, merge | headers out of order, merged, against task results | newer results win; nothing accepted is forgotten |
| Quota history (`quota/codex_quota_history*.go`, `repository/codex_quota_history.go`) | two queues, memory of each window, cycles and segments | append, merge, write, delete | two layers with rules of their own; failed writes | segments descend; memory and table agree |
| Quota resets (`quota/reset.go`, `claude_reset*.go`) | resets in flight | show grants, confirm, recover | the answer may be lost after the reset was spent | spent once, and the answer says so |
| Error ingest (`poller/redis_error_ingest_runner.go`) | subscription, retry index | subscribe, receive, store | gives up after five attempts in a row | ends only for a reason |
| Sessions, login limiter (`auth/`) | session cache and table, pending activity; attempts per source | create, touch, delete, expire; allow, reset | background writer against deletion; a full table | a revoked session stays revoked; attempts are bounded |
| Queries and caches (`repository/usage.go`, `usage_recent_event_cache.go`, `usage_credential_health_cache.go`) | recent events, health buckets, append slots | append, prune, count a range, page | three sources read one after the other while events arrive | each event counted once; the cache holds its window |
| Pricing (`pricing/`, `service/pricing_*.go`) | prices, rules, snapshot | change, compile, publish, resolve | publication after the commit; products of multipliers | answers follow commits; costs are finite |
| Backup, maintenance (`app/backup_runner.go`, `app/maintenance.go`, `backup/`) | schedule, files | back up, retry, clean up, vacuum | retries, restarts and the calendar | attempts are paced |
| Migrations (`repository/migration/`, `repository/db.go`) | tables, version marks, backups | run what is missing, in order | page-wise commits, crash before the mark | no number lost or doubled by an upgrade |
| Lifecycle (`app/app.go`) | background context, wait group | start, cancel, wait, close | order of closing | tasks end before the database closes |
| Tokens, HTTP API, web, config, logging | - | - | sequential or presentation only | - |

The hazards found in this inventory are in `PROJECT.json`, each with the
properties that would catch it or the reason none does.

## Modules

| Module | Models |
|---|---|
| `UsageIngest` | the ingest runner, both inbox writers, and what it tells the metadata runner |
| `UsageInbox` | the process runner, `ProcessRedisUsageInbox` and the inbox cleanup |
| `CommitFeed` | abstract: what the aggregation may rely on about commits and notifications |
| `UsageAggregation` | the aggregation runner, its transactions, and the archive |
| `MetadataSync` | the metadata runner, `SyncMetadata`, and the requests that change credentials |
| `QuotaRefresh` | refresh tasks, inspections, automatic rounds, shutdown |
| `QuotaHeaders` | quota values from response headers and their merge into the task records |
| `QuotaHistory` | the history of quota cycles: queues, scheduler, writer, deletion |
| `QuotaReset` | resets by hand, from the dialog to the recovery at CPA |
| `Sessions`, `LoginLimiter` | login sessions with their activity writer; the limit on attempts |
| `UsageQueries` | overview ranges, their sources, the caches, cursor paging |
| `ErrorEvents` | the error subscription |
| `Backup` | the backup runner |
| `Pricing` | prices, rules, the published snapshot |
| `Migrations` | opening the database and the migrations that change data |
| `KeeperServices`, `MCKeeperServices` | the services composed; the values of their constants for TLC |
| `Orders` | lists in ascending order, as `ORDER BY id` and a filtered slice give them |
| `UsageIngestProofs`, `UsageInboxProofs`, `UsageAggregationProofs`, `MetadataSyncProofs`, `QuotaRefreshProofs` | TLAPS proofs about the module of that name |
| `QuotaProofs` | proofs about `QuotaHeaders`, `QuotaHistory`, `QuotaReset` within `KeeperServices` |
| `ServicesProofs` | proofs about `Sessions`, `LoginLimiter`, `ErrorEvents`, `Pricing`, `Backup`, `UsageQueries`, `Migrations` within `KeeperServices` |
| `OrdersProofs` | lemmas about sequences, orders of finite sets, `InOrder` and quotients the proofs share |

The pipeline modules and `QuotaRefresh` are checked directly; they take their
bounds as CONSTANTS. The services share neither state nor locks, so
`KeeperServices` takes the constants of all of them and explores them one at a
time (`part`): an invariant or step property of one of them holds of any
interleaving exactly if it holds of the part. Where two of them meet (header
values and task results write the same records) both sides are in one module:
`QuotaRefresh` has the header as an event that replaces a record,
`QuotaHeaders` has the task as an event that starts and completes.

Some operators are plausible errors in the code, such as a dropped guard. They
are used by no specification; "mutants" in `PROJECT.json` says which property
each of them breaks when it takes the place of the real definition.

### UsageIngest

`pc` follows `Run`, `consume` and `persist`: connecting, backfill, receive (the
first message of a batch), window (the rest of it), persist (choosing the write
context), inserting, retry, sleep, stopped. A message is a number with a kind:
usage, a provider that is not tracked, the two control messages, or blank.
`link`, `stream` and `desync` are the connection: what is in flight, and whether
the reader stands inside a value. `writeCtx` is the context chosen before an
`Insert`; a shutdown (`ctxDone`) ends a live one while the insert runs. `meta` is
what the metadata runner has been told. `Kept` are the places of a batch with
messages of the given kinds: what each writer's filter lets through, in the
order of the batch. `lost` is a history variable: each message that disappears
has a cause, so `OneHome` can say that there is no other way to disappear:
every published message is in exactly one of the six places of `Homes`. `Publish`, `CutLink`, `BrokerNoticesCut` and `Crash` are
CodexProxy, the network and the operating system.

Left out: the contents of payloads, the durations of backoffs, the status shown
on the dashboard, and that control messages are observed again with each retry
(observing twice has the same effect).

### UsageInbox and CommitFeed

Every SQL statement outside the commit transaction is a step of its own, so
arrivals, cleanup and crashes fall between any two of them. A row has one of
four classes: an event whose executor is known, an event that needs the identity
table, an event of an untracked provider, or no event. The lists of
rows a round works on are in id order throughout, so `batch`, `todo`, `valid` and
`ready` are sets, and a loop takes the least row next (`First`). `events` is the events
table: the row behind each event in id order. `burnt` remembers which rows lost
an attempt since the last pause. A cancelled context looks to the database like
a crash, and is modelled as one. `WeekPasses` lets rows grow old at any moment.
The production construction is modelled, in which an aggregation notifier exists.

`CommitFeed` states the contract towards the aggregation: ids grow with commits,
each commit is announced before the next one of the same process, and a crash
loses an announcement but no commit. `UsageInbox` implements it (`FeedSpec`, with
`lastId <- Len(events)` and `owed` derived from `pc`); `UsageAggregation` has the
same steps as its environment (`CommitEvents`, `NotifyUsageEventsCommitted`,
`InboxFills`, `InboxDrains`, `Crash`, `Boot`).

### UsageAggregation

Events are `1..lastId`; `archived` are those that left the hot table. `rows[R][e]`
counts how often event `e` was added to rollup `R`, `irows[e]` how often it was
added to its identity: what dashboards show are sums over these. The variables
of the runner keep the names of its fields (`activeRound`, `activeTarget`,
`reached`, `pending`, `identityAfter`, `targetGen`, `scanGen`, `wake`). A turn is a
sequence of steps: begin under the mutex, look at the inbox, read the cursors,
then for each rollup load a page (once, if the cursors are equal), look at the
inbox again, and apply the page in a transaction that also moves the cursor.
Failures, deferrals, notifications, commits, archiving and crashes interleave
with all of them. A page holds at most `PageSize` hot events above the cursor.
`orphaned` are events archived before their identity row existed: no identity
could count them then, and later ones do not.

### MetadataSync

Each change at CPA gets a number (`gen`); a cell `[gen, alive]` stands for all
fields of a credential. `local` is what the keeper shows. Requests go through
queued, locked, written, completed, done; bulk requests have one item per file
and never write the local table; deletes take no lock. The runner has its two
one-place channels, the debounce timer and the notification mode.

Simplified: recording a refresh request and sending the signal are one step; the
limit of ten bulk workers is left out (any number may run); the eight provider
types are one, fetched in one step; the management API keys are fetched where
they are stored, as nothing else depends on them; a shutdown is a crash. A
provider key is addressed by name, where the code uses an array index.

### QuotaRefresh

A task record is a Go pointer: dispatchers and workers keep the one they were
given and compare it with the map's, so a record has an id and a `Ref` is what
they hold. `callers` are the requests (manual, inspection) and the scheduled
round while they queue tasks, account by account: the check for an active task,
the lookup and the creation are three steps. A dispatcher waits for one of
`WorkerLimit` tokens, a worker marks its task running, calls the provider and
stores the result if its record is still the one in the map. A round may
start and the service may close at any step. `changes` counts the changes of
an account: a header of another type displaces a running task, whose call goes
on while a new task starts another. `NoDuplicateUpstreamCall` is therefore about
accounts that have not changed; a change can leave any number of calls behind,
as the type may go back and forth. Manual requests, inspections and the
scheduled round are different callers (`CallerAssumption`), and the cfg has two
inspections, as nothing keeps a second POST from starting one while the first
lists, queues or runs. A completion that is recorded while another inspection is
under way is marked `overtaken`, and `CompletedInspectionIsSettled` excepts it: the
second clears the completion mark when it starts, the first dispatches, its
tasks end, a status query records the inspection as complete, and then the
second creates its tasks and leaves the mark (`internal/quota/inspection.go:181`;
the comment at 178 says that completed is true only without an active inspection
task). Only the dashboard shows it, until the next inspection starts. Every
other completion, with whatever overlapping inspections before it, is settled.
With `LateErrors` a lookup may fail after tasks were created for earlier
accounts of the same request; the first of the findings below is about that
case, and the passing run is about all others.

### QuotaHeaders and QuotaHistory

A quota value is the time it was observed at, so that "newer" can be said. A
header brings some parts (main windows, additional limit, limit-reached flag;
the two Claude windows), which the pending map merges as the code does, and
which the worker merges into a record that a task may have completed in
between. `QuotaHistory` keeps cycles with their segments. The runner's memory
(`current`, with `stable` for repetitions that are not written yet) and the
repository each decide on their own what to accept; both sets of rules are
translated. A window may change its length and return to
it, as both layers foresee. A flush goes to the repository in transactions of 32
observations of all accounts, so a failed one may have committed any first part
of a role's observations (`Partly`); the runner then drops what it remembers of
the roles (`Dropped`) and reads them from the table with the next input.

`SegmentsDescend` and `MemoryIsNeverBehind` have one premise, `DriftIsBounded`:
reports of one cycle lie within `Tolerance` of each other, not only each of the
one before (the code's comment speaks of a drift of two minutes,
`codex_quota_history_runner.go:21`); the shapes of the run satisfy it. Without it
TLC finds that trusted resets that drift on, 3, 2, 1 with `Tolerance` 1, are
followed by the runner within one batch while the repository refuses the merged
report; and that deleting the older cycle of such a drift clears `current` and not
`stable` (`codex_quota_history_delete.go:74-81` compares the two separately), so
that a late header of another window writes the deferred repetition ahead of its
time.

That memory and table hold the same percentage is not claimed, because it is not
so: a window that goes to another length and back, with a higher percentage from
a header, begins anew in memory, while the repository keeps the cycle it finds.
What the runner relies on is the order in time: no stored cycle was seen after
what it remembers or defers, so what it accepts is not refused as late.

### QuotaReset

A request is what a dialog showed (a grant of a Claude account, or 0 for a
Codex credit), the provider it was sent to, and its answer. The provider may
decide at any time after the call, also after the keeper has given up waiting;
`ledger` is what it spent. The account may change its type in between.

### Sessions and LoginLimiter

Requests read the session cache without holding its lock across their steps,
one goroutine carries activity to the table outside the lock, and database
calls may fail. A logout deletes the token it was sent also when the session is
not valid for its source. `LoginLimiter` has the windows of the sources and the global
one, and keeps a log of the attempts it let through.

### UsageQueries

An overview fixes its own "now", splits its range into whole days, whole hours
and two edges, and reads the rollups and the edges one after the other, the
edges from the cache or the database, while commits, aggregation, the cache's
worker and the clock go on. The same module has analysis and realtime requests
and the paging of the event list. Sums stand for all columns that move together.
The queue of the cache has `AppendQueue` places; a batch that finds none is
dropped. Of the analysis ranges only the rolling ones are modelled: "today" and
"yesterday" begin and end on the hour and read whole rollups.

### ErrorEvents, Backup, Pricing, Migrations

`ErrorEvents` follows `Run`: subscribe, receive, wait, end. `Backup` has both
schedules (an interval in whole days is kept at the backup hour, any other
positive one is counted from the last backup), the retries, the temporary file,
the rename, the removal of old days and a backup directory that cannot be read; a
crash leaves the temporary file and forgets the memory, while `attempts` and
`lastSaved` go on, so pacing is stated across restarts. On the daily schedule
attempts are paced within a round, from one backup hour to the next: the last
retry of a failing round and the daily copy may fall on the two sides of the
hour, closer than the retry delay. With any other interval nothing is claimed of
the copies after the last retry: the backup is then overdue, `nextDelay` is not
positive and the runner tries again at once until one succeeds
(`internal/app/backup_runner.go:133-137`). What is claimed there is that no copy
starts within the interval after the last success, unless a restart found the
directory unreadable, and that each counted retry waits for the retry delay.

`Pricing` has the mutex, the transaction with the compilation inside it, the
commit and the publication as separate steps; amounts are small integers and
those above `Finite` are infinite. Which entry of the price list a preview
prefers is left open: any listed price may be offered, or none.

`Migrations` has fifteen versions and starts from the tables that a release which
stopped before any of them can have left (the run: before the first, second,
fifth, eighth, thirteenth and fourteenth), with events of every token format, and runs what is
missing with the commits where the code has them. The other versions touch no
sum, cursor or row modelled here: columns of the inbox, of sessions and of
identities that only describe them (names, sources, storage times, parent
sessions, 64-bit keys) and plain schema changes. What an upgrade does not keep,
and `UpgradeLosesNothing` therefore excepts:

- the token backfills cut the hour and the day out of the text of the timestamp,
  so an event in a zone half an hour off, or on the day of a clock change, misses
  the bucket the aggregation put it in (`misses`);
- they and the later aggregation join identities by type and index, while the
  versions that count identities anew also take events without a type, so the
  row of an index with such an event is not exact from then on;
- `20260822_rebuild_quota_history` drops the Codex history of the first tables
  without a backup. The code says so and means it (`migration.go:234`); the
  property says that it goes with that version and not before, and that the later
  history, of all providers, is never removed without a finished backup.

## What the runs check

| Run | Bounds | Shows |
|---|---|---|
| `ingest` | 3 messages of 3 kinds, batches of 2, 2 faults, 1 shutdown | `OneHome`, `PerSourceOrder`, `BatchRetained`, `BacklogDrains`, `ShutdownTerminates` |
| `inbox` | 3 rows of all classes, batches of 2, 2 attempts, 3 faults | `OneEventPerRow`, `StatusAgreesWithEvents`, `AttemptsArePaced`, `FeedSpec`, `EveryRowSettles`; no deadlock |
| `aggregation` | 2 events, pages of 1, 1 identity row, 1 inbox arrival, 1 fault | `RollupExactlyOnce`, `EveryCommitIsTargeted`, `IdentityExactlyOnce`, `ArchivedIsAggregated`, `EventsReachRollups`, `EventsReachIdentities` |
| `metadata_safety` | auth file, provider key, 2 requests, 2 changes | `SnapshotNeverRollsBack`, `OwnChangesStay` |
| `metadata_live` | 1 auth file, 1 request, 2 changes, 1 fault | `Converges` |
| `quota_tasks` | 2 accounts, 2 tokens, a manual request, two inspections, automatic rounds, 3 events | `NoDuplicateUpstreamCall`, `CompletedInspectionIsSettled`, `EveryTaskSettles`, `AutoRoundEnds`; no deadlock |
| `services` | see `KeeperServices` | headers: `FlagAndWindowsNeverRollBack`, `PendingHasAWaker`; history: `SegmentsDescend`, `MemoryIsNeverBehind`, `QueuedHasAWaker`; sessions: `RevokedStaysRevoked`, `ActivityHasAWriter`; limiter: `AttemptsAreBounded`; queries: `OverviewCountsOnce`, `CacheHoldsItsWindow`, `PagesShowEachEventOnce`; `ErrorIngestEndsForAReason`, `BackupAttemptsArePaced`, `CatalogFollowsCommits`, `CostsAreFinite`, `UpgradeLosesNothing`, `ResetIsAccountedFor` |
| `ingest_shutdown`, `ingest_torn`, `metadata_retry`, `quota_orphan`, `header_rollback` | minimal | five statements of the repository the code does not keep |

Why these bounds are enough for the interesting cases: two messages fill a
batch, so three make a full page, a short page and a message that arrives over
the other connection; two events on pages of one make two pages per round, so a
turn that is cut short leaves cursors that differ, which is the fallback path;
two attempts pass through "failed" and "given up"; two requests are what a lock
is for. Two accounts and two tokens are the least for which a dispatcher and a
worker of the same account overlap with another. In the queries an hour has two
ticks and a day four, so that edges fall before, on and after both boundaries,
and the cache is shorter than the ranges. The login limiter has more clients
than places. A fault is a failed call, a broken link or a crash, so one fault
can hit every step and two can hit a recovery. A scan over several identity rows
is beyond the bound of the run; what it must not do wrong is proved for any
number of rows. Where the system may stop for good (all messages delivered,
nothing to aggregate) deadlock is not checked; the process runner and the
quota service go on forever, and there it is.

The `TypeOK` of the pipeline modules and `QuotaRefresh` documents their state. It is
proved for `UsageInbox`, `UsageAggregation`, `MetadataSync` and `QuotaRefresh`, and is not
among the properties of the runs.

### Fairness

Liveness assumes that the goroutines of the keeper are scheduled and that their
calls return (each carries a context, a socket deadline or SQLite's busy
timeout), that timers fire, and that the supervisor starts the process again.
In `UsageAggregation` it also assumes that the inbox runner drains the inbox now
and then (`EveryRowSettles` is the reason it can), and that a committed batch is
announced unless the process crashes, which is straight-line code in
`processRedisInboxRows`. Nothing is assumed of the notification after a metadata
sync: that sync may fail and, in notification mode, is not repeated, so
`EventsReachIdentities` excepts the time in which it is owed (a restart, which scans
all identities, ends it). `MetadataSync` assumes
that the ingest runner reconnects and that an announcement on a link that stays
up arrives. `QuotaRefresh` assumes weak fairness of callers, dispatchers and workers
together, which is enough as events are bounded and between two of them the
goroutines have finitely many steps to take: provider calls end (they carry the refresh context, and CPA's client has a
timeout), and a worker returns its token when it ends. The services are checked
for safety only; that nothing accepted is forgotten is stated there as "somebody
will take it" (`PendingHasAWaker`, `QueuedHasAWaker`, `ActivityHasAWriter`).

### Findings

1. `ShutdownFlushesBatch`: a shutdown during an `Insert` that was started with the
   live context rolls it back, and `persist` then drops the batch instead of
   writing it with the detached context
   (`internal/poller/redis_ingest_runner.go:159`, comments at 138 and 150).
2. `ArrivedEventsAreRead`: the deadline of the one-second window is the deadline
   of the socket; when it fires inside a RESP value, the bytes read are dropped
   and the event is lost (`internal/poller/redis_subscribe_source.go:186`).
3. `FailedSyncIsRetried`: in notification mode a failed metadata sync is not
   repeated by the periodic timer, as a comment says it is
   (`internal/app/metadata_sync.go:113`, comment at 103).
4. `QueuedTaskHasAnOwner`: when the lookup of a later account fails, a refresh
   request returns without a dispatcher for the tasks it has already queued; they
   stay queued, and later requests for these accounts are refused as duplicates
   (`internal/quota/refresh.go:206`, comments at 243 and 374).
5. `CompletedNeverRollsBack`: two Codex headers merged while they wait carry the
   time of the later one, so the main windows of the earlier one are written over
   a record that a refresh completed between the two
   (`internal/quota/header_cache_worker.go:862`, comment at 861). The trace has two
   headers and one refresh of a Codex account.

## What is proved

The theorems hold for every value of the constants that the named assumptions
allow (`IngestAssumption`, `InboxAssumption`, `AggregationAssumption`,
`MetadataAssumption`, `LimitAssumption`, `CallerAssumption`, `ServicesAssumption`):
bounds are naturals, sizes and limits are positive as the constructors make
them, names of different things differ. For the services these are the
`...Constants` of `KeeperServices`: a day is a whole number of hours and an hour has
at least two ticks, the backup hour lies in the day, prices and multipliers are
integers and fields are finitely many; the events a migration finds carry token
counts that are naturals, an auth file goes by its own name ("f") and no provider
key does, and the old release stopped at any version. All are safety, `Spec => []Inv` or
`Spec => [][A]_vars`, each from an inductive invariant with one lemma per action
that can disturb it.

| Property | Theorem |
|---|---|
| `OneHome`, `PerSourceOrder`, `BatchRetained` | `UsageIngestProofs`: `OneHomeHolds`, `PerSourceOrderHolds`, `BatchIsRetained` |
| `OneEventPerRow`, `StatusAgreesWithEvents`, `AttemptsArePaced`, `FeedSpec` | `UsageInboxProofs`: `OneEventPerRowHolds`, `StatusAgrees`, `AttemptsPaced`, `InboxImplementsFeed` |
| `RollupExactlyOnce`, `IdentityExactlyOnce`, `ArchivedIsAggregated`, `EveryCommitIsTargeted` | `UsageAggregationProofs`: `RollupsExactlyOnce`, `IdentitiesExactlyOnce`, `ArchiveLosesNothing`, `CommitsAreTargeted` |
| `SnapshotNeverRollsBack`, `OwnChangesStay` | `MetadataSyncProofs`: `SyncNeverRollsBack`, `KeeperChangesStay` |
| `NoDuplicateUpstreamCall`, `CompletedInspectionIsSettled` | `QuotaRefreshProofs`: `OneUpstreamCall`, `CompletedIsSettled` |
| `QueuedHasAWaker`, `PendingHasAWaker`, `FlagAndWindowsNeverRollBack`, `ResetIsAccountedFor` | `QuotaProofs`: `HistoryIsWoken`, `HeadersAreWoken`, `HeadersNeverRollBack`, `ResetsAreAccountedFor` |
| `SegmentsDescend`, `MemoryIsNeverBehind` | `QuotaProofs`: `SegmentsAlwaysDescend`, `MemoryNeverBehind` |
| `RevokedStaysRevoked`, `ActivityHasAWriter`, `AttemptsAreBounded`, `ErrorIngestEndsForAReason`, `CatalogFollowsCommits` | `ServicesProofs`: `RevocationIsFinal`, `ActivityIsWritten`, `LoginsAreBounded`, `ErrorIngestEnds`, `CatalogIsCurrent` |
| `CacheHoldsItsWindow`, `OverviewCountsOnce`, `PagesShowEachEventOnce`, `BackupAttemptsArePaced`, `CostsAreFinite` | `ServicesProofs`: `CachesAreWhole`, `OverviewsAreExact`, `PagesAreComplete`, `BackupsKeepTheirPace`, `CostsStayFinite` |
| `UpgradeLosesNothing` | `ServicesProofs`: `UpgradesAreExact` |

Why the properties are not inductive as they stand, and what the invariants add:

**Ingest.** `Accounted` says that the places of `Homes` are disjoint and hold all
that was published. `Ordered` says that backlog, stream and batch ascend, and
that what is stored from a source lies below what is still to come from it. A
retry cannot double a message, because a batch is given up in the step that
stores it: outside the window and the store nothing is in hand, and without a
connection nothing is on the wire (`HandsEmpty`).

**Inbox.** `OneEventPerRow` needs to know that an unprocessed row has no event
(`UnprocessedHasNoEvent`) and that the rows a round holds have none until it
commits them (`InHandIsUnwritten`): nobody but the round marks or commits them,
the cleanup may only delete. `AttemptsArePaced` adds `BurntIsOut`: a row that lost
an attempt since the last pause is not in the hands of the round, and unless the
round must wait it will not be listed again. `InboxImplementsFeed` maps `lastId`
to the number of events and `owed` to what `pc = "notify"` owes; each step of
`UsageInbox` is a step of `CommitFeed` or a stutter.

**Aggregation.** `ApplyPage` adds the page in hand and moves the cursor to its
last event, so one must know that the page is exactly the gap between the two.
`IndInv` adds `ArchivedBelowCursors` (no archived event lies above a cursor, so a
page loaded from the hot table has no holes; the archive gate `CaughtUp` keeps
this), `SnapshotIsCurrent` (the cursors read at the start of a turn, updated by
the pages applied since, are the stored ones), and `PageIsGap` (the page in hand
is the gap above the cursor of the rollup it goes to next, and in the shared
path above those of all rollups still to come). For identities `IdentityCore`
relates `irows`, the cursors and `orphaned`. `CommitsAreTargeted` adds that no round
is active before the startup target is set, where it would be overwritten
(`NoEarlyRound`), and that a round reached in advance has nothing to reach
(`ReachedEarlyIsEmpty`).

**Metadata.** `FreshIsNewer`: while the version has not changed since a snapshot
began, the snapshot is at least as new as the local rows. `OnlyForeignIsLater`:
while a request has written CPA and not yet the local row, what is later than its
change is made by others or is a deletion (a deletion takes no lock); the lock
(`LocksExclude`) keeps the keeper's other changes of that credential out.

**Quota refresh.** A record is followed by its id: it is in one place besides the
map, with a caller, a dispatcher or a worker (`OnePlace`, since `NewId` is free), and
a record that runs stays in the map unless the account changes (`RunningStays`).
As the map has one record per account, an unchanged account has one call.
`CompletedIsSettled` adds `InspectionInv`: a completion recorded with no inspection
under way stands until the next one begins, and till then no inspection is under
way and no task of the round is active, since only an inspection under way makes
an inspection task (`InspectionTasksOnlyEnd`).

**Services.** `ServicesAreParts` shows that a behaviour of `KeeperServices` is one
of each part, so the parts are proved about and the theorems follow.
For sessions `CacheInTable` (a cached session is a stored one with the same
expiry) is the invariant. For the limiter, `LimiterInv` keeps of the global
window and of that of each source how many attempts fall into it (`Late`) and
into the span just before it (`Early`); a source that has left the table has a
window that is over, so a span of one window touches two windows at most. For
prices, only the request that holds the mutex has a candidate (`MutexIsHeld`). For
headers, the parts of a snapshot are not newer than its time, and a Claude window
split off from it is missing or exactly as old. For resets, `Told` relates each
answer to the ledger and the calls under way.

**Backup.** What the runner remembers bounds what is to come. On the daily schedule
(`DailyInv`) the next attempt is due no sooner than `RetryDelay` after the last one
of its round, the retries counted are the attempts of the round less one, and
once they are used up, or a crash has cleared the count, the next attempt is in a
later round. With any other interval (`IntervalIsKept`) the file of the last success
is in the directory until the interval is over, so a restart finds it and the
next attempt is due an interval after it, unless the directory was unreadable. With either, a pending retry is due the
retry delay after all attempts (`RetryIsDue`, `RetryIsSpaced`).

**Queries.** `CacheHoldsItsWindow`: what the worker took and is still within the
window was never pruned, as the clock does not go back and the worker prunes by
it; a health bucket counts a credential's cached events of its span, and each
step changes the count by the events it takes or drops. `OverviewCountsOnce`:
days, hours and edges are intervals that meet (`Quotient` facts: rounding down
to a day is rounding down to an hour first), an event lies in one of them, and
the part that is read later only adds events that were not settled when the
request began. `PagesShowEachEventOnce`: what has been shown lies above the
cursor in the order by time and id, and every known event above the cursor has
been shown; a page is the top of what lies below it.

**Costs.** A product over the fields is at most the product of the maxima the
compilation has bounded. The recursion of `Product` is unfolded by a finite list
of the fields, one factor at a time.

**History.** `HistoryInv` says of each role: the segments of a stored cycle descend
and no two cycles match (`Stored`, with `Apart`); none was seen after what is
remembered (`EndsBy`); a deferred repetition is a later report of what is
remembered, and not before what is stored (`Held`). A batch is followed one
candidate at a time by `Fits`: what is pending is a chain in time after what is
stored and up to what is remembered (`Chain`). The repository begins a cycle,
refuses or extends (`AppliedWays` with `Begins` and `Extends`), each of which keeps
`Stored` and ends by the observation's time; so after a whole chain, and after any
first part of it, the table ends by what was accepted. `DriftIsBounded` makes
matching an equivalence (`MatchingIsTransitive`), so that an extended cycle stays
apart from the others. A failed write drops the role and a deletion what matches
the deleted cycle; both leave nothing that could be behind.

**Migrations.** `UpgradeInv` holds between any two commits. The versions marked are
the first ones of the order, and the version at hand is at most the next
(`AtVersion`), so a version finds what the ones before it made. The tables are
`Good` for the versions marked: what that means changes with two of them, which
are therefore shown to take a table from the one meaning to the other. Clearing
the overview takes its checkpoint along, so a cleared table is exact for a cursor
of zero and a crash before the mark does no harm (`OverviewCleared`). A page is the
gap above the cursor and the cursor moves over it (`Gap`), so a replay may stop
after any page. A token backfill changes a rollup by the difference over the
events below its cursor, and as the sum of the corrected events is not negative
the clamp at zero never acts (`CorrectedSum`, `RepairedSum`). The cursor of the
latency is zero until the checkpoints are merged, where it starts anew
(`AtLatency`). A destructive version runs only after a backup of the tables as they
are (`BackedUp`). The sums themselves are handled by three facts: the total of a
union without common events, of a column that is the sum of two others, and of
nothing.

`OrdersProofs` has the facts about sequences these proofs share: filtering and
appending keep `Ascending`, `InOrder` of a finite set exists and has its elements
once each, a finite set has a list along any order of it, and what is true of
the last index reached is true of the whole list. The inductions over lists and
sets are made by the largest index for which a statement holds.

Only model-checked, with the reason:

- all liveness (`BacklogDrains`, `ShutdownTerminates`, `EveryRowSettles`,
  `EventsReachRollups`, `EventsReachIdentities`, `Converges`, `EveryTaskSettles`,
  `AutoRoundEnds`): fairness and ENABLED are out of the prover's reach.

## Not modelled

- Token arithmetic of arriving messages, and the arithmetic of buckets and latency
  sketches: sequential functions of one event that unit tests reach.
- Breakdowns by dimension, quota efficiency reports, exports, formatting, the
  HTTP routing and the web frontend: they read and present.
- The array index that addresses a provider key at CPA; the limit of ten bulk
  workers.
- VACUUM, the ranking of price list entries, analysis of "today" and "yesterday",
  and the calendar of automatic refreshes and its settings (a round may start at any moment).
- The string pool of the recent-event cache, which only saves memory.
- Configuration, logging, the update check, benchmarks.

`PROJECT.json` has the status of each component.

## Plan

Done: the path of an event (ingest, inbox, aggregation), metadata sync, the
quota modules, sessions, queries and caches, error ingest, backup, pricing,
migrations, resets; the refinement of `CommitFeed`; the proofs above.

Left to model: the array index of provider keys in `MetadataSync`.

All invariants and action properties of the passing runs are proved; what is left
is liveness, which stays with TLC.
