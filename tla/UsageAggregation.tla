-------------------------- MODULE UsageAggregation --------------------------
(***************************************************************************)
(* Aggregation of committed usage events: internal/poller's                *)
(* UsageAggregationRunner, the checkpoint, page and identity transactions  *)
(* of internal/repository it runs, and the archive that moves old events   *)
(* out of the hot table.                                                   *)
(*                                                                         *)
(* usage_events ids come from AUTOINCREMENT, so the events ever committed  *)
(* are 1..lastId.  Three rollups (overview, activity, latency) each have a *)
(* durable cursor that advances in the transaction that writes their rows. *)
(* Identity totals have a cursor per identity row.  The runner keeps its   *)
(* targets only in memory; the process may crash between any two steps.    *)
(*                                                                         *)
(* rows[R][e] counts how often event e was added to rollup R, and irows[e] *)
(* how often it was added to the totals of its identity: the numbers the   *)
(* dashboards show are sums over these.                                    *)
(***************************************************************************)
EXTENDS Integers, FiniteSets

CONSTANTS
    MaxEvents,        \* bound on committed events
    MaxIdentities,    \* bound on identity rows
    PageSize,         \* usageAggregationEventPageSize (1000)
    IdentityPageSize, \* UsageIdentityAggregationBatchSize (25)
    MaxArrivals,      \* bound on inbox arrivals that make the runner wait
    MaxFaults         \* bound on failed database calls and crashes

ASSUME AggregationAssumption ==
    /\ MaxEvents \in Nat /\ MaxIdentities \in Nat \ {0}
    /\ PageSize \in Nat \ {0} /\ IdentityPageSize \in Nat \ {0}
    /\ MaxArrivals \in Nat /\ MaxFaults \in Nat

Rollups == {"overview", "activity", "latency"}
Events == 1..MaxEvents
Identities == 1..MaxIdentities

VARIABLES
    \* the database
    lastId,       \* newest usage_events id
    archived,     \* events that left the hot table
    cursor,       \* usage_aggregation_checkpoints
    rows,         \* rollup -> event -> times added
    owner,        \* the identity each event belongs to
    identities,   \* number of usage_identities rows; row ids are 1..identities
    icursor,      \* last_aggregated_usage_event_id of each identity
    irows,        \* event -> times added to its identity's totals
    inbox,        \* HasProcessableRedisUsageInbox
    \* memory of the runner, guarded by its mutex
    nextKind, activeRound, activeTarget, reached, pending,
    identityAfter, targetGen, scanGen, wake,
    \* the runner's goroutine
    pc, timer, kind, tgt, passGen, snap, shared, todo, page, errs, deferred,
                  \* todo: the rollups the turn has not dealt with yet
    \* its callers
    owed,         \* newest event committed whose notification is still to come
    identityOwed, \* identity rows changed and the runner not told yet
    \* history
    orphaned,     \* events archived before their identity row existed
    arrivals, faults

db      == <<lastId, archived, cursor, rows, owner, identities, icursor, irows, inbox>>
targets == <<activeRound, activeTarget, reached, pending>>
scan    == <<identityAfter, targetGen, scanGen>>
turn    == <<kind, tgt, passGen, snap, shared, todo, page, errs, deferred>>
callers == <<owed, identityOwed>>
hist    == <<orphaned, arrivals, faults>>
vars    == <<lastId, archived, cursor, rows, owner, identities, icursor, irows, inbox,
             nextKind, activeRound, activeTarget, reached, pending,
             identityAfter, targetGen, scanGen, wake,
             pc, timer, kind, tgt, passGen, snap, shared, todo, page, errs, deferred,
             owed, identityOwed, orphaned, arrivals, faults>>

Max2(a, b) == IF a < b THEN b ELSE a
FaultAllowed == faults < MaxFaults

\* The hot table usage_events, and COALESCE(MAX(id), 0) of it.
Hot == (1..lastId) \ archived
IsMaxHot(m) == /\ m \in Hot \cup {0}
               /\ \A e \in Hot : e <= m

\* LoadUsageAggregationEventPage: the first PageSize hot events in (after, target].
InPage(after, target, last) == {e \in Hot : after < e /\ e <= last /\ e <= target}
IsPage(p, after, target) ==
    \/ /\ p = {}
       /\ InPage(after, target, target) = {}
    \/ \E last \in Hot :
         /\ after < last /\ last <= target
         /\ p = InPage(after, target, last)
         /\ \/ Cardinality(p) = PageSize
            \/ Cardinality(p) < PageSize /\ p = InPage(after, target, target)
LastOf(p) == CHOOSE e \in p : \A x \in p : x <= e

\* hasPendingUsageIdentityAggregation
Delta(i) == {e \in Hot : owner[e] = i /\ icursor[i] < e}
PendingIdentity == \E i \in 1..identities : Delta(i) # {}
-----------------------------------------------------------------------------
\* The variables of a turn that is over.
NoTurn ==
    /\ kind' = "rollups" /\ tgt' = 0 /\ passGen' = 0
    /\ snap' = [R \in Rollups |-> 0] /\ shared' = FALSE /\ todo' = {}
    /\ page' = {} /\ errs' = FALSE /\ deferred' = FALSE

\* The memory of a new process (NewUsageAggregationRunnerWithOptions).
FreshMemory ==
    /\ nextKind' = "rollups" /\ activeRound' = FALSE
    /\ activeTarget' = 0 /\ reached' = FALSE /\ pending' = 0
    /\ identityAfter' = 0 /\ targetGen' = 1 /\ scanGen' = 0 /\ wake' = FALSE
    /\ timer' = FALSE

Init ==
    /\ lastId = 0 /\ archived = {}
    /\ cursor = [R \in Rollups |-> 0]
    /\ rows = [R \in Rollups |-> [e \in Events |-> 0]]
    /\ owner \in [Events -> Identities]
    /\ identities = 0
    /\ icursor = [i \in Identities |-> 0]
    /\ irows = [e \in Events |-> 0]
    /\ inbox = FALSE
    /\ nextKind = "rollups" /\ activeRound = FALSE
    /\ activeTarget = 0 /\ reached = FALSE /\ pending = 0
    /\ identityAfter = 0 /\ targetGen = 1 /\ scanGen = 0 /\ wake = FALSE
    /\ pc = "down" /\ timer = FALSE
    /\ kind = "rollups" /\ tgt = 0 /\ passGen = 0
    /\ snap = [R \in Rollups |-> 0] /\ shared = FALSE /\ todo = {}
    /\ page = {} /\ errs = FALSE /\ deferred = FALSE
    /\ owed = 0 /\ identityOwed = FALSE
    /\ orphaned = {} /\ arrivals = 0 /\ faults = 0
-----------------------------------------------------------------------------
(***************************************************************************)
(* The runner's callers and the rest of the process.                       *)
(***************************************************************************)

\* The process runner turns inbox rows into events (the inbox may or may not
\* hold more of them).  Batches are notified one by one: the next transaction
\* starts after the previous notification.  CommitFeed states this contract.
CommitEvents ==
    /\ pc # "down" /\ owed = 0
    /\ \E k \in 1..2 :
         /\ lastId + k <= MaxEvents
         /\ lastId' = lastId + k
         /\ owed' = lastId + k
    /\ inbox' \in BOOLEAN
    /\ UNCHANGED <<archived, cursor, rows, owner, identities, icursor, irows, nextKind,
                   targets, scan, wake, pc, timer, turn, identityOwed, hist>>

\* Mutant: a commit raises the rollup target but not the identity generation.
NotifyRollupsOnly ==
    /\ pc # "down" /\ owed > 0
    /\ pending' = Max2(pending, owed)
    /\ wake' = TRUE
    /\ owed' = 0
    /\ UNCHANGED <<db, nextKind, activeRound, activeTarget, reached,
                   scan, pc, timer, turn, identityOwed, hist>>

NotifyUsageEventsCommitted ==
    /\ pc # "down" /\ owed > 0
    /\ pending' = Max2(pending, owed)
    /\ targetGen' = targetGen + 1
    /\ wake' = TRUE
    /\ owed' = 0
    /\ UNCHANGED <<db, nextKind, activeRound, activeTarget, reached,
                   identityAfter, scanGen, pc, timer, turn, identityOwed, hist>>

\* Metadata sync stores a new identity row ...
NewIdentity ==
    /\ pc # "down" /\ identities < MaxIdentities
    /\ identities' = identities + 1
    /\ identityOwed' = TRUE
    /\ UNCHANGED <<lastId, archived, cursor, rows, owner, icursor, irows, inbox, nextKind,
                   targets, scan, wake, pc, timer, turn, owed, hist>>

\* ... and tells the runner once a sync has persisted all three kinds.
NotifyUsageIdentitiesChanged ==
    /\ pc # "down" /\ identityOwed
    /\ targetGen' = targetGen + 1
    /\ wake' = TRUE
    /\ identityOwed' = FALSE
    /\ UNCHANGED <<db, nextKind, targets, identityAfter, scanGen, pc, timer, turn, owed, hist>>

\* CPA messages reach the inbox; or they are settled without an event.
InboxFills ==
    /\ ~inbox /\ arrivals < MaxArrivals
    /\ inbox' = TRUE
    /\ arrivals' = arrivals + 1
    /\ UNCHANGED <<lastId, archived, cursor, rows, owner, identities, icursor, irows,
                   nextKind, targets, scan, wake, pc, timer, turn, callers, orphaned, faults>>

InboxDrains ==
    /\ inbox
    /\ inbox' = FALSE
    /\ UNCHANGED <<lastId, archived, cursor, rows, owner, identities, icursor, irows,
                   nextKind, targets, scan, wake, pc, timer, turn, callers, hist>>

\* Mutant: the archive looks at one rollup only.
CaughtUpInOverview ==
    /\ \A e \in Hot : e <= cursor["overview"]
    /\ ~PendingIdentity

\* Mutant: the archive does not look at the identity totals.
CaughtUpInRollups == \A R \in Rollups : \A e \in Hot : e <= cursor[R]

\* usageEventAggregationsCaughtUp
CaughtUp ==
    /\ \A R \in Rollups : \A e \in Hot : e <= cursor[R]
    /\ ~PendingIdentity

\* archiveExpiredUsageEventsBatch: expired events are chosen by timestamp,
\* which says nothing of their ids.
ArchiveExpiredUsageEvents ==
    /\ pc # "down"
    /\ CaughtUp
    /\ \E S \in SUBSET Hot \ {{}} :
         /\ archived' = archived \cup S
         /\ orphaned' = orphaned \cup {e \in S : owner[e] > identities}
    /\ UNCHANGED <<lastId, cursor, rows, owner, identities, icursor, irows, inbox,
                   nextKind, targets, scan, wake, pc, timer, turn, callers, arrivals, faults>>

Crash ==
    /\ pc # "down" /\ FaultAllowed
    /\ pc' = "down"
    /\ FreshMemory /\ NoTurn
    /\ owed' = 0 /\ identityOwed' = FALSE
    /\ faults' = faults + 1
    /\ UNCHANGED <<db, orphaned, arrivals>>

Boot ==
    /\ pc = "down"
    /\ pc' = "startup"
    /\ UNCHANGED <<db, nextKind, targets, scan, wake, timer, turn, callers, hist>>
-----------------------------------------------------------------------------
(***************************************************************************)
(* Run: the startup target, the debounce timer, waiting.                   *)
(***************************************************************************)

LoadStartupTarget ==
    /\ pc = "startup"
    /\ \E m \in Hot \cup {0} : IsMaxHot(m) /\ tgt' = m
    /\ pc' = "startupLock"
    /\ UNCHANGED <<db, nextKind, targets, scan, wake, timer, kind, passGen, snap, shared,
                   todo, page, errs, deferred, callers, hist>>

\* Mutant: the startup target replaces what was notified meanwhile.
SetStartupTargetAlone ==
    /\ pc = "startupLock"
    /\ activeRound' = TRUE
    /\ activeTarget' = tgt
    /\ reached' = (tgt = 0)
    /\ pending' = 0
    /\ pc' = "loop"
    /\ NoTurn
    /\ UNCHANGED <<db, nextKind, scan, wake, timer, callers, hist>>

\* The second half of ensureStartupTarget, under the lock: notifications may
\* have arrived since MAX(id) was read.
SetStartupTarget ==
    /\ pc = "startupLock"
    /\ activeRound' = TRUE
    /\ activeTarget' = tgt
    /\ reached' = (tgt = 0)
    /\ pending' = IF pending <= tgt THEN 0 ELSE pending
    /\ pc' = "loop"
    /\ NoTurn
    /\ UNCHANGED <<db, nextKind, scan, wake, timer, callers, hist>>

IdentityWorkPending == identityAfter # 0 \/ scanGen < targetGen
HasRunnableWork == activeRound \/ IdentityWorkPending
PendingRollupWindow == pending > 0 /\ (~activeRound \/ pending > activeTarget)

LoopTop ==
    /\ pc = "loop"
    /\ timer' = (timer \/ PendingRollupWindow)
    /\ pc' = IF HasRunnableWork THEN "turn" ELSE "idle"
    /\ UNCHANGED <<db, nextKind, targets, scan, wake, turn, callers, hist>>

\* Mutant: a target that comes up during a round is dropped.
FreezeIdleTarget ==
    /\ pc \in {"turn", "idle"} /\ timer
    /\ timer' = FALSE
    /\ pc' = "loop"
    /\ IF pending > 0 /\ ~activeRound
         THEN /\ activeRound' = TRUE /\ activeTarget' = pending
              /\ reached' = FALSE
         ELSE UNCHANGED <<activeRound, activeTarget, reached>>
    /\ pending' = 0
    /\ UNCHANGED <<db, nextKind, scan, wake, turn, callers, hist>>

\* The debounce timer fires: seen between two turns or while waiting.
FreezePendingTarget ==
    /\ pc \in {"turn", "idle"} /\ timer
    /\ timer' = FALSE
    /\ pc' = "loop"
    /\ IF pending > 0 /\ (~activeRound \/ pending > activeTarget)
         THEN /\ activeRound' = TRUE /\ activeTarget' = pending
              /\ reached' = FALSE
         ELSE UNCHANGED <<activeRound, activeTarget, reached>>
    /\ pending' = 0
    /\ UNCHANGED <<db, nextKind, scan, wake, turn, callers, hist>>

WakeUp ==
    /\ pc = "idle" /\ wake
    /\ wake' = FALSE
    /\ pc' = "loop"
    /\ UNCHANGED <<db, nextKind, targets, scan, timer, turn, callers, hist>>

\* waitForRetry ends with its timer or with a wake-up it consumes.
RetryDelayEnds ==
    /\ pc = "wait"
    /\ wake' \in {wake, FALSE}
    /\ pc' = "loop"
    /\ UNCHANGED <<db, nextKind, targets, scan, timer, turn, callers, hist>>

\* The error path of Run with advanceAfterFailure.
TurnFails ==
    /\ nextKind' = IF kind = "rollups" THEN "identity" ELSE "rollups"
    /\ pc' = "wait"
    /\ NoTurn
-----------------------------------------------------------------------------
(***************************************************************************)
(* runPreparedOnce.                                                        *)
(***************************************************************************)

NextRunnableKind ==
    IF activeRound /\ IdentityWorkPending THEN nextKind
    ELSE IF activeRound THEN "rollups" ELSE "identity"

\* Everything a turn uses is captured under the lock before it starts.
BeginTurn ==
    /\ pc = "turn"
    /\ kind' = NextRunnableKind
    /\ tgt' = activeTarget
    /\ passGen' = IF NextRunnableKind = "identity" /\ IdentityWorkPending /\ identityAfter = 0
                    THEN targetGen ELSE scanGen
    /\ errs' = FALSE /\ deferred' = FALSE
    /\ pc' = "inbox"
    /\ UNCHANGED <<db, nextKind, targets, scan, wake, timer, snap, shared, todo, page,
                   callers, hist>>

CheckInbox ==
    /\ pc = "inbox"
    /\ IF inbox
         THEN pc' = "wait" /\ NoTurn
         ELSE pc' = (IF kind = "rollups" THEN "snap" ELSE "identity") /\ UNCHANGED turn
    /\ UNCHANGED <<db, nextKind, targets, scan, wake, timer, callers, hist>>

\* A query outside the per-rollup steps fails.
QueryFails ==
    /\ pc \in {"inbox", "snap", "identity"} /\ FaultAllowed
    /\ faults' = faults + 1
    /\ TurnFails
    /\ UNCHANGED <<db, targets, scan, wake, timer, callers, orphaned, arrivals>>

\* runRollupsTurn: the snapshot of the three cursors decides between being
\* done, one shared page for all three, and a page of its own for each rollup
\* that lags.  A shared page that is empty is an error.
LoadSnapshot ==
    /\ pc = "snap"
    /\ LET lagging == {R \in Rollups : cursor[R] < tgt}
           equal   == \A R, Q \in Rollups : cursor[R] = cursor[Q]
           Go(next, p) == /\ pc' = next /\ page' = p
                          /\ snap' = cursor /\ shared' = equal /\ todo' = lagging
                          /\ UNCHANGED <<nextKind, kind, tgt, passGen, errs, deferred>>
       IN  \/ lagging = {} /\ Go("finish", {})
           \/ lagging # {} /\ ~equal /\ Go("load", {})
           \/ /\ lagging # {} /\ equal
              /\ \E p \in SUBSET Hot :
                   /\ IsPage(p, cursor["overview"], tgt)
                   /\ IF p = {} THEN TurnFails ELSE Go("defer", p)
    /\ UNCHANGED <<db, targets, scan, wake, timer, callers, hist>>

\* The rollups of a turn are dealt with in a fixed order.
Current ==
    IF "overview" \in todo THEN "overview"
    ELSE IF "activity" \in todo THEN "activity" ELSE "latency"

\* What follows the work on one rollup of the turn.
NextRollup ==
    /\ todo' = todo \ {Current}
    /\ pc' = IF todo \ {Current} = {} THEN "finish" ELSE IF shared THEN "defer" ELSE "load"

\* Mutant: a rollup that lags is given the page of the overview.
LoadPageOfOverview ==
    /\ pc = "load"
    /\ \E p \in SUBSET Hot :
         /\ IsPage(p, snap["overview"], tgt)
         /\ page' = p
         /\ IF p = {}
              THEN errs' = TRUE /\ NextRollup
              ELSE pc' = "defer" /\ UNCHANGED <<errs, todo>>
    /\ UNCHANGED <<db, nextKind, targets, scan, wake, timer, kind, tgt, passGen, snap,
                   shared, deferred, callers, hist>>

\* runFallbackRollupsPages loads a page per rollup; an empty one is an error.
LoadPage ==
    /\ pc = "load"
    /\ \E p \in SUBSET Hot :
         /\ IsPage(p, snap[Current], tgt)
         /\ page' = p
         /\ IF p = {}
              THEN errs' = TRUE /\ NextRollup
              ELSE pc' = "defer" /\ UNCHANGED <<errs, todo>>
    /\ UNCHANGED <<db, nextKind, targets, scan, wake, timer, kind, tgt, passGen, snap,
                   shared, deferred, callers, hist>>

\* deferForInbox before every write: the turn stops, keeping what it wrote.
DeferForInbox ==
    /\ pc = "defer"
    /\ deferred' = inbox
    /\ pc' = IF inbox THEN "finish" ELSE "apply"
    /\ UNCHANGED <<db, nextKind, targets, scan, wake, timer, kind, tgt, passGen, snap,
                   shared, todo, page, errs, callers, hist>>

\* Apply...AggregationPage with AdvanceUsageAggregationCheckpoint: rows and
\* cursor in one transaction, conditional on the cursor the page started from.
ApplyPage ==
    /\ pc = "apply"
    /\ LET R == Current IN
         IF cursor[R] = snap[R] /\ LastOf(page) > snap[R]
           THEN /\ rows' = [rows EXCEPT ![R] = [e \in Events |->
                               IF e \in page THEN rows[R][e] + 1 ELSE rows[R][e]]]
                /\ cursor' = [cursor EXCEPT ![R] = LastOf(page)]
                /\ snap' = [snap EXCEPT ![R] = LastOf(page)]
                /\ UNCHANGED errs
           ELSE errs' = TRUE /\ UNCHANGED <<rows, cursor, snap>>
    /\ NextRollup
    /\ UNCHANGED <<lastId, archived, owner, identities, icursor, irows, inbox, nextKind,
                   targets, scan, wake, timer, kind, tgt, passGen, shared, page, deferred,
                   callers, hist>>

\* A page cannot be loaded, built or written: only its rollup is skipped; if
\* the inbox check fails the turn ends.
PageFails ==
    /\ pc \in {"load", "defer", "apply"} /\ FaultAllowed
    /\ faults' = faults + 1
    /\ errs' = TRUE
    /\ IF pc = "defer" THEN pc' = "finish" /\ UNCHANGED todo ELSE NextRollup
    /\ UNCHANGED <<db, nextKind, targets, scan, wake, timer, kind, tgt, passGen, snap,
                   shared, page, deferred, callers, orphaned, arrivals>>

ReachedTarget == ~deferred /\ \A R \in Rollups : snap[R] >= tgt

\* The end of a rollups turn, with completeRollupRoundIfReadyLocked.
RoundDone == activeRound /\ (reached \/ (activeTarget = tgt /\ ReachedTarget))

FinishRollups ==
    /\ pc = "finish"
    /\ IF errs
         THEN TurnFails /\ UNCHANGED targets
         ELSE /\ nextKind' = "identity"
              /\ pc' = IF deferred THEN "wait" ELSE "loop"
              /\ NoTurn
              /\ IF RoundDone
                   THEN /\ activeRound' = FALSE /\ activeTarget' = 0 /\ reached' = FALSE
                        /\ pending' = IF pending <= activeTarget THEN 0 ELSE pending
                   ELSE UNCHANGED <<activeRound, activeTarget, reached, pending>>
    /\ UNCHANGED <<db, scan, wake, timer, callers, hist>>

\* AggregateUsageIdentityStatsBatch and the paging state after it: one page of
\* identity rows, each brought up to its newest hot event, in one transaction.
AggregateIdentities ==
    /\ pc = "identity"
    /\ LET last == IF identityAfter + IdentityPageSize < identities
                     THEN identityAfter + IdentityPageSize ELSE identities
           ids  == (identityAfter + 1)..last
           new  == {e \in Hot : owner[e] \in ids /\ icursor[owner[e]] < e}
       IN  /\ irows' = [e \in Events |-> IF e \in new THEN irows[e] + 1 ELSE irows[e]]
           /\ icursor' = [i \in Identities |->
                            IF i \in ids /\ Delta(i) # {} THEN LastOf(Delta(i)) ELSE icursor[i]]
           /\ identityAfter' = IF Cardinality(ids) < IdentityPageSize THEN 0 ELSE last
    /\ scanGen' = passGen
    /\ nextKind' = "rollups"
    /\ pc' = "loop"
    /\ NoTurn
    /\ UNCHANGED <<lastId, archived, cursor, rows, owner, identities, inbox, targets,
                   targetGen, wake, timer, callers, hist>>
-----------------------------------------------------------------------------
Runner ==
    \/ LoadStartupTarget \/ SetStartupTarget \/ LoopTop \/ WakeUp \/ RetryDelayEnds
    \/ BeginTurn \/ CheckInbox \/ QueryFails
    \/ LoadSnapshot \/ LoadPage \/ DeferForInbox \/ ApplyPage \/ PageFails \/ FinishRollups
    \/ AggregateIdentities

Notifications == NotifyUsageEventsCommitted \/ NotifyUsageIdentitiesChanged

Next ==
    \/ Runner \/ FreezePendingTarget \/ Notifications
    \/ CommitEvents \/ NewIdentity \/ InboxFills \/ InboxDrains
    \/ ArchiveExpiredUsageEvents \/ Crash \/ Boot

\* The goroutine runs and its calls return; the timer fires; a caller that has
\* committed goes on to notify; the inbox runner settles rows; the supervisor
\* restarts the process.  A metadata sync that fails after it has stored rows
\* need not be repeated (MetadataSync), so nothing is assumed of its notification.
Fairness ==
    /\ WF_vars(Runner) /\ WF_vars(FreezePendingTarget)
    /\ WF_vars(NotifyUsageEventsCommitted)
    /\ WF_vars(InboxDrains) /\ WF_vars(Boot)

Spec == Init /\ [][Next]_vars /\ Fairness
-----------------------------------------------------------------------------
PCs == {"down", "startup", "startupLock", "loop", "turn", "idle", "wait", "inbox",
        "snap", "load", "defer", "apply", "finish", "identity"}
Kinds == {"rollups", "identity"}

DbTypes ==
    /\ lastId \in 0..MaxEvents
    /\ archived \subseteq 1..lastId /\ orphaned \subseteq archived
    /\ cursor \in [Rollups -> Nat]
    /\ rows \in [Rollups -> [Events -> Nat]]
    /\ owner \in [Events -> Identities]
    /\ identities \in 0..MaxIdentities
    /\ icursor \in [Identities -> Nat]
    /\ irows \in [Events -> Nat]

MemoryTypes ==
    /\ nextKind \in Kinds
    /\ activeTarget \in Nat /\ pending \in Nat
    /\ identityAfter \in Nat /\ targetGen \in Nat /\ scanGen \in Nat
    /\ owed \in Nat /\ arrivals \in Nat /\ faults \in Nat

TurnTypes ==
    /\ pc \in PCs /\ kind \in Kinds
    /\ tgt \in Nat /\ passGen \in Nat
    /\ snap \in [Rollups -> Nat]
    /\ todo \subseteq Rollups
    /\ page \subseteq Events

FlagTypes ==
    /\ inbox \in BOOLEAN /\ activeRound \in BOOLEAN /\ reached \in BOOLEAN
    /\ wake \in BOOLEAN /\ timer \in BOOLEAN /\ shared \in BOOLEAN
    /\ errs \in BOOLEAN /\ deferred \in BOOLEAN /\ identityOwed \in BOOLEAN

TypeOK == DbTypes /\ MemoryTypes /\ TurnTypes /\ FlagTypes

(***************************************************************************)
(* Safety.                                                                 *)
(***************************************************************************)

\* Every event is added to every rollup exactly once, at the moment the
\* rollup's cursor passes it: whatever pages, retries, deferrals, fallbacks,
\* crashes and archiving happened in between.
RollupExactlyOnce ==
    \A R \in Rollups : \A e \in Events :
        rows[R][e] = IF e <= cursor[R] THEN 1 ELSE 0

\* The same for the totals of an event's identity, except for events that were
\* archived before the identity row existed.
IdentityExactlyOnce ==
    \A e \in Events :
        irows[e] = IF e <= icursor[owner[e]] /\ e \notin orphaned THEN 1 ELSE 0

\* An event leaves the hot table only after all derived numbers hold it.
ArchivedIsAggregated ==
    \A e \in archived :
        /\ \A R \in Rollups : rows[R][e] = 1
        /\ irows[e] = 1 \/ e \in orphaned

\* No committed event is forgotten by the in-memory targets: until a rollup
\* has it, it is covered by the active round, by the pending target, by a
\* notification still to come, or by a startup that has not looked yet.
EveryCommitIsTargeted ==
    \A R \in Rollups :
        \/ pc \in {"down", "startup"}
        \/ lastId <= cursor[R]
        \/ activeRound /\ lastId <= activeTarget
        \/ lastId <= pending
        \/ lastId <= owed
        \/ pc = "startupLock" /\ lastId <= tgt

(***************************************************************************)
(* Liveness.                                                               *)
(***************************************************************************)

\* Every committed event reaches all three rollups.
EventsReachRollups ==
    \A e \in Events : e <= lastId ~> \A R \in Rollups : e <= cursor[R]

\* Every committed event reaches its identity's totals, once the row exists and
\* the runner knows of it.
EventsReachIdentities ==
    \A e \in Events :
        (e <= lastId /\ owner[e] <= identities)
            ~> (irows[e] = 1 \/ e \in orphaned \/ identityOwed)
=============================================================================
