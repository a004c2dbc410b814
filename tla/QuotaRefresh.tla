---------------------------- MODULE QuotaRefresh ----------------------------
(***************************************************************************)
(* The quota refresh tasks of internal/quota: one in-memory task record    *)
(* per auth index, created by manual refreshes, inspections and scheduled  *)
(* rounds, dispatched to a bounded pool of workers, overwritten by quota   *)
(* values from usage headers, read and expired by the API; the scheduled   *)
(* round; the inspection round; shutdown.                                  *)
(*                                                                         *)
(* A record is a Go pointer: workers and dispatchers keep the pointer they *)
(* were given and compare it with the map's, so a record has an id and a   *)
(* Ref is what they hold.  An id is free again when nothing refers to it.  *)
(***************************************************************************)
EXTENDS Orders

CONSTANTS AuthIndex,    \* the auth files known to the keeper
          Manual,       \* API requests POST /quota/refresh that may overlap
          Inspector,    \* API requests POST /quota/inspection that may overlap
          WorkerLimit,  \* RefreshWorkerLimit
          LateErrors,   \* may a database error end a request that queued a task?
          MaxIds,       \* bound: task records referred to at one time
          MaxEvents     \* bound: requests, rounds, updates and outside changes

ASSUME LimitAssumption ==
    /\ WorkerLimit \in Nat \ {0} /\ LateErrors \in BOOLEAN
    /\ MaxIds \in Nat /\ MaxEvents \in Nat

\* A caller is one kind of request, or the scheduler.
ASSUME CallerAssumption ==
    /\ Manual \cap Inspector = {}
    /\ "auto" \notin Manual \cup Inspector

VARIABLES
    ident,        \* usage_identities: kind of each auth file
    changes,      \* number of changes of each identity so far (history)
    events,       \* requests, rounds, updates and outside changes so far (bound)
    tasks,        \* Service.refreshTasks
    callers,      \* requests and the scheduled round, while they queue tasks
    dispatchers,  \* goroutines running dispatchRefreshTasks
    workers,      \* goroutines holding a slot of refreshWorkerTokens
    inspection,   \* inspectionCompletedAt, inspectionRoundActive, ...AuthIndexSet,
                  \* and whether another inspection was then under way (history)
    autoRunning,  \* autoRefreshRunning
    closing       \* refreshClosing, and refreshContext cancelled

taskVars == <<tasks, callers, dispatchers, workers>>
envVars == <<ident, changes, events>>
vars == <<envVars, taskVars, inspection, autoRunning, closing>>

Scheduler == "auto"
Caller == Manual \cup Inspector \cup {Scheduler}
Sources == {"manual", "inspection", "scheduled", "header"}
Kinds == {"codex", "claude", "disabled", "unsupported"}
Ids == 1..MaxIds
Ref == [id : Ids, a : AuthIndex]
NoTask == [status |-> "none"]
Task == [id : Ids, status : {"queued", "running", "completed", "failed"},
         source : Sources, type : {"codex", "claude"},
         expiry : {"never", "transient", "cacheable", "over"}]

\* The type the quota handler is resolved from; a disabled file is a codex file.
TypeOf(k) == IF k = "claude" THEN "claude" ELSE "codex"
Supported(k) == k \in {"codex", "claude", "disabled"}

IsTask(a) == tasks[a] # NoTask
IsActive(a) == tasks[a].status \in {"queued", "running"}
Holds(ref) == IsTask(ref.a) /\ tasks[ref.a].id = ref.id
Expired(a) == IsTask(a) /\ tasks[a].expiry = "over"

RefsInUse ==
    {w.ref : w \in workers}
    \cup (UNION {Elems(callers[c].made) : c \in Caller})
    \cup (UNION {Elems(d.queue) \cup d.round : d \in dispatchers})
IdsInUse == {tasks[a].id : a \in {b \in AuthIndex : IsTask(b)}} \cup {r.id : r \in RefsInUse}
FreeIds == Ids \ IdsInUse
NewId == CHOOSE i \in FreeIds : \A j \in FreeIds : i <= j

Idle == [pc |-> "idle", want |-> {}, found |-> {}, made |-> <<>>, round |-> {}]
NoInspection == [active |-> FALSE, completed |-> FALSE, overtaken |-> FALSE, round |-> {}]

CallerState == [pc : {"idle", "list", "queue"}, want : SUBSET AuthIndex,
                found : SUBSET (AuthIndex \X {"codex", "claude"}),
                made : Seq(Ref), round : SUBSET AuthIndex]
DispatcherState == [queue : Seq(Ref), round : SUBSET Ref, auto : BOOLEAN]

TypeOK ==
    /\ ident \in [AuthIndex -> Kinds]
    /\ events \in 0..MaxEvents
    /\ changes \in [AuthIndex -> 0..events]
    /\ tasks \in [AuthIndex -> Task \cup {NoTask}]
    /\ callers \in [Caller -> CallerState]
    /\ dispatchers \subseteq DispatcherState
    /\ workers \subseteq [ref : Ref, phase : {"started", "calling"}]
    /\ Cardinality(workers) <= WorkerLimit
    /\ inspection \in [active : BOOLEAN, completed : BOOLEAN, overtaken : BOOLEAN,
                       round : SUBSET AuthIndex]
    /\ autoRunning \in BOOLEAN /\ closing \in BOOLEAN

Init ==
    /\ ident = [a \in AuthIndex |-> "codex"]
    /\ changes = [a \in AuthIndex |-> 0]
    /\ events = 0
    /\ tasks = [a \in AuthIndex |-> NoTask]
    /\ callers = [c \in Caller |-> Idle]
    /\ dispatchers = {}
    /\ workers = {}
    /\ inspection = NoInspection
    /\ autoRunning = FALSE
    /\ closing = FALSE

-----------------------------------------------------------------------------
(* Outside: identities change at CPA, time passes.                         *)

Event == events < MaxEvents /\ events' = events + 1

IdentityChanges(a) ==
    /\ Event
    /\ \E k \in Kinds \ {ident[a]} : ident' = [ident EXCEPT ![a] = k]
    /\ changes' = [changes EXCEPT ![a] = @ + 1]
    /\ UNCHANGED <<taskVars, inspection, autoRunning, closing>>

\* The expiry time of a failed task passes.
TaskExpires(a) ==
    /\ Event
    /\ IsTask(a) /\ tasks[a].expiry \in {"transient", "cacheable"}
    /\ tasks' = [tasks EXCEPT ![a].expiry = "over"]
    /\ UNCHANGED <<ident, changes, callers, dispatchers, workers, inspection, autoRunning, closing>>

-----------------------------------------------------------------------------
(* Operations on the task map, each under refreshMu.                       *)

CleanupExpired(m) ==
    [a \in AuthIndex |-> IF m[a] # NoTask /\ m[a].expiry = "over" THEN NoTask ELSE m[a]]

ClearSettled(m) ==
    [a \in AuthIndex |-> IF m[a] # NoTask /\ m[a].status \in {"completed", "failed"}
                           THEN NoTask ELSE m[a]]

NewTask(source, type) ==
    [id |-> NewId, status |-> "queued", source |-> source, type |-> type, expiry |-> "never"]

Completed(t) == [t EXCEPT !.status = "completed"]
Failed(t, ttl) == [t EXCEPT !.status = "failed", !.expiry = ttl]

\* Only the record itself is written: a pointer the map no longer holds is dropped.
MarkFailed(m, refs, ttl) ==
    [a \in AuthIndex |->
        IF m[a] # NoTask /\ \E r \in refs : r.a = a /\ r.id = m[a].id
          THEN Failed(m[a], ttl) ELSE m[a]]

\* A read of tasks S: every expired task when the cleanup interval is over, else those read.
ReadTasks ==
    /\ \E a \in AuthIndex : Expired(a)
    /\ \/ tasks' = CleanupExpired(tasks)
       \/ \E a \in AuthIndex : Expired(a) /\ tasks' = [tasks EXCEPT ![a] = NoTask]
    /\ UNCHANGED <<envVars, callers, dispatchers, workers, inspection, autoRunning, closing>>

\* A quota value from a usage header replaces the record, unless a task for
\* the same type is active.
HeaderReplaces(a) ==
    /\ Event
    /\ Supported(ident[a])
    /\ ~(IsTask(a) /\ IsActive(a) /\ tasks[a].type = TypeOf(ident[a]))
    /\ FreeIds # {}
    /\ tasks' = [tasks EXCEPT ![a] = Completed(NewTask("header", TypeOf(ident[a])))]
    /\ UNCHANGED <<ident, changes, callers, dispatchers, workers, inspection, autoRunning, closing>>

-----------------------------------------------------------------------------
(* POST /quota/refresh, and the queueing all three kinds of caller share.  *)

Refresh(c) ==
    /\ Event
    /\ callers[c].pc = "idle"
    /\ ~closing
    /\ \E S \in SUBSET AuthIndex \ {{}} :
          callers' = [callers EXCEPT ![c] = [Idle EXCEPT !.pc = "list", !.want = S]]
    /\ tasks' = CleanupExpired(tasks)
    /\ UNCHANGED <<ident, changes, dispatchers, workers, inspection, autoRunning, closing>>

\* hasActiveRefreshTaskByAuthIndex and validateRefreshAuthIndex: the index is
\* rejected, skipped, or kept with the identity that was read.
ValidateNext(c) ==
    /\ callers[c].pc = "list"
    /\ \E a \in callers[c].want :
          callers' = [callers EXCEPT
              ![c].want = @ \ {a},
              ![c].found = IF Supported(ident[a]) /\ ~(IsTask(a) /\ IsActive(a))
                             THEN {<<a, TypeOf(ident[a])>>} ELSE {},
              ![c].pc = IF Supported(ident[a]) /\ ~(IsTask(a) /\ IsActive(a))
                          THEN "queue" ELSE "list"]
    /\ UNCHANGED <<envVars, tasks, dispatchers, workers, inspection, autoRunning, closing>>

SourceOf(c) ==
    IF c \in Manual THEN "manual" ELSE IF c = Scheduler THEN "scheduled" ELSE "inspection"

\* A scheduled round leaves an unexpired 401 or 402 alone.
SkipsCachedError(c, a) ==
    c = Scheduler /\ IsTask(a) /\ tasks[a].status = "failed" /\ tasks[a].expiry = "cacheable"

\* The task is created on the strength of the earlier check alone.
EnsureTaskUnchecked(c) ==
    /\ callers[c].pc = "queue"
    /\ FreeIds # {}
    /\ \E f \in callers[c].found :
          /\ tasks' = [tasks EXCEPT ![f[1]] = NewTask(SourceOf(c), f[2])]
          /\ callers' = [callers EXCEPT
                ![c].found = @ \ {f}, ![c].round = @ \cup {f[1]},
                ![c].pc = IF c \in Manual THEN "list" ELSE "queue",
                ![c].made = Append(@, [id |-> NewId, a |-> f[1]])]
    /\ UNCHANGED <<envVars, dispatchers, workers, inspection, autoRunning, closing>>

\* ensureRefreshTaskWithIdentity: check and creation are one critical section.
EnsureTask(c) ==
    /\ callers[c].pc = "queue"
    /\ \E f \in callers[c].found :
         LET a == f[1]
             rest == callers[c].found \ {f}
             then == IF c \in Manual THEN "list" ELSE "queue"
         IN \/ /\ SkipsCachedError(c, a)
               /\ callers' = [callers EXCEPT ![c].found = rest]
               /\ UNCHANGED tasks
            \/ /\ IsTask(a) /\ IsActive(a)
               /\ callers' = [callers EXCEPT
                     ![c].found = rest, ![c].pc = then,
                     ![c].round = IF tasks[a].source = SourceOf(c) THEN @ \cup {a} ELSE @]
               /\ UNCHANGED tasks
            \/ /\ ~SkipsCachedError(c, a)
               /\ ~(IsTask(a) /\ IsActive(a))
               /\ FreeIds # {}
               /\ tasks' = [tasks EXCEPT ![a] = NewTask(SourceOf(c), f[2])]
               /\ callers' = [callers EXCEPT
                     ![c].found = rest, ![c].pc = then, ![c].round = @ \cup {a},
                     ![c].made = Append(@, [id |-> NewId, a |-> a])]
    /\ UNCHANGED <<envVars, dispatchers, workers, inspection, autoRunning, closing>>

Dispatcher(made, auto) ==
    [queue |-> made, round |-> IF auto THEN Elems(made) ELSE {}, auto |-> auto]

\* startRefreshGoroutine: a closing service fails what was queued instead.
StartDispatcher(c, made) ==
    IF made = <<>>
      THEN UNCHANGED <<dispatchers, tasks>>
      ELSE IF closing
             THEN /\ tasks' = MarkFailed(tasks, Elems(made), "transient")
                  /\ UNCHANGED dispatchers
             ELSE /\ dispatchers' = dispatchers \cup {Dispatcher(made, c = Scheduler)}
                  /\ UNCHANGED tasks

FinishRefresh(c) ==
    /\ callers[c].pc = "list" /\ callers[c].want = {}
    /\ StartDispatcher(c, callers[c].made)
    /\ callers' = [callers EXCEPT ![c] = Idle]
    /\ UNCHANGED <<envVars, workers, inspection, autoRunning, closing>>

\* A database error, or the end of the HTTP request, while validating returns
\* at once: what this request has queued so far is not dispatched.
RefreshFails(c) ==
    /\ callers[c].pc = "list" /\ callers[c].want # {}
    /\ callers[c].made = <<>> \/ LateErrors
    /\ callers' = [callers EXCEPT ![c] = Idle]
    /\ UNCHANGED <<envVars, tasks, dispatchers, workers, inspection, autoRunning, closing>>

-----------------------------------------------------------------------------
(* POST /quota/inspection and GET /quota/inspection.                       *)

\* The completion time of the previous round is kept.
StartInspectionKeepsCompletion(c) ==
    /\ Event
    /\ callers[c].pc = "idle"
    /\ ~closing
    /\ tasks' = ClearSettled(tasks)
    /\ inspection' = [NoInspection EXCEPT !.completed = inspection.completed]
    /\ callers' = [callers EXCEPT ![c] = [Idle EXCEPT !.pc = "list"]]
    /\ UNCHANGED <<ident, changes, dispatchers, workers, autoRunning, closing>>

\* clearSettledRefreshTasks and resetInspectionRound
StartInspection(c) ==
    /\ Event
    /\ callers[c].pc = "idle"
    /\ ~closing
    /\ tasks' = ClearSettled(tasks)
    /\ inspection' = NoInspection
    /\ callers' = [callers EXCEPT ![c] = [Idle EXCEPT !.pc = "list"]]
    /\ UNCHANGED <<ident, changes, dispatchers, workers, autoRunning, closing>>

\* listAutoRefreshAuthFiles: every auth file that is neither deleted nor disabled.
Listed == {<<a, TypeOf(ident[a])>> : a \in {b \in AuthIndex : ident[b] \in {"codex", "claude"}}}

InspectionLists(c) ==
    /\ callers[c].pc = "list"
    /\ tasks' = CleanupExpired(tasks)
    /\ \/ callers' = [callers EXCEPT ![c].pc = "queue", ![c].found = Listed]
       \/ callers' = [callers EXCEPT ![c] = Idle]   \* the query fails
    /\ UNCHANGED <<envVars, dispatchers, workers, inspection, autoRunning, closing>>

\* setInspectionRoundAuthIndexes, then the dispatcher.
DispatchInspection(c) ==
    /\ callers[c].pc = "queue" /\ callers[c].found = {}
    /\ inspection' = [inspection EXCEPT !.active = TRUE, !.round = callers[c].round]
    /\ StartDispatcher(c, callers[c].made)
    /\ callers' = [callers EXCEPT ![c] = Idle]
    /\ UNCHANGED <<envVars, workers, autoRunning, closing>>

InspectionTaskActive(a) ==
    IsTask(a) /\ IsActive(a) /\ tasks[a].source = "inspection"

\* inspectionRoundActiveTaskLocked, over the auth files listed.
InspectionIsRunning ==
    /\ inspection.active /\ ~inspection.completed
    /\ \E f \in Listed : f[1] \in inspection.round /\ InspectionTaskActive(f[1])

InspectionRoundCompleted ==
    /\ inspection.active
    /\ inspection.round # {}
    /\ \/ inspection.completed
       \/ ~\E a \in inspection.round : InspectionTaskActive(a)

\* An inspection has begun and its round is not set yet.
UnderWay == \E c \in Inspector : callers[c].pc # "idle"

\* The first read that finds the round complete records when it completed.
GetInspectionStatus ==
    /\ tasks' = CleanupExpired(tasks)
    /\ \/ /\ ~InspectionIsRunning /\ InspectionRoundCompleted /\ ~inspection.completed
          /\ inspection' = [inspection EXCEPT !.completed = TRUE, !.overtaken = UnderWay]
       \/ /\ InspectionIsRunning \/ ~InspectionRoundCompleted \/ inspection.completed
          /\ UNCHANGED inspection
    /\ UNCHANGED <<envVars, callers, dispatchers, workers, autoRunning, closing>>

-----------------------------------------------------------------------------
(* The scheduled round.  It may fall due at any time.                      *)

\* RunAutoRefresh and beginAutoRefreshRound: skipped while the previous round is active.
RunAutoRefresh ==
    /\ Event
    /\ ~autoRunning
    /\ autoRunning' = TRUE
    /\ tasks' = CleanupExpired(tasks)
    /\ callers' = [callers EXCEPT ![Scheduler] = [Idle EXCEPT !.pc = "list"]]
    /\ UNCHANGED <<ident, changes, dispatchers, workers, inspection, closing>>

\* A failed scan does not release the round.
AutoListsKeepsRound ==
    /\ callers[Scheduler].pc = "list"
    /\ \/ callers' = [callers EXCEPT ![Scheduler].pc = "queue", ![Scheduler].found = Listed]
       \/ callers' = [callers EXCEPT ![Scheduler] = Idle]
    /\ UNCHANGED <<envVars, tasks, dispatchers, workers, inspection, autoRunning, closing>>

AutoLists ==
    /\ callers[Scheduler].pc = "list"
    /\ \/ /\ callers' = [callers EXCEPT ![Scheduler].pc = "queue", ![Scheduler].found = Listed]
          /\ UNCHANGED autoRunning
       \/ /\ callers' = [callers EXCEPT ![Scheduler] = Idle]   \* the query fails
          /\ autoRunning' = FALSE
    /\ UNCHANGED <<envVars, tasks, dispatchers, workers, inspection, closing>>

\* The dispatcher that also monitors the round, or the end of the round at once.
DispatchAuto ==
    /\ callers[Scheduler].pc = "queue" /\ callers[Scheduler].found = {}
    /\ StartDispatcher(Scheduler, callers[Scheduler].made)
    /\ autoRunning' = (callers[Scheduler].made # <<>> /\ ~closing)
    /\ callers' = [callers EXCEPT ![Scheduler] = Idle]
    /\ UNCHANGED <<envVars, workers, inspection, closing>>

-----------------------------------------------------------------------------
(* Dispatchers and workers.                                                *)

\* What a dispatcher leaves when its queue is empty: the monitor of a round.
Remaining(d, queue) ==
    IF queue = <<>> /\ ~d.auto THEN {} ELSE {[d EXCEPT !.queue = queue]}

DispatchNext(d) ==
    /\ d.queue # <<>>
    /\ ~closing
    /\ Cardinality(workers) < WorkerLimit
    /\ workers' = workers \cup {[ref |-> Head(d.queue), phase |-> "started"]}
    /\ dispatchers' = (dispatchers \ {d}) \cup Remaining(d, Tail(d.queue))
    /\ UNCHANGED <<envVars, tasks, callers, inspection, autoRunning, closing>>

\* Only the task at the head of the queue is failed.
DispatchCancelledHead(d) ==
    /\ d.queue # <<>>
    /\ closing
    /\ tasks' = MarkFailed(tasks, {Head(d.queue)}, "transient")
    /\ dispatchers' = (dispatchers \ {d}) \cup Remaining(d, <<>>)
    /\ UNCHANGED <<envVars, callers, workers, inspection, autoRunning, closing>>

\* refreshContext is cancelled, or no goroutine starts any more.
DispatchCancelled(d) ==
    /\ d.queue # <<>>
    /\ closing
    /\ tasks' = MarkFailed(tasks, Elems(d.queue), "transient")
    /\ dispatchers' = (dispatchers \ {d}) \cup Remaining(d, <<>>)
    /\ UNCHANGED <<envVars, callers, workers, inspection, autoRunning, closing>>

RoundActive(d) ==
    \E r \in d.round : Holds(r) /\ IsActive(r.a) /\ tasks[r.a].source = "scheduled"

\* waitForAutoRefreshTasks returns, finishAutoRefreshRound.
MonitorEnds(d) ==
    /\ d.auto /\ d.queue = <<>>
    /\ ~RoundActive(d) \/ closing
    /\ dispatchers' = dispatchers \ {d}
    /\ autoRunning' = FALSE
    /\ UNCHANGED <<envVars, tasks, callers, workers, inspection, closing>>

\* markRefreshTaskRunning leaves alone a task that was replaced or is not
\* queued; check then reads the identity again: a type that is no longer
\* supported deletes the task, an identity that is gone or an error fails it.
\* The slot is released after a pause in which the worker does nothing.
WorkerStarts(w) ==
    LET a == w.ref.a
        mine == Holds(w.ref) /\ tasks[a].status = "queued"
    IN
    /\ w.phase = "started"
    /\ \/ /\ mine /\ Supported(ident[a])
          /\ tasks' = [tasks EXCEPT ![a].status = "running"]
          /\ workers' = (workers \ {w}) \cup {[w EXCEPT !.phase = "calling"]}
       \/ /\ mine /\ ident[a] = "unsupported"
          /\ tasks' = [tasks EXCEPT ![a] = NoTask]
          /\ workers' = workers \ {w}
       \/ /\ mine
          /\ tasks' = MarkFailed(tasks, {w.ref}, "transient")
          /\ workers' = workers \ {w}
       \/ /\ ~mine
          /\ workers' = workers \ {w}
          /\ UNCHANGED tasks
    /\ UNCHANGED <<envVars, callers, dispatchers, inspection, autoRunning, closing>>

\* The provider answers, fails with 401 or 402, fails otherwise or times out.
WorkerFinishes(w) ==
    LET a == w.ref.a IN
    /\ w.phase = "calling"
    /\ \/ tasks' = IF Holds(w.ref) THEN [tasks EXCEPT ![a] = Completed(@)] ELSE tasks
       \/ \E ttl \in {"transient", "cacheable"} : tasks' = MarkFailed(tasks, {w.ref}, ttl)
    /\ workers' = workers \ {w}
    /\ UNCHANGED <<envVars, callers, dispatchers, inspection, autoRunning, closing>>

\* StopRefreshTasks
StopRefreshTasks ==
    /\ ~closing
    /\ closing' = TRUE
    /\ UNCHANGED <<envVars, taskVars, inspection, autoRunning>>

-----------------------------------------------------------------------------
CallerStep(c) ==
    \/ c \in Manual /\ (ValidateNext(c) \/ FinishRefresh(c) \/ RefreshFails(c))
    \/ c \in Inspector /\ (InspectionLists(c) \/ DispatchInspection(c))
    \/ c = Scheduler /\ (AutoLists \/ DispatchAuto)
    \/ EnsureTask(c)

WorkerStep(w) == WorkerStarts(w) \/ WorkerFinishes(w)

Next ==
    \/ \E a \in AuthIndex : IdentityChanges(a) \/ TaskExpires(a) \/ HeaderReplaces(a)
    \/ ReadTasks
    \/ \E c \in Manual : Refresh(c)
    \/ \E c \in Inspector : StartInspection(c)
    \/ \E c \in Caller : CallerStep(c)
    \/ GetInspectionStatus
    \/ RunAutoRefresh
    \/ \E d \in dispatchers : DispatchNext(d) \/ DispatchCancelled(d) \/ MonitorEnds(d)
    \/ \E w \in workers : WorkerStep(w)
    \/ StopRefreshTasks

GoroutineStep ==
    \/ \E c \in Caller : CallerStep(c)
    \/ \E d \in dispatchers : DispatchNext(d) \/ DispatchCancelled(d) \/ MonitorEnds(d)
    \/ \E w \in workers : WorkerStep(w)

\* Every goroutine runs on when it can.  It is enough to ask that of them
\* together: between them they have a bounded number of steps to take, so none
\* is passed over forever.
Fairness == WF_vars(GoroutineStep)

Spec == Init /\ [][Next]_vars /\ Fairness

-----------------------------------------------------------------------------
(* Properties.                                                             *)

Callers(a) == {w \in workers : w.ref.a = a /\ w.phase = "calling"}

\* One auth index is queried upstream by one worker at a time, whichever of
\* manual refresh, inspection and scheduled round asked; only a change of the
\* identity lets a header value displace a running task and another query
\* start beside it (ensureRefreshTaskWithIdentity, markRefreshTaskRunning,
\* mergeUsageHeaderQuotaCache).
NoDuplicateUpstreamCall ==
    \A a \in AuthIndex : changes[a] = 0 => Cardinality(Callers(a)) <= 1

\* When an inspection is reported completed, none of the inspection's own
\* tasks is queued or running, however many inspections were started, overlapped
\* and failed before (inspectionRoundCompletedLocked).  There is one exception:
\* the completion was recorded while another inspection was under way.  That one
\* cleared the mark when it began, queues its tasks after the mark was set, and
\* leaves it (setInspectionRoundAuthIndexes), so they run in a round that is
\* reported completed; the next inspection ends this.
CompletedInspectionIsSettled ==
    inspection.active /\ inspection.completed /\ ~inspection.overtaken
       => ~\E a \in inspection.round : InspectionTaskActive(a)

\* A queued or running task in the map always has a goroutine that will settle
\* it: the request that queued it, a dispatcher or a worker (dispatchRefreshTasks,
\* markQueuedRefreshTasksFailed).
QueuedTaskHasAnOwner ==
    \A a \in AuthIndex : IsTask(a) /\ IsActive(a) =>
        LET r == [id |-> tasks[a].id, a |-> a] IN
        \/ \E c \in Caller : r \in Elems(callers[c].made)
        \/ \E d \in dispatchers : r \in Elems(d.queue)
        \/ \E w \in workers : w.ref = r

\* Every task that is queued settles: it completes, fails, or its record is
\* replaced or removed, also when the service closes first.  (That P leads to
\* ~P is that ~P holds again and again.)
EveryTaskSettles ==
    \A a \in AuthIndex : []<>~(IsTask(a) /\ IsActive(a))

\* The scheduled round ends, so the next one can start (finishAutoRefreshRound
\* on every path of RunAutoRefresh and dispatchAutoRefreshTasks).
AutoRoundEnds == []<>~autoRunning

=============================================================================
