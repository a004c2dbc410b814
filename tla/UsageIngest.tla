---------------------------- MODULE UsageIngest ----------------------------
(***************************************************************************)
(* The usage ingest runner of CodexKeeper: internal/poller's               *)
(* RedisIngestRunner together with its subscription source, its backlog    *)
(* source and the two inbox writers.                                       *)
(*                                                                         *)
(* The runner subscribes to the `usage' channel first, then drains the     *)
(* `usage' backlog with LPOP, then receives live messages in batches that  *)
(* close after one second.  Every batch is written to the SQLite inbox in  *)
(* one transaction, and the write is retried until it succeeds or the      *)
(* process shuts down.                                                     *)
(*                                                                         *)
(* CodexProxy (the broker), the TCP link and SQLite are the environment.   *)
(* A message is a number (its publication order) and has a kind.  `lost'   *)
(* is a history variable: it records which messages left the system        *)
(* without reaching the inbox, and why.                                    *)
(***************************************************************************)
EXTENDS Orders

CONSTANTS
    MaxMsgs,       \* messages the broker publishes
    Kinds,         \* the kinds of message that occur
    BatchSize,     \* RedisIngestRunnerConfig.BatchSize
    MaxFaults,     \* bound on link cuts, failed calls, failed writes and crashes
    MaxShutdowns   \* bound on graceful shutdowns

AllKinds == {"usage", "unsupported", "support", "refresh", "blank"}

ASSUME IngestAssumption ==
    /\ MaxMsgs \in Nat \ {0}
    /\ BatchSize \in Nat \ {0}
    /\ MaxFaults \in Nat
    /\ MaxShutdowns \in Nat
    /\ Kinds \subseteq AllKinds

Ids == 1..MaxMsgs

\* Why a message never became an inbox row although it was published.
Causes == {"link", "reply", "torn", "crash", "shutdown"}

VARIABLES
    kind,       \* the kind of each message, fixed when the run starts
    published,  \* number of messages published so far
    backlog,    \* the broker's `usage' list
    link,       \* the subscription: "none", "up", "cut" (broker has not noticed), "closed"
    stream,     \* messages on the subscription that the runner has not read
    desync,     \* the reader stands inside a RESP value
    pc,         \* where the runner is
    ctxDone,    \* the run context is cancelled
    batch,      \* messages taken from the broker and not yet written
    source,     \* where the batch came from: "pull" or "subscribe"
    recvErr,    \* the batch window ended with an error other than its deadline
    writeCtx,   \* context of the running Insert: "none", "live", "detached"
    inbox,      \* rows of redis_usage_inboxes, in insertion order
    meta,       \* what the metadata runner has been told
    lost,       \* history: message -> cause
    handled,    \* history: messages consumed that are not usage rows
    faults,     \* history: faults so far
    shutdowns   \* history: shutdowns so far

broker == <<kind, published, backlog>>
wire   == <<link, stream, desync>>
run    == <<pc, batch, source, recvErr, writeCtx>>
hist   == <<lost, handled>>
vars   == <<kind, published, backlog, link, stream, desync, pc, ctxDone, batch,
            source, recvErr, writeCtx, inbox, meta, lost, handled, faults, shutdowns>>

PCs == {"connecting", "backfill", "receive", "window", "persist", "inserting",
        "retry", "sleep", "stopped"}

Stored == {inbox[i].id : i \in DOMAIN inbox}
FaultAllowed == faults < MaxFaults
Lose(ids, cause) == lost' = [m \in DOMAIN lost \cup ids |->
                                IF m \in ids THEN cause ELSE lost[m]]
-----------------------------------------------------------------------------
(***************************************************************************)
(* The metadata runner, as far as the ingest runner tells it things.       *)
(***************************************************************************)
MetaInit == [connected |-> FALSE, activated |-> FALSE,
             notificationMode |-> FALSE, refresh |-> FALSE]

NotifyIngestConnected(m) == [m EXCEPT !.connected = TRUE]

MarkRefreshPollingRequired(m) == [m EXCEPT !.notificationMode = FALSE]
MarkRefreshSupported(m) == [m EXCEPT !.notificationMode = TRUE]
\* A refresh before the first connection has been consumed is not queued.
RequestMetadataRefresh(m) == [m EXCEPT !.notificationMode = TRUE,
                                       !.refresh = @ \/ m.activated]

\* The control messages of a batch drive the observer while it is inserted.
\* ClassifyRedisControlMessage treats {"refresh":true} as support as well.
ObserveControls(m, b) ==
    LET ks == {kind[x] : x \in Elems(b)} IN
    IF "refresh" \in ks THEN RequestMetadataRefresh(MarkRefreshSupported(m))
    ELSE IF "support" \in ks THEN MarkRefreshSupported(m)
    ELSE m

\* The places of a batch that hold a message of one of the kinds ks.
Kept(b, ks) == {i \in DOMAIN b : kind[b[i]] \in ks}

\* What ControlAwareRedisInboxWriter hands on: neither blank nor control.
Delegated(b) == Kept(b, {"usage", "unsupported"})

\* What RepositoryRedisInboxWriter stores: supported providers (and payloads
\* that are no JSON, which fail later, at decoding), in the order of the batch.
Rows(b) ==
    LET at == InOrder(Kept(b, {"usage"})) IN
    [i \in DOMAIN at |-> [id |-> b[at[i]], source |-> source]]
-----------------------------------------------------------------------------
Init ==
    /\ kind \in [Ids -> Kinds]
    /\ published = 0
    /\ backlog = <<>>
    /\ link = "none" /\ stream = <<>> /\ desync = FALSE
    /\ pc = "stopped" /\ ctxDone = FALSE
    /\ batch = <<>> /\ source = "pull" /\ recvErr = FALSE /\ writeCtx = "none"
    /\ inbox = <<>>
    /\ meta = MetaInit
    /\ lost = <<>>
    /\ handled = {}
    /\ faults = 0 /\ shutdowns = 0
-----------------------------------------------------------------------------
(***************************************************************************)
(* The environment.                                                        *)
(***************************************************************************)

\* While the broker believes in the subscription it publishes to it and
\* nowhere else; otherwise it appends to the backlog.
Publish ==
    /\ published < MaxMsgs
    /\ published' = published + 1
    /\ \/ /\ link \in {"none", "closed"}
          /\ backlog' = Append(backlog, published + 1)
          /\ UNCHANGED <<stream, lost>>
       \/ /\ link = "up"
          /\ stream' = Append(stream, published + 1)
          /\ UNCHANGED <<backlog, lost>>
       \/ /\ link = "cut"
          /\ Lose({published + 1}, "link")
          /\ UNCHANGED <<backlog, stream>>
    /\ UNCHANGED <<kind, link, desync, run, ctxDone, inbox, meta, handled, faults, shutdowns>>

\* The connection breaks; some suffix of what was in flight never arrives.
CutLink ==
    /\ link = "up" /\ FaultAllowed
    /\ \E n \in 0..Len(stream) :
         /\ stream' = SubSeq(stream, 1, n)
         /\ Lose(Elems(SubSeq(stream, n + 1, Len(stream))), "link")
    /\ link' = "cut"
    /\ faults' = faults + 1
    /\ UNCHANGED <<broker, desync, run, ctxDone, inbox, meta, handled, shutdowns>>

BrokerNoticesCut ==
    /\ link = "cut"
    /\ link' = "closed"
    /\ UNCHANGED <<broker, stream, desync, run, ctxDone, inbox, meta, hist, faults, shutdowns>>

\* The process is started by its supervisor.
Start ==
    /\ pc = "stopped"
    /\ pc' = "connecting"
    /\ ctxDone' = FALSE
    /\ meta' = MetaInit
    /\ UNCHANGED <<broker, wire, batch, source, recvErr, writeCtx, inbox, hist, faults, shutdowns>>

\* App.Close cancels the context every background task runs under.
Shutdown ==
    /\ pc # "stopped" /\ ~ctxDone
    /\ shutdowns < MaxShutdowns
    /\ ctxDone' = TRUE
    /\ shutdowns' = shutdowns + 1
    /\ UNCHANGED <<broker, wire, run, inbox, meta, hist, faults>>

\* The process dies: what it had read and not committed is gone.
Crash ==
    /\ pc # "stopped" /\ FaultAllowed
    /\ Lose(Elems(batch) \cup Elems(stream), "crash")
    /\ link' = "none" /\ stream' = <<>> /\ desync' = FALSE
    /\ pc' = "stopped" /\ batch' = <<>> /\ recvErr' = FALSE /\ writeCtx' = "none"
    /\ faults' = faults + 1
    /\ UNCHANGED <<broker, ctxDone, source, inbox, meta, handled, shutdowns>>

\* The metadata runner consumes the connection signal.
MetadataRunnerActivates ==
    /\ pc # "stopped" /\ meta.connected
    /\ meta' = [meta EXCEPT !.connected = FALSE, !.activated = TRUE]
    /\ UNCHANGED <<broker, wire, run, ctxDone, inbox, hist, faults, shutdowns>>
-----------------------------------------------------------------------------
(***************************************************************************)
(* RedisIngestRunner.                                                      *)
(***************************************************************************)

\* consume returns: the subscription is closed and Run either ends or goes to
\* sleep before the next attempt.  `gone' are messages lost on the way out.
Leave(gone, cause) ==
    /\ lost' = [m \in DOMAIN lost \cup gone \cup Elems(stream) |->
                   IF m \in gone THEN cause
                   ELSE IF m \in Elems(stream) THEN "link" ELSE lost[m]]
    /\ link' = "none" /\ stream' = <<>> /\ desync' = FALSE
    /\ recvErr' = FALSE
    /\ IF ctxDone
         THEN pc' = "stopped" /\ UNCHANGED meta
         ELSE pc' = "sleep" /\ meta' = MarkRefreshPollingRequired(meta)

Subscribe ==
    /\ pc = "connecting" /\ ~ctxDone
    /\ link' = "up" /\ stream' = <<>> /\ desync' = FALSE
    /\ meta' = NotifyIngestConnected(meta)
    /\ pc' = "backfill"
    /\ UNCHANGED <<broker, ctxDone, batch, source, recvErr, writeCtx, inbox, hist, faults,
                   shutdowns>>

SubscribeFails ==
    /\ pc = "connecting" /\ ~ctxDone /\ FaultAllowed
    /\ faults' = faults + 1
    /\ meta' = MarkRefreshPollingRequired(meta)
    /\ pc' = "sleep"
    /\ UNCHANGED <<broker, wire, ctxDone, batch, source, recvErr, writeCtx, inbox, hist, shutdowns>>

\* Run's loop test, and the interrupted sleep between two attempts.
RunEnds ==
    /\ pc \in {"connecting", "sleep"} /\ ctxDone
    /\ pc' = "stopped"
    /\ UNCHANGED <<broker, wire, ctxDone, batch, source, recvErr, writeCtx, inbox, meta, hist,
                   faults, shutdowns>>

ReconnectDelayEnds ==
    /\ pc = "sleep" /\ ~ctxDone
    /\ pc' = "connecting"
    /\ UNCHANGED <<broker, wire, ctxDone, batch, source, recvErr, writeCtx, inbox, meta, hist,
                   faults, shutdowns>>

\* LPOP usage <BatchSize>: an empty answer goes through persist as a no-op
\* and, being short, ends the backfill.
Pull ==
    /\ pc = "backfill" /\ ~ctxDone
    /\ LET n == IF Len(backlog) < BatchSize THEN Len(backlog) ELSE BatchSize IN
         /\ batch' = SubSeq(backlog, 1, n)
         /\ backlog' = SubSeq(backlog, n + 1, Len(backlog))
         /\ pc' = IF n = 0 THEN "receive" ELSE "persist"
    /\ source' = "pull"
    /\ UNCHANGED <<kind, published, wire, ctxDone, recvErr, writeCtx, inbox, meta, hist, faults,
                   shutdowns>>

\* The backlog cannot be read, or its answer is lost after the LPOP was done.
PullFails ==
    /\ pc = "backfill" /\ ~ctxDone /\ FaultAllowed
    /\ faults' = faults + 1
    /\ \/ Leave({}, "link") /\ UNCHANGED backlog
       \/ LET n == IF Len(backlog) < BatchSize THEN Len(backlog) ELSE BatchSize IN
            /\ Leave(Elems(SubSeq(backlog, 1, n)), "reply")
            /\ backlog' = SubSeq(backlog, n + 1, Len(backlog))
    /\ UNCHANGED <<kind, published, ctxDone, batch, source, writeCtx, inbox, handled, shutdowns>>

\* A blank payload is skipped inside Receive.
ReceiveSkipsBlank ==
    /\ pc \in {"receive", "window"} /\ ~ctxDone /\ ~desync
    /\ stream # <<>> /\ kind[Head(stream)] = "blank"
    /\ stream' = Tail(stream)
    /\ handled' = handled \cup {Head(stream)}
    /\ UNCHANGED <<broker, link, desync, run, ctxDone, inbox, meta, lost, faults, shutdowns>>

\* Mutant: a batch is built back to front.
ReceivePrepends ==
    /\ pc \in {"receive", "window"} /\ ~ctxDone /\ ~desync
    /\ stream # <<>> /\ kind[Head(stream)] # "blank"
    /\ batch' = <<Head(stream)>> \o batch
    /\ stream' = Tail(stream)
    /\ pc' = IF Len(batch) + 1 >= BatchSize THEN "persist" ELSE "window"
    /\ source' = "subscribe"
    /\ recvErr' = FALSE
    /\ UNCHANGED <<broker, link, desync, ctxDone, writeCtx, inbox, meta, hist, faults, shutdowns>>

\* The first message of a batch opens the window; the batch closes when full.
Receive ==
    /\ pc \in {"receive", "window"} /\ ~ctxDone /\ ~desync
    /\ stream # <<>> /\ kind[Head(stream)] # "blank"
    /\ batch' = Append(batch, Head(stream))
    /\ stream' = Tail(stream)
    /\ pc' = IF Len(batch) + 1 >= BatchSize THEN "persist" ELSE "window"
    /\ source' = "subscribe"
    /\ recvErr' = FALSE
    /\ UNCHANGED <<broker, link, desync, ctxDone, writeCtx, inbox, meta, hist, faults, shutdowns>>

\* Mutant: Receive does not look at the run context.
ReceiveIgnoresShutdown == desync \/ (stream = <<>> /\ link \in {"cut", "closed"})

ReceiveBroken == desync \/ (stream = <<>> /\ link \in {"cut", "closed"}) \/ ctxDone

ReceiveFails ==
    /\ pc = "receive" /\ ReceiveBroken
    /\ Leave({}, "link")
    /\ UNCHANGED <<broker, ctxDone, batch, source, writeCtx, inbox, handled, faults, shutdowns>>

WindowFails ==
    /\ pc = "window" /\ ReceiveBroken
    /\ pc' = "persist" /\ recvErr' = TRUE
    /\ UNCHANGED <<broker, wire, ctxDone, batch, source, writeCtx, inbox, meta, hist, faults,
                   shutdowns>>

WindowCloses ==
    /\ pc = "window"
    /\ pc' = "persist" /\ recvErr' = FALSE
    /\ UNCHANGED <<broker, wire, ctxDone, batch, source, writeCtx, inbox, meta, hist, faults,
                   shutdowns>>

\* The window's deadline fires while a message is partly read.  The bytes read
\* are gone: the reader either resumes between two elements of the message (and
\* skips the rest of it) or inside one (and fails at the next read).
WindowClosesInsideMessage ==
    /\ pc = "window" /\ ~ctxDone /\ ~desync /\ stream # <<>> /\ FaultAllowed
    /\ Lose({Head(stream)}, "torn")
    /\ stream' = Tail(stream)
    /\ desync' \in BOOLEAN
    /\ pc' = "persist" /\ recvErr' = FALSE
    /\ faults' = faults + 1
    /\ UNCHANGED <<broker, link, ctxDone, batch, source, writeCtx, inbox, meta, handled, shutdowns>>

\* The top of persist's loop: a cancelled run context is replaced by a
\* detached one with its own deadline; the writer classifies the batch first.
BeginInsert ==
    /\ pc = "persist"
    /\ writeCtx' = IF ctxDone THEN "detached" ELSE "live"
    /\ meta' = ObserveControls(meta, batch)
    /\ pc' = "inserting"
    /\ UNCHANGED <<broker, wire, ctxDone, batch, source, recvErr, inbox, hist, faults, shutdowns>>

\* Mutant: one page is taken for the whole backlog.
AfterFirstPage ==
    IF source = "pull"
      THEN pc' = "receive" /\ UNCHANGED <<wire, recvErr, meta, lost>>
      ELSE IF recvErr
             THEN Leave({}, "link")
             ELSE pc' = "receive" /\ UNCHANGED <<wire, recvErr, meta, lost>>

\* After persist: the backfill goes on while pages are full; the receive loop
\* goes on unless the window ended with an error.
AfterPersist ==
    IF source = "pull"
      THEN /\ pc' = IF Len(batch) >= BatchSize THEN "backfill" ELSE "receive"
           /\ UNCHANGED <<wire, recvErr, meta, lost>>
      ELSE IF recvErr
             THEN Leave({}, "link")
             ELSE pc' = "receive" /\ UNCHANGED <<wire, recvErr, meta, lost>>

InsertSucceeds ==
    /\ pc = "inserting"
    /\ inbox' = inbox \o Rows(batch)
    /\ handled' = handled \cup {m \in Elems(batch) : kind[m] # "usage"}
    /\ batch' = <<>> /\ writeCtx' = "none"
    /\ AfterPersist
    /\ UNCHANGED <<broker, ctxDone, source, faults, shutdowns>>

\* The transaction is rolled back: SQLite refused it, or its context ended.
WriteError ==
    \/ FaultAllowed /\ Rows(batch) # <<>> /\ faults' = faults + 1
    \/ writeCtx = "live" /\ ctxDone /\ Delegated(batch) # {} /\ UNCHANGED faults

\* Mutant: a failed Insert leaves its rows behind and is retried all the same.
InsertFailsHalfway ==
    /\ pc = "inserting" /\ WriteError
    /\ writeCtx' = "none"
    /\ inbox' = inbox \o Rows(batch)
    /\ pc' = "retry" /\ UNCHANGED <<wire, meta, lost, batch, recvErr>>
    /\ UNCHANGED <<broker, ctxDone, source, handled, shutdowns>>

\* Mutant: the runner goes on with the next batch after a failed write.
InsertFailsAndDrops ==
    /\ pc = "inserting" /\ WriteError
    /\ writeCtx' = "none"
    /\ Lose(Elems(batch), "shutdown") /\ batch' = <<>>
    /\ pc' = "receive" /\ UNCHANGED <<wire, meta, recvErr>>
    /\ UNCHANGED <<broker, ctxDone, source, inbox, handled, shutdowns>>

\* persist gives up only when the run context has ended by now.
InsertFails ==
    /\ pc = "inserting" /\ WriteError
    /\ writeCtx' = "none"
    /\ IF ctxDone
         THEN Leave(Elems(batch), "shutdown") /\ batch' = <<>>
         ELSE pc' = "retry" /\ UNCHANGED <<wire, meta, lost, batch, recvErr>>
    /\ UNCHANGED <<broker, ctxDone, source, inbox, handled, shutdowns>>

\* The retry delay ends, or the shutdown interrupts it: either way persist
\* goes round its loop.
RetryDelayEnds ==
    /\ pc = "retry"
    /\ pc' = "persist"
    /\ UNCHANGED <<broker, wire, ctxDone, batch, source, recvErr, writeCtx, inbox, meta, hist,
                   faults, shutdowns>>

BackfillEnds ==
    /\ pc = "backfill" /\ ctxDone
    /\ Leave({}, "link")
    /\ UNCHANGED <<broker, ctxDone, batch, source, writeCtx, inbox, handled, faults, shutdowns>>

Runner ==
    \/ Subscribe \/ SubscribeFails \/ RunEnds \/ ReconnectDelayEnds
    \/ Pull \/ PullFails \/ BackfillEnds
    \/ ReceiveSkipsBlank \/ Receive \/ ReceiveFails
    \/ WindowFails \/ WindowCloses \/ WindowClosesInsideMessage
    \/ BeginInsert \/ InsertSucceeds \/ InsertFails \/ RetryDelayEnds

Environment ==
    \/ Publish \/ CutLink \/ BrokerNoticesCut \/ Start \/ Shutdown \/ Crash
    \/ MetadataRunnerActivates

Next == Runner \/ Environment

\* The goroutine of the runner is scheduled, and every call it makes returns
\* (each carries a context, a socket deadline or SQLite's busy timeout).
\* Nothing is assumed of the environment but that it starts the process.
Spec == Init /\ [][Next]_vars /\ WF_vars(Runner) /\ WF_vars(Start)
-----------------------------------------------------------------------------
TypeOK ==
    /\ kind \in [Ids -> Kinds]
    /\ published \in 0..MaxMsgs
    /\ backlog \in Seq(Ids) /\ stream \in Seq(Ids) /\ batch \in Seq(Ids)
    /\ link \in {"none", "up", "cut", "closed"}
    /\ desync \in BOOLEAN /\ ctxDone \in BOOLEAN /\ recvErr \in BOOLEAN
    /\ pc \in PCs
    /\ source \in {"pull", "subscribe"}
    /\ writeCtx \in {"none", "live", "detached"}
    /\ inbox \in Seq([id : Ids, source : {"pull", "subscribe"}])
    /\ meta \in [connected : BOOLEAN, activated : BOOLEAN,
                 notificationMode : BOOLEAN, refresh : BOOLEAN]
    /\ DOMAIN lost \subseteq Ids /\ \A m \in DOMAIN lost : lost[m] \in Causes
    /\ handled \subseteq Ids
    /\ faults \in 0..MaxFaults /\ shutdowns \in 0..MaxShutdowns
    /\ Len(batch) <= BatchSize

(***************************************************************************)
(* Safety.                                                                 *)
(***************************************************************************)

\* Where a message can be.
Homes == <<Elems(backlog), Elems(stream), Elems(batch), Stored, handled, DOMAIN lost>>

\* Every published message is in exactly one place: still at the broker, on
\* the wire, in the runner's hands, in the inbox (in one row), consumed as a
\* message that is no usage, or accounted for as lost.  Retries therefore
\* never write a message twice and no path of the runner forgets one.
OneHome ==
    /\ \A i, j \in DOMAIN inbox : inbox[i].id = inbox[j].id => i = j
    /\ LET home == Homes IN
         \A m \in 1..published : \E p \in 1..6 : \A q \in 1..6 : m \in home[q] <=> q = p

\* Rows that came the same way are stored in the order CodexProxy published
\* them, whatever reconnects, retries and restarts lie between them.
PerSourceOrder ==
    \A i, j \in DOMAIN inbox :
        i < j /\ inbox[i].source = inbox[j].source => inbox[i].id < inbox[j].id

\* A message the runner has taken leaves its hands only by being stored or
\* recognised as no usage, unless the process crashes or is shutting down:
\* a failed write neither drops the batch nor makes room for another LPOP.
BatchRetained ==
    [][ \A m \in Elems(batch) :
          \/ m \in Elems(batch') \/ m \in Stored' \/ m \in handled'
          \/ ctxDone \/ Crash ]_vars

(***************************************************************************)
(* Liveness.                                                               *)
(***************************************************************************)

\* What waits in the backlog is eventually stored or accounted for: the runner
\* reconnects and drains the list completely before it goes live.
BacklogDrains ==
    \A m \in Ids : m \in Elems(backlog) ~> m \in Stored \cup handled \cup DOMAIN lost

\* App.Close waits for the runner: once the context is cancelled the runner
\* stops, even if every write fails.
ShutdownTerminates == ctxDone ~> pc = "stopped"

(***************************************************************************)
(* Statements of the repository that the code does not keep.               *)
(***************************************************************************)

\* "Finish the current batch before App closes the database during shutdown":
\* a batch in the runner's hands is stored when the database works.
ShutdownFlushesBatch == \A m \in DOMAIN lost : lost[m] # "shutdown"

\* "Supported events are persisted to a SQLite inbox": without a crash, a
\* broken link or a failed write every event that arrives is stored.
ArrivedEventsAreRead == \A m \in DOMAIN lost : lost[m] # "torn"
=============================================================================
