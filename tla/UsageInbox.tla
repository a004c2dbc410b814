----------------------------- MODULE UsageInbox -----------------------------
(***************************************************************************)
(* From inbox rows to usage events: internal/service's                     *)
(* ProcessRedisUsageInbox, the redis_usage_inboxes statements of           *)
(* internal/repository it runs, and internal/poller's RedisProcessRunner   *)
(* that calls it in a loop.                                                *)
(*                                                                         *)
(* Every statement outside the commit transaction is a step of its own, so *)
(* arrivals, the daily cleanup and crashes fall between any two of them.   *)
(* A shutdown cancels the context of every later statement: the database   *)
(* sees the same as in a crash.                                            *)
(***************************************************************************)
EXTENDS Orders

CONSTANTS
    MaxRows,      \* bound on inbox rows
    Limit,        \* redisInboxProcessLimit (1000)
    MaxAttempts,  \* redisUsageInboxMaxProcessAttempts (5)
    MaxFaults     \* bound on failed statements and crashes

ASSUME InboxAssumption ==
    /\ MaxRows \in Nat /\ MaxFaults \in Nat
    /\ Limit \in Nat \ {0} /\ MaxAttempts \in Nat \ {0}

Rows == 1..MaxRows

\* What a raw message turns out to be: an event whose executor is known, an
\* event that needs the identity table, an event of a provider the keeper
\* does not track, or no event at all.
Classes == {"known", "lookup", "unsupported", "bad"}

Statuses == {"none", "pending", "processed", "decode_failed", "process_failed",
             "discarded", "deleted"}
PCs == {"down", "list", "decode", "resolve", "markUnresolved", "commit",
        "markReady", "notify", "sleep"}

VARIABLES
    class,      \* class of each row, fixed when the run starts
    status,     \* status column; "none" before the insert, "deleted" after a delete
    attempts,   \* attempt_count column
    aged,       \* rows whose updated_at is more than seven days back
    events,     \* usage_events: the inbox row behind each event, in id order
    pc,
    batch,      \* rows listed in this round; the code's lists of rows are in id
    todo,       \*   order, so each is a set here: rows the present loop has
    valid,      \*   not dealt with, rows decoded and supported,
    ready,      \*   rows of the commit transaction
    retry,      \* failureCounts.processFailed > 0
    uncertain,  \* failureCounts.statusUncertain
    burnt,      \* history: rows that lost an attempt since the last pause
    faults      \* history: faults so far

table == <<status, attempts, aged>>
round == <<batch, todo, valid, ready, retry, uncertain>>
vars  == <<class, status, attempts, aged, events, pc, batch, todo, valid, ready,
           retry, uncertain, burnt, faults>>

FaultAllowed == faults < MaxFaults
Fault == FaultAllowed /\ faults' = faults + 1
\* Mutant: failed rows are not listed again.
OnlyPending(r) == status[r] = "pending"

Processable(r) == status[r] \in {"pending", "process_failed"}
Exists(r) == status[r] \notin {"none", "deleted"}

\* ListProcessableRedisUsageInbox: the first Limit processable rows by id.
Before(r) == {q \in Rows : Processable(q) /\ q < r}
Listed == {r \in Rows : Processable(r) /\ Cardinality(Before(r)) < Limit}

\* A loop over rows deals with the least one next.
First(S) == CHOOSE r \in S : \A q \in S : r <= q
-----------------------------------------------------------------------------
Init ==
    /\ class \in [Rows -> Classes]
    /\ status = [r \in Rows |-> "none"]
    /\ attempts = [r \in Rows |-> 0]
    /\ aged = {}
    /\ events = <<>>
    /\ pc = "down"
    /\ batch = {} /\ todo = {} /\ valid = {} /\ ready = {}
    /\ retry = FALSE /\ uncertain = FALSE
    /\ burnt = {} /\ faults = 0

NoRound ==
    /\ batch' = {} /\ todo' = {} /\ valid' = {} /\ ready' = {}
    /\ retry' = FALSE /\ uncertain' = FALSE
-----------------------------------------------------------------------------
(***************************************************************************)
(* The rest of the process.                                                *)
(***************************************************************************)

\* The ingest runner's transaction: rows appear in id order, all at once.
InsertMessages ==
    /\ pc # "down"
    /\ \E first \in Rows : \E last \in first..MaxRows :
         /\ \A r \in Rows : status[r] = "none" <=> r >= first
         /\ status' = [r \in Rows |-> IF r \in first..last THEN "pending" ELSE status[r]]
    /\ UNCHANGED <<class, attempts, aged, events, pc, round, burnt, faults>>

\* A week passes (downtime, a suspended machine, or rows that are settled):
\* what is in the table grows old.
WeekPasses ==
    /\ aged' = {r \in Rows : Exists(r)}
    /\ aged' # aged
    /\ UNCHANGED <<class, status, attempts, events, pc, round, burnt, faults>>

\* CleanupRedisUsageInbox: processed rows of earlier days, then (unless that
\* second statement fails) the failed rows nobody touched for a week,
\* retryable ones included.
CleanupRedisUsageInbox ==
    /\ pc # "down"
    /\ LET failed == {r \in aged : status[r] \in {"decode_failed", "process_failed", "discarded"}}
       IN  \E done \in SUBSET {r \in Rows : status[r] = "processed"}, old \in {{}, failed} :
             /\ done \cup old # {}
             /\ status' = [r \in Rows |-> IF r \in done \cup old THEN "deleted" ELSE status[r]]
    /\ UNCHANGED <<class, attempts, aged, events, pc, round, burnt, faults>>

Crash ==
    /\ pc # "down" /\ Fault
    /\ pc' = "down"
    /\ NoRound
    /\ burnt' = {}
    /\ UNCHANGED <<class, table, events>>

Boot ==
    /\ pc = "down"
    /\ pc' = "list"
    /\ UNCHANGED <<class, table, events, round, burnt, faults>>
-----------------------------------------------------------------------------
(***************************************************************************)
(* One round of ProcessRedisUsageInbox.                                    *)
(***************************************************************************)

ListRows ==
    /\ pc = "list"
    /\ IF Listed = {}
         THEN pc' = "sleep" /\ UNCHANGED round
         ELSE /\ pc' = "decode" /\ batch' = Listed /\ todo' = Listed
              /\ UNCHANGED <<valid, ready, retry, uncertain>>
    /\ UNCHANGED <<class, table, events, burnt, faults>>

\* A failed statement that ends the round: the listing, or the mark of a row
\* that is undecodable or unsupported.
RoundFails ==
    /\ \/ pc = "list"
       \/ pc = "decode" /\ todo # {} /\ class[First(todo)] \in {"bad", "unsupported"}
    /\ Fault
    /\ pc' = "sleep"
    /\ NoRound
    /\ UNCHANGED <<class, table, events, burnt>>

\* An UPDATE of one row; on a row the cleanup has deleted it changes nothing.
SetStatus(r, s, more) ==
    IF Exists(r)
      THEN /\ status' = [status EXCEPT ![r] = s]
           /\ attempts' = [attempts EXCEPT ![r] = @ + more]
           /\ aged' = aged \ {r}
      ELSE UNCHANGED table

\* Mutant: a decodable row is marked processed before its event is written.
DecodeRowMarksAll ==
    /\ pc = "decode" /\ todo # {}
    /\ LET r == First(todo) IN
         IF class[r] = "bad"
           THEN SetStatus(r, "decode_failed", 1) /\ UNCHANGED valid
           ELSE /\ SetStatus(r, "processed", 0)
                /\ valid' = IF class[r] = "unsupported" THEN valid ELSE valid \cup {r}
    /\ todo' = todo \ {First(todo)}
    /\ UNCHANGED <<class, events, pc, batch, ready, retry, uncertain, burnt, faults>>

\* The decode loop: undecodable and unsupported rows are settled at once,
\* the others go on.
DecodeRow ==
    /\ pc = "decode" /\ todo # {}
    /\ LET r == First(todo) IN
         CASE class[r] = "bad" ->
                SetStatus(r, "decode_failed", 1) /\ UNCHANGED valid
           [] class[r] = "unsupported" ->
                SetStatus(r, "processed", 0) /\ UNCHANGED valid
           [] OTHER -> valid' = valid \cup {r} /\ UNCHANGED table
    /\ todo' = todo \ {First(todo)}
    /\ UNCHANGED <<class, events, pc, batch, ready, retry, uncertain, burnt, faults>>

\* Mutant: a row whose mark is uncertain does not count as one to retry.
RetryWaitIgnoresUncertain == retry

\* requiresRetryWait and shouldContinueRedisProcessImmediately: only a full
\* batch that leaves nothing to retry is followed by the next round at once.
RequiresRetryWait == retry \/ uncertain
ContinueImmediately == Cardinality(batch) >= Limit /\ ~RequiresRetryWait

RoundEnds ==
    /\ pc' = IF ContinueImmediately THEN "list" ELSE "sleep"
    /\ NoRound

DecodeEnds ==
    /\ pc = "decode" /\ todo = {}
    /\ IF valid = {}
         THEN RoundEnds
         ELSE pc' = "resolve" /\ UNCHANGED round
    /\ UNCHANGED <<class, table, events, burnt, faults>>

NeedsIdentity(r) == class[r] = "lookup"

\* normalizeRedisUsageEventsDetailed: all rows are ready ...
ResolveIdentities ==
    /\ pc = "resolve"
    /\ ready' = valid
    /\ pc' = "commit"
    /\ UNCHANGED <<class, table, events, batch, todo, valid, retry, uncertain, burnt, faults>>

\* ... unless the identity query fails: then the rows that need it are not.
\* (The registry of executors is checked when the package is loaded; its error
\* paths are dead in a build whose static tables are consistent.)
ResolveFails ==
    /\ pc = "resolve"
    /\ \E r \in valid : NeedsIdentity(r)
    /\ Fault
    /\ ready' = {r \in valid : ~NeedsIdentity(r)}
    /\ todo' = {r \in valid : NeedsIdentity(r)}
    /\ pc' = "markUnresolved"
    /\ UNCHANGED <<class, table, events, batch, valid, retry, uncertain, burnt>>

\* MarkRedisUsageInboxProcessFailed: one statement counts the attempt and
\* gives up the row at the limit.
StatusAfterFailure(r) ==
    IF attempts[r] + 1 >= MaxAttempts THEN "discarded" ELSE "process_failed"

MarkProcessFailed(r) ==
    /\ SetStatus(r, StatusAfterFailure(r), 1)
    /\ burnt' = IF Exists(r) THEN burnt \cup {r} ELSE burnt

Marking == pc \in {"markUnresolved", "markReady"} /\ todo # {}

\* markRedisInboxRowsProcessFailed: the row is marked and read back.
MarkRowFailed ==
    /\ Marking
    /\ LET r == First(todo) IN
         /\ MarkProcessFailed(r)
         /\ retry' = (retry \/ (Exists(r) /\ StatusAfterFailure(r) = "process_failed"))
         /\ uncertain' = (uncertain \/ ~Exists(r))
    /\ todo' = todo \ {First(todo)}
    /\ UNCHANGED <<class, events, pc, batch, valid, ready, faults>>

\* The UPDATE reports an error (whether or not it took effect), or the row
\* cannot be read back.
MarkRowUncertain ==
    /\ Marking /\ Fault
    /\ \/ MarkProcessFailed(First(todo))
       \/ UNCHANGED <<table, burnt>>
    /\ uncertain' = TRUE
    /\ todo' = todo \ {First(todo)}
    /\ UNCHANGED <<class, events, pc, batch, valid, ready, retry>>

\* Without a ready row the round has failed; otherwise those are committed.
MarkUnresolvedEnds ==
    /\ pc = "markUnresolved" /\ todo = {}
    /\ IF ready = {}
         THEN pc' = "sleep" /\ NoRound
         ELSE pc' = "commit" /\ UNCHANGED round
    /\ UNCHANGED <<class, table, events, burnt, faults>>

\* Mutant: the marks are not part of the transaction, and get lost.
CommitEventsUnmarked ==
    /\ pc = "commit"
    /\ events' = events \o InOrder(ready)
    /\ pc' = "notify"
    /\ UNCHANGED <<class, table, round, burnt, faults>>

\* Mutant: a commit is not announced to the aggregation runner.
CommitEventsUnannounced ==
    /\ pc = "commit"
    /\ events' = events \o InOrder(ready)
    /\ status' = [r \in Rows |-> IF r \in ready /\ Exists(r) THEN "processed" ELSE status[r]]
    /\ aged' = aged \ ready
    /\ RoundEnds
    /\ UNCHANGED <<class, attempts, burnt, faults>>

\* The transaction: all events and all `processed' marks.
CommitEvents ==
    /\ pc = "commit"
    /\ events' = events \o InOrder(ready)
    /\ status' = [r \in Rows |-> IF r \in ready /\ Exists(r) THEN "processed" ELSE status[r]]
    /\ aged' = aged \ ready
    /\ pc' = "notify"
    /\ UNCHANGED <<class, attempts, round, burnt, faults>>

CommitFails ==
    /\ pc = "commit" /\ Fault
    /\ todo' = ready
    /\ pc' = "markReady"
    /\ UNCHANGED <<class, table, events, batch, valid, ready, retry, uncertain, burnt>>

MarkReadyEnds ==
    /\ pc = "markReady" /\ todo = {}
    /\ pc' = "sleep" /\ NoRound
    /\ UNCHANGED <<class, table, events, burnt, faults>>

\* NotifyUsageEventsCommitted on the aggregation runner; the recent-event
\* cache and the quota worker may refuse what they are offered.
NotifyAggregation ==
    /\ pc = "notify"
    /\ RoundEnds
    /\ UNCHANGED <<class, table, events, burnt, faults>>

PauseEnds ==
    /\ pc = "sleep"
    /\ pc' = "list"
    /\ burnt' = {}
    /\ UNCHANGED <<class, table, events, round, faults>>

ProcessRunner ==
    \/ ListRows \/ RoundFails \/ DecodeRow \/ DecodeEnds
    \/ ResolveIdentities \/ ResolveFails
    \/ MarkRowFailed \/ MarkRowUncertain \/ MarkUnresolvedEnds \/ MarkReadyEnds
    \/ CommitEvents \/ CommitFails \/ NotifyAggregation \/ PauseEnds

Next ==
    \/ ProcessRunner
    \/ InsertMessages \/ WeekPasses \/ CleanupRedisUsageInbox \/ Crash \/ Boot

\* The goroutine is scheduled and its statements return; the supervisor
\* restarts the process.  Arrivals and the cleanup may never happen.
Spec == Init /\ [][Next]_vars /\ WF_vars(ProcessRunner) /\ WF_vars(Boot)
-----------------------------------------------------------------------------
TypeOK ==
    /\ class \in [Rows -> Classes]
    /\ status \in [Rows -> Statuses]
    /\ attempts \in [Rows -> 0..MaxAttempts]
    /\ aged \subseteq Rows /\ burnt \subseteq Rows
    /\ events \in Seq(Rows)
    /\ pc \in PCs
    /\ batch \subseteq Rows /\ todo \subseteq Rows /\ valid \subseteq Rows /\ ready \subseteq Rows
    /\ Cardinality(batch) <= Limit
    /\ retry \in BOOLEAN /\ uncertain \in BOOLEAN
    /\ faults \in 0..MaxFaults

(***************************************************************************)
(* Safety.                                                                 *)
(***************************************************************************)

\* A row becomes an event at most once, however often it is retried and
\* wherever the process crashed or the cleanup deleted rows in between.
OneEventPerRow ==
    \A i, j \in DOMAIN events : events[i] = events[j] => i = j

\* The row's status and the event table agree: `processed' on a row that is a
\* usage event means its event is there, and a row the table still shows as
\* unprocessed, undecodable or given up has none.
StatusAgreesWithEvents ==
    \A r \in Rows :
        /\ status[r] = "processed" /\ class[r] \in {"known", "lookup"} => r \in Elems(events)
        /\ status[r] \in {"pending", "process_failed", "decode_failed", "discarded"}
             => r \notin Elems(events)

\* An attempt is never counted twice without a pause in between: a full batch
\* cannot burn all attempts of a row within milliseconds.
AttemptsArePaced ==
    [][ \A r \in Rows : attempts'[r] > attempts[r] => r \notin burnt ]_vars

\* The inbox side keeps what UsageAggregation assumes of it.
Feed == INSTANCE CommitFeed WITH
            MaxCommitted <- MaxRows,
            lastId <- Len(events),
            owed   <- IF pc = "notify" THEN Len(events) ELSE 0,
            inbox  <- \E r \in Rows : Processable(r),
            up     <- pc # "down"
FeedSpec == Feed!Spec

(***************************************************************************)
(* Liveness.                                                               *)
(***************************************************************************)

\* Every row that arrives is settled: failed rows at the head of the list
\* cannot keep later rows waiting forever.
EveryRowSettles ==
    \A r \in Rows : status[r] = "pending" ~>
        status[r] \in {"processed", "decode_failed", "discarded", "deleted"}
=============================================================================
