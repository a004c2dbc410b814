---------------------------- MODULE QuotaHeaders ----------------------------
(***************************************************************************)
(* The quota cache fed from response headers (internal/quota:              *)
(* header_snapshot.go, codex_header.go, claude_header.go and               *)
(* header_cache_worker.go).                                                *)
(*                                                                         *)
(* After a batch of usage events is committed, the headers of the events   *)
(* are decoded and appended to a pending map, one snapshot per account; a  *)
(* worker swaps the map out one minute after the first append and merges   *)
(* each snapshot into the same records that the refresh tasks write.       *)
(*                                                                         *)
(* A quota value is represented by the time it was observed at, 0 for      *)
(* "absent"; the components of a snapshot are the values the code merges   *)
(* as a whole.  Time is a counter that stands for the storage clock.       *)
(***************************************************************************)
EXTENDS Naturals, Sequences, FiniteSets, FiniteSetsExt

CONSTANTS HAuth,        \* auth indexes
          Raw,          \* headers that may arrive (see CacheParts)
          PendingLimit, \* usageHeaderPendingIdentityLimit
          MaxTime,      \* bound on the clock
          MaxHeaders,   \* bound on appended headers
          MaxHEvents    \* bound on refreshes, identity changes and faults

VARIABLES hnow,      \* the clock
          itype,     \* provider of each auth file in the database
          rec,       \* refreshTasks: the record of each auth index
          pending,   \* usageHeaderPending: (provider, auth index) -> snapshot
          appender,  \* the inbox runner: "idle", or about to send the wake
          wake,      \* usageHeaderWake, a channel of capacity one
          hworker,   \* "idle", "armed" (timer runs), "flush", "lastflush", "done"
          jobs,      \* snapshots being applied
          hclosing,  \* usageHeaderClosing and usageHeaderStopCh
          hevents, headers

hvars == <<hnow, itype, rec, pending, appender, wake, hworker, jobs, hclosing, hevents, headers>>

Parts(p) == IF p = "codex" THEN {"main", "flag", "extra"} ELSE {"five", "seven"}
AllParts == {"main", "flag", "extra", "five", "seven"}
Absent == [q \in AllParts |-> 0]
At(has, t) == [q \in AllParts |-> IF q \in has THEN t ELSE 0]

NoRecord == [status |-> "none", type |-> "none", rows |-> Absent, at |-> 0]
IsNewer(s, t) == s.at >= t.at

-----------------------------------------------------------------------------
(* Decoding.  A raw header carries windows ("main", "extra", "five",       *)
(* "seven"; "odd" is a main window the cache does not know, or a negative  *)
(* percentage), the limit-reached flag, and for Codex the active limit.    *)

\* The ungrouped windows only repeat the additional limit that is active.
ActiveIsAdditional(raw) == raw.active = "extra" /\ "extra" \in raw.has

\* The two windows of a Claude account.
ClaudeParts(raw) == raw.has \intersect {"five", "seven"}

CacheParts(raw) ==
    IF raw.provider = "claude" THEN ClaudeParts(raw)
    ELSE LET main == IF ActiveIsAdditional(raw) THEN {} ELSE raw.has \intersect {"main"}
         IN  main \union (raw.has \intersect {"extra"})
                  \union (IF main = {} THEN {} ELSE raw.has \intersect {"flag"})

\* What the quota history may learn from the header.
HistoryParts(raw) ==
    IF raw.provider = "claude" THEN ClaudeParts(raw)
    ELSE IF ~ActiveIsAdditional(raw) /\ raw.active \in {"none", "premium"}
         THEN raw.has \intersect {"main", "odd"} ELSE {}

Built(raw) == CacheParts(raw) # {} \/ HistoryParts(raw) # {}

\* Snapshots without a cache projection still take a place in the map.
Snapshot(raw, a, t) ==
    [provider |-> raw.provider, auth |-> a, at |-> t, merged |-> FALSE,
     part |-> At(CacheParts(raw), t)]

-----------------------------------------------------------------------------
(* The pending map: one snapshot per account, merged value by value.       *)

HasCache(s) == s.part # Absent

\* A value is replaced by one that was observed no earlier.
NewerPart(s, c, q) == Max({s.part[q], c.part[q]})

MergePending(s, c) ==
    IF HasCache(s) /\ HasCache(c)
    THEN [provider |-> s.provider, auth |-> s.auth, at |-> Max({s.at, c.at}), merged |-> TRUE,
          part |-> [q \in AllParts |-> NewerPart(s, c, q)]]
    ELSE IF IsNewer(c, s) THEN c ELSE s

Key(s) == <<s.provider, s.auth>>
Oldest == CHOOSE k \in DOMAIN pending :
              \A l \in DOMAIN pending : pending[k].at <= pending[l].at

Put(k, s) == [l \in DOMAIN pending \union {k} |-> IF l = k THEN s ELSE pending[l]]

TryAppendUsageHeaderSnapshots(a, raw, t) ==
    LET s == Snapshot(raw, a, t)
        k == Key(s)
    IN  /\ appender = "idle"
        /\ ~hclosing
        /\ headers < MaxHeaders
        /\ Built(raw)
        /\ pending' = IF k \in DOMAIN pending THEN Put(k, MergePending(pending[k], s))
                      ELSE IF Cardinality(DOMAIN pending) < PendingLimit THEN Put(k, s)
                      ELSE IF ~IsNewer(s, pending[Oldest]) THEN pending
                      ELSE [l \in (DOMAIN pending \ {Oldest}) \union {k} |->
                               IF l = k THEN s ELSE pending[l]]
        /\ appender' = "wake"
        /\ headers' = headers + 1
        /\ UNCHANGED <<hnow, itype, rec, wake, hworker, jobs, hclosing, hevents>>

\* The wake is sent after the lock is released.
AppenderWakes ==
    /\ appender = "wake"
    /\ wake' = TRUE
    /\ appender' = "idle"
    /\ UNCHANGED <<hnow, itype, rec, pending, hworker, jobs, hclosing, hevents, headers>>

-----------------------------------------------------------------------------
(* The worker.                                                             *)

WorkerHearsWake ==
    /\ hworker \in {"idle", "armed"}
    /\ wake
    /\ wake' = FALSE
    /\ hworker' = IF DOMAIN pending # {} THEN "armed" ELSE hworker
    /\ UNCHANGED <<hnow, itype, rec, pending, appender, jobs, hclosing, hevents, headers>>

\* A merged Claude snapshot is applied window by window, earlier ones first.
Windows(s) ==
    IF s.provider = "claude" /\ s.merged
    THEN LET f == s.part["five"]
             v == s.part["seven"]
             one(has, t) == [s EXCEPT !.at = t, !.part = At(has, t)]
         IN  IF f = v \/ f = 0 \/ v = 0 THEN <<one({q \in {"five", "seven"} : s.part[q] # 0}, Max({f, v}))>>
             ELSE IF f < v THEN <<one({"five"}, f), one({"seven"}, v)>>
             ELSE <<one({"seven"}, v), one({"five"}, f)>>
    ELSE <<s>>

\* The map is swapped out; the identities are looked up for all of it at once.
TakePending(looked) ==
    /\ pending' = <<>>
    /\ jobs' = IF ~looked THEN {}
               ELSE {[todo |-> Windows(pending[k]), type |-> itype[k[2]], checked |-> FALSE] :
                     k \in {l \in DOMAIN pending : itype[l[2]] = l[1] /\ HasCache(pending[l])}}

TimerFires(looked) ==
    /\ hworker = "armed"
    /\ TakePending(looked)
    /\ hevents' = IF looked THEN hevents ELSE hevents + 1
    /\ hevents' <= MaxHEvents
    /\ hworker' = "flush"
    /\ UNCHANGED <<hnow, itype, rec, appender, wake, hclosing, headers>>

\* Returns at the stop signal without the last flush.
WorkerStopsAtOnce ==
    /\ hworker \in {"idle", "armed"}
    /\ hclosing
    /\ hworker' = "done"
    /\ UNCHANGED <<hnow, itype, rec, pending, appender, wake, jobs, hclosing, hevents, headers>>

WorkerStops ==
    /\ hworker \in {"idle", "armed"}
    /\ hclosing
    /\ TakePending(TRUE)
    /\ hworker' = "lastflush"
    /\ UNCHANGED <<hnow, itype, rec, appender, wake, hclosing, hevents, headers>>

FlushEnds ==
    /\ hworker \in {"flush", "lastflush"}
    /\ jobs = {}
    /\ hworker' = IF hworker = "flush" THEN "idle" ELSE "done"
    /\ UNCHANGED <<hnow, itype, rec, pending, appender, wake, jobs, hclosing, hevents, headers>>

-----------------------------------------------------------------------------
(* Merging one snapshot into the record of its auth index.  Two workers    *)
(* share the jobs; between its two steps a job computes window statistics. *)

IsCurrentOrNewer(r, type, t) == r.status = "completed" /\ r.type = type /\ r.at >= t

ShouldProcess(r, type, t) ==
    /\ ~(r.status = "active" /\ r.type = type)
    /\ ~IsCurrentOrNewer(r, type, t)

NextWindow(j) == [j EXCEPT !.todo = Tail(@), !.checked = FALSE]
Remains(j) == IF Len(j.todo) = 1 THEN {} ELSE {NextWindow(j)}

JobChecks(j) ==
    LET s == Head(j.todo)
    IN  /\ ~j.checked
        /\ Cardinality({i \in jobs : i.checked}) < 2
        /\ jobs' = (jobs \ {j}) \union
                   (IF ShouldProcess(rec[s.auth], j.type, s.at)
                    THEN {[j EXCEPT !.checked = TRUE]} ELSE Remains(j))
        /\ UNCHANGED <<hnow, itype, rec, pending, appender, wake, hworker, hclosing, hevents, headers>>

MergedRowsWithFlag(r, s, type) ==
    [q \in AllParts |-> IF s.part[q] = 0 THEN (IF r.type = type THEN r.rows[q] ELSE 0)
                        ELSE s.part[q]]

\* mergeUsageHeaderQuotaRows: header rows replace, other rows are kept; an
\* old limit-reached flag is left out.
MergedRows(r, s, type) ==
    IF r.type # type THEN s.part
    ELSE [q \in AllParts |->
            IF s.part[q] = 0 \/ (q = "flag" /\ IsCurrentOrNewer(r, type, s.part[q]))
            THEN r.rows[q] ELSE s.part[q]]

JobMerges(j) ==
    LET s == Head(j.todo)
        r == rec[s.auth]
    IN  /\ j.checked
        /\ jobs' = (jobs \ {j}) \union Remains(j)
        /\ rec' = IF ShouldProcess(r, j.type, s.at)
                  THEN [rec EXCEPT ![s.auth] = [status |-> "completed", type |-> j.type,
                                                rows |-> MergedRows(r, s, j.type), at |-> s.at]]
                  ELSE rec
        /\ UNCHANGED <<hnow, itype, pending, appender, wake, hworker, hclosing, hevents, headers>>

-----------------------------------------------------------------------------
(* The refresh tasks (module QuotaRefresh), as far as the records go.      *)

HEvent == hevents < MaxHEvents /\ hevents' = hevents + 1

RefreshStarts(a) ==
    /\ HEvent
    /\ rec[a].status # "active"
    /\ rec' = [rec EXCEPT ![a] = [NoRecord EXCEPT !.status = "active", !.type = itype[a]]]
    /\ UNCHANGED <<hnow, itype, pending, appender, wake, hworker, jobs, hclosing, headers>>

RefreshEnds(a) ==
    /\ rec[a].status = "active"
    /\ \E status \in {"completed", "failed"} :
          rec' = [rec EXCEPT ![a].status = status, ![a].at = hnow,
                             ![a].rows = IF status = "completed" THEN At(Parts(rec[a].type), hnow) ELSE Absent]
    /\ UNCHANGED <<hnow, itype, pending, appender, wake, hworker, jobs, hclosing, hevents, headers>>

\* Failed records expire, and auth files change their provider.
RecordExpires(a) ==
    /\ rec[a].status = "failed"
    /\ rec' = [rec EXCEPT ![a] = NoRecord]
    /\ UNCHANGED <<hnow, itype, pending, appender, wake, hworker, jobs, hclosing, hevents, headers>>

IdentityChanges(a) ==
    /\ HEvent
    /\ itype' = [itype EXCEPT ![a] = IF @ = "codex" THEN "claude" ELSE "codex"]
    /\ UNCHANGED <<hnow, rec, pending, appender, wake, hworker, jobs, hclosing, headers>>

ClockTicks ==
    /\ hnow < MaxTime
    /\ hnow' = hnow + 1
    /\ UNCHANGED <<itype, rec, pending, appender, wake, hworker, jobs, hclosing, hevents, headers>>

StopUsageHeaderSnapshotWorker ==
    /\ ~hclosing
    /\ hclosing' = TRUE
    /\ UNCHANGED <<hnow, itype, rec, pending, appender, wake, hworker, jobs, hevents, headers>>

-----------------------------------------------------------------------------
Init ==
    /\ hnow = 1
    /\ itype \in [HAuth -> {r.provider : r \in Raw}]
    /\ rec = [a \in HAuth |-> NoRecord]
    /\ pending = <<>>
    /\ appender = "idle"
    /\ wake = FALSE
    /\ hworker = "idle"
    /\ jobs = {}
    /\ hclosing = FALSE
    /\ hevents = 0
    /\ headers = 0

WorkerStep ==
    \/ WorkerHearsWake
    \/ TimerFires(TRUE)
    \/ WorkerStops
    \/ FlushEnds
    \/ \E j \in jobs : JobChecks(j) \/ JobMerges(j)

Next ==
    \/ \E a \in HAuth, raw \in Raw, t \in 1..hnow : TryAppendUsageHeaderSnapshots(a, raw, t)
    \/ AppenderWakes
    \/ WorkerStep
    \/ TimerFires(FALSE)
    \/ \E a \in HAuth : RefreshStarts(a) \/ RefreshEnds(a) \/ RecordExpires(a) \/ IdentityChanges(a)
    \/ ClockTicks
    \/ StopUsageHeaderSnapshotWorker

Spec == Init /\ [][Next]_hvars

-----------------------------------------------------------------------------
(* Properties.                                                             *)

StaysCompleted(a) ==
    /\ rec[a].status = "completed"
    /\ rec'[a].status = "completed"
    /\ rec'[a].type = rec[a].type

\* Headers that arrive out of order, or are merged with newer ones in the
\* pending map, never take the limit-reached flag or a Claude window of a
\* completed record back to an older observation (header_cache_worker.go,
\* applyPendingClaudeUsageHeaderSnapshot and mergeUsageHeaderQuotaCache).
FlagAndWindowsNeverRollBack ==
    [][\A a \in HAuth : StaysCompleted(a) =>
          \A q \in {"flag", "five", "seven"} : rec'[a].rows[q] >= rec[a].rows[q]]_hvars

\* The same of every value: an old header is not written over a completed
\* record that is newer ("avoid writing back an old header",
\* header_cache_worker.go:861).
CompletedNeverRollsBack ==
    [][\A a \in HAuth : StaysCompleted(a) =>
          \A q \in AllParts : rec'[a].rows[q] >= rec[a].rows[q]]_hvars

\* A snapshot in the pending map is never forgotten: a wake is on its way or
\* waits in the channel, the timer runs, or the stop signal brings the last
\* flush, and the worker has not ended; also when it arrives while the worker
\* flushes, consumes an earlier wake or stops.
PendingHasAWaker ==
    DOMAIN pending # {} =>
        /\ hworker # "done"
        /\ appender = "wake" \/ wake \/ hworker = "armed" \/ hclosing
=============================================================================
