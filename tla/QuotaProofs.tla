---------------------------- MODULE QuotaProofs ----------------------------
(***************************************************************************)
(* Proofs about the parts of internal/quota besides the refresh tasks: the *)
(* history of quota cycles, the cache fed from response headers and the    *)
(* resets by hand.  Each is proved about on its own first; the theorems at *)
(* the end are about KeeperServices, whose steps are steps of the parts.   *)
(***************************************************************************)
EXTENDS KeeperServices, OrdersProofs

-----------------------------------------------------------------------------
(***************************************************************************)
(* The two runners that sleep until they are woken: the quota history and  *)
(* the header cache.                                                       *)
(***************************************************************************)

HistoryWakes ==
    /\ headerWake \in BOOLEAN /\ trustedWake \in BOOLEAN /\ qclosing \in BOOLEAN
    /\ runner = "done" => qclosing
    /\ History!QueuedHasAWaker

\* Whatever a batch does, it empties both queues.
LEMMA BatchTakesAll ==
    ASSUME NEW all, History!Process(all)
    PROVE  headerQueue' = <<>> /\ trustedQueue' = <<>> /\ headerWake' = FALSE /\ trustedWake' = FALSE
           /\ qclosing' = qclosing
BY DEF History!Process

\* QueuedHasAWaker: an observation is never left in a queue with the runner
\* asleep, whichever of the two channels, the timer, a deletion and the stop
\* signal come together (internal/quota/codex_quota_history_scheduler.go).
LEMMA HistoryAwake == History!Spec => []History!QueuedHasAWaker
<1>1. History!Init => HistoryWakes
  BY DEF History!Init, HistoryWakes, History!QueuedHasAWaker
<1>2. HistoryWakes /\ [History!Next]_(History!qvars) => HistoryWakes'
  <2> SUFFICES ASSUME HistoryWakes, [History!Next]_(History!qvars) PROVE HistoryWakes'
    OBVIOUS
  <2> USE DEF HistoryWakes, History!QueuedHasAWaker
  <2>1. CASE \E shape \in HistoryShape, t \in 1..MaxObserved : History!AppendHeader(shape, t)
    <3>1. /\ ~qclosing /\ headerWake' = TRUE
          /\ UNCHANGED <<trustedQueue, trustedWake, runner, qclosing>>
      BY <2>1 DEF History!AppendHeader
    <3> QED BY <3>1
  <2>2. CASE \E shape \in HistoryShape, t \in 1..MaxObserved : History!AppendTrusted(shape, t)
    BY <2>2 DEF History!AppendTrusted
  <2>3. CASE History!HearsHeader
    BY <2>3 DEF History!HearsHeader
  <2>4. CASE History!TimerFires
    BY <2>4, BatchTakesAll DEF History!TimerFires
  <2>5. CASE History!HearsTrusted
    BY <2>5, BatchTakesAll DEF History!HearsTrusted
  <2>6. CASE History!RunnerStops
    BY <2>6, BatchTakesAll DEF History!RunnerStops
  <2>7. CASE History!StopRunner
    BY <2>7 DEF History!StopRunner
  <2>8. ASSUME NEW r \in Role, NEW i \in DOMAIN cycles[r], History!DeleteCycle(r, i) PROVE HistoryWakes'
    <3>1. /\ runner \in {"idle", "timing"} /\ UNCHANGED <<trustedQueue, headerWake, trustedWake, runner, qclosing>>
      BY <2>8 DEF History!DeleteCycle
    <3>2. headerQueue = <<>> => headerQueue' = <<>>
      <4>1. headerQueue = <<>> => DOMAIN headerQueue = {}
        OBVIOUS
      <4>2. DOMAIN headerQueue = {} => headerQueue' = headerQueue
        BY <2>8 DEF History!DeleteCycle
      <4> QED BY <4>1, <4>2
    <3> QED BY <3>1, <3>2
  <2>9. CASE UNCHANGED History!qvars
    BY <2>9 DEF History!qvars
  <2> QED BY <2>1, <2>2, <2>3, <2>4, <2>5, <2>6, <2>7, <2>8, <2>9 DEF History!Next, History!RunnerStep
<1> QED BY <1>1, <1>2, PTL DEF History!Spec, HistoryWakes
HeaderWakes ==
    /\ wake \in BOOLEAN /\ hclosing \in BOOLEAN
    /\ hworker \in {"lastflush", "done"} => hclosing /\ DOMAIN pending = {}
    /\ Headers!PendingHasAWaker

\* PendingHasAWaker: a snapshot that was accepted is never left in the map
\* with the worker asleep or gone, although the wake is sent after the lock
\* was released (internal/quota/header_cache_worker.go).
LEMMA HeadersAwake == Headers!Spec => []Headers!PendingHasAWaker
<1>1. Headers!Init => HeaderWakes
  <2> SUFFICES ASSUME Headers!Init PROVE HeaderWakes
    OBVIOUS
  <2>1. wake \in BOOLEAN /\ hclosing \in BOOLEAN
    BY DEF Headers!Init
  <2>2. DOMAIN pending = {} /\ hworker = "idle"
    BY DEF Headers!Init
  <2> QED BY <2>1, <2>2 DEF HeaderWakes, Headers!PendingHasAWaker
<1>2. HeaderWakes /\ [Headers!Next]_(Headers!hvars) => HeaderWakes'
  <2> SUFFICES ASSUME HeaderWakes, [Headers!Next]_(Headers!hvars) PROVE HeaderWakes'
    OBVIOUS
  <2> USE DEF HeaderWakes, Headers!PendingHasAWaker
  <2>1. CASE \E a \in HAuth, raw \in Raw, t \in 1..hnow : Headers!TryAppendUsageHeaderSnapshots(a, raw, t)
    <3>1. /\ ~hclosing /\ appender' = "wake" /\ UNCHANGED <<wake, hworker, hclosing>>
      BY <2>1 DEF Headers!TryAppendUsageHeaderSnapshots
    <3> QED BY <3>1
  <2>2. CASE Headers!AppenderWakes
    BY <2>2 DEF Headers!AppenderWakes
  <2>3. CASE Headers!WorkerHearsWake
    BY <2>3 DEF Headers!WorkerHearsWake
  <2>4. ASSUME NEW looked \in BOOLEAN, Headers!TimerFires(looked) PROVE HeaderWakes'
    BY <2>4 DEF Headers!TimerFires, Headers!TakePending
  <2>5. CASE Headers!WorkerStops
    BY <2>5 DEF Headers!WorkerStops, Headers!TakePending
  <2>6. CASE Headers!FlushEnds
    BY <2>6 DEF Headers!FlushEnds
  <2>7. CASE Headers!StopUsageHeaderSnapshotWorker
    BY <2>7 DEF Headers!StopUsageHeaderSnapshotWorker
  <2>8. CASE UNCHANGED <<pending, appender, wake, hworker, hclosing>>
    BY <2>8
  <2> QED BY <2>1, <2>2, <2>3, <2>4, <2>5, <2>6, <2>7, <2>8
          DEF Headers!Next, Headers!WorkerStep, Headers!JobChecks, Headers!JobMerges, Headers!RefreshStarts,
              Headers!RefreshEnds, Headers!RecordExpires, Headers!IdentityChanges, Headers!ClockTicks, Headers!hvars
<1> QED BY <1>1, <1>2, PTL DEF Headers!Spec, HeaderWakes
-----------------------------------------------------------------------------
(***************************************************************************)
(* Headers in any order.  A record is as new as its newest value; a        *)
(* snapshot is as new as its newest part, and a Claude window that is      *)
(* about to be merged is exactly as new as the snapshot it is in, so the   *)
(* comparison of the two times speaks for the window.                      *)
(***************************************************************************)

Provider == {"codex", "claude"}

Snap == {s \in [provider : Provider, auth : HAuth, at : Nat, merged : BOOLEAN, part : [Headers!AllParts -> Nat]] :
            \A q \in Headers!AllParts : s.part[q] <= s.at}
Window == {w \in Snap :
            /\ w.provider = "claude" => /\ w.part["five"] = 0 \/ w.part["five"] = w.at
                                        /\ w.part["seven"] = 0 \/ w.part["seven"] = w.at
            /\ w.provider = "codex" => w.part["five"] = 0 /\ w.part["seven"] = 0}
Pended(s) == /\ s \in Snap
             /\ s.provider = "codex" \/ ~s.merged => s \in Window
QuotaRecord == {r \in [status : {"none", "active", "completed", "failed"}, type : Provider \cup {"none"},
                  rows : [Headers!AllParts -> Nat], at : Nat] :
                  \A q \in Headers!AllParts : /\ r.rows[q] <= r.at
                                              /\ r.status # "completed" => r.rows[q] = 0}
Job(j) == /\ j \in [todo : Seq(Window), type : Provider, checked : BOOLEAN]
          /\ j.todo # <<>>
          /\ \A i \in 1..Len(j.todo) : j.todo[i].provider = j.type

HeaderTypes ==
    /\ hnow \in Nat
    /\ itype \in [HAuth -> Provider]
    /\ rec \in [HAuth -> QuotaRecord]
PendingTypes ==
    \A k \in DOMAIN pending : Pended(pending[k]) /\ k = <<pending[k].provider, pending[k].auth>>
JobTypes == \A j \in jobs : Job(j)
HeaderInv == HeaderTypes /\ PendingTypes /\ JobTypes

LEMMA LargerOf ==
    ASSUME NEW x \in Nat, NEW y \in Nat
    PROVE  /\ Headers!Max({x, y}) \in Nat /\ Headers!Max({x, y}) >= x /\ Headers!Max({x, y}) >= y
           /\ Headers!Max({x, y}) = x \/ Headers!Max({x, y}) = y
BY DEF Headers!Max

LEMMA AtTypes ==
    ASSUME NEW has, NEW t \in Nat
    PROVE  /\ Headers!At(has, t) \in [Headers!AllParts -> Nat]
           /\ \A q \in Headers!AllParts : Headers!At(has, t)[q] = IF q \in has THEN t ELSE 0
BY DEF Headers!At

LEMMA SnapshotIsPended ==
    ASSUME HeaderConstants, NEW raw \in Raw, NEW a \in HAuth, NEW t \in Nat
    PROVE  LET s == Headers!Snapshot(raw, a, t)
           IN  Pended(s) /\ Headers!Key(s) = <<s.provider, s.auth>>
<1> DEFINE s == Headers!Snapshot(raw, a, t)
           p == Headers!At(Headers!CacheParts(raw), t)
<1>1. s = [provider |-> raw.provider, auth |-> a, at |-> t, merged |-> FALSE, part |-> p]
  BY DEF Headers!Snapshot
<1>2. /\ p \in [Headers!AllParts -> Nat]
      /\ \A q \in Headers!AllParts : p[q] = 0 \/ p[q] = t
      /\ \A q \in Headers!AllParts : q \notin Headers!CacheParts(raw) => p[q] = 0
  BY AtTypes
<1>3. raw.provider = "codex" => "five" \notin Headers!CacheParts(raw) /\ "seven" \notin Headers!CacheParts(raw)
  BY DEF Headers!CacheParts
<1>4. "five" \in Headers!AllParts /\ "seven" \in Headers!AllParts
  BY DEF Headers!AllParts
<1> HIDE DEF p
<1>5. raw.provider \in Provider
  BY DEF HeaderConstants, Provider
<1>6. s \in Snap
  BY <1>1, <1>2, <1>5 DEF Snap
<1>7. s \in Window
  BY <1>1, <1>2, <1>3, <1>4, <1>6 DEF Window
<1> QED BY <1>6, <1>7 DEF Pended, Headers!Key

LEMMA MergeIsPended ==
    ASSUME NEW s, NEW c, Pended(s), Pended(c), s.provider = c.provider, s.auth = c.auth
    PROVE  LET m == Headers!MergePending(s, c)
           IN  Pended(m) /\ m.provider = s.provider /\ m.auth = s.auth
<1> DEFINE m == Headers!MergePending(s, c)
           p == [q \in Headers!AllParts |-> Headers!NewerPart(s, c, q)]
           at == Headers!Max({s.at, c.at})
<1>1. CASE ~(Headers!HasCache(s) /\ Headers!HasCache(c))
  BY <1>1 DEF Headers!MergePending
<1>2. CASE Headers!HasCache(s) /\ Headers!HasCache(c)
  <2>1. m = [provider |-> s.provider, auth |-> s.auth, at |-> at, merged |-> TRUE, part |-> p]
    BY <1>2 DEF Headers!MergePending
  <2>2. /\ s \in Snap /\ c \in Snap
        /\ s.provider \in Provider /\ s.auth \in HAuth /\ s.at \in Nat /\ c.at \in Nat
        /\ s.part \in [Headers!AllParts -> Nat] /\ c.part \in [Headers!AllParts -> Nat]
        /\ \A q \in Headers!AllParts : s.part[q] <= s.at /\ c.part[q] <= c.at
    BY DEF Pended, Snap
  <2>3. at \in Nat /\ at >= s.at /\ at >= c.at
    BY <2>2, LargerOf
  <2>4. ASSUME NEW q \in Headers!AllParts
        PROVE  p[q] \in Nat /\ p[q] <= at /\ (p[q] = s.part[q] \/ p[q] = c.part[q])
    <3>1. p[q] = Headers!Max({s.part[q], c.part[q]})
      BY DEF Headers!NewerPart
    <3>2. s.part[q] \in Nat /\ c.part[q] \in Nat /\ s.part[q] <= s.at /\ c.part[q] <= c.at
      BY <2>2
    <3> HIDE DEF p, at
    <3>3. p[q] \in Nat /\ (p[q] = s.part[q] \/ p[q] = c.part[q])
      BY <3>1, <3>2, LargerOf
    <3> QED BY <2>2, <2>3, <3>2, <3>3
  <2>5. p \in [Headers!AllParts -> Nat]
    BY <2>4
  <2> HIDE DEF p, at, m
  <2>6. m \in Snap
    BY <2>1, <2>2, <2>3, <2>4, <2>5 DEF Snap
  <2>7. s.provider = "codex" => m \in Window
    <3> SUFFICES ASSUME s.provider = "codex" PROVE m \in Window
      OBVIOUS
    <3>1. s \in Window /\ c \in Window
      BY DEF Pended
    <3>2. s.part["five"] = 0 /\ s.part["seven"] = 0 /\ c.part["five"] = 0 /\ c.part["seven"] = 0
      BY <3>1 DEF Window
    <3>3. "five" \in Headers!AllParts /\ "seven" \in Headers!AllParts
      BY DEF Headers!AllParts
    <3>4. p["five"] = 0 /\ p["seven"] = 0
      BY <2>4, <3>2, <3>3
    <3> QED BY <2>1, <2>6, <3>4 DEF Window
  <2>8. m.merged = TRUE /\ m.provider = s.provider /\ m.auth = s.auth
    BY <2>1
  <2> QED BY <2>6, <2>7, <2>8 DEF Pended, m
<1> QED BY <1>1, <1>2
\* A merged Claude snapshot is split into windows of one time each.
LEMMA SplitIntoWindows ==
    ASSUME NEW s, Pended(s)
    PROVE  /\ Headers!Windows(s) \in Seq(Window) /\ Headers!Windows(s) # <<>>
           /\ \A i \in 1..Len(Headers!Windows(s)) : Headers!Windows(s)[i].provider = s.provider
<1> DEFINE f == s.part["five"]
           v == s.part["seven"]
           one(has, t) == [s EXCEPT !.at = t, !.part = Headers!At(has, t)]
<1>0. s \in Snap /\ s.provider \in Provider /\ s.merged \in BOOLEAN
  BY DEF Pended, Snap
<1>1. CASE ~(s.provider = "claude" /\ s.merged)
  <2>1. s \in Window
    BY <1>0, <1>1 DEF Pended, Provider
  <2>2. Headers!Windows(s) = <<s>>
    BY <1>1 DEF Headers!Windows
  <2> QED BY <2>1, <2>2
<1>2. CASE s.provider = "claude" /\ s.merged
  <2>1. f \in Nat /\ v \in Nat
    BY <1>0 DEF Snap, Headers!AllParts
  <2>2. ASSUME NEW has, NEW t \in Nat PROVE one(has, t) \in Window /\ one(has, t).provider = s.provider
    <3> DEFINE p == Headers!At(has, t)
               w == one(has, t)
    <3>1. p \in [Headers!AllParts -> Nat] /\ \A q \in Headers!AllParts : p[q] = 0 \/ p[q] = t
      BY AtTypes
    <3>2. /\ w \in [provider : Provider, auth : HAuth, at : Nat, merged : BOOLEAN, part : [Headers!AllParts -> Nat]]
          /\ w.provider = "claude" /\ w.at = t /\ w.part = p
      BY <1>0, <1>2, <3>1 DEF Snap
    <3> HIDE DEF p, w
    <3>3. "five" \in Headers!AllParts /\ "seven" \in Headers!AllParts
      BY DEF Headers!AllParts
    <3>4. w \in Snap
      BY <3>1, <3>2 DEF Snap
    <3>5. w \in Window
      BY <3>1, <3>2, <3>3, <3>4 DEF Window
    <3> QED BY <1>2, <3>2, <3>5 DEF w
  <2>3. Headers!Max({f, v}) \in Nat
    BY <2>1, LargerOf
  <2>4. \/ \E has : Headers!Windows(s) = <<one(has, Headers!Max({f, v}))>>
        \/ Headers!Windows(s) = <<one({"five"}, f), one({"seven"}, v)>>
        \/ Headers!Windows(s) = <<one({"seven"}, v), one({"five"}, f)>>
    BY <1>2 DEF Headers!Windows
  <2> HIDE DEF one, f, v
  <2>5. CASE \E has : Headers!Windows(s) = <<one(has, Headers!Max({f, v}))>>
    <3>1. PICK has : Headers!Windows(s) = <<one(has, Headers!Max({f, v}))>>
      BY <2>5
    <3>2. one(has, Headers!Max({f, v})) \in Window /\ one(has, Headers!Max({f, v})).provider = s.provider
      BY <2>2, <2>3
    <3> QED BY <3>1, <3>2
  <2>6. CASE Headers!Windows(s) = <<one({"five"}, f), one({"seven"}, v)>>
           \/ Headers!Windows(s) = <<one({"seven"}, v), one({"five"}, f)>>
    <3>1. /\ one({"five"}, f) \in Window /\ one({"five"}, f).provider = s.provider
          /\ one({"seven"}, v) \in Window /\ one({"seven"}, v).provider = s.provider
      BY <2>1, <2>2
    <3> DEFINE x == one({"five"}, f)
               y == one({"seven"}, v)
    <3> HIDE DEF x, y
    <3>2. ASSUME NEW a \in Window, NEW b \in Window, a.provider = s.provider, b.provider = s.provider,
                 Headers!Windows(s) = <<a, b>>
          PROVE  /\ Headers!Windows(s) \in Seq(Window) /\ Headers!Windows(s) # <<>>
                 /\ \A i \in 1..Len(Headers!Windows(s)) : Headers!Windows(s)[i].provider = s.provider
      BY <3>2
    <3>3. x \in Window /\ x.provider = s.provider /\ y \in Window /\ y.provider = s.provider
      BY <3>1 DEF x, y
    <3>4. Headers!Windows(s) = <<x, y>> \/ Headers!Windows(s) = <<y, x>>
      BY <2>6 DEF x, y
    <3> QED BY <3>2, <3>3, <3>4
  <2> QED BY <2>4, <2>5, <2>6
<1> QED BY <1>1, <1>2

LEMMA TakenAreJobs ==
    ASSUME HeaderInv, NEW looked \in BOOLEAN, Headers!TakePending(looked)
    PROVE  PendingTypes' /\ JobTypes'
<1>1. PendingTypes'
  BY DEF Headers!TakePending, PendingTypes
<1>2. ASSUME NEW j \in jobs' PROVE Job(j)
  <2>1. PICK k \in DOMAIN pending : /\ itype[k[2]] = k[1]
                                    /\ j = [todo |-> Headers!Windows(pending[k]), type |-> itype[k[2]], checked |-> FALSE]
    BY <1>2 DEF Headers!TakePending
  <2>2. Pended(pending[k]) /\ k[1] = pending[k].provider /\ pending[k].provider \in Provider
    BY DEF HeaderInv, PendingTypes, Pended, Snap
  <2> DEFINE ws == Headers!Windows(pending[k])
  <2>3. ws \in Seq(Window) /\ ws # <<>> /\ \A i \in 1..Len(ws) : ws[i].provider = pending[k].provider
    BY <2>2, SplitIntoWindows
  <2> HIDE DEF ws
  <2>4. j = [todo |-> ws, type |-> pending[k].provider, checked |-> FALSE]
    BY <2>1, <2>2 DEF ws
  <2> QED BY <2>2, <2>3, <2>4 DEF Job
<1> QED BY <1>1, <1>2 DEF JobTypes

LEMMA RemainingIsAJob ==
    ASSUME NEW j, Job(j)
    PROVE  /\ \A i \in Headers!Remains(j) : Job(i)
           /\ Job([j EXCEPT !.checked = TRUE])
           /\ Head(j.todo) \in Window /\ Head(j.todo).provider = j.type
<1>1. j.todo \in Seq(Window) /\ j.todo # <<>> /\ Len(j.todo) \in Nat /\ Len(j.todo) >= 1
  BY DEF Job
<1>2. Head(j.todo) \in Window /\ Head(j.todo).provider = j.type
  BY <1>1 DEF Job
<1>3. Job([j EXCEPT !.checked = TRUE])
  BY DEF Job
<1>4. ASSUME Len(j.todo) # 1 PROVE Job(Headers!NextWindow(j))
  <2> DEFINE t == Tail(j.todo)
             n == Headers!NextWindow(j)
  <2>1. /\ t \in Seq(Window) /\ Len(t) = Len(j.todo) - 1 /\ t # <<>>
        /\ \A i \in 1..Len(t) : t[i] = j.todo[i + 1]
    <3>1. t \in Seq(Window) /\ Len(t) = Len(j.todo) - 1
      BY <1>1
    <3>2. t # <<>>
      <4>1. Len(t) # 0
        BY <1>1, <1>4, <3>1
      <4> HIDE DEF t
      <4> QED BY <4>1
    <3>3. \A i \in 1..Len(t) : t[i] = j.todo[i + 1]
      BY <1>1, <3>1
    <3> QED BY <3>1, <3>2, <3>3
  <2>2. \A i \in 1..Len(t) : t[i].provider = j.type
    BY <1>1, <2>1 DEF Job
  <2>3. n = [j EXCEPT !.todo = t, !.checked = FALSE]
    BY DEF Headers!NextWindow
  <2> HIDE DEF t, n
  <2>4. n \in [todo : Seq(Window), type : Provider, checked : BOOLEAN] /\ n.todo = t /\ n.type = j.type
    BY <2>1, <2>3 DEF Job
  <2> QED BY <2>1, <2>2, <2>4 DEF Job, n
<1> QED BY <1>2, <1>3, <1>4 DEF Headers!Remains
\* What a merge writes is a record, and one of the same provider that was
\* complete keeps its flag and its windows no older than they were.
LEMMA MergedIsNewer ==
    ASSUME NEW r \in QuotaRecord, NEW s \in Window, Headers!ShouldProcess(r, s.provider, s.at),
           NEW x, x = [status |-> "completed", type |-> s.provider,
                       rows |-> Headers!MergedRows(r, s, s.provider), at |-> s.at]
    PROVE  /\ x \in QuotaRecord
           /\ r.status = "completed" /\ r.type = s.provider =>
                 \A q \in {"flag", "five", "seven"} : x.rows[q] >= r.rows[q]
<1> DEFINE p == s.provider
           m == Headers!MergedRows(r, s, p)
<1>1. /\ r.status \in {"none", "active", "completed", "failed"} /\ r.at \in Nat
      /\ r.rows \in [Headers!AllParts -> Nat]
      /\ \A q \in Headers!AllParts : /\ r.rows[q] <= r.at
                                     /\ r.status # "completed" => r.rows[q] = 0
  <2>1. /\ r \in [status : {"none", "active", "completed", "failed"}, type : Provider \cup {"none"},
                   rows : [Headers!AllParts -> Nat], at : Nat]
        /\ \A q \in Headers!AllParts : /\ r.rows[q] <= r.at
                                       /\ r.status # "completed" => r.rows[q] = 0
    BY DEF QuotaRecord
  <2> QED BY <2>1
<1>2. /\ s \in Snap /\ s.provider \in Provider /\ s.at \in Nat
      /\ s.part \in [Headers!AllParts -> Nat]
      /\ \A q \in Headers!AllParts : s.part[q] <= s.at
  BY DEF Window, Snap
<1>3. r.status = "completed" /\ r.type = p => r.at < s.at
  BY <1>1, <1>2 DEF Headers!ShouldProcess, Headers!IsCurrentOrNewer
<1>4. ASSUME NEW q \in Headers!AllParts
      PROVE  /\ m[q] \in Nat /\ m[q] <= s.at
             /\ m[q] = s.part[q] \/ (r.type = p /\ m[q] = r.rows[q])
  <2>1. CASE r.type # p
    BY <1>2, <2>1 DEF Headers!MergedRows
  <2>2. CASE r.type = p
    <3>1. m[q] = s.part[q] \/ m[q] = r.rows[q]
      BY <2>2 DEF Headers!MergedRows
    <3> HIDE DEF m
    <3>2. r.rows[q] \in Nat /\ r.rows[q] <= r.at /\ s.part[q] \in Nat /\ s.part[q] <= s.at
      BY <1>1, <1>2
    <3>3. r.rows[q] <= s.at
      <4>1. CASE r.status = "completed"
        BY <1>1, <1>2, <1>3, <2>2, <3>2, <4>1
      <4>2. CASE r.status # "completed"
        BY <1>1, <1>2, <4>2
      <4> QED BY <4>1, <4>2
    <3> QED BY <2>2, <3>1, <3>2, <3>3
  <2> QED BY <2>1, <2>2
<1>5. m \in [Headers!AllParts -> Nat]
  <2>1. m = [q \in Headers!AllParts |-> m[q]]
    BY <1>2 DEF Headers!MergedRows
  <2> HIDE DEF m
  <2> QED BY <1>4, <2>1
<1>6. ASSUME r.status = "completed", r.type = p, NEW q \in {"flag", "five", "seven"}
      PROVE  m[q] >= r.rows[q]
  <2>1. q \in Headers!AllParts
    BY DEF Headers!AllParts
  <2>2. m[q] = IF s.part[q] = 0 \/ (q = "flag" /\ Headers!IsCurrentOrNewer(r, p, s.part[q]))
               THEN r.rows[q] ELSE s.part[q]
    BY <1>6, <2>1 DEF Headers!MergedRows
  <2> HIDE DEF m
  <2>3. r.rows[q] \in Nat /\ r.rows[q] <= r.at /\ s.part[q] \in Nat /\ r.at < s.at
    BY <1>1, <1>2, <1>3, <1>6, <2>1
  <2>4. CASE m[q] = r.rows[q]
    BY <2>3, <2>4
  <2>5. CASE m[q] # r.rows[q]
    <3>1. m[q] = s.part[q] /\ s.part[q] # 0 /\ (q = "flag" => ~Headers!IsCurrentOrNewer(r, p, s.part[q]))
      BY <2>2, <2>5
    <3>2. CASE q = "flag"
      BY <1>1, <1>6, <2>3, <3>1, <3>2 DEF Headers!IsCurrentOrNewer
    <3>3. CASE q # "flag"
      <4>1. s.part[q] = s.at
        BY <1>2, <3>1, <3>3 DEF Window, Provider
      <4> QED BY <1>1, <1>2, <2>3, <3>1, <4>1
    <3> QED BY <3>2, <3>3
  <2> QED BY <2>4, <2>5
<1> HIDE DEF m
<1>7. x = [status |-> "completed", type |-> p, rows |-> m, at |-> s.at]
  BY DEF m
<1>8. x \in QuotaRecord
  BY <1>2, <1>4, <1>5, <1>7 DEF QuotaRecord
<1>9. x.rows = m
  BY <1>7
<1> QED BY <1>6, <1>8, <1>9

\* A step of the records: every record stays one, and none that stays
\* complete takes its flag or a window back.
RecordStep ==
    /\ rec' \in [HAuth -> QuotaRecord]
    /\ \A a \in HAuth : Headers!StaysCompleted(a) =>
          \A q \in {"flag", "five", "seven"} : rec'[a].rows[q] >= rec[a].rows[q]

LEMMA SameRecords ==
    ASSUME HeaderInv, UNCHANGED rec
    PROVE  RecordStep
<1>1. ASSUME NEW a \in HAuth, NEW q \in {"flag", "five", "seven"} PROVE rec'[a].rows[q] >= rec[a].rows[q]
  <2>1. q \in Headers!AllParts
    BY DEF Headers!AllParts
  <2>2. rec[a].rows[q] \in Nat
    BY <2>1 DEF HeaderInv, HeaderTypes, QuotaRecord
  <2> QED BY <2>2
<1> QED BY <1>1 DEF RecordStep, HeaderInv, HeaderTypes

LEMMA OneRecord ==
    ASSUME HeaderInv, NEW a \in HAuth, NEW x \in QuotaRecord, rec' = [rec EXCEPT ![a] = x],
           rec[a].status = "completed" /\ x.status = "completed" /\ x.type = rec[a].type =>
              \A q \in {"flag", "five", "seven"} : x.rows[q] >= rec[a].rows[q]
    PROVE  RecordStep
<1>1. rec \in [HAuth -> QuotaRecord]
  BY DEF HeaderInv, HeaderTypes
<1>2. rec' \in [HAuth -> QuotaRecord] /\ rec'[a] = x /\ \A b \in HAuth : b # a => rec'[b] = rec[b]
  BY <1>1
<1>3. ASSUME NEW b \in HAuth, Headers!StaysCompleted(b), NEW q \in {"flag", "five", "seven"}
      PROVE  rec'[b].rows[q] >= rec[b].rows[q]
  <2>1. CASE b = a
    BY <1>2, <1>3, <2>1 DEF Headers!StaysCompleted
  <2>2. CASE b # a
    <3>1. q \in Headers!AllParts
      BY DEF Headers!AllParts
    <3>2. rec[b].rows[q] \in Nat
      BY <1>1, <3>1 DEF QuotaRecord
    <3> QED BY <1>2, <2>2, <3>2
  <2> QED BY <2>1, <2>2
<1> QED BY <1>2, <1>3 DEF RecordStep
LEMMA AppendKeepsPending ==
    ASSUME HeaderConstants, HeaderInv, NEW a \in HAuth, NEW raw \in Raw, NEW t \in 1..hnow,
           Headers!TryAppendUsageHeaderSnapshots(a, raw, t)
    PROVE  PendingTypes'
<1> DEFINE s == Headers!Snapshot(raw, a, t)
           k == Headers!Key(s)
<1>1. Pended(s) /\ k = <<s.provider, s.auth>>
  BY SnapshotIsPended DEF HeaderInv, HeaderTypes
<1>2. \A l \in DOMAIN pending : Pended(pending[l]) /\ l = <<pending[l].provider, pending[l].auth>>
  BY DEF HeaderInv, PendingTypes
<1> DEFINE m == Headers!MergePending(pending[k], s)
<1>3. k \in DOMAIN pending => Pended(m) /\ k = <<m.provider, m.auth>>
  BY <1>1, <1>2, MergeIsPended
<1>4. \/ k \in DOMAIN pending /\ pending' = Headers!Put(k, m)
      \/ pending' = Headers!Put(k, s)
      \/ pending' = pending
      \/ pending' = [l \in (DOMAIN pending \ {Headers!Oldest}) \union {k} |-> IF l = k THEN s ELSE pending[l]]
  BY DEF Headers!TryAppendUsageHeaderSnapshots
<1> HIDE DEF s, k, m
<1>5. ASSUME NEW l \in DOMAIN pending' PROVE Pended(pending'[l]) /\ l = <<pending'[l].provider, pending'[l].auth>>
  <2>1. \/ l = k /\ k \in DOMAIN pending /\ pending'[l] = m
        \/ l = k /\ pending'[l] = s
        \/ l \in DOMAIN pending /\ pending'[l] = pending[l]
    BY <1>4 DEF Headers!Put
  <2> QED BY <1>1, <1>2, <1>3, <2>1
<1> QED BY <1>5 DEF PendingTypes

LEMMA HeaderStep ==
    HeaderConstants /\ HeaderInv /\ [Headers!Next]_(Headers!hvars) => HeaderInv' /\ RecordStep
<1> SUFFICES ASSUME HeaderConstants, HeaderInv, [Headers!Next]_(Headers!hvars) PROVE HeaderInv' /\ RecordStep
  OBVIOUS
<1>0. ASSUME hnow' \in Nat, itype' \in [HAuth -> Provider], RecordStep, PendingTypes', JobTypes'
      PROVE  HeaderInv' /\ RecordStep
  BY <1>0 DEF HeaderInv, HeaderTypes, RecordStep
<1>a. hnow \in Nat /\ itype \in [HAuth -> Provider] /\ rec \in [HAuth -> QuotaRecord] /\ PendingTypes /\ JobTypes
  BY DEF HeaderInv, HeaderTypes
<1>b. UNCHANGED pending => PendingTypes'
  BY <1>a DEF PendingTypes
<1>c. UNCHANGED jobs => JobTypes'
  BY <1>a DEF JobTypes
<1>1. ASSUME NEW a \in HAuth, NEW raw \in Raw, NEW t \in 1..hnow, Headers!TryAppendUsageHeaderSnapshots(a, raw, t)
      PROVE  HeaderInv' /\ RecordStep
  <2>1. UNCHANGED <<hnow, itype, rec, jobs>>
    BY <1>1 DEF Headers!TryAppendUsageHeaderSnapshots
  <2>2. PendingTypes'
    BY <1>1, AppendKeepsPending
  <2> QED BY <1>0, <1>a, <1>c, <2>1, <2>2, SameRecords
<1>2. CASE UNCHANGED <<rec, itype, pending, jobs>> /\ hnow' \in Nat
  BY <1>0, <1>2, <1>a, <1>b, <1>c, SameRecords
<1>3. ASSUME NEW looked \in BOOLEAN, Headers!TakePending(looked), UNCHANGED <<rec, itype, hnow>>
      PROVE  HeaderInv' /\ RecordStep
  BY <1>0, <1>3, <1>a, TakenAreJobs, SameRecords
<1>4. ASSUME NEW j \in jobs, Headers!JobChecks(j) PROVE HeaderInv' /\ RecordStep
  <2>1. UNCHANGED <<hnow, itype, rec, pending>>
    BY <1>4 DEF Headers!JobChecks
  <2>2. \A i \in jobs' : i \in jobs \/ i = [j EXCEPT !.checked = TRUE] \/ i \in Headers!Remains(j)
    BY <1>4 DEF Headers!JobChecks
  <2>3. JobTypes'
    BY <1>a, <2>2, RemainingIsAJob DEF JobTypes
  <2> QED BY <1>0, <1>a, <1>b, <2>1, <2>3, SameRecords
<1>5. ASSUME NEW j \in jobs, Headers!JobMerges(j) PROVE HeaderInv' /\ RecordStep
  <2> DEFINE s == Head(j.todo)
             r == rec[s.auth]
             x == [status |-> "completed", type |-> s.provider,
                   rows |-> Headers!MergedRows(r, s, s.provider), at |-> s.at]
  <2>1. UNCHANGED <<hnow, itype, pending>>
    BY <1>5 DEF Headers!JobMerges
  <2>2. \A i \in jobs' : i \in jobs \/ i \in Headers!Remains(j)
    BY <1>5 DEF Headers!JobMerges
  <2>3. JobTypes'
    BY <1>a, <2>2, RemainingIsAJob DEF JobTypes
  <2>4. s \in Window /\ s.provider = j.type /\ s.auth \in HAuth
    <3>1. s \in Window /\ s.provider = j.type
      BY <1>a, RemainingIsAJob DEF JobTypes
    <3> QED BY <3>1 DEF Window, Snap
  <2>5. CASE UNCHANGED rec
    BY <1>0, <1>a, <1>b, <2>1, <2>3, <2>5, SameRecords
  <2>6. CASE Headers!ShouldProcess(r, j.type, s.at) /\ rec' = [rec EXCEPT ![s.auth] = x]
    <3>1. r \in QuotaRecord
      BY <1>a, <2>4
    <3>2. /\ x \in QuotaRecord
          /\ r.status = "completed" /\ r.type = s.provider =>
                 \A q \in {"flag", "five", "seven"} : x.rows[q] >= r.rows[q]
      BY <2>4, <2>6, <3>1, MergedIsNewer
    <3>3. x.type = s.provider
      OBVIOUS
    <3> HIDE DEF x, r, s
    <3>4. RecordStep
      BY <2>4, <2>6, <3>2, <3>3, OneRecord DEF r
    <3> QED BY <1>0, <1>a, <1>b, <2>1, <2>3, <3>4
  <2> QED BY <1>5, <2>4, <2>5, <2>6 DEF Headers!JobMerges
<1>6. ASSUME NEW a \in HAuth, Headers!RefreshStarts(a) PROVE HeaderInv' /\ RecordStep
  <2> DEFINE x == [Headers!NoRecord EXCEPT !.status = "active", !.type = itype[a]]
  <2>1. Headers!NoRecord \in QuotaRecord /\ itype[a] \in Provider
    BY <1>a DEF QuotaRecord, Headers!NoRecord, Headers!Absent
  <2>2. rec' = [rec EXCEPT ![a] = x] /\ UNCHANGED <<hnow, itype, pending, jobs>>
    BY <1>6 DEF Headers!RefreshStarts
  <2>3. x \in QuotaRecord /\ x.status = "active"
    <3>1. \A q \in Headers!AllParts : Headers!NoRecord.rows[q] = 0
      BY DEF Headers!NoRecord, Headers!Absent
    <3> QED BY <2>1, <3>1 DEF QuotaRecord
  <2> HIDE DEF x
  <2>4. RecordStep
    BY <2>2, <2>3, OneRecord
  <2> QED BY <1>0, <1>a, <1>b, <1>c, <2>2, <2>4
<1>7. ASSUME NEW a \in HAuth, Headers!RefreshEnds(a) PROVE HeaderInv' /\ RecordStep
  <2>1. rec[a].status = "active" /\ UNCHANGED <<hnow, itype, pending, jobs>>
    BY <1>7 DEF Headers!RefreshEnds
  <2>2. PICK status \in {"completed", "failed"} :
          rec' = [rec EXCEPT ![a].status = status, ![a].at = hnow,
                             ![a].rows = IF status = "completed"
                                         THEN Headers!At(Headers!Parts(rec[a].type), hnow) ELSE Headers!Absent]
    BY <1>7 DEF Headers!RefreshEnds
  <2> DEFINE p == IF status = "completed" THEN Headers!At(Headers!Parts(rec[a].type), hnow) ELSE Headers!Absent
             x == [rec[a] EXCEPT !.status = status, !.at = hnow, !.rows = p]
  <2>3. /\ p \in [Headers!AllParts -> Nat]
        /\ \A q \in Headers!AllParts : p[q] <= hnow /\ (status # "completed" => p[q] = 0)
    BY <1>a, AtTypes DEF Headers!Absent
  <2> HIDE DEF p
  <2>4. rec[a] \in QuotaRecord
    BY <1>a
  <2>5. rec' = [rec EXCEPT ![a] = x]
    BY <1>a, <2>2 DEF p
  <2>6. x \in QuotaRecord
    BY <1>a, <2>3, <2>4 DEF QuotaRecord
  <2>7. RecordStep
    BY <2>1, <2>5, <2>6, OneRecord
  <2> QED BY <1>0, <1>a, <1>b, <1>c, <2>1, <2>7
<1>8. ASSUME NEW a \in HAuth, Headers!RecordExpires(a) PROVE HeaderInv' /\ RecordStep
  <2>1. rec' = [rec EXCEPT ![a] = Headers!NoRecord] /\ UNCHANGED <<hnow, itype, pending, jobs>>
    BY <1>8 DEF Headers!RecordExpires
  <2>2. Headers!NoRecord \in QuotaRecord /\ Headers!NoRecord.status = "none"
    BY DEF QuotaRecord, Headers!NoRecord, Headers!Absent
  <2>3. RecordStep
    BY <2>1, <2>2, OneRecord
  <2> QED BY <1>0, <1>a, <1>b, <1>c, <2>1, <2>3
<1>9. ASSUME NEW a \in HAuth, Headers!IdentityChanges(a) PROVE HeaderInv' /\ RecordStep
  <2>1. UNCHANGED <<hnow, rec, pending, jobs>>
    BY <1>9 DEF Headers!IdentityChanges
  <2>2. itype' \in [HAuth -> Provider]
    BY <1>9, <1>a DEF Headers!IdentityChanges, Provider
  <2> QED BY <1>0, <1>a, <1>b, <1>c, <2>1, <2>2, SameRecords
<1>10. CASE \/ Headers!AppenderWakes \/ Headers!WorkerHearsWake \/ Headers!FlushEnds
            \/ Headers!StopUsageHeaderSnapshotWorker \/ UNCHANGED Headers!hvars
  <2>1. UNCHANGED <<hnow, rec, itype, pending, jobs>>
    BY <1>10 DEF Headers!AppenderWakes, Headers!WorkerHearsWake, Headers!FlushEnds,
                 Headers!StopUsageHeaderSnapshotWorker, Headers!hvars
  <2> QED BY <1>2, <1>a, <2>1
<1>11. CASE Headers!ClockTicks
  BY <1>2, <1>a, <1>11 DEF Headers!ClockTicks
<1>12. CASE Headers!TimerFires(TRUE) \/ Headers!TimerFires(FALSE) \/ Headers!WorkerStops
  BY <1>3, <1>12 DEF Headers!TimerFires, Headers!WorkerStops
<1> QED BY <1>1, <1>4, <1>5, <1>6, <1>7, <1>8, <1>9, <1>10, <1>11, <1>12 DEF Headers!Next, Headers!WorkerStep

\* FlagAndWindowsNeverRollBack: whatever the order in which headers arrive,
\* are merged in the pending map, split into windows and applied by the two
\* workers, and whatever refreshes come between, the limit-reached flag and the
\* Claude windows of a completed record never go back to an older observation
\* (applyPendingClaudeUsageHeaderSnapshot and mergeUsageHeaderQuotaCache in
\* internal/quota/header_cache_worker.go).
LEMMA HeadersMonotone ==
    ASSUME HeaderConstants
    PROVE  Headers!Spec => Headers!FlagAndWindowsNeverRollBack
<1>1. Headers!Init => HeaderInv
  <2> SUFFICES ASSUME Headers!Init PROVE HeaderInv
    OBVIOUS
  <2>1. {r.provider : r \in Raw} \subseteq Provider
    BY DEF HeaderConstants, Provider
  <2>2. itype \in [HAuth -> Provider] /\ hnow \in Nat
    BY <2>1 DEF Headers!Init
  <2>3. Headers!NoRecord \in QuotaRecord
    BY DEF QuotaRecord, Headers!NoRecord, Headers!Absent
  <2>4. rec \in [HAuth -> QuotaRecord]
    BY <2>3 DEF Headers!Init
  <2>5. PendingTypes /\ JobTypes
    BY DEF Headers!Init, PendingTypes, JobTypes
  <2> QED BY <2>2, <2>4, <2>5 DEF HeaderInv, HeaderTypes
<1>2. HeaderInv /\ [Headers!Next]_(Headers!hvars) => HeaderInv'
  BY HeaderStep
<1>3. HeaderInv /\ [Headers!Next]_(Headers!hvars)
      => [\A a \in HAuth : Headers!StaysCompleted(a) =>
             \A q \in {"flag", "five", "seven"} : rec'[a].rows[q] >= rec[a].rows[q]]_(Headers!hvars)
  BY HeaderStep DEF RecordStep
<1> QED BY <1>1, <1>2, <1>3, PTL DEF Headers!Spec, Headers!FlagAndWindowsNeverRollBack

-----------------------------------------------------------------------------
(***************************************************************************)
(* Resets.  The provider decides a request once, and what a request has    *)
(* answered is tied to that decision: an answer that denies a reset is     *)
(* given only while no call is open and no reset was spent.                *)
(***************************************************************************)


Code == {"", "in_progress", "unavailable", "unsupported", "not_found", "refused", "error", "unknown", "reset",
         "already_used"}
ResetRequest == [pc : {"shown", "resolve", "sent", "recover", "answered"}, a : RAuth, grant : Grant \cup {0},
                 via : {"none", "codex", "claude"}, code : Code, failed : BOOLEAN]
LedgerEntry == [r : RReq, a : RAuth, grant : Grant \cup {0}]
Spent == {ledger[i].r : i \in DOMAIN ledger}

ResetTypes ==
    /\ resets \in [RReq -> ResetRequest \cup {Resets!NoRequest}]
    /\ ledger \in Seq(LedgerEntry)
    /\ reply \in [RReq -> {"none", "reset", "already_used", "refused"}]
    /\ calls \subseteq RReq

Told(r) ==
    /\ resets[r].pc \in {"idle", "shown", "resolve"} => r \notin calls /\ reply[r] = "none"
    /\ reply[r] # "none" => r \notin calls
    /\ r \in Spent <=> reply[r] = "reset"
    /\ r \in calls \/ reply[r] # "none" =>
          resets[r].via = "claude" \/ (resets[r].via = "codex" /\ resets[r].grant = 0)
    /\ resets[r].pc = "recover" => reply[r] = "reset" \/ reply[r] = "already_used"
    /\ resets[r].pc = "answered" =>
          /\ resets[r].code \in Resets!Refusals => r \notin calls /\ reply[r] # "reset"
          /\ resets[r].code = "reset" => reply[r] = "reset" /\ (~resets[r].failed => resets[r].a \notin cooling)

LedgerInv ==
    /\ \A i, j \in DOMAIN ledger : ledger[i].r = ledger[j].r => i = j
    /\ \A i \in DOMAIN ledger : /\ ledger[i].a = resets[ledger[i].r].a
                                /\ ledger[i].grant = resets[ledger[i].r].grant

FlightInv ==
    /\ \A r \in RReq : Resets!UnderWay(r) => resets[r].a \in resetInFlight
    /\ \A r, q \in RReq : Resets!UnderWay(r) /\ Resets!UnderWay(q) /\ resets[r].a = resets[q].a => r = q

ResetInv == ResetTypes /\ LedgerInv /\ FlightInv /\ \A r \in RReq : Told(r)

LEMMA NotIdle ==
    ASSUME ResetTypes, NEW r \in RReq
    PROVE  /\ resets[r].pc # "idle" => resets[r] \in ResetRequest
           /\ resets[r] = Resets!NoRequest => resets[r].pc = "idle"
           /\ resets[r] = Resets!NoRequest \/ resets[r] \in ResetRequest
<1>1. resets[r] = Resets!NoRequest \/ resets[r] \in ResetRequest
  BY DEF ResetTypes
<1>2. Resets!NoRequest.pc = "idle"
  BY DEF Resets!NoRequest
<1> QED BY <1>1, <1>2

\* One request moves; the provider decides nothing.
LEMMA RequestMoves ==
    ASSUME ResetInv, NEW r \in RReq, NEW x \in ResetRequest, resets' = [resets EXCEPT ![r] = x],
           UNCHANGED <<ledger, reply>>, calls' = calls \/ calls' = calls \cup {r},
           cooling' \subseteq cooling, Told(r)',
           r \in Spent => x.a = resets[r].a /\ x.grant = resets[r].grant,
           x.pc \in {"resolve", "sent", "recover"} =>
              /\ x.a \in resetInFlight'
              /\ (Resets!UnderWay(r) /\ x.a = resets[r].a) \/ x.a \notin resetInFlight,
           \A a \in resetInFlight : a \in resetInFlight' \/ (Resets!UnderWay(r) /\ a = resets[r].a)
    PROVE  ResetInv'
<1>1. /\ resets' \in [RReq -> ResetRequest \cup {Resets!NoRequest}] /\ resets'[r] = x
      /\ \A q \in RReq : q # r => resets'[q] = resets[q]
  BY DEF ResetInv, ResetTypes
<1>2. ResetTypes'
  BY <1>1 DEF ResetInv, ResetTypes
<1>3. Spent' = Spent
  BY DEF Spent
<1>4. \A q \in RReq : q # r => Told(q)'
  BY <1>1, <1>3 DEF ResetInv, Told
<1>5. LedgerInv'
  <2>1. \A i \in DOMAIN ledger : ledger[i].r \in RReq /\ ledger[i].r \in Spent
    <3>1. \A i \in DOMAIN ledger : ledger[i].r \in Spent
      BY DEF Spent
    <3>2. \A i \in DOMAIN ledger : ledger[i] \in LedgerEntry
      BY DEF ResetInv, ResetTypes
    <3> QED BY <3>1, <3>2 DEF LedgerEntry
  <2> QED BY <1>1, <2>1 DEF ResetInv, LedgerInv
<1>6. FlightInv'
  <2>1. \A q \in RReq : q # r => (Resets!UnderWay(q)' <=> Resets!UnderWay(q))
    BY <1>1 DEF Resets!UnderWay
  <2>2. Resets!UnderWay(r)' <=> x.pc \in {"resolve", "sent", "recover"}
    BY <1>1 DEF Resets!UnderWay
  <2>3. \A q \in RReq : q # r /\ Resets!UnderWay(q) =>
           /\ resets[q].a \in resetInFlight
           /\ Resets!UnderWay(r) => resets[q].a # resets[r].a
    BY DEF ResetInv, FlightInv
  <2>4. \A q \in RReq : q # r /\ Resets!UnderWay(q)' => resets'[q].a \in resetInFlight'
    BY <1>1, <2>1, <2>3
  <2>5. \A q \in RReq : q # r /\ Resets!UnderWay(q)' /\ Resets!UnderWay(r)' => resets'[q].a # x.a
    BY <1>1, <2>1, <2>2, <2>3
  <2>6. \A p, q \in RReq : p # r /\ q # r /\ Resets!UnderWay(p)' /\ Resets!UnderWay(q)' /\ resets'[p].a = resets'[q].a
           => p = q
    BY <1>1, <2>1 DEF ResetInv, FlightInv
  <2>7. Resets!UnderWay(r)' => resets'[r].a \in resetInFlight'
    BY <1>1, <2>2
  <2> QED BY <1>1, <2>4, <2>5, <2>6, <2>7 DEF FlightInv
<1> QED BY <1>2, <1>4, <1>5, <1>6 DEF ResetInv

\* The answer to a request under way, given in Finish.
LEMMA FinishMoves ==
    ASSUME ResetInv, NEW r \in RReq, Resets!UnderWay(r), NEW code \in Code, NEW failed \in BOOLEAN,
           Resets!Finish(r, code, failed), UNCHANGED <<ledger, reply, calls>>, cooling' \subseteq cooling,
           code \in Resets!Refusals => r \notin calls /\ reply[r] # "reset",
           code = "reset" => reply[r] = "reset" /\ (~failed => resets[r].a \notin cooling')
    PROVE  ResetInv'
<1> DEFINE x == Resets!Answered(resets[r], code, failed)
<1>1. resets[r] \in ResetRequest /\ resets[r].pc \in {"resolve", "sent", "recover"}
  BY NotIdle DEF ResetInv, Resets!UnderWay
<1>2. /\ x \in ResetRequest /\ x.pc = "answered" /\ x.code = code /\ x.failed = failed
      /\ x.a = resets[r].a /\ x.grant = resets[r].grant /\ x.via = resets[r].via
  BY <1>1 DEF ResetRequest, Resets!Answered
<1>3. resets' = [resets EXCEPT ![r] = x] /\ resetInFlight' = resetInFlight \ {resets[r].a}
  BY DEF Resets!Finish
<1> HIDE DEF x
<1>4. resets'[r] = x /\ Spent' = Spent
  BY <1>3 DEF ResetInv, ResetTypes, Spent
<1>5. Told(r)'
  BY <1>2, <1>4 DEF ResetInv, Told
<1> QED BY <1>2, <1>3, <1>5, RequestMoves
LEMMA GrantIsShown ==
    ASSUME ResetConstants, NEW a \in RAuth, NEW next \in Grant, \E g \in Grant : Resets!Usable(a, g)
    PROVE  Resets!SelectGrant(a, next) \in Grant
<1> DEFINE U == {g \in Grant : Resets!Usable(a, g)}
<1>1. U \subseteq Nat /\ U # {} /\ U \subseteq Grant
  BY DEF ResetConstants
<1>2. \E m \in U : \A y \in U : m <= y
  BY <1>1, MinExists
<1>3. Resets!Min(U) \in U
  BY <1>2 DEF Resets!Min
<1>4. Resets!SelectGrant(a, next) \in U
  BY <1>3 DEF Resets!SelectGrant
<1> QED BY <1>1, <1>4

\* What the provider decides is decided once for a request.
LEMMA DecisionStep ==
    ASSUME ResetInv, NEW r \in RReq, Resets!ProviderDecides(r)
    PROVE  ResetInv'
<1> DEFINE a == resets[r].a
           g == IF resets[r].via = "claude" THEN resets[r].grant ELSE 0
           e == [r |-> r, a |-> a, grant |-> g]
<1>1. /\ r \in calls /\ calls' = calls \ {r} /\ UNCHANGED <<resets, resetInFlight, cooling>>
  BY DEF Resets!ProviderDecides
<1>2. /\ reply[r] = "none" /\ r \notin Spent /\ resets[r].pc # "idle" /\ resets[r].pc # "shown"
      /\ resets[r].pc # "resolve" /\ resets[r].pc # "recover"
      /\ resets[r].via = "claude" \/ (resets[r].via = "codex" /\ resets[r].grant = 0)
      /\ resets[r].pc = "answered" => resets[r].code \notin Resets!Refusals /\ resets[r].code # "reset"
  BY <1>1 DEF ResetInv, Told
<1>3. resets[r] \in ResetRequest
  BY <1>2, NotIdle DEF ResetInv
<1>4. a \in RAuth /\ g \in Grant \cup {0} /\ g = resets[r].grant
  BY <1>2, <1>3 DEF ResetRequest
<1>5. e \in LedgerEntry /\ e.r = r /\ e.a = a /\ e.grant = g
  BY <1>4 DEF LedgerEntry
<1>6. ledger \in Seq(LedgerEntry) /\ reply \in [RReq -> {"none", "reset", "already_used", "refused"}]
  BY DEF ResetInv, ResetTypes
<1>7. FlightInv'
  BY <1>1 DEF ResetInv, FlightInv, Resets!UnderWay
<1>8. CASE ledger' = Append(ledger, e) /\ reply' = [reply EXCEPT ![r] = "reset"]
  <2>1. /\ Len(ledger) \in Nat /\ DOMAIN ledger = 1..Len(ledger) /\ DOMAIN ledger' = 1..(Len(ledger) + 1)
        /\ ledger' \in Seq(LedgerEntry)
    BY <1>5, <1>6, <1>8, ElemsAppend
  <2>2. ledger'[Len(ledger) + 1] = e /\ \A i \in 1..Len(ledger) : ledger'[i] = ledger[i]
    BY <1>5, <1>6, <1>8
  <2> HIDE DEF e
  <2>3. Spent' = Spent \cup {r}
    BY <1>5, <2>1, <2>2 DEF Spent
  <2>4. ResetTypes'
    BY <1>1, <1>6, <1>8, <2>1 DEF ResetInv, ResetTypes
  <2>5. \A i \in 1..Len(ledger) : ledger[i].r # r /\ ledger[i].r \in RReq
    <3>1. \A i \in 1..Len(ledger) : ledger[i].r \in Spent
      BY <2>1 DEF Spent
    <3>2. \A i \in 1..Len(ledger) : ledger[i] \in LedgerEntry
      BY <1>6
    <3> QED BY <1>2, <3>1, <3>2 DEF LedgerEntry
  <2>6. LedgerInv'
    <3>1. \A i, j \in 1..Len(ledger) : ledger'[i].r = ledger'[j].r => i = j
      BY <2>1, <2>2 DEF ResetInv, LedgerInv
    <3>2. \A i \in 1..Len(ledger) : ledger'[i].r # ledger'[Len(ledger) + 1].r
      BY <1>5, <2>2, <2>5
    <3>3. \A i, j \in DOMAIN ledger' : ledger'[i].r = ledger'[j].r => i = j
      <4> SUFFICES ASSUME NEW i \in DOMAIN ledger', NEW j \in DOMAIN ledger', ledger'[i].r = ledger'[j].r, i # j
                   PROVE FALSE
        OBVIOUS
      <4>1. (i \in 1..Len(ledger) \/ i = Len(ledger) + 1) /\ (j \in 1..Len(ledger) \/ j = Len(ledger) + 1)
        BY <2>1
      <4> QED BY <3>1, <3>2, <4>1
    <3>4. \A i \in 1..Len(ledger) : /\ ledger'[i].a = resets'[ledger'[i].r].a
                                    /\ ledger'[i].grant = resets'[ledger'[i].r].grant
      BY <1>1, <2>1, <2>2 DEF ResetInv, LedgerInv
    <3>5. /\ ledger'[Len(ledger) + 1].a = resets'[ledger'[Len(ledger) + 1].r].a
          /\ ledger'[Len(ledger) + 1].grant = resets'[ledger'[Len(ledger) + 1].r].grant
      BY <1>1, <1>4, <1>5, <2>2
    <3>6. \A i \in DOMAIN ledger' : i \in 1..Len(ledger) \/ i = Len(ledger) + 1
      BY <2>1
    <3> QED BY <3>3, <3>4, <3>5, <3>6 DEF LedgerInv
  <2>7. reply'[r] = "reset" /\ \A q \in RReq : q # r => reply'[q] = reply[q]
    BY <1>6, <1>8
  <2>8. Told(r)'
    BY <1>1, <1>2, <2>3, <2>7 DEF Told
  <2>9. \A q \in RReq : q # r => Told(q)'
    BY <1>1, <2>3, <2>7 DEF ResetInv, Told
  <2> QED BY <1>7, <2>4, <2>6, <2>8, <2>9 DEF ResetInv
<1>9. CASE UNCHANGED ledger /\ \E x \in {"already_used", "refused"} : reply' = [reply EXCEPT ![r] = x]
  <2>1. PICK x \in {"already_used", "refused"} : reply' = [reply EXCEPT ![r] = x]
    BY <1>9
  <2>2. reply'[r] = x /\ \A q \in RReq : q # r => reply'[q] = reply[q]
    BY <1>6, <2>1
  <2>3. Spent' = Spent
    BY <1>9 DEF Spent
  <2>4. ResetTypes' /\ LedgerInv'
    BY <1>1, <1>6, <1>9, <2>1 DEF ResetInv, ResetTypes, LedgerInv
  <2>5. Told(r)'
    BY <1>1, <1>2, <2>2, <2>3 DEF Told
  <2>6. \A q \in RReq : q # r => Told(q)'
    BY <1>1, <2>2, <2>3 DEF ResetInv, Told
  <2> QED BY <1>7, <2>4, <2>5, <2>6 DEF ResetInv
<1> QED BY <1>8, <1>9 DEF Resets!ProviderDecides

\* A dialog that was opened, and a request that was sent from it.
LEMMA ShownStep ==
    ASSUME ResetConstants, ResetInv, NEW r \in RReq, NEW a \in RAuth, Resets!ListClaudeResetGrants(r, a)
    PROVE  ResetInv'
<1>1. PICK next \in Grant : resets' = [resets EXCEPT ![r] = Resets!Confirmed(a, Resets!SelectGrant(a, next))]
  BY DEF Resets!ListClaudeResetGrants
<1> DEFINE g == Resets!SelectGrant(a, next)
           x == Resets!Confirmed(a, g)
<1>2. g \in Grant
  BY GrantIsShown DEF Resets!ListClaudeResetGrants
<1> HIDE DEF g
<1>3. x \in ResetRequest /\ x.pc = "shown"
  BY <1>2 DEF ResetRequest, Resets!Confirmed, Code
<1>4. resets' = [resets EXCEPT ![r] = x]
  BY <1>1 DEF g
<1> HIDE DEF x
<1>5. resets[r] = Resets!NoRequest /\ UNCHANGED <<ledger, reply, calls, cooling, resetInFlight>>
  BY DEF Resets!ListClaudeResetGrants
<1>6. r \notin calls /\ reply[r] = "none" /\ r \notin Spent
  BY <1>5, NotIdle DEF ResetInv, Told
<1>7. resets'[r] = x /\ Spent' = Spent
  BY <1>4, <1>5 DEF ResetInv, ResetTypes, Spent
<1>8. Told(r)'
  BY <1>3, <1>5, <1>6, <1>7 DEF Told
<1> QED BY <1>3, <1>4, <1>5, <1>6, <1>8, RequestMoves

LEMMA ResetStep ==
    ASSUME ResetInv, NEW r \in RReq, NEW a \in RAuth, Resets!Reset(r, a)
    PROVE  ResetInv'
<1> DEFINE q == IF resets[r] = Resets!NoRequest THEN Resets!Confirmed(a, 0) ELSE resets[r]
           x == Resets!Begin(q)
<1>1. resets' = [resets EXCEPT ![r] = x] /\ resetInFlight' = resetInFlight \cup {a}
      /\ UNCHANGED <<ledger, reply, calls, cooling>>
  BY DEF Resets!Reset
<1>2. q \in ResetRequest /\ q.a = a /\ resets[r].pc \in {"idle", "shown"}
  <2>1. CASE resets[r] = Resets!NoRequest
    <3>1. Resets!Confirmed(a, 0) \in ResetRequest /\ Resets!Confirmed(a, 0).a = a
      BY DEF Resets!Confirmed, ResetRequest, Code
    <3> QED BY <2>1, <3>1, NotIdle DEF ResetInv
  <2>2. CASE resets[r] # Resets!NoRequest
    BY <2>2, NotIdle DEF ResetInv, Resets!Reset
  <2> QED BY <2>1, <2>2
<1> HIDE DEF q
<1>3. /\ x \in ResetRequest /\ x.a = a
      /\ \/ x.pc = "answered" /\ x.code = "in_progress"
         \/ x.pc = "resolve" /\ a \notin resetInFlight
  BY <1>2 DEF Resets!Begin, Resets!Answered, ResetRequest, Code
<1> HIDE DEF x
<1>4. r \notin calls /\ reply[r] = "none" /\ r \notin Spent
  BY <1>2 DEF ResetInv, Told
<1>5. resets'[r] = x /\ Spent' = Spent
  BY <1>1 DEF ResetInv, ResetTypes, Spent
<1>6. Told(r)'
  BY <1>1, <1>3, <1>4, <1>5 DEF Told
<1> QED BY <1>1, <1>3, <1>4, <1>6, RequestMoves
LEMMA ResolveStep ==
    ASSUME ResetInv, NEW r \in RReq, Resets!Resolve(r)
    PROVE  ResetInv'
<1>1. resets[r].pc = "resolve" /\ UNCHANGED <<ledger, reply, cooling>>
  BY DEF Resets!Resolve
<1>2. resets[r] \in ResetRequest /\ Resets!UnderWay(r)
  BY <1>1, NotIdle DEF ResetInv, Resets!UnderWay
<1>3. r \notin calls /\ reply[r] = "none" /\ r \notin Spent
  BY <1>1 DEF ResetInv, Told
<1>4. ASSUME NEW provider \in {"claude", "codex"}, Resets!Send(r, provider),
             provider = "codex" => resets[r].grant = 0
      PROVE  ResetInv'
  <2> DEFINE x == [resets[r] EXCEPT !.pc = "sent", !.via = provider]
  <2>1. /\ x \in ResetRequest /\ x.pc = "sent" /\ x.via = provider
        /\ x.a = resets[r].a /\ x.grant = resets[r].grant
    BY <1>2 DEF ResetRequest
  <2>2. resets' = [resets EXCEPT ![r] = x] /\ calls' = calls \cup {r} /\ resetInFlight' = resetInFlight
    BY <1>4 DEF Resets!Send
  <2> HIDE DEF x
  <2>3. resets'[r] = x /\ Spent' = Spent
    BY <1>1, <2>2 DEF ResetInv, ResetTypes, Spent
  <2>4. Told(r)'
    BY <1>1, <1>3, <1>4, <2>1, <2>2, <2>3 DEF Told
  <2>5. x.a \in resetInFlight'
    BY <1>2, <2>1, <2>2 DEF ResetInv, FlightInv
  <2> QED BY <1>1, <1>2, <2>1, <2>2, <2>4, <2>5, RequestMoves
<1>5. ASSUME NEW code \in Code, code # "reset", Resets!Finish(r, code, FALSE), UNCHANGED calls
      PROVE  ResetInv'
  BY <1>1, <1>2, <1>3, <1>5, FinishMoves
<1>6. CASE \E code \in {"unavailable", "unsupported", "not_found"} : Resets!Refuse(r, code)
  BY <1>5, <1>6 DEF Resets!Refuse, Code
<1>7. CASE Resets!Finish(r, "error", FALSE) /\ UNCHANGED calls
  BY <1>5, <1>7 DEF Code
<1> QED BY <1>4, <1>6, <1>7 DEF Resets!Resolve

LEMMA ReplyStep ==
    ASSUME ResetInv, NEW r \in RReq, Resets!HearsReply(r)
    PROVE  ResetInv'
<1>1. resets[r].pc = "sent" /\ reply[r] # "none" /\ UNCHANGED <<ledger, reply, cooling, calls>>
  BY DEF Resets!HearsReply
<1>2. resets[r] \in ResetRequest /\ Resets!UnderWay(r)
  BY <1>1, NotIdle DEF ResetInv, Resets!UnderWay
<1>3. /\ r \notin calls /\ (r \in Spent <=> reply[r] = "reset")
      /\ resets[r].via = "claude" \/ (resets[r].via = "codex" /\ resets[r].grant = 0)
      /\ reply[r] = "reset" \/ reply[r] = "already_used" \/ reply[r] = "refused"
  BY <1>1 DEF ResetInv, Told, ResetTypes
<1>4. CASE Resets!Recovers(r)
  <2> DEFINE x == [resets[r] EXCEPT !.pc = "recover"]
  <2>1. /\ x \in ResetRequest /\ x.pc = "recover" /\ x.via = resets[r].via
        /\ x.a = resets[r].a /\ x.grant = resets[r].grant
    BY <1>2 DEF ResetRequest
  <2>2. resets' = [resets EXCEPT ![r] = x] /\ resetInFlight' = resetInFlight
    BY <1>4 DEF Resets!HearsReply
  <2> HIDE DEF x
  <2>3. resets'[r] = x /\ Spent' = Spent
    BY <1>1, <2>2 DEF ResetInv, ResetTypes, Spent
  <2>4. Told(r)'
    BY <1>1, <1>3, <1>4, <2>1, <2>3 DEF Told, Resets!Recovers
  <2>5. x.a \in resetInFlight'
    BY <1>2, <2>1, <2>2 DEF ResetInv, FlightInv
  <2> QED BY <1>1, <1>2, <2>1, <2>2, <2>4, <2>5, RequestMoves
<1>5. CASE ~Resets!Recovers(r)
  <2>1. Resets!Finish(r, Resets!Refusal(r), FALSE)
    BY <1>5 DEF Resets!HearsReply
  <2>2. reply[r] # "reset" /\ Resets!Refusal(r) \in Code /\ Resets!Refusal(r) # "reset"
    BY <1>3, <1>5 DEF Resets!Recovers, Resets!Refusal, Code
  <2> QED BY <1>1, <1>2, <1>3, <2>1, <2>2, FinishMoves
<1> QED BY <1>4, <1>5

LEMMA LostStep ==
    ASSUME ResetInv, NEW r \in RReq, Resets!LosesReply(r)
    PROVE  ResetInv'
<1> DEFINE code == IF resets[r].via = "codex" THEN "error" ELSE "unknown"
<1>1. resets[r].pc = "sent" /\ Resets!Finish(r, code, FALSE) /\ UNCHANGED <<ledger, reply, cooling, calls>>
  BY DEF Resets!LosesReply
<1>2. Resets!UnderWay(r)
  BY <1>1 DEF Resets!UnderWay
<1>3. code \in Code /\ code # "reset" /\ code \notin Resets!Refusals
  BY DEF Code, Resets!Refusals
<1> HIDE DEF code
<1> QED BY <1>1, <1>2, <1>3, FinishMoves

LEMMA RecoverStep ==
    ASSUME ResetInv, NEW r \in RReq, Resets!Recover(r)
    PROVE  ResetInv'
<1>1. resets[r].pc = "recover" /\ UNCHANGED <<ledger, reply, calls>>
  BY DEF Resets!Recover
<1>2. Resets!UnderWay(r)
  BY <1>1 DEF Resets!UnderWay
<1>3. /\ reply[r] = "reset" \/ reply[r] = "already_used"
      /\ reply[r] \in Code /\ reply[r] \notin Resets!Refusals
  BY <1>1 DEF ResetInv, Told, Code, Resets!Refusals
<1>4. \/ Resets!Finish(r, reply[r], FALSE) /\ cooling' = cooling \ {resets[r].a}
      \/ Resets!Finish(r, reply[r], TRUE) /\ cooling' = cooling
  BY DEF Resets!Recover
<1> QED BY <1>1, <1>2, <1>3, <1>4, FinishMoves

\* ResetIsAccountedFor: a request spends at most one reset, that of the account
\* and the grant it was confirmed for; no two resets of an account are under
\* way; and what the user was told stays true when the provider acts late,
\* whatever requests overlap and whichever answers are lost
\* (internal/quota/reset.go, claude_reset.go).
LEMMA ResetsAccounted ==
    ASSUME ResetConstants
    PROVE  Resets!Spec => []Resets!ResetIsAccountedFor
<1>1. Resets!Init => ResetInv
  <2> SUFFICES ASSUME Resets!Init PROVE ResetInv
    OBVIOUS
  <2>1. /\ resets = [r \in RReq |-> Resets!NoRequest] /\ ledger = <<>> /\ calls = {}
        /\ reply = [r \in RReq |-> "none"]
    BY DEF Resets!Init
  <2>2. \A r \in RReq : resets[r].pc = "idle"
    BY <2>1 DEF Resets!NoRequest
  <2>3. Spent = {} /\ DOMAIN ledger = {}
    BY <2>1 DEF Spent
  <2>4. \A r \in RReq : Told(r)
    BY <2>1, <2>2, <2>3 DEF Told
  <2>5. ResetTypes /\ LedgerInv
    BY <2>1, <2>3 DEF ResetTypes, LedgerInv
  <2>6. FlightInv
    BY <2>2 DEF FlightInv, Resets!UnderWay
  <2> QED BY <2>4, <2>5, <2>6 DEF ResetInv
<1>2. ResetInv /\ [Resets!Next]_(Resets!rvars) => ResetInv'
  <2> SUFFICES ASSUME ResetInv, [Resets!Next]_(Resets!rvars) PROVE ResetInv'
    OBVIOUS
  <2>1. CASE UNCHANGED <<cooling, resetInFlight, resets, calls, reply, ledger>>
    BY <2>1 DEF ResetInv, ResetTypes, LedgerInv, FlightInv, Told, Spent, Resets!UnderWay
  <2>2. CASE \E a \in RAuth : Resets!AccountChanges(a) \/ Resets!GrantCloses(a)
    BY <2>1, <2>2 DEF Resets!AccountChanges, Resets!GrantCloses
  <2>3. CASE UNCHANGED Resets!rvars
    BY <2>1, <2>3 DEF Resets!rvars
  <2> QED BY <2>2, <2>3, ShownStep, ResetStep, ResolveStep, DecisionStep, ReplyStep, LostStep, RecoverStep
          DEF Resets!Next
<1>3. ResetInv => Resets!ResetIsAccountedFor
  <2> SUFFICES ASSUME ResetInv PROVE Resets!ResetIsAccountedFor
    OBVIOUS
  <2>1. \A r \in RReq : r \notin Spent => \A i \in DOMAIN ledger : ledger[i].r # r
    BY DEF Spent
  <2>2. \A r \in RReq : r \in Spent => \E i \in DOMAIN ledger : ledger[i].r = r
    BY DEF Spent
  <2>3. \A r \in RReq : resets[r].pc = "answered" =>
          /\ resets[r].code \in Resets!Refusals => r \notin calls /\ r \notin Spent
          /\ resets[r].code = "reset" => r \in Spent /\ (~resets[r].failed => resets[r].a \notin cooling)
    BY DEF ResetInv, Told
  <2>4. /\ \A i, j \in DOMAIN ledger : ledger[i].r = ledger[j].r => i = j
        /\ \A i \in DOMAIN ledger : /\ ledger[i].a = resets[ledger[i].r].a
                                    /\ ledger[i].grant = resets[ledger[i].r].grant
        /\ \A r, q \in RReq : Resets!UnderWay(r) /\ Resets!UnderWay(q) /\ resets[r].a = resets[q].a => r = q
    BY DEF ResetInv, LedgerInv, FlightInv
  <2> QED BY <2>1, <2>2, <2>3, <2>4 DEF Resets!ResetIsAccountedFor
<1> QED BY <1>1, <1>2, <1>3, PTL DEF Resets!Spec
-----------------------------------------------------------------------------
(***************************************************************************)
(* The quota history: selections, sorts and inductions along an index.     *)
(***************************************************************************)

\* A list of indices along an order of integer keys, equal keys in place.
LEMMA OrderByKeys ==
    ASSUME NEW n \in Nat, NEW key \in [1..n -> Int]
    PROVE  \E p \in [1..n -> 1..n] :
              /\ \A i, j \in 1..n : i < j => key[p[i]] < key[p[j]] \/ (key[p[i]] = key[p[j]] /\ p[i] < p[j])
              /\ \A x \in 1..n : \E k \in 1..n : p[k] = x
<1>1. PICK R : R = {x \in (1..n) \X (1..n) : key[x[1]] < key[x[2]] \/ (key[x[1]] = key[x[2]] /\ x[1] < x[2])}
  OBVIOUS
<1>2. \A i, j \in 1..n : <<i, j>> \in R <=> key[i] < key[j] \/ (key[i] = key[j] /\ i < j)
  BY <1>1
<1>3. PICK D : D = 1..n
  OBVIOUS
<1>4. OrderOn(R, D)
  BY <1>2, <1>3 DEF OrderOn
<1>5. IsFiniteSet(D) /\ Cardinality(D) = n /\ D \subseteq D
  BY <1>3, FS_Interval
<1>6. \E s \in [1..Cardinality(D) -> D] : Lists(s, D, R)
  BY <1>4, <1>5, ListExists
<1>7. PICK s \in [1..Cardinality(D) -> D] : Lists(s, D, R)
  BY <1>6
<1>8. s \in [1..n -> 1..n]
  BY <1>3, <1>5, <1>7
<1>9. \A i, j \in 1..n : i < j => <<s[i], s[j]>> \in R
  BY <1>5, <1>7 DEF Lists
<1>10. \A x \in 1..n : \E k \in 1..n : s[k] = x
  BY <1>3, <1>5, <1>7 DEF Lists
<1> QED BY <1>2, <1>8, <1>9, <1>10

\* What a stable sort by a time returns.
SortedBy(time, seq, res) ==
    \E p \in [1..Len(seq) -> 1..Len(seq)] :
        /\ res = [k \in 1..Len(seq) |-> seq[p[k]]]
        /\ \A i, j \in 1..Len(seq) : i < j => \/ seq[p[i]][time] < seq[p[j]][time]
                                              \/ seq[p[i]][time] = seq[p[j]][time] /\ p[i] < p[j]

\* SortBy lists its argument along the keys, equal keys in place.
LEMMA SortBySorts ==
    ASSUME NEW S, NEW seq \in Seq(S), NEW time, \A x \in S : x[time] \in Int
    PROVE  SortedBy(time, seq, History!SortBy(time, seq))
<1>1. PICK n \in Nat : n = Len(seq) /\ DOMAIN seq = 1..n /\ \A i \in 1..n : seq[i] \in S
  OBVIOUS
<1>2. PICK key \in [1..n -> Int] : key = [i \in 1..n |-> seq[i][time]]
  <2>1. \A i \in 1..n : seq[i][time] \in Int
    BY <1>1
  <2> QED BY <2>1
<1>3. PICK q \in [1..n -> 1..n] :
             \A i, j \in 1..n : i < j => key[q[i]] < key[q[j]] \/ (key[q[i]] = key[q[j]] /\ q[i] < q[j])
  BY OrderByKeys
<1> DEFINE Fits(p) == \A i, j \in DOMAIN seq : i < j => \/ seq[p[i]][time] < seq[p[j]][time]
                                                        \/ (seq[p[i]][time] = seq[p[j]][time] /\ p[i] < p[j])
<1>4. Fits(q)
  <2>1. \A i \in 1..n : q[i] \in 1..n /\ key[q[i]] = seq[q[i]][time]
    BY <1>2, <1>3
  <2> QED BY <1>1, <1>3, <2>1
<1>5. PICK p : p = CHOOSE x \in [DOMAIN seq -> DOMAIN seq] : Fits(x)
  OBVIOUS
<1>6. p \in [DOMAIN seq -> DOMAIN seq] /\ Fits(p)
  <2>1. q \in [DOMAIN seq -> DOMAIN seq]
    BY <1>1
  <2> HIDE DEF Fits
  <2> QED BY <1>4, <1>5, <2>1
<1>7. History!SortBy(time, seq) = [k \in DOMAIN seq |-> seq[p[k]]]
  BY <1>5 DEF History!SortBy
<1> QED BY <1>1, <1>6, <1>7 DEF SortedBy

\* What a selection of places returns.
SelectedFrom(seq, places, res) ==
    \E n \in Nat : \E p \in [1..n -> places] :
        /\ res = [k \in 1..n |-> seq[p[k]]]
        /\ \A i, j \in 1..n : i < j => p[i] < p[j]
        /\ \A x \in places : \E k \in 1..n : p[k] = x

\* The instance counts as the module itself does.
LEMMA HistoryCardinality == \A S : History!Cardinality(S) = Cardinality(S)
BY Zenon DEF History!Cardinality, Cardinality

\* Selected keeps the places it is given, in their order.
LEMMA SelectedSelects ==
    ASSUME NEW S, NEW seq \in Seq(S), NEW places \in SUBSET (DOMAIN seq)
    PROVE  SelectedFrom(seq, places, History!Selected(seq, places))
<1>1. Len(seq) \in Nat /\ places \subseteq 1..Len(seq)
  OBVIOUS
<1>2. History!InOrder(places) = InOrder(places)
  <2>1. History!Cardinality(places) = Cardinality(places)
    BY HistoryCardinality
  <2> QED BY <2>1, Zenon DEF History!InOrder, InOrder, History!Ascending, Ascending, History!Elems, Elems
<1>3. PICK p : p = InOrder(places)
  OBVIOUS
<1>4. p \in Seq(1..Len(seq)) /\ Elems(p) = places /\ Ascending(p)
  BY <1>1, <1>3, InOrderEnumerates
<1>5. PICK n \in Nat : n = Len(p) /\ DOMAIN p = 1..n /\ p = [k \in 1..n |-> p[k]]
  BY <1>4
<1>6. p \in [1..n -> places] /\ \A x \in places : \E k \in 1..n : p[k] = x
  BY <1>4, <1>5 DEF Elems
<1>7. \A i, j \in 1..n : i < j => p[i] < p[j]
  BY <1>4, <1>5 DEF Ascending
<1>8. History!Selected(seq, places) = [k \in 1..n |-> seq[p[k]]]
  BY <1>2, <1>3, <1>5 DEF History!Selected
<1> QED BY <1>6, <1>7, <1>8 DEF SelectedFrom

-----------------------------------------------------------------------------
(***************************************************************************)
(* The stored cycles of a role.                                            *)
(***************************************************************************)

\* What the reports of a role name: the resets of a window length.
Marks(r, w) == {s.reset : s \in {x \in HistoryShape : x.role = r /\ x.win = w}}
Lengths == {s.win : s \in HistoryShape}
Origins == {s.src : s \in HistoryShape}

Segments == [pct : Int, first : Int, last : Int]

Descends(segs) ==
    /\ \A i \in 1..Len(segs) : segs[i].first <= segs[i].last
    /\ \A i, j \in 1..Len(segs) : i < j => segs[i].pct > segs[j].pct /\ segs[i].last < segs[j].first

\* Observations, raw or merged, what is remembered, and stored cycles.
ObsOf(r) ==
    {o \in [role : Role, win : Lengths, src : Origins, reset : Int, pct : Int, first : Int, last : Int, auth : BOOLEAN] :
        o.role = r /\ o.reset \in Marks(r, o.win) /\ o.first <= o.last}
KnownOf(r) ==
    {c \in [found : {TRUE}, win : Lengths, src : Origins, reset : Int, pct : Int, last : Int] :
        c.reset \in Marks(r, c.win)}
CycleOf(r) ==
    {c \in [win : Lengths, src : Origins, reset : Int, first : Int, last : Int, segs : Seq(Segments)] :
        /\ c.reset \in Marks(r, c.win) /\ Descends(c.segs) /\ c.segs # <<>>
        /\ c.last = c.segs[Len(c.segs)].last}

\* No two cycles match.
Apart(cs) == \A i, j \in 1..Len(cs) : i # j => ~History!Matches(cs[i], cs[j])
Stored(r, cs) == cs \in Seq(CycleOf(r)) /\ Apart(cs)
EndsBy(cs, t) == \A i \in 1..Len(cs) : cs[i].last <= t

\* The reset of a report and of what it is compared with.
Marked(r, x) == x.reset \in Int /\ x.reset \in Marks(r, x.win)

\* Where drift is bounded, to match is an equivalence.
LEMMA MatchingIsTransitive ==
    ASSUME HistoryConstants, History!DriftIsBounded, NEW r, NEW a, NEW b, NEW c,
           Marked(r, a), Marked(r, b), Marked(r, c), History!Matches(a, b)
    PROVE  /\ History!Matches(b, a)
           /\ History!Matches(b, c) => History!Matches(a, c)
           /\ History!Matches(c, b) => History!Matches(c, a)
<1>1. \A x, y \in Int : History!Dist(x, y) = History!Dist(y, x)
  BY DEF History!Dist
<1>2. \A x, y : Marked(r, x) /\ Marked(r, y) /\ History!Matches(x, y) => History!Matches(y, x)
  BY <1>1 DEF Marked, History!Matches
<1>3. ASSUME NEW x, NEW y, NEW z, Marked(r, x), Marked(r, y), Marked(r, z),
             History!Matches(x, y), History!Matches(y, z)
      PROVE  History!Matches(x, z)
  <2>1. PICK s \in HistoryShape : s.role = r /\ s.win = x.win /\ s.reset = x.reset
    BY <1>3 DEF Marked, Marks
  <2>2. PICK u \in HistoryShape : u.role = r /\ u.win = y.win /\ u.reset = y.reset
    BY <1>3 DEF Marked, Marks
  <2>3. PICK v \in HistoryShape : v.role = r /\ v.win = z.win /\ v.reset = z.reset
    BY <1>3 DEF Marked, Marks
  <2>4. History!Matches(s, u) /\ History!Matches(u, v)
    BY <1>3, <2>1, <2>2, <2>3 DEF History!Matches
  <2>5. History!Matches(s, v)
    BY <2>1, <2>2, <2>3, <2>4 DEF History!DriftIsBounded
  <2> QED BY <2>1, <2>3, <2>5 DEF History!Matches
<1> QED BY <1>2, <1>3

\* Correcting the tail keeps a cycle sound.
LEMMA CorrectedCycle ==
    ASSUME NEW r, NEW c \in CycleOf(r), NEW o \in ObsOf(r), c.last <= o.first,
           o.pct > c.segs[Len(c.segs)].pct
    PROVE  \E segs \in Seq(Segments) :
              /\ History!CorrectTail(c, o) = History!Observed(c, o, segs)
              /\ Descends(segs) /\ segs # <<>> /\ segs[Len(segs)].last = o.last /\ segs[Len(segs)].pct = o.pct
<1>1. PICK L \in Nat : L = Len(c.segs) /\ L # 0 /\ DOMAIN c.segs = 1..L /\ \A i \in 1..L : c.segs[i] \in Segments
  BY DEF CycleOf
<1> DEFINE old == c.segs
           places == {i \in DOMAIN old : old[i].pct >= o.pct}
           kept == History!Selected(old, places)
<1>2. Descends(old) /\ old \in Seq(Segments) /\ old[L].last = c.last
  BY <1>1 DEF CycleOf
<1>3. o.pct \in Int /\ o.first \in Int /\ o.last \in Int /\ o.first <= o.last
  BY DEF ObsOf
<1>4. SelectedFrom(old, places, kept)
  <2>1. places \in SUBSET (DOMAIN old)
    OBVIOUS
  <2> HIDE DEF places
  <2> QED BY <1>2, <2>1, SelectedSelects
<1>5. PICK n \in Nat : \E p \in [1..n -> places] :
        /\ kept = [k \in 1..n |-> old[p[k]]]
        /\ \A i, j \in 1..n : i < j => p[i] < p[j]
        /\ \A x \in places : \E k \in 1..n : p[k] = x
  BY <1>4 DEF SelectedFrom
<1>6. PICK p \in [1..n -> places] :
        /\ kept = [k \in 1..n |-> old[p[k]]]
        /\ \A i, j \in 1..n : i < j => p[i] < p[j]
  BY <1>5
<1>7. PICK q : q = kept
  OBVIOUS
<1>8. q \in Seq(Segments) /\ Len(q) = n /\ DOMAIN q = 1..n
  <2>1. \A k \in 1..n : p[k] \in 1..L /\ old[p[k]] \in Segments
    BY <1>1, <1>6
  <2>2. q = [k \in 1..n |-> old[p[k]]]
    BY <1>6, <1>7
  <2> HIDE DEF kept, old
  <2> QED BY <2>1, <2>2
<1>9. ASSUME NEW k \in 1..n
      PROVE  /\ q[k] \in Segments /\ q[k].pct >= o.pct /\ q[k].last < o.first
             /\ q[k].first <= q[k].last
  <2>1. p[k] \in 1..L /\ old[p[k]].pct >= o.pct /\ q[k] = old[p[k]] /\ old[p[k]] \in Segments
    BY <1>1, <1>6, <1>7
  <2>2. old[L] \in Segments /\ old[L].first <= old[L].last /\ old[p[k]].first <= old[p[k]].last
    BY <1>1, <1>2, <2>1 DEF Descends
  <2>3. p[k] # L
    BY <1>1, <1>3, <2>1, <2>2 DEF Segments
  <2>4. old[p[k]].last < old[L].first
    BY <1>1, <1>2, <2>1, <2>3 DEF Descends
  <2>5. PICK s, t : s = old[p[k]] /\ t = old[L]
    OBVIOUS
  <2>6. /\ s \in Segments /\ t \in Segments /\ q[k] = s /\ s.pct >= o.pct /\ s.first <= s.last
        /\ s.last < t.first /\ t.first <= t.last /\ t.last = c.last
    BY <1>2, <2>1, <2>2, <2>4, <2>5
  <2>7. s.last \in Int /\ t.first \in Int /\ t.last \in Int
    BY <2>6 DEF Segments
  <2>8. s.last < o.first
    BY <1>3, <2>6, <2>7
  <2> HIDE DEF old
  <2> QED BY <2>6, <2>8
<1>10. ASSUME NEW i \in 1..n, NEW j \in 1..n, i < j
       PROVE  q[i].pct > q[j].pct /\ q[i].last < q[j].first
  <2>1. p[i] \in 1..L /\ p[j] \in 1..L /\ p[i] < p[j] /\ q[i] = old[p[i]] /\ q[j] = old[p[j]]
    BY <1>1, <1>6, <1>7, <1>10
  <2> HIDE DEF old
  <2> QED BY <1>1, <1>2, <2>1 DEF Descends, old
<1> DEFINE hit == {i \in DOMAIN q : q[i].pct = o.pct}
           app == Append(q, History!Segment(o))
           upd == [i \in DOMAIN q |-> IF i \in hit THEN [q[i] EXCEPT !.last = o.last] ELSE q[i]]
<1>11. History!CorrectTail(c, o) = History!Observed(c, o, IF hit = {} THEN app ELSE upd)
  BY <1>7 DEF History!CorrectTail
<1> HIDE DEF kept, old, places
<1>12. CASE hit = {}
  <2>1. PICK s : s = History!Segment(o)
    OBVIOUS
  <2>2. s \in Segments /\ s.pct = o.pct /\ s.first = o.first /\ s.last = o.last
    BY <1>3, <2>1 DEF History!Segment, Segments
  <2>3. app = Append(q, s) /\ app \in Seq(Segments) /\ Len(app) = n + 1 /\ app[n + 1] = s /\ \A i \in 1..n : app[i] = q[i]
    BY <1>8, <2>1, <2>2
  <2>4. ASSUME NEW i \in 1..n PROVE q[i].pct > o.pct
    <3>1. q[i].pct # o.pct
      BY <1>8, <1>12
    <3>2. q[i].pct \in Int /\ q[i].pct >= o.pct
      BY <1>9 DEF Segments
    <3> QED BY <1>3, <3>1, <3>2
  <2> HIDE DEF app, hit, upd
  <2>5. \A i \in 1..Len(app) : app[i].first <= app[i].last
    BY <1>3, <1>9, <2>2, <2>3
  <2>6. ASSUME NEW i \in 1..Len(app), NEW j \in 1..Len(app), i < j
        PROVE  app[i].pct > app[j].pct /\ app[i].last < app[j].first
    <3>1. CASE j = n + 1
      <4>1. i \in 1..n /\ app[i] = q[i] /\ app[j] = s
        BY <2>3, <2>6, <3>1
      <4> QED BY <1>9, <2>2, <2>4, <4>1
    <3>2. CASE j # n + 1
      <4>1. i \in 1..n /\ j \in 1..n
        BY <2>3, <2>6, <3>2
      <4> QED BY <1>10, <2>3, <2>6, <4>1
    <3> QED BY <3>1, <3>2
  <2>7. Descends(app) /\ app # <<>> /\ app[Len(app)].last = o.last /\ app[Len(app)].pct = o.pct
    BY <2>2, <2>3, <2>5, <2>6 DEF Descends
  <2> QED BY <1>11, <1>12, <2>3, <2>7
<1>13. CASE hit # {}
  <2>1. PICK h \in 1..n : q[h].pct = o.pct
    BY <1>8, <1>13
  <2>2. \A i \in 1..n : q[i].pct = o.pct => i = n
    <3> SUFFICES ASSUME NEW i \in 1..n, q[i].pct = o.pct, i # n PROVE FALSE
      OBVIOUS
    <3>1. n \in 1..n /\ i < n
      OBVIOUS
    <3>2. q[i].pct > q[n].pct /\ q[n].pct >= o.pct /\ q[n].pct \in Int
      BY <1>9, <1>10, <3>1 DEF Segments
    <3> QED BY <1>3, <3>2
  <2>3. n # 0 /\ n \in 1..n /\ q[n].pct = o.pct
    BY <2>1, <2>2
  <2>4. upd \in Seq(Segments) /\ Len(upd) = n /\ DOMAIN upd = 1..n
    <3>1. \A i \in 1..n : q[i] \in Segments /\ [q[i] EXCEPT !.last = o.last] \in Segments
      BY <1>3, <1>9 DEF Segments
    <3>2. \A i \in 1..n : upd[i] \in Segments
      BY <1>8, <3>1
    <3>3. upd = [i \in 1..n |-> upd[i]]
      BY <1>8
    <3> HIDE DEF upd
    <3> QED BY <3>2, <3>3
  <2>5. ASSUME NEW i \in 1..n
        PROVE  /\ upd[i].pct = q[i].pct /\ upd[i].first = q[i].first
               /\ i # n => upd[i].last = q[i].last
               /\ i = n => upd[i].last = o.last
    <3>1. q[i] \in Segments
      BY <1>9
    <3>2. i \in hit <=> i = n
      BY <1>8, <2>2, <2>3
    <3>3. upd[i] = IF i = n THEN [q[i] EXCEPT !.last = o.last] ELSE q[i]
      BY <1>8, <3>2
    <3> HIDE DEF upd, hit
    <3> QED BY <3>1, <3>3 DEF Segments
  <2> HIDE DEF upd, hit
  <2>6. \A i \in 1..n : upd[i].first <= upd[i].last
    <3> SUFFICES ASSUME NEW i \in 1..n PROVE upd[i].first <= upd[i].last
      OBVIOUS
    <3>1. q[i].first \in Int /\ q[i].last \in Int /\ q[i].first <= q[i].last /\ q[i].last < o.first
      BY <1>9 DEF Segments
    <3> QED BY <1>3, <2>5, <3>1
  <2>7. \A i, j \in 1..n : i < j => upd[i].pct > upd[j].pct /\ upd[i].last < upd[j].first
    <3> SUFFICES ASSUME NEW i \in 1..n, NEW j \in 1..n, i < j
                 PROVE  upd[i].pct > upd[j].pct /\ upd[i].last < upd[j].first
      OBVIOUS
    <3>1. i # n
      OBVIOUS
    <3> QED BY <1>10, <2>5, <3>1
  <2>8. Descends(upd) /\ upd # <<>> /\ upd[Len(upd)].last = o.last /\ upd[Len(upd)].pct = o.pct
    BY <2>3, <2>4, <2>5, <2>6, <2>7 DEF Descends
  <2> QED BY <1>11, <1>13, <2>4, <2>8
<1> QED BY <1>12, <1>13

\* A cycle to which an observation was added.
LEMMA ObservedCycle ==
    ASSUME NEW r, NEW c \in CycleOf(r), NEW o \in ObsOf(r), NEW segs \in Seq(Segments),
           Descends(segs), segs # <<>>, segs[Len(segs)].last = o.last
    PROVE  /\ History!Observed(c, o, segs) \in CycleOf(r)
           /\ History!Observed(c, o, segs).last = o.last
           /\ History!Observed(c, o, segs).win = c.win /\ History!Observed(c, o, segs).reset = c.reset
           /\ History!Observed(c, o, segs).segs = segs
<1>1. o.first \in Int /\ o.last \in Int /\ c.first \in Int
  BY DEF ObsOf, CycleOf
<1>2. History!Min({c.first, o.first}) \in Int
  <2>1. PICK a \in Int, b \in Int : a = c.first /\ b = o.first
    BY <1>1
  <2>2. \E x \in {a, b} : \A y \in {a, b} : x <= y
    OBVIOUS
  <2>3. History!Min({a, b}) \in {a, b}
    BY <2>2 DEF History!Min
  <2> QED BY <2>1, <2>3
<1>3. PICK e : e = History!Observed(c, o, segs)
  OBVIOUS
<1>4. e = [c EXCEPT !.first = History!Min({c.first, o.first}), !.last = o.last, !.segs = segs]
  BY <1>3 DEF History!Observed
<1>5. /\ c \in [win : Lengths, src : Origins, reset : Int, first : Int, last : Int, segs : Seq(Segments)]
      /\ c.reset \in Marks(r, c.win)
  BY DEF CycleOf
<1>6. /\ e \in [win : Lengths, src : Origins, reset : Int, first : Int, last : Int, segs : Seq(Segments)]
      /\ e.win = c.win /\ e.reset = c.reset /\ e.last = o.last /\ e.segs = segs
  BY <1>1, <1>2, <1>4, <1>5
<1> QED BY <1>3, <1>5, <1>6 DEF CycleOf

\* A segment below and after the last one.
LEMMA AppendedSegment ==
    ASSUME NEW segs \in Seq(Segments), Descends(segs), segs # <<>>, NEW s \in Segments,
           s.first <= s.last, segs[Len(segs)].pct > s.pct, segs[Len(segs)].last < s.first
    PROVE  /\ Append(segs, s) \in Seq(Segments) /\ Descends(Append(segs, s)) /\ Append(segs, s) # <<>>
           /\ Append(segs, s)[Len(Append(segs, s))] = s
<1>1. PICK n \in Nat : n = Len(segs) /\ n # 0 /\ \A i \in 1..n : segs[i] \in Segments
  OBVIOUS
<1>2. PICK t : t = Append(segs, s)
  OBVIOUS
<1>3. t \in Seq(Segments) /\ Len(t) = n + 1 /\ t[n + 1] = s /\ \A i \in 1..n : t[i] = segs[i]
  BY <1>1, <1>2
<1>4. ASSUME NEW i \in 1..n PROVE segs[i].pct > s.pct /\ segs[i].last < s.first
  <2>1. CASE i = n
    BY <1>1, <2>1
  <2>2. CASE i # n
    <3>1. segs[i].pct > segs[n].pct /\ segs[i].last < segs[n].first /\ segs[n].first <= segs[n].last
      BY <1>1, <2>2 DEF Descends
    <3>2. segs[i] \in Segments /\ segs[n] \in Segments
      BY <1>1
    <3> QED BY <1>1, <3>1, <3>2 DEF Segments
  <2> QED BY <2>1, <2>2
<1>5. \A i \in 1..Len(t) : t[i].first <= t[i].last
  BY <1>1, <1>3 DEF Descends
<1>6. ASSUME NEW i \in 1..Len(t), NEW j \in 1..Len(t), i < j
      PROVE  t[i].pct > t[j].pct /\ t[i].last < t[j].first
  <2>1. CASE j = n + 1
    <3>1. i \in 1..n
      BY <1>3, <1>6, <2>1
    <3> QED BY <1>3, <1>4, <2>1, <3>1
  <2>2. CASE j # n + 1
    <3>1. i \in 1..n /\ j \in 1..n
      BY <1>3, <1>6, <2>2
    <3> QED BY <1>1, <1>3, <1>6, <3>1 DEF Descends
  <2> QED BY <2>1, <2>2
<1>7. Descends(t) /\ t # <<>> /\ t[Len(t)] = s
  BY <1>3, <1>5, <1>6 DEF Descends
<1> QED BY <1>2, <1>3, <1>7

\* The last segment goes on.
LEMMA LongerSegment ==
    ASSUME NEW segs \in Seq(Segments), Descends(segs), segs # <<>>, NEW t \in Int, segs[Len(segs)].last <= t
    PROVE  LET s == [segs EXCEPT ![Len(segs)].last = t]
           IN  s \in Seq(Segments) /\ Descends(s) /\ s # <<>> /\ s[Len(s)].last = t /\ s[Len(s)].pct = segs[Len(segs)].pct
<1>1. PICK n \in Nat : n = Len(segs) /\ n # 0 /\ \A i \in 1..n : segs[i] \in Segments
  OBVIOUS
<1>2. PICK s : s = [segs EXCEPT ![Len(segs)].last = t]
  OBVIOUS
<1>3. PICK e : e = [segs[n] EXCEPT !.last = t]
  OBVIOUS
<1>4. e \in Segments /\ e.pct = segs[n].pct /\ e.first = segs[n].first /\ e.last = t
  BY <1>1, <1>3 DEF Segments
<1>5. s \in Seq(Segments) /\ Len(s) = n /\ s[n] = e /\ \A i \in 1..n : i # n => s[i] = segs[i]
  <2>1. s = [segs EXCEPT ![n] = e]
    BY <1>1, <1>2, <1>3
  <2> QED BY <1>1, <1>4, <2>1
<1>6. segs[n].first \in Int /\ segs[n].last \in Int /\ segs[n].last <= t /\ segs[n].first <= segs[n].last
  BY <1>1 DEF Descends, Segments
<1>7. \A i \in 1..n : s[i].first <= s[i].last
  <2> SUFFICES ASSUME NEW i \in 1..n PROVE s[i].first <= s[i].last
    OBVIOUS
  <2>1. CASE i = n
    BY <1>4, <1>5, <1>6, <2>1
  <2>2. CASE i # n
    BY <1>1, <1>5, <2>2 DEF Descends
  <2> QED BY <2>1, <2>2
<1>8. \A i, j \in 1..n : i < j => s[i].pct > s[j].pct /\ s[i].last < s[j].first
  <2> SUFFICES ASSUME NEW i \in 1..n, NEW j \in 1..n, i < j
               PROVE  s[i].pct > s[j].pct /\ s[i].last < s[j].first
    OBVIOUS
  <2>1. s[i] = segs[i] /\ s[j].pct = segs[j].pct /\ s[j].first = segs[j].first
    BY <1>4, <1>5
  <2> QED BY <1>1, <2>1 DEF Descends
<1>9. Descends(s) /\ s # <<>> /\ s[Len(s)].last = t /\ s[Len(s)].pct = segs[Len(segs)].pct
  BY <1>1, <1>4, <1>5, <1>7, <1>8 DEF Descends
<1> QED BY <1>2, <1>5, <1>9

\* What an observation that does not begin before the cycle's end makes of
\* the cycle.
LEMMA ExtendedCycle ==
    ASSUME NEW r, NEW c \in CycleOf(r), NEW o \in ObsOf(r), c.last <= o.first
    PROVE  /\ History!Extend(c, o) \in CycleOf(r)
           /\ History!Extend(c, o).last \in {c.last, o.last}
           /\ History!Extend(c, o).win = c.win /\ History!Extend(c, o).reset = c.reset
<1>1. PICK tail : tail = c.segs[Len(c.segs)]
  OBVIOUS
<1>2. /\ c.segs \in Seq(Segments) /\ Descends(c.segs) /\ c.segs # <<>> /\ c.last = tail.last
      /\ tail \in Segments /\ c.last \in Int
  BY <1>1 DEF CycleOf
<1>3. o.first \in Int /\ o.last \in Int /\ o.pct \in Int /\ o.first <= o.last
  BY DEF ObsOf
<1>4. c.last <= o.last
  BY <1>2, <1>3
<1> DEFINE longer == [c.segs EXCEPT ![Len(c.segs)].last = o.last]
           lower == Append(c.segs, History!Segment(o))
<1>5. History!Extend(c, o) =
        IF o.last < tail.last THEN c
        ELSE IF o.auth /\ o.pct > tail.pct THEN History!CorrectTail(c, o)
        ELSE IF o.first <= tail.last \/ o.pct > tail.pct THEN c
        ELSE IF o.pct = tail.pct THEN History!Observed(c, o, longer)
        ELSE History!Observed(c, o, lower)
  BY <1>1 DEF History!Extend
<1>6. CASE History!Extend(c, o) = c
  BY <1>6
<1>7. CASE o.pct > tail.pct /\ History!Extend(c, o) = History!CorrectTail(c, o)
  <2>1. PICK segs \in Seq(Segments) :
              /\ History!CorrectTail(c, o) = History!Observed(c, o, segs)
              /\ Descends(segs) /\ segs # <<>> /\ segs[Len(segs)].last = o.last /\ segs[Len(segs)].pct = o.pct
    BY <1>1, <1>7, CorrectedCycle
  <2>2. History!Observed(c, o, segs).segs = segs
    BY <2>1, ObservedCycle
  <2> QED BY <1>7, <2>1, <2>2, ObservedCycle
<1>8. CASE o.pct = tail.pct /\ History!Extend(c, o) = History!Observed(c, o, longer)
  <2>1. /\ longer \in Seq(Segments) /\ Descends(longer) /\ longer # <<>> /\ longer[Len(longer)].last = o.last
        /\ longer[Len(longer)].pct = c.segs[Len(c.segs)].pct
    BY <1>1, <1>2, <1>3, <1>4, LongerSegment
  <2> HIDE DEF longer
  <2>2. History!Observed(c, o, longer).segs = longer
    BY <2>1, ObservedCycle
  <2> QED BY <1>1, <1>8, <2>1, <2>2, ObservedCycle
<1>9. CASE tail.last < o.first /\ o.pct < tail.pct /\ History!Extend(c, o) = History!Observed(c, o, lower)
  <2>1. PICK s : s = History!Segment(o)
    OBVIOUS
  <2>2. s \in Segments /\ s.first <= s.last /\ tail.pct > s.pct /\ tail.last < s.first /\ s.last = o.last /\ s.pct = o.pct
    BY <1>2, <1>3, <1>9, <2>1 DEF History!Segment, Segments
  <2>3. lower \in Seq(Segments) /\ Descends(lower) /\ lower # <<>> /\ lower[Len(lower)] = s
    BY <1>1, <1>2, <2>1, <2>2, AppendedSegment
  <2> HIDE DEF lower
  <2>4. History!Observed(c, o, lower).segs = lower
    BY <2>2, <2>3, ObservedCycle
  <2> QED BY <1>9, <2>2, <2>3, <2>4, ObservedCycle
<1>10. tail.last \in Int /\ tail.pct \in Int
  BY <1>2 DEF Segments
<1> HIDE DEF longer, lower
<1> QED BY <1>2, <1>3, <1>4, <1>5, <1>6, <1>7, <1>8, <1>9, <1>10

\* The cycle observed last.
LEMMA LatestCycle ==
    ASSUME NEW r, NEW cs \in Seq(CycleOf(r)), cs # <<>>
    PROVE  /\ History!Latest(cs) \in 1..Len(cs)
           /\ \A j \in 1..Len(cs) : cs[j].last <= cs[History!Latest(cs)].last
<1>1. PICK n \in Nat : n = Len(cs) /\ n # 0 /\ DOMAIN cs = 1..n /\ \A i \in 1..n : cs[i].last \in Int
  BY DEF CycleOf
<1>2. PICK key \in [1..n -> Int] : key = [i \in 1..n |-> cs[i].last]
  BY <1>1
<1>3. PICK p \in [1..n -> 1..n] :
              /\ \A i, j \in 1..n : i < j => key[p[i]] < key[p[j]] \/ (key[p[i]] = key[p[j]] /\ p[i] < p[j])
              /\ \A x \in 1..n : \E k \in 1..n : p[k] = x
  BY OrderByKeys
<1> DEFINE Last(i) == \A j \in DOMAIN cs : cs[j].last < cs[i].last \/ (cs[j].last = cs[i].last /\ j <= i)
<1>4. n \in 1..n /\ p[n] \in DOMAIN cs
  BY <1>1
<1>5. Last(p[n])
  <2> SUFFICES ASSUME NEW j \in 1..n PROVE cs[j].last < cs[p[n]].last \/ (cs[j].last = cs[p[n]].last /\ j <= p[n])
    BY <1>1
  <2>1. PICK k \in 1..n : p[k] = j
    BY <1>3
  <2>2. CASE k = n
    BY <1>4, <2>1, <2>2
  <2>3. CASE k # n
    <3>1. key[j] < key[p[n]] \/ (key[j] = key[p[n]] /\ j < p[n])
      <4>1. k < n
        BY <2>3
      <4> QED BY <1>3, <1>4, <2>1, <4>1
    <3> QED BY <1>1, <1>2, <1>4, <3>1
  <2> QED BY <2>2, <2>3
<1>6. PICK l : l = History!Latest(cs)
  OBVIOUS
<1>7. l \in DOMAIN cs /\ Last(l)
  <2>1. l = CHOOSE i \in DOMAIN cs : Last(i)
    BY <1>6 DEF History!Latest
  <2> HIDE DEF Last
  <2> QED BY <1>4, <1>5, <2>1
<1>8. \A j \in 1..n : cs[j].last <= cs[l].last
  BY <1>1, <1>7
<1> QED BY <1>1, <1>6, <1>7, <1>8

\* The cycle an observation is written to: one that matches, or none does.
LEMMA ClosestCycle ==
    ASSUME NEW r, NEW cs \in Seq(CycleOf(r)), NEW o, o.reset \in Int
    PROVE  \/ /\ History!Closest(cs, o) = 0
              /\ \A i \in 1..Len(cs) : ~History!Matches(cs[i], o)
           \/ /\ History!Closest(cs, o) \in 1..Len(cs)
              /\ History!Matches(cs[History!Closest(cs, o)], o)
<1>1. PICK n \in Nat : n = Len(cs) /\ DOMAIN cs = 1..n /\ \A i \in 1..n : cs[i].last \in Int /\ cs[i].reset \in Int
  BY DEF CycleOf
<1>2. PICK m : m = {i \in DOMAIN cs : History!Matches(cs[i], o)}
  OBVIOUS
<1> DEFINE d(i) == History!Dist(cs[i].reset, o.reset)
           Best(i) == \A j \in m : \/ d(i) < d(j)
                                   \/ d(i) = d(j) /\ (cs[j].last < cs[i].last \/ (cs[j].last = cs[i].last /\ j <= i))
<1>3. History!Closest(cs, o) = IF m = {} THEN 0 ELSE CHOOSE i \in m : Best(i)
  BY <1>2 DEF History!Closest
<1>4. CASE m = {}
  BY <1>1, <1>2, <1>3, <1>4
<1>5. CASE m # {}
  <2>1. \A i \in 1..n : d(i) \in Int
    BY <1>1 DEF History!Dist
  <2>2. PICK e \in [1..n -> Int] : e = [i \in 1..n |-> d(i)]
    BY <2>1
  <2>3. PICK l \in [1..n -> Int] : l = [i \in 1..n |-> cs[i].last]
    BY <1>1
  <2>4. PICK D : D = 1..n
    OBVIOUS
  <2>5. PICK R : R = {x \in (1..n) \X (1..n) :
                        \/ e[x[2]] < e[x[1]]
                        \/ e[x[2]] = e[x[1]] /\ (l[x[1]] < l[x[2]] \/ (l[x[1]] = l[x[2]] /\ x[1] < x[2]))}
    OBVIOUS
  <2>6. \A i, j \in 1..n : <<i, j>> \in R <=> \/ e[j] < e[i]
                                              \/ e[j] = e[i] /\ (l[i] < l[j] \/ (l[i] = l[j] /\ i < j))
    BY <2>5
  <2>7. OrderOn(R, D)
    <3>1. ASSUME NEW x \in 1..n, NEW y \in 1..n, NEW z \in 1..n, <<x, y>> \in R, <<y, z>> \in R
          PROVE  <<x, z>> \in R
      <4>1. PICK a \in Int, b \in Int, c \in Int : a = e[x] /\ b = e[y] /\ c = e[z]
        OBVIOUS
      <4>2. PICK f \in Int, g \in Int, h \in Int : f = l[x] /\ g = l[y] /\ h = l[z]
        OBVIOUS
      <4>3. b < a \/ (b = a /\ (f < g \/ (f = g /\ x < y)))
        BY <2>6, <3>1, <4>1, <4>2
      <4>4. c < b \/ (c = b /\ (g < h \/ (g = h /\ y < z)))
        BY <2>6, <3>1, <4>1, <4>2
      <4>5. c < a \/ (c = a /\ (f < h \/ (f = h /\ x < z)))
        BY <4>3, <4>4
      <4> QED BY <2>6, <4>1, <4>2, <4>5
    <3>2. ASSUME NEW x \in 1..n, NEW y \in 1..n, x # y PROVE <<x, y>> \in R \/ <<y, x>> \in R
      <4>1. PICK a \in Int, b \in Int, f \in Int, g \in Int : a = e[x] /\ b = e[y] /\ f = l[x] /\ g = l[y]
        OBVIOUS
      <4>2. \/ b < a \/ (b = a /\ (f < g \/ (f = g /\ x < y)))
            \/ a < b \/ (a = b /\ (g < f \/ (g = f /\ y < x)))
        BY <3>2
      <4>3. <<x, y>> \in R <=> b < a \/ (b = a /\ (f < g \/ (f = g /\ x < y)))
        BY <2>6, <4>1
      <4>4. <<y, x>> \in R <=> a < b \/ (a = b /\ (g < f \/ (g = f /\ y < x)))
        BY <2>6, <4>1
      <4> QED BY <4>2, <4>3, <4>4
    <3> QED BY <2>4, <3>1, <3>2 DEF OrderOn
  <2>8. m \subseteq D /\ IsFiniteSet(m) /\ Cardinality(m) \in Nat
    BY <1>1, <1>2, <2>4, SubsetsFinite
  <2>9. \E s \in [1..Cardinality(m) -> m] : Lists(s, m, R)
    BY <2>7, <2>8, ListExists
  <2>10. PICK s \in [1..Cardinality(m) -> m] : Lists(s, m, R)
    BY <2>9
  <2>11. PICK k \in Nat : k = Cardinality(m) /\ k # 0
    BY <1>5, <2>8, FS_EmptySet
  <2>12. s[k] \in m /\ s[k] \in 1..n
    BY <1>1, <1>2, <2>11
  <2>13. Best(s[k])
    <3> SUFFICES ASSUME NEW j \in m
                 PROVE  \/ d(s[k]) < d(j)
                        \/ d(s[k]) = d(j) /\ (cs[j].last < cs[s[k]].last \/ (cs[j].last = cs[s[k]].last /\ j <= s[k]))
      OBVIOUS
    <3>1. PICK i \in 1..k : s[i] = j
      BY <2>10, <2>11 DEF Lists
    <3>2. j \in 1..n
      BY <1>1, <1>2
    <3>3. CASE i = k
      BY <2>1, <2>12, <3>1, <3>3
    <3>4. CASE i # k
      <4>1. i < k /\ i \in 1..k /\ k \in 1..k
        BY <2>11, <3>4
      <4>2. <<j, s[k]>> \in R
        BY <2>10, <2>11, <3>1, <4>1 DEF Lists
      <4>3. \/ e[s[k]] < e[j]
            \/ e[s[k]] = e[j] /\ (l[j] < l[s[k]] \/ (l[j] = l[s[k]] /\ j < s[k]))
        BY <2>6, <2>12, <3>2, <4>2
      <4>4. e[s[k]] = d(s[k]) /\ e[j] = d(j) /\ l[j] = cs[j].last /\ l[s[k]] = cs[s[k]].last
        BY <2>2, <2>3, <2>12, <3>2
      <4> HIDE DEF d
      <4> QED BY <2>12, <3>2, <4>3, <4>4
    <3> QED BY <3>3, <3>4
  <2>14. PICK i : i = CHOOSE x \in m : Best(x)
    OBVIOUS
  <2>15. i \in m
    <3> HIDE DEF Best
    <3> QED BY <2>12, <2>13, <2>14
  <2>16. i = History!Closest(cs, o)
    BY <1>3, <1>5, <2>14
  <2> QED BY <1>1, <1>2, <2>15, <2>16
<1> QED BY <1>4, <1>5

\* A new boundary for a cycle it belongs to.
LEMMA RenewedCycle ==
    ASSUME NEW r, NEW c \in CycleOf(r), NEW o \in ObsOf(r), History!Matches(c, o),
           NEW e, e = IF History!NeedsBoundary(c, o) THEN History!WithBoundary(c, o) ELSE c
    PROVE  e \in CycleOf(r) /\ e.last = c.last /\ e.win = c.win /\ e.reset \in {c.reset, o.reset} /\ e.segs = c.segs
<1>1. c.win = o.win
  BY DEF History!Matches
<1>2. o.src \in Origins /\ o.reset \in Int /\ o.reset \in Marks(r, o.win)
  BY DEF ObsOf
<1>3. CASE e = c
  BY <1>3
<1>4. CASE e = [c EXCEPT !.src = o.src, !.reset = o.reset]
  <2>1. c \in [win : Lengths, src : Origins, reset : Int, first : Int, last : Int, segs : Seq(Segments)]
    BY DEF CycleOf
  <2>2. /\ e \in [win : Lengths, src : Origins, reset : Int, first : Int, last : Int, segs : Seq(Segments)]
        /\ e.last = c.last /\ e.win = c.win /\ e.reset = o.reset /\ e.segs = c.segs
    BY <1>2, <1>4, <2>1
  <2>3. Descends(e.segs) /\ e.segs # <<>> /\ e.last = e.segs[Len(e.segs)].last
    BY <2>2 DEF CycleOf
  <2> QED BY <1>1, <1>2, <2>2, <2>3 DEF CycleOf
<1> QED BY <1>3, <1>4 DEF History!WithBoundary

\* The first observation of a role opens its first cycle.
LEMMA FirstCycle ==
    ASSUME NEW r, NEW o \in ObsOf(r)
    PROVE  /\ History!NewCycle(o) \in CycleOf(r) /\ History!NewCycle(o).last = o.last
           /\ History!NewCycle(o).win = o.win /\ History!NewCycle(o).reset = o.reset
<1>1. PICK s : s = History!Segment(o)
  OBVIOUS
<1>2. /\ o.pct \in Int /\ o.first \in Int /\ o.last \in Int /\ o.first <= o.last
      /\ o.win \in Lengths /\ o.src \in Origins /\ o.reset \in Int /\ o.reset \in Marks(r, o.win)
  BY DEF ObsOf
<1>3. s \in Segments /\ s.first = o.first /\ s.last = o.last /\ s.pct = o.pct
  BY <1>1, <1>2 DEF History!Segment, Segments
<1>4. PICK segs : segs = <<s>>
  OBVIOUS
<1>5. segs \in Seq(Segments) /\ Len(segs) = 1 /\ segs[1] = s /\ segs # <<>>
  BY <1>3, <1>4
<1>6. Descends(segs)
  BY <1>2, <1>3, <1>5 DEF Descends
<1>7. PICK c : c = History!NewCycle(o)
  OBVIOUS
<1>8. c = [win |-> o.win, src |-> o.src, reset |-> o.reset, first |-> o.first, last |-> o.last, segs |-> segs]
  BY <1>1, <1>4, <1>7 DEF History!NewCycle
<1>9. /\ c \in [win : Lengths, src : Origins, reset : Int, first : Int, last : Int, segs : Seq(Segments)]
      /\ c.win = o.win /\ c.reset = o.reset /\ c.last = o.last /\ c.segs = segs
  BY <1>2, <1>5, <1>8
<1> QED BY <1>2, <1>3, <1>5, <1>6, <1>7, <1>9 DEF CycleOf

\* A cycle that takes over the reset of an observation that matches it stays
\* apart from the others.
LEMMA StaysApart ==
    ASSUME HistoryConstants, History!DriftIsBounded, NEW r, NEW o, NEW c, NEW d, NEW e,
           Marked(r, o), Marked(r, c), Marked(r, d), Marked(r, e),
           History!Matches(c, o), ~History!Matches(d, c), ~History!Matches(c, d),
           e.win = c.win, e.reset \in {c.reset, o.reset}
    PROVE  ~History!Matches(d, e) /\ ~History!Matches(e, d)
<1>1. c.win = o.win
  BY DEF History!Matches
<1>2. CASE e.reset = c.reset
  BY <1>2 DEF History!Matches
<1>3. CASE e.reset = o.reset
  <2>1. (History!Matches(d, e) => History!Matches(d, o)) /\ (History!Matches(e, d) => History!Matches(o, d))
    BY <1>1, <1>3 DEF History!Matches
  <2>2. History!Matches(o, c)
    BY MatchingIsTransitive
  <2>3. History!Matches(d, o) => History!Matches(d, c)
    BY <2>2, MatchingIsTransitive
  <2>4. History!Matches(o, d) => History!Matches(c, d)
    BY MatchingIsTransitive
  <2> QED BY <2>1, <2>3, <2>4
<1> QED BY <1>2, <1>3

\* Correcting the tail of a cycle leaves it a cycle of the role.
LEMMA MarkedCycle ==
    ASSUME NEW r, NEW c, c \in CycleOf(r) \/ c \in ObsOf(r) \/ c \in KnownOf(r)
    PROVE  Marked(r, c) /\ c.last \in Int
<1>1. CASE c \in CycleOf(r)
  BY <1>1 DEF CycleOf, Marked
<1>2. CASE c \in ObsOf(r)
  BY <1>2 DEF ObsOf, Marked
<1>3. CASE c \in KnownOf(r)
  BY <1>3 DEF KnownOf, Marked
<1> QED BY <1>1, <1>2, <1>3

\* One of several cycles is replaced.
LEMMA ReplacedCycle ==
    ASSUME HistoryConstants, History!DriftIsBounded, NEW r, NEW cs, Stored(r, cs), NEW o \in ObsOf(r),
           EndsBy(cs, o.first), NEW i \in 1..Len(cs), History!Matches(cs[i], o), NEW e \in CycleOf(r),
           e.win = cs[i].win, e.reset \in {cs[i].reset, o.reset}, e.last <= o.last, cs[i].last <= e.last,
           NEW res, res = [cs EXCEPT ![i] = e]
    PROVE  Stored(r, res) /\ EndsBy(res, o.last)
<1>1. PICK n \in Nat : n = Len(cs) /\ DOMAIN cs = 1..n /\ \A j \in 1..n : cs[j] \in CycleOf(r)
  BY DEF Stored
<1>2. /\ res \in Seq(CycleOf(r)) /\ Len(res) = n /\ res[i] = e
      /\ \A j \in 1..n : j # i => res[j] = cs[j]
  BY <1>1 DEF Stored
<1>3. Apart(res)
  <2> SUFFICES ASSUME NEW j \in 1..n, NEW k \in 1..n, j # k PROVE ~History!Matches(res[j], res[k])
    BY <1>2 DEF Apart
  <2>1. CASE j # i /\ k # i
    BY <1>1, <1>2, <2>1 DEF Stored, Apart
  <2>2. ASSUME NEW x \in 1..n, x # i
        PROVE  ~History!Matches(res[x], e) /\ ~History!Matches(e, res[x])
    <3>1. ~History!Matches(cs[x], cs[i]) /\ ~History!Matches(cs[i], cs[x])
      BY <1>1, <2>2 DEF Stored, Apart
    <3>2. Marked(r, cs[x]) /\ Marked(r, cs[i]) /\ Marked(r, o) /\ Marked(r, e)
      BY <1>1, MarkedCycle
    <3>3. ~History!Matches(cs[x], e) /\ ~History!Matches(e, cs[x])
      BY <3>1, <3>2, StaysApart
    <3> QED BY <1>2, <2>2, <3>3
  <2> QED BY <1>2, <2>1, <2>2
<1>4. EndsBy(res, o.last)
  <2> SUFFICES ASSUME NEW j \in 1..n PROVE res[j].last <= o.last
    BY <1>2 DEF EndsBy
  <2>1. CASE j = i
    BY <1>2, <2>1
  <2>2. CASE j # i
    <3>1. cs[j].last <= o.first /\ cs[j].last \in Int
      BY <1>1, MarkedCycle DEF EndsBy
    <3>2. o.first <= o.last /\ o.first \in Int /\ o.last \in Int
      BY DEF ObsOf
    <3> QED BY <1>2, <2>2, <3>1, <3>2
  <2> QED BY <2>1, <2>2
<1> QED BY <1>2, <1>3, <1>4 DEF Stored

\* A cycle that no other matches begins.
LEMMA BegunCycle ==
    ASSUME HistoryConstants, NEW r, NEW cs, Stored(r, cs), NEW o \in ObsOf(r), EndsBy(cs, o.first),
           \A i \in 1..Len(cs) : ~History!Matches(cs[i], o),
           NEW res, res = Append(cs, History!NewCycle(o))
    PROVE  Stored(r, res) /\ EndsBy(res, o.last)
<1>1. PICK n \in Nat : n = Len(cs) /\ \A j \in 1..n : cs[j] \in CycleOf(r)
  BY DEF Stored
<1>2. PICK e : e = History!NewCycle(o)
  OBVIOUS
<1>3. e \in CycleOf(r) /\ e.last = o.last /\ e.win = o.win /\ e.reset = o.reset
  BY <1>2, FirstCycle
<1>4. res \in Seq(CycleOf(r)) /\ Len(res) = n + 1 /\ res[n + 1] = e /\ \A j \in 1..n : res[j] = cs[j]
  BY <1>1, <1>2, <1>3 DEF Stored
<1>5. ASSUME NEW j \in 1..n PROVE ~History!Matches(cs[j], e) /\ ~History!Matches(e, cs[j])
  <2>1. Marked(r, cs[j]) /\ Marked(r, o)
    BY <1>1, MarkedCycle
  <2>2. ~History!Matches(cs[j], o)
    BY <1>1
  <2>3. History!Dist(cs[j].reset, o.reset) = History!Dist(o.reset, cs[j].reset)
    BY <2>1 DEF History!Dist, Marked
  <2> QED BY <1>3, <2>2, <2>3 DEF History!Matches
<1>6. Apart(res)
  <2> SUFFICES ASSUME NEW j \in 1..(n + 1), NEW k \in 1..(n + 1), j # k PROVE ~History!Matches(res[j], res[k])
    BY <1>4 DEF Apart
  <2>1. CASE j = n + 1
    BY <1>4, <1>5, <2>1
  <2>2. CASE k = n + 1
    BY <1>4, <1>5, <2>2
  <2>3. CASE j # n + 1 /\ k # n + 1
    <3>1. j \in 1..n /\ k \in 1..n
      BY <2>3
    <3> QED BY <1>1, <1>4, <3>1 DEF Stored, Apart
  <2> QED BY <2>1, <2>2, <2>3
<1>7. EndsBy(res, o.last)
  <2> SUFFICES ASSUME NEW j \in 1..(n + 1) PROVE res[j].last <= o.last
    BY <1>4 DEF EndsBy
  <2>0. o.first <= o.last /\ o.first \in Int /\ o.last \in Int
    BY DEF ObsOf
  <2>1. CASE j = n + 1
    BY <1>3, <1>4, <2>0, <2>1
  <2>2. CASE j # n + 1
    <3>1. j \in 1..n
      BY <2>2
    <3>2. cs[j].last <= o.first /\ cs[j].last \in Int
      BY <1>1, <3>1, MarkedCycle DEF EndsBy
    <3> QED BY <1>4, <2>0, <3>1, <3>2
  <2> QED BY <2>1, <2>2
<1> QED BY <1>4, <1>6, <1>7 DEF Stored

\* What the repository may do with an observation.
Begins(cs, o, res) ==
    /\ res = Append(cs, History!NewCycle(o))
    /\ \A j \in 1..Len(cs) : ~History!Matches(cs[j], o)
Extends(cs, o, res, i, c) ==
    /\ i \in 1..Len(cs) /\ History!Matches(cs[i], o)
    /\ c = IF History!NeedsBoundary(cs[i], o) THEN History!WithBoundary(cs[i], o) ELSE cs[i]
    /\ res = [cs EXCEPT ![i] = History!Extend(c, o)]

\* An observation begins a cycle, is refused, or extends the latest one.
LEMMA AppliedWays ==
    ASSUME HistoryConstants, History!DriftIsBounded, NEW r, NEW cs, Stored(r, cs), NEW o \in ObsOf(r),
           EndsBy(cs, o.first), NEW res, res = History!ApplyObservation(cs, o)
    PROVE  Begins(cs, o, res) \/ res = cs \/ \E i, c : Extends(cs, o, res, i, c)
<1>2. PICK n \in Nat : n = Len(cs) /\ DOMAIN cs = 1..n /\ \A j \in 1..n : cs[j] \in CycleOf(r)
  BY DEF Stored
<1>3. o.first <= o.last /\ o.first \in Int /\ o.last \in Int /\ o.reset \in Int
  BY DEF ObsOf
<1>4. CASE cs = <<>>
  <2>1. res = Append(cs, History!NewCycle(o))
    BY <1>4 DEF History!ApplyObservation
  <2>2. \A i \in 1..Len(cs) : ~History!Matches(cs[i], o)
    BY <1>4
  <2> QED BY <1>4, <2>1, <2>2 DEF Begins
<1>5. CASE cs # <<>>
  <2>1. PICK k : k = History!Latest(cs)
    OBVIOUS
  <2>2. PICK i : i = IF History!Matches(cs[k], o) THEN k ELSE History!Closest(cs, o)
    OBVIOUS
  <2>3. k \in 1..n
    BY <1>2, <1>5, <2>1, LatestCycle DEF Stored
  <2>4. \/ i = 0 /\ \A j \in 1..n : ~History!Matches(cs[j], o)
        \/ i \in 1..n /\ History!Matches(cs[i], o)
    BY <1>2, <1>3, <2>2, <2>3, ClosestCycle DEF Stored
  <2>5. \/ res = cs
        \/ i = 0 /\ res = Append(cs, History!NewCycle(o))
        \/ /\ i # 0
           /\ res = [cs EXCEPT ![i] = History!Extend(IF History!NeedsBoundary(@, o) THEN History!WithBoundary(@, o) ELSE @, o)]
    BY <1>5, <2>1, <2>2 DEF History!ApplyObservation
  <2>10. CASE i = 0 /\ res = Append(cs, History!NewCycle(o))
    <3>1. \A j \in 1..Len(cs) : ~History!Matches(cs[j], o)
      BY <1>2, <2>4, <2>10
    <3>3. Begins(cs, o, res)
      BY <2>10, <3>1 DEF Begins
    <3> QED BY <3>3
  <2>11. CASE /\ i # 0
              /\ res = [cs EXCEPT ![i] = History!Extend(IF History!NeedsBoundary(@, o) THEN History!WithBoundary(@, o) ELSE @, o)]
    <3>1. i \in 1..Len(cs) /\ History!Matches(cs[i], o)
      BY <1>2, <2>4, <2>11
    <3>3. PICK c : c = IF History!NeedsBoundary(cs[i], o) THEN History!WithBoundary(cs[i], o) ELSE cs[i]
      OBVIOUS
    <3>4. res = [cs EXCEPT ![i] = History!Extend(c, o)]
      BY <2>11, <3>3
    <3>5. Extends(cs, o, res, i, c)
      BY <3>1, <3>3, <3>4 DEF Extends
    <3> QED BY <3>5
  <2> QED BY <2>5, <2>10, <2>11
<1> QED BY <1>4, <1>5

\* The repository keeps its cycles sound: an observation that begins after all
\* that is stored ends a cycle, extends one, corrects one or is refused.
LEMMA AppliedObservation ==
    ASSUME HistoryConstants, History!DriftIsBounded, NEW r, NEW cs, Stored(r, cs), NEW o \in ObsOf(r),
           EndsBy(cs, o.first)
    PROVE  Stored(r, History!ApplyObservation(cs, o)) /\ EndsBy(History!ApplyObservation(cs, o), o.last)
<1>1. PICK res : res = History!ApplyObservation(cs, o)
  OBVIOUS
<1>2. PICK n \in Nat : n = Len(cs) /\ DOMAIN cs = 1..n /\ \A j \in 1..n : cs[j] \in CycleOf(r)
  BY DEF Stored
<1>3. o.first <= o.last /\ o.first \in Int /\ o.last \in Int /\ o.reset \in Int
  BY DEF ObsOf
<1>4. Begins(cs, o, res) \/ res = cs \/ \E i, c : Extends(cs, o, res, i, c)
  BY <1>1, AppliedWays
<1>5. CASE Begins(cs, o, res)
  <2>1. res = Append(cs, History!NewCycle(o)) /\ \A j \in 1..Len(cs) : ~History!Matches(cs[j], o)
    BY <1>5 DEF Begins
  <2> QED BY <1>1, <2>1, BegunCycle
<1>6. CASE res = cs
  <2>1. EndsBy(cs, o.last)
    <3> SUFFICES ASSUME NEW j \in 1..n PROVE cs[j].last <= o.last
      BY <1>2 DEF EndsBy
    <3>1. cs[j].last <= o.first /\ cs[j].last \in Int
      BY <1>2, MarkedCycle DEF EndsBy
    <3> QED BY <1>3, <3>1
  <2> QED BY <1>1, <1>6, <2>1
<1>7. ASSUME NEW i, NEW c, Extends(cs, o, res, i, c)
      PROVE  Stored(r, res) /\ EndsBy(res, o.last)
  <2>1. i \in 1..n /\ History!Matches(cs[i], o) /\ cs[i] \in CycleOf(r) /\ cs[i].last <= o.first
    BY <1>2, <1>7 DEF EndsBy, Extends
  <2>2. c = IF History!NeedsBoundary(cs[i], o) THEN History!WithBoundary(cs[i], o) ELSE cs[i]
    BY <1>7 DEF Extends
  <2>3. c \in CycleOf(r) /\ c.last = cs[i].last /\ c.win = cs[i].win /\ c.reset \in {cs[i].reset, o.reset} /\ c.segs = cs[i].segs
    BY <2>1, <2>2, RenewedCycle
  <2>4. PICK e : e = History!Extend(c, o)
    OBVIOUS
  <2>5. c.last <= o.first /\ c.last \in Int
    BY <2>1, <2>3, MarkedCycle
  <2>6. e \in CycleOf(r) /\ e.last \in {c.last, o.last} /\ e.win = c.win /\ e.reset = c.reset
    BY <2>3, <2>4, <2>5, ExtendedCycle
  <2>7. e.last <= o.last /\ cs[i].last <= e.last
    BY <1>3, <2>3, <2>5, <2>6
  <2>8. res = [cs EXCEPT ![i] = e]
    BY <1>7, <2>4 DEF Extends
  <2>9. e.win = cs[i].win /\ e.reset \in {cs[i].reset, o.reset}
    BY <2>3, <2>6
  <2>10. Stored(r, res) /\ EndsBy(res, o.last)
    BY <1>2, <2>1, <2>6, <2>7, <2>8, <2>9, ReplacedCycle
  <2> QED BY <2>10
<1> QED BY <1>1, <1>4, <1>5, <1>6, <1>7

-----------------------------------------------------------------------------
(***************************************************************************)
(* Folding observations, one after the other.                              *)
(***************************************************************************)

\* The values of a fold after each of n steps.
Applies(h, base, seq, n) ==
    h = [i \in 0..n |-> IF i = 0 THEN base ELSE History!ApplyObservation(h[i - 1], seq[i])]
Merges(h, base, seq, n) ==
    h = [i \in 0..n |-> IF i = 0 THEN base ELSE History!MergeObservation(h[i - 1], seq[i])]

\* Applying a list of observations, one after the other.
LEMMA AppliesOn ==
    ASSUME NEW base, NEW seq, NEW n \in Nat
    PROVE  \E h : Applies(h, base, seq, n)
<1>1. PICK B : B = {k \in 0..n : \E h : Applies(h, base, seq, k)}
  OBVIOUS
<1>2. 0 \in B
  <2>1. PICK h : h = [i \in 0..0 |-> base]
    OBVIOUS
  <2>2. Applies(h, base, seq, 0)
    BY <2>1 DEF Applies
  <2> QED BY <1>1, <2>2
<1>3. ASSUME NEW k \in 1..n, k - 1 \in B PROVE k \in B
  <2>1. PICK h : Applies(h, base, seq, k - 1)
    BY <1>1, <1>3
  <2>2. PICK g : g = [i \in 0..k |-> IF i = k THEN History!ApplyObservation(h[k - 1], seq[k]) ELSE h[i]]
    OBVIOUS
  <2>3. \A i \in 0..(k - 1) : g[i] = h[i] /\ h[i] = IF i = 0 THEN base ELSE History!ApplyObservation(h[i - 1], seq[i])
    BY <2>1, <2>2 DEF Applies
  <2>4. ASSUME NEW i \in 0..k
        PROVE  g[i] = IF i = 0 THEN base ELSE History!ApplyObservation(g[i - 1], seq[i])
    <3>1. CASE i = k
      BY <2>2, <2>3, <3>1
    <3>2. CASE i # k
      <4>1. i \in 0..(k - 1) /\ (i # 0 => i - 1 \in 0..(k - 1))
        BY <3>2
      <4> QED BY <2>3, <4>1
    <3> QED BY <3>1, <3>2
  <2>5. Applies(g, base, seq, k)
    <3>1. g = [i \in 0..k |-> g[i]]
      BY <2>2
    <3> QED BY <2>4, <3>1 DEF Applies
  <2> QED BY <1>1, <2>5
<1>4. n \in B
  <2>1. \A i \in 0..n : i \in B
    BY <1>2, <1>3, AlongIndex
  <2> QED BY <2>1
<1> QED BY <1>1, <1>4

AppliedAll(base, seq) == History!Folded(History!ApplyObservation, base, seq)

ApplyTurns(res, base, seq, n) ==
    \E h : res = h[n] /\ h[0] = base /\ \A i \in 1..n : h[i] = History!ApplyObservation(h[i - 1], seq[i])

LEMMA AppliedInTurn ==
    ASSUME NEW base, NEW seq, NEW n \in Nat, n = Len(seq)
    PROVE  ApplyTurns(AppliedAll(base, seq), base, seq, n)
<1> DEFINE Step(f, i) == IF i = 0 THEN base
                         ELSE CHOOSE v \in {History!ApplyObservation(u, seq[i]) : u \in {f[i - 1]}} : TRUE
           Fits(f) == f = [i \in 0..Len(seq) |-> Step(f, i)]
<1>1. \A f, i : Step(f, i) = IF i = 0 THEN base ELSE History!ApplyObservation(f[i - 1], seq[i])
  OBVIOUS
<1>2. PICK g : Applies(g, base, seq, n)
  BY AppliesOn
<1>3. Fits(g)
  <2> HIDE DEF Step
  <2> QED BY <1>1, <1>2 DEF Applies
<1>4. PICK h : h = CHOOSE f : Fits(f)
  OBVIOUS
<1>5. Fits(h)
  <2> HIDE DEF Fits
  <2> QED BY <1>3, <1>4
<1>6. AppliedAll(base, seq) = h[n]
  BY <1>4 DEF AppliedAll, History!Folded
<1>7. \A i \in 0..n : h[i] = Step(h, i)
  <2> HIDE DEF Step
  <2> QED BY <1>5
<1>8. h[0] = base
  BY <1>7
<1>9. \A i \in 1..n : h[i] = History!ApplyObservation(h[i - 1], seq[i])
  <2> HIDE DEF Step
  <2> QED BY <1>1, <1>7
<1> QED BY <1>6, <1>8, <1>9 DEF ApplyTurns

\* Merging a list of candidates, one after the other.
LEMMA MergesOn ==
    ASSUME NEW base, NEW seq, NEW n \in Nat
    PROVE  \E h : Merges(h, base, seq, n)
<1>1. PICK B : B = {k \in 0..n : \E h : Merges(h, base, seq, k)}
  OBVIOUS
<1>2. 0 \in B
  <2>1. PICK h : h = [i \in 0..0 |-> base]
    OBVIOUS
  <2>2. Merges(h, base, seq, 0)
    BY <2>1 DEF Merges
  <2> QED BY <1>1, <2>2
<1>3. ASSUME NEW k \in 1..n, k - 1 \in B PROVE k \in B
  <2>1. PICK h : Merges(h, base, seq, k - 1)
    BY <1>1, <1>3
  <2>2. PICK g : g = [i \in 0..k |-> IF i = k THEN History!MergeObservation(h[k - 1], seq[k]) ELSE h[i]]
    OBVIOUS
  <2>3. \A i \in 0..(k - 1) : g[i] = h[i] /\ h[i] = IF i = 0 THEN base ELSE History!MergeObservation(h[i - 1], seq[i])
    BY <2>1, <2>2 DEF Merges
  <2>4. ASSUME NEW i \in 0..k
        PROVE  g[i] = IF i = 0 THEN base ELSE History!MergeObservation(g[i - 1], seq[i])
    <3>1. CASE i = k
      BY <2>2, <2>3, <3>1
    <3>2. CASE i # k
      <4>1. i \in 0..(k - 1) /\ (i # 0 => i - 1 \in 0..(k - 1))
        BY <3>2
      <4> QED BY <2>3, <4>1
    <3> QED BY <3>1, <3>2
  <2>5. Merges(g, base, seq, k)
    <3>1. g = [i \in 0..k |-> g[i]]
      BY <2>2
    <3> QED BY <2>4, <3>1 DEF Merges
  <2> QED BY <1>1, <2>5
<1>4. n \in B
  <2>1. \A i \in 0..n : i \in B
    BY <1>2, <1>3, AlongIndex
  <2> QED BY <2>1
<1> QED BY <1>1, <1>4

MergedAll(base, seq) == History!Folded(History!MergeObservation, base, seq)

MergeTurns(res, base, seq, n) ==
    \E h : res = h[n] /\ h[0] = base /\ \A i \in 1..n : h[i] = History!MergeObservation(h[i - 1], seq[i])

LEMMA MergedInTurn ==
    ASSUME NEW base, NEW seq, NEW n \in Nat, n = Len(seq)
    PROVE  MergeTurns(MergedAll(base, seq), base, seq, n)
<1> DEFINE Step(f, i) == IF i = 0 THEN base
                         ELSE CHOOSE v \in {History!MergeObservation(u, seq[i]) : u \in {f[i - 1]}} : TRUE
           Fits(f) == f = [i \in 0..Len(seq) |-> Step(f, i)]
<1>1. \A f, i : Step(f, i) = IF i = 0 THEN base ELSE History!MergeObservation(f[i - 1], seq[i])
  OBVIOUS
<1>2. PICK g : Merges(g, base, seq, n)
  BY MergesOn
<1>3. Fits(g)
  <2> HIDE DEF Step
  <2> QED BY <1>1, <1>2 DEF Merges
<1>4. PICK h : h = CHOOSE f : Fits(f)
  OBVIOUS
<1>5. Fits(h)
  <2> HIDE DEF Fits
  <2> QED BY <1>3, <1>4
<1>6. MergedAll(base, seq) = h[n]
  BY <1>4 DEF MergedAll, History!Folded
<1>7. \A i \in 0..n : h[i] = Step(h, i)
  <2> HIDE DEF Step
  <2> QED BY <1>5
<1>8. h[0] = base
  BY <1>7
<1>9. \A i \in 1..n : h[i] = History!MergeObservation(h[i - 1], seq[i])
  <2> HIDE DEF Step
  <2> QED BY <1>1, <1>7
<1> QED BY <1>6, <1>8, <1>9 DEF MergeTurns

LEMMA AppliedNone ==
    ASSUME NEW base PROVE AppliedAll(base, <<>>) = base
<1>1. PICK q : q = <<>>
  OBVIOUS
<1>2. ApplyTurns(AppliedAll(base, q), base, q, 0)
  <2>1. 0 \in Nat /\ 0 = Len(q)
    BY <1>1
  <2> QED BY <2>1, AppliedInTurn
<1> QED BY <1>1, <1>2 DEF ApplyTurns

-----------------------------------------------------------------------------
(***************************************************************************)
(* What is written after a merge: observations one after the other, after  *)
(* all that is stored and by time t.                                       *)
(***************************************************************************)

Chain(r, cs, q, t) ==
    /\ q \in Seq(ObsOf(r))
    /\ \A k, l \in 1..Len(q) : k < l => q[k].last <= q[l].first
    /\ \A k \in 1..Len(q) : EndsBy(cs, q[k].first) /\ q[k].last <= t

LEMMA EndsLater ==
    ASSUME NEW r, NEW cs, Stored(r, cs), NEW t \in Int, NEW u \in Int, t <= u, EndsBy(cs, t)
    PROVE  EndsBy(cs, u)
<1> SUFFICES ASSUME NEW i \in 1..Len(cs) PROVE cs[i].last <= u
  BY DEF EndsBy
<1>1. cs[i] \in CycleOf(r) /\ cs[i].last <= t
  BY DEF Stored, EndsBy
<1>2. cs[i].last \in Int
  BY <1>1, MarkedCycle
<1> QED BY <1>1, <1>2

LEMMA LongerChain ==
    ASSUME NEW r, NEW cs, NEW q, NEW t \in Int, Chain(r, cs, q, t), NEW o \in ObsOf(r), t <= o.first,
           EndsBy(cs, o.first)
    PROVE  Chain(r, cs, Append(q, o), o.last)
<1>1. PICK n \in Nat : n = Len(q) /\ \A i \in 1..n : q[i] \in ObsOf(r) /\ q[i].last \in Int
  BY DEF Chain, ObsOf
<1>2. PICK p : p = Append(q, o)
  OBVIOUS
<1>3. p \in Seq(ObsOf(r)) /\ Len(p) = n + 1 /\ p[n + 1] = o /\ \A i \in 1..n : p[i] = q[i]
  BY <1>1, <1>2 DEF Chain
<1>4. o.first \in Int /\ o.last \in Int /\ o.first <= o.last
  BY DEF ObsOf
<1>5. \A i \in 1..n : q[i].last <= o.first /\ q[i].last <= o.last /\ EndsBy(cs, q[i].first)
  BY <1>1, <1>4 DEF Chain
<1>6. ASSUME NEW k \in 1..(n + 1), NEW l \in 1..(n + 1), k < l PROVE p[k].last <= p[l].first
  <2>1. CASE l = n + 1
    <3>1. k \in 1..n
      BY <1>6, <2>1
    <3> QED BY <1>3, <1>5, <2>1, <3>1
  <2>2. CASE l # n + 1
    <3>1. k \in 1..n /\ l \in 1..n
      BY <1>6, <2>2
    <3> QED BY <1>1, <1>3, <1>6, <3>1 DEF Chain
  <2> QED BY <2>1, <2>2
<1>7. ASSUME NEW k \in 1..(n + 1) PROVE EndsBy(cs, p[k].first) /\ p[k].last <= o.last
  <2>1. CASE k = n + 1
    BY <1>3, <1>4, <2>1
  <2>2. CASE k # n + 1
    <3>1. k \in 1..n
      BY <2>2
    <3> QED BY <1>3, <1>5, <3>1
  <2> QED BY <2>1, <2>2
<1>8. Chain(r, cs, p, o.last)
  BY <1>3, <1>6, <1>7 DEF Chain
<1> QED BY <1>2, <1>8

PutLast(q, o) == [q EXCEPT ![Len(q)] = o]

LEMMA RenewedChain ==
    ASSUME NEW r, NEW cs, NEW q, NEW u \in Int, Chain(r, cs, q, u), q # <<>>,
           NEW o \in ObsOf(r), o.first = q[Len(q)].first, o.last <= u,
           NEW p, p = PutLast(q, o)
    PROVE  Chain(r, cs, p, u) /\ Len(p) = Len(q) /\ p[Len(q)] = o
<1>1. PICK n \in Nat : n = Len(q) /\ n # 0 /\ \A i \in 1..n : q[i] \in ObsOf(r) /\ q[i].last \in Int
  BY DEF Chain, ObsOf
<1>3. p \in Seq(ObsOf(r)) /\ Len(p) = n /\ p[n] = o /\ \A i \in 1..n : i # n => p[i] = q[i]
  BY <1>1 DEF Chain, PutLast
<1>4. ASSUME NEW k \in 1..n, NEW l \in 1..n, k < l PROVE p[k].last <= p[l].first
  <2>1. q[k].last <= q[l].first /\ k # n
    BY <1>1, <1>4 DEF Chain
  <2> QED BY <1>1, <1>3, <2>1
<1>5. ASSUME NEW k \in 1..n PROVE EndsBy(cs, p[k].first) /\ p[k].last <= u
  <2>1. EndsBy(cs, q[k].first) /\ q[k].last <= u
    BY <1>1 DEF Chain
  <2> QED BY <1>1, <1>3, <2>1
<1>6. Chain(r, cs, p, u)
  BY <1>3, <1>4, <1>5 DEF Chain
<1> QED BY <1>1, <1>3, <1>6

\* Nothing pending is a chain.
LEMMA NoChain ==
    ASSUME NEW r, NEW cs, NEW t PROVE Chain(r, cs, <<>>, t)
BY DEF Chain

\* An order that moves nothing ahead of anything moves nothing.
LEMMA NothingMoves ==
    ASSUME NEW n \in Nat, NEW p \in [1..n -> 1..n], \A i, j \in 1..n : i < j => p[i] < p[j]
    PROVE  \A i \in 1..n : p[i] = i
<1>1. PICK B : B = {i \in 0..n : i = 0 \/ p[i] >= i}
  OBVIOUS
<1>2. ASSUME NEW i \in 1..n, i - 1 \in B PROVE i \in B
  <2>1. CASE i = 1
    <3>1. p[i] \in 1..n
      OBVIOUS
    <3> QED BY <1>1, <2>1, <3>1
  <2>2. CASE i # 1
    <3>1. i - 1 \in 1..n /\ i - 1 < i
      BY <2>2
    <3>2. p[i - 1] < p[i] /\ p[i - 1] >= i - 1 /\ p[i] \in Int /\ p[i - 1] \in Int
      BY <1>1, <1>2, <3>1
    <3>3. p[i] >= i
      BY <3>2
    <3> QED BY <1>1, <3>3
  <2> QED BY <2>1, <2>2
<1>3. 0 \in B
  BY <1>1
<1>4. \A i \in 0..n : i \in B
  BY <1>2, <1>3, AlongIndex
<1>5. PICK C : C = {i \in 0..n : i < n => p[n - i] <= n - i}
  OBVIOUS
<1>6. 0 \in C
  <2>1. 0 < n => p[n] \in 1..n
    OBVIOUS
  <2> QED BY <1>5, <2>1
<1>7. ASSUME NEW i \in 1..n, i - 1 \in C PROVE i \in C
  <2>1. CASE i = n
    BY <1>5, <2>1
  <2>2. CASE i # n
    <3>1. PICK a \in 1..n, b \in 1..n : a = n - i /\ b = n - (i - 1) /\ a < b
      BY <2>2
    <3>2. p[a] < p[b] /\ p[a] \in Int /\ p[b] \in Int
      BY <3>1
    <3>3. p[b] <= b
      BY <1>5, <1>7, <2>2, <3>1
    <3>4. p[a] <= a
      BY <3>1, <3>2, <3>3
    <3> QED BY <1>5, <3>1, <3>4
  <2> QED BY <2>1, <2>2
<1>8. \A i \in 0..n : i \in C
  BY <1>6, <1>7, AlongIndex
<1>9. ASSUME NEW i \in 1..n PROVE p[i] = i
  <2>1. p[i] >= i /\ p[i] \in Int
    BY <1>1, <1>4
  <2>2. PICK k \in 0..n : k = n - i /\ k < n /\ n - k = i
    OBVIOUS
  <2>3. p[i] <= i
    BY <1>5, <1>8, <2>2
  <2> QED BY <2>1, <2>3
<1> QED BY <1>9

\* A chain is sorted.
LEMMA SortedChain ==
    ASSUME NEW r, NEW cs, NEW q, NEW t, Chain(r, cs, q, t)
    PROVE  History!SortBy("first", q) = q
<1>1. PICK n \in Nat : n = Len(q) /\ \A i \in 1..n : q[i] \in ObsOf(r)
  BY DEF Chain
<1>2. PICK s : s = History!SortBy("first", q)
  OBVIOUS
<1>3. SortedBy("first", q, s)
  <2>1. \A x \in ObsOf(r) : x["first"] \in Int
    BY DEF ObsOf
  <2>2. q \in Seq(ObsOf(r))
    BY DEF Chain
  <2> QED BY <1>2, <2>1, <2>2, SortBySorts
<1>4. PICK p \in [1..n -> 1..n] :
        /\ s = [k \in 1..n |-> q[p[k]]]
        /\ \A i, j \in 1..n : i < j => \/ q[p[i]].first < q[p[j]].first
                                       \/ q[p[i]].first = q[p[j]].first /\ p[i] < p[j]
  BY <1>1, <1>3 DEF SortedBy
<1>5. s \in Seq(ObsOf(r)) /\ Len(s) = n /\ \A k \in 1..n : p[k] \in 1..n /\ s[k] = q[p[k]]
  BY <1>1, <1>4
<1>6. ASSUME NEW i \in 1..n, NEW j \in 1..n, i < j PROVE p[i] < p[j]
  <2>1. PICK a \in 1..n, b \in 1..n : a = p[i] /\ b = p[j]
    BY <1>5
  <2>2. q[a].first < q[b].first \/ (q[a].first = q[b].first /\ a < b)
    BY <1>4, <1>6, <2>1
  <2>3. /\ q[a].first \in Int /\ q[b].first \in Int /\ q[a].last \in Int /\ q[b].last \in Int
        /\ q[a].first <= q[a].last /\ q[b].first <= q[b].last
    BY <1>1 DEF ObsOf
  <2>4. b < a => q[b].last <= q[a].first
    BY <1>1 DEF Chain
  <2>5. a < b
    <3>1. PICK x \in Int, y \in Int, z \in Int : x = q[a].first /\ y = q[b].first /\ z = q[b].last
      BY <2>3
    <3>2. (x < y \/ a < b) /\ y <= z /\ (b < a => z <= x) /\ (a = b => x = y)
      BY <2>2, <2>3, <2>4, <3>1
    <3> QED BY <3>2
  <2> QED BY <2>1, <2>5
<1>7. \A i \in 1..n : p[i] = i
  BY <1>6, NothingMoves
<1>8. \A i \in 1..n : s[i] = q[i]
  BY <1>5, <1>7
<1>9. s = [i \in 1..n |-> s[i]] /\ q = [i \in 1..n |-> q[i]]
  BY <1>1, <1>4 DEF Chain
<1>10. s = q
  BY <1>8, <1>9
<1> QED BY <1>2, <1>10

\* Writing a chain keeps what is stored sound.
LEMMA AppliedChain ==
    ASSUME HistoryConstants, History!DriftIsBounded, NEW r, NEW cs, Stored(r, cs), NEW t \in Int,
           EndsBy(cs, t), NEW q, Chain(r, cs, q, t)
    PROVE  Stored(r, AppliedAll(cs, q)) /\ EndsBy(AppliedAll(cs, q), t)
<1>3. PICK n \in Nat : n = Len(q) /\ \A i \in 1..n : q[i] \in ObsOf(r)
  BY DEF Chain
<1>4. PICK h : /\ AppliedAll(cs, q) = h[n]
               /\ h[0] = cs
               /\ \A i \in 1..n : h[i] = History!ApplyObservation(h[i - 1], q[i])
  <2>1. ApplyTurns(AppliedAll(cs, q), cs, q, n)
    BY <1>3, AppliedInTurn
  <2> QED BY <2>1 DEF ApplyTurns
<1>5. PICK B : B = {i \in 0..n : /\ Stored(r, h[i]) /\ EndsBy(h[i], t)
                                 /\ \A k \in 1..n : i < k => EndsBy(h[i], q[k].first)}
  OBVIOUS
<1>6. 0 \in B
  <2>1. \A k \in 1..n : EndsBy(cs, q[k].first)
    BY <1>3 DEF Chain
  <2> QED BY <1>4, <1>5, <2>1
<1>7. ASSUME NEW i \in 1..n, i - 1 \in B PROVE i \in B
  <2>1. PICK o : o = q[i]
    OBVIOUS
  <2>2. o \in ObsOf(r) /\ o.last <= t /\ o.last \in Int
    BY <1>3, <2>1 DEF Chain, ObsOf
  <2>3. PICK c : c = h[i - 1]
    OBVIOUS
  <2>4. Stored(r, c) /\ EndsBy(c, o.first)
    BY <1>5, <1>7, <2>1, <2>3
  <2>5. Stored(r, History!ApplyObservation(c, o)) /\ EndsBy(History!ApplyObservation(c, o), o.last)
    BY <2>2, <2>4, AppliedObservation
  <2>6. PICK d : d = h[i]
    OBVIOUS
  <2>7. Stored(r, d) /\ EndsBy(d, o.last)
    BY <1>4, <2>1, <2>3, <2>5, <2>6
  <2>8. EndsBy(d, t)
    BY <2>2, <2>7, EndsLater
  <2>9. ASSUME NEW k \in 1..n, i < k PROVE EndsBy(d, q[k].first)
    <3>1. o.last <= q[k].first /\ q[k].first \in Int
      BY <1>3, <2>1, <2>9 DEF Chain, ObsOf
    <3> QED BY <2>2, <2>7, <3>1, EndsLater
  <2> QED BY <1>5, <2>6, <2>7, <2>8, <2>9
<1>8. \A i \in 0..n : i \in B
  BY <1>6, <1>7, AlongIndex
<1>9. Stored(r, h[n]) /\ EndsBy(h[n], t)
  BY <1>5, <1>8
<1> QED BY <1>4, <1>9

LEMMA WrittenInOrder ==
    ASSUME NEW r, NEW cs, NEW t, NEW q, Chain(r, cs, q, t)
    PROVE  History!WriteObservations(cs, q) = AppliedAll(cs, q)
<1>1. History!SortBy("first", q) = q
  BY SortedChain
<1> QED BY <1>1 DEF History!WriteObservations, AppliedAll

-----------------------------------------------------------------------------
(***************************************************************************)
(* The merge of one observation: what is remembered ends after all that is *)
(* stored, what is deferred belongs to the remembered cycle, and what will *)
(* be written is a chain whose last entry is the remembered one.           *)
(***************************************************************************)

Held(r, cs, c, s) ==
    s.obs \in ObsOf(r) /\ EndsBy(cs, s.obs.first) /\ s.obs.last <= c.last /\ History!Matches(c, s.obs)

Fits(r, cs, c, s, p, k) ==
    \/ c = History!None /\ cs = <<>> /\ s = History!NoStable /\ p = <<>> /\ k = 0
    \/ /\ c \in KnownOf(r) /\ EndsBy(cs, c.last) /\ Chain(r, cs, p, c.last)
       /\ \/ p = <<>> /\ k = 0 /\ (s # History!NoStable => Held(r, cs, c, s))
          \/ p # <<>> /\ k = Len(p) /\ s = History!NoStable /\ p[Len(p)].win = c.win

Merged(c, s, p, k, m) == [cur |-> c, stable |-> s, pend |-> p, at |-> k, mat |-> m]
Sane(r, cs, a) == \E c, s, p, k, m : a = Merged(c, s, p, k, m) /\ Fits(r, cs, c, s, p, k)

LEMMA LaterChain ==
    ASSUME NEW r, NEW cs, NEW q, NEW t \in Int, NEW u \in Int, t <= u, Chain(r, cs, q, t)
    PROVE  Chain(r, cs, q, u)
<1>1. \A k \in 1..Len(q) : q[k].last \in Int /\ q[k].last <= t
  BY DEF Chain, ObsOf
<1>2. \A k \in 1..Len(q) : q[k].last <= u
  BY <1>1
<1> QED BY <1>2 DEF Chain

\* What was deferred comes before what is put in next.
LEMMA DeferredChain ==
    ASSUME NEW r, NEW cs, NEW c \in KnownOf(r), NEW s, NEW p, NEW k, NEW m, Fits(r, cs, c, s, p, k),
           NEW a, a = Merged(c, s, p, k, m)
    PROVE  /\ Chain(r, cs, History!WithDeferred(a), c.last)
           /\ p # <<>> => History!WithDeferred(a) = p
<1>0. c # History!None /\ c.last \in Int
  BY DEF KnownOf, History!None
<1>1. /\ Chain(r, cs, p, c.last)
      /\ \/ p = <<>> /\ k = 0 /\ (s # History!NoStable => Held(r, cs, c, s))
         \/ p # <<>> /\ k = Len(p) /\ s = History!NoStable /\ p[Len(p)].win = c.win
  BY <1>0 DEF Fits
<1>2. History!WithDeferred(a) = IF s = History!NoStable THEN p ELSE Append(p, s.obs)
  BY DEF History!WithDeferred, Merged
<1>3. CASE s = History!NoStable
  BY <1>1, <1>2, <1>3
<1>4. CASE s # History!NoStable
  <2>1. p = <<>> /\ Held(r, cs, c, s)
    BY <1>1, <1>4
  <2>2. PICK o : o = s.obs
    OBVIOUS
  <2>3. /\ o \in ObsOf(r) /\ EndsBy(cs, o.first) /\ o.last <= c.last /\ o.first \in Int /\ o.last \in Int
        /\ o.first <= o.first
    BY <2>1, <2>2 DEF Held, ObsOf
  <2>4. Chain(r, cs, p, o.first)
    BY <2>1, NoChain
  <2>5. Chain(r, cs, Append(p, o), o.last)
    BY <2>3, <2>4, LongerChain
  <2>6. Chain(r, cs, Append(p, o), c.last)
    BY <1>0, <2>3, <2>5, LaterChain
  <2> QED BY <1>2, <1>4, <2>1, <2>2, <2>6
<1> QED BY <1>3, <1>4

LEMMA FromObserved ==
    ASSUME NEW r, NEW o \in ObsOf(r)
    PROVE  /\ History!FromObservation(o) \in KnownOf(r)
           /\ History!FromObservation(o).last = o.last /\ History!FromObservation(o).win = o.win
           /\ History!FromObservation(o).reset = o.reset /\ History!FromObservation(o).pct = o.pct
<1>1. PICK c : c = History!FromObservation(o)
  OBVIOUS
<1>2. c = [found |-> TRUE, win |-> o.win, src |-> o.src, reset |-> o.reset, pct |-> o.pct, last |-> o.last]
  BY <1>1 DEF History!FromObservation
<1>3. o.win \in Lengths /\ o.src \in Origins /\ o.reset \in Int /\ o.reset \in Marks(r, o.win) /\ o.pct \in Int /\ o.last \in Int
  BY DEF ObsOf
<1>4. /\ c \in [found : {TRUE}, win : Lengths, src : Origins, reset : Int, pct : Int, last : Int]
      /\ c.win = o.win /\ c.reset = o.reset /\ c.last = o.last /\ c.pct = o.pct
  BY <1>2, <1>3
<1> QED BY <1>1, <1>3, <1>4 DEF KnownOf

LEMMA MergedChange ==
    ASSUME HistoryConstants, History!DriftIsBounded, NEW r, NEW cs, Stored(r, cs), NEW c, NEW s, NEW p,
           NEW k, NEW m, Fits(r, cs, c, s, p, k), NEW a, a = Merged(c, s, p, k, m),
           NEW o \in ObsOf(r), o.first = o.last, c \in KnownOf(r) => c.last <= o.last
    PROVE  Sane(r, cs, History!Change(a, o))
<1>1. PICK w : w = History!WithDeferred(a)
  OBVIOUS
<1>2. o.first \in Int /\ o.last \in Int
  BY DEF ObsOf
<1>3. Chain(r, cs, Append(w, o), o.last) /\ EndsBy(cs, o.last) /\ w \in Seq(ObsOf(r))
  <2>1. CASE c \in KnownOf(r)
    <3>1. Chain(r, cs, w, c.last) /\ c.last \in Int
      BY <1>1, <2>1, DeferredChain DEF KnownOf
    <3>2. EndsBy(cs, c.last)
      <4>1. c # History!None
        BY <2>1 DEF KnownOf, History!None
      <4> QED BY <4>1 DEF Fits
    <3>3. EndsBy(cs, o.first) /\ EndsBy(cs, o.last)
      BY <1>2, <2>1, <3>1, <3>2, EndsLater
    <3>4. c.last <= o.first
      BY <1>2, <2>1
    <3> QED BY <3>1, <3>3, <3>4, LongerChain DEF Chain
  <2>2. CASE c \notin KnownOf(r)
    <3>1. cs = <<>> /\ s = History!NoStable /\ p = <<>>
      BY <2>2 DEF Fits
    <3>2. w = <<>>
      BY <1>1, <3>1 DEF History!WithDeferred, Merged
    <3>3. EndsBy(cs, o.first) /\ EndsBy(cs, o.last)
      BY <3>1 DEF EndsBy
    <3>4. Chain(r, cs, w, o.first) /\ o.first <= o.first
      BY <1>2, <3>2, NoChain
    <3> QED BY <1>2, <3>3, <3>4, LongerChain DEF Chain
  <2> QED BY <2>1, <2>2
<1>4. PICK q : q = Append(w, o)
  OBVIOUS
<1>5. q # <<>> /\ Len(q) # 0 /\ q[Len(q)] = o
  BY <1>3, <1>4
<1>6. PICK f : f = History!FromObservation(o)
  OBVIOUS
<1>7. f \in KnownOf(r) /\ f.last = o.last /\ f.win = o.win /\ f.reset = o.reset /\ f.pct = o.pct
  BY <1>6, FromObserved
<1>9. Fits(r, cs, f, History!NoStable, q, Len(q))
  BY <1>3, <1>4, <1>5, <1>7 DEF Fits
<1>10. PICK n : n = a.mat \union {o.last}
  OBVIOUS
<1>11. History!Change(a, o) = Merged(f, History!NoStable, q, Len(q), n)
  BY <1>1, <1>4, <1>6, <1>10 DEF History!Change, Merged
<1> QED BY <1>9, <1>11 DEF Sane

\* What was compared and found to match goes on to match.
LEMMA MixedMatch ==
    ASSUME HistoryConstants, History!DriftIsBounded, NEW r, NEW c, NEW x, NEW o, NEW u, NEW v,
           Marked(r, c), Marked(r, x), Marked(r, o), History!Matches(c, x), History!Matches(c, o),
           u.win = c.win, u.reset \in {c.reset, o.reset}, v.win = x.win, v.reset \in {x.reset, o.reset}
    PROVE  History!Matches(u, v)
<1>1. c.win = x.win /\ c.win = o.win /\ o.reset \in Int
  BY DEF History!Matches, Marked
<1>2. History!Matches(o, c)
  BY MatchingIsTransitive
<1>3. History!Matches(o, x)
  BY <1>2, MatchingIsTransitive
<1>4. History!Matches(o, o)
  BY <1>1 DEF History!Matches, History!Dist, HistoryConstants
<1>5. CASE u.reset = c.reset /\ v.reset = x.reset
  BY <1>1, <1>5 DEF History!Matches
<1>6. CASE u.reset = c.reset /\ v.reset = o.reset
  BY <1>1, <1>6 DEF History!Matches
<1>7. CASE u.reset = o.reset /\ v.reset = x.reset
  BY <1>1, <1>3, <1>7 DEF History!Matches
<1>8. CASE u.reset = o.reset /\ v.reset = o.reset
  BY <1>1, <1>4, <1>8 DEF History!Matches
<1> QED BY <1>5, <1>6, <1>7, <1>8

Renewed(y, t, o) == [History!Trusting(y, o) EXCEPT !.last = t]

\* A merged observation.
LEMMA RenewedObservation ==
    ASSUME NEW r, NEW x \in ObsOf(r), NEW o \in ObsOf(r), x.win = o.win, NEW t \in Int, x.first <= t,
           NEW y, y = x \/ y = History!WithBoundary(x, o),
           NEW d, d = History!Trusting(y, o), NEW e, e = Renewed(y, t, o)
    PROVE  /\ d \in ObsOf(r) /\ d.first = x.first /\ d.last = x.last /\ d.win = x.win /\ d.reset \in {x.reset, o.reset}
           /\ d.pct = x.pct /\ (x.auth => d.auth)
           /\ e \in ObsOf(r) /\ e.first = x.first /\ e.last = t /\ e.win = x.win /\ e.reset \in {x.reset, o.reset}
           /\ e.pct = x.pct /\ (x.auth => e.auth)
<1> DEFINE T == [role : Role, win : Lengths, src : Origins, reset : Int, pct : Int, first : Int, last : Int, auth : BOOLEAN]
<1>1. /\ x \in T /\ x.role = r /\ x.reset \in Marks(r, x.win) /\ x.first <= x.last
      /\ o \in T /\ o.reset \in Marks(r, o.win)
  BY DEF ObsOf
<1>2. /\ y \in T /\ y.role = r /\ y.first = x.first /\ y.last = x.last /\ y.win = x.win
      /\ y.reset \in {x.reset, o.reset} /\ y.pct = x.pct /\ y.auth = x.auth
  <2>1. CASE y = x
    BY <1>1, <2>1
  <2>2. CASE y = [x EXCEPT !.src = o.src, !.reset = o.reset]
    BY <1>1, <2>2
  <2> QED BY <2>1, <2>2 DEF History!WithBoundary
<1>3. PICK b \in BOOLEAN : b = (y.auth \/ o.auth)
  OBVIOUS
<1>4. d = [y EXCEPT !.auth = b]
  BY <1>3 DEF History!Trusting
<1>5. /\ d \in T /\ d.role = r /\ d.first = x.first /\ d.last = x.last /\ d.win = x.win /\ d.reset = y.reset
      /\ d.pct = x.pct /\ d.auth = b
  BY <1>2, <1>4
<1>6. e = [d EXCEPT !.last = t]
  BY DEF Renewed
<1>7. /\ e \in T /\ e.role = r /\ e.first = x.first /\ e.last = t /\ e.win = x.win /\ e.reset = y.reset
      /\ e.pct = x.pct /\ e.auth = b
  BY <1>5, <1>6
<1>8. d \in ObsOf(r) /\ e \in ObsOf(r)
  BY <1>1, <1>2, <1>5, <1>7 DEF ObsOf
<1>9. x.auth => b
  BY <1>2, <1>3, Zenon
<1>10. (x.auth => d.auth) /\ (x.auth => e.auth)
  BY <1>5, <1>7, <1>9, Zenon
<1> QED BY <1>2, <1>5, <1>7, <1>8, <1>10

\* A remembered cycle with the reset of an observation, or with its time.
LEMMA RenewedKnown ==
    ASSUME NEW r, NEW c \in KnownOf(r), NEW o \in ObsOf(r), c.win = o.win,
           NEW e, e = c \/ e = History!WithBoundary(c, o), NEW f, f = [e EXCEPT !.last = o.last]
    PROVE  /\ e \in KnownOf(r) /\ e.last = c.last /\ e.win = c.win /\ e.reset \in {c.reset, o.reset} /\ e.pct = c.pct
           /\ f \in KnownOf(r) /\ f.last = o.last /\ f.win = c.win /\ f.reset \in {c.reset, o.reset} /\ f.pct = c.pct
<1> DEFINE T == [found : {TRUE}, win : Lengths, src : Origins, reset : Int, pct : Int, last : Int]
<1>1. c \in T /\ c.reset \in Marks(r, c.win) /\ o.src \in Origins /\ o.reset \in Int /\ o.reset \in Marks(r, o.win) /\ o.last \in Int
  BY DEF KnownOf, ObsOf
<1>2. e \in T /\ e.last = c.last /\ e.win = c.win /\ e.reset \in {c.reset, o.reset} /\ e.pct = c.pct
  <2>1. CASE e = c
    BY <1>1, <2>1
  <2>2. CASE e = [c EXCEPT !.src = o.src, !.reset = o.reset]
    BY <1>1, <2>2
  <2> QED BY <2>1, <2>2 DEF History!WithBoundary
<1>4. f \in T /\ f.last = o.last /\ f.win = e.win /\ f.reset = e.reset /\ f.pct = e.pct
  BY <1>1, <1>2
<1>5. e \in KnownOf(r) /\ f \in KnownOf(r)
  BY <1>1, <1>2, <1>4 DEF KnownOf
<1> QED BY <1>2, <1>4, <1>5

LEMMA MergedSameInstant ==
    ASSUME HistoryConstants, History!DriftIsBounded, NEW r, NEW cs, Stored(r, cs), NEW c \in KnownOf(r),
           NEW s, NEW p, NEW k, NEW m, Fits(r, cs, c, s, p, k), NEW a, a = Merged(c, s, p, k, m),
           NEW o \in ObsOf(r), o.first = o.last, o.last = c.last, History!Matches(c, o),
           NEW e, e = c \/ e = History!WithBoundary(c, o)
    PROVE  Sane(r, cs, History!SameInstant(a, e, o))
<1>1. PICK w : w = History!WithDeferred(a)
  OBVIOUS
<1>2. Chain(r, cs, w, c.last) /\ (p # <<>> => w = p)
  BY <1>1, DeferredChain
<1>3. c.last \in Int /\ c # History!None /\ o.last \in Int /\ c.pct \in Int /\ c.win = o.win
  BY DEF KnownOf, History!None, ObsOf, History!Matches
<1>4. /\ EndsBy(cs, c.last)
      /\ \/ p = <<>> /\ k = 0
         \/ p # <<>> /\ k = Len(p) /\ p[Len(p)].win = c.win
  BY <1>3 DEF Fits
<1>5. e \in KnownOf(r) /\ e.last = c.last /\ e.win = c.win /\ e.reset \in {c.reset, o.reset} /\ e.pct = c.pct
  <2>1. PICK f : f = [e EXCEPT !.last = o.last]
    OBVIOUS
  <2> QED BY <1>3, <2>1, RenewedKnown
<1>6. PICK n : n = a.mat \union {o.last}
  OBVIOUS
<1>7. CASE p = <<>>
  <2>1. PICK x : x = [o EXCEPT !.pct = e.pct]
    OBVIOUS
  <2>2. x \in ObsOf(r) /\ x.first = o.first /\ x.last = o.last /\ x.win = o.win /\ x.reset = o.reset /\ x.pct = e.pct
    <3>1. e.pct \in Int
      BY <1>5 DEF KnownOf
    <3> QED BY <2>1, <3>1 DEF ObsOf
  <2>3. PICK q : q = Append(w, x)
    OBVIOUS
  <2>4. EndsBy(cs, x.first) /\ c.last <= x.first /\ x.first \in Int
    BY <1>3, <1>4, <2>2
  <2>5. Chain(r, cs, q, x.last)
    BY <1>2, <1>3, <2>2, <2>3, <2>4, LongerChain
  <2>6. w \in Seq(ObsOf(r))
    BY <1>2 DEF Chain
  <2>7. q # <<>> /\ Len(q) = Len(w) + 1 /\ q[Len(q)] = x
    BY <2>2, <2>3, <2>6
  <2>9. Fits(r, cs, e, History!NoStable, q, Len(w) + 1)
    BY <1>3, <1>4, <1>5, <2>2, <2>5, <2>7 DEF Fits
  <2>10. History!SameInstant(a, e, o) = Merged(e, History!NoStable, q, Len(w) + 1, n)
    <3>1. k = 0 /\ ~(k > 0)
      BY <1>4, <1>7
    <3>2. a.at = 0 /\ a.cur = c
      BY <3>1 DEF Merged
    <3>3. History!SameInstant(a, e, o) = [a EXCEPT !.cur = e, !.stable = History!NoStable, !.mat = n, !.pend = q, !.at = Len(w) + 1]
      BY <1>1, <1>6, <2>1, <2>3, <3>2 DEF History!SameInstant
    <3> QED BY <3>3 DEF Merged
  <2> QED BY <2>9, <2>10 DEF Sane
<1>8. CASE p # <<>>
  <2>1. PICK x : x = p[Len(p)]
    OBVIOUS
  <2>2. p \in Seq(ObsOf(r)) /\ Len(p) \in Nat /\ Len(p) # 0 /\ k = Len(p) /\ k > 0
    BY <1>2, <1>4, <1>8 DEF Chain
  <2>3. x \in ObsOf(r) /\ x.win = o.win /\ x.last \in Int /\ x.first <= x.last /\ x.last <= c.last
    BY <1>2, <1>3, <1>4, <1>8, <2>1, <2>2 DEF ObsOf, Chain
  <2>4. PICK y : y = History!WithBoundary(x, o)
    OBVIOUS
  <2>5. PICK z : z = History!Trusting(y, o)
    OBVIOUS
  <2>6. /\ z \in ObsOf(r) /\ z.first = x.first /\ z.last = x.last /\ z.win = x.win
        /\ z.reset \in {x.reset, o.reset} /\ z.pct = x.pct /\ (x.auth => z.auth)
    <3>1. x.win = o.win /\ x.last \in Int /\ x.first <= x.last /\ (y = x \/ y = History!WithBoundary(x, o))
      BY <2>3, <2>4
    <3>2. PICK f : f = Renewed(y, x.last, o)
      OBVIOUS
    <3> QED BY <2>3, <2>5, <3>1, <3>2, RenewedObservation
  <2>8. PICK q : q = PutLast(p, z)
    OBVIOUS
  <2>9. Chain(r, cs, q, c.last) /\ Len(q) = Len(p) /\ q[Len(p)] = z
    <3>1. Chain(r, cs, p, c.last) /\ z.first = p[Len(p)].first /\ z.last <= c.last
      BY <1>2, <1>3, <1>8, <2>1, <2>3, <2>6
    <3> QED BY <1>3, <1>8, <2>6, <2>8, <3>1, RenewedChain
  <2>10. q # <<>> /\ q[Len(q)].win = e.win
    BY <1>3, <1>4, <1>5, <2>2, <2>3, <2>6, <2>9
  <2>11. Fits(r, cs, e, History!NoStable, q, k)
    BY <1>4, <1>5, <2>2, <2>9, <2>10 DEF Fits
  <2>12. History!SameInstant(a, e, o) = Merged(e, History!NoStable, q, k, n)
    <3>1. q = [p EXCEPT ![k] = History!Trusting(History!WithBoundary(@, o), o)]
      BY <2>1, <2>2, <2>4, <2>5, <2>8 DEF PutLast
    <3>2. a.at = k /\ a.at > 0 /\ w = p
      BY <1>2, <1>8, <2>2 DEF Merged
    <3>3. History!SameInstant(a, e, o) = [a EXCEPT !.cur = e, !.stable = History!NoStable, !.mat = n, !.pend = q, !.at = k]
      BY <1>1, <1>6, <3>1, <3>2 DEF History!SameInstant
    <3> QED BY <3>3 DEF Merged
  <2> QED BY <2>11, <2>12 DEF Sane
<1> QED BY <1>7, <1>8

LEMMA MergedSamePercent ==
    ASSUME HistoryConstants, History!DriftIsBounded, NEW r, NEW cs, Stored(r, cs), NEW c \in KnownOf(r),
           NEW s, NEW p, NEW k, NEW m, Fits(r, cs, c, s, p, k), NEW a, a = Merged(c, s, p, k, m),
           NEW o \in ObsOf(r), o.first = o.last, c.last <= o.last, History!Matches(c, o), o.pct = c.pct,
           NEW boundary, NEW e, e = IF boundary THEN History!WithBoundary(c, o) ELSE c
    PROVE  Sane(r, cs, History!SamePercent(a, e, o, boundary))
<1>1. c.last \in Int /\ c # History!None /\ o.last \in Int /\ o.first \in Int
  BY DEF KnownOf, History!None, ObsOf
<1>2. /\ EndsBy(cs, c.last) /\ Chain(r, cs, p, c.last)
      /\ \/ p = <<>> /\ k = 0 /\ (s # History!NoStable => Held(r, cs, c, s))
         \/ p # <<>> /\ k = Len(p) /\ s = History!NoStable /\ p[Len(p)].win = c.win
  BY <1>1 DEF Fits
<1>3. PICK f : f = [e EXCEPT !.last = o.last]
  OBVIOUS
<1>4. c.win = o.win /\ (e = c \/ e = History!WithBoundary(c, o))
  BY DEF History!Matches
<1>5. f \in KnownOf(r) /\ f.last = o.last /\ f.win = c.win /\ f.reset \in {c.reset, o.reset} /\ f.pct = c.pct
  BY <1>3, <1>4, RenewedKnown
<1>6. EndsBy(cs, o.last) /\ Chain(r, cs, p, o.last)
  BY <1>1, <1>2, EndsLater, LaterChain
<1>7. CASE p = <<>>
  <2>1. PICK t : t = History!Defer(s, o, boundary \/ o.auth)
    OBVIOUS
  <2>2. k = 0 /\ ~(k > 0) /\ (s # History!NoStable => Held(r, cs, c, s))
    BY <1>2, <1>7
  <2>3. Marked(r, c) /\ Marked(r, o)
    BY MarkedCycle
  <2>4. Held(r, cs, f, t)
    <3>1. CASE s = History!NoStable
      <4>1. t.obs = o
        BY <2>1, <3>1 DEF History!Defer
      <4>2. History!Matches(f, o)
        BY <1>5, <2>3, MixedMatch
      <4> QED BY <1>1, <1>5, <1>6, <4>1, <4>2 DEF Held
    <3>2. CASE s # History!NoStable
      <4>1. PICK x : x = s.obs
        OBVIOUS
      <4>2. /\ x \in ObsOf(r) /\ EndsBy(cs, x.first) /\ x.last <= c.last /\ History!Matches(c, x)
            /\ x.first \in Int /\ x.last \in Int /\ x.first <= x.last
        BY <2>2, <3>2, <4>1 DEF Held, ObsOf
      <4>3. PICK y : y = IF o.auth \/ (x.src = "relative" /\ o.src = "absolute") THEN History!WithBoundary(x, o) ELSE x
        OBVIOUS
      <4>4. PICK d, z : d = History!Trusting(y, o) /\ z = Renewed(y, o.last, o)
        OBVIOUS
      <4>5. t.obs = z
        BY <2>1, <3>2, <4>1, <4>3, <4>4 DEF History!Defer, Renewed
      <4>6. x.win = o.win /\ x.first <= o.last /\ (y = x \/ y = History!WithBoundary(x, o))
        BY <1>1, <1>4, <4>2, <4>3 DEF History!Matches
      <4>7. z \in ObsOf(r) /\ z.first = x.first /\ z.last = o.last /\ z.win = x.win /\ z.reset \in {x.reset, o.reset} /\ z.pct = x.pct
        BY <1>1, <4>2, <4>4, <4>6, RenewedObservation
      <4>8. Marked(r, x)
        BY <4>2, MarkedCycle
      <4>9. History!Matches(f, z)
        BY <1>5, <2>3, <4>2, <4>7, <4>8, MixedMatch
      <4> QED BY <1>1, <1>5, <4>2, <4>5, <4>7, <4>9 DEF Held
    <3> QED BY <3>1, <3>2
  <2>6. Fits(r, cs, f, t, p, k)
    BY <1>5, <1>6, <1>7, <2>2, <2>4 DEF Fits
  <2>7. History!SamePercent(a, e, o, boundary) = Merged(f, t, p, k, m)
    <3>1. a.at = k /\ a.stable = s
      BY DEF Merged
    <3>2. History!SamePercent(a, e, o, boundary) = [a EXCEPT !.cur = f, !.stable = t]
      BY <1>3, <2>1, <2>2, <3>1 DEF History!SamePercent
    <3> QED BY <3>2 DEF Merged
  <2> QED BY <2>6, <2>7 DEF Sane
<1>8. CASE p # <<>>
  <2>1. PICK x : x = p[Len(p)]
    OBVIOUS
  <2>2. p \in Seq(ObsOf(r)) /\ Len(p) \in Nat /\ Len(p) # 0 /\ k = Len(p) /\ k > 0 /\ s = History!NoStable
    BY <1>2, <1>8 DEF Chain
  <2>3. /\ x \in ObsOf(r) /\ x.win = o.win /\ x.last \in Int /\ x.first \in Int /\ x.first <= x.last
        /\ x.last <= o.last
    BY <1>2, <1>4, <1>6, <1>8, <2>1, <2>2 DEF ObsOf, Chain
  <2>4. PICK y : y = IF boundary THEN History!WithBoundary(x, o) ELSE x
    OBVIOUS
  <2>5. PICK d, z : d = History!Trusting(y, o) /\ z = Renewed(y, o.last, o)
    OBVIOUS
  <2>6. /\ z \in ObsOf(r) /\ z.first = x.first /\ z.last = o.last /\ z.win = x.win
        /\ z.reset \in {x.reset, o.reset} /\ z.pct = x.pct /\ (x.auth => z.auth)
    <3>1. x.win = o.win /\ x.first <= o.last /\ (y = x \/ y = History!WithBoundary(x, o))
      BY <1>1, <2>3, <2>4
    <3> QED BY <1>1, <2>3, <2>5, <3>1, RenewedObservation
  <2>7. PICK q : q = PutLast(p, z)
    OBVIOUS
  <2>8. Chain(r, cs, q, o.last) /\ Len(q) = Len(p) /\ q[Len(p)] = z
    <3>1. z.first = p[Len(p)].first /\ z.last <= o.last
      BY <1>1, <2>1, <2>6
    <3> QED BY <1>1, <1>6, <1>8, <2>6, <2>7, <3>1, RenewedChain
  <2>9. q # <<>> /\ q[Len(q)].win = f.win
    BY <1>4, <1>5, <2>2, <2>3, <2>6, <2>8
  <2>11. Fits(r, cs, f, s, q, k)
    BY <1>5, <1>6, <2>2, <2>8, <2>9 DEF Fits
  <2>12. PICK n : n = a.mat \union {o.last}
    OBVIOUS
  <2>13. History!SamePercent(a, e, o, boundary) = Merged(f, s, q, k, n)
    <3>1. q = [p EXCEPT ![k] = [History!Trusting(IF boundary THEN History!WithBoundary(@, o) ELSE @, o) EXCEPT !.last = o.last]]
      BY <2>1, <2>2, <2>4, <2>5, <2>7 DEF PutLast, Renewed
    <3>2. a.at = k /\ a.at > 0 /\ a.pend = p
      BY <2>2 DEF Merged
    <3>3. History!SamePercent(a, e, o, boundary) = [a EXCEPT !.cur = f, !.mat = n, !.pend = q]
      BY <1>3, <2>12, <3>1, <3>2 DEF History!SamePercent
    <3> QED BY <3>3 DEF Merged
  <2> QED BY <2>11, <2>13 DEF Sane
<1> QED BY <1>7, <1>8

\* One observation, as it was reported.
Raws(r) == {o \in ObsOf(r) : o.first = o.last}
AllRaws == UNION {Raws(r) : r \in Role}

LEMMA MergedOne ==
    ASSUME HistoryConstants, History!DriftIsBounded, NEW r, NEW cs, Stored(r, cs), NEW a, Sane(r, cs, a),
           NEW o \in Raws(r)
    PROVE  Sane(r, cs, History!MergeObservation(a, o))
<1>1. PICK c, s, p, k, m : a = Merged(c, s, p, k, m) /\ Fits(r, cs, c, s, p, k)
  BY DEF Sane
<1>2. o \in ObsOf(r) /\ o.first = o.last /\ o.last \in Int
  BY DEF Raws, ObsOf
<1>3. PICK boundary : boundary = History!NeedsBoundary(c, o)
  OBVIOUS
<1>4. PICK e : e = IF boundary THEN History!WithBoundary(c, o) ELSE c
  OBVIOUS
<1>5. PICK res : res = History!MergeObservation(a, o)
  OBVIOUS
<1>6. res = IF ~c.found THEN History!Change(a, o)
            ELSE IF o.last < c.last THEN a
            ELSE IF ~History!Matches(c, o)
            THEN IF c.win = o.win /\ o.reset < c.reset THEN a ELSE History!Change(a, o)
            ELSE IF o.auth /\ o.pct > c.pct THEN History!Change(a, o)
            ELSE IF o.last = c.last THEN IF boundary THEN History!SameInstant(a, e, o) ELSE a
            ELSE IF o.pct > c.pct THEN a
            ELSE IF o.pct = c.pct THEN History!SamePercent(a, e, o, boundary)
            ELSE History!Change(a, o)
  <2>1. a.cur = c
    BY <1>1 DEF Merged
  <2> QED BY <1>3, <1>4, <1>5, <2>1, Zenon DEF History!MergeObservation
<1>7. CASE c \notin KnownOf(r)
  <2>1. c = History!None
    BY <1>1, <1>7 DEF Fits
  <2>2. ~c.found
    BY <2>1 DEF History!None
  <2>3. res = History!Change(a, o)
    BY <1>6, <2>2
  <2>4. Sane(r, cs, History!Change(a, o))
    BY <1>1, <1>2, <1>7, MergedChange
  <2> QED BY <1>5, <2>3, <2>4
<1>8. CASE c \in KnownOf(r)
  <2>1. c.found /\ c.last \in Int
    BY <1>8 DEF KnownOf
  <2>2. CASE res = a
    BY <1>5, <2>2
  <2>3. CASE ~(o.last < c.last) /\ res = History!Change(a, o)
    <3>1. c.last <= o.last
      BY <1>2, <2>1, <2>3
    <3>2. Sane(r, cs, History!Change(a, o))
      BY <1>1, <1>2, <2>3, <3>1, MergedChange
    <3> QED BY <1>5, <2>3, <3>2
  <2>4. CASE History!Matches(c, o) /\ o.last = c.last /\ res = History!SameInstant(a, e, o)
    <3>1. e = c \/ e = History!WithBoundary(c, o)
      BY <1>4
    <3>2. Sane(r, cs, History!SameInstant(a, e, o))
      BY <1>1, <1>2, <1>8, <2>4, <3>1, MergedSameInstant
    <3> QED BY <1>5, <2>4, <3>2
  <2>5. CASE History!Matches(c, o) /\ ~(o.last < c.last) /\ o.pct = c.pct /\ res = History!SamePercent(a, e, o, boundary)
    <3>1. c.last <= o.last
      BY <1>2, <2>1, <2>5
    <3>2. Sane(r, cs, History!SamePercent(a, e, o, boundary))
      BY <1>1, <1>2, <1>4, <1>8, <2>5, <3>1, MergedSamePercent
    <3> QED BY <1>5, <2>5, <3>2
  <2> QED BY <1>6, <2>1, <2>2, <2>3, <2>4, <2>5
<1> QED BY <1>7, <1>8

LEMMA MergedMany ==
    ASSUME HistoryConstants, History!DriftIsBounded, NEW r, NEW cs, Stored(r, cs), NEW a, Sane(r, cs, a),
           NEW q \in Seq(Raws(r))
    PROVE  Sane(r, cs, MergedAll(a, q))
<1>1. PICK n \in Nat : n = Len(q) /\ \A i \in 1..n : q[i] \in Raws(r)
  OBVIOUS
<1>2. PICK h : /\ MergedAll(a, q) = h[n]
               /\ h[0] = a
               /\ \A i \in 1..n : h[i] = History!MergeObservation(h[i - 1], q[i])
  <2>1. MergeTurns(MergedAll(a, q), a, q, n)
    BY <1>1, MergedInTurn
  <2> QED BY <2>1 DEF MergeTurns
<1>3. PICK B : B = {i \in 0..n : Sane(r, cs, h[i])}
  OBVIOUS
<1>4. 0 \in B
  BY <1>2, <1>3
<1>5. ASSUME NEW i \in 1..n, i - 1 \in B PROVE i \in B
  <2>1. PICK b, o : b = h[i - 1] /\ o = q[i]
    OBVIOUS
  <2>2. Sane(r, cs, b) /\ o \in Raws(r)
    BY <1>1, <1>3, <1>5, <2>1
  <2>3. Sane(r, cs, History!MergeObservation(b, o))
    BY <2>2, MergedOne
  <2>4. h[i] = History!MergeObservation(b, o)
    BY <1>2, <2>1
  <2> QED BY <1>3, <2>3, <2>4
<1>6. \A i \in 0..n : i \in B
  BY <1>4, <1>5, AlongIndex
<1> QED BY <1>2, <1>3, <1>6

\* What is loaded again after it was forgotten.
LEMMA LoadedAgain ==
    ASSUME HistoryConstants, NEW r, NEW cs, Stored(r, cs)
    PROVE  Fits(r, cs, History!LoadLatestState(cs), History!NoStable, <<>>, 0)
<1>1. PICK f : f = History!LoadLatestState(cs)
  OBVIOUS
<1>2. CASE cs = <<>>
  <2>1. f = History!None
    BY <1>1, <1>2 DEF History!LoadLatestState
  <2> QED BY <1>1, <1>2, <2>1 DEF Fits
<1>3. CASE cs # <<>>
  <2>1. PICK l : l = History!Latest(cs)
    OBVIOUS
  <2>2. l \in 1..Len(cs) /\ \A j \in 1..Len(cs) : cs[j].last <= cs[l].last
    BY <1>3, <2>1, LatestCycle DEF Stored
  <2>3. PICK c : c = cs[l]
    OBVIOUS
  <2>4. c \in CycleOf(r)
    BY <2>2, <2>3 DEF Stored
  <2>5. PICK t : t = c.segs[Len(c.segs)]
    OBVIOUS
  <2>6. /\ t \in Segments /\ c.last = t.last /\ c.win \in Lengths /\ c.src \in Origins /\ c.reset \in Int
        /\ c.reset \in Marks(r, c.win)
    BY <2>4, <2>5 DEF CycleOf
  <2>7. f = [found |-> TRUE, win |-> c.win, src |-> c.src, reset |-> c.reset, pct |-> t.pct, last |-> t.last]
    BY <1>1, <1>3, <2>1, <2>3, <2>5 DEF History!LoadLatestState
  <2>8. t.pct \in Int /\ t.last \in Int
    BY <2>6 DEF Segments
  <2>9. /\ f \in [found : {TRUE}, win : Lengths, src : Origins, reset : Int, pct : Int, last : Int]
        /\ f.reset = c.reset /\ f.win = c.win /\ f.last = c.last /\ f.pct = t.pct
    BY <2>6, <2>7, <2>8
  <2>10. f \in KnownOf(r)
    BY <2>6, <2>9 DEF KnownOf
  <2>11. EndsBy(cs, f.last)
    BY <2>2, <2>3, <2>9 DEF EndsBy
  <2>12. Chain(r, cs, <<>>, f.last)
    BY NoChain
  <2> QED BY <1>1, <2>10, <2>11, <2>12 DEF Fits
<1> QED BY <1>2, <1>3

-----------------------------------------------------------------------------
(***************************************************************************)
(* A batch.                                                                *)
(***************************************************************************)

LEMMA SelectedIn ==
    ASSUME NEW S, NEW T, NEW seq \in Seq(S), NEW places \in SUBSET (DOMAIN seq), \A i \in places : seq[i] \in T
    PROVE  History!Selected(seq, places) \in Seq(T)
<1>1. SelectedFrom(seq, places, History!Selected(seq, places))
  BY SelectedSelects
<1>2. PICK n \in Nat : \E p \in [1..n -> places] : History!Selected(seq, places) = [k \in 1..n |-> seq[p[k]]]
  BY <1>1 DEF SelectedFrom
<1>3. PICK p \in [1..n -> places] : History!Selected(seq, places) = [k \in 1..n |-> seq[p[k]]]
  BY <1>2
<1>4. \A k \in 1..n : seq[p[k]] \in T
  BY <1>3
<1>5. [k \in 1..n |-> seq[p[k]]] \in Seq(T)
  BY <1>4
<1> QED BY <1>3, <1>5

LEMMA SortedIn ==
    ASSUME NEW S, NEW seq \in Seq(S), NEW time, \A x \in S : x[time] \in Int
    PROVE  History!SortBy(time, seq) \in Seq(S) /\ Len(History!SortBy(time, seq)) = Len(seq)
<1>1. SortedBy(time, seq, History!SortBy(time, seq))
  BY SortBySorts
<1>2. PICK n \in Nat : n = Len(seq) /\ \A i \in 1..n : seq[i] \in S
  OBVIOUS
<1>3. PICK p \in [1..n -> 1..n] : History!SortBy(time, seq) = [k \in 1..n |-> seq[p[k]]]
  BY <1>1, <1>2 DEF SortedBy
<1>4. \A k \in 1..n : seq[p[k]] \in S
  BY <1>2, <1>3
<1>5. [k \in 1..n |-> seq[p[k]]] \in Seq(S) /\ Len([k \in 1..n |-> seq[p[k]]]) = n
  BY <1>4
<1> QED BY <1>2, <1>3, <1>5

LEMMA NothingWritten ==
    ASSUME NEW cs PROVE History!WriteObservations(cs, <<>>) = cs
<1>1. PICK q : q = History!SortBy("first", <<>>)
  OBVIOUS
<1>2. q \in Seq(Segments) /\ Len(q) = 0
  <2>1. <<>> \in Seq(Segments) /\ Len(<<>>) = 0 /\ \A x \in Segments : x["first"] \in Int
    BY DEF Segments
  <2> QED BY <1>1, <2>1, SortedIn
<1>3. PICK n \in Nat : n = Len(q) /\ \A i \in 1..n : q[i] \in Segments
  BY <1>2
<1>4. PICK h : /\ AppliedAll(cs, q) = h[n]
               /\ h[0] = cs
               /\ \A i \in 1..n : h[i] = History!ApplyObservation(h[i - 1], q[i])
  <2>1. ApplyTurns(AppliedAll(cs, q), cs, q, n)
    BY <1>3, AppliedInTurn
  <2> QED BY <2>1 DEF ApplyTurns
<1>5. AppliedAll(cs, q) = cs
  BY <1>2, <1>3, <1>4
<1> QED BY <1>1, <1>5 DEF History!WriteObservations, AppliedAll

\* What a failed write leaves: nothing of nothing, and otherwise a first part
\* of the chain.
LEMMA NothingPartly ==
    ASSUME NEW cs, NEW ds \in History!Partly(cs, <<>>) PROVE ds = cs
<1>1. PICK q : q = History!SortBy("first", <<>>)
  OBVIOUS
<1>2. q \in Seq(Segments)
  <2>1. <<>> \in Seq(Segments) /\ \A x \in Segments : x["first"] \in Int
    BY DEF Segments
  <2> QED BY <1>1, <2>1, SortedIn
<1>3. PICK n \in 0..Len(<<>>) : ds = AppliedAll(cs, SubSeq(q, 1, n))
  BY <1>1 DEF History!Partly, AppliedAll
<1>4. n = 0
  BY <1>3
<1>5. SubSeq(q, 1, n) = <<>>
  BY <1>2, <1>4
<1> QED BY <1>3, <1>5, AppliedNone

LEMMA PartlyWritten ==
    ASSUME HistoryConstants, History!DriftIsBounded, NEW r, NEW cs, Stored(r, cs), NEW t \in Int,
           EndsBy(cs, t), NEW q, Chain(r, cs, q, t), NEW ds \in History!Partly(cs, q)
    PROVE  Stored(r, ds)
<1>1. History!SortBy("first", q) = q /\ q \in Seq(ObsOf(r)) /\ Len(q) \in Nat
  <2>1. History!SortBy("first", q) = q
    BY SortedChain
  <2> QED BY <2>1 DEF Chain
<1>2. PICK n \in 0..Len(q) : ds = AppliedAll(cs, SubSeq(q, 1, n))
  BY <1>1 DEF History!Partly, AppliedAll
<1>3. PICK p : p = SubSeq(q, 1, n)
  OBVIOUS
<1>4. p \in Seq(ObsOf(r)) /\ Len(p) = n /\ \A k \in 1..n : p[k] = q[k] /\ k \in 1..Len(q)
  BY <1>1, <1>3
<1>5. Chain(r, cs, p, t)
  BY <1>4 DEF Chain
<1> QED BY <1>2, <1>3, <1>5, AppliedChain

\* What the runner may remember of a role, and a batch may hold of it.
Remembered(r, cs, c, s) ==
    \/ c = History!Unloaded /\ s = History!NoStable
    \/ Fits(r, cs, c, s, <<>>, 0)
Batched(r, cs, a) ==
    \/ \E m : a = Merged(History!Unloaded, History!NoStable, <<>>, 0, m)
    \/ Sane(r, cs, a)

LEMMA CandidatesOf ==
    ASSUME NEW r \in Role, NEW seq \in Seq(AllRaws)
    PROVE  History!SortedCandidates(History!Selected(seq, {n \in DOMAIN seq : seq[n].role = r})) \in Seq(Raws(r))
<1>1. PICK places : places = {n \in DOMAIN seq : seq[n].role = r}
  OBVIOUS
<1>2. places \in SUBSET (DOMAIN seq)
  BY <1>1
<1>3. ASSUME NEW i \in places PROVE seq[i] \in Raws(r)
  <2>1. seq[i] \in AllRaws /\ seq[i].role = r
    BY <1>1
  <2>2. PICK x \in Role : seq[i] \in Raws(x)
    BY <2>1 DEF AllRaws
  <2>3. seq[i].role = x
    BY <2>2 DEF Raws, ObsOf
  <2> QED BY <2>1, <2>2, <2>3
<1>4. PICK q : q = History!Selected(seq, places)
  OBVIOUS
<1>5. q \in Seq(Raws(r))
  BY <1>2, <1>3, <1>4, SelectedIn
<1>6. \A x \in Raws(r) : x["last"] \in Int
  BY DEF Raws, ObsOf
<1>7. History!SortBy("last", q) \in Seq(Raws(r))
  BY <1>5, <1>6, SortedIn
<1> QED BY <1>1, <1>4, <1>7 DEF History!SortedCandidates

LEMMA MergedRole ==
    ASSUME HistoryConstants, History!DriftIsBounded, NEW r \in Role, Stored(r, cycles[r]),
           Remembered(r, cycles[r], current[r], stable[r]), NEW loaded, NEW seq \in Seq(AllRaws)
    PROVE  Batched(r, cycles[r], History!MergeRole(r, loaded, seq))
<1>1. PICK cs, c, s : cs = cycles[r] /\ c = current[r] /\ s = stable[r]
  OBVIOUS
<1>2. Stored(r, cs) /\ Remembered(r, cs, c, s)
  BY <1>1
<1>3. PICK q : q = History!SortedCandidates(History!Selected(seq, {n \in DOMAIN seq : seq[n].role = r}))
  OBVIOUS
<1>4. q \in Seq(Raws(r))
  BY <1>3, CandidatesOf
<1>5. PICK l : l = IF c # History!Unloaded THEN c ELSE History!LoadLatestState(cs)
  OBVIOUS
<1>6. PICK a : a = Merged(l, s, <<>>, 0, {})
  OBVIOUS
<1>7. PICK res : res = History!MergeRole(r, loaded, seq)
  OBVIOUS
<1>8. res = IF q = <<>> \/ (c = History!Unloaded /\ ~loaded) THEN [a EXCEPT !.cur = c] ELSE MergedAll(a, q)
  BY <1>1, <1>3, <1>5, <1>6, <1>7 DEF History!MergeRole, MergedAll, Merged
<1>9. CASE res = [a EXCEPT !.cur = c]
  <2>1. res = Merged(c, s, <<>>, 0, {})
    BY <1>6, <1>9 DEF Merged
  <2> QED BY <1>1, <1>2, <1>7, <2>1 DEF Batched, Sane, Remembered
<1>10. CASE res = MergedAll(a, q)
  <2>1. Fits(r, cs, l, s, <<>>, 0)
    <3>1. CASE c # History!Unloaded
      BY <1>2, <1>5, <3>1 DEF Remembered
    <3>2. CASE c = History!Unloaded
      <4>1. s = History!NoStable
        <5>1. c \notin KnownOf(r)
          BY <3>2 DEF KnownOf, History!Unloaded
        <5> QED BY <1>2, <5>1 DEF Remembered, Fits
      <4>2. l = History!LoadLatestState(cs)
        BY <1>5, <3>2
      <4> QED BY <1>2, <4>1, <4>2, LoadedAgain
    <3> QED BY <3>1, <3>2
  <2>2. Sane(r, cs, a)
    BY <1>6, <2>1 DEF Sane
  <2>3. Sane(r, cs, MergedAll(a, q))
    BY <1>2, <1>4, <2>2, MergedMany
  <2> QED BY <1>1, <1>7, <1>10, <2>3 DEF Batched
<1> QED BY <1>8, <1>9, <1>10

\* The parts of a written batch.
Wrote(ripe, pend, lost, written, acc) ==
    /\ \A r \in ripe : acc[r].stable # History!NoStable
    /\ pend = [r \in Role |-> IF r \in ripe THEN Append(acc[r].pend, acc[r].stable.obs) ELSE acc[r].pend]
    /\ lost = {r \in Role : ~written /\ pend[r] # <<>>}
    /\ current' = [r \in Role |-> IF r \in lost THEN History!Unloaded ELSE acc[r].cur]
    /\ stable' = [r \in Role |-> IF r \in lost \/ r \in ripe THEN History!NoStable ELSE acc[r].stable]
    /\ DOMAIN cycles' = Role
    /\ \A r \in Role : IF written THEN cycles'[r] = History!WriteObservations(cycles[r], pend[r])
                       ELSE cycles'[r] \in History!Partly(cycles[r], pend[r])

\* What a batch does, role by role.
LEMMA BatchParts ==
    ASSUME NEW all, NEW written, NEW heartbeat, NEW acc, History!WriteBatch(all, written, heartbeat, acc)
    PROVE  \E ripe, pend, lost : Wrote(ripe, pend, lost, written, acc)
<1> DEFINE mats == UNION {acc[r].mat : r \in Role}
           held == {r \in Role : acc[r].stable # History!NoStable}
           when(r) == acc[r].stable.obs.last
           isDue(r) == all \/ acc[r].stable.immediate \/ when(r) \in mats \/ r \in heartbeat
           ripe == {r \in held : \E s \in held : isDue(s) /\ when(s) = when(r)}
           pend == [r \in Role |-> IF r \in ripe THEN Append(acc[r].pend, acc[r].stable.obs) ELSE acc[r].pend]
           lost == {r \in Role : ~written /\ pend[r] # <<>>}
<1>1. /\ current' = [r \in Role |-> IF r \in lost THEN History!Unloaded ELSE acc[r].cur]
      /\ stable' = [r \in Role |-> IF r \in lost \/ r \in ripe THEN History!NoStable ELSE acc[r].stable]
      /\ \/ written /\ cycles' = [r \in Role |-> History!WriteObservations(cycles[r], pend[r])]
         \/ ~written /\ \E after \in [Role -> UNION {History!Partly(cycles[r], pend[r]) : r \in Role}] :
                          /\ \A r \in Role : after[r] \in History!Partly(cycles[r], pend[r])
                          /\ cycles' = after
  BY Zenon DEF History!WriteBatch, History!Failed, History!Dropped
<1>2. \A r \in ripe : acc[r].stable # History!NoStable
  OBVIOUS
<1>3. pend = [r \in Role |-> IF r \in ripe THEN Append(acc[r].pend, acc[r].stable.obs) ELSE acc[r].pend]
  OBVIOUS
<1>4. lost = {r \in Role : ~written /\ pend[r] # <<>>}
  OBVIOUS
<1> HIDE DEF ripe, pend, lost
<1>5. /\ DOMAIN cycles' = Role
      /\ \A r \in Role : IF written THEN cycles'[r] = History!WriteObservations(cycles[r], pend[r])
                         ELSE cycles'[r] \in History!Partly(cycles[r], pend[r])
  <2>1. CASE written /\ cycles' = [r \in Role |-> History!WriteObservations(cycles[r], pend[r])]
    BY <2>1
  <2>2. CASE ~written /\ \E after \in [Role -> UNION {History!Partly(cycles[r], pend[r]) : r \in Role}] :
                          /\ \A r \in Role : after[r] \in History!Partly(cycles[r], pend[r])
                          /\ cycles' = after
    <3>1. PICK after \in [Role -> UNION {History!Partly(cycles[r], pend[r]) : r \in Role}] :
             /\ \A r \in Role : after[r] \in History!Partly(cycles[r], pend[r])
             /\ cycles' = after
      BY <2>2
    <3> QED BY <2>2, <3>1
  <2> QED BY <1>1, <2>1, <2>2
<1>6. Wrote(ripe, pend, lost, written, acc)
  BY <1>1, <1>2, <1>3, <1>4, <1>5, Zenon DEF Wrote
<1> QED BY <1>6

LEMMA BatchKeepsRole ==
    ASSUME HistoryConstants, History!DriftIsBounded, NEW r \in Role, Stored(r, cycles[r]), NEW acc,
           Batched(r, cycles[r], acc[r]), NEW ripe, NEW pend, NEW lost, NEW written,
           Wrote(ripe, pend, lost, written, acc), DOMAIN cycles = Role
    PROVE  Stored(r, cycles'[r]) /\ Remembered(r, cycles'[r], current'[r], stable'[r])
<1>1. PICK cs, a, q : cs = cycles[r] /\ a = acc[r] /\ q = pend[r]
  OBVIOUS
<1>2. PICK ds, d, t : ds = cycles'[r] /\ d = current'[r] /\ t = stable'[r]
  OBVIOUS
<1>3. /\ r \in ripe => a.stable # History!NoStable
      /\ q = IF r \in ripe THEN Append(a.pend, a.stable.obs) ELSE a.pend
      /\ r \in lost <=> ~written /\ q # <<>>
      /\ d = IF r \in lost THEN History!Unloaded ELSE a.cur
      /\ t = IF r \in lost \/ r \in ripe THEN History!NoStable ELSE a.stable
      /\ IF written THEN ds = History!WriteObservations(cs, q) ELSE ds \in History!Partly(cs, q)
  BY <1>1, <1>2 DEF Wrote
<1>4. Stored(r, cs) /\ Batched(r, cs, a)
  BY <1>1
<1> SUFFICES Stored(r, ds) /\ Remembered(r, ds, d, t)
  BY <1>2
<1>5. ASSUME a.pend = <<>>, a.stable = History!NoStable
      PROVE  q = <<>> /\ r \notin lost /\ d = a.cur /\ t = History!NoStable /\ ds = cs
  BY <1>3, <1>5, NothingWritten, NothingPartly
<1>6. CASE \E m : a = Merged(History!Unloaded, History!NoStable, <<>>, 0, m)
  <2>1. a.cur = History!Unloaded /\ a.stable = History!NoStable /\ a.pend = <<>>
    BY <1>6 DEF Merged
  <2> QED BY <1>4, <1>5, <2>1 DEF Remembered
<1>7. ASSUME NEW c, NEW s, NEW p, NEW k, NEW m, a = Merged(c, s, p, k, m), Fits(r, cs, c, s, p, k)
      PROVE  Stored(r, ds) /\ Remembered(r, ds, d, t)
  <2>1. a.cur = c /\ a.stable = s /\ a.pend = p
    BY <1>7 DEF Merged
  <2>2. CASE c \notin KnownOf(r)
    <3>1. c = History!None /\ cs = <<>> /\ s = History!NoStable /\ p = <<>>
      BY <1>7, <2>2 DEF Fits
    <3>2. d = c /\ t = s /\ ds = cs
      BY <1>5, <2>1, <3>1
    <3> QED BY <1>4, <3>1, <3>2 DEF Remembered, Fits
  <2>3. CASE c \in KnownOf(r)
    <3>1. c.last \in Int /\ c # History!None
      BY <2>3 DEF KnownOf, History!None
    <3>2. /\ EndsBy(cs, c.last) /\ Chain(r, cs, p, c.last)
          /\ \/ p = <<>> /\ (s # History!NoStable => Held(r, cs, c, s))
             \/ p # <<>> /\ s = History!NoStable
      BY <1>7, <3>1 DEF Fits
    <3>3. Chain(r, cs, q, c.last)
      <4>1. CASE r \in ripe
        <5>1. History!WithDeferred(a) = Append(p, s.obs)
          BY <1>3, <2>1, <4>1 DEF History!WithDeferred
        <5>2. Chain(r, cs, History!WithDeferred(a), c.last)
          BY <1>7, <2>3, DeferredChain
        <5> QED BY <1>3, <2>1, <4>1, <5>1, <5>2
      <4>2. CASE r \notin ripe
        BY <1>3, <2>1, <3>2, <4>2
      <4> QED BY <4>1, <4>2
    <3>4. Chain(r, cs, <<>>, c.last) /\ Chain(r, ds, <<>>, c.last)
      BY NoChain
    <3>5. CASE r \in lost
      <4>1. d = History!Unloaded /\ t = History!NoStable /\ ds \in History!Partly(cs, q)
        BY <1>3, <3>5
      <4>2. Stored(r, ds)
        BY <1>4, <3>1, <3>2, <3>3, <4>1, PartlyWritten
      <4> QED BY <4>1, <4>2 DEF Remembered
    <3>6. CASE r \notin lost
      <4>1. Stored(r, ds) /\ EndsBy(ds, c.last)
        <5>1. CASE written
          <6>1. ds = AppliedAll(cs, q)
            BY <1>3, <3>3, <5>1, WrittenInOrder
          <6> QED BY <1>4, <3>1, <3>2, <3>3, <6>1, AppliedChain
        <5>2. CASE ~written
          BY <1>3, <1>4, <3>2, <3>6, <5>2, NothingPartly
        <5> QED BY <5>1, <5>2
      <4>2. d = c
        BY <1>3, <2>1, <3>6
      <4>3. t # History!NoStable => Held(r, ds, c, t)
        <5> SUFFICES ASSUME t # History!NoStable PROVE Held(r, ds, c, t)
          OBVIOUS
        <5>1. r \notin ripe /\ t = s
          BY <1>3, <2>1
        <5>2. p = <<>> /\ q = p /\ Held(r, cs, c, s)
          BY <1>3, <2>1, <3>2, <5>1
        <5>3. ds = cs
          BY <1>3, <5>2, NothingWritten, NothingPartly
        <5> QED BY <5>1, <5>2, <5>3
      <4>5. Fits(r, ds, c, t, <<>>, 0)
        BY <2>3, <3>4, <4>1, <4>3 DEF Fits
      <4> QED BY <4>1, <4>2, <4>5 DEF Remembered
    <3> QED BY <3>5, <3>6
  <2> QED BY <2>2, <2>3
<1> QED BY <1>4, <1>6, <1>7 DEF Batched, Sane

\* Deletion: what is remembered of a cycle goes with it, and what is deferred
\* goes with what is remembered.
LEMMA HitsToo ==
    ASSUME HistoryConstants, History!DriftIsBounded, NEW r, NEW cs, Stored(r, cs), NEW i \in 1..Len(cs),
           NEW c \in KnownOf(r), NEW o \in ObsOf(r), History!Matches(c, o), History!Matches(cs[i], c)
    PROVE  History!Hits(cs, i, o)
<1>1. \A j \in 1..Len(cs) : cs[j] \in CycleOf(r) /\ Marked(r, cs[j])
  BY MarkedCycle DEF Stored
<1>2. Marked(r, c) /\ Marked(r, o) /\ o.reset \in Int
  BY MarkedCycle DEF Marked
<1>3. History!Matches(cs[i], o)
  BY <1>1, <1>2, MatchingIsTransitive
<1>4. ASSUME NEW j \in 1..Len(cs), History!Matches(cs[j], o) PROVE j = i
  <2>1. History!Matches(o, cs[j])
    BY <1>1, <1>2, <1>4, MatchingIsTransitive
  <2>2. History!Matches(cs[i], cs[j])
    BY <1>1, <1>2, <1>3, <2>1, MatchingIsTransitive
  <2> QED BY <2>2 DEF Stored, Apart
<1>5. History!Latest(cs) \in 1..Len(cs)
  <2>1. cs \in Seq(CycleOf(r)) /\ cs # <<>>
    BY DEF Stored
  <2> QED BY <2>1, LatestCycle
<1>6. History!Closest(cs, o) \in 1..Len(cs) /\ History!Matches(cs[History!Closest(cs, o)], o)
  <2>1. cs \in Seq(CycleOf(r))
    BY DEF Stored
  <2> QED BY <1>2, <1>3, <2>1, ClosestCycle
<1> QED BY <1>3, <1>4, <1>5, <1>6 DEF History!Hits

LEMMA RemovedCycle ==
    ASSUME NEW r, NEW cs, Stored(r, cs), NEW i \in 1..Len(cs)
    PROVE  /\ Stored(r, History!RemoveAt(cs, i))
           /\ \A t : EndsBy(cs, t) => EndsBy(History!RemoveAt(cs, i), t)
<1>1. PICK n \in Nat : n = Len(cs) /\ n # 0 /\ cs \in Seq(CycleOf(r)) /\ \A j \in 1..n : cs[j] \in CycleOf(r)
  BY DEF Stored
<1>2. PICK ds : ds = History!RemoveAt(cs, i)
  OBVIOUS
<1>3. PICK x, y : x = SubSeq(cs, 1, i - 1) /\ y = SubSeq(cs, i + 1, n)
  OBVIOUS
<1>4. x \in Seq(CycleOf(r)) /\ Len(x) = i - 1 /\ \A k \in 1..(i - 1) : x[k] = cs[k]
  BY <1>1, <1>3
<1>5. y \in Seq(CycleOf(r)) /\ Len(y) = n - i /\ \A k \in 1..(n - i) : y[k] = cs[k + i]
  BY <1>1, <1>3
<1>6. ds = x \o y
  BY <1>1, <1>2, <1>3 DEF History!RemoveAt
<1>7. /\ ds \in Seq(CycleOf(r)) /\ Len(ds) = n - 1
      /\ \A k \in 1..(n - 1) : ds[k] = IF k < i THEN cs[k] ELSE cs[k + 1]
  <2>1. ds \in Seq(CycleOf(r)) /\ Len(ds) = Len(x) + Len(y)
    <3>1. x \in Seq(CycleOf(r)) /\ y \in Seq(CycleOf(r))
      BY <1>4, <1>5
    <3> QED BY <1>6, <3>1
  <2>2. Len(ds) = n - 1
    BY <1>1, <1>4, <1>5, <2>1
  <2>3. ASSUME NEW k \in 1..(n - 1) PROVE ds[k] = IF k < i THEN cs[k] ELSE cs[k + 1]
    <3>1. CASE k < i
      <4>1. k \in 1..Len(x) /\ k \in 1..(i - 1)
        BY <1>4, <3>1
      <4>2. ds[k] = x[k]
        BY <1>4, <1>5, <1>6, <4>1
      <4> QED BY <1>4, <3>1, <4>1, <4>2
    <3>2. CASE ~(k < i)
      <4>1. PICK l \in 1..(n - i) : l = k - (i - 1)
        BY <1>1, <3>2
      <4>2. k = Len(x) + l /\ l \in 1..Len(y)
        BY <1>1, <1>4, <1>5, <4>1
      <4>3. ds[k] = y[l]
        BY <1>4, <1>5, <1>6, <4>2
      <4>4. y[l] = cs[l + i] /\ l + i = k + 1
        BY <1>5, <4>1
      <4> QED BY <3>2, <4>3, <4>4
    <3> QED BY <3>1, <3>2
  <2> QED BY <2>1, <2>2, <2>3
<1>8. Apart(ds)
  <2> SUFFICES ASSUME NEW j \in 1..(n - 1), NEW k \in 1..(n - 1), j # k PROVE ~History!Matches(ds[j], ds[k])
    BY <1>7 DEF Apart
  <2>1. PICK u \in 1..n, v \in 1..n : u # v /\ ds[j] = cs[u] /\ ds[k] = cs[v]
    <3>1. PICK u, v : u = (IF j < i THEN j ELSE j + 1) /\ v = (IF k < i THEN k ELSE k + 1)
      OBVIOUS
    <3>2. u \in 1..n /\ v \in 1..n /\ u # v
      BY <1>1, <3>1
    <3> QED BY <1>7, <3>1, <3>2
  <2> QED BY <1>1, <2>1 DEF Stored, Apart
<1>9. ASSUME NEW t, EndsBy(cs, t) PROVE EndsBy(ds, t)
  BY <1>1, <1>7, <1>9 DEF EndsBy
<1> QED BY <1>1, <1>2, <1>7, <1>8, <1>9 DEF Stored

-----------------------------------------------------------------------------
(***************************************************************************)
(* The invariant of the history.                                           *)
(***************************************************************************)

HistoryInv ==
    /\ headerQueue \in Seq(AllRaws) /\ trustedQueue \in Seq(AllRaws)
    /\ DOMAIN cycles = Role
    /\ current = [r \in Role |-> current[r]] /\ stable = [r \in Role |-> stable[r]]
    /\ \A r \in Role : Stored(r, cycles[r]) /\ Remembered(r, cycles[r], current[r], stable[r])

LEMMA RawObservation ==
    ASSUME HistoryConstants, NEW shape \in HistoryShape, NEW t \in Int, NEW auth \in BOOLEAN
    PROVE  History!Observation(shape, t, auth) \in AllRaws
<1>1. PICK o : o = History!Observation(shape, t, auth)
  OBVIOUS
<1>2. o = [role |-> shape.role, win |-> shape.win, src |-> shape.src, reset |-> shape.reset,
           pct |-> shape.pct, first |-> t, last |-> t, auth |-> auth]
  BY <1>1 DEF History!Observation
<1>3. shape.role \in Role /\ shape.reset \in Int /\ shape.pct \in Int
  BY DEF HistoryConstants
<1>4. shape.win \in Lengths /\ shape.src \in Origins /\ shape.reset \in Marks(shape.role, shape.win)
  BY DEF Lengths, Origins, Marks
<1>5. /\ o \in [role : Role, win : Lengths, src : Origins, reset : Int, pct : Int, first : Int, last : Int, auth : BOOLEAN]
      /\ o.role = shape.role /\ o.reset = shape.reset /\ o.win = shape.win /\ o.first = t /\ o.last = t
  BY <1>2, <1>3, <1>4
<1>6. o \in Raws(shape.role)
  BY <1>4, <1>5 DEF Raws, ObsOf
<1> QED BY <1>1, <1>3, <1>6 DEF AllRaws

\* An arrival only queues what the code may observe.
LEMMA ArrivalStep ==
    ASSUME HistoryConstants, HistoryInv, NEW shape \in HistoryShape, NEW t \in 1..MaxObserved,
           History!AppendHeader(shape, t) \/ History!AppendTrusted(shape, t)
    PROVE  HistoryInv'
<1>1. PICK o, w : o = History!Observation(shape, t, FALSE) /\ w = History!Observation(shape, t, TRUE)
  OBVIOUS
<1>2. o \in AllRaws /\ w \in AllRaws
  <2>1. t \in Int
    OBVIOUS
  <2>2. History!Observation(shape, t, FALSE) \in AllRaws /\ History!Observation(shape, t, TRUE) \in AllRaws
    BY <2>1, RawObservation, Zenon
  <2> QED BY <1>1, <2>2
<1>3. UNCHANGED <<current, stable, cycles>>
  BY DEF History!AppendHeader, History!AppendTrusted
<1>4. headerQueue' \in Seq(AllRaws) /\ trustedQueue' \in Seq(AllRaws)
  <2>1. CASE History!AppendHeader(shape, t)
    <3>1. PICK q : q = IF Len(headerQueue) = QueueSize THEN Tail(headerQueue) ELSE headerQueue
      OBVIOUS
    <3>2. headerQueue' = Append(q, o) /\ trustedQueue' = trustedQueue
      BY <1>1, <2>1, <3>1 DEF History!AppendHeader
    <3>3. CASE headerQueue = <<>>
      <4>1. q \in Seq(AllRaws)
        BY <3>1, <3>3 DEF HistoryInv
      <4> QED BY <1>2, <3>2, <4>1 DEF HistoryInv
    <3>4. CASE headerQueue # <<>>
      <4>1. q \in Seq(AllRaws)
        BY <3>1, <3>4 DEF HistoryInv
      <4> QED BY <1>2, <3>2, <4>1 DEF HistoryInv
    <3> QED BY <3>3, <3>4
  <2>2. CASE History!AppendTrusted(shape, t)
    <3>1. trustedQueue' = Append(trustedQueue, w) /\ headerQueue' = headerQueue
      BY <1>1, <2>2 DEF History!AppendTrusted
    <3> QED BY <1>2, <3>1 DEF HistoryInv
  <2> QED BY <2>1, <2>2
<1> QED BY <1>3, <1>4 DEF HistoryInv

LEMMA BatchOfRaws ==
    ASSUME HistoryInv, NEW verified \in BOOLEAN
    PROVE  History!Verified(verified) \in Seq(AllRaws)
<1>1. PICK kept : kept = {n \in DOMAIN headerQueue :
                            \A i \in DOMAIN trustedQueue : trustedQueue[i].role # headerQueue[n].role}
  OBVIOUS
<1>2. PICK q : q = History!Selected(headerQueue, kept)
  OBVIOUS
<1>3. headerQueue \in Seq(AllRaws) /\ trustedQueue \in Seq(AllRaws)
  BY DEF HistoryInv
<1>4. kept \in SUBSET (DOMAIN headerQueue) /\ \A i \in kept : headerQueue[i] \in AllRaws
  BY <1>1, <1>3
<1>5. q \in Seq(AllRaws)
  BY <1>2, <1>3, <1>4, SelectedIn
<1>6. PICK p : p = History!Preferred
  OBVIOUS
<1>7. p \in Seq(AllRaws)
  <2>1. p = trustedQueue \o q
    BY <1>1, <1>2, <1>6 DEF History!Preferred
  <2> QED BY <1>3, <1>5, <2>1
<1>8. PICK trusted : trusted = {n \in DOMAIN p : p[n].auth}
  OBVIOUS
<1>9. trusted \in SUBSET (DOMAIN p) /\ \A i \in trusted : p[i] \in AllRaws
  BY <1>7, <1>8
<1>10. History!Selected(p, trusted) \in Seq(AllRaws)
  BY <1>7, <1>9, SelectedIn
<1>11. History!Verified(verified) = p \/ History!Verified(verified) = History!Selected(p, trusted)
  BY <1>6, <1>8 DEF History!Verified
<1> QED BY <1>7, <1>10, <1>11

\* A batch keeps the invariant.
LEMMA BatchStep ==
    ASSUME HistoryConstants, History!DriftIsBounded, HistoryInv, NEW all, History!Process(all)
    PROVE  HistoryInv'
<1>1. PICK verified \in BOOLEAN, loaded \in BOOLEAN, written \in BOOLEAN, heartbeat \in SUBSET Role :
        \E acc \in [Role -> {History!MergeRole(r, loaded, History!Verified(verified)) : r \in Role}] :
           /\ \A r \in Role : acc[r] = History!MergeRole(r, loaded, History!Verified(verified))
           /\ History!WriteBatch(all, written, heartbeat, acc)
  BY DEF History!Process
<1>2. PICK seq : seq = History!Verified(verified)
  OBVIOUS
<1>3. seq \in Seq(AllRaws)
  BY <1>2, BatchOfRaws
<1>4. PICK acc : acc = [r \in Role |-> History!MergeRole(r, loaded, seq)] /\ History!WriteBatch(all, written, heartbeat, acc)
  <2>1. PICK m : DOMAIN m = Role /\ (\A r \in Role : m[r] = History!MergeRole(r, loaded, seq))
                 /\ m = [r \in Role |-> m[r]] /\ History!WriteBatch(all, written, heartbeat, m)
    BY <1>1, <1>2
  <2> QED BY <2>1
<1>5. PICK ripe, pend, lost : Wrote(ripe, pend, lost, written, acc)
  BY <1>4, BatchParts
<1>6. ASSUME NEW r \in Role
      PROVE  Stored(r, cycles'[r]) /\ Remembered(r, cycles'[r], current'[r], stable'[r])
  <2>1. Stored(r, cycles[r]) /\ Remembered(r, cycles[r], current[r], stable[r]) /\ DOMAIN cycles = Role
    BY DEF HistoryInv
  <2>2. Batched(r, cycles[r], History!MergeRole(r, loaded, seq))
    BY <1>3, <2>1, MergedRole
  <2>3. Batched(r, cycles[r], acc[r])
    BY <1>4, <2>2
  <2> QED BY <1>5, <2>1, <2>3, BatchKeepsRole
<1>7. headerQueue' = <<>> /\ trustedQueue' = <<>>
  BY DEF History!Process
<1>8. DOMAIN cycles' = Role /\ current' = [r \in Role |-> current'[r]] /\ stable' = [r \in Role |-> stable'[r]]
  BY <1>5 DEF Wrote, HistoryInv
<1> QED BY <1>6, <1>7, <1>8 DEF HistoryInv

\* So does the deletion of a cycle.
LEMMA DeleteStep ==
    ASSUME HistoryConstants, History!DriftIsBounded, HistoryInv, NEW r \in Role, NEW i \in DOMAIN cycles[r],
           History!DeleteCycle(r, i)
    PROVE  HistoryInv'
<1>1. PICK cs, c, s : cs = cycles[r] /\ c = current[r] /\ s = stable[r]
  OBVIOUS
<1>2. Stored(r, cs) /\ Remembered(r, cs, c, s) /\ i \in 1..Len(cs) /\ cs # <<>>
  BY <1>1 DEF HistoryInv, Stored
<1>3. PICK ds : ds = History!RemoveAt(cs, i)
  OBVIOUS
<1>4. Stored(r, ds) /\ \A t : EndsBy(cs, t) => EndsBy(ds, t)
  BY <1>2, <1>3, RemovedCycle
<1>5. PICK d : d = IF c.found /\ History!Hits(cs, i, c) THEN History!Unloaded ELSE c
  OBVIOUS
<1>6. PICK t : t = IF s # History!NoStable /\ History!Hits(cs, i, s.obs) THEN History!NoStable ELSE s
  OBVIOUS
<1>7. cycles' = [cycles EXCEPT ![r] = ds]
  BY <1>1, <1>3 DEF History!DeleteCycle
<1>8. current' = [current EXCEPT ![r] = d]
  BY <1>1, <1>5 DEF History!DeleteCycle, History!ClearedCurrent
<1>9. stable' = [stable EXCEPT ![r] = t]
  <2>1. stable' = IF s # History!NoStable /\ History!Hits(cs, i, s.obs)
                  THEN [stable EXCEPT ![r] = History!NoStable] ELSE stable
    BY <1>1 DEF History!DeleteCycle
  <2>2. stable = [x \in Role |-> stable[x]]
    BY DEF HistoryInv
  <2> QED BY <1>1, <1>6, <2>1, <2>2
<1>10. Remembered(r, ds, d, t)
  <2>1. CASE c = History!Unloaded /\ s = History!NoStable
    BY <1>5, <1>6, <2>1 DEF Remembered
  <2>2. CASE Fits(r, cs, c, s, <<>>, 0)
    <3>1. c \in KnownOf(r) /\ EndsBy(cs, c.last) /\ (s # History!NoStable => Held(r, cs, c, s))
      BY <1>2, <2>2 DEF Fits
    <3>2. CASE c.found /\ History!Hits(cs, i, c)
      <4>1. d = History!Unloaded /\ History!Matches(cs[i], c)
        BY <1>5, <3>2 DEF History!Hits
      <4>2. t = History!NoStable
        <5>1. CASE s = History!NoStable
          BY <1>6, <5>1
        <5>2. CASE s # History!NoStable
          <6>1. PICK o : o = s.obs
            OBVIOUS
          <6>2. o \in ObsOf(r) /\ History!Matches(c, o)
            BY <3>1, <5>2, <6>1 DEF Held
          <6>3. History!Hits(cs, i, o)
            BY <1>2, <3>1, <4>1, <6>2, HitsToo
          <6> QED BY <1>6, <5>2, <6>1, <6>3
        <5> QED BY <5>1, <5>2
      <4> QED BY <4>1, <4>2 DEF Remembered
    <3>3. CASE ~(c.found /\ History!Hits(cs, i, c))
      <4>1. d = c
        BY <1>5, <3>3
      <4>2. EndsBy(ds, c.last) /\ Chain(r, ds, <<>>, c.last)
        BY <1>4, <3>1, NoChain
      <4>3. t # History!NoStable => Held(r, ds, c, t)
        <5> SUFFICES ASSUME t # History!NoStable PROVE Held(r, ds, c, t)
          OBVIOUS
        <5>1. t = s
          BY <1>6
        <5>2. Held(r, cs, c, s)
          BY <3>1, <5>1
        <5> QED BY <1>4, <5>1, <5>2 DEF Held
      <4>5. Fits(r, ds, c, t, <<>>, 0)
        BY <3>1, <4>2, <4>3 DEF Fits
      <4> QED BY <4>1, <4>5 DEF Remembered
    <3> QED BY <3>2, <3>3
  <2> QED BY <1>2, <2>1, <2>2 DEF Remembered
<1>11. headerQueue' \in Seq(AllRaws) /\ trustedQueue' = trustedQueue
  <2> DEFINE places == {n \in DOMAIN headerQueue : ~(headerQueue[n].role = r /\ History!Hits(cs, i, headerQueue[n]))}
  <2>1. headerQueue' = headerQueue \/ headerQueue' = History!Selected(headerQueue, places)
    BY <1>1 DEF History!DeleteCycle
  <2>2. headerQueue \in Seq(AllRaws)
    BY DEF HistoryInv
  <2>3. places \in SUBSET (DOMAIN headerQueue) /\ \A n \in places : headerQueue[n] \in AllRaws
    BY <2>2
  <2> HIDE DEF places
  <2>4. History!Selected(headerQueue, places) \in Seq(AllRaws)
    BY <2>2, <2>3, SelectedIn
  <2>5. trustedQueue' = trustedQueue
    BY DEF History!DeleteCycle
  <2> QED BY <2>1, <2>2, <2>4, <2>5
<1>12. ASSUME NEW x \in Role
       PROVE  Stored(x, cycles'[x]) /\ Remembered(x, cycles'[x], current'[x], stable'[x])
  <2>1. CASE x = r
    <3>1. cycles'[r] = ds /\ current'[r] = d /\ stable'[r] = t
      BY <1>7, <1>8, <1>9 DEF HistoryInv
    <3> QED BY <1>4, <1>10, <2>1, <3>1
  <2>2. CASE x # r
    <3>1. cycles'[x] = cycles[x] /\ current'[x] = current[x] /\ stable'[x] = stable[x]
      BY <1>7, <1>8, <1>9, <2>2 DEF HistoryInv
    <3>2. Stored(x, cycles[x]) /\ Remembered(x, cycles[x], current[x], stable[x])
      BY DEF HistoryInv
    <3> QED BY <3>1, <3>2
  <2> QED BY <2>1, <2>2
<1>13. DOMAIN cycles' = Role /\ current' = [x \in Role |-> current'[x]] /\ stable' = [x \in Role |-> stable'[x]]
  BY <1>7, <1>8, <1>9 DEF HistoryInv
<1> QED BY <1>11, <1>12, <1>13 DEF HistoryInv

\* The invariant holds: what is stored of a role ends before what is remembered
\* of it, what is deferred belongs to what is remembered, and a batch is
\* written as a chain of observations after all that is stored.
LEMMA HistoryInvariant ==
    ASSUME HistoryConstants, History!DriftIsBounded
    PROVE  History!Spec => []HistoryInv
<1>1. History!Init => HistoryInv
  <2> SUFFICES ASSUME History!Init PROVE HistoryInv
    OBVIOUS
  <2>1. /\ headerQueue = <<>> /\ trustedQueue = <<>> /\ current = [r \in Role |-> History!Unloaded]
        /\ stable = [r \in Role |-> History!NoStable] /\ cycles = [r \in Role |-> <<>>]
    BY DEF History!Init
  <2>2. \A r \in Role : Stored(r, <<>>) /\ Remembered(r, <<>>, History!Unloaded, History!NoStable)
    BY DEF Stored, Apart, Remembered
  <2> QED BY <2>1, <2>2 DEF HistoryInv
<1>2. HistoryInv /\ [History!Next]_(History!qvars) => HistoryInv'
  <2> SUFFICES ASSUME HistoryInv, [History!Next]_(History!qvars) PROVE HistoryInv'
    OBVIOUS
  <2>1. CASE UNCHANGED <<headerQueue, trustedQueue, current, stable, cycles>>
    BY <2>1 DEF HistoryInv
  <2>2. CASE History!RunnerStep
    <3>1. CASE History!HearsHeader
      BY <2>1, <3>1 DEF History!HearsHeader
    <3>2. CASE \E all \in BOOLEAN : History!Process(all)
      BY <3>2, BatchStep
    <3> QED BY <2>2, <3>1, <3>2 DEF History!RunnerStep, History!TimerFires, History!HearsTrusted, History!RunnerStops
  <2>3. CASE History!StopRunner
    BY <2>1, <2>3 DEF History!StopRunner
  <2>4. CASE UNCHANGED History!qvars
    BY <2>1, <2>4 DEF History!qvars
  <2> QED BY <2>2, <2>3, <2>4, ArrivalStep, DeleteStep DEF History!Next
<1> QED BY <1>1, <1>2, PTL DEF History!Spec

\* The cycles the invariant allows descend.
LEMMA InvariantDescends ==
    ASSUME HistoryInv PROVE History!SegmentsDescend
<1> SUFFICES ASSUME NEW r \in Role, NEW c \in History!Range(cycles[r]), NEW i \in 1..(Len(c.segs) - 1)
             PROVE  c.segs[i].pct > c.segs[i + 1].pct /\ c.segs[i].last < c.segs[i + 1].first
  BY DEF History!SegmentsDescend
<1>1. cycles[r] \in Seq(CycleOf(r))
  BY DEF HistoryInv, Stored
<1>2. c \in CycleOf(r)
  BY <1>1 DEF History!Range
<1>3. Descends(c.segs) /\ Len(c.segs) \in Nat
  BY <1>2 DEF CycleOf
<1>4. i \in 1..Len(c.segs) /\ i + 1 \in 1..Len(c.segs) /\ i < i + 1
  BY <1>3
<1> QED BY <1>3, <1>4 DEF Descends

\* SegmentsDescend: within a cycle the remaining percentage only falls and the
\* segments do not overlap.  What is stored of a role ends before what is
\* remembered of it, what is deferred belongs to what is remembered, and a
\* batch is written as a chain of observations after all that is stored
\* (internal/quota/codex_quota_history_scheduler.go,
\* internal/repository/codex_quota_history.go).
LEMMA HistoryDescends ==
    ASSUME HistoryConstants
    PROVE  History!Spec => []History!SegmentsDescend
<1>1. CASE ~History!DriftIsBounded
  <2>1. History!SegmentsDescend
    BY <1>1 DEF History!SegmentsDescend
  <2> QED BY <2>1, PTL
<1>2. CASE History!DriftIsBounded
  <2>1. History!Spec => []HistoryInv
    BY <1>2, HistoryInvariant
  <2>2. HistoryInv => History!SegmentsDescend
    BY InvariantDescends
  <2> QED BY <2>1, <2>2, PTL
<1> QED BY <1>1, <1>2

\* What is stored of a role ends before what is remembered of it and before
\* what is deferred, and nothing is stored of a role known to have nothing.
LEMMA InvariantIsAhead ==
    ASSUME HistoryInv PROVE History!MemoryIsNeverBehind
<1> SUFFICES ASSUME NEW r \in Role, current[r] # History!Unloaded
             PROVE  /\ ~current[r].found => cycles[r] = <<>>
                    /\ \A x \in History!Range(cycles[r]) :
                         /\ current[r].found => x.last <= current[r].last
                         /\ stable[r] # History!NoStable => x.last <= stable[r].obs.first
  BY DEF History!MemoryIsNeverBehind
<1>1. PICK cs, c, s : cs = cycles[r] /\ c = current[r] /\ s = stable[r]
  OBVIOUS
<1>2. cs \in Seq(CycleOf(r)) /\ Fits(r, cs, c, s, <<>>, 0)
  BY <1>1 DEF HistoryInv, Remembered, Stored
<1>3. History!Range(cs) = {cs[i] : i \in 1..Len(cs)}
  BY <1>2 DEF History!Range
<1>4. CASE c \notin KnownOf(r)
  <2>1. cs = <<>>
    BY <1>2, <1>4 DEF Fits
  <2>2. History!Range(cs) = {}
    BY <1>3, <2>1
  <2> QED BY <1>1, <2>1, <2>2
<1>5. CASE c \in KnownOf(r)
  <2>1. c # History!None
    BY <1>5 DEF KnownOf, History!None
  <2>2. c.found
    <3>1. c.found \in {TRUE}
      BY <1>5 DEF KnownOf
    <3> QED BY <3>1, Zenon
  <2>3. EndsBy(cs, c.last) /\ (s # History!NoStable => EndsBy(cs, s.obs.first))
    BY <1>2, <2>1 DEF Fits, Held
  <2> QED BY <1>1, <1>3, <2>2, <2>3 DEF EndsBy
<1> QED BY <1>4, <1>5

\* MemoryIsNeverBehind: what is stored of a role was seen before what is
\* remembered or deferred of it.  A batch is written as a chain that begins
\* after all that is stored and ends at what is remembered; a write that fails
\* leaves a first part of the chain and drops the memory
\* (internal/quota/codex_quota_history_scheduler.go,
\* internal/repository/codex_quota_history.go).
LEMMA HistoryIsAhead ==
    ASSUME HistoryConstants
    PROVE  History!Spec => []History!MemoryIsNeverBehind
<1>1. CASE ~History!DriftIsBounded
  <2>1. History!MemoryIsNeverBehind
    BY <1>1 DEF History!MemoryIsNeverBehind
  <2> QED BY <2>1, PTL
<1>2. CASE History!DriftIsBounded
  <2>1. History!Spec => []HistoryInv
    BY <1>2, HistoryInvariant
  <2>2. HistoryInv => History!MemoryIsNeverBehind
    BY InvariantIsAhead
  <2> QED BY <2>1, <2>2, PTL
<1> QED BY <1>1, <1>2

-----------------------------------------------------------------------------
(***************************************************************************)
(* The parts within KeeperServices.                                        *)
(***************************************************************************)

LEMMA ServicesSteps ==
    [Next]_vars => /\ [History!Next]_(History!qvars)
                   /\ [Headers!Next]_(Headers!hvars)
                   /\ [Resets!Next]_(Resets!rvars)
<1> USE DEF vars, hvars, qvars, rvars, History!qvars, Headers!hvars, Resets!rvars
<1>1. [Next]_vars => [History!Next]_(History!qvars)
  BY DEF Next
<1>2. [Next]_vars => [Headers!Next]_(Headers!hvars)
  BY DEF Next
<1>3. [Next]_vars => [Resets!Next]_(Resets!rvars)
  BY DEF Next
<1> QED BY <1>1, <1>2, <1>3

LEMMA ServicesAreParts == Spec => History!Spec /\ Headers!Spec /\ Resets!Spec
<1>1. Init => History!Init /\ Headers!Init /\ Resets!Init
  BY DEF Init
<1> QED BY <1>1, ServicesSteps, PTL DEF Spec, History!Spec, Headers!Spec, Resets!Spec

\* Observations the quota history has accepted always have somebody who will
\* take them (internal/quota/codex_quota_history_scheduler.go).
THEOREM HistoryIsWoken == Spec => []QueuedHasAWaker
<1>1. History!QueuedHasAWaker => QueuedHasAWaker
  BY DEF QueuedHasAWaker
<1> QED BY <1>1, ServicesAreParts, HistoryAwake, PTL

\* Within a stored cycle the remaining percentage only falls and segments do
\* not overlap, for every order of headers, refreshes, failures and deletions
\* (internal/quota/codex_quota_history_scheduler.go,
\* internal/repository/codex_quota_history.go).
THEOREM SegmentsAlwaysDescend == Spec => []SegmentsDescend
<1>1. HistoryConstants
  BY ServicesAssumption
<1>2. History!Spec => []History!SegmentsDescend
  BY <1>1, HistoryDescends
<1>3. History!SegmentsDescend => SegmentsDescend
  BY DEF SegmentsDescend
<1> QED BY <1>2, <1>3, ServicesAreParts, PTL

\* Where the resets of a cycle drift less than the tolerance, what the quota
\* history remembers or defers of a role is never older than what its table
\* holds of it: after every batch, failed or half-written batch, deletion and
\* change of the window's length (internal/quota/codex_quota_history_scheduler.go,
\* internal/repository/codex_quota_history.go).
THEOREM MemoryNeverBehind == Spec => []MemoryIsNeverBehind
<1>1. HistoryConstants
  BY ServicesAssumption
<1>2. History!Spec => []History!MemoryIsNeverBehind
  BY <1>1, HistoryIsAhead
<1>3. History!MemoryIsNeverBehind => MemoryIsNeverBehind
  BY DEF MemoryIsNeverBehind
<1> QED BY <1>2, <1>3, ServicesAreParts, PTL

\* A header snapshot accepted into the pending map always has somebody who
\* will take it (internal/quota/header_cache_worker.go).
THEOREM HeadersAreWoken == Spec => []PendingHasAWaker
<1>1. Headers!PendingHasAWaker => PendingHasAWaker
  BY DEF PendingHasAWaker
<1> QED BY <1>1, ServicesAreParts, HeadersAwake, PTL

\* The limit-reached flag and the Claude windows of a completed record never
\* go back to an older observation (internal/quota/header_cache_worker.go).
THEOREM HeadersNeverRollBack == Spec => FlagAndWindowsNeverRollBack
<1>1. HeaderConstants
  BY ServicesAssumption
<1>2. Headers!Spec => Headers!FlagAndWindowsNeverRollBack
  BY <1>1, HeadersMonotone
<1> QED BY <1>2, ServicesAreParts, PTL DEF FlagAndWindowsNeverRollBack

\* A reset is spent once, for the account and the grant it was confirmed for,
\* and its answer is right (internal/quota/reset.go, claude_reset.go).
THEOREM ResetsAreAccountedFor == Spec => []ResetIsAccountedFor
<1>1. ResetConstants
  BY ServicesAssumption
<1>2. Resets!Spec => []Resets!ResetIsAccountedFor
  BY <1>1, ResetsAccounted
<1>3. Resets!ResetIsAccountedFor => ResetIsAccountedFor
  BY DEF ResetIsAccountedFor
<1> QED BY <1>2, <1>3, ServicesAreParts, PTL
=============================================================================
