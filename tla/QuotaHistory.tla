---------------------------- MODULE QuotaHistory ----------------------------
(***************************************************************************)
(* The history of quota cycles (internal/quota/codex_quota_history*.go and *)
(* internal/repository/codex_quota_history.go, quota_cycle_delete.go).     *)
(*                                                                         *)
(* Observations of the main quota windows come from response headers and   *)
(* from refresh tasks (authoritative).  One runner collects them, compares *)
(* them with what it remembers of each window and writes the changes; the  *)
(* repository has rules of its own for what it accepts.  The module shows  *)
(* one account; windows are told apart by their role.                      *)
(*                                                                         *)
(* A cycle ends at its reset time; two reset times within Tolerance belong *)
(* to the same cycle.  A stored cycle holds segments of equal remaining    *)
(* percentage.  Observation counts are left out.                           *)
(***************************************************************************)
EXTENDS SequencesExt, Orders

CONSTANTS Role,       \* window roles
          Shape,      \* what an observation may report: [role, win, src, reset, pct]
          Tolerance,  \* codexQuotaHistoryResetTolerance, codexQuotaResetTolerance
          QueueSize,  \* codexQuotaHistoryQueueSize
          MaxObserved,\* bound on observation times
          MaxInputs,  \* bound on appended inputs
          MaxHFaults  \* bound on failures and deletions

VARIABLES headerQueue,  \* observations from headers
          trustedQueue, \* observations from refresh tasks
          headerWake, trustedWake,  \* channels of capacity one
          runner,       \* "idle", "timing" (header timer runs), "done"
          current,      \* state.Current: what the runner remembers of each role
          stable,       \* state.Stable: repeated observations not yet written
          cycles,       \* quota_cycles with their segments, per role, by id
          qclosing, inputs, qfaults

qvars == <<headerQueue, trustedQueue, headerWake, trustedWake, runner, current, stable, cycles,
           qclosing, inputs, qfaults>>

None == [found |-> FALSE]                       \* no cycle is stored
Unloaded == [found |-> FALSE, loaded |-> FALSE]  \* not in state.Current
NoStable == [obs |-> None]

Dist(x, y) == IF x < y THEN y - x ELSE x - y
Matches(c, o) == c.win = o.win /\ Dist(c.reset, o.reset) <= Tolerance
NeedsBoundary(c, o) ==
    \/ c.src = "relative" /\ o.src = "absolute"
    \/ o.auth /\ (c.src # o.src \/ c.reset # o.reset)
WithBoundary(c, o) == [c EXCEPT !.src = o.src, !.reset = o.reset]
Trusting(b, o) == [b EXCEPT !.auth = @ \/ o.auth]

\* A left fold that computes each intermediate value once.
Folded(op(_, _), base, seq) ==
    LET f[i \in 0..Len(seq)] ==
          IF i = 0 THEN base ELSE CHOOSE v \in {op(u, seq[i]) : u \in {f[i - 1]}} : TRUE
    IN  f[Len(seq)]

\* The entries of a list at some of its places, in their order.
Selected(seq, places) ==
    LET at == InOrder(places) IN [k \in DOMAIN at |-> seq[at[k]]]

\* Stable sort of observations by one of their times.
SortBy(time, seq) ==
    LET before(i, j) == seq[i][time] < seq[j][time] \/ (seq[i][time] = seq[j][time] /\ i < j)
        at == CHOOSE p \in [DOMAIN seq -> DOMAIN seq] :
                 \A i, j \in DOMAIN seq : i < j => before(p[i], p[j])
    IN  [k \in DOMAIN seq |-> seq[at[k]]]

-----------------------------------------------------------------------------
(* The repository.  Cycles of a role are a sequence in the order of ids;   *)
(* the latest cycle is the one observed last.                              *)

Latest(cs) == CHOOSE i \in DOMAIN cs :
                  \A j \in DOMAIN cs : cs[j].last < cs[i].last \/ (cs[j].last = cs[i].last /\ j <= i)

\* The closest of the cycles that match, the one observed last among equals.
Closest(cs, o) ==
    LET m == {i \in DOMAIN cs : Matches(cs[i], o)}
        d(i) == Dist(cs[i].reset, o.reset)
    IN  IF m = {} THEN 0
        ELSE CHOOSE i \in m : \A j \in m : \/ d(i) < d(j)
                                           \/ d(i) = d(j) /\ (cs[j].last < cs[i].last \/
                                                              (cs[j].last = cs[i].last /\ j <= i))

Segment(o) == [pct |-> o.pct, first |-> o.first, last |-> o.last]
NewCycle(o) == [win |-> o.win, src |-> o.src, reset |-> o.reset, first |-> o.first, last |-> o.last,
                segs |-> <<Segment(o)>>]
Observed(c, o, segs) == [c EXCEPT !.first = Min({@, o.first}), !.last = o.last, !.segs = segs]

\* Leaves the lower segments in place.
CorrectTailOnly(c, o) == Observed(c, o, Append(c.segs, Segment(o)))

\* An authoritative higher percentage removes the lower segments.
CorrectTail(c, o) ==
    LET kept == Selected(c.segs, {i \in DOMAIN c.segs : c.segs[i].pct >= o.pct})
        hit == {i \in DOMAIN kept : kept[i].pct = o.pct}
    IN  Observed(c, o, IF hit = {} THEN Append(kept, Segment(o))
                       ELSE [i \in DOMAIN kept |-> IF i \in hit THEN [kept[i] EXCEPT !.last = o.last]
                                                   ELSE kept[i]])

Extend(c, o) ==
    LET tail == c.segs[Len(c.segs)]
    IN  IF o.last < tail.last THEN c
        ELSE IF o.auth /\ o.pct > tail.pct THEN CorrectTail(c, o)
        ELSE IF o.first <= tail.last \/ o.pct > tail.pct THEN c
        ELSE IF o.pct = tail.pct
        THEN Observed(c, o, [c.segs EXCEPT ![Len(c.segs)].last = o.last])
        ELSE Observed(c, o, Append(c.segs, Segment(o)))

ApplyObservation(cs, o) ==
    IF cs = <<>> THEN <<NewCycle(o)>>
    ELSE LET l == cs[Latest(cs)]
             i == IF Matches(l, o) THEN Latest(cs) ELSE Closest(cs, o)
         IN  IF \/ o.last < l.last
                \/ i \notin {0, Latest(cs)} /\ cs[i].win = l.win
                \/ i = 0 /\ l.win = o.win /\ o.reset < l.reset
             THEN cs
             ELSE IF i = 0 THEN Append(cs, NewCycle(o))
             ELSE [cs EXCEPT ![i] = Extend(IF NeedsBoundary(@, o) THEN WithBoundary(@, o) ELSE @, o)]

LoadLatestState(cs) ==
    IF cs = <<>> THEN None
    ELSE LET c == cs[Latest(cs)]
             tail == c.segs[Len(c.segs)]
         IN  [found |-> TRUE, win |-> c.win, src |-> c.src, reset |-> c.reset,
              pct |-> tail.pct, last |-> tail.last]

-----------------------------------------------------------------------------
(* The runner's comparison of one observation with what it remembers.      *)
(* acc.pend is what will be written, acc.at the index of the entry of pend *)
(* that holds the current segment (0 if it is not in pend), acc.mat the    *)
(* times at which something was put into pend.                             *)

FromObservation(o) == [found |-> TRUE, win |-> o.win, src |-> o.src, reset |-> o.reset,
                       pct |-> o.pct, last |-> o.last]

WithDeferred(acc) == IF acc.stable = NoStable THEN acc.pend ELSE Append(acc.pend, acc.stable.obs)

Change(acc, o) ==
    LET pend == Append(WithDeferred(acc), o)
    IN  [cur |-> FromObservation(o), stable |-> NoStable, pend |-> pend, at |-> Len(pend),
         mat |-> acc.mat \union {o.last}]

\* Same time: only the boundary of the cycle can be new.
SameInstant(acc, c, o) ==
    LET pend == WithDeferred(acc)
    IN  [acc EXCEPT !.cur = c, !.stable = NoStable, !.mat = @ \union {o.last},
            !.pend = IF acc.at > 0
                     THEN [pend EXCEPT ![acc.at] = Trusting(WithBoundary(@, o), o)]
                     ELSE Append(pend, [o EXCEPT !.pct = c.pct]),
            !.at = IF acc.at > 0 THEN acc.at ELSE Len(pend) + 1]

Defer(s, o, now) ==
    IF s = NoStable THEN [obs |-> o, immediate |-> now]
    ELSE LET b == IF o.auth \/ (s.obs.src = "relative" /\ o.src = "absolute")
                  THEN WithBoundary(s.obs, o) ELSE s.obs
         IN  [obs |-> [Trusting(b, o) EXCEPT !.last = o.last],
              immediate |-> s.immediate \/ now]

SamePercent(acc, c, o, boundary) ==
    IF acc.at > 0
    THEN [acc EXCEPT !.cur = [c EXCEPT !.last = o.last], !.mat = @ \union {o.last},
             !.pend[acc.at] = [Trusting(IF boundary THEN WithBoundary(@, o) ELSE @, o)
                                  EXCEPT !.last = o.last]]
    ELSE [acc EXCEPT !.cur = [c EXCEPT !.last = o.last],
                     !.stable = Defer(@, o, boundary \/ o.auth)]

MergeObservation(acc, o) ==
    LET c == acc.cur
        boundary == NeedsBoundary(c, o)
        c1 == IF boundary THEN WithBoundary(c, o) ELSE c
    IN  IF ~c.found THEN Change(acc, o)
        ELSE IF o.last < c.last THEN acc
        ELSE IF ~Matches(c, o)
        THEN IF c.win = o.win /\ o.reset < c.reset THEN acc ELSE Change(acc, o)
        ELSE IF o.auth /\ o.pct > c.pct THEN Change(acc, o)
        ELSE IF o.last = c.last THEN IF boundary THEN SameInstant(acc, c1, o) ELSE acc
        ELSE IF o.pct > c.pct THEN acc
        ELSE IF o.pct = c.pct THEN SamePercent(acc, c1, o, boundary)
        ELSE Change(acc, o)

-----------------------------------------------------------------------------
(* One batch: trusted observations displace the headers of their role, the *)
(* rest is verified, sorted, merged and written.  The runner is the only   *)
(* writer, so a batch is one step; what fails in it is chosen by the       *)
(* parameters: verified (identity query), loaded (state recovery),         *)
(* written, and heartbeat (the roles whose heartbeat interval is over).    *)

Preferred ==
    trustedQueue \o Selected(headerQueue, {n \in DOMAIN headerQueue :
                        \A i \in DOMAIN trustedQueue : trustedQueue[i].role # headerQueue[n].role})

Verified(verified) == IF verified THEN Preferred
                      ELSE Selected(Preferred, {n \in DOMAIN Preferred : Preferred[n].auth})

SortedCandidates(seq) == SortBy("last", seq)

MergeRole(r, loaded, seq) ==
    LET mine == SortedCandidates(Selected(seq, {n \in DOMAIN seq : seq[n].role = r}))
        known == current[r] # Unloaded
        start == [cur |-> IF known THEN current[r] ELSE LoadLatestState(cycles[r]),
                  stable |-> stable[r], pend |-> <<>>, at |-> 0, mat |-> {}]
    IN  IF mine = <<>> \/ (~known /\ ~loaded)
        THEN [start EXCEPT !.cur = current[r]]
        ELSE Folded(MergeObservation, start, mine)

\* The observations of a role, in the order of their first times.
WriteObservations(cs, pend) ==
    Folded(ApplyObservation, cs, SortBy("first", pend))

\* What a failed write may leave of it: the observations of all accounts go
\* in transactions of 32, so any first part of a role's may be committed.
Partly(cs, pend) ==
    {Folded(ApplyObservation, cs, SubSeq(SortBy("first", pend), 1, n)) : n \in 0..Len(pend)}

\* The roles of a failed write, and what is remembered of them afterwards.
Failed(written, pend) == {r \in Role : ~written /\ pend[r] # <<>>}
Restored(r) == current[r]
Dropped(r) == Unloaded

WriteBatch(all, written, heartbeat, acc) ==
    LET mats == UNION {acc[r].mat : r \in Role}
        held == {r \in Role : acc[r].stable # NoStable}
        when(r) == acc[r].stable.obs.last
        isDue(r) == all \/ acc[r].stable.immediate \/ when(r) \in mats \/ r \in heartbeat
        due == {r \in held : \E s \in held : isDue(s) /\ when(s) = when(r)}
        pend == [r \in Role |-> IF r \in due THEN Append(acc[r].pend, acc[r].stable.obs) ELSE acc[r].pend]
        lost == Failed(written, pend)
    IN  /\ current' = [r \in Role |-> IF r \in lost THEN Dropped(r) ELSE acc[r].cur]
        /\ stable' = [r \in Role |-> IF r \in lost \/ r \in due THEN NoStable ELSE acc[r].stable]
        /\ \/ written /\ cycles' = [r \in Role |-> WriteObservations(cycles[r], pend[r])]
           \/ /\ ~written
              /\ \E after \in [Role -> UNION {Partly(cycles[r], pend[r]) : r \in Role}] :
                    /\ \A r \in Role : after[r] \in Partly(cycles[r], pend[r])
                    /\ cycles' = after

Process(all) ==
    /\ \E verified, loaded, written \in BOOLEAN, heartbeat \in SUBSET Role :
          /\ qfaults' = qfaults + Cardinality({i \in 1..3 : ~<<verified, loaded, written>>[i]})
          /\ qfaults' <= MaxHFaults
          /\ \E acc \in [Role -> {MergeRole(r, loaded, Verified(verified)) : r \in Role}] :
                /\ \A r \in Role : acc[r] = MergeRole(r, loaded, Verified(verified))
                /\ WriteBatch(all, written, heartbeat, acc)
    /\ headerQueue' = <<>>
    /\ trustedQueue' = <<>>
    /\ headerWake' = FALSE
    /\ trustedWake' = FALSE
    /\ UNCHANGED <<qclosing, inputs>>

-----------------------------------------------------------------------------
(* The queues.  A full header queue loses its oldest entry, a full trusted *)
(* queue refuses the new one.                                              *)

Observation(shape, t, auth) ==
    [role |-> shape.role, win |-> shape.win, src |-> shape.src, reset |-> shape.reset,
     pct |-> shape.pct, first |-> t, last |-> t, auth |-> auth]

AppendHeader(shape, t) ==
    /\ ~qclosing
    /\ inputs < MaxInputs
    /\ headerQueue' = Append(IF Len(headerQueue) = QueueSize THEN Tail(headerQueue) ELSE headerQueue,
                              Observation(shape, t, FALSE))
    /\ headerWake' = TRUE
    /\ inputs' = inputs + 1
    /\ UNCHANGED <<trustedQueue, trustedWake, runner, current, stable, cycles, qclosing, qfaults>>

\* Wakes the runner only if nothing was queued before.
AppendTrustedSilently(shape, t) ==
    /\ ~qclosing
    /\ inputs < MaxInputs
    /\ Len(trustedQueue) < QueueSize
    /\ trustedQueue' = Append(trustedQueue, Observation(shape, t, TRUE))
    /\ trustedWake' = (trustedWake \/ headerQueue = <<>>)
    /\ inputs' = inputs + 1
    /\ UNCHANGED <<headerQueue, headerWake, runner, current, stable, cycles, qclosing, qfaults>>

AppendTrusted(shape, t) ==
    /\ ~qclosing
    /\ inputs < MaxInputs
    /\ Len(trustedQueue) < QueueSize
    /\ trustedQueue' = Append(trustedQueue, Observation(shape, t, TRUE))
    /\ trustedWake' = TRUE
    /\ inputs' = inputs + 1
    /\ UNCHANGED <<headerQueue, headerWake, runner, current, stable, cycles, qclosing, qfaults>>

-----------------------------------------------------------------------------
(* The runner's loop.                                                      *)

HearsHeader ==
    /\ runner = "idle"
    /\ headerWake
    /\ headerWake' = FALSE
    /\ runner' = IF headerQueue = <<>> THEN "idle" ELSE "timing"
    /\ UNCHANGED <<headerQueue, trustedQueue, trustedWake, current, stable, cycles, qclosing, inputs, qfaults>>

TimerFires ==
    /\ runner = "timing"
    /\ runner' = "idle"
    /\ Process(FALSE)

HearsTrusted ==
    /\ runner \in {"idle", "timing"}
    /\ trustedWake
    /\ runner' = "idle"
    /\ Process(FALSE)

RunnerStops ==
    /\ runner \in {"idle", "timing"}
    /\ qclosing
    /\ runner' = "done"
    /\ Process(TRUE)

StopRunner ==
    /\ ~qclosing
    /\ qclosing' = TRUE
    /\ UNCHANGED <<headerQueue, trustedQueue, headerWake, trustedWake, runner, current, stable, cycles, inputs, qfaults>>

\* The deleted cycle is the one the observation would have been written to.
Hits(cs, i, o) ==
    /\ Matches(cs[i], o)
    /\ i = IF Matches(cs[Latest(cs)], o) THEN Latest(cs) ELSE Closest(cs, o)

ClearedCurrent(cs, i, r) ==
    IF current[r].found /\ Hits(cs, i, current[r]) THEN Unloaded ELSE current[r]

DeleteCycle(r, i) ==
    LET cs == cycles[r]
        hit(o) == o.role = r /\ Hits(cs, i, o)
    IN  /\ runner \in {"idle", "timing"}
        /\ qfaults < MaxHFaults
        /\ i \in DOMAIN cs
        /\ qfaults' = qfaults + 1
        /\ cycles' = [cycles EXCEPT ![r] = RemoveAt(cs, i)]
        /\ current' = [current EXCEPT ![r] = ClearedCurrent(cs, i, r)]
        /\ stable' = IF stable[r] # NoStable /\ Hits(cs, i, stable[r].obs)
                     THEN [stable EXCEPT ![r] = NoStable] ELSE stable
        /\ headerQueue' = IF \E n \in DOMAIN headerQueue : hit(headerQueue[n])
                          THEN Selected(headerQueue, {n \in DOMAIN headerQueue : ~hit(headerQueue[n])})
                          ELSE headerQueue
        /\ UNCHANGED <<trustedQueue, headerWake, trustedWake, runner, qclosing, inputs>>

-----------------------------------------------------------------------------
Init ==
    /\ headerQueue = <<>>
    /\ trustedQueue = <<>>
    /\ headerWake = FALSE
    /\ trustedWake = FALSE
    /\ runner = "idle"
    /\ current = [r \in Role |-> Unloaded]
    /\ stable = [r \in Role |-> NoStable]
    /\ cycles = [r \in Role |-> <<>>]
    /\ qclosing = FALSE
    /\ inputs = 0
    /\ qfaults = 0

RunnerStep == HearsHeader \/ TimerFires \/ HearsTrusted \/ RunnerStops

Next ==
    \/ \E shape \in Shape, t \in 1..MaxObserved :
          AppendHeader(shape, t) \/ AppendTrusted(shape, t)
    \/ RunnerStep
    \/ StopRunner
    \/ \E r \in Role : \E i \in DOMAIN cycles[r] : DeleteCycle(r, i)

Spec == Init /\ [][Next]_qvars

-----------------------------------------------------------------------------
(* Properties.                                                             *)

\* What the code takes for granted of the reports (the tolerance is for clock
\* drift): the resets of one cycle differ by at most Tolerance in all, not
\* only from one report to the next.
DriftIsBounded ==
    \A s, u, v \in Shape :
        s.role = u.role /\ u.role = v.role /\ Matches(s, u) /\ Matches(u, v) => Matches(s, v)

\* Within a cycle the remaining percentage only falls: its segments descend
\* and do not overlap, whatever the order in which headers and refreshes
\* arrive, are merged, corrected, lost and deleted.  Without DriftIsBounded a
\* deletion may clear what is remembered of a cycle and leave its deferred
\* repetition, which a late header then puts ahead of its own time.
SegmentsDescend ==
    \/ \A r \in Role : \A c \in Range(cycles[r]) : \A i \in 1..(Len(c.segs) - 1) :
          /\ c.segs[i].pct > c.segs[i + 1].pct
          /\ c.segs[i].last < c.segs[i + 1].first
    \/ ~DriftIsBounded

\* The runner never falls behind the database: no cycle of a window was seen
\* after what is remembered of it, nor after the repetition it still defers,
\* and what it takes for unknown is not stored.  So the repository does not
\* refuse as late what the runner compares, accepts and sends: neither after
\* a write that failed halfway, nor after a deletion, nor when a window
\* changes its length and returns to it.  That both hold the same percentage
\* is not claimed: where a window returns to an earlier length with a higher
\* one, the runner begins anew and the repository keeps the cycle it finds.
MemoryIsNeverBehind ==
    \/ \A r \in Role : current[r] # Unloaded =>
          /\ ~current[r].found => cycles[r] = <<>>
          /\ \A c \in Range(cycles[r]) :
                /\ current[r].found => c.last <= current[r].last
                /\ stable[r] # NoStable => c.last <= stable[r].obs.first
    \/ ~DriftIsBounded

\* Whatever is queued will be taken: its wake waits, the header timer runs or
\* the stop signal is up, and the runner has not ended; no wake is lost
\* between the timer, the two channels, a deletion and a shutdown.
QueuedHasAWaker ==
    /\ headerQueue # <<>> =>
          runner # "done" /\ (headerWake \/ trustedWake \/ runner = "timing" \/ qclosing)
    /\ trustedQueue # <<>> => runner # "done" /\ (trustedWake \/ qclosing)
=============================================================================
