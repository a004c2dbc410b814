----------------------------- MODULE UsageQueries -----------------------------
(***************************************************************************)
(* What a reader of the dashboard is told, while events keep arriving.     *)
(*                                                                         *)
(* An Overview request counts the events of a time range from three        *)
(* places: the daily and hourly rollups for the whole days and hours       *)
(* inside the range, and single events for the two ragged edges, taken     *)
(* from the cache of recent events when it reaches back far enough and     *)
(* from the database when it does not.  The three are read one after the   *)
(* other, with commits, aggregation, the cache's worker and the clock      *)
(* moving in between.  The module also holds the cache itself (its bounded *)
(* queue, pruning and the credential health buckets kept with it), the     *)
(* Analysis and Realtime requests, which use the same rollups and the same *)
(* cache, and the cursor paging of the request event list.                 *)
(*                                                                         *)
(* Time is a small integer.  An hour and a day are constants so that every *)
(* position of a range relative to both occurs within a few ticks; a       *)
(* rolling range is longer than the cache window, as five hours are longer *)
(* than seventy minutes.  A credential's success and failure counts and    *)
(* the token sums move together, so one count per bucket stands for them.  *)
(***************************************************************************)
EXTENDS Integers, Sequences, FiniteSets, SequencesExt

CONSTANTS Cred,          \* credentials whose health is kept
          Hour, Day,     \* the rollup buckets, in ticks; Hour divides Day
          Window,        \* retention of the recent-event cache, above Hour
          RollHours,     \* length of the rolling-hours range, above Window
          RollDays,      \* length of the rolling-days range
          DayThreshold,  \* ranges this long use the daily rollup
          HealthSpan, HealthWindow,   \* credential health buckets
          AppendQueue,   \* slots of the cache's append queue
          PageSize,
          FirstClock, LastClock,      \* bounds on the clock
          QShape,        \* the events that arrive: [age, cred]
          MaxQEvents, MaxRestarts     \* bounds on commits and restarts

VARIABLES qclock,
          events,        \* usage_events in id order: [ts, cred]
          rolled,        \* events the aggregation has added to the rollups
          offered,       \* committed events handed to TryAppend so far
          appendCh,      \* ids in the cache's queue and in its worker's hands
          dropped,       \* ids TryAppend refused
          cached,        \* ids in the cache
          health, lastFullPrune,      \* bucketsByCredential
          query,         \* the request being answered
          restarts

cacheVars == <<appendCh, dropped, cached, health, lastFullPrune>>
quvars == <<qclock, events, rolled, offered, appendCh, dropped, cached,
            health, lastFullPrune, query, restarts>>

Ids == 1..Len(events)
Ts(i) == events[i].ts
Floor(t, unit) == (t \div unit) * unit
Bucket == 0..(LastClock \div HealthSpan) + 1

Kinds == {"hours", "days", "today", "yesterday", "customHour", "customDay",
          "analysisHours", "analysisDays", "realtime"}

-----------------------------------------------------------------------------
(* The cache of recent events                                              *)

NoHealth == [c \in Cred |-> [b \in Bucket |-> 0]]

\* appendCredentialHealthRowsLocked.
AddHealth(h, ids) ==
    [c \in Cred |-> [b \in Bucket |->
        h[c][b] + Cardinality({i \in ids : events[i].cred = c
                                           /\ Ts(i) \div HealthSpan = b})]]

HealthWindowEnd(t) == Floor(t, HealthSpan) + HealthSpan
HealthWindowStart(t) == HealthWindowEnd(t) - HealthWindow

PruneHealthToEnd(h, touched, full) ==
    [c \in Cred |-> [b \in Bucket |->
        IF (full \/ c \in touched) /\ b * HealthSpan < Floor(qclock, HealthSpan)
        THEN 0 ELSE h[c][b]]]

\* pruneCredentialHealthLocked: all credentials once per bucket, otherwise
\* only the ones the batch touched.
PruneHealth(h, touched, full) ==
    [c \in Cred |-> [b \in Bucket |->
        IF (full \/ c \in touched) /\ b * HealthSpan < HealthWindowStart(qclock)
        THEN 0 ELSE h[c][b]]]

\* The rows a new cache reads: its own window, and the longer health window.
Loaded == {i \in Ids : Ts(i) >= qclock - Window}
LoadedHealth ==
    PruneHealth(AddHealth(NoHealth, {i \in Ids : Ts(i) >= qclock - HealthWindow}),
                Cred, TRUE)

Idle == [pc |-> "idle"]

\* A database with a history, the cache loaded from it and no request.
Init == /\ qclock = FirstClock
        /\ events = <<>> /\ rolled = 0 /\ offered = 0
        /\ appendCh = <<>> /\ dropped = {} /\ cached = {}
        /\ health = NoHealth /\ lastFullPrune = HealthWindowEnd(FirstClock)
        /\ query = Idle /\ restarts = 0

Tick == /\ qclock < LastClock
        /\ qclock' = qclock + 1
        /\ UNCHANGED <<events, rolled, offered, cacheVars, query, restarts>>

\* The inbox processor commits a decoded batch.  A request that was long in
\* flight, or a CPA whose clock is ahead, gives a timestamp other than now.
Commit(age, c) ==
    /\ Len(events) < MaxQEvents
    /\ offered = Len(events)
    /\ events' = Append(events, [ts |-> qclock - age, cred |-> c])
    /\ UNCHANGED <<qclock, rolled, offered, cacheVars, query, restarts>>

\* After the transaction: TryAppend, which never waits.  The head of appendCh
\* is in the queue or already in the hands of the worker, its slot free again,
\* so that one batch more than there are slots may be on its way.
TryAppend ==
    /\ offered < Len(events)
    /\ offered' = offered + 1
    /\ \/ /\ Len(appendCh) <= AppendQueue
          /\ appendCh' = Append(appendCh, offered + 1)
          /\ UNCHANGED dropped
       \/ /\ Len(appendCh) >= AppendQueue
          /\ dropped' = dropped \cup {offered + 1}
          /\ UNCHANGED appendCh
    /\ UNCHANGED <<qclock, events, rolled, cached, health, lastFullPrune,
                   query, restarts>>

\* One transaction of the aggregation: a prefix of the events is rolled up.
Aggregate ==
    /\ rolled < Len(events)
    /\ rolled' = rolled + 1
    /\ UNCHANGED <<qclock, events, offered, cacheVars, query, restarts>>

Kept(ids) == {i \in ids : Ts(i) >= qclock - Window}

\* The cache's worker appends the batch it took, and prunes.
WorkerAppends ==
    /\ appendCh # <<>>
    /\ LET i    == Head(appendCh)
           full == HealthWindowEnd(qclock) - lastFullPrune >= HealthSpan
       IN /\ cached' = Kept(cached \cup {i})
          /\ health' = PruneHealth(AddHealth(health, {i}), {events[i].cred}, full)
          /\ lastFullPrune' =
                IF full THEN HealthWindowEnd(qclock) ELSE lastFullPrune
    /\ appendCh' = Tail(appendCh)
    /\ UNCHANGED <<qclock, events, rolled, offered, dropped, query, restarts>>

\* The process stops, with or without Close, which does not drain the queue
\* either, and starts again.
Restart ==
    /\ restarts < MaxRestarts
    /\ restarts' = restarts + 1
    /\ offered' = Len(events)
    /\ appendCh' = <<>> /\ dropped' = {}
    /\ cached' = Loaded
    /\ health' = LoadedHealth /\ lastFullPrune' = HealthWindowEnd(qclock)
    /\ query' = Idle
    /\ UNCHANGED <<qclock, events, rolled>>

-----------------------------------------------------------------------------
(* The time range of a request                                             *)

Cut(t) == IF t > qclock THEN qclock ELSE t

\* ParseUsageQueryRange: the range a kind of request stands for when the
\* clock shows t.  "last" says that the end itself belongs to the range.
QueryRange(kind, t) ==
    CASE kind \in {"hours", "analysisHours"} ->
            [start |-> t - RollHours, end |-> t, last |-> TRUE]
      [] kind \in {"days", "analysisDays"} ->
            [start |-> t - RollDays, end |-> t, last |-> TRUE]
      [] kind = "today" ->
            [start |-> Floor(t, Day), end |-> Floor(t, Day) + Day - 1, last |-> TRUE]
      [] kind = "yesterday" ->
            [start |-> Floor(t, Day) - Day, end |-> Floor(t, Day) - 1, last |-> TRUE]
      [] kind = "customHour" ->
            [start |-> Floor(t, Hour) - Hour, end |-> Floor(t, Hour) + Hour,
             last |-> FALSE]
      [] kind = "customDay" ->
            [start |-> Floor(t, Day) - Day, end |-> Floor(t, Day) + Day,
             last |-> FALSE]
      [] kind = "realtime" ->
            [start |-> t - Window, end |-> t, last |-> FALSE]

\* usageOverviewCurrentRightBoundary.
CurrentRight(kind) == kind \in {"hours", "days", "today"}

In(t, r) == t >= r.start /\ (t < r.end \/ (r.last /\ t = r.end))

FullHoursRoundedDown(r) ==
    LET from == Floor(r.start, Hour)
        to   == Floor(r.end, Hour)
    IN <<from, IF to < from THEN from ELSE to>>

\* usageOverviewFullHourWindow, as a pair.
FullHours(r) ==
    LET from == IF r.start % Hour = 0 THEN r.start ELSE Floor(r.start, Hour) + Hour
        to   == Floor(r.end, Hour)
    IN <<from, IF to < from THEN from ELSE to>>

FullDays(from, to) ==
    LET first == IF from % Day = 0 THEN from ELSE Floor(from, Day) + Day
        last  == Floor(to, Day)
    IN <<first, IF last < first THEN first ELSE last>>

\* The ragged edges of an Overview range: the left one up to the first full
\* hour, the right one from the last.  A range that ends now keeps its right
\* edge even when it is empty, and reads it open-ended.
EdgeWindows(r, full, current) ==
    IF r.start >= r.end THEN {}
    ELSE LET leftEnd == IF r.end < full[1] THEN r.end ELSE full[1]
             left    == IF r.start < leftEnd
                        THEN {[start |-> r.start, end |-> leftEnd,
                               last |-> r.last /\ leftEnd = r.end,
                               open |-> current /\ leftEnd = r.end]}
                        ELSE {}
             from    == IF full[2] < r.start THEN r.start ELSE full[2]
             right   == IF full[2] <= r.end
                           /\ (from < r.end \/ (current /\ from = r.end))
                        THEN {[start |-> from, end |-> r.end, last |-> r.last,
                               open |-> current]}
                        ELSE {}
         IN left \cup right

\* mergeUsageOverviewRawEventWindows for the at most two edges: when they
\* touch they are one, with the right edge's end and openness.
MergedEdges(ws) ==
    IF \E a, b \in ws : a # b /\ a.start <= b.start /\ b.start <= a.end
    THEN LET pair == CHOOSE p \in ws \X ws :
                        /\ p[1] # p[2] /\ p[1].start <= p[2].start
                        /\ p[2].start <= p[1].end
             a == pair[1]  b == pair[2]
         IN {[start |-> a.start,
              end   |-> IF b.end > a.end THEN b.end ELSE a.end,
              last  |-> IF b.end > a.end THEN b.last ELSE a.last \/ b.last,
              open  |-> IF b.end > a.end THEN b.open ELSE a.open \/ b.open]}
    ELSE ws

\* Events and EventsSince of the cache, and the same rows of the database.
CachedEvents(w) == {i \in cached : IF w.open THEN Ts(i) >= w.start ELSE In(Ts(i), w)}
StoredEvents(w) == {i \in Ids : In(Ts(i), w)}

\* Events of one edge: from the cache when the window begins inside what the
\* cache keeps at the request's time, otherwise from the database.
EdgeEvents(w, at) == IF w.start >= at - Window THEN CachedEvents(w) ELSE StoredEvents(w)

\* The events the rollup rows of the half-open window hold.
RolledIn(from, to) == {i \in 1..rolled : Ts(i) >= from /\ Ts(i) < to}

-----------------------------------------------------------------------------
(* Overview, Analysis and Realtime requests                                *)

\* The API resolves the range against the clock.  "settled" is kept for the
\* property: the events nothing is still in flight for.
Begin(kind) ==
    /\ query.pc = "idle"
    /\ query' = [pc |-> "parsed", kind |-> kind, range |-> QueryRange(kind, qclock),
                 at |-> qclock, edge |-> {}, skip |-> <<0, 0>>,
                 settled |-> {i \in 1..rolled : i <= offered /\ i \notin dropped
                                /\ (i \in cached \/ Ts(i) < qclock - Window)}]
    /\ UNCHANGED <<qclock, events, rolled, offered, cacheVars, restarts>>

\* Settled events that the cache has dropped for their age although the
\* request still counts on the cache for them.
Lapsed == {i \in query.settled : Ts(i) >= query.at - Window
                                 /\ Ts(i) < qclock - Window}

\* buildUsageOverviewFromStats fixes its own "now", cuts the end to it and
\* splits the range.
PlanOverview ==
    /\ query.pc = "parsed"
    /\ query.kind \in {"hours", "days", "today", "yesterday"}
    /\ LET r == [query.range EXCEPT !.end = Cut(query.range.end)]
       IN query' = [query EXCEPT !.pc = "planned", !.range = r, !.at = qclock,
                                 !.skip = FullHours(r),
                                 !.settled = @ \ Lapsed]
    /\ UNCHANGED <<qclock, events, rolled, offered, cacheVars, restarts>>

\* loadUsageOverviewRawEventWindowsWithFilter.  What the rollups cover is
\* skipped.
ReadEdges ==
    /\ query.pc = "planned"
    /\ LET ws == MergedEdges(EdgeWindows(query.range, query.skip,
                                         CurrentRight(query.kind)))
       IN query' = [query EXCEPT
             !.pc = "edges",
             !.edge = {i \in UNION {EdgeEvents(w, query.at) : w \in ws} :
                         ~(Ts(i) >= query.skip[1] /\ Ts(i) < query.skip[2])},
             !.settled = @ \ Lapsed]
    /\ UNCHANGED <<qclock, events, rolled, offered, cacheVars, restarts>>

\* loadAndApplyUsageOverviewStats: the whole days of a long range from the
\* daily rollup and the remaining hours from the hourly one, all hours
\* hourly otherwise.  Each row set is added once, so a double count shows as
\* an event in two of the sets.
Parts(q) ==
    LET full == q.skip
        days == FullDays(full[1], full[2])
        long == q.range.end - q.range.start >= DayThreshold
    IN IF long /\ days[2] > days[1]
       THEN <<q.edge, RolledIn(days[1], days[2]), RolledIn(full[1], days[1]),
              RolledIn(days[2], full[2])>>
       ELSE <<q.edge, RolledIn(full[1], full[2])>>

Answer(parts, r, open) ==
    query' = [pc |-> "done", kind |-> query.kind, range |-> r, open |-> open,
              counted |-> [i \in Ids |-> Cardinality({n \in DOMAIN parts : i \in parts[n]})],
              settled |-> query.settled \ Lapsed]

ReadStats ==
    /\ query.pc = "edges"
    /\ Answer(Parts(query), query.range, CurrentRight(query.kind))
    /\ UNCHANGED <<qclock, events, rolled, offered, cacheVars, restarts>>

\* A custom range is aligned by the API and read from one rollup only.
ReadCustom ==
    /\ query.pc = "parsed" /\ query.kind \in {"customHour", "customDay"}
    /\ Answer(<<RolledIn(query.range.start, query.range.end)>>, query.range, FALSE)
    /\ UNCHANGED <<qclock, events, rolled, offered, cacheVars, restarts>>

\* BuildAnalysisWithFilter: rollups only.  Rolling days widen to calendar
\* days; rolling hours take the current hour whole and leave out the first
\* partial one.
AnalysisWindow(q) ==
    IF q.range.end - q.range.start > Day
    THEN <<Floor(q.range.start, Day), Floor(q.range.end, Day) + Day>>
    ELSE LET full == FullHours(q.range)
         IN <<full[1], IF q.range.end > full[2] THEN full[2] + Hour ELSE full[2]>>

ReadAnalysis ==
    /\ query.pc = "parsed" /\ query.kind \in {"analysisHours", "analysisDays"}
    /\ LET w == AnalysisWindow(query)
       IN Answer(<<RolledIn(w[1], w[2])>>,
                 [start |-> w[1], end |-> w[2], last |-> FALSE], FALSE)
    /\ UNCHANGED <<qclock, events, rolled, offered, cacheVars, restarts>>

\* buildUsageOverviewRealtime reads the cache only.
ReadRealtime ==
    /\ query.pc = "parsed" /\ query.kind = "realtime"
    /\ Answer(<<{i \in cached : In(Ts(i), query.range)}>>, query.range, FALSE)
    /\ UNCHANGED <<qclock, events, rolled, offered, cacheVars, restarts>>

-----------------------------------------------------------------------------
(* The request event list                                                  *)

\* ORDER BY timestamp DESC, id DESC.
Above(i, j) == Ts(i) > Ts(j) \/ (Ts(i) = Ts(j) /\ i > j)

AfterCursorTime(i, cursor) ==
    cursor = 0 \/ Ts(i) < Ts(cursor)

AfterCursor(i, cursor) ==
    cursor = 0 \/ Ts(i) < Ts(cursor) \/ (Ts(i) = Ts(cursor) /\ i < cursor)

\* The rows of a set of events in that order.
Listed(ids) ==
    CHOOSE s \in [1..Cardinality(ids) -> ids] :
        /\ \A m, n \in DOMAIN s : m < n => Above(s[m], s[n])
        /\ ToSet(s) = ids

OpenList ==
    /\ query.pc = "idle"
    /\ query' = [pc |-> "paging", cursor |-> 0, seen |-> <<>>, known |-> Ids]
    /\ UNCHANGED <<qclock, events, rolled, offered, cacheVars, restarts>>

\* ListUsageEventsWithFilter with a cursor: one row more than the page tells
\* whether there is another page, whose cursor is the last row shown.
NextPage ==
    /\ query.pc = "paging"
    /\ LET rows  == Listed({i \in Ids : AfterCursor(i, query.cursor)})
           shown == IF Len(rows) > PageSize THEN SubSeq(rows, 1, PageSize) ELSE rows
       IN query' = [query EXCEPT
             !.pc = IF Len(rows) > PageSize THEN "paging" ELSE "listed",
             !.seen = @ \o shown,
             !.cursor = IF shown = <<>> THEN @ ELSE shown[Len(shown)]]
    /\ UNCHANGED <<qclock, events, rolled, offered, cacheVars, restarts>>

Finish ==
    /\ query.pc \in {"done", "listed"}
    /\ query' = Idle
    /\ UNCHANGED <<qclock, events, rolled, offered, cacheVars, restarts>>

Next == \/ Tick
        \/ \E shape \in QShape : Commit(shape.age, shape.cred)
        \/ TryAppend
        \/ Aggregate
        \/ WorkerAppends
        \/ Restart
        \/ \E kind \in Kinds : Begin(kind)
        \/ PlanOverview
        \/ ReadEdges
        \/ ReadStats
        \/ ReadCustom
        \/ ReadAnalysis
        \/ ReadRealtime
        \/ OpenList
        \/ NextPage
        \/ Finish

Spec == Init /\ [][Next]_quvars

-----------------------------------------------------------------------------
(* Properties                                                              *)

\* The answer counts no event twice, none outside its range (a range that
\* ends now may include events that arrived while it was answered), and
\* misses none that was committed, rolled up and cached before the request
\* began, wherever the edges of the range fall and whatever runs between the
\* reads: edges and rollups split the range without gap or overlap.  (A
\* range of one instant, "today" asked at midnight to the nanosecond, has no
\* edges at all and counts nothing.)
OverviewCountsOnce ==
    query.pc = "done" =>
        \A i \in DOMAIN query.counted :
            /\ query.counted[i] <= 1
            /\ query.counted[i] = 1 =>
                  In(Ts(i), query.range) \/ (query.open /\ Ts(i) >= query.range.start)
            /\ /\ i \in query.settled /\ In(Ts(i), query.range)
               /\ query.range.start < query.range.end
               => query.counted[i] = 1

\* An event whose batch the queue accepted and the worker appended is in the
\* cache for the whole of its window and in the health buckets for the whole
\* of theirs, counted once, across pruning of some credentials or all and
\* across a restart that reloads both from the database.
CacheHoldsItsWindow ==
    LET taken == {i \in 1..offered : i \notin dropped /\ i \notin ToSet(appendCh)}
    IN /\ \A i \in taken : Ts(i) >= qclock - Window => i \in cached
       /\ cached \subseteq taken
       /\ \A c \in Cred, b \in Bucket :
             b * HealthSpan >= HealthWindowStart(qclock) =>
                health[c][b] = Cardinality({i \in taken : events[i].cred = c
                                              /\ Ts(i) \div HealthSpan = b})

\* Paging by cursor shows every event that existed when the list was opened
\* exactly once, and no other event twice, while new events, some with old
\* timestamps, are committed between the pages.
PagesShowEachEventOnce ==
    query.pc \in {"paging", "listed"} =>
        /\ IsInjective(query.seen)
        /\ query.pc = "listed" => query.known \subseteq ToSet(query.seen)
=============================================================================
