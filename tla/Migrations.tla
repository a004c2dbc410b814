---------------------------- MODULE Migrations ----------------------------
(***************************************************************************)
(* Opening the database (repository/db.go) and the schema migrations that  *)
(* change data (repository/migration).  A new database gets the current    *)
(* schema and all versions are marked; an existing one runs the versions   *)
(* it lacks, in order.  Most run in one transaction with their version     *)
(* mark; three replay the events in pages with a stored cursor, and one    *)
(* clears the overview before the mark, each commit on its own; two need a *)
(* backup first.  The process may die, or a statement fail and end the     *)
(* start, between any two commits.                                         *)
(*                                                                         *)
(* A rollup is the sum of each token column over the events it counted     *)
(* (one bucket); activity and latency count how often an event was added.  *)
(* Left out are the versions that change only the schema or columns no     *)
(* sum, cursor or row here depends on.                                     *)
(***************************************************************************)
EXTENDS Integers, Sequences, FiniteSets, FiniteSetsExt

CONSTANTS Shape,         \* kinds of events of the old versions
          MEvents,       \* how many events the database holds
          Page,          \* events in a page of a replay
          Starts,        \* positions in Ordered the old release stopped before
          Progress,      \* how many events a cursor of the old release may have passed
          Deleted,       \* sums of events the old release counted and deleted
          MaxMCrashes    \* bound: crashes and failed starts

VARIABLES db,        \* the tables
          applied,   \* table schema_migrations
          backups,   \* what the finished backup files hold
          mstage,    \* what the starting process does next
          mpos,      \* memory: the migration at hand, in Ordered
          mtarget,   \* memory: the last event a replay will read
          mcrashes

mvars == <<db, applied, backups, mstage, mpos, mtarget, mcrashes>>

Ids == 1..MEvents
Fields == {"input", "output", "cached", "read", "total"}

\* Versions that change the tables modelled here, in their order.
Ordered == <<"identityStats", "removePrefix", "authIndex", "rollupDimensions", "claudeTokens",
             "geminiTokens", "cacheRead", "activity", "alignShort", "fiveDimensions",
             "checkpoints", "latency", "rebuildHistory", "resetQuota", "limitSamples">>
Destructive == {"resetQuota", "limitSamples"}
Paged == {"activity", "fiveDimensions", "latency"}
ClearsFirst == {"rollupDimensions"}

Zero == [f \in Fields |-> 0]
Plus(s, t) == [f \in Fields |-> s[f] + t[f]]
Minus(s, t) == [f \in Fields |-> s[f] - t[f]]

\* The sum of a column over some of its events, and of all columns.
Total(column, ids) ==
    LET upTo[i \in 0..Len(column)] ==
          IF i = 0 THEN 0 ELSE upTo[i - 1] + IF i \in ids THEN column[i] ELSE 0
    IN  upTo[Len(column)]
SumOver(ids, ev) == [f \in Fields |-> Total([i \in DOMAIN ev |-> ev[i][f]], ids)]

Cursor(d, name) == IF name \in DOMAIN d.cur THEN d.cur[name] ELSE 0
WithCursor(cur, name, id) == [n \in DOMAIN cur \cup {name} |-> IF n = name THEN id ELSE cur[n]]
Greatest(ids) == IF ids = {} THEN 0 ELSE Max(ids)

-----------------------------------------------------------------------------
(* Identities: raw provider keys become rows per auth index *)

TypeOf(row) == IF row = "f" THEN "oauth" ELSE "apikey"

\* usageIdentityBackfillEventsQuery: an auth file by its index, a provider by
\* its raw key; an event without a type may be of either.
BySource(row, e) == e.auth \in {"", TypeOf(row)} /\ row = IF row = "f" THEN e.index ELSE e.source

\* The join of the later versions and of the aggregation.
ByIndex(row, e) == e.auth = TypeOf(row) /\ row = e.index

\* Rows are matched by the index once they have its name.
Mine(row, e, done) == IF "authIndex" \in done THEN ByIndex(row, e) ELSE BySource(row, e)

\* Totals and cursor of a row counted anew from all events it matches.
FullStats(ids, ev) == [sum |-> SumOver(ids, ev), last |-> Greatest(ids)]

IdentityStats(d) ==
    [d EXCEPT !.ident = [r \in DOMAIN d.ident |->
        FullStats({i \in DOMAIN d.ev : BySource(r, d.ev[i])}, d.ev)]]

\* Rows an early release made from the prefix of a provider.
Prefixes == {"gemini", "claude", "codex", "vertex", "openai"}

WithoutPrefixes(d) == [d EXCEPT !.ident = [r \in DOMAIN @ \ Prefixes |-> @[r]]]

RawKeys == <<"k2", "k1">>   \* newest row first

\* Indexes of the key's events under the name of the row.
AuthIndexes(key, ev) ==
    {ev[i].index : i \in {j \in DOMAIN ev :
        ev[j].source = key /\ ev[j].named /\ ev[j].auth \in {"", "apikey"}}}

\* A raw key seen with one auth index takes its name, or goes into the row
\* that has it already; any other raw key is deleted.
ToAuthIndex(rows, key, ev) ==
    LET rest == DOMAIN rows \ {key}
        found == AuthIndexes(key, ev)
    IN  IF key \notin DOMAIN rows THEN rows
        ELSE [r \in rest \cup (IF Cardinality(found) = 1 THEN found ELSE {}) |->
                 IF r \in found \/ r \notin rest THEN [sum |-> Zero, last |-> 0] ELSE rows[r]]

AuthIndexStats(rows, ev) ==
    [r \in DOMAIN rows |->
        IF r = "f" THEN rows[r]
        ELSE FullStats({i \in DOMAIN ev : ev[i].auth \in {"", "apikey"} /\ r = ev[i].index}, ev)]

AuthIndexIdentities(d) ==
    LET first == ToAuthIndex(d.ident, RawKeys[1], d.ev)
    IN  [d EXCEPT !.ident = AuthIndexStats(ToAuthIndex(first, RawKeys[2], d.ev), d.ev)]

-----------------------------------------------------------------------------
(* Token backfills: events are corrected, rollups by the difference *)

ClaudeTokens(e) ==
    LET cache == e.read + e.create
        input == IF e.total = 0 THEN e.input + cache
                 ELSE IF e.total > e.output + e.reasoning THEN e.total - e.output - e.reasoning
                 ELSE e.input
    IN  IF e.kind # "claude" \/ e.auth = "" \/ cache = 0 THEN e
        ELSE [e EXCEPT !.input = IF input > e.input THEN input ELSE e.input,
                       !.cached = e.read,
                       !.total = IF e.total = 0
                                 THEN e.input + cache + e.output + e.reasoning ELSE e.total]

GeminiTokens(e) ==
    IF /\ e.kind = "gemini" /\ e.reasoning > 0 /\ e.total > 0
       /\ e.input + e.output # e.total /\ e.input + e.output + e.reasoning = e.total
    THEN [e EXCEPT !.output = e.output + e.reasoning] ELSE e

OverviewDeltaOfAll(d, ids, new) == Minus(SumOver(ids, new), SumOver(ids, d.ev))

\* Only what an overview has counted is corrected there; the rest is counted
\* in its new form later.
OverviewDelta(d, ids, new) ==
    LET counted == {i \in ids : i <= Cursor(d, "overview")}
    IN  Minus(SumOver(counted, new), SumOver(counted, d.ev))

IdentityDelta(d, row, new) ==
    LET counted == {i \in DOMAIN d.ev : ByIndex(row, d.ev[i]) /\ i <= d.ident[row].last}
    IN  Minus(SumOver(counted, new), SumOver(counted, d.ev))

NotBelowZero(s) == [f \in Fields |-> IF f = "cached" /\ s[f] < 0 THEN 0 ELSE s[f]]

\* The buckets are cut out of the text of the timestamp, with the offset of
\* the event: on the day of a clock change that is not the offset of midnight,
\* and in a zone half an hour off the full hour of the text is not that of
\* the aggregation.  Such an event misses the bucket that counted it.
Reached(d, bucket) == {i \in DOMAIN d.ev : bucket \notin d.ev[i].misses}

Backfill(d, new) ==
    [d EXCEPT
        !.ev = new,
        !.hourly = NotBelowZero(Plus(@, OverviewDelta(d, Reached(d, "hour"), new))),
        !.daily = NotBelowZero(Plus(@, OverviewDelta(d, Reached(d, "day"), new))),
        !.ident = [r \in DOMAIN @ |->
            [sum |-> NotBelowZero(Plus(@[r].sum, IdentityDelta(d, r, new))), last |-> @[r].last]]]

BackfillClaude(d) == Backfill(d, [i \in DOMAIN d.ev |-> ClaudeTokens(d.ev[i])])
BackfillGemini(d) == Backfill(d, [i \in DOMAIN d.ev |-> GeminiTokens(d.ev[i])])

CacheReadTokens(e) == [e EXCEPT !.read = IF e.read > 0 THEN e.read ELSE e.cached]

\* The cached column is the base, so that deleted events keep their part, and
\* the events still there add what their canonical value differs by.
RepairedRead(s, ids, ev) ==
    LET read == s.cached + Total([i \in DOMAIN ev |-> CacheReadTokens(ev[i]).read - ev[i].cached], ids)
    IN  [f \in Fields |-> IF f # "read" THEN s[f] ELSE IF read < 0 THEN 0 ELSE read]

RepairedOverview(d) ==
    LET counted == {i \in DOMAIN d.ev : i <= Cursor(d, "overview")}
    IN  [d EXCEPT !.hourly = RepairedRead(@, counted, d.ev),
                  !.daily = RepairedRead(@, counted, d.ev)]

RepairedIdentities(d) ==
    [r \in DOMAIN d.ident |->
        [sum |-> RepairedRead(d.ident[r].sum,
                     {i \in DOMAIN d.ev : ByIndex(r, d.ev[i]) /\ i <= d.ident[r].last}, d.ev),
         last |-> d.ident[r].last]]

BackfillCacheRead(d) ==
    [RepairedOverview(d) EXCEPT
        !.ident = RepairedIdentities(d),
        !.ev = [i \in DOMAIN d.ev |-> CacheReadTokens(d.ev[i])],
        !.base = [@ EXCEPT !.read = d.base.cached]]

-----------------------------------------------------------------------------
(* Rollups *)

\* The checkpoint row goes with the rows it counted.
ClearedOverview(d) ==
    [d EXCEPT !.hourly = Zero, !.daily = Zero, !.base = Zero,
              !.cur = [n \in DOMAIN @ \ {"overview"} |-> @[n]]]

\* prepareUsageOverviewFiveDimensions
PreparedOverview(d) == [ClearedOverview(d) EXCEPT !.cur = WithCursor(@, "overview", 0)]

AlignedShort(d) ==
    [d EXCEPT !.short = [i \in DOMAIN @ |-> IF i <= Cursor(d, "activity") THEN 1 ELSE 0]]

\* The old cursors are copied to the common table; latency starts at zero.
MergedCheckpoints(d) ==
    [d EXCEPT !.cur = [n \in {"overview", "activity", "latency"} |->
                          IF n = "latency" THEN 0 ELSE Cursor(d, n)]]

CursorOf(v) == CASE v = "activity" -> "activity"
                 [] v = "fiveDimensions" -> "overview"
                 [] v = "latency" -> "latency"

PageOf(v, d) ==
    {i \in DOMAIN d.ev : /\ Cursor(d, CursorOf(v)) < i /\ i <= mtarget
                         /\ i <= Cursor(d, CursorOf(v)) + Page}

Added(counts, ids) == [i \in DOMAIN counts |-> counts[i] + IF i \in ids THEN 1 ELSE 0]

\* One page: the rows and the cursor in one transaction.
ActivityPage(d, ids) ==
    [d EXCEPT !.act = Added(@, ids), !.short = Added(@, ids),
              !.cur = WithCursor(@, "activity", Max(ids))]

OverviewPage(d, ids) ==
    [d EXCEPT !.hourly = Plus(@, SumOver(ids, d.ev)), !.daily = Plus(@, SumOver(ids, d.ev)),
              !.cur = WithCursor(@, "overview", Max(ids))]

LatencyPage(d, ids) ==
    [d EXCEPT !.lat = Added(@, ids), !.cur = WithCursor(@, "latency", Max(ids))]

AfterPage(v, d, ids) == CASE v = "activity" -> ActivityPage(d, ids)
                          [] v = "fiveDimensions" -> OverviewPage(d, ids)
                          [] v = "latency" -> LatencyPage(d, ids)

\* The Codex tables are dropped and empty ones for all providers made.
RebuiltHistory(d) == [d EXCEPT !.history = "none"]
ResetQuota(d) == [d EXCEPT !.history = "none"]
LimitSamples(d) == [d EXCEPT !.samples = "limited"]

\* What a version that runs in one transaction does.
Effect(v, d) == CASE v = "identityStats" -> IdentityStats(d)
                  [] v = "removePrefix" -> WithoutPrefixes(d)
                  [] v = "authIndex" -> AuthIndexIdentities(d)
                  [] v = "claudeTokens" -> BackfillClaude(d)
                  [] v = "geminiTokens" -> BackfillGemini(d)
                  [] v = "cacheRead" -> BackfillCacheRead(d)
                  [] v = "alignShort" -> AlignedShort(d)
                  [] v = "checkpoints" -> MergedCheckpoints(d)
                  [] v = "rebuildHistory" -> RebuiltHistory(d)
                  [] v = "resetQuota" -> ResetQuota(d)
                  [] v = "limitSamples" -> LimitSamples(d)

-----------------------------------------------------------------------------
(* The databases an old release left *)

Before(p) == {Ordered[k] : k \in 1..(p - 1)}

\* Events as the token backfills before position p left them.
Corrected(e, p) ==
    LET claude == IF "claudeTokens" \in Before(p) THEN ClaudeTokens(e) ELSE e
        gemini == IF "geminiTokens" \in Before(p) THEN GeminiTokens(claude) ELSE claude
    IN  IF "cacheRead" \in Before(p) THEN CacheReadTokens(gemini) ELSE gemini

OldRows(p) == IF "authIndex" \in Before(p) THEN {"f", "x", "y"}
              ELSE {"f", "k1", "k2"} \cup IF "removePrefix" \in Before(p) THEN {} ELSE {"codex"}

\* The quota history is as old as the latency statistics; first for Codex only.
OldHistories(p) == IF "latency" \notin Before(p) THEN {"none"}
                   ELSE IF "rebuildHistory" \notin Before(p) THEN {"none", "codex"}
                   ELSE {"none", "generic"}

OldSamples(p) ==
    IF "latency" \in Before(p) /\ "limitSamples" \notin Before(p) THEN "long" ELSE "limited"

\* o, n, a, t: the overview, identity, activity and latency cursors; h: the
\* quota history.  `had` remembers what the first start found.
OldDatabase(p, shapes, base, o, n, a, t, h) ==
    LET ev == [i \in Ids |-> Corrected(shapes[i], p)]
        sum == Plus(base, SumOver(1..o, ev))
        counted(c) == [i \in Ids |-> IF i <= c THEN 1 ELSE 0]
        cursors == {"overview"} \cup (IF "activity" \in Before(p) THEN {"activity"} ELSE {})
                       \cup (IF "latency" \in Before(p) THEN {"latency"} ELSE {})
    IN  [ev |-> ev, base |-> base, hourly |-> sum, daily |-> sum,
         ident |-> [r \in OldRows(p) |->
             [sum |-> SumOver({i \in 1..n : Mine(r, ev[i], Before(p))}, ev), last |-> n]],
         act |-> counted(a), short |-> counted(a), lat |-> counted(t),
         cur |-> [c \in cursors |->
                     IF c = "overview" THEN o ELSE IF c = "activity" THEN a ELSE t],
         had |-> [history |-> h, samples |-> OldSamples(p)],
         history |-> h, samples |-> OldSamples(p), tables |-> TRUE]

NewDatabase ==
    [ev |-> <<>>, base |-> Zero, hourly |-> Zero, daily |-> Zero, ident |-> <<>>,
     act |-> <<>>, short |-> <<>>, lat |-> <<>>, cur |-> <<>>,
     had |-> [history |-> "none", samples |-> "limited"], history |-> "none",
     samples |-> "limited", tables |-> FALSE]

FirstStart == backups = {} /\ mstage = "down" /\ mpos = 1 /\ mtarget = 0 /\ mcrashes = 0

NewInstallation == db = NewDatabase /\ applied = {} /\ FirstStart

\* The identities' statistics, the overview (whose tables are younger than
\* the auth indexes), the activity and the latency begin with their versions.
Upgrade ==
    /\ \E p \in Starts, shapes \in [Ids -> Shape], base \in Deleted, o, n, a, t \in Progress :
          /\ "identityStats" \notin Before(p) => n = 0
          /\ "authIndex" \notin Before(p) => o = 0 /\ base = Zero
          /\ "activity" \notin Before(p) => a = 0
          /\ "latency" \notin Before(p) => t = 0
          /\ \E h \in OldHistories(p) : db = OldDatabase(p, shapes, base, o, n, a, t, h)
          /\ applied = Before(p)
    /\ FirstStart

Init == NewInstallation \/ Upgrade

-----------------------------------------------------------------------------
(* Opening *)

\* A file without tables is a new database.
OpenDatabase ==
    /\ mstage = "down"
    /\ mstage' = IF db.tables THEN "next" ELSE "create"
    /\ mpos' = 1
    /\ UNCHANGED <<db, applied, backups, mtarget, mcrashes>>

AutoMigrate ==
    /\ mstage = "create"
    /\ db' = [db EXCEPT !.tables = TRUE]
    /\ mstage' = "mark"
    /\ UNCHANGED <<applied, backups, mpos, mtarget, mcrashes>>

MarkAllAsApplied ==
    /\ mstage = "mark"
    /\ applied' = Before(Len(Ordered) + 1)
    /\ mstage' = "open"
    /\ UNCHANGED <<db, backups, mpos, mtarget, mcrashes>>

Version == Ordered[mpos]

Advance == /\ mpos' = IF mpos = Len(Ordered) THEN 1 ELSE mpos + 1
           /\ mstage' = IF mpos = Len(Ordered) THEN "open" ELSE "next"

SkipApplied ==
    /\ mstage = "next" /\ Version \in applied
    /\ Advance
    /\ UNCHANGED <<db, applied, backups, mtarget, mcrashes>>

BackUp ==
    /\ mstage = "next" /\ Version \notin applied /\ Version \in Destructive
    /\ backups' = backups \cup {[history |-> db.history, samples |-> db.samples]}
    /\ mstage' = "run"
    /\ UNCHANGED <<db, applied, mpos, mtarget, mcrashes>>

\* The effect and the version mark in one transaction.
RunInTransaction ==
    /\ Version \notin applied /\ Version \notin Paged \cup ClearsFirst
    /\ mstage = IF Version \in Destructive THEN "run" ELSE "next"
    /\ db' = Effect(Version, db)
    /\ applied' = applied \cup {Version}
    /\ Advance
    /\ UNCHANGED <<backups, mtarget, mcrashes>>

\* The tables are cleared, then VACUUM, then the mark.
ClearOverview ==
    /\ mstage = "next" /\ Version \notin applied /\ Version \in ClearsFirst
    /\ db' = ClearedOverview(db)
    /\ mstage' = "record"
    /\ UNCHANGED <<applied, backups, mpos, mtarget, mcrashes>>

\* A replay fixes its target; the five-dimension one starts from zero.
BeginReplay ==
    /\ mstage = "next" /\ Version \notin applied /\ Version \in Paged
    /\ mtarget' = Greatest(DOMAIN db.ev)
    /\ db' = IF Version = "fiveDimensions" THEN PreparedOverview(db) ELSE db
    /\ mstage' = "page"
    /\ UNCHANGED <<applied, backups, mpos, mcrashes>>

ReplayPage ==
    /\ mstage = "page" /\ PageOf(Version, db) # {}
    /\ db' = AfterPage(Version, db, PageOf(Version, db))
    /\ UNCHANGED <<applied, backups, mstage, mpos, mtarget, mcrashes>>

\* The loop ends on an empty page; a cursor short of the target ends the start.
VerifyTarget ==
    /\ mstage = "page" /\ PageOf(Version, db) = {}
    /\ Cursor(db, CursorOf(Version)) >= mtarget
    /\ mstage' = "record"
    /\ UNCHANGED <<db, applied, backups, mpos, mtarget, mcrashes>>

RecordVersion ==
    /\ mstage = "record"
    /\ applied' = applied \cup {Version}
    /\ Advance
    /\ UNCHANGED <<db, backups, mtarget, mcrashes>>

\* The process dies, or an error ends the start and it is started again.
Crash ==
    /\ mstage \notin {"down", "open"} /\ mcrashes < MaxMCrashes
    /\ mstage' = "down" /\ mpos' = 1 /\ mtarget' = 0 /\ mcrashes' = mcrashes + 1
    /\ UNCHANGED <<db, applied, backups>>

Next == \/ OpenDatabase \/ AutoMigrate \/ MarkAllAsApplied \/ SkipApplied \/ BackUp
        \/ RunInTransaction \/ ClearOverview \/ BeginReplay \/ ReplayPage \/ VerifyTarget
        \/ RecordVersion \/ Crash

Spec == Init /\ [][Next]_mvars

-----------------------------------------------------------------------------
(* Properties *)

\* The cache-read column means nothing before its backfill.
Agree(s, t) == \A f \in Fields : (f = "read" /\ "cacheRead" \notin applied) \/ s[f] = t[f]

OverviewIsExact ==
    LET counted == {i \in DOMAIN db.ev : i <= Cursor(db, "overview")}
        expected == Plus(db.base, SumOver(counted, db.ev))
    IN  /\ Reached(db, "hour") = DOMAIN db.ev => Agree(db.hourly, expected)
        /\ Reached(db, "day") = DOMAIN db.ev => Agree(db.daily, expected)

\* No event of the index lacks its type.
Typed(row, ev) == \A i \in DOMAIN ev : ev[i].index = row => ev[i].auth # ""

IdentitiesAreExact ==
    \A r \in DOMAIN db.ident : ("authIndex" \in applied => Typed(r, db.ev)) =>
        LET counted == {i \in DOMAIN db.ev : Mine(r, db.ev[i], applied) /\ i <= db.ident[r].last}
        IN  Agree(db.ident[r].sum, SumOver(counted, db.ev))

ReplaysCountOnce ==
    \A i \in DOMAIN db.ev :
        /\ db.act[i] = IF i <= Cursor(db, "activity") THEN 1 ELSE 0
        /\ db.short[i] = db.act[i]
        /\ db.lat[i] = IF i <= Cursor(db, "latency") THEN 1 ELSE 0

\* Quota history and long samples that were there and are gone.  The Codex
\* history of the first tables is dropped on purpose and without a backup, but
\* never before its version is done.
RemovedIsBackedUp ==
    /\ db.had.history = "generic" /\ db.history # "generic" =>
          \E b \in backups : b.history = "generic"
    /\ db.had.samples = "long" /\ db.samples # "long" => \E b \in backups : b.samples = "long"
    /\ db.had.history = "codex" /\ db.history # "codex" => "rebuildHistory" \in applied

\* Through every upgrade, from any earlier release and however often it is
\* interrupted, each rollup is the sum of the events below its cursor in
\* their present form (plus what was counted of deleted events until the
\* overview is rebuilt), so that the aggregation that goes on from the
\* cursor counts nothing twice and nothing in its old form; and the general
\* quota history and the long samples, when a migration removes them, are in
\* a finished backup.  Excepted, because the token backfills miss them: an
\* overview with an event whose text is not its bucket's, and, from the auth
\* indexes on, the row of an index with an event without a type.
UpgradeLosesNothing ==
    OverviewIsExact /\ IdentitiesAreExact /\ ReplaysCountOnce /\ RemovedIsBackedUp
=============================================================================
