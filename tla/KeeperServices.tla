-------------------------- MODULE KeeperServices --------------------------
(***************************************************************************)
(* The services around the usage pipeline, composed.  They run in one      *)
(* process and share neither state nor locks, so every interleaving of     *)
(* their steps is a shuffle of their own behaviours, and an invariant or   *)
(* step property of one holds of the whole exactly if it holds of the      *)
(* part.  `part` says whose behaviour is explored, so that TLC visits the  *)
(* union of the state spaces and not their product.                        *)
(***************************************************************************)
EXTENDS Integers, FiniteSets

\* The parts to explore, and the constants of each part (see its module).
CONSTANTS
    Services,
    HAuth, Raw, PendingLimit, MaxTime, MaxHeaders, MaxHEvents,
    Role, HistoryShape, Tolerance, QueueSize, MaxObserved, MaxInputs, MaxHFaults,
    Token, Legacy, Req, Ip, TTL, MaxClock, MaxRequests, MaxSFaults,
    Client, LoginWindow, PerSourceLimit, GlobalLimit, MaxSources, MaxLTime, MaxAttempts,
    Cred, Hour, Day, CacheWindow, RollHours, RollDays, DayThreshold, HealthSpan, HealthWindow,
    AppendQueue, PageSize, FirstClock, LastClock, QShape, MaxQEvents, MaxRestarts,
    RetryLimit, MaxPublished, MaxConnects,
    DayLen, BackupHour, Intervals, RetryDelay, RetryAttempts, RetentionDays,
    MaxBClock, MaxBFaults, MaxBCrashes,
    Model, Field, Value, PriceInput, RuleInput, ListPrice, Finite, MaxTokens, PWriter, PReader,
    MaxChanges, MaxPCrashes,
    UpgradeShape, MEvents, Page, Starts, Progress, Deleted, MaxMCrashes,
    RAuth, Grant, RReq, MaxRFaults

\* What the proofs about the parts need to know of their constants.
HeaderConstants == Raw # {} /\ \A raw \in Raw : raw.provider \in {"codex", "claude"}
HistoryConstants ==
    /\ Tolerance \in Nat
    /\ \A shape \in HistoryShape : shape.role \in Role /\ shape.reset \in Int /\ shape.pct \in Int
SessionConstants == TTL \in Nat /\ Legacy \subseteq Token
LimiterConstants ==
    /\ LoginWindow \in Nat \ {0} /\ PerSourceLimit \in Nat \ {0} /\ GlobalLimit \in Nat \ {0}
    /\ MaxSources \in Nat \ {0}
QueryConstants ==
    /\ Hour \in Nat \ {0, 1} /\ Day \in Nat \ {0} /\ Day % Hour = 0
    /\ CacheWindow \in Nat /\ RollHours \in Nat /\ RollDays \in Nat /\ DayThreshold \in Nat
    /\ HealthSpan \in Nat \ {0} /\ HealthWindow \in Nat
    /\ AppendQueue \in Nat /\ PageSize \in Nat \ {0}
    /\ FirstClock \in Nat /\ LastClock \in Nat
    /\ \A shape \in QShape : shape.age \in Int /\ shape.cred \in Cred
ErrorConstants == RetryLimit \in Nat
BackupConstants ==
    /\ DayLen \in Nat \ {0} /\ BackupHour \in 0..(DayLen - 1) /\ Intervals \subseteq Nat \ {0}
    /\ RetryDelay \in Nat /\ RetryAttempts \in Nat /\ RetentionDays \in Nat
PriceConstants ==
    /\ "free" \notin PWriter /\ IsFiniteSet(Field) /\ Finite \in Nat /\ MaxTokens \in Nat
    /\ PriceInput \subseteq [price : Int, mult : Int]
    /\ \A rs \in RuleInput : IsFiniteSet(rs) /\ rs \subseteq [field : Field, value : Value, mult : Int]
    /\ ListPrice \subseteq Nat \cup {-1}
\* Releases after the first one modelled have rows per auth index.  An auth
\* file ("f") and a provider are told apart by their names.
UpgradeConstants ==
    /\ MEvents \in Nat /\ Page \in Nat
    /\ Starts \subseteq 1..16 /\ Progress \subseteq 0..MEvents
    /\ Deleted \subseteq [{"input", "output", "cached", "read", "total"} -> Nat]
    /\ UpgradeShape \subseteq
          [kind : STRING, auth : {"oauth", "apikey", ""}, source : STRING, index : STRING,
           named : BOOLEAN, misses : SUBSET {"day", "hour"},
           input : Nat, output : Nat, reasoning : Nat, cached : Nat, read : Nat, create : Nat,
           total : Nat]
    \* The auth file "f" is told apart from the providers by its index.
    /\ \A e \in UpgradeShape :
          /\ e.auth = "oauth" => e.index = "f"
          /\ e.auth = "apikey" \/ e.source \in {"k1", "k2"} => e.index # "f"
ResetConstants == Grant \subseteq Nat \ {0}

ASSUME ServicesAssumption ==
    /\ HeaderConstants /\ HistoryConstants /\ SessionConstants /\ LimiterConstants
    /\ QueryConstants /\ ErrorConstants /\ BackupConstants /\ PriceConstants /\ UpgradeConstants
    /\ ResetConstants

VARIABLES part,
    hnow, itype, rec, pending, appender, wake, hworker, jobs, hclosing, hevents, headers,
    headerQueue, trustedQueue, headerWake, trustedWake, runner, current, stable, cycles,
    qclosing, inputs, qfaults,
    snow, mem, rows, pendAct, awriter, req, issued, requests, sfaults,
    lnow, sources, global, checking, log,
    qclock, events, rolled, offered, appendCh, dropped, cached, health, lastFullPrune,
    query, restarts,
    runner_e, retryIndex, wire, table, failures, refusal, cancelled, published, connects,
    bclock, interval, files, tmp, lastBackupAt, retryAttempts, pendingRetry, due, backupAt, bpc,
    attempts, lastSaved, forgotten, bfaults, bcrashes,
    prices, rules, catalog, pmutex, pwriter, resolver, commits, answered, changes, pcrashes,
    db, applied, backups, mstage, mpos, mtarget, mcrashes,
    rtype, left, open, cooling, resetInFlight, resets, calls, reply, ledger, rfaults

-----------------------------------------------------------------------------
(* Instances *)

Headers  == INSTANCE QuotaHeaders
History  == INSTANCE QuotaHistory WITH Shape <- HistoryShape
Auth     == INSTANCE Sessions
Limiter  == INSTANCE LoginLimiter WITH Window <- LoginWindow
Queries  == INSTANCE UsageQueries WITH Window <- CacheWindow
Errors   == INSTANCE ErrorEvents
Backups  == INSTANCE Backup
Prices   == INSTANCE Pricing
Upgrades == INSTANCE Migrations WITH Shape <- UpgradeShape
Resets   == INSTANCE QuotaReset

-----------------------------------------------------------------------------
hvars == <<hnow, itype, rec, pending, appender, wake, hworker, jobs, hclosing, hevents, headers>>
qvars == <<headerQueue, trustedQueue, headerWake, trustedWake, runner, current, stable, cycles,
           qclosing, inputs, qfaults>>
svars == <<snow, mem, rows, pendAct, awriter, req, issued, requests, sfaults>>
lvars == <<lnow, sources, global, checking, log>>
quvars == <<qclock, events, rolled, offered, appendCh, dropped, cached, health, lastFullPrune,
            query, restarts>>
ervars == <<runner_e, retryIndex, wire, table, failures, refusal, cancelled, published, connects>>
bvars == <<bclock, interval, files, tmp, lastBackupAt, retryAttempts, pendingRetry, due, backupAt, bpc,
           attempts, lastSaved, forgotten, bfaults, bcrashes>>
pvars == <<prices, rules, catalog, pmutex, pwriter, resolver, commits, answered, changes, pcrashes>>
mvars == <<db, applied, backups, mstage, mpos, mtarget, mcrashes>>
rvars == <<rtype, left, open, cooling, resetInFlight, resets, calls, reply, ledger, rfaults>>
vars == <<part, hvars, qvars, svars, lvars, quvars, ervars, bvars, pvars, mvars, rvars>>

Init == /\ part \in Services
        /\ Headers!Init /\ History!Init /\ Auth!Init /\ Limiter!Init
        /\ Queries!Init /\ Errors!Init /\ Backups!Init /\ Prices!Init /\ Resets!Init
        /\ IF part = "migrations" THEN Upgrades!Init ELSE Upgrades!NewInstallation
        \* One initial state of the parts that are not explored.
        /\ part = "headers" \/ itype = [a \in HAuth |-> CHOOSE p \in {r.provider : r \in Raw} : TRUE]
        /\ part = "backup" \/ \A i \in Intervals : interval <= i

Next ==
    /\ UNCHANGED part
    /\ \/ /\ part = "headers" /\ Headers!Next
          /\ UNCHANGED <<qvars, svars, lvars, quvars, ervars, bvars, pvars, mvars, rvars>>
       \/ /\ part = "history" /\ History!Next
          /\ UNCHANGED <<hvars, svars, lvars, quvars, ervars, bvars, pvars, mvars, rvars>>
       \/ /\ part = "sessions" /\ Auth!Next
          /\ UNCHANGED <<hvars, qvars, lvars, quvars, ervars, bvars, pvars, mvars, rvars>>
       \/ /\ part = "limiter" /\ Limiter!Next
          /\ UNCHANGED <<hvars, qvars, svars, quvars, ervars, bvars, pvars, mvars, rvars>>
       \/ /\ part = "queries" /\ Queries!Next
          /\ UNCHANGED <<hvars, qvars, svars, lvars, ervars, bvars, pvars, mvars, rvars>>
       \/ /\ part = "errors" /\ Errors!Next
          /\ UNCHANGED <<hvars, qvars, svars, lvars, quvars, bvars, pvars, mvars, rvars>>
       \/ /\ part = "backup" /\ Backups!Next
          /\ UNCHANGED <<hvars, qvars, svars, lvars, quvars, ervars, pvars, mvars, rvars>>
       \/ /\ part = "pricing" /\ Prices!Next
          /\ UNCHANGED <<hvars, qvars, svars, lvars, quvars, ervars, bvars, mvars, rvars>>
       \/ /\ part = "migrations" /\ Upgrades!Next
          /\ UNCHANGED <<hvars, qvars, svars, lvars, quvars, ervars, bvars, pvars, rvars>>
       \/ /\ part = "reset" /\ Resets!Next
          /\ UNCHANGED <<hvars, qvars, svars, lvars, quvars, ervars, bvars, pvars, mvars>>

Spec == Init /\ [][Next]_vars

-----------------------------------------------------------------------------
(* Properties; each is stated and explained in the module of its part. *)

\* Headers out of order never take the limit-reached flag or a Claude window
\* back (quota/header_cache_worker.go).
FlagAndWindowsNeverRollBack == Headers!FlagAndWindowsNeverRollBack

\* No old header is written over a newer completed record
\* (quota/header_cache_worker.go:861).
CompletedNeverRollsBack == Headers!CompletedNeverRollsBack

\* An accepted header snapshot will be flushed, also by a shutdown.
PendingHasAWaker == part = "headers" => Headers!PendingHasAWaker

\* The segments of a quota cycle descend and do not overlap
\* (quota/codex_quota_history_scheduler.go, repository/codex_quota_history.go).
SegmentsDescend == part = "history" => History!SegmentsDescend

\* What the history runner remembers of a window is never older than what the
\* database holds, so the repository refuses nothing the runner accepts as late
\* (quota/codex_quota_history_scheduler.go, repository/codex_quota_history.go).
MemoryIsNeverBehind == part = "history" => History!MemoryIsNeverBehind

\* A queued observation will be taken by the history runner.
QueuedHasAWaker == part = "history" => History!QueuedHasAWaker

\* A revoked session never comes back (auth/session.go).
RevokedStaysRevoked == Auth!RevokedStaysRevoked

\* Noted activity has a writer (auth/session.go).
ActivityHasAWriter == part = "sessions" => Auth!ActivityHasAWriter

\* At most two windows' worth of login attempts in any span of one window
\* (auth/login_limiter.go).
AttemptsAreBounded == part = "limiter" => Limiter!AttemptsAreBounded

\* An overview counts every settled event of its range once
\* (repository/usage.go).
OverviewCountsOnce == part = "queries" => Queries!OverviewCountsOnce

\* The caches hold what the worker took, for the whole of their windows.
CacheHoldsItsWindow == part = "queries" => Queries!CacheHoldsItsWindow

\* Paging shows each event once while others arrive.
PagesShowEachEventOnce == part = "queries" => Queries!PagesShowEachEventOnce

\* The error subscription ends only for one of its three reasons
\* (poller/redis_error_ingest_runner.go).
ErrorIngestEndsForAReason == part = "errors" => Errors!ErrorIngestEndsForAReason

\* Copies keep to the daily schedule, to their interval and, while they are
\* retried, to the retry delay, restarts included (app/backup_runner.go).
BackupAttemptsArePaced == part = "backup" => Backups!BackupAttemptsArePaced

\* The published prices are never older than an answered change
\* (service/pricing_mutation.go).
CatalogFollowsCommits == part = "pricing" => Prices!CatalogFollowsCommits

\* No published price makes a cost that is not finite (pricing/snapshot.go).
CostsAreFinite == part = "pricing" => Prices!CostsAreFinite

\* An interrupted upgrade neither doubles nor loses what the rollups count,
\* and what its destructive versions remove is backed up
\* (repository/migration).
UpgradeLosesNothing == part = "migrations" => Upgrades!UpgradeLosesNothing

\* A reset is spent once and accounted for (quota/reset.go).
ResetIsAccountedFor == part = "reset" => Resets!ResetIsAccountedFor
=============================================================================
