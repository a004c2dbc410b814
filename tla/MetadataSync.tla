---------------------------- MODULE MetadataSync ----------------------------
(***************************************************************************)
(* Keeping the local copy of CPA's credentials current: internal/app's     *)
(* MetadataSyncRunner, internal/service's SyncMetadata, and the requests   *)
(* that change a credential at CPA and then in the local table             *)
(* (credential_status, credential_priority, auth_files_management) with    *)
(* the coordinator and the locks they share.                               *)
(*                                                                         *)
(* Every change of a credential at CPA gets the next number, its `gen'; a  *)
(* cell [gen, alive] stands for all fields of the credential.  local is    *)
(* what usage_identities shows of it.                                      *)
(***************************************************************************)
EXTENDS Naturals, FiniteSets

CONSTANTS
    AuthFiles,     \* credentials CPA lists as auth files
    Providers,     \* credentials CPA lists as provider keys
    Requests,      \* HTTP requests that change credentials
    MaxGen,        \* bound on changes at CPA
    MaxFaults      \* bound on failed calls, link losses and crashes

Creds == AuthFiles \cup Providers

ASSUME MetadataAssumption ==
    /\ AuthFiles \cap Providers = {}
    /\ MaxGen \in Nat /\ MaxFaults \in Nat

VARIABLES
    \* CPA and the link to it
    remote,       \* credential -> cell
    gen,          \* number of the newest change
    foreign,      \* history: changes made by others than the keeper
    cpaNotifies,  \* this CPA announces changes
    announce,     \* an announcement is on its way
    linkUp,       \* the ingest runner is connected
    \* the database
    local,        \* credential -> cell
    \* the requests and what they share
    version,      \* CredentialMetadataCoordinator.version
    req,          \* request -> [kind, item: credential -> state, val: credential -> gen]
    \* MetadataSyncRunner
    connected, refreshQ,   \* its two channels, each with room for one signal
    activated, mode,       \* mode: notificationMode
    recent,                \* lastRefreshRequestedAt lies within the debounce window
    debounce,              \* the debounce timer exists
    \* SyncMetadata
    pc, snapVersion, snap,
    fetchErrs,             \* what could not be fetched
    errs,                  \* errors of this sync; all but "warning" suppress the notification
    failed,                \* the last sync that ended returned an error
    untold,                \* identity rows changed by syncs since the last notification
    faults                 \* history: faults so far

cpa     == <<remote, gen, foreign, cpaNotifies, announce>>
runner  == <<connected, refreshQ, activated, mode, recent, debounce>>
sync    == <<pc, snapVersion, snap, fetchErrs, errs, failed, untold>>
vars    == <<remote, gen, foreign, cpaNotifies, announce, linkUp, local, version, req,
             connected, refreshQ, activated, mode, recent, debounce,
             pc, snapVersion, snap, fetchErrs, errs, failed, untold, faults>>

Cells == [gen : 0..MaxGen, alive : BOOLEAN]
Idle == [kind |-> "idle", item |-> [c \in Creds |-> "none"], val |-> [c \in Creds |-> 0]]
Fault == faults < MaxFaults /\ faults' = faults + 1

\* Whatever changes at CPA is announced if this CPA does so and is connected.
Change(S, alive) ==
    /\ gen < MaxGen
    /\ gen' = gen + 1
    /\ remote' = [c \in Creds |-> IF c \in S THEN [gen |-> gen + 1, alive |-> alive] ELSE remote[c]]
    /\ announce' = (announce \/ (cpaNotifies /\ linkUp))
    /\ UNCHANGED cpaNotifies
-----------------------------------------------------------------------------
NoSnap == [c \in Creds |-> [gen |-> 0, alive |-> TRUE]]

\* No sync is under way any more.
SyncOver ==
    /\ pc' = "select" /\ snapVersion' = 0 /\ snap' = NoSnap
    /\ fetchErrs' = {} /\ errs' = {}

Init ==
    /\ remote = [c \in Creds |-> [gen |-> 0, alive |-> TRUE]]
    /\ gen = 0 /\ foreign = {}
    /\ cpaNotifies \in BOOLEAN /\ announce = FALSE /\ linkUp = FALSE
    /\ local = remote
    /\ version = 0 /\ req = [r \in Requests |-> Idle]
    /\ connected = FALSE /\ refreshQ = FALSE /\ activated = FALSE /\ mode = FALSE
    /\ recent = FALSE /\ debounce = FALSE
    /\ pc = "select" /\ snapVersion = 0 /\ snap = NoSnap /\ fetchErrs = {} /\ errs = {}
    /\ failed = FALSE /\ untold = FALSE
    /\ faults = 0
-----------------------------------------------------------------------------
(***************************************************************************)
(* CPA, the ingest runner and the process.                                 *)
(***************************************************************************)

\* Somebody changes, removes or restores a credential at CPA itself.
ForeignChange ==
    /\ \E c \in Creds, alive \in BOOLEAN : Change({c}, alive)
    /\ foreign' = foreign \cup {gen + 1}
    /\ UNCHANGED <<linkUp, local, version, req, runner, sync, faults>>

\* NotifyIngestConnected
Connect ==
    /\ ~linkUp
    /\ linkUp' = TRUE
    /\ connected' = TRUE
    /\ UNCHANGED <<cpa, local, version, req, refreshQ, activated, mode, recent, debounce, sync,
                   faults>>

\* MarkRefreshPollingRequired: the link is lost, with what was on its way.
Disconnect ==
    /\ linkUp /\ Fault
    /\ linkUp' = FALSE
    /\ announce' = FALSE
    /\ mode' = FALSE
    /\ UNCHANGED <<remote, gen, foreign, cpaNotifies, local, version, req, connected, refreshQ,
                   activated, recent, debounce, sync>>

\* MarkRefreshSupported
SupportArrives ==
    /\ linkUp /\ cpaNotifies /\ ~mode
    /\ mode' = TRUE
    /\ UNCHANGED <<cpa, linkUp, local, version, req, connected, refreshQ, activated, recent,
                   debounce, sync, faults>>

\* recordRefreshRequest and the send: nothing is queued before the first
\* connection has been consumed.
QueueRefresh ==
    /\ refreshQ' = (refreshQ \/ activated)
    /\ recent' = (recent \/ activated)

\* RequestMetadataRefresh
RefreshArrives ==
    /\ linkUp /\ announce
    /\ announce' = FALSE
    /\ mode' = TRUE
    /\ QueueRefresh
    /\ UNCHANGED <<remote, gen, foreign, cpaNotifies, linkUp, local, version, req, connected,
                   activated, debounce, sync, faults>>

\* The process dies and is started again: only the database is left.
Crash ==
    /\ Fault
    /\ linkUp' = FALSE /\ announce' = FALSE
    /\ version' = 0 /\ req' = [r \in Requests |-> Idle]
    /\ connected' = FALSE /\ refreshQ' = FALSE /\ activated' = FALSE /\ mode' = FALSE
    /\ recent' = FALSE /\ debounce' = FALSE
    /\ SyncOver /\ failed' = FALSE /\ untold' = FALSE
    /\ UNCHANGED <<remote, gen, foreign, cpaNotifies, local>>
-----------------------------------------------------------------------------
(***************************************************************************)
(* Requests.  An item of a request is "queued" until it has the lock of    *)
(* its credential, "locked", "written" at CPA, "completed" (single         *)
(* requests, which ask for a refresh under the lock), and then "done" or   *)
(* "failed".  The files a delete has removed are "deleted" until it        *)
(* completes; it takes no locks.                                           *)
(***************************************************************************)
Holding == {"locked", "written", "completed"}

\* SetAuthFileDisabled, SetAIProviderDisabled, SetAuthFilePriority: the
\* credential is looked up in the local table.
StartSingle(r) ==
    /\ req[r] = Idle /\ gen < MaxGen
    /\ \E c \in Creds :
         /\ local[c].alive
         /\ req' = [req EXCEPT ![r] = [Idle EXCEPT !.kind = "single", !.item[c] = "queued"]]
    /\ UNCHANGED <<cpa, linkUp, local, version, runner, sync, faults>>

\* SetAuthFilesDisabled: one goroutine per name.
StartBulk(r) ==
    /\ req[r] = Idle /\ gen < MaxGen
    /\ \E S \in SUBSET AuthFiles \ {{}} :
         req' = [req EXCEPT ![r].kind = "bulk",
                            ![r].item = [c \in Creds |-> IF c \in S THEN "queued" ELSE "none"]]
    /\ UNCHANGED <<cpa, linkUp, local, version, runner, sync, faults>>

\* Mutant: every request has a lock of its own.
LockFreeForAll(c) == TRUE

LockFree(c) == \A q \in Requests : req[q].item[c] \notin Holding

AcquireLock(r, c) ==
    /\ req[r].item[c] = "queued" /\ LockFree(c)
    /\ req' = [req EXCEPT ![r].item[c] = "locked"]
    /\ UNCHANGED <<cpa, linkUp, local, version, runner, sync, faults>>

RemoteWrite(r, c) ==
    /\ req[r].item[c] = "locked" /\ remote[c].alive
    /\ Change({c}, TRUE)
    /\ req' = [req EXCEPT ![r].item[c] = "written", ![r].val[c] = gen + 1]
    /\ UNCHANGED <<foreign, linkUp, local, version, runner, sync, faults>>

\* CPA refuses, the answer is lost after the change was made, or the caller
\* of a bulk request goes away before an item got its turn.
RemoteWriteFails(r, c) ==
    /\ \/ /\ req[r].item[c] = "locked" /\ ~remote[c].alive
          /\ UNCHANGED <<cpa, faults>>
       \/ /\ req[r].item[c] = "locked" /\ Fault
          /\ \/ remote[c].alive /\ Change({c}, TRUE) /\ UNCHANGED foreign
             \/ UNCHANGED cpa
       \/ /\ req[r].item[c] = "queued" /\ req[r].kind = "bulk" /\ Fault
          /\ UNCHANGED cpa
    /\ req' = [req EXCEPT ![r].item[c] = "failed"]
    /\ UNCHANGED <<linkUp, local, version, runner, sync>>

\* completeMutation advances the version whether or not the local write succeeds.
NextVersion == version + 1

\* completeMutation with the UPDATE of a row that is still active.
CompleteSingle(r, c) ==
    /\ req[r].kind = "single" /\ req[r].item[c] = "written"
    /\ version' = NextVersion
    /\ \/ /\ local' = IF local[c].alive
                        THEN [local EXCEPT ![c].gen = req[r].val[c]] ELSE local
          /\ UNCHANGED faults
       \/ Fault /\ UNCHANGED local
    /\ req' = [req EXCEPT ![r].item[c] = "completed"]
    /\ UNCHANGED <<cpa, linkUp, runner, sync>>

\* Mutant: nobody asks for a sync.
RefreshForgotten == UNCHANGED <<refreshQ, recent>>

\* RequestLocalMetadataRefresh leaves the notification mode alone.
RequestLocalMetadataRefresh == QueueRefresh

\* The deferred refresh, then the deferred unlock.
FinishSingle(r, c) ==
    /\ req[r].item[c] = "completed"
    /\ RequestLocalMetadataRefresh
    /\ req' = [req EXCEPT ![r].item[c] = "done"]
    /\ UNCHANGED <<cpa, linkUp, local, version, connected, activated, mode, debounce, sync, faults>>

\* A bulk item only invalidates snapshots; the local row is left to a sync.
CompleteBulkItem(r, c) ==
    /\ req[r].kind = "bulk" /\ req[r].item[c] = "written"
    /\ version' = NextVersion
    /\ req' = [req EXCEPT ![r].item[c] = "done"]
    /\ UNCHANGED <<cpa, linkUp, local, runner, sync, faults>>

\* The request returns; a bulk request asks for one refresh if any item succeeded.
Return(r) ==
    /\ req[r] # Idle
    /\ \A c \in Creds : req[r].item[c] \in {"none", "done", "failed"}
    /\ IF req[r].kind = "bulk" /\ \E c \in Creds : req[r].item[c] = "done"
         THEN RequestLocalMetadataRefresh
         ELSE UNCHANGED <<refreshQ, recent>>
    /\ req' = [req EXCEPT ![r] = Idle]
    /\ UNCHANGED <<cpa, linkUp, local, version, connected, activated, mode, debounce, sync, faults>>

\* DeleteAuthFiles: one call to CPA, no lock, some or all of the files go;
\* without an answer the request ends there.
DeleteAuthFiles(r) ==
    /\ req[r] = Idle
    /\ \E S \in SUBSET {c \in AuthFiles : remote[c].alive} \ {{}} :
         /\ Change(S, FALSE)
         /\ \/ /\ req' = [req EXCEPT ![r].kind = "delete",
                                  ![r].item = [c \in Creds |-> IF c \in S THEN "deleted" ELSE "none"]]
               /\ UNCHANGED faults
            \/ Fault /\ UNCHANGED req
    /\ UNCHANGED <<foreign, linkUp, local, version, runner, sync>>

CompleteDelete(r) ==
    /\ req[r].kind = "delete"
    /\ version' = NextVersion
    /\ RequestLocalMetadataRefresh
    /\ req' = [req EXCEPT ![r] = Idle]
    /\ UNCHANGED <<cpa, linkUp, local, connected, activated, mode, debounce, sync, faults>>

\* What a request does once it has started.
Work(r) ==
    \/ \E c \in Creds :
         \/ AcquireLock(r, c) \/ RemoteWrite(r, c) \/ RemoteWriteFails(r, c)
         \/ CompleteSingle(r, c) \/ FinishSingle(r, c) \/ CompleteBulkItem(r, c)
    \/ Return(r) \/ CompleteDelete(r)
-----------------------------------------------------------------------------
(***************************************************************************)
(* MetadataSyncRunner.Run.                                                 *)
(***************************************************************************)
TakeConnected ==
    /\ pc = "select" /\ connected
    /\ connected' = FALSE
    /\ activated' = TRUE
    /\ pc' = "version"
    /\ UNCHANGED <<cpa, linkUp, local, version, req, refreshQ, mode, recent, debounce,
                   snapVersion, snap, fetchErrs, errs, failed, untold, faults>>

\* The periodic timer; in notification mode, and before the first connection,
\* its tick does nothing.
PeriodicTick ==
    /\ pc = "select" /\ activated /\ ~mode
    /\ pc' = "version"
    /\ UNCHANGED <<cpa, linkUp, local, version, req, runner,
                   snapVersion, snap, fetchErrs, errs, failed, untold, faults>>

TakeRefresh ==
    /\ pc = "select" /\ refreshQ
    /\ refreshQ' = FALSE
    /\ debounce' = TRUE
    /\ UNCHANGED <<cpa, linkUp, local, version, req, connected, activated, mode, recent, sync,
                   faults>>

DebounceWindowPasses ==
    /\ recent
    /\ recent' = FALSE
    /\ UNCHANGED <<cpa, linkUp, local, version, req, connected, refreshQ, activated, mode,
                   debounce, sync, faults>>

\* The debounce timer: signals that came meanwhile are merged; if the last of
\* them is too young the timer is set again.
DebounceFires ==
    /\ pc = "select" /\ debounce
    /\ refreshQ' = FALSE
    /\ IF recent
         THEN UNCHANGED <<debounce, pc>>
         ELSE debounce' = FALSE /\ pc' = "version"
    /\ UNCHANGED <<cpa, linkUp, local, version, req, connected, activated, mode, recent,
                   snapVersion, snap, fetchErrs, errs, failed, untold, faults>>
-----------------------------------------------------------------------------
(***************************************************************************)
(* SyncMetadata.                                                           *)
(***************************************************************************)
TakeSnapshotVersion ==
    /\ pc = "version"
    /\ snapVersion' = version
    /\ fetchErrs' = {} /\ errs' = {} /\ failed' = FALSE
    /\ pc' = "fetchAuth"
    /\ UNCHANGED <<cpa, linkUp, local, version, req, runner, snap, untold, faults>>

Fetch(S, name, next) ==
    /\ \/ /\ snap' = [c \in Creds |-> IF c \in S THEN remote[c] ELSE snap[c]]
          /\ UNCHANGED <<fetchErrs, faults>>
       \/ /\ Fault
          /\ fetchErrs' = fetchErrs \cup {name}
          /\ UNCHANGED snap
    /\ pc' = next
    /\ UNCHANGED <<cpa, linkUp, local, version, req, runner, snapVersion, errs, failed, untold>>

FetchAuthFiles == pc = "fetchAuth" /\ Fetch(AuthFiles, "auth", "fetchProviders")
FetchProviders == pc = "fetchProviders" /\ Fetch(Providers, "providers", "persistAuth")

\* Mutant: the version is not compared.
AnySnapshot == TRUE

\* persistSnapshot: a snapshot older than a completed request is not stored.
SnapshotIsFresh == version = snapVersion

Store(S) ==
    /\ local' = [c \in Creds |-> IF c \in S THEN snap[c] ELSE local[c]]
    /\ untold' = (untold \/ local' # local)

PersistAuthFiles ==
    /\ pc = "persistAuth"
    /\ \/ /\ SnapshotIsFresh /\ "auth" \notin fetchErrs
          /\ \/ Store(AuthFiles) /\ UNCHANGED <<errs, faults>>
             \/ Fault /\ errs' = errs \cup {"auth"} /\ UNCHANGED <<local, untold>>
       \/ /\ ~(SnapshotIsFresh /\ "auth" \notin fetchErrs)
          /\ errs' = errs \cup (fetchErrs \cap {"auth"})
          /\ UNCHANGED <<local, untold, faults>>
    /\ pc' = "persistKeys"
    /\ UNCHANGED <<cpa, linkUp, version, req, runner, snapVersion, snap, fetchErrs, failed>>

\* syncManagementAPIKeys: fetched and stored apart from the credentials.
PersistAPIKeys ==
    /\ pc = "persistKeys"
    /\ \/ UNCHANGED <<errs, faults>>
       \/ Fault /\ errs' = errs \cup {"keys"}
    /\ pc' = "persistProviders"
    /\ UNCHANGED <<cpa, linkUp, local, version, req, runner, snapVersion, snap, fetchErrs,
                   failed, untold>>

\* Provider types that could not be fetched are left alone, with a warning.
PersistProviders ==
    /\ pc = "persistProviders"
    /\ \/ /\ SnapshotIsFresh /\ "providers" \notin fetchErrs
          /\ Store(Providers)
          /\ UNCHANGED <<errs, faults>>
       \/ /\ SnapshotIsFresh
          /\ Fault /\ errs' = errs \cup {"providers"}
          /\ UNCHANGED <<local, untold>>
       \/ /\ ~(SnapshotIsFresh /\ "providers" \notin fetchErrs)
          /\ errs' = IF "providers" \in fetchErrs THEN errs \cup {"warning"} ELSE errs
          /\ UNCHANGED <<local, untold, faults>>
    /\ pc' = "finish"
    /\ UNCHANGED <<cpa, linkUp, version, req, runner, snapVersion, snap, fetchErrs, failed>>

\* NotifyUsageIdentitiesChanged needs all three writes, not all fetches.
NotifyIdentities == errs \subseteq {"warning"}

FinishSync ==
    /\ pc = "finish"
    /\ untold' = (untold /\ ~NotifyIdentities)
    /\ failed' = (errs # {})
    /\ SyncOver
    /\ UNCHANGED <<cpa, linkUp, local, version, req, runner, faults>>

SyncStep ==
    \/ TakeSnapshotVersion \/ FetchAuthFiles \/ FetchProviders
    \/ PersistAuthFiles \/ PersistAPIKeys \/ PersistProviders \/ FinishSync

Runner == TakeConnected \/ PeriodicTick \/ TakeRefresh \/ DebounceFires \/ SyncStep

Next ==
    \/ ForeignChange \/ Connect \/ Disconnect \/ SupportArrives \/ RefreshArrives \/ Crash
    \/ \E r \in Requests : StartSingle(r) \/ StartBulk(r) \/ DeleteAuthFiles(r) \/ Work(r)
    \/ Runner \/ DebounceWindowPasses

\* The runner's goroutine and its timers run, started requests go on, the
\* ingest runner reconnects, and an announcement arrives unless the link breaks.
Fairness ==
    /\ WF_vars(Runner) /\ WF_vars(DebounceWindowPasses)
    /\ \A r \in Requests : WF_vars(Work(r))
    /\ WF_vars(Connect) /\ WF_vars(RefreshArrives)

Spec == Init /\ [][Next]_vars /\ Fairness
-----------------------------------------------------------------------------
RequestStates ==
    [kind : {"idle", "single", "bulk", "delete"},
     item : [Creds -> {"none", "queued", "done", "failed", "deleted"} \cup Holding],
     val  : [Creds -> 0..MaxGen]]

DataTypes ==
    /\ remote \in [Creds -> Cells] /\ local \in [Creds -> Cells] /\ snap \in [Creds -> Cells]
    /\ gen \in 0..MaxGen /\ foreign \subseteq 1..MaxGen
    /\ req \in [Requests -> RequestStates]
    /\ version \in Nat /\ snapVersion \in Nat /\ snapVersion <= version
    /\ fetchErrs \subseteq {"auth", "providers"}
    /\ errs \subseteq {"auth", "keys", "providers", "warning"}
    /\ pc \in {"select", "version", "fetchAuth", "fetchProviders", "persistAuth",
               "persistKeys", "persistProviders", "finish"}
    /\ faults \in 0..MaxFaults

FlagTypes ==
    /\ cpaNotifies \in BOOLEAN /\ announce \in BOOLEAN /\ linkUp \in BOOLEAN
    /\ connected \in BOOLEAN /\ refreshQ \in BOOLEAN /\ activated \in BOOLEAN
    /\ mode \in BOOLEAN /\ recent \in BOOLEAN /\ debounce \in BOOLEAN
    /\ failed \in BOOLEAN /\ untold \in BOOLEAN
    /\ mode => cpaNotifies /\ linkUp
    /\ announce => cpaNotifies /\ linkUp

TypeOK == DataTypes /\ FlagTypes

(***************************************************************************)
(* Safety.                                                                 *)
(***************************************************************************)

\* A sync never replaces what the local table shows of a credential by an
\* older state, however long its fetches took and whatever requests completed
\* meanwhile (the reason for CredentialMetadataCoordinator).
SnapshotNeverRollsBack ==
    [][ PersistAuthFiles \/ PersistProviders =>
          \A c \in Creds : local'[c].gen >= local[c].gen ]_vars

\* No step at all takes the local table back behind a change the keeper itself
\* has made: only a change made at CPA by others may be overwritten by the
\* late local write of an earlier request.
OwnChangesStay ==
    [][ \A c \in Creds : local'[c].gen < local[c].gen => local[c].gen \in foreign ]_vars

(***************************************************************************)
(* Liveness.                                                               *)
(***************************************************************************)

\* Once nothing changes any more the local table shows what CPA has, and the
\* aggregation runner knows of its rows: skipped snapshots, failed local
\* writes, lost answers, broken links and crashes are all made good.  The
\* exception is a sync that failed while CPA announces changes.
Converges ==
    <>[]( \/ local = remote /\ ~untold
          \/ mode /\ failed )

(***************************************************************************)
(* A statement of the repository that the code does not keep.              *)
(***************************************************************************)

\* "A failure is handled again by a later connection, period or refresh": a
\* failed sync is followed by another one.
FailedSyncIsRetried == failed ~> ~failed
=============================================================================
