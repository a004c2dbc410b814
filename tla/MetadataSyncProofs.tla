------------------------- MODULE MetadataSyncProofs -------------------------
(***************************************************************************)
(* Proofs about MetadataSync, for any number of credentials and requests:  *)
(* types, that a sync never takes the local table back to an older state,  *)
(* and that nothing takes it back behind a change of the keeper's own.     *)
(*                                                                         *)
(* The first rests on FreshIsNewer: as long as no request has completed    *)
(* since the version was read, what was fetched is at least as new as what *)
(* the table shows.  The second needs the locks (LocksExclude): from the   *)
(* write of a request at CPA to its write in the local table, the only     *)
(* newer states anybody can see of its credential are foreign or deleted   *)
(* (OnlyForeignIsLater).                                                   *)
(***************************************************************************)
EXTENDS MetadataSync, TLAPS

NothingIsFromTheFuture ==
    \A c \in Creds :
        /\ remote[c].gen <= gen
        /\ local[c].gen <= remote[c].gen
        /\ snap[c].gen <= remote[c].gen
        /\ \A r \in Requests : req[r].item[c] = "written" => req[r].val[c] <= remote[c].gen

LocksExclude ==
    \A c \in Creds : \A q, r \in Requests :
        req[q].item[c] \in Holding /\ req[r].item[c] \in Holding => q = r

\* Where a credential's state is newer than change v, somebody else made it, or
\* it shows the credential as deleted.
Excused(cell, v) == cell.gen > v => cell.gen \in foreign \/ ~cell.alive

OnlyForeignIsLater ==
    \A c \in Creds : \A r \in Requests :
        req[r].item[c] = "written" =>
            /\ Excused(remote[c], req[r].val[c])
            /\ Excused(local[c], req[r].val[c])
            /\ Excused(snap[c], req[r].val[c])

FreshIsNewer ==
    version = snapVersion =>
        /\ pc \in {"fetchProviders", "persistAuth"} /\ "auth" \notin fetchErrs
             => \A c \in AuthFiles : local[c].gen <= snap[c].gen
        /\ pc \in {"persistAuth", "persistKeys", "persistProviders"} /\ "providers" \notin fetchErrs
             => \A c \in Providers : local[c].gen <= snap[c].gen

Core == NothingIsFromTheFuture /\ LocksExclude /\ OnlyForeignIsLater /\ FreshIsNewer
IndInv == TypeOK /\ Core

coreVars == <<remote, gen, foreign, local, snap, req, version, snapVersion, fetchErrs>>
-----------------------------------------------------------------------------
(***************************************************************************)
(* Types.                                                                  *)
(***************************************************************************)

\* Whatever changes at CPA gets the next number.
LEMMA ChangeTypes ==
    ASSUME DataTypes, NEW S \in SUBSET Creds, NEW alive \in BOOLEAN, Change(S, alive)
    PROVE  /\ gen' \in 1..MaxGen /\ gen' \in 0..MaxGen /\ gen' = gen + 1
           /\ remote' \in [Creds -> Cells]
           /\ \A c \in Creds : remote'[c] = IF c \in S THEN [gen |-> gen + 1, alive |-> alive]
                                                       ELSE remote[c]
<1>1. gen \in 0..MaxGen /\ gen < MaxGen /\ gen' = gen + 1 /\ MaxGen \in Nat
  BY MetadataAssumption DEF DataTypes, Change
<1>2. gen' \in 1..MaxGen /\ gen' \in 0..MaxGen
  BY <1>1
<1>3. [gen |-> gen + 1, alive |-> alive] \in Cells
  BY <1>1, <1>2 DEF Cells
<1> QED BY <1>1, <1>2, <1>3 DEF DataTypes, Change

\* A fault is counted up to its bound.
LEMMA FaultTypes == faults \in 0..MaxFaults /\ Fault => faults' \in 0..MaxFaults
BY MetadataAssumption DEF Fault

\* A request that moves one of its items on stays a request.
LEMMA ItemTypes ==
    ASSUME req \in [Requests -> RequestStates], NEW r \in Requests, NEW c \in Creds,
           NEW s \in {"none", "queued", "done", "failed", "deleted"} \cup Holding
    PROVE  /\ [req EXCEPT ![r].item[c] = s] \in [Requests -> RequestStates]
           /\ \A v \in 0..MaxGen :
                [req EXCEPT ![r].item[c] = s, ![r].val[c] = v] \in [Requests -> RequestStates]
<1>1. req[r] \in RequestStates
  OBVIOUS
<1>2. [req[r] EXCEPT !.item[c] = s] \in RequestStates
  BY <1>1 DEF RequestStates
<1>3. \A v \in 0..MaxGen : [req[r] EXCEPT !.item[c] = s, !.val[c] = v] \in RequestStates
  BY <1>1 DEF RequestStates
<1> QED BY <1>2, <1>3

\* A request that starts or returns.
LEMMA IdleType == Idle \in RequestStates
BY MetadataAssumption DEF Idle, RequestStates

\* Requests keep the types of the data.
LEMMA RequestKeepsData ==
    ASSUME DataTypes, NEW r \in Requests,
           StartSingle(r) \/ StartBulk(r) \/ DeleteAuthFiles(r) \/ Work(r)
    PROVE  DataTypes'
<1> USE DEF sync
<1>1. CASE StartSingle(r)
  <2>1. PICK c \in Creds :
          req' = [req EXCEPT ![r] = [Idle EXCEPT !.kind = "single", !.item[c] = "queued"]]
    BY <1>1 DEF StartSingle
  <2>2. [Idle EXCEPT !.kind = "single", !.item[c] = "queued"] \in RequestStates
    BY IdleType DEF RequestStates
  <2> QED BY <1>1, <2>1, <2>2 DEF StartSingle, DataTypes, cpa
<1>2. CASE StartBulk(r)
  <2>1. PICK S \in SUBSET AuthFiles :
          req' = [req EXCEPT ![r].kind = "bulk",
                             ![r].item = [c \in Creds |-> IF c \in S THEN "queued" ELSE "none"]]
    BY <1>2 DEF StartBulk
  <2>2. req' \in [Requests -> RequestStates]
    BY <2>1 DEF DataTypes, RequestStates
  <2> QED BY <1>2, <2>2 DEF StartBulk, DataTypes, cpa
<1>3. CASE DeleteAuthFiles(r)
  <2>1. PICK S \in SUBSET Creds :
          /\ Change(S, FALSE)
          /\ \/ /\ req' = [req EXCEPT ![r].kind = "delete",
                             ![r].item = [c \in Creds |-> IF c \in S THEN "deleted" ELSE "none"]]
                /\ UNCHANGED faults
             \/ Fault /\ UNCHANGED req
    BY <1>3 DEF DeleteAuthFiles, Creds
  <2>2. req' \in [Requests -> RequestStates]
    BY <2>1 DEF DataTypes, RequestStates
  <2>3. gen' \in 0..MaxGen /\ remote' \in [Creds -> Cells]
    BY <2>1, ChangeTypes
  <2>4. faults' \in 0..MaxFaults
    BY <2>1, FaultTypes DEF DataTypes
  <2> QED BY <1>3, <2>2, <2>3, <2>4 DEF DeleteAuthFiles, DataTypes
<1>4. ASSUME NEW c \in Creds,
             AcquireLock(r, c) \/ RemoteWrite(r, c) \/ RemoteWriteFails(r, c) \/ CompleteSingle(r, c)
               \/ FinishSingle(r, c) \/ CompleteBulkItem(r, c)
      PROVE  DataTypes'
  <2>1. CASE AcquireLock(r, c)
    BY <2>1, ItemTypes DEF AcquireLock, DataTypes, Holding, cpa
  <2>2. CASE RemoteWrite(r, c)
    <3>1. gen' \in 1..MaxGen /\ gen' = gen + 1 /\ remote' \in [Creds -> Cells]
      BY <2>2, ChangeTypes DEF RemoteWrite
    <3>2. req' \in [Requests -> RequestStates]
      <4>1. gen + 1 \in 0..MaxGen
        BY <3>1
      <4> QED BY <2>2, <4>1, ItemTypes DEF RemoteWrite, DataTypes, Holding
    <3> QED BY <2>2, <3>1, <3>2 DEF RemoteWrite, DataTypes
  <2>3. CASE RemoteWriteFails(r, c)
    <3>1. UNCHANGED cpa \/ (Change({c}, TRUE) /\ UNCHANGED foreign)
      BY <2>3 DEF RemoteWriteFails
    <3>2. gen' \in 0..MaxGen /\ remote' \in [Creds -> Cells] /\ UNCHANGED foreign
      BY <3>1, ChangeTypes DEF DataTypes, cpa
    <3>3. faults' \in 0..MaxFaults
      BY <2>3, FaultTypes DEF RemoteWriteFails, DataTypes
    <3> QED BY <2>3, <3>2, <3>3, ItemTypes DEF RemoteWriteFails, DataTypes
  <2>4. CASE CompleteSingle(r, c)
    <3>1. faults' \in 0..MaxFaults
      BY <2>4, FaultTypes DEF CompleteSingle, DataTypes
    <3>2. local' \in [Creds -> Cells]
      <4>1. req[r].val[c] \in 0..MaxGen /\ local[c] \in Cells
        BY DEF DataTypes, RequestStates
      <4>2. [local[c] EXCEPT !.gen = req[r].val[c]] \in Cells
        BY <4>1 DEF Cells
      <4> QED BY <2>4, <4>2 DEF CompleteSingle, DataTypes
    <3>3. version' \in Nat /\ snapVersion <= version'
      BY <2>4 DEF CompleteSingle, NextVersion, DataTypes
    <3> QED BY <2>4, <3>1, <3>2, <3>3, ItemTypes DEF CompleteSingle, DataTypes, Holding, cpa
  <2>5. CASE FinishSingle(r, c)
    BY <2>5, ItemTypes DEF FinishSingle, DataTypes, cpa
  <2>6. CASE CompleteBulkItem(r, c)
    <3>1. version' \in Nat /\ snapVersion <= version'
      BY <2>6 DEF CompleteBulkItem, NextVersion, DataTypes
    <3> QED BY <2>6, <3>1, ItemTypes DEF CompleteBulkItem, DataTypes, cpa
  <2> QED BY <1>4, <2>1, <2>2, <2>3, <2>4, <2>5, <2>6
<1>5. CASE Return(r)
  BY <1>5, IdleType DEF Return, DataTypes, cpa
<1>6. CASE CompleteDelete(r)
  <2>1. version' \in Nat /\ snapVersion <= version'
    BY <1>6 DEF CompleteDelete, NextVersion, DataTypes
  <2> QED BY <1>6, <2>1, IdleType DEF CompleteDelete, DataTypes, cpa
<1> QED BY <1>1, <1>2, <1>3, <1>4, <1>5, <1>6 DEF Work

\* Syncs keep the types of the data.
LEMMA SyncKeepsData == DataTypes /\ SyncStep => DataTypes'
<1> SUFFICES ASSUME DataTypes, SyncStep PROVE DataTypes'
  OBVIOUS
<1> USE DEF cpa
<1>1. CASE TakeSnapshotVersion
  BY <1>1 DEF TakeSnapshotVersion, DataTypes
<1>2. CASE FetchAuthFiles \/ FetchProviders
  <2>1. PICK S \in {AuthFiles, Providers}, name \in {"auth", "providers"},
             next \in {"fetchProviders", "persistAuth"} : Fetch(S, name, next)
    BY <1>2 DEF FetchAuthFiles, FetchProviders
  <2>2. snap' \in [Creds -> Cells]
    BY <2>1 DEF Fetch, DataTypes
  <2>3. faults' \in 0..MaxFaults /\ fetchErrs' \subseteq {"auth", "providers"}
    BY <2>1, FaultTypes DEF Fetch, DataTypes
  <2> QED BY <2>1, <2>2, <2>3 DEF Fetch, DataTypes
<1>3. CASE PersistAuthFiles
  <2>1. local' \in [Creds -> Cells]
    BY <1>3 DEF PersistAuthFiles, Store, DataTypes
  <2>2. faults' \in 0..MaxFaults
    BY <1>3, FaultTypes DEF PersistAuthFiles, DataTypes
  <2>3. errs' \subseteq {"auth", "keys", "providers", "warning"}
    BY <1>3 DEF PersistAuthFiles, DataTypes
  <2> QED BY <1>3, <2>1, <2>2, <2>3 DEF PersistAuthFiles, DataTypes
<1>4. CASE PersistAPIKeys
  <2>1. faults' \in 0..MaxFaults
    BY <1>4, FaultTypes DEF PersistAPIKeys, DataTypes
  <2>2. errs' \subseteq {"auth", "keys", "providers", "warning"}
    BY <1>4 DEF PersistAPIKeys, DataTypes
  <2> QED BY <1>4, <2>1, <2>2 DEF PersistAPIKeys, DataTypes
<1>5. CASE PersistProviders
  <2>1. local' \in [Creds -> Cells]
    BY <1>5 DEF PersistProviders, Store, DataTypes
  <2>2. faults' \in 0..MaxFaults
    BY <1>5, FaultTypes DEF PersistProviders, DataTypes
  <2>3. errs' \subseteq {"auth", "keys", "providers", "warning"}
    BY <1>5 DEF PersistProviders, DataTypes
  <2> QED BY <1>5, <2>1, <2>2, <2>3 DEF PersistProviders, DataTypes
<1>6. CASE FinishSync
  BY <1>6, MetadataAssumption DEF FinishSync, SyncOver, NoSnap, Cells, DataTypes
<1> QED BY <1>1, <1>2, <1>3, <1>4, <1>5, <1>6 DEF SyncStep

\* All steps keep the types of the data.
LEMMA DataStep == DataTypes /\ [Next]_vars => DataTypes'
<1> SUFFICES ASSUME DataTypes, [Next]_vars PROVE DataTypes'
  OBVIOUS
<1>1. CASE \E r \in Requests : StartSingle(r) \/ StartBulk(r) \/ DeleteAuthFiles(r) \/ Work(r)
  BY <1>1, RequestKeepsData
<1>2. CASE SyncStep
  BY <1>2, SyncKeepsData
<1>3. CASE ForeignChange
  <2>1. PICK c \in Creds, alive \in BOOLEAN : Change({c}, alive)
    BY <1>3 DEF ForeignChange
  <2>2. gen' \in 1..MaxGen /\ gen' = gen + 1 /\ remote' \in [Creds -> Cells]
    BY <2>1, ChangeTypes
  <2>3. foreign' \subseteq 1..MaxGen
    BY <1>3, <2>2 DEF ForeignChange, DataTypes
  <2> QED BY <1>3, <2>2, <2>3 DEF ForeignChange, DataTypes, sync
<1>4. CASE Disconnect
  BY <1>4, FaultTypes DEF Disconnect, DataTypes, sync
<1>5. CASE Crash
  <2>1. req' \in [Requests -> RequestStates]
    BY <1>5, IdleType DEF Crash
  <2>2. snap' \in [Creds -> Cells]
    BY <1>5, MetadataAssumption DEF Crash, SyncOver, NoSnap, Cells
  <2>3. faults' \in 0..MaxFaults
    BY <1>5, FaultTypes DEF Crash, DataTypes
  <2> QED BY <1>5, <2>1, <2>2, <2>3 DEF Crash, SyncOver, DataTypes
<1>6. CASE Connect \/ SupportArrives \/ RefreshArrives \/ TakeRefresh \/ DebounceWindowPasses
  BY <1>6 DEF Connect, SupportArrives, RefreshArrives, TakeRefresh, DebounceWindowPasses, cpa, sync,
              DataTypes
<1>7. CASE TakeConnected \/ PeriodicTick \/ DebounceFires
  BY <1>7 DEF TakeConnected, PeriodicTick, DebounceFires, cpa, DataTypes
<1>8. CASE UNCHANGED vars
  BY <1>8 DEF vars, DataTypes
<1> QED BY <1>1, <1>2, <1>3, <1>4, <1>5, <1>6, <1>7, <1>8 DEF Next, Runner

\* The flags stay flags, and the notification mode is a mode of a live link
\* to a CPA that notifies.
LEMMA FlagStep == FlagTypes /\ [Next]_vars => FlagTypes'
<1> SUFFICES ASSUME FlagTypes, [Next]_vars PROVE FlagTypes'
  OBVIOUS
<1>1. ASSUME NEW r \in Requests, StartSingle(r) \/ StartBulk(r) PROVE FlagTypes'
  <2>1. UNCHANGED <<cpa, linkUp, runner, sync>>
    BY <1>1 DEF StartSingle, StartBulk
  <2> QED BY <2>1 DEF FlagTypes, cpa, runner, sync
<1>2. ASSUME NEW r \in Requests, DeleteAuthFiles(r) PROVE FlagTypes'
  BY <1>2 DEF DeleteAuthFiles, Change, FlagTypes, runner, sync
<1>3. ASSUME NEW r \in Requests, NEW c \in Creds, AcquireLock(r, c) \/ CompleteSingle(r, c)
      PROVE  FlagTypes'
  BY <1>3 DEF AcquireLock, CompleteSingle, FlagTypes, cpa, runner, sync
<1>4. ASSUME NEW r \in Requests, NEW c \in Creds, CompleteBulkItem(r, c) PROVE FlagTypes'
  BY <1>4 DEF CompleteBulkItem, FlagTypes, cpa, runner, sync
<1>5. ASSUME NEW r \in Requests, NEW c \in Creds, RemoteWrite(r, c) PROVE FlagTypes'
  BY <1>5 DEF RemoteWrite, Change, FlagTypes, runner, sync
<1>6. ASSUME NEW r \in Requests, NEW c \in Creds, RemoteWriteFails(r, c) PROVE FlagTypes'
  BY <1>6 DEF RemoteWriteFails, Change, FlagTypes, cpa, runner, sync
<1>7. ASSUME NEW r \in Requests, NEW c \in Creds, FinishSingle(r, c) PROVE FlagTypes'
  BY <1>7 DEF FinishSingle, RequestLocalMetadataRefresh, QueueRefresh, FlagTypes, cpa, sync
<1>8. ASSUME NEW r \in Requests, Return(r) PROVE FlagTypes'
  BY <1>8 DEF Return, RequestLocalMetadataRefresh, QueueRefresh, FlagTypes, cpa, sync
<1>9. ASSUME NEW r \in Requests, CompleteDelete(r) PROVE FlagTypes'
  BY <1>9 DEF CompleteDelete, RequestLocalMetadataRefresh, QueueRefresh, FlagTypes, cpa, sync
<1>10. CASE ForeignChange
  BY <1>10 DEF ForeignChange, Change, FlagTypes, runner, sync
<1>11. CASE Connect
  BY <1>11 DEF Connect, FlagTypes, cpa, sync
<1>23. CASE SupportArrives
  BY <1>23 DEF SupportArrives, FlagTypes, cpa, sync
<1>12. CASE Disconnect
  BY <1>12 DEF Disconnect, FlagTypes, sync
<1>13. CASE RefreshArrives
  BY <1>13 DEF RefreshArrives, QueueRefresh, FlagTypes, sync
<1>14. CASE Crash
  BY <1>14 DEF Crash, FlagTypes
<1>15. CASE TakeConnected
  BY <1>15 DEF TakeConnected, FlagTypes, cpa
<1>24. CASE PeriodicTick
  BY <1>24 DEF PeriodicTick, FlagTypes, cpa, runner
<1>25. CASE DebounceFires
  BY <1>25 DEF DebounceFires, FlagTypes, cpa
<1>16. CASE TakeRefresh
  BY <1>16 DEF TakeRefresh, FlagTypes, cpa, sync
<1>26. CASE DebounceWindowPasses
  BY <1>26 DEF DebounceWindowPasses, FlagTypes, cpa, sync
<1>17. CASE TakeSnapshotVersion
  BY <1>17 DEF TakeSnapshotVersion, FlagTypes, cpa, runner
<1>27. CASE PersistAPIKeys
  BY <1>27 DEF PersistAPIKeys, FlagTypes, cpa, runner
<1>18. CASE FetchAuthFiles \/ FetchProviders
  BY <1>18 DEF FetchAuthFiles, FetchProviders, Fetch, FlagTypes, cpa, runner
<1>19. CASE PersistAuthFiles
  BY <1>19 DEF PersistAuthFiles, Store, FlagTypes, cpa, runner
<1>20. CASE PersistProviders
  BY <1>20 DEF PersistProviders, Store, FlagTypes, cpa, runner
<1>21. CASE FinishSync
  BY <1>21 DEF FinishSync, FlagTypes, cpa, runner
<1>22. CASE UNCHANGED vars
  BY <1>22 DEF vars, FlagTypes
<1> QED
  BY <1>1, <1>2, <1>3, <1>4, <1>5, <1>6, <1>7, <1>8, <1>9, <1>10, <1>11, <1>12, <1>13, <1>14,
     <1>15, <1>16, <1>17, <1>18, <1>19, <1>20, <1>21, <1>22, <1>23, <1>24, <1>25, <1>26, <1>27
     DEF Next, Work, Runner, SyncStep

\* The variables keep their types, for any number of credentials and requests.
THEOREM TypeCorrect == Spec => []TypeOK
<1>1. Init => TypeOK
  <2> SUFFICES ASSUME Init PROVE TypeOK
    OBVIOUS
  <2>1. /\ [c \in Creds |-> [gen |-> 0, alive |-> TRUE]] \in [Creds -> Cells]
        /\ gen \in 0..MaxGen /\ faults \in 0..MaxFaults
    BY MetadataAssumption DEF Init, Cells
  <2>2. req \in [Requests -> RequestStates]
    BY IdleType DEF Init
  <2>3. DataTypes
    BY <2>1, <2>2 DEF Init, DataTypes, NoSnap
  <2>4. FlagTypes
    BY DEF Init, FlagTypes
  <2> QED BY <2>3, <2>4 DEF TypeOK
<1>2. TypeOK /\ [Next]_vars => TypeOK'
  BY DataStep, FlagStep DEF TypeOK
<1> QED BY <1>1, <1>2, PTL DEF Spec
-----------------------------------------------------------------------------
(***************************************************************************)
(* The inductive invariant.                                                *)
(***************************************************************************)

\* Everything Core compares is a number.
LEMMA GensAreNumbers ==
    ASSUME DataTypes
    PROVE  /\ gen \in Nat
           /\ \A c \in Creds : remote[c].gen \in Nat /\ local[c].gen \in Nat /\ snap[c].gen \in Nat
           /\ \A r \in Requests, c \in Creds : req[r].val[c] \in Nat
<1>1. 0..MaxGen \subseteq Nat
  BY MetadataAssumption
<1> QED BY <1>1 DEF DataTypes, Cells, RequestStates

\* The runner's signals and timers do not touch what Core speaks about.
LEMMA CoreElsewhere ==
    ASSUME Core, UNCHANGED coreVars, pc' \in {pc, "select", "version", "finish"}
    PROVE  Core'
BY DEF Core, coreVars, NothingIsFromTheFuture, LocksExclude, OnlyForeignIsLater, Excused,
       FreshIsNewer

\* Items that are neither written nor under a lock after a step, or are what
\* they were, do not disturb the locks or the pending changes.
LEMMA ItemsReleased ==
    ASSUME DataTypes, Core,
           UNCHANGED <<remote, gen, foreign, local, snap, snapVersion, fetchErrs, pc>>,
           version' \in {version, version + 1},
           \A q \in Requests, c \in Creds :
              \/ req'[q].item[c] \notin Holding
              \/ req'[q].item[c] = req[q].item[c] /\ req'[q].val[c] = req[q].val[c]
              \/ req'[q].item[c] = "completed" /\ req[q].item[c] = "written"
    PROVE  Core'
<1>1. NothingIsFromTheFuture'
  BY DEF Core, NothingIsFromTheFuture, Holding
<1>2. LocksExclude'
  BY DEF Core, LocksExclude, Holding
<1>3. OnlyForeignIsLater'
  BY DEF Core, OnlyForeignIsLater, Excused, Holding
<1>4. FreshIsNewer'
  <2>1. version' = snapVersion => version = snapVersion
    BY DEF DataTypes
  <2> QED BY <2>1 DEF Core, FreshIsNewer
<1> QED BY <1>1, <1>2, <1>3, <1>4 DEF Core

\* A change at CPA that is foreign, deletes, or is made under the lock.
LEMMA ForeignChangeKeepsCore == DataTypes /\ Core /\ ForeignChange => Core'
<1> SUFFICES ASSUME DataTypes, Core, ForeignChange PROVE Core'
  OBVIOUS
<1>1. PICK d \in Creds, alive \in BOOLEAN : Change({d}, alive)
  BY DEF ForeignChange
<1>2. /\ gen' = gen + 1 /\ foreign' = foreign \cup {gen + 1}
      /\ \A c \in Creds : remote'[c] = IF c = d THEN [gen |-> gen + 1, alive |-> alive] ELSE remote[c]
      /\ UNCHANGED <<local, snap, req, version, snapVersion, fetchErrs, pc>>
  BY <1>1, ChangeTypes DEF ForeignChange, sync
<1>3. NothingIsFromTheFuture'
  BY <1>2 DEF DataTypes, Cells, RequestStates, Core, NothingIsFromTheFuture
<1>4. LocksExclude' /\ FreshIsNewer'
  BY <1>2 DEF Core, LocksExclude, FreshIsNewer
<1>5. OnlyForeignIsLater'
  BY <1>2 DEF Core, OnlyForeignIsLater, Excused
<1> QED BY <1>3, <1>4, <1>5 DEF Core

\* A delete takes no lock, but what it leaves is not active.
LEMMA DeleteKeepsCore ==
    ASSUME DataTypes, Core, NEW r \in Requests, DeleteAuthFiles(r)
    PROVE  Core'
<1>1. PICK S \in SUBSET Creds :
        /\ Change(S, FALSE)
        /\ \/ req' = [req EXCEPT ![r].kind = "delete",
                        ![r].item = [c \in Creds |-> IF c \in S THEN "deleted" ELSE "none"]]
           \/ UNCHANGED req
  BY DEF DeleteAuthFiles, Creds
<1>2. /\ gen' = gen + 1
      /\ \A c \in Creds : remote'[c] = IF c \in S THEN [gen |-> gen + 1, alive |-> FALSE] ELSE remote[c]
      /\ UNCHANGED <<local, snap, foreign, version, snapVersion, fetchErrs, pc>>
  BY <1>1, ChangeTypes DEF DeleteAuthFiles, sync
<1>3. \A q \in Requests, c \in Creds :
        \/ req'[q].item[c] \notin Holding
        \/ req'[q].item[c] = req[q].item[c] /\ req'[q].val[c] = req[q].val[c]
  BY <1>1 DEF DataTypes, RequestStates, Holding
<1>4. NothingIsFromTheFuture'
  <2> SUFFICES ASSUME NEW c \in Creds
               PROVE  /\ remote'[c].gen <= gen' /\ local'[c].gen <= remote'[c].gen
                      /\ snap'[c].gen <= remote'[c].gen
                      /\ \A q \in Requests :
                           req'[q].item[c] = "written" => req'[q].val[c] <= remote'[c].gen
    BY DEF NothingIsFromTheFuture
  <2>1. remote'[c].gen \in Nat /\ remote[c].gen <= remote'[c].gen /\ remote'[c].gen <= gen'
    BY <1>2, GensAreNumbers DEF Core, NothingIsFromTheFuture
  <2> QED BY <1>2, <1>3, <2>1, GensAreNumbers DEF Core, NothingIsFromTheFuture, Holding
<1>5. LocksExclude'
  BY <1>3 DEF Core, LocksExclude
<1>6. OnlyForeignIsLater'
  BY <1>2, <1>3 DEF Core, OnlyForeignIsLater, Excused, Holding
<1>7. FreshIsNewer'
  BY <1>2 DEF Core, FreshIsNewer
<1> QED BY <1>4, <1>5, <1>6, <1>7 DEF Core

\* A lock is granted to one request at a time.
LEMMA AcquireLockKeepsCore ==
    ASSUME DataTypes, Core, NEW r \in Requests, NEW d \in Creds, AcquireLock(r, d)
    PROVE  Core'
<1>1. /\ req' = [req EXCEPT ![r].item[d] = "locked"] /\ LockFree(d)
      /\ UNCHANGED <<remote, gen, foreign, local, snap, version, snapVersion, fetchErrs, pc>>
  BY DEF AcquireLock, cpa, sync
<1>2. \A q \in Requests, c \in Creds :
        \/ q = r /\ c = d /\ req'[q].item[c] = "locked"
        \/ req'[q].item[c] = req[q].item[c] /\ req'[q].val[c] = req[q].val[c]
  BY <1>1 DEF DataTypes, RequestStates
<1>3. NothingIsFromTheFuture' /\ FreshIsNewer'
  BY <1>1, <1>2 DEF Core, NothingIsFromTheFuture, FreshIsNewer
<1>4. LocksExclude'
  BY <1>1, <1>2 DEF Core, LocksExclude, LockFree
<1>5. OnlyForeignIsLater'
  BY <1>1, <1>2 DEF Core, OnlyForeignIsLater, Excused
<1> QED BY <1>3, <1>4, <1>5 DEF Core

\* A write at CPA under the lock is the newest change of its credential, and
\* nobody else is between the two writes of a request on it.
LEMMA WriteUnderLock ==
    ASSUME DataTypes, Core, NEW r \in Requests, NEW d \in Creds, req[r].item[d] = "locked",
           Change({d}, TRUE),
           \/ req' = [req EXCEPT ![r].item[d] = "written", ![r].val[d] = gen + 1]
           \/ req' = [req EXCEPT ![r].item[d] = "failed"],
           UNCHANGED <<foreign, local, snap, version, snapVersion, fetchErrs, pc>>
    PROVE  Core'
<1>1. /\ gen' = gen + 1
      /\ \A c \in Creds : remote'[c] = IF c = d THEN [gen |-> gen + 1, alive |-> TRUE] ELSE remote[c]
  BY ChangeTypes
<1>2. \A q \in Requests, c \in Creds :
        \/ q = r /\ c = d /\ \/ req'[q].item[c] = "written" /\ req'[q].val[c] = gen + 1
                             \/ req'[q].item[c] = "failed"
        \/ ~(q = r /\ c = d) /\ req'[q].item[c] = req[q].item[c] /\ req'[q].val[c] = req[q].val[c]
  BY DEF DataTypes, RequestStates
<1>3. \A q \in Requests \ {r} : req[q].item[d] \notin Holding
  BY DEF Core, LocksExclude, Holding
<1>4. NothingIsFromTheFuture'
  <2> SUFFICES ASSUME NEW c \in Creds
               PROVE  /\ remote'[c].gen <= gen' /\ local'[c].gen <= remote'[c].gen
                      /\ snap'[c].gen <= remote'[c].gen
                      /\ \A q \in Requests :
                           req'[q].item[c] = "written" => req'[q].val[c] <= remote'[c].gen
    BY DEF NothingIsFromTheFuture
  <2>1. remote'[c].gen \in Nat /\ remote[c].gen <= remote'[c].gen /\ remote'[c].gen <= gen'
    BY <1>1, GensAreNumbers DEF Core, NothingIsFromTheFuture
  <2>2. c = d => remote'[c].gen = gen + 1
    BY <1>1
  <2> QED BY <1>1, <1>2, <2>1, <2>2, GensAreNumbers DEF Core, NothingIsFromTheFuture
<1>5. LocksExclude'
  BY <1>2, <1>3 DEF Core, LocksExclude, Holding
<1>6. OnlyForeignIsLater'
  <2> SUFFICES ASSUME NEW q \in Requests, NEW c \in Creds, req'[q].item[c] = "written"
               PROVE  /\ Excused(remote[c], req[q].val[c])'
                      /\ Excused(local[c], req[q].val[c])'
                      /\ Excused(snap[c], req[q].val[c])'
    BY DEF OnlyForeignIsLater
  <2>1. CASE q = r /\ c = d
    BY <1>1, <1>2, <2>1 DEF DataTypes, Cells, Core, NothingIsFromTheFuture, Excused
  <2>2. CASE ~(q = r /\ c = d)
    <3>1. c # d
      BY <1>2, <1>3, <2>2 DEF Holding
    <3> QED BY <1>1, <1>2, <2>2, <3>1 DEF Core, OnlyForeignIsLater, Excused
  <2> QED BY <2>1, <2>2
<1>7. FreshIsNewer'
  BY DEF Core, FreshIsNewer
<1> QED BY <1>4, <1>5, <1>6, <1>7 DEF Core

\* The late local write: any snapshot taken before it is stale from now on.
LEMMA CompleteSingleKeepsCore ==
    ASSUME DataTypes, Core, NEW r \in Requests, NEW d \in Creds, CompleteSingle(r, d)
    PROVE  Core'
<1>1. /\ req[r].item[d] = "written" /\ req' = [req EXCEPT ![r].item[d] = "completed"]
      /\ version' = version + 1
      /\ UNCHANGED <<remote, gen, foreign, snap, snapVersion, fetchErrs, pc>>
  BY DEF CompleteSingle, NextVersion, cpa, sync
<1>2. \A c \in Creds :
        \/ local'[c] = local[c]
        \/ c = d /\ local'[c].gen = req[r].val[d] /\ local'[c].alive = local[c].alive
  BY DEF CompleteSingle, DataTypes, Cells
<1>3. \A q \in Requests, c \in Creds :
        \/ q = r /\ c = d /\ req'[q].item[c] = "completed"
        \/ ~(q = r /\ c = d) /\ req'[q].item[c] = req[q].item[c] /\ req'[q].val[c] = req[q].val[c]
  BY <1>1 DEF DataTypes, RequestStates
<1>4. \A q \in Requests \ {r} : req[q].item[d] \notin Holding
  BY <1>1 DEF Core, LocksExclude, Holding
<1>5. NothingIsFromTheFuture'
  BY <1>1, <1>2, <1>3 DEF Core, NothingIsFromTheFuture
<1>6. LocksExclude'
  BY <1>1, <1>3 DEF Core, LocksExclude, Holding
<1>7. OnlyForeignIsLater'
  <2> SUFFICES ASSUME NEW q \in Requests, NEW c \in Creds, req'[q].item[c] = "written"
               PROVE  /\ Excused(remote[c], req[q].val[c])'
                      /\ Excused(local[c], req[q].val[c])'
                      /\ Excused(snap[c], req[q].val[c])'
    BY DEF OnlyForeignIsLater
  <2>1. c # d /\ req[q].item[c] = "written" /\ req'[q].val[c] = req[q].val[c]
    BY <1>3, <1>4 DEF Holding
  <2> QED BY <1>1, <1>2, <2>1 DEF Core, OnlyForeignIsLater, Excused
<1>8. FreshIsNewer'
  <2>1. version' # snapVersion'
    BY <1>1 DEF DataTypes
  <2> QED BY <2>1 DEF FreshIsNewer
<1> QED BY <1>5, <1>6, <1>7, <1>8 DEF Core

\* A fetch reads states that are at least as new as the table's.
LEMMA FetchKeepsCore == DataTypes /\ Core /\ (FetchAuthFiles \/ FetchProviders) => Core'
<1> SUFFICES ASSUME DataTypes, Core, FetchAuthFiles \/ FetchProviders PROVE Core'
  OBVIOUS
<1>1. UNCHANGED <<remote, gen, foreign, local, req, version, snapVersion>>
  BY DEF FetchAuthFiles, FetchProviders, Fetch, cpa
<1>2. \A c \in Creds : snap'[c] \in {snap[c], remote[c]}
  BY DEF FetchAuthFiles, FetchProviders, Fetch, DataTypes
<1>3. NothingIsFromTheFuture'
  BY <1>1, <1>2 DEF DataTypes, Cells, Core, NothingIsFromTheFuture
<1>4. LocksExclude'
  BY <1>1 DEF Core, LocksExclude
<1>5. OnlyForeignIsLater'
  BY <1>1, <1>2 DEF Core, OnlyForeignIsLater, Excused
<1>6. FreshIsNewer'
  <2>1. CASE FetchAuthFiles
    <3>1. pc' = "fetchProviders"
      BY <2>1 DEF FetchAuthFiles, Fetch
    <3>2. "auth" \notin fetchErrs' => \A c \in AuthFiles : snap'[c] = remote[c]
      BY <2>1 DEF FetchAuthFiles, Fetch, Creds
    <3> QED BY <1>1, <3>1, <3>2 DEF Core, NothingIsFromTheFuture, FreshIsNewer, Creds
  <2>2. CASE FetchProviders
    <3>1. pc = "fetchProviders" /\ pc' = "persistAuth"
      BY <2>2 DEF FetchProviders, Fetch
    <3>2. "providers" \notin fetchErrs' => \A c \in Providers : snap'[c] = remote[c]
      BY <2>2 DEF FetchProviders, Fetch, Creds
    <3>3. "auth" \notin fetchErrs' => "auth" \notin fetchErrs
      BY <2>2 DEF FetchProviders, Fetch
    <3>4. \A c \in AuthFiles : snap'[c] = snap[c]
      BY <2>2, MetadataAssumption DEF FetchProviders, Fetch, Creds, DataTypes
    <3> QED BY <1>1, <3>1, <3>2, <3>3, <3>4 DEF Core, NothingIsFromTheFuture, FreshIsNewer, Creds
  <2> QED BY <2>1, <2>2
<1> QED BY <1>3, <1>4, <1>5, <1>6 DEF Core

\* What a sync stores is what it fetched.
LEMMA PersistKeepsCore == DataTypes /\ Core /\ (PersistAuthFiles \/ PersistProviders) => Core'
<1> SUFFICES ASSUME DataTypes, Core, PersistAuthFiles \/ PersistProviders PROVE Core'
  OBVIOUS
<1>1. UNCHANGED <<remote, gen, foreign, snap, req, version, snapVersion, fetchErrs>>
  BY DEF PersistAuthFiles, PersistProviders, cpa
<1>2. \A c \in Creds : local'[c] \in {local[c], snap[c]}
  BY DEF PersistAuthFiles, PersistProviders, Store, DataTypes
<1>3. NothingIsFromTheFuture'
  BY <1>1, <1>2 DEF DataTypes, Cells, Core, NothingIsFromTheFuture
<1>4. LocksExclude'
  BY <1>1 DEF Core, LocksExclude
<1>5. OnlyForeignIsLater'
  BY <1>1, <1>2 DEF Core, OnlyForeignIsLater, Excused
<1>6. FreshIsNewer'
  <2>1. CASE PersistAuthFiles
    <3>1. pc = "persistAuth" /\ pc' = "persistKeys"
      BY <2>1 DEF PersistAuthFiles
    <3>2. \A c \in Providers : local'[c] = local[c]
      BY <2>1, MetadataAssumption DEF PersistAuthFiles, Store, Creds, DataTypes
    <3> QED BY <1>1, <3>1, <3>2 DEF Core, FreshIsNewer
  <2>2. CASE PersistProviders
    BY <2>2 DEF PersistProviders, FreshIsNewer
  <2> QED BY <2>1, <2>2
<1> QED BY <1>3, <1>4, <1>5, <1>6 DEF Core

\* A crash leaves no request and no snapshot.
LEMMA CrashKeepsCore == DataTypes /\ Core /\ Crash => Core'
<1> SUFFICES ASSUME DataTypes, Core, Crash PROVE Core'
  OBVIOUS
<1>1. /\ UNCHANGED <<remote, gen, local>> /\ pc' = "select"
      /\ \A c \in Creds : snap'[c].gen = 0
      /\ \A r \in Requests, c \in Creds : req'[r].item[c] = "none"
  BY DEF Crash, SyncOver, NoSnap, Idle
<1>2. NothingIsFromTheFuture'
  BY <1>1 DEF DataTypes, Cells, Core, NothingIsFromTheFuture
<1> QED BY <1>1, <1>2 DEF Core, LocksExclude, Holding, OnlyForeignIsLater, FreshIsNewer

\* Every step keeps Core: one case per action of Next.
LEMMA CoreStep == DataTypes /\ Core /\ [Next]_vars => Core'
<1> SUFFICES ASSUME DataTypes, Core, [Next]_vars PROVE Core'
  OBVIOUS
<1>1. CASE ForeignChange
  BY <1>1, ForeignChangeKeepsCore
<1>2. CASE Crash
  BY <1>2, CrashKeepsCore
<1>3. CASE FetchAuthFiles \/ FetchProviders
  BY <1>3, FetchKeepsCore
<1>4. CASE PersistAuthFiles \/ PersistProviders
  BY <1>4, PersistKeepsCore
<1>5. ASSUME NEW r \in Requests, DeleteAuthFiles(r) PROVE Core'
  BY <1>5, DeleteKeepsCore
<1>6. ASSUME NEW r \in Requests, NEW c \in Creds, AcquireLock(r, c) PROVE Core'
  BY <1>6, AcquireLockKeepsCore
<1>7. ASSUME NEW r \in Requests, NEW c \in Creds, RemoteWrite(r, c) PROVE Core'
  BY <1>7, WriteUnderLock DEF RemoteWrite, sync
<1>8. ASSUME NEW r \in Requests, NEW c \in Creds, CompleteSingle(r, c) PROVE Core'
  BY <1>8, CompleteSingleKeepsCore
<1>9. ASSUME NEW r \in Requests, NEW c \in Creds, RemoteWriteFails(r, c) PROVE Core'
  <2>1. req' = [req EXCEPT ![r].item[c] = "failed"] /\ UNCHANGED <<local, version, sync>>
    BY <1>9 DEF RemoteWriteFails
  <2>2. CASE req[r].item[c] = "locked" /\ Change({c}, TRUE) /\ UNCHANGED foreign
    BY <2>1, <2>2, WriteUnderLock DEF sync
  <2>3. CASE UNCHANGED cpa
    <3>1. \A q \in Requests, d \in Creds :
            \/ req'[q].item[d] \notin Holding
            \/ req'[q].item[d] = req[q].item[d] /\ req'[q].val[d] = req[q].val[d]
      BY <2>1 DEF DataTypes, RequestStates, Holding
    <3> QED BY <2>1, <2>3, <3>1, ItemsReleased DEF cpa, sync
  <2> QED BY <1>9, <2>2, <2>3 DEF RemoteWriteFails
<1>10. ASSUME NEW r \in Requests, NEW c \in Creds, FinishSingle(r, c) \/ CompleteBulkItem(r, c)
       PROVE  Core'
  <2>1. /\ req' = [req EXCEPT ![r].item[c] = "done"] /\ version' \in {version, version + 1}
        /\ UNCHANGED <<cpa, local, sync>>
    BY <1>10 DEF FinishSingle, CompleteBulkItem, NextVersion
  <2>2. \A q \in Requests, d \in Creds :
          \/ req'[q].item[d] \notin Holding
          \/ req'[q].item[d] = req[q].item[d] /\ req'[q].val[d] = req[q].val[d]
    BY <2>1 DEF DataTypes, RequestStates, Holding
  <2> QED BY <2>1, <2>2, ItemsReleased DEF cpa, sync
<1>11. ASSUME NEW r \in Requests, StartSingle(r) \/ StartBulk(r) \/ Return(r) \/ CompleteDelete(r)
       PROVE  Core'
  <2>1. version' \in {version, version + 1} /\ UNCHANGED <<cpa, local, sync>>
    BY <1>11 DEF StartSingle, StartBulk, Return, CompleteDelete, NextVersion
  <2>2. \A q \in Requests, d \in Creds :
          \/ req'[q].item[d] \notin Holding
          \/ req'[q].item[d] = req[q].item[d] /\ req'[q].val[d] = req[q].val[d]
    <3>1. PICK it : /\ \A d \in Creds : it.item[d] \in {"none", "queued"}
                    /\ \A q \in Requests : req'[q] = IF q = r THEN it ELSE req[q]
      <4>1. \A q \in Requests : q # r => req'[q] = req[q]
        BY <1>11 DEF StartSingle, StartBulk, Return, CompleteDelete, DataTypes
      <4>2. \A d \in Creds : req'[r].item[d] \in {"none", "queued"}
        <5>1. CASE StartSingle(r)
          BY <5>1 DEF StartSingle, Idle, DataTypes
        <5>2. CASE StartBulk(r)
          BY <5>2 DEF StartBulk, DataTypes, RequestStates
        <5>3. CASE Return(r) \/ CompleteDelete(r)
          BY <5>3 DEF Return, CompleteDelete, Idle, DataTypes
        <5> QED BY <1>11, <5>1, <5>2, <5>3
      <4> QED BY <4>1, <4>2
    <3> QED BY <3>1 DEF Holding
  <2> QED BY <2>1, <2>2, ItemsReleased DEF cpa, sync
<1>12. CASE TakeSnapshotVersion
  <2>1. /\ pc' = "fetchAuth" /\ UNCHANGED <<remote, gen, foreign, local, snap, req>>
    BY <1>12 DEF TakeSnapshotVersion, cpa
  <2> QED BY <2>1 DEF Core, NothingIsFromTheFuture, LocksExclude, OnlyForeignIsLater, Excused,
                      FreshIsNewer
<1>13. CASE PersistAPIKeys
  <2>1. pc = "persistKeys" /\ pc' = "persistProviders" /\ UNCHANGED coreVars
    BY <1>13 DEF PersistAPIKeys, cpa, coreVars
  <2> QED BY <2>1 DEF coreVars, Core, NothingIsFromTheFuture, LocksExclude, OnlyForeignIsLater,
                      Excused, FreshIsNewer
<1>14. CASE FinishSync
  <2>1. /\ UNCHANGED <<remote, gen, foreign, local, req, version>> /\ pc' = "select"
        /\ \A c \in Creds : snap'[c].gen = 0
    BY <1>14 DEF FinishSync, SyncOver, NoSnap, cpa
  <2> QED BY <2>1 DEF DataTypes, Cells, RequestStates, Core, NothingIsFromTheFuture, LocksExclude,
                      OnlyForeignIsLater, Excused, FreshIsNewer
<1> USE DEF coreVars, cpa, sync
<1>15. CASE Connect \/ SupportArrives \/ TakeRefresh \/ DebounceWindowPasses
  BY <1>15, CoreElsewhere DEF Connect, SupportArrives, TakeRefresh, DebounceWindowPasses
<1>16. CASE Disconnect \/ RefreshArrives
  BY <1>16, CoreElsewhere DEF Disconnect, RefreshArrives
<1>17. CASE TakeConnected \/ PeriodicTick \/ DebounceFires
  BY <1>17, CoreElsewhere DEF TakeConnected, PeriodicTick, DebounceFires
<1>18. CASE UNCHANGED vars
  BY <1>18, CoreElsewhere DEF vars
<1> QED
  BY <1>1, <1>2, <1>3, <1>4, <1>5, <1>6, <1>7, <1>8, <1>9, <1>10, <1>11, <1>12, <1>13, <1>14,
     <1>15, <1>16, <1>17, <1>18
     DEF Next, Work, Runner, SyncStep

\* The inductive invariant holds throughout.
LEMMA Inductive == Spec => []IndInv
<1>1. Init => Core
  BY MetadataAssumption
     DEF Init, Core, NothingIsFromTheFuture, LocksExclude, OnlyForeignIsLater, FreshIsNewer,
         NoSnap, Idle, Holding
<1>2. TypeOK /\ Core /\ [Next]_vars => Core'
  BY CoreStep DEF TypeOK
<1>3. TypeOK /\ Core <=> IndInv
  BY DEF IndInv
<1> QED BY <1>1, <1>2, <1>3, TypeCorrect, PTL DEF Spec
-----------------------------------------------------------------------------
(***************************************************************************)
(* Theorems.                                                               *)
(***************************************************************************)

\* What a sync stores is at least as new as what it replaces.
LEMMA StoredIsNewer ==
    ASSUME IndInv, PersistAuthFiles \/ PersistProviders, NEW c \in Creds
    PROVE  local'[c].gen >= local[c].gen
<1>1. local \in [Creds -> Cells] /\ snap \in [Creds -> Cells]
  BY DEF IndInv, TypeOK, DataTypes
<1>2. local[c].gen \in Nat /\ snap[c].gen \in Nat
  BY <1>1, MetadataAssumption DEF Cells
<1>3. CASE PersistAuthFiles
  <2>1. \/ local' = local
        \/ /\ version = snapVersion /\ "auth" \notin fetchErrs /\ pc = "persistAuth"
           /\ local' = [d \in Creds |-> IF d \in AuthFiles THEN snap[d] ELSE local[d]]
    BY <1>3 DEF PersistAuthFiles, Store, SnapshotIsFresh
  <2> QED BY <1>2, <2>1 DEF IndInv, Core, FreshIsNewer
<1>4. CASE PersistProviders
  <2>1. \/ local' = local
        \/ /\ version = snapVersion /\ "providers" \notin fetchErrs /\ pc = "persistProviders"
           /\ local' = [d \in Creds |-> IF d \in Providers THEN snap[d] ELSE local[d]]
    BY <1>4 DEF PersistProviders, Store, SnapshotIsFresh
  <2> QED BY <1>2, <2>1 DEF IndInv, Core, FreshIsNewer
<1> QED BY <1>3, <1>4

\* A sync never replaces what the local table shows of a credential by an
\* older state, whatever requests complete while it fetches.
THEOREM SyncNeverRollsBack == Spec => SnapshotNeverRollsBack
<1>1. IndInv /\ [Next]_vars =>
        [PersistAuthFiles \/ PersistProviders =>
           \A c \in Creds : local'[c].gen >= local[c].gen]_vars
  BY StoredIsNewer
<1> QED BY <1>1, Inductive, PTL DEF Spec, SnapshotNeverRollsBack

\* No step takes the local table back behind a change of the keeper's own.
THEOREM KeeperChangesStay == Spec => OwnChangesStay
<1>1. ASSUME IndInv, [Next]_vars, NEW c \in Creds, local'[c].gen < local[c].gen
      PROVE  local[c].gen \in foreign
  <2>1. local \in [Creds -> Cells] /\ local[c].gen \in Nat
    BY <1>1, GensAreNumbers DEF IndInv, TypeOK, DataTypes
  <2>2. local' # local
    BY <1>1, <2>1
  <2>3. ~(PersistAuthFiles \/ PersistProviders)
    <3>1. IndInv'
      BY <1>1, DataStep, FlagStep, CoreStep DEF IndInv, TypeOK
    <3>2. local'[c].gen \in Nat
      BY <3>1, MetadataAssumption DEF IndInv, TypeOK, DataTypes, Cells
    <3> QED BY <1>1, <2>1, <3>2, StoredIsNewer
  <2>4. PICK r \in Requests, d \in Creds : CompleteSingle(r, d)
    BY <1>1, <2>2, <2>3
       DEF Next, Work, Runner, SyncStep, vars, ForeignChange, Connect, Disconnect, SupportArrives,
           RefreshArrives, Crash, StartSingle, StartBulk, DeleteAuthFiles, AcquireLock, RemoteWrite,
           RemoteWriteFails, FinishSingle, CompleteBulkItem, Return, CompleteDelete, TakeConnected,
           PeriodicTick, TakeRefresh, DebounceWindowPasses, DebounceFires, TakeSnapshotVersion,
           FetchAuthFiles, FetchProviders, Fetch, PersistAPIKeys, FinishSync
  <2>5. /\ c = d /\ req[r].item[c] = "written" /\ local[c].alive
        /\ local'[c].gen = req[r].val[c]
    BY <1>1, <2>1, <2>4 DEF CompleteSingle, Cells
  <2>6. Excused(local[c], req[r].val[c])
    BY <1>1, <2>5 DEF IndInv, Core, OnlyForeignIsLater
  <2>7. req[r].val[c] \in Nat
    BY <1>1, GensAreNumbers DEF IndInv, TypeOK
  <2> QED BY <1>1, <2>1, <2>5, <2>6, <2>7 DEF Excused
<1>2. IndInv /\ [Next]_vars =>
        [\A c \in Creds : local'[c].gen < local[c].gen => local[c].gen \in foreign]_vars
  BY <1>1
<1> QED BY <1>2, Inductive, PTL DEF Spec, OwnChangesStay
=============================================================================
