----------------------- MODULE UsageAggregationProofs -----------------------
(***************************************************************************)
(* Proofs about UsageAggregation: types, and that every event is added to  *)
(* every rollup exactly once, for all bounds.                              *)
(*                                                                         *)
(* RollupExactlyOnce alone is not inductive.  It needs that the page in    *)
(* the runner's hands is exactly the gap between the cursor of the rollup  *)
(* it is about to be added to and the page's last event (PageIsGap), which *)
(* in turn needs that the cursors the turn works with are the stored ones  *)
(* (SnapshotIsCurrent) and that no event above a cursor has been archived  *)
(* (ArchivedBelowCursors).                                                 *)
(***************************************************************************)
EXTENDS UsageAggregation, WellFoundedInduction, TLAPS

Gap(p, c) == \E last \in p : p = {e \in Events : c < e /\ e <= last}

ArchivedBelowCursors == \A e \in archived : \A R \in Rollups : e <= cursor[R]

InTurn == pc \in {"load", "defer", "apply", "finish"}

SnapshotIsCurrent == InTurn => snap = cursor

PageIsGap ==
    /\ pc \in {"load", "defer", "apply"} => todo # {}
    /\ pc = "load" => ~shared
    /\ pc \in {"defer", "apply"} =>
         /\ Gap(page, cursor[Current])
         /\ shared => \A R \in todo : cursor[R] = cursor[Current]

Core == ArchivedBelowCursors /\ SnapshotIsCurrent /\ PageIsGap /\ RollupExactlyOnce
IndInv == TypeOK /\ Core

coreVars == <<archived, cursor, rows, snap, shared, todo, page, pc>>
-----------------------------------------------------------------------------
(***************************************************************************)
(* Facts about the operators.                                              *)
(***************************************************************************)

\* A non-empty set of naturals below a bound has a greatest element.
LEMMA MaxExists ==
    ASSUME NEW n \in Nat, NEW S, S \subseteq 0..n, S # {}
    PROVE  \E m \in S : \A x \in S : x <= m
<1> DEFINE T == {n - x : x \in S}
<1>1. T \subseteq Nat /\ T # {}
  <2>1. \A x \in S : n - x \in Nat
    OBVIOUS
  <2>2. PICK x \in S : TRUE
    OBVIOUS
  <2>3. n - x \in T
    OBVIOUS
  <2> QED BY <2>1, <2>3
<1>2. PICK y \in T : \A z \in T : ~(<<z, y>> \in OpToRel(<, Nat))
  <2> HIDE DEF T
  <2> QED BY <1>1, NatLessThanWellFounded, WFMin
<1>3. \A z \in T : ~(z < y)
  BY <1>1, <1>2 DEF OpToRel
<1>4. PICK m \in S : y = n - m
  OBVIOUS
<1>5. ASSUME NEW x \in S PROVE x <= m
  <2>1. n - x \in T
    OBVIOUS
  <2>2. ~(n - x < n - m)
    BY <1>3, <1>4, <2>1
  <2> QED BY <2>2
<1> QED BY <1>5

\* The greatest element is what LastOf, the code's events[len-1].ID, returns.
LEMMA LastOfIsMax ==
    ASSUME NEW S, S \subseteq Nat, NEW m \in S, \A x \in S : x <= m
    PROVE  LastOf(S) = m
<1>1. LastOf(S) \in S /\ \A x \in S : x <= LastOf(S)
  BY DEF LastOf
<1>2. LastOf(S) <= m /\ m <= LastOf(S)
  BY <1>1
<1>3. LastOf(S) \in Nat /\ m \in Nat
  BY <1>1
<1>4. \A a, b \in Nat : a <= b /\ b <= a => a = b
  OBVIOUS
<1> QED BY <1>2, <1>3, <1>4

\* The rollup a turn deals with next is one of those it has still to deal with.
LEMMA CurrentInTodo ==
    ASSUME todo \subseteq Rollups, todo # {}
    PROVE  Current \in todo
BY DEF Current, Rollups

\* A page loaded above a cursor holds every event up to its last one: nothing
\* above a cursor has been archived.
LEMMA PageFillsGap ==
    ASSUME TypeOK, ArchivedBelowCursors, NEW R \in Rollups, NEW t \in Nat,
           NEW p, p # {}, IsPage(p, cursor[R], t)
    PROVE  Gap(p, cursor[R])
<1>1. PICK last \in Hot : /\ cursor[R] < last /\ last <= t
                          /\ p = InPage(cursor[R], t, last)
  BY DEF IsPage
<1>2. cursor[R] \in Nat /\ lastId \in Nat /\ lastId <= MaxEvents /\ MaxEvents \in Nat
  BY AggregationAssumption DEF TypeOK, DbTypes, TurnTypes
<1>3. last \in p
  BY <1>1, <1>2 DEF InPage, Hot
<1>4. ASSUME NEW e \in Events, cursor[R] < e, e <= last PROVE e \in p
  <2>1. e \in 1..lastId
    BY <1>1, <1>2, <1>4 DEF Hot, Events
  <2>2. e \notin archived
    BY <1>2, <1>4, <2>1 DEF ArchivedBelowCursors
  <2>3. e <= t
    BY <1>1, <1>2, <1>4, <2>1 DEF Hot
  <2> QED BY <1>1, <1>4, <2>1, <2>2, <2>3 DEF InPage, Hot
<1>5. ASSUME NEW e \in p PROVE e \in Events /\ cursor[R] < e /\ e <= last
  BY <1>1, <1>2, <1>5 DEF InPage, Hot, Events
<1>6. p = {e \in Events : cursor[R] < e /\ e <= last}
  BY <1>4, <1>5
<1> QED BY <1>3, <1>6 DEF Gap

\* The last event of a page that fills a gap lies above the cursor, and the
\* gap ends there.
LEMMA GapEnds ==
    ASSUME NEW c \in Nat, NEW p, Gap(p, c)
    PROVE  /\ LastOf(p) \in Events /\ c < LastOf(p)
           /\ p = {e \in Events : c < e /\ e <= LastOf(p)}
<1>1. PICK last \in p : p = {e \in Events : c < e /\ e <= last}
  BY DEF Gap
<1>2. p \subseteq Nat /\ \A x \in p : x <= last
  BY <1>1 DEF Events
<1>3. LastOf(p) = last
  BY <1>2, LastOfIsMax
<1> QED BY <1>1, <1>3
-----------------------------------------------------------------------------
(***************************************************************************)
(* Steps that do not touch what Core speaks about.                         *)
(***************************************************************************)

\* The runner's callers leave the turn alone.
LEMMA Elsewhere == Core /\ UNCHANGED coreVars => Core'
BY DEF Core, coreVars, ArchivedBelowCursors, SnapshotIsCurrent, InTurn, PageIsGap, Gap,
       Current, RollupExactlyOnce

\* A step that ends outside a turn leaves nothing to prove about one.
LEMMA OutsideTurn ==
    ASSUME Core, UNCHANGED <<archived, cursor, rows>>,
           pc' \notin {"load", "defer", "apply", "finish"}
    PROVE  Core'
BY DEF Core, ArchivedBelowCursors, SnapshotIsCurrent, InTurn, PageIsGap, RollupExactlyOnce
-----------------------------------------------------------------------------
(***************************************************************************)
(* The steps that do.                                                      *)
(***************************************************************************)

\* usageEventAggregationsCaughtUp lets only events below every cursor go.
LEMMA ArchiveKeepsCore == TypeOK /\ Core /\ ArchiveExpiredUsageEvents => Core'
<1> SUFFICES ASSUME TypeOK, Core, ArchiveExpiredUsageEvents PROVE Core'
  OBVIOUS
<1>1. UNCHANGED <<cursor, rows, snap, shared, todo, page, pc>>
  BY DEF ArchiveExpiredUsageEvents, turn
<1>2. ArchivedBelowCursors'
  BY <1>1 DEF ArchiveExpiredUsageEvents, CaughtUp, Core, ArchivedBelowCursors
<1> QED
  BY <1>1, <1>2 DEF Core, SnapshotIsCurrent, InTurn, PageIsGap, Gap, Current, RollupExactlyOnce

\* A turn starts from the stored cursors, and its shared page fills the gap
\* above all of them.
LEMMA LoadSnapshotKeepsCore == TypeOK /\ Core /\ LoadSnapshot => Core'
<1> SUFFICES ASSUME TypeOK, Core, LoadSnapshot PROVE Core'
  OBVIOUS
<1> DEFINE lagging == {R \in Rollups : cursor[R] < tgt}
           equal   == \A R, Q \in Rollups : cursor[R] = cursor[Q]
<1>1. UNCHANGED <<archived, cursor, rows>>
  BY DEF LoadSnapshot, db
<1>2. ArchivedBelowCursors' /\ RollupExactlyOnce'
  BY <1>1 DEF Core, ArchivedBelowCursors, RollupExactlyOnce
<1>3. CASE pc' \notin {"load", "defer", "apply", "finish"}
  BY <1>1, <1>3, OutsideTurn
<1>4. CASE pc' = "finish"
  <2>1. snap' = cursor'
    BY <1>1, <1>4 DEF LoadSnapshot, TurnFails
  <2> QED BY <1>2, <1>4, <2>1 DEF Core, SnapshotIsCurrent, InTurn, PageIsGap
<1>5. CASE pc' = "load"
  <2>1. snap' = cursor' /\ todo' # {} /\ ~shared'
    BY <1>1, <1>5 DEF LoadSnapshot, TurnFails
  <2> QED BY <1>2, <1>5, <2>1 DEF Core, SnapshotIsCurrent, InTurn, PageIsGap
<1>6. CASE pc' = "defer"
  <2>1. /\ snap' = cursor' /\ todo' = lagging /\ lagging # {} /\ equal
        /\ page' # {} /\ IsPage(page', cursor["overview"], tgt)
    BY <1>1, <1>6 DEF LoadSnapshot, TurnFails
  <2>2. Gap(page', cursor["overview"])
    BY <2>1, PageFillsGap DEF TypeOK, DbTypes, TurnTypes, Core, Rollups
  <2>3. Current' \in Rollups
    BY DEF Current, Rollups
  <2>4. cursor'[Current'] = cursor["overview"] /\ \A R \in todo' : cursor'[R] = cursor'[Current']
    BY <1>1, <2>1, <2>3 DEF Rollups
  <2> QED BY <1>2, <1>6, <2>1, <2>2, <2>4 DEF Core, SnapshotIsCurrent, InTurn, PageIsGap, Gap
<1>7. pc' \in {"wait", "finish", "load", "defer"}
  BY DEF LoadSnapshot, TurnFails
<1> QED BY <1>3, <1>4, <1>5, <1>6, <1>7

\* A page of its own fills the gap above the rollup it was loaded for.
LEMMA LoadPageKeepsCore == TypeOK /\ Core /\ LoadPage => Core'
<1> SUFFICES ASSUME TypeOK, Core, LoadPage PROVE Core'
  OBVIOUS
<1>1. UNCHANGED <<archived, cursor, rows, snap, shared>> /\ pc = "load" /\ ~shared /\ snap = cursor
  BY DEF LoadPage, db, Core, PageIsGap, SnapshotIsCurrent, InTurn
<1>2. ArchivedBelowCursors' /\ RollupExactlyOnce' /\ SnapshotIsCurrent'
  BY <1>1 DEF Core, ArchivedBelowCursors, RollupExactlyOnce, SnapshotIsCurrent, InTurn
<1>3. CASE page' = {}
  BY <1>1, <1>2, <1>3 DEF LoadPage, NextRollup, Core, PageIsGap
<1>4. CASE page' # {}
  <2>1. IsPage(page', cursor[Current], tgt) /\ pc' = "defer" /\ todo' = todo
    BY <1>1, <1>4 DEF LoadPage
  <2>2. todo # {} /\ Current \in Rollups /\ Current' = Current
    BY <1>1, <2>1, CurrentInTodo DEF Core, PageIsGap, TypeOK, DbTypes, TurnTypes, Current
  <2>3. Gap(page', cursor[Current])
    BY <1>4, <2>1, <2>2, PageFillsGap DEF TypeOK, DbTypes, TurnTypes, Core
  <2>4. PageIsGap'
    BY <1>1, <2>1, <2>2, <2>3 DEF PageIsGap, Gap
  <2> QED BY <1>2, <2>4 DEF Core
<1> QED BY <1>3, <1>4

\* What NextRollup leaves to do: the page still fits the rollups that share it.
LEMMA NextRollupKeepsPage ==
    ASSUME TypeOK, PageIsGap, pc \in {"load", "defer", "apply"}, NextRollup,
           UNCHANGED <<shared, page>>,
           \A R \in todo \ {Current} : cursor'[R] = cursor[R]
    PROVE  PageIsGap'
<1>1. todo' = todo \ {Current}
  BY DEF NextRollup
<1>2. CASE todo' = {}
  BY <1>1, <1>2 DEF NextRollup, PageIsGap
<1>3. CASE todo' # {} /\ ~shared
  BY <1>1, <1>3 DEF NextRollup, PageIsGap
<1>4. CASE todo' # {} /\ shared
  <2>1. pc' = "defer" /\ pc \in {"defer", "apply"}
    BY <1>1, <1>4 DEF NextRollup, PageIsGap
  <2>2. Current' \in todo'
    BY <1>1, <1>4 DEF Current, TypeOK, DbTypes, TurnTypes, Rollups
  <2>3. \A R \in todo' : cursor'[R] = cursor[Current]
    BY <1>1, <1>4, <2>1 DEF PageIsGap
  <2>4. Gap(page', cursor'[Current'])
    BY <1>4, <2>1, <2>2, <2>3 DEF PageIsGap, Gap
  <2> QED BY <1>4, <2>1, <2>2, <2>3, <2>4 DEF PageIsGap
<1> QED BY <1>2, <1>3, <1>4

\* Looking at the inbox before a write changes neither the page nor a cursor.
LEMMA DeferForInboxKeepsCore == Core /\ DeferForInbox => Core'
BY DEF DeferForInbox, db, Core, ArchivedBelowCursors, SnapshotIsCurrent, InTurn, PageIsGap, Gap,
       Current, RollupExactlyOnce

\* A rollup that is skipped after a failure leaves the page of the others valid.
LEMMA PageFailsKeepsCore == TypeOK /\ Core /\ PageFails => Core'
<1> SUFFICES ASSUME TypeOK, Core, PageFails PROVE Core'
  OBVIOUS
<1>1. UNCHANGED <<archived, cursor, rows, snap, shared, page>> /\ pc \in {"load", "defer", "apply"}
  BY DEF PageFails, db
<1>2. ArchivedBelowCursors' /\ RollupExactlyOnce' /\ SnapshotIsCurrent'
  BY <1>1 DEF Core, ArchivedBelowCursors, RollupExactlyOnce, SnapshotIsCurrent, InTurn
<1>3. CASE pc = "defer"
  BY <1>1, <1>2, <1>3 DEF PageFails, Core, PageIsGap
<1>4. CASE pc # "defer"
  <2>1. NextRollup
    BY <1>4 DEF PageFails
  <2>2. PageIsGap'
    BY <1>1, <2>1, NextRollupKeepsPage DEF Core
  <2> QED BY <1>2, <2>2 DEF Core
<1> QED BY <1>3, <1>4

\* The heart of the matter: rows and cursor move together over exactly the gap.
LEMMA ApplyPageKeepsCore == TypeOK /\ Core /\ ApplyPage => Core'
<1> SUFFICES ASSUME TypeOK, Core, ApplyPage PROVE Core'
  OBVIOUS
<1> DEFINE last == LastOf(page)
<1>1. /\ UNCHANGED <<archived, shared, page>> /\ pc = "apply" /\ NextRollup
      /\ snap = cursor /\ Gap(page, cursor[Current]) /\ Current \in Rollups
  BY DEF ApplyPage, Core, PageIsGap, SnapshotIsCurrent, InTurn, Current, Rollups
<1>2. cursor \in [Rollups -> Nat] /\ cursor[Current] \in Nat /\ rows \in [Rollups -> [Events -> Nat]]
  BY <1>1 DEF TypeOK, DbTypes, TurnTypes
<1>3. /\ last \in Events /\ cursor[Current] < last
      /\ page = {e \in Events : cursor[Current] < e /\ e <= last}
  BY <1>1, <1>2, GapEnds
<1>4. /\ rows' = [rows EXCEPT ![Current] = [e \in Events |->
                     IF e \in page THEN rows[Current][e] + 1 ELSE rows[Current][e]]]
      /\ cursor' = [cursor EXCEPT ![Current] = last]
      /\ snap' = [snap EXCEPT ![Current] = last]
  BY <1>1, <1>3 DEF ApplyPage
<1> HIDE DEF last
<1>5. last \in Nat
  BY <1>3 DEF Events
<1>6. SnapshotIsCurrent'
  BY <1>1, <1>4 DEF SnapshotIsCurrent
<1>7. ArchivedBelowCursors'
  <2> SUFFICES ASSUME NEW e \in archived, NEW R \in Rollups PROVE e <= cursor'[R]
    BY <1>1 DEF ArchivedBelowCursors
  <2>1. e <= cursor[R] /\ e \in Nat
    BY AggregationAssumption DEF Core, ArchivedBelowCursors, TypeOK, DbTypes, TurnTypes
  <2> QED BY <1>2, <1>3, <1>4, <1>5, <2>1
<1>8. RollupExactlyOnce'
  <2> SUFFICES ASSUME NEW R \in Rollups, NEW e \in Events
               PROVE  rows'[R][e] = IF e <= cursor'[R] THEN 1 ELSE 0
    BY DEF RollupExactlyOnce
  <2>1. rows[R][e] = IF e <= cursor[R] THEN 1 ELSE 0
    BY DEF Core, RollupExactlyOnce
  <2>2. CASE R # Current
    BY <1>1, <1>2, <1>4, <2>1, <2>2
  <2>3. CASE R = Current
    <3>1. cursor'[R] = last /\ rows'[R][e] = IF e \in page THEN rows[R][e] + 1 ELSE rows[R][e]
      BY <1>1, <1>2, <1>4, <2>3
    <3>2. e \in Nat /\ (e \in page <=> cursor[R] < e /\ e <= last)
      BY <1>3, <2>3 DEF Events
    <3> QED BY <1>2, <1>3, <1>5, <2>1, <2>3, <3>1, <3>2
  <2> QED BY <2>2, <2>3
<1>9. PageIsGap'
  <2>1. \A R \in todo \ {Current} : cursor'[R] = cursor[R]
    BY <1>2, <1>4 DEF TypeOK, DbTypes, TurnTypes
  <2> QED BY <1>1, <2>1, NextRollupKeepsPage DEF Core
<1> QED BY <1>6, <1>7, <1>8, <1>9 DEF Core

\* Every step keeps the core of the invariant: one case per action of Next.
LEMMA CoreStep == TypeOK /\ Core /\ [Next]_vars => Core'
<1> SUFFICES ASSUME TypeOK, Core, [Next]_vars PROVE Core'
  OBVIOUS
<1> USE DEF db, turn
<1>1. CASE CommitEvents
  BY <1>1, Elsewhere DEF CommitEvents, coreVars
<1>2. CASE NotifyUsageEventsCommitted
  BY <1>2, Elsewhere DEF NotifyUsageEventsCommitted, coreVars
<1>3. CASE NewIdentity
  BY <1>3, Elsewhere DEF NewIdentity, coreVars
<1>4. CASE NotifyUsageIdentitiesChanged
  BY <1>4, Elsewhere DEF NotifyUsageIdentitiesChanged, coreVars
<1>5. CASE InboxFills
  BY <1>5, Elsewhere DEF InboxFills, coreVars
<1>6. CASE InboxDrains
  BY <1>6, Elsewhere DEF InboxDrains, coreVars
<1>7. CASE Crash
  BY <1>7, OutsideTurn DEF Crash
<1>8. CASE Boot
  BY <1>8, OutsideTurn DEF Boot
<1>9. CASE LoadStartupTarget
  BY <1>9, OutsideTurn DEF LoadStartupTarget
<1>10. CASE SetStartupTarget
  BY <1>10, OutsideTurn DEF SetStartupTarget
<1>11. CASE LoopTop
  BY <1>11, OutsideTurn DEF LoopTop
<1>12. CASE FreezePendingTarget
  BY <1>12, OutsideTurn DEF FreezePendingTarget
<1>13. CASE WakeUp
  BY <1>13, OutsideTurn DEF WakeUp
<1>14. CASE RetryDelayEnds
  BY <1>14, OutsideTurn DEF RetryDelayEnds
<1>15. CASE BeginTurn
  BY <1>15, OutsideTurn DEF BeginTurn
<1>16. CASE QueryFails
  BY <1>16, OutsideTurn DEF QueryFails, TurnFails
<1>17. CASE CheckInbox
  BY <1>17, OutsideTurn DEF CheckInbox, NoTurn
<1>18. CASE FinishRollups
  BY <1>18, OutsideTurn DEF FinishRollups, TurnFails
<1>19. CASE AggregateIdentities
  BY <1>19, OutsideTurn DEF AggregateIdentities
<1>20. CASE ArchiveExpiredUsageEvents
  BY <1>20, ArchiveKeepsCore
<1>21. CASE LoadSnapshot
  BY <1>21, LoadSnapshotKeepsCore
<1>22. CASE LoadPage
  BY <1>22, LoadPageKeepsCore
<1>23. CASE DeferForInbox
  BY <1>23, DeferForInboxKeepsCore
<1>24. CASE ApplyPage
  BY <1>24, ApplyPageKeepsCore
<1>25. CASE PageFails
  BY <1>25, PageFailsKeepsCore
<1>26. CASE UNCHANGED vars
  BY <1>26, Elsewhere DEF vars, coreVars
<1> QED
  BY <1>1, <1>2, <1>3, <1>4, <1>5, <1>6, <1>7, <1>8, <1>9, <1>10, <1>11, <1>12, <1>13,
     <1>14, <1>15, <1>16, <1>17, <1>18, <1>19, <1>20, <1>21, <1>22, <1>23, <1>24, <1>25, <1>26
     DEF Next, Runner, Notifications
-----------------------------------------------------------------------------
(***************************************************************************)
(* Types.                                                                  *)
(***************************************************************************)

dbVars == <<lastId, archived, orphaned, cursor, rows, owner, identities, icursor, irows>>
memoryVars == <<nextKind, activeTarget, pending, identityAfter, targetGen, scanGen, owed,
                arrivals, faults>>
turnVars == <<pc, kind, tgt, passGen, snap, todo, page>>

\* The types of the database's columns survive a step that leaves them alone.
LEMMA DbUndisturbed == DbTypes /\ UNCHANGED dbVars => DbTypes'
BY DEF DbTypes, dbVars

\* The same for the memory the runner guards with its mutex ...
LEMMA MemoryUndisturbed == MemoryTypes /\ UNCHANGED memoryVars => MemoryTypes'
BY DEF MemoryTypes, memoryVars

\* ... and for the variables of a turn.
LEMMA TurnUndisturbed == TurnTypes /\ UNCHANGED turnVars => TurnTypes'
BY DEF TurnTypes, turnVars

\* The snapshot of the cursors and the shared page have their types.
LEMMA LoadSnapshotKeepsTypes == TypeOK /\ LoadSnapshot => MemoryTypes' /\ TurnTypes'
<1> SUFFICES ASSUME TypeOK, LoadSnapshot PROVE MemoryTypes' /\ TurnTypes'
  OBVIOUS
<1> USE DEF TypeOK
<1>1. MemoryTypes'
  BY DEF LoadSnapshot, TurnFails, targets, scan, callers, hist, MemoryTypes, Kinds
<1>2. \/ TurnFails
      \/ /\ pc' \in {"finish", "load", "defer"} /\ page' \subseteq Hot
         /\ snap' = cursor /\ todo' = {R \in Rollups : cursor[R] < tgt}
         /\ UNCHANGED <<kind, tgt, passGen>>
  BY DEF LoadSnapshot
<1>3. CASE TurnFails
  BY <1>1, <1>3 DEF TurnFails, NoTurn, TurnTypes, PCs, Kinds
<1>4. CASE ~TurnFails
  <2>1. page' \subseteq Events
    BY <1>2, <1>4, AggregationAssumption DEF Hot, DbTypes, Events
  <2> QED BY <1>1, <1>2, <1>4, <2>1 DEF TurnTypes, DbTypes, PCs, Kinds
<1> QED BY <1>3, <1>4

\* A cursor moves to the id of an event, because the page is a gap.
LEMMA ApplyPageKeepsTypes == TypeOK /\ Core /\ ApplyPage => TypeOK'
<1> SUFFICES ASSUME TypeOK, Core, ApplyPage PROVE TypeOK'
  OBVIOUS
<1> USE DEF TypeOK
<1>1. LastOf(page) \in Nat /\ Current \in Rollups
  <2>1. Gap(page, cursor[Current]) /\ Current \in Rollups
    BY DEF ApplyPage, Core, PageIsGap, Current, Rollups
  <2>2. cursor[Current] \in Nat
    BY <2>1 DEF DbTypes
  <2> QED BY <2>1, <2>2, GapEnds DEF Events
<1>2. UNCHANGED memoryVars
  BY DEF ApplyPage, memoryVars, targets, scan, callers, hist
<1>3. FlagTypes'
  BY Zenon DEF FlagTypes, ApplyPage, targets, callers
<1>4. cursor' \in [Rollups -> Nat] /\ snap' \in [Rollups -> Nat] /\ rows' \in [Rollups -> [Events -> Nat]]
  <2>1. CASE cursor[Current] = snap[Current] /\ LastOf(page) > snap[Current]
    <3> DEFINE new == [e \in Events |-> IF e \in page THEN rows[Current][e] + 1 ELSE rows[Current][e]]
    <3>1. /\ rows' = [rows EXCEPT ![Current] = new]
          /\ cursor' = [cursor EXCEPT ![Current] = LastOf(page)]
          /\ snap' = [snap EXCEPT ![Current] = LastOf(page)]
      BY <2>1 DEF ApplyPage
    <3>2. new \in [Events -> Nat]
      BY <1>1 DEF DbTypes
    <3> HIDE DEF new
    <3> QED BY <1>1, <3>1, <3>2 DEF DbTypes, TurnTypes
  <2>2. CASE ~(cursor[Current] = snap[Current] /\ LastOf(page) > snap[Current])
    BY <1>1, <2>2 DEF ApplyPage, DbTypes, TurnTypes
  <2> QED BY <2>1, <2>2
<1>5. DbTypes'
  BY <1>4 DEF ApplyPage, DbTypes, hist
<1>6. TurnTypes'
  BY <1>4 DEF ApplyPage, NextRollup, TurnTypes, PCs
<1> QED BY <1>2, <1>3, <1>5, <1>6, MemoryUndisturbed

\* An identity's cursor moves to the id of one of its events.
LEMMA AggregateIdentitiesKeepsTypes == TypeOK /\ AggregateIdentities => TypeOK'
<1> SUFFICES ASSUME TypeOK, AggregateIdentities PROVE TypeOK'
  OBVIOUS
<1> USE AggregationAssumption DEF TypeOK
<1>1. \A i \in Identities : Delta(i) # {} => LastOf(Delta(i)) \in Nat
  <2> SUFFICES ASSUME NEW i \in Identities, Delta(i) # {} PROVE LastOf(Delta(i)) \in Nat
    OBVIOUS
  <2>1. Delta(i) \subseteq 0..lastId /\ lastId \in Nat
    BY DEF Delta, Hot, DbTypes
  <2>2. PICK m \in Delta(i) : \A x \in Delta(i) : x <= m
    BY <2>1, MaxExists
  <2>3. LastOf(Delta(i)) = m
    BY <2>1, <2>2, LastOfIsMax
  <2> QED BY <2>1, <2>2, <2>3
<1>2. FlagTypes'
  BY Zenon DEF FlagTypes, AggregateIdentities, NoTurn, targets, callers
<1>3. icursor' \in [Identities -> Nat] /\ irows' \in [Events -> Nat]
  BY <1>1 DEF AggregateIdentities, DbTypes
<1>4. DbTypes'
  BY <1>3 DEF AggregateIdentities, DbTypes, hist
<1>5. MemoryTypes'
  BY DEF AggregateIdentities, MemoryTypes, TurnTypes, DbTypes, Kinds, targets, callers, hist
<1>6. TurnTypes'
  BY DEF AggregateIdentities, NoTurn, TurnTypes, PCs, Kinds
<1> QED BY <1>2, <1>4, <1>5, <1>6

\* Every step keeps the types: one case per action of Next.
LEMMA TypeStep == TypeOK /\ Core /\ [Next]_vars => TypeOK'
<1> SUFFICES ASSUME TypeOK, Core, [Next]_vars PROVE TypeOK'
  OBVIOUS
<1> USE DEF TypeOK, db, targets, scan, turn, callers, hist
<1>1. CASE CommitEvents
  <2>1. FlagTypes'
    BY <1>1, Zenon DEF FlagTypes, CommitEvents
  <2>2. DbTypes'
    BY <1>1, AggregationAssumption DEF DbTypes, CommitEvents
  <2>3. MemoryTypes'
    BY <1>1 DEF MemoryTypes, DbTypes, TurnTypes, Kinds, CommitEvents
  <2>4. TurnTypes'
    BY <1>1, TurnUndisturbed DEF CommitEvents, turnVars
  <2> QED BY <2>1, <2>2, <2>3, <2>4
<1>2. CASE NotifyUsageEventsCommitted
  <2>1. FlagTypes'
    BY <1>2, Zenon DEF FlagTypes, NotifyUsageEventsCommitted, Max2
  <2>2. DbTypes'
    BY <1>2, DbUndisturbed DEF NotifyUsageEventsCommitted, Max2, dbVars
  <2>3. MemoryTypes'
    BY <1>2 DEF MemoryTypes, DbTypes, TurnTypes, Kinds, NotifyUsageEventsCommitted, Max2
  <2>4. TurnTypes'
    BY <1>2, TurnUndisturbed DEF NotifyUsageEventsCommitted, Max2, turnVars
  <2> QED BY <2>1, <2>2, <2>3, <2>4
<1>3. CASE NewIdentity
  <2>1. FlagTypes'
    BY <1>3, Zenon DEF FlagTypes, NewIdentity
  <2>2. DbTypes'
    BY <1>3, AggregationAssumption DEF DbTypes, NewIdentity
  <2>3. MemoryTypes'
    BY <1>3, MemoryUndisturbed DEF NewIdentity, memoryVars
  <2>4. TurnTypes'
    BY <1>3, TurnUndisturbed DEF NewIdentity, turnVars
  <2> QED BY <2>1, <2>2, <2>3, <2>4
<1>4. CASE NotifyUsageIdentitiesChanged
  <2>1. FlagTypes'
    BY <1>4, Zenon DEF FlagTypes, NotifyUsageIdentitiesChanged
  <2>2. DbTypes'
    BY <1>4, DbUndisturbed DEF NotifyUsageIdentitiesChanged, dbVars
  <2>3. MemoryTypes'
    BY <1>4 DEF MemoryTypes, DbTypes, TurnTypes, Kinds, NotifyUsageIdentitiesChanged
  <2>4. TurnTypes'
    BY <1>4, TurnUndisturbed DEF NotifyUsageIdentitiesChanged, turnVars
  <2> QED BY <2>1, <2>2, <2>3, <2>4
<1>5. CASE InboxFills
  <2>1. FlagTypes'
    BY <1>5, Zenon DEF FlagTypes, InboxFills
  <2>2. DbTypes'
    BY <1>5, DbUndisturbed DEF InboxFills, dbVars
  <2>3. MemoryTypes'
    BY <1>5 DEF MemoryTypes, DbTypes, TurnTypes, Kinds, InboxFills
  <2>4. TurnTypes'
    BY <1>5, TurnUndisturbed DEF InboxFills, turnVars
  <2> QED BY <2>1, <2>2, <2>3, <2>4
<1>6. CASE InboxDrains
  <2>1. FlagTypes'
    BY <1>6, Zenon DEF FlagTypes, InboxDrains
  <2>2. DbTypes'
    BY <1>6, DbUndisturbed DEF InboxDrains, dbVars
  <2>3. MemoryTypes'
    BY <1>6, MemoryUndisturbed DEF InboxDrains, memoryVars
  <2>4. TurnTypes'
    BY <1>6, TurnUndisturbed DEF InboxDrains, turnVars
  <2> QED BY <2>1, <2>2, <2>3, <2>4
<1>7. CASE Crash
  <2>1. FlagTypes'
    BY <1>7, Zenon DEF FlagTypes, Crash, FreshMemory, NoTurn
  <2>2. DbTypes'
    BY <1>7, DbUndisturbed DEF Crash, FreshMemory, NoTurn, dbVars
  <2>3. MemoryTypes'
    BY <1>7 DEF MemoryTypes, DbTypes, TurnTypes, Kinds, Crash, FreshMemory, NoTurn
  <2>4. TurnTypes'
    BY <1>7, AggregationAssumption DEF TurnTypes, PCs, Kinds, Crash, FreshMemory, NoTurn
  <2> QED BY <2>1, <2>2, <2>3, <2>4
<1>8. CASE Boot
  <2>1. FlagTypes'
    BY <1>8, Zenon DEF FlagTypes, Boot
  <2>2. DbTypes'
    BY <1>8, DbUndisturbed DEF Boot, dbVars
  <2>3. MemoryTypes'
    BY <1>8, MemoryUndisturbed DEF Boot, memoryVars
  <2>4. TurnTypes'
    BY <1>8, AggregationAssumption DEF TurnTypes, PCs, Kinds, Boot
  <2> QED BY <2>1, <2>2, <2>3, <2>4
<1>9. CASE LoadStartupTarget
  <2>1. FlagTypes'
    BY <1>9, Zenon DEF FlagTypes, LoadStartupTarget, Hot
  <2>2. DbTypes'
    BY <1>9, DbUndisturbed DEF LoadStartupTarget, Hot, dbVars
  <2>3. MemoryTypes'
    BY <1>9, MemoryUndisturbed DEF LoadStartupTarget, Hot, memoryVars
  <2>4. TurnTypes'
    BY <1>9, AggregationAssumption DEF TurnTypes, PCs, Kinds, LoadStartupTarget, Hot, Hot, DbTypes
  <2> QED BY <2>1, <2>2, <2>3, <2>4
<1>10. CASE SetStartupTarget
  <2>1. FlagTypes'
    BY <1>10, Zenon DEF FlagTypes, SetStartupTarget, NoTurn
  <2>2. DbTypes'
    BY <1>10, DbUndisturbed DEF SetStartupTarget, NoTurn, dbVars
  <2>3. MemoryTypes'
    BY <1>10 DEF MemoryTypes, DbTypes, TurnTypes, Kinds, SetStartupTarget, NoTurn
  <2>4. TurnTypes'
    BY <1>10, AggregationAssumption DEF TurnTypes, PCs, Kinds, SetStartupTarget, NoTurn
  <2> QED BY <2>1, <2>2, <2>3, <2>4
<1>11. CASE LoopTop
  <2>1. FlagTypes'
    BY <1>11, Zenon DEF FlagTypes, LoopTop, PendingRollupWindow
  <2>2. DbTypes'
    BY <1>11, DbUndisturbed DEF LoopTop, PendingRollupWindow, dbVars
  <2>3. MemoryTypes'
    BY <1>11, MemoryUndisturbed DEF LoopTop, PendingRollupWindow, memoryVars
  <2>4. TurnTypes'
    BY <1>11, AggregationAssumption DEF TurnTypes, PCs, Kinds, LoopTop, PendingRollupWindow
  <2> QED BY <2>1, <2>2, <2>3, <2>4
<1>12. CASE FreezePendingTarget
  <2>1. FlagTypes'
    BY <1>12, Zenon DEF FlagTypes, FreezePendingTarget
  <2>2. DbTypes'
    BY <1>12, DbUndisturbed DEF FreezePendingTarget, dbVars
  <2>3. MemoryTypes'
    BY <1>12 DEF MemoryTypes, DbTypes, TurnTypes, Kinds, FreezePendingTarget
  <2>4. TurnTypes'
    BY <1>12, AggregationAssumption DEF TurnTypes, PCs, Kinds, FreezePendingTarget
  <2> QED BY <2>1, <2>2, <2>3, <2>4
<1>13. CASE WakeUp
  <2>1. FlagTypes'
    BY <1>13, Zenon DEF FlagTypes, WakeUp
  <2>2. DbTypes'
    BY <1>13, DbUndisturbed DEF WakeUp, dbVars
  <2>3. MemoryTypes'
    BY <1>13, MemoryUndisturbed DEF WakeUp, memoryVars
  <2>4. TurnTypes'
    BY <1>13, AggregationAssumption DEF TurnTypes, PCs, Kinds, WakeUp
  <2> QED BY <2>1, <2>2, <2>3, <2>4
<1>14. CASE RetryDelayEnds
  <2>1. FlagTypes'
    BY <1>14, Zenon DEF FlagTypes, RetryDelayEnds
  <2>2. DbTypes'
    BY <1>14, DbUndisturbed DEF RetryDelayEnds, dbVars
  <2>3. MemoryTypes'
    BY <1>14, MemoryUndisturbed DEF RetryDelayEnds, memoryVars
  <2>4. TurnTypes'
    BY <1>14, AggregationAssumption DEF TurnTypes, PCs, Kinds, RetryDelayEnds
  <2> QED BY <2>1, <2>2, <2>3, <2>4
<1>15. CASE BeginTurn
  <2>1. FlagTypes'
    BY <1>15, Zenon DEF FlagTypes, BeginTurn, NextRunnableKind
  <2>2. DbTypes'
    BY <1>15, DbUndisturbed DEF BeginTurn, NextRunnableKind, dbVars
  <2>3. MemoryTypes'
    BY <1>15, MemoryUndisturbed DEF BeginTurn, NextRunnableKind, memoryVars
  <2>4. TurnTypes'
    BY <1>15, AggregationAssumption DEF TurnTypes, PCs, Kinds, BeginTurn, NextRunnableKind, MemoryTypes
  <2> QED BY <2>1, <2>2, <2>3, <2>4
<1>16. CASE QueryFails
  <2>1. FlagTypes'
    BY <1>16, Zenon DEF FlagTypes, QueryFails, TurnFails, NoTurn
  <2>2. DbTypes'
    BY <1>16, DbUndisturbed DEF QueryFails, TurnFails, NoTurn, dbVars
  <2>3. MemoryTypes'
    BY <1>16 DEF MemoryTypes, DbTypes, TurnTypes, Kinds, QueryFails, TurnFails, NoTurn
  <2>4. TurnTypes'
    BY <1>16, AggregationAssumption DEF TurnTypes, PCs, Kinds, QueryFails, TurnFails, NoTurn
  <2> QED BY <2>1, <2>2, <2>3, <2>4
<1>17. CASE CheckInbox
  <2>1. FlagTypes'
    BY <1>17, Zenon DEF FlagTypes, CheckInbox, NoTurn
  <2>2. DbTypes'
    BY <1>17, DbUndisturbed DEF CheckInbox, NoTurn, dbVars
  <2>3. MemoryTypes'
    BY <1>17, MemoryUndisturbed DEF CheckInbox, NoTurn, memoryVars
  <2>4. TurnTypes'
    <3>1. CASE inbox
      BY <1>17, <3>1 DEF TurnTypes, PCs, Kinds, CheckInbox, NoTurn
    <3>2. CASE ~inbox
      BY <1>17, <3>2 DEF TurnTypes, PCs, CheckInbox, NoTurn
    <3> QED BY <3>1, <3>2
  <2> QED BY <2>1, <2>2, <2>3, <2>4
<1>18. CASE FinishRollups
  <2>1. FlagTypes'
    BY <1>18, Zenon DEF FlagTypes, FinishRollups, TurnFails, NoTurn
  <2>2. DbTypes'
    BY <1>18, DbUndisturbed DEF FinishRollups, TurnFails, NoTurn, dbVars
  <2>3. MemoryTypes'
    BY <1>18 DEF MemoryTypes, DbTypes, TurnTypes, Kinds, FinishRollups, TurnFails, NoTurn
  <2>4. TurnTypes'
    BY <1>18, AggregationAssumption DEF TurnTypes, PCs, Kinds, FinishRollups, TurnFails, NoTurn
  <2> QED BY <2>1, <2>2, <2>3, <2>4
<1>19. CASE ArchiveExpiredUsageEvents
  <2>1. FlagTypes'
    BY <1>19, Zenon DEF FlagTypes, ArchiveExpiredUsageEvents
  <2>2. DbTypes'
    <3>1. archived' \subseteq 1..lastId /\ orphaned' \subseteq archived'
      BY <1>19 DEF DbTypes, ArchiveExpiredUsageEvents, Hot
    <3> QED BY <1>19, <3>1 DEF DbTypes, ArchiveExpiredUsageEvents
  <2>3. MemoryTypes'
    BY <1>19, MemoryUndisturbed DEF ArchiveExpiredUsageEvents, memoryVars
  <2>4. TurnTypes'
    BY <1>19, TurnUndisturbed DEF ArchiveExpiredUsageEvents, turnVars
  <2> QED BY <2>1, <2>2, <2>3, <2>4
<1>20. CASE LoadSnapshot
  <2>1. FlagTypes'
    BY <1>20, Zenon DEF FlagTypes, LoadSnapshot, TurnFails, NoTurn
  <2>2. DbTypes'
    BY <1>20, DbUndisturbed DEF LoadSnapshot, TurnFails, NoTurn, dbVars
  <2> QED BY <1>20, <2>1, <2>2, LoadSnapshotKeepsTypes
<1>21. CASE LoadPage
  <2>1. FlagTypes'
    BY <1>21, Zenon DEF FlagTypes, LoadPage, NextRollup
  <2>2. DbTypes'
    BY <1>21, DbUndisturbed DEF LoadPage, NextRollup, dbVars
  <2>3. MemoryTypes'
    BY <1>21, MemoryUndisturbed DEF LoadPage, NextRollup, memoryVars
  <2>4. TurnTypes'
    BY <1>21, AggregationAssumption DEF TurnTypes, PCs, Kinds, LoadPage, NextRollup, Hot, DbTypes, Events
  <2> QED BY <2>1, <2>2, <2>3, <2>4
<1>22. CASE DeferForInbox
  <2>1. FlagTypes'
    BY <1>22, Zenon DEF FlagTypes, DeferForInbox
  <2>2. DbTypes'
    BY <1>22, DbUndisturbed DEF DeferForInbox, dbVars
  <2>3. MemoryTypes'
    BY <1>22, MemoryUndisturbed DEF DeferForInbox, memoryVars
  <2>4. TurnTypes'
    BY <1>22, AggregationAssumption DEF TurnTypes, PCs, Kinds, DeferForInbox
  <2> QED BY <2>1, <2>2, <2>3, <2>4
<1>23. CASE PageFails
  <2>1. FlagTypes'
    BY <1>23, Zenon DEF FlagTypes, PageFails, NextRollup
  <2>2. DbTypes'
    BY <1>23, DbUndisturbed DEF PageFails, NextRollup, dbVars
  <2>3. MemoryTypes'
    BY <1>23 DEF MemoryTypes, DbTypes, TurnTypes, Kinds, PageFails, NextRollup
  <2>4. TurnTypes'
    BY <1>23, AggregationAssumption DEF TurnTypes, PCs, Kinds, PageFails, NextRollup
  <2> QED BY <2>1, <2>2, <2>3, <2>4
<1>24. CASE ApplyPage
  BY <1>24, ApplyPageKeepsTypes
<1>25. CASE AggregateIdentities
  BY <1>25, AggregateIdentitiesKeepsTypes
<1>26. CASE UNCHANGED vars
  <2>1. FlagTypes'
    BY <1>26, Zenon DEF FlagTypes, vars
  <2> QED
    BY <1>26, <2>1, DbUndisturbed, MemoryUndisturbed, TurnUndisturbed
       DEF vars, dbVars, memoryVars, turnVars
<1> QED
  BY <1>1, <1>2, <1>3, <1>4, <1>5, <1>6, <1>7, <1>8, <1>9, <1>10, <1>11, <1>12, <1>13,
     <1>14, <1>15, <1>16, <1>17, <1>18, <1>19, <1>20, <1>21, <1>22, <1>23, <1>24, <1>25, <1>26
     DEF Next, Runner, Notifications
-----------------------------------------------------------------------------
\* The empty database satisfies the invariant.
LEMMA InitIndInv == Init => IndInv
<1> SUFFICES ASSUME Init PROVE IndInv
  OBVIOUS
<1> USE AggregationAssumption DEF Init
<1>1. FlagTypes
  BY Zenon DEF FlagTypes
<1>2. DbTypes /\ MemoryTypes /\ TurnTypes
  BY DEF DbTypes, MemoryTypes, TurnTypes, PCs, Kinds, Events, Identities
<1>3. Core
  BY DEF Core, ArchivedBelowCursors, SnapshotIsCurrent, InTurn, PageIsGap, RollupExactlyOnce,
         Events
<1> QED BY <1>1, <1>2, <1>3 DEF IndInv, TypeOK

\* The inductive invariant of the runner, its callers and the archive.
THEOREM Inductive == Spec => []IndInv
<1>1. IndInv /\ [Next]_vars => IndInv'
  BY TypeStep, CoreStep DEF IndInv
<1> QED BY <1>1, InitIndInv, PTL DEF Spec

\* Every variable keeps its type: in particular cursors only ever take the id
\* of an event, and the page a turn holds is a set of events.
THEOREM TypeCorrect == Spec => []TypeOK
<1>1. IndInv => TypeOK
  BY DEF IndInv
<1> QED BY <1>1, Inductive, PTL

\* Every event is added to every rollup exactly once, at the moment the
\* rollup's cursor passes it: for any number of events, any page size, any
\* number of faults, crashes, deferrals and archive runs.
THEOREM RollupsExactlyOnce == Spec => []RollupExactlyOnce
<1>1. IndInv => RollupExactlyOnce
  BY DEF IndInv, Core
<1> QED BY <1>1, Inductive, PTL
-----------------------------------------------------------------------------
(***************************************************************************)
(* Identity totals and the archive.  IdentityExactlyOnce needs that an     *)
(* archived event is either below its identity's cursor or recorded as     *)
(* archived before the row existed, and that rows start at cursor zero.    *)
(***************************************************************************)

ArchivedBelowIdentities ==
    \A e \in archived : e \in orphaned \/ e <= icursor[owner[e]]

NewRowsStartAtZero == \A i \in Identities : i > identities => icursor[i] = 0

IdentityCore == IdentityExactlyOnce /\ ArchivedBelowIdentities /\ NewRowsStartAtZero

identityVars == <<archived, orphaned, owner, identities, icursor, irows>>

\* Steps that touch no identity column keep the identity totals right.
LEMMA IdentityElsewhere == IdentityCore /\ UNCHANGED identityVars => IdentityCore'
BY DEF IdentityCore, identityVars, IdentityExactlyOnce, ArchivedBelowIdentities, NewRowsStartAtZero

\* A new identity row starts with its cursor at zero.
LEMMA NewIdentityKeepsTotals == TypeOK /\ IdentityCore /\ NewIdentity => IdentityCore'
<1> SUFFICES ASSUME TypeOK, IdentityCore, NewIdentity PROVE IdentityCore'
  OBVIOUS
<1>1. UNCHANGED <<archived, orphaned, owner, icursor, irows>> /\ identities' = identities + 1
  BY DEF NewIdentity, hist
<1>2. IdentityExactlyOnce' /\ ArchivedBelowIdentities'
  BY <1>1 DEF IdentityCore, IdentityExactlyOnce, ArchivedBelowIdentities
<1>3. NewRowsStartAtZero'
  BY <1>1, AggregationAssumption DEF IdentityCore, NewRowsStartAtZero, TypeOK, DbTypes, Identities
<1> QED BY <1>2, <1>3 DEF IdentityCore

\* Only events below their identity's cursor go, or events of no identity:
\* those are in no totals yet, and are recorded as orphaned.
LEMMA ArchiveKeepsTotals == TypeOK /\ IdentityCore /\ ArchiveExpiredUsageEvents => IdentityCore'
<1> SUFFICES ASSUME TypeOK, IdentityCore, ArchiveExpiredUsageEvents PROVE IdentityCore'
  OBVIOUS
<1>1. PICK S \in SUBSET Hot : /\ archived' = archived \cup S
                              /\ orphaned' = orphaned \cup {e \in S : owner[e] > identities}
  BY DEF ArchiveExpiredUsageEvents
<1>2. UNCHANGED <<owner, identities, icursor, irows>> /\ ~PendingIdentity
  BY DEF ArchiveExpiredUsageEvents, CaughtUp
<1>3. /\ lastId \in Nat /\ lastId <= MaxEvents /\ MaxEvents \in Nat /\ identities \in Nat
      /\ owner \in [Events -> Identities] /\ icursor \in [Identities -> Nat] /\ MaxIdentities \in Nat
  BY AggregationAssumption DEF TypeOK, DbTypes
<1>4. ASSUME NEW e \in S PROVE e \in Events /\ e \in Hot /\ e \in Nat /\ e > 0
  BY <1>1, <1>3 DEF Hot, Events
<1>5. ASSUME NEW e \in S, owner[e] <= identities PROVE e <= icursor[owner[e]]
  <2>1. e \in Events /\ e \in Hot /\ e \in Nat
    BY <1>4
  <2>2. owner[e] \in 1..identities /\ icursor[owner[e]] \in Nat
    BY <1>3, <1>5, <2>1 DEF Identities
  <2>3. e \notin Delta(owner[e])
    BY <1>2, <2>2 DEF PendingIdentity
  <2> QED BY <2>1, <2>2, <2>3 DEF Delta
<1>6. ASSUME NEW e \in S, owner[e] > identities PROVE irows[e] = 0
  <2>1. e \in Events /\ e \in Nat /\ e > 0
    BY <1>4
  <2>2. icursor[owner[e]] = 0
    BY <1>3, <1>6, <2>1 DEF IdentityCore, NewRowsStartAtZero
  <2> QED BY <2>1, <2>2 DEF IdentityCore, IdentityExactlyOnce
<1>7. IdentityExactlyOnce'
  <2> SUFFICES ASSUME NEW e \in Events
               PROVE  irows[e] = IF e <= icursor[owner[e]] /\ e \notin orphaned' THEN 1 ELSE 0
    BY <1>2 DEF IdentityExactlyOnce
  <2>1. irows[e] = IF e <= icursor[owner[e]] /\ e \notin orphaned THEN 1 ELSE 0
    BY DEF IdentityCore, IdentityExactlyOnce
  <2>2. CASE e \in S /\ owner[e] > identities
    BY <1>1, <1>6, <2>2
  <2>3. CASE ~(e \in S /\ owner[e] > identities)
    BY <1>1, <2>1, <2>3
  <2> QED BY <2>2, <2>3
<1>8. ArchivedBelowIdentities'
  <2> SUFFICES ASSUME NEW e \in archived' PROVE e \in orphaned' \/ e <= icursor[owner[e]]
    BY <1>2 DEF ArchivedBelowIdentities
  <2>1. CASE e \in archived
    BY <1>1, <2>1 DEF IdentityCore, ArchivedBelowIdentities
  <2>2. CASE e \in S
    <3>1. owner[e] \in Nat
      BY <1>3, <1>4, <2>2 DEF Identities
    <3> QED BY <1>1, <1>3, <1>5, <2>2, <3>1
  <2> QED BY <1>1, <2>1, <2>2
<1>9. NewRowsStartAtZero'
  BY <1>2 DEF IdentityCore, NewRowsStartAtZero
<1> QED BY <1>7, <1>8, <1>9 DEF IdentityCore

\* A page of identities: each row's totals and cursor move together over all
\* its hot events.
LEMMA AggregateIdentitiesKeepsTotals == TypeOK /\ IdentityCore /\ AggregateIdentities => IdentityCore'
<1> SUFFICES ASSUME TypeOK, IdentityCore, AggregateIdentities PROVE IdentityCore'
  OBVIOUS
<1> DEFINE last == IF identityAfter + IdentityPageSize < identities
                     THEN identityAfter + IdentityPageSize ELSE identities
           ids == (identityAfter + 1)..last
           new == {e \in Hot : owner[e] \in ids /\ icursor[owner[e]] < e}
<1>1. /\ irows' = [e \in Events |-> IF e \in new THEN irows[e] + 1 ELSE irows[e]]
      /\ icursor' = [i \in Identities |->
                       IF i \in ids /\ Delta(i) # {} THEN LastOf(Delta(i)) ELSE icursor[i]]
      /\ UNCHANGED <<archived, orphaned, owner, identities>>
  BY DEF AggregateIdentities, hist
<1>2. /\ lastId \in Nat /\ lastId <= MaxEvents /\ MaxEvents \in Nat /\ identities \in Nat
      /\ owner \in [Events -> Identities] /\ icursor \in [Identities -> Nat]
      /\ orphaned \subseteq archived /\ archived \subseteq 1..lastId
      /\ identityAfter \in Nat /\ IdentityPageSize \in Nat
  BY AggregationAssumption DEF TypeOK, DbTypes, MemoryTypes
<1>3. ids \subseteq 1..identities
  BY <1>2
<1> HIDE DEF last, ids
<1>4. ASSUME NEW i \in Identities, Delta(i) # {}
      PROVE  /\ LastOf(Delta(i)) \in Delta(i) /\ LastOf(Delta(i)) \in 1..lastId
             /\ icursor[i] < LastOf(Delta(i))
             /\ \A e \in Delta(i) : e <= LastOf(Delta(i))
  <2>1. Delta(i) \subseteq 0..lastId /\ Delta(i) \subseteq 1..lastId
    BY <1>2 DEF Delta, Hot
  <2>2. PICK m \in Delta(i) : \A x \in Delta(i) : x <= m
    BY <1>2, <1>4, <2>1, MaxExists
  <2>3. LastOf(Delta(i)) = m
    BY <2>1, <2>2, LastOfIsMax
  <2>4. icursor[i] < m
    BY <2>2 DEF Delta
  <2> QED BY <2>1, <2>2, <2>3, <2>4
<1>5. \A i \in Identities : icursor'[i] \in Nat /\ icursor[i] <= icursor'[i]
  <2> SUFFICES ASSUME NEW i \in Identities PROVE icursor'[i] \in Nat /\ icursor[i] <= icursor'[i]
    OBVIOUS
  <2>1. icursor[i] \in Nat
    BY <1>2
  <2>2. CASE i \in ids /\ Delta(i) # {}
    <3>1. icursor'[i] = LastOf(Delta(i))
      BY <1>1, <2>2
    <3>2. LastOf(Delta(i)) \in Nat /\ icursor[i] < LastOf(Delta(i))
      BY <1>2, <1>4, <2>2
    <3> QED BY <2>1, <3>1, <3>2
  <2>3. CASE ~(i \in ids /\ Delta(i) # {})
    <3>1. icursor'[i] = icursor[i]
      BY <1>1, <2>3
    <3> QED BY <2>1, <3>1
  <2> QED BY <2>2, <2>3
<1>6. IdentityExactlyOnce'
  <2> SUFFICES ASSUME NEW e \in Events
               PROVE  irows'[e] = IF e <= icursor'[owner[e]] /\ e \notin orphaned THEN 1 ELSE 0
    BY <1>1 DEF IdentityExactlyOnce
  <2> DEFINE i == owner[e]
  <2>1. /\ irows[e] = IF e <= icursor[i] /\ e \notin orphaned THEN 1 ELSE 0
        /\ i \in Identities /\ e \in Nat /\ e > 0 /\ icursor[i] \in Nat
    BY <1>2 DEF IdentityCore, IdentityExactlyOnce, Events
  <2>2. e \in new <=> i \in ids /\ e \in Delta(i)
    BY DEF Delta
  <2>3. CASE i \in ids /\ e \in Delta(i)
    <3>1. e \in Hot /\ icursor[i] < e
      BY <2>3 DEF Delta
    <3>2. e \notin orphaned
      BY <1>2, <3>1 DEF Hot
    <3>3. icursor'[i] = LastOf(Delta(i)) /\ e <= LastOf(Delta(i))
      BY <1>1, <1>4, <2>1, <2>3
    <3>4. irows'[e] = irows[e] + 1
      BY <1>1, <2>2, <2>3
    <3>5. irows[e] = 0
      BY <2>1, <3>1
    <3> QED BY <3>2, <3>3, <3>4, <3>5
  <2>4. CASE ~(i \in ids /\ e \in Delta(i))
    <3>1. irows'[e] = irows[e]
      BY <1>1, <2>2, <2>4
    <3>2. CASE e <= icursor[i]
      <4>1. e <= icursor'[i]
        BY <1>5, <2>1, <3>2
      <4> QED BY <2>1, <3>1, <3>2, <4>1
    <3>3. CASE e \in orphaned
      BY <2>1, <3>1, <3>3
    <3>4. CASE ~(e <= icursor[i]) /\ e \notin orphaned
      <4>1. irows[e] = 0
        BY <2>1, <3>4
      <4>2. e \notin archived
        BY <3>4 DEF IdentityCore, ArchivedBelowIdentities
      <4>3. ~(e <= icursor'[i])
        <5>1. CASE i \in ids /\ Delta(i) # {}
          <6>1. e \notin Hot
            BY <2>1, <2>4, <3>4, <5>1 DEF Delta
          <6>2. e > lastId
            BY <1>2, <2>1, <4>2, <6>1 DEF Hot
          <6>3. icursor'[i] = LastOf(Delta(i)) /\ LastOf(Delta(i)) \in 1..lastId
            BY <1>1, <1>4, <2>1, <5>1
          <6> QED BY <1>2, <2>1, <6>2, <6>3
        <5>2. CASE ~(i \in ids /\ Delta(i) # {})
          <6>1. icursor'[i] = icursor[i]
            BY <1>1, <2>1, <5>2
          <6> QED BY <3>4, <6>1
        <5> QED BY <5>1, <5>2
      <4> QED BY <3>1, <4>1, <4>3
    <3> QED BY <3>2, <3>3, <3>4
  <2> QED BY <2>3, <2>4
<1>7. ArchivedBelowIdentities'
  <2> SUFFICES ASSUME NEW e \in archived, e \notin orphaned PROVE e <= icursor'[owner[e]]
    BY <1>1 DEF ArchivedBelowIdentities
  <2>1. e \in Events /\ e \in Nat
    BY <1>2 DEF Events
  <2>2. owner[e] \in Identities /\ icursor[owner[e]] \in Nat
    BY <1>2, <2>1
  <2>3. e <= icursor[owner[e]]
    BY DEF IdentityCore, ArchivedBelowIdentities
  <2>4. icursor'[owner[e]] \in Nat /\ icursor[owner[e]] <= icursor'[owner[e]]
    BY <1>5, <2>2
  <2> QED BY <2>1, <2>2, <2>3, <2>4
<1>8. NewRowsStartAtZero'
  <2> SUFFICES ASSUME NEW i \in Identities, i > identities PROVE icursor'[i] = 0
    BY <1>1 DEF NewRowsStartAtZero
  <2>1. i \notin ids
    BY <1>2, <1>3, AggregationAssumption DEF Identities
  <2> QED BY <1>1, <2>1 DEF IdentityCore, NewRowsStartAtZero
<1> QED BY <1>6, <1>7, <1>8 DEF IdentityCore

\* Every step keeps the identity totals right: one case per action of Next.
LEMMA IdentityStep == TypeOK /\ IdentityCore /\ [Next]_vars => IdentityCore'
<1> SUFFICES ASSUME TypeOK, IdentityCore, [Next]_vars PROVE IdentityCore'
  OBVIOUS
<1>1. CASE NewIdentity
  BY <1>1, NewIdentityKeepsTotals
<1>2. CASE ArchiveExpiredUsageEvents
  BY <1>2, ArchiveKeepsTotals
<1>3. CASE AggregateIdentities
  BY <1>3, AggregateIdentitiesKeepsTotals
<1> USE DEF identityVars, db, hist
<1>4. CASE CommitEvents
  BY <1>4, IdentityElsewhere DEF CommitEvents
<1>5. CASE NotifyUsageEventsCommitted
  BY <1>5, IdentityElsewhere DEF NotifyUsageEventsCommitted
<1>6. CASE NotifyUsageIdentitiesChanged
  BY <1>6, IdentityElsewhere DEF NotifyUsageIdentitiesChanged
<1>7. CASE InboxFills
  BY <1>7, IdentityElsewhere DEF InboxFills
<1>8. CASE InboxDrains
  BY <1>8, IdentityElsewhere DEF InboxDrains
<1>9. CASE Crash
  BY <1>9, IdentityElsewhere DEF Crash
<1>10. CASE Boot
  BY <1>10, IdentityElsewhere DEF Boot
<1>11. CASE LoadStartupTarget
  BY <1>11, IdentityElsewhere DEF LoadStartupTarget
<1>12. CASE SetStartupTarget
  BY <1>12, IdentityElsewhere DEF SetStartupTarget
<1>13. CASE LoopTop
  BY <1>13, IdentityElsewhere DEF LoopTop
<1>14. CASE FreezePendingTarget
  BY <1>14, IdentityElsewhere DEF FreezePendingTarget
<1>15. CASE WakeUp
  BY <1>15, IdentityElsewhere DEF WakeUp
<1>16. CASE RetryDelayEnds
  BY <1>16, IdentityElsewhere DEF RetryDelayEnds
<1>17. CASE BeginTurn
  BY <1>17, IdentityElsewhere DEF BeginTurn
<1>18. CASE QueryFails
  BY <1>18, IdentityElsewhere DEF QueryFails
<1>19. CASE CheckInbox
  BY <1>19, IdentityElsewhere DEF CheckInbox
<1>20. CASE FinishRollups
  BY <1>20, IdentityElsewhere DEF FinishRollups
<1>21. CASE LoadSnapshot
  BY <1>21, IdentityElsewhere DEF LoadSnapshot
<1>22. CASE LoadPage
  BY <1>22, IdentityElsewhere DEF LoadPage
<1>23. CASE DeferForInbox
  BY <1>23, IdentityElsewhere DEF DeferForInbox
<1>24. CASE ApplyPage
  BY <1>24, IdentityElsewhere DEF ApplyPage
<1>25. CASE PageFails
  BY <1>25, IdentityElsewhere DEF PageFails
<1>26. CASE UNCHANGED vars
  BY <1>26, IdentityElsewhere DEF vars
<1> QED
  BY <1>1, <1>2, <1>3, <1>4, <1>5, <1>6, <1>7, <1>8, <1>9, <1>10, <1>11, <1>12, <1>13,
     <1>14, <1>15, <1>16, <1>17, <1>18, <1>19, <1>20, <1>21, <1>22, <1>23, <1>24, <1>25, <1>26
     DEF Next, Runner, Notifications

\* The inductive invariant with the identity totals.
THEOREM IdentityInductive == Spec => []IdentityCore
<1>1. Init => IdentityCore
  BY AggregationAssumption
     DEF Init, IdentityCore, IdentityExactlyOnce, ArchivedBelowIdentities, NewRowsStartAtZero,
         Events, Identities
<1>2. TypeOK /\ IdentityCore /\ [Next]_vars => IdentityCore'
  BY IdentityStep
<1> QED BY <1>1, <1>2, TypeCorrect, PTL DEF Spec

\* Every event is added to its identity's totals exactly once, when the cursor
\* of the identity row passes it, unless it was archived before the row existed.
THEOREM IdentitiesExactlyOnce == Spec => []IdentityExactlyOnce
<1>1. IdentityCore => IdentityExactlyOnce
  BY DEF IdentityCore
<1> QED BY <1>1, IdentityInductive, PTL

\* What the archive takes out of the hot table is in all three rollups, and in
\* its identity's totals unless the identity row did not exist.
THEOREM ArchiveLosesNothing == Spec => []ArchivedIsAggregated
<1>1. IndInv /\ IdentityCore => ArchivedIsAggregated
  <2> SUFFICES ASSUME IndInv, IdentityCore, NEW e \in archived
               PROVE  /\ \A R \in Rollups : rows[R][e] = 1
                      /\ irows[e] = 1 \/ e \in orphaned
    BY DEF ArchivedIsAggregated
  <2>1. e \in Events
    BY AggregationAssumption DEF IndInv, TypeOK, DbTypes, Events
  <2>2. \A R \in Rollups : e <= cursor[R]
    BY DEF IndInv, Core, ArchivedBelowCursors
  <2>3. \A R \in Rollups : rows[R][e] = 1
    BY <2>1, <2>2 DEF IndInv, Core, RollupExactlyOnce
  <2>4. irows[e] = 1 \/ e \in orphaned
    BY <2>1 DEF IdentityCore, ArchivedBelowIdentities, IdentityExactlyOnce
  <2> QED BY <2>3, <2>4
<1> QED BY <1>1, Inductive, IdentityInductive, PTL
-----------------------------------------------------------------------------
(***************************************************************************)
(* The in-memory targets.  EveryCommitIsTargeted needs that a round cannot *)
(* be active before the startup target is set, where it would be           *)
(* overwritten (NoEarlyRound), that a round counts as reached in advance   *)
(* only if it has nothing to reach (ReachedEarlyIsEmpty), and, from Core,  *)
(* that the cursors a round is measured by are the stored ones and that an *)
(* archived event is behind them.                                          *)
(***************************************************************************)

NoEarlyRound == pc \in {"down", "startup", "startupLock"} => ~activeRound
ReachedEarlyIsEmpty == reached => activeTarget = 0
TargetCore == NoEarlyRound /\ ReachedEarlyIsEmpty /\ EveryCommitIsTargeted

targetVars == <<lastId, cursor, activeRound, activeTarget, reached, pending, owed>>

\* A step that leaves the targets alone, outside the startup and not into it.
LEMMA TargetsElsewhere ==
    ASSUME TargetCore, UNCHANGED targetVars,
           \/ UNCHANGED <<pc, tgt>>
           \/ pc \notin {"down", "startup", "startupLock"} /\ pc' \notin {"down", "startup", "startupLock"}
    PROVE  TargetCore'
BY DEF TargetCore, NoEarlyRound, ReachedEarlyIsEmpty, EveryCommitIsTargeted, targetVars

\* The newest event at startup is MAX(id) of the hot table, or archived and
\* so behind every cursor.
LEMMA StartupKeepsTargets == TypeOK /\ Core /\ TargetCore /\ LoadStartupTarget => TargetCore'
<1> SUFFICES ASSUME TypeOK, Core, TargetCore, LoadStartupTarget PROVE TargetCore'
  OBVIOUS
<1>1. /\ pc = "startup" /\ pc' = "startupLock" /\ UNCHANGED targetVars
      /\ IsMaxHot(tgt')
  BY DEF LoadStartupTarget, db, targets, callers, targetVars
<1>2. lastId \in Nat /\ cursor \in [Rollups -> Nat]
  BY AggregationAssumption DEF TypeOK, DbTypes
<1>3. ASSUME NEW R \in Rollups PROVE lastId <= cursor[R] \/ lastId <= tgt'
  <2>1. CASE lastId \in Hot
    BY <1>1, <2>1 DEF IsMaxHot
  <2>2. CASE lastId \in archived
    BY <2>2 DEF Core, ArchivedBelowCursors
  <2>3. CASE lastId = 0
    BY <1>2, <2>3
  <2> QED BY <1>2, <2>1, <2>2, <2>3 DEF Hot
<1>4. EveryCommitIsTargeted'
  BY <1>1, <1>3 DEF EveryCommitIsTargeted, targetVars
<1> QED BY <1>1, <1>4
        DEF TargetCore, NoEarlyRound, ReachedEarlyIsEmpty, targetVars

\* The startup target does not lose what was notified since it was read.
LEMMA SetStartupKeepsTargets == TypeOK /\ TargetCore /\ SetStartupTarget => TargetCore'
<1> SUFFICES ASSUME TypeOK, TargetCore, SetStartupTarget PROVE TargetCore'
  OBVIOUS
<1>1. /\ pc = "startupLock" /\ pc' = "loop" /\ activeRound' = TRUE /\ activeTarget' = tgt
      /\ reached' = (tgt = 0) /\ pending' = (IF pending <= tgt THEN 0 ELSE pending)
      /\ UNCHANGED <<lastId, cursor, owed>>
  BY DEF SetStartupTarget, db, callers
<1>2. lastId \in Nat /\ pending \in Nat /\ tgt \in Nat
  BY AggregationAssumption DEF TypeOK, DbTypes, MemoryTypes, TurnTypes
<1>3. EveryCommitIsTargeted'
  BY <1>1, <1>2 DEF TargetCore, NoEarlyRound, EveryCommitIsTargeted
<1> QED BY <1>1, <1>3 DEF TargetCore, NoEarlyRound, ReachedEarlyIsEmpty

\* A frozen target is the pending one, unless the active round covers it.
LEMMA FreezeKeepsTargets == TypeOK /\ TargetCore /\ FreezePendingTarget => TargetCore'
<1> SUFFICES ASSUME TypeOK, TargetCore, FreezePendingTarget PROVE TargetCore'
  OBVIOUS
<1>1. /\ lastId \in Nat /\ pending \in Nat /\ activeTarget \in Nat
      /\ cursor \in [Rollups -> Nat] /\ activeRound \in BOOLEAN
  BY AggregationAssumption DEF TypeOK, DbTypes, MemoryTypes, FlagTypes
<1>2. /\ pc \in {"turn", "idle"} /\ pc' = "loop" /\ pending' = 0
      /\ UNCHANGED <<lastId, cursor, owed>>
  BY DEF FreezePendingTarget, db, callers
<1>3. CASE pending > 0 /\ (~activeRound \/ pending > activeTarget)
  <2>1. activeRound' = TRUE /\ activeTarget' = pending /\ reached' = FALSE
    BY <1>3 DEF FreezePendingTarget
  <2> QED BY <1>1, <1>2, <1>3, <2>1
          DEF TargetCore, NoEarlyRound, ReachedEarlyIsEmpty, EveryCommitIsTargeted
<1>4. CASE ~(pending > 0 /\ (~activeRound \/ pending > activeTarget))
  <2>1. UNCHANGED <<activeRound, activeTarget, reached>>
    BY <1>4 DEF FreezePendingTarget
  <2>2. EveryCommitIsTargeted'
    BY <1>1, <1>2, <1>4, <2>1 DEF TargetCore, EveryCommitIsTargeted
  <2> QED BY <1>2, <2>1, <2>2 DEF TargetCore, NoEarlyRound, ReachedEarlyIsEmpty
<1> QED BY <1>3, <1>4

\* A round that is closed has been reached by the stored cursors.
LEMMA FinishKeepsTargets == TypeOK /\ Core /\ TargetCore /\ FinishRollups => TargetCore'
<1> SUFFICES ASSUME TypeOK, Core, TargetCore, FinishRollups PROVE TargetCore'
  OBVIOUS
<1>1. /\ lastId \in Nat /\ pending \in Nat /\ activeTarget \in Nat /\ tgt \in Nat
      /\ cursor \in [Rollups -> Nat]
  BY AggregationAssumption DEF TypeOK, DbTypes, MemoryTypes, TurnTypes
<1>2. /\ pc = "finish" /\ pc' \in {"wait", "loop"} /\ snap = cursor
      /\ UNCHANGED <<lastId, cursor, owed>>
  BY DEF FinishRollups, TurnFails, db, callers, Core, SnapshotIsCurrent, InTurn
<1>3. CASE errs \/ ~RoundDone
  BY <1>2, <1>3, TargetsElsewhere DEF FinishRollups, targets, targetVars
<1>4. CASE ~errs /\ RoundDone
  <2>1. /\ activeRound' = FALSE /\ activeTarget' = 0 /\ reached' = FALSE
        /\ pending' = IF pending <= activeTarget THEN 0 ELSE pending
    BY <1>4 DEF FinishRollups
  <2>2. \A R \in Rollups : activeTarget <= cursor[R]
    BY <1>1, <1>2, <1>4 DEF RoundDone, ReachedTarget, TargetCore, ReachedEarlyIsEmpty
  <2>3. EveryCommitIsTargeted'
    BY <1>1, <1>2, <2>1, <2>2 DEF TargetCore, EveryCommitIsTargeted
  <2> QED BY <2>1, <2>3 DEF TargetCore, NoEarlyRound, ReachedEarlyIsEmpty
<1> QED BY <1>3, <1>4

\* A page that is applied only raises a cursor.
LEMMA ApplyPageKeepsTargets == TypeOK /\ Core /\ TargetCore /\ ApplyPage => TargetCore'
<1> SUFFICES ASSUME TypeOK, Core, TargetCore, ApplyPage PROVE TargetCore'
  OBVIOUS
<1>1. lastId \in Nat /\ cursor \in [Rollups -> Nat] /\ TypeOK'
  BY AggregationAssumption, ApplyPageKeepsTypes DEF TypeOK, DbTypes
<1>2. cursor' \in [Rollups -> Nat]
  BY <1>1 DEF TypeOK, DbTypes
<1>3. /\ pc = "apply" /\ pc' \in {"finish", "defer", "load"}
      /\ UNCHANGED <<lastId, activeRound, activeTarget, reached, pending, owed>>
  BY DEF ApplyPage, NextRollup, targets, callers
<1>4. ASSUME NEW R \in Rollups PROVE cursor[R] <= cursor'[R]
  <2>1. cursor[R] \in Nat /\ cursor'[R] \in Nat
    BY <1>1, <1>2
  <2>2. CASE cursor[Current] = snap[Current] /\ LastOf(page) > snap[Current]
    <3>1. cursor' = [cursor EXCEPT ![Current] = LastOf(page)]
      BY <2>2 DEF ApplyPage
    <3> QED BY <1>1, <2>1, <2>2, <3>1
  <2>3. CASE ~(cursor[Current] = snap[Current] /\ LastOf(page) > snap[Current])
    BY <2>1, <2>3 DEF ApplyPage
  <2> QED BY <2>2, <2>3
<1>5. EveryCommitIsTargeted'
  <2> SUFFICES ASSUME NEW R \in Rollups, ~(lastId <= cursor'[R])
               PROVE  \/ activeRound /\ lastId <= activeTarget
                      \/ lastId <= pending
                      \/ lastId <= owed
    BY <1>3 DEF EveryCommitIsTargeted
  <2>1. ~(lastId <= cursor[R])
    BY <1>1, <1>2, <1>4
  <2> QED BY <1>3, <2>1 DEF TargetCore, EveryCommitIsTargeted
<1> QED BY <1>3, <1>5 DEF TargetCore, NoEarlyRound, ReachedEarlyIsEmpty

\* Every step keeps every commit targeted: one case per action of Next.
LEMMA TargetStep == TypeOK /\ Core /\ TargetCore /\ [Next]_vars => TargetCore'
<1> SUFFICES ASSUME TypeOK, Core, TargetCore, [Next]_vars PROVE TargetCore'
  OBVIOUS
<1>0. lastId \in Nat /\ pending \in Nat /\ owed \in Nat
  BY AggregationAssumption DEF TypeOK, DbTypes, MemoryTypes
<1>1. CASE LoadStartupTarget
  BY <1>1, StartupKeepsTargets
<1>2. CASE SetStartupTarget
  BY <1>2, SetStartupKeepsTargets
<1>3. CASE FreezePendingTarget
  BY <1>3, FreezeKeepsTargets
<1>4. CASE FinishRollups
  BY <1>4, FinishKeepsTargets
<1>5. CASE ApplyPage
  BY <1>5, ApplyPageKeepsTargets
<1>6. CASE CommitEvents
  <2>1. lastId' = owed' /\ owed' \in Nat /\ UNCHANGED <<activeRound, activeTarget, reached, pc>>
    BY <1>0, <1>6 DEF CommitEvents, targets
  <2> QED BY <2>1 DEF TargetCore, NoEarlyRound, ReachedEarlyIsEmpty, EveryCommitIsTargeted
<1>7. CASE NotifyUsageEventsCommitted
  <2>1. /\ pending' = Max2(pending, owed)
        /\ UNCHANGED <<lastId, cursor, activeRound, activeTarget, reached, pc, tgt>>
    BY <1>7 DEF NotifyUsageEventsCommitted, db, turn
  <2>2. lastId <= pending \/ lastId <= owed => lastId <= pending'
    BY <1>0, <2>1 DEF Max2
  <2> QED BY <2>1, <2>2 DEF TargetCore, NoEarlyRound, ReachedEarlyIsEmpty, EveryCommitIsTargeted
<1>8. CASE Crash
  BY <1>8 DEF Crash, FreshMemory, TargetCore, NoEarlyRound, ReachedEarlyIsEmpty,
              EveryCommitIsTargeted
<1>9. CASE Boot
  BY <1>9 DEF Boot, targets, TargetCore, NoEarlyRound, ReachedEarlyIsEmpty, EveryCommitIsTargeted
<1> USE DEF targetVars, db, targets, callers
<1>10. CASE NewIdentity
  BY <1>10, TargetsElsewhere DEF NewIdentity, turn
<1>11. CASE NotifyUsageIdentitiesChanged
  BY <1>11, TargetsElsewhere DEF NotifyUsageIdentitiesChanged, turn
<1>12. CASE InboxFills \/ InboxDrains
  BY <1>12, TargetsElsewhere DEF InboxFills, InboxDrains, turn
<1>13. CASE ArchiveExpiredUsageEvents
  BY <1>13, TargetsElsewhere DEF ArchiveExpiredUsageEvents, turn
<1>14. CASE LoopTop \/ WakeUp \/ RetryDelayEnds
  BY <1>14, TargetsElsewhere DEF LoopTop, WakeUp, RetryDelayEnds
<1>15. CASE BeginTurn \/ CheckInbox
  BY <1>15, TargetsElsewhere DEF BeginTurn, CheckInbox
<1>16. CASE QueryFails
  BY <1>16, TargetsElsewhere DEF QueryFails, TurnFails
<1>17. CASE LoadSnapshot
  <2>1. pc = "snap" /\ pc' \in {"finish", "load", "wait", "defer"} /\ UNCHANGED targetVars
    BY <1>17 DEF LoadSnapshot, TurnFails
  <2> QED BY <2>1, TargetsElsewhere
<1>18. CASE LoadPage \/ DeferForInbox \/ PageFails
  <2>1. /\ pc \in {"load", "defer", "apply"} /\ pc' \in {"load", "defer", "apply", "finish"}
        /\ UNCHANGED targetVars
    BY <1>18 DEF LoadPage, DeferForInbox, PageFails, NextRollup
  <2> QED BY <2>1, TargetsElsewhere
<1>19. CASE AggregateIdentities
  BY <1>19, TargetsElsewhere DEF AggregateIdentities
<1>20. CASE UNCHANGED vars
  BY <1>20, TargetsElsewhere DEF vars
<1> QED
  BY <1>1, <1>2, <1>3, <1>4, <1>5, <1>6, <1>7, <1>8, <1>9, <1>10, <1>11, <1>12, <1>13, <1>14,
     <1>15, <1>16, <1>17, <1>18, <1>19, <1>20
     DEF Next, Runner, Notifications

\* No committed event is ever forgotten by the targets the runner keeps in
\* memory, for all page sizes, faults and interleavings with the startup.
THEOREM CommitsAreTargeted == Spec => []EveryCommitIsTargeted
<1>1. Init => TargetCore
  BY DEF Init, TargetCore, NoEarlyRound, ReachedEarlyIsEmpty, EveryCommitIsTargeted
<1>2. IndInv /\ TargetCore /\ [Next]_vars => TargetCore'
  BY TargetStep DEF IndInv
<1>3. TargetCore => EveryCommitIsTargeted
  BY DEF TargetCore
<1> QED BY <1>1, <1>2, <1>3, Inductive, PTL DEF Spec
=============================================================================
