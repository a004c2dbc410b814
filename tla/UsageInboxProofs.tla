-------------------------- MODULE UsageInboxProofs --------------------------
(***************************************************************************)
(* Proofs about UsageInbox, for all bounds: types, one event per row, the  *)
(* agreement of the status column with the event table, the pacing of the  *)
(* attempts, and that the inbox side implements CommitFeed.                *)
(*                                                                         *)
(* None of these is inductive.  The rows the runner holds in its hands     *)
(* between two statements may change under it (the cleanup deletes them):  *)
(* InHandIsUnwritten says what remains true of them, namely that none has  *)
(* an event yet.  That a marked row is not also committed needs the phases *)
(* of a round apart (PhasesApart); the pacing needs that a row that lost   *)
(* an attempt is out of the runner's hands and, unless the round will      *)
(* pause, out of reach of the next listing (BurntIsOut).                   *)
(***************************************************************************)
EXTENDS UsageInbox, OrdersProofs

\* The rows a round may still mark or commit.
InHand ==
    (IF pc \in {"decode", "markUnresolved", "markReady"} THEN todo ELSE {})
      \cup (IF pc \in {"decode", "resolve"} THEN valid ELSE {})
      \cup (IF pc \in {"markUnresolved", "commit"} THEN ready ELSE {})

Unprocessed == {"none", "pending", "process_failed", "decode_failed", "discarded"}

UnprocessedHasNoEvent ==
    \A r \in Rows : status[r] \in Unprocessed => r \notin Elems(events)

ProcessedHasEvent ==
    \A r \in Rows :
        status[r] = "processed" /\ class[r] \in {"known", "lookup"} => r \in Elems(events)

AttemptsLeft ==
    \A r \in Rows : status[r] \in {"none", "pending", "process_failed"} => attempts[r] < MaxAttempts

InHandIsUnwritten ==
    \A r \in InHand :
        /\ Processable(r) \/ status[r] = "deleted"
        /\ r \notin Elems(events)

PhasesApart ==
    /\ pc \in {"down", "list", "sleep"} => /\ batch = {} /\ todo = {} /\ valid = {} /\ ready = {}
                                           /\ ~retry /\ ~uncertain
    /\ \A r \in valid : class[r] \in {"known", "lookup"}
    /\ pc = "resolve" => valid # {}
    /\ pc = "markUnresolved" => todo \cap ready = {}
    /\ pc = "commit" => ready # {}
    /\ pc = "notify" => events # <<>>

BurntIsOut ==
    /\ pc = "down" => burnt = {}
    /\ burnt \cap InHand = {}
    /\ pc # "sleep" /\ ~RequiresRetryWait => \A r \in burnt : status[r] \in {"discarded", "deleted"}
    /\ \A r \in burnt : status[r] # "none"

TableInv == OneEventPerRow /\ UnprocessedHasNoEvent /\ ProcessedHasEvent /\ AttemptsLeft
RoundInv == InHandIsUnwritten /\ PhasesApart /\ BurntIsOut
IndInv == TypeOK /\ TableInv /\ RoundInv
-----------------------------------------------------------------------------
(***************************************************************************)
(* Facts about the operators.                                              *)
(***************************************************************************)

\* The rows are finitely many, and so are those of any list.
LEMMA RowsFinite ==
    /\ IsFiniteSet(Rows) /\ Cardinality(Rows) = MaxRows
    /\ \A S \in SUBSET Rows : IsFiniteSet(S) /\ Cardinality(S) \in Nat
<1>1. IsFiniteSet(Rows) /\ Cardinality(Rows) = MaxRows
  BY InboxAssumption, FS_Interval DEF Rows
<1>2. ASSUME NEW S \in SUBSET Rows PROVE IsFiniteSet(S) /\ Cardinality(S) \in Nat
  <2>1. IsFiniteSet(S)
    BY <1>1, FS_Subset
  <2> QED BY <2>1, FS_CardinalityType
<1> QED BY <1>1, <1>2

\* The row a loop deals with next is one of those it has still to deal with.
LEMMA FirstIn ==
    ASSUME NEW S, S \subseteq Rows, S # {}
    PROVE  First(S) \in S
<1>1. S \subseteq Nat
  BY InboxAssumption DEF Rows
<1> QED BY <1>1, MinExists DEF First

\* A commit lists its rows in id order, each once.
LEMMA RowsInOrder ==
    ASSUME NEW S, S \subseteq Rows
    PROVE  /\ InOrder(S) \in Seq(Rows) /\ Len(InOrder(S)) = Cardinality(S)
           /\ Elems(InOrder(S)) = S
           /\ \A i, j \in DOMAIN InOrder(S) : InOrder(S)[i] = InOrder(S)[j] => i = j
BY InOrderEnumerates, InboxAssumption DEF Rows

\* The events after a commit.
LEMMA EventsConcat ==
    ASSUME NEW s \in Seq(Rows), NEW t \in Seq(Rows)
    PROVE  /\ s \o t \in Seq(Rows) /\ Len(s \o t) = Len(s) + Len(t)
           /\ Elems(s \o t) = Elems(s) \cup Elems(t)
BY ElemsConcat

\* A commit of rows without an event keeps one event per row.
LEMMA CommitKeepsOne ==
    ASSUME NEW s \in Seq(Rows), NEW t \in Seq(Rows), Elems(s) \cap Elems(t) = {},
           \A i, j \in DOMAIN s : s[i] = s[j] => i = j,
           \A i, j \in DOMAIN t : t[i] = t[j] => i = j
    PROVE  \A i, j \in DOMAIN (s \o t) : (s \o t)[i] = (s \o t)[j] => i = j
BY ConcatKeepsOne

\* With one event per row there are at most as many events as rows.
LEMMA EventsBounded ==
    ASSUME NEW s \in Seq(Rows), \A i, j \in DOMAIN s : s[i] = s[j] => i = j
    PROVE  Len(s) <= MaxRows
<1>1. Len(s) \in Nat /\ DOMAIN s = 1..Len(s) /\ s \in [1..Len(s) -> Rows]
  BY LenProperties
<1>2. IsFiniteSet(1..Len(s)) /\ Cardinality(1..Len(s)) = Len(s)
  BY <1>1, FS_Interval
<1> SUFFICES ASSUME MaxRows < Len(s) PROVE FALSE
  BY <1>1, InboxAssumption
<1>3. Cardinality(Rows) < Cardinality(1..Len(s))
  BY <1>2, RowsFinite
<1>4. \E x, y \in 1..Len(s) : x # y /\ s[x] = s[y]
  BY <1>1, <1>2, <1>3, RowsFinite, FS_PigeonHole
<1> QED BY <1>1, <1>4

\* A listing holds at most Limit rows: a row's rank tells it from the others.
LEMMA ListedBounded == Listed \subseteq Rows /\ Cardinality(Listed) <= Limit
<1> DEFINE rank == [r \in Listed |-> Cardinality(Before(r))]
<1>1. Listed \subseteq Rows
  BY DEF Listed
<1>2. \A r \in Rows : Before(r) \in SUBSET Rows /\ Cardinality(Before(r)) \in Nat
  BY RowsFinite DEF Before
<1>3. rank \in [Listed -> 0..(Limit - 1)]
  <2>1. ASSUME NEW r \in Listed PROVE Cardinality(Before(r)) \in 0..(Limit - 1)
    <3>1. Cardinality(Before(r)) < Limit /\ Cardinality(Before(r)) \in Nat
      BY <1>1, <1>2 DEF Listed
    <3> QED BY <3>1, InboxAssumption
  <2> QED BY <2>1
<1>4. ASSUME NEW q \in Listed, NEW r \in Listed, q < r PROVE rank[q] < rank[r]
  <2>1. q \in Before(r) /\ q \notin Before(q)
    BY <1>4, InboxAssumption DEF Before, Listed, Rows
  <2>2. Before(q) \subseteq Before(r)
    BY <1>4, InboxAssumption DEF Before, Listed, Rows
  <2>3. IsFiniteSet(Before(q)) /\ IsFiniteSet(Before(r))
    BY RowsFinite DEF Before
  <2>4. /\ Cardinality(Before(q)) <= Cardinality(Before(r))
        /\ Cardinality(Before(q)) # Cardinality(Before(r))
    BY <2>1, <2>2, <2>3, FS_Subset
  <2>5. Cardinality(Before(q)) \in Nat /\ Cardinality(Before(r)) \in Nat
    BY <1>1, <1>2
  <2> QED BY <2>4, <2>5
<1>5. IsFiniteSet(Listed) /\ Cardinality(Listed) \in Nat
  BY <1>1, RowsFinite
<1>6. IsFiniteSet(0..(Limit - 1)) /\ Cardinality(0..(Limit - 1)) = Limit
  BY InboxAssumption, FS_Interval
<1> SUFFICES ASSUME Limit < Cardinality(Listed) PROVE FALSE
  BY <1>1, <1>5, InboxAssumption
<1> HIDE DEF rank
<1>7. PICK q, r \in Listed : q # r /\ rank[q] = rank[r]
  BY <1>3, <1>5, <1>6, FS_PigeonHole
<1>8. q \in Int /\ r \in Int /\ rank[q] \in Int /\ rank[r] \in Int
  BY <1>1, <1>3, InboxAssumption DEF Rows
<1>9. q < r \/ r < q
  BY <1>7, <1>8
<1> QED BY <1>4, <1>7, <1>8, <1>9
-----------------------------------------------------------------------------
(***************************************************************************)
(* Steps.  Each action keeps the inductive invariant.                      *)
(***************************************************************************)

\* A step that leaves the tables alone keeps what is said about them.
LEMMA TableKept == TableInv /\ UNCHANGED <<class, table, events>> => TableInv'
BY DEF TableInv, OneEventPerRow, UnprocessedHasNoEvent, ProcessedHasEvent, AttemptsLeft,
       Elems, table

\* The end of a round leaves nothing listed and nothing in hand.
LEMMA RoundCleared ==
    ASSUME IndInv, NoRound, UNCHANGED <<class, table, events>>, burnt' \subseteq Rows,
           faults' \in 0..MaxFaults,
           \/ pc' = "sleep" /\ UNCHANGED burnt
           \/ pc' = "down" /\ burnt' = {}
           \/ pc' = "list" /\ pc # "sleep" /\ ~RequiresRetryWait /\ UNCHANGED burnt
    PROVE  IndInv'
<1>1. TypeOK'
  <2>1. Cardinality({}) <= Limit
    BY FS_EmptySet, InboxAssumption
  <2> QED BY <2>1 DEF IndInv, TypeOK, NoRound, table, PCs
<1>2. TableInv'
  BY TableKept DEF IndInv
<1>3. InHandIsUnwritten' /\ PhasesApart'
  BY DEF InHandIsUnwritten, InHand, PhasesApart, NoRound
<1>4. BurntIsOut'
  BY DEF IndInv, RoundInv, BurntIsOut, InHand, NoRound, table
<1> QED BY <1>1, <1>2, <1>3, <1>4 DEF IndInv, RoundInv

\* What MarkRedisUsageInboxProcessFailed leaves of a row it was given.
LEMMA MarkedRow ==
    ASSUME TypeOK, TableInv, NEW r \in Rows, Processable(r) \/ status[r] = "deleted",
           MarkProcessFailed(r)
    PROVE  /\ status' \in [Rows -> Statuses] /\ attempts' \in [Rows -> 0..MaxAttempts]
           /\ aged' \subseteq Rows /\ burnt' \subseteq Rows
           /\ \A q \in Rows \ {r} : status'[q] = status[q] /\ attempts'[q] = attempts[q]
           /\ ~Exists(r) => UNCHANGED <<status, attempts, burnt>>
           /\ Exists(r) => /\ status'[r] = StatusAfterFailure(r)
                           /\ status'[r] \in {"process_failed", "discarded"}
                           /\ status'[r] = "process_failed" => attempts'[r] < MaxAttempts
                           /\ burnt' = burnt \cup {r}
<1>1. CASE ~Exists(r)
  BY <1>1 DEF TypeOK, MarkProcessFailed, SetStatus, table
<1>2. CASE Exists(r)
  <2>1. /\ status' = [status EXCEPT ![r] = StatusAfterFailure(r)]
        /\ attempts' = [attempts EXCEPT ![r] = @ + 1]
        /\ aged' = aged \ {r} /\ burnt' = burnt \cup {r}
    BY <1>2 DEF MarkProcessFailed, SetStatus
  <2>2. attempts[r] < MaxAttempts /\ attempts[r] \in Nat /\ MaxAttempts \in Nat
    BY <1>2, InboxAssumption DEF TableInv, AttemptsLeft, Processable, Exists, TypeOK
  <2>3. StatusAfterFailure(r) \in {"process_failed", "discarded"}
    BY DEF StatusAfterFailure
  <2>4. StatusAfterFailure(r) = "process_failed" => attempts[r] + 1 < MaxAttempts
    BY <2>2 DEF StatusAfterFailure
  <2>5. attempts[r] + 1 \in 0..MaxAttempts
    BY <2>2
  <2>6. status'[r] = StatusAfterFailure(r) /\ attempts'[r] = attempts[r] + 1
    BY <2>1 DEF TypeOK
  <2>7. status' \in [Rows -> Statuses] /\ attempts' \in [Rows -> 0..MaxAttempts]
    BY <2>1, <2>3, <2>5 DEF TypeOK, Statuses
  <2>8. \A q \in Rows \ {r} : status'[q] = status[q] /\ attempts'[q] = attempts[q]
    BY <2>1 DEF TypeOK
  <2> QED BY <1>2, <2>1, <2>3, <2>4, <2>6, <2>7, <2>8 DEF TypeOK
<1> QED BY <1>1, <1>2

\* A row marked as failed has no event, and leaves the runner's hands.
LEMMA MarkingStep ==
    ASSUME IndInv, Marking, MarkProcessFailed(First(todo)), todo' = todo \ {First(todo)},
           faults' \in 0..MaxFaults, retry' \in BOOLEAN, uncertain' \in BOOLEAN,
           Exists(First(todo)) /\ StatusAfterFailure(First(todo)) = "process_failed"
             => retry' \/ uncertain',
           retry \/ uncertain => retry' \/ uncertain',
           UNCHANGED <<class, events, pc, batch, valid, ready>>
    PROVE  IndInv'
<1> DEFINE r == First(todo)
<1>1. r \in todo /\ r \in Rows
  BY FirstIn DEF IndInv, TypeOK, Marking
<1>2. r \in InHand /\ r \notin burnt
  BY <1>1 DEF InHand, Marking, IndInv, RoundInv, BurntIsOut
<1>3. (Processable(r) \/ status[r] = "deleted") /\ r \notin Elems(events)
  BY <1>2 DEF IndInv, RoundInv, InHandIsUnwritten
<1> HIDE DEF r
<1>4. /\ status' \in [Rows -> Statuses] /\ attempts' \in [Rows -> 0..MaxAttempts]
      /\ aged' \subseteq Rows /\ burnt' \subseteq Rows
      /\ \A q \in Rows \ {r} : status'[q] = status[q] /\ attempts'[q] = attempts[q]
      /\ ~Exists(r) => UNCHANGED <<status, attempts, burnt>>
      /\ Exists(r) => /\ status'[r] = StatusAfterFailure(r)
                      /\ status'[r] \in {"process_failed", "discarded"}
                      /\ status'[r] = "process_failed" => attempts'[r] < MaxAttempts
                      /\ burnt' = burnt \cup {r}
  BY <1>1, <1>3, MarkedRow DEF IndInv, r
<1>5. TypeOK'
  BY <1>4 DEF IndInv, TypeOK
<1>6. OneEventPerRow'
  BY DEF IndInv, TableInv, OneEventPerRow
<1>7. UnprocessedHasNoEvent' /\ ProcessedHasEvent'
  BY <1>3, <1>4
     DEF IndInv, TableInv, UnprocessedHasNoEvent, ProcessedHasEvent, Elems
<1>8. AttemptsLeft'
  BY <1>4 DEF IndInv, TableInv, AttemptsLeft
<1>9. InHand' = InHand \ {r}
  <2>1. pc = "markUnresolved" => r \notin ready
    BY <1>1 DEF IndInv, RoundInv, PhasesApart
  <2> QED BY <2>1 DEF InHand, Marking, r
<1>10. InHandIsUnwritten'
  <2>1. InHand \subseteq Rows
    BY DEF InHand, IndInv, TypeOK
  <2> QED BY <1>4, <1>9, <2>1 DEF IndInv, RoundInv, InHandIsUnwritten, Processable, Elems
<1>11. PhasesApart'
  BY <1>1 DEF IndInv, RoundInv, PhasesApart, Marking, r
<1>12. BurntIsOut'
  <2>1. (burnt \cap InHand = {})' /\ (pc = "down" => burnt = {})'
    BY <1>4, <1>9 DEF IndInv, RoundInv, BurntIsOut, Marking
  <2>2. (\A q \in burnt : status[q] # "none")'
    BY <1>2, <1>4 DEF IndInv, TypeOK, RoundInv, BurntIsOut
  <2>3. ASSUME ~RequiresRetryWait', NEW q \in burnt'
        PROVE  status'[q] \in {"discarded", "deleted"}
    <3>1. ~RequiresRetryWait
      BY <2>3 DEF RequiresRetryWait
    <3>2. CASE q = r
      BY <1>2, <1>4, <2>3, <3>2 DEF RequiresRetryWait, r
    <3>3. CASE q # r
      BY <1>4, <3>1, <3>3 DEF IndInv, TypeOK, RoundInv, BurntIsOut, Marking
    <3> QED BY <3>2, <3>3
  <2> QED BY <2>1, <2>2, <2>3 DEF BurntIsOut
<1> QED BY <1>5, <1>6, <1>7, <1>8, <1>10, <1>11, <1>12 DEF IndInv, TableInv, RoundInv

\* The ingest runner inserts rows: they have neither events nor lost attempts.
LEMMA InsertMessagesStep == IndInv /\ InsertMessages => IndInv'
<1> SUFFICES ASSUME IndInv, InsertMessages PROVE IndInv'
  OBVIOUS
<1>1. TypeOK'
  BY DEF IndInv, TypeOK, InsertMessages, round, Statuses
<1>2. OneEventPerRow'
  BY DEF IndInv, TableInv, OneEventPerRow, InsertMessages, round, Rows
<1>3. UnprocessedHasNoEvent'
  BY DEF IndInv, TableInv, UnprocessedHasNoEvent, Elems, Unprocessed,
       InsertMessages, round, Rows
<1>4. ProcessedHasEvent'
  BY DEF IndInv, TableInv, ProcessedHasEvent, Elems, InsertMessages, round,
       Rows
<1>5. AttemptsLeft'
  BY DEF IndInv, TableInv, AttemptsLeft, InsertMessages, round, Rows
<1>6. InHandIsUnwritten'
  BY DEF IndInv, RoundInv, InHandIsUnwritten, TypeOK, InHand, Processable,
       Elems, InsertMessages, round
<1>7. PhasesApart'
  BY DEF IndInv, RoundInv, PhasesApart, InsertMessages, round, Rows
<1>8. BurntIsOut'
  BY DEF IndInv, RoundInv, BurntIsOut, TypeOK, InHand, RequiresRetryWait,
       InsertMessages, round
<1> QED BY <1>1, <1>2, <1>3, <1>4, <1>5, <1>6, <1>7, <1>8
     DEF IndInv, TableInv, RoundInv

\* Rows grow old.
LEMMA WeekPassesStep == IndInv /\ WeekPasses => IndInv'
<1> SUFFICES ASSUME IndInv, WeekPasses PROVE IndInv'
  OBVIOUS
<1>1. TypeOK'
  BY DEF IndInv, TypeOK, WeekPasses, round
<1>2. OneEventPerRow'
  BY DEF IndInv, TableInv, OneEventPerRow, WeekPasses, round
<1>3. UnprocessedHasNoEvent'
  BY DEF IndInv, TableInv, UnprocessedHasNoEvent, Elems, Unprocessed,
       WeekPasses, round
<1>4. ProcessedHasEvent'
  BY DEF IndInv, TableInv, ProcessedHasEvent, Elems, WeekPasses, round
<1>5. AttemptsLeft'
  BY DEF IndInv, TableInv, AttemptsLeft, WeekPasses, round
<1>6. InHandIsUnwritten'
  BY DEF IndInv, RoundInv, InHandIsUnwritten, InHand, Processable, Elems,
       WeekPasses, round
<1>7. PhasesApart'
  BY DEF IndInv, RoundInv, PhasesApart, WeekPasses, round
<1>8. BurntIsOut'
  BY DEF IndInv, RoundInv, BurntIsOut, InHand, RequiresRetryWait, WeekPasses,
       round
<1> QED BY <1>1, <1>2, <1>3, <1>4, <1>5, <1>6, <1>7, <1>8
     DEF IndInv, TableInv, RoundInv

\* The cleanup deletes rows, those in the hands of the runner included.
LEMMA CleanupRedisUsageInboxStep == IndInv /\ CleanupRedisUsageInbox => IndInv'
<1> SUFFICES ASSUME IndInv, CleanupRedisUsageInbox PROVE IndInv'
  OBVIOUS
<1>1. TypeOK'
  BY DEF IndInv, TypeOK, CleanupRedisUsageInbox, round, Statuses
<1>2. OneEventPerRow'
  BY DEF IndInv, TableInv, OneEventPerRow, CleanupRedisUsageInbox, round
<1>3. UnprocessedHasNoEvent'
  BY DEF IndInv, TableInv, UnprocessedHasNoEvent, Elems, Unprocessed,
       CleanupRedisUsageInbox, round
<1>4. ProcessedHasEvent'
  BY DEF IndInv, TableInv, ProcessedHasEvent, Elems, CleanupRedisUsageInbox,
       round
<1>5. AttemptsLeft'
  BY DEF IndInv, TableInv, AttemptsLeft, CleanupRedisUsageInbox, round
<1>6. InHandIsUnwritten'
  BY DEF IndInv, RoundInv, InHandIsUnwritten, TypeOK, InHand, Processable,
       Elems, CleanupRedisUsageInbox, round
<1>7. PhasesApart'
  BY DEF IndInv, RoundInv, PhasesApart, CleanupRedisUsageInbox, round
<1>8. BurntIsOut'
  BY DEF IndInv, RoundInv, BurntIsOut, TypeOK, InHand, RequiresRetryWait,
       CleanupRedisUsageInbox, round
<1> QED BY <1>1, <1>2, <1>3, <1>4, <1>5, <1>6, <1>7, <1>8
     DEF IndInv, TableInv, RoundInv

\* A crash empties the hands of the runner.
LEMMA CrashStep == IndInv /\ Crash => IndInv'
<1> SUFFICES ASSUME IndInv, Crash PROVE IndInv'
  OBVIOUS
<1>1. faults' \in 0..MaxFaults
  BY InboxAssumption DEF IndInv, TypeOK, Crash, Fault, FaultAllowed
<1> QED BY <1>1, RoundCleared DEF Crash

\* A boot starts with empty hands.
LEMMA BootStep == IndInv /\ Boot => IndInv'
<1> SUFFICES ASSUME IndInv, Boot PROVE IndInv'
  OBVIOUS
<1>1. TableInv'
  BY TableKept DEF IndInv, Boot
<1>2. TypeOK'
  BY DEF IndInv, TypeOK, Boot, table, round, PCs
<1>3. InHandIsUnwritten'
  BY DEF IndInv, RoundInv, InHandIsUnwritten, InHand, Processable, Elems,
       Boot, table, round
<1>4. PhasesApart'
  BY DEF IndInv, RoundInv, PhasesApart, Boot, table, round
<1>5. BurntIsOut'
  BY DEF IndInv, RoundInv, BurntIsOut, InHand, RequiresRetryWait, Boot, table,
       round
<1> QED BY <1>1, <1>2, <1>3, <1>4, <1>5
     DEF IndInv, RoundInv

\* A listing takes processable rows, and those have no event.
LEMMA ListRowsStep == IndInv /\ ListRows => IndInv'
<1> SUFFICES ASSUME IndInv, ListRows PROVE IndInv'
  OBVIOUS
<1>1. /\ Listed \subseteq Rows /\ Cardinality(Listed) <= Limit
      /\ \A r \in Listed : Processable(r)
  BY ListedBounded DEF Listed
<1>2. TableInv'
  BY TableKept DEF IndInv, ListRows
<1>3. TypeOK'
  BY <1>1 DEF IndInv, TypeOK, ListRows, table, round, PCs
<1>4. InHandIsUnwritten'
  BY <1>1 DEF IndInv, TableInv, RoundInv, InHandIsUnwritten, TypeOK,
       UnprocessedHasNoEvent, PhasesApart, InHand, Processable, Elems,
       Unprocessed, ListRows, table, round
<1>5. PhasesApart'
  BY DEF IndInv, RoundInv, PhasesApart, ListRows, table, round
<1>6. BurntIsOut'
  BY <1>1 DEF IndInv, RoundInv, BurntIsOut, PhasesApart, InHand,
       RequiresRetryWait, ListRows, table, round, Processable
<1> QED BY <1>2, <1>3, <1>4, <1>5, <1>6
     DEF IndInv, RoundInv

\* A failed statement that ends the round leads to a pause.
LEMMA RoundFailsStep == IndInv /\ RoundFails => IndInv'
<1> SUFFICES ASSUME IndInv, RoundFails PROVE IndInv'
  OBVIOUS
<1>1. faults' \in 0..MaxFaults
  BY InboxAssumption DEF IndInv, TypeOK, RoundFails, Fault, FaultAllowed
<1>2. burnt' \subseteq Rows
  BY DEF IndInv, TypeOK, RoundFails
<1> QED BY <1>1, <1>2, RoundCleared DEF RoundFails

\* The decode loop settles a row or passes it on.
LEMMA DecodeRowStep == IndInv /\ DecodeRow => IndInv'
<1> SUFFICES ASSUME IndInv, DecodeRow PROVE IndInv'
  OBVIOUS
<1> DEFINE r == First(todo)
<1>1. r \in todo /\ r \in Rows
  BY FirstIn DEF IndInv, TypeOK, DecodeRow
<1>2. r \in InHand /\ r \notin burnt
  BY <1>1 DEF InHand, DecodeRow, IndInv, RoundInv, BurntIsOut
<1>3. (Processable(r) \/ status[r] = "deleted") /\ r \notin Elems(events)
  BY <1>2 DEF IndInv, RoundInv, InHandIsUnwritten
<1>4. /\ pc = "decode" /\ todo' = todo \ {r}
      /\ UNCHANGED <<class, events, pc, batch, ready, retry, uncertain, burnt, faults>>
  BY DEF DecodeRow
<1> HIDE DEF r
<1>5. CASE class[r] \in {"known", "lookup"}
  <2>1. valid' = valid \cup {r} /\ UNCHANGED table
    BY <1>5 DEF DecodeRow, r
  <2>2. InHand' = InHand
    BY <1>1, <1>4, <2>1 DEF InHand
  <2>3. TypeOK'
    BY <1>1, <1>4, <2>1 DEF IndInv, TypeOK, table
  <2>4. TableInv'
    BY <1>4, <2>1, TableKept DEF IndInv
  <2>5. InHandIsUnwritten'
    BY <1>4, <2>1, <2>2 DEF IndInv, RoundInv, InHandIsUnwritten, Processable, Elems, table
  <2>6. PhasesApart'
    BY <1>4, <1>5, <2>1 DEF IndInv, RoundInv, PhasesApart
  <2>7. BurntIsOut'
    BY <1>4, <2>1, <2>2 DEF IndInv, RoundInv, BurntIsOut, RequiresRetryWait, table
  <2> QED BY <2>3, <2>4, <2>5, <2>6, <2>7 DEF IndInv, RoundInv
<1>6. CASE class[r] \in {"bad", "unsupported"}
  <2>1. UNCHANGED valid
    BY <1>6 DEF DecodeRow, r
  <2>2. /\ status' \in [Rows -> Statuses] /\ attempts' \in [Rows -> 0..MaxAttempts]
        /\ aged' \subseteq Rows
        /\ \A q \in Rows \ {r} : status'[q] = status[q] /\ attempts'[q] = attempts[q]
        /\ status'[r] \in {status[r], "decode_failed", "processed"}
        /\ status'[r] \in {"decode_failed", "processed", "deleted"}
    <3>1. PICK s \in {"decode_failed", "processed"}, more \in {0, 1} : SetStatus(r, s, more)
      BY <1>6 DEF DecodeRow, r
    <3>2. CASE ~Exists(r)
      BY <1>3, <3>1, <3>2 DEF IndInv, TypeOK, SetStatus, table, Exists, Processable
    <3>3. CASE Exists(r)
      <4>1. attempts[r] + more \in 0..MaxAttempts
        BY <1>1, <1>3, <3>3, InboxAssumption
           DEF IndInv, TypeOK, TableInv, AttemptsLeft, Processable, Exists
      <4>2. /\ status' = [status EXCEPT ![r] = s]
            /\ attempts' = [attempts EXCEPT ![r] = @ + more]
            /\ aged' = aged \ {r}
        BY <3>1, <3>3 DEF SetStatus
      <4> QED BY <1>1, <4>1, <4>2 DEF IndInv, TypeOK, Statuses
    <3> QED BY <3>2, <3>3
  <2>3. InHand' = InHand \ {r}
    <3>1. r \notin valid
      BY <1>6 DEF IndInv, RoundInv, PhasesApart
    <3> QED BY <1>4, <2>1, <3>1 DEF InHand
  <2>4. TypeOK'
    BY <1>4, <2>1, <2>2 DEF IndInv, TypeOK
  <2>5. OneEventPerRow'
    BY <1>4 DEF IndInv, TableInv, OneEventPerRow
  <2>6. UnprocessedHasNoEvent' /\ ProcessedHasEvent'
    BY <1>3, <1>4, <1>6, <2>2
       DEF IndInv, TableInv, UnprocessedHasNoEvent, ProcessedHasEvent, Elems
  <2>7. AttemptsLeft'
    BY <2>2 DEF IndInv, TableInv, AttemptsLeft
  <2>8. InHandIsUnwritten'
    <3>1. InHand \subseteq Rows
      BY DEF InHand, IndInv, TypeOK
    <3> QED BY <1>4, <2>2, <2>3, <3>1 DEF IndInv, RoundInv, InHandIsUnwritten, Processable, Elems
  <2>9. PhasesApart'
    BY <1>4, <2>1 DEF IndInv, RoundInv, PhasesApart
  <2>10. BurntIsOut'
    BY <1>2, <1>4, <2>2, <2>3 DEF IndInv, TypeOK, RoundInv, BurntIsOut, RequiresRetryWait
  <2> QED BY <2>4, <2>5, <2>6, <2>7, <2>8, <2>9, <2>10 DEF IndInv, TableInv, RoundInv
<1> QED BY <1>1, <1>5, <1>6 DEF IndInv, TypeOK, Classes

\* The decode loop ends in a pause, in the next listing if the batch was full,
\* or goes on with the rows that are events.
LEMMA DecodeEndsStep == IndInv /\ DecodeEnds => IndInv'
<1> SUFFICES ASSUME IndInv, DecodeEnds PROVE IndInv'
  OBVIOUS
<1>1. CASE valid = {}
  BY <1>1, RoundCleared DEF IndInv, TypeOK, DecodeEnds, RoundEnds, ContinueImmediately
<1>2. CASE valid # {}
  <2>1. pc = "decode" /\ pc' = "resolve" /\ UNCHANGED <<class, table, events, round, burnt, faults>>
    BY <1>2 DEF DecodeEnds
  <2>2. InHand' \subseteq InHand
    BY <2>1 DEF InHand, round
  <2>3. TypeOK'
    BY <2>1 DEF IndInv, TypeOK, PCs, table, round
  <2>4. TableInv'
    BY <2>1, TableKept DEF IndInv
  <2>5. InHandIsUnwritten'
    BY <2>1, <2>2 DEF IndInv, RoundInv, InHandIsUnwritten, Processable, Elems, table
  <2>6. PhasesApart'
    BY <1>2, <2>1 DEF IndInv, RoundInv, PhasesApart, round
  <2>7. BurntIsOut'
    BY <2>1, <2>2 DEF IndInv, RoundInv, BurntIsOut, RequiresRetryWait, table, round
  <2> QED BY <2>3, <2>4, <2>5, <2>6, <2>7 DEF IndInv, RoundInv
<1> QED BY <1>1, <1>2

\* All rows are ready.
LEMMA ResolveIdentitiesStep == IndInv /\ ResolveIdentities => IndInv'
<1> SUFFICES ASSUME IndInv, ResolveIdentities PROVE IndInv'
  OBVIOUS
<1>1. TableInv'
  BY TableKept DEF IndInv, ResolveIdentities
<1>2. TypeOK'
  BY DEF IndInv, TypeOK, ResolveIdentities, table, PCs
<1>3. InHandIsUnwritten'
  BY DEF IndInv, RoundInv, InHandIsUnwritten, InHand, Processable, Elems,
       ResolveIdentities, table, PCs
<1>4. PhasesApart'
  BY DEF IndInv, RoundInv, PhasesApart, ResolveIdentities, table, PCs
<1>5. BurntIsOut'
  BY DEF IndInv, RoundInv, BurntIsOut, InHand, RequiresRetryWait,
       ResolveIdentities, table, PCs
<1> QED BY <1>1, <1>2, <1>3, <1>4, <1>5
     DEF IndInv, RoundInv

\* Rows that need the identity table are set apart from the ready ones.
LEMMA ResolveFailsStep == IndInv /\ ResolveFails => IndInv'
<1> SUFFICES ASSUME IndInv, ResolveFails PROVE IndInv'
  OBVIOUS
<1>1. faults' \in 0..MaxFaults
  BY InboxAssumption DEF IndInv, TypeOK, ResolveFails, Fault, FaultAllowed
<1>2. TableInv'
  BY TableKept DEF IndInv, ResolveFails
<1>3. TypeOK'
  BY <1>1 DEF IndInv, TypeOK, ResolveFails, table, PCs
<1>4. InHandIsUnwritten'
  BY DEF IndInv, RoundInv, InHandIsUnwritten, InHand, Processable, Elems,
       ResolveFails, table
<1>5. PhasesApart'
  BY DEF IndInv, RoundInv, PhasesApart, ResolveFails, table
<1>6. BurntIsOut'
  BY DEF IndInv, RoundInv, BurntIsOut, InHand, RequiresRetryWait,
       ResolveFails, table
<1> QED BY <1>2, <1>3, <1>4, <1>5, <1>6
     DEF IndInv, RoundInv

\* A row is marked as failed and read back.
LEMMA MarkRowFailedStep == IndInv /\ MarkRowFailed => IndInv'
<1> SUFFICES ASSUME IndInv, MarkRowFailed PROVE IndInv'
  OBVIOUS
<1>1. retry' \in BOOLEAN /\ uncertain' \in BOOLEAN /\ faults' \in 0..MaxFaults
  BY DEF IndInv, TypeOK, MarkRowFailed
<1> QED BY <1>1, MarkingStep DEF MarkRowFailed

\* A mark that may or may not have taken effect.
LEMMA MarkRowUncertainStep == IndInv /\ MarkRowUncertain => IndInv'
<1> SUFFICES ASSUME IndInv, MarkRowUncertain PROVE IndInv'
  OBVIOUS
<1>1. faults' \in 0..MaxFaults
  BY InboxAssumption DEF IndInv, TypeOK, MarkRowUncertain, Fault, FaultAllowed
<1>2. CASE MarkProcessFailed(First(todo))
  BY <1>1, <1>2, MarkingStep DEF IndInv, TypeOK, MarkRowUncertain
<1>3. CASE UNCHANGED <<table, burnt>>
  <2>1. /\ Marking /\ uncertain' = TRUE /\ todo' = todo \ {First(todo)}
        /\ UNCHANGED <<class, table, events, pc, batch, valid, ready, retry, burnt>>
    BY <1>3 DEF MarkRowUncertain
  <2>2. InHand' \subseteq InHand
    BY <2>1 DEF InHand
  <2>3. TypeOK'
    BY <1>1, <2>1 DEF IndInv, TypeOK, table
  <2>4. TableInv'
    BY <2>1, TableKept DEF IndInv
  <2>5. InHandIsUnwritten'
    BY <2>1, <2>2 DEF IndInv, RoundInv, InHandIsUnwritten, Processable, Elems, table
  <2>6. PhasesApart'
    BY <2>1 DEF IndInv, RoundInv, PhasesApart, Marking
  <2>7. BurntIsOut'
    BY <2>1, <2>2 DEF IndInv, RoundInv, BurntIsOut, RequiresRetryWait, table
  <2> QED BY <2>3, <2>4, <2>5, <2>6, <2>7 DEF IndInv, RoundInv
<1> QED BY <1>2, <1>3 DEF MarkRowUncertain

\* Once the unresolved rows are marked, the ready ones are committed, if any.
LEMMA MarkUnresolvedEndsStep == IndInv /\ MarkUnresolvedEnds => IndInv'
<1> SUFFICES ASSUME IndInv, MarkUnresolvedEnds PROVE IndInv'
  OBVIOUS
<1>1. CASE ready = {}
  BY <1>1, RoundCleared DEF IndInv, TypeOK, MarkUnresolvedEnds
<1>2. CASE ready # {}
  <2>1. /\ pc = "markUnresolved" /\ pc' = "commit"
        /\ UNCHANGED <<class, table, events, round, burnt, faults>>
    BY <1>2 DEF MarkUnresolvedEnds
  <2>2. InHand' \subseteq InHand
    BY <2>1 DEF InHand, round
  <2>3. TypeOK'
    BY <2>1 DEF IndInv, TypeOK, PCs, table, round
  <2>4. TableInv'
    BY <2>1, TableKept DEF IndInv
  <2>5. InHandIsUnwritten'
    BY <2>1, <2>2 DEF IndInv, RoundInv, InHandIsUnwritten, Processable, Elems, table
  <2>6. PhasesApart'
    BY <1>2, <2>1 DEF IndInv, RoundInv, PhasesApart, round
  <2>7. BurntIsOut'
    BY <2>1, <2>2 DEF IndInv, RoundInv, BurntIsOut, RequiresRetryWait, table, round
  <2> QED BY <2>3, <2>4, <2>5, <2>6, <2>7 DEF IndInv, RoundInv
<1> QED BY <1>1, <1>2

\* The transaction writes one event for each ready row, and none had one.
LEMMA CommitEventsStep == IndInv /\ CommitEvents => IndInv'
<1> SUFFICES ASSUME IndInv, CommitEvents PROVE IndInv'
  OBVIOUS
<1> DEFINE new == InOrder(ready)
<1>1. ready \subseteq Rows /\ events \in Seq(Rows) /\ status \in [Rows -> Statuses]
  BY DEF IndInv, TypeOK
<1>2. /\ new \in Seq(Rows) /\ Len(new) = Cardinality(ready) /\ Elems(new) = ready
      /\ \A i, j \in DOMAIN new : new[i] = new[j] => i = j
  BY <1>1, RowsInOrder
<1>3. events' = events \o new /\ pc = "commit" /\ pc' = "notify"
  BY DEF CommitEvents
<1> HIDE DEF new
<1>4. /\ events' \in Seq(Rows) /\ Len(events') = Len(events) + Len(new)
      /\ Elems(events') = Elems(events) \cup ready
  BY <1>1, <1>2, <1>3, EventsConcat
<1>5. ready \cap Elems(events) = {}
  BY <1>3 DEF IndInv, RoundInv, InHandIsUnwritten, InHand
<1>6. OneEventPerRow'
  BY <1>1, <1>2, <1>3, <1>5, CommitKeepsOne DEF IndInv, TableInv, OneEventPerRow
<1>7. /\ status' \in [Rows -> Statuses]
      /\ \A r \in Rows :
           status'[r] = IF r \in ready /\ Exists(r) THEN "processed" ELSE status[r]
  BY <1>1 DEF CommitEvents, Statuses
<1>8. TypeOK'
  BY <1>4, <1>7 DEF IndInv, TypeOK, CommitEvents, PCs, round
<1>9. UnprocessedHasNoEvent'
  <2> SUFFICES ASSUME NEW r \in Rows, status'[r] \in Unprocessed PROVE r \notin Elems(events')
    BY DEF UnprocessedHasNoEvent, Elems
  <2>1. status'[r] = status[r] /\ ~(r \in ready /\ Exists(r))
    BY <1>7 DEF Unprocessed
  <2>2. r \notin ready
    BY <1>3, <2>1 DEF IndInv, RoundInv, InHandIsUnwritten, InHand, Processable, Exists, Unprocessed
  <2> QED BY <1>4, <2>1, <2>2 DEF IndInv, TableInv, UnprocessedHasNoEvent
<1>10. ProcessedHasEvent'
  <2> SUFFICES ASSUME NEW r \in Rows, status'[r] = "processed", class[r] \in {"known", "lookup"}
               PROVE  r \in Elems(events')
    BY DEF ProcessedHasEvent, Elems, CommitEvents
  <2> QED BY <1>4, <1>7 DEF IndInv, TableInv, ProcessedHasEvent
<1>11. AttemptsLeft'
  BY <1>7 DEF IndInv, TableInv, AttemptsLeft, CommitEvents
<1>12. InHandIsUnwritten'
  BY <1>3 DEF InHandIsUnwritten, InHand
<1>13. PhasesApart'
  <2>1. ready # {} /\ Cardinality(ready) # 0 /\ Cardinality(ready) \in Nat
    BY <1>1, <1>3, FS_EmptySet, RowsFinite DEF IndInv, RoundInv, PhasesApart
  <2>2. Len(events') # 0
    BY <1>1, <1>2, <1>4, <2>1
  <2>3. events' # <<>>
    BY <2>2
  <2> QED BY <1>3, <2>3 DEF IndInv, RoundInv, PhasesApart, CommitEvents, round
<1>14. BurntIsOut'
  <2>1. ready \cap burnt = {}
    BY <1>3 DEF IndInv, RoundInv, BurntIsOut, InHand
  <2> QED BY <1>3, <1>7, <2>1
          DEF IndInv, TypeOK, RoundInv, BurntIsOut, InHand, RequiresRetryWait, CommitEvents, round
<1> QED BY <1>6, <1>8, <1>9, <1>10, <1>11, <1>12, <1>13, <1>14 DEF IndInv, TableInv, RoundInv

\* A failed transaction writes nothing.
LEMMA CommitFailsStep == IndInv /\ CommitFails => IndInv'
<1> SUFFICES ASSUME IndInv, CommitFails PROVE IndInv'
  OBVIOUS
<1>1. faults' \in 0..MaxFaults
  BY InboxAssumption DEF IndInv, TypeOK, CommitFails, Fault, FaultAllowed
<1>2. TableInv'
  BY TableKept DEF IndInv, CommitFails
<1>3. TypeOK'
  BY <1>1 DEF IndInv, TypeOK, CommitFails, table, PCs
<1>4. InHandIsUnwritten'
  BY DEF IndInv, RoundInv, InHandIsUnwritten, InHand, Processable, Elems,
       CommitFails, table
<1>5. PhasesApart'
  BY DEF IndInv, RoundInv, PhasesApart, CommitFails, table
<1>6. BurntIsOut'
  BY DEF IndInv, RoundInv, BurntIsOut, InHand, RequiresRetryWait, CommitFails,
       table
<1> QED BY <1>2, <1>3, <1>4, <1>5, <1>6
     DEF IndInv, RoundInv

\* Once the ready rows are marked the round pauses.
LEMMA MarkReadyEndsStep == IndInv /\ MarkReadyEnds => IndInv'
<1> SUFFICES ASSUME IndInv, MarkReadyEnds PROVE IndInv'
  OBVIOUS
<1> QED BY RoundCleared DEF IndInv, TypeOK, MarkReadyEnds

\* The aggregation is told and the round ends.
LEMMA NotifyAggregationStep == IndInv /\ NotifyAggregation => IndInv'
<1> SUFFICES ASSUME IndInv, NotifyAggregation PROVE IndInv'
  OBVIOUS
<1> QED BY RoundCleared DEF IndInv, TypeOK, NotifyAggregation, RoundEnds, ContinueImmediately

\* After a pause no attempt counts as lost in this round.
LEMMA PauseEndsStep == IndInv /\ PauseEnds => IndInv'
<1> SUFFICES ASSUME IndInv, PauseEnds PROVE IndInv'
  OBVIOUS
<1>1. TableInv'
  BY TableKept DEF IndInv, PauseEnds
<1>2. TypeOK'
  BY DEF IndInv, TypeOK, PauseEnds, table, round, PCs
<1>3. InHandIsUnwritten'
  BY DEF IndInv, RoundInv, InHandIsUnwritten, InHand, Processable, Elems,
       PauseEnds, table, round, PCs
<1>4. PhasesApart'
  BY DEF IndInv, RoundInv, PhasesApart, PauseEnds, table, round, PCs
<1>5. BurntIsOut'
  BY DEF IndInv, RoundInv, BurntIsOut, InHand, RequiresRetryWait, PauseEnds,
       table, round, PCs
<1> QED BY <1>1, <1>2, <1>3, <1>4, <1>5
     DEF IndInv, RoundInv
-----------------------------------------------------------------------------
(***************************************************************************)
(* Theorems.                                                               *)
(***************************************************************************)

\* The first state satisfies the inductive invariant.
LEMMA InitIndInv == Init => IndInv
<1> SUFFICES ASSUME Init PROVE IndInv
  OBVIOUS
<1>1. Cardinality({}) = 0
  BY FS_EmptySet
<1>2. TypeOK
  <2>1. /\ status \in [Rows -> Statuses] /\ attempts \in [Rows -> 0..MaxAttempts]
        /\ faults \in 0..MaxFaults /\ events \in Seq(Rows) /\ Cardinality(batch) <= Limit
    BY <1>1, InboxAssumption DEF Init, Statuses
  <2> QED BY <2>1 DEF Init, TypeOK, PCs
<1>3. TableInv
  BY InboxAssumption
     DEF Init, TableInv, OneEventPerRow, UnprocessedHasNoEvent, ProcessedHasEvent, AttemptsLeft,
         Elems
<1>4. RoundInv
  BY DEF Init, RoundInv, InHandIsUnwritten, InHand, PhasesApart, BurntIsOut
<1> QED BY <1>2, <1>3, <1>4 DEF IndInv

\* Every step keeps the inductive invariant.
LEMMA IndInvStep == IndInv /\ [Next]_vars => IndInv'
<1> SUFFICES ASSUME IndInv, [Next]_vars PROVE IndInv'
  OBVIOUS
<1>1. CASE UNCHANGED vars
  BY <1>1
     DEF vars, IndInv, TypeOK, TableInv, OneEventPerRow, UnprocessedHasNoEvent, ProcessedHasEvent,
         AttemptsLeft, RoundInv, InHandIsUnwritten, InHand, Processable, Elems, PhasesApart,
         BurntIsOut, RequiresRetryWait
<1>2. CASE Next
  BY <1>2, ListRowsStep, RoundFailsStep, DecodeRowStep, DecodeEndsStep,
     ResolveIdentitiesStep, ResolveFailsStep, MarkRowFailedStep, MarkRowUncertainStep,
     MarkUnresolvedEndsStep, MarkReadyEndsStep, CommitEventsStep, CommitFailsStep,
     NotifyAggregationStep, PauseEndsStep, InsertMessagesStep, WeekPassesStep,
     CleanupRedisUsageInboxStep, CrashStep, BootStep DEF Next, ProcessRunner
<1> QED BY <1>1, <1>2

\* The inductive invariant holds throughout.
LEMMA InvariantHolds == Spec => []IndInv
BY InitIndInv, IndInvStep, PTL DEF Spec

\* The variables keep their types; in particular no row is ever given more
\* than MaxAttempts attempts and no batch exceeds Limit.
THEOREM TypesHold == Spec => []TypeOK
<1>1. IndInv => TypeOK
  BY DEF IndInv
<1> QED BY <1>1, InvariantHolds, PTL

\* A row becomes an event at most once, whatever crashes, failed statements,
\* retries and deletions happen between the statements of a round.
THEOREM OneEventPerRowHolds == Spec => []OneEventPerRow
<1>1. IndInv => OneEventPerRow
  BY DEF IndInv, TableInv
<1> QED BY <1>1, InvariantHolds, PTL

\* The status column and the event table agree: `processed' means the event is
\* there, and a row still to be processed or given up has none.
THEOREM StatusAgrees == Spec => []StatusAgreesWithEvents
<1>1. IndInv => StatusAgreesWithEvents
  BY DEF IndInv, TableInv, UnprocessedHasNoEvent, ProcessedHasEvent, Unprocessed,
         StatusAgreesWithEvents
<1> QED BY <1>1, InvariantHolds, PTL

\* Only a row in the runner's hands loses an attempt.
LEMMA AttemptsOfRowsInHand ==
    ASSUME IndInv, [Next]_vars, NEW r \in Rows, attempts'[r] > attempts[r]
    PROVE  r \in InHand
<1>1. attempts[r] \in Nat /\ attempts \in [Rows -> 0..MaxAttempts]
  BY DEF IndInv, TypeOK
<1>2. CASE DecodeRow
  <2>1. First(todo) \in InHand
    BY <1>2, FirstIn DEF IndInv, TypeOK, DecodeRow, InHand
  <2>2. r = First(todo)
    BY <1>1, <1>2 DEF DecodeRow, SetStatus, table
  <2> QED BY <2>1, <2>2
<1>3. CASE MarkRowFailed \/ MarkRowUncertain
  <2>1. First(todo) \in InHand
    BY <1>3, FirstIn DEF IndInv, TypeOK, MarkRowFailed, MarkRowUncertain, Marking, InHand
  <2>2. r = First(todo)
    BY <1>1, <1>3 DEF MarkRowFailed, MarkRowUncertain, MarkProcessFailed, SetStatus, table
  <2> QED BY <2>1, <2>2
<1>4. CASE UNCHANGED attempts
  BY <1>1, <1>4
<1>5. CASE UNCHANGED vars
  BY <1>4, <1>5 DEF vars
<1>6. CASE InsertMessages \/ WeekPasses \/ CleanupRedisUsageInbox \/ CommitEvents
  BY <1>4, <1>6 DEF InsertMessages, WeekPasses, CleanupRedisUsageInbox, CommitEvents
<1>7. CASE Next /\ UNCHANGED table
  BY <1>4, <1>7 DEF table
<1>8. Next => \/ DecodeRow \/ MarkRowFailed \/ MarkRowUncertain \/ UNCHANGED table
              \/ InsertMessages \/ WeekPasses \/ CleanupRedisUsageInbox \/ CommitEvents
  BY DEF Next, ProcessRunner, ListRows, RoundFails, DecodeEnds, ResolveIdentities, ResolveFails,
         MarkUnresolvedEnds, MarkReadyEnds, CommitFails, NotifyAggregation, PauseEnds, Crash, Boot
<1> QED BY <1>2, <1>3, <1>5, <1>6, <1>7, <1>8

\* No row loses two attempts without a pause in between, also when every
\* batch is full and the next listing follows at once.
THEOREM AttemptsPaced == Spec => AttemptsArePaced
<1>1. IndInv /\ [Next]_vars => [\A r \in Rows : attempts'[r] > attempts[r] => r \notin burnt]_vars
  <2> SUFFICES ASSUME IndInv, [Next]_vars, NEW r \in Rows, attempts'[r] > attempts[r]
               PROVE  r \notin burnt
    OBVIOUS
  <2>1. r \in InHand
    BY AttemptsOfRowsInHand
  <2> QED BY <2>1 DEF IndInv, RoundInv, BurntIsOut
<1> QED BY <1>1, InvariantHolds, PTL DEF Spec, AttemptsArePaced

\* The events, the notification and the process are the same for the feed.
LEMMA FeedUntouched ==
    ASSUME UNCHANGED events, pc = "notify" <=> pc' = "notify", pc = "down" <=> pc' = "down"
    PROVE  [Feed!Next]_(Feed!vars)
<1> DEFINE flag == \E r \in Rows : Processable(r)
<1>1. CASE flag <=> flag'
  <2>1. flag = flag'
    BY <1>1
  <2> QED BY <2>1 DEF Feed!vars
<1>2. CASE ~(flag <=> flag')
  <2>1. flag' = ~flag
    BY <1>2
  <2> QED BY <2>1 DEF Feed!Next, Feed!InboxChanges
<1> QED BY <1>1, <1>2

\* A commit hands out the next ids, and is announced before the next one.
LEMMA CommitIsFeedCommit == IndInv /\ CommitEvents => Feed!Commit
<1> SUFFICES ASSUME IndInv, CommitEvents PROVE Feed!Commit
  OBVIOUS
<1>1. IndInv'
  BY CommitEventsStep
<1>2. events \in Seq(Rows) /\ events' \in Seq(Rows) /\ ready \subseteq Rows /\ ready # {}
  BY <1>1 DEF CommitEvents, IndInv, TypeOK, RoundInv, PhasesApart
<1>3. Cardinality(ready) \in Nat /\ Cardinality(ready) # 0
  BY <1>2, FS_EmptySet, RowsFinite
<1>4. Len(events') = Len(events) + Cardinality(ready)
  BY <1>2, RowsInOrder, EventsConcat DEF CommitEvents
<1>5. Len(events') <= MaxRows
  BY <1>1, <1>2, EventsBounded DEF IndInv, TableInv, OneEventPerRow
<1>6. Len(events') \in (Len(events) + 1)..MaxRows
  BY <1>2, <1>3, <1>4, <1>5, InboxAssumption
<1>7. (\E r \in Rows : Processable(r))' \in BOOLEAN
  OBVIOUS
<1>8. pc = "commit" /\ pc' = "notify"
  BY DEF CommitEvents
<1> QED BY <1>6, <1>7, <1>8 DEF Feed!Commit

\* Every step of the inbox side is a step of the feed, or none.
LEMMA FeedStep == IndInv /\ [Next]_vars => [Feed!Next]_(Feed!vars)
<1> SUFFICES ASSUME IndInv, [Next]_vars PROVE [Feed!Next]_(Feed!vars)
  OBVIOUS
<1>1. CASE CommitEvents
  BY <1>1, CommitIsFeedCommit DEF Feed!Next
<1>2. CASE NotifyAggregation
  <2>1. /\ pc = "notify" /\ pc' \in {"list", "sleep"}
        /\ UNCHANGED <<events, status>>
    BY <1>2 DEF NotifyAggregation, RoundEnds, table
  <2>2. Len(events) > 0
    <3>1. events # <<>> /\ events \in Seq(Rows)
      BY <2>1 DEF IndInv, TypeOK, RoundInv, PhasesApart
    <3> QED BY <3>1
  <2>3. (\E r \in Rows : Processable(r))' = \E r \in Rows : Processable(r)
    BY <2>1 DEF Processable
  <2>4. Feed!Notify
    BY <2>1, <2>2, <2>3 DEF Feed!Notify
  <2> QED BY <2>4 DEF Feed!Next
<1>3. CASE Crash
  <2>1. pc # "down" /\ pc' = "down" /\ UNCHANGED <<events, status>>
    BY <1>3 DEF Crash, table
  <2>2. (\E r \in Rows : Processable(r))' = \E r \in Rows : Processable(r)
    BY <2>1 DEF Processable
  <2>3. Feed!Crash
    BY <2>1, <2>2 DEF Feed!Crash
  <2> QED BY <2>3 DEF Feed!Next
<1>4. CASE Boot
  <2>1. pc = "down" /\ pc' = "list" /\ UNCHANGED <<events, status>>
    BY <1>4 DEF Boot, table
  <2>2. (\E r \in Rows : Processable(r))' = \E r \in Rows : Processable(r)
    BY <2>1 DEF Processable
  <2>3. Feed!Boot
    BY <2>1, <2>2 DEF Feed!Boot
  <2> QED BY <2>3 DEF Feed!Next
<1>5. CASE \/ ListRows \/ RoundFails \/ DecodeRow \/ DecodeEnds \/ ResolveIdentities \/ ResolveFails
           \/ MarkRowFailed \/ MarkRowUncertain \/ MarkUnresolvedEnds \/ MarkReadyEnds \/ CommitFails
           \/ PauseEnds \/ InsertMessages \/ WeekPasses \/ CleanupRedisUsageInbox
  <2>1. /\ UNCHANGED events
        /\ \/ UNCHANGED pc
           \/ pc \notin {"notify", "down"} /\ pc' \notin {"notify", "down"}
    BY <1>5 DEF ListRows, RoundFails, DecodeRow, DecodeEnds, RoundEnds, ResolveIdentities,
                ResolveFails, MarkRowFailed, MarkRowUncertain, MarkUnresolvedEnds, MarkReadyEnds,
                CommitFails, PauseEnds, InsertMessages, WeekPasses, CleanupRedisUsageInbox
  <2> QED BY <2>1, FeedUntouched
<1>6. CASE UNCHANGED vars
  BY <1>6, FeedUntouched DEF vars
<1> QED BY <1>1, <1>2, <1>3, <1>4, <1>5, <1>6 DEF Next, ProcessRunner

\* The inbox side implements what the aggregation relies on: commits in id
\* order, each announced before the next unless the process crashes.
THEOREM InboxImplementsFeed == Spec => FeedSpec
<1>1. Init => Feed!Init
  <2> SUFFICES ASSUME Init PROVE Feed!Init
    OBVIOUS
  <2>1. Len(events) = 0 /\ pc = "down"
    BY DEF Init
  <2>2. ~\E r \in Rows : Processable(r)
    BY DEF Init, Processable
  <2>3. (\E r \in Rows : Processable(r)) = FALSE
    BY <2>2
  <2> QED BY <2>1, <2>3 DEF Feed!Init
<1> QED BY <1>1, FeedStep, InvariantHolds, PTL DEF Spec, FeedSpec, Feed!Spec
=============================================================================
