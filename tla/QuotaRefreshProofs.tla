------------------------ MODULE QuotaRefreshProofs --------------------------
(***************************************************************************)
(* Proofs about QuotaRefresh, for any accounts, any number of requests and *)
(* any number of workers: types (with the bound on the workers), that an   *)
(* account is queried by one worker at a time as long as its identity has  *)
(* not changed, and that an inspection reported as completed has no active *)
(* task, provided inspections do not overlap.                              *)
(*                                                                         *)
(* The first rests on records having one owner at a time (OnePlace: a      *)
(* request, then a dispatcher's queue, then a worker) and on a running     *)
(* record not being replaced (RunningStays), which in turn needs that      *)
(* nobody who still waits refers to a running record (WaitingIsIdle) and   *)
(* that an identity without changes gives one type (FirstIdentity).        *)
(***************************************************************************)
EXTENDS QuotaRefresh, OrdersProofs

Distinct(s) == \A i, j \in DOMAIN s : s[i] = s[j] => i = j
Made(c) == Elems(callers[c].made)

OnePlace ==
    /\ \A c \in Caller : Distinct(callers[c].made)
    /\ \A d \in dispatchers : Distinct(d.queue)
    /\ \A b, c \in Caller : b # c => Made(b) \cap Made(c) = {}
    /\ \A c \in Caller, d \in dispatchers : Made(c) \cap Elems(d.queue) = {}
    /\ \A d, e \in dispatchers : d # e => Elems(d.queue) \cap Elems(e.queue) = {}
    /\ \A w \in workers :
         /\ \A c \in Caller : w.ref \notin Made(c)
         /\ \A d \in dispatchers : w.ref \notin Elems(d.queue)
    /\ \A v, w \in workers : v.ref = w.ref => v = w

ActiveDoesNotExpire == \A a \in AuthIndex : IsActive(a) => tasks[a].expiry = "never"

Waits(r) == (\E c \in Caller : r \in Made(c)) \/ (\E d \in dispatchers : r \in Elems(d.queue))
WaitingIsIdle == \A r \in Ref : Waits(r) /\ Holds(r) => tasks[r.a].status # "running"

FirstIdentity ==
    \A a \in AuthIndex : changes[a] = 0 =>
        /\ ident[a] = "codex"
        /\ IsTask(a) => tasks[a].type = "codex"
        /\ \A c \in Caller : \A f \in callers[c].found : f[1] = a => f[2] = "codex"

RunningStays ==
    \A w \in workers : w.phase = "calling" /\ changes[w.ref.a] = 0 =>
        Holds(w.ref) /\ tasks[w.ref.a].status = "running"

TaskMap == [AuthIndex -> Task \cup {NoTask}]

Shapes ==
    /\ ident \in [AuthIndex -> Kinds]
    /\ events \in 0..MaxEvents /\ changes \in [AuthIndex -> 0..events]
    /\ tasks \in TaskMap
    /\ callers \in [Caller -> CallerState]
    /\ dispatchers \subseteq DispatcherState
    /\ workers \subseteq [ref : Ref, phase : {"started", "calling"}]

\* What a step of caller c does to the callers.
Typed == {<<a, TypeOf(ident[a])>> : a \in AuthIndex}
Moves(c, made) ==
    /\ callers' \in [Caller -> CallerState]
    /\ \A b \in Caller : b # c => callers'[b] = callers[b]
    /\ callers'[c].made = made
    /\ callers'[c].found \subseteq callers[c].found \cup Typed

\* Caller c makes a record for account f[1], which has no active one.
Created(c, f) ==
    /\ callers[c].pc = "queue"
    /\ ~(IsTask(f[1]) /\ IsActive(f[1]))
    /\ FreeIds # {}
    /\ tasks' = [tasks EXCEPT ![f[1]] = NewTask(SourceOf(c), f[2])]
    /\ Moves(c, Append(callers[c].made, [id |-> NewId, a |-> f[1]]))

\* The kinds of step: records that nobody works on fade, a record is created,
\* a request hands over what it made or, when the service closes, fails it.
Still == ident' = ident /\ changes' = changes
Faded ==
    /\ tasks' \in TaskMap
    /\ \A a \in AuthIndex : tasks'[a] # tasks[a] =>
          /\ ~IsActive(a) /\ ~IsActive(a)'
          /\ IsTask(a)' => IsTask(a) /\ tasks'[a].type = tasks[a].type

Fading ==
    /\ Faded /\ Still /\ UNCHANGED <<dispatchers, workers>>
    /\ \/ callers' = callers
       \/ \E c \in Caller : Moves(c, callers[c].made) \/ Moves(c, <<>>)
Creating ==
    /\ Still /\ UNCHANGED <<dispatchers, workers>>
    /\ \E c \in Caller : \E f \in callers[c].found : Created(c, f)
HandingOver ==
    /\ Still /\ UNCHANGED <<tasks, workers>>
    /\ \E c \in Caller, b \in BOOLEAN :
          Moves(c, <<>>) /\ dispatchers' = dispatchers \cup {Dispatcher(callers[c].made, b)}
GivingUp ==
    /\ Still /\ UNCHANGED <<dispatchers, workers>>
    /\ \E c \in Caller : Moves(c, <<>>) /\ tasks' = MarkFailed(tasks, Made(c), "transient")

Parts ==
    /\ tasks \in TaskMap
    /\ callers \in [Caller -> CallerState]
    /\ dispatchers \subseteq DispatcherState
    /\ workers \subseteq [ref : Ref, phase : {"started", "calling"}]

Records == ActiveDoesNotExpire /\ WaitingIsIdle /\ FirstIdentity /\ RunningStays
Core == Shapes /\ OnePlace /\ Records
-----------------------------------------------------------------------------
(***************************************************************************)
(* Operators.                                                              *)
(***************************************************************************)

\* A new record gets an id nobody refers to.
LEMMA NewIdIsFree == FreeIds # {} => NewId \in FreeIds /\ NewId \in Ids /\ NewId \notin IdsInUse
<1> SUFFICES ASSUME FreeIds # {} PROVE NewId \in FreeIds /\ NewId \in Ids /\ NewId \notin IdsInUse
  OBVIOUS
<1>1. FreeIds \subseteq Nat
  BY LimitAssumption DEF FreeIds, Ids
<1>2. \E m \in FreeIds : \A x \in FreeIds : m <= x
  BY <1>1, MinExists
<1>3. NewId \in FreeIds
  BY <1>2 DEF NewId
<1> QED BY <1>3 DEF FreeIds

\* So no reference to it exists yet.
LEMMA NewRefIsNew ==
    ASSUME FreeIds # {}, NEW a \in AuthIndex, NEW r, r = [id |-> NewId, a |-> a]
    PROVE  /\ r \in Ref
           /\ \A c \in Caller : r \notin Made(c)
           /\ \A d \in dispatchers : r \notin Elems(d.queue)
           /\ \A w \in workers : w.ref # r
<1>1. r.id = NewId /\ NewId \notin IdsInUse /\ r \in Ref
  BY NewIdIsFree DEF Ref
<1>2. r \notin RefsInUse
  BY <1>1 DEF IdsInUse
<1>3. \A c \in Caller : r \notin Made(c)
  BY <1>2 DEF RefsInUse, Made
<1>4. \A d \in dispatchers : r \notin Elems(d.queue)
  BY <1>2 DEF RefsInUse
<1>5. \A w \in workers : w.ref # r
  BY <1>2 DEF RefsInUse
<1> QED BY <1>1, <1>3, <1>4, <1>5

\* The type of a new record.
LEMMA NewTaskType ==
    ASSUME FreeIds # {}, NEW source \in Sources, NEW type \in {"codex", "claude"}
    PROVE  /\ NewTask(source, type) \in Task /\ NewTask(source, type).status = "queued"
           /\ NewTask(source, type).type = type /\ NewTask(source, type).expiry = "never"
           /\ NewTask(source, type).id = NewId /\ NewTask(source, type).source = source
BY NewIdIsFree DEF NewTask, Task

\* Identities have one of two types.
LEMMA TypeOfType == \A k \in Kinds : TypeOf(k) \in {"codex", "claude"} /\ TypeOf("codex") = "codex"
BY DEF TypeOf, Kinds

\* The caller's name for its tasks.
LEMMA SourceType == \A c : SourceOf(c) \in Sources
BY DEF SourceOf, Sources

\* No record at all is not a record, and is not active.
LEMMA NoTaskApart == NoTask \notin Task /\ NoTask.status = "none"
BY DEF NoTask, Task

\* An idle caller.
LEMMA IdleType ==
    /\ Idle \in CallerState /\ Idle.made = <<>> /\ Idle.found = {} /\ Idle.pc = "idle"
    /\ Elems(<<>>) = {} /\ Distinct(<<>>)
BY DEF Idle, CallerState, Elems, Distinct

\* A queue without repetition is its head and a tail that lacks it.
LEMMA QueueTaken ==
    ASSUME NEW q \in Seq(Ref), Distinct(q), q # <<>>
    PROVE  /\ Head(q) \in Ref /\ Head(q) \in Elems(q) /\ Tail(q) \in Seq(Ref)
           /\ Elems(Tail(q)) \subseteq Elems(q)
           /\ Head(q) \notin Elems(Tail(q)) /\ Distinct(Tail(q))
<1> DEFINE t == Tail(q)
<1>1. /\ Len(q) \in Nat /\ Len(q) # 0 /\ DOMAIN q = 1..Len(q)
  BY LenProperties, EmptySeq
<1>2. /\ Head(q) = q[1] /\ Head(q) \in Ref /\ t \in Seq(Ref) /\ Len(t) = Len(q) - 1
      /\ \A i \in 1..(Len(q) - 1) : t[i] = q[i + 1]
  BY <1>1, HeadTailProperties
<1>3. DOMAIN t = 1..(Len(q) - 1)
  BY <1>2, LenProperties
<1> HIDE DEF t
<1>4. \A i \in 1..(Len(q) - 1) : t[i] = q[i + 1] /\ i + 1 \in 1..Len(q) /\ i + 1 # 1
  BY <1>1, <1>2
<1>5. 1 \in 1..Len(q)
  BY <1>1
<1>6. Elems(t) \subseteq Elems(q)
  BY <1>1, <1>3, <1>4 DEF Elems
<1>7. Head(q) \notin Elems(t)
  BY <1>1, <1>2, <1>3, <1>4, <1>5 DEF Elems, Distinct
<1>8. Distinct(t)
  <2> SUFFICES ASSUME NEW i \in 1..(Len(q) - 1), NEW j \in 1..(Len(q) - 1), t[i] = t[j]
               PROVE  i = j
    BY <1>3 DEF Distinct
  <2>1. i + 1 = j + 1
    BY <1>1, <1>4 DEF Distinct
  <2> QED BY <2>1
<1>9. Head(q) \in Elems(q)
  BY <1>1, <1>2, <1>5 DEF Elems
<1> QED BY <1>2, <1>6, <1>7, <1>8, <1>9 DEF t

\* A list to which a new reference is appended stays without repetition.
LEMMA QueueAppended ==
    ASSUME NEW q \in Seq(Ref), Distinct(q), NEW r \in Ref, r \notin Elems(q)
    PROVE  /\ Append(q, r) \in Seq(Ref) /\ Distinct(Append(q, r))
           /\ Elems(Append(q, r)) = Elems(q) \cup {r}
<1>1. Append(q, r) \in Seq(Ref) /\ Elems(Append(q, r)) = Elems(q) \cup {r}
  BY ElemsAppend
<1>2. /\ Len(q) \in Nat /\ DOMAIN q = 1..Len(q) /\ DOMAIN Append(q, r) = 1..(Len(q) + 1)
      /\ \A i \in 1..Len(q) : Append(q, r)[i] = q[i] /\ q[i] \in Elems(q)
      /\ Append(q, r)[Len(q) + 1] = r
  BY AppendProperties, LenProperties DEF Elems
<1>3. \A i \in 1..(Len(q) + 1) : i \in 1..Len(q) \/ i = Len(q) + 1
  BY <1>2
<1>4. Distinct(Append(q, r))
  BY <1>2, <1>3 DEF Distinct
<1> QED BY <1>1, <1>4

\* The operations on the whole map keep records records.
LEMMA MapTypes ==
    ASSUME tasks \in TaskMap
    PROVE  /\ CleanupExpired(tasks) \in TaskMap /\ ClearSettled(tasks) \in TaskMap
           /\ \A refs : MarkFailed(tasks, refs, "transient") \in TaskMap
           /\ \A refs : MarkFailed(tasks, refs, "cacheable") \in TaskMap
<1>1. CleanupExpired(tasks) \in TaskMap
  BY DEF CleanupExpired, TaskMap
<1>2. ClearSettled(tasks) \in TaskMap
  BY DEF ClearSettled, TaskMap
<1>3. \A t \in Task : \A ttl \in {"transient", "cacheable"} : Failed(t, ttl) \in Task
  BY DEF Failed, Task
<1>4. \A refs : \A ttl \in {"transient", "cacheable"} : MarkFailed(tasks, refs, ttl) \in TaskMap
  BY <1>3 DEF MarkFailed, TaskMap
<1> QED BY <1>1, <1>2, <1>4

\* What a request hands over, and what a dispatcher keeps.
LEMMA DispatcherTypes ==
    /\ \A q \in Seq(Ref), b \in BOOLEAN :
         Dispatcher(q, b) \in DispatcherState /\ Dispatcher(q, b).queue = q
    /\ \A d \in DispatcherState, q \in Seq(Ref) : \A x \in Remaining(d, q) :
         x \in DispatcherState /\ x.queue = q
<1>1. \A q \in Seq(Ref) : Elems(q) \subseteq Ref
  BY LenProperties, ElementOfSeq DEF Elems
<1>2. ASSUME NEW q \in Seq(Ref), NEW b \in BOOLEAN
      PROVE  Dispatcher(q, b) \in DispatcherState /\ Dispatcher(q, b).queue = q
  BY <1>1 DEF Dispatcher, DispatcherState
<1>3. ASSUME NEW d \in DispatcherState, NEW q \in Seq(Ref), NEW x \in Remaining(d, q)
      PROVE  x \in DispatcherState /\ x.queue = q
  <2>1. x = [d EXCEPT !.queue = q]
    BY DEF Remaining
  <2> QED BY <2>1 DEF DispatcherState
<1> QED BY <1>2, <1>3

\* The type of one caller's state decides that of all of them.
LEMMA CallerSet ==
    ASSUME callers \in [Caller -> CallerState], NEW c \in Caller, NEW x \in CallerState,
           NEW f, f = [callers EXCEPT ![c] = x]
    PROVE  f \in [Caller -> CallerState] /\ f[c] = x /\ \A b \in Caller : b # c => f[b] = callers[b]
OBVIOUS
-----------------------------------------------------------------------------
(***************************************************************************)
(* What each step does to the requests.                                    *)
(***************************************************************************)

\* A caller that starts anew, or ends, holds nothing.
LEMMA StartsAnew ==
    ASSUME callers \in [Caller -> CallerState], NEW c \in Caller, NEW x \in CallerState,
           x.made = <<>>, x.found = {}, callers' = [callers EXCEPT ![c] = x]
    PROVE  Moves(c, <<>>)
BY CallerSet DEF Moves

\* The accounts listed, with the type of each.
LEMMA ListedTyped ==
    ASSUME ident \in [AuthIndex -> Kinds]
    PROVE  Listed \subseteq Typed /\ Typed \subseteq AuthIndex \X {"codex", "claude"}
<1>1. Listed \subseteq Typed
  BY DEF Listed, Typed
<1>2. \A a \in AuthIndex : TypeOf(ident[a]) \in {"codex", "claude"}
  BY TypeOfType
<1> QED BY <1>1, <1>2 DEF Typed

LEMMA ListingMoves ==
    ASSUME Shapes, NEW c \in Caller,
           callers' = [callers EXCEPT ![c].pc = "queue", ![c].found = Listed]
    PROVE  Moves(c, callers[c].made)
<1> DEFINE x == [callers[c] EXCEPT !.pc = "queue", !.found = Listed]
<1>1. Listed \subseteq AuthIndex \X {"codex", "claude"} /\ Listed \subseteq Typed
  BY ListedTyped DEF Shapes
<1>2. callers[c] \in CallerState
  BY DEF Shapes
<1>3. x \in CallerState /\ x.made = callers[c].made /\ x.found = Listed
  BY <1>1, <1>2 DEF CallerState
<1>4. callers' = [callers EXCEPT ![c] = x]
  BY DEF Shapes
<1> HIDE DEF x
<1>5. /\ callers' \in [Caller -> CallerState] /\ callers'[c] = x
      /\ \A b \in Caller : b # c => callers'[b] = callers[b]
  BY <1>3, <1>4, CallerSet DEF Shapes
<1> QED BY <1>1, <1>3, <1>5 DEF Moves

LEMMA RefreshMoves == \A c \in Manual : Shapes /\ Refresh(c) => Moves(c, <<>>)
<1> SUFFICES ASSUME NEW c \in Manual, Shapes, Refresh(c) PROVE Moves(c, <<>>)
  OBVIOUS
<1>1. PICK S \in SUBSET AuthIndex : callers' = [callers EXCEPT ![c] = [Idle EXCEPT !.pc = "list", !.want = S]]
  BY DEF Refresh
<1>2. [Idle EXCEPT !.pc = "list", !.want = S] \in CallerState
  BY IdleType DEF CallerState
<1>3. [Idle EXCEPT !.pc = "list", !.want = S].made = <<>> /\ [Idle EXCEPT !.pc = "list", !.want = S].found = {}
  BY IdleType DEF CallerState
<1>4. c \in Caller
  BY DEF Caller
<1> QED BY <1>1, <1>2, <1>3, <1>4, StartsAnew DEF Shapes

LEMMA ListStart ==
    [Idle EXCEPT !.pc = "list"] \in CallerState /\ [Idle EXCEPT !.pc = "list"].made = <<>>
    /\ [Idle EXCEPT !.pc = "list"].found = {}
BY IdleType DEF CallerState

LEMMA StartInspectionMoves == \A c \in Inspector : Shapes /\ StartInspection(c) => Moves(c, <<>>)
BY ListStart, StartsAnew DEF Shapes, StartInspection, Caller

LEMMA RunAutoMoves == Shapes /\ RunAutoRefresh => Moves(Scheduler, <<>>)
BY ListStart, StartsAnew DEF Shapes, RunAutoRefresh, Caller

LEMMA EndMoves ==
    \A c \in Caller : Shapes /\ callers' = [callers EXCEPT ![c] = Idle] => Moves(c, <<>>)
BY IdleType, StartsAnew DEF Shapes

LEMMA ValidateMoves == \A c \in Manual : Shapes /\ ValidateNext(c) => Moves(c, callers[c].made)
<1> SUFFICES ASSUME NEW c \in Manual, Shapes, ValidateNext(c) PROVE Moves(c, callers[c].made)
  OBVIOUS
<1>1. c \in Caller /\ callers[c] \in CallerState
  BY DEF Caller, Shapes
<1>2. PICK a \in callers[c].want : callers' = [callers EXCEPT
              ![c].want = @ \ {a},
              ![c].found = IF Supported(ident[a]) /\ ~(IsTask(a) /\ IsActive(a))
                             THEN {<<a, TypeOf(ident[a])>>} ELSE {},
              ![c].pc = IF Supported(ident[a]) /\ ~(IsTask(a) /\ IsActive(a))
                          THEN "queue" ELSE "list"]
  BY DEF ValidateNext
<1> DEFINE good == Supported(ident[a]) /\ ~(IsTask(a) /\ IsActive(a))
           F == IF good THEN {<<a, TypeOf(ident[a])>>} ELSE {}
           P == IF good THEN "queue" ELSE "list"
           x == [callers[c] EXCEPT !.want = @ \ {a}, !.found = F, !.pc = P]
<1>3. a \in AuthIndex
  BY <1>1 DEF CallerState
<1>4. F \subseteq Typed /\ Typed \subseteq AuthIndex \X {"codex", "claude"}
  BY <1>3, ListedTyped DEF Typed, Shapes
<1>5. P \in {"idle", "list", "queue"}
  OBVIOUS
<1>6. callers' = [callers EXCEPT ![c].want = @ \ {a}, ![c].found = F, ![c].pc = P]
  BY <1>2
<1> HIDE DEF F, P
<1>7. x \in CallerState /\ x.made = callers[c].made /\ x.found = F
  BY <1>1, <1>4, <1>5 DEF CallerState
<1>8. callers' = [callers EXCEPT ![c] = x]
  BY <1>1, <1>6 DEF Shapes
<1> HIDE DEF x
<1> QED BY <1>1, <1>4, <1>7, <1>8, CallerSet DEF Moves, Shapes

LEMMA EnsureMoves ==
    ASSUME Shapes, NEW c \in Caller, EnsureTask(c)
    PROVE  \/ Moves(c, callers[c].made) /\ tasks' = tasks
           \/ \E f \in callers[c].found : Created(c, f)
<1> DEFINE then == IF c \in Manual THEN "list" ELSE "queue"
<1>0. callers[c] \in CallerState /\ then \in {"idle", "list", "queue"}
  BY DEF Shapes
<1>1. PICK f \in callers[c].found :
         \/ callers' = [callers EXCEPT ![c].found = callers[c].found \ {f}] /\ tasks' = tasks
         \/ /\ callers' = [callers EXCEPT
                ![c].found = callers[c].found \ {f}, ![c].pc = then,
                ![c].round = IF tasks[f[1]].source = SourceOf(c) THEN @ \cup {f[1]} ELSE @]
            /\ tasks' = tasks
         \/ /\ ~(IsTask(f[1]) /\ IsActive(f[1])) /\ FreeIds # {}
            /\ tasks' = [tasks EXCEPT ![f[1]] = NewTask(SourceOf(c), f[2])]
            /\ callers' = [callers EXCEPT
                ![c].found = callers[c].found \ {f}, ![c].pc = then, ![c].round = @ \cup {f[1]},
                ![c].made = Append(@, [id |-> NewId, a |-> f[1]])]
  BY DEF EnsureTask
<1> DEFINE rest == callers[c].found \ {f}
           grown == IF tasks[f[1]].source = SourceOf(c)
                      THEN callers[c].round \cup {f[1]} ELSE callers[c].round
           new == [id |-> NewId, a |-> f[1]]
<1>2. f[1] \in AuthIndex /\ f[2] \in {"codex", "claude"}
  BY <1>0 DEF CallerState
<1>3. rest \subseteq callers[c].found /\ rest \subseteq AuthIndex \X {"codex", "claude"}
      /\ grown \in SUBSET AuthIndex
  BY <1>0, <1>2 DEF CallerState
<1> HIDE DEF then
<1>4. CASE callers' = [callers EXCEPT ![c].found = callers[c].found \ {f}] /\ tasks' = tasks
  <2> DEFINE x == [callers[c] EXCEPT !.found = rest]
  <2>1. callers' = [callers EXCEPT ![c] = x]
    BY <1>4 DEF Shapes
  <2> HIDE DEF rest
  <2>2. x \in CallerState /\ x.made = callers[c].made /\ x.found = rest
    BY <1>0, <1>3 DEF CallerState
  <2> HIDE DEF x
  <2>3. /\ callers' \in [Caller -> CallerState] /\ callers'[c] = x
        /\ \A b \in Caller : b # c => callers'[b] = callers[b]
    BY <2>1, <2>2, CallerSet DEF Shapes
  <2> QED BY <1>3, <1>4, <2>2, <2>3 DEF Moves
<1>5. CASE /\ callers' = [callers EXCEPT
                ![c].found = callers[c].found \ {f}, ![c].pc = then,
                ![c].round = IF tasks[f[1]].source = SourceOf(c) THEN @ \cup {f[1]} ELSE @]
           /\ tasks' = tasks
  <2> DEFINE x == [callers[c] EXCEPT !.found = rest, !.pc = then, !.round = grown]
  <2>1. callers' = [callers EXCEPT ![c] = x]
    BY <1>0, <1>5 DEF Shapes, CallerState
  <2> HIDE DEF rest, grown
  <2>2. x \in CallerState /\ x.made = callers[c].made /\ x.found = rest
    BY <1>0, <1>3 DEF CallerState
  <2> HIDE DEF x
  <2>3. /\ callers' \in [Caller -> CallerState] /\ callers'[c] = x
        /\ \A b \in Caller : b # c => callers'[b] = callers[b]
    BY <2>1, <2>2, CallerSet DEF Shapes
  <2> QED BY <1>3, <1>5, <2>2, <2>3 DEF Moves
<1>6. CASE /\ ~(IsTask(f[1]) /\ IsActive(f[1])) /\ FreeIds # {}
           /\ tasks' = [tasks EXCEPT ![f[1]] = NewTask(SourceOf(c), f[2])]
           /\ callers' = [callers EXCEPT
                ![c].found = callers[c].found \ {f}, ![c].pc = then, ![c].round = @ \cup {f[1]},
                ![c].made = Append(@, [id |-> NewId, a |-> f[1]])]
  <2> DEFINE x == [callers[c] EXCEPT !.found = rest, !.pc = then,
                       !.round = callers[c].round \cup {f[1]}, !.made = Append(callers[c].made, new)]
  <2>1. callers' = [callers EXCEPT ![c] = x]
    BY <1>0, <1>6 DEF Shapes, CallerState
  <2>2. new \in Ref /\ callers[c].made \in Seq(Ref)
    BY <1>0, <1>2, <1>6, NewIdIsFree DEF Ref, CallerState
  <2> HIDE DEF new
  <2>3. Append(callers[c].made, new) \in Seq(Ref)
    BY <2>2, AppendProperties
  <2>4. callers[c].round \cup {f[1]} \in SUBSET AuthIndex
    BY <1>0, <1>2 DEF CallerState
  <2> HIDE DEF rest
  <2>5. x \in CallerState /\ x.made = Append(callers[c].made, new) /\ x.found = rest
    BY <1>0, <1>3, <2>3, <2>4 DEF CallerState
  <2> HIDE DEF x
  <2>6. /\ callers' \in [Caller -> CallerState] /\ callers'[c] = x
        /\ \A b \in Caller : b # c => callers'[b] = callers[b]
    BY <2>1, <2>5, CallerSet DEF Shapes
  <2>7. Moves(c, Append(callers[c].made, new))
    BY <1>3, <2>5, <2>6 DEF Moves
  <2>8. callers[c].pc = "queue"
    BY DEF EnsureTask
  <2> QED BY <1>6, <2>7, <2>8 DEF Created, new
<1> QED BY <1>1, <1>4, <1>5, <1>6
-----------------------------------------------------------------------------
(***************************************************************************)
(* Every step is of one of the kinds.                                      *)
(***************************************************************************)

LEMMA StartingKinds ==
    ASSUME NEW c \in Caller, Moves(c, <<>>), Still, UNCHANGED workers, Shapes,
           StartDispatcher(c, callers[c].made)
    PROVE  Fading \/ HandingOver \/ GivingUp
<1>1. CASE callers[c].made = <<>>
  <2>1. UNCHANGED <<dispatchers, tasks>>
    BY <1>1 DEF StartDispatcher
  <2>2. Faded
    BY <2>1 DEF Faded, Shapes
  <2> QED BY <2>1, <2>2 DEF Fading
<1>2. CASE callers[c].made # <<>> /\ closing
  BY <1>2 DEF StartDispatcher, GivingUp, Made
<1>3. CASE callers[c].made # <<>> /\ ~closing
  <2>1. (c = Scheduler) \in BOOLEAN
    OBVIOUS
  <2>2. dispatchers' = dispatchers \cup {Dispatcher(callers[c].made, c = Scheduler)} /\ UNCHANGED tasks
    BY <1>3 DEF StartDispatcher
  <2> QED BY <2>1, <2>2 DEF HandingOver
<1> QED BY <1>1, <1>2, <1>3

\* Cleaning up removes records nobody works on.
LEMMA CleanupFades ==
    ASSUME tasks \in TaskMap, ActiveDoesNotExpire
    PROVE  /\ tasks' = CleanupExpired(tasks) => Faded
           /\ tasks' = ClearSettled(tasks) => Faded
           /\ tasks' = tasks => Faded
           /\ \A a \in AuthIndex : Expired(a) /\ tasks' = [tasks EXCEPT ![a] = NoTask] => Faded
<1>0. \A a \in AuthIndex : tasks[a] \in Task \/ tasks[a] = NoTask
  BY DEF TaskMap
<1>1. ASSUME tasks' = CleanupExpired(tasks) PROVE Faded
  <2>1. tasks' \in TaskMap
    BY <1>1, MapTypes
  <2>2. \A a \in AuthIndex : tasks'[a] # tasks[a] => tasks[a].expiry = "over" /\ tasks'[a] = NoTask
    BY <1>1 DEF CleanupExpired
  <2> QED BY <2>1, <2>2, NoTaskApart DEF Faded, ActiveDoesNotExpire, IsActive, IsTask
<1>2. ASSUME tasks' = ClearSettled(tasks) PROVE Faded
  <2>1. tasks' \in TaskMap
    BY <1>2, MapTypes
  <2>2. \A a \in AuthIndex : tasks'[a] # tasks[a] =>
            tasks[a].status \in {"completed", "failed"} /\ tasks'[a] = NoTask
    BY <1>2 DEF ClearSettled
  <2> QED BY <2>1, <2>2, NoTaskApart DEF Faded, IsActive, IsTask
<1>3. ASSUME NEW a \in AuthIndex, Expired(a), tasks' = [tasks EXCEPT ![a] = NoTask] PROVE Faded
  <2>1. tasks' \in TaskMap
    BY <1>3 DEF TaskMap
  <2>2. \A b \in AuthIndex : tasks'[b] # tasks[b] => tasks[b].expiry = "over" /\ tasks'[b] = NoTask
    BY <1>3 DEF Expired, TaskMap
  <2> QED BY <2>1, <2>2, NoTaskApart DEF Faded, ActiveDoesNotExpire, IsActive, IsTask
<1>4. tasks' = tasks => Faded
  BY DEF Faded
<1> QED BY <1>1, <1>2, <1>3, <1>4

LEMMA ExpiryFades ==
    ASSUME tasks \in TaskMap, ActiveDoesNotExpire, NEW a \in AuthIndex, TaskExpires(a)
    PROVE  Faded
<1>1. tasks[a] \in Task /\ tasks[a].expiry # "never" /\ tasks' = [tasks EXCEPT ![a].expiry = "over"]
  BY DEF TaskExpires, IsTask, TaskMap
<1>2. ~IsActive(a)
  BY <1>1 DEF ActiveDoesNotExpire
<1>3. tasks'[a] = [tasks[a] EXCEPT !.expiry = "over"] /\ \A b \in AuthIndex : b # a => tasks'[b] = tasks[b]
  BY <1>1 DEF TaskMap
<1>4. /\ tasks'[a] \in Task /\ tasks'[a].status = tasks[a].status /\ tasks'[a].type = tasks[a].type
  BY <1>1, <1>3 DEF Task
<1>5. tasks' \in TaskMap
  BY <1>1, <1>4 DEF TaskMap
<1> QED BY <1>1, <1>2, <1>3, <1>4, <1>5, NoTaskApart DEF Faded, IsActive, IsTask

LEMMA StepKinds ==
    ASSUME Shapes, ActiveDoesNotExpire, [Next]_vars
    PROVE  \/ Fading \/ Creating \/ HandingOver \/ GivingUp
           \/ \E a \in AuthIndex : IdentityChanges(a) \/ HeaderReplaces(a)
           \/ \E d \in dispatchers : DispatchNext(d) \/ DispatchCancelled(d) \/ MonitorEnds(d)
           \/ \E w \in workers : WorkerStarts(w) \/ WorkerFinishes(w)
<1> USE DEF Still
<1>0. tasks \in TaskMap /\ ident \in [AuthIndex -> Kinds]
  BY DEF Shapes
<1>1. ASSUME NEW a \in AuthIndex, TaskExpires(a) PROVE Fading
  BY <1>0, <1>1, ExpiryFades DEF Fading, TaskExpires
<1>2. ASSUME ReadTasks PROVE Fading
  <2>1. Faded
    BY <1>0, <1>2, CleanupFades DEF ReadTasks
  <2> QED BY <1>2, <2>1 DEF Fading, ReadTasks, envVars
<1>3. ASSUME NEW c \in Manual, Refresh(c) PROVE Fading
  <2>1. Faded /\ Moves(c, <<>>) /\ c \in Caller
    BY <1>0, <1>3, CleanupFades, RefreshMoves DEF Refresh, Caller
  <2> QED BY <1>3, <2>1 DEF Fading, Refresh
<1>4. ASSUME NEW c \in Inspector, StartInspection(c) PROVE Fading
  <2>1. Faded /\ Moves(c, <<>>) /\ c \in Caller
    BY <1>0, <1>4, CleanupFades, StartInspectionMoves DEF StartInspection, Caller
  <2> QED BY <1>4, <2>1 DEF Fading, StartInspection
<1>5. ASSUME RunAutoRefresh PROVE Fading
  <2>1. Faded /\ Moves(Scheduler, <<>>) /\ Scheduler \in Caller
    BY <1>0, <1>5, CleanupFades, RunAutoMoves DEF RunAutoRefresh, Caller
  <2> QED BY <1>5, <2>1 DEF Fading, RunAutoRefresh
<1>6. ASSUME GetInspectionStatus PROVE Fading
  <2>1. Faded
    BY <1>0, <1>6, CleanupFades DEF GetInspectionStatus
  <2> QED BY <1>6, <2>1 DEF Fading, GetInspectionStatus, envVars
<1>7. ASSUME NEW c \in Manual, ValidateNext(c) PROVE Fading
  <2>1. Faded /\ Moves(c, callers[c].made) /\ c \in Caller
    BY <1>0, <1>7, CleanupFades, ValidateMoves DEF ValidateNext, Caller
  <2> QED BY <1>7, <2>1 DEF Fading, ValidateNext, envVars
<1>8. ASSUME NEW c \in Manual, RefreshFails(c) PROVE Fading
  <2>1. Faded /\ Moves(c, <<>>) /\ c \in Caller
    BY <1>0, <1>8, CleanupFades, EndMoves DEF RefreshFails, Caller
  <2> QED BY <1>8, <2>1 DEF Fading, RefreshFails, envVars
<1>9. ASSUME NEW c \in Manual, FinishRefresh(c) PROVE Fading \/ HandingOver \/ GivingUp
  <2>1. Moves(c, <<>>) /\ c \in Caller
    BY <1>9, EndMoves DEF FinishRefresh, Caller
  <2>2. StartDispatcher(c, callers[c].made) /\ Still /\ UNCHANGED workers
    BY <1>9 DEF FinishRefresh, envVars
  <2> QED BY <2>1, <2>2, StartingKinds
<1>10. ASSUME NEW c \in Inspector, InspectionLists(c) PROVE Fading
  <2>1. Faded /\ c \in Caller
    BY <1>0, <1>10, CleanupFades DEF InspectionLists, Caller
  <2>2. Moves(c, callers[c].made) \/ Moves(c, <<>>)
    BY <1>10, <2>1, EndMoves, ListingMoves DEF InspectionLists
  <2> QED BY <1>10, <2>1, <2>2 DEF Fading, InspectionLists, envVars
<1>11. ASSUME NEW c \in Inspector, DispatchInspection(c) PROVE Fading \/ HandingOver \/ GivingUp
  <2>1. Moves(c, <<>>) /\ c \in Caller
    BY <1>11, EndMoves DEF DispatchInspection, Caller
  <2>2. StartDispatcher(c, callers[c].made) /\ Still /\ UNCHANGED workers
    BY <1>11 DEF DispatchInspection, envVars
  <2> QED BY <2>1, <2>2, StartingKinds
<1>12. ASSUME AutoLists PROVE Fading
  <2>1. Faded /\ Scheduler \in Caller
    BY <1>0, <1>12, CleanupFades DEF AutoLists, Caller
  <2>2. Moves(Scheduler, callers[Scheduler].made) \/ Moves(Scheduler, <<>>)
    BY <1>12, <2>1, EndMoves, ListingMoves DEF AutoLists
  <2> QED BY <1>12, <2>1, <2>2 DEF Fading, AutoLists, envVars
<1>13. ASSUME DispatchAuto PROVE Fading \/ HandingOver \/ GivingUp
  <2>1. Moves(Scheduler, <<>>) /\ Scheduler \in Caller
    BY <1>13, EndMoves DEF DispatchAuto, Caller
  <2>2. StartDispatcher(Scheduler, callers[Scheduler].made) /\ Still /\ UNCHANGED workers
    BY <1>13 DEF DispatchAuto, envVars
  <2> QED BY <2>1, <2>2, StartingKinds
<1>14. ASSUME NEW c \in Caller, EnsureTask(c) PROVE Fading \/ Creating
  <2>1. Still /\ UNCHANGED <<dispatchers, workers>>
    BY <1>14 DEF EnsureTask, envVars
  <2>2. tasks' = tasks => Faded
    BY <1>0, CleanupFades
  <2> QED BY <1>14, <2>1, <2>2, EnsureMoves DEF Fading, Creating
<1>15. ASSUME StopRefreshTasks \/ UNCHANGED vars PROVE Fading
  <2>1. Faded
    BY <1>0, <1>15, CleanupFades DEF StopRefreshTasks, vars, taskVars
  <2> QED BY <1>15, <2>1 DEF Fading, StopRefreshTasks, vars, envVars, taskVars
<1> QED
  BY <1>1, <1>2, <1>3, <1>4, <1>5, <1>6, <1>7, <1>8, <1>9, <1>10, <1>11, <1>12, <1>13, <1>14, <1>15
     DEF Next, CallerStep, WorkerStep

\* The counters and the identities.
LEMMA CountersStep ==
    ASSUME Shapes, [Next]_vars
    PROVE  /\ ident' \in [AuthIndex -> Kinds] /\ events' \in 0..MaxEvents
           /\ changes' \in [AuthIndex -> 0..events']
<1>0. /\ ident \in [AuthIndex -> Kinds] /\ events \in 0..MaxEvents /\ changes \in [AuthIndex -> 0..events]
      /\ MaxEvents \in Nat
  BY LimitAssumption DEF Shapes
<1>1. ASSUME NEW a \in AuthIndex, IdentityChanges(a)
      PROVE  /\ ident' \in [AuthIndex -> Kinds] /\ events' \in 0..MaxEvents
             /\ changes' \in [AuthIndex -> 0..events']
  BY <1>0, <1>1 DEF IdentityChanges, Event
<1>2. ASSUME ident' = ident, changes' = changes, Event
      PROVE  /\ ident' \in [AuthIndex -> Kinds] /\ events' \in 0..MaxEvents
             /\ changes' \in [AuthIndex -> 0..events']
  BY <1>0, <1>2 DEF Event
<1>3. ASSUME UNCHANGED envVars
      PROVE  /\ ident' \in [AuthIndex -> Kinds] /\ events' \in 0..MaxEvents
             /\ changes' \in [AuthIndex -> 0..events']
  BY <1>0, <1>3 DEF envVars
<1>4. \/ \E a \in AuthIndex : IdentityChanges(a)
      \/ ident' = ident /\ changes' = changes /\ Event
      \/ UNCHANGED envVars
  <2>1. \A a \in AuthIndex : TaskExpires(a) \/ HeaderReplaces(a) => ident' = ident /\ changes' = changes /\ Event
    BY DEF TaskExpires, HeaderReplaces
  <2>2. \A c : Refresh(c) \/ StartInspection(c) \/ RunAutoRefresh => ident' = ident /\ changes' = changes /\ Event
    BY DEF Refresh, StartInspection, RunAutoRefresh
  <2>3. \A c : CallerStep(c) => UNCHANGED envVars
    BY DEF CallerStep, ValidateNext, FinishRefresh, RefreshFails, InspectionLists, DispatchInspection,
           AutoLists, DispatchAuto, EnsureTask
  <2>4. \A d : DispatchNext(d) \/ DispatchCancelled(d) \/ MonitorEnds(d) => UNCHANGED envVars
    BY DEF DispatchNext, DispatchCancelled, MonitorEnds
  <2>5. \A w : WorkerStep(w) => UNCHANGED envVars
    BY DEF WorkerStep, WorkerStarts, WorkerFinishes
  <2>6. ReadTasks \/ GetInspectionStatus \/ StopRefreshTasks \/ UNCHANGED vars => UNCHANGED envVars
    BY DEF ReadTasks, GetInspectionStatus, StopRefreshTasks, vars
  <2> QED BY <2>1, <2>2, <2>3, <2>4, <2>5, <2>6 DEF Next
<1> QED BY <1>1, <1>2, <1>3, <1>4
-----------------------------------------------------------------------------
(***************************************************************************)
(* A reference has one place.                                              *)
(***************************************************************************)

\* A request that keeps its references, or drops them.
LEMMA PlacesMade ==
    ASSUME OnePlace, UNCHANGED <<dispatchers, workers>>,
           \A c \in Caller : callers'[c].made = callers[c].made \/ callers'[c].made = <<>>
    PROVE  OnePlace' /\ \A r : Waits(r)' => Waits(r)
<1>1. \A c \in Caller : (Made(c)' = Made(c) \/ Made(c)' = {}) /\ Distinct(callers'[c].made)
  BY IdleType DEF Made, OnePlace
<1>2. OnePlace'
  BY <1>1 DEF OnePlace
<1>3. \A r : Waits(r)' => Waits(r)
  BY <1>1 DEF Waits
<1> QED BY <1>2, <1>3

\* A request that appends a new reference.
LEMMA PlacesAppended ==
    ASSUME Shapes, OnePlace, UNCHANGED <<dispatchers, workers>>, NEW c \in Caller, NEW a \in AuthIndex,
           FreeIds # {}, NEW r, r = [id |-> NewId, a |-> a], Moves(c, Append(callers[c].made, r))
    PROVE  OnePlace' /\ \A x : Waits(x)' => Waits(x) \/ x = r
<1>1. /\ r \in Ref /\ \A b \in Caller : r \notin Made(b)
      /\ \A d \in dispatchers : r \notin Elems(d.queue)
      /\ \A w \in workers : w.ref # r
  BY NewRefIsNew
<1>2. callers[c].made \in Seq(Ref) /\ Distinct(callers[c].made)
  BY DEF Shapes, CallerState, OnePlace
<1>3. Distinct(Append(callers[c].made, r)) /\ Elems(Append(callers[c].made, r)) = Made(c) \cup {r}
  BY <1>1, <1>2, QueueAppended DEF Made
<1>4. Made(c)' = Made(c) \cup {r} /\ Distinct(callers'[c].made)
  BY <1>3 DEF Moves, Made
<1>5. \A b \in Caller : b # c => Made(b)' = Made(b) /\ Distinct(callers'[b].made)
  BY DEF Moves, Made, OnePlace
<1>6. OnePlace'
  BY <1>1, <1>4, <1>5 DEF OnePlace
<1>7. \A x : Waits(x)' => Waits(x) \/ x = r
  BY <1>4, <1>5 DEF Waits
<1> QED BY <1>6, <1>7

\* A request hands its references to a dispatcher.
LEMMA PlacesHanded ==
    ASSUME Shapes, OnePlace, UNCHANGED workers, NEW c \in Caller, Moves(c, <<>>),
           NEW x, x.queue = callers[c].made, dispatchers' = dispatchers \cup {x}
    PROVE  OnePlace' /\ \A r : Waits(r)' => Waits(r)
<1>1. Elems(x.queue) = Made(c) /\ Distinct(x.queue)
  BY DEF Made, OnePlace
<1>2. Made(c)' = {} /\ Distinct(callers'[c].made)
  BY IdleType DEF Moves, Made
<1>3. \A b \in Caller : b # c => Made(b)' = Made(b) /\ Distinct(callers'[b].made)
  BY DEF Moves, Made, OnePlace
<1>4. OnePlace'
  BY <1>1, <1>2, <1>3 DEF OnePlace
<1>5. \A r : Waits(r)' => Waits(r)
  BY <1>1, <1>2, <1>3 DEF Waits
<1> QED BY <1>4, <1>5

\* A dispatcher keeps at most a part of its queue.
LEMMA PlacesDropped ==
    ASSUME OnePlace, UNCHANGED <<callers, workers>>, NEW d \in dispatchers, NEW R,
           \A x \in R : x.queue = <<>>, dispatchers' = (dispatchers \ {d}) \cup R
    PROVE  OnePlace' /\ \A r : Waits(r)' => Waits(r)
<1>1. \A x \in R : Elems(x.queue) = {} /\ Distinct(x.queue)
  BY IdleType
<1>2. \A c \in Caller : Made(c)' = Made(c)
  BY DEF Made
<1>3. \A e \in dispatchers' : e \in dispatchers \/ (Elems(e.queue) = {} /\ Distinct(e.queue))
  BY <1>1
<1>4. \A e, f \in dispatchers' : e # f => Elems(e.queue) \cap Elems(f.queue) = {}
  BY <1>3 DEF OnePlace
<1>5. \A e \in dispatchers' : /\ Distinct(e.queue)
                              /\ \A c \in Caller : Made(c) \cap Elems(e.queue) = {}
                              /\ \A w \in workers : w.ref \notin Elems(e.queue)
  BY <1>3 DEF OnePlace
<1>6. OnePlace'
  BY <1>2, <1>4, <1>5 DEF OnePlace
<1>7. \A r : Waits(r)' => Waits(r)
  BY <1>1, <1>2 DEF Waits
<1> QED BY <1>6, <1>7

\* A dispatcher gives the head of its queue to a worker.
LEMMA PlacesDispatched ==
    ASSUME Shapes, OnePlace, UNCHANGED callers, NEW d \in dispatchers, d.queue # <<>>, NEW R,
           \A x \in R : x.queue = Tail(d.queue), \A x, y \in R : x = y, dispatchers' = (dispatchers \ {d}) \cup R,
           NEW w, w.ref = Head(d.queue), workers' = workers \cup {w}
    PROVE  OnePlace' /\ \A r : Waits(r)' => Waits(r)
<1>1. d.queue \in Seq(Ref) /\ Distinct(d.queue)
  BY DEF Shapes, DispatcherState, OnePlace
<1>2. /\ Head(d.queue) \in Elems(d.queue) /\ Elems(Tail(d.queue)) \subseteq Elems(d.queue)
      /\ Head(d.queue) \notin Elems(Tail(d.queue)) /\ Distinct(Tail(d.queue))
  BY <1>1, QueueTaken
<1>3. \A x \in R : /\ Elems(x.queue) \subseteq Elems(d.queue) /\ Distinct(x.queue)
                    /\ w.ref \notin Elems(x.queue)
  BY <1>2
<1>4. \A c \in Caller : Made(c)' = Made(c)
  BY DEF Made
<1>5. \A v \in workers : v.ref # w.ref
  BY <1>2 DEF OnePlace
<1>6. \A c \in Caller : w.ref \notin Made(c)
  BY <1>2 DEF OnePlace
<1>7. \A e \in dispatchers' : Distinct(e.queue) /\ w.ref \notin Elems(e.queue)
  BY <1>2, <1>3 DEF OnePlace
<1>8. \A c \in Caller, e \in dispatchers' : Made(c) \cap Elems(e.queue) = {}
  BY <1>3 DEF OnePlace
<1>9. \A e, f \in dispatchers' : e # f => Elems(e.queue) \cap Elems(f.queue) = {}
  BY <1>3 DEF OnePlace
<1>10. \A v \in workers : \A e \in dispatchers' : v.ref \notin Elems(e.queue)
  BY <1>3 DEF OnePlace
<1>11. OnePlace'
  BY <1>4, <1>5, <1>6, <1>7, <1>8, <1>9, <1>10 DEF OnePlace
<1>12. \A r : Waits(r)' => Waits(r)
  BY <1>3, <1>4 DEF Waits
<1> QED BY <1>11, <1>12

\* A worker goes on, or ends.
LEMMA PlacesWorked ==
    ASSUME OnePlace, UNCHANGED <<callers, dispatchers>>, NEW w \in workers, NEW W,
           \A x \in W : x.ref = w.ref, \A x, y \in W : x = y, workers' = (workers \ {w}) \cup W
    PROVE  OnePlace' /\ \A r : Waits(r)' => Waits(r)
<1>1. \A c \in Caller : Made(c)' = Made(c)
  BY DEF Made
<1>2. OnePlace'
  BY <1>1 DEF OnePlace
<1>3. \A r : Waits(r)' => Waits(r)
  BY <1>1 DEF Waits
<1> QED BY <1>2, <1>3
-----------------------------------------------------------------------------
(***************************************************************************)
(* Records.                                                                *)
(***************************************************************************)

\* A step that changes records only to ones nobody runs keeps the facts about records.
KeepsRecords ==
    /\ \A a \in AuthIndex : tasks'[a] # tasks[a] =>
         /\ tasks'[a].status # "running"
         /\ IsActive(a)' => tasks'[a].expiry = "never"
         /\ changes'[a] = 0 /\ IsTask(a)' => tasks'[a].type = "codex"
         /\ \A w \in workers' : w.phase = "calling" /\ w.ref.a = a => changes'[a] # 0
    /\ \A r \in Ref : Waits(r)' => Waits(r) \/ tasks'[r.a] # tasks[r.a]
    /\ \A w \in workers' : w.ref \in Ref /\ (w.phase = "calling" => w \in workers)
    /\ \A a \in AuthIndex : changes'[a] = 0 => changes[a] = 0 /\ ident'[a] = ident[a]
    /\ \A c \in Caller : callers'[c].found \subseteq callers[c].found \cup Typed

LEMMA RecordsKept ==
    ASSUME Shapes, Records, KeepsRecords
    PROVE  Records'
<1>1. ActiveDoesNotExpire'
  BY DEF Records, ActiveDoesNotExpire, IsActive, KeepsRecords
<1>2. WaitingIsIdle'
  BY DEF Records, WaitingIsIdle, KeepsRecords, Holds, IsTask, Ref
<1>3. FirstIdentity'
  <2> SUFFICES ASSUME NEW a \in AuthIndex, changes'[a] = 0
               PROVE  /\ ident'[a] = "codex"
                      /\ IsTask(a)' => tasks'[a].type = "codex"
                      /\ \A c \in Caller : \A f \in callers'[c].found : f[1] = a => f[2] = "codex"
    BY DEF FirstIdentity
  <2>1. changes[a] = 0 /\ ident'[a] = ident[a] /\ ident[a] = "codex"
    BY DEF KeepsRecords, Records, FirstIdentity
  <2>2. IsTask(a)' => tasks'[a].type = "codex"
    BY <2>1 DEF KeepsRecords, Records, FirstIdentity, IsTask
  <2>3. \A f \in Typed : f[1] = a => f[2] = "codex"
    BY <2>1, TypeOfType DEF Typed, Kinds
  <2>4. \A c \in Caller : \A f \in callers'[c].found : f[1] = a => f[2] = "codex"
    BY <2>1, <2>3 DEF KeepsRecords, Records, FirstIdentity
  <2> QED BY <2>1, <2>2, <2>4
<1>4. RunningStays'
  BY DEF Records, RunningStays, KeepsRecords, Holds, IsTask, Ref
<1> QED BY <1>1, <1>2, <1>3, <1>4 DEF Records

\* What failing records changes.
LEMMA MarkFailedOnly ==
    ASSUME tasks \in TaskMap, NEW refs, NEW ttl \in {"transient", "cacheable"},
           tasks' = MarkFailed(tasks, refs, ttl)
    PROVE  /\ tasks' \in TaskMap
           /\ \A a \in AuthIndex : tasks'[a] # tasks[a] =>
                /\ \E r \in refs : r.a = a /\ Holds(r)
                /\ IsTask(a) /\ tasks'[a].status = "failed" /\ tasks'[a].type = tasks[a].type
<1>1. tasks' \in TaskMap
  BY MapTypes
<1>2. ASSUME NEW a \in AuthIndex, tasks'[a] # tasks[a]
      PROVE  /\ \E r \in refs : r.a = a /\ Holds(r)
             /\ IsTask(a) /\ tasks'[a].status = "failed" /\ tasks'[a].type = tasks[a].type
  <2>1. /\ tasks[a] # NoTask /\ \E r \in refs : r.a = a /\ r.id = tasks[a].id
        /\ tasks'[a] = Failed(tasks[a], ttl)
    BY <1>2 DEF MarkFailed
  <2>2. tasks[a] \in Task
    BY <2>1 DEF TaskMap
  <2>3. tasks'[a].status = "failed" /\ tasks'[a].type = tasks[a].type
    BY <2>1, <2>2 DEF Failed, Task
  <2> QED BY <2>1, <2>3 DEF Holds, IsTask
<1> QED BY <1>1, <1>2

LEMMA FadingStep ==
    ASSUME Core, Fading
    PROVE  Parts' /\ OnePlace' /\ Records'
<1>1. Parts'
  BY DEF Core, Shapes, Parts, Fading, Faded, Moves
<1>2. \A c \in Caller : /\ callers'[c].made = callers[c].made \/ callers'[c].made = <<>>
                        /\ callers'[c].found \subseteq callers[c].found \cup Typed
  BY DEF Fading, Moves
<1>3. OnePlace' /\ \A r : Waits(r)' => Waits(r)
  BY <1>2, PlacesMade DEF Core, Fading
<1>4. ASSUME NEW a \in AuthIndex, tasks'[a] # tasks[a]
      PROVE  /\ tasks'[a].status # "running"
             /\ IsActive(a)' => tasks'[a].expiry = "never"
             /\ changes'[a] = 0 /\ IsTask(a)' => tasks'[a].type = "codex"
             /\ \A w \in workers' : w.phase = "calling" /\ w.ref.a = a => changes'[a] # 0
  <2>1. ~IsActive(a) /\ ~IsActive(a)' /\ (IsTask(a)' => IsTask(a) /\ tasks'[a].type = tasks[a].type)
    BY <1>4 DEF Fading, Faded
  <2>2. changes'[a] = 0 /\ IsTask(a)' => tasks'[a].type = "codex"
    BY <2>1 DEF Fading, Still, Core, Records, FirstIdentity
  <2>3. \A w \in workers' : w.phase = "calling" /\ w.ref.a = a => changes'[a] # 0
    BY <2>1 DEF Fading, Still, Core, Records, RunningStays, IsActive
  <2> QED BY <2>1, <2>2, <2>3 DEF IsActive
<1>5. KeepsRecords
  BY <1>2, <1>3, <1>4 DEF KeepsRecords, Fading, Still, Core, Shapes
<1> QED BY <1>1, <1>3, <1>5, RecordsKept DEF Core

LEMMA CreatingStep ==
    ASSUME Core, Creating
    PROVE  Parts' /\ OnePlace' /\ Records'
<1>1. PICK c \in Caller : \E f \in callers[c].found : Created(c, f)
  BY DEF Creating
<1>0. PICK f \in callers[c].found : Created(c, f)
  BY <1>1
<1> DEFINE a == f[1]
           t == NewTask(SourceOf(c), f[2])
           r == [id |-> NewId, a |-> a]
<1>2. a \in AuthIndex /\ f[2] \in {"codex", "claude"} /\ FreeIds # {}
  BY <1>0 DEF Core, Shapes, CallerState, Created
<1>3. t \in Task /\ t.status = "queued" /\ t.type = f[2] /\ t.expiry = "never" /\ t.id = NewId
  BY <1>2, NewTaskType, SourceType
<1>4. tasks' = [tasks EXCEPT ![a] = t] /\ Moves(c, Append(callers[c].made, r))
      /\ ~(IsTask(a) /\ IsActive(a))
  BY <1>0 DEF Created
<1>5. Still /\ UNCHANGED <<dispatchers, workers>>
  BY DEF Creating
<1> HIDE DEF t
<1>6. tasks'[a] = t /\ \A b \in AuthIndex : b # a => tasks'[b] = tasks[b]
  BY <1>2, <1>4 DEF Core, Shapes, TaskMap
<1>7. Parts'
  BY <1>2, <1>3, <1>4, <1>5 DEF Core, Shapes, Parts, Moves, TaskMap
<1>8. tasks'[a] # tasks[a]
  <2>1. IsTask(a) => tasks[a].id \in IdsInUse
    BY <1>2 DEF IdsInUse
  <2>2. t # NoTask
    BY <1>3, NoTaskApart
  <2> QED BY <1>2, <1>3, <1>6, <2>1, <2>2, NewIdIsFree DEF IsTask
<1>9. OnePlace' /\ \A x : Waits(x)' => Waits(x) \/ x = r
  BY <1>2, <1>4, <1>5, PlacesAppended DEF Core
<1>10. \A x \in Ref : Waits(x)' => Waits(x) \/ tasks'[x.a] # tasks[x.a]
  BY <1>8, <1>9
<1>11. \A b \in Caller : callers'[b].found \subseteq callers[b].found \cup Typed
  BY <1>4 DEF Moves
<1>12. changes'[a] = 0 => t.type = "codex"
  BY <1>2, <1>3, <1>5 DEF Still, Core, Records, FirstIdentity
<1>13. \A w \in workers' : w.phase = "calling" /\ w.ref.a = a => changes'[a] # 0
  BY <1>4, <1>5 DEF Still, Core, Records, RunningStays, IsActive, Holds
<1>14. \A b \in AuthIndex : tasks'[b] # tasks[b] =>
         /\ tasks'[b].status # "running"
         /\ IsActive(b)' => tasks'[b].expiry = "never"
         /\ changes'[b] = 0 /\ IsTask(b)' => tasks'[b].type = "codex"
         /\ \A w \in workers' : w.phase = "calling" /\ w.ref.a = b => changes'[b] # 0
  BY <1>3, <1>6, <1>12, <1>13
<1>15. KeepsRecords
  BY <1>5, <1>10, <1>11, <1>14 DEF KeepsRecords, Still, Core, Shapes
<1> QED BY <1>7, <1>9, <1>15, RecordsKept DEF Core

LEMMA HandingStep ==
    ASSUME Core, HandingOver
    PROVE  Parts' /\ OnePlace' /\ Records'
<1>1. PICK c \in Caller, b \in BOOLEAN :
         Moves(c, <<>>) /\ dispatchers' = dispatchers \cup {Dispatcher(callers[c].made, b)}
  BY DEF HandingOver
<1> DEFINE x == Dispatcher(callers[c].made, b)
<1>2. x \in DispatcherState /\ x.queue = callers[c].made
  BY DispatcherTypes DEF Core, Shapes, CallerState
<1>3. dispatchers' = dispatchers \cup {x}
  BY <1>1
<1> HIDE DEF x
<1>4. Still /\ UNCHANGED <<tasks, workers>>
  BY DEF HandingOver
<1>5. Parts'
  BY <1>1, <1>2, <1>3, <1>4 DEF Core, Shapes, Parts, Moves
<1>6. OnePlace' /\ \A r : Waits(r)' => Waits(r)
  BY <1>1, <1>2, <1>3, <1>4, PlacesHanded DEF Core
<1>7. \A e \in Caller : callers'[e].found \subseteq callers[e].found \cup Typed
  BY <1>1 DEF Moves
<1>8. KeepsRecords
  BY <1>4, <1>6, <1>7 DEF KeepsRecords, Still, Core, Shapes
<1> QED BY <1>5, <1>6, <1>8, RecordsKept DEF Core

\* Records that somebody waits for are not running when they are failed.
LEMMA FailedWaiting ==
    ASSUME Core, Still, UNCHANGED workers, NEW refs \in SUBSET Ref, \A r \in refs : Waits(r),
           tasks' = MarkFailed(tasks, refs, "transient"), NEW a \in AuthIndex, tasks'[a] # tasks[a]
    PROVE  /\ tasks'[a].status # "running"
           /\ IsActive(a)' => tasks'[a].expiry = "never"
           /\ changes'[a] = 0 /\ IsTask(a)' => tasks'[a].type = "codex"
           /\ \A w \in workers' : w.phase = "calling" /\ w.ref.a = a => changes'[a] # 0
<1>1. /\ \E r \in refs : r.a = a /\ Holds(r)
      /\ IsTask(a) /\ tasks'[a].status = "failed" /\ tasks'[a].type = tasks[a].type
  BY MarkFailedOnly DEF Core, Shapes
<1>2. tasks[a].status # "running"
  BY <1>1 DEF Core, Records, WaitingIsIdle
<1>3. \A w \in workers' : w.phase = "calling" /\ w.ref.a = a => changes'[a] # 0
  BY <1>2 DEF Core, Records, RunningStays, Still
<1>4. changes'[a] = 0 => tasks'[a].type = "codex"
  BY <1>1 DEF Core, Records, FirstIdentity, Still
<1> QED BY <1>1, <1>3, <1>4 DEF IsActive

LEMMA MadeRefs == ASSUME Core, NEW c \in Caller PROVE Made(c) \in SUBSET Ref
BY LenProperties, ElementOfSeq DEF Core, Shapes, CallerState, Made, Elems

LEMMA GivingUpStep ==
    ASSUME Core, GivingUp
    PROVE  Parts' /\ OnePlace' /\ Records'
<1>1. PICK c \in Caller : Moves(c, <<>>) /\ tasks' = MarkFailed(tasks, Made(c), "transient")
  BY DEF GivingUp
<1>2. Still /\ UNCHANGED <<dispatchers, workers>>
  BY DEF GivingUp
<1>3. Parts'
  BY <1>1, <1>2, MapTypes DEF Core, Shapes, Parts, Moves
<1>4. \A b \in Caller : /\ callers'[b].made = callers[b].made \/ callers'[b].made = <<>>
                        /\ callers'[b].found \subseteq callers[b].found \cup Typed
  BY <1>1 DEF Moves
<1>5. OnePlace' /\ \A r : Waits(r)' => Waits(r)
  BY <1>2, <1>4, PlacesMade DEF Core
<1>6. Made(c) \in SUBSET Ref /\ \A r \in Made(c) : Waits(r)
  BY MadeRefs DEF Waits
<1>7. \A a \in AuthIndex : tasks'[a] # tasks[a] =>
         /\ tasks'[a].status # "running"
         /\ IsActive(a)' => tasks'[a].expiry = "never"
         /\ changes'[a] = 0 /\ IsTask(a)' => tasks'[a].type = "codex"
         /\ \A w \in workers' : w.phase = "calling" /\ w.ref.a = a => changes'[a] # 0
  BY <1>1, <1>2, <1>6, FailedWaiting
<1>8. KeepsRecords
  BY <1>2, <1>4, <1>5, <1>7 DEF KeepsRecords, Still, Core, Shapes
<1> QED BY <1>3, <1>5, <1>8, RecordsKept DEF Core

LEMMA IdentityStep ==
    ASSUME Core, NEW a \in AuthIndex, IdentityChanges(a)
    PROVE  Parts' /\ OnePlace' /\ Records'
<1>1. UNCHANGED taskVars /\ \A b \in AuthIndex : b # a => ident'[b] = ident[b] /\ changes'[b] = changes[b]
  BY DEF IdentityChanges, Core, Shapes
<1>2. changes'[a] # 0
  BY DEF IdentityChanges, Core, Shapes
<1>3. UNCHANGED <<tasks, callers, dispatchers, workers>>
  BY <1>1 DEF taskVars
<1>4. Parts'
  BY <1>3 DEF Parts, Core, Shapes
<1>5. OnePlace' /\ \A r : Waits(r)' => Waits(r)
  BY <1>3, PlacesMade DEF Core
<1>6. \A b \in AuthIndex : changes'[b] = 0 => changes[b] = 0 /\ ident'[b] = ident[b]
  BY <1>1, <1>2
<1>7. KeepsRecords
  BY <1>3, <1>5, <1>6 DEF KeepsRecords, Core, Shapes
<1> QED BY <1>4, <1>5, <1>7, RecordsKept DEF Core

LEMMA HeaderStep ==
    ASSUME Core, NEW a \in AuthIndex, HeaderReplaces(a)
    PROVE  Parts' /\ OnePlace' /\ Records'
<1> DEFINE n == NewTask("header", TypeOf(ident[a]))
           t == Completed(n)
<1>1. TypeOf(ident[a]) \in {"codex", "claude"} /\ "header" \in Sources
  BY TypeOfType DEF Core, Shapes, Sources
<1>2. n \in Task /\ n.type = TypeOf(ident[a])
  BY <1>1, NewTaskType DEF HeaderReplaces
<1> HIDE DEF n
<1>3. t \in Task /\ t.status = "completed" /\ t.type = TypeOf(ident[a])
  BY <1>2 DEF Completed, Task
<1>4. tasks' = [tasks EXCEPT ![a] = t] /\ Still /\ UNCHANGED <<callers, dispatchers, workers>>
  BY DEF HeaderReplaces, Still, n
<1> HIDE DEF t
<1>5. tasks'[a] = t /\ \A b \in AuthIndex : b # a => tasks'[b] = tasks[b]
  BY <1>4 DEF Core, Shapes, TaskMap
<1>6. Parts'
  BY <1>3, <1>4 DEF Parts, Core, Shapes, TaskMap
<1>7. OnePlace' /\ \A r : Waits(r)' => Waits(r)
  BY <1>4, PlacesMade DEF Core
<1>8. changes[a] = 0 => t.type = "codex" /\ tasks[a].status # "running"
  BY <1>3, TypeOfType, NoTaskApart DEF Core, Records, FirstIdentity, HeaderReplaces, IsActive, IsTask, Kinds
<1>9. \A w \in workers' : w.phase = "calling" /\ w.ref.a = a => changes'[a] # 0
  BY <1>4, <1>8 DEF Core, Records, RunningStays, Still
<1>10. \A b \in AuthIndex : tasks'[b] # tasks[b] =>
         /\ tasks'[b].status # "running"
         /\ IsActive(b)' => tasks'[b].expiry = "never"
         /\ changes'[b] = 0 /\ IsTask(b)' => tasks'[b].type = "codex"
         /\ \A w \in workers' : w.phase = "calling" /\ w.ref.a = b => changes'[b] # 0
  BY <1>3, <1>4, <1>5, <1>8, <1>9 DEF Still, IsActive
<1>11. KeepsRecords
  BY <1>4, <1>7, <1>10 DEF KeepsRecords, Still, Core, Shapes
<1> QED BY <1>6, <1>7, <1>11, RecordsKept DEF Core

LEMMA DispatchNextStep ==
    ASSUME Core, NEW d \in dispatchers, DispatchNext(d)
    PROVE  Parts' /\ OnePlace' /\ Records'
<1> DEFINE R == Remaining(d, Tail(d.queue))
           w == [ref |-> Head(d.queue), phase |-> "started"]
<1>1. d \in DispatcherState /\ d.queue \in Seq(Ref) /\ Distinct(d.queue) /\ d.queue # <<>>
  BY DEF Core, Shapes, DispatcherState, OnePlace, DispatchNext
<1>2. Tail(d.queue) \in Seq(Ref) /\ Head(d.queue) \in Ref
  BY <1>1, QueueTaken
<1>3. (\A x \in R : x \in DispatcherState /\ x.queue = Tail(d.queue)) /\ \A x, y \in R : x = y
  BY <1>1, <1>2, DispatcherTypes DEF Remaining
<1>4. /\ workers' = workers \cup {w} /\ dispatchers' = (dispatchers \ {d}) \cup R
      /\ UNCHANGED <<tasks, callers>> /\ Still
  BY DEF DispatchNext, Still, envVars
<1>5. w.ref = Head(d.queue) /\ w.phase = "started" /\ w \in [ref : Ref, phase : {"started", "calling"}]
  BY <1>2
<1> HIDE DEF R, w
<1>6. Parts'
  <2>1. dispatchers' \subseteq DispatcherState
    BY <1>3, <1>4 DEF Core, Shapes
  <2> QED BY <2>1, <1>4, <1>5 DEF Parts, Core, Shapes
<1>7. OnePlace' /\ \A r : Waits(r)' => Waits(r)
  BY <1>1, <1>3, <1>4, <1>5, PlacesDispatched DEF Core
<1>8. KeepsRecords
  BY <1>2, <1>4, <1>5, <1>7 DEF KeepsRecords, Still, Core, Shapes
<1> QED BY <1>6, <1>7, <1>8, RecordsKept DEF Core

LEMMA DispatchCancelledStep ==
    ASSUME Core, NEW d \in dispatchers, DispatchCancelled(d)
    PROVE  Parts' /\ OnePlace' /\ Records'
<1> DEFINE R == Remaining(d, <<>>)
<1>1. d \in DispatcherState /\ d.queue \in Seq(Ref) /\ <<>> \in Seq(Ref)
  BY DEF Core, Shapes, DispatcherState
<1>2. \A x \in R : x \in DispatcherState /\ x.queue = <<>>
  BY <1>1, DispatcherTypes
<1>3. /\ tasks' = MarkFailed(tasks, Elems(d.queue), "transient")
      /\ dispatchers' = (dispatchers \ {d}) \cup R /\ UNCHANGED <<callers, workers>> /\ Still
  BY DEF DispatchCancelled, Still, envVars
<1> HIDE DEF R
<1>4. Parts'
  BY <1>2, <1>3, MapTypes DEF Parts, Core, Shapes
<1>5. OnePlace' /\ \A r : Waits(r)' => Waits(r)
  BY <1>2, <1>3, PlacesDropped DEF Core
<1>6. Elems(d.queue) \in SUBSET Ref /\ \A r \in Elems(d.queue) : Waits(r)
  <2>1. Elems(d.queue) \in SUBSET Ref
    BY <1>1, LenProperties, ElementOfSeq DEF Elems
  <2> QED BY <2>1 DEF Waits
<1>7. \A a \in AuthIndex : tasks'[a] # tasks[a] =>
         /\ tasks'[a].status # "running"
         /\ IsActive(a)' => tasks'[a].expiry = "never"
         /\ changes'[a] = 0 /\ IsTask(a)' => tasks'[a].type = "codex"
         /\ \A w \in workers' : w.phase = "calling" /\ w.ref.a = a => changes'[a] # 0
  BY <1>3, <1>6, FailedWaiting
<1>8. KeepsRecords
  BY <1>3, <1>5, <1>7 DEF KeepsRecords, Still, Core, Shapes
<1> QED BY <1>4, <1>5, <1>8, RecordsKept DEF Core

LEMMA MonitorEndsStep ==
    ASSUME Core, NEW d \in dispatchers, MonitorEnds(d)
    PROVE  Parts' /\ OnePlace' /\ Records'
<1>1. dispatchers' = (dispatchers \ {d}) \cup {} /\ UNCHANGED <<tasks, callers, workers>> /\ Still
  BY DEF MonitorEnds, Still, envVars
<1>2. Parts'
  BY <1>1 DEF Parts, Core, Shapes
<1>3. OnePlace' /\ \A r : Waits(r)' => Waits(r)
  BY <1>1, PlacesDropped DEF Core
<1>4. KeepsRecords
  BY <1>1, <1>3 DEF KeepsRecords, Still, Core, Shapes
<1> QED BY <1>2, <1>3, <1>4, RecordsKept DEF Core

\* A worker that ends takes nobody else's record with it.
LEMMA WorkerEnds ==
    ASSUME Core, NEW w \in workers, Still, UNCHANGED <<callers, dispatchers>>,
           workers' = workers \ {w}, tasks' \in TaskMap,
           \A a \in AuthIndex : tasks'[a] # tasks[a] =>
              /\ a = w.ref.a /\ Holds(w.ref) /\ ~IsActive(a)'
              /\ IsTask(a)' => tasks'[a].type = tasks[a].type
    PROVE  Parts' /\ OnePlace' /\ Records'
<1>1. Parts'
  BY DEF Parts, Core, Shapes
<1>2. OnePlace' /\ \A r : Waits(r)' => Waits(r)
  <2> DEFINE W == {}
  <2>1. /\ workers' = (workers \ {w}) \cup W
        /\ (\A x \in W : x.ref = w.ref) /\ \A x, y \in W : x = y
    OBVIOUS
  <2> HIDE DEF W
  <2> QED BY <2>1, PlacesWorked DEF Core
<1>3. ASSUME NEW a \in AuthIndex, tasks'[a] # tasks[a]
      PROVE  /\ tasks'[a].status # "running"
             /\ IsActive(a)' => tasks'[a].expiry = "never"
             /\ changes'[a] = 0 /\ IsTask(a)' => tasks'[a].type = "codex"
             /\ \A v \in workers' : v.phase = "calling" /\ v.ref.a = a => changes'[a] # 0
  <2>1. a = w.ref.a /\ Holds(w.ref) /\ ~IsActive(a)' /\ (IsTask(a)' => tasks'[a].type = tasks[a].type)
    BY <1>3
  <2>2. IsTask(a) /\ tasks[a].id = w.ref.id
    BY <2>1 DEF Holds
  <2>3. changes'[a] = 0 /\ IsTask(a)' => tasks'[a].type = "codex"
    BY <2>1, <2>2 DEF Core, Records, FirstIdentity, Still
  <2>4. ASSUME NEW v \in workers', v.phase = "calling", v.ref.a = a, changes'[a] = 0 PROVE FALSE
    <3>1. v \in workers /\ v # w /\ Holds(v.ref)
      BY <2>4 DEF Core, Records, RunningStays, Still
    <3>2. v.ref.id = w.ref.id /\ v.ref \in Ref /\ w.ref \in Ref
      BY <2>2, <2>4, <3>1 DEF Holds, Core, Shapes
    <3>3. v.ref = w.ref
      BY <2>1, <2>4, <3>2 DEF Ref
    <3> QED BY <3>1, <3>3 DEF Core, OnePlace
  <2> QED BY <2>1, <2>3, <2>4 DEF IsActive
<1>4. KeepsRecords
  BY <1>2, <1>3 DEF KeepsRecords, Still, Core, Shapes
<1> QED BY <1>1, <1>2, <1>4, RecordsKept DEF Core

\* A worker whose record is still queued runs it.
LEMMA WorkerRuns ==
    ASSUME Core, NEW w \in workers, Still, UNCHANGED <<callers, dispatchers>>,
           Holds(w.ref), tasks[w.ref.a].status = "queued",
           tasks' = [tasks EXCEPT ![w.ref.a].status = "running"],
           workers' = (workers \ {w}) \cup {[w EXCEPT !.phase = "calling"]}
    PROVE  Parts' /\ OnePlace' /\ Records'
<1> DEFINE a == w.ref.a
           x == [w EXCEPT !.phase = "calling"]
<1>0. w \in [ref : Ref, phase : {"started", "calling"}] /\ w.ref \in Ref /\ a \in AuthIndex
  BY DEF Core, Shapes, Ref
<1>1. tasks[a] \in Task /\ tasks[a].status = "queued" /\ tasks[a].id = w.ref.id
  BY <1>0 DEF Holds, IsTask, Core, Shapes, TaskMap
<1>2. tasks'[a] = [tasks[a] EXCEPT !.status = "running"] /\ \A b \in AuthIndex : b # a => tasks'[b] = tasks[b]
  BY <1>0 DEF Core, Shapes, TaskMap
<1>3. /\ tasks'[a] \in Task /\ tasks'[a].status = "running" /\ tasks'[a].id = w.ref.id
      /\ tasks'[a].type = tasks[a].type /\ tasks'[a].expiry = tasks[a].expiry
  BY <1>1, <1>2 DEF Task
<1>4. tasks' \in TaskMap
  BY <1>0, <1>2, <1>3 DEF Core, Shapes, TaskMap
<1>5. x \in [ref : Ref, phase : {"started", "calling"}] /\ x.ref = w.ref /\ x.phase = "calling"
      /\ workers' = (workers \ {w}) \cup {x}
  BY <1>0
<1> HIDE DEF x
<1>6. Parts'
  BY <1>4, <1>5 DEF Parts, Core, Shapes
<1>7. OnePlace' /\ \A r : Waits(r)' => Waits(r)
  <2> DEFINE W == {x}
  <2>1. workers' = (workers \ {w}) \cup W /\ (\A y \in W : y.ref = w.ref) /\ \A y, z \in W : y = z
    BY <1>5
  <2> HIDE DEF W
  <2> QED BY <2>1, PlacesWorked DEF Core
<1>8. ActiveDoesNotExpire'
  BY <1>1, <1>2, <1>3 DEF Core, Records, ActiveDoesNotExpire, IsActive
<1>9. WaitingIsIdle'
  <2> SUFFICES ASSUME NEW r \in Ref, Waits(r)', Holds(r)' PROVE tasks'[r.a].status # "running"
    BY DEF WaitingIsIdle
  <2>1. Waits(r) /\ r # w.ref
    BY <1>7 DEF Waits, Core, OnePlace
  <2>2. r.a # a
    <3>1. r.a = a => r.id = w.ref.id
      BY <1>3 DEF Holds
    <3> QED BY <1>0, <2>1, <3>1 DEF Ref
  <2>3. tasks'[r.a] = tasks[r.a] /\ r.a \in AuthIndex
    BY <1>2, <2>2 DEF Ref
  <2> QED BY <2>1, <2>3 DEF Core, Records, WaitingIsIdle, Holds, IsTask
<1>10. FirstIdentity'
  <2> SUFFICES ASSUME NEW b \in AuthIndex, changes'[b] = 0
               PROVE  /\ ident'[b] = "codex"
                      /\ IsTask(b)' => tasks'[b].type = "codex"
                      /\ \A c \in Caller : \A f \in callers'[c].found : f[1] = b => f[2] = "codex"
    BY DEF FirstIdentity
  <2>1. changes[b] = 0 /\ ident' = ident /\ callers' = callers
    BY DEF Still
  <2>2. IsTask(a)
    BY DEF Holds
  <2> QED BY <1>2, <1>3, <2>1, <2>2 DEF Core, Records, FirstIdentity, IsTask
<1>11. RunningStays'
  <2> SUFFICES ASSUME NEW v \in workers', v.phase = "calling", changes'[v.ref.a] = 0
               PROVE  Holds(v.ref)' /\ tasks'[v.ref.a].status = "running"
    BY DEF RunningStays
  <2>1. CASE v = x
    BY <1>3, <1>5, <2>1, NoTaskApart DEF Holds, IsTask
  <2>2. CASE v # x
    <3>1. v \in workers /\ Holds(v.ref) /\ tasks[v.ref.a].status = "running" /\ v.ref.a \in AuthIndex
      BY <1>5, <2>2 DEF Core, Records, RunningStays, Still, Shapes, Ref
    <3>2. tasks'[v.ref.a] = tasks[v.ref.a]
      BY <1>1, <1>2, <3>1
    <3> QED BY <3>1, <3>2 DEF Holds, IsTask
  <2> QED BY <2>1, <2>2
<1> QED BY <1>6, <1>7, <1>8, <1>9, <1>10, <1>11 DEF Records

LEMMA WorkerStep1 ==
    ASSUME Core, NEW w \in workers, WorkerStarts(w)
    PROVE  Parts' /\ OnePlace' /\ Records'
<1> DEFINE a == w.ref.a
           mine == Holds(w.ref) /\ tasks[a].status = "queued"
<1>0. Still /\ UNCHANGED <<callers, dispatchers>> /\ a \in AuthIndex /\ tasks \in TaskMap
  BY DEF WorkerStarts, Still, envVars, Core, Shapes, Ref
<1>1. CASE /\ mine /\ tasks' = [tasks EXCEPT ![a].status = "running"]
           /\ workers' = (workers \ {w}) \cup {[w EXCEPT !.phase = "calling"]}
  BY <1>0, <1>1, WorkerRuns
<1>2. CASE mine /\ tasks' = [tasks EXCEPT ![a] = NoTask] /\ workers' = workers \ {w}
  <2>1. tasks' \in TaskMap /\ tasks'[a] = NoTask /\ \A b \in AuthIndex : b # a => tasks'[b] = tasks[b]
    BY <1>0, <1>2 DEF TaskMap
  <2>2. \A b \in AuthIndex : tasks'[b] # tasks[b] =>
              /\ b = w.ref.a /\ Holds(w.ref) /\ ~IsActive(b)'
              /\ IsTask(b)' => tasks'[b].type = tasks[b].type
    BY <1>2, <2>1, NoTaskApart DEF IsActive, IsTask
  <2> QED BY <1>0, <1>2, <2>1, <2>2, WorkerEnds
<1>3. CASE mine /\ tasks' = MarkFailed(tasks, {w.ref}, "transient") /\ workers' = workers \ {w}
  <2>1. tasks' \in TaskMap
    BY <1>0, <1>3, MarkFailedOnly
  <2>2. \A b \in AuthIndex : tasks'[b] # tasks[b] =>
              /\ b = w.ref.a /\ Holds(w.ref) /\ ~IsActive(b)'
              /\ IsTask(b)' => tasks'[b].type = tasks[b].type
    BY <1>0, <1>3, MarkFailedOnly DEF IsActive
  <2> QED BY <1>0, <1>3, <2>1, <2>2, WorkerEnds
<1>4. CASE UNCHANGED tasks /\ workers' = workers \ {w}
  BY <1>0, <1>4, WorkerEnds
<1> QED BY <1>1, <1>2, <1>3, <1>4 DEF WorkerStarts

LEMMA WorkerStep2 ==
    ASSUME Core, NEW w \in workers, WorkerFinishes(w)
    PROVE  Parts' /\ OnePlace' /\ Records'
<1> DEFINE a == w.ref.a
<1>0. /\ Still /\ UNCHANGED <<callers, dispatchers>> /\ a \in AuthIndex /\ tasks \in TaskMap
      /\ workers' = workers \ {w}
  BY DEF WorkerFinishes, Still, envVars, Core, Shapes, Ref
<1>1. CASE Holds(w.ref) /\ tasks' = [tasks EXCEPT ![a] = Completed(@)]
  <2>1. tasks[a] \in Task
    BY <1>0, <1>1 DEF Holds, IsTask, TaskMap
  <2>2. tasks'[a] = Completed(tasks[a]) /\ \A b \in AuthIndex : b # a => tasks'[b] = tasks[b]
    BY <1>0, <1>1 DEF TaskMap
  <2>3. tasks'[a] \in Task /\ tasks'[a].status = "completed" /\ tasks'[a].type = tasks[a].type
    BY <2>1, <2>2 DEF Completed, Task
  <2>4. tasks' \in TaskMap
    BY <1>0, <1>1, <2>2, <2>3 DEF TaskMap
  <2>5. \A b \in AuthIndex : tasks'[b] # tasks[b] =>
              /\ b = w.ref.a /\ Holds(w.ref) /\ ~IsActive(b)'
              /\ IsTask(b)' => tasks'[b].type = tasks[b].type
    BY <1>1, <2>2, <2>3 DEF IsActive
  <2> QED BY <1>0, <2>4, <2>5, WorkerEnds
<1>2. CASE tasks' = tasks
  BY <1>0, <1>2, WorkerEnds
<1>3. ASSUME NEW ttl \in {"transient", "cacheable"}, tasks' = MarkFailed(tasks, {w.ref}, ttl)
      PROVE  Parts' /\ OnePlace' /\ Records'
  <2>1. tasks' \in TaskMap
    BY <1>0, <1>3, MarkFailedOnly
  <2>2. \A b \in AuthIndex : tasks'[b] # tasks[b] =>
              /\ b = w.ref.a /\ Holds(w.ref) /\ ~IsActive(b)'
              /\ IsTask(b)' => tasks'[b].type = tasks[b].type
    BY <1>0, <1>3, MarkFailedOnly DEF IsActive
  <2> QED BY <1>0, <2>1, <2>2, WorkerEnds
<1> QED BY <1>1, <1>2, <1>3 DEF WorkerFinishes
-----------------------------------------------------------------------------
(***************************************************************************)
(* The invariant, and the theorems.                                        *)
(***************************************************************************)

LEMMA CoreInit == Init => Core
<1> SUFFICES ASSUME Init PROVE Core
  OBVIOUS
<1>1. Shapes
  <2>1. ident \in [AuthIndex -> Kinds]
    BY DEF Init, Kinds
  <2>2. events \in 0..MaxEvents /\ changes \in [AuthIndex -> 0..events]
    BY LimitAssumption DEF Init
  <2>3. tasks \in TaskMap /\ callers \in [Caller -> CallerState]
    BY IdleType DEF Init, TaskMap
  <2> QED BY <2>1, <2>2, <2>3 DEF Shapes, Init
<1>2. \A c \in Caller : callers[c] = Idle /\ Made(c) = {} /\ Distinct(callers[c].made)
  BY IdleType DEF Init, Made
<1>3. OnePlace
  BY <1>2 DEF Init, OnePlace
<1>4. \A a \in AuthIndex : ~IsTask(a) /\ ~IsActive(a) /\ ident[a] = "codex"
  BY NoTaskApart DEF Init, IsTask, IsActive
<1>5. ActiveDoesNotExpire /\ RunningStays
  BY <1>4 DEF Init, ActiveDoesNotExpire, RunningStays
<1>6. WaitingIsIdle
  BY <1>2 DEF Init, WaitingIsIdle, Waits
<1>7. FirstIdentity
  BY <1>2, <1>4, IdleType DEF FirstIdentity
<1> QED BY <1>1, <1>3, <1>5, <1>6, <1>7 DEF Core, Records

LEMMA CoreStep == Core /\ [Next]_vars => Core'
<1> SUFFICES ASSUME Core, [Next]_vars PROVE Core'
  OBVIOUS
<1>1. Shapes /\ ActiveDoesNotExpire
  BY DEF Core, Records
<1>2. Parts' /\ OnePlace' /\ Records'
  BY <1>1, StepKinds, FadingStep, CreatingStep, HandingStep, GivingUpStep, IdentityStep, HeaderStep,
     DispatchNextStep, DispatchCancelledStep, MonitorEndsStep, WorkerStep1, WorkerStep2
<1>3. Shapes'
  BY <1>1, <1>2, CountersStep DEF Shapes, Parts
<1> QED BY <1>2, <1>3 DEF Core

LEMMA CoreHolds == Spec => []Core
<1>1. QED BY CoreInit, CoreStep, PTL DEF Spec

\* Two workers that query one account hold one record, so they are one worker.
LEMMA CoreSingle == Core => NoDuplicateUpstreamCall
<1> SUFFICES ASSUME Core, NEW a \in AuthIndex, changes[a] = 0 PROVE Cardinality(Callers(a)) <= 1
  BY DEF NoDuplicateUpstreamCall
<1>1. ASSUME NEW v \in Callers(a), NEW w \in Callers(a) PROVE v = w
  <2>1. /\ v \in workers /\ w \in workers /\ v.ref.a = a /\ w.ref.a = a
        /\ v.phase = "calling" /\ w.phase = "calling"
    BY DEF Callers
  <2>2. Holds(v.ref) /\ Holds(w.ref) /\ v.ref \in Ref /\ w.ref \in Ref
    BY <2>1 DEF Core, Records, RunningStays, Shapes
  <2>3. v.ref = w.ref
    BY <2>1, <2>2 DEF Holds, Ref
  <2> QED BY <2>1, <2>3 DEF Core, OnePlace
<1>2. CASE Callers(a) = {}
  BY <1>2, FS_EmptySet
<1>3. CASE Callers(a) # {}
  <2>1. PICK w : w \in Callers(a)
    BY <1>3
  <2>2. Callers(a) = {w}
    BY <1>1, <2>1
  <2>3. Cardinality({w}) = 1
    BY FS_Singleton
  <2> QED BY <2>2, <2>3
<1> QED BY <1>2, <1>3

\* As long as the identity of an account has not changed, at most one worker
\* queries it upstream, for any number of requests, rounds and workers.
THEOREM OneUpstreamCall == Spec => []NoDuplicateUpstreamCall
<1>1. QED BY CoreHolds, CoreSingle, PTL
-----------------------------------------------------------------------------
(***************************************************************************)
(* Types.                                                                  *)
(***************************************************************************)

Bounded == IsFiniteSet(workers) /\ Cardinality(workers) <= WorkerLimit
FlagTypes ==
    /\ inspection \in [active : BOOLEAN, completed : BOOLEAN, overtaken : BOOLEAN,
                       round : SUBSET AuthIndex]
    /\ autoRunning \in BOOLEAN /\ closing \in BOOLEAN

\* A slot is taken only below the limit, and released by its worker.
LEMMA BoundedStep == Core /\ Bounded /\ [Next]_vars => Bounded'
<1> SUFFICES ASSUME Core, Bounded, [Next]_vars PROVE Bounded'
  OBVIOUS
<1>0. /\ Shapes /\ ActiveDoesNotExpire /\ WorkerLimit \in Nat /\ IsFiniteSet(workers)
      /\ Cardinality(workers) \in Nat /\ Cardinality(workers) <= WorkerLimit
  BY LimitAssumption, FS_CardinalityType DEF Core, Records, Bounded
<1>1. ASSUME UNCHANGED workers PROVE Bounded'
  BY <1>1 DEF Bounded
<1>2. ASSUME NEW w \in workers, workers' = workers \ {w} PROVE Bounded'
  <2>1. IsFiniteSet(workers \ {w}) /\ Cardinality(workers \ {w}) = Cardinality(workers) - 1
    BY <1>0, FS_RemoveElement
  <2> QED BY <1>0, <1>2, <2>1 DEF Bounded
<1>3. ASSUME NEW w \in workers, NEW x, workers' = (workers \ {w}) \cup {x} PROVE Bounded'
  <2> DEFINE S == workers \ {w}
  <2>1. IsFiniteSet(S) /\ Cardinality(S) = Cardinality(workers) - 1
    BY <1>0, FS_RemoveElement
  <2>2. workers' = S \cup {x}
    BY <1>3
  <2> HIDE DEF S
  <2>3. IsFiniteSet(S \cup {x}) /\ (Cardinality(S \cup {x}) = Cardinality(S) \/ Cardinality(S \cup {x}) = Cardinality(S) + 1)
    BY <2>1, FS_AddElement
  <2> QED BY <1>0, <2>1, <2>2, <2>3 DEF Bounded
<1>4. ASSUME NEW x, workers' = workers \cup {x}, Cardinality(workers) < WorkerLimit PROVE Bounded'
  <2>1. /\ IsFiniteSet(workers \cup {x})
        /\ (Cardinality(workers \cup {x}) = Cardinality(workers) \/ Cardinality(workers \cup {x}) = Cardinality(workers) + 1)
    BY <1>0, FS_AddElement
  <2> QED BY <1>0, <1>4, <2>1 DEF Bounded
<1>5. Fading \/ Creating \/ HandingOver \/ GivingUp => UNCHANGED workers
  BY DEF Fading, Creating, HandingOver, GivingUp
<1>6. \A a \in AuthIndex : IdentityChanges(a) \/ HeaderReplaces(a) => UNCHANGED workers
  BY DEF IdentityChanges, HeaderReplaces, taskVars
<1>7. \A d \in dispatchers : DispatchCancelled(d) \/ MonitorEnds(d) => UNCHANGED workers
  BY DEF DispatchCancelled, MonitorEnds
<1>8. \A d \in dispatchers : DispatchNext(d) => \E x : workers' = workers \cup {x} /\ Cardinality(workers) < WorkerLimit
  BY DEF DispatchNext
<1>9. \A w \in workers : WorkerStarts(w) \/ WorkerFinishes(w) =>
         workers' = workers \ {w} \/ \E x : workers' = (workers \ {w}) \cup {x}
  BY DEF WorkerStarts, WorkerFinishes
<1> QED BY <1>0, <1>1, <1>2, <1>3, <1>4, <1>5, <1>6, <1>7, <1>8, <1>9, StepKinds

LEMMA FlagsStep == Core /\ FlagTypes /\ [Next]_vars => FlagTypes'
<1> SUFFICES ASSUME Core, FlagTypes, [Next]_vars PROVE FlagTypes'
  OBVIOUS
<1> USE DEF FlagTypes
<1>1. ASSUME UNCHANGED <<inspection, autoRunning, closing>> PROVE FlagTypes'
  BY <1>1
<1>2. ASSUME NEW c \in Inspector, StartInspection(c) PROVE FlagTypes'
  BY <1>2 DEF StartInspection, NoInspection
<1>3. ASSUME NEW c \in Inspector, DispatchInspection(c) PROVE FlagTypes'
  <2>1. callers[c].round \in SUBSET AuthIndex
    BY DEF Core, Shapes, CallerState, Caller
  <2>2. inspection' = [inspection EXCEPT !.active = TRUE, !.round = callers[c].round]
    BY <1>3 DEF DispatchInspection
  <2>3. inspection' \in [active : BOOLEAN, completed : BOOLEAN, overtaken : BOOLEAN,
                         round : SUBSET AuthIndex]
    BY <2>1, <2>2
  <2> QED BY <1>3, <2>3 DEF DispatchInspection
<1>4. ASSUME GetInspectionStatus PROVE FlagTypes'
  <2>1. CASE UNCHANGED inspection
    BY <1>4, <2>1 DEF GetInspectionStatus
  <2>2. CASE inspection' = [inspection EXCEPT !.completed = TRUE, !.overtaken = UnderWay]
    <3>1. UnderWay \in BOOLEAN
      BY DEF UnderWay
    <3>2. inspection' \in [active : BOOLEAN, completed : BOOLEAN, overtaken : BOOLEAN,
                           round : SUBSET AuthIndex]
      BY <2>2, <3>1
    <3> QED BY <1>4, <3>2 DEF GetInspectionStatus
  <2> QED BY <1>4, <2>1, <2>2 DEF GetInspectionStatus
<1>5. ASSUME RunAutoRefresh PROVE FlagTypes'
  BY <1>5 DEF RunAutoRefresh
<1>6. ASSUME AutoLists PROVE FlagTypes'
  BY <1>6 DEF AutoLists
<1>7. ASSUME DispatchAuto PROVE FlagTypes'
  <2>1. autoRunning' = (callers[Scheduler].made # <<>> /\ ~closing) /\ UNCHANGED <<inspection, closing>>
    BY <1>7 DEF DispatchAuto
  <2>2. autoRunning' \in BOOLEAN
    BY <2>1
  <2> QED BY <2>1, <2>2
<1>8. ASSUME NEW d \in dispatchers, MonitorEnds(d) PROVE FlagTypes'
  BY <1>8 DEF MonitorEnds
<1>9. ASSUME StopRefreshTasks PROVE FlagTypes'
  BY <1>9 DEF StopRefreshTasks
<1>10. \A a : IdentityChanges(a) \/ TaskExpires(a) \/ HeaderReplaces(a) \/ ReadTasks
         => UNCHANGED <<inspection, autoRunning, closing>>
  BY DEF IdentityChanges, TaskExpires, HeaderReplaces, ReadTasks
<1>11. \A c : Refresh(c) \/ ValidateNext(c) \/ FinishRefresh(c) \/ RefreshFails(c) \/ InspectionLists(c)
             \/ EnsureTask(c) => UNCHANGED <<inspection, autoRunning, closing>>
  BY DEF Refresh, ValidateNext, FinishRefresh, RefreshFails, InspectionLists, EnsureTask
<1>12. \A d : DispatchNext(d) \/ DispatchCancelled(d) => UNCHANGED <<inspection, autoRunning, closing>>
  BY DEF DispatchNext, DispatchCancelled
<1>13. \A w : WorkerStep(w) => UNCHANGED <<inspection, autoRunning, closing>>
  BY DEF WorkerStep, WorkerStarts, WorkerFinishes
<1>14. UNCHANGED vars => UNCHANGED <<inspection, autoRunning, closing>>
  BY DEF vars
<1> HIDE DEF FlagTypes
<1> QED
  BY <1>1, <1>2, <1>3, <1>4, <1>5, <1>6, <1>7, <1>8, <1>9, <1>10, <1>11, <1>12, <1>13, <1>14
     DEF Next, CallerStep

\* Records, requests, dispatchers and workers stay well-formed, and there are
\* never more workers than RefreshWorkerLimit slots.
THEOREM TypesHold == Spec => []TypeOK
<1>1. Init => Bounded /\ FlagTypes
  <2> SUFFICES ASSUME Init PROVE Bounded /\ FlagTypes
    OBVIOUS
  <2>1. Bounded
    BY FS_EmptySet, LimitAssumption DEF Init, Bounded
  <2>2. FlagTypes
    BY DEF Init, FlagTypes, NoInspection
  <2> QED BY <2>1, <2>2
<1>2. Core /\ Bounded /\ FlagTypes => TypeOK
  BY DEF Core, Shapes, TaskMap, Bounded, FlagTypes, TypeOK
<1> QED BY <1>1, <1>2, CoreInit, CoreStep, BoundedStep, FlagsStep, PTL DEF Spec
-----------------------------------------------------------------------------
(***************************************************************************)
(* Inspections.                                                            *)
(***************************************************************************)

\* A completion recorded with no inspection under way stands until the next
\* inspection begins: till then no inspection is under way and no task of the
\* round is active.
Stands == inspection.completed /\ ~inspection.overtaken
RoundSettled == ~\E a \in inspection.round : InspectionTaskActive(a)
InspectionInv == Stands => ~UnderWay /\ RoundSettled

\* Only an inspection under way makes an inspection task.
LEMMA InspectionTasksOnlyEnd ==
    ASSUME Core, [Next]_vars, NEW a \in AuthIndex, InspectionTaskActive(a)', ~InspectionTaskActive(a)
    PROVE  \E c \in Inspector : callers[c].pc # "idle"
<1>0. /\ tasks \in TaskMap /\ Shapes /\ ActiveDoesNotExpire
      /\ IsTask(a)' /\ IsActive(a)' /\ tasks'[a].source = "inspection" /\ tasks'[a] # tasks[a]
  BY DEF Core, Shapes, Records, InspectionTaskActive, IsTask, IsActive
<1>1. ~Fading /\ ~HandingOver
  BY <1>0 DEF Fading, Faded, HandingOver
<1>2. ASSUME NEW refs, NEW ttl \in {"transient", "cacheable"}, tasks' = MarkFailed(tasks, refs, ttl)
      PROVE  FALSE
  BY <1>0, <1>2, MarkFailedOnly DEF IsActive
<1>3. ASSUME NEW b \in AuthIndex, IdentityChanges(b) \/ HeaderReplaces(b) PROVE FALSE
  <2>1. HeaderReplaces(b)
    BY <1>0, <1>3 DEF IdentityChanges, taskVars
  <2> DEFINE n == NewTask("header", TypeOf(ident[b]))
  <2>2. TypeOf(ident[b]) \in {"codex", "claude"} /\ "header" \in Sources
    BY <1>0, TypeOfType DEF Shapes, Sources
  <2>3. n \in Task
    BY <2>1, <2>2, NewTaskType DEF HeaderReplaces
  <2>4. tasks' = [tasks EXCEPT ![b] = Completed(n)]
    BY <2>1 DEF HeaderReplaces
  <2> HIDE DEF n
  <2>5. Completed(n).status = "completed"
    BY <2>3 DEF Completed, Task
  <2>6. tasks'[a] = Completed(n)
    BY <1>0, <2>4 DEF TaskMap
  <2> QED BY <1>0, <2>5, <2>6 DEF IsActive
<1>4. ASSUME NEW d \in dispatchers, DispatchNext(d) \/ DispatchCancelled(d) \/ MonitorEnds(d) PROVE FALSE
  BY <1>0, <1>2, <1>4 DEF DispatchNext, DispatchCancelled, MonitorEnds
<1>5. ASSUME NEW w \in workers, WorkerStarts(w) PROVE FALSE
  <2> DEFINE b == w.ref.a
  <2>1. b \in AuthIndex
    BY DEF Core, Shapes, Ref
  <2>2. ASSUME Holds(w.ref), tasks[b].status = "queued", tasks' = [tasks EXCEPT ![b].status = "running"]
        PROVE  FALSE
    <3>1. a = b /\ tasks'[a] = [tasks[a] EXCEPT !.status = "running"] /\ tasks[a] \in Task
      BY <1>0, <2>1, <2>2 DEF TaskMap, Holds, IsTask
    <3>2. tasks'[a].source = tasks[a].source
      BY <3>1 DEF Task
    <3> QED BY <1>0, <2>2, <3>1, <3>2 DEF InspectionTaskActive, Holds, IsActive
  <2>3. ASSUME tasks' = [tasks EXCEPT ![b] = NoTask] PROVE FALSE
    <3>1. tasks'[a] = NoTask
      BY <1>0, <2>1, <2>3 DEF TaskMap
    <3> QED BY <1>0, <3>1 DEF IsTask
  <2> QED BY <1>0, <1>2, <1>5, <2>2, <2>3 DEF WorkerStarts
<1>6. ASSUME NEW w \in workers, WorkerFinishes(w) PROVE FALSE
  <2> DEFINE b == w.ref.a
  <2>1. b \in AuthIndex
    BY DEF Core, Shapes, Ref
  <2>2. ASSUME Holds(w.ref), tasks' = [tasks EXCEPT ![b] = Completed(@)] PROVE FALSE
    <3>1. a = b /\ tasks'[a] = Completed(tasks[a]) /\ tasks[a] \in Task
      BY <1>0, <2>1, <2>2 DEF TaskMap, Holds, IsTask
    <3>2. tasks'[a].status = "completed"
      BY <3>1 DEF Completed, Task
    <3> QED BY <1>0, <3>2 DEF IsActive
  <2> QED BY <1>0, <1>2, <1>6, <2>2 DEF WorkerFinishes
<1>7. ~GivingUp
  BY <1>2 DEF GivingUp
<1>8. Creating
  BY <1>0, <1>1, <1>3, <1>4, <1>5, <1>6, <1>7, StepKinds
<1>9. PICK c \in Caller : \E f \in callers[c].found : Created(c, f)
  BY <1>8 DEF Creating
<1>10. PICK f \in callers[c].found : Created(c, f)
  BY <1>9
<1>11. f[1] \in AuthIndex /\ f[2] \in {"codex", "claude"} /\ FreeIds # {}
  BY <1>10 DEF Core, Shapes, CallerState, Created
<1>12. tasks'[a] = NewTask(SourceOf(c), f[2])
  BY <1>0, <1>10, <1>11 DEF Created, TaskMap
<1>13. SourceOf(c) = "inspection"
  BY <1>0, <1>11, <1>12, NewTaskType, SourceType
<1>14. c \in Inspector
  BY <1>13 DEF SourceOf, Caller
<1> QED BY <1>10, <1>14 DEF Created

\* A round found completed stays settled until an inspection begins.
LEMMA InspectionStep == Core /\ FlagTypes /\ InspectionInv /\ [Next]_vars => InspectionInv'
<1> SUFFICES ASSUME Core, FlagTypes, InspectionInv, [Next]_vars PROVE InspectionInv'
  OBVIOUS
<1>0. callers \in [Caller -> CallerState] /\ Shapes
  BY DEF Core, Shapes
<1>1. ASSUME ~UnderWay, RoundSettled, inspection'.round = inspection.round PROVE RoundSettled'
  <2> SUFFICES ASSUME NEW a \in inspection'.round, InspectionTaskActive(a)' PROVE FALSE
    BY DEF RoundSettled
  <2>1. ~InspectionTaskActive(a)
    BY <1>1 DEF RoundSettled
  <2>2. a \in AuthIndex
    BY <1>1 DEF FlagTypes
  <2> QED BY <1>1, <2>1, <2>2, InspectionTasksOnlyEnd DEF UnderWay
<1>2. ASSUME UNCHANGED inspection, \A c \in Inspector : callers'[c] = callers[c] PROVE InspectionInv'
  <2>1. ~UnderWay => ~UnderWay'
    BY <1>2 DEF UnderWay
  <2>2. Stands' => Stands
    BY <1>2 DEF Stands
  <2> QED BY <1>1, <1>2, <2>1, <2>2 DEF InspectionInv
<1>3. ASSUME NEW c \in Inspector, callers[c].pc # "idle", Stands' => Stands PROVE InspectionInv'
  BY <1>3 DEF InspectionInv, UnderWay
<1>4. ASSUME NEW c \in Caller, c \notin Inspector, NEW made, Moves(c, made), UNCHANGED inspection
      PROVE  InspectionInv'
  <2>1. \A b \in Inspector : callers'[b] = callers[b]
    BY <1>4 DEF Moves, Caller
  <2> QED BY <1>2, <1>4, <2>1
<1>5. ASSUME NEW c \in Inspector, DispatchInspection(c) PROVE InspectionInv'
  <2>1. inspection' = [inspection EXCEPT !.active = TRUE, !.round = callers[c].round]
    BY <1>5 DEF DispatchInspection
  <2>2. inspection'.completed = inspection.completed /\ inspection'.overtaken = inspection.overtaken
    BY <2>1 DEF FlagTypes
  <2> QED BY <1>3, <1>5, <2>2 DEF DispatchInspection, Stands
<1>6. ASSUME GetInspectionStatus PROVE InspectionInv'
  <2>1. UNCHANGED callers
    BY <1>6 DEF GetInspectionStatus
  <2>2. CASE UNCHANGED inspection
    BY <1>2, <2>1, <2>2
  <2>3. CASE /\ InspectionRoundCompleted /\ ~inspection.completed
             /\ inspection' = [inspection EXCEPT !.completed = TRUE, !.overtaken = UnderWay]
    <3>1. inspection'.overtaken = UnderWay /\ inspection'.round = inspection.round
      BY <2>3 DEF FlagTypes
    <3>2. RoundSettled
      BY <2>3 DEF InspectionRoundCompleted, RoundSettled
    <3>3. ~UnderWay => ~UnderWay'
      BY <2>1 DEF UnderWay
    <3> QED BY <1>1, <3>1, <3>2, <3>3 DEF InspectionInv, Stands
  <2> QED BY <1>6, <2>2, <2>3 DEF GetInspectionStatus
<1>7. ASSUME UNCHANGED <<callers, inspection>> PROVE InspectionInv'
  BY <1>2, <1>7
<1>8. ASSUME NEW c \in Inspector, StartInspection(c) PROVE InspectionInv'
  BY <1>8 DEF StartInspection, NoInspection, InspectionInv, Stands
<1>9. ASSUME NEW c \in Inspector, InspectionLists(c) PROVE InspectionInv'
  BY <1>3, <1>9 DEF InspectionLists, Stands
<1>10. ASSUME NEW c \in Caller, EnsureTask(c) PROVE InspectionInv'
  <2>1. callers[c].pc # "idle" /\ UNCHANGED inspection
    BY <1>10 DEF EnsureTask
  <2>2. \E made : Moves(c, made)
    BY <1>0, <1>10, EnsureMoves DEF Created
  <2> QED BY <1>3, <1>4, <2>1, <2>2 DEF Stands
<1>11. \A c \in Manual : c \in Caller /\ c \notin Inspector
  BY CallerAssumption DEF Caller
<1>12. ASSUME NEW c \in Manual, Refresh(c) \/ ValidateNext(c) \/ FinishRefresh(c) \/ RefreshFails(c)
       PROVE  InspectionInv'
  <2>1. UNCHANGED inspection
    BY <1>12 DEF Refresh, ValidateNext, FinishRefresh, RefreshFails
  <2>2. \E made : Moves(c, made)
    BY <1>0, <1>11, <1>12, RefreshMoves, ValidateMoves, EndMoves DEF FinishRefresh, RefreshFails
  <2> QED BY <1>4, <1>11, <2>1, <2>2
<1>13. Scheduler \in Caller /\ Scheduler \notin Inspector
  BY CallerAssumption DEF Caller, Scheduler
<1>14. ASSUME RunAutoRefresh \/ AutoLists \/ DispatchAuto PROVE InspectionInv'
  <2>1. UNCHANGED inspection
    BY <1>14 DEF RunAutoRefresh, AutoLists, DispatchAuto
  <2>2. \E made : Moves(Scheduler, made)
    BY <1>0, <1>13, <1>14, RunAutoMoves, ListingMoves, EndMoves DEF AutoLists, DispatchAuto
  <2> QED BY <1>4, <1>13, <2>1, <2>2
<1>15. \A a : IdentityChanges(a) \/ TaskExpires(a) \/ HeaderReplaces(a) \/ ReadTasks \/ StopRefreshTasks
          => UNCHANGED <<callers, inspection>>
  BY DEF IdentityChanges, TaskExpires, HeaderReplaces, ReadTasks, StopRefreshTasks, taskVars
<1>16. \A d : DispatchNext(d) \/ DispatchCancelled(d) \/ MonitorEnds(d) => UNCHANGED <<callers, inspection>>
  BY DEF DispatchNext, DispatchCancelled, MonitorEnds
<1>17. \A w : WorkerStep(w) => UNCHANGED <<callers, inspection>>
  BY DEF WorkerStep, WorkerStarts, WorkerFinishes
<1>18. UNCHANGED vars => UNCHANGED <<callers, inspection>>
  BY DEF vars, taskVars
<1> QED
  BY <1>5, <1>6, <1>7, <1>8, <1>9, <1>10, <1>12, <1>14, <1>15, <1>16, <1>17, <1>18 DEF Next, CallerStep

\* However many inspections are started, overlap and fail, one reported as
\* completed has no task of its own left, whatever manual refreshes, scheduled
\* rounds and header values do to the records meanwhile, unless its completion
\* was recorded while another inspection was under way.
THEOREM CompletedIsSettled == Spec => []CompletedInspectionIsSettled
<1>1. Init => FlagTypes /\ InspectionInv
  <2> SUFFICES ASSUME Init PROVE FlagTypes /\ InspectionInv
    OBVIOUS
  <2>1. FlagTypes
    BY DEF Init, FlagTypes, NoInspection
  <2>2. InspectionInv
    BY DEF Init, NoInspection, InspectionInv, Stands
  <2> QED BY <2>1, <2>2
<1>2. InspectionInv => CompletedInspectionIsSettled
  BY DEF InspectionInv, Stands, RoundSettled, CompletedInspectionIsSettled
<1> QED BY <1>1, <1>2, CoreInit, CoreStep, FlagsStep, InspectionStep, PTL DEF Spec
=============================================================================
