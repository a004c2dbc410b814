------------------------- MODULE UsageIngestProofs --------------------------
(***************************************************************************)
(* Proofs about UsageIngest, for any number of messages, any batch size    *)
(* and any bounds on faults: every published message has exactly one home, *)
(* rows of one source are stored in publication order, and a batch leaves  *)
(* the runner's hands only by being stored, by a crash or by a shutdown.   *)
(*                                                                         *)
(* The invariant says where the runner has nothing in its hands and        *)
(* nothing on the wire (HandsEmpty), that the homes are disjoint and hold  *)
(* exactly what was published (Accounted), and that along each of the two  *)
(* ways a message can take (backlog or stream, batch, inbox) the numbers   *)
(* descend (Ordered).                                                      *)
(***************************************************************************)
EXTENDS UsageIngest, OrdersProofs

Row == [id : Ids, source : {"pull", "subscribe"}]

Shapes ==
    /\ kind \in [Ids -> Kinds] /\ published \in 0..MaxMsgs
    /\ backlog \in Seq(Ids) /\ stream \in Seq(Ids) /\ batch \in Seq(Ids)
    /\ inbox \in Seq(Row) /\ source \in {"pull", "subscribe"}
    /\ Len(batch) <= BatchSize

HandsEmpty ==
    /\ pc \in {"stopped", "connecting", "sleep"} => link = "none" /\ stream = <<>>
    /\ pc \in {"stopped", "connecting", "sleep", "backfill", "receive"} => batch = <<>>
    /\ pc = "window" => source = "subscribe" /\ Len(batch) < BatchSize

Accounted ==
    /\ Elems(backlog) \cup Elems(stream) \cup Elems(batch) \cup Stored \cup handled \cup DOMAIN lost
         = 1..published
    /\ Elems(backlog) \cap (Elems(stream) \cup Elems(batch) \cup Stored \cup handled \cup DOMAIN lost) = {}
    /\ Elems(stream) \cap (Elems(batch) \cup Stored \cup handled \cup DOMAIN lost) = {}
    /\ Elems(batch) \cap (Stored \cup handled \cup DOMAIN lost) = {}
    /\ Stored \cap (handled \cup DOMAIN lost) = {}
    /\ handled \cap DOMAIN lost = {}

Below(S, T) == \A x \in S, y \in T : x < y
StoredFrom(src) == {inbox[i].id : i \in {j \in DOMAIN inbox : inbox[j].source = src}}

Ordered ==
    /\ Ascending(backlog) /\ Ascending(stream) /\ Ascending(batch)
    /\ Below(StoredFrom("pull"), Elems(backlog))
    /\ Below(StoredFrom("subscribe"), Elems(stream))
    /\ Below(StoredFrom(source), Elems(batch))
    /\ source = "pull" => Below(Elems(batch), Elems(backlog))
    /\ source = "subscribe" => Below(Elems(batch), Elems(stream))

OneRowEach == \A i, j \in DOMAIN inbox : inbox[i].id = inbox[j].id => i = j

Data == Shapes /\ Accounted /\ Ordered /\ OneRowEach /\ PerSourceOrder
IndInv == Data /\ HandsEmpty
-----------------------------------------------------------------------------
(***************************************************************************)
(* Facts about lists of messages.                                          *)
(***************************************************************************)

\* Messages are numbers.
LEMMA IdsAreNumbers == Ids \subseteq Int /\ MaxMsgs \in Nat /\ BatchSize \in Nat /\ BatchSize > 0
BY IngestAssumption DEF Ids

\* An empty list has no elements and is in order.
LEMMA EmptyList ==
    /\ <<>> \in Seq(Ids) /\ Len(<<>>) = 0 /\ Elems(<<>>) = {} /\ Ascending(<<>>)
    /\ <<>> \in Seq(Row)
BY DEF Elems, Ascending

\* Appending a message above all others.
LEMMA MessageAppended ==
    ASSUME NEW s \in Seq(Ids), NEW x \in Ids, Ascending(s), \A y \in Elems(s) : y < x
    PROVE  /\ Append(s, x) \in Seq(Ids) /\ Len(Append(s, x)) = Len(s) + 1
           /\ Elems(Append(s, x)) = Elems(s) \cup {x} /\ Ascending(Append(s, x))
<1>1. /\ Append(s, x) \in Seq(Ids) /\ Len(Append(s, x)) = Len(s) + 1
      /\ Elems(Append(s, x)) = Elems(s) \cup {x}
  BY ElemsAppend
<1>2. Ascending(Append(s, x))
  BY AscendingAppend, IdsAreNumbers
<1> QED BY <1>1, <1>2

\* Taking the first message.
LEMMA MessageTaken ==
    ASSUME NEW s \in Seq(Ids), Ascending(s), s # <<>>
    PROVE  /\ Head(s) \in Ids /\ Tail(s) \in Seq(Ids) /\ Ascending(Tail(s))
           /\ Elems(s) = {Head(s)} \cup Elems(Tail(s))
           /\ \A y \in Elems(Tail(s)) : Head(s) < y
           /\ Head(s) \notin Elems(Tail(s))
<1>1. /\ Head(s) \in Ids /\ Tail(s) \in Seq(Ids) /\ Ascending(Tail(s))
      /\ Elems(s) = {Head(s)} \cup Elems(Tail(s))
      /\ \A y \in Elems(Tail(s)) : Head(s) < y
  BY TailAscending, IdsAreNumbers
<1>2. Head(s) \in Int
  BY <1>1, IdsAreNumbers
<1>3. Head(s) \notin Elems(Tail(s))
  <2> SUFFICES ASSUME Head(s) \in Elems(Tail(s)) PROVE FALSE
    OBVIOUS
  <2>1. Head(s) < Head(s)
    BY <1>1
  <2> QED BY <1>2, <2>1
<1> QED BY <1>1, <1>3

\* Cutting a list in two.
LEMMA MessagesSplit ==
    ASSUME NEW s \in Seq(Ids), Ascending(s), NEW n \in 0..Len(s)
    PROVE  /\ SubSeq(s, 1, n) \in Seq(Ids) /\ SubSeq(s, n + 1, Len(s)) \in Seq(Ids)
           /\ Len(SubSeq(s, 1, n)) = n
           /\ Ascending(SubSeq(s, 1, n)) /\ Ascending(SubSeq(s, n + 1, Len(s)))
           /\ Elems(s) = Elems(SubSeq(s, 1, n)) \cup Elems(SubSeq(s, n + 1, Len(s)))
           /\ Below(Elems(SubSeq(s, 1, n)), Elems(SubSeq(s, n + 1, Len(s))))
           /\ Elems(SubSeq(s, 1, n)) \cap Elems(SubSeq(s, n + 1, Len(s))) = {}
<1> DEFINE a == SubSeq(s, 1, n)
           b == SubSeq(s, n + 1, Len(s))
<1>1. /\ a \in Seq(Ids) /\ b \in Seq(Ids) /\ Len(a) = n /\ Ascending(a) /\ Ascending(b)
      /\ Elems(a) \cup Elems(b) = Elems(s)
      /\ \A x \in Elems(a), y \in Elems(b) : x < y
  BY SplitAscending, IdsAreNumbers
<1>2. Elems(s) \subseteq Int
  BY IdsAreNumbers, LenProperties DEF Elems
<1> HIDE DEF a, b
<1>3. Elems(a) \cap Elems(b) = {}
  <2> SUFFICES ASSUME NEW x \in Elems(a), x \in Elems(b) PROVE FALSE
    OBVIOUS
  <2>1. x < x /\ x \in Int
    BY <1>1, <1>2
  <2> QED BY <2>1
<1> QED BY <1>1, <1>3 DEF a, b, Below
-----------------------------------------------------------------------------
(***************************************************************************)
(* Steps that touch no message.                                            *)
(***************************************************************************)

\* Nothing of Data changes.
LEMMA DataUntouched ==
    ASSUME Data,
           UNCHANGED <<kind, published, backlog, stream, batch, source, inbox, handled, lost>>
    PROVE  Data'
<1>1. Shapes' /\ OneRowEach' /\ PerSourceOrder'
  BY DEF Data, Shapes, OneRowEach, PerSourceOrder
<1>2. Accounted'
  BY DEF Data, Accounted, Stored
<1>3. Ordered'
  BY DEF Data, Ordered, StoredFrom
<1> QED BY <1>1, <1>2, <1>3 DEF Data

\* The steps that only move the runner on, or tell it something.
LEMMA QuietStep ==
    ASSUME IndInv,
           \/ BrokerNoticesCut \/ Start \/ Shutdown \/ MetadataRunnerActivates \/ SubscribeFails
           \/ RunEnds \/ ReconnectDelayEnds \/ WindowFails \/ WindowCloses \/ BeginInsert
           \/ RetryDelayEnds \/ UNCHANGED vars
    PROVE  IndInv'
<1>1. UNCHANGED <<kind, published, backlog, stream, batch, source, inbox, handled, lost>>
  BY DEF BrokerNoticesCut, Start, Shutdown, MetadataRunnerActivates, SubscribeFails, RunEnds,
         ReconnectDelayEnds, WindowFails, WindowCloses, BeginInsert, RetryDelayEnds, vars,
         broker, wire, run, hist
<1>2. Data'
  BY <1>1, DataUntouched DEF IndInv
<1>3. HandsEmpty'
  BY <1>1
     DEF IndInv, HandsEmpty, BrokerNoticesCut, Start, Shutdown, MetadataRunnerActivates,
         SubscribeFails, RunEnds, ReconnectDelayEnds, WindowFails, WindowCloses, BeginInsert,
         RetryDelayEnds, vars, wire, run
<1> QED BY <1>2, <1>3 DEF IndInv

\* A new subscription starts empty; there was none before.
LEMMA SubscribeStep == IndInv /\ Subscribe => IndInv'
<1> SUFFICES ASSUME IndInv, Subscribe PROVE IndInv'
  OBVIOUS
<1>1. UNCHANGED <<kind, published, backlog, stream, batch, source, inbox, handled, lost>>
  BY DEF Subscribe, IndInv, HandsEmpty, broker, hist
<1>2. HandsEmpty'
  BY DEF Subscribe, IndInv, HandsEmpty
<1> QED BY <1>1, <1>2, DataUntouched DEF IndInv
-----------------------------------------------------------------------------
(***************************************************************************)
(* Steps that move messages.                                               *)
(***************************************************************************)

\* As long as no row is written, only the lists themselves matter.
LEMMA NothingStored ==
    ASSUME Data, UNCHANGED <<kind, inbox>>, Shapes', Accounted', Ordered'
    PROVE  Data'
BY DEF Data, OneRowEach, PerSourceOrder

\* The rows are where they were, and of the two sources.
LEMMA StoredStays ==
    ASSUME UNCHANGED inbox
    PROVE  Stored' = Stored /\ \A src : StoredFrom(src)' = StoredFrom(src)
BY DEF Stored, StoredFrom

\* Everything that has a home was published.
LEMMA HomesArePublished ==
    ASSUME Data
    PROVE  /\ \A x \in Elems(backlog) \cup Elems(stream) \cup Elems(batch) \cup Stored :
                x \in 1..published
           /\ \A src : StoredFrom(src) \subseteq Stored
BY DEF Data, Accounted, Stored, StoredFrom

\* A new message goes to the backlog, to the subscription, or is lost on a
\* link whose end the broker has not noticed.
LEMMA PublishStep == IndInv /\ Publish => IndInv'
<1> SUFFICES ASSUME IndInv, Publish PROVE IndInv'
  OBVIOUS
<1> DEFINE n == published + 1
<1>1. /\ n \in Ids /\ published' = n /\ published' \in 0..MaxMsgs /\ published \in Nat
      /\ 1..n = 1..published \cup {n} /\ n \notin 1..published
      /\ \A x \in 1..published : x < n
  BY IdsAreNumbers DEF Publish, IndInv, Data, Shapes, Ids
<1>2. UNCHANGED <<kind, batch, source, inbox, handled, pc, link>>
  BY DEF Publish, run
<1>3. backlog \in Seq(Ids) /\ stream \in Seq(Ids) /\ Ascending(backlog) /\ Ascending(stream)
  BY DEF IndInv, Data, Shapes, Ordered
<1> HIDE DEF n
<1>4. CASE link \in {"none", "closed"} /\ backlog' = Append(backlog, n) /\ UNCHANGED <<stream, lost>>
  <2>1. /\ backlog' \in Seq(Ids) /\ Ascending(backlog')
        /\ Elems(backlog') = Elems(backlog) \cup {n}
    BY <1>1, <1>3, <1>4, HomesArePublished, MessageAppended DEF IndInv
  <2>2. Shapes'
    BY <1>1, <1>2, <1>4, <2>1 DEF IndInv, Data, Shapes
  <2>3. Accounted'
    BY <1>1, <1>2, <1>4, <2>1, StoredStays DEF IndInv, Data, Accounted
  <2>4. Ordered'
    BY <1>1, <1>2, <1>4, <2>1, StoredStays, HomesArePublished DEF IndInv, Data, Ordered, Below
  <2>5. HandsEmpty'
    BY <1>2, <1>4 DEF IndInv, HandsEmpty
  <2> QED BY <1>2, <2>2, <2>3, <2>4, <2>5, NothingStored DEF IndInv
<1>5. CASE link = "up" /\ stream' = Append(stream, n) /\ UNCHANGED <<backlog, lost>>
  <2>1. /\ stream' \in Seq(Ids) /\ Ascending(stream')
        /\ Elems(stream') = Elems(stream) \cup {n}
    BY <1>1, <1>3, <1>5, HomesArePublished, MessageAppended DEF IndInv
  <2>2. Shapes'
    BY <1>1, <1>2, <1>5, <2>1 DEF IndInv, Data, Shapes
  <2>3. Accounted'
    BY <1>1, <1>2, <1>5, <2>1, StoredStays DEF IndInv, Data, Accounted
  <2>4. Ordered'
    BY <1>1, <1>2, <1>5, <2>1, StoredStays, HomesArePublished DEF IndInv, Data, Ordered, Below
  <2>5. HandsEmpty'
    BY <1>2, <1>5 DEF IndInv, HandsEmpty
  <2> QED BY <1>2, <2>2, <2>3, <2>4, <2>5, NothingStored DEF IndInv
<1>6. CASE link = "cut" /\ Lose({n}, "link") /\ UNCHANGED <<backlog, stream>>
  <2>1. DOMAIN lost' = DOMAIN lost \cup {n}
    BY <1>6 DEF Lose
  <2>2. Shapes'
    BY <1>1, <1>2, <1>6 DEF IndInv, Data, Shapes
  <2>3. Accounted'
    BY <1>1, <1>2, <1>6, <2>1, StoredStays DEF IndInv, Data, Accounted
  <2>4. Ordered'
    BY <1>2, <1>6, StoredStays DEF IndInv, Data, Ordered
  <2>5. HandsEmpty'
    BY <1>2, <1>6 DEF IndInv, HandsEmpty
  <2> QED BY <1>2, <2>2, <2>3, <2>4, <2>5, NothingStored DEF IndInv
<1> QED BY <1>4, <1>5, <1>6 DEF Publish, n

\* The link breaks and takes the end of the stream with it.
LEMMA CutLinkStep == IndInv /\ CutLink => IndInv'
<1> SUFFICES ASSUME IndInv, CutLink PROVE IndInv'
  OBVIOUS
<1>1. PICK n \in 0..Len(stream) : /\ stream' = SubSeq(stream, 1, n)
                                  /\ Lose(Elems(SubSeq(stream, n + 1, Len(stream))), "link")
  BY DEF CutLink
<1> DEFINE rest == SubSeq(stream, n + 1, Len(stream))
<1>2. /\ stream' \in Seq(Ids) /\ Ascending(stream')
      /\ Elems(stream) = Elems(stream') \cup Elems(rest) /\ Elems(stream') \cap Elems(rest) = {}
  BY <1>1, MessagesSplit DEF IndInv, Data, Shapes, Ordered
<1>3. DOMAIN lost' = DOMAIN lost \cup Elems(rest)
  BY <1>1 DEF Lose
<1> HIDE DEF rest
<1>4. UNCHANGED <<kind, published, backlog, batch, source, inbox, handled, pc>> /\ link = "up"
  BY DEF CutLink, broker, run
<1>5. Shapes'
  BY <1>2, <1>4 DEF IndInv, Data, Shapes
<1>6. Accounted'
  BY <1>2, <1>3, <1>4, StoredStays DEF IndInv, Data, Accounted
<1>7. Ordered'
  BY <1>2, <1>4, StoredStays DEF IndInv, Data, Ordered, Below
<1>8. HandsEmpty'
  BY <1>4 DEF IndInv, HandsEmpty
<1> QED BY <1>4, <1>5, <1>6, <1>7, <1>8, NothingStored DEF IndInv

\* The process lets go of the subscription, of its batch and perhaps of what
\* it had taken from the backlog, and all of it is accounted for as lost.
LEMMA LetGo ==
    ASSUME Data, UNCHANGED <<kind, published, inbox, handled, source>>,
           stream' = <<>>, batch' = <<>>, link' = "none", pc' \in {"stopped", "sleep"},
           backlog' \in Seq(Ids), Ascending(backlog'), Elems(backlog') \subseteq Elems(backlog),
           DOMAIN lost' = DOMAIN lost \cup (Elems(backlog) \ Elems(backlog'))
                            \cup Elems(batch) \cup Elems(stream)
    PROVE  IndInv'
<1>1. Shapes'
  BY EmptyList, IdsAreNumbers DEF Data, Shapes
<1>2. Elems(stream') = {} /\ Elems(batch') = {} /\ Ascending(stream') /\ Ascending(batch')
  BY EmptyList
<1>3. Accounted'
  BY <1>2, StoredStays DEF Data, Accounted
<1>4. Ordered'
  BY <1>2, StoredStays DEF Data, Ordered, Below
<1>5. HandsEmpty'
  BY DEF HandsEmpty
<1> QED BY <1>1, <1>3, <1>4, <1>5, NothingStored DEF IndInv

\* The process dies.
LEMMA CrashStep == IndInv /\ Crash => IndInv'
<1> SUFFICES ASSUME IndInv, Crash PROVE IndInv'
  OBVIOUS
<1>1. DOMAIN lost' = DOMAIN lost \cup (Elems(batch) \cup Elems(stream))
  BY DEF Crash, Lose
<1>2. /\ UNCHANGED <<kind, published, backlog, inbox, handled, source>>
      /\ stream' = <<>> /\ batch' = <<>> /\ link' = "none" /\ pc' = "stopped"
  BY DEF Crash, broker
<1>3. backlog' \in Seq(Ids) /\ Ascending(backlog')
  BY <1>2 DEF IndInv, Data, Shapes, Ordered
<1>4. DOMAIN lost' = DOMAIN lost \cup (Elems(backlog) \ Elems(backlog'))
                       \cup Elems(batch) \cup Elems(stream)
  BY <1>1, <1>2
<1> QED BY <1>2, <1>3, <1>4, LetGo DEF IndInv

\* consume returns with nothing in its hands.
LEMMA LeaveStep == IndInv /\ (ReceiveFails \/ BackfillEnds) => IndInv'
<1> SUFFICES ASSUME IndInv, ReceiveFails \/ BackfillEnds PROVE IndInv'
  OBVIOUS
<1>1. Leave({}, "link") /\ UNCHANGED <<kind, published, backlog, batch, inbox, handled, source>>
      /\ batch = <<>>
  BY DEF ReceiveFails, BackfillEnds, broker, IndInv, HandsEmpty
<1>2. /\ DOMAIN lost' = DOMAIN lost \cup Elems(stream)
      /\ stream' = <<>> /\ link' = "none" /\ pc' \in {"stopped", "sleep"}
  BY <1>1 DEF Leave
<1>3. backlog' \in Seq(Ids) /\ Ascending(backlog')
  BY <1>1 DEF IndInv, Data, Shapes, Ordered
<1>4. DOMAIN lost' = DOMAIN lost \cup (Elems(backlog) \ Elems(backlog'))
                       \cup Elems(batch) \cup Elems(stream)
  BY <1>1, <1>2, EmptyList
<1> QED BY <1>1, <1>2, <1>3, <1>4, LetGo DEF IndInv

\* An LPOP takes the front of the backlog.
LEMMA PageTaken ==
    ASSUME Data, NEW n \in Nat, n = IF Len(backlog) < BatchSize THEN Len(backlog) ELSE BatchSize
    PROVE  /\ n \in 0..Len(backlog) /\ n <= BatchSize
           /\ SubSeq(backlog, 1, n) \in Seq(Ids) /\ Len(SubSeq(backlog, 1, n)) = n
           /\ SubSeq(backlog, n + 1, Len(backlog)) \in Seq(Ids)
           /\ Ascending(SubSeq(backlog, 1, n)) /\ Ascending(SubSeq(backlog, n + 1, Len(backlog)))
           /\ Elems(backlog) = Elems(SubSeq(backlog, 1, n))
                                 \cup Elems(SubSeq(backlog, n + 1, Len(backlog)))
           /\ Below(Elems(SubSeq(backlog, 1, n)), Elems(SubSeq(backlog, n + 1, Len(backlog))))
           /\ Elems(SubSeq(backlog, 1, n)) \cap Elems(SubSeq(backlog, n + 1, Len(backlog))) = {}
<1>1. backlog \in Seq(Ids) /\ Ascending(backlog) /\ Len(backlog) \in Nat
  BY LenProperties DEF Data, Shapes, Ordered
<1>2. n \in 0..Len(backlog) /\ n <= BatchSize
  BY <1>1, IdsAreNumbers
<1> QED BY <1>1, <1>2, MessagesSplit

\* The size of a page is a number.
LEMMA PageSize ==
    ASSUME Data
    PROVE  (IF Len(backlog) < BatchSize THEN Len(backlog) ELSE BatchSize) \in Nat
<1>1. Len(backlog) \in Nat
  BY LenProperties DEF Data, Shapes
<1> QED BY <1>1, IdsAreNumbers

LEMMA PullStep == IndInv /\ Pull => IndInv'
<1> SUFFICES ASSUME IndInv, Pull PROVE IndInv'
  OBVIOUS
<1>1. PICK n \in Nat : /\ n = IF Len(backlog) < BatchSize THEN Len(backlog) ELSE BatchSize
                       /\ batch' = SubSeq(backlog, 1, n)
                       /\ backlog' = SubSeq(backlog, n + 1, Len(backlog))
                       /\ pc' = IF n = 0 THEN "receive" ELSE "persist"
  BY PageSize DEF Pull, IndInv
<1>2. /\ n <= BatchSize /\ batch' \in Seq(Ids) /\ Len(batch') = n /\ backlog' \in Seq(Ids)
      /\ Ascending(batch') /\ Ascending(backlog')
      /\ Elems(backlog) = Elems(batch') \cup Elems(backlog')
      /\ Below(Elems(batch'), Elems(backlog')) /\ Elems(batch') \cap Elems(backlog') = {}
  BY <1>1, PageTaken DEF IndInv
<1>3. /\ UNCHANGED <<kind, published, stream, inbox, handled, lost>>
      /\ source' = "pull" /\ batch = <<>> /\ Elems(batch) = {}
  BY EmptyList DEF Pull, wire, hist, IndInv, HandsEmpty
<1>4. Shapes'
  BY <1>2, <1>3 DEF IndInv, Data, Shapes
<1>5. Accounted'
  BY <1>2, <1>3, StoredStays DEF IndInv, Data, Accounted
<1>6. Ordered'
  BY <1>2, <1>3, StoredStays DEF IndInv, Data, Ordered, Below
<1>7. HandsEmpty'
  <2>1. n = 0 => batch' = <<>>
    BY <1>2, EmptySeq
  <2> QED BY <1>1, <2>1 DEF HandsEmpty
<1> QED BY <1>3, <1>4, <1>5, <1>6, <1>7, NothingStored DEF IndInv

LEMMA PullFailsStep == IndInv /\ PullFails => IndInv'
<1> SUFFICES ASSUME IndInv, PullFails PROVE IndInv'
  OBVIOUS
<1>1. /\ UNCHANGED <<kind, published, batch, inbox, handled, source>> /\ batch = <<>>
      /\ backlog \in Seq(Ids) /\ Ascending(backlog)
  BY DEF PullFails, IndInv, HandsEmpty, Data, Shapes, Ordered
<1>2. CASE Leave({}, "link") /\ UNCHANGED backlog
  <2>1. /\ DOMAIN lost' = DOMAIN lost \cup Elems(stream)
        /\ stream' = <<>> /\ link' = "none" /\ pc' \in {"stopped", "sleep"}
    BY <1>2 DEF Leave
  <2>2. DOMAIN lost' = DOMAIN lost \cup (Elems(backlog) \ Elems(backlog'))
                         \cup Elems(batch) \cup Elems(stream)
    BY <1>1, <1>2, <2>1, EmptyList
  <2> QED BY <1>1, <1>2, <2>1, <2>2, LetGo DEF IndInv
<1>3. CASE LET n == IF Len(backlog) < BatchSize THEN Len(backlog) ELSE BatchSize IN
             /\ Leave(Elems(SubSeq(backlog, 1, n)), "reply")
             /\ backlog' = SubSeq(backlog, n + 1, Len(backlog))
  <2>1. PICK n \in Nat : /\ n = IF Len(backlog) < BatchSize THEN Len(backlog) ELSE BatchSize
                         /\ Leave(Elems(SubSeq(backlog, 1, n)), "reply")
                         /\ backlog' = SubSeq(backlog, n + 1, Len(backlog))
    BY <1>3, PageSize DEF IndInv
  <2> DEFINE page == SubSeq(backlog, 1, n)
  <2>2. /\ backlog' \in Seq(Ids) /\ Ascending(backlog')
        /\ Elems(backlog) = Elems(page) \cup Elems(backlog')
        /\ Elems(page) \cap Elems(backlog') = {}
    BY <2>1, PageTaken DEF IndInv
  <2>3. /\ DOMAIN lost' = DOMAIN lost \cup Elems(page) \cup Elems(stream)
        /\ stream' = <<>> /\ link' = "none" /\ pc' \in {"stopped", "sleep"}
    BY <2>1 DEF Leave
  <2> HIDE DEF page
  <2>4. DOMAIN lost' = DOMAIN lost \cup (Elems(backlog) \ Elems(backlog'))
                         \cup Elems(batch) \cup Elems(stream)
    BY <1>1, <2>2, <2>3, EmptyList
  <2>5. Elems(backlog') \subseteq Elems(backlog)
    BY <2>2
  <2> QED BY <1>1, <2>2, <2>3, <2>4, <2>5, LetGo DEF IndInv
<1> QED BY <1>2, <1>3 DEF PullFails

\* The first message of the stream goes to the hands of the runner, is
\* recognised as blank, or is torn.
LEMMA ReceiveStep == IndInv /\ Receive => IndInv'
<1> SUFFICES ASSUME IndInv, Receive PROVE IndInv'
  OBVIOUS
<1> DEFINE h == Head(stream)
<1>1. /\ UNCHANGED <<kind, published, backlog, inbox, handled, lost>> /\ stream # <<>>
      /\ pc \in {"receive", "window"} /\ source' = "subscribe"
      /\ batch' = Append(batch, h) /\ stream' = Tail(stream)
      /\ pc' = IF Len(batch) + 1 >= BatchSize THEN "persist" ELSE "window"
  BY DEF Receive, broker, hist
<1>2. /\ h \in Ids /\ stream' \in Seq(Ids) /\ Ascending(stream')
      /\ Elems(stream) = {h} \cup Elems(stream') /\ h \notin Elems(stream')
      /\ \A y \in Elems(stream') : h < y
  BY <1>1, MessageTaken DEF IndInv, Data, Shapes, Ordered
<1> HIDE DEF h
<1>3. batch \in Seq(Ids) /\ Len(batch) \in Nat /\ Len(batch) < BatchSize
      /\ (batch = <<>> \/ source = "subscribe")
  <2>1. batch \in Seq(Ids) /\ Len(batch) \in Nat
    BY LenProperties DEF IndInv, Data, Shapes
  <2>2. pc = "receive" => batch = <<>> /\ Len(batch) = 0
    BY EmptyList DEF IndInv, HandsEmpty
  <2> QED BY <1>1, <2>1, <2>2, IdsAreNumbers DEF IndInv, HandsEmpty
<1>4. \A y \in Elems(batch) : y < h
  <2>1. h \in Elems(stream)
    BY <1>2
  <2> QED BY <1>3, <2>1, EmptyList DEF IndInv, Data, Ordered, Below
<1>5. /\ batch' \in Seq(Ids) /\ Len(batch') = Len(batch) + 1
      /\ Elems(batch') = Elems(batch) \cup {h} /\ Ascending(batch')
  BY <1>1, <1>2, <1>3, <1>4, MessageAppended DEF IndInv, Data, Ordered
<1>6. Shapes'
  BY <1>1, <1>2, <1>3, <1>5, IdsAreNumbers DEF IndInv, Data, Shapes
<1>7. Accounted'
  BY <1>1, <1>2, <1>5, StoredStays DEF IndInv, Data, Accounted
<1>8. Ordered'
  <2>1. Below(StoredFrom("subscribe"), Elems(batch'))
    <3>1. batch = <<>> => Elems(batch) = {}
      BY EmptyList
    <3> QED BY <1>2, <1>3, <1>5, <3>1 DEF IndInv, Data, Ordered, Below
  <2>2. Below(Elems(batch'), Elems(stream'))
    <3>1. batch = <<>> => Elems(batch) = {}
      BY EmptyList
    <3> QED BY <1>2, <1>3, <1>5, <3>1 DEF IndInv, Data, Ordered, Below
  <2>3. Below(StoredFrom("subscribe"), Elems(stream'))
    BY <1>2 DEF IndInv, Data, Ordered, Below
  <2> QED BY <1>1, <1>2, <1>5, <2>1, <2>2, <2>3, StoredStays DEF IndInv, Data, Ordered
<1>9. HandsEmpty'
  BY <1>1, <1>3, <1>5, IdsAreNumbers DEF HandsEmpty
<1> QED BY <1>1, <1>6, <1>7, <1>8, <1>9, NothingStored DEF IndInv

LEMMA HeadLeavesStep == IndInv /\ (ReceiveSkipsBlank \/ WindowClosesInsideMessage) => IndInv'
<1> SUFFICES ASSUME IndInv, ReceiveSkipsBlank \/ WindowClosesInsideMessage PROVE IndInv'
  OBVIOUS
<1> DEFINE h == Head(stream)
<1>1. /\ UNCHANGED <<kind, published, backlog, batch, source, inbox>> /\ stream # <<>>
      /\ stream' = Tail(stream)
      /\ \/ handled' = handled \cup {h} /\ DOMAIN lost' = DOMAIN lost
         \/ DOMAIN lost' = DOMAIN lost \cup {h} /\ handled' = handled
  BY DEF ReceiveSkipsBlank, WindowClosesInsideMessage, broker, run, Lose
<1>2. /\ h \in Ids /\ stream' \in Seq(Ids) /\ Ascending(stream')
      /\ Elems(stream) = {h} \cup Elems(stream') /\ h \notin Elems(stream')
  BY <1>1, MessageTaken DEF IndInv, Data, Shapes, Ordered
<1> HIDE DEF h
<1>3. Shapes'
  BY <1>1, <1>2 DEF IndInv, Data, Shapes
<1>4. Accounted'
  BY <1>1, <1>2, StoredStays DEF IndInv, Data, Accounted
<1>5. Ordered'
  BY <1>1, <1>2, StoredStays DEF IndInv, Data, Ordered, Below
<1>6. HandsEmpty'
  BY <1>1 DEF IndInv, HandsEmpty, ReceiveSkipsBlank, WindowClosesInsideMessage, run
<1> QED BY <1>1, <1>3, <1>4, <1>5, <1>6, NothingStored DEF IndInv

LEMMA InsertFailsStep == IndInv /\ InsertFails => IndInv'
<1> SUFFICES ASSUME IndInv, InsertFails PROVE IndInv'
  OBVIOUS
<1>1. UNCHANGED <<kind, published, backlog, inbox, handled, source>>
  BY DEF InsertFails, broker
<1>2. CASE ctxDone
  <2>1. /\ DOMAIN lost' = DOMAIN lost \cup Elems(batch) \cup Elems(stream) /\ batch' = <<>>
        /\ stream' = <<>> /\ link' = "none" /\ pc' \in {"stopped", "sleep"}
    BY <1>2 DEF InsertFails, Leave
  <2>2. backlog' \in Seq(Ids) /\ Ascending(backlog')
    BY <1>1 DEF IndInv, Data, Shapes, Ordered
  <2>3. DOMAIN lost' = DOMAIN lost \cup (Elems(backlog) \ Elems(backlog'))
                         \cup Elems(batch) \cup Elems(stream)
    BY <1>1, <2>1
  <2> QED BY <1>1, <2>1, <2>2, <2>3, LetGo DEF IndInv
<1>3. CASE ~ctxDone
  <2>1. UNCHANGED <<stream, batch, lost>> /\ pc' = "retry"
    BY <1>3 DEF InsertFails, wire
  <2> QED BY <1>1, <2>1, DataUntouched DEF IndInv, HandsEmpty
<1> QED BY <1>2, <1>3

\* The rows of a batch: its usage messages, in the order of the batch.
UsageOf(b) == {m \in Elems(b) : kind[m] = "usage"}

LEMMA RowsOfBatch ==
    ASSUME Data
    PROVE  /\ Rows(batch) \in Seq(Row)
           /\ \A i \in DOMAIN Rows(batch) :
                Rows(batch)[i].source = source /\ Rows(batch)[i].id \in UsageOf(batch)
           /\ \A i, j \in DOMAIN Rows(batch) : i < j => Rows(batch)[i].id < Rows(batch)[j].id
           /\ \A m \in UsageOf(batch) : \E i \in DOMAIN Rows(batch) : Rows(batch)[i].id = m
<1> DEFINE K == Kept(batch, {"usage"})
           at == InOrder(K)
           k == Cardinality(K)
<1>1. /\ batch \in Seq(Ids) /\ Len(batch) \in Nat /\ DOMAIN batch = 1..Len(batch)
      /\ \A i \in 1..Len(batch) : batch[i] \in Ids
      /\ source \in {"pull", "subscribe"} /\ Ascending(batch)
  BY LenProperties, ElementOfSeq DEF Data, Shapes, Ordered
<1>2. K \subseteq 1..Len(batch)
  BY <1>1 DEF Kept
<1>3. /\ at \in Seq(1..Len(batch)) /\ Len(at) = k /\ Elems(at) = K /\ Ascending(at)
  BY <1>1, <1>2, InOrderEnumerates
<1> HIDE DEF at, k
<1>4. k \in Nat /\ DOMAIN at = 1..k /\ \A i \in 1..k : at[i] \in K
  BY <1>3, LenProperties DEF Elems
<1>5. Rows(batch) = [i \in 1..k |-> [id |-> batch[at[i]], source |-> source]]
  BY <1>4 DEF Rows, at
<1>6. \A i \in 1..k : batch[at[i]] \in UsageOf(batch) /\ batch[at[i]] \in Ids
  BY <1>1, <1>2, <1>4 DEF UsageOf, Elems, Kept
<1>7. Rows(batch) \in Seq(Row) /\ DOMAIN Rows(batch) = 1..k
  <2>1. Rows(batch) \in [1..k -> Row]
    BY <1>1, <1>5, <1>6 DEF Row
  <2> QED BY <1>4, <2>1
<1>8. \A i \in 1..k : Rows(batch)[i].id = batch[at[i]] /\ Rows(batch)[i].source = source
  BY <1>5
<1>9. ASSUME NEW i \in 1..k, NEW j \in 1..k, i < j PROVE Rows(batch)[i].id < Rows(batch)[j].id
  <2>1. at[i] < at[j] /\ at[i] \in 1..Len(batch) /\ at[j] \in 1..Len(batch)
    BY <1>2, <1>3, <1>4, <1>9 DEF Ascending
  <2>2. batch[at[i]] < batch[at[j]]
    BY <1>1, <2>1 DEF Ascending
  <2> QED BY <1>8, <2>2
<1>10. ASSUME NEW m \in UsageOf(batch) PROVE \E i \in 1..k : Rows(batch)[i].id = m
  <2>1. PICK j \in 1..Len(batch) : m = batch[j] /\ kind[batch[j]] = "usage"
    BY <1>1 DEF UsageOf, Elems
  <2>2. j \in Elems(at)
    BY <1>1, <1>3, <2>1 DEF Kept
  <2>3. PICK i \in 1..k : at[i] = j
    BY <1>4, <2>2 DEF Elems
  <2> QED BY <1>8, <2>1, <2>3
<1> QED BY <1>6, <1>7, <1>8, <1>9, <1>10

\* The inbox after a write.
LEMMA InboxGrows ==
    ASSUME Data, inbox' = inbox \o Rows(batch)
    PROVE  /\ inbox' \in Seq(Row)
           /\ \A src : StoredFrom(src)' = StoredFrom(src) \cup
                          (IF src = source THEN UsageOf(batch) ELSE {})
           /\ Stored' = Stored \cup UsageOf(batch)
           /\ UsageOf(batch) \cap Stored = {} => OneRowEach'
           /\ PerSourceOrder'
<1> DEFINE rows == Rows(batch)
           n == Len(inbox)
           k == Len(rows)
<1>1. inbox \in Seq(Row) /\ rows \in Seq(Row) /\ source \in {"pull", "subscribe"}
  BY RowsOfBatch DEF Data, Shapes
<1>2. n \in Nat /\ k \in Nat /\ DOMAIN inbox = 1..n /\ DOMAIN rows = 1..k
  BY <1>1, LenProperties
<1>3. /\ inbox' \in Seq(Row) /\ Len(inbox') = n + k
      /\ \A i \in 1..(n + k) : inbox'[i] = IF i <= n THEN inbox[i] ELSE rows[i - n]
  BY <1>1, ConcatProperties
<1>4. DOMAIN inbox' = 1..(n + k)
  BY <1>3, LenProperties
<1>5. /\ \A i \in 1..k : rows[i].source = source /\ rows[i].id \in UsageOf(batch)
      /\ \A i, j \in 1..k : i < j => rows[i].id < rows[j].id
      /\ \A m \in UsageOf(batch) : \E i \in 1..k : rows[i].id = m
  BY <1>2, RowsOfBatch
<1>6. inbox' = inbox \o rows
  OBVIOUS
<1> HIDE DEF rows, n, k
<1>7. \A i \in 1..n : i \in 1..(n + k) /\ inbox'[i] = inbox[i]
  BY <1>2, <1>3
<1>8. \A i \in 1..k : n + i \in 1..(n + k) /\ inbox'[n + i] = rows[i]
  <2> SUFFICES ASSUME NEW i \in 1..k PROVE n + i \in 1..(n + k) /\ inbox'[n + i] = rows[i]
    OBVIOUS
  <2>1. n + i \in 1..(n + k) /\ ~(n + i <= n) /\ (n + i) - n = i
    BY <1>2
  <2> QED BY <1>3, <2>1
<1>9. \A i \in 1..(n + k) : i \in 1..n \/ (i - n \in 1..k /\ n + (i - n) = i /\ i > n)
  BY <1>2
<1>10. \A i \in 1..(n + k) :
         \/ i \in 1..n /\ inbox'[i] = inbox[i]
         \/ i - n \in 1..k /\ i > n /\ inbox'[i] = rows[i - n]
  BY <1>7, <1>8, <1>9
<1>11. Stored' = Stored \cup UsageOf(batch)
  <2>1. \A x \in Stored' : x \in Stored \cup UsageOf(batch)
    BY <1>2, <1>4, <1>5, <1>10 DEF Stored
  <2>2. \A x \in Stored : x \in Stored'
    BY <1>2, <1>4, <1>7 DEF Stored
  <2>3. ASSUME NEW x \in UsageOf(batch) PROVE x \in Stored'
    <3>1. PICK i \in 1..k : rows[i].id = x
      BY <1>5
    <3>2. n + i \in DOMAIN inbox' /\ inbox'[n + i].id = x
      BY <1>4, <1>8, <3>1
    <3> QED BY <3>2 DEF Stored
  <2> QED BY <2>1, <2>2, <2>3
<1>12. ASSUME NEW src
       PROVE  StoredFrom(src)' = StoredFrom(src) \cup
                 (IF src = source THEN UsageOf(batch) ELSE {})
  <2>1. ASSUME NEW x \in StoredFrom(src)'
        PROVE  x \in StoredFrom(src) \/ (src = source /\ x \in UsageOf(batch))
    <3>1. PICK i \in 1..(n + k) : inbox'[i].source = src /\ inbox'[i].id = x
      BY <1>4 DEF StoredFrom
    <3>2. CASE i \in 1..n /\ inbox'[i] = inbox[i]
      BY <1>2, <3>1, <3>2 DEF StoredFrom
    <3>3. CASE i - n \in 1..k /\ inbox'[i] = rows[i - n]
      BY <1>5, <3>1, <3>3
    <3> QED BY <1>10, <3>2, <3>3
  <2>2. \A x \in StoredFrom(src) : x \in StoredFrom(src)'
    BY <1>2, <1>4, <1>7 DEF StoredFrom
  <2>3. ASSUME NEW x \in UsageOf(batch), src = source PROVE x \in StoredFrom(src)'
    <3>1. PICK i \in 1..k : rows[i].id = x
      BY <1>5
    <3>2. n + i \in DOMAIN inbox' /\ inbox'[n + i].id = x /\ inbox'[n + i].source = src
      BY <1>4, <1>5, <1>8, <2>3, <3>1
    <3> QED BY <3>2 DEF StoredFrom
  <2> QED BY <2>1, <2>2, <2>3
<1>13. \A i \in 1..n : inbox[i].id \in Stored
  BY <1>2 DEF Stored
<1>14. \A i \in 1..k : rows[i].id \in Int
  <2>1. \A i \in 1..k : rows[i] \in Row
    BY <1>1, <1>2, LenProperties
  <2> QED BY <2>1, IdsAreNumbers DEF Row
<1>15. ASSUME UsageOf(batch) \cap Stored = {} PROVE OneRowEach'
  <2> SUFFICES ASSUME NEW i \in 1..(n + k), NEW j \in 1..(n + k), inbox'[i].id = inbox'[j].id
               PROVE  i = j
    BY <1>4 DEF OneRowEach
  <2>1. CASE i \in 1..n /\ inbox'[i] = inbox[i] /\ j \in 1..n /\ inbox'[j] = inbox[j]
    BY <1>2, <2>1 DEF Data, OneRowEach
  <2>2. CASE /\ i - n \in 1..k /\ inbox'[i] = rows[i - n]
             /\ j - n \in 1..k /\ inbox'[j] = rows[j - n]
    <3>1. ~(i - n < j - n) /\ ~(j - n < i - n)
      BY <1>5, <1>14, <2>2
    <3> QED BY <1>2, <2>2, <3>1
  <2>3. CASE i \in 1..n /\ inbox'[i] = inbox[i] /\ j - n \in 1..k /\ inbox'[j] = rows[j - n]
    BY <1>5, <1>13, <1>15, <2>3
  <2>4. CASE j \in 1..n /\ inbox'[j] = inbox[j] /\ i - n \in 1..k /\ inbox'[i] = rows[i - n]
    BY <1>5, <1>13, <1>15, <2>4
  <2> QED BY <1>10, <2>1, <2>2, <2>3, <2>4
<1>16. PerSourceOrder'
  <2> SUFFICES ASSUME NEW i \in 1..(n + k), NEW j \in 1..(n + k), i < j,
                      inbox'[i].source = inbox'[j].source
               PROVE  inbox'[i].id < inbox'[j].id
    BY <1>4 DEF PerSourceOrder
  <2>1. CASE i \in 1..n /\ inbox'[i] = inbox[i] /\ j \in 1..n /\ inbox'[j] = inbox[j]
    BY <1>2, <2>1 DEF Data, PerSourceOrder
  <2>2. CASE /\ i - n \in 1..k /\ inbox'[i] = rows[i - n]
             /\ j - n \in 1..k /\ inbox'[j] = rows[j - n]
    <3>1. i - n < j - n
      BY <1>2
    <3> QED BY <1>5, <2>2, <3>1
  <2>3. CASE i \in 1..n /\ inbox'[i] = inbox[i] /\ j - n \in 1..k /\ inbox'[j] = rows[j - n]
    <3>1. inbox[i].id \in StoredFrom(source) /\ rows[j - n].id \in Elems(batch)
      BY <1>2, <1>5, <2>3 DEF StoredFrom, UsageOf
    <3> QED BY <2>3, <3>1 DEF Data, Ordered, Below
  <2>4. CASE j \in 1..n /\ i > n
    BY <1>2, <2>4
  <2> QED BY <1>10, <2>1, <2>2, <2>3, <2>4
<1> QED BY <1>3, <1>11, <1>12, <1>15, <1>16

\* A batch is written: its usage messages become rows, the others are done
\* with, and the runner goes on or lets go of the subscription.
LEMMA InsertSucceedsStep == IndInv /\ InsertSucceeds => IndInv'
<1> SUFFICES ASSUME IndInv, InsertSucceeds PROVE IndInv'
  OBVIOUS
<1> DEFINE U == UsageOf(batch)
<1>1. /\ UNCHANGED <<kind, published, backlog, source>> /\ batch' = <<>>
      /\ inbox' = inbox \o Rows(batch) /\ AfterPersist
      /\ handled' = handled \cup (Elems(batch) \ U)
  BY DEF InsertSucceeds, broker, UsageOf
<1>2. U \subseteq Elems(batch)
  BY DEF UsageOf
<1> HIDE DEF U
<1>3. \/ stream' = stream /\ DOMAIN lost' = DOMAIN lost /\ link' = link /\ pc' \in {"backfill", "receive"}
      \/ /\ stream' = <<>> /\ DOMAIN lost' = DOMAIN lost \cup Elems(stream) /\ link' = "none"
         /\ pc' \in {"stopped", "sleep"}
  BY <1>1 DEF AfterPersist, Leave, wire
<1>4. /\ stream' \in Seq(Ids) /\ Ascending(stream') /\ Elems(stream') \subseteq Elems(stream)
      /\ DOMAIN lost' = DOMAIN lost \cup (Elems(stream) \ Elems(stream'))
      /\ Elems(batch') = {} /\ Ascending(batch') /\ batch' \in Seq(Ids) /\ Len(batch') = 0
  BY <1>1, <1>3, EmptyList DEF IndInv, Data, Shapes, Ordered
<1>5. /\ inbox' \in Seq(Row) /\ Stored' = Stored \cup U /\ PerSourceOrder'
      /\ U \cap Stored = {} => OneRowEach'
      /\ \A src : StoredFrom(src)' = StoredFrom(src) \cup (IF src = source THEN U ELSE {})
  BY <1>1, InboxGrows DEF IndInv, U
<1>6. Shapes'
  BY <1>1, <1>4, <1>5, IdsAreNumbers DEF IndInv, Data, Shapes
<1>7. Accounted'
  BY <1>1, <1>2, <1>4, <1>5 DEF IndInv, Data, Accounted
<1>8. OneRowEach'
  BY <1>2, <1>5 DEF IndInv, Data, Accounted
<1>9. Ordered'
  <2>1. Below(StoredFrom("pull"), Elems(backlog))'
    BY <1>1, <1>2, <1>5 DEF IndInv, Data, Ordered, Below
  <2>2. Below(StoredFrom("subscribe"), Elems(stream))'
    BY <1>1, <1>2, <1>4, <1>5 DEF IndInv, Data, Ordered, Below
  <2> QED BY <1>1, <1>4, <2>1, <2>2 DEF IndInv, Data, Ordered, Below
<1>10. HandsEmpty'
  BY <1>1, <1>3 DEF HandsEmpty
<1> QED BY <1>5, <1>6, <1>7, <1>8, <1>9, <1>10 DEF IndInv, Data
-----------------------------------------------------------------------------
(***************************************************************************)
(* Theorems.                                                               *)
(***************************************************************************)
LEMMA IndInvStep == IndInv /\ [Next]_vars => IndInv'
BY QuietStep, SubscribeStep, PublishStep, CutLinkStep, CrashStep, LeaveStep, PullStep, PullFailsStep,
   ReceiveStep, HeadLeavesStep, InsertFailsStep, InsertSucceedsStep
   DEF Next, Runner, Environment

LEMMA InitIndInv == Init => IndInv
<1> SUFFICES ASSUME Init PROVE IndInv
  OBVIOUS
<1>1. /\ backlog = <<>> /\ stream = <<>> /\ batch = <<>> /\ inbox = <<>> /\ lost = <<>>
      /\ handled = {} /\ published = 0 /\ pc = "stopped" /\ link = "none" /\ source = "pull"
      /\ kind \in [Ids -> Kinds]
  BY DEF Init
<1>2. Stored = {} /\ (\A src : StoredFrom(src) = {}) /\ DOMAIN lost = {} /\ DOMAIN inbox = {}
  BY <1>1 DEF Stored, StoredFrom
<1>3. Shapes
  BY <1>1, EmptyList, IdsAreNumbers DEF Shapes
<1>4. Accounted
  BY <1>1, <1>2, EmptyList DEF Accounted
<1>5. Ordered
  BY <1>1, <1>2, EmptyList DEF Ordered, Below
<1>6. OneRowEach /\ PerSourceOrder /\ HandsEmpty
  BY <1>1, <1>2 DEF OneRowEach, PerSourceOrder, HandsEmpty
<1> QED BY <1>3, <1>4, <1>5, <1>6 DEF IndInv, Data

LEMMA Inductive == Spec => []IndInv
BY InitIndInv, IndInvStep, PTL DEF Spec

\* Every published message is in exactly one place, and in the inbox in one
\* row: no path of the runner forgets a message or writes it twice.
THEOREM OneHomeHolds == Spec => []OneHome
<1>1. ASSUME IndInv PROVE OneHome
  <2>1. ASSUME NEW m \in 1..published
        PROVE  \E p \in 1..6 : \A q \in 1..6 : m \in Homes[q] <=> q = p
    <3>1. /\ Homes[1] = Elems(backlog) /\ Homes[2] = Elems(stream) /\ Homes[3] = Elems(batch)
          /\ Homes[4] = Stored /\ Homes[5] = handled /\ Homes[6] = DOMAIN lost
      BY DEF Homes
    <3>2. \A q \in 1..6 : q \in {1, 2, 3, 4, 5, 6}
      OBVIOUS
    <3> USE <1>1, <3>1, <3>2 DEF IndInv, Data, Accounted
    <3>3. CASE m \in Elems(backlog)
      BY <3>3
    <3>4. CASE m \in Elems(stream)
      BY <3>4
    <3>5. CASE m \in Elems(batch)
      BY <3>5
    <3>6. CASE m \in Stored
      BY <3>6
    <3>7. CASE m \in handled
      BY <3>7
    <3>8. CASE m \in DOMAIN lost
      BY <3>8
    <3> QED BY <3>3, <3>4, <3>5, <3>6, <3>7, <3>8
  <2> QED BY <1>1, <2>1 DEF OneHome, IndInv, Data, OneRowEach
<1> QED BY <1>1, Inductive, PTL

\* Rows of one source are in publication order.
THEOREM PerSourceOrderHolds == Spec => []PerSourceOrder
<1>1. IndInv => PerSourceOrder
  BY DEF IndInv, Data
<1> QED BY <1>1, Inductive, PTL

\* A batch leaves the runner's hands only by being stored or recognised, by a
\* crash, or by a shutdown.
THEOREM BatchIsRetained == Spec => BatchRetained
<1>1. ASSUME IndInv, [Next]_vars, ~ctxDone, ~Crash, NEW m \in Elems(batch)
      PROVE  m \in Elems(batch') \/ m \in Stored' \/ m \in handled'
  <2>1. batch # <<>>
    BY <1>1, EmptyList
  <2>2. CASE InsertSucceeds
    BY <1>1, <2>2, InboxGrows DEF InsertSucceeds, IndInv, UsageOf
  <2>3. CASE Receive
    <3>1. batch \in Seq(Ids) /\ Head(stream) \in Ids /\ batch' = Append(batch, Head(stream))
      BY <1>1, <2>3, MessageTaken DEF Receive, IndInv, Data, Shapes, Ordered
    <3>2. Elems(batch') = Elems(batch) \cup {Head(stream)}
      BY <3>1, ElemsAppend
    <3> QED BY <3>2
  <2>4. CASE ~InsertSucceeds /\ ~Receive
    <3>1. ~Pull /\ ~PullFails
      BY <1>1, <2>1 DEF Pull, PullFails, IndInv, HandsEmpty
    <3>2. UNCHANGED batch
      BY <1>1, <2>4, <3>1
         DEF Next, Runner, Environment, vars, Publish, CutLink, BrokerNoticesCut, Start, Shutdown,
             MetadataRunnerActivates, Subscribe, SubscribeFails, RunEnds, ReconnectDelayEnds,
             BackfillEnds, ReceiveSkipsBlank, ReceiveFails, WindowFails, WindowCloses,
             WindowClosesInsideMessage, BeginInsert, InsertFails, RetryDelayEnds, run
    <3> QED BY <1>1, <3>2
  <2> QED BY <2>2, <2>3, <2>4
<1>2. IndInv /\ [Next]_vars =>
        [\A m \in Elems(batch) : \/ m \in Elems(batch') \/ m \in Stored' \/ m \in handled'
                                 \/ ctxDone \/ Crash]_vars
  BY <1>1
<1> QED BY <1>2, Inductive, PTL DEF Spec, BatchRetained
=============================================================================
