---------------------------- MODULE OrdersProofs ----------------------------
(***************************************************************************)
(* Lemmas about lists and numbers, shared by the proofs of the components: *)
(* InOrder does list a set, and so does a list along any other order (by   *)
(* induction over the set's size, as a minimal counterexample); what       *)
(* Append, SubSeq, Tail and \o do to the elements and to the order of a    *)
(* list; what a quotient is.                                               *)
(***************************************************************************)
EXTENDS Orders, FiniteSetTheorems, SequenceTheorems, WellFoundedInduction, TLAPS

\* A non-empty set of naturals has a least element.
LEMMA MinExists ==
    ASSUME NEW S, S \subseteq Nat, S # {}
    PROVE  \E m \in S : \A x \in S : m <= x
<1>1. PICK m \in S : \A x \in S : ~(<<x, m>> \in OpToRel(<, Nat))
  BY NatLessThanWellFounded, WFMin
<1>2. \A x \in S : ~(x < m)
  BY <1>1 DEF OpToRel
<1> QED BY <1>2

\* Induction along an index.
LEMMA AlongIndex ==
    ASSUME NEW n \in Nat, NEW B, 0 \in B, \A i \in 1..n : i - 1 \in B => i \in B
    PROVE  \A i \in 0..n : i \in B
<1> DEFINE Bad == {i \in 0..n : i \notin B}
<1> SUFFICES ASSUME Bad # {} PROVE FALSE
  OBVIOUS
<1>1. PICK m \in Bad : \A x \in Bad : m <= x
  <2>1. Bad \subseteq Nat
    OBVIOUS
  <2> HIDE DEF Bad
  <2> QED BY <2>1, MinExists
<1>2. m \in 1..n /\ m \notin B
  OBVIOUS
<1>3. m - 1 \in 0..n /\ ~(m <= m - 1)
  BY <1>2
<1>4. m - 1 \notin Bad
  <2> HIDE DEF Bad
  <2> QED BY <1>1, <1>3
<1>5. m - 1 \in B
  BY <1>3, <1>4
<1> QED BY <1>2, <1>5

\* A non-empty set of numbers up to n has a greatest element.
LEMMA MaxExists ==
    ASSUME NEW n \in Nat, NEW S, S \subseteq 1..n, S # {}
    PROVE  \E m \in S : \A x \in S : x <= m
<1> DEFINE T == {n - x : x \in S}
<1>1. T \subseteq Nat /\ T # {}
  <2>1. \A x \in S : n - x \in Nat
    OBVIOUS
  <2>2. PICK x \in S : TRUE
    OBVIOUS
  <2>3. n - x \in T
    OBVIOUS
  <2> QED BY <2>1, <2>3
<1>2. PICK y \in T : \A z \in T : y <= z
  <2> HIDE DEF T
  <2> QED BY <1>1, MinExists
<1>3. PICK m \in S : y = n - m
  OBVIOUS
<1>4. ASSUME NEW x \in S PROVE x <= m
  <2>1. n - x \in T
    OBVIOUS
  <2>2. n - m <= n - x
    BY <1>2, <1>3, <2>1
  <2> QED BY <2>2
<1> QED BY <1>4

\* Sets of numbers up to N are finite.
LEMMA SubsetsFinite ==
    ASSUME NEW N \in Nat
    PROVE  \A S \in SUBSET (1..N) : IsFiniteSet(S) /\ Cardinality(S) \in Nat
<1> SUFFICES ASSUME NEW S \in SUBSET (1..N) PROVE IsFiniteSet(S) /\ Cardinality(S) \in Nat
  OBVIOUS
<1>1. IsFiniteSet(1..N) /\ S \subseteq 1..N
  BY FS_Interval
<1>2. IsFiniteSet(S)
  BY <1>1, FS_Subset
<1> QED BY <1>2, FS_CardinalityType

\* Any set of numbers up to N can be listed in order, each once.
LEMMA OrderExists ==
    ASSUME NEW N \in Nat, NEW S, S \subseteq 1..N
    PROVE  \E s \in [1..Cardinality(S) -> S] : Ascending(s) /\ Elems(s) = S
<1> DEFINE Enumerates(s, U) == Ascending(s) /\ Elems(s) = U
           Bad == {n \in Nat : \E U \in SUBSET (1..N) :
                     Cardinality(U) = n /\ ~\E s \in [1..n -> U] : Enumerates(s, U)}
<1>1. SUFFICES ASSUME Bad # {} PROVE FALSE
  <2>1. S \in SUBSET (1..N) /\ Cardinality(S) \in Nat
    BY SubsetsFinite
  <2>2. Bad = {}
    BY <1>1
  <2>3. Cardinality(S) \notin Bad
    BY <2>2
  <2> QED BY <2>1, <2>3
<1>2. PICK n \in Bad : \A k \in Bad : n <= k
  <2>1. Bad \subseteq Nat
    OBVIOUS
  <2> HIDE DEF Bad
  <2> QED BY <1>1, <2>1, MinExists
<1>3. n \in Nat
  OBVIOUS
<1>4. PICK U \in SUBSET (1..N) : Cardinality(U) = n /\ ~\E s \in [1..n -> U] : Enumerates(s, U)
  OBVIOUS
<1>5. IsFiniteSet(U)
  BY SubsetsFinite
<1>6. U # {}
  <2> SUFFICES ASSUME U = {} PROVE FALSE
    OBVIOUS
  <2>1. n = 0
    BY <1>4, FS_EmptySet
  <2>2. <<>> \in [1..n -> U] /\ Ascending(<<>>) /\ Elems(<<>>) = U
    BY <2>1 DEF Ascending, Elems
  <2> QED BY <1>4, <2>2
<1>7. n # 0
  BY <1>4, <1>5, <1>6, FS_EmptySet
<1>8. PICK m \in U : \A x \in U : x <= m
  BY <1>6, MaxExists
<1> DEFINE V == U \ {m}
<1>9. Cardinality(V) = n - 1
  BY <1>4, <1>5, FS_RemoveElement
<1>10. n - 1 \in Nat /\ n - 1 \notin Bad
  BY <1>2, <1>3, <1>7
<1>11. V \in SUBSET (1..N)
  OBVIOUS
<1>12. PICK v \in [1..(n-1) -> V] : Enumerates(v, V)
  BY <1>9, <1>10, <1>11
<1> DEFINE u == [i \in 1..n |-> IF i = n THEN m ELSE v[i]]
<1>13. u \in [1..n -> U]
  <2>1. ASSUME NEW i \in 1..n PROVE (IF i = n THEN m ELSE v[i]) \in U
    <3>1. CASE i = n
      BY <3>1
    <3>2. CASE i # n
      <4>1. i \in 1..(n-1)
        BY <1>3, <3>2
      <4> QED BY <3>2, <4>1
    <3> QED BY <3>1, <3>2
  <2> QED BY <2>1
<1>14. Ascending(u)
  <2> SUFFICES ASSUME NEW i \in 1..n, NEW j \in 1..n, i < j PROVE u[i] < u[j]
    BY DEF Ascending
  <2>1. i \in 1..(n-1) /\ u[i] = v[i] /\ v[i] \in V
    BY <1>3
  <2>2. U \subseteq Int /\ m \in Int
    OBVIOUS
  <2>3. CASE j = n
    <3>1. v[i] <= m /\ v[i] # m
      BY <1>8, <2>1
    <3>2. u[j] = m /\ u[i] = v[i] /\ v[i] \in Int
      BY <2>1, <2>2, <2>3
    <3> HIDE DEF u
    <3> QED BY <2>2, <3>1, <3>2
  <2>4. CASE j # n
    <3>1. j \in 1..(n-1) /\ u[j] = v[j]
      BY <1>3, <2>4
    <3>2. DOMAIN v = 1..(n-1)
      OBVIOUS
    <3>3. v[i] < v[j]
      BY <1>12, <2>1, <3>1, <3>2 DEF Ascending
    <3> QED BY <2>1, <3>1, <3>3
  <2> QED BY <2>3, <2>4
<1>15. Elems(u) = U
  <2>1. ASSUME NEW x \in U PROVE \E i \in 1..n : u[i] = x
    <3>1. CASE x = m
      BY <1>3, <1>7, <3>1
    <3>2. CASE x # m
      <4>1. x \in Elems(v)
        BY <1>12, <3>2
      <4>2. PICK i \in 1..(n-1) : v[i] = x
        BY <4>1 DEF Elems
      <4>3. i \in 1..n /\ i # n
        BY <1>3
      <4> QED BY <4>2, <4>3
    <3> QED BY <3>1, <3>2
  <2>2. DOMAIN u = 1..n
    OBVIOUS
  <2>3. \A i \in 1..n : u[i] \in U
    BY <1>13
  <2> HIDE DEF u
  <2> QED BY <2>1, <2>2, <2>3 DEF Elems
<1> QED BY <1>4, <1>13, <1>14, <1>15

\* What InOrder returns: each element of the set once, in order.
LEMMA InOrderEnumerates ==
    ASSUME NEW N \in Nat, NEW S, S \subseteq 1..N
    PROVE  /\ InOrder(S) \in Seq((1..N)) /\ Len(InOrder(S)) = Cardinality(S)
           /\ Elems(InOrder(S)) = S
           /\ Ascending(InOrder(S))
           /\ \A i, j \in DOMAIN InOrder(S) : InOrder(S)[i] = InOrder(S)[j] => i = j
<1> DEFINE s == InOrder(S)
           n == Cardinality(S)
<1>1. n \in Nat
  BY SubsetsFinite
<1>2. s \in [1..n -> S] /\ Ascending(s) /\ Elems(s) = S
  BY OrderExists DEF InOrder
<1> HIDE DEF s, n
<1>3. s \in [1..n -> (1..N)]
  BY <1>2
<1>4. s \in Seq((1..N)) /\ Len(s) = n
  BY <1>1, <1>3
<1>5. ASSUME NEW i \in DOMAIN s, NEW j \in DOMAIN s, s[i] = s[j] PROVE i = j
  <2>1. i \in 1..n /\ j \in 1..n /\ s[i] \in (1..N) /\ s[j] \in (1..N)
    BY <1>3
  <2>2. s[i] \in Int /\ s[j] \in Int
    BY <2>1
  <2>3. ~(i < j) /\ ~(j < i)
    BY <1>2, <1>5, <2>2 DEF Ascending
  <2> QED BY <1>1, <2>1, <2>3
<1> QED BY <1>2, <1>4, <1>5 DEF s, n

\* The elements of a concatenation.
LEMMA ElemsConcat ==
    ASSUME NEW T, NEW s \in Seq(T), NEW t \in Seq(T)
    PROVE  /\ s \o t \in Seq(T) /\ Len(s \o t) = Len(s) + Len(t)
           /\ Elems(s \o t) = Elems(s) \cup Elems(t)
<1>1. /\ s \o t \in Seq(T) /\ Len(s \o t) = Len(s) + Len(t)
      /\ \A i \in 1 .. Len(s) + Len(t) :
           (s \o t)[i] = IF i <= Len(s) THEN s[i] ELSE t[i - Len(s)]
  BY ConcatProperties
<1>2. /\ Len(s) \in Nat /\ Len(t) \in Nat
      /\ DOMAIN s = 1..Len(s) /\ DOMAIN t = 1..Len(t) /\ DOMAIN (s \o t) = 1..(Len(s) + Len(t))
  BY <1>1
<1>3. ASSUME NEW x \in Elems(s \o t) PROVE x \in Elems(s) \cup Elems(t)
  <2>1. PICK i \in 1..(Len(s) + Len(t)) : x = (s \o t)[i]
    BY <1>2 DEF Elems
  <2>2. CASE i <= Len(s)
    BY <1>1, <1>2, <2>1, <2>2 DEF Elems
  <2>3. CASE ~(i <= Len(s))
    <3>1. i - Len(s) \in 1..Len(t)
      BY <1>2, <2>3
    <3> QED BY <1>1, <1>2, <2>1, <2>3, <3>1 DEF Elems
  <2> QED BY <2>2, <2>3
<1>4. ASSUME NEW x \in Elems(s) PROVE x \in Elems(s \o t)
  <2>1. PICK i \in 1..Len(s) : x = s[i]
    BY <1>2 DEF Elems
  <2>2. i \in 1..(Len(s) + Len(t)) /\ i <= Len(s)
    BY <1>2
  <2> QED BY <1>1, <1>2, <2>1, <2>2 DEF Elems
<1>5. ASSUME NEW x \in Elems(t) PROVE x \in Elems(s \o t)
  <2>1. PICK i \in 1..Len(t) : x = t[i]
    BY <1>2 DEF Elems
  <2>2. /\ i + Len(s) \in 1..(Len(s) + Len(t)) /\ ~(i + Len(s) <= Len(s))
        /\ i + Len(s) - Len(s) = i
    BY <1>2
  <2>3. (s \o t)[i + Len(s)] = x
    BY <1>1, <2>1, <2>2
  <2> QED BY <1>2, <2>2, <2>3 DEF Elems
<1> QED BY <1>1, <1>3, <1>4, <1>5

\* Two lists without repetition and with nothing in common give one.
LEMMA ConcatKeepsOne ==
    ASSUME NEW T, NEW s \in Seq(T), NEW t \in Seq(T), Elems(s) \cap Elems(t) = {},
           \A i, j \in DOMAIN s : s[i] = s[j] => i = j,
           \A i, j \in DOMAIN t : t[i] = t[j] => i = j
    PROVE  \A i, j \in DOMAIN (s \o t) : (s \o t)[i] = (s \o t)[j] => i = j
<1>1. /\ Len(s \o t) = Len(s) + Len(t)
      /\ \A i \in 1 .. Len(s) + Len(t) :
           (s \o t)[i] = IF i <= Len(s) THEN s[i] ELSE t[i - Len(s)]
  BY ConcatProperties
<1>2. /\ Len(s) \in Nat /\ Len(t) \in Nat
      /\ DOMAIN s = 1..Len(s) /\ DOMAIN t = 1..Len(t) /\ DOMAIN (s \o t) = 1..(Len(s) + Len(t))
  BY <1>1, ElemsConcat
<1> SUFFICES ASSUME NEW i \in 1..(Len(s) + Len(t)), NEW j \in 1..(Len(s) + Len(t)),
                    (s \o t)[i] = (s \o t)[j]
             PROVE  i = j
  BY <1>2
<1>3. \A k \in 1..(Len(s) + Len(t)) :
        \/ k \in DOMAIN s /\ (s \o t)[k] = s[k] /\ s[k] \in Elems(s)
        \/ k - Len(s) \in DOMAIN t /\ (s \o t)[k] = t[k - Len(s)] /\ t[k - Len(s)] \in Elems(t)
  <2> SUFFICES ASSUME NEW k \in 1..(Len(s) + Len(t))
               PROVE \/ k \in DOMAIN s /\ (s \o t)[k] = s[k] /\ s[k] \in Elems(s)
                     \/ /\ k - Len(s) \in DOMAIN t /\ (s \o t)[k] = t[k - Len(s)]
                        /\ t[k - Len(s)] \in Elems(t)
    OBVIOUS
  <2>1. CASE k <= Len(s)
    BY <1>1, <1>2, <2>1 DEF Elems
  <2>2. CASE ~(k <= Len(s))
    <3>1. k - Len(s) \in 1..Len(t)
      BY <1>2, <2>2
    <3> QED BY <1>1, <1>2, <2>2, <3>1 DEF Elems
  <2> QED BY <2>1, <2>2
<1>4. CASE i \in DOMAIN s /\ j \in DOMAIN s /\ (s \o t)[i] = s[i] /\ (s \o t)[j] = s[j]
  BY <1>4
<1>5. CASE /\ i - Len(s) \in DOMAIN t /\ (s \o t)[i] = t[i - Len(s)]
           /\ j - Len(s) \in DOMAIN t /\ (s \o t)[j] = t[j - Len(s)]
  <2>1. i - Len(s) = j - Len(s)
    BY <1>5
  <2> QED BY <1>2, <2>1
<1> QED BY <1>3, <1>4, <1>5

\* One more element at the end.
LEMMA ElemsAppend ==
    ASSUME NEW T, NEW s \in Seq(T), NEW x \in T
    PROVE  /\ Append(s, x) \in Seq(T) /\ Len(Append(s, x)) = Len(s) + 1
           /\ Elems(Append(s, x)) = Elems(s) \cup {x}
<1> DEFINE u == Append(s, x)
<1>1. /\ u \in Seq(T) /\ Len(u) = Len(s) + 1 /\ Len(s) \in Nat
      /\ DOMAIN s = 1..Len(s) /\ DOMAIN u = 1..(Len(s) + 1)
      /\ \A i \in 1..Len(s) : u[i] = s[i]
      /\ u[Len(s) + 1] = x
  BY AppendProperties, LenProperties
<1> HIDE DEF u
<1>2. ASSUME NEW y \in Elems(u) PROVE y \in Elems(s) \cup {x}
  <2>1. PICK i \in 1..(Len(s) + 1) : y = u[i]
    BY <1>1 DEF Elems
  <2>2. i \in 1..Len(s) \/ i = Len(s) + 1
    BY <1>1
  <2> QED BY <1>1, <2>1, <2>2 DEF Elems
<1>3. ASSUME NEW y \in Elems(s) PROVE y \in Elems(u)
  <2>1. PICK i \in 1..Len(s) : y = s[i]
    BY <1>1 DEF Elems
  <2>2. i \in 1..(Len(s) + 1)
    BY <1>1
  <2> QED BY <1>1, <2>1, <2>2 DEF Elems
<1>4. x \in Elems(u)
  <2>1. Len(s) + 1 \in 1..(Len(s) + 1)
    BY <1>1
  <2> QED BY <1>1, <2>1 DEF Elems
<1>5. Elems(u) = Elems(s) \cup {x}
  BY <1>2, <1>3, <1>4
<1> QED BY <1>1, <1>5 DEF u

\* The order stays if the new element is above all others.
LEMMA AscendingAppend ==
    ASSUME NEW T, T \subseteq Int, NEW s \in Seq(T), NEW x \in T, Ascending(s),
           \A y \in Elems(s) : y < x
    PROVE  Ascending(Append(s, x))
<1>1. /\ Len(s) \in Nat /\ DOMAIN s = 1..Len(s) /\ DOMAIN Append(s, x) = 1..(Len(s) + 1)
      /\ \A i \in 1..Len(s) : Append(s, x)[i] = s[i]
      /\ Append(s, x)[Len(s) + 1] = x
  BY AppendProperties, LenProperties
<1> SUFFICES ASSUME NEW i \in 1..(Len(s) + 1), NEW j \in 1..(Len(s) + 1), i < j
             PROVE  Append(s, x)[i] < Append(s, x)[j]
  BY <1>1 DEF Ascending
<1>2. i \in 1..Len(s) /\ Append(s, x)[i] = s[i]
  BY <1>1
<1>3. CASE j = Len(s) + 1
  BY <1>1, <1>2, <1>3 DEF Elems
<1>4. CASE j # Len(s) + 1
  <2>1. j \in 1..Len(s)
    BY <1>1, <1>4
  <2> QED BY <1>1, <1>2, <2>1 DEF Ascending
<1> QED BY <1>3, <1>4

\* The first n elements and the rest.
LEMMA SplitAscending ==
    ASSUME NEW T, T \subseteq Int, NEW s \in Seq(T), Ascending(s), NEW n \in 0..Len(s)
    PROVE  LET a == SubSeq(s, 1, n)
               b == SubSeq(s, n + 1, Len(s))
           IN  /\ a \in Seq(T) /\ b \in Seq(T) /\ Len(a) = n
               /\ Ascending(a) /\ Ascending(b)
               /\ Elems(a) \cup Elems(b) = Elems(s)
               /\ \A x \in Elems(a), y \in Elems(b) : x < y
<1> DEFINE a == SubSeq(s, 1, n)
           b == SubSeq(s, n + 1, Len(s))
<1>1. Len(s) \in Nat /\ DOMAIN s = 1..Len(s) /\ n \in Nat /\ n <= Len(s)
      /\ \A i \in 1..Len(s) : s[i] \in T
  BY LenProperties, ElementOfSeq
<1>2. /\ a \in Seq(T) /\ Len(a) = n /\ DOMAIN a = 1..n
      /\ \A i \in 1..n : a[i] = s[i] /\ i \in 1..Len(s)
  <2>1. /\ a \in Seq(T) /\ Len(a) = n
        /\ \A i \in 1..n : a[i] = s[1 + i - 1]
    BY <1>1, SubSeqProperties
  <2>2. \A i \in 1..n : 1 + i - 1 = i /\ i \in 1..Len(s)
    BY <1>1
  <2> HIDE DEF a
  <2> QED BY <1>1, <2>1, <2>2, LenProperties
<1>3. /\ b \in Seq(T) /\ Len(b) = Len(s) - n /\ DOMAIN b = 1..(Len(s) - n)
      /\ \A i \in 1..(Len(s) - n) : b[i] = s[n + i] /\ n + i \in 1..Len(s)
  <2>1. /\ b \in Seq(T) /\ Len(b) = Len(s) - n
        /\ \A i \in 1..(Len(s) - n) : b[i] = s[(n + 1) + i - 1]
    <3> DEFINE m == n + 1
    <3>1. /\ m \in Int /\ Len(s) \in Int /\ Len(s) - m + 1 = Len(s) - n
          /\ (IF m <= Len(s) THEN Len(s) - m + 1 ELSE 0) = Len(s) - n
          /\ \A i \in m..Len(s) : s[i] \in T
      <4> DEFINE l == Len(s)
      <4>0. l \in Nat /\ n \in Nat /\ n <= l
        BY <1>1
      <4> HIDE DEF l
      <4>1. /\ m \in Int /\ l \in Int /\ l - m + 1 = l - n
            /\ m <= l \/ l - n = 0
        BY <4>0
      <4>2. \A i \in m..l : i \in 1..l
        BY <4>0
      <4> USE DEF l
      <4> HIDE DEF m
      <4> QED BY <1>1, <4>1, <4>2
    <3> HIDE DEF m
    <3>2. /\ SubSeq(s, m, Len(s)) \in Seq(T)
          /\ Len(SubSeq(s, m, Len(s))) = IF m <= Len(s) THEN Len(s) - m + 1 ELSE 0
          /\ \A i \in 1..(Len(s) - m + 1) : SubSeq(s, m, Len(s))[i] = s[m + i - 1]
      BY <3>1, SubSeqProperties
    <3> QED BY <3>1, <3>2 DEF m
  <2>2. \A i \in 1..(Len(s) - n) : (n + 1) + i - 1 = n + i /\ n + i \in 1..Len(s)
    BY <1>1
  <2> HIDE DEF b
  <2> QED BY <1>1, <2>1, <2>2, LenProperties
<1> HIDE DEF a, b
<1>4. Ascending(a) /\ Ascending(b)
  <2>1. Ascending(a)
    BY <1>1, <1>2 DEF Ascending
  <2>2. Ascending(b)
    <3> SUFFICES ASSUME NEW i \in 1..(Len(s) - n), NEW j \in 1..(Len(s) - n), i < j
                 PROVE  b[i] < b[j]
      BY <1>3 DEF Ascending
    <3>1. n + i < n + j /\ n + i \in 1..Len(s) /\ n + j \in 1..Len(s)
      BY <1>1, <1>3
    <3>2. s[n + i] < s[n + j]
      BY <1>1, <3>1 DEF Ascending
    <3> QED BY <1>3, <3>2
  <2> QED BY <2>1, <2>2
<1>5. ASSUME NEW x \in Elems(a), NEW y \in Elems(b) PROVE x < y
  <2>1. PICK i \in 1..n : x = s[i]
    BY <1>2 DEF Elems
  <2>2. PICK j \in 1..(Len(s) - n) : y = s[n + j]
    BY <1>3 DEF Elems
  <2>3. i \in 1..Len(s) /\ n + j \in 1..Len(s) /\ i < n + j
    BY <1>1, <1>2, <1>3
  <2> QED BY <1>1, <2>1, <2>2, <2>3 DEF Ascending
<1>6. ASSUME NEW x \in Elems(s) PROVE x \in Elems(a) \cup Elems(b)
  <2>1. PICK i \in 1..Len(s) : x = s[i]
    BY <1>1 DEF Elems
  <2>2. CASE i <= n
    <3>1. i \in 1..n
      BY <1>1, <2>2
    <3> QED BY <1>2, <2>1, <3>1 DEF Elems
  <2>3. CASE ~(i <= n)
    <3>1. i - n \in 1..(Len(s) - n) /\ n + (i - n) = i
      BY <1>1, <2>3
    <3> QED BY <1>3, <2>1, <3>1 DEF Elems
  <2> QED BY <2>2, <2>3
<1>7. Elems(a) \subseteq Elems(s)
  BY <1>1, <1>2 DEF Elems
<1>8. Elems(b) \subseteq Elems(s)
  BY <1>1, <1>3 DEF Elems
<1> QED BY <1>2, <1>3, <1>4, <1>5, <1>6, <1>7, <1>8 DEF a, b

\* The head and the tail.
LEMMA TailAscending ==
    ASSUME NEW T, T \subseteq Int, NEW s \in Seq(T), Ascending(s), s # <<>>
    PROVE  /\ Head(s) \in T /\ Tail(s) \in Seq(T) /\ Ascending(Tail(s))
           /\ Elems(s) = {Head(s)} \cup Elems(Tail(s))
           /\ \A y \in Elems(Tail(s)) : Head(s) < y
<1> DEFINE t == Tail(s)
<1>1. /\ Len(s) \in Nat /\ Len(s) # 0 /\ DOMAIN s = 1..Len(s)
      /\ \A i \in 1..Len(s) : s[i] \in T
  BY LenProperties, ElementOfSeq, EmptySeq
<1>2. /\ Head(s) = s[1] /\ t \in Seq(T) /\ Len(t) = Len(s) - 1
      /\ \A i \in 1..(Len(s) - 1) : t[i] = s[i + 1]
  BY <1>1, HeadTailProperties
<1>3. DOMAIN t = 1..(Len(s) - 1)
  BY <1>2, LenProperties
<1> HIDE DEF t
<1>4. \A i \in 1..(Len(s) - 1) : t[i] = s[i + 1] /\ i + 1 \in 1..Len(s) /\ 1 < i + 1
  BY <1>1, <1>2
<1>5. 1 \in 1..Len(s)
  BY <1>1
<1>6. Ascending(t)
  BY <1>1, <1>3, <1>4 DEF Ascending
<1>7. \A y \in Elems(t) : Head(s) < y
  BY <1>1, <1>2, <1>3, <1>4, <1>5 DEF Ascending, Elems
<1>8. ASSUME NEW x \in Elems(s) PROVE x = Head(s) \/ x \in Elems(t)
  <2>1. PICK i \in 1..Len(s) : x = s[i]
    BY <1>1 DEF Elems
  <2>2. CASE i = 1
    BY <1>2, <2>1, <2>2
  <2>3. CASE i # 1
    <3>1. i - 1 \in 1..(Len(s) - 1) /\ (i - 1) + 1 = i
      BY <1>1, <2>3
    <3> QED BY <1>3, <1>4, <2>1, <3>1 DEF Elems
  <2> QED BY <2>2, <2>3
<1>9. Head(s) \in Elems(s) /\ Head(s) \in T
  BY <1>1, <1>2, <1>5 DEF Elems
<1>10. Elems(t) \subseteq Elems(s)
  BY <1>1, <1>3, <1>4 DEF Elems
<1> QED BY <1>2, <1>6, <1>7, <1>8, <1>9, <1>10 DEF t

\* R, a set of pairs, orders the elements of D.
OrderOn(R, D) ==
    /\ \A x, y, z \in D : <<x, y>> \in R /\ <<y, z>> \in R => <<x, z>> \in R
    /\ \A x, y \in D : x # y => <<x, y>> \in R \/ <<y, x>> \in R

\* A finite set can be listed along any order of its elements.
LEMMA LastExists ==
    ASSUME NEW D, NEW R, OrderOn(R, D),
           NEW S, S \subseteq D, S # {}, IsFiniteSet(S)
    PROVE  \E m \in S : \A x \in S \ {m} : <<x, m>> \in R
<1> DEFINE HasLast(U) == \E m \in U : \A x \in U \ {m} : <<x, m>> \in R
           Bad == {n \in Nat : \E U \in SUBSET S : U # {} /\ Cardinality(U) = n /\ ~HasLast(U)}
<1>1. \A U \in SUBSET S : IsFiniteSet(U) /\ Cardinality(U) \in Nat
  BY FS_Subset, FS_CardinalityType
<1>2. SUFFICES ASSUME Bad # {} PROVE FALSE
  <2>1. S \in SUBSET S /\ Cardinality(S) \in Nat
    BY <1>1
  <2>2. Cardinality(S) \notin Bad
    BY <1>2
  <2> QED BY <2>1, <2>2
<1>3. PICK n \in Bad : \A k \in Bad : n <= k
  <2>1. Bad \subseteq Nat
    OBVIOUS
  <2> HIDE DEF Bad
  <2> QED BY <1>2, <2>1, MinExists
<1>4. PICK U \in SUBSET S : U # {} /\ Cardinality(U) = n /\ ~HasLast(U)
  OBVIOUS
<1>5. PICK u \in U : TRUE
  BY <1>4
<1> DEFINE V == U \ {u}
<1>6. V \in SUBSET S /\ Cardinality(V) = n - 1 /\ n \in Nat /\ n - 1 \in Nat
  <2>1. Cardinality(V) = n - 1
    BY <1>1, <1>4, FS_RemoveElement
  <2>2. V \in SUBSET S
    OBVIOUS
  <2> QED BY <1>1, <2>1, <2>2
<1>7. V # {}
  <2> SUFFICES ASSUME V = {} PROVE FALSE
    OBVIOUS
  <2>1. HasLast(U)
    BY <1>5
  <2> QED BY <1>4, <2>1
<1>8. n - 1 \notin Bad
  BY <1>3, <1>6
<1>9. HasLast(V)
  BY <1>6, <1>7, <1>8
<1>10. PICK m \in V : \A x \in V \ {m} : <<x, m>> \in R
  BY <1>9
<1>11. m \in D /\ u \in D /\ m # u /\ U \subseteq D
  OBVIOUS
<1>12. CASE <<u, m>> \in R
  <2>1. \A x \in U \ {m} : <<x, m>> \in R
    BY <1>10, <1>12
  <2> QED BY <1>4, <2>1
<1>13. CASE <<m, u>> \in R
  <2>1. \A x \in U \ {u} : <<x, u>> \in R
    <3> SUFFICES ASSUME NEW x \in U \ {u}, x # m PROVE <<x, u>> \in R
      BY <1>13
    <3>1. <<x, m>> \in R /\ x \in D
      BY <1>10, <1>11
    <3> QED BY <1>11, <1>13, <3>1 DEF OrderOn
  <2> QED BY <1>4, <2>1
<1> QED BY <1>11, <1>12, <1>13 DEF OrderOn

\* s lists S along R.
Lists(s, S, R) ==
    /\ \A i, j \in 1..Cardinality(S) : i < j => <<s[i], s[j]>> \in R
    /\ \A x \in S : \E i \in 1..Cardinality(S) : s[i] = x

LEMMA ListExists ==
    ASSUME NEW D, NEW R, OrderOn(R, D),
           NEW S, S \subseteq D, IsFiniteSet(S)
    PROVE  \E s \in [1..Cardinality(S) -> S] : Lists(s, S, R)
<1> DEFINE Along(s, n, U) == /\ \A i, j \in 1..n : i < j => <<s[i], s[j]>> \in R
                             /\ \A x \in U : \E i \in 1..n : s[i] = x
           Bad == {n \in Nat : \E U \in SUBSET S :
                     Cardinality(U) = n /\ ~\E s \in [1..n -> U] : Along(s, n, U)}
<1>1. \A U \in SUBSET S : IsFiniteSet(U) /\ Cardinality(U) \in Nat
  BY FS_Subset, FS_CardinalityType
<1>2. SUFFICES ASSUME Bad # {} PROVE FALSE
  <2>1. S \in SUBSET S /\ Cardinality(S) \in Nat
    BY <1>1
  <2>2. Cardinality(S) \notin Bad
    BY <1>2
  <2> QED BY <2>1, <2>2 DEF Lists
<1>3. PICK n \in Bad : \A k \in Bad : n <= k
  <2>1. Bad \subseteq Nat
    OBVIOUS
  <2> HIDE DEF Bad
  <2> QED BY <1>2, <2>1, MinExists
<1>4. PICK U \in SUBSET S : Cardinality(U) = n /\ ~\E s \in [1..n -> U] : Along(s, n, U)
  OBVIOUS
<1>5. IsFiniteSet(U) /\ n \in Nat
  BY <1>1
<1>6. U # {}
  <2> SUFFICES ASSUME U = {} PROVE FALSE
    OBVIOUS
  <2>1. n = 0
    BY <1>4, FS_EmptySet
  <2>2. <<>> \in [1..n -> U] /\ Along(<<>>, n, U)
    BY <2>1
  <2> QED BY <1>4, <2>2
<1>7. n # 0
  BY <1>4, <1>5, <1>6, FS_EmptySet
<1>8. PICK m \in U : \A x \in U \ {m} : <<x, m>> \in R
  <2>1. U \subseteq D
    OBVIOUS
  <2> HIDE DEF Bad, Lists
  <2>2. \E m \in U : \A x \in U \ {m} : <<x, m>> \in R
    BY <1>5, <1>6, <2>1, LastExists
  <2> QED BY <2>2
<1> DEFINE V == U \ {m}
<1>9. Cardinality(V) = n - 1
  BY <1>4, <1>5, FS_RemoveElement
<1>10. n - 1 \in Nat /\ n - 1 \notin Bad
  BY <1>3, <1>5, <1>7
<1>11. V \in SUBSET S
  OBVIOUS
<1>12. PICK v \in [1..(n-1) -> V] : Along(v, n - 1, V)
  BY <1>9, <1>10, <1>11
<1> DEFINE u == [i \in 1..n |-> IF i = n THEN m ELSE v[i]]
<1>13. \A i \in 1..n : i = n \/ i \in 1..(n-1)
  BY <1>5
<1>14. u \in [1..n -> U]
  BY <1>13
<1>15. ASSUME NEW i \in 1..n, NEW j \in 1..n, i < j PROVE <<u[i], u[j]>> \in R
  <2>1. i \in 1..(n-1) /\ i # n /\ u[i] = v[i] /\ v[i] \in V
    BY <1>5, <1>15
  <2>2. CASE j = n
    <3>1. u[j] = m
      BY <2>2
    <3>2. v[i] \in U \ {m}
      BY <2>1
    <3> HIDE DEF u
    <3> QED BY <1>8, <2>1, <3>1, <3>2
  <2>3. CASE j # n
    <3>1. j \in 1..(n-1) /\ u[j] = v[j]
      BY <1>13, <2>3
    <3> HIDE DEF u
    <3> QED BY <1>12, <1>15, <2>1, <3>1
  <2> QED BY <2>2, <2>3
<1>16. ASSUME NEW x \in U PROVE \E i \in 1..n : u[i] = x
  <2>1. CASE x = m
    BY <1>5, <1>7, <2>1
  <2>2. CASE x # m
    <3>1. PICK i \in 1..(n-1) : v[i] = x
      BY <1>12, <2>2
    <3>2. i \in 1..n /\ i # n
      BY <1>5
    <3> QED BY <3>1, <3>2
  <2> QED BY <2>1, <2>2
<1>17. Along(u, n, U)
  <2> HIDE DEF u
  <2> QED BY <1>15, <1>16
<1> QED BY <1>4, <1>14, <1>17

\* Quotients: what \div means, and that it is monotone.
LEMMA Quotient ==
    ASSUME NEW x \in Int, NEW u \in Nat \ {0}
    PROVE  x \div u \in Int /\ u * (x \div u) <= x /\ x < u * (x \div u) + u
OBVIOUS

LEMMA QuotientUnique ==
    ASSUME NEW x \in Int, NEW u \in Nat \ {0}, NEW k \in Int, u * k <= x, x < u * k + u
    PROVE  x \div u = k
<1> DEFINE q == x \div u
<1>1. q \in Int /\ u * q <= x /\ x < u * q + u
  BY Quotient
<1> HIDE DEF q
<1>2. CASE q < k
  <2>1. q + 1 <= k
    BY <1>1, <1>2
  <2>2. u * (q + 1) <= u * k
    BY <1>1, <2>1
  <2>3. u * (q + 1) = u * q + u
    BY <1>1
  <2> QED BY <1>1, <2>2, <2>3
<1>3. CASE q > k
  <2>1. k + 1 <= q
    BY <1>1, <1>3
  <2>2. u * (k + 1) <= u * q
    BY <1>1, <2>1
  <2>3. u * (k + 1) = u * k + u
    OBVIOUS
  <2> QED BY <1>1, <2>2, <2>3
<1>4. q = k
  BY <1>1, <1>2, <1>3
<1> QED BY <1>4 DEF q

LEMMA QuotientMonotone ==
    ASSUME NEW x \in Int, NEW y \in Int, NEW u \in Nat \ {0}, x <= y
    PROVE  x \div u <= y \div u
<1> DEFINE p == x \div u
           q == y \div u
<1>1. p \in Int /\ u * p <= x /\ q \in Int /\ y < u * q + u
  BY Quotient
<1> HIDE DEF p, q
<1>2. u * p < u * (q + 1)
  <2>1. u * (q + 1) = u * q + u
    BY <1>1
  <2>2. u * p \in Int /\ u * q \in Int
    BY <1>1
  <2> QED BY <1>1, <2>1, <2>2
<1>3. CASE q + 1 <= p
  <2>1. u * (q + 1) <= u * p
    BY <1>1, <1>3
  <2> QED BY <1>1, <1>2, <2>1
<1>4. p <= q
  BY <1>1, <1>3
<1> QED BY <1>4 DEF p, q
=============================================================================
