------------------------- MODULE WilddogEventProofs -------------------------
(***************************************************************************)
(* What holds of the listeners and their observers for any paths, however  *)
(* often the queue is full, calls go astray and observers fail.            *)
(***************************************************************************)
EXTENDS WilddogEvent, SetInduction, SequenceTheorems, FiniteSetTheorems

Strings == Seq(Nat)
-----------------------------------------------------------------------------
(* Paths.                                                                    *)

LEMMA Prefix ==
  ASSUME NEW s \in Strings, NEW t \in Strings
  PROVE  IsPrefix(s, t) <=> Len(s) <= Len(t) /\ \A i \in 1 .. Len(s) : s[i] = t[i]
<1>1. Len(s) \in Nat /\ Len(t) \in Nat /\ s \in Seq(Nat) /\ t \in Seq(Nat)
  BY DEF Strings
<1>2. CASE Len(s) > Len(t)
  BY <1>1, <1>2 DEF IsPrefix
<1>3. CASE Len(s) <= Len(t)
  <2>1. SubSeq(s, 1, Len(s)) = [i \in 1 .. Len(s) |-> s[i]]
    BY <1>1
  <2>2. SubSeq(t, 1, Len(s)) = [i \in 1 .. Len(s) |-> t[i]]
    BY <1>1, <1>3
  <2>3. [i \in 1 .. Len(s) |-> s[i]] = [i \in 1 .. Len(s) |-> t[i]]
          <=> \A i \in 1 .. Len(s) : s[i] = t[i]
    OBVIOUS
  <2>4. QED
    BY <1>3, <2>1, <2>2, <2>3 DEF IsPrefix
<1>4. QED
  BY <1>1, <1>2, <1>3

LEMMA SameString ==
  ASSUME NEW s \in Strings, NEW t \in Strings, Len(s) = Len(t),
         \A i \in 1 .. Len(s) : s[i] = t[i]
  PROVE  s = t
BY SeqEqual DEF Strings

\* Within is an order, and what a path is within is a chain.
LEMMA WithinSelf ==
  ASSUME NEW p \in Strings
  PROVE  Within(p, p)
BY Prefix DEF Within, Strings

LEMMA WithinBoth ==
  ASSUME NEW p \in Strings, NEW q \in Strings, Within(p, q), Within(q, p)
  PROVE  p = q
<1>1. Len(p) \in Nat /\ Len(q) \in Nat
  BY DEF Strings
<1>2. Len(p) = Len(q) /\ \A i \in 1 .. Len(p) : p[i] = q[i]
  BY <1>1, Prefix DEF Within
<1>3. QED
  BY <1>2, SameString

LEMMA WithinTwice ==
  ASSUME NEW p \in Strings, NEW q \in Strings, NEW r \in Strings, Within(r, q), Within(q, p)
  PROVE  Within(r, p)
<1>1. Len(p) \in Nat /\ Len(q) \in Nat /\ Len(r) \in Nat
  BY DEF Strings
<1>2. Len(p) <= Len(q) /\ \A i \in 1 .. Len(p) : p[i] = q[i]
  BY Prefix DEF Within
<1>3. Len(q) <= Len(r) /\ \A i \in 1 .. Len(q) : q[i] = r[i]
  BY Prefix DEF Within
<1>4. Len(p) <= Len(r) /\ \A i \in 1 .. Len(p) : p[i] = r[i]
  BY <1>1, <1>2, <1>3
<1>5. QED
  BY <1>4, Prefix DEF Within

LEMMA WithinChain ==
  ASSUME NEW p \in Strings, NEW q \in Strings, NEW r \in Strings, Within(r, p), Within(r, q)
  PROVE  Within(p, q) \/ Within(q, p)
<1>1. Len(p) \in Nat /\ Len(q) \in Nat /\ Len(r) \in Nat
  BY DEF Strings
<1>2. Len(p) <= Len(r) /\ \A i \in 1 .. Len(p) : p[i] = r[i]
  BY Prefix DEF Within
<1>3. Len(q) <= Len(r) /\ \A i \in 1 .. Len(q) : q[i] = r[i]
  BY Prefix DEF Within
<1>4. CASE Len(p) <= Len(q)
  <2>1. \A i \in 1 .. Len(p) : p[i] = q[i]
    BY <1>1, <1>2, <1>3, <1>4
  <2>2. QED
    BY <1>4, <2>1, Prefix DEF Within
<1>5. CASE Len(q) <= Len(p)
  <2>1. \A i \in 1 .. Len(q) : q[i] = p[i]
    BY <1>1, <1>2, <1>3, <1>5
  <2>2. QED
    BY <1>5, <2>1, Prefix DEF Within
<1>6. QED
  BY <1>1, <1>4, <1>5

LEMMA BelowIs == \A p, q : Below(q, p) <=> Within(q, p) /\ q # p
BY DEF Below, Within, IsStrictPrefix

\* The strings before i agree, and there they differ.
Differ(p, q, i) ==
  /\ i \in 1 .. Len(p) /\ i \in 1 .. Len(q)
  /\ \A j \in 1 .. i - 1 : p[j] = q[j]
  /\ p[i] < q[i]

LEMMA BeforeIs ==
  ASSUME NEW p \in Strings, NEW q \in Strings
  PROVE  Before(p, q) <=> Below(q, p) \/ \E i \in Nat : Differ(p, q, i)
<1>1. Len(p) \in Nat /\ Len(q) \in Nat /\ p \in Seq(Nat) /\ q \in Seq(Nat)
      /\ DOMAIN p = 1 .. Len(p) /\ DOMAIN q = 1 .. Len(q)
  BY DEF Strings
<1>2. ASSUME NEW i \in 1 .. Len(p), i \in 1 .. Len(q)
      PROVE  SubSeq(p, 1, i - 1) = SubSeq(q, 1, i - 1)
               <=> \A j \in 1 .. i - 1 : p[j] = q[j]
  <2>1. SubSeq(p, 1, i - 1) = [j \in 1 .. i - 1 |-> p[j]]
    BY <1>1
  <2>2. SubSeq(q, 1, i - 1) = [j \in 1 .. i - 1 |-> q[j]]
    BY <1>1, <1>2
  <2>3. [j \in 1 .. i - 1 |-> p[j]] = [j \in 1 .. i - 1 |-> q[j]]
          <=> \A j \in 1 .. i - 1 : p[j] = q[j]
    OBVIOUS
  <2>4. QED
    BY <2>1, <2>2, <2>3
<1>3. (\E i \in DOMAIN p \cap DOMAIN q :
          SubSeq(p, 1, i - 1) = SubSeq(q, 1, i - 1) /\ p[i] < q[i])
        <=> \E i \in Nat : Differ(p, q, i)
  <2> DEFINE A(i) == SubSeq(p, 1, i - 1) = SubSeq(q, 1, i - 1)
             B(i) == \A j \in 1 .. i - 1 : p[j] = q[j]
  <2>1. \A i : i \in DOMAIN p \cap DOMAIN q <=> i \in Nat /\ i \in 1 .. Len(p) /\ i \in 1 .. Len(q)
    BY <1>1
  <2>2. \A i \in DOMAIN p \cap DOMAIN q : A(i) <=> B(i)
    BY <1>2, <2>1
  <2>3. \A i \in Nat : Differ(p, q, i) <=>
           i \in 1 .. Len(p) /\ i \in 1 .. Len(q) /\ B(i) /\ p[i] < q[i]
    BY DEF Differ
  <2> HIDE DEF A, B
  <2>4. (\E i \in DOMAIN p \cap DOMAIN q : A(i) /\ p[i] < q[i]) <=> \E i \in Nat : Differ(p, q, i)
    BY <2>1, <2>2, <2>3, Zenon
  <2>5. QED
    BY <2>4 DEF A
<1>4. QED
  BY <1>3 DEF Before

LEMMA BeforeOnce ==
  ASSUME NEW p \in Strings, NEW q \in Strings, Before(p, q)
  PROVE  ~Before(q, p) /\ ~Within(p, q)
<1>1. Len(p) \in Nat /\ Len(q) \in Nat
  BY DEF Strings
<1>2. /\ \A i \in 1 .. Len(p) : p[i] \in Nat
      /\ \A i \in 1 .. Len(q) : q[i] \in Nat
  BY DEF Strings
<1>3. ASSUME NEW i \in Nat, Differ(p, q, i)
      PROVE  ~Within(q, p) /\ ~Within(p, q)
  <2>1. p[i] # q[i] /\ i \in 1 .. Len(p) /\ i \in 1 .. Len(q)
    BY <1>2, <1>3 DEF Differ
  <2>2. QED
    BY <2>1, Prefix DEF Within
<1>4. ASSUME NEW i \in Nat, Differ(q, p, i)
      PROVE  ~Within(q, p) /\ ~Within(p, q)
  <2>1. p[i] # q[i] /\ i \in 1 .. Len(p) /\ i \in 1 .. Len(q)
    BY <1>2, <1>4 DEF Differ
  <2>2. QED
    BY <2>1, Prefix DEF Within
<1>5. ASSUME NEW i \in Nat, NEW j \in Nat, Differ(p, q, i), Differ(q, p, j)
      PROVE  FALSE
  <2>1. /\ i \in 1 .. Len(p) /\ i \in 1 .. Len(q) /\ p[i] < q[i]
        /\ \A k \in 1 .. i - 1 : p[k] = q[k]
    BY <1>5 DEF Differ
  <2>2. /\ j \in 1 .. Len(p) /\ j \in 1 .. Len(q) /\ q[j] < p[j]
        /\ \A k \in 1 .. j - 1 : q[k] = p[k]
    BY <1>5 DEF Differ
  <2>3. i < j \/ j < i \/ i = j
    OBVIOUS
  <2>4. QED
    BY <1>1, <1>2, <2>1, <2>2, <2>3
<1>6. CASE Below(q, p)
  <2>1. Within(q, p) /\ q # p
    BY <1>6, BelowIs
  <2>2. ~Within(p, q)
    BY <2>1, WithinBoth
  <2>3. QED
    BY <1>4, <2>1, <2>2, BeforeIs, BelowIs
<1>7. CASE \E i \in Nat : Differ(p, q, i)
  BY <1>3, <1>5, <1>7, BeforeIs, BelowIs
<1>8. QED
  BY <1>6, <1>7, BeforeIs
-----------------------------------------------------------------------------
(* The list.                                                                 *)

N == Len(Order)

LEMMA Listed ==
  /\ N \in Nat /\ Paths \subseteq Strings
  /\ \A i \in 1 .. N : Order[i] \in Paths
  /\ \A p \in Paths : \E i \in 1 .. N : p = Order[i]
  /\ \A i, j \in 1 .. N : Before(Order[i], Order[j]) <=> i < j
<1>1. /\ N \in Nat /\ DOMAIN Order = 1 .. N
      /\ \A i \in 1 .. N : Order[i] \in Strings
  BY EventAssumption DEF N, Strings
<1>2. Paths = {Order[i] : i \in 1 .. N}
  BY <1>1 DEF Paths, Range
<1>3. ASSUME NEW i \in 1 .. N, NEW j \in 1 .. N
      PROVE  Before(Order[i], Order[j]) <=> i < j
  <2>1. i < j => Before(Order[i], Order[j])
    BY <1>1, EventAssumption
  <2>2. j < i => Before(Order[j], Order[i])
    BY <1>1, EventAssumption
  <2>3. i = j => ~Before(Order[i], Order[j])
    BY <1>1, BeforeOnce
  <2>4. j < i => ~Before(Order[i], Order[j])
    BY <1>1, <2>2, BeforeOnce
  <2>5. QED
    BY <1>1, <2>1, <2>3, <2>4
<1>4. QED
  BY <1>1, <1>2, <1>3

LEMMA Greatest ==
  ASSUME NEW n \in Nat, NEW S, S \subseteq 1 .. n, S # {}
  PROVE  \E m \in S : \A k \in S : k <= m
<1> DEFINE R == {n - k : k \in S}
<1>1. R \subseteq Nat /\ R # {}
  <2>1. ASSUME NEW k \in S
        PROVE  n - k \in Nat
    OBVIOUS
  <2>2. PICK k : k \in S
    OBVIOUS
  <2>3. n - k \in R
    BY <2>2
  <2>4. QED
    BY <2>1, <2>3
<1>2. PICK r \in R : \A k \in R : r <= k
  BY <1>1, Least
<1>3. PICK m \in S : r = n - m
  BY <1>2
<1>4. \A k \in S : n - m <= n - k
  BY <1>2, <1>3
<1>5. QED
  BY <1>3, <1>4

\* What a listener is below comes before it in the list.
LEMMA AboveFirst ==
  ASSUME NEW i \in 1 .. N, NEW j \in 1 .. N, Below(Order[j], Order[i])
  PROVE  i < j
<1>1. Order[i] \in Strings /\ Order[j] \in Strings
  BY Listed
<1>2. Before(Order[i], Order[j])
  BY <1>1, BeforeIs
<1>3. QED
  BY <1>2, Listed

\* Of the listeners below q, the topmost that x is within has an observer or is
\* handed one when q goes.
LEMMA HandsOver ==
  ASSUME NEW e, e.nodes \subseteq Paths, NEW p \in Paths, NEW q \in e.nodes, Within(q, p),
         NEW x \in e.nodes, Below(x, q)
  PROVE  \E y \in e.nodes : /\ Within(x, y) /\ Below(y, q)
                            /\ y \in e.on \/ y \in HandedOver(e, p, q)
<1>1. /\ N \in Nat /\ Paths \subseteq Strings
      /\ \A i \in 1 .. N : Order[i] \in Paths
      /\ \A r \in Paths : \E i \in 1 .. N : r = Order[i]
      /\ \A i, j \in 1 .. N : Before(Order[i], Order[j]) <=> i < j
  BY Listed
<1>2. p \in Strings /\ q \in Strings /\ x \in Strings /\ q \in Paths /\ x \in Paths
  BY <1>1
<1> DEFINE S == {i \in 1 .. N : Order[i] \in e.nodes /\ Below(Order[i], q) /\ Within(x, Order[i])}
<1>3. PICK m \in S : \A k \in S : m <= k
  <2>1. PICK i \in 1 .. N : x = Order[i]
    BY <1>1, <1>2
  <2>2. i \in S
    BY <1>2, <2>1, WithinSelf
  <2>3. S \subseteq Nat
    BY <1>1
  <2> HIDE DEF S
  <2>4. QED
    BY <2>2, <2>3, Least
<1> DEFINE y == Order[m]
<1>4. m \in 1 .. N /\ y \in e.nodes /\ Below(y, q) /\ Within(x, y) /\ y \in Strings /\ y \in Paths
  BY <1>1, <1>3
<1>5. SUFFICES ASSUME y \notin e.on
               PROVE  y \in HandedOver(e, p, q)
  BY <1>4
<1>6. PICK c \in 1 .. N : q = Order[c]
  BY <1>1, <1>2
<1>7. c < m
  BY <1>4, <1>6, AboveFirst
<1> DEFINE R == {i \in 1 .. N : Order[i] \in e.nodes /\ i < m}
<1>8. PICK k \in R : \A i \in R : i <= k
  <2>1. c \in R
    BY <1>6, <1>7
  <2>2. R \subseteq 1 .. N
    OBVIOUS
  <2> HIDE DEF R
  <2>3. QED
    BY <1>1, <2>1, <2>2, Greatest
<1> DEFINE r == Order[k]
<1>9. k \in 1 .. N /\ k < m /\ r \in e.nodes /\ r \in Strings /\ r \in Paths /\ c <= k
  <2>1. c \in R
    BY <1>6, <1>7
  <2>2. QED
    BY <1>1, <1>8, <2>1
<1> HIDE DEF y, r
<1>10. Adjacent(e, r, y)
  <2>1. r \in Earlier[y]
    BY <1>1, <1>4, <1>9 DEF Earlier, r, y
  <2>2. ASSUME NEW s \in e.nodes \cap Earlier[y]
        PROVE  s \in Earlier[r] \cup {r}
    <3>1. PICK i \in 1 .. N : s = Order[i]
      BY <1>1
    <3>2. i < m
      BY <1>1, <1>4, <2>2, <3>1 DEF Earlier, y
    <3>3. i <= k
      BY <1>8, <3>1, <3>2
    <3>4. CASE i = k
      BY <3>1, <3>4 DEF r
    <3>5. CASE i < k
      BY <1>1, <1>9, <3>1, <3>5 DEF Earlier, r
    <3>6. QED
      BY <1>1, <1>9, <3>3, <3>4, <3>5
  <2>3. QED
    BY <1>9, <2>1, <2>2 DEF Adjacent
<1>11. r = q \/ ~Below(y, r)
  <2>1. SUFFICES ASSUME r # q, Below(y, r)
                 PROVE  FALSE
    OBVIOUS
  <2>2. Within(y, r) /\ Within(y, q)
    BY <1>4, <2>1, BelowIs
  <2>3. Within(r, q) \/ Within(q, r)
    BY <1>2, <1>4, <1>9, <2>2, WithinChain
  <2>4. ~Within(q, r)
    <3>1. ASSUME Within(q, r)
          PROVE  FALSE
      <4>1. Below(q, r)
        BY <2>1, <3>1, BelowIs
      <4>2. k < c
        BY <1>6, <1>9, <4>1, AboveFirst DEF r
      <4>3. QED
        BY <1>1, <1>6, <1>9, <4>2
    <3>2. QED
      BY <3>1
  <2>5. Below(r, q)
    BY <2>1, <2>3, <2>4, BelowIs
  <2>6. Within(x, r)
    BY <1>2, <1>4, <1>9, <2>2, WithinTwice
  <2>7. k \in S
    BY <1>9, <2>5, <2>6 DEF r
  <2>8. QED
    BY <1>3, <1>4, <1>9, <2>7
<1>12. Below(y, p) /\ q \in Earlier[y]
  <2>1. Within(y, p)
    BY <1>2, <1>4, BelowIs, WithinTwice
  <2>2. y # p
    BY <1>2, <1>4, BelowIs, WithinBoth
  <2>3. q \in Earlier[y]
    BY <1>1, <1>2, <1>4, <1>6, <1>7 DEF Earlier, y
  <2>4. QED
    BY <2>1, <2>2, <2>3, BelowIs
<1>13. QED
  BY <1>4, <1>5, <1>9, <1>10, <1>11, <1>12 DEF HandedOver
-----------------------------------------------------------------------------
(* Lists, and how many of their elements are in a set.                       *)

Count(s, G) == Cardinality({i \in DOMAIN s : s[i] \in G})

LEMMA CountType ==
  ASSUME NEW V, NEW s \in Seq(V), NEW G
  PROVE  /\ IsFiniteSet({i \in DOMAIN s : s[i] \in G}) /\ Count(s, G) \in Nat
         /\ Count(s, G) > 0 <=> \E i \in DOMAIN s : s[i] \in G
<1> DEFINE I == {i \in DOMAIN s : s[i] \in G}
<1>1. DOMAIN s = 1 .. Len(s) /\ Len(s) \in Nat
  OBVIOUS
<1>2. IsFiniteSet(I)
  <2>1. IsFiniteSet(1 .. Len(s)) /\ I \in SUBSET (1 .. Len(s))
    BY <1>1, FS_Interval
  <2> HIDE DEF I
  <2>2. QED
    BY <2>1, FS_Subset
<1>3. Cardinality(I) \in Nat /\ (Cardinality(I) = 0 <=> I = {})
  BY <1>2, FS_CardinalityType, FS_EmptySet
<1>4. QED
  BY <1>2, <1>3 DEF Count

LEMMA CountAppend ==
  ASSUME NEW V, NEW s \in Seq(V), NEW x \in V, NEW G
  PROVE  Count(Append(s, x), G) = Count(s, G) + (IF x \in G THEN 1 ELSE 0)
<1> DEFINE r == Append(s, x)
           n == Len(s) + 1
           I == {i \in DOMAIN s : s[i] \in G}
           R == {i \in DOMAIN r : r[i] \in G}
<1>1. /\ DOMAIN s = 1 .. Len(s) /\ DOMAIN r = 1 .. n /\ n \in Nat /\ r[n] = x
      /\ \A i \in 1 .. Len(s) : r[i] = s[i]
  OBVIOUS
<1> HIDE DEF r
<1>2. n \notin I /\ R = IF x \in G THEN I \cup {n} ELSE I
  BY <1>1
<1>3. IsFiniteSet(I) /\ Cardinality(I) \in Nat
  BY CountType DEF Count
<1> HIDE DEF I, R, n
<1>4. Cardinality(R) = Cardinality(I) + (IF x \in G THEN 1 ELSE 0)
  <2>1. CASE x \in G
    <3>1. Cardinality(I \cup {n}) = Cardinality(I) + 1
      BY <1>2, <1>3, FS_AddElement
    <3>2. QED
      BY <1>2, <2>1, <3>1
  <2>2. CASE x \notin G
    BY <1>2, <1>3, <2>2
  <2>3. QED
    BY <2>1, <2>2
<1>5. QED
  BY <1>4 DEF Count, I, R, r

LEMMA RemoveAtIs ==
  ASSUME NEW V, NEW s \in Seq(V), NEW v \in 1 .. Len(s)
  PROVE  /\ RemoveAt(s, v) \in Seq(V) /\ Len(RemoveAt(s, v)) = Len(s) - 1
         /\ \A k \in 1 .. Len(s) - 1 : RemoveAt(s, v)[k] = s[IF k < v THEN k ELSE k + 1]
<1> DEFINE n == Len(s)
           a == SubSeq(s, 1, v - 1)
           b == SubSeq(s, v + 1, n)
<1>1. n \in Nat /\ v \in Int /\ \A i \in 1 .. n : s[i] \in V
  OBVIOUS
<1>2. /\ a \in Seq(V) /\ Len(a) = v - 1
      /\ \A k \in 1 .. v - 1 : a[k] = s[k]
  BY <1>1, SubSeqProperties
<1>3. /\ b \in Seq(V) /\ Len(b) = n - v
      /\ \A k \in 1 .. n - v : b[k] = s[v + k]
  BY <1>1, SubSeqProperties
<1> HIDE DEF a, b, n
<1>4. /\ a \o b \in Seq(V) /\ Len(a \o b) = n - 1
      /\ \A k \in 1 .. n - 1 : (a \o b)[k] = IF k <= v - 1 THEN a[k] ELSE b[k - (v - 1)]
  BY <1>1, <1>2, <1>3, ConcatProperties
<1>5. ASSUME NEW k \in 1 .. n - 1
      PROVE  (a \o b)[k] = s[IF k < v THEN k ELSE k + 1]
  <2>1. CASE k < v
    BY <1>1, <1>2, <1>4, <2>1
  <2>2. CASE ~(k < v)
    <3>1. k - (v - 1) \in 1 .. n - v /\ v + (k - (v - 1)) = k + 1 /\ ~(k <= v - 1)
      BY <1>1, <2>2 DEF n
    <3>2. QED
      BY <1>3, <1>4, <2>2, <3>1
  <2>3. QED
    BY <2>1, <2>2
<1>6. RemoveAt(s, v) = a \o b
  BY DEF RemoveAt, a, b, n
<1>7. QED
  BY <1>4, <1>5, <1>6 DEF n

LEMMA CountRemove ==
  ASSUME NEW V, NEW s \in Seq(V), NEW v \in 1 .. Len(s), NEW G
  PROVE  Count(RemoveAt(s, v), G) = Count(s, G) - (IF s[v] \in G THEN 1 ELSE 0)
<1> DEFINE r == RemoveAt(s, v)
           n == Len(s)
           I == {i \in DOMAIN s : s[i] \in G}
           R == {i \in DOMAIN r : r[i] \in G}
           at(k) == IF k < v THEN k ELSE k + 1
           f == [k \in R |-> at(k)]
<1>1. /\ n \in Nat /\ DOMAIN s = 1 .. n /\ DOMAIN r = 1 .. n - 1
      /\ \A k \in 1 .. n - 1 : r[k] = s[at(k)]
  BY RemoveAtIs
<1> HIDE DEF r
<1>2. IsFiniteSet(I) /\ Cardinality(I) \in Nat
  BY CountType DEF Count
<1>3. \A k \in R : at(k) \in I \ {v}
  BY <1>1
<1>4. \A i \in I \ {v} : \E k \in R : at(k) = i
  <2>1. SUFFICES ASSUME NEW i \in I \ {v}
                 PROVE  \E k \in R : at(k) = i
    OBVIOUS
  <2> DEFINE k == IF i < v THEN i ELSE i - 1
  <2>2. k \in 1 .. n - 1 /\ at(k) = i
    BY <1>1
  <2>3. k \in R
    BY <1>1, <2>2
  <2>4. QED
    BY <2>2, <2>3
<1>5. \A k, m \in R : at(k) = at(m) => k = m
  BY <1>1
<1>6. f \in Bijection(R, I \ {v})
  <2>1. f \in [R -> I \ {v}] /\ \A k \in R : f[k] = at(k)
    BY <1>3
  <2> HIDE DEF f, R, I, at
  <2>2. QED
    BY <1>4, <1>5, <2>1 DEF Bijection, Injection, Surjection, IsInjective
<1>7. IsFiniteSet(R)
  <2>1. IsFiniteSet(1 .. n - 1) /\ R \in SUBSET (1 .. n - 1)
    BY <1>1, FS_Interval
  <2> HIDE DEF R, f
  <2>2. QED
    BY <2>1, FS_Subset
<1> HIDE DEF R, f
<1>8. Cardinality(R) = Cardinality(I \ {v})
  BY <1>6, <1>7, FS_Bijection DEF ExistsBijection
<1>9. v \in I <=> s[v] \in G
  BY <1>1
<1> HIDE DEF I
<1>10. Cardinality(I \ {v}) = IF v \in I THEN Cardinality(I) - 1 ELSE Cardinality(I)
  BY <1>2, FS_RemoveElement
<1>11. Cardinality(R) = Cardinality(I) - (IF s[v] \in G THEN 1 ELSE 0)
  BY <1>2, <1>8, <1>9, <1>10
<1>12. QED
  BY <1>11 DEF Count, R, I, r

\* The first of those in I goes.
LEMMA WithoutIs ==
  ASSUME NEW V, NEW s \in Seq(V), NEW I, I \subseteq DOMAIN s
  PROVE  /\ Without(s, I) \in Seq(V)
         /\ I = {} => Without(s, I) = s
         /\ I # {} => /\ Min(I) \in I
                      /\ \A G : Count(Without(s, I), G)
                                  = Count(s, G) - (IF s[Min(I)] \in G THEN 1 ELSE 0)
<1>1. CASE I = {}
  BY <1>1 DEF Without
<1>2. CASE I # {}
  <2>1. I \subseteq Nat /\ I \subseteq 1 .. Len(s)
    OBVIOUS
  <2>2. \E m \in I : \A k \in I : m <= k
    BY <1>2, <2>1, Least
  <2>3. Min(I) \in I
    BY <2>2 DEF Min
  <2>4. Min(I) \in 1 .. Len(s) /\ Without(s, I) = RemoveAt(s, Min(I))
    BY <1>2, <2>1, <2>3 DEF Without
  <2> HIDE DEF Min
  <2>5. QED
    BY <1>2, <2>3, <2>4, RemoveAtIs, CountRemove
<1>3. QED
  BY <1>1, <1>2

\* The same places, and those in G are the same.
LEMMA CountSame ==
  ASSUME NEW s, NEW r, NEW G, NEW H, DOMAIN r = DOMAIN s,
         \A i \in DOMAIN s : r[i] \in G <=> s[i] \in H
  PROVE  Count(r, G) = Count(s, H)
<1>1. {i \in DOMAIN r : r[i] \in G} = {i \in DOMAIN s : s[i] \in H}
  OBVIOUS
<1>2. QED
  BY <1>1 DEF Count
-----------------------------------------------------------------------------
(* What the commands do, and the calls made of them.                         *)

Observer(p, to) == [path |-> p, to |-> to, mark |-> "live"]
InError         == {o \in Observers : o.mark = "failing"}

T(e, p) == Count(e.observers, {Observer(p, "trigger")})
L(e, p) == Count(e.observers, {Observer(p, "listener")})
F(e)    == Count(e.observers, InError)

LEMMA EventFields ==
  ASSUME NEW e \in Events
  PROVE  /\ e.nodes \subseteq Paths /\ e.on \subseteq Paths /\ e.given \subseteq Paths
         /\ e.robbed \subseteq Paths /\ e.hurt \subseteq Paths
         /\ e.observers \in Seq(Observers)
         /\ \A p \in Paths : T(e, p) \in Nat /\ L(e, p) \in Nat
         /\ F(e) \in Nat
<1>1. /\ e.nodes \subseteq Paths /\ e.on \subseteq Paths /\ e.given \subseteq Paths
      /\ e.robbed \subseteq Paths /\ e.hurt \subseteq Paths
      /\ e.observers \in Seq(Observers)
  BY DEF Events
<1>2. QED
  BY <1>1, CountType DEF T, L, F

LEMMA ObserverIs ==
  ASSUME NEW p \in Paths, NEW to \in Targets
  PROVE  /\ Observer(p, to) \in Observers /\ Observer(p, to) \notin InError
         /\ Observer(p, to).path = p /\ Observer(p, to).to = to
         /\ Observer(p, to).mark = "live"
         /\ \A x, t : Observer(p, to) = Observer(x, t) <=> p = x /\ to = t
BY DEF Observer, Observers, InError

\* p is asked for.
AskedOne(e, r, p, to) ==
  /\ r \in Events /\ r.nodes = e.nodes /\ r.on = e.on /\ r.hurt = e.hurt
  /\ \A x \in Paths :
       /\ T(r, x) = IF to = "trigger" /\ x = p THEN T(e, x) + 1 ELSE T(e, x)
       /\ L(r, x) = IF to = "listener" /\ x = p THEN L(e, x) + 1 ELSE L(e, x)
  /\ F(r) = F(e)
  /\ r.given = IF to = "listener" THEN e.given \cup {p} ELSE e.given \ {p}
  /\ r.robbed = e.robbed \ {p}

LEMMA AskOne ==
  ASSUME NEW e \in Events, NEW p \in Paths, NEW to \in Targets
  PROVE  AskedOne(e, AddObserver(e, p, to), p, to)
<1> DEFINE o == Observer(p, to)
           r == AddObserver(e, p, to)
           given == IF to = "listener" THEN e.given \cup {p} ELSE e.given \ {p}
           list == Append(e.observers, o)
<1>1. r = [e EXCEPT !.observers = list, !.given = given, !.robbed = e.robbed \ {p}]
  BY DEF AddObserver, Observer
<1>2. /\ o \in Observers /\ o \notin InError
      /\ \A x, t : o \in {Observer(x, t)} <=> p = x /\ to = t
  BY ObserverIs
<1>3. e.observers \in Seq(Observers) /\ e.given \subseteq Paths /\ e.robbed \subseteq Paths
  BY EventFields
<1> HIDE DEF o
<1>4. /\ list \in Seq(Observers)
      /\ \A G : Count(list, G) = Count(e.observers, G) + (IF o \in G THEN 1 ELSE 0)
  BY <1>2, <1>3, CountAppend
<1>5. given \in SUBSET Paths /\ e.robbed \ {p} \in SUBSET Paths
  BY <1>3
<1> HIDE DEF list, given, r
<1>6. /\ r \in Events /\ r.nodes = e.nodes /\ r.on = e.on /\ r.hurt = e.hurt
      /\ r.observers = list /\ r.given = given /\ r.robbed = e.robbed \ {p}
  BY <1>1, <1>4, <1>5 DEF Events
<1>7. F(r) = F(e)
  BY <1>2, <1>4, <1>6, EventFields DEF F
<1>8. ASSUME NEW x \in Paths
      PROVE  /\ T(r, x) = IF to = "trigger" /\ x = p THEN T(e, x) + 1 ELSE T(e, x)
             /\ L(r, x) = IF to = "listener" /\ x = p THEN L(e, x) + 1 ELSE L(e, x)
  <2>1. T(e, x) \in Nat /\ L(e, x) \in Nat
    BY EventFields
  <2>2. /\ T(r, x) = T(e, x) + (IF o \in {Observer(x, "trigger")} THEN 1 ELSE 0)
        /\ L(r, x) = L(e, x) + (IF o \in {Observer(x, "listener")} THEN 1 ELSE 0)
    BY <1>4, <1>6 DEF T, L
  <2>3. QED
    BY <1>2, <2>1, <2>2
<1>9. QED
  BY <1>6, <1>7, <1>8 DEF AskedOne, given, r

\* At x nothing is gained, and what it has not lost to another it has.
Weaker(e, r, x) ==
  /\ T(r, x) <= T(e, x) /\ L(r, x) <= L(e, x)
  /\ T(e, x) > 0 => T(r, x) > 0 \/ x \in r.robbed
  /\ x \in e.robbed => x \in r.robbed

\* p is cancelled.
CancelledOne(e, r, p) ==
  /\ r \in Events /\ r.nodes = e.nodes /\ r.on = e.on /\ r.hurt = e.hurt
  /\ T(r, p) = 0 /\ L(r, p) = 0
  /\ \A x \in Paths \ {p} : Weaker(e, r, x)
  /\ F(r) <= F(e)
  /\ r.given = e.given \ {p}

LEMMA LeftIs ==
  ASSUME NEW list \in Seq(Observers), NEW p \in Paths
  PROVE  /\ Left(list, p) \in Seq(Observers)
         /\ Count(Left(list, p), InError) = Count(list, InError)
         /\ \A x \in Paths, to \in Targets :
              Count(Left(list, p), {Observer(x, to)})
                = IF x = p THEN 0 ELSE Count(list, {Observer(x, to)})
<1> DEFINE r == Left(list, p)
           new(o) == IF o.path = p /\ o.mark = "live" THEN [o EXCEPT !.mark = "left"] ELSE o
<1>1. DOMAIN list = 1 .. Len(list) /\ \A i \in DOMAIN list : list[i] \in Observers
  OBVIOUS
<1>2. r = [i \in DOMAIN list |-> new(list[i])]
  BY DEF Left
<1>3. ASSUME NEW o \in Observers
      PROVE  /\ new(o) \in Observers
             /\ new(o) \in InError <=> o \in InError
             /\ \A x \in Paths, to \in Targets :
                  new(o) = Observer(x, to) <=> x # p /\ o = Observer(x, to)
  <2>1. new(o) \in Observers /\ (new(o) \in InError <=> o \in InError)
    BY DEF Observers, InError
  <2>2. ASSUME NEW x \in Paths, NEW to \in Targets
        PROVE  new(o) = Observer(x, to) <=> x # p /\ o = Observer(x, to)
    <3>1. CASE o.path = p /\ o.mark = "live"
      <4>1. new(o).mark = "left"
        BY <3>1 DEF Observers
      <4>2. o = Observer(x, to) => x = p
        BY <3>1, ObserverIs
      <4> HIDE DEF new
      <4>3. QED
        BY <4>1, <4>2, ObserverIs
    <3>2. CASE ~(o.path = p /\ o.mark = "live")
      <4>1. new(o) = o /\ (o = Observer(x, to) => x # p)
        BY <3>2, ObserverIs
      <4>2. QED
        BY <4>1
    <3>3. QED
      BY <3>1, <3>2
  <2>3. QED
    BY <2>1, <2>2
<1> HIDE DEF new
<1>4. r \in Seq(Observers) /\ DOMAIN r = DOMAIN list /\ \A i \in DOMAIN list : r[i] = new(list[i])
  BY <1>1, <1>2, <1>3
<1> HIDE DEF r
<1>5. Count(r, InError) = Count(list, InError)
  BY <1>1, <1>3, <1>4, CountSame
<1>6. ASSUME NEW x \in Paths, NEW to \in Targets
      PROVE  Count(r, {Observer(x, to)}) = IF x = p THEN 0 ELSE Count(list, {Observer(x, to)})
  <2>1. \A i \in DOMAIN list : r[i] = Observer(x, to) <=> x # p /\ list[i] = Observer(x, to)
    BY <1>1, <1>3, <1>4
  <2>2. CASE x = p
    <3>1. Count(r, {Observer(x, to)}) \in Nat
          /\ (Count(r, {Observer(x, to)}) > 0 <=> \E i \in DOMAIN r : r[i] \in {Observer(x, to)})
      BY <1>4, CountType
    <3>2. QED
      BY <1>4, <2>1, <2>2, <3>1
  <2>3. CASE x # p
    <3>1. \A i \in DOMAIN list : r[i] \in {Observer(x, to)} <=> list[i] \in {Observer(x, to)}
      BY <2>1, <2>3
    <3>2. QED
      BY <1>4, <2>3, <3>1, CountSame
  <2>4. QED
    BY <2>2, <2>3
<1>7. QED
  BY <1>4, <1>5, <1>6 DEF r

LEMMA CancelOne ==
  ASSUME NEW e \in Events, NEW p \in Paths
  PROVE  CancelledOne(e, RemoveObserver(e, p), p)
<1> DEFINE s == e.observers
           others == {i \in DOMAIN s : s[i].path # p}
           deleted == {i \in others : i = Min(others) /\ s[i].mark = "live"}
           rest == Without(s, others)
           list == Left(rest, p)
           robbed == (e.robbed \ {p}) \cup {s[i].path : i \in deleted}
           r == RemoveObserver(e, p)
<1>0. "trigger" \in Targets /\ "listener" \in Targets
  BY DEF Targets
<1>1. r = [e EXCEPT !.observers = list, !.given = e.given \ {p}, !.robbed = robbed]
  BY DEF RemoveObserver
<1>2. /\ s \in Seq(Observers) /\ e.given \subseteq Paths /\ e.robbed \subseteq Paths
      /\ \A i \in DOMAIN s : s[i] \in Observers /\ s[i].path \in Paths
  <2>1. s \in Seq(Observers) /\ e.given \subseteq Paths /\ e.robbed \subseteq Paths
    BY EventFields
  <2>2. \A i \in DOMAIN s : s[i] \in Observers
    BY <2>1
  <2>3. \A o \in Observers : o.path \in Paths
    BY DEF Observers
  <2> HIDE DEF s
  <2>4. QED
    BY <2>1, <2>2, <2>3
<1>3. robbed \in SUBSET Paths /\ e.given \ {p} \in SUBSET Paths
  BY <1>2
<1> HIDE DEF s
<1>4. /\ rest \in Seq(Observers)
      /\ others = {} => rest = s
      /\ others # {} => /\ Min(others) \in others
                        /\ \A G : Count(rest, G)
                                    = Count(s, G) - (IF s[Min(others)] \in G THEN 1 ELSE 0)
  BY <1>2, WithoutIs
<1> HIDE DEF rest
<1>5. /\ list \in Seq(Observers)
      /\ Count(list, InError) = Count(rest, InError)
      /\ \A x \in Paths, to \in Targets :
           Count(list, {Observer(x, to)}) = IF x = p THEN 0 ELSE Count(rest, {Observer(x, to)})
  BY <1>4, LeftIs
<1> HIDE DEF list, robbed, r
<1>6. /\ r \in Events /\ r.nodes = e.nodes /\ r.on = e.on /\ r.hurt = e.hurt
      /\ r.observers = list /\ r.given = e.given \ {p} /\ r.robbed = robbed
  BY <1>1, <1>3, <1>5 DEF Events
<1>7. \A G : Count(s, G) \in Nat
  BY <1>2, CountType
<1>8. ASSUME NEW G
      PROVE  Count(rest, G) \in Nat /\ Count(rest, G) <= Count(s, G)
  <2>1. Count(rest, G) \in Nat /\ Count(s, G) \in Nat
    BY <1>4, <1>7, CountType
  <2> HIDE DEF others
  <2>2. CASE others = {}
    BY <1>4, <2>1, <2>2
  <2>3. CASE others # {}
    <3>1. Count(rest, G) = Count(s, G) - (IF s[Min(others)] \in G THEN 1 ELSE 0)
      BY <1>4, <2>3
    <3>2. QED
      BY <2>1, <3>1
  <2>4. QED
    BY <2>2, <2>3
<1>9. F(r) <= F(e)
  <2>1. F(e) = Count(s, InError)
    BY DEF F, s
  <2>2. F(r) = Count(list, InError)
    BY <1>6 DEF F
  <2>3. QED
    BY <1>5, <1>8, <2>1, <2>2
<1>10. T(r, p) = 0 /\ L(r, p) = 0
  BY <1>0, <1>5, <1>6 DEF T, L
\* Where one of p's own is not the one that goes, another is robbed.
<1>11. ASSUME NEW x \in Paths \ {p}
       PROVE  Weaker(e, r, x)
  <2>1. /\ T(r, x) = Count(rest, {Observer(x, "trigger")})
        /\ L(r, x) = Count(rest, {Observer(x, "listener")})
    BY <1>0, <1>5, <1>6 DEF T, L
  <2>2. T(r, x) <= T(e, x) /\ L(r, x) <= L(e, x) /\ T(r, x) \in Nat
    <3>1. /\ T(e, x) = Count(s, {Observer(x, "trigger")})
          /\ L(e, x) = Count(s, {Observer(x, "listener")})
      BY DEF T, L, s
    <3>2. QED
      BY <1>8, <2>1, <3>1
  <2>3. x \in e.robbed => x \in r.robbed
    BY <1>6 DEF robbed
  <2>4. ASSUME T(r, x) < T(e, x)
        PROVE  x \in r.robbed
    <3>1. Count(rest, {Observer(x, "trigger")}) # Count(s, {Observer(x, "trigger")})
      <4>1. T(e, x) = Count(s, {Observer(x, "trigger")})
        BY DEF T, s
      <4>2. QED
        BY <1>7, <2>1, <2>2, <2>4, <4>1
    <3>2. others # {} /\ s[Min(others)] = Observer(x, "trigger")
      <4>1. others # {}
        BY <1>4, <3>1
      <4>2. s[Min(others)] \in {Observer(x, "trigger")}
        BY <1>4, <1>7, <3>1, <4>1
      <4>3. QED
        BY <4>1, <4>2
    <3>3. Min(others) \in deleted /\ s[Min(others)].path = x
      BY <1>0, <1>4, <3>2, ObserverIs
    <3>4. QED
      BY <1>6, <3>3 DEF robbed
  <2>5. T(e, x) > 0 => T(r, x) > 0 \/ x \in r.robbed
    BY <2>2, <2>4, EventFields
  <2>6. QED
    BY <2>2, <2>3, <2>5 DEF Weaker
<1>12. QED
  BY <1>6, <1>9, <1>10, <1>11 DEF CancelledOne, r
-----------------------------------------------------------------------------
(* Commands in turn.                                                         *)

\* f is what becomes of s, by a step for each of the list that is in P.
Turns(f, s, P, V, step) ==
  /\ f[0] = s
  /\ \A n \in 1 .. N : f[n - 1] \in V =>
       f[n] = IF Order[n] \in P THEN step[n][f[n - 1]] ELSE f[n - 1]

LEMMA TurnsThere ==
  ASSUME NEW V, NEW s \in V, NEW P, NEW step \in Steppers(V)
  PROVE  \E f \in [0 .. N -> V] : Turns(f, s, P, V, step)
<1> DEFINE once(n) == [c \in V |-> IF Order[n] \in P THEN step[n][c] ELSE c]
           one == [n \in Nat |-> once(n + 1)]
<1>1. N \in Nat
  BY Listed
<1>2. one \in Steppers(V)
  <2>1. ASSUME NEW n \in Nat
        PROVE  once(n + 1) \in [V -> V]
    BY DEF Steppers
  <2> HIDE DEF once
  <2>2. QED
    BY <2>1 DEF Steppers
<1>3. PICK f \in [Nat -> V] : f[0] = s /\ \A n \in Nat : f[n + 1] = one[n][f[n]]
  <2> HIDE DEF one
  <2>1. \E f \in [Nat -> V] : Repeats(f, s, one)
    BY <1>2, NatRecursion
  <2>2. QED
    BY <2>1 DEF Repeats
<1> DEFINE g == [n \in 0 .. N |-> f[n]]
<1>4. g \in [0 .. N -> V] /\ g[0] = s
  BY <1>1, <1>3
<1>5. ASSUME NEW n \in 1 .. N
      PROVE  g[n] = IF Order[n] \in P THEN step[n][g[n - 1]] ELSE g[n - 1]
  <2>1. n - 1 \in Nat /\ (n - 1) + 1 = n /\ n - 1 \in 0 .. N /\ n \in 0 .. N
    BY <1>1
  <2>2. f[(n - 1) + 1] = one[n - 1][f[n - 1]] /\ f[n - 1] \in V
    BY <1>3, <2>1
  <2>3. one[n - 1] = once(n)
    BY <2>1
  <2>4. once(n)[f[n - 1]] = IF Order[n] \in P THEN step[n][f[n - 1]] ELSE f[n - 1]
    BY <2>2
  <2>5. g[n] = f[n] /\ g[n - 1] = f[n - 1]
    BY <2>1
  <2> HIDE DEF g, one, once
  <2>6. QED
    BY <2>1, <2>2, <2>3, <2>4, <2>5
<1> HIDE DEF g
<1>6. QED
  BY <1>4, <1>5 DEF Turns

\* What holds of s before the first, and after each step if before it, holds at the
\* end.  R has the values with those of P whose turn it was.
LEMMA TurnsReach ==
  ASSUME NEW V, NEW s \in V, NEW P \in SUBSET Paths, NEW step \in Steppers(V),
         NEW f, Turns(f, s, P, V, step),
         NEW R, R \subseteq V \X SUBSET P, <<s, {}>> \in R,
         \A n \in 1 .. N, v \in V, K \in SUBSET P :
           <<v, K>> \in R /\ Order[n] \in P \ K /\ (\A k \in K : ~Within(k, Order[n]))
             => <<step[n][v], K \cup {Order[n]}>> \in R
  PROVE  <<f[N], P>> \in R
<1> DEFINE D(n) == {q \in P : \E i \in 1 .. n : q = Order[i]}
           S == {n \in Nat : n <= N => <<f[n], D(n)>> \in R}
<1>1. /\ N \in Nat /\ \A i \in 1 .. N : Order[i] \in Paths
      /\ \A q \in Paths : \E i \in 1 .. N : q = Order[i]
      /\ \A i, j \in 1 .. N : Before(Order[i], Order[j]) <=> i < j
      /\ Paths \subseteq Strings
  BY Listed
<1>2. /\ f[0] = s
      /\ \A n \in 1 .. N : f[n - 1] \in V =>
           f[n] = IF Order[n] \in P THEN step[n][f[n - 1]] ELSE f[n - 1]
  BY DEF Turns
<1>3. 0 \in S
  <2>1. D(0) = {}
    OBVIOUS
  <2> HIDE DEF D
  <2>2. QED
    BY <1>2, <2>1
<1>4. ASSUME NEW n \in S
      PROVE  n + 1 \in S
  <2>1. SUFFICES ASSUME n + 1 <= N
                 PROVE  <<f[n + 1], D(n + 1)>> \in R
    OBVIOUS
  <2>2. n \in Nat /\ n + 1 \in 1 .. N /\ (n + 1) - 1 = n /\ <<f[n], D(n)>> \in R
    BY <1>1, <2>1
  <2> DEFINE q == Order[n + 1]
  <2>3. q \in Paths /\ f[n] \in V /\ f[n + 1] = IF q \in P THEN step[n + 1][f[n]] ELSE f[n]
    <3> HIDE DEF D
    <3>1. f[n] \in V
      BY <2>2
    <3>2. QED
      BY <1>1, <1>2, <2>2, <3>1
  <2>4. CASE q \notin P
    <3>1. D(n + 1) = D(n)
      BY <2>2, <2>4
    <3> HIDE DEF D
    <3>2. QED
      BY <2>2, <2>3, <2>4, <3>1
  <2>5. CASE q \in P
    <3>1. D(n + 1) = D(n) \cup {q} /\ D(n) \in SUBSET P
      BY <2>2, <2>5
    <3>2. ASSUME NEW d \in D(n)
          PROVE  ~Within(d, q) /\ d # q
      <4>1. PICK i \in 1 .. n : d = Order[i]
        OBVIOUS
      <4>2. i \in 1 .. N /\ i < n + 1
        BY <1>1, <2>2
      <4>3. Before(d, q) /\ d \in Strings /\ q \in Strings
        BY <1>1, <2>2, <4>1, <4>2
      <4>4. QED
        BY <4>3, BeforeOnce, WithinSelf
    <3> HIDE DEF D, S
    <3>3. f[n] \in V /\ q \in P \ D(n)
      BY <2>3, <2>5, <3>2
    <3>4. <<step[n + 1][f[n]], D(n) \cup {q}>> \in R
      BY <2>2, <3>1, <3>2, <3>3
    <3>5. QED
      BY <2>3, <2>5, <3>1, <3>4
  <2>6. QED
    BY <2>4, <2>5
<1>5. S = Nat
  <2>1. S \subseteq Nat
    OBVIOUS
  <2> HIDE DEF S
  <2>2. QED
    BY <1>3, <1>4, <2>1, NatSetInduction
<1>6. D(N) = P
  BY <1>1
<1>7. N \in S
  BY <1>1, <1>5
<1> HIDE DEF D
<1>8. QED
  BY <1>1, <1>6, <1>7

\* Of e becomes r when of the paths P those in K are asked for,
AskedFor(e, r, P, to, K) ==
  /\ r \in Events /\ r.nodes = e.nodes /\ r.on = e.on /\ r.hurt = e.hurt \cup (P \ K)
  /\ \A x \in Paths :
       /\ T(r, x) = IF to = "trigger" /\ x \in K THEN T(e, x) + 1 ELSE T(e, x)
       /\ L(r, x) = IF to = "listener" /\ x \in K THEN L(e, x) + 1 ELSE L(e, x)
  /\ F(r) = F(e)
  /\ r.given = IF to = "listener" THEN e.given \cup K ELSE e.given \ K
  /\ r.robbed = e.robbed \ K

\* or cancelled.
Cancelled(e, r, P, K) ==
  /\ r \in Events /\ r.nodes = e.nodes /\ r.on = e.on /\ r.hurt = e.hurt \cup (P \ K)
  /\ \A x \in Paths : IF x \in K THEN T(r, x) = 0 /\ L(r, x) = 0 ELSE Weaker(e, r, x)
  /\ F(r) <= F(e)
  /\ r.given = e.given \ K

IsAsked(g, e, P, to) ==
  g = [n \in 0 .. Len(Order) |->
         IF n = 0 THEN e
         ELSE IF Order[n] \in P THEN AddObserver(g[n - 1], Order[n], to) ELSE g[n - 1]]

LEMMA AsksIs ==
  ASSUME NEW e \in Events, NEW P \in SUBSET Paths, NEW n, NEW to \in Targets
  PROVE  \E K \in SUBSET P : AskedFor(e, Asks(e, P, to, n), P, to, K)
<1> DEFINE K == FirstOf(P, n)
           Ask(c, p) == AddObserver(c, p, to)
           step == [i \in Nat |-> [c \in Events |->
                      IF i \in 1 .. N THEN AddObserver(c, Order[i], to) ELSE c]]
           g == CHOOSE g : IsAsked(g, e, K, to)
           a == InTurn(e, K, Ask)
           R == {r \in Events \X SUBSET K : AskedFor(e, r[1], r[2], to, r[2])}
<1>1. K \in SUBSET Paths /\ K \in SUBSET P
  BY DEF FirstOf
<1>2. N \in Nat /\ \A i \in 1 .. N : Order[i] \in Paths
  BY Listed
<1>3. a = g[N]
  BY DEF InTurn, IsAsked, N
<1>4. Asks(e, P, to, n) = [a EXCEPT !.hurt = @ \cup (P \ K)]
  BY DEF Asks
<1> HIDE DEF a, K
<1>5. ASSUME NEW i \in 1 .. N, NEW c \in Events
      PROVE  step[i][c] = AddObserver(c, Order[i], to) /\ AskedOne(c, step[i][c], Order[i], to)
  BY <1>2, AskOne
<1>6. step \in Steppers(Events)
  <2>1. ASSUME NEW i \in Nat, NEW c \in Events
        PROVE  (IF i \in 1 .. N THEN AddObserver(c, Order[i], to) ELSE c) \in Events
    BY <1>2, AskOne DEF AskedOne
  <2>2. QED
    BY <2>1 DEF Steppers
<1> HIDE DEF step
<1>7. IsAsked(g, e, K, to)
  <2>1. PICK f \in [0 .. N -> Events] : Turns(f, e, K, Events, step)
    BY <1>6, TurnsThere
  <2>2. ASSUME NEW i \in 0 .. N
        PROVE  f[i] = IF i = 0 THEN e
                      ELSE IF Order[i] \in K THEN AddObserver(f[i - 1], Order[i], to) ELSE f[i - 1]
    <3>1. CASE i = 0
      BY <2>1, <3>1 DEF Turns
    <3>2. CASE i # 0
      <4>1. i \in 1 .. N /\ i - 1 \in 0 .. N
        BY <1>2, <3>2
      <4>2. f[i] = IF Order[i] \in K THEN step[i][f[i - 1]] ELSE f[i - 1]
        BY <2>1, <4>1 DEF Turns
      <4>3. QED
        BY <1>5, <2>1, <3>2, <4>1, <4>2
    <3>3. QED
      BY <3>1, <3>2
  <2>3. f = [i \in 0 .. N |-> f[i]]
    OBVIOUS
  <2>4. IsAsked(f, e, K, to)
    BY <2>2, <2>3 DEF IsAsked, N
  <2>5. QED
    BY <2>4
<1> HIDE DEF g
<1>8. Turns(g, e, K, Events, step)
  <2>1. g[0] = e
    BY <1>2, <1>7 DEF IsAsked, N
  <2>2. ASSUME NEW i \in 1 .. N, g[i - 1] \in Events
        PROVE  g[i] = IF Order[i] \in K THEN step[i][g[i - 1]] ELSE g[i - 1]
    <3>1. i \in 0 .. N /\ i # 0
      BY <1>2
    <3>2. g[i] = IF Order[i] \in K THEN AddObserver(g[i - 1], Order[i], to) ELSE g[i - 1]
      BY <1>7, <3>1 DEF IsAsked, N
    <3>3. QED
      BY <1>5, <2>2, <3>2
  <2>3. QED
    BY <2>1, <2>2 DEF Turns
<1>9. <<e, {}>> \in R
  BY DEF AskedFor
<1>10. ASSUME NEW i \in 1 .. N, NEW c \in Events, NEW J \in SUBSET K,
              <<c, J>> \in R, Order[i] \in K \ J
       PROVE  <<step[i][c], J \cup {Order[i]}>> \in R
  <2> DEFINE p == Order[i]
             r == step[i][c]
             I == J \cup {p}
  <2>1. AskedFor(e, c, J, to, J) /\ AskedOne(c, r, p, to) /\ p \in Paths /\ p \notin J
    BY <1>2, <1>5, <1>10
  <2> HIDE DEF p, r
  <2>2. ASSUME NEW x \in Paths
        PROVE  /\ T(r, x) = IF to = "trigger" /\ x \in I THEN T(e, x) + 1 ELSE T(e, x)
               /\ L(r, x) = IF to = "listener" /\ x \in I THEN L(e, x) + 1 ELSE L(e, x)
    BY <2>1, <2>2 DEF AskedFor, AskedOne
  <2>3. /\ r \in Events /\ r.nodes = e.nodes /\ r.on = e.on /\ r.hurt = e.hurt \cup (I \ I)
        /\ F(r) = F(e)
        /\ r.given = IF to = "listener" THEN e.given \cup I ELSE e.given \ I
        /\ r.robbed = e.robbed \ I
    BY <2>1 DEF AskedFor, AskedOne
  <2>4. AskedFor(e, r, I, to, I)
    BY <2>2, <2>3 DEF AskedFor
  <2>5. I \in SUBSET K
    BY <1>10 DEF p
  <2>6. QED
    BY <2>3, <2>4, <2>5 DEF p, r
<1>11. <<g[N], K>> \in R
  <2> HIDE DEF R
  <2>1. R \subseteq Events \X SUBSET K
    BY DEF R
  <2>2. QED
    BY <1>1, <1>6, <1>8, <1>9, <1>10, <2>1, TurnsReach
<1>12. a \in Events /\ AskedFor(e, a, K, to, K)
  BY <1>3, <1>11
<1> DEFINE r == Asks(e, P, to, n)
           hurt == e.hurt \cup (P \ K)
<1>13. r = [a EXCEPT !.hurt = hurt] /\ hurt \in SUBSET Paths
  BY <1>1, <1>4, <1>12, EventFields DEF AskedFor
<1> HIDE DEF r, hurt
<1>14. /\ r \in Events /\ r.nodes = a.nodes /\ r.on = a.on /\ r.observers = a.observers
       /\ r.given = a.given /\ r.robbed = a.robbed /\ r.hurt = hurt
  BY <1>12, <1>13 DEF Events
<1>15. AskedFor(e, r, P, to, K)
  BY <1>12, <1>14 DEF AskedFor, T, L, F, hurt
<1>16. QED
  BY <1>1, <1>15 DEF r

IsCancelled(g, e, P) ==
  g = [n \in 0 .. Len(Order) |->
         IF n = 0 THEN e
         ELSE IF Order[n] \in P THEN RemoveObserver(g[n - 1], Order[n]) ELSE g[n - 1]]

LEMMA CancelsIs ==
  ASSUME NEW e \in Events, NEW P \in SUBSET Paths, NEW n
  PROVE  \E K \in SUBSET P : Cancelled(e, Cancels(e, P, n), P, K)
<1> DEFINE K == FirstOf(P, n)
           step == [i \in Nat |-> [c \in Events |->
                      IF i \in 1 .. N THEN RemoveObserver(c, Order[i]) ELSE c]]
           g == CHOOSE g : IsCancelled(g, e, K)
           a == InTurn(e, K, RemoveObserver)
           R == {r \in Events \X SUBSET K : Cancelled(e, r[1], r[2], r[2])}
<1>1. K \in SUBSET Paths /\ K \in SUBSET P
  BY DEF FirstOf
<1>2. N \in Nat /\ \A i \in 1 .. N : Order[i] \in Paths
  BY Listed
<1>3. a = g[N]
  BY DEF InTurn, IsCancelled, N
<1>4. Cancels(e, P, n) = [a EXCEPT !.hurt = @ \cup (P \ K)]
  BY DEF Cancels
<1> HIDE DEF a, K
<1>5. ASSUME NEW i \in 1 .. N, NEW c \in Events
      PROVE  step[i][c] = RemoveObserver(c, Order[i]) /\ CancelledOne(c, step[i][c], Order[i])
  BY <1>2, CancelOne
<1>6. step \in Steppers(Events)
  <2>1. ASSUME NEW i \in Nat, NEW c \in Events
        PROVE  (IF i \in 1 .. N THEN RemoveObserver(c, Order[i]) ELSE c) \in Events
    BY <1>2, CancelOne DEF CancelledOne
  <2>2. QED
    BY <2>1 DEF Steppers
<1> HIDE DEF step
<1>7. IsCancelled(g, e, K)
  <2>1. PICK f \in [0 .. N -> Events] : Turns(f, e, K, Events, step)
    BY <1>6, TurnsThere
  <2>2. ASSUME NEW i \in 0 .. N
        PROVE  f[i] = IF i = 0 THEN e
                      ELSE IF Order[i] \in K THEN RemoveObserver(f[i - 1], Order[i]) ELSE f[i - 1]
    <3>1. CASE i = 0
      BY <2>1, <3>1 DEF Turns
    <3>2. CASE i # 0
      <4>1. i \in 1 .. N /\ i - 1 \in 0 .. N
        BY <1>2, <3>2
      <4>2. f[i] = IF Order[i] \in K THEN step[i][f[i - 1]] ELSE f[i - 1]
        BY <2>1, <4>1 DEF Turns
      <4>3. QED
        BY <1>5, <2>1, <3>2, <4>1, <4>2
    <3>3. QED
      BY <3>1, <3>2
  <2>3. f = [i \in 0 .. N |-> f[i]]
    OBVIOUS
  <2>4. IsCancelled(f, e, K)
    BY <2>2, <2>3 DEF IsCancelled, N
  <2>5. QED
    BY <2>4
<1> HIDE DEF g
<1>8. Turns(g, e, K, Events, step)
  <2>1. g[0] = e
    BY <1>2, <1>7 DEF IsCancelled, N
  <2>2. ASSUME NEW i \in 1 .. N, g[i - 1] \in Events
        PROVE  g[i] = IF Order[i] \in K THEN step[i][g[i - 1]] ELSE g[i - 1]
    <3>1. i \in 0 .. N /\ i # 0
      BY <1>2
    <3>2. g[i] = IF Order[i] \in K THEN RemoveObserver(g[i - 1], Order[i]) ELSE g[i - 1]
      BY <1>7, <3>1 DEF IsCancelled, N
    <3>3. QED
      BY <1>5, <2>2, <3>2
  <2>3. QED
    BY <2>1, <2>2 DEF Turns
<1>9. <<e, {}>> \in R
  BY EventFields DEF Cancelled, Weaker
<1>10. ASSUME NEW i \in 1 .. N, NEW c \in Events, NEW J \in SUBSET K,
              <<c, J>> \in R, Order[i] \in K \ J
       PROVE  <<step[i][c], J \cup {Order[i]}>> \in R
  <2> DEFINE p == Order[i]
             r == step[i][c]
             I == J \cup {p}
  <2>1. Cancelled(e, c, J, J) /\ CancelledOne(c, r, p) /\ p \in Paths /\ p \notin J
    BY <1>2, <1>5, <1>10
  <2> HIDE DEF p, r
  <2>2. /\ r \in Events /\ r.nodes = e.nodes /\ r.on = e.on /\ r.hurt = e.hurt \cup (I \ I)
        /\ F(r) \in Nat /\ F(c) \in Nat /\ F(e) \in Nat
        /\ F(r) <= F(c) /\ F(c) <= F(e)
        /\ r.given = e.given \ I
    BY <2>1, EventFields DEF Cancelled, CancelledOne
  <2>3. ASSUME NEW x \in I
        PROVE  T(r, x) = 0 /\ L(r, x) = 0
    <3>1. CASE x = p
      BY <2>1, <3>1 DEF CancelledOne
    <3>2. CASE x # p
      <4>1. x \in J /\ x \in Paths
        BY <1>1, <3>2
      <4>2. T(c, x) = 0 /\ L(c, x) = 0
        BY <2>1, <4>1 DEF Cancelled
      <4>3. T(r, x) <= T(c, x) /\ L(r, x) <= L(c, x)
        BY <2>1, <3>2, <4>1 DEF CancelledOne, Weaker
      <4>4. T(r, x) \in Nat /\ L(r, x) \in Nat
        BY <2>2, <4>1, EventFields
      <4>5. QED
        BY <4>2, <4>3, <4>4
    <3>3. QED
      BY <3>1, <3>2
  <2>4. ASSUME NEW x \in Paths \ I
        PROVE  Weaker(e, r, x)
    <3>1. Weaker(e, c, x) /\ Weaker(c, r, x)
      BY <2>1 DEF Cancelled, CancelledOne
    <3>2. /\ T(e, x) \in Nat /\ T(c, x) \in Nat /\ T(r, x) \in Nat
          /\ L(e, x) \in Nat /\ L(c, x) \in Nat /\ L(r, x) \in Nat
      BY <2>2, EventFields
    <3>3. QED
      BY <3>1, <3>2 DEF Weaker
  <2>5. Cancelled(e, r, I, I)
    BY <2>2, <2>3, <2>4 DEF Cancelled
  <2>6. I \in SUBSET K
    BY <1>10 DEF p
  <2>7. QED
    BY <2>2, <2>5, <2>6 DEF p, r
<1>11. <<g[N], K>> \in R
  <2> HIDE DEF R
  <2>1. R \subseteq Events \X SUBSET K
    BY DEF R
  <2>2. QED
    BY <1>1, <1>6, <1>8, <1>9, <1>10, <2>1, TurnsReach
<1>12. a \in Events /\ Cancelled(e, a, K, K)
  BY <1>3, <1>11
<1> DEFINE r == Cancels(e, P, n)
           hurt == e.hurt \cup (P \ K)
<1>13. r = [a EXCEPT !.hurt = hurt] /\ hurt \in SUBSET Paths
  BY <1>1, <1>4, <1>12, EventFields DEF Cancelled
<1> HIDE DEF r, hurt
<1>14. /\ r \in Events /\ r.nodes = a.nodes /\ r.on = a.on /\ r.observers = a.observers
       /\ r.given = a.given /\ r.robbed = a.robbed /\ r.hurt = hurt
  BY <1>12, <1>13 DEF Events
<1>15. Cancelled(e, r, P, K)
  BY <1>12, <1>14 DEF Cancelled, T, L, F, hurt, Weaker
<1>16. QED
  BY <1>1, <1>15 DEF r

\* e becomes r when a listener on p is added that nobody carries: of p and of those
\* below it, the commands for K are taken.
Added(e, r, p, K) ==
  /\ r \in Events /\ r.nodes = e.nodes \cup {p} /\ r.on = (e.on \ Under(e, p)) \cup {p}
  /\ K \subseteq {p} \cup Under(e, p)
  /\ T(r, p) <= (IF p \in K THEN T(e, p) + 1 ELSE T(e, p)) /\ L(r, p) <= L(e, p)
  /\ p \in K => T(r, p) > 0 \/ p \in r.robbed
  /\ \A x \in Paths \ {p} : IF x \in K THEN T(r, x) = 0 /\ L(r, x) = 0 ELSE Weaker(e, r, x)
  /\ F(r) <= F(e)
  /\ r.given = e.given \ K
  /\ r.hurt = e.hurt \cup (({p} \cup Under(e, p)) \ K)

LEMMA AddIs ==
  ASSUME NEW e \in Events, NEW p \in Paths, NEW dying, NEW room,
         ~NothingToSend(e, p, dying)
  PROVE  \E K : Added(e, Add(e, p, dying, room), p, K)
<1> DEFINE U == Under(e, p)
           ea == Asks(e, {p}, "trigger", room)
           r == Add(e, p, dying, room)
           nodes == e.nodes \cup {p}
           on == (e.on \ U) \cup {p}
<1>1. PICK I \in SUBSET {p} : AskedFor(e, ea, {p}, "trigger", I)
  BY AsksIs DEF Targets
<1> HIDE DEF ea
<1>2. ea \in Events /\ U \in SUBSET Paths /\ p \notin U
  BY <1>1, EventFields, BelowIs DEF AskedFor, Under
<1> DEFINE c == Cancels(ea, U, room - 1)
<1>3. r = [c EXCEPT !.nodes = @ \cup {p}, !.on = (@ \ U) \cup {p}]
  BY DEF Add, ea
<1> HIDE DEF U, r
<1>4. PICK J \in SUBSET U : Cancelled(ea, c, U, J)
  BY <1>2, CancelsIs
<1> HIDE DEF c
<1> DEFINE K == I \cup J
<1>5. c \in Events /\ c.nodes = e.nodes /\ c.on = e.on
  BY <1>1, <1>4 DEF AskedFor, Cancelled
<1>6. nodes \in SUBSET Paths /\ on \in SUBSET Paths
  BY <1>2, EventFields
<1>7. r = [c EXCEPT !.nodes = nodes, !.on = on]
  BY <1>3, <1>5
<1> HIDE DEF nodes, on
<1>8. /\ r \in Events /\ r.nodes = nodes /\ r.on = on /\ r.hurt = c.hurt
      /\ r.observers = c.observers /\ r.given = c.given /\ r.robbed = c.robbed
  BY <1>5, <1>6, <1>7 DEF Events
<1>9. /\ \A x \in Paths : /\ T(ea, x) = IF x \in I THEN T(e, x) + 1 ELSE T(e, x)
                          /\ L(ea, x) = L(e, x)
      /\ F(ea) = F(e) /\ ea.given = e.given \ I /\ ea.robbed = e.robbed \ I
      /\ ea.hurt = e.hurt \cup ({p} \ I)
  BY <1>1 DEF AskedFor
<1>10. /\ \A x \in Paths : IF x \in J THEN T(r, x) = 0 /\ L(r, x) = 0 ELSE Weaker(ea, r, x)
       /\ F(r) <= F(ea) /\ r.given = ea.given \ J /\ r.hurt = ea.hurt \cup (U \ J)
  BY <1>4, <1>8 DEF Cancelled, Weaker, T, L, F
<1>11. r.hurt = e.hurt \cup (({p} \cup U) \ K)
  BY <1>2, <1>9, <1>10
<1>12. /\ p \in K <=> p \in I
       /\ p \notin J /\ I \subseteq {p} /\ K \subseteq {p} \cup U
       /\ \A x \in Paths \ {p} : x \notin I /\ (x \in K <=> x \in J)
  BY <1>2
<1>13. \A x \in Paths : T(e, x) \in Nat /\ L(e, x) \in Nat /\ T(r, x) \in Nat /\ L(r, x) \in Nat
  BY <1>8, EventFields
<1>14. r.given = e.given \ K
  BY <1>9, <1>10
<1> HIDE DEF K
<1>15. /\ T(r, p) <= (IF p \in K THEN T(e, p) + 1 ELSE T(e, p)) /\ L(r, p) <= L(e, p)
       /\ p \in K => T(r, p) > 0 \/ p \in r.robbed
  BY <1>9, <1>10, <1>12, <1>13 DEF Weaker
<1>16. ASSUME NEW x \in Paths \ {p}
       PROVE  IF x \in K THEN T(r, x) = 0 /\ L(r, x) = 0 ELSE Weaker(e, r, x)
  BY <1>9, <1>10, <1>12, <1>13 DEF Weaker
<1>17. Added(e, r, p, K)
  BY <1>8, <1>9, <1>10, <1>11, <1>12, <1>14, <1>15, <1>16 DEF Added, nodes, on, U
<1>18. QED
  BY <1>17 DEF r

\* Otherwise only the lists of paths change.
Kept(e, r, p, dying) ==
  /\ r \in Events
  /\ r.nodes = e.nodes \cup {p} /\ r.on = e.on \ (dying \cap {p})
  /\ r.observers = e.observers /\ r.given = e.given /\ r.robbed = e.robbed /\ r.hurt = e.hurt

LEMMA AddKeptIs ==
  ASSUME NEW e \in Events, NEW p \in Paths, NEW dying, NEW room,
         NothingToSend(e, p, dying)
  PROVE  Kept(e, Add(e, p, dying, room), p, dying)
<1> DEFINE nodes == e.nodes \cup {p}
           on == e.on \ (dying \cap {p})
           r == Add(e, p, dying, room)
<1>1. r = [e EXCEPT !.nodes = nodes, !.on = on]
  BY DEF Add
<1>2. nodes \in SUBSET Paths /\ on \in SUBSET Paths
  BY EventFields
<1> HIDE DEF nodes, on, r
<1>3. /\ r \in Events /\ r.nodes = nodes /\ r.on = on /\ r.observers = e.observers
      /\ r.given = e.given /\ r.robbed = e.robbed /\ r.hurt = e.hurt
  BY <1>1, <1>2 DEF Events
<1>4. QED
  BY <1>3 DEF Kept, nodes, on, r
-----------------------------------------------------------------------------
(* The invariant, of a value e of the list.                                  *)

Rooted(e) == e.on \subseteq e.nodes

Covers(e) == \A q \in e.nodes : \E p \in e.on : Within(q, p)

Once(e) ==
  \A p \in Paths : Spared(e, p) => T(e, p) + L(e, p) <= (IF p \in e.on THEN 1 ELSE 0)

\* Observers are nested only where listeners were handed over: neither the outer one
\* of two answers to the trigger,
Outer(e) == \A p, q \in e.on : Below(q, p) /\ Spared(e, p) => T(e, p) = 0

\* nor the inner one.
Inner(e) == \A p, q \in e.on : Below(q, p) /\ Spared(e, q) => T(e, q) = 0

\* An observer that was not handed over is there, or was deleted for another.
Stands(e) ==
  \A p \in e.on : Spared(e, p) => T(e, p) > 0 \/ p \in e.given \/ p \in e.robbed

Right(e) == e \in Events /\ Rooted(e) /\ Covers(e) /\ Once(e) /\ Outer(e) /\ Inner(e) /\ Stands(e)

\* Between the calls no observer is failing.
IInv == Right(event) /\ F(event) = 0

LEMMA Chars ==
  ASSUME NEW p \in Paths
  PROVE  p \in Strings /\ Within(p, p) /\ ~Below(p, p)
BY Listed, WithinSelf, BelowIs

LEMMA Deeper ==
  ASSUME NEW p \in Paths, NEW q \in Paths, NEW r \in Paths
  PROVE  /\ Within(r, q) /\ Within(q, p) => Within(r, p)
         /\ Below(r, q) /\ Within(q, p) => Below(r, p)
         /\ Within(r, q) /\ Below(q, p) => Below(r, p)
         /\ Within(r, p) /\ Within(r, q) => Within(p, q) \/ Within(q, p)
         /\ Below(p, q) => ~Within(q, p)
<1>1. p \in Strings /\ q \in Strings /\ r \in Strings
  BY Chars
<1>2. /\ Within(r, q) /\ Within(q, p) => Within(r, p)
      /\ Within(r, p) /\ Within(r, q) => Within(p, q) \/ Within(q, p)
      /\ Within(p, q) /\ Within(q, p) => p = q
      /\ Within(r, q) /\ Within(q, r) => r = q
  BY <1>1, WithinTwice, WithinChain, WithinBoth
<1>3. QED
  BY <1>2, BelowIs

LEMMA SparedBefore ==
  ASSUME NEW e, NEW r, NEW p, e.hurt \subseteq r.hurt, Spared(r, p)
  PROVE  Spared(e, p)
BY DEF Spared

\* Nothing is lost above what is spared.
LEMMA SparedAbove ==
  ASSUME NEW e \in Events, NEW p \in Paths, NEW q \in Paths, Within(q, p), Spared(e, q)
  PROVE  Spared(e, p)
BY Deeper, EventFields DEF Spared
-----------------------------------------------------------------------------
(* Listening.                                                                *)

LEMMA AddRight ==
  ASSUME NEW e, Right(e), NEW p \in Paths, NEW room
  PROVE  Right(Add(e, p, {}, room)) /\ F(Add(e, p, {}, room)) <= F(e)
<1> DEFINE r == Add(e, p, {}, room)
<1>1. e \in Events /\ e.nodes \subseteq Paths /\ e.on \subseteq Paths
      /\ F(e) \in Nat /\ \A x \in Paths : T(e, x) \in Nat /\ L(e, x) \in Nat
  BY EventFields DEF Right
<1>2. Rooted(e) /\ Covers(e) /\ Once(e) /\ Outer(e) /\ Inner(e) /\ Stands(e)
  BY DEF Right
<1>3. CASE NothingToSend(e, p, {})
  <2>1. /\ r \in Events /\ r.nodes = e.nodes \cup {p} /\ r.on = e.on
        /\ r.observers = e.observers /\ r.given = e.given /\ r.robbed = e.robbed
        /\ r.hurt = e.hurt
    <3>1. Kept(e, r, p, {})
      BY <1>1, <1>3, AddKeptIs, Zenon
    <3>2. QED
      BY <3>1 DEF Kept
  <2> HIDE DEF r
  <2>2. Covers(r)
    <3>1. p \in e.nodes \/ \E q \in e.on : Within(p, q)
      BY <1>3, BelowIs DEF NothingToSend, Carried
    <3>2. QED
      BY <1>2, <2>1, <3>1 DEF Covers
  <2>3. /\ \A x : T(r, x) = T(e, x) /\ L(r, x) = L(e, x) /\ (Spared(r, x) <=> Spared(e, x))
        /\ F(r) = F(e)
    BY <2>1 DEF Spared, T, L, F
  <2>4. Rooted(r) /\ Once(r) /\ Outer(r) /\ Inner(r) /\ Stands(r)
    BY <1>2, <2>1, <2>3 DEF Rooted, Once, Outer, Inner, Stands
  <2>5. QED
    BY <1>1, <2>1, <2>2, <2>3, <2>4 DEF Right, r
<1>4. CASE ~NothingToSend(e, p, {})
  <2>1. PICK K : Added(e, r, p, K)
    BY <1>1, <1>4, AddIs
  <2> HIDE DEF r
  <2>2. p \notin e.nodes /\ p \notin e.on /\ \A q \in e.on : ~Below(p, q)
    BY <1>2, <1>4 DEF NothingToSend, Carried, Rooted
  <2>3. /\ r \in Events /\ r.nodes = e.nodes \cup {p} /\ r.on = (e.on \ Under(e, p)) \cup {p}
        /\ K \subseteq {p} \cup Under(e, p)
        /\ T(r, p) <= (IF p \in K THEN T(e, p) + 1 ELSE T(e, p)) /\ L(r, p) <= L(e, p)
        /\ p \in K => T(r, p) > 0 \/ p \in r.robbed
        /\ \A x \in Paths \ {p} : IF x \in K THEN T(r, x) = 0 /\ L(r, x) = 0
                                  ELSE Weaker(e, r, x)
        /\ F(r) <= F(e)
        /\ r.given = e.given \ K
        /\ r.hurt = e.hurt \cup (({p} \cup Under(e, p)) \ K)
    BY <2>1 DEF Added
  <2>4. \A x \in Paths : Spared(r, x) => Spared(e, x) /\ x \notin ({p} \cup Under(e, p)) \ K
    BY <2>3, Chars DEF Spared
  <2>5. Rooted(r)
    BY <1>2, <2>3 DEF Rooted
  <2>6. Covers(r)
    <3>1. SUFFICES ASSUME NEW x \in r.nodes
                   PROVE  \E s \in r.on : Within(x, s)
      BY DEF Covers
    <3>2. CASE x = p
      BY <2>3, <3>2, Chars
    <3>3. CASE x \in e.nodes
      <4>1. PICK s \in e.on : Within(x, s)
        BY <1>2, <3>3 DEF Covers
      <4>2. CASE s \in Under(e, p)
        <5>1. Within(s, p)
          BY <4>2, BelowIs DEF Under
        <5>2. Within(x, p)
          BY <1>1, <3>3, <4>1, <5>1, Deeper
        <5>3. QED
          BY <2>3, <5>2
      <4>3. CASE s \notin Under(e, p)
        BY <2>3, <4>1, <4>3
      <4>4. QED
        BY <4>2, <4>3
    <3>4. QED
      BY <2>3, <3>1, <3>2, <3>3
  <2>7. \A x \in Paths : T(r, x) \in Nat /\ L(r, x) \in Nat
    BY <2>3, EventFields
  <2>8. \A x \in Paths \ {p} : T(r, x) <= T(e, x) /\ L(r, x) <= L(e, x)
    BY <1>1, <2>3 DEF Weaker
  <2>9. Once(r)
    <3>1. SUFFICES ASSUME NEW x \in Paths, Spared(r, x)
                   PROVE  T(r, x) + L(r, x) <= (IF x \in r.on THEN 1 ELSE 0)
      BY DEF Once
    <3>2. /\ Spared(e, x) /\ x \notin ({p} \cup Under(e, p)) \ K
          /\ T(e, x) + L(e, x) <= (IF x \in e.on THEN 1 ELSE 0)
      BY <1>2, <2>4, <3>1 DEF Once
    <3>3. CASE x = p
      <4>1. T(e, p) = 0 /\ L(e, p) = 0
        BY <1>1, <2>2, <3>2, <3>3
      <4>2. T(r, p) <= 1 /\ L(r, p) = 0 /\ p \in r.on
        BY <2>3, <2>7, <4>1
      <4>3. QED
        BY <2>7, <3>3, <4>2
    <3>4. CASE x # p /\ x \in K
      <4>1. T(r, x) = 0 /\ L(r, x) = 0
        BY <2>3, <3>4
      <4>2. QED
        BY <4>1
    <3>5. CASE x # p /\ x \notin K
      <4>1. T(r, x) <= T(e, x) /\ L(r, x) <= L(e, x)
        BY <2>8, <3>5
      <4>2. x \in r.on <=> x \in e.on
        BY <2>3, <3>2, <3>5
      <4>3. QED
        BY <1>1, <2>7, <3>2, <4>1, <4>2
    <3>6. QED
      BY <3>3, <3>4, <3>5
  <2>10. \A a, b \in r.on : Below(b, a) => a # p /\ b # p /\ a \in e.on /\ b \in e.on
    <3>1. SUFFICES ASSUME NEW a \in r.on, NEW b \in r.on, Below(b, a)
                   PROVE  a # p /\ b # p /\ a \in e.on /\ b \in e.on
      OBVIOUS
    <3>2. a # b
      BY <3>1, BelowIs
    <3>3. a # p
      BY <2>3, <3>1, <3>2 DEF Under
    <3>4. b # p
      BY <2>2, <2>3, <3>1, <3>2
    <3>5. QED
      BY <2>3, <3>3, <3>4
  <2>11. \A x \in Paths \ {p} : T(e, x) = 0 => T(r, x) = 0
    BY <1>1, <2>7, <2>8
  <2>12. Outer(r) /\ Inner(r)
    BY <1>1, <1>2, <2>4, <2>10, <2>11 DEF Outer, Inner
  <2>13. Stands(r)
    <3>1. SUFFICES ASSUME NEW x \in r.on, Spared(r, x)
                   PROVE  T(r, x) > 0 \/ x \in r.given \/ x \in r.robbed
      BY DEF Stands
    <3>2. x \in Paths /\ (x # p => x \in e.on /\ x \notin K)
      BY <1>1, <2>3
    <3>3. Spared(e, x) /\ x \notin ({p} \cup Under(e, p)) \ K
      BY <2>4, <3>1, <3>2
    <3>4. CASE x = p
      BY <2>3, <3>3, <3>4
    <3>5. CASE x # p
      <4>1. Weaker(e, r, x) /\ (x \in e.given => x \in r.given)
        BY <2>3, <3>2, <3>5
      <4>2. T(e, x) > 0 \/ x \in e.given \/ x \in e.robbed
        BY <1>2, <3>2, <3>3, <3>5 DEF Stands
      <4>3. QED
        BY <4>1, <4>2 DEF Weaker
    <3>6. QED
      BY <3>4, <3>5
  <2>14. QED
    BY <2>3, <2>5, <2>6, <2>9, <2>12, <2>13 DEF Right, r
<1>5. QED
  BY <1>3, <1>4
-----------------------------------------------------------------------------
(* No longer listening.                                                      *)

\* e becomes r when the observer of p is cancelled, if K is {p}, the listeners over
\* are handed over, those in J with success, and the nodes gone go.
Deleted(e, r, p, q, K, J, gone) ==
  LET over == HandedOver(e, p, q)
  IN  /\ r \in Events /\ K \subseteq {p} /\ J \subseteq over /\ gone \subseteq {q}
      /\ r.nodes = e.nodes \ gone /\ r.on = (e.on \cup over) \ gone
      /\ \A x \in Paths :
           /\ T(r, x) <= IF x \in K THEN 0 ELSE T(e, x)
           /\ L(r, x) <= (IF x \in K THEN 0 ELSE L(e, x)) + (IF x \in J THEN 1 ELSE 0)
           /\ x \notin K \cup J => /\ T(e, x) > 0 => T(r, x) > 0 \/ x \in r.robbed
                                   /\ x \in e.robbed => x \in r.robbed
      /\ F(r) <= F(e)
      /\ r.given = (e.given \ K) \cup J
      /\ r.hurt = e.hurt \cup ({p} \ K) \cup (over \ J)
                    \cup (IF gone = {} \/ p # q THEN {p} ELSE {})

LEMMA DeleteIs ==
  ASSUME NEW e \in Events, NEW p \in Paths, NEW q \in e.on, NEW room, NEW sent
  PROVE  \E K, J, gone : Deleted(e, Delete(e, p, q, room, sent), p, q, K, J, gone)
<1> DEFINE over == HandedOver(e, p, q)
           gone == IF room > Cardinality(over) /\ sent THEN {q} ELSE {}
           a == Cancels(e, {p}, room)
           c == Asks(a, over, "listener", room - 1)
           r == Delete(e, p, q, room, sent)
           lost == IF gone = {} \/ p # q THEN {p} ELSE {}
           nodes == e.nodes \ gone
           on == (e.on \cup over) \ gone
           hurt == c.hurt \cup lost
<1>1. PICK K \in SUBSET {p} : Cancelled(e, a, {p}, K)
  BY CancelsIs
<1> HIDE DEF a
<1>2. a \in Events /\ over \in SUBSET Paths
  BY <1>1, EventFields DEF Cancelled, HandedOver
<1> HIDE DEF over
<1>3. PICK J \in SUBSET over : AskedFor(a, c, over, "listener", J)
  BY <1>2, AsksIs DEF Targets
<1>4. r = [c EXCEPT !.nodes = @ \ gone, !.on = (@ \cup over) \ gone, !.hurt = hurt]
  BY DEF Delete, a, over
<1>5. gone \subseteq {q}
  OBVIOUS
<1> HIDE DEF c, r, gone
<1>6. /\ c \in Events /\ c.nodes = e.nodes /\ c.on = e.on
      /\ c.given = (e.given \ K) \cup J /\ c.robbed = a.robbed \ J
      /\ c.hurt = e.hurt \cup ({p} \ K) \cup (over \ J)
  BY <1>1, <1>3 DEF AskedFor, Cancelled
<1>7. nodes \in SUBSET Paths /\ on \in SUBSET Paths /\ hurt \in SUBSET Paths
  BY <1>2, <1>6, EventFields
<1>8. r = [c EXCEPT !.nodes = nodes, !.on = on, !.hurt = hurt]
  BY <1>4, <1>6
<1> HIDE DEF nodes, on, hurt, lost
<1>9. /\ r \in Events /\ r.nodes = nodes /\ r.on = on /\ r.observers = c.observers
      /\ r.given = c.given /\ r.robbed = c.robbed /\ r.hurt = hurt
  BY <1>6, <1>7, <1>8 DEF Events
<1>10. \A x \in Paths : IF x \in K THEN T(a, x) = 0 /\ L(a, x) = 0 ELSE Weaker(e, a, x)
  BY <1>1 DEF Cancelled
<1>11. \A x \in Paths :
         /\ T(r, x) = T(a, x)
         /\ L(r, x) = IF x \in J THEN L(a, x) + 1 ELSE L(a, x)
  BY <1>3, <1>9 DEF AskedFor, T, L
<1>12. \A x \in Paths : /\ T(e, x) \in Nat /\ L(e, x) \in Nat
                        /\ T(a, x) \in Nat /\ L(a, x) \in Nat
  BY <1>2, EventFields
<1>13. ASSUME NEW x \in Paths
       PROVE  /\ T(r, x) <= IF x \in K THEN 0 ELSE T(e, x)
              /\ L(r, x) <= (IF x \in K THEN 0 ELSE L(e, x)) + (IF x \in J THEN 1 ELSE 0)
              /\ x \notin K \cup J => /\ T(e, x) > 0 => T(r, x) > 0 \/ x \in r.robbed
                                      /\ x \in e.robbed => x \in r.robbed
  <2>1. /\ T(r, x) = T(a, x) /\ L(r, x) = (IF x \in J THEN L(a, x) + 1 ELSE L(a, x))
        /\ T(e, x) \in Nat /\ L(e, x) \in Nat /\ T(a, x) \in Nat /\ L(a, x) \in Nat
    BY <1>11, <1>12
  <2>2. CASE x \in K
    <3>1. T(a, x) = 0 /\ L(a, x) = 0
      BY <1>10, <2>2
    <3>2. QED
      BY <2>1, <2>2, <3>1
  <2>3. CASE x \notin K
    <3>1. /\ T(a, x) <= T(e, x) /\ L(a, x) <= L(e, x)
          /\ T(e, x) > 0 => T(a, x) > 0 \/ x \in a.robbed
          /\ x \in e.robbed => x \in a.robbed
      BY <1>10, <2>3 DEF Weaker
    <3>2. x \notin J => (x \in a.robbed <=> x \in r.robbed)
      BY <1>6, <1>9
    <3>3. QED
      BY <2>1, <2>3, <3>1, <3>2
  <2>4. QED
    BY <2>2, <2>3
<1>14. F(r) <= F(e)
  BY <1>1, <1>3, <1>9 DEF AskedFor, Cancelled, F
<1>15. Deleted(e, r, p, q, K, J, gone)
  BY <1>5, <1>6, <1>9, <1>13, <1>14 DEF Deleted, over, nodes, on, hurt, lost
<1>16. QED
  BY <1>15 DEF r

LEMMA DeleteRight ==
  ASSUME NEW e, Right(e), NEW p \in Paths, NEW q \in e.nodes, Within(q, p),
         NEW room, NEW sent
  PROVE  Right(Delete(e, p, q, room, sent)) /\ F(Delete(e, p, q, room, sent)) <= F(e)
<1> DEFINE r == Delete(e, p, q, room, sent)
           over == HandedOver(e, p, q)
<1>1. /\ e \in Events /\ e.nodes \subseteq Paths /\ e.on \subseteq Paths /\ q \in Paths
      /\ F(e) \in Nat /\ \A x \in Paths : T(e, x) \in Nat /\ L(e, x) \in Nat
  BY EventFields DEF Right
<1>2. Rooted(e) /\ Covers(e) /\ Once(e) /\ Outer(e) /\ Inner(e) /\ Stands(e)
  BY DEF Right
<1>3. CASE q \notin e.on
  <2>1. r = [e EXCEPT !.nodes = @ \ {q}]
    BY <1>3 DEF Delete
  <2>2. /\ r \in Events /\ r.nodes = e.nodes \ {q} /\ r.on = e.on /\ r.observers = e.observers
        /\ r.given = e.given /\ r.robbed = e.robbed /\ r.hurt = e.hurt
    BY <1>1, <2>1 DEF Events
  <2> HIDE DEF r
  <2>3. /\ \A x : T(r, x) = T(e, x) /\ L(r, x) = L(e, x) /\ (Spared(r, x) <=> Spared(e, x))
        /\ F(r) = F(e)
    BY <2>2 DEF Spared, T, L, F
  <2>4. Rooted(r) /\ Covers(r) /\ Once(r) /\ Outer(r) /\ Inner(r) /\ Stands(r)
    BY <1>2, <1>3, <2>2, <2>3 DEF Rooted, Covers, Once, Outer, Inner, Stands
  <2>5. QED
    BY <1>1, <2>2, <2>3, <2>4 DEF Right, r
<1>4. CASE q \in e.on
  <2>1. PICK K, J, gone : Deleted(e, r, p, q, K, J, gone)
    BY <1>1, <1>4, DeleteIs
  <2> HIDE DEF r
  <2>2. /\ r \in Events /\ K \subseteq {p} /\ J \subseteq over /\ gone \subseteq {q}
        /\ r.nodes = e.nodes \ gone /\ r.on = (e.on \cup over) \ gone
        /\ \A x \in Paths :
             /\ T(r, x) <= IF x \in K THEN 0 ELSE T(e, x)
             /\ L(r, x) <= (IF x \in K THEN 0 ELSE L(e, x)) + (IF x \in J THEN 1 ELSE 0)
             /\ x \notin K \cup J => /\ T(e, x) > 0 => T(r, x) > 0 \/ x \in r.robbed
                                     /\ x \in e.robbed => x \in r.robbed
        /\ F(r) <= F(e)
        /\ r.given = (e.given \ K) \cup J
        /\ r.hurt = e.hurt \cup ({p} \ K) \cup (over \ J)
                      \cup (IF gone = {} \/ p # q THEN {p} ELSE {})
    BY <2>1 DEF Deleted
  <2>3. \A x \in over : x \in Paths /\ x \in e.nodes /\ x \notin e.on /\ x # q /\ x # p
                        /\ Below(x, p)
    BY <1>1, <1>4, Chars DEF HandedOver
  <2> HIDE DEF over
  <2>4. ASSUME NEW x \in Paths, Spared(r, x)
        PROVE  /\ Spared(e, x) /\ x \notin over \ J
               /\ Within(x, p) => p \in K /\ gone = {q} /\ p = q
    <3>1. Spared(e, x) /\ x \notin over \ J
      BY <2>2, <2>4, Chars DEF Spared
    <3>2. Within(x, p) => p \notin r.hurt
      BY <2>4 DEF Spared
    <3>3. QED
      BY <2>2, <3>1, <3>2
  <2>5. Rooted(r)
    BY <1>2, <2>2, <2>3 DEF Rooted
  <2>6. Covers(r)
    <3>1. SUFFICES ASSUME NEW x \in r.nodes
                   PROVE  \E s \in r.on : Within(x, s)
      BY DEF Covers
    <3>2. PICK s \in e.on : Within(x, s)
      BY <1>2, <2>2 DEF Covers
    <3>3. CASE s \notin gone
      BY <2>2, <3>2, <3>3
    <3>4. CASE s \in gone
      <4>1. s = q /\ x # q /\ Below(x, q) /\ x \in e.nodes
        BY <2>2, <3>1, <3>2, <3>4, BelowIs
      <4>2. PICK y \in e.nodes : /\ Within(x, y) /\ Below(y, q)
                                 /\ y \in e.on \/ y \in over
        BY <1>1, <4>1, HandsOver DEF over
      <4>3. y # q
        BY <4>2, BelowIs
      <4>4. y \in r.on
        BY <2>2, <4>2, <4>3
      <4>5. QED
        BY <4>2, <4>4
    <3>5. QED
      BY <3>3, <3>4
  <2>7. \A x \in Paths : /\ T(r, x) \in Nat /\ L(r, x) \in Nat
                         /\ T(r, x) <= IF x \in K THEN 0 ELSE T(e, x)
                         /\ L(r, x) <= (IF x \in K THEN 0 ELSE L(e, x))
                                         + (IF x \in J THEN 1 ELSE 0)
    BY <2>2, EventFields
  <2>8. Once(r)
    <3>1. SUFFICES ASSUME NEW x \in Paths, Spared(r, x)
                   PROVE  T(r, x) + L(r, x) <= (IF x \in r.on THEN 1 ELSE 0)
      BY DEF Once
    <3>2. /\ Spared(e, x) /\ x \notin over \ J
          /\ Within(x, p) => p \in K /\ gone = {q} /\ p = q
          /\ T(e, x) + L(e, x) <= (IF x \in e.on THEN 1 ELSE 0)
          /\ T(e, x) \in Nat /\ L(e, x) \in Nat
      BY <1>1, <1>2, <2>4, <3>1 DEF Once
    <3>3. CASE x = p
      <4>1. x \in K /\ x \notin J
        BY <2>2, <2>3, <3>2, <3>3, Chars
      <4>2. T(r, x) = 0 /\ L(r, x) = 0
        BY <2>7, <4>1
      <4>3. QED
        BY <4>2
    <3>4. CASE x # p /\ x \in over
      <4>1. x \notin e.on /\ x \in J /\ x \notin K /\ x \in r.on
        BY <2>2, <2>3, <3>2, <3>4
      <4>2. T(r, x) <= T(e, x) /\ L(r, x) <= L(e, x) + 1 /\ T(r, x) \in Nat /\ L(r, x) \in Nat
        BY <2>7, <4>1
      <4>3. QED
        BY <3>2, <4>1, <4>2
    <3>5. CASE x # p /\ x \notin over
      <4>1. x \notin J /\ x \notin K
        BY <2>2, <3>5
      <4>2. T(r, x) <= T(e, x) /\ L(r, x) <= L(e, x) /\ T(r, x) \in Nat /\ L(r, x) \in Nat
        BY <2>7, <3>2, <4>1
      <4>3. x \in e.on => x \in r.on
        BY <2>2, <3>2, <3>5
      <4>4. QED
        BY <3>2, <4>2, <4>3
    <3>6. QED
      BY <3>3, <3>4, <3>5
  <2>9. \A x \in r.on : x \in Paths /\ (x \in e.on \/ x \in over)
    BY <1>1, <2>2, <2>3
  <2>10. \A x \in Paths : x \in K \/ T(e, x) = 0 => T(r, x) = 0
    BY <1>1, <2>7
  <2>11. Outer(r)
    <3>1. SUFFICES ASSUME NEW a \in r.on, NEW b \in r.on, Below(b, a), Spared(r, a)
                   PROVE  T(r, a) = 0
      BY DEF Outer
    <3>2. /\ Spared(e, a) /\ a \in Paths /\ b \in Paths
          /\ Within(a, p) => p \in K /\ gone = {q} /\ p = q
          /\ T(e, a) + L(e, a) <= (IF a \in e.on THEN 1 ELSE 0)
          /\ T(e, a) \in Nat /\ L(e, a) \in Nat
      BY <1>1, <1>2, <2>4, <2>9, <3>1 DEF Once
    <3>3. SUFFICES ASSUME a \notin K
                   PROVE  T(e, a) = 0
      BY <2>10, <3>2
    <3>4. a # p
      BY <3>2, <3>3, Chars
    <3>5. CASE a \notin e.on
      BY <3>2, <3>5
    <3>6. CASE a \in e.on /\ b \in e.on
      BY <1>2, <3>1, <3>2, <3>6 DEF Outer
    <3>7. CASE a \in e.on /\ b \in over
      <4>1. Within(b, p) /\ Within(b, a)
        BY <2>3, <3>1, <3>7, BelowIs
      <4>2. Within(p, a) \/ Within(a, p)
        BY <3>2, <4>1, Deeper
      <4>3. CASE Within(p, a)
        <5>1. Below(q, a)
          BY <1>1, <3>2, <3>4, <4>3, BelowIs, Deeper
        <5>2. QED
          BY <1>2, <1>4, <3>2, <3>7, <5>1 DEF Outer
      <4>4. CASE Within(a, p)
        <5>1. p \in e.on /\ Below(a, p)
          BY <1>4, <3>2, <3>4, <4>4, BelowIs
        <5>2. QED
          BY <1>2, <3>2, <3>7, <5>1 DEF Inner
      <4>5. QED
        BY <4>2, <4>3, <4>4
    <3>8. QED
      BY <2>9, <3>5, <3>6, <3>7
  <2>12. Inner(r)
    <3>1. SUFFICES ASSUME NEW a \in r.on, NEW b \in r.on, Below(b, a), Spared(r, b)
                   PROVE  T(r, b) = 0
      BY DEF Inner
    <3>2. /\ Spared(e, b) /\ a \in Paths /\ b \in Paths
          /\ Within(b, p) => p \in K /\ gone = {q} /\ p = q
          /\ T(e, b) + L(e, b) <= (IF b \in e.on THEN 1 ELSE 0)
          /\ T(e, b) \in Nat /\ L(e, b) \in Nat
      BY <1>1, <1>2, <2>4, <2>9, <3>1 DEF Once
    <3>3. SUFFICES ASSUME b \notin K
                   PROVE  T(e, b) = 0
      BY <2>10, <3>2
    <3>4. CASE b \notin e.on
      BY <3>2, <3>4
    <3>5. CASE b \in e.on /\ a \in e.on
      BY <1>2, <3>1, <3>2, <3>5 DEF Inner
    <3>6. CASE b \in e.on /\ a \in over
      <4>1. Below(b, p)
        BY <2>3, <3>1, <3>2, <3>6, BelowIs, Deeper
      <4>2. p \in e.on
        BY <1>4, <3>2, <4>1, BelowIs
      <4>3. QED
        BY <1>2, <3>2, <3>6, <4>1, <4>2 DEF Inner
    <3>7. QED
      BY <2>9, <3>4, <3>5, <3>6
  <2>13. Stands(r)
    <3>1. SUFFICES ASSUME NEW x \in r.on, Spared(r, x)
                   PROVE  T(r, x) > 0 \/ x \in r.given \/ x \in r.robbed
      BY DEF Stands
    <3>2. /\ Spared(e, x) /\ x \in Paths /\ x \notin over \ J
          /\ Within(x, p) => p \in K /\ gone = {q} /\ p = q
      BY <2>4, <2>9, <3>1
    <3>3. x # p
      BY <2>2, <3>2, Chars
    <3>4. CASE x \in over
      BY <2>2, <3>2, <3>4
    <3>5. CASE x \in e.on
      <4>1. x \notin K /\ x \notin J
        BY <2>2, <2>3, <3>3, <3>5
      <4>2. /\ T(e, x) > 0 => T(r, x) > 0 \/ x \in r.robbed
            /\ x \in e.robbed => x \in r.robbed
            /\ x \in e.given => x \in r.given
        BY <2>2, <3>2, <4>1
      <4>3. QED
        BY <1>2, <3>2, <3>5, <4>2 DEF Stands
    <3>6. QED
      BY <2>9, <3>4, <3>5
  <2>14. QED
    BY <2>2, <2>5, <2>6, <2>8, <2>11, <2>12, <2>13 DEF Right, r
<1>5. QED
  BY <1>3, <1>4
-----------------------------------------------------------------------------
(* An observer fails.                                                        *)

LEMMA CountPut ==
  ASSUME NEW V, NEW s \in Seq(V), NEW i \in DOMAIN s, NEW x \in V, NEW G
  PROVE  /\ [s EXCEPT ![i] = x] \in Seq(V)
         /\ Count([s EXCEPT ![i] = x], G)
              = Count(s, G) - (IF s[i] \in G THEN 1 ELSE 0) + (IF x \in G THEN 1 ELSE 0)
<1> DEFINE r == [s EXCEPT ![i] = x]
           I == {k \in DOMAIN s : s[k] \in G}
           R == {k \in DOMAIN r : r[k] \in G}
           rest == I \ {i}
<1>1. /\ r \in Seq(V) /\ DOMAIN r = DOMAIN s /\ r[i] = x
      /\ \A k \in DOMAIN s : k # i => r[k] = s[k]
  OBVIOUS
<1> HIDE DEF r
<1>2. IsFiniteSet(I) /\ Cardinality(I) \in Nat
  BY CountType DEF Count
<1>3. (i \in I <=> s[i] \in G) /\ i \notin rest
  OBVIOUS
<1>4. R = IF x \in G THEN rest \cup {i} ELSE rest
  BY <1>1
<1> HIDE DEF R, I
<1>5. IsFiniteSet(rest) /\ Cardinality(rest) = Cardinality(I) - (IF s[i] \in G THEN 1 ELSE 0)
      /\ Cardinality(rest) \in Nat
  <2>1. IsFiniteSet(rest) /\ Cardinality(rest) \in Nat
    BY <1>2, FS_RemoveElement, FS_CardinalityType
  <2>2. Cardinality(rest) = IF i \in I THEN Cardinality(I) - 1 ELSE Cardinality(I)
    BY <1>2, FS_RemoveElement
  <2>3. QED
    BY <1>2, <1>3, <2>1, <2>2
<1> HIDE DEF rest
<1>6. Cardinality(R) = Cardinality(rest) + (IF x \in G THEN 1 ELSE 0)
  <2>1. CASE x \in G
    <3>1. Cardinality(rest \cup {i}) = Cardinality(rest) + 1
      BY <1>3, <1>5, FS_AddElement
    <3>2. QED
      BY <1>4, <2>1, <3>1
  <2>2. CASE x \notin G
    BY <1>4, <1>5, <2>2
  <2>3. QED
    BY <2>1, <2>2
<1>7. Count(r, G) = Count(s, G) - (IF s[i] \in G THEN 1 ELSE 0) + (IF x \in G THEN 1 ELSE 0)
  BY <1>5, <1>6 DEF Count, I, R
<1>8. QED
  BY <1>1, <1>7 DEF r

\* The observer at i is failing.
Fails(e, f, i) ==
  LET o == e.observers[i]
  IN  /\ f \in Events /\ f.nodes = e.nodes /\ f.on = e.on
      /\ f.given = e.given /\ f.robbed = e.robbed /\ e.hurt \subseteq f.hurt
      /\ F(f) = 1
      /\ \A x \in Paths : T(f, x) <= T(e, x) /\ L(f, x) <= L(e, x)
      /\ o.to = "trigger" => /\ \A x \in Paths \ {o.path} : T(f, x) = T(e, x)
                             /\ o.path \in f.hurt \/ T(f, o.path) < T(e, o.path)
      /\ o.to = "listener" => \A x \in Paths : T(f, x) = T(e, x)

LEMMA FailingIs ==
  ASSUME NEW e \in Events, F(e) = 0, NEW i \in DOMAIN e.observers
  PROVE  Fails(e, Failing(e, i), i) /\ e.observers[i].path \in Paths
<1> DEFINE list == e.observers
           o == list[i]
           p == o.path
           n == [o EXCEPT !.mark = "failing"]
           more == [list EXCEPT ![i] = n]
           hurt == IF o.mark = "left" /\ o.to = "trigger" THEN e.hurt \cup {p} ELSE e.hurt
           f == Failing(e, i)
<1>1. list \in Seq(Observers) /\ e.hurt \subseteq Paths
      /\ F(e) \in Nat /\ \A x \in Paths : T(e, x) \in Nat /\ L(e, x) \in Nat
  BY EventFields
<1>2. o \in Observers /\ o \notin InError
  <2>1. Count(list, InError) = 0
    BY DEF F
  <2>2. Count(list, InError) > 0 <=> \E k \in DOMAIN list : list[k] \in InError
    BY <1>1, CountType
  <2>3. ~(Count(list, InError) > 0)
    BY <2>1
  <2>4. QED
    BY <1>1, <2>2, <2>3
<1>3. p \in Paths /\ o.to \in Targets /\ o.mark \in {"live", "left"}
  BY <1>2 DEF Observers, InError
<1>4. n \in Observers /\ n \in InError /\ n.mark = "failing"
  BY <1>2 DEF Observers, InError
<1>5. o.mark = "live" => o = Observer(p, o.to)
  BY <1>2 DEF Observers, Observer
<1>6. f = [e EXCEPT !.observers = more, !.hurt = hurt]
  BY DEF Failing
<1> HIDE DEF n, o
<1>7. /\ more \in Seq(Observers)
      /\ \A G : Count(more, G) = Count(list, G) - (IF o \in G THEN 1 ELSE 0)
                                   + (IF n \in G THEN 1 ELSE 0)
  BY <1>1, <1>4, CountPut DEF o
<1>8. hurt \in SUBSET Paths /\ e.hurt \subseteq hurt
  BY <1>1, <1>3
<1> HIDE DEF more, hurt, f, list
<1>9. /\ f \in Events /\ f.nodes = e.nodes /\ f.on = e.on /\ f.observers = more
      /\ f.given = e.given /\ f.robbed = e.robbed /\ f.hurt = hurt
  BY <1>6, <1>7, <1>8 DEF Events
<1>10. F(f) = 1
  <2>1. Count(more, InError) = Count(list, InError) - (IF o \in InError THEN 1 ELSE 0)
                                 + (IF n \in InError THEN 1 ELSE 0)
    BY <1>7
  <2>2. F(f) = Count(more, InError) /\ Count(list, InError) = 0
    BY <1>9 DEF F, list
  <2>3. QED
    BY <1>2, <1>4, <2>1, <2>2
<1>11. ASSUME NEW x \in Paths, NEW to \in Targets
       PROVE  Count(more, {Observer(x, to)})
                = Count(list, {Observer(x, to)}) - (IF o = Observer(x, to) THEN 1 ELSE 0)
              /\ Count(list, {Observer(x, to)}) \in Nat
  <2>1. n # Observer(x, to)
    BY <1>4, ObserverIs
  <2>2. Count(more, {Observer(x, to)})
          = Count(list, {Observer(x, to)}) - (IF o \in {Observer(x, to)} THEN 1 ELSE 0)
              + (IF n \in {Observer(x, to)} THEN 1 ELSE 0)
    BY <1>7
  <2>3. Count(list, {Observer(x, to)}) \in Nat
    BY <1>1, CountType DEF list
  <2>4. QED
    BY <2>1, <2>2, <2>3
<1>12. ASSUME NEW x \in Paths
       PROVE  /\ T(f, x) = T(e, x) - (IF o = Observer(x, "trigger") THEN 1 ELSE 0)
              /\ L(f, x) = L(e, x) - (IF o = Observer(x, "listener") THEN 1 ELSE 0)
  <2>1. "trigger" \in Targets /\ "listener" \in Targets
    BY DEF Targets
  <2>2. /\ T(f, x) = Count(more, {Observer(x, "trigger")})
        /\ L(f, x) = Count(more, {Observer(x, "listener")})
    BY <1>9 DEF T, L
  <2>3. /\ T(e, x) = Count(list, {Observer(x, "trigger")})
        /\ L(e, x) = Count(list, {Observer(x, "listener")})
    BY DEF T, L, list
  <2>4. QED
    BY <1>11, <2>1, <2>2, <2>3
<1>13. \A x \in Paths : T(f, x) <= T(e, x) /\ L(f, x) <= L(e, x)
  BY <1>1, <1>12
<1>14. \A x \in Paths, to \in Targets : o = Observer(x, to) => x = p /\ to = o.to
  BY ObserverIs
<1>15. ASSUME o.to = "trigger"
       PROVE  /\ \A x \in Paths \ {p} : T(f, x) = T(e, x)
              /\ p \in f.hurt \/ T(f, p) < T(e, p)
  <2>1. \A x \in Paths \ {p} : T(f, x) = T(e, x)
    BY <1>1, <1>12, <1>14 DEF Targets
  <2>2. CASE o.mark = "left"
    BY <1>9, <1>15, <2>1, <2>2 DEF hurt
  <2>3. CASE o.mark = "live"
    <3>1. T(f, p) = T(e, p) - 1
      BY <1>3, <1>5, <1>12, <1>15, <2>3
    <3>2. QED
      BY <1>1, <1>3, <2>1, <3>1
  <2>4. QED
    BY <1>3, <2>2, <2>3
<1>16. o.to = "listener" => \A x \in Paths : T(f, x) = T(e, x)
  BY <1>1, <1>12, <1>14 DEF Targets
<1>17. Fails(e, f, i)
  BY <1>8, <1>9, <1>10, <1>13, <1>15, <1>16 DEF Fails, o, list
<1>18. QED
  BY <1>3, <1>17 DEF f, o, list

\* It goes.
LEMMA FailedIs ==
  ASSUME NEW e \in Events, F(e) <= 1
  PROVE  LET r == Failed(e)
         IN  /\ r \in Events /\ r.nodes = e.nodes /\ r.on = e.on
             /\ r.given = e.given /\ r.robbed = e.robbed /\ r.hurt = e.hurt
             /\ F(r) = 0
             /\ \A x \in Paths : T(r, x) = T(e, x) /\ L(r, x) = L(e, x)
<1> DEFINE list == e.observers
           I == {i \in DOMAIN list : list[i].mark = "failing"}
           less == Without(list, I)
           r == Failed(e)
<1>1. list \in Seq(Observers) /\ F(e) \in Nat /\ \A x \in Paths : T(e, x) \in Nat /\ L(e, x) \in Nat
  BY EventFields
<1>2. \A i \in DOMAIN list : list[i] \in Observers
  BY <1>1
<1>3. \A i \in DOMAIN list : i \in I <=> list[i] \in InError
  BY <1>2 DEF InError
<1>4. I \subseteq DOMAIN list
  OBVIOUS
<1>5. r = [e EXCEPT !.observers = less]
  BY DEF Failed
<1> HIDE DEF list, I
<1>6. /\ less \in Seq(Observers)
      /\ I = {} => less = list
      /\ I # {} => /\ Min(I) \in I
                   /\ \A G : Count(less, G) = Count(list, G) - (IF list[Min(I)] \in G THEN 1 ELSE 0)
  BY <1>1, <1>4, WithoutIs
<1> HIDE DEF less, r
<1>7. /\ r \in Events /\ r.nodes = e.nodes /\ r.on = e.on /\ r.observers = less
      /\ r.given = e.given /\ r.robbed = e.robbed /\ r.hurt = e.hurt
  BY <1>5, <1>6 DEF Events
<1>8. F(e) = Count(list, InError) /\ F(r) = Count(less, InError)
      /\ \A x : /\ T(e, x) = Count(list, {Observer(x, "trigger")})
                /\ L(e, x) = Count(list, {Observer(x, "listener")})
                /\ T(r, x) = Count(less, {Observer(x, "trigger")})
                /\ L(r, x) = Count(less, {Observer(x, "listener")})
  <2>1. r.observers = less /\ e.observers = list
    BY <1>7 DEF list
  <2>2. QED
    BY <2>1 DEF F, T, L
<1>9. CASE I = {}
  <2>1. ~(Count(list, InError) > 0)
    BY <1>1, <1>3, <1>9, CountType
  <2>2. F(e) = 0
    BY <1>1, <1>8, <2>1
  <2>3. QED
    BY <1>6, <1>7, <1>8, <1>9, <2>2 DEF r
<1>10. CASE I # {}
  <2>1. list[Min(I)] \in InError /\ Min(I) \in DOMAIN list
    BY <1>3, <1>4, <1>6, <1>10
  <2>2. Count(list, InError) > 0
    BY <1>1, <2>1, CountType
  <2>3. Count(less, InError) = Count(list, InError) - 1
    BY <1>6, <1>10, <2>1
  <2>4. F(r) = 0
    BY <1>1, <1>8, <2>2, <2>3
  <2>5. ASSUME NEW x \in Paths, NEW to \in Targets
        PROVE  Count(less, {Observer(x, to)}) = Count(list, {Observer(x, to)})
    <3>1. list[Min(I)] \notin {Observer(x, to)}
      BY <2>1, ObserverIs
    <3>2. Count(less, {Observer(x, to)}) = Count(list, {Observer(x, to)})
            - (IF list[Min(I)] \in {Observer(x, to)} THEN 1 ELSE 0)
      BY <1>6, <1>10
    <3>3. Count(list, {Observer(x, to)}) \in Nat
      BY <1>1, CountType
    <3>4. QED
      BY <3>1, <3>2, <3>3
  <2>6. \A x \in Paths : T(r, x) = T(e, x) /\ L(r, x) = L(e, x)
    BY <1>8, <2>5 DEF Targets
  <2>7. QED
    BY <1>7, <2>4, <2>6 DEF r
<1>11. QED
  BY <1>9, <1>10

LEMMA FailedRight ==
  ASSUME NEW e, Right(e), F(e) <= 1
  PROVE  Right(Failed(e)) /\ F(Failed(e)) = 0
<1> DEFINE r == Failed(e)
<1>1. e \in Events /\ e.on \subseteq Paths
  BY EventFields DEF Right
<1>2. /\ r \in Events /\ r.nodes = e.nodes /\ r.on = e.on
      /\ r.given = e.given /\ r.robbed = e.robbed /\ r.hurt = e.hurt
      /\ F(r) = 0
      /\ \A x \in Paths : T(r, x) = T(e, x) /\ L(r, x) = L(e, x)
  BY <1>1, FailedIs, Zenon
<1> HIDE DEF r
<1>3. \A x : Spared(r, x) <=> Spared(e, x)
  BY <1>2 DEF Spared
<1>4. Rooted(r) /\ Covers(r) /\ Once(r) /\ Outer(r) /\ Inner(r) /\ Stands(r)
  BY <1>1, <1>2, <1>3 DEF Right, Rooted, Covers, Once, Outer, Inner, Stands
<1>5. QED
  BY <1>2, <1>4 DEF Right, r

\* One that was handed over fails, and its listener may listen again.
LEMMA DirectRight ==
  ASSUME NEW e, Right(e), F(e) = 0, NEW i \in DOMAIN e.observers,
         e.observers[i].to = "listener"
  PROVE  Right(Failing(e, i)) /\ F(Failing(e, i)) = 1
<1> DEFINE f == Failing(e, i)
<1>1. /\ e \in Events /\ e.on \subseteq Paths
      /\ \A x \in Paths : T(e, x) \in Nat /\ L(e, x) \in Nat
  BY EventFields DEF Right
<1>2. Fails(e, f, i)
  BY <1>1, FailingIs
<1> HIDE DEF f
<1>3. /\ f \in Events /\ f.nodes = e.nodes /\ f.on = e.on
      /\ f.given = e.given /\ f.robbed = e.robbed /\ e.hurt \subseteq f.hurt
      /\ F(f) = 1
      /\ \A x \in Paths : T(f, x) = T(e, x) /\ L(f, x) <= L(e, x)
  BY <1>2 DEF Fails
<1>4. \A x : Spared(f, x) => Spared(e, x)
  BY <1>3 DEF Spared
<1>5. \A x \in Paths : L(f, x) \in Nat
  BY <1>3, EventFields
<1>6. Once(f)
  <2>1. SUFFICES ASSUME NEW x \in Paths, Spared(f, x)
                 PROVE  T(f, x) + L(f, x) <= (IF x \in f.on THEN 1 ELSE 0)
    BY DEF Once
  <2>2. T(e, x) + L(e, x) <= (IF x \in e.on THEN 1 ELSE 0)
    BY <1>4, <2>1 DEF Right, Once
  <2>3. T(f, x) = T(e, x) /\ L(f, x) <= L(e, x) /\ T(e, x) \in Nat /\ L(e, x) \in Nat
        /\ L(f, x) \in Nat /\ f.on = e.on
    BY <1>1, <1>3, <1>5
  <2>4. QED
    BY <2>2, <2>3
<1>7. Rooted(f) /\ Covers(f) /\ Outer(f) /\ Inner(f) /\ Stands(f)
  BY <1>1, <1>3, <1>4 DEF Right, Rooted, Covers, Outer, Inner, Stands
<1>8. QED
  BY <1>3, <1>6, <1>7 DEF Right, f

LEMMA Finite == IsFiniteSet(Paths)
<1>1. N \in Nat /\ Order \in [1 .. N -> Paths] /\ \A p \in Paths : \E i \in 1 .. N : Order[i] = p
  <2>1. DOMAIN Order = 1 .. N /\ Order = [i \in 1 .. N |-> Order[i]]
    BY EventAssumption DEF N
  <2>2. QED
    BY <2>1, Listed
<1>2. IsFiniteSet(1 .. N)
  BY <1>1, FS_Interval
<1>3. Order \in Surjection(1 .. N, Paths)
  BY <1>1 DEF Surjection
<1>4. QED
  BY <1>2, <1>3, FS_Surjection

\* Where a trigger may be.
Places == [e : Events, dying : SUBSET Paths, room : Int]

LEMMA PlaceFields ==
  ASSUME NEW s \in Places
  PROVE  s.e \in Events /\ s.dying \subseteq Paths /\ s.room \in Int
BY DEF Places

\* The listeners in D have died: what has become of the list since it was e, when
\* the trigger at p began and its observer was failing.
Alone(e, p, s, D) ==
  /\ \A x \in Told(e, p) : Spared(s.e, x) =>
       /\ T(s.e, x) <= (IF x \in D \ s.dying THEN 1 ELSE 0) /\ L(s.e, x) = 0
       /\ x \in D \ s.dying => T(s.e, x) > 0 \/ x \in s.e.robbed
  /\ \A a, b \in D \ s.dying : ~Below(b, a)
  /\ s.e.on \cap Told(e, p) \subseteq (D \ s.dying) \cup {p}

Among(e, p, s, D) ==
  /\ s \in Places
  /\ s.dying \subseteq D /\ D \subseteq Told(e, p) /\ D \ s.dying \subseteq s.e.on
  /\ s.e.nodes = e.nodes
  /\ s.e.on \ Told(e, p) = e.on \ Told(e, p)
  /\ e.hurt \subseteq s.e.hurt
  /\ \A x \in Paths \ Told(e, p) :
       Weaker(e, s.e, x) /\ (x \in s.e.given <=> x \in e.given)
  /\ F(s.e) <= 1
  /\ \A x \in s.e.on \ e.on, r \in e.on \ Told(e, p) : ~Below(x, r)
  /\ Spared(e, p) => Alone(e, p, s, D)

\* One of them dies, and listens again or does not.
Stays(s, t, q) ==
  \/ /\ t.e = s.e /\ t.dying = s.dying \cup {q}
  \/ /\ Kept(s.e, t.e, q, s.dying \cup {q}) /\ t.dying = s.dying \cup {q}
  \/ /\ ~Carried(s.e, q, s.dying \cup {q})
     /\ \E K : Added(s.e, t.e, q, K)
     /\ t.dying = s.dying \ {q}

LEMMA DiesIs ==
  ASSUME NEW s \in Places, NEW q \in Paths, NEW Again
  PROVE  Dies(s, q, Again) \in Places /\ Stays(s, Dies(s, q, Again), q)
<1> DEFINE d == s.dying \cup {q}
           e == s.e
           room == s.room
           t == Dies(s, q, Again)
           n == Commands(e, q, d)
<1>1. e \in Events /\ d \subseteq Paths /\ d \ {q} = s.dying \ {q} /\ q \in d /\ room \in Int
  BY PlaceFields
<1>2. CASE q \notin Again
  <2>1. t = [s EXCEPT !.dying = d]
    BY <1>2 DEF Dies
  <2> HIDE DEF t
  <2>2. t \in Places /\ t.e = s.e /\ t.dying = d
    BY <1>1, <2>1 DEF Places
  <2>3. QED
    BY <2>2 DEF Stays, t
<1>3. CASE q \in Again
  <2> DEFINE a == Add(e, q, d, room)
             left == IF Carried(e, q, d) THEN d ELSE d \ {q}
             more == room - n
  <2>1. t = [e |-> a, room |-> more, dying |-> left]
    BY <1>3 DEF Dies
  <2>2. more \in Int
    <3>1. Under(e, q) \subseteq Paths
      BY <1>1, EventFields DEF Under
    <3>2. Cardinality(Under(e, q)) \in Nat
      BY <3>1, Finite, FS_Subset, FS_CardinalityType
    <3>3. n \in Int
      BY <3>2 DEF Commands
    <3> HIDE DEF n
    <3>4. QED
      BY <1>1, <3>3
  <2>3. left \in SUBSET Paths
    BY <1>1
  <2>4. NothingToSend(e, q, d) <=> Carried(e, q, d)
    BY <1>1 DEF NothingToSend
  <2> HIDE DEF t, more, d, e, room
  <2>5. CASE Carried(e, q, d)
    <3>1. Kept(e, a, q, d)
      BY <1>1, <2>4, <2>5, AddKeptIs
    <3> HIDE DEF a
    <3>2. a \in Events
      BY <3>1 DEF Kept
    <3>3. left = d
      BY <2>5
    <3> HIDE DEF left
    <3>4. t \in Places /\ t.e = a /\ t.dying = d
      BY <2>1, <2>2, <2>3, <3>2, <3>3 DEF Places
    <3>5. QED
      BY <3>1, <3>4 DEF Stays, t, d, e
  <2>6. CASE ~Carried(e, q, d)
    <3>1. PICK K : Added(e, a, q, K)
      BY <1>1, <2>4, <2>6, AddIs
    <3> HIDE DEF a
    <3>2. a \in Events
      BY <3>1 DEF Added
    <3>3. left = s.dying \ {q}
      BY <1>1, <2>6
    <3> HIDE DEF left
    <3>4. t \in Places /\ t.e = a /\ t.dying = s.dying \ {q}
      BY <2>1, <2>2, <2>3, <3>2, <3>3 DEF Places
    <3>5. QED
      BY <2>6, <3>1, <3>4 DEF Stays, t, d, e
  <2>7. QED
    BY <2>5, <2>6
<1>4. QED
  BY <1>2, <1>3

LEMMA AmongNext ==
  ASSUME NEW e \in Events, e.on \subseteq e.nodes, NEW p \in Paths,
         NEW s, NEW D, Among(e, p, s, D),
         NEW q \in Told(e, p) \ D, \A d \in D : ~Within(d, q),
         NEW t \in Places, Stays(s, t, q)
  PROVE  Among(e, p, t, D \cup {q})
<1> DEFINE A == Told(e, p)
           E == D \cup {q}
           alive == D \ s.dying
<1>1. /\ e.nodes \subseteq Paths /\ e.on \subseteq Paths
      /\ A \subseteq Paths /\ A \subseteq e.nodes
      /\ q \in A /\ q \notin D /\ q \in Paths /\ q \in e.nodes
      /\ \A x \in A : Within(x, p)
      /\ \A x \in e.nodes : Within(x, p) => x \in A
  BY EventFields DEF Told
<1>2. /\ s \in Places
      /\ s.dying \subseteq D /\ D \subseteq A /\ alive \subseteq s.e.on
      /\ s.e.nodes = e.nodes
      /\ s.e.on \ A = e.on \ A
      /\ e.hurt \subseteq s.e.hurt
      /\ \A x \in Paths \ A : Weaker(e, s.e, x) /\ (x \in s.e.given <=> x \in e.given)
      /\ F(s.e) <= 1
      /\ \A x \in s.e.on \ e.on, r \in e.on \ A : ~Below(x, r)
      /\ Spared(e, p) => Alone(e, p, s, D)
  BY DEF Among
<1>3. /\ s.e \in Events /\ s.e.on \subseteq Paths /\ F(s.e) \in Nat
      /\ t.e \in Events /\ F(t.e) \in Nat
      /\ \A x \in Paths : /\ T(s.e, x) \in Nat /\ L(s.e, x) \in Nat
                           /\ T(t.e, x) \in Nat /\ L(t.e, x) \in Nat
                           /\ T(e, x) \in Nat /\ L(e, x) \in Nat
  BY <1>2, PlaceFields, EventFields
<1>4. E \subseteq A
  BY <1>1, <1>2
<1>5. Spared(e, p) =>
        /\ \A x \in A : Spared(s.e, x) =>
             /\ T(s.e, x) <= (IF x \in alive THEN 1 ELSE 0) /\ L(s.e, x) = 0
             /\ x \in alive => T(s.e, x) > 0 \/ x \in s.e.robbed
        /\ \A a, b \in alive : ~Below(b, a)
        /\ s.e.on \cap A \subseteq alive \cup {p}
  BY <1>2 DEF Alone
<1> HIDE DEF A
<1>6. CASE t.e = s.e /\ t.dying = s.dying \cup {q}
  <2>1. E \ t.dying = alive
    BY <1>1, <1>2, <1>6
  <2>2. Spared(e, p) => Alone(e, p, t, E)
    BY <1>2, <1>6, <2>1 DEF Alone
  <2>3. t.dying \subseteq E
    BY <1>2, <1>6
  <2> HIDE DEF E, alive
  <2>4. QED
    BY <1>2, <1>4, <1>6, <2>1, <2>2, <2>3 DEF Among, A, E, alive
<1>7. CASE Kept(s.e, t.e, q, s.dying \cup {q}) /\ t.dying = s.dying \cup {q}
  <2>1. E \ t.dying = alive /\ q \notin alive /\ t.dying \subseteq E
    BY <1>1, <1>2, <1>7
  <2>2. /\ t.e.nodes = s.e.nodes /\ t.e.on = s.e.on \ {q}
        /\ t.e.observers = s.e.observers
        /\ t.e.given = s.e.given /\ t.e.robbed = s.e.robbed /\ t.e.hurt = s.e.hurt
    BY <1>1, <1>2, <1>7 DEF Kept
  <2>3. /\ \A x : Spared(t.e, x) <=> Spared(s.e, x)
        /\ \A x : T(t.e, x) = T(s.e, x) /\ L(t.e, x) = L(s.e, x)
        /\ F(t.e) = F(s.e)
    BY <2>2 DEF Spared, T, L, F
  <2> HIDE DEF E, alive
  <2>4. Spared(e, p) => Alone(e, p, t, E)
    <3>1. SUFFICES ASSUME Spared(e, p)
                   PROVE  Alone(e, p, t, E)
      OBVIOUS
    <3>2. t.e.on \cap A \subseteq alive \cup {p}
      BY <1>5, <2>2, <3>1
    <3>3. QED
      BY <1>5, <2>1, <2>2, <2>3, <3>1, <3>2 DEF Alone, A
  <2>5. alive \subseteq t.e.on /\ t.e.on \ A = e.on \ A
    BY <1>1, <1>2, <2>1, <2>2
  <2>6. \A x \in t.e.on \ e.on, r \in e.on \ A : ~Below(x, r)
    BY <1>2, <2>2
  <2>7. \A x \in Paths \ A : Weaker(e, t.e, x) /\ (x \in t.e.given <=> x \in e.given)
    BY <1>2, <2>2, <2>3 DEF Weaker
  <2>8. QED
    BY <1>2, <1>4, <2>1, <2>2, <2>3, <2>4, <2>5, <2>6, <2>7 DEF Among, A, E
<1>8. CASE /\ ~Carried(s.e, q, s.dying \cup {q})
           /\ \E K : Added(s.e, t.e, q, K)
           /\ t.dying = s.dying \ {q}
  <2> DEFINE U == Under(s.e, q)
  <2>1. PICK K : Added(s.e, t.e, q, K)
    BY <1>8
  <2>2. /\ t.e \in Events
        /\ t.e.nodes = e.nodes /\ t.e.on = (s.e.on \ U) \cup {q}
        /\ K \subseteq {q} \cup U
        /\ T(t.e, q) <= (IF q \in K THEN T(s.e, q) + 1 ELSE T(s.e, q)) /\ L(t.e, q) <= L(s.e, q)
        /\ q \in K => T(t.e, q) > 0 \/ q \in t.e.robbed
        /\ \A x \in Paths \ {q} : IF x \in K THEN T(t.e, x) = 0 /\ L(t.e, x) = 0
                                  ELSE Weaker(s.e, t.e, x)
        /\ F(t.e) <= F(s.e)
        /\ t.e.given = s.e.given \ K
        /\ t.e.hurt = s.e.hurt \cup (({q} \cup U) \ K)
    BY <1>1, <1>2, <2>1 DEF Added
  <2>3. /\ \A x \in U : x \in s.e.on /\ Below(x, q) /\ Within(x, q) /\ x # q
        /\ \A x \in s.e.on : Below(x, q) => x \in U
    BY BelowIs DEF Under
  <2> HIDE DEF U
  <2>4. U \subseteq A /\ K \subseteq A /\ U \cap alive = {} /\ p \notin U
    <3>1. ASSUME NEW x \in U
          PROVE  x \in A
      <4>1. x \in Paths /\ Within(x, q) /\ Within(q, p) /\ x \in s.e.on
        BY <1>1, <1>3, <2>3
      <4>2. x \in A \/ x \in e.on \ A
        BY <1>2, <4>1
      <4>3. Within(x, p)
        BY <1>1, <4>1, Deeper
      <4>4. QED
        BY <1>1, <4>2, <4>3
    <3>2. \A x \in U : x \notin alive
      BY <2>3
    <3>3. p \notin U
      <4>1. ASSUME p \in U
            PROVE  FALSE
        <5>1. Below(p, q) /\ Within(q, p)
          BY <1>1, <2>3, <4>1
        <5>2. QED
          BY <1>1, <5>1, Deeper
      <4>2. QED
        BY <4>1
    <3>4. QED
      BY <1>1, <2>2, <3>1, <3>2, <3>3
  <2>5. t.dying = s.dying /\ E \ t.dying = alive \cup {q} /\ t.dying \subseteq E /\ q \notin alive
    BY <1>1, <1>2, <1>8
  <2>6. \A x \in alive : x \in s.e.on /\ x \notin s.dying \cup {q}
    BY <1>1, <1>2
  <2>7. \A x \in s.e.on : Below(q, x) => x \in s.dying \cup {q}
    BY <1>8 DEF Carried
  <2>8. \A x \in alive : ~Below(x, q)
    BY BelowIs
  <2> HIDE DEF E, alive
  <2>9. \A x \in Paths : Spared(t.e, x) => Spared(s.e, x) /\ x \notin ({q} \cup U) \ K
    BY <2>2, Chars DEF Spared
  <2>10. Spared(e, p) => Alone(e, p, t, E)
    <3>1. SUFFICES ASSUME Spared(e, p)
                   PROVE  Alone(e, p, t, E)
      OBVIOUS
    <3>2. ASSUME NEW x \in A, Spared(t.e, x)
          PROVE  /\ T(t.e, x) <= (IF x \in alive \cup {q} THEN 1 ELSE 0) /\ L(t.e, x) = 0
                 /\ x \in alive \cup {q} => T(t.e, x) > 0 \/ x \in t.e.robbed
      <4>1. /\ x \in Paths /\ Spared(s.e, x) /\ x \notin ({q} \cup U) \ K
            /\ T(s.e, x) <= (IF x \in alive THEN 1 ELSE 0) /\ L(s.e, x) = 0
            /\ x \in alive => T(s.e, x) > 0 \/ x \in s.e.robbed
            /\ T(s.e, x) \in Nat /\ T(t.e, x) \in Nat /\ L(t.e, x) \in Nat
        BY <1>1, <1>3, <1>5, <2>9, <3>1, <3>2
      <4>2. CASE x = q
        <5>1. T(s.e, q) = 0 /\ L(s.e, q) = 0 /\ q \in K
          BY <2>5, <4>1, <4>2
        <5>2. T(t.e, q) <= 1 /\ L(t.e, q) <= 0 /\ (T(t.e, q) > 0 \/ q \in t.e.robbed)
          BY <2>2, <5>1
        <5>3. QED
          BY <4>1, <4>2, <5>2
      <4>3. CASE x # q /\ x \in K
        <5>1. x \in U /\ x \notin alive \cup {q} /\ x # p
          BY <2>2, <2>4, <4>3
        <5>2. QED
          BY <2>2, <4>1, <4>3, <5>1
      <4>4. CASE x # q /\ x \notin K
        <5>1. Weaker(s.e, t.e, x)
          BY <2>2, <4>1, <4>4
        <5>2. L(s.e, x) = 0 /\ L(t.e, x) = 0
          BY <4>1, <5>1 DEF Weaker
        <5>3. QED
          BY <4>1, <4>4, <5>1, <5>2 DEF Weaker
      <4>5. QED
        BY <4>2, <4>3, <4>4
    <3>3. \A a, b \in alive \cup {q} : ~Below(b, a)
      BY <1>1, <1>5, <2>6, <2>7, <2>8, <3>1, Chars
    <3>4. t.e.on \cap A \subseteq (alive \cup {q}) \cup {p}
      BY <1>5, <2>2, <3>1
    <3>5. QED
      BY <2>5, <3>2, <3>3, <3>4 DEF Alone, A
  <2>11. alive \cup {q} \subseteq t.e.on /\ t.e.on \ A = e.on \ A
    BY <1>1, <1>2, <2>2, <2>4
  <2>12. \A x \in t.e.on \ e.on, r \in e.on \ A : ~Below(x, r)
    <3>1. SUFFICES ASSUME NEW x \in t.e.on \ e.on, NEW r \in e.on \ A, Below(x, r)
                   PROVE  FALSE
      OBVIOUS
    <3>2. r \in s.e.on /\ r \notin s.dying \cup {q}
      BY <1>1, <1>2
    <3>3. x = q
      BY <1>2, <2>2, <3>1
    <3>4. QED
      BY <2>7, <3>1, <3>2, <3>3
  <2>13. ASSUME NEW x \in Paths \ A
         PROVE  Weaker(e, t.e, x) /\ (x \in t.e.given <=> x \in e.given)
    <3>1. x # q /\ x \notin K
      BY <1>1, <2>4
    <3>2. Weaker(e, s.e, x) /\ Weaker(s.e, t.e, x) /\ (x \in s.e.given <=> x \in e.given)
      BY <1>2, <2>2, <3>1
    <3>3. /\ T(e, x) \in Nat /\ T(s.e, x) \in Nat /\ T(t.e, x) \in Nat
          /\ L(e, x) \in Nat /\ L(s.e, x) \in Nat /\ L(t.e, x) \in Nat
      BY <1>3
    <3>4. Weaker(e, t.e, x)
      BY <3>2, <3>3 DEF Weaker
    <3>5. QED
      BY <2>2, <3>1, <3>2, <3>4
  <2>14. F(t.e) <= 1
    BY <1>2, <1>3, <2>2
  <2>15. e.hurt \subseteq t.e.hurt
    BY <1>2, <2>2
  <2>16. QED
    BY <1>4, <2>2, <2>5, <2>10, <2>11, <2>12, <2>13, <2>14, <2>15 DEF Among, A, E
<1>9. QED
  BY <1>6, <1>7, <1>8 DEF Stays

\* How the trigger gets through the list.
Begun(e, room) == [e |-> e, dying |-> {}, room |-> room]

IsAfter(g, b, P, Again) ==
  g = [n \in 0 .. Len(Order) |->
         IF n = 0 THEN b
         ELSE IF Order[n] \in P THEN Dies(g[n - 1], Order[n], Again) ELSE g[n - 1]]

After(b, P, Again) == CHOOSE g : IsAfter(g, b, P, Again)

LEMMA AfterIs ==
  ASSUME NEW b \in Places, NEW P \in SUBSET Paths, NEW Again, NEW step,
         step = [n \in Nat |-> [s \in Places |->
                   IF n \in 1 .. N THEN Dies(s, Order[n], Again) ELSE s]]
  PROVE  step \in Steppers(Places) /\ Turns(After(b, P, Again), b, P, Places, step)
<1> DEFINE g == After(b, P, Again)
<1>1. N \in Nat /\ \A i \in 1 .. N : Order[i] \in Paths
  BY Listed
<1>2. ASSUME NEW i \in 1 .. N, NEW s \in Places
      PROVE  step[i][s] = Dies(s, Order[i], Again)
  BY <1>1
<1>3. step \in Steppers(Places)
  <2>1. ASSUME NEW i \in Nat, NEW s \in Places
        PROVE  (IF i \in 1 .. N THEN Dies(s, Order[i], Again) ELSE s) \in Places
    BY <1>1, DiesIs
  <2>2. QED
    BY <2>1 DEF Steppers
<1>4. IsAfter(g, b, P, Again)
  <2>1. PICK f \in [0 .. N -> Places] : Turns(f, b, P, Places, step)
    BY <1>3, TurnsThere
  <2>2. ASSUME NEW i \in 0 .. N
        PROVE  f[i] = IF i = 0 THEN b
                      ELSE IF Order[i] \in P THEN Dies(f[i - 1], Order[i], Again) ELSE f[i - 1]
    <3>1. CASE i = 0
      BY <2>1, <3>1 DEF Turns
    <3>2. CASE i # 0
      <4>1. i \in 1 .. N /\ i - 1 \in 0 .. N
        BY <1>1, <3>2
      <4>2. f[i] = IF Order[i] \in P THEN step[i][f[i - 1]] ELSE f[i - 1]
        BY <2>1, <4>1 DEF Turns
      <4>3. QED
        BY <1>2, <2>1, <3>2, <4>1, <4>2
    <3>3. QED
      BY <3>1, <3>2
  <2>3. f = [i \in 0 .. N |-> f[i]]
    OBVIOUS
  <2>4. IsAfter(f, b, P, Again)
    BY <2>2, <2>3 DEF IsAfter, N
  <2>5. QED
    BY <2>4 DEF After
<1> HIDE DEF g
<1>5. g[0] = b
  BY <1>1, <1>4 DEF IsAfter, N
<1>6. ASSUME NEW i \in 1 .. N, g[i - 1] \in Places
      PROVE  g[i] = IF Order[i] \in P THEN step[i][g[i - 1]] ELSE g[i - 1]
  <2>1. i \in 0 .. N /\ i # 0
    BY <1>1
  <2>2. g[i] = IF Order[i] \in P THEN Dies(g[i - 1], Order[i], Again) ELSE g[i - 1]
    BY <1>4, <2>1 DEF IsAfter, N
  <2>3. QED
    BY <1>2, <1>6, <2>2
<1>7. QED
  BY <1>3, <1>5, <1>6 DEF Turns, g

\* At the end the dying go, and then the observer that failed.
Buried(s) == [s.e EXCEPT !.nodes = @ \ s.dying, !.on = @ \ s.dying]

LEMMA TriggerIs ==
  ASSUME NEW e, Right(e), F(e) = 0, NEW i \in DOMAIN e.observers,
         e.observers[i].to = "trigger", NEW p, p = e.observers[i].path,
         NEW Again, NEW room \in Int
  PROVE  \E s : /\ Among(Failing(e, i), p, s, Told(e, p))
                /\ Trigger(e, i, Again, room) = Failed(Buried(s))
<1> DEFINE A == Told(e, p)
           f == Failing(e, i)
           b == Begun(f, room)
           Die(s, q) == Dies(s, q, Again)
           end == InTurn([e |-> f, dying |-> {}, room |-> room], A, Die)
           g == After(b, A, Again)
           step == [n \in Nat |-> [s \in Places |->
                      IF n \in 1 .. N THEN Dies(s, Order[n], Again) ELSE s]]
           R == {r \in Places \X SUBSET A : Among(f, p, r[1], r[2])}
<1>1. /\ e \in Events /\ e.on \subseteq e.nodes /\ e.nodes \subseteq Paths
      /\ A \subseteq e.nodes /\ A \subseteq Paths
      /\ Once(e) /\ Outer(e)
      /\ \A x \in Paths : T(e, x) \in Nat /\ L(e, x) \in Nat
  BY EventFields DEF Right, Rooted, Told
<1>2. /\ N \in Nat /\ \A n \in 1 .. N : Order[n] \in Paths
  BY Listed
<1>3. Fails(e, f, i) /\ p \in Paths
  BY <1>1, FailingIs
<1>4. Trigger(e, i, Again, room)
        = Failed([end.e EXCEPT !.nodes = @ \ end.dying, !.on = @ \ end.dying])
  BY DEF Trigger
<1>5. end = g[N]
  BY DEF InTurn, After, IsAfter, Begun, N
<1> HIDE DEF f, end, A
<1>6. /\ f \in Events /\ f.nodes = e.nodes /\ f.on = e.on /\ e.hurt \subseteq f.hurt
      /\ F(f) = 1
      /\ \A x \in Paths : T(f, x) <= T(e, x) /\ L(f, x) <= L(e, x)
      /\ \A x \in Paths \ {p} : T(f, x) = T(e, x)
      /\ p \in f.hurt \/ T(f, p) < T(e, p)
      /\ \A x \in Paths : T(f, x) \in Nat /\ L(f, x) \in Nat
  BY <1>3, EventFields DEF Fails
<1>7. b \in Places /\ b.e = f /\ b.dying = {}
  BY <1>6 DEF Begun, Places
<1> HIDE DEF b
<1>8. step \in Steppers(Places) /\ Turns(g, b, A, Places, step)
  BY <1>1, <1>7, AfterIs
<1>9. A = Told(f, p)
  BY <1>6 DEF A, Told
<1>10. ASSUME NEW n \in 1 .. N, NEW s \in Places
       PROVE  step[n][s] = Dies(s, Order[n], Again)
  BY <1>2
<1> HIDE DEF step, g
<1>11. <<b, {}>> \in R
  <2>1. ASSUME Spared(f, p)
        PROVE  Alone(f, p, b, {})
    <3>1. Spared(e, p) /\ p \notin f.hurt
      BY <1>3, <1>6, <2>1, Chars DEF Spared
    <3>2. p \in e.on /\ T(e, p) = 1 /\ L(e, p) = 0 /\ T(f, p) = 0 /\ L(f, p) = 0
      <4>1. T(e, p) + L(e, p) <= (IF p \in e.on THEN 1 ELSE 0)
        BY <1>1, <1>3, <3>1 DEF Once
      <4>2. T(f, p) < T(e, p) /\ T(f, p) \in Nat /\ T(e, p) \in Nat /\ L(e, p) \in Nat
            /\ L(f, p) \in Nat /\ L(f, p) <= L(e, p)
        BY <1>1, <1>3, <1>6, <3>1
      <4>3. QED
        BY <4>1, <4>2
    <3>3. \A x \in e.on : Within(x, p) => x = p
      BY <1>1, <3>1, <3>2, BelowIs DEF Outer
    <3>4. \A x \in e.on \cap A : x = p
      BY <3>3 DEF Told, A
    <3>5. ASSUME NEW x \in A, Spared(f, x)
          PROVE  T(f, x) <= 0 /\ L(f, x) = 0
      <4>1. CASE x = p
        BY <3>2, <4>1
      <4>2. CASE x # p
        <5>1. x \in Paths /\ x \notin e.on /\ Spared(e, x)
          BY <1>1, <1>6, <3>4, <3>5, <4>2 DEF Spared
        <5>2. T(e, x) + L(e, x) <= 0
          BY <1>1, <5>1 DEF Once
        <5>3. T(f, x) <= T(e, x) /\ L(f, x) <= L(e, x) /\ T(e, x) \in Nat /\ L(e, x) \in Nat
              /\ T(f, x) \in Nat /\ L(f, x) \in Nat
          BY <1>1, <1>6, <5>1
        <5>4. QED
          BY <5>2, <5>3
      <4>3. QED
        BY <4>1, <4>2
    <3>6. QED
      BY <1>6, <1>7, <1>9, <3>4, <3>5 DEF Alone
  <2>2. \A x \in Paths : Weaker(f, f, x)
    BY <1>6 DEF Weaker
  <2>3. Among(f, p, b, {})
    BY <1>1, <1>6, <1>7, <2>1, <2>2 DEF Among
  <2>4. QED
    BY <1>7, <2>3
<1>12. ASSUME NEW n \in 1 .. N, NEW s \in Places, NEW K \in SUBSET A,
              <<s, K>> \in R, Order[n] \in A \ K, \A k \in K : ~Within(k, Order[n])
       PROVE  <<step[n][s], K \cup {Order[n]}>> \in R
  <2> DEFINE q == Order[n]
             t == Dies(s, q, Again)
  <2>1. t \in Places /\ Stays(s, t, q) /\ step[n][s] = t
    BY <1>2, <1>10, DiesIs
  <2>2. Among(f, p, s, K) /\ q \in Told(f, p) \ K /\ f.on \subseteq f.nodes
    BY <1>1, <1>6, <1>9, <1>12
  <2> HIDE DEF t
  <2>3. Among(f, p, t, K \cup {q})
    BY <1>3, <1>6, <1>12, <2>1, <2>2, AmongNext
  <2>4. K \cup {q} \in SUBSET A
    BY <1>12
  <2>5. QED
    BY <2>1, <2>3, <2>4
<1>13. <<g[N], A>> \in R
  <2> HIDE DEF R
  <2>1. R \subseteq Places \X SUBSET A
    BY DEF R
  <2>2. \A n \in 1 .. N, v \in Places, K \in SUBSET A :
          <<v, K>> \in R /\ Order[n] \in A \ K /\ (\A k \in K : ~Within(k, Order[n]))
            => <<step[n][v], K \cup {Order[n]}>> \in R
    BY <1>12
  <2>3. A \in SUBSET Paths /\ b \in Places
    BY <1>1, <1>7
  <2>4. QED
    BY <1>8, <1>11, <2>1, <2>2, <2>3, TurnsReach
<1>14. Among(f, p, g[N], A)
  BY <1>13
<1>15. QED
  BY <1>4, <1>5, <1>14 DEF Buried, f, A

LEMMA BuriedRight ==
  ASSUME NEW e, Right(e), F(e) = 0, NEW i \in DOMAIN e.observers,
         e.observers[i].to = "trigger", NEW p, p = e.observers[i].path,
         NEW s, Among(Failing(e, i), p, s, Told(e, p))
  PROVE  Right(Buried(s)) /\ F(Buried(s)) <= 1
<1> DEFINE A == Told(e, p)
           f == Failing(e, i)
           r == Buried(s)
           alive == A \ s.dying
<1>1. /\ e \in Events /\ e.nodes \subseteq Paths /\ e.on \subseteq Paths
      /\ \A x \in Paths : T(e, x) \in Nat /\ L(e, x) \in Nat
      /\ A \subseteq e.nodes /\ A \subseteq Paths
      /\ \A x \in A : Within(x, p)
      /\ \A x \in e.nodes : Within(x, p) => x \in A
  BY EventFields DEF Right, Told
<1>2. Rooted(e) /\ Covers(e) /\ Once(e) /\ Outer(e) /\ Inner(e) /\ Stands(e)
  BY DEF Right
<1>3. Fails(e, f, i) /\ p \in Paths
  BY <1>1, FailingIs
<1> HIDE DEF f
<1>4. /\ f \in Events /\ f.nodes = e.nodes /\ f.on = e.on /\ e.hurt \subseteq f.hurt
      /\ f.given = e.given /\ f.robbed = e.robbed
      /\ \A x \in Paths : T(f, x) <= T(e, x) /\ L(f, x) <= L(e, x)
      /\ \A x \in Paths \ {p} : T(f, x) = T(e, x)
      /\ p \in f.hurt \/ T(f, p) < T(e, p)
      /\ \A x \in Paths : T(f, x) \in Nat /\ L(f, x) \in Nat
  BY <1>3, EventFields DEF Fails
<1>5. /\ s \in Places /\ s.e \in Events /\ s.e.on \subseteq Paths
      /\ s.dying \subseteq A /\ alive \subseteq s.e.on
      /\ s.e.nodes = e.nodes
      /\ s.e.on \ A = e.on \ A
      /\ f.hurt \subseteq s.e.hurt /\ F(s.e) <= 1
      /\ \A x \in s.e.on \ e.on, o \in e.on \ A : ~Below(x, o)
      /\ \A x \in Paths \ A : Weaker(f, s.e, x) /\ (x \in s.e.given <=> x \in e.given)
      /\ Spared(f, p) => Alone(f, p, s, A)
  <2>1. Told(f, p) = A
    BY <1>4 DEF Told
  <2> HIDE DEF A
  <2>2. Among(f, p, s, A)
    BY DEF A, f
  <2>3. s \in Places /\ s.e \in Events /\ s.e.on \subseteq Paths
    BY <2>2, PlaceFields, EventFields DEF Among
  <2>4. QED
    BY <1>4, <2>1, <2>2, <2>3 DEF Among
<1>6. /\ r \in Events /\ r.nodes = e.nodes \ s.dying /\ r.on = s.e.on \ s.dying
      /\ r.given = s.e.given /\ r.robbed = s.e.robbed /\ r.hurt = s.e.hurt
      /\ F(r) = F(s.e)
      /\ \A x : T(r, x) = T(s.e, x) /\ L(r, x) = L(s.e, x)
  <2> DEFINE nodes == e.nodes \ s.dying
             on == s.e.on \ s.dying
  <2>1. r = [s.e EXCEPT !.nodes = nodes, !.on = on]
    BY <1>5 DEF Buried
  <2>2. nodes \in SUBSET Paths /\ on \in SUBSET Paths
    BY <1>1, <1>5
  <2> HIDE DEF nodes, on, r
  <2>3. /\ r \in Events /\ r.nodes = nodes /\ r.on = on /\ r.observers = s.e.observers
        /\ r.given = s.e.given /\ r.robbed = s.e.robbed /\ r.hurt = s.e.hurt
    BY <1>5, <2>1, <2>2 DEF Events
  <2>4. QED
    BY <2>3 DEF T, L, F, nodes, on
<1> HIDE DEF r
<1>7. \A x \in Paths : T(r, x) \in Nat /\ L(r, x) \in Nat
  BY <1>6, EventFields
<1>8. Spared(f, p) => /\ p \in A /\ p \in e.on /\ T(e, p) > 0 /\ Spared(e, p)
                      /\ Alone(f, p, s, A)
  <2>1. SUFFICES ASSUME Spared(f, p)
                 PROVE  p \in A /\ p \in e.on /\ T(e, p) > 0 /\ Spared(e, p)
    BY <1>5
  <2>2. Spared(e, p) /\ p \notin f.hurt
    BY <1>3, <1>4, <2>1, Chars DEF Spared
  <2>3. /\ T(f, p) < T(e, p) /\ T(f, p) \in Nat /\ T(e, p) \in Nat /\ L(e, p) \in Nat
        /\ T(e, p) + L(e, p) <= (IF p \in e.on THEN 1 ELSE 0)
    BY <1>1, <1>2, <1>3, <1>4, <2>2 DEF Once
  <2>4. T(e, p) > 0 /\ p \in e.on
    BY <2>3
  <2>5. p \in A
    BY <1>1, <1>2, <1>3, <2>4, Chars DEF Rooted
  <2>6. QED
    BY <2>2, <2>4, <2>5
<1>9. \A x \in Paths : Spared(r, x) => Spared(f, x) /\ Spared(e, x) /\ Spared(s.e, x)
  BY <1>4, <1>5, <1>6 DEF Spared
<1>10. Told(f, p) = A
  BY <1>4 DEF Told
<1> HIDE DEF A
<1>11. /\ \A x \in A : x \in r.on <=> x \in alive
       /\ \A x : x \notin A => (x \in r.on <=> x \in e.on)
       /\ r.on \subseteq Paths
  BY <1>5, <1>6
<1>12. ASSUME NEW x \in A, Spared(r, x)
       PROVE  /\ Spared(f, p) /\ T(r, x) <= (IF x \in alive THEN 1 ELSE 0) /\ L(r, x) = 0
              /\ x \in alive => T(r, x) > 0 \/ x \in r.robbed
              /\ \A a, b \in alive : ~Below(b, a)
  <2>1. Spared(f, p) /\ Spared(s.e, x) /\ x \in Paths
    <3>1. x \in Paths /\ Within(x, p) /\ Spared(f, x) /\ Spared(s.e, x)
      BY <1>1, <1>9, <1>12
    <3>2. Spared(f, p)
      BY <1>3, <1>4, <3>1, SparedAbove
    <3>3. QED
      BY <3>1, <3>2
  <2>2. /\ T(s.e, x) <= (IF x \in alive THEN 1 ELSE 0) /\ L(s.e, x) = 0
        /\ x \in alive => T(s.e, x) > 0 \/ x \in s.e.robbed
        /\ \A a, b \in alive : ~Below(b, a)
    BY <1>5, <1>10, <1>12, <2>1 DEF Alone
  <2>3. QED
    BY <1>6, <2>1, <2>2
<1>13. ASSUME NEW x \in Paths \ A, Spared(r, x)
       PROVE  /\ Spared(e, x) /\ T(r, x) <= T(e, x) /\ L(r, x) <= L(e, x)
              /\ T(e, x) > 0 => T(r, x) > 0 \/ x \in r.robbed
              /\ x \in e.robbed => x \in r.robbed
              /\ x \in r.given <=> x \in e.given
  <2>1. Spared(e, x) /\ Spared(f, x) /\ x # p
    BY <1>8, <1>9, <1>13
  <2>2. /\ Weaker(f, s.e, x) /\ (x \in s.e.given <=> x \in e.given)
        /\ T(f, x) = T(e, x) /\ L(f, x) <= L(e, x)
        /\ L(e, x) \in Nat /\ L(f, x) \in Nat /\ L(r, x) \in Nat
    BY <1>1, <1>4, <1>5, <1>7, <2>1
  <2>3. QED
    BY <1>4, <1>6, <2>1, <2>2 DEF Weaker
\* What is below something within p is within p.
<1>14. \A a \in A, b \in r.on : Below(b, a) => b \in A
  <2>1. SUFFICES ASSUME NEW a \in A, NEW b \in r.on, Below(b, a), b \notin A
                 PROVE  FALSE
    OBVIOUS
  <2>2. b \in e.on /\ b \in e.nodes /\ b \in Paths /\ a \in Paths /\ Within(a, p)
    BY <1>1, <1>2, <1>11, <2>1 DEF Rooted
  <2>3. Within(b, p)
    BY <1>3, <2>1, <2>2, BelowIs, Deeper
  <2>4. QED
    BY <1>1, <2>1, <2>2, <2>3
<1>15. Rooted(r)
  BY <1>1, <1>2, <1>5, <1>6 DEF Rooted
<1>16. Covers(r)
  <2>1. SUFFICES ASSUME NEW x \in r.nodes
                 PROVE  \E c \in r.on : Within(x, c)
    BY DEF Covers
  <2>2. x \in e.nodes /\ x \notin s.dying /\ x \in Paths
    BY <1>1, <1>6
  <2>3. CASE x \in A
    BY <1>11, <2>2, <2>3, Chars
  <2>4. CASE x \notin A
    <3>1. PICK c \in e.on : Within(x, c)
      BY <1>2, <2>2 DEF Covers
    <3>2. c \notin A
      <4>1. ASSUME c \in A
            PROVE  FALSE
        <5>1. Within(x, p)
          BY <1>1, <1>3, <2>2, <3>1, <4>1, Deeper
        <5>2. QED
          BY <1>1, <2>2, <2>4, <5>1
      <4>2. QED
        BY <4>1
    <3>3. QED
      BY <1>11, <3>1, <3>2
  <2>5. QED
    BY <2>3, <2>4
<1>17. Once(r)
  <2>1. SUFFICES ASSUME NEW x \in Paths, Spared(r, x)
                 PROVE  T(r, x) + L(r, x) <= (IF x \in r.on THEN 1 ELSE 0)
    BY DEF Once
  <2>2. CASE x \in A
    <3>1. T(r, x) <= (IF x \in alive THEN 1 ELSE 0) /\ L(r, x) = 0 /\ T(r, x) \in Nat
      BY <1>7, <1>12, <2>1, <2>2
    <3>2. QED
      BY <1>11, <2>2, <3>1
  <2>3. CASE x \notin A
    <3>1. /\ Spared(e, x) /\ T(r, x) <= T(e, x) /\ L(r, x) <= L(e, x)
          /\ T(r, x) \in Nat /\ L(r, x) \in Nat /\ T(e, x) \in Nat /\ L(e, x) \in Nat
      BY <1>1, <1>7, <1>13, <2>1, <2>3
    <3>2. T(e, x) + L(e, x) <= (IF x \in e.on THEN 1 ELSE 0)
      BY <1>2, <3>1 DEF Once
    <3>3. x \in r.on <=> x \in e.on
      BY <1>11, <2>3
    <3>4. QED
      BY <3>1, <3>2, <3>3
  <2>4. QED
    BY <2>2, <2>3
<1>18. Outer(r)
  <2>1. SUFFICES ASSUME NEW a \in r.on, NEW b \in r.on, Below(b, a), Spared(r, a)
                 PROVE  T(r, a) = 0
    BY DEF Outer
  <2>2. CASE a \in A
    <3>1. b \in A
      BY <1>14, <2>1, <2>2
    <3>2. QED
      BY <1>11, <1>12, <2>1, <2>2, <3>1
  <2>3. CASE a \notin A
    <3>1. /\ a \in e.on /\ a \in Paths /\ Spared(e, a) /\ T(r, a) <= T(e, a)
          /\ T(r, a) \in Nat /\ T(e, a) \in Nat
      BY <1>1, <1>7, <1>11, <1>13, <2>1, <2>3
    <3>2. b \in e.on
      BY <1>5, <1>6, <2>1, <2>3, <3>1
    <3>3. T(e, a) = 0
      BY <1>2, <2>1, <3>1, <3>2 DEF Outer
    <3>4. QED
      BY <3>1, <3>3
  <2>4. QED
    BY <2>2, <2>3
<1>19. Inner(r)
  <2>1. SUFFICES ASSUME NEW a \in r.on, NEW b \in r.on, Below(b, a), Spared(r, b)
                 PROVE  T(r, b) = 0
    BY DEF Inner
  <2>2. CASE a \in A
    <3>1. b \in A
      BY <1>14, <2>1, <2>2
    <3>2. QED
      BY <1>11, <1>12, <2>1, <2>2, <3>1
  <2>3. CASE a \notin A /\ b \notin A
    <3>1. /\ a \in e.on /\ b \in e.on /\ b \in Paths /\ Spared(e, b) /\ T(r, b) <= T(e, b)
          /\ T(r, b) \in Nat /\ T(e, b) \in Nat
      BY <1>1, <1>7, <1>11, <1>13, <2>1, <2>3
    <3>2. T(e, b) = 0
      BY <1>2, <2>1, <3>1 DEF Inner
    <3>3. QED
      BY <3>1, <3>2
  <2>4. CASE a \notin A /\ b \in A
    <3>1. Spared(e, p) /\ p \in A /\ p \in e.on /\ T(e, p) > 0
      BY <1>8, <1>12, <2>1, <2>4
    <3>2. a \in e.on /\ a \in e.nodes /\ a \in Paths /\ b \in Paths /\ Within(b, p) /\ Within(b, a)
      BY <1>1, <1>2, <1>11, <2>1, <2>4, BelowIs DEF Rooted
    <3>3. ~Within(a, p)
      BY <1>1, <2>4, <3>2
    <3>4. Below(p, a)
      BY <1>3, <2>4, <3>1, <3>2, <3>3, BelowIs, Deeper
    <3>5. T(e, p) = 0
      BY <1>2, <3>1, <3>2, <3>4 DEF Inner
    <3>6. QED
      BY <3>1, <3>5
  <2>5. QED
    BY <2>2, <2>3, <2>4
<1>20. Stands(r)
  <2>1. SUFFICES ASSUME NEW x \in r.on, Spared(r, x)
                 PROVE  T(r, x) > 0 \/ x \in r.given \/ x \in r.robbed
    BY DEF Stands
  <2>2. CASE x \in A
    BY <1>11, <1>12, <2>1, <2>2
  <2>3. CASE x \notin A
    <3>1. /\ x \in e.on /\ Spared(e, x)
          /\ T(e, x) > 0 => T(r, x) > 0 \/ x \in r.robbed
          /\ x \in e.robbed => x \in r.robbed
          /\ x \in r.given <=> x \in e.given
      BY <1>11, <1>13, <2>1, <2>3
    <3>2. QED
      BY <1>2, <3>1 DEF Stands
  <2>4. QED
    BY <2>2, <2>3
<1>21. QED
  BY <1>5, <1>6, <1>15, <1>16, <1>17, <1>18, <1>19, <1>20 DEF Right, r

LEMMA TriggerRight ==
  ASSUME NEW e, Right(e), F(e) = 0, NEW i \in DOMAIN e.observers,
         e.observers[i].to = "trigger", NEW Again, NEW room \in Int
  PROVE  Right(Trigger(e, i, Again, room)) /\ F(Trigger(e, i, Again, room)) = 0
<1> DEFINE p == e.observers[i].path
<1>1. PICK s : /\ Among(Failing(e, i), p, s, Told(e, p))
               /\ Trigger(e, i, Again, room) = Failed(Buried(s))
  BY TriggerIs, Zenon
<1>2. Right(Buried(s)) /\ F(Buried(s)) <= 1
  BY <1>1, BuriedRight, Zenon
<1>3. QED
  BY <1>1, <1>2, FailedRight
-----------------------------------------------------------------------------
(* The invariant, and what follows from it.                                  *)

LEMMA Start == Init => IInv
<1> SUFFICES ASSUME Init
             PROVE  Right(event) /\ F(event) = 0
  BY DEF IInv
<1>1. event = [nodes |-> {}, on |-> {}, observers |-> <<>>,
               given |-> {}, robbed |-> {}, hurt |-> {}]
  BY DEF Init
<1>2. <<>> \in Seq(Observers) /\ \A G : Count(<<>>, G) = 0
  <2>1. <<>> \in Seq(Observers)
    OBVIOUS
  <2>2. ASSUME NEW G
        PROVE  Count(<<>>, G) = 0
    <3>1. {i \in DOMAIN <<>> : <<>>[i] \in G} = {}
      OBVIOUS
    <3>2. QED
      BY <3>1, FS_EmptySet, Zenon DEF Count
  <2>3. QED
    BY <2>1, <2>2
<1>3. /\ event \in Events /\ event.nodes = {} /\ event.on = {} /\ event.observers = <<>>
      /\ event.given = {}
  BY <1>1, <1>2 DEF Events
<1>4. F(event) = 0 /\ \A p \in Paths : T(event, p) = 0 /\ L(event, p) = 0
  BY <1>2, <1>3 DEF T, L, F
<1>5. Once(event)
  BY <1>3, <1>4 DEF Once
<1>6. QED
  BY <1>3, <1>4, <1>5 DEF Right, Rooted, Covers, Outer, Inner, Stands

LEMMA RoomIs ==
  ASSUME NEW p, NEW room \in RoomsAt(p)
  PROVE  room \in Int
<1>1. Cardinality(Paths) \in Nat
  BY Finite, FS_CardinalityType
<1>2. Rooms \subseteq Nat
  BY EventAssumption
<1>3. QED
  BY <1>1, <1>2 DEF RoomsAt

LEMMA Step == IInv /\ [Next]_event => IInv'
<1> SUFFICES ASSUME Right(event), F(event) = 0, [Next]_event
             PROVE  Right(event') /\ F(event') = 0
  BY DEF IInv, Right, Rooted, Covers, Once, Outer, Inner, Stands, Spared, T, L, F
<1>1. ASSUME NEW e, Right(e), F(e) <= 0
      PROVE  F(e) = 0
  <2>1. F(e) \in Nat
    BY <1>1, EventFields DEF Right
  <2>2. QED
    BY <1>1, <2>1
<1>2. ASSUME NEW p \in Paths, On(p)
      PROVE  Right(event') /\ F(event') = 0
  <2>1. PICK room : event' = Add(event, p, {}, room)
    BY <1>2 DEF On, Becomes
  <2>2. Right(event') /\ F(event') <= 0
    BY <2>1, AddRight
  <2>3. QED
    BY <1>1, <2>2
<1>3. ASSUME NEW p \in Paths, Off(p)
      PROVE  Right(event') /\ F(event') = 0
  <2>1. PICK q, room, sent : /\ q \in NodeFind(event, p)
                             /\ event' = Delete(event, p, q, room, sent)
    BY <1>3 DEF Off, Becomes
  <2>2. q \in event.nodes /\ Within(q, p)
    BY <2>1 DEF NodeFind, FirstOf, Told
  <2>3. Right(event') /\ F(event') <= 0
    BY <2>1, <2>2, DeleteRight
  <2>4. QED
    BY <1>1, <2>3
<1>4. ASSUME NEW i \in DOMAIN event.observers, Fail(i)
      PROVE  Right(event') /\ F(event') = 0
  <2> DEFINE p == event.observers[i].path
  <2>1. PICK Again \in SUBSET Told(event, p), room \in RoomsAt(p) :
          event' = Trigger(event, i, Again, room)
    BY <1>4 DEF Fail, Becomes
  <2>2. event.observers[i].to = "trigger" /\ room \in Int
    BY <1>4, <2>1, RoomIs DEF Fail
  <2>3. QED
    BY <2>1, <2>2, TriggerRight
<1>5. ASSUME NEW i \in DOMAIN event.observers, FailDirect(i)
      PROVE  Right(event') /\ F(event') = 0
  <2> DEFINE f == Failing(event, i)
  <2>1. PICK again \in BOOLEAN, room \in RoomsAt(event.observers[i].path) :
          event' = Failed(IF again THEN Add(f, event.observers[i].path, {}, room) ELSE f)
    BY <1>5 DEF FailDirect, Becomes
  <2>2. event \in Events /\ event.observers[i].to = "listener"
    BY <1>5 DEF FailDirect, Right
  <2>3. event.observers[i].path \in Paths /\ Right(f) /\ F(f) = 1
    BY <2>2, FailingIs, DirectRight
  <2> HIDE DEF f
  <2>4. CASE again
    <3> DEFINE r == Add(f, event.observers[i].path, {}, room)
    <3>1. Right(r) /\ F(r) <= 1
      BY <2>3, AddRight
    <3>2. event' = Failed(r)
      BY <2>1, <2>4
    <3> HIDE DEF r
    <3>3. QED
      BY <3>1, <3>2, FailedRight
  <2>5. CASE ~again
    BY <2>1, <2>3, <2>5, FailedRight
  <2>6. QED
    BY <2>4, <2>5
<1>6. CASE UNCHANGED event
  BY <1>6
<1>7. QED
  BY <1>2, <1>3, <1>4, <1>5, <1>6 DEF Next

\* The inductive invariant, over the list of the observers that the connection keeps
\* and the paths with an observer: of those not left, none is there twice, every
\* listener is within a path that was asked for, and of two nested ones neither
\* answers to the trigger (_wilddog_event_nodeAdd, _wilddog_event_nodeDelete,
\* _wilddog_event_trigger, _wilddog_conn_removeObserver).
THEOREM Invariance == Spec => []IInv
<1>1. QED
  BY Start, Step, PTL DEF Spec

\* The types, and that the callback of an error ends with the observer gone.
THEOREM TypeCorrect == Spec => []TypeOK
<1>1. IInv => TypeOK
  <2>1. SUFFICES ASSUME event \in Events, F(event) = 0, NEW i \in DOMAIN event.observers,
                        event.observers[i].mark = "failing"
                 PROVE  FALSE
    BY DEF IInv, Right, TypeOK
  <2>2. event.observers \in Seq(Observers) /\ F(event) = Count(event.observers, InError)
    BY <2>1, EventFields DEF F
  <2>3. event.observers[i] \in InError
    BY <2>1, <2>2 DEF InError
  <2>4. Count(event.observers, InError) > 0
    BY <2>1, <2>2, <2>3, CountType
  <2>5. QED
    BY <2>1, <2>2, <2>4
<1>2. QED
  BY <1>1, Invariance, PTL

\* Every listener is within a path whose observer was asked for.
THEOREM AllCovered == Spec => []Covered
<1>1. IInv => Covered
  BY DEF IInv, Right, Covers, Covered
<1>2. QED
  BY <1>1, Invariance, PTL

LEMMA LiveIs ==
  ASSUME NEW e, NEW p
  PROVE  Live(e, p, "trigger") = T(e, p) /\ Live(e, p, "listener") = L(e, p)
<1>1. ASSUME NEW t
      PROVE  Live(e, p, t) = Count(e.observers, {Observer(p, t)})
  <2>1. {i \in DOMAIN e.observers : e.observers[i] = Observer(p, t)}
          = {i \in DOMAIN e.observers : e.observers[i] \in {Observer(p, t)}}
    OBVIOUS
  <2>2. QED
    BY <2>1 DEF Live, Count, Observer
<1>2. QED
  BY <1>1 DEF T, L

\* Where no command got lost, the connection keeps an observer for each ON_FLAG at
\* most and none without it, besides those it left.
THEOREM NoneLeftOver == Spec => []NoOrphans
<1>1. IInv => NoOrphans
  BY LiveIs DEF IInv, Right, Once, NoOrphans
<1>2. QED
  BY <1>1, Invariance, PTL

\* Where no command got lost, no listener is told of a change by two observers,
\* those left aside.
THEOREM ToldAtMostOnce == Spec => []ToldOnce
<1>1. IInv => ToldOnce
  <2>1. SUFFICES ASSUME Right(event), NEW q \in event.nodes, Spared(event, q)
                 PROVE  Cardinality(Reach(q)) <= 1
    BY DEF IInv, ToldOnce
  <2>2. /\ event \in Events /\ q \in Paths /\ event.on \subseteq Paths
        /\ \A x \in Paths : T(event, x) \in Nat /\ L(event, x) \in Nat
    BY <2>1, EventFields DEF Right
  <2>3. ASSUME NEW p \in Paths, Within(q, p)
        PROVE  /\ Spared(event, p)
               /\ T(event, p) + L(event, p) <= (IF p \in event.on THEN 1 ELSE 0)
    BY <2>1, <2>2, <2>3, SparedAbove DEF Right, Once
  <2>4. \A o \in Reach(q) :
          \/ \E p \in Paths : o = <<p, "trigger">> /\ Within(q, p) /\ T(event, p) > 0
          \/ o = <<q, "listener">> /\ L(event, q) > 0
    BY LiveIs DEF Reach, Targets
  \* Two of the trigger would be nested.
  <2>5. ASSUME NEW p \in Paths, NEW r \in Paths, Within(q, p), Within(q, r),
               T(event, p) > 0, T(event, r) > 0
        PROVE  p = r
    <3>1. p \in event.on /\ r \in event.on /\ Spared(event, p) /\ Spared(event, r)
      BY <2>2, <2>3, <2>5
    <3>2. Below(p, r) \/ Below(r, p) \/ p = r
      BY <2>2, <2>5, BelowIs, Deeper
    <3>3. QED
      BY <2>1, <2>5, <3>1, <3>2 DEF Right, Outer
  \* One of the trigger would be above that of the listener.
  <2>6. ASSUME NEW p \in Paths, Within(q, p), T(event, p) > 0, L(event, q) > 0
        PROVE  FALSE
    <3>1. p \in event.on /\ q \in event.on /\ Spared(event, p)
      BY <2>2, <2>3, <2>6, Chars
    <3>2. p # q
      BY <2>2, <2>3, <2>6
    <3>3. QED
      BY <2>1, <2>6, <3>1, <3>2, BelowIs DEF Right, Outer
  <2>7. \A o1, o2 \in Reach(q) : o1 = o2
    BY <2>4, <2>5, <2>6
  <2>8. CASE Reach(q) = {}
    <3>1. Cardinality({}) = 0
      BY FS_EmptySet, Zenon
    <3>2. QED
      BY <2>8, <3>1
  <2>9. CASE Reach(q) # {}
    <3>1. PICK o : Reach(q) = {o}
      BY <2>7, <2>9
    <3>2. Cardinality({o}) = 1
      BY FS_Singleton, Zenon
    <3>3. QED
      BY <3>1, <3>2
  <2>10. QED
    BY <2>8, <2>9
<1>2. QED
  BY <1>1, Invariance, PTL

\* A listener hears of changes, but one within a path that was handed over, was
\* robbed of its observer or where a command got lost.
THEOREM EveryoneHears == Spec => []Hears
<1>1. IInv => Hears
  <2>1. SUFFICES ASSUME Right(event), NEW q \in event.nodes, Spared(event, q),
                        ~Robbed(q), \A g \in event.given : ~Within(q, g)
                 PROVE  Reach(q) # {}
    BY DEF IInv, Hears
  <2>2. event \in Events /\ q \in Paths /\ event.on \subseteq Paths
    BY <2>1, EventFields DEF Right
  <2>3. PICK p \in event.on : Within(q, p)
    BY <2>1 DEF Right, Covers
  <2>4. p \in Paths /\ Spared(event, p)
    BY <2>1, <2>2, <2>3, SparedAbove
  <2>5. T(event, p) > 0
    BY <2>1, <2>3, <2>4 DEF Right, Stands, Robbed
  <2>6. <<p, "trigger">> \in Reach(q)
    BY <2>3, <2>4, <2>5, LiveIs DEF Reach, Targets
  <2>7. QED
    BY <2>6
<1>2. QED
  BY <1>1, Invariance, PTL
=============================================================================
