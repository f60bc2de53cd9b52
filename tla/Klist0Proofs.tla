---------------------------- MODULE Klist0Proofs -----------------------------
(***************************************************************************)
(* What the operations on intrusive lists do to the sets of linked nodes.  *)
(* The proofs of their users rest on these facts and never look at         *)
(* positions.                                                              *)
(***************************************************************************)
EXTENDS Klist0, WellFoundedInduction, TLAPS

\* A set of natural numbers has a least element.
LEMMA LeastNumber ==
    ASSUME NEW T \in SUBSET Nat, T # {}
    PROVE  \E j \in T : \A k \in T : j <= k
<1> DEFINE R == OpToRel(<, Nat)
<1>1. IsWellFoundedOn(R, Nat)
  BY NatLessThanWellFounded
<1>2. PICK j \in T : \A k \in T : ~(<<k, j>> \in R)
  BY <1>1, WFMin, Zenon
<1>3. \A k \in T : ~(k < j)
  BY <1>2 DEF OpToRel
<1> QED BY <1>3

\* What holds at 0 and goes on from each number to the next holds up to n.
LEMMA Along ==
    ASSUME NEW V, NEW n \in Nat, NEW g, g[0] \in V,
           \A k \in 1..n : g[k - 1] \in V => g[k] \in V
    PROVE  \A k \in 0..n : g[k] \in V
<1> DEFINE T == {k \in Nat : k <= n /\ g[k] \notin V}
<1>1. T = {}
  <2> SUFFICES ASSUME T # {} PROVE FALSE
    OBVIOUS
  <2>1. PICK k \in T : \A l \in T : k <= l
    BY LeastNumber
  <2>2. k # 0
    BY <2>1
  <2>3. k - 1 \in Nat /\ k - 1 <= n /\ k \in 1..n /\ ~(k <= k - 1)
    BY <2>1, <2>2
  <2>4. g[k - 1] \in V
    BY <2>1, <2>3
  <2> QED BY <2>1, <2>3, <2>4
<1> QED BY <1>1

\* The functions with the value v at 0 and each other value made by F from the
\* one before it.
Iterates(F, v, n, V) ==
    {g \in [0..n -> V] : g[0] = v /\ \A k \in 1..n : g[k] = F[k][g[k - 1]]}

\* A function can be built up from its value at 0.
LEMMA Recursion ==
    ASSUME NEW V, NEW v \in V, NEW n \in Nat, NEW F \in [1..n -> [V -> V]]
    PROVE  Iterates(F, v, n, V) # {}
<1> DEFINE Made(m) == {g \in [0..m -> V] : g[0] = v /\ \A k \in 1..m : g[k] = F[k][g[k - 1]]}
           T == {m \in Nat : m <= n /\ Made(m) = {}}
<1>1. T = {}
  <2> SUFFICES ASSUME T # {} PROVE FALSE
    OBVIOUS
  <2>1. PICK m \in T : \A l \in T : m <= l
    BY LeastNumber
  <2>2. m # 0
    <3> DEFINE z == [i \in 0..0 |-> v]
    <3>1. z \in [0..0 -> V] /\ z[0] = v
      OBVIOUS
    <3>2. 1..0 = {}
      OBVIOUS
    <3>3. z \in Made(0)
      BY <3>1, <3>2
    <3> QED BY <2>1, <3>3
  <2>3. m \in Nat /\ m - 1 \in Nat /\ m - 1 <= n /\ m \in 1..n /\ ~(m <= m - 1)
    BY <2>1, <2>2
  <2>4. PICK f : f \in Made(m - 1)
    <3>1. m - 1 \notin T
      BY <2>1, <2>3
    <3> HIDE DEF Made
    <3> QED BY <2>3, <3>1
  <2> DEFINE g == [i \in 0..m |-> IF i = m THEN F[m][f[m - 1]] ELSE f[i]]
  <2>5. f \in [0..(m - 1) -> V] /\ f[0] = v /\ \A k \in 1..(m - 1) : f[k] = F[k][f[k - 1]]
    BY <2>4
  <2>6. F[m][f[m - 1]] \in V
    <3>1. f[m - 1] \in V
      BY <2>3, <2>5
    <3> QED BY <2>3, <3>1
  <2>7. g \in [0..m -> V]
    <3> SUFFICES ASSUME NEW i \in 0..m, i # m PROVE f[i] \in V
      BY <2>6
    <3>1. i \in 0..(m - 1)
      BY <2>3
    <3> QED BY <2>5, <3>1
  <2>8. g[0] = v
    BY <2>2, <2>3, <2>5
  <2>9. ASSUME NEW k \in 1..m PROVE g[k] = F[k][g[k - 1]]
    <3>1. k \in 0..m /\ k - 1 \in 0..m /\ k - 1 # m
      BY <2>3
    <3>2. g[k - 1] = f[k - 1]
      BY <3>1
    <3>3. CASE k = m
      BY <3>1, <3>2, <3>3
    <3>4. CASE k # m
      <4>1. k \in 1..(m - 1) /\ g[k] = f[k]
        BY <2>3, <3>1, <3>4
      <4> QED BY <2>5, <3>2, <4>1
    <3> QED BY <3>3, <3>4
  <2> HIDE DEF g
  <2>10. g \in Made(m)
    BY <2>7, <2>8, <2>9
  <2> QED BY <2>1, <2>10
<1>2. Made(n) # {}
  <2> HIDE DEF Made
  <2>1. n <= n
    OBVIOUS
  <2> QED BY <1>1, <2>1
<1> QED BY <1>2, Zenon DEF Iterates

\* A sequence without repetitions.
Distinct(s) == \A i, j \in DOMAIN s : s[i] = s[j] => i = j

\* Linking a node after the list head keeps the list free of repetitions.
LEMMA ConsDistinct ==
    ASSUME NEW S, NEW s \in Seq(S), NEW t \in S, Distinct(s), t \notin Range(s)
    PROVE  /\ <<t>> \o s \in Seq(S)
           /\ Distinct(<<t>> \o s)
           /\ Range(<<t>> \o s) = Range(s) \cup {t}
<1> DEFINE r == <<t>> \o s
<1>1. /\ r \in Seq(S)
      /\ Len(r) = Len(s) + 1
      /\ DOMAIN r = 1..(Len(s) + 1)
      /\ DOMAIN s = 1..Len(s)
      /\ Len(s) \in Nat
  OBVIOUS
<1>2. r[1] = t
  OBVIOUS
<1>3. \A i \in 2..(Len(s) + 1) : r[i] = s[i - 1] /\ i - 1 \in 1..Len(s)
  OBVIOUS
<1>4. \A i \in 1..Len(s) : r[i + 1] = s[i] /\ i + 1 \in 1..(Len(s) + 1)
  OBVIOUS
<1> HIDE DEF r
<1>5. Distinct(r)
  <2> SUFFICES ASSUME NEW i \in DOMAIN r, NEW j \in DOMAIN r, r[i] = r[j]
               PROVE  i = j
    BY DEF Distinct
  <2>1. CASE i = 1 /\ j = 1
    BY <2>1
  <2>2. CASE i = 1 /\ j # 1
    BY <2>2, <1>1, <1>2, <1>3 DEF Range
  <2>3. CASE i # 1 /\ j = 1
    BY <2>3, <1>1, <1>2, <1>3 DEF Range
  <2>4. CASE i # 1 /\ j # 1
    <3>1. /\ i - 1 \in DOMAIN s /\ j - 1 \in DOMAIN s
          /\ s[i - 1] = s[j - 1] /\ i \in Int /\ j \in Int
      BY <2>4, <1>1, <1>3
    <3>2. i - 1 = j - 1
      BY <3>1 DEF Distinct
    <3> QED BY <3>1, <3>2
  <2> QED BY <2>1, <2>2, <2>3, <2>4
<1>6. Range(r) \subseteq Range(s) \cup {t}
  BY <1>1, <1>2, <1>3 DEF Range
<1>7. Range(s) \cup {t} \subseteq Range(r)
  <2>1. t \in Range(r)
    BY <1>1, <1>2 DEF Range
  <2>2. ASSUME NEW i \in DOMAIN s PROVE s[i] \in Range(r)
    BY <1>1, <1>4 DEF Range
  <2> QED BY <2>1, <2>2 DEF Range
<1> QED BY <1>1, <1>5, <1>6, <1>7 DEF r

\* Linking a node before the list head keeps the list free of repetitions.
LEMMA AppendDistinct ==
    ASSUME NEW S, NEW s \in Seq(S), NEW t \in S, Distinct(s), t \notin Range(s)
    PROVE  /\ Append(s, t) \in Seq(S)
           /\ Distinct(Append(s, t))
           /\ Range(Append(s, t)) = Range(s) \cup {t}
  BY DEF Distinct, Range

\* Unlinking a node in the middle removes that node and no other.
LEMMA WithoutDistinct ==
    ASSUME NEW S, NEW s \in Seq(S), NEW k \in 1..Len(s), Distinct(s)
    PROVE  /\ Without(s, k) \in Seq(S)
           /\ Distinct(Without(s, k))
           /\ Range(Without(s, k)) = Range(s) \ {s[k]}
<1> DEFINE r == Without(s, k)
           a == SubSeq(s, 1, k - 1)
           b == SubSeq(s, k + 1, Len(s))
<1>a. a \in Seq(S) /\ Len(a) = k - 1 /\ \A i \in 1..(k - 1) : a[i] = s[i]
  OBVIOUS
<1>b. b \in Seq(S) /\ Len(b) = Len(s) - k /\ \A i \in 1..(Len(s) - k) : b[i] = s[i + k]
  OBVIOUS
<1>c. r = a \o b
  BY DEF Without
<1> HIDE DEF r, a, b
<1>d. r \in Seq(S) /\ Len(r) = Len(s) - 1
  BY <1>a, <1>b, <1>c
<1>1. /\ r \in Seq(S)
      /\ Len(s) \in Nat
      /\ DOMAIN r = 1..(Len(s) - 1)
      /\ DOMAIN s = 1..Len(s)
  BY <1>a, <1>b, <1>d
<1>e. \A i \in 1..(Len(s) - 1) : r[i] = IF i <= k - 1 THEN a[i] ELSE b[i - (k - 1)]
  BY <1>a, <1>b, <1>c
<1>2. \A i \in 1..(k - 1) : r[i] = s[i]
  <2> SUFFICES ASSUME NEW i \in 1..(k - 1) PROVE r[i] = s[i]
    OBVIOUS
  <2>1. i \in 1..(Len(s) - 1) /\ i <= k - 1
    BY <1>1
  <2>2. r[i] = a[i]
    BY <2>1, <1>e
  <2> QED BY <2>2, <1>a
<1>3. \A i \in k..(Len(s) - 1) : r[i] = s[i + 1]
  <2> SUFFICES ASSUME NEW i \in k..(Len(s) - 1) PROVE r[i] = s[i + 1]
    OBVIOUS
  <2>1. r[i] = b[i - (k - 1)]
    BY <1>1, <1>e
  <2>2. i - (k - 1) \in 1..(Len(s) - k) /\ (i - (k - 1)) + k = i + 1
    BY <1>1
  <2> QED BY <1>b, <2>1, <2>2
<1> DEFINE src(i) == IF i < k THEN i ELSE i + 1
<1>4. \A i \in DOMAIN r : r[i] = s[src(i)] /\ src(i) \in DOMAIN s \ {k} /\ i \in Int
  BY <1>1, <1>2, <1>3
<1>5. \A i, j \in DOMAIN r : src(i) = src(j) => i = j
  BY <1>1
<1>6. \A m \in DOMAIN s \ {k} : \E i \in DOMAIN r : src(i) = m
  <2> SUFFICES ASSUME NEW m \in DOMAIN s \ {k}
               PROVE  \E i \in DOMAIN r : src(i) = m
    OBVIOUS
  <2>1. CASE m < k
    BY <2>1, <1>1
  <2>2. CASE m > k
    <3>1. m - 1 \in DOMAIN r /\ src(m - 1) = m
      BY <2>2, <1>1
    <3> QED BY <3>1
  <2> QED BY <2>1, <2>2, <1>1
<1> HIDE DEF src
<1>7. Distinct(r)
  BY <1>4, <1>5 DEF Distinct
<1>8. Range(r) \subseteq Range(s) \ {s[k]}
  BY <1>1, <1>4 DEF Range, Distinct
<1>9. Range(s) \ {s[k]} \subseteq Range(r)
  BY <1>1, <1>4, <1>6 DEF Range
<1> QED BY <1>1, <1>7, <1>8, <1>9 DEF r

\* Unlinking the first node removes that node and no other.
LEMMA TailDistinct ==
    ASSUME NEW S, NEW s \in Seq(S), s # <<>>, Distinct(s)
    PROVE  /\ Tail(s) \in Seq(S)
           /\ Distinct(Tail(s))
           /\ Head(s) \in Range(s)
           /\ Range(Tail(s)) = Range(s) \ {Head(s)}
<1> DEFINE r == Tail(s)
<1>1. /\ r \in Seq(S)
      /\ Len(s) \in Nat \ {0}
      /\ DOMAIN r = 1..(Len(s) - 1)
      /\ DOMAIN s = 1..Len(s)
      /\ Head(s) = s[1]
  OBVIOUS
<1>2. \A i \in DOMAIN r : r[i] = s[i + 1] /\ i + 1 \in DOMAIN s /\ i + 1 # 1 /\ i \in Int
  OBVIOUS
<1>3. \A m \in DOMAIN s : m # 1 => m - 1 \in DOMAIN r /\ r[m - 1] = s[m]
  OBVIOUS
<1> HIDE DEF r
<1>4. Distinct(r)
  <2> SUFFICES ASSUME NEW i \in DOMAIN r, NEW j \in DOMAIN r, r[i] = r[j]
               PROVE  i = j
    BY DEF Distinct
  <2>1. i + 1 = j + 1
    BY <1>2 DEF Distinct
  <2> QED BY <2>1, <1>2
<1>5. Range(r) \subseteq Range(s) \ {s[1]}
  BY <1>1, <1>2 DEF Range, Distinct
<1>6. Range(s) \ {s[1]} \subseteq Range(r)
  BY <1>1, <1>3 DEF Range
<1>7. s[1] \in Range(s)
  BY <1>1 DEF Range
<1> QED BY <1>1, <1>4, <1>5, <1>6, <1>7 DEF r

-----------------------------------------------------------------------------
(* The same facts for all the lists together. *)

\* Lists QS of nodes S on which no node is linked twice.
WellFormed(Q, QS, S) == Q \in [QS -> Seq(S)] /\ LinkedOnce(Q)

\* LinkedOnce says that each list is free of repetitions and that no two
\* lists share a node.
LEMMA WellFormedSplit ==
    ASSUME NEW QS, NEW S, NEW Q \in [QS -> Seq(S)]
    PROVE  LinkedOnce(Q) <=>
             /\ \A q \in QS : Distinct(Q[q])
             /\ \A q, r \in QS : q # r => Nodes(Q, q) \cap Nodes(Q, r) = {}
<1>1. DOMAIN Q = QS
  OBVIOUS
<1>2. ASSUME LinkedOnce(Q) PROVE \A q \in QS : Distinct(Q[q])
  BY <1>1, <1>2 DEF LinkedOnce, Distinct
<1>3. ASSUME LinkedOnce(Q), NEW q \in QS, NEW r \in QS, q # r,
             NEW t \in Nodes(Q, q) \cap Nodes(Q, r)
      PROVE  FALSE
  <2>1. PICK i \in DOMAIN Q[q] : Q[q][i] = t
    BY <1>3 DEF Nodes, Range
  <2>2. PICK j \in DOMAIN Q[r] : Q[r][j] = t
    BY <1>3 DEF Nodes, Range
  <2> QED BY <1>1, <1>3, <2>1, <2>2 DEF LinkedOnce
<1>4. ASSUME \A q \in QS : Distinct(Q[q]),
             \A q, r \in QS : q # r => Nodes(Q, q) \cap Nodes(Q, r) = {}
      PROVE  LinkedOnce(Q)
  <2> SUFFICES ASSUME NEW q \in QS, NEW r \in QS,
                      NEW i \in DOMAIN Q[q], NEW j \in DOMAIN Q[r], Q[q][i] = Q[r][j]
               PROVE  q = r /\ i = j
    BY <1>1 DEF LinkedOnce
  <2>1. Q[q][i] \in Nodes(Q, q) /\ Q[r][j] \in Nodes(Q, r)
    BY DEF Nodes, Range
  <2>2. q = r
    BY <1>4, <2>1
  <2> QED BY <1>4, <2>2 DEF Distinct
<1> QED BY <1>2, <1>3, <1>4

\* Changing list q only, when the nodes it gains were linked nowhere.
LEMMA ReplaceList ==
    ASSUME NEW QS, NEW S, NEW Q, WellFormed(Q, QS, S), NEW q \in QS,
           NEW R \in [QS -> Seq(S)], Distinct(R[q]),
           \A r \in QS \ {q} : R[r] = Q[r],
           \A t \in Range(R[q]) : t \in Nodes(Q, q) \/ ~Linked(Q, t)
    PROVE  /\ WellFormed(R, QS, S)
           /\ \A r \in QS : Nodes(R, r) = IF r = q THEN Range(R[q]) ELSE Nodes(Q, r)
<1>1. DOMAIN Q = QS
  BY DEF WellFormed
<1>3. \A r \in QS : Nodes(R, r) = IF r = q THEN Range(R[q]) ELSE Nodes(Q, r)
  BY DEF Nodes
<1>4. /\ \A r \in QS : Distinct(Q[r])
      /\ \A p, r \in QS : p # r => Nodes(Q, p) \cap Nodes(Q, r) = {}
  BY WellFormedSplit DEF WellFormed
<1>5. \A r \in QS : Distinct(R[r])
  BY <1>4
<1>6. \A r \in QS : r # q => Nodes(Q, r) \cap Range(R[q]) = {}
  BY <1>1, <1>4 DEF Linked
<1>7. ASSUME NEW p \in QS, NEW r \in QS, p # r
      PROVE  Nodes(R, p) \cap Nodes(R, r) = {}
  <2>1. CASE p = q
    BY <2>1, <1>3, <1>6, <1>7
  <2>2. CASE r = q
    BY <2>2, <1>3, <1>6, <1>7
  <2>3. CASE p # q /\ r # q
    BY <2>3, <1>3, <1>4, <1>7
  <2> QED BY <2>1, <2>2, <2>3
<1>8. LinkedOnce(R)
  BY <1>5, <1>7, WellFormedSplit
<1> QED BY <1>3, <1>8 DEF WellFormed

\* klist0_append of a node that is linked nowhere.
LEMMA AppendLinks ==
    ASSUME NEW QS, NEW S, NEW Q, WellFormed(Q, QS, S), NEW q \in QS,
           NEW t \in S, ~Linked(Q, t)
    PROVE  LET R == klist0_append(Q, t, q) IN
           /\ WellFormed(R, QS, S)
           /\ \A r \in QS : Nodes(R, r) =
                 IF r = q THEN Nodes(Q, q) \cup {t} ELSE Nodes(Q, r)
<1> DEFINE s == <<t>> \o Q[q]
           R == klist0_append(Q, t, q)
<1>1. Q[q] \in Seq(S) /\ Distinct(Q[q]) /\ DOMAIN Q = QS
  BY WellFormedSplit DEF WellFormed
<1>2. t \notin Range(Q[q])
  BY <1>1 DEF Linked, Nodes
<1>3. s \in Seq(S) /\ Distinct(s) /\ Range(s) = Nodes(Q, q) \cup {t}
  BY <1>1, <1>2, ConsDistinct DEF Nodes
<1>4. R[q] = s /\ R \in [QS -> Seq(S)] /\ \A r \in QS \ {q} : R[r] = Q[r]
  BY <1>1, <1>3 DEF klist0_append, WellFormed
<1> HIDE DEF s, R
<1>5. \A u \in Range(R[q]) : u \in Nodes(Q, q) \/ ~Linked(Q, u)
  BY <1>3, <1>4
<1>6. /\ WellFormed(R, QS, S)
      /\ \A r \in QS : Nodes(R, r) = IF r = q THEN Range(R[q]) ELSE Nodes(Q, r)
  BY <1>3, <1>4, <1>5, ReplaceList
<1> QED BY <1>3, <1>4, <1>6 DEF R

\* klist0_prepend of a node that is linked nowhere.
LEMMA PrependLinks ==
    ASSUME NEW QS, NEW S, NEW Q, WellFormed(Q, QS, S), NEW q \in QS,
           NEW t \in S, ~Linked(Q, t)
    PROVE  LET R == klist0_prepend(Q, t, q) IN
           /\ WellFormed(R, QS, S)
           /\ \A r \in QS : Nodes(R, r) =
                 IF r = q THEN Nodes(Q, q) \cup {t} ELSE Nodes(Q, r)
<1> DEFINE s == Append(Q[q], t)
           R == klist0_prepend(Q, t, q)
<1>1. Q[q] \in Seq(S) /\ Distinct(Q[q]) /\ DOMAIN Q = QS
  BY WellFormedSplit DEF WellFormed
<1>2. t \notin Range(Q[q])
  BY <1>1 DEF Linked, Nodes
<1>3. s \in Seq(S) /\ Distinct(s) /\ Range(s) = Nodes(Q, q) \cup {t}
  BY <1>1, <1>2, AppendDistinct DEF Nodes
<1>4. R[q] = s /\ R \in [QS -> Seq(S)] /\ \A r \in QS \ {q} : R[r] = Q[r]
  BY <1>1, <1>3 DEF klist0_prepend, WellFormed
<1> HIDE DEF s, R
<1>5. \A u \in Range(R[q]) : u \in Nodes(Q, q) \/ ~Linked(Q, u)
  BY <1>3, <1>4
<1>6. /\ WellFormed(R, QS, S)
      /\ \A r \in QS : Nodes(R, r) = IF r = q THEN Range(R[q]) ELSE Nodes(Q, r)
  BY <1>3, <1>4, <1>5, ReplaceList
<1> QED BY <1>3, <1>4, <1>6 DEF R

\* klist0_unlink of the first node of a list that is not empty.
LEMMA UnlinkFirst ==
    ASSUME NEW QS, NEW S, NEW Q, WellFormed(Q, QS, S), NEW q \in QS,
           ~klist0_empty(Q, q)
    PROVE  LET R == klist0_unlink_first(Q, q)
               h == Head(Q[q])
           IN  /\ WellFormed(R, QS, S)
               /\ h \in Nodes(Q, q) /\ h \in S
               /\ ~Linked(R, h)
               /\ \A r \in QS : Nodes(R, r) =
                     IF r = q THEN Nodes(Q, q) \ {h} ELSE Nodes(Q, r)
<1> DEFINE s == Tail(Q[q])
           h == Head(Q[q])
           R == klist0_unlink_first(Q, q)
<1>1. /\ Q[q] \in Seq(S) /\ DOMAIN Q = QS /\ Distinct(Q[q])
      /\ \A p, r \in QS : p # r => Nodes(Q, p) \cap Nodes(Q, r) = {}
  BY WellFormedSplit DEF WellFormed
<1>2. /\ s \in Seq(S) /\ Distinct(s) /\ Range(s) = Nodes(Q, q) \ {h}
      /\ h \in Nodes(Q, q) /\ h \in S
  BY <1>1, TailDistinct DEF Nodes, klist0_empty
<1>3. R[q] = s /\ R \in [QS -> Seq(S)] /\ \A r \in QS \ {q} : R[r] = Q[r]
  BY <1>1, <1>2 DEF klist0_unlink_first, WellFormed
<1> HIDE DEF s, h, R
<1>4. /\ WellFormed(R, QS, S)
      /\ \A r \in QS : Nodes(R, r) = IF r = q THEN Range(s) ELSE Nodes(Q, r)
  <2>1. \A u \in Range(R[q]) : u \in Nodes(Q, q) \/ ~Linked(Q, u)
    BY <1>2, <1>3
  <2> QED BY <1>2, <1>3, <2>1, ReplaceList
<1>5. ~Linked(R, h)
  BY <1>1, <1>2, <1>4 DEF Linked, WellFormed
<1> QED BY <1>2, <1>4, <1>5 DEF R, h

\* klist0_unlink of a node linked on q.
LEMMA UnlinkNode ==
    ASSUME NEW QS, NEW S, NEW Q, WellFormed(Q, QS, S), NEW q \in QS,
           NEW t, t \in Nodes(Q, q)
    PROVE  LET R == klist0_unlink(Q, t, q) IN
           /\ WellFormed(R, QS, S)
           /\ ~Linked(R, t)
           /\ \A r \in QS : Nodes(R, r) =
                 IF r = q THEN Nodes(Q, q) \ {t} ELSE Nodes(Q, r)
<1> DEFINE k == CHOOSE i \in DOMAIN Q[q] : Q[q][i] = t
           s == Without(Q[q], k)
           R == klist0_unlink(Q, t, q)
<1>1. /\ Q[q] \in Seq(S) /\ DOMAIN Q = QS /\ Distinct(Q[q])
      /\ \A p, r \in QS : p # r => Nodes(Q, p) \cap Nodes(Q, r) = {}
  BY WellFormedSplit DEF WellFormed
<1>2. \E i \in DOMAIN Q[q] : Q[q][i] = t
  BY DEF Nodes, Range
<1>3. k \in DOMAIN Q[q] /\ Q[q][k] = t
  BY <1>2
<1> HIDE DEF k
<1>5. s \in Seq(S) /\ Distinct(s) /\ Range(s) = Nodes(Q, q) \ {t}
  <2>1. k \in 1..Len(Q[q])
    BY <1>1, <1>3
  <2> QED BY <2>1, <1>1, <1>3, WithoutDistinct DEF Nodes
<1>4. R[q] = s /\ R \in [QS -> Seq(S)] /\ \A r \in QS \ {q} : R[r] = Q[r]
  BY <1>1, <1>5 DEF klist0_unlink, WellFormed, k
<1> HIDE DEF s, R
<1>6. /\ WellFormed(R, QS, S)
      /\ \A r \in QS : Nodes(R, r) = IF r = q THEN Range(s) ELSE Nodes(Q, r)
  <2>1. \A u \in Range(R[q]) : u \in Nodes(Q, q) \/ ~Linked(Q, u)
    BY <1>4, <1>5
  <2> QED BY <1>4, <1>5, <2>1, ReplaceList
<1>7. ~Linked(R, t)
  BY <1>1, <1>5, <1>6 DEF Linked, WellFormed
<1> QED BY <1>5, <1>6, <1>7 DEF R
=============================================================================
