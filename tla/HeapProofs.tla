----------------------------- MODULE HeapProofs -----------------------------
(***************************************************************************)
(* Proofs about Heap, for any sizes of headers, chunks and requests.       *)
(***************************************************************************)
EXTENDS Heap, Klist0Proofs

-----------------------------------------------------------------------------
(* The lists. *)

\* The addresses grow along s.
Ascending(s) == \A i, j \in DOMAIN s : i < j => s[i] < s[j]

\* Where a block is, and what a list is without it.
LEMMA UnlinkIs ==
    ASSUME NEW S, NEW s \in Seq(S), NEW b \in Range(s)
    PROVE  LET k == IndexOf(s, b)
               r == Unlink(s, b)
           IN  /\ k \in 1..Len(s) /\ s[k] = b
               /\ r \in Seq(S) /\ Len(r) = Len(s) - 1
               /\ \A i \in 1..(Len(s) - 1) : (i < k => r[i] = s[i]) /\ (i >= k => r[i] = s[i + 1])
<1> DEFINE k == IndexOf(s, b)
           u == SubSeq(s, 1, k - 1)
           v == SubSeq(s, k + 1, Len(s))
           r == u \o v
<1>1. k \in 1..Len(s) /\ s[k] = b
  <2>1. \E i \in DOMAIN s : s[i] = b
    BY DEF Range
  <2>2. k \in DOMAIN s /\ s[k] = b
    BY <2>1 DEF IndexOf
  <2> QED BY <2>2
<1>2. Unlink(s, b) = r
  BY DEF Unlink
<1> HIDE DEF k
<1>3. u \in Seq(S) /\ Len(u) = k - 1 /\ \A i \in 1..(k - 1) : u[i] = s[i]
  BY <1>1
<1>4. v \in Seq(S) /\ Len(v) = Len(s) - k /\ \A i \in 1..(Len(s) - k) : v[i] = s[i + k]
  BY <1>1
<1> HIDE DEF u, v
<1>5. r \in Seq(S) /\ Len(r) = Len(s) - 1
  BY <1>1, <1>3, <1>4
<1>6. \A i \in 1..(Len(s) - 1) : r[i] = IF i < k THEN u[i] ELSE v[i - (k - 1)]
  BY <1>1, <1>3, <1>4
<1> HIDE DEF r
<1>7. \A i \in 1..(Len(s) - 1) : (i < k => r[i] = s[i]) /\ (i >= k => r[i] = s[i + 1])
  <2> TAKE i \in 1..(Len(s) - 1)
  <2>1. Len(s) \in Nat /\ k \in Nat /\ i \in Nat
    BY <1>1
  <2>2. CASE i < k
    BY <1>1, <1>3, <1>6, <2>1, <2>2
  <2>3. CASE ~(i < k)
    <3>1. i - (k - 1) \in 1..(Len(s) - k) /\ (i - (k - 1)) + k = i + 1
      BY <1>1, <2>1, <2>3
    <3> QED BY <1>4, <1>6, <3>1, <2>3
  <2> QED BY <2>2, <2>3
<1> QED BY <1>1, <1>2, <1>5, <1>7 DEF k

\* A list of growing addresses still grows without one of them.
LEMMA UnlinkAscending ==
    ASSUME NEW s \in Seq(Nat), Ascending(s), NEW b \in Range(s)
    PROVE  /\ Unlink(s, b) \in Seq(Nat) /\ Ascending(Unlink(s, b))
           /\ Range(Unlink(s, b)) = Range(s) \ {b}
<1> DEFINE k == IndexOf(s, b)
           r == Unlink(s, b)
<1>1. /\ k \in 1..Len(s) /\ s[k] = b
      /\ r \in Seq(Nat) /\ Len(r) = Len(s) - 1
      /\ \A i \in 1..(Len(s) - 1) : (i < k => r[i] = s[i]) /\ (i >= k => r[i] = s[i + 1])
  BY UnlinkIs
<1> HIDE DEF k, r
<1>2. DOMAIN r = 1..(Len(s) - 1) /\ DOMAIN s = 1..Len(s) /\ Len(s) \in Nat
  BY <1>1
<1>a. \A i \in 1..Len(s) : s[i] \in Nat
  OBVIOUS
<1>b. \A i, j \in 1..Len(s) : i < j => s[i] < s[j]
  BY <1>2 DEF Ascending
<1>3. Ascending(r)
  <2> SUFFICES ASSUME NEW i \in 1..(Len(s) - 1), NEW j \in 1..(Len(s) - 1), i < j
               PROVE  r[i] < r[j]
    BY <1>2 DEF Ascending
  <2>1. CASE j < k
    <3>1. i \in 1..Len(s) /\ j \in 1..Len(s) /\ i < k
      BY <1>1, <1>2, <2>1
    <3>2. r[i] = s[i] /\ r[j] = s[j]
      BY <1>1, <2>1, <3>1
    <3> QED BY <1>b, <3>1, <3>2
  <2>2. CASE j >= k /\ i < k
    <3>1. r[i] = s[i] /\ r[j] = s[j + 1] /\ i \in 1..Len(s) /\ j + 1 \in 1..Len(s) /\ i < j + 1
      BY <1>1, <1>2, <2>2
    <3> QED BY <1>b, <3>1
  <2>3. CASE i >= k
    <3>1. r[i] = s[i + 1] /\ r[j] = s[j + 1] /\ i + 1 \in 1..Len(s) /\ j + 1 \in 1..Len(s) /\ i + 1 < j + 1
      BY <1>1, <1>2, <2>3
    <3> QED BY <1>b, <3>1
  <2> QED BY <1>1, <1>2, <2>1, <2>2, <2>3
<1>4. ASSUME NEW i \in DOMAIN r PROVE r[i] \in Range(s) \ {b}
  <2>1. CASE i < k
    <3>1. i \in DOMAIN s /\ r[i] = s[i] /\ s[i] < s[k]
      BY <1>1, <1>2, <1>b, <2>1
    <3> QED BY <3>1, <1>1, <1>2, <1>a DEF Range
  <2>2. CASE i >= k
    <3>1. i + 1 \in DOMAIN s /\ r[i] = s[i + 1] /\ s[k] < s[i + 1]
      BY <1>1, <1>2, <1>b, <2>2
    <3> QED BY <3>1, <1>1, <1>2, <1>a DEF Range
  <2>3. i < k \/ i >= k
    BY <1>1, <1>2
  <2> QED BY <2>1, <2>2, <2>3
<1>5. ASSUME NEW i \in DOMAIN s, s[i] # b PROVE s[i] \in Range(r)
  <2>1. CASE i < k
    <3>1. i \in DOMAIN r /\ r[i] = s[i]
      BY <1>1, <1>2, <1>5, <2>1
    <3> QED BY <3>1 DEF Range
  <2>2. CASE i > k
    <3>1. i - 1 \in 1..(Len(s) - 1) /\ i - 1 >= k /\ (i - 1) + 1 = i
      BY <1>1, <1>2, <1>5, <2>2
    <3>2. r[i - 1] = s[i]
      BY <1>1, <3>1
    <3> QED BY <1>2, <3>1, <3>2 DEF Range
  <2>3. i < k \/ i > k
    BY <1>1, <1>2, <1>5
  <2> QED BY <2>1, <2>2, <2>3
<1>6. Range(r) = Range(s) \ {b}
  <2>1. Range(r) \subseteq Range(s) \ {b}
    BY <1>4 DEF Range
  <2>2. Range(s) \ {b} \subseteq Range(r)
    BY <1>5 DEF Range
  <2> QED BY <2>1, <2>2
<1> QED BY <1>1, <1>3, <1>6 DEF r

\* A list without repetition has none without one of its blocks.
LEMMA UnlinkDistinct ==
    ASSUME NEW s \in Seq(Nat), Distinct(s), NEW b \in Range(s)
    PROVE  /\ Unlink(s, b) \in Seq(Nat) /\ Distinct(Unlink(s, b))
           /\ Range(Unlink(s, b)) = Range(s) \ {b}
<1>1. IndexOf(s, b) \in 1..Len(s) /\ s[IndexOf(s, b)] = b
  BY UnlinkIs
<1>2. Unlink(s, b) = Without(s, IndexOf(s, b))
  BY DEF Unlink, Without
<1> QED BY <1>1, <1>2, WithoutDistinct

\* The elements of two lists one after the other.
LEMMA Joining ==
    ASSUME NEW S, NEW u \in Seq(S), NEW v \in Seq(S)
    PROVE  \A l \in 1..(Len(u) + Len(v)) : (u \o v)[l] = IF l <= Len(u) THEN u[l] ELSE v[l - Len(u)]
  OBVIOUS

\* A block is put where the addresses go on growing.
LEMMA InsertAscending ==
    ASSUME NEW s \in Seq(Nat), Ascending(s), NEW k \in 0..Len(s), NEW x \in Nat,
           k > 0 => s[k] < x, k < Len(s) => x < s[k + 1]
    PROVE  /\ InsertAfter(s, k, x) \in Seq(Nat) /\ Ascending(InsertAfter(s, k, x))
           /\ Range(InsertAfter(s, k, x)) = Range(s) \cup {x}
<1> DEFINE u == SubSeq(s, 1, k)
           v == SubSeq(s, k + 1, Len(s))
           w == u \o <<x>>
           r == InsertAfter(s, k, x)
<1>1. u \in Seq(Nat) /\ Len(u) = k /\ \A i \in 1..k : u[i] = s[i]
  OBVIOUS
<1>2. v \in Seq(Nat) /\ Len(v) = Len(s) - k /\ \A i \in 1..(Len(s) - k) : v[i] = s[i + k]
  OBVIOUS
<1>3. r = w \o v
  BY DEF InsertAfter
<1> HIDE DEF u, v, r
<1>4. w \in Seq(Nat) /\ Len(w) = k + 1 /\ w[k + 1] = x /\ \A i \in 1..k : w[i] = s[i]
  BY <1>1
<1> HIDE DEF w
<1>5. r \in Seq(Nat) /\ Len(r) = Len(s) + 1 /\ DOMAIN r = 1..(Len(s) + 1)
  BY <1>2, <1>3, <1>4
<1>6. ASSUME NEW i \in 1..(Len(s) + 1)
      PROVE /\ i <= k => r[i] = s[i]
            /\ i = k + 1 => r[i] = x
            /\ i > k + 1 => r[i] = s[i - 1]
  <2>0. \A l \in 1..(Len(w) + Len(v)) : r[l] = IF l <= Len(w) THEN w[l] ELSE v[l - Len(w)]
    BY <1>2, <1>3, <1>4, Joining
  <2>a. i \in 1..(Len(w) + Len(v)) /\ Len(w) = k + 1
    BY <1>2, <1>4, <1>6
  <2>1. (i <= k + 1 => r[i] = w[i]) /\ (i > k + 1 => r[i] = v[i - (k + 1)])
    <3>1. r[i] = IF i <= k + 1 THEN w[i] ELSE v[i - (k + 1)]
      BY <2>0, <2>a, Zenon
    <3>2. i > k + 1 => ~(i <= k + 1)
      BY <1>6
    <3> QED BY <3>1, <3>2, Zenon
  <2>2. i <= k => i \in 1..k
    BY <1>6
  <2>3. i > k + 1 => i - (k + 1) \in 1..(Len(s) - k) /\ (i - (k + 1)) + k = i - 1
    BY <1>6
  <2>4. i > k + 1 => r[i] = s[i - 1]
    BY <1>2, <2>1, <2>3, <1>6
  <2> QED BY <1>4, <2>1, <2>2, <2>4, <1>6
<1>a. DOMAIN s = 1..Len(s) /\ Len(s) \in Nat /\ \A i \in 1..Len(s) : s[i] \in Nat
  OBVIOUS
<1>b. \A i, j \in 1..Len(s) : i < j => s[i] < s[j]
  BY <1>a DEF Ascending
<1>7. ASSUME NEW i \in 1..Len(s)
      PROVE (i <= k => s[i] < x) /\ (i > k => x < s[i])
  <2>1. CASE i <= k
    <3>1. s[k] < x /\ k \in 1..Len(s) /\ (i < k => s[i] < s[k])
      BY <1>a, <1>b, <2>1
    <3> QED BY <1>a, <3>1, <2>1
  <2>2. CASE i > k
    <3>1. x < s[k + 1] /\ k + 1 \in 1..Len(s) /\ (k + 1 < i => s[k + 1] < s[i])
      BY <1>a, <1>b, <2>2
    <3> QED BY <1>a, <3>1, <2>2
  <2> QED BY <2>1, <2>2
<1>8. Ascending(r)
  <2> SUFFICES ASSUME NEW i \in 1..(Len(s) + 1), NEW j \in 1..(Len(s) + 1), i < j
               PROVE  r[i] < r[j]
    BY <1>5 DEF Ascending
  <2>1. CASE j <= k
    <3>1. r[i] = s[i] /\ r[j] = s[j] /\ i \in 1..Len(s) /\ j \in 1..Len(s)
      BY <1>6, <2>1
    <3> QED BY <1>b, <3>1
  <2>2. CASE j = k + 1
    <3>1. r[i] = s[i] /\ r[j] = x /\ i \in 1..Len(s) /\ i <= k
      BY <1>6, <2>2
    <3> QED BY <1>7, <3>1
  <2>3. CASE j > k + 1 /\ i <= k
    <3>1. r[i] = s[i] /\ r[j] = s[j - 1] /\ i \in 1..Len(s) /\ j - 1 \in 1..Len(s) /\ i < j - 1
      BY <1>6, <2>3
    <3> QED BY <1>b, <3>1
  <2>4. CASE j > k + 1 /\ i = k + 1
    <3>1. r[i] = x /\ r[j] = s[j - 1] /\ j - 1 \in 1..Len(s) /\ j - 1 > k
      BY <1>6, <2>4
    <3> QED BY <1>7, <3>1
  <2>5. CASE j > k + 1 /\ i > k + 1
    <3>1. r[i] = s[i - 1] /\ r[j] = s[j - 1] /\ i - 1 \in 1..Len(s) /\ j - 1 \in 1..Len(s) /\ i - 1 < j - 1
      BY <1>6, <2>5
    <3> QED BY <1>b, <3>1
  <2> QED BY <2>1, <2>2, <2>3, <2>4, <2>5
<1>9. Range(r) = Range(s) \cup {x}
  <2>1. ASSUME NEW i \in DOMAIN r PROVE r[i] \in Range(s) \cup {x}
    <3>0. i \in 1..(Len(s) + 1)
      BY <1>5, <2>1
    <3>1. (i <= k /\ i \in 1..Len(s)) \/ i = k + 1 \/ (i > k + 1 /\ i - 1 \in 1..Len(s))
      BY <1>a, <3>0
    <3>2. r[i] = x \/ (i \in DOMAIN s /\ r[i] = s[i]) \/ (i - 1 \in DOMAIN s /\ r[i] = s[i - 1])
      BY <1>a, <1>6, <3>0, <3>1
    <3> QED BY <3>2 DEF Range
  <2>2. x \in Range(r)
    <3>1. k + 1 \in DOMAIN r /\ r[k + 1] = x
      BY <1>5, <1>6
    <3> QED BY <3>1 DEF Range
  <2>3. ASSUME NEW i \in DOMAIN s PROVE s[i] \in Range(r)
    <3>1. CASE i <= k
      <4>1. i \in DOMAIN r /\ r[i] = s[i]
        BY <1>5, <1>6, <3>1
      <4> QED BY <4>1 DEF Range
    <3>2. CASE i > k
      <4>1. i + 1 \in DOMAIN r /\ r[i + 1] = s[i]
        BY <1>5, <1>6, <3>2
      <4> QED BY <4>1 DEF Range
    <3> QED BY <3>1, <3>2
  <2> QED BY <2>1, <2>2, <2>3 DEF Range
<1> QED BY <1>5, <1>8, <1>9 DEF r

\* A list in which a new block takes the place of an old one.
LEMMA InPlaceDistinct ==
    ASSUME NEW s \in Seq(Nat), Distinct(s), NEW b \in Range(s), NEW x \in Nat, x \notin Range(s)
    PROVE  /\ InPlaceOf(s, b, x) \in Seq(Nat) /\ Distinct(InPlaceOf(s, b, x))
           /\ Range(InPlaceOf(s, b, x)) = (Range(s) \ {b}) \cup {x}
<1> DEFINE r == InPlaceOf(s, b, x)
<1>1. r = [i \in 1..Len(s) |-> IF s[i] = b THEN x ELSE s[i]] /\ DOMAIN s = 1..Len(s)
  BY DEF InPlaceOf
<1> HIDE DEF r
<1>2. r \in Seq(Nat) /\ DOMAIN r = 1..Len(s)
  BY <1>1
<1>3. Distinct(r)
  BY <1>1, <1>2 DEF Distinct, Range
<1>4. Range(r) = (Range(s) \ {b}) \cup {x}
  <2>1. PICK k \in 1..Len(s) : s[k] = b
    BY <1>1 DEF Range
  <2>2. r[k] = x /\ k \in DOMAIN r
    BY <1>1, <1>2, <2>1
  <2>3. \A i \in 1..Len(s) : r[i] = IF s[i] = b THEN x ELSE s[i]
    BY <1>1
  <2> QED BY <1>1, <1>2, <2>2, <2>3 DEF Range
<1> QED BY <1>2, <1>3, <1>4 DEF r

-----------------------------------------------------------------------------
(* Sizes in whole headers. *)

Whole(n) == n \in Nat /\ n % HEADER = 0

\* Quotient and remainder of a natural number.
LEMMA Division ==
    ASSUME NEW n \in Nat, NEW u \in Nat \ {0}
    PROVE  /\ n \div u \in Nat /\ n % u \in 0..(u - 1)
           /\ n = u * (n \div u) + (n % u)
  BY Z3

\* The multiples of the header's size are the whole sizes: this direction...
LEMMA MultipleIsWhole ==
    ASSUME NEW q \in Nat
    PROVE  Whole(q * HEADER) /\ Whole(HEADER * q)
<1> DEFINE n == HEADER * q
           a == n \div HEADER
           r == n % HEADER
<1>1. HEADER \in Nat \ {0}
  BY HeapAssumption
<1>2. n \in Nat /\ q * HEADER = n
  BY <1>1
<1>3. a \in Nat /\ r \in 0..(HEADER - 1) /\ n = HEADER * a + r
  BY <1>1, <1>2, Division
<1> HIDE DEF a, r
<1>4. HEADER * (q - a) = r
  BY <1>1, <1>3
<1>5. q - a \in Int /\ (q - a > 0 => HEADER * (q - a) >= HEADER) /\ (q - a < 0 => HEADER * (q - a) < 0)
  BY <1>1, <1>3
<1>6. r = 0
  BY <1>1, <1>3, <1>4, <1>5
<1> QED BY <1>2, <1>6 DEF Whole, r

\* ... and this one.
LEMMA WholeIsMultiple ==
    ASSUME NEW n, Whole(n)
    PROVE  n \in Nat /\ \E q \in Nat : n = HEADER * q
<1>1. HEADER \in Nat \ {0}
  BY HeapAssumption
<1>2. n \in Nat /\ n % HEADER = 0
  BY DEF Whole
<1>3. n \div HEADER \in Nat /\ n = HEADER * (n \div HEADER) + (n % HEADER)
  BY <1>1, <1>2, Division
<1>4. n = HEADER * (n \div HEADER)
  <2>1. HEADER * (n \div HEADER) \in Int
    BY <1>1, <1>3
  <2> QED BY <1>2, <1>3, <2>1
<1> QED BY <1>2, <1>3, <1>4

\* Sums and differences of whole sizes are whole.
LEMMA WholeSum ==
    ASSUME NEW a, NEW b, Whole(a), Whole(b)
    PROVE  Whole(a + b) /\ (a >= b => Whole(a - b))
<1>1. HEADER \in Nat \ {0}
  BY HeapAssumption
<1>2. PICK p \in Nat : a = HEADER * p
  BY WholeIsMultiple
<1>3. PICK q \in Nat : b = HEADER * q
  BY WholeIsMultiple
<1>4. a + b = HEADER * (p + q) /\ p + q \in Nat
  BY <1>1, <1>2, <1>3
<1>5. ASSUME a >= b PROVE Whole(a - b)
  <2>1. a - b = HEADER * (p - q)
    BY <1>1, <1>2, <1>3
  <2>2. p - q >= 0
    <3>1. p - q < 0 => HEADER * (p - q) < 0
      BY <1>1, <1>2, <1>3
    <3>2. a \in Nat /\ b \in Nat
      BY DEF Whole
    <3> QED BY <1>5, <2>1, <3>1, <3>2, <1>2, <1>3
  <2>3. p - q \in Nat
    BY <2>2, <1>2, <1>3
  <2> QED BY <2>1, <2>3, MultipleIsWhole
<1> QED BY <1>4, <1>5, MultipleIsWhole

\* What UpTo and ARENA_SIZE round to.
LEMMA UpToIs ==
    ASSUME NEW n \in Nat, NEW u \in Nat \ {0}, u % HEADER = 0
    PROVE  UpTo(n, u) >= n /\ Whole(UpTo(n, u))
<1> DEFINE k == n + u - 1
           q == k \div u
<1>1. HEADER \in Nat \ {0} /\ k \in Nat
  BY HeapAssumption
<1>2. q \in Nat /\ k % u \in 0..(u - 1) /\ k = u * q + (k % u)
  BY <1>1, Division
<1> HIDE DEF q
<1>3. u * q >= n
  <2>1. u * q \in Int
    BY <1>2
  <2> QED BY <1>2, <2>1
<1>4. UpTo(n, u) = q * u /\ q * u = u * q
  BY <1>2 DEF UpTo, q
<1>5. PICK p \in Nat : u = HEADER * p
  BY WholeIsMultiple DEF Whole
<1>6. q * u = HEADER * (p * q) /\ p * q \in Nat
  BY <1>1, <1>2, <1>5
<1> QED BY <1>3, <1>4, <1>6, MultipleIsWhole

\* ARENA_SIZE rounds up to whole headers, and never below the request and its header.
LEMMA ArenaSizeIs ==
    ASSUME NEW n \in Nat
    PROVE  /\ Whole(ARENA_SIZE(n)) /\ ARENA_SIZE(n) >= n + HEADER
           /\ n > 0 => ARENA_SIZE(n) >= 2 * HEADER
<1> DEFINE k == n + 2 * HEADER - 1
           q == k \div HEADER
<1>1. HEADER \in Nat \ {0} /\ k \in Nat
  BY HeapAssumption
<1>2. q \in Nat /\ k % HEADER \in 0..(HEADER - 1) /\ k = HEADER * q + (k % HEADER)
  BY <1>1, Division
<1>3. ARENA_SIZE(n) = q * HEADER
  BY DEF ARENA_SIZE
<1> HIDE DEF q
<1>4. HEADER * q >= n + HEADER /\ q * HEADER = HEADER * q
  <2>1. HEADER * q \in Int
    BY <1>1, <1>2
  <2> QED BY <1>1, <1>2, <2>1
<1>5. ASSUME n > 0 PROVE HEADER * q >= 2 * HEADER
  <2>1. q >= 2
    <3>1. q < 2 => HEADER * q <= HEADER
      BY <1>1, <1>2
    <3> QED BY <1>1, <1>2, <1>4, <1>5, <3>1
  <2> QED BY <1>1, <1>2, <2>1
<1> QED BY <1>2, <1>3, <1>4, <1>5, MultipleIsWhole

-----------------------------------------------------------------------------
(* The memory of the library. *)

Header == [type : {"FREE", "USED"}, size : Nat]
Headers == UNION {[S -> Header] : S \in SUBSET Nat}
Mem == [chain : Seq(Nat), frees : Seq(Nat), hdr : Headers, brk : Nat, lim : Nat]

Blocks(m) == Range(m.chain)
Used(m) == {b \in Blocks(m) : m.hdr[b].type = "USED"}

\* The block b lies below the break and below m_sizelim, in whole units.
Placed(m, b) ==
    /\ Whole(b) /\ Whole(m.hdr[b].size) /\ m.hdr[b].size >= 2 * HEADER
    /\ b + m.hdr[b].size <= m.brk /\ b + m.hdr[b].size <= m.lim

Laid(m) ==
    /\ m \in Mem /\ Ascending(m.chain) /\ Blocks(m) \subseteq DOMAIN m.hdr
    /\ \A b \in Blocks(m) : Placed(m, b)
    /\ \A a, b \in Blocks(m) : a < b => a + m.hdr[a].size <= b

\* The free list holds the free blocks but those of X, each once.
Listed(m, X) ==
    /\ Distinct(m.frees)
    /\ Range(m.frees) = {b \in Blocks(m) \ X : IsFree(m, b)}

\* No free block touches a free one, unless it is in X.
Joined(m, X) == \A a \in Range(m.frees) \ X, b \in Range(m.frees) : ~Touches(m, a, b)

Sound(m) == Laid(m) /\ Listed(m, {}) /\ Joined(m, {})

\* Going from m to n, the blocks in use become U, and those that m has among
\* them keep their headers.
Keeps(m, n, U) ==
    /\ Used(n) = U
    /\ \A b \in U \cap Used(m) : n.hdr[b] = m.hdr[b]

\* What a heap's headers are, as a set of functions.
LEMMA HeadersAre ==
    ASSUME NEW h \in Headers
    PROVE  DOMAIN h \subseteq Nat /\ \A b \in DOMAIN h : h[b] \in Header
  BY DEF Headers

\* The headers g are those of h with the one of b written.
Wrote(g, h, b, t, z) ==
    /\ g \in Headers /\ DOMAIN g = DOMAIN h \cup {b}
    /\ g[b].type = t /\ g[b].size = z
    /\ \A x \in DOMAIN h : x # b => g[x] = h[x]

\* Writing a header leaves the others alone.
LEMMA WriteIs ==
    ASSUME NEW h \in Headers, NEW b \in Nat, NEW t \in {"FREE", "USED"}, NEW z \in Nat
    PROVE  Wrote(Write(h, b, t, z), h, b, t, z)
<1> DEFINE S == DOMAIN h \cup {b}
           g == Write(h, b, t, z)
<1>1. S \in SUBSET Nat /\ \A x \in DOMAIN h : h[x] \in Header
  BY HeadersAre
<1>2. [type |-> t, size |-> z] \in Header
  BY DEF Header
<1>3. g \in [S -> Header]
  BY <1>1, <1>2 DEF Write
<1>4. g \in Headers
  BY <1>1, <1>3 DEF Headers
<1>5. /\ DOMAIN g = DOMAIN h \cup {b} /\ g[b] = [type |-> t, size |-> z]
      /\ \A x \in DOMAIN h : x # b => g[x] = h[x]
  BY DEF Write
<1> QED BY <1>4, <1>5 DEF Wrote

\* The blocks of a list whose addresses grow are numbers, each listed once.
LEMMA AscendingIs ==
    ASSUME NEW s \in Seq(Nat), Ascending(s)
    PROVE  /\ Distinct(s) /\ Range(s) \subseteq Nat
           /\ \A i, j \in DOMAIN s : i < j <=> s[i] < s[j]
<1>1. DOMAIN s = 1..Len(s) /\ Len(s) \in Nat /\ \A i \in DOMAIN s : s[i] \in Nat
  OBVIOUS
<1>2. \A i, j \in DOMAIN s : i < j => s[i] < s[j]
  BY DEF Ascending
<1>3. ASSUME NEW i \in DOMAIN s, NEW j \in DOMAIN s
      PROVE  (i < j <=> s[i] < s[j]) /\ (s[i] = s[j] => i = j)
  <2>1. i \in Int /\ j \in Int /\ s[i] \in Nat /\ s[j] \in Nat
    BY <1>1, <1>3
  <2>2. (i < j => s[i] < s[j]) /\ (j < i => s[j] < s[i]) /\ (i = j => s[i] = s[j])
    BY <1>2, <1>3
  <2> QED BY <2>1, <2>2
<1>4. Range(s) \subseteq Nat
  BY <1>1 DEF Range
<1> QED BY <1>3, <1>4 DEF Distinct

\* prev and next lead to the nearest blocks below and above.
LEMMA Neighbours ==
    ASSUME NEW m, m \in Mem, Ascending(m.chain), NEW b \in Blocks(m)
    PROVE  /\ \/ prev(m, b) = -1 /\ \A a \in Blocks(m) : ~(a < b)
              \/ prev(m, b) \in Blocks(m) /\ prev(m, b) < b /\ \A a \in Blocks(m) : a < b => a <= prev(m, b)
           /\ \/ next(m, b) = -1 /\ \A a \in Blocks(m) : ~(b < a)
              \/ next(m, b) \in Blocks(m) /\ b < next(m, b) /\ \A a \in Blocks(m) : b < a => next(m, b) <= a
<1> DEFINE s == m.chain
           k == IndexOf(s, b)
<1>1. s \in Seq(Nat)
  BY DEF Mem
<1>2. Ascending(s) /\ b \in Range(s)
  BY DEF Blocks
<1>3. prev(m, b) = (IF k = 1 THEN -1 ELSE s[k - 1]) /\ next(m, b) = (IF k = Len(s) THEN -1 ELSE s[k + 1])
  BY DEF prev, next, BlockAt
<1>4. Blocks(m) = Range(s)
  BY DEF Blocks
<1> HIDE DEF s
<1>5. k \in 1..Len(s) /\ s[k] = b
  BY <1>1, <1>2, UnlinkIs
<1> HIDE DEF k
<1>6. DOMAIN s = 1..Len(s) /\ Len(s) \in Nat /\ \A i \in DOMAIN s : s[i] \in Nat
  BY <1>1
<1>7. \A i, j \in DOMAIN s : i < j <=> s[i] < s[j]
  BY <1>1, <1>2, AscendingIs
<1> DEFINE Below == \/ prev(m, b) = -1 /\ \A a \in Range(s) : ~(a < b)
                    \/ prev(m, b) \in Range(s) /\ prev(m, b) < b /\ \A a \in Range(s) : a < b => a <= prev(m, b)
           Above == \/ next(m, b) = -1 /\ \A a \in Range(s) : ~(b < a)
                    \/ next(m, b) \in Range(s) /\ b < next(m, b) /\ \A a \in Range(s) : b < a => next(m, b) <= a
<1>8. ASSUME k = 1 PROVE Below
  <2>1. ASSUME NEW a \in Range(s) PROVE ~(a < b)
    <3>1. PICK i \in DOMAIN s : s[i] = a
      BY <2>1 DEF Range
    <3>2. i < k <=> a < b
      BY <1>5, <1>6, <1>7, <3>1
    <3> QED BY <1>6, <1>8, <3>1, <3>2
  <2> QED BY <1>3, <1>8, <2>1
<1>9. ASSUME k # 1 PROVE Below
  <2>1. k - 1 \in DOMAIN s /\ k \in DOMAIN s /\ k - 1 < k
    BY <1>5, <1>6, <1>9
  <2>2. s[k - 1] \in Range(s) /\ s[k - 1] < b
    BY <1>5, <1>7, <2>1 DEF Range
  <2>3. ASSUME NEW a \in Range(s), a < b PROVE a <= s[k - 1]
    <3>1. PICK i \in DOMAIN s : s[i] = a
      BY <2>3 DEF Range
    <3>2. i < k
      BY <1>5, <1>7, <2>1, <2>3, <3>1
    <3>3. i = k - 1 \/ i < k - 1
      BY <1>5, <1>6, <3>1, <3>2
    <3>4. s[i] = s[k - 1] \/ s[i] < s[k - 1]
      BY <1>7, <2>1, <3>1, <3>3
    <3> QED BY <1>6, <2>1, <3>1, <3>4
  <2> QED BY <1>3, <1>9, <2>2, <2>3
<1>10. ASSUME k = Len(s) PROVE Above
  <2>1. ASSUME NEW a \in Range(s) PROVE ~(b < a)
    <3>1. PICK i \in DOMAIN s : s[i] = a
      BY <2>1 DEF Range
    <3>2. k < i <=> b < a
      BY <1>5, <1>6, <1>7, <3>1
    <3> QED BY <1>6, <1>10, <3>1, <3>2
  <2> QED BY <1>3, <1>10, <2>1
<1>11. ASSUME k # Len(s) PROVE Above
  <2>1. k + 1 \in DOMAIN s /\ k \in DOMAIN s /\ k < k + 1
    <3>0. k \in 1..Len(s) /\ Len(s) \in Nat
      BY <1>5, <1>6
    <3>1. k + 1 \in 1..Len(s) /\ k < k + 1
      BY <1>11, <3>0
    <3> QED BY <1>5, <1>6, <3>1
  <2>2. s[k + 1] \in Range(s) /\ b < s[k + 1]
    BY <1>5, <1>7, <2>1 DEF Range
  <2>3. ASSUME NEW a \in Range(s), b < a PROVE s[k + 1] <= a
    <3>1. PICK i \in DOMAIN s : s[i] = a
      BY <2>3 DEF Range
    <3>2. k < i
      BY <1>5, <1>7, <2>1, <2>3, <3>1
    <3>3. i = k + 1 \/ k + 1 < i
      BY <1>5, <1>6, <3>1, <3>2
    <3>4. s[i] = s[k + 1] \/ s[k + 1] < s[i]
      BY <1>7, <2>1, <3>1, <3>3
    <3> QED BY <1>6, <2>1, <3>1, <3>4
  <2> QED BY <1>3, <1>11, <2>2, <2>3
<1> QED BY <1>4, <1>8, <1>9, <1>10, <1>11

\* What is known of a block of a well laid heap.
LEMMA BlockIs ==
    ASSUME NEW m, Laid(m), NEW b \in Blocks(m)
    PROVE  /\ b \in Nat /\ b \in DOMAIN m.hdr
           /\ m.hdr[b].size \in Nat /\ m.hdr[b].size > 0
           /\ m.hdr[b].type \in {"FREE", "USED"}
<1>1. m.hdr \in Headers /\ b \in DOMAIN m.hdr /\ Placed(m, b)
  BY DEF Laid, Mem
<1>2. m.hdr[b] \in Header
  BY <1>1, HeadersAre
<1>3. m.hdr[b].size \in Nat /\ m.hdr[b].type \in {"FREE", "USED"}
  BY <1>2 DEF Header
<1>4. m.hdr[b].size >= 2 * HEADER /\ HEADER \in Nat \ {0} /\ b \in Nat
  BY <1>1, HeapAssumption DEF Placed, Whole
<1> QED BY <1>1, <1>3, <1>4

\* The memory after the block q became a part of p, which ends where q starts.
Swallowed(m, n, p, q) ==
    /\ n \in Mem /\ n.chain = Unlink(m.chain, q) /\ n.brk = m.brk /\ n.lim = m.lim
    /\ DOMAIN m.hdr \subseteq DOMAIN n.hdr
    /\ n.hdr[p].size = m.hdr[p].size + m.hdr[q].size
    /\ n.hdr[p].type = m.hdr[p].type
    /\ \A x \in DOMAIN m.hdr : x # p => n.hdr[x] = m.hdr[x]

\* A block that swallows its right neighbour leaves the heap well laid.
LEMMA SwallowedIsLaid ==
    ASSUME NEW m, NEW n, Laid(m), NEW p \in Blocks(m), NEW q \in Blocks(m),
           Touches(m, p, q), Swallowed(m, n, p, q)
    PROVE  /\ Laid(n) /\ Blocks(n) = Blocks(m) \ {q} /\ p # q /\ p < q
           /\ \A x \in Blocks(m) : p < x => q <= x
<1>1. m.chain \in Seq(Nat) /\ Ascending(m.chain) /\ q \in Range(m.chain)
  BY DEF Laid, Mem, Blocks
<1>2. Ascending(n.chain) /\ Blocks(n) = Blocks(m) \ {q}
  BY <1>1, UnlinkAscending DEF Swallowed, Blocks
<1>3. \A b \in Blocks(m) : /\ b \in Nat /\ b \in DOMAIN m.hdr /\ m.hdr[b].size \in Nat /\ m.hdr[b].size > 0
  BY BlockIs
<1>4. \A b \in Blocks(m) : Placed(m, b)
  BY DEF Laid
<1>5. \A a, b \in Blocks(m) : a < b => a + m.hdr[a].size <= b
  BY DEF Laid
<1>6. p + m.hdr[p].size = q
  BY DEF Touches
<1>7. p < q
  BY <1>3, <1>6
<1>8. n.hdr[p].size = m.hdr[p].size + m.hdr[q].size /\ n.brk = m.brk /\ n.lim = m.lim
  BY DEF Swallowed
<1>9. \A x \in Blocks(m) : x # p => n.hdr[x] = m.hdr[x]
  BY <1>3 DEF Swallowed
<1>10. ASSUME NEW b \in Blocks(n) PROVE Placed(n, b)
  <2>1. CASE b # p
    <3>1. n.hdr[b] = m.hdr[b] /\ Placed(m, b)
      BY <1>2, <1>4, <1>9, <1>10, <2>1
    <3> QED BY <1>8, <3>1 DEF Placed
  <2>2. CASE b = p
    <3> DEFINE u == m.hdr[p].size
               v == m.hdr[q].size
    <3>1. Whole(p) /\ Whole(u) /\ u >= 2 * HEADER /\ Whole(v) /\ q + v <= m.brk /\ q + v <= m.lim
      BY <1>4 DEF Placed
    <3>2. Whole(u + v)
      BY <3>1, WholeSum
    <3>3. p \in Nat /\ u \in Nat /\ v \in Nat /\ HEADER \in Nat /\ m.brk \in Nat /\ m.lim \in Nat
      BY <1>3, HeapAssumption DEF Laid, Mem
    <3> HIDE DEF u, v
    <3>4. u + v >= 2 * HEADER /\ p + (u + v) <= m.brk /\ p + (u + v) <= m.lim
      BY <1>6, <3>1, <3>3 DEF u
    <3>5. n.hdr[b].size = u + v
      BY <1>8, <2>2 DEF u, v
    <3> QED BY <1>8, <2>2, <3>1, <3>2, <3>4, <3>5 DEF Placed
  <2> QED BY <2>1, <2>2
<1>11. ASSUME NEW a \in Blocks(n), NEW b \in Blocks(n), a < b PROVE a + n.hdr[a].size <= b
  <2>1. a \in Blocks(m) /\ b \in Blocks(m) /\ b # q /\ a + m.hdr[a].size <= b
    BY <1>2, <1>5, <1>11
  <2>2. CASE a # p
    BY <1>9, <2>1, <2>2
  <2>3. CASE a = p
    <3>1. q <= b
      BY <1>6, <2>1, <2>3
    <3>2. q < b
      BY <1>3, <2>1, <3>1
    <3>3. q + m.hdr[q].size <= b
      BY <1>5, <2>1, <3>2
    <3>4. p + (m.hdr[p].size + m.hdr[q].size) = q + m.hdr[q].size
      BY <1>3, <1>6
    <3> QED BY <1>8, <2>3, <3>3, <3>4
  <2> QED BY <2>2, <2>3
<1>12. n \in Mem /\ Blocks(n) \subseteq DOMAIN n.hdr
  BY <1>2, <1>3 DEF Swallowed
<1>13. Laid(n)
  BY <1>2, <1>10, <1>11, <1>12 DEF Laid
<1>14. \A x \in Blocks(m) : p < x => q <= x
  BY <1>5, <1>6
<1>15. p # q
  BY <1>3, <1>7
<1> QED BY <1>2, <1>7, <1>13, <1>14, <1>15

\* MergeNext at a free block p that may touch the free block after it.
LEMMA MergeNextSound ==
    ASSUME NEW m, Laid(m), Listed(m, {}), NEW p \in Range(m.frees), Joined(m, {p}), NEW q,
           \/ q = -1 /\ \A a \in Blocks(m) : ~(p < a)
           \/ q \in Blocks(m) /\ p < q /\ \A a \in Blocks(m) : p < a => q <= a
    PROVE  LET n == MergeNext(m, p, q) IN
           /\ Sound(n) /\ p \in Range(n.frees) /\ n.hdr[p].size >= m.hdr[p].size
           /\ Keeps(m, n, Used(m)) /\ n.brk = m.brk /\ n.lim = m.lim
<1> DEFINE n == MergeNext(m, p, q)
<1>1. p \in Blocks(m) /\ IsFree(m, p)
  BY DEF Listed
<1>2. \A b \in Blocks(m) : /\ b \in Nat /\ b \in DOMAIN m.hdr /\ m.hdr[b].size \in Nat /\ m.hdr[b].size > 0
  BY BlockIs
<1>3. CASE ~(q # -1 /\ IsFree(m, q) /\ Touches(m, p, q))
  <2>1. n = m
    BY <1>3 DEF MergeNext
  <2>2. ASSUME NEW b \in Range(m.frees), Touches(m, p, b) PROVE FALSE
    <3>1. b \in Blocks(m) /\ IsFree(m, b) /\ p + m.hdr[p].size = b
      BY <2>2 DEF Listed, Touches
    <3>2. p < b
      BY <1>1, <1>2, <3>1
    <3>3. q \in Blocks(m) /\ p < q /\ q <= b
      BY <3>1, <3>2
    <3>4. p + m.hdr[p].size <= q
      BY <1>1, <3>3 DEF Laid
    <3>5. q = b
      BY <1>1, <1>2, <3>1, <3>3, <3>4
    <3>6. q # -1
      BY <1>2, <3>3
    <3> QED BY <1>3, <2>2, <3>1, <3>5, <3>6
  <2>3. Joined(m, {})
    BY <2>2 DEF Joined
  <2>4. Sound(m) /\ Keeps(m, m, Used(m))
    BY <2>3 DEF Sound, Keeps
  <2>5. m.hdr[p].size >= m.hdr[p].size
    BY <1>1, <1>2
  <2> QED BY <2>1, <2>4, <2>5
<1>4. CASE q # -1 /\ IsFree(m, q) /\ Touches(m, p, q)
  <2> DEFINE h == Write(m.hdr, p, m.hdr[p].type, m.hdr[p].size + m.hdr[q].size)
             c == Unlink(m.chain, q)
             f == Unlink(m.frees, q)
  <2>1. q \in Blocks(m) /\ q \in Range(m.frees)
    BY <1>4 DEF Listed
  <2>2. m \in Mem /\ m.hdr \in Headers /\ m.chain \in Seq(Nat) /\ m.frees \in Seq(Nat)
    BY DEF Laid, Mem
  <2>3. m.hdr[p].size + m.hdr[q].size \in Nat /\ p \in Nat /\ m.hdr[p].type \in {"FREE", "USED"}
    BY <1>1, <1>2, <2>1, BlockIs
  <2>4. /\ h \in Headers /\ DOMAIN h = DOMAIN m.hdr \cup {p}
        /\ h[p].type = m.hdr[p].type /\ h[p].size = m.hdr[p].size + m.hdr[q].size
        /\ \A x \in DOMAIN m.hdr : x # p => h[x] = m.hdr[x]
    <3>1. Wrote(h, m.hdr, p, m.hdr[p].type, m.hdr[p].size + m.hdr[q].size)
      BY <2>2, <2>3, WriteIs
    <3> HIDE DEF h
    <3> QED BY <3>1 DEF Wrote
  <2>5. c \in Seq(Nat)
    BY <2>1, <2>2, UnlinkAscending DEF Blocks, Laid
  <2>6. f \in Seq(Nat) /\ Distinct(f) /\ Range(f) = Range(m.frees) \ {q}
    BY <2>1, <2>2, UnlinkDistinct DEF Listed
  <2>7. n = [[[m EXCEPT !.hdr = h] EXCEPT !.frees = f] EXCEPT !.chain = c]
    BY <1>4, <2>2 DEF MergeNext, remove_from_chains, Resize, Mem
  <2> HIDE DEF h, c, f, n
  <2>8. n \in Mem /\ n.chain = c /\ n.frees = f /\ n.hdr = h /\ n.brk = m.brk /\ n.lim = m.lim
    BY <2>2, <2>4, <2>5, <2>6, <2>7 DEF Mem
  <2>9. Swallowed(m, n, p, q)
    BY <2>4, <2>8 DEF Swallowed, c
  <2>10. Laid(n) /\ Blocks(n) = Blocks(m) \ {q} /\ p # q
    BY <1>1, <1>4, <2>1, <2>9, SwallowedIsLaid
  <2>11. \A x \in Blocks(m) : n.hdr[x].type = m.hdr[x].type /\ (x # p => n.hdr[x] = m.hdr[x])
    BY <1>2, <2>4, <2>8
  <2>12. Listed(n, {})
    <3>1. Range(n.frees) = Range(m.frees) \ {q} /\ Distinct(n.frees)
      BY <2>6, <2>8
    <3>2. {b \in Blocks(n) \ {} : IsFree(n, b)} = {b \in Blocks(m) \ {} : IsFree(m, b)} \ {q}
      BY <2>10, <2>11 DEF IsFree
    <3> QED BY <3>1, <3>2 DEF Listed
  <2>13. Joined(n, {})
    <3> SUFFICES ASSUME NEW a \in Range(n.frees), NEW b \in Range(n.frees), Touches(n, a, b)
                 PROVE  FALSE
      BY DEF Joined
    <3>1. a \in Range(m.frees) /\ b \in Range(m.frees) /\ a # q /\ b # q /\ a \in Blocks(m) /\ b \in Blocks(m)
      BY <2>6, <2>8 DEF Listed
    <3>2. CASE a # p
      <4>1. ~Touches(m, a, b)
        BY <3>1, <3>2 DEF Joined
      <4> QED BY <2>11, <3>1, <3>2, <4>1 DEF Touches
    <3>3. CASE a = p
      <4>1. p + m.hdr[p].size = q
        BY <1>4 DEF Touches
      <4>2. p + (m.hdr[p].size + m.hdr[q].size) = b
        BY <2>4, <2>8, <3>3 DEF Touches
      <4>3. q + m.hdr[q].size = b
        BY <1>1, <1>2, <2>1, <4>1, <4>2
      <4>4. q \notin {p}
        BY <2>10
      <4> QED BY <2>1, <3>1, <4>3, <4>4 DEF Joined, Touches
    <3> QED BY <3>2, <3>3
  <2>14. p \in Range(n.frees)
    BY <2>6, <2>8, <2>10
  <2>15. n.hdr[p].size >= m.hdr[p].size
    BY <1>1, <1>2, <2>1, <2>4, <2>8
  <2>16. Keeps(m, n, Used(m))
    <3>1. m.hdr[p].type = "FREE" /\ m.hdr[q].type = "FREE"
      BY <1>1, <1>4 DEF IsFree
    <3>2. Used(n) = Used(m)
      BY <2>10, <2>11, <3>1 DEF Used
    <3>3. \A x \in Used(m) : n.hdr[x] = m.hdr[x]
      BY <2>11, <3>1 DEF Used
    <3> QED BY <3>2, <3>3 DEF Keeps
  <2> QED BY <2>8, <2>10, <2>12, <2>13, <2>14, <2>15, <2>16 DEF Sound, n
<1> QED BY <1>3, <1>4

\* What two operations one after the other leave alone.
LEMMA KeepsOn ==
    ASSUME NEW m, NEW n, NEW o, NEW U, NEW V, Keeps(m, n, U), Keeps(n, o, V), V \cap Used(m) \subseteq U
    PROVE  Keeps(m, o, V)
  BY DEF Keeps

\* Types may change, and the break and m_sizelim grow.
LEMMA SameLayout ==
    ASSUME NEW m, NEW n, Laid(m), n \in Mem, n.chain = m.chain, n.brk >= m.brk, n.lim >= m.lim,
           Blocks(m) \subseteq DOMAIN n.hdr,
           \A b \in Blocks(m) : n.hdr[b].size = m.hdr[b].size
    PROVE  Laid(n) /\ Blocks(n) = Blocks(m)
<1>1. Blocks(n) = Blocks(m)
  BY DEF Blocks
<1>2. ASSUME NEW b \in Blocks(m) PROVE Placed(n, b)
  <2> DEFINE e == b + m.hdr[b].size
  <2>1. Placed(m, b) /\ n.hdr[b].size = m.hdr[b].size
    BY <1>2 DEF Laid
  <2>2. b \in Nat /\ m.hdr[b].size \in Nat
    BY <1>2, BlockIs
  <2>3. e \in Nat /\ m.brk \in Nat /\ m.lim \in Nat /\ n.brk \in Nat /\ n.lim \in Nat
    BY <2>2 DEF Laid, Mem
  <2>4. e <= m.brk /\ e <= m.lim
    BY <2>1 DEF Placed
  <2> HIDE DEF e
  <2>5. e <= n.brk /\ e <= n.lim
    BY <2>3, <2>4
  <2> QED BY <2>1, <2>5 DEF Placed, e
<1>3. Ascending(n.chain) /\ \A a, b \in Blocks(m) : a < b => a + n.hdr[a].size <= b
  BY DEF Laid
<1> QED BY <1>1, <1>2, <1>3 DEF Laid

\* __free_block of a block b that is not on the free list: the blocks in use
\* are those of before without b.
LEMMA FreeBlockSound ==
    ASSUME NEW m, Laid(m), NEW b \in Blocks(m), Listed(m, {b}), Joined(m, {})
    PROVE  LET f == free_block(m, b) IN
           /\ Sound(f.m) /\ f.block \in Range(f.m.frees)
           /\ f.m.hdr[f.block].size >= m.hdr[b].size
           /\ Keeps(m, f.m, Used(m) \ {b}) /\ f.m.brk = m.brk /\ f.m.lim = m.lim
<1> DEFINE f == free_block(m, b)
           p == prev(m, b)
           q == next(m, b)
<1>1. /\ m \in Mem /\ m.hdr \in Headers /\ m.chain \in Seq(Nat) /\ m.frees \in Seq(Nat)
      /\ Ascending(m.chain)
  BY DEF Laid, Mem
<1>2. \A x \in Blocks(m) : /\ x \in Nat /\ x \in DOMAIN m.hdr /\ m.hdr[x].size \in Nat /\ m.hdr[x].size > 0
                           /\ m.hdr[x].type \in {"FREE", "USED"}
  BY BlockIs
<1>3. /\ \/ p = -1 /\ \A a \in Blocks(m) : ~(a < b)
         \/ p \in Blocks(m) /\ p < b /\ \A a \in Blocks(m) : a < b => a <= p
      /\ \/ q = -1 /\ \A a \in Blocks(m) : ~(b < a)
         \/ q \in Blocks(m) /\ b < q /\ \A a \in Blocks(m) : b < a => q <= a
  BY <1>1, Neighbours
<1>4. CASE p # -1 /\ IsFree(m, p) /\ Touches(m, p, b)
  <2> DEFINE h == Write(m.hdr, p, m.hdr[p].type, m.hdr[p].size + m.hdr[b].size)
             c == Unlink(m.chain, b)
             n == [Resize(m, p, m.hdr[p].size + m.hdr[b].size) EXCEPT !.chain = Unlink(@, b)]
  <2>1. f = [m |-> MergeNext(n, p, q), block |-> p]
    BY <1>4 DEF free_block
  <2>2. p \in Blocks(m) /\ p # b
    BY <1>2, <1>3, <1>4
  <2>3. m.hdr[p].size + m.hdr[b].size \in Nat /\ p \in Nat /\ m.hdr[p].type \in {"FREE", "USED"}
    BY <1>2, <2>2
  <2>4. Wrote(h, m.hdr, p, m.hdr[p].type, m.hdr[p].size + m.hdr[b].size)
    BY <1>1, <2>3, WriteIs
  <2>5. c \in Seq(Nat)
    BY <1>1, UnlinkAscending DEF Blocks
  <2>6. n = [[m EXCEPT !.hdr = h] EXCEPT !.chain = c]
    BY <1>1 DEF Resize, Mem
  <2> HIDE DEF h, c, n, f, p, q
  <2>7. n \in Mem /\ n.chain = c /\ n.frees = m.frees /\ n.hdr = h /\ n.brk = m.brk /\ n.lim = m.lim
    BY <1>1, <2>4, <2>5, <2>6 DEF Mem, Wrote
  <2>8. Swallowed(m, n, p, b)
    BY <2>4, <2>7 DEF Swallowed, Wrote, c
  <2>9. Laid(n) /\ Blocks(n) = Blocks(m) \ {b} /\ p < b /\ \A x \in Blocks(m) : p < x => b <= x
    BY <1>4, <2>2, <2>8, SwallowedIsLaid
  <2>10. \A x \in Blocks(m) : n.hdr[x].type = m.hdr[x].type /\ (x # p => n.hdr[x] = m.hdr[x])
    BY <1>2, <2>4, <2>7 DEF Wrote
  <2>11. Listed(n, {})
    BY <2>7, <2>9, <2>10 DEF Listed, IsFree
  <2>12. p \in Range(n.frees)
    BY <1>4, <2>2, <2>7 DEF Listed
  <2>13. Joined(n, {p})
    <3> SUFFICES ASSUME NEW a \in Range(m.frees) \ {p}, NEW x \in Range(m.frees), Touches(n, a, x)
                 PROVE  FALSE
      BY <2>7 DEF Joined
    <3>1. a \in Blocks(m) /\ ~Touches(m, a, x)
      BY DEF Listed, Joined
    <3> QED BY <2>10, <3>1 DEF Touches
  <2>14. \/ q = -1 /\ \A a \in Blocks(n) : ~(p < a)
         \/ q \in Blocks(n) /\ p < q /\ \A a \in Blocks(n) : p < a => q <= a
    <3>1. \A a \in Blocks(n) : a \in Blocks(m) /\ (p < a => b < a)
      BY <1>2, <2>9
    <3>2. CASE q = -1 /\ \A a \in Blocks(m) : ~(b < a)
      BY <3>1, <3>2
    <3>3. CASE q \in Blocks(m) /\ b < q /\ \A a \in Blocks(m) : b < a => q <= a
      BY <1>2, <2>2, <2>9, <3>1, <3>3
    <3> QED BY <1>3, <3>2, <3>3
  <2> DEFINE o == MergeNext(n, p, q)
  <2>15. /\ Sound(o) /\ p \in Range(o.frees) /\ o.hdr[p].size >= n.hdr[p].size
         /\ Keeps(n, o, Used(n)) /\ o.brk = n.brk /\ o.lim = n.lim
    BY <2>9, <2>11, <2>12, <2>13, <2>14, MergeNextSound
  <2>16. f.m = o /\ f.block = p
    BY <2>1
  <2> HIDE DEF o
  <2>17. o.hdr[p].size >= m.hdr[b].size
    <3>1. n.hdr[p].size = m.hdr[p].size + m.hdr[b].size
      BY <2>8 DEF Swallowed
    <3>2. p \in Blocks(o) /\ Laid(o)
      BY <2>15 DEF Sound, Listed
    <3>3. o.hdr[p].size \in Nat
      BY <3>2, BlockIs
    <3> QED BY <1>2, <2>2, <2>15, <3>1, <3>3
  <2>18. Used(n) = Used(m) \ {b} /\ Keeps(m, n, Used(n))
    <3>1. p \notin Used(m)
      BY <1>4 DEF Used, IsFree
    <3> QED BY <2>9, <2>10, <3>1 DEF Used, Keeps
  <2>19. Keeps(m, o, Used(m) \ {b})
    BY <2>15, <2>18, KeepsOn
  <2> QED BY <2>7, <2>15, <2>16, <2>17, <2>19 DEF f
<1>5. CASE ~(p # -1 /\ IsFree(m, p) /\ Touches(m, p, b))
  <2> DEFINE h == Write(m.hdr, b, "FREE", m.hdr[b].size)
             l == <<b>> \o m.frees
             n == [m EXCEPT !.hdr = Write(@, b, "FREE", m.hdr[b].size), !.frees = <<b>> \o @]
  <2>1. f = [m |-> MergeNext(n, b, q), block |-> b]
    BY <1>5 DEF free_block
  <2>2. Wrote(h, m.hdr, b, "FREE", m.hdr[b].size)
    BY <1>1, <1>2, WriteIs
  <2>3. b \notin Range(m.frees)
    BY DEF Listed
  <2>4. l \in Seq(Nat) /\ Distinct(l) /\ Range(l) = Range(m.frees) \cup {b}
    BY <1>1, <1>2, <2>3, ConsDistinct DEF Listed
  <2>5. n = [[m EXCEPT !.hdr = h] EXCEPT !.frees = l]
    BY <1>1 DEF Mem
  <2> HIDE DEF h, l, n, f, p, q
  <2>6. n \in Mem /\ n.chain = m.chain /\ n.frees = l /\ n.hdr = h /\ n.brk = m.brk /\ n.lim = m.lim
    BY <1>1, <2>2, <2>4, <2>5 DEF Mem, Wrote
  <2>7. \A x \in Blocks(m) : /\ x \in DOMAIN n.hdr /\ n.hdr[x].size = m.hdr[x].size
                             /\ n.hdr[x].type = IF x = b THEN "FREE" ELSE m.hdr[x].type
                             /\ x # b => n.hdr[x] = m.hdr[x]
    BY <1>2, <2>2, <2>6 DEF Wrote
  <2>8. Laid(n) /\ Blocks(n) = Blocks(m)
    <3>1. n.brk >= m.brk /\ n.lim >= m.lim
      BY <1>1, <2>6 DEF Mem
    <3> QED BY <2>6, <2>7, <3>1, SameLayout
  <2>9. Listed(n, {})
    <3>1. {x \in Blocks(n) \ {} : IsFree(n, x)} = {x \in Blocks(m) \ {b} : IsFree(m, x)} \cup {b}
      BY <2>7, <2>8 DEF IsFree
    <3> QED BY <2>4, <2>6, <3>1 DEF Listed
  <2>10. b \in Range(n.frees)
    BY <2>4, <2>6
  <2>11. Joined(n, {b})
    <3> SUFFICES ASSUME NEW a \in Range(m.frees), NEW x \in Range(m.frees) \cup {b}, Touches(n, a, x)
                 PROVE  FALSE
      BY <2>4, <2>6 DEF Joined
    <3>1. a \in Blocks(m) /\ IsFree(m, a) /\ a # b /\ a + m.hdr[a].size = x
      BY <2>7 DEF Listed, Touches
    <3>2. CASE x # b
      BY <3>1, <3>2 DEF Joined, Touches
    <3>3. CASE x = b
      <4>1. a < b
        BY <1>2, <3>1, <3>3
      <4>2. p \in Blocks(m) /\ p < b /\ a <= p
        BY <1>3, <3>1, <4>1
      <4>3. a = p
        <5>1. a < p => a + m.hdr[a].size <= p
          BY <3>1, <4>2 DEF Laid
        <5> QED BY <1>2, <3>1, <3>3, <4>2, <5>1
      <4>4. p # -1
        BY <1>2, <4>2
      <4> QED BY <1>5, <3>1, <3>3, <4>3, <4>4 DEF Touches
    <3> QED BY <3>2, <3>3
  <2> DEFINE o == MergeNext(n, b, q)
  <2>12. /\ Sound(o) /\ b \in Range(o.frees) /\ o.hdr[b].size >= n.hdr[b].size
         /\ Keeps(n, o, Used(n)) /\ o.brk = n.brk /\ o.lim = n.lim
    BY <1>3, <2>8, <2>9, <2>10, <2>11, MergeNextSound
  <2>13. f.m = o /\ f.block = b
    BY <2>1
  <2> HIDE DEF o
  <2>14. Used(n) = Used(m) \ {b} /\ Keeps(m, n, Used(n))
    BY <2>7, <2>8 DEF Used, Keeps
  <2>15. Keeps(m, o, Used(m) \ {b})
    BY <2>12, <2>14, KeepsOn
  <2> QED BY <2>6, <2>7, <2>12, <2>13, <2>15 DEF f
<1> QED BY <1>4, <1>5

\* __malloc_from_block of a free block that is big enough: it comes in use
\* with at least the size asked for.
LEMMA FromBlockSound ==
    ASSUME NEW m, Sound(m), NEW b \in Range(m.frees), NEW s, Whole(s), s >= 2 * HEADER, m.hdr[b].size >= s
    PROVE  LET n == malloc_from_block(m, b, s) IN
           /\ Sound(n) /\ b \notin Used(m) /\ Keeps(m, n, Used(m) \cup {b}) /\ n.hdr[b].size >= s
<1> DEFINE n == malloc_from_block(m, b, s)
           z == m.hdr[b].size
<1>1. /\ m \in Mem /\ m.hdr \in Headers /\ m.chain \in Seq(Nat) /\ m.frees \in Seq(Nat)
      /\ Ascending(m.chain) /\ Laid(m)
  BY DEF Sound, Laid, Mem
<1>2. \A x \in Blocks(m) : /\ x \in Nat /\ x \in DOMAIN m.hdr /\ m.hdr[x].size \in Nat /\ m.hdr[x].size > 0
                           /\ m.hdr[x].type \in {"FREE", "USED"}
  BY <1>1, BlockIs
<1>3. b \in Blocks(m) /\ IsFree(m, b) /\ b \notin Used(m)
  BY DEF Sound, Listed, IsFree, Used
<1>4. s \in Nat /\ HEADER \in Nat \ {0} /\ s > 0
  BY HeapAssumption DEF Whole
<1>5. Distinct(m.frees) /\ Range(m.frees) = {x \in Blocks(m) : IsFree(m, x)}
  BY DEF Sound, Listed
<1>6. \A x, y \in Range(m.frees) : x + m.hdr[x].size # y
  BY DEF Sound, Joined, Touches
<1>7. \A x, y \in Blocks(m) : x < y => x + m.hdr[x].size <= y
  BY <1>1 DEF Laid
<1>8. CASE ~(z >= SplitAt(s))
  <2> DEFINE h == Write(m.hdr, b, "USED", z)
             l == Unlink(m.frees, b)
  <2>1. n = [[m EXCEPT !.hdr = h] EXCEPT !.frees = l]
    BY <1>1, <1>8 DEF malloc_from_block, Mem
  <2>2. Wrote(h, m.hdr, b, "USED", z)
    BY <1>1, <1>2, <1>3, WriteIs
  <2>3. l \in Seq(Nat) /\ Distinct(l) /\ Range(l) = Range(m.frees) \ {b}
    BY <1>1, <1>5, UnlinkDistinct
  <2> HIDE DEF h, l, n
  <2>4. n \in Mem /\ n.chain = m.chain /\ n.frees = l /\ n.hdr = h /\ n.brk = m.brk /\ n.lim = m.lim
    BY <1>1, <2>1, <2>2, <2>3 DEF Mem, Wrote
  <2>5. \A x \in Blocks(m) : /\ x \in DOMAIN n.hdr /\ n.hdr[x].size = m.hdr[x].size
                             /\ n.hdr[x].type = IF x = b THEN "USED" ELSE m.hdr[x].type
                             /\ x # b => n.hdr[x] = m.hdr[x]
    BY <1>2, <2>2, <2>4 DEF Wrote
  <2>6. Laid(n) /\ Blocks(n) = Blocks(m)
    <3>1. n.brk >= m.brk /\ n.lim >= m.lim
      BY <1>1, <2>4 DEF Mem
    <3> QED BY <1>1, <2>4, <2>5, <3>1, SameLayout
  <2>7. Listed(n, {})
    <3>1. {x \in Blocks(n) \ {} : IsFree(n, x)} = {x \in Blocks(m) : IsFree(m, x)} \ {b}
      BY <2>5, <2>6 DEF IsFree
    <3> QED BY <1>5, <2>3, <2>4, <3>1 DEF Listed
  <2>8. Joined(n, {})
    BY <1>5, <1>6, <2>3, <2>4, <2>5 DEF Joined, Touches
  <2>9. Keeps(m, n, Used(m) \cup {b})
    BY <1>3, <2>5, <2>6 DEF Keeps, Used
  <2>10. n.hdr[b].size >= s
    BY <1>3, <2>5
  <2> QED BY <1>3, <2>6, <2>7, <2>8, <2>9, <2>10 DEF Sound, n
<1>9. CASE z >= SplitAt(s)
  <2> DEFINE e == b + s
             g == Write(m.hdr, b, "USED", s)
             h == Write(g, e, "FREE", z - s)
             k == IndexOf(m.chain, b)
             c == InsertAfter(m.chain, k, e)
             l == InPlaceOf(m.frees, b, e)
  <2>1. n = [[[m EXCEPT !.chain = c] EXCEPT !.frees = l] EXCEPT !.hdr = h]
    BY <1>1, <1>9 DEF malloc_from_block, Mem
  <2>2. z \in Nat /\ b \in Nat /\ e \in Nat /\ z - s \in Nat /\ z - s >= 2 * HEADER /\ b < e /\ e < b + z /\ e + (z - s) = b + z
    BY <1>2, <1>3, <1>4, <1>9 DEF SplitAt
  <2>3. Wrote(g, m.hdr, b, "USED", s)
    BY <1>1, <1>4, <2>2, WriteIs
  <2>4. Wrote(h, g, e, "FREE", z - s)
    <3>1. g \in Headers
      BY <2>3 DEF Wrote
    <3> HIDE DEF g
    <3> QED BY <2>2, <3>1, WriteIs
  <2>5. \A x \in Blocks(m) : (x < b => x < e /\ x + m.hdr[x].size <= b) /\ (b < x => b + z <= x) /\ x # e
    <3> SUFFICES ASSUME NEW x \in Blocks(m)
                 PROVE  (x < b => x < e /\ x + m.hdr[x].size <= b) /\ (b < x => b + z <= x) /\ x # e
      OBVIOUS
    <3>1. (x < b => x + m.hdr[x].size <= b) /\ (b < x => b + z <= x) /\ x \in Nat
      BY <1>2, <1>3, <1>7
    <3> QED BY <2>2, <3>1
  <2> HIDE DEF e, g, h, z
  <2>6. c \in Seq(Nat) /\ Ascending(c) /\ Range(c) = Blocks(m) \cup {e}
    <3>1. k \in 1..Len(m.chain) /\ m.chain[k] = b
      BY <1>1, <1>3, UnlinkIs DEF Blocks
    <3>2. ASSUME k < Len(m.chain) PROVE e < m.chain[k + 1]
      <4>1. k \in DOMAIN m.chain /\ k + 1 \in DOMAIN m.chain /\ k < k + 1
        BY <1>1, <3>1, <3>2
      <4>2. b < m.chain[k + 1] /\ m.chain[k + 1] \in Blocks(m)
        BY <1>1, <3>1, <4>1 DEF Ascending, Blocks, Range
      <4>3. b + z <= m.chain[k + 1] /\ m.chain[k + 1] \in Nat
        BY <1>2, <2>5, <4>2
      <4> QED BY <2>2, <4>3
    <3>3. k \in 0..Len(m.chain) /\ (k > 0 => m.chain[k] < e)
      BY <1>1, <2>2, <3>1
    <3> HIDE DEF k
    <3> QED BY <1>1, <2>2, <3>2, <3>3, InsertAscending DEF Blocks
  <2>7. l \in Seq(Nat) /\ Distinct(l) /\ Range(l) = (Range(m.frees) \ {b}) \cup {e}
    BY <1>1, <1>5, <2>2, <2>5, InPlaceDistinct
  <2> HIDE DEF c, l, n, k
  <2>8. n \in Mem /\ n.chain = c /\ n.frees = l /\ n.hdr = h /\ n.brk = m.brk /\ n.lim = m.lim
    BY <1>1, <2>1, <2>4, <2>6, <2>7 DEF Mem, Wrote
  <2>9. Blocks(n) = Blocks(m) \cup {e}
    BY <2>6, <2>8 DEF Blocks
  <2>10. /\ n.hdr[b].size = s /\ n.hdr[b].type = "USED"
         /\ n.hdr[e].size = z - s /\ n.hdr[e].type = "FREE"
         /\ \A x \in Blocks(m) : x # b => n.hdr[x] = m.hdr[x]
         /\ Blocks(n) \subseteq DOMAIN n.hdr
    <3>1. b # e /\ \A x \in Blocks(m) : x # e /\ x \in DOMAIN g
      BY <1>2, <1>3, <2>3, <2>5 DEF Wrote
    <3> QED BY <1>2, <1>3, <2>3, <2>4, <2>8, <2>9, <3>1 DEF Wrote
  <2>11. ASSUME NEW x \in Blocks(n) PROVE Placed(n, x)
    <3>1. Placed(m, b) /\ z = m.hdr[b].size /\ m.brk \in Nat /\ m.lim \in Nat
      BY <1>1, <1>3 DEF Laid, Mem, z
    <3>2. Whole(b) /\ Whole(z) /\ b + z <= m.brk /\ b + z <= m.lim
      BY <3>1 DEF Placed
    <3>3. CASE x = b
      <4>1. b + s <= m.brk /\ b + s <= m.lim
        BY <2>2, <3>1, <3>2 DEF e
      <4> QED BY <2>8, <2>10, <3>2, <3>3, <4>1 DEF Placed
    <3>4. CASE x = e
      <4>1. Whole(e) /\ Whole(z - s)
        <5>1. z >= s
          BY <1>4, <2>2
        <5> QED BY <3>2, <5>1, WholeSum DEF e
      <4> QED BY <2>2, <2>8, <2>10, <3>2, <3>4, <4>1 DEF Placed
    <3>5. CASE x \in Blocks(m) /\ x # b
      <4>1. Placed(m, x) /\ n.hdr[x] = m.hdr[x]
        BY <1>1, <2>10, <3>5 DEF Laid
      <4> QED BY <2>8, <4>1 DEF Placed
    <3> QED BY <2>9, <2>11, <3>3, <3>4, <3>5
  <2>12. ASSUME NEW x \in Blocks(n), NEW y \in Blocks(n), x < y PROVE x + n.hdr[x].size <= y
    <3>1. CASE x = b
      <4>1. y = e \/ (y \in Blocks(m) /\ b + z <= y /\ y \in Nat)
        BY <1>2, <2>5, <2>9, <2>12, <3>1
      <4> QED BY <1>4, <2>2, <2>10, <3>1, <4>1 DEF e
    <3>2. CASE x = e
      <4>1. y \in Blocks(m) /\ y \in Nat /\ b < y
        BY <1>2, <2>2, <2>9, <2>12, <3>2
      <4> QED BY <2>2, <2>5, <2>10, <3>2, <4>1
    <3>3. CASE x \in Blocks(m) /\ x # b
      <4>1. n.hdr[x] = m.hdr[x] /\ x \in Nat /\ m.hdr[x].size \in Nat
        BY <1>2, <2>10, <3>3
      <4>2. CASE y \in Blocks(m)
        BY <1>7, <2>12, <3>3, <4>1, <4>2
      <4>3. CASE y = e
        <5>1. x < b
          BY <2>2, <2>5, <2>12, <3>3, <4>1, <4>3
        <5> QED BY <2>2, <2>5, <3>3, <4>1, <4>3, <5>1
      <4> QED BY <2>9, <4>2, <4>3
    <3> QED BY <2>9, <3>1, <3>2, <3>3
  <2>13. Laid(n)
    BY <2>6, <2>8, <2>10, <2>11, <2>12 DEF Laid
  <2>14. Listed(n, {})
    <3>1. {x \in Blocks(n) \ {} : IsFree(n, x)} = ({x \in Blocks(m) : IsFree(m, x)} \ {b}) \cup {e}
      BY <2>5, <2>9, <2>10 DEF IsFree
    <3> QED BY <1>5, <2>7, <2>8, <3>1 DEF Listed
  <2>15. Joined(n, {})
    <3> SUFFICES ASSUME NEW x \in (Range(m.frees) \ {b}) \cup {e}, NEW y \in (Range(m.frees) \ {b}) \cup {e},
                        x + n.hdr[x].size = y
                 PROVE  FALSE
      BY <2>7, <2>8 DEF Joined, Touches
    <3>1. CASE x = e
      <4>1. b + z = y
        BY <2>2, <2>10, <3>1
      <4>2. y # e
        BY <2>2, <4>1
      <4>3. y \in Range(m.frees)
        BY <4>2
      <4> QED BY <1>6, <4>1, <4>3 DEF z
    <3>2. CASE x # e
      <4>1. x \in Range(m.frees) /\ x \in Blocks(m) /\ x # b /\ n.hdr[x] = m.hdr[x]
        BY <1>5, <2>10, <3>2
      <4>2. y = e
        BY <1>6, <4>1
      <4>3. x \in Nat /\ m.hdr[x].size \in Nat /\ x + m.hdr[x].size = e
        BY <1>2, <4>1, <4>2
      <4>4. (x < b => x + m.hdr[x].size <= b) /\ (b < x => b + z <= x)
        BY <2>5, <4>1
      <4> QED BY <2>2, <4>1, <4>3, <4>4
    <3> QED BY <3>1, <3>2
  <2>16. Keeps(m, n, Used(m) \cup {b})
    <3>1. Used(n) = Used(m) \cup {b}
      BY <1>3, <2>5, <2>9, <2>10 DEF Used
    <3>2. \A x \in Used(m) : n.hdr[x] = m.hdr[x]
      BY <1>3, <2>10 DEF Used
    <3> QED BY <3>1, <3>2 DEF Keeps
  <2>17. n.hdr[b].size >= s
    BY <1>4, <2>10
  <2> QED BY <1>3, <2>13, <2>14, <2>15, <2>16, <2>17 DEF Sound, n
<1> QED BY <1>8, <1>9

\* The library's sbrk: it fails and changes nothing, or the memory from start
\* on, which is above every block, lies below the new break.
LEMMA SbrkIs ==
    ASSUME NEW m, m \in Mem, NEW inc \in Nat
    PROVE  LET r == sbrk(m, inc) IN
           \/ r.start = -1 /\ r.m = m
           \/ /\ r.start \in Nat /\ Whole(r.start) /\ r.start >= m.brk /\ r.m \in Mem
              /\ r.m.chain = m.chain /\ r.m.frees = m.frees /\ r.m.hdr = m.hdr
              /\ r.m.brk >= m.brk /\ r.m.lim >= m.lim
              /\ r.start + inc <= r.m.brk /\ r.start + inc <= r.m.lim
<1> DEFINE start == UpTo(m.brk, SBRK_ALIGN)
           up == start + inc
           k == sys_sbrk(m, up)
           r == sbrk(m, inc)
<1>1. m.brk \in Nat /\ m.lim \in Nat /\ SBRK_ALIGN \in Nat \ {0} /\ SBRK_ALIGN % HEADER = 0
  BY HeapAssumption DEF Mem
<1>2. start >= m.brk /\ Whole(start) /\ start \in Nat
  BY <1>1, UpToIs DEF Whole
<1>3. up \in Nat
  BY <1>2
<1>4. r = IF k.ret < up THEN [m |-> k.m, start |-> -1] ELSE [m |-> [k.m EXCEPT !.brk = k.ret], start |-> start]
  BY DEF sbrk
<1> HIDE DEF start, up, r
<1>5. CASE ~(m.lim + up <= HEAPLIM)
  <2>1. k = [m |-> m, ret |-> -1]
    BY <1>5 DEF sys_sbrk
  <2>2. k.m = m /\ k.ret = -1
    BY <2>1
  <2>3. k.ret < up
    BY <1>3, <2>2
  <2>4. r = [m |-> m, start |-> -1]
    BY <1>4, <2>2, <2>3
  <2>5. r.m = m /\ r.start = -1
    BY <2>4
  <2> QED BY <2>5 DEF r
<1>6. CASE m.lim + up <= HEAPLIM
  <2> DEFINE n == [[m EXCEPT !.lim = m.lim + up] EXCEPT !.brk = m.lim + up]
  <2>1. k.m = [m EXCEPT !.lim = m.lim + up] /\ k.ret = m.lim + up
    BY <1>6 DEF sys_sbrk, Mem
  <2>2. ~(k.ret < up) /\ m.lim + up \in Nat
    BY <1>1, <1>3, <2>1
  <2>3. r.m = n /\ r.start = start
    BY <1>4, <2>1, <2>2
  <2>4. n \in Mem /\ n.chain = m.chain /\ n.frees = m.frees /\ n.hdr = m.hdr /\ n.brk = m.lim + up /\ n.lim = m.lim + up
    BY <2>2 DEF Mem
  <2> HIDE DEF n
  <2>5. m.lim + up >= m.brk /\ m.lim + up >= m.lim /\ start + inc <= m.lim + up
    BY <1>1, <1>2 DEF up
  <2> QED BY <1>2, <2>3, <2>4, <2>5 DEF r
<1> QED BY <1>5, <1>6

\* A new block above all others, freed at once.
LEMMA NewBlockSound ==
    ASSUME NEW m, Sound(m), NEW b, Whole(b), NEW z, Whole(z), z >= 2 * HEADER,
           b + z <= m.brk, b + z <= m.lim,
           \A x \in Blocks(m) : x + m.hdr[x].size <= b
    PROVE  LET f == NewBlock(m, b, z) IN
           /\ Sound(f.m) /\ f.block \in Range(f.m.frees) /\ f.m.hdr[f.block].size >= z
           /\ Keeps(m, f.m, Used(m))
<1> DEFINE h == Write(m.hdr, b, "FREE", z)
           s == m.chain
           c == InsertAfter(s, Predecessor(m, b), b)
           n == [m EXCEPT !.hdr = Write(@, b, "FREE", z), !.chain = InsertAfter(@, Predecessor(m, b), b)]
<1>1. m \in Mem /\ m.hdr \in Headers /\ s \in Seq(Nat) /\ m.frees \in Seq(Nat) /\ Ascending(s) /\ Laid(m)
  BY DEF Sound, Laid, Mem
<1>2. \A x \in Blocks(m) : /\ x \in Nat /\ x \in DOMAIN m.hdr /\ m.hdr[x].size \in Nat /\ m.hdr[x].size > 0
                           /\ m.hdr[x].type \in {"FREE", "USED"}
  BY <1>1, BlockIs
<1>3. b \in Nat /\ z \in Nat
  BY DEF Whole
<1>4. \A x \in Blocks(m) : x < b
  BY <1>2, <1>3
<1>5. b \notin Blocks(m)
  BY <1>3, <1>4
<1>6. Predecessor(m, b) = Len(s)
  <2>1. DOMAIN s = 1..Len(s) /\ Len(s) \in Nat /\ \A i \in DOMAIN s : s[i] \in Blocks(m)
    BY <1>1 DEF Blocks, Range
  <2>2. {i \in DOMAIN s : s[i] < b} = 1..Len(s)
    BY <1>4, <2>1
  <2>3. {i \in DOMAIN s : s[i] < b} \cup {0} = 0..Len(s)
    BY <2>1, <2>2
  <2>4. Predecessor(m, b) = Max(0..Len(s))
    BY <2>3 DEF Predecessor
  <2>5. Len(s) \in 0..Len(s) /\ \A y \in 0..Len(s) : Len(s) >= y
    BY <2>1
  <2>6. Max(0..Len(s)) \in 0..Len(s) /\ \A y \in 0..Len(s) : Max(0..Len(s)) >= y
    BY <2>5 DEF Max
  <2>7. Max(0..Len(s)) = Len(s)
    BY <2>1, <2>5, <2>6
  <2> QED BY <2>4, <2>7
<1>7. Wrote(h, m.hdr, b, "FREE", z)
  BY <1>1, <1>3, WriteIs
<1>8. c \in Seq(Nat) /\ Ascending(c) /\ Range(c) = Blocks(m) \cup {b}
  <2> DEFINE k == Predecessor(m, b)
  <2>1. k \in 0..Len(s) /\ (k > 0 => s[k] < b) /\ ~(k < Len(s))
    <3>1. Len(s) \in Nat /\ (Len(s) > 0 => s[Len(s)] \in Blocks(m))
      BY <1>1 DEF Blocks, Range
    <3> QED BY <1>4, <1>6, <3>1
  <2> HIDE DEF k, s
  <2>2. c = InsertAfter(s, k, b)
    BY DEF k
  <2> HIDE DEF c
  <2>3. c \in Seq(Nat) /\ Ascending(c) /\ Range(c) = Range(s) \cup {b}
    BY <1>1, <1>3, <2>1, <2>2, InsertAscending
  <2> QED BY <2>3 DEF Blocks, s
<1>9. n = [[m EXCEPT !.hdr = h] EXCEPT !.chain = c] /\ NewBlock(m, b, z) = free_block(n, b)
  BY <1>1 DEF NewBlock, Mem
<1> HIDE DEF h, c, n
<1>10. n \in Mem /\ n.chain = c /\ n.frees = m.frees /\ n.hdr = h /\ n.brk = m.brk /\ n.lim = m.lim
  BY <1>1, <1>7, <1>8, <1>9 DEF Mem, Wrote
<1>11. Blocks(n) = Blocks(m) \cup {b}
  BY <1>8, <1>10 DEF Blocks
<1>12. /\ n.hdr[b].size = z /\ n.hdr[b].type = "FREE" /\ Blocks(n) \subseteq DOMAIN n.hdr
       /\ \A x \in Blocks(m) : n.hdr[x] = m.hdr[x]
  BY <1>2, <1>5, <1>7, <1>10, <1>11 DEF Wrote
<1>13. Laid(n)
  <2>1. ASSUME NEW x \in Blocks(n) PROVE Placed(n, x)
    <3>1. CASE x = b
      BY <1>10, <1>12, <3>1 DEF Placed
    <3>2. CASE x # b
      <4>1. Placed(m, x) /\ n.hdr[x] = m.hdr[x]
        BY <1>1, <1>11, <1>12, <2>1, <3>2 DEF Laid
      <4> QED BY <1>10, <4>1 DEF Placed
    <3> QED BY <3>1, <3>2
  <2>2. ASSUME NEW x \in Blocks(n), NEW y \in Blocks(n), x < y PROVE x + n.hdr[x].size <= y
    <3>1. x # b
      BY <1>2, <1>3, <1>4, <1>11, <2>2
    <3>2. x \in Blocks(m) /\ n.hdr[x] = m.hdr[x]
      BY <1>11, <1>12, <3>1
    <3>3. CASE y = b
      BY <3>2, <3>3
    <3>4. CASE y # b
      BY <1>1, <1>11, <2>2, <3>2, <3>4 DEF Laid
    <3> QED BY <3>3, <3>4
  <2> QED BY <1>8, <1>10, <1>12, <2>1, <2>2 DEF Laid
<1>14. Listed(n, {b})
  <2>1. Distinct(m.frees) /\ Range(m.frees) = {x \in Blocks(m) \ {} : IsFree(m, x)}
    BY DEF Sound, Listed
  <2>2. {x \in Blocks(n) \ {b} : IsFree(n, x)} = {x \in Blocks(m) \ {} : IsFree(m, x)}
    BY <1>5, <1>11, <1>12 DEF IsFree
  <2> QED BY <1>10, <2>1, <2>2 DEF Listed
<1>15. Joined(n, {})
  <2>1. Range(m.frees) \subseteq Blocks(m) /\ \A x, y \in Range(m.frees) : x + m.hdr[x].size # y
    BY DEF Sound, Listed, Joined, Touches
  <2> QED BY <1>10, <1>12, <2>1 DEF Joined, Touches
<1> DEFINE f == free_block(n, b)
<1>16. /\ Sound(f.m) /\ f.block \in Range(f.m.frees)
       /\ f.m.hdr[f.block].size >= n.hdr[b].size
       /\ Keeps(n, f.m, Used(n) \ {b})
  BY <1>11, <1>13, <1>14, <1>15, FreeBlockSound
<1> HIDE DEF f
<1>17. Used(n) = Used(m) /\ b \notin Used(m) /\ Keeps(m, n, Used(m))
  BY <1>5, <1>11, <1>12 DEF Used, Keeps
<1>18. Keeps(m, f.m, Used(m))
  <2>1. Used(n) \ {b} = Used(m)
    BY <1>17
  <2> QED BY <1>16, <1>17, <2>1, KeepsOn
<1>19. NewBlock(m, b, z) = f
  BY <1>9 DEF f
<1> QED BY <1>12, <1>16, <1>18, <1>19

\* The break and m_sizelim may grow under the blocks.
LEMMA GrownSound ==
    ASSUME NEW m, NEW n, Sound(m), n \in Mem, n.chain = m.chain, n.frees = m.frees, n.hdr = m.hdr,
           n.brk >= m.brk, n.lim >= m.lim
    PROVE  Sound(n) /\ Blocks(n) = Blocks(m) /\ Keeps(m, n, Used(m))
<1>1. Laid(m) /\ Listed(m, {}) /\ Joined(m, {})
  BY DEF Sound
<1>2. Blocks(m) \subseteq DOMAIN n.hdr /\ \A b \in Blocks(m) : n.hdr[b].size = m.hdr[b].size
  BY <1>1 DEF Laid
<1>3. Laid(n) /\ Blocks(n) = Blocks(m)
  BY <1>1, <1>2, SameLayout
<1>4. Listed(n, {}) /\ Joined(n, {})
  BY <1>1, <1>3 DEF Listed, Joined, Touches, IsFree
<1>5. Keeps(m, n, Used(m))
  BY <1>3 DEF Keeps, Used
<1> QED BY <1>3, <1>4, <1>5 DEF Sound

\* malloc: nothing changes for the blocks in use, and there is one more of at
\* least the size asked for unless NULL is returned.
LEMMA MallocSound ==
    ASSUME NEW m, Sound(m), NEW asked \in Nat
    PROVE  LET r == malloc(m, asked) IN
           /\ Sound(r.m)
           /\ \/ r.block = -1 /\ Keeps(m, r.m, Used(m))
              \/ /\ r.block \in Nat /\ r.block \notin Used(m) /\ Keeps(m, r.m, Used(m) \cup {r.block})
                 /\ r.m.hdr[r.block].size >= ARENA_SIZE(asked)
<1> DEFINE size == ARENA_SIZE(asked)
           fit == m.frees[Min(Fits(m, size))]
           fsize == UpTo(size, CHUNK)
           more == sbrk(m, fsize)
           new == NewBlock(more.m, more.start, fsize)
           r == malloc(m, asked)
<1>1. /\ asked = 0 => r = [m |-> m, block |-> -1]
      /\ asked # 0 /\ Fits(m, size) # {} => r = [m |-> malloc_from_block(m, fit, size), block |-> fit]
      /\ asked # 0 /\ Fits(m, size) = {} /\ more.start = -1 => r = [m |-> more.m, block |-> -1]
      /\ asked # 0 /\ Fits(m, size) = {} /\ more.start # -1 =>
           r = [m |-> malloc_from_block(new.m, new.block, size), block |-> new.block]
  BY DEF malloc
<1>2. Keeps(m, m, Used(m))
  BY DEF Keeps
<1>3. Whole(size) /\ (asked # 0 => size >= 2 * HEADER) /\ size \in Nat
  BY ArenaSizeIs DEF Whole
<1>4. m \in Mem /\ m.frees \in Seq(Nat) /\ Laid(m)
  BY DEF Sound, Laid, Mem
<1> HIDE DEF r, size
<1>5. CASE asked = 0
  <2>1. r.m = m /\ r.block = -1
    BY <1>1, <1>5
  <2> QED BY <1>2, <2>1 DEF r
<1>6. CASE asked # 0 /\ Fits(m, size) # {}
  <2> DEFINE i == Min(Fits(m, size))
  <2>1. Fits(m, size) \subseteq Nat
    BY <1>4 DEF Fits
  <2>2. i \in Fits(m, size)
    BY <1>6, <2>1, LeastNumber DEF Min
  <2>3. i \in DOMAIN m.frees /\ m.hdr[fit].size >= size
    BY <2>2 DEF Fits
  <2>4. fit \in Range(m.frees)
    BY <2>3 DEF Range
  <2>5. r.m = malloc_from_block(m, fit, size) /\ r.block = fit
    BY <1>1, <1>6
  <2>6. fit \in Nat
    BY <1>4, <2>3
  <2> HIDE DEF i, fit
  <2>7. Sound(r.m) /\ fit \notin Used(m) /\ Keeps(m, r.m, Used(m) \cup {fit}) /\ r.m.hdr[fit].size >= size
    BY <1>3, <1>6, <2>3, <2>4, <2>5, FromBlockSound
  <2> QED BY <2>5, <2>6, <2>7 DEF r, size
<1>7. CASE asked # 0 /\ Fits(m, size) = {}
  <2>1. fsize >= size /\ Whole(fsize) /\ fsize \in Nat
    BY <1>3, UpToIs, HeapAssumption DEF Whole
  <2> HIDE DEF fsize
  <2>2. \/ more.start = -1 /\ more.m = m
        \/ /\ more.start \in Nat /\ Whole(more.start) /\ more.start >= m.brk /\ more.m \in Mem
           /\ more.m.chain = m.chain /\ more.m.frees = m.frees /\ more.m.hdr = m.hdr
           /\ more.m.brk >= m.brk /\ more.m.lim >= m.lim
           /\ more.start + fsize <= more.m.brk /\ more.start + fsize <= more.m.lim
    BY <1>4, <2>1, SbrkIs
  <2>3. CASE more.start = -1
    <3>1. more.m = m
      BY <2>2, <2>3
    <3>2. r.m = m /\ r.block = -1
      BY <1>1, <1>7, <2>3, <3>1
    <3> QED BY <1>2, <3>2 DEF r
  <2>4. CASE more.start # -1
    <3> DEFINE n == more.m
               b == more.start
    <3>1. /\ Whole(b) /\ b \in Nat /\ b >= m.brk /\ n \in Mem
          /\ n.chain = m.chain /\ n.frees = m.frees /\ n.hdr = m.hdr
          /\ n.brk >= m.brk /\ n.lim >= m.lim
          /\ b + fsize <= n.brk /\ b + fsize <= n.lim
      BY <2>2, <2>4
    <3>2. r.m = malloc_from_block(new.m, new.block, size) /\ r.block = new.block
      BY <1>1, <1>7, <2>4
    <3>3. new = NewBlock(n, b, fsize)
      OBVIOUS
    <3> HIDE DEF n, b, new
    <3>4. Sound(n) /\ Blocks(n) = Blocks(m) /\ Keeps(m, n, Used(m))
      BY <3>1, GrownSound
    <3>5. ASSUME NEW x \in Blocks(n) PROVE x + n.hdr[x].size <= b
      <4>1. x \in Blocks(m) /\ Placed(m, x)
        BY <1>4, <3>4, <3>5 DEF Laid
      <4>2. x \in Nat /\ m.hdr[x].size \in Nat /\ m.brk \in Nat
        BY <1>4, <4>1, BlockIs DEF Mem
      <4> QED BY <3>1, <4>1, <4>2 DEF Placed
    <3>6. fsize >= 2 * HEADER
      BY <1>3, <1>7, <2>1, HeapAssumption
    <3>7. /\ Sound(new.m) /\ new.block \in Range(new.m.frees) /\ new.m.hdr[new.block].size >= fsize
          /\ Keeps(n, new.m, Used(n))
      BY <2>1, <3>1, <3>3, <3>4, <3>5, <3>6, NewBlockSound
    <3>8. new.block \in Blocks(new.m) /\ Laid(new.m)
      BY <3>7 DEF Sound, Listed
    <3>9. new.block \in Nat /\ new.m.hdr[new.block].size \in Nat
      BY <3>8, BlockIs
    <3>10. new.m.hdr[new.block].size >= size
      BY <1>3, <2>1, <3>7, <3>9
    <3>11. /\ Sound(r.m) /\ new.block \notin Used(new.m) /\ Keeps(new.m, r.m, Used(new.m) \cup {new.block})
           /\ r.m.hdr[new.block].size >= size
      BY <1>3, <1>7, <3>2, <3>7, <3>10, FromBlockSound
    <3>12. Used(n) = Used(m) /\ Used(new.m) = Used(m)
      BY <3>4, <3>7 DEF Keeps
    <3>13. Keeps(m, new.m, Used(m))
      BY <3>4, <3>7, <3>12, KeepsOn
    <3>14. Keeps(m, r.m, Used(m) \cup {new.block})
      BY <3>11, <3>12, <3>13, KeepsOn
    <3> QED BY <3>2, <3>9, <3>11, <3>12, <3>14 DEF r, size
  <2> QED BY <2>3, <2>4
<1> QED BY <1>5, <1>6, <1>7

\* A free block is taken from both lists.
LEMMA RemoveSound ==
    ASSUME NEW m, Sound(m), NEW a \in Range(m.frees)
    PROVE  LET n == remove_from_chains(m, a) IN
           Sound(n) /\ n \in Mem /\ Keeps(m, n, Used(m)) /\ n.brk = m.brk /\ n.lim = m.lim
<1> DEFINE n == remove_from_chains(m, a)
           c == Unlink(m.chain, a)
           l == Unlink(m.frees, a)
<1>1. m \in Mem /\ m.chain \in Seq(Nat) /\ m.frees \in Seq(Nat) /\ Ascending(m.chain) /\ Laid(m)
  BY DEF Sound, Laid, Mem
<1>2. Distinct(m.frees) /\ Range(m.frees) = {x \in Blocks(m) : IsFree(m, x)} /\ a \in Blocks(m)
  BY DEF Sound, Listed
<1>3. c \in Seq(Nat) /\ Ascending(c) /\ Range(c) = Blocks(m) \ {a}
  BY <1>1, <1>2, UnlinkAscending DEF Blocks
<1>4. l \in Seq(Nat) /\ Distinct(l) /\ Range(l) = Range(m.frees) \ {a}
  BY <1>1, <1>2, UnlinkDistinct
<1>5. n = [[m EXCEPT !.frees = l] EXCEPT !.chain = c]
  BY <1>1 DEF remove_from_chains, Mem
<1> HIDE DEF n, c, l
<1>6. n \in Mem /\ n.chain = c /\ n.frees = l /\ n.hdr = m.hdr /\ n.brk = m.brk /\ n.lim = m.lim
  BY <1>1, <1>3, <1>4, <1>5 DEF Mem
<1>7. Blocks(n) = Blocks(m) \ {a}
  BY <1>3, <1>6 DEF Blocks
<1>8. Laid(n)
  <2>1. \A x \in Blocks(n) : Placed(n, x)
    BY <1>1, <1>6, <1>7 DEF Laid, Placed
  <2>2. \A x, y \in Blocks(n) : x < y => x + n.hdr[x].size <= y
    BY <1>1, <1>6, <1>7 DEF Laid
  <2>3. Blocks(n) \subseteq DOMAIN n.hdr
    BY <1>1, <1>6, <1>7 DEF Laid
  <2> QED BY <1>3, <1>6, <2>1, <2>2, <2>3 DEF Laid
<1>9. Listed(n, {})
  BY <1>2, <1>4, <1>6, <1>7 DEF Listed, IsFree
<1>10. Joined(n, {})
  BY <1>4, <1>6 DEF Sound, Joined, Touches
<1>11. Keeps(m, n, Used(m))
  <2>1. a \notin Used(m)
    BY <1>2 DEF Used, IsFree
  <2> QED BY <1>6, <1>7, <2>1 DEF Keeps, Used
<1> QED BY <1>6, <1>8, <1>9, <1>10, <1>11 DEF Sound, n

\* The library's brk never lowers the break once the kernel's m_sizelim is
\* not 0: brk of the kernel adds to it.
LEMMA BrkIs ==
    ASSUME NEW m, m \in Mem, m.lim > 0, NEW end \in Nat
    PROVE  LET n == brk(m, end) IN
           /\ n \in Mem /\ n.chain = m.chain /\ n.frees = m.frees /\ n.hdr = m.hdr
           /\ n.brk >= m.brk /\ n.lim >= m.lim
<1> DEFINE k == sys_sbrk(m, end)
           n == brk(m, end)
<1>1. m.brk \in Nat /\ m.lim \in Nat
  BY DEF Mem
<1>2. k.ret # end => n = k.m
  BY DEF brk
<1> HIDE DEF n
<1>3. CASE m.lim + end <= HEAPLIM
  <2>1. k.m = [m EXCEPT !.lim = m.lim + end] /\ k.ret = m.lim + end
    BY <1>3 DEF sys_sbrk, Mem
  <2>2. k.ret # end /\ m.lim + end \in Nat /\ m.lim + end >= m.lim /\ m.brk >= m.brk
    BY <1>1, <2>1
  <2>3. n = [m EXCEPT !.lim = m.lim + end]
    BY <1>2, <2>1, <2>2
  <2>4. /\ n \in Mem /\ n.chain = m.chain /\ n.frees = m.frees /\ n.hdr = m.hdr
        /\ n.brk = m.brk /\ n.lim = m.lim + end
    BY <2>2, <2>3 DEF Mem
  <2> QED BY <2>2, <2>4 DEF n
<1>4. CASE ~(m.lim + end <= HEAPLIM)
  <2>1. k.m = m /\ k.ret = -1
    BY <1>4 DEF sys_sbrk
  <2>2. k.ret # end /\ m.brk >= m.brk /\ m.lim >= m.lim
    BY <1>1, <2>1
  <2>3. n = m
    BY <1>2, <2>1, <2>2
  <2> QED BY <2>2, <2>3 DEF n
<1> QED BY <1>3, <1>4

\* free: the block is in use no longer, and nothing changes for the others.
LEMMA FreeSound ==
    ASSUME NEW m, Sound(m), NEW b \in Used(m)
    PROVE  Sound(free(m, b)) /\ Keeps(m, free(m, b), Used(m) \ {b})
<1> DEFINE f == free_block(m, b)
           ah == f.block
           n == remove_from_chains(f.m, ah)
           o == brk(n, ah)
<1>1. free(m, b) = IF f.m.hdr[ah].size >= CHUNK /\ Touches(f.m, ah, f.m.brk) THEN o ELSE f.m
  BY DEF free
<1>2. Laid(m) /\ b \in Blocks(m) /\ Joined(m, {}) /\ ~IsFree(m, b)
  BY DEF Sound, Used, IsFree
<1>3. Listed(m, {b})
  BY <1>2 DEF Sound, Listed
<1>4. /\ Sound(f.m) /\ ah \in Range(f.m.frees)
      /\ Keeps(m, f.m, Used(m) \ {b}) /\ f.m.brk = m.brk /\ f.m.lim = m.lim
  BY <1>2, <1>3, FreeBlockSound
<1>5. ah \in Blocks(f.m) /\ Laid(f.m)
  BY <1>4 DEF Sound, Listed
<1> HIDE DEF f
<1>6. ah \in Nat /\ f.m.hdr[ah].size \in Nat /\ f.m.hdr[ah].size > 0 /\ f.m \in Mem
  BY <1>5, BlockIs DEF Laid
<1>7. f.m.lim > 0
  <2>1. ah + f.m.hdr[ah].size <= f.m.lim /\ f.m.lim \in Nat
    BY <1>5, <1>6 DEF Laid, Placed, Mem
  <2> QED BY <1>6, <2>1
<1> HIDE DEF ah
<1>8. Sound(n) /\ n \in Mem /\ Keeps(f.m, n, Used(f.m)) /\ n.lim = f.m.lim
  BY <1>4, RemoveSound
<1> HIDE DEF n
<1>9. Sound(o) /\ Keeps(n, o, Used(n))
  <2>1. /\ o \in Mem /\ o.chain = n.chain /\ o.frees = n.frees /\ o.hdr = n.hdr
        /\ o.brk >= n.brk /\ o.lim >= n.lim
    BY <1>6, <1>7, <1>8, BrkIs
  <2> HIDE DEF o
  <2> QED BY <1>8, <2>1, GrownSound
<1> HIDE DEF o
<1>10. Keeps(m, o, Used(m) \ {b})
  <2>1. Used(f.m) = Used(m) \ {b} /\ Used(n) = Used(f.m)
    BY <1>4, <1>8 DEF Keeps
  <2>2. Keeps(m, n, Used(m) \ {b})
    BY <1>4, <1>8, <2>1, KeepsOn
  <2> QED BY <1>9, <2>1, <2>2, KeepsOn
<1> QED BY <1>1, <1>4, <1>9, <1>10

-----------------------------------------------------------------------------
(* The program and its blocks. *)

\* The memory is sound, only listed blocks have headers, and the blocks in
\* use are those the program holds, with room for what it asked for.
HeapInv ==
    /\ Sound(Lib) /\ DOMAIN hdr = Range(chain)
    /\ DOMAIN live = Used(Lib)
    /\ \A b \in DOMAIN live : live[b] \in Nat /\ hdr[b].size - HEADER >= live[b]
    /\ ReallocKeeps

Forgetting(m) ==
    [chain |-> m.chain, frees |-> m.frees, hdr |-> Restrict(m.hdr, Range(m.chain)), brk |-> m.brk, lim |-> m.lim]

\* The headers of blocks that are not listed do not matter.
LEMMA ForgettingSound ==
    ASSUME NEW m, Sound(m)
    PROVE  LET n == Forgetting(m) IN
           /\ Sound(n) /\ Blocks(n) = Blocks(m) /\ Used(n) = Used(m) /\ DOMAIN n.hdr = Blocks(m)
           /\ \A b \in Blocks(m) : n.hdr[b] = m.hdr[b]
<1> DEFINE n == Forgetting(m)
           h == Restrict(m.hdr, Range(m.chain))
<1>1. m \in Mem /\ m.hdr \in Headers /\ Laid(m) /\ Blocks(m) \subseteq DOMAIN m.hdr
  BY DEF Sound, Laid, Mem
<1>2. h = [b \in Blocks(m) |-> m.hdr[b]]
  BY DEF Restrict, Blocks
<1>3. Blocks(m) \in SUBSET Nat /\ \A b \in Blocks(m) : m.hdr[b] \in Header
  BY <1>1, HeadersAre
<1>4. h \in Headers
  <2>1. h \in [Blocks(m) -> Header]
    BY <1>2, <1>3
  <2> QED BY <1>3, <2>1 DEF Headers
<1>5. n = [chain |-> m.chain, frees |-> m.frees, hdr |-> h, brk |-> m.brk, lim |-> m.lim]
  BY DEF Forgetting
<1> HIDE DEF n, h
<1>6. /\ n \in Mem /\ n.chain = m.chain /\ n.frees = m.frees /\ n.hdr = h
      /\ n.brk = m.brk /\ n.lim = m.lim
  BY <1>1, <1>4, <1>5 DEF Mem
<1>7. DOMAIN n.hdr = Blocks(m) /\ \A b \in Blocks(m) : n.hdr[b] = m.hdr[b]
  BY <1>2, <1>6
<1>8. Laid(n) /\ Blocks(n) = Blocks(m)
  <2>1. n.brk >= m.brk /\ n.lim >= m.lim
    BY <1>1, <1>6 DEF Mem
  <2> QED BY <1>1, <1>6, <1>7, <2>1, SameLayout
<1>9. Listed(n, {}) /\ Used(n) = Used(m)
  BY <1>6, <1>7, <1>8 DEF Sound, Listed, IsFree, Used
<1>10. Joined(n, {})
  BY <1>6, <1>7 DEF Sound, Listed, Joined, Touches
<1> QED BY <1>7, <1>8, <1>9, <1>10 DEF Sound, n

\* What a call leaves behind.
LEMMA BecomesSound ==
    ASSUME NEW m, Sound(m), Becomes(m)
    PROVE  /\ Sound(Lib') /\ DOMAIN hdr' = Range(chain') /\ Used(Lib') = Used(m)
           /\ \A b \in Used(m) : hdr'[b] = m.hdr[b]
<1> DEFINE n == Forgetting(m)
<1>1. Lib' = n /\ hdr' = n.hdr /\ chain' = m.chain
  BY DEF Becomes, Lib, Forgetting
<1>2. /\ Sound(n) /\ Blocks(n) = Blocks(m) /\ Used(n) = Used(m) /\ DOMAIN n.hdr = Blocks(m)
      /\ \A b \in Blocks(m) : n.hdr[b] = m.hdr[b]
  BY ForgettingSound
<1> HIDE DEF n
<1>3. Blocks(m) = Range(chain') /\ Used(m) \subseteq Blocks(m)
  BY <1>1 DEF Blocks, Used
<1> QED BY <1>1, <1>2, <1>3

\* A heap that has not been used is sound.
LEMMA HeapInitSound == HeapInit => HeapInv
<1> SUFFICES ASSUME HeapInit PROVE HeapInv
  OBVIOUS
<1>1. /\ Lib = [chain |-> <<>>, frees |-> <<>>, hdr |-> <<>>, brk |-> 0, lim |-> lim]
      /\ lim \in Nat /\ live = <<>> /\ copied = <<>> /\ hdr = <<>> /\ chain = <<>>
  BY HeapAssumption DEF HeapInit, Lib
<1>2. Range(<<>>) = {} /\ DOMAIN <<>> = {}
  BY DEF Range
<1>3. <<>> \in Headers
  <2>1. <<>> \in [{} -> Header]
    BY <1>2
  <2> QED BY <2>1 DEF Headers
<1>4. Lib \in Mem /\ Lib.chain = <<>> /\ Lib.frees = <<>> /\ Lib.hdr = <<>>
  BY <1>1, <1>3 DEF Mem
<1>5. Blocks(Lib) = {} /\ Used(Lib) = {}
  BY <1>2, <1>4 DEF Blocks, Used
<1>6. Laid(Lib)
  BY <1>2, <1>4, <1>5 DEF Laid, Ascending
<1>7. Listed(Lib, {}) /\ Joined(Lib, {})
  BY <1>2, <1>4, <1>5 DEF Listed, Joined, Distinct
<1> QED BY <1>1, <1>2, <1>5, <1>6, <1>7 DEF HeapInv, Sound, ReallocKeeps

\* malloc and calloc keep the heap sound and the live blocks apart.
LEMMA AllocKeeps ==
    ASSUME HeapInv, NEW n \in {1, 3}, NEW asked \in Sizes, Alloc(n, asked)
    PROVE  HeapInv'
<1> DEFINE size == (n * asked) % SIZE_MAX1
           r == malloc(Lib, size)
<1>1. size \in Nat
  <2>1. asked \in Nat /\ n \in Nat /\ SIZE_MAX1 \in Nat \ {0}
    BY HeapAssumption
  <2>2. n * asked \in Nat
    BY <2>1
  <2> QED BY <2>1, <2>2, Division
<1>2. Becomes(r.m) /\ live' = (IF r.block = -1 THEN live ELSE Asked(live, r.block, size)) /\ copied' = copied
  BY DEF Alloc
<1> HIDE DEF size
<1>3. /\ Sound(r.m)
      /\ \/ r.block = -1 /\ Keeps(Lib, r.m, Used(Lib))
         \/ /\ r.block \in Nat /\ r.block \notin Used(Lib) /\ Keeps(Lib, r.m, Used(Lib) \cup {r.block})
            /\ r.m.hdr[r.block].size >= ARENA_SIZE(size)
  BY <1>1, MallocSound DEF HeapInv
<1> HIDE DEF r
<1>4. /\ Sound(Lib') /\ DOMAIN hdr' = Range(chain') /\ Used(Lib') = Used(r.m)
      /\ \A b \in Used(r.m) : hdr'[b] = r.m.hdr[b]
  BY <1>2, <1>3, BecomesSound
<1>5. ReallocKeeps'
  BY <1>2 DEF HeapInv, ReallocKeeps
<1>6. Lib.hdr = hdr /\ DOMAIN live = Used(Lib)
  BY DEF Lib, HeapInv
<1>7. \A b \in DOMAIN live : live[b] \in Nat /\ hdr[b].size - HEADER >= live[b]
  BY DEF HeapInv
<1>8. CASE r.block = -1
  <2>1. Keeps(Lib, r.m, Used(Lib)) /\ live' = live
    BY <1>2, <1>3, <1>8
  <2>2. DOMAIN live' = Used(Lib')
    BY <1>4, <1>6, <2>1 DEF Keeps
  <2>3. \A b \in DOMAIN live' : live'[b] \in Nat /\ hdr'[b].size - HEADER >= live'[b]
    BY <1>4, <1>6, <1>7, <2>1 DEF Keeps
  <2> QED BY <1>4, <1>5, <2>2, <2>3 DEF HeapInv
<1>9. CASE r.block # -1
  <2> DEFINE b == r.block
  <2>1. /\ b \notin Used(Lib) /\ Keeps(Lib, r.m, Used(Lib) \cup {b})
        /\ r.m.hdr[b].size >= ARENA_SIZE(size) /\ live' = Asked(live, b, size)
    BY <1>2, <1>3, <1>9
  <2> HIDE DEF b
  <2>2. /\ DOMAIN live' = DOMAIN live \cup {b} /\ live'[b] = size
        /\ \A c \in DOMAIN live : c # b => live'[c] = live[c]
    BY <2>1 DEF Asked
  <2>3. DOMAIN live' = Used(Lib')
    BY <1>4, <1>6, <2>1, <2>2 DEF Keeps
  <2>4. ASSUME NEW c \in DOMAIN live' PROVE live'[c] \in Nat /\ hdr'[c].size - HEADER >= live'[c]
    <3>1. hdr'[c] = r.m.hdr[c]
      BY <1>4, <2>3, <2>4
    <3>2. CASE c = b
      <4>1. b \in Blocks(r.m) /\ Laid(r.m)
        BY <1>3, <2>1 DEF Keeps, Used, Sound
      <4>2. r.m.hdr[b].size \in Nat /\ ARENA_SIZE(size) \in Nat /\ ARENA_SIZE(size) >= size + HEADER /\ HEADER \in Nat
        BY <1>1, <4>1, BlockIs, ArenaSizeIs, HeapAssumption DEF Whole
      <4>3. r.m.hdr[b].size - HEADER >= size
        BY <1>1, <2>1, <4>2
      <4> QED BY <1>1, <2>2, <3>1, <3>2, <4>3
    <3>3. CASE c # b
      <4>1. c \in DOMAIN live /\ live'[c] = live[c] /\ r.m.hdr[c] = hdr[c]
        BY <1>6, <2>1, <2>2, <2>4, <3>3 DEF Keeps
      <4> QED BY <1>7, <3>1, <4>1
    <3> QED BY <3>2, <3>3
  <2> QED BY <1>4, <1>5, <2>3, <2>4 DEF HeapInv
<1> QED BY <1>8, <1>9

\* So does free.
LEMMA ReleaseKeeps ==
    ASSUME HeapInv, NEW b \in DOMAIN live, Release(b)
    PROVE  HeapInv'
<1> DEFINE m == free(Lib, b)
<1>1. b \in Used(Lib) /\ Sound(Lib) /\ Lib.hdr = hdr
  BY DEF HeapInv, Lib
<1>2. Sound(m) /\ Keeps(Lib, m, Used(Lib) \ {b})
  BY <1>1, FreeSound
<1>3. Becomes(m) /\ live' = [c \in DOMAIN live \ {b} |-> live[c]] /\ copied' = copied
  BY DEF Release, Drop
<1> HIDE DEF m
<1>4. /\ Sound(Lib') /\ DOMAIN hdr' = Range(chain') /\ Used(Lib') = Used(m)
      /\ \A c \in Used(m) : hdr'[c] = m.hdr[c]
  BY <1>2, <1>3, BecomesSound
<1>5. ReallocKeeps'
  BY <1>3 DEF HeapInv, ReallocKeeps
<1>6. DOMAIN live' = Used(Lib')
  BY <1>2, <1>3, <1>4 DEF HeapInv, Keeps
<1>7. \A c \in DOMAIN live' : live'[c] \in Nat /\ hdr'[c].size - HEADER >= live'[c]
  BY <1>1, <1>2, <1>3, <1>4, <1>6 DEF HeapInv, Keeps
<1> QED BY <1>4, <1>5, <1>6, <1>7 DEF HeapInv

\* So does realloc, whether it moves the block or not.
LEMMA ReallocKeepsInv ==
    ASSUME HeapInv, NEW b \in DOMAIN live, NEW asked \in Sizes, realloc(b, asked)
    PROVE  HeapInv'
<1> DEFINE size == ARENA_SIZE(asked)
           has == hdr[b].size
           new == malloc(Lib, size)
           n == CopiedOver(size, has - HEADER)
           x == new.block
           m == free(new.m, b)
<1>1. asked \in Nat /\ HEADER \in Nat \ {0} /\ size \in Nat /\ size >= asked + HEADER
  BY ArenaSizeIs, HeapAssumption DEF Whole
<1>2. /\ asked = 0 => Release(b)
      /\ asked # 0 /\ has >= size /\ size >= has \div 4 =>
           live' = [live EXCEPT ![b] = asked] /\ UNCHANGED <<chain, frees, hdr, current_brk, lim, copied>>
      /\ asked # 0 /\ ~(has >= size /\ size >= has \div 4) =>
           /\ x # -1 /\ Becomes(m)
           /\ live' = Asked(Drop(b), x, asked)
           /\ copied' = <<n, live[b], asked, hdr'[x].size - HEADER>>
  BY DEF realloc
<1>3. Sound(Lib) /\ Lib.hdr = hdr /\ DOMAIN live = Used(Lib) /\ b \in Used(Lib)
  BY DEF HeapInv, Lib
<1>4. \A c \in DOMAIN live : live[c] \in Nat /\ hdr[c].size - HEADER >= live[c] /\ hdr[c].size \in Nat
  <2>1. \A c \in Used(Lib) : c \in Blocks(Lib) /\ Laid(Lib)
    BY <1>3 DEF Used, Sound
  <2> QED BY <1>3, <2>1, BlockIs DEF HeapInv
<1> HIDE DEF size, has
<1>5. CASE asked = 0
  BY <1>2, <1>5, ReleaseKeeps
<1>6. CASE asked # 0 /\ has >= size /\ size >= has \div 4
  <2>1. live' = [live EXCEPT ![b] = asked] /\ UNCHANGED <<chain, frees, hdr, current_brk, lim, copied>>
    BY <1>2, <1>6
  <2>2. Lib' = Lib /\ hdr' = hdr /\ chain' = chain
    BY <2>1 DEF Lib
  <2>3. ReallocKeeps'
    BY <2>1 DEF HeapInv, ReallocKeeps
  <2>4. DOMAIN live' = DOMAIN live /\ \A c \in DOMAIN live : live'[c] = IF c = b THEN asked ELSE live[c]
    BY <2>1
  <2>5. hdr[b].size - HEADER >= asked
    <3>1. hdr[b].size \in Nat /\ hdr[b].size >= size
      BY <1>4, <1>6 DEF has
    <3> QED BY <1>1, <3>1
  <2>6. \A c \in DOMAIN live' : live'[c] \in Nat /\ hdr'[c].size - HEADER >= live'[c]
    BY <1>1, <1>4, <2>2, <2>4, <2>5
  <2> QED BY <1>3, <2>2, <2>3, <2>4, <2>6 DEF HeapInv
<1>7. CASE asked # 0 /\ ~(has >= size /\ size >= has \div 4)
  <2>1. /\ x # -1 /\ Becomes(m)
        /\ live' = Asked(Drop(b), x, asked)
        /\ copied' = <<n, live[b], asked, hdr'[x].size - HEADER>>
    BY <1>2, <1>7
  <2>2. /\ Sound(new.m) /\ x \notin Used(Lib) /\ Keeps(Lib, new.m, Used(Lib) \cup {x})
        /\ new.m.hdr[x].size >= ARENA_SIZE(size)
    BY <1>1, <1>3, <2>1, MallocSound
  <2>3. Used(new.m) = Used(Lib) \cup {x} /\ b \in Used(new.m) /\ x # b /\ \A c \in Used(Lib) : new.m.hdr[c] = hdr[c]
    BY <1>3, <2>2 DEF Keeps
  <2> HIDE DEF new
  <2>4. Sound(m) /\ Keeps(new.m, m, Used(new.m) \ {b})
    BY <2>2, <2>3, FreeSound
  <2> HIDE DEF m, x
  <2>5. /\ Sound(Lib') /\ DOMAIN hdr' = Range(chain') /\ Used(Lib') = Used(m)
        /\ \A c \in Used(m) : hdr'[c] = m.hdr[c]
    BY <2>1, <2>4, BecomesSound
  <2>6. Used(m) = (Used(Lib) \ {b}) \cup {x} /\ \A c \in Used(m) : hdr'[c] = new.m.hdr[c]
    BY <2>2, <2>3, <2>4, <2>5 DEF Keeps
  <2>7. /\ DOMAIN live' = (DOMAIN live \ {b}) \cup {x} /\ live'[x] = asked
        /\ \A c \in DOMAIN live \ {b} : c # x => live'[c] = live[c]
    BY <2>1 DEF Asked, Drop
  <2>8. DOMAIN live' = Used(Lib')
    BY <1>3, <2>5, <2>6, <2>7
  <2>9. hdr'[x].size \in Nat /\ hdr'[x].size - HEADER >= size
    <3>1. x \in Blocks(new.m) /\ Laid(new.m) /\ hdr'[x] = new.m.hdr[x]
      BY <2>2, <2>3, <2>6 DEF Used, Sound
    <3>2. hdr'[x].size \in Nat /\ hdr'[x].size >= ARENA_SIZE(size)
      BY <2>2, <3>1, BlockIs
    <3>3. ARENA_SIZE(size) \in Nat /\ ARENA_SIZE(size) >= size + HEADER
      BY <1>1, ArenaSizeIs DEF Whole
    <3> QED BY <1>1, <3>2, <3>3
  <2>10. ASSUME NEW c \in DOMAIN live' PROVE live'[c] \in Nat /\ hdr'[c].size - HEADER >= live'[c]
    <3>1. CASE c = x
      BY <1>1, <2>7, <2>9, <3>1
    <3>2. CASE c # x
      <4>1. c \in DOMAIN live /\ live'[c] = live[c] /\ hdr'[c] = hdr[c]
        BY <1>3, <2>3, <2>6, <2>7, <2>10, <3>2
      <4> QED BY <1>4, <4>1
    <3> QED BY <3>1, <3>2
  <2>11. ReallocKeeps'
    <3> DEFINE u == live[b]
               v == hdr'[x].size - HEADER
               w == has - HEADER
    <3>1. copied'[1] = n /\ copied'[2] = u /\ copied'[3] = asked /\ copied'[4] = v
      BY <2>1
    <3>2. u \in Nat /\ w \in Int /\ w >= u /\ v \in Int /\ v >= size
      BY <1>1, <1>4, <2>9 DEF has
    <3>3. n = IF size < w THEN size ELSE w
      BY DEF CopiedOver
    <3> HIDE DEF u, v, w, n
    <3>4. Min({u, asked}) \in {u, asked} /\ Min({u, asked}) <= u /\ Min({u, asked}) <= asked
      <4>1. \E i \in {u, asked} : \A j \in {u, asked} : i <= j
        BY <1>1, <3>2
      <4> QED BY <4>1 DEF Min
    <3>5. n >= Min({u, asked}) /\ n <= v
      BY <1>1, <3>2, <3>3, <3>4
    <3> QED BY <3>1, <3>5 DEF ReallocKeeps
  <2> QED BY <2>5, <2>8, <2>10, <2>11 DEF HeapInv
<1> QED BY <1>5, <1>6, <1>7

\* The inductive invariant implies what the property says.
LEMMA HeapInvIsSound == HeapInv => HeapSound
<1> SUFFICES ASSUME HeapInv PROVE HeapSound
  OBVIOUS
<1>1. /\ Laid(Lib) /\ Listed(Lib, {}) /\ Joined(Lib, {})
      /\ Lib.chain = chain /\ Lib.frees = frees /\ Lib.hdr = hdr /\ Lib.brk = current_brk /\ Lib.lim = lim
      /\ Blocks(Lib) = Range(chain)
  BY DEF HeapInv, Sound, Lib, Blocks
<1>2. chain \in Seq(Nat) /\ Ascending(chain) /\ \A b \in Range(chain) : Placed(Lib, b)
  BY <1>1 DEF Laid, Mem
<1>3. \A b \in Range(chain) : b \in Nat /\ hdr[b].size \in Nat /\ hdr[b].size > 0
  BY <1>1, BlockIs
<1>4. HeapTypeOK
  <2> SUFFICES ASSUME NEW i \in DOMAIN chain
               PROVE  /\ chain[i] % HEADER = 0 /\ hdr[chain[i]].size \in Nat \ {0}
                      /\ chain[i] + hdr[chain[i]].size <= (IF i = Len(chain) THEN current_brk ELSE chain[i + 1])
    BY DEF HeapTypeOK, HeapInv
  <2>1. chain[i] \in Range(chain)
    BY DEF Range
  <2>2. /\ chain[i] % HEADER = 0 /\ hdr[chain[i]].size \in Nat \ {0}
        /\ chain[i] + hdr[chain[i]].size <= current_brk
    BY <1>1, <1>2, <1>3, <2>1 DEF Placed, Whole
  <2>3. ASSUME i # Len(chain) PROVE chain[i] + hdr[chain[i]].size <= chain[i + 1]
    <3>1. i + 1 \in DOMAIN chain /\ i < i + 1
      BY <1>2, <2>3
    <3>2. chain[i] < chain[i + 1] /\ chain[i + 1] \in Range(chain)
      BY <1>2, <3>1 DEF Ascending, Range
    <3> QED BY <1>1, <2>1, <3>2 DEF Laid
  <2> QED BY <2>2, <2>3
<1>5. FreeListExact /\ Coalesced
  BY <1>1 DEF FreeListExact, Coalesced, Listed, Joined, Touches, IsFree, Distinct, IsInjective
<1>6. LiveIsUsed
  <2>1. DOMAIN live = {b \in Range(chain) : hdr[b].type = "USED"}
    BY <1>1 DEF HeapInv, Used
  <2>2. \A b \in Range(chain) : hdr[b].size >= 2 * HEADER
    BY <1>1, <1>2 DEF Placed
  <2> QED BY <2>1, <2>2 DEF LiveIsUsed, HeapInv
<1>7. KernelServes
  BY <1>1, <1>2 DEF KernelServes, Placed
<1> QED BY <1>4, <1>5, <1>6, <1>7 DEF HeapSound, HeapInv

\* The invariant along every run of malloc, free, realloc and calloc, for any
\* header and chunk sizes, limits of the kernel, requests and number of blocks.
THEOREM HeapInvariance == HeapSpec => []HeapInv
<1>1. HeapInit => HeapInv
  BY HeapInitSound
<1>2. HeapInv /\ [HeapNext]_heap_vars => HeapInv'
  <2> SUFFICES ASSUME HeapInv, [HeapNext]_heap_vars PROVE HeapInv'
    OBVIOUS
  <2>1. ASSUME NEW n \in {1, 3}, NEW size \in Sizes, Alloc(n, size) PROVE HeapInv'
    BY <2>1, AllocKeeps
  <2>2. ASSUME NEW b \in DOMAIN live, Release(b) PROVE HeapInv'
    BY <2>2, ReleaseKeeps
  <2>3. ASSUME NEW b \in DOMAIN live, NEW size \in Sizes, realloc(b, size) PROVE HeapInv'
    BY <2>3, ReallocKeepsInv
  <2>4. CASE UNCHANGED heap_vars
    <3>1. /\ chain' = chain /\ frees' = frees /\ hdr' = hdr /\ current_brk' = current_brk
          /\ lim' = lim /\ live' = live /\ copied' = copied
      BY <2>4 DEF heap_vars
    <3>2. Lib' = Lib
      BY <3>1 DEF Lib
    <3> QED BY <3>1, <3>2 DEF HeapInv, ReallocKeeps
  <2> QED BY <2>1, <2>2, <2>3, <2>4 DEF HeapNext
<1> QED BY <1>1, <1>2, PTL DEF HeapSpec

\* The heap of malloc.c and realloc.c: its blocks are in order and apart, the
\* free list is exact and joined up, and what the program holds is in use, big
\* enough and below m_sizelim, whatever was asked for and in whatever order.
THEOREM HeapIsSound == HeapSpec => []HeapSound
  BY HeapInvariance, HeapInvIsSound, PTL
=============================================================================
