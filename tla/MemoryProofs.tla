---------------------------- MODULE MemoryProofs ----------------------------
(***************************************************************************)
(* Proofs about Slice, for pages, words and objects of any size, as long   *)
(* as its callers are not preempted: an object is given to one caller, and *)
(* the lists tell which pages have room; and about Galloc, for any pools   *)
(* and sizes: a chunk has room for what was asked, and not much more.      *)
(***************************************************************************)
EXTENDS Slice, Galloc, Klist0Proofs

-----------------------------------------------------------------------------
(* Bits and words. *)

B == BITS_PER_LONG

\* Quotient and remainder.
LEMMA Parts ==
    ASSUME NEW b \in Nat
    PROVE  /\ b \div B \in Nat /\ b % B \in Ones
           /\ b = B * (b \div B) + (b % B)
  BY BitmapAssumption DEF B, Ones

\* A multiple of a word is below another when its factor is.
LEMMA Smaller ==
    ASSUME NEW x \in Int, NEW y \in Int, B * x < B * y
    PROVE  x < y
  BY BitmapAssumption DEF B

\* The bit k of word w.
LEMMA BitOfWord ==
    ASSUME NEW w \in Int, NEW k \in Ones
    PROVE  (B * w + k) \div B = w /\ (B * w + k) % B = k
<1>1. B \in Nat \ {0} /\ k \in 0..(B - 1)
  BY BitmapAssumption DEF B, Ones
<1> HIDE DEF B
<1>2. B * w \in Int
  BY <1>1
<1>3. B * w + k \in Int
  BY <1>1, <1>2
<1> DEFINE b == B * w + k
           q == b \div B
           r == b % B
<1>4. q \in Int /\ r \in 0..(B - 1) /\ b = B * q + r
  BY <1>3, <1>1
<1> HIDE DEF q, r
<1>5. B * q + r = B * w + k
  BY <1>4
<1>6. ~(q < w)
  <2> SUFFICES ASSUME q < w PROVE FALSE
    OBVIOUS
  <2>1. B * q + B <= B * w
    BY <1>1, <1>4
  <2>2. B * q \in Int
    BY <1>1, <1>4
  <2> QED BY <1>1, <1>2, <1>4, <1>5, <2>1, <2>2
<1>7. ~(w < q)
  <2> SUFFICES ASSUME w < q PROVE FALSE
    OBVIOUS
  <2>1. B * w + B <= B * q
    BY <1>1, <1>4
  <2>2. B * q \in Int
    BY <1>1, <1>4
  <2> QED BY <1>1, <1>2, <1>4, <1>5, <2>1, <2>2
<1>8. q = w
  BY <1>4, <1>6, <1>7
<1>9. r = k
  BY <1>1, <1>2, <1>4, <1>5, <1>8
<1> QED BY <1>8, <1>9 DEF q, r

\* Bits are ordered by their words first.
LEMMA BelowLimit ==
    ASSUME NEW b \in Nat, NEW n \in Nat
    PROVE  b < n <=> \/ b \div B < n \div B
                     \/ b \div B = n \div B /\ b % B < n % B
<1>1. B \in Nat \ {0} /\ Ones = 0..(B - 1)
  BY BitmapAssumption DEF B, Ones
<1> DEFINE q == b \div B  r == b % B
           u == n \div B  v == n % B
<1>2. q \in Nat /\ r \in 0..(B - 1) /\ b = B * q + r
  BY <1>1, Parts
<1>3. u \in Nat /\ v \in 0..(B - 1) /\ n = B * u + v
  BY <1>1, Parts
<1> HIDE DEF B, q, r, u, v
<1>4. B * q \in Nat /\ B * u \in Nat
  BY <1>1, <1>2, <1>3
<1>5. CASE q < u
  <2>1. B * q + B <= B * u
    BY <1>1, <1>2, <1>3, <1>5
  <2>2. b < n
    BY <1>1, <1>2, <1>3, <1>4, <2>1
  <2> QED BY <1>5, <2>2 DEF q, u
<1>6. CASE q = u
  <2>1. b < n <=> r < v
    BY <1>1, <1>2, <1>3, <1>4, <1>6
  <2>2. ~(q < u)
    BY <1>2, <1>3, <1>6
  <2> QED BY <1>6, <2>1, <2>2 DEF q, u, r, v
<1>7. CASE u < q
  <2>1. B * u + B <= B * q
    BY <1>1, <1>2, <1>3, <1>7
  <2>2. ~(b < n) /\ ~(q < u) /\ q # u
    BY <1>1, <1>2, <1>3, <1>4, <1>7, <2>1
  <2> QED BY <2>2 DEF q, u
<1> QED BY <1>2, <1>3, <1>5, <1>6, <1>7

\* A page has place for two objects and the map.
LEMMA TwoObjects ==
    /\ NObjs \in Nat /\ Words \in Nat \ {0}
    /\ NObjs <= B * Words
    /\ nobjs \in 2..NObjs
<1> DEFINE P == PAGE_SIZE  o == obj_size  N == NObjs  L == LONG_SIZE  W == Words
           gap == P - N * o
           M == W * L
<1>1. /\ P \in Nat /\ L \in Nat \ {0} /\ o \in Nat \ {0}
      /\ 2 * o <= P - 2 * L
      /\ B \in Nat \ {0} /\ 4 * L <= B
  BY SliceAssumption, BitmapAssumption DEF B
<1>2. N \in Nat /\ P = o * N + gap /\ gap \in 0..(o - 1)
  BY <1>1 DEF NObjs
<1>3. W \in Nat /\ B * W <= N + B - 1 /\ N <= B * W
  <2>1. W = (N + B - 1) \div B
    BY DEF Words, Longs, B
  <2>2. N + B - 1 \in Nat
    BY <1>1, <1>2
  <2>3. W \in Nat /\ (N + B - 1) % B \in 0..(B - 1) /\ N + B - 1 = B * W + ((N + B - 1) % B)
    BY <1>1, <2>1, <2>2, Parts DEF B, Ones
  <2>4. B * W \in Nat
    BY <1>1, <2>3
  <2> HIDE DEF W, B
  <2> QED BY <1>1, <1>2, <2>3, <2>4
<1>4. nobjs = IF M > gap THEN N - ((M - gap + o - 1) \div o) ELSE N
  BY DEF nobjs, BitmapSize
<1> HIDE DEF P, o, N, L, W, gap, B
<1>5. N >= 2
  <2> SUFFICES ASSUME N <= 1 PROVE FALSE
    BY <1>2
  <2>1. o * N <= o
    BY <1>1, <1>2
  <2>2. o * N \in Nat
    BY <1>1, <1>2
  <2> QED BY <1>1, <1>2, <2>1, <2>2
<1>6. W # 0
  <2> SUFFICES ASSUME W = 0 PROVE FALSE
    OBVIOUS
  <2>1. B * W = 0
    BY <1>1
  <2> QED BY <1>2, <1>3, <1>5, <2>1
<1>7. M \in Nat /\ M + 2 * o <= P
  <2>1. M \in Nat
    BY <1>1, <1>3
  <2>2. CASE W <= 2
    <3>1. M <= 2 * L
      BY <1>1, <1>3, <2>2
    <3> QED BY <1>1, <2>1, <3>1
  <2>3. CASE W > 2
    <3>1. 3 * B <= B * W /\ B * W \in Nat
      BY <1>1, <1>3, <2>3
    <3>2. 4 * M <= B * W
      <4>1. 4 * M = (4 * L) * W
        BY <1>1, <1>3
      <4>2. (4 * L) * W <= B * W
        BY <1>1, <1>3
      <4> QED BY <4>1, <4>2
    <3>3. 8 * M <= 3 * N - 3
      BY <1>1, <1>2, <1>3, <2>1, <3>1, <3>2
    <3>4. M <= N - 2
      BY <1>1, <1>2, <1>3, <2>1, <3>1, <3>3
    <3>5. o * N = 2 * o + o * (N - 2)
      BY <1>1, <1>2
    <3>6. o * (N - 2) >= N - 2
      BY <1>1, <1>5, <1>2
    <3>7. o * N \in Nat /\ o * (N - 2) \in Nat
      BY <1>1, <1>2, <1>5
    <3> QED BY <1>1, <1>2, <2>1, <3>4, <3>5, <3>6, <3>7
  <2> QED BY <2>1, <2>2, <2>3, <1>3
<1>8. CASE ~(M > gap)
  BY <1>2, <1>3, <1>4, <1>5, <1>6, <1>8 DEF N, W
<1>9. CASE M > gap
  <2> DEFINE c == M - gap + o - 1
             q == c \div o
  <2>1. c \in Nat
    BY <1>1, <1>2, <1>7, <1>9
  <2> HIDE DEF c
  <2>2. q \in Nat /\ o * q <= c
    BY <1>1, <2>1
  <2> HIDE DEF q, M
  <2>3. q <= N - 2
    <3> SUFFICES ASSUME q >= N - 1 PROVE FALSE
      BY <1>2, <2>2
    <3>1. o * (N - 1) <= o * q
      BY <1>1, <1>2, <2>2
    <3>2. o * (N - 1) = o * N - o /\ o * N \in Nat /\ o * q \in Nat
      BY <1>1, <1>2, <2>2
    <3> QED BY <1>1, <1>2, <1>7, <2>1, <2>2, <3>1, <3>2 DEF c
  <2>4. nobjs = N - q
    BY <1>4, <1>9 DEF q, c
  <2> QED BY <1>2, <1>3, <1>6, <2>2, <2>3, <2>4 DEF N, W
<1> QED BY <1>8, <1>9

Map == [0..Words -> SUBSET Ones]
Objs == 0..(NObjs - 1)

\* Where an object has its bit.
LEMMA BitPlace ==
    ASSUME NEW b \in Objs
    PROVE  b \in Nat /\ b \div B \in 0..(Words - 1) /\ b % B \in Ones
<1>1. b \in Nat /\ b < NObjs /\ NObjs \in Nat /\ Words \in Nat /\ NObjs <= B * Words
  BY TwoObjects DEF Objs
<1>2. B \in Nat \ {0}
  BY BitmapAssumption DEF B
<1>3. b \div B \in Nat /\ b % B \in Ones /\ b = B * (b \div B) + (b % B)
  BY <1>1, Parts
<1> DEFINE q == b \div B  r == b % B
<1>4. q \in Nat /\ r \in 0..(B - 1) /\ b = B * q + r
  BY <1>3 DEF Ones, B
<1> HIDE DEF q, r, B
<1>5. B * q \in Nat /\ B * Words \in Nat
  BY <1>1, <1>2, <1>4
<1>6. B * q < B * Words
  BY <1>1, <1>2, <1>4, <1>5
<1>7. q < Words
  BY <1>1, <1>4, <1>6, Smaller
<1> QED BY <1>1, <1>3, <1>4, <1>7 DEF q

\* Two objects have not the same bit.
LEMMA BitsApart ==
    ASSUME NEW b \in Objs, NEW c \in Objs, b \div B = c \div B, b % B = c % B
    PROVE  b = c
<1>1. b \in Nat /\ c \in Nat
  BY BitPlace
<1>2. b = B * (b \div B) + (b % B) /\ c = B * (c \div B) + (c % B)
  BY <1>1, Parts
<1> QED BY <1>2

\* bitmap_bit_set sets one bit.
LEMMA SetOne ==
    ASSUME NEW m \in Map, NEW c \in Objs
    PROVE  /\ bitmap_bit_set(m, c) \in Map
           /\ bitmap_bit_set(m, c)[Words] = m[Words]
           /\ \A b \in Objs :
                 bitmap_bit_get(bitmap_bit_set(m, c), b) <=> bitmap_bit_get(m, b) \/ b = c
<1>1. c \div B \in 0..(Words - 1) /\ c % B \in Ones /\ Words \in Nat
  BY BitPlace, TwoObjects
<1> DEFINE w == c \div B  k == c % B
           r == [m EXCEPT ![w] = @ \cup {k}]
<1>2. bitmap_bit_set(m, c) = r
  BY DEF bitmap_bit_set, B
<1>3. w \in 0..Words /\ w # Words /\ k \in Ones /\ m[w] \subseteq Ones
  BY <1>1 DEF Map
<1> HIDE DEF w, k
<1>4. r \in Map /\ r[Words] = m[Words]
  BY <1>1, <1>3 DEF Map
<1>5. ASSUME NEW b \in Objs
      PROVE  bitmap_bit_get(r, b) <=> bitmap_bit_get(m, b) \/ b = c
  <2>1. b \div B \in 0..Words /\ b % B \in Ones
    BY BitPlace, <1>1
  <2>2. r[b \div B] = IF b \div B = w THEN m[w] \cup {k} ELSE m[b \div B]
    BY <2>1 DEF Map
  <2>3. b = c <=> b \div B = w /\ b % B = k
    BY BitsApart DEF w, k
  <2>4. (b % B \in r[b \div B]) <=> (b % B \in m[b \div B] \/ b = c)
    BY <2>2, <2>3
  <2> QED BY <2>4 DEF bitmap_bit_get, B
<1> QED BY <1>2, <1>4, <1>5

\* bitmap_bit_clear clears one bit.
LEMMA ClearOne ==
    ASSUME NEW m \in Map, NEW c \in Objs
    PROVE  /\ bitmap_bit_clear(m, c) \in Map
           /\ bitmap_bit_clear(m, c)[Words] = m[Words]
           /\ \A b \in Objs :
                 bitmap_bit_get(bitmap_bit_clear(m, c), b) <=> bitmap_bit_get(m, b) /\ b # c
<1>1. c \div B \in 0..(Words - 1) /\ c % B \in Ones /\ Words \in Nat
  BY BitPlace, TwoObjects
<1> DEFINE w == c \div B  k == c % B
           r == [m EXCEPT ![w] = @ \ {k}]
<1>2. bitmap_bit_clear(m, c) = r
  BY DEF bitmap_bit_clear, B
<1>3. w \in 0..Words /\ w # Words /\ k \in Ones /\ m[w] \subseteq Ones
  BY <1>1 DEF Map
<1> HIDE DEF w, k
<1>4. r \in Map /\ r[Words] = m[Words]
  BY <1>1, <1>3 DEF Map
<1>5. ASSUME NEW b \in Objs
      PROVE  bitmap_bit_get(r, b) <=> bitmap_bit_get(m, b) /\ b # c
  <2>1. b \div B \in 0..Words /\ b % B \in Ones
    BY BitPlace, <1>1
  <2>2. r[b \div B] = IF b \div B = w THEN m[w] \ {k} ELSE m[b \div B]
    BY <2>1 DEF Map
  <2>3. b = c <=> b \div B = w /\ b % B = k
    BY BitsApart DEF w, k
  <2>4. (b % B \in r[b \div B]) <=> (b % B \in m[b \div B] /\ b # c)
    BY <2>2, <2>3
  <2> QED BY <2>4 DEF bitmap_bit_get, B
<1> QED BY <1>2, <1>4, <1>5

\* bitmap_all_set and bitmap_all_unset look at the bits below the limit, word by
\* word, and the last word in part.
LEMMA AllBits ==
    ASSUME NEW m \in Map, NEW n \in 0..NObjs
    PROVE  /\ bitmap_all_set(m, n) <=> \A b \in 0..(n - 1) : bitmap_bit_get(m, b)
           /\ bitmap_all_unset(m, n) <=> \A b \in 0..(n - 1) : ~bitmap_bit_get(m, b)
<1> DEFINE u == n \div B  v == n % B
<1>1. B \in Nat \ {0} /\ Ones = 0..(B - 1) /\ n \in Nat /\ NObjs \in Nat /\ Words \in Nat
  BY BitmapAssumption, TwoObjects DEF B, Ones
<1>2. u \in Nat /\ v \in Ones
  BY <1>1, Parts
<1>3. \A b \in 0..(n - 1) :
         /\ b \in Objs /\ b % B \in Ones
         /\ \/ b \div B \in 0..(u - 1)
            \/ b \div B = u /\ v # 0 /\ b % B \in 0..(v - 1)
  <2> SUFFICES ASSUME NEW b \in 0..(n - 1)
               PROVE  /\ b \in Objs /\ b % B \in Ones
                      /\ \/ b \div B \in 0..(u - 1)
                         \/ b \div B = u /\ v # 0 /\ b % B \in 0..(v - 1)
    OBVIOUS
  <2>1. b \in Nat /\ b < n /\ b \in Objs
    BY <1>1 DEF Objs
  <2>2. b \div B \in Nat /\ b % B \in Nat /\ b % B \in Ones
    BY <1>1, <2>1, BitPlace DEF Ones
  <2>3. b \div B < u \/ (b \div B = u /\ b % B < v)
    BY <1>1, <2>1, BelowLimit
  <2> HIDE DEF u, v
  <2> QED BY <1>1, <1>2, <2>1, <2>2, <2>3
<1>4. ASSUME NEW w \in 0..(u - 1), NEW k \in Ones
      PROVE  B * w + k \in 0..(n - 1) /\ (B * w + k) \div B = w /\ (B * w + k) % B = k
  <2>1. (B * w + k) \div B = w /\ (B * w + k) % B = k
    BY <1>2, BitOfWord
  <2>2. B * w + k \in Nat /\ w < u
    BY <1>1, <1>2
  <2>3. B * w + k < n
    BY <1>1, <2>1, <2>2, BelowLimit
  <2> QED BY <1>1, <2>1, <2>2, <2>3
<1>5. ASSUME NEW k \in 0..(v - 1)
      PROVE  B * u + k \in 0..(n - 1) /\ (B * u + k) \div B = u /\ (B * u + k) % B = k
  <2>0. k \in Ones /\ k < v
    BY <1>1, <1>2
  <2>1. (B * u + k) \div B = u /\ (B * u + k) % B = k
    BY <1>2, <2>0, BitOfWord
  <2>2. B * u + k \in Nat
    BY <1>1, <1>2
  <2>3. B * u + k < n
    BY <1>1, <2>0, <2>1, <2>2, BelowLimit
  <2> QED BY <1>1, <2>1, <2>2, <2>3
<1>6. \A w \in 0..(u - 1) : m[w] \subseteq Ones
  <2> SUFFICES ASSUME NEW w \in 0..(u - 1) PROVE m[w] \subseteq Ones
    OBVIOUS
  <2>1. 0 \in Ones
    BY <1>1
  <2>2. B * w + 0 \in 0..(n - 1) /\ (B * w + 0) \div B = w
    BY <1>4, <2>1
  <2>3. B * w + 0 \in Objs
    BY <1>3, <2>2
  <2>4. w \in 0..(Words - 1)
    BY <2>2, <2>3, BitPlace
  <2> QED BY <1>1, <2>4 DEF Map
<1>7. bitmap_all_set(m, n) <=>
         /\ \A w \in 0..(u - 1) : m[w] = Ones
         /\ v # 0 => 0..(v - 1) \subseteq m[u]
  BY DEF bitmap_all_set, B
<1>8. bitmap_all_unset(m, n) <=>
         /\ \A w \in 0..(u - 1) : m[w] = {}
         /\ v # 0 => (0..(v - 1)) \cap m[u] = {}
  BY DEF bitmap_all_unset, B
<1>9. \A b : bitmap_bit_get(m, b) <=> b % B \in m[b \div B]
  BY DEF bitmap_bit_get, B
<1> HIDE DEF u, v, B
<1>10. ASSUME bitmap_all_set(m, n), NEW b \in 0..(n - 1) PROVE bitmap_bit_get(m, b)
  BY <1>3, <1>7, <1>9, <1>10
<1>11. ASSUME \A b \in 0..(n - 1) : bitmap_bit_get(m, b) PROVE bitmap_all_set(m, n)
  <2>1. ASSUME NEW w \in 0..(u - 1), NEW k \in Ones PROVE k \in m[w]
    BY <1>4, <1>9, <1>11, <2>1
  <2>2. ASSUME NEW k \in 0..(v - 1) PROVE k \in m[u]
    BY <1>5, <1>9, <1>11, <2>2
  <2> QED BY <1>6, <1>7, <2>1, <2>2
<1>12. ASSUME bitmap_all_unset(m, n), NEW b \in 0..(n - 1) PROVE ~bitmap_bit_get(m, b)
  BY <1>3, <1>8, <1>9, <1>12
<1>13. ASSUME \A b \in 0..(n - 1) : ~bitmap_bit_get(m, b) PROVE bitmap_all_unset(m, n)
  <2>1. ASSUME NEW w \in 0..(u - 1), NEW k \in Ones PROVE k \notin m[w]
    BY <1>4, <1>9, <1>13, <2>1
  <2>2. ASSUME NEW k \in 0..(v - 1) PROVE k \notin m[u]
    BY <1>5, <1>9, <1>13, <2>2
  <2> QED BY <1>6, <1>8, <2>1, <2>2
<1> QED BY <1>10, <1>11, <1>12, <1>13

-----------------------------------------------------------------------------
(* The map of a new page. *)

\* bitmap_fill sets the bits of the objects that make room for the map.
MapCovers ==
    \A b \in nobjs..(NObjs - 1) : b \div B < NObjs \div B \/ b % B < B - (NObjs % B)

\* bitmap_zero clears the bits of the other objects, but for the last.
MapClears == nobjs < B \/ nobjs % B <= 1

\* bitmap_fill does not write behind the page.
MapEnds == NObjs % B # 0

Fresh(m) == bitmap_bit_set(bitmap_zero(bitmap_fill(m, NObjs), nobjs), nobjs - 1)

\* The word w of a map after bitmap_fill.
LEMMA Filled ==
    ASSUME NEW m \in Map
    PROVE  /\ bitmap_fill(m, NObjs) \in Map
           /\ \A w \in 0..Words : bitmap_fill(m, NObjs)[w] =
                 IF w < NObjs \div B THEN Ones
                 ELSE IF w = NObjs \div B THEN m[w] \cup (0..(B - 1 - (NObjs % B)))
                 ELSE m[w]
<1> DEFINE u == NObjs \div B  v == NObjs % B
           shift == (NObjs - B) % B
           f == [w \in 0..Words |->
                    IF w < u THEN Ones
                    ELSE IF w = u THEN m[w] \cup (0..(B - 1 - shift)) ELSE m[w]]
<1>1. B \in Nat \ {0} /\ Ones = 0..(B - 1) /\ NObjs \in Nat /\ Words \in Nat
  BY BitmapAssumption, TwoObjects DEF B, Ones
<1>2. u \in Nat /\ v \in Ones /\ NObjs = B * u + v
  BY <1>1, Parts
<1>3. bitmap_fill(m, NObjs) = f
  BY DEF bitmap_fill, Map, B
<1>4. shift = v
  <2> HIDE DEF u, v
  <2>1. NObjs - B = B * (u - 1) + v /\ u - 1 \in Int
    BY <1>1, <1>2
  <2> QED BY <1>2, <2>1, BitOfWord
<1> HIDE DEF u, v, shift
<1>5. 0..(B - 1 - shift) \subseteq Ones
  BY <1>1, <1>2, <1>4
<1>6. \A w \in 0..Words : m[w] \subseteq Ones
  BY DEF Map
<1>7. f \in Map
  BY <1>5, <1>6 DEF Map
<1> QED BY <1>3, <1>4, <1>7 DEF u, v

\* The word w of a map after bitmap_zero.
LEMMA Zeroed ==
    ASSUME NEW m \in Map
    PROVE  /\ bitmap_zero(m, nobjs) \in Map
           /\ \A w \in 0..Words : bitmap_zero(m, nobjs)[w] =
                 IF w < nobjs \div B THEN {}
                 ELSE IF w = 0 THEN m[w] \cap ((nobjs % B)..(B - 1))
                 ELSE m[w]
<1> DEFINE u == nobjs \div B  v == nobjs % B
           f == [w \in 0..Words |-> IF w < u THEN {} ELSE m[w]]
           z == [f EXCEPT ![0] = @ \cap (v..(B - 1))]
<1>1. Words \in Nat
  BY TwoObjects
<1>2. bitmap_zero(m, nobjs) = z
  BY DEF bitmap_zero, Map, B
<1> HIDE DEF u, v
<1>3. \A w \in 0..Words : m[w] \subseteq Ones
  BY DEF Map
<1>4. f \in Map /\ 0 \in 0..Words
  BY <1>1, <1>3 DEF Map
<1>5. \A w \in 0..Words : z[w] = IF w = 0 THEN f[0] \cap (v..(B - 1)) ELSE f[w]
  BY <1>4 DEF Map
<1>6. z \in Map
  BY <1>3, <1>4 DEF Map
<1>7. \A w \in 0..Words : z[w] = IF w < u THEN {}
                                 ELSE IF w = 0 THEN m[w] \cap (v..(B - 1)) ELSE m[w]
  BY <1>4, <1>5
<1> QED BY <1>2, <1>6, <1>7 DEF u, v

\* What slice_alloc makes of the map of a new page.
LEMMA FreshMap ==
    ASSUME NEW m \in Map
    PROVE  /\ Fresh(m) \in Map
           /\ bitmap_bit_get(Fresh(m), nobjs - 1)
           /\ ~bitmap_bit_get(Fresh(m), 0)
           /\ MapCovers => \A b \in nobjs..(NObjs - 1) : bitmap_bit_get(Fresh(m), b)
           /\ MapClears => \A b \in 0..(nobjs - 2) : ~bitmap_bit_get(Fresh(m), b)
           /\ MapEnds => Fresh(m)[Words] = m[Words]
<1> DEFINE f == bitmap_fill(m, NObjs)
           z == bitmap_zero(f, nobjs)
           u == nobjs \div B  v == nobjs % B
           U == NObjs \div B  V == NObjs % B
<1>1. /\ B \in Nat \ {0} /\ Ones = 0..(B - 1) /\ NObjs \in Nat /\ Words \in Nat \ {0}
      /\ nobjs \in 2..NObjs /\ nobjs \in Nat /\ NObjs <= B * Words
  BY BitmapAssumption, TwoObjects DEF B, Ones
<1>2. u \in Nat /\ v \in Ones /\ U \in Nat /\ V \in Ones /\ NObjs = B * U + V
  BY <1>1, Parts
<1>3. /\ f \in Map
      /\ \A w \in 0..Words : f[w] =
            IF w < U THEN Ones ELSE IF w = U THEN m[w] \cup (0..(B - 1 - V)) ELSE m[w]
  BY Filled
<1>4. /\ z \in Map
      /\ \A w \in 0..Words : z[w] =
            IF w < u THEN {} ELSE IF w = 0 THEN f[w] \cap (v..(B - 1)) ELSE f[w]
  BY <1>3, Zeroed
<1>5. Fresh(m) = bitmap_bit_set(z, nobjs - 1)
  BY DEF Fresh
<1>6. nobjs - 1 \in Objs /\ 0 \in Objs
  BY <1>1 DEF Objs
<1>7. /\ Fresh(m) \in Map /\ Fresh(m)[Words] = z[Words]
      /\ \A b \in Objs : bitmap_bit_get(Fresh(m), b) <=> bitmap_bit_get(z, b) \/ b = nobjs - 1
  BY <1>4, <1>5, <1>6, SetOne
<1>8. \A b : bitmap_bit_get(z, b) <=> b % B \in z[b \div B]
  BY DEF bitmap_bit_get, B
<1> HIDE DEF f, z
<1>9. \A b \in Objs : b \in Nat /\ b \div B \in 0..Words /\ b % B \in Ones /\ b % B \in Nat
  BY <1>1, BitPlace DEF Ones
<1>10. \A b \in Objs : b < nobjs <=> b \div B < u \/ (b \div B = u /\ b % B < v)
  BY <1>1, <1>9, BelowLimit
<1>11. \A b \in Objs : b \div B < U \/ (b \div B = U /\ b % B < V)
  <2> SUFFICES ASSUME NEW b \in Objs
               PROVE  b \div B < U \/ (b \div B = U /\ b % B < V)
    OBVIOUS
  <2>1. b \in Nat /\ b < NObjs
    BY <1>1 DEF Objs
  <2> QED BY <1>1, <2>1, BelowLimit
<1>12. ~bitmap_bit_get(z, 0)
  <2>1. 0 \div B = 0 /\ 0 % B = 0
    <3>1. 0 \in Ones /\ B * 0 + 0 = 0
      BY <1>1
    <3> QED BY <3>1, BitOfWord
  <2>2. 0 < u \/ (0 = u /\ 0 < v)
    BY <1>1, <1>6, <1>10, <2>1
  <2>3. 0 \notin z[0]
    <3> HIDE DEF u, v
    <3>1. 0 \in 0..Words
      BY <1>1
    <3>2. CASE 0 < u
      BY <1>4, <3>1, <3>2
    <3>3. CASE ~(0 < u)
      <4>1. z[0] = f[0] \cap (v..(B - 1)) /\ 0 < v
        BY <1>4, <2>2, <3>1, <3>3
      <4>2. 0 \notin v..(B - 1)
        BY <1>1, <1>2, <4>1
      <4> QED BY <4>1, <4>2
    <3> QED BY <3>2, <3>3
  <2> QED BY <1>8, <2>1, <2>3
<1>13. ASSUME MapCovers, NEW b \in nobjs..(NObjs - 1) PROVE bitmap_bit_get(Fresh(m), b)
  <2>1. b \in Objs /\ ~(b < nobjs)
    BY <1>1 DEF Objs
  <2>2. b \div B < U \/ b % B < B - V
    BY <1>13 DEF MapCovers
  <2> DEFINE w == b \div B  k == b % B
  <2>3. w \in 0..Words /\ k \in Ones /\ k \in Nat
    BY <1>9, <2>1
  <2>4. ~(w < u) /\ ~(w = u /\ k < v)
    BY <1>10, <2>1
  <2>5. w < U \/ w = U
    BY <1>11, <2>1
  <2>6. k \in f[w]
    <3> HIDE DEF w, k, U, V
    <3>1. CASE w < U
      BY <1>3, <2>3, <3>1
    <3>2. CASE ~(w < U)
      <4>1. w = U /\ k < B - V
        BY <2>2, <2>5, <3>2 DEF w, k
      <4>2. k \in 0..(B - 1 - V)
        BY <1>1, <1>2, <2>3, <4>1
      <4>3. f[w] = m[w] \cup (0..(B - 1 - V))
        BY <1>3, <2>3, <3>2, <4>1
      <4> QED BY <4>2, <4>3
    <3> QED BY <3>1, <3>2
  <2>7. k \in z[w]
    <3> HIDE DEF w, k, u, v
    <3>1. CASE w = 0
      <4>1. u = 0
        BY <1>2, <2>4, <3>1
      <4>2. k \in v..(B - 1)
        BY <1>1, <1>2, <2>3, <2>4, <3>1, <4>1
      <4> QED BY <1>4, <2>3, <2>4, <2>6, <3>1, <4>2
    <3>2. CASE w # 0
      BY <1>4, <2>3, <2>4, <2>6, <3>2
    <3> QED BY <3>1, <3>2
  <2> QED BY <1>7, <1>8, <2>1, <2>7
<1>14. ASSUME MapClears, NEW b \in 0..(nobjs - 2) PROVE ~bitmap_bit_get(Fresh(m), b)
  <2>1. b \in Objs /\ b < nobjs /\ b # nobjs - 1
    BY <1>1 DEF Objs
  <2> DEFINE w == b \div B  k == b % B
  <2>3. w \in 0..Words /\ k \in Ones /\ k \in Nat
    BY <1>9, <2>1
  <2>4. w < u \/ (w = u /\ k < v)
    BY <1>10, <2>1
  <2>5. CASE nobjs < B
    <3>1. u = 0
      <4>1. nobjs \in Ones /\ B * 0 + nobjs = nobjs
        BY <1>1, <2>5
      <4> QED BY <4>1, BitOfWord
    <3>2. k \notin z[w]
      <4> HIDE DEF w, k, u, v
      <4>1. w = 0 /\ k < v
        BY <2>3, <2>4, <3>1
      <4>2. z[w] = f[w] \cap (v..(B - 1))
        <5>1. ~(w < u)
          BY <3>1, <4>1
        <5> QED BY <1>4, <2>3, <4>1, <5>1
      <4>3. k \notin v..(B - 1)
        BY <1>1, <1>2, <2>3, <4>1
      <4> QED BY <4>2, <4>3
    <3> QED BY <1>7, <1>8, <2>1, <3>2
  <2>6. CASE ~(nobjs < B)
    <3>1. v <= 1
      BY <1>14, <2>6 DEF MapClears
    <3>2. w < u
      <4> SUFFICES ASSUME ~(w < u) PROVE FALSE
        OBVIOUS
      <4>1. w = u /\ k = 0 /\ v = 1
        <5> HIDE DEF w, k, u, v
        <5> QED BY <1>1, <1>2, <2>3, <2>4, <3>1
      <4>2. b = B * w + k /\ nobjs = B * u + v
        BY <1>1, <1>9, <2>1, Parts
      <4>3. b = nobjs - 1
        <5> HIDE DEF w, k, u, v
        <5>1. B * u \in Nat
          BY <1>1, <1>2
        <5> QED BY <4>1, <4>2, <5>1
      <4> QED BY <2>1, <4>3
    <3>3. z[w] = {}
      BY <1>4, <2>3, <3>2
    <3> QED BY <1>7, <1>8, <2>1, <3>3
  <2> QED BY <2>5, <2>6
<1>15. ASSUME MapEnds PROVE Fresh(m)[Words] = m[Words]
  <2>1. V # 0
    BY <1>15 DEF MapEnds
  <2>2. U < Words
    <3> HIDE DEF U, V, B
    <3>1. B * U \in Nat /\ B * Words \in Nat /\ V > 0
      BY <1>1, <1>2, <2>1
    <3>2. B * U < B * Words
      BY <1>1, <1>2, <3>1
    <3> QED BY <1>1, <1>2, <3>2, Smaller
  <2>3. f[Words] = m[Words]
    <3> HIDE DEF U
    <3>1. Words \in 0..Words /\ ~(Words < U) /\ Words # U
      BY <1>1, <1>2, <2>2
    <3> QED BY <1>3, <3>1
  <2>4. u <= U
    <3> SUFFICES ASSUME U < u PROVE FALSE
      BY <1>2
    <3>1. U < u \/ (U = u /\ V < v)
      OBVIOUS
    <3>2. NObjs < nobjs
      BY <1>1, <3>1, BelowLimit
    <3> QED BY <1>1, <3>2
  <2>5. ~(Words < u) /\ Words # 0 /\ Words \in 0..Words
    BY <1>1, <1>2, <2>2, <2>4
  <2>6. z[Words] = f[Words]
    BY <1>4, <2>5
  <2> QED BY <1>7, <2>3, <2>6
<1>16. ~bitmap_bit_get(Fresh(m), 0)
  BY <1>1, <1>6, <1>7, <1>12
<1> QED BY <1>6, <1>7, <1>13, <1>14, <1>15, <1>16

-----------------------------------------------------------------------------
(* The walk of slice_pool_shrink. *)

\* Remaining is the last of the lists g[k], which have what is kept of s[1], ..., s[k].
Walks(g, s, S) ==
    g = [k \in 0..Len(s) |->
            IF k = 0 THEN <<>>
            ELSE IF s[k] \in S THEN Append(g[k - 1], s[k]) ELSE g[k - 1]]

\* The walk can be made.
LEMMA WalkExists ==
    ASSUME NEW P, NEW s \in Seq(P), NEW S
    PROVE  \E g : Walks(g, s, S)
<1> DEFINE Next1(g, k) == IF s[k] \in S THEN Append(g[k - 1], s[k]) ELSE g[k - 1]
           Made(g, n) == /\ g = [k \in 0..n |-> g[k]] /\ g[0] = <<>>
                         /\ \A k \in 1..n : g[k] = Next1(g, k)
           T == {n \in Nat : n <= Len(s) /\ ~\E g : Made(g, n)}
<1>1. Len(s) \in Nat
  OBVIOUS
<1>2. T = {}
  <2> SUFFICES ASSUME T # {} PROVE FALSE
    OBVIOUS
  <2>1. PICK n \in T : \A l \in T : n <= l
    BY LeastNumber
  <2>2. n # 0
    <3> DEFINE z == [i \in 0..0 |-> <<>>]
    <3>1. Made(z, 0)
      OBVIOUS
    <3> QED BY <2>1, <3>1
  <2>a. n \in Nat /\ n <= Len(s)
    OBVIOUS
  <2>b. n - 1 \in Nat /\ n - 1 <= Len(s) /\ n \in 1..Len(s) /\ ~(n <= n - 1)
    BY <1>1, <2>2, <2>a
  <2>3. n - 1 \in Nat /\ n - 1 \notin T /\ n - 1 <= Len(s)
    BY <2>1, <2>b
  <2>4. PICK f : Made(f, n - 1)
    BY <2>3
  <2> DEFINE g == [i \in 0..n |-> IF i = n THEN Next1(f, n) ELSE f[i]]
  <2>6. g = [k \in 0..n |-> g[k]] /\ g[0] = <<>>
    BY <2>2, <2>3, <2>4, <2>a
  <2>7. ASSUME NEW k \in 1..n PROVE g[k] = Next1(g, k)
    <3>1. k \in 0..n /\ k - 1 \in 0..n /\ k - 1 # n
      BY <2>b
    <3>2. g[k - 1] = f[k - 1]
      BY <3>1
    <3>3. CASE k = n
      BY <3>1, <3>2, <3>3
    <3>4. CASE k # n
      <4>1. k \in 1..(n - 1) /\ g[k] = f[k]
        BY <2>b, <3>1, <3>4
      <4>2. f[k] = Next1(f, k)
        BY <2>4, <4>1
      <4> QED BY <3>2, <4>1, <4>2
    <3> QED BY <3>3, <3>4
  <2> HIDE DEF g
  <2>8. Made(g, n)
    BY <2>6, <2>7
  <2> QED BY <2>1, <2>8
<1>3. PICK g : Made(g, Len(s))
  BY <1>1, <1>2
<1>4. \A k \in 0..Len(s) : g[k] = IF k = 0 THEN <<>> ELSE Next1(g, k)
  <2> SUFFICES ASSUME NEW k \in 0..Len(s)
               PROVE  g[k] = IF k = 0 THEN <<>> ELSE Next1(g, k)
    OBVIOUS
  <2>1. k = 0 \/ k \in 1..Len(s)
    BY <1>1
  <2> HIDE DEF Next1
  <2>2. CASE k = 0
    BY <1>3, <2>2
  <2>3. CASE k \in 1..Len(s)
    <3>1. k # 0 /\ g[k] = Next1(g, k)
      BY <1>3, <2>3
    <3> QED BY <3>1
  <2> QED BY <2>1, <2>2, <2>3
<1>5. g = [k \in 0..Len(s) |-> IF k = 0 THEN <<>> ELSE Next1(g, k)]
  BY <1>3, <1>4
<1> QED BY <1>5 DEF Walks

\* The nodes of S stay, once each, and no other.
LEMMA RemainingDistinct ==
    ASSUME NEW P, NEW s \in Seq(P), NEW S, Distinct(s)
    PROVE  /\ Remaining(s, S) \in Seq(P)
           /\ Distinct(Remaining(s, S))
           /\ Range(Remaining(s, S)) = Range(s) \cap S
<1> DEFINE g == CHOOSE h : Walks(h, s, S)
           Seen(k) == {s[i] : i \in 1..k}
           Good(k) == /\ g[k] \in Seq(P) /\ Distinct(g[k])
                      /\ Range(g[k]) = Seen(k) \cap S
           T == {k \in Nat : k <= Len(s) /\ ~Good(k)}
<1>1. Len(s) \in Nat /\ DOMAIN s = 1..Len(s)
  OBVIOUS
<1>2. Remaining(s, S) = g[Len(s)]
  BY DEF Remaining, Walks
<1>3. Walks(g, s, S)
  BY WalkExists
<1> HIDE DEF g
<1>4. \A k \in 0..Len(s) : g[k] = IF k = 0 THEN <<>>
            ELSE IF s[k] \in S THEN Append(g[k - 1], s[k]) ELSE g[k - 1]
  BY <1>3 DEF Walks
<1>5. T = {}
  <2> SUFFICES ASSUME T # {} PROVE FALSE
    OBVIOUS
  <2>1. PICK n \in T : \A l \in T : n <= l
    BY LeastNumber
  <2>2. n # 0
    <3>1. g[0] = <<>>
      BY <1>1, <1>4
    <3>2. <<>> \in Seq(P) /\ Distinct(<<>>) /\ Range(<<>>) = {}
      BY DEF Distinct, Range
    <3>3. Seen(0) = {}
      OBVIOUS
    <3> QED BY <2>1, <3>1, <3>2, <3>3
  <2>3. n - 1 \in Nat /\ n - 1 <= Len(s) /\ n \in 1..Len(s) /\ n \in 0..Len(s) /\ ~(n <= n - 1)
    BY <1>1, <2>2
  <2>4. Good(n - 1)
    BY <2>1, <2>3
  <2>5. s[n] \in P
    BY <1>1, <2>3
  <2>6. s[n] \notin Seen(n - 1)
    <3> SUFFICES ASSUME NEW i \in 1..(n - 1), s[i] = s[n] PROVE FALSE
      OBVIOUS
    <3>1. i \in DOMAIN s /\ n \in DOMAIN s /\ i # n
      BY <1>1, <2>3
    <3> QED BY <3>1 DEF Distinct
  <2>7. Seen(n) = Seen(n - 1) \cup {s[n]}
    <3>1. 1..n = (1..(n - 1)) \cup {n}
      BY <2>3
    <3> QED BY <3>1
  <2> HIDE DEF Seen
  <2>8. CASE s[n] \in S
    <3>1. g[n] = Append(g[n - 1], s[n])
      BY <1>4, <2>2, <2>3, <2>8
    <3>2. s[n] \notin Range(g[n - 1])
      BY <2>4, <2>6
    <3>3. /\ Append(g[n - 1], s[n]) \in Seq(P) /\ Distinct(Append(g[n - 1], s[n]))
          /\ Range(Append(g[n - 1], s[n])) = Range(g[n - 1]) \cup {s[n]}
      BY <2>4, <2>5, <3>2, AppendDistinct
    <3> QED BY <2>1, <2>4, <2>7, <2>8, <3>1, <3>3
  <2>9. CASE s[n] \notin S
    <3>1. g[n] = g[n - 1]
      BY <1>4, <2>2, <2>3, <2>9
    <3> QED BY <2>1, <2>4, <2>7, <2>9, <3>1
  <2> QED BY <2>8, <2>9
<1>6. Good(Len(s))
  <2> HIDE DEF Good
  <2>1. Len(s) <= Len(s)
    BY <1>1
  <2> QED BY <1>1, <1>5, <2>1
<1>7. Seen(Len(s)) = Range(s)
  BY <1>1 DEF Range
<1> QED BY <1>2, <1>6, <1>7

-----------------------------------------------------------------------------
(* The pool. *)

Get(p, b) == bitmap_bit_get(bmask[p], b)
Active == Nodes(pages, "active")
Inactive == Nodes(pages, "inactive")
AtWork(c) == pc[c] \in {"set", "full", "clear"}

\* One caller at a time.
OneBusy == \A c, d \in Callers : pc[c] # "idle" /\ pc[d] # "idle" => c = d

\* An object in use has its bit, in a page of the pool, in front of the map.
HeldMarked ==
    \A s \in held : s[1] \in Active \cup Inactive /\ Get(s[1], s[2]) /\ s[2] < nobjs

\* What the map lies on is never free.
MapKept == \A p \in Active \cup Inactive : \A b \in nobjs..(NObjs - 1) : Get(p, b)

\* What a caller in the middle of an operation knows of its page and object.
WorkKnown ==
    \A c \in Callers :
        /\ pc[c] = "init" => pg[c] \notin Active \cup Inactive
        /\ AtWork(c) => /\ pg[c] \in Active /\ <<pg[c], number[c]>> \notin held
                        /\ number[c] < nobjs
                        /\ Get(pg[c], number[c]) <=> pc[c] # "set"

\* A full page is on the other list, or somebody is about to move it or to
\* clear a bit.
SpaceKnown ==
    /\ \A p \in Active : (\A b \in Objs : Get(p, b)) =>
          \E c \in Callers : pc[c] \in {"full", "clear"} /\ pg[c] = p
    /\ \A p \in Inactive : \A b \in Objs : Get(p, b)

\* A bit that is set is that of an object in use, or being given or taken.
BitsOwned ==
    \A p \in Active \cup Inactive : \A b \in 0..(nobjs - 1) : Get(p, b) =>
        \/ <<p, b>> \in held
        \/ \E c \in Callers : pc[c] \in {"full", "clear"} /\ pg[c] = p /\ number[c] = b

SliceInv ==
    /\ SliceTypeOK /\ LinkedOnce(pages)
    /\ OneBusy /\ HeldMarked /\ MapKept /\ WorkKnown /\ SpaceKnown
    /\ MapClears => BitsOwned
    /\ MapEnds => StaysInPage

\* A walk that unlinks leaves each node on the list it was on, or on none.
LEMMA UnlinkOthersKeeps ==
    ASSUME NEW QS, NEW P, NEW Q, WellFormed(Q, QS, P), NEW q \in QS, NEW S
    PROVE  LET R == UnlinkOthers(Q, q, S) IN
           /\ WellFormed(R, QS, P)
           /\ \A r \in QS : Nodes(R, r) =
                 IF r = q THEN Nodes(Q, r) \cap S ELSE Nodes(Q, r)
<1> DEFINE R == UnlinkOthers(Q, q, S)
<1>1. Q \in [QS -> Seq(P)] /\ Distinct(Q[q])
  BY WellFormedSplit DEF WellFormed
<1>2. /\ Remaining(Q[q], S) \in Seq(P)
      /\ Distinct(Remaining(Q[q], S))
      /\ Range(Remaining(Q[q], S)) = Range(Q[q]) \cap S
  BY <1>1, RemainingDistinct
<1>3. R \in [QS -> Seq(P)] /\ R[q] = Remaining(Q[q], S) /\ \A r \in QS \ {q} : R[r] = Q[r]
  BY <1>1, <1>2 DEF UnlinkOthers
<1> HIDE DEF R
<1>4. Distinct(R[q]) /\ \A t \in Range(R[q]) : t \in Nodes(Q, q) \/ ~Linked(Q, t)
  BY <1>2, <1>3 DEF Nodes
<1>5. /\ WellFormed(R, QS, P)
      /\ \A r \in QS : Nodes(R, r) = IF r = q THEN Range(R[q]) ELSE Nodes(Q, r)
  BY <1>3, <1>4, ReplaceList
<1>6. Range(R[q]) = Nodes(Q, q) \cap S
  BY <1>2, <1>3 DEF Nodes
<1> QED BY <1>5, <1>6 DEF R

\* The types, in terms of Map and Objs.
LEMMA Shapes ==
    ASSUME SliceInv
    PROVE  /\ WellFormed(pages, Lists, Pages) /\ bmask \in [Pages -> Map]
           /\ held \subseteq Pages \X Objs
           /\ pc \in [Callers -> {"idle", "init", "set", "full", "clear"}]
           /\ pg \in [Callers -> Pages] /\ number \in [Callers -> Objs]
           /\ Active \subseteq Pages /\ Inactive \subseteq Pages
           /\ Active \cap Inactive = {}
<1>1. WellFormed(pages, Lists, Pages)
  BY DEF SliceInv, SliceTypeOK, WellFormed
<1>2. "active" \in Lists /\ "inactive" \in Lists /\ pages \in [Lists -> Seq(Pages)]
  BY DEF SliceInv, SliceTypeOK, Lists
<1>3. Active \cap Inactive = {}
  BY <1>1, <1>2, WellFormedSplit DEF WellFormed, Active, Inactive
<1>4. pages["active"] \in Seq(Pages) /\ pages["inactive"] \in Seq(Pages)
  BY <1>2
<1>5. Active \subseteq Pages /\ Inactive \subseteq Pages
  BY <1>4 DEF Active, Inactive, Nodes, Range
<1> QED BY <1>1, <1>3, <1>5 DEF SliceInv, SliceTypeOK, Map, Objs

\* A page is linked when it is on one of the two lists.
LEMMA LinkedOnLists ==
    ASSUME NEW Q, Q \in [Lists -> Seq(Pages)]
    PROVE  \A p : Linked(Q, p) <=> p \in Nodes(Q, "active") \cup Nodes(Q, "inactive")
  BY DEF Linked, Lists

\* The shapes give the types back.
LEMMA Typed ==
    ASSUME WellFormed(pages, Lists, Pages), bmask \in [Pages -> Map],
           held \subseteq Pages \X Objs,
           pc \in [Callers -> {"idle", "init", "set", "full", "clear"}],
           pg \in [Callers -> Pages], number \in [Callers -> Objs]
    PROVE  SliceTypeOK /\ LinkedOnce(pages)
  BY DEF SliceTypeOK, Map, Objs, WellFormed

\* The same in the next state.
LEMMA TypedNext ==
    ASSUME WellFormed(pages', Lists, Pages), bmask' \in [Pages -> Map],
           held' \subseteq Pages \X Objs,
           pc' \in [Callers -> {"idle", "init", "set", "full", "clear"}],
           pg' \in [Callers -> Pages], number' \in [Callers -> Objs]
    PROVE  SliceTypeOK' /\ LinkedOnce(pages')
  BY DEF SliceTypeOK, Map, Objs, WellFormed

\* Moving a page to the head of a list.
LEMMA Moves ==
    ASSUME WellFormed(pages, Lists, Pages), NEW p \in Pages, NEW to \in Lists,
           p \in Active \cup Inactive
    PROVE  /\ WellFormed(Move(p, to), Lists, Pages)
           /\ \A l \in Lists : Nodes(Move(p, to), l) =
                 IF l = to THEN Nodes(pages, l) \cup {p} ELSE Nodes(pages, l) \ {p}
<1> DEFINE from == CHOOSE l \in Lists : p \in Nodes(pages, l)
           Q == klist0_unlink(pages, p, from)
           R == klist0_append(Q, p, to)
<1>1. from \in Lists /\ p \in Nodes(pages, from)
  BY DEF Active, Inactive, Lists
<1> HIDE DEF from
<1>2. /\ WellFormed(Q, Lists, Pages) /\ ~Linked(Q, p)
      /\ \A l \in Lists : Nodes(Q, l) = IF l = from THEN Nodes(pages, from) \ {p} ELSE Nodes(pages, l)
  BY <1>1, UnlinkNode
<1> HIDE DEF Q
<1>3. \A l \in Lists : p \notin Nodes(Q, l)
  BY <1>2 DEF Linked, WellFormed
<1>4. \A l \in Lists : Nodes(Q, l) = Nodes(pages, l) \ {p}
  BY <1>2, <1>3
<1>5. /\ WellFormed(R, Lists, Pages)
      /\ \A l \in Lists : Nodes(R, l) = IF l = to THEN Nodes(Q, to) \cup {p} ELSE Nodes(Q, l)
  BY <1>2, AppendLinks
<1>6. Move(p, to) = R
  BY DEF Move, from, Q
<1> HIDE DEF R
<1> QED BY <1>4, <1>5, <1>6

\* While a caller that is not preempted runs, the others are idle.
LEMMA Others ==
    ASSUME Preemptible = {}, NEW c \in Callers, CanRun(c)
    PROVE  \A d \in Callers : d # c => pc[d] = "idle"
  BY DEF CanRun

\* Between two operations.
LEMMA WhenQuiet ==
    ASSUME SliceInv, \A c \in Callers : pc[c] = "idle"
    PROVE  /\ \A p \in Active : \E b \in Objs : ~Get(p, b)
           /\ MapClears => \A p \in Active \cup Inactive : \A b \in 0..(nobjs - 1) :
                               Get(p, b) => <<p, b>> \in held
<1>1. \A c \in Callers : pc[c] \notin {"full", "clear"}
  OBVIOUS
<1>2. SpaceKnown /\ (MapClears => BitsOwned)
  BY DEF SliceInv
<1>3. \A p \in Active : \E b \in Objs : ~Get(p, b)
  BY <1>1, <1>2 DEF SpaceKnown
<1>4. MapClears => \A p \in Active \cup Inactive : \A b \in 0..(nobjs - 1) :
                      Get(p, b) => <<p, b>> \in held
  BY <1>1, <1>2 DEF BitsOwned
<1> QED BY <1>3, <1>4

LEMMA AllocPageKeeps ==
    ASSUME SliceInv, Preemptible = {}, NEW c \in Callers, NEW p \in Pages,
           NEW old \in {{}, Ones}, AllocPage(c, p, old)
    PROVE  SliceInv'
<1> DEFINE m == [w \in 0..Words |-> IF w < Words THEN old ELSE {}]
<1>1. /\ WellFormed(pages, Lists, Pages) /\ bmask \in [Pages -> Map]
      /\ held \subseteq Pages \X Objs
      /\ pc \in [Callers -> {"idle", "init", "set", "full", "clear"}]
      /\ pg \in [Callers -> Pages] /\ number \in [Callers -> Objs]
  BY Shapes
<1>2. /\ CanRun(c) /\ pc[c] = "idle" /\ ~Linked(pages, p)
      /\ bmask' = [bmask EXCEPT ![p] = m]
      /\ pg' = [pg EXCEPT ![c] = p] /\ pc' = [pc EXCEPT ![c] = "init"]
      /\ pages' = pages /\ held' = held /\ number' = number
  BY DEF AllocPage
<1>3. \A d \in Callers : pc[d] = "idle" /\ pc'[d] = IF d = c THEN "init" ELSE "idle"
  BY <1>1, <1>2, Others
<1>4. p \notin Active \cup Inactive
  BY <1>1, <1>2, LinkedOnLists DEF WellFormed, Active, Inactive
<1>5. m \in Map /\ m[Words] = {}
  BY TwoObjects DEF Map
<1> HIDE DEF m
<1>6. \A q \in Active \cup Inactive : \A b : Get(q, b)' <=> Get(q, b)
  <2>1. \A q \in Active \cup Inactive : bmask'[q] = bmask[q]
    BY <1>1, <1>2, <1>4, Shapes
  <2> QED BY <2>1 DEF Get
<1>7. Active' = Active /\ Inactive' = Inactive
  BY <1>2 DEF Active, Inactive
<1>8. SliceTypeOK' /\ LinkedOnce(pages')
  <2>1. bmask' \in [Pages -> Map] /\ pg' \in [Callers -> Pages]
    BY <1>1, <1>2, <1>5
  <2>2. pc' \in [Callers -> {"idle", "init", "set", "full", "clear"}]
    BY <1>1, <1>2
  <2> QED BY <1>1, <1>2, <2>1, <2>2, TypedNext
<1>9. OneBusy'
  BY <1>3 DEF OneBusy
<1>10. HeldMarked' /\ MapKept'
  BY <1>2, <1>6, <1>7 DEF HeldMarked, MapKept, SliceInv
<1>11. WorkKnown'
  <2>1. \A d \in Callers : ~AtWork(d)'
    BY <1>3 DEF AtWork
  <2>2. \A d \in Callers : pc'[d] = "init" => pg'[d] = p
    BY <1>1, <1>2, <1>3
  <2> QED BY <1>4, <1>7, <2>1, <2>2 DEF WorkKnown
<1>12. SpaceKnown'
  <2>1. \A q \in Active : \E b \in Objs : ~Get(q, b)'
    BY <1>3, <1>6, WhenQuiet
  <2>2. \A q \in Inactive : \A b \in Objs : Get(q, b)'
    BY <1>6 DEF SliceInv, SpaceKnown
  <2> QED BY <1>7, <2>1, <2>2 DEF SpaceKnown
<1>13. MapClears => BitsOwned'
  BY <1>2, <1>3, <1>6, <1>7, WhenQuiet DEF BitsOwned
<1>14. MapEnds => StaysInPage'
  BY <1>1, <1>2, <1>5 DEF StaysInPage, SliceInv
<1> QED BY <1>8, <1>9, <1>10, <1>11, <1>12, <1>13, <1>14 DEF SliceInv

LEMMA AllocInitKeeps ==
    ASSUME SliceInv, MapCovers, Preemptible = {}, NEW c \in Callers, AllocInit(c)
    PROVE  SliceInv'
<1> DEFINE k == nobjs - 1
<1>1. /\ WellFormed(pages, Lists, Pages) /\ bmask \in [Pages -> Map]
      /\ held \subseteq Pages \X Objs
      /\ pc \in [Callers -> {"idle", "init", "set", "full", "clear"}]
      /\ pg \in [Callers -> Pages] /\ number \in [Callers -> Objs]
  BY Shapes
<1>p. PICK p \in Pages : p = pg[c]
  BY <1>1
<1>2. /\ CanRun(c) /\ pc[c] = "init"
      /\ bmask' = [bmask EXCEPT ![p] = Fresh(bmask[p])]
      /\ pages' = klist0_append(pages, p, "active")
      /\ held' = held \cup {<<p, k>>}
      /\ pc' = [pc EXCEPT ![c] = "idle"]
      /\ pg' = pg /\ number' = number
  BY <1>1, <1>p DEF AllocInit, Fresh
<1>3. \A d \in Callers : pc'[d] = "idle" /\ (d # c => pc[d] = "idle")
  BY <1>1, <1>2, Others
<1>4. p \in Pages /\ p \notin Active \cup Inactive
  BY <1>1, <1>2, <1>p DEF SliceInv, WorkKnown
<1>5. nobjs \in 2..NObjs /\ NObjs \in Nat /\ k \in Objs /\ k < nobjs /\ k \in 0..(nobjs - 1) /\ 0 \in Objs
  BY TwoObjects DEF Objs
<1> HIDE DEF k
<1>6. /\ bmask[p] \in Map /\ Fresh(bmask[p]) \in Map
      /\ bitmap_bit_get(Fresh(bmask[p]), k)
      /\ ~bitmap_bit_get(Fresh(bmask[p]), 0)
      /\ \A b \in nobjs..(NObjs - 1) : bitmap_bit_get(Fresh(bmask[p]), b)
      /\ MapClears => \A b \in 0..(nobjs - 2) : ~bitmap_bit_get(Fresh(bmask[p]), b)
      /\ MapEnds => Fresh(bmask[p])[Words] = bmask[p][Words]
  BY <1>1, <1>4, FreshMap DEF k
<1>7. bmask'[p] = Fresh(bmask[p]) /\ \A q \in Pages : q # p => bmask'[q] = bmask[q]
  BY <1>1, <1>2, <1>4
<1>8. \A q \in Active \cup Inactive : \A b : Get(q, b)' <=> Get(q, b)
  BY <1>4, <1>7, Shapes DEF Get
<1>9. /\ Get(p, k)' /\ ~Get(p, 0)'
      /\ \A b \in nobjs..(NObjs - 1) : Get(p, b)'
      /\ MapClears => \A b \in 0..(nobjs - 2) : ~Get(p, b)'
  BY <1>6, <1>7 DEF Get
<1>10. /\ WellFormed(pages', Lists, Pages)
       /\ Active' = Active \cup {p} /\ Inactive' = Inactive
  <2>1. ~Linked(pages, p)
    BY <1>1, <1>4, LinkedOnLists DEF WellFormed, Active, Inactive
  <2>2. "active" \in Lists /\ "inactive" \in Lists /\ "inactive" # "active"
    BY DEF Lists
  <2>3. /\ WellFormed(pages', Lists, Pages)
        /\ \A l \in Lists : Nodes(pages', l) =
              IF l = "active" THEN Nodes(pages, "active") \cup {p} ELSE Nodes(pages, l)
    BY <1>1, <1>2, <1>4, <2>1, <2>2, AppendLinks
  <2> QED BY <2>2, <2>3 DEF Active, Inactive
<1>11. SliceTypeOK' /\ LinkedOnce(pages')
  <2>1. bmask' \in [Pages -> Map] /\ held' \subseteq Pages \X Objs
    BY <1>1, <1>2, <1>4, <1>5, <1>6
  <2>2. pc' \in [Callers -> {"idle", "init", "set", "full", "clear"}]
    BY <1>1, <1>2
  <2> QED BY <1>1, <1>2, <1>10, <2>1, <2>2, TypedNext
<1>12. OneBusy' /\ WorkKnown'
  BY <1>3 DEF OneBusy, WorkKnown, AtWork
<1>13. HeldMarked'
  <2> SUFFICES ASSUME NEW s \in held'
               PROVE  s[1] \in Active' \cup Inactive' /\ Get(s[1], s[2])' /\ s[2] < nobjs
    BY DEF HeldMarked
  <2>1. CASE s \in held
    BY <1>8, <1>10, <2>1 DEF SliceInv, HeldMarked
  <2>2. CASE s = <<p, k>>
    BY <1>5, <1>9, <1>10, <2>2
  <2> QED BY <1>2, <2>1, <2>2
<1>14. MapKept'
  BY <1>8, <1>9, <1>10 DEF SliceInv, MapKept
<1>15. SpaceKnown'
  <2>1. \A q \in Active : \E b \in Objs : ~Get(q, b)
    <3>1. \A d \in Callers : pc[d] \notin {"full", "clear"}
      BY <1>2, <1>3
    <3> QED BY <3>1 DEF SliceInv, SpaceKnown
  <2>2. \A q \in Active' : \E b \in Objs : ~Get(q, b)'
    BY <1>5, <1>8, <1>9, <1>10, <2>1
  <2>3. \A q \in Inactive : \A b \in Objs : Get(q, b)'
    BY <1>8 DEF SliceInv, SpaceKnown
  <2> QED BY <1>10, <2>2, <2>3 DEF SpaceKnown
<1>16. ASSUME MapClears PROVE BitsOwned'
  <2> SUFFICES ASSUME NEW q \in Active' \cup Inactive', NEW b \in 0..(nobjs - 1), Get(q, b)'
               PROVE  <<q, b>> \in held'
    BY DEF BitsOwned
  <2>1. CASE q = p
    <3>1. b = nobjs - 1
      BY <1>5, <1>9, <1>16, <2>1
    <3> QED BY <1>2, <2>1, <3>1 DEF k
  <2>2. CASE q # p
    <3>1. q \in Active \cup Inactive /\ Get(q, b)
      BY <1>8, <1>10, <2>2
    <3>2. \A d \in Callers : pc[d] \notin {"full", "clear"}
      BY <1>2, <1>3
    <3>3. <<q, b>> \in held
      BY <1>16, <3>1, <3>2 DEF SliceInv, BitsOwned
    <3> QED BY <1>2, <3>3
  <2> QED BY <2>1, <2>2
<1>17. MapEnds => StaysInPage'
  BY <1>4, <1>6, <1>7 DEF StaysInPage, SliceInv
<1> QED BY <1>11, <1>12, <1>13, <1>14, <1>15, <1>16, <1>17 DEF SliceInv

\* The first free object, where there is one.
LEMMA Seek ==
    ASSUME NEW m, Unset(m, NObjs) # {}
    PROVE  /\ bitmap_seek_unset(m, NObjs) \in Objs
           /\ ~bitmap_bit_get(m, bitmap_seek_unset(m, NObjs))
<1>1. Unset(m, NObjs) \in SUBSET Nat
  BY TwoObjects DEF Unset
<1>2. \E j \in Unset(m, NObjs) : \A k \in Unset(m, NObjs) : j <= k
  BY <1>1, LeastNumber
<1>3. Min(Unset(m, NObjs)) \in Unset(m, NObjs)
  BY <1>2 DEF Min
<1>4. bitmap_seek_unset(m, NObjs) = Min(Unset(m, NObjs))
  BY DEF bitmap_seek_unset
<1> QED BY <1>3, <1>4 DEF Unset, Objs

LEMMA AllocSeekKeeps ==
    ASSUME SliceInv, Preemptible = {}, NEW c \in Callers, AllocSeek(c)
    PROVE  SliceInv'
<1>1. /\ WellFormed(pages, Lists, Pages) /\ bmask \in [Pages -> Map]
      /\ held \subseteq Pages \X Objs
      /\ pc \in [Callers -> {"idle", "init", "set", "full", "clear"}]
      /\ pg \in [Callers -> Pages] /\ number \in [Callers -> Objs]
  BY Shapes
<1>p. PICK p : p = Head(pages["active"])
  OBVIOUS
<1>n. PICK n : n = bitmap_seek_unset(bmask[p], NObjs)
  OBVIOUS
<1>2. /\ CanRun(c) /\ pc[c] = "idle" /\ pages["active"] # <<>> /\ n # -1
      /\ pg' = [pg EXCEPT ![c] = p] /\ number' = [number EXCEPT ![c] = n]
      /\ pc' = [pc EXCEPT ![c] = "set"]
      /\ pages' = pages /\ bmask' = bmask /\ held' = held
  BY <1>p, <1>n DEF AllocSeek, klist0_empty
<1>3. \A d \in Callers : pc[d] = "idle" /\ pc'[d] = IF d = c THEN "set" ELSE "idle"
  BY <1>1, <1>2, Others
<1>4. p \in Active /\ p \in Pages
  <2>1. pages["active"] \in Seq(Pages)
    BY <1>1 DEF WellFormed, Lists
  <2>2. p \in Range(pages["active"])
    BY <1>2, <1>p, <2>1 DEF Range
  <2>3. p \in Active
    BY <2>2 DEF Active, Nodes
  <2> QED BY <2>3, Shapes
<1>5. n \in Objs /\ ~Get(p, n)
  <2>1. Unset(bmask[p], NObjs) # {}
    BY <1>2, <1>n DEF bitmap_seek_unset
  <2> QED BY <1>n, <2>1, Seek DEF Get
<1>6. n < nobjs
  <2>1. n \notin nobjs..(NObjs - 1)
    BY <1>4, <1>5 DEF SliceInv, MapKept
  <2> QED BY <1>5, <2>1, TwoObjects DEF Objs
<1>7. Active' = Active /\ Inactive' = Inactive /\ \A q, b : Get(q, b)' <=> Get(q, b)
  BY <1>2 DEF Active, Inactive, Get
<1>8. SliceTypeOK' /\ LinkedOnce(pages')
  <2>1. pg' \in [Callers -> Pages] /\ number' \in [Callers -> Objs]
    BY <1>1, <1>2, <1>4, <1>5
  <2>2. pc' \in [Callers -> {"idle", "init", "set", "full", "clear"}]
    BY <1>1, <1>2
  <2> QED BY <1>1, <1>2, <2>1, <2>2, TypedNext
<1>9. OneBusy'
  BY <1>3 DEF OneBusy
<1>10. HeldMarked' /\ MapKept'
  BY <1>2, <1>7 DEF HeldMarked, MapKept, SliceInv
<1>11. WorkKnown'
  <2>1. \A d \in Callers : AtWork(d)' => d = c
    BY <1>3 DEF AtWork
  <2>2. pg'[c] = p /\ number'[c] = n /\ pc'[c] = "set"
    BY <1>1, <1>2
  <2>3. <<p, n>> \notin held
    BY <1>5 DEF SliceInv, HeldMarked
  <2>4. \A d \in Callers : pc'[d] # "init"
    BY <1>3
  <2> QED BY <1>2, <1>4, <1>5, <1>6, <1>7, <2>1, <2>2, <2>3, <2>4 DEF WorkKnown
<1>12. SpaceKnown'
  <2>1. \A q \in Active : \E b \in Objs : ~Get(q, b)'
    BY <1>3, <1>7, WhenQuiet
  <2>2. \A q \in Inactive : \A b \in Objs : Get(q, b)'
    BY <1>7 DEF SliceInv, SpaceKnown
  <2> QED BY <1>7, <2>1, <2>2 DEF SpaceKnown
<1>13. MapClears => BitsOwned'
  BY <1>2, <1>3, <1>7, WhenQuiet DEF BitsOwned
<1>14. MapEnds => StaysInPage'
  BY <1>2 DEF StaysInPage, SliceInv
<1> QED BY <1>8, <1>9, <1>10, <1>11, <1>12, <1>13, <1>14 DEF SliceInv

LEMMA AllocSetKeeps ==
    ASSUME SliceInv, Preemptible = {}, NEW c \in Callers, AllocSet(c)
    PROVE  SliceInv'
<1>1. /\ WellFormed(pages, Lists, Pages) /\ bmask \in [Pages -> Map]
      /\ held \subseteq Pages \X Objs
      /\ pc \in [Callers -> {"idle", "init", "set", "full", "clear"}]
      /\ pg \in [Callers -> Pages] /\ number \in [Callers -> Objs]
  BY Shapes
<1>p. PICK p \in Pages : p = pg[c]
  BY <1>1
<1>n. PICK n \in Objs : n = number[c]
  BY <1>1
<1>2. /\ CanRun(c) /\ pc[c] = "set"
      /\ bmask' = [bmask EXCEPT ![p] = bitmap_bit_set(bmask[p], n)]
      /\ pc' = [pc EXCEPT ![c] = "full"]
      /\ pages' = pages /\ held' = held /\ pg' = pg /\ number' = number
  BY <1>1, <1>p, <1>n DEF AllocSet
<1>3. \A d \in Callers : /\ d # c => pc[d] = "idle"
                         /\ pc'[d] = IF d = c THEN "full" ELSE "idle"
  BY <1>1, <1>2, Others
<1>4. p \in Active /\ <<p, n>> \notin held /\ n < nobjs /\ ~Get(p, n)
  BY <1>2, <1>p, <1>n DEF SliceInv, WorkKnown, AtWork
<1>5. /\ bitmap_bit_set(bmask[p], n) \in Map
      /\ bitmap_bit_set(bmask[p], n)[Words] = bmask[p][Words]
      /\ \A b \in Objs : bitmap_bit_get(bitmap_bit_set(bmask[p], n), b)
                            <=> bitmap_bit_get(bmask[p], b) \/ b = n
  BY <1>1, SetOne
<1>6. bmask'[p] = bitmap_bit_set(bmask[p], n) /\ \A q \in Pages : q # p => bmask'[q] = bmask[q]
  BY <1>1, <1>2
<1>7. \A q \in Pages : \A b \in Objs : Get(q, b)' <=> (Get(q, b) \/ (q = p /\ b = n))
  BY <1>5, <1>6 DEF Get
<1>8. Active' = Active /\ Inactive' = Inactive /\ Active \cup Inactive \subseteq Pages
  BY <1>2, Shapes DEF Active, Inactive
<1>9. SliceTypeOK' /\ LinkedOnce(pages')
  <2>1. bmask' \in [Pages -> Map]
    BY <1>1, <1>2, <1>5
  <2>2. pc' \in [Callers -> {"idle", "init", "set", "full", "clear"}]
    BY <1>1, <1>2
  <2> QED BY <1>1, <1>2, <2>1, <2>2, TypedNext
<1>10. OneBusy'
  BY <1>3 DEF OneBusy
<1>11. HeldMarked'
  <2> SUFFICES ASSUME NEW s \in held
               PROVE  s[1] \in Active \cup Inactive /\ Get(s[1], s[2])' /\ s[2] < nobjs
    BY <1>2, <1>8 DEF HeldMarked
  <2>1. s[1] \in Active \cup Inactive /\ Get(s[1], s[2]) /\ s[2] < nobjs
    BY DEF SliceInv, HeldMarked
  <2>2. s[1] \in Pages /\ s[2] \in Objs
    BY <1>1
  <2> QED BY <1>7, <2>1, <2>2
<1>12. MapKept'
  <2>1. nobjs..(NObjs - 1) \subseteq Objs
    BY TwoObjects DEF Objs
  <2> QED BY <1>7, <1>8, <2>1 DEF SliceInv, MapKept
<1>13. WorkKnown'
  <2>1. \A d \in Callers : pc'[d] # "init" /\ (AtWork(d)' => d = c)
    BY <1>3 DEF AtWork
  <2>2. pg'[c] = p /\ number'[c] = n /\ pc'[c] = "full"
    BY <1>1, <1>2, <1>p, <1>n
  <2> QED BY <1>2, <1>4, <1>7, <1>8, <2>1, <2>2 DEF WorkKnown
<1>14. SpaceKnown'
  <2>1. \A d \in Callers : pc[d] \notin {"full", "clear"}
    BY <1>2, <1>3
  <2>2. \A q \in Active : \E b \in Objs : ~Get(q, b)
    BY <2>1 DEF SliceInv, SpaceKnown
  <2>3. \A q \in Active : q # p => \E b \in Objs : ~Get(q, b)'
    BY <1>7, <1>8, <2>2
  <2>4. \A q \in Inactive : \A b \in Objs : Get(q, b)'
    BY <1>7, <1>8 DEF SliceInv, SpaceKnown
  <2>5. pc'[c] = "full" /\ pg'[c] = p
    BY <1>2, <1>3, <1>p
  <2> QED BY <1>8, <2>3, <2>4, <2>5 DEF SpaceKnown
<1>15. ASSUME MapClears PROVE BitsOwned'
  <2> SUFFICES ASSUME NEW q \in Active \cup Inactive, NEW b \in 0..(nobjs - 1), Get(q, b)'
               PROVE  <<q, b>> \in held' \/ \E d \in Callers :
                         pc'[d] \in {"full", "clear"} /\ pg'[d] = q /\ number'[d] = b
    BY <1>8 DEF BitsOwned
  <2>1. b \in Objs /\ q \in Pages
    BY <1>8, TwoObjects DEF Objs
  <2>2. CASE q = p /\ b = n
    BY <1>2, <1>3, <1>p, <1>n, <2>2
  <2>3. CASE ~(q = p /\ b = n)
    <3>1. Get(q, b)
      BY <1>7, <2>1, <2>3
    <3>2. \A d \in Callers : pc[d] \notin {"full", "clear"}
      BY <1>2, <1>3
    <3> QED BY <1>2, <1>15, <3>1, <3>2 DEF SliceInv, BitsOwned
  <2> QED BY <2>2, <2>3
<1>16. MapEnds => StaysInPage'
  BY <1>5, <1>6 DEF StaysInPage, SliceInv
<1> QED BY <1>9, <1>10, <1>11, <1>12, <1>13, <1>14, <1>15, <1>16 DEF SliceInv

LEMMA AllocReturnKeeps ==
    ASSUME SliceInv, Preemptible = {}, NEW c \in Callers, AllocReturn(c)
    PROVE  SliceInv'
<1>1. /\ WellFormed(pages, Lists, Pages) /\ bmask \in [Pages -> Map]
      /\ held \subseteq Pages \X Objs
      /\ pc \in [Callers -> {"idle", "init", "set", "full", "clear"}]
      /\ pg \in [Callers -> Pages] /\ number \in [Callers -> Objs]
  BY Shapes
<1>p. PICK p \in Pages : p = pg[c]
  BY <1>1
<1>n. PICK n \in Objs : n = number[c]
  BY <1>1
<1>2. /\ CanRun(c) /\ pc[c] = "full"
      /\ pages' = IF bitmap_all_set(bmask[p], NObjs) THEN Move(p, "inactive") ELSE pages
      /\ held' = held \cup {<<p, n>>}
      /\ pc' = [pc EXCEPT ![c] = "idle"]
      /\ bmask' = bmask /\ pg' = pg /\ number' = number
  BY <1>p, <1>n DEF AllocReturn
<1>3. \A d \in Callers : (d # c => pc[d] = "idle") /\ pc'[d] = "idle"
  BY <1>1, <1>2, Others
<1>4. p \in Active /\ n < nobjs /\ Get(p, n)
  BY <1>2, <1>p, <1>n DEF SliceInv, WorkKnown, AtWork
<1>5. bitmap_all_set(bmask[p], NObjs) <=> \A b \in Objs : Get(p, b)
  <2>1. NObjs \in 0..NObjs /\ bmask[p] \in Map
    BY <1>1, TwoObjects
  <2> QED BY <2>1, AllBits DEF Objs, Get
<1>6. /\ WellFormed(pages', Lists, Pages)
      /\ Active' \cup Inactive' = Active \cup Inactive /\ Active' \subseteq Active
      /\ p \in Active' => \E b \in Objs : ~Get(p, b)
      /\ \A q \in Inactive' : q \in Inactive \/ \A b \in Objs : Get(q, b)
  <2>1. CASE bitmap_all_set(bmask[p], NObjs)
    <3>1. pages' = Move(p, "inactive") /\ "inactive" \in Lists /\ "active" \in Lists
      BY <1>2, <2>1 DEF Lists
    <3>2. /\ WellFormed(pages', Lists, Pages)
          /\ Active' = Active \ {p} /\ Inactive' = Inactive \cup {p}
      BY <1>1, <1>4, <3>1, Moves DEF Active, Inactive
    <3> QED BY <1>4, <1>5, <2>1, <3>2
  <2>2. CASE ~bitmap_all_set(bmask[p], NObjs)
    <3>1. pages' = pages
      BY <1>2, <2>2
    <3>2. Active' = Active /\ Inactive' = Inactive
      BY <3>1 DEF Active, Inactive
    <3> QED BY <1>1, <1>5, <2>2, <3>1, <3>2
  <2> QED BY <2>1, <2>2
<1>7. \A q, b : Get(q, b)' <=> Get(q, b)
  BY <1>2 DEF Get
<1>8. SliceTypeOK' /\ LinkedOnce(pages')
  <2>1. held' \subseteq Pages \X Objs
    BY <1>1, <1>2
  <2>2. pc' \in [Callers -> {"idle", "init", "set", "full", "clear"}]
    BY <1>1, <1>2
  <2> QED BY <1>1, <1>2, <1>6, <2>1, <2>2, TypedNext
<1>9. OneBusy' /\ WorkKnown'
  BY <1>3 DEF OneBusy, WorkKnown, AtWork
<1>10. HeldMarked'
  <2> SUFFICES ASSUME NEW s \in held'
               PROVE  s[1] \in Active \cup Inactive /\ Get(s[1], s[2]) /\ s[2] < nobjs
    BY <1>6, <1>7 DEF HeldMarked
  <2>1. CASE s \in held
    BY <2>1 DEF SliceInv, HeldMarked
  <2>2. CASE s = <<p, n>>
    BY <1>4, <2>2
  <2> QED BY <1>2, <2>1, <2>2
<1>11. MapKept'
  BY <1>6, <1>7 DEF SliceInv, MapKept
<1>12. SpaceKnown'
  <2>1. \A q \in Active' : \E b \in Objs : ~Get(q, b)
    <3>1. \A d \in Callers : pc[d] \in {"full", "clear"} => pg[d] = p
      BY <1>3, <1>p
    <3>2. \A q \in Active : q # p => \E b \in Objs : ~Get(q, b)
      BY <3>1 DEF SliceInv, SpaceKnown
    <3> QED BY <1>6, <3>2
  <2>2. \A q \in Inactive' : \A b \in Objs : Get(q, b)
    BY <1>6 DEF SliceInv, SpaceKnown
  <2> QED BY <1>7, <2>1, <2>2 DEF SpaceKnown
<1>13. ASSUME MapClears PROVE BitsOwned'
  <2> SUFFICES ASSUME NEW q \in Active \cup Inactive, NEW b \in 0..(nobjs - 1), Get(q, b)
               PROVE  <<q, b>> \in held'
    BY <1>6, <1>7 DEF BitsOwned
  <2>1. \/ <<q, b>> \in held
        \/ \E d \in Callers : pc[d] \in {"full", "clear"} /\ pg[d] = q /\ number[d] = b
    BY <1>13 DEF SliceInv, BitsOwned
  <2>2. <<q, b>> \in held \/ (q = p /\ b = n)
    BY <1>3, <1>p, <1>n, <2>1
  <2> QED BY <1>2, <2>2
<1>14. MapEnds => StaysInPage'
  BY <1>2 DEF StaysInPage, SliceInv
<1> QED BY <1>8, <1>9, <1>10, <1>11, <1>12, <1>13, <1>14 DEF SliceInv

LEMMA FreeFindKeeps ==
    ASSUME SliceInv, Preemptible = {}, NEW c \in Callers, NEW s \in held, FreeFind(c, s)
    PROVE  SliceInv'
<1>1. /\ WellFormed(pages, Lists, Pages) /\ bmask \in [Pages -> Map]
      /\ held \subseteq Pages \X Objs
      /\ pc \in [Callers -> {"idle", "init", "set", "full", "clear"}]
      /\ pg \in [Callers -> Pages] /\ number \in [Callers -> Objs]
  BY Shapes
<1>p. PICK p \in Pages, n \in Objs : s = <<p, n>>
  BY <1>1
<1>2. /\ CanRun(c) /\ pc[c] = "idle" /\ <<p, n>> \in held
      /\ pages' = IF p \in Inactive THEN Move(p, "active") ELSE pages
      /\ held' = held \ {<<p, n>>}
      /\ pg' = [pg EXCEPT ![c] = p] /\ number' = [number EXCEPT ![c] = n]
      /\ pc' = [pc EXCEPT ![c] = "clear"]
      /\ bmask' = bmask
  BY <1>p DEF FreeFind, Inactive
<1>3. \A d \in Callers : pc[d] = "idle" /\ pc'[d] = IF d = c THEN "clear" ELSE "idle"
  BY <1>1, <1>2, Others
<1>4. p \in Active \cup Inactive /\ Get(p, n) /\ n < nobjs
  BY <1>p DEF SliceInv, HeldMarked
<1>6. /\ WellFormed(pages', Lists, Pages)
      /\ Active' = Active \cup {p} /\ Inactive' = Inactive \ {p}
  <2>1. CASE p \in Inactive
    <3>1. pages' = Move(p, "active") /\ "inactive" \in Lists /\ "active" \in Lists
      BY <1>2, <2>1 DEF Lists
    <3> QED BY <1>1, <1>4, <3>1, Moves DEF Active, Inactive
  <2>2. CASE p \notin Inactive
    <3>1. pages' = pages
      BY <1>2, <2>2
    <3>2. Active' = Active /\ Inactive' = Inactive
      BY <3>1 DEF Active, Inactive
    <3> QED BY <1>1, <1>4, <2>2, <3>1, <3>2
  <2> QED BY <2>1, <2>2
<1>7. \A q, b : Get(q, b)' <=> Get(q, b)
  BY <1>2 DEF Get
<1>8. SliceTypeOK' /\ LinkedOnce(pages')
  <2>1. held' \subseteq Pages \X Objs
    BY <1>1, <1>2
  <2>2. pc' \in [Callers -> {"idle", "init", "set", "full", "clear"}]
    BY <1>1, <1>2
  <2>3. pg' \in [Callers -> Pages] /\ number' \in [Callers -> Objs]
    BY <1>1, <1>2
  <2> QED BY <1>1, <1>2, <1>6, <2>1, <2>2, <2>3, TypedNext
<1>9. OneBusy'
  BY <1>3 DEF OneBusy
<1>10. HeldMarked' /\ MapKept'
  BY <1>2, <1>4, <1>6, <1>7 DEF SliceInv, HeldMarked, MapKept
<1>11. WorkKnown'
  <2>1. \A d \in Callers : pc'[d] # "init" /\ (AtWork(d)' => d = c)
    BY <1>3 DEF AtWork
  <2>2. pg'[c] = p /\ number'[c] = n /\ pc'[c] = "clear"
    BY <1>1, <1>2
  <2> QED BY <1>2, <1>4, <1>6, <1>7, <2>1, <2>2 DEF WorkKnown
<1>12. SpaceKnown'
  <2>1. \A q \in Active : \E b \in Objs : ~Get(q, b)
    BY <1>3, WhenQuiet
  <2>2. \A q \in Inactive : \A b \in Objs : Get(q, b)
    BY DEF SliceInv, SpaceKnown
  <2>3. pc'[c] = "clear" /\ pg'[c] = p
    BY <1>1, <1>2
  <2> QED BY <1>6, <1>7, <2>1, <2>2, <2>3 DEF SpaceKnown
<1>13. ASSUME MapClears PROVE BitsOwned'
  <2> SUFFICES ASSUME NEW q \in Active \cup Inactive, NEW b \in 0..(nobjs - 1), Get(q, b)
               PROVE  <<q, b>> \in held' \/ \E d \in Callers :
                         pc'[d] \in {"full", "clear"} /\ pg'[d] = q /\ number'[d] = b
    BY <1>4, <1>6, <1>7 DEF BitsOwned
  <2>1. <<q, b>> \in held
    BY <1>3, <1>13, WhenQuiet
  <2>2. pc'[c] = "clear" /\ pg'[c] = p /\ number'[c] = n
    BY <1>1, <1>2
  <2> QED BY <1>2, <2>1, <2>2
<1>14. MapEnds => StaysInPage'
  BY <1>2 DEF StaysInPage, SliceInv
<1> QED BY <1>8, <1>9, <1>10, <1>11, <1>12, <1>13, <1>14 DEF SliceInv

LEMMA FreeClearKeeps ==
    ASSUME SliceInv, Preemptible = {}, NEW c \in Callers, FreeClear(c)
    PROVE  SliceInv'
<1>1. /\ WellFormed(pages, Lists, Pages) /\ bmask \in [Pages -> Map]
      /\ held \subseteq Pages \X Objs
      /\ pc \in [Callers -> {"idle", "init", "set", "full", "clear"}]
      /\ pg \in [Callers -> Pages] /\ number \in [Callers -> Objs]
  BY Shapes
<1>p. PICK p \in Pages : p = pg[c]
  BY <1>1
<1>n. PICK n \in Objs : n = number[c]
  BY <1>1
<1>2. /\ CanRun(c) /\ pc[c] = "clear"
      /\ bmask' = [bmask EXCEPT ![p] = bitmap_bit_clear(bmask[p], n)]
      /\ pc' = [pc EXCEPT ![c] = "idle"]
      /\ pages' = pages /\ held' = held /\ pg' = pg /\ number' = number
  BY <1>1, <1>p, <1>n DEF FreeClear
<1>3. \A d \in Callers : (d # c => pc[d] = "idle") /\ pc'[d] = "idle"
  BY <1>1, <1>2, Others
<1>4. p \in Active /\ <<p, n>> \notin held /\ n < nobjs
  BY <1>2, <1>p, <1>n DEF SliceInv, WorkKnown, AtWork
<1>5. /\ bitmap_bit_clear(bmask[p], n) \in Map
      /\ bitmap_bit_clear(bmask[p], n)[Words] = bmask[p][Words]
      /\ \A b \in Objs : bitmap_bit_get(bitmap_bit_clear(bmask[p], n), b)
                            <=> bitmap_bit_get(bmask[p], b) /\ b # n
  BY <1>1, ClearOne
<1>6. bmask'[p] = bitmap_bit_clear(bmask[p], n) /\ \A q \in Pages : q # p => bmask'[q] = bmask[q]
  BY <1>1, <1>2
<1>7. \A q \in Pages : \A b \in Objs : Get(q, b)' <=> (Get(q, b) /\ ~(q = p /\ b = n))
  BY <1>5, <1>6 DEF Get
<1>8. /\ Active' = Active /\ Inactive' = Inactive /\ Active \cup Inactive \subseteq Pages
      /\ p \notin Inactive
  <2>1. "inactive" \in Lists /\ "active" \in Lists /\ pages \in [Lists -> Seq(Pages)]
    BY <1>1 DEF Lists, WellFormed
  <2>2. Active \cap Inactive = {}
    BY <1>1, <2>1, WellFormedSplit DEF Active, Inactive, WellFormed
  <2> QED BY <1>2, <1>4, <2>2, Shapes DEF Active, Inactive
<1>9. SliceTypeOK' /\ LinkedOnce(pages')
  <2>1. bmask' \in [Pages -> Map]
    BY <1>1, <1>2, <1>5
  <2>2. pc' \in [Callers -> {"idle", "init", "set", "full", "clear"}]
    BY <1>1, <1>2
  <2> QED BY <1>1, <1>2, <2>1, <2>2, TypedNext
<1>10. OneBusy' /\ WorkKnown'
  BY <1>3 DEF OneBusy, WorkKnown, AtWork
<1>11. HeldMarked'
  <2> SUFFICES ASSUME NEW s \in held
               PROVE  s[1] \in Active \cup Inactive /\ Get(s[1], s[2])' /\ s[2] < nobjs
    BY <1>2, <1>8 DEF HeldMarked
  <2>1. s[1] \in Active \cup Inactive /\ Get(s[1], s[2]) /\ s[2] < nobjs
    BY DEF SliceInv, HeldMarked
  <2>2. s[1] \in Pages /\ s[2] \in Objs /\ s = <<s[1], s[2]>>
    BY <1>1
  <2> QED BY <1>4, <1>7, <2>1, <2>2
<1>12. MapKept'
  <2>1. nobjs..(NObjs - 1) \subseteq Objs /\ n \notin nobjs..(NObjs - 1)
    BY <1>4, TwoObjects DEF Objs
  <2> QED BY <1>7, <1>8, <2>1 DEF SliceInv, MapKept
<1>13. SpaceKnown'
  <2>1. \A d \in Callers : pc[d] \in {"full", "clear"} => pg[d] = p
    BY <1>3, <1>p
  <2>2. \A q \in Active : q # p => \E b \in Objs : ~Get(q, b)
    BY <2>1 DEF SliceInv, SpaceKnown
  <2>3. \A q \in Active : \E b \in Objs : ~Get(q, b)'
    BY <1>7, <1>8, <2>2
  <2>4. \A q \in Inactive : \A b \in Objs : Get(q, b)'
    BY <1>7, <1>8 DEF SliceInv, SpaceKnown
  <2> QED BY <1>8, <2>3, <2>4 DEF SpaceKnown
<1>14. ASSUME MapClears PROVE BitsOwned'
  <2> SUFFICES ASSUME NEW q \in Active \cup Inactive, NEW b \in 0..(nobjs - 1), Get(q, b)'
               PROVE  <<q, b>> \in held
    BY <1>2, <1>8 DEF BitsOwned
  <2>1. b \in Objs /\ q \in Pages
    BY <1>8, TwoObjects DEF Objs
  <2>2. Get(q, b) /\ ~(q = p /\ b = n)
    BY <1>7, <2>1
  <2>3. \/ <<q, b>> \in held
        \/ \E d \in Callers : pc[d] \in {"full", "clear"} /\ pg[d] = q /\ number[d] = b
    BY <1>14, <2>2 DEF SliceInv, BitsOwned
  <2> QED BY <1>3, <1>p, <1>n, <2>2, <2>3
<1>15. MapEnds => StaysInPage'
  BY <1>5, <1>6 DEF StaysInPage, SliceInv
<1> QED BY <1>9, <1>10, <1>11, <1>12, <1>13, <1>14, <1>15 DEF SliceInv

LEMMA ShrinkPoolKeeps ==
    ASSUME SliceInv, ShrinkPool
    PROVE  SliceInv'
<1> DEFINE S == {p \in Pages : ~bitmap_all_unset(bmask[p], nobjs)}
<1>1. /\ WellFormed(pages, Lists, Pages) /\ bmask \in [Pages -> Map]
      /\ held \subseteq Pages \X Objs
      /\ pc \in [Callers -> {"idle", "init", "set", "full", "clear"}]
      /\ pg \in [Callers -> Pages] /\ number \in [Callers -> Objs]
  BY Shapes
<1>2. /\ \A c \in Callers : pc[c] = "idle"
      /\ pages' = UnlinkOthers(pages, "active", S)
      /\ bmask' = bmask /\ held' = held /\ pc' = pc /\ pg' = pg /\ number' = number
  BY DEF ShrinkPool
<1>3. \A p \in Pages : p \in S <=> \E b \in 0..(nobjs - 1) : Get(p, b)
  <2>1. nobjs \in 0..NObjs
    BY TwoObjects
  <2> QED BY <1>1, <2>1, AllBits DEF Get
<1> HIDE DEF S
<1>4. /\ WellFormed(pages', Lists, Pages)
      /\ Active' = Active \cap S /\ Inactive' = Inactive
  <2>1. "inactive" \in Lists /\ "active" \in Lists /\ pages \in [Lists -> Seq(Pages)]
    BY <1>1 DEF Lists, WellFormed
  <2> DEFINE R == UnlinkOthers(pages, "active", S)
  <2>3. /\ WellFormed(R, Lists, Pages)
        /\ \A r \in Lists : Nodes(R, r) =
              IF r = "active" THEN Nodes(pages, r) \cap S ELSE Nodes(pages, r)
    BY <1>1, <2>1, UnlinkOthersKeeps
  <2> QED BY <1>2, <2>1, <2>3 DEF Active, Inactive
<1>5. \A q, b : Get(q, b)' <=> Get(q, b)
  BY <1>2 DEF Get
<1>6. SliceTypeOK' /\ LinkedOnce(pages')
  BY <1>1, <1>2, <1>4, TypedNext
<1>7. OneBusy' /\ WorkKnown'
  BY <1>2 DEF OneBusy, WorkKnown, AtWork
<1>8. HeldMarked'
  <2> SUFFICES ASSUME NEW s \in held
               PROVE  s[1] \in Active' \cup Inactive' /\ Get(s[1], s[2]) /\ s[2] < nobjs
    BY <1>2, <1>5 DEF HeldMarked
  <2>1. s[1] \in Active \cup Inactive /\ Get(s[1], s[2]) /\ s[2] < nobjs
    BY DEF SliceInv, HeldMarked
  <2>2. s[1] \in Pages /\ s[2] \in 0..(nobjs - 1)
    BY <1>1, <2>1, TwoObjects DEF Objs
  <2>3. s[1] \in S
    BY <1>3, <2>1, <2>2
  <2> QED BY <1>4, <2>1, <2>3
<1>9. MapKept'
  BY <1>4, <1>5 DEF SliceInv, MapKept
<1>10. SpaceKnown'
  <2>1. \A q \in Active : \E b \in Objs : ~Get(q, b)
    BY <1>2, WhenQuiet
  <2>2. \A q \in Inactive : \A b \in Objs : Get(q, b)
    BY DEF SliceInv, SpaceKnown
  <2> QED BY <1>4, <1>5, <2>1, <2>2 DEF SpaceKnown
<1>11. MapClears => BitsOwned'
  BY <1>2, <1>4, <1>5, WhenQuiet DEF BitsOwned
<1>12. MapEnds => StaysInPage'
  BY <1>2 DEF StaysInPage, SliceInv
<1> QED BY <1>6, <1>7, <1>8, <1>9, <1>10, <1>11, <1>12 DEF SliceInv

\* slice_pool_create leaves an empty pool.
LEMMA SliceStart == SliceInit => SliceInv
<1> SUFFICES ASSUME SliceInit PROVE SliceInv
  OBVIOUS
<1>1. "active" \in Lists /\ "inactive" \in Lists
  BY DEF Lists
<1>2. pages \in [Lists -> Seq(Pages)] /\ \A l \in Lists : pages[l] = <<>>
  BY DEF SliceInit
<1>3. Active = {} /\ Inactive = {}
  BY <1>1, <1>2 DEF Active, Inactive, Nodes, Range
<1>4. LinkedOnce(pages)
  BY <1>2, WellFormedSplit DEF Distinct, Nodes, Range
<1>5. SliceTypeOK
  <2>1. bmask \in [Pages -> [0..Words -> SUBSET Ones]]
    BY DEF SliceInit
  <2>2. number \in [Callers -> 0..(NObjs - 1)]
    BY TwoObjects DEF SliceInit
  <2>3. pc \in [Callers -> {"idle", "init", "set", "full", "clear"}] /\ pg \in [Callers -> Pages]
    BY DEF SliceInit
  <2> QED BY <1>2, <2>1, <2>2, <2>3 DEF SliceTypeOK, SliceInit
<1>6. OneBusy /\ HeldMarked /\ MapKept /\ SpaceKnown /\ BitsOwned
  BY <1>3 DEF OneBusy, HeldMarked, MapKept, SpaceKnown, BitsOwned, SliceInit
<1>7. WorkKnown
  BY <1>3 DEF WorkKnown, AtWork, SliceInit
<1>8. StaysInPage
  BY TwoObjects DEF StaysInPage, SliceInit
<1> QED BY <1>4, <1>5, <1>6, <1>7, <1>8 DEF SliceInv

\* A step of nobody.
LEMMA SliceStutter ==
    ASSUME SliceInv, UNCHANGED slice_vars
    PROVE  SliceInv'
  BY DEF slice_vars, SliceInv, SliceTypeOK, OneBusy, HeldMarked, MapKept, WorkKnown, SpaceKnown,
         BitsOwned, StaysInPage, Get, Active, Inactive, AtWork

\* SliceInv is an invariant of a pool whose operations are not preempted and
\* whose map is as long as its objects.
THEOREM SliceInvariance ==
    ASSUME Preemptible = {}, MapCovers
    PROVE  SliceSpec => []SliceInv
<1>1. SliceInit => SliceInv
  BY SliceStart
<1>2. SliceInv /\ [SliceNext]_slice_vars => SliceInv'
  <2> SUFFICES ASSUME SliceInv, [SliceNext]_slice_vars PROVE SliceInv'
    OBVIOUS
  <2>1. CASE UNCHANGED slice_vars
    BY <2>1, SliceStutter
  <2>2. ASSUME NEW c \in Callers, NEW p \in Pages, NEW old \in {{}, Ones}, AllocPage(c, p, old)
        PROVE  SliceInv'
    BY <2>2, AllocPageKeeps
  <2>3. ASSUME NEW c \in Callers, AllocInit(c) PROVE SliceInv'
    BY <2>3, AllocInitKeeps
  <2>4. ASSUME NEW c \in Callers, AllocSeek(c) PROVE SliceInv'
    BY <2>4, AllocSeekKeeps
  <2>5. ASSUME NEW c \in Callers, AllocSet(c) PROVE SliceInv'
    BY <2>5, AllocSetKeeps
  <2>6. ASSUME NEW c \in Callers, AllocReturn(c) PROVE SliceInv'
    BY <2>6, AllocReturnKeeps
  <2>7. ASSUME NEW c \in Callers, NEW s \in held, FreeFind(c, s) PROVE SliceInv'
    BY <2>7, FreeFindKeeps
  <2>8. ASSUME NEW c \in Callers, FreeClear(c) PROVE SliceInv'
    BY <2>8, FreeClearKeeps
  <2>9. CASE ShrinkPool
    BY <2>9, ShrinkPoolKeeps
  <2> QED BY <2>1, <2>2, <2>3, <2>4, <2>5, <2>6, <2>7, <2>8, <2>9 DEF SliceNext
<1> QED BY <1>1, <1>2, PTL DEF SliceSpec

\* What SliceInv says of the pool.
LEMMA SliceMeans ==
    ASSUME SliceInv
    PROVE  /\ SliceTypeOK /\ NeverTwice /\ OutsideBitmap /\ ListsTellSpace /\ PageIsFound
           /\ MapEnds => StaysInPage
           /\ MapClears => CanRecycle
<1>1. SliceTypeOK /\ OutsideBitmap /\ (MapEnds => StaysInPage)
  BY DEF SliceInv, HeldMarked, OutsideBitmap
<1>2. NeverTwice
  <2>1. \A c \in Callers : pc[c] \in {"set", "full"} => <<pg[c], number[c]>> \notin held
    BY DEF SliceInv, WorkKnown, AtWork
  <2>2. \A c, d \in Callers : pc[c] \in {"set", "full"} /\ pc[d] \in {"set", "full"} => c = d
    BY DEF SliceInv, OneBusy
  <2> QED BY <2>1, <2>2 DEF NeverTwice
<1>3. ListsTellSpace
  <2>1. \A p \in Pages : Unset(bmask[p], NObjs) = {b \in Objs : ~Get(p, b)}
    BY DEF Unset, Objs, Get
  <2>2. ASSUME Quiet PROVE \A p \in Active : \E b \in Objs : ~Get(p, b)
    BY <2>2, WhenQuiet DEF Quiet
  <2>3. \A p \in Inactive : \A b \in Objs : Get(p, b)
    BY DEF SliceInv, SpaceKnown
  <2>4. Active \cup Inactive \subseteq Pages
    BY Shapes
  <2>5. ASSUME Quiet PROVE \A p \in Active : Unset(bmask[p], NObjs) # {}
    BY <2>1, <2>2, <2>4, <2>5
  <2>6. \A p \in Inactive : Unset(bmask[p], NObjs) = {}
    BY <2>1, <2>3, <2>4
  <2> QED BY <2>5, <2>6 DEF ListsTellSpace, Active, Inactive
<1>4. PageIsFound
  <2>1. WellFormed(pages, Lists, Pages)
    BY Shapes
  <2>2. \A s \in held : s[1] \in Active \cup Inactive
    BY DEF SliceInv, HeldMarked
  <2> QED BY <2>1, <2>2, LinkedOnLists DEF PageIsFound, WellFormed, Active, Inactive
<1>5. ASSUME MapClears PROVE CanRecycle
  <2> SUFFICES ASSUME Quiet, held = {}
               PROVE  /\ klist0_empty(pages, "inactive")
                      /\ \A p \in Active : bitmap_all_unset(bmask[p], nobjs)
    BY DEF CanRecycle, Active
  <2>1. \A p \in Active \cup Inactive : \A b \in 0..(nobjs - 1) : ~Get(p, b)
    BY <1>5, WhenQuiet DEF Quiet
  <2>2. nobjs \in 0..NObjs /\ 0 \in 0..(nobjs - 1) /\ 0 \in Objs
    BY TwoObjects DEF Objs
  <2>3. \A p \in Inactive : FALSE
    BY <2>1, <2>2 DEF SliceInv, SpaceKnown
  <2>4. klist0_empty(pages, "inactive")
    <3>1. pages["inactive"] \in Seq(Pages) /\ Range(pages["inactive"]) = {}
      BY <2>3, Shapes DEF Inactive, Nodes, WellFormed, Lists
    <3>2. PICK t \in Seq(Pages) : t = pages["inactive"]
      BY <3>1
    <3>3. 1 \notin DOMAIN t
      BY <3>1, <3>2 DEF Range
    <3>4. t = <<>>
      BY <3>3
    <3> QED BY <3>2, <3>4 DEF klist0_empty
  <2>5. \A p \in Active : bitmap_all_unset(bmask[p], nobjs)
    <3>1. \A p \in Active : bmask[p] \in Map
      BY Shapes
    <3> QED BY <2>1, <2>2, <3>1, AllBits DEF Get
  <2> QED BY <2>4, <2>5
<1> QED BY <1>1, <1>2, <1>3, <1>4, <1>5

\* slice_alloc gives an object to one caller only, in front of the map of its
\* page, and slice_free finds the page again, in every pool whose map is as long
\* as its objects.
THEOREM SliceSafety ==
    ASSUME Preemptible = {}, MapCovers
    PROVE  SliceSpec => [](NeverTwice /\ OutsideBitmap /\ ListsTellSpace /\ PageIsFound)
<1>1. SliceInv => NeverTwice /\ OutsideBitmap /\ ListsTellSpace /\ PageIsFound
  BY SliceMeans
<1>2. SliceSpec => []SliceInv
  BY SliceInvariance
<1> QED BY <1>1, <1>2, PTL

\* Where bitmap_fill ends with the page and bitmap_zero clears all of the map,
\* the pool also stays in its pages and can be recycled when all is returned.
THEOREM SlicesInvariance ==
    ASSUME Preemptible = {}, MapCovers, MapClears, MapEnds
    PROVE  SliceSpec => []SlicesSound
<1>1. SliceInv => SlicesSound
  BY SliceMeans DEF SlicesSound
<1>2. SliceSpec => []SliceInv
  BY SliceInvariance
<1> QED BY <1>1, <1>2, PTL

-----------------------------------------------------------------------------
(* galloc. *)

\* The powers of two that galloc computes with.
LEMMA Powers ==
    /\ \A l \in 0..30 : 2 ^ l \in Nat \ {0}
    /\ \A l \in 0..29 : 2 ^ (l + 1) = 2 * 2 ^ l
<1> DEFINE F(l) == 2 ^ l
<1>1. /\ F(0) = 1 /\ F(1) = 2 * F(0) /\ F(2) = 2 * F(1) /\ F(3) = 2 * F(2) /\ F(4) = 2 * F(3)
      /\ F(5) = 2 * F(4) /\ F(6) = 2 * F(5) /\ F(7) = 2 * F(6) /\ F(8) = 2 * F(7) /\ F(9) = 2 * F(8)
      /\ F(10) = 2 * F(9) /\ F(11) = 2 * F(10) /\ F(12) = 2 * F(11) /\ F(13) = 2 * F(12) /\ F(14) = 2 * F(13)
      /\ F(15) = 2 * F(14) /\ F(16) = 2 * F(15) /\ F(17) = 2 * F(16) /\ F(18) = 2 * F(17) /\ F(19) = 2 * F(18)
      /\ F(20) = 2 * F(19) /\ F(21) = 2 * F(20) /\ F(22) = 2 * F(21) /\ F(23) = 2 * F(22) /\ F(24) = 2 * F(23)
      /\ F(25) = 2 * F(24) /\ F(26) = 2 * F(25) /\ F(27) = 2 * F(26) /\ F(28) = 2 * F(27) /\ F(29) = 2 * F(28)
      /\ F(30) = 2 * F(29)
  OBVIOUS
<1> HIDE DEF F
<1>2. \A l \in 0..29 : F(l + 1) = 2 * F(l)
  <2> SUFFICES ASSUME NEW l \in 0..29 PROVE F(l + 1) = 2 * F(l)
    OBVIOUS
  <2>1. \/ l = 0 \/ l = 1 \/ l = 2 \/ l = 3 \/ l = 4 \/ l = 5 \/ l = 6 \/ l = 7 \/ l = 8 \/ l = 9
        \/ l = 10 \/ l = 11 \/ l = 12 \/ l = 13 \/ l = 14 \/ l = 15 \/ l = 16 \/ l = 17 \/ l = 18 \/ l = 19
        \/ l = 20 \/ l = 21 \/ l = 22 \/ l = 23 \/ l = 24 \/ l = 25 \/ l = 26 \/ l = 27 \/ l = 28 \/ l = 29
    OBVIOUS
  <2> QED BY <1>1, <2>1
<1>3. \A l \in 0..30 : F(l) \in Nat \ {0}
  <2> DEFINE T == {l \in 0..30 : F(l) \notin Nat \ {0}}
  <2> SUFFICES ASSUME T # {} PROVE FALSE
    OBVIOUS
  <2>1. PICK j \in T : \A k \in T : j <= k
    BY LeastNumber
  <2>2. j # 0 /\ F(0) = 1
    BY <1>1, <2>1
  <2>3. j - 1 \in 0..29 /\ (j - 1) + 1 = j /\ j - 1 \notin T
    BY <2>1, <2>2
  <2>4. F(j - 1) \in Nat \ {0} /\ F(j) = 2 * F(j - 1)
    BY <1>2, <2>3
  <2> QED BY <2>1, <2>4
<1> QED BY <1>2, <1>3 DEF F

Pow(l) == 2 ^ l

LEMMA PowersGrow ==
    /\ Pow(0) = 1
    /\ \A l \in 0..30 : Pow(l) \in Nat \ {0}
    /\ \A l \in 0..29 : Pow(l + 1) = 2 * Pow(l)
    /\ \A p, q \in 0..30 : p <= q => Pow(p) <= Pow(q)
<1>1. Pow(0) = 1
  BY DEF Pow
<1>2. \A l \in 0..29 : Pow(l + 1) = 2 * Pow(l)
  BY Powers DEF Pow
<1>3. \A l \in 0..30 : Pow(l) \in Nat \ {0}
  BY Powers DEF Pow
<1>4. ASSUME NEW p \in 0..30 PROVE \A q \in 0..30 : p <= q => Pow(p) <= Pow(q)
  <2> DEFINE T == {q \in 0..30 : p <= q /\ ~(Pow(p) <= Pow(q))}
  <2> SUFFICES ASSUME T # {} PROVE FALSE
    OBVIOUS
  <2>1. PICK j \in T : \A k \in T : j <= k
    BY LeastNumber
  <2>2. j \in 0..30 /\ p <= j /\ ~(Pow(p) <= Pow(j)) /\ j # p
    BY <1>3, <2>1
  <2>3. j - 1 \in 0..29 /\ p <= j - 1 /\ j - 1 \notin T /\ (j - 1) + 1 = j
    BY <2>1, <2>2
  <2>4. Pow(p) <= Pow(j - 1)
    BY <2>3
  <2>5. Pow(j) = 2 * Pow(j - 1) /\ Pow(j - 1) \in Nat
    BY <1>2, <1>3, <2>3
  <2>6. Pow(p) \in Nat
    BY <1>3
  <2> QED BY <2>2, <2>4, <2>5, <2>6
<1> QED BY <1>1, <1>2, <1>3, <1>4

\* log2 rounds up.
LEMMA LogTight ==
    ASSUME NEW n \in Nat \ {0}, n < 2 ^ 30
    PROVE  /\ log2(n) \in 0..30 /\ n <= Pow(log2(n))
           /\ \A p \in 0..(log2(n) - 1) : Pow(p) < n
<1> DEFINE T == {l \in 1..30 : n < Pow(l)}
<1>1. Bits(n) = Min(T)
  BY DEF Bits, Pow
<1>2. 30 \in T
  BY DEF Pow
<1>3. PICK j \in T : \A k \in T : j <= k
  BY <1>2, LeastNumber
<1>4. Min(T) \in T /\ \A k \in T : Min(T) <= k
  BY <1>3 DEF Min
<1>5. PICK b \in 1..30 : b = Bits(n) /\ n < Pow(b) /\ \A k \in 1..30 : n < Pow(k) => b <= k
  BY <1>1, <1>4
<1> HIDE DEF T
<1>6. b - 1 \in 0..29 /\ Pow(b - 1) <= n /\ Pow(b) = 2 * Pow(b - 1) /\ Pow(b - 1) \in Nat \ {0}
  <2>1. b - 1 \in 0..29 /\ (b - 1) + 1 = b /\ b - 1 \in 0..30
    BY <1>5
  <2>2. Pow(b) = 2 * Pow(b - 1) /\ Pow(b - 1) \in Nat \ {0}
    BY <2>1, PowersGrow
  <2>3. CASE b = 1
    BY <2>1, <2>2, <2>3, PowersGrow
  <2>4. CASE b # 1
    <3>1. b - 1 \in 1..30 /\ ~(b <= b - 1)
      BY <1>5, <2>4
    <3> QED BY <1>5, <2>1, <2>2, <3>1
  <2> QED BY <2>3, <2>4
<1>7. PICK h \in Nat \ {0} : h = Pow(b - 1)
  BY <1>6
<1>8. h <= n /\ n < 2 * h /\ n % h = n - h
  <2>1. h <= n /\ n < 2 * h
    BY <1>5, <1>6, <1>7
  <2> QED BY <2>1
<1>9. log2(n) = IF n # h THEN b ELSE b - 1
  <2>1. n % 2 ^ (b - 1) = n - h
    BY <1>7, <1>8 DEF Pow
  <2> QED BY <1>5, <1>7, <1>8, <2>1 DEF log2
<1>10. log2(n) \in 0..30 /\ n <= Pow(log2(n))
  BY <1>5, <1>6, <1>7, <1>8, <1>9
<1>11. ASSUME NEW p \in 0..(log2(n) - 1) PROVE Pow(p) < n
  <2>1. CASE n # h
    <3>1. p \in 0..30 /\ b - 1 \in 0..30 /\ p <= b - 1
      BY <1>5, <1>9, <2>1
    <3>2. Pow(p) \in Nat /\ Pow(p) <= h
      BY <1>7, <3>1, PowersGrow
    <3> QED BY <1>8, <2>1, <3>2
  <2>2. CASE n = h
    <3>1. p \in 0..29 /\ p \in 0..30 /\ p + 1 \in 0..30 /\ b - 1 \in 0..30 /\ p + 1 <= b - 1
      BY <1>5, <1>9, <2>2
    <3>2. Pow(p) \in Nat \ {0}
      BY <3>1, PowersGrow
    <3>3. Pow(p + 1) = 2 * Pow(p)
      BY <3>1, PowersGrow
    <3>4. Pow(p + 1) <= h
      BY <1>7, <3>1, PowersGrow
    <3> QED BY <2>2, <3>2, <3>3, <3>4
  <2> QED BY <2>1, <2>2
<1> QED BY <1>10, <1>11

\* A size is rounded up to some number m of smallest chunks, and not further.
LEMMA RoundedUp ==
    ASSUME NEW n \in GSizes
    PROVE  \E m \in Nat \ {0} :
              /\ Rounded(n) = GALLOC_MIN_CHUNK * m /\ Rounded(n) \in Nat
              /\ Rounded(n) \div GALLOC_MIN_CHUNK = m
              /\ n <= Rounded(n) /\ Rounded(n) <= n + GALLOC_MIN_CHUNK
              /\ Rounded(n) - GALLOC_MIN_CHUNK < n \/ m = 1
              /\ m <= Rounded(n)
<1>1. n \in Nat
  BY GallocAssumption
<1>2. PICK g \in Nat \ {0} : g = GALLOC_MIN_CHUNK
  BY GallocAssumption
<1>3. PICK x \in Nat \ {0} : x = IF n = 0 THEN g ELSE n
  BY <1>1
<1>4. PICK m : m = (x + g - 1) \div g
  OBVIOUS
<1>5. m \in Nat /\ g * m <= x + g - 1 /\ x + g - 1 < g * m + g
  BY <1>4
<1>6. Rounded(n) = m * g /\ m * g = g * m
  BY <1>2, <1>3, <1>4, <1>5 DEF Rounded, roundup_l2
<1>7. m # 0
  BY <1>5
<1>8. (g * m) \div g = m
  BY <1>5
<1>9. g * m \in Nat /\ m <= g * m
  BY <1>5, <1>7
<1>10. x = n \/ (x = g /\ n = 0)
  BY <1>3
<1>11. g * m \in Nat /\ n <= g * m /\ g * m <= n + g
  <2> DEFINE y == g * m
  <2>1. y \in Nat /\ y <= x + g - 1 /\ x + g - 1 < y + g
    BY <1>5, <1>9
  <2>2. x = n => n <= y /\ y <= n + g
    BY <2>1, <1>1
  <2>3. x = g /\ n = 0 => m = 1
    <3> SUFFICES ASSUME x = g PROVE m = 1
      OBVIOUS
    <3> QED BY <1>4
  <2>4. m = 1 => y = g
    OBVIOUS
  <2> QED BY <1>1, <1>10, <2>1, <2>2, <2>3, <2>4
<1>12. g * m - g < n \/ m = 1
  <2>1. x = g => m = 1
    BY <1>4
  <2>2. x = n => g * m - g < n
    BY <1>1, <1>5, <1>9
  <2> QED BY <1>10, <2>1, <2>2
<1> QED BY <1>2, <1>5, <1>6, <1>7, <1>8, <1>9, <1>11, <1>12

Chunk == [size : Nat, room : Int, origin : {"none", "slice", "pages"}, info : Nat]

\* ChunkFits of one chunk.
Fits(r) ==
    /\ r.size <= r.room
    /\ r.origin = "slice" => \A p \in 0..(r.info - 1) : GALLOC_MIN_CHUNK * Pow(p) < r.size
    /\ r.origin = "pages" /\ r.info > 0 =>
         GPAGE * Pow(r.info - 1) < r.size + CI_SIZE + GALLOC_MIN_CHUNK

GallocInv ==
    /\ chunks \in [1..MaxChunks -> Chunk]
    /\ \A c \in 1..MaxChunks : chunks[c] # Unused => Fits(chunks[c])

\* A chunk of the pool that galloc_from_slice chooses.
LEMMA FromSlice ==
    ASSUME NEW n \in GSizes, NEW i, i = PoolOf(Rounded(n)), NEW r,
           r = [size |-> n, room |-> POOL_SIZE(i) - CI_SIZE, origin |-> "slice", info |-> i]
    PROVE  r \in Chunk /\ Fits(r)
<1>1. n \in Nat /\ CI_SIZE \in Nat
  BY GallocAssumption
<1>2. PICK g \in Nat \ {0} : g = GALLOC_MIN_CHUNK
  BY GallocAssumption
<1>3. PICK m \in Nat \ {0} :
         /\ Rounded(n) = g * m /\ Rounded(n) \div g = m /\ n <= g * m
         /\ g * m <= n + g /\ (g * m - g < n \/ m = 1) /\ m <= Rounded(n)
  BY <1>2, RoundedUp
<1>4. m < 2 ^ 30
  <2>1. n + g + CI_SIZE < 2 ^ 30 /\ 2 ^ 30 \in Nat
    BY <1>2, GallocAssumption
  <2>2. g * m \in Nat
    OBVIOUS
  <2>3. \A y, x \in Nat : m <= y /\ y <= n + g /\ n + g + CI_SIZE < x => m < x
    BY <1>1
  <2> QED BY <1>3, <2>1, <2>2, <2>3
<1>5. i = log2(m)
  BY <1>2, <1>3 DEF PoolOf
<1>6. i \in 0..30 /\ m <= Pow(i) /\ \A p \in 0..(i - 1) : Pow(p) < m
  BY <1>4, <1>5, LogTight
<1>7. PICK h \in Nat \ {0} : h = Pow(i)
  BY <1>6, PowersGrow
<1>8. POOL_SIZE(i) - CI_SIZE = g * h
  <2>1. POOL_SIZE(i) = g * h + CI_SIZE
    BY <1>2, <1>7 DEF POOL_SIZE, Pow
  <2>2. g * h \in Nat
    OBVIOUS
  <2> QED BY <1>1, <2>1, <2>2
<1>9. n <= g * h /\ g * h \in Nat
  <2>1. g * m <= g * h /\ g * h \in Nat /\ g * m \in Nat
    BY <1>6, <1>7
  <2> QED BY <1>1, <1>3, <2>1
<1>10. ASSUME NEW p \in 0..(i - 1) PROVE g * Pow(p) < n
  <2>p. p \in 0..30
    BY <1>6
  <2>1. PICK k \in Nat \ {0} : k = Pow(p)
    BY <2>p, PowersGrow
  <2>2. k < m /\ k + 1 <= m
    BY <1>6, <2>1
  <2>3. g * (k + 1) <= g * m /\ g * (k + 1) = g * k + g /\ g * k \in Nat /\ g * m \in Nat
    BY <2>2
  <2>4. m # 1
    BY <2>2
  <2> QED BY <1>1, <1>3, <2>1, <2>3, <2>4
<1>11. r.size = n /\ r.room = g * h /\ r.origin = "slice" /\ r.info = i
  BY <1>8
<1>12. r \in Chunk
  BY <1>1, <1>6, <1>8, <1>9 DEF Chunk
<1> QED BY <1>2, <1>9, <1>10, <1>11, <1>12 DEF Fits

\* A chunk of the pages that galloc_from_pages asks for.
LEMMA FromPages ==
    ASSUME NEW n \in GSizes, NEW i, i = log2(INPAGES(Rounded(n) + CI_SIZE)), NEW r,
           r = [size |-> n, room |-> GPAGE * 2 ^ i - CI_SIZE, origin |-> "pages", info |-> i]
    PROVE  r \in Chunk /\ Fits(r)
<1>1. n \in Nat /\ CI_SIZE \in Nat
  BY GallocAssumption
<1>2. PICK g \in Nat \ {0} : g = GALLOC_MIN_CHUNK
  BY GallocAssumption
<1>3. PICK s \in Nat \ {0} : s = Rounded(n) + CI_SIZE /\ n + CI_SIZE <= s /\ s <= n + CI_SIZE + g
  <2>1. Rounded(n) \in Nat /\ n <= Rounded(n) /\ Rounded(n) <= n + g /\ Rounded(n) # 0
    <3>1. PICK m \in Nat \ {0} : Rounded(n) = g * m /\ n <= Rounded(n) /\ Rounded(n) <= n + g
      BY <1>2, RoundedUp
    <3> QED BY <3>1
  <2> QED BY <1>1, <2>1
<1>4. PICK q \in Nat \ {0} : q = GPAGE
  BY GallocAssumption
<1>5. PICK m : m = (s + q - 1) \div q
  OBVIOUS
<1>6. m \in Nat /\ q * m <= s + q - 1 /\ s + q - 1 < q * m + q
  BY <1>5
<1>7. q * m \in Nat /\ s <= q * m /\ m # 0
  BY <1>6
<1>8. m <= s
  <2>1. m <= s \/ m >= s + 1
    BY <1>6
  <2>2. m >= s + 1 => q * m >= q * (s + 1) /\ q * (s + 1) = q * s + q /\ q * s >= s
    BY <1>6
  <2> QED BY <1>6, <1>7, <2>1, <2>2
<1>9. i = log2(m) /\ m < 2 ^ 30
  <2>1. n + g + CI_SIZE < 2 ^ 30 /\ 2 ^ 30 \in Nat
    BY <1>2, GallocAssumption
  <2>2. \A x \in Nat : m <= s /\ n + g + CI_SIZE < x => m < x
    BY <1>1, <1>3, <1>6
  <2>3. i = log2(m)
    BY <1>3, <1>4, <1>5 DEF INPAGES
  <2> QED BY <1>8, <2>1, <2>2, <2>3
<1>10. i \in 0..30 /\ m <= Pow(i) /\ \A p \in 0..(i - 1) : Pow(p) < m
  BY <1>6, <1>7, <1>9, LogTight
<1>11. PICK h \in Nat \ {0} : h = Pow(i)
  BY <1>10, PowersGrow
<1>12. n <= q * h - CI_SIZE /\ q * h \in Nat
  <2>1. q * m <= q * h /\ q * h \in Nat
    BY <1>6, <1>10, <1>11
  <2> QED BY <1>1, <1>3, <1>7, <2>1
<1>13. ASSUME i > 0 PROVE q * Pow(i - 1) < n + CI_SIZE + g
  <2>1. i - 1 \in 0..(i - 1) /\ i - 1 \in 0..30
    BY <1>10, <1>13
  <2>2. PICK k \in Nat \ {0} : k = Pow(i - 1)
    BY <2>1, PowersGrow
  <2>3. k < m /\ k + 1 <= m
    BY <1>6, <1>10, <2>1, <2>2
  <2>4. q * (k + 1) <= q * m /\ q * (k + 1) = q * k + q /\ q * k \in Nat
    BY <1>6, <2>3
  <2> QED BY <1>1, <1>3, <1>6, <1>7, <2>2, <2>4
<1>14. r.size = n /\ r.room = q * h - CI_SIZE /\ r.origin = "pages" /\ r.info = i
  BY <1>4, <1>11 DEF Pow
<1>15. r \in Chunk
  <2>1. q * h - CI_SIZE \in Int /\ i \in Nat
    BY <1>1, <1>10, <1>12
  <2> QED BY <1>1, <1>4, <1>11, <2>1 DEF Chunk, Pow
<1> QED BY <1>2, <1>4, <1>12, <1>13, <1>14, <1>15 DEF Fits

\* galloc gives every caller as much as was asked for, and not much more.
THEOREM GallocSafety == GallocSpec => []ChunkFits
<1>1. GallocInit => GallocInv
  <2>1. Unused \in Chunk
    BY DEF Unused, Chunk
  <2> QED BY <2>1 DEF GallocInit, GallocInv
<1>2. GallocInv /\ [GallocNext]_galloc_vars => GallocInv'
  <2> SUFFICES ASSUME GallocInv, [GallocNext]_galloc_vars PROVE GallocInv'
    OBVIOUS
  <2>1. chunks \in [1..MaxChunks -> Chunk] /\ \A c \in 1..MaxChunks : chunks[c] # Unused => Fits(chunks[c])
    BY DEF GallocInv
  <2>2. ASSUME NEW c \in 1..MaxChunks, NEW r \in Chunk, r # Unused => Fits(r),
               chunks' = [chunks EXCEPT ![c] = r]
        PROVE  GallocInv'
    <3>1. chunks' \in [1..MaxChunks -> Chunk]
      BY <2>1, <2>2
    <3>2. \A d \in 1..MaxChunks : chunks'[d] = IF d = c THEN r ELSE chunks[d]
      BY <2>1, <2>2
    <3> QED BY <2>1, <2>2, <3>1, <3>2 DEF GallocInv
  <2>3. CASE UNCHANGED chunks
    BY <2>1, <2>3 DEF GallocInv
  <2>4. ASSUME NEW c \in 1..MaxChunks, gfree(c) PROVE GallocInv'
    <3>1. Unused \in Chunk
      BY DEF Unused, Chunk
    <3> QED BY <2>2, <2>4, <3>1 DEF gfree
  <2>5. ASSUME NEW c \in 1..MaxChunks, NEW n \in GSizes, galloc_from_slice(c, n, Rounded(n))
        PROVE  GallocInv'
    <3> DEFINE i == PoolOf(Rounded(n))
               r == [size |-> n, room |-> POOL_SIZE(i) - CI_SIZE, origin |-> "slice", info |-> i]
    <3>1. chunks' = [chunks EXCEPT ![c] = r]
      BY <2>5 DEF galloc_from_slice, Give
    <3>2. r \in Chunk /\ Fits(r)
      BY FromSlice
    <3> HIDE DEF r
    <3> QED BY <2>2, <3>1, <3>2
  <2>6. ASSUME NEW c \in 1..MaxChunks, NEW n \in GSizes, galloc_from_pages(c, n, Rounded(n))
        PROVE  GallocInv'
    <3> DEFINE i == log2(INPAGES(Rounded(n) + CI_SIZE))
               r == [size |-> n, room |-> GPAGE * 2 ^ i - CI_SIZE, origin |-> "pages", info |-> i]
    <3>1. chunks' = [chunks EXCEPT ![c] = r]
      BY <2>6 DEF galloc_from_pages, Give
    <3>2. r \in Chunk /\ Fits(r)
      BY FromPages
    <3> HIDE DEF r
    <3> QED BY <2>2, <3>1, <3>2
  <2>7. ASSUME NEW c \in 1..MaxChunks, NEW n \in GSizes, galloc(c, n) PROVE GallocInv'
    BY <2>3, <2>5, <2>6, <2>7 DEF galloc, TakenForPool
  <2> QED BY <2>3, <2>4, <2>7 DEF GallocNext, galloc_vars
<1>3. GallocInv => ChunkFits
  BY DEF GallocInv, Fits, ChunkFits, Pow
<1> QED BY <1>1, <1>2, <1>3, PTL DEF GallocSpec
=============================================================================
