---------------------------- MODULE DeviceProofs ----------------------------
(***************************************************************************)
(* Proofs about the drivers.  Serial, for any users, sizes and number of   *)
(* bytes: what a byte queue of pages holds, and that the driver hands on   *)
(* every byte once and in order while nothing spoils it.  Console, for any *)
(* ring and screen: keys come in order and none is missed, and the screen  *)
(* shows the last lines written.                                           *)
(***************************************************************************)
EXTENDS Serial, Console, Klist0Proofs, SequenceTheorems

-----------------------------------------------------------------------------
(* Byte queues. *)

Chunks == {c \in [base : Nat, bytes : Seq(Nat)] : Len(c.bytes) <= MAX_COUNT}

\* Content is the last of the sequences g[k], the bytes of the k newest pages.
Gathers(g, q) ==
    g = [k \in 0..Len(q) |-> IF k = 0 THEN <<>> ELSE q[k].bytes \o g[k - 1]]

\* The running total of a queue's chunks exists.
LEMMA GatherExists ==
    ASSUME NEW q \in Seq(Chunks)
    PROVE  \E g : Gathers(g, q)
<1> DEFINE n == Len(q)
           V == Seq(Nat)
           F == [k \in 1..n |-> [s \in V |-> q[k].bytes \o s]]
<1>1. n \in Nat /\ <<>> \in V
  OBVIOUS
<1>2. ASSUME NEW k \in 1..n, NEW s \in V
      PROVE  F[k][s] = q[k].bytes \o s /\ q[k].bytes \o s \in V
  <2>1. q[k].bytes \in V
    BY DEF Chunks
  <2>2. q[k].bytes \o s \in V
    BY <2>1, ConcatProperties
  <2> QED BY <2>2
<1>3. F \in [1..n -> [V -> V]]
  BY <1>2
<1> HIDE DEF F, V, n
<1>a. Iterates(F, <<>>, n, V) # {}
  BY <1>1, <1>3, Recursion
<1>4. PICK g \in [0..n -> V] : g[0] = <<>> /\ \A k \in 1..n : g[k] = F[k][g[k - 1]]
  BY <1>a DEF Iterates
<1>5. ASSUME NEW k \in 0..n PROVE g[k] = IF k = 0 THEN <<>> ELSE q[k].bytes \o g[k - 1]
  <2>1. CASE k = 0
    BY <1>4, <2>1
  <2>2. CASE k # 0
    <3>1. k \in 1..n /\ k - 1 \in 0..n
      BY <1>1, <2>2
    <3> QED BY <1>2, <1>4, <2>2, <3>1
  <2> QED BY <2>1, <2>2
<1>6. g = [k \in 0..n |-> IF k = 0 THEN <<>> ELSE q[k].bytes \o g[k - 1]]
  BY <1>4, <1>5
<1> QED BY <1>6 DEF Gathers, n

\* The bytes of a queue: none of an empty one, those of its page if it has one.
LEMMA ContentIs ==
    ASSUME NEW q \in Seq(Chunks)
    PROVE  /\ Content(q) \in Seq(Nat)
           /\ Len(q) = 0 => Content(q) = <<>>
           /\ Len(q) = 1 => Content(q) = q[1].bytes
<1> DEFINE g == CHOOSE h : Gathers(h, q)
<1>1. Content(q) = g[Len(q)]
  BY DEF Content, Gathers
<1>2. Gathers(g, q)
  BY GatherExists
<1> HIDE DEF g
<1>3. Len(q) \in Nat /\ \A k \in 1..Len(q) : q[k].bytes \in Seq(Nat)
  BY DEF Chunks
<1>4. g[0] = <<>> /\ \A k \in 1..Len(q) : g[k] = q[k].bytes \o g[k - 1]
  <2>1. \A k \in 0..Len(q) : g[k] = IF k = 0 THEN <<>> ELSE q[k].bytes \o g[k - 1]
    BY <1>2, Zenon DEF Gathers
  <2>2. 0 \in 0..Len(q) /\ \A k \in 1..Len(q) : k \in 0..Len(q) /\ k # 0
    BY <1>3
  <2> QED BY <2>1, <2>2
<1>5. \A k \in 1..Len(q) : g[k - 1] \in Seq(Nat) => g[k] \in Seq(Nat)
  BY <1>3, <1>4, ConcatProperties
<1>6. g[0] \in Seq(Nat)
  BY <1>4
<1>7. \A k \in 0..Len(q) : g[k] \in Seq(Nat)
  BY <1>3, <1>5, <1>6, Along
<1>8. ASSUME Len(q) = 1 PROVE g[1] = q[1].bytes
  <2>1. 1 \in 1..Len(q) /\ 1 - 1 = 0
    BY <1>8
  <2>2. g[1] = q[1].bytes \o <<>>
    BY <1>4, <2>1
  <2> QED BY <1>3, <2>1, <2>2, ConcatEmptySeq
<1> QED BY <1>1, <1>3, <1>4, <1>7, <1>8

\* The pages that kqueue_push adds.
LEMMA NewPagesIs ==
    ASSUME NEW q \in Seq(Chunks), NEW data \in Seq(Nat), NEW n \in 0..Len(data)
    PROVE  LET r == NewPages(q, data, n) IN
           /\ r \in Seq(Chunks) /\ Len(r) >= Len(q) + 1
           /\ Len(r) = 1 => r[1].bytes = SubSeq(data, 1, n)
<1> DEFINE M == MAX_COUNT
           pages == IF n = 0 THEN 1 ELSE (n + M - 1) \div M
           size1(i) == IF i < pages THEN M ELSE n - (pages - 1) * M
           f == [i \in 1..pages |-> Page(SubSeq(data, 1, size1(pages + 1 - i)))]
<1>1. M \in Nat \ {0} /\ n \in Nat /\ n <= Len(data) /\ Len(data) \in Nat /\ Len(q) \in Nat
  BY KqueueAssumption
<1>2. NewPages(q, data, n) = f \o q
  BY DEF NewPages
<1> HIDE DEF M
<1>3. /\ pages \in Nat \ {0}
      /\ (pages - 1) * M \in Nat /\ (pages - 1) * M <= n
      /\ n <= (pages - 1) * M + M
  <2>1. CASE n = 0
    BY <1>1, <2>1
  <2>2. CASE n # 0
    <3> DEFINE x == n + M - 1
               d == x \div M
    <3>1. x \in Nat /\ x >= M
      BY <1>1, <2>2
    <3> HIDE DEF x
    <3>2. d \in Int /\ M * d <= x /\ x < M * d + M
      BY <1>1, <3>1
    <3> HIDE DEF d
    <3>3. M * d > 0
      BY <1>1, <3>1, <3>2
    <3>4. d > 0
      BY <1>1, <3>2, <3>3
    <3>5. (d - 1) * M = M * d - M
      BY <1>1, <3>2
    <3>6. pages = d
      BY <2>2 DEF x, d
    <3>7. M * d \in Int
      BY <1>1, <3>2
    <3> QED BY <1>1, <3>2, <3>3, <3>4, <3>5, <3>6, <3>7 DEF x
  <2> QED BY <2>1, <2>2
<1> HIDE DEF pages
<1>4. ASSUME NEW i \in 1..pages PROVE size1(i) \in 0..n /\ size1(i) <= M
  <2>1. CASE i < pages
    <3>1. (pages - 1) * M >= M
      BY <1>1, <1>3, <2>1
    <3> QED BY <1>1, <1>3, <2>1, <3>1
  <2>2. CASE ~(i < pages)
    BY <1>1, <1>3, <2>2
  <2> QED BY <2>1, <2>2
<1>5. ASSUME NEW i \in 1..pages PROVE f[i] \in Chunks
  <2> DEFINE m == size1(pages + 1 - i)
  <2>1. m \in 0..n /\ m <= M
    <3>1. pages + 1 - i \in 1..pages
      BY <1>3
    <3> HIDE DEF size1
    <3> QED BY <1>4, <3>1
  <2> HIDE DEF m
  <2>2. \A j \in 1..m : data[j] \in Nat
    BY <1>1, <2>1
  <2>3. SubSeq(data, 1, m) \in Seq(Nat) /\ Len(SubSeq(data, 1, m)) = m
    BY <1>1, <2>1, <2>2
  <2>4. f[i] = Page(SubSeq(data, 1, m))
    BY DEF m
  <2> HIDE DEF f
  <2> QED BY <2>1, <2>3, <2>4 DEF Chunks, Page, M
<1>6. f \in Seq(Chunks) /\ Len(f) = pages
  <2> HIDE DEF size1
  <2>1. f \in [1..pages -> Chunks]
    BY <1>5
  <2> QED BY <1>3, <2>1
<1>7. f[1].bytes = SubSeq(data, 1, size1(pages + 1 - 1))
  BY <1>3 DEF Page
<1>8. pages = 1 => size1(pages + 1 - 1) = n
  BY <1>1, <1>3
<1> HIDE DEF f, size1
<1>9. f \o q \in Seq(Chunks) /\ Len(f \o q) = pages + Len(q) /\ (f \o q)[1] = f[1]
  <2>1. /\ f \o q \in Seq(Chunks) /\ Len(f \o q) = Len(f) + Len(q)
        /\ \A i \in 1..(Len(f) + Len(q)) :
             (f \o q)[i] = IF i <= Len(f) THEN f[i] ELSE q[i - Len(f)]
    BY <1>6, ConcatProperties
  <2>2. 1 \in 1..(Len(f) + Len(q)) /\ 1 <= Len(f)
    BY <1>1, <1>3, <1>6
  <2> QED BY <1>6, <2>1, <2>2
<1> QED BY <1>1, <1>2, <1>3, <1>7, <1>8, <1>9

\* The bytes that kqueue_push puts behind those of the newest page.
LEMMA IntoFirstIs ==
    ASSUME NEW q \in Seq(Chunks), q # <<>>, NEW d \in Seq(Nat), Len(d) <= Room(q)
    PROVE  LET r == IntoFirst(q, d) IN
           /\ r \in Seq(Chunks) /\ Len(r) = Len(q) /\ r[1].bytes = q[1].bytes \o d
<1>1. Len(q) \in Nat \ {0} /\ 1 \in 1..Len(q) /\ q[1] \in Chunks
  OBVIOUS
<1>2. PICK c \in Chunks : c = q[1]
  BY <1>1
<1>3. c.bytes \in Seq(Nat) /\ c.base \in Nat
  BY DEF Chunks
<1>4. c.bytes \o d \in Seq(Nat) /\ Len(c.bytes \o d) = Len(c.bytes) + Len(d)
  BY <1>3, ConcatProperties
<1>5. Len(c.bytes \o d) <= MAX_COUNT
  BY <1>2, <1>3, <1>4, KqueueAssumption DEF Room
<1> DEFINE e == [c EXCEPT !.bytes = @ \o d]
<1>6. e \in Chunks /\ e.bytes = c.bytes \o d
  BY <1>2, <1>3, <1>4, <1>5 DEF Chunks
<1>7. IntoFirst(q, d) = [q EXCEPT ![1] = e]
  BY <1>1, <1>2 DEF IntoFirst
<1> HIDE DEF e
<1> QED BY <1>1, <1>2, <1>6, <1>7

\* A queue in good order has no page or one.
LEMMA SoundIs ==
    ASSUME NEW q \in Seq(Chunks), Sound(q)
    PROVE  Len(q) = 0 \/ Len(q) = 1
<1>1. Len(q) <= 1
  BY Zenon DEF Sound
<1>2. \A m \in Nat : m <= 1 => m = 0 \/ m = 1
  OBVIOUS
<1>3. Len(q) \in Nat
  OBVIOUS
<1> QED BY <1>1, <1>2, <1>3, Zenon

\* kqueue_push puts the bytes behind those of the queue, if they all go into
\* its page.
LEMMA PushIs ==
    ASSUME NEW q \in Seq(Chunks), NEW data \in Seq(Nat)
    PROVE  LET r == kqueue_push(q, data) IN
           /\ r \in Seq(Chunks)
           /\ Sound(q) /\ Sound(r) => Content(r) = Content(q) \o data
<1> DEFINE r == kqueue_push(q, data)
           t == Room(q)
           first == SubSeq(data, 1, t)
<1>1. Len(q) \in Nat /\ Len(data) \in Nat
  OBVIOUS
<1>2. t \in Nat /\ (q = <<>> => t = 0)
  <2>1. CASE q = <<>>
    BY <2>1 DEF Room
  <2>2. CASE q # <<>>
    <3>1. q[1] \in Chunks
      BY <2>2
    <3> QED BY <2>2, <3>1, KqueueAssumption DEF Room, Chunks
  <2> QED BY <2>1, <2>2
<1> HIDE DEF t
<1>3. CASE ~NeedsPage(q, data)
  <2>1. q # <<>> /\ Len(data) <= Room(q) /\ r = IntoFirst(q, data)
    BY <1>1, <1>2, <1>3 DEF NeedsPage, kqueue_push, t
  <2> HIDE DEF r
  <2>2. r \in Seq(Chunks) /\ Len(r) = Len(q) /\ r[1].bytes = q[1].bytes \o data
    BY <2>1, IntoFirstIs
  <2>3. ASSUME Sound(q) PROVE Content(r) = Content(q) \o data
    <3>1. Len(q) = 1
      BY <1>1, <2>1, <2>3, SoundIs
    <3>2. Content(q) = q[1].bytes
      BY <3>1, ContentIs
    <3>a. r \in Seq(Chunks) /\ Len(r) = 1
      BY <2>2, <3>1
    <3>3. Content(r) = r[1].bytes
      BY <3>a, ContentIs
    <3> QED BY <2>2, <3>2, <3>3
  <2> QED BY <2>2, <2>3 DEF r
<1>4. CASE NeedsPage(q, data) /\ t = 0
  <2>1. r = NewPages(q, data, Len(data)) /\ Len(data) \in 0..Len(data)
    BY <1>1, <1>4 DEF kqueue_push, t
  <2> HIDE DEF r
  <2>2. r \in Seq(Chunks) /\ Len(r) >= Len(q) + 1
        /\ (Len(r) = 1 => r[1].bytes = SubSeq(data, 1, Len(data)))
    BY <2>1, NewPagesIs
  <2>3. ASSUME Sound(r) PROVE Content(r) = Content(q) \o data
    <3>1. Len(r) = 1 /\ Len(q) = 0
      BY <1>1, <2>2, <2>3, SoundIs
    <3>a. Content(r) = r[1].bytes
      BY <2>2, <3>1, ContentIs, Zenon
    <3>2. Content(r) = SubSeq(data, 1, Len(data))
      BY <2>2, <3>1, <3>a
    <3>3. Content(q) = <<>>
      BY <3>1, ContentIs
    <3>4. SubSeq(data, 1, Len(data)) = data /\ <<>> \o data = data
      BY SubSeqFull, ConcatEmptySeq
    <3> QED BY <3>2, <3>3, <3>4
  <2> QED BY <2>2, <2>3 DEF r
<1>5. CASE NeedsPage(q, data) /\ t # 0
  <2>1. /\ r = NewPages(IntoFirst(q, first), data, Len(data) - t)
        /\ Len(data) - t \in 0..Len(data) /\ q # <<>>
    BY <1>1, <1>2, <1>5 DEF kqueue_push, NeedsPage, t
  <2>2. first \in Seq(Nat) /\ Len(first) = t
    <3>1. \A j \in 1..t : data[j] \in Nat
      BY <1>1, <1>2, <2>1
    <3> QED BY <1>2, <3>1
  <2>3. IntoFirst(q, first) \in Seq(Chunks) /\ Len(IntoFirst(q, first)) = Len(q)
    <3> HIDE DEF first
    <3>1. Len(first) <= Room(q)
      BY <1>2, <2>2 DEF t
    <3> QED BY <2>1, <2>2, <3>1, IntoFirstIs
  <2> HIDE DEF r, first
  <2>4. r \in Seq(Chunks) /\ Len(r) >= Len(q) + 1
    BY <2>1, <2>3, NewPagesIs
  <2>5. ~Sound(r)
    BY <1>1, <2>1, <2>4 DEF Sound
  <2> QED BY <2>4, <2>5 DEF r
<1> QED BY <1>3, <1>4, <1>5

\* The order in which sequences of bytes are joined.
LEMMA Joined ==
    ASSUME NEW s \in Seq(Nat), NEW t \in Seq(Nat), NEW u \in Seq(Nat)
    PROVE  (s \o t) \o u = s \o (t \o u)
  BY ConcatAssociative

\* A sequence cut in two.
LEMMA CutInTwo ==
    ASSUME NEW s \in Seq(Nat), NEW n \in Nat, n <= Len(s)
    PROVE  /\ SubSeq(s, 1, n) \in Seq(Nat) /\ Len(SubSeq(s, 1, n)) = n
           /\ SubSeq(s, n + 1, Len(s)) \in Seq(Nat)
           /\ Len(SubSeq(s, n + 1, Len(s))) = Len(s) - n
           /\ SubSeq(s, 1, n) \o SubSeq(s, n + 1, Len(s)) = s
<1> DEFINE a == SubSeq(s, 1, n)
           b == SubSeq(s, n + 1, Len(s))
<1>1. Len(s) \in Nat
  OBVIOUS
<1>2. a \in Seq(Nat) /\ Len(a) = n /\ \A i \in 1..n : a[i] = s[i]
  <2>1. \A i \in 1..n : s[i] \in Nat
    BY <1>1
  <2> QED BY <2>1
<1>3. b \in Seq(Nat) /\ Len(b) = Len(s) - n /\ \A i \in 1..(Len(s) - n) : b[i] = s[n + i]
  <2>1. \A i \in (n + 1)..Len(s) : s[i] \in Nat
    BY <1>1
  <2> QED BY <1>1, <2>1
<1> HIDE DEF a, b
<1>4. /\ a \o b \in Seq(Nat) /\ Len(a \o b) = Len(a) + Len(b)
      /\ \A i \in 1..(Len(a) + Len(b)) :
           (a \o b)[i] = IF i <= Len(a) THEN a[i] ELSE b[i - Len(a)]
  BY <1>2, <1>3, ConcatProperties
<1>a. Len(a) + Len(b) = Len(s)
  BY <1>1, <1>2, <1>3
<1>5. ASSUME NEW i \in 1..Len(s) PROVE (a \o b)[i] = s[i]
  <2>1. (a \o b)[i] = IF i <= n THEN a[i] ELSE b[i - n]
    BY <1>2, <1>4, <1>a
  <2>2. CASE i <= n
    BY <1>1, <1>2, <2>1, <2>2
  <2>3. CASE ~(i <= n)
    <3>1. i - n \in 1..(Len(s) - n) /\ n + (i - n) = i
      BY <1>1, <2>3
    <3> QED BY <1>3, <2>1, <2>3, <3>1
  <2> QED BY <2>2, <2>3
<1>6. a \o b = s
  <2>1. Len(a \o b) = Len(s)
    BY <1>4, <1>a
  <2> QED BY <1>4, <1>5, <2>1, SeqEqual
<1> QED BY <1>2, <1>3, <1>6 DEF a, b

\* What kqueue_pull_tail takes are the first bytes of the queue, as many as it
\* says, if the queue has no more than one page.
LEMMA PullIs ==
    ASSUME NEW q \in Seq(Chunks), NEW len \in Nat
    PROVE  LET p == kqueue_pull_tail(q, len) IN
           /\ p.q \in Seq(Chunks) /\ p.ret \in Nat
           /\ Sound(q) => /\ Sound(p.q) /\ p.data \in Seq(Nat) /\ p.ret = Len(p.data)
                          /\ p.data \o Content(p.q) = Content(q)
                          /\ len > 0 /\ p.ret = 0 => Content(p.q) = <<>>
<1> DEFINE Oldest(k) == SubSeq(q, Len(q) + 1 - k, Len(q))
           K == {k \in 0..Len(q) : kqueue_size(Oldest(k)) <= len}
           whole == Max(K)
           taken == Content(Oldest(whole))
           rest == len - Len(taken)
           left == SubSeq(q, 1, Len(q) - whole)
           last == left[Len(left)]
           new == [base |-> last.base + rest,
                   bytes |-> SubSeq(last.bytes, rest + 1, Len(last.bytes))]
           p == kqueue_pull_tail(q, len)
<1>1. p = IF left = <<>> THEN [q |-> left, data |-> taken, ret |-> Len(taken)]
          ELSE [q |-> [left EXCEPT ![Len(left)] = new],
                data |-> taken \o SubSeq(last.bytes, 1, rest), ret |-> rest]
  BY DEF kqueue_pull_tail
<1> HIDE DEF p
<1>2. Len(q) \in Nat /\ \A i \in 1..Len(q) : q[i] \in Chunks
  OBVIOUS
<1>3. ASSUME NEW k \in 0..Len(q)
      PROVE  /\ Oldest(k) \in Seq(Chunks) /\ Len(Oldest(k)) = k
             /\ Content(Oldest(k)) \in Seq(Nat)
  <2>1. \A i \in (Len(q) + 1 - k)..Len(q) : q[i] \in Chunks
    BY <1>2
  <2>2. Oldest(k) \in Seq(Chunks) /\ Len(Oldest(k)) = k
    BY <1>2, <2>1
  <2> HIDE DEF Oldest
  <2> QED BY <2>2, ContentIs
<1>4. Oldest(1) = q \/ Len(q) # 1
  BY <1>2, SubSeqFull
<1> HIDE DEF Oldest
<1>5. whole \in K /\ \A k \in K : whole >= k
  <2> DEFINE T == {Len(q) - k : k \in K}
  <2>1. 0 \in K
    <3>1. 0 \in 0..Len(q)
      BY <1>2
    <3>2. Content(Oldest(0)) = <<>>
      BY <1>3, <3>1, ContentIs
    <3> QED BY <3>1, <3>2 DEF kqueue_size
  <2>2. T \in SUBSET Nat /\ T # {}
    BY <1>2, <2>1
  <2>3. PICK j \in T : \A i \in T : j <= i
    BY <2>2, LeastNumber
  <2>4. PICK m \in K : j = Len(q) - m
    BY <2>3
  <2>5. \A k \in K : m >= k
    <3> SUFFICES ASSUME NEW k \in K PROVE m >= k
      OBVIOUS
    <3>1. j <= Len(q) - k
      BY <2>3
    <3> QED BY <1>2, <2>4, <3>1
  <2> HIDE DEF K
  <2> QED BY <2>4, <2>5 DEF Max
<1> HIDE DEF whole
<1>6. whole \in 0..Len(q) /\ taken \in Seq(Nat) /\ Len(taken) <= len
  BY <1>3, <1>5 DEF kqueue_size
<1>7. left \in Seq(Chunks) /\ Len(left) = Len(q) - whole
  <2>1. \A i \in 1..(Len(q) - whole) : q[i] \in Chunks
    BY <1>2, <1>6
  <2> QED BY <1>2, <1>6, <2>1
<1>8. Len(q) = 0 => Content(q) = <<>>
  BY ContentIs
<1>9. Len(q) = 1 => Content(q) = q[1].bytes
  BY ContentIs
<1>10. CASE left = <<>>
  <2> HIDE DEF left, taken, K
  <2>1. p.q = <<>> /\ p.data = taken /\ p.ret = Len(taken) /\ Len(q) = whole
    BY <1>1, <1>2, <1>6, <1>7, <1>10
  <2>2. Content(<<>>) = <<>> /\ <<>> \in Seq(Chunks)
    <3>1. <<>> \in Seq(Chunks) /\ Len(<<>>) = 0
      OBVIOUS
    <3> QED BY <3>1, ContentIs
  <2>3. ASSUME Sound(q) PROVE taken = Content(q)
    <3>1. Len(q) = 0 \/ Len(q) = 1
      BY <2>3, SoundIs
    <3>2. CASE Len(q) = 0
      <4>1. Len(Oldest(whole)) = 0 /\ Oldest(whole) \in Seq(Chunks)
        BY <1>3, <1>6, <2>1, <3>2
      <4>2. Content(Oldest(whole)) = <<>>
        BY <4>1, ContentIs
      <4> QED BY <1>8, <3>2, <4>2 DEF taken
    <3>3. CASE Len(q) = 1
      BY <1>4, <2>1, <3>3 DEF taken
    <3> QED BY <3>1, <3>2, <3>3
  <2>4. taken \o <<>> = taken
    BY <1>6, ConcatEmptySeq
  <2>5. Sound(<<>>)
    BY DEF Sound
  <2> QED BY <1>6, <2>1, <2>2, <2>3, <2>4, <2>5 DEF p
<1>11. CASE left # <<>>
  <2>1. Len(left) \in Nat \ {0} /\ Len(left) \in 1..Len(left) /\ last \in Chunks /\ rest \in Nat
    BY <1>6, <1>7, <1>11
  <2>2. p.q = [left EXCEPT ![Len(left)] = new] /\ p.ret = rest
        /\ p.data = taken \o SubSeq(last.bytes, 1, rest)
    BY <1>1, <1>11
  <2> HIDE DEF left, rest, taken
  <2>3. PICK c \in Chunks : c = last
    BY <2>1
  <2>4. c.bytes \in Seq(Nat) /\ Len(c.bytes) \in Nat /\ c.base \in Nat /\ Len(c.bytes) <= MAX_COUNT
    BY DEF Chunks
  <2> DEFINE after == SubSeq(c.bytes, rest + 1, Len(c.bytes))
  <2>5. after \in Seq(Nat) /\ Len(after) <= Len(c.bytes)
    <3>1. CASE rest <= Len(c.bytes)
      <4>1. after \in Seq(Nat) /\ Len(after) = Len(c.bytes) - rest
        BY <2>1, <2>4, <3>1, CutInTwo
      <4> QED BY <2>1, <2>4, <4>1
    <3>2. CASE ~(rest <= Len(c.bytes))
      <4>1. rest + 1 \in Int /\ Len(c.bytes) < rest + 1
        BY <2>1, <2>4, <3>2
      <4>2. after = <<>>
        BY <2>4, <4>1, SubSeqEmpty
      <4> HIDE DEF after
      <4>3. <<>> \in Seq(Nat) /\ Len(<<>>) = 0
        OBVIOUS
      <4> QED BY <2>4, <4>2, <4>3
    <3> QED BY <3>1, <3>2
  <2>6. new = [base |-> c.base + rest, bytes |-> after]
    BY <2>3
  <2> HIDE DEF last, after, new
  <2>7. new \in Chunks
    <3>1. c.base + rest \in Nat /\ Len(after) <= MAX_COUNT
      BY <2>1, <2>4, <2>5, KqueueAssumption
    <3> QED BY <2>5, <2>6, <3>1 DEF Chunks
  <2>8. p.q \in Seq(Chunks) /\ Len(p.q) = Len(left) /\ p.q[Len(left)] = new
    BY <1>7, <2>1, <2>2, <2>7
  <2>9. ASSUME Sound(q)
        PROVE  /\ Sound(p.q) /\ p.data \in Seq(Nat) /\ p.ret = Len(p.data)
               /\ p.data \o Content(p.q) = Content(q)
               /\ len > 0 /\ p.ret = 0 => Content(p.q) = <<>>
    <3>1. Len(q) = 1 /\ whole = 0 /\ Len(left) = 1
      BY <1>2, <1>6, <1>7, <2>1, <2>9 DEF Sound
    <3>2. left = q
      BY <1>2, <3>1, SubSeqFull DEF left
    <3>3. c = q[1] /\ Content(q) = c.bytes
      BY <1>9, <2>3, <3>1, <3>2 DEF last
    <3>4. len < Len(c.bytes)
      <4>1. 1 \in 0..Len(q) /\ 1 \notin K
        BY <1>5, <3>1
      <4>2. kqueue_size(Oldest(1)) = Len(c.bytes)
        BY <1>4, <3>1, <3>3 DEF kqueue_size
      <4> QED BY <2>4, <4>1, <4>2
    <3>5. taken = <<>> /\ rest = len
      <4>1. Len(Oldest(whole)) = 0 /\ Oldest(whole) \in Seq(Chunks)
        BY <1>3, <1>6, <3>1
      <4>2. taken = <<>>
        BY <4>1, ContentIs DEF taken
      <4> QED BY <4>2 DEF rest
    <3> DEFINE before == SubSeq(c.bytes, 1, len)
    <3>6. before \in Seq(Nat) /\ Len(before) = len /\ Len(after) = Len(c.bytes) - len
          /\ before \o after = c.bytes
      <4>1. len <= Len(c.bytes)
        BY <2>4, <3>4
      <4> QED BY <2>4, <3>5, <4>1, CutInTwo DEF after
    <3>7. p.data = <<>> \o before
      BY <2>2, <2>3, <3>5
    <3> HIDE DEF before
    <3>8. p.data = before
      BY <3>6, <3>7, ConcatEmptySeq
    <3>9. Content(p.q) = after
      <4>1. Content(p.q) = p.q[1].bytes
        BY <2>8, <3>1, ContentIs
      <4> QED BY <2>6, <2>8, <3>1, <4>1
    <3>10. Sound(p.q)
      <4>1. c.base + Len(c.bytes) <= MAX_COUNT
        BY <2>9, <3>1, <3>3 DEF Sound
      <4>2. new.base + Len(new.bytes) <= MAX_COUNT
        BY <2>4, <2>6, <3>4, <3>5, <3>6, <4>1, KqueueAssumption
      <4> QED BY <2>8, <3>1, <4>2 DEF Sound
    <3>11. p.ret = len /\ p.data \in Seq(Nat) /\ Len(p.data) = len
      BY <2>2, <3>5, <3>6, <3>8
    <3>12. p.data \o Content(p.q) = Content(q)
      BY <3>3, <3>6, <3>8, <3>9
    <3> QED BY <3>10, <3>11, <3>12
  <2> QED BY <2>1, <2>2, <2>8, <2>9 DEF p
<1> QED BY <1>10, <1>11

-----------------------------------------------------------------------------
(* The driver. *)

Flags ==
    /\ {ier_tx, halted, closed, spoiled, crowded} \subseteq BOOLEAN
    /\ rx \in Nat /\ tx \in Nat /\ rx + tx <= MaxBytes

\* Who sleeps, and how far a call of read has come.
Sleepers ==
    /\ tq \in Seq(Users) /\ IsInjective(tq)
    /\ op \in [Users -> {"idle", "read", "write"}]
    /\ size \in [Users -> Nat] /\ num_read \in [Users -> Nat]
    /\ \A u \in Users : Asleep(u) => op[u] # "idle"
    /\ \A u \in Users : op[u] = "read" => num_read[u] < size[u] /\ read_queue # Null
    /\ ~crowded => Len(tq) <= 1

\* What was read and what waits is what came, and likewise for what is written.
Intact(q, taken, put) ==
    /\ q # Null => Sound(q)
    /\ taken \in Seq(Nat) /\ put \in Seq(Nat)
    /\ q # Null => taken \o Content(q) = put
    /\ q = Null => taken = <<>> /\ put = <<>>

Bytes ==
    /\ {read_queue, write_queue} \subseteq Seq(Chunks) \cup {Null}
    /\ read_queue = Null => write_queue = Null
    /\ ~spoiled => /\ Intact(read_queue, delivered, arrived)
                   /\ Intact(write_queue, sent, queued)

DriverInv == Flags /\ Sleepers /\ Bytes /\ NoByteMissed

\* A queue is not Null.
LEMMA QueueIsNotNull ==
    ASSUME NEW q \in Seq(Chunks)
    PROVE  q # Null
<1>1. Chunks \subseteq [base : Nat, bytes : Seq(Nat)]
  BY DEF Chunks
<1> DEFINE R == [base : Nat, bytes : Seq(Nat)]
<1>2. q \in Seq(R)
  <2> HIDE DEF R
  <2>1. Len(q) \in Nat /\ q \in [1..Len(q) -> R]
    BY <1>1 DEF R
  <2> QED BY <2>1
<1> QED BY <1>2, SerialAssumption

\* A new queue.
LEMMA EmptyQueue == <<>> \in Seq(Chunks) /\ <<>> # Null /\ Content(<<>>) = <<>>
<1>1. <<>> \in Seq(Chunks) /\ Len(<<>>) = 0
  OBVIOUS
<1> QED BY <1>1, QueueIsNotNull, ContentIs

\* What the properties say.
LEMMA DriverMeans ==
    ASSUME DriverInv
    PROVE  SerialTypeOK /\ RxIntact /\ TxIntact /\ NoByteMissed
<1>1. SerialTypeOK
  BY DEF DriverInv, Flags, Sleepers, SerialTypeOK
<1>2. RxIntact /\ TxIntact
  BY DEF DriverInv, Bytes, Intact, RxIntact, TxIntact, Opened
<1> QED BY <1>1, <1>2 DEF DriverInv

\* Waking takes at most the first sleeper off the queue.
LEMMA WakeIs ==
    ASSUME tq \in Seq(Users), IsInjective(tq)
    PROVE  /\ Wake \in Seq(Users) /\ IsInjective(Wake) /\ Range(Wake) \subseteq Range(tq)
           /\ Len(tq) <= 1 => Wake = <<>>
           /\ Len(Wake) <= Len(tq)
<1>1. CASE tq = <<>>
  BY <1>1 DEF Wake
<1>2. CASE tq # <<>>
  <2>1. Wake = Tail(tq)
    BY <1>2 DEF Wake
  <2>2. /\ Tail(tq) \in Seq(Users) /\ Distinct(Tail(tq)) /\ Range(Tail(tq)) = Range(tq) \ {Head(tq)}
    BY <1>2, TailDistinct DEF Distinct, IsInjective
  <2>3. Len(tq) \in Nat \ {0} /\ Len(Tail(tq)) = Len(tq) - 1
    BY <1>2
  <2>4. Len(tq) <= 1 => Tail(tq) = <<>>
    BY <2>2, <2>3
  <2> QED BY <2>1, <2>2, <2>3, <2>4 DEF Distinct, IsInjective
<1> QED BY <1>1, <1>2

\* A thread that goes to sleep is on the queue once.
LEMMA SleepIs ==
    ASSUME tq \in Seq(Users), IsInjective(tq), NEW u \in Users, ~Asleep(u)
    PROVE  /\ Append(tq, u) \in Seq(Users) /\ IsInjective(Append(tq, u))
           /\ Range(Append(tq, u)) = Range(tq) \cup {u}
  BY AppendDistinct DEF Distinct, IsInjective, Asleep

\* The invariant holds before the first open.
LEMMA SerialStart ==
    ASSUME SerialInit
    PROVE  DriverInv
<1>1. Flags
  <2>1. {FALSE} \subseteq BOOLEAN
    OBVIOUS
  <2>2. rx \in Nat /\ tx \in Nat /\ rx + tx <= MaxBytes
    BY SerialAssumption DEF SerialInit
  <2> QED BY <2>1, <2>2, Zenon DEF SerialInit, Flags
<1>2. Sleepers
  BY DEF SerialInit, Sleepers, IsInjective, Asleep, Range
<1>3. Bytes
  BY DEF SerialInit, Bytes, Intact
<1>4. NoByteMissed
  BY DEF SerialInit, NoByteMissed, Asleep, Range
<1> QED BY <1>1, <1>2, <1>3, <1>4 DEF DriverInv

\* Each operation keeps the invariant: open,
LEMMA OpenKeeps ==
    ASSUME DriverInv, NEW second \in BOOLEAN, serial_8250_open(second)
    PROVE  DriverInv'
<1> USE DEF DriverInv, serial_8250_open, kqueue_create, call_vars
<1>1. <<>> \in Seq(Chunks) /\ <<>> # Null /\ Content(<<>>) = <<>>
  BY EmptyQueue
<1>2. Flags'
  BY Zenon DEF Flags
<1>3. Sleepers'
  BY <1>1 DEF Sleepers, IsInjective, Asleep, Range
<1>4. Bytes'
  <2>1. (~spoiled)' => Intact(<<>>, delivered, arrived) /\ Intact(<<>>, sent, queued)
    <3> SUFFICES ASSUME (~spoiled)'
                 PROVE  Intact(<<>>, delivered, arrived) /\ Intact(<<>>, sent, queued)
      OBVIOUS
    <3>1. delivered = <<>> /\ arrived = <<>> /\ sent = <<>> /\ queued = <<>>
      BY DEF Bytes, Intact
    <3> QED BY <1>1, <3>1 DEF Intact, Sound
  <2>2. (~spoiled)' => Intact(Null, sent, queued)
    BY DEF Bytes
  <2> QED BY <1>1, <2>1, <2>2 DEF Bytes
<1>5. NoByteMissed'
  BY DEF NoByteMissed, Asleep, Range
<1> QED BY <1>2, <1>3, <1>4, <1>5

\* close,
LEMMA CloseKeeps ==
    ASSUME DriverInv, NEW u \in Users, serial_8250_close(u)
    PROVE  DriverInv'
<1> USE DEF DriverInv, serial_8250_close, call_vars
<1>1. Flags'
  BY DEF Flags
<1>2. Sleepers'
  BY WakeIs DEF Sleepers, Asleep
<1>3. Bytes'
  BY DEF Bytes, Intact
<1>4. NoByteMissed'
  BY DEF NoByteMissed, Undisturbed, Opened
<1> QED BY <1>1, <1>2, <1>3, <1>4

\* Where a thread that looked at the queue sleeps, if it does.
LEMMA TurnKeeps ==
    ASSUME DriverInv, NEW u \in Users, Running(u), NEW asleep \in BOOLEAN,
           tq' = IF asleep THEN Append(tq, u) ELSE tq, crowded' = (crowded \/ Len(tq') > 1)
    PROVE  /\ tq' \in Seq(Users) /\ IsInjective(tq') /\ crowded' \in BOOLEAN
           /\ Range(tq') = IF asleep THEN Range(tq) \cup {u} ELSE Range(tq)
           /\ (~crowded)' => Len(tq') <= 1 /\ ~crowded
<1>1. /\ tq' \in Seq(Users) /\ IsInjective(tq')
      /\ Range(tq') = IF asleep THEN Range(tq) \cup {u} ELSE Range(tq)
  BY SleepIs DEF DriverInv, Sleepers, Running
<1>2. Len(tq') \in Nat
  BY <1>1
<1>3. crowded' \in BOOLEAN /\ ((~crowded)' => ~(Len(tq') > 1) /\ ~crowded)
  BY Zenon
<1> QED BY <1>1, <1>2, <1>3

\* One turn of the loop of read.
LEMMA ReadTurnKeeps ==
    ASSUME DriverInv, NEW u \in Users, NEW n \in Nat, NEW from \in Nat, from < n,
           read_queue # Null, ~closed, Running(u), ReadTurn(u, n, from)
    PROVE  DriverInv'
<1>1. read_queue \in Seq(Chunks)
  BY DEF DriverInv, Bytes
<1>2. PICK p : p = kqueue_pull_tail(read_queue, n)
  OBVIOUS
<1>3. /\ p.q \in Seq(Chunks) /\ p.ret \in Nat
      /\ Sound(read_queue) => /\ Sound(p.q) /\ p.data \in Seq(Nat) /\ p.ret = Len(p.data)
                              /\ p.data \o Content(p.q) = Content(read_queue)
                              /\ n > 0 /\ p.ret = 0 => Content(p.q) = <<>>
  BY <1>1, <1>2, PullIs
<1>4. /\ read_queue' = p.q
      /\ num_read' = [num_read EXCEPT ![u] = from + p.ret]
      /\ size' = [size EXCEPT ![u] = n]
      /\ tq' = IF p.ret = 0 THEN Append(tq, u) ELSE tq
      /\ crowded' = (crowded \/ Len(tq') > 1)
      /\ op' = [op EXCEPT ![u] = IF from + p.ret < n THEN "read" ELSE "idle"]
      /\ delivered' = delivered \o SubSeq(p.data, 1, p.ret)
      /\ UNCHANGED <<write_queue, ier_tx, halted, closed, rx, tx, arrived, queued, sent, spoiled>>
  BY <1>2 DEF ReadTurn
<1>5. /\ tq' \in Seq(Users) /\ IsInjective(tq') /\ crowded' \in BOOLEAN
      /\ Range(tq') = IF p.ret = 0 THEN Range(tq) \cup {u} ELSE Range(tq)
      /\ (~crowded)' => Len(tq') <= 1 /\ ~crowded
  <2>1. (p.ret = 0) \in BOOLEAN
    OBVIOUS
  <2> QED BY <1>4, <2>1, TurnKeeps
<1>6. p.q # Null
  BY <1>3, QueueIsNotNull
<1>7. Flags'
  BY <1>4, <1>5, Zenon DEF DriverInv, Flags
<1>8. Sleepers'
  <2>1. ~Asleep(u)
    BY DEF Running
  <2>2. /\ op \in [Users -> {"idle", "read", "write"}] /\ size \in [Users -> Nat]
        /\ num_read \in [Users -> Nat] /\ \A v \in Users : Asleep(v) => op[v] # "idle"
        /\ \A v \in Users : op[v] = "read" => num_read[v] < size[v]
    BY DEF DriverInv, Sleepers
  <2>3. op' \in [Users -> {"idle", "read", "write"}] /\ size' \in [Users -> Nat]
        /\ num_read' \in [Users -> Nat]
    BY <1>3, <1>4, <2>2
  <2>4. ASSUME NEW v \in Users, Asleep(v)' PROVE op'[v] # "idle"
    <3>1. CASE v = u
      <4>1. p.ret = 0
        BY <1>5, <2>1, <2>4, <3>1 DEF Asleep
      <4> QED BY <1>4, <2>2, <3>1, <4>1
    <3>2. CASE v # u
      BY <1>4, <1>5, <2>2, <2>4, <3>2 DEF Asleep
    <3> QED BY <3>1, <3>2
  <2>5. ASSUME NEW v \in Users, op'[v] = "read"
        PROVE  num_read'[v] < size'[v] /\ read_queue' # Null
    BY <1>4, <1>6, <2>2, <2>5
  <2> QED BY <1>5, <2>3, <2>4, <2>5 DEF Sleepers
<1>9. Bytes'
  <2>1. ASSUME ~spoiled
        PROVE  Intact(p.q, delivered', arrived) /\ Intact(write_queue, sent, queued)
    <3>1. /\ Sound(read_queue) /\ delivered \in Seq(Nat) /\ arrived \in Seq(Nat)
          /\ delivered \o Content(read_queue) = arrived /\ Intact(write_queue, sent, queued)
      BY <2>1 DEF DriverInv, Bytes, Intact
    <3>2. SubSeq(p.data, 1, p.ret) = p.data
      BY <1>3, <3>1, SubSeqFull
    <3>3. p.data \in Seq(Nat) /\ Content(p.q) \in Seq(Nat)
      BY <1>3, <3>1, ContentIs
    <3>4. delivered' = delivered \o p.data /\ delivered' \in Seq(Nat)
      BY <1>4, <3>1, <3>2, <3>3, ConcatProperties
    <3>5. (delivered \o p.data) \o Content(p.q) = delivered \o (p.data \o Content(p.q))
      BY <3>1, <3>3, Joined
    <3>6. delivered' \o Content(p.q) = arrived
      BY <1>3, <3>1, <3>4, <3>5
    <3> QED BY <1>3, <1>6, <3>1, <3>4, <3>6 DEF Intact
  <2>2. write_queue \in Seq(Chunks) \cup {Null}
    BY DEF DriverInv, Bytes
  <2> QED BY <1>3, <1>4, <1>6, <2>1, <2>2 DEF Bytes
<1>10. NoByteMissed'
  <2> SUFFICES ASSUME NEW v \in Users, Undisturbed', Asleep(v)', op'[v] = "read"
               PROVE  Content(p.q) = <<>>
    BY <1>4 DEF NoByteMissed, kqueue_size
  <2>1. ~spoiled /\ ~crowded /\ ~halted /\ Opened
    BY <1>4, <1>5 DEF Undisturbed, Opened
  <2>2. Sound(read_queue)
    BY <2>1 DEF DriverInv, Bytes, Intact, Opened
  <2>3. CASE p.ret = 0
    BY <1>3, <2>2, <2>3
  <2>4. CASE p.ret # 0
    <3>1. v # u /\ Asleep(v)
      BY <1>5, <2>4 DEF Asleep, Running
    <3>2. op[v] = "read"
      BY <1>4, <3>1 DEF DriverInv, Sleepers
    <3>3. kqueue_size(read_queue) = 0
      BY <2>1, <3>1, <3>2 DEF DriverInv, NoByteMissed, Undisturbed
    <3>4. Content(read_queue) \in Seq(Nat) /\ Content(p.q) \in Seq(Nat) /\ p.data \in Seq(Nat)
      BY <1>1, <1>3, <2>2, ContentIs
    <3>5. Content(read_queue) = <<>>
      BY <3>3, <3>4 DEF kqueue_size
    <3> QED BY <1>3, <2>2, <3>4, <3>5, ConcatEqualIffEmpty
  <2> QED BY <2>3, <2>4
<1> QED BY <1>7, <1>8, <1>9, <1>10 DEF DriverInv

\* read, at its first try and after a wake-up,
LEMMA ReadKeeps ==
    ASSUME DriverInv, NEW u \in Users,
           ReadAgain(u) \/ \E n \in 1..MaxSize : serial_8250_read(u, n)
    PROVE  DriverInv'
<1>1. CASE ReadAgain(u)
  <2>1. /\ size[u] \in Nat /\ num_read[u] \in Nat /\ num_read[u] < size[u]
        /\ read_queue # Null /\ ~closed /\ Running(u)
    BY <1>1 DEF DriverInv, Sleepers, ReadAgain
  <2> QED BY <1>1, <2>1, ReadTurnKeeps DEF ReadAgain
<1>2. CASE \E n \in 1..MaxSize : serial_8250_read(u, n)
  <2>1. PICK n \in 1..MaxSize : serial_8250_read(u, n)
    BY <1>2
  <2>2. n \in Nat /\ 0 < n
    BY SerialAssumption
  <2>3. read_queue # Null /\ ~closed /\ Running(u) /\ ReadTurn(u, n, 0)
    BY <2>1 DEF serial_8250_read, Opened
  <2> QED BY <2>2, <2>3, ReadTurnKeeps
<1> QED BY <1>1, <1>2

\* The turn of a thread in write, and of one that starts to write.
LEMMA WriteWaitKeeps ==
    ASSUME DriverInv, NEW u \in Users, Running(u), op[u] # "read" \/ read_queue # Null, NEW q, WriteWait(u, q),
           UNCHANGED <<read_queue, size, num_read>>
    PROVE  /\ Sleepers' /\ crowded' \in BOOLEAN
           /\ \A v \in Users : Asleep(v)' /\ op'[v] = "read" => Asleep(v) /\ op[v] = "read"
           /\ (~crowded)' => ~crowded
<1>1. /\ tq' \in Seq(Users) /\ IsInjective(tq') /\ crowded' \in BOOLEAN
      /\ Range(tq') = IF ~(kqueue_size(q) = 0) THEN Range(tq) \cup {u} ELSE Range(tq)
      /\ (~crowded)' => Len(tq') <= 1 /\ ~crowded
  <2>1. (~(kqueue_size(q) = 0)) \in BOOLEAN
    OBVIOUS
  <2>2. /\ tq' = IF ~(kqueue_size(q) = 0) THEN Append(tq, u) ELSE tq
        /\ crowded' = (crowded \/ Len(tq') > 1)
    BY DEF WriteWait
  <2> QED BY <2>1, <2>2, TurnKeeps
<1>2. op' = [op EXCEPT ![u] = IF kqueue_size(q) = 0 THEN "idle" ELSE "write"]
  BY DEF WriteWait
<1>3. /\ op \in [Users -> {"idle", "read", "write"}] /\ size \in [Users -> Nat]
      /\ num_read \in [Users -> Nat] /\ \A v \in Users : Asleep(v) => op[v] # "idle"
      /\ \A v \in Users : op[v] = "read" => num_read[v] < size[v] /\ read_queue # Null
  BY DEF DriverInv, Sleepers
<1>4. op' \in [Users -> {"idle", "read", "write"}]
  BY <1>2, <1>3
<1>5. ASSUME NEW v \in Users, Asleep(v)' PROVE op'[v] # "idle"
  <2>1. CASE v = u
    BY <1>1, <1>2, <1>3, <1>5, <2>1 DEF Asleep, Running
  <2>2. CASE v # u
    BY <1>1, <1>2, <1>3, <1>5, <2>2 DEF Asleep
  <2> QED BY <2>1, <2>2
<1>6. ASSUME NEW v \in Users, op'[v] = "read" PROVE v # u /\ op[v] = "read"
  BY <1>2, <1>3, <1>6
<1>7. Sleepers'
  BY <1>1, <1>3, <1>4, <1>5, <1>6 DEF Sleepers
<1>8. \A v \in Users : Asleep(v)' /\ op'[v] = "read" => Asleep(v) /\ op[v] = "read"
  BY <1>1, <1>6 DEF Asleep
<1> QED BY <1>1, <1>7, <1>8

\* Nobody misses a byte when nobody goes to sleep in read and no byte comes.
LEMMA NoByteMissedKept ==
    ASSUME NoByteMissed, UNCHANGED <<read_queue>>, Undisturbed' => Undisturbed,
           \A v \in Users : Asleep(v)' /\ op'[v] = "read" => Asleep(v) /\ op[v] = "read"
    PROVE  NoByteMissed'
  BY DEF NoByteMissed

\* write,
LEMMA WriteKeeps ==
    ASSUME DriverInv, NEW u \in Users, NEW n \in Nat, serial_8250_write(u, n)
    PROVE  DriverInv'
<1> DEFINE data == [i \in 1..n |-> tx + i]
<1>1. /\ Opened /\ Running(u) /\ op[u] = "idle" /\ rx + tx + n <= MaxBytes
      /\ tx' = tx + n
      /\ write_queue' = kqueue_push(write_queue, data)
      /\ queued' = queued \o data
      /\ ier_tx' = TRUE
      /\ spoiled' = (spoiled \/ ~Sound(write_queue'))
      /\ WriteWait(u, write_queue')
      /\ UNCHANGED <<read_queue, size, num_read, halted, closed, rx, arrived, delivered, sent>>
  BY DEF serial_8250_write
<1>2. rx \in Nat /\ tx \in Nat
  BY DEF DriverInv, Flags
<1>3. data \in Seq(Nat)
  <2>1. data \in [1..n -> Nat]
    BY <1>2
  <2> QED BY <2>1
<1> HIDE DEF data
<1>4. write_queue \in Seq(Chunks)
  BY <1>1 DEF DriverInv, Bytes, Opened
<1>5. /\ write_queue' \in Seq(Chunks)
      /\ Sound(write_queue) /\ Sound(write_queue') => Content(write_queue') = Content(write_queue) \o data
  BY <1>1, <1>3, <1>4, PushIs
<1>6. /\ Sleepers' /\ crowded' \in BOOLEAN
      /\ \A v \in Users : Asleep(v)' /\ op'[v] = "read" => Asleep(v) /\ op[v] = "read"
      /\ (~crowded)' => ~crowded
  <2>1. PICK q : q = write_queue'
    OBVIOUS
  <2>2. op[u] # "read" /\ WriteWait(u, q)
    BY <1>1, <2>1
  <2> QED BY <1>1, <2>2, WriteWaitKeeps
<1>7. Flags'
  <2>1. tx' \in Nat /\ rx' \in Nat /\ rx' + tx' <= MaxBytes
    BY <1>1, <1>2
  <2> QED BY <1>1, <1>6, <2>1, Zenon DEF DriverInv, Flags
<1>8. Bytes'
  <2>1. write_queue' # Null /\ read_queue # Null
    BY <1>1, <1>5, QueueIsNotNull DEF Opened
  <2>2. ASSUME (~spoiled)'
        PROVE  Intact(read_queue, delivered, arrived) /\ Intact(write_queue', sent, queued')
    <3>1. ~spoiled /\ Sound(write_queue')
      BY <1>1, <2>2, Zenon
    <3>2. /\ Sound(write_queue) /\ sent \in Seq(Nat) /\ queued \in Seq(Nat)
          /\ sent \o Content(write_queue) = queued /\ Intact(read_queue, delivered, arrived)
      BY <1>1, <3>1 DEF DriverInv, Bytes, Intact, Opened
    <3>3. Content(write_queue') = Content(write_queue) \o data /\ Content(write_queue) \in Seq(Nat)
      BY <1>4, <1>5, <3>1, <3>2, ContentIs
    <3>4. (sent \o Content(write_queue)) \o data = sent \o (Content(write_queue) \o data)
      BY <1>3, <3>2, <3>3, Joined
    <3>5. queued \o data \in Seq(Nat)
      BY <1>3, <3>2, ConcatProperties
    <3> QED BY <1>1, <2>1, <3>1, <3>2, <3>3, <3>4, <3>5 DEF Intact
  <2>3. read_queue \in Seq(Chunks) \cup {Null}
    BY DEF DriverInv, Bytes
  <2> QED BY <1>1, <1>5, <2>1, <2>2, <2>3 DEF Bytes
<1>9. NoByteMissed'
  <2>1. Undisturbed' => Undisturbed
    BY <1>1, <1>6, Zenon DEF Undisturbed, Opened
  <2> QED BY <1>1, <1>6, <2>1, NoByteMissedKept DEF DriverInv
<1> QED BY <1>6, <1>7, <1>8, <1>9 DEF DriverInv

\* a write that finds no memory,
LEMMA WriteNoMemKeeps ==
    ASSUME DriverInv, NEW u \in Users, NEW n \in Nat, WriteNoMem(u, n)
    PROVE  DriverInv'
<1>1. /\ Opened /\ Running(u) /\ op[u] = "idle" /\ rx + tx + n <= MaxBytes
      /\ tx' = tx + n /\ halted' = (Room(write_queue) > 0) /\ ier_tx' = TRUE
      /\ WriteWait(u, write_queue)
      /\ UNCHANGED <<read_queue, write_queue, size, num_read, closed, rx,
                     arrived, delivered, queued, sent, spoiled>>
  BY DEF WriteNoMem
<1>2. /\ Sleepers' /\ crowded' \in BOOLEAN
      /\ \A v \in Users : Asleep(v)' /\ op'[v] = "read" => Asleep(v) /\ op[v] = "read"
      /\ (~crowded)' => ~crowded
  BY <1>1, WriteWaitKeeps
<1>3. Flags'
  <2>1. tx' \in Nat /\ rx' \in Nat /\ rx' + tx' <= MaxBytes
    <3>1. tx \in Nat /\ rx \in Nat
      BY DEF DriverInv, Flags
    <3> QED BY <1>1, <3>1
  <2>2. halted' \in BOOLEAN
    BY <1>1, SMT
  <2> QED BY <1>1, <1>2, <2>1, <2>2, Zenon DEF DriverInv, Flags
<1>4. Bytes'
  BY <1>1 DEF DriverInv, Bytes, Intact
<1>5. NoByteMissed'
  <2>1. Undisturbed' => Undisturbed
    BY <1>1, <1>2, Zenon DEF Undisturbed, Opened, Running
  <2> QED BY <1>1, <1>2, <2>1, NoByteMissedKept DEF DriverInv
<1> QED BY <1>2, <1>3, <1>4, <1>5 DEF DriverInv

\* a write that is woken,
LEMMA WriteResumedKeeps ==
    ASSUME DriverInv, NEW u \in Users, WriteResumed(u)
    PROVE  DriverInv'
<1>1. /\ Running(u) /\ op[u] = "write" /\ WriteWait(u, write_queue)
      /\ UNCHANGED <<read_queue, write_queue, ier_tx, size, num_read, halted, closed,
                     rx, tx, arrived, delivered, queued, sent, spoiled>>
  BY DEF WriteResumed
<1>2. /\ Sleepers' /\ crowded' \in BOOLEAN
      /\ \A v \in Users : Asleep(v)' /\ op'[v] = "read" => Asleep(v) /\ op[v] = "read"
      /\ (~crowded)' => ~crowded
  BY <1>1, WriteWaitKeeps
<1>3. Flags'
  BY <1>1, <1>2, Zenon DEF DriverInv, Flags
<1>4. Bytes'
  BY <1>1 DEF DriverInv, Bytes, Intact
<1>5. NoByteMissed'
  <2>1. Undisturbed' => Undisturbed
    BY <1>1, <1>2, Zenon DEF Undisturbed, Opened
  <2> QED BY <1>1, <1>2, <2>1, NoByteMissedKept DEF DriverInv
<1> QED BY <1>2, <1>3, <1>4, <1>5 DEF DriverInv

\* the interrupt that brings a byte for sysrq_hit,
LEMMA RxTakenKeeps ==
    ASSUME DriverInv, NEW kind \in Kinds, NEW mem \in BOOLEAN, RxIntr(kind, mem), sysrq_hit(kind)
    PROVE  DriverInv'
<1>1. /\ rx + tx < MaxBytes /\ rx' = rx + 1
      /\ spoiled' = (spoiled \/ (read_queue' # Null /\ ~Sound(read_queue')))
      /\ UNCHANGED <<read_queue, write_queue, tq, ier_tx, op, size, num_read, halted, closed, tx,
                     arrived, delivered, queued, sent, crowded>>
  BY DEF RxIntr, call_vars
<1>2. rx \in Nat /\ tx \in Nat /\ rx' \in Nat /\ rx' + tx' <= MaxBytes
  BY <1>1, SerialAssumption DEF DriverInv, Flags
<1>3. Flags'
  <2>1. spoiled' \in BOOLEAN
    BY <1>1, Zenon DEF DriverInv, Flags
  <2> QED BY <1>1, <1>2, <2>1, Zenon DEF DriverInv, Flags
<1>4. Sleepers'
  BY <1>1 DEF DriverInv, Sleepers, Asleep
<1>5. Bytes'
  BY <1>1 DEF DriverInv, Bytes, Intact
<1>6. NoByteMissed'
  BY <1>1 DEF DriverInv, NoByteMissed, Undisturbed, Opened, Asleep
<1> QED BY <1>3, <1>4, <1>5, <1>6 DEF DriverInv

\* the interrupt that brings a byte,
LEMMA RxIntrKeeps ==
    ASSUME DriverInv, NEW kind \in Kinds, NEW mem \in BOOLEAN, RxIntr(kind, mem), ~sysrq_hit(kind)
    PROVE  DriverInv'
<1>1. /\ ~halted /\ ~closed /\ rx + tx < MaxBytes /\ rx' = rx + 1
      /\ tq' = IF read_queue = Null THEN tq ELSE Wake
      /\ spoiled' = (spoiled \/ (read_queue' # Null /\ ~Sound(read_queue')))
      /\ UNCHANGED <<write_queue, ier_tx, op, size, num_read, halted, closed, tx, delivered,
                     queued, sent, crowded>>
  BY DEF RxIntr, call_vars
<1>2. \/ UNCHANGED <<read_queue, arrived>>
      \/ /\ read_queue # Null /\ read_queue' = kqueue_push(read_queue, <<rx'>>)
         /\ arrived' = Append(arrived, rx')
  BY DEF RxIntr, Receive
<1>3. rx \in Nat /\ tx \in Nat /\ rx' \in Nat /\ rx' + tx' <= MaxBytes
  BY <1>1, SerialAssumption DEF DriverInv, Flags
<1>4. /\ tq' \in Seq(Users) /\ IsInjective(tq') /\ Range(tq') \subseteq Range(tq)
      /\ Len(tq') <= Len(tq) /\ Len(tq) \in Nat
      /\ read_queue # Null /\ Len(tq) <= 1 => tq' = <<>>
  <2>1. tq \in Seq(Users) /\ IsInjective(tq)
    BY DEF DriverInv, Sleepers
  <2> QED BY <1>1, <2>1, WakeIs
<1>5. Flags'
  <2>1. spoiled' \in BOOLEAN
    BY <1>1, Zenon DEF DriverInv, Flags
  <2> QED BY <1>1, <1>3, <2>1, Zenon DEF DriverInv, Flags
<1>6. \/ UNCHANGED <<read_queue, arrived>>
      \/ /\ read_queue \in Seq(Chunks) /\ read_queue' \in Seq(Chunks) /\ read_queue # Null
         /\ read_queue' # Null /\ arrived' = Append(arrived, rx')
         /\ Sound(read_queue) /\ Sound(read_queue') => Content(read_queue') = Content(read_queue) \o <<rx'>>
  <2> SUFFICES ASSUME read_queue # Null, read_queue' = kqueue_push(read_queue, <<rx'>>),
                      arrived' = Append(arrived, rx')
               PROVE  /\ read_queue \in Seq(Chunks) /\ read_queue' \in Seq(Chunks)
                      /\ read_queue' # Null
                      /\ Sound(read_queue) /\ Sound(read_queue')
                           => Content(read_queue') = Content(read_queue) \o <<rx'>>
    BY <1>2
  <2>1. read_queue \in Seq(Chunks)
    BY DEF DriverInv, Bytes
  <2>2. PICK d : d = <<rx'>>
    OBVIOUS
  <2>3. d \in Seq(Nat)
    BY <1>3, <2>2
  <2>4. /\ read_queue' \in Seq(Chunks)
        /\ Sound(read_queue) /\ Sound(read_queue') => Content(read_queue') = Content(read_queue) \o d
    BY <2>1, <2>2, <2>3, PushIs
  <2> QED BY <2>1, <2>2, <2>4, QueueIsNotNull
<1>7. Sleepers'
  BY <1>1, <1>4, <1>6 DEF DriverInv, Sleepers, Asleep
<1>8. Bytes'
  <2>1. CASE UNCHANGED <<read_queue, arrived>>
    BY <1>1, <2>1 DEF DriverInv, Bytes, Intact
  <2>2. CASE ~UNCHANGED <<read_queue, arrived>>
    <3>1. /\ read_queue \in Seq(Chunks) /\ read_queue' \in Seq(Chunks) /\ read_queue # Null
          /\ read_queue' # Null /\ arrived' = Append(arrived, rx')
          /\ Sound(read_queue) /\ Sound(read_queue') => Content(read_queue') = Content(read_queue) \o <<rx'>>
      BY <1>6, <2>2
    <3>2. ASSUME (~spoiled)'
          PROVE  Intact(read_queue', delivered, arrived') /\ Intact(write_queue, sent, queued)
      <4>1. ~spoiled /\ Sound(read_queue')
        BY <1>1, <3>1, <3>2, Zenon
      <4>2. /\ Sound(read_queue) /\ delivered \in Seq(Nat) /\ arrived \in Seq(Nat)
            /\ delivered \o Content(read_queue) = arrived /\ Intact(write_queue, sent, queued)
        BY <3>1, <4>1 DEF DriverInv, Bytes, Intact
      <4>3. PICK d \in Seq(Nat) : d = <<rx'>>
        <5>1. <<rx'>> \in Seq(Nat)
          BY <1>3
        <5> QED BY <5>1
      <4>4. Content(read_queue') = Content(read_queue) \o d /\ Content(read_queue) \in Seq(Nat)
        BY <3>1, <4>1, <4>2, <4>3, ContentIs
      <4>5. (delivered \o Content(read_queue)) \o d = delivered \o (Content(read_queue) \o d)
        BY <4>2, <4>4, Joined
      <4>6. arrived' = arrived \o d /\ arrived' \in Seq(Nat)
        <5>1. Append(arrived, rx') = arrived \o <<rx'>>
          BY <1>3, <4>2, AppendIsConcat
        <5>2. arrived \o d \in Seq(Nat)
          BY <4>2, <4>3, ConcatProperties
        <5> QED BY <3>1, <4>3, <5>1, <5>2
      <4> QED BY <3>1, <4>1, <4>2, <4>4, <4>5, <4>6 DEF Intact
    <3>3. write_queue \in Seq(Chunks) \cup {Null}
      BY DEF DriverInv, Bytes
    <3> QED BY <1>1, <3>1, <3>2, <3>3 DEF Bytes
  <2> QED BY <2>1, <2>2
<1>9. NoByteMissed'
  <2> SUFFICES ASSUME Undisturbed' PROVE tq' = <<>>
    BY DEF NoByteMissed, Asleep, Range
  <2>1. ~crowded /\ read_queue # Null
    BY <1>1, <1>6 DEF Undisturbed, Opened
  <2> QED BY <1>4, <2>1 DEF DriverInv, Sleepers
<1> QED BY <1>5, <1>7, <1>8, <1>9 DEF DriverInv

\* the interrupt that asks for one,
LEMMA TxIntrKeeps ==
    ASSUME DriverInv, TxIntr
    PROVE  DriverInv'
<1>1. PICK p : p = kqueue_pull_tail(write_queue, 1)
  OBVIOUS
<1>2. /\ ~halted /\ ~closed /\ ier_tx /\ write_queue # Null
      /\ write_queue' = p.q /\ sent' = sent \o Emitted(p) /\ ier_tx' = GoesOn(p)
      /\ tq' = IF p.ret = 0 THEN Wake ELSE tq
      /\ UNCHANGED <<read_queue, op, size, num_read, halted, closed, rx, tx, arrived,
                     delivered, queued, spoiled, crowded>>
  BY <1>1 DEF TxIntr, call_vars
<1>3. write_queue \in Seq(Chunks)
  BY <1>2 DEF DriverInv, Bytes
<1>4. /\ p.q \in Seq(Chunks) /\ p.ret \in Nat
      /\ Sound(write_queue) => /\ Sound(p.q) /\ p.data \in Seq(Nat) /\ p.ret = Len(p.data)
                               /\ p.data \o Content(p.q) = Content(write_queue)
  BY <1>1, <1>3, PullIs
<1>5. /\ tq' \in Seq(Users) /\ IsInjective(tq') /\ Range(tq') \subseteq Range(tq)
      /\ Len(tq') <= Len(tq) /\ Len(tq) \in Nat
  <2>1. tq \in Seq(Users) /\ IsInjective(tq)
    BY DEF DriverInv, Sleepers
  <2> QED BY <1>2, <2>1, WakeIs
<1>6. Flags'
  <2>1. ier_tx' \in BOOLEAN
    BY <1>2, Zenon DEF GoesOn
  <2> QED BY <1>2, <2>1, Zenon DEF DriverInv, Flags
<1>7. Sleepers'
  BY <1>2, <1>5 DEF DriverInv, Sleepers, Asleep
<1>8. Bytes'
  <2>1. p.q # Null
    BY <1>4, QueueIsNotNull
  <2>2. ASSUME ~spoiled
        PROVE  Intact(read_queue, delivered, arrived) /\ Intact(p.q, sent', queued)
    <3>1. /\ Sound(write_queue) /\ sent \in Seq(Nat) /\ queued \in Seq(Nat)
          /\ sent \o Content(write_queue) = queued /\ Intact(read_queue, delivered, arrived)
      BY <1>2, <2>2 DEF DriverInv, Bytes, Intact
    <3>2. p.data \in Seq(Nat) /\ Content(p.q) \in Seq(Nat)
      BY <1>4, <3>1, ContentIs
    <3>3. Emitted(p) = p.data
      BY <1>4, <3>1, <3>2 DEF Emitted
    <3>4. sent' = sent \o p.data /\ sent' \in Seq(Nat)
      BY <1>2, <3>1, <3>2, <3>3, ConcatProperties
    <3>5. (sent \o p.data) \o Content(p.q) = sent \o (p.data \o Content(p.q))
      BY <3>1, <3>2, Joined
    <3>6. sent' \o Content(p.q) = queued
      BY <1>4, <3>1, <3>4, <3>5
    <3> QED BY <1>4, <2>1, <3>1, <3>4, <3>6 DEF Intact
  <2>3. read_queue \in Seq(Chunks) \cup {Null} /\ read_queue # Null
    BY <1>2 DEF DriverInv, Bytes
  <2> QED BY <1>2, <1>4, <2>1, <2>2, <2>3 DEF Bytes
<1>9. NoByteMissed'
  <2>1. Undisturbed' => Undisturbed
    BY <1>2, Zenon DEF Undisturbed, Opened
  <2>2. \A v \in Users : Asleep(v)' /\ op'[v] = "read" => Asleep(v) /\ op[v] = "read"
    BY <1>2, <1>5 DEF Asleep
  <2> QED BY <1>2, <2>1, <2>2, NoByteMissedKept DEF DriverInv
<1> QED BY <1>6, <1>7, <1>8, <1>9 DEF DriverInv

\* and a step of somebody else.
LEMMA SerialRests ==
    ASSUME DriverInv, UNCHANGED serial_vars
    PROVE  DriverInv'
<1> USE DEF DriverInv, serial_vars, call_vars
<1>1. Flags'
  BY Zenon DEF Flags
<1>2. Sleepers' /\ Bytes'
  BY DEF Sleepers, Bytes, Intact, Asleep
<1>3. NoByteMissed'
  BY DEF NoByteMissed, Undisturbed, Opened, Asleep
<1> QED BY <1>1, <1>2, <1>3

-----------------------------------------------------------------------------
(* The bytes that sysrq_hit takes. *)

\* A SYSRQ waits for its key when it was the last byte of the line.
Apart ==
    /\ rx \in Nat /\ sysrq_acq \in Nat /\ line \in Seq(Kinds) /\ Len(line) = rx
    /\ sysrq_acq # 0 <=> OPT_SYSRQ_DEBUG /\ rx > 0 /\ line[rx] = "sysrq"
    /\ arrived \in Seq(Nat) /\ SysrqApart

\* No operation but the interrupt that brings a byte has to do with it.
LEMMA ApartRests ==
    ASSUME Apart, UNCHANGED <<sysrq_vars, rx, arrived>>
    PROVE  Apart'
<1>1. UNCHANGED <<sysrq_acq, line, unqueued, rx, arrived>>
  BY DEF sysrq_vars
<1>2. \A k \in 1..rx : TakenBySysrq(k)' <=> TakenBySysrq(k)
  BY <1>1 DEF TakenBySysrq
<1> QED BY <1>1, <1>2 DEF Apart, SysrqApart

Hits(kinds, k) == OPT_SYSRQ_DEBUG /\ (kinds[k] = "sysrq" \/ (k > 1 /\ kinds[k - 1] = "sysrq"))

\* A byte that comes is numbered after those that came.
LEMMA ApartGrows ==
    ASSUME Apart, NEW kind \in Kinds, NEW mem \in BOOLEAN, RxIntr(kind, mem)
    PROVE  Apart'
<1> DEFINE n == rx + 1
           hit == sysrq_hit(kind)
           kept == {k \in 1..rx : ~Hits(line, k)}
<1>1. rx \in Nat /\ n \in Nat /\ rx' = n /\ line' = Append(line, kind) /\ sysrq_acq' = Acquired(kind)
  BY DEF RxIntr, Apart
<1>2. /\ line' \in Seq(Kinds) /\ Len(line') = n /\ line'[n] = kind
      /\ \A k \in 1..rx : line'[k] = line[k]
  BY <1>1 DEF Apart
<1>3. sysrq_acq' \in Nat /\ (sysrq_acq' # 0 <=> OPT_SYSRQ_DEBUG /\ kind = "sysrq")
  BY <1>1 DEF Apart, Acquired, sysrq_hit
<1>4. \A k \in 1..rx : Hits(line', k) <=> Hits(line, k)
  <2> TAKE k \in 1..rx
  <2>1. line'[k] = line[k] /\ (k > 1 => line'[k - 1] = line[k - 1])
    BY <1>1, <1>2
  <2> QED BY <2>1 DEF Hits
<1>5. Hits(line', n) <=> hit
  <2>1. n > 1 <=> rx > 0
    BY <1>1
  <2>2. rx > 0 => line'[n - 1] = line[rx]
    BY <1>1, <1>2
  <2>3. Hits(line', n) <=> OPT_SYSRQ_DEBUG /\ (kind = "sysrq" \/ (rx > 0 /\ line[rx] = "sysrq"))
    BY <1>2, <2>1, <2>2 DEF Hits
  <2> QED BY <2>3 DEF Apart, sysrq_hit
<1>6. {k \in 1..n : ~Hits(line', k)} = IF hit THEN kept ELSE kept \cup {n}
  <2>1. 1..n = 1..rx \cup {n} /\ n \notin 1..rx
    BY <1>1
  <2> HIDE DEF n, hit
  <2> QED BY <1>4, <1>5, <2>1
<1> HIDE DEF kept
<1>9. /\ SysrqApart => Range(arrived) \cup unqueued = kept
      /\ SysrqApart' <=> /\ Range(arrived') \cup unqueued' = {k \in 1..n : ~Hits(line', k)}
                         /\ \A i, j \in 1..Len(arrived') : i < j => arrived'[i] < arrived'[j]
  BY <1>1 DEF SysrqApart, TakenBySysrq, Hits, kept
<1>7. CASE UNCHANGED arrived
  <2>1. unqueued' = IF hit THEN unqueued ELSE unqueued \cup {n}
    BY <1>7, <1>1 DEF RxIntr, Apart
  <2>2. SysrqApart'
    <3>1. Range(arrived') = Range(arrived) /\ Len(arrived') = Len(arrived)
      BY <1>7
    <3>2. \A i, j \in 1..Len(arrived') : i < j => arrived'[i] < arrived'[j]
      BY <1>7 DEF Apart, SysrqApart
    <3>3. Range(arrived) \cup unqueued = kept
      BY <1>9 DEF Apart
    <3> HIDE DEF n, hit
    <3> QED BY <1>6, <1>9, <2>1, <3>1, <3>2, <3>3
  <2> QED BY <1>1, <1>2, <1>3, <1>7, <2>2 DEF Apart
<1>8. CASE arrived' = Append(arrived, n) /\ unqueued' = unqueued /\ ~hit
  <2>1. /\ arrived' \in Seq(Nat) /\ Len(arrived') = Len(arrived) + 1 /\ Len(arrived) \in Nat
        /\ \A i \in 1..Len(arrived) : arrived'[i] = arrived[i]
        /\ arrived'[Len(arrived) + 1] = n
    BY <1>1, <1>8 DEF Apart
  <2>2. Range(arrived') = Range(arrived) \cup {n}
    <3>1. DOMAIN arrived = 1..Len(arrived) /\ DOMAIN arrived' = 1..Len(arrived')
      BY <2>1 DEF Apart
    <3>2. 1..Len(arrived') = 1..Len(arrived) \cup {Len(arrived) + 1}
      BY <2>1
    <3> HIDE DEF n
    <3> QED BY <2>1, <3>1, <3>2 DEF Range
  <2>3. Range(arrived) \subseteq 1..rx
    BY DEF Apart, SysrqApart
  <2>4. \A i \in 1..Len(arrived) : arrived[i] \in 1..rx
    BY <2>3 DEF Range, Apart
  <2>5. \A i, j \in 1..Len(arrived') : i < j => arrived'[i] < arrived'[j]
    <3> SUFFICES ASSUME NEW i \in 1..Len(arrived'), NEW j \in 1..Len(arrived'), i < j
                 PROVE  arrived'[i] < arrived'[j]
      OBVIOUS
    <3>1. i \in 1..Len(arrived)
      BY <2>1
    <3>2. CASE j \in 1..Len(arrived)
      BY <2>1, <3>1, <3>2 DEF Apart, SysrqApart
    <3>3. CASE j = Len(arrived) + 1
      BY <1>1, <2>1, <2>4, <3>1, <3>3
    <3> QED BY <2>1, <3>2, <3>3
  <2>6. SysrqApart'
    <3>1. Range(arrived) \cup unqueued = kept
      BY <1>9 DEF Apart
    <3> HIDE DEF n, hit
    <3> QED BY <1>6, <1>8, <1>9, <2>2, <2>5, <3>1
  <2> QED BY <1>1, <1>2, <1>3, <1>8, <2>1, <2>6 DEF Apart
<1> QED BY <1>1, <1>7, <1>8 DEF RxIntr

SerialInv == DriverInv /\ Apart

\* SerialInv is an invariant of the serial driver.
THEOREM SerialInvariance == SerialSpec => []SerialInv
<1>1. SerialInit => SerialInv
  <2>1. SerialInit => Apart
    BY DEF SerialInit, Apart, SysrqApart, Range, Kinds
  <2> QED BY <2>1, SerialStart DEF SerialInv
<1>2. SerialInv /\ [SerialNext]_serial_vars => SerialInv'
  <2> SUFFICES ASSUME SerialInv, [SerialNext]_serial_vars PROVE SerialInv'
    OBVIOUS
  <2> USE DEF SerialInv
  <2>1. CASE UNCHANGED serial_vars
    <3>1. UNCHANGED <<sysrq_vars, rx, arrived>>
      BY <2>1 DEF serial_vars
    <3> QED BY <2>1, <3>1, SerialRests, ApartRests
  <2>2. ASSUME NEW second \in BOOLEAN, serial_8250_open(second) PROVE SerialInv'
    <3>1. UNCHANGED <<sysrq_vars, rx, arrived>>
      BY <2>2 DEF serial_8250_open
    <3> QED BY <2>2, <3>1, OpenKeeps, ApartRests
  <2>3. ASSUME NEW u \in Users, serial_8250_close(u) PROVE SerialInv'
    <3>1. UNCHANGED <<sysrq_vars, rx, arrived>>
      BY <2>3 DEF serial_8250_close
    <3> QED BY <2>3, <3>1, CloseKeeps, ApartRests
  <2>4. ASSUME NEW u \in Users, ReadAgain(u) \/ \E n \in 1..MaxSize : serial_8250_read(u, n)
        PROVE  SerialInv'
    <3>1. UNCHANGED <<sysrq_vars, rx, arrived>>
      BY <2>4 DEF ReadAgain, serial_8250_read, ReadTurn
    <3> QED BY <2>4, <3>1, ReadKeeps, ApartRests
  <2>5. ASSUME NEW u \in Users, NEW n \in 0..MaxSize, serial_8250_write(u, n) \/ WriteNoMem(u, n)
        PROVE  SerialInv'
    <3>1. n \in Nat
      BY SerialAssumption
    <3>2. UNCHANGED <<sysrq_vars, rx, arrived>>
      BY <2>5 DEF serial_8250_write, WriteNoMem
    <3> QED BY <2>5, <3>1, <3>2, WriteKeeps, WriteNoMemKeeps, ApartRests
  <2>6. ASSUME NEW u \in Users, WriteResumed(u) PROVE SerialInv'
    <3>1. UNCHANGED <<sysrq_vars, rx, arrived>>
      BY <2>6 DEF WriteResumed
    <3> QED BY <2>6, <3>1, WriteResumedKeeps, ApartRests
  <2>7. ASSUME NEW kind \in Kinds, NEW mem \in BOOLEAN, RxIntr(kind, mem) PROVE SerialInv'
    BY <2>7, RxIntrKeeps, RxTakenKeeps, ApartGrows
  <2>8. CASE TxIntr
    <3>1. UNCHANGED <<sysrq_vars, rx, arrived>>
      BY <2>8 DEF TxIntr
    <3> QED BY <2>8, <3>1, TxIntrKeeps, ApartRests
  <2> QED BY <2>1, <2>2, <2>3, <2>4, <2>5, <2>6, <2>7, <2>8 DEF SerialNext, UserStep
<1> QED BY <1>1, <1>2, PTL DEF SerialSpec

\* Bytes between programs and the line come in order, none lost and none twice,
\* and no reader sleeps while bytes wait (serial_8250_read, serial_8250_write,
\* serial_8250_intr); sysrq_hit keeps each SYSRQ and the byte after it from the
\* readers, and no other.
THEOREM SerialsAreSound == SerialSpec => []SerialSound
<1>1. SerialInv => SerialSound
  BY DriverMeans DEF SerialInv, SerialSound, Apart
<1> QED BY <1>1, SerialInvariance, PTL

-----------------------------------------------------------------------------
(***************************************************************************)
(* The keyboard, for every size of the ring buffer: keys come out in the   *)
(* order they were pressed, and the reader does not sleep on a key.        *)
(***************************************************************************)

Size == KEYBOARD_BUFSIZE

\* Where the key is that lies j places after the start of the buffer.
Pos(j) == IF j >= Size THEN j - Size ELSE j

\* The part of the ring between the indices is what was not read yet: the
\* indices are as far apart, and the keys are there in their order.
RingHolds ==
    /\ Len(unread) <= Size - 1
    /\ write_idx \in {read_idx + Len(unread), read_idx + Len(unread) - Size}
    /\ \A k \in 1..Len(unread) : key_buf[Pos(read_idx + k - 1)] = unread[k]
    \* a rewound index is advanced at once, so only both are 0, after open
    /\ write_idx = 0 => read_idx = 0

(***************************************************************************)
(* The inductive invariant.  The indices alone do not tell a full ring     *)
(* from an empty one; before the first overrun the history does.           *)
(***************************************************************************)
KbdInv ==
    /\ KbdTypeOK
    /\ ~overrun => RingHolds /\ ~mixed
    /\ reader # "idle" => users = 1

LEMMA InitKbdInv == KbdInit => KbdInv
<1> SUFFICES ASSUME KbdInit PROVE KbdInv
  OBVIOUS
<1>1. KbdTypeOK
  BY KbdAssumption DEF KbdInit, KbdTypeOK, Keys
<1>2. RingHolds
  BY KbdAssumption DEF KbdInit, RingHolds, Size
<1> QED BY <1>1, <1>2 DEF KbdInit, KbdInv

\* pckbd_open empties the ring.
LEMMA KbdOpenKeeps == ASSUME KbdInv, pckbd_open PROVE KbdInv'
<1>1. KbdTypeOK'
  BY KbdAssumption DEF pckbd_open, KbdInv, KbdTypeOK
<1>2. RingHolds'
  BY KbdAssumption DEF pckbd_open, RingHolds, Size
<1> QED BY <1>1, <1>2 DEF pckbd_open, KbdInv

\* pckbd_intr with the device open puts the key behind those not read, in a
\* place none of them has, unless there were Size - 1 of them.
LEMMA IntrRing ==
    ASSUME KbdInv, pckbd_intr, users # 0, ~overrun'
    PROVE  RingHolds' /\ write_idx' \in 0..Size
<1> DEFINE w == Rewind(write_idx)
           L == Len(unread)
<1>1. /\ read_idx \in 0..Size /\ write_idx \in 0..Size /\ unread \in Seq(Keys)
      /\ key_buf \in [0..(Size - 1) -> Keys] /\ pressed \in Keys /\ overrun \in BOOLEAN
      /\ Size \in Nat \ {0, 1} /\ L \in Nat
  BY KbdAssumption DEF KbdInv, KbdTypeOK, Size
<1>2. ~overrun /\ L < Size - 1
  <2>1. ~overrun /\ ~(L >= Size - 1)
    BY Zenon DEF pckbd_intr, Size
  <2> QED BY <1>1, <2>1
<1>3. /\ write_idx \in {read_idx + L, read_idx + L - Size}
      /\ write_idx = 0 => read_idx = 0
      /\ \A k \in 1..L : key_buf[Pos(read_idx + k - 1)] = unread[k]
  BY <1>2 DEF KbdInv, RingHolds
<1>4. w = Pos(read_idx + L) /\ w \in 0..(Size - 1)
  BY <1>1, <1>2, <1>3 DEF Rewind, Pos, Size
<1>5. w + 1 # read_idx
  BY <1>1, <1>2, <1>3 DEF Rewind, Size
<1>6. /\ write_idx' = w + 1 /\ read_idx' = read_idx
      /\ key_buf' = [key_buf EXCEPT ![w] = pressed]
      /\ unread' = Append(unread, pressed)
  BY <1>1, <1>5 DEF pckbd_intr
<1>7. Len(unread') = L + 1 /\ Len(unread') <= Size - 1
  BY <1>1, <1>2, <1>6
<1>8. write_idx' \in {read_idx + (L + 1), read_idx + (L + 1) - Size}
  BY <1>1, <1>2, <1>4, <1>6 DEF Pos
<1>9. ASSUME NEW k \in 1..(L + 1) PROVE key_buf'[Pos(read_idx + k - 1)] = unread'[k]
  <2>1. CASE k = L + 1
    BY <1>1, <1>4, <1>6, <2>1
  <2>2. CASE k \in 1..L
    <3>1. Pos(read_idx + k - 1) # w /\ Pos(read_idx + k - 1) \in 0..(Size - 1)
      BY <1>1, <1>2, <1>4, <2>2 DEF Pos
    <3>2. unread'[k] = unread[k]
      BY <1>1, <1>6, <2>2
    <3> QED BY <1>1, <1>3, <1>6, <2>2, <3>1, <3>2
  <2> QED BY <1>1, <2>1, <2>2
<1>10. write_idx' # 0 /\ write_idx' \in 0..Size
  BY <1>1, <1>4, <1>6
<1> QED BY <1>6, <1>7, <1>8, <1>9, <1>10 DEF RingHolds, Pos

LEMMA IntrKeeps == ASSUME KbdInv, pckbd_intr PROVE KbdInv'
<1>1. CASE users = 0
  <2>1. pressed' \in Keys
    BY KbdAssumption DEF pckbd_intr, KbdInv, KbdTypeOK, Keys
  <2> QED BY <1>1, <2>1 DEF pckbd_intr, KbdInv, KbdTypeOK, RingHolds
<1>2. CASE users # 0
  <2> DEFINE w == Rewind(write_idx)
  <2>1. /\ read_idx \in 0..Size /\ write_idx \in 0..Size /\ unread \in Seq(Keys)
        /\ key_buf \in [0..(Size - 1) -> Keys] /\ pressed \in Keys
        /\ reader \in {"idle", "dequeue", "asleep"} /\ users \in {0, 1}
        /\ Size \in Nat \ {0, 1} /\ overrun \in BOOLEAN /\ mixed \in BOOLEAN
    BY KbdAssumption DEF KbdInv, KbdTypeOK, Size
  <2>2. pressed' \in Keys
    BY <2>1 DEF pckbd_intr, Keys, Size
  <2>3. w \in 0..(Size - 1)
    BY <2>1 DEF Rewind, Size
  <2>4. write_idx' \in 0..Size /\ key_buf' \in [0..(Size - 1) -> Keys]
    BY <1>2, <2>1, <2>3 DEF pckbd_intr
  <2>5. unread' \in Seq(Keys) /\ overrun' \in BOOLEAN /\ mixed' = mixed /\ (overrun => overrun')
    <3>1. overrun' \in BOOLEAN /\ mixed' = mixed /\ (overrun => overrun')
      BY <1>2, <2>1, Zenon DEF pckbd_intr
    <3>2. unread' = <<>> \/ unread' = Append(unread, pressed)
      BY <1>2, Zenon DEF pckbd_intr
    <3>3. <<>> \in Seq(Keys) /\ Append(unread, pressed) \in Seq(Keys)
      BY <2>1
    <3> QED BY <3>1, <3>2, <3>3, Zenon
  <2>6. /\ users' = users /\ read_idx' = read_idx
        /\ reader' \in {"idle", "dequeue", "asleep"}
    BY <1>2, <2>1 DEF pckbd_intr, Awake
  <2>7. KbdTypeOK'
    BY <2>1, <2>2, <2>4, <2>5, <2>6 DEF KbdTypeOK, Size
  <2>8. ~overrun' => RingHolds' /\ ~mixed'
    BY <1>2, <2>5, IntrRing DEF KbdInv
  <2> QED BY <1>2, <2>1, <2>6, <2>7, <2>8 DEF KbdInv
<1> QED BY <1>1, <1>2

\* pckbd_read with keys in the ring returns the oldest.
LEMMA ReadRing ==
    ASSUME KbdInv, pckbd_read, read_idx # write_idx, ~overrun
    PROVE  RingHolds' /\ ~mixed'
<1> DEFINE r == Rewind(read_idx)
           L == Len(unread)
<1>1. /\ read_idx \in 0..Size /\ write_idx \in 0..Size /\ unread \in Seq(Keys)
      /\ Size \in Nat \ {0, 1} /\ L \in Nat
  BY KbdAssumption DEF KbdInv, KbdTypeOK, Size
<1>2. /\ L <= Size - 1 /\ ~mixed
      /\ write_idx \in {read_idx + L, read_idx + L - Size}
      /\ write_idx = 0 => read_idx = 0
      /\ \A k \in 1..L : key_buf[Pos(read_idx + k - 1)] = unread[k]
  BY DEF KbdInv, RingHolds
<1>3. L > 0
  BY <1>1, <1>2
<1>4. unread # <<>> /\ Head(unread) = unread[1]
  BY <1>1, <1>3
<1>5. /\ read_idx' = r + 1 /\ unread' = Tail(unread)
      /\ mixed' = (mixed \/ unread = <<>> \/ Head(unread) # key_buf[r])
      /\ write_idx' = write_idx /\ key_buf' = key_buf
  BY <1>4 DEF pckbd_read
<1>6. Pos(read_idx + 1 - 1) = r
  BY <1>1 DEF Pos, Rewind, Size
<1>7. ~mixed'
  <2>1. key_buf[Pos(read_idx + 1 - 1)] = unread[1]
    BY <1>1, <1>2, <1>3
  <2> QED BY <1>2, <1>4, <1>5, <1>6, <2>1
<1>8. /\ Len(unread') = L - 1
      /\ \A k \in 1..(L - 1) : unread'[k] = unread[k + 1]
  BY <1>1, <1>3, <1>4, <1>5
<1>9. write_idx \in {(r + 1) + (L - 1), (r + 1) + (L - 1) - Size}
  <2>1. CASE read_idx = Size
    <3>1. r = 0 /\ write_idx = L
      BY <1>1, <1>2, <1>3, <2>1 DEF Rewind, Size
    <3> QED BY <1>1, <3>1
  <2>2. CASE read_idx # Size
    <3>1. r = read_idx
      BY <2>2 DEF Rewind, Size
    <3> QED BY <1>1, <1>2, <3>1
  <2> QED BY <2>1, <2>2
<1>10. ASSUME NEW k \in 1..(L - 1) PROVE key_buf[Pos((r + 1) + k - 1)] = unread[k + 1]
  <2>1. Pos((r + 1) + k - 1) = Pos(read_idx + (k + 1) - 1)
    BY <1>1, <1>2 DEF Pos, Rewind, Size
  <2> QED BY <1>1, <1>2, <2>1
<1>11. write_idx # 0
  BY <1>1, <1>2
<1> QED BY <1>1, <1>2, <1>5, <1>7, <1>8, <1>9, <1>10, <1>11 DEF RingHolds, Pos

LEMMA KbdReadKeeps == ASSUME KbdInv, pckbd_read PROVE KbdInv'
<1>1. CASE read_idx = write_idx
  <2>1. KbdTypeOK'
    BY <1>1 DEF pckbd_read, KbdInv, KbdTypeOK
  <2>2. ~overrun' => RingHolds' /\ ~mixed'
    BY <1>1 DEF pckbd_read, KbdInv, RingHolds
  <2> QED BY <2>1, <2>2 DEF pckbd_read, KbdInv
<1>2. CASE read_idx # write_idx
  <2>1. read_idx' \in 0..KEYBOARD_BUFSIZE
    BY <1>2, KbdAssumption DEF pckbd_read, Rewind, KbdInv, KbdTypeOK
  <2>2. unread' \in Seq(Keys)
    BY <1>2 DEF pckbd_read, KbdInv, KbdTypeOK
  <2>3. mixed' \in BOOLEAN
    BY <1>2 DEF pckbd_read, KbdInv, KbdTypeOK
  <2>4. KbdTypeOK'
    BY <1>2, <2>1, <2>2, <2>3 DEF pckbd_read, KbdInv, KbdTypeOK
  <2>5. ~overrun' => RingHolds' /\ ~mixed'
    BY <1>2, ReadRing DEF pckbd_read
  <2> QED BY <1>2, <2>4, <2>5 DEF pckbd_read, KbdInv
<1> QED BY <1>1, <1>2

\* pc-kbd.c: the invariant holds in every state.
THEOREM KbdInvariance == KbdSpec => []KbdInv
<1>1. KbdInv /\ [KbdNext]_kbd_vars => KbdInv'
  <2> SUFFICES ASSUME KbdInv, [KbdNext]_kbd_vars PROVE KbdInv'
    OBVIOUS
  <2>1. CASE pckbd_close
    BY <2>1 DEF pckbd_close, KbdInv, KbdTypeOK, RingHolds
  <2>2. CASE ReadSleep
    BY <2>2 DEF ReadSleep, KbdInv, KbdTypeOK, RingHolds
  <2>3. CASE UNCHANGED kbd_vars
    BY <2>3 DEF kbd_vars, KbdInv, KbdTypeOK, RingHolds
  <2> QED BY <2>1, <2>2, <2>3, KbdOpenKeeps, IntrKeeps, KbdReadKeeps DEF KbdNext
<1> QED BY <1>1, InitKbdInv, PTL DEF KbdSpec

\* Neither index ever leaves the buffer.
THEOREM IndicesStayInside == KbdSpec => []KbdTypeOK
<1>1. KbdInv => KbdTypeOK
  BY DEF KbdInv
<1> QED BY <1>1, KbdInvariance, PTL

\* pckbd_read returns keys in the order pckbd_intr took them, for a buffer of
\* any size, as long as none came to a ring that was full.
THEOREM KeysComeInOrder == KbdSpec => []KeysInOrder
<1>1. KbdInv => KeysInOrder
  BY DEF KbdInv, KeysInOrder
<1> QED BY <1>1, KbdInvariance, PTL

\* A reader in a system call, with interrupts off between its look at the
\* indices and its sleep, does not sleep while the indices differ.
THEOREM ReaderMissesNoKey ==
    ASSUME Preemptible = FALSE
    PROVE  KbdSpec => []NoKeyMissed
<1> DEFINE Inv == reader # "idle" => read_idx = write_idx
<1>1. KbdInit => Inv
  BY DEF KbdInit
<1>2. KbdInv /\ Inv /\ [KbdNext]_kbd_vars => Inv'
  <2> SUFFICES ASSUME KbdInv, Inv, [KbdNext]_kbd_vars PROVE Inv'
    OBVIOUS
  <2>1. CASE pckbd_open
    BY <2>1 DEF pckbd_open
  <2>2. CASE pckbd_close
    BY <2>2 DEF pckbd_close
  <2>3. CASE pckbd_intr
    BY <2>3 DEF pckbd_intr, Awake, KbdInv, KbdTypeOK
  <2>4. CASE pckbd_read
    BY <2>4 DEF pckbd_read
  <2>5. CASE ReadSleep
    BY <2>5 DEF ReadSleep
  <2>6. CASE UNCHANGED kbd_vars
    BY <2>6 DEF kbd_vars
  <2> QED BY <2>1, <2>2, <2>3, <2>4, <2>5, <2>6 DEF KbdNext
<1>3. Inv => NoKeyMissed
  BY DEF NoKeyMissed
<1> QED BY <1>1, <1>2, <1>3, KbdInvariance, PTL DEF KbdSpec

\* pckbd_intr and pckbd_read together, for a ring of any size and a reader with
\* interrupts off.
THEOREM KeysAreSound ==
    ASSUME Preemptible = FALSE
    PROVE  KbdSpec => []KeysSound
<1>1. KbdSpec => []NoKeyMissed
  BY ReaderMissesNoKey
<1>2. KbdTypeOK /\ KeysInOrder /\ NoKeyMissed => KeysSound
  BY DEF KeysSound
<1> QED BY <1>1, <1>2, IndicesStayInside, KeysComeInOrder, PTL

-----------------------------------------------------------------------------
(* The screen *)

(***************************************************************************)
(* What lies after the pen is blank, so the line that vga_scroll clears is *)
(* the next line of the paper; and no more lines are torn off than         *)
(* characters were printed, so the paper is long enough.                   *)
(***************************************************************************)
VgaInv ==
    /\ cursor \in Nat /\ torn \in Nat /\ printed \in 0..MaxPrinted /\ torn <= printed
    /\ screen \in [0..(Cells - 1) -> Chars \cup {Blank}]
    /\ paper \in [0..(PaperCells - 1) -> Chars \cup {Blank}]
    /\ \A j \in 0..(PaperCells - 1) : j >= pen => paper[j] = Blank
    /\ ScreenIsWindow

\* The screen has a line, and its cells are those of its lines.
LEMMA Sizes ==
    /\ VGA_COLUMNS \in Nat \ {0} /\ Cells \in Nat /\ Cells >= VGA_COLUMNS
    /\ MaxPrinted \in Nat /\ PaperCells \in Nat
<1>1. VGA_COLUMNS \in Nat \ {0} /\ VGA_LINES \in Nat \ {0} /\ MaxPrinted \in Nat
  BY VgaAssumption
<1>2. VGA_LINES * VGA_COLUMNS >= VGA_COLUMNS /\ VGA_LINES * VGA_COLUMNS \in Nat
  BY <1>1
<1>3. (MaxPrinted + 1) * VGA_COLUMNS \in Nat
  BY <1>1
<1> QED BY <1>1, <1>2, <1>3 DEF Cells, PaperCells

\* A line begins at or before each of its cells, less than a line away.
LEMMA Lines1 ==
    ASSUME NEW c \in Nat
    PROVE  LineStart(c) \in Nat /\ LineStart(c) <= c /\ c < LineStart(c) + VGA_COLUMNS
<1>1. VGA_COLUMNS \in Nat \ {0}
  BY Sizes
<1>2. c % VGA_COLUMNS \in 0..(VGA_COLUMNS - 1) /\ c % VGA_COLUMNS <= c
  BY <1>1
<1> QED BY <1>1, <1>2 DEF LineStart

\* Lines begin at the same column on every sheet.
LEMMA LinesShift ==
    ASSUME NEW c \in Nat, NEW t \in Nat
    PROVE  LineStart(c + t * VGA_COLUMNS) = LineStart(c) + t * VGA_COLUMNS
<1> DEFINE w == VGA_COLUMNS
<1>1. w \in Nat \ {0}
  BY Sizes
<1> HIDE DEF w
<1>2. t * w \in Nat
  BY <1>1
<1>3. (c + t * w) % w = c % w
  <2> DEFINE a == c \div w
             b == (c + t * w) \div w
             r == c % w
             s == (c + t * w) % w
             k == b - a - t
  <2>1. a \in Int /\ r \in 0..(w - 1) /\ c = a * w + r
    BY <1>1
  <2>2. b \in Int /\ s \in 0..(w - 1) /\ c + t * w = b * w + s
    BY <1>1, <1>2
  <2> HIDE DEF a, b, r, s
  <2>3. k \in Int /\ k * w = r - s
    BY <1>1, <1>2, <2>1, <2>2
  <2> HIDE DEF k
  <2>4. CASE k >= 1
    <3>1. k * w >= w
      BY <1>1, <2>3, <2>4
    <3> QED BY <1>1, <2>1, <2>2, <2>3, <3>1
  <2>5. CASE k <= -1
    <3>1. k * w <= -w
      BY <1>1, <2>3, <2>5
    <3> QED BY <1>1, <2>1, <2>2, <2>3, <3>1
  <2>6. CASE k = 0
    <3>1. r - s = 0
      BY <1>1, <2>3, <2>6
    <3>2. r = s
      BY <1>1, <2>1, <2>2, <3>1
    <3> QED BY <3>2 DEF r, s
  <2> QED BY <2>3, <2>4, <2>5, <2>6
<1> QED BY <1>1, <1>2, <1>3 DEF LineStart, w

\* vga_scroll shows the next line of the paper.
LEMMA ScrollFollows ==
    ASSUME VgaInv, printed < MaxPrinted
    PROVE  /\ vga_scroll(screen) \in [0..(Cells - 1) -> Chars \cup {Blank}]
           /\ \A i \in 0..(Cells - 1) :
                 vga_scroll(screen)[i] = paper[i + (torn * VGA_COLUMNS + VGA_COLUMNS)]
<1> DEFINE w == VGA_COLUMNS
           z == torn * w
<1>1. /\ w \in Nat \ {0} /\ Cells \in Nat /\ Cells >= w /\ PaperCells \in Nat
      /\ MaxPrinted \in Nat
  BY Sizes
<1>2. /\ cursor \in Nat /\ torn \in Nat /\ printed \in Nat /\ torn <= printed /\ cursor <= Cells
      /\ z \in Nat /\ pen = cursor + z /\ (torn + 1) * w = z + w
  BY <1>1 DEF VgaInv, ScreenIsWindow
<1>3. z + w + Cells <= PaperCells
  <2>1. (torn + 1) * w <= (MaxPrinted + 1) * w
    BY <1>1, <1>2
  <2> QED BY <1>1, <1>2, <2>1 DEF PaperCells
<1>4. screen \in [0..(Cells - 1) -> Chars \cup {Blank}]
  BY DEF VgaInv
<1>5. \A i \in 0..(Cells - 1) : screen[i] = paper[i + z]
  BY DEF VgaInv, ScreenIsWindow
<1>6. \A j \in 0..(PaperCells - 1) : j >= pen => paper[j] = Blank
  BY DEF VgaInv
<1>7. vga_scroll(screen) =
        [i \in 0..(Cells - 1) |-> IF i < Cells - w THEN screen[i + w] ELSE Blank]
  BY DEF vga_scroll
<1> HIDE DEF w, z
<1>8. ASSUME NEW i \in 0..(Cells - 1)
      PROVE  /\ vga_scroll(screen)[i] \in Chars \cup {Blank}
             /\ vga_scroll(screen)[i] = paper[i + (z + w)]
  <2>1. CASE i < Cells - w
    <3>1. i + w \in 0..(Cells - 1) /\ (i + w) + z = i + (z + w)
      BY <1>1, <1>2, <2>1
    <3>2. vga_scroll(screen)[i] = screen[i + w]
      BY <1>7, <2>1
    <3> QED BY <1>4, <1>5, <3>1, <3>2
  <2>2. CASE ~(i < Cells - w)
    <3>1. i + (z + w) \in 0..(PaperCells - 1) /\ i + (z + w) >= pen
      BY <1>1, <1>2, <1>3, <2>2
    <3>2. vga_scroll(screen)[i] = Blank
      BY <1>7, <2>2
    <3> QED BY <1>6, <3>1, <3>2
  <2> QED BY <2>1, <2>2
<1> QED BY <1>7, <1>8 DEF w, z

\* A line feed: the cursor goes to the next line, or a line is torn off.
LEMMA NewLineKeeps ==
    ASSUME VgaInv, early_vga_put_char(Newline)
    PROVE  VgaInv'
<1> DEFINE w == VGA_COLUMNS
           z == torn * w
<1>1. /\ w \in Nat \ {0} /\ Cells \in Nat /\ Cells >= w /\ PaperCells \in Nat
      /\ MaxPrinted \in Nat
  BY Sizes
<1>2. /\ cursor \in Nat /\ torn \in Nat /\ printed \in Nat /\ torn <= printed /\ cursor <= Cells
      /\ z \in Nat /\ pen = cursor + z /\ (torn + 1) * w = z + w
  BY <1>1 DEF VgaInv, ScreenIsWindow
<1>3. /\ NewLine /\ printed < MaxPrinted /\ printed' = printed + 1
      /\ pen' = LineStart(pen) + w /\ paper' = paper
  BY DEF early_vga_put_char
<1>4. /\ LineStart(cursor) \in Nat /\ LineStart(cursor) <= cursor
      /\ cursor < LineStart(cursor) + w /\ LineStart(pen) = LineStart(cursor) + z
  BY <1>2, Lines1, LinesShift
<1> HIDE DEF w, z
<1>6. /\ \A j \in 0..(PaperCells - 1) : j >= pen' => paper'[j] = Blank
      /\ printed' \in 0..MaxPrinted
  BY <1>1, <1>2, <1>3, <1>4 DEF VgaInv
<1>7. CASE cursor < Cells - w
  <2>1. cursor' = LineStart(cursor) + w /\ screen' = screen /\ torn' = torn
    BY <1>3, <1>7 DEF NewLine, w
  <2>2. /\ cursor' \in 0..Cells /\ pen' = cursor' + torn' * w /\ cursor' \in Nat
        /\ torn' <= printed'
    BY <1>1, <1>2, <1>3, <1>4, <1>7, <2>1 DEF z
  <2>3. \A i \in 0..(Cells - 1) : screen'[i] = paper'[i + torn' * w]
    BY <1>3, <2>1 DEF VgaInv, ScreenIsWindow, w
  <2> QED BY <1>2, <1>3, <1>6, <2>1, <2>2, <2>3 DEF VgaInv, ScreenIsWindow, w
<1>8. CASE ~(cursor < Cells - w)
  <2>1. cursor' = LineStart(cursor) /\ screen' = vga_scroll(screen) /\ torn' = torn + 1
    BY <1>3, <1>8 DEF NewLine, w
  <2>2. /\ cursor' \in 0..Cells /\ pen' = cursor' + (z + w) /\ cursor' \in Nat
        /\ torn' <= printed' /\ torn' \in Nat /\ torn' * w = z + w
    BY <1>1, <1>2, <1>3, <1>4, <2>1
  <2>3. /\ screen' \in [0..(Cells - 1) -> Chars \cup {Blank}]
        /\ \A i \in 0..(Cells - 1) : screen'[i] = paper'[i + (z + w)]
    BY <1>3, <2>1, ScrollFollows DEF w, z
  <2> QED BY <1>2, <1>3, <1>6, <2>1, <2>2, <2>3 DEF VgaInv, ScreenIsWindow, w
<1> QED BY <1>7, <1>8

\* A character: it goes where the cursor is, in a line torn off for it when
\* the cursor has left the screen.
LEMMA PutCharKeeps ==
    ASSUME VgaInv, NEW c \in Chars, early_vga_put_char(c)
    PROVE  VgaInv'
<1> DEFINE w == VGA_COLUMNS
           s == IF AtEnd(cursor) THEN vga_scroll(screen) ELSE screen
           p == IF AtEnd(cursor) THEN cursor - w ELSE cursor
           n == IF AtEnd(cursor) THEN torn + 1 ELSE torn
           z == n * w
           cells == Chars \cup {Blank}
<1>1. /\ w \in Nat \ {0} /\ Cells \in Nat /\ Cells >= w /\ PaperCells \in Nat
      /\ MaxPrinted \in Nat
  BY Sizes
<1>2. /\ cursor \in Nat /\ torn \in Nat /\ printed \in Nat /\ torn <= printed /\ cursor <= Cells
      /\ torn * w \in Nat /\ pen = cursor + torn * w /\ (torn + 1) * w = torn * w + w
  BY <1>1 DEF VgaInv, ScreenIsWindow
<1>3. /\ printed < MaxPrinted /\ printed' = printed + 1 /\ pen' = pen + 1
      /\ paper' = [paper EXCEPT ![pen] = c]
      /\ screen' = [s EXCEPT ![p] = c] /\ cursor' = p + 1 /\ torn' = n
  BY VgaAssumption DEF early_vga_put_char, PutChar
<1>4. /\ n \in Nat /\ z \in Nat /\ p \in 0..(Cells - 1) /\ pen = p + z
      /\ torn' <= printed' /\ printed' \in 0..MaxPrinted
  BY <1>1, <1>2, <1>3 DEF AtEnd
<1>5. s \in [0..(Cells - 1) -> cells] /\ \A i \in 0..(Cells - 1) : s[i] = paper[i + z]
  <2>1. CASE AtEnd(cursor)
    BY <1>2, <1>3, <2>1, ScrollFollows
  <2>2. CASE ~AtEnd(cursor)
    BY <2>2 DEF VgaInv, ScreenIsWindow
  <2> QED BY <2>1, <2>2
<1>6. /\ paper \in [0..(PaperCells - 1) -> cells]
      /\ \A j \in 0..(PaperCells - 1) : j >= pen => paper[j] = Blank
  BY DEF VgaInv
<1>7. z + Cells <= PaperCells
  <2>1. n <= MaxPrinted + 1
    BY <1>1, <1>2, <1>3
  <2> HIDE DEF n
  <2>2. n * w <= (MaxPrinted + 1) * w
    BY <1>1, <1>4, <2>1
  <2> QED BY <1>1, <1>4, <2>2 DEF PaperCells
<1> HIDE DEF w, s, p, n, z, cells
<1>8. c \in cells
  BY DEF cells
<1>9. pen \in 0..(PaperCells - 1)
  BY <1>1, <1>4, <1>7
<1>10. screen' \in [0..(Cells - 1) -> cells] /\ paper' \in [0..(PaperCells - 1) -> cells]
  BY <1>3, <1>5, <1>6, <1>8
<1>11. \A j \in 0..(PaperCells - 1) : j >= pen' => paper'[j] = Blank
  BY <1>1, <1>3, <1>6, <1>9
<1>12. cursor' \in 0..Cells /\ cursor' \in Nat /\ pen' = cursor' + z /\ torn' * w = z
  BY <1>1, <1>3, <1>4 DEF z
<1>13. ASSUME NEW i \in 0..(Cells - 1) PROVE screen'[i] = paper'[i + z]
  <2>1. i + z \in 0..(PaperCells - 1) /\ (i = p <=> i + z = pen)
    BY <1>1, <1>4, <1>7
  <2>2. CASE i = p
    BY <1>3, <1>5, <1>6, <2>1, <2>2
  <2>3. CASE i # p
    BY <1>3, <1>5, <1>6, <2>1, <2>3
  <2> QED BY <2>2, <2>3
<1> QED BY <1>3, <1>4, <1>10, <1>11, <1>12, <1>13 DEF VgaInv, ScreenIsWindow, w, cells

\* The screen is always a window on all that was printed (early_vga_put_char).
THEOREM VgaInvariance == VgaSpec => []VgaInv
<1>1. VgaInit => VgaInv
  <2> SUFFICES ASSUME VgaInit PROVE VgaInv
    OBVIOUS
  <2>1. VGA_COLUMNS \in Nat \ {0} /\ Cells \in Nat /\ MaxPrinted \in Nat /\ PaperCells \in Nat
    BY Sizes
  <2>2. 0 * VGA_COLUMNS = 0
    BY <2>1
  <2>3. (MaxPrinted + 1) * VGA_COLUMNS \in Nat
    BY <2>1
  <2>4. \A i \in 0..(Cells - 1) : i \in 0..(PaperCells - 1) /\ i + 0 = i
    BY <2>1, <2>3 DEF PaperCells
  <2>5. ScreenIsWindow
    BY <2>1, <2>2, <2>4 DEF VgaInit, ScreenIsWindow
  <2> QED BY <2>1, <2>5 DEF VgaInit, VgaInv
<1>2. VgaInv /\ [VgaNext]_vga_vars => VgaInv'
  <2> SUFFICES ASSUME VgaInv, [VgaNext]_vga_vars PROVE VgaInv'
    OBVIOUS
  <2>1. ASSUME NEW c \in Chars, early_vga_put_char(c) PROVE VgaInv'
    BY <2>1, PutCharKeeps
  <2>2. CASE early_vga_put_char(Newline)
    BY <2>2, NewLineKeeps
  <2>3. CASE UNCHANGED vga_vars
    BY <2>3 DEF vga_vars, VgaInv, ScreenIsWindow
  <2> QED BY <2>1, <2>2, <2>3 DEF VgaNext
<1> QED BY <1>1, <1>2, PTL DEF VgaSpec

\* Scrolling loses nothing but the first line, on every size of screen
\* (vga_scroll, early_vga_put_char).
THEOREM ScreenShowsThePaper == VgaSpec => []ScreenIsWindow
<1>1. VgaInv => ScreenIsWindow
  BY DEF VgaInv
<1> QED BY <1>1, VgaInvariance, PTL
=============================================================================
