--------------------------- MODULE PageAllocProofs ---------------------------
(***************************************************************************)
(* The page allocator never hands a page out twice, never loses one and    *)
(* fails only when nothing fits, for every zone and every number of        *)
(* levels, as long as its callers are not preempted.                       *)
(***************************************************************************)
EXTENDS PageAlloc, Klist0Proofs

\* A pile contains its first page.
LEMMA FirstInBlock ==
    ASSUME NEW p \in Int, NEW o \in Orders PROVE p \in Block(p, o)
  BY ShiftAssumption DEF Block

\* Two halves make a pile.
LEMMA Halves ==
    ASSUME NEW p \in Int, NEW o \in Orders, o + 1 \in Orders
    PROVE  /\ Block(p, o + 1) = Block(p, o) \cup Block(p + Size(o), o)
           /\ Block(p, o) \cap Block(p + Size(o), o) = {}
<1>1. Size(o) \in Nat \ {0} /\ Size(o + 1) = 2 * Size(o)
  BY ShiftAssumption
<1> QED BY <1>1 DEF Block

\* The pages up to b, cut at a.
LEMMA Intervals ==
    ASSUME NEW f \in Int, NEW a \in Int, NEW b \in Int, f <= a, a <= b
    PROVE  /\ f..(b - 1) = (f..(a - 1)) \cup (a..(b - 1))
           /\ (f..(a - 1)) \cap (a..(b - 1)) = {}
<1>1. ASSUME NEW x \in f..(b - 1) PROVE x \in (f..(a - 1)) \cup (a..(b - 1))
  <2>1. CASE x < a
    BY <2>1
  <2>2. CASE ~(x < a)
    BY <2>2
  <2> QED BY <2>1, <2>2
<1>2. ASSUME NEW x \in (f..(a - 1)) \cup (a..(b - 1)) PROVE x \in f..(b - 1)
  OBVIOUS
<1>3. f..(b - 1) = (f..(a - 1)) \cup (a..(b - 1))
  BY <1>1, <1>2, Zenon
<1> QED BY <1>3

\* The two halves of an aligned pile are aligned.
LEMMA AlignedHalves ==
    ASSUME NEW p \in Nat, NEW o \in Orders, Aligned(p, o + 1)
    PROVE  Aligned(p, o) /\ Aligned(p + Size(o), o)
<1>1. Size(o) \in Nat \ {0} /\ Size(o + 1) = 2 * Size(o)
  BY ShiftAssumption
<1> DEFINE s == Size(o)
<1>2. PICK k \in 0..p : p = k * (2 * s)
  BY <1>1 DEF Aligned
<1>3. s \in Nat \ {0}
  BY <1>1
<1> HIDE DEF s
<1>4. p = (2 * k) * s /\ 2 * k \in Nat
  BY <1>2, <1>3
<1>5. 2 * k <= p
  BY <1>3, <1>4
<1>6. p + s = (2 * k + 1) * s /\ 2 * k + 1 \in 0..(p + s)
  BY <1>3, <1>4, <1>5
<1>7. 2 * k \in 0..p
  BY <1>4, <1>5
<1> QED BY <1>4, <1>6, <1>7 DEF Aligned, s

\* A set S of piles is a partition of the pages X.
Tiles(S, X) ==
    /\ \A x \in X : \E q \in S : x \in Block(q[2], q[3])
    /\ \A q, r \in S : q # r => Block(q[2], q[3]) \cap Block(r[2], r[3]) = {}
    /\ \A q \in S : Block(q[2], q[3]) \subseteq X

\* Replacing piles D by disjoint piles N that cover the same pages.
LEMMA Retile ==
    ASSUME NEW S, NEW X, Tiles(S, X), NEW D, D \subseteq S, NEW N,
           \A q \in N : \A x \in Block(q[2], q[3]) :
              \E r \in D : x \in Block(r[2], r[3]),
           \A r \in D : \A x \in Block(r[2], r[3]) :
              \E q \in N : x \in Block(q[2], q[3]),
           \A q, r \in N : q # r => Block(q[2], q[3]) \cap Block(r[2], r[3]) = {}
    PROVE  Tiles((S \ D) \cup N, X)
<1> DEFINE T == (S \ D) \cup N
<1>1. ASSUME NEW x \in X PROVE \E q \in T : x \in Block(q[2], q[3])
  <2>1. PICK q \in S : x \in Block(q[2], q[3])
    BY DEF Tiles
  <2>2. CASE q \in D
    BY <2>1, <2>2
  <2>3. CASE q \notin D
    BY <2>1, <2>3
  <2> QED BY <2>2, <2>3
<1>2. ASSUME NEW q \in T PROVE Block(q[2], q[3]) \subseteq X
  BY DEF Tiles
<1>3. ASSUME NEW q \in N, NEW r \in S \ D PROVE Block(q[2], q[3]) \cap Block(r[2], r[3]) = {}
  <2> SUFFICES ASSUME NEW x \in Block(q[2], q[3]), x \in Block(r[2], r[3]) PROVE FALSE
    OBVIOUS
  <2>1. PICK d \in D : x \in Block(d[2], d[3])
    OBVIOUS
  <2>2. d # r /\ d \in S /\ r \in S
    OBVIOUS
  <2> QED BY <2>1, <2>2 DEF Tiles
<1>4. ASSUME NEW q \in T, NEW r \in T, q # r
      PROVE  Block(q[2], q[3]) \cap Block(r[2], r[3]) = {}
  <2>1. CASE q \in N /\ r \in N
    BY <1>4, <2>1
  <2>2. CASE q \in N /\ r \notin N
    BY <1>3, <1>4, <2>2
  <2>3. CASE q \notin N /\ r \in N
    BY <1>3, <1>4, <2>3
  <2>4. CASE q \notin N /\ r \notin N
    BY <1>4, <2>4 DEF Tiles
  <2> QED BY <2>1, <2>2, <2>3, <2>4
<1> HIDE DEF T
<1>5. Tiles(T, X)
  BY <1>1, <1>2, <1>4 DEF Tiles
<1> QED BY <1>5 DEF T

\* Replacing pile d by pile n with the same pages.
LEMMA Relabel ==
    ASSUME NEW S, NEW X, Tiles(S, X), NEW d \in S, NEW n, n[2] = d[2], n[3] = d[3]
    PROVE  Tiles((S \ {d}) \cup {n}, X)
<1>1. \A q \in {n} : \A x \in Block(q[2], q[3]) : \E r \in {d} : x \in Block(r[2], r[3])
  OBVIOUS
<1>2. \A r \in {d} : \A x \in Block(r[2], r[3]) : \E q \in {n} : x \in Block(q[2], q[3])
  OBVIOUS
<1>3. {d} \subseteq S /\ \A q, r \in {n} : q = r
  OBVIOUS
<1> HIDE DEF Block
<1> QED BY <1>1, <1>2, <1>3, Retile

\* Replacing pile d by its two halves.
LEMMA SplitTile ==
    ASSUME NEW S, NEW X, Tiles(S, X), NEW d \in S, NEW n, NEW m,
           Block(d[2], d[3]) = Block(n[2], n[3]) \cup Block(m[2], m[3]),
           Block(n[2], n[3]) \cap Block(m[2], m[3]) = {}
    PROVE  Tiles((S \ {d}) \cup {n, m}, X)
<1>1. \A q \in {n, m} : \A x \in Block(q[2], q[3]) : \E r \in {d} : x \in Block(r[2], r[3])
  OBVIOUS
<1>2. \A r \in {d} : \A x \in Block(r[2], r[3]) : \E q \in {n, m} : x \in Block(q[2], q[3])
  OBVIOUS
<1>3. {d} \subseteq S
  OBVIOUS
<1>4. \A q, r \in {n, m} : q # r => Block(q[2], q[3]) \cap Block(r[2], r[3]) = {}
  OBVIOUS
<1> QED BY <1>1, <1>2, <1>3, <1>4, Retile

\* Replacing two halves by the pile they make.
LEMMA MergeTile ==
    ASSUME NEW S, NEW X, Tiles(S, X), NEW d \in S, NEW e \in S, NEW n,
           Block(n[2], n[3]) = Block(d[2], d[3]) \cup Block(e[2], e[3])
    PROVE  Tiles((S \ {d, e}) \cup {n}, X)
<1>1. \A q \in {n} : \A x \in Block(q[2], q[3]) : \E r \in {d, e} : x \in Block(r[2], r[3])
  OBVIOUS
<1>2. \A r \in {d, e} : \A x \in Block(r[2], r[3]) : \E q \in {n} : x \in Block(q[2], q[3])
  OBVIOUS
<1>3. {d, e} \subseteq S /\ \A q, r \in {n} : q = r
  OBVIOUS
<1> QED BY <1>1, <1>2, <1>3, Retile

-----------------------------------------------------------------------------
(* Who owns what. *)

\* The free piles are the nodes of the levels.
LEMMA FreePilesAre ==
    \A t : t \in FreePiles <=> \E o \in Orders : \E p \in Nodes(level, o) : t = <<"free", p, o>>
  BY DEF FreePiles

\* The same after a step.
LEMMA FreePilesAreNext ==
    \A t : t \in FreePiles' <=> \E o \in Orders : \E p \in Nodes(level', o) : t = <<"free", p, o>>
  BY DEF FreePiles, Orders, Nodes

\* What the caller c, the only one inside the allocator, is working on.
Own(c) ==
    CASE pc[c] = "split" -> {<<c, pg[c], lvl[c]>>}
      [] pc[c] \in {"merge", "insert"} -> {<<c, pg[c], order[pg[c]]>>}
      [] OTHER -> {}

\* With one caller inside, the piles are the free, the held and its own.
LEMMA SoloPiles ==
    ASSUME NEW c \in Callers, \A d \in Callers \ {c} : pc[d] = "idle"
    PROVE  Piles = FreePiles \cup HeldPiles \cup Own(c)
<1>1. SplitPiles = IF pc[c] = "split" THEN {<<c, pg[c], lvl[c]>>} ELSE {}
  BY DEF SplitPiles
<1>2. FreedPiles = IF pc[c] \in {"merge", "insert"} THEN {<<c, pg[c], order[pg[c]]>>} ELSE {}
  BY DEF FreedPiles
<1> QED BY <1>1, <1>2 DEF Piles, Own

\* The same after a step.
LEMMA SoloPilesNext ==
    ASSUME NEW c \in Callers, \A d \in Callers \ {c} : pc'[d] = "idle"
    PROVE  Piles' = FreePiles' \cup HeldPiles' \cup Own(c)'
<1>1. SplitPiles' = IF pc'[c] = "split" THEN {<<c, pg'[c], lvl'[c]>>} ELSE {}
  BY DEF SplitPiles
<1>2. FreedPiles' = IF pc'[c] \in {"merge", "insert"} THEN {<<c, pg'[c], order'[pg'[c]]>>} ELSE {}
  BY DEF FreedPiles
<1> QED BY <1>1, <1>2 DEF Piles, Own

\* A caller that runs is the only one inside the allocator.
LEMMA Solo ==
    ASSUME AllocInv, Preemptible = {}, NEW c \in Callers, CanRun(c)
    PROVE  \A d \in Callers \ {c} : pc[d] = "idle"
  BY DEF CanRun

\* A pile is aligned and lies within the pages handled so far.
LEMMA PileFacts ==
    ASSUME AllocInv, NEW p, NEW o, NEW t, <<t, p, o>> \in Piles
    PROVE  /\ p \in Pages /\ o \in Orders /\ Aligned(p, o)
           /\ Block(p, o) \subseteq FirstPage..(init_page - 1)
<1>1. \A q \in Piles : /\ q[2] \in Pages /\ q[3] \in Orders /\ Aligned(q[2], q[3])
                       /\ Block(q[2], q[3]) \subseteq FirstPage..(init_page - 1)
  BY DEF AllocInv, Partition
<1>2. <<t, p, o>>[2] = p /\ <<t, p, o>>[3] = o
  OBVIOUS
<1> HIDE DEF Block, Aligned
<1> QED BY <1>1, <1>2

\* No two piles start at the same page.
LEMMA OnePile ==
    ASSUME AllocInv, NEW q \in Piles, NEW r \in Piles, q[2] = r[2]
    PROVE  q = r
<1>1. q[2] \in Int /\ q[3] \in Orders /\ r[3] \in Orders
  BY ZoneAssumption DEF AllocInv, Pages
<1>2. q[2] \in Block(q[2], q[3]) /\ q[2] \in Block(r[2], r[3])
  BY <1>1, FirstInBlock
<1> QED BY <1>2 DEF AllocInv, Partition

\* A pile that is being split or freed is neither free nor held.
LEMMA OwnIsAlone ==
    ASSUME AllocInv, NEW c \in Callers, NEW p, NEW o, <<c, p, o>> \in Piles
    PROVE  ~Linked(level, p) /\ p \notin held
<1>1. "free" # c /\ "held" # c
  BY ZoneAssumption
<1>2. ASSUME NEW l \in Orders, p \in Nodes(level, l) PROVE FALSE
  <2>1. <<"free", p, l>> \in Piles
    BY <1>2, FreePilesAre DEF Piles
  <2> QED BY <1>1, <2>1, OnePile
<1>3. ASSUME p \in held PROVE FALSE
  <2>1. <<"held", p, order[p]>> \in Piles
    BY <1>3 DEF HeldPiles, Piles
  <2> QED BY <1>1, <2>1, OnePile
<1> QED BY <1>2, <1>3 DEF Linked, AllocInv, TypeOK

\* The lists are well formed and the piles tile the pages handled so far.
LEMMA Structure ==
    ASSUME AllocInv
    PROVE  /\ WellFormed(level, Orders, Pages)
           /\ WellFormed(area, Areas, Pages)
           /\ Tiles(Piles, FirstPage..(init_page - 1))
  BY DEF AllocInv, TypeOK, Partition, WellFormed, Tiles

\* What has to be shown of a step of the one caller inside the allocator.
LEMMA Assemble ==
    ASSUME NEW c \in Callers, \A d \in Callers \ {c} : pc'[d] = "idle",
           TypeOK', WellFormed(level', Orders, Pages), WellFormed(area', Areas, Pages),
           Tiles(Piles', FirstPage..(init_page' - 1)),
           LevelsSound',
           \A q \in Piles' : q[2] \in Pages /\ q[3] \in Orders /\ Aligned(q[2], q[3]),
           \A p \in Pages : Linked(area', p) => p \in held',
           init_page' = TotalPages,
           pc'[c] \in {"unlink", "split"} => want'[c] <= lvl'[c],
           pc'[c] = "unlink" =>
                ~klist0_empty(level', lvl'[c]) /\ pg'[c] = Head(level'[lvl'[c]])
    PROVE  AllocInv'
<1>1. Partition'
  BY DEF Partition, Tiles, WellFormed
<1>2. LinkedOnce(area')
  BY DEF WellFormed
<1>3. (\A q \in Piles : q[2] \in Pages /\ q[3] \in Orders /\ Aligned(q[2], q[3]))'
  OBVIOUS
<1>4. \A e, d \in Callers : e # d => pc'[e] = "idle" \/ pc'[d] = "idle"
  OBVIOUS
<1>5. \A e \in Callers :
          /\ pc'[e] # "idle" => init_page' = TotalPages
          /\ pc'[e] \in {"unlink", "split"} => want'[e] <= lvl'[e]
          /\ pc'[e] = "unlink" =>
                ~klist0_empty(level', lvl'[e]) /\ pg'[e] = Head(level'[lvl'[e]])
  OBVIOUS
<1> QED BY <1>1, <1>2, <1>3, <1>4, <1>5 DEF AllocInv

-----------------------------------------------------------------------------
(* alloc_pages *)

\* alloc_pages finds a pile.
LEMMA AllocFindKeeps ==
    ASSUME AllocInv, Preemptible = {}, NEW c \in Callers, NEW o \in Orders, AllocFind(c, o)
    PROVE  AllocInv'
<1>1. \A d \in Callers \ {c} : pc[d] = "idle"
  BY Solo DEF AllocFind
<1>2. PICK i \in o..(MAX_ORDER - 1) :
         /\ ~klist0_empty(level, i)
         /\ lvl' = [lvl EXCEPT ![c] = i]
         /\ pg' = [pg EXCEPT ![c] = Head(level[i])]
  BY DEF AllocFind
<1>3. i \in Orders /\ o <= i /\ o \in Nat /\ i \in Nat
  BY ZoneAssumption DEF Orders
<1>4. /\ pc' = [pc EXCEPT ![c] = "unlink"] /\ want' = [want EXCEPT ![c] = o]
      /\ UNCHANGED <<level, order, area, init_page, held>>
      /\ pc[c] = "idle" /\ init_page = TotalPages
  BY DEF AllocFind, CanRun
<1>5. TypeOK /\ pc \in [Callers -> {"idle", "unlink", "split", "merge", "insert"}]
  BY DEF AllocInv, TypeOK
<1>6. \A d \in Callers \ {c} : pc'[d] = "idle"
  BY <1>1, <1>4, <1>5
<1>7. Head(level[i]) \in Pages
  BY <1>2, <1>3, Structure, UnlinkFirst
<1>8. TypeOK'
  BY <1>2, <1>3, <1>4, <1>5, <1>7 DEF TypeOK
<1>9. Own(c) = {} /\ Own(c)' = {}
  BY <1>4, <1>5 DEF Own
<1>10. FreePiles' = FreePiles /\ HeldPiles' = HeldPiles
  BY <1>4 DEF FreePiles, HeldPiles
<1>11. Piles' = Piles
  BY <1>1, <1>6, <1>9, <1>10, SoloPiles, SoloPilesNext
<1>12. /\ pc'[c] = "unlink" /\ want'[c] <= lvl'[c]
       /\ lvl'[c] = i /\ pg'[c] = Head(level[i])
  BY <1>2, <1>3, <1>4, <1>5 DEF TypeOK
<1>13. LevelsSound' /\ \A p \in Pages : Linked(area', p) => p \in held'
  BY <1>4 DEF AllocInv, LevelsSound
<1>14. \A q \in Piles' : q[2] \in Pages /\ q[3] \in Orders /\ Aligned(q[2], q[3])
  BY <1>11 DEF AllocInv
<1>15. /\ WellFormed(level', Orders, Pages) /\ WellFormed(area', Areas, Pages)
       /\ Tiles(Piles', FirstPage..(init_page' - 1))
  BY <1>4, <1>11, Structure
<1> QED BY <1>2, <1>4, <1>6, <1>8, <1>12, <1>13, <1>14, <1>15, Assemble

\* alloc_pages takes the pile off its level.
LEMMA AllocUnlinkKeeps ==
    ASSUME AllocInv, Preemptible = {}, NEW c \in Callers, AllocUnlink(c)
    PROVE  AllocInv'
<1> DEFINE i == lvl[c]
           p == pg[c]
           free == <<"free", p, i>>
           own == <<c, p, i>>
<1>1. \A d \in Callers \ {c} : pc[d] = "idle"
  BY Solo DEF AllocUnlink
<1>2. /\ pc[c] = "unlink" /\ init_page = TotalPages
      /\ pc' = [pc EXCEPT ![c] = "split"]
      /\ UNCHANGED <<order, area, init_page, held, pg, lvl, want>>
  BY DEF AllocUnlink, CanRun
<1>3. TypeOK /\ i \in Orders /\ want[c] <= i /\ ~klist0_empty(level, i) /\ p = Head(level[i])
  BY <1>2 DEF AllocInv, TypeOK
<1>4. level' = klist0_unlink_first(level, i)
  BY <1>3 DEF AllocUnlink
<1>5. \A d \in Callers \ {c} : pc'[d] = "idle"
  BY <1>1, <1>2, <1>3 DEF TypeOK
<1>6. /\ WellFormed(level', Orders, Pages) /\ p \in Nodes(level, i) /\ p \in Pages
      /\ ~Linked(level', p)
      /\ \A o \in Orders : Nodes(level', o) = IF o = i THEN Nodes(level, i) \ {p} ELSE Nodes(level, o)
  <2>1. LET R == klist0_unlink_first(level, i)
            h == Head(level[i])
        IN  /\ WellFormed(R, Orders, Pages)
            /\ h \in Nodes(level, i) /\ h \in Pages
            /\ ~Linked(R, h)
            /\ \A r \in Orders : Nodes(R, r) =
                  IF r = i THEN Nodes(level, i) \ {h} ELSE Nodes(level, r)
    <3> HIDE DEF i
    <3> QED BY <1>3, Structure, UnlinkFirst
  <2> QED BY <1>3, <1>4, <2>1
<1>7. TypeOK'
  BY <1>2, <1>3, <1>6 DEF TypeOK, WellFormed
<1>8. pc'[c] = "split" /\ Own(c) = {} /\ Own(c)' = {own}
  BY <1>2, <1>3 DEF Own, TypeOK
<1>9. FreePiles' = FreePiles \ {free}
  BY <1>3, <1>6, FreePilesAre, FreePilesAreNext
<1>10. HeldPiles' = HeldPiles /\ free \notin HeldPiles /\ free \in FreePiles
  BY <1>2, <1>3, <1>6, FreePilesAre DEF HeldPiles
<1>11. Piles' = (Piles \ {free}) \cup {own} /\ free \in Piles
  BY <1>1, <1>5, <1>8, <1>9, <1>10, SoloPiles, SoloPilesNext
<1>12. Tiles(Piles', FirstPage..(init_page' - 1))
  BY <1>2, <1>11, Structure, Relabel
<1>13. \A q \in Piles' : q[2] \in Pages /\ q[3] \in Orders /\ Aligned(q[2], q[3])
  BY <1>11 DEF AllocInv
<1>14. LevelsSound' /\ \A x \in Pages : Linked(area', x) => x \in held'
  BY <1>2, <1>6 DEF AllocInv, LevelsSound
<1>15. WellFormed(area', Areas, Pages)
  BY <1>2, Structure
<1> QED BY <1>2, <1>3, <1>5, <1>6, <1>7, <1>8, <1>12, <1>13, <1>14, <1>15, Assemble

\* alloc_pages passes the lower half to the level below.
LEMMA AllocSplitKeeps ==
    ASSUME AllocInv, Preemptible = {}, NEW c \in Callers, AllocSplit(c)
    PROVE  AllocInv'
<1> DEFINE i == lvl[c] - 1
           p == pg[c]
           z == FirstPage..(init_page - 1)
           own == <<c, p, lvl[c]>>
           lower == <<"free", p, i>>
           upper == <<c, p + Size(i), i>>
<1>1. \A d \in Callers \ {c} : pc[d] = "idle"
  BY Solo DEF AllocSplit
<1>2. /\ pc[c] = "split" /\ init_page = TotalPages /\ lvl[c] > want[c]
      /\ order' = [order EXCEPT ![p] = i]
      /\ level' = klist0_append(level, p, i)
      /\ pg' = [pg EXCEPT ![c] = p + Size(i)]
      /\ lvl' = [lvl EXCEPT ![c] = i]
      /\ UNCHANGED <<area, init_page, held, pc, want>>
  BY DEF AllocSplit, CanRun
<1>3. TypeOK /\ lvl[c] \in Orders /\ want[c] \in Orders
  BY DEF AllocInv, TypeOK
<1>4. /\ i \in Orders /\ i + 1 = lvl[c] /\ i + 1 \in Orders /\ want[c] <= i
      /\ Size(i) \in Nat \ {0}
  BY <1>2, <1>3, ZoneAssumption, ShiftAssumption DEF Orders
<1>5. Own(c) = {own} /\ own \in Piles /\ Piles = FreePiles \cup HeldPiles \cup {own}
  BY <1>1, <1>2, SoloPiles DEF Own
<1>6. p \in Pages /\ Aligned(p, i + 1) /\ Block(p, i + 1) \subseteq z
  BY <1>4, <1>5, PileFacts
<1>7. p \in Int /\ p \in Nat
  BY <1>6, ZoneAssumption DEF Pages
<1>8. /\ Block(p, i + 1) = Block(p, i) \cup Block(p + Size(i), i)
      /\ Block(p, i) \cap Block(p + Size(i), i) = {}
      /\ Aligned(p, i) /\ Aligned(p + Size(i), i)
  BY <1>4, <1>6, <1>7, Halves, AlignedHalves
<1>9. p + Size(i) \in Pages
  <2>1. p + Size(i) \in Block(p + Size(i), i)
    BY <1>4, <1>7, FirstInBlock
  <2> QED BY <1>2, <1>6, <1>8, <2>1 DEF Pages
<1>10. "free" # c /\ "held" # c
  BY ZoneAssumption
<1>11. ~Linked(level, p)
  BY <1>5, OwnIsAlone
<1>12. p \notin held
  BY <1>5, OwnIsAlone
<1>13. /\ WellFormed(level', Orders, Pages)
       /\ \A o \in Orders : Nodes(level', o) =
             IF o = i THEN Nodes(level, i) \cup {p} ELSE Nodes(level, o)
  <2>1. LET R == klist0_append(level, p, i) IN
           /\ WellFormed(R, Orders, Pages)
           /\ \A r \in Orders : Nodes(R, r) =
                 IF r = i THEN Nodes(level, i) \cup {p} ELSE Nodes(level, r)
    <3> HIDE DEF i, p
    <3> QED BY <1>4, <1>6, <1>11, Structure, AppendLinks
  <2> QED BY <1>2, <2>1
<1>14. \A d \in Callers \ {c} : pc'[d] = "idle"
  BY <1>1, <1>2
<1>15. TypeOK'
  BY <1>2, <1>3, <1>4, <1>9, <1>13 DEF TypeOK, WellFormed
<1>16. pc'[c] = "split" /\ pg'[c] = p + Size(i) /\ lvl'[c] = i /\ want'[c] <= lvl'[c]
  BY <1>2, <1>3, <1>4 DEF TypeOK
<1>17. Own(c)' = {upper}
  BY <1>16 DEF Own
<1>18. FreePiles' = FreePiles \cup {lower}
  BY <1>4, <1>13, FreePilesAre, FreePilesAreNext
<1>19. HeldPiles' = HeldPiles
  BY <1>2, <1>3, <1>12 DEF HeldPiles, TypeOK
<1>20. own \notin FreePiles /\ own \notin HeldPiles
  BY <1>10, FreePilesAre DEF HeldPiles
<1>21. Piles' = (Piles \ {own}) \cup {lower, upper}
  BY <1>5, <1>14, <1>17, <1>18, <1>19, <1>20, SoloPilesNext
<1>22. Tiles(Piles', z)
  <2>1. Block(own[2], own[3]) = Block(lower[2], lower[3]) \cup Block(upper[2], upper[3])
    BY <1>4, <1>8
  <2>2. Block(lower[2], lower[3]) \cap Block(upper[2], upper[3]) = {}
    BY <1>8
  <2> HIDE DEF own, lower, upper
  <2> QED BY <1>5, <1>21, <2>1, <2>2, Structure, SplitTile
<1>23. \A q \in Piles' : q[2] \in Pages /\ q[3] \in Orders /\ Aligned(q[2], q[3])
  BY <1>4, <1>6, <1>8, <1>9, <1>21 DEF AllocInv
<1>24. LevelsSound'
  <2> SUFFICES ASSUME NEW o \in Orders, NEW x \in Nodes(level', o)
               PROVE  order'[x] = o /\ Aligned(x, o)
    BY DEF LevelsSound
  <2>1. CASE x = p
    <3>1. o = i
      BY <1>3, <1>11, <1>13, <2>1 DEF Linked, TypeOK
    <3> QED BY <1>2, <1>3, <1>6, <1>8, <2>1, <3>1 DEF TypeOK
  <2>2. CASE x # p
    <3>1. x \in Nodes(level, o)
      BY <1>13, <2>2
    <3>2. order[x] = o /\ Aligned(x, o)
      BY <3>1 DEF AllocInv, LevelsSound
    <3>3. x \in Pages
      BY <1>3, <3>1 DEF TypeOK, Nodes, Range
    <3> QED BY <1>2, <1>3, <2>2, <3>2, <3>3 DEF TypeOK
  <2> QED BY <2>1, <2>2
<1>25. WellFormed(area', Areas, Pages) /\ \A x \in Pages : Linked(area', x) => x \in held'
  BY <1>2, Structure DEF AllocInv
<1> QED BY <1>2, <1>13, <1>14, <1>15, <1>16, <1>22, <1>23, <1>24, <1>25, Assemble

\* alloc_pages returns the pile.
LEMMA AllocReturnKeeps ==
    ASSUME AllocInv, Preemptible = {}, NEW c \in Callers, AllocReturn(c)
    PROVE  AllocInv'
<1> DEFINE p == pg[c]
           o == want[c]
           own == <<c, p, o>>
           new == <<"held", p, o>>
<1>1. \A d \in Callers \ {c} : pc[d] = "idle"
  BY Solo DEF AllocReturn
<1>2. /\ pc[c] = "split" /\ init_page = TotalPages /\ lvl[c] = want[c]
      /\ order' = [order EXCEPT ![p] = o]
      /\ held' = held \cup {p}
      /\ pc' = [pc EXCEPT ![c] = "idle"]
      /\ UNCHANGED <<level, area, init_page, pg, lvl, want>>
  BY DEF AllocReturn, CanRun
<1>3. TypeOK /\ o \in Orders
  BY DEF AllocInv, TypeOK
<1>4. Own(c) = {own} /\ own \in Piles /\ Piles = FreePiles \cup HeldPiles \cup {own}
  BY <1>1, <1>2, SoloPiles DEF Own
<1>5. p \in Pages /\ Aligned(p, o)
  BY <1>4, PileFacts
<1>6. "free" # c /\ "held" # c
  BY ZoneAssumption
<1>7. ~Linked(level, p)
  BY <1>4, OwnIsAlone
<1>8. p \notin held
  BY <1>4, OwnIsAlone
<1>9. \A d \in Callers \ {c} : pc'[d] = "idle"
  BY <1>1, <1>2
<1>10. TypeOK'
  BY <1>2, <1>3, <1>5 DEF TypeOK
<1>11. pc'[c] = "idle" /\ Own(c)' = {}
  BY <1>2, <1>3 DEF Own, TypeOK
<1>12. FreePiles' = FreePiles
  BY <1>2 DEF FreePiles
<1>13. HeldPiles' = HeldPiles \cup {new}
  BY <1>2, <1>3, <1>5, <1>8 DEF HeldPiles, TypeOK
<1>14. own \notin FreePiles /\ own \notin HeldPiles
  BY <1>6, FreePilesAre DEF HeldPiles
<1>15. Piles' = (Piles \ {own}) \cup {new}
  BY <1>4, <1>9, <1>11, <1>12, <1>13, <1>14, SoloPilesNext
<1>16. Tiles(Piles', FirstPage..(init_page' - 1))
  BY <1>2, <1>4, <1>15, Structure, Relabel
<1>17. \A q \in Piles' : q[2] \in Pages /\ q[3] \in Orders /\ Aligned(q[2], q[3])
  <2>1. \A q \in Piles : q[2] \in Pages /\ q[3] \in Orders /\ Aligned(q[2], q[3])
    BY DEF AllocInv
  <2>2. new[2] \in Pages /\ new[3] \in Orders /\ Aligned(new[2], new[3])
    BY <1>3, <1>5
  <2> HIDE DEF new, own
  <2> QED BY <1>15, <2>1, <2>2
<1>18. LevelsSound'
  <2> SUFFICES ASSUME NEW l \in Orders, NEW x \in Nodes(level, l)
               PROVE  order'[x] = l /\ Aligned(x, l)
    BY <1>2 DEF LevelsSound
  <2>1. order[x] = l /\ Aligned(x, l)
    BY DEF AllocInv, LevelsSound
  <2>2. x \in Pages
    BY <1>3 DEF TypeOK, Nodes, Range
  <2>3. x # p
    BY <1>3, <1>7 DEF Linked, TypeOK
  <2> QED BY <1>2, <1>3, <2>1, <2>2, <2>3 DEF TypeOK
<1>19. /\ WellFormed(level', Orders, Pages) /\ WellFormed(area', Areas, Pages)
       /\ \A x \in Pages : Linked(area', x) => x \in held'
  BY <1>2, Structure DEF AllocInv
<1> QED BY <1>2, <1>9, <1>10, <1>11, <1>16, <1>17, <1>18, <1>19, Assemble

-----------------------------------------------------------------------------
(* free_pages *)

\* free_pages is given a pile.
LEMMA FreeStartKeeps ==
    ASSUME AllocInv, Preemptible = {}, NEW c \in Callers, NEW p \in Pages, FreeStart(c, p)
    PROVE  AllocInv'
<1> DEFINE own == <<c, p, order[p]>>
           old == <<"held", p, order[p]>>
<1>1. \A d \in Callers \ {c} : pc[d] = "idle"
  BY Solo DEF FreeStart
<1>2. /\ pc[c] = "idle" /\ init_page = TotalPages /\ p \in held /\ ~Linked(area, p)
      /\ held' = held \ {p}
      /\ pg' = [pg EXCEPT ![c] = p]
      /\ pc' = [pc EXCEPT ![c] = "merge"]
      /\ UNCHANGED <<level, order, area, init_page, lvl, want>>
  BY DEF FreeStart, CanRun
<1>3. TypeOK
  BY DEF AllocInv
<1>4. \A d \in Callers \ {c} : pc'[d] = "idle"
  BY <1>1, <1>2
<1>5. TypeOK'
  BY <1>2, <1>3 DEF TypeOK
<1>6. Own(c) = {} /\ Own(c)' = {own} /\ pc'[c] = "merge"
  BY <1>2, <1>3 DEF Own, TypeOK
<1>7. FreePiles' = FreePiles
  BY <1>2 DEF FreePiles
<1>8. HeldPiles' = HeldPiles \ {old} /\ old \in HeldPiles
  BY <1>2 DEF HeldPiles
<1>9. old \notin FreePiles
  BY FreePilesAre
<1>10. Piles' = (Piles \ {old}) \cup {own} /\ old \in Piles
  BY <1>1, <1>4, <1>6, <1>7, <1>8, <1>9, SoloPiles, SoloPilesNext
<1>11. Tiles(Piles', FirstPage..(init_page' - 1))
  BY <1>2, <1>10, Structure, Relabel
<1>12. \A q \in Piles' : q[2] \in Pages /\ q[3] \in Orders /\ Aligned(q[2], q[3])
  <2>1. order[p] \in Orders /\ Aligned(p, order[p])
    BY <1>10, PileFacts
  <2> QED BY <1>10, <2>1 DEF AllocInv
<1>13. LevelsSound' /\ WellFormed(level', Orders, Pages) /\ WellFormed(area', Areas, Pages)
  BY <1>2, Structure DEF AllocInv, LevelsSound
<1>14. \A x \in Pages : Linked(area', x) => x \in held'
  BY <1>2 DEF AllocInv
<1> QED BY <1>2, <1>4, <1>5, <1>6, <1>11, <1>12, <1>13, <1>14, Assemble

\* free_pages merges the pile with a neighbour.
LEMMA FreeMergeKeeps ==
    ASSUME AllocInv, Preemptible = {}, NEW c \in Callers, FreeMerge(c)
    PROVE  AllocInv'
<1> DEFINE p == pg[c]
           o == order[p]
           own == <<c, p, o>>
<1>1. \A d \in Callers \ {c} : pc[d] = "idle"
  BY Solo DEF FreeMerge
<1>2. PICK n \in Nodes(level, o) :
          /\ LeftBuddy(n, p, o) \/ RightBuddy(n, p, o)
          /\ level' = klist0_unlink(level, n, o)
          /\ pg' = [pg EXCEPT ![c] = IF n < p THEN n ELSE p]
          /\ order' = [order EXCEPT ![pg'[c]] = o + 1]
          /\ pc' = [pc EXCEPT ![c] = IF o + 1 < MAX_ORDER THEN "merge" ELSE "insert"]
  BY DEF FreeMerge
<1>3. /\ pc[c] = "merge" /\ init_page = TotalPages
      /\ UNCHANGED <<area, init_page, held, lvl, want>>
  BY DEF FreeMerge, CanRun
<1> DEFINE m == IF n < p THEN n ELSE p
           free == <<"free", n, o>>
           new == <<c, m, o + 1>>
<1>4. TypeOK
  BY DEF AllocInv
<1>5. Own(c) = {own} /\ own \in Piles /\ Piles = FreePiles \cup HeldPiles \cup {own}
  BY <1>1, <1>3, SoloPiles DEF Own
<1>6. p \in Pages /\ o \in Orders
  BY <1>5, PileFacts
<1>7. free \in FreePiles /\ free \in Piles
  BY <1>2, <1>5, <1>6, FreePilesAre
<1>8. n \in Pages
  BY <1>7, PileFacts
<1>9. p \in Nat /\ n \in Nat /\ p \in Int /\ n \in Int /\ Size(o) \in Nat \ {0} /\ o \in Nat
  BY <1>6, <1>8, ZoneAssumption, ShiftAssumption DEF Pages, Orders
<1>10. /\ o + 1 < MAX_ORDER /\ Aligned(m, o + 1)
       /\ (m = n /\ p = m + Size(o)) \/ (m = p /\ n = m + Size(o))
  BY <1>2, <1>9 DEF LeftBuddy, RightBuddy, OrderAbove
<1>11. o + 1 \in Orders /\ m \in Pages /\ m \in Int
  BY <1>6, <1>8, <1>9, <1>10, ZoneAssumption DEF Orders
<1>12. Block(m, o + 1) = Block(p, o) \cup Block(n, o)
  <2> HIDE DEF m
  <2>1. Block(m, o + 1) = Block(m, o) \cup Block(m + Size(o), o)
    BY <1>6, <1>11, Halves
  <2> QED BY <1>10, <2>1
<1>13. ~Linked(level, p) /\ p \notin held
  BY <1>5, OwnIsAlone
<1>14. n \notin held
  <2> SUFFICES ASSUME n \in held PROVE FALSE
    OBVIOUS
  <2>1. <<"held", n, order[n]>> \in Piles
    BY <1>5 DEF HeldPiles
  <2>2. free = <<"held", n, order[n]>>
    BY <1>7, <2>1, OnePile
  <2> QED BY <2>2
<1>15. /\ WellFormed(level', Orders, Pages) /\ ~Linked(level', n)
       /\ \A l \in Orders : Nodes(level', l) =
             IF l = o THEN Nodes(level, o) \ {n} ELSE Nodes(level, l)
  <2>1. LET R == klist0_unlink(level, n, o) IN
           /\ WellFormed(R, Orders, Pages)
           /\ ~Linked(R, n)
           /\ \A r \in Orders : Nodes(R, r) =
                 IF r = o THEN Nodes(level, o) \ {n} ELSE Nodes(level, r)
    <3> HIDE DEF o
    <3> QED BY <1>2, <1>6, Structure, UnlinkNode
  <2> QED BY <1>2, <2>1
<1>16. \A d \in Callers \ {c} : pc'[d] = "idle"
  BY <1>1, <1>2
<1>17. pg'[c] = m /\ pc'[c] = "merge" /\ order' = [order EXCEPT ![m] = o + 1]
  BY <1>2, <1>4, <1>10 DEF TypeOK
<1>18. TypeOK'
  <2> HIDE DEF m, o, p
  <2>1. pg' \in [Callers -> Pages \cup {0}]
    BY <1>2, <1>4, <1>11 DEF TypeOK, m
  <2> QED BY <1>2, <1>3, <1>4, <1>11, <1>15, <1>17, <2>1 DEF TypeOK, WellFormed
<1>19. order'[m] = o + 1
  BY <1>4, <1>11, <1>17 DEF TypeOK
<1>20. Own(c)' = {new}
  BY <1>17, <1>19 DEF Own
<1>21. FreePiles' = FreePiles \ {free}
  BY <1>6, <1>15, FreePilesAre, FreePilesAreNext
<1>22. HeldPiles' = HeldPiles
  <2>1. \A x \in held : order'[x] = order[x]
    BY <1>4, <1>13, <1>14, <1>17 DEF TypeOK
  <2> QED BY <1>3, <2>1 DEF HeldPiles
<1>23. own \notin FreePiles /\ own \notin HeldPiles /\ free \notin HeldPiles
  BY ZoneAssumption, FreePilesAre DEF HeldPiles
<1>24. Piles' = (Piles \ {own, free}) \cup {new}
  BY <1>5, <1>16, <1>20, <1>21, <1>22, <1>23, SoloPilesNext
<1>25. Tiles(Piles', FirstPage..(init_page' - 1))
  <2>1. Block(new[2], new[3]) = Block(own[2], own[3]) \cup Block(free[2], free[3])
    BY <1>12
  <2> HIDE DEF own, free, new
  <2> QED BY <1>3, <1>5, <1>7, <1>24, <2>1, Structure, MergeTile
<1>26. \A q \in Piles' : q[2] \in Pages /\ q[3] \in Orders /\ Aligned(q[2], q[3])
  <2> HIDE DEF m
  <2> QED BY <1>10, <1>11, <1>24 DEF AllocInv
<1>27. LevelsSound'
  <2> SUFFICES ASSUME NEW l \in Orders, NEW x \in Nodes(level', l)
               PROVE  order'[x] = l /\ Aligned(x, l)
    BY DEF LevelsSound
  <2>1. x \in Nodes(level, l)
    BY <1>15
  <2>2. order[x] = l /\ Aligned(x, l)
    BY <2>1 DEF AllocInv, LevelsSound
  <2>3. x \in Pages
    BY <1>4, <2>1 DEF TypeOK, Nodes, Range
  <2>4. x # n
    BY <1>15 DEF Linked, WellFormed
  <2>5. x # p
    BY <1>4, <1>13, <2>1 DEF Linked, TypeOK
  <2> QED BY <1>4, <1>17, <2>2, <2>3, <2>4, <2>5 DEF TypeOK
<1>28. WellFormed(area', Areas, Pages) /\ \A x \in Pages : Linked(area', x) => x \in held'
  BY <1>3, Structure DEF AllocInv
<1> QED BY <1>3, <1>15, <1>16, <1>17, <1>18, <1>25, <1>26, <1>27, <1>28, Assemble

\* free_pages has found no neighbour.
LEMMA FreeSearchedKeeps ==
    ASSUME AllocInv, Preemptible = {}, NEW c \in Callers, FreeSearched(c)
    PROVE  AllocInv'
<1>1. \A d \in Callers \ {c} : pc[d] = "idle"
  BY Solo DEF FreeSearched
<1>2. /\ pc[c] = "merge" /\ init_page = TotalPages
      /\ pc' = [pc EXCEPT ![c] = "insert"]
      /\ UNCHANGED <<level, order, area, init_page, held, pg, lvl, want>>
  BY DEF FreeSearched, CanRun
<1>3. TypeOK
  BY DEF AllocInv
<1>4. \A d \in Callers \ {c} : pc'[d] = "idle"
  BY <1>1, <1>2
<1>5. TypeOK'
  BY <1>2, <1>3 DEF TypeOK
<1>6. pc'[c] = "insert" /\ Own(c)' = Own(c)
  BY <1>2, <1>3 DEF Own, TypeOK
<1>7. FreePiles' = FreePiles /\ HeldPiles' = HeldPiles
  <2>1. level' = level /\ order' = order /\ held' = held
    BY <1>2
  <2> QED BY <2>1 DEF FreePiles, HeldPiles
<1>8. Piles' = Piles
  BY <1>1, <1>4, <1>6, <1>7, SoloPiles, SoloPilesNext
<1>9. /\ WellFormed(level', Orders, Pages) /\ WellFormed(area', Areas, Pages)
      /\ Tiles(Piles', FirstPage..(init_page' - 1))
  BY <1>2, <1>8, Structure
<1>10. /\ LevelsSound' /\ \A x \in Pages : Linked(area', x) => x \in held'
       /\ \A q \in Piles' : q[2] \in Pages /\ q[3] \in Orders /\ Aligned(q[2], q[3])
  BY <1>2, <1>8 DEF AllocInv, LevelsSound
<1> QED BY <1>2, <1>4, <1>5, <1>6, <1>9, <1>10, Assemble

\* free_pages puts the merged pile on its level.
LEMMA FreeInsertKeeps ==
    ASSUME AllocInv, Preemptible = {}, NEW c \in Callers, FreeInsert(c)
    PROVE  AllocInv'
<1> DEFINE p == pg[c]
           o == order[p]
           own == <<c, p, o>>
           new == <<"free", p, o>>
<1>1. \A d \in Callers \ {c} : pc[d] = "idle"
  BY Solo DEF FreeInsert
<1>2. /\ pc[c] = "insert" /\ init_page = TotalPages
      /\ level' = klist0_append(level, p, o)
      /\ area' = AreaUnlink(p)
      /\ pc' = [pc EXCEPT ![c] = "idle"]
      /\ UNCHANGED <<order, init_page, held, pg, lvl, want>>
  BY DEF FreeInsert, CanRun
<1>3. TypeOK
  BY DEF AllocInv
<1>4. Own(c) = {own} /\ own \in Piles /\ Piles = FreePiles \cup HeldPiles \cup {own}
  BY <1>1, <1>2, SoloPiles DEF Own
<1>5. p \in Pages /\ o \in Orders /\ Aligned(p, o)
  BY <1>4, PileFacts
<1>6. ~Linked(level, p) /\ p \notin held
  BY <1>4, OwnIsAlone
<1>7. area' = area
  BY <1>2, <1>5, <1>6 DEF AllocInv, AreaUnlink
<1>8. /\ WellFormed(level', Orders, Pages)
      /\ \A l \in Orders : Nodes(level', l) =
            IF l = o THEN Nodes(level, o) \cup {p} ELSE Nodes(level, l)
  <2>1. LET R == klist0_append(level, p, o) IN
           /\ WellFormed(R, Orders, Pages)
           /\ \A r \in Orders : Nodes(R, r) =
                 IF r = o THEN Nodes(level, o) \cup {p} ELSE Nodes(level, r)
    <3> HIDE DEF o, p
    <3> QED BY <1>5, <1>6, Structure, AppendLinks
  <2> QED BY <1>2, <2>1
<1>9. \A d \in Callers \ {c} : pc'[d] = "idle"
  BY <1>1, <1>2
<1>10. TypeOK'
  BY <1>2, <1>3, <1>7, <1>8 DEF TypeOK, WellFormed
<1>11. pc'[c] = "idle" /\ Own(c)' = {}
  BY <1>2, <1>3 DEF Own, TypeOK
<1>12. FreePiles' = FreePiles \cup {new}
  BY <1>5, <1>8, FreePilesAre, FreePilesAreNext
<1>13. HeldPiles' = HeldPiles
  BY <1>2 DEF HeldPiles
<1>14. own \notin FreePiles /\ own \notin HeldPiles
  BY ZoneAssumption, FreePilesAre DEF HeldPiles
<1>15. Piles' = (Piles \ {own}) \cup {new}
  BY <1>4, <1>9, <1>11, <1>12, <1>13, <1>14, SoloPilesNext
<1>16. Tiles(Piles', FirstPage..(init_page' - 1))
  BY <1>2, <1>4, <1>15, Structure, Relabel
<1>17. \A q \in Piles' : q[2] \in Pages /\ q[3] \in Orders /\ Aligned(q[2], q[3])
  BY <1>5, <1>15 DEF AllocInv
<1>18. LevelsSound'
  <2> SUFFICES ASSUME NEW l \in Orders, NEW x \in Nodes(level', l)
               PROVE  order[x] = l /\ Aligned(x, l)
    BY <1>2 DEF LevelsSound
  <2>1. CASE x \in Nodes(level, l)
    BY <2>1 DEF AllocInv, LevelsSound
  <2>2. CASE x \notin Nodes(level, l)
    <3>1. x = p /\ l = o
      BY <1>8, <2>2
    <3> QED BY <1>5, <3>1
  <2> QED BY <2>1, <2>2
<1>19. WellFormed(area', Areas, Pages) /\ \A x \in Pages : Linked(area', x) => x \in held'
  BY <1>2, <1>7, Structure DEF AllocInv
<1> QED BY <1>2, <1>8, <1>9, <1>10, <1>11, <1>16, <1>17, <1>18, <1>19, Assemble

-----------------------------------------------------------------------------
(* Page lists and the initialisation of the zone. *)

\* A step that only changes the page lists.
LEMMA AreaStepKeeps ==
    ASSUME AllocInv, UNCHANGED <<level, order, init_page, held, callers>>,
           WellFormed(area', Areas, Pages),
           \A p \in Pages : Linked(area', p) => p \in held
    PROVE  AllocInv'
<1>1. UNCHANGED <<level, order, init_page, held, pc, pg, lvl, want>>
  BY DEF callers
<1>2. TypeOK'
  BY <1>1 DEF AllocInv, TypeOK, WellFormed
<1>3. Piles' = Piles
  <2>1. FreePiles' = FreePiles /\ HeldPiles' = HeldPiles
    BY <1>1 DEF FreePiles, HeldPiles
  <2>2. SplitPiles' = SplitPiles /\ FreedPiles' = FreedPiles
    BY <1>1 DEF SplitPiles, FreedPiles
  <2> QED BY <2>1, <2>2 DEF Piles
<1>4. Partition' /\ LevelsSound'
  BY <1>1, <1>3 DEF AllocInv, Partition, LevelsSound
<1>5. LinkedOnce(area')
  BY DEF WellFormed
<1> QED BY <1>1, <1>2, <1>3, <1>4, <1>5 DEF AllocInv

\* A page is added to a page list.
LEMMA AreaAddKeeps ==
    ASSUME AllocInv, NEW c \in Callers, NEW p \in Pages, NEW a \in Areas, AreaAdd(c, p, a)
    PROVE  AllocInv'
<1>1. WellFormed(area, Areas, Pages) /\ ~Linked(area, p) /\ p \in held
  BY Structure DEF AreaAdd
<1>2. /\ WellFormed(area', Areas, Pages)
      /\ \A b \in Areas : Nodes(area', b) =
            IF b = a THEN Nodes(area, a) \cup {p} ELSE Nodes(area, b)
  <2>1. CASE area' = klist0_append(area, p, a)
    BY <1>1, <2>1, AppendLinks
  <2>2. CASE area' = klist0_prepend(area, p, a)
    BY <1>1, <2>2, PrependLinks
  <2> QED BY <2>1, <2>2 DEF AreaAdd
<1>3. \A x \in Pages : Linked(area', x) => x \in held
  BY <1>1, <1>2 DEF Linked, WellFormed, AllocInv
<1> QED BY <1>2, <1>3, AreaStepKeeps DEF AreaAdd

\* A page is taken off its page list.
LEMMA AreaRemoveKeeps ==
    ASSUME AllocInv, NEW c \in Callers, NEW p \in Pages, AreaRemove(c, p)
    PROVE  AllocInv'
<1> DEFINE a == CHOOSE b \in Areas : p \in Nodes(area, b)
<1>1. WellFormed(area, Areas, Pages) /\ Linked(area, p)
  BY Structure DEF AreaRemove
<1>2. a \in Areas /\ p \in Nodes(area, a)
  BY <1>1 DEF Linked, WellFormed
<1>3. area' = klist0_unlink(area, p, a)
  BY <1>1 DEF AreaRemove, AreaUnlink
<1> HIDE DEF a
<1>4. /\ WellFormed(area', Areas, Pages)
      /\ \A b \in Areas : Nodes(area', b) =
            IF b = a THEN Nodes(area, a) \ {p} ELSE Nodes(area, b)
  BY <1>1, <1>2, <1>3, UnlinkNode
<1>5. \A x \in Pages : Linked(area', x) => x \in held
  BY <1>1, <1>4 DEF Linked, WellFormed, AllocInv
<1> QED BY <1>4, <1>5, AreaStepKeeps DEF AreaRemove

\* mem_zone_init cuts off the next pile.
LEMMA ZoneInitKeeps ==
    ASSUME AllocInv, ZoneInitStep
    PROVE  AllocInv'
<1> DEFINE i == init_page
<1>1. PICK o \in Orders :
          /\ Aligned(i, o) /\ Size(o) <= TotalPages - i
          /\ order' = [order EXCEPT ![i] = o]
          /\ level' = klist0_prepend(level, i, o)
          /\ init_page' = i + Size(o)
  BY DEF ZoneInitStep
<1> DEFINE new == <<"free", i, o>>
<1>2. i < TotalPages /\ UNCHANGED <<area, held, pc, pg, lvl, want>>
  BY DEF ZoneInitStep, callers
<1>3. TypeOK /\ i \in Pages /\ i \in Int /\ Size(o) \in Nat \ {0}
  BY <1>2, ZoneAssumption, ShiftAssumption DEF AllocInv, TypeOK, Pages
<1>4. \A c \in Callers : pc[c] = "idle"
  BY <1>2, ZoneAssumption DEF AllocInv, TypeOK
<1>5. Piles = FreePiles \cup HeldPiles /\ Piles' = FreePiles' \cup HeldPiles'
  BY <1>2, <1>4 DEF Piles, SplitPiles, FreedPiles
<1>6. ASSUME NEW t, NEW x, <<t, i, x>> \in Piles PROVE FALSE
  <2>1. Block(i, x) \subseteq FirstPage..(i - 1) /\ x \in Orders
    BY <1>6, PileFacts
  <2> QED BY <1>3, <2>1, FirstInBlock
<1>7. ~Linked(level, i)
  <2>1. \A l \in Orders : i \notin Nodes(level, l)
    BY <1>5, <1>6, FreePilesAre
  <2> QED BY <1>3, <2>1 DEF Linked, TypeOK
<1>8. i \notin held
  BY <1>5, <1>6 DEF HeldPiles
<1>9. /\ WellFormed(level', Orders, Pages)
      /\ \A l \in Orders : Nodes(level', l) =
            IF l = o THEN Nodes(level, o) \cup {i} ELSE Nodes(level, l)
  BY <1>1, <1>3, <1>7, Structure, PrependLinks
<1>10. init_page' \in FirstPage..TotalPages
  BY <1>1, <1>2, <1>3, ZoneAssumption DEF TypeOK
<1>11. TypeOK'
  BY <1>1, <1>2, <1>3, <1>9, <1>10 DEF TypeOK, WellFormed
<1>12. FreePiles' = FreePiles \cup {new}
  BY <1>9, FreePilesAre, FreePilesAreNext
<1>13. HeldPiles' = HeldPiles
  <2>1. \A x \in held : order'[x] = order[x]
    BY <1>1, <1>3, <1>8 DEF TypeOK
  <2> QED BY <1>2, <2>1 DEF HeldPiles
<1>14. Piles' = Piles \cup {new}
  BY <1>5, <1>12, <1>13
<1>15. Tiles(Piles', FirstPage..(init_page' - 1))
  <2>1. Block(i, o) = i..(init_page' - 1)
    <3>1. i + Size(o) = init_page'
      BY <1>1
    <3>2. i + Size(o) - 1 = init_page' - 1
      BY <1>3, <3>1
    <3> QED BY <3>2, Zenon DEF Block
  <2>2. /\ FirstPage..(init_page' - 1) = (FirstPage..(i - 1)) \cup Block(i, o)
        /\ (FirstPage..(i - 1)) \cap Block(i, o) = {}
    <3>1. i \in Int /\ FirstPage \in Int /\ FirstPage <= i /\ init_page' \in Int /\ i <= init_page'
      BY <1>1, <1>3, <1>10, ZoneAssumption DEF TypeOK
    <3> QED BY <2>1, <3>1, Intervals
  <2>3. Tiles(Piles, FirstPage..(i - 1))
    BY Structure
  <2>4. new[2] = i /\ new[3] = o
    OBVIOUS
  <2> DEFINE X == FirstPage..(i - 1)
             Y == FirstPage..(init_page' - 1)
  <2>5. Y = X \cup Block(new[2], new[3]) /\ X \cap Block(new[2], new[3]) = {} /\ Tiles(Piles, X)
    BY <2>2, <2>3, <2>4
  <2> HIDE DEF X, Y, new, i
  <2>6. \A x \in Y : \E q \in Piles' : x \in Block(q[2], q[3])
    BY <1>14, <2>5 DEF Tiles
  <2>7. \A q \in Piles' : Block(q[2], q[3]) \subseteq Y
    BY <1>14, <2>5 DEF Tiles
  <2>8. \A q, r \in Piles' : q # r => Block(q[2], q[3]) \cap Block(r[2], r[3]) = {}
    <3> SUFFICES ASSUME NEW q \in Piles', NEW r \in Piles', q # r
                 PROVE  Block(q[2], q[3]) \cap Block(r[2], r[3]) = {}
      OBVIOUS
    <3>1. CASE q \in Piles /\ r \in Piles
      BY <2>5, <3>1 DEF Tiles
    <3>2. CASE q \in Piles /\ r = new
      BY <2>5, <3>2 DEF Tiles
    <3>3. CASE q = new /\ r \in Piles
      BY <2>5, <3>3 DEF Tiles
    <3> QED BY <1>14, <3>1, <3>2, <3>3
  <2> QED BY <2>6, <2>7, <2>8 DEF Tiles, Y
<1>16. \A q \in Piles' : q[2] \in Pages /\ q[3] \in Orders /\ Aligned(q[2], q[3])
  <2>1. \A q \in Piles : q[2] \in Pages /\ q[3] \in Orders /\ Aligned(q[2], q[3])
    BY DEF AllocInv
  <2>2. new[2] \in Pages /\ new[3] \in Orders /\ Aligned(new[2], new[3])
    BY <1>1, <1>3
  <2> HIDE DEF new
  <2> QED BY <1>14, <2>1, <2>2
<1>17. LevelsSound'
  <2> SUFFICES ASSUME NEW l \in Orders, NEW x \in Nodes(level', l)
               PROVE  order'[x] = l /\ Aligned(x, l)
    BY DEF LevelsSound
  <2>1. CASE x \in Nodes(level, l)
    <3>a. LevelsSound
      BY DEF AllocInv
    <3>b. level[l] \in Seq(Pages)
      BY <1>3 DEF TypeOK
    <3>c. x \in Pages
      BY <2>1, <3>b DEF Nodes, Range
    <3>1. order[x] = l /\ Aligned(x, l) /\ x \in Pages
      BY <2>1, <3>a, <3>c DEF LevelsSound
    <3>2. x # i
      BY <1>3, <1>7, <2>1 DEF Linked, TypeOK
    <3> QED BY <1>1, <1>3, <3>1, <3>2 DEF TypeOK
  <2>2. CASE x \notin Nodes(level, l)
    <3>1. x = i /\ l = o
      BY <1>9, <2>2
    <3> QED BY <1>1, <1>3, <3>1 DEF TypeOK
  <2> QED BY <2>1, <2>2
<1>18. Partition'
  BY <1>9, <1>15 DEF Partition, Tiles, WellFormed
<1> QED BY <1>2, <1>4, <1>11, <1>16, <1>17, <1>18 DEF AllocInv

-----------------------------------------------------------------------------
(* The theorems. *)

\* The zone before mem_zone_init has looked at a page.
LEMMA InitHolds ==
    ASSUME Init PROVE AllocInv
<1>1. TypeOK
  BY ZoneAssumption DEF Init, TypeOK, Orders
<1>2. /\ \A o \in Orders : Nodes(level, o) = {} /\ DOMAIN level[o] = {}
      /\ \A a \in Areas : Nodes(area, a) = {} /\ DOMAIN area[a] = {}
      /\ DOMAIN level = Orders /\ DOMAIN area = Areas
  BY DEF Init, Nodes, Range
<1>3. Piles = {}
  BY <1>2 DEF Init, Piles, FreePiles, HeldPiles, SplitPiles, FreedPiles
<1>4. LinkedOnce(level) /\ LinkedOnce(area) /\ LevelsSound
  BY <1>2 DEF LinkedOnce, LevelsSound
<1>5. FirstPage..(init_page - 1) = {}
  BY ZoneAssumption DEF Init
<1>6. Partition
  BY <1>3, <1>4, <1>5 DEF Partition
<1> QED BY <1>1, <1>2, <1>3, <1>4, <1>6 DEF AllocInv, Init, Linked

\* The inductive invariant of the allocator when its callers run with
\* interrupts off (system calls) or alone.
THEOREM AllocInvariance ==
    ASSUME Preemptible = {}
    PROVE  Spec => []AllocInv
<1>1. Init => AllocInv
  BY InitHolds
<1>2. AllocInv /\ [Next]_vars => AllocInv'
  <2> SUFFICES ASSUME AllocInv, [Next]_vars PROVE AllocInv'
    OBVIOUS
  <2>1. CASE ZoneInitStep
    BY <2>1, ZoneInitKeeps
  <2>2. ASSUME NEW c \in Callers, NEW o \in Orders, AllocFind(c, o) PROVE AllocInv'
    BY <2>2, AllocFindKeeps
  <2>3. ASSUME NEW c \in Callers, AllocUnlink(c) PROVE AllocInv'
    BY <2>3, AllocUnlinkKeeps
  <2>4. ASSUME NEW c \in Callers, AllocSplit(c) PROVE AllocInv'
    BY <2>4, AllocSplitKeeps
  <2>5. ASSUME NEW c \in Callers, AllocReturn(c) PROVE AllocInv'
    BY <2>5, AllocReturnKeeps
  <2>6. ASSUME NEW c \in Callers, NEW p \in Pages, FreeStart(c, p) PROVE AllocInv'
    BY <2>6, FreeStartKeeps
  <2>7. ASSUME NEW c \in Callers, NEW p \in Pages, AreaRemove(c, p) PROVE AllocInv'
    BY <2>7, AreaRemoveKeeps
  <2>8. ASSUME NEW c \in Callers, NEW p \in Pages, NEW a \in Areas, AreaAdd(c, p, a)
        PROVE  AllocInv'
    BY <2>8, AreaAddKeeps
  <2>9. ASSUME NEW c \in Callers, FreeMerge(c) PROVE AllocInv'
    BY <2>9, FreeMergeKeeps
  <2>10. ASSUME NEW c \in Callers, FreeSearched(c) PROVE AllocInv'
    BY <2>10, FreeSearchedKeeps
  <2>11. ASSUME NEW c \in Callers, FreeInsert(c) PROVE AllocInv'
    BY <2>11, FreeInsertKeeps
  <2>12. CASE UNCHANGED vars
    <3>1. UNCHANGED <<level, order, init_page, held, callers>> /\ area' = area
      BY <2>12 DEF vars, callers
    <3> QED BY <3>1, Structure, AreaStepKeeps DEF AllocInv
  <2> QED BY <2>1, <2>2, <2>3, <2>4, <2>5, <2>6, <2>7, <2>8, <2>9, <2>10, <2>11, <2>12 DEF Next
<1> QED BY <1>1, <1>2, PTL DEF Spec

\* Every variable of the allocator keeps its type.
THEOREM AllocTypeCorrect ==
    ASSUME Preemptible = {} PROVE Spec => []TypeOK
<1>1. AllocInv => TypeOK
  BY DEF AllocInv
<1> QED BY <1>1, AllocInvariance, PTL

\* Every page is in exactly one pile: none is handed out twice, none is lost.
THEOREM PagesArePartitioned ==
    ASSUME Preemptible = {} PROVE Spec => []Partition
<1>1. AllocInv => Partition
  BY DEF AllocInv
<1> QED BY <1>1, AllocInvariance, PTL

\* print_alloc_info never finds a pile of the wrong order or alignment.
THEOREM LevelsAreSound ==
    ASSUME Preemptible = {} PROVE Spec => []LevelsSound
<1>1. AllocInv => LevelsSound
  BY DEF AllocInv
<1> QED BY <1>1, AllocInvariance, PTL

\* A page alloc_pages is about to return is on no page list.
THEOREM FreshPagesAreUnlisted ==
    ASSUME Preemptible = {} PROVE Spec => []FreshIsUnlisted
<1>1. ASSUME AllocInv, NEW c \in Callers, pc[c] = "split", NEW p \in Block(pg[c], lvl[c]),
             Linked(area, p)
      PROVE  FALSE
  <2>1. <<c, pg[c], lvl[c]>> \in Piles
    BY <1>1 DEF Piles, SplitPiles
  <2>a. area \in [Areas -> Seq(Pages)]
    BY <1>1 DEF AllocInv, TypeOK
  <2>2. p \in Pages
    BY <1>1, <2>a DEF Linked, Nodes, Range
  <2>3. p \in held
    BY <1>1, <2>2 DEF AllocInv
  <2>4. <<"held", p, order[p]>> \in Piles
    BY <2>3 DEF Piles, HeldPiles
  <2>5. p \in Int /\ order[p] \in Orders
    BY <1>1, <2>2, ZoneAssumption DEF AllocInv, TypeOK, Pages
  <2>6. p \in Block(p, order[p])
    BY <2>5, FirstInBlock
  <2>7. "held" # c
    BY ZoneAssumption
  <2> DEFINE q == <<c, pg[c], lvl[c]>>
             r == <<"held", p, order[p]>>
  <2>8. q # r /\ q \in Piles /\ r \in Piles /\ p \in Block(q[2], q[3]) /\ p \in Block(r[2], r[3])
    BY <1>1, <2>1, <2>4, <2>6, <2>7
  <2> HIDE DEF q, r
  <2> QED BY <1>1, <2>8 DEF AllocInv, Partition
<1>2. AllocInv => FreshIsUnlisted
  BY <1>1 DEF FreshIsUnlisted
<1> QED BY <1>2, AllocInvariance, PTL

-----------------------------------------------------------------------------
(* Free memory is merged. *)

(***************************************************************************)
(* What free_pages leaves behind: no two buddies are free on one level,    *)
(* and a pile about to be put on its level has no buddy there.  It holds   *)
(* from the start because mem_zone_init takes the largest pile that fits:  *)
(* where it has not, the rest of the zone is shorter than the next size.   *)
(***************************************************************************)
BuddiesMerged ==
    /\ \A o \in Orders : \A p, n \in Nodes(level, o) : ~(n - p = Size(o) /\ OrderAbove(p, o))
    /\ init_page < TotalPages =>
          \A o \in Orders : \A p \in Nodes(level, o) :
              OrderAbove(p, o) => Size(o + 1) > TotalPages - p
    /\ \A c \in Callers : pc[c] = "insert" =>
          LET o == order[pg[c]] IN
          \A n \in Nodes(level, o) : ~LeftBuddy(n, pg[c], o) /\ ~RightBuddy(n, pg[c], o)

MergedInv == AllocInv /\ BuddiesMerged

\* The size of a pile is a multiple of every smaller size.
LEMMA SizesDivide ==
    ASSUME NEW i \in Orders, NEW j \in Orders, i <= j
    PROVE  \E m \in Nat \ {0} : Size(j) = m * Size(i)
<1> DEFINE T == {k \in Nat : i <= k /\ k < MAX_ORDER /\ ~\E m \in Nat \ {0} : Size(k) = m * Size(i)}
<1>1. MAX_ORDER \in Nat /\ i \in Nat /\ j \in Nat /\ j < MAX_ORDER
  BY ZoneAssumption DEF Orders
<1>2. Size(i) \in Nat \ {0}
  BY ShiftAssumption
<1>3. T = {}
  <2> SUFFICES ASSUME T # {} PROVE FALSE
    OBVIOUS
  <2>1. PICK k \in T : \A l \in T : k <= l
    BY LeastNumber
  <2>2. k # i
    <3>1. Size(i) = 1 * Size(i)
      BY <1>2
    <3> QED BY <3>1
  <2>3. k - 1 \in Nat /\ i <= k - 1 /\ k - 1 \notin T /\ k - 1 \in Orders /\ k = (k - 1) + 1
    BY <1>1, <2>1, <2>2 DEF Orders
  <2> DEFINE l == k - 1
  <2>4. PICK m \in Nat \ {0} : Size(l) = m * Size(i)
    BY <1>1, <2>3
  <2>5. Size(k) = 2 * Size(l)
    BY <2>3, ShiftAssumption
  <2>6. Size(k) = (2 * m) * Size(i) /\ 2 * m \in Nat \ {0}
    BY <1>2, <2>4, <2>5
  <2> QED BY <2>6
<1> QED BY <1>1, <1>3

\* Multiples of s compare as their factors do.
LEMMA Factors ==
    ASSUME NEW s \in Nat \ {0}, NEW a \in Int, NEW b \in Int
    PROVE  (a * s < b * s) <=> (a < b)
<1>1. ASSUME a < b PROVE a * s < b * s
  BY <1>1
<1>2. ASSUME ~(a < b) PROVE ~(a * s < b * s)
  BY <1>2
<1> QED BY <1>1, <1>2

\* Two aligned piles with a page in common are nested.
LEMMA Nested ==
    ASSUME NEW i \in Orders, NEW j \in Orders, i <= j,
           NEW q \in Nat, NEW p \in Nat, Aligned(q, i), Aligned(p, j),
           NEW x, x \in Block(q, i), x \in Block(p, j)
    PROVE  Block(q, i) \subseteq Block(p, j)
<1> DEFINE s == Size(i)
<1>1. s \in Nat \ {0}
  BY ShiftAssumption
<1>2. PICK m \in Nat \ {0} : Size(j) = m * s
  BY SizesDivide
<1> HIDE DEF s
<1>3. PICK k \in Nat : q = k * s
  BY DEF Aligned, s
<1>4. PICK l \in Nat : p = l * (m * s)
  BY <1>2 DEF Aligned
<1>5. p = (l * m) * s /\ p + m * s = (l * m + m) * s /\ q + s = (k + 1) * s
  BY <1>1, <1>3, <1>4
<1> DEFINE a == l * m
<1>6. a \in Nat /\ p = a * s /\ p + m * s = (a + m) * s
  BY <1>5
<1>7. x \in Int /\ q <= x /\ x < q + s /\ p <= x /\ x < p + m * s
  BY <1>1, <1>2 DEF Block, s
<1> HIDE DEF a
<1>8. a * s < (k + 1) * s /\ k * s < (a + m) * s
  BY <1>1, <1>3, <1>5, <1>6, <1>7
<1>9. a < k + 1 /\ k < a + m
  BY <1>1, <1>6, <1>8, Factors
<1>10. a <= k /\ k + 1 <= a + m
  BY <1>6, <1>9
<1>11. ~(k * s < a * s) /\ ~((a + m) * s < (k + 1) * s)
  BY <1>1, <1>6, <1>10, Factors
<1>12. p <= q /\ q + s <= p + m * s
  BY <1>1, <1>3, <1>5, <1>6, <1>11
<1> QED BY <1>1, <1>2, <1>12 DEF Block, s

\* Two aligned piles of one order with a page in common are one.
LEMMA SameOrderSame ==
    ASSUME NEW i \in Orders, NEW q \in Nat, NEW p \in Nat, Aligned(q, i), Aligned(p, i),
           NEW x, x \in Block(q, i), x \in Block(p, i)
    PROVE  p = q
<1>1. Size(i) \in Nat \ {0} /\ i <= i
  BY ShiftAssumption, ZoneAssumption DEF Orders
<1>2. Block(q, i) \subseteq Block(p, i) /\ Block(p, i) \subseteq Block(q, i)
  BY <1>1, Nested
<1>3. q \in Block(q, i) /\ p \in Block(p, i)
  BY FirstInBlock
<1> QED BY <1>1, <1>2, <1>3 DEF Block

\* Every aligned pile is one half of an aligned pile of the next order.
LEMMA PairOf ==
    ASSUME NEW i \in Orders, i + 1 \in Orders, NEW q \in Nat, Aligned(q, i)
    PROVE  \E u \in Nat : Aligned(u, i + 1) /\ (q = u \/ q = u + Size(i))
<1> DEFINE s == Size(i)
<1>1. s \in Nat \ {0} /\ Size(i + 1) = 2 * s
  BY ShiftAssumption
<1> HIDE DEF s
<1>2. PICK k \in Nat : q = k * s
  BY DEF Aligned, s
<1>3. PICK h \in Nat : k = 2 * h \/ k = 2 * h + 1
  <2>1. k \div 2 \in Nat /\ (k = 2 * (k \div 2) \/ k = 2 * (k \div 2) + 1)
    OBVIOUS
  <2> QED BY <2>1
<1> DEFINE u == h * (2 * s)
<1>4. u \in Nat /\ u = (2 * h) * s /\ (2 * h + 1) * s = (2 * h) * s + s
  BY <1>1
<1>5. q = u \/ q = u + s
  BY <1>2, <1>3, <1>4
<1>6. h <= u
  BY <1>1
<1>7. Aligned(u, i + 1)
  BY <1>1, <1>4, <1>6 DEF Aligned
<1> QED BY <1>4, <1>5, <1>7 DEF s

\* Pages in the levels are numbers and their piles lie where they should.
LEMMA FreePileFacts ==
    ASSUME AllocInv, NEW o \in Orders, NEW p \in Nodes(level, o)
    PROVE  <<"free", p, o>> \in Piles /\ p \in Nat /\ p \in Pages /\ Aligned(p, o)
<1>1. <<"free", p, o>> \in Piles
  BY FreePilesAre DEF Piles
<1>2. p \in Pages /\ Aligned(p, o)
  BY <1>1, PileFacts
<1>3. p \in Nat
  BY <1>2, ZoneAssumption DEF Pages
<1> QED BY <1>1, <1>2, <1>3

\* Two free piles with a page in common are one.
LEMMA FreePilesApart ==
    ASSUME AllocInv, NEW o \in Orders, NEW p \in Nodes(level, o),
           NEW i \in Orders, NEW q \in Nodes(level, i),
           NEW x, x \in Block(p, o), x \in Block(q, i)
    PROVE  o = i /\ p = q
<1>1. <<"free", p, o>> \in Piles /\ <<"free", q, i>> \in Piles
  BY FreePileFacts
<1> DEFINE a == <<"free", p, o>>
           b == <<"free", q, i>>
<1>2. a[2] = p /\ a[3] = o /\ b[2] = q /\ b[3] = i
  OBVIOUS
<1> HIDE DEF a, b
<1>3. a = b
  BY <1>1, <1>2 DEF AllocInv, Partition, a, b
<1> QED BY <1>2, <1>3

\* Where all buddies are merged, a free aligned run lies within one free pile.
LEMMA MergedIsFull ==
    ASSUME AllocInv, BuddiesMerged, NEW o \in Orders,
           \A i \in o..(MAX_ORDER - 1) : klist0_empty(level, i),
           NEW p \in Pages, Aligned(p, o),
           Block(p, o) \subseteq UNION {Block(q[2], q[3]) : q \in FreePiles}
    PROVE  FALSE
<1> DEFINE Here(i) == {q \in Nodes(level, i) : Block(q, i) \subseteq Block(p, o)}
           T == {i \in Nat : i \in Orders /\ i < o /\ Here(i) # {}}
<1>1. p \in Nat /\ MAX_ORDER \in Nat /\ Orders \subseteq Nat
  BY ZoneAssumption DEF Pages, Orders
<1>2. ASSUME NEW x \in Block(p, o)
      PROVE  \E i \in Orders : \E q \in Nodes(level, i) : i < o /\ x \in Block(q, i) /\ q \in Here(i)
  <2>1. PICK t \in FreePiles : x \in Block(t[2], t[3])
    OBVIOUS
  <2>a. PICK i \in Orders : \E q \in Nodes(level, i) : t = <<"free", q, i>>
    BY FreePilesAre
  <2>2. PICK q \in Nodes(level, i) : t = <<"free", q, i>>
    BY <2>a
  <2>3. x \in Block(q, i)
    BY <2>1, <2>2
  <2>4. i < o
    <3> SUFFICES ASSUME ~(i < o) PROVE FALSE
      OBVIOUS
    <3>1. i \in o..(MAX_ORDER - 1)
      BY <1>1 DEF Orders
    <3>2. level[i] = <<>>
      BY <3>1 DEF klist0_empty
    <3> QED BY <3>2 DEF Nodes, Range
  <2>b. q \in Nat /\ Aligned(q, i)
    BY FreePileFacts
  <2>5. q \in Nat /\ Aligned(q, i) /\ i <= o
    BY <1>1, <2>4, <2>b
  <2>6. Block(q, i) \subseteq Block(p, o)
    BY <1>1, <2>3, <2>5, Nested
  <2> QED BY <2>3, <2>4, <2>6
<1>3. T # {}
  <2>1. p \in Block(p, o)
    BY <1>1, FirstInBlock
  <2> QED BY <1>1, <1>2, <2>1
<1>4. PICK i \in T : \A k \in T : i <= k
  BY <1>3, LeastNumber
<1>5. PICK q \in Nodes(level, i) : Block(q, i) \subseteq Block(p, o)
  BY <1>4
<1>6. i \in Orders /\ i + 1 \in Orders /\ i + 1 <= o /\ i + 1 < MAX_ORDER
  BY <1>1, <1>4 DEF Orders
<1>7. q \in Nat /\ Aligned(q, i)
  BY <1>6, FreePileFacts
<1>8. PICK u \in Nat : Aligned(u, i + 1) /\ (q = u \/ q = u + Size(i))
  BY <1>6, <1>7, PairOf
<1>9. Size(i) \in Nat \ {0}
  BY <1>6, ShiftAssumption
<1>10. /\ Block(u, i + 1) = Block(u, i) \cup Block(u + Size(i), i)
       /\ Aligned(u, i) /\ Aligned(u + Size(i), i)
  BY <1>6, <1>8, Halves, AlignedHalves
<1>11. q \in Block(u, i + 1) /\ q \in Block(q, i)
  BY <1>6, <1>7, <1>8, <1>9, <1>10, FirstInBlock
<1>12. Block(u, i + 1) \subseteq Block(p, o)
  BY <1>1, <1>5, <1>6, <1>8, <1>11, Nested
<1> DEFINE b == IF q = u THEN u + Size(i) ELSE u
<1>13. b \in Nat /\ Aligned(b, i)
  BY <1>8, <1>9, <1>10
<1>14. b \in Block(b, i)
  BY <1>6, <1>13, FirstInBlock
<1>15. b \in Block(u, i + 1)
  BY <1>8, <1>10, <1>14
<1> HIDE DEF b, T, Here
<1>a. PICK j \in Orders : \E r \in Nodes(level, j) : j < o /\ b \in Block(r, j) /\ r \in Here(j)
  BY <1>2, <1>12, <1>15
<1>16. PICK r \in Nodes(level, j) : j < o /\ b \in Block(r, j) /\ r \in Here(j)
  BY <1>a
<1>17. i <= j
  BY <1>1, <1>4, <1>16 DEF T
<1>18. r \in Nat /\ Aligned(r, j)
  BY <1>16, FreePileFacts
<1>19. CASE j = i
  <2>1. r = b
    BY <1>6, <1>13, <1>14, <1>16, <1>18, <1>19, SameOrderSame
  <2>2. u \in Nodes(level, i) /\ u + Size(i) \in Nodes(level, i)
    BY <1>5, <1>8, <1>16, <1>19, <2>1 DEF b
  <2>3. OrderAbove(u, i)
    BY <1>6, <1>8 DEF OrderAbove
  <2> QED BY <1>6, <1>8, <1>9, <2>2, <2>3 DEF BuddiesMerged
<1>20. CASE j # i
  <2>1. i + 1 <= j
    BY <1>1, <1>6, <1>17, <1>20
  <2>2. Block(u, i + 1) \subseteq Block(r, j)
    BY <1>6, <1>8, <1>15, <1>16, <1>18, <2>1, Nested
  <2>3. q \in Block(r, j)
    BY <1>11, <2>2
  <2> QED BY <1>5, <1>6, <1>11, <1>16, <1>20, <2>3, FreePilesApart
<1> QED BY <1>19, <1>20

-----------------------------------------------------------------------------
(* No two free buddies: one lemma per step of the allocator. *)

\* No two buddies are free on one of the levels L.
NoBuddies(L) ==
    \A o \in Orders : \A p, n \in Nodes(L, o) : ~(n - p = Size(o) /\ OrderAbove(p, o))

\* Taking piles off their levels makes no buddies.
LEMMA FewerKeepApart ==
    ASSUME NEW L, NEW M, NoBuddies(L), \A o \in Orders : Nodes(M, o) \subseteq Nodes(L, o)
    PROVE  NoBuddies(M)
  BY DEF NoBuddies

\* Neither does a pile without a buddy that is put on its level.
LEMMA OneMoreKeepsApart ==
    ASSUME NEW L, NEW M, NoBuddies(L), NEW i \in Orders, NEW x \in Nat,
           \A o \in Orders : Nodes(M, o) = IF o = i THEN Nodes(L, i) \cup {x} ELSE Nodes(L, o),
           \A n \in Nodes(L, i) : /\ ~(n - x = Size(i) /\ OrderAbove(x, i))
                                  /\ ~(x - n = Size(i) /\ OrderAbove(n, i))
    PROVE  NoBuddies(M)
<1> SUFFICES ASSUME NEW o \in Orders, NEW p \in Nodes(M, o), NEW n \in Nodes(M, o),
                    n - p = Size(o), OrderAbove(p, o)
             PROVE  FALSE
  BY DEF NoBuddies
<1>1. CASE o # i
  BY <1>1 DEF NoBuddies
<1>2. CASE o = i
  <2>1. Size(i) \in Nat \ {0} /\ x - x = 0
    BY ShiftAssumption
  <2>2. p \in Nodes(L, i) \cup {x} /\ n \in Nodes(L, i) \cup {x}
    BY <1>2
  <2>3. CASE p \in Nodes(L, i) /\ n \in Nodes(L, i)
    BY <1>2, <2>3 DEF NoBuddies
  <2>4. CASE p = x
    BY <1>2, <2>1, <2>2, <2>4
  <2>5. CASE n = x
    BY <1>2, <2>1, <2>2, <2>5
  <2> QED BY <2>2, <2>3, <2>4, <2>5
<1> QED BY <1>1, <1>2

\* What has to be shown of a step of the one caller inside the allocator.
LEMMA AssembleMerged ==
    ASSUME NEW c \in Callers, \A d \in Callers \ {c} : pc'[d] = "idle",
           init_page' = TotalPages, NoBuddies(level'),
           pc'[c] = "insert" =>
             \A n \in Nodes(level', order'[pg'[c]]) :
                 ~LeftBuddy(n, pg'[c], order'[pg'[c]]) /\ ~RightBuddy(n, pg'[c], order'[pg'[c]])
    PROVE  BuddiesMerged'
<1>1. ~(init_page' < TotalPages)
  BY ZoneAssumption
<1> QED BY <1>1 DEF BuddiesMerged, NoBuddies

\* The steps that leave the levels alone and do not end the search for a buddy.
LEMMA SameLevels ==
    ASSUME AllocInv, BuddiesMerged, Preemptible = {}, NEW c \in Callers, CanRun(c),
           UNCHANGED <<level, init_page>>, NEW l, pc' = [pc EXCEPT ![c] = l] \/ pc' = pc,
           pc'[c] # "insert"
    PROVE  BuddiesMerged'
<1>1. \A d \in Callers \ {c} : pc[d] = "idle"
  BY Solo
<1>2. \A d \in Callers \ {c} : pc'[d] = "idle"
  BY <1>1 DEF AllocInv, TypeOK
<1>3. init_page' = TotalPages
  BY DEF CanRun
<1>4. NoBuddies(level')
  BY DEF BuddiesMerged, NoBuddies
<1> QED BY <1>2, <1>3, <1>4, AssembleMerged

\* mem_zone_init takes the largest pile that fits, so its neighbour on the left
\* is no buddy: together they would have been one pile.
LEMMA ZoneInitMerged ==
    ASSUME AllocInv, BuddiesMerged, ZoneInitStep
    PROVE  BuddiesMerged'
<1> DEFINE i == init_page
<1>1. PICK o \in Orders :
          /\ Aligned(i, o) /\ Size(o) <= TotalPages - i
          /\ ~(OrderAbove(i, o) /\ Size(o + 1) <= TotalPages - i)
          /\ level' = klist0_prepend(level, i, o)
          /\ init_page' = i + Size(o)
  BY DEF ZoneInitStep
<1>2. i < TotalPages /\ UNCHANGED <<pc, pg>>
  BY DEF ZoneInitStep, callers
<1>3. /\ TypeOK /\ i \in Pages /\ i \in Nat /\ TotalPages \in Nat
      /\ Size(o) \in Nat \ {0} /\ Size(o + 1) = 2 * Size(o)
  BY <1>2, ZoneAssumption, ShiftAssumption DEF AllocInv, TypeOK, Pages
<1>4. ASSUME NEW l \in Orders, NEW n \in Nodes(level, l) PROVE n \in Nat /\ n < i
  <2>1. <<"free", n, l>> \in Piles /\ n \in Nat
    BY FreePileFacts
  <2>2. n \in Block(n, l) /\ Block(n, l) \subseteq FirstPage..(i - 1)
    BY <2>1, FirstInBlock, PileFacts
  <2> QED BY <1>3, <2>1, <2>2
<1>5. \A l \in Orders : i \notin Nodes(level, l)
  BY <1>3, <1>4
<1>6. ~Linked(level, i)
  BY <1>3, <1>5 DEF Linked, TypeOK
<1>7. \A l \in Orders : Nodes(level', l) =
          IF l = o THEN Nodes(level, o) \cup {i} ELSE Nodes(level, l)
  BY <1>1, <1>3, <1>6, Structure, PrependLinks
<1>8. ASSUME NEW n \in Nodes(level, o), i - n = Size(o), OrderAbove(n, o) PROVE FALSE
  <2>1. Size(o + 1) > TotalPages - n
    BY <1>2, <1>8 DEF BuddiesMerged
  <2> QED BY <1>1, <1>3, <1>4, <1>8, <2>1
<1>9. \A n \in Nodes(level, o) : ~(n - i = Size(o))
  BY <1>3, <1>4
<1>10. NoBuddies(level)
  BY DEF BuddiesMerged, NoBuddies
<1>11. NoBuddies(level')
  BY <1>3, <1>7, <1>8, <1>9, <1>10, OneMoreKeepsApart
<1>12. ASSUME NEW l \in Orders, NEW p \in Nodes(level', l), OrderAbove(p, l)
       PROVE  Size(l + 1) > TotalPages - p
  <2>1. CASE p \in Nodes(level, l)
    BY <1>2, <1>12, <2>1 DEF BuddiesMerged
  <2>2. CASE p \notin Nodes(level, l)
    <3>1. l = o /\ p = i
      BY <1>7, <2>2
    <3> QED BY <1>1, <1>3, <1>12, <3>1
  <2> QED BY <2>1, <2>2
<1>13. \A c \in Callers : pc'[c] = "idle"
  BY <1>2, <1>3 DEF AllocInv, TypeOK
<1> QED BY <1>11, <1>12, <1>13 DEF BuddiesMerged, NoBuddies

\* alloc_pages takes a pile off its level.
LEMMA AllocUnlinkMerged ==
    ASSUME AllocInv, BuddiesMerged, Preemptible = {}, NEW c \in Callers, AllocUnlink(c)
    PROVE  BuddiesMerged'
<1> DEFINE i == lvl[c]
<1>1. \A d \in Callers \ {c} : pc[d] = "idle"
  BY Solo DEF AllocUnlink
<1>2. /\ pc[c] = "unlink" /\ init_page' = TotalPages
      /\ pc' = [pc EXCEPT ![c] = "split"]
  BY DEF AllocUnlink, CanRun
<1>3. TypeOK /\ i \in Orders /\ ~klist0_empty(level, i)
  BY <1>2 DEF AllocInv, TypeOK
<1>4. level' = klist0_unlink_first(level, i)
  BY <1>3 DEF AllocUnlink
<1>5. (\A d \in Callers \ {c} : pc'[d] = "idle") /\ pc'[c] = "split"
  BY <1>1, <1>2, <1>3 DEF TypeOK
<1>6. \A o \in Orders : Nodes(level', o) \subseteq Nodes(level, o)
  <2> HIDE DEF i
  <2> QED BY <1>3, <1>4, Structure, UnlinkFirst
<1>7. NoBuddies(level')
  BY <1>6, FewerKeepApart DEF BuddiesMerged, NoBuddies
<1> QED BY <1>2, <1>5, <1>7, AssembleMerged

\* alloc_pages puts the lower half on the level below: its buddy is the half
\* that is kept.
LEMMA AllocSplitMerged ==
    ASSUME AllocInv, BuddiesMerged, Preemptible = {}, NEW c \in Callers, AllocSplit(c)
    PROVE  BuddiesMerged'
<1> DEFINE i == lvl[c] - 1
           p == pg[c]
           own == <<c, p, lvl[c]>>
<1>1. \A d \in Callers \ {c} : pc[d] = "idle"
  BY Solo DEF AllocSplit
<1>2. /\ pc[c] = "split" /\ init_page = TotalPages /\ lvl[c] > want[c]
      /\ level' = klist0_append(level, p, i)
      /\ UNCHANGED <<init_page, pc>>
  BY DEF AllocSplit, CanRun
<1>3. lvl[c] \in Orders /\ want[c] \in Orders
  BY DEF AllocInv, TypeOK
<1>4. /\ i \in Orders /\ i + 1 = lvl[c] /\ i + 1 \in Orders
      /\ Size(i) \in Nat \ {0} /\ Size(i + 1) = 2 * Size(i)
  BY <1>2, <1>3, ZoneAssumption, ShiftAssumption DEF Orders
<1>5. own \in Piles
  BY <1>1, <1>2, SoloPiles DEF Own
<1>6. p \in Pages /\ Aligned(p, i + 1)
  BY <1>4, <1>5, PileFacts
<1>7. p \in Nat
  BY <1>6, ZoneAssumption DEF Pages
<1>8. ~Linked(level, p)
  BY <1>5, OwnIsAlone
<1>9. \A o \in Orders : Nodes(level', o) =
          IF o = i THEN Nodes(level, i) \cup {p} ELSE Nodes(level, o)
  <2> HIDE DEF i, p
  <2> QED BY <1>2, <1>4, <1>6, <1>8, Structure, AppendLinks
<1>10. ASSUME NEW n \in Nodes(level, i), n - p = Size(i) PROVE FALSE
  <2> DEFINE free == <<"free", n, i>>
  <2>1. free \in Piles /\ n \in Nat
    BY <1>4, FreePileFacts
  <2>2. n \in Block(n, i) /\ n \in Block(p, i + 1)
    BY <1>4, <1>7, <1>10, <2>1, FirstInBlock DEF Block
  <2>3. free[2] = n /\ free[3] = i /\ own[2] = p /\ own[3] = i + 1 /\ free # own
    BY <1>4, ZoneAssumption
  <2> HIDE DEF free, own
  <2> QED BY <1>5, <2>1, <2>2, <2>3 DEF AllocInv, Partition
<1>11. ASSUME NEW n \in Nodes(level, i), p - n = Size(i), OrderAbove(n, i) PROVE FALSE
  <2>1. n \in Nat
    BY <1>4, FreePileFacts
  <2>2. Aligned(n, i + 1)
    BY <1>11 DEF OrderAbove
  <2>3. p \in Block(n, i + 1) /\ p \in Block(p, i + 1)
    BY <1>4, <1>7, <1>11, <2>1 DEF Block
  <2>4. p = n
    BY <1>4, <1>6, <1>7, <2>1, <2>2, <2>3, SameOrderSame
  <2> QED BY <1>4, <1>7, <1>11, <2>4
<1>12. NoBuddies(level)
  BY DEF BuddiesMerged, NoBuddies
<1>13. NoBuddies(level')
  <2> HIDE DEF i, p
  <2> QED BY <1>4, <1>7, <1>9, <1>10, <1>11, <1>12, OneMoreKeepsApart
<1> QED BY <1>1, <1>2, <1>13, AssembleMerged

\* free_pages takes a buddy off its level and goes on searching one level up.
LEMMA FreeMergeMerged ==
    ASSUME AllocInv, BuddiesMerged, Preemptible = {}, NEW c \in Callers, FreeMerge(c)
    PROVE  BuddiesMerged'
<1> DEFINE p == pg[c]
           o == order[p]
           own == <<c, p, o>>
<1>1. \A d \in Callers \ {c} : pc[d] = "idle"
  BY Solo DEF FreeMerge
<1>2. PICK n \in Nodes(level, o) :
          /\ LeftBuddy(n, p, o) \/ RightBuddy(n, p, o)
          /\ level' = klist0_unlink(level, n, o)
          /\ pc' = [pc EXCEPT ![c] = IF o + 1 < MAX_ORDER THEN "merge" ELSE "insert"]
  BY DEF FreeMerge
<1>3. pc[c] = "merge" /\ init_page' = TotalPages
  BY DEF FreeMerge, CanRun
<1>4. TypeOK
  BY DEF AllocInv
<1>5. own \in Piles
  BY <1>1, <1>3, SoloPiles DEF Own
<1>6. o \in Orders
  BY <1>5, PileFacts
<1>7. o + 1 < MAX_ORDER
  BY <1>2 DEF LeftBuddy, RightBuddy, OrderAbove
<1>8. \A l \in Orders : Nodes(level', l) \subseteq Nodes(level, l)
  <2>1. LET R == klist0_unlink(level, n, o) IN
           \A r \in Orders : Nodes(R, r) =
                 IF r = o THEN Nodes(level, o) \ {n} ELSE Nodes(level, r)
    <3> HIDE DEF o
    <3> QED BY <1>2, <1>6, Structure, UnlinkNode
  <2> QED BY <1>2, <2>1
<1>9. (\A d \in Callers \ {c} : pc'[d] = "idle") /\ pc'[c] = "merge"
  BY <1>1, <1>2, <1>4, <1>7 DEF TypeOK
<1>10. NoBuddies(level')
  BY <1>8, FewerKeepApart DEF BuddiesMerged, NoBuddies
<1> QED BY <1>3, <1>9, <1>10, AssembleMerged

\* free_pages has found no buddy.
LEMMA FreeSearchedMerged ==
    ASSUME AllocInv, BuddiesMerged, Preemptible = {}, NEW c \in Callers, FreeSearched(c)
    PROVE  BuddiesMerged'
<1>1. \A d \in Callers \ {c} : pc[d] = "idle"
  BY Solo DEF FreeSearched
<1>2. /\ init_page' = TotalPages /\ pc' = [pc EXCEPT ![c] = "insert"]
      /\ UNCHANGED <<level, order, pg>>
  BY DEF FreeSearched, CanRun
<1>3. \A n \in Nodes(level, order[pg[c]]) :
          ~LeftBuddy(n, pg[c], order[pg[c]]) /\ ~RightBuddy(n, pg[c], order[pg[c]])
  BY DEF FreeSearched
<1>4. \A d \in Callers \ {c} : pc'[d] = "idle"
  BY <1>1, <1>2 DEF AllocInv, TypeOK
<1>5. NoBuddies(level')
  BY <1>2 DEF BuddiesMerged, NoBuddies
<1> QED BY <1>2, <1>3, <1>4, <1>5, AssembleMerged

\* free_pages puts the merged pile on its level, where it has no buddy.
LEMMA FreeInsertMerged ==
    ASSUME AllocInv, BuddiesMerged, Preemptible = {}, NEW c \in Callers, FreeInsert(c)
    PROVE  BuddiesMerged'
<1> DEFINE p == pg[c]
           o == order[p]
           own == <<c, p, o>>
<1>1. \A d \in Callers \ {c} : pc[d] = "idle"
  BY Solo DEF FreeInsert
<1>2. /\ pc[c] = "insert" /\ init_page' = TotalPages
      /\ level' = klist0_append(level, p, o)
      /\ pc' = [pc EXCEPT ![c] = "idle"]
  BY DEF FreeInsert, CanRun
<1>3. own \in Piles
  BY <1>1, <1>2, SoloPiles DEF Own
<1>4. p \in Pages /\ o \in Orders
  BY <1>3, PileFacts
<1>5. p \in Nat
  BY <1>4, ZoneAssumption DEF Pages
<1>6. ~Linked(level, p)
  BY <1>3, OwnIsAlone
<1>7. \A l \in Orders : Nodes(level', l) =
          IF l = o THEN Nodes(level, o) \cup {p} ELSE Nodes(level, l)
  <2> HIDE DEF o, p
  <2> QED BY <1>2, <1>4, <1>6, Structure, AppendLinks
<1>8. \A n \in Nodes(level, o) : /\ ~(n - p = Size(o) /\ OrderAbove(p, o))
                                 /\ ~(p - n = Size(o) /\ OrderAbove(n, o))
  BY <1>2 DEF BuddiesMerged, LeftBuddy, RightBuddy
<1>9. NoBuddies(level)
  BY DEF BuddiesMerged, NoBuddies
<1>10. NoBuddies(level')
  <2> HIDE DEF o, p
  <2> QED BY <1>4, <1>5, <1>7, <1>8, <1>9, OneMoreKeepsApart
<1>11. (\A d \in Callers \ {c} : pc'[d] = "idle") /\ pc'[c] = "idle"
  BY <1>1, <1>2 DEF AllocInv, TypeOK
<1> QED BY <1>2, <1>10, <1>11, AssembleMerged

\* The inductive invariant with the merged buddies: alloc_pages and
\* free_pages keep the piles apart and leave no two free buddies behind.
THEOREM MergedInvariance ==
    ASSUME Preemptible = {}
    PROVE  Spec => []MergedInv
<1>1. Init => BuddiesMerged
  <2> SUFFICES ASSUME Init PROVE BuddiesMerged
    OBVIOUS
  <2>1. \A o \in Orders : Nodes(level, o) = {}
    BY DEF Init, Nodes, Range
  <2>2. \A c \in Callers : pc[c] = "idle"
    BY DEF Init
  <2> QED BY <2>1, <2>2 DEF BuddiesMerged
<1>2. AllocInv /\ BuddiesMerged /\ [Next]_vars => BuddiesMerged'
  <2> SUFFICES ASSUME AllocInv, BuddiesMerged, [Next]_vars PROVE BuddiesMerged'
    OBVIOUS
  <2>1. CASE ZoneInitStep
    BY <2>1, ZoneInitMerged
  <2>2. ASSUME NEW c \in Callers, NEW o \in Orders, AllocFind(c, o) PROVE BuddiesMerged'
    <3>1. /\ CanRun(c) /\ UNCHANGED <<level, init_page>>
          /\ pc' = [pc EXCEPT ![c] = "unlink"]
      BY <2>2 DEF AllocFind
    <3>2. pc'[c] # "insert"
      BY <3>1 DEF AllocInv, TypeOK
    <3> QED BY <3>1, <3>2, SameLevels
  <2>3. ASSUME NEW c \in Callers, AllocUnlink(c) PROVE BuddiesMerged'
    BY <2>3, AllocUnlinkMerged
  <2>4. ASSUME NEW c \in Callers, AllocSplit(c) PROVE BuddiesMerged'
    BY <2>4, AllocSplitMerged
  <2>5. ASSUME NEW c \in Callers, AllocReturn(c) PROVE BuddiesMerged'
    <3>1. /\ CanRun(c) /\ UNCHANGED <<level, init_page>>
          /\ pc' = [pc EXCEPT ![c] = "idle"]
      BY <2>5 DEF AllocReturn
    <3>2. pc'[c] # "insert"
      BY <3>1 DEF AllocInv, TypeOK
    <3> QED BY <3>1, <3>2, SameLevels
  <2>6. ASSUME NEW c \in Callers, NEW p \in Pages, FreeStart(c, p) PROVE BuddiesMerged'
    <3>1. /\ CanRun(c) /\ UNCHANGED <<level, init_page>>
          /\ pc' = [pc EXCEPT ![c] = "merge"]
      BY <2>6 DEF FreeStart
    <3>2. pc'[c] # "insert"
      BY <3>1 DEF AllocInv, TypeOK
    <3> QED BY <3>1, <3>2, SameLevels
  <2>7. ASSUME NEW c \in Callers, NEW p \in Pages,
               AreaRemove(c, p) \/ \E a \in Areas : AreaAdd(c, p, a)
        PROVE  BuddiesMerged'
    <3>1. /\ CanRun(c) /\ UNCHANGED <<level, init_page>> /\ pc' = pc /\ pc[c] = "idle"
      BY <2>7 DEF AreaRemove, AreaAdd, callers
    <3> QED BY <3>1, SameLevels
  <2>8. ASSUME NEW c \in Callers, FreeMerge(c) PROVE BuddiesMerged'
    BY <2>8, FreeMergeMerged
  <2>9. ASSUME NEW c \in Callers, FreeSearched(c) PROVE BuddiesMerged'
    BY <2>9, FreeSearchedMerged
  <2>10. ASSUME NEW c \in Callers, FreeInsert(c) PROVE BuddiesMerged'
    BY <2>10, FreeInsertMerged
  <2>11. CASE UNCHANGED vars
    BY <2>11 DEF vars, BuddiesMerged
  <2> QED BY <2>1, <2>2, <2>3, <2>4, <2>5, <2>6, <2>7, <2>8, <2>9, <2>10, <2>11 DEF Next
<1> QED BY <1>1, <1>2, AllocInvariance, PTL DEF Spec, MergedInv

\* alloc_pages returns NULL only when no aligned run of 2^o free pages is left.
THEOREM AllocationFailsOnlyWhenFull ==
    ASSUME Preemptible = {} PROVE Spec => []FailsOnlyWhenFull
<1>1. MergedInv => FailsOnlyWhenFull
  BY MergedIsFull DEF MergedInv, FailsOnlyWhenFull
<1> QED BY <1>1, MergedInvariance, PTL
=============================================================================
