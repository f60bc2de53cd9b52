------------------------------ MODULE PageAlloc ------------------------------
(***************************************************************************)
(* The buddy page allocator (kernel/page_alloc.c): one zone.               *)
(*                                                                         *)
(* A pile is 2^order contiguous pages named by the index of its first      *)
(* page.  level[i] is the list zone->alloc_levels[i], order[p] is          *)
(* p->private.order (meaningful in the first page of a pile only) and area *)
(* holds the page lists the callers link pages on through area_list.       *)
(*                                                                         *)
(* The allocator takes no lock.  A system call runs with interrupts off,   *)
(* so for it an operation is indivisible; a kernel thread or a page fault  *)
(* (a trap gate) can be preempted between any two steps.  Preemptible is   *)
(* the set of callers of the second kind.                                  *)
(***************************************************************************)
EXTENDS Klist0, Integers

CONSTANTS
    MAX_ORDER,    \* number of allocation levels
    TotalPages,   \* zone->total_pages
    FirstPage,    \* consumed_pages: the pages below hold the struct page array
    Callers,      \* flows of control that use the allocator
    Preemptible,  \* the ones that run with interrupts enabled
    Areas,        \* heads of page lists: pg_list, and m_plist of the memory areas
    MaxListed     \* bound: pages on a page list

ASSUME ZoneAssumption ==
    /\ MAX_ORDER \in Nat \ {0}
    /\ TotalPages \in Nat
    /\ FirstPage \in 1..TotalPages
    /\ Preemptible \subseteq Callers
    /\ {"free", "held"} \cap Callers = {}

\* 1 << o
Size(o) == 2 ^ o

Orders == 0..(MAX_ORDER - 1)

\* What shifting does, for the orders in use.
ASSUME ShiftAssumption ==
    /\ Size(0) = 1
    /\ \A o \in Orders : Size(o) \in Nat \ {0} /\ Size(o + 1) = 2 * Size(o)

Pages == FirstPage..(TotalPages - 1)

VARIABLES
    level,      \* zone->alloc_levels
    order,      \* page->private.order
    area,       \* the lists linked through page->area_list
    init_page,  \* the loop variable of mem_zone_init
    held,       \* the piles callers have been given and have not returned
    pc, pg, lvl, want  \* of each caller: location, and the locals pile or pg, i and order

vars == <<level, order, area, init_page, held, pc, pg, lvl, want>>
callers == <<pc, pg, lvl, want>>

\* The state has its shape: no pile is put on a level past the last one.
TypeOK ==
    /\ level \in [Orders -> Seq(Pages)]
    /\ order \in [Pages -> Orders]
    /\ area \in [Areas -> Seq(Pages)]
    /\ init_page \in FirstPage..TotalPages
    /\ held \subseteq Pages
    /\ pc \in [Callers -> {"idle", "unlink", "split", "merge", "insert"}]
    /\ pg \in [Callers -> Pages \cup {0}]
    /\ lvl \in [Callers -> Orders]
    /\ want \in [Callers -> Orders]

Aligned(index, o) == \E k \in 0..index : index = k * Size(o)

\* idx_order(index) > o, where idx_order is MAX_ORDER - 1 at most
OrderAbove(index, o) == o + 1 < MAX_ORDER /\ Aligned(index, o + 1)

Block(p, o) == p..(p + Size(o) - 1)

-----------------------------------------------------------------------------
(* mem_zone_init: the zone is cut into the largest aligned piles that fit. *)

Init ==
    /\ level = [o \in Orders |-> <<>>]
    /\ order = [p \in Pages |-> 0]
    /\ area = [a \in Areas |-> <<>>]
    /\ init_page = FirstPage
    /\ held = {}
    /\ pc = [c \in Callers |-> "idle"]
    /\ pg = [c \in Callers |-> 0]
    /\ lvl = [c \in Callers |-> 0]
    /\ want = [c \in Callers |-> 0]

ZoneInitStep ==
    /\ init_page < TotalPages
    /\ \E o \in Orders :
          /\ Aligned(init_page, o) /\ Size(o) <= TotalPages - init_page
          /\ ~(OrderAbove(init_page, o) /\ Size(o + 1) <= TotalPages - init_page)
          /\ order' = [order EXCEPT ![init_page] = o]
          /\ level' = klist0_prepend(level, init_page, o)
          /\ init_page' = init_page + Size(o)
    /\ UNCHANGED <<area, held, callers>>

-----------------------------------------------------------------------------
(* alloc_pages *)

\* Nobody who cannot be preempted is in the middle of an operation.
CanRun(c) ==
    /\ init_page = TotalPages
    /\ \A d \in Callers \ {c} : pc[d] = "idle" \/ d \in Preemptible

(***************************************************************************)
(* alloc_pages(o) finds the lowest level that has a pile and reads its     *)
(* first pile.  When there is none it returns NULL and changes nothing.    *)
(***************************************************************************)
AllocFind(c, o) ==
    /\ CanRun(c)
    /\ pc[c] = "idle"
    /\ \E i \in o..(MAX_ORDER - 1) :
          /\ ~klist0_empty(level, i)
          /\ \A j \in o..(i - 1) : klist0_empty(level, j)
          /\ lvl' = [lvl EXCEPT ![c] = i]
          /\ pg' = [pg EXCEPT ![c] = Head(level[i])]
    /\ want' = [want EXCEPT ![c] = o]
    /\ pc' = [pc EXCEPT ![c] = "unlink"]
    /\ UNCHANGED <<level, order, area, init_page, held>>

\* klist0_unlink(zone->alloc_levels[i].next), without effect on an empty list
AllocUnlink(c) ==
    /\ CanRun(c)
    /\ pc[c] = "unlink"
    /\ level' = IF klist0_empty(level, lvl[c]) THEN level
                ELSE klist0_unlink_first(level, lvl[c])
    /\ pc' = [pc EXCEPT ![c] = "split"]
    /\ UNCHANGED <<order, area, init_page, held, pg, lvl, want>>

\* Mutant: the half that was put on the level below is kept.
AllocSplitKeepsLower(c) ==
    /\ CanRun(c)
    /\ pc[c] = "split"
    /\ lvl[c] > want[c]
    /\ LET i == lvl[c] - 1 IN
       /\ order' = [order EXCEPT ![pg[c]] = i]
       /\ level' = klist0_append(level, pg[c], i)
       /\ lvl' = [lvl EXCEPT ![c] = i]
    /\ UNCHANGED <<area, init_page, held, pg, pc, want>>

\* The lower half goes to the level below, the upper half is kept.
AllocSplit(c) ==
    /\ CanRun(c)
    /\ pc[c] = "split"
    /\ lvl[c] > want[c]
    /\ LET i == lvl[c] - 1 IN
       /\ order' = [order EXCEPT ![pg[c]] = i]
       /\ level' = klist0_append(level, pg[c], i)
       /\ pg' = [pg EXCEPT ![c] = @ + Size(i)]
       /\ lvl' = [lvl EXCEPT ![c] = i]
    /\ UNCHANGED <<area, init_page, held, pc, want>>

AllocReturn(c) ==
    /\ CanRun(c)
    /\ pc[c] = "split"
    /\ lvl[c] = want[c]
    /\ order' = [order EXCEPT ![pg[c]] = want[c]]
    /\ held' = held \cup {pg[c]}
    /\ pc' = [pc EXCEPT ![c] = "idle"]
    /\ UNCHANGED <<level, area, init_page, pg, lvl, want>>

-----------------------------------------------------------------------------
(* free_pages *)

\* Mutant: the page is still on a page list.
FreeStartListed(c, p) ==
    /\ CanRun(c)
    /\ pc[c] = "idle"
    /\ p \in held
    /\ held' = held \ {p}
    /\ pg' = [pg EXCEPT ![c] = p]
    /\ pc' = [pc EXCEPT ![c] = "merge"]
    /\ UNCHANGED <<level, order, area, init_page, lvl, want>>

\* A caller returns a pile it was given and that is on no page list.
FreeStart(c, p) ==
    /\ CanRun(c)
    /\ pc[c] = "idle"
    /\ p \in held /\ ~Linked(area, p)
    /\ held' = held \ {p}
    /\ pg' = [pg EXCEPT ![c] = p]
    /\ pc' = [pc EXCEPT ![c] = "merge"]
    /\ UNCHANGED <<level, order, area, init_page, lvl, want>>

\* Mutant: only the neighbour on the left is looked for.
RightBuddyNever(n, p, o) == FALSE

LeftBuddy(n, p, o)  == p - n = Size(o) /\ OrderAbove(n, o)
RightBuddy(n, p, o) == n - p = Size(o) /\ OrderAbove(p, o)

\* The pile and a neighbour of the same order become one pile of order + 1.
FreeMerge(c) ==
    /\ CanRun(c)
    /\ pc[c] = "merge"
    /\ LET o == order[pg[c]] IN
       \E n \in Nodes(level, o) :
          /\ LeftBuddy(n, pg[c], o) \/ RightBuddy(n, pg[c], o)
          /\ level' = klist0_unlink(level, n, o)
          /\ pg' = [pg EXCEPT ![c] = IF n < @ THEN n ELSE @]
          /\ order' = [order EXCEPT ![pg'[c]] = o + 1]
          /\ pc' = [pc EXCEPT ![c] = IF o + 1 < MAX_ORDER THEN "merge" ELSE "insert"]
    /\ UNCHANGED <<area, init_page, held, lvl, want>>

\* The search for a neighbour has failed.
FreeSearched(c) ==
    /\ CanRun(c)
    /\ pc[c] = "merge"
    /\ LET o == order[pg[c]] IN
       \A n \in Nodes(level, o) : ~LeftBuddy(n, pg[c], o) /\ ~RightBuddy(n, pg[c], o)
    /\ pc' = [pc EXCEPT ![c] = "insert"]
    /\ UNCHANGED <<level, order, area, init_page, held, pg, lvl, want>>

\* if (!klist0_empty(&pg->area_list)) klist0_unlink(&pg->area_list)
AreaUnlink(p) ==
    IF Linked(area, p)
    THEN klist0_unlink(area, p, CHOOSE a \in Areas : p \in Nodes(area, a))
    ELSE area

FreeInsert(c) ==
    /\ CanRun(c)
    /\ pc[c] = "insert"
    /\ level' = klist0_append(level, pg[c], order[pg[c]])
    /\ area' = AreaUnlink(pg[c])
    /\ pc' = [pc EXCEPT ![c] = "idle"]
    /\ UNCHANGED <<order, init_page, held, pg, lvl, want>>

-----------------------------------------------------------------------------
(* Page lists (alloc_pagelist_sparse, mem_area_add_page, mem_area_remove_page). *)

AreaAdd(c, p, a) ==
    /\ CanRun(c)
    /\ pc[c] = "idle"
    /\ p \in held /\ ~Linked(area, p)
    /\ order[p] = 0
    /\ Len(area[a]) < MaxListed
    /\ area' = klist0_append(area, p, a) \/ area' = klist0_prepend(area, p, a)
    /\ UNCHANGED <<level, order, init_page, held, callers>>

AreaRemove(c, p) ==
    /\ CanRun(c)
    /\ pc[c] = "idle"
    /\ Linked(area, p)
    /\ area' = AreaUnlink(p)
    /\ UNCHANGED <<level, order, init_page, held, callers>>

Next ==
    \/ ZoneInitStep
    \/ \E c \in Callers :
          \/ \E o \in Orders : AllocFind(c, o)
          \/ AllocUnlink(c)
          \/ AllocSplit(c)
          \/ AllocReturn(c)
          \/ \E p \in Pages : FreeStart(c, p) \/ AreaRemove(c, p)
          \/ \E p \in Pages, a \in Areas : AreaAdd(c, p, a)
          \/ FreeMerge(c)
          \/ FreeSearched(c)
          \/ FreeInsert(c)

Spec == Init /\ [][Next]_vars

-----------------------------------------------------------------------------
(* Properties. *)

\* The piles somebody owns: the free lists, the callers, or an operation in
\* progress.
FreePiles == UNION {{<<"free", p, o>> : p \in Nodes(level, o)} : o \in Orders}
HeldPiles == {<<"held", p, order[p]>> : p \in held}
SplitPiles == {<<c, pg[c], lvl[c]>> : c \in {d \in Callers : pc[d] = "split"}}
FreedPiles ==
    {<<c, pg[c], order[pg[c]]>> : c \in {d \in Callers : pc[d] \in {"merge", "insert"}}}

Piles == FreePiles \cup HeldPiles \cup SplitPiles \cup FreedPiles

(***************************************************************************)
(* Every page that mem_zone_init has handled belongs to exactly one pile:  *)
(* splitting and merging never hand a page out twice and never lose one.   *)
(***************************************************************************)
Partition ==
    /\ LinkedOnce(level)
    /\ \A x \in FirstPage..(init_page - 1) :
          \E q \in Piles : x \in Block(q[2], q[3])
    /\ \A q, r \in Piles : q # r => Block(q[2], q[3]) \cap Block(r[2], r[3]) = {}
    /\ \A q \in Piles : Block(q[2], q[3]) \subseteq FirstPage..(init_page - 1)

(***************************************************************************)
(* The two bug() calls of print_alloc_info are never reached: a pile on    *)
(* level i has order i and its first page is aligned to at least 2^i.      *)
(***************************************************************************)
LevelsSound ==
    \A i \in Orders : \A p \in Nodes(level, i) : order[p] = i /\ Aligned(p, i)

(***************************************************************************)
(* An allocation fails only when it must: with no operation in progress,   *)
(* if every level from o up is empty then no aligned run of 2^o pages is   *)
(* free.  So free_pages has merged all that could be merged.               *)
(***************************************************************************)
FailsOnlyWhenFull ==
    (init_page = TotalPages /\ \A c \in Callers : pc[c] = "idle") =>
        \A o \in Orders :
            (\A i \in o..(MAX_ORDER - 1) : klist0_empty(level, i)) =>
                ~\E p \in Pages :
                    /\ Aligned(p, o)
                    /\ Block(p, o) \subseteq UNION {Block(q[2], q[3]) : q \in FreePiles}

(***************************************************************************)
(* The assertion of mem_area_add_page: a page that alloc_pages is about to *)
(* return is on no page list.  It holds when callers unlink pages before   *)
(* they free them, as here; free_pagelist does not (module PageList).      *)
(***************************************************************************)
FreshIsUnlisted ==
    \A c \in Callers : pc[c] = "split" => \A p \in Block(pg[c], lvl[c]) : ~Linked(area, p)

-----------------------------------------------------------------------------

(***************************************************************************)
(* The inductive invariant, when no caller can be preempted: at most one   *)
(* operation is in progress, what it remembers is still true, and every    *)
(* pile, also the one it is working on, is aligned.                        *)
(***************************************************************************)
AllocInv ==
    /\ TypeOK
    /\ Partition
    /\ LevelsSound
    /\ \A q \in Piles : q[2] \in Pages /\ q[3] \in Orders /\ Aligned(q[2], q[3])
    /\ LinkedOnce(area) /\ \A p \in Pages : Linked(area, p) => p \in held
    /\ \A c, d \in Callers : c # d => pc[c] = "idle" \/ pc[d] = "idle"
    /\ \A c \in Callers :
          /\ pc[c] # "idle" => init_page = TotalPages
          /\ pc[c] \in {"unlink", "split"} => want[c] <= lvl[c]
          /\ pc[c] = "unlink" =>
                ~klist0_empty(level, lvl[c]) /\ pg[c] = Head(level[lvl[c]])
=============================================================================
