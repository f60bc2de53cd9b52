------------------------------ MODULE MemArea -------------------------------
(***************************************************************************)
(* User memory: memory areas (kernel/mem_area.c, include/mem_area.h), the  *)
(* page tables they are mapped by (arch/i386/paging.c), and what changes   *)
(* them: spawn and exec (kernel/exec.c, kernel/fs/aout.c), fork            *)
(* (kernel/fork.c), sbrk and brk (kernel/brk.c), and the page fault        *)
(* handler (arch/i386/trap.c), which is entered by a trap gate and can be  *)
(* preempted: the address of the fault stays in a register of the machine  *)
(* until the handler reads it, and areas grow page by page.                *)
(*                                                                         *)
(* The code below works on the record mm, so that the calls of a handler   *)
(* compose: the areas, the areas of each mapping, the page tables, the     *)
(* free pages of ZONE_USER, page->virt, what is in the pages, and why the  *)
(* machine stopped, if it did.  The content of a page is named by the      *)
(* address the process that filled it had it at.                           *)
(***************************************************************************)
EXTENDS Integers, Sequences, FiniteSets, FiniteSetsExt, SequencesExt, TLC

CONSTANTS
    Procs,
    PAGE,
    USERMEM_START,
    USERMEM_STACK,      \* the stack ends and the heap begins here
    USERMEM_STACKLIM,
    USERMEM_HEAPLIM,
    NPages,             \* pages of ZONE_USER
    Text, Data,         \* pages of the binary's sections
    MaxAreas,           \* bound: mem_area slices
    Increments,         \* what sbrk is called with
    Accesses            \* what the processes touch: [addr, write]

VARIABLES
    mm,
    dfault,
    cr2,       \* the address of the last fault of any process
    pf,        \* of each process: where it is in pf_handler, and its variables there
    access,    \* of each process: the access that faulted
    again,     \* of each process: how often the access faulted although its own
               \* address was served
    deep       \* history: a process forked with a stack of several pages

mem_vars == <<mm, dfault, cr2, pf, access, again, deep>>

Nil == 0
NOPAGE_ADDR == USERMEM_STACK + USERMEM_HEAPLIM + 1
MemPages == 1..NPages
NoAccess == [addr |-> NOPAGE_ADDR, write |-> FALSE]
UserMode == [at |-> "user", addr |-> NOPAGE_ADDR, area |-> Nil, pages |-> 0]

ASSUME MemAreaAssumption ==
    /\ PAGE \in Nat \ {0} /\ Text \in Nat \ {0} /\ Data \in Nat \ {0}
    /\ Accesses \subseteq [addr : USERMEM_START..(NOPAGE_ADDR - 1), write : BOOLEAN]

Areas(m) == { a \in DOMAIN m.mma : m.mma[a].live }

mma_original(m, a) ==
    LET org[x \in DOMAIN m.mma] == IF m.mma[x].clone THEN org[m.mma[x].original] ELSE x
    IN  org[a]

map_page(m, p, v, phys, rw) == [m EXCEPT !.pt[p] = (v :> [phys |-> phys, rw |-> rw]) @@ @]
unmap_pages(m, p, vs) ==
    [m EXCEPT !.pt[p] = [v \in DOMAIN @ \ vs |-> @[v]]]

\* Mutant: the page goes one further than the end.
NextAddrLate(area) == IF area.stack THEN area.start - PAGE ELSE area.end + PAGE

\* Where the next page of an area goes.
NextAddr(area) == IF area.stack THEN area.start - PAGE ELSE area.end

\* __mem_area_add_page: the growing end moves by a page.
AddPage(m, a, page) ==
    LET v == NextAddr(m.mma[a])
    IN  [m EXCEPT !.mma[a] = [@ EXCEPT !.start = IF m.mma[a].stack THEN v ELSE @,
                                       !.end = IF m.mma[a].stack THEN @ ELSE v + PAGE,
                                       !.pages = @ + 1],
                  !.virt[page] = v]

\* mma_map_pages: each page of the list is mapped at the growing end, which moves.
mma_map_pages(m, a, list) ==
    FoldLeft(LAMBDA x, page : AddPage(map_page(x, x.mma[a].map, NextAddr(x.mma[a]), page,
                                               x.mma[a].rw), a, page), m, list)

(***************************************************************************)
(* alloc_pagelist_sparse: the pages in the order of the list, each         *)
(* appended after its head.  When pages run out the ones already taken     *)
(* are freed by free_pagelist, which does not return from a list that has  *)
(* a page (PageList).                                                      *)
(***************************************************************************)
TakePages(m, n) ==
    LET list[k \in 0..n] ==
            IF k = 0 THEN <<>> ELSE <<Min(m.free \ Range(list[k - 1]))>> \o list[k - 1]
    IN  list[n]

\* The slice for a new area: what sizelim holds is left from before.
mem_area_alloc(m, p, start, flags, plist, lim) ==
    LET a == Min(DOMAIN m.mma \ Areas(m))
        area == [live |-> TRUE, map |-> p, start |-> start, end |-> start, pages |-> 0,
                 users |-> 1, sizelim |-> lim, rw |-> "RW" \in flags,
                 stack |-> "STACK" \in flags, grows |-> "GROWS" \in flags,
                 clone |-> FALSE, original |-> Nil, plist |-> plist]
    IN  [id |-> a, m |-> mma_map_pages([m EXCEPT !.mma[a] = area], a, plist)]

mem_area_alloc_new(m, p, start, n, flags, lim) ==
    IF n > Cardinality(m.free)
    THEN [id |-> Nil, m |-> IF m.free = {} THEN m ELSE [m EXCEPT !.stop = "hang"]]
    ELSE mem_area_alloc([m EXCEPT !.free = @ \ Range(TakePages(m, n))],
                        p, start, flags, TakePages(m, n), lim)

\* The process, or the loader for it, fills the pages of an area.
Fill(m, a) ==
    [m EXCEPT !.tag = [g \in MemPages |-> IF g \in Range(m.mma[a].plist) THEN m.virt[g] ELSE @[g]]]

\* Mutant: the original does not learn of its clone.
CloneUncounted(m, p, a) ==
    LET new == mem_area_alloc(m, p, m.mma[a].start, {}, <<>>, m.mma[a].sizelim)
    IN  [id |-> new.id,
         m |-> mma_map_pages([new.m EXCEPT !.mma[new.id].clone = TRUE,
                                           !.mma[new.id].original = a], new.id,
                             m.mma[mma_original(m, a)].plist)]

mem_area_clone(m, p, a) ==
    LET area == m.mma[a]
        new == mem_area_alloc(m, p, area.start, IF area.rw THEN {"RW"} ELSE {}, <<>>,
                              area.sizelim)
    IN  IF area.stack \/ area.grows THEN [id |-> Nil, m |-> [m EXCEPT !.stop = "bug"]]
        ELSE [id |-> new.id,
              m |-> mma_map_pages([new.m EXCEPT !.mma[a].users = @ + 1,
                                                !.mma[new.id].pages = area.pages,
                                                !.mma[new.id].clone = TRUE,
                                                !.mma[new.id].original = a],
                                  new.id, m.mma[mma_original(m, a)].plist)]

\* mem_area_remap: map the pages where they are with the other protection.
mem_area_remap(m, a, rw) ==
    FoldLeft(LAMBDA x, page : map_page(x, m.mma[a].map, x.virt[page], page, rw),
             [m EXCEPT !.mma[a].rw = rw], m.mma[a].plist)

\* Which page of the copy the i-th of n pages is copied to.
CopyTo(i, n) == i

mem_area_copy(m, p, a) ==
    LET area == m.mma[a]
        new == mem_area_alloc_new(m, p, area.start, area.pages,
                   {"RW"} \cup (IF area.grows THEN {"GROWS"} ELSE {}), area.sizelim)
        n == Len(area.plist)
        dst == new.m.mma[new.id].plist
        copied == [new.m EXCEPT
            !.tag = [g \in MemPages |->
                        IF \E i \in 1..n : dst[CopyTo(i, n)] = g
                        THEN @[area.plist[CHOOSE i \in 1..n : dst[CopyTo(i, n)] = g]]
                        ELSE @[g]],
            !.mma[new.id].stack = area.stack]
    IN  IF new.id = Nil THEN new
        ELSE [id |-> new.id, m |-> IF area.rw THEN copied ELSE mem_area_remap(copied, new.id, FALSE)]

(***************************************************************************)
(* mem_area_put.  The loop of mem_area_unmap looks for the list head of    *)
(* the area it was given in the list of the original: for a clone it never *)
(* ends.  mem_area_kill ends in free_pagelist.                             *)
(***************************************************************************)
mem_area_put(m, a) ==
    LET o == mma_original(m, a)
        m1 == [m EXCEPT !.mma[o].users = @ - 1]
        gone == unmap_pages(m1, m.mma[a].map, { m.virt[g] : g \in Range(m.mma[o].plist) })
    IN  IF m1.mma[o].users = 0
        THEN IF m.mma[a].clone THEN [m1 EXCEPT !.stop = "bug"]
             ELSE [gone EXCEPT !.stop = "hang",
                       !.virt = [g \in MemPages |-> IF g \in Range(m.mma[a].plist)
                                                 THEN NOPAGE_ADDR ELSE @[g]],
                       !.free = @ \cup {Head(m.mma[a].plist)}]
        ELSE IF m.mma[a].clone THEN [gone EXCEPT !.stop = "hang"]
        ELSE [gone EXCEPT !.mma[a].live = FALSE]
-----------------------------------------------------------------------------
Stopped(m) == m.stop # "no"

\* A pointer that is NULL is used: page 0 is mapped, anything may happen.
Wild(m) == [m EXCEPT !.stop = "wild"]

\* Put a new area into the next slot of a mapping.
Kept(p, r, fatal) ==
    IF Stopped(r.m) THEN r.m
    ELSE IF r.id = Nil /\ fatal THEN Wild(r.m)
    ELSE [r.m EXCEPT !.maps[p] = Append(@, r.id)]

(***************************************************************************)
(* aout_load and thread_exec_new: text, data, stack, heap.  Nobody looks   *)
(* whether mem_area_alloc_new failed; for the first three its result is    *)
(* used at once.  The sizelim of the heap is what was in the slice.        *)
(***************************************************************************)
thread_exec_new(m, p, lim) ==
    LET Last1(x) == x.maps[p][Len(x.maps[p])]
        filled(x) == IF Stopped(x) THEN x ELSE Fill(x, Last1(x))
        step(x, start, n, flags, l, fatal) ==
            IF Stopped(x) THEN x
            ELSE filled(Kept(p, mem_area_alloc_new(x, p, start, n, flags, l), fatal))
        m1 == step(m, USERMEM_START, Text, {}, lim, TRUE)
        m2 == step(m1, IF Stopped(m1) THEN 0 ELSE m1.mma[Last1(m1)].end, Data, {"RW"}, lim, TRUE)
        m3 == step(m2, USERMEM_STACK, 1, {"RW", "STACK"}, USERMEM_STACKLIM, TRUE)
        heap == mem_area_alloc_new(m3, p, USERMEM_STACK, 1, {"RW", "GROWS"}, lim)
    IN  IF Stopped(m3) THEN m3
        ELSE IF heap.id = Nil THEN Kept(p, heap, FALSE) ELSE filled(Kept(p, heap, FALSE))

\* The system call exec: the areas are put one after the other.
thread_exec(m, p, lim) ==
    LET m1 == FoldLeft(LAMBDA x, a : IF Stopped(x) THEN x ELSE mem_area_put(x, a), m, m.maps[p])
    IN  IF Stopped(m1) THEN m1 ELSE thread_exec_new([m1 EXCEPT !.maps[p] = <<>>], p, lim)

\* fork: a clone of the text, copies of the rest.
fork_areas(m, p, c) ==
    LET areas == m.maps[p]
        m1 == Kept(c, mem_area_clone(m, c, areas[1]), FALSE)
        next(x, i) == IF Stopped(x) THEN x ELSE Kept(c, mem_area_copy(x, c, areas[i]), FALSE)
    IN  next(next(next(m1, 2), 3), 4)

Alive(m, p) == m.maps[p] # <<>>
HasNull(m, p) == Nil \in Range(m.maps[p])

\* Room for the areas of an address space: the bound on slices.
Room(m) == Cardinality(DOMAIN m.mma \ Areas(m)) >= 4

MemInit ==
    /\ mm = [mma |-> [a \in 1..MaxAreas |-> [live |-> FALSE]],
             maps |-> [p \in Procs |-> <<>>], pt |-> [p \in Procs |-> <<>>],
             free |-> MemPages, virt |-> [g \in MemPages |-> NOPAGE_ADDR],
             tag |-> [g \in MemPages |-> NOPAGE_ADDR], stop |-> "no"]
    /\ dfault = 0 /\ cr2 = NOPAGE_ADDR
    /\ pf = [p \in Procs |-> UserMode]
    /\ access = [p \in Procs |-> NoAccess]
    /\ again = [p \in Procs |-> 0]
    /\ deep = FALSE

\* What a slice may hold where sizelim goes.
Lims == {0, USERMEM_HEAPLIM}

\* The kernel starts the first process.
spawn(p, lim) ==
    /\ ~Stopped(mm) /\ \A q \in Procs : ~Alive(mm, q)
    /\ mm' = thread_exec_new(mm, p, lim)
    /\ UNCHANGED <<dfault, cr2, pf, access, again, deep>>

Running(p) == ~Stopped(mm) /\ Alive(mm, p) /\ pf[p].at = "user"

exec(p, lim) ==
    /\ Running(p)
    /\ mm' = IF HasNull(mm, p) THEN Wild(mm) ELSE thread_exec(mm, p, lim)
    /\ UNCHANGED <<dfault, cr2, pf, access, again, deep>>

fork(p, c) ==
    /\ Running(p) /\ ~Alive(mm, c) /\ Room(mm)
    /\ mm' = IF HasNull(mm, p) THEN Wild(mm) ELSE fork_areas(mm, p, c)
    /\ deep' = (deep \/ \E a \in Range(mm.maps[p]) : a # Nil /\ mm.mma[a].stack
                                                     /\ Len(mm.mma[a].plist) > 1)
    /\ UNCHANGED <<dfault, cr2, pf, access, again>>

\* sbrk, and exit, which returns and falls into the case of sbrk; brk calls sbrk.
sbrk(p, inc) ==
    LET heap == mm.maps[p][4]
        lim == mm.mma[heap].sizelim + inc
    IN  /\ Running(p)
        /\ mm' = IF heap = Nil THEN Wild(mm)
                 ELSE IF lim <= USERMEM_HEAPLIM THEN [mm EXCEPT !.mma[heap].sizelim = lim] ELSE mm
        /\ UNCHANGED <<dfault, cr2, pf, access, again, deep>>
-----------------------------------------------------------------------------
PageOf(addr) == (addr \div PAGE) * PAGE

Allowed(m, p, w) ==
    PageOf(w.addr) \in DOMAIN m.pt[p] /\ (w.write => m.pt[p][PageOf(w.addr)].rw)

\* A process touches an address that is not mapped so: the processor leaves the
\* address in CR2, and pf_entry begins, with interrupts on.
Touch(p, w) ==
    /\ Running(p) /\ ~Allowed(mm, p, w)
    /\ access' = [access EXCEPT ![p] = w]
    /\ cr2' = w.addr
    /\ pf' = [pf EXCEPT ![p].at = "entry"]
    /\ UNCHANGED <<mm, dfault, again, deep>>

(***************************************************************************)
(* A system call does, for its caller, with interrupts off: a fault in     *)
(* supervisor mode ends in arch_halt, or in the panic for a double fault.  *)
(* So wherever the machine goes on fault_code has the bit PFLT_USER.       *)
(***************************************************************************)
SysTouch(p, w) ==
    /\ Running(p) /\ ~Allowed(mm, p, w)
    /\ mm' = [mm EXCEPT !.stop = IF dfault # 0 THEN "double" ELSE "supervisor"]
    /\ UNCHANGED <<dfault, cr2, pf, access, again, deep>>

\* The address that pf_handler reads
FaultAddr(p) == cr2

\* pf_handler: CR2 is read, by now perhaps that of a later fault; the check for
\* a fault inside the handler ...
FaultCheck(p) ==
    /\ ~Stopped(mm) /\ pf[p].at = "entry"
    /\ IF dfault # 0
       THEN mm' = [mm EXCEPT !.stop = "double"] /\ UNCHANGED pf
       ELSE pf' = [pf EXCEPT ![p].at = "checked", ![p].addr = FaultAddr(p)] /\ UNCHANGED mm
    /\ UNCHANGED <<dfault, cr2, access, again, deep>>

\* mem_area_is_hit and mem_area_hit_offset: the distance from the area, -1 for a miss
HitOffset(area, addr) ==
    IF addr >= area.start /\ addr < area.end THEN -1
    ELSE IF area.stack
         THEN IF addr >= area.end - area.sizelim /\ addr < area.end THEN area.start - addr ELSE -1
    ELSE IF area.grows
         THEN IF addr >= area.start /\ addr < area.start + area.sizelim THEN addr - area.end ELSE -1
    ELSE -1

\* Mutant: the distance is not rounded up.
GrowByFloor(dist) == dist \div PAGE

\* Pages to add for a distance.
GrowBy(dist) == ((IF dist = 0 THEN PAGE ELSE dist) + PAGE - 1) \div PAGE

\* dfault when the handler is left
Leave(d) == d - 1

\* ... dfault goes up, and the areas are searched for one to grow.
FaultEnter(p) ==
    LET hits == { i \in DOMAIN mm.maps[p] :
                    HitOffset(mm.mma[mm.maps[p][i]], pf[p].addr) # -1 }
        a == mm.maps[p][Min(hits)]
    IN  /\ ~Stopped(mm) /\ pf[p].at = "checked"
        /\ dfault' = dfault + 1
        /\ IF HasNull(mm, p) THEN mm' = Wild(mm) /\ UNCHANGED pf
           ELSE /\ pf' = [pf EXCEPT ![p] =
                     IF hits = {} THEN [@ EXCEPT !.at = "lost"]
                     ELSE [@ EXCEPT !.at = "grow", !.area = a,
                                    !.pages = GrowBy(HitOffset(mm.mma[a], pf[p].addr))]]
                /\ UNCHANGED mm
        /\ UNCHANGED <<cr2, access, again, deep>>

\* No area is near: after the messages the machine halts.
FaultLost(p) ==
    /\ ~Stopped(mm) /\ pf[p].at = "lost"
    /\ mm' = [mm EXCEPT !.stop = "lost"]
    /\ dfault' = Leave(dfault)
    /\ UNCHANGED <<cr2, pf, access, again, deep>>

(***************************************************************************)
(* mem_area_grow, one turn: a page is taken and becomes part of the area   *)
(* (mem_area_add_page) ...                                                 *)
(***************************************************************************)
GrowAdd(p) ==
    LET a == pf[p].area
        page == Min(mm.free)
    IN  /\ ~Stopped(mm) /\ pf[p].at = "grow"
        /\ IF mm.free = {} THEN mm' = [mm EXCEPT !.stop = "bug"] /\ UNCHANGED pf
           ELSE /\ mm' = AddPage([mm EXCEPT !.free = @ \ {page},
                                            !.mma[a].plist = Append(@, page)], a, page)
                /\ pf' = [pf EXCEPT ![p].at = "map", ![p].pages = @ - 1]
        /\ UNCHANGED <<dfault, cr2, access, again, deep>>

\* ... and is mapped, and its process fills it; after the last one the handler
\* is left.
GrowMap(p) ==
    LET area == mm.mma[pf[p].area]
        page == Last(area.plist)
        done == pf[p].pages = 0
    IN  /\ ~Stopped(mm) /\ pf[p].at = "map"
        /\ mm' = [map_page(mm, p, mm.virt[page], page, area.rw) EXCEPT !.tag[page] = mm.virt[page]]
        /\ pf' = [pf EXCEPT ![p].at = IF done THEN "back" ELSE "grow"]
        /\ dfault' = IF done THEN Leave(dfault) ELSE dfault
        /\ UNCHANGED <<cr2, access, again, deep>>

\* iret: the access is tried again.
Retry(p) ==
    /\ ~Stopped(mm) /\ pf[p].at = "back"
    /\ IF Allowed(mm, p, access[p])
       THEN /\ pf' = [pf EXCEPT ![p] = UserMode]
            /\ access' = [access EXCEPT ![p] = NoAccess]
            /\ again' = [again EXCEPT ![p] = 0]
            /\ UNCHANGED cr2
       ELSE /\ pf' = [pf EXCEPT ![p] = [UserMode EXCEPT !.at = "entry"]]
            /\ again' = [again EXCEPT ![p] = IF pf[p].addr = access[p].addr THEN @ + 1 ELSE @]
            /\ cr2' = access[p].addr
            /\ UNCHANGED access
    /\ UNCHANGED <<mm, dfault, deep>>

MemNext ==
    \E p \in Procs :
        \/ FaultCheck(p) \/ FaultEnter(p) \/ FaultLost(p) \/ GrowAdd(p) \/ GrowMap(p) \/ Retry(p)
        \/ \E lim \in Lims : spawn(p, lim) \/ exec(p, lim)
        \/ \E c \in Procs : fork(p, c)
        \/ \E inc \in Increments : sbrk(p, inc)
        \/ \E w \in Accesses : Touch(p, w) \/ SysTouch(p, w)

MemSpec == MemInit /\ [][MemNext]_mem_vars
-----------------------------------------------------------------------------
(* Properties. *)

(***************************************************************************)
(* The state has its shape: an area is a range of pages, as many as it has *)
(* in its list, and a stack stays within its limit.                        *)
(***************************************************************************)
MemTypeOK ==
    /\ mm.free \subseteq MemPages /\ dfault \in 0..Cardinality(Procs)
    /\ cr2 \in USERMEM_START..NOPAGE_ADDR
    /\ pf \in [Procs -> [at : {"user", "entry", "checked", "lost", "grow", "map", "back"},
                         addr : USERMEM_START..NOPAGE_ADDR, area : 0..MaxAreas,
                         pages : 0..(USERMEM_STACKLIM + USERMEM_HEAPLIM)]]
    /\ again \in [Procs -> 0..NPages]
    /\ access \in [Procs -> [addr : USERMEM_START..NOPAGE_ADDR, write : BOOLEAN]]
    /\ \A a \in Areas(mm) :
         LET area == mm.mma[a] IN
         /\ area.end - area.start = PAGE * Len(mm.mma[mma_original(mm, a)].plist)
         /\ area.stack => area.end - area.start <= USERMEM_STACKLIM
         /\ Range(area.plist) \subseteq MemPages

\* The page that mem_area_grow has added to an area of p and not mapped yet.
Unmapped(p) ==
    IF pf[p].at = "map" THEN {mm.virt[Last(mm.mma[pf[p].area].plist)]} ELSE {}

(***************************************************************************)
(* What a process maps is what its areas say: every page of the area, at   *)
(* its place in the order of the list, with the area's protection, and     *)
(* nothing else; while it grows an area, and whoever runs in the middle of *)
(* that, one page at most is missing.                                      *)
(***************************************************************************)
MapsAreas ==
    \A p \in Procs : (~Stopped(mm) /\ Alive(mm, p)) =>
        LET mine == Range(mm.maps[p]) \ {Nil}
        IN  /\ DOMAIN mm.pt[p] =
                 UNION { { v \in USERMEM_START..NOPAGE_ADDR :
                             v % PAGE = 0 /\ v >= mm.mma[a].start /\ v < mm.mma[a].end } : a \in mine }
                 \ Unmapped(p)
            /\ \A a \in mine : \A g \in Range(mm.mma[mma_original(mm, a)].plist) :
                 mm.virt[g] \notin Unmapped(p) =>
                    /\ mm.virt[g] \in DOMAIN mm.pt[p]
                    /\ mm.pt[p][mm.virt[g]] = [phys |-> g, rw |-> mm.mma[a].rw]

(***************************************************************************)
(* A page that a process can write is in no other address space, no page   *)
(* that is mapped is free, and a page is in the list of one area, through  *)
(* any forks, faults and execs, also of others in the middle of a growth.  *)
(***************************************************************************)
PrivatePages ==
    /\ \A p, q \in Procs : \A v \in DOMAIN mm.pt[p] :
        /\ mm.pt[p][v].phys \notin mm.free
        /\ mm.pt[p][v].rw /\ p # q =>
             \A u \in DOMAIN mm.pt[q] : mm.pt[q][u].phys # mm.pt[p][v].phys
    /\ ~Stopped(mm) => \A a, b \in Areas(mm) : \A g \in Range(mm.mma[a].plist) :
        g \notin mm.free /\ (g \in Range(mm.mma[b].plist) => a = b)

(***************************************************************************)
(* After fork the child finds at every address what its parent had there,  *)
(* as long as nobody forked with a stack of more than one page.            *)
(***************************************************************************)
ForkCopies ==
    deep \/ \A p \in Procs : \A v \in DOMAIN mm.pt[p] : mm.tag[mm.pt[p][v].phys] = v

(***************************************************************************)
(* The panic for a double fault means that two faults overlapped, and not  *)
(* that one was left without counting dfault down again.                   *)
(***************************************************************************)
DoubleMeansTwo ==
    mm.stop = "double" =>
        \E p, q \in Procs : /\ p # q /\ pf[p].at \in {"user", "entry"}
                            /\ pf[q].at \in {"lost", "grow", "map"}

(***************************************************************************)
(* A fault that is served with its own address gives the process the       *)
(* address it touched, or does the second time: the distance that          *)
(* mem_area_hit_offset returns is rounded to pages so that an access does  *)
(* not fault for ever.  Between the fault and the read of CR2 another      *)
(* process may fault; such a fault is served with the wrong address, and   *)
(* not counted.                                                            *)
(***************************************************************************)
FaultServed == \A p \in Procs : again[p] <= 1

(***************************************************************************)
(* The machine halts for a fault that no area explains only when the       *)
(* process touched such an address, or another process faulted between its *)
(* fault and the read of CR2.                                              *)
(***************************************************************************)
LostMeansOutside ==
    mm.stop = "lost" =>
        \E p \in Procs :
            /\ pf[p].at = "lost"
            /\ \/ pf[p].addr # access[p].addr
               \/ \A a \in Range(mm.maps[p]) : HitOffset(mm.mma[a], access[p].addr) = -1

\* fork gives the child memory of its own that holds what the parent's held
\* (mem_area_copy, mem_area_clone): ForkCopies and PrivatePages.
ForkPrivate == PrivatePages /\ ForkCopies

\* Faults are served (pf_handler): an access faults at most twice with its own
\* address, a stack stays within its limit, and the machine stops for a double
\* fault, or one that cannot be served, only when there was one.
FaultsServed == MemTypeOK /\ FaultServed /\ DoubleMeansTwo /\ LostMeansOutside
=============================================================================
