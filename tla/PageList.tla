------------------------------ MODULE PageList -------------------------------
(***************************************************************************)
(* free_pagelist (kernel/page_alloc.c) on top of the page allocator: the   *)
(* pages of an area's list are freed one by one.                           *)
(*                                                                         *)
(* free_pages unlinks the area_list of the page it has inserted, which     *)
(* links that node to itself; free_pagelist then follows the node's next   *)
(* pointer.                                                                *)
(***************************************************************************)
EXTENDS PageAlloc

VARIABLES
    tmp,   \* of each caller: the node free_pagelist looks at, 0 for the list head
    lpc    \* of each caller: "off", "loop" or "call", inside free_pages

lvars == <<tmp, lpc>>

ListInit ==
    /\ Init
    /\ tmp = [c \in Callers |-> 0]
    /\ lpc = [c \in Callers |-> "off"]

\* tmp->next: a node that is on no list is linked to itself.
NextNode(p) ==
    IF ~Linked(area, p) THEN p
    ELSE LET list == area[CHOOSE a \in Areas : p \in Nodes(area, a)]
             k == CHOOSE k \in DOMAIN list : list[k] = p
         IN  IF k = Len(list) THEN 0 ELSE list[k + 1]

\* mem_area_kill, or alloc_pagelist_sparse when it runs out of pages
FreeList(c, a) ==
    /\ CanRun(c)
    /\ pc[c] = "idle" /\ lpc[c] = "off"
    /\ lpc' = [lpc EXCEPT ![c] = "loop"]
    /\ tmp' = [tmp EXCEPT ![c] = IF klist0_empty(area, a) THEN 0 ELSE Head(area[a])]
    /\ UNCHANGED vars

\* free_pages(pg)
ListFree(c) ==
    /\ lpc[c] = "loop" /\ tmp[c] # 0
    /\ held' = held \ {tmp[c]}
    /\ pg' = [pg EXCEPT ![c] = tmp[c]]
    /\ pc' = [pc EXCEPT ![c] = "merge"]
    /\ lpc' = [lpc EXCEPT ![c] = "call"]
    /\ UNCHANGED <<level, order, area, init_page, lvl, want, tmp>>

ListNext(c) ==
    /\ lpc[c] = "call" /\ pc[c] = "idle"
    /\ tmp' = [tmp EXCEPT ![c] = NextNode(tmp[c])]
    /\ lpc' = [lpc EXCEPT ![c] = "loop"]
    /\ UNCHANGED vars

ListDone(c) ==
    /\ lpc[c] = "loop" /\ tmp[c] = 0
    /\ lpc' = [lpc EXCEPT ![c] = "off"]
    /\ UNCHANGED <<vars, tmp>>

\* The allocator's own steps: nothing else runs while free_pagelist does.
ListNextState ==
    \/ \E c \in Callers : ListFree(c) \/ ListNext(c) \/ ListDone(c)
    \/ \E c \in Callers, a \in Areas : FreeList(c, a)
    \/ /\ \A c \in Callers : lpc[c] = "off" \/ (lpc[c] = "call" /\ pc[c] # "idle")
       /\ Next
       /\ UNCHANGED lvars

ListSpec == ListInit /\ [][ListNextState]_<<vars, lvars>>

(***************************************************************************)
(* free_pages is called only for piles that are not free already, as the   *)
(* documentation of the allocator requires of its callers.                 *)
(***************************************************************************)
FreesAllocated ==
    \A c \in Callers : pc[c] = "merge" =>
        \A q \in FreePiles : pg[c] \notin Block(q[2], q[3])
=============================================================================
