------------------------------- MODULE Slice -------------------------------
(***************************************************************************)
(* Bit maps (include/bitmap.h, kernel/lib/bitmap.c).                       *)
(*                                                                         *)
(* A bit map is an array of unsigned longs; a word is the set of its bits  *)
(* that are set, so ~0UL is Ones, ~0UL << k is k..(BITS_PER_LONG - 1) and  *)
(* ~0UL >> k is 0..(BITS_PER_LONG - 1 - k).  The processor takes shift     *)
(* counts modulo BITS_PER_LONG.                                            *)
(***************************************************************************)
EXTENDS Integers, FiniteSetsExt, Klist0

CONSTANT BITS_PER_LONG

ASSUME BitmapAssumption == BITS_PER_LONG \in Nat \ {0}

Ones == 0..(BITS_PER_LONG - 1)

\* The words of a map of nbits bits: BITMAP_SIZE in longs.
Longs(nbits) == (nbits + BITS_PER_LONG - 1) \div BITS_PER_LONG

bitmap_bit_get(dst, bit) == bit % BITS_PER_LONG \in dst[bit \div BITS_PER_LONG]

bitmap_bit_set(dst, bit) ==
    [dst EXCEPT ![bit \div BITS_PER_LONG] = @ \cup {bit % BITS_PER_LONG}]

\* Mutant: the word is overwritten.
BitClearWord(dst, bit) == [dst EXCEPT ![bit \div BITS_PER_LONG] = {}]

bitmap_bit_clear(dst, bit) ==
    [dst EXCEPT ![bit \div BITS_PER_LONG] = @ \ {bit % BITS_PER_LONG}]

(***************************************************************************)
(* The whole words are cleared; the mask of the rest is applied to the     *)
(* first word, because dst is not advanced.                                *)
(***************************************************************************)
bitmap_zero(dst, bits) ==
    LET zeroed == [w \in DOMAIN dst |-> IF w < bits \div BITS_PER_LONG THEN {} ELSE dst[w]]
    IN  [zeroed EXCEPT ![0] = @ \cap ((bits % BITS_PER_LONG)..(BITS_PER_LONG - 1))]

(***************************************************************************)
(* The whole words are set; the shift count of the rest is bits -          *)
(* BITS_PER_LONG, which the processor reduces to bits % BITS_PER_LONG.     *)
(***************************************************************************)
bitmap_fill(dst, bits) ==
    LET last == bits \div BITS_PER_LONG
        shift == (bits - BITS_PER_LONG) % BITS_PER_LONG
    IN  [w \in DOMAIN dst |->
            IF w < last THEN Ones
            ELSE IF w = last THEN dst[w] \cup (0..(BITS_PER_LONG - 1 - shift))
            ELSE dst[w]]

Unset(dst, limit) == {b \in 0..(limit - 1) : ~bitmap_bit_get(dst, b)}

bitmap_seek_unset(dst, limit) ==
    IF Unset(dst, limit) = {} THEN -1 ELSE Min(Unset(dst, limit))

bitmap_all_set(dst, limit) ==
    LET rest == limit % BITS_PER_LONG IN
    /\ \A w \in 0..(limit \div BITS_PER_LONG - 1) : dst[w] = Ones
    /\ rest # 0 => 0..(rest - 1) \subseteq dst[limit \div BITS_PER_LONG]

bitmap_all_unset(dst, limit) ==
    LET rest == limit % BITS_PER_LONG IN
    /\ \A w \in 0..(limit \div BITS_PER_LONG - 1) : dst[w] = {}
    /\ rest # 0 => (0..(rest - 1)) \cap dst[limit \div BITS_PER_LONG] = {}

----------------------------------------------------------------------------
(***************************************************************************)
(* The slice allocator (kernel/slice.c): one pool.                         *)
(*                                                                         *)
(* A page of the pool holds nobjs objects of obj_size bytes and, at its    *)
(* end, a bit map of them; the last objects may have to make room for the  *)
(* map.  The map is modelled word by word, with the word that follows it,  *)
(* the first one of the next page in memory.  A page comes from alloc_page *)
(* with whatever contents it had.                                          *)
(*                                                                         *)
(* The pool has no lock ("XXX Locking!").  As in PageAlloc, Preemptible is *)
(* the set of callers that run with interrupts enabled.                    *)
(***************************************************************************)

CONSTANTS
    PAGE_SIZE,      \* bytes in a page
    LONG_SIZE,      \* bytes in a long
    obj_size,       \* bytes in an object
    Pages,          \* the pages alloc_page can return
    Callers,        \* flows of control that use the pool
    Preemptible     \* the ones that run with interrupts enabled

VARIABLES
    pages,     \* the lists pages_active and pages_inactive
    bmask,     \* the bit map at the end of each page
    held,      \* slices callers have been given: page and index
    pc, pg, number  \* of each caller: location, and the locals

slice_vars == <<pages, bmask, held, pc, pg, number>>

Lists == {"active", "inactive"}

\* PAGE_SIZE / obj_size
NObjs == PAGE_SIZE \div obj_size

Words == Longs(NObjs)
BitmapSize == Words * LONG_SIZE

\* The objects that are left when the bit map has its place.
nobjs ==
    LET gap == PAGE_SIZE - NObjs * obj_size
        consumed_bytes == BitmapSize - gap
    IN  IF BitmapSize > gap
        THEN NObjs - (consumed_bytes + obj_size - 1) \div obj_size
        ELSE NObjs

ASSUME SliceAssumption ==
    /\ PAGE_SIZE \in Nat /\ LONG_SIZE \in Nat \ {0}
    \* in fact BITS_PER_LONG is 8 * LONG_SIZE
    /\ 4 * LONG_SIZE <= BITS_PER_LONG
    \* slice_pool_create stops on bigger objects
    /\ obj_size \in 1..(PAGE_SIZE \div 2 - LONG_SIZE)
    /\ Preemptible \subseteq Callers

\* The state has its shape: the bits that are set are bits of the words of
\* the map.
SliceTypeOK ==
    /\ pages \in [Lists -> Seq(Pages)]
    /\ bmask \in [Pages -> [0..Words -> SUBSET Ones]]
    /\ held \subseteq Pages \X (0..(NObjs - 1))
    /\ pc \in [Callers -> {"idle", "init", "set", "full", "clear"}]
    /\ pg \in [Callers -> Pages]
    /\ number \in [Callers -> 0..(NObjs - 1)]

\* slice_pool_create
SliceInit ==
    /\ pages = [l \in Lists |-> <<>>]
    /\ bmask = [p \in Pages |-> [w \in 0..Words |-> {}]]
    /\ held = {}
    /\ pc = [c \in Callers |-> "idle"]
    /\ \E p \in Pages : pg = [c \in Callers |-> p]
    /\ number = [c \in Callers |-> 0]

\* Nobody who cannot be preempted is in the middle of an operation.
CanRun(c) == \A d \in Callers \ {c} : pc[d] = "idle" \/ d \in Preemptible

-----------------------------------------------------------------------------
(* slice_alloc *)

\* alloc_page: a page nobody uses, with old contents; NULL changes nothing.
AllocPage(c, p, old) ==
    /\ CanRun(c)
    /\ pc[c] = "idle"
    /\ klist0_empty(pages, "active")
    /\ ~Linked(pages, p)
    /\ \A d \in Callers : pc[d] = "init" => pg[d] # p
    /\ bmask' = [bmask EXCEPT ![p] = [w \in 0..Words |-> IF w < Words THEN old ELSE {}]]
    /\ pg' = [pg EXCEPT ![c] = p]
    /\ pc' = [pc EXCEPT ![c] = "init"]
    /\ UNCHANGED <<pages, held, number>>

\* The map of the new page; its last object is returned.
AllocInit(c) ==
    /\ CanRun(c)
    /\ pc[c] = "init"
    /\ bmask' = [bmask EXCEPT ![pg[c]] =
                    bitmap_bit_set(bitmap_zero(bitmap_fill(@, NObjs), nobjs), nobjs - 1)]
    /\ pages' = klist0_append(pages, pg[c], "active")
    /\ held' = held \cup {<<pg[c], nobjs - 1>>}
    /\ pc' = [pc EXCEPT ![c] = "idle"]
    /\ UNCHANGED <<pg, number>>

\* The first free object of the first active page; bug_on(number == -1).
AllocSeek(c) ==
    /\ CanRun(c)
    /\ pc[c] = "idle"
    /\ ~klist0_empty(pages, "active")
    /\ LET p == Head(pages["active"]) IN
       /\ bitmap_seek_unset(bmask[p], NObjs) # -1
       /\ pg' = [pg EXCEPT ![c] = p]
       /\ number' = [number EXCEPT ![c] = bitmap_seek_unset(bmask[p], NObjs)]
    /\ pc' = [pc EXCEPT ![c] = "set"]
    /\ UNCHANGED <<pages, bmask, held>>

AllocSet(c) ==
    /\ CanRun(c)
    /\ pc[c] = "set"
    /\ bmask' = [bmask EXCEPT ![pg[c]] = bitmap_bit_set(@, number[c])]
    /\ pc' = [pc EXCEPT ![c] = "full"]
    /\ UNCHANGED <<pages, held, pg, number>>

\* klist0_unlink and klist0_append of a page that is on a list
Move(p, to) ==
    klist0_append(klist0_unlink(pages, p, CHOOSE l \in Lists : p \in Nodes(pages, l)), p, to)

\* A page without a free object leaves the active list.
AllocReturn(c) ==
    /\ CanRun(c)
    /\ pc[c] = "full"
    /\ pages' = IF bitmap_all_set(bmask[pg[c]], NObjs) THEN Move(pg[c], "inactive") ELSE pages
    /\ held' = held \cup {<<pg[c], number[c]>>}
    /\ pc' = [pc EXCEPT ![c] = "idle"]
    /\ UNCHANGED <<bmask, pg, number>>

-----------------------------------------------------------------------------
(* slice_free, slice_pool_shrink *)

\* The page is found on one of the lists, else bug().
FreeFind(c, s) ==
    /\ CanRun(c)
    /\ pc[c] = "idle"
    /\ s \in held
    /\ Linked(pages, s[1])
    /\ pages' = IF s[1] \in Nodes(pages, "inactive")
                THEN Move(s[1], "active") ELSE pages
    /\ held' = held \ {s}
    /\ pg' = [pg EXCEPT ![c] = s[1]]
    /\ number' = [number EXCEPT ![c] = s[2]]
    /\ pc' = [pc EXCEPT ![c] = "clear"]
    /\ UNCHANGED bmask

FreeClear(c) ==
    /\ CanRun(c)
    /\ pc[c] = "clear"
    /\ bmask' = [bmask EXCEPT ![pg[c]] = bitmap_bit_clear(@, number[c])]
    /\ pc' = [pc EXCEPT ![c] = "idle"]
    /\ UNCHANGED <<pages, held, pg, number>>

\* The elements of s that are in S, in their order.
Remaining(s, S) ==
    LET kept[k \in 0..Len(s)] ==
            IF k = 0 THEN <<>>
            ELSE IF s[k] \in S THEN Append(kept[k - 1], s[k]) ELSE kept[k - 1]
    IN  kept[Len(s)]

\* A walk over the list l that unlinks the nodes that are not in S.
UnlinkOthers(L, l, S) == [L EXCEPT ![l] = Remaining(@, S)]

\* Every active page without a used object goes back to free_page.
ShrinkPool ==
    /\ \A c \in Callers : pc[c] = "idle"
    /\ pages' = UnlinkOthers(pages, "active", {p \in Pages : ~bitmap_all_unset(bmask[p], nobjs)})
    /\ UNCHANGED <<bmask, held, pc, pg, number>>

SliceNext ==
    \/ \E c \in Callers :
          \/ \E p \in Pages, old \in {{}, Ones} : AllocPage(c, p, old)
          \/ AllocInit(c)
          \/ AllocSeek(c)
          \/ AllocSet(c)
          \/ AllocReturn(c)
          \/ \E s \in held : FreeFind(c, s)
          \/ FreeClear(c)
    \/ ShrinkPool

SliceSpec == SliceInit /\ [][SliceNext]_slice_vars

-----------------------------------------------------------------------------
(* Properties. *)

Quiet == \A c \in Callers : pc[c] = "idle"

(***************************************************************************)
(* slice_alloc never returns an object that is in use, and never the same  *)
(* one to two callers.                                                     *)
(***************************************************************************)
NeverTwice ==
    /\ \A c \in Callers : pc[c] \in {"set", "full"} => <<pg[c], number[c]>> \notin held
    /\ \A c, d \in Callers :
          (c # d /\ pc[c] \in {"set", "full"} /\ pc[d] \in {"set", "full"}) =>
              <<pg[c], number[c]>> # <<pg[d], number[d]>>

(***************************************************************************)
(* No object in use overlaps the bit map at the end of its page ("We need  *)
(* to use some bytes from the slice pool for the bitmap").                 *)
(***************************************************************************)
OutsideBitmap == \A s \in held : s[2] < nobjs

(***************************************************************************)
(* The lists are what slice.h says: an active page has some free space, so *)
(* bug_on(number == -1) never fires, and an inactive page has none.        *)
(***************************************************************************)
ListsTellSpace ==
    Quiet => /\ \A p \in Nodes(pages, "active") : Unset(bmask[p], NObjs) # {}
             /\ \A p \in Nodes(pages, "inactive") : Unset(bmask[p], NObjs) = {}

(***************************************************************************)
(* slice_free always finds the page of an object in use: its bug() is      *)
(* never reached, also after slice_pool_shrink.                            *)
(***************************************************************************)
PageIsFound == \A s \in held : Linked(pages, s[1])

(***************************************************************************)
(* When every object has been returned, slice_pool_shrink empties the      *)
(* pool, and slice_pool_recycle does not reach its bug() calls.            *)
(***************************************************************************)
CanRecycle ==
    Quiet /\ held = {} =>
        /\ klist0_empty(pages, "inactive")
        /\ \A p \in Nodes(pages, "active") : bitmap_all_unset(bmask[p], nobjs)

\* Preparing the bit map of a page changes nothing after the end of the page.
StaysInPage == \A p \in Pages : bmask[p][Words] = {}

\* The slice allocator as its users see it (slice.c): an object is given to one
\* caller and lies in front of the bit map, the lists tell which pages have room,
\* a page is found again when its object comes back, the map ends with the page,
\* and a pool whose objects are all back can be recycled.
SlicesSound ==
    /\ SliceTypeOK /\ NeverTwice /\ OutsideBitmap /\ ListsTellSpace
    /\ PageIsFound /\ StaysInPage /\ CanRecycle
============================================================================
