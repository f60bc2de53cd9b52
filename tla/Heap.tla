-------------------------------- MODULE Heap --------------------------------
(***************************************************************************)
(* malloc, free, realloc and calloc of usr/klibc on the break of the       *)
(* kernel (usr/klibc/sbrk.c, brk.c, kernel/brk.c).  The list of all blocks *)
(* is chain, in the order of its links; the list of free blocks is frees;  *)
(* a block is named by the address of its header, and hdr gives the size   *)
(* and the type the header holds.  The numbers are bytes above m_start.    *)
(* live is a ghost: the bytes the program asked for in each block it has.  *)
(***************************************************************************)
EXTENDS Integers, Sequences, FiniteSetsExt, Functions

CONSTANTS
    HEADER,         \* sizeof(struct arena_header), the unit of alignment
    CHUNK,          \* _KLIBC_MALLOC_CHUNK_SIZE
    SBRK_ALIGN,     \* _KLIBC_SBRK_ALIGNMENT
    HEAPLIM,        \* USERMEM_HEAPLIM
    SIZE_MAX1,      \* size_t counts modulo this
    Limits0,        \* what the heap's m_sizelim may start with
    Sizes,          \* sizes asked for
    MaxLive         \* blocks the program holds at most

ASSUME HeapAssumption ==
    /\ {HEADER, CHUNK, SBRK_ALIGN, SIZE_MAX1} \subseteq Nat \ {0}
    /\ CHUNK % HEADER = 0 /\ SBRK_ALIGN % HEADER = 0
    /\ HEAPLIM \in Nat /\ Limits0 \cup Sizes \subseteq Nat

VARIABLES chain, frees, hdr, current_brk, lim, live, copied

heap_vars == <<chain, frees, hdr, current_brk, lim, live, copied>>

\* A size with its header, in whole units.
ARENA_SIZE(size) == ((size + 2 * HEADER - 1) \div HEADER) * HEADER

UpTo(n, unit) == ((n + unit - 1) \div unit) * unit

----------------------------------------------------------------------------
\* The state the library works on, so that its functions compose.
Lib == [chain |-> chain, frees |-> frees, hdr |-> hdr, brk |-> current_brk, lim |-> lim]

\* A header no list leads to is never read again.
Becomes(m) ==
    /\ chain' = m.chain /\ frees' = m.frees /\ current_brk' = m.brk /\ lim' = m.lim
    /\ hdr' = Restrict(m.hdr, Range(m.chain))

\* The kernel's sbrk and brk: brk adds the whole distance to what there is.
sys_sbrk(m, inc) ==
    IF m.lim + inc <= HEAPLIM THEN [m |-> [m EXCEPT !.lim = @ + inc], ret |-> m.lim + inc]
    ELSE [m |-> m, ret |-> -1]

\* The library's sbrk; a first call asks where the heap starts.
sbrk(m, increment) ==
    LET start == UpTo(m.brk, SBRK_ALIGN)
        r == sys_sbrk(m, start + increment)
    IN  IF r.ret < start + increment THEN [m |-> r.m, start |-> -1]
        ELSE [m |-> [r.m EXCEPT !.brk = r.ret], start |-> start]

brk(m, end) ==
    LET r == sys_sbrk(m, end)
    IN  IF r.ret # end THEN r.m ELSE [r.m EXCEPT !.brk = end]

----------------------------------------------------------------------------
\* The links of the lists: a block is on each of them once at most.
IndexOf(s, b) == CHOOSE i \in DOMAIN s : s[i] = b
Unlink(s, b) == SubSeq(s, 1, IndexOf(s, b) - 1) \o SubSeq(s, IndexOf(s, b) + 1, Len(s))
InsertAfter(s, k, new) == SubSeq(s, 1, k) \o <<new>> \o SubSeq(s, k + 1, Len(s))
InPlaceOf(s, b, new) == [i \in DOMAIN s |-> IF s[i] = b THEN new ELSE s[i]]

remove_from_chains(m, b) == [m EXCEPT !.frees = Unlink(@, b), !.chain = Unlink(@, b)]

\* A header is written.
Write(h, b, type, size) ==
    [x \in DOMAIN h \cup {b} |-> IF x = b THEN [type |-> type, size |-> size] ELSE h[x]]

\* A block at least two headers too big is split; its rest stays where the
\* block was on the free list.
SplitAt(size) == size + 2 * HEADER

malloc_from_block(m, fp, size) ==
    LET fsize == m.hdr[fp].size
        nfp == fp + size
    IN  IF fsize >= SplitAt(size)
        THEN [m EXCEPT !.chain = InsertAfter(@, IndexOf(@, fp), nfp),
                       !.frees = InPlaceOf(@, fp, nfp),
                       !.hdr = Write(Write(@, fp, "USED", size), nfp, "FREE", fsize - size)]
        ELSE [m EXCEPT !.hdr = Write(@, fp, "USED", fsize), !.frees = Unlink(@, fp)]

IsFree(m, b) == m.hdr[b].type = "FREE"
Touches(m, a, b) == a + m.hdr[a].size = b

\* The neighbours of b on the list of all blocks.
BlockAt(m, b) == IndexOf(m.chain, b)
prev(m, b) == IF BlockAt(m, b) = 1 THEN -1 ELSE m.chain[BlockAt(m, b) - 1]
next(m, b) == IF BlockAt(m, b) = Len(m.chain) THEN -1 ELSE m.chain[BlockAt(m, b) + 1]

\* The header of b with another size.
Resize(m, b, size) == [m EXCEPT !.hdr = Write(@, b, m.hdr[b].type, size)]

\* Mutant: no merging.
MergeNextNot(m, b, nah) == m

\* The block after b is swallowed if it is free and touches b.
MergeNext(m, b, nah) ==
    IF nah # -1 /\ IsFree(m, nah) /\ Touches(m, b, nah)
    THEN remove_from_chains(Resize(m, b, m.hdr[b].size + m.hdr[nah].size), nah)
    ELSE m

\* Returns the block b became part of.
free_block(m, b) ==
    LET pah == prev(m, b)
        nah == next(m, b)
    IN  IF pah # -1 /\ IsFree(m, pah) /\ Touches(m, pah, b)
        THEN [m |-> MergeNext([Resize(m, pah, m.hdr[pah].size + m.hdr[b].size) EXCEPT
                                   !.chain = Unlink(@, b)], pah, nah), block |-> pah]
        ELSE [m |-> MergeNext([m EXCEPT !.hdr = Write(@, b, "FREE", m.hdr[b].size),
                                        !.frees = <<b>> \o @], b, nah), block |-> b]

Fits(m, size) == { i \in DOMAIN m.frees : m.hdr[m.frees[i]].size >= size }

\* Searching backwards, the place of the first block below the new one.
Predecessor(m, fp) == Max({ i \in DOMAIN m.chain : m.chain[i] < fp } \cup {0})

NewBlock(m, fp, fsize) ==
    free_block([m EXCEPT !.hdr = Write(@, fp, "FREE", fsize),
                         !.chain = InsertAfter(@, Predecessor(m, fp), fp)], fp)

\* Returns the block, or -1 for NULL.
malloc(m, asked) ==
    LET size == ARENA_SIZE(asked)
        fit == m.frees[Min(Fits(m, size))]
        fsize == UpTo(size, CHUNK)
        more == sbrk(m, fsize)
        new == NewBlock(more.m, more.start, fsize)
    IN  IF asked = 0 THEN [m |-> m, block |-> -1]
        ELSE IF Fits(m, size) # {} THEN [m |-> malloc_from_block(m, fit, size), block |-> fit]
        ELSE IF more.start = -1 THEN [m |-> more.m, block |-> -1]
        ELSE [m |-> malloc_from_block(new.m, new.block, size), block |-> new.block]

\* A big last block is taken from the lists and given back to the kernel.
free(m, b) ==
    LET f == free_block(m, b)
        ah == f.block
    IN  IF f.m.hdr[ah].size >= CHUNK /\ Touches(f.m, ah, f.m.brk)
        THEN brk(remove_from_chains(f.m, ah), ah)
        ELSE f.m

----------------------------------------------------------------------------
HeapInit ==
    /\ chain = <<>> /\ frees = <<>> /\ hdr = <<>> /\ current_brk = 0
    /\ lim \in Limits0 /\ live = <<>> /\ copied = <<>>

Drop(b) == [c \in DOMAIN live \ {b} |-> live[c]]
Asked(l, b, size) == [c \in DOMAIN l \cup {b} |-> IF c = b THEN size ELSE l[c]]

\* malloc, and calloc, whose product may not fit a size_t.
Alloc(n, asked) ==
    LET size == (n * asked) % SIZE_MAX1
        r == malloc(Lib, size)
    IN  /\ Cardinality(DOMAIN live) < MaxLive
        /\ Becomes(r.m)
        /\ live' = IF r.block = -1 THEN live ELSE Asked(live, r.block, size)
        /\ UNCHANGED copied

Release(b) == Becomes(free(Lib, b)) /\ live' = Drop(b) /\ UNCHANGED copied

\* A block of a good size stays.  Otherwise the size that already holds a
\* header is asked for, what was there is copied, and the old block freed.
CopiedOver(size, oldsize) == IF size < oldsize THEN size ELSE oldsize

realloc(b, asked) ==
    LET size == ARENA_SIZE(asked)
        has == hdr[b].size
        new == malloc(Lib, size)
        n == CopiedOver(size, has - HEADER)
    IN  IF asked = 0 THEN Release(b)
        ELSE IF has >= size /\ size >= has \div 4
        THEN live' = [live EXCEPT ![b] = asked] /\ UNCHANGED <<chain, frees, hdr, current_brk, lim, copied>>
        ELSE /\ new.block # -1
             /\ Becomes(free(new.m, b))
             /\ live' = Asked(Drop(b), new.block, asked)
             /\ copied' = <<n, live[b], asked, hdr'[new.block].size - HEADER>>

HeapNext ==
    \/ \E n \in {1, 3}, size \in Sizes : Alloc(n, size)
    \/ \E b \in DOMAIN live : Release(b) \/ \E size \in Sizes : realloc(b, size)

HeapSpec == HeapInit /\ [][HeapNext]_heap_vars

----------------------------------------------------------------------------
\* The list of all blocks is sorted and its blocks do not overlap, nor reach
\* over the break; every header is in whole units.
HeapTypeOK ==
    /\ \A i \in DOMAIN chain :
         /\ chain[i] % HEADER = 0 /\ hdr[chain[i]].size \in Nat \ {0}
         /\ chain[i] + hdr[chain[i]].size
              <= (IF i = Len(chain) THEN current_brk ELSE chain[i + 1])
    /\ DOMAIN hdr = Range(chain)

\* The free list holds every free block once, and no others: what
\* malloc_from_block and free_block leave on it is what the types say.
FreeListExact ==
    /\ Range(frees) = { b \in Range(chain) : hdr[b].type = "FREE" }
    /\ IsInjective(frees)

\* Blocks that touch are never both free: __free_block has joined them,
\* whichever of them was freed last and wherever sbrk put a new one.
Coalesced ==
    \A a, b \in Range(frees) : a + hdr[a].size # b

\* A block the program holds is in use and has room for what was asked for,
\* and for the links of a free block once it is freed.
LiveIsUsed ==
    /\ DOMAIN live = { b \in Range(chain) : hdr[b].type = "USED" }
    /\ \A b \in DOMAIN live : hdr[b].size - HEADER >= live[b]
    /\ \A b \in Range(chain) : hdr[b].size >= 2 * HEADER

\* The kernel serves a fault anywhere in a block: it lies below m_sizelim.
KernelServes == \A b \in Range(chain) : b + hdr[b].size <= lim

\* realloc keeps the bytes that both the old and the new size hold, and
\* copies no more than the new block takes.
ReallocKeeps ==
    copied # <<>> => /\ copied[1] >= Min({copied[2], copied[3]})
                     /\ copied[1] <= copied[4]

\* The heap (malloc.c, realloc.c): blocks in order and apart, the free list
\* exact and joined up, every live block in use, big enough and served by the
\* kernel, and what it holds kept by realloc.
HeapSound ==
  HeapTypeOK /\ FreeListExact /\ Coalesced /\ LiveIsUsed /\ KernelServes /\ ReallocKeeps
============================================================================
