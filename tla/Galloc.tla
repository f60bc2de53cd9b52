------------------------------- MODULE Galloc -------------------------------
(***************************************************************************)
(* The general allocator (kernel/galloc.c): chunks from a slice pool of    *)
(* the next power of two, or else from whole pages.  A chunk_info in front *)
(* of the chunk tells gfree where it came from.  slice_alloc and get_pages *)
(* are modelled in Slice and PageAlloc; here either may fail.              *)
(***************************************************************************)
EXTENDS Integers, FiniteSetsExt

CONSTANTS
    NPOOLS,
    GALLOC_MIN_CHUNK,
    CI_SIZE,            \* size of a chunk_info, rounded up
    GPAGE,              \* size of a page
    GSizes,             \* arguments of galloc
    MaxChunks           \* bound of the chunks in use

VARIABLES
    chunks,     \* the chunks in use: size asked for, room, and chunk_info
    gal_bug     \* the word behind galloc_sp was taken for a pool

ASSUME GallocAssumption ==
    /\ {GALLOC_MIN_CHUNK, GPAGE} \subseteq Nat \ {0} /\ {NPOOLS, CI_SIZE, MaxChunks} \subseteq Nat
    /\ GSizes \subseteq Nat
    \* log2 is asked about such numbers only
    /\ \A n \in GSizes : n + GALLOC_MIN_CHUNK + CI_SIZE < 2 ^ 30

galloc_vars == <<chunks, gal_bug>>
Unused == [size |-> 0, room |-> 0, origin |-> "none", info |-> 0]

\* The exponent of the least power of two that is not below n (n < 2^30).
Bits(n) == Min({ l \in 1 .. 30 : n < 2 ^ l })
log2(n) == IF n % 2 ^ (Bits(n) - 1) # 0 THEN Bits(n) ELSE Bits(n) - 1
roundup_l2(x, base) == ((x + base - 1) \div base) * base

\* Mutant: the header of a chunk is not counted.
PoolSizeBare(pool) == GALLOC_MIN_CHUNK * 2 ^ pool
POOL_SIZE(pool) == GALLOC_MIN_CHUNK * 2 ^ pool + CI_SIZE
INPAGES(n) == (n + GPAGE - 1) \div GPAGE

GallocInit == chunks = [c \in 1 .. MaxChunks |-> Unused] /\ gal_bug = FALSE

Give(c, size, total, from, i) ==
    /\ chunks' = [chunks EXCEPT ![c] = [size |-> size, room |-> total - CI_SIZE, origin |-> from, info |-> i]]
    /\ UNCHANGED gal_bug

PoolOf(size) == log2(size \div GALLOC_MIN_CHUNK)
galloc_from_slice(c, asked, size) ==
    /\ PoolOf(size) < NPOOLS
    /\ Give(c, asked, POOL_SIZE(PoolOf(size)), "slice", PoolOf(size))
\* i = NPOOLS passes the test, and the word behind the array is taken for a
\* pool.
TakenForPool(size) == PoolOf(size) = NPOOLS /\ gal_bug' = TRUE /\ UNCHANGED chunks
galloc_from_pages(c, asked, size) ==
    LET i == log2(INPAGES(size + CI_SIZE)) IN Give(c, asked, GPAGE * 2 ^ i, "pages", i)

\* Pages are asked for when there is no slice, too.
Rounded(size) == roundup_l2(IF size = 0 THEN GALLOC_MIN_CHUNK ELSE size, GALLOC_MIN_CHUNK)
galloc(c, size) ==
    /\ ~gal_bug /\ chunks[c] = Unused
    /\ \/ galloc_from_slice(c, size, Rounded(size))
       \/ TakenForPool(Rounded(size))
       \/ PoolOf(Rounded(size)) # NPOOLS /\ galloc_from_pages(c, size, Rounded(size))

gfree(c) ==
    /\ ~gal_bug /\ chunks[c] # Unused
    /\ chunks' = [chunks EXCEPT ![c] = Unused] /\ UNCHANGED gal_bug

GallocNext == \E c \in 1 .. MaxChunks : gfree(c) \/ \E n \in GSizes : galloc(c, n)
GallocSpec == GallocInit /\ [][GallocNext]_galloc_vars

----------------------------------------------------------------------------
\* A chunk has room for what was asked of galloc, behind its chunk_info; one
\* from a pool comes from the smallest pool that has; one from the pages is not
\* half empty unless it is a single page.
ChunkFits ==
    \A c \in 1 .. MaxChunks : chunks[c] # Unused =>
        /\ chunks[c].size <= chunks[c].room
        /\ chunks[c].origin = "slice" =>
             \A p \in 0 .. chunks[c].info - 1 : GALLOC_MIN_CHUNK * 2 ^ p < chunks[c].size
        /\ chunks[c].origin = "pages" /\ chunks[c].info > 0 =>
             GPAGE * 2 ^ (chunks[c].info - 1) < chunks[c].size + CI_SIZE + GALLOC_MIN_CHUNK
=============================================================================
