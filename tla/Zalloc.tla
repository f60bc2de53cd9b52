------------------------------- MODULE Zalloc ------------------------------
(***************************************************************************)
(* Who owns which memory in zlib: the making, copying and ending of streams*)
(* (deflate.c, inflate.c) and of compressed files (gzio.c), where any      *)
(* allocation may fail.                                                    *)
(*                                                                         *)
(* A block is "free", raw bytes, or the state of a stream, which owns other*)
(* blocks and holds pointers <<block, offset>> into itself or into them.   *)
(* The bytes are one bit, which every use of the stream turns.             *)
(*                                                                         *)
(* Two calls lead to what C does not define: destroy on a gz_stream whose  *)
(* stream.state was never set, and deflateEnd on what a failed deflateCopy *)
(* has left.  A behaviour ends there (undef).                              *)
(***************************************************************************)
EXTENDS Integers, Sequences, FiniteSets, Functions

CONSTANTS
    Streams,   \* z_streams of the program
    NBlocks,   \* bound: blocks at once
    Fresh      \* what memory from malloc may hold where stream.state is read: 0, or WILD

WILD == -1
FreeBlock == [kind |-> "free"]
Gz == "gz"     \* the stream inside a gz_stream
All == Streams \cup {Gz}

VARIABLES
    blocks,
    zstate,     \* z_stream.state of each stream
    zlive,      \* the streams the program holds: ended neither by it nor by a failure
    held,      \* what each stream should hold: its bytes and its place in them
    gz,        \* the gz_stream: its blocks
    fault,     \* a block was freed twice, or memory that is no block
    undef      \* "no"; "unset": state was read before it was set; "shared": a failed copy was ended
zalloc_vars == <<blocks, zstate, zlive, held, gz, fault, undef>>

NoFile == [s |-> 0, mode |-> "none", path |-> 0, buf |-> 0, msg |-> 0]
ZallocInit ==
    /\ blocks = [b \in 1 .. NBlocks |-> FreeBlock]
    /\ zstate = [z \in All |-> 0] /\ zlive = {} /\ held = [z \in All |-> <<0, 0>>]
    /\ gz = NoFile /\ fault = FALSE /\ undef = "no"

----------------------------------------------------------------------------
\* The k-th of n allocations, if it does not fail.
Unused(bl) == { b \in 1 .. NBlocks : bl[b].kind = "free" }
Nth(bl, k) == CHOOSE b \in Unused(bl) : Cardinality({ c \in Unused(bl) : c <= b }) = k
Given(bl, ok) == [k \in DOMAIN ok |-> IF ok[k] THEN Nth(bl, k) ELSE 0]
Room(n) == Cardinality(Unused(blocks)) >= n
Raw(bit) == [kind |-> "raw", bit |-> bit]
PutBlock(bl, at, what) == [b \in 1 .. NBlocks |-> IF b \in at THEN what ELSE bl[b]]

\* Freeing the blocks bs: 0 is not freed.
Bad(bl, bs) == \E k \in DOMAIN bs : bs[k] # 0 /\
                 (bs[k] = WILD \/ bl[bs[k]].kind = "free" \/ \E j \in 1 .. k - 1 : bs[j] = bs[k])
Freed(bl, bs) == [b \in 1 .. NBlocks |-> IF \E k \in DOMAIN bs : bs[k] = b THEN FreeBlock ELSE bl[b]]

----------------------------------------------------------------------------
\* deflate: own = <<window, prev, head, pending_buf>>; out is pending_out, lit
\* is l_buf (d_buf goes with it).
\* EndDeflate, EndInflate: what is freed when the state s is ended.
IsState(bl, s, kind) == s # WILD /\ bl[s].kind = kind
EndDeflate(bl, s) ==
    IF IsState(bl, s, "deflate") THEN <<bl[s].own[4], bl[s].own[3], bl[s].own[2], bl[s].own[1], s>> ELSE <<s>>
EndInflate(bl, s) == IF IsState(bl, s, "inflate") THEN <<bl[s].own[1], s>> ELSE <<s>>

DeflateState(g, off) ==
    [kind |-> "deflate", own |-> SubSeq(g, 2, 5), out |-> <<g[5], off>>, lit |-> <<g[5], 1>>]
Lacks(g) == \E k \in 2 .. Len(g) : g[k] = 0
\* What making a stream gives: whether it is made, the blocks, strm->state,
\* and whether that is what it was before.
Unmade(bl) == [ok |-> FALSE, blocks |-> bl, state |-> 0, old |-> TRUE]
Ended(s) == 0            \* strm->state once it is freed
\* All five are asked for before any is looked at; what came is freed.
deflateInit2(bl, ok) ==
    LET g == Given(bl, ok)
        made == PutBlock(PutBlock(bl, { g[k] : k \in 2 .. 5 } \ {0}, Raw(0)), {g[1]}, DeflateState(g, 0))
    IN  CASE ~ok[1] -> Unmade(bl)
          [] ok[1] /\ Lacks(g) -> [ok |-> FALSE, blocks |-> Freed(made, EndDeflate(made, g[1])),
                                   state |-> Ended(g[1]), old |-> FALSE]
          [] ok[1] /\ ~Lacks(g) -> [ok |-> TRUE, blocks |-> made, state |-> g[1], old |-> FALSE]

\* own = <<window>>, made on first use; next leads into the codes of the state
\* itself, lencode there or to the fixed tables (offset 0, block 0).
InflateState(me) == [kind |-> "inflate", own |-> <<0>>, next |-> <<me, 0>>, lencode |-> <<me, 0>>]
inflateInit2(bl, ok) ==
    LET s == Nth(bl, 1)
    IN  IF ok[1] THEN [ok |-> TRUE, blocks |-> PutBlock(bl, {s}, InflateState(s)), state |-> s, old |-> FALSE]
        ELSE Unmade(bl)

StartStream(z, r) ==
    /\ blocks' = r.blocks
    /\ zstate' = [zstate EXCEPT ![z] = IF r.old THEN @ ELSE r.state]
    /\ zlive' = IF r.ok THEN zlive \cup {z} ELSE zlive
    /\ held' = [held EXCEPT ![z] = <<0, 0>>]
    /\ UNCHANGED <<gz, fault, undef>>
\* A program here has streams of its own or a compressed file, not both at once.
InitDeflate(z) == gz = NoFile /\ z \notin zlive /\ Room(5) /\ \E ok \in [1 .. 5 -> BOOLEAN] : StartStream(z, deflateInit2(blocks, ok))
InitInflate(z) == gz = NoFile /\ z \notin zlive /\ Room(1) /\ \E ok \in [1 .. 1 -> BOOLEAN] : StartStream(z, inflateInit2(blocks, ok))

----------------------------------------------------------------------------
\* A call of deflate or inflate: the bytes turn, the place moves.
UseDeflate(z) ==
    LET s == zstate[z]
        d == blocks[s]
        turned == PutBlock(PutBlock(blocks, {d.own[1]}, Raw(1 - blocks[d.own[1]].bit)), {d.own[4]}, Raw(1 - blocks[d.own[4]].bit))
    IN  /\ z \in zlive /\ d.kind = "deflate"
        /\ blocks' = [turned EXCEPT ![s].out[2] = 1 - @]
        /\ held' = [held EXCEPT ![z] = <<1 - @[1], 1 - @[2]>>]
        /\ UNCHANGED <<zstate, zlive, gz, fault, undef>>

\* updatewindow makes the window; without memory for it inflate fails and the
\* stream stays as it was.
UseInflate(z) ==
    LET s == zstate[z]
        w == blocks[s].own[1]
        n == Nth(blocks, 1)
    IN  /\ z \in zlive /\ blocks[s].kind = "inflate"
        /\ \/ /\ w # 0 \/ Room(1)
              /\ LET made == IF w # 0 THEN PutBlock(blocks, {w}, Raw(1 - blocks[w].bit)) ELSE PutBlock(blocks, {n}, Raw(1))
                     fixed == blocks[s].lencode[1] # 0
                 IN  blocks' = [made EXCEPT ![s].own[1] = IF w # 0 THEN w ELSE n, ![s].next[2] = 1 - @,
                                            ![s].lencode = IF fixed THEN <<0, 0>> ELSE <<s, 1>>]
              /\ held' = [held EXCEPT ![z] = <<1 - @[1], 1 - @[2]>>]
           \/ w = 0 /\ UNCHANGED <<blocks, held>>
        /\ UNCHANGED <<zstate, zlive, gz, fault, undef>>

----------------------------------------------------------------------------
\* A copy that failed at once is not live, and has the state of its source:
\* ending it frees what the source uses, or what is freed already.
deflateEnd(z) ==
    LET bs == EndDeflate(blocks, zstate[z])
    IN  \/ /\ z \in zlive \cap Streams /\ blocks[zstate[z]].kind = "deflate"
           /\ blocks' = Freed(blocks, bs) /\ fault' = (fault \/ Bad(blocks, bs))
           /\ zstate' = [zstate EXCEPT ![z] = 0] /\ zlive' = zlive \ {z}
           /\ held' = [held EXCEPT ![z] = <<0, 0>>] /\ UNCHANGED <<gz, undef>>
        \/ /\ z \in Streams \ zlive /\ zstate[z] # 0
           /\ undef' = "shared" /\ UNCHANGED <<blocks, zstate, zlive, held, gz, fault>>
inflateEnd(z) ==
    LET bs == EndInflate(blocks, zstate[z])
    IN  /\ z \in zlive \cap Streams /\ blocks[zstate[z]].kind = "inflate"
        /\ blocks' = Freed(blocks, bs) /\ fault' = (fault \/ Bad(blocks, bs))
        /\ zstate' = [zstate EXCEPT ![z] = 0] /\ zlive' = zlive \ {z} /\ held' = [held EXCEPT ![z] = <<0, 0>>] /\ UNCHANGED <<gz, undef>>

\* The z_stream is copied first: when the state cannot be allocated, dest is
\* left with the state of the source.
Rebase(p, from, to) == IF p[1] = from THEN <<to, p[2]>> ELSE p
CopiedState(bl, from, to) == [b \in 1 .. NBlocks |-> IF b = to THEN bl[from] ELSE bl[b]]
\* Mutant: only the state is freed.
EndCopyNot(bl, s) == Freed(bl, <<s>>)
EndCopy(bl, s) == Freed(bl, EndDeflate(bl, s))
deflateCopy(dest, source) ==
    /\ source \in zlive /\ dest \notin zlive /\ blocks[zstate[source]].kind = "deflate" /\ Room(5)
    /\ \E ok \in [1 .. 5 -> BOOLEAN] :
         LET g == Given(blocks, ok)
             ss == blocks[zstate[source]]
             ds == [ss EXCEPT !.own = SubSeq(g, 2, 5), !.out = Rebase(@, ss.own[4], g[5]), !.lit = <<g[5], 1>>]
             made == PutBlock(PutBlock(blocks, { g[k] : k \in 2 .. 5 } \ {0}, Raw(0)), {g[1]}, ds)
         IN  \/ ~ok[1] /\ zstate' = [zstate EXCEPT ![dest] = zstate[source]] /\ UNCHANGED <<blocks, zlive, held>>
             \/ /\ ok[1] /\ Lacks(g) /\ blocks' = EndCopy(made, g[1])
                /\ zstate' = [zstate EXCEPT ![dest] = 0] /\ UNCHANGED <<zlive, held>>
             \/ /\ ok[1] /\ ~Lacks(g)
                /\ blocks' = CopiedState(CopiedState(CopiedState(CopiedState(made, ss.own[1], g[2]), ss.own[2], g[3]),
                                           ss.own[3], g[4]), ss.own[4], g[5])
                /\ zstate' = [zstate EXCEPT ![dest] = g[1]] /\ zlive' = zlive \cup {dest}
                /\ held' = [held EXCEPT ![dest] = held[source]]
    /\ UNCHANGED <<gz, fault, undef>>

inflateCopy(dest, source) ==
    LET s == zstate[source]
        state1 == blocks[s]
        w == state1.own[1]
        n == IF w = 0 THEN 1 ELSE 2
    IN  /\ source \in zlive /\ dest \notin zlive /\ state1.kind = "inflate" /\ Room(n)
        /\ \E ok \in [1 .. n -> BOOLEAN] :
             LET g == Given(blocks, ok)
                 me == g[1]
                 copy == [state1 EXCEPT !.own = <<IF n = 2 THEN g[2] ELSE 0>>, !.next = Rebase(@, s, me),
                                        !.lencode = Rebase(@, s, me)]
             IN  \/ /\ \E k \in 1 .. n : ~ok[k]
                    /\ UNCHANGED <<blocks, zstate, zlive, held>>    \* the first, if it came, is freed
                 \/ /\ \A k \in 1 .. n : ok[k]
                    /\ blocks' = PutBlock(IF n = 2 THEN CopiedState(blocks, w, g[2]) ELSE blocks, {me}, copy)
                    /\ zstate' = [zstate EXCEPT ![dest] = me] /\ zlive' = zlive \cup {dest}
                    /\ held' = [held EXCEPT ![dest] = held[source]]
        /\ UNCHANGED <<gz, fault, undef>>

----------------------------------------------------------------------------
\* destroy: the message, the stream by the mode, the buffer, the path, itself.
EndStream(bl, mode, s) ==
    CASE s = 0 \/ mode = "none" -> <<>>
      [] s # 0 /\ mode = "w" -> EndDeflate(bl, s)
      [] s # 0 /\ mode = "r" -> EndInflate(bl, s)
FreeRest(g, bl, ended) ==
    LET bs == <<g.msg>> \o ended \o <<g.buf, g.path, g.s>>
    IN  /\ fault' = (fault \/ Bad(bl, bs)) /\ blocks' = Freed(bl, bs)
        /\ gz' = NoFile /\ zstate' = [zstate EXCEPT ![Gz] = 0] /\ zlive' = zlive \ {Gz}
        /\ held' = [held EXCEPT ![Gz] = <<0, 0>>] /\ UNCHANGED undef
destroy(g, bl, s) == FreeRest(g, bl, EndStream(bl, g.mode, s))

\* destroy where stream.state holds what malloc left there.  inflateEnd looks at
\* zfree first, which is set with the stream's own allocations only; deflateEnd
\* gives up when what it finds is not the status of a state.
DestroyUnset(g, bl, junk, zfree) ==
    \/ /\ junk = 0 \/ g.mode # "r" \/ ~zfree
       /\ FreeRest(g, bl, <<>>)
    \/ /\ junk # 0 /\ (g.mode = "w" \/ (g.mode = "r" /\ zfree))
       /\ undef' = "unset" /\ UNCHANGED <<blocks, zstate, zlive, held, gz, fault>>

\* gz_open never sets stream.state, and mode only after the path: they are what
\* malloc gave until then.  The path may fail, the mode name neither r nor w, the
\* stream and its buffer not be there, the file not open.
gz_open(mode) ==
    /\ gz = NoFile /\ zlive = {} /\ Room(8)
    /\ \E ok \in [{"s", "path", "buf", "open"} -> BOOLEAN], parts \in [1 .. 5 -> BOOLEAN], junk \in Fresh :
         LET s == Nth(blocks, 1)
             path == IF ok["path"] THEN Nth(blocks, 2) ELSE 0
             buf == IF ok["path"] /\ ok["buf"] /\ mode # "none" THEN Nth(blocks, 3) ELSE 0
             bl == PutBlock(blocks, {s, path, buf} \ {0}, Raw(0))
             r == IF mode = "w" THEN deflateInit2(bl, parts) ELSE inflateInit2(bl, parts)
             g == [s |-> s, mode |-> mode, path |-> path, buf |-> buf, msg |-> 0]
         IN  /\ mode = "r" => \A k \in 2 .. 5 : parts[k]
             /\ \/ ~ok["s"] /\ UNCHANGED <<blocks, zstate, zlive, held, gz, fault, undef>>
                \/ /\ ok["s"] /\ ~ok["path"]
                   /\ \E left \in {"r", "w", "none"} : DestroyUnset([g EXCEPT !.mode = left], bl, junk, FALSE)
                \/ /\ ok["s"] /\ ok["path"] /\ mode = "none" /\ DestroyUnset(g, bl, junk, FALSE)
                \/ /\ ok["s"] /\ ok["path"] /\ mode # "none"
                   /\ \/ r.old /\ DestroyUnset(g, bl, junk, TRUE)
                      \/ ~r.old /\ (~r.ok \/ buf = 0 \/ ~ok["open"]) /\ destroy(g, r.blocks, r.state)
                      \/ /\ r.ok /\ buf # 0 /\ ok["open"]
                         /\ blocks' = r.blocks /\ zstate' = [zstate EXCEPT ![Gz] = r.state]
                         /\ zlive' = zlive \cup {Gz} /\ held' = [held EXCEPT ![Gz] = <<0, 0>>]
                         /\ gz' = g /\ UNCHANGED <<fault, undef>>

\* The message of the last error: the one before it is freed.
gzerror ==
    /\ gz # NoFile /\ Room(1)
    /\ \E ok \in BOOLEAN :
         LET bl == Freed(blocks, <<gz.msg>>)
             new == IF ok THEN Nth(bl, 1) ELSE 0
         IN  /\ fault' = (fault \/ Bad(blocks, <<gz.msg>>))
             /\ blocks' = PutBlock(bl, {new} \ {0}, Raw(0)) /\ gz' = [gz EXCEPT !.msg = new]
    /\ UNCHANGED <<zstate, zlive, held, undef>>
gzclose == gz # NoFile /\ destroy(gz, blocks, zstate[Gz])

ZallocNext ==
    /\ undef = "no"
    /\ \/ \E z \in Streams : InitDeflate(z) \/ InitInflate(z) \/ deflateEnd(z) \/ inflateEnd(z)
       \/ \E z \in All : UseDeflate(z) \/ UseInflate(z)
       \/ \E d, s \in Streams : deflateCopy(d, s) \/ inflateCopy(d, s)
       \/ \E mode \in {"r", "w", "none"} : gz_open(mode)
       \/ gzerror \/ gzclose
ZallocSpec == ZallocInit /\ [][ZallocNext]_zalloc_vars

----------------------------------------------------------------------------
HoldsBlock(z) ==
    LET s == blocks[zstate[z]]
    IN  IF s.kind = "deflate" THEN << blocks[s.own[1]].bit, s.out[2] >>
        ELSE << IF s.own[1] = 0 THEN 0 ELSE blocks[s.own[1]].bit, s.next[2] >>
Owned(z) == ({zstate[z]} \cup Range(blocks[zstate[z]].own)) \ {0}

\* A copy and its original go their own ways: each stream finds its own bytes
\* and its own place whatever is done to the other, and its pointers lead into
\* its own blocks (deflateCopy, inflateCopy).
CopiesApart ==
    \A z \in zlive :
      LET s == blocks[zstate[z]]
      IN  /\ s.kind # "free" /\ HoldsBlock(z) = held[z]
          /\ s.kind = "deflate" => s.out[1] = s.own[4] /\ s.lit[1] = s.own[4] /\ blocks[s.own[4]].bit = held[z][1]
          /\ s.kind = "inflate" => s.next[1] = zstate[z] /\ s.lencode[1] \in {0, zstate[z]}

\* Each block in use belongs to one stream or file the program holds: a failed
\* allocation leaves nothing behind (deflateInit2_, deflateCopy, inflateCopy,
\* gz_open, gzerror, destroy).
NothingLost ==
    LET file == {gz.s, gz.path, gz.buf, gz.msg} \ {0}
    IN  /\ { b \in 1 .. NBlocks : blocks[b].kind # "free" } = file \cup UNION { Owned(z) : z \in zlive }
        /\ \A y, z \in zlive : y # z => Owned(y) \cap Owned(z) = {}
        /\ \A z \in zlive : Owned(z) \cap file = {}

\* No block is freed twice and none is freed that never was one, whichever
\* allocation failed before (deflateEnd, inflateEnd, gzerror, destroy).  There are
\* two exceptions, after which nothing is said: a gz_open that has the gz_stream
\* but not its stream's state has destroy read a stream.state that was never set,
\* and a deflateCopy without memory for the copy's state leaves a stream that must
\* not be ended.
FreesOnce == ~fault

\* Memory of streams (deflateInit2_, deflateCopy, inflateCopy, gz_open, destroy)
\* with any allocation failing: none lost, none freed twice, none shared.
ZallocSound == CopiesApart /\ NothingLost /\ FreesOnce
============================================================================
