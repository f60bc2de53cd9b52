------------------------------ MODULE Inflate ------------------------------
(***************************************************************************)
(* The decompressor of usr/klibc/zlib/inflate.c and inffast.c.  z is an    *)
(* inflate_state with its z_stream: in and left are what the caller offers *)
(* (avail_in, avail_out), out all that was ever delivered and start its    *)
(* length when the call began.  hold is the bit accumulator, oldest bit    *)
(* first.  The state machine runs a step at a time; leave is "goto         *)
(* inf_leave".  The window has the constant size w_size of the compressor. *)
(***************************************************************************)
EXTENDS Deflate

Z_BLOCK == 5

Odd(v, bit) == (v \div bit) % 2 = 1

inflateReset(z) ==
  [z EXCEPT !.total_in = 0, !.total = 0, !.out = <<>>, !.start = 0, !.mode = "HEAD",
            !.last = FALSE, !.havedict = FALSE, !.head = <<>>, !.wsize = 0, !.whave = 0,
            !.write = 0, !.hold = <<>>]

\* wrap is 0 for a raw stream, 1 for zlib, 2 for gzip, 3 for either; alloc says
\* whether memory for the window can be had.
inflateInit2(wrap, alloc) ==
  inflateReset(
    [mode |-> "HEAD", last |-> FALSE, wrap |-> wrap, havedict |-> FALSE, flags |-> 0,
     check |-> <<>>, total |-> 0, head |-> <<>>, window |-> <<>>, wsize |-> 0, whave |-> 0,
     write |-> 0, hold |-> <<>>, length |-> 0, offset |-> 0, extra |-> 0, nlen |-> 0,
     ndist |-> 0, ncode |-> 0, have |-> 0, lens |-> <<>>, lencode |-> <<>>, distcode |-> <<>>,
     in |-> <<>>, total_in |-> 0, left |-> 0, out |-> <<>>, start |-> 0, alloc |-> alloc,
     data_type |-> 0, leave |-> FALSE, ret |-> "Z_OK"])

fixed_lens == [k \in 1 .. 288 |-> static_llen[k - 1]]
lenfix == inflate_table("LENS", fixed_lens, 9)
distfix == inflate_table("DISTS", [k \in 1 .. 32 |-> 5], 5)

----------------------------------------------------------------------------
Produced(z) == Len(z.out) - z.start

\* The circular window is allocated on first use; the output of a call goes in
\* at write, and wraps round.
Next0(write, dist, n) == IF n > dist THEN n - dist ELSE (write + dist) % w_size

updatewindow(z) ==
  LET n == Produced(z)
      w0 == IF z.window = <<>> THEN [i \in 0 .. w_size - 1 |-> 0] ELSE z.window
      write == IF z.wsize = 0 THEN 0 ELSE z.write
      whave == IF z.wsize = 0 THEN 0 ELSE z.whave
      from(k) == z.out[Len(z.out) - n + k + 1]
      dist == IF w_size - write > n THEN n ELSE w_size - write
  IN  IF z.window = <<>> /\ ~ z.alloc THEN [z EXCEPT !.mode = "MEM"]
      ELSE IF n >= w_size
      THEN [z EXCEPT !.wsize = w_size, !.write = 0, !.whave = w_size,
                     !.window = [i \in 0 .. w_size - 1 |-> from(n - w_size + i)]]
      ELSE [z EXCEPT !.wsize = w_size, !.write = Next0(write, dist, n),
                     !.whave = IF n > dist THEN w_size
                               ELSE IF whave < w_size THEN whave + dist ELSE whave,
                     !.window = [i \in 0 .. w_size - 1 |->
                                   IF i \in write .. write + dist - 1 THEN from(i - write)
                                   ELSE IF i < n - dist THEN from(dist + i) ELSE w0[i]]]

----------------------------------------------------------------------------
Return0(z, ret) == [z EXCEPT !.leave = TRUE, !.ret = ret]
Leave(z) == [z EXCEPT !.leave = TRUE]
To(z, mode) == [z EXCEPT !.mode = mode]
Bad(z) == To(z, "BAD")

PULLBYTE(z) ==
  IF z.in = <<>> THEN Leave(z)
  ELSE [z EXCEPT !.hold = @ \o BitsOf(Head(z.in), 8), !.in = Tail(@)]

RECURSIVE NEEDBITS(_, _)
NEEDBITS(z, n) ==
  IF Len(z.hold) >= n \/ z.leave THEN z ELSE NEEDBITS(PULLBYTE(z), n)

BITS(z, n) == ValueOf(SubSeq(z.hold, 1, IF n < Len(z.hold) THEN n ELSE Len(z.hold)))
DROPBITS(z, n) == [z EXCEPT !.hold = SubSeq(@, n + 1, Len(@))]
BYTEBITS(z) == DROPBITS(z, Len(z.hold) % 8)
INITBITS(z) == [z EXCEPT !.hold = <<>>]
Held(z) == [k \in 1 .. Len(z.hold) \div 8 |-> ByteAt(z.hold, k - 1)]

\* Do Op once n bits are there, else leave.
Given(z, n, Op(_)) == LET y == NEEDBITS(z, n) IN IF y.leave THEN y ELSE Op(y)

UPDATE(z, bytes) == IF z.flags # 0 THEN crc32(z.check, bytes) ELSE adler32(z.check, bytes)
HeadCrc(z, bytes) == IF Odd(z.flags, 512) THEN [z EXCEPT !.check = crc32(@, bytes)] ELSE z
Note(z, f(_)) == IF z.head = <<>> THEN z ELSE [z EXCEPT !.head = <<f(z.head[1])>>]

\* Header fields end with the accumulator empty.
Read(z, next) == INITBITS(To(HeadCrc(z, Held(z)), next))

HeadMode(z) ==
  LET v == BITS(z, 16)
      y == Note([z EXCEPT !.flags = 0], LAMBDA h : [h EXCEPT !.done = -1])
  IN  CASE Odd(z.wrap, 2) /\ v = 35615 ->
             To(INITBITS([z EXCEPT !.check = crc32({}, <<31, 139>>)]), "FLAGS")
        [] ~ (Odd(z.wrap, 2) /\ v = 35615) /\
           (~ Odd(z.wrap, 1) \/ ((v % 256) * 256 + (v \div 256)) % 31 # 0) -> Bad(y)
        [] OTHER ->
             IF v % 16 # 8 THEN Bad(y)
             ELSE IF ((v \div 16) % 16) + 8 > w_bits THEN Bad(DROPBITS(y, 4))
             ELSE To(INITBITS([y EXCEPT !.check = adler32_init]),
                     IF Odd(v, 8192) THEN "DICTID" ELSE "TYPE")

FlagsMode(z) ==
  LET v == BITS(z, 16)
      y == [z EXCEPT !.flags = v]
  IN  IF v % 256 # 8 \/ v \div 8192 # 0 THEN Bad(y)
      ELSE Read(Note(y, LAMBDA h : [h EXCEPT !.text = Odd(v, 256)]), "TIME")
TimeMode(z) == Read(Note(z, LAMBDA h : [h EXCEPT !.time = Held(z)]), "OS")
OsMode(z) ==
  Read(Note(z, LAMBDA h : [h EXCEPT !.xflags = Held(z)[1], !.os = Held(z)[2]]), "EXLEN")

ExlenMode(z) ==
  LET got(y) == LET v == BITS(y, 16)
                IN  Read(Note([y EXCEPT !.length = v],
                              LAMBDA h : [h EXCEPT !.extra_len = v]), "EXTRA")
  IN  IF Odd(z.flags, 1024) THEN Given(z, 16, got)
      ELSE To(Note(z, LAMBDA h : [h EXCEPT !.extra = NoBuf]), "EXTRA")

Take(z, n) == [z EXCEPT !.in = SubSeq(@, n + 1, Len(@))]

Add(field, bytes) == field \o bytes

\* The caller's extra_max is taken to cover the field.
ExtraMode(z) ==
  LET copy == IF z.length > Len(z.in) THEN Len(z.in) ELSE z.length
      bytes == SubSeq(z.in, 1, copy)
      kept(h) == IF h.extra = NoBuf THEN h ELSE [h EXCEPT !.extra = Add(@, bytes)]
      y == Take(HeadCrc([Note(z, kept) EXCEPT !.length = @ - copy], bytes), copy)
  IN  IF Odd(z.flags, 1024) /\ y.length # 0 THEN Leave(y)
      ELSE To([(IF Odd(z.flags, 1024) THEN y ELSE z) EXCEPT !.length = 0], "NAME")

\* A string up to its zero byte, or all the input there is; Put stores what
\* fits the caller's buffer.
StringMode(z, bit, max(_), Store0(_, _), None(_), next) ==
  LET zeros == {k \in 1 .. Len(z.in) : z.in[k] = 0}
      copy == IF zeros = {} THEN Len(z.in) ELSE Min(zeros)
      bytes == SubSeq(z.in, 1, copy)
      room == IF z.head = <<>> THEN 0
              ELSE IF max(z.head[1]) - z.length < copy THEN max(z.head[1]) - z.length ELSE copy
      kept(h) == Store0(h, SubSeq(bytes, 1, room))
      y == Take(HeadCrc([Note(z, kept) EXCEPT !.length = @ + room], bytes), copy)
  IN  IF ~ Odd(z.flags, bit) THEN To([Note(z, None) EXCEPT !.length = 0], next)
      ELSE IF z.in = <<>> THEN Leave(z)
      ELSE IF zeros = {} THEN Leave(y) ELSE To([y EXCEPT !.length = 0], next)

NameMode(z) ==
  StringMode(z, 2048, LAMBDA h : IF h.name = NoBuf THEN z.length ELSE h.name_max,
             LAMBDA h, b : IF h.name = NoBuf THEN h ELSE [h EXCEPT !.name = Add(@, b)],
             LAMBDA h : [h EXCEPT !.name = NoBuf], "COMMENT")
CommentMode(z) ==
  StringMode(z, 4096, LAMBDA h : IF h.comment = NoBuf THEN z.length ELSE h.comm_max,
             LAMBDA h, b : IF h.comment = NoBuf THEN h ELSE [h EXCEPT !.comment = Add(@, b)],
             LAMBDA h : [h EXCEPT !.comment = NoBuf], "HCRC")

HcrcMode(z) ==
  LET done(y) == To([Note(y, LAMBDA h : [h EXCEPT !.hcrc = Odd(z.flags, 512), !.done = 1])
                       EXCEPT !.check = {}], "TYPE")
      test(y) == IF Held(y) # <<ByteOf(y.check, 0), ByteOf(y.check, 1)>> THEN Bad(y)
                 ELSE done(INITBITS(y))
  IN  IF Odd(z.flags, 512) THEN Given(z, 16, test) ELSE done(z)

\* A word held in the stream, most significant byte first, as an Adler-32.
HeldAdler(z) == LET h == Held(z) IN <<h[3] * 256 + h[4], h[1] * 256 + h[2]>>
DictidMode(z) == INITBITS(To([z EXCEPT !.check = HeldAdler(z)], "DICT"))

----------------------------------------------------------------------------
TypeMode(z) ==
  LET type == BITS(DROPBITS(z, 1), 2)
      y == DROPBITS([z EXCEPT !.last = BITS(z, 1) = 1], 3)
  IN  CASE type = 0 -> To(y, "STORED")
        [] type = 1 -> To([y EXCEPT !.lencode = lenfix, !.distcode = distfix], "LEN")
        [] type = 2 -> To(y, "TABLE")
        [] type = 3 -> Bad(y)

StoredMode(z) ==
  LET h == Held(z)
  IN  IF h[1] + h[3] # 255 \/ h[2] + h[4] # 255 THEN Bad(z)
      ELSE To(INITBITS([z EXCEPT !.length = h[1] + 256 * h[2]]), "COPY")

CopyMode(z) ==
  LET copy == Min({z.length, Len(z.in), z.left})
  IN  IF z.length = 0 THEN To(z, "TYPE")
      ELSE IF copy = 0 THEN Leave(z)
      ELSE Take([z EXCEPT !.out = @ \o SubSeq(z.in, 1, copy), !.left = @ - copy,
                          !.length = @ - copy], copy)

TableMode(z) ==
  LET y == DROPBITS([z EXCEPT !.nlen = BITS(z, 5) + 257,
                              !.ndist = BITS(DROPBITS(z, 5), 5) + 1,
                              !.ncode = BITS(DROPBITS(z, 10), 4) + 4, !.have = 0,
                              !.lens = [k \in 1 .. 19 |-> 0]], 14)
  IN  IF y.nlen > 286 \/ y.ndist > 30 THEN Bad(y) ELSE To(y, "LENLENS")

\* The lengths of the code length codes; the ones not sent are zero.
WithLenCode(z, t) ==
  IF t.ret # 0 THEN Bad(z)
  ELSE To([z EXCEPT !.lencode = t, !.lens = <<>>, !.have = 0], "CODELENS")
LenlensMode(z) ==
  LET one(y) == DROPBITS([y EXCEPT !.lens[bl_order[y.have + 1] + 1] = BITS(y, 3),
                                   !.have = @ + 1], 3)
  IN  IF z.have < z.ncode THEN Given(z, 3, one)
      ELSE WithLenCode(z, inflate_table("CODES", z.lens, 7))

\* The table entry of the next bits; more input is asked for only if needed.
RECURSIVE Lookup(_, _, _, _, _)
Lookup(z, table, val, bits, skip) ==
  LET e == table[val + (BITS(z, bits) \div 2^skip)]
  IN  IF z.leave \/ skip + e.bits <= Len(z.hold) THEN [z |-> z, this |-> e]
      ELSE Lookup(PULLBYTE(z), table, val, bits, skip)

First0(z, t) == Lookup(z, t.table, 0, t.bits, 0)
Second(z, t, e) == Lookup(z, t.table, e.val, e.bits + e.op, e.bits)

\* A code through both levels; its bits are dropped.
Dropped(r, bits) == IF r.z.leave THEN r ELSE [r EXCEPT !.z = DROPBITS(@, bits + r.this.bits)]
DecodedAt(r, t) ==
  IF ~ r.z.leave /\ r.this.op \in 1 .. 15
  THEN Dropped(Second(r.z, t, r.this), r.this.bits) ELSE Dropped(r, 0)
Decoded(z, t) == DecodedAt(First0(z, t), t)

RepeatBits(val) == CASE val = 16 -> 2 [] val = 17 -> 3 [] OTHER -> 7
Repeats(z, val) ==
  CASE val = 16 -> 3 + BITS(z, 2) [] val = 17 -> 3 + BITS(z, 3) [] OTHER -> 11 + BITS(z, 7)

\* One code length or one run of them.
CodeLengthOf(r) ==
  LET v == r.this.val
      run(y) ==
        LET d == DROPBITS(y, r.this.bits)
            copy == Repeats(d, v)
            len == IF v = 16 THEN y.lens[y.have] ELSE 0
            e == DROPBITS(d, RepeatBits(v))
        IN  IF v = 16 /\ y.have = 0 THEN Bad(d)
            ELSE IF y.have + copy > y.nlen + y.ndist THEN Bad(e)
            ELSE [e EXCEPT !.lens = @ \o [k \in 1 .. copy |-> len], !.have = @ + copy]
  IN  IF r.z.leave THEN r.z
      ELSE IF v < 16 THEN DROPBITS([r.z EXCEPT !.lens = Append(@, v), !.have = @ + 1], r.this.bits)
      ELSE Given(r.z, r.this.bits + RepeatBits(v), run)
CodeLength(z) == CodeLengthOf(First0(z, z.lencode))

WithTables(z, l, d) ==
  IF l.ret # 0 \/ d.ret # 0 THEN Bad(z)
  ELSE To([z EXCEPT !.lencode = l, !.distcode = d, !.lens = <<>>], "LEN")
CodelensMode(z) ==
  IF z.have < z.nlen + z.ndist THEN CodeLength(z)
  ELSE WithTables(z, inflate_table("LENS", SubSeq(z.lens, 1, z.nlen), 9),
                  inflate_table("DISTS", SubSeq(z.lens, z.nlen + 1, z.nlen + z.ndist), 6))

LenKind(z, this) ==
  CASE this.op = 0 -> To(z, "LIT")
    [] Odd(this.op, 32) -> To(z, "TYPE")
    [] this.op # 0 /\ ~ Odd(this.op, 32) /\ Odd(this.op, 64) -> Bad(z)
    [] OTHER -> To([z EXCEPT !.extra = this.op % 16], "LENEXT")
LenCode(r) == IF r.z.leave THEN r.z ELSE LenKind([r.z EXCEPT !.length = r.this.val], r.this)
LenMode(z) == LenCode(Decoded(z, z.lencode))

LenextMode(z) == DROPBITS(To([z EXCEPT !.length = @ + BITS(z, z.extra)], "DIST"), z.extra)

DistCode(r) ==
  IF r.z.leave THEN r.z
  ELSE IF Odd(r.this.op, 64) THEN Bad(r.z)
  ELSE To([r.z EXCEPT !.offset = r.this.val, !.extra = r.this.op % 16], "DISTEXT")
DistMode(z) == DistCode(Decoded(z, z.distcode))

DistextMode(z) ==
  LET y == DROPBITS([z EXCEPT !.offset = @ + BITS(z, z.extra)], z.extra)
  IN  IF y.offset > z.whave + Produced(z) THEN Bad(y) ELSE To(y, "MATCH")

\* n bytes from dist back in the output, which the copy may overtake.
RECURSIVE CopyBack(_, _, _)
CopyBack(out, dist, n) ==
  IF n = 0 THEN out ELSE CopyBack(Append(out, out[Len(out) - dist + 1]), dist, n - 1)

MatchEnd(z) == IF z.length = 0 THEN To(z, "LEN") ELSE z

\* As much of a match as lies in one piece, of the window or of the output.
MatchMode(z) ==
  LET back == z.offset - Produced(z)
      wraps == back > z.write
      inWindow == IF wraps THEN back - z.write ELSE back
      from == IF wraps THEN z.wsize - inWindow ELSE z.write - back
      copy == IF back > 0 THEN Min({inWindow, z.length, z.left}) ELSE Min({z.length, z.left})
      bytes == [k \in 1 .. copy |-> z.window[from + k - 1]]
  IN  IF z.left = 0 THEN Leave(z)
      ELSE MatchEnd([z EXCEPT !.left = @ - copy, !.length = @ - copy,
                              !.out = IF back > 0 THEN @ \o bytes
                                      ELSE CopyBack(@, z.offset, copy)])

\* Mutant: a literal without room is passed over.
LitLost(z) ==
  IF z.left = 0 THEN Leave(To(z, "LEN"))
  ELSE To([z EXCEPT !.out = Append(@, z.length), !.left = @ - 1], "LEN")
LitMode(z) ==
  IF z.left = 0 THEN Leave(z)
  ELSE To([z EXCEPT !.out = Append(@, z.length), !.left = @ - 1], "LEN")

\* The trailer: the checksum of all output, then for gzip its length.
HeldWord(z) == {i \in 0 .. 31 : z.hold[i + 1] = 1}
New(z) == SubSeq(z.out, z.start + 1, Len(z.out))

Same(z, check) == IF z.flags # 0 THEN HeldWord(z) = check ELSE HeldAdler(z) = check

Checked(z) == IF Same(z, z.check) THEN To(INITBITS(z), "LENGTH") ELSE Bad(z)
CheckMode(z) ==
  Checked([z EXCEPT !.total = @ + Produced(z), !.start = Len(z.out),
                    !.check = IF Produced(z) = 0 THEN @ ELSE UPDATE(z, New(z))])

LengthMode(z) ==
  IF Held(z) = <<z.total % 256, z.total \div 256, 0, 0>> THEN To(INITBITS(z), "DONE") ELSE Bad(z)

----------------------------------------------------------------------------
CanGoFast(z) == Len(z.in) >= 6 /\ z.left >= MAX_MATCH

\* inflate_fast: as long as six bytes of input and room for the longest match
\* are left, codes are decoded without asking.  Two bytes at a time enter hold.
Enter(z, n) == [z EXCEPT !.hold = @ \o Joined([k \in 1 .. n |-> BitsOf(z.in[k], 8)]),
                         !.in = SubSeq(@, n + 1, Len(@))]
Refill(z) == IF Len(z.hold) < 15 THEN Enter(z, 2) ELSE z

FastEntry(z, e) == [z |-> DROPBITS(z, e.bits), this |-> e]
FastSecond(r, t) ==
  IF r.this.op \in 1 .. 15
  THEN FastEntry(r.z, t.table[r.this.val + BITS(r.z, r.this.op)]) ELSE r
FastDecoded(z, t) == FastSecond(FastEntry(z, t.table[BITS(z, t.bits)]), t)

\* What a match takes from the window, in up to two pieces.
WindowPart(z, op, len) ==
  LET piece(from, n) == [k \in 1 .. n |-> z.window[from + k - 1]]
      low(a, b) == IF a < b THEN a ELSE b
  IN  CASE z.write = 0 -> piece(z.wsize - op, low(op, len))
        [] z.write # 0 /\ z.write < op ->
             piece(z.wsize + z.write - op, low(op - z.write, len))
             \o (IF op - z.write < len
                 THEN piece(0, low(z.write, len - (op - z.write))) ELSE <<>>)
        [] OTHER -> piece(z.write - op, low(op, len))

FastCopy(z, dist, len) ==
  LET op == dist - Produced(z)
      part == IF op > 0 THEN WindowPart(z, op, len) ELSE <<>>
      y == [z EXCEPT !.out = CopyBack(@ \o part, dist, len - Len(part)), !.left = @ - len]
  IN  IF op > z.whave THEN Bad(z) ELSE y

FastDist(z, this, len) ==
  FastCopy(DROPBITS(z, this.op % 16), this.val + BITS(z, this.op % 16), len)
EnterFor(z, dx) ==
  IF dx > Len(z.hold) THEN Enter(z, (dx - Len(z.hold) + 7) \div 8) ELSE z
FastMatchOf(r, len) ==
  IF Odd(r.this.op, 16) THEN FastDist(EnterFor(r.z, r.this.op % 16), r.this, len)
  ELSE Bad(r.z)
FastLen(z, val, lx) ==
  FastMatchOf(FastDecoded(Refill(DROPBITS(z, lx)), z.distcode), val + BITS(z, lx))
FastMatch(z, this) ==
  FastLen(IF Len(z.hold) < this.op % 16 THEN Enter(z, 1) ELSE z, this.val, this.op % 16)

FastCodeOf(z, this) ==
  CASE this.op = 0 -> [z EXCEPT !.out = Append(@, this.val), !.left = @ - 1]
    [] Odd(this.op, 16) /\ this.op # 0 -> FastMatch(z, this)
    [] OTHER -> IF Odd(this.op, 32) THEN To(z, "TYPE") ELSE Bad(z)
FastStep(r) == FastCodeOf(r.z, r.this)
FastCode(z) == FastStep(FastDecoded(Refill(z), z.lencode))

RECURSIVE FastCodes(_, _)
FastCodes(z, k) ==
  IF k = 0 THEN FastCode(z)
  ELSE LET y == FastCodes(z, k - 1)
       IN  IF y.mode # "LEN" \/ ~ CanGoFast(y) THEN y ELSE FastCodes(y, k - 1)

\* Whole bytes left in hold go back to the input.
Unused(z) ==
  LET n == Len(z.hold) \div 8
      keep == Len(z.hold) % 8
  IN  [z EXCEPT !.hold = SubSeq(@, 1, keep),
                !.in = [k \in 1 .. n |-> ByteAt(SubSeq(z.hold, keep + 1, Len(z.hold)), k - 1)] \o @]

inflate_fast(z) == Unused(FastCodes(z, 7))

\* The modes that no input leaves.
EndMode(z) ==
  Return0(z, CASE z.mode = "DONE" -> "Z_STREAM_END" [] z.mode = "BAD" -> "Z_DATA_ERROR"
               [] z.mode = "MEM" -> "Z_MEM_ERROR" [] z.mode = "SYNC" -> "Z_STREAM_ERROR")

----------------------------------------------------------------------------
Step(z, flush) ==
  CASE z.mode = "HEAD" -> IF z.wrap = 0 THEN To(z, "TYPEDO") ELSE Given(z, 16, HeadMode)
    [] z.mode = "FLAGS" -> Given(z, 16, FlagsMode)
    [] z.mode = "TIME" -> Given(z, 32, TimeMode)
    [] z.mode = "OS" -> Given(z, 16, OsMode)
    [] z.mode = "EXLEN" -> ExlenMode(z)
    [] z.mode = "EXTRA" -> ExtraMode(z)
    [] z.mode = "NAME" -> NameMode(z)
    [] z.mode = "COMMENT" -> CommentMode(z)
    [] z.mode = "HCRC" -> HcrcMode(z)
    [] z.mode = "DICTID" -> Given(z, 32, DictidMode)
    [] z.mode = "DICT" -> IF z.havedict THEN To([z EXCEPT !.check = adler32_init], "TYPE")
                          ELSE Return0(z, "Z_NEED_DICT")
    [] z.mode = "TYPE" -> IF flush = Z_BLOCK THEN Leave(z) ELSE To(z, "TYPEDO")
    [] z.mode = "TYPEDO" -> IF z.last THEN To(BYTEBITS(z), "CHECK") ELSE Given(z, 3, TypeMode)
    [] z.mode = "STORED" -> Given(BYTEBITS(z), 32, StoredMode)
    [] z.mode = "COPY" -> CopyMode(z)
    [] z.mode = "TABLE" -> Given(z, 14, TableMode)
    [] z.mode = "LENLENS" -> LenlensMode(z)
    [] z.mode = "CODELENS" -> CodelensMode(z)
    [] z.mode = "LEN" -> IF CanGoFast(z) THEN inflate_fast(z) ELSE LenMode(z)
    [] z.mode = "LENEXT" -> Given(z, z.extra, LenextMode)
    [] z.mode = "DIST" -> DistMode(z)
    [] z.mode = "DISTEXT" -> Given(z, z.extra, DistextMode)
    [] z.mode = "MATCH" -> MatchMode(z)
    [] z.mode = "LIT" -> LitMode(z)
    [] z.mode = "CHECK" -> IF z.wrap # 0 THEN Given(z, 32, CheckMode) ELSE To(z, "LENGTH")
    [] z.mode = "LENGTH" -> IF z.wrap # 0 /\ z.flags # 0 THEN Given(z, 32, LengthMode)
                            ELSE To(z, "DONE")
    [] z.mode \in {"DONE", "BAD", "MEM", "SYNC"} -> EndMode(z)

Late == {"CHECK", "LENGTH", "DONE", "BAD", "MEM", "SYNC"}

\* inf_leave: the window and the totals; no progress is a buffer error.
Totals(z, in, n, flush) ==
  IF z.mode = "MEM" THEN [z EXCEPT !.ret = "Z_MEM_ERROR"]
  ELSE [z EXCEPT !.total_in = @ + in, !.total = @ + n,
                 !.check = IF z.wrap # 0 /\ n # 0 THEN UPDATE(z, New(z)) ELSE @,
                 !.data_type = Len(z.hold) + Flag(z.last, 64) + Flag(z.mode = "TYPE", 128),
                 !.ret = IF ((in = 0 /\ n = 0) \/ flush = Z_FINISH) /\ @ = "Z_OK"
                         THEN "Z_BUF_ERROR" ELSE @]
LeaveCall(z, fed, flush) ==
  Totals(IF z.wsize # 0 \/ (z.mode \notin Late /\ Produced(z) # 0)
         THEN updatewindow(z) ELSE z, fed - Len(z.in), Produced(z), flush)

\* Up to 2^k steps, by halves.
RECURSIVE Steps(_, _, _)
Steps(z, flush, k) ==
  IF k = 0 THEN Step(z, flush)
  ELSE LET y == Steps(z, flush, k - 1) IN IF y.leave THEN y ELSE Steps(y, flush, k - 1)

Left0(z, fed, flush) ==
  IF z.ret \in {"Z_NEED_DICT", "Z_MEM_ERROR", "Z_STREAM_ERROR"} THEN z
  ELSE LeaveCall(z, fed, flush)
inflate(z, flush) ==
  Left0(Steps([z EXCEPT !.mode = IF @ = "TYPE" THEN "TYPEDO" ELSE @, !.start = Len(z.out),
                        !.leave = FALSE, !.ret = "Z_OK"], flush, 9), Len(z.in), flush)

----------------------------------------------------------------------------
inflatePrime(z, bits, value) ==
  IF bits > 16 \/ Len(z.hold) + bits > 32 THEN [z EXCEPT !.ret = "Z_STREAM_ERROR"]
  ELSE [z EXCEPT !.hold = @ \o BitsOf(value, bits), !.ret = "Z_OK"]

\* The dictionary fills the end of the window, as if it had been written.
inflateSetDictionary(z, dictionary) ==
  LET n == Len(dictionary)
      w == updatewindow([z EXCEPT !.start = Len(z.out)])
      have == IF n > w.wsize THEN w.wsize ELSE n
      tail == SubSeq(dictionary, n - have + 1, n)
  IN  CASE z.wrap # 0 /\ z.mode # "DICT" -> [z EXCEPT !.ret = "Z_STREAM_ERROR"]
        [] z.mode = "DICT" /\ adler32(adler32_init, dictionary) # z.check ->
             [z EXCEPT !.ret = "Z_DATA_ERROR"]
        [] OTHER -> IF w.mode = "MEM" THEN [w EXCEPT !.ret = "Z_MEM_ERROR"]
                    ELSE [w EXCEPT !.window = Store(@, w_size - have, tail), !.whave = have,
                                   !.havedict = TRUE, !.ret = "Z_OK"]

inflateGetHeader(z, head) ==
  IF ~ Odd(z.wrap, 2) THEN [z EXCEPT !.ret = "Z_STREAM_ERROR"]
  ELSE [z EXCEPT !.head = <<[head EXCEPT !.done = 0]>>, !.ret = "Z_OK"]

\* Look for 0, 0, 255, 255; got of them were found before.
RECURSIVE syncsearch(_, _, _)
syncsearch(got, buf, next) ==
  IF next > Len(buf) \/ got = 4 THEN [have |-> got, next |-> next - 1]
  ELSE syncsearch(IF buf[next] = IF got < 2 THEN 0 ELSE 255 THEN got + 1
                  ELSE IF buf[next] # 0 THEN 0 ELSE 4 - got, buf, next + 1)

\* The bits of a byte already begun are shifted up, not out.
SyncHeld(z) ==
  LET part == Len(z.hold) % 8
      shifted == [k \in 1 .. part |-> 0] \o z.hold
  IN  [k \in 1 .. Len(z.hold) \div 8 |-> ByteAt(shifted, k - 1)]

inflateSync(z) ==
  LET had == IF z.mode = "SYNC" THEN z.have ELSE syncsearch(0, SyncHeld(z), 1).have
      r == syncsearch(had, z.in, 1)
      y == Take([z EXCEPT !.have = r.have, !.total_in = @ + r.next, !.mode = "SYNC",
                          !.hold = <<>>], r.next)
      new == [inflateReset(y) EXCEPT !.total_in = y.total_in, !.out = z.out, !.mode = "TYPE"]
  IN  IF z.in = <<>> /\ Len(z.hold) < 8 THEN [z EXCEPT !.ret = "Z_BUF_ERROR"]
      ELSE IF r.have # 4 THEN [y EXCEPT !.ret = "Z_DATA_ERROR"]
      ELSE [new EXCEPT !.ret = "Z_OK"]

inflateSyncPoint(z) == z.mode = "STORED" /\ z.hold = <<>>

----------------------------------------------------------------------------
(***************************************************************************)
(* inflateBack of usr/klibc/zlib/infback.c: one call that fetches input    *)
(* with in() and delivers a full window with out().  b is the state of     *)
(* Inflate, whose modes it shares; the window is also the output buffer    *)
(* and wsize - left its next free place.  feed holds what in() will        *)
(* return, quota how many calls of out() succeed, sent what out() took and *)
(* next whether next_in is set.                                            *)
(***************************************************************************)

inflateBackInit(window) ==
  [inflateInit2(0, TRUE) EXCEPT !.window = window, !.wsize = w_size, !.left = w_size,
                                !.mode = "TYPE"]
    @@ [feed |-> <<>>, quota |-> 0, sent |-> <<>>, next |-> FALSE]

\* More input.  A literal or length code begun is finished bit by bit.
PULL(b) ==
  IF b.feed = <<>> THEN Return0([b EXCEPT !.next = FALSE], "Z_BUF_ERROR")
  ELSE [b EXCEPT !.in = Head(b.feed), !.feed = Tail(@), !.next = TRUE, !.leave = FALSE,
                 !.mode = IF @ = "LEN" THEN "LENMORE" ELSE @]

Out(b, n) ==
  IF b.quota = 0 THEN Return0(b, "Z_BUF_ERROR")
  ELSE [b EXCEPT !.quota = @ - 1, !.sent = @ \o [k \in 1 .. n |-> b.window[k - 1]]]

\* A full window is written, and counts as full from then on.
ROOM(b) ==
  IF b.left # 0 THEN b
  ELSE Out([b EXCEPT !.left = b.wsize, !.whave = b.wsize, !.start = Len(b.out)], b.wsize)

PutBack(b, bytes) ==
  [b EXCEPT !.window = Store(@, b.wsize - b.left, bytes), !.out = @ \o bytes,
            !.left = @ - Len(bytes)]

BackCopy(b) ==
  LET r == ROOM(b)
      copy == Min({b.length, Len(b.in), r.left})
  IN  IF b.length = 0 THEN To(b, "TYPE")
      ELSE IF b.in = <<>> THEN Leave(b)
      ELSE IF r.leave THEN r
      ELSE Take([PutBack(r, SubSeq(b.in, 1, copy)) EXCEPT !.length = @ - copy], copy)

BackLit(b) == LET r == ROOM(b) IN IF r.leave THEN r ELSE To(PutBack(r, <<b.length>>), "LEN")

\* The window fills up to left before the first turn and is all valid later.
BackDistext(b) ==
  LET y == DROPBITS([b EXCEPT !.offset = @ + BITS(b, b.extra)], b.extra)
  IN  IF y.offset > b.wsize - (IF b.whave < b.wsize THEN b.left ELSE 0) THEN Bad(y)
      ELSE To(y, "MATCH")

\* A piece of a match, up to the end of the window; it may overtake itself.
BackPiece(b, ahead, put, copy) ==
  MatchEnd([PutBack(b, [k \in 1 .. copy |->
                          b.window[IF ahead < b.left THEN put + ahead + k - 1
                                   ELSE put - b.offset + ((k - 1) % b.offset)]])
              EXCEPT !.length = @ - copy])
BackCopied(b) ==
  LET ahead == b.wsize - b.offset
  IN  IF b.leave THEN b
      ELSE BackPiece(b, ahead, b.wsize - b.left,
                     Min({IF ahead < b.left THEN b.left - ahead ELSE b.left, b.length}))
BackMatch(b) ==
  BackCopied(ROOM(b))

BackWritten(y, b) ==
  [y EXCEPT !.window = Store(@, b.wsize - b.left, SubSeq(y.out, Len(b.out) + 1, Len(y.out)))]
BackFast(b) ==
  BackWritten(inflate_fast([b EXCEPT !.whave = IF @ < b.wsize THEN b.wsize - b.left ELSE @]), b)

BackTables(b) ==
  CASE b.mode = "TABLE" -> Given(b, 14, TableMode)
    [] b.mode = "LENLENS" -> LenlensMode(b)
    [] b.mode = "CODELENS" -> CodelensMode(b)

BackCodes(b) ==
  CASE b.mode = "LEN" -> IF CanGoFast(b) THEN BackFast(b) ELSE LenMode(b)
    [] b.mode = "LENMORE" -> LenMode(b)
    [] b.mode = "LIT" -> BackLit(b)
    [] b.mode = "LENEXT" -> Given(b, b.extra, LenextMode)
    [] b.mode = "DIST" -> DistMode(b)
    [] b.mode = "DISTEXT" -> Given(b, b.extra, BackDistext)
    [] b.mode = "MATCH" -> BackMatch(b)

\* What is left in the window is written too.
BackDone(b) ==
  LET r == IF b.left = b.wsize THEN b ELSE Out(b, b.wsize - b.left)
  IN  IF r.leave THEN r ELSE Return0(r, "Z_STREAM_END")

BackStep(b) ==
  CASE b.mode = "TYPE" -> IF b.last THEN To(BYTEBITS(b), "DONE") ELSE Given(b, 3, TypeMode)
    [] b.mode = "STORED" -> Given(BYTEBITS(b), 32, StoredMode)
    [] b.mode = "COPY" -> BackCopy(b)
    [] b.mode \in {"TABLE", "LENLENS", "CODELENS"} -> BackTables(b)
    [] b.mode = "DONE" -> BackDone(b)
    [] b.mode = "BAD" -> Return0(b, "Z_DATA_ERROR")
    [] OTHER -> BackCodes(b)

\* A step that leaves without a result waits for input.
Waiting(b) == IF b.leave /\ b.ret = "Z_OK" THEN PULL(b) ELSE b
BackTurn(b) == Waiting(BackStep(b))

RECURSIVE BackTurns(_, _)
BackTurns(b, k) ==
  IF k = 0 THEN BackTurn(b)
  ELSE LET y == BackTurns(b, k - 1) IN IF y.leave THEN y ELSE BackTurns(y, k - 1)

inflateBack(b, feed, quota) ==
  BackTurns([b EXCEPT !.mode = "TYPE", !.last = FALSE, !.whave = 0, !.hold = <<>>,
                      !.left = b.wsize, !.start = Len(b.out), !.feed = feed, !.quota = quota,
                      !.leave = FALSE, !.ret = "Z_OK"], 10)
============================================================================
