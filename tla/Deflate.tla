------------------------------ MODULE Deflate ------------------------------
(***************************************************************************)
(* The compressor of usr/klibc/zlib/deflate.c.  s is a deflate_state with  *)
(* its z_stream: in and avail_out are what the caller offers, out is all   *)
(* that was ever delivered.  The alphabets and codes have their real size; *)
(* the window, the longest match, the symbol buffer and TOO_FAR are        *)
(* constants, w_bits is only what the zlib header says of the window.      *)
(* head and prev are the hash chains; a hash value is the set of its bits. *)
(* garbage stands for what malloc left in the window and in prev.          *)
(***************************************************************************)
EXTENDS Trees, Checksums, TLC

CONSTANTS w_bits, w_size, MAX_MATCH, lit_bufsize, TOO_FAR

MIN_MATCH == 3
MIN_LOOKAHEAD == MAX_MATCH + MIN_MATCH + 1
MAX_DIST == w_size - MIN_LOOKAHEAD
window_size == 2 * w_size
pending_buf_size == 4 * lit_bufsize
NIL == 0

Z_NO_FLUSH == 0
Z_PARTIAL_FLUSH == 1
Z_SYNC_FLUSH == 2
Z_FULL_FLUSH == 3
Z_FINISH == 4

Z_FILTERED == 1
Z_HUFFMAN_ONLY == 2
Z_RLE == 3

Config(good, lazy, nice, chain, func) ==
  [good |-> good, lazy |-> lazy, nice |-> nice, chain |-> chain, func |-> func]
configuration_table ==
  (0 :> Config(0, 0, 0, 0, "stored")) @@
  (1 :> Config(4, 4, 8, 4, "fast")) @@ (2 :> Config(4, 5, 16, 8, "fast")) @@
  (3 :> Config(4, 6, 32, 32, "fast")) @@ (4 :> Config(4, 4, 16, 16, "slow")) @@
  (5 :> Config(8, 16, 32, 32, "slow")) @@ (6 :> Config(8, 16, 128, 128, "slow")) @@
  (7 :> Config(8, 32, 128, 256, "slow")) @@ (8 :> Config(32, 128, 258, 1024, "slow")) @@
  (9 :> Config(32, 258, 258, 4096, "slow"))

UPDATE_HASH(h, c) == Xor(Shl(h, 3), Bits8(c)) \cap (0 .. 7)

\* The string at str heads its chain; hash_head is the one before it.
INSERT_STRING(s, str) ==
  LET h == UPDATE_HASH(s.ins_h, s.win[str + MIN_MATCH - 1])
      old == IF h \in DOMAIN s.head THEN s.head[h] ELSE NIL
  IN  [s EXCEPT !.ins_h = h, !.hash_head = old, !.prev[str % w_size] = old,
                !.head = (h :> str) @@ @]

RECURSIVE InsertAll(_, _, _)
InsertAll(s, from, to) ==
  IF from > to THEN s ELSE InsertAll(INSERT_STRING(s, from), from + 1, to)

Rehash(s) == [s EXCEPT !.ins_h = UPDATE_HASH(Bits8(s.win[s.strstart]), s.win[s.strstart + 1])]

\* The parameters of a level, in lm_init and in deflateParams.
Configure(s, level) ==
  LET c == configuration_table[level]
  IN  [s EXCEPT !.level = level, !.lazy = c.lazy, !.good = c.good,
                !.nice = c.nice, !.chain = c.chain]

lm_init(s) ==
  [Configure(s, s.level) EXCEPT
     !.head = <<>>, !.strstart = 0, !.block_start = 0, !.lookahead = 0,
     !.match_length = MIN_MATCH - 1, !.prev_length = MIN_MATCH - 1,
     !.match_available = FALSE, !.ins_h = {}]

deflateReset(s) ==
  LET wrap == IF s.wrap < 0 THEN -s.wrap ELSE s.wrap
  IN  lm_init([s EXCEPT !.total_in = 0, !.out = <<>>, !.o = _tr_init, !.sym = <<>>,
                        !.wrap = wrap, !.status = IF wrap # 0 THEN "INIT" ELSE "BUSY",
                        !.adler = IF wrap = 2 THEN {} ELSE adler32_init,
                        !.last_flush = Z_NO_FLUSH])

\* The state is allocated, not cleared.
deflateInit2(level, wrap, strategy, garbage) ==
  deflateReset(
    [status |-> "INIT", wrap |-> wrap, last_flush |-> 0, level |-> level,
     strategy |-> strategy, lazy |-> 0, good |-> 0, nice |-> 0, chain |-> 0,
     win |-> [i \in 0 .. window_size - 1 |-> garbage],
     prev |-> [i \in 0 .. w_size - 1 |-> garbage % w_size], head |-> <<>>,
     strstart |-> 0, block_start |-> 0, lookahead |-> 0, ins_h |-> {}, hash_head |-> NIL,
     match_start |-> garbage % w_size, prev_match |-> garbage % w_size,
     match_length |-> 0, prev_length |-> 0, match_available |-> FALSE,
     sym |-> <<>>, o |-> _tr_init, adler |-> adler32_init, gzhead |-> <<>>, gzindex |-> 0,
     in |-> <<>>, total_in |-> 0, out |-> <<>>, avail_out |-> 0, garbage |-> garbage,
     bstate |-> "none", ret |-> "Z_OK"])

----------------------------------------------------------------------------
flush_pending(s) ==
  LET o == s.o
      len == IF o.pending > s.avail_out THEN s.avail_out ELSE o.pending
      at(i) == IF i <= Len(o.buf) THEN o.buf[i] ELSE s.garbage
      left == IF o.pending = len THEN [o EXCEPT !.buf = <<>>, !.pout = 0, !.pending = 0]
              ELSE [o EXCEPT !.pout = @ + len, !.pending = @ - len]
  IN  [s EXCEPT !.out = @ \o [k \in 1 .. len |-> at(o.pout + k)],
                !.avail_out = @ - len, !.o = left]

Store(win, at, bytes) ==
  [i \in DOMAIN win |-> IF i \in at .. at + Len(bytes) - 1 THEN bytes[i - at + 1] ELSE win[i]]

\* Up to size bytes of input, added to the checksum on the way.
read_buf(s, size) ==
  LET n == IF Len(s.in) > size THEN size ELSE Len(s.in)
      bytes == SubSeq(s.in, 1, n)
  IN  [s EXCEPT !.in = SubSeq(@, n + 1, Len(@)), !.total_in = @ + n,
                !.win = Store(@, s.strstart + s.lookahead, bytes),
                !.lookahead = @ + n,
                !.adler = CASE s.wrap = 1 -> adler32(@, bytes)
                            [] s.wrap = 2 -> crc32(@, bytes)
                            [] OTHER -> @]

\* Mutant: positions that left the window stay on the chains.
LoweredWrong(m) == IF m >= w_size THEN m - w_size ELSE m

\* The upper half of the window moves down, and the chains with it.
Lowered(m) == IF m >= w_size THEN m - w_size ELSE NIL
Slide(s) ==
  IF s.strstart < w_size + MAX_DIST THEN s
  ELSE [s EXCEPT !.win = [i \in DOMAIN @ |-> IF i < w_size THEN @[i + w_size] ELSE @[i]],
                 !.match_start = @ - w_size, !.strstart = @ - w_size,
                 !.block_start = @ - w_size,
                 !.head = [h \in DOMAIN @ |-> Lowered(@[h])],
                 !.prev = [i \in DOMAIN @ |-> Lowered(@[i])]]

RECURSIVE fill_window(_)
Rehashed(s) == IF s.lookahead >= MIN_MATCH THEN Rehash(s) ELSE s
FillMore(s) == IF s.lookahead < MIN_LOOKAHEAD /\ s.in # <<>> THEN fill_window(s) ELSE s
FillFrom(s) ==
  IF s.in = <<>> THEN s
  ELSE FillMore(Rehashed(read_buf(s, window_size - s.lookahead - s.strstart)))
fill_window(s) == FillFrom(Slide(s))

----------------------------------------------------------------------------
\* How far two strings agree; the third byte is not compared.
Agree(s, a, b) ==
  Min({MAX_MATCH} \cup {k \in MIN_MATCH .. MAX_MATCH - 1 : s.win[a + k] # s.win[b + k]})

\* Along the chain from cur for a match longer than m.best.
RECURSIVE Search(_, _, _, _, _)
Search(s, cur, m, chain, nice) ==
  LET scan == s.strstart
      may == /\ s.win[cur + m.best] = s.win[scan + m.best]
             /\ s.win[cur + m.best - 1] = s.win[scan + m.best - 1]
             /\ s.win[cur] = s.win[scan] /\ s.win[cur + 1] = s.win[scan + 1]
      len == Agree(s, scan, cur)
      n == IF may /\ len > m.best THEN [best |-> len, start |-> cur] ELSE m
      next == s.prev[cur % w_size]
      limit == IF scan > MAX_DIST THEN scan - MAX_DIST ELSE NIL
  IN  IF (n # m /\ len >= nice) \/ next <= limit \/ chain = 1 THEN n
      ELSE Search(s, next, n, chain - 1, nice)

\* What is found beyond the lookahead does not count.
Limited(len, lookahead) == IF len <= lookahead THEN len ELSE lookahead

longest_match(s) ==
  LET chain == IF s.prev_length >= s.good THEN s.chain \div 4 ELSE s.chain
      nice == IF s.nice > s.lookahead THEN s.lookahead ELSE s.nice
      m == Search(s, s.hash_head, [best |-> s.prev_length, start |-> s.match_start], chain, nice)
  IN  [s EXCEPT !.match_start = m.start,
                !.match_length = Limited(m.best, s.lookahead)]

longest_match_fast(s) ==
  LET cur == s.hash_head
      len == Agree(s, s.strstart, cur)
  IN  IF s.win[cur] # s.win[s.strstart] \/ s.win[cur + 1] # s.win[s.strstart + 1]
      THEN [s EXCEPT !.match_length = MIN_MATCH - 1]
      ELSE [s EXCEPT !.match_start = cur,
                     !.match_length = Limited(len, s.lookahead)]

\* The search both compressors make, by strategy.
FindMatch(s) ==
  CASE s.strategy \notin {Z_HUFFMAN_ONLY, Z_RLE} -> longest_match(s)
    [] s.strategy = Z_RLE /\ s.strstart - s.hash_head = 1 -> longest_match_fast(s)
    [] OTHER -> s

----------------------------------------------------------------------------
\* _tr_tally: the symbol buffer is full one short of its size.
Tally(s, dist, lc) == [s EXCEPT !.sym = Append(@, [dist |-> dist, lc |-> lc])]
bflush(s) == Len(s.sym) = lit_bufsize - 1

FLUSH_BLOCK_ONLY(s, eof) ==
  LET buf == IF s.block_start < 0 THEN NoBuf
             ELSE [k \in 1 .. s.strstart - s.block_start |-> s.win[s.block_start + k - 1]]
      o == _tr_flush_block(s.o, s.sym, s.level, s.strategy, buf,
                           s.strstart - s.block_start, eof)
  IN  flush_pending([s EXCEPT !.o = o, !.sym = <<>>, !.block_start = s.strstart])

Advance(s) == [s EXCEPT !.strstart = @ + 1, !.lookahead = @ - 1]

(***************************************************************************)
(* A turn of a compressor's loop leaves in bstate what becomes of the      *)
(* block: "flush" it (FLUSH_BLOCK), flush it if it is full and then count  *)
(* the literal ("literal"), flush it as the last one of the call ("last"), *)
(* or nothing: "run" asks for another turn, "need_more" ends the loop.     *)
(***************************************************************************)
Return(s, bstate) == [s EXCEPT !.bstate = bstate]
LastState(room, eof) ==
  IF eof = 1 THEN IF room THEN "finish_done" ELSE "finish_started"
  ELSE IF room THEN "block_done" ELSE "need_more"
WhileRoom(s) == IF s.avail_out = 0 THEN "need_more" ELSE "run"

AfterFlush(s, todo, eof) ==
  CASE todo = "last" -> Return(s, LastState(s.avail_out # 0, eof))
    [] todo = "flush" -> Return(s, WhileRoom(s))
    [] todo = "literal" -> Return(Advance(s), WhileRoom(s))

EndBlock(s, todo, eof) ==
  AfterFlush(IF todo = "literal" /\ ~ bflush(s) THEN s ELSE FLUSH_BLOCK_ONLY(s, eof), todo, eof)

Flush(s, flush) ==
  IF s.bstate \notin {"flush", "literal", "last"} THEN s
  ELSE EndBlock(s, s.bstate, IF s.bstate = "last" /\ flush = Z_FINISH THEN 1 ELSE 0)

FlushFull(s) == IF bflush(s) THEN Return(s, "flush") ELSE s

max_block_size == IF 65535 > pending_buf_size - 5 THEN pending_buf_size - 5 ELSE 65535

StoreUpTo(s, max_start) ==
  IF s.strstart = 0 \/ s.strstart >= max_start
  THEN Return([s EXCEPT !.lookahead = s.strstart - max_start, !.strstart = max_start], "flush")
  ELSE s
StoreAll(s) ==
  IF s.lookahead = 0 THEN Return(s, "last")
  ELSE StoreUpTo([s EXCEPT !.strstart = @ + s.lookahead, !.lookahead = 0],
                 s.block_start + max_block_size)
StoreMore(s, flush) ==
  IF s.lookahead = 0 /\ flush = Z_NO_FLUSH THEN Return(s, "need_more") ELSE StoreAll(s)
deflate_stored(s, flush) == StoreMore(IF s.lookahead <= 1 THEN fill_window(s) ELSE s, flush)

\* The end of a turn of deflate_stored: not too far from the block's start.
StoredFar(s) ==
  IF s.bstate = "run" /\ s.strstart - s.block_start >= MAX_DIST
  THEN Return(s, "flush") ELSE s

Looked(s) == IF s.lookahead < MIN_LOOKAHEAD THEN fill_window(s) ELSE s
Starved(s, flush) == s.lookahead < MIN_LOOKAHEAD /\ flush = Z_NO_FLUSH
Inserted(s) == IF s.lookahead >= MIN_MATCH THEN INSERT_STRING(s, s.strstart) ELSE s
Near(s) == s.hash_head # NIL /\ s.strstart - s.hash_head <= MAX_DIST

\* After a match: its strings enter the table only if it is short.
PassMatch(s, length) ==
  IF length <= s.lazy /\ s.lookahead >= MIN_MATCH
  THEN [InsertAll(s, s.strstart + 1, s.strstart + length - 1)
          EXCEPT !.strstart = s.strstart + length, !.match_length = 0]
  ELSE Rehash([s EXCEPT !.strstart = @ + length, !.match_length = 0])
SkipMatch(s) == PassMatch([s EXCEPT !.lookahead = @ - s.match_length], s.match_length)

FastTally(s) ==
  IF s.match_length >= MIN_MATCH
  THEN SkipMatch(Tally(s, s.strstart - s.match_start, s.match_length - MIN_MATCH))
  ELSE Advance(Tally(s, 0, s.win[s.strstart]))
FastMatch0(s) == FastTally(IF Near(s) THEN FindMatch(s) ELSE s)
FastMore(s, flush) ==
  IF Starved(s, flush) THEN Return(s, "need_more")
  ELSE IF s.lookahead = 0 THEN Return(s, "last")
  ELSE FlushFull(FastMatch0(Inserted(s)))
deflate_fast(s, flush) == FastMore(Looked(s), flush)

\* Lazy evaluation: the match before is kept unless this one is longer.
TooShort(s) ==
  s.match_length <= 5 /\ \/ s.strategy = Z_FILTERED
                         \/ s.match_length = MIN_MATCH /\ s.strstart - s.match_start > TOO_FAR
LongEnough(s) == IF TooShort(s) THEN [s EXCEPT !.match_length = MIN_MATCH - 1] ELSE s
LazyFind(s) == IF Near(s) /\ s.prev_length < s.lazy THEN LongEnough(FindMatch(s)) ELSE s
LazyMatch(s) ==
  LazyFind([s EXCEPT !.prev_length = s.match_length, !.prev_match = s.match_start,
                     !.match_length = MIN_MATCH - 1])

\* The match of the step before goes out, its strings into the table.
TakePrevious(s) ==
  LET last == s.strstart + s.prev_length - 2
      max_insert == s.strstart + s.lookahead - MIN_MATCH
  IN  [InsertAll(Tally(s, s.strstart - 1 - s.prev_match, s.prev_length - MIN_MATCH),
                 s.strstart + 1, IF last <= max_insert THEN last ELSE max_insert)
         EXCEPT !.lookahead = @ - (s.prev_length - 1), !.prev_length = 0,
                !.match_available = FALSE, !.match_length = MIN_MATCH - 1,
                !.strstart = last + 1]

\* The literal the lazy step still owes.
Literal(s) == Tally(s, 0, s.win[s.strstart - 1])
Owed(s) == IF s.match_available THEN [Literal(s) EXCEPT !.match_available = FALSE] ELSE s

SlowTally(s) ==
  IF s.prev_length >= MIN_MATCH /\ s.match_length <= s.prev_length
  THEN FlushFull(TakePrevious(s))
  ELSE IF s.match_available THEN Return(Literal(s), "literal")
  ELSE [Advance(s) EXCEPT !.match_available = TRUE]
SlowMore(s, flush) ==
  IF Starved(s, flush) THEN Return(s, "need_more")
  ELSE IF s.lookahead = 0 THEN Return(Owed(s), "last")
  ELSE SlowTally(LazyMatch(Inserted(s)))
deflate_slow(s, flush) == SlowMore(Looked(s), flush)

Compress0(s, flush, f) ==
  CASE f = "stored" -> StoredFar(Flush(deflate_stored(s, flush), flush))
    [] f = "fast" -> deflate_fast(s, flush)
    [] f = "slow" -> deflate_slow(s, flush)

Turn(s, flush) == Flush(Compress0(s, flush, configuration_table[s.level].func), flush)

\* Up to 2^k turns, by halves.
RECURSIVE Turns(_, _, _)
Turns(s, flush, k) ==
  IF k = 0 THEN Turn(s, flush)
  ELSE LET r == Turns(s, flush, k - 1) IN IF r.bstate # "run" THEN r ELSE Turns(r, flush, k - 1)

func(s, flush) == Turns([s EXCEPT !.bstate = "run", !.hash_head = NIL], flush, 7)

----------------------------------------------------------------------------
\* The header.  gzhead is <<>> or <<h>>, h.extra, h.name and h.comment being
\* NoBuf where the caller gave none.
Put(s, bytes) == [s EXCEPT !.o = put_bytes(@, bytes)]
putShortMSB(s, b) == Put(s, <<b \div 256, b % 256>>)
PutAdler(s) == putShortMSB(putShortMSB(s, s.adler[2]), s.adler[1])
ByteOf(bits, k) == ValueOf([i \in 1 .. 8 |-> IF 8 * k + i - 1 \in bits THEN 1 ELSE 0])
Flag(b, v) == IF b THEN v ELSE 0
Slowest(s) == s.strategy >= Z_HUFFMAN_ONLY \/ s.level < 2
xflags(s) == IF s.level = 9 THEN 2 ELSE IF Slowest(s) THEN 4 ELSE 0
OS_CODE == 3

level_flags(s) ==
  IF Slowest(s) THEN 0 ELSE IF s.level < 6 THEN 1 ELSE IF s.level = 6 THEN 2 ELSE 3

Dictionary(s) ==
  [(IF s.strstart # 0 THEN PutAdler(s) ELSE s) EXCEPT !.adler = adler32_init]
ZlibHeader(s) ==
  LET h == (8 + (w_bits - 8) * 16) * 256 + 64 * level_flags(s) + Flag(s.strstart # 0, 32)
  IN  Dictionary(putShortMSB([s EXCEPT !.status = "BUSY"], h + 31 - (h % 31)))

Pended(s, beg) == SubSeq(s.o.buf, beg + 1, s.o.pending)

GzFlags(h) == Flag(h.text, 1) + Flag(h.hcrc, 2) + Flag(h.extra # NoBuf, 4)
              + Flag(h.name # NoBuf, 8) + Flag(h.comment # NoBuf, 16)
GzFixed(h, xfl) == <<GzFlags(h)>> \o h.time \o <<xfl, h.os>>
                   \o IF h.extra = NoBuf THEN <<>>
                      ELSE <<Len(h.extra) % 256, Len(h.extra) \div 256>>
GzStarted(s, h) ==
  [s EXCEPT !.status = "EXTRA", !.gzindex = 0,
            !.adler = IF h.hcrc THEN crc32({}, Pended(s, 0)) ELSE {}]

GzipHeader(s) ==
  LET magic == <<31, 139, 8>>
  IN  IF s.gzhead = <<>>
      THEN [Put(s, magic \o <<0, 0, 0, 0, 0, xflags(s), OS_CODE>>)
              EXCEPT !.status = "BUSY", !.adler = {}]
      ELSE GzStarted(Put(s, magic \o GzFixed(s.gzhead[1], xflags(s))), s.gzhead[1])

\* A field of the header, as far as pending_buf and the output take it; the
\* checksum covers what was put from beg on.
Summed(s, beg) ==
  IF s.gzhead[1].hcrc /\ s.o.pending > beg
  THEN [s EXCEPT !.adler = crc32(@, Pended(s, beg))] ELSE s

RECURSIVE FieldLoop(_, _, _)
FieldByte(s, bytes, beg) ==
  IF s.o.pending = pending_buf_size THEN s
  ELSE FieldLoop([Put(s, <<bytes[s.gzindex + 1]>>) EXCEPT !.gzindex = @ + 1], bytes, beg)
FieldFlushed(s, bytes) == FieldByte(s, bytes, s.o.pending)
FieldLoop(s, bytes, beg) ==
  IF s.gzindex = Len(bytes) THEN Summed(s, beg)
  ELSE IF s.o.pending = pending_buf_size THEN FieldFlushed(flush_pending(Summed(s, beg)), bytes)
  ELSE FieldByte(s, bytes, beg)

FieldEnd(s, bytes, next) ==
  IF s.gzindex = Len(bytes) THEN [s EXCEPT !.status = next, !.gzindex = 0] ELSE s
Field(s, bytes, this, next) ==
  IF s.status # this THEN s
  ELSE IF bytes = NoBuf THEN [s EXCEPT !.status = next]
  ELSE FieldEnd(FieldLoop(s, bytes, s.o.pending), bytes, next)

Ended(name) == IF name = NoBuf THEN NoBuf ELSE Append(name, 0)

NoRoom2(s) == s.o.pending + 2 > pending_buf_size
PutCrc(s) ==
  IF NoRoom2(s) THEN s
  ELSE [Put(s, <<ByteOf(s.adler, 0), ByteOf(s.adler, 1)>>) EXCEPT !.adler = {}, !.status = "BUSY"]
HeaderCrc(s) ==
  IF s.status # "HCRC" THEN s
  ELSE IF ~ s.gzhead[1].hcrc THEN [s EXCEPT !.status = "BUSY"]
  ELSE PutCrc(IF NoRoom2(s) THEN flush_pending(s) ELSE s)

FieldsOf(s, h) ==
  HeaderCrc(Field(Field(Field(s, h.extra, "EXTRA", "NAME"), Ended(h.name), "NAME", "COMMENT"),
                  Ended(h.comment), "COMMENT", "HCRC"))
GzipFields(s) == IF s.gzhead = <<>> THEN s ELSE FieldsOf(s, s.gzhead[1])

WriteHeader(s) ==
  GzipFields(IF s.status # "INIT" THEN s
             ELSE IF s.wrap = 2 THEN GzipHeader(s) ELSE ZlibHeader(s))

Trailer(s) ==
  IF s.wrap = 2
  THEN Put(s, [k \in 1 .. 4 |-> ByteOf(s.adler, k - 1)]
              \o <<s.total_in % 256, s.total_in \div 256, 0, 0>>)
  ELSE PutAdler(s)

----------------------------------------------------------------------------
\* The empty block that ends a flush; after a full one the table is empty.
Mark(o, flush) == IF flush = Z_PARTIAL_FLUSH THEN _tr_align(o) ELSE _tr_stored_block(o, <<>>, 0)
Forget(head, flush) == IF flush = Z_FULL_FLUSH THEN <<>> ELSE head
FlushMark(s, flush) ==
  flush_pending([s EXCEPT !.o = Mark(@, flush), !.head = Forget(@, flush)])

Ret(s, code) == [s EXCEPT !.ret = code]
NoRoom(s) == [s EXCEPT !.last_flush = -1, !.ret = "Z_OK"]

\* After the compressor: the trailer, once.
WithTrailer(s) ==
  Ret([s EXCEPT !.wrap = -@], IF s.o.pending # 0 THEN "Z_OK" ELSE "Z_STREAM_END")
FinishCall(s, flush) ==
  IF flush # Z_FINISH THEN Ret(s, "Z_OK")
  ELSE IF s.wrap <= 0 THEN Ret(s, "Z_STREAM_END")
  ELSE WithTrailer(flush_pending(Trailer(s)))

\* ret "go on" after a step of deflate: the call is not over yet.
GoOn == "go on"
EndUnless(s, flush) == IF s.ret = GoOn THEN FinishCall(s, flush) ELSE s

AfterMark(s) == IF s.avail_out = 0 THEN NoRoom(s) ELSE Ret(s, GoOn)
AfterBlock(s, flush) ==
  CASE s.bstate \in {"need_more", "finish_started"} ->
         IF s.avail_out = 0 THEN NoRoom(s) ELSE Ret(s, "Z_OK")
    [] s.bstate = "block_done" -> AfterMark(FlushMark(s, flush))
    [] OTHER -> Ret(s, GoOn)
Finishing(s) ==
  IF s.bstate \in {"finish_started", "finish_done"} THEN [s EXCEPT !.status = "FINISH"] ELSE s
BlockCall(s, flush) == AfterBlock(Finishing(func(s, flush)), flush)

\* What is pending goes first, then a block if there is anything to do.
Blocks0(s, flush) ==
  IF s.status = "FINISH" /\ s.in # <<>> THEN Ret(s, "Z_BUF_ERROR")
  ELSE IF s.in # <<>> \/ s.lookahead # 0 \/ (flush # Z_NO_FLUSH /\ s.status # "FINISH")
       THEN BlockCall(s, flush)
  ELSE Ret(s, GoOn)
Flushed0(s, flush) == IF s.avail_out = 0 THEN NoRoom(s) ELSE Ret(s, GoOn)
PendingOut(s, flush, old_flush) ==
  IF s.o.pending # 0 THEN Flushed0(flush_pending(s), flush)
  ELSE IF s.in = <<>> /\ flush <= old_flush /\ flush # Z_FINISH THEN Ret(s, "Z_BUF_ERROR")
  ELSE Ret(s, GoOn)
ThenBlocks(s, flush) == IF s.ret = GoOn THEN Blocks0(s, flush) ELSE s
FlushFirst(s, flush, old_flush) ==
  EndUnless(ThenBlocks(PendingOut(s, flush, old_flush), flush), flush)

deflate(s, flush) ==
  CASE s.status = "FINISH" /\ flush # Z_FINISH -> Ret(s, "Z_STREAM_ERROR")
    [] s.avail_out = 0 /\ (s.status # "FINISH" \/ flush = Z_FINISH) -> Ret(s, "Z_BUF_ERROR")
    [] OTHER -> FlushFirst(WriteHeader([s EXCEPT !.last_flush = flush]), flush, s.last_flush)

----------------------------------------------------------------------------
Reconfigured(s, level, strategy) ==
  [(IF s.level # level THEN Configure(s, level) ELSE s) EXCEPT !.strategy = strategy]
deflateParams(s, level, strategy) ==
  LET other == configuration_table[s.level].func # configuration_table[level].func
  IN  Reconfigured(IF other /\ s.total_in # 0 THEN deflate(s, Z_PARTIAL_FLUSH)
                   ELSE Ret(s, "Z_OK"), level, strategy)

deflateTune(s, good, lazy, nice, chain) ==
  [s EXCEPT !.good = good, !.lazy = lazy, !.nice = nice, !.chain = chain]

deflateSetHeader(s, head) ==
  IF s.wrap # 2 THEN Ret(s, "Z_STREAM_ERROR") ELSE Ret([s EXCEPT !.gzhead = <<head>>], "Z_OK")

deflatePrime(s, bits, value) == [s EXCEPT !.o.bi = BitsOf(value, bits)]

\* The tail of the dictionary becomes the start of the window.
deflateSetDictionary(s, dictionary) ==
  LET a == IF s.wrap # 0 THEN [s EXCEPT !.adler = adler32(@, dictionary)] ELSE s
      n == Len(dictionary)
      length == IF n > MAX_DIST THEN MAX_DIST ELSE n
      w == [a EXCEPT !.win = Store(@, 0, SubSeq(dictionary, n - length + 1, n)),
                     !.strstart = length, !.block_start = length]
      h == [w EXCEPT !.ins_h = UPDATE_HASH(Bits8(w.win[0]), w.win[1])]
  IN  IF s.wrap = 2 \/ (s.wrap = 1 /\ s.status # "INIT") THEN Ret(s, "Z_STREAM_ERROR")
      ELSE IF n < MIN_MATCH THEN Ret(a, "Z_OK")
      ELSE Ret(InsertAll(h, 0, length - MIN_MATCH), "Z_OK")

deflateBound(n) == n + ((n + 7) \div 8) + ((n + 63) \div 64) + 11
============================================================================
