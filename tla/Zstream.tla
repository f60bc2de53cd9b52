------------------------------ MODULE Zstream ------------------------------
(***************************************************************************)
(* Programs that use the compression library: one writes a stream with     *)
(* deflate, another reads it with inflate, each through buffers of any     *)
(* size, as usr/include/zlib.h allows.  A job says how the writer sets the *)
(* stream up and what it writes: steps of [op, data, flush] or, with op    *)
(* "params", [op, level, strategy].  A call is repeated with its flush     *)
(* value, and as much output space as room says, until its work is done.   *)
(*                                                                         *)
(* s is the compressor and twin the same one run over memory with other    *)
(* contents.  follow decompresses whatever s delivers at once.  When the   *)
(* writer is done, z reads the bytes of wire through buffers of the sizes  *)
(* buf = <<input, output>>, from a medium that may damage them: hurt is    *)
(* "none", "cut" (the end is lost), "sum" (a byte of the trailer is        *)
(* changed) or "join" (the beginning was missed).  "back" is a reader that *)
(* uses inflateBack on a raw stream; its in() or out() may fail.           *)
(***************************************************************************)
EXTENDS Inflate
CONSTANTS
  Jobs,    \* what writers do
  Rooms,   \* output space offered to deflate
  FlushRoom, \* ... for a flush, more than this
  Chunks,  \* bytes of input offered to inflate
  Spaces,  \* output space offered to inflate
  MaxOuts  \* calls of out() that succeed

Plenty == 1000

VARIABLES job, pc, fresh, s, twin, follow, wire, z, hurt, room, buf
z_vars == <<job, pc, fresh, s, twin, follow, wire, z, hurt, room, buf>>

DataOf(steps) == Joined([k \in 1 .. Len(steps) |->
                           IF steps[k].op = "write" THEN steps[k].data ELSE <<>>])
\* What the writer has handed over so far, and what it will have.
Given0 == DataOf(SubSeq(job.steps, 1, IF fresh THEN pc - 1 ELSE pc))
AllData == DataOf(job.steps)

\* deflateInit2 and the calls that may follow it.
Opened(j, garbage) ==
  LET head(x) == IF j.head = <<>> THEN x ELSE deflateSetHeader(x, j.head[1])
      dict(x) == IF j.dict = <<>> THEN x ELSE deflateSetDictionary(x, j.dict)
      tune(x) == IF j.tune = <<>> THEN x
                 ELSE deflateTune(x, j.tune[1], j.tune[2], j.tune[3], j.tune[4])
      prime(x) == IF j.prime = <<>> THEN x ELSE deflatePrime(x, j.prime[1], j.prime[2])
  IN  prime(tune(dict(head(deflateInit2(j.level, j.wrap, j.strategy, garbage)))))

\* inflateInit2 for the same stream; the bits put before it are not its own.
ReaderFor(j, y, first) ==
  IF j.prime # <<>> THEN inflatePrime(y, 8 - j.prime[1], first \div 2^j.prime[1])
  ELSE IF j.wrap = 0 /\ j.dict # <<>> THEN inflateSetDictionary(y, j.dict) ELSE y
WithHeader(j, y) ==
  IF j.head = <<>> THEN y
  ELSE inflateGetHeader(y, [text |-> FALSE, time |-> <<>>, xflags |-> 0, os |-> 0,
                            extra |-> <<>>, extra_len |-> 0, name |-> <<>>,
                            name_max |-> 8, comment |-> <<>>, comm_max |-> 8,
                            hcrc |-> FALSE, done |-> 0])
Reader(j, first) == ReaderFor(j, WithHeader(j, inflateInit2(j.wrap, TRUE)), first)

\* One call of inflate.
Inflated(y, bytes, space) == inflate([y EXCEPT !.in = @ \o bytes, !.left = space], Z_NO_FLUSH)

\* With too little room a flush is never complete.
RoomsFor(step) ==
  {r \in Rooms : step.op = "write" /\ step.flush \notin {Z_NO_FLUSH, Z_FINISH} => r > FlushRoom}

ZInit ==
  /\ job \in Jobs
  /\ pc = 1
  /\ fresh = TRUE
  /\ s = Opened(job, 0)
  /\ twin = Opened(job, 98)
  /\ follow = <<>>
  /\ wire = <<>>
  /\ z = <<>>
  /\ hurt = "none"
  /\ room \in RoomsFor(job.steps[1])
  /\ buf = <<0, 0>>

Writing == pc <= Len(job.steps) /\ s.ret # "Z_BUF_ERROR"

\* follow starts with the first byte and takes all there is; it has the
\* dictionary when it is asked for it.
RECURSIVE FollowOn(_, _)
Answered(y) ==
  IF y.ret = "Z_NEED_DICT" THEN FollowOn(inflateSetDictionary(y, job.dict), <<>>) ELSE y
FollowOn(y, bytes) == Answered(Inflated(y, bytes, Plenty))
Followed(new) ==
  IF new = <<>> THEN follow
  ELSE IF follow # <<>> THEN FollowOn(follow, new)
  ELSE FollowOn(Reader(job, new[1]), IF job.prime = <<>> THEN new ELSE Tail(new))

\* The stream and its twin after the same call.
Both(x, y) ==
  /\ s' = x
  /\ twin' = y
  /\ follow' = Followed(SubSeq(x.out, Len(s.out) + 1, Len(x.out)))

Complete(flush, x) ==
  CASE flush = Z_NO_FLUSH -> x.in = <<>>
    [] flush = Z_FINISH -> x.ret = "Z_STREAM_END"
    [] OTHER -> x.avail_out # 0

Called(step, x, y) ==
  LET done == Complete(step.flush, x)
  IN  /\ Both(x, y)
      /\ pc' = IF done THEN pc + 1 ELSE pc
      /\ fresh' = done
      /\ room' \in IF done /\ pc < Len(job.steps) THEN RoomsFor(job.steps[pc + 1]) ELSE {room}

Offered(step, x) ==
  deflate([x EXCEPT !.in = IF fresh THEN @ \o step.data ELSE @, !.avail_out = room], step.flush)

Write ==
  /\ Writing
  /\ job.steps[pc].op = "write"
  /\ \E x \in {Offered(job.steps[pc], s)} : Called(job.steps[pc], x, Offered(job.steps[pc], twin))
  /\ UNCHANGED <<job, wire, z, hurt, buf>>

\* deflateParams, with room for all that is pending.
Changed(step, x) == deflateParams([x EXCEPT !.avail_out = Plenty], step.level, step.strategy)
Change ==
  /\ Writing
  /\ job.steps[pc].op = "params"
  /\ \E x \in {Changed(job.steps[pc], s)} : Both(x, Changed(job.steps[pc], twin))
  /\ pc' = pc + 1
  /\ room' \in RoomsFor(job.steps[pc + 1])
  /\ UNCHANGED <<job, fresh, wire, z, hurt, buf>>

\* deflateEnd; the stream is stored, and may be damaged or joined late.
Damaged(bytes, h) ==
  LET n == Len(bytes)
  IN  CASE h = "none" -> {bytes}
        [] h = "cut" -> {SubSeq(bytes, 1, n - 1)}
        [] h = "sum" -> {[bytes EXCEPT ![n - 3] = (@ + 1) % 256]}
        [] h = "join" -> {SubSeq(bytes, 4, n)}

Close ==
  /\ pc > Len(job.steps)
  /\ z = <<>>
  /\ buf' \in Chunks \X Spaces
  /\ \E h \in job.hurts :
       /\ hurt' = h
       /\ \E bytes \in Damaged(s.out, h) :
            /\ wire' = IF job.prime = <<>> THEN bytes ELSE Tail(bytes)
            /\ z' = LET r == Reader(job, s.out[1])
                    IN  IF h = "join" THEN [r EXCEPT !.mode = "BAD"] ELSE r
  /\ s' = Opened(job, 0)
  /\ twin' = Opened(job, 0)
  /\ follow' = <<>>
  /\ room' = 0
  /\ UNCHANGED <<job, pc, fresh>>

Pieces(bytes, n) ==
  [k \in 1 .. (Len(bytes) + n - 1) \div n |->
     SubSeq(bytes, (k - 1) * n + 1, IF k * n < Len(bytes) THEN k * n ELSE Len(bytes))]

\* The window handed to inflateBackInit holds anything.
CallBack ==
  /\ pc > Len(job.steps)
  /\ z = <<>>
  /\ job.wrap = 0 /\ job.dict = <<>> /\ job.prime = <<>>
  /\ hurt' = "back"
  /\ \E n \in Chunks, lost \in 0 .. 1, quota \in 0 .. MaxOuts :
       LET feed == Pieces(s.out, n)
       IN  /\ buf' = <<lost, quota>>
           /\ wire' = <<>>
           /\ z' = inflateBack(inflateBackInit([i \in 0 .. w_size - 1 |-> 98]),
                              SubSeq(feed, 1, Len(feed) - lost), quota)
  /\ s' = Opened(job, 0)
  /\ twin' = Opened(job, 0)
  /\ follow' = <<>>
  /\ room' = 0
  /\ UNCHANGED <<job, pc, fresh>>

Reading == z # <<>> /\ hurt # "back" /\ z.ret = "Z_OK"
Taken == IF buf[1] < Len(wire) THEN buf[1] ELSE Len(wire)

Feed ==
  /\ Reading
  /\ z.mode # "BAD"
  /\ wire # <<>> \/ z.left = 0 \/ z.in # <<>>
  /\ z' = Inflated(z, SubSeq(wire, 1, Taken), buf[2])
  /\ wire' = SubSeq(wire, Taken + 1, Len(wire))
  /\ UNCHANGED <<job, pc, fresh, s, twin, follow, hurt, room, buf>>

GiveDictionary ==
  /\ z # <<>> /\ z.ret = "Z_NEED_DICT"
  /\ z' = inflateSetDictionary(z, job.dict)
  /\ UNCHANGED <<job, pc, fresh, s, twin, follow, wire, hurt, room, buf>>

\* A reader that missed the beginning looks for a point to start from.
Resync ==
  /\ z # <<>> /\ hurt = "join"
  /\ z.mode \in {"BAD", "SYNC"} /\ z.out = <<>>
  /\ wire # <<>>
  /\ z' = inflateSync([z EXCEPT !.in = @ \o SubSeq(wire, 1, Taken), !.left = 1])
  /\ wire' = SubSeq(wire, Taken + 1, Len(wire))
  /\ UNCHANGED <<job, pc, fresh, s, twin, follow, hurt, room, buf>>

ZNext ==
  \/ Write
  \/ Change
  \/ Close
  \/ CallBack
  \/ Feed
  \/ GiveDictionary
  \/ Resync
----------------------------------------------------------------------------
IsPrefixOf(a, b) == Len(a) <= Len(b) /\ a = SubSeq(b, 1, Len(a))

\* The compressor keeps the window, the pending buffer and the symbol buffer
\* within their sizes, and its marks into the window in order.
ZTypeOK ==
  /\ s.strstart + s.lookahead <= window_size
  /\ job.level # 0 => s.strstart <= window_size - MIN_LOOKAHEAD
  /\ s.block_start <= s.strstart
  /\ s.o.pending \in 0 .. pending_buf_size
  /\ s.o.pout + s.o.pending <= pending_buf_size
  /\ Len(s.sym) < lit_bufsize
  /\ Len(s.o.bi) <= Buf_size
  /\ \A h \in DOMAIN s.head : s.head[h] <= s.strstart

\* Whatever deflate has delivered so far is the beginning of a stream: inflate
\* turns it into the beginning of what was written, without an error, however
\* the output was cut and the calls were mixed.
DeliversPrefix ==
  follow # <<>> => /\ IsPrefixOf(follow.out, Given0)
                   /\ follow.ret \in {"Z_OK", "Z_BUF_ERROR", "Z_STREAM_END"}

\* When a flush is complete (deflate.c: "the flush is complete"), all that was
\* written can be read; when the stream is finished, inflate finds its end,
\* its checksum and its length.
FlushDelivers ==
  fresh /\ pc \in 2 .. Len(job.steps) + 1 /\ z = <<>> =>
    /\ job.steps[pc - 1].op = "write" /\ job.steps[pc - 1].flush # Z_NO_FLUSH
         => follow # <<>> /\ follow.out = Given0
    /\ pc > Len(job.steps) => follow.ret = "Z_STREAM_END" /\ follow.in = <<>>

\* The comment of longest_match: the bytes beyond the input are compared
\* before they were ever set, yet "the output of deflate is not affected by
\* the uninitialized values".
SameOutput == twin.out = s.out /\ twin.ret = s.ret

\* A writer that repeats an unfinished call as zlib.h says never gets stuck:
\* each call has something to do and room to do it.
NeverStuck == s.ret \in {"Z_OK", "Z_STREAM_END"}

----------------------------------------------------------------------------
\* The reader gets the writer's data in order, whatever the sizes of its
\* buffers: the window, the fast and the slow decoder agree, no call is in
\* vain, and the last byte brings the end.
ReadsBack ==
  z # <<>> /\ hurt \notin {"join", "back"} =>
    /\ IsPrefixOf(z.out, AllData)
    /\ hurt = "none" =>
         /\ z.ret \notin {"Z_DATA_ERROR", "Z_STREAM_ERROR", "Z_BUF_ERROR"}
         /\ wire = <<>> /\ z.in = <<>> /\ z.left > 0 => z.ret = "Z_STREAM_END"

\* The end is reported when all data was delivered and every byte was used,
\* and never for a stream whose end is missing or whose checksum is wrong.
EndIsEnd ==
  z # <<>> /\ z.ret = "Z_STREAM_END" /\ hurt \notin {"join", "back"} =>
    hurt = "none" /\ z.out = AllData /\ wire = <<>> /\ z.in = <<>>

\* The fields of a gzip header reach the reader as the writer gave them.
HeaderRead ==
  z # <<>> /\ job.head # <<>> /\ z.head # <<>> /\ z.head[1].done = 1 =>
    LET h == job.head[1]
        g == z.head[1]
    IN  /\ <<g.text, g.time, g.os, g.hcrc, g.extra>> = <<h.text, h.time, h.os, h.hcrc, h.extra>>
        /\ g.name = Append(h.name, 0)
        /\ g.comment = Append(h.comment, 0)

\* zlib.h on Z_FULL_FLUSH: "decompression can restart from this point if
\* previous compressed data has been damaged".  A reader that synchronises
\* there gets all that was written afterwards.
FullFlushRestarts ==
  z # <<>> /\ hurt = "join" =>
    /\ IsPrefixOf(z.out, DataOf(Tail(job.steps)))
    /\ wire = <<>> /\ z.left > 0 /\ z.in = <<>> /\ z.mode # "BAD"
         => z.ret = "Z_STREAM_END" /\ z.out = DataOf(Tail(job.steps))

\* inflateBack hands out() the writer's data in order, however in() cuts the
\* input.  It returns Z_STREAM_END for the whole stream, with no input left,
\* and otherwise Z_BUF_ERROR: next_in is Z_NULL when in() had no more, and set
\* when out() failed, as zlib.h promises.
BackDelivers ==
  z # <<>> /\ hurt = "back" =>
    /\ IsPrefixOf(z.sent, AllData)
    /\ z.ret \in {"Z_STREAM_END", "Z_BUF_ERROR"}
    /\ z.ret = "Z_STREAM_END" => z.sent = AllData /\ z.feed = <<>> /\ z.in = <<>>
    /\ z.ret = "Z_BUF_ERROR" => IF z.next THEN z.quota = 0 ELSE z.feed = <<>> /\ buf[1] = 1

\* The writer's side of a stream (deflate): buffers and marks stay within their
\* sizes, whatever is out so far is the beginning of a stream of what went in,
\* completed flushes show all of it, unset bytes of the window do not matter,
\* and a call that is repeated gets on.
WriterSound == ZTypeOK /\ DeliversPrefix /\ FlushDelivers /\ SameOutput /\ NeverStuck

\* The reader's side (inflate, inflateSync, inflateBack): the data in order, the
\* end only at the end, the header's fields, and a restart after a full flush.
ReaderSound == ReadsBack /\ EndIsEnd /\ HeaderRead /\ FullFlushRestarts /\ BackDelivers

----------------------------------------------------------------------------
(***************************************************************************)
(* The checksums of a stream that arrives in pieces: first, then second.   *)
(* crc and adler hold the running values of first, of second and of the    *)
(* two as one stream, as gzread, gzwrite and deflate keep them.            *)
(***************************************************************************)
CONSTANTS Pieces0, MaxPieces

VARIABLES first, second, pieces, crc, adler
digest_vars == <<first, second, pieces, crc, adler>>

DigestInit ==
  /\ first = <<>> /\ second = <<>>
  /\ pieces = 0
  /\ crc = <<{}, {}, {}>>
  /\ adler = <<adler32_init, adler32_init, adler32_init>>

Arrives(p, i) ==
  /\ pieces < MaxPieces
  /\ i = 1 => second = <<>>
  /\ pieces' = pieces + 1
  /\ IF i = 1 THEN first' = first \o p /\ UNCHANGED second
     ELSE second' = second \o p /\ UNCHANGED first
  /\ crc' = [crc EXCEPT ![i] = crc32(@, p), ![3] = crc32(@, p)]
  /\ adler' = [adler EXCEPT ![i] = adler32(@, p), ![3] = adler32(@, p)]

DigestNext == \E p \in Pieces0, i \in 1 .. 2 : Arrives(p, i)
----------------------------------------------------------------------------
\* Adler-32 by its definition: RFC 1950's sums modulo BASE, byte by byte.
RECURSIVE Adler(_, _)
Adler(a, bytes) ==
  IF bytes = <<>> THEN a
  ELSE Adler(<<(a[1] + Head(bytes)) % BASE, (a[2] + a[1] + Head(bytes)) % BASE>>, Tail(bytes))

\* However a stream is cut, the running checksum is that of the whole: the
\* short cuts of adler32 for one byte and for fewer than 16 lose nothing, and
\* the values stay reduced.
PiecesAgree ==
  /\ crc[3] = crc32({}, first \o second)
  /\ \A i \in 1 .. 3 : adler[i][1] < BASE /\ adler[i][2] < BASE
  /\ Len(first \o second) <= 16 => adler[3] = Adler(adler32_init, first \o second)

\* The word-at-a-time CRCs of little- and big-endian machines are the one
\* computed byte by byte, wherever the buffer begins.
EndiansAgree ==
  Len(first) <= 16 => \A addr \in 0 .. 3 :
    crc32_little({}, first, addr) = crc[1] /\ crc32_big({}, first, addr) = crc[1]

\* The checksum of two streams put together comes from theirs.  (A half of
\* adler32_combine's result may be left at BASE.)
CombineAgrees ==
  LET c == adler32_combine(adler[1], adler[2], Len(second))
  IN  /\ crc32_combine(crc[1], crc[2], Len(second)) = crc[3]
      /\ <<c[1] % BASE, c[2] % BASE>> = adler[3]

----------------------------------------------------------------------------
(***************************************************************************)
(* The two ends of a Huffman code: build_tree of trees.c makes it out of   *)
(* the frequencies of the symbols, inflate_table of inftrees.c rebuilds it *)
(* from the lengths alone.  Symbols of the bit length alphabet are counted *)
(* one after the other; each occurs once, or as often as the two before    *)
(* together, which makes the deepest trees and overflows max_length.       *)
(***************************************************************************)

CONSTANT MaxSymbols

VARIABLES freq0, counted
code_vars == <<freq0, counted>>

NoFreq == [n \in 0 .. bl_desc.elems - 1 |-> 0]

CodesInit == freq0 = NoFreq /\ counted = <<>>

\* The symbols are taken in the order of the alphabet, or from its end.
CodePlace(k) == IF k % 3 = 0 THEN 18 - (k \div 3) ELSE k - (k \div 3)

CountSymbol(f) ==
  /\ Len(counted) < MaxSymbols
  /\ counted' = Append(counted, f)
  /\ freq0' = [freq0 EXCEPT ![CodePlace(Len(counted) + 1)] = f]

CodesNext ==
  LET k == Len(counted)
  IN  \E f \in {1} \cup (IF k >= 2 THEN {counted[k] + counted[k - 1]} ELSE {}) : CountSymbol(f)
----------------------------------------------------------------------------
Built == build_tree(bl_desc, freq0)

\* The code of build_tree is complete and no longer than max_length, also
\* after the repair of an overflow; from its lengths inflate_table builds a
\* table that finds every symbol by its code, whatever bits follow.
CodesDecode ==
  LET b == Built
      lens == [k \in 1 .. 19 |-> IF k - 1 <= b.max_code THEN b.len[k - 1] ELSE 0]
      t == inflate_table("CODES", lens, 7)
      used == {n \in 0 .. b.max_code : b.len[n] # 0}
  IN  counted # <<>> =>
        /\ \A n \in used : b.len[n] <= bl_desc.max_length
        /\ t.ret = 0
        /\ \A n \in used : \A i \in DOMAIN t.table :
             i % 2^b.len[n] = b.code[n] => t.table[i].val = n /\ t.table[i].bits = b.len[n]

\* A symbol that occurs more often never has the longer code.
LengthsFollow ==
  LET b == Built
      used == {n \in 0 .. b.max_code : freq0[n] # 0}
  IN  \A n, m \in used : freq0[n] > freq0[m] => b.len[n] <= b.len[m]

\* The algorithms under the streams (trees.c, inftrees.c, crc32.c, adler32.c):
\* codes are complete, short for what is frequent and found again in the tables,
\* and the ways to compute a checksum agree.
PartsAgree == CodesDecode /\ LengthsFollow /\ PiecesAgree /\ EndiansAgree /\ CombineAgrees
============================================================================
