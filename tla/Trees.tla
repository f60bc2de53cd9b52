------------------------------- MODULE Trees -------------------------------
(***************************************************************************)
(* The construction of one Huffman code of usr/klibc/zlib/trees.c: the     *)
(* heap, the merge of the least frequent nodes, the bit lengths with the   *)
(* repair of those that are too long, and the canonical codes.             *)
(*                                                                         *)
(* A tree descriptor is [elems, max_length, base, extra, stree]: a symbol  *)
(* n >= base has extra[n - base] extra bits, stree[n] is its length in the *)
(* static tree (stree is empty for the bit length tree).  heap[1..heap_len]*)
(* is the sequence heap and heap[heap_max..HEAP_SIZE-1] the sequence sorted*)
(***************************************************************************)
EXTENDS Integers, Sequences, FiniteSets, SequencesExt, FiniteSetsExt, TLC

RECURSIVE SumOf(_)
SumOf(seq) ==
  LET half == Len(seq) \div 2
  IN  IF half = 0 THEN IF seq = <<>> THEN 0 ELSE seq[1]
      ELSE SumOf(SubSeq(seq, 1, half)) + SumOf(SubSeq(seq, half + 1, Len(seq)))

smaller(t, n, m) ==
  \/ t.freq[n] < t.freq[m]
  \/ t.freq[n] = t.freq[m] /\ t.depth[n] <= t.depth[m]

\* Move v down from place k until both sons are larger.
RECURSIVE Sift(_, _, _)
Sift(t, v, k) ==
  LET l == 2 * k
      j == IF l < Len(t.heap) /\ smaller(t, t.heap[l + 1], t.heap[l])
           THEN l + 1 ELSE l
  IN  IF l > Len(t.heap) \/ smaller(t, v, t.heap[j])
      THEN [t EXCEPT !.heap[k] = v]
      ELSE Sift([t EXCEPT !.heap[k] = t.heap[j]], v, j)

pqdownheap(t, k) == Sift(t, t.heap[k], k)

\* A heap out of any order, from place n down to m (by halves, as all the
\* loops over symbols here).
RECURSIVE Heapify(_, _, _)
Heapify(t, n, m) ==
  LET mid == (n + m) \div 2
      r == Heapify(t, n, mid + 1)
  IN  IF n <= m THEN pqdownheap(t, n)
      ELSE IF r.heap = <<>> THEN r ELSE Heapify(r, mid, m)

\* The heap with its smallest element removed.
pqremove(t) ==
  LET n == Len(t.heap)
  IN  pqdownheap([t EXCEPT !.heap = SubSeq([t.heap EXCEPT ![1] = t.heap[n]], 1, n - 1)], 1)

----------------------------------------------------------------------------
\* The symbols that occur, and the codes forced so that there are two.
Used(desc, freq) ==
  SelectSeq([k \in 1 .. desc.elems |-> k - 1], LAMBDA n : freq[n] # 0)

RECURSIVE Forced(_, _)
Forced(heap, max_code) ==
  IF Len(heap) >= 2 THEN [heap |-> heap, max_code |-> max_code]
  ELSE IF max_code < 2 THEN Forced(Append(heap, max_code + 1), max_code + 1)
       ELSE Forced(Append(heap, 0), max_code)

\* Replace the two least frequent nodes by their father, until one is left.
Father(t, n, m, node) ==
  [t EXCEPT !.sorted = <<m, n>> \o @, !.freq[node] = t.freq[n] + t.freq[m],
            !.depth[node] = Max({t.depth[n], t.depth[m]}) + 1,
            !.dad[n] = node, !.dad[m] = node, !.heap[1] = node]
MergeTwo(t, n, elems) ==
  pqdownheap(Father(t, n, t.heap[1], elems + Len(t.sorted) \div 2), 1)
Merge(t, elems) == MergeTwo(pqremove(t), t.heap[1], elems)

RECURSIVE MergeAll(_, _, _)
MergeAll(t, elems, n) ==
  LET r == MergeAll(t, elems, n \div 2)
  IN  IF n = 1 THEN Merge(t, elems)
      ELSE IF r.heap = <<>> THEN r ELSE MergeAll(r, elems, n - n \div 2)

\* Lengths from the root down, cut at max_length; over counts the cut ones.
Length(t, max_length, r) ==
  LET n == t.sorted[r.h]
      bits == r.len[t.dad[n]] + 1
  IN  IF bits > max_length
      THEN [h |-> r.h + 1, len |-> [r.len EXCEPT ![n] = max_length], overflow |-> r.overflow + 1]
      ELSE [r EXCEPT !.h = @ + 1, !.len[n] = bits]

RECURSIVE Lengths(_, _, _, _)
Lengths(t, max_length, r, n) ==
  LET q == Lengths(t, max_length, r, n \div 2)
  IN  IF n = 1 THEN Length(t, max_length, r)
      ELSE IF q.h = 0 THEN q ELSE Lengths(t, max_length, q, n - n \div 2)

\* One leaf moves down and takes an overflow item as its brother.
PairUp(bl_count, bits, max_length) ==
  LET down == [bl_count EXCEPT ![bits] = @ - 1]
      more == [down EXCEPT ![bits + 1] = @ + 2]
  IN  [more EXCEPT ![max_length] = @ - 1]

\* Mutant: each repair counts for one leaf.
StepOne(overflow) == overflow - 1
StepTwo(overflow) == overflow - 2

RECURSIVE MoveDown(_, _, _)
MoveDown(bl_count, max_length, overflow) ==
  IF overflow <= 0 THEN bl_count
  ELSE LET bits == Max({b \in 1 .. max_length - 1 : bl_count[b] # 0})
       IN  MoveDown(PairUp(bl_count, bits, max_length), max_length, StepTwo(overflow))

Total(bl_count, low, high) == SumOf([k \in 1 .. high - low + 1 |-> bl_count[low + k - 1]])

\* The least frequent leaves get the longest codes.
Spread(leaves, bl_count, max_length) ==
  [i \in 1 .. Len(leaves) |->
     Max({b \in 1 .. max_length : i <= Total(bl_count, b, max_length)})]

CountLengths(len, syms, max_length) ==
  [b \in 0 .. max_length |-> Cardinality({n \in syms : b > 0 /\ len[n] = b})]

\* The bit length of every symbol 0..max_code (0 for one that does not occur).
gen_bitlen(desc, t, max_code) ==
  LET ml == desc.max_length
      first == Lengths(t, ml, [h |-> 2, len |-> [n \in DOMAIN t.freq |-> 0], overflow |-> 0],
                       Len(t.sorted) - 1)
      leaves == SelectSeq(t.sorted, LAMBDA n : n <= max_code)
      counts == CountLengths(first.len, Range(leaves), ml)
      moved == MoveDown(counts, ml, first.overflow)
      spread == Spread(Reverse(leaves), moved, ml)
      place(n) == CHOOSE i \in 1 .. Len(leaves) : Reverse(leaves)[i] = n
  IN  [n \in 0 .. max_code |->
         IF n \notin Range(leaves) THEN 0
         ELSE IF first.overflow = 0 THEN first.len[n] ELSE spread[place(n)]]

\* The first len bits of a code, turned round.
RECURSIVE bi_reverse(_, _)
bi_reverse(code, len) ==
  IF len = 0 THEN 0
  ELSE (code % 2) * 2^(len - 1) + bi_reverse(code \div 2, len - 1)

RECURSIVE next_code(_, _)
next_code(bl_count, bits) ==
  IF bits = 0 THEN 0
  ELSE 2 * (next_code(bl_count, bits - 1) + bl_count[bits - 1])

\* The canonical code of every symbol, as send_bits takes it.
gen_codes(len, max_code, max_length) ==
  LET bl_count == CountLengths(len, 0 .. max_code, max_length)
      start == [b \in 1 .. max_length |-> next_code(bl_count, b)]
      rank(n) == Cardinality({m \in 0 .. n - 1 : len[m] = len[n]})
  IN  [n \in 0 .. max_code |->
         IF len[n] = 0 THEN 0 ELSE bi_reverse(start[len[n]] + rank(n), len[n])]

\* The bits a tree adds to a block: each symbol's code and its extra bits.
Cost(desc, freq, len, syms) ==
  SumOf([k \in 1 .. Len(syms) |->
           LET n == syms[k]
           IN  freq[n] * (len[n] + IF n >= desc.base THEN desc.extra[n - desc.base + 1] ELSE 0)])

\* The leaves' frequencies; a code forced in below two counts once.
Leaves(desc, freq, forced) ==
  [n \in 0 .. 2 * desc.elems |->
     IF n \in Range(forced) THEN 1 ELSE IF n < desc.elems THEN freq[n] ELSE 0]

Rooted(t) == [t EXCEPT !.sorted = t.heap \o @]
Merged(heap, f, elems) ==
  Rooted(MergeAll(Heapify([heap |-> heap, sorted |-> <<>>, freq |-> f,
                           depth |-> [n \in DOMAIN f |-> 0], dad |-> [n \in DOMAIN f |-> 0]],
                          Len(heap) \div 2, 1), elems, Len(heap) - 1))

StaticCost(desc, f, heap, forced) ==
  Cost(desc, f, [n \in 0 .. desc.elems - 1 |-> desc.stree[n + 1]], heap)
  - SumOf([k \in 1 .. Len(forced) |-> desc.stree[forced[k] + 1]])

BuiltTree(desc, two, forced, f, len) ==
  [len |-> len, max_code |-> two.max_code,
   code |-> gen_codes(len, two.max_code, desc.max_length),
   opt |-> Cost(desc, f, len, two.heap) - Len(forced),
   static |-> IF desc.stree = <<>> THEN 0 ELSE StaticCost(desc, f, two.heap, forced)]

\* build_tree: lengths, codes, largest code, and what opt_len and static_len
\* grow by.  A code forced in is taken back from both totals.
BuildFrom(desc, two, forced, f) ==
  BuiltTree(desc, two, forced, f, gen_bitlen(desc, Merged(two.heap, f, desc.elems), two.max_code))
BuildForced(desc, freq, two, forced) ==
  BuildFrom(desc, two, forced, Leaves(desc, freq, forced))
BuildUsed(desc, freq, used, two) ==
  BuildForced(desc, freq, two, SubSeq(two.heap, Len(used) + 1, Len(two.heap)))
TwoCodes(used) == Forced(used, IF used = <<>> THEN -1 ELSE Last(used))
WithUsed(desc, freq, used) == BuildUsed(desc, freq, used, TwoCodes(used))
build_tree(desc, freq) == WithUsed(desc, freq, Used(desc, freq))

----------------------------------------------------------------------------
(***************************************************************************)
(* The output of deflated blocks of usr/klibc/zlib/trees.c, bit for bit.   *)
(* o is what a block is written to: bi the bits of bi_buf, oldest first,   *)
(* buf the bytes of pending_buf, pending their number, pout the offset of  *)
(* pending_out, last_eob_len, data_type.  sym is the sequence of tallied   *)
(* symbols [dist, lc] (d_buf and l_buf): a literal has dist 0, a match the *)
(* length lc + MIN_MATCH.  The frequencies of the dynamic trees are counted*)
(* from sym when a block is flushed.                                       *)
(***************************************************************************)

LITERALS == 256
END_BLOCK == 256
L_CODES == 286
D_CODES == 30
REP_3_6 == 16
REPZ_3_10 == 17
REPZ_11_138 == 18
Buf_size == 16
Z_FIXED == 4

extra_lbits == <<0, 0, 0, 0, 0, 0, 0, 0, 1, 1, 1, 1, 2, 2, 2, 2, 3, 3, 3, 3, 4, 4, 4,
                 4, 5, 5, 5, 5, 0>>
extra_dbits == <<0, 0, 0, 0, 1, 1, 2, 2, 3, 3, 4, 4, 5, 5, 6, 6, 7, 7, 8, 8, 9, 9, 10,
                 10, 11, 11, 12, 12, 13, 13>>
extra_blbits == <<0, 0, 0, 0, 0, 0, 0, 0, 0, 0, 0, 0, 0, 0, 0, 0, 2, 3, 7>>
bl_order == <<16, 17, 18, 0, 8, 7, 9, 6, 10, 5, 11, 4, 12, 3, 13, 2, 14, 1, 15>>

\* tr_static_init: the first length and the first distance of each code.
First(extra) ==
  LET f[c \in 1 .. Len(extra)] == IF c = 1 THEN 0 ELSE f[c - 1] + 2^extra[c - 1] IN f
base_length == [First(extra_lbits) EXCEPT ![29] = 0]
base_dist == First(extra_dbits)

length_code == [lc \in 0 .. 255 |->
  IF lc = 255 THEN 28 ELSE Max({c \in 1 .. 28 : base_length[c] <= lc}) - 1]

\* The upper half is indexed by the top bits of a distance of 256 and more.
dist_code == [i \in 0 .. 511 |->
  IF i < 256 THEN Max({c \in 1 .. 16 : base_dist[c] <= i}) - 1
  ELSE Max({c \in 1 .. 30 : base_dist[c] <= 128 * (i - 256)}) - 1]
d_code(dist) == IF dist < 256 THEN dist_code[dist] ELSE dist_code[256 + (dist \div 128)]

\* The static trees; the codes 286 and 287 only fill the code up.
static_llen ==
  [n \in 0 .. 287 |-> CASE n <= 143 -> 8 [] n \in 144 .. 255 -> 9
                        [] n \in 256 .. 279 -> 7 [] OTHER -> 8]
static_ltree == [len |-> static_llen, code |-> gen_codes(static_llen, 287, 15)]
static_dtree == [len |-> [n \in 0 .. 29 |-> 5], code |-> [n \in 0 .. 29 |-> bi_reverse(n, 5)]]

l_desc == [elems |-> L_CODES, max_length |-> 15, base |-> LITERALS + 1,
           extra |-> extra_lbits, stree |-> [k \in 1 .. L_CODES |-> static_llen[k - 1]]]
d_desc == [elems |-> D_CODES, max_length |-> 15, base |-> 0,
           extra |-> extra_dbits, stree |-> [k \in 1 .. D_CODES |-> 5]]
bl_desc == [elems |-> 19, max_length |-> 7, base |-> 0,
            extra |-> extra_blbits, stree |-> <<>>]

----------------------------------------------------------------------------
BitsOf(value, length) == [k \in 1 .. length |-> (value \div 2^(k - 1)) % 2]
RECURSIVE ValueOf(_)
ValueOf(bits) == IF bits = <<>> THEN 0 ELSE Head(bits) + 2 * ValueOf(Tail(bits))
ByteAt(bits, k) == ValueOf(SubSeq(bits, 8 * k + 1, 8 * k + 8))

\* put_byte for each byte: they go to pending_buf[pending] and on, wherever
\* pending_out has got to.
put_bytes(o, bytes) ==
  LET end == o.pending + Len(bytes)
  IN  [o EXCEPT !.pending = end,
                !.buf = [i \in 1 .. (IF end > Len(@) THEN end ELSE Len(@)) |->
                           IF i \in o.pending + 1 .. end THEN bytes[i - o.pending] ELSE @[i]]]
put_short(o, w) == put_bytes(o, <<w % 256, w \div 256>>)

\* send_bits for consecutive values: a full bit buffer goes out as a short,
\* what does not fit stays behind.
SendAll(o, bits) ==
  LET all == o.bi \o bits
      shorts == IF all = <<>> THEN 0 ELSE (Len(all) - 1) \div Buf_size
  IN  [put_bytes(o, [k \in 1 .. 2 * shorts |-> ByteAt(all, k - 1)])
         EXCEPT !.bi = SubSeq(all, Buf_size * shorts + 1, Len(all))]
send_bits(o, value, length) == SendAll(o, BitsOf(value, length))

CodeBits(c, tree) == BitsOf(tree.code[c], tree.len[c])

RECURSIVE Joined(_)
Joined(seqs) ==
  LET half == Len(seqs) \div 2
  IN  IF half = 0 THEN IF seqs = <<>> THEN <<>> ELSE seqs[1]
      ELSE Joined(SubSeq(seqs, 1, half)) \o Joined(SubSeq(seqs, half + 1, Len(seqs)))

bi_flush(o) ==
  CASE Len(o.bi) = 16 -> [put_bytes(o, <<ByteAt(o.bi, 0), ByteAt(o.bi, 1)>>)
                            EXCEPT !.bi = <<>>]
    [] Len(o.bi) \in 8 .. 15 -> [put_bytes(o, <<ByteAt(o.bi, 0)>>)
                                   EXCEPT !.bi = SubSeq(@, 9, Len(@))]
    [] OTHER -> o

bi_windup(o) ==
  LET full == o.bi \o [k \in 1 .. 16 - Len(o.bi) |-> 0]
  IN  [put_bytes(o, [k \in 1 .. (Len(o.bi) + 7) \div 8 |-> ByteAt(full, k - 1)])
         EXCEPT !.bi = <<>>]

_tr_init == [bi |-> <<>>, buf |-> <<>>, pending |-> 0, pout |-> 0, last_eob_len |-> 8,
             data_type |-> "unknown"]

----------------------------------------------------------------------------
\* The runs that scan_tree tallies and send_tree sends: equal lengths, cut at
\* 138 zeros, at 7 others that begin with the length itself, then at 6.
RECURSIVE CutRun(_, _, _)
CutRun(cur, n, new) ==
  LET max == IF cur = 0 THEN 138 ELSE IF new THEN 7 ELSE 6
      min == IF cur = 0 \/ ~ new THEN 3 ELSE 4
      count == IF n < max THEN n ELSE max
  IN  IF n = 0 THEN <<>>
      ELSE <<[cur |-> cur, count |-> count, small |-> count < min, new |-> new]>>
           \o CutRun(cur, n - count, FALSE)

TreeRuns(t) ==
  LET begins == SelectSeq([k \in 1 .. t.max_code + 1 |-> k - 1],
                          LAMBDA n : n = 0 \/ t.len[n] # t.len[n - 1])
      ends == Append(Tail(begins), t.max_code + 1)
  IN  Joined([k \in 1 .. Len(begins) |-> CutRun(t.len[begins[k]], ends[k] - begins[k], TRUE)])

\* A run as <<code, value of the extra bits, number of extra bits>>.
RunCodes(r) ==
  LET once == IF r.new THEN << <<r.cur, 0, 0>> >> ELSE <<>>
  IN  IF r.small THEN [k \in 1 .. r.count |-> <<r.cur, 0, 0>>]
      ELSE IF r.cur # 0
           THEN Append(once, <<REP_3_6, r.count - Len(once) - 3, 2>>)
      ELSE IF r.count <= 10 THEN << <<REPZ_3_10, r.count - 3, 3>> >>
      ELSE << <<REPZ_11_138, r.count - 11, 7>> >>

TreeCodes(t) == LET runs == TreeRuns(t)
                IN  Joined([k \in 1 .. Len(runs) |-> RunCodes(runs[k])])

Freq(codes, elems) ==
  [n \in 0 .. elems - 1 |-> Cardinality({k \in 1 .. Len(codes) : codes[k] = n})]

\* scan_tree of both trees, then the bit length tree.
build_bl_tree(lcodes, dcodes) ==
  LET all == lcodes \o dcodes
  IN  build_tree(bl_desc, Freq([k \in 1 .. Len(all) |-> all[k][1]], 19))

LenOf(t, n) == IF n <= t.max_code THEN t.len[n] ELSE 0

max_blindex(bl) == Max({3} \cup {k \in 3 .. 18 : LenOf(bl, bl_order[k + 1]) # 0})

\* send_tree, as the bits it sends.
send_tree(codes, bl) ==
  Joined([k \in 1 .. Len(codes) |->
            CodeBits(codes[k][1], bl) \o BitsOf(codes[k][2], codes[k][3])])

send_all_trees(o, l, d, bl, lcodes, dcodes) ==
  SendAll(o, BitsOf(l.max_code + 1 - 257, 5) \o BitsOf(d.max_code + 1 - 1, 5)
             \o BitsOf(max_blindex(bl) + 1 - 4, 4)
             \o Joined([k \in 1 .. max_blindex(bl) + 1 |-> BitsOf(LenOf(bl, bl_order[k]), 3)])
             \o send_tree(lcodes, bl) \o send_tree(dcodes, bl))

----------------------------------------------------------------------------
\* The symbols of a block in the given trees, then the end of block.
MatchBits(sym, lcode, dcode, ltree, dtree) ==
  CodeBits(lcode + LITERALS, ltree) \o BitsOf(sym.lc - base_length[lcode], extra_lbits[lcode])
  \o CodeBits(dcode - 1, dtree) \o BitsOf(sym.dist - 1 - base_dist[dcode], extra_dbits[dcode])
SymBits(sym, ltree, dtree) ==
  IF sym.dist = 0 THEN CodeBits(sym.lc, ltree)
  ELSE MatchBits(sym, length_code[sym.lc] + 1, d_code(sym.dist - 1) + 1, ltree, dtree)

compress_block(o, sym, ltree, dtree) ==
  [SendAll(o, Joined([k \in 1 .. Len(sym) |-> SymBits(sym[k], ltree, dtree)])
              \o CodeBits(END_BLOCK, ltree))
     EXCEPT !.last_eob_len = ltree.len[END_BLOCK]]

\* copy_block with its header, after the block type.
_tr_stored_block(o, buf, eof) ==
  LET o1 == bi_windup(send_bits(o, eof, 3))
      o2 == put_short(put_short(o1, Len(buf)), 65535 - Len(buf))
  IN  [put_bytes(o2, buf) EXCEPT !.last_eob_len = 8]

\* One empty static block, two when inflate would lack lookahead.
EmptyStatic(o) == bi_flush(SendAll(o, BitsOf(2, 3) \o CodeBits(END_BLOCK, static_ltree)))
AlignedAfter(o, last_eob_len) ==
  [(IF 1 + last_eob_len + 10 - Len(o.bi) < 9 THEN EmptyStatic(o) ELSE o)
     EXCEPT !.last_eob_len = 7]
_tr_align(o) ==
  AlignedAfter(EmptyStatic(o), o.last_eob_len)

set_data_type(freq) ==
  IF \E n \in (0 .. 8) \cup (14 .. 31) : freq[n] # 0 THEN "binary" ELSE "text"

ltree_freq(sym) ==
  Freq(Append([k \in 1 .. Len(sym) |->
                 IF sym[k].dist = 0 THEN sym[k].lc
                 ELSE length_code[sym[k].lc] + LITERALS + 1], END_BLOCK), L_CODES)
dtree_freq(sym) ==
  Freq([k \in 1 .. Len(sym) |-> IF sym[k].dist = 0 THEN -1 ELSE d_code(sym[k].dist - 1)],
       D_CODES)

\* The last block ends on a byte.
WoundUp(o, eof) == IF eof = 1 THEN bi_windup(o) ELSE o

InBytes(bits) == (bits + 3 + 7) \div 8

\* buf is the block's input, NoBuf when it has left the window; stored_len is
\* its length.  Stored, static or dynamic: the shortest, static before dynamic.
NoBuf == <<-1>>

BlockCodes(l, d, lcodes, dcodes) ==
  [l |-> l, d |-> d, lcodes |-> lcodes, dcodes |-> dcodes, bl |-> build_bl_tree(lcodes, dcodes)]
OfTrees(l, d) == BlockCodes(l, d, TreeCodes(l), TreeCodes(d))
BlockTrees(sym) ==
  OfTrees(build_tree(l_desc, ltree_freq(sym)), build_tree(d_desc, dtree_freq(sym)))

opt_lenb(t) ==
  InBytes(t.l.opt + t.d.opt + t.bl.opt + 3 * (max_blindex(t.bl) + 1) + 14)
Best(level, static_lenb, opt) == IF level = 0 \/ static_lenb <= opt THEN static_lenb ELSE opt

Typed(o, sym, level, stored_len) ==
  IF level > 0 /\ stored_len > 0 /\ o.data_type = "unknown"
  THEN [o EXCEPT !.data_type = set_data_type(ltree_freq(sym))] ELSE o

SendTrees(o, t) == send_all_trees(o, t.l, t.d, t.bl, t.lcodes, t.dcodes)

\* The block in the trees chosen: <<>> stands for the static ones.
SendCoded(o, sym, eof, chosen) ==
  compress_block(IF chosen = <<>> THEN send_bits(o, 2 + eof, 3)
                 ELSE SendTrees(send_bits(o, 4 + eof, 3), chosen[1]), sym,
                 IF chosen = <<>> THEN static_ltree ELSE chosen[1].l,
                 IF chosen = <<>> THEN static_dtree ELSE chosen[1].d)

Shortest(o, sym, strategy, buf, stored_len, eof, t, static_lenb, best) ==
  IF stored_len + 4 <= best /\ buf # NoBuf THEN _tr_stored_block(o, buf, eof)
  ELSE SendCoded(o, sym, eof,
                 IF strategy = Z_FIXED \/ static_lenb = best THEN <<>> ELSE <<t>>)

Measured(o, sym, level, strategy, buf, stored_len, eof, t, static_lenb) ==
  Shortest(o, sym, strategy, buf, stored_len, eof, t, static_lenb,
           Best(level, static_lenb, opt_lenb(t)))

OfLevel(o, sym, level, strategy, buf, stored_len, eof, t) ==
  Measured(o, sym, level, strategy, buf, stored_len, eof, t,
           IF level = 0 THEN stored_len + 5 ELSE InBytes(t.l.static + t.d.static))

_tr_flush_block(o, sym, level, strategy, buf, stored_len, eof) ==
  WoundUp(OfLevel(Typed(o, sym, level, stored_len), sym, level, strategy, buf,
                  stored_len, eof,
                  BlockTrees(sym)), eof)

----------------------------------------------------------------------------
(***************************************************************************)
(* inflate_table of usr/klibc/zlib/inftrees.c: the decoding table of a     *)
(* canonical Huffman code, a root table indexed by the next bits of the    *)
(* input with sub-tables for the longer codes.  lens is the sequence of    *)
(* code lengths of the symbols 0, 1, ...; a table is the function from an  *)
(* index to an entry [op, bits, val].                                      *)
(***************************************************************************)

MAXBITS == 15
ENOUGH == 2048
MAXD == 592

lbase == <<3, 4, 5, 6, 7, 8, 9, 10, 11, 13, 15, 17, 19, 23, 27, 31, 35, 43, 51,
           59, 67, 83, 99, 115, 131, 163, 195, 227, 258, 0, 0>>
lext == <<16, 16, 16, 16, 16, 16, 16, 16, 17, 17, 17, 17, 18, 18, 18, 18, 19, 19,
          19, 19, 20, 20, 20, 20, 21, 21, 21, 21, 16, 201, 196>>
dbase == <<1, 2, 3, 4, 5, 7, 9, 13, 17, 25, 33, 49, 65, 97, 129, 193, 257, 385, 513,
           769, 1025, 1537, 2049, 3073, 4097, 6145, 8193, 12289, 16385, 24577, 0, 0>>
dext == <<16, 16, 16, 16, 17, 17, 18, 18, 19, 19, 20, 20, 21, 21, 22, 22, 23, 23, 24,
          24, 25, 25, 26, 26, 27, 27, 28, 28, 29, 29, 64, 64>>

Entry(op, bits, val) == [op |-> op, bits |-> bits, val |-> val]

\* The entry of a symbol: a literal, the end of a block, or a base value.
SymEntry(type, n, bits) ==
  CASE type = "CODES" -> Entry(0, bits, n)
    [] type = "LENS" /\ n < 256 -> Entry(0, bits, n)
    [] type = "LENS" /\ n = 256 -> Entry(96, bits, 0)
    [] type = "LENS" /\ n > 256 -> Entry(lext[n - 256], bits, lbase[n - 256])
    [] type = "DISTS" -> Entry(dext[n + 1], bits, dbase[n + 1])

\* The prefix codes left after all lengths; negative if over-subscribed.
RECURSIVE Left(_, _, _)
Left(count, len, left) ==
  IF len > MAXBITS \/ left < 0 THEN left
  ELSE Left(count, len + 1, 2 * left - count[len])

\* The next code of len bits, counting from the top bit down.
RECURSIVE Increment(_, _)
Increment(huff, len) ==
  IF len = 0 THEN 0
  ELSE LET incr == 2^(len - 1)
       IN  IF (huff \div incr) % 2 = 1 THEN Increment(huff % incr, len - 1)
           ELSE (huff % incr) + incr

\* The index bits of a sub-table for codes that start with len bits.
RECURSIVE Widen(_, _, _, _, _)
Widen(count, drop, max, curr, left) ==
  IF curr + drop >= max \/ left - count[curr + drop] <= 0 THEN curr
  ELSE Widen(count, drop, max, curr + 1, 2 * (left - count[curr + drop]))

\* Invalid code markers for what an incomplete code leaves over.
RECURSIVE Markers(_, _)
Markers(c, s) ==
  IF s.huff = 0 THEN s.table
  ELSE LET back == s.drop # 0 /\ s.huff % 2^c.root # s.low
           r == IF back THEN [s EXCEPT !.drop = 0, !.len = c.root, !.next = 0] ELSE s
           at == r.next + (r.huff \div 2^r.drop)
       IN  Markers(c, [r EXCEPT !.table = (at :> Entry(64, r.len - r.drop, 0)) @@ @,
                                !.huff = Increment(@, r.len)])

Replicas(s) ==
  LET incr == 2^(s.len - s.drop)
  IN  {s.next + (s.huff \div 2^s.drop) + k * incr : k \in 0 .. (2^s.curr \div incr) - 1}

\* Begin a sub-table when the code no longer shares the root bits of the last.
SubTable(c, s) ==
  LET next == s.next + 2^s.curr
      curr == Widen(s.count, c.root, c.max, s.len - c.root, 2^(s.len - c.root))
      low == s.huff % 2^c.root
  IN  IF s.len <= c.root \/ low = s.low THEN s
      ELSE [s EXCEPT !.drop = c.root, !.next = next, !.curr = curr,
                     !.used = @ + 2^curr, !.low = low,
                     !.table = (low :> Entry(curr, c.root, next)) @@ @]

TooBig(c, s) == c.type = "LENS" /\ s.used >= ENOUGH - MAXD

\* Enter the next code, in order of length and symbol; stop with ret.
Entered(c, s) ==
  [s EXCEPT !.table = [i \in Replicas(s) |->
                         SymEntry(c.type, c.work[s.sym], s.len - s.drop)] @@ @,
            !.huff = Increment(@, s.len), !.sym = @ + 1, !.count[s.len] = @ - 1]
AfterCode(c, e) ==
  IF e.count[e.len] # 0 THEN SubTable(c, e)
  ELSE IF e.len = c.max THEN [e EXCEPT !.ret = 0, !.table = Markers(c, e)]
  ELSE SubTable(c, [e EXCEPT !.len = c.lens[c.work[e.sym] + 1]])
EnterCode(c, s) ==
  IF TooBig(c, s) THEN [s EXCEPT !.ret = 1] ELSE AfterCode(c, Entered(c, s))

\* Up to 2^k codes, by halves.
RECURSIVE EnterCodes(_, _, _)
EnterCodes(c, s, k) ==
  IF k = 0 THEN EnterCode(c, s)
  ELSE LET r == EnterCodes(c, s, k - 1) IN IF r.ret # 2 THEN r ELSE EnterCodes(c, r, k - 1)

Clamp(root, min, max) ==
  LET r == IF root > max THEN max ELSE root IN IF r < min THEN min ELSE r

\* The symbols in order of their lengths.
Sorted(lens) ==
  LET of(b) == SelectSeq([k \in 1 .. Len(lens) |-> k - 1], LAMBDA n : lens[n + 1] = b)
      upto[b \in 0 .. MAXBITS] == IF b = 0 THEN <<>> ELSE upto[b - 1] \o of(b)
  IN  upto[MAXBITS]

TableOf(s, root) == [ret |-> s.ret, table |-> s.table, bits |-> root, used |-> s.used]

FillTable(c, count, min) ==
  TableOf(EnterCodes(c, [huff |-> 0, sym |-> 1, len |-> min, next |-> 0, curr |-> c.root,
                         drop |-> 0, low |-> -1, used |-> 2^c.root, count |-> count,
                         table |-> <<>>, ret |-> 2], 9), c.root)

NoCodes == TableOf([ret |-> 0, table |-> (0 :> Entry(64, 1, 0)) @@ (1 :> Entry(64, 1, 0)),
                    used |-> 2], 1)

\* Refused when over-subscribed or, unless it is one distance code, incomplete.
Tabled(type, lens, bits, count, present, left) ==
  IF present = {} THEN NoCodes
  ELSE IF left < 0 \/ (left > 0 /\ (type = "CODES" \/ Max(present) # 1)) THEN [ret |-> -1]
  ELSE FillTable([type |-> type, lens |-> lens, max |-> Max(present),
                  root |-> Clamp(bits, Min(present), Max(present)), work |-> Sorted(lens)],
                 count, Min(present))

Counted(type, lens, bits, count) ==
  Tabled(type, lens, bits, count, {b \in 1 .. MAXBITS : count[b] # 0}, Left(count, 1, 1))

inflate_table(type, lens, bits) ==
  Counted(type, lens, bits,
          [b \in 0 .. MAXBITS |-> Cardinality({k \in 1 .. Len(lens) : lens[k] = b})])
============================================================================
