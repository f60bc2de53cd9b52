----------------------------- MODULE Checksums -----------------------------
(***************************************************************************)
(* The two checksums of usr/klibc/zlib: Adler-32 (adler32.c) and CRC-32    *)
(* (crc32.c).  A byte is a number 0..255 and a buffer a sequence of bytes. *)
(* An Adler-32 value is the pair of its 16-bit halves.  A 32-bit word of   *)
(* the CRC is the set of its one bits, so that exclusive-or is the         *)
(* symmetric difference and no word is too large for TLC's integers.       *)
(***************************************************************************)
EXTENDS Integers, Sequences, FiniteSets, SequencesExt

BASE == 65521

\* The sums of adler32 over buf, before any reduction: DO1 for each byte.
Then(a, b, n) == <<a[1] + b[1], a[2] + n * a[1] + b[2]>>
RECURSIVE Sums(_, _)
Sums(adler, buf) ==
  LET half == Len(buf) \div 2
  IN  IF buf = <<>> THEN adler
      ELSE IF half = 0 THEN Then(adler, <<buf[1], buf[1]>>, 1)
      ELSE Then(adler, Then(Sums(<<0, 0>>, SubSeq(buf, 1, half)),
                            Sums(<<0, 0>>, SubSeq(buf, half + 1, Len(buf))),
                            Len(buf) - half), Len(buf))

Once(a) == IF a >= BASE THEN a - BASE ELSE a

\* adler32(adler, buf, len) for len < NMAX (5552 bytes): one byte and fewer
\* than 16 bytes are reduced by subtraction where one subtraction is enough.
Reduced(adler, s, len) ==
  CASE len = 0 -> adler
    [] len = 1 -> <<Once(s[1]), Once(adler[2] + Once(s[1]))>>
    [] len \in 2 .. 15 -> <<Once(s[1]), s[2] % BASE>>
    [] OTHER -> <<s[1] % BASE, s[2] % BASE>>
adler32(adler, buf) == Reduced(adler, Sums(adler, buf), Len(buf))

\* adler32(0, Z_NULL, 0)
adler32_init == <<1, 0>>

Over(a, base) == IF a > base THEN a - base ELSE a

\* The reductions compare with >, so a half may stay at BASE.
adler32_combine(adler1, adler2, len2) ==
  LET rem == len2 % BASE
      mul == (rem * adler1[1]) % BASE
      sum1 == adler1[1] + adler2[1] + BASE - 1
      sum2 == mul + adler1[2] + adler2[2] + BASE - rem
  IN  <<Over(Over(sum1, BASE), BASE), Over(Over(sum2, 2 * BASE), BASE)>>

----------------------------------------------------------------------------
Word == 0 .. 31
Xor(a, b) == (a \ b) \cup (b \ a)
Shr(a, n) == {i - n : i \in {j \in a : j >= n}}
Shl(a, n) == {i + n : i \in {j \in a : j + n \in Word}}
Not(a) == Word \ a
Low(a) == a \cap (0 .. 7)
Bits8(n) == {i \in 0 .. 7 : (n \div 2^i) % 2 = 1}
REV(a) == Shr(a, 24) \cup Shl(Low(a), 24)
          \cup Shl(Low(Shr(a, 8)), 16) \cup Shl(Low(Shr(a, 16)), 8)

\* The terms of the polynomial, turned round: 0xedb88320.
poly == {31 - p : p \in {0, 1, 2, 4, 5, 7, 8, 10, 11, 12, 16, 22, 23, 26}}

\* One bit through the register.
Shifted(c) == IF 0 \in c THEN Xor(poly, Shr(c, 1)) ELSE Shr(c, 1)

Byte == SUBSET (0 .. 7)

\* crc_table[0]: the CRC of every single byte.
crc_table0 ==
  LET two(c) == Shifted(Shifted(c))
      four(c) == two(two(c))
  IN  [n \in Byte |-> four(four(n))]

Onward(c) == Xor(crc_table0[Low(c)], Shr(c, 8))

\* crc_table[0..7]: a byte followed by k zero bytes, and the same reversed.
NextTable(t) == [n \in Byte |-> Onward(t[n])]
Reversed(t) == [n \in Byte |-> REV(t[n])]
BothWays(t) == t \o [k \in 1 .. Len(t) |-> Reversed(t[k])]
crc_table1 == NextTable(crc_table0)
crc_table2 == NextTable(crc_table1)
crc_table == BothWays(<<crc_table0, crc_table1, crc_table2, NextTable(crc_table2)>>)

\* DO1, and crc32 a byte at a time (the build without BYFOUR).
DO1(c, byte) ==
  Xor(crc_table0[Low(Xor(c, Bits8(byte)))], Shr(c, 8))

\* All bytes, by halves; the test on the first half has TLC evaluate it.
RECURSIVE DO(_, _)
DO(c, buf) ==
  LET half == Len(buf) \div 2
      q == DO(c, SubSeq(buf, 1, half))
  IN  IF buf = <<>> THEN c
      ELSE IF half = 0 THEN DO1(c, buf[1])
      ELSE IF q = {} THEN DO({}, SubSeq(buf, half + 1, Len(buf)))
      ELSE DO(q, SubSeq(buf, half + 1, Len(buf)))

crc32(crc, buf) == Not(DO(Not(crc), buf))

\* The four bytes of a word in memory, as a little- or a big-endian load.
LittleWord(w) == UNION {Shl(Bits8(w[k]), 8 * (k - 1)) : k \in 1 .. 4}
BigWord(w) == UNION {Shl(Bits8(w[k]), 8 * (4 - k)) : k \in 1 .. 4}

DOLIT4Of(t, d) ==
  Xor(Xor(t[4][Low(d)], t[3][Low(Shr(d, 8))]),
      Xor(t[2][Low(Shr(d, 16))], t[1][Shr(d, 24)]))
DOLIT4(c, w) == DOLIT4Of(crc_table, Xor(c, LittleWord(w)))

DOBIG4Of(t, d) ==
  Xor(Xor(t[5][Low(d)], t[6][Low(Shr(d, 8))]),
      Xor(t[7][Low(Shr(d, 16))], t[8][Shr(d, 24)]))
DOBIG4(c, w) == DOBIG4Of(crc_table, Xor(c, BigWord(w)))

DOBIG1(c, byte) ==
  Xor(crc_table[5][Xor(Shr(c, 24), Bits8(byte))], Shl(c, 8))

\* How many bytes are taken singly until the buffer is word aligned, how many
\* whole words follow, when the buffer starts addr bytes after a boundary.
Lead(buf, addr) == LET a == (4 - addr) % 4
                   IN  IF a < Len(buf) THEN a ELSE Len(buf)
Words(buf, addr) == (Len(buf) - Lead(buf, addr)) \div 4

\* crc32_little and crc32_big differ in the step for a byte and for a word.
ByFour(One(_, _), Four(_, _), c, buf, addr) ==
  LET l == Lead(buf, addr)
      n == Words(buf, addr)
      word(k) == SubSeq(buf, l + 4 * k - 3, l + 4 * k)
      c1 == FoldLeft(One, c, SubSeq(buf, 1, l))
      c2 == FoldLeft(Four, c1, [k \in 1 .. n |-> word(k)])
  IN  FoldLeft(One, c2, SubSeq(buf, l + 4 * n + 1, Len(buf)))

crc32_little(crc, buf, addr) == Not(ByFour(DO1, DOLIT4, Not(crc), buf, addr))

crc32_big(crc, buf, addr) ==
  REV(Not(ByFour(DOBIG1, DOBIG4, Not(REV(crc)), buf, addr)))

----------------------------------------------------------------------------
\* A 32 x 32 matrix over GF(2) is the sequence of its rows (SubSeq has TLC
\* evaluate them all).
Matrix(row(_)) == SubSeq([n \in 1 .. 32 |-> row(n - 1)], 1, 32)
gf2_matrix_times(mat, vec) ==
  {i \in Word : Cardinality({n \in vec : i \in mat[n + 1]}) % 2 = 1}
gf2_matrix_square(mat) == Matrix(LAMBDA n : gf2_matrix_times(mat, mat[n + 1]))

\* The operator that appends one zero byte, squared for each bit of len2.
OneZeroBit == Matrix(LAMBDA n : IF n = 0 THEN poly ELSE {n - 1})
ZeroByte == gf2_matrix_square(gf2_matrix_square(gf2_matrix_square(OneZeroBit)))

RECURSIVE Zeros(_, _, _)
Zeros(mat, crc1, len2) ==
  IF len2 = 0 THEN crc1
  ELSE Zeros(gf2_matrix_square(mat),
             IF len2 % 2 = 1 THEN gf2_matrix_times(mat, crc1) ELSE crc1, len2 \div 2)

crc32_combine(crc1, crc2, len2) ==
  IF len2 = 0 THEN crc1 ELSE Xor(Zeros(ZeroByte, crc1, len2), crc2)
============================================================================
