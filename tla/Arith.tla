------------------------------- MODULE Arith -------------------------------
(***************************************************************************)
(* Arithmetic in loops: the SHA-1 program of klibc and the integer         *)
(* arithmetic of its libgcc.                                               *)
(***************************************************************************)
EXTENDS Integers, Sequences, FiniteSets

----------------------------------------------------------------------------
(***************************************************************************)
(* The SHA-1 program of klibc (usr/klibc/sha1hash.c): a message is hashed  *)
(* piece by piece, in place, and the digest is written in base 64.         *)
(*                                                                         *)
(* A 32-bit word is its two halves <<high, low>>; the words that count the *)
(* bits of the message have COUNTBITS bits, so that the first one wraps.   *)
(***************************************************************************)

CONSTANTS
    COUNTBITS,  \* at least 10
    HashPieces,     \* lengths of the pieces
    MaxMessage  \* bound: bytes in all

VARIABLES
    state, count, buffer,   \* SHA1_CTX
    hashed,                 \* the bytes given to SHA1Update so far
    finalDigest             \* of main: <<>> before SHA1Final
sha1_vars == <<state, count, buffer, hashed, finalDigest>>

----------------------------------------------------------------------------
\* Arithmetic on words.
HALF == 65536
BitOf(n, k) == (n \div (2 ^ k)) % 2
Nibbles(F(_, _)) ==
    [a \in 0 .. 15 |-> [b \in 0 .. 15 |->
       F(BitOf(a, 0), BitOf(b, 0)) + 2 * F(BitOf(a, 1), BitOf(b, 1)) + 4 * F(BitOf(a, 2), BitOf(b, 2)) + 8 * F(BitOf(a, 3), BitOf(b, 3))]]
AndBit(a, b) == a * b
XorBit(a, b) == (a + b) % 2
OrBit(a, b) == IF a + b = 0 THEN 0 ELSE 1
AndTable == Nibbles(AndBit)
XorTable == Nibbles(XorBit)
OrTable == Nibbles(OrBit)
Half(T, a, b) ==
    T[a % 16][b % 16] + 16 * T[(a \div 16) % 16][(b \div 16) % 16]
    + 256 * T[(a \div 256) % 16][(b \div 256) % 16] + 4096 * T[a \div 4096][b \div 4096]
And(u, v) == <<Half(AndTable, u[1], v[1]), Half(AndTable, u[2], v[2])>>
XorWord(u, v) == <<Half(XorTable, u[1], v[1]), Half(XorTable, u[2], v[2])>>
Or(u, v) == <<Half(OrTable, u[1], v[1]), Half(OrTable, u[2], v[2])>>
Plus(u, v) == <<(u[1] + v[1] + ((u[2] + v[2]) \div HALF)) % HALF, (u[2] + v[2]) % HALF>>

rol(u, n) ==
    LET m == n % 16
        w == IF n < 16 THEN u ELSE <<u[2], u[1]>>
        Up(h) == (h * 2 ^ m) % HALF
        Down(h) == h \div 2 ^ (16 - m)
    IN  <<Up(w[1]) + Down(w[2]), Up(w[2]) + Down(w[1])>>

WordAt(b, k) == <<256 * b[k] + b[k + 1], 256 * b[k + 2] + b[k + 3]>>    \* ntohl
Little(u) == <<u[2] % 256, u[2] \div 256, u[1] % 256, u[1] \div 256>>
Big(u) == <<u[1] \div 256, u[1] % 256, u[2] \div 256, u[2] % 256>>

----------------------------------------------------------------------------
Konst(i) == CASE i < 20 -> <<23170, 31129>>        \* 0x5A827999
          [] i >= 20 /\ i < 40 -> <<28377, 60321>>
          [] i >= 40 /\ i < 60 -> <<36635, 48348>>
          [] i >= 60 -> <<51810, 49622>>
Choose3(w, x, y) == XorWord(And(w, XorWord(x, y)), y)
Major3(w, x, y) == Or(And(Or(w, x), y), And(w, x))
F(i, w, x, y) ==
    CASE i < 20 -> Choose3(w, x, y)
      [] i \in 40 .. 59 -> Major3(w, x, y)
      [] i \in (20 .. 39) \cup (60 .. 79) -> XorWord(XorWord(w, x), y)

\* Round i on [l, r]: the sixteen words of the block, in which the schedule is
\* expanded in place, and the working variables a to e, whose roles turn.
Taps == <<13, 8, 2>>
blk(l, i) ==
    IF i < 16 THEN l[i + 1]
    ELSE rol(XorWord(XorWord(l[((i + Taps[1]) % 16) + 1], l[((i + Taps[2]) % 16) + 1]),
                 XorWord(l[((i + Taps[3]) % 16) + 1], l[(i % 16) + 1])), 1)
Role(k, i) == ((k + 4 * i) % 5) + 1
Round(s, i) ==
    LET v == s.r[Role(0, i)]
        w == s.r[Role(1, i)]
        x == s.r[Role(2, i)]
        y == s.r[Role(3, i)]
        z == s.r[Role(4, i)]
        b == blk(s.l, i)
        sum == Plus(Plus(Plus(z, F(i, w, x, y)), Plus(b, Konst(i))), rol(v, 5))
    IN  [l |-> [s.l EXCEPT ![(i % 16) + 1] = b],
         r |-> [s.r EXCEPT ![Role(4, i)] = sum, ![Role(1, i)] = rol(w, 30)]]
RECURSIVE Rounds(_, _, _)
Rounds(s, lo, hi) ==
    IF lo = hi THEN Round(s, lo)
    ELSE LET mid == (lo + hi) \div 2
             m == Rounds(s, lo, mid)
         IN  IF m.r = <<>> THEN m ELSE Rounds(m, mid + 1, hi)

\* The new state, and the bytes left where the block was.
SHA1Transform(st, block) ==
    LET l0 == [k \in 1 .. 16 |-> WordAt(block, 4 * k - 3)]
        s == Rounds([l |-> SubSeq(l0, 1, 16), r |-> st], 0, 79)
    IN  [state |-> SubSeq([k \in 1 .. 5 |-> Plus(st[k], s.r[k])], 1, 5),
         block |-> SubSeq([k \in 1 .. 64 |-> Little(s.l[((k - 1) \div 4) + 1])[((k - 1) % 4) + 1]], 1, 64)]

SHA1Init ==
    << <<26437, 8961>>, <<61389, 43913>>, <<39098, 56574>>, <<4146, 21622>>, <<50130, 57840>> >>

----------------------------------------------------------------------------
Overlay(b, at, data) ==
    SubSeq([k \in 1 .. 64 |-> IF k \in at + 1 .. at + Len(data) THEN data[k - at] ELSE b[k]], 1, 64)

\* Whole blocks of data from its byte i on.
RECURSIVE Blocks(_, _, _)
Blocks(st, data, i) ==
    IF i + 63 < Len(data) THEN Blocks(SHA1Transform(st, SubSeq(data, i + 1, i + 64)).state, data, i + 64)
    ELSE [state |-> st, i |-> i]

CARRY == 2 ^ COUNTBITS
Counted(c, len) ==
    LET low == (c[1] + 8 * len) % CARRY
        carry == IF low < (8 * len) % CARRY THEN 1 ELSE 0
    IN  <<low, (c[2] + carry + (len \div (2 ^ (COUNTBITS - 3)))) % CARRY>>
Full(j, len) == j + len > 63

Emptied(c, data, block, b) ==
    [state |-> b.state, count |-> Counted(c.count, Len(data)),
     buffer |-> Overlay(block, 0, SubSeq(data, b.i + 1, Len(data)))]
UpdateBlocks(c, data, t, j) == Emptied(c, data, t.block, Blocks(t.state, data, 64 - j))
UpdateAt(c, data, j) ==
    IF Full(j, Len(data))
    THEN UpdateBlocks(c, data, SHA1Transform(c.state, Overlay(c.buffer, j, SubSeq(data, 1, 64 - j))), j)
    ELSE [state |-> c.state, count |-> Counted(c.count, Len(data)), buffer |-> Overlay(c.buffer, j, data)]
SHA1Update(c, data) == UpdateAt(c, data, (c.count[1] \div 8) % 64)

CountBytes(n) == <<0, n \div 65536, (n \div 256) % 256, n % 256>>
\* A zero at a time until count[0] & 504 is 448: n times.
RECURSIVE ZeroBytes(_, _)
ZeroBytes(c, n) ==
    CASE n = 0 -> c
      [] n = 1 -> SHA1Update(c, <<0>>)
      [] n > 1 -> LET m == ZeroBytes(c, n \div 2) IN IF m.count = <<>> THEN m ELSE ZeroBytes(m, n - (n \div 2))
Pad(c) == ZeroBytes(c, ((448 - (c.count[1] % 512)) % 512) \div 8)
DigestBytes(h) == Big(h[1]) \o Big(h[2]) \o Big(h[3]) \o Big(h[4]) \o Big(h[5])
SHA1Final(c) ==
    DigestBytes(SHA1Update(Pad(SHA1Update(c, <<128>>)),
                           CountBytes(c.count[2]) \o CountBytes(c.count[1])).state)

Sextet(bv, j) == (bv \div 64 ^ (3 - j)) % 64
\* Six bits a character, without the last one; a character is its place in charz.
mybase64(digest) ==
    LET input == digest \o <<0>>
        bv(i) == 65536 * input[3 * i + 1] + 256 * input[3 * i + 2] + input[3 * i + 3]
    IN  [q \in 1 .. 27 |-> Sextet(bv((q - 1) \div 4), (q - 1) % 4)]

----------------------------------------------------------------------------
MsgByte(k) == (k * 37 + 11) % 256
Message(n) == [k \in 1 .. n |-> MsgByte(k)]
Sha1Init ==
    /\ state = SHA1Init /\ count = <<0, 0>> /\ hashed = 0 /\ finalDigest = <<>>
    /\ buffer = [k \in 1 .. 64 |-> 255]      \* uninitialised: nothing read before it is written

\* main: what fread gave.
HashPiece ==
    \E n \in HashPieces :
      /\ finalDigest = <<>> /\ UNCHANGED finalDigest
      /\ hashed + n <= MaxMessage /\ hashed' = hashed + n
      /\ \E c \in {SHA1Update([state |-> state, count |-> count, buffer |-> buffer],
                              [k \in 1 .. n |-> MsgByte(hashed + k)])} :
           state' = c.state /\ count' = c.count /\ buffer' = c.buffer
\* The message has ended.
Seal ==
    /\ finalDigest = <<>>
    /\ finalDigest' = SHA1Final([state |-> state, count |-> count, buffer |-> buffer])
    /\ UNCHANGED <<state, count, buffer, hashed>>
Sha1Next == HashPiece \/ Seal
Sha1Spec == Sha1Init /\ [][Sha1Next]_sha1_vars

----------------------------------------------------------------------------
\* SHA-1 as FIPS 180 defines it: the whole message is padded, each block is
\* expanded into eighty words, and five variables are shifted.
Padded(msg) ==
    LET n == Len(msg)
        zeros == (119 - (n % 64)) % 64
    IN  msg \o <<128>> \o [k \in 1 .. zeros |-> 0]
        \o CountBytes((8 * n) \div CARRY) \o CountBytes((8 * n) % CARRY)
RECURSIVE Expand(_)
Expand(W) ==
    LET n == Len(W)
        New(t) == rol(XorWord(XorWord(W[t - 3], W[t - 8]), XorWord(W[t - 14], W[t - 16])), 1)
    IN  IF n >= 80 THEN W ELSE Expand(W \o <<New(n + 1), New(n + 2), New(n + 3)>>)
Schedule(block) == Expand([t \in 1 .. 16 |-> WordAt(block, 4 * t - 3)])
RECURSIVE ShiftedFive(_, _, _, _)
ShiftedFive(W, h, lo, hi) ==
    IF lo = hi
    THEN <<Plus(Plus(rol(h[1], 5), F(lo, h[2], h[3], h[4])), Plus(Plus(h[5], Konst(lo)), W[lo + 1])),
           h[1], rol(h[2], 30), h[3], h[4]>>
    ELSE LET mid == (lo + hi) \div 2
             m == ShiftedFive(W, h, lo, mid)
         IN  IF m = <<>> THEN m ELSE ShiftedFive(W, m, mid + 1, hi)
RECURSIVE Reference(_, _)
Reference(msg, h) ==
    IF msg = <<>> THEN h
    ELSE LET s == ShiftedFive(Schedule(SubSeq(msg, 1, 64)), h, 0, 79)
         IN  Reference(SubSeq(msg, 65, Len(msg)), SubSeq([k \in 1 .. 5 |-> Plus(h[k], s[k])], 1, 5))

\* However the message comes in pieces, the digest is that of SHA-1 on the
\* whole message, at each length around the ends of blocks and after the first
\* count has wrapped (SHA1Update, SHA1Final, SHA1Transform).  The definition
\* gives the first test vector the program quotes.
DigestRight ==
    finalDigest # <<>> =>
        /\ finalDigest = DigestBytes(Reference(Padded(Message(hashed)), SHA1Init))
        /\ hashed = 0 => Reference(Padded(<<97, 98, 99>>), SHA1Init) =
             << <<43417, 15926>>, <<18182, 33130>>, <<47678, 9585>>, <<30800, 49772>>, <<40144, 55453>> >>

\* No two digests are written alike: the bytes can be read back from the 27
\* characters, though the last one of 28 is left out (mybase64).
DigestReadable ==
    finalDigest # <<>> =>
    LET q == mybase64(finalDigest) \o <<0>>
        Back(k) ==
          LET g == (k - 1) \div 3
              v == q[4 * g + 1] * 262144 + q[4 * g + 2] * 4096 + q[4 * g + 3] * 64 + q[4 * g + 4]
          IN  (v \div 256 ^ (2 - ((k - 1) % 3))) % 256
    IN  \A k \in 1 .. 20 : Back(k) = finalDigest[k]

----------------------------------------------------------------------------
(***************************************************************************)
(* The integer arithmetic klibc brings for processors that lack it         *)
(* (usr/klibc/libgcc, arch/alpha/divide.c, arch/arm/__muldi3.c): division  *)
(* by shifting and subtracting, one step of a loop at a time; shifts,      *)
(* products and leading zeros of double words as operators.  A word has H  *)
(* bits (32 in the code), a double word twice as many.  Signed numbers are *)
(* in two's complement.                                                    *)
(***************************************************************************)

CONSTANTS
    H,      \* bits of a word, a power of two
    Wide    \* the double words tried as arguments

ASSUME HAssumption == H \in Nat /\ H > 1

VARIABLES
    args,       \* the function that is called, and its arguments
    num, den, quot, qbit, minus,
    div_pc      \* "justify", "subtract", "done" or "trap"

div_vars == <<args, num, den, quot, qbit, minus, div_pc>>

Unsigned == {"udivsi3", "umodsi3", "udivdi3", "umoddi3"}
Remainders == {"umodsi3", "modsi3", "umoddi3", "moddi3", "alpha_rem"}

Negative(w, x) == x >= 2 ^ (w - 1)
Minus0(w, x) == (2 ^ w - x) % 2 ^ w
AsSigned(w, x) == IF Negative(w, x) THEN x - 2 ^ w ELSE x
Low(w, x) == x % 2 ^ w

----------------------------------------------------------------------------
\* The signs go before the loop, and one comes back after it.
Abs(w, x) == IF Negative(w, x) THEN Minus0(w, x) ELSE x

\* The loop is entered with what the caller hands over.
Enter(fn, w, a, n, d, neg) ==
    /\ args = [fn |-> fn, w |-> w, num |-> a[1], den |-> a[2]]
    /\ num = n /\ den = d /\ minus = neg
    /\ quot = 0 /\ qbit = 1 /\ div_pc = "justify"
udivmodsi4(fn, a, n, d, neg) == Enter(fn, H, a, n, d, neg)
udivmoddi4(fn, a, n, d, neg) == Enter(fn, 2 * H, a, n, d, neg)
MinusOf(w, n, d) == Negative(w, n) # Negative(w, d)

udivsi3(n, d) == udivmodsi4("udivsi3", <<n, d>>, n, d, FALSE)
umodsi3(n, d) == udivmodsi4("umodsi3", <<n, d>>, n, d, FALSE)
divsi3(n, d) == udivmodsi4("divsi3", <<n, d>>, Abs(H, n), Abs(H, d), MinusOf(H, n, d))
modsi3(n, d) == udivmodsi4("modsi3", <<n, d>>, Abs(H, n), Abs(H, d), MinusOf(H, n, d))
udivdi3(n, d) == udivmoddi4("udivdi3", <<n, d>>, n, d, FALSE)
umoddi3(n, d) == udivmoddi4("umoddi3", <<n, d>>, n, d, FALSE)
divdi3(n, d) == udivmoddi4("divdi3", <<n, d>>, Abs(2 * H, n), Abs(2 * H, d), MinusOf(2 * H, n, d))
moddi3(n, d) == udivmoddi4("moddi3", <<n, d>>, Abs(2 * H, n), Abs(2 * H, d), MinusOf(2 * H, n, d))
\* Alpha has the loop in the function itself; signed, for a quotient or a
\* remainder.
alpha_divide(fn, n, d) == Enter(fn, H, <<n, d>>, Abs(H, n), Abs(H, d), MinusOf(H, n, d))

DivInit ==
    \/ \E n, d \in 0 .. 2 ^ H - 1 :
         \/ udivsi3(n, d) \/ umodsi3(n, d) \/ divsi3(n, d) \/ modsi3(n, d)
         \/ alpha_divide("alpha_div", n, d) \/ alpha_divide("alpha_rem", n, d)
    \/ \E n, d \in Wide : udivdi3(n, d) \/ umoddi3(n, d) \/ divdi3(n, d) \/ moddi3(n, d)

W == args.w

\* SIGFPE; when the handler returns, the quotient is 0 and the remainder is
\* not written.
divide_error ==
    /\ div_pc = "justify" /\ args.den = 0
    /\ div_pc' = "trap" /\ UNCHANGED <<args, num, den, quot, qbit, minus>>

Justified(w, d) == Negative(w, d)

\* Left-justify the denominator and count the shift.
Justify ==
    /\ div_pc = "justify" /\ args.den # 0
    /\ IF Justified(W, den)
       THEN div_pc' = "subtract" /\ UNCHANGED <<den, qbit>>
       ELSE den' = Low(W, 2 * den) /\ qbit' = Low(W, 2 * qbit) /\ UNCHANGED div_pc
    /\ UNCHANGED <<args, num, quot, minus>>

\* Mutant: an equal divisor does not fit.
FitsLess(d, n) == d < n
DenFits(d, n) == d <= n
NextBit(q) == q \div 2

Subtract ==
    /\ div_pc = "subtract" /\ qbit # 0
    /\ num' = IF DenFits(den, num) THEN num - den ELSE num
    /\ quot' = IF DenFits(den, num) THEN quot + qbit ELSE quot
    /\ den' = den \div 2 /\ qbit' = NextBit(qbit)
    /\ UNCHANGED <<args, minus, div_pc>>

DivResult ==
    LET v == IF args.fn \in Remainders THEN num ELSE quot
    IN  IF minus THEN Minus0(W, v) ELSE v
Finish ==
    /\ div_pc = "subtract" /\ qbit = 0
    /\ div_pc' = "done" /\ UNCHANGED <<args, num, den, quot, qbit, minus>>

DivNext == divide_error \/ Justify \/ Subtract \/ Finish
DivSpec == DivInit /\ [][DivNext]_div_vars /\ WF_div_vars(DivNext)

----------------------------------------------------------------------------
\* A double word is shifted as two words.  A shift by the width of a word, when
\* cnt is a multiple of it, is undefined: the processor shifts by nothing, a
\* compiler may drop the term.
High(v) == v \div 2 ^ H
Pair(h, l) == Low(2 * H, h * 2 ^ H + Low(H, l))
ShiftedOut(x, n, by(_, _)) == IF n = H THEN {x, 0} ELSE {by(x, n)}
Shr(x, n) == x \div 2 ^ n
Shl(x, n) == Low(H, x * 2 ^ n)
Sar(x, n) == Low(H, AsSigned(H, x) \div 2 ^ n)

lshrdi3(v, cnt) ==
    LET c == cnt % H
        l == Low(H, v)
        h == High(v)
    IN  IF (cnt \div H) % 2 = 1 THEN {Pair(0, Shr(h, c))}
        ELSE { Pair(Shr(h, c), Shr(l, c) + x) : x \in ShiftedOut(h, H - c, Shl) }

ashrdi3(v, cnt) ==
    LET c == cnt % H
        l == Low(H, v)
        h == High(v)
    IN  IF (cnt \div H) % 2 = 1 THEN {Pair(Sar(h, H - 1), Sar(h, c))}
        ELSE { Pair(Sar(h, c), Shr(l, c) + x) : x \in ShiftedOut(h, H - c, Shl) }

ashldi3(v, cnt) ==
    LET c == cnt % H
        l == Low(H, v)
        h == High(v)
    IN  IF (cnt \div H) % 2 = 1 THEN {Pair(Shl(l, c), 0)}
        ELSE { Pair(Low(H, Shl(h, c) + x), Shl(l, c)) : x \in ShiftedOut(l, H - c, Shr) }

Cross(a, b) == Low(H, Low(H, a) * High(b) + High(a) * Low(H, b))
muldi3(a, b) == Low(2 * H, Low(H, a) * Low(H, b) + Cross(a, b) * 2 ^ H)

\* The halves of a word are tried from the largest down.
RECURSIVE Leading(_, _, _)
Leading(v, p, half) ==
    IF half = 0 THEN p
    ELSE IF (v \div 2 ^ half) % 2 ^ half # 0 THEN Leading(v \div 2 ^ half, p - half, half \div 2)
    ELSE Leading(v, p, half \div 2)
clzsi2(v) == Leading(v, H - 1, H \div 2)

----------------------------------------------------------------------------
\* The loop of __udivmodsi4 and __udivmoddi4 loses nothing on the way: what
\* is divided out and what is left make up the dividend, and what is left is
\* always below twice the next thing to subtract.
LoopKeeps ==
    div_pc = "subtract" =>
      LET n == IF args.fn \in Unsigned THEN args.num ELSE Abs(W, args.num)
          d == IF args.fn \in Unsigned THEN args.den ELSE Abs(W, args.den)
      IN  /\ n = quot * d + num
          /\ qbit # 0 => den = d * qbit
          /\ num < IF qbit # 0 THEN 2 * den ELSE d

\* Every function gives what C wants: the quotient is cut off towards zero, the
\* remainder has the sign of the dividend.  For remainders the code promises
\* this only for a positive divisor: with a negative one the sign is turned.
\* The most negative number by -1 wraps round.
DividesRight ==
    div_pc = "done" =>
      LET n == IF args.fn \in Unsigned THEN args.num ELSE AsSigned(W, args.num)
          d == IF args.fn \in Unsigned THEN args.den ELSE AsSigned(W, args.den)
          Size(x) == IF x < 0 THEN -x ELSE x
          q == (Size(n) \div Size(d)) * (IF (n < 0) # (d < 0) THEN -1 ELSE 1)
      IN  IF args.fn \notin Remainders THEN DivResult = Low(W, q)
          ELSE d > 0 => DivResult = Low(W, n - q * d)

\* A division comes to its end.
DivisionEnds == (args.den # 0) ~> (div_pc = "done")

\* The shifts and products of double words are those of the whole number, the
\* carry between the words included; a count that is a multiple of the word,
\* where the code shifts by a whole word, is left out, except the whole word
\* itself.  The leading zeros of __clzsi2 are counted for every word but 0.
DoubleWords ==
    LET v == args.num
        cnt == args.den % (2 * H)
    IN  W = 2 * H =>
          /\ muldi3(v, args.den) = Low(2 * H, v * args.den)
          /\ cnt # 0 =>
               /\ lshrdi3(v, cnt) = {v \div 2 ^ cnt}
               /\ ashldi3(v, cnt) = {Low(2 * H, v * 2 ^ cnt)}
               /\ ashrdi3(v, cnt) = {Low(2 * H, AsSigned(2 * H, v) \div 2 ^ cnt)}
          /\ Low(H, v) # 0 => LET z == clzsi2(Low(H, v)) IN Low(H, v) \in 2 ^ (H - 1 - z) .. 2 ^ (H - z) - 1
============================================================================
