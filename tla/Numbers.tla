------------------------------ MODULE Numbers ------------------------------
(***************************************************************************)
(* Strings read as numbers: strntoumax and what is made of it in klibc     *)
(* (usr/klibc/strntoumax.c, strtox.c, atox.c, strtotimex.c), strtoull of   *)
(* usr/libc and the kernel's strtoul (kernel/lib/klib.c).  s is a sequence *)
(* of codes with its ending 0; a result has the value and the index where  *)
(* reading stopped.  UMAX + 1 stands for the 2^64 (2^32 in the kernel) of  *)
(* the unsigned type, DECIMALS for the digits of a fraction of a second.   *)
(***************************************************************************)
EXTENDS Chars

CONSTANTS UMAX, DECIMALS

Minus(v) == (UMAX + 1 - v) % (UMAX + 1)
X == {Ch("x"), Ch("X")}

----------------------------------------------------------------------------
\* klibc.  No digit is -1.
Letter(c) == IF c \in 65 .. 90 THEN c - 55 ELSE IF c \in 97 .. 122 THEN c - 87 ELSE -1
digitval == [c \in 0 .. 255 |-> IF c \in digit THEN c - 48 ELSE Letter(c)]

\* The digits from place i on; at most up to place n.
RECURSIVE Digits(_, _, _, _, _)
Digits(s, i, n, base, v) ==
  IF i <= n /\ digitval[s[i]] \in 0 .. base - 1
  THEN Digits(s, i + 1, n, base, ((v * base) + digitval[s[i]]) % (UMAX + 1))
  ELSE [val |-> v, end |-> i]
Prefixed(s, i, n) == n - i + 1 >= 2 /\ s[i] = Ch("0") /\ s[i + 1] \in X
\* From place j on, behind blanks and sign.
Magnitude(s, j, base, n, hex) ==
  LET octal == base = 0 /\ ~hex /\ j <= n /\ s[j] = Ch("0")
  IN  Digits(s, IF hex THEN j + 2 ELSE IF octal THEN j + 1 ELSE j, n,
             IF hex THEN 16 ELSE IF base # 0 THEN base ELSE IF octal THEN 8 ELSE 10, 0)
SignedValue(r, minus) == IF minus THEN [r EXCEPT !.val = Minus(@)] ELSE r
Unblanked(s, i, base, n, sign) ==
  LET j == IF sign THEN i + 1 ELSE i
  IN  SignedValue(Magnitude(s, j, base, n, base \in {0, 16} /\ Prefixed(s, j, n)),
                  sign /\ s[i] = Ch("-"))
NumberAt(s, i, base, n) == Unblanked(s, i, base, n, i <= n /\ s[i] \in {Ch("-"), Ch("+")})
strntoumaxAt(s, from, base, n) ==
  NumberAt(s, Min({ k \in from .. n + 1 : k = n + 1 \/ ~isspace(s[k]) }), base, n)
strntoumax(s, base, n) == strntoumaxAt(s, 1, base, n)
\* Without a limit the ending 0 stops every loop.
strtoumax(s, base) == strntoumax(s, base, Len(s))
ato(s) == strtoumax(s, 10).val

\* Seconds, a point and a fraction; digits that are too many are skipped.
Scale(n) == IF n >= DECIMALS THEN 0 ELSE DECIMALS - n
Fraction(s, sec, s0, f) ==
  [sec |-> sec.val, frac |-> (f.val * 10 ^ Scale(f.end - s0)) % (UMAX + 1),
   end |-> Min({ k \in f.end .. Len(s) : ~isdigit(s[k]) })]
Seconds(s, sec) ==
  IF s[sec.end] # Ch(".") THEN [sec |-> sec.val, frac |-> 0, end |-> sec.end]
  ELSE Fraction(s, sec, sec.end + 1,
                strntoumaxAt(s, sec.end + 1, 10, Min({sec.end + DECIMALS, Len(s)})))
strtotimex(s) == Seconds(s, strtoumax(s, 10))

----------------------------------------------------------------------------
\* strtoull of usr/libc and strtoul of the kernel: the classes differ, and so
\* the codes that are digits (the kernel knows one lower case letter).
LibcDigit == [c \in 0 .. 255 |->
  IF c \in digit THEN c - 48
  ELSE IF ~isalpha(c) THEN 256 ELSE IF isupper(c) THEN c - 55 ELSE c - 87]
KernDigit == [c \in 0 .. 255 |->
  IF c \in digit THEN c - 48 ELSE IF c \in 65 .. 90 THEN c - 55 ELSE IF c = 97 THEN 10 ELSE 256]

\* any is 1 after a digit, -1 after an overflow; then the digits are skipped.
Overflows(acc, c, base) ==
  acc > UMAX \div base \/ (acc = UMAX \div base /\ c > UMAX % base)
RECURSIVE Accumulate(_, _, _, _, _, _)
AccumulateOn(dig, s, i, base, acc, any, c) ==
  IF c >= base THEN [acc |-> acc, any |-> any, end |-> i]
  ELSE LET over == any < 0 \/ Overflows(acc, c, base)
       IN  Accumulate(dig, s, i + 1, base,
                      IF any < 0 THEN acc ELSE IF over THEN UMAX ELSE ((acc * base) + c) % (UMAX + 1),
                      IF over THEN -1 ELSE 1)
Accumulate(dig, s, i, base, acc, any) == AccumulateOn(dig, s, i, base, acc, any, dig[s[i]])
Clamped(r, minus) ==
  [val |-> IF minus /\ r.any > 0 THEN Minus(r.acc) ELSE r.acc,
   end |-> IF r.any # 0 THEN r.end ELSE 1, erange |-> r.any < 0]
BaseAt(s, j, base, hex) ==
  IF hex THEN 16 ELSE IF base # 0 THEN base ELSE IF s[j] = Ch("0") THEN 8 ELSE 10
ConvertAt(dig, s, j, base, hex, minus) ==
  Clamped(Accumulate(dig, s, IF hex THEN j + 2 ELSE j, BaseAt(s, j, base, hex), 0, 0), minus)
ConvertHex(dig, s, j, base, minus) ==
  ConvertAt(dig, s, j, base, base \in {0, 16} /\ s[j] = Ch("0") /\ s[j + 1] \in X, minus)
ConvertFrom(dig, s, i, base) ==
  ConvertHex(dig, s, IF s[i] \in {Ch("-"), Ch("+")} THEN i + 1 ELSE i, base, s[i] = Ch("-"))
Convert(dig, blank, s, base) ==
  ConvertFrom(dig, s, Min({ k \in 1 .. Len(s) : s[k] \notin blank }), base)
strtoull(s, base) == Convert(LibcDigit, space, s, base)
strtoul(s) == Convert(KernDigit, {9, 10, 13, 32}, s, 0).val

----------------------------------------------------------------------------
(***************************************************************************)
(* vsnprintf of klibc (usr/klibc/vsnprintf.c) and the simpler one of the   *)
(* kernel and of usr/libc (kernel/lib/vsnprintf.c, libc/stdio/vsnprintf.c).*)
(*                                                                         *)
(* RankBits[r + 3] is the number of bits of the integer type of rank r:    *)
(* char, short, int, long and long long (which is also intmax_t).  An      *)
(* argument is an integer, or the sequence of the codes of a string.       *)
(***************************************************************************)

CONSTANTS RankBits, PtrBits, SLACK

Bits(rank) == RankBits[rank + 3]
INTMAX == 2 ^ Bits(2)
SignExt(v, w) == IF v % 2 ^ w >= 2 ^ (w - 1) THEN (v % 2 ^ w) - 2 ^ w ELSE v % 2 ^ w

----------------------------------------------------------------------------
\* b = [mem, q, o]: the buffer and what lies beyond it, the place of the next
\* code, the number of codes put out.  Place 0 is the first of the buffer.
Emitted(mem, q, s) == [k \in DOMAIN mem |-> IF k \in q + 1 .. q + Len(s) THEN s[k - q] ELSE mem[k]]
EmitSome(b, s, k) ==
  [mem |-> Emitted(b.mem, b.q, SubSeq(s, 1, k)), q |-> b.q + k, o |-> b.o + Len(s)]
EMIT(b, n, s) == EmitSome(b, s, Max({0, Min({Len(s), n - b.o})}))
Many(c, k) == [i \in 1 .. k |-> c]

lcdigits == Str("0123456789abcdef")
ucdigits == Str("0123456789ABCDEF")
RECURSIVE NDigits(_, _)
NDigits(val, base) == IF val = 0 THEN 0 ELSE 1 + NDigits(val \div base, base)

\* The digits and ticks of a number, from right to left; only those that fall
\* into the buffer are written.
Number(val, base, ndigits, tickskip, digits) ==
  [i \in 1 .. ndigits |->
     LET t == ndigits - i
     IN  IF (t + 1) % (tickskip + 1) = 0 THEN Ch("_")
         ELSE digits[((val \div (base ^ (t - (t \div (tickskip + 1))))) % base) + 1]]
InRoom(o, ndigits, n) == Max({0, Min({ndigits, n - o})})
\* p = [val, minus, flags, base, n]: the number and where it goes; then
\* its digits without and with ticks, and all its codes.
SignText(p) ==
  IF p.minus THEN Str("-")
  ELSE IF "PLUS" \in p.flags THEN Str("+")
  ELSE IF "SPACE" \in p.flags THEN Str(" ") ELSE <<>>
BaseText(p) ==
  IF {"HASH"} \subseteq p.flags /\ p.base = 16
  THEN IF "UPPER" \in p.flags THEN Str("0X") ELSE Str("0x") ELSE <<>>
Trailed(b, p, nchars, width) ==
  EMIT(b, p.n, Many(Ch(" "), IF "MINUS" \in p.flags THEN Max({0, width - nchars}) ELSE 0))
Digited(b, num, p) ==
  [mem |-> Emitted(b.mem, b.q, SubSeq(num, 1, InRoom(b.o, Len(num), p.n))),
   q |-> b.q + Len(num), o |-> b.o + Len(num)]
\* Blanks, sign, prefix and zeros go before the digits.
Formatted(b, p, front, num, nchars, width) ==
  LET blank == {"MINUS", "ZERO"} \cap p.flags = {}
      zero == {"MINUS", "ZERO"} \cap p.flags = {"ZERO"}
      fill == Max({0, width - nchars})
  IN  Trailed(Digited(EMIT(b, p.n, Many(Ch(" "), IF blank THEN fill ELSE 0) \o front
                                   \o Many(Ch("0"), IF zero THEN fill ELSE 0)), num, p),
              p, nchars, width)
FormatNum(b, p, front, num, width) ==
  Formatted(b, p, front, num, Len(front) + Len(num), width)
FormatTicks(b, p, nd, tickskip, width) ==
  FormatNum(b, p, SignText(p) \o BaseText(p),
            Number(p.val, p.base, nd + ((nd - 1) \div tickskip), tickskip,
                   IF "UPPER" \in p.flags THEN ucdigits ELSE lcdigits), width)
FormatDigits(b, p, nd, width) ==
  FormatTicks(b, p, nd, IF "TICK" \in p.flags THEN (IF p.base = 16 THEN 4 ELSE 3) ELSE nd, width)
\* At least prec digits, for a # in base 8 one more than needed.
Precise(p, nd, prec) ==
  LET least == IF "HASH" \in p.flags /\ p.base = 8 THEN Max({prec, nd + 1}) ELSE prec
  IN  Max({nd, least, IF least < 1 /\ p.val = 0 THEN 1 ELSE 0})
FormatOf(b, p, width, prec) ==
  FormatDigits(b, p, Precise(p, NDigits(p.val, p.base), prec), width)
FormatSigned(b, n, val, minus, flags, base, width, prec) ==
  FormatOf(b, [val |-> IF minus THEN INTMAX - val ELSE val, minus |-> minus, flags |-> flags,
               base |-> base, n |-> n], width, prec)
format_int(mem, q, n, val, flags, base, width, prec) ==
  FormatSigned([mem |-> mem, q |-> q, o |-> 0], n, val, "SIGNED" \in flags /\ val >= INTMAX \div 2,
               flags, base, width, prec)

----------------------------------------------------------------------------
\* s = [state, flags, rank, width, prec, b, args, stored]: what the parser of
\* the format holds; stored is what %n has stored.
Start(n) ==
  [state |-> "normal", flags |-> {}, rank |-> 0, width |-> 0, prec |-> -1,
   b |-> [mem |-> Many(7, n + SLACK), q |-> 0, o |-> 0], stored |-> <<>>]
FlagOf == [c \in {Ch("-"), Ch("+"), Ch("'"), Ch(" "), Ch("#"), Ch("0")} |->
  CASE c = Ch("-") -> "MINUS" [] c = Ch("+") -> "PLUS" [] c = Ch("'") -> "TICK"
    [] c = Ch(" ") -> "SPACE" [] c = Ch("#") -> "HASH" [] c = Ch("0") -> "ZERO"]
Canonical(rank) == Max({-2, Min({2, rank})})

PutInteger(s, f) == [s EXCEPT !.b = [mem |-> f.mem, q |-> s.b.q + f.o, o |-> s.b.o + f.o]]
Integer(s, n, val, flags, base, prec) ==
  PutInteger(s, format_int(s.b.mem, s.b.q, Max({0, n - s.b.o}), val, flags, base, s.width, prec))
PutString(s, n, text) ==
  LET pad == Many(IF "ZERO" \in s.flags /\ "MINUS" \notin s.flags THEN Ch("0") ELSE Ch(" "),
                  Max({0, s.width - Len(text)}))
  IN  [s EXCEPT !.b = EMIT(s.b, n, IF "MINUS" \in s.flags THEN text \o pad ELSE pad \o text)]
String(s, n, sarg) ==
  PutString(s, n, IF s.prec = -1 THEN sarg ELSE SubSeq(sarg, 1, Min({s.prec, Len(sarg)})))

\* The conversions of integers: their value, flags, base and precision.
Pointers == {Ch("p"), Ch("P")}
SignedConvs == {Ch("d"), Ch("i")}
IntConvs == Pointers \cup SignedConvs \cup {Ch("o"), Ch("u"), Ch("x"), Ch("X")}
ConvBase(ch) == IF ch = Ch("o") THEN 8 ELSE IF ch \in SignedConvs \cup {Ch("u")} THEN 10 ELSE 16
ConvFlags(ch) ==
  (IF ch \in Pointers THEN {"HASH"} ELSE {}) \cup (IF ch \in SignedConvs THEN {"SIGNED"} ELSE {})
  \cup (IF ch \in {Ch("P"), Ch("X")} THEN {"UPPER"} ELSE {})
ConvValue(ch, arg, w) ==
  IF ch \in Pointers THEN arg % 2 ^ PtrBits
  ELSE IF ch \in SignedConvs THEN SignExt(arg, w) % INTMAX ELSE arg % 2 ^ w
ConvertInteger(s, n, ch, arg) ==
  Integer(s, n, ConvValue(ch, arg, Bits(Canonical(s.rank))), s.flags \cup ConvFlags(ch), ConvBase(ch),
          IF ch \in Pointers THEN (PtrBits + 3) \div 4 ELSE s.prec)

\* The conversion ch of the argument arg.
Converted(s, n, ch, arg) ==
  IF ch \in IntConvs THEN ConvertInteger(s, n, ch, arg)
  ELSE IF ch \in {Ch("c"), Ch("s")} THEN String(s, n, IF ch = Ch("c") THEN <<arg % 256>> ELSE arg)
  ELSE IF ch = Ch("n") THEN [s EXCEPT !.stored = Append(@, SignExt(s.b.o, Bits(Canonical(s.rank))))]
  ELSE [s EXCEPT !.b = EMIT(s.b, n, <<ch>>)]
\* The conversions that take an argument.
Takes == IntConvs \cup {Ch("c"), Ch("s")}

\* What the parser does with the code ch: on to the next code, with or without
\* an argument, or once more in another state.
On(s) == [s |-> s, codes |-> 1, args |-> 0]
OnArg(s) == [s |-> s, codes |-> 1, args |-> 1]
Again(s, state) == [s |-> [s EXCEPT !.state = state], codes |-> 0, args |-> 0]
InWidth(s, ch, arg) ==
  IF isdigit(ch) THEN On([s EXCEPT !.width = (@ * 10) + ch - 48])
  ELSE IF ch = Ch("*")
  THEN OnArg([s EXCEPT !.width = IF arg < 0 THEN -arg ELSE arg,
                       !.flags = IF arg < 0 THEN @ \cup {"MINUS"} ELSE @])
  ELSE IF ch = Ch(".") THEN On([s EXCEPT !.prec = 0, !.state = "prec"]) ELSE Again(s, "modifiers")
InPrec(s, ch, arg) ==
  IF isdigit(ch) THEN On([s EXCEPT !.prec = (@ * 10) + ch - 48])
  ELSE IF ch = Ch("*") THEN OnArg([s EXCEPT !.prec = Max({-1, arg})]) ELSE Again(s, "modifiers")
RankAfter(rank, ch) ==
  CASE ch = Ch("h") -> rank - 1 [] ch = Ch("l") -> rank + 1 [] ch = Ch("j") -> 2
    [] ch \in {Ch("z"), Ch("t")} -> 1 [] ch \in {Ch("L"), Ch("q")} -> rank + 2
Modifier == { Ch("h"), Ch("l"), Ch("j"), Ch("z"), Ch("t"), Ch("L"), Ch("q") }
InModifiers(s, ch, arg, n) ==
  IF ch \in Modifier THEN On([s EXCEPT !.rank = RankAfter(@, ch)])
  ELSE [s |-> [Converted(s, n, ch, arg) EXCEPT !.state = "normal"], codes |-> 1,
        args |-> IF ch \in Takes THEN 1 ELSE 0]
Parsed(s, ch, arg, n) ==
  CASE s.state = "normal" ->
         IF ch # Ch("%") THEN On([s EXCEPT !.b = EMIT(@, n, <<ch>>)])
         ELSE On([s EXCEPT !.state = "flags", !.flags = {}, !.rank = 0, !.width = 0, !.prec = -1])
    [] s.state = "flags" ->
         IF ch \in DOMAIN FlagOf THEN On([s EXCEPT !.flags = @ \cup {FlagOf[ch]}]) ELSE Again(s, "width")
    [] s.state = "width" -> InWidth(s, ch, arg)
    [] s.state = "prec" -> InPrec(s, ch, arg)
    [] s.state = "modifiers" -> InModifiers(s, ch, arg, n)

\* The parser at code k of the format, with the arguments from a on.
RECURSIVE Parse(_, _, _, _, _, _)
ParseOn(fmt, k, args, a, n, r) == Parse(fmt, k + r.codes, args, a + r.args, n, r.s)
Parse(fmt, k, args, a, n, s) ==
  IF k > Len(fmt) THEN s
  ELSE ParseOn(fmt, k, args, a, n, Parsed(s, fmt[k], IF a <= Len(args) THEN args[a] ELSE 0, n))

\* n bytes are the caller's; the string is ended inside them.
EndAt(o, q, n) == IF o < n THEN q ELSE n - 1
EndText(s, n) ==
  [mem |-> IF n = 0 THEN s.b.mem ELSE Emitted(s.b.mem, EndAt(s.b.o, s.b.q, n), <<0>>),
   ret |-> s.b.o, stored |-> s.stored]
vsnprintf(n, fmt, args) == EndText(Parse(fmt, 1, args, 1, n, Start(n)), n)
\* What a caller gets who has room enough: asprintf measures first.
TextOf(r, fmt, args) == SubSeq(vsnprintf(r + 1, fmt, args).mem, 1, r)
Text(fmt, args) == TextOf(vsnprintf(0, fmt, args).ret, fmt, args)

----------------------------------------------------------------------------
\* The kernel.  No length is taken into account; the ending 0 is counted.  (A %
\* after a % is found again as the next %, and -1 bytes are copied: no format
\* here has one.)
RECURSIVE DigitsIn(_, _)
DigitsIn(v, base) ==
  (IF v < base THEN <<>> ELSE DigitsIn(v \div base, base)) \o << ucdigits[(v % base) + 1] >>
sprint_int_signed(i, base) == (IF i < 0 THEN Str("-") ELSE <<>>) \o DigitsIn(IF i < 0 THEN -i ELSE i, base)
sprint_int_unsigned(i, base) == DigitsIn(i, base)
Fill(tag, num, s) == Many(tag, Max({0, num - Len(s)})) \o s
\* The format from code k on, which follows a %; fill is <<tag, num>>.
RECURSIVE Kformat(_, _, _, _)
\* From code k on up to the next %.
RECURSIVE Ktext(_, _, _, _)
Kformat(fmt, k, args, fill) ==
  LET ch == IF k <= Len(fmt) THEN fmt[k] ELSE 0
      a == IF args = <<>> THEN 0 ELSE Head(args)
      With(s) == s \o Ktext(fmt, k + 1, Tail(args), <<0, 0>>)
  IN  CASE isdigit(ch) /\ fill[1] = 0 -> Kformat(fmt, k + 1, args, <<ch, fill[2]>>)
        [] isdigit(ch) /\ fill[1] # 0 ->
             Kformat(fmt, k + 1, args, IF fill[2] = 0 THEN <<fill[1], ch - 48>> ELSE fill)
        [] ch = Ch("d") -> With(sprint_int_signed(SignExt(a, Bits(0)), 10))
        [] ch = Ch("l") -> With(sprint_int_signed(SignExt(a, Bits(1)), 10))
        [] ch = Ch("x") -> With(Fill(fill[1], fill[2], sprint_int_unsigned(a % 2 ^ Bits(1), 16)))
        [] ch = Ch("p") -> With(Str("0x") \o Fill(Ch("0"), 1, sprint_int_unsigned(a % 2 ^ PtrBits, 16)))
        [] ch = Ch("c") -> <<a % 256>> \o Ktext(fmt, k + 1, Tail(args), fill)
        [] ch = Ch("s") -> IF a = <<>> THEN Str("<null>") \o Ktext(fmt, k + 1, Tail(args), fill) ELSE With(a)
        [] OTHER -> Ktext(fmt, k + 1, args, <<0, 0>>)
Ktext(fmt, k, args, fill) ==
  CASE k > Len(fmt) -> <<>>
    [] k <= Len(fmt) /\ fmt[k] = Ch("%") -> Kformat(fmt, k + 1, args, fill)
    [] k <= Len(fmt) /\ fmt[k] # Ch("%") -> <<fmt[k]>> \o Ktext(fmt, k + 1, args, fill)
Counted0(t) == [text |-> Append(t, 0), ret |-> Len(t) + 1]
kernel_vsnprintf(fmt, args) == Counted0(Ktext(fmt, 1, args, <<0, 0>>))

\* usr/libc: four conversions, without fill, %p and %c; no string argument is
\* empty.
RECURSIVE Ltext(_, _, _)
Ltext(fmt, k, args) ==
  LET ch == IF k < Len(fmt) THEN fmt[k + 1] ELSE 0
      With(s) == s \o Ltext(fmt, k + 2, Tail(args))
  IN  CASE k > Len(fmt) -> <<>>
        [] k <= Len(fmt) /\ fmt[k] # Ch("%") -> <<fmt[k]>> \o Ltext(fmt, k + 1, args)
        [] k <= Len(fmt) /\ fmt[k] = Ch("%") ->
             CASE ch = Ch("d") -> With(sprint_int_signed(SignExt(Head(args), Bits(0)), 10))
               [] ch = Ch("l") -> With(sprint_int_signed(SignExt(Head(args), Bits(1)), 10))
               [] ch = Ch("x") -> With(sprint_int_unsigned(Head(args) % 2 ^ Bits(1), 16))
               [] ch = Ch("s") -> With(Head(args))
               [] OTHER -> Ltext(fmt, k + 2, args)
libc_vsnprintf(fmt, args) == Counted0(Ltext(fmt, 1, args))

----------------------------------------------------------------------------
(***************************************************************************)
(* vsscanf of klibc (usr/klibc/vsscanf.c).  The buffer is a sequence of    *)
(* codes with its ending 0; what is stored through the arguments is the    *)
(* sequence out.                                                           *)
(***************************************************************************)


rank_ptr == 100
StoreBits(rank) == IF rank = rank_ptr THEN PtrBits ELSE RankBits[Max({-2, Min({2, rank})}) + 3]
skipspace(buf, q) == Min({ k \in q .. Len(buf) : ~isspace(buf[k]) })
\* The codes of buf from q on that are in S, at most width of them.
Span(buf, q, width, S) == SubSeq(buf, q, Min({ k \in q .. Len(buf) : k = q + width \/ buf[k] = 0 \/ buf[k] \notin S }) - 1)

\* s = [state, splat, width, rank, q, bail, converted, out, map, inv]: what the
\* parser holds.  A width of the length of the buffer is no limit.
NoLimit(buf) == Len(buf)
ScanStart(buf) ==
  [state |-> "normal", splat |-> FALSE, given |-> FALSE, width |-> NoLimit(buf), rank |-> 0, q |-> 1,
   bail |-> "none", converted |-> 0, out |-> <<>>, map |-> {}, inv |-> FALSE]

\* Storing val by the rank; %* stores nothing.
Wrap(val, w) == val % 2 ^ w
set_integer(s, val, rank) ==
  IF s.splat THEN s ELSE [s EXCEPT !.out = Append(@, Wrap(val, StoreBits(rank)))]
Scanned(s, q, r, rank) ==
  IF r.end = q THEN [s EXCEPT !.q = q, !.bail = "err"]
  ELSE set_integer([s EXCEPT !.q = r.end, !.converted = IF s.splat THEN @ ELSE @ + 1], r.val, rank)
ScanAt(buf, s, q, base, rank) ==
  IF buf[q] = 0 THEN [s EXCEPT !.q = q, !.bail = "eof"]
  ELSE Scanned(s, q, strntoumaxAt(buf, q, base, Min({q + s.width - 1, Len(buf)})), rank)
scan_int(buf, s, base, rank) == ScanAt(buf, s, skipspace(buf, s.q), base, rank)
scan_char(buf, s) ==
  LET width == IF s.given THEN s.width ELSE 1
      k == Len(Span(buf, s.q, width, 1 .. 255))
  IN  \* %*c does not move on
      CASE s.splat -> IF buf[s.q] = 0 /\ width > 0 THEN [s EXCEPT !.bail = "eof"] ELSE s
        [] ~s.splat /\ k < width -> [s EXCEPT !.bail = "eof", !.q = @ + k]
        [] ~s.splat /\ k >= width ->
             [s EXCEPT !.q = @ + k, !.converted = @ + 1, !.out = Append(@, SubSeq(buf, s.q, s.q + k - 1))]
scan_string(buf, s) ==
  LET t == Span(buf, s.q, s.width, 1 .. 255 \ space)
      s1 == [s EXCEPT !.q = @ + Len(t), !.bail = IF Len(t) < s.width /\ buf[s.q + Len(t)] = 0 THEN "eof" ELSE @]
  IN  IF s.splat \/ t = <<>> THEN s1 ELSE [s1 EXCEPT !.out = Append(@, t), !.converted = @ + 1]
\* match_run: the width only matters when it is 0, and the parser goes on in
\* the set.
match_run(buf, s) ==
  LET S == IF s.inv THEN (1 .. 255) \ s.map ELSE s.map
      t == IF s.width = 0 THEN <<>> ELSE Span(buf, s.q, Len(buf), S)
      ended == s.width # 0 /\ buf[s.q + Len(t)] = 0
      s1 == [s EXCEPT !.q = @ + Len(t)]
      s2 == IF t # <<>> /\ ~s.splat THEN [s1 EXCEPT !.out = Append(@, t), !.converted = @ + 1]
            ELSE [s1 EXCEPT !.bail = "err"]
  IN  IF ended THEN [s2 EXCEPT !.bail = "eof"] ELSE s2

ScanBase(ch) ==
  IF ch \in Pointers \cup {Ch("i")} THEN 0
  ELSE IF ch = Ch("o") THEN 8 ELSE IF ch \in {Ch("x"), Ch("X")} THEN 16 ELSE 10
Conversion(buf, s, ch) ==
  CASE ch \in IntConvs -> scan_int(buf, s, ScanBase(ch), IF ch \in Pointers THEN rank_ptr ELSE s.rank)
    [] ch = Ch("n") -> set_integer(s, s.q - 1, s.rank)
    [] ch = Ch("c") -> scan_char(buf, s)
    [] ch = Ch("s") -> scan_string(buf, s)
    [] ch = Ch("[") -> [s EXCEPT !.state = "match_init", !.inv = FALSE, !.map = {}]
    [] ch = Ch("%") -> IF buf[s.q] = ch THEN [s EXCEPT !.q = @ + 1] ELSE [s EXCEPT !.bail = "err"]
    [] OTHER -> [s EXCEPT !.bail = "err"]

Literal(buf, s, ch) ==
  CASE ch = Ch("%") -> [s EXCEPT !.state = "flags", !.splat = FALSE, !.given = FALSE, !.rank = 0, !.width = NoLimit(buf)]
    [] isspace(ch) -> [s EXCEPT !.q = skipspace(buf, @)]
    [] ch # Ch("%") /\ ~isspace(ch) -> IF buf[s.q] = ch THEN [s EXCEPT !.q = @ + 1] ELSE [s EXCEPT !.bail = "err"]
Longer(rank, ch) ==
  CASE ch = Ch("h") -> rank - 1 [] ch = Ch("l") -> rank + 1
    [] ch \in {Ch("j"), Ch("L"), Ch("q")} -> 2 [] ch \in {Ch("z"), Ch("t")} -> 1

RECURSIVE Scan(_, _, _, _)
Scan(buf, fmt, k, s) ==
  IF k > Len(fmt) \/ s.bail # "none" THEN s
  ELSE
  LET ch == fmt[k]
      Go(t) == Scan(buf, fmt, k + 1, t)
      Stay(state) == Scan(buf, fmt, k, [s EXCEPT !.state = state])
  IN  CASE s.state = "normal" -> Go(Literal(buf, s, ch))
        [] s.state = "flags" ->
             CASE ch = Ch("*") -> Go([s EXCEPT !.splat = TRUE])
               [] isdigit(ch) -> Go([s EXCEPT !.width = ch - 48, !.given = TRUE, !.state = "width"])
               [] OTHER -> Stay("modifiers")
        [] s.state = "width" ->
             IF isdigit(ch) THEN Go([s EXCEPT !.width = (@ * 10) + ch - 48]) ELSE Stay("modifiers")
        [] s.state = "modifiers" ->
             IF ch \in Modifier THEN Go([s EXCEPT !.rank = Longer(@, ch)])
             ELSE Go(Conversion(buf, [s EXCEPT !.state = "normal"], ch))
        [] s.state = "match_init" ->
             IF ch = Ch("^") THEN Go([s EXCEPT !.inv = TRUE])
             ELSE Go([s EXCEPT !.map = @ \cup {ch}, !.state = "match"])
        [] s.state = "match" ->
             CASE ch = Ch("]") -> Go(match_run(buf, s))
               [] ch = Ch("-") -> Go([s EXCEPT !.state = "match_range"])
               [] OTHER -> Go([s EXCEPT !.map = @ \cup {ch}])
        [] s.state = "match_range" ->
             \* the range starts at the - itself and lacks its end
             IF ch = Ch("]") THEN Go(match_run(buf, [s EXCEPT !.map = @ \cup {Ch("-")}]))
             ELSE Go([s EXCEPT !.map = @ \cup (Ch("-") .. ch - 1), !.state = "match"])
ScanEnd(s) ==
  [out |-> s.out, ret |-> IF s.bail = "eof" /\ s.converted = 0 THEN -1 ELSE s.converted]
vsscanf(buf, fmt) == ScanEnd(Scan(buf, fmt, 1, ScanStart(buf)))
============================================================================
