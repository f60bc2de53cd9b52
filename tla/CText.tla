------------------------------ MODULE CText --------------------------------
(***************************************************************************)
(* The string functions of the two user libraries and of the kernel on     *)
(* every pair of a word and a pattern: both are typed code by code, the    *)
(* functions are applied to what has been typed.  A pattern is a sequence  *)
(* of units (a code, or a set, range or escaped code of fnmatch).          *)
(***************************************************************************)
EXTENDS Numbers, LibcString, SequencesExt

CONSTANTS WordChars, Units, MaxWord, MaxPattern

VARIABLES word, units,
    handed      \* they are given to the functions

words_vars == <<word, units, handed>>

K == INSTANCE KlibcString

WordsInit == word = <<>> /\ units = <<>> /\ handed = FALSE
TypeCode == \E c \in WordChars : ~handed /\ Len(word) < MaxWord /\ word' = Append(word, c) /\ UNCHANGED <<units, handed>>
TypeUnit == \E u \in Units : ~handed /\ Len(units) < MaxPattern /\ units' = Append(units, u) /\ UNCHANGED <<word, handed>>
HandWords == ~handed /\ handed' = TRUE /\ UNCHANGED <<word, units>>
WordsNext == TypeCode \/ TypeUnit \/ HandWords
WordsSpec == WordsInit /\ [][WordsNext]_words_vars

pat == FlattenSeq(units)
Z(s) == Append(s, 0)
NUL == 0
Sign(n) == IF n < 0 THEN -1 ELSE IF n > 0 THEN 1 ELSE 0
\* s as it lies in memory before other bytes.
InMemory(s) == Z(s) \o <<7, 0>>
Small(S) == IF S = {} THEN 0 ELSE Min(S)

----------------------------------------------------------------------------
\* Searching: where memmem and strstr skip places of the haystack they miss no
\* match; they return the first one (memmem.c, strstr.c).
SearchFinds ==
  handed =>
  LET S == { j \in 1 .. Len(word) - Len(pat) + 1 : SubSeq(word, j, j + Len(pat) - 1) = pat }
      found == IF pat = <<>> THEN 0 ELSE Small(S)
  IN  /\ K!memmem(word, Len(word), pat, Len(pat)) = found
      /\ K!strstr(Z(word), Z(pat)) = found

\* Moving a part of a buffer to a place that overlaps it keeps the moved bytes
\* and every byte outside: memmove.c, the kernel's memory_copy, and memcpy.c
\* when the two places do not overlap.
MovesKeep ==
  handed /\ units = <<>> =>
  LET m == word \o word
  IN  \A d, s \in 1 .. Len(m) : \A n \in 0 .. Len(m) - Max({d, s}) + 1 :
        LET r == [k \in 1 .. Len(m) |-> IF k \in d .. d + n - 1 THEN m[s + k - d] ELSE m[k]]
        IN  /\ K!memmove(m, d, s, n) = r
            /\ memory_copy(m, d, s, n) = r
            /\ (d + n <= s \/ s + n <= d) => K!memcpy(m, d, s, n) = r

\* The tokens a caller gets until strtok returns NULL; the first call has other
\* delimiters than the later ones.
RECURSIVE KTokens(_, _, _), LTokens(_, _, _)
KTokens(r, delim, n) ==
  IF r.tok = NUL \/ n = 0 THEN <<>>
  ELSE << SubSeq(r.mem, r.tok, r.tok + K!strlen(K!At(r.mem, r.tok)) - 1) >>
       \o KTokens(K!strtok(r.mem, r.holder, delim), delim, n - 1)
LTokens(r, delim, n) ==
  IF r.tok = NUL \/ n = 0 THEN <<>>
  ELSE << SubSeq(r.mem, r.tok, r.tok + K!strlen(K!At(r.mem, r.tok)) - 1) >>
       \o LTokens(strtok(r.mem, r.holder, delim), delim, n - 1)
\* The runs of codes that are not in D.
Runs(s, D) ==
  LET starts == { k \in 1 .. Len(s) : s[k] \notin D /\ (k = 1 \/ s[k - 1] \in D) }
      End(k) == Min({ e \in k .. Len(s) : e = Len(s) \/ s[e + 1] \in D })
  IN  { <<k, SubSeq(s, k, End(k))>> : k \in starts }

\* Tokens: strtok of both libraries cuts a string into the same tokens, also
\* when the delimiters change between calls, and with one set of delimiters
\* these are the runs of other codes (strtok.c, strsep.c, strtok_r.c).
TokensAgree ==
  handed =>
  LET first == Z(SubSeq(pat, 1, Min({1, Len(pat)})))
      k == KTokens(K!strtok(Z(word), 1, first), Z(pat), MaxWord + 1)
      l == LTokens(strtok(Z(word), 1, first), Z(pat), MaxWord + 1)
      same == KTokens(K!strtok(Z(word), 1, Z(pat)), Z(pat), MaxWord + 1)
      runs == Runs(word, ToSet(pat))
  IN  /\ k = l
      /\ Len(same) = Cardinality(runs)
      /\ \A t \in runs : same[Cardinality({ u \in runs : u[1] <= t[1] })] = t[2]

\* Spans: strspn, strcspn and strpbrk of both libraries stop at the first code
\* that is not (is) in the set, and never beyond the end (strxspn.c).
SpansAgree ==
  handed =>
  LET s == Z(word)
      span == Min({ k \in 0 .. Len(word) : s[k + 1] \notin ToSet(pat) })
      cspan == Min({ k \in 0 .. Len(word) : s[k + 1] \in ToSet(pat) \cup {0} })
  IN  /\ K!strspn(s, Z(pat)) = span /\ strspn(s, Z(pat)) = span
      /\ K!strcspn(s, Z(pat)) = cspan /\ strcspn(s, Z(pat)) = cspan
      /\ K!strpbrk(s, Z(pat)) = strpbrk(s, Z(pat))

Before(a, b) ==
  \E k \in 0 .. Len(a) : /\ k < Len(b) /\ SubSeq(a, 1, k) = SubSeq(b, 1, k)
                         /\ k = Len(a) \/ a[k + 1] < b[k + 1]
Order(a, b) == IF a = b THEN 0 ELSE IF Before(a, b) THEN -1 ELSE 1
CutWord(s, n) == SubSeq(s, 1, Min({n, Len(s)}))

\* Comparing: strcmp of klibc, of libc and of the kernel give the order of two
\* strings, though the last two compare the lengths first; strncmp of klibc
\* gives that of the first n codes and strcasecmp that of the upper case.
\* (The strlen of libc and of the kernel is wrong for an empty string.)
OrderAgrees ==
  handed =>
  /\ Sign(K!strcmp(Z(word), Z(pat))) = Order(word, pat)
  /\ word # <<>> /\ pat # <<>> =>
       /\ Sign(strcmp(InMemory(word), InMemory(pat))) = Order(word, pat)
       /\ Sign(kstrcmp(InMemory(word), InMemory(pat))) = Order(word, pat)
  /\ \A n \in 0 .. MaxWord + 1 : Sign(K!strncmp(Z(word), Z(pat), n)) = Order(CutWord(word, n), CutWord(pat, n))
  /\ Sign(K!strcasecmp(Z(word), Z(pat))) = Order(K!Upper(word), K!Upper(pat))

Blank(n) == [k \in 1 .. n |-> 7]
\* The first size bytes hold as much of s as fits, ended; the rest is untouched.
Holds(m, s, size) ==
  LET l == Min({Len(s), size - 1})
  IN  SubSeq(m, 1, l + 1) = Z(SubSeq(s, 1, l)) /\ \A k \in size + 1 .. Len(m) : m[k] = 7
Long == MaxWord + 4 * MaxPattern + 2

\* Bounded copies: strlcpy followed by strlcat puts as much of the two strings
\* into the buffer as fits, ended by a 0, writes nothing beyond it and returns
\* the length there would have been; strncat of both libraries and strxfrm
\* copy as much as they are told (strlcpy.c, strlcat.c, strncat.c, strxfrm.c).
CopiesFit ==
  handed =>
  \A size \in 1 .. MaxWord + 2 :
    LET c == K!strlcpy(Blank(Long), 1, Z(word), size)
        d == K!strlcat(c.mem, 1, Z(pat), size)
        k == K!strncat(Z(word) \o Blank(Long), 1, Z(pat), size)
    IN  /\ Holds(c.mem, word, size) /\ c.ret = Len(word)
        /\ Holds(d.mem, word \o pat, size)
        /\ Len(word) < size => d.ret = Len(word \o pat)
        /\ k = strncat(Z(word) \o Blank(Long), 1, Z(pat), size)
        /\ K!strlen(k) = Len(word) + Min({size, Len(pat)})
        /\ word # <<>> => Holds(strxfrm(Blank(Long), 1, InMemory(word), size).mem, word, size)

----------------------------------------------------------------------------
\* What a unit of a pattern stands for.
Accepts(u, c) ==
  CASE Len(u) = 1 -> u[1] \in {c, Ch("?")}
    [] Len(u) = 2 -> u[2] = c
    [] Len(u) > 2 /\ u[2] = Ch("!") -> u[3] # c
    [] Len(u) > 2 /\ u[2] # Ch("!") ->
         IF u[3] = Ch("-") THEN c \in u[2] .. u[4] ELSE \E k \in 2 .. Len(u) - 1 : u[k] = c
RECURSIVE Matches(_, _)
Matches(p, s) ==
  CASE p = <<>> -> s = <<>>
    [] p # <<>> /\ p[1] = <<Ch("*")>> -> \E k \in 1 .. Len(s) + 1 : Matches(Tail(p), SubSeq(s, k, Len(s)))
    [] OTHER -> s # <<>> /\ Accepts(p[1], s[1]) /\ Matches(Tail(p), Tail(s))

\* Patterns: fnmatch without FNM_PATHNAME accepts the words its pattern stands
\* for, whatever * is tried first (fnmatch.c).
GlobMatches ==
  handed => (K!fnmatch(Z(pat), Z(word), {}) <=> Matches(units, word))

\* Sorting: qsort's last pass leaves the elements in order for every number of
\* elements (its gaps shrink by 10/13, and 9 and 10 become 11), and bsearch
\* finds an element in what it left if it is there (qsort.c, bsearch.c).
SortsAndFinds ==
  handed /\ word # <<>> =>
    LET a == word \o pat \o word \o word
    IN  \A b \in {K!qsort(a)} :
        /\ \A i \in 1 .. Len(b) - 1 : b[i] <= b[i + 1]
        /\ \A c \in ToSet(a) : Cardinality({ i \in 1 .. Len(a) : a[i] = c }) = Cardinality({ i \in 1 .. Len(b) : b[i] = c })
        /\ \A c \in WordChars : LET k == K!bsearch(c, b, 1, Len(b))
                                IN  IF c \in ToSet(b) THEN k \in DOMAIN b /\ b[k] = c ELSE k = NUL

\* swab swaps the bytes of each pair, for every number of pairs: those over a
\* multiple of eight first, then eight at a time (swab.c).
SwabSwaps ==
  handed /\ Len(units) <= 1 =>
  LET from == word \o pat \o word \o word \o word \o word \o word \o word \o word
      len == Len(from) - (Len(from) % 2)
      to == swab(Blank(Len(from)), from, len)
  IN  \A k \in 1 .. Len(from) :
        to[k] = IF k > len THEN 7 ELSE IF k % 2 = 1 THEN from[k + 1] ELSE from[k - 1]

----------------------------------------------------------------------------
(***************************************************************************)
(* Every string over a few codes, typed code by code and read as a number  *)
(* by the two user libraries and the kernel; and every mode of a file      *)
(* written by strmode.                                                     *)
(***************************************************************************)

CONSTANTS NumChars, MaxNum, ModeBits

VARIABLES numeral, mode,
    read        \* they are read

numerals_vars == <<numeral, mode, read>>

Plain == [type |-> "reg", bits |-> {}]
NumeralsInit == numeral = <<>> /\ mode = Plain /\ read = FALSE
TypeNum ==
  /\ ~read /\ mode = Plain /\ Len(numeral) < MaxNum
  /\ \E c \in NumChars : numeral' = Append(numeral, c)
  /\ UNCHANGED <<mode, read>>
Chmod ==
  /\ ~read /\ numeral = <<>> /\ UNCHANGED <<numeral, read>>
  /\ \E b \in ModeBits : mode' = [mode EXCEPT !.bits = (@ \ {b}) \cup ({b} \ @)]
Mknod ==
  /\ ~read /\ numeral = <<>> /\ UNCHANGED <<numeral, read>>
  /\ \E t \in DOMAIN Types \cup {"other"} : mode' = [mode EXCEPT !.type = t]
ReadIt == ~read /\ read' = TRUE /\ UNCHANGED <<numeral, mode>>
NumeralsNext == TypeNum \/ Chmod \/ Mknod \/ ReadIt
NumeralsSpec == NumeralsInit /\ [][NumeralsNext]_numerals_vars

numstr == Append(numeral, 0)
Run(from, D) == SubSeq(numstr, from, Min({ k \in from .. Len(numstr) : numstr[k] \notin D }) - 1)
RECURSIVE Value(_, _)
Value(ds, base) ==
  IF ds = <<>> THEN 0
  ELSE (Value(SubSeq(ds, 1, Len(ds) - 1), base) * base) + digitval[ds[Len(ds)]]

\* A number as C writes it: blanks, a sign, a prefix that gives the base, and
\* the digits of that base.
NumeralDigits(base, blanks, p, hex, ds) ==
  [minus |-> numstr[blanks + 1] = Ch("-"), value |-> Value(ds, base), digits |-> Len(ds),
   end |-> p + (IF hex THEN 2 ELSE 0) + Len(ds)]
NumeralBase(b, blanks, p, hex) ==
  NumeralDigits(b, blanks, p, hex,
                Run(IF hex THEN p + 2 ELSE p, { c \in 0 .. 255 : digitval[c] \in 0 .. b - 1 }))
NumeralHex(base, blanks, p, hex) ==
  NumeralBase(IF hex THEN 16 ELSE IF base # 0 THEN base ELSE IF numstr[p] = Ch("0") THEN 8 ELSE 10,
              blanks, p, hex)
NumeralFrom(base, blanks, p) ==
  NumeralHex(base, blanks, p, base \in {0, 16} /\ numstr[p] = Ch("0") /\ numstr[p + 1] \in X)
NumeralAt(base, blanks) ==
  NumeralFrom(base, blanks, blanks + Min({Len(Run(blanks + 1, {Ch("-"), Ch("+")})), 1}) + 1)
Numeral(base) == NumeralAt(base, Len(Run(1, space)))
Signed(r) == IF r.minus THEN Minus(r.value % (UMAX + 1)) ELSE r.value % (UMAX + 1)

\* strntoumax reads the number modulo the size of its type and stops at the
\* first code that is not part of it; told to read at most n codes it reads
\* what it would if the string ended there (strntoumax.c).
NumbersRead ==
  read =>
  \A base \in {0, 10, 16} : \A r \in {Numeral(base)} :
    /\ \A k \in {strtoumax(numstr, base)} : k.val = Signed(r) /\ k.end = r.end
    /\ \A n \in 0 .. Len(numeral) : strntoumax(numstr, base, n) = strtoumax(Append(SubSeq(numeral, 1, n), 0), base)

\* strtoull and the kernel's strtoul stay at the greatest value exactly when
\* the number is greater, and read it as klibc does otherwise; strtoull ends
\* where klibc ends when there is a digit (strtoull.c, klib.c).
LimitsKept ==
  read => \A r \in {Numeral(0)}, l \in {strtoull(numstr, 0)} :
    /\ l.erange <=> r.value > UMAX
    /\ l.val = IF r.value > UMAX THEN UMAX ELSE Signed(r)
    /\ r.digits > 0 => l.end = r.end
    /\ strtoul(numstr) = l.val

\* strtotimeval and strtotimespec: of a decimal fraction the first digits are
\* kept and scaled to the unit, and all its digits are read (strtotimex.c).
TimesRead ==
  read =>
  LET sec == Run(1, digit)
      frac == Run(Len(sec) + 2, digit)
      kept == SubSeq(frac, 1, Min({DECIMALS, Len(frac)}))
  IN  \A t \in {strtotimex(numstr)} :
      /\ sec # <<>> /\ numstr[Len(sec) + 1] = Ch(".") /\ frac # <<>> =>
           /\ t.sec = Value(sec, 10) % (UMAX + 1)
           /\ t.frac = Value(kept, 10) * 10 ^ (DECIMALS - Len(kept))
           /\ t.end = Len(sec) + Len(frac) + 2
      /\ sec # <<>> /\ numstr[Len(sec) + 1] = 0 => t = [sec |-> Value(sec, 10) % (UMAX + 1), frac |-> 0, end |-> Len(numstr)]

\* The bits of mode that the text of strmode tells.
Told(t) ==
  { b \in ModeBits :
      CASE b = "RUSR" -> t[2] = "r" [] b = "WUSR" -> t[3] = "w" [] b = "XUSR" -> t[4] \in {"x", "s"}
        [] b = "RGRP" -> t[5] = "r" [] b = "WGRP" -> t[6] = "w" [] b = "XGRP" -> t[7] \in {"x", "s"}
        [] b = "ROTH" -> t[8] = "r" [] b = "WOTH" -> t[9] = "w" [] b = "XOTH" -> t[10] \in {"x", "t"}
        [] b = "SUID" -> t[4] \in {"s", "S"} [] b = "SGID" -> t[7] \in {"s", "S"}
        [] b = "SVTX" -> t[10] \in {"t", "T"} }

\* strmode loses nothing: its text tells every bit and the type (strmode.c).
ModeTold ==
  read =>
  LET t == strmode(mode)
  IN  /\ Told(t) = mode.bits
      /\ \A other \in DOMAIN Types : t[1] = Types[other] => mode.type = other

----------------------------------------------------------------------------
(***************************************************************************)
(* Every directive over small sets of flags, widths, precisions, length    *)
(* modifiers and conversions, formatted by klibc and by the kernel.  The   *)
(* directive is put together part by part, between the codes a and y.      *)
(***************************************************************************)

CONSTANTS Flags, Widths, Precs, Mods, Convs, Ints, MaxFlags, FormatRooms

Sc == INSTANCE Numbers WITH UMAX <- INTMAX - 1, DECIMALS <- 0

VARIABLE dir        \* the parts of the directive
formats_vars == <<dir>>

StarArg == -6       \* what a * takes
FormatsInit == dir = [flags |-> <<>>, width |-> <<>>, prec |-> <<>>, mod |-> <<>>, conv |-> <<>>]
AddFlag ==
  /\ dir.conv = <<>> /\ dir.width = <<>> /\ dir.prec = <<>> /\ dir.mod = <<>>
  /\ Len(dir.flags) < MaxFlags
  /\ \E f \in Flags : dir' = [dir EXCEPT !.flags = @ \o f]
AddWidth == dir.conv = <<>> /\ \E w \in Widths : dir' = [dir EXCEPT !.width = w]
AddPrec == dir.conv = <<>> /\ \E p \in Precs : dir' = [dir EXCEPT !.prec = p]
AddMod == dir.conv = <<>> /\ \E m \in Mods : dir' = [dir EXCEPT !.mod = m]
AddConv == dir.conv = <<>> /\ \E c \in Convs : dir' = [dir EXCEPT !.conv = c]
FormatsNext == AddFlag \/ AddWidth \/ AddPrec \/ AddMod \/ AddConv
FormatsSpec == FormatsInit /\ [][FormatsNext]_formats_vars

directive == Str("a%") \o dir.flags \o dir.width \o dir.prec \o dir.mod \o dir.conv \o Str("y")
Has(c) == dir.conv = Str(c)
Whole == dir.conv # <<>>
Stars == (IF dir.width = Str("*") THEN <<StarArg>> ELSE <<>>) \o (IF dir.prec = Str(".*") THEN <<StarArg>> ELSE <<>>)
Args == IF Has("s") THEN { <<>>, Str("xyz") } ELSE Ints

\* The buffer: however many bytes the caller gives, vsnprintf writes none
\* beyond them, leaves in them as much of the text as fits with its ending 0,
\* and returns the length of the whole text; asprintf and vfprintf size their
\* buffers by it (vsnprintf.c, vasprintf.c).
FormatFits(arg, t) ==
  \A n \in FormatRooms : \A r \in {vsnprintf(n, directive, Stars \o <<arg>>)} :
      LET k == Min({n - 1, Len(t)})
      IN  /\ r.ret = Len(t)
          /\ Has("n") => r.stored = <<1>>
          /\ n > 0 => SubSeq(r.mem, 1, k + 1) = Append(SubSeq(t, 1, k), 0)
          /\ \A i \in n + 1 .. Len(r.mem) : r.mem[i] = 7

FlagSet == { FlagOf[c] : c \in ToSet(dir.flags) } \cup (IF dir.width = Str("*") THEN {"MINUS"} ELSE {})
NumOf(s) == IF s = <<>> THEN 0 ELSE IF s[Len(s)] = Ch("*") THEN 6 ELSE s[Len(s)] - 48
PrecOf == IF dir.prec = <<>> \/ dir.prec = Str(".*") THEN -1 ELSE IF Len(dir.prec) = 1 THEN 0 ELSE NumOf(dir.prec)
Base == IF Has("o") THEN 8 ELSE IF Has("x") \/ Has("X") \/ Has("p") THEN 16 ELSE 10
DigitsOf(s) == SelectSeq(s, LAMBDA c : c \in xdigit)
DigitVal(c) == IF isdigit(c) THEN c - 48 ELSE _tolower(c) - 87
RECURSIVE Val(_, _)
Val(ds, base) == IF ds = <<>> THEN 0 ELSE (Val(SubSeq(ds, 1, Len(ds) - 1), base) * base) + DigitVal(ds[Len(ds)])
Rank == Canonical(CASE dir.mod = Str("hh") -> -2 [] dir.mod = Str("l") -> 1 [] dir.mod = Str("ll") -> 2 [] OTHER -> 0)

\* Numbers: read back from the text, the number is the argument converted to
\* the type the modifiers name; the text is as wide as asked, with blanks only
\* outside the number, and has at least as many digits as the precision
\* (format_int).
FormatMeans(arg, t) ==
  dir.conv \in { Str(c) : c \in {"d", "u", "o", "x", "X"} } =>
    LET body == SubSeq(t, 2, Len(t) - 1)
        core == SelectSeq(body, LAMBDA c : c # Ch(" "))
        minus == core[1] = Ch("-")
        sign == core[1] \in {Ch("-"), Ch("+")}
        hex == "HASH" \in FlagSet /\ Base = 16
        ds == DigitsOf(SubSeq(core, 1 + (IF sign THEN 1 ELSE 0) + (IF hex THEN 2 ELSE 0), Len(core)))
        v == Val(ds, Base)
        w == Bits(Rank)
    IN  /\ (IF minus THEN -v ELSE v) = IF Has("d") THEN SignExt(arg, w) ELSE arg % 2 ^ w
        /\ Len(ds) >= PrecOf
        /\ Len(body) >= NumOf(dir.width)
        /\ Len(body) > NumOf(dir.width) => (body[1] # Ch(" ") \/ "SPACE" \in FlagSet) /\ body[Len(body)] # Ch(" ")
        /\ \E i, j \in 1 .. Len(body) : core = SubSeq(body, i, j)

\* Three implementations: for the directives the kernel knows its vsnprintf gives
\* the text klibc gives (its %l is %ld, its hexadecimal digits are upper case),
\* and returns one more; the one of usr/libc agrees where there is no fill
\* (kernel/lib/vsnprintf.c, libc/stdio/vsnprintf.c).
KernelFormats ==
  /\ dir.mod = <<>> /\ dir.prec = <<>> /\ Has("X")
  /\ (dir.flags = <<>> /\ dir.width = <<>>) \/ (dir.flags = Str("0") /\ Len(dir.width) = 1 /\ dir.width # Str("*"))
  => \A arg \in Args :
       LET r == kernel_vsnprintf(Str("a%") \o dir.flags \o dir.width \o Str("x %l %sy"), <<arg, arg, Str("q")>>)
           t == Text(Str("a%") \o dir.flags \o dir.width \o Str("X %ld %sy"), <<arg, arg, Str("q")>>)
           bare == dir.flags = <<>> /\ dir.width = <<>>
       IN  /\ r.text = Append(t, 0) /\ r.ret = Len(t) + 1
           /\ bare => libc_vsnprintf(Str("a%x %l %s%dy"), <<arg, arg, Str("q"), arg>>)
                      = kernel_vsnprintf(Str("a%x %l %s%dy"), <<arg, arg, Str("q"), arg>>)

\* Round trip: sscanf with the conversion that wrote a number reads the same
\* number back, whatever the padding, sign and prefix, and ends where the text
\* ends; given a width it stops there (vsscanf.c, strntoumax.c).
ScanReads(arg, t) ==
  "TICK" \notin FlagSet /\ dir.conv \in { Str(c) : c \in {"d", "u", "o", "x", "X", "p"} } =>
    LET w == IF Has("p") THEN PtrBits ELSE Bits(Rank)
        split == Sc!vsscanf(Append(t, 0), Str("a%2llu%*1c%lluy"))
        body == SubSeq(t, 2, Len(t) - 1)
    IN  /\ Sc!vsscanf(Append(t, 0), Str("a%") \o dir.mod \o dir.conv \o Str(" y%n"))
             = [ret |-> 1, out |-> <<arg % 2 ^ w, Len(t)>>]
        /\ Has("u") /\ ToSet(body) \subseteq digit /\ Len(body) > 2 =>
             split.out = <<Val(SubSeq(body, 1, 2), 10), Val(SubSeq(body, 3, Len(body)), 10)>>

\* A finished directive with each argument: the text fits, means the argument
\* and is read back.
FormatsRight ==
  Whole => \A arg \in Args : \A t \in {Text(directive, Stars \o <<arg>>)} :
             FormatFits(arg, t) /\ FormatMeans(arg, t) /\ ScanReads(arg, t)

----------------------------------------------------------------------------
(***************************************************************************)
(* Internet addresses as text, and reserved ports (usr/klibc/inet), and    *)
(* the numbers of the rand48 family (jrand48.c, srand48.c, lrand48.c,      *)
(* mrand48.c, nrand48.c).                                                  *)
(*                                                                         *)
(* The text is written by vsnprintf and read by vsscanf, with bytes of     *)
(* eight bits and shorter words.  A limb of a seed has LIMB bits.          *)
(***************************************************************************)

CONSTANTS
    Octets,               \* the bytes addresses are made of
    START_PORT, END_PORT,
    Pid,                  \* of the caller
    MaxCalls,             \* bound: calls of bindresvport
    LIMB

Short == <<8, 9, 10, 10, 11>>
Pr == INSTANCE Numbers WITH RankBits <- Short, PtrBits <- 8, SLACK <- 12, UMAX <- 2047, DECIMALS <- 0

VARIABLES
    topic,     \* "text", "ports" or "seeds": the parts do not touch one another
    addr,      \* an IPv4 address, byte by byte
    taken,     \* the ports bound by anyone
    port,      \* bindresvport's static
    calls,
    bound,     \* what its last call returned: a port, -1, or 0 before any call
    seed,      \* __rand48_seed
    drawn      \* numbers drawn since it was set, and the first seed
inet_vars == <<topic, addr, taken, port, calls, bound, seed, drawn>>

----------------------------------------------------------------------------
Dots == Str("%u.%u.%u.%u")
inet_ntoa(a) == Pr!vsnprintf(16, Dots, a)
Four(r) == IF r.ret = 4 THEN r.out ELSE <<>>
inet_aton(str) == Four(Pr!vsscanf(str, Str("%hhu.%hhu.%hhu.%hhu")))

NoSpace(xlen, len) == xlen > len
\* <<>> is NULL.
Spaced(r, len) == IF NoSpace(r.ret, len) THEN <<>> ELSE SubSeq(r.mem, 1, len)
inet_ntop(fmt, parts, len) == Spaced(Pr!vsnprintf(len, fmt, parts), len)
Colons == Str("%x:%x:%x:%x:%x:%x:%x:%x")

----------------------------------------------------------------------------
\* The ports are tried from where the last call stopped, each once; a call
\* that finds none leaves the place it began at.
NUM_PORTS == END_PORT - START_PORT
Wrapped(p) == IF p = END_PORT THEN START_PORT ELSE p
RECURSIVE Bind(_, _)
Bind(p, i) ==
    IF i = NUM_PORTS THEN [port |-> p, ret |-> -1]
    ELSE LET q == Wrapped(p) IN IF q \notin taken THEN [port |-> q, ret |-> q] ELSE Bind(q + 1, i + 1)
bindresvport ==
    LET b == Bind(IF port = 0 THEN START_PORT + (Pid % NUM_PORTS) ELSE port, 0)
    IN  /\ calls < MaxCalls /\ calls' = calls + 1
        /\ port' = b.port /\ bound' = b.ret
        /\ taken' = IF b.ret = -1 THEN taken ELSE taken \cup {b.ret}
        /\ UNCHANGED <<topic, addr, seed, drawn>>
\* A socket is closed, or another program takes a port.
OthersPorts ==
    /\ calls \in 1 .. MaxCalls - 1
    /\ \E p \in START_PORT .. END_PORT - 1 : taken' = IF p \in taken THEN taken \ {p} ELSE taken \cup {p}
    /\ bound' = 0 /\ UNCHANGED <<topic, addr, port, calls, seed, drawn>>

----------------------------------------------------------------------------
\* x = a * x + c over three limbs, the multiplier and increment cut to them.
LIMBS == 2 ^ LIMB
NextSeed == 11
Inc == NextSeed
jrand48(s) ==
    LET x == s[1] + s[2] * LIMBS + s[3] * LIMBS ^ 2
        y == (58989 % LIMBS ^ 3) * x + Inc       \* 0xe66d, the low end of 0x5deece66d
    IN  <<y % LIMBS, (y \div LIMBS) % LIMBS, (y \div LIMBS ^ 2) % LIMBS>>
\* The two upper limbs, signed; lrand48 and nrand48 halve them as unsigned.
mrand48(s) ==
    LET v == s[2] + s[3] * LIMBS IN IF v >= LIMBS ^ 2 \div 2 THEN v - LIMBS ^ 2 ELSE v
lrand48(s) == (mrand48(s) % LIMBS ^ 2) \div 2
srand48(v) == <<13070 % LIMBS, v % LIMBS, (v \div LIMBS) % LIMBS>>
Draw ==
    /\ drawn.n < LIMBS ^ 3 /\ drawn' = [drawn EXCEPT !.n = @ + 1] /\ seed' = jrand48(seed)
    /\ UNCHANGED <<topic, addr, taken, port, calls, bound>>

----------------------------------------------------------------------------
InetInit ==
    /\ topic \in {"text", "ports", "seeds"}
    /\ addr \in IF topic = "text" THEN [1 .. 4 -> Octets] ELSE {<<0, 0, 0, 0>>}
    /\ taken \in IF topic = "ports" THEN SUBSET (START_PORT .. END_PORT - 1) ELSE {{}}
    /\ seed \in { srand48(v) : v \in IF topic = "seeds" THEN 0 .. LIMBS ^ 2 - 1 ELSE {0} }
    /\ port = 0 /\ calls = 0 /\ bound = 0 /\ drawn = [n |-> 0, first |-> seed]
InetNext ==
    \/ topic = "ports" /\ (bindresvport \/ OthersPorts)
    \/ topic = "seeds" /\ Draw
InetSpec == InetInit /\ [][InetNext]_inet_vars

----------------------------------------------------------------------------
CutText(mem) == SubSeq(mem, 1, (CHOOSE k \in DOMAIN mem : mem[k] = 0 /\ \A j \in 1 .. k - 1 : mem[j] # 0) - 1)

\* An address is read back from its text, which fits the 16 bytes inet_ntoa
\* has; with room for it inet_ntop gives the same text, with less than its
\* length none (one byte short, the text it gives has lost its end).
AddressText ==
    topic = "text" => \A a \in {inet_ntoa(addr)} : \A t \in {CutText(a.mem)} :
        /\ a.ret < 16
        /\ \A n \in 1 .. Len(t) : n = Len(t) \/ t[n] = Pr!Ch(".") =>
             inet_aton(Append(SubSeq(t, 1, n), 0)) = IF n = Len(t) THEN addr ELSE <<>>
        /\ \A len \in 1 .. 17 : \A r \in {inet_ntop(Dots, addr, len)} :
             /\ len > Len(t) => r # <<>> /\ CutText(r) = t
             /\ len < Len(t) => r = <<>>
        /\ inet_ntop(Colons, <<addr[1], 0, addr[2], 0, addr[3], 0, addr[4], 0>>, 40) # <<>>

\* bindresvport fails only when every reserved port is taken, and gives a
\* reserved port nobody had.
PortFound ==
    [][calls' # calls =>
         IF bound' = -1 THEN taken = START_PORT .. END_PORT - 1
         ELSE bound' \in (START_PORT .. END_PORT - 1) \ taken]_inet_vars

\* Every seed comes once before the first comes again; the numbers are in the
\* ranges of their types.
SeedsAll ==
    /\ drawn.n > 0 /\ seed = drawn.first => drawn.n = LIMBS ^ 3
    /\ mrand48(seed) \in -(LIMBS ^ 2 \div 2) .. (LIMBS ^ 2 \div 2) - 1
    /\ lrand48(seed) \in 0 .. (LIMBS ^ 2 \div 2) - 1

\* Every function on text does what it is for, for every short input: searching,
\* moving, cutting, comparing, copying, matching and sorting; reading numbers,
\* times and modes; formatting and scanning; addresses and seeds.
TextRight ==
  /\ SearchFinds /\ MovesKeep /\ SpansAgree /\ TokensAgree /\ OrderAgrees /\ CopiesFit
  /\ GlobMatches /\ SortsAndFinds /\ SwabSwaps
  /\ NumbersRead /\ LimitsKept /\ TimesRead /\ ModeTold
  /\ FormatsRight /\ KernelFormats
  /\ AddressText /\ SeedsAll
============================================================================
