---------------------------- MODULE KlibcString ----------------------------
(***************************************************************************)
(* The string and memory functions of klibc (usr/klibc/str*.c, mem*.c,     *)
(* fnmatch.c, qsort.c, bsearch.c).  A string is the sequence of its codes, *)
(* the ending 0 included; a pointer is an index, 0 is NULL; a function     *)
(* that writes is given the memory m and the place of its destination, and *)
(* returns the memory.  A loop that runs to the first place where its test *)
(* fails is that place.                                                    *)
(***************************************************************************)
EXTENDS Chars

NULL == 0
Least(S, d) == IF S = {} THEN d ELSE Min(S)
\* m with the codes of s from place d on.
Put(m, d, s) == [k \in DOMAIN m |-> IF k \in d .. d + Len(s) - 1 THEN s[k - d + 1] ELSE m[k]]
At(m, p) == SubSeq(m, p, Len(m))

----------------------------------------------------------------------------
strnlen(s, n) == Least({ k \in 0 .. n - 1 : s[k + 1] = 0 }, n)
strlen(s) == Min({ k \in 1 .. Len(s) : s[k] = 0 }) - 1
memchr(s, c, n) == Least({ k \in 1 .. n : s[k] = c }, NULL)
memrchr(s, c, n) == Max({NULL} \cup { k \in 1 .. n : s[k] = c })
strchr(s, c) == memchr(s, c, strlen(s) + 1)
strrchr(s, c) == memrchr(s, c, strlen(s))

\* The places where two strings can still be compared: up to n, and not
\* beyond the end of either.
Places(a, b, n) == 1 .. Min({n, Len(a), Len(b)})
memcmp(a, b, n) ==
  LET k == Least({ i \in 1 .. n : a[i] # b[i] }, NULL) IN IF k = NULL THEN 0 ELSE a[k] - b[k]
strncmp(a, b, n) ==
  LET k == Least({ i \in Places(a, b, n) : a[i] # b[i] \/ a[i] = 0 }, NULL)
  IN  IF k = NULL THEN 0 ELSE a[k] - b[k]
strcmp(a, b) == strncmp(a, b, Len(a))
Upper(s) == [k \in DOMAIN s |-> toupper(s[k])]
strncasecmp(a, b, n) == strncmp(Upper(a), Upper(b), n)
strcasecmp(a, b) == strcmp(Upper(a), Upper(b))

----------------------------------------------------------------------------
\* Mutant: the two skips are exchanged.
SkipsSwapped(x) == IF x[1] # x[2] THEN [miss |-> 2, hit |-> 1] ELSE [miss |-> 1, hit |-> 2]

\* memmem: at j, the second code of the needle is compared first; a miss there
\* skips k places, a hit that is no match l.
Skips(x) == IF x[1] = x[2] THEN [miss |-> 2, hit |-> 1] ELSE [miss |-> 1, hit |-> 2]
RECURSIVE Search(_, _, _, _, _)
Search(y, n, x, m, j) ==
  CASE j > n - m -> NULL
    [] j <= n - m /\ x[2] # y[j + 2] -> Search(y, n, x, m, j + Skips(x).miss)
    [] j <= n - m /\ x[2] = y[j + 2] ->
         IF x[1] = y[j + 1] /\ \A i \in 3 .. m : x[i] = y[j + i] THEN j + 1
         ELSE Search(y, n, x, m, j + Skips(x).hit)
memmem(y, n, x, m) ==
  CASE m > n \/ m = 0 \/ n = 0 -> NULL
    [] ~(m > n \/ m = 0 \/ n = 0) /\ m = 1 -> memchr(y, x[1], n)
    [] ~(m > n \/ m = 0 \/ n = 0) /\ m # 1 -> Search(y, n, x, m, 0)
strstr(a, b) == memmem(a, strlen(a), b, strlen(b))

----------------------------------------------------------------------------
\* Copies move a unit of w bytes at a time, upwards or downwards.
RECURSIVE Upwards(_, _, _, _, _), Downwards(_, _, _, _)
Upwards(m, d, s, n, w) ==
  IF n < w THEN m ELSE Upwards(Put(m, d, SubSeq(m, s, s + w - 1)), d + w, s + w, n - w, w)
Downwards(m, d, s, n) ==
  IF n = 0 THEN m ELSE Downwards([m EXCEPT ![d + n - 1] = m[s + n - 1]], d, s, n - 1)
memcpy(m, d, s, n) ==
  LET r == n - (n % 4) IN Upwards(Upwards(m, d, s, n, 4), d + r, s + r, n - r, 1)
\* Which way memmove goes.
Lower(d, s) == d < s
memmove(m, d, s, n) == IF Lower(d, s) THEN Upwards(m, d, s, n, 1) ELSE Downwards(m, d, s, n)
memset(m, d, c, n) == Put(m, d, [k \in 1 .. n |-> c])
memswap(m, p, q, n) == Put(Put(m, p, SubSeq(m, q, q + n - 1)), q, SubSeq(m, p, p + n - 1))
memccpy(m, d, s, c, n) ==
  LET k == memchr(s, c, n)
  IN  [mem |-> Put(m, d, SubSeq(s, 1, IF k = NULL THEN n ELSE k)), ret |-> IF k = NULL THEN NULL ELSE d + k]

strcpy(m, d, s) == Put(m, d, SubSeq(s, 1, strlen(s) + 1))
strcat(m, d, s) == strcpy(m, d + strlen(At(m, d)), s)
strncpy(m, d, s, n) ==
  LET k == strnlen(s, Min({n, Len(s)})) IN Put(m, d, SubSeq(s, 1, k) \o [i \in 1 .. n - k |-> 0])
strncat(m, d, s, n) ==
  Put(m, d + strlen(At(m, d)), SubSeq(s, 1, strnlen(s, Min({n, Len(s)}))) \o <<0>>)

\* How many of the l codes of a string fit before the ending 0, after b.
Fitting(l, b, size) == Max({0, Min({l, size - 1 - b})})
strlcpy(m, d, s, size) ==
  [mem |-> IF size = 0 THEN m ELSE Put(m, d, SubSeq(s, 1, Fitting(strlen(s), 0, size)) \o <<0>>),
   ret |-> strlen(s)]
strlcat(m, d, s, size) ==
  LET b == strnlen(At(m, d), size)
  IN  [mem |-> IF b = size THEN m
               ELSE Put(m, d + b, SubSeq(s, 1, Fitting(strlen(s), b, size)) \o <<0>>),
       ret |-> b + strlen(s)]

----------------------------------------------------------------------------
\* The map has a 1 for each code of map; that of the code 0 is the parity, so
\* that the span ends there.
Matchmap(map, parity) ==
  [c \in 0 .. 255 |-> IF c = 0 THEN parity ELSE IF \E k \in 1 .. strlen(map) : map[k] = c THEN 1 ELSE 0]
strxspn(s, map, parity) ==
  LET matchmap == Matchmap(map, parity)
  IN  Least({ k \in 1 .. Len(s) : matchmap[s[k]] = parity }, Len(s) + 1) - 1
strspn(s, accept) == strxspn(s, accept, 0)
strcspn(s, reject) == strxspn(s, reject, 1)
strpbrk(s, accept) ==
  LET k == strxspn(s, accept, 1) + 1 IN IF s[k] # 0 THEN k ELSE NULL

\* r = [mem, holder, tok]: the memory, what stringp points to, the result.
strsep(m, stringp, delim) ==
  IF stringp = NULL THEN [mem |-> m, holder |-> NULL, tok |-> NULL]
  ELSE LET k == strpbrk(At(m, stringp), delim)
           e == stringp + k - 1
       IN  IF k = NULL THEN [mem |-> m, holder |-> NULL, tok |-> stringp]
           ELSE [mem |-> [m EXCEPT ![e] = 0], holder |-> e + 1, tok |-> stringp]
\* Empty fields are skipped.
Skipped(r) == r.tok # NULL /\ r.mem[r.tok] = 0
RECURSIVE strtok(_, _, _)
strtok(m, holder, delim) ==
  LET r == strsep(m, holder, delim)
  IN  IF Skipped(r) THEN strtok(r.mem, r.holder, delim) ELSE r

\* The block strdup returns.
strdup(s) == SubSeq(s, 1, strlen(s) + 1)

----------------------------------------------------------------------------
\* fnmatch; TRUE is a match (the code returns 0).  F is the set of the flags.
\* A set of codes [...] is read item by item: the first item that accepts the
\* code ends it, a range x-y counts as one item.
Item(p, i, c, not) ==
  LET range == p[i + 1] = Ch("-")
      match == IF range THEN c >= p[i] /\ c <= p[i + 2] ELSE p[i] = c
  IN  [ok |-> match # not, next |-> IF range THEN i + 3 ELSE i + 1]
SetEnd(p, i) == Min({ k \in i .. Len(p) : p[k] \in {0, Ch("]")} })
RECURSIVE Items(_, _, _, _)
Items(p, i, c, not) ==
  IF p[i] \in {0, Ch("]")} THEN NULL
  ELSE LET it == Item(p, i, c, not)
       IN  IF it.ok /\ p[SetEnd(p, it.next)] = Ch("]") THEN SetEnd(p, it.next)
           ELSE Items(p, IF it.ok THEN SetEnd(p, it.next) ELSE it.next, c, not)
RECURSIVE Fnmatch(_, _, _, _, _)
Fnmatch(p, i, s, j, F) ==
  LET G == F \ {"PERIOD"}
      not == p[i] = Ch("[") /\ p[i + 1] = Ch("!")
      e == Items(p, IF not THEN i + 2 ELSE i + 1, s[j], not)
  IN  IF "PATHNAME" \in F /\ s[j] = Ch("/") THEN p[i] = Ch("/") /\ Fnmatch(p, i + 1, s, j + 1, F)
      ELSE IF "PERIOD" \in F /\ s[j] = Ch(".") THEN p[i] = Ch(".") /\ Fnmatch(p, i + 1, s, j + 1, F)
      ELSE IF "NOESCAPE" \notin F /\ p[i] = Ch("\\") THEN p[i + 1] = s[j] /\ Fnmatch(p, i + 2, s, j + 1, G)
      ELSE IF s[j] = 0 THEN p[Min({ k \in i .. Len(p) : p[k] # Ch("*") })] = 0
      ELSE CASE p[i] = Ch("[") -> e # NULL /\ Fnmatch(p, e + 1, s, j + 1, G)
             [] p[i] = Ch("*") -> Fnmatch(p, i, s, j + 1, G) \/ Fnmatch(p, i + 1, s, j, G)
             [] p[i] = 0 -> FALSE
             [] OTHER -> p[i] \in {s[j], Ch("?")} /\ Fnmatch(p, i + 1, s, j + 1, G)
fnmatch(p, s, F) == Fnmatch(p, 1, s, 1, F)

----------------------------------------------------------------------------
\* qsort is a comb sort; the elements are compared as numbers.
newgap(gap) ==
  LET g == (gap * 10) \div 13 IN IF g \in {9, 10} THEN 11 ELSE Max({g, 1})
RECURSIVE Pass(_, _, _), Comb(_, _)
\* One pass from place i on; the result tells whether anything was swapped.
Pass(a, i, gap) ==
  IF i > Len(a) - gap THEN a
  ELSE IF a[i] > a[i + gap] THEN Pass(memswap(a, i, i + gap, 1), i + 1, gap)
       ELSE Pass(a, i + 1, gap)
Comb(a, gap) ==
  LET g == newgap(gap)
      b == Pass(a, 1, g)
  IN  IF g > 1 \/ b # a THEN Comb(b, g) ELSE b
qsort(a) == Comb(a, Len(a))

\* Which half bsearch keeps: base and nmemb after looking at the middle.
Upper0(base, nmemb) == [base |-> base + (nmemb \div 2) + 1, nmemb |-> nmemb - (nmemb \div 2) - 1]
RECURSIVE bsearch(_, _, _, _)
bsearch(key, a, base, nmemb) ==
  LET mid == base + (nmemb \div 2)
      up == Upper0(base, nmemb)
  IN  CASE nmemb <= 0 -> NULL
        [] nmemb > 0 /\ a[mid] = key -> mid
        [] nmemb > 0 /\ key > a[mid] -> bsearch(key, a, up.base, up.nmemb)
        [] nmemb > 0 /\ key < a[mid] -> bsearch(key, a, base, nmemb \div 2)
============================================================================
