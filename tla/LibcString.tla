---------------------------- MODULE LibcString ----------------------------
(***************************************************************************)
(* The string functions of usr/libc/string, the library before klibc, and  *)
(* of the kernel (kernel/lib), written as KlibcString is: a string is the  *)
(* sequence of its codes with the ending 0 and whatever lies in memory     *)
(* after it.                                                               *)
(***************************************************************************)
EXTENDS Chars

NULL == 0
Least(S, d) == IF S = {} THEN d ELSE Min(S)
PutAt(m, d, s) == [k \in DOMAIN m |-> IF k \in d .. d + Len(s) - 1 THEN s[k - d + 1] ELSE m[k]]
At(m, p) == SubSeq(m, p, Len(m))
\* The codes of a string, without its end.
Set(s) == { s[k] : k \in 1 .. Min({ i \in 1 .. Len(s) : s[i] = 0 }) - 1 }

\* The first code is not looked at: an empty string is as long as what follows.
strlen(s) == Min({ k \in 2 .. Len(s) : s[k] = 0 }) - 1
strchr(s, c) ==
  LET k == Min({ i \in 1 .. Len(s) : s[i] \in {0, c} }) IN IF s[k] = 0 THEN NULL ELSE k
memset(m, d, c, n) == PutAt(m, d, [k \in 1 .. n |-> c])
memccpy(m, d, s, c, n) ==
  LET k == Least({ i \in 1 .. n : s[i] = c }, NULL)
  IN  [mem |-> PutAt(m, d, SubSeq(s, 1, IF k = NULL THEN n ELSE k)), ret |-> IF k = NULL THEN NULL ELSE d + k]

\* After n equal codes the codes that follow are subtracted.
strncmp(a, b, n) == LET k == Least({ i \in 1 .. n : a[i] # b[i] }, n + 1) IN a[k] - b[k]
memcmp(a, b, n) == strncmp(a, b, n)
strcmp0(a, b) ==
  LET k == Min({ i \in 1 .. Min({Len(a), Len(b)}) : a[i] = 0 \/ b[i] = 0 \/ a[i] # b[i] }) IN a[k] - b[k]
strcmp(a, b) == IF strlen(a) = strlen(b) THEN strncmp(a, b, strlen(a)) ELSE strcmp0(a, b)
strcoll(a, b) == strcmp(a, b)

strspn(s, accept) == Min({ k \in 1 .. Len(s) : s[k] \notin Set(accept) }) - 1
strcspn(s, reject) == Min({ k \in 1 .. Len(s) : s[k] \in Set(reject) \cup {0} }) - 1
strpbrk(s, accept) ==
  LET k == strcspn(s, accept) + 1 IN IF s[k] # 0 THEN k ELSE NULL

\* The string up to the next delimiter becomes the token; the delimiter is
\* overwritten, what follows it is kept for the next call.
Cut(m, tok, delim) ==
  LET k == tok + strcspn(At(m, tok), delim)
  IN  IF m[k] = 0 THEN [mem |-> m, holder |-> NULL, tok |-> tok]
      ELSE [mem |-> [m EXCEPT ![k] = 0], holder |-> k + 1, tok |-> tok]
strsep(m, stringp, delim) ==
  IF stringp = NULL THEN [mem |-> m, holder |-> NULL, tok |-> NULL] ELSE Cut(m, stringp, delim)
strtok_r(m, lasts, delim) ==
  IF lasts = NULL THEN [mem |-> m, holder |-> NULL, tok |-> NULL]
  ELSE LET s == lasts + strspn(At(m, lasts), delim)
       IN  IF m[s] = 0 THEN [mem |-> m, holder |-> NULL, tok |-> NULL] ELSE Cut(m, s, delim)
strtok(m, lasts, delim) == strtok_r(m, lasts, delim)

strncat(m, d, s, n) ==
  LET l == Least({ i \in 1 .. Min({n, Len(s)}) : s[i] = 0 }, n + 1) - 1
      e == Min({ k \in d .. Len(m) : m[k] = 0 })
  IN  IF n = 0 THEN m ELSE PutAt(m, e, SubSeq(s, 1, l) \o <<0>>)
strxfrm(m, d, s, n) ==
  LET copysize == IF strlen(s) < n THEN strlen(s) ELSE n - 1
  IN  [mem |-> IF n = 0 THEN m ELSE PutAt(m, d, SubSeq(s, 1, copysize) \o <<0>>), ret |-> strlen(s)]
strdup(s) == SubSeq(s, 1, strlen(s) + 1)

\* swab does the pairs over a multiple of eight first, then eight at a time.
STEP(to, from, k) == [to EXCEPT ![k] = from[k + 1], ![k + 1] = from[k]]
RECURSIVE OddBytes(_, _, _, _), Eight(_, _, _, _)
OddBytes(to, from, k, len) ==
  IF (len - 1) % 8 = 0 THEN [to |-> to, k |-> k, len |-> len - 1]
  ELSE OddBytes(STEP(to, from, k), from, k + 2, len - 1)
Eight(to, from, k, n) == IF n = 0 THEN to ELSE Eight(STEP(to, from, k), from, k + 2, n - 1)
Pairs(len) == (len \div 2) + 1
swab(to, from, len) ==
  LET r == OddBytes(to, from, 1, Pairs(len)) IN Eight(r.to, from, r.k, 8 * (r.len \div 8))

----------------------------------------------------------------------------
\* strmode: a mode is the type of the file and the set of its bits.
Types == [dir |-> "d", chr |-> "c", blk |-> "b", reg |-> "-", lnk |-> "l", sock |-> "s", fifo |-> "p"]
Bit(mode, b, c) == IF b \in mode.bits THEN c ELSE "-"
Exec(mode, x, s, both, alone) ==
  CASE {x, s} \subseteq mode.bits -> both
    [] x \in mode.bits /\ s \notin mode.bits -> "x"
    [] x \notin mode.bits /\ s \in mode.bits -> alone
    [] {x, s} \cap mode.bits = {} -> "-"
strmode(mode) ==
  << IF mode.type \in DOMAIN Types THEN Types[mode.type] ELSE "?",
     Bit(mode, "RUSR", "r"), Bit(mode, "WUSR", "w"), Exec(mode, "XUSR", "SUID", "s", "S"),
     Bit(mode, "RGRP", "r"), Bit(mode, "WGRP", "w"), Exec(mode, "XGRP", "SGID", "s", "S"),
     Bit(mode, "ROTH", "r"), Bit(mode, "WOTH", "w"), Exec(mode, "XOTH", "SVTX", "t", "T"), " " >>

----------------------------------------------------------------------------
(***************************************************************************)
(* The kernel's own string and memory functions (kernel/lib/klib.c and     *)
(* include/lib.h), written as KlibcString is.                              *)
(***************************************************************************)

memory_set(m, d, c, n) == [k \in DOMAIN m |-> IF k \in d .. d + n - 1 THEN c ELSE m[k]]
RECURSIVE Bytes(_, _, _, _, _)
Bytes(m, d, s, i, to) ==
  LET m1 == [m EXCEPT ![d + i] = m[s + i]]
  IN  IF i = to THEN m1 ELSE Bytes(m1, d, s, IF i < to THEN i + 1 ELSE i - 1, to)
memory_copy(m, d, s, n) ==
  CASE n = 0 \/ d = s -> m
    [] n > 0 /\ d < s -> Bytes(m, d, s, 0, n - 1)
    [] n > 0 /\ d > s -> Bytes(m, d, s, n - 1, 0)

kstrlen(s) == Min({ k \in 2 .. Len(s) : s[k] = 0 }) - 1
kstrchr(s, c) ==
  LET k == Min({ i \in 1 .. Len(s) : s[i] \in {0, c} }) IN IF s[k] = 0 THEN 0 ELSE k
kstrrchr(s, c) ==
  LET k == Max({1} \cup { i \in 1 .. kstrlen(s) + 1 : s[i] = c }) IN IF s[k] = c THEN k ELSE 0
kstrncmp(a, b, n) ==
  LET D == { i \in 1 .. n : a[i] # b[i] }
      k == IF D = {} THEN n + 1 ELSE Min(D)
  IN  a[k] - b[k]
k__strcmp(a, b) ==
  LET k == Min({ i \in 1 .. Min({Len(a), Len(b)}) : a[i] = 0 \/ b[i] = 0 \/ a[i] # b[i] }) IN a[k] - b[k]
kstrcmp(a, b) == IF kstrlen(a) = kstrlen(b) THEN kstrncmp(a, b, kstrlen(a)) ELSE k__strcmp(a, b)
============================================================================
