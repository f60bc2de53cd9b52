------------------------------- MODULE Chars -------------------------------
(***************************************************************************)
(* Characters and their classes (usr/klibc/ctypes.c, usr/include/ctype.h). *)
(* A character is its code.  Ch and Str give the codes of what is written  *)
(* between quotes; 0 ends a string in memory.                              *)
(***************************************************************************)
EXTENDS Integers, Sequences, FiniteSets, FiniteSetsExt

\* The code 96 cannot be written; its place is held.
Ascii == " !\"#$%&'()*+,-./0123456789:;<=>?@ABCDEFGHIJKLMNOPQRSTUVWXYZ[\\]^_\nabcdefghijklmnopqrstuvwxyz{|}~"
Code == [c \in { SubSeq(Ascii, k, k) : k \in 1 .. Len(Ascii) } \ {"\n"} |->
           31 + CHOOSE k \in 1 .. Len(Ascii) : SubSeq(Ascii, k, k) = c]
Ch(c) == Code[c]
Str(s) == [k \in 1 .. Len(s) |-> Code[SubSeq(s, k, k)]]

----------------------------------------------------------------------------
upper == (65 .. 90) \cup (192 .. 214) \cup (216 .. 222)
lower == (97 .. 122) \cup (223 .. 246) \cup (248 .. 255)
digit == 48 .. 57
xdigit == digit \cup (65 .. 70) \cup (97 .. 102)
space == (8 .. 13) \cup {32, 160}
print == (32 .. 126) \cup (160 .. 255)
punct == (33 .. 47) \cup (58 .. 64) \cup (91 .. 96) \cup (123 .. 126) \cup (161 .. 191) \cup {215, 247}
cntrl == (0 .. 31) \cup (127 .. 159)

\* The classes of a character; EOF is in none.
ctypes(c) ==
  { class \in {"upper", "lower", "digit", "xdigit", "space", "print", "punct", "cntrl"} :
      c \in CASE class = "upper" -> upper [] class = "lower" -> lower
              [] class = "digit" -> digit [] class = "xdigit" -> xdigit
              [] class = "space" -> space [] class = "print" -> print
              [] class = "punct" -> punct [] class = "cntrl" -> cntrl }

isalpha(c) == c \in upper \cup lower
isalnum(c) == c \in upper \cup lower \cup digit
isgraph(c) == c \in upper \cup lower \cup digit \cup punct
isdigit(c) == c - 48 \in 0 .. 9
isspace(c) == c \in space
islower(c) == c \in lower
isupper(c) == c \in upper

Bit5(c) == (c \div 32) % 2
_toupper(c) == c - 32 * Bit5(c)
_tolower(c) == c + 32 * (1 - Bit5(c))
toupper(c) == IF islower(c) THEN _toupper(c) ELSE c
tolower(c) == IF isupper(c) THEN _tolower(c) ELSE c
============================================================================
