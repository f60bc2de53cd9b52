------------------------------- MODULE Stdio -------------------------------
(***************************************************************************)
(* Streams (usr/klibc/fopen.c, fread.c, fgetc.c, fgets.c, fwrite.c,        *)
(* fputs.c, vfprintf.c and stdio.h) on the kernel's open, read and write.  *)
(* A stream is its descriptor plus one and holds no data.  One step is one *)
(* call of the kernel, which may take or give fewer bytes than asked for,  *)
(* or answer -1.  No call sets errno: it is what the program has left in   *)
(* it.                                                                     *)
(*                                                                         *)
(* The library's read and write return what the kernel returns.  On a bad  *)
(* descriptor that is a negative number other than -1, and the loops of    *)
(* _fread and _fwrite count backwards and ask again: a call on a stream    *)
(* that is not open is left where it is.  Nor does a kernel here give more *)
(* than was asked for, as the keyboard does when asked for one byte.       *)
(***************************************************************************)
EXTENDS Chars, SequencesExt

CONSTANTS
    File,         \* the bytes of the file
    Texts,        \* what a program may write
    BUFFER_SIZE,  \* of vfprintf
    Counts,       \* how much a program may ask for
    ENOENT,       \* the kernel's error of a missing file
    MaxWrites     \* bound: writes

VARIABLES
    open,   \* the stream's descriptor is open
    stream, \* what fopen has returned: 0 is NULL
    pos,    \* bytes of the file the kernel has given
    call,   \* the library's call that has not returned
    in,     \* what the program has got
    ret,    \* the last fread or fgets: where it started, n, what it got, why it returned
    out,    \* the bytes the kernel has taken
    told    \* what each write was to write, and what the program was told

stdio_vars == <<open, stream, pos, call, in, ret, out, told>>

NL == {10, 13}
Idle == [fn |-> "none"]
NoRet == [fn |-> "none"]

StdioInit ==
    /\ open = FALSE /\ stream = 0 /\ pos = 0 /\ call = Idle /\ in = <<>>
    /\ ret = NoRet /\ out = <<>> /\ told = <<>>

create_file(fd) == fd + 1

\* Descriptor 3 is free; a file that is missing is an error.
fopen(missing) ==
    /\ stream = 0 /\ call = Idle
    /\ stream' = create_file(IF missing THEN -ENOENT ELSE 3)
    /\ open' = ~missing
    /\ UNCHANGED <<pos, call, in, ret, out, told>>

fclose ==
    /\ open /\ call = Idle /\ open' = FALSE
    /\ UNCHANGED <<stream, pos, call, in, ret, out, told>>

----------------------------------------------------------------------------
\* left is the count of the call of _fread that runs; fgets makes one for
\* every character.  eintr: errno is EINTR.
fread(count, eintr) ==
    /\ stream # 0 /\ call = Idle
    /\ call' = [fn |-> "fread", left |-> count, n |-> count, from |-> pos, got |-> <<>>, eintr |-> eintr]
    /\ UNCHANGED <<open, stream, pos, in, ret, out, told>>

ReturnRead(c, got, why) ==
    /\ ret' = [fn |-> c.fn, from |-> c.from, n |-> c.n, s |-> got, why |-> why]
    /\ call' = Idle

\* n stays what fgets was called with.
fgets(n, eintr) ==
    LET c == [fn |-> "fgets", left |-> 1, n |-> n, from |-> pos, got |-> <<>>, eintr |-> eintr]
    IN  /\ stream # 0 /\ call = Idle
        /\ IF n > 1 THEN call' = c /\ UNCHANGED ret ELSE ReturnRead(c, <<>>, "full")
        /\ UNCHANGED <<open, stream, pos, in, out, told>>

LineEnds(s, n) == n = 1 \/ s[Len(s)] \in NL

\* fgets has one character more; n - Len(got) is what room it has left.
More(got) ==
    IF LineEnds(got, call.n - Len(got)) THEN ReturnRead(call, got, "full")
    ELSE call' = [call EXCEPT !.got = got] /\ UNCHANGED ret

Advance(left, rv) == left - rv

\* The kernel gives rv bytes, of the count that is left.
ReadSome(rv) ==
    LET got == call.got \o SubSeq(File, pos + 1, pos + rv)
    IN  /\ call.fn \in {"fread", "fgets"} /\ open
        /\ rv <= call.left /\ pos + rv <= Len(File)
        /\ pos' = pos + rv /\ in' = in \o SubSeq(File, pos + 1, pos + rv)
        /\ CASE call.fn = "fgets" -> More(got)
             [] call.fn = "fread" ->
                  IF Advance(call.left, rv) = 0 THEN ReturnRead(call, got, "full")
                  ELSE call' = [call EXCEPT !.left = Advance(@, rv), !.got = got] /\ UNCHANGED ret
        /\ UNCHANGED <<open, stream, out, told>>

\* Mutant: the end of the file is not seen.
EofNever(p) == FALSE
Eof(p) == p = Len(File)

\* The end of the file: _fread returns what there is, fgets NULL.
ReadEnd ==
    /\ call.fn \in {"fread", "fgets"} /\ open /\ Eof(pos)
    /\ ReturnRead(call, call.got, "end")
    /\ UNCHANGED <<open, stream, pos, in, out, told>>

\* The kernel answers -1: the loop asks again if errno is EINTR and clears it,
\* and else ends as at the end of the file.
ReadFail ==
    /\ call.fn \in {"fread", "fgets"} /\ open
    /\ IF call.eintr THEN call' = [call EXCEPT !.eintr = FALSE] /\ UNCHANGED ret
       ELSE ReturnRead(call, call.got, "error")
    /\ UNCHANGED <<open, stream, pos, in, out, told>>

----------------------------------------------------------------------------
\* vfprintf formats into a buffer and writes what has fitted.
Clipped(rv) == IF rv > BUFFER_SIZE - 1 THEN BUFFER_SIZE - 1 ELSE rv

WriteOut(s, clip) ==
    LET rv == IF clip THEN Clipped(Len(s)) ELSE Len(s)
    IN  /\ stream # 0 /\ call = Idle /\ Len(told) < MaxWrites
        /\ IF rv = 0
           THEN told' = Append(told, [text |-> s, clip |-> clip, ret |-> 0]) /\ UNCHANGED call
           ELSE call' = [fn |-> "write", left |-> rv, n |-> 0, text |-> s, clip |-> clip] /\ UNCHANGED told
        /\ UNCHANGED <<open, stream, pos, in, ret, out>>
fputs(s) == WriteOut(s, FALSE)
vfprintf(s) == WriteOut(s, TRUE)

Return(n) == told' = Append(told, [text |-> call.text, clip |-> call.clip, ret |-> n]) /\ call' = Idle

WriteSome(rv) ==
    /\ call.fn = "write" /\ open /\ rv <= call.left
    /\ out' = out \o SubSeq(call.text, call.n + 1, call.n + rv)
    /\ IF call.left = rv THEN Return(call.n + rv)
       ELSE call' = [call EXCEPT !.left = @ - rv, !.n = @ + rv] /\ UNCHANGED told
    /\ UNCHANGED <<open, stream, pos, in, ret>>

\* A device that takes nothing, or answers -1, ends the loop.
WriteNone ==
    /\ call.fn = "write" /\ open /\ Return(call.n)
    /\ UNCHANGED <<open, stream, pos, in, ret, out>>

ReadTurn == ReadEnd \/ \E rv \in Counts : ReadSome(rv)
WriteTurn == WriteNone \/ \E rv \in Counts : WriteSome(rv)

StdioNext ==
    \/ \E missing \in BOOLEAN : fopen(missing)
    \/ fclose
    \/ \E n \in Counts, eintr \in BOOLEAN : fread(n, eintr) \/ fgets(n, eintr)
    \/ \E s \in Texts : fputs(s) \/ vfprintf(s)
    \/ ReadTurn \/ ReadFail \/ WriteTurn

\* A call of the kernel on an open descriptor returns; it need not ever fail.
StdioFair == WF_stdio_vars(ReadTurn) /\ WF_stdio_vars(WriteTurn)
StdioSpec == StdioInit /\ [][StdioNext]_stdio_vars /\ StdioFair

----------------------------------------------------------------------------
\* The program gets the bytes of the file in order, none twice and none left
\* out, whatever pieces the kernel gives _fread and whenever it fails; a call
\* takes no more than it was asked for, and fewer only when the file ends or the
\* kernel has failed.
ReadsInOrder ==
    /\ in = SubSeq(File, 1, pos)
    /\ call.fn = "fread" => Len(call.got) + call.left = call.n /\ call.got = SubSeq(File, call.from + 1, pos)
    /\ ret.fn = "fread" =>
         /\ ret.s = SubSeq(File, ret.from + 1, ret.from + Len(ret.s))
         /\ CASE ret.why = "full" -> Len(ret.s) = ret.n
              [] ret.why = "end" -> ret.from + Len(ret.s) = Len(File) /\ Len(ret.s) < ret.n
              [] ret.why = "error" -> Len(ret.s) < ret.n

\* fgets returns the file's next line with its end, or as much of it as fits;
\* NULL only when the file ends or the kernel fails before the line does.
LinesRead ==
    ret.fn = "fgets" =>
      LET rest == SubSeq(File, ret.from + 1, Len(File))
          len == Min({ret.n - 1} \cup { k \in DOMAIN rest : rest[k] \in NL })
      IN  CASE ret.why = "full" -> ret.s = SubSeq(rest, 1, len)
            [] ret.why = "end" -> Len(rest) < len /\ ret.s = rest
            [] ret.why = "error" -> Len(ret.s) < len /\ ret.s = SubSeq(rest, 1, Len(ret.s))

\* What a program is told is what the kernel has taken: the output is the
\* beginnings of the texts of the lengths returned, with no gap.
WritesTold ==
    LET Taken(w) == SubSeq(w.text, 1, w.ret)
        done == FlattenSeq([k \in DOMAIN told |-> Taken(told[k])])
    IN  /\ out = done \o (IF call.fn = "write" THEN SubSeq(call.text, 1, call.n) ELSE <<>>)
        /\ \A k \in DOMAIN told : told[k].clip => told[k].ret < BUFFER_SIZE

\* A call on an open stream returns.
CallsReturn == (call # Idle /\ open) ~> (call = Idle)
============================================================================
