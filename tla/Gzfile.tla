------------------------------ MODULE Gzfile ------------------------------
(***************************************************************************)
(* The .gz files of usr/klibc/zlib/gzio.c and the one-call functions of    *)
(* compress.c and uncompr.c, over deflate and inflate.  g is a gz_stream:  *)
(* s is its z_stream, file the bytes of the file and pos the place of the  *)
(* next fread.  When writing, the first kept bytes of s.out are in the     *)
(* file, the rest in outbuf.  fail = n means that the n-th fread, or the   *)
(* n-th of fwrite, fprintf and fputc, fails; a fread that does gives some  *)
(* of the bytes (those that read gave before it failed) in data, and sets  *)
(* errno, which gzio.c relies on (the system calls of usr/klibc never do:  *)
(* on them such a failure looks like the end of the file).  failed says    *)
(* that the library met such a failure in a place where it stops for it,   *)
(* or where it does not look.  Each call leaves its result in ret, and     *)
(* what it read in got.                                                    *)
(***************************************************************************)
EXTENDS Inflate

CONSTANTS Z_BUFSIZE, Z_PRINTF_BUFSIZE

EOF == -1
GZ(mode, file) ==
  [mode |-> mode, z_err |-> "Z_OK", z_eof |-> FALSE, file |-> file, pos |-> 0, kept |-> 0,
   fail |-> 0, some |-> 0, errno |-> FALSE, data |-> <<>>, failed |-> FALSE, crc |-> {}, transparent |-> FALSE, start |-> 0, in |-> 0, out |-> 0,
   back |-> EOF, last |-> FALSE, inbuf |-> FALSE, ret |-> 0, got |-> <<>>]

Result(g, ret) == [g EXCEPT !.ret = ret]
Err(g, err) == [g EXCEPT !.z_err = err]

Later(fail) == IF fail > 0 THEN fail - 1 ELSE 0

\* fread of klibc takes what the file still has.
fread(g, n) ==
  LET most == IF g.fail = 1 /\ g.some < n THEN g.some ELSE n
      b == SubSeq(g.file, g.pos + 1, Min({g.pos + most, Len(g.file)}))
  IN  [g EXCEPT !.pos = @ + Len(b), !.data = b, !.errno = g.fail = 1, !.fail = Later(@)]
Fed(g) == [g EXCEPT !.s.in = @ \o g.data]
More(g, n) == Fed(fread(g, n))

\* if (avail_in == 0 && errno) z_err = Z_ERRNO
ErrnoSeen(g) == IF g.errno THEN Err([g EXCEPT !.failed = TRUE], "Z_ERRNO") ELSE g

\* Write out outbuf.
fwrite(g) ==
  IF g.fail = 1 THEN Err([g EXCEPT !.fail = 0], "Z_ERRNO")
  ELSE [g EXCEPT !.file = @ \o SubSeq(g.s.out, g.kept + 1, Len(g.s.out)), !.kept = Len(g.s.out),
                 !.fail = Later(@), !.s.avail_out = Z_BUFSIZE]

\* fprintf and fputc, whose result nobody looks at.
fputs0(g, bytes) ==
  IF g.fail = 1 THEN [g EXCEPT !.fail = 0, !.failed = TRUE]
  ELSE [g EXCEPT !.file = @ \o bytes, !.fail = Later(@)]

----------------------------------------------------------------------------
\* A byte of input, EOF at the end of the file or when it cannot be read.
NextByte(g) ==
  IF g.s.in = <<>> THEN Result(ErrnoSeen([g EXCEPT !.z_eof = TRUE]), EOF)
  ELSE Result([g EXCEPT !.s.in = Tail(@)], Head(g.s.in))
get_byte(g) ==
  IF g.z_eof THEN Result(g, EOF)
  ELSE NextByte(IF g.s.in = <<>> THEN More(g, Z_BUFSIZE) ELSE g)

RECURSIVE Skip(_, _)
Skip(g, n) == IF n = 0 \/ g.z_eof THEN g ELSE Skip(get_byte(g), n - 1)

RECURSIVE SkipString(_)
SkipOn(g) == IF g.ret \in {0, EOF} THEN g ELSE SkipString(g)
SkipString(g) == SkipOn(get_byte(g))

SkipLength(g, low) == IF g.ret = EOF THEN g ELSE Skip(g, low + 256 * g.ret)
SkipLow(g) == SkipLength(get_byte(g), g.ret)
SkipExtra(g) == SkipLow(get_byte(g))

gz_magic == <<31, 139>>
DEF_HEADER == gz_magic \o <<8, 0, 0, 0, 0, 0, 0, 3>>

\* Two bytes to look at; without the magic the file is read as it is.
SkipText(g, flags, bit) == IF Odd(flags, bit) THEN SkipString(g) ELSE g
HeadEnd(g) == Err(g, IF g.z_eof THEN "Z_DATA_ERROR" ELSE "Z_OK")
HeadTexts(g, flags) == SkipText(SkipText(g, flags, 8), flags, 16)
HeadCrc0(g, flags) == HeadEnd(IF Odd(flags, 2) THEN Skip(g, 2) ELSE g)
HeadExtra(g, flags) == IF Odd(flags, 4) THEN SkipExtra(g) ELSE g
HeadFields(g, flags) == HeadCrc0(HeadTexts(HeadExtra(Skip(g, 6), flags), flags), flags)
HeadFlags(g, method) ==
  IF method # 8 \/ g.ret \notin 0 .. 31 THEN Err(g, "Z_DATA_ERROR") ELSE HeadFields(g, g.ret)
HeadMethod(g) == HeadFlags(get_byte(g), g.ret)
HeadMagic(g) ==
  IF Len(g.s.in) < 2 THEN [g EXCEPT !.transparent = Len(g.s.in) = 1, !.failed = @ \/ g.errno]
  ELSE IF SubSeq(g.s.in, 1, 2) # gz_magic THEN [g EXCEPT !.transparent = TRUE]
  ELSE HeadMethod(get_byte([g EXCEPT !.s = Take(@, 2)]))
HeadRead(g) == IF g.data = <<>> THEN ErrnoSeen(g) ELSE g
check_header(g) ==
  HeadMagic(IF Len(g.s.in) < 2
            THEN HeadRead(More(g, IF g.s.in = <<>> THEN Z_BUFSIZE ELSE Z_BUFSIZE \div 2)) ELSE g)

\* The 32 bits of four bytes, least significant first.
Word4(b) == UNION {{8 * (k - 1) + i : i \in Bits8(b[k])} : k \in 1 .. 4}
RECURSIVE LongFrom(_, _)
LongEnd(g, bytes) ==
  IF Len(bytes) < 4 THEN LongFrom(g, bytes)
  ELSE IF g.ret = EOF THEN Err(g, "Z_DATA_ERROR") ELSE Result(g, Word4(bytes))
LongByte(g, bytes) == LongEnd(g, Append(bytes, g.ret))
LongFrom(g, bytes) == LongByte(get_byte(g), bytes)
getLong(g) == LongFrom(g, <<>>)

Started(g) == [g EXCEPT !.start = g.pos - Len(g.s.in)]
gz_open_r(file, fail, some) ==
  Started(check_header([GZ("r", file) EXCEPT !.fail = fail, !.some = some]
                         @@ [s |-> inflateInit2(0, TRUE)]))

gz_open_w(level, strategy, garbage, fail) ==
  fputs0([GZ("w", <<>>) EXCEPT !.start = 10, !.fail = fail]
           @@ [s |-> [deflateInit2(level, 0, strategy, garbage) EXCEPT !.avail_out = Z_BUFSIZE]],
         DEF_HEADER)

----------------------------------------------------------------------------
\* gzread collects in got what it delivers.
Deliver(g, bytes) == [g EXCEPT !.got = @ \o bytes]

\* Nobody looks at errno here.
Copied(g) ==
  LET all == Len(g.got)
  IN  [g EXCEPT !.in = @ + all, !.out = @ + all, !.z_eof = @ \/ all = 0, !.ret = all]
CopyRead(g) == Copied(Deliver([g EXCEPT !.failed = @ \/ g.errno], g.data))
CopyMore(g, n) == IF n = 0 THEN Copied(g) ELSE CopyRead(fread(g, n))
ReadTransparent(g, len) ==
  LET n == Min({Len(g.s.in), len - Len(g.got)})
  IN  CopyMore(Deliver([g EXCEPT !.s.in = SubSeq(@, n + 1, Len(@))], SubSeq(g.s.in, 1, n)),
               len - Len(g.got) - n)

\* At the end of a member: its checksum and length, and perhaps another.
NextMember(g) ==
  IF g.z_err = "Z_OK" THEN [g EXCEPT !.s = inflateReset(g.s), !.crc = {}] ELSE g
MemberCrc(g, crc) ==
  IF g.ret # crc THEN Err(g, "Z_DATA_ERROR") ELSE NextMember(check_header(getLong(g)))
AfterMember(g) == IF g.z_err = "Z_STREAM_END" THEN MemberCrc(getLong(g), g.crc) ELSE g

\* One turn of gzread's loop.
InflatedTo(g, z) ==
  Deliver([g EXCEPT !.s = z, !.z_err = z.ret, !.in = @ + Len(g.s.in) - Len(z.in),
                    !.out = @ + Len(z.out), !.crc = crc32(@, z.out)], z.out)
InflateMore(g, len) ==
  AfterMember(InflatedTo([g EXCEPT !.z_eof = @ \/ g.s.in = <<>>],
                       inflate([g.s EXCEPT !.left = len - Len(g.got), !.out = <<>>], Z_NO_FLUSH)))
InflateRead(g, len) ==
  IF g.s.in = <<>> /\ g.errno THEN ErrnoSeen([g EXCEPT !.z_eof = TRUE]) ELSE InflateMore(g, len)
ReadTurn0(g, len) ==
  IF g.s.in = <<>> /\ ~ g.z_eof THEN InflateRead(More(g, Z_BUFSIZE), len) ELSE InflateMore(g, len)

RECURSIVE ReadLoop(_, _)
ReadOn(g, len) ==
  IF g.z_err = "Z_OK" /\ ~ g.z_eof THEN ReadLoop(g, len)
  ELSE Result(g, IF g.got = <<>> /\ g.z_err \in {"Z_DATA_ERROR", "Z_ERRNO"} THEN -1 ELSE Len(g.got))
ReadLoop(g, len) ==
  IF Len(g.got) = len THEN Result(g, len)
  ELSE IF g.transparent THEN ReadTransparent(g, len) ELSE ReadOn(ReadTurn0(g, len), len)

\* The byte pushed back comes first.
Pushed(g) == IF g.back = EOF THEN g
             ELSE [g EXCEPT !.back = EOF, !.out = @ + 1, !.got = <<g.back>>,
                            !.z_err = IF g.last THEN "Z_STREAM_END" ELSE @]
ReadFrom(g, len) ==
  IF g.z_err \in {"Z_DATA_ERROR", "Z_ERRNO"} THEN Result(g, -1)
  ELSE IF g.z_err = "Z_STREAM_END" THEN Result(g, 0)
  ELSE IF len # 0 /\ g.back # EOF /\ g.last THEN Result(Pushed(g), 1)
  ELSE ReadLoop(IF len = 0 THEN g ELSE Pushed(g), len)
gzread(g, len) == ReadFrom([g EXCEPT !.got = <<>>], len)

OneByte(g) == Result(g, IF g.ret = 1 THEN g.got[1] ELSE -1)
gzgetc(g) == OneByte(gzread(g, 1))

gzungetc(g, c) ==
  IF c = EOF \/ g.back # EOF THEN Result(g, EOF)
  ELSE LET last == g.z_err = "Z_STREAM_END"
       IN  [g EXCEPT !.back = c, !.out = @ - 1, !.last = last, !.z_eof = FALSE, !.ret = c,
                     !.z_err = IF last THEN "Z_OK" ELSE @]

Newline == 10
RECURSIVE Line(_, _, _)
LineByte(g, len, line) ==
  IF g.ret # 1 THEN [g EXCEPT !.got = line, !.ret = IF line = <<>> THEN 0 ELSE 1]
  ELSE Line(g, len - 1, Append(line, g.got[1]))
Line(g, len, line) ==
  IF len <= 1 \/ (line # <<>> /\ line[Len(line)] = Newline)
  THEN [g EXCEPT !.got = line, !.ret = 1] ELSE LineByte(gzread(g, 1), len, line)
gzgets(g, len) == Line(g, len, <<>>)

gzrewind(g) ==
  [g EXCEPT !.z_err = "Z_OK", !.z_eof = FALSE, !.back = EOF, !.crc = {}, !.in = 0, !.out = 0,
            !.s = IF g.transparent THEN [@ EXCEPT !.in = <<>>]
                  ELSE [inflateReset(@) EXCEPT !.in = <<>>],
            !.pos = g.start, !.ret = 0]

SEEK_SET == 0
SEEK_CUR == 1
SEEK_END == 2

RECURSIVE SeekOver(_, _)
SeekMore(g, offset) ==
  IF g.ret <= 0 THEN Result(g, -1) ELSE SeekOver(g, offset - g.ret)
SeekOver(g, offset) ==
  IF offset <= 0 THEN Result(g, g.out)
  ELSE SeekMore(gzread(g, IF offset < Z_BUFSIZE THEN offset ELSE Z_BUFSIZE), offset)

\* Mutant: the distance is taken from the start.
Rewound(g, offset) == IF offset >= g.out THEN g ELSE gzrewind(g)

\* Back to the beginning when the place is behind, then forward; the byte
\* pushed back is the first to skip.
SkipPushed(g, n) ==
  IF n = 0 \/ g.back = EOF THEN SeekOver(g, n)
  ELSE SeekOver([g EXCEPT !.back = EOF, !.out = @ + 1,
                          !.z_err = IF g.last THEN "Z_STREAM_END" ELSE @], n - 1)
SkipFrom(g, offset) == SkipPushed(g, offset - g.out)
SeekRead(g, offset) == SkipFrom(Rewound(g, offset), offset)

\* fseek beyond the end is allowed.
SeekTransparent(g, offset) ==
  [g EXCEPT !.back = EOF, !.s.in = <<>>, !.pos = offset, !.in = offset, !.out = offset,
            !.ret = offset]

----------------------------------------------------------------------------
\* deflate until the input is used up, writing outbuf whenever it is full.
RECURSIVE WriteLoop(_)
Deflated(g, d, err) ==
  Err([g EXCEPT !.s = d, !.in = @ + Len(g.s.in) - Len(d.in),
                !.out = @ + g.s.avail_out - d.avail_out], err)
WriteOn(g) == IF g.z_err # "Z_OK" THEN g ELSE WriteLoop(g)
WriteDeflated(g, d) == WriteOn(Deflated(g, d, d.ret))
WriteRoom(g) ==
  IF g.s.avail_out = 0 THEN g ELSE WriteDeflated(g, deflate(g.s, Z_NO_FLUSH))
WriteLoop(g) ==
  IF g.s.in = <<>> THEN g ELSE WriteRoom(IF g.s.avail_out = 0 THEN fwrite(g) ELSE g)

Summed0(g, bytes) == crc32(g.crc, bytes)

WroteOf(g, n) == Result(g, n - Len(g.s.in))
gzwrite(g, bytes) ==
  WroteOf([WriteLoop([g EXCEPT !.s.in = bytes]) EXCEPT !.crc = Summed0(g, bytes)], Len(bytes))

\* gzputs, gzputc and gzprintf end in gzwrite; what vsnprintf makes of the
\* arguments is the text, and gzputc returns the byte.
gzprintf_fits(text) == text # <<>> /\ Len(text) < Z_PRINTF_BUFSIZE
gzputc_ret(op, c, ret) == IF op # "putc" THEN ret ELSE IF ret = 1 THEN c ELSE -1
Put0(g, op, c) == Result(g, gzputc_ret(op, c, g.ret))
gzputs(g, op, text) ==
  IF op = "printf" /\ ~ gzprintf_fits(text) THEN Result(g, 0)
  ELSE Put0(gzwrite(g, text), op, text[1])

Adopt(g, d) == [g EXCEPT !.s = d, !.ret = d.ret]
SetParams(g, level, strategy) == Adopt(g, deflateParams(g.s, level, strategy))
gzsetparams(g, level, strategy) ==
  SetParams(IF g.s.avail_out = 0
            THEN [fwrite(g) EXCEPT !.s.avail_out = Z_BUFSIZE, !.kept = Len(g.s.out)] ELSE g,
            level, strategy)

\* Write out outbuf and deflate in turn; the second of two flushes is ignored.
RECURSIVE do_flush(_, _, _)
FlushErr(empty, ret) == IF empty /\ ret = "Z_BUF_ERROR" THEN "Z_OK" ELSE ret
FlushOn(g, flush) ==
  IF g.z_err \notin {"Z_OK", "Z_STREAM_END"} THEN Result(g, g.z_err)
  ELSE do_flush(g, flush, g.s.avail_out # 0 \/ g.z_err = "Z_STREAM_END")
FlushDeflated(g, d, flush, empty) == FlushOn(Deflated(g, d, FlushErr(empty, d.ret)), flush)
FlushTurn(g, kept, flush, done, empty) ==
  IF ~ empty /\ g.kept = kept THEN Result(g, "Z_ERRNO")
  ELSE IF done THEN Result(g, IF g.z_err = "Z_STREAM_END" THEN "Z_OK" ELSE g.z_err)
  ELSE FlushDeflated(g, deflate(g.s, flush), flush, empty)
do_flush(g, flush, done) ==
  LET empty == g.s.avail_out = Z_BUFSIZE
  IN  FlushTurn(IF empty THEN g ELSE fwrite(g), g.kept, flush, done, empty)

gzflush(g, flush) == do_flush([g EXCEPT !.s.in = <<>>], flush, FALSE)

LongBytes(word) == [k \in 1 .. 4 |-> ByteOf(word, k - 1)]
putLong(g, bytes) == FoldLeft(LAMBDA f, b : fputs0(f, <<b>>), g, bytes)

\* The result of closing is the last error; the file is left.
Destroy(g) == Result(g, IF g.z_err \in {"Z_OK", "Z_STREAM_END"} THEN "Z_OK" ELSE g.z_err)
CloseTrailer(g) ==
  Destroy(IF g.ret # "Z_OK" THEN g
          ELSE putLong(putLong(g, LongBytes(g.crc)), <<g.in % 256, g.in \div 256, 0, 0>>))
gzclose_w(g) == CloseTrailer(gzflush(g, Z_FINISH))
gzclose(g) == IF g.mode = "r" THEN Destroy(g) ELSE gzclose_w(g)

Zeros0(n) == [k \in 1 .. n |-> 0]
RECURSIVE SeekWrite(_, _)
SeekWrote(g, n) == IF g.ret = 0 THEN Result(g, -1) ELSE SeekWrite(g, n - g.ret)
SeekWrite(g, n) ==
  IF n = 0 THEN Result(g, g.in)
  ELSE SeekWrote(gzwrite(g, Zeros0(IF n < Z_BUFSIZE THEN n ELSE Z_BUFSIZE)), n)

\* gzseek of a writer fills up with zeros, of a reader it reads on or again.
SeekRefused(g, whence) == whence = SEEK_END \/ g.z_err \in {"Z_ERRNO", "Z_DATA_ERROR"}
gzseek_w(g, offset, whence) ==
  LET n == offset - (IF whence = SEEK_SET THEN g.in ELSE 0)
  IN  IF SeekRefused(g, whence) \/ n < 0 THEN Result(g, -1) ELSE SeekWrite(g, n)
gzseek_r(g, offset, whence) ==
  LET n == offset + (IF whence = SEEK_CUR THEN g.out ELSE 0)
  IN  IF SeekRefused(g, whence) \/ n < 0 THEN Result(g, -1)
      ELSE IF g.transparent THEN SeekTransparent(g, n) ELSE SeekRead(g, n)

gzeof(g) == g.mode = "r" /\ (g.z_eof \/ g.z_err = "Z_STREAM_END")
gzdirect(g) == g.mode = "r" /\ g.transparent
gzclearerr(g) == [g EXCEPT !.z_err = IF @ = "Z_STREAM_END" THEN @ ELSE "Z_OK", !.z_eof = FALSE]

----------------------------------------------------------------------------
\* compress.c and uncompr.c: the whole buffer in one call.
compressBound(sourceLen) == sourceLen + (sourceLen \div 4096) + (sourceLen \div 16384) + 11

Made(d) ==
  IF d.ret = "Z_STREAM_END" THEN [ret |-> "Z_OK", dest |-> d.out]
  ELSE [ret |-> IF d.ret = "Z_OK" THEN "Z_BUF_ERROR" ELSE d.ret, dest |-> <<>>]
compress2(source, destLen, level) ==
  Made(deflate([deflateInit2(level, 1, 0, 0) EXCEPT !.in = source, !.avail_out = destLen],
               Z_FINISH))

Unmade(z) ==
  [ret |-> IF z.ret = "Z_STREAM_END" THEN "Z_OK"
           ELSE IF z.ret = "Z_NEED_DICT" \/ (z.ret = "Z_BUF_ERROR" /\ z.in = <<>>)
           THEN "Z_DATA_ERROR" ELSE z.ret,
   dest |-> z.out]
uncompress(source, destLen) ==
  Unmade(inflate([inflateInit2(1, TRUE) EXCEPT !.in = source, !.left = destLen], Z_FINISH))

----------------------------------------------------------------------------
(***************************************************************************)
(* A program that writes a .gz file with the calls of Gzio and another     *)
(* that reads it, beside what the file stands for: text is the contents    *)
(* and at the place in it.  The calls of the writer are a script; one of   *)
(* its writes may fail, and one read of the reader.  told says that a call *)
(* reported an error.  When the file is closed it is used as it is         *)
(* ("one"), with a second member appended ("two"), followed by other bytes *)
(* ("tail"), without the end of its trailer ("short") or of its data       *)
(* ("cut"), or a file without the gzip magic is opened ("plain").  A file  *)
(* that lacks a byte of its trailer although no call said so is "unended"; *)
(* one that the writer knows to be bad, or that lacks its header, is not   *)
(* read.  The reader makes up to MaxReads calls; want is what the last one *)
(* should have returned and delivered, and ungot says that it pushed a     *)
(* byte back.                                                              *)
(***************************************************************************)

CONSTANTS
  Scripts,  \* [level, strategy, calls, media]
  Faults,   \* which write fails, 0 for none
  Stops,    \* <<n, k>>: the n-th fread of the reader fails after k bytes
  Lengths0, \* what gzread asks for
  Places,   \* where gzseek goes
  MaxReads,
  Sources   \* <<data, level>> for compress2

VARIABLES script, gpc, g, text, at, told, medium, want, reads, ungot, one
gz_vars == <<script, gpc, g, text, at, told, medium, want, reads, ungot, one>>

GzInit ==
  /\ script \in Scripts
  /\ gpc = 1
  /\ \E n \in Faults : g = gz_open_w(script.level, script.strategy, 0, n)
  /\ text = <<>>
  /\ at = 0
  /\ told = FALSE
  /\ medium = "none"
  /\ want = <<0, <<>>>>
  /\ reads = 0
  /\ ungot = FALSE
  /\ one = <<>>

Call0(c) ==
  CASE c.op \in {"write", "puts", "putc", "printf"} -> gzputs(g, c.op, c.data)
    [] c.op = "flush" -> gzflush(g, c.flush)
    [] c.op = "seek" -> gzseek_w(g, Len(c.data), SEEK_CUR)
    [] c.op = "params" -> gzsetparams(g, c.level, c.strategy)

\* What tells the caller that all went well.  A write that fails in gzsetparams
\* shows only in gzerror, and only until the next call: the writer asks at once.
Good(c, r) ==
  CASE c.op \in {"write", "puts", "printf"} -> r.ret = Len(c.data)
    [] c.op = "putc" -> r.ret = c.data[1]
    [] c.op = "seek" -> r.ret = Len(text) + Len(c.data)
    [] c.op = "params" -> r.ret = "Z_OK" /\ r.z_err = "Z_OK"
    [] OTHER -> r.ret = "Z_OK"

\* After an error the writer gives up and closes the file.
WriteCall ==
  /\ medium = "none" /\ ~ told /\ gpc <= Len(script.calls)
  /\ LET c == script.calls[gpc]
     IN  /\ g' = Call0(c)
         /\ told' = ~ Good(c, g')
         /\ text' = text \o c.data
  /\ gpc' = gpc + 1
  /\ UNCHANGED <<script, at, medium, want, reads, ungot, one>>

CloseWrite ==
  /\ medium = "none" /\ (told \/ gpc > Len(script.calls))
  /\ \E c \in {gzclose(g)}, stop \in Stops :
         /\ told' = (told \/ c.ret # "Z_OK")
         /\ \E m \in IF told' \/ g.failed THEN {"bad"}
                    ELSE IF c.failed THEN {"unended"} ELSE script.media :
              /\ medium' = m
              /\ text' = IF m = "two" THEN text \o text ELSE text
              /\ m \in {"bad", "unended", "short", "cut"} => stop[1] = 0
              /\ g' = gz_open_r(CASE m = "two" -> c.file \o c.file
                                  [] m = "tail" -> c.file \o <<7, 7>>
                                  [] m = "short" -> SubSeq(c.file, 1, Len(c.file) - 3)
                                  [] m = "cut" -> SubSeq(c.file, 1, Len(c.file) - 12)
                                  [] m = "plain" -> text
                                  [] OTHER -> c.file, stop[1], stop[2])
  /\ UNCHANGED <<script, gpc, at, want, reads, ungot, one>>

\* compress2 into a buffer of compressBound bytes or some fewer, then
\* uncompress of what it made, whole or cut, into one for the data or fewer.
Compress(source, level, less) ==
  /\ gpc = 1 /\ one = <<>> /\ medium = "none" /\ g.fail = 0 /\ ~ g.failed
  /\ one' = [source |-> source, less |-> less, cut |-> 0, fewer |-> 0, back |-> <<>>,
             made |-> compress2(source, compressBound(Len(source)) - less, level)]
  /\ gpc' = Len(script.calls) + 2
  /\ medium' = "bad"
  /\ UNCHANGED <<script, g, text, at, told, want, reads, ungot>>

Uncompress(cut, fewer) ==
  /\ one # <<>> /\ one.back = <<>> /\ one.made.ret = "Z_OK"
  /\ one' = [one EXCEPT !.cut = cut, !.fewer = fewer,
                        !.back = uncompress(SubSeq(one.made.dest, 1, Len(one.made.dest) - cut),
                                            Len(one.source) - fewer)]
  /\ UNCHANGED <<script, gpc, g, text, at, told, medium, want, reads, ungot>>

----------------------------------------------------------------------------
Broken == medium \in {"short", "cut", "unended"}

Reads ==
  /\ medium \notin {"none", "bad"}
  /\ reads < MaxReads
  /\ reads' = reads + 1
  /\ UNCHANGED <<script, gpc, text, told, medium, one>>

Upto(n) == IF n < Len(text) THEN n ELSE Len(text)
Part(n) == SubSeq(text, at + 1, Upto(at + n))

ReadSome(n) ==
  /\ Reads
  /\ g' = gzread(g, n)
  /\ want' = <<Len(Part(n)), Part(n)>>
  /\ at' = at + Len(g'.got)
  /\ UNCHANGED ungot

GetByte ==
  /\ Reads
  /\ g' = gzgetc(g)
  /\ want' = <<IF at < Len(text) THEN text[at + 1] ELSE -1, Part(1)>>
  /\ at' = at + Len(g'.got)
  /\ UNCHANGED ungot

\* The byte just read is pushed back.
UngetByte ==
  /\ Reads
  /\ at \in 1 .. Len(text) /\ g.back = EOF /\ ~ Broken
  /\ g' = gzungetc(g, text[at])
  /\ want' = <<text[at], g.got>>
  /\ at' = at - 1
  /\ ungot' = TRUE

GetLine(n) ==
  /\ Reads
  /\ ~ Broken
  /\ LET nl == {k \in at + 1 .. Len(text) : text[k] = Newline}
         to == Min({Upto(at + n - 1)} \cup nl)
     IN  /\ g' = gzgets(g, n)
         /\ want' = <<IF to <= at THEN 0 ELSE 1, SubSeq(text, at + 1, to)>>
         /\ at' = at + Len(g'.got)
  /\ UNCHANGED ungot

\* When the bytes behind the members have been seen the library takes the whole
\* file for a plain one: what it gives after going back then is not followed.
MayGoBack == medium = "tail" => ~ g.transparent

SeekTo(k) ==
  /\ Reads
  /\ k <= Len(text) /\ ~ Broken
  /\ MayGoBack \/ k >= at
  /\ g' = gzseek_r(g, k, SEEK_SET)
  /\ want' = <<k, g'.got>>
  /\ at' = IF g'.ret = -1 THEN g'.out ELSE k
  /\ UNCHANGED ungot

Rewind0 ==
  /\ Reads
  /\ MayGoBack /\ ~ Broken
  /\ g' = gzrewind(g)
  /\ want' = <<0, g.got>>
  /\ at' = 0
  /\ UNCHANGED ungot

GzNext ==
  \/ WriteCall
  \/ CloseWrite
  \/ \E c \in Sources, less \in 0 .. 2 : Compress(c[1], c[2], less)
  \/ \E cut, fewer \in 0 .. 2 : Uncompress(cut, fewer)
  \/ \E n \in Lengths0 : ReadSome(n)
  \/ GetByte
  \/ UngetByte
  \/ \E n \in Lengths0 : GetLine(n)
  \/ \E k \in Places : SeekTo(k)
  \/ Rewind0
----------------------------------------------------------------------------
\* The calls on a .gz file act on its uncompressed contents like those on a
\* plain file: a read gives the bytes at the place, after any reads, push-backs
\* and seeks, and also when a fread failed after it had given some bytes.  So
\* does gztell give the place, but not in a plain file after a push-back: gzread
\* counts the byte pushed back twice there.
GzReads ==
  reads > 0 /\ ~ Broken /\ ~ g.failed =>
     want = <<g.ret, g.got>> /\ (g.out = at \/ (medium = "plain" /\ ungot))

\* The end of the file is reported only when all was read (a plain file goes on
\* saying so after a seek), and no error is seen, when reading or by gzclose.
GzEnds ==
  reads > 0 /\ ~ Broken /\ ~ g.failed =>
     /\ gzeof(g) /\ medium # "plain" => at = Len(text)
     /\ Destroy(g).ret = "Z_OK"

\* A file without its end, be it that fputc failed in putLong and gzclose did not
\* say so, gives the beginning of the text; whoever reads on to its end learns of
\* the loss, if not from gzread then from gzclose.
GzLossTold ==
  reads > 0 /\ Broken =>
    /\ SubSeq(want[2], 1, Len(g.got)) = g.got
    /\ want[2] = <<>> \/ g.got # want[2] => Destroy(g).ret # "Z_OK"

\* When a fread has failed the reader gets the beginning of what it asked for, and
\* learns of it when there is less: but not when the file is, or is taken for, a
\* plain one, where gzread takes the failure for the end.
GzFailureTold ==
  reads > 0 /\ ~ Broken /\ g.failed /\ (g.transparent => medium = "plain") =>
    /\ SubSeq(want[2], 1, Len(g.got)) = g.got
    /\ g.got # want[2] /\ ~ g.transparent => Destroy(g).ret # "Z_OK"

\* A writer that was told of no error has written a file that holds its text:
\* the first member has its checksum and its length, when none of the writes that
\* gz_open and putLong do not look at (the header, the trailer) failed.
GzWritten ==
  medium \in {"one", "two"} /\ reads = 0 /\ g.fail = 0 /\ ~ g.failed =>
    \E r \in {gzread(g, Len(text) + 1)} :
       r.got = text /\ r.ret = Len(text) /\ r.z_err = "Z_STREAM_END"

\* compressBound bytes are room enough for compress2, and what it cannot fit
\* it reports; uncompress gives the data back, says Z_BUF_ERROR when the room
\* is too small for a whole stream and Z_DATA_ERROR when the end is missing.
BuffersTold ==
  one # <<>> =>
    /\ one.less = 0 => one.made.ret = "Z_OK"
    /\ one.made.ret \in {"Z_OK", "Z_BUF_ERROR"}
    /\ one.back # <<>> =>
         CASE one.cut = 0 /\ one.fewer = 0 -> one.back = [ret |-> "Z_OK", dest |-> one.source]
           [] one.cut = 0 /\ one.fewer > 0 -> one.back.ret = "Z_BUF_ERROR"
           [] one.cut > 0 /\ one.fewer = 0 -> one.back.ret = "Z_DATA_ERROR"
           [] OTHER -> one.back.ret \in {"Z_BUF_ERROR", "Z_DATA_ERROR"}

============================================================================
