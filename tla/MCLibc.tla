------------------------------- MODULE MCLibc -------------------------------
(***************************************************************************)
(* The C library and the configuration tool on small instances.  part says *)
(* which of the machines a behaviour is about; the others rest.            *)
(***************************************************************************)
EXTENDS CText, Heap, Stdio, Process, Arith, Konfig, Zalloc

VARIABLE part

MCWordChars == ToSet(Str("abc"))
MCUnits == {Str("a"), Str("b"), Str("*"), Str("[a-c]"), Str("[!a]"), Str("\\b")}
MCNumChars == ToSet(Str(" -0x129A."))

MCRanks == <<3, 4, 6, 6, 8>>
MCFlags == {Str("-"), Str("+"), Str("'"), Str(" "), Str("#"), Str("0")}
MCWidths == {Str("7"), Str("*")}
MCPrecs == {Str("."), Str(".4"), Str(".*")}
MCMods == {Str("hh"), Str("ll")}
MCConvs == {Str("d"), Str("u"), Str("o"), Str("x"), Str("X"), Str("p"), Str("s"), Str("c"), Str("n"), Str("%")}
MCInts == {0, 63, -128}

MCArgs == { Str(w) : w \in {"-a", "-b", "-bx", "x", "--", "-ca", "--all", "--name", "--name=x",
                            "--opt", "--all=x"} }
MCOptStrings == {Str("ab:"), Str(":ab:")}
LongOpt(name, has_arg, flag, val) == [name |-> Str(name), has_arg |-> has_arg, flag |-> flag, val |-> val]
MCLongOpts == <<LongOpt("all", 0, TRUE, 1), LongOpt("name", 1, FALSE, 300), LongOpt("opt", 2, FALSE, 301)>>

MCFile == <<97, 10, 98, 13, 97>>
MCTexts == {<<>>, <<97>>, <<97, 98, 99>>}

MCNames == {Str("A"), Str("AB")}
MCValues == {<<>>, Str("1")}
MCPuts == {Str("AB=2")}

MCPaths == {Str("/b:c/:"), Str("c"), Str("/bcde:c"), Str("/bc:c")}
MCProgram == Str("f")

MCFresh == {0, WILD}

Option(name, type, def, conflicts) == [name |-> name, type |-> type, def |-> def, conflicts |-> conflicts]
MCOptions ==
  << Option("dummy", "bool", <<"Y">>, <<"arm", "i386">>),
     Option("i386", "bool", <<"N">>, <<"arm", "dummy">>),
     Option("arm", "tristate", <<"N">>, <<"dummy", "i386">>),
     Option("fs", "bool", <<"Y">>, <<"dummy">>),
     Option("hz", "int", <<"1">>, <<>>), Option("dir", "string", <<"/">>, <<>>) >>
Line(name, val) == [name |-> name, val |-> val]
MCUserLines ==
  { Line("dummy", <<"Y">>), Line("dummy", <<"N">>), Line("i386", <<"Y", "e">>), Line("i386", <<"y">>),
    Line("i386", <<"M">>), Line("arm", <<"M">>), Line("fs", <<>>), Line("hz", <<"0", "7">>),
    Line("hz", <<"x">>), Line("dir", <<"=", "a">>), Line("what", <<"Y">>) }

----------------------------------------------------------------------------
MCInit ==
  /\ part \in {"words", "numerals", "formats", "heap", "getopt", "stdio",
              "env", "process", "sha1", "inet", "div", "konfig", "zalloc"}
  /\ WordsInit /\ NumeralsInit /\ FormatsInit /\ StdioInit /\ EnvInit /\ Sha1Init /\ KonfigInit
  /\ HeapInit /\ (part = "heap" \/ lim = 0)
  /\ IF part = "getopt" THEN GetoptInit
     ELSE /\ argv = <<>> /\ optstring = Str("ab:") /\ long = FALSE
          /\ started = FALSE /\ optind = 0 /\ optptr = NoArg /\ got = <<>> /\ from = 1
  /\ ProcessInit /\ (part = "process" \/ fds = [k \in 0 .. NFD - 1 |-> "none"])
  /\ InetInit /\ (part = "inet" \/ (topic = "ports" /\ taken = {}))
  /\ IF part = "div" THEN DivInit ELSE udivsi3(0, 0)
  /\ ZallocInit

first_vars == <<words_vars, numerals_vars, formats_vars, heap_vars, getopt_vars, stdio_vars>>
last_vars == <<env_vars, process_vars, sha1_vars, inet_vars, div_vars, konfig_vars, zalloc_vars>>
MCNext ==
  /\ UNCHANGED part
  /\ \/ /\ UNCHANGED last_vars
        /\ \/ part = "words" /\ WordsNext /\ UNCHANGED <<numerals_vars, formats_vars, heap_vars, getopt_vars, stdio_vars>>
           \/ part = "numerals" /\ NumeralsNext /\ UNCHANGED <<words_vars, formats_vars, heap_vars, getopt_vars, stdio_vars>>
           \/ part = "formats" /\ FormatsNext /\ UNCHANGED <<words_vars, numerals_vars, heap_vars, getopt_vars, stdio_vars>>
           \/ part = "heap" /\ HeapNext /\ UNCHANGED <<words_vars, numerals_vars, formats_vars, getopt_vars, stdio_vars>>
           \/ part = "getopt" /\ GetoptNext /\ UNCHANGED <<words_vars, numerals_vars, formats_vars, heap_vars, stdio_vars>>
           \/ part = "stdio" /\ StdioNext /\ UNCHANGED <<words_vars, numerals_vars, formats_vars, heap_vars, getopt_vars>>
     \/ /\ UNCHANGED first_vars
        /\ \/ part = "env" /\ EnvNext /\ UNCHANGED <<process_vars, sha1_vars, inet_vars, div_vars, konfig_vars, zalloc_vars>>
           \/ part = "process" /\ ProcessNext /\ UNCHANGED <<env_vars, sha1_vars, inet_vars, div_vars, konfig_vars, zalloc_vars>>
           \/ part = "sha1" /\ Sha1Next /\ UNCHANGED <<env_vars, process_vars, inet_vars, div_vars, konfig_vars, zalloc_vars>>
           \/ part = "inet" /\ InetNext /\ UNCHANGED <<env_vars, process_vars, sha1_vars, div_vars, konfig_vars, zalloc_vars>>
           \/ part = "div" /\ DivNext /\ UNCHANGED <<env_vars, process_vars, sha1_vars, inet_vars, konfig_vars, zalloc_vars>>
           \/ part = "konfig" /\ KonfigNext /\ UNCHANGED <<env_vars, process_vars, sha1_vars, inet_vars, div_vars, zalloc_vars>>
           \/ part = "zalloc" /\ ZallocNext /\ UNCHANGED <<env_vars, process_vars, sha1_vars, inet_vars, div_vars, konfig_vars>>

MCFair ==
  /\ WF_stdio_vars(part = "stdio" /\ ReadTurn) /\ WF_stdio_vars(part = "stdio" /\ WriteTurn)
  /\ WF_process_vars(part = "process" /\ TrySearch)
  /\ WF_div_vars(part = "div" /\ DivNext)
MCSpec == MCInit /\ [][MCNext]_<<part, first_vars, last_vars>> /\ MCFair

\* Numbers in loops: the division routines of libgcc and the digest of SHA1Final
\* are those of their definitions.
ArithmeticRight ==
  DigestRight /\ DigestReadable /\ DividesRight /\ LoopKeeps /\ DoubleWords

\* What a program asks of its library outside its own memory: options, streams,
\* exit functions and the search of PATH (getopt.c, fread.c, exit.c, execvpe.c) in
\* each state, environment, daemon and ports (__put_env.c, daemon.c,
\* bindresvport.c) in each step.
ProgramSound ==
  /\ [](/\ GetoptParses /\ ReadsInOrder /\ LinesRead /\ WritesTold
        /\ ExitOrder /\ SearchesPath)
  /\ SetsOne /\ DaemonQuiet /\ PortFound

\* What loops comes to its end: calls on streams, the search of PATH, division.
LoopsEnd == CallsReturn /\ SearchEnds /\ DivisionEnds
=============================================================================
