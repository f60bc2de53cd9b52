------------------------------- MODULE Konfig -------------------------------
(***************************************************************************)
(* The configuration tool (konfig/): it takes the defaults, applies the    *)
(* lines of KONFIG, turns off what conflicts with an option that is on,    *)
(* and writes KONFIG, the header and the makefile again.  It may be        *)
(* stopped while it writes.  The questions of kuser.c are never asked      *)
(* (nointr is 1).                                                          *)
(*                                                                         *)
(* A value is the sequence of its characters.  The line that is read at    *)
(* the end of the file is uninitialized memory; it is taken to name no     *)
(* option.                                                                 *)
(***************************************************************************)
EXTENDS Integers, Sequences, SequencesExt

CONSTANTS
    Options,    \* the sequence of options: name, type, def, conflicts
    UserLines,  \* lines a user may write into KONFIG: [name, val]
    MaxLines    \* bound of the lines a user writes

VARIABLES
    KOPT,       \* values of the options
    asked,      \* history: the values before conflicts were looked at
    disk,       \* the three files
    kpc         \* "edit", "run", "open", "konfig", "header", "make" or "done"

konfig_vars == <<KOPT, asked, disk, kpc>>
Opt == DOMAIN Options

----------------------------------------------------------------------------
DecDigits == {"0", "1", "2", "3", "4", "5", "6", "7", "8", "9"}
\* atoi, and printing the number again: the leading digits without zeros.
LeadDigits(v) ==
    LET n == CHOOSE k \in 0 .. Len(v) : (\A j \in 1 .. k : v[j] \in DecDigits) /\ (k < Len(v) => v[k + 1] \notin DecDigits)
    IN  SubSeq(v, 1, n)
Atoi(v) ==
    LET d == LeadDigits(v)
        z == CHOOSE k \in 0 .. Len(d) : (\A j \in 1 .. k : d[j] = "0") /\ (k < Len(d) => d[k + 1] # "0")
    IN  IF z = Len(d) THEN <<"0">> ELSE SubSeq(d, z + 1, Len(d))

\* What an option of a type makes of a value.
Stored(type, v) ==
    CASE type \in {"bool", "tristate"} -> IF v = <<>> THEN <<>> ELSE <<v[1]>>
      [] type = "int" -> Atoi(v)
      [] type = "string" -> v
kopt_setval(K, name, val) ==
    LET i == SelectInSeq(Options, LAMBDA o : o.name = name)
    IN  IF i = 0 THEN K ELSE [K EXCEPT ![i] = Stored(Options[i].type, val)]

IsSet(i, K) == Options[i].type \in {"bool", "tristate"} /\ K[i] \in {<<"Y">>, <<"M">>}
kopt_isset(K, name) ==
    LET i == SelectInSeq(Options, LAMBDA o : o.name = name) IN i # 0 /\ IsSet(i, K)

init == [i \in Opt |-> Options[i].def]
RECURSIVE Applied(_, _)
Applied(K, lines) ==
    IF lines = <<>> THEN K ELSE Applied(kopt_setval(K, lines[1].name, lines[1].val), Tail(lines))
read_konfig(lines) == Applied(init, lines)

OffIfOn(K, name) == IF kopt_isset(K, name) THEN kopt_setval(K, name, <<"N">>) ELSE K
RECURSIVE TurnOff(_, _)
TurnOff(K, names) == IF names = <<>> THEN K ELSE TurnOff(OffIfOn(K, names[1]), Tail(names))

\* Mutant: only the first conflict.
ConflictsFirst(i) == SubSeq(Options[i].conflicts, 1, 1)

\* One option after another, if it is still on, turns off what it conflicts
\* with.
Conflicts(i) == Options[i].conflicts
RECURSIVE Processed(_, _)
Processed(K, i) ==
    IF i > Len(Options) THEN K
    ELSE Processed(IF kopt_isset(K, Options[i].name) THEN TurnOff(K, Conflicts(i)) ELSE K, i + 1)
process_konfig(K) == Processed(K, 1)

Outcome(lines) == process_konfig(read_konfig(lines))

----------------------------------------------------------------------------
kopt2konfig(i) == [name |-> Options[i].name, val |-> KOPT[i]]
kopt2make(i) == [name |-> Options[i].name, val |-> KOPT[i]]
Defined(i) ==
    CASE Options[i].type = "bool" -> KOPT[i] = <<"Y">>
      [] Options[i].type = "tristate" -> KOPT[i] \in {<<"Y">>, <<"M">>}
      [] OTHER -> TRUE
\* #define with a value, or #undef.
kopt2header(i) ==
    [name |-> Options[i].name, defined |-> Defined(i),
     val |-> IF Options[i].type \in {"int", "string"} THEN KOPT[i] ELSE <<>>]
EveryOption(line(_)) == [i \in Opt |-> line(i)]

KonfigInit ==
    /\ KOPT = init /\ asked = init /\ kpc = "edit"
    /\ disk = [konfig |-> <<>>, header |-> <<>>, make |-> <<>>]

\* The user writes KONFIG while the tool does not run.
Edit(lines) ==
    /\ kpc = "edit"
    /\ disk' = [disk EXCEPT !.konfig = lines] /\ kpc' = "run" /\ UNCHANGED <<KOPT, asked>>

main ==
    /\ kpc = "run"
    /\ asked' = read_konfig(disk.konfig) /\ KOPT' = Outcome(disk.konfig)
    /\ kpc' = "open" /\ UNCHANGED disk

\* The files are cut off when they are opened, and complete when they are
\* closed.
OpenFiles ==
    /\ kpc = "open"
    /\ disk' = [konfig |-> <<>>, header |-> <<>>, make |-> <<>>] /\ kpc' = "konfig"
    /\ UNCHANGED <<KOPT, asked>>
CloseFile(file, content, after) ==
    /\ kpc = file
    /\ disk' = [disk EXCEPT ![file] = content] /\ kpc' = after /\ UNCHANGED <<KOPT, asked>>
writeback ==
    \/ OpenFiles
    \/ CloseFile("konfig", EveryOption(kopt2konfig), "header")
    \/ CloseFile("header", EveryOption(kopt2header), "make")
    \/ CloseFile("make", EveryOption(kopt2make), "done")

\* The second or the third file cannot be opened: the tool exits, or faults on
\* the file it does not have, with the ones before cut off.
OpenFails ==
    /\ kpc = "open" /\ kpc' = "run"
    /\ \E made \in {{"konfig"}, {"konfig", "header"}} :
         disk' = [f \in DOMAIN disk |-> IF f \in made THEN <<>> ELSE disk[f]]
    /\ UNCHANGED <<KOPT, asked>>

\* The tool is stopped with a part of the file it writes on the disk, and is
\* run again.
Crash ==
    /\ kpc \in {"konfig", "header", "make"}
    /\ \E n \in 0 .. Len(Options) :
         disk' = [disk EXCEPT ![kpc] = SubSeq(CASE kpc = "konfig" -> EveryOption(kopt2konfig)
                                                [] kpc = "header" -> EveryOption(kopt2header)
                                                [] kpc = "make" -> EveryOption(kopt2make), 1, n)]
    /\ kpc' = "run" /\ UNCHANGED <<KOPT, asked>>

KonfigNext ==
    \/ \E n \in 0 .. MaxLines : \E lines \in [1 .. n -> UserLines] : Edit(lines)
    \/ main \/ writeback \/ OpenFails \/ Crash
KonfigSpec == KonfigInit /\ [][KonfigNext]_konfig_vars

----------------------------------------------------------------------------
\* Of two options that conflict at most one is on in the files that are
\* written, whatever the order of the options and whoever names the other.
NoConflicts ==
    kpc = "done" =>
      \A i \in Opt, j \in Opt : IsSet(i, KOPT) /\ IsSet(j, KOPT) /\ i # j =>
        ~Contains(Options[i].conflicts, Options[j].name)

\* The tool run on its own output changes nothing, and its three files agree:
\* an option is defined for the compiler when make sees it on.  (A bool given
\* "M" is the exception: it turns conflicting options off and is not defined.)
RunAgainSame ==
    kpc = "done" =>
      /\ Outcome(disk.konfig) = KOPT
      /\ \A i \in Opt : Options[i].type = "tristate" \/ (Options[i].type = "bool" /\ KOPT[i] # <<"M">>) =>
           (disk.header[i].defined <=> kopt_isset(Outcome(disk.make), Options[i].name))

\* An option the user's lines or the default turned on is off at the end only
\* when one that was on as well names it as a conflict; everything else keeps
\* the value asked for.
OnlyConflictsChange ==
    kpc = "done" =>
      \A i \in Opt : KOPT[i] # asked[i] =>
        /\ IsSet(i, asked) /\ KOPT[i] = <<"N">>
        /\ \E j \in Opt : IsSet(j, asked) /\ Contains(Options[j].conflicts, Options[i].name)

\* The tool's outcome (konfigure.c): no conflict is left, nothing is changed
\* that no conflict asks for, and its output is its own fixed point.
KonfigSound == NoConflicts /\ RunAgainSame /\ OnlyConflictsChange
=============================================================================
