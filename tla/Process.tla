------------------------------ MODULE Process ------------------------------
(***************************************************************************)
(* The life of a program (usr/klibc/libc_init.c, onexit.c, exit.c,         *)
(* execvpe.c, daemon.c): its start, what it registers to be run at its end,*)
(* becoming a daemon, looking for another program along PATH, and its end. *)
(***************************************************************************)
EXTENDS Chars, SequencesExt

CONSTANTS
    Handlers,   \* functions a program may register with on_exit
    Registers,  \* those of them that register another one when they run
    Exits,      \* those that call exit
    NFD,        \* descriptors
    Paths,      \* what PATH may be
    ExecName,   \* the program looked for: its name
    PATH_MAX,
    MaxList,    \* bound: registered functions
    MaxDepth    \* bound: calls of exit in one another

VARIABLES
    life,          \* "starting", "running", "searching", "exiting", "gone"
    fds,           \* what each descriptor leads to
    atexit_list,   \* the newest first
    exits,         \* the calls of exit, the innermost last: what is left to run
    ran,           \* what has run
    search         \* execvpe: what is left of PATH, what it tried, with the answers

process_vars == <<life, fds, atexit_list, exits, ran, search>>

Colon == Ch(":")
Slash == Ch("/")
None == [rest |-> <<>>, tried |-> <<>>, result |-> "none", path |-> <<>>]

\* The elements of a path, between its colons.
RECURSIVE Split(_)
Split(s) ==
    LET c == { k \in DOMAIN s : s[k] = Colon }
    IN  IF c = {} THEN <<s>> ELSE <<SubSeq(s, 1, Min(c) - 1)>> \o Split(SubSeq(s, Min(c) + 1, Len(s)))

Joined(prefix) ==
    IF prefix = <<>> \/ prefix[Len(prefix)] = Slash THEN prefix \o ExecName ELSE prefix \o <<Slash>> \o ExecName
Answers == {"runs", "ENOENT", "ENOEXEC"}   \* of execve

ProcessInit ==
    /\ life = "starting" /\ fds \in [0 .. NFD - 1 -> {"none", "other"}]
    /\ atexit_list = <<>> /\ exits = <<>> /\ ran = <<>> /\ search = None

----------------------------------------------------------------------------
Free(f) == { k \in DOMAIN f : f[k] = "none" }
Opened(f, what) == IF Free(f) = {} THEN f ELSE [f EXCEPT ![Min(Free(f))] = what]

libc_init ==
    LET closed == [k \in DOMAIN fds |-> IF k \in 0 .. 2 THEN "none" ELSE fds[k]]
    IN  /\ life = "starting" /\ life' = "running"
        /\ fds' = Opened(Opened(Opened(closed, "serial"), "serial"), "serial")
        /\ atexit_list' = <<"debug_exit">>
        /\ UNCHANGED <<exits, ran, search>>

\* malloc may fail.
on_exit(h) == atexit_list' = <<h>> \o atexit_list
Register(h) ==
    /\ life = "running" /\ Len(atexit_list) < MaxList
    /\ on_exit(h) \/ UNCHANGED atexit_list
    /\ UNCHANGED <<life, fds, exits, ran, search>>

close(fd) ==
    /\ life = "running" /\ fds[fd] # "none" /\ fds' = [fds EXCEPT ![fd] = "none"]
    /\ UNCHANGED <<life, atexit_list, exits, ran, search>>

\* /dev/null is opened, made all three standard descriptors, and closed.  The
\* parent ends without running anything; the child goes on (once only here).
\* Without a free descriptor daemon fails and changes nothing.
CloseNull(f, nullfd) == [f EXCEPT ![nullfd] = "none"]
daemon ==
    LET nullfd == Min(Free(fds))
        dup2 == [k \in DOMAIN fds |-> IF k \in 0 .. 2 \cup {nullfd} THEN "null" ELSE fds[k]]
    IN  /\ life = "running" /\ Free(fds) # {} /\ "null" \notin Range(fds)
        /\ fds' = CloseNull(dup2, nullfd)
        /\ UNCHANGED <<life, atexit_list, exits, ran, search>>

----------------------------------------------------------------------------
\* The search tries the first element of what is left of PATH.  One that is too long is not
\* tried, and is looked at again: only the last one ends the search.
execvpe(path) ==
    /\ life = "running" /\ search = None
    /\ life' = "searching" /\ search' = [None EXCEPT !.rest = path, !.path = path]
    /\ UNCHANGED <<fds, atexit_list, exits, ran>>

Stops(errno) == errno = "ENOEXEC"

After(rest) ==
    LET c == { k \in DOMAIN rest : rest[k] = Colon }
    IN  IF c = {} THEN <<>> ELSE SubSeq(rest, Min(c) + 1, Len(rest))
TooLong(path) == Len(path) >= PATH_MAX
Leave(tried, r) == life' = "running" /\ search' = [search EXCEPT !.result = r, !.tried = tried]

TrySearch ==
    LET path == Joined(Split(search.rest)[1])
        esp == \E k \in DOMAIN search.rest : search.rest[k] = Colon
    IN  /\ life = "searching"
        /\ \/ /\ TooLong(path)
              /\ IF esp THEN UNCHANGED <<life, search>> ELSE Leave(search.tried, "failed")
           \/ /\ ~TooLong(path)
              /\ \E answer \in Answers :
                   LET tried == Append(search.tried, <<path, answer>>) IN
                   \/ answer = "runs" /\ life' = "gone" /\ search' = [search EXCEPT !.result = "runs", !.tried = tried]
                   \/ answer # "runs" /\ (Stops(answer) \/ ~esp) /\ Leave(tried, "failed")
                   \/ /\ answer # "runs" /\ ~Stops(answer) /\ esp
                      /\ search' = [search EXCEPT !.rest = After(@), !.tried = tried] /\ UNCHANGED life
        /\ UNCHANGED <<fds, atexit_list, exits, ran>>

----------------------------------------------------------------------------
\* A call of exit runs the list as it is then.
exit ==
    /\ life = "running" /\ life' = "exiting" /\ exits' = <<atexit_list>>
    /\ UNCHANGED <<fds, atexit_list, ran, search>>

RunHandler ==
    LET todo == exits[Len(exits)]
        h == Head(todo)
        here == [exits EXCEPT ![Len(exits)] = Tail(todo)]
    IN  /\ life = "exiting" /\ todo # <<>>
        /\ ran' = Append(ran, h)
        /\ \/ h \in Registers /\ Len(atexit_list) < MaxList
              /\ on_exit("late") /\ exits' = here
           \/ h \in Exits /\ Len(exits) < MaxDepth
              /\ exits' = Append(here, atexit_list) /\ UNCHANGED atexit_list
           \/ h \notin Registers \cup Exits
              /\ exits' = here /\ UNCHANGED atexit_list
        /\ UNCHANGED <<life, fds, search>>

\* The innermost exit ends the program.
sys_exit ==
    /\ life = "exiting" /\ exits[Len(exits)] = <<>> /\ life' = "gone"
    /\ UNCHANGED <<fds, atexit_list, exits, ran, search>>

ProcessNext ==
    \/ libc_init \/ daemon \/ TrySearch \/ exit \/ RunHandler \/ sys_exit
    \/ \E h \in Handlers : Register(h)
    \/ \E fd \in 0 .. 2 : close(fd)
    \/ \E path \in Paths : execvpe(path)
ProcessSpec == ProcessInit /\ [][ProcessNext]_process_vars /\ WF_process_vars(TrySearch)

----------------------------------------------------------------------------
\* exit runs each function registered before it once, the newest first; one
\* that a function registers is not run any more.  (A function that calls exit
\* has the list run again from its newest element.)
ExitOrder ==
    life \in {"exiting", "gone"} /\ Len(exits) = 1 =>
      LET late == Len(SelectSeq(atexit_list, LAMBDA h : h = "late"))
          all == SubSeq(atexit_list, late + 1, Len(atexit_list))
      IN  /\ ran \o exits[1] = all
          /\ all[Len(all)] = "debug_exit"

\* A program that is a daemon and had its three standard descriptors open has
\* them on /dev/null, and no descriptor more than it had.
DaemonQuiet ==
    [][fds' # fds /\ "null" \in Range(fds') /\ (\A k \in 0 .. 2 : fds[k] # "none" /\ fds[k] # "null") =>
         /\ \A k \in 0 .. 2 : fds'[k] = "null"
         /\ \A k \in DOMAIN fds \ (0 .. 2) : fds'[k] = fds[k]]_process_vars

\* execvpe runs the first program along PATH that can be run, if no program
\* before it is one that ends the search; it tries nothing out of order.
SearchesPath ==
    LET dirs == Split(search.path)
        tries == SelectSeq([k \in DOMAIN dirs |-> Joined(dirs[k])], LAMBDA p : Len(p) < PATH_MAX)
        n == Len(search.tried)
        Answer(k) == search.tried[k][2]
    IN  search # None =>
          /\ n <= Len(tries) /\ \A k \in 1 .. n : search.tried[k][1] = tries[k]
          /\ \A k \in 1 .. n - 1 : Answer(k) = "ENOENT"
          /\ search.result = "runs" <=> n > 0 /\ Answer(n) = "runs"
          /\ search.result = "failed" /\ n < Len(tries) => n > 0 /\ Answer(n) = "ENOEXEC"

\* A search along a PATH whose elements are all short enough ends.
SearchEnds ==
    (life = "searching" /\ \A k \in DOMAIN Split(search.path) : Len(Joined(Split(search.path)[k])) < PATH_MAX)
      ~> (life # "searching")

----------------------------------------------------------------------------
(***************************************************************************)
(* The environment (usr/klibc/setenv.c, putenv.c, __put_env.c, unsetenv.c, *)
(* clearenv.c, getenv.c).  environ is NULL when a program starts: the      *)
(* array that __put_env would then use is itself a null pointer, and the   *)
(* program faults.  clearenv points environ at a static array of one       *)
(* element, its NULL; an array of the heap takes its place at the next     *)
(* setenv, unless the size kept from an earlier one says there is room:    *)
(* __put_env then writes two elements to the array of one.  Both are       *)
(* "undefined" here, and a behaviour ends there.                           *)
(***************************************************************************)

CONSTANTS
    Names, Values,  \* strings
    Puts,           \* what a program may pass to putenv
    MORE,           \* elements a new array has to spare
    MaxVars         \* bound: variables

VARIABLES
    environ,       \* "NULL", "static" (__null_environ), "heap"; "undefined"
    strings,       \* what the array of the heap holds
    environ_size,
    env_op         \* the operation that was last

env_vars == <<environ, strings, environ_size, env_op>>

Equals == Ch("=")
Env == IF environ = "heap" THEN strings ELSE <<>>

EnvInit ==
    /\ environ = "NULL" /\ strings = <<>> /\ environ_size = 0 /\ env_op = [fn |-> "none"]

----------------------------------------------------------------------------
Starts(q, str, len) == len <= Len(q) /\ SubSeq(q, 1, len) = SubSeq(str, 1, len)

NameMatches(env, str, len) == { k \in DOMAIN env : Starts(env[k], str, len) }

EnvRoom(n) == n < environ_size
\* Elements the array environ leads to has, for what it holds and its NULL.
Elements == IF environ = "heap" THEN environ_size ELSE 1

\* malloc may fail.
put_env(str, len, overwrite) ==
    LET n == Len(Env) + 1
        same == NameMatches(Env, str, len)
    IN  \/ /\ environ = "NULL" \/ (same = {} /\ EnvRoom(n) /\ n + 1 > Elements)
           /\ environ' = "undefined" /\ UNCHANGED <<strings, environ_size>>
        \/ /\ environ # "NULL" /\ same # {}
           /\ strings' = IF overwrite THEN [strings EXCEPT ![Min(same)] = str] ELSE strings
           /\ UNCHANGED <<environ, environ_size>>
        \/ /\ environ # "NULL" /\ same = {} /\ EnvRoom(n) /\ n + 1 <= Elements
           /\ strings' = Append(strings, str)
           /\ UNCHANGED <<environ, environ_size>>
        \/ /\ environ # "NULL" /\ same = {} /\ ~EnvRoom(n)
           /\ strings' = Append(Env, str)
           /\ environ' = "heap" /\ environ_size' = n + MORE

NoMemory == UNCHANGED <<environ, strings, environ_size>>

setenv(name, val, overwrite) ==
    /\ environ # "undefined" /\ Len(Env) < MaxVars
    /\ \/ /\ put_env(name \o <<Equals>> \o val, Len(name) + 1, overwrite)
          /\ env_op' = [fn |-> "set", name |-> name, val |-> val, over |-> overwrite]
       \/ NoMemory /\ env_op' = [fn |-> "failed"]

\* The key of putenv goes up to the last equals sign, without it.
putenv(str) ==
    /\ environ # "undefined" /\ Len(Env) < MaxVars
    /\ \/ /\ put_env(str, Max({ k \in DOMAIN str : str[k] = Equals }) - 1, TRUE)
          /\ env_op' = [fn |-> "put", name |-> SubSeq(str, 1, Min({ k \in DOMAIN str : str[k] = Equals }) - 1)]
       \/ NoMemory /\ env_op' = [fn |-> "failed"]

Named(env, name) == { k \in DOMAIN env : Starts(env[k], name \o <<Equals>>, Len(name) + 1) }

unsetenv(name) ==
    LET p == Min(Named(Env, name))
    IN  /\ environ # "undefined"
        /\ strings' = IF Named(Env, name) = {} THEN strings
                      ELSE SubSeq(strings, 1, p - 1) \o SubSeq(strings, p + 1, Len(strings))
        /\ env_op' = [fn |-> "unset", name |-> name]
        /\ UNCHANGED <<environ, environ_size>>

clearenv ==
    /\ environ # "undefined"
    /\ environ' = "static" /\ env_op' = [fn |-> "clear"] /\ UNCHANGED <<strings, environ_size>>

getenv(env, name) ==
    IF Named(env, name) = {} THEN <<0>>
    ELSE LET q == env[Min(Named(env, name))] IN SubSeq(q, Len(name) + 2, Len(q))

EnvNext ==
    \/ \E name \in Names, val \in Values, over \in BOOLEAN : setenv(name, val, over)
    \/ \E str \in Puts : putenv(str)
    \/ \E name \in Names : unsetenv(name)
    \/ clearenv
EnvSpec == EnvInit /\ [][EnvNext]_env_vars

----------------------------------------------------------------------------
Get(name) == IF environ = "undefined" THEN <<0>> ELSE getenv(Env, name)

\* setenv and unsetenv change the variable of their name and no other, also one
\* whose name begins with it, whether the array has room or is copied
\* (__put_env.c, unsetenv.c), as long as no variable is set before the first
\* clearenv or after a later one: those writes are undefined.
SetsOne ==
    [][environ' # "undefined" /\ env_op'.fn \in {"set", "unset"} =>
         \A name \in Names :
           Get(name)' = IF name # env_op'.name THEN Get(name)
                        ELSE IF env_op'.fn = "unset" THEN <<0>>
                        ELSE IF env_op'.over \/ Get(name) = <<0>> THEN env_op'.val ELSE Get(name)]_env_vars

----------------------------------------------------------------------------
(***************************************************************************)
(* The options of a program's arguments (usr/klibc/getopt.c and            *)
(* getopt_long.c).  Both keep optind and a pointer into the word they are  *)
(* in between two calls, and start again when they see other arguments.    *)
(*                                                                         *)
(* The words of argv lie apart in memory, so that a pointer is a word and  *)
(* an offset: the difference the code takes is out of a word's length      *)
(* exactly when the pointer is in another word or past this word's end.    *)
(* argv[0] is left out.                                                    *)
(***************************************************************************)

CONSTANTS
    Words,       \* what an argument may be
    MaxArgs,     \* bound: arguments of a program
    OptStrings,  \* what a program may give as optstring
    LongOpts     \* its long options, in order: [name, has_arg, flag, val]

VARIABLES
    argv, optstring, long,  \* what the program passes; long: to getopt_long
    started,                \* the last call was of this program's query
    optind, optptr,
    got,                    \* what the calls of this query have returned
    from                    \* the argument this query has started from

getopt_vars == <<argv, optstring, long, started, optind, optptr, got, from>>

NoArg == <<0, 0>>
NoOption == <<>>     \* optarg is left as it was; opt is what optopt is set to, 0 if it is not

----------------------------------------------------------------------------
Known(opt) == opt # Ch(":") /\ \E k \in DOMAIN optstring : optstring[k] = opt
TakesArg(opt) == \E k \in DOMAIN optstring : optstring[k] = opt /\ k < Len(optstring) /\ optstring[k + 1] = Ch(":")

\* Mutant: an argument is always started afresh.
ResumeNever(p, ind, carg) == TRUE
\* The pointer is not in this word: someone has changed optind.
Resume(p, ind, carg) == p[1] # ind \/ p[2] > Len(carg) + 1

\* A letter of the word carg, at optind.
ShortOption(ind, p, carg) ==
    LET q == IF Resume(p, ind, carg) THEN <<ind, 2>> ELSE p
        opt == carg[q[2]]
        rest == SubSeq(carg, q[2] + 1, Len(carg))
        after == <<ind, q[2] + 1>>
        Step(ret, arg, n) == [ret |-> ret, arg |-> arg, opt |-> IF Known(opt) THEN 0 ELSE opt,
                              optind |-> ind + n, optptr |-> after]
    IN  CASE Known(opt) /\ TakesArg(opt) /\ rest # <<>> -> Step(opt, rest, 1)
          [] Known(opt) /\ TakesArg(opt) /\ rest = <<>> /\ ind < Len(argv) -> Step(opt, argv[ind + 1], 2)
          [] Known(opt) /\ TakesArg(opt) /\ rest = <<>> /\ ind >= Len(argv) ->
               Step(IF optstring[1] = Ch(":") THEN Ch(":") ELSE Ch("?"), NoOption, 1)
          [] Known(opt) /\ ~TakesArg(opt) -> Step(opt, NoOption, IF rest = <<>> THEN 1 ELSE 0)
          [] ~Known(opt) -> Step(Ch("?"), NoOption, IF rest = <<>> THEN 1 ELSE 0)

End(ind, p) == [ret |-> -1, arg |-> NoOption, opt |-> 0, optind |-> ind, optptr |-> p]

IsOperand(ind) == ind > Len(argv) \/ argv[ind][1] # Ch("-") \/ Len(argv[ind]) = 1
IsDashes(w) == w = <<Ch("-"), Ch("-")>>

getopt(ind, p) ==
    CASE IsOperand(ind) -> End(ind, p)
      [] ~IsOperand(ind) /\ IsDashes(argv[ind]) -> End(ind + 1, p)
      [] ~IsOperand(ind) /\ ~IsDashes(argv[ind]) -> ShortOption(ind, p, argv[ind])

----------------------------------------------------------------------------
\* Where the name in arg_str ends, if it is opt_name; otherwise 0.
option_matches(arg_str, opt_name) ==
    LET e == Min({ k \in 1 .. Len(arg_str) + 1 : k = Len(arg_str) + 1 \/ arg_str[k] = Ch("=") })
    IN  IF SubSeq(arg_str, 1, e - 1) = opt_name THEN e ELSE 0

LongOption(ind, p, name) ==
    LET los == { i \in DOMAIN LongOpts : option_matches(name, LongOpts[i].name) # 0 }
        lo == LongOpts[Min(los)]
        e == option_matches(name, lo.name)
        Step(ret, arg, n) == [ret |-> ret, arg |-> arg, opt |-> 0, optind |-> ind + n, optptr |-> p]
        val == IF lo.flag THEN 0 ELSE lo.val
    IN  IF los = {} THEN Step(Ch("?"), NoOption, 1)
        ELSE IF e <= Len(name)
        THEN IF lo.has_arg = 0 THEN Step(Ch("?"), NoOption, 1)
             ELSE Step(val, SubSeq(name, e + 1, Len(name)), 1)
        ELSE IF lo.has_arg # 1 THEN Step(val, NoOption, 1)
        ELSE IF ind < Len(argv) THEN Step(val, argv[ind + 1], 2) ELSE Step(Ch("?"), NoOption, 1)

getopt_long(ind, p) ==
    CASE IsOperand(ind) -> End(ind, p)
      [] ~IsOperand(ind) /\ IsDashes(argv[ind]) -> End(ind + 1, p)
      [] ~IsOperand(ind) /\ ~IsDashes(argv[ind]) ->
           IF argv[ind][2] = Ch("-") THEN LongOption(ind, p, SubSeq(argv[ind], 3, Len(argv[ind])))
           ELSE ShortOption(ind, p, argv[ind])

----------------------------------------------------------------------------
GetoptInit ==
    /\ argv \in UNION { [1 .. n -> Words] : n \in 0 .. MaxArgs }
    /\ optstring \in OptStrings /\ long \in BOOLEAN
    /\ started = FALSE /\ optind = 0 /\ optptr = NoArg /\ got = <<>> /\ from = 1

\* Other arguments than the last time, or an optind out of them: start again.
Afresh(ind) == ~started \/ ind < 1 \/ ind > Len(argv) + 1

Done == got # <<>> /\ got[Len(got)].ret = -1

Call ==
    LET ind == IF Afresh(optind) THEN 1 ELSE optind
        p == IF Afresh(optind) THEN NoArg ELSE optptr
        r == IF long THEN getopt_long(ind, p) ELSE getopt(ind, p)
    IN  /\ ~Done
        /\ started' = TRUE /\ optind' = r.optind /\ optptr' = r.optptr
        /\ got' = Append(IF Afresh(optind) THEN <<>> ELSE got,
                         [ret |-> r.ret, arg |-> r.arg, opt |-> r.opt])
        /\ from' = IF Afresh(optind) THEN 1 ELSE from
        /\ UNCHANGED <<argv, optstring, long>>

\* A program may step over an operand, or start again with optind 0.
Skip ==
    /\ Done /\ optind <= Len(argv)
    /\ optind' = optind + 1 /\ from' = optind + 1 /\ got' = <<>>
    /\ UNCHANGED <<argv, optstring, long, started, optptr>>
Restart ==
    /\ got # <<>>
    /\ optind' = 0 /\ got' = <<>>
    /\ UNCHANGED <<argv, optstring, long, started, optptr, from>>

\* Another part of the program asks for the options of its own arguments.
Elsewhere ==
    /\ started /\ got # <<>>
    /\ started' = FALSE /\ optind' = 2 /\ optptr' = <<MaxArgs + 1, 3>> /\ got' = <<>>
    /\ UNCHANGED <<argv, optstring, long, from>>

GetoptNext == Call \/ Skip \/ Restart \/ Elsewhere
GetoptSpec == GetoptInit /\ [][GetoptNext]_getopt_vars

----------------------------------------------------------------------------
\* What the arguments from the k-th on mean: the options in order, and where
\* the operands start.
Result(ret, arg, opt) == [ret |-> ret, arg |-> arg, opt |-> opt]
RECURSIVE Meaning(_)
Then(rs, m) == [options |-> rs \o m.options, operands |-> m.operands]
Meaning(k) ==
  IF k > Len(argv) \/ argv[k][1] # Ch("-") \/ Len(argv[k]) = 1 THEN [options |-> <<>>, operands |-> k]
  ELSE LET w == argv[k]
           eq == Min({ i \in 1 .. Len(w) + 1 : i = Len(w) + 1 \/ w[i] = Ch("=") })
           lo == { i \in DOMAIN LongOpts : LongOpts[i].name = SubSeq(w, 3, eq - 1) }
           o == LongOpts[CHOOSE i \in lo : TRUE]
           val == IF o.flag THEN 0 ELSE o.val
           cut == Min({ i \in 2 .. Len(w) + 1 : i = Len(w) + 1 \/ (Known(w[i]) /\ TakesArg(w[i])) })
           letters == [i \in 1 .. cut - 2 |->
                         IF Known(w[i + 1]) THEN Result(w[i + 1], NoOption, 0) ELSE Result(Ch("?"), NoOption, w[i + 1])]
           bad == <<Result(Ch("?"), NoOption, 0)>>
       IN  CASE w = <<Ch("-"), Ch("-")>> -> [options |-> <<>>, operands |-> k + 1]
             [] Len(w) > 2 /\ w[2] = Ch("-") /\ long ->
                  CASE lo = {} -> Then(bad, Meaning(k + 1))
                    [] lo # {} /\ eq <= Len(w) ->
                         Then(IF o.has_arg = 0 THEN bad ELSE <<Result(val, SubSeq(w, eq + 1, Len(w)), 0)>>, Meaning(k + 1))
                    [] lo # {} /\ eq > Len(w) /\ (o.has_arg # 1 \/ k = Len(argv)) ->
                         Then(IF o.has_arg = 1 THEN bad ELSE <<Result(val, NoOption, 0)>>, Meaning(k + 1))
                    [] OTHER -> Then(<<Result(val, argv[k + 1], 0)>>, Meaning(k + 2))
             [] ~(w[2] = Ch("-") /\ (Len(w) = 2 \/ long)) ->
                  CASE cut > Len(w) -> Then(letters, Meaning(k + 1))
                    [] cut < Len(w) -> Then(letters \o <<Result(w[cut], SubSeq(w, cut + 1, Len(w)), 0)>>, Meaning(k + 1))
                    [] cut = Len(w) /\ k < Len(argv) -> Then(letters \o <<Result(w[cut], argv[k + 1], 0)>>, Meaning(k + 2))
                    [] OTHER -> Then(letters \o <<IF optstring[1] = Ch(":") THEN Result(Ch(":"), NoOption, 0)
                                                  ELSE Result(Ch("?"), NoOption, 0)>>, Meaning(k + 1))

\* The calls of a query return the options the arguments mean, in order, each
\* with its own argument; the last leaves optind at the first operand.  This
\* holds however a program has stepped over operands, started again or had its
\* query cut by another one.
GetoptParses ==
    LET m == Meaning(from)
    IN  /\ ~Done => got = SubSeq(m.options, 1, Len(got))
        /\ Done => SubSeq(got, 1, Len(got) - 1) = m.options /\ optind = m.operands
============================================================================
