----------------------------- MODULE MCServices ------------------------------
(***************************************************************************)
(* What processes ask the kernel for, on small instances: memory, files,   *)
(* messages and sleep.  part, one of Parts, says which of them a behaviour *)
(* is about; the others rest.                                              *)
(***************************************************************************)
EXTENDS Slice, Galloc, MemArea, Files, Message, Timecore

CONSTANTS Parts, p1, p2, c1, u1, u2, f1, t1, t2, t3, msg1, msg2

VARIABLE part

MCArchive == << [path |-> [abs |-> FALSE, names |-> <<"init">>], mode |-> "REG",
                 dev |-> "NODEV", size |-> 2] >>
P(n) == [abs |-> TRUE, names |-> n]
MCPaths == { P(<<"init">>), P(<<"new">>), P(<<"dev", "pckbd">>), P(<<"dev", "new">>),
             P(<<"koowaldah", "srv", "p">>), P(<<"koowaldah", "proc", "x">>) }

\* A write to the text, reads between the areas, at the limit of the stack, near
\* it, at the end of the heap and at its limit.
MCAccesses ==
    {[addr |-> 0, write |-> TRUE]} \cup {[addr |-> a, write |-> FALSE] : a \in {5, 6, 9, 14, 15, 16}}

MCInit ==
    /\ part \in Parts
    /\ SliceInit /\ GallocInit /\ MemInit /\ FilesInit /\ DirInit /\ MsgInit /\ TimeInit
    /\ PagesInit /\ (part = "pages" \/ fsize = 1)
    /\ part = "files" \/ fdset = [t \in Threads |-> {}]
    /\ part = "slice" \/ pg = [c \in Callers |-> p1]

memory_vars == <<slice_vars, galloc_vars, mem_vars>>
fs_vars == <<file_vars, page_vars, dir_vars>>
sleep_vars == <<msg_vars, time_vars>>

\* A bug_on, a fault nobody serves and a descriptor too many stop the machine;
\* processes that all wait for messages leave it idle; bounds stop the
\* histories.
Stops == part # "slice" /\ UNCHANGED <<memory_vars, fs_vars, sleep_vars>>

MCNext ==
    /\ UNCHANGED part
    /\ \/ /\ UNCHANGED <<fs_vars, sleep_vars>>
          /\ \/ part = "slice" /\ SliceNext /\ UNCHANGED <<galloc_vars, mem_vars>>
             \/ part = "galloc" /\ GallocNext /\ UNCHANGED <<slice_vars, mem_vars>>
             \/ part = "areas" /\ MemNext /\ UNCHANGED <<slice_vars, galloc_vars>>
       \/ /\ UNCHANGED <<memory_vars, sleep_vars>>
          /\ \/ part = "files" /\ FilesNext /\ UNCHANGED <<page_vars, dir_vars>>
             \/ part = "pages" /\ PagesNext /\ UNCHANGED <<file_vars, dir_vars>>
             \/ part = "dirs" /\ DirNext /\ UNCHANGED <<file_vars, page_vars>>
       \/ /\ UNCHANGED <<memory_vars, fs_vars>>
          /\ \/ part = "messages" /\ MsgNext /\ UNCHANGED time_vars
             \/ part = "timers" /\ TimeNext /\ UNCHANGED msg_vars
       \/ Stops

MCSpec == MCInit /\ [][MCNext]_<<part, memory_vars, fs_vars, sleep_vars>>
=============================================================================
