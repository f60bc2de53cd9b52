-------------------------------- MODULE Alarm --------------------------------
(***************************************************************************)
(* What tsleep promises: a thread that asks to sleep for d ticks is woken  *)
(* by a timer tick, and not before d ticks have passed since it asked.     *)
(***************************************************************************)
EXTENDS Naturals

CONSTANTS
    Sleepers,
    Delays,    \* arguments of tsleep
    MaxAge     \* ages are counted up to this bound

VARIABLES
    sleeping,  \* threads that sleep
    age,       \* ticks since the thread went to sleep
    delay      \* what it asked for

\* A thread that sleeps knows how long it has slept.
TypeOK ==
    /\ sleeping \subseteq Sleepers
    /\ age \in [Sleepers -> 0..MaxAge]
    /\ delay \in [Sleepers -> Delays \cup {0}]

Init ==
    /\ sleeping = {}
    /\ age = [t \in Sleepers |-> 0]
    /\ delay = [t \in Sleepers |-> 0]

Sleep(t, d) ==
    /\ t \notin sleeping
    /\ sleeping' = sleeping \cup {t}
    /\ age' = [age EXCEPT ![t] = 0]
    /\ delay' = [delay EXCEPT ![t] = d]

Aged == [t \in Sleepers |-> IF t \in sleeping /\ age[t] < MaxAge THEN age[t] + 1 ELSE age[t]]

\* A tick; the threads W are woken by it.
Tick(W) ==
    /\ \A t \in W : age[t] >= delay[t]
    /\ sleeping' = sleeping \ W
    /\ age' = Aged
    /\ UNCHANGED delay

Next ==
    \/ \E t \in Sleepers, d \in Delays : Sleep(t, d)
    \/ \E W \in SUBSET sleeping : Tick(W)

Spec == Init /\ [][Next]_<<sleeping, age, delay>>
=============================================================================
