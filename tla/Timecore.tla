------------------------------ MODULE Timecore -------------------------------
(***************************************************************************)
(* Sleeping for a time (kernel/timecore.c).                                *)
(*                                                                         *)
(* future is a list of intervals, each with the ticks left after the one   *)
(* before it has expired and the threads to wake.  tsleep works on it with *)
(* interrupts off and update_timers runs in the timer interrupt, so each   *)
(* is one step; scheduler_dequeue and scheduler_enqueue are modelled in    *)
(* Sched0, here a thread sleeps while it is on a wake_list.  The kernel is *)
(* built with DEBUG_SPINLOCKS: taking a lock that is not free stops it.    *)
(***************************************************************************)
EXTENDS Integers, Sequences

CONSTANTS
    Sleepers,
    Delays,      \* arguments of tsleep
    MaxAge,      \* bound of the ages the properties speak of
    PoolFails    \* may slice_alloc return NULL

VARIABLES
    future,       \* intervals: ticks_left and wake_list
    future_lock,  \* the counter of the spinlock
    age, delay    \* history: ticks since tsleep was called, and its argument

time_vars == <<future, future_lock, age, delay>>

Intervals == DOMAIN future
Sleeping == UNION {future[k].wake_list : k \in Intervals}

A == INSTANCE Alarm WITH sleeping <- Sleeping

ASSUME TimerAssumption ==
    MaxAge \in Nat /\ Delays \subseteq 0..(MaxAge - 1) /\ PoolFails \in BOOLEAN

\* The state has its shape: no interval counts below 0.
TimeTypeOK ==
    /\ future \in Seq([ticks_left : 0..MaxAge, wake_list : SUBSET Sleepers])
    /\ future_lock \in 0..1
    /\ age \in [Sleepers -> 0..MaxAge]
    /\ delay \in [Sleepers -> Delays \cup {0}]

\* timers_init
TimeInit ==
    /\ future = <<>>
    /\ future_lock = 0
    /\ age = [t \in Sleepers |-> 0]
    /\ delay = [t \in Sleepers |-> 0]

-----------------------------------------------------------------------------
(* tsleep *)

\* Ticks until the end of each interval of a list, not counting the ones its
\* predecessors expire on.
Ends(s) ==
    LET sum[k \in 0..Len(s)] == IF k = 0 THEN 0 ELSE sum[k - 1] + s[k].ticks_left IN sum

Through(k) == Ends(future)[k]

\* The loop passes the intervals that end before d and stops at k.
StopsAt(k, d) == \A j \in 1..(k - 1) : Through(j) < d

Interval(n, t) == [ticks_left |-> n, wake_list |-> {t}]

\* klist0_prepend on the k-th interval: e goes before it.
Inserted(s, k, e) == SubSeq(s, 1, k - 1) \o <<e>> \o SubSeq(s, k, Len(s))

GoesToSleep(t, d) ==
    /\ age' = [age EXCEPT ![t] = 0]
    /\ delay' = [delay EXCEPT ![t] = d]
    /\ UNCHANGED future_lock

\* A new interval goes before k, whose ticks now count from the new one.
TSleepSplit(t, d, k) ==
    /\ future_lock = 0 /\ t \notin Sleeping
    /\ k \in Intervals /\ StopsAt(k, d)
    /\ LET left == d - Through(k - 1) IN
       /\ left < future[k].ticks_left
       /\ future' = Inserted([future EXCEPT ![k].ticks_left = @ - left],
                             k, Interval(left, t))
    /\ GoesToSleep(t, d)

\* The thread joins the interval k.
TSleepJoin(t, d, k) ==
    /\ future_lock = 0 /\ t \notin Sleeping
    /\ k \in Intervals /\ StopsAt(k, d)
    /\ d - Through(k - 1) = future[k].ticks_left
    /\ future' = [future EXCEPT ![k].wake_list = @ \cup {t}]
    /\ GoesToSleep(t, d)

\* Mutant: the full delay is stored instead of what is left of it.
LastFullDelay(t, d) ==
    /\ future_lock = 0 /\ t \notin Sleeping
    /\ StopsAt(Len(future) + 1, d)
    /\ future' = Append(future, Interval(d, t))
    /\ GoesToSleep(t, d)

\* A new interval goes to the end.
TSleepLast(t, d) ==
    /\ future_lock = 0 /\ t \notin Sleeping
    /\ StopsAt(Len(future) + 1, d)
    /\ future' = Append(future, Interval(d - Through(Len(future)), t))
    /\ GoesToSleep(t, d)

(***************************************************************************)
(* slice_alloc returns NULL and tsleep returns -ENOMEM, without the        *)
(* spin_unlock_irqrestore; the ticks of the interval are already reduced.  *)
(***************************************************************************)
TSleepNoMem(t, d, k) ==
    /\ PoolFails
    /\ future_lock = 0 /\ t \notin Sleeping
    /\ StopsAt(k, d)
    /\ LET left == d - Through(k - 1) IN
       \/ /\ k \in Intervals /\ left < future[k].ticks_left
          /\ future' = [future EXCEPT ![k].ticks_left = @ - left]
       \/ /\ k = Len(future) + 1
          /\ UNCHANGED future
    /\ future_lock' = 1
    /\ UNCHANGED <<age, delay>>

-----------------------------------------------------------------------------
(* update_timers *)

Elapse == age' = A!Aged /\ UNCHANGED <<future_lock, delay>>

TickIdle ==
    /\ future_lock = 0
    /\ future = <<>>
    /\ Elapse /\ UNCHANGED future

TickCount ==
    /\ future_lock = 0
    /\ future # <<>> /\ Head(future).ticks_left > 0
    /\ future' = [future EXCEPT ![1].ticks_left = @ - 1]
    /\ Elapse

\* Mutant: the interval expires one tick early.
ExpireEarly ==
    /\ future_lock = 0
    /\ future # <<>> /\ Head(future).ticks_left <= 1
    /\ future' = Tail(future)
    /\ Elapse

\* The whole wake_list of the first interval is woken.
TickExpire ==
    /\ future_lock = 0
    /\ future # <<>> /\ Head(future).ticks_left = 0
    /\ future' = Tail(future)
    /\ Elapse

update_timers == TickIdle \/ TickCount \/ TickExpire

TimeNext ==
    \/ \E t \in Sleepers, d \in Delays :
          \/ \E k \in Intervals : TSleepSplit(t, d, k) \/ TSleepJoin(t, d, k)
          \/ TSleepLast(t, d)
          \/ \E k \in 1..(Len(future) + 1) : TSleepNoMem(t, d, k)
    \/ update_timers

TimeSpec == TimeInit /\ [][TimeNext]_time_vars

-----------------------------------------------------------------------------
(* Properties. *)

\* timecore.c does what tsleep promises: no thread is woken too early,
\* whatever other threads sleep and in whatever order they came.
NeverEarly == A!Spec

(***************************************************************************)
(* How late: every interval that ends before a thread's own costs it one   *)
(* tick more, so with delays of at least one tick a thread is still asleep *)
(* after at most twice its delay.  (A delay of 0 in a loop can hold up all *)
(* others: the interval it adds at the front takes the tick.)              *)
(***************************************************************************)
NotTooLate == \A t \in Sleeping : age[t] <= 2 * delay[t]

(***************************************************************************)
(* Two intervals never end at the same tick: threads that are due together *)
(* share a wake_list, so only the first interval can have no ticks left.   *)
(***************************************************************************)
DistinctDeadlines == \A k \in Intervals \ {1} : future[k].ticks_left > 0

\* tsleep and update_timers keep the list of intervals in shape, and nobody in it
\* waits for more than twice what they asked for.
AlarmsTimely == TimeTypeOK /\ DistinctDeadlines /\ NotTooLate

\* bug_on(counter != 0) of spin_lock: nobody has left future_lock locked.
LockIsFree == future_lock = 0
=============================================================================
