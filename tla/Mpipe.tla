-------------------------------- MODULE Mpipe --------------------------------
(***************************************************************************)
(* Mutexes (include/mutex.h), first one mutex alone; then message pipes    *)
(* (kernel/fs/mpipe.c) and the mutex in each of them.                      *)
(*                                                                         *)
(* Every caller is in a system call, with interrupts off, so a thread runs *)
(* from one scheduler_yield to the next without being disturbed, and that  *)
(* is one step.  A thread is runnable unless it is linked on a queue.      *)
(***************************************************************************)
EXTENDS Klist0

CONSTANTS
    Threads,
    Queues      \* the queues threads sleep on: the mutex' own, and others

VARIABLES
    lock,       \* 1: free, 0: taken
    queue,
    at          \* where each thread is

mutex_vars == <<lock, queue, at>>

\* before mutex_lock, in it, and between it and mutex_unlock
Places == {"out", "doors", "in"}

ASSUME MutexAssumption == "sleepers" \in Queues

\* mutex_init: the exchange leaves 1 in the lock.
mutex_init ==
    /\ lock = 1
    /\ queue = [q \in Queues |-> <<>>]

Init ==
    /\ mutex_init
    /\ at = [t \in Threads |-> "out"]

Runnable(t) == ~Linked(queue, t)

AtDoors(t) == at[t] \in {"out", "doors"} /\ Runnable(t)

\* Mutant: a thread that was woken does not try again.
AcquireOnce(t) ==
    /\ at[t] = "out" /\ Runnable(t)
    /\ lock = 1
    /\ lock' = 0
    /\ at' = [at EXCEPT ![t] = "in"]

\* mutex_trylock exchanges the lock with 0 and fails when it was 0.
Acquire(t) ==
    /\ AtDoors(t)
    /\ lock = 1
    /\ lock' = 0
    /\ at' = [at EXCEPT ![t] = "in"]

\* scheduler_dequeue puts the thread at the end of the queue.
Sleep(t) ==
    /\ AtDoors(t)
    /\ lock = 0
    /\ queue' = tq_insert_tail(queue, t, "sleepers")
    /\ at' = [at EXCEPT ![t] = "doors"]
    /\ UNCHANGED lock

mutex_lock(t) ==
    \/ Acquire(t) /\ UNCHANGED queue
    \/ Sleep(t)

\* scheduler_enqueue: the first thread of a queue, if any, becomes runnable.
Woken(q) == IF tq_is_empty(queue, q) THEN queue ELSE tq_remove_head(queue, q)

\* Mutant: nobody is woken.
UnlockSilently(t) ==
    /\ at[t] = "in" /\ Runnable(t)
    /\ lock = 0
    /\ lock' = 1
    /\ at' = [at EXCEPT ![t] = "out"]
    /\ UNCHANGED queue

\* bug_on(!mutex_trylock(mutex)): the mutex has to be taken.
mutex_unlock(t) ==
    /\ at[t] = "in" /\ Runnable(t)
    /\ lock = 0
    /\ queue' = Woken("sleepers")
    /\ lock' = 1
    /\ at' = [at EXCEPT ![t] = "out"]

Next == \E t \in Threads : mutex_lock(t) \/ mutex_unlock(t)

Spec == Init /\ [][Next]_mutex_vars

(***************************************************************************)
(* Every runnable thread gets the CPU (Sched0), a thread that has started  *)
(* mutex_lock goes on with it and one that holds the mutex gives it back;  *)
(* nobody has to ask for the mutex.                                        *)
(***************************************************************************)
Fairness ==
    \A t \in Threads : /\ WF_mutex_vars(at[t] = "doors" /\ mutex_lock(t))
                       /\ WF_mutex_vars(mutex_unlock(t))

FairSpec == Spec /\ Fairness

-----------------------------------------------------------------------------
(* Properties. *)

\* The state has its shape.
TypeOK ==
    /\ lock \in {0, 1}
    /\ queue \in [Queues -> Seq(Threads)]
    /\ at \in [Threads -> Places]

(***************************************************************************)
(* At most one thread is between mutex_lock and mutex_unlock, and the lock *)
(* says whether there is one: the bug_on of mutex_unlock never fires.      *)
(***************************************************************************)
Exclusion ==
    /\ \A t, u \in Threads : at[t] = "in" /\ at[u] = "in" => t = u
    /\ lock = 0 <=> \E t \in Threads : at[t] = "in"

(***************************************************************************)
(* No wake-up is lost: while threads sleep on a mutex that is free, one    *)
(* that was woken is on its way to take it, even if threads that never     *)
(* slept got in between.                                                   *)
(***************************************************************************)
NoLostWakeup ==
    lock = 1 /\ ~tq_is_empty(queue, "sleepers") =>
        \E t \in Threads : at[t] = "doors" /\ Runnable(t)

\* A thread that wants the mutex does not wait while everybody stays out.
Progress == (\E t \in Threads : at[t] = "doors") ~> (\E t \in Threads : at[t] = "in")

(***************************************************************************)
(* The inductive invariant: a thread is linked at most once, and only at   *)
(* the doors.                                                              *)
(***************************************************************************)
MutexInv ==
    /\ TypeOK
    /\ LinkedOnce(queue)
    /\ \A q \in Queues : q # "sleepers" => queue[q] = <<>>
    /\ \A t \in Threads : Linked(queue, t) => at[t] = "doors"
    /\ Exclusion
    /\ NoLostWakeup

-----------------------------------------------------------------------------
(***************************************************************************)
(* Message pipes (kernel/fs/mpipe.c): mpipe_read and mpipe_write on one    *)
(* pipe, composed with its mutex.                                          *)
(*                                                                         *)
(* There is no buffer in the kernel: a writer copies into the user buffer  *)
(* of the reader, which sleeps on tq meanwhile.  The bytes are left out;   *)
(* what counts is whose buffer is written and how many bytes are left.     *)
(***************************************************************************)

CONSTANTS
    Readers, Writers,   \* the threads, by what they do
    NoBuf,              \* the NULL a new pipe has for a buffer
    MaxLen              \* bound of the lengths of reads and writes

VARIABLES
    buf, len, state,    \* of struct mpipe_ctl; tq is queue["tq"]
    left,               \* what each writer has still to write
    reading,            \* the threads in mpipe_read
    filled              \* history: the readers whose buffer was written since

pipe_vars == <<buf, len, state, left, reading, filled>>
vars == <<mutex_vars, pipe_vars>>

ASSUME PipeAssumption ==
    /\ Readers \cap Writers = {} /\ Threads = Readers \cup Writers
    /\ Queues = {"sleepers", "tq"}
    /\ NoBuf \notin Threads /\ MaxLen \in Nat \ {0}

\* The state has its shape; the bytes a writer has left never go below 0.
PipeTypeOK ==
    /\ TypeOK
    /\ buf \in Readers \cup {NoBuf}
    /\ len \in 0..MaxLen
    /\ state \in {"MC_OPENED", "MC_READ_FROM", "MC_WRITTEN_TO"}
    /\ left \in [Writers -> 0..MaxLen]
    /\ reading \subseteq Readers /\ filled \subseteq reading

\* mpipe_open, mpipe_open2
PipeInit ==
    /\ Init
    /\ buf = NoBuf /\ len = 0 /\ state = "MC_OPENED"
    /\ left = [w \in Writers |-> 0]
    /\ reading = {} /\ filled = {}

\* mpipe_read up to scheduler_yield
Read(r, n) ==
    /\ r \notin reading
    /\ buf' = r /\ len' = n
    /\ queue' = tq_insert_tail(queue, r, "tq")
    /\ reading' = reading \cup {r}
    /\ UNCHANGED <<lock, at, state, left, filled>>

\* The rest of mpipe_read, when the reader has been woken.
ReadReturn(r) ==
    /\ r \in reading /\ Runnable(r)
    /\ state' = "MC_READ_FROM"
    /\ reading' = reading \ {r} /\ filled' = filled \ {r}
    /\ UNCHANGED <<mutex_vars, buf, len, left>>

(***************************************************************************)
(* One turn of mpipe_write's loop, with n bytes to go: they go to whatever *)
(* buffer the last mpipe_read has left.                                    *)
(***************************************************************************)
Chunk(w, n) ==
    /\ left' = [left EXCEPT ![w] = IF len < n THEN n - len ELSE 0]
    /\ filled' = filled \cup ({buf} \cap reading)
    /\ state' = "MC_WRITTEN_TO"
    /\ queue' = Woken("tq")

\* mpipe_write: mutex_lock fails; the length is kept.
WriteBlocked(w, n) ==
    /\ at[w] = "out" \/ left[w] = n
    /\ Sleep(w)
    /\ left' = [left EXCEPT ![w] = n]
    /\ UNCHANGED <<buf, len, state, reading, filled>>

\* mpipe_write: mutex_lock succeeds and the first turn of the loop follows.
WriteFirst(w, n) ==
    /\ at[w] = "out" \/ left[w] = n
    /\ Acquire(w)
    /\ Chunk(w, n)
    /\ UNCHANGED <<buf, len, reading>>

WriteAgain(w) ==
    /\ at[w] = "in" /\ state = "MC_READ_FROM" /\ left[w] > 0
    /\ Chunk(w, left[w])
    /\ UNCHANGED <<lock, at, buf, len, reading>>

WriteReturn(w) ==
    /\ state = "MC_READ_FROM" /\ left[w] = 0
    /\ mutex_unlock(w)
    /\ UNCHANGED pipe_vars

\* The loop around scheduler_yield: nobody has read yet.
WriteYield(w) ==
    /\ at[w] = "in" /\ state # "MC_READ_FROM"
    /\ UNCHANGED vars

PipeNext ==
    \/ \E r \in Readers :
          \/ \E n \in 1..MaxLen : Read(r, n)
          \/ ReadReturn(r)
    \/ \E w \in Writers :
          \/ \E n \in 1..MaxLen : WriteBlocked(w, n) \/ WriteFirst(w, n)
          \/ WriteAgain(w)
          \/ WriteReturn(w)
          \/ WriteYield(w)

PipeSpec == PipeInit /\ [][PipeNext]_vars

-----------------------------------------------------------------------------
(* Properties. *)

(***************************************************************************)
(* A reader that has been woken has had its buffer written since it called *)
(* mpipe_read.  (With two readers it does not hold: "TODO: we need a       *)
(* semaphore here", the second one replaces the buffer of the first.)      *)
(***************************************************************************)
WokenIsFilled == \A r \in reading : Runnable(r) => r \in filled

\* A pipe and the mutex under it (mpipe_read, mpipe_write): one writer at a time,
\* no lost wake-up among the writers, and a woken reader has its bytes.
PipeSound == PipeTypeOK /\ Exclusion /\ NoLostWakeup /\ WokenIsFilled
==============================================================================
