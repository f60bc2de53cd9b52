------------------------------- MODULE Sched0 --------------------------------
(***************************************************************************)
(* The round-robin cpu scheduler of the kernel (kernel/sched0.c), with the *)
(* timer interrupt that preempts threads (arch/i386/irq.c, asm/irq.S) and  *)
(* the context switch (arch/i386/thread.c, asm/context_switch.S).          *)
(*                                                                         *)
(* One processor.  Interrupts are taken only when the running thread has   *)
(* IF set.  A kernel thread starts with IF set (thread_init_stack) and can *)
(* be preempted anywhere outside the local_irq_save sections.  A user      *)
(* thread enters the kernel through an interrupt gate (trap.c, vector      *)
(* 0x40), so its system calls run with IF clear up to the context switch.  *)
(* "run" is all the code of a thread outside the scheduler; the steps of   *)
(* sched0_dequeue and sched0_yield between which an interrupt can be taken *)
(* are separate actions.                                                   *)
(***************************************************************************)
EXTENDS Klist0

CONSTANTS
    Threads,            \* all threads that may ever exist
    GOD,                \* the main kernel thread: its loop yields, never sleeps
    KernelThreads,      \* threads that never leave the kernel
    Queues,             \* wait queues
    RQ,                 \* rq.queue, the run queue
    SCHED_MAX_QUANTUM,  \* ticks in a time slice
    IrqBurst            \* bound: interrupts taken between two scheduler steps

ASSUME SchedAssumption ==
    /\ GOD \in KernelThreads
    /\ KernelThreads \subseteq Threads
    /\ RQ \notin Queues
    /\ IrqBurst \in Nat
    /\ SCHED_MAX_QUANTUM \in Nat
    \* a slice is longer than what can be taken inside one sched0_yield
    /\ 2 * IrqBurst < SCHED_MAX_QUANTUM

VARIABLES
    tq,       \* the queues, run queue included
    current,  \* CURRENT()
    quantum,  \* t->quantum
    pc,       \* where a thread is in the scheduler
    next,     \* the local variable next of sched0_yield
    iflag,    \* IF of the thread outside system calls
    burst     \* interrupts taken since the last scheduler step of current

vars == <<tq, current, quantum, pc, next, iflag, burst>>

AllQueues == Queues \cup {RQ}

(***************************************************************************)
(* "new": not created yet.  "dequeued": sched0_dequeue has returned, the   *)
(* caller's scheduler_yield comes next.  "yield": sched0_yield has reset   *)
(* the quantum.  "switch": sched0_yield has chosen next and has restored   *)
(* the flags, thread_switch_context comes next.                            *)
(***************************************************************************)
Locations == {"new", "run", "dequeued", "yield", "switch"}

\* The state has its shape: the ticks of a quantum are counted down and start
\* again at its length.
TypeOK ==
    /\ tq \in [AllQueues -> Seq(Threads)]
    /\ current \in Threads
    /\ quantum \in [Threads -> 1..SCHED_MAX_QUANTUM]
    /\ pc \in [Threads -> Locations]
    /\ next \in [Threads -> Threads]
    /\ iflag \in [Threads -> BOOLEAN]
    /\ burst \in 0..IrqBurst

\* kernel_main_thread after it has enqueued itself and called mach_running().
Init ==
    /\ tq = [q \in AllQueues |-> IF q = RQ THEN <<GOD>> ELSE <<>>]
    /\ current = GOD
    /\ quantum = [t \in Threads |-> SCHED_MAX_QUANTUM]
    /\ pc = [t \in Threads |-> IF t = GOD THEN "run" ELSE "new"]
    /\ next = [t \in Threads |-> t]
    /\ iflag = [t \in Threads |-> TRUE]
    /\ burst = 0

-----------------------------------------------------------------------------
(* Effects on the queues. *)

\* Take the head of the run queue and link it at the tail.
Rotate(Q) == tq_insert_tail(tq_remove_head(Q, RQ), Head(Q[RQ]), RQ)

\* sched0_enqueue: the first sleeper of q goes to the head of the run queue.
Enqueue(Q, q) ==
    IF tq_is_empty(Q, q) THEN Q
    ELSE tq_insert_head(tq_remove_head(Q, q), Head(Q[q]), RQ)

EnqueueQuantum(Q, q) ==
    IF tq_is_empty(Q, q) THEN quantum
    ELSE [quantum EXCEPT ![Head(Q[q])] = SCHED_MAX_QUANTUM]

-----------------------------------------------------------------------------
(* Steps of the running thread. *)

\* scheduler_enqueue(q)
Wake(q) ==
    /\ pc[current] = "run"
    /\ tq' = Enqueue(tq, q)
    /\ quantum' = EnqueueQuantum(tq, q)
    /\ UNCHANGED <<current, pc, next, iflag, burst>>

(***************************************************************************)
(* scheduler_dequeue(q): CURRENT moves to the tail of q.  The source also  *)
(* rotates the run queue, although it does not switch to the thread it     *)
(* takes from the head.                                                    *)
(***************************************************************************)
Dequeue(q) ==
    /\ pc[current] = "run"
    /\ current # GOD
    /\ tq' = tq_insert_tail(Rotate(tq_remove_thread(tq, current, RQ)), current, q)
    /\ quantum' = [quantum EXCEPT ![current] = SCHED_MAX_QUANTUM]
    /\ pc' = [pc EXCEPT ![current] = "dequeued"]
    /\ burst' = 0
    /\ UNCHANGED <<current, next, iflag>>

\* fork(), spawn(): a new thread goes through a private queue to the run queue.
Spawn(t) ==
    /\ pc[current] = "run"
    /\ pc[t] = "new"
    /\ pc' = [pc EXCEPT ![t] = "run"]
    /\ tq' = tq_insert_head(tq, t, RQ)
    /\ quantum' = [quantum EXCEPT ![t] = SCHED_MAX_QUANTUM]
    /\ UNCHANGED <<current, next, iflag, burst>>

(***************************************************************************)
(* thread_exec() of a user thread: start_user pushes the flags the system  *)
(* call runs with, IF clear, as the flags of the new program.              *)
(***************************************************************************)
Exec ==
    /\ pc[current] = "run"
    /\ current \notin KernelThreads
    /\ iflag' = [iflag EXCEPT ![current] = FALSE]
    /\ UNCHANGED <<tq, current, quantum, pc, next, burst>>

\* Mutant: the quantum is not reset before the switch.
YieldEnterNoReset ==
    /\ pc[current] \in {"run", "dequeued"}
    /\ pc' = [pc EXCEPT ![current] = "yield"]
    /\ burst' = 0
    /\ UNCHANGED <<tq, current, quantum, next, iflag>>

\* sched0_yield up to the local_irq_save
YieldEnter ==
    /\ pc[current] \in {"run", "dequeued"}
    /\ pc' = [pc EXCEPT ![current] = "yield"]
    /\ quantum' = [quantum EXCEPT ![current] = SCHED_MAX_QUANTUM]
    /\ burst' = 0
    /\ UNCHANGED <<tq, current, next, iflag>>

\* the section of sched0_yield under rq.queue.lock
YieldPick ==
    /\ pc[current] = "yield"
    /\ pc' = [pc EXCEPT ![current] = "switch"]
    /\ next' = [next EXCEPT ![current] = Head(tq[RQ])]
    /\ tq' = Rotate(tq)
    /\ burst' = 0
    /\ UNCHANGED <<current, quantum, iflag>>

\* thread_switch_context(prev, next); prev returns to its caller when resumed
SwitchContext ==
    /\ pc[current] = "switch"
    /\ pc' = [pc EXCEPT ![current] = "run"]
    /\ current' = next[current]
    /\ burst' = 0
    /\ UNCHANGED <<tq, quantum, next, iflag>>

-----------------------------------------------------------------------------
(* Interrupts. *)

InterruptsOn ==
    /\ iflag[current]
    /\ current \in KernelThreads \/ pc[current] = "run"
    /\ pc[current] = "run" \/ burst < IrqBurst

\* Mutant: the head of the run queue is chosen and stays at the head.
TickNoRotation(Q, qt) ==
    LET expired == qt[current] = 1 IN
    /\ tq' = Q
    /\ quantum' = [qt EXCEPT ![current] =
                      IF expired THEN SCHED_MAX_QUANTUM ELSE @ - 1]
    /\ current' = IF expired THEN Head(Q[RQ]) ELSE current
    /\ burst' = IF pc[current] = "run" \/ current' # current THEN 0 ELSE burst + 1
    /\ UNCHANGED <<pc, next, iflag>>

\* Mutant: the tick puts the thread whose quantum has expired to sleep.
TickSleeps(Q, qt) ==
    LET expired == qt[current] = 1 /\ current # GOD /\ Queues # {} IN
    /\ tq' = IF expired
             THEN tq_insert_tail(tq_remove_thread(Q, current, RQ), current,
                                 CHOOSE q \in Queues : TRUE)
             ELSE Q
    /\ quantum' = [qt EXCEPT ![current] =
                      IF qt[current] = 1 THEN SCHED_MAX_QUANTUM ELSE @ - 1]
    /\ current' = IF expired THEN Head(tq'[RQ]) ELSE current
    /\ burst' = IF pc[current] = "run" \/ current' # current THEN 0 ELSE burst + 1
    /\ UNCHANGED <<pc, next, iflag>>

(***************************************************************************)
(* main_irq_handler and the return path of irq.S, IF clear throughout:     *)
(* Q and qt are the queues and quanta the device handler leaves behind;    *)
(* then comes sched0_tick and, when it asks for it, the deferred switch.   *)
(***************************************************************************)
Tick(Q, qt) ==
    LET expired == qt[current] = 1 IN
    /\ tq' = IF expired THEN Rotate(Q) ELSE Q
    /\ quantum' = [qt EXCEPT ![current] =
                      IF expired THEN SCHED_MAX_QUANTUM ELSE @ - 1]
    /\ current' = IF expired THEN Head(Q[RQ]) ELSE current
    /\ burst' = IF pc[current] = "run" \/ current' # current THEN 0 ELSE burst + 1
    /\ UNCHANGED <<pc, next, iflag>>

\* an interrupt whose handler wakes nobody (the timer with nothing due)
TimerIrq == InterruptsOn /\ Tick(tq, quantum)

\* an interrupt whose handler calls scheduler_enqueue(q) (keyboard, serial line)
DeviceIrq(q) == InterruptsOn /\ Tick(Enqueue(tq, q), EnqueueQuantum(tq, q))

-----------------------------------------------------------------------------

InScheduler == YieldPick \/ SwitchContext \/ (pc[current] = "dequeued" /\ YieldEnter)

Next ==
    \/ \E q \in Queues : Wake(q) \/ Dequeue(q) \/ DeviceIrq(q)
    \/ \E t \in Threads : Spawn(t)
    \/ Exec
    \/ YieldEnter
    \/ YieldPick
    \/ SwitchContext
    \/ TimerIrq

Spec == Init /\ [][Next]_vars

(***************************************************************************)
(* The processor keeps executing a thread that is inside the scheduler,    *)
(* and the timer keeps ticking.                                            *)
(***************************************************************************)
Fairness == WF_vars(InScheduler) /\ WF_vars(TimerIrq)

FairSpec == Spec /\ Fairness

-----------------------------------------------------------------------------
(* Properties. *)

(***************************************************************************)
(* No thread is linked twice or on two queues: the assertions of           *)
(* __tq_insert_head and __tq_insert_tail never fire, whatever the          *)
(* interleaving of sleepers, wakers, yields and interrupts.                *)
(***************************************************************************)
OneQueue == LinkedOnce(tq)

(***************************************************************************)
(* No thread is lost: a created thread is always linked on some queue, so  *)
(* that somebody can still run it or wake it.                              *)
(***************************************************************************)
NoThreadLost == \A t \in Threads : pc[t] # "new" => Linked(tq, t)

(***************************************************************************)
(* bug_on(current->krunq_head != from_q) of sched0_dequeue never fires: a  *)
(* thread that executes its own code is on the run queue, never on a wait  *)
(* queue.                                                                  *)
(***************************************************************************)
RunningIsRunnable == pc[current] = "run" => IsOn(tq, current, RQ)

(***************************************************************************)
(* bug_on(!next) never fires: there is always a thread to switch to, even  *)
(* when CURRENT has just left the run queue in sched0_dequeue.             *)
(***************************************************************************)
SomeoneToRun ==
    /\ ~tq_is_empty(tq, RQ)
    /\ pc[current] = "run" /\ current # GOD => OnQueue(tq, RQ) \ {current} # {}

(***************************************************************************)
(* A thread leaves the run queue by its own sched0_dequeue only: neither   *)
(* an interrupt nor another thread ever puts it to sleep.                  *)
(***************************************************************************)
OnlyItselfSleeps ==
    [][\A t \in Threads :
          IsOn(tq, t, RQ) /\ ~IsOn(tq', t, RQ) => t = current /\ pc'[t] = "dequeued"]_vars

(***************************************************************************)
(* Round robin: a runnable thread is eventually run, from the time on when *)
(* no thread sleeps any more and no runnable program has interrupts off.   *)
(* Both conditions are needed: a thread that sleeps each time another is   *)
(* at the head makes that one lose its turn again and again, and a program *)
(* started by thread_exec is not preempted.                                *)
(***************************************************************************)
NoStarvation ==
    /\ <>[][\A q \in Queues : ~Dequeue(q)]_vars
    /\ <>[](\A t \in Threads : IsOn(tq, t, RQ) => iflag[t])
    => \A t \in Threads : IsOn(tq, t, RQ) ~> (current = t)

-----------------------------------------------------------------------------

(***************************************************************************)
(* The inductive invariant behind the safety properties.  Only the running *)
(* thread can be inside the scheduler: an interrupt there finds a quantum  *)
(* that was just reset, so it never expires before the thread has left.    *)
(* GOD never sleeps, so the run queue is never empty.                      *)
(***************************************************************************)
SchedInv ==
    /\ TypeOK
    /\ OneQueue
    /\ \A t \in Threads : pc[t] = "new" <=> ~Linked(tq, t)
    /\ \A t \in Threads \ {current} : pc[t] \in {"new", "run"}
    /\ pc[current] # "new"
    /\ IsOn(tq, GOD, RQ)
    /\ RunningIsRunnable
    /\ pc[current] = "switch" => IsOn(tq, next[current], RQ)
    /\ pc[current] \in {"dequeued", "yield"} =>
          quantum[current] + burst >= SCHED_MAX_QUANTUM
    /\ pc[current] = "switch" =>
          quantum[current] + burst + IrqBurst >= SCHED_MAX_QUANTUM
=============================================================================
