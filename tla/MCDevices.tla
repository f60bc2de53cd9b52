------------------------------ MODULE MCDevices ------------------------------
(***************************************************************************)
(* The mutex, pipes, interrupts, queues of threads, the drivers and the    *)
(* profiler on small instances.  part says which of them a behaviour is    *)
(* about; the others rest.                                                 *)
(***************************************************************************)
EXTENDS Mpipe, Serial, Console, Profiler, Irq

CONSTANTS r1, w1, w2, w3, u1, u2, open, other, h1, h2, QThreads, QHeads

VARIABLES part, next, prev, krunq_head, q_bug

Triggers == << [function |-> open, type |-> "PROF_ENTRY", flags |-> {"PROF_START"}],
               [function |-> open, type |-> "PROF_EXIT", flags |-> {"PROF_STOP", "PROF_DUMP"}] >>

\* Its operators have the names of those of Klist0, which the mutex is built
\* from.
Links == INSTANCE QueueLinks
queue_vars == <<next, prev, krunq_head, q_bug>>

MCInit ==
    /\ part \in {"mutex", "pipe", "serial", "kbd", "vga", "profiler", "irq", "queues"}
    /\ PipeInit /\ SerialInit /\ KbdInit /\ ProfInit /\ IrqInit /\ Links!LinksInit
    /\ VgaInit /\ (part = "vga" \/ cursor = 0)

sync_vars == <<mutex_vars, pipe_vars, irq_vars, queue_vars>>
driver_vars == <<serial_vars, kbd_vars, vga_vars, prof_vars>>

\* Bounds stop the histories, and a console nobody opens waits for nobody; the
\* mutex and the pipe never stop.
Stops == part \notin {"mutex", "pipe"} /\ UNCHANGED <<sync_vars, driver_vars>>

MCNext ==
    /\ UNCHANGED part
    /\ \/ /\ UNCHANGED driver_vars
          /\ \/ part = "mutex" /\ Next /\ UNCHANGED <<pipe_vars, irq_vars, queue_vars>>
             \/ part = "pipe" /\ PipeNext /\ UNCHANGED <<irq_vars, queue_vars>>
             \/ part = "irq" /\ IrqNext /\ UNCHANGED <<mutex_vars, pipe_vars, queue_vars>>
             \/ part = "queues" /\ Links!LinksNext /\ UNCHANGED <<mutex_vars, pipe_vars, irq_vars>>
       \/ /\ UNCHANGED sync_vars
          /\ \/ part = "serial" /\ SerialNext /\ UNCHANGED <<kbd_vars, vga_vars, prof_vars>>
             \/ part = "kbd" /\ KbdNext /\ UNCHANGED <<serial_vars, vga_vars, prof_vars>>
             \/ part = "vga" /\ VgaNext /\ UNCHANGED <<serial_vars, kbd_vars, prof_vars>>
             \/ part = "profiler" /\ ProfNext /\ UNCHANGED <<serial_vars, kbd_vars, vga_vars>>
       \/ Stops

\* The fairness of each machine, where it runs.
MCFair ==
    /\ \A t \in Threads : /\ WF_mutex_vars(part = "mutex" /\ at[t] = "doors" /\ mutex_lock(t))
                          /\ WF_mutex_vars(part = "mutex" /\ mutex_unlock(t))
    /\ WF_serial_vars(part = "serial" /\ TxIntr)
    /\ \A u \in Users : WF_serial_vars(part = "serial" /\ UserStep(u))
    /\ WF_irq_vars(part = "irq" /\ Handle) /\ WF_irq_vars(part = "irq" /\ Run)

MCSpec == MCInit /\ [][MCNext]_<<part, sync_vars, driver_vars>> /\ MCFair

----------------------------------------------------------------------------
\* Progress of the mutex: a thread in mutex_lock gets the mutex, where threads give
\* it back (a pipe's writer may keep it until somebody reads).
MutexProgress ==
    (part = "mutex" /\ \E t \in Threads : at[t] = "doors") ~> (\E t \in Threads : at[t] = "in")

\* RingsSound and MovesKeepOrder of QueueLinks: every step of thread_queue.c
\* leaves the queues of threads rings whose two directions agree, with a thread
\* on the queue its krunq_head names, and whatever it moves, the threads that
\* stay on a queue keep their order.
QueuesSound == [][Links!RingsSound' /\ Links!MovesKeepOrder]_queue_vars
=============================================================================
