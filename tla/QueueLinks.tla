----------------------------- MODULE QueueLinks -----------------------------
(***************************************************************************)
(* Thread queues as they lie in memory (kernel/thread_queue.c,             *)
(* include/thread.h, include/klist0.h): every queue head and every thread  *)
(* has a next and a prev link, and a thread has krunq_head.  The other     *)
(* modules take a queue for the sequence of its threads and krunq_head for *)
(* a function of the queues; here both are shown.                          *)
(*                                                                         *)
(* The functions of thread_queue.c run with interrupts off on the only     *)
(* processor, so each is one step, the two locked halves of a transfer     *)
(* included.                                                               *)
(***************************************************************************)
EXTENDS Naturals, Sequences, SequencesExt

CONSTANTS
    QThreads,
    QHeads      \* thread queues

VARIABLES
    next, prev,     \* links of a ring: a head and the threads on its queue
    krunq_head,
    q_bug           \* a bug_on was hit

links_vars == <<next, prev, krunq_head, q_bug>>
Links == QThreads \cup QHeads
NOWHERE == "nowhere"
NoThread == "no thread"

\* klist0_init links a node to itself.
LinksInit ==
    /\ next = [x \in Links |-> x] /\ prev = [x \in Links |-> x]
    /\ krunq_head = [t \in QThreads |-> NOWHERE] /\ q_bug = FALSE

\* The memory an operation works on.
Memory == [next |-> next, prev |-> prev, head |-> krunq_head, bug |-> q_bug]
Becomes(m) == next' = m.next /\ prev' = m.prev /\ krunq_head' = m.head /\ q_bug' = m.bug

Between(m, new, a, b) ==
    [m EXCEPT !.next = [@ EXCEPT ![a] = new, ![new] = b],
              !.prev = [@ EXCEPT ![b] = new, ![new] = a]]
klist0_empty(m, x) == m.next[x] = x
klist0_append(m, new, x) == Between(m, new, x, m.next[x])
klist0_prepend(m, new, x) == Between(m, new, m.prev[x], x)
klist0_unlink(m, x) ==
    [m EXCEPT !.next = [@ EXCEPT ![m.prev[x]] = m.next[x], ![x] = x],
              !.prev = [@ EXCEPT ![m.next[x]] = m.prev[x], ![x] = x]]

\* Mutant: krunq_head is not set.
InsertLeaves(m, t, q) == m.head
InsertHead(m, t, q) == [m.head EXCEPT ![t] = q]
Inserted(m, m1, t, q) == [m1 EXCEPT !.head = InsertHead(m, t, q), !.bug = @ \/ ~klist0_empty(m, t)]
tq_insert_head0(m, t, q) == Inserted(m, klist0_append(m, t, q), t, q)
tq_insert_tail0(m, t, q) == Inserted(m, klist0_prepend(m, t, q), t, q)
tq_remove_thread(m, t) ==
    [klist0_unlink(m, t) EXCEPT !.head = [@ EXCEPT ![t] = NOWHERE],
                                !.bug = @ \/ m.head[t] = NOWHERE \/ klist0_empty(m, t)]
HeadOf(m, q) == IF klist0_empty(m, q) THEN NoThread ELSE m.next[q]
TailOf(m, q) == IF klist0_empty(m, q) THEN NoThread ELSE m.prev[q]
Removed(m, t) == IF t = NoThread THEN m ELSE tq_remove_thread(m, t)

----------------------------------------------------------------------------
\* Callers insert a thread that is on no queue.
tq_insert_head(t, q) == krunq_head[t] = NOWHERE /\ Becomes(tq_insert_head0(Memory, t, q))
tq_insert_tail(t, q) == krunq_head[t] = NOWHERE /\ Becomes(tq_insert_tail0(Memory, t, q))
tq_remove_head(q) == Becomes(Removed(Memory, HeadOf(Memory, q)))
tq_remove_tail(q) == Becomes(Removed(Memory, TailOf(Memory, q)))

\* The transfers; nothing moves from an empty queue.
Moved(t, m) == IF t = NoThread THEN Memory ELSE m
tq_transfer_head_to_head(q, r) ==
    LET t == HeadOf(Memory, q) IN Becomes(Moved(t, tq_insert_head0(Removed(Memory, t), t, r)))
tq_transfer_head_to_tail(q, r) ==
    LET t == HeadOf(Memory, q) IN Becomes(Moved(t, tq_insert_tail0(Removed(Memory, t), t, r)))
tq_transfer_tail_to_head(q, r) ==
    LET t == TailOf(Memory, q) IN Becomes(Moved(t, tq_insert_head0(Removed(Memory, t), t, r)))
tq_transfer_tail_to_tail(q, r) ==
    LET t == TailOf(Memory, q) IN Becomes(Moved(t, tq_insert_tail0(Removed(Memory, t), t, r)))

LinksNext ==
    \/ \E q \in QHeads : tq_remove_head(q) \/ tq_remove_tail(q)
    \/ \E t \in QThreads, q \in QHeads : tq_insert_head(t, q) \/ tq_insert_tail(t, q)
    \/ \E q, r \in QHeads :
         \/ tq_transfer_head_to_head(q, r) \/ tq_transfer_head_to_tail(q, r)
         \/ tq_transfer_tail_to_head(q, r) \/ tq_transfer_tail_to_tail(q, r)
LinksSpec == LinksInit /\ [][LinksNext]_links_vars

----------------------------------------------------------------------------
\* The threads met from x on, until the head q.
RECURSIVE Walk(_, _, _)
Walk(link, x, q) == IF link[x] = q THEN <<>> ELSE <<link[x]>> \o Walk(link, link[x], q)
Forth(q) == Walk(next, q, q)
Ring == \A x \in Links : prev[next[x]] = x /\ next[prev[x]] = x

\* Every queue is a closed ring that reads the same both ways, a thread that is
\* on no queue is linked to itself, krunq_head names the very queue whose ring
\* has the thread, and no bug_on of thread.h was hit on the way.
RingsSound ==
    /\ Ring /\ ~q_bug
    /\ \A q \in QHeads :
         /\ Forth(q) = Reverse(Walk(prev, q, q))
         /\ { Forth(q)[k] : k \in DOMAIN Forth(q) } = { t \in QThreads : krunq_head[t] = q }
    /\ \A t \in QThreads : krunq_head[t] = NOWHERE <=> next[t] = t

\* Threads moved from the head of a queue to the tail of another one, or from
\* the tail to the head, keep their order; moved from head to head or from tail
\* to tail they come in the reverse one; the ones that stay keep theirs.
Forth1(q) == Walk(next', q, q)
MovesKeepOrder ==
    \A q, r \in QHeads : q # r =>
        /\ tq_transfer_head_to_tail(q, r) => Forth1(r) \o Forth1(q) = Forth(r) \o Forth(q)
        /\ tq_transfer_tail_to_head(q, r) => Forth1(q) \o Forth1(r) = Forth(q) \o Forth(r)
        /\ tq_transfer_head_to_head(q, r) => Reverse(Forth1(r)) \o Forth1(q) = Reverse(Forth(r)) \o Forth(q)
        /\ tq_transfer_tail_to_tail(q, r) => Forth1(q) \o Reverse(Forth1(r)) = Forth(q) \o Reverse(Forth(r))
=============================================================================
