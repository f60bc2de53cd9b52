------------------------------ MODULE Klist0 ------------------------------
(***************************************************************************)
(* Intrusive circular lists (include/klist0.h).                            *)
(*                                                                         *)
(* All the lists that a node field can be on are one function L from list  *)
(* heads to sequences of nodes, first node first.  klist0_append links a   *)
(* node right after the given one, so on a list head it inserts at the     *)
(* FRONT; klist0_prepend links it before, so it inserts at the BACK.       *)
(***************************************************************************)
EXTENDS Naturals, Sequences, Functions

Nodes(L, l) == Range(L[l])

\* !klist0_empty(node)
Linked(L, x) == \E l \in DOMAIN L : x \in Nodes(L, l)

klist0_empty(L, l) == L[l] = <<>>

klist0_append(L, x, l) == [L EXCEPT ![l] = <<x>> \o @]

klist0_prepend(L, x, l) == [L EXCEPT ![l] = Append(@, x)]

\* The nodes before and after the k-th are linked to each other.
Without(s, k) == SubSeq(s, 1, k - 1) \o SubSeq(s, k + 1, Len(s))

klist0_unlink(L, x, l) ==
    [L EXCEPT ![l] = Without(@, CHOOSE i \in DOMAIN L[l] : L[l][i] = x)]

\* klist0_unlink(l->next) of a list that is not empty
klist0_unlink_first(L, l) == [L EXCEPT ![l] = Tail(@)]

(***************************************************************************)
(* A node is linked at most once, on at most one list.                     *)
(***************************************************************************)
LinkedOnce(L) ==
    \A k, l \in DOMAIN L : \A i \in DOMAIN L[k], j \in DOMAIN L[l] :
        L[k][i] = L[l][j] => k = l /\ i = j

----------------------------------------------------------------------------
(***************************************************************************)
(* Thread queues (include/thread.h, kernel/thread_queue.c): lists of       *)
(* threads linked through krunq.                                           *)
(*                                                                         *)
(* krunq_head is the queue a thread is linked on: every insertion and      *)
(* removal of the source sets it together with the links, so it is a       *)
(* function of the queues and not a state of its own.  The queue's         *)
(* spinlock is taken with interrupts off by every caller but               *)
(* thread_queue.c, and an operation is one step.                           *)
(***************************************************************************)

OnQueue(Q, q) == Nodes(Q, q)

\* krunq_head(t) = q, for a thread that is linked on q.
IsOn(Q, t, q) == t \in OnQueue(Q, q)

tq_is_empty(Q, q) == klist0_empty(Q, q)

tq_insert_head(Q, t, q) == klist0_append(Q, t, q)

tq_insert_tail(Q, t, q) == klist0_prepend(Q, t, q)

tq_remove_head(Q, q) == klist0_unlink_first(Q, q)

tq_remove_thread(Q, t, q) == klist0_unlink(Q, t, q)
============================================================================
