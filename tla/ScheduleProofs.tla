--------------------------- MODULE ScheduleProofs ---------------------------
(***************************************************************************)
(* Proofs about who runs and who is woken when. Sched0: the safety of the  *)
(* scheduler for every set of threads and of wait queues, every quantum    *)
(* and every bound on interrupts that SchedAssumption allows. Timecore:    *)
(* for any threads and delays, the list of intervals implements Alarm, and *)
(* nobody sleeps for much longer than they asked.                          *)
(***************************************************************************)
EXTENDS Sched0, Timecore, Klist0Proofs, SequenceTheorems

-----------------------------------------------------------------------------
(* The scheduler. *)

USE DEF OnQueue, tq_is_empty, tq_insert_head, tq_insert_tail, tq_remove_head,
        tq_remove_thread

\* The queues of the scheduler are well formed.
TQ(Q) == WellFormed(Q, AllQueues, Threads)

\* Two states of the queues with the same threads on each queue link the same
\* threads.
LEMMA SameLinked ==
    ASSUME NEW Q, NEW R, TQ(Q), TQ(R),
           \A q \in AllQueues : OnQueue(R, q) = OnQueue(Q, q)
    PROVE  \A t : Linked(R, t) <=> Linked(Q, t)
<1>1. DOMAIN Q = AllQueues /\ DOMAIN R = AllQueues
  BY DEF TQ, WellFormed
<1> QED BY <1>1 DEF Linked, IsOn

\* Rotating a run queue that is not empty moves no thread to another queue.
LEMMA RotateKeeps ==
    ASSUME NEW Q, TQ(Q), ~tq_is_empty(Q, RQ)
    PROVE  /\ TQ(Rotate(Q))
           /\ \A q \in AllQueues : OnQueue(Rotate(Q), q) = OnQueue(Q, q)
           /\ Head(Q[RQ]) \in OnQueue(Q, RQ)
           /\ Head(Q[RQ]) \in Threads
<1> DEFINE h == Head(Q[RQ])
           R == tq_remove_head(Q, RQ)
           P == tq_insert_tail(R, h, RQ)
<1>1. RQ \in AllQueues
  BY DEF AllQueues
<1>2. /\ TQ(R) /\ ~Linked(R, h) /\ h \in OnQueue(Q, RQ) /\ h \in Threads
      /\ \A q \in AllQueues : OnQueue(R, q) =
            IF q = RQ THEN OnQueue(Q, RQ) \ {h} ELSE OnQueue(Q, q)
  BY <1>1, UnlinkFirst DEF TQ
<1> HIDE DEF h, R
<1>3. /\ TQ(P)
      /\ \A q \in AllQueues : OnQueue(P, q) =
            IF q = RQ THEN OnQueue(R, RQ) \cup {h} ELSE OnQueue(R, q)
  BY <1>1, <1>2, PrependLinks DEF TQ
<1>4. Rotate(Q) = P
  BY DEF Rotate, R, h
<1> HIDE DEF P
<1>5. \A q \in AllQueues : OnQueue(P, q) = OnQueue(Q, q)
  BY <1>1, <1>2, <1>3
<1> QED BY <1>2, <1>3, <1>4, <1>5 DEF h

\* scheduler_enqueue(q) moves at most one thread, from q to the run queue.
LEMMA EnqueueMoves ==
    ASSUME NEW Q, TQ(Q), NEW q \in Queues
    PROVE  /\ TQ(Enqueue(Q, q))
           /\ OnQueue(Q, RQ) \subseteq OnQueue(Enqueue(Q, q), RQ)
           /\ \A t : Linked(Enqueue(Q, q), t) <=> Linked(Q, t)
<1>1. RQ \in AllQueues /\ q \in AllQueues /\ q # RQ
  BY SchedAssumption DEF AllQueues
<1>2. CASE tq_is_empty(Q, q)
  BY <1>2 DEF Enqueue
<1>3. CASE ~tq_is_empty(Q, q)
  <2> DEFINE h == Head(Q[q])
             R == tq_remove_head(Q, q)
             P == tq_insert_head(R, h, RQ)
  <2>1. /\ TQ(R) /\ ~Linked(R, h) /\ h \in OnQueue(Q, q) /\ h \in Threads
        /\ \A r \in AllQueues : OnQueue(R, r) =
              IF r = q THEN OnQueue(Q, q) \ {h} ELSE OnQueue(Q, r)
    BY <1>1, <1>3, UnlinkFirst DEF TQ
  <2> HIDE DEF h, R
  <2>2. /\ TQ(P)
        /\ \A r \in AllQueues : OnQueue(P, r) =
              IF r = RQ THEN OnQueue(R, RQ) \cup {h} ELSE OnQueue(R, r)
    BY <1>1, <2>1, AppendLinks DEF TQ
  <2>3. Enqueue(Q, q) = P
    BY <1>3 DEF Enqueue, R, h
  <2> HIDE DEF P
  <2>4. DOMAIN Q = AllQueues /\ DOMAIN P = AllQueues
    BY <2>2 DEF TQ, WellFormed
  <2>5. ASSUME NEW t PROVE Linked(P, t) <=> Linked(Q, t)
    <3>1. ASSUME NEW r \in AllQueues, t \in OnQueue(P, r) PROVE Linked(Q, t)
      BY <1>1, <2>1, <2>2, <2>4, <3>1 DEF Linked, IsOn
    <3>2. ASSUME NEW r \in AllQueues, t \in OnQueue(Q, r) PROVE Linked(P, t)
      <4>1. CASE t = h
        BY <1>1, <2>2, <2>4, <4>1 DEF Linked, IsOn
      <4>2. CASE t # h
        BY <1>1, <2>1, <2>2, <2>4, <3>2, <4>2 DEF Linked, IsOn
      <4> QED BY <4>1, <4>2
    <3> QED BY <2>4, <3>1, <3>2 DEF Linked, IsOn
  <2>6. OnQueue(Q, RQ) \subseteq OnQueue(P, RQ)
    BY <1>1, <2>1, <2>2
  <2> QED BY <2>2, <2>3, <2>5, <2>6
<1> QED BY <1>2, <1>3

\* scheduler_enqueue(q) only ever raises a quantum.
LEMMA EnqueueQuantumRaises ==
    ASSUME TypeOK, NEW q \in Queues
    PROVE  /\ EnqueueQuantum(tq, q) \in [Threads -> 1..SCHED_MAX_QUANTUM]
           /\ \A t \in Threads : EnqueueQuantum(tq, q)[t] >= quantum[t]
<1>1. /\ quantum \in [Threads -> 1..SCHED_MAX_QUANTUM]
      /\ SCHED_MAX_QUANTUM \in 1..SCHED_MAX_QUANTUM
      /\ \A m \in 1..SCHED_MAX_QUANTUM : SCHED_MAX_QUANTUM >= m /\ m >= m
  BY SchedAssumption DEF TypeOK
<1>2. CASE tq_is_empty(tq, q)
  BY <1>1, <1>2 DEF EnqueueQuantum
<1>3. CASE ~tq_is_empty(tq, q)
  <2> DEFINE e == [quantum EXCEPT ![Head(tq[q])] = SCHED_MAX_QUANTUM]
  <2>1. EnqueueQuantum(tq, q) = e
    BY <1>3 DEF EnqueueQuantum
  <2>2. e \in [Threads -> 1..SCHED_MAX_QUANTUM]
    BY <1>1
  <2>3. \A t \in Threads : e[t] = quantum[t] \/ e[t] = SCHED_MAX_QUANTUM
    BY <1>1
  <2> HIDE DEF e
  <2> QED BY <1>1, <2>1, <2>2, <2>3
<1> QED BY <1>2, <1>3

\* The queues of a state of the invariant are well formed, the run queue is
\* not empty and everything current may switch to exists.
LEMMA InvFacts ==
    ASSUME SchedInv
    PROVE  /\ TQ(tq)
           /\ ~tq_is_empty(tq, RQ)
           /\ RQ \in AllQueues
           /\ GOD \in OnQueue(tq, RQ)
<1>1. RQ \in AllQueues
  BY DEF AllQueues
<1>2. TQ(tq)
  BY DEF SchedInv, TypeOK, OneQueue, TQ, WellFormed
<1>3. GOD \in OnQueue(tq, RQ)
  BY DEF SchedInv, IsOn
<1>4. ~tq_is_empty(tq, RQ)
  BY <1>3 DEF klist0_empty, Nodes, Range
<1> QED BY <1>1, <1>2, <1>3, <1>4

\* The inductive invariant holds when the main kernel thread starts running.
LEMMA InitInv == Init => SchedInv
<1> SUFFICES ASSUME Init PROVE SchedInv
  OBVIOUS
<1>1. GOD \in Threads /\ RQ \in AllQueues
  BY SchedAssumption DEF AllQueues
<1>2. TypeOK
  BY <1>1, SchedAssumption DEF Init, TypeOK, Locations
<1>3. /\ OnQueue(tq, RQ) = {GOD}
      /\ \A q \in AllQueues : q # RQ => OnQueue(tq, q) = {}
  BY <1>1 DEF Init, OnQueue, Nodes, Range
<1>4. OneQueue
  BY <1>1 DEF Init, OneQueue, LinkedOnce
<1>5. \A t \in Threads : pc[t] = "new" <=> ~Linked(tq, t)
  <2>1. DOMAIN tq = AllQueues
    BY DEF Init
  <2> QED BY <1>1, <1>3, <2>1 DEF Init, Linked, IsOn
<1> QED BY <1>1, <1>2, <1>3, <1>4, <1>5 DEF Init, SchedInv, IsOn, RunningIsRunnable

-----------------------------------------------------------------------------
(* One lemma per action. *)

\* The conjuncts of the invariant about the queues, for a step that links the
\* same threads and takes no thread off the run queue.
LEMMA QueuesKept ==
    ASSUME SchedInv, TQ(tq'), OnQueue(tq, RQ) \subseteq OnQueue(tq', RQ),
           \A t : Linked(tq', t) <=> Linked(tq, t)
    PROVE  /\ tq' \in [AllQueues -> Seq(Threads)]
           /\ OneQueue'
           /\ \A t \in Threads : pc[t] = "new" <=> ~Linked(tq', t)
           /\ IsOn(tq', GOD, RQ)
           /\ pc[current] = "run" => IsOn(tq', current, RQ)
           /\ pc[current] = "switch" => IsOn(tq', next[current], RQ)
  BY DEF SchedInv, TQ, WellFormed, OneQueue, IsOn, RunningIsRunnable

\* scheduler_enqueue called by a thread.
LEMMA WakeInv == ASSUME SchedInv, NEW q \in Queues, Wake(q) PROVE SchedInv'
<1>1. /\ TQ(tq') /\ OnQueue(tq, RQ) \subseteq OnQueue(tq', RQ)
      /\ \A t : Linked(tq', t) <=> Linked(tq, t)
  BY InvFacts, EnqueueMoves DEF Wake
<1>2. /\ quantum' \in [Threads -> 1..SCHED_MAX_QUANTUM]
  BY EnqueueQuantumRaises DEF Wake, SchedInv
<1>3. TypeOK'
  BY <1>1, <1>2, QueuesKept DEF Wake, SchedInv, TypeOK
<1> QED BY <1>1, <1>3, QueuesKept DEF Wake, SchedInv, RunningIsRunnable

\* sched0_yield up to its critical section.
LEMMA YieldEnterInv == ASSUME SchedInv, YieldEnter PROVE SchedInv'
<1>1. TypeOK'
  BY SchedAssumption DEF YieldEnter, SchedInv, TypeOK, Locations
<1>2. /\ pc' = [pc EXCEPT ![current] = "yield"] /\ pc \in [Threads -> Locations]
      /\ current \in Threads
  BY DEF YieldEnter, SchedInv, TypeOK
<1>3. quantum'[current] + burst' >= SCHED_MAX_QUANTUM
  BY SchedAssumption DEF YieldEnter, SchedInv, TypeOK
<1>4. OneQueue'
  BY DEF YieldEnter, SchedInv, OneQueue
<1> QED BY <1>1, <1>2, <1>3, <1>4 DEF YieldEnter, SchedInv, RunningIsRunnable

\* The critical section of sched0_yield.
LEMMA YieldPickInv == ASSUME SchedInv, YieldPick PROVE SchedInv'
<1> USE DEF YieldPick
<1>1. /\ TQ(tq')
      /\ \A q \in AllQueues : OnQueue(tq', q) = OnQueue(tq, q)
      /\ Head(tq[RQ]) \in OnQueue(tq, RQ) /\ Head(tq[RQ]) \in Threads
      /\ RQ \in AllQueues
  BY InvFacts, RotateKeeps
<1>2. \A t : Linked(tq', t) <=> Linked(tq, t)
  BY <1>1, InvFacts, SameLinked
<1>3. /\ tq' \in [AllQueues -> Seq(Threads)] /\ OneQueue'
      /\ \A t \in Threads : pc[t] = "new" <=> ~Linked(tq', t)
      /\ IsOn(tq', GOD, RQ)
  BY <1>1, <1>2, QueuesKept
<1>4. /\ pc' = [pc EXCEPT ![current] = "switch"] /\ pc \in [Threads -> Locations]
      /\ current \in Threads
  BY DEF SchedInv, TypeOK
<1>5. TypeOK'
  BY <1>1, <1>3, SchedAssumption DEF SchedInv, TypeOK, Locations
<1>6. quantum'[current] + burst' + IrqBurst >= SCHED_MAX_QUANTUM
  BY SchedAssumption DEF SchedInv, TypeOK
<1>7. next'[current] \in OnQueue(tq', RQ)
  BY <1>1 DEF SchedInv, TypeOK
<1> QED BY <1>3, <1>4, <1>5, <1>6, <1>7 DEF SchedInv, RunningIsRunnable, IsOn

\* thread_switch_context.
LEMMA SwitchContextInv == ASSUME SchedInv, SwitchContext PROVE SchedInv'
<1> USE DEF SwitchContext
<1>1. TypeOK'
  BY SchedAssumption DEF SchedInv, TypeOK, Locations
<1>2. /\ pc' = [pc EXCEPT ![current] = "run"] /\ pc \in [Threads -> Locations]
      /\ current \in Threads /\ current' \in Threads
  BY DEF SchedInv, TypeOK
<1>3. IsOn(tq', current', RQ)
  BY DEF SchedInv
<1>4. Linked(tq, current')
  BY <1>3, InvFacts DEF Linked, IsOn, TQ, WellFormed
<1>5. pc'[current'] = "run"
  BY <1>2, <1>4 DEF SchedInv
<1>6. OneQueue'
  BY DEF SchedInv, OneQueue
<1> QED BY <1>1, <1>2, <1>3, <1>5, <1>6 DEF SchedInv, RunningIsRunnable

\* thread_exec.
LEMMA ExecInv == ASSUME SchedInv, Exec PROVE SchedInv'
<1>1. TypeOK'
  BY DEF Exec, SchedInv, TypeOK
<1>2. OneQueue'
  BY DEF Exec, SchedInv, OneQueue
<1> QED BY <1>1, <1>2 DEF Exec, SchedInv, RunningIsRunnable

\* The creation of a thread.
LEMMA SpawnInv == ASSUME SchedInv, NEW t \in Threads, Spawn(t) PROVE SchedInv'
<1> USE DEF Spawn
<1>1. ~Linked(tq, t)
  BY DEF SchedInv
<1>2. /\ TQ(tq')
      /\ \A q \in AllQueues : OnQueue(tq', q) =
            IF q = RQ THEN OnQueue(tq, RQ) \cup {t} ELSE OnQueue(tq, q)
  BY <1>1, InvFacts, AppendLinks DEF TQ
<1>3. DOMAIN tq = AllQueues /\ DOMAIN tq' = AllQueues /\ RQ \in AllQueues
  BY <1>2, InvFacts DEF TQ, WellFormed
<1>4. \A u : Linked(tq', u) <=> Linked(tq, u) \/ u = t
  BY <1>2, <1>3 DEF Linked, IsOn
<1>5. /\ pc' = [pc EXCEPT ![t] = "run"] /\ pc \in [Threads -> Locations]
      /\ current \in Threads /\ t # current
  BY DEF SchedInv, TypeOK
<1>6. TypeOK'
  BY <1>2, SchedAssumption DEF SchedInv, TypeOK, Locations, TQ, WellFormed
<1>7. OneQueue'
  BY <1>2 DEF TQ, WellFormed, OneQueue
<1>8. OnQueue(tq, RQ) \subseteq OnQueue(tq', RQ)
  BY <1>2, <1>3
<1>9. \A u \in Threads : pc'[u] = "new" <=> ~Linked(tq', u)
  BY <1>4, <1>5 DEF SchedInv
<1> QED BY <1>5, <1>6, <1>7, <1>8, <1>9 DEF SchedInv, RunningIsRunnable, IsOn

\* scheduler_dequeue: the run queue still holds GOD when CURRENT leaves it.
LEMMA DequeueInv == ASSUME SchedInv, NEW q \in Queues, Dequeue(q) PROVE SchedInv'
<1> USE DEF Dequeue
<1> DEFINE R == tq_remove_thread(tq, current, RQ)
           P == Rotate(R)
<1>1. /\ current \in OnQueue(tq, RQ) /\ current \in Threads
      /\ q \in AllQueues /\ q # RQ /\ RQ \in AllQueues
  BY SchedAssumption DEF SchedInv, TypeOK, RunningIsRunnable, IsOn, AllQueues
<1>2. /\ TQ(R) /\ ~Linked(R, current)
      /\ \A r \in AllQueues : OnQueue(R, r) =
            IF r = RQ THEN OnQueue(tq, RQ) \ {current} ELSE OnQueue(tq, r)
  BY <1>1, InvFacts, UnlinkNode DEF TQ
<1> HIDE DEF R
<1>3. GOD \in OnQueue(R, RQ) /\ ~tq_is_empty(R, RQ)
  <2>1. GOD \in OnQueue(R, RQ)
    BY <1>1, <1>2, InvFacts
  <2> QED BY <2>1 DEF klist0_empty, Nodes, Range
<1>4. TQ(P) /\ \A r \in AllQueues : OnQueue(P, r) = OnQueue(R, r)
  BY <1>2, <1>3, RotateKeeps
<1> HIDE DEF P
<1>5. ~Linked(P, current)
  BY <1>2, <1>4, SameLinked
<1>6. /\ TQ(tq')
      /\ \A r \in AllQueues : OnQueue(tq', r) =
            IF r = q THEN OnQueue(P, q) \cup {current} ELSE OnQueue(P, r)
  <2>1. tq' = tq_insert_tail(P, current, q)
    BY DEF P, R
  <2> QED BY <2>1, <1>1, <1>4, <1>5, PrependLinks DEF TQ
<1>7. DOMAIN tq = AllQueues /\ DOMAIN tq' = AllQueues
  BY <1>6, InvFacts DEF TQ, WellFormed
<1>8. ASSUME NEW u PROVE Linked(tq', u) <=> Linked(tq, u)
  <2>1. CASE u = current
    BY <2>1, <1>1, <1>6, <1>7 DEF Linked, IsOn
  <2>2. CASE u # current
    <3>1. \A r \in AllQueues : u \in OnQueue(tq', r) <=> u \in OnQueue(tq, r)
      BY <2>2, <1>1, <1>2, <1>4, <1>6
    <3> QED BY <3>1, <1>7 DEF Linked, IsOn
  <2> QED BY <2>1, <2>2
<1>9. GOD \in OnQueue(tq', RQ)
  BY <1>1, <1>3, <1>4, <1>6
<1>10. TypeOK'
  BY <1>6, SchedAssumption DEF SchedInv, TypeOK, Locations, TQ, WellFormed
<1>11. OneQueue'
  BY <1>6 DEF TQ, WellFormed, OneQueue
<1>12. /\ pc' = [pc EXCEPT ![current] = "dequeued"] /\ pc \in [Threads -> Locations]
  BY DEF SchedInv, TypeOK
<1>13. \A u \in Threads : pc'[u] = "new" <=> ~Linked(tq', u)
  BY <1>1, <1>8, <1>12 DEF SchedInv
<1>14. quantum'[current] + burst' >= SCHED_MAX_QUANTUM
  BY SchedAssumption DEF SchedInv, TypeOK
<1> QED BY <1>1, <1>9, <1>10, <1>11, <1>12, <1>13, <1>14
        DEF SchedInv, RunningIsRunnable, IsOn

\* An interrupt, whatever its handler did to the queues within these limits.
LEMMA TickInv ==
    ASSUME SchedInv, InterruptsOn, NEW Q, NEW qt, Tick(Q, qt),
           TQ(Q), OnQueue(tq, RQ) \subseteq OnQueue(Q, RQ),
           \A t : Linked(Q, t) <=> Linked(tq, t),
           qt \in [Threads -> 1..SCHED_MAX_QUANTUM],
           \A t \in Threads : qt[t] >= quantum[t]
    PROVE  SchedInv'
<1>1. ~tq_is_empty(Q, RQ)
  <2>1. GOD \in Range(Q[RQ])
    BY InvFacts DEF Nodes
  <2> QED BY <2>1 DEF klist0_empty, Range
<1>2. /\ TQ(Rotate(Q)) /\ RQ \in AllQueues
      /\ \A q \in AllQueues : OnQueue(Rotate(Q), q) = OnQueue(Q, q)
      /\ Head(Q[RQ]) \in OnQueue(Q, RQ) /\ Head(Q[RQ]) \in Threads
  BY <1>1, InvFacts, RotateKeeps
<1>3. \A t : Linked(Rotate(Q), t) <=> Linked(Q, t)
  BY <1>2, SameLinked
<1>4. /\ TQ(tq') /\ OnQueue(tq, RQ) \subseteq OnQueue(tq', RQ)
      /\ OnQueue(tq', RQ) = OnQueue(Q, RQ)
      /\ \A t : Linked(tq', t) <=> Linked(tq, t)
  BY <1>2, <1>3 DEF Tick
<1>5. /\ tq' \in [AllQueues -> Seq(Threads)] /\ OneQueue'
      /\ \A t \in Threads : pc[t] = "new" <=> ~Linked(tq', t)
      /\ IsOn(tq', GOD, RQ)
      /\ pc[current] = "run" => IsOn(tq', current, RQ)
      /\ pc[current] = "switch" => IsOn(tq', next[current], RQ)
  BY <1>4, QueuesKept
<1>6. /\ current \in Threads /\ pc \in [Threads -> Locations]
      /\ quantum \in [Threads -> 1..SCHED_MAX_QUANTUM] /\ burst \in 0..IrqBurst
      /\ pc[current] # "new" /\ pc' = pc /\ next' = next /\ iflag' = iflag
  BY DEF SchedInv, TypeOK, Tick
<1>7. CASE qt[current] = 1
  <2>1. pc[current] = "run"
    <3>1. quantum[current] <= 1
      BY <1>6, <1>7, SchedAssumption
    <3>2. ASSUME pc[current] # "run" PROVE FALSE
      <4>1. burst < IrqBurst
        BY <3>2 DEF InterruptsOn
      <4>2. quantum[current] + burst + IrqBurst >= SCHED_MAX_QUANTUM
        BY <1>6, <3>2, SchedAssumption DEF SchedInv, Locations
      <4> QED BY <3>1, <4>1, <4>2, <1>6, SchedAssumption
    <3> QED BY <3>2
  <2>2. current' \in OnQueue(tq', RQ) /\ current' \in Threads
    BY <1>2, <1>4, <1>7 DEF Tick
  <2>3. pc'[current'] = "run"
    <3>1. Linked(tq', current')
      BY <2>2, <1>2, <1>4 DEF Linked, IsOn, TQ, WellFormed
    <3> QED BY <2>1, <2>2, <3>1, <1>5, <1>6 DEF SchedInv
  <2>4. \A t \in Threads \ {current'} : pc'[t] \in {"new", "run"}
    BY <2>1, <1>6 DEF SchedInv
  <2>5. burst' = 0
    BY <2>1 DEF Tick
  <2>6. quantum' \in [Threads -> 1..SCHED_MAX_QUANTUM]
    <3>1. quantum' = [qt EXCEPT ![current] = SCHED_MAX_QUANTUM]
      BY <1>7 DEF Tick
    <3>2. SCHED_MAX_QUANTUM \in 1..SCHED_MAX_QUANTUM
      BY SchedAssumption
    <3> QED BY <3>1, <3>2
  <2>7. TypeOK'
    BY <2>2, <2>5, <2>6, <1>5, <1>6, SchedAssumption DEF SchedInv, TypeOK
  <2> QED BY <2>2, <2>3, <2>4, <2>7, <1>5, <1>6 DEF SchedInv, IsOn, RunningIsRunnable
<1>8. CASE qt[current] # 1
  <2>1. current' = current
    BY <1>8 DEF Tick
  <2>2. quantum' = [qt EXCEPT ![current] = @ - 1]
    BY <1>8 DEF Tick
  <2>3. qt[current] \in 2..SCHED_MAX_QUANTUM
    BY <1>6, <1>8, SchedAssumption
  <2>4. /\ quantum' \in [Threads -> 1..SCHED_MAX_QUANTUM]
        /\ quantum'[current] = qt[current] - 1
    <3>1. qt[current] - 1 \in 1..SCHED_MAX_QUANTUM
      BY <2>3, SchedAssumption
    <3> QED BY <2>2, <3>1, <1>6
  <2>5. burst' = IF pc[current] = "run" THEN 0 ELSE burst + 1
    BY <2>1 DEF Tick
  <2>6. burst' \in 0..IrqBurst
    BY <2>5, <1>6, SchedAssumption DEF InterruptsOn
  <2>7. pc[current] # "run" => quantum'[current] + burst' >= quantum[current] + burst
    <3>1. qt[current] >= quantum[current] /\ quantum[current] \in Nat
      BY <1>6, SchedAssumption
    <3> QED BY <2>3, <2>4, <2>5, <3>1, <1>6, SchedAssumption
  <2>8. TypeOK'
    BY <2>1, <2>4, <2>6, <1>5, <1>6 DEF SchedInv, TypeOK
  <2>9. pc[current] \in {"dequeued", "yield"} =>
          quantum'[current] + burst' >= SCHED_MAX_QUANTUM
    BY <2>4, <2>6, <2>7, <1>6, SchedAssumption DEF SchedInv
  <2>10. pc[current] = "switch" =>
          quantum'[current] + burst' + IrqBurst >= SCHED_MAX_QUANTUM
    BY <2>4, <2>6, <2>7, <1>6, SchedAssumption DEF SchedInv
  <2> QED BY <2>1, <2>8, <2>9, <2>10, <1>5, <1>6 DEF SchedInv, RunningIsRunnable
<1> QED BY <1>7, <1>8

-----------------------------------------------------------------------------
(* The theorems. *)

\* The inductive invariant is preserved by every step.
LEMMA NextInv == SchedInv /\ [Next]_vars => SchedInv'
<1> SUFFICES ASSUME SchedInv, [Next]_vars PROVE SchedInv'
  OBVIOUS
<1>1. ASSUME NEW q \in Queues, Wake(q) PROVE SchedInv'
  BY <1>1, WakeInv
<1>2. ASSUME NEW q \in Queues, Dequeue(q) PROVE SchedInv'
  BY <1>2, DequeueInv
<1>3. ASSUME NEW q \in Queues, DeviceIrq(q) PROVE SchedInv'
  <2> DEFINE Q == Enqueue(tq, q)
             qt == EnqueueQuantum(tq, q)
  <2>1. /\ TQ(Q) /\ OnQueue(tq, RQ) \subseteq OnQueue(Q, RQ)
        /\ \A t : Linked(Q, t) <=> Linked(tq, t)
    BY InvFacts, EnqueueMoves
  <2>2. /\ qt \in [Threads -> 1..SCHED_MAX_QUANTUM]
        /\ \A t \in Threads : qt[t] >= quantum[t]
    BY EnqueueQuantumRaises DEF SchedInv
  <2>3. InterruptsOn /\ Tick(Q, qt)
    BY <1>3 DEF DeviceIrq
  <2> HIDE DEF Q, qt
  <2> QED BY <2>1, <2>2, <2>3, TickInv
<1>4. ASSUME NEW t \in Threads, Spawn(t) PROVE SchedInv'
  BY <1>4, SpawnInv
<1>5. CASE Exec
  BY <1>5, ExecInv
<1>6. CASE YieldEnter
  BY <1>6, YieldEnterInv
<1>7. CASE YieldPick
  BY <1>7, YieldPickInv
<1>8. CASE SwitchContext
  BY <1>8, SwitchContextInv
<1>9. CASE TimerIrq
  <2>1. /\ quantum \in [Threads -> 1..SCHED_MAX_QUANTUM]
        /\ \A t \in Threads : quantum[t] >= quantum[t]
    BY SchedAssumption DEF SchedInv, TypeOK
  <2> QED BY <2>1, <1>9, InvFacts, TickInv DEF TimerIrq
<1>10. CASE UNCHANGED vars
  BY <1>10 DEF vars, SchedInv, TypeOK, OneQueue, RunningIsRunnable
<1> QED BY <1>1, <1>2, <1>3, <1>4, <1>5, <1>6, <1>7, <1>8, <1>9, <1>10 DEF Next

\* SchedInv holds in every reachable state of the scheduler.
THEOREM Invariance == Spec => []SchedInv
  BY InitInv, NextInv, PTL DEF Spec

\* Every variable keeps its type; in particular a quantum never reaches 0.
THEOREM TypeCorrect == Spec => []TypeOK
<1>1. SchedInv => TypeOK
  BY DEF SchedInv
<1> QED BY <1>1, Invariance, PTL

\* The assertions of __tq_insert_head and __tq_insert_tail never fire: no
\* thread is ever linked twice.
THEOREM LinkedAtMostOnce == Spec => []OneQueue
<1>1. SchedInv => OneQueue
  BY DEF SchedInv
<1> QED BY <1>1, Invariance, PTL

\* A thread that was created is on some queue for ever.
THEOREM ThreadsAreKept == Spec => []NoThreadLost
<1>1. SchedInv => NoThreadLost
  BY DEF SchedInv, NoThreadLost
<1> QED BY <1>1, Invariance, PTL

\* The assertion of sched0_dequeue on krunq_head never fires.
THEOREM RunningOnRunQueue == Spec => []RunningIsRunnable
<1>1. SchedInv => RunningIsRunnable
  BY DEF SchedInv
<1> QED BY <1>1, Invariance, PTL

\* bug_on(!next) never fires in sched0_dequeue, sched0_tick or sched0_yield.
THEOREM NextExists == Spec => []SomeoneToRun
<1>1. SchedInv => SomeoneToRun
  BY InvFacts DEF SomeoneToRun
<1> QED BY <1>1, Invariance, PTL

\* What a step may do to the threads of the run queue.
LEMMA StepSleeps ==
    ASSUME SchedInv, [Next]_vars, NEW t \in Threads,
           IsOn(tq, t, RQ), ~IsOn(tq', t, RQ)
    PROVE  t = current /\ pc'[t] = "dequeued"
<1> SUFFICES \/ OnQueue(tq, RQ) \subseteq OnQueue(tq', RQ)
             \/ \E q \in Queues : Dequeue(q) /\ t = current
  BY DEF IsOn, Dequeue, SchedInv, TypeOK
<1>1. ASSUME NEW q \in Queues, Wake(q)
      PROVE  OnQueue(tq, RQ) \subseteq OnQueue(tq', RQ)
  BY <1>1, InvFacts, EnqueueMoves DEF Wake
<1>2. ASSUME NEW q \in Queues, Dequeue(q) PROVE t = current
  <2> USE <1>2 DEF Dequeue
  <2> DEFINE R == tq_remove_thread(tq, current, RQ)
             P == Rotate(R)
  <2>1. /\ current \in OnQueue(tq, RQ) /\ current \in Threads
        /\ q \in AllQueues /\ q # RQ /\ RQ \in AllQueues
    BY SchedAssumption DEF SchedInv, TypeOK, RunningIsRunnable, IsOn, AllQueues
  <2>2. /\ TQ(R) /\ ~Linked(R, current)
        /\ \A r \in AllQueues : OnQueue(R, r) =
              IF r = RQ THEN OnQueue(tq, RQ) \ {current} ELSE OnQueue(tq, r)
    BY <2>1, InvFacts, UnlinkNode DEF TQ
  <2> HIDE DEF R
  <2>3. ~tq_is_empty(R, RQ)
    <3>1. GOD \in OnQueue(R, RQ)
      BY <2>1, <2>2, InvFacts
    <3> QED BY <3>1 DEF klist0_empty, Nodes, Range
  <2>4. TQ(P) /\ \A r \in AllQueues : OnQueue(P, r) = OnQueue(R, r)
    BY <2>2, <2>3, RotateKeeps
  <2> HIDE DEF P
  <2>5. ~Linked(P, current)
    BY <2>2, <2>4, SameLinked
  <2>6. OnQueue(tq', RQ) = OnQueue(P, RQ)
    <3>1. tq' = tq_insert_tail(P, current, q)
      BY DEF P, R
    <3> QED BY <3>1, <2>1, <2>4, <2>5, PrependLinks DEF TQ
  <2> QED BY <2>1, <2>2, <2>4, <2>6 DEF IsOn
<1>3. ASSUME NEW Q, NEW qt, Tick(Q, qt), TQ(Q),
             OnQueue(tq, RQ) \subseteq OnQueue(Q, RQ)
      PROVE  OnQueue(tq, RQ) \subseteq OnQueue(tq', RQ)
  <2>1. ~tq_is_empty(Q, RQ)
    BY <1>3, InvFacts DEF klist0_empty, Nodes, Range
  <2>2. OnQueue(Rotate(Q), RQ) = OnQueue(Q, RQ)
    BY <1>3, <2>1, InvFacts, RotateKeeps
  <2> QED BY <1>3, <2>2 DEF Tick
<1>4. ASSUME NEW q \in Queues, DeviceIrq(q)
      PROVE  OnQueue(tq, RQ) \subseteq OnQueue(tq', RQ)
  <2>1. /\ TQ(Enqueue(tq, q))
        /\ OnQueue(tq, RQ) \subseteq OnQueue(Enqueue(tq, q), RQ)
    BY InvFacts, EnqueueMoves
  <2> QED BY <1>3, <1>4, <2>1 DEF DeviceIrq
<1>5. CASE TimerIrq
  BY <1>3, <1>5, InvFacts DEF TimerIrq
<1>6. ASSUME NEW u \in Threads, Spawn(u)
      PROVE  OnQueue(tq, RQ) \subseteq OnQueue(tq', RQ)
  <2>1. ~Linked(tq, u)
    BY <1>6 DEF Spawn, SchedInv
  <2> QED BY <1>6, <2>1, InvFacts, AppendLinks DEF Spawn, TQ
<1>7. CASE YieldPick
  BY <1>7, InvFacts, RotateKeeps DEF YieldPick
<1>8. CASE Exec \/ YieldEnter \/ SwitchContext \/ UNCHANGED vars
  BY <1>8 DEF Exec, YieldEnter, SwitchContext, vars
<1> QED BY <1>1, <1>2, <1>4, <1>5, <1>6, <1>7, <1>8 DEF Next

\* Only sched0_dequeue, called by the thread itself, takes a thread off the
\* run queue.
THEOREM SleepIsVoluntary == Spec => OnlyItselfSleeps
<1>1. SchedInv /\ [Next]_vars =>
         [\A t \in Threads : IsOn(tq, t, RQ) /\ ~IsOn(tq', t, RQ) =>
             t = current /\ pc'[t] = "dequeued"]_vars
  BY StepSleeps
<1> QED BY <1>1, Invariance, PTL DEF Spec, OnlyItselfSleeps

-----------------------------------------------------------------------------
(* Sleeping. *)

\* What an interval of the list may be.
Ivals == [ticks_left : 0..MaxAge, wake_list : SUBSET Sleepers]

\* f adds up the ticks of the list s.
Sums(f, s) ==
    /\ f \in [0..Len(s) -> Nat]
    /\ f[0] = 0
    /\ \A k \in 1..Len(s) : f[k] = f[k - 1] + s[k].ticks_left

\* The equation Ends is defined by.
Unfolds(g, s) ==
    g = [k \in 0..Len(s) |-> IF k = 0 THEN 0 ELSE g[k - 1] + s[k].ticks_left]

\* The ticks of a list can be added up.
LEMMA SumsExist ==
    ASSUME NEW s \in Seq(Ivals)
    PROVE  \E f : Sums(f, s)
<1> DEFINE Adds(f, n) == /\ f \in [0..n -> Nat] /\ f[0] = 0
                         /\ \A k \in 1..n : f[k] = f[k - 1] + s[k].ticks_left
           T == {n \in Nat : n <= Len(s) /\ ~\E f : Adds(f, n)}
<1>1. Len(s) \in Nat /\ \A k \in 1..Len(s) : s[k].ticks_left \in Nat
  <2>1. \A k \in 1..Len(s) : s[k] \in Ivals
    BY ElementOfSeq
  <2> QED BY <2>1, TimerAssumption DEF Ivals
<1>2. T = {}
  <2> SUFFICES ASSUME T # {} PROVE FALSE
    OBVIOUS
  <2>1. PICK n \in T : \A l \in T : n <= l
    BY LeastNumber
  <2>2. n # 0
    <3> DEFINE z == [i \in 0..0 |-> 0]
    <3>1. Adds(z, 0)
      OBVIOUS
    <3> QED BY <2>1, <3>1
  <2>a. n \in Nat /\ n <= Len(s)
    OBVIOUS
  <2>b. n - 1 \in Nat /\ n - 1 <= Len(s) /\ n \in 1..Len(s) /\ ~(n <= n - 1)
    BY <1>1, <2>2, <2>a
  <2>3. n - 1 \in Nat /\ n - 1 \notin T /\ n - 1 <= Len(s) /\ n \in 1..Len(s)
    BY <2>1, <2>b
  <2>4. PICK f : Adds(f, n - 1)
    BY <2>3
  <2> DEFINE g == [i \in 0..n |-> IF i = n THEN f[n - 1] + s[n].ticks_left ELSE f[i]]
  <2>5. f[n - 1] \in Nat
    BY <2>3, <2>4
  <2>6. g \in [0..n -> Nat] /\ g[0] = 0
    BY <1>1, <2>2, <2>3, <2>4, <2>5
  <2>7. ASSUME NEW k \in 1..n PROVE g[k] = g[k - 1] + s[k].ticks_left
    <3>1. k \in 0..n /\ k - 1 \in 0..n /\ k - 1 # n
      BY <2>3
    <3>2. g[k - 1] = f[k - 1]
      BY <3>1
    <3>3. CASE k = n
      BY <3>1, <3>2, <3>3
    <3>4. CASE k # n
      <4>1. k \in 1..(n - 1)
        BY <2>3, <3>4
      <4> QED BY <2>4, <3>1, <3>2, <3>4, <4>1
    <3> QED BY <3>3, <3>4
  <2> HIDE DEF g
  <2>8. Adds(g, n)
    BY <2>6, <2>7
  <2> QED BY <2>1, <2>8
<1>3. \E f : Adds(f, Len(s))
  BY <1>1, <1>2
<1> QED BY <1>3 DEF Sums

\* They can be added up in one way only.
LEMMA SumsUnique ==
    ASSUME NEW s \in Seq(Ivals), NEW f, Sums(f, s), NEW g, Unfolds(g, s)
    PROVE  g = f
<1> DEFINE T == {k \in Nat : k \in 0..Len(s) /\ g[k] # f[k]}
<1>1. Len(s) \in Nat
  OBVIOUS
<1>2. T = {}
  <2> SUFFICES ASSUME T # {} PROVE FALSE
    OBVIOUS
  <2>1. PICK n \in T : \A l \in T : n <= l
    BY LeastNumber
  <2>2. n # 0
    BY <1>1 DEF Sums, Unfolds
  <2>3. n - 1 \in 0..Len(s) /\ n - 1 \notin T /\ n \in 1..Len(s)
    BY <1>1, <2>1, <2>2
  <2>4. g[n - 1] = f[n - 1]
    BY <2>3
  <2>5. g[n] = g[n - 1] + s[n].ticks_left
    BY <2>2, <2>3 DEF Unfolds
  <2> QED BY <2>1, <2>3, <2>4, <2>5 DEF Sums
<1>3. f = [k \in 0..Len(s) |-> f[k]] /\ g = [k \in 0..Len(s) |-> g[k]]
  BY DEF Sums, Unfolds
<1>4. ASSUME NEW k \in 0..Len(s) PROVE g[k] = f[k]
  <2>1. k \in Nat /\ k \notin T
    BY <1>1, <1>2
  <2> QED BY <2>1
<1> QED BY <1>3, <1>4

\* Ends adds them up.
LEMMA EndsAre ==
    ASSUME NEW s \in Seq(Ivals)
    PROVE  Sums(Ends(s), s) /\ \A f : Sums(f, s) => Ends(s) = f
<1>1. PICK f : Sums(f, s)
  BY SumsExist
<1>2. Unfolds(f, s)
  <2>1. f = [k \in 0..Len(s) |-> f[k]]
    BY <1>1 DEF Sums
  <2>2. \A k \in 0..Len(s) : f[k] = IF k = 0 THEN 0 ELSE f[k - 1] + s[k].ticks_left
    BY <1>1 DEF Sums
  <2> QED BY <2>1, <2>2 DEF Unfolds
<1>3. Ends(s) = CHOOSE g : Unfolds(g, s)
  BY DEF Ends, Unfolds
<1>4. Unfolds(Ends(s), s)
  BY <1>2, <1>3
<1>5. \A h : Sums(h, s) => Ends(s) = h
  BY <1>4, SumsUnique
<1> QED BY <1>1, <1>5

\* The ticks by which a thread of interval k may still exceed its delay: each
\* interval in front of its own costs one tick more than it counts, and
\* between two that expire at least one tick is counted.
Slack(f, k) ==
    IF f[k] = 0 THEN 0 ELSE 2 * f[k] - 1 + (IF k > 1 /\ f[1] = 0 THEN 1 ELSE 0)

Apart == \A j, k \in Intervals : j # k => future[j].wake_list \cap future[k].wake_list = {}
Due == \A k \in Intervals : \A t \in future[k].wake_list : age[t] + Ends(future)[k] >= delay[t]
Soon ==
    \A k \in Intervals : \A t \in future[k].wake_list :
        age[t] + Slack(Ends(future), k) <= 2 * delay[t]

(***************************************************************************)
(* Nobody is on two wake_lists; the ticks up to the end of an interval are *)
(* what its threads still have to wait, and not many more than they asked  *)
(* for.  Once a tsleep has failed with future_lock taken nothing moves.    *)
(***************************************************************************)
TimeInv ==
    /\ TimeTypeOK /\ DistinctDeadlines /\ Apart
    /\ future_lock = 0 => Due
    /\ 0 \notin Delays => IF future_lock = 0 THEN Soon ELSE NotTooLate

\* The list and its sums.
LEMMA TimeFacts ==
    ASSUME TimeTypeOK, DistinctDeadlines
    PROVE  /\ future \in Seq(Ivals) /\ Len(future) \in Nat /\ Intervals = 1..Len(future)
           /\ \A k \in Intervals : /\ future[k] \in Ivals /\ future[k].ticks_left \in Nat
                                   /\ future[k].wake_list \subseteq Sleepers
           /\ Sums(Ends(future), future)
           /\ \A k \in Intervals : /\ Ends(future)[k] \in Nat
                                   /\ k > 1 => Ends(future)[k] >= 1
<1>1. future \in Seq(Ivals)
  BY DEF TimeTypeOK, Ivals
<1>2. Len(future) \in Nat /\ Intervals = 1..Len(future)
  BY <1>1, LenProperties DEF Intervals
<1>3. ASSUME NEW k \in Intervals
      PROVE  /\ future[k] \in Ivals /\ future[k].ticks_left \in Nat
             /\ future[k].wake_list \subseteq Sleepers
  <2>1. future[k] \in Ivals
    BY <1>1, <1>2, ElementOfSeq
  <2> QED BY <2>1, TimerAssumption DEF Ivals
<1>4. Sums(Ends(future), future)
  BY <1>1, EndsAre
<1>5. ASSUME NEW k \in Intervals
      PROVE  Ends(future)[k] \in Nat /\ (k > 1 => Ends(future)[k] >= 1)
  <2> DEFINE f == Ends(future)
  <2>1. k \in Nat /\ k \in 0..Len(future) /\ k - 1 \in 0..Len(future) /\ k \in 1..Len(future)
    BY <1>2
  <2>2. f[k] \in Nat /\ f[k - 1] \in Nat /\ f[k] = f[k - 1] + future[k].ticks_left
    BY <1>4, <2>1 DEF Sums
  <2>3. k > 1 => future[k].ticks_left > 0
    BY <2>1 DEF DistinctDeadlines
  <2> HIDE DEF f
  <2>4. f[k] \in Nat /\ (k > 1 => f[k] >= 1)
    BY <1>3, <2>2, <2>3
  <2> QED BY <2>4 DEF f
<1> QED BY <1>1, <1>2, <1>3, <1>4, <1>5

\* Putting an element into a sequence.
LEMMA InsertIs ==
    ASSUME NEW S, NEW s \in Seq(S), NEW i \in 1..(Len(s) + 1), NEW e \in S
    PROVE  /\ Inserted(s, i, e) \in Seq(S) /\ Len(Inserted(s, i, e)) = Len(s) + 1
           /\ \A j \in 1..(Len(s) + 1) :
                 Inserted(s, i, e)[j] = IF j < i THEN s[j] ELSE IF j = i THEN e ELSE s[j - 1]
<1> DEFINE a == SubSeq(s, 1, i - 1)
           b == <<e>>
           c == SubSeq(s, i, Len(s))
           n == Len(s)
<1>1. n \in Nat /\ i \in Nat /\ 1 <= i /\ i <= n + 1 /\ \A j \in 1..n : s[j] \in S
  BY ElementOfSeq
<1>2. /\ a \in Seq(S) /\ Len(a) = i - 1 /\ \A j \in 1..(i - 1) : a[j] = s[j]
  <2>1. \A j \in 1..(i - 1) : s[j] \in S
    BY <1>1
  <2>2. /\ a \in Seq(S) /\ Len(a) = IF 1 <= i - 1 THEN (i - 1) - 1 + 1 ELSE 0
        /\ \A j \in 1..((i - 1) - 1 + 1) : a[j] = s[1 + j - 1]
    BY <1>1, <2>1, SubSeqProperties
  <2> HIDE DEF a
  <2>3. Len(a) = i - 1
    BY <1>1, <2>2
  <2>4. \A j \in 1..(i - 1) : a[j] = s[j]
    BY <1>1, <2>2
  <2> QED BY <2>2, <2>3, <2>4
<1>3. /\ c \in Seq(S) /\ Len(c) = n + 1 - i /\ \A j \in 1..(n + 1 - i) : c[j] = s[i + j - 1]
  <2>1. \A j \in i..n : s[j] \in S
    BY <1>1
  <2>2. /\ c \in Seq(S) /\ Len(c) = IF i <= n THEN n - i + 1 ELSE 0
        /\ \A j \in 1..(n - i + 1) : c[j] = s[i + j - 1]
    BY <1>1, <2>1, SubSeqProperties
  <2> HIDE DEF c
  <2>3. Len(c) = n + 1 - i
    BY <1>1, <2>2
  <2>4. \A j \in 1..(n + 1 - i) : c[j] = s[i + j - 1]
    BY <1>1, <2>2
  <2> QED BY <2>2, <2>3, <2>4
<1>4. b \in Seq(S) /\ Len(b) = 1 /\ b[1] = e
  OBVIOUS
<1> HIDE DEF a, b, c
<1> DEFINE ab == a \o b
<1>5. /\ ab \in Seq(S) /\ Len(ab) = Len(a) + Len(b)
      /\ \A j \in 1..(Len(a) + Len(b)) : ab[j] = IF j <= Len(a) THEN a[j] ELSE b[j - Len(a)]
  BY <1>2, <1>4, ConcatProperties
<1> HIDE DEF ab
<1>6. /\ ab \in Seq(S) /\ Len(ab) = i /\ \A j \in 1..i : ab[j] = IF j < i THEN s[j] ELSE e
  <2>1. Len(ab) = i
    BY <1>1, <1>2, <1>4, <1>5
  <2>2. ASSUME NEW j \in 1..i PROVE ab[j] = IF j < i THEN s[j] ELSE e
    <3>1. j \in 1..(Len(a) + Len(b)) /\ (j < i => j <= Len(a) /\ j \in 1..(i - 1))
      BY <1>1, <1>2, <1>4
    <3>2. ~(j < i) => ~(j <= Len(a)) /\ j - Len(a) = 1
      BY <1>1, <1>2, <1>4
    <3> QED BY <1>2, <1>4, <1>5, <3>1, <3>2
  <2> QED BY <1>5, <2>1, <2>2
<1> DEFINE abc == ab \o c
<1>7. /\ abc \in Seq(S) /\ Len(abc) = Len(ab) + Len(c)
      /\ \A j \in 1..(Len(ab) + Len(c)) : abc[j] = IF j <= Len(ab) THEN ab[j] ELSE c[j - Len(ab)]
  BY <1>3, <1>6, ConcatProperties
<1>8. Inserted(s, i, e) = abc
  BY DEF Inserted, a, b, c, ab
<1> HIDE DEF abc
<1>9. Len(abc) = n + 1
  BY <1>1, <1>3, <1>6, <1>7
<1>10. ASSUME NEW j \in 1..(n + 1)
       PROVE  abc[j] = IF j < i THEN s[j] ELSE IF j = i THEN e ELSE s[j - 1]
  <2>1. j \in 1..(Len(ab) + Len(c))
    BY <1>1, <1>3, <1>6
  <2>2. CASE j <= i
    <3>1. j \in 1..i /\ j <= Len(ab)
      BY <1>1, <1>6, <2>2
    <3>2. abc[j] = IF j < i THEN s[j] ELSE e
      BY <1>6, <1>7, <2>1, <3>1
    <3> QED BY <1>1, <2>2, <3>2
  <2>3. CASE ~(j <= i)
    <3>1. j - i \in 1..(n + 1 - i) /\ ~(j <= Len(ab)) /\ i + (j - i) - 1 = j - 1
      BY <1>1, <1>6, <2>3
    <3>2. abc[j] = c[j - i]
      BY <1>6, <1>7, <2>1, <3>1
    <3>3. c[j - i] = s[i + (j - i) - 1]
      BY <1>3, <3>1
    <3> QED BY <1>1, <2>3, <3>1, <3>2, <3>3
  <2> QED BY <2>2, <2>3
<1> QED BY <1>7, <1>8, <1>9, <1>10

\* What the loop of tsleep has left of the delay where it stops.
LEMMA StopFacts ==
    ASSUME TimeInv, NEW d \in Delays, NEW k \in 1..(Len(future) + 1), StopsAt(k, d),
           NEW left, left = d - Through(k - 1)
    PROVE  /\ left \in 0..MaxAge /\ left \in Nat /\ Ends(future)[k - 1] \in Nat
           /\ Ends(future)[k - 1] + left = d
           /\ k > 1 => left > 0
           /\ k = 1 => left = d
<1> DEFINE f == Ends(future)
           b == f[k - 1]
<1>1. Sums(f, future) /\ Len(future) \in Nat
  BY TimeFacts DEF TimeInv
<1>2. k \in Nat /\ k - 1 \in 0..Len(future) /\ (k > 1 => k - 1 \in 1..(k - 1)) /\ (k = 1 => k - 1 = 0)
  BY <1>1
<1>3. b \in Nat /\ (k = 1 => b = 0)
  BY <1>1, <1>2 DEF Sums
<1>4. k > 1 => b < d
  BY <1>2 DEF StopsAt, Through
<1>5. d \in Nat /\ MaxAge \in Nat /\ d < MaxAge
  BY TimerAssumption
<1>6. left = d - b /\ (k = 1 \/ k > 1)
  BY <1>2 DEF Through
<1> HIDE DEF f, b
<1>7. /\ left \in 0..MaxAge /\ left \in Nat /\ b \in Nat /\ b + left = d
      /\ k > 1 => left > 0
      /\ k = 1 => left = d
  BY <1>3, <1>4, <1>5, <1>6
<1> QED BY <1>7 DEF f, b

\* Where the intervals end at g after the step: t waits for d ticks, and every
\* other thread for as many as before.
Placed(g, t, d) ==
    /\ \A k \in 1..Len(future') : t \in future'[k].wake_list => g[k] = d
    /\ \A k \in 1..Len(future') : \A u \in future'[k].wake_list \ {t} :
           \E j \in Intervals :
               /\ u \in future[j].wake_list /\ g[k] = Ends(future)[j]
               /\ 0 \notin Delays /\ k > 1 /\ g[1] = 0 => j > 1 /\ Ends(future)[1] = 0

\* A thread that goes to sleep has d ticks in front of it, the others as many
\* as before.
LEMMA SleepKeeps ==
    ASSUME TimeInv, NEW t \in Sleepers, NEW d \in Delays, future_lock = 0, GoesToSleep(t, d),
           future' \in Seq(Ivals), NEW g, Sums(g, future'),
           Placed(g, t, d), DistinctDeadlines', Apart'
    PROVE  TimeInv'
<1> DEFINE f == Ends(future)
<1>1. /\ age' = [age EXCEPT ![t] = 0] /\ delay' = [delay EXCEPT ![t] = d]
      /\ future_lock' = 0
  BY DEF GoesToSleep
<1>2. /\ age \in [Sleepers -> 0..MaxAge] /\ delay \in [Sleepers -> Delays \cup {0}]
      /\ Delays \subseteq Nat /\ MaxAge \in Nat /\ d \in Nat
  BY TimerAssumption DEF TimeInv, TimeTypeOK
<1>3. TimeTypeOK'
  <2>1. age' \in [Sleepers -> 0..MaxAge]
    BY <1>1, <1>2
  <2>2. delay' \in [Sleepers -> Delays \cup {0}]
    BY <1>1, <1>2
  <2> QED BY <1>1, <2>1, <2>2 DEF TimeTypeOK, Ivals
<1>4. Ends(future') = g
  BY EndsAre
<1>5. DOMAIN future' = 1..Len(future') /\ Len(future') \in Nat
  BY LenProperties
<1>6. \A k \in 1..Len(future') : g[k] \in Nat /\ future'[k].wake_list \subseteq Sleepers
  <2>1. \A k \in 1..Len(future') : k \in 0..Len(future') /\ future'[k] \in Ivals
    BY <1>5, ElementOfSeq
  <2> QED BY <2>1 DEF Sums, Ivals
<1>7. /\ \A j \in Intervals : f[j] \in Nat
      /\ \A j \in Intervals : \A u \in future[j].wake_list : age[u] + f[j] >= delay[u]
  BY TimeFacts DEF TimeInv, Due
<1>8. 0 \notin Delays => \A j \in Intervals : \A u \in future[j].wake_list :
                              age[u] + Slack(f, j) <= 2 * delay[u]
  BY DEF TimeInv, Soon
<1> HIDE DEF f
<1>9. ASSUME NEW k \in 1..Len(future'), NEW u \in future'[k].wake_list
      PROVE  /\ age'[u] + g[k] >= delay'[u]
             /\ 0 \notin Delays => age'[u] + Slack(g, k) <= 2 * delay'[u]
  <2>1. u \in Sleepers /\ g[k] \in Nat
    BY <1>6
  <2>2. CASE u = t
    <3>1. age'[u] = 0 /\ delay'[u] = d /\ g[k] = d
      BY <1>1, <1>2, <2>2 DEF Placed
    <3>2. 0 \notin Delays => Slack(g, k) <= 2 * d /\ Slack(g, k) \in Int
      <4>1. 0 \notin Delays => d # 0
        OBVIOUS
      <4> QED BY <1>2, <3>1, <4>1 DEF Slack
    <3> QED BY <1>2, <3>1, <3>2
  <2>3. CASE u # t
    <3>1. PICK j \in Intervals :
              /\ u \in future[j].wake_list /\ g[k] = f[j]
              /\ 0 \notin Delays /\ k > 1 /\ g[1] = 0 => j > 1 /\ f[1] = 0
      BY <2>3 DEF f, Placed
    <3>2. age'[u] = age[u] /\ delay'[u] = delay[u] /\ age[u] \in Nat /\ delay[u] \in Nat
      <4>1. age'[u] = age[u]
        BY <1>1, <1>2, <2>1, <2>3
      <4>2. delay'[u] = delay[u]
        BY <1>1, <1>2, <2>1, <2>3
      <4>3. age[u] \in 0..MaxAge /\ delay[u] \in Delays \cup {0}
        BY <1>2, <2>1
      <4>4. age[u] \in Nat
        BY <1>2, <4>3
      <4>5. delay[u] \in Nat
        <5>1. 0 \in Nat /\ (delay[u] \in Delays \/ delay[u] = 0)
          BY <4>3
        <5> QED BY <1>2, <5>1
      <4> QED BY <4>1, <4>2, <4>4, <4>5
    <3>3. 0 \notin Delays => /\ Slack(g, k) <= Slack(f, j)
                             /\ Slack(g, k) \in Int /\ Slack(f, j) \in Int
      BY <2>1, <3>1 DEF Slack
    <3>4. 0 \notin Delays => age[u] + Slack(f, j) <= 2 * delay[u]
      BY <1>8, <3>1
    <3>5. age[u] + f[j] >= delay[u]
      BY <1>7, <3>1
    <3> QED BY <3>1, <3>2, <3>3, <3>4, <3>5
  <2> QED BY <2>2, <2>3
<1>10. Due'
  BY <1>4, <1>5, <1>9 DEF Due, Intervals
<1>11. 0 \notin Delays => Soon'
  BY <1>4, <1>5, <1>9 DEF Soon, Intervals
<1> QED BY <1>1, <1>3, <1>10, <1>11 DEF TimeInv

\* tsleep cuts an interval in two.
LEMMA SplitKeeps ==
    ASSUME TimeInv, NEW t \in Sleepers, NEW d \in Delays, NEW k \in Intervals, TSleepSplit(t, d, k)
    PROVE  TimeInv' /\ A!Sleep(t, d)
<1> DEFINE f == Ends(future)
           n == Len(future)
           left == d - Through(k - 1)
           cut == [future[k] EXCEPT !.ticks_left = @ - left]
           r == [future EXCEPT ![k] = cut]
           e == Interval(left, t)
           g == [j \in 0..(n + 1) |-> IF j < k THEN f[j] ELSE IF j = k THEN d ELSE f[j - 1]]
<1>1. /\ future \in Seq(Ivals) /\ n \in Nat /\ Intervals = 1..n
      /\ \A j \in 1..n : /\ future[j] \in Ivals /\ future[j].ticks_left \in Nat
                         /\ future[j].wake_list \subseteq Sleepers
      /\ Sums(f, future)
  BY TimeFacts DEF TimeInv
<1>2. /\ future_lock = 0 /\ t \notin Sleeping /\ StopsAt(k, d) /\ left < future[k].ticks_left
      /\ GoesToSleep(t, d)
      /\ future' = Inserted([future EXCEPT ![k].ticks_left = @ - left], k, e)
  BY DEF TSleepSplit
<1>3. k \in 1..n /\ k \in 1..(n + 1) /\ k \in Nat
  BY <1>1
<1>4. /\ left \in 0..MaxAge /\ left \in Nat /\ f[k - 1] \in Nat /\ f[k - 1] + left = d
      /\ (k > 1 => left > 0) /\ (k = 1 => left = d)
  <2> HIDE DEF left
  <2>1. left = d - Through(k - 1)
    BY DEF left
  <2> QED BY <1>2, <1>3, <2>1, StopFacts
<1> HIDE DEF left
<1>5. /\ cut \in Ivals /\ cut.ticks_left = future[k].ticks_left - left
      /\ cut.wake_list = future[k].wake_list
  <2>1. future[k] \in Ivals
    BY <1>1, <1>3
  <2>2. future[k].ticks_left - left \in 0..MaxAge
    BY <1>2, <1>4, <2>1, TimerAssumption DEF Ivals
  <2> QED BY <2>1, <2>2 DEF Ivals
<1>6. e \in Ivals /\ e.ticks_left = left /\ e.wake_list = {t}
  BY <1>4 DEF Interval, Ivals
<1>7. [future EXCEPT ![k].ticks_left = @ - left] = r
  OBVIOUS
<1> HIDE DEF cut, e
<1>8. /\ r \in Seq(Ivals) /\ Len(r) = n
      /\ \A j \in 1..n : r[j] = IF j = k THEN cut ELSE future[j]
  BY <1>1, <1>3, <1>5, ExceptSeq
<1> HIDE DEF r
<1>9. /\ future' \in Seq(Ivals) /\ Len(future') = n + 1
      /\ \A j \in 1..(n + 1) : future'[j] = IF j < k THEN r[j] ELSE IF j = k THEN e ELSE r[j - 1]
  <2>1. k \in 1..(Len(r) + 1) /\ future' = Inserted(r, k, e)
    BY <1>2, <1>3, <1>7, <1>8
  <2>2. /\ Inserted(r, k, e) \in Seq(Ivals) /\ Len(Inserted(r, k, e)) = Len(r) + 1
        /\ \A j \in 1..(Len(r) + 1) :
              Inserted(r, k, e)[j] = IF j < k THEN r[j] ELSE IF j = k THEN e ELSE r[j - 1]
    BY <1>6, <1>8, <2>1, InsertIs
  <2> QED BY <1>8, <2>1, <2>2
<1>10. ASSUME NEW j \in 1..(n + 1)
       PROVE  /\ j < k => j \in 1..n /\ future'[j] = future[j]
              /\ j = k => future'[j] = e
              /\ j = k + 1 => future'[j] = cut
              /\ j > k + 1 => j - 1 \in 1..n /\ future'[j] = future[j - 1]
  <2>1. future'[j] = IF j < k THEN r[j] ELSE IF j = k THEN e ELSE r[j - 1]
    BY <1>9
  <2>2. j < k => j \in 1..n /\ j # k
    BY <1>1, <1>3
  <2>3. j > k => j - 1 \in 1..n /\ ~(j < k) /\ j # k
    BY <1>1, <1>3
  <2>4. j = k + 1 => j - 1 = k /\ j > k
    BY <1>3
  <2>5. j > k + 1 => j - 1 # k /\ j > k
    BY <1>1, <1>3
  <2>6. j < k => future'[j] = future[j]
    BY <1>8, <2>1, <2>2
  <2>7. j = k => future'[j] = e
    BY <1>3, <2>1
  <2>8. j = k + 1 => future'[j] = cut
    BY <1>8, <2>1, <2>3, <2>4
  <2>9. j > k + 1 => future'[j] = future[j - 1]
    BY <1>8, <2>1, <2>3, <2>5
  <2> QED BY <2>2, <2>3, <2>5, <2>6, <2>7, <2>8, <2>9
<1>11. /\ f \in [0..n -> Nat] /\ f[0] = 0
       /\ \A j \in 1..n : f[j] = f[j - 1] + future[j].ticks_left
  BY <1>1 DEF Sums
<1> HIDE DEF f
<1>12. d \in Nat
  BY TimerAssumption
<1>13. Sums(g, future')
  <2>1. g \in [0..(n + 1) -> Nat]
    BY <1>1, <1>3, <1>11, <1>12
  <2>2. g[0] = 0
    BY <1>1, <1>3, <1>11
  <2>3. ASSUME NEW j \in 1..(n + 1) PROVE g[j] = g[j - 1] + future'[j].ticks_left
    <3>1. j \in 0..(n + 1) /\ j - 1 \in 0..(n + 1) /\ j \in Nat
      BY <1>1
    <3>2. /\ g[j] = IF j < k THEN f[j] ELSE IF j = k THEN d ELSE f[j - 1]
          /\ g[j - 1] = IF j - 1 < k THEN f[j - 1] ELSE IF j - 1 = k THEN d ELSE f[j - 1 - 1]
      BY <3>1
    <3> HIDE DEF g
    <3>3. CASE j < k
      <4>1. j \in 1..n /\ future'[j] = future[j] /\ j - 1 < k
        BY <1>3, <1>10, <3>1, <3>3
      <4> QED BY <1>11, <3>2, <3>3, <4>1
    <3>4. CASE j = k
      <4>1. future'[j].ticks_left = left /\ j - 1 < k /\ ~(j < k)
        BY <1>3, <1>6, <1>10, <3>1, <3>4
      <4> QED BY <1>4, <3>2, <3>4, <4>1
    <3>5. CASE j = k + 1
      <4>1. /\ future'[j].ticks_left = future[k].ticks_left - left
            /\ g[j] = f[k] /\ g[j - 1] = d
        BY <1>3, <1>5, <1>10, <3>1, <3>2, <3>5
      <4>2. f[k] = f[k - 1] + future[k].ticks_left /\ future[k].ticks_left \in Nat
        BY <1>1, <1>3, <1>11
      <4> QED BY <1>4, <1>12, <4>1, <4>2
    <3>6. CASE j > k + 1
      <4>1. /\ j - 1 \in 1..n /\ future'[j] = future[j - 1]
            /\ g[j] = f[j - 1] /\ g[j - 1] = f[j - 1 - 1]
        BY <1>3, <1>10, <3>1, <3>2, <3>6
      <4> QED BY <1>11, <4>1
    <3> QED BY <1>3, <3>1, <3>3, <3>4, <3>5, <3>6
  <2> HIDE DEF g
  <2> QED BY <1>9, <2>1, <2>2, <2>3 DEF Sums
<1>14. \A j \in 1..n : t \notin future[j].wake_list
  BY <1>1, <1>2 DEF Sleeping
<1>15. \A j \in 1..(n + 1) : future'[j].wake_list =
           IF j < k THEN future[j].wake_list ELSE IF j = k THEN {t} ELSE future[j - 1].wake_list
  <2> SUFFICES ASSUME NEW j \in 1..(n + 1)
               PROVE  future'[j].wake_list =
           IF j < k THEN future[j].wake_list ELSE IF j = k THEN {t} ELSE future[j - 1].wake_list
    OBVIOUS
  <2>1. j \in Nat /\ (j < k \/ j = k \/ j = k + 1 \/ j > k + 1) /\ (k + 1) - 1 = k
    BY <1>1, <1>3
  <2> QED BY <1>3, <1>5, <1>6, <1>10, <2>1
<1>16. \A j \in 1..(n + 1) : t \in future'[j].wake_list => g[j] = d
  <2>1. \A j \in 1..(n + 1) : /\ j \in 0..(n + 1) /\ (j < k => j \in 1..n)
                              /\ (~(j < k) /\ j # k => j - 1 \in 1..n)
    BY <1>1, <1>3
  <2> QED BY <1>14, <1>15, <2>1
<1>17. ASSUME NEW j \in 1..(n + 1), NEW u \in future'[j].wake_list \ {t}
       PROVE  \E i \in Intervals :
                   /\ u \in future[i].wake_list /\ g[j] = f[i]
                   /\ 0 \notin Delays /\ j > 1 /\ g[1] = 0 => i > 1 /\ f[1] = 0
  <2>1. j \in 0..(n + 1) /\ 1 \in 0..(n + 1) /\ j # k
    BY <1>1, <1>15
  <2>2. /\ g[j] = IF j < k THEN f[j] ELSE f[j - 1]
        /\ g[1] = IF 1 < k THEN f[1] ELSE IF 1 = k THEN d ELSE f[0]
    BY <2>1
  <2> HIDE DEF g
  <2>3. CASE j < k
    <3>1. j \in 1..n /\ u \in future[j].wake_list /\ 1 < k
      BY <1>1, <1>3, <1>15, <2>3
    <3> QED BY <1>1, <2>2, <2>3, <3>1
  <2>4. CASE ~(j < k)
    <3>1. j - 1 \in 1..n /\ u \in future[j - 1].wake_list /\ (1 < k => j - 1 > 1)
      BY <1>1, <1>3, <1>15, <2>1, <2>4
    <3>2. 0 \notin Delays /\ g[1] = 0 => 1 < k
      BY <1>3, <2>2
    <3> QED BY <1>1, <2>2, <2>4, <3>1, <3>2
  <2> QED BY <2>3, <2>4
<1>18. DOMAIN future' = 1..(n + 1)
  BY <1>9, LenProperties
<1>19. DistinctDeadlines'
  <2> SUFFICES ASSUME NEW j \in 1..(n + 1), j # 1 PROVE future'[j].ticks_left > 0
    BY <1>18 DEF DistinctDeadlines, Intervals
  <2>1. j \in Nat /\ (j < k \/ j = k \/ j = k + 1 \/ j > k + 1) /\ j > 1
    BY <1>1, <1>3
  <2>2. \A i \in 1..n : i # 1 => future[i].ticks_left > 0
    BY <1>1 DEF TimeInv, DistinctDeadlines
  <2>3. CASE j < k
    BY <1>10, <2>1, <2>2, <2>3
  <2>4. CASE j = k
    BY <1>4, <1>6, <1>10, <2>1, <2>4
  <2>5. CASE j = k + 1
    <3>1. future[k].ticks_left - left > 0
      BY <1>1, <1>2, <1>3, <1>4
    <3> QED BY <1>5, <1>10, <2>5, <3>1
  <2>6. CASE j > k + 1
    BY <1>3, <1>10, <2>1, <2>2, <2>6
  <2> QED BY <2>1, <2>3, <2>4, <2>5, <2>6
<1>20. Apart'
  <2> SUFFICES ASSUME NEW i \in 1..(n + 1), NEW j \in 1..(n + 1), i # j,
                      NEW u, u \in future'[i].wake_list, u \in future'[j].wake_list
               PROVE  FALSE
    BY <1>18 DEF Apart, Intervals
  <2>1. \A a, b \in 1..n : a # b => future[a].wake_list \cap future[b].wake_list = {}
    BY <1>1 DEF TimeInv, Apart
  <2> DEFINE Old(x) == IF x < k THEN x ELSE x - 1
  <2>2. CASE i # k /\ j # k
    <3>1. Old(i) \in 1..n /\ Old(j) \in 1..n /\ Old(i) # Old(j)
      BY <1>1, <1>3, <2>2
    <3>2. u \in future[Old(i)].wake_list /\ u \in future[Old(j)].wake_list
      BY <1>15, <2>2
    <3> HIDE DEF Old
    <3> QED BY <2>1, <3>1, <3>2
  <2>3. CASE i = k
    <3>1. u = t /\ j # k /\ Old(j) \in 1..n
      BY <1>1, <1>3, <1>15, <2>3
    <3> QED BY <1>14, <1>15, <3>1
  <2>4. CASE j = k
    <3>1. u = t /\ i # k /\ Old(i) \in 1..n
      BY <1>1, <1>3, <1>15, <2>4
    <3> QED BY <1>14, <1>15, <3>1
  <2> QED BY <2>2, <2>3, <2>4
<1>21. TimeInv'
  <2> HIDE DEF g
  <2>1. \A j \in 1..Len(future') : t \in future'[j].wake_list => g[j] = d
    BY <1>9, <1>16
  <2>2. \A j \in 1..Len(future') : \A u \in future'[j].wake_list \ {t} :
            \E i \in Intervals :
                   /\ u \in future[i].wake_list /\ g[j] = Ends(future)[i]
                   /\ 0 \notin Delays /\ j > 1 /\ g[1] = 0 => i > 1 /\ Ends(future)[1] = 0
    BY <1>9, <1>17 DEF f
  <2>3. Placed(g, t, d)
    BY <2>1, <2>2 DEF Placed
  <2> QED BY <1>2, <1>9, <1>13, <1>19, <1>20, <2>3, SleepKeeps
<1>22. Sleeping' = Sleeping \cup {t}
  <2>1. ASSUME NEW u \in Sleeping' PROVE u \in Sleeping \cup {t}
    <3>1. PICK j \in 1..(n + 1) : u \in future'[j].wake_list
      BY <1>18 DEF Sleeping, Intervals
    <3>2. j < k => j \in 1..n
      BY <1>10
    <3>3. ~(j < k) /\ j # k => j - 1 \in 1..n
      BY <1>1, <1>3
    <3> QED BY <1>1, <1>15, <3>1, <3>2, <3>3 DEF Sleeping
  <2>2. t \in Sleeping'
    <3>1. k \in 1..(n + 1) /\ t \in future'[k].wake_list
      BY <1>3, <1>15
    <3> QED BY <1>18, <3>1 DEF Sleeping, Intervals
  <2>3. ASSUME NEW u \in Sleeping PROVE u \in Sleeping'
    <3>1. PICK j \in 1..n : u \in future[j].wake_list
      BY <1>1 DEF Sleeping
    <3> DEFINE i == IF j < k THEN j ELSE j + 1
    <3>2. i \in 1..(n + 1) /\ i # k /\ (i < k => j = i) /\ (~(i < k) => j = i - 1)
      BY <1>1, <1>3
    <3> HIDE DEF i
    <3>3. u \in future'[i].wake_list
      BY <1>15, <3>1, <3>2
    <3> QED BY <1>18, <3>2, <3>3 DEF Sleeping, Intervals
  <2> QED BY <2>1, <2>2, <2>3
<1> QED BY <1>2, <1>21, <1>22 DEF A!Sleep, GoesToSleep

\* A record of the list with another wake_list or other ticks.
LEMMA IvalParts ==
    ASSUME NEW x \in Ivals, NEW n \in 0..MaxAge, NEW w \in SUBSET Sleepers
    PROVE  /\ [x EXCEPT !.ticks_left = n] \in Ivals
           /\ [x EXCEPT !.ticks_left = n].ticks_left = n
           /\ [x EXCEPT !.ticks_left = n].wake_list = x.wake_list
           /\ [x EXCEPT !.wake_list = w] \in Ivals
           /\ [x EXCEPT !.wake_list = w].ticks_left = x.ticks_left
           /\ [x EXCEPT !.wake_list = w].wake_list = w
BY DEF Ivals

\* tsleep adds the thread to an interval that ends when it is due.
LEMMA JoinKeeps ==
    ASSUME TimeInv, NEW t \in Sleepers, NEW d \in Delays, NEW k \in Intervals, TSleepJoin(t, d, k)
    PROVE  TimeInv' /\ A!Sleep(t, d)
<1> DEFINE f == Ends(future)
           n == Len(future)
           left == d - Through(k - 1)
           w == future[k].wake_list \cup {t}
           r == [future[k] EXCEPT !.wake_list = w]
<1>1. /\ future \in Seq(Ivals) /\ n \in Nat /\ Intervals = 1..n
      /\ \A j \in 1..n : /\ future[j] \in Ivals /\ future[j].ticks_left \in Nat
                         /\ future[j].wake_list \subseteq Sleepers
      /\ Sums(f, future)
  BY TimeFacts DEF TimeInv
<1>2. /\ future_lock = 0 /\ t \notin Sleeping /\ StopsAt(k, d) /\ left = future[k].ticks_left
      /\ GoesToSleep(t, d) /\ future' = [future EXCEPT ![k] = r]
  BY DEF TSleepJoin
<1>3. k \in 1..n /\ k \in 1..(n + 1)
  BY <1>1
<1>4. f[k - 1] + left = d
  <2> HIDE DEF left
  <2>1. left = d - Through(k - 1)
    BY DEF left
  <2> QED BY <1>2, <1>3, <2>1, StopFacts
<1>5. f[k] = d
  BY <1>1, <1>2, <1>3, <1>4 DEF Sums
<1>6. r \in Ivals /\ r.ticks_left = future[k].ticks_left /\ r.wake_list = w
  <2>1. future[k] \in Ivals /\ w \in SUBSET Sleepers
    BY <1>1, <1>3
  <2>2. 0 \in 0..MaxAge
    BY TimerAssumption
  <2> QED BY <2>1, <2>2, IvalParts
<1> HIDE DEF r, left, f
<1>7. /\ future' \in Seq(Ivals) /\ Len(future') = n
      /\ \A j \in 1..n : future'[j] = IF j = k THEN r ELSE future[j]
  BY <1>1, <1>2, <1>3, <1>6, ExceptSeq
<1>8. \A j \in 1..n : /\ future'[j].ticks_left = future[j].ticks_left
                      /\ future'[j].wake_list = IF j = k THEN w ELSE future[j].wake_list
  BY <1>6, <1>7
<1>9. Sums(f, future')
  BY <1>1, <1>7, <1>8 DEF Sums
<1>10. \A j \in 1..n : t \notin future[j].wake_list
  BY <1>1, <1>2 DEF Sleeping
<1>11. Placed(f, t, d)
  <2>1. \A j \in 1..n : t \in future'[j].wake_list => f[j] = d
    BY <1>5, <1>8, <1>10
  <2>2. ASSUME NEW j \in 1..n, NEW u \in future'[j].wake_list \ {t}
        PROVE  u \in future[j].wake_list
    BY <1>8
  <2> QED BY <1>1, <1>7, <2>1, <2>2 DEF Placed, f
<1>12. DOMAIN future' = 1..n
  BY <1>7, LenProperties
<1>13. DistinctDeadlines'
  <2>1. \A j \in (1..n) \ {1} : future[j].ticks_left > 0
    BY <1>1 DEF TimeInv, DistinctDeadlines
  <2> QED BY <1>8, <1>12, <2>1 DEF DistinctDeadlines, Intervals
<1>14. Apart'
  <2>1. \A a, b \in 1..n : a # b => future[a].wake_list \cap future[b].wake_list = {}
    BY <1>1 DEF TimeInv, Apart
  <2>2. \A a, b \in 1..n : a # b => future'[a].wake_list \cap future'[b].wake_list = {}
    BY <1>8, <1>10, <2>1
  <2> QED BY <1>12, <2>2 DEF Apart, Intervals
<1>15. TimeInv'
  BY <1>2, <1>7, <1>9, <1>11, <1>13, <1>14, SleepKeeps
<1>16. Sleeping' = Sleeping \cup {t}
  <2>1. Sleeping = UNION {future[j].wake_list : j \in 1..n} /\ Sleeping' = UNION {future'[j].wake_list : j \in 1..n}
    BY <1>1, <1>12 DEF Sleeping, Intervals
  <2> QED BY <1>3, <1>8, <2>1
<1> QED BY <1>2, <1>15, <1>16 DEF A!Sleep, GoesToSleep

\* tsleep adds an interval at the end.
LEMMA LastKeeps ==
    ASSUME TimeInv, NEW t \in Sleepers, NEW d \in Delays, TSleepLast(t, d)
    PROVE  TimeInv' /\ A!Sleep(t, d)
<1> DEFINE f == Ends(future)
           n == Len(future)
           k == n + 1
           left == d - Through(k - 1)
           e == Interval(left, t)
           g == [j \in 0..k |-> IF j = k THEN d ELSE f[j]]
<1>1. /\ future \in Seq(Ivals) /\ n \in Nat /\ Intervals = 1..n
      /\ \A j \in 1..n : /\ future[j] \in Ivals /\ future[j].ticks_left \in Nat
                         /\ future[j].wake_list \subseteq Sleepers
      /\ Sums(f, future)
  BY TimeFacts DEF TimeInv
<1>2. k - 1 = n /\ k \in 1..(n + 1)
  BY <1>1
<1>3. /\ future_lock = 0 /\ t \notin Sleeping /\ StopsAt(k, d)
      /\ GoesToSleep(t, d) /\ future' = Append(future, e)
  BY <1>2 DEF TSleepLast
<1>4. /\ left \in 0..MaxAge /\ left \in Nat /\ f[k - 1] \in Nat /\ f[k - 1] + left = d
      /\ (k > 1 => left > 0) /\ (k = 1 => left = d)
  <2> HIDE DEF left
  <2>1. left = d - Through(k - 1)
    BY DEF left
  <2> QED BY <1>2, <1>3, <2>1, StopFacts
<1> HIDE DEF left
<1>5. e \in Ivals /\ e.ticks_left = left /\ e.wake_list = {t}
  BY <1>4 DEF Interval, Ivals
<1> HIDE DEF e
<1>6. /\ future' \in Seq(Ivals) /\ Len(future') = n + 1
      /\ \A j \in 1..n : future'[j] = future[j]
      /\ future'[n + 1] = e
  BY <1>1, <1>3, <1>5, AppendProperties
<1>7. /\ f \in [0..n -> Nat] /\ f[0] = 0
      /\ \A j \in 1..n : f[j] = f[j - 1] + future[j].ticks_left
  BY <1>1 DEF Sums
<1>8. d \in Nat
  BY TimerAssumption
<1> HIDE DEF f
<1>9. Sums(g, future')
  <2>1. g \in [0..(n + 1) -> Nat]
    BY <1>1, <1>7, <1>8
  <2>2. g[0] = 0
    BY <1>1, <1>7
  <2>3. ASSUME NEW j \in 1..(n + 1) PROVE g[j] = g[j - 1] + future'[j].ticks_left
    <3>1. j \in 0..k /\ j - 1 \in 0..k /\ j - 1 # k
      BY <1>1
    <3>2. g[j] = (IF j = k THEN d ELSE f[j]) /\ g[j - 1] = f[j - 1]
      BY <3>1
    <3> HIDE DEF g
    <3>3. CASE j = k
      BY <1>4, <1>5, <1>6, <3>2, <3>3
    <3>4. CASE j # k
      <4>1. j \in 1..n
        BY <1>1, <3>4
      <4> QED BY <1>6, <1>7, <3>2, <3>4, <4>1
    <3> QED BY <3>3, <3>4
  <2> HIDE DEF g
  <2> QED BY <1>6, <2>1, <2>2, <2>3 DEF Sums
<1>10. \A j \in 1..n : t \notin future[j].wake_list
  BY <1>1, <1>3 DEF Sleeping
<1>11. \A j \in 1..(n + 1) : j = k \/ j \in 1..n
  BY <1>1
<1>12. Placed(g, t, d)
  <2>1. ASSUME NEW j \in 1..(n + 1), t \in future'[j].wake_list PROVE g[j] = d
    <3>1. j = k
      BY <1>6, <1>10, <1>11, <2>1
    <3> QED BY <1>1, <3>1
  <2>2. ASSUME NEW j \in 1..(n + 1), NEW u \in future'[j].wake_list \ {t}
        PROVE  \E i \in Intervals :
                   /\ u \in future[i].wake_list /\ g[j] = Ends(future)[i]
                   /\ 0 \notin Delays /\ j > 1 /\ g[1] = 0 => i > 1 /\ Ends(future)[1] = 0
    <3>1. j \in 1..n
      BY <1>5, <1>6, <1>11
    <3>2. u \in future[j].wake_list
      BY <1>6, <3>1
    <3>3. g[j] = f[j] /\ g[1] = f[1]
      BY <1>1, <3>1
    <3> HIDE DEF g
    <3> QED BY <1>1, <3>1, <3>2, <3>3 DEF f
  <2> HIDE DEF g
  <2> QED BY <1>6, <2>1, <2>2 DEF Placed
<1>13. DOMAIN future' = 1..(n + 1)
  BY <1>6, LenProperties
<1>14. DistinctDeadlines'
  <2>1. \A j \in (1..n) \ {1} : future[j].ticks_left > 0
    BY <1>1 DEF TimeInv, DistinctDeadlines
  <2>2. k # 1 => left > 0
    BY <1>1, <1>4
  <2>3. \A j \in (1..(n + 1)) \ {1} : future'[j].ticks_left > 0
    BY <1>5, <1>6, <1>11, <2>1, <2>2
  <2> QED BY <1>13, <2>3 DEF DistinctDeadlines, Intervals
<1>15. Apart'
  <2>1. \A a, b \in 1..n : a # b => future[a].wake_list \cap future[b].wake_list = {}
    BY <1>1 DEF TimeInv, Apart
  <2>2. \A a, b \in 1..(n + 1) : a # b => future'[a].wake_list \cap future'[b].wake_list = {}
    BY <1>5, <1>6, <1>10, <1>11, <2>1
  <2> QED BY <1>13, <2>2 DEF Apart, Intervals
<1>16. TimeInv'
  <2> HIDE DEF g
  <2> QED BY <1>3, <1>6, <1>9, <1>12, <1>14, <1>15, SleepKeeps
<1>17. Sleeping' = Sleeping \cup {t}
  <2>1. Sleeping = UNION {future[j].wake_list : j \in 1..n} /\ Sleeping' = UNION {future'[j].wake_list : j \in 1..(n + 1)}
    BY <1>1, <1>13 DEF Sleeping, Intervals
  <2>2. k \in 1..(n + 1) /\ 1..n \subseteq 1..(n + 1)
    BY <1>1
  <2> QED BY <1>5, <1>6, <1>11, <2>1, <2>2
<1> QED BY <1>3, <1>16, <1>17 DEF A!Sleep, GoesToSleep

\* The numbers kept for a thread.
LEMMA ClockTypes ==
    ASSUME TimeTypeOK, NEW u \in Sleepers
    PROVE  /\ age[u] \in Nat /\ age[u] <= MaxAge
           /\ delay[u] \in Nat /\ delay[u] <= MaxAge /\ MaxAge \in Nat
<1>1. MaxAge \in Nat /\ Delays \subseteq 0..(MaxAge - 1)
  BY TimerAssumption
<1>2. age[u] \in 0..MaxAge /\ delay[u] \in Delays \cup {0}
  BY DEF TimeTypeOK
<1>3. age[u] \in Nat /\ age[u] <= MaxAge
  BY <1>1, <1>2
<1>4. delay[u] \in 0..(MaxAge - 1) \/ delay[u] = 0
  BY <1>1, <1>2
<1>5. delay[u] \in Nat /\ delay[u] <= MaxAge
  BY <1>1, <1>4
<1> QED BY <1>1, <1>3, <1>5

\* Whoever has slack left has not slept for too long.
LEMMA SoonEnough ==
    ASSUME TimeTypeOK, DistinctDeadlines, Soon
    PROVE  NotTooLate
<1> SUFFICES ASSUME NEW t \in Sleeping PROVE age[t] <= 2 * delay[t]
  BY DEF NotTooLate
<1>1. PICK k \in Intervals : t \in future[k].wake_list
  BY DEF Sleeping
<1>2. Ends(future)[k] \in Nat /\ t \in Sleepers
  BY <1>1, TimeFacts
<1>3. Slack(Ends(future), k) \in Nat
  BY <1>2 DEF Slack
<1>4. age[t] \in Nat /\ delay[t] \in Nat
  BY <1>2, ClockTypes
<1>5. age[t] + Slack(Ends(future), k) <= 2 * delay[t]
  BY <1>1 DEF Soon
<1> QED BY <1>3, <1>4, <1>5

\* tsleep fails and leaves future_lock taken: the threads that sleep stay.
LEMMA NoMemKeeps ==
    ASSUME TimeInv, NEW t \in Sleepers, NEW d \in Delays, NEW k \in 1..(Len(future) + 1),
           TSleepNoMem(t, d, k)
    PROVE  TimeInv' /\ UNCHANGED <<Sleeping, age, delay>>
<1> DEFINE n == Len(future)
           left == d - Through(k - 1)
           cut == [future[k] EXCEPT !.ticks_left = @ - left]
<1>1. /\ future \in Seq(Ivals) /\ n \in Nat /\ Intervals = 1..n
      /\ \A j \in 1..n : /\ future[j] \in Ivals /\ future[j].ticks_left \in Nat
                         /\ future[j].wake_list \subseteq Sleepers
  BY TimeFacts DEF TimeInv
<1>2. /\ future_lock = 0 /\ StopsAt(k, d) /\ future_lock' = 1 /\ UNCHANGED <<age, delay>>
      /\ \/ k \in 1..n /\ left < future[k].ticks_left /\ future' = [future EXCEPT ![k] = cut]
         \/ future' = future
  BY <1>1 DEF TSleepNoMem
<1>3. left \in Nat
  <2> HIDE DEF left
  <2>1. left = d - Through(k - 1)
    BY DEF left
  <2> QED BY <1>2, <2>1, StopFacts
<1>4. /\ future' \in Seq(Ivals) /\ Len(future') = n
      /\ \A j \in 1..n : /\ future'[j].wake_list = future[j].wake_list
                         /\ j # 1 => future'[j].ticks_left > 0
  <2>1. \A j \in 1..n : j # 1 => future[j].ticks_left > 0
    BY <1>1 DEF TimeInv, DistinctDeadlines
  <2>2. CASE future' = future
    BY <1>1, <2>1, <2>2
  <2>3. CASE k \in 1..n /\ left < future[k].ticks_left /\ future' = [future EXCEPT ![k] = cut]
    <3>1. cut \in Ivals /\ cut.ticks_left > 0 /\ cut.wake_list = future[k].wake_list
      <4>1. future[k] \in Ivals /\ future[k].ticks_left \in 0..MaxAge
        BY <1>1, <2>3 DEF Ivals
      <4>2. future[k].ticks_left - left \in 0..MaxAge /\ future[k].ticks_left - left > 0
        BY <1>3, <2>3, <4>1, TimerAssumption
      <4>3. {} \in SUBSET Sleepers
        OBVIOUS
      <4> HIDE DEF left
      <4> QED BY <4>1, <4>2, <4>3, IvalParts
    <3> HIDE DEF cut
    <3>2. /\ future' \in Seq(Ivals) /\ Len(future') = n
          /\ \A j \in 1..n : future'[j] = IF j = k THEN cut ELSE future[j]
      BY <1>1, <2>3, <3>1, ExceptSeq
    <3> QED BY <2>1, <3>1, <3>2
  <2> QED BY <1>2, <2>2, <2>3
<1>5. DOMAIN future' = 1..n
  BY <1>4, LenProperties
<1>6. DistinctDeadlines'
  BY <1>4, <1>5 DEF DistinctDeadlines, Intervals
<1>7. Apart'
  BY <1>1, <1>4, <1>5 DEF TimeInv, Apart, Intervals
<1>8. Sleeping' = Sleeping
  <2>1. Sleeping = UNION {future[j].wake_list : j \in 1..n} /\ Sleeping' = UNION {future'[j].wake_list : j \in 1..n}
    BY <1>1, <1>5 DEF Sleeping, Intervals
  <2> QED BY <1>4, <2>1
<1>9. TimeTypeOK'
  BY <1>2, <1>4 DEF TimeInv, TimeTypeOK, Ivals
<1>10. 0 \notin Delays => NotTooLate'
  <2>1. 0 \notin Delays => NotTooLate
    BY <1>2, SoonEnough DEF TimeInv
  <2> QED BY <1>2, <1>8, <2>1 DEF NotTooLate
<1> QED BY <1>2, <1>6, <1>7, <1>8, <1>9, <1>10 DEF TimeInv

-----------------------------------------------------------------------------
\* A tick: every interval ends one tick sooner, or the first one, which is
\* over, leaves the list and the others wait.
Ticked(g) ==
    \A k \in 1..Len(future') : \A u \in future'[k].wake_list :
        \E j \in Intervals :
            /\ u \in future[j].wake_list
            /\ \/ Ends(future)[1] # 0 /\ Ends(future)[j] >= 1 /\ g[k] = Ends(future)[j] - 1
               \/ /\ Ends(future)[1] = 0 /\ j > 1 /\ g[k] = Ends(future)[j]
                  /\ k > 1 => g[1] # 0

LEMMA TickKeeps ==
    ASSUME TimeInv, future_lock = 0, Elapse, future' \in Seq(Ivals), NEW g, Sums(g, future'),
           Ticked(g), DistinctDeadlines', Apart'
    PROVE  TimeInv'
<1> DEFINE f == Ends(future)
<1>1. /\ age' = [t \in Sleepers |-> IF t \in Sleeping /\ age[t] < MaxAge THEN age[t] + 1 ELSE age[t]]
      /\ delay' = delay /\ future_lock' = 0
  BY DEF Elapse, A!Aged
<1>2. /\ age \in [Sleepers -> 0..MaxAge] /\ delay \in [Sleepers -> Delays \cup {0}]
      /\ Delays \subseteq 0..(MaxAge - 1) /\ MaxAge \in Nat
  BY TimerAssumption DEF TimeInv, TimeTypeOK
<1>3. TimeTypeOK'
  <2>1. age' \in [Sleepers -> 0..MaxAge]
    BY <1>1, <1>2
  <2> QED BY <1>1, <1>2, <2>1 DEF TimeTypeOK, Ivals
<1>4. Ends(future') = g
  BY EndsAre
<1>5. DOMAIN future' = 1..Len(future') /\ Len(future') \in Nat
  BY LenProperties
<1>6. \A j \in Intervals : /\ f[j] \in Nat /\ (j > 1 => f[j] >= 1)
                           /\ future[j].wake_list \subseteq Sleepers
  BY TimeFacts DEF TimeInv
<1>7. \A j \in Intervals : \A u \in future[j].wake_list : age[u] + f[j] >= delay[u]
  BY DEF TimeInv, Due
<1>8. 0 \notin Delays => \A j \in Intervals : \A u \in future[j].wake_list :
                              age[u] + Slack(f, j) <= 2 * delay[u]
  BY DEF TimeInv, Soon
<1>9. ASSUME NEW k \in 1..Len(future'), NEW u \in future'[k].wake_list
      PROVE  /\ age'[u] + g[k] >= delay'[u]
             /\ 0 \notin Delays => age'[u] + Slack(g, k) <= 2 * delay'[u]
  <2>1. PICK j \in Intervals :
            /\ u \in future[j].wake_list
            /\ \/ f[1] # 0 /\ f[j] >= 1 /\ g[k] = f[j] - 1
               \/ f[1] = 0 /\ j > 1 /\ g[k] = f[j] /\ (k > 1 => g[1] # 0)
    BY DEF Ticked
  <2>2. u \in Sleepers /\ u \in Sleeping /\ f[j] \in Nat /\ (j > 1 => f[j] >= 1)
    BY <1>6, <2>1 DEF Sleeping
  <2> HIDE DEF f
  <2>4. /\ age[u] \in Nat /\ age[u] <= MaxAge
        /\ delay[u] \in Nat /\ delay[u] <= MaxAge /\ MaxAge \in Nat
    BY <2>2, ClockTypes DEF TimeInv
  <2>5. /\ age'[u] = IF age[u] < MaxAge THEN age[u] + 1 ELSE age[u]
        /\ delay'[u] = delay[u]
    BY <1>1, <2>2
  <2>6. \/ age'[u] = age[u] + 1
        \/ age'[u] = MaxAge /\ age[u] = MaxAge
    BY <2>4, <2>5
  <2>7. k \in Nat /\ k >= 1 /\ (k > 1 \/ k = 1)
    BY <1>5
  <2>8. age[u] + f[j] >= delay[u]
    BY <1>7, <2>1
  <2>9. 0 \notin Delays => age[u] + Slack(f, j) <= 2 * delay[u]
    BY <1>8, <2>1
  <2>10. age'[u] + g[k] >= delay'[u]
    <3>1. g[k] \in Nat /\ g[k] + 1 >= f[j]
      BY <2>1, <2>2
    <3>2. CASE age'[u] = age[u] + 1
      BY <2>2, <2>4, <2>5, <2>8, <3>1, <3>2
    <3>3. CASE age'[u] = MaxAge
      BY <2>4, <2>5, <3>1, <3>3
    <3> QED BY <2>6, <3>2, <3>3
  <2>11. /\ Slack(f, j) \in Int /\ Slack(g, k) \in Int
         /\ Slack(g, k) + 1 <= Slack(f, j)
    <3>1. CASE f[1] # 0 /\ f[j] >= 1 /\ g[k] = f[j] - 1
      <4>1. Slack(f, j) = 2 * f[j] - 1
        BY <2>2, <3>1 DEF Slack
      <4>2. g[k] \in Nat /\ Slack(g, k) \in Int /\ Slack(g, k) <= 2 * g[k]
        BY <2>2, <3>1 DEF Slack
      <4> QED BY <2>2, <3>1, <4>1, <4>2
    <3>2. CASE f[1] = 0 /\ j > 1 /\ g[k] = f[j] /\ (k > 1 => g[1] # 0)
      <4>1. Slack(f, j) = 2 * f[j]
        BY <2>2, <3>2 DEF Slack
      <4>2. Slack(g, k) = 2 * f[j] - 1
        BY <2>2, <3>2 DEF Slack
      <4> QED BY <2>2, <4>1, <4>2
    <3> QED BY <2>1, <3>1, <3>2
  <2>12. 0 \notin Delays => age'[u] + Slack(g, k) <= 2 * delay'[u]
    BY <1>2, <2>4, <2>5, <2>6, <2>9, <2>11
  <2> QED BY <2>10, <2>12
<1>10. Due'
  BY <1>4, <1>5, <1>9 DEF Due, Intervals
<1>11. 0 \notin Delays => Soon'
  BY <1>4, <1>5, <1>9 DEF Soon, Intervals
<1> QED BY <1>1, <1>3, <1>10, <1>11 DEF TimeInv

\* The first interval counts down.
LEMMA CountKeeps ==
    ASSUME TimeInv, TickCount
    PROVE  TimeInv' /\ A!Tick({})
<1> DEFINE f == Ends(future)
           n == Len(future)
           one == [future[1] EXCEPT !.ticks_left = @ - 1]
           g == [j \in 0..n |-> IF j = 0 THEN 0 ELSE f[j] - 1]
<1>1. /\ future \in Seq(Ivals) /\ n \in Nat /\ Intervals = 1..n
      /\ \A j \in 1..n : /\ future[j] \in Ivals /\ future[j].ticks_left \in Nat
                         /\ future[j].wake_list \subseteq Sleepers
                         /\ f[j] \in Nat /\ (j > 1 => f[j] >= 1)
      /\ Sums(f, future)
  BY TimeFacts DEF TimeInv
<1>2. /\ future_lock = 0 /\ future # <<>> /\ Head(future).ticks_left > 0
      /\ future' = [future EXCEPT ![1] = one] /\ Elapse
  BY DEF TickCount
<1>3. 1 \in 1..n /\ Head(future) = future[1]
  <2>1. n # 0
    BY <1>1, <1>2, EmptySeq
  <2> QED BY <1>1, <2>1
<1>4. /\ f \in [0..n -> Nat] /\ f[0] = 0
      /\ \A j \in 1..n : f[j] = f[j - 1] + future[j].ticks_left
  BY <1>1 DEF Sums
<1>5. /\ one \in Ivals /\ one.ticks_left = future[1].ticks_left - 1
      /\ one.wake_list = future[1].wake_list
  <2>1. future[1] \in Ivals /\ future[1].ticks_left \in 0..MaxAge /\ future[1].ticks_left > 0
    BY <1>1, <1>2, <1>3 DEF Ivals
  <2>2. future[1].ticks_left - 1 \in 0..MaxAge /\ {} \in SUBSET Sleepers
    BY <2>1, TimerAssumption
  <2> QED BY <2>1, <2>2, IvalParts
<1> HIDE DEF one, f
<1>6. /\ future' \in Seq(Ivals) /\ Len(future') = n
      /\ \A j \in 1..n : future'[j] = IF j = 1 THEN one ELSE future[j]
  BY <1>1, <1>2, <1>3, <1>5, ExceptSeq
<1>7. \A j \in 1..n : /\ future'[j].wake_list = future[j].wake_list
                      /\ future'[j].ticks_left = IF j = 1 THEN future[1].ticks_left - 1 ELSE future[j].ticks_left
  BY <1>5, <1>6
<1>8. f[1] >= 1 /\ f[1] = future[1].ticks_left
  <2>1. f[1] = f[1 - 1] + future[1].ticks_left /\ 1 - 1 = 0
    BY <1>3, <1>4
  <2>2. future[1].ticks_left \in Nat /\ future[1].ticks_left > 0
    BY <1>1, <1>2, <1>3
  <2> QED BY <1>4, <2>1, <2>2
<1>9. \A j \in 1..n : f[j] >= 1 /\ f[j] \in Nat
  <2>1. \A j \in 1..n : j = 1 \/ j > 1
    OBVIOUS
  <2> QED BY <1>1, <1>8, <2>1 DEF f
<1>10. Sums(g, future')
  <2>1. g \in [0..n -> Nat]
    <3>1. \A j \in 0..n : j # 0 => j \in 1..n
      BY <1>1
    <3>2. \A j \in 0..n : j # 0 => f[j] - 1 \in Nat
      BY <1>9, <3>1
    <3> QED BY <3>2
  <2>2. g[0] = 0
    BY <1>1
  <2>3. ASSUME NEW j \in 1..n PROVE g[j] = g[j - 1] + future'[j].ticks_left
    <3>1. j \in 0..n /\ j - 1 \in 0..n /\ j # 0 /\ (j = 1 <=> j - 1 = 0)
      BY <1>1
    <3>2. g[j] = f[j] - 1 /\ g[j - 1] = IF j = 1 THEN 0 ELSE f[j - 1] - 1
      BY <3>1
    <3> HIDE DEF g
    <3>3. CASE j = 1
      <4>1. future'[j].ticks_left = future[1].ticks_left - 1 /\ future[1].ticks_left \in Nat
        BY <1>1, <1>3, <1>7, <3>3
      <4>2. g[j] = future[1].ticks_left - 1 /\ g[j - 1] = 0
        BY <1>8, <3>2, <3>3
      <4> QED BY <4>1, <4>2
    <3>4. CASE j # 1
      <4>1. f[j] = f[j - 1] + future[j].ticks_left /\ future'[j].ticks_left = future[j].ticks_left
        BY <1>4, <1>7, <3>4
      <4>2. f[j - 1] \in Nat /\ future[j].ticks_left \in Nat
        BY <1>1, <1>4, <3>1
      <4> QED BY <3>2, <3>4, <4>1, <4>2
    <3> QED BY <3>3, <3>4
  <2> HIDE DEF g
  <2> QED BY <1>6, <2>1, <2>2, <2>3 DEF Sums
<1>11. Ticked(g)
  <2>1. \A j \in 1..n : g[j] = f[j] - 1
    BY <1>1
  <2> HIDE DEF g
  <2>2. f[1] # 0
    BY <1>8
  <2> QED BY <1>1, <1>6, <1>7, <1>9, <2>1, <2>2 DEF Ticked, f
<1>12. DOMAIN future' = 1..n
  BY <1>6, LenProperties
<1>13. DistinctDeadlines'
  <2>1. \A j \in (1..n) \ {1} : future[j].ticks_left > 0
    BY <1>1 DEF TimeInv, DistinctDeadlines
  <2> QED BY <1>7, <1>12, <2>1 DEF DistinctDeadlines, Intervals
<1>14. Apart'
  BY <1>1, <1>7, <1>12 DEF TimeInv, Apart, Intervals
<1>15. TimeInv'
  <2> HIDE DEF g
  <2> QED BY <1>2, <1>6, <1>10, <1>11, <1>13, <1>14, TickKeeps
<1>16. Sleeping' = Sleeping
  <2>1. Sleeping = UNION {future[j].wake_list : j \in 1..n} /\ Sleeping' = UNION {future'[j].wake_list : j \in 1..n}
    BY <1>1, <1>12 DEF Sleeping, Intervals
  <2> QED BY <1>7, <2>1
<1> QED BY <1>2, <1>15, <1>16 DEF A!Tick, Elapse

\* The first interval is over: its threads are due, and wake.
LEMMA ExpireKeeps ==
    ASSUME TimeInv, TickExpire
    PROVE  TimeInv' /\ \E W \in SUBSET Sleeping : A!Tick(W)
<1> DEFINE f == Ends(future)
           n == Len(future)
           W == future[1].wake_list
           g == [j \in 0..(n - 1) |-> f[j + 1]]
<1>1. /\ future \in Seq(Ivals) /\ n \in Nat /\ Intervals = 1..n
      /\ \A j \in 1..n : /\ future[j] \in Ivals /\ future[j].ticks_left \in Nat
                         /\ future[j].wake_list \subseteq Sleepers
                         /\ f[j] \in Nat /\ (j > 1 => f[j] >= 1)
      /\ Sums(f, future)
  BY TimeFacts DEF TimeInv
<1>2. /\ future_lock = 0 /\ future # <<>> /\ Head(future).ticks_left = 0
      /\ future' = Tail(future) /\ Elapse
  BY DEF TickExpire
<1>3. 1 \in 1..n /\ Head(future) = future[1] /\ n - 1 \in Nat
  <2>1. n # 0
    BY <1>1, <1>2, EmptySeq
  <2> QED BY <1>1, <2>1
<1>4. /\ f \in [0..n -> Nat] /\ f[0] = 0
      /\ \A j \in 1..n : f[j] = f[j - 1] + future[j].ticks_left
  BY <1>1 DEF Sums
<1>5. /\ future' \in Seq(Ivals) /\ Len(future') = n - 1
      /\ \A j \in 1..(n - 1) : future'[j] = future[j + 1]
  BY <1>1, <1>2, HeadTailProperties
<1>6. f[1] = 0
  <2>1. f[1] = f[1 - 1] + future[1].ticks_left /\ 1 - 1 = 0
    BY <1>3, <1>4
  <2> QED BY <1>2, <1>3, <1>4, <2>1
<1> HIDE DEF f
<1>7. Sums(g, future')
  <2>1. g \in [0..(n - 1) -> Nat]
    <3>1. \A j \in 0..(n - 1) : j + 1 \in 0..n
      BY <1>1
    <3> QED BY <1>4, <3>1
  <2>2. g[0] = 0
    BY <1>1, <1>3, <1>6
  <2>3. ASSUME NEW j \in 1..(n - 1) PROVE g[j] = g[j - 1] + future'[j].ticks_left
    <3>1. j \in 0..(n - 1) /\ j - 1 \in 0..(n - 1) /\ j + 1 \in 1..n /\ (j - 1) + 1 = j /\ (j + 1) - 1 = j
      BY <1>1
    <3>2. g[j] = f[j + 1] /\ g[j - 1] = f[j]
      BY <3>1
    <3>3. f[j + 1] = f[j] + future[j + 1].ticks_left
      BY <1>4, <3>1
    <3> HIDE DEF g
    <3> QED BY <1>5, <3>2, <3>3
  <2> HIDE DEF g
  <2> QED BY <1>5, <2>1, <2>2, <2>3 DEF Sums
<1>8. Ticked(g)
  <2> SUFFICES ASSUME NEW k \in 1..(n - 1), NEW u \in future'[k].wake_list
               PROVE  \E j \in Intervals :
                          /\ u \in future[j].wake_list
                          /\ f[1] = 0 /\ j > 1 /\ g[k] = f[j]
                          /\ k > 1 => g[1] # 0
    BY <1>5 DEF Ticked, f
  <2>1. k + 1 \in 1..n /\ k + 1 > 1 /\ u \in future[k + 1].wake_list
    BY <1>1, <1>5
  <2>2. g[k] = f[k + 1] /\ (k > 1 => g[1] = f[2] /\ 2 \in 1..n)
    BY <1>1
  <2>3. k > 1 => f[2] >= 1 /\ f[2] \in Nat
    BY <1>1, <2>2 DEF f
  <2> HIDE DEF g
  <2> QED BY <1>1, <1>6, <2>1, <2>2, <2>3
<1>9. DOMAIN future' = 1..(n - 1)
  BY <1>5, LenProperties
<1>10. \A j \in 1..(n - 1) : j + 1 \in 1..n /\ j + 1 # 1
  BY <1>1
<1>11. DistinctDeadlines'
  <2>1. \A j \in (1..n) \ {1} : future[j].ticks_left > 0
    BY <1>1 DEF TimeInv, DistinctDeadlines
  <2> QED BY <1>5, <1>9, <1>10, <2>1 DEF DistinctDeadlines, Intervals
<1>12. Apart'
  <2>1. \A a, b \in 1..n : a # b => future[a].wake_list \cap future[b].wake_list = {}
    BY <1>1 DEF TimeInv, Apart
  <2>2. \A a, b \in 1..(n - 1) : a # b => a + 1 # b + 1
    BY <1>1
  <2> QED BY <1>5, <1>9, <1>10, <2>1, <2>2 DEF Apart, Intervals
<1>13. TimeInv'
  <2> HIDE DEF g
  <2> QED BY <1>2, <1>5, <1>7, <1>8, <1>11, <1>12, TickKeeps
<1>14. Sleeping' = Sleeping \ W /\ W \subseteq Sleeping
  <2>1. Sleeping = UNION {future[j].wake_list : j \in 1..n} /\ Sleeping' = UNION {future'[j].wake_list : j \in 1..(n - 1)}
    BY <1>1, <1>9 DEF Sleeping, Intervals
  <2>2. \A j \in 1..n : j # 1 => future[j].wake_list \cap W = {}
    BY <1>1, <1>3 DEF TimeInv, Apart
  <2>3. W \subseteq Sleeping
    BY <1>3, <2>1
  <2>4. ASSUME NEW u \in Sleeping' PROVE u \in Sleeping \ W
    <3>1. PICK j \in 1..(n - 1) : u \in future'[j].wake_list
      BY <2>1
    <3>2. u \in future[j + 1].wake_list
      BY <1>5, <3>1
    <3> QED BY <1>10, <2>1, <2>2, <3>2
  <2>5. ASSUME NEW u \in Sleeping \ W PROVE u \in Sleeping'
    <3>1. PICK j \in 1..n : u \in future[j].wake_list
      BY <2>1
    <3>2. j # 1
      BY <3>1
    <3>3. j - 1 \in 1..(n - 1) /\ (j - 1) + 1 = j
      BY <1>1, <3>2
    <3>4. future'[j - 1] = future[j]
      <4> DEFINE i == j - 1
      <4>1. i \in 1..(n - 1) /\ i + 1 = j
        BY <3>3
      <4> HIDE DEF i
      <4>2. future'[i] = future[j]
        BY <1>5, <4>1
      <4> QED BY <4>2 DEF i
    <3> QED BY <2>1, <3>1, <3>3, <3>4
  <2> QED BY <2>3, <2>4, <2>5
<1>15. \A u \in W : age[u] >= delay[u]
  <2> SUFFICES ASSUME NEW u \in W PROVE age[u] >= delay[u]
    OBVIOUS
  <2>1. age[u] + f[1] >= delay[u]
    BY <1>1, <1>2, <1>3 DEF TimeInv, Due, f
  <2>2. u \in Sleepers
    BY <1>1, <1>3
  <2>3. age[u] \in 0..MaxAge
    BY <2>2 DEF TimeInv, TimeTypeOK
  <2> QED BY <1>6, <2>1, <2>3, TimerAssumption
<1> QED BY <1>2, <1>13, <1>14, <1>15 DEF A!Tick, Elapse

LEMMA TimeStarts == TimeInit => TimeInv
<1> SUFFICES ASSUME TimeInit PROVE TimeInv
  OBVIOUS
<1>1. future = <<>> /\ future_lock = 0
  BY DEF TimeInit
<1>2. Intervals = {}
  BY <1>1 DEF Intervals
<1>3. TimeTypeOK
  BY <1>1, TimerAssumption DEF TimeInit, TimeTypeOK
<1> QED BY <1>1, <1>2, <1>3 DEF TimeInv, DistinctDeadlines, Apart, Due, Soon

\* Nobody sleeps: the ticks pass.
LEMMA IdleKeeps ==
    ASSUME TimeInv, TickIdle
    PROVE  TimeInv' /\ A!Tick({})
<1>1. future = <<>> /\ future' = future /\ future_lock = 0 /\ Elapse
  BY DEF TickIdle
<1>2. Len(future') = 0 /\ DOMAIN future' = {} /\ Intervals' = {} /\ 1..Len(future') = {}
  BY <1>1 DEF Intervals
<1>3. future' \in Seq(Ivals)
  BY <1>1
<1>4. Sums(Ends(future'), future')
  BY <1>3, EndsAre
<1>5. \A g : Ticked(g)
  BY <1>2 DEF Ticked
<1>6. DistinctDeadlines' /\ Apart'
  BY <1>2 DEF DistinctDeadlines, Apart
<1>7. TimeInv'
  BY <1>1, <1>3, <1>4, <1>5, <1>6, TickKeeps
<1>8. Sleeping' = Sleeping
  BY <1>1 DEF Sleeping, Intervals
<1> QED BY <1>1, <1>7, <1>8 DEF A!Tick, Elapse

\* What a step of timecore.c does is what a step of Alarm may do.
LEMMA TimeStep ==
    ASSUME TimeInv, [TimeNext]_time_vars
    PROVE  TimeInv' /\ [A!Next]_<<Sleeping, age, delay>>
<1>1. ASSUME NEW t \in Sleepers, NEW d \in Delays, NEW k \in Intervals, TSleepSplit(t, d, k)
      PROVE  TimeInv' /\ A!Next
  BY <1>1, SplitKeeps DEF A!Next
<1>2. ASSUME NEW t \in Sleepers, NEW d \in Delays, NEW k \in Intervals, TSleepJoin(t, d, k)
      PROVE  TimeInv' /\ A!Next
  BY <1>2, JoinKeeps DEF A!Next
<1>3. ASSUME NEW t \in Sleepers, NEW d \in Delays, TSleepLast(t, d)
      PROVE  TimeInv' /\ A!Next
  BY <1>3, LastKeeps DEF A!Next
<1>4. ASSUME NEW t \in Sleepers, NEW d \in Delays, NEW k \in 1..(Len(future) + 1),
             TSleepNoMem(t, d, k)
      PROVE  TimeInv' /\ UNCHANGED <<Sleeping, age, delay>>
  BY <1>4, NoMemKeeps
<1>5. ASSUME update_timers PROVE TimeInv' /\ A!Next
  <2>1. {} \in SUBSET Sleeping
    OBVIOUS
  <2> QED BY <1>5, <2>1, IdleKeeps, CountKeeps, ExpireKeeps DEF update_timers, A!Next
<1>6. ASSUME UNCHANGED time_vars PROVE TimeInv' /\ UNCHANGED <<Sleeping, age, delay>>
  BY <1>6 DEF time_vars, TimeInv, TimeTypeOK, DistinctDeadlines, Apart, Due, Soon, NotTooLate,
              Sleeping, Intervals
<1> QED BY <1>1, <1>2, <1>3, <1>4, <1>5, <1>6 DEF TimeNext

(***************************************************************************)
(* TimeInv is an invariant of tsleep and update_timers, for any threads    *)
(* and delays, whether or not slices run out.                              *)
(***************************************************************************)
THEOREM TimeInvariance == TimeSpec => []TimeInv
<1>1. TimeInit => TimeInv
  BY TimeStarts
<1>2. TimeInv /\ [TimeNext]_time_vars => TimeInv'
  BY TimeStep
<1> QED BY <1>1, <1>2, PTL DEF TimeSpec

(***************************************************************************)
(* With delays of at least one tick nobody in the list of intervals waits  *)
(* for more than twice what they passed to tsleep, and no two intervals    *)
(* end at the same tick.                                                   *)
(***************************************************************************)
THEOREM AlarmsAreTimely ==
    ASSUME 0 \notin Delays
    PROVE  TimeSpec => []AlarmsTimely
<1>1. TimeInv => AlarmsTimely
  BY SoonEnough DEF TimeInv, AlarmsTimely
<1> QED BY <1>1, TimeInvariance, PTL

(***************************************************************************)
(* The list of intervals that tsleep and update_timers keep does what      *)
(* Alarm says: a thread is woken by a tick, and never before the ticks it  *)
(* asked for have passed, whoever came before it and after it.             *)
(***************************************************************************)
THEOREM NobodyWakesEarly == TimeSpec => NeverEarly
<1>1. TimeInit => A!Init
  <2>1. TimeInit => Sleeping = {}
    BY DEF TimeInit, Sleeping, Intervals
  <2> QED BY <2>1 DEF TimeInit, A!Init
<1>2. TimeInv /\ [TimeNext]_time_vars => [A!Next]_<<Sleeping, age, delay>>
  BY TimeStep
<1> QED BY <1>1, <1>2, TimeInvariance, PTL DEF TimeSpec, NeverEarly, A!Spec
=============================================================================
