--------------------------- MODULE DeliveryProofs ---------------------------
(***************************************************************************)
(* Proofs about what the kernel hands on, for any threads, messages, lines *)
(* and handlers.  Mpipe: the mutex has one owner and loses no wake-up; a   *)
(* pipe has one writer at a time, and a reader that returns has had its    *)
(* buffer written.  Message: no wake-up is lost, neither of a receiver nor *)
(* of a sender, and a woken receiver has mail.  Irq: an accepted interrupt *)
(* has a handler, and the masks follow the table of handlers.              *)
(***************************************************************************)
EXTENDS Mpipe, Message, Irq, Klist0Proofs, FiniteSetTheorems

-----------------------------------------------------------------------------
(* Mutexes and pipes. *)

TQ(Q) == WellFormed(Q, Queues, Threads)

\* Only the mutex' own queue has threads on it, so a thread is linked when
\* it is among the sleepers.
LEMMA LinkedIsSleeping ==
    ASSUME NEW Q, TQ(Q), \A q \in Queues : q # "sleepers" => Nodes(Q, q) = {}
    PROVE  \A t : Linked(Q, t) <=> t \in Nodes(Q, "sleepers")
<1>1. DOMAIN Q = Queues
  BY DEF TQ, WellFormed
<1> QED BY <1>1, MutexAssumption DEF Linked

\* An empty list is one without nodes.
LEMMA EmptyHasNoNodes ==
    ASSUME NEW Q, TQ(Q), NEW q \in Queues
    PROVE  klist0_empty(Q, q) <=> Nodes(Q, q) = {}
<1>1. Q[q] \in Seq(Threads)
  BY DEF TQ, WellFormed
<1>2. Q[q] # <<>> => Q[q][1] \in Nodes(Q, q)
  BY <1>1 DEF Nodes, Range
<1>3. Q[q] = <<>> => Nodes(Q, q) = {}
  BY DEF Nodes, Range
<1> QED BY <1>2, <1>3 DEF klist0_empty

\* What the invariant says of the queues, in terms of sets.
LEMMA InvSets ==
    ASSUME MutexInv
    PROVE  /\ TQ(queue)
           /\ \A q \in Queues : q # "sleepers" => Nodes(queue, q) = {}
           /\ \A t : Linked(queue, t) <=> t \in Nodes(queue, "sleepers")
<1>1. TQ(queue)
  BY DEF MutexInv, TypeOK, TQ, WellFormed
<1>2. \A q \in Queues : q # "sleepers" => Nodes(queue, q) = {}
  BY <1>1, EmptyHasNoNodes DEF MutexInv, klist0_empty
<1> QED BY <1>1, <1>2, LinkedIsSleeping

\* And back: the invariant holds after a step when the sets say so.
LEMMA SetsInv ==
    ASSUME TypeOK', TQ(queue'), Exclusion',
           \A q \in Queues : q # "sleepers" => Nodes(queue', q) = {},
           \A t \in Nodes(queue', "sleepers") : at'[t] = "doors",
           lock' = 1 /\ Nodes(queue', "sleepers") # {} =>
               \E t \in Threads : at'[t] = "doors" /\ t \notin Nodes(queue', "sleepers")
    PROVE  MutexInv'
<1>1. \A t : Linked(queue', t) <=> t \in Nodes(queue', "sleepers")
  BY LinkedIsSleeping
<1>2. \A q \in Queues : klist0_empty(queue', q) <=> Nodes(queue', q) = {}
  BY EmptyHasNoNodes
<1>3. \A q \in Queues : q # "sleepers" => queue'[q] = <<>>
  BY <1>2 DEF klist0_empty
<1>4. NoLostWakeup'
  BY <1>1, <1>2, MutexAssumption DEF NoLostWakeup, tq_is_empty, Runnable
<1>5. LinkedOnce(queue')
  BY DEF TQ, WellFormed
<1> QED BY <1>1, <1>3, <1>4, <1>5 DEF MutexInv

\* The invariant holds after mutex_init, when no thread has asked yet.
LEMMA InitInv == Init => MutexInv
<1> SUFFICES ASSUME Init PROVE MutexInv
  OBVIOUS
<1>1. TypeOK
  BY DEF Init, mutex_init, TypeOK, Places
<1>2. \A q \in Queues : queue[q] = <<>>
  BY DEF Init, mutex_init
<1>3. LinkedOnce(queue)
  BY DEF Init, mutex_init, LinkedOnce
<1>4. \A t : ~Linked(queue, t)
  BY DEF Init, mutex_init, Linked, Nodes, Range
<1>5. Exclusion
  BY DEF Init, mutex_init, Exclusion
<1>6. NoLostWakeup
  BY <1>2, MutexAssumption DEF NoLostWakeup, tq_is_empty, klist0_empty
<1> QED BY <1>1, <1>2, <1>3, <1>4, <1>5, <1>6 DEF MutexInv

\* A thread that gets the mutex: nobody held it, and now it is taken.
LEMMA AcquireKeeps ==
    ASSUME MutexInv, NEW t \in Threads, Acquire(t), UNCHANGED queue
    PROVE  MutexInv'
<1>1. /\ TQ(queue) /\ TypeOK /\ Exclusion
      /\ \A q \in Queues : q # "sleepers" => Nodes(queue, q) = {}
      /\ \A u : Linked(queue, u) <=> u \in Nodes(queue, "sleepers")
      /\ \A u \in Threads : Linked(queue, u) => at[u] = "doors"
  BY InvSets DEF MutexInv
<1>2. TypeOK'
  BY <1>1 DEF Acquire, TypeOK, Places
<1>3. t \notin Nodes(queue, "sleepers") /\ Nodes(queue, "sleepers") \subseteq Threads
  BY <1>1, MutexAssumption DEF Acquire, AtDoors, Runnable, TQ, WellFormed, Nodes, Range
<1>4. \A u \in Threads : at[u] # "in"
  BY <1>1 DEF Acquire, Exclusion
<1>5. /\ lock' = 0 /\ at'[t] = "in"
      /\ \A u \in Threads \ {t} : at'[u] = at[u]
  BY <1>1 DEF Acquire, TypeOK
<1>6. Exclusion'
  BY <1>4, <1>5 DEF Exclusion
<1>7. \A u \in Nodes(queue', "sleepers") : at'[u] = "doors"
  BY <1>1, <1>3, <1>5
<1> QED BY <1>1, <1>2, <1>5, <1>6, <1>7, SetsInv

\* A thread that finds the mutex taken joins the sleepers.
LEMMA SleepKeeps ==
    ASSUME MutexInv, NEW t \in Threads, Sleep(t)
    PROVE  MutexInv'
<1>1. /\ TQ(queue) /\ TypeOK /\ Exclusion
      /\ \A q \in Queues : q # "sleepers" => Nodes(queue, q) = {}
      /\ \A u : Linked(queue, u) <=> u \in Nodes(queue, "sleepers")
      /\ \A u \in Threads : Linked(queue, u) => at[u] = "doors"
  BY InvSets DEF MutexInv
<1>2. /\ TQ(queue')
      /\ \A q \in Queues : Nodes(queue', q) =
            IF q = "sleepers" THEN Nodes(queue, "sleepers") \cup {t} ELSE Nodes(queue, q)
  BY <1>1, PrependLinks, MutexAssumption DEF Sleep, AtDoors, Runnable, tq_insert_tail, TQ
<1>3. TypeOK'
  <2>1. queue' \in [Queues -> Seq(Threads)]
    BY <1>2 DEF TQ, WellFormed
  <2> QED BY <1>1, <2>1 DEF Sleep, TypeOK, Places
<1>4. Nodes(queue, "sleepers") \subseteq Threads
  BY <1>1, MutexAssumption DEF TQ, WellFormed, Nodes, Range
<1>5. /\ lock = 0 /\ lock' = 0 /\ at'[t] = "doors" /\ at[t] # "in"
      /\ \A u \in Threads \ {t} : at'[u] = at[u]
  BY <1>1 DEF Sleep, AtDoors, TypeOK
<1>6. Exclusion'
  BY <1>1, <1>5 DEF Exclusion
<1>7. \A u \in Nodes(queue', "sleepers") : at'[u] = "doors"
  BY <1>1, <1>2, <1>4, <1>5, MutexAssumption
<1> QED BY <1>1, <1>2, <1>3, <1>5, <1>6, <1>7, SetsInv, MutexAssumption

\* The one that held the mutex wakes the first sleeper, who is now on its
\* way to the free mutex.
LEMMA UnlockKeeps ==
    ASSUME MutexInv, NEW t \in Threads, mutex_unlock(t)
    PROVE  MutexInv'
<1>1. /\ TQ(queue) /\ TypeOK /\ Exclusion
      /\ \A q \in Queues : q # "sleepers" => Nodes(queue, q) = {}
      /\ \A u : Linked(queue, u) <=> u \in Nodes(queue, "sleepers")
      /\ \A u \in Threads : Linked(queue, u) => at[u] = "doors"
  BY InvSets DEF MutexInv
<1>2. /\ TQ(queue')
      /\ \A q \in Queues : q # "sleepers" => Nodes(queue', q) = {}
      /\ Nodes(queue', "sleepers") \subseteq Nodes(queue, "sleepers")
      /\ Nodes(queue', "sleepers") # {} =>
            \E h \in Nodes(queue, "sleepers") : h \notin Nodes(queue', "sleepers")
  <2>1. CASE tq_is_empty(queue, "sleepers")
    <3>1. queue' = queue /\ Nodes(queue, "sleepers") = {}
      BY <1>1, <2>1, EmptyHasNoNodes, MutexAssumption DEF mutex_unlock, Woken, tq_is_empty
    <3> QED BY <1>1, <3>1
  <2>2. CASE ~tq_is_empty(queue, "sleepers")
    <3>1. queue' = klist0_unlink_first(queue, "sleepers")
      BY <2>2 DEF mutex_unlock, Woken, tq_remove_head
    <3>2. /\ TQ(queue')
          /\ Head(queue["sleepers"]) \in Nodes(queue, "sleepers")
          /\ \A q \in Queues : Nodes(queue', q) =
                IF q = "sleepers"
                THEN Nodes(queue, "sleepers") \ {Head(queue["sleepers"])} ELSE Nodes(queue, q)
      BY <1>1, <2>2, <3>1, UnlinkFirst, MutexAssumption DEF TQ, tq_is_empty
    <3> QED BY <1>1, <3>2, MutexAssumption
  <2> QED BY <2>1, <2>2
<1>3. TypeOK'
  <2>1. queue' \in [Queues -> Seq(Threads)]
    BY <1>2 DEF TQ, WellFormed
  <2> QED BY <1>1, <2>1 DEF mutex_unlock, TypeOK, Places
<1>4. Nodes(queue, "sleepers") \subseteq Threads
  BY <1>1, MutexAssumption DEF TQ, WellFormed, Nodes, Range
<1>5. /\ lock' = 1 /\ at[t] = "in" /\ at'[t] = "out"
      /\ \A u \in Threads \ {t} : at'[u] = at[u]
  BY <1>1 DEF mutex_unlock, TypeOK
<1>6. Exclusion'
  BY <1>1, <1>5 DEF Exclusion
<1>7. \A u \in Nodes(queue, "sleepers") : at'[u] = "doors"
  BY <1>1, <1>4, <1>5
<1> QED BY <1>2, <1>3, <1>4, <1>6, <1>7, SetsInv

\* mutex.h: threads are linked at most once and only while they wait, the
\* lock tells whether somebody holds the mutex, and no wake-up is lost, in
\* every state of any number of threads.
THEOREM MutexInvariance == Spec => []MutexInv
<1>1. MutexInv /\ [Next]_mutex_vars => MutexInv'
  <2> SUFFICES ASSUME MutexInv, [Next]_mutex_vars PROVE MutexInv'
    OBVIOUS
  <2>1. ASSUME NEW t \in Threads, mutex_lock(t) PROVE MutexInv'
    BY <2>1, AcquireKeeps, SleepKeeps DEF mutex_lock
  <2>2. ASSUME NEW t \in Threads, mutex_unlock(t) PROVE MutexInv'
    BY <2>2, UnlockKeeps
  <2>3. CASE UNCHANGED mutex_vars
    BY <2>3 DEF mutex_vars, MutexInv, TypeOK, Exclusion, NoLostWakeup, Runnable,
                Linked, LinkedOnce, Nodes, tq_is_empty, klist0_empty
  <2> QED BY <2>1, <2>2, <2>3 DEF Next
<1> QED BY <1>1, InitInv, PTL DEF Spec

\* mutex_lock and mutex_unlock: at most one thread is between the two, and
\* the bug_on of mutex_unlock never fires.
THEOREM MutualExclusion == Spec => []Exclusion
<1>1. MutexInv => Exclusion
  BY DEF MutexInv
<1> QED BY <1>1, MutexInvariance, PTL

\* mutex_unlock wakes one sleeper only, and that is enough: while threads
\* sleep on a free mutex, one that was woken is about to ask for it.
THEOREM WakeupsAreKept == Spec => []NoLostWakeup
<1>1. MutexInv => NoLostWakeup
  BY DEF MutexInv
<1> QED BY <1>1, MutexInvariance, PTL

----------------------------------------------------------------------------
(***************************************************************************)
(* Proofs about Mpipe, for any readers and writers and any lengths: the    *)
(* mutex keeps its promises while readers sleep on a queue of their own,   *)
(* and a pipe with one reader never wakes it with an empty buffer.         *)
(***************************************************************************)

Asleep == Nodes(queue, "sleepers")
Waiting == Nodes(queue, "tq")

\* Everything of PipeTypeOK but the queues.
Fields ==
    /\ lock \in {0, 1}
    /\ at \in [Threads -> Places]
    /\ buf \in Readers \cup {NoBuf}
    /\ len \in 0..MaxLen
    /\ state \in {"MC_OPENED", "MC_READ_FROM", "MC_WRITTEN_TO"}
    /\ left \in [Writers -> 0..MaxLen]
    /\ reading \subseteq Readers /\ filled \subseteq reading

\* Readers stay away from the mutex, only they sleep on tq, and only while
\* they read; the mutex' sleepers are writers at its doors.
Apart ==
    /\ WellFormed(queue, Queues, Threads)
    /\ \A r \in Readers : at[r] = "out"
    /\ \A w \in Asleep : w \in Writers /\ at[w] = "doors"
    /\ Waiting \subseteq reading

\* While threads sleep on the free mutex, one is on its way to it.
OnItsWay ==
    lock = 1 /\ Asleep # {} => \E w \in Writers : at[w] = "doors" /\ w \notin Asleep

\* The pipe's buffer is a reader's while anybody reads; a single reader that
\* does not wait any more has had its buffer written.
Written ==
    /\ reading # {} => buf # NoBuf
    /\ \A r \in reading : Readers = {r} /\ r \notin Waiting => r \in filled

(***************************************************************************)
(* The inductive invariant.  What the properties leave out is which queue  *)
(* a thread may be on: without it mutex_unlock could wake a reader.        *)
(***************************************************************************)
PipeInv == Fields /\ Apart /\ Exclusion /\ OnItsWay /\ Written

\* The two queues are all there are.
LEMMA LinkedOnEither ==
    ASSUME NEW Q, WellFormed(Q, Queues, Threads)
    PROVE  /\ {"sleepers", "tq"} = Queues
           /\ \A t : Linked(Q, t) <=> t \in Nodes(Q, "sleepers") \/ t \in Nodes(Q, "tq")
           /\ \A q \in Queues : klist0_empty(Q, q) <=> Nodes(Q, q) = {}
           /\ Nodes(Q, "sleepers") \cap Nodes(Q, "tq") = {}
<1>1. Q \in [Queues -> Seq(Threads)] /\ DOMAIN Q = Queues /\ {"sleepers", "tq"} = Queues
  BY PipeAssumption DEF WellFormed
<1>2. \A t : Linked(Q, t) <=> t \in Nodes(Q, "sleepers") \/ t \in Nodes(Q, "tq")
  BY <1>1 DEF Linked
<1>3. ASSUME NEW q \in Queues PROVE klist0_empty(Q, q) <=> Nodes(Q, q) = {}
  <2>1. Q[q] \in Seq(Threads)
    BY <1>1
  <2>2. Q[q] # <<>> => Q[q][1] \in Nodes(Q, q)
    BY <2>1 DEF Nodes, Range
  <2>3. Q[q] = <<>> => Nodes(Q, q) = {}
    BY DEF Nodes, Range
  <2> QED BY <2>2, <2>3 DEF klist0_empty
<1>4. Nodes(Q, "sleepers") \cap Nodes(Q, "tq") = {}
  BY <1>1, WellFormedSplit DEF WellFormed
<1> QED BY <1>1, <1>2, <1>3, <1>4

\* The invariant implies what the run checks.
LEMMA InvImplies ==
    ASSUME PipeInv
    PROVE  PipeTypeOK /\ Exclusion /\ NoLostWakeup
<1>1. queue \in [Queues -> Seq(Threads)]
  BY DEF PipeInv, Apart, WellFormed
<1>2. PipeTypeOK
  BY <1>1 DEF PipeInv, Fields, PipeTypeOK, TypeOK
<1>3. NoLostWakeup
  <2> SUFFICES ASSUME lock = 1, ~tq_is_empty(queue, "sleepers")
               PROVE  \E t \in Threads : at[t] = "doors" /\ Runnable(t)
    BY DEF NoLostWakeup
  <2>1. Asleep # {}
    BY LinkedOnEither DEF PipeInv, Apart, tq_is_empty, Asleep
  <2>2. PICK w \in Writers : at[w] = "doors" /\ w \notin Asleep
    BY <2>1 DEF PipeInv, OnItsWay
  <2>3. w \notin Waiting
    BY PipeAssumption DEF PipeInv, Apart, Fields
  <2>4. ~Linked(queue, w)
    BY <2>2, <2>3, LinkedOnEither DEF PipeInv, Apart, Asleep, Waiting
  <2> QED BY <2>2, <2>4, PipeAssumption DEF Runnable
<1> QED BY <1>2, <1>3 DEF PipeInv

\* mpipe_open: nobody sleeps, the mutex is free and no buffer is known.
LEMMA InitPipeInv == PipeInit => PipeInv
<1> SUFFICES ASSUME PipeInit PROVE PipeInv
  OBVIOUS
<1>1. queue = [q \in Queues |-> <<>>]
  BY DEF PipeInit, Init, mutex_init
<1>2. WellFormed(queue, Queues, Threads) /\ Asleep = {} /\ Waiting = {}
  BY <1>1, PipeAssumption DEF WellFormed, LinkedOnce, Asleep, Waiting, Nodes, Range
<1>3. Fields
  BY PipeAssumption DEF PipeInit, Init, mutex_init, Fields, Places
<1>4. Exclusion
  BY DEF PipeInit, Init, mutex_init, Exclusion
<1>5. Apart /\ OnItsWay /\ Written
  BY <1>2, PipeAssumption DEF PipeInit, Init, Apart, OnItsWay, Written
<1> QED BY <1>3, <1>4, <1>5 DEF PipeInv

\* scheduler_enqueue(q) takes a thread off q, if there is one, and leaves the
\* other queue alone.
LEMMA WokenRemoves ==
    ASSUME WellFormed(queue, Queues, Threads), NEW q \in Queues
    PROVE  /\ WellFormed(Woken(q), Queues, Threads)
           /\ \A p \in Queues \ {q} : Nodes(Woken(q), p) = Nodes(queue, p)
           /\ Nodes(Woken(q), q) \subseteq Nodes(queue, q)
           /\ Nodes(queue, q) # {} => \E h \in Nodes(queue, q) : h \notin Nodes(Woken(q), q)
<1>1. CASE tq_is_empty(queue, q)
  BY <1>1, LinkedOnEither DEF Woken, tq_is_empty
<1>2. CASE ~tq_is_empty(queue, q)
  <2>1. Woken(q) = klist0_unlink_first(queue, q)
    BY <1>2 DEF Woken, tq_remove_head
  <2>2. /\ WellFormed(Woken(q), Queues, Threads)
        /\ Head(queue[q]) \in Nodes(queue, q)
        /\ \A p \in Queues : Nodes(Woken(q), p) =
              IF p = q THEN Nodes(queue, q) \ {Head(queue[q])} ELSE Nodes(queue, p)
    BY <1>2, <2>1, UnlinkFirst DEF tq_is_empty
  <2> QED BY <2>2
<1> QED BY <1>1, <1>2

\* mpipe_read: the reader was on no queue and joins tq; it is the pipe's
\* buffer that counts from now on.
LEMMA ReadKeeps ==
    ASSUME PipeInv, NEW r \in Readers, NEW n \in 1..MaxLen, Read(r, n)
    PROVE  PipeInv'
<1>1. Fields /\ Apart /\ Exclusion /\ OnItsWay /\ Written
  BY DEF PipeInv
<1>2. ~Linked(queue, r) /\ r \in Threads
  BY <1>1, LinkedOnEither, PipeAssumption DEF Read, Apart, Asleep, Waiting
<1>3. /\ WellFormed(queue', Queues, Threads)
      /\ Asleep' = Asleep /\ Waiting' = Waiting \cup {r}
  <2>1. "sleepers" \in Queues /\ "tq" \in Queues
    BY PipeAssumption
  <2>2. /\ WellFormed(queue', Queues, Threads)
        /\ \A q \in Queues : Nodes(queue', q) =
              IF q = "tq" THEN Nodes(queue, "tq") \cup {r} ELSE Nodes(queue, q)
    BY <1>1, <1>2, <2>1, PrependLinks DEF Read, Apart, tq_insert_tail
  <2> QED BY <2>1, <2>2 DEF Asleep, Waiting
<1>4. Fields'
  BY <1>1, PipeAssumption DEF Read, Fields
<1>5. Apart'
  BY <1>1, <1>3 DEF Read, Apart
<1>6. Exclusion' /\ OnItsWay'
  BY <1>1, <1>3 DEF Read, Exclusion, OnItsWay
<1>7. Written'
  BY <1>1, <1>3, PipeAssumption DEF Read, Written
<1> QED BY <1>4, <1>5, <1>6, <1>7 DEF PipeInv

\* The rest of mpipe_read, in a reader that waits no more.
LEMMA ReadReturnKeeps ==
    ASSUME PipeInv, NEW r \in Readers, ReadReturn(r)
    PROVE  PipeInv'
<1>1. Fields /\ Apart /\ Exclusion /\ OnItsWay /\ Written
  BY DEF PipeInv
<1>2. r \notin Waiting
  BY <1>1, LinkedOnEither DEF ReadReturn, Runnable, Apart, Waiting
<1>3. queue' = queue /\ lock' = lock /\ at' = at
  BY DEF ReadReturn, mutex_vars
<1>4. Asleep' = Asleep /\ Waiting' = Waiting
  BY <1>3 DEF Asleep, Waiting
<1>5. Fields'
  BY <1>1, <1>3 DEF ReadReturn, Fields
<1>6. Apart'
  BY <1>1, <1>2, <1>3, <1>4 DEF ReadReturn, Apart
<1>7. Exclusion' /\ OnItsWay'
  BY <1>1, <1>3, <1>4 DEF Exclusion, OnItsWay
<1>8. Written'
  BY <1>1, <1>4 DEF ReadReturn, Written
<1> QED BY <1>5, <1>6, <1>7, <1>8 DEF PipeInv

\* A turn of mpipe_write's loop: the reader that is woken is the one whose
\* buffer was written, when there is one reader only.
LEMMA ChunkKeeps ==
    ASSUME PipeInv, NEW w \in Writers, NEW n \in 1..MaxLen, Chunk(w, n),
           UNCHANGED <<buf, len, reading>>
    PROVE  /\ WellFormed(queue', Queues, Threads)
           /\ Asleep' = Asleep /\ Waiting' \subseteq Waiting
           /\ left' \in [Writers -> 0..MaxLen] /\ filled' \subseteq reading
           /\ state' = "MC_WRITTEN_TO"
           /\ Written'
<1>1. Fields /\ Apart /\ Written
  BY DEF PipeInv
<1>2. /\ WellFormed(queue', Queues, Threads)
      /\ Asleep' = Asleep /\ Waiting' \subseteq Waiting
  <2>1. "sleepers" \in Queues \ {"tq"} /\ "tq" \in Queues /\ queue' = Woken("tq")
    BY PipeAssumption DEF Chunk
  <2> QED BY <1>1, <2>1, WokenRemoves DEF Apart, Asleep, Waiting
<1>3. left' \in [Writers -> 0..MaxLen]
  <2>1. (IF len < n THEN n - len ELSE 0) \in 0..MaxLen
    BY <1>1, PipeAssumption DEF Fields
  <2> QED BY <1>1, <2>1 DEF Chunk, Fields
<1>4. filled' \subseteq reading
  BY <1>1 DEF Chunk, Fields
<1>5. ASSUME NEW r \in reading, Readers = {r} PROVE r \in filled'
  <2>1. buf = r
    BY <1>1, <1>5 DEF Fields, Written
  <2> QED BY <2>1 DEF Chunk
<1>6. Written'
  BY <1>1, <1>5 DEF Written
<1> QED BY <1>2, <1>3, <1>4, <1>6 DEF Chunk

\* mutex_lock fails: the writer joins the sleepers.
LEMMA WriteBlockedKeeps ==
    ASSUME PipeInv, NEW w \in Writers, NEW n \in 1..MaxLen, WriteBlocked(w, n)
    PROVE  PipeInv'
<1>1. Fields /\ Apart /\ Exclusion /\ OnItsWay /\ Written
  BY DEF PipeInv
<1>2. ~Linked(queue, w) /\ w \in Threads /\ w \notin Readers
  BY PipeAssumption DEF WriteBlocked, Sleep, AtDoors, Runnable
<1>3. /\ WellFormed(queue', Queues, Threads)
      /\ Asleep' = Asleep \cup {w} /\ Waiting' = Waiting
  <2>1. "sleepers" \in Queues /\ "tq" \in Queues
    BY PipeAssumption
  <2>2. /\ WellFormed(queue', Queues, Threads)
        /\ \A q \in Queues : Nodes(queue', q) =
              IF q = "sleepers" THEN Nodes(queue, "sleepers") \cup {w} ELSE Nodes(queue, q)
    BY <1>1, <1>2, <2>1, PrependLinks DEF WriteBlocked, Sleep, Apart, tq_insert_tail
  <2> QED BY <2>1, <2>2 DEF Asleep, Waiting
<1>4. /\ lock = 0 /\ lock' = 0 /\ at'[w] = "doors" /\ at[w] # "in"
      /\ \A t \in Threads \ {w} : at'[t] = at[t]
      /\ at' \in [Threads -> Places]
  BY <1>1, <1>2 DEF WriteBlocked, Sleep, AtDoors, Fields, Places
<1>5. Fields'
  BY <1>1, <1>4, PipeAssumption DEF WriteBlocked, Fields
<1>6. Apart'
  BY <1>1, <1>2, <1>3, <1>4, PipeAssumption DEF WriteBlocked, Apart
<1>7. Exclusion' /\ OnItsWay'
  BY <1>1, <1>4 DEF Exclusion, OnItsWay
<1>8. Written'
  BY <1>1, <1>3 DEF WriteBlocked, Written
<1> QED BY <1>5, <1>6, <1>7, <1>8 DEF PipeInv

\* mutex_lock succeeds: nobody held the mutex, now this writer does.
LEMMA WriteFirstKeeps ==
    ASSUME PipeInv, NEW w \in Writers, NEW n \in 1..MaxLen, WriteFirst(w, n)
    PROVE  PipeInv'
<1>1. Fields /\ Apart /\ Exclusion
  BY DEF PipeInv
<1>2. /\ WellFormed(queue', Queues, Threads)
      /\ Asleep' = Asleep /\ Waiting' \subseteq Waiting
      /\ left' \in [Writers -> 0..MaxLen] /\ filled' \subseteq reading
      /\ state' = "MC_WRITTEN_TO" /\ Written'
  BY ChunkKeeps DEF WriteFirst
<1>3. w \in Threads /\ w \notin Readers /\ w \notin Asleep
  BY <1>1, LinkedOnEither, PipeAssumption
     DEF WriteFirst, Acquire, AtDoors, Runnable, Apart, Asleep
<1>4. /\ lock = 1 /\ lock' = 0 /\ at'[w] = "in"
      /\ \A t \in Threads \ {w} : at'[t] = at[t]
      /\ at' \in [Threads -> Places]
  BY <1>1, <1>3 DEF WriteFirst, Acquire, Fields, Places
<1>5. Fields'
  BY <1>1, <1>2, <1>4 DEF WriteFirst, Fields
<1>6. Apart'
  BY <1>1, <1>2, <1>3, <1>4, PipeAssumption DEF WriteFirst, Apart
<1>7. Exclusion' /\ OnItsWay'
  <2>1. \A t \in Threads : at[t] # "in"
    BY <1>1, <1>4 DEF Exclusion
  <2> QED BY <1>3, <1>4, <2>1 DEF Exclusion, OnItsWay
<1> QED BY <1>2, <1>5, <1>6, <1>7 DEF PipeInv

\* A further turn of the loop, in the writer that holds the mutex.
LEMMA WriteAgainKeeps ==
    ASSUME PipeInv, NEW w \in Writers, WriteAgain(w)
    PROVE  PipeInv'
<1>1. Fields /\ Apart /\ Exclusion
  BY DEF PipeInv
<1>2. left[w] \in 1..MaxLen
  BY <1>1, PipeAssumption DEF WriteAgain, Fields
<1>3. /\ WellFormed(queue', Queues, Threads)
      /\ Asleep' = Asleep /\ Waiting' \subseteq Waiting
      /\ left' \in [Writers -> 0..MaxLen] /\ filled' \subseteq reading
      /\ state' = "MC_WRITTEN_TO" /\ Written'
  BY <1>2, ChunkKeeps DEF WriteAgain
<1>4. lock' = lock /\ at' = at /\ lock = 0
  BY <1>1, PipeAssumption DEF WriteAgain, Exclusion
<1>5. Fields'
  BY <1>1, <1>3, <1>4 DEF WriteAgain, Fields
<1>6. Apart'
  BY <1>1, <1>3, <1>4 DEF WriteAgain, Apart
<1>7. Exclusion' /\ OnItsWay'
  BY <1>1, <1>4 DEF Exclusion, OnItsWay
<1> QED BY <1>3, <1>5, <1>6, <1>7 DEF PipeInv

\* mutex_unlock wakes a writer, never a reader: the first of its own sleepers
\* is now on its way.
LEMMA WriteReturnKeeps ==
    ASSUME PipeInv, NEW w \in Writers, WriteReturn(w)
    PROVE  PipeInv'
<1>1. Fields /\ Apart /\ Exclusion /\ Written
  BY DEF PipeInv
<1>2. /\ WellFormed(queue', Queues, Threads)
      /\ Asleep' \subseteq Asleep /\ Waiting' = Waiting
      /\ Asleep # {} => \E h \in Asleep : h \notin Asleep'
  <2>1. "tq" \in Queues \ {"sleepers"} /\ "sleepers" \in Queues /\ queue' = Woken("sleepers")
    BY PipeAssumption DEF WriteReturn, mutex_unlock
  <2> QED BY <1>1, <2>1, WokenRemoves DEF Apart, Asleep, Waiting
<1>3. w \in Threads /\ w \notin Readers
  BY PipeAssumption
<1>4. /\ lock' = 1 /\ at[w] = "in" /\ at'[w] = "out"
      /\ \A t \in Threads \ {w} : at'[t] = at[t]
      /\ at' \in [Threads -> Places]
      /\ UNCHANGED pipe_vars
  BY <1>1, <1>3 DEF WriteReturn, mutex_unlock, Fields, Places
<1>5. \A t \in Asleep : t \in Writers /\ at'[t] = "doors"
  BY <1>1, <1>4, PipeAssumption DEF Apart
<1>6. Fields'
  BY <1>1, <1>4 DEF pipe_vars, Fields
<1>7. Apart'
  BY <1>1, <1>2, <1>4, <1>5, PipeAssumption DEF pipe_vars, Apart
<1>8. Exclusion'
  BY <1>1, <1>3, <1>4 DEF Exclusion
<1>9. OnItsWay'
  BY <1>2, <1>5 DEF OnItsWay
<1>10. Written'
  BY <1>1, <1>2, <1>4 DEF pipe_vars, Written
<1> QED BY <1>6, <1>7, <1>8, <1>9, <1>10 DEF PipeInv

-----------------------------------------------------------------------------
\* mpipe.c with its mutex: the invariant holds in every state, for any number
\* of readers and writers.
THEOREM PipeInvariance == PipeSpec => []PipeInv
<1>1. PipeInv /\ [PipeNext]_vars => PipeInv'
  <2> SUFFICES ASSUME PipeInv, [PipeNext]_vars PROVE PipeInv'
    OBVIOUS
  <2>1. ASSUME NEW r \in Readers, NEW n \in 1..MaxLen, Read(r, n) PROVE PipeInv'
    BY <2>1, ReadKeeps
  <2>2. ASSUME NEW r \in Readers, ReadReturn(r) PROVE PipeInv'
    BY <2>2, ReadReturnKeeps
  <2>3. ASSUME NEW w \in Writers, NEW n \in 1..MaxLen, WriteBlocked(w, n) \/ WriteFirst(w, n)
        PROVE  PipeInv'
    BY <2>3, WriteBlockedKeeps, WriteFirstKeeps
  <2>4. ASSUME NEW w \in Writers, WriteAgain(w) \/ WriteReturn(w) PROVE PipeInv'
    BY <2>4, WriteAgainKeeps, WriteReturnKeeps
  <2>5. CASE UNCHANGED vars
    <3>1. Asleep' = Asleep /\ Waiting' = Waiting
      BY <2>5 DEF vars, mutex_vars, Asleep, Waiting
    <3>2. Fields' /\ Apart'
      BY <2>5, <3>1 DEF vars, mutex_vars, pipe_vars, PipeInv, Fields, Apart
    <3>3. Exclusion' /\ OnItsWay' /\ Written'
      BY <2>5, <3>1 DEF vars, mutex_vars, pipe_vars, PipeInv, Exclusion, OnItsWay, Written
    <3> QED BY <3>2, <3>3 DEF PipeInv
  <2> QED BY <2>1, <2>2, <2>3, <2>4, <2>5 DEF PipeNext, WriteYield
<1> QED BY <1>1, InitPipeInv, PTL DEF PipeSpec

\* The state of a pipe has its shape; what a writer has left never goes below
\* 0, however the lengths of reads and writes fall together.
THEOREM PipeTypeCorrect == PipeSpec => []PipeTypeOK
  BY InvImplies, PipeInvariance, PTL

\* At most one writer is in mpipe_write's loop: the mutex excludes while the
\* pipe's other queue has its own sleepers and wake-ups.
THEOREM OneWriter == PipeSpec => []Exclusion
  BY InvImplies, PipeInvariance, PTL

\* mutex_unlock at the end of mpipe_write wakes a writer that waits, never a
\* reader, so that no wake-up is lost.
THEOREM WritersAreWoken == PipeSpec => []NoLostWakeup
  BY InvImplies, PipeInvariance, PTL

\* A pipe with one reader: mpipe_read returns only after mpipe_write has
\* written the reader's buffer, for any number of writers.
THEOREM OneReaderIsServed ==
    ASSUME NEW r, Readers = {r}
    PROVE  PipeSpec => []WokenIsFilled
<1>1. PipeInv => WokenIsFilled
  <2> SUFFICES ASSUME PipeInv, NEW u \in reading, Runnable(u) PROVE u \in filled
    BY DEF WokenIsFilled
  <2>1. u = r
    BY DEF PipeInv, Fields
  <2>2. u \notin Waiting
    BY LinkedOnEither DEF PipeInv, Apart, Runnable, Waiting
  <2> QED BY <2>1, <2>2 DEF PipeInv, Written
<1> QED BY <1>1, PipeInvariance, PTL

\* A pipe with one reader, for any writers and lengths: what mpipe_read and
\* mpipe_write promise together with the mutex under them.
THEOREM PipesAreSound ==
    ASSUME NEW r, Readers = {r}
    PROVE  PipeSpec => []PipeSound
<1>1. PipeSpec => []WokenIsFilled
  BY OneReaderIsServed
<1>2. PipeTypeOK /\ Exclusion /\ NoLostWakeup /\ WokenIsFilled => PipeSound
  BY DEF PipeSound
<1> QED BY <1>1, <1>2, PipeTypeCorrect, OneWriter, WritersAreWoken, PTL

-----------------------------------------------------------------------------
(* Messages. *)

Copies(t) == {m \in Nodes(mbox, t) : ~msg[m].block}

MsgShape ==
    /\ used \subseteq Msgs
    /\ msg \in [Msgs -> [sender : Tasks \cup {None}, block : BOOLEAN, buf : Slot]]
    /\ WellFormed(mbox, Tasks, Msgs) /\ \A t \in Tasks : Nodes(mbox, t) \subseteq used
    /\ sleep \in [Tasks -> Msgs \cup {"sleepers", None}]
    /\ want \in [Tasks -> Tasks \cup {None}]
    /\ area \in [Tasks -> {"missing", "made", "null"}]
    /\ m_end \in [Tasks -> 0..Slots]
    /\ page \in [Tasks -> [Slot -> Msgs \cup {None}]]
    /\ got \in (Msgs \cup {None}) \X (Msgs \cup {None})

\* The area of a thread has a page for every copy in its mbox.
Sized == \A t \in Tasks : IsFiniteSet(Copies(t)) /\ m_end[t] = Cardinality(Copies(t))

\* Why a thread sleeps, or was woken.
Receiver(t) ==
    /\ sleep[t] = "sleepers" =>
          want[t] # None /\ \A m \in Nodes(mbox, t) : msg[m].sender # want[t]
    /\ sleep[t] = None /\ want[t] # None => Nodes(mbox, t) # {}
Sender(t) ==
    sleep[t] \in Msgs =>
        /\ want[t] = None /\ sleep[t] \in used /\ msg[sleep[t]].sender = t
        /\ Linked(mbox, sleep[t])

MsgInv == MsgShape /\ Sized /\ \A t \in Tasks : Receiver(t) /\ Sender(t)

\* No message from s, in terms of sets.
LEMMA FromSets ==
    ASSUME MsgShape, NEW t \in Tasks, NEW s
    PROVE  From(t, s) = {} <=> \A m \in Nodes(mbox, t) : msg[m].sender # s
  BY DEF From, Nodes, Range

\* An empty mbox is one without messages.
LEMMA EmptyBox ==
    ASSUME MsgShape, NEW t \in Tasks
    PROVE  Nodes(mbox, t) # {} => mbox[t] # <<>>
  BY DEF Nodes, Range

\* What the invariant is good for.
LEMMA MailImplies ==
    ASSUME MsgInv
    PROVE  MsgTypeOK /\ NoMailMissed /\ SenderCanBeWoken /\ WokenWithMail
<1>1. DOMAIN mbox = Tasks /\ mbox \in [Tasks -> Seq(Msgs)] /\ LinkedOnce(mbox)
  BY DEF MsgInv, MsgShape, WellFormed
<1>2. mbox \in [Tasks -> Seq(used)]
  <2> SUFFICES ASSUME NEW t \in Tasks PROVE mbox[t] \in Seq(used)
    BY <1>1
  <2>1. \A i \in 1..Len(mbox[t]) : mbox[t][i] \in used
    BY <1>1 DEF MsgInv, MsgShape, Nodes, Range
  <2> QED BY <1>1, <2>1
<1>3. MsgTypeOK
  BY <1>2 DEF MsgInv, MsgShape, MsgTypeOK
<1>4. NoMailMissed
  BY FromSets DEF MsgInv, Receiver, NoMailMissed
<1>5. WokenWithMail
  BY EmptyBox DEF MsgInv, Receiver, WokenWithMail
<1>6. SenderCanBeWoken
  <2> SUFFICES ASSUME NEW t \in Tasks, sleep[t] \in Msgs
               PROVE  /\ sleep[t] \in used /\ msg[sleep[t]].sender = t
                      /\ \E r \in Tasks : sleep[t] \in Range(mbox[r])
                      /\ \A r, q \in Tasks :
                           sleep[t] \in Range(mbox[r]) \cap Range(mbox[q]) => r = q
    BY DEF SenderCanBeWoken
  <2>1. sleep[t] \in used /\ msg[sleep[t]].sender = t /\ Linked(mbox, sleep[t])
    BY DEF MsgInv, Sender
  <2>2. \E r \in Tasks : sleep[t] \in Range(mbox[r])
    BY <1>1, <2>1 DEF Linked, Nodes
  <2>3. \A r, q \in Tasks : sleep[t] \in Range(mbox[r]) \cap Range(mbox[q]) => r = q
    BY <1>1 DEF LinkedOnce, Range
  <2> QED BY <2>1, <2>2, <2>3
<1> QED BY <1>3, <1>4, <1>5, <1>6

\* messaging_init
LEMMA InitMsgInv == MsgInit => MsgInv
<1> SUFFICES ASSUME MsgInit PROVE MsgInv
  OBVIOUS
<1>1. \A t \in Tasks : Nodes(mbox, t) = {} /\ Copies(t) = {}
  BY DEF MsgInit, Nodes, Range, Copies
<1>2. WellFormed(mbox, Tasks, Msgs)
  BY DEF MsgInit, WellFormed, LinkedOnce
<1>3. MsgShape
  BY <1>1, <1>2, MessageAssumption DEF MsgInit, MsgShape, Slot
<1>4. Sized
  BY <1>1, FS_EmptySet DEF MsgInit, Sized
<1>5. \A t \in Tasks : Receiver(t) /\ Sender(t)
  BY MessageAssumption DEF MsgInit, Receiver, Sender
<1> QED BY <1>3, <1>4, <1>5 DEF MsgInv

-----------------------------------------------------------------------------
\* A message that is not in use is in no mbox.
LEMMA UnusedIsUnlinked ==
    ASSUME MsgShape, NEW m, m \notin used
    PROVE  ~Linked(mbox, m)
  BY DEF MsgShape, WellFormed, Linked

\* Posting: the message is added to one mbox, and no other message changes.
Posted(t, r, m, block) ==
    /\ used' = used \cup {m} /\ used' \subseteq Msgs /\ m \notin used
    /\ msg' \in [Msgs -> [sender : Tasks \cup {None}, block : BOOLEAN, buf : Slot]]
    /\ msg'[m].sender = t /\ msg'[m].block = block
    /\ \A x \in used : msg'[x] = msg[x]
    /\ WellFormed(mbox', Tasks, Msgs)
    /\ \A q \in Tasks : Nodes(mbox', q) =
          IF q = r THEN Nodes(mbox, r) \cup {m} ELSE Nodes(mbox, q)

LEMMA PostAdds ==
    ASSUME MsgShape, NEW t \in Tasks, NEW r \in Tasks, NEW m \in Msgs,
           NEW block \in BOOLEAN, NEW slot \in Slot, Post(t, r, m, block, slot)
    PROVE  Posted(t, r, m, block)
<1>1. /\ m \notin used /\ used' = used \cup {m}
      /\ msg' = [msg EXCEPT ![m] = [sender |-> t, block |-> block, buf |-> slot]]
      /\ mbox' = klist0_prepend(mbox, m, r)
  BY DEF Post, klist0_prepend
<1>2. /\ WellFormed(mbox', Tasks, Msgs)
      /\ \A q \in Tasks : Nodes(mbox', q) =
            IF q = r THEN Nodes(mbox, r) \cup {m} ELSE Nodes(mbox, q)
  <2>1. ~Linked(mbox, m)
    BY <1>1, UnusedIsUnlinked
  <2>2. WellFormed(mbox, Tasks, Msgs)
    BY DEF MsgShape
  <2> QED BY <1>1, <2>1, <2>2, PrependLinks
<1> QED BY <1>1, <1>2 DEF MsgShape, Posted

\* Whoever was linked still is, and whoever waits in vain still does.
LEMMA PostKeeps ==
    ASSUME MsgInv, NEW t, NEW r \in Tasks, NEW m \in Msgs, NEW block, Posted(t, r, m, block),
           want' = want, NEW u \in Tasks, sleep'[u] = Wake(r)[u]
    PROVE  Receiver(u)' /\ Sender(u)'
<1>1. MsgShape /\ Receiver(u) /\ Sender(u)
  BY DEF MsgInv
<1>2. /\ used' = used \cup {m} /\ m \notin used
      /\ \A x \in used : msg'[x] = msg[x]
      /\ WellFormed(mbox', Tasks, Msgs)
      /\ \A q \in Tasks : Nodes(mbox', q) =
            IF q = r THEN Nodes(mbox, r) \cup {m} ELSE Nodes(mbox, q)
  BY DEF Posted
<1>3. sleep'[u] = IF u = r /\ sleep[u] = "sleepers" THEN None ELSE sleep[u]
  BY DEF Wake, MsgInv, MsgShape
<1>4. \A q \in Tasks : Nodes(mbox, q) \subseteq used
  BY <1>1 DEF MsgShape
<1>5. Receiver(u)'
  <2>1. CASE u = r
    BY <1>2, <1>3, <2>1, MessageAssumption DEF Receiver
  <2>2. CASE u # r
    BY <1>1, <1>2, <1>3, <1>4, <2>2 DEF Receiver
  <2> QED BY <2>1, <2>2
<1>6. Linked(mbox, sleep[u]) => Linked(mbox', sleep[u])
  <2>1. DOMAIN mbox = Tasks /\ DOMAIN mbox' = Tasks
    BY <1>1, <1>2 DEF MsgShape, WellFormed
  <2> QED BY <1>2, <2>1 DEF Linked
<1>7. Sender(u)'
  BY <1>1, <1>2, <1>3, <1>6, MessageAssumption DEF Sender
<1> QED BY <1>5, <1>7

\* Blocks are not counted in the area.
LEMMA SendBlockKeeps ==
    ASSUME MsgInv, NEW t \in Tasks, NEW r \in Tasks, NEW m \in Msgs, SendBlock(t, r, m)
    PROVE  MsgInv'
<1>0. 0 \in Slot
  BY MessageAssumption DEF Slot
<1>1. /\ Post(t, r, m, TRUE, 0) /\ InUser(t)
      /\ sleep' = [Wake(r) EXCEPT ![t] = m]
      /\ UNCHANGED <<want, area, m_end, page, got>>
  BY DEF SendBlock
<1>2. MsgShape /\ Sized
  BY DEF MsgInv
<1>3. Posted(t, r, m, TRUE)
  BY <1>0, <1>1, <1>2, PostAdds, Zenon
<1>4. /\ Wake(r) \in [Tasks -> Msgs \cup {"sleepers", None}] /\ sleep'[t] = m
      /\ \A u \in Tasks \ {t} : sleep'[u] = Wake(r)[u]
  BY <1>1, <1>2 DEF MsgShape, Wake
<1>5. MsgShape'
  BY <1>1, <1>2, <1>3, <1>4 DEF MsgShape, Posted
<1>6. \A q \in Tasks : Copies(q)' = Copies(q)
  BY <1>2, <1>3 DEF Copies, MsgShape, Posted
<1>7. Sized'
  BY <1>1, <1>2, <1>6 DEF Sized
<1>8. \A u \in Tasks \ {t} : Receiver(u)' /\ Sender(u)'
  BY <1>1, <1>3, <1>4, PostKeeps
<1>9. Receiver(t)'
  BY <1>4, MessageAssumption DEF Receiver
<1>10. Sender(t)'
  <2>1. Linked(mbox', m)
    BY <1>3 DEF Linked, WellFormed, Posted
  <2> QED BY <1>1, <1>3, <1>4, <2>1 DEF Sender, InUser, Posted
<1> QED BY <1>5, <1>7, <1>8, <1>9, <1>10 DEF MsgInv

\* A copy gets a page at the end of the area.
LEMMA SendCopyKeeps ==
    ASSUME MsgInv, NEW t \in Tasks, NEW r \in Tasks, NEW m \in Msgs, SendCopy(t, r, m)
    PROVE  MsgInv'
<1>2. MsgShape /\ Sized
  BY DEF MsgInv
<1>0. m_end[r] \in Slot
  BY <1>2, MessageAssumption DEF SendCopy, MsgShape, Slot
<1>1. /\ Post(t, r, m, FALSE, m_end[r])
      /\ area' = [area EXCEPT ![r] = "made"]
      /\ page' = [page EXCEPT ![r][m_end[r]] = m]
      /\ m_end' = [m_end EXCEPT ![r] = @ + 1]
      /\ sleep' = Wake(r) /\ UNCHANGED <<want, got>>
  BY DEF SendCopy
<1>3. Posted(t, r, m, FALSE)
  BY <1>0, <1>1, <1>2, PostAdds, Zenon
<1>4. sleep' \in [Tasks -> Msgs \cup {"sleepers", None}]
  BY <1>1, <1>2 DEF MsgShape, Wake
<1>5. m_end' \in [Tasks -> 0..Slots]
  BY <1>0, <1>1, <1>2, MessageAssumption DEF MsgShape, Slot
<1>6. /\ page' \in [Tasks -> [Slot -> Msgs \cup {None}]]
      /\ area' \in [Tasks -> {"missing", "made", "null"}]
  BY <1>0, <1>1, <1>2 DEF MsgShape
<1>7. MsgShape'
  BY <1>1, <1>2, <1>3, <1>4, <1>5, <1>6 DEF MsgShape, Posted
<1>8. /\ \A q \in Tasks \ {r} : Copies(q)' = Copies(q)
      /\ Copies(r)' = Copies(r) \cup {m} /\ m \notin Copies(r)
  BY <1>2, <1>3 DEF Copies, MsgShape, Posted
<1>9. IsFiniteSet(Copies(r)') /\ Cardinality(Copies(r)') = Cardinality(Copies(r)) + 1
  BY <1>2, <1>8, FS_AddElement DEF Sized
<1>10. Sized'
  BY <1>1, <1>2, <1>8, <1>9 DEF Sized, MsgShape
<1>11. \A u \in Tasks : Receiver(u)' /\ Sender(u)'
  BY <1>1, <1>3, PostKeeps
<1> QED BY <1>7, <1>10, <1>11 DEF MsgInv

\* A send that fails changes nobody's mail.
LEMMA SendNoAreaKeeps ==
    ASSUME MsgInv, NEW t \in Tasks, NEW r \in Tasks, NEW m \in Msgs, SendNoArea(t, r, m)
    PROVE  MsgInv'
<1>1. /\ area' = [area EXCEPT ![r] = "null"] /\ used' = used \cup {m}
      /\ UNCHANGED <<msg, mbox, sleep, want, m_end, page, got>>
  BY DEF SendNoArea
<1>2. MsgShape'
  BY <1>1 DEF MsgInv, MsgShape
<1>3. Sized'
  BY <1>1 DEF MsgInv, Sized, Copies
<1>4. \A u \in Tasks : Receiver(u)' /\ Sender(u)'
  BY <1>1 DEF MsgInv, Receiver, Sender
<1> QED BY <1>2, <1>3, <1>4 DEF MsgInv

\* A receiver goes to sleep when it has looked through its whole mbox.
LEMMA WaitKeeps ==
    ASSUME MsgInv, NEW t \in Tasks, NEW s \in Tasks, Wait(t, s)
    PROVE  MsgInv'
<1>1. /\ sleep' = [sleep EXCEPT ![t] = "sleepers"] /\ want' = [want EXCEPT ![t] = s]
      /\ UNCHANGED <<used, msg, mbox, area, m_end, page, got>>
      /\ From(t, s) = {} /\ MsgShape
  BY DEF Wait, MsgInv
<1>2. \A m \in Nodes(mbox, t) : msg[m].sender # s
  BY <1>1, FromSets
<1>3. MsgShape'
  BY <1>1 DEF MsgShape
<1>4. Sized'
  BY <1>1 DEF MsgInv, Sized, Copies
<1>5. /\ sleep'[t] = "sleepers" /\ want'[t] = s
      /\ \A u \in Tasks \ {t} : sleep'[u] = sleep[u] /\ want'[u] = want[u]
  BY <1>1 DEF MsgShape
<1>6. Receiver(t)' /\ Sender(t)'
  BY <1>1, <1>2, <1>5, MessageAssumption DEF Receiver, Sender
<1>7. \A u \in Tasks \ {t} : Receiver(u)' /\ Sender(u)'
  BY <1>1, <1>5 DEF MsgInv, Receiver, Sender
<1> QED BY <1>3, <1>4, <1>6, <1>7 DEF MsgInv

\* Taking: the first message from s is there, and it leaves one mbox.
LEMMA TakeRemoves ==
    ASSUME MsgShape, NEW t \in Tasks, NEW s \in Tasks, Take(t, s)
    PROVE  \E m \in Nodes(mbox, t) :
             /\ used' = used \ {m}
             /\ WellFormed(mbox', Tasks, Msgs)
             /\ \A q \in Tasks : Nodes(mbox', q) =
                   IF q = t THEN Nodes(mbox, t) \ {m} ELSE Nodes(mbox, q)
             /\ msg' = [msg EXCEPT ![m] = [sender |-> None, block |-> FALSE, buf |-> 0]]
             /\ sleep' = Release(m)
             /\ m_end' = [m_end EXCEPT ![t] = Shrink(t, m)]
             /\ page' \in {page, [page EXCEPT ![t][msg[m].buf] = None]}
             /\ got' \in (Msgs \cup {None}) \X (Msgs \cup {None})
<1> DEFINE i == CHOOSE j \in From(t, s) : \A k \in From(t, s) : j <= k
           m == mbox[t][i]
<1>1. mbox \in [Tasks -> Seq(Msgs)] /\ LinkedOnce(mbox) /\ DOMAIN mbox = Tasks
  BY DEF MsgShape, WellFormed
<1>2. From(t, s) \in SUBSET Nat /\ From(t, s) # {} /\ From(t, s) \subseteq DOMAIN mbox[t]
  <2>1. From(t, s) # {}
    BY DEF Take
  <2>2. DOMAIN mbox[t] \subseteq Nat
    BY <1>1
  <2> QED BY <2>1, <2>2 DEF From
<1>3. i \in DOMAIN mbox[t]
  <2>1. \E j \in From(t, s) : \A k \in From(t, s) : j <= k
    BY <1>2, LeastNumber
  <2> QED BY <1>2, <2>1
<1>4. m \in Nodes(mbox, t) /\ m \in Msgs
  <2> HIDE DEF i
  <2> QED BY <1>1, <1>3 DEF Nodes, Range
<1> DEFINE bytes == IF msg[m].block THEN m ELSE page[t][msg[m].buf]
<1>5. /\ got' = <<m, bytes>>
      /\ mbox' = [mbox EXCEPT ![t] = Without(@, i)]
      /\ used' = used \ {m}
      /\ sleep' = Release(m)
      /\ m_end' = [m_end EXCEPT ![t] = Shrink(t, m)]
      /\ page' = IF msg[m].block THEN page ELSE [page EXCEPT ![t][msg[m].buf] = None]
      /\ msg' = [msg EXCEPT ![m] = [sender |-> None, block |-> FALSE, buf |-> 0]]
  BY DEF Take
<1> HIDE DEF i, bytes
<1>6. (CHOOSE j \in DOMAIN mbox[t] : mbox[t][j] = m) = i
  <2>1. \A j \in DOMAIN mbox[t] : mbox[t][j] = m => j = i
    BY <1>1, <1>3 DEF LinkedOnce
  <2> QED BY <1>3, <2>1
<1>7. mbox' = klist0_unlink(mbox, m, t)
  BY <1>5, <1>6 DEF klist0_unlink
<1>8. /\ WellFormed(mbox', Tasks, Msgs)
      /\ \A q \in Tasks : Nodes(mbox', q) =
            IF q = t THEN Nodes(mbox, t) \ {m} ELSE Nodes(mbox, q)
  <2> HIDE DEF m
  <2> QED BY <1>4, <1>7, UnlinkNode DEF MsgShape
<1>9. bytes \in Msgs \cup {None}
  BY <1>4 DEF bytes, MsgShape
<1> QED BY <1>4, <1>5, <1>8, <1>9

\* Nobody else's mail changes; a sender asleep on the message is woken, and
\* the area gives up a page if the message was a copy.
LEMMA TakeKeeps ==
    ASSUME MsgInv, NEW t \in Tasks, NEW s \in Tasks, Take(t, s)
    PROVE  MsgInv'
<1>1. MsgShape /\ Sized /\ \A u \in Tasks : Receiver(u) /\ Sender(u)
  BY DEF MsgInv
<1>2. PICK m \in Nodes(mbox, t) :
         /\ used' = used \ {m}
         /\ WellFormed(mbox', Tasks, Msgs)
         /\ \A q \in Tasks : Nodes(mbox', q) =
               IF q = t THEN Nodes(mbox, t) \ {m} ELSE Nodes(mbox, q)
         /\ msg' = [msg EXCEPT ![m] = [sender |-> None, block |-> FALSE, buf |-> 0]]
         /\ sleep' = Release(m)
         /\ m_end' = [m_end EXCEPT ![t] = Shrink(t, m)]
         /\ page' \in {page, [page EXCEPT ![t][msg[m].buf] = None]}
         /\ got' \in (Msgs \cup {None}) \X (Msgs \cup {None})
  BY <1>1, TakeRemoves
<1>3. /\ sleep[t] = None /\ want' = [want EXCEPT ![t] = None] /\ area' = area
  BY DEF Take, Asks
<1>4. m \in Msgs /\ m \in used /\ m # None
  BY <1>1, MessageAssumption DEF MsgShape
<1>5. \A q \in Tasks \ {t} : m \notin Nodes(mbox, q)
  BY <1>1, WellFormedSplit DEF MsgShape, WellFormed
<1>6. \A x \in Msgs \ {m} : msg'[x] = msg[x]
  BY <1>1, <1>2 DEF MsgShape
<1>7. \A q \in Tasks : Nodes(mbox', q) \subseteq used' /\ Nodes(mbox', q) \subseteq Msgs \ {m}
  BY <1>1, <1>2, <1>5 DEF MsgShape
<1>8. /\ \A q \in Tasks \ {t} : Copies(q)' = Copies(q)
      /\ Copies(t)' = Copies(t) \ {m}
  <2>1. \A q \in Tasks : Copies(q)' = {x \in Nodes(mbox', q) : ~msg[x].block}
    BY <1>6, <1>7 DEF Copies
  <2> QED BY <1>2, <2>1 DEF Copies
<1>9. IsFiniteSet(Copies(t)') /\ Shrink(t, m) = Cardinality(Copies(t)')
  <2>1. CASE msg[m].block
    <3>1. Copies(t)' = Copies(t)
      BY <1>8, <2>1 DEF Copies
    <3> QED BY <1>1, <2>1, <3>1 DEF Sized, Shrink
  <2>2. CASE ~msg[m].block
    <3>1. m \in Copies(t)
      BY <2>2 DEF Copies
    <3> QED BY <1>1, <1>8, <2>2, <3>1, FS_RemoveElement DEF Sized, Shrink
  <2> QED BY <2>1, <2>2
<1>10. m_end' \in [Tasks -> 0..Slots]
  <2>1. Shrink(t, m) \in Nat
    BY <1>9, FS_CardinalityType
  <2>2. Shrink(t, m) <= m_end[t] /\ m_end[t] \in 0..Slots
    BY <1>1 DEF Shrink, MsgShape
  <2>3. Shrink(t, m) \in 0..Slots
    BY <2>1, <2>2, MessageAssumption
  <2> QED BY <1>1, <1>2, <2>3 DEF MsgShape
<1>11. Sized'
  BY <1>1, <1>2, <1>8, <1>9 DEF Sized, MsgShape
<1>12. msg' \in [Msgs -> [sender : Tasks \cup {None}, block : BOOLEAN, buf : Slot]]
  <2>1. 0 \in Slot
    BY MessageAssumption DEF Slot
  <2>2. [sender |-> None, block |-> FALSE, buf |-> 0]
           \in [sender : Tasks \cup {None}, block : BOOLEAN, buf : Slot]
    BY <2>1
  <2> QED BY <1>1, <1>2, <2>2 DEF MsgShape
<1>13. page' \in [Tasks -> [Slot -> Msgs \cup {None}]]
  <2>1. [page[t] EXCEPT ![msg[m].buf] = None] \in [Slot -> Msgs \cup {None}]
    BY <1>1 DEF MsgShape
  <2> QED BY <1>1, <1>2, <2>1 DEF MsgShape
<1>14. /\ sleep' \in [Tasks -> Msgs \cup {"sleepers", None}]
       /\ \A u \in Tasks : sleep'[u] = IF sleep[u] = m THEN None ELSE sleep[u]
  BY <1>1, <1>2 DEF Release, MsgShape
<1>15. MsgShape'
  BY <1>1, <1>2, <1>3, <1>7, <1>10, <1>12, <1>13, <1>14 DEF MsgShape
<1>16. /\ want'[t] = None /\ sleep'[t] = None
       /\ \A u \in Tasks \ {t} : want'[u] = want[u]
  BY <1>1, <1>3, <1>4, <1>14 DEF MsgShape
<1>17. Receiver(t)' /\ Sender(t)'
  BY <1>16, MessageAssumption DEF Receiver, Sender
<1>18. ASSUME NEW u \in Tasks \ {t} PROVE Receiver(u)'
  <2>1. Nodes(mbox', u) = Nodes(mbox, u) /\ \A x \in Nodes(mbox, u) : msg'[x] = msg[x]
    BY <1>1, <1>2, <1>5, <1>6 DEF MsgShape
  <2>2. CASE sleep[u] = m
    BY <1>1, <1>4, <1>14, <1>16, <2>2, MessageAssumption DEF Receiver, Sender
  <2>3. CASE sleep[u] # m
    BY <1>1, <1>14, <1>16, <2>1, <2>3 DEF Receiver
  <2> QED BY <2>2, <2>3
<1>19. ASSUME NEW u \in Tasks \ {t} PROVE Sender(u)'
  <2>1. CASE sleep[u] = m
    BY <1>14, <2>1, MessageAssumption DEF Sender
  <2>2. CASE sleep[u] # m
    <3>1. Linked(mbox, sleep[u]) => Linked(mbox', sleep[u])
      <4>1. DOMAIN mbox = Tasks /\ DOMAIN mbox' = Tasks
        BY <1>1, <1>2 DEF MsgShape, WellFormed
      <4> QED BY <1>2, <2>2, <4>1 DEF Linked
    <3> QED BY <1>1, <1>2, <1>6, <1>14, <1>16, <2>2, <3>1 DEF Sender
  <2> QED BY <2>1, <2>2
<1> QED BY <1>11, <1>15, <1>17, <1>18, <1>19 DEF MsgInv

-----------------------------------------------------------------------------
\* message.c: mail boxes, sleepers and areas agree in every state, for any
\* tasks, messages and order of the calls.
THEOREM MsgInvariance == MsgSpec => []MsgInv
<1>1. MsgInv /\ [MsgNext]_msg_vars => MsgInv'
  <2> SUFFICES ASSUME MsgInv, [MsgNext]_msg_vars PROVE MsgInv'
    OBVIOUS
  <2>1. ASSUME NEW t \in Tasks, NEW r \in Tasks, NEW m \in Msgs,
               SendBlock(t, r, m) \/ SendCopy(t, r, m) \/ SendNoArea(t, r, m)
        PROVE  MsgInv'
    BY <2>1, SendBlockKeeps, SendCopyKeeps, SendNoAreaKeeps
  <2>2. ASSUME NEW t \in Tasks, NEW s \in Tasks, Wait(t, s) \/ Take(t, s) PROVE MsgInv'
    BY <2>2, WaitKeeps, TakeKeeps
  <2>3. CASE UNCHANGED msg_vars
    <3>1. MsgShape' /\ \A t \in Tasks : Copies(t)' = Copies(t)
      BY <2>3 DEF msg_vars, MsgInv, MsgShape, Copies
    <3>2. Sized'
      BY <2>3, <3>1 DEF msg_vars, MsgInv, Sized
    <3>3. \A t \in Tasks : Receiver(t)' /\ Sender(t)'
      BY <2>3 DEF msg_vars, MsgInv, Receiver, Sender
    <3> QED BY <3>1, <3>2, <3>3 DEF MsgInv
  <2> QED BY <2>1, <2>2, <2>3 DEF MsgNext
<1> QED BY <1>1, InitMsgInv, PTL DEF MsgSpec

\* The state has its shape; the mbox area never shrinks below its start.
THEOREM MsgTypeCorrect == MsgSpec => []MsgTypeOK
  BY MailImplies, MsgInvariance, PTL

\* msg_send wakes the recipient if it sleeps, whomever it waits for: no
\* thread sleeps in msg_retrieve with the message it waits for in its mbox.
THEOREM MailIsNotMissed == MsgSpec => []NoMailMissed
  BY MailImplies, MsgInvariance, PTL

\* A sender that sleeps on its message can be woken: the message is not freed
\* and is in the mbox of exactly one thread.
THEOREM SendersCanBeWoken == MsgSpec => []SenderCanBeWoken
  BY MailImplies, MsgInvariance, PTL

\* msg_retrieve finds a message in its mbox when it is woken.
THEOREM WokenHaveMail == MsgSpec => []WokenWithMail
  BY MailImplies, MsgInvariance, PTL

\* msg_send and msg_retrieve together, for any processes and messages: nobody
\* waits in vain.
THEOREM MailIsSound == MsgSpec => []MailSound
<1>1. MsgTypeOK /\ NoMailMissed /\ SenderCanBeWoken /\ WokenWithMail => MailSound
  BY DEF MailSound
<1> QED BY <1>1, MsgTypeCorrect, MailIsNotMissed, SendersCanBeWoken, WokenHaveMail, PTL

-----------------------------------------------------------------------------
(* Interrupts. *)

Calls == {"free", "enter", "unmask", "load", "mask", "forget"}
Shape ==
    /\ irr \subseteq Lines /\ imr \subseteq 0 .. HALF - 1 /\ pic_mask \subseteq Lines
    /\ table \in [Lines -> Handlers \cup {NOBODY}]
    /\ cpu \in [at : {"idle", "called", "handled"}, line : Lines]
    /\ thread \in [at : Calls, line : Lines, handler : Handlers \cup {NOBODY}]
    /\ raised \in [Lines -> 0 .. MaxRaises] /\ jiffies \in Nat

\* The line in service is the one the processor is busy with.
Served == isr = IF cpu.at = "idle" THEN {} ELSE {cpu.line}
InFirst == cpu.at # "idle" => cpu.line < HALF

\* A line that a mask lets through has a handler, in memory and in the
\* controller, and the interrupt being taken has one.
Guarded ==
    /\ \A n \in Lines : n \notin pic_mask => table[n] # NOBODY
    /\ \A n \in 0 .. HALF - 1 : n \notin imr => table[n] # NOBODY
    /\ cpu.at = "called" => table[cpu.line] # NOBODY

\* What the steps of a call already made have brought about.
Midway ==
    /\ thread.at = "free" => thread = Free
    /\ thread.at \in {"enter", "unmask"} => thread.handler # NOBODY
    /\ thread.at \in {"mask", "forget"} => thread.handler = NOBODY
    /\ thread.at = "enter" => table[thread.line] = NOBODY
    /\ thread.at = "unmask" => table[thread.line] = thread.handler
    /\ thread.at = "load" =>
           IF thread.handler = NOBODY THEN thread.line \in pic_mask
           ELSE thread.line \notin pic_mask
    /\ thread.at = "forget" =>
           thread.line \in pic_mask /\ (thread.line < HALF => thread.line \in imr)

\* A handler's line is let through, but for that of the call that is half way.
LetThrough(n) == table[n] # NOBODY => n \notin pic_mask \cup imr
Follows == \A n \in Lines : thread.at = "free" \/ n # thread.line => LetThrough(n)

\* Every tick was raised, and what is raised and not yet handled is no tick.
Underway == (IF 0 \in irr THEN 1 ELSE 0) + (IF cpu.at = "called" /\ cpu.line = 0 THEN 1 ELSE 0)
Counted == jiffies + Underway <= raised[0]

IrqInv ==
    Shape /\ Served /\ InFirst /\ Guarded /\ Midway /\ Follows /\ Counted /\ NoneUnhandled

\* Line 0, the timer's, is a line of the first controller.
LEMMA LineZero == 0 \in Lines /\ 0 .. HALF - 1 \subseteq Lines
  BY IrqAssumption DEF Lines

\* interrupts_init masks every line, and the table is empty.
LEMMA InitIrqInv == IrqInit => IrqInv
<1> SUFFICES ASSUME IrqInit PROVE IrqInv
  OBVIOUS
<1>1. Shape
  BY LineZero, IrqAssumption
  DEF IrqInit, pic_clear, timer_set_divisor, Shape, Idle, Free, Calls, NOBODY
<1>2. Served /\ InFirst
  BY DEF IrqInit, pic_clear, Served, InFirst, Idle
<1>3. Guarded
  BY DEF IrqInit, pic_clear, Guarded, Idle
<1>4. Midway
  BY DEF IrqInit, Midway, Free
<1>5. Counted
  BY LineZero DEF IrqInit, timer_set_divisor, Counted, Underway, Idle
<1>6. Follows
  BY DEF IrqInit, Follows, LetThrough
<1> QED BY <1>1, <1>2, <1>3, <1>4, <1>5, <1>6 DEF IrqInv, IrqInit, NoneUnhandled

\* Where a call goes after each of its steps.
LEMMA Steps ==
    /\ StepAfter(Registering, "enter") = "unmask"
    /\ StepAfter(Registering, "unmask") = "load"
    /\ StepAfter(Registering, "load") = "free"
    /\ StepAfter(Unregistering, "mask") = "load"
    /\ StepAfter(Unregistering, "load") = "forget"
    /\ StepAfter(Unregistering, "forget") = "free"
<1>1. /\ Registering[1] = "enter" /\ Registering[2] = "unmask" /\ Registering[3] = "load"
      /\ Unregistering[1] = "mask" /\ Unregistering[2] = "load" /\ Unregistering[3] = "forget"
  BY DEF Registering, Unregistering
<1>2. 1 .. 3 = {1, 2, 3}
  OBVIOUS
<1>3. (CHOOSE j \in 1 .. 3 : Registering[j] = "enter") = 1
  BY <1>1, <1>2
<1>4. (CHOOSE j \in 1 .. 3 : Registering[j] = "unmask") = 2
  BY <1>1, <1>2
<1>5. (CHOOSE j \in 1 .. 3 : Registering[j] = "load") = 3
  BY <1>1, <1>2
<1>6. (CHOOSE j \in 1 .. 3 : Unregistering[j] = "mask") = 1
  BY <1>1, <1>2
<1>7. (CHOOSE j \in 1 .. 3 : Unregistering[j] = "load") = 2
  BY <1>1, <1>2
<1>8. (CHOOSE j \in 1 .. 3 : Unregistering[j] = "forget") = 3
  BY <1>1, <1>2
<1> QED BY <1>1, <1>3, <1>4, <1>5, <1>6, <1>7, <1>8 DEF StepAfter

\* A raised line changes nothing but the count.
LEMMA RaiseKeeps == ASSUME IrqInv, NEW n \in Lines, Raise(n) PROVE IrqInv'
<1>1. Shape'
  BY IrqAssumption DEF IrqInv, Raise, Shape
<1>2. Counted'
  BY LineZero, IrqAssumption DEF IrqInv, Raise, Shape, Counted, Underway
<1> QED BY <1>1, <1>2 DEF IrqInv, Raise, Served, InFirst, Guarded, Midway, Follows, LetThrough, NoneUnhandled

\* An accepted line is let through by the controller, so it has a handler.
LEMMA AcceptKeeps == ASSUME IrqInv, NEW n \in Lines, Accept(n) PROVE IrqInv'
<1>1. Shape'
  BY DEF IrqInv, Accept, Shape
<1>2. Served' /\ InFirst'
  BY DEF Accept, Served, InFirst
<1>3. n \in 0 .. HALF - 1 /\ n \notin imr
  BY IrqAssumption DEF Accept, Lines
<1>4. Guarded'
  BY <1>3 DEF IrqInv, Accept, Guarded
<1>5. Counted'
  BY LineZero DEF IrqInv, Accept, Shape, Counted, Underway
<1> QED BY <1>1, <1>2, <1>4, <1>5 DEF IrqInv, Accept, Midway, Follows, LetThrough, NoneUnhandled

\* The handler is there, and line 0 was counted as underway.
LEMMA HandlerKeeps == ASSUME IrqInv, main_irq_handler PROVE IrqInv'
<1>1. table[cpu.line] # NOBODY
  BY DEF IrqInv, Guarded, main_irq_handler
<1>2. jiffies' = (IF cpu.line = 0 THEN jiffies + 1 ELSE jiffies) /\ lost' = lost
  BY <1>1 DEF main_irq_handler, timer_interrupt_handler
<1>3. cpu' = [cpu EXCEPT !.at = "handled"] /\ UNCHANGED <<irr, isr, imr, pic_mask, table, thread, raised>>
  BY DEF main_irq_handler
<1>4. cpu'.at = "handled" /\ cpu'.line = cpu.line /\ cpu.at = "called"
  BY <1>3 DEF IrqInv, Shape, main_irq_handler
<1>5. Shape'
  BY <1>2, <1>3 DEF IrqInv, Shape
<1>6. Counted'
  BY <1>2, <1>3, <1>4, LineZero DEF IrqInv, Shape, Counted, Underway
<1> QED BY <1>2, <1>3, <1>4, <1>5, <1>6 DEF IrqInv, Served, InFirst, Guarded, Midway, Follows, LetThrough, NoneUnhandled

\* The end of interrupt ends the one line in service.
LEMMA EoiKeeps == ASSUME IrqInv, pic_do_eoi PROVE IrqInv'
<1>1. isr = {cpu.line} /\ cpu.line \in Lines
  BY DEF IrqInv, Served, Shape, pic_do_eoi
<1>2. (CHOOSE n \in isr : \A k \in isr : n <= k) = cpu.line
  BY <1>1, IrqAssumption DEF Lines
<1>3. isr' = {}
  BY <1>1, <1>2, IrqAssumption DEF pic_do_eoi, EndOf, Ended, Lines
<1>4. cpu' = Idle /\ UNCHANGED <<irr, imr, pic_mask, table, thread, raised, lost, jiffies>>
  BY DEF pic_do_eoi
<1>5. Shape'
  BY <1>4, LineZero DEF IrqInv, Shape, Idle
<1>6. Counted'
  BY <1>4, LineZero DEF IrqInv, Shape, Counted, Underway, Idle, pic_do_eoi
<1> QED BY <1>3, <1>4, <1>5, <1>6 DEF IrqInv, Served, InFirst, Guarded, Midway, Follows, LetThrough, NoneUnhandled, Idle

\* A call that is refused, or begins.
LEMMA RegisterKeeps ==
    ASSUME IrqInv, NEW n \in Lines, NEW h \in Handlers, register_irq_handler(n, h)
    PROVE  IrqInv'
<1>1. UNCHANGED <<irr, isr, imr, pic_mask, table, cpu, raised, lost, jiffies>>
  BY DEF register_irq_handler
<1>2. CASE UNCHANGED thread
  BY <1>1, <1>2 DEF IrqInv, Shape, Served, InFirst, Guarded, Midway, Follows, LetThrough, Counted, Underway, NoneUnhandled
<1>3. CASE ~Taken(n) /\ thread' = [at |-> "enter", line |-> n, handler |-> h]
  <2>1. Shape'
    BY <1>1, <1>3 DEF IrqInv, Shape, Calls
  <2>2. Midway'
    BY <1>1, <1>3, IrqAssumption DEF Midway, Taken
  <2>3. Follows'
    BY <1>1, <1>3 DEF IrqInv, Follows, LetThrough, register_irq_handler, Free
  <2> QED BY <1>1, <2>1, <2>2, <2>3 DEF IrqInv, Served, InFirst, Guarded, Counted, Underway, NoneUnhandled
<1> QED BY <1>2, <1>3 DEF register_irq_handler, Registering

LEMMA UnregisterKeeps ==
    ASSUME IrqInv, NEW n \in Lines, unregister_irq_handler(n)
    PROVE  IrqInv'
<1>1. /\ UNCHANGED <<irr, isr, imr, pic_mask, table, cpu, raised, lost, jiffies>>
      /\ thread' = [at |-> "mask", line |-> n, handler |-> NOBODY]
  BY DEF unregister_irq_handler, Unregistering
<1>2. Shape'
  BY <1>1 DEF IrqInv, Shape, Calls
<1>3. Midway'
  BY <1>1 DEF Midway
<1>4. Follows'
  BY <1>1 DEF IrqInv, Follows, LetThrough, unregister_irq_handler, Free
<1> QED BY <1>1, <1>2, <1>3, <1>4 DEF IrqInv, Served, InFirst, Guarded, Counted, Underway, NoneUnhandled

\* The next step of a call, by the step it is at.
LEMMA CallGoesOn ==
    ASSUME IrqInv, Go, thread.at # "free"
    PROVE  /\ thread.at = "enter" => thread' = [thread EXCEPT !.at = "unmask"]
           /\ thread.at = "unmask" => thread' = [thread EXCEPT !.at = "load"]
           /\ thread.at = "mask" => thread' = [thread EXCEPT !.at = "load"]
           /\ thread.at = "load" /\ thread.handler # NOBODY => thread' = Free
           /\ thread.at = "load" /\ thread.handler = NOBODY =>
                  thread' = [thread EXCEPT !.at = "forget"]
           /\ thread.at = "forget" => thread' = Free
  BY Steps DEF IrqInv, Midway, Go, OrderOf

\* The thread is at the next step, and all of its fields are in range.
LEMMA FreeShape == Free \in [at : Calls, line : Lines, handler : Handlers \cup {NOBODY}]
  BY LineZero DEF Free, Calls

\* The handler is entered into a place that is empty, or taken out of one
\* whose line is masked in memory and in the controller.
LEMMA EnterKeeps == ASSUME IrqInv, Enter PROVE IrqInv'
<1> DEFINE l == thread.line
<1>1. /\ cpu.at = "idle" /\ thread.at \in {"enter", "forget"}
      /\ table' = [table EXCEPT ![l] = thread.handler] /\ Go
      /\ UNCHANGED <<irr, isr, imr, pic_mask, cpu, raised, lost, jiffies>>
  BY DEF Enter
<1>2. Shape /\ Guarded /\ Midway /\ Follows /\ l \in Lines
  BY DEF IrqInv, Shape
<1>3. table'[l] = thread.handler /\ \A n \in Lines \ {l} : table'[n] = table[n]
  BY <1>1, <1>2 DEF Shape
<1>4. CASE thread.at = "enter"
  <2>1. thread' = [thread EXCEPT !.at = "unmask"] /\ thread.handler # NOBODY
    BY <1>1, <1>2, <1>4, CallGoesOn DEF Midway
  <2>2. Shape'
    BY <1>1, <1>2, <2>1 DEF Shape, Calls
  <2>3. Guarded'
    BY <1>1, <1>2, <1>3, <2>1, LineZero DEF Guarded
  <2>4. thread'.at = "unmask" /\ thread'.line = l /\ thread'.handler = thread.handler
    BY <1>2, <2>1 DEF Shape
  <2>5. Midway'
    BY <1>3, <2>1, <2>4 DEF Midway
  <2>6. Follows'
    BY <1>1, <1>2, <1>3, <1>4, <2>4 DEF Follows, LetThrough
  <2> QED BY <1>1, <2>2, <2>3, <2>5, <2>6
          DEF IrqInv, Served, InFirst, Counted, Underway, NoneUnhandled
<1>5. CASE thread.at = "forget"
  <2>1. thread' = Free /\ l \in pic_mask /\ (l < HALF => l \in imr)
    BY <1>1, <1>2, <1>5, CallGoesOn DEF Midway
  <2>2. Shape'
    BY <1>1, <1>2, <2>1, FreeShape DEF Shape
  <2>3. Guarded'
    <3>1. \A n \in 0 .. HALF - 1 : n \notin imr => n # l
      BY <2>1, IrqAssumption
    <3>2. \A n \in 0 .. HALF - 1 : n \notin imr' => table'[n] # NOBODY
      BY <1>1, <1>2, <1>3, <3>1, LineZero DEF Guarded
    <3>3. \A n \in Lines : n \notin pic_mask' => table'[n] # NOBODY
      BY <1>1, <1>2, <1>3, <2>1 DEF Guarded
    <3> QED BY <1>1, <3>2, <3>3 DEF Guarded
  <2>4. Midway'
    BY <2>1 DEF Midway, Free
  <2>5. Follows'
    <3>1. thread.handler = NOBODY
      BY <1>2, <1>5 DEF Midway
    <3> QED BY <1>1, <1>2, <1>3, <1>5, <3>1 DEF Follows, LetThrough
  <2> QED BY <1>1, <2>2, <2>3, <2>4, <2>5
          DEF IrqInv, Served, InFirst, Counted, Underway, NoneUnhandled
<1> QED BY <1>1, <1>4, <1>5

\* The mask in memory: a line is let through after its handler was entered.
LEMMA UnmaskKeeps == ASSUME IrqInv, pic_unmask_interrupt PROVE IrqInv'
<1> DEFINE l == thread.line
<1>1. /\ thread.at = "unmask" /\ pic_mask' = pic_mask \ {l} /\ Go
      /\ UNCHANGED <<irr, isr, imr, table, cpu, raised, lost, jiffies>>
  BY DEF pic_unmask_interrupt, Unmasked
<1>2. Shape /\ Guarded /\ Follows /\ l \in Lines
  BY DEF IrqInv, Shape
<1>3. /\ thread' = [thread EXCEPT !.at = "load"] /\ thread.handler # NOBODY
      /\ table[l] = thread.handler
  BY <1>1, CallGoesOn DEF IrqInv, Midway
<1>4. thread'.at = "load" /\ thread'.handler = thread.handler /\ thread'.line = l
  BY <1>2, <1>3 DEF Shape
<1>5. Shape'
  BY <1>1, <1>2, <1>3 DEF Shape, Calls
<1>6. Guarded'
  BY <1>1, <1>2, <1>3 DEF Guarded
<1>7. Midway'
  BY <1>1, <1>3, <1>4 DEF Midway
<1>8. Follows'
  BY <1>1, <1>2, <1>4 DEF Follows, LetThrough
<1> QED BY <1>1, <1>5, <1>6, <1>7, <1>8 DEF IrqInv, Served, InFirst, Counted, Underway, NoneUnhandled

LEMMA MaskKeeps == ASSUME IrqInv, pic_mask_interrupt PROVE IrqInv'
<1> DEFINE l == thread.line
<1>1. /\ thread.at = "mask" /\ pic_mask' = pic_mask \cup {l} /\ Go
      /\ UNCHANGED <<irr, isr, imr, table, cpu, raised, lost, jiffies>>
  BY DEF pic_mask_interrupt
<1>2. Shape /\ Guarded /\ Follows /\ l \in Lines
  BY DEF IrqInv, Shape
<1>3. thread' = [thread EXCEPT !.at = "load"]
  BY <1>1, CallGoesOn
<1>4. thread'.at = "load" /\ thread'.line = l /\ thread'.handler = thread.handler
  BY <1>2, <1>3 DEF Shape
<1>5. Shape'
  BY <1>1, <1>2, <1>3 DEF Shape, Calls
<1>6. Guarded'
  BY <1>1, <1>2 DEF Guarded
<1>7. Midway'
  BY <1>1, <1>4 DEF IrqInv, Midway
<1>8. Follows'
  BY <1>1, <1>2, <1>4 DEF Follows, LetThrough
<1> QED BY <1>1, <1>5, <1>6, <1>7, <1>8 DEF IrqInv, Served, InFirst, Counted, Underway, NoneUnhandled

\* The mask of the controller becomes that in memory.
LEMMA LoadKeeps == ASSUME IrqInv, LoadMask PROVE IrqInv'
<1> DEFINE l == thread.line
<1>1. /\ thread.at = "load" /\ Go
      /\ imr' = IF l < HALF THEN pic_mask \cap 0 .. HALF - 1 ELSE imr
      /\ UNCHANGED <<irr, isr, pic_mask, table, cpu, raised, lost, jiffies>>
  BY DEF LoadMask
<1>2. Shape /\ Guarded /\ Follows /\ l \in Lines
  BY DEF IrqInv, Shape
<1>3. /\ thread.handler # NOBODY => thread' = Free
      /\ thread.handler = NOBODY => thread' = [thread EXCEPT !.at = "forget"] /\ l \in pic_mask
  BY <1>1, CallGoesOn DEF IrqInv, Midway
<1>4. imr' \subseteq 0 .. HALF - 1
  BY <1>1, <1>2 DEF Shape
<1>5. Shape'
  BY <1>1, <1>2, <1>3, <1>4, FreeShape DEF Shape, Calls
<1>6. Guarded'
  BY <1>1, <1>2, LineZero DEF Guarded
<1>7. Midway'
  <2>1. CASE thread.handler # NOBODY
    BY <1>3, <2>1 DEF Midway, Free
  <2>2. CASE thread.handler = NOBODY
    <3>1. thread'.at = "forget" /\ thread'.line = l /\ thread'.handler = NOBODY
      BY <1>2, <1>3, <2>2 DEF Shape
    <3>2. l < HALF => l \in imr'
      BY <1>1, <1>2, <1>3, <2>2, IrqAssumption DEF Lines
    <3> QED BY <1>1, <1>3, <2>2, <3>1, <3>2 DEF Midway
  <2> QED BY <2>1, <2>2
<1>8. Follows'
  <2>1. \A n \in Lines \ {l} : LetThrough(n)'
    BY <1>1, <1>2 DEF Follows, LetThrough
  <2>2. CASE thread.handler # NOBODY
    <3>1. l \notin pic_mask
      BY <1>1, <2>2 DEF IrqInv, Midway
    <3>2. l \notin imr'
      BY <1>1, <1>2, <3>1, IrqAssumption DEF Shape, Lines
    <3> QED BY <1>1, <2>1, <3>1, <3>2 DEF Follows, LetThrough
  <2>3. CASE thread.handler = NOBODY
    <3>1. thread'.at = "forget" /\ thread'.line = l
      BY <1>2, <1>3, <2>3 DEF Shape
    <3> QED BY <2>1, <3>1 DEF Follows
  <2> QED BY <2>2, <2>3
<1> QED BY <1>1, <1>5, <1>6, <1>7, <1>8 DEF IrqInv, Served, InFirst, Counted, Underway, NoneUnhandled

\* irq.c, pic.c: masks and table agree in every state, whatever interrupts
\* come between the steps of register_irq_handler and unregister_irq_handler,
\* for any number of lines, handlers and calls.
THEOREM IrqInvariance == IrqSpec => []IrqInv
<1>1. IrqInv /\ [IrqNext]_irq_vars => IrqInv'
  <2> SUFFICES ASSUME IrqInv, [IrqNext]_irq_vars PROVE IrqInv'
    OBVIOUS
  <2>1. CASE Handle
    BY <2>1, HandlerKeeps, EoiKeeps, AcceptKeeps DEF Handle
  <2>2. CASE Run
    BY <2>2, EnterKeeps, UnmaskKeeps, MaskKeeps, LoadKeeps DEF Run
  <2>3. ASSUME NEW n \in Lines, Raise(n) \/ unregister_irq_handler(n) PROVE IrqInv'
    BY <2>3, RaiseKeeps, UnregisterKeeps
  <2>4. ASSUME NEW n \in Lines, NEW h \in Handlers, register_irq_handler(n, h) PROVE IrqInv'
    BY <2>4, RegisterKeeps
  <2>5. CASE UNCHANGED irq_vars
    BY <2>5 DEF irq_vars, IrqInv, Shape, Served, InFirst, Guarded, Midway, Follows,
                LetThrough, Counted, Underway, NoneUnhandled
  <2> QED BY <2>1, <2>2, <2>3, <2>4, <2>5 DEF IrqNext
<1> QED BY <1>1, InitIrqInv, PTL DEF IrqSpec

\* irq.c: main_irq_handler never finds the table empty, as the handler is
\* entered before its line is let through and taken out after it is shut off.
THEOREM AllHandled == IrqSpec => []NoneUnhandled
<1>1. IrqInv => NoneUnhandled
  BY DEF IrqInv
<1> QED BY <1>1, IrqInvariance, PTL

\* The state of the controller and the handlers has its shape; there are
\* never more ticks than the timer raised.
THEOREM IrqTypeCorrect == IrqSpec => []IrqTypeOK
<1>1. IrqInv => IrqTypeOK
  <2> SUFFICES ASSUME IrqInv PROVE IrqTypeOK
    OBVIOUS
  <2>1. isr = {} \/ isr = {cpu.line}
    BY DEF IrqInv, Served
  <2>2. Cardinality(isr) <= 1
    <3>1. Cardinality({}) = 0 /\ Cardinality({cpu.line}) = 1
      BY FS_EmptySet, FS_Singleton, Zenon
    <3> QED BY <2>1, <3>1
  <2>3. isr \subseteq 0 .. HALF - 1
    BY IrqAssumption DEF IrqInv, Served, InFirst, Shape, Lines
  <2>4. jiffies \in 0 .. MaxRaises
    BY LineZero, IrqAssumption DEF IrqInv, Shape, Counted, Underway
  <2> QED BY <2>2, <2>3, <2>4 DEF IrqTypeOK, IrqInv, Shape, Served
<1> QED BY <1>1, IrqInvariance, PTL

\* irq.c, pic.c: whatever interrupts come between the steps of a call, the
\* masks let through exactly the lines that have a handler, but for the line of
\* the call itself.
THEOREM MasksAndTableAgree == IrqSpec => []MasksFollowTable
<1>1. IrqInv => MasksFollowTable
  <2> SUFFICES ASSUME IrqInv, NEW n \in Lines, thread = Free \/ n # thread.line
               PROVE  /\ n \in pic_mask <=> table[n] = NOBODY
                      /\ n < HALF => (n \in imr <=> table[n] = NOBODY)
    BY DEF MasksFollowTable
  <2>1. LetThrough(n)
    BY DEF IrqInv, Follows, Free
  <2>2. n < HALF => n \in 0 .. HALF - 1
    BY IrqAssumption DEF Lines
  <2> QED BY <2>1, <2>2 DEF IrqInv, Guarded, LetThrough
<1> QED BY <1>1, IrqInvariance, PTL
=============================================================================
