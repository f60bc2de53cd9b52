------------------------------ MODULE Serial ------------------------------
(***************************************************************************)
(* Byte queues (kernel/lib/kqueue.c): a list of pages, newest first, each  *)
(* with the offset of its first byte and its bytes.  The counter of struct *)
(* kqueue_t is changed together with that of a page everywhere, so it is   *)
(* the sum of them.                                                        *)
(***************************************************************************)
EXTENDS Integers, Sequences, FiniteSetsExt, Functions

CONSTANT MAX_COUNT      \* bytes of a page

ASSUME KqueueAssumption == MAX_COUNT \in Nat \ {0}

Page(bytes) == [base |-> 0, bytes |-> bytes]

kqueue_create == <<>>

\* The bytes, oldest first.
Content(q) ==
    LET newest[k \in 0..Len(q)] == IF k = 0 THEN <<>> ELSE q[k].bytes \o newest[k - 1]
    IN  newest[Len(q)]

kqueue_size(q) == Len(Content(q))

Room(q) == IF q = <<>> THEN 0 ELSE MAX_COUNT - Len(q[1].bytes)

\* The bytes go after the last one, wherever the first one is in the page.
IntoFirst(q, data) == [q EXCEPT ![1].bytes = @ \o data]

(***************************************************************************)
(* The loop of kqueue_push for n bytes that did not fit: data is not       *)
(* advanced, so every page gets its bytes from the start of it.  The loop  *)
(* runs once for n = 0.                                                    *)
(***************************************************************************)
NewPages(q, data, n) ==
    LET pages == IF n = 0 THEN 1 ELSE (n + MAX_COUNT - 1) \div MAX_COUNT
        size(i) == IF i < pages THEN MAX_COUNT ELSE n - (pages - 1) * MAX_COUNT
    IN  [i \in 1..pages |-> Page(SubSeq(data, 1, size(pages + 1 - i)))] \o q

\* Whether kqueue_push calls get_page.
NeedsPage(q, data) == Room(q) = 0 \/ Len(data) > Room(q)

\* kqueue_push, when get_page succeeds.
kqueue_push(q, data) ==
    LET t == Room(q)
    IN  IF ~NeedsPage(q, data) THEN IntoFirst(q, data)
        ELSE IF t = 0 THEN NewPages(q, data, Len(data))
        ELSE NewPages(IntoFirst(q, SubSeq(data, 1, t)), data, Len(data) - t)

(***************************************************************************)
(* kqueue_pull_tail: the pages that len covers are taken whole; of the     *)
(* next one the rest of len is taken, and that rest alone is returned.     *)
(***************************************************************************)
kqueue_pull_tail(q, len) ==
    LET Oldest(k) == SubSeq(q, Len(q) + 1 - k, Len(q))
        whole == Max({k \in 0..Len(q) : kqueue_size(Oldest(k)) <= len})
        taken == Content(Oldest(whole))
        rest == len - Len(taken)
        left == SubSeq(q, 1, Len(q) - whole)
        last == left[Len(left)]
    IN  IF left = <<>> THEN [q |-> left, data |-> taken, ret |-> Len(taken)]
        ELSE [q    |-> [left EXCEPT ![Len(left)] =
                           [base  |-> last.base + rest,
                            bytes |-> SubSeq(last.bytes, rest + 1, Len(last.bytes))]],
              data |-> taken \o SubSeq(last.bytes, 1, rest),
              ret  |-> rest]

\* One page, and the bytes end before the page does.
Sound(q) == Len(q) <= 1 /\ \A i \in 1..Len(q) : q[i].base + Len(q[i].bytes) <= MAX_COUNT

----------------------------------------------------------------------------
(***************************************************************************)
(* The serial driver (drivers/serial/8250_serial.c): its two byte queues,  *)
(* the one thread queue that readers and writers sleep on, and the         *)
(* interrupt handler.                                                      *)
(*                                                                         *)
(* The callers are in a system call, with interrupts off, from one         *)
(* scheduler_yield to the next.  Bytes are numbered in the order they come *)
(* from the line or from the writers.                                      *)
(***************************************************************************)

CONSTANTS
    Users,              \* threads that share the device
    Null,               \* the queue of a device that is not open
    MaxSize,            \* bound of the size of a read or write
    MaxBytes,           \* bound of the bytes that come and go
    OPT_SYSRQ_DEBUG     \* whether sysrq.c is part of the kernel

VARIABLES
    read_queue, write_queue,
    tq,                 \* the threads asleep, first to be woken first
    ier_tx,             \* IER_TX of the chip
    op,                 \* what each user is doing
    size, num_read,     \* the call each user is in
    halted,             \* a bug_on has fired
    closed,             \* the queues are freed, and still pointed to
    rx, tx,             \* history: bytes that came, bytes written
    arrived, delivered, \* history: bytes queued for readers; bytes read
    queued, sent,       \* history: bytes queued for the line; bytes on it
    spoiled,            \* history: a queue was not Sound
    crowded,            \* history: two threads slept on tq together
    sysrq_acq,          \* the SYSRQs that wait for their key
    line, unqueued      \* history: kinds of the bytes that came; those not queued

call_vars == <<op, size, num_read>>
sysrq_vars == <<sysrq_acq, line, unqueued>>
serial_vars == <<read_queue, write_queue, tq, ier_tx, call_vars, halted, closed,
                 rx, tx, arrived, delivered, queued, sent, spoiled, crowded, sysrq_vars>>

ASSUME SerialAssumption ==
    /\ {MaxSize, MaxBytes} \subseteq Nat /\ OPT_SYSRQ_DEBUG \in BOOLEAN
    /\ Null \notin Seq([base : Nat, bytes : Seq(Nat)])

Asleep(u) == u \in Range(tq)

\* A thread goes on after scheduler_yield when it was taken off tq.
Running(u) == ~halted /\ ~Asleep(u)

\* Mutant: nobody is woken.
WakeNobody == tq

\* scheduler_enqueue
Wake == IF tq = <<>> THEN tq ELSE Tail(tq)

\* serial_8250_load
SerialInit ==
    /\ read_queue = Null /\ write_queue = Null /\ tq = <<>> /\ ier_tx = FALSE
    /\ op = [u \in Users |-> "idle"] /\ size = [u \in Users |-> 0]
    /\ num_read = [u \in Users |-> 0]
    /\ halted = FALSE /\ closed = FALSE /\ rx = 0 /\ tx = 0
    /\ arrived = <<>> /\ delivered = <<>> /\ queued = <<>> /\ sent = <<>>
    /\ spoiled = FALSE /\ crowded = FALSE /\ sysrq_acq = 0 /\ line = <<>> /\ unqueued = {}

\* A call of read or write on the file finds the device open.
Opened == read_queue # Null /\ write_queue # Null /\ ~closed

(***************************************************************************)
(* serial_8250_open: -EBUSY, which changes nothing, unless the device was  *)
(* never open.  When there is no memory for the second queue, the first is *)
(* freed and stays in read_queue.                                          *)
(***************************************************************************)
serial_8250_open(second) ==
    /\ ~halted /\ read_queue = Null
    /\ read_queue' = kqueue_create
    /\ write_queue' = IF second THEN kqueue_create ELSE Null
    /\ closed' = ~second
    /\ tq' = <<>>
    /\ UNCHANGED <<ier_tx, call_vars, halted, rx, tx, arrived, delivered, queued,
                   sent, spoiled, crowded, sysrq_vars>>

\* "There should be no threads waiting."
serial_8250_close(u) ==
    /\ Opened /\ Running(u) /\ op[u] = "idle"
    /\ closed' = TRUE
    /\ halted' = (tq # <<>>)
    /\ tq' = Wake
    /\ UNCHANGED <<read_queue, write_queue, ier_tx, call_vars, rx, tx, arrived,
                   delivered, queued, sent, spoiled, crowded, sysrq_vars>>

(***************************************************************************)
(* One turn of the loop of serial_8250_read: size bytes are asked for,     *)
(* whatever has been read, and put at num_read of the caller's buffer.     *)
(***************************************************************************)
ReadTurn(u, n, from) ==
    LET p == kqueue_pull_tail(read_queue, n)
    IN  /\ read_queue' = p.q
        /\ num_read' = [num_read EXCEPT ![u] = from + p.ret]
        /\ size' = [size EXCEPT ![u] = n]
        /\ tq' = IF p.ret = 0 THEN Append(tq, u) ELSE tq
        /\ crowded' = (crowded \/ Len(tq') > 1)
        /\ op' = [op EXCEPT ![u] = IF from + p.ret < n THEN "read" ELSE "idle"]
        /\ delivered' = delivered \o SubSeq(p.data, 1, p.ret)
        /\ UNCHANGED <<write_queue, ier_tx, halted, closed, rx, tx, arrived, queued,
                       sent, spoiled, sysrq_vars>>

serial_8250_read(u, n) ==
    /\ Opened /\ Running(u) /\ op[u] = "idle"
    /\ ReadTurn(u, n, 0)

ReadAgain(u) ==
    /\ ~closed /\ Running(u) /\ op[u] = "read"
    /\ ReadTurn(u, size[u], num_read[u])

\* The loop of serial_8250_write: it sleeps until the queue is empty.
WriteWait(u, q) ==
    /\ op' = [op EXCEPT ![u] = IF kqueue_size(q) = 0 THEN "idle" ELSE "write"]
    /\ tq' = IF kqueue_size(q) = 0 THEN tq ELSE Append(tq, u)
    /\ crowded' = (crowded \/ Len(tq') > 1)

serial_8250_write(u, n) ==
    LET data == [i \in 1..n |-> tx + i]
    IN  /\ Opened /\ Running(u) /\ op[u] = "idle" /\ rx + tx + n <= MaxBytes
        /\ tx' = tx + n
        /\ write_queue' = kqueue_push(write_queue, data)
        /\ queued' = queued \o data
        /\ ier_tx' = TRUE
        /\ spoiled' = (spoiled \/ ~Sound(write_queue'))
        /\ WriteWait(u, write_queue')
        /\ UNCHANGED <<read_queue, size, num_read, halted, closed, rx,
                       arrived, delivered, sent, sysrq_vars>>

(***************************************************************************)
(* serial_8250_write when get_page fails: the error is not looked at.      *)
(* After a part of the bytes went into the first page, queue_shrink is a   *)
(* bug().                                                                  *)
(***************************************************************************)
WriteNoMem(u, n) ==
    LET data == [i \in 1..n |-> tx + i]
    IN  /\ Opened /\ Running(u) /\ op[u] = "idle" /\ rx + tx + n <= MaxBytes
        /\ NeedsPage(write_queue, data)
        /\ tx' = tx + n
        /\ halted' = (Room(write_queue) > 0)
        /\ ier_tx' = TRUE
        /\ WriteWait(u, write_queue)
        /\ UNCHANGED <<read_queue, write_queue, size, num_read, closed, rx,
                       arrived, delivered, queued, sent, spoiled, sysrq_vars>>

WriteResumed(u) ==
    /\ ~closed /\ Running(u) /\ op[u] = "write"
    /\ WriteWait(u, write_queue)
    /\ UNCHANGED <<read_queue, write_queue, ier_tx, size, num_read, halted, closed,
                   rx, tx, arrived, delivered, queued, sent, spoiled, sysrq_vars>>

Receive(q, b) == kqueue_push(q, <<b>>)

\* A byte 0 or 0xff, which sysrq_hit is given as 0xff (char is unsigned), or another.
Kinds == {"sysrq", "plain"}

\* sysrq_hit: the SYSRQ and the byte after it, whose action only prints, are taken.
sysrq_hit(kind) == OPT_SYSRQ_DEBUG /\ (kind = "sysrq" \/ sysrq_acq # 0)

Acquired(kind) ==
    IF ~sysrq_hit(kind) THEN sysrq_acq ELSE IF kind = "sysrq" THEN sysrq_acq + 1 ELSE 0

(***************************************************************************)
(* serial_8250_intr with a byte received.  A byte that sysrq_hit takes is  *)
(* neither queued nor wakes anybody; a byte for which there is no page is  *)
(* lost.  What happens after close, when the queue is freed memory, is not *)
(* followed.                                                               *)
(***************************************************************************)
RxIntr(kind, mem) ==
    LET hit == sysrq_hit(kind)
        lose == read_queue = Null \/ (NeedsPage(read_queue, <<rx + 1>>) /\ ~mem)
    IN  /\ ~halted /\ ~closed /\ rx + tx < MaxBytes
        /\ rx' = rx + 1
        /\ line' = Append(line, kind)
        /\ sysrq_acq' = Acquired(kind)
        /\ IF hit \/ lose THEN UNCHANGED <<read_queue, arrived>>
           ELSE /\ read_queue' = Receive(read_queue, rx')
                /\ arrived' = Append(arrived, rx')
        /\ unqueued' = IF ~hit /\ lose THEN unqueued \cup {rx'} ELSE unqueued
        /\ tq' = IF hit \/ read_queue = Null THEN tq ELSE Wake
        /\ spoiled' = (spoiled \/ (read_queue' # Null /\ ~Sound(read_queue')))
        /\ UNCHANGED <<write_queue, ier_tx, call_vars, halted, closed, tx, delivered,
                       queued, sent, crowded>>

Emitted(p) == IF p.ret = 0 THEN <<>> ELSE p.data

\* Mutant: the interrupt is turned off with the last byte.
GoesOnWithMore(p) == kqueue_size(p.q) # 0

\* disable_tx_irq, when there was no byte to send.
GoesOn(p) == p.ret # 0

\* serial_8250_intr with the transmitter empty.
TxIntr ==
    LET p == kqueue_pull_tail(write_queue, 1)
    IN  /\ ~halted /\ ~closed /\ ier_tx /\ write_queue # Null
        /\ write_queue' = p.q
        /\ sent' = sent \o Emitted(p)
        /\ ier_tx' = GoesOn(p)
        /\ tq' = IF p.ret = 0 THEN Wake ELSE tq
        /\ UNCHANGED <<read_queue, call_vars, halted, closed, rx, tx, arrived,
                       delivered, queued, spoiled, crowded, sysrq_vars>>

UserStep(u) == ReadAgain(u) \/ WriteResumed(u)

SerialNext ==
    \/ \E second \in BOOLEAN : serial_8250_open(second)
    \/ \E u \in Users :
          \/ serial_8250_close(u)
          \/ \E n \in 1..MaxSize : serial_8250_read(u, n)
          \/ \E n \in 0..MaxSize : serial_8250_write(u, n) \/ WriteNoMem(u, n)
          \/ UserStep(u)
    \/ \E kind \in Kinds, mem \in BOOLEAN : RxIntr(kind, mem)
    \/ TxIntr

\* The scheduler runs a runnable thread, and the chip keeps interrupting.
SerialFairness == WF_serial_vars(TxIntr) /\ \A u \in Users : WF_serial_vars(UserStep(u))

SerialSpec == SerialInit /\ [][SerialNext]_serial_vars /\ SerialFairness

-----------------------------------------------------------------------------
(* Properties. *)

\* A thread is on tq at most once, and only while it is in a read or write.
SerialTypeOK ==
    /\ ier_tx \in BOOLEAN /\ {halted, closed, spoiled} \subseteq BOOLEAN
    /\ tq \in Seq(Users) /\ IsInjective(tq)
    /\ op \in [Users -> {"idle", "read", "write"}]
    /\ \A u \in Users : Asleep(u) => op[u] # "idle"
    /\ {rx, tx} \subseteq Nat /\ rx + tx <= MaxBytes

(***************************************************************************)
(* What serial_8250_read has handed out and what waits in read_queue are   *)
(* the bytes queued, in order, none twice and none missing, as long as the *)
(* backlog has not needed a second page of the queue or run past the end   *)
(* of its page.                                                            *)
(***************************************************************************)
RxIntact == ~spoiled /\ Opened => delivered \o Content(read_queue) = arrived

\* The same for the bytes on their way to the line, with any number of writers.
TxIntact == ~spoiled /\ Opened => sent \o Content(write_queue) = queued

\* Opened, the queues Sound, and no two threads asleep together, all along.
Undisturbed == Opened /\ ~spoiled /\ ~crowded /\ ~halted

(***************************************************************************)
(* A reader does not sleep while bytes wait: the interrupt cannot come     *)
(* between its look at the queue and its sleep.  (Of two threads asleep    *)
(* scheduler_enqueue wakes one, and it may be the wrong one.)              *)
(***************************************************************************)
NoByteMissed ==
    \A u \in Users : Undisturbed /\ Asleep(u) /\ op[u] = "read" => kqueue_size(read_queue) = 0

(***************************************************************************)
(* "Sleep until all those bytes are written": serial_8250_write returns,   *)
(* unless another thread slept on tq at the same time.                     *)
(***************************************************************************)
WriteReturns == \A u \in Users : op[u] = "write" ~> (op[u] = "idle" \/ ~Undisturbed)

(***************************************************************************)
(* Of the bytes that came, sysrq_hit takes each SYSRQ and the byte after   *)
(* it; the others are queued once and in order, or there was no queue or   *)
(* no page for them.                                                       *)
(***************************************************************************)
TakenBySysrq(k) ==
    OPT_SYSRQ_DEBUG /\ (line[k] = "sysrq" \/ (k > 1 /\ line[k - 1] = "sysrq"))

SysrqApart ==
    /\ Range(arrived) \cup unqueued = {k \in 1..rx : ~TakenBySysrq(k)}
    /\ \A i, j \in 1..Len(arrived) : i < j => arrived[i] < arrived[j]

\* Bytes between programs and the line (serial_8250_read, serial_8250_write,
\* serial_8250_intr): in order, none lost on the way, none twice, none overslept,
\* and none but what sysrq_hit takes kept from the readers.
SerialSound == SerialTypeOK /\ RxIntact /\ TxIntact /\ NoByteMissed /\ SysrqApart
============================================================================
