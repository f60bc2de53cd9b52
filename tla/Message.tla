------------------------------- MODULE Message -------------------------------
(***************************************************************************)
(* Message passing between processes (kernel/fs/message.c).                *)
(*                                                                         *)
(* msg_send and msg_retrieve are system calls, with interrupts off, so     *)
(* each runs without being disturbed up to its scheduler_yield and from    *)
(* there to the end.  A message sent with MF_BLOCK is read from the buffer *)
(* of its sender, which sleeps meanwhile; any other is copied to a page    *)
(* that is mapped at the end of the recipient's mbox area.                 *)
(***************************************************************************)
EXTENDS Klist0

CONSTANTS
    Tasks,
    Msgs,        \* the objects of msg_pool
    Slots,       \* bound: the page addresses 0..Slots-1 of an mbox area
    None

VARIABLES
    used,        \* the messages allocated from msg_pool
    msg,         \* struct message: m_sender, MF_BLOCK, m_buf, m_mbox
    mbox,        \* the list of messages of each thread
    sleep,       \* what each thread sleeps on: sleepers, a message's m_tq, None
    want,        \* the sender a thread in msg_retrieve waits for
    area,        \* m_mma[4] of each thread: missing, made, or NULL
    m_end,       \* its end, in pages
    page,        \* its page table: whose bytes are at an address
    got          \* history: the last message retrieved, and the bytes copied

msg_vars == <<used, msg, mbox, sleep, want, area, m_end, page, got>>

Slot == 0..(Slots - 1)

ASSUME MessageAssumption ==
    /\ None \notin Tasks \cup Msgs /\ "sleepers" \notin Msgs \cup {None}
    /\ Slots \in Nat \ {0}

\* The state has its shape; a mailbox holds messages that are in use, and
\* the area for copies does not shrink below its start.
MsgTypeOK ==
    /\ used \subseteq Msgs
    /\ msg \in [Msgs -> [sender : Tasks \cup {None}, block : BOOLEAN, buf : Slot]]
    /\ mbox \in [Tasks -> Seq(used)]
    /\ sleep \in [Tasks -> Msgs \cup {"sleepers", None}]
    /\ want \in [Tasks -> Tasks \cup {None}]
    /\ area \in [Tasks -> {"missing", "made", "null"}]
    /\ m_end \in [Tasks -> 0..Slots]
    /\ page \in [Tasks -> [Slot -> Msgs \cup {None}]]
    /\ got \in (Msgs \cup {None}) \X (Msgs \cup {None})

\* messaging_init; the threads have no mbox area yet.
MsgInit ==
    /\ used = {}
    /\ msg = [m \in Msgs |-> [sender |-> None, block |-> FALSE, buf |-> 0]]
    /\ mbox = [t \in Tasks |-> <<>>]
    /\ sleep = [t \in Tasks |-> None]
    /\ want = [t \in Tasks |-> None]
    /\ area = [t \in Tasks |-> "missing"]
    /\ m_end = [t \in Tasks |-> 0]
    /\ page = [t \in Tasks |-> [a \in Slot |-> None]]
    /\ got = <<None, None>>

\* The thread runs user code.
InUser(t) == sleep[t] = None /\ want[t] = None

-----------------------------------------------------------------------------
(* msg_send *)

\* Mutant: a recipient on the sleepers queue is not looked for.
WakeNobody(r) == sleep

\* The recipient is taken off the sleepers queue if it is there.
Wake(r) == [sleep EXCEPT ![r] = IF @ = "sleepers" THEN None ELSE @]

\* klist0_prepend puts the message at the end of the recipient's list.
Post(t, r, m, block, buf) ==
    /\ m \notin used
    /\ used' = used \cup {m}
    /\ msg' = [msg EXCEPT ![m] = [sender |-> t, block |-> block, buf |-> buf]]
    /\ mbox' = [mbox EXCEPT ![r] = Append(@, m)]

\* With MF_BLOCK the sender goes to sleep on the message itself.
SendBlock(t, r, m) ==
    /\ InUser(t)
    /\ Post(t, r, m, TRUE, 0)
    /\ sleep' = [Wake(r) EXCEPT ![t] = m]
    /\ UNCHANGED <<want, area, m_end, page, got>>

\* Without: the page is mapped at m_end, whatever is mapped there.
SendCopy(t, r, m) ==
    /\ InUser(t)
    /\ area[r] # "null" /\ m_end[r] < Slots
    /\ Post(t, r, m, FALSE, m_end[r])
    /\ area' = [area EXCEPT ![r] = "made"]
    /\ page' = [page EXCEPT ![r][m_end[r]] = m]
    /\ m_end' = [m_end EXCEPT ![r] = @ + 1]
    /\ sleep' = Wake(r)
    /\ UNCHANGED <<want, got>>

\* mem_area_alloc_new fails: m_nmma is counted up already, and the message
\* is not freed.  (The next such send to r goes through a NULL pointer.)
SendNoArea(t, r, m) ==
    /\ InUser(t)
    /\ area[r] = "missing" /\ m \notin used
    /\ area' = [area EXCEPT ![r] = "null"]
    /\ used' = used \cup {m}
    /\ UNCHANGED <<msg, mbox, sleep, want, m_end, page, got>>

-----------------------------------------------------------------------------
(* msg_retrieve *)

From(t, s) == {i \in DOMAIN mbox[t] : msg[mbox[t][i]].sender = s}

\* The thread calls msg_retrieve, or has been woken in it.
Asks(t, s) == sleep[t] = None /\ want[t] \in {None, s}

\* No message from s: with MF_BLOCK sleep, again if need be; else -EAGAIN.
Wait(t, s) ==
    /\ Asks(t, s)
    /\ From(t, s) = {}
    /\ sleep' = [sleep EXCEPT ![t] = "sleepers"]
    /\ want' = [want EXCEPT ![t] = s]
    /\ UNCHANGED <<used, msg, mbox, area, m_end, page, got>>

\* scheduler_enqueue(&msg->m_tq)
Release(m) == [u \in Tasks |-> IF sleep[u] = m THEN None ELSE sleep[u]]

\* mem_area_remove_page
Shrink(t, m) == IF msg[m].block THEN m_end[t] ELSE m_end[t] - 1

(***************************************************************************)
(* The first message from s.  One that was copied is read through the page *)
(* table, and its page is unmapped; there the copy faults when no page is  *)
(* mapped any more.                                                        *)
(***************************************************************************)
Take(t, s) ==
    /\ Asks(t, s)
    /\ From(t, s) # {}
    /\ LET i == CHOOSE j \in From(t, s) : \A k \in From(t, s) : j <= k
           m == mbox[t][i]
           bytes == IF msg[m].block THEN m ELSE page[t][msg[m].buf]
       IN  /\ bytes # None
           /\ got' = <<m, bytes>>
           /\ mbox' = [mbox EXCEPT ![t] = Without(@, i)]
           /\ used' = used \ {m}
           /\ sleep' = Release(m)
           /\ m_end' = [m_end EXCEPT ![t] = Shrink(t, m)]
           /\ page' = IF msg[m].block THEN page
                      ELSE [page EXCEPT ![t][msg[m].buf] = None]
           /\ msg' = [msg EXCEPT ![m] = [sender |-> None, block |-> FALSE, buf |-> 0]]
    /\ want' = [want EXCEPT ![t] = None]
    /\ UNCHANGED area

MsgNext ==
    \E t \in Tasks :
        \/ \E r \in Tasks, m \in Msgs :
              SendBlock(t, r, m) \/ SendCopy(t, r, m) \/ SendNoArea(t, r, m)
        \/ \E s \in Tasks : Wait(t, s) \/ Take(t, s)

MsgSpec == MsgInit /\ [][MsgNext]_msg_vars

-----------------------------------------------------------------------------
(* Properties. *)

(***************************************************************************)
(* No wake-up is lost: a thread that sleeps in msg_retrieve has no message *)
(* from the sender it waits for, in whatever order others sent.            *)
(***************************************************************************)
NoMailMissed ==
    \A t \in Tasks : sleep[t] = "sleepers" => want[t] # None /\ From(t, want[t]) = {}

(***************************************************************************)
(* A thread asleep in msg_send sleeps on its own message, which is not     *)
(* freed and is still in the mbox of exactly one thread, who can wake it.  *)
(***************************************************************************)
SenderCanBeWoken ==
    \A t \in Tasks : sleep[t] \in Msgs =>
        /\ sleep[t] \in used /\ msg[sleep[t]].sender = t
        /\ \E r \in Tasks : sleep[t] \in Range(mbox[r])
        /\ \A r, q \in Tasks :
              sleep[t] \in Range(mbox[r]) \cap Range(mbox[q]) => r = q

(***************************************************************************)
(* A thread woken in msg_retrieve finds its mbox not empty: msg is set by  *)
(* the loop before msg->m_sender is read.                                  *)
(***************************************************************************)
WokenWithMail ==
    \A t \in Tasks : sleep[t] = None /\ want[t] # None => mbox[t] # <<>>

(***************************************************************************)
(* "Retrieve a message from a process": what is copied to the buffer of    *)
(* the recipient is the message that is removed from its mbox.             *)
(***************************************************************************)
BytesOfMessage == got[1] = got[2]

\* Nobody waits in vain (msg_send, msg_retrieve): a receiver does not sleep over
\* a message it wants and wakes only with mail, and a sender that sleeps is in
\* the mailbox of the one who will wake it.
MailSound == MsgTypeOK /\ NoMailMissed /\ SenderCanBeWoken /\ WokenWithMail
=============================================================================
