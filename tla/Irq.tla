-------------------------------- MODULE Irq ---------------------------------
(***************************************************************************)
(* Hardware interrupts: the two 8259 controllers (arch/i386/pic.c), the    *)
(* table of handlers (irq.c) and the timer's handler (timer.c).            *)
(*                                                                         *)
(* A controller keeps the lines that were raised, accepts the lowest one   *)
(* that is not masked when none is in service, and forgets the one in      *)
(* service at an end-of-interrupt.  The code reaches the first controller  *)
(* only: what it calls the second (port 0x2A) is not there, so a line from *)
(* HALF on is never accepted, and its mask is kept in memory alone.        *)
(*                                                                         *)
(* One kernel thread registers handlers, with interrupts on; a handler     *)
(* runs with interrupts off, while lines go on being raised.  The          *)
(* scheduler's tick is modelled in Sched0 and update_timers in Timecore.   *)
(***************************************************************************)
EXTENDS Integers, FiniteSets

CONSTANTS
    HALF,       \* lines of a controller (8)
    LINES,      \* lines of both (16)
    Handlers,   \* functions that may be registered
    MaxRaises,  \* bound of the times a line is raised
    MaxRegs    \* bound of the calls that change the table

Lines == 0 .. LINES - 1
NOBODY == "nobody"
Idle == [at |-> "idle", line |-> 0]

ASSUME IrqAssumption ==
    /\ HALF \in Nat \ {0} /\ LINES \in Nat /\ HALF <= LINES
    /\ NOBODY \notin Handlers /\ MaxRaises \in Nat

VARIABLES
    irr, isr, imr,  \* the first controller: raised, in service, masked
    pic_mask,       \* pic1_mask and pic2_mask
    table,          \* irq_handler_table
    cpu,            \* where main_irq_handler is
    thread,         \* where the registering thread is, and in which call
    raised, regs,  \* how often a line was raised, how many calls were made
    lost,           \* history: interrupts that found no handler
    jiffies

irq_vars == <<irr, isr, imr, pic_mask, table, cpu, thread, raised, regs, lost, jiffies>>
Free == [at |-> "free", line |-> 0, handler |-> NOBODY]

\* The state has its shape: one line in service at most, on the first
\* controller, and handlers are called for that line alone.
IrqTypeOK ==
    /\ irr \subseteq Lines /\ isr \subseteq 0 .. HALF - 1 /\ Cardinality(isr) <= 1
    /\ imr \subseteq 0 .. HALF - 1 /\ pic_mask \subseteq Lines
    /\ table \in [Lines -> Handlers \cup {NOBODY}]
    /\ cpu.at \in {"idle", "called", "handled"} /\ (cpu.at # "idle" => isr = {cpu.line})
    /\ jiffies \in 0 .. MaxRaises

\* interrupts_init, with pic_clear, and timer_set_divisor.
pic_clear == imr = 0 .. HALF - 1 /\ pic_mask = Lines /\ isr = {}
timer_set_divisor == jiffies = 0
IrqInit ==
    /\ pic_clear /\ timer_set_divisor /\ irr = {}
    /\ table = [n \in Lines |-> NOBODY]
    /\ cpu = Idle /\ thread = Free
    /\ raised = [n \in Lines |-> 0] /\ regs = 0 /\ lost = {}

----------------------------------------------------------------------------
\* A device raises its line; a line that is raised already stays so.
Raise(n) ==
    /\ raised[n] < MaxRaises
    /\ irr' = irr \cup {n} /\ raised' = [raised EXCEPT ![n] = @ + 1]
    /\ UNCHANGED <<isr, imr, pic_mask, table, cpu, thread, regs, lost, jiffies>>

\* The processor takes the interrupt: interrupts are off until the handler
\* returns.
Accept(n) ==
    /\ cpu.at = "idle" /\ isr = {}
    /\ n \in irr \ imr /\ n < HALF /\ \A k \in irr \ imr : n <= k
    /\ irr' = irr \ {n} /\ isr' = {n} /\ cpu' = [at |-> "called", line |-> n]
    /\ UNCHANGED <<imr, pic_mask, table, thread, raised, regs, lost, jiffies>>

timer_interrupt_handler(n) == jiffies' = IF n = 0 THEN jiffies + 1 ELSE jiffies

main_irq_handler ==
    /\ cpu.at = "called"
    /\ IF table[cpu.line] # NOBODY
       THEN timer_interrupt_handler(cpu.line) /\ UNCHANGED lost
       ELSE lost' = lost \cup {cpu.line} /\ UNCHANGED jiffies
    /\ cpu' = [cpu EXCEPT !.at = "handled"]
    /\ UNCHANGED <<irr, isr, imr, pic_mask, table, thread, raised, regs>>

\* An end-of-interrupt names no line: the controller ends the lowest one.
Ended(s) == s \ {CHOOSE n \in s : \A k \in s : n <= k}
\* Mutant: the end of line 0 is not told to the controller.
EndOfSecond(s, n) == IF n >= 1 THEN Ended(s) ELSE s
EndOf(s, n) == IF n > LINES - 1 THEN s ELSE Ended(s)

pic_do_eoi ==
    /\ cpu.at = "handled"
    /\ isr' = EndOf(isr, cpu.line) /\ cpu' = Idle
    /\ UNCHANGED <<irr, imr, pic_mask, table, thread, raised, regs, lost, jiffies>>

----------------------------------------------------------------------------
\* The thread runs while no handler does.  A call of register_irq_handler or
\* of unregister_irq_handler is three steps: the table, the mask in memory,
\* and the mask in the controller.
Taken(n) == table[n] # NOBODY

\* Mutant: the line is let through before the handler is entered.
UnmaskFirst == <<"unmask", "load", "enter">>

\* The order of the steps of a call.
Registering == <<"enter", "unmask", "load">>
Unregistering == <<"mask", "load", "forget">>

StepAfter(order, at) == LET k == CHOOSE j \in 1 .. 3 : order[j] = at IN
    IF k = 3 THEN "free" ELSE order[k + 1]
OrderOf == IF thread.handler = NOBODY THEN Unregistering ELSE Registering
Go == IF StepAfter(OrderOf, thread.at) = "free" THEN thread' = Free
      ELSE thread' = [thread EXCEPT !.at = StepAfter(OrderOf, @)]

register_irq_handler(n, h) ==
    /\ cpu.at = "idle" /\ thread = Free /\ regs < MaxRegs
    /\ regs' = regs + 1
    /\ IF Taken(n) THEN UNCHANGED thread
       ELSE thread' = [at |-> Registering[1], line |-> n, handler |-> h]
    /\ UNCHANGED <<irr, isr, imr, pic_mask, table, cpu, raised, lost, jiffies>>

unregister_irq_handler(n) ==
    /\ cpu.at = "idle" /\ thread = Free /\ regs < MaxRegs
    /\ regs' = regs + 1
    /\ thread' = [at |-> Unregistering[1], line |-> n, handler |-> NOBODY]
    /\ UNCHANGED <<irr, isr, imr, pic_mask, table, cpu, raised, lost, jiffies>>

Enter ==
    /\ cpu.at = "idle" /\ thread.at \in {"enter", "forget"}
    /\ table' = [table EXCEPT ![thread.line] = thread.handler] /\ Go
    /\ UNCHANGED <<irr, isr, imr, pic_mask, cpu, raised, regs, lost, jiffies>>

\* Mutant: the other lines of the mask are not kept.
UnmaskedAlone == Lines \ {thread.line}

Unmasked == pic_mask \ {thread.line}

pic_unmask_interrupt ==
    /\ cpu.at = "idle" /\ thread.at = "unmask"
    /\ pic_mask' = Unmasked /\ Go
    /\ UNCHANGED <<irr, isr, imr, table, cpu, raised, regs, lost, jiffies>>

pic_mask_interrupt ==
    /\ cpu.at = "idle" /\ thread.at = "mask"
    /\ pic_mask' = pic_mask \cup {thread.line} /\ Go
    /\ UNCHANGED <<irr, isr, imr, table, cpu, raised, regs, lost, jiffies>>

\* outb of the mask of the controller that has the line.
LoadMask ==
    /\ cpu.at = "idle" /\ thread.at = "load"
    /\ imr' = IF thread.line < HALF THEN pic_mask \cap 0 .. HALF - 1 ELSE imr
    /\ Go
    /\ UNCHANGED <<irr, isr, pic_mask, table, cpu, raised, regs, lost, jiffies>>

Handle == main_irq_handler \/ pic_do_eoi \/ \E n \in Lines : Accept(n)
Run == Enter \/ pic_unmask_interrupt \/ pic_mask_interrupt \/ LoadMask
IrqNext ==
    \/ Handle \/ Run
    \/ \E n \in Lines : Raise(n) \/ unregister_irq_handler(n)
    \/ \E n \in Lines, h \in Handlers : register_irq_handler(n, h)
IrqFair == WF_irq_vars(Handle) /\ WF_irq_vars(Run)
IrqSpec == IrqInit /\ [][IrqNext]_irq_vars /\ IrqFair

----------------------------------------------------------------------------
\* No accepted interrupt finds the table empty, however an interrupt falls
\* between the steps of register_irq_handler and unregister_irq_handler: the
\* handler is entered before the line is let through and taken out after it is
\* shut off.
NoneUnhandled == lost = {}

(***************************************************************************)
(* The masks in memory and in the controller let through exactly the lines *)
(* that have a handler, but for the line of the call that is half way:     *)
(* whatever interrupts come between its steps, register_irq_handler and    *)
(* unregister_irq_handler shut or open no other line, and a refused call   *)
(* none at all.                                                            *)
(***************************************************************************)
MasksFollowTable ==
    \A n \in Lines : thread = Free \/ n # thread.line =>
        /\ n \in pic_mask <=> table[n] = NOBODY
        /\ n < HALF => (n \in imr <=> table[n] = NOBODY)

\* A line of the first controller that is raised when its handler is registered
\* is accepted in the end, unless the handler goes: every interrupt is ended in
\* the controller, so that the next one comes through.
RequestServed ==
    \A n \in 0 .. HALF - 1 :
        (n \in irr /\ table[n] # NOBODY) ~> (n \notin irr \/ table[n] = NOBODY)
=============================================================================
