------------------------------ MODULE Profiler ------------------------------
(***************************************************************************)
(* The instrumentation profiler (kernel/debug/profile.c): what do_profile  *)
(* does on each function entry and exit.  It takes no lock and leaves the  *)
(* interrupts as they are: threads and interrupt handlers, instrumented    *)
(* like the rest of the kernel, are flows that may enter it while others   *)
(* are in the middle of it, at every access to the mode, the log and its   *)
(* top.  A handler is a flow that happens to run to its end; functions     *)
(* that kprintf calls find the mode their own flow has set.  Events are    *)
(* numbered; the call site and the time are left out.                      *)
(***************************************************************************)
EXTENDS Integers, Sequences

CONSTANTS
    Flows,              \* threads and interrupt handlers
    Funcs,              \* functions
    PROFBUF_MAX,
    profiler_triggers,  \* sequence of [function, type, flags]
    MaxCalls            \* bound of the calls

VARIABLES
    mach_running,       \* mach_state = MACH_RUNNING
    mode, bootup_fn,
    events, top,        \* the log, of which top events are valid
    dumped,             \* what has been printed
    flow,               \* where each flow is, and its variables
    wild,               \* an event was written behind the log
    calls,              \* history: entries and exits so far
    logging, logged,    \* history: what the triggers ask to be logged
    met                 \* history: two flows were in the profiler together

log_vars == <<events, top, dumped>>
asked_vars == <<logging, logged, met>>
prof_vars == <<mach_running, mode, bootup_fn, log_vars, flow, wild, calls, asked_vars>>

Types == {"PROF_ENTRY", "PROF_EXIT"}

ASSUME ProfilerAssumption ==
    /\ PROFBUF_MAX \in Nat \ {0} /\ MaxCalls \in Nat
    /\ \A i \in 1..Len(profiler_triggers) :
          /\ profiler_triggers[i].function \in Funcs /\ profiler_triggers[i].type \in Types
          /\ profiler_triggers[i].flags \subseteq {"PROF_START", "PROF_STOP", "PROF_DUMP"}

(***************************************************************************)
(* A flow that is not in do_profile.  In it, e is the event, own (history) *)
(* holds it when it is to be logged, t and i are those of dump_events,     *)
(* saved is the __mode of npkprintf, and ret is where flush_events or      *)
(* npkprintf goes back to.                                                 *)
(***************************************************************************)
Outside == [pc |-> "out", fn |-> "none", type |-> "none", e |-> 0, own |-> <<>>,
            t |-> 0, i |-> 0, saved |-> "none", ret |-> "out"]

ProfInit ==
    /\ mach_running = FALSE /\ mode = "BOOTUP" /\ bootup_fn = 0
    /\ events = [i \in 1..PROFBUF_MAX |-> 0] /\ top = 0 /\ dumped = <<>>
    /\ flow = [f \in Flows |-> Outside] /\ wild = FALSE
    /\ calls = 0 /\ logging = FALSE /\ logged = <<>> /\ met = FALSE

\* Indices of the triggers for a function's entry or exit.
Matching(fn, type, flag) ==
    {i \in 1..Len(profiler_triggers) :
        /\ profiler_triggers[i].function = fn /\ profiler_triggers[i].type = type
        /\ flag \in profiler_triggers[i].flags}

\* What start_trigger and stop_trigger return.
Triggered(fn, type, flag) == Matching(fn, type, flag) # {}

\* The first match decides whether they flush the log.
Dumps(fn, type, flag) ==
    LET m == Matching(fn, type, flag)
        first == CHOOSE i \in m : \A j \in m : i <= j
    IN  "PROF_DUMP" \in profiler_triggers[first].flags

\* Bound: what two flows that have met do from there on is not explored, nor what
\* a write behind the log does.
Followed == ~met /\ ~wild

\* A step of a flow from pc that leaves its variables as r, and m in mode.
Move(f, pc, r, m) ==
    /\ Followed /\ flow[f].pc = pc
    /\ flow' = [flow EXCEPT ![f] = r]
    /\ mode' = m
    /\ UNCHANGED <<mach_running, bootup_fn, log_vars, wild, calls, asked_vars>>

At(r, pc) == [r EXCEPT !.pc = pc]

\* A call of flush_events that goes on at ret.
Flush(r, ret) == [At(r, "flush") EXCEPT !.ret = ret]

\* start_trigger or stop_trigger for a match that goes on at ret.
AfterTrigger(r, flag, ret) ==
    IF Dumps(r.fn, r.type, flag) THEN Flush(r, ret) ELSE At(r, ret)

\* A flow that has looked at the mode and will act on it.
Inside(f) == flow[f].pc \notin {"out", "switch", "bootup"}

Alone(f) == \A g \in Flows \ {f} : ~Inside(g)

----------------------------------------------------------------------------
\* __cyg_profile_func_enter, __cyg_profile_func_exit
Call(f, fn, type) ==
    /\ Followed /\ flow[f].pc = "out" /\ calls < MaxCalls
    /\ calls' = calls + 1
    /\ flow' = [flow EXCEPT ![f] = [Outside EXCEPT !.pc = "switch", !.fn = fn, !.type = type,
                                               !.e = calls + 1]]
    /\ UNCHANGED <<mach_running, mode, bootup_fn, log_vars, wild, asked_vars>>

\* SYSRQ-y: flush_events from the interrupt handler of the serial line.
SysrqFlush(f) ==
    /\ Followed /\ flow[f].pc = "out" /\ calls < MaxCalls
    /\ calls' = calls + 1
    /\ flow' = [flow EXCEPT ![f] = Flush(Outside, "out")]
    /\ met' = ~Alone(f)
    /\ UNCHANGED <<mach_running, mode, bootup_fn, log_vars, wild, logging, logged>>

\* Whether the triggers ask for the event of a call that is not turned away.
Due(r) == logging \/ Triggered(r.fn, r.type, "PROF_START")

Own(r) == IF Due(r) THEN <<r.e>> ELSE <<>>

\* The history of a call that acts on the mode it has read.
Passes(f, read) ==
    LET r == flow[f]
    IN  /\ met' = (~Alone(f) \/ mode # read)
        /\ logged' = logged \o Own(r)
        /\ logging' = (Due(r) /\ ~Triggered(r.fn, r.type, "PROF_STOP"))

\* The cases of the switch for a mode but PROFILER_BUSY and PROFILER_BOOTUP.
CaseOf(r) ==
    CASE mode = "STOPPED"   -> IF Triggered(r.fn, r.type, "PROF_START")
                               THEN AfterTrigger(r, "PROF_START", "started") ELSE Outside
      [] mode = "NEEDFLUSH" -> Flush(r, "log")
      [] mode = "RUNNING"   -> At(r, "log")

\* switch (mode)
Switch(f) ==
    LET r == flow[f]
    IN  /\ Followed /\ r.pc = "switch"
        /\ \/ /\ mode = "BUSY"
              /\ flow' = [flow EXCEPT ![f] = Outside]
              /\ UNCHANGED asked_vars
           \/ /\ mode = "BOOTUP"
              /\ flow' = [flow EXCEPT ![f] = At(r, "bootup")]
              /\ UNCHANGED asked_vars
           \/ /\ mode \notin {"BUSY", "BOOTUP"}
              /\ flow' = [flow EXCEPT ![f] = CaseOf([r EXCEPT !.own = Own(r)])]
              /\ Passes(f, mode)
        /\ UNCHANGED <<mach_running, mode, bootup_fn, log_vars, wild, calls>>

\* switch (mode), after goto check_mode.
CheckMode(f) ==
    Move(f, "check_mode", CASE mode = "BUSY"   -> Outside
                            [] mode = "BOOTUP" -> At(flow[f], "bootup")
                            [] OTHER           -> CaseOf(flow[f]), mode)

\* case PROFILER_BOOTUP
Bootup(f) ==
    LET r == flow[f]
    IN  /\ Followed /\ r.pc = "bootup"
        /\ \/ /\ ~mach_running
              /\ bootup_fn' = bootup_fn + (IF r.type = "PROF_ENTRY" THEN 1 ELSE 0)
              /\ flow' = [flow EXCEPT ![f] = Outside]
              /\ UNCHANGED asked_vars
           \/ /\ mach_running
              /\ flow' = [flow EXCEPT ![f] = [r EXCEPT !.pc = "npkprintf", !.ret = "booted",
                                                   !.own = Own(r)]]
              /\ Passes(f, "BOOTUP") /\ UNCHANGED bootup_fn
        /\ UNCHANGED <<mach_running, mode, log_vars, wild, calls>>

(***************************************************************************)
(* npkprintf of one line: the mode is kept, PROFILER_BUSY while kprintf    *)
(* works, and put back.                                                    *)
(***************************************************************************)
SaveMode(f) == Move(f, "npkprintf", [At(flow[f], "busy") EXCEPT !.saved = mode], mode)
SetBusy(f) == Move(f, "busy", At(flow[f], "kprintf"), "BUSY")

kprintf(f) ==
    LET r == flow[f]
    IN  /\ Followed /\ r.pc = "kprintf"
        /\ mode' = r.saved
        /\ \/ /\ r.ret = "booted"
              /\ flow' = [flow EXCEPT ![f] = At(r, "booted")]
              /\ UNCHANGED dumped
           \/ /\ r.ret # "booted"
              /\ dumped' = Append(dumped, events[r.i + 1])
              /\ flow' = [flow EXCEPT ![f] = [At(r, "dump") EXCEPT !.i = r.i + 1]]
        /\ UNCHANGED <<mach_running, bootup_fn, events, top, wild, calls, asked_vars>>

\* flush_events: dump_events(top), a line for each event, and top = 0 after them.
FlushEvents(f) == Move(f, "flush", [At(flow[f], "dump") EXCEPT !.t = top, !.i = 0], mode)

dump_events(f) == flow[f].i < flow[f].t /\ Move(f, "dump", At(flow[f], "npkprintf"), mode)

EmptyLog(f) ==
    LET r == flow[f]
    IN  /\ Followed /\ r.pc = "dump" /\ r.i >= r.t
        /\ top' = 0
        /\ flow' = [flow EXCEPT ![f] = IF r.ret = "out" THEN Outside ELSE At(r, r.ret)]
        /\ UNCHANGED <<mach_running, mode, bootup_fn, events, dumped, wild, calls, asked_vars>>

\* mode = ...; goto check_mode
Booted(f) == Move(f, "booted", At(flow[f], "check_mode"), "STOPPED")
Started(f) == Move(f, "started", At(flow[f], "check_mode"), "RUNNING")

\* Mutant: the last slot of the log is not used, and its event is lost.
OverflowEarly == top >= PROFBUF_MAX - 1

overflow == top >= PROFBUF_MAX

log_event(f) ==
    Move(f, "log", At(flow[f], IF overflow THEN "logged" ELSE "fill"),
         IF overflow THEN "NEEDFLUSH" ELSE mode)

\* events[top] gets its fields; what lies behind the log is not followed.
FillEvent(f) ==
    /\ Followed /\ flow[f].pc = "fill"
    /\ wild' = (top >= PROFBUF_MAX)
    /\ events' = [i \in 1..PROFBUF_MAX |-> IF i = top + 1 THEN flow[f].e ELSE events[i]]
    /\ flow' = [flow EXCEPT ![f] = At(@, "count")]
    /\ UNCHANGED <<mach_running, mode, bootup_fn, top, dumped, calls, asked_vars>>

\* events[top++] gets the last of them.
CountEvent(f) ==
    /\ Followed /\ flow[f].pc = "count"
    /\ wild' = (top >= PROFBUF_MAX)
    /\ top' = top + 1
    /\ mode' = IF top + 1 = PROFBUF_MAX THEN "NEEDFLUSH" ELSE mode
    /\ flow' = [flow EXCEPT ![f] = At(@, "logged")]
    /\ UNCHANGED <<mach_running, bootup_fn, events, dumped, calls, asked_vars>>

\* "log_event() might have changed the mode"
Logged(f) ==
    Move(f, "logged", IF mode = "NEEDFLUSH" THEN Flush(flow[f], "stop")
                      ELSE At(flow[f], "stop"), mode)

\* stop_trigger
Stop(f) ==
    Move(f, "stop", IF Triggered(flow[f].fn, flow[f].type, "PROF_STOP")
                    THEN AfterTrigger(flow[f], "PROF_STOP", "stopped") ELSE Outside, mode)

Stopped(f) == Move(f, "stopped", Outside, "STOPPED")

\* The end of kernel_start.
MachRunning ==
    /\ Followed /\ ~mach_running /\ mach_running' = TRUE
    /\ UNCHANGED <<mode, bootup_fn, log_vars, flow, wild, calls, asked_vars>>

\* do_profile
do_profile(f) ==
    \/ Switch(f) \/ CheckMode(f) \/ Bootup(f) \/ Booted(f) \/ Started(f)
    \/ log_event(f) \/ FillEvent(f) \/ CountEvent(f) \/ Logged(f)
    \/ Stop(f) \/ Stopped(f)

flush_events(f) ==
    \/ FlushEvents(f) \/ dump_events(f) \/ EmptyLog(f)
    \/ SaveMode(f) \/ SetBusy(f) \/ kprintf(f)

ProfNext ==
    \/ \E f \in Flows :
          \/ \E fn \in Funcs, type \in Types : Call(f, fn, type)
          \/ SysrqFlush(f) \/ do_profile(f) \/ flush_events(f)
    \/ MachRunning

ProfSpec == ProfInit /\ [][ProfNext]_prof_vars

-----------------------------------------------------------------------------
(* Properties. *)

(***************************************************************************)
(* Every event from a start trigger to the next stop trigger, both         *)
(* included, is printed once and in order, or is in the log when nobody is *)
(* in the profiler, however often the log fills up and whatever calls the  *)
(* prints turn away (PROFILER_BUSY; their events are not due); the prints  *)
(* leave the mode they found, and nothing is written behind the log.  All  *)
(* this as long as no flow came past the switch of do_profile while        *)
(* another was between it and its end: nothing in profile.c keeps it out   *)
(* there, and two flows in npkprintf may leave PROFILER_BUSY for good.     *)
(***************************************************************************)
EachEventOnce ==
    ~met => /\ ~wild
            /\ (\A f \in Flows : ~Inside(f)) =>
                  /\ dumped \o SubSeq(events, 1, top) = logged
                  /\ mode \in IF logging THEN {"RUNNING", "NEEDFLUSH"} ELSE {"BOOTUP", "STOPPED"}
=============================================================================
