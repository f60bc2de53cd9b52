--------------------------- MODULE ProfilerProofs ---------------------------
(*****************************************************************************)
(* Proofs about Profiler, for any flows, functions, triggers and size of the *)
(* log: while no two flows meet in the profiler, every event the triggers    *)
(* ask for is printed or held once, in order, whichever of the steps of      *)
(* do_profile, flush_events and npkprintf another flow comes between.        *)
(*****************************************************************************)
EXTENDS Profiler, SequenceTheorems, TLAPS

On == {"RUNNING", "NEEDFLUSH"}
Outer == {"out", "switch", "bootup"}
Printing == {"npkprintf", "busy", "kprintf"}
Flushing == {"flush", "dump"} \cup Printing
Early == {"booted", "check_mode", "started", "log", "fill", "count"}
Late == {"logged", "stop", "stopped", "out"}

FlowType ==
    [pc : Outer \cup Flushing \cup Early \cup Late, fn : Funcs \cup {"none"},
     type : Types \cup {"none"}, e : Nat, own : Seq(Nat), t : Nat, i : Nat,
     saved : On \cup {"BOOTUP", "STOPPED", "BUSY", "none"}, ret : Early \cup Late]

Logs == [1..PROFBUF_MAX -> Nat]

\* Where the flow is, or goes on after what it prints.
Place(r) == IF r.pc \in Flushing THEN r.ret ELSE r.pc

\* The first event of the log that is not yet printed, and the flow's own.
First(r) == IF r.pc \in Flushing \ {"flush"} /\ r.ret # "booted" THEN r.i + 1 ELSE 1
Pending(r) == IF Place(r) \in Early THEN r.own ELSE <<>>

\* What has been logged is what was printed, what the log holds, and the event
\* that is on its way there.
Accounted(r, ev, k, d, l) == d \o SubSeq(ev, First(r), k) \o Pending(r) = l

\* The mode that a print will put back, or the mode there is.
ModeOf(r, m) == IF r.pc = "kprintf" THEN r.saved ELSE m

\* The place determines the mode, and whether the event is to be logged.
ModeFits(r, m) ==
    LET p == Place(r)
    IN  /\ r.pc = "busy" => r.saved = m
        /\ p = "booted" => m = "BOOTUP"
        /\ p = "check_mode" => m = "STOPPED" \/ (m = "RUNNING" /\ r.own = <<r.e>>)
        /\ p = "started" => m = "STOPPED" /\ r.own = <<r.e>>
        /\ p \in {"log", "fill", "count", "logged", "stop", "stopped"} =>
               m \in On /\ r.own = <<r.e>>
        /\ p \in {"booted", "check_mode"} /\ m # "RUNNING" =>
               r.own = IF Triggered(r.fn, r.type, "PROF_START") THEN <<r.e>> ELSE <<>>
        /\ p = "stopped" => Triggered(r.fn, r.type, "PROF_STOP")
        /\ m # "BUSY" /\ m # "none"

\* How full the log is.
LogFits(r, ev, k) ==
    LET p == Place(r)
    IN  /\ ~(r.pc = "logged" \/ (r.pc \in Flushing /\ p = "stop")) => k < PROFBUF_MAX
        /\ r.pc = "count" => ev[k + 1] = r.e
        /\ r.pc \in Flushing \ {"flush"} /\ p # "booted" => r.t = k /\ r.i <= k
        /\ r.pc \in Printing /\ p # "booted" => r.i < k
        /\ p = "booted" => r.pc \in Printing \cup {"booted"}
        /\ r.pc \in Flushing => p \in {"booted", "started", "log", "stop", "stopped", "out"}

\* A flow in the profiler, with the mode m, the log ev, k, what was printed d and
\* what is to be logged l.
Stage(r, m, ev, k, d, l) ==
    /\ r.pc \notin Outer
    /\ ModeFits(r, ModeOf(r, m)) /\ LogFits(r, ev, k) /\ Accounted(r, ev, k, d, l)
    /\ r.pc = "logged" /\ k = PROFBUF_MAX => m = "NEEDFLUSH"

\* Nobody in the profiler.
AtRest(m, ev, k, d, l) ==
    k < PROFBUF_MAX /\ m \in On \cup {"BOOTUP", "STOPPED"} /\ d \o SubSeq(ev, 1, k) = l

Log(m, ev, k, d, l) ==
    /\ m \in On \cup {"BOOTUP", "STOPPED", "BUSY"} /\ ev \in Logs /\ k \in 0..PROFBUF_MAX
    /\ d \in Seq(Nat) /\ l \in Seq(Nat)

\* logging says what the mode will be when the flow leaves.
Asked(r, m, on) ==
    on <=> IF Place(r) = "out" THEN ModeOf(r, m) \in On
           ELSE r.own # <<>> /\ ~Triggered(r.fn, r.type, "PROF_STOP")

\* The inductive invariant: of the flows that have not met, at most one is in
\* the profiler.
ProfInv ==
    ~met =>
      /\ ~wild /\ calls \in Nat /\ logging \in BOOLEAN
      /\ flow \in [Flows -> FlowType] /\ Log(mode, events, top, dumped, logged)
      /\ \A f \in Flows : Inside(f) =>
            Alone(f) /\ Stage(flow[f], mode, events, top, dumped, logged) /\ Asked(flow[f], mode, logging)
      /\ (\A f \in Flows : ~Inside(f)) =>
            AtRest(mode, events, top, dumped, logged) /\ (logging <=> mode \in On)

\* What a step has to establish about the flow that takes it.
Lands(r, m, ev, k, d, l, on) ==
    IF r.pc \in Outer THEN AtRest(m, ev, k, d, l) /\ (on <=> m \in On)
    ELSE Stage(r, m, ev, k, d, l) /\ Asked(r, m, on)

\* A step of the one flow in the profiler, or of one that enters it.
LEMMA SeatKept ==
    ASSUME ProfInv, ~met, NEW f \in Flows, Alone(f), NEW r \in FlowType,
           flow' = [flow EXCEPT ![f] = r], ~wild', calls' \in Nat, logging' \in BOOLEAN,
           Log(mode, events, top, dumped, logged)',
           Lands(r, mode', events', top', dumped', logged', logging')
    PROVE  ProfInv'
<1> USE DEF Inside, Outer
<1>1. flow \in [Flows -> FlowType]
  BY DEF ProfInv
<1>2. flow' \in [Flows -> FlowType] /\ flow'[f] = r /\ \A g \in Flows \ {f} : flow'[g] = flow[g]
  BY <1>1
<1>3. \A g \in Flows \ {f} : ~Inside(g)'
  BY <1>2 DEF Alone
<1>4. Alone(f)'
  BY <1>3 DEF Alone
<1>5. CASE r.pc \in Outer
  BY <1>2, <1>3, <1>5 DEF ProfInv, Lands
<1>6. CASE r.pc \notin Outer
  BY <1>2, <1>3, <1>4, <1>6 DEF ProfInv, Lands
<1> QED BY <1>5, <1>6

\* A step of a flow that stays out of it.
LEMMA OthersKept ==
    ASSUME ProfInv, ~met, NEW f \in Flows, NEW r \in FlowType, r.pc \in Outer, ~Inside(f),
           flow' = [flow EXCEPT ![f] = r], calls' \in Nat,
           UNCHANGED <<wild, mode, events, top, dumped, logging, logged>>
    PROVE  ProfInv'
<1> USE DEF Inside, Outer
<1>1. flow \in [Flows -> FlowType]
  BY DEF ProfInv
<1>2. flow' \in [Flows -> FlowType] /\ flow'[f] = r /\ \A g \in Flows \ {f} : flow'[g] = flow[g]
  BY <1>1
<1>3. \A g \in Flows : Inside(g)' <=> Inside(g)
  BY <1>2
<1>4. \A g \in Flows : Alone(g)' <=> Alone(g)
  BY <1>3 DEF Alone
<1>5. \A g \in Flows : Inside(g) => flow'[g] = flow[g]
  BY <1>2
<1> QED BY <1>2, <1>3, <1>4, <1>5 DEF ProfInv, Log

Same(q, r) == q.fn = r.fn /\ q.type = r.type /\ q.e = r.e /\ q.own = r.own
Setting(r, m, ev, k, d, l) ==
    r \in FlowType /\ Log(m, ev, k, d, l) /\ Stage(r, m, ev, k, d, l)

\* A step that leaves the log alone keeps what is accounted for, when it does not
\* change how much was printed or whether the flow's event is in the log.
LEMMA StillAccounted ==
    ASSUME NEW r, NEW q, NEW m, NEW ev, NEW k, NEW d, NEW l, Setting(r, m, ev, k, d, l),
           Same(q, r), First(q) = First(r), Place(q) \in Early <=> Place(r) \in Early
    PROVE  Accounted(q, ev, k, d, l)
<1>1. Pending(q) = Pending(r)
  BY DEF Same, Pending
<1> QED BY <1>1 DEF Setting, Stage, Accounted

\* logging is right at every place but SYSRQ-y's.
LEMMA StillAsked ==
    ASSUME NEW r, NEW q, NEW m, NEW n, NEW on, Asked(r, m, on), Same(q, r),
           IF Place(r) = "out" THEN Place(q) = "out" /\ ModeOf(q, n) = ModeOf(r, m)
           ELSE Place(q) # "out"
    PROVE  Asked(q, n, on)
  BY DEF Asked, Same

\* The beginning of flush_events, and the lines of dump_events and npkprintf.
LEMMA FlushMoves ==
    ASSUME NEW r, NEW q \in FlowType, NEW m, NEW n, NEW ev, NEW k, NEW d, NEW l, NEW on,
           Setting(r, m, ev, k, d, l), Asked(r, m, on), Same(q, r), q.ret = r.ret,
           \/ r.pc = "flush" /\ q.pc = "dump" /\ q.t = k /\ q.i = 0 /\ n = m
           \/ /\ q.t = r.t /\ q.i = r.i
              /\ \/ r.pc = "dump" /\ r.i < r.t /\ q.pc = "npkprintf" /\ n = m
                 \/ r.pc = "npkprintf" /\ q.pc = "busy" /\ q.saved = m /\ n = m
                 \/ r.pc = "busy" /\ q.pc = "kprintf" /\ q.saved = r.saved /\ n = "BUSY"
    PROVE  Lands(q, n, ev, k, d, l, on)
<1> USE DEF Flushing, Printing, Outer
<1>1. r.pc \in Flushing /\ q.pc \in Flushing
  OBVIOUS
<1>2. Place(q) = Place(r)
  BY <1>1 DEF Place
<1>3. Place(r) = "booted" => r.pc # "flush" /\ r.pc # "dump"
  BY <1>1 DEF Setting, Stage, LogFits, Early
<1>4. First(q) = First(r)
  BY <1>2, <1>3 DEF First, Place
<1>5. ModeOf(q, n) = ModeOf(r, m)
  BY DEF ModeOf, Setting, Stage, ModeFits
<1>6. ModeFits(q, ModeOf(q, n))
  BY <1>2, <1>5 DEF Setting, Stage, ModeFits, Same, ModeOf
<1>7. LogFits(q, ev, k)
  BY <1>1, <1>2, <1>3, ProfilerAssumption DEF Setting, Stage, LogFits, Log, Same
<1>8. Accounted(q, ev, k, d, l)
  BY <1>2, <1>4, StillAccounted
<1>9. Asked(q, n, on)
  BY <1>2, <1>5, StillAsked
<1> QED BY <1>1, <1>6, <1>7, <1>8, <1>9 DEF Lands, Stage

\* The steps before and after the event is written that do not touch the log.
LEMMA PlainMoves ==
    ASSUME NEW r, NEW q \in FlowType, NEW m, NEW n, NEW ev, NEW k, NEW d, NEW l, NEW on,
           Setting(r, m, ev, k, d, l), Asked(r, m, on), Same(q, r),
           \/ r.pc = "booted" /\ q.pc = "check_mode" /\ n = "STOPPED"
           \/ r.pc = "check_mode" /\ m = "RUNNING" /\ q.pc = "log" /\ n = m
           \/ r.pc = "check_mode" /\ m = "STOPPED" /\ q.pc = "started" /\ n = m
              /\ Triggered(r.fn, r.type, "PROF_START")
           \/ r.pc = "started" /\ q.pc = "check_mode" /\ n = "RUNNING"
           \/ r.pc = "log" /\ q.pc = "fill" /\ n = m
           \/ r.pc = "logged" /\ m # "NEEDFLUSH" /\ q.pc = "stop" /\ n = m
           \/ r.pc = "stop" /\ q.pc = "stopped" /\ n = m /\ Triggered(r.fn, r.type, "PROF_STOP")
    PROVE  Lands(q, n, ev, k, d, l, on)
<1> USE DEF Flushing, Printing, Outer
<1>1. r.pc \notin Flushing /\ q.pc \notin Flushing /\ r.pc # "kprintf" /\ q.pc # "kprintf"
  OBVIOUS
<1>2. Place(q) = q.pc /\ Place(r) = r.pc /\ First(q) = 1 /\ First(r) = 1
  BY <1>1 DEF Place, First
<1>3. ModeOf(q, n) = n /\ ModeOf(r, m) = m
  BY <1>1 DEF ModeOf
<1>4. ModeFits(q, n)
  BY <1>2, <1>3 DEF Setting, Stage, ModeFits, Same, On
<1>5. LogFits(q, ev, k)
  BY <1>1, <1>2, ProfilerAssumption DEF Setting, Stage, LogFits, Log, Same
<1>6. Accounted(q, ev, k, d, l)
  BY <1>2, StillAccounted DEF Early
<1>7. Asked(q, n, on)
  BY <1>2, <1>3, StillAsked
<1>8. q.pc # "logged"
  OBVIOUS
<1> QED BY <1>1, <1>3, <1>4, <1>5, <1>6, <1>7, <1>8 DEF Lands, Stage

\* The steps that call flush_events.
LEMMA IntoFlush ==
    ASSUME NEW r, NEW q \in FlowType, NEW m, NEW ev, NEW k, NEW d, NEW l, NEW on,
           Setting(r, m, ev, k, d, l), Asked(r, m, on), Same(q, r), q.pc = "flush",
           \/ r.pc = "check_mode" /\ m = "STOPPED" /\ q.ret = "started"
              /\ Triggered(r.fn, r.type, "PROF_START")
           \/ r.pc = "logged" /\ m = "NEEDFLUSH" /\ q.ret = "stop"
           \/ r.pc = "stop" /\ q.ret = "stopped" /\ Triggered(r.fn, r.type, "PROF_STOP")
    PROVE  Lands(q, m, ev, k, d, l, on)
<1> USE DEF Flushing, Printing, Outer
<1>1. r.pc \notin Flushing /\ r.pc # "kprintf"
  OBVIOUS
<1>2. Place(q) = q.ret /\ Place(r) = r.pc /\ First(q) = 1 /\ First(r) = 1
  BY <1>1 DEF Place, First
<1>3. ModeOf(q, m) = m /\ ModeOf(r, m) = m
  BY <1>1 DEF ModeOf
<1>4. ModeFits(q, m)
  BY <1>2, <1>3 DEF Setting, Stage, ModeFits, Same, On
<1>5. LogFits(q, ev, k)
  BY <1>1, <1>2, ProfilerAssumption DEF Setting, Stage, LogFits, Log, Same
<1>6. Accounted(q, ev, k, d, l)
  BY <1>2, StillAccounted DEF Early
<1>7. Asked(q, m, on)
  BY <1>2, <1>3, StillAsked
<1> QED BY <1>3, <1>4, <1>5, <1>6, <1>7 DEF Lands, Stage

\* The events of the log from place a + 1 on.
LEMMA Window ==
    ASSUME NEW ev \in Logs, NEW k \in 0..PROFBUF_MAX, NEW a \in 0..k
    PROVE  /\ SubSeq(ev, a + 1, k) \in Seq(Nat) /\ Len(SubSeq(ev, a + 1, k)) = k - a
           /\ \A j \in 1..(k - a) : SubSeq(ev, a + 1, k)[j] = ev[a + j]
<1>1. a + 1 \in Int /\ k \in Int /\ a \in Int /\ a <= k
  BY ProfilerAssumption
<1>2. \A j \in (a + 1)..k : ev[j] \in Nat
  BY ProfilerAssumption DEF Logs
<1> DEFINE b == a + 1
           v == SubSeq(ev, b, k)
<1>3. b \in Int /\ \A j \in b..k : ev[j] \in Nat
  BY <1>1, <1>2
<1>4. /\ v \in Seq(Nat) /\ Len(v) = (IF b <= k THEN k - b + 1 ELSE 0)
      /\ \A j \in 1..(k - b + 1) : v[j] = ev[b + j - 1]
  <2> HIDE DEF b
  <2> QED BY <1>1, <1>3, SubSeqProperties
<1> HIDE DEF v
<1>5. Len(v) = k - a
  BY <1>1, <1>4
<1>6. \A j \in 1..(k - a) : v[j] = ev[a + j]
  BY <1>1, <1>4
<1> QED BY <1>4, <1>5, <1>6 DEF v

\* The first of them, and the others.
LEMMA FirstEvent ==
    ASSUME NEW ev \in Logs, NEW k \in 0..PROFBUF_MAX, NEW a \in Nat, a < k
    PROVE  <<ev[a + 1]>> \o SubSeq(ev, a + 2, k) = SubSeq(ev, a + 1, k)
<1> DEFINE b == a + 1
           x == ev[a + 1]
           v == SubSeq(ev, a + 1, k)
           w == SubSeq(ev, b + 1, k)
           u == <<x>> \o w
<1>1. a \in 0..k /\ b \in 0..k /\ x \in Nat /\ b + 1 = a + 2 /\ k \in Int
  BY ProfilerAssumption DEF Logs
<1>2. v \in Seq(Nat) /\ Len(v) = k - a /\ \A j \in 1..(k - a) : v[j] = ev[a + j]
  BY <1>1, Window
<1>3. w \in Seq(Nat) /\ Len(w) = k - b /\ \A j \in 1..(k - b) : w[j] = ev[b + j]
  <2> HIDE DEF b
  <2> QED BY <1>1, Window
<1>4. /\ u \in Seq(Nat) /\ Len(u) = 1 + Len(w) /\ u[1] = x
      /\ \A j \in 2..(1 + Len(w)) : u[j] = w[j - 1]
  <2>1. <<x>> \in Seq(Nat) /\ Len(<<x>>) = 1 /\ <<x>>[1] = x
    BY <1>1
  <2> DEFINE one == <<x>>
  <2>2. one \in Seq(Nat) /\ Len(one) = 1 /\ one[1] = x /\ u = one \o w
    BY <2>1
  <2> HIDE DEF one, w, x, u
  <2>3. /\ one \o w \in Seq(Nat) /\ Len(one \o w) = Len(one) + Len(w)
        /\ \A j \in 1..(Len(one) + Len(w)) :
              (one \o w)[j] = IF j <= Len(one) THEN one[j] ELSE w[j - Len(one)]
    BY <1>3, <2>2, ConcatProperties
  <2>4. Len(w) \in Nat
    BY <1>3, LenProperties
  <2> QED BY <2>2, <2>3, <2>4
<1> HIDE DEF v, w, u
<1>5. Len(u) = Len(v)
  BY <1>1, <1>2, <1>3, <1>4
<1>6. ASSUME NEW j \in 1..Len(v) PROVE u[j] = v[j]
  <2>1. CASE j = 1
    BY <1>2, <1>4, <2>1
  <2>2. CASE j # 1
    <3>1. j \in 2..(1 + Len(w)) /\ j - 1 \in 1..(k - b) /\ b + (j - 1) = a + j /\ j \in 1..(k - a)
      BY <1>1, <1>2, <1>3, <2>2
    <3> QED BY <1>2, <1>3, <1>4, <3>1
  <2> QED BY <2>1, <2>2
<1>7. u = v
  BY <1>2, <1>4, <1>5, <1>6, SeqEqual
<1> QED BY <1>1, <1>7 DEF u, v, w

\* The last of them is the one that is added.
LEMMA LastEvent ==
    ASSUME NEW ev \in Logs, NEW k \in Nat, k < PROFBUF_MAX
    PROVE  SubSeq(ev, 1, k + 1) = SubSeq(ev, 1, k) \o <<ev[k + 1]>>
<1> DEFINE z == 0
           n == k + 1
           x == ev[k + 1]
           v == SubSeq(ev, z + 1, k)
           w == SubSeq(ev, z + 1, n)
           u == v \o <<x>>
<1>1. k \in 0..PROFBUF_MAX /\ n \in 0..PROFBUF_MAX /\ x \in Nat /\ z \in 0..k /\ z \in 0..n /\ z + 1 = 1
  BY ProfilerAssumption DEF Logs
<1>2. v \in Seq(Nat) /\ Len(v) = k - z /\ \A j \in 1..(k - z) : v[j] = ev[z + j]
  <2> HIDE DEF z
  <2> QED BY <1>1, Window
<1>3. w \in Seq(Nat) /\ Len(w) = n - z /\ \A j \in 1..(n - z) : w[j] = ev[z + j]
  <2> HIDE DEF z, n
  <2> QED BY <1>1, Window
<1>4. /\ u \in Seq(Nat) /\ Len(u) = Len(v) + 1 /\ u[Len(v) + 1] = x
      /\ \A j \in 1..Len(v) : u[j] = v[j]
  <2> DEFINE one == <<x>>
  <2>1. one \in Seq(Nat) /\ Len(one) = 1 /\ one[1] = x /\ u = v \o one
    BY <1>1
  <2> HIDE DEF one, v, x, u
  <2>2. /\ v \o one \in Seq(Nat) /\ Len(v \o one) = Len(v) + Len(one)
        /\ \A j \in 1..(Len(v) + Len(one)) :
              (v \o one)[j] = IF j <= Len(v) THEN v[j] ELSE one[j - Len(v)]
    BY <1>2, <2>1, ConcatProperties
  <2>3. Len(v) \in Nat
    BY <1>2, LenProperties
  <2> QED BY <2>1, <2>2, <2>3
<1> HIDE DEF v, w, u
<1>5. ASSUME NEW j \in 1..Len(w) PROVE u[j] = w[j]
  <2>1. CASE j = n
    BY <1>2, <1>3, <1>4, <2>1
  <2>2. CASE j # n
    BY <1>2, <1>3, <1>4, <2>2
  <2> QED BY <2>1, <2>2
<1>6. Len(u) = Len(w)
  BY <1>2, <1>3, <1>4
<1>7. u = w
  BY <1>3, <1>4, <1>5, <1>6, SeqEqual
<1> QED BY <1>7 DEF u, v, w

\* events[top] is not one of the events of the log.
LEMMA FilledBehind ==
    ASSUME NEW ev \in Logs, NEW new \in Logs, NEW k \in 0..PROFBUF_MAX,
           \A i \in 1..k : new[i] = ev[i]
    PROVE  SubSeq(new, 1, k) = SubSeq(ev, 1, k)
<1> DEFINE z == 0
           v == SubSeq(ev, z + 1, k)
           w == SubSeq(new, z + 1, k)
<1>1. z \in 0..k
  BY ProfilerAssumption
<1>2. v \in Seq(Nat) /\ Len(v) = k - z /\ \A j \in 1..(k - z) : v[j] = ev[z + j]
  <2> HIDE DEF z
  <2> QED BY <1>1, Window
<1>3. w \in Seq(Nat) /\ Len(w) = k - z /\ \A j \in 1..(k - z) : w[j] = new[z + j]
  <2> HIDE DEF z
  <2> QED BY <1>1, Window
<1> HIDE DEF v, w
<1>4. ASSUME NEW j \in 1..Len(v) PROVE v[j] = w[j]
  <2>1. j \in 1..k /\ j \in 1..(k - z) /\ z + j = j
    BY <1>2
  <2> HIDE DEF z
  <2> QED BY <1>2, <1>3, <2>1
<1>5. v = w
  BY <1>2, <1>3, <1>4, SeqEqual
<1> QED BY <1>5 DEF v, w

\* The events of three parts, in either order of joining them.
LEMMA Joined == \A a, b, c \in Seq(Nat) : (a \o b) \o c = a \o (b \o c)
  BY ConcatAssociative

\* log_event writes the event behind the log.
LEMMA FillLands ==
    ASSUME NEW r, NEW q \in FlowType, NEW m, NEW ev, NEW k, NEW d, NEW l, NEW on,
           Setting(r, m, ev, k, d, l), Asked(r, m, on), Same(q, r),
           r.pc = "fill", q.pc = "count",
           NEW new \in Logs, new[k + 1] = r.e, \A i \in 1..k : new[i] = ev[i]
    PROVE  k < PROFBUF_MAX /\ Log(m, new, k, d, l) /\ Lands(q, m, new, k, d, l, on)
<1> USE DEF Flushing, Printing, Outer
<1>1. ev \in Logs /\ k \in Nat /\ r.e \in Nat
  BY ProfilerAssumption DEF Setting, Log, FlowType
<1>2. Place(q) = "count" /\ Place(r) = "fill" /\ First(q) = 1 /\ First(r) = 1
  BY DEF Place, First
<1>3. k < PROFBUF_MAX
  BY <1>2 DEF Setting, Stage, LogFits
<1>4. SubSeq(new, 1, k) = SubSeq(ev, 1, k)
  BY <1>1, <1>3, FilledBehind, ProfilerAssumption
<1>5. ModeOf(q, m) = m /\ ModeOf(r, m) = m
  BY DEF ModeOf
<1>6. ModeFits(q, m)
  BY <1>2, <1>5 DEF Setting, Stage, ModeFits, Same
<1>7. LogFits(q, new, k)
  BY <1>2, <1>3 DEF LogFits, Same
<1>8. Pending(q) = Pending(r)
  BY <1>2 DEF Pending, Same, Early
<1>9. Accounted(q, new, k, d, l)
  <2>1. Accounted(r, ev, k, d, l)
    BY DEF Setting, Stage
  <2> QED BY <1>2, <1>4, <1>8, <2>1, Zenon DEF Accounted
<1>10. Asked(q, m, on)
  BY <1>2, StillAsked
<1> QED BY <1>3, <1>4, <1>5, <1>6, <1>7, <1>9, <1>10 DEF Lands, Stage, Setting, Log

\* The event becomes one of the log.
LEMMA CountLands ==
    ASSUME NEW r, NEW q \in FlowType, NEW m, NEW ev, NEW k, NEW d, NEW l, NEW on,
           Setting(r, m, ev, k, d, l), Asked(r, m, on), Same(q, r),
           r.pc = "count", q.pc = "logged",
           NEW n, n = IF k + 1 = PROFBUF_MAX THEN "NEEDFLUSH" ELSE m
    PROVE  k < PROFBUF_MAX /\ Log(n, ev, k + 1, d, l) /\ Lands(q, n, ev, k + 1, d, l, on)
<1> USE DEF Flushing, Printing, Outer
<1>1. ev \in Logs /\ k \in Nat /\ r.e \in Nat /\ d \in Seq(Nat)
  BY ProfilerAssumption DEF Setting, Log, FlowType
<1>2. Place(q) = "logged" /\ Place(r) = "count" /\ First(q) = 1 /\ First(r) = 1
  BY DEF Place, First
<1>3. k < PROFBUF_MAX /\ ev[k + 1] = r.e
  BY <1>2 DEF Setting, Stage, LogFits
<1>4. ModeOf(q, n) = n /\ ModeOf(r, m) = m
  BY DEF ModeOf
<1>5. n \in On
  BY <1>2, <1>4 DEF Setting, Stage, ModeFits, On
<1>6. ModeFits(q, n)
  BY <1>2, <1>4, <1>5 DEF Setting, Stage, ModeFits, Same, On
<1>7. LogFits(q, ev, k + 1)
  BY <1>2 DEF LogFits
<1>8. Pending(q) = <<>> /\ Pending(r) = <<r.e>>
  BY <1>2, <1>4 DEF Pending, Same, Early, Setting, Stage, ModeFits
<1>9. Accounted(q, ev, k + 1, d, l)
  <2> DEFINE v == SubSeq(ev, 1, k)
             x == <<r.e>>
             z == 0
  <2>1. SubSeq(ev, 1, k + 1) = v \o x
    BY <1>1, <1>3, LastEvent
  <2>2. d \o v \o x = l
    <3>1. Accounted(r, ev, k, d, l)
      BY DEF Setting, Stage
    <3> QED BY <1>2, <1>8, <3>1, Zenon DEF Accounted
  <2>3. x \in Seq(Nat)
    BY <1>1
  <2>4. v \in Seq(Nat)
    <3>1. k \in 0..PROFBUF_MAX /\ z \in 0..k /\ z + 1 = 1
      BY <1>1, <1>3, ProfilerAssumption
    <3>2. SubSeq(ev, z + 1, k) \in Seq(Nat)
      <4> HIDE DEF z
      <4> QED BY <1>1, <3>1, Window
    <3> QED BY <3>1, <3>2
  <2> HIDE DEF v, x
  <2>5. v \o x \in Seq(Nat) /\ d \o (v \o x) \in Seq(Nat)
    BY <1>1, <2>3, <2>4, ConcatProperties
  <2>6. d \o (v \o x) = l
    <3>1. (d \o v) \o x = d \o (v \o x)
      BY <1>1, <2>3, <2>4, Joined, Zenon
    <3> QED BY <2>2, <3>1, Zenon
  <2>7. d \o (v \o x) \o <<>> = d \o (v \o x)
    BY <2>5, ConcatEmptySeq
  <2> QED BY <1>2, <1>8, <2>1, <2>6, <2>7, Zenon DEF Accounted
<1>10. Asked(q, n, on)
  BY <1>2, StillAsked
<1>11. Log(n, ev, k + 1, d, l)
  BY <1>1, <1>3, <1>5, ProfilerAssumption DEF Setting, Log
<1>12. k + 1 = PROFBUF_MAX => n = "NEEDFLUSH"
  OBVIOUS
<1> QED BY <1>3, <1>4, <1>6, <1>7, <1>9, <1>10, <1>11, <1>12 DEF Lands, Stage

\* kprintf of the next event of the log.
LEMMA LineLands ==
    ASSUME NEW r, NEW q \in FlowType, NEW m, NEW ev, NEW k, NEW d, NEW l, NEW on,
           Setting(r, m, ev, k, d, l), Asked(r, m, on), Same(q, r), q.ret = r.ret,
           r.pc = "kprintf", q.pc = "dump", r.ret # "booted", q.t = r.t, q.i = r.i + 1
    PROVE  Log(r.saved, ev, k, Append(d, ev[r.i + 1]), l)
           /\ Lands(q, r.saved, ev, k, Append(d, ev[r.i + 1]), l, on)
<1> USE DEF Flushing, Printing, Outer
<1> DEFINE i == r.i
           x == ev[i + 1]
           one == <<x>>
           n == r.saved
           v == SubSeq(ev, i + 1, k)
           w == SubSeq(ev, i + 2, k)
<1>1. ev \in Logs /\ k \in 0..PROFBUF_MAX /\ d \in Seq(Nat) /\ i \in Nat /\ l \in Seq(Nat)
  BY DEF Setting, Log, FlowType
<1>2. Place(q) = r.ret /\ Place(r) = r.ret /\ First(q) = i + 2 /\ First(r) = i + 1
  BY DEF Place, First, FlowType, Setting
<1>3. i < k /\ r.t = k
  BY <1>2 DEF Setting, Stage, LogFits
<1>4. ModeOf(q, n) = n /\ ModeOf(r, m) = n
  BY DEF ModeOf
<1>5. ModeFits(q, n)
  BY <1>2, <1>4 DEF Setting, Stage, ModeFits, Same
<1>6. LogFits(q, ev, k)
  BY <1>1, <1>2, <1>3, ProfilerAssumption DEF Setting, Stage, LogFits
<1>7. Pending(q) = Pending(r)
  BY <1>2 DEF Pending, Same
<1>8. x \in Nat
  BY <1>1, <1>3, ProfilerAssumption DEF Logs
<1>9. Append(d, x) \o w = d \o v
  <2>1. one \o w = v
    BY <1>1, <1>3, FirstEvent
  <2>2. one \in Seq(Nat)
    BY <1>8
  <2>3. w \in Seq(Nat)
    <3> DEFINE b == i + 1
    <3>1. b \in 0..k /\ b + 1 = i + 2
      BY <1>1, <1>3, ProfilerAssumption
    <3>2. SubSeq(ev, b + 1, k) \in Seq(Nat)
      <4> HIDE DEF b
      <4> QED BY <1>1, <3>1, Window
    <3> QED BY <3>1, <3>2
  <2>4. Append(d, x) = d \o one
    BY <1>1, <1>8, AppendIsConcat
  <2> HIDE DEF one, w, v, x
  <2>5. (d \o one) \o w = d \o (one \o w)
    BY <1>1, <2>2, <2>3, Joined, Zenon
  <2> QED BY <2>1, <2>4, <2>5
<1>10. Accounted(q, ev, k, Append(d, x), l)
  <2>1. Accounted(r, ev, k, d, l)
    BY DEF Setting, Stage
  <2> QED BY <1>2, <1>7, <1>9, <2>1 DEF Accounted
<1>11. Asked(q, n, on)
  BY <1>2, <1>4, StillAsked
<1>12. Append(d, x) \in Seq(Nat)
  BY <1>1, <1>8, AppendProperties
<1>13. n \in On \cup {"BOOTUP", "STOPPED", "BUSY"}
  BY <1>4 DEF Setting, Stage, ModeFits, FlowType
<1>14. Log(n, ev, k, Append(d, x), l)
  BY <1>1, <1>12, <1>13 DEF Log
<1>15. Lands(q, n, ev, k, Append(d, x), l, on)
  BY <1>4, <1>5, <1>6, <1>10, <1>11 DEF Lands, Stage
<1> QED BY <1>14, <1>15

\* npkprintf of the count of the bootup.
LEMMA BootLineLands ==
    ASSUME NEW r, NEW q \in FlowType, NEW m, NEW ev, NEW k, NEW d, NEW l, NEW on,
           Setting(r, m, ev, k, d, l), Asked(r, m, on), Same(q, r), q.ret = r.ret,
           r.pc = "kprintf", q.pc = "booted", r.ret = "booted"
    PROVE  Log(r.saved, ev, k, d, l) /\ Lands(q, r.saved, ev, k, d, l, on)
<1> USE DEF Flushing, Printing, Outer
<1>1. Place(q) = "booted" /\ Place(r) = "booted" /\ First(q) = 1 /\ First(r) = 1
  BY DEF Place, First
<1>2. ModeOf(q, r.saved) = r.saved /\ ModeOf(r, m) = r.saved
  BY DEF ModeOf
<1>3. ModeFits(q, r.saved)
  BY <1>1, <1>2 DEF Setting, Stage, ModeFits, Same
<1>4. LogFits(q, ev, k)
  BY <1>1 DEF Setting, Stage, LogFits
<1>5. Accounted(q, ev, k, d, l)
  BY <1>1, StillAccounted
<1>6. Asked(q, r.saved, on)
  BY <1>1, StillAsked
<1>7. Log(r.saved, ev, k, d, l)
  BY <1>1, <1>2 DEF Setting, Stage, ModeFits, Log
<1> QED BY <1>2, <1>3, <1>4, <1>5, <1>6, <1>7 DEF Lands, Stage

\* What is left in the log when all of it was printed.
LEMMA NothingLeft ==
    ASSUME NEW ev \in Logs, NEW k \in 0..PROFBUF_MAX, NEW d \in Seq(Nat)
    PROVE  SubSeq(ev, k + 1, k) = <<>> /\ SubSeq(ev, 1, 0) = <<>> /\ d \o <<>> = d
<1> DEFINE a == k + 1
           z == 0
           o == 1
<1>1. a \in Int /\ k \in Int /\ k < a /\ z \in Int /\ o \in Int /\ z < o
  BY ProfilerAssumption
<1>2. SubSeq(ev, a, k) = <<>> /\ SubSeq(ev, o, z) = <<>>
  <2> HIDE DEF a, z, o
  <2> QED BY <1>1, SubSeqEmpty
<1>3. d \o <<>> = d
  BY ConcatEmptySeq
<1> QED BY <1>2, <1>3

\* top = 0 after the last event.
LEMMA EmptyLands ==
    ASSUME NEW r, NEW q \in FlowType, NEW m, NEW ev, NEW k, NEW d, NEW l, NEW on,
           Setting(r, m, ev, k, d, l), Asked(r, m, on),
           r.pc = "dump", r.i >= r.t,
           IF r.ret = "out" THEN q.pc = "out" ELSE Same(q, r) /\ q.pc = r.ret /\ q.ret = r.ret
    PROVE  Log(m, ev, 0, d, l) /\ Lands(q, m, ev, 0, d, l, on)
<1> USE DEF Flushing, Printing, Outer
<1>1. /\ ev \in Logs /\ k \in 0..PROFBUF_MAX /\ d \in Seq(Nat) /\ r.i \in Nat /\ r.t \in Nat
      /\ l \in Seq(Nat) /\ 0 \in 0..PROFBUF_MAX /\ 0 < PROFBUF_MAX
  BY ProfilerAssumption DEF Setting, Log, FlowType
<1>2. Place(r) = r.ret /\ r.ret \in {"started", "log", "stop", "stopped", "out"}
  BY DEF Setting, Stage, LogFits, Place
<1>3. r.i = k /\ First(r) = k + 1
  BY <1>1, <1>2 DEF Setting, Stage, LogFits, First
<1>4. Log(m, ev, 0, d, l) /\ ModeOf(r, m) = m /\ m # "BUSY"
  BY <1>1 DEF Setting, Log, ModeOf, Stage, ModeFits
<1>5. d \o Pending(r) = l
  <2>1. Accounted(r, ev, k, d, l)
    BY DEF Setting, Stage
  <2>2. SubSeq(ev, k + 1, k) = <<>> /\ d \o <<>> = d
    BY <1>1, NothingLeft
  <2> QED BY <1>3, <2>1, <2>2, Zenon DEF Accounted
<1>6. SubSeq(ev, 1, 0) = <<>> /\ d \o <<>> = d
  BY <1>1, NothingLeft
<1>7. CASE r.ret = "out"
  <2>1. Pending(r) = <<>>
    BY <1>2, <1>7 DEF Pending, Early
  <2>2. d \o SubSeq(ev, 1, 0) = l
    BY <1>5, <1>6, <2>1, Zenon
  <2>3. on <=> m \in On
    BY <1>2, <1>4, <1>7 DEF Asked
  <2>4. m \in On \cup {"BOOTUP", "STOPPED"}
    BY <1>4 DEF Log
  <2> QED BY <1>1, <1>4, <1>7, <2>2, <2>3, <2>4 DEF Lands, AtRest
<1>8. CASE r.ret # "out"
  <2>1. q.pc \in {"started", "log", "stop", "stopped"} /\ Place(q) = q.pc /\ First(q) = 1
    BY <1>2, <1>8 DEF Place, First
  <2>2. ModeOf(q, m) = m
    BY <2>1 DEF ModeOf
  <2>3. ModeFits(q, m)
    BY <1>2, <1>4, <1>8, <2>1 DEF Setting, Stage, ModeFits, Same
  <2>4. LogFits(q, ev, 0)
    BY <1>1, <2>1 DEF LogFits
  <2>5. Pending(q) = Pending(r)
    BY <1>2, <1>8, <2>1 DEF Pending, Same
  <2>6. Accounted(q, ev, 0, d, l)
    BY <1>5, <1>6, <2>1, <2>5, Zenon DEF Accounted
  <2>7. Asked(q, m, on)
    BY <1>2, <1>8, <2>1, StillAsked
  <2> QED BY <1>4, <2>1, <2>2, <2>3, <2>4, <2>6, <2>7 DEF Lands, Stage
<1> QED BY <1>7, <1>8

\* The steps that leave do_profile.
LEMMA Leaves ==
    ASSUME NEW r, NEW q \in FlowType, NEW m, NEW n, NEW ev, NEW k, NEW d, NEW l, NEW on,
           Setting(r, m, ev, k, d, l), Asked(r, m, on), q.pc = "out",
           \/ r.pc = "check_mode" /\ m = "STOPPED" /\ n = m /\ ~Triggered(r.fn, r.type, "PROF_START")
           \/ r.pc = "stop" /\ n = m /\ ~Triggered(r.fn, r.type, "PROF_STOP")
           \/ r.pc = "stopped" /\ n = "STOPPED"
    PROVE  Lands(q, n, ev, k, d, l, on)
<1> USE DEF Flushing, Printing, Outer
<1>1. ev \in Logs /\ k \in 0..PROFBUF_MAX /\ d \in Seq(Nat) /\ l \in Seq(Nat)
  BY DEF Setting, Log
<1>2. Place(r) = r.pc /\ First(r) = 1 /\ ModeOf(r, m) = m /\ k < PROFBUF_MAX
  BY DEF Place, First, ModeOf, Setting, Stage, LogFits
<1>3. Pending(r) = <<>>
  BY <1>2 DEF Pending, Early, Setting, Stage, ModeFits
<1>4. d \o SubSeq(ev, 1, k) = l
  <2> DEFINE v == SubSeq(ev, 1, k)
             z == 0
  <2>1. Accounted(r, ev, k, d, l)
    BY DEF Setting, Stage
  <2>2. v \in Seq(Nat)
    <3>1. z \in 0..k /\ z + 1 = 1
      BY <1>1, ProfilerAssumption
    <3>2. SubSeq(ev, z + 1, k) \in Seq(Nat)
      <4> HIDE DEF z
      <4> QED BY <1>1, <3>1, Window
    <3> QED BY <3>1, <3>2
  <2>3. d \o v \o <<>> = l
    BY <1>2, <1>3, <2>1, Zenon DEF Accounted
  <2> HIDE DEF v
  <2>4. d \o v \in Seq(Nat)
    BY <1>1, <2>2, ConcatProperties
  <2>5. (d \o v) \o <<>> = d \o v
    BY <2>4, ConcatEmptySeq
  <2> QED BY <2>3, <2>5, Zenon DEF v
<1>5. n \in On \cup {"BOOTUP", "STOPPED"}
  BY <1>2 DEF Setting, Stage, ModeFits
<1>6. CASE r.pc = "check_mode"
  <2>1. r.own = <<>> /\ n = "STOPPED"
    BY <1>2, <1>6 DEF Setting, Stage, ModeFits
  <2> QED BY <1>2, <1>4, <1>5, <1>6, <2>1 DEF Asked, Lands, AtRest, On
<1>7. CASE r.pc = "stop"
  <2>1. r.own = <<r.e>> /\ n \in On
    BY <1>2, <1>7 DEF Setting, Stage, ModeFits
  <2>2. r.own # <<>>
    BY <2>1
  <2>3. on
    BY <1>2, <1>7, <2>2 DEF Asked
  <2> QED BY <1>2, <1>4, <1>5, <2>1, <2>3 DEF Lands, AtRest
<1>8. CASE r.pc = "stopped"
  <2>1. Triggered(r.fn, r.type, "PROF_STOP")
    BY <1>2, <1>8 DEF Setting, Stage, ModeFits
  <2> QED BY <1>2, <1>4, <1>5, <1>8, <2>1 DEF Asked, Lands, AtRest, On
<1> QED BY <1>6, <1>7, <1>8

\* A call that comes past the switch, or past the test of mach_state, when
\* nobody is in the profiler.
LEMMA Enters ==
    ASSUME NEW q \in FlowType, NEW m, NEW ev, NEW k, NEW d, NEW l, NEW on,
           Log(m, ev, k, d, l), AtRest(m, ev, k, d, l),
           on <=> q.own # <<>> /\ ~Triggered(q.fn, q.type, "PROF_STOP"),
           \/ /\ m = "STOPPED" /\ q.own = <<q.e>>
              /\ q.pc = "started" \/ (q.pc = "flush" /\ q.ret = "started")
           \/ m = "NEEDFLUSH" /\ q.own = <<q.e>> /\ q.pc = "flush" /\ q.ret = "log"
           \/ m = "RUNNING" /\ q.own = <<q.e>> /\ q.pc = "log"
           \/ /\ m = "BOOTUP" /\ q.pc = "npkprintf" /\ q.ret = "booted"
              /\ q.own = IF Triggered(q.fn, q.type, "PROF_START") THEN <<q.e>> ELSE <<>>
    PROVE  Log(m, ev, k, d, l \o q.own) /\ Lands(q, m, ev, k, d, l \o q.own, on)
<1> USE DEF Flushing, Printing, Outer
<1>1. /\ ev \in Logs /\ k \in Nat /\ d \in Seq(Nat) /\ l \in Seq(Nat) /\ q.own \in Seq(Nat)
      /\ k < PROFBUF_MAX
  BY ProfilerAssumption DEF Log, FlowType, AtRest
<1>2. Place(q) \in {"started", "log", "booted"} /\ First(q) = 1 /\ ModeOf(q, m) = m
  BY DEF Place, First, ModeOf
<1>3. ModeFits(q, m)
  BY <1>2 DEF ModeFits, Place, On
<1>4. LogFits(q, ev, k)
  BY <1>1, <1>2 DEF LogFits, Place
<1>5. Pending(q) = q.own
  BY <1>2 DEF Pending, Early
<1>6. Accounted(q, ev, k, d, l \o q.own)
  <2>1. d \o SubSeq(ev, 1, k) = l
    BY DEF AtRest
  <2> QED BY <1>2, <1>5, <2>1, Zenon DEF Accounted
<1>7. Asked(q, m, on)
  BY <1>2 DEF Asked
<1>8. l \o q.own \in Seq(Nat)
  BY <1>1, ConcatProperties
<1>9. q.pc \notin Outer /\ q.pc # "logged"
  OBVIOUS
<1> QED BY <1>2, <1>3, <1>4, <1>6, <1>7, <1>8, <1>9 DEF Lands, Stage, Log

\* SYSRQ-y, when nobody is in the profiler.
LEMMA SysrqEnters ==
    ASSUME NEW q \in FlowType, NEW m, NEW ev, NEW k, NEW d, NEW l, NEW on,
           Log(m, ev, k, d, l), AtRest(m, ev, k, d, l), on <=> m \in On,
           q.pc = "flush", q.ret = "out"
    PROVE  Lands(q, m, ev, k, d, l, on)
<1> USE DEF Flushing, Printing, Outer
<1>1. ev \in Logs /\ k \in 0..PROFBUF_MAX /\ k < PROFBUF_MAX /\ d \in Seq(Nat) /\ l \in Seq(Nat)
  BY ProfilerAssumption DEF Log, AtRest
<1>2. Place(q) = "out" /\ First(q) = 1 /\ ModeOf(q, m) = m /\ Pending(q) = <<>>
  BY DEF Place, First, ModeOf, Pending, Early
<1>3. ModeFits(q, m)
  BY <1>2 DEF ModeFits, AtRest, On
<1>4. LogFits(q, ev, k)
  BY <1>1, <1>2 DEF LogFits
<1>5. Accounted(q, ev, k, d, l)
  <2>1. d \o SubSeq(ev, 1, k) = l
    BY DEF AtRest
  <2>2. l \o <<>> = l
    BY <1>1, ConcatEmptySeq
  <2> QED BY <1>2, <2>1, <2>2, Zenon DEF Accounted
<1>6. Asked(q, m, on)
  BY <1>2 DEF Asked
<1> QED BY <1>2, <1>3, <1>4, <1>5, <1>6 DEF Lands, Stage

----------------------------------------------------------------------------
\* What holds of a flow in the profiler, and of one that comes to it.
LEMMA InTheProfiler ==
    ASSUME ProfInv, ~met, NEW f \in Flows
    PROVE  /\ flow[f] \in FlowType /\ ~wild /\ calls \in Nat /\ logging \in BOOLEAN
           /\ Log(mode, events, top, dumped, logged)
           /\ Inside(f) => /\ Setting(flow[f], mode, events, top, dumped, logged)
                           /\ Asked(flow[f], mode, logging) /\ Alone(f)
           /\ ~Inside(f) /\ Alone(f) =>
                 AtRest(mode, events, top, dumped, logged) /\ (logging <=> mode \in On)
<1>1. flow \in [Flows -> FlowType]
  BY DEF ProfInv
<1>2. ~Inside(f) /\ Alone(f) => \A g \in Flows : ~Inside(g)
  BY DEF Alone
<1> QED BY <1>1, <1>2 DEF ProfInv, Setting

\* The fields of the flow after a step.
LEMMA Stepped ==
    ASSUME NEW r \in FlowType, NEW p \in Outer \cup Flushing \cup Early \cup Late,
           NEW ret \in Early \cup Late
    PROVE  /\ At(r, p) \in FlowType /\ At(r, p).pc = p /\ At(r, p).ret = r.ret
           /\ At(r, p).t = r.t /\ At(r, p).i = r.i /\ At(r, p).saved = r.saved
           /\ Same(At(r, p), r)
           /\ Flush(r, ret) \in FlowType /\ Flush(r, ret).pc = "flush" /\ Flush(r, ret).ret = ret
           /\ Same(Flush(r, ret), r)
           /\ Outside \in FlowType /\ Outside.pc = "out"
<1>1. /\ At(r, p) \in FlowType /\ At(r, p).pc = p /\ At(r, p).ret = r.ret
      /\ At(r, p).t = r.t /\ At(r, p).i = r.i /\ At(r, p).saved = r.saved
      /\ Same(At(r, p), r)
  BY DEF FlowType, At, Same
<1>2. "flush" \in Outer \cup Flushing \cup Early \cup Late
  BY DEF Flushing
<1>3. /\ Flush(r, ret) \in FlowType /\ Flush(r, ret).pc = "flush" /\ Flush(r, ret).ret = ret
      /\ Same(Flush(r, ret), r)
  BY <1>2 DEF FlowType, At, Flush, Same
<1>4. Outside \in FlowType /\ Outside.pc = "out"
  BY DEF FlowType, Outside, Outer, Late
<1> QED BY <1>1, <1>3, <1>4

\* A step of the flow in the profiler that changes its variables and the mode.
LEMMA MoveKeeps ==
    ASSUME ProfInv, NEW f \in Flows, NEW p, NEW q \in FlowType, NEW n, Move(f, p, q, n),
           Inside(f), n \in On \cup {"BOOTUP", "STOPPED", "BUSY"},
           Lands(q, n, events, top, dumped, logged, logging)
    PROVE  ProfInv'
<1>1. ~met /\ flow' = [flow EXCEPT ![f] = q] /\ mode' = n
  BY DEF Move, Followed
<1>2. UNCHANGED <<events, top, dumped, wild, calls, logging, logged, met>>
  BY DEF Move, log_vars, asked_vars
<1>3. /\ ~wild /\ calls \in Nat /\ logging \in BOOLEAN /\ Alone(f)
      /\ Log(mode, events, top, dumped, logged)
  BY <1>1, InTheProfiler
<1>4. Log(mode, events, top, dumped, logged)'
  BY <1>1, <1>2, <1>3 DEF Log, Logs
<1>5. Lands(q, mode', events', top', dumped', logged', logging')
  BY <1>1, <1>2
<1>6. ~wild' /\ calls' \in Nat /\ logging' \in BOOLEAN
  BY <1>2, <1>3
<1> QED BY <1>1, <1>3, <1>4, <1>5, <1>6, SeatKept

\* Steps of npkprintf, dump_events and flush_events.
LEMMA FlushKeeps == ASSUME ProfInv, NEW f \in Flows, flush_events(f) PROVE ProfInv'
<1> DEFINE r == flow[f]
<1>1. ~met
  BY DEF flush_events, FlushEvents, dump_events, EmptyLog, SaveMode, SetBusy, kprintf, Move, Followed
<1>2. r \in FlowType /\ Log(mode, events, top, dumped, logged) /\ ~wild /\ calls \in Nat /\ logging \in BOOLEAN
  BY <1>1, InTheProfiler
<1>3. r.pc \in Flushing
  BY DEF flush_events, FlushEvents, dump_events, EmptyLog, SaveMode, SetBusy, kprintf, Move,
         Flushing, Printing
<1>4. /\ Inside(f) /\ Alone(f) /\ Asked(r, mode, logging)
      /\ Setting(r, mode, events, top, dumped, logged)
  <2>1. Inside(f)
    BY <1>3 DEF Inside, Flushing, Printing
  <2> QED BY <1>1, <2>1, InTheProfiler
<1>5. /\ mode \in On \cup {"BOOTUP", "STOPPED", "BUSY"} /\ top \in Nat
      /\ r.ret \in Early \cup Late
  BY <1>2, ProfilerAssumption DEF Log, FlowType
<1>6. CASE FlushEvents(f)
  <2> DEFINE q == [At(r, "dump") EXCEPT !.t = top, !.i = 0]
  <2>1. q \in FlowType /\ q.pc = "dump" /\ q.t = top /\ q.i = 0 /\ q.ret = r.ret /\ Same(q, r)
    BY <1>2, <1>5 DEF FlowType, At, Same, Flushing
  <2>2. r.pc = "flush" /\ Move(f, "flush", q, mode)
    BY <1>6 DEF FlushEvents, Move
  <2> HIDE DEF q
  <2>3. Lands(q, mode, events, top, dumped, logged, logging)
    BY <1>4, <2>1, <2>2, FlushMoves
  <2> QED BY <1>4, <1>5, <2>1, <2>2, <2>3, MoveKeeps
<1>7. CASE dump_events(f)
  <2> DEFINE q == At(r, "npkprintf")
  <2>1. q \in FlowType /\ q.pc = "npkprintf" /\ q.t = r.t /\ q.i = r.i /\ q.ret = r.ret /\ Same(q, r)
    BY <1>2, <1>5, Stepped DEF Flushing, Printing
  <2>2. r.pc = "dump" /\ r.i < r.t /\ Move(f, "dump", q, mode)
    BY <1>7 DEF dump_events, Move
  <2> HIDE DEF q
  <2>3. Lands(q, mode, events, top, dumped, logged, logging)
    BY <1>4, <2>1, <2>2, FlushMoves
  <2> QED BY <1>4, <1>5, <2>1, <2>2, <2>3, MoveKeeps
<1>8. CASE SaveMode(f)
  <2> DEFINE q == [At(r, "busy") EXCEPT !.saved = mode]
  <2>1. /\ q \in FlowType /\ q.pc = "busy" /\ q.t = r.t /\ q.i = r.i /\ q.ret = r.ret /\ Same(q, r)
        /\ q.saved = mode
    BY <1>2, <1>5 DEF FlowType, At, Same, Flushing, Printing
  <2>2. r.pc = "npkprintf" /\ Move(f, "npkprintf", q, mode)
    BY <1>8 DEF SaveMode, Move
  <2> HIDE DEF q
  <2>3. Lands(q, mode, events, top, dumped, logged, logging)
    BY <1>4, <2>1, <2>2, FlushMoves
  <2> QED BY <1>4, <1>5, <2>1, <2>2, <2>3, MoveKeeps
<1>9. CASE SetBusy(f)
  <2> DEFINE q == At(r, "kprintf")
             n == "BUSY"
  <2>1. /\ q \in FlowType /\ q.pc = "kprintf" /\ q.t = r.t /\ q.i = r.i /\ q.ret = r.ret /\ Same(q, r)
        /\ q.saved = r.saved
    BY <1>2, <1>5, Stepped DEF Flushing, Printing
  <2>2. r.pc = "busy" /\ Move(f, "busy", q, n) /\ n = "BUSY" /\ n \in On \cup {"BOOTUP", "STOPPED", "BUSY"}
    BY <1>9 DEF SetBusy, Move
  <2> HIDE DEF q, n
  <2>3. Lands(q, n, events, top, dumped, logged, logging)
    BY <1>4, <2>1, <2>2, FlushMoves
  <2> QED BY <1>4, <2>1, <2>2, <2>3, MoveKeeps
<1>10. CASE EmptyLog(f)
  <2> DEFINE q == IF r.ret = "out" THEN Outside ELSE At(r, r.ret)
             z == 0
  <2>1. q \in FlowType /\ IF r.ret = "out" THEN q.pc = "out"
                          ELSE Same(q, r) /\ q.pc = r.ret /\ q.ret = r.ret
    BY <1>2, <1>5, Stepped
  <2>2. /\ r.pc = "dump" /\ r.i >= r.t /\ top' = z /\ flow' = [flow EXCEPT ![f] = q]
        /\ UNCHANGED <<mode, events, dumped, wild, calls, logging, logged, met>>
    BY <1>10 DEF EmptyLog, asked_vars
  <2> HIDE DEF q
  <2>3. Log(mode, events, z, dumped, logged) /\ Lands(q, mode, events, z, dumped, logged, logging)
    BY <1>4, <2>1, <2>2, EmptyLands
  <2> HIDE DEF z
  <2>4. /\ Log(mode, events, top, dumped, logged)'
        /\ Lands(q, mode', events', top', dumped', logged', logging')
    BY <2>2, <2>3 DEF Log, Logs
  <2>5. ~wild' /\ calls' \in Nat /\ logging' \in BOOLEAN
    BY <1>2, <2>2
  <2> QED BY <1>1, <1>4, <2>1, <2>2, <2>4, <2>5, SeatKept
<1>11. CASE kprintf(f) /\ r.ret = "booted"
  <2> DEFINE q == At(r, "booted")
  <2>1. q \in FlowType /\ Same(q, r) /\ q.pc = "booted" /\ q.ret = r.ret
    BY <1>2, <1>5, Stepped DEF Early
  <2>2. /\ r.pc = "kprintf" /\ mode' = r.saved /\ flow' = [flow EXCEPT ![f] = q]
        /\ UNCHANGED <<events, top, dumped, wild, calls, logging, logged, met>>
    BY <1>11 DEF kprintf, asked_vars
  <2> HIDE DEF q
  <2>3. /\ Log(r.saved, events, top, dumped, logged)
        /\ Lands(q, r.saved, events, top, dumped, logged, logging)
    BY <1>4, <1>11, <2>1, <2>2, BootLineLands
  <2>4. /\ Log(mode, events, top, dumped, logged)'
        /\ Lands(q, mode', events', top', dumped', logged', logging')
    BY <2>2, <2>3 DEF Log, Logs
  <2>5. ~wild' /\ calls' \in Nat /\ logging' \in BOOLEAN
    BY <1>2, <2>2
  <2> QED BY <1>1, <1>4, <2>1, <2>2, <2>4, <2>5, SeatKept
<1>12. CASE kprintf(f) /\ r.ret # "booted"
  <2> DEFINE q == [At(r, "dump") EXCEPT !.i = r.i + 1]
             d == Append(dumped, events[r.i + 1])
  <2>1. /\ q \in FlowType /\ Same(q, r) /\ q.pc = "dump" /\ q.ret = r.ret /\ q.t = r.t
        /\ q.i = r.i + 1
    <3> DEFINE a == At(r, "dump")
               j == r.i + 1
    <3>1. /\ a \in FlowType /\ Same(a, r) /\ a.pc = "dump" /\ a.ret = r.ret /\ a.t = r.t
      BY <1>2, <1>5, Stepped DEF Flushing
    <3>2. j \in Nat
      BY <1>2, <1>5 DEF FlowType
    <3> HIDE DEF a, j
    <3>3. LET b == [a EXCEPT !.i = j]
          IN  /\ b \in FlowType /\ Same(b, a) /\ b.pc = a.pc /\ b.ret = a.ret /\ b.t = a.t
              /\ b.i = j
      BY <3>1, <3>2 DEF FlowType, Same
    <3> QED BY <3>1, <3>3 DEF a, j, Same
  <2>2. /\ r.pc = "kprintf" /\ mode' = r.saved /\ flow' = [flow EXCEPT ![f] = q] /\ dumped' = d
        /\ UNCHANGED <<events, top, wild, calls, logging, logged, met>>
    BY <1>12 DEF kprintf, asked_vars
  <2> HIDE DEF q
  <2>3. /\ Log(r.saved, events, top, d, logged)
        /\ Lands(q, r.saved, events, top, d, logged, logging)
    BY <1>4, <1>12, <2>1, <2>2, LineLands
  <2> HIDE DEF d
  <2>4. /\ Log(mode, events, top, dumped, logged)'
        /\ Lands(q, mode', events', top', dumped', logged', logging')
    BY <2>2, <2>3 DEF Log, Logs
  <2>5. ~wild' /\ calls' \in Nat /\ logging' \in BOOLEAN
    BY <1>2, <2>2
  <2> QED BY <1>1, <1>4, <2>1, <2>2, <2>4, <2>5, SeatKept
<1> QED BY <1>6, <1>7, <1>8, <1>9, <1>10, <1>11, <1>12 DEF flush_events

\* The steps of do_profile of a flow in the profiler that leave the log alone.
LEMMA DoMovesKeep ==
    ASSUME ProfInv, NEW f \in Flows,
           CheckMode(f) \/ Booted(f) \/ Started(f) \/ log_event(f) \/ Logged(f) \/ Stop(f) \/ Stopped(f)
    PROVE  ProfInv'
<1> DEFINE r == flow[f]
           M == On \cup {"BOOTUP", "STOPPED", "BUSY"}
           Home(q, n) == Lands(q, n, events, top, dumped, logged, logging)
<1>1. ~met /\ r.pc \in {"check_mode", "booted", "started", "log", "logged", "stop", "stopped"}
  BY DEF CheckMode, Booted, Started, log_event, Logged, Stop, Stopped, Move, Followed
<1>2. Inside(f)
  BY <1>1 DEF Inside
<1>3. /\ r \in FlowType /\ Asked(r, mode, logging) /\ Setting(r, mode, events, top, dumped, logged)
      /\ mode \in M /\ "STOPPED" \in M /\ "RUNNING" \in M
  BY <1>1, <1>2, InTheProfiler DEF Log, On
<1>4. \A p \in {"check_mode", "started", "log", "fill", "stop", "stopped"} :
         At(r, p) \in FlowType /\ At(r, p).pc = p /\ Same(At(r, p), r)
  <2> TAKE p \in {"check_mode", "started", "log", "fill", "stop", "stopped"}
  <2>1. p \in Outer \cup Flushing \cup Early \cup Late /\ "stop" \in Early \cup Late
    BY DEF Early, Late
  <2> HIDE DEF r
  <2> QED BY <1>3, <2>1, Stepped
<1>5. \A p \in {"started", "stop", "stopped"} :
         /\ Flush(r, p) \in FlowType /\ Flush(r, p).pc = "flush" /\ Flush(r, p).ret = p
         /\ Same(Flush(r, p), r)
  <2> TAKE p \in {"started", "stop", "stopped"}
  <2>1. p \in Early \cup Late
    BY DEF Early, Late
  <2> HIDE DEF r
  <2> QED BY <1>3, <2>1, Stepped
<1>6. Outside \in FlowType /\ Outside.pc = "out"
  BY <1>3, Stepped DEF Outer, Early
<1>7. \A q \in FlowType, n \in M : \A p : Move(f, p, q, n) /\ Home(q, n) => ProfInv'
  BY <1>2, MoveKeeps
<1>8. ModeFits(r, mode) /\ LogFits(r, events, top) /\ Place(r) = r.pc
  BY <1>1, <1>3 DEF Setting, Stage, ModeOf, Place, Flushing, Printing
<1> HIDE DEF Home
<1>9. CASE Booted(f)
  <2>1. r.pc = "booted" /\ Move(f, "booted", At(r, "check_mode"), "STOPPED")
    BY <1>9 DEF Booted, Move
  <2>2. Home(At(r, "check_mode"), "STOPPED")
    BY <1>3, <1>4, <2>1, PlainMoves DEF Home
  <2> QED BY <1>3, <1>4, <1>7, <2>1, <2>2
<1>10. CASE Started(f)
  <2>1. r.pc = "started" /\ Move(f, "started", At(r, "check_mode"), "RUNNING")
    BY <1>10 DEF Started, Move
  <2>2. Home(At(r, "check_mode"), "RUNNING")
    BY <1>3, <1>4, <2>1, PlainMoves DEF Home
  <2> QED BY <1>3, <1>4, <1>7, <2>1, <2>2
<1>11. CASE log_event(f)
  <2>1. r.pc = "log"
    BY <1>11 DEF log_event, Move
  <2>2. ~overflow
    BY <1>3, <1>8, <2>1, ProfilerAssumption DEF LogFits, overflow, Flushing, Printing, Setting, Log
  <2>3. Move(f, "log", At(r, "fill"), mode)
    BY <1>11, <2>2 DEF log_event
  <2>4. Home(At(r, "fill"), mode)
    BY <1>3, <1>4, <2>1, PlainMoves DEF Home
  <2> QED BY <1>3, <1>4, <1>7, <2>3, <2>4
<1>12. CASE Logged(f)
  <2>1. r.pc = "logged"
    BY <1>12 DEF Logged, Move
  <2>2. CASE mode = "NEEDFLUSH"
    <3>1. Move(f, "logged", Flush(r, "stop"), mode)
      BY <1>12, <2>2 DEF Logged
    <3>2. Home(Flush(r, "stop"), mode)
      BY <1>3, <1>5, <2>1, <2>2, IntoFlush DEF Home
    <3> QED BY <1>3, <1>5, <1>7, <3>1, <3>2
  <2>3. CASE mode # "NEEDFLUSH"
    <3>1. Move(f, "logged", At(r, "stop"), mode)
      BY <1>12, <2>3 DEF Logged
    <3>2. Home(At(r, "stop"), mode)
      BY <1>3, <1>4, <2>1, <2>3, PlainMoves DEF Home
    <3> QED BY <1>3, <1>4, <1>7, <3>1, <3>2
  <2> QED BY <2>2, <2>3
<1>13. CASE Stop(f)
  <2>1. r.pc = "stop"
    BY <1>13 DEF Stop, Move
  <2>2. CASE Triggered(r.fn, r.type, "PROF_STOP")
    <3>1. Home(Flush(r, "stopped"), mode)
      BY <1>3, <1>5, <2>1, <2>2, IntoFlush DEF Home
    <3>2. Home(At(r, "stopped"), mode)
      BY <1>3, <1>4, <2>1, <2>2, PlainMoves DEF Home
    <3>3. Move(f, "stop", Flush(r, "stopped"), mode) \/ Move(f, "stop", At(r, "stopped"), mode)
      BY <1>13, <2>2 DEF Stop, AfterTrigger
    <3> QED BY <1>3, <1>4, <1>5, <1>7, <3>1, <3>2, <3>3
  <2>3. CASE ~Triggered(r.fn, r.type, "PROF_STOP")
    <3>1. Move(f, "stop", Outside, mode)
      BY <1>13, <2>3 DEF Stop
    <3>2. Home(Outside, mode)
      BY <1>3, <1>6, <2>1, <2>3, Leaves DEF Home
    <3> QED BY <1>3, <1>6, <1>7, <3>1, <3>2
  <2> QED BY <2>2, <2>3
<1>14. CASE Stopped(f)
  <2>1. r.pc = "stopped" /\ Move(f, "stopped", Outside, "STOPPED")
    BY <1>14 DEF Stopped, Move
  <2>2. Home(Outside, "STOPPED")
    BY <1>3, <1>6, <2>1, Leaves DEF Home
  <2> QED BY <1>3, <1>6, <1>7, <2>1, <2>2
<1>15. CASE CheckMode(f)
  <2>1. r.pc = "check_mode" /\ Move(f, "check_mode", CaseOf(r), mode) /\ mode \in {"STOPPED", "RUNNING"}
    <3>1. r.pc = "check_mode"
      BY <1>15 DEF CheckMode, Move
    <3>2. mode \in {"STOPPED", "RUNNING"}
      BY <1>8, <3>1 DEF ModeFits
    <3>3. mode # "BUSY" /\ mode # "BOOTUP"
      BY <3>2
    <3> QED BY <1>15, <3>1, <3>2, <3>3 DEF CheckMode
  <2>2. CASE mode = "RUNNING"
    <3>1. CaseOf(r) = At(r, "log")
      BY <2>2 DEF CaseOf
    <3>2. Home(At(r, "log"), mode)
      BY <1>3, <1>4, <2>1, <2>2, PlainMoves DEF Home
    <3> QED BY <1>3, <1>4, <1>7, <2>1, <3>1, <3>2
  <2>3. CASE mode = "STOPPED" /\ Triggered(r.fn, r.type, "PROF_START")
    <3>1. CaseOf(r) \in {Flush(r, "started"), At(r, "started")}
      BY <2>3 DEF CaseOf, AfterTrigger
    <3>2. Home(Flush(r, "started"), mode)
      BY <1>3, <1>5, <2>1, <2>3, IntoFlush DEF Home
    <3>3. Home(At(r, "started"), mode)
      BY <1>3, <1>4, <2>1, <2>3, PlainMoves DEF Home
    <3> QED BY <1>3, <1>4, <1>5, <1>7, <2>1, <3>1, <3>2, <3>3
  <2>4. CASE mode = "STOPPED" /\ ~Triggered(r.fn, r.type, "PROF_START")
    <3>1. CaseOf(r) = Outside
      BY <2>4 DEF CaseOf
    <3>2. Home(Outside, mode)
      BY <1>3, <1>6, <2>1, <2>4, Leaves DEF Home
    <3> QED BY <1>3, <1>6, <1>7, <2>1, <3>1, <3>2
  <2> QED BY <2>1, <2>2, <2>3, <2>4
<1> QED BY <1>9, <1>10, <1>11, <1>12, <1>13, <1>14, <1>15

\* The two writes of log_event.
LEMMA WritesKeep ==
    ASSUME ProfInv, NEW f \in Flows, FillEvent(f) \/ CountEvent(f)
    PROVE  ProfInv'
<1> DEFINE r == flow[f]
           M == On \cup {"BOOTUP", "STOPPED", "BUSY"}
<1>1. ~met /\ r.pc \in {"fill", "count"}
  BY DEF FillEvent, CountEvent, Followed
<1>2. Inside(f)
  BY <1>1 DEF Inside
<1>3. /\ r \in FlowType /\ Asked(r, mode, logging) /\ Setting(r, mode, events, top, dumped, logged)
      /\ Alone(f) /\ ~wild /\ calls \in Nat /\ logging \in BOOLEAN
      /\ flow \in [Flows -> FlowType]
  BY <1>1, <1>2, InTheProfiler DEF ProfInv
<1>4. events \in Logs /\ top \in Nat /\ r.e \in Nat
  BY <1>3, ProfilerAssumption DEF Setting, Log, FlowType
<1>5. CASE FillEvent(f)
  <2> DEFINE q == At(r, "count")
             new == [i \in 1..PROFBUF_MAX |-> IF i = top + 1 THEN r.e ELSE events[i]]
  <2>1. q \in FlowType /\ q.pc = "count" /\ Same(q, r)
    <3>1. "count" \in Outer \cup Flushing \cup Early \cup Late /\ "stop" \in Early \cup Late
      BY DEF Early, Late
    <3> QED BY <1>3, <3>1, Stepped
  <2>2. /\ r.pc = "fill" /\ events' = new /\ wild' = (top >= PROFBUF_MAX)
        /\ flow' = [flow EXCEPT ![f] = q]
        /\ UNCHANGED <<mode, top, dumped, calls, logging, logged, met>>
    BY <1>5 DEF FillEvent, asked_vars
  <2>3. top < PROFBUF_MAX
    BY <1>3, <2>2 DEF Setting, Stage, LogFits, Place, Flushing, Printing
  <2>4. new \in Logs /\ new[top + 1] = r.e /\ \A i \in 1..top : new[i] = events[i]
    BY <1>4, <2>3, ProfilerAssumption DEF Logs
  <2> HIDE DEF q, new
  <2>5. Log(mode, new, top, dumped, logged) /\ Lands(q, mode, new, top, dumped, logged, logging)
    BY <1>3, <2>1, <2>2, <2>4, FillLands
  <2>6. /\ Log(mode, events, top, dumped, logged)'
        /\ Lands(q, mode', events', top', dumped', logged', logging')
    BY <2>2, <2>5 DEF Log, Logs
  <2>7. ~wild' /\ calls' \in Nat /\ logging' \in BOOLEAN
    <3>1. ~(top >= PROFBUF_MAX)
      BY <1>4, <2>3, ProfilerAssumption
    <3>2. ~wild'
      BY <2>2, <3>1
    <3> QED BY <1>3, <2>2, <3>2
  <2> QED BY <1>1, <1>3, <2>1, <2>2, <2>6, <2>7, SeatKept
<1>6. CASE CountEvent(f)
  <2> DEFINE q == At(r, "logged")
             k == top + 1
             n == IF k = PROFBUF_MAX THEN "NEEDFLUSH" ELSE mode
  <2>1. q \in FlowType /\ q.pc = "logged" /\ Same(q, r)
    <3>1. "logged" \in Outer \cup Flushing \cup Early \cup Late /\ "stop" \in Early \cup Late
      BY DEF Early, Late
    <3> QED BY <1>3, <3>1, Stepped
  <2>2. /\ r.pc = "count" /\ wild' = (top >= PROFBUF_MAX) /\ top' = k /\ mode' = n
        /\ flow' = [flow EXCEPT ![f] = q]
        /\ UNCHANGED <<events, dumped, calls, logging, logged, met>>
    BY <1>6 DEF CountEvent, asked_vars
  <2>3. top < PROFBUF_MAX
    BY <1>3, <2>2 DEF Setting, Stage, LogFits, Place, Flushing, Printing
  <2> HIDE DEF q
  <2>4. Log(n, events, k, dumped, logged) /\ Lands(q, n, events, k, dumped, logged, logging)
    BY <1>3, <2>1, <2>2, CountLands
  <2> HIDE DEF n, k
  <2>5. /\ Log(mode, events, top, dumped, logged)'
        /\ Lands(q, mode', events', top', dumped', logged', logging')
    BY <2>2, <2>4 DEF Log, Logs
  <2>6. ~wild' /\ calls' \in Nat /\ logging' \in BOOLEAN
    <3>1. ~(top >= PROFBUF_MAX)
      BY <1>4, <2>3, ProfilerAssumption
    <3>2. ~wild'
      BY <2>2, <3>1
    <3> QED BY <1>3, <2>2, <3>2
  <2> QED BY <1>1, <1>3, <2>1, <2>2, <2>5, <2>6, SeatKept
<1> QED BY <1>5, <1>6

\* A call or a SYSRQ-y, and a call that finds the profiler busy or the kernel booting.
LEMMA ComesKeep ==
    ASSUME ProfInv, NEW f \in Flows, NEW q \in FlowType, q.pc \in Outer, ~Inside(f), ~met,
           flow' = [flow EXCEPT ![f] = q], calls' \in Nat,
           UNCHANGED <<mode, log_vars, wild, asked_vars>>
    PROVE  ProfInv'
  BY OthersKept DEF log_vars, asked_vars

\* A call that passes the switch, or the case PROFILER_BOOTUP when the machine runs.
LEMMA PassesKeep ==
    ASSUME ProfInv, NEW f \in Flows, ~Inside(f), ~met, Passes(f, mode),
           NEW s \in FlowType, s.fn = flow[f].fn, s.type = flow[f].type, s.e = flow[f].e,
           s.own = Own(flow[f]), NEW q \in FlowType,
           flow' = [flow EXCEPT ![f] = q], UNCHANGED <<mode, log_vars, wild, calls>>,
           \/ /\ mode = "BOOTUP" /\ q.pc = "npkprintf" /\ q.ret = "booted" /\ Same(q, s)
           \/ /\ mode = "RUNNING" /\ q.pc = "log" /\ Same(q, s)
           \/ /\ mode = "NEEDFLUSH" /\ q.pc = "flush" /\ q.ret = "log" /\ Same(q, s)
           \/ /\ mode = "STOPPED" /\ Triggered(s.fn, s.type, "PROF_START") /\ Same(q, s)
              /\ q.pc = "started" \/ (q.pc = "flush" /\ q.ret = "started")
           \/ /\ mode = "STOPPED" /\ ~Triggered(s.fn, s.type, "PROF_START") /\ q.pc = "out"
    PROVE  ProfInv'
<1> DEFINE r == flow[f]
<1>1. /\ met' = (~Alone(f) \/ mode # mode) /\ logged' = logged \o Own(r)
      /\ logging' = (Due(r) /\ ~Triggered(r.fn, r.type, "PROF_STOP"))
      /\ UNCHANGED <<mode, events, top, dumped, wild, calls>>
  BY DEF Passes, log_vars
<1>2. CASE met'
  BY <1>2 DEF ProfInv
<1>3. CASE ~met'
  <2>1. Alone(f)
    BY <1>1, <1>3
  <2>2. /\ ~wild /\ calls \in Nat /\ Log(mode, events, top, dumped, logged)
        /\ AtRest(mode, events, top, dumped, logged) /\ (logging <=> mode \in On)
    BY <2>1, InTheProfiler
  <2>3. ~wild' /\ calls' \in Nat /\ logging' \in BOOLEAN
    BY <1>1, <2>2
  <2>4. Due(r) <=> mode \in On \/ Triggered(s.fn, s.type, "PROF_START")
    BY <2>2 DEF Due
  <2>5. s.own = (IF Due(r) THEN <<s.e>> ELSE <<>>) /\ logged' = logged \o s.own
    BY <1>1 DEF Own
  <2>6. Due(r) <=> s.own # <<>>
    BY <2>5
  <2>7. logging' <=> s.own # <<>> /\ ~Triggered(s.fn, s.type, "PROF_STOP")
    BY <1>1, <2>6
  <2>8. CASE mode = "STOPPED" /\ ~Triggered(s.fn, s.type, "PROF_START")
    <3>1. q.pc = "out" /\ ~Due(r) /\ ~logging' /\ mode \notin On
      BY <1>1, <2>4, <2>8 DEF On
    <3>2. logged' = logged
      <4>1. logged \in Seq(Nat)
        BY <2>2 DEF Log
      <4>2. logged \o <<>> = logged
        BY <4>1, ConcatEmptySeq
      <4> QED BY <2>5, <3>1, <4>2
    <3>3. /\ Log(mode, events, top, dumped, logged)'
          /\ AtRest(mode, events, top, dumped, logged)' /\ (logging' <=> mode' \in On)
      BY <1>1, <2>2, <3>1, <3>2 DEF Log, Logs, AtRest
    <3>4. Lands(q, mode', events', top', dumped', logged', logging')
      BY <3>1, <3>3 DEF Lands, Outer, AtRest
    <3> QED BY <2>1, <2>3, <3>3, <3>4, SeatKept
  <2>9. CASE ~(mode = "STOPPED" /\ ~Triggered(s.fn, s.type, "PROF_START"))
    <3> DEFINE l == logged \o q.own
               on == logging'
    <3>1. q.own = s.own /\ q.fn = s.fn /\ q.type = s.type /\ q.e = s.e
      BY <2>9 DEF Same
    <3>2. on <=> q.own # <<>> /\ ~Triggered(q.fn, q.type, "PROF_STOP")
      BY <2>7, <3>1
    <3>3. mode # "BOOTUP" => q.own = <<q.e>>
      BY <2>4, <2>5, <2>9, <3>1 DEF On
    <3>4. mode = "BOOTUP" =>
             q.own = IF Triggered(q.fn, q.type, "PROF_START") THEN <<q.e>> ELSE <<>>
      BY <2>4, <2>5, <3>1 DEF On
    <3> HIDE DEF on
    <3>5. Log(mode, events, top, dumped, l) /\ Lands(q, mode, events, top, dumped, l, on)
      BY <2>2, <2>9, <3>2, <3>3, <3>4, Enters
    <3>6. logged' = l
      BY <2>5, <3>1
    <3> HIDE DEF l
    <3>7. /\ Log(mode, events, top, dumped, logged)'
          /\ Lands(q, mode', events', top', dumped', logged', logging')
      BY <1>1, <3>5, <3>6 DEF Log, Logs, on
    <3> QED BY <2>1, <2>3, <3>7, SeatKept
  <2> QED BY <2>8, <2>9
<1> QED BY <1>2, <1>3

\* The flow with the history of whether its event is due.
LEMMA OwnType ==
    ASSUME NEW r \in FlowType
    PROVE  LET s == [r EXCEPT !.own = Own(r)]
               q == [r EXCEPT !.pc = "npkprintf", !.ret = "booted", !.own = Own(r)]
           IN  /\ s \in FlowType /\ s.fn = r.fn /\ s.type = r.type /\ s.e = r.e /\ s.own = Own(r)
               /\ q \in FlowType /\ q.pc = "npkprintf" /\ q.ret = "booted" /\ Same(q, s)
<1> DEFINE o == Own(r)
           R == Early \cup Late
           P == Outer \cup Flushing \cup R
<1>1. o \in Seq(Nat)
  <2>1. r.e \in Nat
    BY DEF FlowType
  <2>2. <<r.e>> \in Seq(Nat)
    BY <2>1
  <2>3. <<>> \in Seq(Nat)
    OBVIOUS
  <2> QED BY <2>2, <2>3 DEF Own
<1>2. "npkprintf" \in P /\ "booted" \in R
  BY DEF Flushing, Printing, Early
<1>3. FlowType = [pc : P, fn : Funcs \cup {"none"}, type : Types \cup {"none"}, e : Nat,
                  own : Seq(Nat), t : Nat, i : Nat,
                  saved : On \cup {"BOOTUP", "STOPPED", "BUSY", "none"}, ret : R]
  BY DEF FlowType
<1> HIDE DEF o, P, R
<1>4. LET s == [r EXCEPT !.own = o]
          q == [r EXCEPT !.pc = "npkprintf", !.ret = "booted", !.own = o]
      IN  /\ s \in FlowType /\ s.fn = r.fn /\ s.type = r.type /\ s.e = r.e /\ s.own = o
          /\ q \in FlowType /\ q.pc = "npkprintf" /\ q.ret = "booted" /\ Same(q, s)
  BY <1>1, <1>2, <1>3 DEF Same
<1> QED BY <1>4 DEF o

LEMMA SwitchKeeps == ASSUME ProfInv, NEW f \in Flows, Switch(f) PROVE ProfInv'
<1> DEFINE r == flow[f]
           s == [r EXCEPT !.own = Own(r)]
<1>1. /\ ~met /\ r.pc = "switch" /\ ~Inside(f)
      /\ UNCHANGED <<mode, log_vars, wild, calls>>
  BY DEF Switch, Followed, Inside
<1>2. r \in FlowType /\ calls \in Nat /\ calls' \in Nat /\ mode \in On \cup {"BOOTUP", "STOPPED", "BUSY"}
  BY <1>1, InTheProfiler DEF Log
<1>3. /\ Outside \in FlowType /\ Outside.pc = "out" /\ Outside.pc \in Outer
      /\ At(r, "bootup") \in FlowType /\ At(r, "bootup").pc \in Outer
  BY <1>2, Stepped DEF Outer, Early
<1>4. s \in FlowType /\ s.fn = r.fn /\ s.type = r.type /\ s.e = r.e /\ s.own = Own(r)
  BY <1>2, OwnType
<1>5. CASE mode = "BUSY"
  <2>1. flow' = [flow EXCEPT ![f] = Outside] /\ UNCHANGED asked_vars
    BY <1>5 DEF Switch
  <2> QED BY <1>1, <1>2, <1>3, <2>1, ComesKeep
<1>6. CASE mode = "BOOTUP"
  <2>1. flow' = [flow EXCEPT ![f] = At(r, "bootup")] /\ UNCHANGED asked_vars
    BY <1>6 DEF Switch
  <2> QED BY <1>1, <1>2, <1>3, <2>1, ComesKeep
<1>7. CASE mode \notin {"BUSY", "BOOTUP"}
  <2>1. flow' = [flow EXCEPT ![f] = CaseOf(s)] /\ Passes(f, mode)
    BY <1>7 DEF Switch
  <2> HIDE DEF s
  <2>2. /\ At(s, "log") \in FlowType /\ At(s, "log").pc = "log" /\ Same(At(s, "log"), s)
        /\ Flush(s, "log") \in FlowType /\ Flush(s, "log").pc = "flush"
        /\ Flush(s, "log").ret = "log" /\ Same(Flush(s, "log"), s)
    BY <1>4, Stepped DEF Early
  <2>3. /\ At(s, "started") \in FlowType /\ At(s, "started").pc = "started" /\ Same(At(s, "started"), s)
        /\ Flush(s, "started") \in FlowType /\ Flush(s, "started").pc = "flush"
        /\ Flush(s, "started").ret = "started" /\ Same(Flush(s, "started"), s)
    BY <1>4, Stepped DEF Early
  <2>4. CASE mode = "RUNNING"
    <3>1. CaseOf(s) = At(s, "log")
      BY <2>4 DEF CaseOf
    <3> QED BY <1>1, <1>4, <2>1, <2>2, <2>4, <3>1, PassesKeep
  <2>5. CASE mode = "NEEDFLUSH"
    <3>1. CaseOf(s) = Flush(s, "log")
      BY <2>5 DEF CaseOf
    <3> QED BY <1>1, <1>4, <2>1, <2>2, <2>5, <3>1, PassesKeep
  <2>6. CASE mode = "STOPPED" /\ Triggered(s.fn, s.type, "PROF_START")
    <3>1. CaseOf(s) \in {Flush(s, "started"), At(s, "started")}
      BY <2>6 DEF CaseOf, AfterTrigger
    <3>2. CASE CaseOf(s) = Flush(s, "started")
      BY <1>1, <1>4, <2>1, <2>3, <2>6, <3>2, PassesKeep
    <3>3. CASE CaseOf(s) = At(s, "started")
      BY <1>1, <1>4, <2>1, <2>3, <2>6, <3>3, PassesKeep
    <3> QED BY <3>1, <3>2, <3>3
  <2>7. CASE mode = "STOPPED" /\ ~Triggered(s.fn, s.type, "PROF_START")
    <3>1. CaseOf(s) = Outside
      BY <2>7 DEF CaseOf
    <3> QED BY <1>1, <1>3, <1>4, <2>1, <2>7, <3>1, PassesKeep
  <2> QED BY <1>2, <1>7, <2>4, <2>5, <2>6, <2>7 DEF On
<1> QED BY <1>5, <1>6, <1>7

LEMMA BootupKeeps == ASSUME ProfInv, NEW f \in Flows, Bootup(f) PROVE ProfInv'
<1> DEFINE r == flow[f]
           s == [r EXCEPT !.own = Own(r)]
           q == [r EXCEPT !.pc = "npkprintf", !.ret = "booted", !.own = Own(r)]
<1>1. /\ ~met /\ r.pc = "bootup" /\ ~Inside(f)
      /\ UNCHANGED <<mode, log_vars, wild, calls>>
  BY DEF Bootup, Followed, Inside
<1>2. r \in FlowType /\ calls \in Nat /\ calls' \in Nat
  BY <1>1, InTheProfiler
<1>3. CASE ~mach_running
  <2>1. Outside \in FlowType /\ Outside.pc \in Outer
    BY <1>2, Stepped DEF Outer, Early
  <2>2. flow' = [flow EXCEPT ![f] = Outside] /\ UNCHANGED asked_vars
    BY <1>3 DEF Bootup
  <2> QED BY <1>1, <1>2, <2>1, <2>2, ComesKeep
<1>4. CASE mach_running
  <2>1. flow' = [flow EXCEPT ![f] = q] /\ Passes(f, "BOOTUP")
    BY <1>4 DEF Bootup
  <2>2. CASE mode = "BOOTUP"
    <3>1. /\ s \in FlowType /\ s.fn = r.fn /\ s.type = r.type /\ s.e = r.e /\ s.own = Own(r)
          /\ q \in FlowType /\ q.pc = "npkprintf" /\ q.ret = "booted" /\ Same(q, s)
      BY <1>2, OwnType
    <3>2. Passes(f, mode)
      BY <2>1, <2>2
    <3> HIDE DEF s, q
    <3> QED BY <1>1, <2>1, <2>2, <3>1, <3>2, PassesKeep
  <2>3. CASE mode # "BOOTUP"
    <3>1. met'
      BY <2>1, <2>3 DEF Passes
    <3> QED BY <3>1 DEF ProfInv
  <2> QED BY <2>2, <2>3
<1> QED BY <1>3, <1>4

LEMMA CallKeeps ==
    ASSUME ProfInv, NEW f \in Flows, NEW fn \in Funcs, NEW type \in Types, Call(f, fn, type)
    PROVE  ProfInv'
<1> DEFINE e == calls + 1
           q == [Outside EXCEPT !.pc = "switch", !.fn = fn, !.type = type, !.e = e]
<1>1. /\ ~met /\ ~Inside(f) /\ calls' = e /\ flow' = [flow EXCEPT ![f] = q]
      /\ UNCHANGED <<mode, log_vars, wild, asked_vars>>
  BY DEF Call, Followed, Inside
<1>2. e \in Nat
  BY <1>1, InTheProfiler
<1> HIDE DEF e
<1>3. q \in FlowType /\ q.pc \in Outer
  <2> DEFINE o == Outside
             P == Outer \cup Flushing \cup Early \cup Late
  <2>1. o \in FlowType
    BY DEF FlowType, Outside, Outer, Late
  <2>2. "switch" \in Outer /\ "switch" \in P
    BY DEF Outer
  <2>3. FlowType = [pc : P, fn : Funcs \cup {"none"}, type : Types \cup {"none"}, e : Nat,
                    own : Seq(Nat), t : Nat, i : Nat,
                    saved : On \cup {"BOOTUP", "STOPPED", "BUSY", "none"}, ret : Early \cup Late]
    BY DEF FlowType
  <2>4. q = [o EXCEPT !.pc = "switch", !.fn = fn, !.type = type, !.e = e]
    OBVIOUS
  <2> HIDE DEF o, q, P
  <2> QED BY <1>2, <2>1, <2>2, <2>3, <2>4
<1> HIDE DEF q
<1> QED BY <1>1, <1>2, <1>3, ComesKeep

LEMMA SysrqFlushKeeps == ASSUME ProfInv, NEW f \in Flows, SysrqFlush(f) PROVE ProfInv'
<1> DEFINE q == Flush(Outside, "out")
<1>1. /\ ~met /\ ~Inside(f) /\ calls' = calls + 1 /\ flow' = [flow EXCEPT ![f] = q]
      /\ met' = ~Alone(f) /\ UNCHANGED <<mode, events, top, dumped, wild, logging, logged>>
  BY DEF SysrqFlush, Followed, Inside, log_vars
<1>2. CASE met'
  BY <1>2 DEF ProfInv
<1>3. CASE ~met'
  <2>1. Alone(f)
    BY <1>1, <1>3
  <2>2. /\ flow[f] \in FlowType /\ ~wild /\ calls \in Nat /\ logging \in BOOLEAN
        /\ Log(mode, events, top, dumped, logged)
        /\ AtRest(mode, events, top, dumped, logged) /\ (logging <=> mode \in On)
    BY <1>1, <2>1, InTheProfiler
  <2>3. q \in FlowType /\ q.pc = "flush" /\ q.ret = "out"
    <3>1. "out" \in Outer \cup Flushing \cup Early \cup Late /\ "out" \in Early \cup Late
      BY DEF Outer, Late
    <3>2. Outside \in FlowType
      BY <2>2, <3>1, Stepped
    <3> QED BY <3>1, <3>2, Stepped
  <2> HIDE DEF q
  <2>4. Lands(q, mode, events, top, dumped, logged, logging)
    BY <2>2, <2>3, SysrqEnters
  <2>5. /\ Log(mode, events, top, dumped, logged)'
        /\ Lands(q, mode', events', top', dumped', logged', logging')
    BY <1>1, <2>2, <2>4 DEF Log, Logs
  <2>6. ~wild' /\ calls' \in Nat /\ logging' \in BOOLEAN
    BY <1>1, <2>2
  <2> QED BY <1>1, <2>1, <2>3, <2>5, <2>6, SeatKept
<1> QED BY <1>2, <1>3

LEMMA ProfUnchanged ==
    ASSUME ProfInv, UNCHANGED <<mode, log_vars, flow, wild, calls, asked_vars>>
    PROVE  ProfInv'
<1>1. UNCHANGED <<mode, events, top, dumped, flow, wild, calls, logging, logged, met>>
  BY DEF log_vars, asked_vars
<1>2. \A f \in Flows : (Inside(f)' <=> Inside(f)) /\ (Alone(f)' <=> Alone(f))
  BY <1>1 DEF Inside, Alone
<1> QED BY <1>1, <1>2 DEF ProfInv, Log, Logs

\* The invariant holds after any calls of any flows, in any order of their steps.
THEOREM ProfInvariance == ProfSpec => []ProfInv
<1>1. ProfInit => ProfInv
  <2> SUFFICES ASSUME ProfInit PROVE ProfInv
    OBVIOUS
  <2> DEFINE z == 0
             o == 1
  <2>1. /\ events \in Logs /\ top \in 0..PROFBUF_MAX /\ top < PROFBUF_MAX
        /\ dumped = <<>> /\ logged = <<>> /\ top = z
    BY ProfilerAssumption DEF ProfInit, Logs
  <2>2. SubSeq(events, o, z) = <<>>
    <3>1. z \in Int /\ o \in Int /\ z < o
      OBVIOUS
    <3> HIDE DEF z, o
    <3> QED BY <2>1, <3>1, SubSeqEmpty
  <2>3. dumped \o SubSeq(events, 1, top) = logged
    BY <2>1, <2>2
  <2>4. Outside \in FlowType /\ Outside.pc = "out"
    BY DEF FlowType, Outside, Outer, Late
  <2>5. flow \in [Flows -> FlowType] /\ \A f \in Flows : ~Inside(f)
    BY <2>4 DEF ProfInit, Inside
  <2>6. dumped \in Seq(Nat) /\ logged \in Seq(Nat)
    BY <2>1
  <2> QED BY <2>1, <2>3, <2>5, <2>6 DEF ProfInit, ProfInv, Log, AtRest, On
<1>2. ProfInv /\ [ProfNext]_prof_vars => ProfInv'
  <2> SUFFICES ASSUME ProfInv, [ProfNext]_prof_vars PROVE ProfInv'
    OBVIOUS
  <2>1. ASSUME NEW f \in Flows, do_profile(f) PROVE ProfInv'
    BY <2>1, SwitchKeeps, BootupKeeps, DoMovesKeep, WritesKeep DEF do_profile
  <2>2. CASE MachRunning
    BY <2>2, ProfUnchanged DEF MachRunning
  <2>3. CASE UNCHANGED prof_vars
    BY <2>3, ProfUnchanged DEF prof_vars
  <2> QED BY <2>1, <2>2, <2>3, CallKeeps, SysrqFlushKeeps, FlushKeeps DEF ProfNext
<1> QED BY <1>1, <1>2, PTL DEF ProfSpec

\* For every number of flows, every trigger table and every size of the log:
\* while no two flows have met in do_profile, each event from a start trigger to
\* the next stop trigger is printed or held once, in order.
THEOREM EventsAreLoggedOnce == ProfSpec => []EachEventOnce
<1>1. ProfInv => EachEventOnce
  BY DEF ProfInv, EachEventOnce, AtRest, On
<1> QED BY <1>1, ProfInvariance, PTL

=============================================================================
