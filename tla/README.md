# A TLA+ model of koowaldah

koowaldah is a small uniprocessor kernel for i386 with a C library for its
programs (klibc, which brings zlib along), the remains of an older library
(usr/libc) and a configuration tool.  This directory models their stateful and
concurrent parts in TLA+, checks them with TLC on small instances and proves the
central invariants with TLAPS for every value of the constants.

## 1. The system

There is one processor.  What makes the kernel hard is who may interrupt whom:

* a **system call** enters through an interrupt gate (`arch/i386/trap.c`, vector
  0x40).  Interrupts stay off, so it runs undisturbed from one
  `scheduler_yield` to the next;
* a **kernel thread** starts with interrupts on (`thread_init_stack` in
  `arch/i386/thread.c`) and can be preempted anywhere outside a
  `local_irq_save` section;
* a **page fault** enters through a trap gate and is preemptible as well;
* an **interrupt handler** runs to its end; `sched0_tick` may ask for a switch,
  which `asm/irq.S` performs on the way out.

A step of a kernel model is what cannot be divided under these rules.  A program
is sequential: a step of a library model is a call, or one turn of a loop whose
system calls can be cut short, fail or be interrupted, or whose allocations can
fail.

How the parts use each other: everything that waits (mutex, pipes, messages,
timers, drivers) sits on thread queues, and these on the intrusive lists of
`klist0.h`; the scheduler moves threads between them.  Every kernel object comes
from the slice allocator or `galloc`, and their pages, like those of processes,
pipes, files and byte queues, from the page allocator.  Files lead to devices
and pipes.  The library reaches the kernel by system calls only.

## 2. Modules and the code they model

`PROJECT.json` maps each definition to its lines; a helper whose lines lie inside
those of a mapped definition is not listed separately.  Definitions keep the names of
the functions they model; a step inside a function is named after the function.

| Module | Code | State and actions |
|---|---|---|
| `Klist0` | `include/klist0.h`, `kernel/thread_queue.c` | All lists that one node field can be on are one function from heads to sequences.  `klist0_append` inserts at the front, `klist0_prepend` at the back, as in the source. |
| `QueueLinks` | the same | The `prev` and `next` pointers themselves, `krunq_head`, and every function of `thread_queue.c` assignment by assignment; shows that the view of `Klist0` is right. |
| `Sched0` | `kernel/sched0.c`, `scheduler.c`, `thread.c`, `exec.c`, `arch/i386/irq.c` | Run queue, wait queues, quantum, `CURRENT`, `next_thread`; `pc` says where a thread is in `sched0_dequeue` and `sched0_yield`, cut where an interrupt can come in.  `Tick` is `main_irq_handler`, `sched0_tick` and the deferred switch. |
| `Irq` | `arch/i386/irq.c`, `pic.c`, `i8259`, timer | Masks and pending requests of two controllers, the handler table, requests to take and give back a line.  The controllers are external. |
| `PageAlloc`, `PageList` | `kernel/page_alloc.c`, `mm_zone.c` | `level` is `alloc_levels`, `order` is `private.order`, `area` the page lists of callers.  Splitting and merging are steps of their own; only callers in `Preemptible` can be interrupted between them. |
| `Slice` | `kernel/slice.c`, `include/bitmap.h`, `kernel/lib/bitmap.c` | The two page lists of a pool and the bit maps, word by word, with shift counts reduced as the processor does and the first word of the next page. |
| `Galloc` | `kernel/galloc.c` | Which pool or order serves a size, the header in front of the chunk, the way back. |
| `MemArea` | `kernel/mem_area.c`, `brk.c`, `fork.c`, `exec.c`, `exit.c`, `arch/i386/trap.c`, `paging.c` | Areas, page lists, clones and their counts, page tables as maps from pages to frames; fork, brk, faults.  A fault is a series of steps that other processes come between, from the access and CR2 to the access tried again. |
| `Files` | `kernel/fs` | Inodes, entries, virtual entries, lookup and reference counts; descriptors, open, close, read, stat, pipes; the pages of a file; directory listings. |
| `Timecore`, `Alarm` | `kernel/timecore.c` | `future` is the list of intervals with relative ticks, `future_lock` the spin lock with its assertion.  `Alarm` is the abstract promise. |
| `Mpipe` | `include/mutex.h`, `kernel/fs/mpipe.c` | The mutex over its queue; the pipe's buffer, state and queue on top of it.  A step goes from one `scheduler_yield` to the next. |
| `Message` | `kernel/fs/message.c` | Mail boxes, sleepers and the area copies are mapped into.  Bytes are abstracted to the message they belong to. |
| `Serial` | `kernel/lib/kqueue.c`, `drivers/serial`, `kernel/debug/sysrq.c` | Two byte queues with their pages, the transmitter's interrupt, the debugging keys taken out of the line, several threads on one thread queue, failing page allocations. |
| `Console` | `drivers/keyboard`, `arch/i386/vga_console.c` | The ring of keys and its two indices; the screen next to an endless sheet of paper. |
| `Profiler` | `kernel/debug/profile.c` | The log, the mode, triggers, flushing, one step for each read or write of them; a flow is the interrupted program or an interrupt handler, each calling instrumented functions. |
| `Chars`, `KlibcString`, `LibcString`, `Numbers`, `CText` | `usr/klibc`, `usr/libc`, `kernel/lib` | Strings, numbers, formats and scans as operators on sequences of codes, with what they touch in memory.  `CText` types every short input code by code and compares with definitions; addresses, ports and `rand48`. |
| `Heap` | `usr/klibc/malloc.c`, `calloc.c`, `realloc.c`, `sbrk.c` | The ring of blocks, the free list, growth by pages or by the break. |
| `Stdio` | `fread.c`, `fread2.c`, `fwrite.c`, `fwrite2.c`, `fgets.c`, `fputs.c`, `fopen.c`, `vfprintf.c` | The retry loops around `read` and `write`, which give less, fail or are interrupted; `fgets`, `fopen`. |
| `Process` | `libc_init.c`, `exit.c`, `onexit.c`, `daemon.c`, `execvpe.c`, `*env.c`, `getopt*.c` | Start, exit handlers, `daemon`, `execvpe`; the environment; `getopt` and `getopt_long`. |
| `Arith` | `sha1hash.c`, `usr/klibc/libgcc` | SHA-1 over pieces, division loops and double words, with narrow words. |
| `Konfig` | `konfig/*.c` | Options, dependencies, conflicts, the file they are kept in, the headers. |
| `Deflate`, `Inflate`, `Trees`, `Checksums`, `Zstream`, `Gzfile` | `usr/klibc/zlib` | Compression and decompression bit for bit with pending output and partial input; trees; both checksums; `Zstream` is a pair of programs that use them through buffers of any size, `Gzfile` gzip files on a stream that may fail or be cut. |
| `Zalloc` | `deflate.c`, `inflate.c`, `gzio.c` | What a stream's state owns through init, copy and end, with every allocation failing. |

The `MC` modules put several components into one run: a variable `part`, chosen
in the initial state, says which of them a behaviour is about and the others
rest.  Each component therefore has the behaviours it has alone.

## 3. Runs

The runs marked **V** check what a comment, a document or an assertion of the
repository says and are violated by the code; section 6 lists them.

| Run | Module, configuration | What it shows |
|---|---|---|
| `scheduler` | `Sched0` | No thread is lost or linked twice, the run queue is never empty, only the running thread puts itself to sleep; once nobody goes to sleep any more every runnable thread runs again and again. |
| `page_alloc` | `PageAlloc` | From `mem_zone_init` on every page belongs to exactly one pile; an allocation fails only when no aligned run is free. |
| `page_alloc_race` **V** | `PageAlloc`, `PageAllocRace.cfg` | Two preemptible callers corrupt the levels. |
| `page_list` **V** | `PageList` | `free_pagelist` frees a page twice. |
| `memory` | `MCServices` | Slices, chunks, areas, files: nothing is given out twice, page tables show what the areas say, in the middle of a fault too, forked memory is private and equal, faults are served, the count of an inode is its name and its opens less its releases, descriptors lead to the file that was named, its bytes and listings are right.  Messages: no wake-up is missed.  Timers: `Timecore` implements `Alarm`, and nobody waits for more than twice the delay. |
| `readdir_count` **V** | `MCServices`, `ReadDir.cfg` | A directory listing has one entry more than was asked for. |
| `slice_recycle` **V** | `Slice`, `SliceRecycle.cfg` | For some object sizes a pool cannot be recycled. |
| `timers_nomem` **V** | `Timecore`, `TimecoreNoMem.cfg` | The lock is left held. |
| `message_overlap` **V** | `Message`, `MessageOverlap.cfg` | The wrong bytes are retrieved. |
| `devices` | `MCDevices` | Mutex, pipe, interrupts, queue links, serial line, keyboard, screen, profiler: nothing is lost or reordered short of the limits the code has, the masks follow the table of handlers, no wake-up is missed, writers, lockers and requests are served in the end. |
| `zlib` | `MCZlib` | What comes out is what went in, whatever the pieces, levels and flushes, on files whose reads and writes may fail; lost bytes are told; trees and checksums agree with their definitions. |
| `libc` | `MCLibc` | Text functions against definitions over all short inputs; heap, streams, environment, options, start and end, hashing, division, stream memory and the configuration tool as state machines. |

### Bounds, and why they are enough

Numbers the code fixes are constants, made small so that their limits are
reached: a quantum of 3, orders up to 3, words of 4 bits, a ring of 4 keys, a
screen of 3 lines of 2, a log of 2 events, a window of 16 bytes with matches of
up to 5, descriptors up to 1, bit counters of 10 bits.  The bounds of the model
are `IrqBurst`, `MaxListed`, `MaxAge`, `MaxLen`, `MaxSize`, `MaxBytes`, `MaxPrinted`,
`MaxCalls`, `MaxRaises`, `MaxRegs`, `MaxChunks`, `MaxAreas`, `MaxInodes`,
`MaxFiles`, `MaxFileSize`, `MaxEntries`, `Slots`, `MaxWord`, `MaxPattern`,
`MaxNum`, `MaxFlags`, `MaxLive`, `MaxArgs`, `MaxVars`, `MaxWrites`, `MaxList`,
`MaxDepth`, `MaxMessage`, `MaxLines`, `NBlocks`, `MaxOuts`, `MaxReads`,
`MaxPieces` and `MaxSymbols`.  They let the hard
cases happen: a quantum that expires while a thread is on its way to sleep; merges to the left, to the right and over two orders, behind an unaligned
first page; a map of two words with a partial last one; a woken thread that is
overtaken; a fork of a fork; a ring and a log that overflow; a screen that
scrolls more than once; a flush that does not fit into the output; a heap that
grows, splits, merges and shrinks.  `2 * IrqBurst < SCHED_MAX_QUANTUM` says that
a time slice is longer than the interrupts taken inside one `sched0_yield`.
What a behaviour does after undefined behaviour of the code (`Wild`, `undef`,
`"undefined"`), or after two flows have met in the profiler, is not followed: the
model stops there, and the properties say so.  Symmetry is not used.

Deadlock is not checked in `zlib` and `libc` (programs end) and in
`message_overlap` (processes may all wait for messages, and the kernel idles).  In
the other `MC` modules the step `Stops` stands for the same: a machine at an
assertion, an idle kernel, a history at its bound.  The mutex, the pipe and
the slice pool have no such step.

### Fairness

* `Sched0!FairSpec`: a processor inside the scheduler goes on, and the timer keeps
  ticking.  Nothing is assumed of threads; `NoStarvation` has its two conditions
  (nobody goes to sleep any more, no runnable program has interrupts off) in its
  statement, and fails without either.
* `MutexProgress`: a thread in `mutex_lock` goes on when it is runnable, which is
  round robin, and a holder gives the mutex back.  A holder that never does is a
  fault of the caller.
* `WriteReturns`: the transmitter raises its interrupt when it is empty and
  enabled, and a thread that can run does.
* `RequestServed`: an interrupt the processor can take is taken, and its handler
  runs to the end.
* `LoopsEnd`: a loop takes its next turn, as a program does.  In `Stdio` the turn is
  a call of the kernel that is not interrupted: one that is leaves everything as
  it was, and `WF` says that not every one is.

## 4. Proofs

All theorems are checked by TLAPS and hold for every value of the constants that
satisfies the named `ASSUME`s of the modules, which TLC evaluates in the runs.
Further hypotheses are in the statements and named below.

| Theorem | Statement | Property of run |
|---|---|---|
| `ScheduleProofs!Invariance` | `Spec => []SchedInv` | `scheduler` |
| `LinkedAtMostOnce`, `ThreadsAreKept`, `RunningOnRunQueue`, `NextExists`, `TypeCorrect` | what `SchedInv` says, one by one | |
| `SleepIsVoluntary` | the action property `OnlyItselfSleeps` | `scheduler` |
| `PageAllocProofs!AllocInvariance` | `Spec => []AllocInv`, without preemption | `page_alloc` |
| `PagesArePartitioned`, `LevelsAreSound`, `AllocTypeCorrect`, `FreshPagesAreUnlisted` | what follows from it | `page_alloc` (`Partition`) |
| `MergedInvariance` | two buddies are never free on one level | |
| `AllocationFailsOnlyWhenFull` | `Spec => []FailsOnlyWhenFull` | `page_alloc` |
| `DeliveryProofs!MutexInvariance`, `MutualExclusion`, `WakeupsAreKept` | the mutex alone | |
| `PipeInvariance`, `OneWriter`, `WritersAreWoken`, `OneReaderIsServed`, `PipesAreSound` | a pipe with its mutex | `devices` (`PipeSound`) |
| `DeviceProofs!KbdInvariance`, `IndicesStayInside`, `KeysComeInOrder`, `ReaderMissesNoKey`, `KeysAreSound` | keyboard | `devices` (`KeysSound`) |
| `VgaInvariance`, `ScreenShowsThePaper` | screen | `devices` (`ScreenIsWindow`) |
| `DeliveryProofs!MsgInvariance`, `MailIsNotMissed`, `SendersCanBeWoken`, `WokenHaveMail`, `MailIsSound` | messages | `memory` (`MailSound`) |
| `ScheduleProofs!TimeInvariance`, `AlarmsAreTimely` | nobody waits for more than twice the delay | `memory` (`AlarmsTimely`) |
| `NobodyWakesEarly` | `Timecore` implements `Alarm` | `memory` (`NeverEarly`) |
| `DeliveryProofs!IrqInvariance`, `AllHandled`, `MasksAndTableAgree` | interrupts | `devices` (`NoneUnhandled`, `MasksFollowTable`) |
| `ProfilerProofs!ProfInvariance`, `EventsAreLoggedOnce` | profiler | `devices` (`EachEventOnce`) |
| `MemoryProofs!SliceInvariance`, `SliceSafety` | no object is given twice, no object overlaps the map, the lists tell which pages have room | |
| `SlicesInvariance` | and the map stays in its page, and a pool all of whose objects are returned can be recycled: `[]SlicesSound` | `memory` (`SlicesSound`) |
| `GallocSafety` | a chunk holds what was asked for: `[]ChunkFits` | `memory` (`ChunkFits`) |
| `DeviceProofs!SerialInvariance`, `SerialsAreSound` | byte queues and the serial driver | `devices` (`SerialSound`) |
| `HeapProofs!HeapInvariance`, `HeapIsSound` | `malloc`, `free`, `realloc`, `calloc` | `libc` (`HeapSound`) |

*Lists.*  `Klist0Proofs` says what linking and unlinking do to the set of nodes of
each list and that a node stays linked at most once; the other proofs cite these
lemmas and never look at positions.  It also has `LeastNumber`, from which the
other modules take their inductions over numbers, and from it `Along` (what each
step of a sequence keeps, the last element has) and `Recursion` (a function given by
its first value and a step exists).

*Scheduler.*  The properties alone are not inductive.  `SchedInv` adds that only
the running thread can be inside the scheduler.  That needs a bound on the
quantum: on entering, the quantum was just reset, and fewer interrupts can come
than it has ticks, so it cannot expire there.  `GOD` never sleeps, hence the run
queue is never empty and both `bug_on(!next)` are unreachable.

*Page allocator.*  `AllocInv` says that at most one operation is in progress,
that what it remembers is still true, and that every pile, also the one in
hand, is aligned.  The hypothesis `Preemptible = {}` cannot be dropped: the run
`page_alloc_race` shows why.  `FreshPagesAreUnlisted` also rests on callers that
unlink a page before they free it, which `free_pagelist` does not (section 6).
That an allocation fails only when nothing fits needs more: `MergedInv` adds that
no two buddies are free on one level, and that while a pile is being merged it
is the only one that could have a free buddy.  Then a free aligned run of 2^k
pages, cut into piles, is one pile: the largest pile in it would otherwise have a
buddy in the run which is cut into piles of the same size, and so on down.  The
argument is about intervals of natural numbers and powers of two and makes up
most of the module.

*Mutex and pipe.*  `MutexInv` adds that a thread is linked at most once, and only
while it is in `mutex_lock`.  `PipeInv` says which threads can be on which of the
two queues, and whose buffer the pipe has.  `OneReaderIsServed` and
`PipesAreSound` have at most one reader as a hypothesis: with two the `TODO` of
`mpipe.c` applies, and TLC finds the second one served with the first one's bytes.

*Messages.*  `MsgInv` ties together mail boxes, sleepers, what each receiver waits
for, and the number of pages in its area.

*Timers.*  `TimeInv` says that the ticks up to the end of an interval are at least
what its threads still have to wait, which gives `Alarm`; and that age and the
ticks still to come (`Slack`: what the list in front of a thread can cost it) add
up to no more than twice its delay.  `AlarmsAreTimely` needs delays of at least
one tick: a thread that calls `tsleep(0)` in a loop holds up all others.  The sums
of the list are a recursive function; that it exists is proved from `LeastNumber`.

*Drivers.*  `IrqInv` says at each point of a request for a line which of mask,
controller and table have been changed.  `KbdInv`: until the first overrun the
part of the ring between the indices is exactly the keys not read.
`ReaderMissesNoKey` and `KeysAreSound` are for a reader with interrupts off.
`VgaInv`: behind the pen the paper is blank, and the screen is its last lines.

*Profiler.*  `EachEventOnce` says that printed lines and valid events are together
the events the triggers ask for, and is true only when no flow is inside.
`ProfInv` therefore follows the one flow that is: at each of its steps, which mode
it may find, which it has saved, how many of the valid events it has printed and
whether its own event is already in the log (`Stage`, `Accounted`).  A flow that
begins meanwhile finds `PROFILER_BUSY` and leaves, or finds another mode and goes
in as well; then the two have met, and nothing is claimed from there on.

*Slice pools.*  `SliceInv` says, for one operation in progress, which bits of the
page in its hands it has read and not yet set, so that the bit it sets was clear;
that the bit of every object a caller holds is set (and no other bit below
`nobjs`, where `MapClears` holds); and that the bits of the objects the map lies on
are set.  It also follows a page between
taking it off a list and putting it on the other one.  Most of the module is about
words: bit `b` is bit `b % BITS_PER_LONG` of word `b / BITS_PER_LONG`, and
`bitmap_fill` and `bitmap_zero` treat the last word in their own ways.  That is
why the statements have hypotheses on the size of an object.  `MapCovers`:
`bitmap_fill` sets the bits of all objects under the map.  `MapClears`:
`bitmap_zero` clears the rest.  `MapEnds`: `bitmap_fill` does not write the word
behind the page.  With pages of 4096 bytes and words of 32 bits, 2020 of the 2044
sizes satisfy the first and 1925 all three; `MapEnds` fails for the powers of two
up to 128.  Each is needed: TLC finds a counterexample for a size that
violates it (`OutsideBitmap`, `CanRecycle` and `StaysInPage` fail, in this order),
and `slice_recycle` keeps the one for `MapClears`.  As for the page
allocator, `Preemptible = {}` is a hypothesis.

*General allocator.*  `ChunkFits` is about one chunk at a time, and the invariant
adds only types.  The work is in `log2`: the exponent it gives is the least whose
power of two is not below the number, so the pool taken is the first that has
room.  `GallocAssumption` keeps sizes below 2^30, the range in which that is so.

*Serial driver.*  A queue of bytes is a list of pages with counters, and what it
holds is a recursion over the pages.  `PushIs` and `PullIs` say what
`kqueue_push` and `kqueue_pull_tail` do to that content: while the queue has one
page at most, a push adds exactly its bytes behind what is there and a pull takes
a prefix.  With more pages `kqueue_push` repeats bytes and the run counts as
spoiled (section 6).  `SerialInv` is then about contents only: bytes
delivered and bytes in the queue are together the bytes that arrived, in order,
as long as the run is not spoiled.  What arrived is what `sysrq_hit` let pass:
`Apart` relates each byte of the line, its kind and the byte before it to where it
went, and `ApartGrows` says that one more byte keeps that.

*C heap.*  `HeapSound` is not inductive: `free` finds the block in front through
the chain, and `malloc` puts a new chunk behind the last block below it, so their
effects depend on where all blocks are.  `HeapInv` has the chain of blocks in
strictly growing order with every block ending where the next begins or before
(`Laid`), the free list as an exact list of the free blocks without repetition
(`Listed`), no two free blocks that touch (`Joined`), and each live block with its
size.  `free` and `realloc` pass through states with one more free block that may
touch its neighbours; `Joined` and `Listed` therefore take the set of blocks they
except, and each step of `__free_block` shrinks that set.  All sizes stay
multiples of the header, also after `ARENA_SIZE` and the alignment of `sbrk`, which
is where the assumptions on `CHUNK` and `SBRK_ALIGN` are used.

### Only model-checked

* Liveness, which the prover does not do: `NoStarvation`, `MutexProgress`,
  `WriteReturns`, `RequestServed`, `LoopsEnd`.
* The modules that compute with `RECURSIVE` operators: `QueueLinks`, `Files`, the
  text modules, `Arith`, `Process`, `Konfig` and all of zlib.  What they compute is
  defined by recursion over data, for which the prover has no induction.
* `MemArea`, `Stdio` and `Zalloc`: invariants TLC checks, not proved so far.

## 5. What is not modelled

* Boot code, register frames, descriptor tables and the format of page table
  entries; `load_init`; the hosted port (`arch/dummy`).
* Super blocks (one, static), the list of consoles, polled output.
* The formats of archives and executables: data.
* More than one memory zone; `get_pages` and the statistics printer, except for
  the assertions it makes.
* `kill_user_map`, whose loop does not end.
* zlib's assembler and `FASTEST` variants, the read-ahead of `inflate_fast`.
* The prompts of the configuration tool; the user programs; system call stubs.

## 6. Disagreements found

| Run | Where | What |
|---|---|---|
| `page_alloc_race` | `kernel/page_alloc.c:91` | no lock, page faults are preemptible |
| `page_list` | `kernel/page_alloc.c:320` | the successor is read after the node was unlinked |
| `slice_recycle` | `include/bitmap.h:63` | bits of the last word stay set |
| `readdir_count` | `kernel/fs/file.c:164` | an entry is copied before the count is compared |
| `timers_nomem` | `kernel/timecore.c:94` | return with the lock held |
| `message_overlap` | `kernel/fs/message.c:193` | the end of the area moves whichever page was removed |

The modules also reproduce the following, for which no run is kept.

*Scheduling and waiting.*  `sched0.c:77` moves the head of the run queue to the
tail without running it, although `scheduler.c:128` speaks of CURRENT only.
`mpipe.c:85`: a writer that comes before the reader wakes nobody and waits; the
reader that comes then sleeps, and both wait for ever.  `timecore.c:61`: see
`tsleep(0)` above.

*Memory.*  `page_alloc.c:380` clears the area links of the left neighbour after a
merge and not those of the page.  `bitmap.h:75`: with 7 objects and 4-bit words
bits of objects under the map stay clear, with 8 one word too many is written.
`galloc.c:67` and `test_galloc.c:33` differ by one on the largest size.  `exec`
does not come to its end: `mem_area_put` leads to the loop of `free_pagelist`, or,
for a clone, to `mem_area.c:226`, which compares with its own head, and to the
`bug_on` of `mem_area.c:244`.  A fork of a stack of several pages reverses them
(`mem_area.c:186`), a clone of a clone counts users at the wrong area
(`mem_area.h:35`), and a clone's `m_pages` is doubled (`mem_area.c:176,181`).  The
heap's `m_sizelim` is not initialised (`exec.c:92`), nor is bss (`aout.c:152`).
`brk` accumulates (`brk.c:39`), and `exit` falls into `sbrk` (`syscalls.c:88`).  Two
processes that fault at once look like a double fault (`trap.c:90`), or the first
is served for the address of the second (`trap.c:87`).

*Files and devices.*  The listings of `/proc` and `/devices` ignore the count
(`virtfs_proc.c:37`, `virtfs_dev.c:39`).  `O_CREAT` keeps the slash of a name in
the root (`file.c:217`).  A file can be closed twice (`fs.c:67`).  The keyboard's
`-EBUSY` is ignored (`file.c:254`).  `alloc_fd` can return `FS_MAX_FDS`
(`file.c:185`).  `free_inode` takes the list head for an entry (`inode.c:144`).
`kqueue_push` does not advance its source across pages (`kqueue.c:143`), and
`kqueue_pull_tail` returns the rest only (`kqueue.c:188`).  Two threads on the
serial line share one queue, and the wrong one may be woken.  The profiler stays
in its flushing mode once the log was full and then prints after each event; an
interrupt between its look at the mode and `PROFILER_BUSY` lets two flows into the
log (`profile.c:171,188`).

*Library.*  `fopen` takes a negative result for a stream (`fopen.c:37`).  `fgets`
loses the part of a line it has when the file ends.  `environ` is NULL when a
program starts, `putenv` looks for the last `=` (`__put_env.c:14`), and after
`clearenv` the recorded size is that of the array before (`__put_env.c:45`).  `execvpe`
does not end for a PATH element that is too long and not the last.  `daemon` closes
a standard descriptor.  `free` never gives memory back through `brk`, and
`realloc` copies to NULL when `malloc` fails.  `inet_addr` has its test inverted.
`__modsi3` has the wrong sign for a negative divisor.  The kernel's `vsnprintf`
ignores the size for `%%` (`kernel/lib/vsnprintf.c:105`), and the `strlen` of
`usr/libc` and of the kernel is wrong for the empty string.

*zlib and konfig.*  With level 0 a flush needs more than the 6 bytes of output
`zlib.h:292` speaks of.  `gzsetparams` notes a failed write, and the next
`gzwrite` forgets it (`gzio.c:247,586`).  `gzread` returns 0 for a cut file, and nobody looks at
`errno` when a plain file is copied (`gzio.c:443`).
A `gz_open` that fails early reads a `stream.state` that was never set
(`gzio.c:129,366`), and `deflateCopy` leaves two streams with one state when its
first allocation fails (`deflate.c:912`).  `inflateSync` shifts `hold` the wrong way (`inflate.c:1278`).  `konfigure.c:172` uses its line
buffer at the end of the input, and `kout.c:190` does not check `make_file`.
