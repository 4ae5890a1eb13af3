# RTX: a TLA+ verification of the SE 350 real-time executive

RTX is a small preemptive kernel for an LPC1768 (Cortex-M3) board. It has a
fixed set of processes with priorities, a pool of memory blocks that double as
message envelopes, mailboxes, delayed messages driven by a 1 ms timer, and an
interrupt-driven console. Everything here is about the program in
`src/rtx/src`, as `rtx.uvproj` builds it: assertions are compiled out (`NDEBUG`),
`HAS_TIMESLICING` and `DEBUG_0` are not defined.

## Inventory

| component | source | state | operations |
|---|---|---|---|
| process scheduler | `k_process.c`, `priority_queue.c` | PCBs (state, priority), `running`, ready queue, blocked-on-memory queue | `release_processor`, `set_process_priority`, preemption check, process switch, boot |
| memory pool | `k_memory.c` | free list `g_heap` | `request_memory_block` (waits), `release_memory_block` (checks, may preempt) |
| messages | `k_process.c`, `message_queue.c` | a mailbox per process, the delayed queue | `send_message`, `receive_message` (waits), `delayed_send`, delivery of expired messages |
| timer | `timer.c` | `g_timer_count`, TIMER0's interrupt flag | interrupt handler |
| linear list | `list.h`, `list.c` | a ring: start, size, slots | push, pop, peek, remove, iterate |
| UART driver | `uart_irq.c` | input and output buffers, three flags, two notification messages | interrupt handler, `uart_iproc_getc`, `uart_iproc_putc` |
| CRT | `crt.c` | queue of texts, position in the first | prints texts, waits for room |
| KCD | `kcd.c` | registrations, the line being typed | reads keys, registers prefixes, dispatches lines |
| wall clock | `sys_proc.c` | time, `clock_tick` | `%WR`, `%WS`, `%WT`, ticks to itself |
| priority command | `sys_proc.c` | none | registers `%C`, sets a priority, or displays an error |
| stress processes | `usr_proc.c` | A's number, C's local queue, whether C is to sleep | `%Z` starts A, which sends reports through B to C; C displays and sleeps; together they exhaust the memory |
| test processes | `usr_proc.c` | the state of the tests, counters, a list of blocks | proc1 to proc3 check the kernel's scheduling, memory, messages and delays; proc4 to proc6 wait or spin |
| boot, SVC entry | `k_rtx_init.c`, `HAL.c`, `main_svc.c` | | initialisation, exception entry and return |
| output formatting, polled UART, cycle counter | `printf.c`, `uart_polling.c`, `k_cycle_count.c` | | debug output |

**How they interact.** Processes call the kernel through SVC. Interrupt handlers
deliver messages (`k_send_message_helper`) and end in a preemption check. The
scheduler, the pool and the mailboxes meet in three places: a call that has to
wait parks its process (`k_poll`), a send wakes its receiver, and a preemption
check with a free block wakes everybody who waits for memory. KCD and CRT are
ordinary processes that share buffers and flags with the UART handler.

**What is hard.** No exception priority is configured, so that SVC, TIMER0 and
UART0 never interrupt one another: a kernel call or a handler is atomic *until it
switches processes*. What is left of a call then runs when the process gets the
processor back: the `while` loops of requesting and receiving look again, the
timer handler acknowledges its interrupt late. The rest of the difficulty is in
queues that must agree with PCB fields, wakeups that must not be lost between
checking and waiting, one-buffer notifications, and counters and buffers at
their limits. `PROJECT.json` lists these hazards at their lines.

**What makes each component correct.**

- scheduler: no process is lost or queued twice; the best priority runs; equals
  are served in order.
- pool: a block is in one place; no process waits while a block is free.
- messages: none lost or duplicated, no mailbox overflows; delayed ones on time
  and in order; no process waits while it has mail.
- timer: no count without a tick of the hardware; how far it runs ahead of the
  milliseconds (it does).
- list: a deque.
- console: every line typed is noticed, every text is printed whole.
- wall clock: one tick counts, whatever was typed before, and not before
  the timer has counted a second; the clock does not stop for ever; it
  does not use up the memory that it waits for.
- the system processes together: no program loses a block, they never all wait for memory
  that only they could give back, no report is lost or comes twice, a process that sleeps
  is woken by nothing but its own message, and typed commands take effect while the memory
  is used up.
- the tests: they pass wherever they are interrupted, and come to an end.

## Modules

| module | what it is |
|---|---|
| `Scheduler` | The scheduling functions as operators on a record `k`. No state of its own. |
| `Kernel` | The state machine: system calls, timer and UART interrupts over `Scheduler`, pool, mailboxes and delayed queue. |
| `Ipc` | What the kernel promises of blocks and messages, which `Kernel` implements (`IpcSpec`). |
| `TimerKernel` | `Kernel` with TIMER0's interrupt flag and the passing of milliseconds. |
| `DelayedQueue` | The delayed queue alone, over all turns of its wrapping counter. |
| `Deque`, `LinearList` | An abstract deque, and the ring of `list.c` that refines it. |
| `Uart` | The console: UART handler, KCD's reading, CRT. |
| `WallClock` | `proc_clock`, its commands, its ticks to itself and its memory. |
| `Processes` | KCD, CRT and the priority command as programs over `Kernel`, and a typing user. |
| `Stress` | `Processes` with A, B, C and spinning processes. |
| `UserTests` | `Stress` with proc1 to proc6: the whole system of the build. |
| `MCKernel`, `MCTimerKernel`, `MCUart`, `MCWallClock`, `MCStress`, `MCUserTests` | Constants for TLC. |
| `SchedulerProofs`, `KernelProofs` | Proofs about the scheduling functions; theorems about `Kernel`, `TimerKernel` and `Ipc`. |
| `StressProofs` | Theorems about the programs of `Stress` over the kernel. |
| `UartProofs`, `WallClockProofs`, `DelayedQueueProofs`, `LinearListProofs` | Theorems about the module of that name. |
| `DataLemmas` | Facts about numbers, sequences and counting that several of these use. |

`Scheduler` is extended by `Kernel`, `Kernel` by `TimerKernel` and by `Processes`,
`Processes` by `Stress`, `Stress` by `UserTests`; the programs call the actions of
`Kernel` themselves. `Uart`, `WallClock`, `DelayedQueue` and `LinearList` stand beside
them and take a part apart further than the whole would allow.

**`Scheduler` and `Kernel`.** `k.running`, `k.m_state`, `k.m_priority`, `k.ready` and
`k.blocked` are `running`, the PCB fields, `g_ready_queue` and
`g_blocked_on_resource_queue`; operators keep the names of the C functions. Where
a C function does two things, it is split by name: `peek_front` returns the pid and
the priority, `AfterPop` is what `pop_first_process` leaves; `Park` is the
`switch` of `k_release_processor`. `scheduler` in C reads `running`, and so here.
KCD and CRT get the special priority -1 from `peek_front`, as in the code.

One action of `Kernel` is one kernel call or interrupt handler, up to its end or to
its process switch. `cont[p]` is the place where process `p` will continue; a step
that finds the running process with an unfinished call must finish it before
anything else happens (`UserMode` guards interrupts and new calls). The actions
are `Boot`, `ReleaseProcessor`, `SetProcessPriority`, `RequestMemoryBlock`,
`ReleaseMemoryBlock`, `SendMessage`, `DelayedSend`, `ReceiveMessage`, `TimerIrq`,
`TimerAck`, `UartIrq`, `UartNotify`.

Messages are block numbers; `held` is a history variable that says which process
has which block, and keeps the environment to processes that send and release what
they have. They may release a block twice while it is free, because the code checks
for that. A block that is released by somebody else while it is in use is not
detected by the code and not part of the model. Addresses that are no block's are
rejected by the first three checks of `k_release_memory_block_valid` and left out,
and so is the contents of messages.

**`Ipc`.** Nothing is said of scheduling or of waiting: a block is free, held by a
process, a letter in a mailbox, or a delayed letter; letters are read in the order in
which they came; a tick brings the letters that are due, all of them and nothing else,
in any order among themselves (`DelayedOrder` of `Kernel` says more). The mapping takes
the elements of the free list and of the delayed queue, and the mailboxes as they are.
A step of `Kernel` is one step of `Ipc` or none: a call that waits, is preempted
or is continued later never moves a block halfway.

**`TimerKernel`.** `IR` is the flag that the timer sets every millisecond
(`Match`) and that asks for the handler for as long as it is set. The handler
clears it in its last line, which comes after the preemption check: with a process
switch in between, `Acknowledge` does it when the process is back.

**`DelayedQueue`.** `g_timer_count` is unsigned and wraps at `Modulus`, expiries and the
comparison are signed (`Signed`); `SignBit` is 2^31 in the code, and half of `Modulus`.
`ExpiredCount` is where the loop over the sorted queue stops. A message carries the ticks it still has to
wait, as history; so the state space is finite without a bound on time.

**`LinearList`.** Slots are numbered from 0, items are found by `LL_AT_`. The
refinement mapping reads the items as `LL_FOREACH` does. Pushing to a full list and
popping from an empty one are the callers' duty (the assertions are compiled out);
`Kernel`'s `MailboxFits` discharges it for the mailboxes.

**`Uart`.** The handler and the two `uart_iproc` functions are atomic; KCD and CRT are
not, and the handler may come in between any two of their steps. Mailboxes are a
counter (KCD) and a queue (CRT); that a process with mail runs again is what
`Kernel` shows. Keys are "key" or "cr": backspaces are dropped by the handler, hotkeys
print and change nothing. `displayed` and `sent` are histories. The dispatch of a
line is one step that may take any time (`KcdDispatch`), since KCD may wait for
memory there; module `Processes` takes it apart.

**`WallClock`.** Each kernel call of `proc_clock` is a step (`pc`), so that KCD, CRT and
the timer come in between; the code from one call to the next is one step with the
call before it. A command is what `clock_handle_message` makes of its text: a start,
a stop, a setting with the numbers it names, or an invalid one. A tick carries the
`clock_tick` it was sent with. Memory is the number of free blocks. `since` and
`running` are histories: the counts since the last display, and whether the clock is
meant to run. Time in this module is what the kernel counts: `TimerHandler` is one run of
the timer's handler, which adds one to `g_timer_count` and sends on what is due. Two runs
may fall into one millisecond, when a tick preempts and is counted twice (finding 1), so
`NeverFast` says that a tick counts only after `PERIOD` counts, and *not* that a second has
gone: in real time the clock may be fast by those ticks. And the module covers the
life of the counter short of its signed overflow, where a message waits for its whole
delay in counts; at the overflow a tick can be delivered at once (finding 2, `DelayedQueue`).

**`Processes`.** `pc[p]` is the kernel call that process `p` makes next, or is inside of;
the code between two calls belongs to the step of the first one when it returns. `hand`
is the local pointer of each program, `display_msg` the second one of `proc_set_prio`,
`text` the type and text of every block. `entries` and `msg_buf` are KCD's, `output` is
CRT's. KCD serves the entries whose prefix the line starts with, once for each process,
and asks for a block for each; `sent_to` and `cur` make the loop resumable when it waits
for memory. The console hands over whole lines and has room for all output: characters
and back-pressure are `Uart`'s. The text of a free block is not kept: its next owner
writes it, but for the error message of `proc_set_prio`, which displays what the block
held before (no property looks at what is displayed). Time is relative: an expiry is
what is left of a delay, in counts of `g_timer_count` short of its signed overflow, and
`g_timer_count` itself stays 0, so that time needs no bound. `TimerHandler` is one run of
the handler, as in `WallClock`; so `asleep` of `Stress` and `DELAY` of `UserTests` are counts too.

**`Stress`.** `proc_A`, `proc_B` and `proc_C` call by call, with `c_message_queue` and
`hibernate_for_10_sec` of `proc_C`. `last` and `asleep` are histories; `ran` changes with
every step of a process, to name those steps in a fairness condition.

**`UserTests`.** A test process is a sequence of statements, one for each call or check
of the C program; loops are jumps back. `t` holds the global variables of the tests.
`MAX_YIELDS` is 0 without `HAS_TIMESLICING`: a process that runs in the wrong state
fails its test at once. Two assumptions are named: nobody types (a key makes KCD preempt
a test process, which then lines up behind the others, and the order that the tests
ask for is gone), and `InTime`: the three delayed sends of proc2 take less than the
difference of their delays. Without it two messages expire in one tick, in the order
of sending, and TLC finds a test that fails.

## Runs

| run | bounds | what it shows |
|---|---|---|
| `kernel_scheduling` | null, KCD (also as CRT), two user processes of one priority, an i-process PCB; 1 block; 1 tick; all priority changes between 0 and 1 | queues and states agree, no missed wakeup, parked calls match states, best priority runs, first come first served, preemption by better processes only |
| `kernel_messages` | `TimerKernel` with one user process and KCD; 2 blocks; delays 1 and 2; 2 milliseconds, 3 counted ticks | the kernel implements `Ipc`; block conservation, mailbox capacity, delayed messages at their tick and in order; the count exceeds the milliseconds by at most the number of ticks that preempted |
| `timer_ghost_tick` | as `kernel_messages` | finding: the count does exceed the milliseconds |
| `delayed_queue` | 4-bit counter, 3 blocks, delays 1, 3, 7 | never late; early only before the signed overflow |
| `delayed_queue_overflow` | same | finding: early before the overflow |
| `linear_list` | 4 slots, 3 values | the ring refines the deque |
| `console` | buffers of 3, threshold 1, 4 keys, 2 texts | notifications, buffers and flags; liveness of lines and texts |
| `console_input` | input buffer of 3, 4 keys | finding: the return after a full buffer is lost |
| `wall_clock` | a day of 8 seconds of 2 counts, 3 commands, 5 blocks | one live tick, all blocks accounted for, no second shorter than its counts of `g_timer_count`, updated for ever; the clock waits for a block only while one is free or with CRT |
| `wall_clock_memory` | same, 4 blocks | finding: three starts in a second stop the clock for good |
| `stress` | A, B, C, one spinner, KCD, CRT, priority command; 5 blocks; every second report displayed, numbers modulo 4, 2 counts of sleep; two typed lines | no report lost, blocks stay in the programs' variables, memory comes back while somebody waits for it, C wakes by its own message only, the stress goes on, legal commands take effect |
| `user_tests` | all 16 processes, 30 blocks, delays in steps of 10 counts (100 in the code); the timer and the UART interrupt anywhere | all tests pass, and they end |

**Why the bounds are enough.** The scheduler treats processes by state, list and
priority only. The interesting cases need a waiter and a releaser at equal and at
different priorities, a third process to overtake, and the null process: that is
`kernel_scheduling`. One block makes memory waiting common, a second one lets
messages meet in a mailbox or the delayed queue. Three ticks let a delayed message
be overtaken by a later one with a shorter delay. In `kernel_scheduling` and
`kernel_messages` one process plays both KCD and CRT (`PID_CRT = PID_KCD`), so it gets
both notifications; the proofs do not assume that. With buffers of three slots and a
threshold of one, echoes fill the output buffer while CRT prints, CRT waits for room
more than once, and keys are dropped. In `delayed_queue` delays reach from 1 to the
largest signed value. The proofs cover all values of the constants for the properties
they name.

The three commands of `wall_clock` leave two outdated ticks on their way beside the live
one; the day of eight seconds passes through every carry and midnight. Every tick on its
way and every unread command goes back to a command of its own, and the clock holds one
block more when it asks for another: with three commands, five blocks are enough, and four
are not (`wall_clock_memory`), so that the bound in `ClockGetsMemory` is tight.

In `stress`, five blocks are what two registrations, a typed line, a report asleep and one
on its way need: A empties the pool while C sleeps, and everybody waits for memory in
turn. The period of two makes C sleep with every other report, so that reports pile up on
the local queue and in the mailbox. The first line starts the stress; the second is
another `%Z`, a malformed `%C`, or one that raises A or C to the priority of KCD, or is
refused. With five blocks `MemoryComesBack` speaks of all states in which somebody waits
for memory. Its bound is tight: with four blocks and two refused commands, TLC finds all
programs waiting, and with three lines `%Z` as well. `user_tests` has the numbers of the build, but for the delays, which are
only counted down, and the i-processes, which have no step of their own.

`console` and `console_input` switch the deadlock check off: when nobody types or
prints, the console does rest.

**Fairness.** `Uart`, `WallClock`, `Stress` and `UserTests` state liveness. In `Uart`,
`ThreIrq` is weakly fair: a line that is sending ends a character and interrupts. KCD and
CRT are weakly fair: both have the best priority, and preempt even equals, so they run when
they have something to do; and KCD's wait for memory blocks ends when their holders
release them (`CommandsTake` of `Stress`, short of the fourth finding). Typing and printing
are not fair. `TextsPrinted` holds because the number of keys is bounded: the code tells
CRT of room only when the output buffer is *empty*, and echoes of a never ending stream of
keys could prevent that. In `WallClock`, the timer goes on counting, and the clock and CRT take
their steps: they have the best priority, and a process that waits for memory is woken
when there is some (`NoMissedWakeup`). No command has to be typed.

In `Stress` and `UserTests` no process is fair by itself: the one processor is. A kernel
step that is left to do is weakly fair (`Finish`). Whoever has the processor gets on
(`ProcessRuns`), and time passes while a message is delayed (`TimePasses`); these two are
strongly fair because they disable one another: an interrupt is taken between two
instructions, and a process stands still in a handler. Strong fairness of `ProcessRuns` is
what rules out an interrupt at every single instruction, with which KCD and CRT, when both
are ready, would only be switched back and forth. That A, B, C and the commands get their
turn is then the scheduler's doing, and checked.

## Proofs

The theorems hold for all values of the constants that the named `ASSUME`s allow, and TLC
evaluates these in the runs.

| theorem | module | property |
|---|---|---|
| `TypeCorrect` | `KernelProofs` | `TypeOK` |
| `ProcessesSafe` | | `NoProcessLost` |
| `WakeupsNotMissed` | | `NoMissedWakeup` |
| `WaitsAreCalls` | | `WaitsWhereItBlocked` |
| `PriorityScheduling` | | `HighestPriorityRuns` |
| `FirstServed` | | `FirstComeFirstServed` |
| `OnlyBetterPreempts` | | `PreemptedByBetter` |
| `TimerKernelIsKernel` | | `TimerSpec => Spec` |
| `GhostTicksBounded` | | `GhostTicksExplained` |
| `BlocksConserved` | | `BlockConservation` |
| `MailboxesFit` | | `MailboxFits` |
| `DeliveryOnTime` | | `DeliveredOnTime` |
| `DelayedInTurn` | | `DelayedOrder` |
| `ImplementsIpc` | | `IpcSpec` |
| `ConsoleTypes` | `UartProofs` | `TypeOK` |
| `LineNotMissed` | | `LineAnnounced` |
| `OneBufferIsEnough` | | `OneNotificationInFlight` |
| `RoomNotMissed` | | `RoomAnnounced` |
| `IdleLineIsEmpty` | | `LineBusy` |
| `TextsStayIntact` | | `TextsIntact` |
| `ClockTypes` | `WallClockProofs` | `TypeOK` |
| `OneTickOnly` | | `OneLiveTick` |
| `ClockBlocksAccounted` | | `BlocksAccounted` |
| `NoTickIsEarly` | | `NeverFast` |
| `ClockIsNotStarved` | | `ClockGetsMemory` |
| `DeliveryNotLate` | `DelayedQueueProofs` | `NeverLate` |
| `EarlyOnlyAtOverflow` | | `EarlyOnlyBeforeOverflow` |
| `ListTypes` | `LinearListProofs` | `TypeOK` |
| `ImplementsDeque` | | `DequeSpec` |
| `ProgramsLoseNoBlock` | `StressProofs` | `BlocksInUse` |
| `SleepsItsTime` | | `Hibernates` |
| `NoReportIsLost` | | `NoReportLost` |
| `MemoryIsNotExhausted` | | `MemoryComesBack` |
| `KernelKeepsItsWord` | | the kernel's invariants, for the programs |

**The kernel.** Assumed are the `ASSUME`s of `Scheduler` and `Kernel`: the null process is
neither KCD, CRT nor an i-process, the initial table lists every other process once, only
the null process has the null priority. KCD and CRT may be equal or different.

`KernelInv` is inductive: type correctness, `NoProcessLost`, `NoMissedWakeup`,
`WaitsWhereItBlocked` and `HighestPriorityRuns`, strengthened by what they need of one
another: the processes in the queues are there because of their *state* and in the list
of their *current* priority (otherwise `AfterPop`, which uses the PCB's priority, would
not remove what `peek_front` found); only the null process has its priority and it
is always running or ready (otherwise `scheduler` could find no process); a process
that owns the processor is in state RUN. The invariant is carried from operator to
operator (`SchedInv`, `GoodStep`), each function preserving it from a state in which
the running process is in the middle of something; each action of `Kernel` then has
one lemma, and `NextInvariant` combines them.

`FirstServed` and `OnlyBetterPreempts` say what a step does to the ready lists. Each
scheduling function keeps the order of a list, puts newcomers at its end and takes out
none but its first, or the process that it was told to move; that composes along the
calls of an action.

`TimerSpec` only restricts the kernel: its steps map to steps or stutters, and the theorems
above hold for `TimerKernel`. The bound on ghost ticks is not inductive without
the flag: a flagged match is one that was not counted, or one that gave the processor
away when it was (`TicksInv`).

**Messages.** The invariant is `PlacesInv`, proved on top of
`KernelInv`: the free list and each mailbox name no block twice, the delayed queue
neither, it is sorted, nothing in it has expired, and the sets of free blocks, of each
process's blocks, of each mailbox's and of the delayed ones share no block and leave none
out (`Placed`). Counting (`Cardinality(Places(b)) = 1`) is not inductive by itself and comes
last. The sequence operations are first reduced to what they do to the set of elements
(`AppendElements`, `RestElements`, `TailElements`, `EnqueueElements`; `DeliveredMail` by
induction over the messages delivered in a tick), then each way of a block is a lemma over
sets (`MoveFreeToHeld`, ..., `MoveDelayedToMail`), and each action one that combines the
two and shows which step of `Ipc` it is. `MailboxFits` follows because different messages
are at most all blocks and the two notifications; it is what the unchecked
`LL_PUSH_BACK` of `k_send_message_helper` relies on. `DeliveredOnTime` is read off the
steps of `Ipc`. `DelayedOrder` needs more than sets: `enqueue_message` puts a message behind
the last that expires no later (`InOrder`), and a tick appends to a mailbox what it takes
from the front of the queue, in the order of the queue (`Brings`). `held` is a history
variable, so that the theorems are about programs that send and release what they have
(see above).

**The console.** Assumed of the buffers is that the input buffer has a slot and that the
output buffer has two more than the threshold under which CRT prints (the code has 200 and
10): a character of a text may be expanded to two. Nothing is assumed of the number of
keys and texts. The permission to notify KCD, and the room
notification, are each a token with one owner (`InputToken`, `RoomToken`): the handler,
a mailbox or the receiver. From the first follows `LineAnnounced` because a carriage
return in the buffer has taken the token from the handler, from the second that a buffer
is not sent twice. `TextsIntact` becomes inductive as an equation: what was sent and what
is in the buffer, without echoes, are the texts that CRT is done with and the expanded
first `offset` characters of the next (`LineInv`).

**The wall clock.** `ClockInv`: the ticks that carry the current `clock_tick`, delayed, in
the mailbox or about to be sent, are *one* while the clock runs and none while it does not
(`LiveCount`; `OneLiveTick` alone would not survive a start). No tick carries a
number that was not given out, so that a start outdates all others. The live tick is at
least as old as the last display (`TickOnTime`), from which `NeverFast` follows, with the
arithmetic of the nested carries (`NextSecondCounts`), for every length of the units. Blocks are
accounted for by counting the messages of each sequence (`CountIn`). `ClockIsNotStarved`
needs that unread messages, ticks on their way and the tick about to be sent are no more
than the commands so far (`CommandsCover`); with nothing free and nothing with CRT, the
only other block is the one in the clock's hand.

**The delayed queue.** For a counter of any width and positive delays up to its largest
signed value: every message in the queue carries the signed view of the counter at the end
of its ticks, and the queue is sorted by it (`QueueInv`). So the front is the message to look
at, and it is early only if the signed view jumps before it is due.

**The list.** The items are `View(start, size, values)`: what each operation does to the ring is
what the operation of the deque does to the view (`PushBackView`, `PushFrontView`,
`PopFrontView`), for any capacity. For `LL_REMOVE` that is an induction over the rounds of its
loop: the slots before `dst` hold what is kept so far, those from `src` on are untouched.

**The programs.** Assumed are six different pids for KCD, CRT, the priority command, A, B
and C, that the rest of the processes spin, the places where the programs start, and of
the lines that are typed that a legal `%C` line names a process and a priority.
`StressInv` is the kernel's `KernelInv` and `PlacesInv` with one part for each program:
what it holds at each place of its loop (`KcdInv`, ..., `CInv`), for C with what
`c_message_queue` keeps, for KCD with its entries. They need one another through the
mailboxes, since what a process takes to be a report, a command or a registration is what
another has put in the block (`Expected`): B is sent reports only, and C reports, and
while it sleeps its own wake-up (`SleepInv`), which is the only message that is ever
delayed. Each statement of a program is a call of the kernel with what follows it, so
the proof takes each call apart once (`SendCall`, `RequestCall`, `ReleaseCall`, `ReadMail`,
`TimerHandlerFacts`): which block moves from which place to which, and that nothing else
does; a program's step then keeps its own part by that, and the others' because it
writes into no block but those in its hands (`MailKept`, `OthersKept`).
`ProgramsLoseNoBlock` is a conjunction of these parts. `SleepsItsTime` holds because the
wake-up is the one letter with the right type, and cannot arrive before
`HIBERNATION` ticks have gone. `NoReportIsLost` looks at the messages between A and C as
one sequence, `OnTheWay`: what C keeps and has in its mailbox, what B holds, and what is in
B's mailbox. `NoReportLost` says that the reports among them are numbered without a gap
from the last one C took to the last one A sent. A step of a program does one of four things
to that sequence: it regroups it (`WayReceive`, `WaySend`, `WayKeep`), puts in or takes out a
message that is no report (C's wake-up call: `WayInsert`, `WayRemove`), takes the first
report away from its head (`WayTake`), or appends the next one (`WayGrows`); every other
step leaves it alone (`StaysInTurn`).

`MemoryIsNotExhausted` counts what can be kept for good. `MemoryInv` says that at most two
blocks hold a registration (`FewRegs`), that the blocks with a line, the lines in the input
and the one that KCD has read are no more than those typed (`FewLines`: a line goes into one
block, because only A registers for `%Z` and only the priority command for `%C`), and that
KCD keeps registrations and the mailboxes of A and the priority command hold lines and
nothing else (`KeptInv`, `KindsInv`). `WaitInv` says at which calls of its loop a program
waits, and that C waits for a message only when it has kept none. If all six wait and
nothing is delayed, every block that is not free is with KCD, the priority command or in the
mailbox of one of them or of A (`WhatIsKept`, `KeptBlocks`), hence a registration or a line;
if somebody waits for memory then none is free, and that takes as many lines as there are
blocks but two. The spinning processes hold nothing and do not count as going on.
`KernelKeepsItsWord` carries the kernel's invariants over to the programs, whose calls and
relative time are not those of `Kernel`'s `Spec`.

**Model-checked only.** Liveness under fairness (`LinesRead`, `TextsPrinted`, `Updated`,
`GoesOn`, `CommandsTake`, `TestsEnd`) is out of the prover's reach. The verdicts of the tests (`TestsPass`) are about one
fixed set of processes, so that a proof would add little to the run.
What `Without` and the loops compute is proved by induction over a set of numbers, as the
provers take no operator as parameter; recursive definitions are functions throughout.

## Findings

1. A tick that preempts is counted twice (`timer_ghost_tick`).
2. After 2^31 ms (24.8 days) delayed messages are delivered at once
   (`delayed_queue_overflow`).
3. 200 keys without a carriage return make the keyboard deaf for good
   (`console_input`).
4. Every start of the wall clock leaves a block in the delayed queue for a second,
   and the clock asks for a display block while holding others. Some 25 starts within a
   second exhaust the 30 blocks, and the clock waits for ever (`wall_clock_memory`).

Smaller remarks, without a run of their own: a process of priority HIGHEST (the wall clock,
the priority command) is preempted by KCD and CRT, which have the same priority, where
README.md:130 asks for a higher one (`PreemptedByBetter` allows for it); `LL_BACK` and
`LL_POP_BACK` read the slot behind the last item, and nobody uses them; a repeated `%Z` leaves its block
in A's mailbox for good; the error message of the priority command displays what its block
held before.

The number of tests is one more disagreement: the program announces `NUM_TESTS`, 147, at
the start of its report (usr_proc.c:251) and asserts at the end that it has made as
many (usr_proc.c:389), but `tests_ran` in `UserTests` comes to 145, all of them passed.
Of these, 118 are the statements of the three programs, and the rest is one for every
block that proc1 releases in `Count blocks`: 27 of the 30, as KCD keeps three for the
registrations of the wall clock, the priority command and proc_A. With one
registration it would be 147. The assertion is compiled out (`NDEBUG`), so that the
report of the build announces 147 and counts 145. No property of a run is about this
number; the invariant `t.finished = 1 => t.tests_ran = NUM_TESTS`, added to
`MCUserTests.cfg` with 147 for `NUM_TESTS`, shows it: TLC ends its trace with 145.

## Plan

Done: all modules, and the proofs of the kernel, the messages, the timer, the list, the
console, the delayed queue and the wall clock, and of the blocks, the reports and the
memory of the programs. Next, in this order:

1. Waiting for memory of processes with different priorities: under which releases
   nobody waits for ever.
2. The time-sliced variant (`k_check_preemption_eager`, `MAX_YIELDS`).

## Not modelled

- Stack and register handling (`__rte`, MSP, the SVC entry), which the model takes as
  the continuation of each process.
- `printf.c`, the polled UART, the cycle counter, the hotkeys' listings: output that
  nothing depends on. What `%WT` and `%C` parse is modelled by what they accept.
- The unit tests inside `message_queue.c`, `priority_queue.c`, `list_test.c` and
  `sys_proc.c`, under macros that the build does not define.
- `manual_code`: the course's example programs, one for each chapter of the board's
  manual, from which the RTX started and which it does not use; most of their lines
  are copies of the vendor's start-up code and of `system_LPC17xx.c`. They make up
  the larger part of the repository's lines, the part that this project leaves alone.
