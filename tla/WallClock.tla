------------------------------- MODULE WallClock -------------------------------
(***************************************************************************)
(* The wall clock, proc_clock of sys_proc.c: the commands %WR, %WS and %WT *)
(* that KCD passes on, and the tick that the clock sends to itself with a  *)
(* delay of a second.  A command does not take back a tick that is already *)
(* on its way; clock_tick, stored in every tick, tells the current one.    *)
(*                                                                         *)
(* Kernel calls are steps here, and between two of them KCD, CRT and the   *)
(* timer do theirs.  A call that has to wait is an action that is not      *)
(* enabled; that the waiting process is woken is shown in module Kernel.   *)
(*                                                                         *)
(* Memory is a number of free blocks: those that KCD's registrations and   *)
(* other processes keep are not counted.                                   *)
(*                                                                         *)
(* Time is what the kernel counts: one unit is one run of the timer's      *)
(* handler, which adds one to g_timer_count.  That is not always a         *)
(* millisecond: the handler runs twice for a tick that preempts (module    *)
(* TimerKernel).  The module covers the life of the counter short of its   *)
(* signed overflow, where a delayed message leaves after exactly its delay *)
(* in counts; what happens at the overflow is in module DelayedQueue.      *)
(***************************************************************************)
EXTENDS Integers, Sequences, FiniteSets, SequencesExt

CONSTANTS HOURS, MINUTES, SECONDS, \* 24, 60, 60
          PERIOD,                  \* counts of g_timer_count that a tick is delayed, 1000
          NUM_BLOCKS,              \* the blocks that clock, KCD and CRT share
          SetTimes,                \* the times that %WS commands set
          MAX_COMMANDS             \* bound on the commands typed

Time == [h : 0 .. HOURS - 1, m : 0 .. MINUTES - 1, s : 0 .. SECONDS - 1]
Midnight == [h |-> 0, m |-> 0, s |-> 0]

ASSUME ClockAssumption ==
  /\ {HOURS, MINUTES, SECONDS, PERIOD, NUM_BLOCKS} \subseteq Nat \ {0}
  /\ SetTimes \subseteq [h : Nat, m : Nat, s : Nat] \* unsigned numbers
  /\ MAX_COMMANDS \in Nat

VARIABLES free,       \* the number of free blocks
          mailbox,    \* the messages for PID_CLOCK
          delayed,    \* the clock's delayed ticks, by expiry
          clock_tick,
          clock,      \* clock_h, clock_m, clock_s
          pc,         \* the kernel call that proc_clock makes next
          msg,        \* the message it has in hand
          displays,   \* the messages for CRT, not printed yet
          commands,   \* the number of commands typed
          since,      \* history: the counts since the last display, up to PERIOD
          running     \* history: the last valid command was not %WT

vars == <<free, mailbox, delayed, clock_tick, clock, pc, msg, displays,
          commands, since, running>>

\* The commands: %WR, %WT, %WS with a time, and one of wrong form.
Commands ==
  [c : {"R", "T", "invalid"}, time : {Midnight}] \cup [c : {"S"}, time : SetTimes]

FromKcd(cmd) == [from |-> "PID_KCD", cmd |-> cmd]
FromClock(tick) == [from |-> "PID_CLOCK", tick |-> tick]
NoMsg == [from |-> "nobody"]

Init ==
  /\ free = NUM_BLOCKS
  /\ mailbox = << >> /\ delayed = << >> /\ displays = << >>
  /\ clock_tick = 0 /\ clock = Midnight
  /\ pc = "receive" /\ msg = NoMsg
  /\ commands = 0 /\ since = 0 /\ running = FALSE

-----------------------------------------------------------------------------
(* KCD, CRT and the timer. *)

\* kcd_process_keyboard_input: a line that starts with %W is copied to a block
\* for the clock.
KcdDispatch(cmd) ==
  /\ commands < MAX_COMMANDS
  /\ free > 0
  /\ free' = free - 1
  /\ commands' = commands + 1
  /\ mailbox' = Append(mailbox, FromKcd(cmd))
  /\ UNCHANGED <<delayed, clock_tick, clock, pc, msg, displays, since, running>>

\* proc_crt has printed the first text and releases its block.
CrtPrint ==
  /\ displays # << >>
  /\ displays' = Tail(displays)
  /\ free' = free + 1
  /\ UNCHANGED <<mailbox, delayed, clock_tick, clock, pc, msg, commands, since, running>>

\* The last count that d waits for.
Expires(d) == d.left <= 1

\* One run of the handler: g_timer_count is one more, and what has expired goes to
\* the mailbox.  The hardware may make it run again within the same millisecond.
TimerHandler ==
  /\ LET n == Cardinality({i \in DOMAIN delayed : Expires(delayed[i])})
     IN  /\ mailbox' = mailbox \o [i \in 1 .. n |-> FromClock(delayed[i].tick)]
         /\ delayed' = [i \in 1 .. Len(delayed) - n |->
                          [delayed[n + i] EXCEPT !.left = @ - 1]]
  /\ since' = IF since < PERIOD THEN since + 1 ELSE since
  /\ UNCHANGED <<free, clock_tick, clock, pc, msg, displays, commands, running>>

-----------------------------------------------------------------------------
(* proc_clock. *)

\* The nested carries of clock_handle_tick.
NextSecond(t) ==
  LET s == (t.s + 1) % SECONDS
      m == IF s = 0 THEN (t.m + 1) % MINUTES ELSE t.m
      h == IF s = 0 /\ m = 0 THEN (t.h + 1) % HOURS ELSE t.h
  IN  [h |-> h, m |-> m, s |-> s]

\* Mutant: a new start does not outdate the ticks on their way.
Outdate_never == clock_tick' = clock_tick
Outdate == clock_tick' = clock_tick + 1

\* Mutant: every tick counts.
IsCurrent_always(tick) == TRUE
\* The comparison of a tick's text with clock_tick.
IsCurrent(tick) == tick = clock_tick

\* Mutant: 24:00:00 is a time.
IsTime_lenient(t) == t.h <= HOURS /\ t.m < MINUTES /\ t.s < SECONDS
\* The check of the numbers of a %WS command.
IsTime(t) == t.h < HOURS /\ t.m < MINUTES /\ t.s < SECONDS

\* clock_handle_message, up to the display that a new start asks for.
HandleMessage(cmd) ==
  \/ /\ cmd.c = "R" \/ (cmd.c = "S" /\ IsTime(cmd.time))
     /\ clock' = cmd.time
     /\ Outdate
     /\ running' = TRUE
     /\ pc' = "request"
  \/ /\ cmd.c = "T"
     /\ Outdate
     /\ running' = FALSE
     /\ pc' = "release"
     /\ UNCHANGED clock
  \/ /\ cmd.c = "invalid" \/ (cmd.c = "S" /\ ~ IsTime(cmd.time))
     /\ pc' = "release"
     /\ UNCHANGED <<clock, clock_tick, running>>

\* The start of clock_handle_tick for a tick.
HandleTick(tick) ==
  /\ IF IsCurrent(tick)
     THEN clock' = NextSecond(clock) /\ pc' = "request"
     ELSE pc' = "release" /\ UNCHANGED clock
  /\ UNCHANGED <<clock_tick, running>>

Receive ==
  /\ pc = "receive"
  /\ mailbox # << >>
  /\ msg' = Head(mailbox)
  /\ mailbox' = Tail(mailbox)
  /\ IF msg'.from = "PID_KCD" THEN HandleMessage(msg'.cmd) ELSE HandleTick(msg'.tick)
  /\ UNCHANGED <<free, delayed, displays, commands, since>>

\* request_memory_block for the next tick.
RequestTick ==
  /\ pc = "request"
  /\ free > 0
  /\ free' = free - 1
  /\ pc' = "printf"
  /\ UNCHANGED <<mailbox, delayed, clock_tick, clock, msg, displays, commands, since, running>>

\* crt_printf: request a block and send it to CRT.
Printf ==
  /\ pc = "printf"
  /\ free > 0
  /\ free' = free - 1
  /\ displays' = Append(displays, clock)
  /\ since' = 0
  /\ pc' = "delayed_send"
  /\ UNCHANGED <<mailbox, delayed, clock_tick, clock, msg, commands, running>>

\* Mutant: the tick of a new start is numbered before clock_tick is counted.
TickText_early == IF msg.from = "PID_KCD" THEN clock_tick - 1 ELSE clock_tick
\* The text of the next tick: clock_tick, as it is now.
TickText == clock_tick

DelayedSend ==
  /\ pc = "delayed_send"
  /\ delayed' = Append(delayed, [tick |-> TickText, left |-> PERIOD])
  /\ pc' = "release"
  /\ UNCHANGED <<free, mailbox, clock_tick, clock, msg, displays, commands, since, running>>

\* Mutant: an outdated tick returns from the loop's body without the release.
Release_in_time ==
  /\ pc = "release"
  /\ free' = IF msg.from = "PID_CLOCK" /\ ~ IsCurrent(msg.tick) THEN free ELSE free + 1
  /\ msg' = NoMsg
  /\ pc' = "receive"
  /\ UNCHANGED <<mailbox, delayed, clock_tick, clock, displays, commands, since, running>>
\* Mutant: a command is not released, only a tick is.
Release_ticks ==
  /\ pc = "release"
  /\ free' = IF msg.from = "PID_CLOCK" THEN free + 1 ELSE free
  /\ msg' = NoMsg
  /\ pc' = "receive"
  /\ UNCHANGED <<mailbox, delayed, clock_tick, clock, displays, commands, since, running>>
\* release_memory_block for the message that was received.
Release ==
  /\ pc = "release"
  /\ free' = free + 1
  /\ msg' = NoMsg
  /\ pc' = "receive"
  /\ UNCHANGED <<mailbox, delayed, clock_tick, clock, displays, commands, since, running>>

proc_clock == Receive \/ RequestTick \/ Printf \/ DelayedSend \/ Release

Next ==
  \/ proc_clock \/ CrtPrint \/ TimerHandler
  \/ \E cmd \in Commands : KcdDispatch(cmd)

Spec == Init /\ [][Next]_vars

\* The timer goes on counting, and the clock and CRT, which have the best
\* priority, run when they can.  Nobody has to type.
FairSpec == Spec /\ WF_vars(proc_clock) /\ WF_vars(CrtPrint) /\ WF_vars(TimerHandler)
-----------------------------------------------------------------------------
(* Properties. *)

TypeOK ==
  /\ free \in 0 .. NUM_BLOCKS
  /\ mailbox \in Seq([from : {"PID_KCD"}, cmd : Commands]
                     \cup [from : {"PID_CLOCK"}, tick : 0 .. MAX_COMMANDS])
  /\ delayed \in Seq([tick : 0 .. MAX_COMMANDS, left : 1 .. PERIOD])
  /\ clock_tick \in 0 .. MAX_COMMANDS
  /\ clock \in Time
  /\ pc \in {"receive", "request", "printf", "delayed_send", "release"}
  /\ displays \in Seq(Time)
  /\ commands \in 0 .. MAX_COMMANDS
  /\ since \in 0 .. PERIOD
  /\ running \in BOOLEAN

\* The number of ticks that will count: on their way, or about to be sent.
LiveTicks ==
  Cardinality({i \in DOMAIN delayed : IsCurrent(delayed[i].tick)})
  + Cardinality({i \in DOMAIN mailbox : /\ mailbox[i].from = "PID_CLOCK"
                                        /\ IsCurrent(mailbox[i].tick)})
  + IF pc \in {"request", "printf", "delayed_send"} THEN 1 ELSE 0

\* While the clock runs there is exactly one live tick, and none while it is
\* stopped, however the commands and the ticks on their way interleave: the
\* clock neither doubles its pace nor dies (sys_proc.c:76-112, 145-195).
OneLiveTick == LiveTicks = IF running THEN 1 ELSE 0

\* Every block is free, in hand, or on its way to a process that releases it.
BlocksAccounted ==
  free + Len(mailbox) + Len(delayed) + Len(displays)
    + (IF pc = "receive" THEN 0 ELSE 1)
    + (IF pc \in {"printf", "delayed_send"} THEN 1 ELSE 0) = NUM_BLOCKS

\* The clock does not wait for a block that nobody will release: while it wants one,
\* one is free or CRT has one to print, unless as many commands have been typed as
\* there are blocks but one.  Each block of the pool would then be an unread
\* command, or a tick of another start (sys_proc.c:101, 108).
ClockGetsMemory ==
  pc \in {"request", "printf"} /\ commands < NUM_BLOCKS - 1
    => free > 0 \/ displays # << >>

\* A tick makes the clock advance only when g_timer_count has counted a whole
\* PERIOD since the last display, whatever earlier starts have left in the delayed
\* queue, and then to the next second of the day (sys_proc.c:85-91, 111).  This is
\* about counts, short of the signed overflow of g_timer_count: in milliseconds
\* the clock may be fast, by the ticks that TimerKernel shows to be counted twice.
SecondsOf(t) == (t.h * MINUTES + t.m) * SECONDS + t.s
NeverFast ==
  [][/\ pc = "receive" /\ pc' = "request" /\ msg'.from = "PID_CLOCK"
     => /\ since = PERIOD
        /\ SecondsOf(clock') = (SecondsOf(clock) + 1) % (HOURS * MINUTES * SECONDS)]_vars

\* A running clock goes on displaying the time (sys_proc.c:154-156: "The display
\* will be updated every second").  It does as long as there is memory; with
\* too many ticks on their way at once it waits for a block that only itself
\* could release.
Updated == []<>(running => since = 0)
=============================================================================
