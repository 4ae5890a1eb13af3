-------------------------------- MODULE Kernel --------------------------------
(***************************************************************************)
(* The RTX kernel: its system calls and its interrupt handlers over the    *)
(* processor scheduler (Scheduler), the memory pool (k_memory.c), the      *)
(* mailboxes and the delayed messages (k_process.c, message_queue.c).      *)
(*                                                                         *)
(* No exception priority is ever configured, so the SVC, timer and UART    *)
(* exceptions cannot interrupt one another: a system call or an interrupt  *)
(* handler is one step, and interrupts arrive only while a process runs    *)
(* its own code.  A call may give the processor away in the middle; what   *)
(* is left of it is then run, before anything else, by the step that finds *)
(* the process running again.  cont[p] records what that is:               *)
(*   "user"      nothing: p runs its own code                              *)
(*   "request"   the while loop of k_request_memory_block                  *)
(*   "receive"   the while loop of k_receive_message                       *)
(*   "timer"     the acknowledgement at the end of the timer handler       *)
(*                                                                         *)
(* The environment is a set of well-behaved processes: each one sends or   *)
(* releases only blocks that it holds, except that it may release a block  *)
(* twice, which the kernel detects.  held is a history variable that says  *)
(* who holds what; the code keeps no such record.                          *)
(***************************************************************************)
EXTENDS Scheduler

CONSTANTS PID_UART_IPROC,
          NUM_MEM_BLOCKS, \* 30 in k_rtx.h
          Delays,         \* the delays, in ms, that processes ask for
          Receivers,      \* the pids that processes send to
          PriorityCalls,  \* the pairs <<pid, priority>> that processes set
          MAX_TICKS       \* bound on g_timer_count; below 2^31 it never wraps

ASSUME KernelAssumption ==
  /\ PID_UART_IPROC \in IProcs
  /\ NUM_MEM_BLOCKS \in Nat \ {0}
  /\ Delays \subseteq Nat
  /\ Receivers \subseteq Procs
  /\ PriorityCalls \subseteq Procs \X Int
  /\ MAX_TICKS \in Nat

VARIABLES k,                    \* the scheduler's state
          g_heap,               \* the free blocks
          g_message_queues,     \* the mailbox of every process
          g_delayed_msg_queue,  \* the delayed messages, by expiry
          g_timer_count,
          held,                 \* history: the blocks that each process holds
          cont                  \* what is left of each process's kernel call

vars == <<k, g_heap, g_message_queues, g_delayed_msg_queue, g_timer_count, held, cont>>

mem_blocks == 1 .. NUM_MEM_BLOCKS
notif_in_msg == 0     \* the two messages of uart_irq.c, not in the pool
notif_out_msg == -1
Notifications == {notif_in_msg, notif_out_msg}

\* A message in a mailbox and in the delayed queue: the block and the header
\* fields that the kernel writes into it.
Envelope == [msg : mem_blocks \cup Notifications, m_send_pid : Procs]
DelayedEnvelope == [msg : mem_blocks, m_send_pid : Procs, m_recv_pid : Procs, expiry : Nat]

Conts == {"user", "request", "receive", "timer"}

\* The pid that executes a system call.
Caller == k.running

\* A process runs its own code, and interrupts can be taken.
UserMode == k.running # PID_NONE /\ cont[k.running] = "user"

\* A process is about to make a system call: the null process makes none.
CanCall == UserMode /\ k.running # PID_NULL

\* The while loop of system call `what` is entered or continued.
Loops(what) ==
  \/ CanCall
  \/ k.running # PID_NONE /\ cont[k.running] = what

-----------------------------------------------------------------------------
(* The delayed queue. *)

\* Mutant: a message that expires now is kept one tick longer.
ExpiredCount_late(q, t) ==
  CHOOSE n \in 0 .. Len(q) : /\ \A i \in 1 .. n : q[i].expiry < t
                             /\ n < Len(q) => q[n + 1].expiry >= t
\* The length of the front part of q that expires by time t, where the loops of
\* enqueue_message and of k_check_delayed_messages stop.
ExpiredCount(q, t) ==
  CHOOSE n \in 0 .. Len(q) : /\ \A i \in 1 .. n : q[i].expiry <= t
                             /\ n < Len(q) => q[n + 1].expiry > t

\* Mutant: in front of the messages of the same expiry.
enqueue_message_lifo(m, q) ==
  LET n == Cardinality({i \in DOMAIN q : q[i].expiry < m.expiry})
  IN  SubSeq(q, 1, n) \o <<m>> \o SubSeq(q, n + 1, Len(q))
\* enqueue_message: behind every message that does not expire later.
enqueue_message(m, q) ==
  LET n == ExpiredCount(q, m.expiry)
  IN  SubSeq(q, 1, n) \o <<m>> \o SubSeq(q, n + 1, Len(q))

-----------------------------------------------------------------------------
(* Sending. *)

\* Mutant: the receiver is not woken.
k_send_message_helper_quiet(s, sender_pid, receiver_pid, msg) ==
  [k |-> s.k,
   mail |-> [s.mail EXCEPT ![receiver_pid] =
               Append(@, [msg |-> msg, m_send_pid |-> sender_pid])]]
\* Mutant: in front of the messages that wait already.
k_send_message_helper_front(s, sender_pid, receiver_pid, msg) ==
  [k |-> WakeReceiver(s.k, receiver_pid),
   mail |-> [s.mail EXCEPT ![receiver_pid] =
               <<[msg |-> msg, m_send_pid |-> sender_pid]>> \o @]]
\* k_send_message_helper on scheduler state s.k and mailboxes s.mail.
k_send_message_helper(s, sender_pid, receiver_pid, msg) ==
  [k |-> WakeReceiver(s.k, receiver_pid),
   mail |-> [s.mail EXCEPT ![receiver_pid] =
               Append(@, [msg |-> msg, m_send_pid |-> sender_pid])]]

\* k_check_delayed_messages: deliver the first n messages of q, in order.
Delivered(s, q, n) ==
  LET d[i \in 0 .. n] ==
        IF i = 0 THEN s
        ELSE k_send_message_helper(d[i - 1], q[i].m_send_pid, q[i].m_recv_pid, q[i].msg)
  IN  d[n]

Sent(receiver_pid, msg, sender_pid) ==
  k_send_message_helper([k |-> k, mail |-> g_message_queues], sender_pid, receiver_pid, msg)

-----------------------------------------------------------------------------
(* Boot: memory_init, process_init and the k_release_processor that starts *)
(* the first process.                                                      *)

Init ==
  /\ k = process_init
  /\ g_heap = [i \in mem_blocks |-> NUM_MEM_BLOCKS + 1 - i]
  /\ g_message_queues = [p \in Procs |-> << >>]
  /\ g_delayed_msg_queue = << >>
  /\ g_timer_count = 0
  /\ held = [p \in Procs |-> {}]
  /\ cont = [p \in Procs |-> "user"]

Boot ==
  /\ k.running = PID_NONE
  /\ k' = k_release_processor(k)
  /\ UNCHANGED <<g_heap, g_message_queues, g_delayed_msg_queue, g_timer_count, held, cont>>

-----------------------------------------------------------------------------
(* System calls.  Calls with rejected arguments and k_get_process_priority *)
(* change nothing and have no action.                                      *)

ReleaseProcessor ==
  /\ CanCall
  /\ k' = k_release_processor(k)
  /\ UNCHANGED <<g_heap, g_message_queues, g_delayed_msg_queue, g_timer_count, held, cont>>

\* Mutant: negative priorities pass.
ValidPriority_negative(pid, priority) == pid # PID_NULL /\ priority < NULL_PRIO
\* The argument checks of k_set_process_priority.
ValidPriority(pid, priority) == pid # PID_NULL /\ priority \in 0 .. NULL_PRIO - 1

SetProcessPriority(pid, priority) ==
  /\ CanCall
  /\ ValidPriority(pid, priority)
  /\ k.m_priority[pid] # priority
  /\ k' = SetPriority(k, pid, priority, Len(g_heap))
  /\ UNCHANGED <<g_heap, g_message_queues, g_delayed_msg_queue, g_timer_count, held, cont>>

\* k_request_memory_block: wait while the heap is empty, then take its front.
RequestMemoryBlock ==
  /\ Loops("request")
  /\ IF g_heap = << >>
     THEN /\ k' = k_poll(k, BLOCKED_ON_RESOURCE)
          /\ cont' = [cont EXCEPT ![Caller] = "request"]
          /\ UNCHANGED <<g_heap, held>>
     ELSE /\ g_heap' = Tail(g_heap)
          /\ held' = [held EXCEPT ![Caller] = @ \cup {Head(g_heap)}]
          /\ cont' = [cont EXCEPT ![Caller] = "user"]
          /\ k' = k
  /\ UNCHANGED <<g_message_queues, g_delayed_msg_queue, g_timer_count>>

\* Mutant: a block on the free list passes.
k_release_memory_block_valid_any(b) == b \in mem_blocks
\* k_release_memory_block_valid on the address of a block: not free already.
k_release_memory_block_valid(b) == ~ Occurs(g_heap, b)

ReleaseMemoryBlock(b) ==
  /\ CanCall
  /\ \/ b \in held[Caller]
     \/ Occurs(g_heap, b)
  /\ k_release_memory_block_valid(b)
  /\ g_heap' = Append(g_heap, b)
  /\ held' = [held EXCEPT ![Caller] = @ \ {b}]
  /\ k' = k_check_preemption(k, Len(g_heap'))
  /\ UNCHANGED <<g_message_queues, g_delayed_msg_queue, g_timer_count, cont>>

\* k_send_message, which is also k_delayed_send with a delay of 0.
SendMessage(receiver_pid, b) ==
  /\ CanCall
  /\ b \in held[Caller]
  /\ LET s == Sent(receiver_pid, b, Caller)
     IN  /\ k' = k_check_preemption(s.k, Len(g_heap))
         /\ g_message_queues' = s.mail
  /\ held' = [held EXCEPT ![Caller] = @ \ {b}]
  /\ UNCHANGED <<g_heap, g_delayed_msg_queue, g_timer_count, cont>>

\* k_delayed_send with a delay: queue the message, and do nothing else.
DelayedSend(receiver_pid, b, delay) ==
  /\ CanCall
  /\ b \in held[Caller]
  /\ delay > 0
  /\ g_delayed_msg_queue' =
       enqueue_message([msg |-> b, m_send_pid |-> Caller, m_recv_pid |-> receiver_pid,
                        expiry |-> delay + g_timer_count], g_delayed_msg_queue)
  /\ held' = [held EXCEPT ![Caller] = @ \ {b}]
  /\ UNCHANGED <<k, g_heap, g_message_queues, g_timer_count, cont>>

\* k_receive_message: wait while the mailbox is empty, then take its front.
ReceiveMessage ==
  /\ Loops("receive")
  /\ IF g_message_queues[Caller] = << >>
     THEN /\ k' = k_poll(k, BLOCKED_ON_RECEIVE)
          /\ cont' = [cont EXCEPT ![Caller] = "receive"]
          /\ UNCHANGED <<g_message_queues, held>>
     ELSE /\ g_message_queues' = [g_message_queues EXCEPT ![Caller] = Tail(@)]
          /\ held' = [held EXCEPT ![Caller] =
                        @ \cup ({Head(g_message_queues[Caller]).msg} \ Notifications)]
          /\ cont' = [cont EXCEPT ![Caller] = "user"]
          /\ k' = k
  /\ UNCHANGED <<g_heap, g_delayed_msg_queue, g_timer_count>>

-----------------------------------------------------------------------------
(* Interrupts. *)

\* c_TIMER0_IRQHandler: count, deliver what has expired, look for a process to
\* preempt to.  The interrupted process still has to acknowledge the interrupt
\* when it gets the processor back.
TimerIrq ==
  /\ UserMode
  /\ g_timer_count < MAX_TICKS
  /\ g_timer_count' = g_timer_count + 1
  /\ LET n == ExpiredCount(g_delayed_msg_queue, g_timer_count')
         s == Delivered([k |-> k, mail |-> g_message_queues], g_delayed_msg_queue, n)
     IN  /\ k' = k_check_preemption(s.k, Len(g_heap))
         /\ g_message_queues' = s.mail
         /\ g_delayed_msg_queue' =
              SubSeq(g_delayed_msg_queue, n + 1, Len(g_delayed_msg_queue))
  /\ cont' = IF k'.running = k.running THEN cont
             ELSE [cont EXCEPT ![k.running] = "timer"]
  /\ UNCHANGED <<g_heap, held>>

\* The rest of a timer handler that was left by a process switch.
TimerAck ==
  /\ k.running # PID_NONE
  /\ cont[k.running] = "timer"
  /\ cont' = [cont EXCEPT ![k.running] = "user"]
  /\ UNCHANGED <<k, g_heap, g_message_queues, g_delayed_msg_queue, g_timer_count, held>>

\* c_UART0_IRQHandler, with no notification to send.
UartIrq ==
  /\ UserMode
  /\ k' = k_check_preemption(k, Len(g_heap))
  /\ UNCHANGED <<g_heap, g_message_queues, g_delayed_msg_queue, g_timer_count, held, cont>>

\* Mutant: the flags are ignored.
MayNotify_always(pid, msg) == msg \in Notifications
\* The flags of uart_irq.c keep a notification from being sent while it is still
\* queued (the module Uart shows that they do).
MayNotify(pid, msg) ==
  \A i \in DOMAIN g_message_queues[pid] : g_message_queues[pid][i].msg # msg

\* c_UART0_IRQHandler, notifying KCD of input or CRT of space for output.
UartNotify(pid, msg) ==
  /\ UserMode
  /\ MayNotify(pid, msg)
  /\ LET s == Sent(pid, msg, PID_UART_IPROC)
     IN  /\ k' = k_check_preemption(s.k, Len(g_heap))
         /\ g_message_queues' = s.mail
  /\ UNCHANGED <<g_heap, g_delayed_msg_queue, g_timer_count, held, cont>>

-----------------------------------------------------------------------------
\* A system call, the start of the system or an interrupt of the UART.
CallOrUart ==
  \/ Boot
  \/ ReleaseProcessor
  \/ \E call \in PriorityCalls : SetProcessPriority(call[1], call[2])
  \/ RequestMemoryBlock
  \/ \E b \in mem_blocks : ReleaseMemoryBlock(b)
  \/ \E pid \in Receivers, b \in mem_blocks : SendMessage(pid, b)
  \/ \E pid \in Receivers, b \in mem_blocks, delay \in Delays : DelayedSend(pid, b, delay)
  \/ ReceiveMessage
  \/ UartIrq
  \/ UartNotify(PID_KCD, notif_in_msg)
  \/ UartNotify(PID_CRT, notif_out_msg)

Next == CallOrUart \/ TimerIrq \/ TimerAck

Spec == Init /\ [][Next]_vars
-----------------------------------------------------------------------------
(* Properties. *)

TypeOK ==
  /\ SchedulerTypeOK(k)
  /\ g_heap \in Seq(mem_blocks)
  /\ g_message_queues \in [Procs -> Seq(Envelope)]
  /\ g_delayed_msg_queue \in Seq(DelayedEnvelope)
  /\ g_timer_count \in 0 .. MAX_TICKS
  /\ held \in [Procs -> SUBSET mem_blocks]
  /\ cont \in [Procs -> Conts]

\* A process is queued exactly once, in the queue that its state names and in
\* the list of its current priority, whatever calls changed its state, its
\* priority or the processor's owner: no process is lost and none is queued
\* twice (k_process.c:204-246, 297-320, 248-275).
NoProcessLost == QueuesMatchStates(k)

\* No process waits for memory while a block is free, and none waits for a
\* message while its mailbox holds one (k_memory.c:102-108, k_process.c:384-388,
\* 424-429).
NoMissedWakeup ==
  \A p \in Procs :
    /\ k.m_state[p] = BLOCKED_ON_RESOURCE => g_heap = << >>
    /\ k.m_state[p] = BLOCKED_ON_RECEIVE => g_message_queues[p] = << >>

\* A parked call waits for what its process state says: a process blocked on
\* memory is inside k_request_memory_block, one blocked on a message inside
\* k_receive_message, and a process not started yet is inside no call.
WaitsWhereItBlocked ==
  \A p \in Procs :
    /\ k.m_state[p] = BLOCKED_ON_RESOURCE => cont[p] = "request"
    /\ k.m_state[p] = BLOCKED_ON_RECEIVE => cont[p] = "receive"
    /\ k.m_state[p] = NEW_ => cont[p] = "user" /\ held[p] = {}

\* Whenever a process runs its own code, no ready process has a better
\* priority (README, "Check Preemption"; k_process.c:137-155, 297-320).
HighestPriorityRuns ==
  UserMode =>
    \A p \in Procs : InQueue(k.ready, p) => k.m_priority[k.running] <= k.m_priority[p]

\* How often block b occurs on the free list, with the processes, in the
\* mailboxes and in the delayed queue.
Places(b) ==
  {<<"heap", i>> : i \in {i \in DOMAIN g_heap : g_heap[i] = b}}
  \cup {<<"held", p>> : p \in {p \in Procs : b \in held[p]}}
  \cup {<<"delayed", i>> :
          i \in {i \in DOMAIN g_delayed_msg_queue : g_delayed_msg_queue[i].msg = b}}
  \cup UNION {{<<"mailbox", p, i>> :
          i \in {i \in DOMAIN g_message_queues[p] : g_message_queues[p][i].msg = b}}
                 : p \in Procs}

\* A block is always in exactly one place: none leaks, and none is handed out,
\* queued or delivered twice, double releases included (k_memory.c:130-135).
BlockConservation == \A b \in mem_blocks : Cardinality(Places(b)) = 1

\* The kernel implements what Ipc promises of blocks and messages, whatever it does
\* to its queues and lets run: a call that waits, is interrupted or gives the
\* processor away moves a block once or not at all, letters are read in order, and a
\* tick delivers all that is due and nothing else (k_memory.c:95-145, k_process.c:356-497,
\* message_queue.c:26-54).
Contents(s) == {s[i] : i \in DOMAIN s}
I == INSTANCE Ipc WITH Blocks <- mem_blocks, Notices <- Notifications,
                       free <- Contents(g_heap), mail <- g_message_queues,
                       delayed <- Contents(g_delayed_msg_queue), now <- g_timer_count
IpcSpec == I!Spec

\* No mailbox ever holds more than the NUM_MEM_BLOCKS + 2 messages of its
\* list, which is not checked when the program is built without assertions
\* (k_process.c:53, 382; list.c:22).
MailboxFits ==
  \A p \in Procs : Len(g_message_queues[p]) <= NUM_MEM_BLOCKS + 2

\* A message leaves the delayed queue in the tick that reaches its expiry: no
\* earlier, no later, and with every other message of that expiry
\* (message_queue.c:34, k_process.c:487-497).
DeliveredOnTime ==
  [][\A i \in DOMAIN g_delayed_msg_queue :
       LET m == g_delayed_msg_queue[i]
       IN  Occurs(g_delayed_msg_queue', m) <=> g_timer_count' < m.expiry]_vars

\* The delayed messages for one process reach its mailbox by expiry, and those
\* of equal expiry in the order in which they were sent: a newly sent message
\* lines up behind those that expire with it or before it, and a tick delivers
\* from the front on (message_queue.c:44-52, k_process.c:487-497).
DelayedOrder ==
  [][LET q == g_delayed_msg_queue
         Sooner(m, n) == \/ m.expiry < n.expiry
                         \/ m.expiry = n.expiry /\ Occurs(q, m) /\ ~ Before(q, n, m)
     IN  /\ \A i, j \in DOMAIN q' : Sooner(q'[i], q'[j]) /\ i # j => i < j
         /\ \A m, n \in {q[i] : i \in DOMAIN q} :
              LET box == g_message_queues'[m.m_recv_pid]
                  At(x) == {b \in DOMAIN box : box[b].msg = x.msg}
              IN  Before(q, m, n) /\ m.m_recv_pid = n.m_recv_pid /\ At(n) # {}
                    => \E a \in At(m), b \in At(n) : a < b]_vars

\* Processes of one priority get the processor first come, first served: a step
\* puts newcomers behind the processes that stay in a list, keeps those in
\* order, and gives the processor to none but the first of them, unless KCD or
\* CRT jumps the queue (k_process.c:137-155, priority_queue.c:9-12, 30-63).
FirstComeFirstServed ==
  [][\A i \in Priorities, p, r \in Procs :
       InList(k.ready, i, p) /\ InList(k'.ready, i, p) /\ p # r =>
         /\ InList(k'.ready, i, r) /\ (InList(k.ready, i, r) => Before(k.ready[i], p, r))
              => Before(k'.ready[i], p, r)
         /\ Before(k.ready[i], p, r) /\ r = k'.running /\ k'.m_priority[r] = i
              => r \in {PID_KCD, PID_CRT}]_vars

\* A process that is still ready has lost the processor without asking for it.
Preempted ==
  /\ UserMode
  /\ k'.running # k.running
  /\ k'.m_state[k.running] = RDY
  /\ ~ ReleaseProcessor

\* A process is preempted by a process of better priority, or by KCD or CRT of
\* its own priority, the best one; the others share a priority without taking
\* the processor from one another (k_process.c:297-320, priority_queue.c:34-39).
PreemptedByBetter ==
  [][Preempted =>
       \/ k'.m_priority[k'.running] < k'.m_priority[k.running]
       \/ /\ k'.running \in {PID_KCD, PID_CRT}
          /\ k'.m_priority[k'.running] = HIGHEST]_vars
=============================================================================
