------------------------------- MODULE Processes -------------------------------
(***************************************************************************)
(* The processes that serve the others, as programs over the kernel: KCD   *)
(* (kcd.c), CRT (crt.c) and the priority command (proc_set_prio), with the *)
(* console that types to them.  Modules Stress and UserTests add processes *)
(* of usr_proc.c.                                                          *)
(*                                                                         *)
(* pc[p] is the kernel call that p makes next, or is inside of; what the   *)
(* program does between two calls happens in the step of the first one     *)
(* when it returns.  The calls are those of module Kernel, which may park  *)
(* the process: the program moves on when the call returns.                *)
(*                                                                         *)
(* The console hands over whole lines, and has room for every text: that   *)
(* of the messages here is a line each, of which a hundred characters fit  *)
(* into its buffer.  Module Uart has its characters and a full buffer.     *)
(* A text is a record of what its reader takes from it: the command that a *)
(* line or a registration starts with, a number, or some other string.     *)
(* Time is relative: an expiry is what is left of a delay, and             *)
(* g_timer_count stays 0.                                                  *)
(***************************************************************************)
EXTENDS Kernel

CONSTANTS PID_SET_PRIO,
          StartPoint,   \* where the program of each process starts
          Lines         \* the lines that the user may type first, second, ...:
                        \* [cmd |-> ...], with the arguments of %C

AllLines == UNION {Lines[n] : n \in DOMAIN Lines}

\* The form of a legal %C line admits one or two digits that name a process, and one
\* that is a priority (sys_proc.c:249-265).
ASSUME ProcessesAssumption ==
  /\ PID_SET_PRIO \in Procs \ IProcs
  /\ Lines \in Seq(SUBSET AllLines)
  /\ \A line \in AllLines :
       /\ "cmd" \in DOMAIN line
       /\ line.cmd = "%C" /\ line.legal => line.pid \in Procs /\ line.priority \in Nat

VARIABLES pc,
          hand,       \* the block in the local pointer of each process
          display_msg, \* and in the second one of proc_set_prio
          text,       \* mtype and mtext of every block
          entries,    \* KCD's registered commands
          msg_buf,    \* KCD's line, the entry it has come to, and the pids served
          output,     \* CRT's texts
          inbuf,      \* the lines typed and not yet read
          uart_iproc_notif_in,
          typed       \* the number of lines typed

kcdVars == <<entries, msg_buf, inbuf, uart_iproc_notif_in>>
consoleVars == <<kcdVars, output, typed>>
locals == <<hand, display_msg, text>>
procVars == <<pc, locals, consoleVars>>

NoBlock == -2
NoLine == [line |-> [cmd |-> ""], cur |-> 1, sent_to |-> {}]

\* The message types of common.h.
DEFAULT == 0
KCD_REG == 1
CRT_DISPLAY == 3
COUNT_REPORT == 4
WAKEUP_10 == 5

-----------------------------------------------------------------------------
(* Program steps.  They leave to the program what is not the call's. *)

\* p runs its own code at point `at`, or is inside the call it made there.
At(p, at) == Caller = p /\ pc[p] = at

Goto(p, at) == pc' = [pc EXCEPT ![p] = at]
Put(p, b) == hand' = [hand EXCEPT ![p] = b]

\* p goes from `at` to `then` without a call.
Step(p, at, then) ==
  /\ At(p, at) /\ CanCall
  /\ Goto(p, then)
  /\ UNCHANGED vars

\* request_memory_block() returns a block into p's hand, or parks p.
Request(p, at, then) ==
  /\ At(p, at)
  /\ RequestMemoryBlock
  /\ IF g_heap = << >>
     THEN UNCHANGED <<pc, hand>>
     ELSE Put(p, Head(g_heap)) /\ Goto(p, then)
  /\ UNCHANGED <<display_msg, text>>

HasMail(p) == g_message_queues[p] # << >>
Mail(p) == Head(g_message_queues[p])

\* receive_message() parks p.
ReceiveNothing(p, at) ==
  /\ At(p, at)
  /\ ~ HasMail(p)
  /\ ReceiveMessage
  /\ UNCHANGED procVars

Message(mtype, mtext) == [mtype |-> mtype, mtext |-> mtext]

\* receive_message() returns the first message into p's hand.
Receive(p, at, then) ==
  /\ At(p, at)
  /\ HasMail(p)
  /\ ReceiveMessage
  /\ Put(p, Mail(p).msg)
  /\ Goto(p, then)
  /\ UNCHANGED <<display_msg, text>>

\* p writes `content` into the block in its hand and sends it.
Send(p, at, receiver, content, then) ==
  /\ At(p, at)
  /\ SendMessage(receiver, hand[p])
  /\ text' = [text EXCEPT ![hand[p]] = content]
  /\ Put(p, NoBlock)
  /\ Goto(p, then)
  /\ UNCHANGED display_msg

\* What is left in a released block is not modelled: whoever requests it writes
\* it, but for the text of SetPrioError.
Free(b) == /\ ReleaseMemoryBlock(b)
           /\ text' = [text EXCEPT ![b] = Message(DEFAULT, [str |-> ""])]

Release(p, at, then) ==
  /\ At(p, at)
  /\ Free(hand[p])
  /\ Put(p, NoBlock)
  /\ Goto(p, then)
  /\ UNCHANGED display_msg

\* release_processor().
Yield(p, at, then) ==
  /\ At(p, at)
  /\ ReleaseProcessor
  /\ Goto(p, then)

\* kcd_register: request a block and send the prefix to KCD.
kcd_register(p, prefix, then) ==
  /\ \/ Request(p, "register", "send_register")
     \/ Send(p, "send_register", PID_KCD, Message(KCD_REG, [cmd |-> prefix]), then)
  /\ UNCHANGED consoleVars

-----------------------------------------------------------------------------
(* KCD. *)

\* A registration is kept in `entries`, behind the others; a notification makes
\* KCD read.
KcdReceive ==
  /\ At(PID_KCD, "receive") /\ HasMail(PID_KCD)
  /\ ReceiveMessage
  /\ IF Mail(PID_KCD).msg \in Notifications
     THEN Goto(PID_KCD, "getc") /\ UNCHANGED entries
     ELSE entries' = Append(entries, Mail(PID_KCD)) /\ UNCHANGED pc
  /\ UNCHANGED <<locals, msg_buf, inbuf, uart_iproc_notif_in, output, typed>>

\* uart_iproc_getc up to the end of a line, or to NO_CHAR.
KcdGetc ==
  /\ IF inbuf = << >>
     THEN /\ Step(PID_KCD, "getc", "receive")
          /\ uart_iproc_notif_in' = TRUE
          /\ UNCHANGED <<msg_buf, inbuf>>
     ELSE /\ Step(PID_KCD, "getc", "dispatch")
          /\ msg_buf' = [line |-> Head(inbuf), cur |-> 1, sent_to |-> {}]
          /\ inbuf' = Tail(inbuf)
          /\ UNCHANGED uart_iproc_notif_in
  /\ UNCHANGED <<locals, entries, output, typed>>

\* Mutant: the front of the list is passed over.
ToServe_next ==
  {i \in DOMAIN entries : /\ i > msg_buf.cur
                          /\ text[entries[i].msg].mtext.cmd = msg_buf.line.cmd
                          /\ entries[i].m_send_pid \notin msg_buf.sent_to}
\* The entries that kcd_process_keyboard_input still has to serve: those whose
\* prefix the line starts with, once for every process.
ToServe ==
  {i \in DOMAIN entries : /\ i >= msg_buf.cur
                          /\ text[entries[i].msg].mtext.cmd = msg_buf.line.cmd
                          /\ entries[i].m_send_pid \notin msg_buf.sent_to}

KcdDispatch ==
  \/ /\ ToServe = {}
     /\ Step(PID_KCD, "dispatch", "getc")
     /\ msg_buf' = NoLine
     /\ UNCHANGED <<locals, entries, inbuf, uart_iproc_notif_in, output, typed>>
  \/ /\ ToServe # {}
     /\ Request(PID_KCD, "dispatch", "forward")
     /\ UNCHANGED consoleVars
  \/ LET i == Smallest(ToServe)
         pid == entries[i].m_send_pid
     IN  /\ Send(PID_KCD, "forward", pid, Message(DEFAULT, msg_buf.line), "dispatch")
         /\ msg_buf' = [msg_buf EXCEPT !.cur = i + 1, !.sent_to = @ \cup {pid}]
         /\ UNCHANGED <<entries, inbuf, uart_iproc_notif_in, output, typed>>

proc_kcd == ReceiveNothing(PID_KCD, "receive") \/ KcdReceive \/ KcdGetc \/ KcdDispatch

-----------------------------------------------------------------------------
(* CRT. *)

\* A text joins the queue.
CrtReceive ==
  /\ Receive(PID_CRT, "receive", "print")
  /\ output' = Append(output, Mail(PID_CRT).msg)

\* The first text is printed, and its block released.
CrtPrint ==
  /\ output # << >>
  /\ At(PID_CRT, "print")
  /\ Free(Head(output))
  /\ output' = Tail(output)
  /\ UNCHANGED <<pc, hand, display_msg>>

CrtWait ==
  /\ output = << >>
  /\ Step(PID_CRT, "print", "receive")
  /\ UNCHANGED <<locals, output>>

proc_crt ==
  \/ ReceiveNothing(PID_CRT, "receive")
  \/ (CrtReceive \/ CrtPrint \/ CrtWait) /\ UNCHANGED <<kcdVars, typed>>

-----------------------------------------------------------------------------
(* The priority command: %C pid priority. *)

\* The error of set_process_priority.
SetPriorityFails(pid, priority) ==
  ~ (pid = PID_NULL /\ priority = NULL_PRIO) /\ ~ ValidPriority(pid, priority)

\* set_process_priority returns RTX_OK, having changed the priority or not.
SetProcess(p, at, pid, priority, then) ==
  /\ ~ SetPriorityFails(pid, priority)
  /\ IF k.m_priority[pid] = priority
     THEN Step(p, at, then)
     ELSE At(p, at) /\ SetProcessPriority(pid, priority) /\ Goto(p, then)

\* The line that proc_set_prio has received.  Only a legal one has arguments.
Command == text[hand[PID_SET_PRIO]].mtext

\* proc_set_prio between two lines.
SetPrioCommand ==
  /\ At(PID_SET_PRIO, "set")
  /\ \/ ~ Command.legal /\ Step(PID_SET_PRIO, "set", "release")
     \/ /\ Command.legal
        /\ \/ SetProcess(PID_SET_PRIO, "set", Command.pid, Command.priority, "release")
           \/ /\ SetPriorityFails(Command.pid, Command.priority)
              /\ Step(PID_SET_PRIO, "set", "request")
  /\ UNCHANGED locals

\* The error goes to CRT in a new block, whose text nobody writes.
SetPrioError ==
  \/ /\ At(PID_SET_PRIO, "request")
     /\ RequestMemoryBlock
     /\ IF g_heap = << >>
        THEN UNCHANGED <<pc, display_msg>>
        ELSE display_msg' = Head(g_heap) /\ Goto(PID_SET_PRIO, "display")
     /\ UNCHANGED <<hand, text>>
  \/ /\ At(PID_SET_PRIO, "display")
     /\ SendMessage(PID_CRT, display_msg)
     /\ text' = [text EXCEPT ![display_msg].mtype = CRT_DISPLAY]
     /\ display_msg' = NoBlock
     /\ Goto(PID_SET_PRIO, "release")
     /\ UNCHANGED hand

proc_set_prio ==
  \/ kcd_register(PID_SET_PRIO, "%C", "receive")
  \/ ReceiveNothing(PID_SET_PRIO, "receive")
  \/ /\ \/ Receive(PID_SET_PRIO, "receive", "set")
        \/ SetPrioCommand
        \/ SetPrioError
        \/ Release(PID_SET_PRIO, "release", "receive")
     /\ UNCHANGED consoleVars

-----------------------------------------------------------------------------
(* Interrupts. *)

\* The messages that stay delayed after a count of g_timer_count.
Later(q) ==
  LET n == ExpiredCount(q, 1)
  IN  [i \in 1 .. Len(q) - n |-> [q[n + i] EXCEPT !.expiry = @ - 1]]

\* One run of the timer's handler, with the counts that are left in the place of
\* expiries: the counter is short of its signed overflow (module DelayedQueue).
TimerHandler ==
  /\ UserMode
  /\ LET q == g_delayed_msg_queue
         n == ExpiredCount(q, 1)
         s == Delivered([k |-> k, mail |-> g_message_queues], q, n)
     IN  /\ k' = k_check_preemption(s.k, Len(g_heap))
         /\ g_message_queues' = s.mail
         /\ g_delayed_msg_queue' = Later(q)
  /\ cont' = IF k'.running = k.running THEN cont
             ELSE [cont EXCEPT ![k.running] = "timer"]
  /\ UNCHANGED <<g_heap, g_timer_count, held, procVars>>

\* A line is typed: uart_send_input_char, when it comes to the carriage return.
Type(line) ==
  /\ typed' = typed + 1
  /\ inbuf' = Append(inbuf, line)
  /\ IF uart_iproc_notif_in
     THEN UartNotify(PID_KCD, notif_in_msg) /\ uart_iproc_notif_in' = FALSE
     ELSE UartIrq /\ UNCHANGED uart_iproc_notif_in
  /\ UNCHANGED <<pc, locals, entries, msg_buf, output>>

-----------------------------------------------------------------------------
ProcessesInit ==
  /\ Init
  /\ pc = StartPoint
  /\ hand = [p \in Procs |-> NoBlock]
  /\ display_msg = NoBlock
  /\ text = [b \in mem_blocks |-> Message(DEFAULT, [str |-> ""])]
  /\ entries = << >>
  /\ msg_buf = NoLine
  /\ output = << >>
  /\ inbuf = << >>
  /\ uart_iproc_notif_in = TRUE
  /\ typed = 0

\* What the kernel has left to do: start the system, end a timer handler.
KernelStep == (Boot \/ TimerAck) /\ UNCHANGED procVars

SystemProcess == proc_kcd \/ proc_crt \/ proc_set_prio

\* Interrupts of the UART, which may find nothing to do here.
UartInterrupt ==
  \/ typed < Len(Lines) /\ \E line \in Lines[typed + 1] : Type(line)
  \/ UartIrq /\ UNCHANGED procVars
=============================================================================
