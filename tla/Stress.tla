--------------------------------- MODULE Stress ---------------------------------
(***************************************************************************)
(* The stress processes of usr_proc.c over the kernel, with KCD, CRT, the  *)
(* priority command, a typing user and a process that only spins:          *)
(* %Z lets A send numbered reports to B for ever, B passes them on to C,   *)
(* and C lets every PERIOD-th one be displayed, after which it sleeps with *)
(* the next one in its hand and keeps what comes in for later.  The        *)
(* reports use up the memory of the system while C sleeps.                 *)
(***************************************************************************)
EXTENDS Processes

CONSTANTS PID_A, PID_B, PID_C,
          Spinners,       \* the processes whose program is infinite_loop
          PERIOD,         \* 20 in proc_C
          HIBERNATION,    \* the delay in hibernate, 10000 counts of g_timer_count
          MAX_NUM         \* A counts modulo this multiple of PERIOD

ASSUME StressAssumption ==
  /\ {PERIOD, HIBERNATION, MAX_NUM} \subseteq Nat \ {0}
  /\ MAX_NUM % PERIOD = 0
  /\ {PID_A, PID_B, PID_C} \subseteq Procs
  /\ Distinct(<<PID_KCD, PID_CRT, PID_SET_PRIO, PID_A, PID_B, PID_C>>)
  /\ Spinners \subseteq Procs \ {PID_KCD, PID_CRT, PID_SET_PRIO, PID_A, PID_B, PID_C}
  /\ DOMAIN StartPoint = Procs
  /\ \A p \in {PID_KCD, PID_CRT, PID_B} : StartPoint[p] = "receive"
  /\ StartPoint[PID_SET_PRIO] = "register" /\ StartPoint[PID_A] = "register"
  /\ StartPoint[PID_C] = "take"

VARIABLES num,                  \* proc_A
          c_message_queue, hibernate_for_10_sec, \* proc_C
          last,                 \* history: the number of the last report C took
          asleep,               \* history: the counts since hibernate was called
          ran                   \* history: changes with every step of a process

cVars == <<c_message_queue, hibernate_for_10_sec, last, asleep>>
stressVars == <<num, cVars>>
allVars == <<vars, procVars, stressVars, ran>>

-----------------------------------------------------------------------------
(* A and B. *)

\* The message in A's hand is the one that starts the count.
IsStart == text[hand[PID_A]].mtext.cmd = "%Z"

\* proc_A: register for %Z, wait for it, then count.
proc_A ==
  \/ /\ \/ kcd_register(PID_A, "%Z", "receive")
        \/ ReceiveNothing(PID_A, "receive")
        \/ /\ \/ Receive(PID_A, "receive", "answer")
              \/ Release(PID_A, "answer", IF IsStart THEN "request" ELSE "receive")
              \/ Request(PID_A, "request", "send")
              \/ Yield(PID_A, "release_processor", "request") /\ UNCHANGED locals
           /\ UNCHANGED consoleVars
     /\ UNCHANGED num
  \/ /\ Send(PID_A, "send", PID_B, Message(COUNT_REPORT, [num |-> num]), "release_processor")
     /\ num' = (num + 1) % MAX_NUM
     /\ UNCHANGED consoleVars

\* proc_B: pass every message on to C.
proc_B ==
  \/ ReceiveNothing(PID_B, "receive")
  \/ /\ \/ Receive(PID_B, "receive", "send")
        \/ /\ At(PID_B, "send")
           /\ Send(PID_B, "send", PID_C, text[hand[PID_B]], "receive")
     /\ UNCHANGED consoleVars

-----------------------------------------------------------------------------
(* C. *)

IsReport(b) == text[b].mtype = COUNT_REPORT

\* What proc_C does with message b: reports are looked at, after the sleep that
\* the last display has asked for.
AfterSleep(b) == IF text[b].mtext.num % PERIOD = 0 THEN "display" ELSE "release"
Handle(b) ==
  IF ~ IsReport(b) THEN "release"
  ELSE IF hibernate_for_10_sec THEN "hibernate" ELSE AfterSleep(b)

\* Mutant: the newest message first.
CTakeMailed_always ==
  /\ Receive(PID_C, "take", Handle(Mail(PID_C).msg))
  /\ last' = text[Mail(PID_C).msg].mtext.num
  /\ UNCHANGED c_message_queue
\* The next message, from the mailbox when the local queue is empty.
CTakeMailed ==
  /\ c_message_queue = << >>
  /\ Receive(PID_C, "take", Handle(Mail(PID_C).msg))
  /\ last' = text[Mail(PID_C).msg].mtext.num
  /\ UNCHANGED c_message_queue

\* The next message, from the local queue.
CTakeKept ==
  /\ c_message_queue # << >>
  /\ LET b == Head(c_message_queue)
     IN  Step(PID_C, "take", Handle(b)) /\ Put(PID_C, b) /\ last' = text[b].mtext.num
  /\ c_message_queue' = Tail(c_message_queue)
  /\ UNCHANGED <<display_msg, text>>

\* Mutant: the report is not marked.
CHibernate_unmarked ==
  /\ At(PID_C, "hibernate")
  /\ DelayedSend(PID_C, hand[PID_C], HIBERNATION)
  /\ hibernate_for_10_sec' = FALSE
  /\ Goto(PID_C, "sleep")
  /\ UNCHANGED <<locals, c_message_queue, last, asleep>>
\* hibernate: the report in hand is the wake-up call.
CHibernate ==
  /\ At(PID_C, "hibernate")
  /\ DelayedSend(PID_C, hand[PID_C], HIBERNATION)
  /\ text' = [text EXCEPT ![hand[PID_C]].mtype = WAKEUP_10]
  /\ hibernate_for_10_sec' = FALSE
  /\ Goto(PID_C, "sleep")
  /\ UNCHANGED <<hand, display_msg, c_message_queue, last, asleep>>

\* Mutant: any message wakes C.
IsWakeup_any(b) == TRUE
IsWakeup(b) == text[b].mtype = WAKEUP_10

\* Asleep, C keeps what is not the wake-up call.
CSleep ==
  /\ At(PID_C, "sleep") /\ HasMail(PID_C)
  /\ ReceiveMessage
  /\ LET b == Mail(PID_C).msg
     IN  IF IsWakeup(b)
         THEN /\ Goto(PID_C, AfterSleep(hand[PID_C]))
              /\ asleep' = 0
              /\ UNCHANGED c_message_queue
         ELSE /\ c_message_queue' = Append(c_message_queue, b)
              /\ UNCHANGED <<pc, asleep>>
  /\ UNCHANGED <<locals, hibernate_for_10_sec, last>>

CDisplay ==
  /\ Send(PID_C, "display", PID_CRT, Message(CRT_DISPLAY, [str |-> "Process C"]), "take")
  /\ hibernate_for_10_sec' = TRUE
  /\ UNCHANGED <<c_message_queue, last, asleep>>

\* Mutant: the release is forgotten.
CRelease_not ==
  /\ Step(PID_C, "release", "release_processor")
  /\ Put(PID_C, NoBlock)
  /\ UNCHANGED <<display_msg, text>>
CRelease == Release(PID_C, "release", "release_processor")

proc_C ==
  \/ (CTakeMailed \/ CTakeKept) /\ UNCHANGED <<hibernate_for_10_sec, asleep, consoleVars>>
  \/ (CHibernate \/ CSleep \/ CDisplay) /\ UNCHANGED consoleVars
  \/ /\ \/ CRelease
        \/ Yield(PID_C, "release_processor", "take") /\ UNCHANGED locals
     /\ UNCHANGED <<cVars, consoleVars>>
  \/ /\ \/ ReceiveNothing(PID_C, "take") /\ c_message_queue = << >>
        \/ ReceiveNothing(PID_C, "sleep")
     /\ UNCHANGED cVars

-----------------------------------------------------------------------------
\* infinite_loop
Spin == \E p \in Spinners : Yield(p, "spin", "spin") /\ UNCHANGED <<locals, consoleVars>>

StressProcess ==
  \/ proc_A /\ UNCHANGED cVars
  \/ proc_B /\ UNCHANGED stressVars
  \/ proc_C /\ UNCHANGED num
  \/ Spin /\ UNCHANGED stressVars

StressInit ==
  /\ ProcessesInit
  /\ num = 0
  /\ c_message_queue = << >>
  /\ hibernate_for_10_sec = FALSE
  /\ last = MAX_NUM - 1
  /\ asleep = 0
  /\ ran = FALSE

CountAsleep ==
  asleep' = IF pc[PID_C] = "sleep" /\ asleep < HIBERNATION THEN asleep + 1 ELSE asleep

\* What the processes do, and what interrupts them.
Run ==
  /\ StressProcess \/ (SystemProcess /\ UNCHANGED stressVars)
  /\ ran' = ~ ran
Tick ==
  /\ TimerHandler
  /\ CountAsleep
  /\ UNCHANGED <<num, c_message_queue, hibernate_for_10_sec, last, ran>>
Finish == KernelStep /\ UNCHANGED <<stressVars, ran>>
Irq == UartInterrupt /\ UNCHANGED <<stressVars, ran>>
StressNext == Run \/ Tick \/ Finish \/ Irq

StressSpec == StressInit /\ [][StressNext]_allVars

\* Time passes while a message is delayed, and between two counts the
\* processes get something done: KCD and CRT, when both are ready, are switched at
\* every tick, and are served because they make steps in between.  A pending
\* interrupt, and a process, wait for one another, so that both are enabled again
\* and again rather than all the time.  Nobody has to type.  The actions are
\* named by what they change alone: the process by `ran`, the tick by the queue.
ProcessRuns ==
  /\ k.running \notin {PID_NONE, PID_NULL} /\ cont[Caller] # "timer"
  /\ ran' = ~ ran
TimePasses ==
  /\ UserMode /\ g_delayed_msg_queue # << >>
  /\ g_delayed_msg_queue' = Later(g_delayed_msg_queue)
StressFairSpec ==
  /\ StressSpec
  /\ WF_allVars(Finish)
  /\ SF_ran(ProcessRuns)
  /\ SF_g_delayed_msg_queue(TimePasses)
-----------------------------------------------------------------------------
(* Properties. *)

Mailed(p) == [i \in DOMAIN g_message_queues[p] |-> g_message_queues[p][i].msg]

\* The messages on their way to proc_C, the first one to be taken in front.
OnTheWay ==
  c_message_queue \o Mailed(PID_C)
  \o (IF hand[PID_B] = NoBlock THEN << >> ELSE <<hand[PID_B]>>)
  \o Mailed(PID_B)

\* The places of the reports on the way, behind the one that C has taken last and in
\* front of the one that A sends next, and their numbers.
Reports(way) == {0, Len(way) + 1} \cup {i \in DOMAIN way : IsReport(way[i])}
NumberAt(way, i) ==
  IF i = 0 THEN last ELSE IF i > Len(way) THEN num ELSE text[way[i]].mtext.num

\* C takes every report of A once and in order, whatever arrives while it sleeps
\* and however long the processes wait for memory: each report on the way has the
\* number that follows that of the report in front of it, from the last one taken
\* to the next one sent (usr_proc.c:576-603, 640-672).
NoReportLost ==
  LET way == OnTheWay
      reports == Reports(way)
  IN  \A i, j \in reports :
        i < j /\ (\A l \in reports : l <= i \/ j <= l)
          => NumberAt(way, j) = (NumberAt(way, i) + 1) % MAX_NUM

\* A block that a process holds is in one of its variables, and the other way
\* round: no program loses a block or uses one that it has given away
\* (usr_proc.c:552-696, kcd.c:34-57, crt.c:12-48, sys_proc.c:230-291).
BlocksInUse ==
  LET Blocks(seq) == {seq[i] : i \in DOMAIN seq}
      Hand(p) == {hand[p]} \ {NoBlock}
  IN  /\ held[PID_KCD] = {entries[i].msg : i \in DOMAIN entries} \cup Hand(PID_KCD)
      /\ held[PID_CRT] = Blocks(output)
      /\ held[PID_SET_PRIO] = Hand(PID_SET_PRIO) \cup ({display_msg} \ {NoBlock})
      /\ held[PID_A] = Hand(PID_A)
      /\ held[PID_B] = Hand(PID_B)
      /\ held[PID_C] = Blocks(c_message_queue)
                       \cup IF pc[PID_C] = "sleep" THEN {} ELSE Hand(PID_C)

\* Memory comes back: while somebody waits for a block, another program can go on or
\* C's wake-up call is on its way, as long as the lines typed and the two
\* registrations cannot fill the memory.  A, B, C and CRT give back every block that
\* goes round, however they wait for one another; a line can be kept for good, by A
\* that counts and by a priority command that waits for a block for its error
\* (usr_proc.c:598-603, 628-672, kcd.c:52, sys_proc.c:279-288).
Programs == {PID_KCD, PID_CRT, PID_SET_PRIO, PID_A, PID_B, PID_C}
Blocked(p) == k.m_state[p] \in {BLOCKED_ON_RESOURCE, BLOCKED_ON_RECEIVE}
MemoryComesBack ==
  (\E p \in Procs : k.m_state[p] = BLOCKED_ON_RESOURCE) /\ typed < NUM_MEM_BLOCKS - 2
    => g_delayed_msg_queue # << >> \/ \E p \in Programs : ~ Blocked(p)

\* The assertion of hibernate: the message that wakes C is the one it went to
\* sleep with (usr_proc.c:640).  And it sleeps its time, whatever it receives.
Hibernates ==
  [][pc[PID_C] = "sleep" /\ pc'[PID_C] # "sleep"
       => Mail(PID_C).msg = hand[PID_C] /\ asleep = HIBERNATION]_allVars

\* Once started, the stress goes on: C displays again and again, whatever
\* commands and changes of the priorities of A, B and C come in, though A uses up
\* all memory while C sleeps (usr_proc.c:576-600, 648-696).
Counting == pc[PID_A] \in {"request", "send", "release_processor"}
GoesOn == Counting ~> pc[PID_C] = "display"

\* A legal priority command takes effect, though KCD has to wait for the memory
\* that A and C use, and whoever runs has to be preempted: through the console,
\* KCD, its entries and two mailboxes (kcd.c:40-57, 64-83; sys_proc.c:230-291).
Registered == \E i \in DOMAIN entries : entries[i].m_send_pid = PID_SET_PRIO
Effective(line) ==
  line.cmd = "%C" /\ line.legal /\ ~ SetPriorityFails(line.pid, line.priority)
CommandsTake ==
  \A line \in {line \in AllLines : Effective(line)} :
    (Registered /\ Occurs(inbuf, line)) ~> k.m_priority[line.pid] = line.priority
=============================================================================
