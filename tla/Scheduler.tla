------------------------------ MODULE Scheduler ------------------------------
(***************************************************************************)
(* The processor scheduler of the RTX kernel: the ready queue and the      *)
(* blocked-on-memory queue of k_process.c (priority_queue.c, on the lists  *)
(* of list.h), and the functions that choose, park and switch processes.   *)
(*                                                                         *)
(* Every kernel entry runs with interrupts held off and on a single        *)
(* processor, so the functions are pure operators on a record k, the       *)
(* scheduler's part of the kernel's state:                                 *)
(*   running       the pid that owns the processor, PID_NONE before boot   *)
(*   m_state       the m_state field of every PCB                          *)
(*   m_priority    the m_priority field of every PCB                       *)
(*   ready         g_ready_queue, one list of pids per priority            *)
(*   blocked       g_blocked_on_resource_queue, likewise                   *)
(* The module Kernel composes them into system calls and interrupts.       *)
(***************************************************************************)
EXTENDS Integers, Sequences, FiniteSets

CONSTANTS Procs,        \* the pids 0 .. NUM_PROCS-1
          IProcs,       \* PID_TIMER_IPROC, PID_UART_IPROC: PCBs that never run
          PID_NULL, PID_KCD, PID_CRT,
          PID_NONE,     \* -1: no process
          NULL_PRIO,    \* priority of the null process, 4 in common.h
          InitOrder,    \* the pids in the order of g_proc_table and g_test_procs
          InitPriority  \* their m_priority in these tables

Occurs(s, v) == \E i \in DOMAIN s : s[i] = v
Distinct(s) == \A i, j \in DOMAIN s : s[i] = s[j] => i = j

HIGHEST == 0
IPROC_PRIO == NULL_PRIO + 1
NUM_PRIORITIES == NULL_PRIO + 2
Priorities == 0 .. NUM_PRIORITIES - 1

ASSUME PidAssumption ==
  /\ IProcs \subseteq Procs
  /\ {PID_NULL, PID_KCD, PID_CRT} \subseteq Procs \ IProcs
  /\ PID_NULL \notin {PID_KCD, PID_CRT}
  /\ PID_NONE \notin Procs

ASSUME PriorityAssumption ==
  /\ NULL_PRIO \in Nat \ {0}
  /\ InitPriority \in [Procs \ IProcs -> 0 .. NULL_PRIO]
  /\ \A p \in Procs \ IProcs : InitPriority[p] = NULL_PRIO <=> p = PID_NULL

ASSUME InitOrderAssumption ==
  /\ InitOrder \in Seq(Procs \ IProcs)
  /\ \A p \in Procs \ IProcs : Occurs(InitOrder, p)
  /\ Distinct(InitOrder)

\* PROC_STATE_E
NEW_ == "NEW"
RDY == "RDY"
RUN == "RUN"
BLOCKED_ON_RESOURCE == "BLOCKED_ON_RESOURCE"
BLOCKED_ON_RECEIVE == "BLOCKED_ON_RECEIVE"
ProcStates == {NEW_, RDY, RUN, BLOCKED_ON_RESOURCE, BLOCKED_ON_RECEIVE}

-----------------------------------------------------------------------------
(* Lists and queues. *)

\* The elements of s that are in S, in their order.
Keep(s, S) ==
  LET kept[n \in 0 .. Len(s)] ==
        IF n = 0 THEN << >>
        ELSE IF s[n] \in S THEN Append(kept[n - 1], s[n]) ELSE kept[n - 1]
  IN  kept[Len(s)]

\* LL_REMOVE: drop every instance of v, keeping the order of the rest.
LL_REMOVE(s, v) == Keep(s, {s[i] : i \in DOMAIN s} \ {v})

Smallest(S) == CHOOSE x \in S : \A y \in S : x <= y

\* Mutant: a newcomer goes in front.
push_process_front(q, pid, prio) == [q EXCEPT ![prio] = <<pid>> \o @]
push_process(q, pid, prio) == [q EXCEPT ![prio] = Append(@, pid)]

\* The pid that peek_front returns and the priority it writes to *prio: -1
\* for a KCD or CRT in the list of HIGHEST, wherever they stand in it.
peek_front(q, m_priority) ==
  LET urgent == {i \in DOMAIN q[HIGHEST] : q[HIGHEST][i] \in {PID_KCD, PID_CRT}}
      levels == {i \in Priorities : q[i] # << >>}
  IN  IF urgent # {} THEN [pid |-> q[HIGHEST][Smallest(urgent)], prio |-> -1]
      ELSE IF levels # {}
           THEN LET pid == Head(q[Smallest(levels)])
                IN  [pid |-> pid, prio |-> m_priority[pid]]
           ELSE [pid |-> PID_NONE, prio |-> NUM_PRIORITIES]

\* The queue that pop_first_process leaves behind when it pops `front`.
AfterPop(q, front) ==
  LET prio == IF front.prio = -1 THEN HIGHEST ELSE front.prio
  IN  IF front.pid # PID_NONE /\ prio \in Priorities
      THEN [q EXCEPT ![prio] = LL_REMOVE(@, front.pid)]
      ELSE q

\* change_priority: move pid to the back of list `to` if it is in list `from`.
change_priority(q, pid, from, to) ==
  IF Occurs(q[from], pid)
  THEN push_process([q EXCEPT ![from] = LL_REMOVE(@, pid)], pid, to)
  ELSE q

\* What copy_queue leaves in the queue it copies to, and in the one it copies.
copy_queue(fq, tq) == [i \in Priorities |-> tq[i] \o fq[i]]
clear_queue == [i \in Priorities |-> << >>]

-----------------------------------------------------------------------------
(* Choosing, parking and switching. *)

\* scheduler(): keep a running process that outranks the whole ready queue,
\* else give the processor to the front of that queue.
scheduler(k) ==
  LET front == peek_front(k.ready, k.m_priority)
  IN  IF /\ k.running # PID_NONE
         /\ front.prio > k.m_priority[k.running]
         /\ k.m_state[k.running] \notin {BLOCKED_ON_RESOURCE, BLOCKED_ON_RECEIVE}
      THEN k
      ELSE [k EXCEPT !.running = IF front.pid = PID_NONE THEN PID_NULL ELSE front.pid,
                     !.ready = AfterPop(@, front)]

\* The switch statement of k_release_processor: queue the process that lost
\* the processor where its state says.
Park(k, old) ==
  CASE old = PID_NONE -> k
    [] old # PID_NONE /\ k.m_state[old] = BLOCKED_ON_RESOURCE ->
         [k EXCEPT !.blocked = push_process(@, old, k.m_priority[old])]
    [] old # PID_NONE /\ k.m_state[old] \in {RUN, RDY} ->
         [k EXCEPT !.m_state[old] = RDY,
                   !.ready = push_process(@, old, k.m_priority[old])]
    [] OTHER -> k

\* process_switch(): a process that was never started or is ready starts or
\* continues; anything else is an error that reverts to the old process.
process_switch(k, old) ==
  IF k.m_state[k.running] \in {NEW_, RDY}
  THEN [k EXCEPT !.m_state[k.running] = RUN]
  ELSE [k EXCEPT !.running = old]

k_release_processor(k) ==
  LET s == scheduler(k)
  IN  IF s.running = k.running THEN s ELSE process_switch(Park(s, k.running), k.running)

\* Mutant: the state is hard-coded.
k_poll_resource(k, which) ==
  k_release_processor([k EXCEPT !.m_state[k.running] = BLOCKED_ON_RESOURCE])
\* k_poll(): what a system call does when it has to wait in state `which`.
k_poll(k, which) == k_release_processor([k EXCEPT !.m_state[k.running] = which])

\* The first half of k_check_preemption_impl: with a free memory block, every
\* process blocked on memory becomes ready again.
WakeMemoryWaiters(k) ==
  [k EXCEPT !.ready = copy_queue(k.blocked, @),
            !.blocked = clear_queue,
            !.m_state = [p \in Procs |->
               IF k.m_priority[p] < NULL_PRIO /\ @[p] = BLOCKED_ON_RESOURCE
               THEN RDY ELSE @[p]]]

\* k_check_preemption_impl(is_eager) when `free` memory blocks are free.
k_check_preemption_impl(k, free, is_eager) ==
  LET w     == IF free > 0 THEN WakeMemoryWaiters(k) ELSE k
      front == peek_front(w.ready, w.m_priority)
      delta == w.m_priority[w.running] - front.prio
  IN  IF front.pid # PID_NONE /\ (IF is_eager THEN delta >= 0 ELSE delta > 0)
      THEN k_release_processor(w)
      ELSE w

\* Mutants: the last free block is not counted; the processor is not given away;
\* it is given to an equal.
k_check_preemption_to_equal(k, free) == k_check_preemption_impl(k, free, TRUE)
k_check_preemption_off_by_one(k, free) == k_check_preemption_impl(k, free - 1, FALSE)
k_check_preemption_wake_only(k, free) == IF free > 0 THEN WakeMemoryWaiters(k) ELSE k
k_check_preemption(k, free) == k_check_preemption_impl(k, free, FALSE)

\* The scheduling part of k_send_message_helper: the receiver of a new
\* message becomes ready if it was waiting for one.
WakeReceiver(k, receiver_pid) ==
  IF k.m_state[receiver_pid] = BLOCKED_ON_RECEIVE
  THEN [k EXCEPT !.m_state[receiver_pid] = RDY,
                 !.ready = push_process(@, receiver_pid, k.m_priority[receiver_pid])]
  ELSE k

\* Mutant: the queue of the processes blocked on memory is forgotten.
SetPriority_ready_only(k, pid, priority, free) ==
  k_check_preemption(
    [k EXCEPT !.ready = change_priority(@, pid, k.m_priority[pid], priority),
              !.m_priority[pid] = priority], free)
\* k_set_process_priority after its argument checks.
SetPriority(k, pid, priority, free) ==
  k_check_preemption(
    [k EXCEPT !.ready = change_priority(@, pid, k.m_priority[pid], priority),
              !.blocked = change_priority(@, pid, k.m_priority[pid], priority),
              !.m_priority[pid] = priority], free)

-----------------------------------------------------------------------------
(* Boot. *)

\* The list of priority i after initialize_processes pushed every process.
InitialList(i) == Keep(InitOrder, {p \in Procs \ IProcs : InitPriority[p] = i})

\* process_init(): everything NEW and queued, the i-processes only filled in.
process_init ==
  [running    |-> PID_NONE,
   m_state    |-> [p \in Procs |-> NEW_],
   m_priority |-> [p \in Procs |-> IF p \in IProcs THEN IPROC_PRIO ELSE InitPriority[p]],
   ready      |-> [i \in Priorities |-> InitialList(i)],
   blocked    |-> clear_queue]

-----------------------------------------------------------------------------
(* What the functions keep true. *)

\* pid p stands in queue q, in the list of priority i.
InList(q, i, p) == Occurs(q[i], p)
InQueue(q, p) == \E i \in Priorities : InList(q, i, p)

Before(s, p, r) == \E m, n \in DOMAIN s : m < n /\ s[m] = p /\ s[n] = r

SchedulerTypeOK(k) ==
  /\ k \in [running : Procs \cup {PID_NONE},
            m_state : [Procs -> ProcStates],
            m_priority : [Procs -> Priorities],
            ready : [Priorities -> Seq(Procs)],
            blocked : [Priorities -> Seq(Procs)]]

\* No list holds a pid twice.
NoDuplicates(q) == \A i \in Priorities : Distinct(q[i])

\* Queue q holds exactly the processes of set S, each in the list of its
\* current priority.
Holds(q, m_priority, S) ==
  /\ NoDuplicates(q)
  /\ \A p \in Procs : \A i \in Priorities :
       InList(q, i, p) <=> p \in S /\ i = m_priority[p]

\* The states of the PCBs and the queues tell the same story.
QueuesMatchStates(k) ==
  /\ Holds(k.ready, k.m_priority,
           {p \in Procs : \/ k.m_state[p] = RDY
                          \/ k.m_state[p] = NEW_ /\ p \notin IProcs})
  /\ Holds(k.blocked, k.m_priority, {p \in Procs : k.m_state[p] = BLOCKED_ON_RESOURCE})
  /\ \A p \in Procs : k.m_state[p] = RUN <=> p = k.running
=============================================================================
