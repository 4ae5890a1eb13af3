----------------------------- MODULE KernelProofs -----------------------------
(***************************************************************************)
(* The kernel keeps its invariants, for every number of processes, of      *)
(* priorities and of memory blocks, and whatever the processes call; it    *)
(* keeps every block in one place and implements module Ipc.               *)
(***************************************************************************)
EXTENDS TimerKernel, SchedulerProofs

-----------------------------------------------------------------------------
(* The delayed queue. *)

\* The loops over the delayed queue stop inside it.
LEMMA ExpiredCountProperties ==
  ASSUME NEW q \in Seq(DelayedEnvelope), NEW t \in Nat
  PROVE  /\ ExpiredCount(q, t) \in 0 .. Len(q)
         /\ \A i \in 1 .. ExpiredCount(q, t) : q[i].expiry <= t
         /\ ExpiredCount(q, t) < Len(q) => q[ExpiredCount(q, t) + 1].expiry > t
<1> DEFINE Stop(n) == /\ \A i \in 1 .. n : q[i].expiry <= t
                      /\ n < Len(q) => q[n + 1].expiry > t
           Expired == {i \in 1 .. Len(q) : q[i].expiry <= t}
<1>0. Len(q) \in Nat /\ \A i \in 1 .. Len(q) : q[i].expiry \in Nat
  <2>1. \A i \in 1 .. Len(q) : q[i] \in DelayedEnvelope
    BY ElementOfSeq
  <2> QED BY <2>1, LenProperties DEF DelayedEnvelope
<1>1. \E n \in 0 .. Len(q) : Stop(n)
  <2>1. PICK n \in 0 .. Len(q) : /\ \A i \in 1 .. n : i \in Expired
                                 /\ n < Len(q) => n + 1 \notin Expired
    <3> HIDE DEF Expired
    <3> QED BY <1>0, FrontExists
  <2>2. n < Len(q) => n + 1 \in 1 .. Len(q)
    BY <1>0
  <2> QED BY <1>0, <2>1, <2>2
<1>2. /\ ExpiredCount(q, t) \in 0 .. Len(q)
      /\ Stop(ExpiredCount(q, t))
  <2>1. ExpiredCount(q, t) = CHOOSE n \in 0 .. Len(q) : Stop(n)
    BY DEF ExpiredCount
  <2> HIDE DEF Stop
  <2> QED BY <1>1, <2>1
<1> QED
  BY <1>2

\* What enqueue_message returns is a queue of delayed messages again.
LEMMA EnqueueType ==
  ASSUME NEW q \in Seq(DelayedEnvelope), NEW m \in DelayedEnvelope
  PROVE  enqueue_message(m, q) \in Seq(DelayedEnvelope)
<1> DEFINE n == ExpiredCount(q, m.expiry)
           front == SubSeq(q, 1, n)
           back == SubSeq(q, n + 1, Len(q))
<1>1. n \in 0 .. Len(q) /\ Len(q) \in Nat
  BY ExpiredCountProperties, LenProperties DEF DelayedEnvelope
<1> HIDE DEF n
<1>2. front \in Seq(DelayedEnvelope)
  <2>1. \A i \in 1 .. n : q[i] \in DelayedEnvelope
    BY <1>1, ElementOfSeq
  <2> QED BY <1>1, <2>1, SubSeqProperties
<1>3. back \in Seq(DelayedEnvelope)
  <2>1. \A i \in n + 1 .. Len(q) : q[i] \in DelayedEnvelope
    BY <1>1, ElementOfSeq
  <2> QED BY <1>1, <2>1, SubSeqProperties
<1>4. <<m>> \in Seq(DelayedEnvelope)
  OBVIOUS
<1>5. front \o <<m>> \in Seq(DelayedEnvelope)
  BY <1>2, <1>4, ConcatProperties
<1>6. enqueue_message(m, q) = front \o <<m>> \o back
  BY DEF enqueue_message, n
<1> HIDE DEF front, back
<1> QED
  BY <1>3, <1>5, <1>6, ConcatProperties

-----------------------------------------------------------------------------
(* Sending. *)

Mailboxes == [Procs -> Seq(Envelope)]

\* Nobody waits for a message that is in its mailbox.
NobodyMissesMail(sk, mail) ==
  \A p \in Procs : sk.m_state[p] = BLOCKED_ON_RECEIVE => mail[p] = << >>

\* k_send_message_helper leaves a consistent scheduler, wakes the receiver and
\* does not switch.
LEMMA SendProperties ==
  ASSUME NEW s, SchedInv(s.k), s.k.running # PID_NONE, s.mail \in Mailboxes,
         NobodyMissesMail(s.k, s.mail),
         NEW from \in Procs, NEW to \in Procs, NEW msg \in mem_blocks \cup Notifications,
         NEW r, r = k_send_message_helper(s, from, to, msg)
  PROVE  /\ SchedInv(r.k)
         /\ r.k.running = s.k.running
         /\ Unblocking(s.k, r.k)
         /\ OnlyQueues(s.k, r.k)
         /\ r.mail \in Mailboxes
         /\ NobodyMissesMail(r.k, r.mail)
<1> DEFINE w == WakeReceiver(s.k, to)
           e == [msg |-> msg, m_send_pid |-> from]
<1>1. r.k = w /\ r.mail = [s.mail EXCEPT ![to] = Append(@, e)]
  BY DEF k_send_message_helper
<1>2. SchedInv(w) /\ w.running = s.k.running /\ Unblocking(s.k, w)
      /\ w.m_state[to] # BLOCKED_ON_RECEIVE /\ OnlyQueues(s.k, w)
  BY WakeReceiverProperties, WakeReceiverOnlyQueues
<1> HIDE DEF w
<1>3. e \in Envelope
  BY DEF Envelope
<1> HIDE DEF e
<1>4. Append(s.mail[to], e) \in Seq(Envelope)
  <2>1. s.mail[to] \in Seq(Envelope)
    BY DEF Mailboxes
  <2> QED BY <1>3, <2>1, AppendProperties
<1>5. r.mail \in Mailboxes /\ \A p \in Procs : p # to => r.mail[p] = s.mail[p]
  BY <1>1, <1>4 DEF Mailboxes
<1>6. NobodyMissesMail(w, r.mail)
  BY <1>2, <1>5 DEF NobodyMissesMail, Unblocking
<1> QED
  BY <1>1, <1>2, <1>5, <1>6

\* d is the function that Delivered(s, q, n) defines by recursion, up to m.
IsDelivery(d, s, q, m) ==
  d = [i \in 0 .. m |->
         IF i = 0 THEN s
         ELSE k_send_message_helper(d[i - 1], q[i].m_send_pid, q[i].m_recv_pid, q[i].msg)]

LEMMA DeliveryExists ==
  ASSUME NEW s, NEW q, NEW N \in Nat
  PROVE  \E d : IsDelivery(d, s, q, N)
<1> DEFINE Good == {m \in 0 .. N : \E d : IsDelivery(d, s, q, m)}
           step(x, i) == k_send_message_helper(x, q[i].m_send_pid, q[i].m_recv_pid, q[i].msg)
<1>1. 0 \in Good
  <2>1. IsDelivery([i \in {0} |-> s], s, q, 0)
    BY DEF IsDelivery
  <2> QED BY <2>1
<1>2. ASSUME NEW m \in 0 .. N - 1, m \in Good PROVE m + 1 \in Good
  <2>1. PICK d : IsDelivery(d, s, q, m)
    BY <1>2
  <2> DEFINE g == [i \in 0 .. m + 1 |-> IF i = m + 1 THEN step(d[i - 1], i) ELSE d[i]]
  <2>2. \A i \in 0 .. m : d[i] = IF i = 0 THEN s ELSE step(d[i - 1], i)
    BY <2>1 DEF IsDelivery
  <2> HIDE DEF step
  <2>3. \A i \in 0 .. m : g[i] = d[i]
    OBVIOUS
  <2>4. \A i \in 0 .. m + 1 : g[i] = IF i = 0 THEN s ELSE step(g[i - 1], i)
    <3>1. g[m + 1] = step(g[m], m + 1)
      BY <2>3
    <3>2. ASSUME NEW i \in 0 .. m
          PROVE  g[i] = IF i = 0 THEN s ELSE step(g[i - 1], i)
      <4>1. i = 0 \/ i - 1 \in 0 .. m
        OBVIOUS
      <4> HIDE DEF g
      <4> QED BY <2>2, <2>3, <4>1
    <3> HIDE DEF g
    <3>3. \A i \in 0 .. m + 1 : i \in 0 .. m \/ i = m + 1
      OBVIOUS
    <3>4. (m + 1) - 1 = m /\ m + 1 # 0
      OBVIOUS
    <3> QED BY <3>1, <3>2, <3>3, <3>4
  <2>5. IsDelivery(g, s, q, m + 1)
    <3>1. g = [i \in 0 .. m + 1 |-> g[i]]
      OBVIOUS
    <3> HIDE DEF g
    <3> QED BY <2>4, <3>1 DEF IsDelivery, step
  <2> QED BY <2>5
<1>3. 0 .. N \subseteq Good
  <2> HIDE DEF Good
  <2> QED BY <1>1, <1>2, SegmentInduction
<1> QED
  BY <1>3

\* k_check_delayed_messages keeps what k_send_message_helper keeps.
LEMMA DeliveredProperties ==
  ASSUME NEW s, SchedInv(s.k), s.k.running # PID_NONE, s.mail \in Mailboxes,
         NobodyMissesMail(s.k, s.mail),
         NEW q \in Seq(DelayedEnvelope), NEW n \in 0 .. Len(q),
         NEW r, r = Delivered(s, q, n)
  PROVE  /\ SchedInv(r.k)
         /\ r.k.running = s.k.running
         /\ Unblocking(s.k, r.k)
         /\ OnlyQueues(s.k, r.k)
         /\ r.mail \in Mailboxes
         /\ NobodyMissesMail(r.k, r.mail)
<1> DEFINE Fine(x) == /\ SchedInv(x.k)
                      /\ x.k.running = s.k.running
                      /\ Unblocking(s.k, x.k)
                      /\ OnlyQueues(s.k, x.k)
                      /\ x.mail \in Mailboxes
                      /\ NobodyMissesMail(x.k, x.mail)
<1>0. Len(q) \in Nat /\ n \in Nat /\ n \in 0 .. n
  BY LenProperties
<1>1. PICK d : IsDelivery(d, s, q, n) /\ r = d[n]
  <2> DEFINE d == CHOOSE d : IsDelivery(d, s, q, n)
  <2>1. IsDelivery(d, s, q, n)
    BY <1>0, DeliveryExists
  <2>2. r = d[n]
    BY DEF Delivered, IsDelivery
  <2> HIDE DEF d
  <2> QED BY <2>1, <2>2
<1>2. \A i \in 0 .. n :
        d[i] = IF i = 0 THEN s
               ELSE k_send_message_helper(d[i - 1], q[i].m_send_pid, q[i].m_recv_pid, q[i].msg)
  BY <1>1 DEF IsDelivery
<1> DEFINE Right == {i \in 0 .. n : Fine(d[i])}
<1>3. 0 \in Right
  <2>1. d[0] = s
    BY <1>0, <1>2
  <2>2. Fine(s)
    <3>1. OnlyQueues(s.k, s.k)
      BY SameKeepsOrder DEF OnlyQueues, KeepsOrders
    <3> QED BY <3>1 DEF Unblocking
  <2> HIDE DEF Fine
  <2> QED BY <1>0, <2>1, <2>2
<1>4. ASSUME NEW i \in 0 .. n - 1, i \in Right PROVE i + 1 \in Right
  <2>0. i + 1 \in 1 .. n /\ i + 1 \in 0 .. n /\ i + 1 \in 1 .. Len(q) /\ (i + 1) - 1 = i
        /\ i + 1 # 0
    BY <1>0
  <2>1. q[i + 1] \in DelayedEnvelope
    BY <2>0, ElementOfSeq
  <2> DEFINE x == d[i]
             y == d[i + 1]
  <2>2. Fine(x)
    BY <1>4
  <2>3. y = k_send_message_helper(x, q[i + 1].m_send_pid, q[i + 1].m_recv_pid, q[i + 1].msg)
    BY <1>2, <2>0
  <2> HIDE DEF x, y
  <2>4. /\ q[i + 1].m_send_pid \in Procs /\ q[i + 1].m_recv_pid \in Procs
        /\ q[i + 1].msg \in mem_blocks \cup Notifications
    BY <2>1 DEF DelayedEnvelope
  <2>5. /\ SchedInv(y.k) /\ y.k.running = x.k.running /\ Unblocking(x.k, y.k)
        /\ OnlyQueues(x.k, y.k)
        /\ y.mail \in Mailboxes /\ NobodyMissesMail(y.k, y.mail)
    BY <2>2, <2>3, <2>4, SendProperties
  <2>6. Fine(y)
    <3>1. OnlyQueues(s.k, y.k)
      BY <2>2, <2>5, OnlyQueuesComposes
    <3> QED BY <2>2, <2>5, <3>1 DEF Unblocking
  <2> HIDE DEF Fine
  <2> QED BY <2>0, <2>6 DEF y
<1>5. n \in Right
  <2> HIDE DEF Right
  <2> QED BY <1>0, <1>3, <1>4, SegmentInduction
<1> QED
  BY <1>1, <1>5

-----------------------------------------------------------------------------
(* The inductive invariant. *)

\* Whoever waits inside a call is not the null process.
NullMakesNoCall ==
  cont[PID_NULL] \notin {"request", "receive"}

KernelInv ==
  /\ TypeOK
  /\ SchedInv(k)
  /\ k.running # PID_NONE => BestRuns(k)
  /\ NoMissedWakeup
  /\ WaitsWhereItBlocked
  /\ NullMakesNoCall

\* What a step may do to the scheduler's state and the mailboxes, seen from the
\* other conjuncts: consistent queues, the best process runs, and nobody starts
\* to wait in vain.
GoodStep(r, heap, mail) ==
  /\ SchedInv(r)
  /\ r.running # PID_NONE
  /\ BestRuns(r)
  /\ \A p \in Procs : r.m_state[p] = BLOCKED_ON_RESOURCE => heap = << >>
  /\ NobodyMissesMail(r, mail)
  /\ \A p \in Procs :
       /\ r.m_state[p] = BLOCKED_ON_RESOURCE => k.m_state[p] = BLOCKED_ON_RESOURCE
       /\ r.m_state[p] = BLOCKED_ON_RECEIVE => k.m_state[p] = BLOCKED_ON_RECEIVE
       /\ r.m_state[p] = NEW_ => k.m_state[p] = NEW_

\* k_check_preemption after sending: s holds the scheduler's state and the
\* mailboxes when the sending is done.
LEMMA PreemptionStep ==
  ASSUME KernelInv, NEW s, SchedInv(s.k), s.k.running # PID_NONE,
         Unblocking(k, s.k), NobodyMissesMail(s.k, s.mail),
         NEW heap \in Seq(mem_blocks), heap = << >> => g_heap = << >>,
         NEW r, r = k_check_preemption(s.k, Len(heap))
  PROVE  GoodStep(r, heap, s.mail)
<1>1. Len(heap) \in Nat /\ (heap # << >> => Len(heap) > 0)
  BY EmptySeq, LenProperties
<1>2. /\ SchedInv(r) /\ r.running # PID_NONE /\ BestRuns(r) /\ Unblocking(s.k, r)
      /\ Len(heap) > 0 => \A p \in Procs : r.m_state[p] # BLOCKED_ON_RESOURCE
  BY <1>1, CheckPreemptionProperties
<1>3. NobodyMissesMail(r, s.mail)
  BY <1>2 DEF NobodyMissesMail, Unblocking
<1> QED
  BY <1>1, <1>2, <1>3 DEF GoodStep, Unblocking

\* The running process is neither new nor blocked.
LEMMA CallerRuns ==
  ASSUME KernelInv, k.running # PID_NONE
  PROVE  /\ Caller \in Procs
         /\ k.m_state[Caller] = RUN
         /\ Len(g_heap) \in Nat
  <1>1. k.running \in Procs
    BY DEF KernelInv, TypeOK, SchedulerTypeOK
  <1>2. k.m_state[k.running] = RUN
    BY <1>1 DEF KernelInv, SchedInv, QueuesMatchStates
  <1> QED BY <1>1, <1>2, LenProperties DEF Caller, KernelInv, TypeOK

\* A step that is good for the scheduler and changes the rest only for the
\* process that makes it preserves the invariant.
LEMMA StepKeepsInvariant ==
  ASSUME KernelInv, k.running # PID_NONE, TypeOK',
         GoodStep(k', g_heap', g_message_queues'),
         \A p \in Procs : p # Caller => held'[p] = held[p] /\ cont'[p] = cont[p],
         NullMakesNoCall'
  PROVE  KernelInv'
<1>1. k.m_state[Caller] = RUN
  BY CallerRuns
<1>2. NoMissedWakeup'
  BY DEF GoodStep, NobodyMissesMail, NoMissedWakeup
<1>3. WaitsWhereItBlocked'
  <2>1. ASSUME NEW p \in Procs,
               k'.m_state[p] \in {BLOCKED_ON_RESOURCE, BLOCKED_ON_RECEIVE, NEW_}
        PROVE  p # Caller /\ held'[p] = held[p] /\ cont'[p] = cont[p]
               /\ k.m_state[p] = k'.m_state[p]
    BY <1>1, <2>1, StatesDistinct DEF GoodStep
  <2> QED BY <2>1 DEF KernelInv, WaitsWhereItBlocked
<1> QED
  BY <1>2, <1>3 DEF KernelInv, GoodStep

LEMMA InitInvariant == Init => KernelInv
<1> SUFFICES ASSUME Init PROVE KernelInv
  OBVIOUS
<1>1. SchedInv(k) /\ k.running = PID_NONE /\ \A p \in Procs : k.m_state[p] = NEW_
  BY InitialProperties DEF Init
<1>2. TypeOK
  <2>1. g_heap \in Seq(mem_blocks)
    <3>1. \A i \in mem_blocks : NUM_MEM_BLOCKS + 1 - i \in mem_blocks
      BY KernelAssumption DEF mem_blocks
    <3>2. [i \in 1 .. NUM_MEM_BLOCKS |-> NUM_MEM_BLOCKS + 1 - i]
             \in [1 .. NUM_MEM_BLOCKS -> mem_blocks]
      BY <3>1 DEF mem_blocks
    <3>3. NUM_MEM_BLOCKS \in Nat
      BY KernelAssumption
    <3> QED BY <3>2, <3>3, SeqDef DEF Init, mem_blocks
  <2>2. \A S : << >> \in Seq(S)
    BY EmptySeq
  <2> QED BY <1>1, <2>1, <2>2, KernelAssumption DEF Init, TypeOK, SchedInv, Conts
<1>3. NoMissedWakeup /\ WaitsWhereItBlocked
  BY <1>1, StatesDistinct DEF NoMissedWakeup, WaitsWhereItBlocked, Init
<1>4. NullMakesNoCall
  BY PidAssumption DEF NullMakesNoCall, Init
<1> QED
  BY <1>1, <1>2, <1>3, <1>4 DEF KernelInv

-----------------------------------------------------------------------------
(* One lemma per action. *)

\* The mailboxes before a step, with the scheduler's state.
Now == [k |-> k, mail |-> g_message_queues]

LEMMA NowFine ==
  ASSUME KernelInv
  PROVE  /\ SchedInv(Now.k) /\ Now.k = k /\ Now.mail = g_message_queues
         /\ Now.mail \in Mailboxes
         /\ NobodyMissesMail(Now.k, Now.mail)
         /\ Unblocking(k, Now.k)
         /\ SchedulerTypeOK(k)
BY DEF KernelInv, Now, TypeOK, Mailboxes, NoMissedWakeup, NobodyMissesMail, Unblocking,
       SchedInv

LEMMA BootStep == KernelInv /\ Boot => KernelInv'
<1> SUFFICES ASSUME KernelInv, Boot PROVE KernelInv'
  OBVIOUS
<1>1. SchedInv(k) /\ k.running = PID_NONE /\ k' = k_release_processor(k)
  BY DEF KernelInv, Boot
<1>2. SchedulerTypeOK(k) /\ Consistent(k, k.running) /\ PcbInv(k)
  BY <1>1, ConsistentRunning DEF SchedInv
<1>3. SchedInv(k') /\ k'.running # PID_NONE /\ BestRuns(k') /\ Unblocking(k, k')
  BY <1>1, <1>2, ReleaseProcessorProperties
<1>4. TypeOK' /\ NullMakesNoCall'
  BY <1>3 DEF KernelInv, TypeOK, SchedInv, NullMakesNoCall, Boot
<1>5. NoMissedWakeup' /\ WaitsWhereItBlocked'
  BY <1>3 DEF KernelInv, NoMissedWakeup, WaitsWhereItBlocked, Unblocking, Boot
<1> QED
  BY <1>3, <1>4, <1>5 DEF KernelInv

LEMMA ReleaseProcessorStep == KernelInv /\ ReleaseProcessor => KernelInv'
<1> SUFFICES ASSUME KernelInv, ReleaseProcessor PROVE KernelInv'
  OBVIOUS
<1>1. SchedInv(k) /\ k.running # PID_NONE /\ k' = k_release_processor(k)
  BY DEF KernelInv, ReleaseProcessor, CanCall, UserMode
<1>2. /\ SchedulerTypeOK(k) /\ Consistent(k, k.running) /\ PcbInv(k)
      /\ k.m_state[k.running] = RUN
  BY <1>1, ConsistentRunning DEF SchedInv
<1>3. SchedInv(k') /\ k'.running # PID_NONE /\ BestRuns(k') /\ Unblocking(k, k')
  BY <1>1, <1>2, ReleaseProcessorProperties
<1>4. TypeOK' /\ NullMakesNoCall'
  BY <1>3 DEF KernelInv, TypeOK, SchedInv, NullMakesNoCall, ReleaseProcessor
<1>5. NoMissedWakeup' /\ WaitsWhereItBlocked'
  BY <1>3 DEF KernelInv, NoMissedWakeup, WaitsWhereItBlocked, Unblocking, ReleaseProcessor
<1> QED
  BY <1>3, <1>4, <1>5 DEF KernelInv

LEMMA SetProcessPriorityStep ==
  ASSUME NEW pid \in Procs, NEW prio \in Int
  PROVE  KernelInv /\ SetProcessPriority(pid, prio) => KernelInv'
<1> SUFFICES ASSUME KernelInv, SetProcessPriority(pid, prio) PROVE KernelInv'
  OBVIOUS
<1>1. SchedInv(k) /\ k.running # PID_NONE /\ k' = SetPriority(k, pid, prio, Len(g_heap))
  BY DEF KernelInv, SetProcessPriority, CanCall, UserMode
<1>2. pid \in Procs \ {PID_NULL} /\ prio \in 0 .. NULL_PRIO - 1
  BY PriorityAssumption DEF SetProcessPriority, ValidPriority
<1>3. Len(g_heap) \in Nat /\ (g_heap # << >> => Len(g_heap) > 0)
  BY EmptySeq, LenProperties DEF KernelInv, TypeOK
<1>4. /\ SchedInv(k') /\ k'.running # PID_NONE /\ BestRuns(k') /\ Unblocking(k, k')
      /\ Len(g_heap) > 0 => \A x \in Procs : k'.m_state[x] # BLOCKED_ON_RESOURCE
  BY <1>1, <1>2, <1>3, SetPriorityProperties
<1>5. TypeOK' /\ NullMakesNoCall'
  BY <1>4 DEF KernelInv, TypeOK, SchedInv, NullMakesNoCall, SetProcessPriority
<1>6. NoMissedWakeup' /\ WaitsWhereItBlocked'
  BY <1>4 DEF KernelInv, NoMissedWakeup, WaitsWhereItBlocked, Unblocking, SetProcessPriority
<1> QED
  BY <1>4, <1>5, <1>6 DEF KernelInv

\* Both waiting calls, when they have to wait.
LEMMA WaitKeepsInvariant ==
  ASSUME KernelInv, NEW what, Loops(what),
         NEW which,
         \/ which = BLOCKED_ON_RESOURCE /\ what = "request" /\ g_heap = << >>
         \/ which = BLOCKED_ON_RECEIVE /\ what = "receive" /\ g_message_queues[Caller] = << >>,
         k' = k_poll(k, which),
         cont' = [cont EXCEPT ![Caller] = what],
         UNCHANGED <<g_heap, g_message_queues, g_delayed_msg_queue, g_timer_count, held>>
  PROVE  KernelInv'
<1>1. k.running # PID_NONE /\ k.running # PID_NULL /\ SchedInv(k)
  BY DEF Loops, CanCall, UserMode, KernelInv, NullMakesNoCall
<1>2. Caller \in Procs /\ Caller = k.running /\ k.m_state[Caller] = RUN
  BY <1>1, CallerRuns DEF Caller
<1>3. which \in {BLOCKED_ON_RESOURCE, BLOCKED_ON_RECEIVE}
  OBVIOUS
<1>4. /\ SchedInv(k') /\ k'.running # PID_NONE /\ BestRuns(k')
      /\ \A p \in Procs :
           /\ k'.m_state[p] = BLOCKED_ON_RESOURCE =>
                k.m_state[p] = BLOCKED_ON_RESOURCE \/ (p = Caller /\ which = BLOCKED_ON_RESOURCE)
           /\ k'.m_state[p] = BLOCKED_ON_RECEIVE =>
                k.m_state[p] = BLOCKED_ON_RECEIVE \/ (p = Caller /\ which = BLOCKED_ON_RECEIVE)
           /\ k'.m_state[p] = NEW_ => k.m_state[p] = NEW_
  BY <1>1, <1>2, <1>3, PollProperties
<1>5. /\ cont \in [Procs -> Conts] /\ what \in Conts
      /\ cont'[Caller] = what /\ \A p \in Procs : p # Caller => cont'[p] = cont[p]
  BY <1>2 DEF KernelInv, TypeOK, Conts
<1>6. TypeOK'
  BY <1>4, <1>5 DEF KernelInv, TypeOK, SchedInv
<1>7. NullMakesNoCall'
  BY <1>1, <1>2, <1>5, PidAssumption DEF KernelInv, NullMakesNoCall
<1>8. NoMissedWakeup'
  BY <1>4, StatesDistinct DEF KernelInv, NoMissedWakeup
<1>9. WaitsWhereItBlocked'
  <2>1. ASSUME NEW p \in Procs, p # Caller
        PROVE  /\ k'.m_state[p] = BLOCKED_ON_RESOURCE => cont'[p] = "request"
               /\ k'.m_state[p] = BLOCKED_ON_RECEIVE => cont'[p] = "receive"
               /\ k'.m_state[p] = NEW_ => cont'[p] = "user" /\ held'[p] = {}
    BY <1>4, <1>5, <2>1 DEF KernelInv, WaitsWhereItBlocked
  <2>2. /\ k'.m_state[Caller] = BLOCKED_ON_RESOURCE => cont'[Caller] = "request"
        /\ k'.m_state[Caller] = BLOCKED_ON_RECEIVE => cont'[Caller] = "receive"
        /\ k'.m_state[Caller] # NEW_
    BY <1>2, <1>4, <1>5, StatesDistinct
  <2> QED BY <2>1, <2>2 DEF WaitsWhereItBlocked
<1> QED
  BY <1>4, <1>6, <1>7, <1>8, <1>9 DEF KernelInv

\* A waiting call that has got what it waited for.
LEMMA CallReturns ==
  ASSUME KernelInv, NEW what, Loops(what), k' = k,
         cont' = [cont EXCEPT ![Caller] = "user"], TypeOK',
         \A p \in Procs : p # Caller => held'[p] = held[p],
         \A p \in Procs : k.m_state[p] = BLOCKED_ON_RESOURCE => g_heap' = << >>,
         NobodyMissesMail(k, g_message_queues')
  PROVE  KernelInv'
<1>1. k.running # PID_NONE /\ Caller \in Procs
  BY CallerRuns DEF Loops, CanCall, UserMode
<1>2. GoodStep(k', g_heap', g_message_queues')
  BY <1>1 DEF GoodStep, KernelInv
<1>3. /\ cont'[Caller] = "user" /\ \A p \in Procs : p # Caller => cont'[p] = cont[p]
  BY <1>1 DEF KernelInv, TypeOK
<1>4. NullMakesNoCall'
  BY <1>1, <1>3, PidAssumption DEF KernelInv, NullMakesNoCall
<1> QED
  BY <1>1, <1>2, <1>3, <1>4, StepKeepsInvariant

LEMMA RequestMemoryBlockStep == KernelInv /\ RequestMemoryBlock => KernelInv'
<1> SUFFICES ASSUME KernelInv, RequestMemoryBlock PROVE KernelInv'
  OBVIOUS
<1>1. CASE g_heap = << >>
  BY <1>1, WaitKeepsInvariant DEF RequestMemoryBlock
<1>2. CASE g_heap # << >>
  <2>1. Caller \in Procs
    BY CallerRuns DEF RequestMemoryBlock, Loops, CanCall, UserMode
  <2>2. Head(g_heap) \in mem_blocks /\ Tail(g_heap) \in Seq(mem_blocks)
    BY <1>2, HeadTailProperties DEF KernelInv, TypeOK
  <2>3. /\ held' \in [Procs -> SUBSET mem_blocks]
        /\ cont' \in [Procs -> Conts]
        /\ \A p \in Procs : p # Caller => held'[p] = held[p]
    <3> DEFINE new == {Head(g_heap)}
    <3>1. /\ held' = [held EXCEPT ![Caller] = @ \cup new]
          /\ cont' = [cont EXCEPT ![Caller] = "user"]
      BY <1>2 DEF RequestMemoryBlock
    <3>2. new \subseteq mem_blocks
      BY <2>2
    <3> HIDE DEF new
    <3> QED BY <2>1, <3>1, <3>2 DEF KernelInv, TypeOK, Conts
  <2>4. TypeOK'
    BY <1>2, <2>2, <2>3 DEF RequestMemoryBlock, KernelInv, TypeOK
  <2>5. \A p \in Procs : k.m_state[p] # BLOCKED_ON_RESOURCE
    BY <1>2 DEF KernelInv, NoMissedWakeup
  <2>6. NobodyMissesMail(k, g_message_queues')
    BY DEF RequestMemoryBlock, KernelInv, NoMissedWakeup, NobodyMissesMail
  <2> QED BY <1>2, <2>3, <2>4, <2>5, <2>6, CallReturns DEF RequestMemoryBlock
<1> QED
  BY <1>1, <1>2

LEMMA ReceiveMessageStep == KernelInv /\ ReceiveMessage => KernelInv'
<1> SUFFICES ASSUME KernelInv, ReceiveMessage PROVE KernelInv'
  OBVIOUS
<1> DEFINE box == g_message_queues[Caller]
<1>0. Caller \in Procs /\ k.m_state[Caller] = RUN
  BY CallerRuns DEF ReceiveMessage, Loops, CanCall, UserMode
<1>1. CASE box = << >>
  BY <1>1, WaitKeepsInvariant DEF ReceiveMessage
<1>2. CASE box # << >>
  <2>1. Head(box) \in Envelope /\ Tail(box) \in Seq(Envelope)
    <3>1. box \in Seq(Envelope)
      BY <1>0 DEF KernelInv, TypeOK
    <3> QED BY <1>2, <3>1, HeadTailProperties
  <2>2. {Head(box).msg} \ Notifications \subseteq mem_blocks
    BY <2>1 DEF Envelope
  <2>3. /\ held' \in [Procs -> SUBSET mem_blocks]
        /\ cont' \in [Procs -> Conts]
        /\ \A p \in Procs : p # Caller => held'[p] = held[p]
    <3> DEFINE new == {Head(box).msg} \ Notifications
    <3>1. /\ held' = [held EXCEPT ![Caller] = @ \cup new]
          /\ cont' = [cont EXCEPT ![Caller] = "user"]
      BY <1>2 DEF ReceiveMessage
    <3>2. new \subseteq mem_blocks
      BY <2>2
    <3> HIDE DEF new
    <3> QED BY <1>0, <3>1, <3>2 DEF KernelInv, TypeOK, Conts
  <2>4. /\ g_message_queues' \in [Procs -> Seq(Envelope)]
        /\ \A p \in Procs : p # Caller => g_message_queues'[p] = g_message_queues[p]
    BY <1>0, <1>2, <2>1 DEF ReceiveMessage, KernelInv, TypeOK
  <2>5. TypeOK'
    BY <1>2, <2>3, <2>4 DEF ReceiveMessage, KernelInv, TypeOK
  <2>6. \A p \in Procs : k.m_state[p] = BLOCKED_ON_RESOURCE => g_heap' = << >>
    BY DEF ReceiveMessage, KernelInv, NoMissedWakeup
  <2>7. NobodyMissesMail(k, g_message_queues')
    BY <1>0, <2>4, StatesDistinct DEF KernelInv, NoMissedWakeup, NobodyMissesMail
  <2> QED BY <1>2, <2>3, <2>5, <2>6, <2>7, CallReturns DEF ReceiveMessage
<1> QED
  BY <1>1, <1>2

LEMMA ReleaseMemoryBlockStep ==
  ASSUME NEW b \in mem_blocks
  PROVE  KernelInv /\ ReleaseMemoryBlock(b) => KernelInv'
<1> SUFFICES ASSUME KernelInv, ReleaseMemoryBlock(b) PROVE KernelInv'
  OBVIOUS
<1>1. k.running # PID_NONE /\ Caller \in Procs
  BY CallerRuns DEF ReleaseMemoryBlock, CanCall, UserMode
<1>2. g_heap' \in Seq(mem_blocks) /\ g_heap' # << >>
  BY AppendProperties DEF ReleaseMemoryBlock, KernelInv, TypeOK
<1>3. k' = k_check_preemption(Now.k, Len(g_heap'))
  BY NowFine DEF ReleaseMemoryBlock
<1>4. GoodStep(k', g_heap', g_message_queues')
  <2>1. GoodStep(k', g_heap', Now.mail)
    BY <1>1, <1>2, <1>3, NowFine, PreemptionStep
  <2> QED BY <2>1, NowFine DEF ReleaseMemoryBlock
<1>5. /\ held' \in [Procs -> SUBSET mem_blocks]
      /\ \A p \in Procs : p # Caller => held'[p] = held[p]
  BY <1>1 DEF ReleaseMemoryBlock, KernelInv, TypeOK
<1>6. TypeOK' /\ NullMakesNoCall'
  BY <1>2, <1>4, <1>5
     DEF ReleaseMemoryBlock, KernelInv, TypeOK, GoodStep, SchedInv, NullMakesNoCall
<1> QED
  BY <1>1, <1>4, <1>5, <1>6, StepKeepsInvariant DEF ReleaseMemoryBlock

LEMMA SendMessageStep ==
  ASSUME NEW pid \in Procs, NEW b \in mem_blocks
  PROVE  KernelInv /\ SendMessage(pid, b) => KernelInv'
<1> SUFFICES ASSUME KernelInv, SendMessage(pid, b) PROVE KernelInv'
  OBVIOUS
<1> DEFINE s == Sent(pid, b, Caller)
<1>1. k.running # PID_NONE /\ Caller \in Procs /\ pid \in Procs
  BY CallerRuns DEF SendMessage, CanCall, UserMode
<1>2. s = k_send_message_helper(Now, Caller, pid, b)
  BY DEF Sent, Now
<1>3. k' = k_check_preemption(s.k, Len(g_heap)) /\ g_message_queues' = s.mail
  BY DEF SendMessage
<1> HIDE DEF s
<1>4. /\ SchedInv(s.k) /\ s.k.running # PID_NONE /\ Unblocking(k, s.k)
      /\ s.mail \in Mailboxes /\ NobodyMissesMail(s.k, s.mail)
  BY <1>1, <1>2, NowFine, SendProperties
<1>5. GoodStep(k', g_heap', g_message_queues')
  <2>1. g_heap \in Seq(mem_blocks)
    BY DEF KernelInv, TypeOK
  <2>2. GoodStep(k', g_heap, s.mail)
    BY <1>3, <1>4, <2>1, PreemptionStep
  <2> QED BY <1>3, <2>2 DEF SendMessage
<1>6. /\ held' \in [Procs -> SUBSET mem_blocks]
      /\ \A p \in Procs : p # Caller => held'[p] = held[p]
  BY <1>1 DEF SendMessage, KernelInv, TypeOK
<1>7. TypeOK' /\ NullMakesNoCall'
  BY <1>3, <1>4, <1>5, <1>6
     DEF SendMessage, KernelInv, TypeOK, GoodStep, SchedInv, NullMakesNoCall, Mailboxes
<1> QED
  BY <1>1, <1>5, <1>6, <1>7, StepKeepsInvariant DEF SendMessage

LEMMA DelayedSendStep ==
  ASSUME NEW pid \in Procs, NEW b \in mem_blocks, NEW delay \in Nat
  PROVE  KernelInv /\ DelayedSend(pid, b, delay) => KernelInv'
<1> SUFFICES ASSUME KernelInv, DelayedSend(pid, b, delay) PROVE KernelInv'
  OBVIOUS
<1> DEFINE m == [msg |-> b, m_send_pid |-> Caller, m_recv_pid |-> pid,
                 expiry |-> delay + g_timer_count]
<1>1. k.running # PID_NONE /\ Caller \in Procs /\ pid \in Procs
  BY CallerRuns DEF DelayedSend, CanCall, UserMode
<1>2. m \in DelayedEnvelope
  <2>1. delay \in Nat /\ g_timer_count \in Nat
    BY KernelAssumption DEF KernelInv, TypeOK
  <2> QED BY <1>1, <2>1 DEF DelayedEnvelope
<1>3. g_delayed_msg_queue' = enqueue_message(m, g_delayed_msg_queue)
  BY DEF DelayedSend
<1> HIDE DEF m
<1>4. g_delayed_msg_queue' \in Seq(DelayedEnvelope)
  BY <1>2, <1>3, EnqueueType DEF KernelInv, TypeOK
<1>5. GoodStep(k', g_heap', g_message_queues')
  BY <1>1 DEF DelayedSend, GoodStep, KernelInv, NoMissedWakeup, NobodyMissesMail
<1>6. /\ held' \in [Procs -> SUBSET mem_blocks]
      /\ \A p \in Procs : p # Caller => held'[p] = held[p]
  BY <1>1 DEF DelayedSend, KernelInv, TypeOK
<1>7. TypeOK' /\ NullMakesNoCall'
  BY <1>4, <1>6 DEF DelayedSend, KernelInv, TypeOK, NullMakesNoCall
<1> QED
  BY <1>1, <1>5, <1>6, <1>7, StepKeepsInvariant DEF DelayedSend

LEMMA TimerIrqStep == KernelInv /\ TimerIrq => KernelInv'
<1> SUFFICES ASSUME KernelInv, TimerIrq PROVE KernelInv'
  OBVIOUS
<1> DEFINE q == g_delayed_msg_queue
           n == ExpiredCount(q, g_timer_count')
           s == Delivered(Now, q, n)
<1>1. k.running # PID_NONE /\ Caller \in Procs /\ Caller = k.running
  BY CallerRuns DEF TimerIrq, UserMode, Caller
<1>2. g_timer_count' \in Nat /\ g_timer_count' \in 0 .. MAX_TICKS
  BY KernelAssumption DEF TimerIrq, KernelInv, TypeOK
<1>3. q \in Seq(DelayedEnvelope) /\ n \in 0 .. Len(q)
  BY <1>2, ExpiredCountProperties DEF KernelInv, TypeOK
<1>4. /\ k' = k_check_preemption(s.k, Len(g_heap)) /\ g_message_queues' = s.mail
      /\ q' = SubSeq(q, n + 1, Len(q))
  BY DEF TimerIrq, Now
<1> HIDE DEF s
<1>5. /\ SchedInv(s.k) /\ s.k.running # PID_NONE /\ Unblocking(k, s.k)
      /\ s.mail \in Mailboxes /\ NobodyMissesMail(s.k, s.mail)
  <2> HIDE DEF n, q
  <2>1. s = Delivered(Now, q, n)
    BY DEF s
  <2> QED BY <1>1, <1>3, <2>1, NowFine, DeliveredProperties
<1>6. q' \in Seq(DelayedEnvelope)
  <2> HIDE DEF n, q
  <2>1. /\ Len(q) \in Nat /\ n \in Nat /\ n + 1 \in Int /\ Len(q) \in Int
        /\ \A i \in n + 1 .. Len(q) : q[i] \in DelayedEnvelope
    BY <1>3, LenProperties, ElementOfSeq
  <2> QED BY <1>4, <2>1, SubSeqProperties
<1>7. GoodStep(k', g_heap', g_message_queues')
  <2>1. g_heap \in Seq(mem_blocks)
    BY DEF KernelInv, TypeOK
  <2>2. GoodStep(k', g_heap, s.mail)
    BY <1>4, <1>5, <2>1, PreemptionStep
  <2> QED BY <1>4, <2>2 DEF TimerIrq
<1>8. /\ cont' \in [Procs -> Conts]
      /\ \A p \in Procs : p # Caller => cont'[p] = cont[p]
      /\ cont'[Caller] \in {cont[Caller], "timer"}
  BY <1>1 DEF TimerIrq, KernelInv, TypeOK, Conts
<1>9. TypeOK'
  BY <1>2, <1>4, <1>5, <1>6, <1>7, <1>8
     DEF TimerIrq, KernelInv, TypeOK, GoodStep, SchedInv, Mailboxes
<1>10. NullMakesNoCall'
  BY <1>1, <1>8, PidAssumption DEF KernelInv, NullMakesNoCall
<1> QED
  BY <1>1, <1>7, <1>8, <1>9, <1>10, StepKeepsInvariant DEF TimerIrq

LEMMA TimerAckStep == KernelInv /\ TimerAck => KernelInv'
<1> SUFFICES ASSUME KernelInv, TimerAck PROVE KernelInv'
  OBVIOUS
<1>1. k.running # PID_NONE /\ Caller \in Procs /\ Caller = k.running
  BY CallerRuns DEF TimerAck, Caller
<1>2. GoodStep(k', g_heap', g_message_queues')
  BY <1>1 DEF TimerAck, GoodStep, KernelInv, NoMissedWakeup, NobodyMissesMail
<1>3. /\ cont' \in [Procs -> Conts]
      /\ \A p \in Procs : p # Caller => cont'[p] = cont[p]
      /\ cont'[Caller] = "user"
  BY <1>1 DEF TimerAck, KernelInv, TypeOK, Conts
<1>4. TypeOK' /\ NullMakesNoCall'
  BY <1>1, <1>3, PidAssumption DEF TimerAck, KernelInv, TypeOK, NullMakesNoCall
<1> QED
  BY <1>1, <1>2, <1>3, <1>4, StepKeepsInvariant DEF TimerAck

LEMMA UartIrqStep == KernelInv /\ UartIrq => KernelInv'
<1> SUFFICES ASSUME KernelInv, UartIrq PROVE KernelInv'
  OBVIOUS
<1>1. k.running # PID_NONE
  BY DEF UartIrq, UserMode
<1>2. g_heap \in Seq(mem_blocks) /\ k' = k_check_preemption(Now.k, Len(g_heap))
  BY NowFine DEF UartIrq, KernelInv, TypeOK
<1>3. GoodStep(k', g_heap', g_message_queues')
  <2>1. GoodStep(k', g_heap, Now.mail)
    BY <1>1, <1>2, NowFine, PreemptionStep
  <2> QED BY <2>1, NowFine DEF UartIrq
<1>4. TypeOK' /\ NullMakesNoCall'
  BY <1>3 DEF UartIrq, KernelInv, TypeOK, GoodStep, SchedInv, NullMakesNoCall
<1> QED
  BY <1>1, <1>3, <1>4, StepKeepsInvariant DEF UartIrq

LEMMA UartNotifyStep ==
  ASSUME NEW pid \in Procs, NEW msg \in Notifications
  PROVE  KernelInv /\ UartNotify(pid, msg) => KernelInv'
<1> SUFFICES ASSUME KernelInv, UartNotify(pid, msg) PROVE KernelInv'
  OBVIOUS
<1> DEFINE s == Sent(pid, msg, PID_UART_IPROC)
<1>1. k.running # PID_NONE /\ PID_UART_IPROC \in Procs
  BY KernelAssumption, PidAssumption DEF UartNotify, UserMode
<1>2. s = k_send_message_helper(Now, PID_UART_IPROC, pid, msg)
  BY DEF Sent, Now
<1>3. k' = k_check_preemption(s.k, Len(g_heap)) /\ g_message_queues' = s.mail
  BY DEF UartNotify
<1> HIDE DEF s
<1>4. /\ SchedInv(s.k) /\ s.k.running # PID_NONE /\ Unblocking(k, s.k)
      /\ s.mail \in Mailboxes /\ NobodyMissesMail(s.k, s.mail)
  BY <1>1, <1>2, NowFine, SendProperties
<1>5. GoodStep(k', g_heap', g_message_queues')
  <2>1. g_heap \in Seq(mem_blocks)
    BY DEF KernelInv, TypeOK
  <2>2. GoodStep(k', g_heap, s.mail)
    BY <1>3, <1>4, <2>1, PreemptionStep
  <2> QED BY <1>3, <2>2 DEF UartNotify
<1>6. TypeOK' /\ NullMakesNoCall'
  BY <1>3, <1>4, <1>5
     DEF UartNotify, KernelInv, TypeOK, GoodStep, SchedInv, NullMakesNoCall, Mailboxes
<1> QED
  BY <1>1, <1>5, <1>6, StepKeepsInvariant DEF UartNotify

-----------------------------------------------------------------------------
(* First come, first served. *)

\* A step that queues processes and then looks for one to preempt to.
LEMMA QueueAndPreempt ==
  ASSUME NEW c, OnlyQueues(k, c), SchedInv(c), k.running # PID_NONE,
         NEW free \in Nat, k' = k_check_preemption(c, free)
  PROVE  FairTo(k, k') /\ Preempts(k, k')
<1>1. c.running = k.running
  BY DEF OnlyQueues
<1>2. FairTo(c, k') /\ Preempts(c, k')
  BY <1>1, CheckPreemptionIsFair
<1>3. FairTo(k, k')
  BY <1>2, FairComposes DEF OnlyQueues, InList
<1> QED
  BY <1>1, <1>2, <1>3 DEF Preempts

\* A step that leaves the scheduler alone.
LEMMA StandsStill ==
  ASSUME KernelInv, k' = k
  PROVE  FairTo(k, k') /\ Preempts(k, k')
<1>1. ASSUME NEW i \in Priorities, NEW p, NEW x \in Procs,
             Before(k.ready[i], p, x), x = k.running
      PROVE  FALSE
  <2>1. InList(k.ready, i, x) /\ k.m_state[x] = RUN
    BY <1>1 DEF Before, InList, Occurs, KernelInv, SchedInv, QueuesMatchStates
  <2> QED BY <2>1, StatesDistinct DEF KernelInv, SchedInv, QueuesMatchStates, Holds
<1> QED
  BY <1>1 DEF FairTo, Preempts

\* A call that has to wait.
LEMMA WaitIsFair ==
  ASSUME KernelInv, NEW what, Loops(what), what \in {"request", "receive"},
         NEW which \in {BLOCKED_ON_RESOURCE, BLOCKED_ON_RECEIVE}, k' = k_poll(k, which)
  PROVE  FairTo(k, k') /\ ~ Preempted
<1>1. k.running # PID_NONE /\ k.running # PID_NULL /\ SchedInv(k)
  BY DEF Loops, CanCall, UserMode, KernelInv, NullMakesNoCall
<1> QED
  BY <1>1, PollIsFair DEF Preempted

\* Every step is fair, and a process that loses the processor unasked loses it to a
\* better one or to KCD or CRT.
LEMMA StepIsFair ==
  KernelInv /\ [Next]_vars => FairTo(k, k') /\ (Preempted => Preempts(k, k'))
<1> SUFFICES ASSUME KernelInv, [Next]_vars
             PROVE  FairTo(k, k') /\ (Preempted => Preempts(k, k'))
  OBVIOUS
<1>0. /\ SchedInv(k) /\ SchedulerTypeOK(k) /\ Len(g_heap) \in Nat
      /\ SchedInv(Now.k) /\ Now.k = k /\ Now.mail \in Mailboxes
      /\ NobodyMissesMail(Now.k, Now.mail)
  BY NowFine, LenProperties DEF KernelInv, TypeOK, SchedInv
<1>1. /\ Consistent(k, k.running) /\ PcbInv(k)
      /\ k.running # PID_NONE => k.m_state[k.running] = RUN
  BY <1>0, ConsistentRunning DEF SchedInv
<1>2. OnlyQueues(k, k)
  BY SameKeepsOrder DEF OnlyQueues, KeepsOrders
<1>3. CASE Boot \/ ReleaseProcessor
  <2>1. k' = k_release_processor(k) /\ ~ Preempted
    BY <1>3 DEF Boot, ReleaseProcessor, Preempted, UserMode
  <2> QED BY <1>0, <1>1, <2>1, ReleaseIsFair
<1>4. CASE \E call \in PriorityCalls : SetProcessPriority(call[1], call[2])
  <2> PICK call \in PriorityCalls : SetProcessPriority(call[1], call[2])
    BY <1>4
  <2> DEFINE pid == call[1]
             prio == call[2]
  <2>1. /\ pid \in Procs \ {PID_NULL} /\ prio \in 0 .. NULL_PRIO - 1
        /\ k.m_priority[pid] # prio
    <3>1. call \in Procs \X Int
      BY KernelAssumption
    <3> QED BY <3>1, PriorityAssumption DEF SetProcessPriority, ValidPriority
  <2>2. k.running # PID_NONE /\ k' = SetPriority(k, pid, prio, Len(g_heap))
    BY DEF SetProcessPriority, CanCall, UserMode
  <2> HIDE DEF pid, prio
  <2> QED BY <1>0, <2>1, <2>2, SetPriorityIsFair
<1>5. CASE RequestMemoryBlock
  <2>1. CASE g_heap = << >>
    BY <1>5, <2>1, WaitIsFair DEF RequestMemoryBlock
  <2>2. CASE g_heap # << >>
    BY <1>5, <2>2, StandsStill DEF RequestMemoryBlock
  <2> QED BY <2>1, <2>2
<1>6. CASE \E b \in mem_blocks : ReleaseMemoryBlock(b)
  <2>1. /\ k.running # PID_NONE /\ k' = k_check_preemption(k, Len(g_heap'))
        /\ \E b \in mem_blocks : g_heap' = Append(g_heap, b)
    BY <1>6 DEF ReleaseMemoryBlock, CanCall, UserMode
  <2>2. Len(g_heap') \in Nat
    BY <2>1, AppendProperties, LenProperties DEF KernelInv, TypeOK
  <2> QED BY <1>0, <1>2, <2>1, <2>2, QueueAndPreempt
<1>7. CASE \E pid \in Receivers, b \in mem_blocks : SendMessage(pid, b)
  <2> PICK pid \in Receivers, b \in mem_blocks : SendMessage(pid, b)
    BY <1>7
  <2> DEFINE s == Sent(pid, b, Caller)
  <2>1. k.running # PID_NONE /\ Caller \in Procs /\ pid \in Procs
    BY CallerRuns, KernelAssumption DEF SendMessage, CanCall, UserMode
  <2>2. s = k_send_message_helper(Now, Caller, pid, b)
        /\ k' = k_check_preemption(s.k, Len(g_heap))
    BY DEF Sent, Now, SendMessage
  <2> HIDE DEF s
  <2>3. SchedInv(s.k) /\ OnlyQueues(k, s.k)
    BY <1>0, <2>1, <2>2, SendProperties
  <2> QED BY <1>0, <2>1, <2>2, <2>3, QueueAndPreempt
<1>8. CASE \E pid \in Receivers, b \in mem_blocks, delay \in Delays :
             DelayedSend(pid, b, delay)
  BY <1>8, StandsStill DEF DelayedSend
<1>9. CASE ReceiveMessage
  <2>1. CASE g_message_queues[Caller] = << >>
    BY <1>9, <2>1, WaitIsFair DEF ReceiveMessage
  <2>2. CASE g_message_queues[Caller] # << >>
    BY <1>9, <2>2, StandsStill DEF ReceiveMessage
  <2> QED BY <2>1, <2>2
<1>10. CASE TimerIrq
  <2> DEFINE q == g_delayed_msg_queue
             n == ExpiredCount(q, g_timer_count')
             s == Delivered(Now, q, n)
  <2>1. k.running # PID_NONE
    BY <1>10 DEF TimerIrq, UserMode
  <2>2. q \in Seq(DelayedEnvelope) /\ n \in 0 .. Len(q)
    <3>1. g_timer_count' \in Nat
      BY <1>10, KernelAssumption DEF TimerIrq, KernelInv, TypeOK
    <3> QED BY <3>1, ExpiredCountProperties DEF KernelInv, TypeOK
  <2>3. k' = k_check_preemption(s.k, Len(g_heap))
    BY <1>10 DEF TimerIrq, Now
  <2> HIDE DEF q, n
  <2>4. SchedInv(s.k) /\ OnlyQueues(k, s.k)
    BY <1>0, <2>1, <2>2, DeliveredProperties
  <2> HIDE DEF s
  <2> QED BY <1>0, <2>1, <2>3, <2>4, QueueAndPreempt
<1>11. CASE TimerAck
  BY <1>11, StandsStill DEF TimerAck
<1>12. CASE UartIrq
  <2>1. k.running # PID_NONE /\ k' = k_check_preemption(k, Len(g_heap))
    BY <1>12 DEF UartIrq, UserMode
  <2> QED BY <1>0, <1>2, <2>1, QueueAndPreempt
<1>13. CASE UartNotify(PID_KCD, notif_in_msg) \/ UartNotify(PID_CRT, notif_out_msg)
  <2> PICK pid \in Procs, msg \in Notifications : UartNotify(pid, msg)
    BY <1>13, PidAssumption DEF Notifications
  <2> DEFINE s == Sent(pid, msg, PID_UART_IPROC)
  <2>1. k.running # PID_NONE /\ PID_UART_IPROC \in Procs
    BY KernelAssumption, PidAssumption DEF UartNotify, UserMode
  <2>2. s = k_send_message_helper(Now, PID_UART_IPROC, pid, msg)
        /\ k' = k_check_preemption(s.k, Len(g_heap))
    BY DEF Sent, Now, UartNotify
  <2> HIDE DEF s
  <2>3. SchedInv(s.k) /\ OnlyQueues(k, s.k)
    BY <1>0, <2>1, <2>2, SendProperties
  <2> QED BY <1>0, <2>1, <2>2, <2>3, QueueAndPreempt
<1>14. CASE UNCHANGED vars
  BY <1>14, StandsStill DEF vars
<1> QED
  BY <1>3, <1>4, <1>5, <1>6, <1>7, <1>8, <1>9, <1>10, <1>11, <1>12, <1>13, <1>14
     DEF Next, CallOrUart

-----------------------------------------------------------------------------
(* The theorems. *)

LEMMA NextInvariant == KernelInv /\ [Next]_vars => KernelInv'
<1> SUFFICES ASSUME KernelInv, [Next]_vars PROVE KernelInv'
  OBVIOUS
<1>1. CASE Boot
  BY <1>1, BootStep
<1>2. CASE ReleaseProcessor
  BY <1>2, ReleaseProcessorStep
<1>3. CASE \E call \in PriorityCalls : SetProcessPriority(call[1], call[2])
  <2>1. ASSUME NEW call \in PriorityCalls PROVE call[1] \in Procs /\ call[2] \in Int
    BY KernelAssumption
  <2> QED BY <1>3, <2>1, SetProcessPriorityStep
<1>4. CASE RequestMemoryBlock
  BY <1>4, RequestMemoryBlockStep
<1>5. CASE \E b \in mem_blocks : ReleaseMemoryBlock(b)
  BY <1>5, ReleaseMemoryBlockStep
<1>6. CASE \E pid \in Receivers, b \in mem_blocks : SendMessage(pid, b)
  BY <1>6, SendMessageStep, KernelAssumption
<1>7. CASE \E pid \in Receivers, b \in mem_blocks, delay \in Delays :
             DelayedSend(pid, b, delay)
  BY <1>7, DelayedSendStep, KernelAssumption
<1>8. CASE ReceiveMessage
  BY <1>8, ReceiveMessageStep
<1>9. CASE TimerIrq
  BY <1>9, TimerIrqStep
<1>10. CASE TimerAck
  BY <1>10, TimerAckStep
<1>11. CASE UartIrq
  BY <1>11, UartIrqStep
<1>12. CASE UartNotify(PID_KCD, notif_in_msg) \/ UartNotify(PID_CRT, notif_out_msg)
  BY <1>12, UartNotifyStep, PidAssumption DEF Notifications
<1>13. CASE UNCHANGED vars
  BY <1>13 DEF vars, KernelInv, TypeOK, NoMissedWakeup, WaitsWhereItBlocked, NullMakesNoCall
<1> QED
  BY <1>1, <1>2, <1>3, <1>4, <1>5, <1>6, <1>7, <1>8, <1>9, <1>10, <1>11, <1>12, <1>13
     DEF Next, CallOrUart

\* The inductive invariant holds in every reachable state.
THEOREM Invariance == Spec => []KernelInv
  BY InitInvariant, NextInvariant, PTL DEF Spec

\* Every variable keeps its type.
THEOREM TypeCorrect == Spec => []TypeOK
<1>1. KernelInv => TypeOK
  BY DEF KernelInv
<1> QED
  BY <1>1, Invariance, PTL

\* No process is ever lost or queued twice: each is in the queue of its state
\* and in the list of its priority.
THEOREM ProcessesSafe == Spec => []NoProcessLost
<1>1. KernelInv => NoProcessLost
  BY DEF KernelInv, SchedInv, NoProcessLost
<1> QED
  BY <1>1, Invariance, PTL

\* No process waits for a free block or for a message it already has.
THEOREM WakeupsNotMissed == Spec => []NoMissedWakeup
<1>1. KernelInv => NoMissedWakeup
  BY DEF KernelInv
<1> QED
  BY <1>1, Invariance, PTL

\* A blocked process is inside the call that blocked it.
THEOREM WaitsAreCalls == Spec => []WaitsWhereItBlocked
<1>1. KernelInv => WaitsWhereItBlocked
  BY DEF KernelInv
<1> QED
  BY <1>1, Invariance, PTL

\* The processor is always given to a process of the best ready priority.
THEOREM PriorityScheduling == Spec => []HighestPriorityRuns
<1>1. KernelInv => HighestPriorityRuns
  BY DEF KernelInv, HighestPriorityRuns, BestRuns, UserMode
<1> QED
  BY <1>1, Invariance, PTL

\* Processes of one priority get the processor first come, first served, unless
\* KCD or CRT jumps the queue (k_process.c:137-155, priority_queue.c:30-63).
THEOREM FirstServed == Spec => FirstComeFirstServed
<1>1. KernelInv /\ [Next]_vars =>
        [\A i \in Priorities, p, r \in Procs :
           InList(k.ready, i, p) /\ InList(k'.ready, i, p) /\ p # r =>
             /\ InList(k'.ready, i, r) /\ (InList(k.ready, i, r) => Before(k.ready[i], p, r))
                  => Before(k'.ready[i], p, r)
             /\ Before(k.ready[i], p, r) /\ r = k'.running /\ k'.m_priority[r] = i
                  => r \in {PID_KCD, PID_CRT}]_vars
  BY StepIsFair DEF FairTo
<1> QED
  BY <1>1, Invariance, PTL DEF Spec, FirstComeFirstServed

\* A process loses the processor without asking only to a process of better
\* priority, or to KCD or CRT of the best (k_process.c:297-320).
THEOREM OnlyBetterPreempts == Spec => PreemptedByBetter
<1>1. KernelInv /\ [Next]_vars =>
        [Preempted =>
           \/ k'.m_priority[k'.running] < k'.m_priority[k.running]
           \/ /\ k'.running \in {PID_KCD, PID_CRT}
              /\ k'.m_priority[k'.running] = HIGHEST]_vars
  <2> SUFFICES ASSUME KernelInv, [Next]_vars, Preempted
               PROVE  \/ k'.m_priority[k'.running] < k'.m_priority[k.running]
                      \/ /\ k'.running \in {PID_KCD, PID_CRT}
                         /\ k'.m_priority[k'.running] = HIGHEST
    OBVIOUS
  <2>1. Preempts(k, k') /\ k'.running # k.running
    BY StepIsFair DEF Preempted
  <2> QED BY <2>1 DEF Preempts
<1> QED
  BY <1>1, Invariance, PTL DEF Spec, PreemptedByBetter

-----------------------------------------------------------------------------
(* The kernel under its timer (module TimerKernel). *)

\* A step of the kernel with its timer is a step of the kernel, or none: the
\* interrupt flag takes steps away from the kernel and adds none.
LEMMA TimerStep == TimerNext => [Next]_vars
BY DEF TimerNext, Match, c_TIMER0_IRQHandler, Acknowledge, Other, Next, vars

\* The flag of TIMER0 only restricts when the timer's handler runs: whatever the
\* kernel keeps true for any arrival of the ticks it keeps true under its timer
\* (timer.c:104-122).
THEOREM TimerKernelIsKernel == TimerSpec => Spec
<1>1. TimerInit => Init
  BY DEF TimerInit
<1>2. [TimerNext]_timerVars => [Next]_vars
  BY TimerStep DEF timerVars, vars
<1> QED
  BY <1>1, <1>2, PTL DEF TimerSpec, Spec

\* A match that is still flagged is one that was not counted yet or that gave the
\* processor away when it was.
TicksInv ==
  /\ g_timer_count \in Nat /\ tc_matches \in Nat /\ preemptions \in Nat
  /\ g_timer_count <= tc_matches + preemptions
  /\ IR => g_timer_count < tc_matches + preemptions

\* No system call and no interrupt of the UART counts a millisecond.
LEMMA OtherCountsNothing == CallOrUart => g_timer_count' = g_timer_count
<1> SUFFICES ASSUME CallOrUart PROVE g_timer_count' = g_timer_count
  OBVIOUS
<1>1. CASE Boot \/ ReleaseProcessor \/ UartIrq
  BY <1>1 DEF Boot, ReleaseProcessor, UartIrq
<1>2. CASE \E call \in PriorityCalls : SetProcessPriority(call[1], call[2])
  BY <1>2 DEF SetProcessPriority
<1>3. CASE RequestMemoryBlock \/ ReceiveMessage
  BY <1>3 DEF RequestMemoryBlock, ReceiveMessage
<1>4. CASE \E b \in mem_blocks : ReleaseMemoryBlock(b)
  BY <1>4 DEF ReleaseMemoryBlock
<1>5. CASE \E pid \in Receivers, b \in mem_blocks : SendMessage(pid, b)
  BY <1>5 DEF SendMessage
<1>6. CASE \E pid \in Receivers, b \in mem_blocks, delay \in Delays :
             DelayedSend(pid, b, delay)
  BY <1>6 DEF DelayedSend
<1>7. CASE UartNotify(PID_KCD, notif_in_msg) \/ UartNotify(PID_CRT, notif_out_msg)
  BY <1>7 DEF UartNotify
<1> QED
  BY <1>1, <1>2, <1>3, <1>4, <1>5, <1>6, <1>7 DEF CallOrUart

LEMMA TicksInvInit == TimerInit => TicksInv
<1>1. TimerInit => g_timer_count = 0 /\ ~ IR /\ tc_matches = 0 /\ preemptions = 0
  BY DEF TimerInit, Init
<1> QED
  BY <1>1 DEF TicksInv

LEMMA TicksInvStep == TicksInv /\ [TimerNext]_timerVars => TicksInv'
<1> SUFFICES ASSUME TicksInv, [TimerNext]_timerVars PROVE TicksInv'
  OBVIOUS
<1>1. CASE Match
  <2>1. tc_matches' = tc_matches + 1
        /\ g_timer_count' = g_timer_count /\ preemptions' = preemptions
    BY <1>1 DEF Match, vars
  <2>2. g_timer_count <= tc_matches + preemptions
    BY DEF TicksInv
  <2> QED
    BY <2>1, <2>2 DEF TicksInv
<1>2. CASE c_TIMER0_IRQHandler
  <2>1. IR /\ g_timer_count' = g_timer_count + 1 /\ tc_matches' = tc_matches
    BY <1>2 DEF c_TIMER0_IRQHandler, TimerIrq
  <2>2. g_timer_count < tc_matches + preemptions
    BY <2>1 DEF TicksInv
  <2>3. CASE k'.running = k.running
    <3>1. ~ IR' /\ preemptions' = preemptions
      BY <1>2, <2>3 DEF c_TIMER0_IRQHandler, ClearIR
    <3> QED
      BY <2>1, <2>2, <3>1 DEF TicksInv
  <2>4. CASE k'.running # k.running
    <3>1. (IR' <=> IR) /\ preemptions' = preemptions + 1
      BY <1>2, <2>4 DEF c_TIMER0_IRQHandler
    <3> QED
      BY <2>1, <2>2, <3>1 DEF TicksInv
  <2> QED
    BY <2>3, <2>4
<1>3. CASE Acknowledge
  <2>1. ~ IR' /\ g_timer_count' = g_timer_count
        /\ tc_matches' = tc_matches /\ preemptions' = preemptions
    BY <1>3 DEF Acknowledge, TimerAck, ClearIR
  <2>2. g_timer_count <= tc_matches + preemptions
    BY DEF TicksInv
  <2> QED
    BY <2>1, <2>2 DEF TicksInv
<1>4. CASE Other
  BY <1>4, OtherCountsNothing DEF Other, TicksInv
<1>5. CASE UNCHANGED timerVars
  BY <1>5 DEF timerVars, vars, TicksInv
<1> QED
  BY <1>1, <1>2, <1>3, <1>4, <1>5 DEF TimerNext

\* The counter runs ahead of the time by no more than the ticks that gave the
\* processor away: each of those is counted twice at most, however late its
\* handler comes to its end (timer.c:113-122).
THEOREM GhostTicksBounded == TimerSpec => []GhostTicksExplained
<1>1. TicksInv => GhostTicksExplained
  BY DEF TicksInv, GhostTicksExplained
<1> QED
  BY <1>1, TicksInvInit, TicksInvStep, PTL DEF TimerSpec

-----------------------------------------------------------------------------
(* What the sequence operations of the kernel do to the elements. *)

Msgs(s) == {s[i].msg : i \in DOMAIN s}
\* The first n elements.
First(s, n) == {s[i] : i \in 1 .. n}
FirstMsgs(s, n) == {s[i].msg : i \in 1 .. n}
OneEach(s) == \A i, j \in DOMAIN s : s[i].msg = s[j].msg => i = j

LEMMA AppendElements ==
  ASSUME NEW S, NEW s \in Seq(S), NEW e \in S
  PROVE  /\ Contents(Append(s, e)) = Contents(s) \cup {e}
         /\ Msgs(Append(s, e)) = Msgs(s) \cup {e.msg}
         /\ Distinct(s) /\ e \notin Contents(s) => Distinct(Append(s, e))
         /\ OneEach(s) /\ e.msg \notin Msgs(s) => OneEach(Append(s, e))
<1> DEFINE t == Append(s, e)
           n == Len(s)
<1>1. /\ n \in Nat /\ DOMAIN s = 1 .. n /\ DOMAIN t = 1 .. n + 1
      /\ \A i \in 1 .. n : t[i] = s[i]
      /\ t[n + 1] = e
  BY AppendProperties, LenProperties
<1> HIDE DEF t, n
<1>2. Contents(t) = Contents(s) \cup {e}
  BY <1>1 DEF Contents
<1>3. Msgs(t) = Msgs(s) \cup {e.msg}
  BY <1>1 DEF Msgs
<1>4. ASSUME Distinct(s), e \notin Contents(s) PROVE Distinct(t)
  BY <1>1, <1>4 DEF Distinct, Contents
<1>5. ASSUME OneEach(s), e.msg \notin Msgs(s) PROVE OneEach(t)
  BY <1>1, <1>5 DEF OneEach, Msgs
<1> QED
  BY <1>2, <1>3, <1>4, <1>5 DEF t

\* What follows the first n elements.
Rest(s, n) == SubSeq(s, n + 1, Len(s))
LEMMA RestElements ==
  ASSUME NEW S, NEW s \in Seq(S), NEW n \in 0 .. Len(s)
  PROVE  /\ Rest(s, n) \in Seq(S)
         /\ Len(Rest(s, n)) = Len(s) - n
         /\ \A i \in 1 .. Len(s) - n : Rest(s, n)[i] = s[n + i]
         /\ Distinct(s) => /\ Distinct(Rest(s, n))
                           /\ Contents(Rest(s, n)) = Contents(s) \ First(s, n)
         /\ OneEach(s) => /\ OneEach(Rest(s, n))
                          /\ Msgs(Rest(s, n)) = Msgs(s) \ FirstMsgs(s, n)
<1> DEFINE r == Rest(s, n)
<1> DEFINE N == Len(s)
<1>1. N \in Nat /\ DOMAIN s = 1 .. N /\ \A i \in 1 .. N : s[i] \in S
  BY LenProperties
<1>2. /\ r \in Seq(S)
      /\ Len(r) = N - n
      /\ \A i \in 1 .. N - n : r[i] = s[n + i]
  <2>1. \A i \in n + 1 .. N : s[i] \in S
    BY <1>1
  <2>2. n + 1 \in Int /\ N \in Int
    BY <1>1
  <2>3. /\ r \in Seq(S)
        /\ Len(r) = IF n + 1 <= N THEN N - (n + 1) + 1 ELSE 0
        /\ \A i \in 1 .. N - (n + 1) + 1 : r[i] = s[(n + 1) + i - 1]
    BY <2>1, <2>2, SubSeqProperties DEF Rest
  <2>4. N - (n + 1) + 1 = N - n /\ \A i \in 1 .. N - n : (n + 1) + i - 1 = n + i
    BY <1>1
  <2> HIDE DEF N
  <2>5. n \in 0 .. N
    BY DEF N
  <2>6. Len(r) = N - n
    BY <1>1, <2>3, <2>5
  <2> QED BY <2>3, <2>4, <2>6
<1> HIDE DEF r
<1>3. DOMAIN r = 1 .. N - n
  BY <1>2, LenProperties
<1>a. n \in 0 .. N
  OBVIOUS
<1> HIDE DEF N
<1>4. \A i \in 1 .. N - n : n + i \in 1 .. N /\ n + i \notin 1 .. n
  BY <1>1, <1>a
<1>5. \A i \in 1 .. N : i \notin 1 .. n => i - n \in 1 .. N - n /\ s[i] = r[i - n]
  <2>1. ASSUME NEW i \in 1 .. N, i \notin 1 .. n
        PROVE  i - n \in 1 .. N - n /\ n + (i - n) = i
    BY <1>1, <1>a, <2>1
  <2> QED BY <1>2, <2>1
<1>6. ASSUME Distinct(s)
      PROVE  Distinct(r) /\ Contents(r) = Contents(s) \ First(s, n)
  <2>1. ASSUME NEW i \in 1 .. N - n, NEW j \in 1 .. N - n, r[i] = r[j] PROVE i = j
    <3>1. s[n + i] = s[n + j]
      BY <1>2, <2>1
    <3>2. n + i = n + j
      BY <1>1, <1>4, <1>6, <3>1 DEF Distinct
    <3> QED BY <1>1, <1>a, <3>2
  <2>2. Distinct(r)
    BY <1>3, <2>1 DEF Distinct
  <2>3. ASSUME NEW i \in 1 .. N - n PROVE r[i] \in Contents(s) \ First(s, n)
    <3>1. r[i] = s[n + i] /\ n + i \in 1 .. N
      BY <1>2, <1>4
    <3>2. \A j \in 1 .. n : j \in 1 .. N /\ j # n + i
      BY <1>1, <1>a, <1>4
    <3> QED BY <1>1, <1>6, <3>1, <3>2 DEF Distinct, Contents, First
  <2>4. ASSUME NEW i \in 1 .. N, s[i] \notin First(s, n)
        PROVE  s[i] \in Contents(r)
    BY <1>3, <1>5, <2>4 DEF Contents, First
  <2>5. ASSUME NEW x \in Contents(r) PROVE x \in Contents(s) \ First(s, n)
    <3>1. PICK i \in 1 .. N - n : x = r[i]
      BY <1>3 DEF Contents
    <3> QED BY <2>3, <3>1
  <2>6. ASSUME NEW x \in Contents(s) \ First(s, n) PROVE x \in Contents(r)
    <3>1. PICK i \in 1 .. N : x = s[i]
      BY <1>1 DEF Contents
    <3> QED BY <2>4, <3>1
  <2> QED BY <2>2, <2>5, <2>6
<1>7. ASSUME OneEach(s)
      PROVE  OneEach(r) /\ Msgs(r) = Msgs(s) \ FirstMsgs(s, n)
  <2>1. ASSUME NEW i \in 1 .. N - n, NEW j \in 1 .. N - n, r[i].msg = r[j].msg PROVE i = j
    <3>1. s[n + i].msg = s[n + j].msg
      BY <1>2, <2>1
    <3>2. n + i = n + j
      BY <1>1, <1>4, <1>7, <3>1 DEF OneEach
    <3> QED BY <1>1, <1>a, <3>2
  <2>2. OneEach(r)
    BY <1>3, <2>1 DEF OneEach
  <2>3. ASSUME NEW i \in 1 .. N - n
        PROVE  r[i].msg \in Msgs(s) \ FirstMsgs(s, n)
    <3>1. r[i] = s[n + i] /\ n + i \in 1 .. N
      BY <1>2, <1>4
    <3>2. \A j \in 1 .. n : j \in 1 .. N /\ j # n + i
      BY <1>1, <1>a, <1>4
    <3> QED BY <1>1, <1>7, <3>1, <3>2 DEF OneEach, Msgs, FirstMsgs
  <2>4. ASSUME NEW i \in 1 .. N, s[i].msg \notin FirstMsgs(s, n)
        PROVE  s[i].msg \in Msgs(r)
    BY <1>3, <1>5, <2>4 DEF Msgs, FirstMsgs
  <2>5. ASSUME NEW x \in Msgs(r) PROVE x \in Msgs(s) \ FirstMsgs(s, n)
    <3>1. PICK i \in 1 .. N - n : x = r[i].msg
      BY <1>3 DEF Msgs
    <3> QED BY <2>3, <3>1
  <2>6. ASSUME NEW x \in Msgs(s) \ FirstMsgs(s, n) PROVE x \in Msgs(r)
    <3>1. PICK i \in 1 .. N : x = s[i].msg
      BY <1>1 DEF Msgs
    <3> QED BY <2>4, <3>1
  <2> QED BY <2>2, <2>5, <2>6
<1> QED
  BY <1>2, <1>6, <1>7 DEF N, r

LEMMA TailElements ==
  ASSUME NEW S, NEW s \in Seq(S), s # << >>
  PROVE  /\ Distinct(s) => /\ Distinct(Tail(s))
                           /\ Contents(Tail(s)) = Contents(s) \ {Head(s)}
         /\ OneEach(s) => /\ OneEach(Tail(s))
                          /\ Msgs(Tail(s)) = Msgs(s) \ {Head(s).msg}
         /\ Head(s) \in Contents(s) /\ Head(s).msg \in Msgs(s)
<1>1. Tail(s) = SubSeq(s, 1 + 1, Len(s)) /\ 1 \in 0 .. Len(s) /\ 1 \in DOMAIN s
  BY TailIsSubSeq, EmptySeq, LenProperties
<1>2. Head(s) = s[1] /\ 1 .. 1 = {1}
  BY <1>1
<1>3. First(s, 1) = {Head(s)} /\ FirstMsgs(s, 1) = {Head(s).msg}
  BY <1>2 DEF First, FirstMsgs
<1> DEFINE r == Tail(s)
<1>4. /\ Distinct(s) => Distinct(r) /\ Contents(r) = Contents(s) \ {Head(s)}
      /\ OneEach(s) => OneEach(r) /\ Msgs(r) = Msgs(s) \ {Head(s).msg}
  <2>1. r = Rest(s, 1)
    BY <1>1 DEF Rest
  <2>2. /\ Distinct(s) => /\ Distinct(Rest(s, 1))
                          /\ Contents(Rest(s, 1)) = Contents(s) \ First(s, 1)
        /\ OneEach(s) => /\ OneEach(Rest(s, 1))
                         /\ Msgs(Rest(s, 1)) = Msgs(s) \ FirstMsgs(s, 1)
    <3>1. ASSUME NEW n \in 0 .. Len(s)
          PROVE  /\ Distinct(s) => /\ Distinct(Rest(s, n))
                                   /\ Contents(Rest(s, n)) = Contents(s) \ First(s, n)
                 /\ OneEach(s) => /\ OneEach(Rest(s, n))
                                  /\ Msgs(Rest(s, n)) = Msgs(s) \ FirstMsgs(s, n)
      BY RestElements
    <3> QED BY <1>1, <3>1
  <2> HIDE DEF r
  <2> QED BY <1>3, <2>1, <2>2
<1>5. Head(s) \in Contents(s) /\ Head(s).msg \in Msgs(s)
  BY <1>1, <1>2 DEF Contents, Msgs
<1> QED
  BY <1>4, <1>5

-----------------------------------------------------------------------------
(* The delayed queue. *)

Sorted(q) == \A i, j \in DOMAIN q : i < j => q[i].expiry <= q[j].expiry

\* enqueue_message inserts m at one place and keeps the order.
LEMMA EnqueueElements ==
  ASSUME NEW q \in Seq(DelayedEnvelope), NEW m \in DelayedEnvelope
  PROVE  /\ Contents(enqueue_message(m, q)) = Contents(q) \cup {m}
         /\ Msgs(enqueue_message(m, q)) = Msgs(q) \cup {m.msg}
         /\ OneEach(q) /\ m.msg \notin Msgs(q) => OneEach(enqueue_message(m, q))
         /\ Sorted(q) => Sorted(enqueue_message(m, q))
         /\ DOMAIN enqueue_message(m, q) = 1 .. Len(q) + 1
         /\ Sorted(q) => \A i, j \in DOMAIN enqueue_message(m, q) :
              i < j => \/ Before(q, enqueue_message(m, q)[i], enqueue_message(m, q)[j])
                       \/ enqueue_message(m, q)[j] = m
                       \/ enqueue_message(m, q)[i].expiry < enqueue_message(m, q)[j].expiry
<1> DEFINE N == Len(q)
           n == ExpiredCount(q, m.expiry)
           r == enqueue_message(m, q)
<1>1. /\ N \in Nat /\ DOMAIN q = 1 .. N /\ \A i \in 1 .. N : q[i] \in DelayedEnvelope
      /\ m.expiry \in Nat /\ \A i \in 1 .. N : q[i].expiry \in Nat
  <2>1. N \in Nat /\ DOMAIN q = 1 .. N /\ \A i \in 1 .. N : q[i] \in DelayedEnvelope
    BY LenProperties, ElementOfSeq
  <2>2. \A e \in DelayedEnvelope : e.expiry \in Nat
    BY DEF DelayedEnvelope
  <2> QED BY <2>1, <2>2
<1>2. /\ n \in 0 .. N
      /\ \A i \in 1 .. n : q[i].expiry <= m.expiry
      /\ n < N => q[n + 1].expiry > m.expiry
  BY <1>1, ExpiredCountProperties
<1>3. /\ DOMAIN r = 1 .. N + 1
      /\ \A i \in 1 .. n : r[i] = q[i]
      /\ r[n + 1] = m
      /\ \A i \in n + 1 .. N : r[i + 1] = q[i]
  <2>1. r = Inserted(q, n, m)
    BY DEF enqueue_message, Inserted
  <2>2. n \in 0 .. Len(q) /\ N = Len(q)
    BY <1>2
  <2> HIDE DEF r, n, N
  <2>3. /\ DOMAIN Inserted(q, n, m) = 1 .. Len(q) + 1
        /\ \A i \in 1 .. n : Inserted(q, n, m)[i] = q[i]
        /\ Inserted(q, n, m)[n + 1] = m
        /\ \A i \in n + 1 .. Len(q) : Inserted(q, n, m)[i + 1] = q[i]
    <3>1. \A S, s, e : s \in Seq(S) /\ e \in S => \A c \in 0 .. Len(s) :
            /\ DOMAIN Inserted(s, c, e) = 1 .. Len(s) + 1
            /\ \A i \in 1 .. c : Inserted(s, c, e)[i] = s[i]
            /\ Inserted(s, c, e)[c + 1] = e
            /\ \A i \in c + 1 .. Len(s) : Inserted(s, c, e)[i + 1] = s[i]
      BY Insertion
    <3> QED BY <2>2, <3>1
  <2> QED BY <2>1, <2>2, <2>3
<1> HIDE DEF r, n, N
\* Where an element of r comes from.
<1>4. \A i \in 1 .. N + 1 : \/ i \in 1 .. n /\ i \in 1 .. N /\ r[i] = q[i]
                            \/ i = n + 1 /\ r[i] = m
                            \/ i - 1 \in n + 1 .. N /\ i - 1 \in 1 .. N /\ r[i] = q[i - 1]
  <2>1. ASSUME NEW i \in 1 .. N + 1, i > n + 1
        PROVE  i - 1 \in n + 1 .. N /\ i - 1 \in 1 .. N /\ (i - 1) + 1 = i
    BY <1>1, <1>2, <2>1
  <2>2. ASSUME NEW i \in 1 .. N + 1
        PROVE  (i \in 1 .. n /\ i \in 1 .. N) \/ i = n + 1 \/ i > n + 1
    BY <1>1, <1>2
  <2> QED BY <1>3, <2>1, <2>2
<1>5. \A i \in 1 .. N : \E j \in 1 .. N + 1 : r[j] = q[i]
  <2>1. ASSUME NEW i \in 1 .. N
        PROVE  \/ i \in 1 .. n /\ i \in 1 .. N + 1
               \/ i \in n + 1 .. N /\ i + 1 \in 1 .. N + 1
    BY <1>1, <1>2
  <2> QED BY <1>3, <2>1
<1>6. n + 1 \in 1 .. N + 1
  BY <1>1, <1>2
<1>7. Contents(r) = Contents(q) \cup {m}
  <2>1. ASSUME NEW x \in Contents(r) PROVE x \in Contents(q) \cup {m}
    <3>1. PICK i \in 1 .. N + 1 : x = r[i]
      BY <1>3 DEF Contents
    <3>2. r[i] = m \/ \E j \in 1 .. N : r[i] = q[j]
      BY <1>4
    <3> QED BY <1>1, <3>1, <3>2 DEF Contents
  <2>2. ASSUME NEW x \in Contents(q) \cup {m} PROVE x \in Contents(r)
    <3>1. x = m \/ \E i \in 1 .. N : x = q[i]
      BY <1>1 DEF Contents
    <3>2. \E j \in 1 .. N + 1 : r[j] = x
      BY <1>3, <1>5, <1>6, <3>1
    <3> QED BY <1>3, <3>2 DEF Contents
  <2> QED BY <2>1, <2>2
<1>8. \A s : Msgs(s) = {e.msg : e \in Contents(s)}
  BY DEF Msgs, Contents
<1>9. Msgs(r) = Msgs(q) \cup {m.msg}
  BY <1>7, <1>8
<1>10. ASSUME OneEach(q), m.msg \notin Msgs(q) PROVE OneEach(r)
  <2>1. \A i \in 1 .. N : q[i].msg # m.msg
    BY <1>1, <1>10 DEF Msgs
  <2>2. \A i, j \in 1 .. N : q[i].msg = q[j].msg => i = j
    BY <1>1, <1>10 DEF OneEach
  <2>3. ASSUME NEW i \in 1 .. N + 1, NEW j \in 1 .. N + 1, r[i].msg = r[j].msg
        PROVE  i = j
    <3>1. CASE i = n + 1 \/ j = n + 1
      <4>1. r[i] = m \/ r[j] = m
        BY <1>3, <3>1
      <4> QED BY <1>4, <2>1, <2>3, <4>1
    <3>2. CASE i \in 1 .. n /\ i \in 1 .. N /\ r[i] = q[i]
      <4>1. j # n + 1 => i = j \/ (i = j - 1 /\ i \in n + 1 .. N)
        BY <1>4, <2>2, <2>3, <3>2
      <4> QED BY <1>1, <1>2, <3>1, <3>2, <4>1
    <3>3. CASE i - 1 \in n + 1 .. N /\ i - 1 \in 1 .. N /\ r[i] = q[i - 1]
      <4>1. j # n + 1 => i - 1 = j - 1 \/ (i - 1 = j /\ j \in 1 .. n)
        BY <1>4, <2>2, <2>3, <3>3
      <4> QED BY <1>1, <1>2, <3>1, <3>3, <4>1
    <3> QED BY <1>4, <3>1, <3>2, <3>3
  <2> QED BY <1>3, <2>3 DEF OneEach
<1>12. ASSUME Sorted(q), NEW i \in n + 1 .. N PROVE m.expiry < q[i].expiry
  <2>1. \A a, b \in 1 .. N : a <= b => q[a].expiry <= q[b].expiry
    BY <1>1, <1>12 DEF Sorted
  <2>2. n < N /\ n + 1 \in 1 .. N /\ i \in 1 .. N /\ n + 1 <= i
    BY <1>1, <1>2
  <2> QED BY <1>1, <1>2, <2>1, <2>2
<1>11. ASSUME Sorted(q) PROVE Sorted(r)
  <2>1. \A i, j \in 1 .. N : i <= j => q[i].expiry <= q[j].expiry
    BY <1>1, <1>11 DEF Sorted
  <2>2. \A i \in n + 1 .. N : m.expiry < q[i].expiry
    BY <1>11, <1>12
  <2>3. ASSUME NEW i \in 1 .. N + 1, NEW j \in 1 .. N + 1, i < j
        PROVE  r[i].expiry <= r[j].expiry
    <3>1. CASE i \in 1 .. n /\ i \in 1 .. N /\ r[i] = q[i]
      <4>1. q[i].expiry <= m.expiry
        BY <1>2, <3>1
      <4>2. r[j] = m \/ (j \in 1 .. N /\ r[j] = q[j])
            \/ (j - 1 \in 1 .. N /\ i <= j - 1 /\ r[j] = q[j - 1])
        BY <1>4, <2>3
      <4> QED BY <2>1, <2>3, <3>1, <4>1, <4>2
    <3>2. CASE i = n + 1 /\ r[i] = m
      <4>1. j - 1 \in n + 1 .. N /\ r[j] = q[j - 1]
        BY <1>1, <1>2, <1>4, <2>3, <3>2
      <4> QED BY <1>1, <1>2, <2>2, <3>2, <4>1
    <3>3. CASE i - 1 \in n + 1 .. N /\ i - 1 \in 1 .. N /\ r[i] = q[i - 1]
      <4>1. j - 1 \in 1 .. N /\ r[j] = q[j - 1] /\ i - 1 <= j - 1
        BY <1>1, <1>2, <1>4, <2>3, <3>3
      <4> QED BY <2>1, <3>3, <4>1
    <3> QED BY <1>4, <3>1, <3>2, <3>3
  <2> QED BY <1>3, <2>3 DEF Sorted
<1> DEFINE From(i, a) == (a = i /\ i \in 1 .. n) \/ (a = i - 1 /\ a \in n + 1 .. N)
<1>15. ASSUME NEW i \in 1 .. N + 1
       PROVE  (i = n + 1 /\ r[i] = m) \/ \E a \in 1 .. N : r[i] = q[a] /\ From(i, a)
  BY <1>4
<1>16. ASSUME NEW i \in 1 .. N + 1, NEW j \in 1 .. N + 1, i < j,
              NEW a \in 1 .. N, From(i, a), NEW b \in 1 .. N, From(j, b)
       PROVE  a < b
  BY <1>1, <1>2, <1>16
<1> HIDE DEF From
<1>13. ASSUME Sorted(q), NEW i \in 1 .. N + 1, NEW j \in 1 .. N + 1, i < j
       PROVE  Before(q, r[i], r[j]) \/ r[j] = m \/ r[i].expiry < r[j].expiry
  <2>1. CASE i = n + 1 /\ r[i] = m
    <3>1. j - 1 \in n + 1 .. N /\ r[j] = q[j - 1]
      BY <1>1, <1>2, <1>4, <1>13, <2>1
    <3> QED BY <1>12, <1>13, <2>1, <3>1
  <2>2. ASSUME NEW a \in 1 .. N, r[i] = q[a], From(i, a)
        PROVE  Before(q, r[i], r[j]) \/ r[j] = m
    <3>1. ASSUME NEW b \in 1 .. N, r[j] = q[b], From(j, b) PROVE Before(q, r[i], r[j])
      <4>1. a < b
        BY <1>13, <1>16, <2>2, <3>1
      <4> QED BY <1>1, <2>2, <3>1, <4>1 DEF Before
    <3> QED BY <1>15, <3>1
  <2> QED BY <1>15, <2>1, <2>2
<1>14. Sorted(q) => \A i, j \in DOMAIN r :
         i < j => Before(q, r[i], r[j]) \/ r[j] = m \/ r[i].expiry < r[j].expiry
  BY <1>3, <1>13
<1> QED
  BY <1>3, <1>7, <1>9, <1>10, <1>11, <1>14 DEF r, N

-----------------------------------------------------------------------------
(* Delivery. *)

Letter(d) == [msg |-> d.msg, m_send_pid |-> d.m_send_pid]

\* box is the mailbox old of p after the first i messages of q are delivered.
Brings(box, old, q, p, i) ==
  /\ box \in Seq(Envelope)
  /\ Len(box) >= Len(old)
  /\ \A j \in 1 .. Len(old) : box[j] = old[j]
  /\ \A j \in Len(old) + 1 .. Len(box) :
       \E c \in 1 .. i : q[c].m_recv_pid = p /\ box[j] = Letter(q[c])
  /\ \A c \in 1 .. i :
       q[c].m_recv_pid = p => \E j \in Len(old) + 1 .. Len(box) : box[j] = Letter(q[c])
  /\ \A c, d \in 1 .. i :
       c < d /\ q[c].m_recv_pid = p /\ q[d].m_recv_pid = p
         => \E a, b \in Len(old) + 1 .. Len(box) :
              a < b /\ box[a] = Letter(q[c]) /\ box[b] = Letter(q[d])
  /\ OneEach(box)

LEMMA BringsOne ==
  ASSUME NEW q \in Seq(DelayedEnvelope), NEW i \in 0 .. Len(q) - 1, NEW p \in Procs,
         NEW old \in Seq(Envelope), NEW box, Brings(box, old, q, p, i),
         OneEach(q), Msgs(old) \cap Msgs(q) = {}
  PROVE  /\ q[i + 1].m_recv_pid = p
              => Brings(Append(box, Letter(q[i + 1])), old, q, p, i + 1)
         /\ q[i + 1].m_recv_pid # p => Brings(box, old, q, p, i + 1)
<1> DEFINE N == Len(q)
           M == Len(old)
           L == Len(box)
           d == q[i + 1]
<1>1. /\ N \in Nat /\ DOMAIN q = 1 .. N
      /\ M \in Nat /\ DOMAIN old = 1 .. M
      /\ box \in Seq(Envelope) /\ L \in Nat /\ DOMAIN box = 1 .. L /\ M <= L
  BY LenProperties DEF Brings
<1>2. i \in 0 .. N - 1 /\ i \in Nat /\ i + 1 \in 1 .. N /\ \A c \in 1 .. i : c \in 1 .. N /\ c # i + 1
  BY <1>1
<1>3. d \in DelayedEnvelope /\ Letter(d) \in Envelope /\ Letter(d).msg = d.msg
  <2>1. d \in DelayedEnvelope
    BY <1>2, ElementOfSeq
  <2> HIDE DEF d
  <2> QED BY <2>1 DEF DelayedEnvelope, Envelope, Letter
<1>4. /\ \A j \in 1 .. M : box[j] = old[j]
      /\ \A j \in M + 1 .. L : \E c \in 1 .. i : q[c].m_recv_pid = p /\ box[j] = Letter(q[c])
      /\ \A c \in 1 .. i : q[c].m_recv_pid = p
                            => \E j \in M + 1 .. L : box[j] = Letter(q[c])
      /\ \A c, e \in 1 .. i :
           c < e /\ q[c].m_recv_pid = p /\ q[e].m_recv_pid = p
             => \E a, b \in M + 1 .. L :
                  a < b /\ box[a] = Letter(q[c]) /\ box[b] = Letter(q[e])
      /\ OneEach(box)
  BY DEF Brings
<1>5. \A c \in 1 .. i + 1 : c \in 1 .. i \/ c = i + 1
  BY <1>2
<1>6. \A c \in 1 .. i : c \in 1 .. i + 1
  BY <1>2
<1>7. i + 1 \in 1 .. i + 1
  BY <1>2
<1> HIDE DEF N, M, L, d
<1>8. ASSUME d.m_recv_pid # p PROVE Brings(box, old, q, p, i + 1)
  <2>1. \A c \in 1 .. i + 1 : q[c].m_recv_pid = p => c \in 1 .. i
    BY <1>5, <1>8 DEF d
  <2> QED BY <1>1, <1>4, <1>6, <2>1 DEF Brings, M, L
<1>9. ASSUME d.m_recv_pid = p PROVE Brings(Append(box, Letter(d)), old, q, p, i + 1)
  <2> DEFINE new == Append(box, Letter(d))
  <2>1. /\ new \in Seq(Envelope) /\ Len(new) = L + 1
        /\ \A j \in 1 .. L : new[j] = box[j]
        /\ new[L + 1] = Letter(d)
    BY <1>1, <1>3, AppendProperties DEF L
  <2>2. d.msg \notin Msgs(box)
    <3>1. d.msg \in Msgs(q)
      BY <1>1, <1>2 DEF Msgs, d
    <3>2. ASSUME NEW j \in 1 .. L, box[j].msg = d.msg PROVE FALSE
      <4>1. CASE j \in 1 .. M
        <5>1. d.msg \in Msgs(old)
          BY <1>1, <1>4, <3>2, <4>1 DEF Msgs
        <5> QED BY <3>1, <5>1
      <4>2. CASE j \in M + 1 .. L
        <5>1. PICK c \in 1 .. i : box[j] = Letter(q[c])
          BY <1>4, <4>2
        <5>2. q[c].msg = q[i + 1].msg
          BY <3>2, <5>1 DEF Letter, d
        <5> QED BY <1>1, <1>2, <5>2 DEF OneEach
      <4> QED BY <1>1, <4>1, <4>2
    <3> QED BY <1>1, <3>2 DEF Msgs
  <2>3. OneEach(new)
    BY <1>1, <1>3, <1>4, <2>2, AppendElements
  <2> HIDE DEF new
  <2>4. \A j \in 1 .. M : j \in 1 .. L /\ new[j] = old[j]
    <3>1. \A j \in 1 .. M : j \in 1 .. L
      BY <1>1
    <3> QED BY <1>4, <2>1, <3>1
  <2>5. ASSUME NEW j \in M + 1 .. L + 1
        PROVE  \E c \in 1 .. i + 1 : q[c].m_recv_pid = p /\ new[j] = Letter(q[c])
    <3>1. CASE j = L + 1
      BY <1>7, <1>9, <2>1, <3>1 DEF d
    <3>2. CASE j \in M + 1 .. L
      <4>1. j \in 1 .. L
        BY <1>1, <3>2
      <4> QED BY <1>4, <1>6, <2>1, <3>2, <4>1
    <3> QED BY <1>1, <3>1, <3>2
  <2>6. ASSUME NEW c \in 1 .. i + 1, q[c].m_recv_pid = p
        PROVE  \E j \in M + 1 .. L + 1 : new[j] = Letter(q[c])
    <3>1. CASE c = i + 1
      <4>1. L + 1 \in M + 1 .. L + 1
        BY <1>1
      <4> QED BY <2>1, <3>1, <4>1 DEF d
    <3>2. CASE c \in 1 .. i
      <4>1. PICK j \in M + 1 .. L : box[j] = Letter(q[c])
        BY <1>4, <2>6, <3>2
      <4>2. j \in 1 .. L /\ j \in M + 1 .. L + 1
        BY <1>1
      <4> QED BY <2>1, <4>1, <4>2
    <3> QED BY <1>5, <3>1, <3>2
  <2>7. Len(new) >= M
    BY <1>1, <2>1
  <2>9. ASSUME NEW c \in 1 .. i + 1, NEW e \in 1 .. i + 1, c < e,
               q[c].m_recv_pid = p, q[e].m_recv_pid = p
        PROVE  \E a, b \in M + 1 .. L + 1 :
                 a < b /\ new[a] = Letter(q[c]) /\ new[b] = Letter(q[e])
    <3>0. c \in 1 .. i /\ (e = i + 1 \/ e \in 1 .. i)
      BY <1>2, <2>9
    <3>1. CASE e = i + 1
      <4>1. PICK a \in M + 1 .. L : box[a] = Letter(q[c])
        BY <1>4, <2>9, <3>0
      <4>2. a \in 1 .. L /\ a \in M + 1 .. L + 1 /\ a < L + 1 /\ L + 1 \in M + 1 .. L + 1
        BY <1>1
      <4> QED BY <2>1, <3>1, <4>1, <4>2 DEF d
    <3>2. CASE e \in 1 .. i
      <4>1. PICK a, b \in M + 1 .. L :
              a < b /\ box[a] = Letter(q[c]) /\ box[b] = Letter(q[e])
        BY <1>4, <2>9, <3>0, <3>2
      <4>2. a \in 1 .. L /\ a \in M + 1 .. L + 1 /\ b \in 1 .. L /\ b \in M + 1 .. L + 1
        BY <1>1
      <4> QED BY <2>1, <4>1, <4>2
    <3> QED BY <3>0, <3>1, <3>2
  <2>8. Brings(new, old, q, p, i + 1)
    BY <2>1, <2>3, <2>4, <2>5, <2>6, <2>7, <2>9 DEF Brings, M
  <2> QED BY <2>8 DEF new
<1> QED
  BY <1>8, <1>9 DEF d

\* k_check_delayed_messages appends the letters of the first n messages.
LEMMA DeliveredMail ==
  ASSUME NEW s, s.mail \in Mailboxes, NEW q \in Seq(DelayedEnvelope), NEW n \in 0 .. Len(q),
         OneEach(q),
         \A p \in Procs : OneEach(s.mail[p]) /\ Msgs(s.mail[p]) \cap Msgs(q) = {},
         NEW r, r = Delivered(s, q, n)
  PROVE  /\ r.mail \in Mailboxes
         /\ \A p \in Procs : Brings(r.mail[p], s.mail[p], q, p, n)
<1> DEFINE Fine(x, i) == /\ x.mail \in Mailboxes
                         /\ \A p \in Procs : Brings(x.mail[p], s.mail[p], q, p, i)
<1>0. Len(q) \in Nat /\ n \in Nat /\ n \in 0 .. n
  BY LenProperties
<1>1. PICK d : IsDelivery(d, s, q, n) /\ r = d[n]
  <2> DEFINE d == CHOOSE d : IsDelivery(d, s, q, n)
  <2>1. IsDelivery(d, s, q, n)
    BY <1>0, DeliveryExists
  <2>2. r = d[n]
    BY DEF Delivered, IsDelivery
  <2> HIDE DEF d
  <2> QED BY <2>1, <2>2
<1>2. \A i \in 0 .. n :
        d[i] = IF i = 0 THEN s
               ELSE k_send_message_helper(d[i - 1], q[i].m_send_pid, q[i].m_recv_pid, q[i].msg)
  BY <1>1 DEF IsDelivery
<1> DEFINE Right == {i \in 0 .. n : Fine(d[i], i)}
<1>3. 0 \in Right
  <2>1. d[0] = s
    BY <1>0, <1>2
  <2>2. ASSUME NEW p \in Procs PROVE Brings(s.mail[p], s.mail[p], q, p, 0)
    <3>1. s.mail[p] \in Seq(Envelope) /\ Len(s.mail[p]) \in Nat
      BY LenProperties DEF Mailboxes
    <3> QED BY <3>1 DEF Brings
  <2> QED BY <1>0, <2>1, <2>2
<1>4. ASSUME NEW i \in 0 .. n - 1, i \in Right PROVE i + 1 \in Right
  <2>0. i + 1 \in 0 .. n /\ i + 1 \in 1 .. Len(q) /\ i \in 0 .. Len(q) - 1 /\ (i + 1) - 1 = i
        /\ i + 1 # 0
    BY <1>0
  <2> DEFINE x == d[i]
             y == d[i + 1]
             e == q[i + 1]
             to == e.m_recv_pid
  <2>1. Fine(x, i)
    BY <1>4
  <2>2. y = k_send_message_helper(x, e.m_send_pid, to, e.msg)
    BY <1>2, <2>0
  <2>3. e \in DelayedEnvelope
    BY <2>0, ElementOfSeq
  <2> HIDE DEF x, y, e
  <2>4. to \in Procs
    BY <2>3 DEF DelayedEnvelope
  <2> HIDE DEF to
  <2>5. y.mail = [x.mail EXCEPT ![to] = Append(@, Letter(e))]
    BY <2>2 DEF k_send_message_helper, Letter
  <2>6. /\ \A p \in Procs : p # to => y.mail[p] = x.mail[p]
        /\ y.mail[to] = Append(x.mail[to], Letter(e))
        /\ DOMAIN y.mail = Procs
        /\ y.mail = [p \in Procs |-> y.mail[p]]
    BY <2>1, <2>4, <2>5 DEF Mailboxes
  <2>7. ASSUME NEW p \in Procs PROVE Brings(y.mail[p], s.mail[p], q, p, i + 1)
    <3> DEFINE old == s.mail[p]
               box == x.mail[p]
    <3>1. /\ old \in Seq(Envelope) /\ Brings(box, old, q, p, i)
          /\ Msgs(old) \cap Msgs(q) = {}
      BY <2>1 DEF Mailboxes
    <3> HIDE DEF old, box
    <3>2. /\ to = p => Brings(Append(box, Letter(e)), old, q, p, i + 1)
          /\ to # p => Brings(box, old, q, p, i + 1)
      BY <2>0, <3>1, BringsOne DEF e, to
    <3> QED BY <2>6, <3>2 DEF old, box
  <2>8. y.mail \in Mailboxes
    BY <2>6, <2>7 DEF Brings, Mailboxes
  <2> QED BY <2>0, <2>7, <2>8 DEF y
<1>5. n \in Right
  <2> HIDE DEF Right
  <2> QED BY <1>0, <1>3, <1>4, SegmentInduction
<1> QED
  BY <1>1, <1>5

-----------------------------------------------------------------------------
(* One place for every block. *)

\* The free blocks F, those that the processes have, H, the messages in the
\* mailboxes, M, and the delayed ones, D, share no block and leave none out.
Placed(F, H, M, D) ==
  \A b \in mem_blocks :
    /\ b \in F \/ b \in D \/ \E p \in Procs : b \in H[p] \/ b \in M[p]
    /\ b \in F => b \notin D
    /\ \A p \in Procs : b \in F \cup D => b \notin H[p] /\ b \notin M[p]
    /\ \A p, r \in Procs :
         /\ b \in H[p] => b \notin M[r]
         /\ b \in H[p] \cap H[r] => p = r
         /\ b \in M[p] \cap M[r] => p = r

MailMsgs(mail) == [p \in Procs |-> Msgs(mail[p])]

PlacesInv ==
  /\ Distinct(g_heap)
  /\ \A p \in Procs : OneEach(g_message_queues[p])
  /\ OneEach(g_delayed_msg_queue)
  /\ Sorted(g_delayed_msg_queue)
  /\ \A i \in DOMAIN g_delayed_msg_queue : g_delayed_msg_queue[i].expiry > g_timer_count
  /\ Placed(Contents(g_heap), held, MailMsgs(g_message_queues), Msgs(g_delayed_msg_queue))

HeldBlocks == [Procs -> SUBSET mem_blocks]

\* A block moves from one place to another.
LEMMA MoveFreeToHeld ==
  ASSUME NEW F, NEW H \in HeldBlocks, NEW M, NEW D, Placed(F, H, M, D),
         NEW p \in Procs, NEW b \in F
  PROVE  Placed(F \ {b}, [H EXCEPT ![p] = @ \cup {b}], M, D)
BY DEF Placed, HeldBlocks

LEMMA MoveHeldToFree ==
  ASSUME NEW F, NEW H \in HeldBlocks, NEW M, NEW D, Placed(F, H, M, D),
         NEW p \in Procs, NEW b \in H[p]
  PROVE  Placed(F \cup {b}, [H EXCEPT ![p] = @ \ {b}], M, D)
BY DEF Placed, HeldBlocks

LEMMA MoveHeldToDelayed ==
  ASSUME NEW F, NEW H \in HeldBlocks, NEW M, NEW D, Placed(F, H, M, D),
         NEW p \in Procs, NEW b \in H[p]
  PROVE  Placed(F, [H EXCEPT ![p] = @ \ {b}], M, D \cup {b})
BY DEF Placed, HeldBlocks

LEMMA MoveHeldToMail ==
  ASSUME NEW F, NEW H \in HeldBlocks, NEW M, NEW D, Placed(F, H, M, D),
         NEW p \in Procs, NEW b \in H[p], NEW to \in Procs, NEW N,
         N[to] = M[to] \cup {b}, \A r \in Procs : r # to => N[r] = M[r]
  PROVE  Placed(F, [H EXCEPT ![p] = @ \ {b}], N, D)
BY DEF Placed, HeldBlocks

LEMMA MoveMailToHeld ==
  ASSUME NEW F, NEW H \in HeldBlocks, NEW M, NEW D, Placed(F, H, M, D),
         NEW p \in Procs, NEW x \in M[p], x \in mem_blocks \cup Notifications, NEW N,
         N[p] = M[p] \ {x}, \A r \in Procs : r # p => N[r] = M[r]
  PROVE  Placed(F, [H EXCEPT ![p] = @ \cup ({x} \ Notifications)], N, D)
BY DEF Placed, HeldBlocks, Notifications, notif_in_msg, notif_out_msg, mem_blocks

\* A notification is no block.
LEMMA NoticeIsPlaced ==
  ASSUME NEW F, NEW H, NEW M, NEW D, Placed(F, H, M, D),
         NEW to \in Procs, NEW x \in Notifications, NEW N,
         N[to] = M[to] \cup {x}, \A r \in Procs : r # to => N[r] = M[r]
  PROVE  Placed(F, H, N, D)
BY DEF Placed, Notifications, notif_in_msg, notif_out_msg, mem_blocks

\* Delayed messages, those in X, move to the mailboxes: E[p] to that of p.
LEMMA MoveDelayedToMail ==
  ASSUME NEW F, NEW H, NEW M, NEW D, Placed(F, H, M, D),
         NEW X, X \subseteq D \cap mem_blocks, NEW E,
         \A b \in X : \E p \in Procs : b \in E[p],
         \A p \in Procs : E[p] \subseteq X,
         \A p, r \in Procs : \A b \in E[p] \cap E[r] : p = r,
         NEW N, \A p \in Procs : N[p] = M[p] \cup E[p]
  PROVE  Placed(F, H, N, D \ X)
BY DEF Placed

-----------------------------------------------------------------------------
(* One lemma per action that moves a block. *)

IpcStep == [I!Next]_(I!ipcVars)

\* The types that the steps need.
LEMMA Types ==
  ASSUME KernelInv
  PROVE  /\ g_heap \in Seq(mem_blocks)
         /\ g_message_queues \in Mailboxes
         /\ g_delayed_msg_queue \in Seq(DelayedEnvelope)
         /\ g_timer_count \in Nat
         /\ held \in HeldBlocks
         /\ k.running # PID_NONE => Caller \in Procs
BY KernelAssumption, CallerRuns DEF KernelInv, TypeOK, Mailboxes, HeldBlocks

\* Scheduling, waiting and acknowledging move no block.
LEMMA NothingMoves ==
  ASSUME PlacesInv,
         UNCHANGED <<g_heap, g_message_queues, g_delayed_msg_queue, g_timer_count, held>>
  PROVE  PlacesInv' /\ IpcStep
<1>1. PlacesInv'
  BY DEF PlacesInv, Placed, MailMsgs, Msgs, Contents, Distinct, OneEach, Sorted
<1>2. UNCHANGED I!ipcVars
  BY DEF I!ipcVars, Contents
<1> QED
  BY <1>1, <1>2 DEF IpcStep

LEMMA RequestMoves ==
  ASSUME KernelInv, PlacesInv, RequestMemoryBlock
  PROVE  PlacesInv' /\ IpcStep
<1>0. k.running # PID_NONE /\ Caller \in Procs
  BY Types DEF RequestMemoryBlock, Loops, CanCall, UserMode
<1>1. CASE g_heap = << >>
  BY <1>1, NothingMoves DEF RequestMemoryBlock
<1>2. CASE g_heap # << >>
  <2> DEFINE b == Head(g_heap)
  <2>1. /\ g_heap' = Tail(g_heap)
        /\ held' = [held EXCEPT ![Caller] = @ \cup {b}]
        /\ UNCHANGED <<g_message_queues, g_delayed_msg_queue, g_timer_count>>
    BY <1>2 DEF RequestMemoryBlock
  <2>2. /\ Distinct(g_heap') /\ Contents(g_heap') = Contents(g_heap) \ {b}
        /\ b \in Contents(g_heap)
    BY <1>2, <2>1, Types, TailElements DEF PlacesInv
  <2> HIDE DEF b
  <2>3. Placed(Contents(g_heap'), held', MailMsgs(g_message_queues), Msgs(g_delayed_msg_queue))
    <3> DEFINE F == Contents(g_heap)
               M == MailMsgs(g_message_queues)
               D == Msgs(g_delayed_msg_queue)
    <3>1. Placed(F, held, M, D)
      BY DEF PlacesInv
    <3>2. held \in HeldBlocks
      BY Types
    <3> HIDE DEF F, M, D
    <3>3. b \in F
      BY <2>2 DEF F
    <3>4. Placed(F \ {b}, [held EXCEPT ![Caller] = @ \cup {b}], M, D)
      BY <1>0, <3>1, <3>2, <3>3, MoveFreeToHeld
    <3> QED BY <2>1, <2>2, <3>4 DEF F, M, D
  <2>4. PlacesInv'
    BY <2>1, <2>2, <2>3 DEF PlacesInv, MailMsgs
  <2>5. I!Request(Caller, b)
    BY <2>1, <2>2 DEF I!Request
  <2>6. I!Next
    BY <1>0, <2>2, <2>5 DEF I!Next
  <2> QED BY <2>4, <2>6 DEF IpcStep
<1> QED
  BY <1>1, <1>2

LEMMA ReleaseMoves ==
  ASSUME KernelInv, PlacesInv, NEW b \in mem_blocks, ReleaseMemoryBlock(b)
  PROVE  PlacesInv' /\ IpcStep
<1>0. k.running # PID_NONE /\ Caller \in Procs
  BY Types DEF ReleaseMemoryBlock, CanCall, UserMode
<1>1. /\ g_heap' = Append(g_heap, b)
      /\ held' = [held EXCEPT ![Caller] = @ \ {b}]
      /\ UNCHANGED <<g_message_queues, g_delayed_msg_queue, g_timer_count>>
      /\ b \in held[Caller]
  BY DEF ReleaseMemoryBlock, k_release_memory_block_valid
<1>2. b \notin Contents(g_heap)
  BY DEF ReleaseMemoryBlock, k_release_memory_block_valid, Occurs, Contents
<1>3. Distinct(g_heap') /\ Contents(g_heap') = Contents(g_heap) \cup {b}
  BY <1>1, <1>2, Types, AppendElements DEF PlacesInv
<1>4. Placed(Contents(g_heap'), held', MailMsgs(g_message_queues), Msgs(g_delayed_msg_queue))
  <2> DEFINE F == Contents(g_heap)
             M == MailMsgs(g_message_queues)
             D == Msgs(g_delayed_msg_queue)
  <2>1. Placed(F, held, M, D)
    BY DEF PlacesInv
  <2>2. held \in HeldBlocks
    BY Types
  <2> HIDE DEF F, M, D
  <2>3. Placed(F \cup {b}, [held EXCEPT ![Caller] = @ \ {b}], M, D)
    BY <1>0, <1>1, <2>1, <2>2, MoveHeldToFree
  <2> QED BY <1>1, <1>3, <2>3 DEF F, M, D
<1>5. PlacesInv'
  BY <1>1, <1>3, <1>4 DEF PlacesInv, MailMsgs
<1>6. I!Release(Caller, b)
  BY <1>1, <1>3 DEF I!Release, I!GiveUp
<1>7. I!Next
  BY <1>0, <1>1, <1>6 DEF I!Next
<1> QED
  BY <1>5, <1>7 DEF IpcStep

\* What k_send_message_helper does to the mailboxes.
LEMMA SendMail ==
  ASSUME KernelInv, NEW to \in Procs, NEW from \in Procs,
         NEW msg \in mem_blocks \cup Notifications,
         g_message_queues' = Sent(to, msg, from).mail,
         \A p \in Procs : OneEach(g_message_queues[p]), msg \notin Msgs(g_message_queues[to])
  PROVE  /\ g_message_queues'
               = [g_message_queues EXCEPT ![to] = Append(@, [msg |-> msg, m_send_pid |-> from])]
         /\ \A p \in Procs : OneEach(g_message_queues'[p])
         /\ Msgs(g_message_queues'[to]) = Msgs(g_message_queues[to]) \cup {msg}
         /\ \A p \in Procs : p # to => Msgs(g_message_queues'[p]) = Msgs(g_message_queues[p])
<1> DEFINE e == [msg |-> msg, m_send_pid |-> from]
           box == g_message_queues[to]
<1>1. g_message_queues' = [g_message_queues EXCEPT ![to] = Append(@, e)]
  BY DEF Sent, k_send_message_helper
<1>2. e \in Envelope /\ e.msg = msg
  BY DEF Envelope
<1>3. box \in Seq(Envelope)
  BY Types DEF Mailboxes
<1> HIDE DEF e
<1>4. /\ g_message_queues'[to] = Append(box, e)
      /\ \A p \in Procs : p # to => g_message_queues'[p] = g_message_queues[p]
  BY <1>1, Types DEF Mailboxes
<1>5. Msgs(Append(box, e)) = Msgs(box) \cup {msg} /\ OneEach(Append(box, e))
  BY <1>2, <1>3, AppendElements
<1> QED
  BY <1>1, <1>4, <1>5 DEF e

LEMMA SendMoves ==
  ASSUME KernelInv, PlacesInv, NEW pid \in Procs, NEW b \in mem_blocks, SendMessage(pid, b)
  PROVE  PlacesInv' /\ IpcStep
<1>0. k.running # PID_NONE /\ Caller \in Procs
  BY Types DEF SendMessage, CanCall, UserMode
<1>1. /\ g_message_queues' = Sent(pid, b, Caller).mail
      /\ held' = [held EXCEPT ![Caller] = @ \ {b}]
      /\ UNCHANGED <<g_heap, g_delayed_msg_queue, g_timer_count>>
      /\ b \in held[Caller]
  BY DEF SendMessage
<1>2. b \notin Msgs(g_message_queues[pid])
  BY <1>0, <1>1 DEF PlacesInv, Placed, MailMsgs
<1>3. /\ g_message_queues'
            = [g_message_queues EXCEPT ![pid] = Append(@, [msg |-> b, m_send_pid |-> Caller])]
      /\ \A p \in Procs : OneEach(g_message_queues'[p])
      /\ Msgs(g_message_queues'[pid]) = Msgs(g_message_queues[pid]) \cup {b}
      /\ \A p \in Procs : p # pid => Msgs(g_message_queues'[p]) = Msgs(g_message_queues[p])
  BY <1>0, <1>1, <1>2, SendMail DEF PlacesInv
<1>4. Placed(Contents(g_heap), held', MailMsgs(g_message_queues'), Msgs(g_delayed_msg_queue))
  <2> DEFINE M == MailMsgs(g_message_queues)
             N == MailMsgs(g_message_queues')
  <2>1. N[pid] = M[pid] \cup {b} /\ \A p \in Procs : p # pid => N[p] = M[p]
    BY <1>0, <1>3 DEF MailMsgs
  <2>2. Placed(Contents(g_heap), held, M, Msgs(g_delayed_msg_queue))
    BY DEF PlacesInv
  <2> HIDE DEF M, N
  <2>3. Placed(Contents(g_heap), held', N, Msgs(g_delayed_msg_queue))
    BY <1>0, <1>1, <2>1, <2>2, Types, MoveHeldToMail
  <2> QED BY <2>3 DEF N
<1>5. PlacesInv'
  BY <1>1, <1>3, <1>4 DEF PlacesInv, MailMsgs
<1>6. I!Send(Caller, pid, b)
  BY <1>1, <1>3 DEF I!Send, I!GiveUp, I!Post
<1>7. I!Next
  BY <1>0, <1>1, <1>6 DEF I!Next
<1> QED
  BY <1>5, <1>7 DEF IpcStep

LEMMA NotifyMoves ==
  ASSUME KernelInv, PlacesInv, NEW pid \in Procs, NEW msg \in Notifications,
         UartNotify(pid, msg)
  PROVE  PlacesInv' /\ IpcStep
<1>0. PID_UART_IPROC \in Procs
  BY KernelAssumption, PidAssumption
<1>1. /\ g_message_queues' = Sent(pid, msg, PID_UART_IPROC).mail
      /\ UNCHANGED <<g_heap, g_delayed_msg_queue, g_timer_count, held>>
      /\ \A i \in DOMAIN g_message_queues[pid] : g_message_queues[pid][i].msg # msg
  BY DEF UartNotify, MayNotify
<1>2. msg \notin Msgs(g_message_queues[pid])
  BY <1>1 DEF Msgs
<1>3. /\ g_message_queues'
            = [g_message_queues EXCEPT ![pid] =
                 Append(@, [msg |-> msg, m_send_pid |-> PID_UART_IPROC])]
      /\ \A p \in Procs : OneEach(g_message_queues'[p])
      /\ Msgs(g_message_queues'[pid]) = Msgs(g_message_queues[pid]) \cup {msg}
      /\ \A p \in Procs : p # pid => Msgs(g_message_queues'[p]) = Msgs(g_message_queues[p])
  BY <1>0, <1>1, <1>2, SendMail DEF PlacesInv
<1>4. Placed(Contents(g_heap), held, MailMsgs(g_message_queues'), Msgs(g_delayed_msg_queue))
  <2> DEFINE M == MailMsgs(g_message_queues)
             N == MailMsgs(g_message_queues')
  <2>1. N[pid] = M[pid] \cup {msg} /\ \A p \in Procs : p # pid => N[p] = M[p]
    BY <1>3 DEF MailMsgs
  <2>2. Placed(Contents(g_heap), held, M, Msgs(g_delayed_msg_queue))
    BY DEF PlacesInv
  <2> HIDE DEF M, N
  <2>3. Placed(Contents(g_heap), held, N, Msgs(g_delayed_msg_queue))
    BY <2>1, <2>2, NoticeIsPlaced
  <2> QED BY <2>3 DEF N
<1>5. PlacesInv'
  BY <1>1, <1>3, <1>4 DEF PlacesInv, MailMsgs
<1>6. I!Notify(pid, PID_UART_IPROC, msg)
  BY <1>1, <1>3 DEF I!Notify, I!Post
<1>7. I!Next
  BY <1>0, <1>6 DEF I!Next
<1> QED
  BY <1>5, <1>7 DEF IpcStep

LEMMA DelayedSendMoves ==
  ASSUME KernelInv, PlacesInv, NEW pid \in Procs, NEW b \in mem_blocks, NEW delay \in Nat,
         DelayedSend(pid, b, delay)
  PROVE  PlacesInv' /\ (delay \in Delays => IpcStep)
<1> DEFINE m == [msg |-> b, m_send_pid |-> Caller, m_recv_pid |-> pid,
                 expiry |-> delay + g_timer_count]
           q == g_delayed_msg_queue
           r == enqueue_message(m, q)
<1>0. /\ k.running # PID_NONE /\ Caller \in Procs /\ pid \in Procs
      /\ delay \in Nat /\ g_timer_count \in Nat /\ delay > 0
  BY Types, KernelAssumption DEF DelayedSend, CanCall, UserMode
<1>1. /\ q' = r
      /\ held' = [held EXCEPT ![Caller] = @ \ {b}]
      /\ UNCHANGED <<g_heap, g_message_queues, g_timer_count>>
      /\ b \in held[Caller]
  BY DEF DelayedSend
<1>2. /\ m \in DelayedEnvelope /\ m.msg = b /\ m.expiry > g_timer_count
      /\ m = [msg |-> b, m_send_pid |-> Caller, m_recv_pid |-> pid,
              expiry |-> g_timer_count + delay]
  BY <1>0 DEF DelayedEnvelope
<1>3. b \notin Msgs(q)
  BY <1>0, <1>1 DEF PlacesInv, Placed
<1>4. q \in Seq(DelayedEnvelope) /\ OneEach(q) /\ Sorted(q)
  BY Types DEF PlacesInv
<1>5. \A e \in Contents(q) : e.expiry > g_timer_count
  BY DEF PlacesInv, Contents
<1> HIDE DEF m, q
<1>6. /\ Contents(r) = Contents(q) \cup {m} /\ Msgs(r) = Msgs(q) \cup {b}
      /\ OneEach(r) /\ Sorted(r)
  BY <1>2, <1>3, <1>4, EnqueueElements
<1> HIDE DEF r
<1>7. \A i \in DOMAIN r : r[i].expiry > g_timer_count
  <2>1. \A i \in DOMAIN r : r[i] \in Contents(q) \cup {m}
    BY <1>6 DEF Contents
  <2> QED BY <1>2, <1>5, <2>1
<1>8. Placed(Contents(g_heap), held', MailMsgs(g_message_queues), Msgs(r))
  <2> DEFINE F == Contents(g_heap)
             M == MailMsgs(g_message_queues)
             D == Msgs(q)
  <2>1. Placed(F, held, M, D)
    BY DEF PlacesInv, q
  <2>2. held \in HeldBlocks
    BY Types
  <2> HIDE DEF F, M, D
  <2>3. Placed(F, [held EXCEPT ![Caller] = @ \ {b}], M, D \cup {b})
    BY <1>0, <1>1, <2>1, <2>2, MoveHeldToDelayed
  <2> QED BY <1>1, <1>6, <2>3 DEF F, M, D
<1>9. PlacesInv'
  BY <1>1, <1>6, <1>7, <1>8 DEF PlacesInv, MailMsgs, q
<1>10. I!DelayedSend(Caller, pid, b, delay)
  <2>1. Contents(g_delayed_msg_queue)' = Contents(g_delayed_msg_queue) \cup {m}
    BY <1>1, <1>6 DEF q
  <2>2. Contents(g_heap)' = Contents(g_heap)
    BY <1>1
  <2> QED BY <1>0, <1>1, <1>2, <2>1, <2>2 DEF I!DelayedSend, I!GiveUp
<1>11. delay \in Delays => I!Next
  BY <1>0, <1>1, <1>10 DEF I!Next
<1> QED
  BY <1>9, <1>11 DEF IpcStep

LEMMA ReceiveMoves ==
  ASSUME KernelInv, PlacesInv, ReceiveMessage
  PROVE  PlacesInv' /\ IpcStep
<1> DEFINE box == g_message_queues[Caller]
           x == Head(box).msg
<1>0. k.running # PID_NONE /\ Caller \in Procs
  BY Types DEF ReceiveMessage, Loops, CanCall, UserMode
<1>1. CASE box = << >>
  BY <1>1, NothingMoves DEF ReceiveMessage
<1>2. CASE box # << >>
  <2>1. /\ g_message_queues' = [g_message_queues EXCEPT ![Caller] = Tail(@)]
        /\ held' = [held EXCEPT ![Caller] = @ \cup ({x} \ Notifications)]
        /\ UNCHANGED <<g_heap, g_delayed_msg_queue, g_timer_count>>
    BY <1>2 DEF ReceiveMessage
  <2>2. box \in Seq(Envelope) /\ OneEach(box)
    BY <1>0, Types DEF Mailboxes, PlacesInv
  <2>3. /\ g_message_queues'[Caller] = Tail(box)
        /\ \A p \in Procs : p # Caller => g_message_queues'[p] = g_message_queues[p]
    BY <1>0, <2>1, Types DEF Mailboxes
  <2>4. x \in mem_blocks \cup Notifications
    <3> HIDE DEF box
    <3>1. Head(box) \in Envelope
      BY <1>2, <2>2, HeadTailProperties
    <3> QED BY <3>1 DEF Envelope
  <2>5. OneEach(Tail(box)) /\ Msgs(Tail(box)) = Msgs(box) \ {x} /\ x \in Msgs(box)
    <3> HIDE DEF box
    <3> QED BY <1>2, <2>2, TailElements
  <2> HIDE DEF x
  <2>6. Placed(Contents(g_heap), held', MailMsgs(g_message_queues'), Msgs(g_delayed_msg_queue))
    <3> DEFINE F == Contents(g_heap)
               M == MailMsgs(g_message_queues)
               N == MailMsgs(g_message_queues')
               D == Msgs(g_delayed_msg_queue)
    <3>1. Placed(F, held, M, D)
      BY DEF PlacesInv
    <3>2. held \in HeldBlocks
      BY Types
    <3>3. x \in M[Caller] /\ N[Caller] = M[Caller] \ {x}
          /\ \A r \in Procs : r # Caller => N[r] = M[r]
      BY <1>0, <2>3, <2>5 DEF MailMsgs
    <3> HIDE DEF F, M, N, D
    <3>4. Placed(F, [held EXCEPT ![Caller] = @ \cup ({x} \ Notifications)], N, D)
      BY <1>0, <2>4, <3>1, <3>2, <3>3, MoveMailToHeld
    <3> QED BY <2>1, <3>4 DEF F, N, D
  <2>7. \A p \in Procs : OneEach(g_message_queues'[p])
    BY <2>3, <2>5 DEF PlacesInv
  <2>8. PlacesInv'
    BY <2>1, <2>6, <2>7 DEF PlacesInv, MailMsgs
  <2>9. I!Receive(Caller)
    BY <1>2, <2>1 DEF I!Receive, x
  <2>10. I!Next
    BY <1>0, <2>9 DEF I!Next
  <2> QED BY <2>8, <2>10 DEF IpcStep
<1> QED
  BY <1>1, <1>2

\* A tick brings the first messages of the delayed queue to their mailboxes.
\* The delivery of the first n delayed messages fills the mailboxes.
LEMMA DeliveryArrives ==
  ASSUME KernelInv, PlacesInv, NEW n \in 0 .. Len(g_delayed_msg_queue),
         g_message_queues' = Delivered(Now, g_delayed_msg_queue, n).mail
  PROVE  /\ g_message_queues' \in Mailboxes
         /\ \A p \in Procs :
              Brings(g_message_queues'[p], g_message_queues[p], g_delayed_msg_queue, p, n)
<1> DEFINE q == g_delayed_msg_queue
<1>0. /\ q \in Seq(DelayedEnvelope) /\ DOMAIN q = 1 .. Len(q) /\ OneEach(q)
      /\ \A i \in 1 .. Len(q) : q[i] \in DelayedEnvelope
  BY Types, LenProperties, ElementOfSeq DEF PlacesInv
<1>1. n \in 0 .. Len(q) /\ g_message_queues' = Delivered(Now, q, n).mail
  OBVIOUS
<1> HIDE DEF q
<1>2. /\ Mailboxes = [Procs -> Seq(Envelope)]
      /\ g_message_queues \in Mailboxes
      /\ \A p \in Procs : OneEach(g_message_queues[p])
      /\ \A p \in Procs : Msgs(g_message_queues[p]) \cap Msgs(q) = {}
  <2>1. Msgs(q) \subseteq mem_blocks
    BY <1>0 DEF Msgs, DelayedEnvelope
  <2>2. \A p \in Procs : Msgs(g_message_queues[p]) \cap Msgs(q) = {}
    BY <2>1 DEF PlacesInv, Placed, MailMsgs, q
  <2> QED BY <2>2, Types DEF Mailboxes, PlacesInv
<1>3. /\ g_message_queues' \in Mailboxes
      /\ \A p \in Procs : Brings(g_message_queues'[p], g_message_queues[p], q, p, n)
  <2> DEFINE r == Delivered(Now, q, n)
  <2>1. Now.mail = g_message_queues
    BY DEF Now
  <2>2. n \in 0 .. Len(q)
    BY <1>1
  <2>3. r = Delivered(Now, q, n)
    OBVIOUS
  <2> HIDE DEF r
  <2>4. r.mail \in Mailboxes /\ \A p \in Procs : Brings(r.mail[p], Now.mail[p], q, p, n)
    BY <1>0, <1>2, <2>1, <2>2, <2>3, DeliveredMail
  <2> QED BY <1>1, <2>1, <2>4 DEF r
<1> QED
  BY <1>3 DEF q

LEMMA TickDelivers ==
  ASSUME KernelInv, PlacesInv, TimerIrq
  PROVE  LET n == ExpiredCount(g_delayed_msg_queue, g_timer_count')
         IN  /\ n \in 0 .. Len(g_delayed_msg_queue)
             /\ g_delayed_msg_queue' = Rest(g_delayed_msg_queue, n)
             /\ g_message_queues' \in Mailboxes
             /\ \A p \in Procs :
                  Brings(g_message_queues'[p], g_message_queues[p], g_delayed_msg_queue, p, n)
<1> DEFINE q == g_delayed_msg_queue
           N == Len(q)
           now == g_timer_count'
           n == ExpiredCount(q, now)
<1>0. /\ now \in Nat
      /\ q \in Seq(DelayedEnvelope) /\ N \in Nat /\ DOMAIN q = 1 .. N
      /\ \A i \in 1 .. N : q[i] \in DelayedEnvelope
      /\ OneEach(q)
  <2>1. now \in Nat
    BY Types DEF TimerIrq
  <2>2. /\ q \in Seq(DelayedEnvelope) /\ N \in Nat /\ DOMAIN q = 1 .. N
        /\ \A i \in 1 .. N : q[i] \in DelayedEnvelope
    BY Types, LenProperties, ElementOfSeq
  <2> QED BY <2>1, <2>2 DEF PlacesInv
<1>1. \A i \in 1 .. N : /\ q[i].expiry \in Nat /\ q[i].msg \in mem_blocks
                        /\ q[i].m_recv_pid \in Procs
  BY <1>0 DEF DelayedEnvelope
<1>2. n \in 0 .. N
  BY <1>0, <1>1, ExpiredCountProperties
<1>3. /\ q' = Rest(q, n)
      /\ g_message_queues' = Delivered(Now, q, n).mail
  BY DEF TimerIrq, Now, Rest
<1> HIDE DEF q, N, now, n
<1>4. /\ g_message_queues' \in Mailboxes
      /\ \A p \in Procs : Brings(g_message_queues'[p], g_message_queues[p], q, p, n)
  BY <1>2, <1>3, DeliveryArrives DEF N, q
<1> QED
  BY <1>2, <1>3, <1>4 DEF q, N, n, now

\* A delivery gives the blocks of the messages that it delivers to the mailboxes.
LEMMA DeliveryMoves ==
  ASSUME KernelInv, PlacesInv, NEW n \in 0 .. Len(g_delayed_msg_queue),
         g_message_queues' \in Mailboxes,
         \A p \in Procs :
           Brings(g_message_queues'[p], g_message_queues[p], g_delayed_msg_queue, p, n)
  PROVE  /\ \A p \in Procs : OneEach(g_message_queues'[p])
         /\ Placed(Contents(g_heap), held, MailMsgs(g_message_queues'),
                   Msgs(g_delayed_msg_queue) \ FirstMsgs(g_delayed_msg_queue, n))
<1> DEFINE q == g_delayed_msg_queue
           N == Len(q)
           To(p) == {c \in 1 .. n : q[c].m_recv_pid = p}
<1>0. /\ q \in Seq(DelayedEnvelope) /\ N \in Nat /\ DOMAIN q = 1 .. N
      /\ \A i \in 1 .. N : q[i] \in DelayedEnvelope
      /\ OneEach(q) /\ n \in 0 .. N
  BY Types, LenProperties, ElementOfSeq DEF PlacesInv
<1>1. \A i \in 1 .. N : q[i].msg \in mem_blocks /\ q[i].m_recv_pid \in Procs
  BY <1>0 DEF DelayedEnvelope
<1>4. \A i \in 1 .. n : i \in 1 .. N
  BY <1>0
<1>6. g_message_queues \in Mailboxes /\ Mailboxes = [Procs -> Seq(Envelope)]
  BY Types DEF Mailboxes
<1>7. /\ g_message_queues' \in Mailboxes
      /\ \A p \in Procs : Brings(g_message_queues'[p], g_message_queues[p], q, p, n)
  OBVIOUS
<1> HIDE DEF q, N
<1>9. \A p \in Procs : /\ OneEach(g_message_queues'[p])
                       /\ Msgs(g_message_queues'[p])
                            = Msgs(g_message_queues[p]) \cup {q[c].msg : c \in To(p)}
  <2> SUFFICES ASSUME NEW p \in Procs
               PROVE  /\ OneEach(g_message_queues'[p])
                      /\ Msgs(g_message_queues'[p])
                           = Msgs(g_message_queues[p]) \cup {q[c].msg : c \in To(p)}
    OBVIOUS
  <2> DEFINE box == g_message_queues'[p]
             old == g_message_queues[p]
  <2>1. /\ box \in Seq(Envelope) /\ old \in Seq(Envelope)
        /\ Brings(box, old, q, p, n)
    BY <1>6, <1>7
  <2> HIDE DEF box, old
  <2>2. /\ DOMAIN box = 1 .. Len(box) /\ DOMAIN old = 1 .. Len(old)
        /\ Len(box) \in Nat /\ Len(old) \in Nat /\ Len(old) <= Len(box)
    BY <2>1, LenProperties DEF Brings
  <2>3. /\ \A j \in 1 .. Len(old) : j \in 1 .. Len(box) /\ box[j] = old[j]
        /\ \A j \in 1 .. Len(box) : j \in 1 .. Len(old) \/ j \in Len(old) + 1 .. Len(box)
        /\ \A j \in Len(old) + 1 .. Len(box) : j \in 1 .. Len(box)
    BY <2>1, <2>2 DEF Brings
  <2>4. ASSUME NEW y \in Msgs(box) PROVE y \in Msgs(old) \cup {q[c].msg : c \in To(p)}
    <3>1. PICK j \in 1 .. Len(box) : y = box[j].msg
      BY <2>2 DEF Msgs
    <3>2. CASE j \in 1 .. Len(old)
      BY <2>2, <2>3, <3>1, <3>2 DEF Msgs
    <3>3. CASE j \in Len(old) + 1 .. Len(box)
      <4>1. PICK c \in 1 .. n : q[c].m_recv_pid = p /\ box[j] = Letter(q[c])
        BY <2>1, <3>3 DEF Brings
      <4> QED BY <3>1, <4>1 DEF Letter
    <3> QED BY <2>3, <3>2, <3>3
  <2>5. ASSUME NEW y \in Msgs(old) PROVE y \in Msgs(box)
    <3>1. PICK j \in 1 .. Len(old) : y = old[j].msg
      BY <2>2 DEF Msgs
    <3> QED BY <2>2, <2>3, <3>1 DEF Msgs
  <2>6. ASSUME NEW c \in To(p) PROVE q[c].msg \in Msgs(box)
    <3>1. PICK j \in Len(old) + 1 .. Len(box) : box[j] = Letter(q[c])
      BY <2>1 DEF Brings
    <3>2. box[j].msg = q[c].msg /\ j \in 1 .. Len(box)
      BY <2>3, <3>1 DEF Letter
    <3> QED BY <2>2, <3>2 DEF Msgs
  <2>7. OneEach(box)
    BY <2>1 DEF Brings
  <2> QED BY <2>4, <2>5, <2>6, <2>7 DEF box, old
<1>10. Placed(Contents(g_heap), held, MailMsgs(g_message_queues'), Msgs(q) \ FirstMsgs(q, n))
  <2> DEFINE F == Contents(g_heap)
             M == MailMsgs(g_message_queues)
             D == Msgs(q)
             X == FirstMsgs(q, n)
             E == [p \in Procs |-> {q[c].msg : c \in To(p)}]
             R == MailMsgs(g_message_queues')
  <2>1. Placed(F, held, M, D)
    BY DEF PlacesInv, q
  <2>2. X \subseteq D \cap mem_blocks
    BY <1>0, <1>1, <1>4 DEF FirstMsgs, Msgs
  <2>3. \A b \in X : \E p \in Procs : b \in E[p]
    <3>1. ASSUME NEW c \in 1 .. n PROVE q[c].msg \in E[q[c].m_recv_pid]
      BY <1>1, <1>4
    <3> HIDE DEF E
    <3> QED BY <1>1, <1>4, <3>1 DEF FirstMsgs
  <2>4. \A p \in Procs : E[p] \subseteq X
    BY DEF FirstMsgs
  <2>5. \A p, r \in Procs : \A b \in E[p] \cap E[r] : p = r
    <3>1. ASSUME NEW p \in Procs, NEW r \in Procs, NEW c \in To(p), NEW d \in To(r),
                 q[c].msg = q[d].msg
          PROVE  p = r
      <4>1. c = d
        BY <1>0, <1>4, <3>1 DEF OneEach
      <4> QED BY <4>1
    <3>2. ASSUME NEW p \in Procs, NEW r \in Procs, NEW b \in E[p] \cap E[r] PROVE p = r
      <4>1. PICK c \in To(p) : b = q[c].msg
        OBVIOUS
      <4>2. PICK d \in To(r) : b = q[d].msg
        OBVIOUS
      <4> QED BY <3>1, <4>1, <4>2
    <3> QED BY <3>2
  <2>6. \A p \in Procs : R[p] = M[p] \cup E[p]
    BY <1>9 DEF MailMsgs
  <2> HIDE DEF F, M, D, X, E, R
  <2>7. Placed(F, held, R, D \ X)
    BY <2>1, <2>2, <2>3, <2>4, <2>5, <2>6, MoveDelayedToMail
  <2> QED BY <2>7 DEF F, D, X, R
<1> QED
  BY <1>9, <1>10 DEF q

LEMMA TickMoves ==
  ASSUME KernelInv, PlacesInv, TimerIrq
  PROVE  PlacesInv' /\ IpcStep
<1> DEFINE q == g_delayed_msg_queue
           N == Len(q)
           now == g_timer_count'
           n == ExpiredCount(q, now)
<1>0. /\ g_timer_count \in Nat /\ now = g_timer_count + 1 /\ now \in Nat
      /\ q \in Seq(DelayedEnvelope) /\ N \in Nat /\ DOMAIN q = 1 .. N
      /\ \A i \in 1 .. N : q[i] \in DelayedEnvelope
      /\ OneEach(q) /\ Distinct(q) /\ Sorted(q)
      /\ \A i \in 1 .. N : q[i].expiry > g_timer_count
  <2>1. g_timer_count \in Nat /\ now = g_timer_count + 1 /\ now \in Nat
    BY Types DEF TimerIrq
  <2>2. /\ q \in Seq(DelayedEnvelope) /\ N \in Nat /\ DOMAIN q = 1 .. N
        /\ \A i \in 1 .. N : q[i] \in DelayedEnvelope
    BY Types, LenProperties, ElementOfSeq
  <2>3. OneEach(q) /\ Sorted(q) /\ \A i \in 1 .. N : q[i].expiry > g_timer_count
    BY <2>2 DEF PlacesInv
  <2>4. Distinct(q)
    BY <2>3 DEF OneEach, Distinct
  <2> QED BY <2>1, <2>2, <2>3, <2>4
<1>1. \A i \in 1 .. N : /\ q[i].expiry \in Nat /\ q[i].msg \in mem_blocks
                        /\ q[i].m_recv_pid \in Procs
  BY <1>0 DEF DelayedEnvelope
<1>2. /\ n \in 0 .. N
      /\ \A i \in 1 .. n : q[i].expiry <= now
      /\ n < N => q[n + 1].expiry > now
  BY <1>0, ExpiredCountProperties
<1>3. /\ q' = Rest(q, n)
      /\ g_message_queues' = Delivered(Now, q, n).mail
      /\ UNCHANGED <<g_heap, held>>
  BY DEF TimerIrq, Now, Rest
<1> HIDE DEF q, N, now, n
<1>4. \A i \in 1 .. n : i \in 1 .. N /\ q[i].expiry = now
  <2>1. \A i \in 1 .. n : i \in 1 .. N
    BY <1>0, <1>2
  <2> QED BY <1>0, <1>1, <1>2, <2>1
<1>5. \A i \in n + 1 .. N : i \in 1 .. N /\ q[i].expiry > now
  <2>1. ASSUME NEW i \in n + 1 .. N
        PROVE  /\ n < N /\ n + 1 \in 1 .. N /\ i \in 1 .. N
               /\ i = n + 1 \/ n + 1 < i
    BY <1>0, <1>2
  <2> QED BY <1>0, <1>1, <1>2, <2>1 DEF Sorted
<1>6. /\ Mailboxes = [Procs -> Seq(Envelope)]
      /\ g_message_queues \in Mailboxes
      /\ \A p \in Procs : OneEach(g_message_queues[p])
      /\ \A p \in Procs : Msgs(g_message_queues[p]) \cap Msgs(q) = {}
  <2>1. Msgs(q) \subseteq mem_blocks
    BY <1>0, <1>1 DEF Msgs
  <2>2. \A p \in Procs : Msgs(g_message_queues[p]) \cap Msgs(q) = {}
    BY <2>1 DEF PlacesInv, Placed, MailMsgs, q
  <2> QED BY <2>2, Types DEF Mailboxes, PlacesInv
<1>7. /\ g_message_queues' \in Mailboxes
      /\ \A p \in Procs : Brings(g_message_queues'[p], g_message_queues[p], q, p, n)
  BY TickDelivers DEF q, n, now
<1>8. /\ OneEach(q') /\ Sorted(q')
      /\ \A i \in DOMAIN q' : q'[i].expiry > now
      /\ Contents(q') = Contents(q) \ First(q, n)
      /\ Msgs(q') = Msgs(q) \ FirstMsgs(q, n)
  <2> DEFINE r == Rest(q, n)
  <2>1. /\ r \in Seq(DelayedEnvelope) /\ Len(r) = N - n
        /\ \A i \in 1 .. N - n : r[i] = q[n + i]
        /\ OneEach(r)
        /\ Contents(r) = Contents(q) \ First(q, n)
        /\ Msgs(r) = Msgs(q) \ FirstMsgs(q, n)
    BY <1>0, <1>2, RestElements DEF N
  <2> HIDE DEF r
  <2>2. DOMAIN r = 1 .. N - n
    BY <2>1, LenProperties
  <2>3. \A i \in 1 .. N - n : n + i \in n + 1 .. N /\ n + i \in 1 .. N
    BY <1>0, <1>2
  <2>4. \A i \in DOMAIN r : r[i].expiry > now
    BY <1>5, <2>1, <2>2, <2>3
  <2>5. ASSUME NEW i \in 1 .. N - n, NEW j \in 1 .. N - n, i < j
        PROVE  r[i].expiry <= r[j].expiry
    <3>1. n + i < n + j
      BY <1>0, <1>2, <2>5
    <3> QED BY <1>0, <2>1, <2>3, <3>1 DEF Sorted
  <2>6. Sorted(r)
    BY <2>2, <2>5 DEF Sorted
  <2> QED BY <1>3, <2>1, <2>4, <2>6 DEF r
<1>9. /\ \A p \in Procs : OneEach(g_message_queues'[p])
      /\ Placed(Contents(g_heap), held, MailMsgs(g_message_queues'), Msgs(q) \ FirstMsgs(q, n))
  BY <1>2, <1>7, DeliveryMoves DEF q, N
<1>10. Placed(Contents(g_heap'), held', MailMsgs(g_message_queues'), Msgs(q'))
  BY <1>3, <1>8, <1>9
<1>11. PlacesInv'
  <2>1. Distinct(g_heap')
    BY <1>3 DEF PlacesInv
  <2>2. \A p \in Procs : OneEach(g_message_queues'[p])
    BY <1>9
  <2> QED BY <1>8, <1>10, <2>1, <2>2 DEF PlacesInv, q, now
<1>12. I!Due = First(q, n)
  <2>1. I!Due = {d \in Contents(q) : d.expiry = now}
    BY <1>0 DEF I!Due, q
  <2>2. ASSUME NEW d \in Contents(q), d.expiry = now PROVE d \in First(q, n)
    <3>1. PICK i \in 1 .. N : d = q[i]
      BY <1>0 DEF Contents
    <3>2. i \notin n + 1 .. N
      BY <1>0, <1>5, <2>2, <3>1
    <3>3. i \in 1 .. n
      BY <1>0, <1>2, <3>2
    <3> QED BY <3>1, <3>3 DEF First
  <2>3. ASSUME NEW d \in First(q, n) PROVE d \in Contents(q) /\ d.expiry = now
    BY <1>0, <1>4 DEF First, Contents
  <2> QED BY <2>1, <2>2, <2>3
<1>13. ASSUME NEW p \in Procs
       PROVE  I!Extends(g_message_queues'[p], g_message_queues[p],
                        {d \in I!Due : d.m_recv_pid = p})
  <2> DEFINE box == g_message_queues'[p]
             old == g_message_queues[p]
             New == Len(old) + 1 .. Len(box)
             arrived == {d \in I!Due : d.m_recv_pid = p}
  <2>1. /\ box \in Seq(Envelope) /\ old \in Seq(Envelope)
        /\ Brings(box, old, q, p, n)
    BY <1>6, <1>7
  <2>2. arrived = {d \in First(q, n) : d.m_recv_pid = p}
    BY <1>12
  <2> HIDE DEF box, old, arrived
  <2>3. /\ DOMAIN box = 1 .. Len(box) /\ Len(old) \in Nat /\ Len(box) \in Nat
        /\ Len(box) >= Len(old)
    BY <2>1, LenProperties DEF Brings
  <2>4. \A j \in 1 .. Len(old) : box[j] = old[j]
    BY <2>1 DEF Brings
  <2>5. New \subseteq DOMAIN box
    BY <2>3
  <2>6. \A d : I!Letter(d) = Letter(d)
    BY DEF I!Letter, Letter
  <2>7. {box[i] : i \in New} = {I!Letter(d) : d \in arrived}
    <3>1. ASSUME NEW i \in New PROVE \E d \in arrived : box[i] = Letter(d)
      <4>1. PICK c \in 1 .. n : q[c].m_recv_pid = p /\ box[i] = Letter(q[c])
        BY <2>1 DEF Brings
      <4>2. q[c] \in arrived
        BY <2>2, <4>1 DEF First
      <4> QED BY <4>1, <4>2
    <3>2. ASSUME NEW d \in arrived PROVE \E i \in New : box[i] = Letter(d)
      <4>1. PICK c \in 1 .. n : d = q[c] /\ q[c].m_recv_pid = p
        BY <2>2 DEF First
      <4> QED BY <2>1, <4>1 DEF Brings
    <3> HIDE DEF New
    <3> QED BY <2>6, <3>1, <3>2
  <2>8. \A i, j \in New : box[i] = box[j] => i = j
    BY <2>1, <2>5 DEF Brings, OneEach
  <2>9. I!Extends(box, old, arrived)
    BY <2>3, <2>4, <2>7, <2>8 DEF I!Extends
  <2> QED BY <2>9 DEF box, old, arrived
<1>14. I!Tick
  <2>1. g_message_queues' \in [Procs -> Seq([msg : mem_blocks \cup Notifications,
                                           m_send_pid : Procs])]
    BY <1>6, <1>7 DEF Envelope
  <2>2. Contents(g_heap)' = Contents(g_heap)
    BY <1>3
  <2>3. Contents(g_delayed_msg_queue)' = Contents(g_delayed_msg_queue) \ I!Due
    BY <1>8, <1>12 DEF q
  <2> QED BY <1>0, <1>3, <1>13, <2>1, <2>2, <2>3 DEF I!Tick, now
<1>15. I!Next
  BY <1>14 DEF I!Next
<1> QED
  BY <1>11, <1>15 DEF IpcStep

\* At boot every block is free, once.
LEMMA PlacesInit == Init => PlacesInv /\ I!Init
<1> SUFFICES ASSUME Init PROVE PlacesInv /\ I!Init
  OBVIOUS
<1>1. NUM_MEM_BLOCKS \in Nat
  BY KernelAssumption
<1>2. /\ DOMAIN g_heap = mem_blocks
      /\ \A i \in mem_blocks : g_heap[i] = NUM_MEM_BLOCKS + 1 - i
  BY DEF Init
<1>3. Distinct(g_heap)
  BY <1>1, <1>2 DEF Distinct, mem_blocks
<1>4. Contents(g_heap) = mem_blocks
  <2>1. \A i \in mem_blocks : g_heap[i] \in mem_blocks
    BY <1>1, <1>2 DEF mem_blocks
  <2>2. ASSUME NEW b \in mem_blocks PROVE b \in Contents(g_heap)
    <3>1. /\ NUM_MEM_BLOCKS + 1 - b \in mem_blocks
          /\ NUM_MEM_BLOCKS + 1 - (NUM_MEM_BLOCKS + 1 - b) = b
      BY <1>1 DEF mem_blocks
    <3> QED BY <1>2, <3>1 DEF Contents
  <2> QED BY <1>2, <2>1, <2>2 DEF Contents
<1>5. /\ g_message_queues = [p \in Procs |-> << >>] /\ g_delayed_msg_queue = << >>
      /\ held = [p \in Procs |-> {}] /\ g_timer_count = 0
  BY DEF Init
<1>6. /\ \A p \in Procs : OneEach(g_message_queues[p]) /\ Msgs(g_message_queues[p]) = {}
      /\ OneEach(g_delayed_msg_queue) /\ Sorted(g_delayed_msg_queue)
      /\ Msgs(g_delayed_msg_queue) = {} /\ Contents(g_delayed_msg_queue) = {}
      /\ DOMAIN g_delayed_msg_queue = {}
  BY <1>5 DEF OneEach, Msgs, Sorted, Contents
<1>7. Placed(mem_blocks, held, MailMsgs(g_message_queues), {})
  BY <1>5, <1>6 DEF Placed, MailMsgs
<1>8. PlacesInv
  BY <1>3, <1>4, <1>6, <1>7 DEF PlacesInv
<1>9. I!Init
  BY <1>4, <1>5, <1>6 DEF I!Init
<1> QED
  BY <1>8, <1>9

\* Every step of the kernel keeps the blocks in one place each, and is a step of
\* Ipc or none.
LEMMA NextMoves == KernelInv /\ PlacesInv /\ [Next]_vars => PlacesInv' /\ IpcStep
<1> SUFFICES ASSUME KernelInv, PlacesInv, [Next]_vars PROVE PlacesInv' /\ IpcStep
  OBVIOUS
<1>1. CASE \/ Boot \/ ReleaseProcessor \/ UartIrq \/ TimerAck \/ UNCHANGED vars
           \/ \E call \in PriorityCalls : SetProcessPriority(call[1], call[2])
  <2>1. UNCHANGED <<g_heap, g_message_queues, g_delayed_msg_queue, g_timer_count, held>>
    BY <1>1 DEF Boot, ReleaseProcessor, UartIrq, TimerAck, SetProcessPriority, vars
  <2> QED BY <2>1, NothingMoves
<1>2. CASE RequestMemoryBlock
  BY <1>2, RequestMoves
<1>3. CASE \E b \in mem_blocks : ReleaseMemoryBlock(b)
  BY <1>3, ReleaseMoves
<1>4. CASE \E pid \in Receivers, b \in mem_blocks : SendMessage(pid, b)
  BY <1>4, SendMoves, KernelAssumption
<1>5. CASE \E pid \in Receivers, b \in mem_blocks, delay \in Delays :
             DelayedSend(pid, b, delay)
  BY <1>5, DelayedSendMoves, KernelAssumption
<1>6. CASE ReceiveMessage
  BY <1>6, ReceiveMoves
<1>7. CASE TimerIrq
  BY <1>7, TickMoves
<1>8. CASE UartNotify(PID_KCD, notif_in_msg) \/ UartNotify(PID_CRT, notif_out_msg)
  BY <1>8, NotifyMoves, PidAssumption DEF Notifications
<1> QED
  BY <1>1, <1>2, <1>3, <1>4, <1>5, <1>6, <1>7, <1>8 DEF Next, CallOrUart

-----------------------------------------------------------------------------
(* The theorems. *)

\* In every reachable state each block is in one of the four kinds of places, once,
\* and the delayed queue is sorted and holds nothing that is overdue.
THEOREM PlacesInvariance == Spec => []PlacesInv
  BY PlacesInit, InitInvariant, NextMoves, NextInvariant, PTL DEF Spec

\* A place of block b is the only one.
LEMMA OnePlace ==
  ASSUME KernelInv, PlacesInv, NEW b \in mem_blocks
  PROVE  \E x : Places(b) = {x}
<1> DEFINE Heap == {i \in DOMAIN g_heap : g_heap[i] = b}
           Held == {p \in Procs : b \in held[p]}
           Delayed == {i \in DOMAIN g_delayed_msg_queue : g_delayed_msg_queue[i].msg = b}
           Mail(p) == {i \in DOMAIN g_message_queues[p] : g_message_queues[p][i].msg = b}
           AllMail == UNION {{<<"mailbox", p, i>> : i \in Mail(p)} : p \in Procs}
<1>1. Places(b) = {<<"heap", i>> : i \in Heap} \cup {<<"held", p>> : p \in Held}
                    \cup {<<"delayed", i>> : i \in Delayed} \cup AllMail
  BY DEF Places
<1>2. \A x : x \in AllMail <=> \E p \in Procs : \E i \in Mail(p) : x = <<"mailbox", p, i>>
  OBVIOUS
<1>3. /\ Placed(Contents(g_heap), held, MailMsgs(g_message_queues), Msgs(g_delayed_msg_queue))
      /\ Heap # {} <=> b \in Contents(g_heap)
      /\ \A i, j \in Heap : i = j
      /\ Delayed # {} <=> b \in Msgs(g_delayed_msg_queue)
      /\ \A i, j \in Delayed : i = j
      /\ \A p \in Procs : /\ Mail(p) # {} <=> b \in MailMsgs(g_message_queues)[p]
                          /\ \A i, j \in Mail(p) : i = j
  <2>1. Heap # {} <=> b \in Contents(g_heap)
    BY DEF Contents
  <2>2. \A i, j \in Heap : i = j
    BY DEF PlacesInv, Distinct
  <2>3. Delayed # {} <=> b \in Msgs(g_delayed_msg_queue)
    BY DEF Msgs
  <2>4. \A i, j \in Delayed : i = j
    BY DEF PlacesInv, OneEach
  <2>5. ASSUME NEW p \in Procs
        PROVE  /\ Mail(p) # {} <=> b \in MailMsgs(g_message_queues)[p]
               /\ \A i, j \in Mail(p) : i = j
    BY DEF PlacesInv, OneEach, MailMsgs, Msgs
  <2>6. Placed(Contents(g_heap), held, MailMsgs(g_message_queues), Msgs(g_delayed_msg_queue))
    BY DEF PlacesInv
  <2> QED BY <2>1, <2>2, <2>3, <2>4, <2>5, <2>6
<1> HIDE DEF Heap, Delayed, Mail, AllMail
<1>4. /\ Heap # {} => Delayed = {} /\ Held = {} /\ \A p \in Procs : Mail(p) = {}
      /\ Delayed # {} => Held = {} /\ \A p \in Procs : Mail(p) = {}
      /\ Held # {} => \A p \in Procs : Mail(p) = {}
      /\ \A p, r \in Held : p = r
      /\ \A p, r \in Procs : Mail(p) # {} /\ Mail(r) # {} => p = r
      /\ Heap # {} \/ Delayed # {} \/ Held # {} \/ \E p \in Procs : Mail(p) # {}
  BY <1>3 DEF Placed
<1>5. CASE Heap # {}
  <2>1. PICK i : i \in Heap
    BY <1>5
  <2>2. Heap = {i} /\ Held = {} /\ Delayed = {} /\ AllMail = {}
    BY <1>2, <1>3, <1>4, <1>5, <2>1
  <2>3. Places(b) = {<<"heap", i>>}
    BY <1>1, <2>2
  <2> QED BY <2>3
<1>6. CASE Held # {}
  <2>1. PICK p : p \in Held
    BY <1>6
  <2>2. Heap = {} /\ Held = {p} /\ Delayed = {} /\ AllMail = {}
    BY <1>2, <1>4, <1>6, <2>1
  <2>3. Places(b) = {<<"held", p>>}
    BY <1>1, <2>2
  <2> QED BY <2>3
<1>7. CASE Delayed # {}
  <2>1. PICK i : i \in Delayed
    BY <1>7
  <2>2. Heap = {} /\ Held = {} /\ Delayed = {i} /\ AllMail = {}
    BY <1>2, <1>3, <1>4, <1>7, <2>1
  <2>3. Places(b) = {<<"delayed", i>>}
    BY <1>1, <2>2
  <2> QED BY <2>3
<1>8. CASE \E p \in Procs : Mail(p) # {}
  <2>1. PICK p \in Procs : Mail(p) # {}
    BY <1>8
  <2>2. PICK i : i \in Mail(p)
    BY <2>1
  <2>3. AllMail = {<<"mailbox", p, i>>}
    <3>1. \A x : x \in AllMail <=> x = <<"mailbox", p, i>>
      BY <1>2, <1>3, <1>4, <2>1, <2>2
    <3> QED BY <3>1
  <2>4. Heap = {} /\ Held = {} /\ Delayed = {}
    BY <1>4, <2>1
  <2>5. Places(b) = {<<"mailbox", p, i>>}
    BY <1>1, <2>3, <2>4
  <2> QED BY <2>5
<1> QED
  BY <1>4, <1>5, <1>6, <1>7, <1>8

\* No block leaks, and none is in two places.
THEOREM BlocksConserved == Spec => []BlockConservation
<1>1. KernelInv /\ PlacesInv => BlockConservation
  BY OnePlace, FS_Singleton DEF BlockConservation
<1> QED
  BY <1>1, Invariance, PlacesInvariance, PTL

\* The messages of a mailbox are all different, so that they fit into its list.
THEOREM MailboxesFit == Spec => []MailboxFits
<1>1. ASSUME KernelInv, PlacesInv, NEW p \in Procs
      PROVE  Len(g_message_queues[p]) <= NUM_MEM_BLOCKS + 2
  <2> DEFINE box == g_message_queues[p]
             S == 1 .. Len(box)
             T == -1 .. NUM_MEM_BLOCKS
             f == [i \in S |-> box[i].msg]
  <2>1. NUM_MEM_BLOCKS \in Nat
    BY KernelAssumption
  <2>2. box \in Seq(Envelope) /\ OneEach(box)
    BY <1>1, Types DEF Mailboxes, PlacesInv
  <2> HIDE DEF box
  <2>3. Len(box) \in Nat /\ DOMAIN box = S /\ \A i \in S : box[i] \in Envelope
    BY <2>2, LenProperties, ElementOfSeq
  <2>4. \A e \in Envelope : e.msg \in T
    BY <2>1 DEF Envelope, mem_blocks, Notifications, notif_in_msg, notif_out_msg
  <2>5. f \in Injection(S, T)
    BY <2>2, <2>3, <2>4 DEF OneEach, Injection, IsInjective
  <2>6. IsFiniteSet(T) /\ Cardinality(T) = NUM_MEM_BLOCKS + 2
    <3>1. -1 \in Int /\ NUM_MEM_BLOCKS \in Int /\ ~ (-1 > NUM_MEM_BLOCKS)
          /\ NUM_MEM_BLOCKS - (-1) + 1 = NUM_MEM_BLOCKS + 2
      BY <2>1
    <3> QED BY <3>1, FS_Interval
  <2>7. Cardinality(S) = Len(box)
    <3>1. Cardinality(S) = IF 1 > Len(box) THEN 0 ELSE Len(box) - 1 + 1
      BY <2>3, FS_Interval
    <3> QED BY <2>3, <3>1
  <2> HIDE DEF S, T, f
  <2>8. Cardinality(S) <= Cardinality(T)
    BY <2>5, <2>6, FS_Injection
  <2> QED BY <2>6, <2>7, <2>8 DEF box
<1>2. KernelInv /\ PlacesInv => MailboxFits
  BY <1>1 DEF MailboxFits
<1> QED
  BY <1>2, Invariance, PlacesInvariance, PTL

\* Delayed messages are delivered in the tick of their expiry, all of them.
THEOREM DeliveryOnTime == Spec => DeliveredOnTime
<1> DEFINE OnTime == \A i \in DOMAIN g_delayed_msg_queue :
                       LET m == g_delayed_msg_queue[i]
                       IN  Occurs(g_delayed_msg_queue', m) <=> g_timer_count' < m.expiry
<1>1. ASSUME KernelInv, PlacesInv, IpcStep PROVE OnTime
  <2>1. /\ g_timer_count \in Nat
        /\ \A i \in DOMAIN g_delayed_msg_queue : /\ g_delayed_msg_queue[i].expiry \in Nat
                                                /\ g_delayed_msg_queue[i].expiry > g_timer_count
    <3>1. \A e \in DelayedEnvelope : e.expiry \in Nat
      BY DEF DelayedEnvelope
    <3> QED BY <1>1, <3>1, Types, ElementOfSeq, LenProperties DEF PlacesInv
  <2>2. \A m : Occurs(g_delayed_msg_queue', m) <=> m \in Contents(g_delayed_msg_queue)'
    BY DEF Occurs, Contents
  <2>3. \A i \in DOMAIN g_delayed_msg_queue :
          g_delayed_msg_queue[i] \in Contents(g_delayed_msg_queue)
    BY DEF Contents
  <2> DEFINE D == Contents(g_delayed_msg_queue)
  <2>4. CASE I!Tick
    <3>1. g_timer_count' = g_timer_count + 1 /\ D' = D \ I!Due
          /\ \A d : d \in I!Due <=> d \in D /\ d.expiry = g_timer_count + 1
      BY <2>4 DEF I!Tick, I!Due
    <3> QED BY <2>1, <2>2, <2>3, <3>1
  <2>5. CASE g_timer_count' = g_timer_count /\ D \subseteq D'
    BY <2>1, <2>2, <2>3, <2>5
  <2>6. I!Tick \/ (g_timer_count' = g_timer_count /\ D \subseteq D')
    BY <1>1 DEF IpcStep, I!Next, I!ipcVars, I!Receive, I!Request, I!Release, I!Send,
                I!DelayedSend, I!Notify
  <2> QED BY <2>4, <2>5, <2>6
<1>2. KernelInv /\ PlacesInv /\ [Next]_vars => [OnTime]_vars
  BY <1>1, NextMoves
<1> QED
  BY <1>2, Invariance, PlacesInvariance, PTL DEF Spec, DeliveredOnTime

\* What stands in r and stood in q keeps its order, except behind what expires
\* earlier.
InOrder(q, r) ==
  \A i, j \in DOMAIN r :
    i < j => Before(q, r[i], r[j]) \/ ~ Occurs(q, r[j]) \/ r[i].expiry < r[j].expiry

\* Every step keeps the delayed messages in order, whatever it does to the others.
LEMMA DelayedInOrder ==
  ASSUME KernelInv, PlacesInv, [Next]_vars
  PROVE  /\ InOrder(g_delayed_msg_queue, g_delayed_msg_queue')
         /\ TimerIrq \/ Contents(g_delayed_msg_queue) \subseteq Contents(g_delayed_msg_queue')
<1> DEFINE q == g_delayed_msg_queue
<1>1. /\ q \in Seq(DelayedEnvelope) /\ Len(q) \in Nat /\ DOMAIN q = 1 .. Len(q)
      /\ OneEach(q) /\ Sorted(q)
  BY Types, LenProperties DEF PlacesInv
<1>2. CASE UNCHANGED q
  BY <1>2 DEF InOrder, Before
<1>3. CASE \E pid \in Receivers, b \in mem_blocks, delay \in Delays : DelayedSend(pid, b, delay)
  <2> PICK pid \in Receivers, b \in mem_blocks, delay \in Delays : DelayedSend(pid, b, delay)
    BY <1>3
  <2> DEFINE m == [msg |-> b, m_send_pid |-> Caller, m_recv_pid |-> pid,
                   expiry |-> delay + g_timer_count]
  <2>1. q' = enqueue_message(m, q) /\ m.msg = b
    BY DEF DelayedSend
  <2>2. m \in DelayedEnvelope /\ Caller \in Procs /\ b \in held[Caller]
    BY Types, KernelAssumption DEF DelayedSend, CanCall, UserMode, DelayedEnvelope
  <2>3. b \notin Msgs(q)
    BY <2>2 DEF PlacesInv, Placed
  <2> HIDE DEF m, q
  <2>4. ~ Occurs(q, m)
    BY <2>1, <2>3 DEF Occurs, Msgs
  <2>5. /\ Contents(q') = Contents(q) \cup {m}
        /\ \A i, j \in DOMAIN q' :
             i < j => \/ Before(q, q'[i], q'[j])
                      \/ q'[j] = m
                      \/ q'[i].expiry < q'[j].expiry
    BY <1>1, <2>1, <2>2, EnqueueElements
  <2>6. InOrder(q, q') /\ Contents(q) \subseteq Contents(q')
    BY <2>4, <2>5 DEF InOrder
  <2> QED BY <2>6 DEF q
<1>4. CASE TimerIrq
  <2> DEFINE n == ExpiredCount(q, g_timer_count')
  <2>1. n \in 0 .. Len(q) /\ q' = Rest(q, n)
    BY <1>4, TickDelivers
  <2> HIDE DEF q, n
  <2>2. /\ q' \in Seq(DelayedEnvelope) /\ Len(q') = Len(q) - n
        /\ \A i \in 1 .. Len(q) - n : q'[i] = q[n + i]
    BY <1>1, <2>1, RestElements
  <2>3. DOMAIN q' = 1 .. Len(q) - n
    BY <2>2, LenProperties
  <2>4. ASSUME NEW i \in 1 .. Len(q) - n, NEW j \in 1 .. Len(q) - n, i < j
        PROVE  n + i \in 1 .. Len(q) /\ n + j \in 1 .. Len(q) /\ n + i < n + j
    BY <1>1, <2>1, <2>4
  <2>5. InOrder(q, q')
    BY <1>1, <2>2, <2>3, <2>4 DEF InOrder, Before
  <2> QED BY <1>4, <2>5 DEF q
<1>5. UNCHANGED q \/ TimerIrq
      \/ \E pid \in Receivers, b \in mem_blocks, delay \in Delays : DelayedSend(pid, b, delay)
  BY DEF Next, CallOrUart, vars, Boot, ReleaseProcessor, UartIrq, TimerAck, SetProcessPriority,
         RequestMemoryBlock, ReleaseMemoryBlock, SendMessage, ReceiveMessage, UartNotify
<1> QED
  BY <1>2, <1>3, <1>4, <1>5

\* Two messages for one process that a tick delivers reach its mailbox in order.
LEMMA TickKeepsOrder ==
  ASSUME KernelInv, PlacesInv, TimerIrq, PlacesInv', Mailboxes = [Procs -> Seq(Envelope)],
         NEW i \in DOMAIN g_delayed_msg_queue, NEW j \in DOMAIN g_delayed_msg_queue, i < j,
         NEW p \in Procs,
         g_delayed_msg_queue[i].m_recv_pid = p, g_delayed_msg_queue[j].m_recv_pid = p,
         g_delayed_msg_queue[j].msg \in mem_blocks,
         g_delayed_msg_queue[j].msg \in Msgs(g_message_queues'[p])
  PROVE  \E a, b \in DOMAIN g_message_queues'[p] :
           /\ a < b
           /\ g_message_queues'[p][a].msg = g_delayed_msg_queue[i].msg
           /\ g_message_queues'[p][b].msg = g_delayed_msg_queue[j].msg
<1> DEFINE q == g_delayed_msg_queue
           n == ExpiredCount(q, g_timer_count')
           box == g_message_queues'[p]
           old == g_message_queues[p]
<1>1. q \in Seq(DelayedEnvelope) /\ Len(q) \in Nat /\ DOMAIN q = 1 .. Len(q) /\ OneEach(q)
  BY Types, LenProperties DEF PlacesInv
<1>2. /\ n \in 0 .. Len(q) /\ q' = Rest(q, n)
      /\ box \in Seq(Envelope) /\ Brings(box, old, q, p, n)
  BY TickDelivers
<1>3. q[j].msg \notin Msgs(q')
  BY DEF PlacesInv, Placed, MailMsgs
<1>4. old \in Seq(Envelope) /\ Len(old) \in Nat
  BY Types, LenProperties
<1> HIDE DEF q, n, box, old
<1>5. Msgs(q') = Msgs(q) \ FirstMsgs(q, n)
  BY <1>1, <1>2, RestElements
<1>6. i \in 1 .. n /\ j \in 1 .. n
  <2>1. q[j].msg \in FirstMsgs(q, n)
    BY <1>3, <1>5 DEF Msgs, q
  <2>2. PICK c \in 1 .. n : q[c].msg = q[j].msg
    BY <2>1 DEF FirstMsgs
  <2>3. c \in 1 .. Len(q)
    BY <1>1, <1>2
  <2>4. c = j
    BY <1>1, <2>2, <2>3 DEF OneEach, q
  <2>5. i \in 1 .. Len(q)
    BY <1>1 DEF q
  <2> QED BY <1>1, <1>2, <2>4, <2>5
<1>7. PICK a, b \in Len(old) + 1 .. Len(box) :
        a < b /\ box[a] = Letter(q[i]) /\ box[b] = Letter(q[j])
  BY <1>2, <1>6 DEF Brings, q
<1>8. Len(box) \in Nat /\ DOMAIN box = 1 .. Len(box)
  BY <1>2, LenProperties
<1>9. a \in DOMAIN box /\ b \in DOMAIN box
  BY <1>4, <1>8
<1>10. box[a].msg = q[i].msg /\ box[b].msg = q[j].msg
  BY <1>7 DEF Letter
<1> QED
  BY <1>7, <1>9, <1>10 DEF q, box

\* Delayed messages for one process arrive by expiry, those of one expiry as they
\* were sent (message_queue.c:44-52).
THEOREM DelayedInTurn == Spec => DelayedOrder
<1> DEFINE q == g_delayed_msg_queue
           Sooner(m, n) == \/ m.expiry < n.expiry
                           \/ m.expiry = n.expiry /\ Occurs(q, m) /\ ~ Before(q, n, m)
           Box(m) == g_message_queues'[m.m_recv_pid]
           At(m, x) == {b \in DOMAIN Box(m) : Box(m)[b].msg = x.msg}
           Delayed == {q[i] : i \in DOMAIN q}
<1>1. ASSUME KernelInv, PlacesInv, [Next]_vars
      PROVE  /\ \A i, j \in DOMAIN q' : Sooner(q'[i], q'[j]) /\ i # j => i < j
             /\ \A m, n \in Delayed :
                  Before(q, m, n) /\ m.m_recv_pid = n.m_recv_pid /\ At(m, n) # {}
                    => \E a \in At(m, m), b \in At(m, n) : a < b
  <2>0. PlacesInv' /\ KernelInv'
    BY <1>1, NextMoves, NextInvariant
  <2>1. ASSUME NEW i \in DOMAIN q', NEW j \in DOMAIN q', Sooner(q'[i], q'[j]), i # j PROVE i < j
    <3>1. /\ q' \in Seq(DelayedEnvelope) /\ DOMAIN q' = 1 .. Len(q') /\ Sorted(q')
      BY <2>0, Types, LenProperties DEF PlacesInv, KernelInv, TypeOK
    <3>2. \A e \in DelayedEnvelope : e.expiry \in Nat
      BY DEF DelayedEnvelope
    <3>3. q'[i].expiry \in Nat /\ q'[j].expiry \in Nat /\ i \in Int /\ j \in Int
      BY <3>1, <3>2, ElementOfSeq
    <3>4. InOrder(q, q')
      BY <1>1, DelayedInOrder
    <3> HIDE DEF q
    <3>5. SUFFICES ASSUME j < i PROVE FALSE
      BY <2>1, <3>3
    <3>6. q'[j].expiry <= q'[i].expiry
      BY <3>1, <3>5 DEF Sorted
    <3>7. q'[j].expiry = q'[i].expiry /\ Occurs(q, q'[i]) /\ ~ Before(q, q'[j], q'[i])
      BY <2>1, <3>3, <3>6
    <3> QED BY <3>3, <3>4, <3>5, <3>7 DEF InOrder
  <2>2. ASSUME NEW m \in Delayed, NEW n \in Delayed,
               Before(q, m, n), m.m_recv_pid = n.m_recv_pid, At(m, n) # {}
        PROVE  \E a \in At(m, m), b \in At(m, n) : a < b
    <3>0. q \in Seq(DelayedEnvelope) /\ DOMAIN q = 1 .. Len(q)
      BY <1>1, Types, LenProperties
    <3>1. PICK i, j \in DOMAIN q : i < j /\ q[i] = m /\ q[j] = n
      BY <2>2 DEF Before
    <3>2. m.m_recv_pid \in Procs /\ n.msg \in mem_blocks
      <4>1. m \in DelayedEnvelope /\ n \in DelayedEnvelope
        BY <3>0, <3>1, ElementOfSeq
      <4> QED BY <4>1 DEF DelayedEnvelope
    <3>3. n.msg \in Msgs(Box(m))
      BY <2>2 DEF Msgs
    <3>4. TimerIrq
      <4>1. SUFFICES ASSUME Contents(q) \subseteq Contents(q') PROVE FALSE
        BY <1>1, DelayedInOrder
      <4>2. n \in Contents(q')
        BY <3>1, <4>1 DEF Contents
      <4>3. n.msg \in Msgs(q')
        BY <4>2 DEF Contents, Msgs
      <4> QED BY <2>0, <3>2, <3>3, <4>3 DEF PlacesInv, Placed, MailMsgs
    <3>5. \E a, b \in DOMAIN Box(m) : a < b /\ Box(m)[a].msg = m.msg /\ Box(m)[b].msg = n.msg
      <4>1. Mailboxes = [Procs -> Seq(Envelope)]
        BY DEF Mailboxes
      <4> QED BY <1>1, <2>0, <2>2, <3>1, <3>2, <3>3, <3>4, <4>1, TickKeepsOrder
    <3> QED BY <3>5
  <2> QED BY <2>1, <2>2
<1>2. KernelInv /\ PlacesInv /\ [Next]_vars =>
        [LET Soon(m, n) == \/ m.expiry < n.expiry
                           \/ m.expiry = n.expiry /\ Occurs(q, m) /\ ~ Before(q, n, m)
         IN  /\ \A i, j \in DOMAIN q' : Soon(q'[i], q'[j]) /\ i # j => i < j
             /\ \A m, n \in {q[i] : i \in DOMAIN q} :
                  LET box == g_message_queues'[m.m_recv_pid]
                      In(x) == {b \in DOMAIN box : box[b].msg = x.msg}
                  IN  Before(q, m, n) /\ m.m_recv_pid = n.m_recv_pid /\ In(n) # {}
                        => \E a \in In(m), b \in In(n) : a < b]_vars
  BY <1>1
<1> QED
  BY <1>2, Invariance, PlacesInvariance, PTL DEF Spec, DelayedOrder

\* The kernel implements Ipc.
THEOREM ImplementsIpc == Spec => IpcSpec
<1>1. KernelInv /\ PlacesInv /\ [Next]_vars => [I!Next]_(I!ipcVars)
  BY NextMoves DEF IpcStep
<1>2. Init => I!Init
  BY PlacesInit
<1> QED
  BY <1>1, <1>2, Invariance, PlacesInvariance, PTL DEF Spec, IpcSpec, I!Spec
=============================================================================
