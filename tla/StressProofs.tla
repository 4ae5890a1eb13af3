----------------------------- MODULE StressProofs -----------------------------
(***************************************************************************)
(* The processes of module Stress over the kernel, for every number of     *)
(* memory blocks, every period and whatever is typed: no program loses a   *)
(* block, C sleeps its time and takes every report of A in order, and the  *)
(* programs never all wait for memory that only they could give back.      *)
(***************************************************************************)
EXTENDS Stress, KernelProofs

-----------------------------------------------------------------------------
(* The kernel, with time that is relative. *)

Sound == KernelInv /\ PlacesInv

\* A sequence without an element is the empty one.
LEMMA NotEmpty ==
  ASSUME NEW S, NEW s \in Seq(S)
  PROVE  s # << >> <=> Contents(s) # {}
<1>1. ASSUME s # << >> PROVE s[1] \in Contents(s)
  <2>1. DOMAIN s = 1 .. Len(s) /\ Len(s) \in Nat \ {0}
    BY <1>1, EmptySeq, LenProperties
  <2> QED BY <2>1 DEF Contents
<1>2. Contents(<< >>) = {}
  BY DEF Contents
<1> QED
  BY <1>1, <1>2

\* Nothing that a program can tell has changed.
Quiet == UNCHANGED <<g_message_queues, g_delayed_msg_queue, g_timer_count, held>>

\* The calls and the interrupts that move no block.
LEMMA QuietKernel ==
  ASSUME Sound,
         \/ UNCHANGED vars \/ Boot \/ TimerAck \/ ReleaseProcessor \/ UartIrq
         \/ \E pid \in Procs : \E prio \in Int : SetProcessPriority(pid, prio)
  PROVE  Sound' /\ Quiet
<1>1. KernelInv'
  <2>1. CASE UNCHANGED vars
    BY <2>1, NextInvariant DEF Sound
  <2> QED
    BY <2>1, BootStep, TimerAckStep, ReleaseProcessorStep, UartIrqStep, SetProcessPriorityStep
       DEF Sound
<1>2. Quiet /\ UNCHANGED g_heap
  BY DEF vars, Boot, TimerAck, ReleaseProcessor, UartIrq, SetProcessPriority, Quiet
<1>3. PlacesInv'
  BY <1>2, NothingMoves DEF Sound, Quiet
<1> QED
  BY <1>1, <1>2, <1>3 DEF Sound

\* Block b is nowhere else than where it is said to be.
LEMMA HeldOnly ==
  ASSUME Sound, NEW p \in Procs, NEW b \in held[p]
  PROVE  /\ b \in mem_blocks
         /\ \A r \in Procs : /\ r # p => b \notin held[r]
                             /\ b \notin Msgs(g_message_queues[r])
         /\ b \notin Msgs(g_delayed_msg_queue)
<1>1. b \in mem_blocks /\ held \in HeldBlocks
  BY Types DEF Sound, HeldBlocks
<1> QED
  BY <1>1 DEF Sound, PlacesInv, Placed, MailMsgs

LEMMA MailOnly ==
  ASSUME Sound, NEW p \in Procs, NEW b \in Msgs(g_message_queues[p]), b \in mem_blocks
  PROVE  /\ \A r \in Procs : b \notin held[r]
         /\ \A r \in Procs : r # p => b \notin Msgs(g_message_queues[r])
         /\ b \notin Msgs(g_delayed_msg_queue)
BY DEF Sound, PlacesInv, Placed, MailMsgs

LEMMA DelayedOnly ==
  ASSUME Sound, NEW b \in Msgs(g_delayed_msg_queue)
  PROVE  /\ b \in mem_blocks
         /\ \A r \in Procs : b \notin held[r] /\ b \notin Msgs(g_message_queues[r])
<1>1. b \in mem_blocks
  <2>1. \A i \in DOMAIN g_delayed_msg_queue : g_delayed_msg_queue[i] \in DelayedEnvelope
    BY Types, LenProperties, ElementOfSeq DEF Sound
  <2> QED BY <2>1 DEF Msgs, DelayedEnvelope
<1> QED
  BY <1>1 DEF Sound, PlacesInv, Placed, MailMsgs

\* p holds H after the step; the others hold what they held.
Holding(p, H) ==
  /\ DOMAIN held = Procs /\ DOMAIN held' = Procs /\ held'[p] = H
  /\ \A r \in Procs \ {p} : held'[r] = held[r]

LEMMA RequestKernel ==
  ASSUME Sound, RequestMemoryBlock
  PROVE  /\ Sound' /\ Caller \in Procs
         /\ UNCHANGED <<g_message_queues, g_delayed_msg_queue, g_timer_count>>
         /\ g_heap = << >> => Quiet
         /\ g_heap # << >> =>
              /\ Holding(Caller, held[Caller] \cup {Head(g_heap)})
              /\ Head(g_heap) \in mem_blocks
              /\ \A r \in Procs : Head(g_heap) \notin held[r]
<1>1. Sound'
  BY RequestMemoryBlockStep, RequestMoves DEF Sound
<1>2. Caller \in Procs /\ held \in HeldBlocks /\ g_heap \in Seq(mem_blocks)
  BY Types DEF Sound, RequestMemoryBlock, Loops, CanCall, UserMode
<1>3. UNCHANGED <<g_message_queues, g_delayed_msg_queue, g_timer_count>>
  BY DEF RequestMemoryBlock
<1>4. g_heap = << >> => Quiet
  BY <1>3 DEF RequestMemoryBlock, Quiet
<1>5. ASSUME g_heap # << >>
      PROVE  /\ Holding(Caller, held[Caller] \cup {Head(g_heap)})
             /\ Head(g_heap) \in mem_blocks
             /\ \A r \in Procs : Head(g_heap) \notin held[r]
  <2> DEFINE b == Head(g_heap)
  <2>1. b \in mem_blocks
    BY <1>2, <1>5, HeadTailProperties
  <2>2. b \in Contents(g_heap)
    BY <1>2, <1>5, TailElements
  <2>3. held' = [held EXCEPT ![Caller] = @ \cup {b}]
    BY <1>5 DEF RequestMemoryBlock
  <2> HIDE DEF b
  <2>4. Holding(Caller, held[Caller] \cup {b})
    BY <1>2, <2>3 DEF Holding, HeldBlocks
  <2>5. \A r \in Procs : b \notin held[r]
    BY <2>1, <2>2 DEF Sound, PlacesInv, Placed
  <2> QED BY <2>1, <2>4, <2>5 DEF b
<1> QED
  BY <1>1, <1>2, <1>3, <1>4, <1>5

LEMMA ReleaseKernel ==
  ASSUME Sound, NEW b, ReleaseMemoryBlock(b)
  PROVE  /\ Sound' /\ Caller \in Procs /\ b \in held[Caller] /\ b \in mem_blocks
         /\ UNCHANGED <<g_message_queues, g_delayed_msg_queue, g_timer_count>>
         /\ Holding(Caller, held[Caller] \ {b})
<1>1. Caller \in Procs /\ held \in HeldBlocks
  BY Types DEF Sound, ReleaseMemoryBlock, CanCall, UserMode
<1>2. b \in held[Caller]
  BY DEF ReleaseMemoryBlock, k_release_memory_block_valid
<1>3. b \in mem_blocks
  BY <1>1, <1>2 DEF HeldBlocks
<1>4. Sound'
  BY <1>3, ReleaseMemoryBlockStep, ReleaseMoves DEF Sound
<1>5. Holding(Caller, held[Caller] \ {b})
  BY <1>1 DEF ReleaseMemoryBlock, Holding, HeldBlocks
<1> QED
  BY <1>1, <1>2, <1>3, <1>4, <1>5 DEF ReleaseMemoryBlock

\* Mailbox p gets letter e.
Posted(p, e) ==
  /\ DOMAIN g_message_queues = Procs
  /\ g_message_queues' = [g_message_queues EXCEPT ![p] = Append(@, e)]
  /\ Contents(g_message_queues'[p]) = Contents(g_message_queues[p]) \cup {e}
  /\ \A r \in Procs \ {p} : g_message_queues'[r] = g_message_queues[r]

LEMMA PostedMail ==
  ASSUME Sound, NEW to \in Procs, NEW e \in Envelope,
         g_message_queues' = [g_message_queues EXCEPT ![to] = Append(@, e)]
  PROVE  Posted(to, e)
<1>1. g_message_queues \in Mailboxes
  BY Types DEF Sound
<1>2. g_message_queues[to] \in Seq(Envelope)
  BY <1>1 DEF Mailboxes
<1>3. Contents(Append(g_message_queues[to], e)) = Contents(g_message_queues[to]) \cup {e}
  BY <1>2, AppendElements
<1> QED
  BY <1>1, <1>3 DEF Posted, Mailboxes

LEMMA SendKernel ==
  ASSUME Sound, NEW to \in Procs, NEW b, SendMessage(to, b)
  PROVE  /\ Sound' /\ Caller \in Procs /\ b \in held[Caller] /\ b \in mem_blocks
         /\ UNCHANGED <<g_delayed_msg_queue, g_timer_count>>
         /\ Holding(Caller, held[Caller] \ {b})
         /\ Posted(to, [msg |-> b, m_send_pid |-> Caller])
<1>1. Caller \in Procs /\ held \in HeldBlocks /\ b \in held[Caller]
  BY Types DEF Sound, SendMessage, CanCall, UserMode
<1>2. b \in mem_blocks
  BY <1>1 DEF HeldBlocks
<1>3. Sound'
  BY <1>2, SendMessageStep, SendMoves DEF Sound
<1>4. Holding(Caller, held[Caller] \ {b})
  BY <1>1 DEF SendMessage, Holding, HeldBlocks
<1>5. Posted(to, [msg |-> b, m_send_pid |-> Caller])
  <2> DEFINE e == [msg |-> b, m_send_pid |-> Caller]
  <2>1. e \in Envelope
    BY <1>1, <1>2 DEF Envelope
  <2>2. g_message_queues' = [g_message_queues EXCEPT ![to] = Append(@, e)]
    BY DEF SendMessage, Sent, k_send_message_helper
  <2> HIDE DEF e
  <2>3. Posted(to, e)
    BY <2>1, <2>2, PostedMail
  <2> QED BY <2>3 DEF e
<1> QED
  BY <1>1, <1>2, <1>3, <1>4, <1>5 DEF SendMessage

LEMMA NotifyKernel ==
  ASSUME Sound, UartNotify(PID_KCD, notif_in_msg)
  PROVE  /\ Sound'
         /\ UNCHANGED <<g_delayed_msg_queue, g_timer_count, held>>
         /\ Posted(PID_KCD, [msg |-> notif_in_msg, m_send_pid |-> PID_UART_IPROC])
<1>1. PID_KCD \in Procs /\ PID_UART_IPROC \in Procs /\ notif_in_msg \in Notifications
  BY PidAssumption, KernelAssumption DEF Notifications
<1>2. Sound'
  BY <1>1, UartNotifyStep, NotifyMoves DEF Sound
<1> DEFINE e == [msg |-> notif_in_msg, m_send_pid |-> PID_UART_IPROC]
<1>3. e \in Envelope
  BY <1>1 DEF Envelope
<1>4. g_message_queues' = [g_message_queues EXCEPT ![PID_KCD] = Append(@, e)]
  BY DEF UartNotify, Sent, k_send_message_helper
<1> HIDE DEF e
<1>5. Posted(PID_KCD, e)
  BY <1>1, <1>3, <1>4, PostedMail
<1> QED
  BY <1>2, <1>5 DEF e, UartNotify

\* p takes the first letter e of its mailbox.
Read(p, e) ==
  /\ DOMAIN g_message_queues = Procs
  /\ g_message_queues[p] \in Seq(Envelope) /\ g_message_queues[p] # << >>
  /\ e \in Envelope /\ e = Head(g_message_queues[p])
  /\ g_message_queues'[p] = Tail(g_message_queues[p])
  /\ e \in Contents(g_message_queues[p])
  /\ Contents(g_message_queues'[p]) = Contents(g_message_queues[p]) \ {e}
  /\ Msgs(g_message_queues'[p]) = Msgs(g_message_queues[p]) \ {e.msg}
  /\ \A r \in Procs \ {p} : g_message_queues'[r] = g_message_queues[r]

LEMMA ReceiveKernel ==
  ASSUME Sound, ReceiveMessage
  PROVE  /\ Sound' /\ Caller \in Procs
         /\ UNCHANGED <<g_delayed_msg_queue, g_timer_count>>
         /\ g_message_queues[Caller] = << >> => Quiet
         /\ g_message_queues[Caller] # << >> =>
              LET e == Head(g_message_queues[Caller])
              IN  /\ Read(Caller, e)
                  /\ Holding(Caller, held[Caller] \cup ({e.msg} \ Notifications))
                  /\ e.msg \in mem_blocks \/ e.msg \in Notifications
                  /\ e.msg \in mem_blocks => /\ e.msg \notin Notifications
                                             /\ \A r \in Procs : e.msg \notin held[r]
<1>1. Sound'
  BY ReceiveMessageStep, ReceiveMoves DEF Sound
<1>2. /\ Caller \in Procs /\ held \in HeldBlocks /\ g_message_queues \in Mailboxes
      /\ UNCHANGED <<g_delayed_msg_queue, g_timer_count>>
  BY Types DEF Sound, ReceiveMessage, Loops, CanCall, UserMode
<1>3. g_message_queues[Caller] = << >> => Quiet
  BY <1>2 DEF ReceiveMessage, Quiet
<1>4. ASSUME g_message_queues[Caller] # << >>, NEW e, e = Head(g_message_queues[Caller])
      PROVE  /\ Read(Caller, e)
             /\ Holding(Caller, held[Caller] \cup ({e.msg} \ Notifications))
             /\ e.msg \in mem_blocks \/ e.msg \in Notifications
             /\ e.msg \in mem_blocks => /\ e.msg \notin Notifications
                                        /\ \A r \in Procs : e.msg \notin held[r]
  <2> DEFINE box == g_message_queues[Caller]
             new == {e.msg} \ Notifications
  <2>1. box \in Seq(Envelope) /\ OneEach(box) /\ Distinct(box) /\ box # << >> /\ e = Head(box)
    <3>1. box \in Seq(Envelope) /\ OneEach(box)
      BY <1>2 DEF Mailboxes, Sound, PlacesInv
    <3> QED BY <1>4, <3>1 DEF OneEach, Distinct
  <2>2. /\ g_message_queues' = [g_message_queues EXCEPT ![Caller] = Tail(@)]
        /\ held' = [held EXCEPT ![Caller] = @ \cup new]
    BY <1>4 DEF ReceiveMessage
  <2>3. /\ DOMAIN g_message_queues = Procs
        /\ g_message_queues'[Caller] = Tail(box)
        /\ \A r \in Procs \ {Caller} : g_message_queues'[r] = g_message_queues[r]
    BY <1>2, <2>2 DEF Mailboxes
  <2>4. Holding(Caller, held[Caller] \cup new)
    <3> HIDE DEF new
    <3> QED BY <1>2, <2>2 DEF Holding, HeldBlocks
  <2> HIDE DEF box
  <2>5. /\ Contents(Tail(box)) = Contents(box) \ {e} /\ Msgs(Tail(box)) = Msgs(box) \ {e.msg}
        /\ e \in Contents(box) /\ e.msg \in Msgs(box)
    BY <2>1, TailElements
  <2>6. e \in Envelope
    BY <2>1, HeadTailProperties
  <2>7. Read(Caller, e)
    BY <2>1, <2>3, <2>5, <2>6 DEF Read, box
  <2>8. e.msg \in mem_blocks => /\ e.msg \notin Notifications
                                /\ \A r \in Procs : e.msg \notin held[r]
    BY <1>2, <2>5, MailOnly
       DEF box, mem_blocks, Notifications, notif_in_msg, notif_out_msg
  <2> QED BY <2>4, <2>6, <2>7, <2>8 DEF Envelope
<1> QED
  BY <1>1, <1>2, <1>3, <1>4

LEMMA DelayKernel ==
  ASSUME Sound, NEW to \in Procs, NEW b, NEW delay \in Nat, DelayedSend(to, b, delay)
  PROVE  /\ Sound' /\ Caller \in Procs /\ b \in held[Caller] /\ b \in mem_blocks
         /\ UNCHANGED <<g_message_queues, g_timer_count>>
         /\ Holding(Caller, held[Caller] \ {b})
         /\ Contents(g_delayed_msg_queue')
              = Contents(g_delayed_msg_queue)
                \cup {[msg |-> b, m_send_pid |-> Caller, m_recv_pid |-> to,
                       expiry |-> delay + g_timer_count]}
<1>1. Caller \in Procs /\ held \in HeldBlocks /\ b \in held[Caller] /\ g_timer_count \in Nat
  BY Types DEF Sound, DelayedSend, CanCall, UserMode
<1>2. b \in mem_blocks
  BY <1>1 DEF HeldBlocks
<1>3. Sound'
  BY <1>2, DelayedSendStep, DelayedSendMoves DEF Sound
<1>4. Holding(Caller, held[Caller] \ {b})
  BY <1>1 DEF DelayedSend, Holding, HeldBlocks
<1> DEFINE q == g_delayed_msg_queue
           m == [msg |-> b, m_send_pid |-> Caller, m_recv_pid |-> to,
                 expiry |-> delay + g_timer_count]
<1>5. q' = enqueue_message(m, q)
  BY DEF DelayedSend
<1>6. m \in DelayedEnvelope /\ m.msg = b
  BY <1>1, <1>2 DEF DelayedEnvelope
<1>7. /\ q \in Seq(DelayedEnvelope) /\ OneEach(q) /\ Sorted(q) /\ b \notin Msgs(q)
  BY <1>1, Types, HeldOnly DEF Sound, PlacesInv
<1> HIDE DEF m, q
<1>8. Contents(enqueue_message(m, q)) = Contents(q) \cup {m}
  BY <1>6, <1>7, EnqueueElements
<1> QED
  BY <1>1, <1>2, <1>3, <1>4, <1>5, <1>8 DEF DelayedSend, m, q

\* A run of the timer's handler: the first n delayed messages are due, and reach their mailboxes.
LEMMA TimerHandlerFacts ==
  ASSUME Sound, TimerHandler, NEW q, q = g_delayed_msg_queue,
         NEW n, n = ExpiredCount(q, 1)
  PROVE  /\ q \in Seq(DelayedEnvelope) /\ Len(q) \in Nat /\ n \in 0 .. Len(q)
         /\ \A i \in 1 .. Len(q) : q[i] \in DelayedEnvelope
         /\ \A i \in 1 .. n : q[i].expiry = 1
         /\ \A i \in n + 1 .. Len(q) : q[i].expiry > 1
         /\ g_message_queues' \in Mailboxes
         /\ \A p \in Procs : Brings(g_message_queues'[p], g_message_queues[p], q, p, n)
<1>1. /\ q \in Seq(DelayedEnvelope) /\ Len(q) \in Nat /\ DOMAIN q = 1 .. Len(q)
      /\ \A i \in 1 .. Len(q) : q[i] \in DelayedEnvelope
      /\ g_timer_count \in Nat
  BY Types, LenProperties, ElementOfSeq DEF Sound
<1>2. \A i \in 1 .. Len(q) : q[i].expiry \in Nat /\ q[i].expiry > 0
  BY <1>1 DEF DelayedEnvelope, Sound, PlacesInv
<1>3. /\ n \in 0 .. Len(q)
      /\ \A i \in 1 .. n : q[i].expiry <= 1
      /\ n < Len(q) => q[n + 1].expiry > 1
  BY <1>1, ExpiredCountProperties
<1>4. \A i \in 1 .. n : q[i].expiry = 1
  <2>1. \A i \in 1 .. n : i \in 1 .. Len(q)
    BY <1>1, <1>3
  <2> QED BY <1>2, <1>3, <2>1
<1>5. \A i \in n + 1 .. Len(q) : q[i].expiry > 1
  <2>1. ASSUME NEW i \in n + 1 .. Len(q)
        PROVE  /\ n < Len(q) /\ n + 1 \in 1 .. Len(q) /\ i \in 1 .. Len(q)
               /\ i = n + 1 \/ n + 1 < i
    BY <1>1, <1>3
  <2>2. Sorted(q)
    BY DEF Sound, PlacesInv
  <2> QED BY <1>1, <1>2, <1>3, <2>1, <2>2 DEF Sorted
<1>6. g_message_queues' = Delivered(Now, g_delayed_msg_queue, n).mail
  BY DEF TimerHandler, Now
<1>7. /\ g_message_queues' \in Mailboxes
      /\ \A p \in Procs : Brings(g_message_queues'[p], g_message_queues[p], q, p, n)
  BY <1>3, <1>6, DeliveryArrives DEF Sound
<1> QED
  BY <1>1, <1>3, <1>4, <1>5, <1>7

\* The messages that stay come a count closer.
LEMMA LaterProperties ==
  ASSUME NEW q \in Seq(DelayedEnvelope), OneEach(q), Sorted(q),
         NEW n, n = ExpiredCount(q, 1), n \in 0 .. Len(q),
         \A i \in n + 1 .. Len(q) : q[i].expiry > 1
  PROVE  /\ Later(q) \in Seq(DelayedEnvelope) /\ OneEach(Later(q)) /\ Sorted(Later(q))
         /\ Msgs(Later(q)) = Msgs(q) \ FirstMsgs(q, n)
         /\ \A i \in DOMAIN Later(q) : Later(q)[i].expiry > 0
         /\ Len(Later(q)) = Len(q) - n
         /\ \A i \in 1 .. Len(q) - n :
              /\ Later(q)[i].msg = q[n + i].msg
              /\ Later(q)[i].m_recv_pid = q[n + i].m_recv_pid
              /\ Later(q)[i].expiry = q[n + i].expiry - 1
<1> DEFINE r == Later(q)
           N == Len(q)
           rest == Rest(q, n)
<1>1. N \in Nat /\ n \in 0 .. N /\ N - n \in Nat
      /\ \A i \in 1 .. N : q[i] \in DelayedEnvelope
  BY LenProperties, ElementOfSeq
<1> HIDE DEF r
<1>2. /\ \A i \in 1 .. N - n : rest[i] = q[n + i]
      /\ OneEach(rest) /\ Msgs(rest) = Msgs(q) \ FirstMsgs(q, n)
      /\ rest \in Seq(DelayedEnvelope) /\ Len(rest) = N - n
  BY RestElements, ZenonT(30)
<1> USE DEF r
<1>3. r = [i \in 1 .. N - n |-> [q[n + i] EXCEPT !.expiry = @ - 1]]
  BY DEF Later
<1> HIDE DEF r, rest
<1>4. ASSUME NEW i \in 1 .. N - n
      PROVE  /\ n + i \in 1 .. N /\ n + i \in n + 1 .. N
             /\ r[i] \in DelayedEnvelope
             /\ r[i].msg = q[n + i].msg /\ r[i].m_recv_pid = q[n + i].m_recv_pid
             /\ r[i].expiry = q[n + i].expiry - 1 /\ r[i].expiry > 0
  <2>1. n + i \in 1 .. N /\ n + i \in n + 1 .. N
    BY <1>1
  <2>2. q[n + i] \in DelayedEnvelope /\ q[n + i].expiry > 1
    BY <1>1, <2>1
  <2>3. r[i] = [msg |-> q[n + i].msg, m_send_pid |-> q[n + i].m_send_pid,
                m_recv_pid |-> q[n + i].m_recv_pid, expiry |-> q[n + i].expiry - 1]
    BY <1>3, <2>2 DEF DelayedEnvelope
  <2>4. q[n + i].expiry \in Nat
    BY <2>2 DEF DelayedEnvelope
  <2>5. r[i].expiry = q[n + i].expiry - 1 /\ q[n + i].expiry - 1 \in Nat
        /\ q[n + i].expiry - 1 > 0
    BY <2>2, <2>3, <2>4
  <2> QED BY <2>1, <2>2, <2>3, <2>5 DEF DelayedEnvelope
<1>5. r \in [1 .. N - n -> DelayedEnvelope]
  <2>1. r = [i \in 1 .. N - n |-> r[i]]
    BY <1>3
  <2> QED BY <1>4, <2>1
<1>6. r \in Seq(DelayedEnvelope) /\ Len(r) = N - n /\ DOMAIN r = 1 .. N - n
  BY <1>1, <1>5, SeqDef, LenProperties, SMTT(20)
<1>7. DOMAIN rest = 1 .. N - n /\ \A i \in 1 .. N - n : r[i].msg = rest[i].msg
  BY <1>2, <1>4, LenProperties
<1>8. OneEach(r) /\ Msgs(r) = Msgs(rest)
  <2> DEFINE places == 1 .. N - n
  <2>1. DOMAIN r = places /\ DOMAIN rest = places /\ \A i \in places : r[i].msg = rest[i].msg
    BY <1>6, <1>7
  <2>2. OneEach(rest)
    BY <1>2
  <2> HIDE DEF places
  <2>3. OneEach(r)
    BY <2>1, <2>2 DEF OneEach
  <2>4. Msgs(r) = Msgs(rest)
    BY <2>1 DEF Msgs
  <2> QED BY <2>3, <2>4
<1>9. Sorted(r)
  <2>1. ASSUME NEW i \in 1 .. N - n, NEW j \in 1 .. N - n, i < j
        PROVE  r[i].expiry <= r[j].expiry
    <3>1. n + i < n + j /\ n + i \in 1 .. N /\ n + j \in 1 .. N
      BY <1>1, <1>4, <2>1
    <3>2. q[n + i].expiry <= q[n + j].expiry
      <4>1. DOMAIN q = 1 .. N /\ Sorted(q)
        BY LenProperties
      <4> QED BY <3>1, <4>1 DEF Sorted
    <3>3. q[n + i].expiry \in Nat /\ q[n + j].expiry \in Nat
      BY <1>1, <3>1 DEF DelayedEnvelope
    <3>4. r[i].expiry = q[n + i].expiry - 1 /\ r[j].expiry = q[n + j].expiry - 1
      BY <1>4
    <3>5. \A x, y \in Nat : x <= y => x - 1 <= y - 1
      OBVIOUS
    <3> HIDE DEF r
    <3> QED BY <3>2, <3>3, <3>4, <3>5
  <2> QED BY <1>6, <2>1 DEF Sorted
<1> QED
  BY <1>2, <1>4, <1>6, <1>8, <1>9 DEF r

LEMMA TimerHandlerMoves ==
  ASSUME Sound, g_timer_count = 0, TimerHandler
  PROVE  PlacesInv' /\ g_delayed_msg_queue' \in Seq(DelayedEnvelope)
<1> DEFINE q == g_delayed_msg_queue
           n == ExpiredCount(q, 1)
<1>1. /\ q \in Seq(DelayedEnvelope) /\ n \in 0 .. Len(q)
      /\ \A i \in n + 1 .. Len(q) : q[i].expiry > 1
      /\ g_message_queues' \in Mailboxes
      /\ \A p \in Procs : Brings(g_message_queues'[p], g_message_queues[p], q, p, n)
  BY TimerHandlerFacts
<1>2. OneEach(q) /\ Sorted(q)
  BY DEF Sound, PlacesInv
<1>3. q' = Later(q) /\ UNCHANGED <<g_heap, held, g_timer_count>>
  BY DEF TimerHandler
<1>4. /\ \A p \in Procs : OneEach(g_message_queues'[p])
      /\ Placed(Contents(g_heap), held, MailMsgs(g_message_queues'),
                Msgs(q) \ FirstMsgs(q, n))
  BY <1>1, DeliveryMoves DEF Sound
<1>5. /\ Later(q) \in Seq(DelayedEnvelope) /\ OneEach(Later(q)) /\ Sorted(Later(q))
      /\ Msgs(Later(q)) = Msgs(q) \ FirstMsgs(q, n)
      /\ \A i \in DOMAIN Later(q) : Later(q)[i].expiry > 0
  BY <1>1, <1>2, LaterProperties
<1> HIDE DEF n
<1>6. Placed(Contents(g_heap'), held', MailMsgs(g_message_queues'), Msgs(q'))
  BY <1>3, <1>4, <1>5
<1>7. Distinct(g_heap') /\ g_timer_count' = 0
  BY <1>3 DEF Sound, PlacesInv
<1> QED
  BY <1>3, <1>4, <1>5, <1>6, <1>7 DEF PlacesInv

LEMMA TimerHandlerStep ==
  ASSUME Sound, g_timer_count = 0, TimerHandler
  PROVE  KernelInv'
<1> DEFINE q == g_delayed_msg_queue
           n == ExpiredCount(q, 1)
           s == Delivered(Now, q, n)
<1>1. k.running # PID_NONE /\ Caller \in Procs /\ Caller = k.running
  BY CallerRuns DEF TimerHandler, UserMode, Caller, Sound
<1>2. /\ q \in Seq(DelayedEnvelope) /\ n \in 0 .. Len(q)
      /\ q' \in Seq(DelayedEnvelope)
  BY TimerHandlerFacts, TimerHandlerMoves
<1>3. /\ k' = k_check_preemption(s.k, Len(g_heap)) /\ g_message_queues' = s.mail
      /\ UNCHANGED <<g_heap, g_timer_count, held>>
  BY DEF TimerHandler, Now
<1> HIDE DEF s
<1>4. /\ SchedInv(s.k) /\ s.k.running # PID_NONE /\ Unblocking(k, s.k)
      /\ s.mail \in Mailboxes /\ NobodyMissesMail(s.k, s.mail)
  <2> HIDE DEF n, q
  <2>1. s = Delivered(Now, q, n)
    BY DEF s
  <2> QED BY <1>1, <1>2, <2>1, NowFine, DeliveredProperties DEF Sound
<1>5. GoodStep(k', g_heap', g_message_queues')
  <2>1. g_heap \in Seq(mem_blocks)
    BY DEF Sound, KernelInv, TypeOK
  <2>2. GoodStep(k', g_heap, s.mail)
    BY <1>3, <1>4, <2>1, PreemptionStep DEF Sound
  <2> QED BY <1>3, <2>2
<1>6. /\ cont' \in [Procs -> Conts]
      /\ \A p \in Procs : p # Caller => cont'[p] = cont[p]
      /\ cont'[Caller] \in {cont[Caller], "timer"}
  BY <1>1 DEF TimerHandler, Sound, KernelInv, TypeOK, Conts
<1>7. TypeOK'
  BY <1>2, <1>3, <1>4, <1>5, <1>6
     DEF Sound, KernelInv, TypeOK, GoodStep, SchedInv, Mailboxes
<1>8. NullMakesNoCall'
  BY <1>1, <1>6, PidAssumption DEF Sound, KernelInv, NullMakesNoCall
<1> QED
  BY <1>1, <1>3, <1>5, <1>6, <1>7, <1>8, StepKeepsInvariant DEF TimerHandler, Sound

\* What a run of the timer's handler does to a program: the messages that have it left come to its
\* mailbox, and the others come closer.
LEMMA TickKernel ==
  ASSUME Sound, g_timer_count = 0, TimerHandler
  PROVE  /\ Sound' /\ UNCHANGED <<g_timer_count, held>>
         /\ \A p \in Procs :
              /\ Contents(g_message_queues[p]) \subseteq Contents(g_message_queues'[p])
              /\ \A e \in Contents(g_message_queues'[p]) \ Contents(g_message_queues[p]) :
                   \E m \in Contents(g_delayed_msg_queue) :
                     m.m_recv_pid = p /\ m.msg = e.msg /\ m.expiry = 1
         /\ \A m \in Contents(g_delayed_msg_queue') :
              \E l \in Contents(g_delayed_msg_queue) :
                /\ m.msg = l.msg /\ m.m_recv_pid = l.m_recv_pid
                /\ m.expiry = l.expiry - 1 /\ l.expiry > 1
         /\ \A m \in Contents(g_delayed_msg_queue) :
              \/ m.expiry = 1 /\ m.msg \in Msgs(g_message_queues'[m.m_recv_pid])
              \/ m.expiry > 1 /\ g_delayed_msg_queue' # << >>
<1> DEFINE q == g_delayed_msg_queue
           n == ExpiredCount(q, 1)
           N == Len(q)
<1>1. /\ q \in Seq(DelayedEnvelope) /\ N \in Nat /\ n \in 0 .. N /\ DOMAIN q = 1 .. N
      /\ \A i \in 1 .. N : q[i] \in DelayedEnvelope
      /\ \A i \in 1 .. n : q[i].expiry = 1
      /\ \A i \in n + 1 .. N : q[i].expiry > 1
      /\ \A p \in Procs : Brings(g_message_queues'[p], g_message_queues[p], q, p, n)
      /\ g_message_queues \in Mailboxes
  BY TimerHandlerFacts, LenProperties, Types DEF Sound
<1>2. /\ Later(q) \in Seq(DelayedEnvelope) /\ Len(Later(q)) = N - n
      /\ \A i \in 1 .. N - n :
           /\ Later(q)[i].msg = q[n + i].msg
           /\ Later(q)[i].m_recv_pid = q[n + i].m_recv_pid
           /\ Later(q)[i].expiry = q[n + i].expiry - 1
  <2>1. OneEach(q) /\ Sorted(q)
    BY DEF Sound, PlacesInv
  <2> QED BY <1>1, <2>1, LaterProperties
<1>3. q' = Later(q) /\ UNCHANGED <<g_heap, held, g_timer_count>>
  BY DEF TimerHandler
<1>4. Sound'
  BY TimerHandlerMoves, TimerHandlerStep DEF Sound
<1> HIDE DEF n, q, N
<1>5. DOMAIN q' = 1 .. N - n /\ N - n \in Nat
  BY <1>1, <1>2, <1>3, LenProperties
<1>6. ASSUME NEW p \in Procs
      PROVE  /\ Contents(g_message_queues[p]) \subseteq Contents(g_message_queues'[p])
             /\ \A e \in Contents(g_message_queues'[p]) \ Contents(g_message_queues[p]) :
                  \E m \in Contents(q) : m.m_recv_pid = p /\ m.msg = e.msg /\ m.expiry = 1
             /\ \A c \in 1 .. n : q[c].m_recv_pid = p => q[c].msg \in Msgs(g_message_queues'[p])
  <2> DEFINE box == g_message_queues'[p]
             old == g_message_queues[p]
  <2>1. /\ box \in Seq(Envelope) /\ old \in Seq(Envelope) /\ Brings(box, old, q, p, n)
        /\ DOMAIN box = 1 .. Len(box) /\ DOMAIN old = 1 .. Len(old)
        /\ Len(box) \in Nat /\ Len(old) \in Nat /\ Len(old) <= Len(box)
    BY <1>1, LenProperties DEF Brings, Mailboxes
  <2> HIDE DEF box, old
  <2>2. \A j \in 1 .. Len(old) : j \in 1 .. Len(box) /\ box[j] = old[j]
    BY <2>1 DEF Brings
  <2>3. \A j \in Len(old) + 1 .. Len(box) : j \in 1 .. Len(box)
    BY <2>1
  <2>4. ASSUME NEW e \in Contents(box) \ Contents(old)
        PROVE  \E m \in Contents(q) : m.m_recv_pid = p /\ m.msg = e.msg /\ m.expiry = 1
    <3>1. PICK j \in 1 .. Len(box) : e = box[j]
      BY <2>1 DEF Contents
    <3>2. j \notin 1 .. Len(old)
      BY <2>1, <2>2, <3>1 DEF Contents
    <3>3. j \in Len(old) + 1 .. Len(box)
      BY <2>1, <3>2
    <3>4. PICK c \in 1 .. n : q[c].m_recv_pid = p /\ box[j] = Letter(q[c])
      BY <2>1, <3>3 DEF Brings
    <3>5. q[c] \in Contents(q) /\ q[c].expiry = 1
      BY <1>1 DEF Contents
    <3> QED BY <3>1, <3>4, <3>5 DEF Letter
  <2>5. ASSUME NEW c \in 1 .. n, q[c].m_recv_pid = p PROVE q[c].msg \in Msgs(box)
    <3>1. PICK j \in Len(old) + 1 .. Len(box) : box[j] = Letter(q[c])
      BY <2>1, <2>5 DEF Brings
    <3>2. box[j].msg = q[c].msg /\ j \in 1 .. Len(box)
      BY <2>3, <3>1 DEF Letter
    <3> QED BY <2>1, <3>2 DEF Msgs
  <2>6. Contents(old) \subseteq Contents(box)
    BY <2>1, <2>2 DEF Contents
  <2> QED BY <2>4, <2>5, <2>6 DEF box, old
<1>7. ASSUME NEW m \in Contents(q')
      PROVE  \E l \in Contents(q) : /\ m.msg = l.msg /\ m.m_recv_pid = l.m_recv_pid
                                    /\ m.expiry = l.expiry - 1 /\ l.expiry > 1
  <2>1. PICK i \in 1 .. N - n : m = q'[i]
    BY <1>5 DEF Contents
  <2>2. n + i \in 1 .. N /\ n + i \in n + 1 .. N
    BY <1>1
  <2>3. q[n + i] \in Contents(q)
    BY <1>1, <2>2 DEF Contents
  <2>4. m.msg = q[n + i].msg /\ m.m_recv_pid = q[n + i].m_recv_pid
        /\ m.expiry = q[n + i].expiry - 1 /\ q[n + i].expiry > 1
    BY <1>1, <1>2, <1>3, <2>1, <2>2
  <2> QED BY <2>3, <2>4
<1>8. ASSUME NEW m \in Contents(q)
      PROVE  \/ m.expiry = 1 /\ m.msg \in Msgs(g_message_queues'[m.m_recv_pid])
             \/ m.expiry > 1 /\ q' # << >>
  <2>1. PICK i \in 1 .. N : m = q[i]
    BY <1>1 DEF Contents
  <2>2. CASE i \in 1 .. n
    <3>1. m.m_recv_pid \in Procs
      BY <1>1, <2>1 DEF DelayedEnvelope
    <3> QED BY <1>1, <1>6, <2>1, <2>2, <3>1
  <2>3. CASE i \in n + 1 .. N
    <3>1. 1 \in DOMAIN q'
      BY <1>1, <1>5, <2>3
    <3> QED BY <1>1, <2>1, <2>3, <3>1
  <2> QED BY <1>1, <2>2, <2>3
<1> QED
  BY <1>3, <1>4, <1>6, <1>7, <1>8 DEF q

-----------------------------------------------------------------------------
(* The invariant of the programs. *)

\* The pids of the six programs are all different.
LEMMA PidsDistinct ==
  /\ {PID_KCD, PID_CRT, PID_SET_PRIO, PID_A, PID_B, PID_C} \subseteq Procs
  /\ PID_KCD \notin {PID_CRT, PID_SET_PRIO, PID_A, PID_B, PID_C}
  /\ PID_CRT \notin {PID_SET_PRIO, PID_A, PID_B, PID_C}
  /\ PID_SET_PRIO \notin {PID_A, PID_B, PID_C}
  /\ PID_A \notin {PID_B, PID_C}
  /\ PID_B # PID_C
<1>1. {PID_KCD, PID_CRT, PID_SET_PRIO, PID_A, PID_B, PID_C} \subseteq Procs
  BY PidAssumption, ProcessesAssumption, StressAssumption
<1> DEFINE s == <<PID_KCD, PID_CRT, PID_SET_PRIO, PID_A, PID_B, PID_C>>
<1>2. /\ DOMAIN s = 1 .. 6
      /\ s[1] = PID_KCD /\ s[2] = PID_CRT /\ s[3] = PID_SET_PRIO
      /\ s[4] = PID_A /\ s[5] = PID_B /\ s[6] = PID_C
  OBVIOUS
<1>3. Distinct(s)
  BY StressAssumption
<1> HIDE DEF s
<1>4. \A i, j \in 1 .. 6 : s[i] = s[j] => i = j
  BY <1>2, <1>3 DEF Distinct
<1> QED
  BY <1>1, <1>2, <1>4

\* Every process has a program counter and a hand, and every block a text.
IsMessage(m) == m = Message(m.mtype, m.mtext)
Domains ==
  /\ DOMAIN pc = Procs /\ DOMAIN hand = Procs /\ DOMAIN text = mem_blocks
  /\ \A b \in mem_blocks : IsMessage(text[b])

\* A registration that KCD has to keep: the priority command waits for %C lines.
Registration(e) ==
  /\ e.m_send_pid \in {PID_A, PID_SET_PRIO}
  /\ e.m_send_pid = PID_SET_PRIO => text[e.msg].mtext.cmd = "%C"

\* A line for the priority command.
IsCommand(b) == text[b].mtext \in AllLines /\ text[b].mtext.cmd = "%C"

\* Letter e is what the program of process p expects: nobody but KCD is notified.
Expected(p, e) ==
  /\ p # PID_KCD => e.msg \in mem_blocks
  /\ p = PID_KCD /\ e.msg \in mem_blocks => Registration(e)
  /\ p = PID_SET_PRIO => IsCommand(e.msg)
  /\ p = PID_B => IsReport(e.msg)
  /\ p = PID_C => IsReport(e.msg) \/ (pc[PID_C] = "sleep" /\ e.msg = hand[PID_C])
MailInv == \A p \in Procs : \A e \in Contents(g_message_queues[p]) : Expected(p, e)

HandOf(p) == {hand[p]} \ {NoBlock}

KcdInv ==
  /\ pc[PID_KCD] \in {"receive", "getc", "dispatch", "forward"}
  /\ entries \in Seq(Envelope)
  /\ \A e \in Contents(entries) : e.msg \in mem_blocks /\ Registration(e)
  /\ pc[PID_KCD] # "forward" => hand[PID_KCD] = NoBlock
  /\ pc[PID_KCD] = "forward" => /\ hand[PID_KCD] \in mem_blocks \ Msgs(entries)
                                /\ ToServe # {}
  /\ held[PID_KCD] = Msgs(entries) \cup HandOf(PID_KCD)
  /\ msg_buf = [line |-> msg_buf.line, cur |-> msg_buf.cur, sent_to |-> msg_buf.sent_to]
  /\ pc[PID_KCD] \in {"dispatch", "forward"} => msg_buf.line \in AllLines

\* What has been typed and not yet read.
InputInv == inbuf \in Seq(AllLines) /\ typed \in Nat

CrtInv ==
  /\ pc[PID_CRT] \in {"receive", "print"}
  /\ output \in Seq(mem_blocks) /\ Distinct(output)
  /\ held[PID_CRT] = Contents(output)

SetPrioInv ==
  /\ pc[PID_SET_PRIO] \in {"register", "send_register", "receive", "set", "request",
                           "display", "release"}
  /\ IF pc[PID_SET_PRIO] \in {"register", "receive"}
     THEN hand[PID_SET_PRIO] = NoBlock ELSE hand[PID_SET_PRIO] \in mem_blocks
  /\ IF pc[PID_SET_PRIO] = "display"
     THEN display_msg \in mem_blocks \ {hand[PID_SET_PRIO]} ELSE display_msg = NoBlock
  /\ pc[PID_SET_PRIO] = "set" => IsCommand(hand[PID_SET_PRIO])
  /\ held[PID_SET_PRIO] = HandOf(PID_SET_PRIO) \cup ({display_msg} \ {NoBlock})

AInv ==
  /\ pc[PID_A] \in {"register", "send_register", "receive", "answer", "request", "send",
                    "release_processor"}
  /\ IF pc[PID_A] \in {"send_register", "answer", "send"}
     THEN hand[PID_A] \in mem_blocks ELSE hand[PID_A] = NoBlock
  /\ held[PID_A] = HandOf(PID_A)

BInv ==
  /\ pc[PID_B] \in {"receive", "send"}
  /\ pc[PID_B] # "send" => hand[PID_B] = NoBlock
  /\ pc[PID_B] = "send" => hand[PID_B] \in mem_blocks /\ IsReport(hand[PID_B])
  /\ held[PID_B] = HandOf(PID_B)

CInv ==
  /\ pc[PID_C] \in {"take", "hibernate", "sleep", "display", "release", "release_processor"}
  /\ IF pc[PID_C] \in {"take", "release_processor"}
     THEN hand[PID_C] = NoBlock ELSE hand[PID_C] \in mem_blocks
  /\ c_message_queue \in Seq(mem_blocks) /\ Distinct(c_message_queue)
  /\ \A b \in Contents(c_message_queue) : IsReport(b) /\ b # hand[PID_C]
  /\ pc[PID_C] = "hibernate" => IsReport(hand[PID_C])
  /\ held[PID_C] = Contents(c_message_queue)
                   \cup IF pc[PID_C] = "sleep" THEN {} ELSE HandOf(PID_C)

\* While C sleeps, its wake-up call is delayed or in its mailbox, and nothing else is
\* delayed.
SleepInv ==
  /\ g_timer_count = 0
  /\ asleep \in 0 .. HIBERNATION
  /\ pc[PID_C] # "sleep" => g_delayed_msg_queue = << >> /\ asleep = 0
  /\ pc[PID_C] = "sleep" =>
       /\ IsWakeup(hand[PID_C])
       /\ \A m \in Contents(g_delayed_msg_queue) :
            m.msg = hand[PID_C] /\ m.m_recv_pid = PID_C /\ asleep + m.expiry = HIBERNATION
       /\ g_delayed_msg_queue = << >> =>
            hand[PID_C] \in Msgs(g_message_queues[PID_C]) /\ asleep = HIBERNATION

ProgramsInv ==
  /\ Domains /\ MailInv /\ InputInv
  /\ KcdInv /\ CrtInv /\ SetPrioInv /\ AInv /\ BInv /\ CInv /\ SleepInv
StressInv == Sound /\ ProgramsInv

-----------------------------------------------------------------------------
(* What a step of one process leaves to the others. *)

Others(p) ==
  /\ \A r \in Procs \ {p} : pc'[r] = pc[r] /\ hand'[r] = hand[r] /\ held'[r] = held[r]
  /\ \A b \in mem_blocks \ held[p] : text'[b] = text[b]
  /\ UNCHANGED g_timer_count
  /\ Domains'

\* No mailbox but that of p is read, and what is new is expected.
MailMoves(p) ==
  \A r \in Procs :
    /\ r # p => Contents(g_message_queues[r]) \subseteq Contents(g_message_queues'[r])
    /\ \A e \in Contents(g_message_queues'[r]) \ Contents(g_message_queues[r]) :
         Expected(r, e)'

\* If C is woken, the wake-up call is read.
WakeupRead ==
  \A e \in Contents(g_message_queues'[PID_C]) :
    pc[PID_C] = "sleep" /\ e.msg = hand[PID_C]
      => pc'[PID_C] = "sleep" /\ hand'[PID_C] = hand[PID_C]

LEMMA MailKept ==
  ASSUME StressInv, NEW p \in Procs, Others(p), MailMoves(p), WakeupRead
  PROVE  MailInv'
<1> SUFFICES ASSUME NEW r \in Procs, NEW e \in Contents(g_message_queues'[r])
             PROVE  Expected(r, e)'
  BY DEF MailInv
<1>1. CASE e \notin Contents(g_message_queues[r])
  BY <1>1 DEF MailMoves
<1>2. CASE e \in Contents(g_message_queues[r])
  <2>1. Expected(r, e)
    BY <1>2 DEF StressInv, ProgramsInv, MailInv
  <2>2. e.msg \in mem_blocks => text'[e.msg] = text[e.msg]
    <3>1. e.msg \in Msgs(g_message_queues[r])
      BY <1>2 DEF Contents, Msgs
    <3> QED BY <3>1, MailOnly DEF StressInv, Others
  <2>3. r = PID_C /\ pc[PID_C] = "sleep" /\ e.msg = hand[PID_C]
          => pc'[PID_C] = "sleep" /\ e.msg = hand'[PID_C]
    BY DEF WakeupRead
  <2> QED BY <2>1, <2>2, <2>3, PidsDistinct
       DEF Expected, Registration, IsCommand, IsReport
<1> QED
  BY <1>1, <1>2

LEMMA KcdKept ==
  ASSUME StressInv, NEW p \in Procs \ {PID_KCD}, Others(p), UNCHANGED <<entries, msg_buf>>
  PROVE  KcdInv'
<1>1. KcdInv /\ Sound /\ PID_KCD \in Procs
  BY PidsDistinct DEF StressInv, ProgramsInv
<1>2. pc'[PID_KCD] = pc[PID_KCD] /\ hand'[PID_KCD] = hand[PID_KCD]
      /\ held'[PID_KCD] = held[PID_KCD]
  BY <1>1 DEF Others
<1>3. \A b \in Msgs(entries) : b \in mem_blocks /\ text'[b] = text[b]
  <2>1. \A b \in Msgs(entries) : b \in held[PID_KCD]
    BY <1>1 DEF KcdInv
  <2> QED BY <1>1, <2>1, HeldOnly DEF Others
<1>4. \A e \in Contents(entries) : e.msg \in Msgs(entries)
  BY DEF Contents, Msgs
<1>5. \A i \in DOMAIN entries : entries[i].msg \in Msgs(entries)
  BY DEF Msgs
<1>6. ToServe' = ToServe
  BY <1>3, <1>5 DEF ToServe
<1>7. \A e \in Contents(entries) : Registration(e)'
  BY <1>1, <1>3, <1>4 DEF KcdInv, Registration
<1>8. Contents(entries)' = Contents(entries) /\ Msgs(entries)' = Msgs(entries)
      /\ HandOf(PID_KCD)' = HandOf(PID_KCD) /\ mem_blocks' = mem_blocks
  BY <1>2 DEF Contents, Msgs, HandOf, mem_blocks
<1> QED
  BY <1>1, <1>2, <1>6, <1>7, <1>8 DEF KcdInv

LEMMA CrtKept ==
  ASSUME StressInv, NEW p \in Procs \ {PID_CRT}, Others(p), UNCHANGED output
  PROVE  CrtInv'
BY PidsDistinct DEF StressInv, ProgramsInv, CrtInv, Others, Distinct, Contents

LEMMA SetPrioKept ==
  ASSUME StressInv, NEW p \in Procs \ {PID_SET_PRIO}, Others(p), UNCHANGED display_msg
  PROVE  SetPrioInv'
<1>1. SetPrioInv /\ Sound /\ PID_SET_PRIO \in Procs
  BY PidsDistinct DEF StressInv, ProgramsInv
<1>2. /\ pc'[PID_SET_PRIO] = pc[PID_SET_PRIO] /\ hand'[PID_SET_PRIO] = hand[PID_SET_PRIO]
      /\ held'[PID_SET_PRIO] = held[PID_SET_PRIO]
  BY <1>1 DEF Others
<1>3. pc[PID_SET_PRIO] = "set" => text'[hand[PID_SET_PRIO]] = text[hand[PID_SET_PRIO]]
  <2> SUFFICES ASSUME pc[PID_SET_PRIO] = "set"
               PROVE  text'[hand[PID_SET_PRIO]] = text[hand[PID_SET_PRIO]]
    OBVIOUS
  <2>1. hand[PID_SET_PRIO] \in held[PID_SET_PRIO]
    BY <1>1 DEF SetPrioInv, HandOf, mem_blocks, NoBlock
  <2> QED BY <1>1, <2>1, HeldOnly DEF Others
<1> QED
  BY <1>1, <1>2, <1>3 DEF SetPrioInv, HandOf, IsCommand

LEMMA AKept ==
  ASSUME StressInv, NEW p \in Procs \ {PID_A}, Others(p)
  PROVE  AInv'
BY PidsDistinct DEF StressInv, ProgramsInv, AInv, Others, HandOf

LEMMA BKept ==
  ASSUME StressInv, NEW p \in Procs \ {PID_B}, Others(p)
  PROVE  BInv'
<1>1. BInv /\ Sound /\ PID_B \in Procs
  BY PidsDistinct DEF StressInv, ProgramsInv
<1>2. pc'[PID_B] = pc[PID_B] /\ hand'[PID_B] = hand[PID_B] /\ held'[PID_B] = held[PID_B]
  BY <1>1 DEF Others
<1>3. pc[PID_B] = "send" => text'[hand[PID_B]] = text[hand[PID_B]]
  <2> SUFFICES ASSUME pc[PID_B] = "send" PROVE text'[hand[PID_B]] = text[hand[PID_B]]
    OBVIOUS
  <2>1. hand[PID_B] \in held[PID_B]
    BY <1>1 DEF BInv, HandOf, mem_blocks, NoBlock
  <2> QED BY <1>1, <2>1, HeldOnly DEF Others
<1> QED
  BY <1>1, <1>2, <1>3 DEF BInv, HandOf, IsReport

LEMMA CKept ==
  ASSUME StressInv, NEW p \in Procs \ {PID_C}, Others(p), UNCHANGED c_message_queue
  PROVE  CInv'
<1>1. CInv /\ Sound /\ PID_C \in Procs
  BY PidsDistinct DEF StressInv, ProgramsInv
<1>2. pc'[PID_C] = pc[PID_C] /\ hand'[PID_C] = hand[PID_C] /\ held'[PID_C] = held[PID_C]
  BY <1>1 DEF Others
<1>3. \A b \in held[PID_C] : text'[b] = text[b]
  BY <1>1, HeldOnly DEF Others
<1>4. pc[PID_C] = "hibernate" => hand[PID_C] \in held[PID_C]
  BY <1>1 DEF CInv, HandOf, mem_blocks, NoBlock
<1>5. Contents(c_message_queue) \subseteq held[PID_C]
  BY <1>1 DEF CInv
<1>6. \A b \in Contents(c_message_queue) : IsReport(b)'
  BY <1>1, <1>3, <1>5 DEF CInv, IsReport
<1>7. pc[PID_C] = "hibernate" => IsReport(hand[PID_C])'
  BY <1>1, <1>2, <1>3, <1>4 DEF CInv, IsReport
<1>8. Contents(c_message_queue)' = Contents(c_message_queue)
  BY DEF Contents
<1> QED
  BY <1>1, <1>2, <1>6, <1>7, <1>8 DEF CInv, HandOf, Distinct

LEMMA SleepKept ==
  ASSUME StressInv, NEW p \in Procs \ {PID_C}, Others(p), MailMoves(p),
         UNCHANGED <<g_delayed_msg_queue, asleep>>
  PROVE  SleepInv'
<1>1. SleepInv /\ CInv /\ Sound /\ PID_C \in Procs
  BY PidsDistinct DEF StressInv, ProgramsInv
<1>2. pc'[PID_C] = pc[PID_C] /\ hand'[PID_C] = hand[PID_C] /\ g_timer_count' = g_timer_count
  BY <1>1 DEF Others
<1>3. Msgs(g_message_queues[PID_C]) \subseteq Msgs(g_message_queues'[PID_C])
  <2>1. Contents(g_message_queues[PID_C]) \subseteq Contents(g_message_queues'[PID_C])
    BY <1>1 DEF MailMoves
  <2>2. \A s : Msgs(s) = {e.msg : e \in Contents(s)}
    BY DEF Msgs, Contents
  <2> QED BY <2>1, <2>2
<1>4. pc[PID_C] = "sleep" => text'[hand[PID_C]] = text[hand[PID_C]]
  <2> SUFFICES ASSUME pc[PID_C] = "sleep" PROVE text'[hand[PID_C]] = text[hand[PID_C]]
    OBVIOUS
  <2>1. hand[PID_C] \in mem_blocks
    BY <1>1 DEF CInv
  <2>2. hand[PID_C] \notin held[p]
    <3>1. CASE g_delayed_msg_queue = << >>
      <4>1. hand[PID_C] \in Msgs(g_message_queues[PID_C])
        BY <1>1, <3>1 DEF SleepInv
      <4> QED BY <1>1, <2>1, <4>1, MailOnly
    <3>2. CASE g_delayed_msg_queue # << >>
      <4>1. g_delayed_msg_queue \in Seq(DelayedEnvelope)
        BY <1>1, Types DEF Sound
      <4>2. PICK i \in DOMAIN g_delayed_msg_queue : TRUE
        BY <3>2, <4>1, NotEmpty DEF Contents
      <4>3. hand[PID_C] \in Msgs(g_delayed_msg_queue)
        BY <1>1, <4>2 DEF SleepInv, Contents, Msgs
      <4> QED BY <1>1, <4>3, DelayedOnly
    <3> QED BY <3>1, <3>2
  <2> QED BY <2>1, <2>2 DEF Others
<1> QED
  BY <1>1, <1>2, <1>3, <1>4 DEF SleepInv, IsWakeup, Contents

\* A step of p that keeps p's part keeps all.
LEMMA OthersKept ==
  ASSUME StressInv, Sound', NEW p \in Procs, Others(p), MailMoves(p),
         p = PID_C => WakeupRead,
         p # PID_KCD => UNCHANGED <<entries, msg_buf>>,
         p # PID_CRT => UNCHANGED output,
         p # PID_SET_PRIO => UNCHANGED display_msg,
         p # PID_C => UNCHANGED <<c_message_queue, g_delayed_msg_queue, asleep>>,
         InputInv',
         p = PID_KCD => KcdInv',
         p = PID_CRT => CrtInv',
         p = PID_SET_PRIO => SetPrioInv',
         p = PID_A => AInv',
         p = PID_B => BInv',
         p = PID_C => CInv' /\ SleepInv'
  PROVE  StressInv'
<1>1. WakeupRead
  BY PidsDistinct DEF WakeupRead, Others
<1>2. Domains'
  BY DEF Others
<1>3. MailInv'
  BY <1>1, MailKept
<1>4. KcdInv' /\ CrtInv' /\ SetPrioInv'
  BY KcdKept, CrtKept, SetPrioKept
<1>5. AInv' /\ BInv'
  BY AKept, BKept
<1>6. CInv' /\ SleepInv'
  BY CKept, SleepKept
<1> QED
  BY <1>2, <1>3, <1>4, <1>5, <1>6 DEF StressInv, ProgramsInv

\* What the invariant is about.
observed ==
  <<g_message_queues, g_delayed_msg_queue, g_timer_count, held, pc, hand, display_msg, text,
    entries, msg_buf, output, inbuf, typed, c_message_queue, asleep>>

LEMMA NothingObserved ==
  ASSUME StressInv, Sound', UNCHANGED observed
  PROVE  StressInv'
<1>1. Domains' /\ InputInv' /\ CrtInv' /\ SetPrioInv' /\ AInv' /\ BInv' /\ CInv'
  BY DEF StressInv, ProgramsInv, Domains, InputInv, CrtInv, SetPrioInv, AInv, BInv, CInv,
         observed, HandOf, IsCommand, IsReport, Distinct, Contents
<1>2. MailInv' /\ SleepInv'
  BY DEF StressInv, ProgramsInv, MailInv, SleepInv, Expected, Registration, IsCommand,
         IsReport, IsWakeup, observed, Contents, Msgs
<1>3. KcdInv'
  BY DEF StressInv, ProgramsInv, KcdInv, Registration, ToServe, HandOf, observed, Contents,
         Msgs
<1> QED
  BY <1>1, <1>2, <1>3 DEF StressInv, ProgramsInv

-----------------------------------------------------------------------------
(* The calls of a program. *)

\* p goes from point `at` to point `then`.
Goes(p, at, then) == Caller = p /\ pc[p] = at /\ pc'[p] = then

\* p has b in its hand, or still what it had.
LEMMA OwnPointer ==
  ASSUME Domains, NEW p \in Procs, NEW at, NEW then, At(p, at), Goto(p, then),
         NEW b, UNCHANGED hand \/ Put(p, b)
  PROVE  /\ Goes(p, at, then)
         /\ DOMAIN pc' = Procs /\ DOMAIN hand' = Procs
         /\ \A r \in Procs \ {p} : pc'[r] = pc[r] /\ hand'[r] = hand[r]
         /\ Put(p, b) => hand'[p] = b
BY DEF Domains, At, Goto, Put, Goes

\* The mailboxes stand still.
LEMMA NoMail ==
  ASSUME NEW p \in Procs, UNCHANGED g_message_queues
  PROVE  MailMoves(p)
<1>1. \A r \in Procs : Contents(g_message_queues'[r]) = Contents(g_message_queues[r])
  BY DEF Contents
<1> QED
  BY <1>1 DEF MailMoves

\* A call that moves no block.
LEMMA QuietCall ==
  ASSUME Domains, Quiet, NEW p \in Procs, NEW at, NEW then, NEW b,
         At(p, at), Goto(p, then), UNCHANGED text, UNCHANGED hand \/ Put(p, b)
  PROVE  /\ Others(p) /\ MailMoves(p)
         /\ Goes(p, at, then)
         /\ Put(p, b) => hand'[p] = b
<1>1. Domains'
  BY OwnPointer DEF Domains, mem_blocks
<1>2. MailMoves(p)
  BY NoMail DEF Quiet
<1>3. Others(p)
  BY <1>1, OwnPointer DEF Others, Quiet
<1> QED
  BY <1>2, <1>3, OwnPointer

\* Program code between two calls, or release_processor().
LEMMA StepCall ==
  ASSUME Sound, Domains, NEW p \in Procs, NEW at, NEW then, NEW b,
         Step(p, at, then) \/ Yield(p, at, then),
         UNCHANGED text, UNCHANGED hand \/ Put(p, b)
  PROVE  /\ Sound' /\ Others(p) /\ MailMoves(p) /\ Quiet
         /\ Goes(p, at, then)
         /\ Put(p, b) => hand'[p] = b
<1>1. Sound' /\ Quiet
  BY QuietKernel DEF Step, Yield
<1>2. At(p, at) /\ Goto(p, then)
  BY DEF Step, Yield
<1> QED
  BY <1>1, <1>2, QuietCall

LEMMA RequestCall ==
  ASSUME StressInv, NEW p \in Procs, NEW at, NEW then, Request(p, at, then)
  PROVE  /\ Sound' /\ UNCHANGED <<g_message_queues, g_delayed_msg_queue, g_timer_count>>
         /\ UNCHANGED <<display_msg, text>>
         /\ \/ /\ UNCHANGED <<pc, hand, held>>
            \/ /\ Others(p) /\ MailMoves(p)
               /\ Goes(p, at, then)
               /\ hand'[p] \in mem_blocks \ held[p]
               /\ held'[p] = held[p] \cup {hand'[p]}
<1>1. Sound /\ Domains
  BY DEF StressInv, ProgramsInv
<1>2. /\ Sound' /\ Caller = p /\ pc[p] = at /\ UNCHANGED <<display_msg, text>>
      /\ UNCHANGED <<g_message_queues, g_delayed_msg_queue, g_timer_count>>
  BY <1>1, RequestKernel DEF Request, At
<1>3. CASE g_heap = << >>
  BY <1>1, <1>2, <1>3, RequestKernel DEF Request, Quiet
<1>4. CASE g_heap # << >>
  <2> DEFINE b == Head(g_heap)
  <2>1. Put(p, b) /\ Goto(p, then) /\ At(p, at)
    BY <1>4 DEF Request
  <2>2. /\ Holding(p, held[p] \cup {b}) /\ b \in mem_blocks /\ b \notin held[p]
    BY <1>1, <1>2, <1>4, RequestKernel DEF Request
  <2> HIDE DEF b
  <2>3. /\ Goes(p, at, then) /\ hand'[p] = b
        /\ DOMAIN pc' = Procs /\ DOMAIN hand' = Procs
        /\ \A r \in Procs \ {p} : pc'[r] = pc[r] /\ hand'[r] = hand[r]
    BY <1>1, <2>1, OwnPointer
  <2>4. Domains'
    BY <1>1, <1>2, <2>3 DEF Domains, mem_blocks
  <2>5. Others(p)
    BY <1>2, <2>2, <2>3, <2>4 DEF Others, Holding
  <2>6. MailMoves(p)
    BY <1>2, NoMail
  <2> QED BY <1>2, <2>2, <2>3, <2>5, <2>6 DEF Holding
<1> QED
  BY <1>3, <1>4

\* Block b has the text `content`, and the others have what they had.
Written(b, content) ==
  text'[b] = content /\ \A c \in mem_blocks \ {b} : text'[c] = text[c]

\* The texts after p has written `content` into block b, one that it holds.
LEMMA Writes ==
  ASSUME Domains, NEW p \in Procs, NEW b \in mem_blocks, b \in held[p],
         NEW content, IsMessage(content),
         text' = [text EXCEPT ![b] = content],
         DOMAIN pc' = Procs, DOMAIN hand' = Procs
  PROVE  Domains' /\ Written(b, content)
<1>1. text'[b] = content /\ \A c \in mem_blocks \ {b} : text'[c] = text[c]
  BY DEF Domains
<1>2. DOMAIN text' = mem_blocks
  BY DEF Domains
<1>3. \A c \in mem_blocks : IsMessage(text'[c])
  BY <1>1 DEF Domains
<1> QED
  BY <1>1, <1>2, <1>3 DEF Domains, mem_blocks, Written

LEMMA SendCall ==
  ASSUME StressInv, NEW p \in Procs, NEW at, NEW then, NEW to \in Procs,
         NEW content, IsMessage(content),
         Send(p, at, to, content, then)
  PROVE  /\ Sound' /\ Others(p) /\ Goes(p, at, then)
         /\ UNCHANGED <<g_delayed_msg_queue, display_msg>>
         /\ hand[p] \in mem_blocks /\ hand[p] \in held[p]
         /\ hand'[p] = NoBlock /\ held'[p] = held[p] \ {hand[p]}
         /\ Written(hand[p], content)
         /\ Posted(to, [msg |-> hand[p], m_send_pid |-> p])
<1> DEFINE b == hand[p]
<1>1. Sound /\ Domains
  BY DEF StressInv, ProgramsInv
<1>2. /\ Sound' /\ Caller = p /\ b \in held[p] /\ b \in mem_blocks
      /\ UNCHANGED <<g_delayed_msg_queue, g_timer_count, display_msg>>
      /\ Holding(p, held[p] \ {b})
      /\ Posted(to, [msg |-> b, m_send_pid |-> p])
  BY <1>1, SendKernel DEF Send, At
<1>3. At(p, at) /\ Put(p, NoBlock) /\ Goto(p, then) /\ text' = [text EXCEPT ![b] = content]
  BY DEF Send
<1> HIDE DEF b
<1>4. /\ Goes(p, at, then) /\ hand'[p] = NoBlock
      /\ DOMAIN pc' = Procs /\ DOMAIN hand' = Procs
      /\ \A r \in Procs \ {p} : pc'[r] = pc[r] /\ hand'[r] = hand[r]
  BY <1>1, <1>3, OwnPointer
<1>5. Domains' /\ Written(b, content)
  BY <1>1, <1>2, <1>3, <1>4, Writes
<1>6. Others(p)
  BY <1>2, <1>4, <1>5 DEF Others, Holding, Written
<1> QED
  BY <1>2, <1>4, <1>5, <1>6 DEF b, Holding

LEMMA ReleaseCall ==
  ASSUME StressInv, NEW p \in Procs, NEW at, NEW then, Release(p, at, then)
  PROVE  /\ Sound' /\ Others(p) /\ MailMoves(p) /\ Goes(p, at, then)
         /\ UNCHANGED <<g_message_queues, g_delayed_msg_queue, display_msg>>
         /\ hand[p] \in held[p]
         /\ hand'[p] = NoBlock /\ held'[p] = held[p] \ {hand[p]}
         /\ \A c \in mem_blocks \ {hand[p]} : text'[c] = text[c]
<1> DEFINE b == hand[p]
           content == Message(DEFAULT, [str |-> ""])
<1>1. Sound /\ Domains
  BY DEF StressInv, ProgramsInv
<1>2. /\ Sound' /\ Caller = p /\ b \in held[p] /\ b \in mem_blocks
      /\ UNCHANGED <<g_message_queues, g_delayed_msg_queue, g_timer_count, display_msg>>
      /\ Holding(p, held[p] \ {b})
  BY <1>1, ReleaseKernel DEF Release, Free, At
<1>3. At(p, at) /\ Put(p, NoBlock) /\ Goto(p, then) /\ text' = [text EXCEPT ![b] = content]
  BY DEF Release, Free
<1>4. IsMessage(content)
  BY DEF Message, IsMessage
<1> HIDE DEF b, content
<1>5. /\ Goes(p, at, then) /\ hand'[p] = NoBlock
      /\ DOMAIN pc' = Procs /\ DOMAIN hand' = Procs
      /\ \A r \in Procs \ {p} : pc'[r] = pc[r] /\ hand'[r] = hand[r]
  BY <1>1, <1>3, OwnPointer
<1>6. Domains' /\ \A c \in mem_blocks \ {b} : text'[c] = text[c]
  BY <1>1, <1>2, <1>3, <1>4, <1>5, Writes DEF Written
<1>7. Others(p)
  BY <1>2, <1>5, <1>6 DEF Others, Holding
<1>8. MailMoves(p)
  BY <1>2, NoMail
<1> QED
  BY <1>2, <1>5, <1>6, <1>7, <1>8 DEF b, Holding

\* Nobody is sent anything by a receive.
LEMMA ReadMail ==
  ASSUME NEW p \in Procs, NEW e, Read(p, e)
  PROVE  MailMoves(p)
<1>1. \A r \in Procs : r # p =>
        Contents(g_message_queues'[r]) = Contents(g_message_queues[r])
  BY DEF Read, Contents
<1> QED
  BY <1>1 DEF Read, MailMoves

\* One letter is sent.
LEMMA PostMail ==
  ASSUME NEW p \in Procs, NEW to \in Procs, NEW e, Posted(to, e), Expected(to, e)'
  PROVE  MailMoves(p)
<1>1. \A r \in Procs : r # to =>
        Contents(g_message_queues'[r]) = Contents(g_message_queues[r])
  BY DEF Posted, Contents
<1>2. Contents(g_message_queues'[to]) = Contents(g_message_queues[to]) \cup {e}
  BY DEF Posted
<1> QED
  BY <1>1, <1>2 DEF MailMoves

\* receive_message() in the middle of a program.
LEMMA ReceiveLetter ==
  ASSUME StressInv, NEW p \in Procs, Caller = p, ReceiveMessage, HasMail(p),
         NEW e, e = Mail(p)
  PROVE  /\ Sound' /\ UNCHANGED <<g_delayed_msg_queue, g_timer_count>>
         /\ Read(p, e) /\ MailMoves(p)
         /\ Holding(p, held[p] \cup ({e.msg} \ Notifications))
         /\ e.msg \in mem_blocks \/ e.msg \in Notifications
         /\ e.msg \in mem_blocks => e.msg \notin Notifications /\ e.msg \notin held[p]
         /\ Expected(p, e)
<1>1. Sound
  BY DEF StressInv
<1>2. g_message_queues[Caller] # << >> /\ e = Head(g_message_queues[Caller])
  BY DEF HasMail, Mail
<1>3. /\ Sound' /\ UNCHANGED <<g_delayed_msg_queue, g_timer_count>>
      /\ Read(p, e)
      /\ Holding(p, held[p] \cup ({e.msg} \ Notifications))
      /\ e.msg \in mem_blocks \/ e.msg \in Notifications
      /\ e.msg \in mem_blocks => e.msg \notin Notifications /\ e.msg \notin held[p]
  BY <1>1, <1>2, ReceiveKernel
<1>4. Expected(p, e)
  BY <1>3 DEF StressInv, ProgramsInv, MailInv, Read
<1> QED
  BY <1>3, <1>4, ReadMail

LEMMA ReceiveCall ==
  ASSUME StressInv, NEW p \in Procs \ {PID_KCD}, NEW at, NEW then, Receive(p, at, then)
  PROVE  /\ Sound' /\ Others(p) /\ MailMoves(p) /\ Goes(p, at, then)
         /\ UNCHANGED <<g_delayed_msg_queue, display_msg, text>>
         /\ Read(p, Mail(p)) /\ Expected(p, Mail(p))
         /\ hand'[p] = Mail(p).msg /\ hand'[p] \in mem_blocks \ held[p]
         /\ held'[p] = held[p] \cup {hand'[p]}
<1> DEFINE e == Mail(p)
           b == e.msg
<1>1. Sound /\ Domains
  BY DEF StressInv, ProgramsInv
<1>2. /\ Sound' /\ UNCHANGED <<g_delayed_msg_queue, g_timer_count, display_msg, text>>
      /\ Read(p, e) /\ MailMoves(p)
      /\ Holding(p, held[p] \cup ({e.msg} \ Notifications))
      /\ e.msg \in mem_blocks => e.msg \notin Notifications /\ e.msg \notin held[p]
      /\ Expected(p, e)
  BY ReceiveLetter DEF Receive, At
<1>3. At(p, at) /\ Put(p, b) /\ Goto(p, then)
  BY DEF Receive
<1>4. b \in mem_blocks
  BY <1>2 DEF Expected
<1>5. Holding(p, held[p] \cup {b}) /\ b \notin held[p]
  <2> HIDE DEF e
  <2>1. {b} \ Notifications = {b}
    BY <1>2, <1>4
  <2> QED BY <1>2, <1>4, <2>1
<1> HIDE DEF b, e
<1>6. /\ Goes(p, at, then) /\ hand'[p] = b
      /\ DOMAIN pc' = Procs /\ DOMAIN hand' = Procs
      /\ \A r \in Procs \ {p} : pc'[r] = pc[r] /\ hand'[r] = hand[r]
  BY <1>1, <1>3, OwnPointer
<1>7. Domains'
  BY <1>1, <1>2, <1>6 DEF Domains, mem_blocks
<1>8. Others(p)
  BY <1>2, <1>5, <1>6, <1>7 DEF Others, Holding
<1> QED
  BY <1>2, <1>4, <1>5, <1>6, <1>8 DEF b, e, Holding

\* A process waits for a message.
LEMMA ReceiveNothingCall ==
  ASSUME StressInv, NEW p \in Procs, NEW at, ReceiveNothing(p, at),
         UNCHANGED <<c_message_queue, asleep>>
  PROVE  StressInv'
<1>1. Caller = p /\ g_message_queues[Caller] = << >> /\ Sound
  BY DEF ReceiveNothing, At, HasMail, StressInv
<1>2. Sound' /\ Quiet
  BY <1>1, ReceiveKernel DEF ReceiveNothing
<1>3. UNCHANGED observed
  BY <1>2 DEF Quiet, observed, ReceiveNothing, procVars, locals, consoleVars, kcdVars
<1> QED
  BY <1>2, <1>3, NothingObserved

-----------------------------------------------------------------------------
(* What CRT, the priority command and KCD do that is no call like the above. *)

\* CRT prints the first text.
LEMMA PrintCall ==
  ASSUME StressInv, CrtPrint
  PROVE  /\ Sound' /\ Others(PID_CRT) /\ MailMoves(PID_CRT)
         /\ UNCHANGED <<g_message_queues, g_delayed_msg_queue, pc, hand, display_msg>>
         /\ Head(output) \in mem_blocks /\ Free(Head(output))
         /\ held'[PID_CRT] = held[PID_CRT] \ {Head(output)}
<1>1. PID_CRT \in Procs /\ Sound /\ Domains
  BY PidsDistinct DEF StressInv, ProgramsInv
<1> PICK b : b = Head(output)
  OBVIOUS
<1>2. Free(b) /\ Caller = PID_CRT /\ UNCHANGED <<pc, hand, display_msg>>
  BY DEF CrtPrint, At
<1>3. /\ Sound' /\ b \in mem_blocks /\ b \in held[PID_CRT]
      /\ UNCHANGED <<g_message_queues, g_delayed_msg_queue, g_timer_count>>
      /\ Holding(PID_CRT, held[PID_CRT] \ {b})
  BY <1>1, <1>2, ReleaseKernel DEF Free
<1>4. Domains' /\ \A c \in mem_blocks \ {b} : text'[c] = text[c]
  <2>1. IsMessage(Message(DEFAULT, [str |-> ""]))
    BY DEF IsMessage, Message
  <2>2. text' = [text EXCEPT ![b] = Message(DEFAULT, [str |-> ""])]
    BY <1>2 DEF Free
  <2>3. DOMAIN pc' = Procs /\ DOMAIN hand' = Procs
    BY <1>1, <1>2 DEF Domains
  <2> QED BY <1>1, <1>3, <2>1, <2>2, <2>3, Writes DEF Written
<1>5. Others(PID_CRT)
  BY <1>2, <1>3, <1>4 DEF Others, Holding
<1>6. MailMoves(PID_CRT)
  BY <1>1, <1>3, NoMail
<1> QED
  BY <1>2, <1>3, <1>5, <1>6 DEF Holding

\* What the type of the message in block b is changed to.
LEMMA Retyped ==
  ASSUME Domains, NEW b \in mem_blocks, NEW mtype, text' = [text EXCEPT ![b].mtype = mtype]
  PROVE  /\ text' = [text EXCEPT ![b] = Message(mtype, text[b].mtext)]
         /\ IsMessage(Message(mtype, text[b].mtext))
<1>1. text[b] = [mtype |-> text[b].mtype, mtext |-> text[b].mtext]
  BY DEF Domains, IsMessage, Message
<1>2. [text[b] EXCEPT !.mtype = mtype] = Message(mtype, text[b].mtext)
  <2> DEFINE m == text[b]
  <2>1. m = [mtype |-> m.mtype, mtext |-> m.mtext]
    BY <1>1
  <2> HIDE DEF m
  <2>2. [m EXCEPT !.mtype = mtype] = Message(mtype, m.mtext)
    BY <2>1 DEF Message
  <2> QED BY <2>2 DEF m
<1>3. text' = [text EXCEPT ![b] = [text[b] EXCEPT !.mtype = mtype]]
  OBVIOUS
<1>4. IsMessage(Message(mtype, text[b].mtext))
  BY DEF IsMessage, Message
<1> QED
  BY <1>2, <1>3, <1>4

\* The priority command looks at the line in its hand.
LEMMA CommandCall ==
  ASSUME StressInv, SetPrioCommand
  PROVE  /\ Sound' /\ Others(PID_SET_PRIO) /\ MailMoves(PID_SET_PRIO) /\ Quiet
         /\ UNCHANGED <<hand, display_msg, text>>
         /\ \E then \in {"release", "request"} : Goes(PID_SET_PRIO, "set", then)
<1> DEFINE p == PID_SET_PRIO
<1>1. p \in Procs /\ SetPrioInv /\ Sound /\ Domains
  BY PidsDistinct DEF StressInv, ProgramsInv
<1>2. At(p, "set") /\ UNCHANGED <<hand, display_msg, text>>
  BY DEF SetPrioCommand, locals
<1>3. \E then \in {"release", "request"} : Sound' /\ Quiet /\ Goto(p, then)
  <2>1. ASSUME NEW then \in {"release", "request"}, Step(p, "set", then)
        PROVE  Sound' /\ Quiet /\ Goto(p, then)
    BY <1>1, <2>1, QuietKernel DEF Step
  <2>2. ASSUME Command.legal, SetProcess(p, "set", Command.pid, Command.priority, "release"),
               ~ Step(p, "set", "release")
        PROVE  Sound' /\ Quiet /\ Goto(p, "release")
    <3>1. Command \in AllLines /\ Command.cmd = "%C"
      BY <1>1, <1>2 DEF SetPrioInv, IsCommand, Command, At
    <3>2. Command.pid \in Procs /\ Command.priority \in Int
      BY <2>2, <3>1, ProcessesAssumption
    <3>3. SetProcessPriority(Command.pid, Command.priority) /\ Goto(p, "release")
      BY <2>2 DEF SetProcess
    <3> QED BY <1>1, <3>2, <3>3, QuietKernel
  <2> QED BY <2>1, <2>2 DEF SetPrioCommand
<1>4. PICK then \in {"release", "request"} : Sound' /\ Quiet /\ Goto(p, then)
  BY <1>3
<1>5. Others(p) /\ MailMoves(p) /\ Goes(p, "set", then)
  BY <1>1, <1>2, <1>4, QuietCall
<1> QED
  BY <1>2, <1>4, <1>5

\* It requests a block for its error message.
LEMMA ErrorRequestCall ==
  ASSUME StressInv, SetPrioError, At(PID_SET_PRIO, "request")
  PROVE  /\ Sound' /\ UNCHANGED <<g_message_queues, g_delayed_msg_queue, g_timer_count>>
         /\ UNCHANGED <<hand, text>>
         /\ \/ UNCHANGED <<pc, display_msg, held>>
            \/ /\ Others(PID_SET_PRIO) /\ MailMoves(PID_SET_PRIO)
               /\ Goes(PID_SET_PRIO, "request", "display")
               /\ display_msg' \in mem_blocks \ held[PID_SET_PRIO]
               /\ held'[PID_SET_PRIO] = held[PID_SET_PRIO] \cup {display_msg'}
<1> DEFINE p == PID_SET_PRIO
<1>1. p \in Procs /\ Sound /\ Domains
  BY PidsDistinct DEF StressInv, ProgramsInv
<1>2. RequestMemoryBlock /\ Caller = p /\ pc[p] = "request" /\ UNCHANGED <<hand, text>>
  BY DEF SetPrioError, At
<1>3. Sound' /\ UNCHANGED <<g_message_queues, g_delayed_msg_queue, g_timer_count>>
  BY <1>1, <1>2, RequestKernel
<1>4. CASE g_heap = << >>
  <2>1. UNCHANGED <<pc, display_msg, held>>
    BY <1>1, <1>2, <1>4, RequestKernel DEF SetPrioError, At, Quiet
  <2> QED BY <1>2, <1>3, <2>1
<1>5. CASE g_heap # << >>
  <2> PICK b : b = Head(g_heap)
    OBVIOUS
  <2>1. display_msg' = b /\ Goto(p, "display") /\ At(p, "request")
    BY <1>2, <1>5 DEF SetPrioError, At
  <2>2. Holding(p, held[p] \cup {b}) /\ b \in mem_blocks /\ b \notin held[p]
    BY <1>1, <1>2, <1>5, RequestKernel
  <2>3. /\ Goes(p, "request", "display")
        /\ DOMAIN pc' = Procs /\ \A r \in Procs \ {p} : pc'[r] = pc[r]
    BY <1>1, <1>2, <2>1, OwnPointer
  <2>4. Others(p)
    BY <1>1, <1>2, <1>3, <2>2, <2>3 DEF Others, Holding, Domains, mem_blocks
  <2>5. MailMoves(p)
    BY <1>1, <1>3, NoMail
  <2> QED BY <1>2, <1>3, <2>1, <2>2, <2>3, <2>4, <2>5 DEF Holding
<1> QED
  BY <1>4, <1>5

\* And it sends the block to CRT.
LEMMA ErrorSendCall ==
  ASSUME StressInv, SetPrioError, At(PID_SET_PRIO, "display")
  PROVE  /\ Sound' /\ Others(PID_SET_PRIO) /\ MailMoves(PID_SET_PRIO)
         /\ Goes(PID_SET_PRIO, "display", "release")
         /\ UNCHANGED <<g_delayed_msg_queue, hand>>
         /\ display_msg \in mem_blocks /\ display_msg \in held[PID_SET_PRIO]
         /\ display_msg' = NoBlock
         /\ held'[PID_SET_PRIO] = held[PID_SET_PRIO] \ {display_msg}
         /\ Written(display_msg, Message(CRT_DISPLAY, text[display_msg].mtext))
         /\ Posted(PID_CRT, [msg |-> display_msg, m_send_pid |-> PID_SET_PRIO])
<1> DEFINE p == PID_SET_PRIO
<1>1. p \in Procs /\ PID_CRT \in Procs /\ PID_CRT # p /\ Sound /\ Domains
  BY PidsDistinct DEF StressInv, ProgramsInv
<1> PICK b : b = display_msg
  OBVIOUS
<1> PICK e : e = [msg |-> b, m_send_pid |-> p]
  OBVIOUS
<1> PICK content : content = Message(CRT_DISPLAY, text[b].mtext)
  OBVIOUS
<1>2. /\ SendMessage(PID_CRT, b) /\ Caller = p /\ pc[p] = "display" /\ UNCHANGED hand
      /\ text' = [text EXCEPT ![b].mtype = CRT_DISPLAY]
      /\ display_msg' = NoBlock /\ Goto(p, "release")
  BY DEF SetPrioError, At
<1>3. /\ Sound' /\ b \in held[p] /\ b \in mem_blocks
      /\ UNCHANGED <<g_delayed_msg_queue, g_timer_count>>
      /\ Holding(p, held[p] \ {b})
      /\ Posted(PID_CRT, [msg |-> b, m_send_pid |-> p])
  BY <1>1, <1>2, SendKernel
<1>4. /\ Goes(p, "display", "release")
      /\ DOMAIN pc' = Procs /\ \A r \in Procs \ {p} : pc'[r] = pc[r]
  BY <1>1, <1>2, OwnPointer
<1>5. Domains' /\ Written(b, content)
  <2>1. text' = [text EXCEPT ![b] = content] /\ IsMessage(content)
    BY <1>1, <1>2, <1>3, Retyped
  <2>2. DOMAIN hand' = Procs
    BY <1>1, <1>2 DEF Domains
  <2> QED BY <1>1, <1>3, <1>4, <2>1, <2>2, Writes
<1>6. Others(p)
  BY <1>2, <1>3, <1>4, <1>5 DEF Others, Holding, Written
<1>7. e.msg = b /\ Posted(PID_CRT, e)
  BY <1>3
<1>8. Expected(PID_CRT, e)'
  BY <1>3, <1>7, PidsDistinct DEF Expected, mem_blocks
<1>9. MailMoves(p)
  BY <1>1, <1>7, <1>8, PostMail
<1> QED
  BY <1>2, <1>3, <1>4, <1>5, <1>6, <1>9 DEF Holding

\* KCD takes a letter: it is notified, or it keeps a registration.
LEMMA KcdReceiveCall ==
  ASSUME StressInv, KcdReceive, NEW e, e = Mail(PID_KCD)
  PROVE  /\ Sound' /\ Others(PID_KCD) /\ MailMoves(PID_KCD)
         /\ UNCHANGED <<g_delayed_msg_queue, hand, display_msg, text>>
         /\ UNCHANGED <<msg_buf, inbuf, output, typed>>
         /\ Read(PID_KCD, e) /\ Expected(PID_KCD, e)
         /\ Holding(PID_KCD, held[PID_KCD] \cup ({e.msg} \ Notifications))
         /\ e.msg \in mem_blocks \/ e.msg \in Notifications
         /\ e.msg \in mem_blocks => e.msg \notin Notifications /\ e.msg \notin held[PID_KCD]
         /\ pc[PID_KCD] = "receive" /\ pc'[PID_KCD] \in {"receive", "getc"}
<1> DEFINE p == PID_KCD
<1>1. p \in Procs /\ Sound /\ Domains
  BY PidsDistinct DEF StressInv, ProgramsInv
<1>2. /\ Caller = p /\ HasMail(p) /\ ReceiveMessage
      /\ UNCHANGED <<hand, display_msg, text, msg_buf, inbuf, output, typed>>
  BY DEF KcdReceive, locals, At
<1>3. /\ Sound' /\ UNCHANGED <<g_delayed_msg_queue, g_timer_count>>
      /\ Read(p, e) /\ MailMoves(p)
      /\ Holding(p, held[p] \cup ({e.msg} \ Notifications))
      /\ e.msg \in mem_blocks \/ e.msg \in Notifications
      /\ e.msg \in mem_blocks => e.msg \notin Notifications /\ e.msg \notin held[p]
      /\ Expected(p, e)
  BY <1>1, <1>2, ReceiveLetter
<1>4. /\ pc[p] = "receive" /\ DOMAIN pc' = Procs /\ \A r \in Procs \ {p} : pc'[r] = pc[r]
      /\ pc'[p] \in {"receive", "getc"}
  BY <1>1 DEF KcdReceive, At, Goto, Domains
<1>5. Others(p)
  BY <1>1, <1>2, <1>3, <1>4 DEF Others, Holding, Domains, mem_blocks
<1> QED
  BY <1>2, <1>3, <1>4, <1>5

\* KCD forwards a line for the next of its registrations.
LEMMA ForwardTo ==
  ASSUME StressInv, pc[PID_KCD] = "forward", NEW i, i = Smallest(ToServe)
  PROVE  /\ i \in ToServe /\ entries[i] \in Contents(entries)
         /\ text[entries[i].msg].mtext.cmd = msg_buf.line.cmd
         /\ entries[i].m_send_pid \in {PID_A, PID_SET_PRIO}
         /\ entries[i].m_send_pid = PID_SET_PRIO => msg_buf.line.cmd = "%C"
<1>1. KcdInv /\ ToServe # {}
  BY DEF StressInv, ProgramsInv, KcdInv
<1>2. DOMAIN entries \subseteq Nat
  BY <1>1, LenProperties DEF KcdInv
<1>3. i \in ToServe
  BY <1>1, <1>2, SmallestExists DEF ToServe
<1>4. entries[i] \in Contents(entries) /\ text[entries[i].msg].mtext.cmd = msg_buf.line.cmd
  BY <1>3 DEF ToServe, Contents
<1> QED
  BY <1>1, <1>3, <1>4 DEF KcdInv, Registration

-----------------------------------------------------------------------------
(* One lemma per program. *)

LEMMA HandIs ==
  ASSUME NEW p
  PROVE  /\ hand[p] \in mem_blocks => HandOf(p) = {hand[p]}
         /\ hand'[p] \in mem_blocks => HandOf(p)' = {hand'[p]}
         /\ hand[p] = NoBlock => HandOf(p) = {}
         /\ hand'[p] = NoBlock => HandOf(p)' = {}
         /\ NoBlock \notin mem_blocks
BY DEF HandOf, mem_blocks, NoBlock

\* kcd_register for A and for the priority command.
LEMMA RegisterCall ==
  ASSUME StressInv, NEW p \in {PID_A, PID_SET_PRIO}, NEW prefix,
         p = PID_SET_PRIO => prefix = "%C",
         kcd_register(p, prefix, "receive")
  PROVE  /\ Sound' /\ UNCHANGED consoleVars
         /\ UNCHANGED <<g_delayed_msg_queue, display_msg>>
         /\ \/ UNCHANGED <<g_message_queues, g_timer_count, pc, hand, held, text>>
            \/ /\ Others(p) /\ MailMoves(p)
               /\ \/ /\ Goes(p, "register", "send_register")
                     /\ hand'[p] \in mem_blocks \ held[p]
                     /\ held'[p] = held[p] \cup {hand'[p]}
                  \/ /\ Goes(p, "send_register", "receive")
                     /\ hand[p] \in held[p] /\ hand'[p] = NoBlock
                     /\ held'[p] = held[p] \ {hand[p]}
<1>1. p \in Procs /\ p # PID_KCD
  BY PidsDistinct
<1>2. CASE Request(p, "register", "send_register")
  BY <1>1, <1>2, RequestCall DEF kcd_register
<1>3. CASE Send(p, "send_register", PID_KCD, Message(KCD_REG, [cmd |-> prefix]), "receive")
  <2> PICK content : content = Message(KCD_REG, [cmd |-> prefix])
    OBVIOUS
  <2> PICK e : e = [msg |-> hand[p], m_send_pid |-> p]
    OBVIOUS
  <2>1. IsMessage(content) /\ content.mtext.cmd = prefix
    BY DEF Message, IsMessage
  <2>2. Send(p, "send_register", PID_KCD, content, "receive")
    BY <1>3
  <2>3. PID_KCD \in Procs \ {p}
    BY <1>1, PidsDistinct
  <2>4. /\ Sound' /\ Others(p) /\ Goes(p, "send_register", "receive")
        /\ UNCHANGED <<g_delayed_msg_queue, display_msg>>
        /\ hand[p] \in mem_blocks /\ hand[p] \in held[p]
        /\ hand'[p] = NoBlock /\ held'[p] = held[p] \ {hand[p]}
        /\ Written(hand[p], content)
        /\ Posted(PID_KCD, [msg |-> hand[p], m_send_pid |-> p])
    BY <1>1, <2>1, <2>2, <2>3, SendCall
  <2>5. e.msg = hand[p] /\ e.m_send_pid = p /\ Posted(PID_KCD, e)
    BY <2>4
  <2>6. Registration(e)'
    BY <2>1, <2>4, <2>5 DEF Registration, Written
  <2>7. Expected(PID_KCD, e)'
    BY <2>6, PidsDistinct DEF Expected
  <2>8. MailMoves(p)
    BY <1>1, <2>3, <2>5, <2>7, PostMail
  <2> QED BY <2>4, <2>8, <1>3 DEF kcd_register
<1> QED
  BY <1>2, <1>3 DEF kcd_register

LEMMA AStep ==
  ASSUME StressInv, proc_A, UNCHANGED cVars
  PROVE  StressInv'
<1> USE DEF StressInv, ProgramsInv
<1>1. PID_A \in Procs /\ AInv /\ Sound /\ Domains /\ PID_A # PID_KCD /\ PID_B \in Procs \ {PID_A}
      /\ PID_A \in Procs \ {PID_KCD}
  BY PidsDistinct
<1>2. UNCHANGED <<c_message_queue, asleep>>
  BY DEF cVars
<1>3. ASSUME Sound', UNCHANGED consoleVars, UNCHANGED <<display_msg, g_delayed_msg_queue>>,
             \/ UNCHANGED <<g_message_queues, g_timer_count, pc, hand, held, text>>
             \/ Others(PID_A) /\ MailMoves(PID_A) /\ AInv'
      PROVE  StressInv'
  <2>1. UNCHANGED <<entries, msg_buf, output, inbuf, typed>>
    BY <1>3 DEF consoleVars, kcdVars
  <2>2. CASE UNCHANGED <<g_message_queues, g_timer_count, pc, hand, held, text>>
    <3>1. UNCHANGED observed
      BY <1>2, <1>3, <2>1, <2>2 DEF observed
    <3> QED BY <1>3, <3>1, NothingObserved
  <2>3. CASE Others(PID_A) /\ MailMoves(PID_A) /\ AInv'
    <3>1. InputInv'
      BY <2>1 DEF InputInv
    <3> QED BY <1>1, <1>2, <1>3, <2>1, <2>3, <3>1, OthersKept, PidsDistinct
  <2> QED BY <1>3, <2>2, <2>3
<1>4. CASE kcd_register(PID_A, "%Z", "receive")
  <2>1. /\ Sound' /\ UNCHANGED consoleVars
        /\ UNCHANGED <<g_delayed_msg_queue, display_msg>>
        /\ \/ UNCHANGED <<g_message_queues, g_timer_count, pc, hand, held, text>>
           \/ /\ Others(PID_A) /\ MailMoves(PID_A)
              /\ \/ /\ Goes(PID_A, "register", "send_register")
                    /\ hand'[PID_A] \in mem_blocks \ held[PID_A]
                    /\ held'[PID_A] = held[PID_A] \cup {hand'[PID_A]}
                 \/ /\ Goes(PID_A, "send_register", "receive")
                    /\ hand[PID_A] \in held[PID_A] /\ hand'[PID_A] = NoBlock
                    /\ held'[PID_A] = held[PID_A] \ {hand[PID_A]}
    BY <1>4, RegisterCall, PidsDistinct
  <2>2. ASSUME Goes(PID_A, "register", "send_register"),
               hand'[PID_A] \in mem_blocks \ held[PID_A],
               held'[PID_A] = held[PID_A] \cup {hand'[PID_A]}
        PROVE  AInv'
    BY <1>1, <2>2, HandIs DEF AInv, Goes
  <2>3. ASSUME Goes(PID_A, "send_register", "receive"),
               hand[PID_A] \in held[PID_A] /\ hand'[PID_A] = NoBlock,
               held'[PID_A] = held[PID_A] \ {hand[PID_A]}
        PROVE  AInv'
    BY <1>1, <2>3, HandIs DEF AInv, Goes
  <2> QED BY <1>3, <2>1, <2>2, <2>3
<1>5. CASE ReceiveNothing(PID_A, "receive")
  BY <1>1, <1>2, <1>5, ReceiveNothingCall
<1>6. CASE Receive(PID_A, "receive", "answer") /\ UNCHANGED consoleVars
  <2>1. /\ Sound' /\ Others(PID_A) /\ MailMoves(PID_A) /\ Goes(PID_A, "receive", "answer")
        /\ UNCHANGED <<g_delayed_msg_queue, display_msg>>
        /\ hand'[PID_A] \in mem_blocks \ held[PID_A]
        /\ held'[PID_A] = held[PID_A] \cup {hand'[PID_A]}
    BY <1>1, <1>6, ReceiveCall
  <2>2. AInv'
    BY <1>1, <2>1, HandIs DEF AInv, Goes
  <2> QED BY <1>3, <1>6, <2>1, <2>2
<1>7. CASE /\ Release(PID_A, "answer", IF IsStart THEN "request" ELSE "receive")
           /\ UNCHANGED consoleVars
  <2> DEFINE then == IF IsStart THEN "request" ELSE "receive"
  <2>1. then \in {"request", "receive"} /\ Release(PID_A, "answer", then)
    BY <1>7
  <2> HIDE DEF then
  <2>2. /\ Sound' /\ Others(PID_A) /\ MailMoves(PID_A) /\ Goes(PID_A, "answer", then)
        /\ UNCHANGED <<g_delayed_msg_queue, display_msg>>
        /\ hand[PID_A] \in held[PID_A]
        /\ hand'[PID_A] = NoBlock /\ held'[PID_A] = held[PID_A] \ {hand[PID_A]}
    BY <1>1, <2>1, ReleaseCall
  <2>3. AInv'
    BY <1>1, <2>1, <2>2, HandIs DEF AInv, Goes
  <2> QED BY <1>3, <1>7, <2>2, <2>3
<1>8. CASE Request(PID_A, "request", "send") /\ UNCHANGED consoleVars
  <2>1. /\ Sound' /\ UNCHANGED <<g_message_queues, g_delayed_msg_queue, g_timer_count>>
        /\ UNCHANGED <<display_msg, text>>
        /\ \/ /\ UNCHANGED <<pc, hand, held>>
           \/ /\ Others(PID_A) /\ MailMoves(PID_A)
              /\ Goes(PID_A, "request", "send")
              /\ hand'[PID_A] \in mem_blocks \ held[PID_A]
              /\ held'[PID_A] = held[PID_A] \cup {hand'[PID_A]}
    BY <1>1, <1>8, RequestCall
  <2>2. ASSUME Goes(PID_A, "request", "send"),
               hand'[PID_A] \in mem_blocks \ held[PID_A],
               held'[PID_A] = held[PID_A] \cup {hand'[PID_A]}
        PROVE  AInv'
    BY <1>1, <2>2, HandIs DEF AInv, Goes
  <2> QED BY <1>3, <1>8, <2>1, <2>2
<1>9. CASE /\ Yield(PID_A, "release_processor", "request") /\ UNCHANGED locals
           /\ UNCHANGED consoleVars
  <2>1. /\ Sound' /\ Others(PID_A) /\ MailMoves(PID_A) /\ Quiet
        /\ Goes(PID_A, "release_processor", "request")
    BY <1>1, <1>9, StepCall DEF locals
  <2>2. AInv'
    BY <1>1, <1>9, <2>1 DEF AInv, HandOf, Goes, locals, Quiet
  <2> QED BY <1>3, <1>9, <2>1, <2>2 DEF locals, Quiet
<1>10. CASE /\ Send(PID_A, "send", PID_B, Message(COUNT_REPORT, [num |-> num]),
                    "release_processor")
            /\ UNCHANGED consoleVars
  <2> PICK content : content = Message(COUNT_REPORT, [num |-> num])
    OBVIOUS
  <2> PICK e : e = [msg |-> hand[PID_A], m_send_pid |-> PID_A]
    OBVIOUS
  <2>1. IsMessage(content) /\ content.mtype = COUNT_REPORT
    BY DEF Message, IsMessage
  <2>2. Send(PID_A, "send", PID_B, content, "release_processor")
    BY <1>10
  <2>3. /\ Sound' /\ Others(PID_A) /\ Goes(PID_A, "send", "release_processor")
        /\ UNCHANGED <<g_delayed_msg_queue, display_msg>>
        /\ hand[PID_A] \in mem_blocks /\ hand[PID_A] \in held[PID_A]
        /\ hand'[PID_A] = NoBlock /\ held'[PID_A] = held[PID_A] \ {hand[PID_A]}
        /\ Written(hand[PID_A], content)
        /\ Posted(PID_B, [msg |-> hand[PID_A], m_send_pid |-> PID_A])
    BY <1>1, <2>1, <2>2, SendCall
  <2>4. e.msg = hand[PID_A] /\ Posted(PID_B, e)
    BY <2>3
  <2>5. Expected(PID_B, e)'
    BY <2>1, <2>3, <2>4, PidsDistinct DEF Expected, IsReport, mem_blocks, Written
  <2>6. MailMoves(PID_A)
    BY <1>1, <2>4, <2>5, PostMail
  <2>7. AInv'
    BY <1>1, <2>3, HandIs DEF AInv, Goes
  <2> QED BY <1>3, <1>10, <2>3, <2>6, <2>7
<1> QED
  BY <1>4, <1>5, <1>6, <1>7, <1>8, <1>9, <1>10 DEF proc_A

LEMMA BStep ==
  ASSUME StressInv, proc_B, UNCHANGED stressVars
  PROVE  StressInv'
<1>1. /\ PID_B \in Procs \ {PID_KCD} /\ PID_B # PID_C /\ PID_C \in Procs /\ PID_C # PID_KCD
      /\ BInv /\ Sound /\ Domains
  BY PidsDistinct DEF StressInv, ProgramsInv
<1>2. UNCHANGED <<c_message_queue, asleep>>
  BY DEF stressVars, cVars
<1>3. ASSUME Sound', UNCHANGED consoleVars, UNCHANGED <<display_msg, g_delayed_msg_queue>>,
             Others(PID_B), MailMoves(PID_B), BInv'
      PROVE  StressInv'
  <2>1. UNCHANGED <<entries, msg_buf, output, inbuf, typed>>
    BY <1>3 DEF consoleVars, kcdVars
  <2>2. InputInv'
    BY <2>1 DEF InputInv, StressInv, ProgramsInv
  <2> QED BY <1>1, <1>2, <1>3, <2>1, <2>2, OthersKept, PidsDistinct
<1>4. CASE ReceiveNothing(PID_B, "receive")
  BY <1>1, <1>2, <1>4, ReceiveNothingCall
<1>5. CASE Receive(PID_B, "receive", "send") /\ UNCHANGED consoleVars
  <2>1. /\ Sound' /\ Others(PID_B) /\ MailMoves(PID_B) /\ Goes(PID_B, "receive", "send")
        /\ UNCHANGED <<g_delayed_msg_queue, display_msg, text>>
        /\ Expected(PID_B, Mail(PID_B))
        /\ hand'[PID_B] = Mail(PID_B).msg /\ hand'[PID_B] \in mem_blocks \ held[PID_B]
        /\ held'[PID_B] = held[PID_B] \cup {hand'[PID_B]}
    BY <1>1, <1>5, ReceiveCall
  <2>2. IsReport(hand[PID_B])'
    <3>1. IsReport(Mail(PID_B).msg)
      BY <2>1 DEF Expected
    <3>2. text[hand'[PID_B]].mtype = COUNT_REPORT
      BY <2>1, <3>1 DEF IsReport
    <3> QED BY <2>1, <3>2 DEF IsReport
  <2>3. BInv'
    BY <1>1, <2>1, <2>2, HandIs DEF BInv, Goes
  <2> QED BY <1>3, <1>5, <2>1, <2>3
<1>6. CASE /\ At(PID_B, "send")
           /\ Send(PID_B, "send", PID_C, text[hand[PID_B]], "receive")
           /\ UNCHANGED consoleVars
  <2> PICK content : content = text[hand[PID_B]]
    OBVIOUS
  <2> PICK e : e = [msg |-> hand[PID_B], m_send_pid |-> PID_B]
    OBVIOUS
  <2>1. hand[PID_B] \in mem_blocks /\ IsReport(hand[PID_B])
    BY <1>1, <1>6 DEF BInv, At
  <2>2. IsMessage(content) /\ content.mtype = COUNT_REPORT
    BY <1>1, <2>1 DEF Domains, IsReport
  <2>3. Send(PID_B, "send", PID_C, content, "receive")
    BY <1>6
  <2>4. /\ Sound' /\ Others(PID_B) /\ Goes(PID_B, "send", "receive")
        /\ UNCHANGED <<g_delayed_msg_queue, display_msg>>
        /\ hand[PID_B] \in mem_blocks /\ hand[PID_B] \in held[PID_B]
        /\ hand'[PID_B] = NoBlock /\ held'[PID_B] = held[PID_B] \ {hand[PID_B]}
        /\ Written(hand[PID_B], content)
        /\ Posted(PID_C, [msg |-> hand[PID_B], m_send_pid |-> PID_B])
    BY <1>1, <2>2, <2>3, SendCall
  <2>5. e.msg = hand[PID_B] /\ Posted(PID_C, e)
    BY <2>4
  <2>6. Expected(PID_C, e)'
    BY <1>1, <2>2, <2>4, <2>5, PidsDistinct DEF Expected, IsReport, mem_blocks, Written
  <2>7. MailMoves(PID_B)
    BY <1>1, <2>5, <2>6, PostMail
  <2>8. BInv'
    BY <1>1, <2>4, HandIs DEF BInv, Goes
  <2> QED BY <1>3, <1>6, <2>4, <2>7, <2>8
<1> QED
  BY <1>4, <1>5, <1>6 DEF proc_B

LEMMA CrtStep ==
  ASSUME StressInv, proc_crt, UNCHANGED stressVars
  PROVE  StressInv'
<1>1. /\ PID_CRT \in Procs \ {PID_KCD} /\ CrtInv /\ Sound /\ Domains
  BY PidsDistinct DEF StressInv, ProgramsInv
<1>2. UNCHANGED <<c_message_queue, asleep>>
  BY DEF stressVars, cVars
<1>3. ASSUME Sound', UNCHANGED <<kcdVars, typed>>, UNCHANGED <<display_msg, g_delayed_msg_queue>>,
             Others(PID_CRT), MailMoves(PID_CRT), CrtInv'
      PROVE  StressInv'
  <2>1. UNCHANGED <<entries, msg_buf, inbuf, typed>>
    BY <1>3 DEF kcdVars
  <2>2. InputInv'
    BY <2>1 DEF InputInv, StressInv, ProgramsInv
  <2> QED BY <1>1, <1>2, <1>3, <2>1, <2>2, OthersKept, PidsDistinct
<1>4. CASE ReceiveNothing(PID_CRT, "receive")
  BY <1>1, <1>2, <1>4, ReceiveNothingCall
<1>5. CASE CrtReceive /\ UNCHANGED <<kcdVars, typed>>
  <2>1. /\ Sound' /\ Others(PID_CRT) /\ MailMoves(PID_CRT) /\ Goes(PID_CRT, "receive", "print")
        /\ UNCHANGED <<g_delayed_msg_queue, display_msg, text>>
        /\ hand'[PID_CRT] = Mail(PID_CRT).msg
        /\ hand'[PID_CRT] \in mem_blocks \ held[PID_CRT]
        /\ held'[PID_CRT] = held[PID_CRT] \cup {hand'[PID_CRT]}
    BY <1>1, <1>5, ReceiveCall DEF CrtReceive
  <2>2. PICK b \in mem_blocks : b = hand'[PID_CRT]
    BY <2>1
  <2>3. output' = Append(output, b) /\ output \in Seq(mem_blocks) /\ Distinct(output)
        /\ b \notin Contents(output)
    BY <1>1, <1>5, <2>1, <2>2 DEF CrtReceive, CrtInv
  <2>4. output' \in Seq(mem_blocks) /\ Contents(output') = Contents(output) \cup {b}
        /\ Distinct(output')
    BY <2>3, AppendElements, AppendProperties
  <2>5. CrtInv'
    BY <1>1, <2>1, <2>2, <2>4 DEF CrtInv, Goes, Distinct, Contents, mem_blocks
  <2> QED BY <1>3, <1>5, <2>1, <2>5
<1>6. CASE CrtPrint /\ UNCHANGED <<kcdVars, typed>>
  <2> PICK b : b = Head(output)
    OBVIOUS
  <2>1. /\ Sound' /\ Others(PID_CRT) /\ MailMoves(PID_CRT)
        /\ UNCHANGED <<g_message_queues, g_delayed_msg_queue, pc, hand, display_msg>>
        /\ b \in mem_blocks /\ held'[PID_CRT] = held[PID_CRT] \ {b}
    BY <1>6, PrintCall
  <2>2. output' \in Seq(mem_blocks) /\ Distinct(output') /\ Contents(output') = Contents(output) \ {b}
    <3>1. output \in Seq(mem_blocks) /\ output # << >> /\ Distinct(output)
      BY <1>1, <1>6 DEF CrtInv, CrtPrint
    <3>2. output' = Tail(output)
      BY <1>6 DEF CrtPrint
    <3> QED BY <3>1, <3>2, TailElements, HeadTailProperties
  <2>3. pc[PID_CRT] = "print"
    BY <1>6 DEF CrtPrint, At
  <2>4. CrtInv'
    BY <1>1, <2>1, <2>2, <2>3 DEF CrtInv, Distinct, Contents, mem_blocks
  <2> QED BY <1>3, <1>6, <2>1, <2>4
<1>7. CASE CrtWait /\ UNCHANGED <<kcdVars, typed>>
  <2>1. Step(PID_CRT, "print", "receive") /\ UNCHANGED <<hand, display_msg, text, output>>
    BY <1>7 DEF CrtWait, locals
  <2>2. /\ Sound' /\ Others(PID_CRT) /\ MailMoves(PID_CRT) /\ Quiet
        /\ Goes(PID_CRT, "print", "receive")
    BY <1>1, <2>1, StepCall
  <2>3. CrtInv'
    BY <1>1, <2>1, <2>2 DEF CrtInv, Goes, Quiet, Distinct, Contents
  <2> QED BY <1>3, <1>7, <2>1, <2>2, <2>3 DEF Quiet
<1> QED
  BY <1>4, <1>5, <1>6, <1>7 DEF proc_crt

LEMMA SetPrioStep ==
  ASSUME StressInv, proc_set_prio, UNCHANGED stressVars
  PROVE  StressInv'
<1> DEFINE p == PID_SET_PRIO
<1>1. /\ p \in Procs /\ p \in Procs \ {PID_KCD} /\ PID_CRT \in Procs /\ PID_CRT # p
      /\ SetPrioInv /\ Sound /\ Domains
  BY PidsDistinct DEF StressInv, ProgramsInv
<1>2. UNCHANGED <<c_message_queue, asleep>>
  BY DEF stressVars, cVars
<1>3. ASSUME Sound', UNCHANGED consoleVars, UNCHANGED g_delayed_msg_queue,
             \/ UNCHANGED <<g_message_queues, g_timer_count, pc, hand, held, text, display_msg>>
             \/ Others(p) /\ MailMoves(p) /\ SetPrioInv'
      PROVE  StressInv'
  <2>1. UNCHANGED <<entries, msg_buf, output, inbuf, typed>>
    BY <1>3 DEF consoleVars, kcdVars
  <2>2. CASE UNCHANGED <<g_message_queues, g_timer_count, pc, hand, held, text, display_msg>>
    <3>1. UNCHANGED observed
      BY <1>2, <1>3, <2>1, <2>2 DEF observed
    <3> QED BY <1>3, <3>1, NothingObserved
  <2>3. CASE Others(p) /\ MailMoves(p) /\ SetPrioInv'
    <3>1. InputInv'
      BY <2>1 DEF InputInv, StressInv, ProgramsInv
    <3> QED BY <1>1, <1>2, <1>3, <2>1, <2>3, <3>1, OthersKept, PidsDistinct
  <2> QED BY <1>3, <2>2, <2>3
<1>4. CASE kcd_register(p, "%C", "receive")
  <2>1. /\ Sound' /\ UNCHANGED consoleVars
        /\ UNCHANGED <<g_delayed_msg_queue, display_msg>>
        /\ \/ UNCHANGED <<g_message_queues, g_timer_count, pc, hand, held, text>>
           \/ /\ Others(p) /\ MailMoves(p)
              /\ \/ /\ Goes(p, "register", "send_register")
                    /\ hand'[p] \in mem_blocks \ held[p]
                    /\ held'[p] = held[p] \cup {hand'[p]}
                 \/ /\ Goes(p, "send_register", "receive")
                    /\ hand[p] \in held[p] /\ hand'[p] = NoBlock
                    /\ held'[p] = held[p] \ {hand[p]}
    BY <1>4, RegisterCall, PidsDistinct
  <2>2. ASSUME Goes(p, "register", "send_register"),
               hand'[p] \in mem_blocks \ held[p],
               held'[p] = held[p] \cup {hand'[p]}
        PROVE  SetPrioInv'
    BY <1>1, <2>1, <2>2, HandIs DEF SetPrioInv, Goes
  <2>3. ASSUME Goes(p, "send_register", "receive"),
               hand[p] \in held[p] /\ hand'[p] = NoBlock,
               held'[p] = held[p] \ {hand[p]}
        PROVE  SetPrioInv'
    BY <1>1, <2>1, <2>3, HandIs DEF SetPrioInv, Goes
  <2> QED BY <1>3, <2>1, <2>2, <2>3
<1>5. CASE ReceiveNothing(p, "receive")
  BY <1>1, <1>2, <1>5, ReceiveNothingCall
<1>6. CASE Receive(p, "receive", "set") /\ UNCHANGED consoleVars
  <2>1. /\ Sound' /\ Others(p) /\ MailMoves(p) /\ Goes(p, "receive", "set")
        /\ UNCHANGED <<g_delayed_msg_queue, display_msg, text>>
        /\ Expected(p, Mail(p))
        /\ hand'[p] = Mail(p).msg /\ hand'[p] \in mem_blocks \ held[p]
        /\ held'[p] = held[p] \cup {hand'[p]}
    BY <1>1, <1>6, ReceiveCall
  <2>2. IsCommand(hand[p])'
    <3>1. IsCommand(Mail(p).msg)
      BY <2>1 DEF Expected
    <3> QED BY <2>1, <3>1 DEF IsCommand
  <2>3. SetPrioInv'
    BY <1>1, <2>1, <2>2, HandIs DEF SetPrioInv, Goes
  <2> QED BY <1>3, <1>6, <2>1, <2>3
<1>7. CASE SetPrioCommand /\ UNCHANGED consoleVars
  <2>1. /\ Sound' /\ Others(p) /\ MailMoves(p) /\ Quiet
        /\ UNCHANGED <<hand, display_msg, text>>
        /\ \E then \in {"release", "request"} : Goes(p, "set", then)
    BY <1>7, CommandCall
  <2>2. SetPrioInv'
    BY <1>1, <2>1, HandIs DEF SetPrioInv, Goes, Quiet
  <2> QED BY <1>3, <1>7, <2>1, <2>2 DEF Quiet
<1>8. CASE SetPrioError /\ UNCHANGED consoleVars /\ At(p, "request")
  <2>1. /\ Sound' /\ UNCHANGED <<g_message_queues, g_delayed_msg_queue, g_timer_count>>
        /\ UNCHANGED <<hand, text>>
        /\ \/ UNCHANGED <<pc, display_msg, held>>
           \/ /\ Others(p) /\ MailMoves(p)
              /\ Goes(p, "request", "display")
              /\ display_msg' \in mem_blocks \ held[p]
              /\ held'[p] = held[p] \cup {display_msg'}
    BY <1>8, ErrorRequestCall
  <2>2. CASE UNCHANGED <<pc, display_msg, held>>
    BY <1>3, <1>8, <2>1, <2>2
  <2>3. CASE /\ Others(p) /\ MailMoves(p)
             /\ Goes(p, "request", "display")
             /\ display_msg' \in mem_blocks \ held[p]
             /\ held'[p] = held[p] \cup {display_msg'}
    <3>1. SetPrioInv'
      BY <1>1, <2>1, <2>3, HandIs DEF SetPrioInv, Goes
    <3> QED BY <1>3, <1>8, <2>1, <2>3, <3>1
  <2> QED BY <2>1, <2>2, <2>3
<1>9. CASE SetPrioError /\ UNCHANGED consoleVars /\ At(p, "display")
  <2>1. /\ Sound' /\ Others(p) /\ MailMoves(p) /\ Goes(p, "display", "release")
        /\ UNCHANGED <<g_delayed_msg_queue, hand>>
        /\ display_msg \in mem_blocks /\ display_msg' = NoBlock
        /\ held'[p] = held[p] \ {display_msg}
    BY <1>9, ErrorSendCall
  <2>2. SetPrioInv'
    BY <1>1, <2>1, HandIs DEF SetPrioInv, Goes
  <2> QED BY <1>3, <1>9, <2>1, <2>2
<1>10. CASE Release(p, "release", "receive") /\ UNCHANGED consoleVars
  <2>1. /\ Sound' /\ Others(p) /\ MailMoves(p) /\ Goes(p, "release", "receive")
        /\ UNCHANGED <<g_delayed_msg_queue, display_msg>>
        /\ hand[p] \in held[p]
        /\ hand'[p] = NoBlock /\ held'[p] = held[p] \ {hand[p]}
    BY <1>1, <1>10, ReleaseCall
  <2>2. SetPrioInv'
    BY <1>1, <2>1, HandIs DEF SetPrioInv, Goes
  <2> QED BY <1>3, <1>10, <2>1, <2>2
<1>11. SetPrioError => At(p, "request") \/ At(p, "display")
  BY DEF SetPrioError
<1> QED
  BY <1>4, <1>5, <1>6, <1>7, <1>8, <1>9, <1>10, <1>11 DEF proc_set_prio

\* What KCD knows of its entries depends on the entries and their texts.
LEMMA EntriesKept ==
  ASSUME StressInv, UNCHANGED entries, \A b \in Msgs(entries) : text'[b] = text[b]
  PROVE  /\ entries' \in Seq(Envelope) /\ Msgs(entries') = Msgs(entries)
         /\ \A e \in Contents(entries') : (e.msg \in mem_blocks /\ Registration(e))'
<1>1. KcdInv
  BY DEF StressInv, ProgramsInv
<1>2. \A e \in Contents(entries) : e.msg \in Msgs(entries)
  BY DEF Contents, Msgs
<1>3. /\ entries' \in Seq(Envelope) /\ Msgs(entries') = Msgs(entries)
      /\ Contents(entries') = Contents(entries)
  BY <1>1 DEF KcdInv, Contents, Msgs
<1>4. \A e \in Contents(entries) : (e.msg \in mem_blocks /\ Registration(e))'
  BY <1>1, <1>2 DEF KcdInv, Registration, mem_blocks
<1> QED
  BY <1>3, <1>4

LEMMA KcdStep ==
  ASSUME StressInv, proc_kcd, UNCHANGED stressVars
  PROVE  StressInv'
<1> DEFINE p == PID_KCD
<1>1. p \in Procs /\ KcdInv /\ InputInv /\ Sound /\ Domains
  BY PidsDistinct DEF StressInv, ProgramsInv
<1>2. UNCHANGED <<c_message_queue, asleep>>
  BY DEF stressVars, cVars
<1>3. ASSUME Sound', UNCHANGED <<output, typed, display_msg, g_delayed_msg_queue>>, InputInv',
             Others(p), MailMoves(p), KcdInv'
      PROVE  StressInv'
  BY <1>1, <1>2, <1>3, OthersKept, PidsDistinct
<1>4. CASE ReceiveNothing(p, "receive")
  BY <1>1, <1>2, <1>4, ReceiveNothingCall
<1>5. CASE KcdReceive
  <2> PICK e : e = Mail(p)
    OBVIOUS
  <2>1. /\ Sound' /\ Others(p) /\ MailMoves(p)
        /\ UNCHANGED <<g_delayed_msg_queue, hand, display_msg, text>>
        /\ UNCHANGED <<msg_buf, inbuf, output, typed>>
        /\ Read(p, e) /\ Expected(p, e)
        /\ Holding(p, held[p] \cup ({e.msg} \ Notifications))
        /\ e.msg \in mem_blocks \/ e.msg \in Notifications
        /\ e.msg \in mem_blocks => e.msg \notin Notifications /\ e.msg \notin held[p]
        /\ pc[p] = "receive" /\ pc'[p] \in {"receive", "getc"}
    BY <1>5, KcdReceiveCall
  <2>2. hand'[p] = NoBlock
    BY <1>1, <2>1 DEF KcdInv
  <2>3. InputInv'
    BY <1>1, <2>1 DEF InputInv
  <2>4. CASE e.msg \in Notifications
    <3>1. UNCHANGED entries /\ held'[p] = held[p]
      BY <1>5, <2>1, <2>4 DEF KcdReceive, Holding
    <3>2. /\ entries' \in Seq(Envelope) /\ Msgs(entries') = Msgs(entries)
          /\ \A c \in Contents(entries') : (c.msg \in mem_blocks /\ Registration(c))'
      BY <2>1, <3>1, EntriesKept
    <3>3. KcdInv'
      BY <1>1, <2>1, <2>2, <3>1, <3>2, HandIs DEF KcdInv
    <3> QED BY <1>3, <2>1, <2>3, <3>3
  <2>5. CASE e.msg \notin Notifications
    <3>1. /\ entries' = Append(entries, e) /\ UNCHANGED pc /\ held'[p] = held[p] \cup {e.msg}
          /\ e.msg \in mem_blocks /\ e \in Envelope /\ entries \in Seq(Envelope)
      BY <1>1, <1>5, <2>1, <2>5 DEF KcdReceive, KcdInv, Holding, Read
    <3>2. /\ entries' \in Seq(Envelope)
          /\ Contents(entries') = Contents(entries) \cup {e}
          /\ Msgs(entries') = Msgs(entries) \cup {e.msg}
      BY <3>1, AppendElements, AppendProperties
    <3>3. Registration(e)
      BY <2>1, <3>1 DEF Expected
    <3>4. \A c \in Contents(entries') : (c.msg \in mem_blocks /\ Registration(c))'
      BY <1>1, <2>1, <3>1, <3>2, <3>3 DEF KcdInv, Registration, mem_blocks
    <3>5. KcdInv'
      BY <1>1, <2>1, <2>2, <3>1, <3>2, <3>4, HandIs DEF KcdInv
    <3> QED BY <1>3, <2>1, <2>3, <3>5
  <2> QED BY <2>4, <2>5
<1>6. CASE KcdGetc
  <2>1. UNCHANGED <<hand, display_msg, text, entries, output, typed>>
    BY <1>6 DEF KcdGetc, locals
  <2>2. PICK then \in {"receive", "dispatch"} : Step(p, "getc", then)
    BY <1>6 DEF KcdGetc
  <2>3. Sound' /\ Others(p) /\ MailMoves(p) /\ Quiet /\ Goes(p, "getc", then)
    BY <1>1, <2>1, <2>2, StepCall
  <2>4. /\ entries' \in Seq(Envelope) /\ Msgs(entries') = Msgs(entries)
        /\ \A c \in Contents(entries') : (c.msg \in mem_blocks /\ Registration(c))'
    BY <2>1, EntriesKept
  <2>5. hand'[p] = NoBlock /\ held'[p] = Msgs(entries)
    BY <1>1, <2>1, <2>3, HandIs DEF KcdInv, Goes, Quiet
  <2>6. CASE inbuf = << >>
    <3>1. UNCHANGED <<msg_buf, inbuf>> /\ Step(p, "getc", "receive")
      BY <1>6, <2>6 DEF KcdGetc
    <3>2. pc'[p] = "receive"
      BY <1>1, <2>1, <3>1, StepCall DEF Goes
    <3>3. KcdInv'
      BY <1>1, <2>3, <2>4, <2>5, <3>1, <3>2, HandIs DEF KcdInv
    <3>4. InputInv'
      BY <1>1, <2>1, <3>1 DEF InputInv
    <3> QED BY <1>3, <2>1, <2>3, <3>3, <3>4 DEF Quiet
  <2>7. CASE inbuf # << >>
    <3>1. /\ msg_buf' = [line |-> Head(inbuf), cur |-> 1, sent_to |-> {}]
          /\ inbuf' = Tail(inbuf) /\ inbuf \in Seq(AllLines)
          /\ Step(p, "getc", "dispatch")
      BY <1>1, <1>6, <2>7 DEF KcdGetc, InputInv
    <3>2. Head(inbuf) \in AllLines /\ inbuf' \in Seq(AllLines)
      BY <2>7, <3>1, HeadTailProperties
    <3>3. pc'[p] = "dispatch"
      BY <1>1, <2>1, <3>1, StepCall DEF Goes
    <3>4. KcdInv'
      BY <1>1, <2>3, <2>4, <2>5, <3>1, <3>2, <3>3, HandIs DEF KcdInv
    <3>5. InputInv'
      BY <1>1, <2>1, <3>2 DEF InputInv
    <3> QED BY <1>3, <2>1, <2>3, <3>4, <3>5 DEF Quiet
  <2> QED BY <2>6, <2>7
<1>7. CASE /\ ToServe = {} /\ Step(p, "dispatch", "getc") /\ msg_buf' = NoLine
           /\ UNCHANGED <<locals, entries, inbuf, uart_iproc_notif_in, output, typed>>
  <2>1. UNCHANGED <<hand, display_msg, text, entries, inbuf, output, typed>>
    BY <1>7 DEF locals
  <2>2. Sound' /\ Others(p) /\ MailMoves(p) /\ Quiet /\ Goes(p, "dispatch", "getc")
    BY <1>1, <1>7, <2>1, StepCall
  <2>3. /\ entries' \in Seq(Envelope) /\ Msgs(entries') = Msgs(entries)
        /\ \A c \in Contents(entries') : (c.msg \in mem_blocks /\ Registration(c))'
    BY <2>1, EntriesKept
  <2>4. hand'[p] = NoBlock /\ held'[p] = Msgs(entries)
    BY <1>1, <2>1, <2>2, HandIs DEF KcdInv, Goes, Quiet
  <2>5. KcdInv'
    BY <1>1, <1>7, <2>2, <2>3, <2>4, HandIs DEF KcdInv, Goes, NoLine
  <2>6. InputInv'
    BY <1>1, <2>1 DEF InputInv
  <2> QED BY <1>3, <2>1, <2>2, <2>5, <2>6 DEF Quiet
<1>8. CASE ToServe # {} /\ Request(p, "dispatch", "forward") /\ UNCHANGED consoleVars
  <2>1. /\ Sound' /\ UNCHANGED <<g_message_queues, g_delayed_msg_queue, g_timer_count>>
        /\ UNCHANGED <<display_msg, text>>
        /\ \/ /\ UNCHANGED <<pc, hand, held>>
           \/ /\ Others(p) /\ MailMoves(p)
              /\ Goes(p, "dispatch", "forward")
              /\ hand'[p] \in mem_blocks \ held[p]
              /\ held'[p] = held[p] \cup {hand'[p]}
    BY <1>1, <1>8, RequestCall
  <2>2. UNCHANGED <<entries, msg_buf, inbuf, output, typed>>
    BY <1>8 DEF consoleVars, kcdVars
  <2>3. CASE UNCHANGED <<pc, hand, held>>
    <3>1. UNCHANGED observed
      BY <1>2, <2>1, <2>2, <2>3 DEF observed
    <3> QED BY <2>1, <3>1, NothingObserved
  <2>4. CASE /\ Others(p) /\ MailMoves(p)
             /\ Goes(p, "dispatch", "forward")
             /\ hand'[p] \in mem_blocks \ held[p]
             /\ held'[p] = held[p] \cup {hand'[p]}
    <3>1. /\ entries' \in Seq(Envelope) /\ Msgs(entries') = Msgs(entries)
          /\ \A c \in Contents(entries') : (c.msg \in mem_blocks /\ Registration(c))'
      BY <2>1, <2>2, EntriesKept
    <3>2. ToServe' = ToServe
      BY <2>1, <2>2 DEF ToServe
    <3>3. held[p] = Msgs(entries)
      BY <1>1, <2>4, HandIs DEF KcdInv, Goes
    <3>4. KcdInv'
      BY <1>1, <1>8, <2>2, <2>4, <3>1, <3>2, <3>3, HandIs DEF KcdInv, Goes
    <3>5. InputInv'
      BY <1>1, <2>2 DEF InputInv
    <3> QED BY <1>3, <2>1, <2>2, <2>4, <3>4, <3>5
  <2> QED BY <2>1, <2>3, <2>4
<1>9. ASSUME NEW i, i = Smallest(ToServe), NEW pid, pid = entries[i].m_send_pid,
             Send(p, "forward", pid, Message(DEFAULT, msg_buf.line), "dispatch"),
             msg_buf' = [msg_buf EXCEPT !.cur = i + 1, !.sent_to = @ \cup {pid}],
             UNCHANGED <<entries, inbuf, uart_iproc_notif_in, output, typed>>
      PROVE  StressInv'
  <2> PICK content : content = Message(DEFAULT, msg_buf.line)
    OBVIOUS
  <2> PICK e : e = [msg |-> hand[p], m_send_pid |-> p]
    OBVIOUS
  <2>1. pc[p] = "forward"
    BY <1>9 DEF Send, At
  <2>2. /\ ToServe # {} /\ msg_buf.line \in AllLines
        /\ hand[p] \in mem_blocks \ Msgs(entries)
        /\ held[p] = Msgs(entries) \cup {hand[p]}
    BY <1>1, <2>1, HandIs DEF KcdInv
  <2>3. /\ pid \in {PID_A, PID_SET_PRIO} /\ pid \in Procs
        /\ pid = PID_SET_PRIO => msg_buf.line.cmd = "%C"
    BY <1>9, <2>1, ForwardTo, PidsDistinct
  <2>4. IsMessage(content) /\ content.mtext = msg_buf.line
    BY DEF IsMessage, Message
  <2>5. Send(p, "forward", pid, content, "dispatch")
    BY <1>9
  <2>6. /\ Sound' /\ Others(p) /\ Goes(p, "forward", "dispatch")
        /\ UNCHANGED <<g_delayed_msg_queue, display_msg>>
        /\ hand[p] \in mem_blocks
        /\ hand'[p] = NoBlock /\ held'[p] = held[p] \ {hand[p]}
        /\ Written(hand[p], content)
        /\ Posted(pid, [msg |-> hand[p], m_send_pid |-> p])
    BY <1>1, <2>3, <2>4, <2>5, SendCall
  <2>7. e.msg = hand[p] /\ Posted(pid, e)
    BY <2>6
  <2>8. Expected(pid, e)'
    BY <2>2, <2>3, <2>4, <2>6, <2>7, PidsDistinct
       DEF Expected, IsCommand, Written, mem_blocks
  <2>9. MailMoves(p)
    BY <1>1, <2>3, <2>7, <2>8, PostMail
  <2>10. \A b \in Msgs(entries) : text'[b] = text[b]
    <3>1. Msgs(entries) \subseteq mem_blocks
      BY <1>1 DEF KcdInv, Contents, Msgs
    <3> QED BY <2>2, <2>6, <3>1 DEF Written
  <2>11. /\ entries' \in Seq(Envelope) /\ Msgs(entries') = Msgs(entries)
         /\ \A c \in Contents(entries') : (c.msg \in mem_blocks /\ Registration(c))'
    BY <1>9, <2>10, EntriesKept
  <2>12. /\ msg_buf' = [line |-> msg_buf.line, cur |-> i + 1,
                        sent_to |-> msg_buf.sent_to \cup {pid}]
    <3>1. msg_buf = [line |-> msg_buf.line, cur |-> msg_buf.cur, sent_to |-> msg_buf.sent_to]
      BY <1>1 DEF KcdInv
    <3> QED BY <1>9, <3>1
  <2>13. KcdInv'
    BY <1>1, <2>2, <2>6, <2>11, <2>12, HandIs DEF KcdInv, Goes
  <2>14. InputInv'
    BY <1>1, <1>9 DEF InputInv
  <2> QED BY <1>3, <1>9, <2>6, <2>9, <2>13, <2>14
<1> QED
  BY <1>4, <1>5, <1>6, <1>7, <1>8, <1>9 DEF proc_kcd, KcdDispatch

\* The wake-up call is somewhere where no process can touch it.
LEMMA WakeupAway ==
  ASSUME StressInv, pc[PID_C] = "sleep"
  PROVE  /\ hand[PID_C] \in mem_blocks
         /\ \A p \in Procs : hand[PID_C] \notin held[p]
<1>1. SleepInv /\ CInv /\ Sound /\ PID_C \in Procs
  BY PidsDistinct DEF StressInv, ProgramsInv
<1>2. hand[PID_C] \in mem_blocks
  BY <1>1 DEF CInv
<1>3. CASE g_delayed_msg_queue = << >>
  <2>1. hand[PID_C] \in Msgs(g_message_queues[PID_C])
    BY <1>1, <1>3 DEF SleepInv
  <2> QED BY <1>1, <1>2, <2>1, MailOnly
<1>4. CASE g_delayed_msg_queue # << >>
  <2>1. g_delayed_msg_queue \in Seq(DelayedEnvelope)
    BY <1>1, Types DEF Sound
  <2>2. PICK i \in DOMAIN g_delayed_msg_queue : TRUE
    BY <1>4, <2>1, NotEmpty DEF Contents
  <2>3. hand[PID_C] \in Msgs(g_delayed_msg_queue)
    BY <1>1, <2>2 DEF SleepInv, Contents, Msgs
  <2> QED BY <1>1, <1>2, <2>3, DelayedOnly
<1> QED
  BY <1>2, <1>3, <1>4

\* The reports that C keeps, after a step that writes none of them.
LEMMA ReportsKept ==
  ASSUME StressInv, UNCHANGED c_message_queue,
         \A b \in Contents(c_message_queue) : text'[b] = text[b]
  PROVE  /\ c_message_queue' \in Seq(mem_blocks) /\ Distinct(c_message_queue')
         /\ Contents(c_message_queue') = Contents(c_message_queue)
         /\ \A b \in Contents(c_message_queue') : IsReport(b)'
BY DEF StressInv, ProgramsInv, CInv, IsReport, Contents, Distinct, mem_blocks

\* The block in C's hand is not one of those that it keeps.
LEMMA KeptApart ==
  ASSUME StressInv
  PROVE  /\ Contents(c_message_queue) \subseteq mem_blocks
         /\ Contents(c_message_queue) \subseteq held[PID_C]
         /\ hand[PID_C] \notin Contents(c_message_queue)
<1>1. CInv
  BY DEF StressInv, ProgramsInv
<1>2. Contents(c_message_queue) \subseteq mem_blocks
  BY <1>1, LenProperties, ElementOfSeq DEF CInv, Contents
<1> QED
  BY <1>1, <1>2 DEF CInv

\* C starts to look at a report.
LEMMA HandlePoints ==
  ASSUME NEW b, IsReport(b)
  PROVE  Handle(b) \in {"hibernate", "display", "release"}
BY DEF Handle, AfterSleep

LEMMA CTakeStep ==
  ASSUME StressInv, CTakeMailed \/ CTakeKept, UNCHANGED <<hibernate_for_10_sec, asleep, consoleVars>>
  PROVE  /\ Sound' /\ Others(PID_C) /\ MailMoves(PID_C) /\ WakeupRead
         /\ UNCHANGED <<g_delayed_msg_queue, display_msg>>
         /\ CInv' /\ SleepInv'
<1> DEFINE p == PID_C
<1>1. p \in Procs \ {PID_KCD} /\ p \in Procs /\ CInv /\ SleepInv /\ Sound /\ Domains
  BY PidsDistinct DEF StressInv, ProgramsInv
<1>2. CASE CTakeMailed
  <2> PICK b : b = Mail(p).msg
    OBVIOUS
  <2> PICK then : then = Handle(b)
    OBVIOUS
  <2>1. Receive(p, "take", then) /\ UNCHANGED c_message_queue /\ c_message_queue = << >>
    BY <1>2 DEF CTakeMailed
  <2>2. /\ Sound' /\ Others(p) /\ MailMoves(p) /\ Goes(p, "take", then)
        /\ UNCHANGED <<g_delayed_msg_queue, display_msg, text>>
        /\ Expected(p, Mail(p))
        /\ hand'[p] = Mail(p).msg /\ hand'[p] \in mem_blocks \ held[p]
        /\ held'[p] = held[p] \cup {hand'[p]}
    BY <1>1, <2>1, ReceiveCall
  <2>3. IsReport(b) /\ hand'[p] = b /\ b \in mem_blocks
    BY <2>2 DEF Expected, Goes
  <2>4. then \in {"hibernate", "display", "release"}
    BY <2>3, HandlePoints
  <2>5. Contents(c_message_queue) = {}
    BY <2>1 DEF Contents
  <2>6. CInv'
    <3>1. IsReport(hand[p])'
      BY <2>2, <2>3 DEF IsReport
    <3>2. /\ c_message_queue' \in Seq(mem_blocks) /\ Distinct(c_message_queue')
          /\ Contents(c_message_queue') = {}
      BY <1>1, <2>1, <2>5 DEF CInv
    <3>3. pc'[p] = then /\ held'[p] = {b} /\ hand'[p] = b
      BY <1>1, <2>2, <2>3, <2>5, HandIs DEF CInv, Goes
    <3> QED BY <2>3, <2>4, <3>1, <3>2, <3>3, HandIs DEF CInv
  <2>7. SleepInv' /\ WakeupRead
    BY <1>1, <2>2, <2>4 DEF SleepInv, WakeupRead, Goes, Others
  <2> QED BY <2>2, <2>6, <2>7
<1>3. CASE CTakeKept
  <2> PICK b : b = Head(c_message_queue)
    OBVIOUS
  <2> PICK then : then = Handle(b)
    OBVIOUS
  <2>1. /\ Step(p, "take", then) /\ Put(p, b) /\ c_message_queue' = Tail(c_message_queue)
        /\ c_message_queue # << >> /\ UNCHANGED <<display_msg, text>>
    BY <1>3 DEF CTakeKept
  <2>2. c_message_queue \in Seq(mem_blocks) /\ Distinct(c_message_queue)
    BY <1>1 DEF CInv
  <2>3. /\ c_message_queue' \in Seq(mem_blocks) /\ Distinct(c_message_queue')
        /\ Contents(c_message_queue') = Contents(c_message_queue) \ {b}
        /\ b \in Contents(c_message_queue) /\ b \in mem_blocks
    BY <2>1, <2>2, TailElements, HeadTailProperties
  <2>4. IsReport(b)
    BY <1>1, <2>3 DEF CInv
  <2>5. then \in {"hibernate", "display", "release"}
    BY <2>4, HandlePoints
  <2>6. /\ Sound' /\ Others(p) /\ MailMoves(p) /\ Quiet /\ Goes(p, "take", then)
        /\ hand'[p] = b
    BY <1>1, <2>1, StepCall
  <2>7. CInv'
    <3>1. /\ IsReport(hand[p])' /\ \A c \in Contents(c_message_queue') : IsReport(c)'
      BY <1>1, <2>1, <2>3, <2>4, <2>6 DEF IsReport, CInv
    <3>2. pc'[p] = then /\ held'[p] = Contents(c_message_queue') \cup {b} /\ hand'[p] = b
      BY <1>1, <2>3, <2>6, HandIs DEF CInv, Goes, Quiet
    <3> QED BY <2>3, <2>5, <3>1, <3>2, HandIs DEF CInv
  <2>8. SleepInv' /\ WakeupRead
    BY <1>1, <2>5, <2>6 DEF SleepInv, WakeupRead, Goes, Others, Quiet
  <2> QED BY <2>1, <2>6, <2>7, <2>8 DEF Quiet
<1> QED
  BY <1>2, <1>3

LEMMA CHibernateStep ==
  ASSUME StressInv, CHibernate
  PROVE  /\ Sound' /\ Others(PID_C) /\ MailMoves(PID_C) /\ WakeupRead
         /\ UNCHANGED display_msg
         /\ CInv' /\ SleepInv'
<1> DEFINE p == PID_C
           b == hand[p]
<1>1. p \in Procs /\ CInv /\ SleepInv /\ Sound /\ Domains
  BY PidsDistinct DEF StressInv, ProgramsInv
<1>2. /\ At(p, "hibernate") /\ DelayedSend(p, b, HIBERNATION)
      /\ text' = [text EXCEPT ![b].mtype = WAKEUP_10] /\ Goto(p, "sleep")
      /\ UNCHANGED <<hand, display_msg, c_message_queue, last, asleep>>
  BY DEF CHibernate
<1>3. HIBERNATION \in Nat
  BY StressAssumption
<1>4. Caller = p /\ pc[p] = "hibernate"
  BY <1>2 DEF At
<1>5. /\ Sound' /\ b \in held[p] /\ b \in mem_blocks
      /\ UNCHANGED <<g_message_queues, g_timer_count>>
      /\ Holding(p, held[p] \ {b})
      /\ Contents(g_delayed_msg_queue')
           = Contents(g_delayed_msg_queue)
             \cup {[msg |-> b, m_send_pid |-> p, m_recv_pid |-> p,
                    expiry |-> HIBERNATION + g_timer_count]}
  BY <1>1, <1>2, <1>3, <1>4, DelayKernel
<1> PICK m : m = [msg |-> b, m_send_pid |-> p, m_recv_pid |-> p,
                  expiry |-> HIBERNATION + g_timer_count]
  OBVIOUS
<1>6. /\ Goes(p, "hibernate", "sleep") /\ hand'[p] = b
      /\ DOMAIN pc' = Procs /\ DOMAIN hand' = Procs
      /\ \A r \in Procs \ {p} : pc'[r] = pc[r] /\ hand'[r] = hand[r]
  BY <1>1, <1>2, OwnPointer
<1>7. /\ Domains' /\ text'[b] = Message(WAKEUP_10, text[b].mtext)
      /\ \A c \in mem_blocks \ {b} : text'[c] = text[c]
  <2> PICK content : content = Message(WAKEUP_10, text[b].mtext)
    OBVIOUS
  <2>1. text' = [text EXCEPT ![b] = content] /\ IsMessage(content)
    BY <1>1, <1>2, <1>5, Retyped
  <2> HIDE DEF b
  <2>2. Domains' /\ Written(b, content)
    BY <1>1, <1>5, <1>6, <2>1, Writes
  <2> QED BY <2>2 DEF Written
<1>8. Others(p)
  BY <1>5, <1>6, <1>7 DEF Others, Holding
<1>9. MailMoves(p) /\ WakeupRead
  BY <1>1, <1>4, <1>5, NoMail DEF WakeupRead
<1>10. /\ c_message_queue' \in Seq(mem_blocks) /\ Distinct(c_message_queue')
       /\ Contents(c_message_queue') = Contents(c_message_queue)
       /\ \A c \in Contents(c_message_queue') : IsReport(c)'
       /\ b \notin Contents(c_message_queue)
  BY <1>2, <1>7, KeptApart, ReportsKept
<1>11. held'[p] = Contents(c_message_queue)
  <2>1. held[p] = Contents(c_message_queue) \cup {b}
    BY <1>1, <1>4, <1>5, HandIs DEF CInv
  <2> QED BY <1>5, <1>10, <2>1 DEF Holding
<1>12. CInv'
  BY <1>5, <1>6, <1>10, <1>11 DEF CInv, Goes, mem_blocks
<1>13. SleepInv'
  <2>1. g_timer_count = 0 /\ asleep = 0 /\ g_delayed_msg_queue = << >>
    BY <1>1, <1>4 DEF SleepInv
  <2>2. Contents(g_delayed_msg_queue') = {m}
    <3>1. Contents(g_delayed_msg_queue) = {}
      BY <2>1 DEF Contents
    <3> QED BY <1>5, <3>1
  <2>3. m.msg = b /\ m.m_recv_pid = p /\ m.expiry = HIBERNATION
    BY <1>3, <2>1
  <2>4. g_delayed_msg_queue' # << >>
    BY <2>2 DEF Contents
  <2>5. IsWakeup(hand[p])'
    BY <1>6, <1>7 DEF IsWakeup, Message
  <2>6. asleep' = 0 /\ g_timer_count' = 0 /\ 0 \in 0 .. HIBERNATION
    BY <1>2, <1>3, <1>5, <2>1
  <2>7. asleep' + m.expiry = HIBERNATION
    BY <1>3, <2>3, <2>6
  <2> HIDE DEF b
  <2> QED BY <1>6, <2>2, <2>3, <2>4, <2>5, <2>6, <2>7 DEF SleepInv, Goes
<1> QED
  BY <1>2, <1>5, <1>8, <1>9, <1>12, <1>13

\* The wake-up call in C's mailbox is the report that C went to sleep with, and the
\* time is over.
LEMMA WakeupFound ==
  ASSUME StressInv, pc[PID_C] = "sleep", NEW e \in Contents(g_message_queues[PID_C]),
         IsWakeup(e.msg) \/ e.msg = hand[PID_C]
  PROVE  e.msg = hand[PID_C] /\ asleep = HIBERNATION /\ g_delayed_msg_queue = << >>
<1>1. /\ PID_C \in Procs /\ PID_C # PID_KCD
      /\ CInv /\ SleepInv /\ Sound /\ Expected(PID_C, e)
  BY PidsDistinct DEF StressInv, ProgramsInv, MailInv
<1>2. e.msg = hand[PID_C]
  BY <1>1 DEF Expected, IsReport, IsWakeup, COUNT_REPORT, WAKEUP_10
<1>3. hand[PID_C] \in mem_blocks /\ hand[PID_C] \in Msgs(g_message_queues[PID_C])
  BY <1>1, <1>2 DEF CInv, Contents, Msgs
<1>4. hand[PID_C] \notin Msgs(g_delayed_msg_queue)
  BY <1>1, <1>3, MailOnly
<1>5. g_delayed_msg_queue = << >>
  <2> SUFFICES ASSUME g_delayed_msg_queue # << >> PROVE FALSE
    OBVIOUS
  <2>1. g_delayed_msg_queue \in Seq(DelayedEnvelope)
    BY <1>1, Types DEF Sound
  <2>2. PICK i \in DOMAIN g_delayed_msg_queue : TRUE
    BY <2>1, NotEmpty DEF Contents
  <2>3. hand[PID_C] \in Msgs(g_delayed_msg_queue)
    BY <1>1, <2>2 DEF SleepInv, Contents, Msgs
  <2> QED BY <1>4, <2>3
<1> QED
  BY <1>1, <1>2, <1>5 DEF SleepInv

LEMMA CSleepStep ==
  ASSUME StressInv, CSleep
  PROVE  /\ Sound' /\ Others(PID_C) /\ MailMoves(PID_C) /\ WakeupRead
         /\ UNCHANGED <<g_delayed_msg_queue, display_msg>>
         /\ CInv' /\ SleepInv'
<1> DEFINE p == PID_C
           h == hand[p]
<1>1. p \in Procs /\ p # PID_KCD /\ CInv /\ SleepInv /\ Sound /\ Domains
  BY PidsDistinct DEF StressInv, ProgramsInv
<1> PICK e : e = Mail(p)
  OBVIOUS
<1>2. /\ Caller = p /\ pc[p] = "sleep" /\ HasMail(p) /\ ReceiveMessage
      /\ UNCHANGED <<hand, display_msg, text>>
  BY DEF CSleep, At, locals
<1>3. /\ Sound' /\ UNCHANGED <<g_delayed_msg_queue, g_timer_count>>
      /\ Read(p, e) /\ MailMoves(p)
      /\ Holding(p, held[p] \cup ({e.msg} \ Notifications))
      /\ e.msg \in mem_blocks => e.msg \notin Notifications /\ e.msg \notin held[p]
      /\ Expected(p, e)
  BY <1>1, <1>2, ReceiveLetter
<1>4. e.msg \in mem_blocks /\ e \in Contents(g_message_queues[p])
  BY <1>1, <1>3 DEF Expected, Read
<1>5. Holding(p, held[p] \cup {e.msg}) /\ e.msg \notin held[p]
  <2>1. {e.msg} \ Notifications = {e.msg}
    BY <1>3, <1>4
  <2> QED BY <1>3, <1>4, <2>1
<1>6. h \in mem_blocks /\ held[p] = Contents(c_message_queue) /\ h \notin Contents(c_message_queue)
      /\ c_message_queue \in Seq(mem_blocks) /\ Distinct(c_message_queue)
  BY <1>1, <1>2, KeptApart DEF CInv
<1>7. \A c \in Contents(c_message_queue) : IsReport(c)'
  BY <1>1, <1>2 DEF CInv, IsReport
<1>8. CASE IsWakeup(e.msg)
  <2>1. e.msg = h /\ asleep = HIBERNATION /\ g_delayed_msg_queue = << >>
    BY <1>2, <1>4, <1>8, WakeupFound
  <2> PICK then : then = AfterSleep(h)
    OBVIOUS
  <2>2. /\ Goto(p, then) /\ asleep' = 0 /\ UNCHANGED c_message_queue
        /\ then \in {"display", "release"}
    BY <1>8 DEF CSleep, AfterSleep
  <2>3. pc' = [pc EXCEPT ![p] = then] /\ DOMAIN pc' = Procs /\ pc'[p] = then
        /\ \A r \in Procs \ {p} : pc'[r] = pc[r]
    BY <1>1, <2>2 DEF Goto, Domains
  <2>4. Others(p)
    BY <1>1, <1>2, <1>3, <1>5, <2>3 DEF Others, Holding, Domains, mem_blocks
  <2>5. WakeupRead
    <3>1. h \notin Msgs(g_message_queues'[p])
      BY <1>3, <2>1 DEF Read
    <3> QED BY <3>1 DEF WakeupRead, Contents, Msgs
  <2>6. CInv'
    <3>1. held'[p] = Contents(c_message_queue) \cup {h}
      BY <1>5, <1>6, <2>1 DEF Holding
    <3>2. Contents(c_message_queue') = Contents(c_message_queue)
          /\ Distinct(c_message_queue')
      BY <1>6, <2>2 DEF Contents, Distinct
    <3>3. HandOf(p)' = {h} /\ hand'[p] = h
      BY <1>2, <1>6, HandIs
    <3> HIDE DEF h
    <3> QED BY <1>6, <1>7, <2>2, <2>3, <3>1, <3>2, <3>3 DEF CInv, mem_blocks
  <2>7. SleepInv'
    BY <1>1, <1>3, <2>1, <2>2, <2>3 DEF SleepInv
  <2> QED BY <1>2, <1>3, <2>4, <2>5, <2>6, <2>7
<1>9. CASE ~ IsWakeup(e.msg)
  <2>1. c_message_queue' = Append(c_message_queue, e.msg) /\ UNCHANGED <<pc, asleep>>
    BY <1>9 DEF CSleep
  <2>2. e.msg # h /\ IsReport(e.msg)
    BY <1>1, <1>2, <1>3, <1>9 DEF Expected, SleepInv
  <2>3. Others(p)
    BY <1>1, <1>2, <1>3, <1>5, <2>1 DEF Others, Holding, Domains, mem_blocks
  <2>4. WakeupRead
    BY <1>2, <2>1 DEF WakeupRead
  <2>5. /\ c_message_queue' \in Seq(mem_blocks) /\ Distinct(c_message_queue')
        /\ Contents(c_message_queue') = Contents(c_message_queue) \cup {e.msg}
    BY <1>4, <1>5, <1>6, <2>1, AppendElements, AppendProperties
  <2>6. CInv'
    <3>1. IsReport(e.msg)'
      BY <1>2, <2>2 DEF IsReport
    <3>2. held'[p] = Contents(c_message_queue')
      BY <1>5, <1>6, <2>5 DEF Holding
    <3>3. hand'[p] = h /\ pc'[p] = "sleep"
      BY <1>2, <2>1
    <3> HIDE DEF h
    <3> QED BY <1>6, <1>7, <2>2, <2>5, <3>1, <3>2, <3>3 DEF CInv, mem_blocks
  <2>7. SleepInv'
    <3>1. h \in Msgs(g_message_queues[p]) => h \in Msgs(g_message_queues'[p])
      BY <1>3, <2>2 DEF Read
    <3>2. /\ g_timer_count' = 0 /\ asleep' = asleep /\ pc'[p] = "sleep" /\ hand'[p] = h
          /\ IsWakeup(h)' /\ UNCHANGED g_delayed_msg_queue
      BY <1>1, <1>2, <1>3, <2>1 DEF SleepInv, IsWakeup
    <3> QED BY <1>1, <1>2, <3>1, <3>2 DEF SleepInv, Contents
  <2> QED BY <1>2, <1>3, <2>3, <2>4, <2>6, <2>7
<1> QED
  BY <1>8, <1>9

LEMMA CDisplayStep ==
  ASSUME StressInv, CDisplay
  PROVE  /\ Sound' /\ Others(PID_C) /\ MailMoves(PID_C) /\ WakeupRead
         /\ UNCHANGED <<g_delayed_msg_queue, display_msg>>
         /\ CInv' /\ SleepInv'
<1> DEFINE p == PID_C
<1>1. p \in Procs /\ PID_CRT \in Procs /\ PID_CRT # p /\ PID_CRT # PID_KCD
      /\ PID_CRT \notin {PID_SET_PRIO, PID_B} /\ CInv /\ SleepInv /\ Sound /\ Domains
  BY PidsDistinct DEF StressInv, ProgramsInv
<1> PICK content : content = Message(CRT_DISPLAY, [str |-> "Process C"])
  OBVIOUS
<1> PICK e : e = [msg |-> hand[p], m_send_pid |-> p]
  OBVIOUS
<1>2. IsMessage(content)
  BY DEF IsMessage, Message
<1>3. Send(p, "display", PID_CRT, content, "take") /\ UNCHANGED <<c_message_queue, asleep>>
  BY DEF CDisplay
<1>4. /\ Sound' /\ Others(p) /\ Goes(p, "display", "take")
      /\ UNCHANGED <<g_delayed_msg_queue, display_msg>>
      /\ hand[p] \in mem_blocks /\ hand[p] \in held[p]
      /\ hand'[p] = NoBlock /\ held'[p] = held[p] \ {hand[p]}
      /\ Written(hand[p], content)
      /\ Posted(PID_CRT, [msg |-> hand[p], m_send_pid |-> p])
  BY <1>1, <1>2, <1>3, SendCall
<1>5. e.msg = hand[p] /\ Posted(PID_CRT, e)
  BY <1>4
<1>6. Expected(PID_CRT, e)'
  BY <1>1, <1>4, <1>5 DEF Expected, mem_blocks
<1>7. MailMoves(p)
  BY <1>1, <1>5, <1>6, PostMail
<1>8. WakeupRead
  BY <1>4 DEF WakeupRead, Goes
<1>9. /\ c_message_queue' \in Seq(mem_blocks) /\ Distinct(c_message_queue')
      /\ Contents(c_message_queue') = Contents(c_message_queue)
      /\ \A b \in Contents(c_message_queue') : IsReport(b)'
      /\ Contents(c_message_queue) \subseteq mem_blocks
      /\ hand[p] \notin Contents(c_message_queue)
  BY <1>3, <1>4, KeptApart, ReportsKept DEF Written
<1>10. CInv'
  <2>1. held'[p] = Contents(c_message_queue')
    BY <1>1, <1>4, <1>9, HandIs DEF CInv, Goes
  <2> QED BY <1>4, <1>9, <2>1, HandIs DEF CInv, Goes
<1>11. SleepInv'
  BY <1>1, <1>3, <1>4 DEF SleepInv, Goes, Others
<1> QED
  BY <1>4, <1>7, <1>8, <1>10, <1>11

LEMMA CReleaseStep ==
  ASSUME StressInv, CRelease, UNCHANGED cVars
  PROVE  /\ Sound' /\ Others(PID_C) /\ MailMoves(PID_C) /\ WakeupRead
         /\ UNCHANGED <<g_delayed_msg_queue, display_msg>>
         /\ CInv' /\ SleepInv'
<1> DEFINE p == PID_C
<1>1. p \in Procs /\ CInv /\ SleepInv /\ Sound /\ Domains
      /\ UNCHANGED <<c_message_queue, asleep>>
  BY PidsDistinct DEF StressInv, ProgramsInv, cVars
<1>2. /\ Sound' /\ Others(p) /\ MailMoves(p) /\ Goes(p, "release", "release_processor")
      /\ UNCHANGED <<g_message_queues, g_delayed_msg_queue, display_msg>>
      /\ hand[p] \in held[p]
      /\ hand'[p] = NoBlock /\ held'[p] = held[p] \ {hand[p]}
      /\ \A c \in mem_blocks \ {hand[p]} : text'[c] = text[c]
  BY <1>1, ReleaseCall DEF CRelease
<1>3. /\ c_message_queue' \in Seq(mem_blocks) /\ Distinct(c_message_queue')
      /\ Contents(c_message_queue') = Contents(c_message_queue)
      /\ \A b \in Contents(c_message_queue') : IsReport(b)'
      /\ Contents(c_message_queue) \subseteq mem_blocks
      /\ hand[p] \notin Contents(c_message_queue)
  BY <1>1, <1>2, KeptApart, ReportsKept
<1>4. CInv'
  <2>1. held'[p] = Contents(c_message_queue')
    BY <1>1, <1>2, <1>3, HandIs DEF CInv, Goes
  <2> QED BY <1>2, <1>3, <2>1, HandIs DEF CInv, Goes
<1>5. SleepInv' /\ WakeupRead
  BY <1>1, <1>2 DEF SleepInv, Goes, Others, WakeupRead
<1> QED
  BY <1>2, <1>4, <1>5

LEMMA CYieldStep ==
  ASSUME StressInv, Yield(PID_C, "release_processor", "take"), UNCHANGED locals, UNCHANGED cVars
  PROVE  /\ Sound' /\ Others(PID_C) /\ MailMoves(PID_C) /\ WakeupRead
         /\ UNCHANGED <<g_delayed_msg_queue, display_msg>>
         /\ CInv' /\ SleepInv'
<1> DEFINE p == PID_C
<1>1. p \in Procs /\ CInv /\ SleepInv /\ Sound /\ Domains
      /\ UNCHANGED <<c_message_queue, asleep, hand, text, display_msg>>
  BY PidsDistinct DEF StressInv, ProgramsInv, cVars, locals
<1>2. Sound' /\ Others(p) /\ MailMoves(p) /\ Quiet /\ Goes(p, "release_processor", "take")
  BY <1>1, StepCall
<1>3. /\ c_message_queue' \in Seq(mem_blocks) /\ Distinct(c_message_queue')
      /\ Contents(c_message_queue') = Contents(c_message_queue)
      /\ \A b \in Contents(c_message_queue') : IsReport(b)'
      /\ Contents(c_message_queue) \subseteq mem_blocks
  BY <1>1, KeptApart, ReportsKept
<1>4. CInv'
  <2>1. held'[p] = Contents(c_message_queue') /\ hand'[p] = NoBlock
    BY <1>1, <1>2, <1>3, HandIs DEF CInv, Goes, Quiet
  <2> QED BY <1>2, <1>3, <2>1, HandIs DEF CInv, Goes
<1>5. SleepInv' /\ WakeupRead
  BY <1>1, <1>2 DEF SleepInv, Goes, Others, WakeupRead, Quiet
<1> QED
  BY <1>1, <1>2, <1>4, <1>5 DEF Quiet

LEMMA CStep ==
  ASSUME StressInv, proc_C
  PROVE  StressInv'
<1>1. PID_C \in Procs
  BY PidsDistinct
<1>2. ASSUME Sound', Others(PID_C), MailMoves(PID_C), WakeupRead, CInv', SleepInv',
             UNCHANGED consoleVars, UNCHANGED display_msg
      PROVE  StressInv'
  <2>1. UNCHANGED <<entries, msg_buf, output, inbuf, typed>>
    BY <1>2 DEF consoleVars, kcdVars
  <2>2. InputInv'
    BY <2>1 DEF InputInv, StressInv, ProgramsInv
  <2> QED BY <1>1, <1>2, <2>1, <2>2, OthersKept, PidsDistinct
<1>3. CASE /\ CTakeMailed \/ CTakeKept
           /\ UNCHANGED <<hibernate_for_10_sec, asleep, consoleVars>>
  BY <1>2, <1>3, CTakeStep
<1>4. CASE CHibernate /\ UNCHANGED consoleVars
  BY <1>2, <1>4, CHibernateStep
<1>5. CASE CSleep /\ UNCHANGED consoleVars
  BY <1>2, <1>5, CSleepStep
<1>6. CASE CDisplay /\ UNCHANGED consoleVars
  BY <1>2, <1>6, CDisplayStep
<1>7. CASE CRelease /\ UNCHANGED <<cVars, consoleVars>>
  BY <1>2, <1>7, CReleaseStep
<1>8. CASE /\ Yield(PID_C, "release_processor", "take") /\ UNCHANGED locals
           /\ UNCHANGED <<cVars, consoleVars>>
  BY <1>2, <1>8, CYieldStep
<1>9. CASE /\ ReceiveNothing(PID_C, "take") \/ ReceiveNothing(PID_C, "sleep")
           /\ UNCHANGED cVars
  BY <1>1, <1>9, ReceiveNothingCall DEF cVars
<1> QED
  BY <1>3, <1>4, <1>5, <1>6, <1>7, <1>8, <1>9 DEF proc_C

-----------------------------------------------------------------------------
(* What the processes do not do. *)

\* A process that only spins.
LEMMA SpinStep ==
  ASSUME StressInv, Spin, UNCHANGED stressVars
  PROVE  StressInv'
<1>1. PICK p \in Spinners : Yield(p, "spin", "spin") /\ UNCHANGED <<locals, consoleVars>>
  BY DEF Spin
<1>2. Sound /\ Domains /\ InputInv
  BY DEF StressInv, ProgramsInv
<1>3. p \in Procs /\ p \notin {PID_KCD, PID_CRT, PID_SET_PRIO, PID_A, PID_B, PID_C}
  BY StressAssumption
<1>4. UNCHANGED <<hand, display_msg, text, entries, msg_buf, output, inbuf, typed,
                  c_message_queue, asleep>>
  BY <1>1 DEF locals, consoleVars, kcdVars, stressVars, cVars
<1>5. Sound' /\ Others(p) /\ MailMoves(p) /\ Quiet
  BY <1>1, <1>2, <1>3, <1>4, StepCall
<1>6. InputInv'
  BY <1>2, <1>4 DEF InputInv
<1> QED
  BY <1>3, <1>4, <1>5, <1>6, OthersKept DEF Quiet

\* The start of the system, the end of a timer handler, an interrupt without cause.
LEMMA KernelOnlyStep ==
  ASSUME StressInv, KernelStep \/ (UartIrq /\ UNCHANGED procVars), UNCHANGED stressVars
  PROVE  StressInv'
<1>1. Sound' /\ Quiet
  BY QuietKernel DEF KernelStep, StressInv
<1>2. UNCHANGED observed
  BY <1>1 DEF Quiet, observed, KernelStep, procVars, locals, consoleVars, kcdVars,
              stressVars, cVars
<1> QED
  BY <1>1, <1>2, NothingObserved

\* A line is typed.
LEMMA TypeStep ==
  ASSUME StressInv, NEW line, typed < Len(Lines), line \in Lines[typed + 1], Type(line),
         UNCHANGED stressVars
  PROVE  StressInv'
<1> DEFINE p == PID_KCD
<1>1. p \in Procs /\ KcdInv /\ InputInv /\ Sound /\ Domains
  BY PidsDistinct DEF StressInv, ProgramsInv
<1>2. UNCHANGED <<pc, hand, display_msg, text, entries, msg_buf, output, c_message_queue, asleep>>
  BY DEF Type, locals, stressVars, cVars
<1>3. line \in AllLines
  <2>1. typed \in Nat /\ typed + 1 \in DOMAIN Lines
    BY <1>1, ProcessesAssumption, LenProperties DEF InputInv
  <2> QED BY <2>1 DEF AllLines
<1>4. InputInv'
  BY <1>1, <1>3, AppendProperties DEF InputInv, Type
<1>5. ASSUME Sound', UNCHANGED <<g_delayed_msg_queue, g_timer_count, held>>, MailMoves(p)
      PROVE  StressInv'
  <2>1. Others(p)
    BY <1>1, <1>2, <1>5 DEF Others, Domains, mem_blocks
  <2>2. KcdInv'
    BY <1>1, <1>2, <1>5 DEF KcdInv, ToServe, HandOf, Registration, Contents, Msgs
  <2> QED BY <1>1, <1>2, <1>4, <1>5, <2>1, <2>2, OthersKept, PidsDistinct
<1>6. CASE UartNotify(p, notif_in_msg)
  <2> PICK e : e = [msg |-> notif_in_msg, m_send_pid |-> PID_UART_IPROC]
    OBVIOUS
  <2>1. /\ Sound' /\ UNCHANGED <<g_delayed_msg_queue, g_timer_count, held>>
        /\ Posted(p, [msg |-> notif_in_msg, m_send_pid |-> PID_UART_IPROC])
    BY <1>1, <1>6, NotifyKernel
  <2>2. Posted(p, e) /\ e.msg \notin mem_blocks
    BY <2>1 DEF mem_blocks, notif_in_msg
  <2>3. Expected(p, e)'
    BY <2>2, PidsDistinct DEF Expected, mem_blocks
  <2>4. MailMoves(p)
    BY <1>1, <2>2, <2>3, PostMail
  <2> QED BY <1>5, <2>1, <2>4
<1>7. CASE UartIrq
  <2>1. Sound' /\ Quiet
    BY <1>1, <1>7, QuietKernel
  <2>2. MailMoves(p)
    BY <1>1, <2>1, NoMail DEF Quiet
  <2> QED BY <1>5, <2>1, <2>2 DEF Quiet
<1> QED
  BY <1>6, <1>7 DEF Type

\* The timer counts.
LEMMA TimerHandlerKeeps ==
  ASSUME StressInv, TimerHandler, CountAsleep,
         UNCHANGED <<num, c_message_queue, hibernate_for_10_sec, last, ran>>
  PROVE  StressInv'
<1> DEFINE p == PID_C
           h == hand[p]
           q == g_delayed_msg_queue
<1>1. p \in Procs /\ p # PID_KCD /\ CInv /\ SleepInv /\ InputInv /\ Sound /\ Domains
      /\ g_timer_count = 0
  BY PidsDistinct DEF StressInv, ProgramsInv, SleepInv
<1>2. UNCHANGED <<pc, hand, display_msg, text, entries, msg_buf, output, inbuf, typed>>
  BY DEF TimerHandler, procVars, locals, consoleVars, kcdVars
<1>3. /\ Sound' /\ UNCHANGED <<g_timer_count, held>>
      /\ \A r \in Procs :
           /\ Contents(g_message_queues[r]) \subseteq Contents(g_message_queues'[r])
           /\ \A e \in Contents(g_message_queues'[r]) \ Contents(g_message_queues[r]) :
                \E m \in Contents(q) : m.m_recv_pid = r /\ m.msg = e.msg /\ m.expiry = 1
      /\ \A m \in Contents(q') :
           \E l \in Contents(q) :
             /\ m.msg = l.msg /\ m.m_recv_pid = l.m_recv_pid
             /\ m.expiry = l.expiry - 1 /\ l.expiry > 1
      /\ \A m \in Contents(q) :
           \/ m.expiry = 1 /\ m.msg \in Msgs(g_message_queues'[m.m_recv_pid])
           \/ m.expiry > 1 /\ q' # << >>
  BY <1>1, TickKernel
<1> HIDE DEF q
<1>4. Others(p)
  BY <1>1, <1>2, <1>3 DEF Others, Domains, mem_blocks
<1>5. pc[p] # "sleep" => Contents(q) = {}
  BY <1>1 DEF SleepInv, Contents, q
<1>6. MailMoves(p)
  <2>1. ASSUME NEW r \in Procs,
               NEW e \in Contents(g_message_queues'[r]) \ Contents(g_message_queues[r])
        PROVE  Expected(r, e)'
    <3>1. PICK m \in Contents(q) : m.m_recv_pid = r /\ m.msg = e.msg
      BY <1>3, <2>1
    <3>2. pc[p] = "sleep" /\ r = p /\ e.msg = h
      BY <1>1, <1>5, <3>1 DEF SleepInv, q
    <3>3. h \in mem_blocks
      BY <1>1, <3>2 DEF CInv
    <3> QED BY <1>1, <1>2, <3>2, <3>3, PidsDistinct DEF Expected, mem_blocks
  <2> QED BY <1>3, <2>1 DEF MailMoves
<1>7. WakeupRead
  BY <1>2 DEF WakeupRead
<1>8. InputInv'
  BY <1>1, <1>2 DEF InputInv
<1>9. CInv'
  BY <1>1, <1>2, <1>3 DEF CInv, IsReport, HandOf, Contents, Distinct, mem_blocks
<1>10. SleepInv'
  <2>1. HIBERNATION \in Nat
    BY StressAssumption
  <2>2. CASE pc[p] # "sleep"
    <3>1. asleep' = asleep /\ asleep = 0
      BY <1>1, <2>2 DEF CountAsleep, SleepInv
    <3>2. q' = << >>
      <4>1. Contents(q') = {}
        BY <1>3, <1>5, <2>2
      <4>2. q' \in Seq(DelayedEnvelope)
        BY <1>3, Types DEF Sound, KernelInv, TypeOK, q
      <4> QED BY <4>1, <4>2, NotEmpty
    <3> QED BY <1>1, <1>2, <1>3, <2>2, <3>1, <3>2 DEF SleepInv, q
  <2>3. CASE pc[p] = "sleep"
    <3>1. /\ IsWakeup(h) /\ asleep \in 0 .. HIBERNATION
          /\ \A m \in Contents(q) : m.msg = h /\ m.m_recv_pid = p
                                    /\ asleep + m.expiry = HIBERNATION
          /\ q = << >> => h \in Msgs(g_message_queues[p]) /\ asleep = HIBERNATION
      BY <1>1, <2>3 DEF SleepInv, q
    <3>2. \A m \in Contents(q) : m.expiry \in Nat
      <4>1. q \in Seq(DelayedEnvelope)
        BY <1>1, Types DEF Sound, q
      <4>2. \A i \in DOMAIN q : q[i] \in DelayedEnvelope
        BY <4>1, LenProperties, ElementOfSeq
      <4> QED BY <4>2 DEF Contents, DelayedEnvelope
    <3>3. asleep' = IF asleep < HIBERNATION THEN asleep + 1 ELSE asleep
      BY <2>3 DEF CountAsleep
    <3>4. pc'[p] = "sleep" /\ hand'[p] = h /\ IsWakeup(h)' /\ g_timer_count' = 0
      BY <1>1, <1>2, <1>3, <2>3, <3>1 DEF IsWakeup
    <3>5. asleep' \in 0 .. HIBERNATION
      BY <2>1, <3>1, <3>3
    <3>6. CASE q = << >>
      <4>1. Contents(q) = {}
        BY <3>6 DEF Contents
      <4>2. Contents(q') = {}
        BY <1>3, <4>1
      <4>3. h \in Msgs(g_message_queues'[p])
        <5>1. Contents(g_message_queues[p]) \subseteq Contents(g_message_queues'[p])
          BY <1>1, <1>3
        <5>2. \A s : Msgs(s) = {e.msg : e \in Contents(s)}
          BY DEF Msgs, Contents
        <5> QED BY <3>1, <3>6, <5>1, <5>2
      <4>4. asleep' = HIBERNATION
        BY <2>1, <3>1, <3>3, <3>6
      <4> QED BY <3>4, <3>5, <4>2, <4>3, <4>4 DEF SleepInv, q
    <3>7. CASE q # << >>
      <4>1. PICK m \in Contents(q) : TRUE
        <5>1. q \in Seq(DelayedEnvelope)
          BY <1>1, Types DEF Sound, q
        <5> QED BY <3>7, <5>1, NotEmpty
      <4>2. m.expiry \in Nat /\ asleep + m.expiry = HIBERNATION /\ m.expiry > 0
        BY <1>3, <3>1, <3>2, <4>1
      <4>3. asleep' = asleep + 1
        BY <2>1, <3>1, <3>3, <4>2
      <4>4. ASSUME NEW n \in Contents(q')
            PROVE  n.msg = h /\ n.m_recv_pid = p /\ asleep' + n.expiry = HIBERNATION
        <5>1. PICK l \in Contents(q) :
                n.msg = l.msg /\ n.m_recv_pid = l.m_recv_pid /\ n.expiry = l.expiry - 1
          BY <1>3, <4>4
        <5> QED BY <3>1, <3>2, <4>3, <5>1
      <4>5. q' = << >> => h \in Msgs(g_message_queues'[p]) /\ asleep' = HIBERNATION
        <5>1. ASSUME q' = << >> PROVE m.expiry = 1 /\ m.msg \in Msgs(g_message_queues'[p])
          BY <1>3, <3>1, <4>1, <5>1
        <5> QED BY <2>1, <3>1, <4>1, <4>2, <4>3, <5>1
      <4> QED BY <3>4, <3>5, <4>4, <4>5 DEF SleepInv, q
    <3> QED BY <3>6, <3>7
  <2> QED BY <2>2, <2>3
<1> QED
  BY <1>1, <1>2, <1>3, <1>4, <1>6, <1>7, <1>8, <1>9, <1>10, OthersKept,
     PidsDistinct

LEMMA InitPrograms == StressInit => StressInv
<1> SUFFICES ASSUME StressInit PROVE StressInv
  OBVIOUS
<1>1. Init /\ g_timer_count = 0 /\ g_delayed_msg_queue = << >>
      /\ \A p \in Procs : g_message_queues[p] = << >> /\ held[p] = {}
  BY DEF StressInit, ProcessesInit, Init
<1>2. Sound
  BY <1>1, InitInvariant, PlacesInit DEF Sound
<1>3. /\ pc = StartPoint /\ hand = [p \in Procs |-> NoBlock] /\ display_msg = NoBlock
      /\ text = [b \in mem_blocks |-> Message(DEFAULT, [str |-> ""])]
      /\ entries = << >> /\ msg_buf = NoLine /\ output = << >> /\ inbuf = << >> /\ typed = 0
      /\ c_message_queue = << >> /\ asleep = 0
  BY DEF StressInit, ProcessesInit
<1>4. Contents(<< >>) = {} /\ Msgs(<< >>) = {} /\ Distinct(<< >>)
  BY DEF Contents, Msgs, Distinct
<1>5. \A S : << >> \in Seq(S)
  OBVIOUS
<1>6. \A p \in Procs : HandOf(p) = {}
  BY <1>3 DEF HandOf
<1>7. Domains
  BY <1>3, StressAssumption DEF Domains, IsMessage, Message
<1>8. MailInv
  BY <1>1, <1>4 DEF MailInv
<1>9. InputInv
  <2>1. inbuf = << >> /\ typed = 0
    BY <1>3
  <2> QED BY <1>5, <2>1 DEF InputInv
<1>10. /\ pc[PID_KCD] = "receive" /\ pc[PID_CRT] = "receive" /\ pc[PID_B] = "receive"
       /\ pc[PID_SET_PRIO] = "register" /\ pc[PID_A] = "register" /\ pc[PID_C] = "take"
  BY <1>3, StressAssumption
<1>11. \A p \in {PID_KCD, PID_CRT, PID_SET_PRIO, PID_A, PID_B, PID_C} :
         p \in Procs /\ hand[p] = NoBlock /\ HandOf(p) = {} /\ held[p] = {}
  BY <1>1, <1>3, <1>6, PidsDistinct
<1>12. KcdInv
  BY <1>3, <1>4, <1>5, <1>10, <1>11 DEF KcdInv, NoLine
<1>13. CrtInv /\ SetPrioInv
  BY <1>3, <1>4, <1>5, <1>10, <1>11 DEF CrtInv, SetPrioInv
<1>14. AInv /\ BInv
  BY <1>10, <1>11 DEF AInv, BInv
<1>15. CInv
  BY <1>3, <1>4, <1>5, <1>10, <1>11 DEF CInv
<1>16. SleepInv
  <2>1. pc[PID_C] # "sleep" /\ asleep = 0 /\ 0 \in 0 .. HIBERNATION
    <3>1. HIBERNATION \in Nat /\ pc[PID_C] = "take"
      BY <1>10, StressAssumption
    <3>2. asleep = 0
      BY <1>3
    <3> QED BY <3>1, <3>2
  <2> QED BY <1>1, <2>1 DEF SleepInv
<1> QED
  BY <1>2, <1>7, <1>8, <1>9, <1>12, <1>13, <1>14, <1>15, <1>16 DEF StressInv, ProgramsInv

LEMMA ProgramsStep == StressInv /\ [StressNext]_allVars => StressInv'
<1> SUFFICES ASSUME StressInv, [StressNext]_allVars PROVE StressInv'
  OBVIOUS
<1>1. CASE proc_A /\ UNCHANGED cVars
  BY <1>1, AStep
<1>2. CASE proc_B /\ UNCHANGED stressVars
  BY <1>2, BStep
<1>3. CASE proc_C /\ UNCHANGED num
  BY <1>3, CStep
<1>4. CASE Spin /\ UNCHANGED stressVars
  BY <1>4, SpinStep
<1>5. CASE SystemProcess /\ UNCHANGED stressVars
  BY <1>5, KcdStep, CrtStep, SetPrioStep DEF SystemProcess
<1>6. CASE Tick
  BY <1>6, TimerHandlerKeeps DEF Tick
<1>7. CASE Finish
  BY <1>7, KernelOnlyStep DEF Finish
<1>8. CASE Irq
  BY <1>8, KernelOnlyStep, TypeStep DEF Irq, UartInterrupt
<1>9. CASE UNCHANGED allVars
  <2>1. Sound'
    BY <1>9, QuietKernel DEF allVars, StressInv
  <2>2. UNCHANGED observed
    BY <1>9 DEF allVars, observed, vars, procVars, locals, consoleVars, kcdVars,
                stressVars, cVars
  <2> QED BY <2>1, <2>2, NothingObserved
<1> QED
  BY <1>1, <1>2, <1>3, <1>4, <1>5, <1>6, <1>7, <1>8, <1>9
     DEF StressNext, Run, StressProcess

-----------------------------------------------------------------------------
(* The theorems. *)

\* What every program holds, expects and is about to do stays as it should be, through
\* every call, wait and preemption (usr_proc.c:552-696, kcd.c, crt.c, sys_proc.c:230-291).
THEOREM ProgramsInvariance == StressSpec => []StressInv
<1> QED
  BY InitPrograms, ProgramsStep, PTL DEF StressSpec

\* No program loses a block or uses one that it has given away, for every number of
\* blocks and whatever is typed (usr_proc.c:552-696, kcd.c:34-57, crt.c:12-48,
\* sys_proc.c:230-291).
THEOREM ProgramsLoseNoBlock == StressSpec => []BlocksInUse
<1>1. StressInv => BlocksInUse
  <2> SUFFICES ASSUME StressInv PROVE BlocksInUse
    OBVIOUS
  <2>1. /\ held[PID_KCD] = Msgs(entries) \cup HandOf(PID_KCD)
        /\ held[PID_CRT] = Contents(output)
        /\ held[PID_SET_PRIO] = HandOf(PID_SET_PRIO) \cup ({display_msg} \ {NoBlock})
        /\ held[PID_A] = HandOf(PID_A)
        /\ held[PID_B] = HandOf(PID_B)
        /\ held[PID_C] = Contents(c_message_queue)
                         \cup IF pc[PID_C] = "sleep" THEN {} ELSE HandOf(PID_C)
    BY DEF StressInv, ProgramsInv, KcdInv, CrtInv, SetPrioInv, AInv, BInv, CInv
  <2> QED BY <2>1 DEF BlocksInUse, HandOf, Msgs, Contents
<1> QED
  BY <1>1, ProgramsInvariance, PTL

\* Nobody but C moves C.
LEMMA MovesOnlyItself ==
  ASSUME StressInv, [StressNext]_allVars, pc'[PID_C] # pc[PID_C]
  PROVE  proc_C /\ Caller = PID_C
<1>1. DOMAIN pc = Procs
  BY DEF StressInv, ProgramsInv, Domains
<1>2. \A p, at : p # PID_C /\ Goto(p, at) => pc'[PID_C] = pc[PID_C]
  BY <1>1, PidsDistinct DEF Goto
<1>3. CASE proc_A
  BY <1>2, <1>3, PidsDistinct
     DEF proc_A, kcd_register, ReceiveNothing, procVars, Receive, Release, Request, Yield, Send
<1>4. CASE proc_B
  BY <1>2, <1>4, PidsDistinct DEF proc_B, ReceiveNothing, procVars, Receive, Send
<1>5. CASE proc_C
  BY <1>5 DEF proc_C, CTakeMailed, CTakeKept, CHibernate, CSleep, CDisplay, CRelease,
              ReceiveNothing, Receive, Step, At, Send, Release, Yield
<1>6. CASE Spin
  BY <1>2, <1>6, StressAssumption DEF Spin, Yield
<1>7. CASE proc_kcd
  BY <1>2, <1>7, PidsDistinct
     DEF proc_kcd, ReceiveNothing, procVars, KcdReceive, KcdGetc, KcdDispatch, Step, Request, Send
<1>8. CASE proc_crt
  BY <1>2, <1>8, PidsDistinct
     DEF proc_crt, ReceiveNothing, procVars, CrtReceive, CrtPrint, CrtWait, Step, Receive
<1>9. CASE proc_set_prio
  BY <1>2, <1>9, PidsDistinct
     DEF proc_set_prio, kcd_register, ReceiveNothing, procVars, Receive, SetPrioCommand,
         SetProcess, SetPrioError, Release, Request, Send, Step
<1>10. CASE Tick \/ Finish \/ Irq \/ UNCHANGED allVars
  BY <1>10 DEF Tick, TimerHandler, Finish, KernelStep, Irq, UartInterrupt, Type, allVars, procVars
<1> QED
  BY <1>3, <1>4, <1>5, <1>6, <1>7, <1>8, <1>9, <1>10
     DEF StressNext, Run, StressProcess, SystemProcess

\* C is woken by the message that it went to sleep with, and has slept its time, for
\* every period and whatever it receives (usr_proc.c:628-646).
THEOREM SleepsItsTime == StressSpec => Hibernates
<1> DEFINE Woken == pc[PID_C] = "sleep" /\ pc'[PID_C] # "sleep"
                      => Mail(PID_C).msg = hand[PID_C] /\ asleep = HIBERNATION
<1>1. StressInv /\ [StressNext]_allVars => Woken
  <2> SUFFICES ASSUME StressInv, [StressNext]_allVars,
                      pc[PID_C] = "sleep", pc'[PID_C] # "sleep"
               PROVE  Mail(PID_C).msg = hand[PID_C] /\ asleep = HIBERNATION
    OBVIOUS
  <2>1. proc_C /\ Caller = PID_C /\ Sound /\ PID_C \in Procs
    BY MovesOnlyItself, PidsDistinct DEF StressInv
  <2>2. CSleep
    BY <2>1 DEF proc_C, CTakeMailed, CTakeKept, CHibernate, CDisplay, CRelease,
                ReceiveNothing, procVars, Receive, Step, At, Send, Release, Yield
  <2>3. HasMail(PID_C) /\ IsWakeup(Mail(PID_C).msg)
    BY <2>2 DEF CSleep
  <2>4. Mail(PID_C) \in Contents(g_message_queues[PID_C])
    <3>1. g_message_queues[PID_C] \in Seq(Envelope) /\ g_message_queues[PID_C] # << >>
      BY <2>1, <2>3, Types DEF Sound, Mailboxes, HasMail
    <3> QED BY <3>1, TailElements DEF Mail
  <2> QED BY <2>3, <2>4, WakeupFound
<1> QED
  BY <1>1, ProgramsInvariance, PTL DEF StressSpec, Hibernates

-----------------------------------------------------------------------------
(* The reports on their way to proc_C, as one sequence. *)

\* Rank t keeps the order of the elements of S, and passes over none of R between them.
KeepsTurn(t, S, R) ==
  /\ S \subseteq Int /\ R \subseteq Int
  /\ \A i \in S : t[i] \in R
  /\ \A i, j \in S : i < j => t[i] < t[j]
  /\ \A i, j \in S, r \in R : t[i] < r /\ r < t[j] => \E l \in S : t[l] = r

\* Every element of R has the number that follows the one in front of it.
InTurn(R, f) ==
  \A i, j \in R :
    i < j /\ (\A l \in R : l <= i \/ j <= l) => f[j] = (f[i] + 1) % MAX_NUM

LEMMA KeptInTurn ==
  ASSUME NEW R, NEW S, NEW f, NEW g, NEW t, KeepsTurn(t, S, R), InTurn(R, f),
         \A i \in S : g[i] = f[t[i]]
  PROVE  InTurn(S, g)
<1> SUFFICES ASSUME NEW i \in S, NEW j \in S, i < j, \A l \in S : l <= i \/ j <= l
             PROVE  g[j] = (g[i] + 1) % MAX_NUM
  BY DEF InTurn
<1>1. /\ t[i] \in R /\ t[j] \in R /\ t[i] < t[j]
      /\ R \subseteq Int /\ S \subseteq Int
  BY DEF KeepsTurn
<1>2. ASSUME NEW r \in R, ~ (r <= t[i]), ~ (t[j] <= r) PROVE FALSE
  <2>1. \A x, y \in Int : (~ (x <= y) => y < x) /\ (x <= y => x = y \/ x < y)
    OBVIOUS
  <2>2. t[i] < r /\ r < t[j]
    BY <1>1, <1>2, <2>1
  <2>3. PICK l \in S : t[l] = r
    BY <2>2 DEF KeepsTurn
  <2>4. CASE l <= i
    <3>1. l = i \/ l < i
      BY <1>1, <2>1, <2>4
    <3>2. t[l] = t[i] \/ t[l] < t[i]
      BY <3>1 DEF KeepsTurn
    <3>3. \A x, y \in Int : x < y => x # y /\ ~ (y < x)
      OBVIOUS
    <3> QED BY <1>1, <2>2, <2>3, <3>2, <3>3
  <2>5. CASE j <= l
    <3>1. l = j \/ j < l
      BY <1>1, <2>1, <2>5
    <3>2. t[l] = t[j] \/ t[j] < t[l]
      BY <3>1 DEF KeepsTurn
    <3>3. \A x, y \in Int : x < y => x # y /\ ~ (y < x)
      OBVIOUS
    <3> QED BY <1>1, <2>2, <2>3, <3>2, <3>3
  <2> QED BY <2>4, <2>5
<1>3. f[t[j]] = (f[t[i]] + 1) % MAX_NUM
  <2>1. \A r \in R : r <= t[i] \/ t[j] <= r
    BY <1>2
  <2> QED BY <1>1, <2>1 DEF InTurn
<1> QED
  BY <1>3

\* The numbers of the reports of way w.
Numbering(w) == [i \in Reports(w) |-> NumberAt(w, i)]

LEMMA NoReportLostInTurn ==
  NoReportLost <=> InTurn(Reports(OnTheWay), Numbering(OnTheWay))
<1> PICK w : w = OnTheWay
  OBVIOUS
<1>1. NoReportLost <=>
        \A i, j \in Reports(w) :
          i < j /\ (\A l \in Reports(w) : l <= i \/ j <= l)
            => NumberAt(w, j) = (NumberAt(w, i) + 1) % MAX_NUM
  BY DEF NoReportLost
<1>2. \A i \in Reports(w) : Numbering(w)[i] = NumberAt(w, i)
  BY DEF Numbering
<1> HIDE DEF NoReportLost
<1> QED
  BY <1>1, <1>2 DEF InTurn

\* The parts of the way.
InHand == IF hand[PID_B] = NoBlock THEN << >> ELSE <<hand[PID_B]>>
AnyMsg == mem_blocks \cup Notifications

\* The messages of a mailbox are a sequence as long as it is.
LEMMA MailedSeq ==
  ASSUME NEW box \in Seq(Envelope), NEW m, m = [i \in DOMAIN box |-> box[i].msg]
  PROVE  /\ m \in Seq(AnyMsg) /\ Len(m) = Len(box)
         /\ \A i \in 1 .. Len(box) : m[i] = box[i].msg
<1>1. Len(box) \in Nat /\ DOMAIN box = 1 .. Len(box)
  BY LenProperties
<1>2. \A i \in 1 .. Len(box) : box[i].msg \in AnyMsg
  <2>1. \A i \in 1 .. Len(box) : box[i] \in Envelope
    BY ElementOfSeq
  <2> QED BY <2>1 DEF Envelope, AnyMsg
<1>3. m \in [1 .. Len(box) -> AnyMsg]
  BY <1>1, <1>2
<1> QED
  BY <1>1, <1>3

LEMMA MailedAppend ==
  ASSUME NEW box \in Seq(Envelope), NEW e \in Envelope,
         NEW m, m = [i \in DOMAIN box |-> box[i].msg],
         NEW r, r = [i \in DOMAIN Append(box, e) |-> Append(box, e)[i].msg]
  PROVE  r = Append(m, e.msg)
<1>1. /\ Append(box, e) \in Seq(Envelope) /\ Len(Append(box, e)) = Len(box) + 1
      /\ \A i \in 1 .. Len(box) : Append(box, e)[i] = box[i]
      /\ Append(box, e)[Len(box) + 1] = e
      /\ Len(box) \in Nat
  BY AppendProperties, LenProperties
<1> PICK longer : longer = Append(box, e)
  OBVIOUS
<1>2. /\ m \in Seq(AnyMsg) /\ Len(m) = Len(box)
      /\ \A i \in 1 .. Len(box) : m[i] = box[i].msg
  BY MailedSeq
<1>3. /\ longer \in Seq(Envelope) /\ r = [i \in DOMAIN longer |-> longer[i].msg]
  BY <1>1, SMTT(20)
<1>4. /\ r \in Seq(AnyMsg) /\ Len(r) = Len(longer)
      /\ \A i \in 1 .. Len(longer) : r[i] = longer[i].msg
  BY <1>3, MailedSeq, ZenonT(30)
<1>5. e.msg \in AnyMsg
  BY DEF Envelope, AnyMsg
<1> PICK s : s = Append(m, e.msg)
  OBVIOUS
<1>6. /\ s \in Seq(AnyMsg) /\ Len(s) = Len(m) + 1
      /\ \A i \in 1 .. Len(m) : s[i] = m[i]
      /\ s[Len(m) + 1] = e.msg
  BY <1>2, <1>5, AppendProperties
<1>7. Len(r) = Len(s) /\ \A i \in 1 .. Len(r) : r[i] = s[i]
  <2>1. \A i \in 1 .. Len(box) + 1 : i \in 1 .. Len(box) \/ i = Len(box) + 1
    BY <1>1
  <2> QED BY <1>1, <1>2, <1>4, <1>6, <2>1
<1> QED
  BY <1>4, <1>6, <1>7, SeqEqual

LEMMA MailedTail ==
  ASSUME NEW box \in Seq(Envelope), box # << >>,
         NEW m, m = [i \in DOMAIN box |-> box[i].msg],
         NEW r, r = [i \in DOMAIN Tail(box) |-> Tail(box)[i].msg]
  PROVE  m # << >> /\ r = Tail(m) /\ Head(m) = Head(box).msg
<1> PICK rest : rest = Tail(box)
  OBVIOUS
<1>1. /\ rest \in Seq(Envelope) /\ Len(rest) = Len(box) - 1
      /\ \A i \in 1 .. Len(rest) : rest[i] = box[i + 1]
      /\ Len(box) \in Nat \ {0}
  BY HeadTailProperties, EmptySeq
<1>2. /\ m \in Seq(AnyMsg) /\ Len(m) = Len(box)
      /\ \A i \in 1 .. Len(box) : m[i] = box[i].msg
  BY MailedSeq
<1>3. /\ r \in Seq(AnyMsg) /\ Len(r) = Len(rest)
      /\ \A i \in 1 .. Len(rest) : r[i] = rest[i].msg
  <2>1. r = [i \in DOMAIN rest |-> rest[i].msg] /\ rest \in Seq(Envelope)
    BY <1>1, SMTT(20)
  <2> QED BY <2>1, MailedSeq, ZenonT(30)
<1>4. m # << >> /\ Head(m) = m[1] /\ Head(box) = box[1]
  <2>1. m # << >>
    BY <1>1, <1>2, EmptySeq
  <2> QED BY <2>1
<1>5. /\ Tail(m) \in Seq(AnyMsg) /\ Len(Tail(m)) = Len(m) - 1
      /\ \A i \in 1 .. Len(Tail(m)) : Tail(m)[i] = m[i + 1]
  BY <1>2, <1>4, HeadTailProperties
<1>6. Len(r) = Len(Tail(m)) /\ \A i \in 1 .. Len(r) : r[i] = Tail(m)[i]
  <2>1. \A i \in 1 .. Len(box) - 1 : i + 1 \in 1 .. Len(box)
    BY <1>1
  <2> QED BY <1>1, <1>2, <1>3, <1>5, <2>1
<1>7. Head(m) = Head(box).msg
  BY <1>1, <1>2, <1>4
<1> QED
  BY <1>3, <1>4, <1>5, <1>6, <1>7, SeqEqual

\* A sequence is its head in front of its tail.
LEMMA HeadAndTail ==
  ASSUME NEW S, NEW s \in Seq(S), s # << >>
  PROVE  s = <<Head(s)>> \o Tail(s) /\ Tail(<<Head(s)>> \o Tail(s)) = Tail(s)
<1>1. Head(s) \in S /\ Tail(s) \in Seq(S) /\ Len(s) \in Nat \ {0} /\ Head(s) = s[1]
  BY HeadTailProperties, EmptySeq
<1>2. 1 \in 1 .. Len(s) /\ Len(s) \in 1 .. Len(s)
  BY <1>1
<1>3. SubSeq(s, 1, Len(s)) = <<s[1]>> \o SubSeq(s, 1 + 1, Len(s))
  BY <1>2, SubSeqRecursiveFirst
<1>4. SubSeq(s, 1, Len(s)) = s /\ Tail(s) = SubSeq(s, 2, Len(s)) /\ 1 + 1 = 2
  BY SubSeqFull, TailIsSubSeq
<1>5. s = <<Head(s)>> \o Tail(s)
  BY <1>1, <1>3, <1>4
<1> QED
  BY <1>5

\* Way w, seen before and after a step that writes none of its messages.
LEMMA SameTexts ==
  ASSUME NEW w \in Seq(AnyMsg), \A b \in Contents(w) : text'[b] = text[b]
  PROVE  /\ Len(w) \in Nat /\ DOMAIN w = 1 .. Len(w)
         /\ \A i \in 1 .. Len(w) : /\ IsReport(w[i])' <=> IsReport(w[i])
                                   /\ text'[w[i]] = text[w[i]]
<1>1. Len(w) \in Nat /\ DOMAIN w = 1 .. Len(w)
  BY LenProperties
<1>2. \A i \in 1 .. Len(w) : w[i] \in Contents(w)
  BY <1>1 DEF Contents
<1> QED
  BY <1>1, <1>2 DEF IsReport

\* The way stays as it is.
LEMMA WaySame ==
  ASSUME NEW w \in Seq(AnyMsg), OnTheWay = w, OnTheWay' = w, NoReportLost,
         \A b \in Contents(w) : text'[b] = text[b], UNCHANGED <<num, last>>
  PROVE  NoReportLost'
<1> DEFINE R == Reports(w)
           S == Reports(w)'
           f == Numbering(w)
           g == Numbering(w)'
<1>1. /\ Len(w) \in Nat /\ DOMAIN w = 1 .. Len(w)
      /\ \A i \in 1 .. Len(w) : /\ IsReport(w[i])' <=> IsReport(w[i])
                                /\ text'[w[i]] = text[w[i]]
  BY SameTexts
<1>2. S = R
  BY <1>1 DEF Reports
<1>3. \A i \in R : i = 0 \/ i > Len(w) \/ i \in 1 .. Len(w)
  BY <1>1 DEF Reports
<1>4. \A i \in R : NumberAt(w, i)' = NumberAt(w, i)
  BY <1>1, <1>3 DEF NumberAt
<1>5. g = f
  BY <1>2, <1>4 DEF Numbering
<1>6. InTurn(R, f)
  BY NoReportLostInTurn
<1>7. InTurn(S, g)
  BY <1>2, <1>5, <1>6
<1>8. NoReportLost' <=> InTurn(S, g)
  <2>1. (NoReportLost <=> InTurn(Reports(OnTheWay), Numbering(OnTheWay)))'
    BY NoReportLostInTurn, PTL
  <2> QED BY <2>1
<1> QED
  BY <1>7, <1>8

LEMMA NextInTurn ==
  ASSUME NEW w, OnTheWay' = w
  PROVE  NoReportLost' <=> InTurn(Reports(w)', Numbering(w)')
<1>1. (NoReportLost <=> InTurn(Reports(OnTheWay), Numbering(OnTheWay)))'
  BY NoReportLostInTurn, PTL
<1> QED
  BY <1>1

\* One message more in the middle of a way.
LEMMA OneMore ==
  ASSUME NEW S, NEW u \in Seq(S), NEW v \in Seq(S), NEW x \in S,
         NEW w, w = u \o v, NEW z, z = u \o (<<x>> \o v), NEW n, n = Len(u)
  PROVE  /\ w \in Seq(S) /\ z \in Seq(S)
         /\ Len(w) \in Nat /\ n \in 0 .. Len(w) /\ Len(z) = Len(w) + 1
         /\ \A i \in 1 .. n : z[i] = w[i]
         /\ z[n + 1] = x
         /\ \A i \in n + 1 .. Len(w) : z[i + 1] = w[i]
<1> DEFINE m == Len(v)
<1> PICK r : r = <<x>> \o v
  OBVIOUS
<1>1. n \in Nat /\ m \in Nat
  BY LenProperties
<1>2. <<x>> \in Seq(S) /\ Len(<<x>>) = 1 /\ <<x>>[1] = x
  OBVIOUS
<1>3. /\ w \in Seq(S) /\ Len(w) = n + m
      /\ \A i \in 1 .. n + m : w[i] = IF i <= n THEN u[i] ELSE v[i - n]
  BY ConcatProperties
<1> PICK one : one = <<x>>
  OBVIOUS
<1>4. /\ r \in Seq(S) /\ Len(r) = 1 + m
      /\ \A i \in 1 .. 1 + m : r[i] = IF i <= 1 THEN one[i] ELSE v[i - 1]
  <2>1. one \in Seq(S) /\ Len(one) = 1 /\ r = one \o v
    BY <1>2
  <2> QED BY <2>1, ConcatProperties
<1>5. /\ z \in Seq(S) /\ Len(z) = n + (1 + m)
      /\ \A i \in 1 .. n + (1 + m) : z[i] = IF i <= n THEN u[i] ELSE r[i - n]
  <2>1. z = u \o r
    OBVIOUS
  <2>2. /\ z \in Seq(S) /\ Len(z) = Len(u) + Len(r)
        /\ \A i \in 1 .. Len(u) + Len(r) : z[i] = IF i <= Len(u) THEN u[i] ELSE r[i - Len(u)]
    BY <1>4, <2>1, ConcatProperties
  <2> QED BY <1>4, <2>2
<1>6. \A i \in 1 .. n : z[i] = w[i]
  <2>1. \A i \in 1 .. n : i \in 1 .. n + m /\ i \in 1 .. n + (1 + m) /\ i <= n
    BY <1>1
  <2> QED BY <1>3, <1>5, <2>1
<1>7. z[n + 1] = x
  <2>1. /\ n + 1 \in 1 .. n + (1 + m) /\ ~ (n + 1 <= n) /\ (n + 1) - n = 1
        /\ 1 \in 1 .. 1 + m /\ 1 <= 1
    BY <1>1
  <2>2. z[n + 1] = r[1]
    BY <1>5, <2>1
  <2> QED BY <1>2, <1>4, <2>1, <2>2
<1>8. \A i \in n + 1 .. Len(w) : z[i + 1] = w[i]
  <2> SUFFICES ASSUME NEW i \in n + 1 .. n + m PROVE z[i + 1] = w[i]
    BY <1>3
  <2>1. /\ i + 1 \in 1 .. n + (1 + m) /\ ~ (i + 1 <= n) /\ (i + 1) - n \in 1 .. 1 + m
        /\ ~ ((i + 1) - n <= 1) /\ ((i + 1) - n) - 1 = i - n
        /\ i \in 1 .. n + m /\ ~ (i <= n)
    BY <1>1
  <2>2. z[i + 1] = r[(i + 1) - n]
    BY <1>5, <2>1
  <2>3. r[(i + 1) - n] = v[i - n]
    BY <1>4, <2>1
  <2>4. w[i] = v[i - n]
    BY <1>3, <2>1
  <2> QED BY <2>2, <2>3, <2>4
<1>9. Len(w) \in Nat /\ n \in 0 .. Len(w) /\ Len(z) = Len(w) + 1
  BY <1>1, <1>3, <1>5
<1> QED
  BY <1>3, <1>5, <1>6, <1>7, <1>8, <1>9

\* What is no report does not disturb the way: it may come ...
LEMMA WayInsert ==
  ASSUME NEW u \in Seq(AnyMsg), NEW v \in Seq(AnyMsg), NEW x \in AnyMsg,
         OnTheWay = u \o v, OnTheWay' = u \o (<<x>> \o v), NoReportLost,
         ~ IsReport(x)',
         \A b \in Contents(u \o v) : text'[b] = text[b], UNCHANGED <<num, last>>
  PROVE  NoReportLost'
<1> PICK w : w = u \o v
  OBVIOUS
<1> PICK z : z = u \o (<<x>> \o v)
  OBVIOUS
<1> PICK n : n = Len(u)
  OBVIOUS
<1> PICK N : N = Len(w)
  OBVIOUS
<1> DEFINE R == Reports(w)
           S == Reports(z)'
           f == Numbering(w)
           g == Numbering(z)'
           t == [i \in S |-> IF i <= n THEN i ELSE i - 1]
<1>1. /\ w \in Seq(AnyMsg) /\ z \in Seq(AnyMsg)
      /\ N \in Nat /\ n \in 0 .. N /\ Len(z) = N + 1
      /\ \A i \in 1 .. n : z[i] = w[i]
      /\ z[n + 1] = x
      /\ \A i \in n + 1 .. N : z[i + 1] = w[i]
  BY OneMore
<1>2. /\ DOMAIN w = 1 .. N /\ DOMAIN z = 1 .. N + 1
      /\ \A i \in 1 .. N : /\ IsReport(w[i])' <=> IsReport(w[i])
                           /\ text'[w[i]] = text[w[i]]
  BY <1>1, SameTexts, LenProperties
<1>3. R = {0, N + 1} \cup {i \in 1 .. N : IsReport(w[i])}
  BY <1>2 DEF Reports
<1> PICK Q : Q = {i \in 1 .. N + 1 : IsReport(z[i])'}
  OBVIOUS
<1>4. S = {0, N + 2} \cup Q /\ Q \subseteq 1 .. N + 1
  <2>1. S = {0, Len(z) + 1} \cup {i \in DOMAIN z : IsReport(z[i])'}
    BY DEF Reports
  <2>2. {i \in DOMAIN z : IsReport(z[i])'} = Q
    BY <1>2
  <2>3. Len(z) + 1 = N + 2
    BY <1>1
  <2> QED BY <2>1, <2>2, <2>3
<1>5. n + 1 \notin S
  <2>1. n + 1 \notin Q
    <3>1. ~ IsReport(z[n + 1])'
      BY <1>1
    <3> QED BY <3>1
  <2>2. n + 1 # 0 /\ n + 1 # N + 2
    BY <1>1
  <2> QED BY <1>4, <2>1, <2>2
<1> PICK P : P = {i \in 1 .. N : IsReport(w[i])}
  OBVIOUS
<1>6. /\ \A i \in 1 .. n : i \in Q <=> i \in P
      /\ \A i \in n + 1 .. N : i + 1 \in Q <=> i \in P
  <2>1. ASSUME NEW i \in 1 .. n PROVE i \in Q <=> i \in P
    <3>1. i \in 1 .. N /\ i \in 1 .. N + 1 /\ z[i] = w[i]
      BY <1>1
    <3>2. IsReport(z[i])' <=> IsReport(w[i])
      BY <1>2, <3>1
    <3> QED BY <3>1, <3>2
  <2>2. ASSUME NEW i \in n + 1 .. N PROVE i + 1 \in Q <=> i \in P
    <3>1. i \in 1 .. N /\ i + 1 \in 1 .. N + 1 /\ z[i + 1] = w[i]
      BY <1>1
    <3> PICK j : j = i + 1
      OBVIOUS
    <3>2. IsReport(z[j])' <=> IsReport(w[i])
      BY <1>2, <3>1
    <3> QED BY <3>1, <3>2
  <2> QED BY <2>1, <2>2
<1>7. R = {0, N + 1} \cup P /\ P \subseteq 1 .. N
  BY <1>3
<1> HIDE DEF R, S
<1>8. S \subseteq 0 .. N + 2 /\ R \subseteq 0 .. N + 1
  BY <1>1, <1>3, <1>4
<1>9. /\ \A i \in 0 .. n : i \in S <=> i \in R
      /\ \A i \in n + 2 .. N + 2 : i \in S <=> i - 1 \in R
  <2>1. ASSUME NEW i \in 0 .. n PROVE i \in S <=> i \in R
    <3>1. i = 0 \/ i \in 1 .. n
      BY <1>1
    <3>2. 0 \in S /\ 0 \in R /\ (i \in 1 .. n => i # 0 /\ i # N + 2 /\ i # N + 1)
      BY <1>1, <1>7, <1>4
    <3>3. i \in 1 .. n => (i \in Q <=> i \in P)
      BY <1>6
    <3> QED BY <1>7, <1>4, <3>1, <3>2, <3>3
  <2>2. ASSUME NEW i \in n + 2 .. N + 2 PROVE i \in S <=> i - 1 \in R
    <3> PICK j : j = i - 1
      OBVIOUS
    <3>1. j + 1 = i /\ (j = N + 1 \/ j \in n + 1 .. N)
      BY <1>1
    <3>2. j = N + 1 => i \in S /\ j \in R
      BY <1>1, <1>7, <1>4, <3>1
    <3>3. ASSUME j \in n + 1 .. N PROVE i \in Q <=> j \in P
      <4>1. j + 1 \in Q <=> j \in P
        BY <1>6, <3>3
      <4>2. j + 1 = i
        BY <3>1
      <4> QED BY <4>1, <4>2, Zenon
    <3>4. j \in n + 1 .. N => i # 0 /\ i # N + 2 /\ j # 0 /\ j # N + 1
      BY <1>1, <3>1
    <3> QED BY <1>7, <1>4, <3>1, <3>2, <3>3, <3>4
  <2> QED BY <2>1, <2>2
<1>10. KeepsTurn(t, S, R)
  <2>1. S \subseteq Int /\ R \subseteq Int /\ n \in Int
    BY <1>1, <1>8
  <2>2. ASSUME NEW i \in S
        PROVE  /\ i \in 0 .. n \/ i \in n + 2 .. N + 2
               /\ t[i] \in R /\ t[i] = IF i <= n THEN i ELSE i - 1
    BY <1>1, <1>5, <1>8, <1>9
  <2>3. \A i, j \in S : i < j => t[i] < t[j]
    BY <1>1, <2>1, <2>2
  <2>4. \A r \in R : \E l \in S : t[l] = r
    <3> SUFFICES ASSUME NEW r \in R PROVE \E l \in S : t[l] = r
      OBVIOUS
    <3>1. CASE r <= n
      <4>1. r \in 0 .. n
        BY <1>1, <1>8, <3>1
      <4>2. r \in S
        BY <1>9, <4>1
      <4>3. t[r] = r
        BY <3>1, <4>2
      <4> QED BY <4>2, <4>3
    <3>2. CASE ~ (r <= n)
      <4>1. r + 1 \in n + 2 .. N + 2 /\ (r + 1) - 1 = r /\ ~ (r + 1 <= n)
        BY <1>1, <1>8, <3>2
      <4>2. r + 1 \in S
        BY <1>9, <4>1
      <4>3. t[r + 1] = r
        BY <4>1, <4>2
      <4> QED BY <4>2, <4>3
    <3> QED BY <3>1, <3>2
  <2> HIDE DEF t
  <2> QED BY <2>1, <2>2, <2>3, <2>4 DEF KeepsTurn
<1>11. \A i \in S : g[i] = f[t[i]]
  <2> SUFFICES ASSUME NEW i \in S PROVE g[i] = f[t[i]]
    OBVIOUS
  <2>1. g[i] = NumberAt(z, i)'
    BY DEF Numbering, S
  <2>2. t[i] \in R /\ t[i] = IF i <= n THEN i ELSE i - 1
    BY <1>10 DEF KeepsTurn
  <2>3. f[t[i]] = NumberAt(w, t[i])
    BY <2>2 DEF Numbering, R
  <2>4. i \in 0 .. n \/ i \in n + 2 .. N + 2
    BY <1>1, <1>5, <1>8
  <2> HIDE DEF t, f, g
  <2>5. CASE i \in 0 .. n
    <3>1. i = 0 \/ (i \in 1 .. n /\ i \in 1 .. N /\ i <= N /\ i <= N + 1 /\ i # 0)
      BY <1>1, <2>5
    <3>2. t[i] = i
      BY <1>1, <2>2, <2>5
    <3>3. NumberAt(z, i)' = NumberAt(w, i)
      BY <1>1, <1>2, <3>1 DEF NumberAt
    <3> QED BY <2>1, <2>3, <3>2, <3>3
  <2>6. CASE i \in n + 2 .. N + 2
    <3> PICK j : j = i - 1
      OBVIOUS
    <3>1. j + 1 = i /\ t[i] = j /\ i # 0 /\ j # 0
      BY <1>1, <2>2, <2>6
    <3>2. \/ i > N + 1 /\ j > N
          \/ j \in n + 1 .. N /\ j \in 1 .. N /\ ~ (i > N + 1) /\ ~ (j > N)
      BY <1>1, <2>6
    <3>3. CASE i > N + 1 /\ j > N
      <4>1. NumberAt(z, i)' = num' /\ NumberAt(w, j) = num
        BY <1>1, <3>1, <3>3 DEF NumberAt
      <4> QED BY <2>1, <2>3, <3>1, <4>1
    <3>4. CASE j \in n + 1 .. N /\ j \in 1 .. N /\ ~ (i > N + 1) /\ ~ (j > N)
      <4>1. z[i] = w[j] /\ text'[w[j]] = text[w[j]]
        BY <1>1, <1>2, <3>1, <3>4
      <4>2. NumberAt(z, i)' = text'[z[i]].mtext.num /\ NumberAt(w, j) = text[w[j]].mtext.num
        BY <1>1, <3>1, <3>4 DEF NumberAt
      <4> QED BY <2>1, <2>3, <3>1, <4>1, <4>2
    <3> QED BY <3>2, <3>3, <3>4
  <2> QED BY <2>4, <2>5, <2>6
<1>12. InTurn(R, f)
  BY NoReportLostInTurn DEF R
<1> HIDE DEF t, f, g
<1>13. InTurn(S, g)
  BY <1>10, <1>11, <1>12, KeptInTurn
<1> QED
  BY <1>13, NextInTurn DEF S, g

\* ... and go.
LEMMA WayRemove ==
  ASSUME NEW u \in Seq(AnyMsg), NEW v \in Seq(AnyMsg), NEW x \in AnyMsg,
         OnTheWay = u \o (<<x>> \o v), OnTheWay' = u \o v, NoReportLost,
         ~ IsReport(x),
         \A b \in Contents(u \o v) : text'[b] = text[b], UNCHANGED <<num, last>>
  PROVE  NoReportLost'
<1> PICK w : w = u \o v
  OBVIOUS
<1> PICK z : z = u \o (<<x>> \o v)
  OBVIOUS
<1> PICK n : n = Len(u)
  OBVIOUS
<1> PICK N : N = Len(w)
  OBVIOUS
<1> DEFINE R == Reports(z)
           S == Reports(w)'
           f == Numbering(z)
           g == Numbering(w)'
           t == [i \in S |-> IF i <= n THEN i ELSE i + 1]
<1>1. /\ w \in Seq(AnyMsg) /\ z \in Seq(AnyMsg)
      /\ N \in Nat /\ n \in 0 .. N /\ Len(z) = N + 1
      /\ \A i \in 1 .. n : z[i] = w[i]
      /\ z[n + 1] = x
      /\ \A i \in n + 1 .. N : z[i + 1] = w[i]
  BY OneMore
<1>2. /\ DOMAIN w = 1 .. N /\ DOMAIN z = 1 .. N + 1
      /\ \A i \in 1 .. N : /\ IsReport(w[i])' <=> IsReport(w[i])
                           /\ text'[w[i]] = text[w[i]]
  BY <1>1, SameTexts, LenProperties
<1> PICK P : P = {i \in 1 .. N : IsReport(w[i])'}
  OBVIOUS
<1> PICK Q : Q = {i \in 1 .. N + 1 : IsReport(z[i])}
  OBVIOUS
<1>3. S = {0, N + 1} \cup P /\ P \subseteq 1 .. N
  <2>1. S = {0, Len(w) + 1} \cup {i \in DOMAIN w : IsReport(w[i])'}
    BY DEF Reports
  <2>2. {i \in DOMAIN w : IsReport(w[i])'} = P
    BY <1>2
  <2> QED BY <2>1, <2>2
<1>4. R = {0, N + 2} \cup Q /\ Q \subseteq 1 .. N + 1
  <2>1. R = {0, Len(z) + 1} \cup {i \in DOMAIN z : IsReport(z[i])}
    BY DEF Reports
  <2>2. {i \in DOMAIN z : IsReport(z[i])} = Q
    BY <1>2
  <2>3. Len(z) + 1 = N + 2
    BY <1>1
  <2> QED BY <2>1, <2>2, <2>3
<1>5. n + 1 \notin R
  <2>1. n + 1 \notin Q
    BY <1>1
  <2>2. n + 1 # 0 /\ n + 1 # N + 2
    BY <1>1
  <2> QED BY <1>4, <2>1, <2>2
<1>6. /\ \A i \in 1 .. n : i \in Q <=> i \in P
      /\ \A i \in n + 1 .. N : i + 1 \in Q <=> i \in P
  <2>1. ASSUME NEW i \in 1 .. n PROVE i \in Q <=> i \in P
    <3>1. i \in 1 .. N /\ i \in 1 .. N + 1 /\ z[i] = w[i]
      BY <1>1
    <3>2. IsReport(w[i])' <=> IsReport(z[i])
      BY <1>2, <3>1
    <3> QED BY <3>1, <3>2
  <2>2. ASSUME NEW i \in n + 1 .. N PROVE i + 1 \in Q <=> i \in P
    <3>1. i \in 1 .. N /\ i + 1 \in 1 .. N + 1 /\ z[i + 1] = w[i]
      BY <1>1
    <3>2. IsReport(w[i])' <=> IsReport(z[i + 1])
      BY <1>2, <3>1
    <3> QED BY <3>1, <3>2
  <2> QED BY <2>1, <2>2
<1> HIDE DEF R, S
<1>7. R \subseteq 0 .. N + 2 /\ S \subseteq 0 .. N + 1
  BY <1>1, <1>3, <1>4
<1>8. /\ \A i \in 0 .. n : i \in S <=> i \in R
      /\ \A i \in n + 1 .. N + 1 : i \in S <=> i + 1 \in R
  <2>1. ASSUME NEW i \in 0 .. n PROVE i \in S <=> i \in R
    <3>1. i = 0 \/ i \in 1 .. n
      BY <1>1
    <3>2. 0 \in S /\ 0 \in R /\ (i \in 1 .. n => i # 0 /\ i # N + 2 /\ i # N + 1)
      BY <1>1, <1>3, <1>4
    <3>3. i \in 1 .. n => (i \in Q <=> i \in P)
      BY <1>6
    <3> QED BY <1>3, <1>4, <3>1, <3>2, <3>3
  <2>2. ASSUME NEW i \in n + 1 .. N + 1 PROVE i \in S <=> i + 1 \in R
    <3> PICK j : j = i + 1
      OBVIOUS
    <3>1. i = N + 1 \/ i \in n + 1 .. N
      BY <1>1
    <3>2. i = N + 1 => i \in S /\ j \in R
      BY <1>1, <1>3, <1>4
    <3>3. i \in n + 1 .. N => (j \in Q <=> i \in P)
      BY <1>6
    <3>4. i \in n + 1 .. N => i # 0 /\ i # N + 1 /\ j # 0 /\ j # N + 2
      BY <1>1
    <3> QED BY <1>3, <1>4, <3>1, <3>2, <3>3, <3>4
  <2> QED BY <2>1, <2>2
<1>9. KeepsTurn(t, S, R)
  <2>1. S \subseteq Int /\ R \subseteq Int /\ n \in Int
    BY <1>1, <1>7
  <2>2. ASSUME NEW i \in S
        PROVE  /\ i \in 0 .. n \/ i \in n + 1 .. N + 1
               /\ t[i] \in R /\ t[i] = IF i <= n THEN i ELSE i + 1
    BY <1>1, <1>7, <1>8
  <2>3. \A i, j \in S : i < j => t[i] < t[j]
    BY <1>1, <2>1, <2>2
  <2>4. \A r \in R : \E l \in S : t[l] = r
    <3> SUFFICES ASSUME NEW r \in R PROVE \E l \in S : t[l] = r
      OBVIOUS
    <3>1. CASE r <= n
      <4>1. r \in 0 .. n
        BY <1>1, <1>7, <3>1
      <4>2. r \in S
        BY <1>8, <4>1
      <4>3. t[r] = r
        BY <3>1, <4>2
      <4> QED BY <4>2, <4>3
    <3>2. CASE ~ (r <= n)
      <4>1. r # n + 1
        BY <1>5
      <4>2. r - 1 \in n + 1 .. N + 1 /\ (r - 1) + 1 = r /\ ~ (r - 1 <= n)
        BY <1>1, <1>7, <3>2, <4>1
      <4>3. r - 1 \in S
        BY <1>8, <4>2
      <4>4. t[r - 1] = r
        BY <4>2, <4>3
      <4> QED BY <4>3, <4>4
    <3> QED BY <3>1, <3>2
  <2> HIDE DEF t
  <2> QED BY <2>1, <2>2, <2>3, <2>4 DEF KeepsTurn
<1>10. \A i \in S : g[i] = f[t[i]]
  <2> SUFFICES ASSUME NEW i \in S PROVE g[i] = f[t[i]]
    OBVIOUS
  <2>1. g[i] = NumberAt(w, i)'
    BY DEF Numbering, S
  <2>2. t[i] \in R /\ t[i] = IF i <= n THEN i ELSE i + 1
    BY <1>9 DEF KeepsTurn
  <2>3. f[t[i]] = NumberAt(z, t[i])
    BY <2>2 DEF Numbering, R
  <2>4. i \in 0 .. n \/ i \in n + 1 .. N + 1
    BY <1>1, <1>7
  <2> HIDE DEF t, f, g
  <2>5. CASE i \in 0 .. n
    <3>1. i = 0 \/ (i \in 1 .. n /\ i \in 1 .. N /\ i <= N /\ i <= N + 1 /\ i # 0)
      BY <1>1, <2>5
    <3>2. t[i] = i
      BY <1>1, <2>2, <2>5
    <3>3. NumberAt(w, i)' = NumberAt(z, i)
      BY <1>1, <1>2, <3>1 DEF NumberAt
    <3> QED BY <2>1, <2>3, <3>2, <3>3
  <2>6. CASE i \in n + 1 .. N + 1
    <3> PICK j : j = i + 1
      OBVIOUS
    <3>1. t[i] = j /\ i # 0 /\ j # 0
      BY <1>1, <2>2, <2>6
    <3>2. \/ i > N /\ j > N + 1
          \/ i \in n + 1 .. N /\ i \in 1 .. N /\ ~ (i > N) /\ ~ (j > N + 1)
      BY <1>1, <2>6
    <3>3. CASE i > N /\ j > N + 1
      <4>1. NumberAt(w, i)' = num' /\ NumberAt(z, j) = num
        BY <1>1, <3>1, <3>3 DEF NumberAt
      <4> QED BY <2>1, <2>3, <3>1, <4>1
    <3>4. CASE i \in n + 1 .. N /\ i \in 1 .. N /\ ~ (i > N) /\ ~ (j > N + 1)
      <4>1. z[j] = w[i] /\ text'[w[i]] = text[w[i]]
        BY <1>1, <1>2, <3>1, <3>4
      <4>2. NumberAt(w, i)' = text'[w[i]].mtext.num /\ NumberAt(z, j) = text[z[j]].mtext.num
        BY <1>1, <3>1, <3>4 DEF NumberAt
      <4> QED BY <2>1, <2>3, <3>1, <4>1, <4>2
    <3> QED BY <3>2, <3>3, <3>4
  <2> QED BY <2>4, <2>5, <2>6
<1>11. InTurn(R, f)
  BY NoReportLostInTurn DEF R
<1> HIDE DEF t, f, g
<1>12. InTurn(S, g)
  BY <1>9, <1>10, <1>11, KeptInTurn
<1> QED
  BY <1>12, NextInTurn DEF S, g

\* C takes the first report.
LEMMA WayTail ==
  ASSUME NEW w \in Seq(AnyMsg), w # << >>, OnTheWay = w, OnTheWay' = Tail(w), NoReportLost,
         IsReport(w[1]), last' = text[w[1]].mtext.num, UNCHANGED <<num, text>>
  PROVE  NoReportLost'
<1> PICK r : r = Tail(w)
  OBVIOUS
<1> PICK N : N = Len(r)
  OBVIOUS
<1> DEFINE R == Reports(w)
           S == Reports(r)'
           f == Numbering(w)
           g == Numbering(r)'
           t == [i \in S |-> i + 1]
<1>1. /\ r \in Seq(AnyMsg) /\ N \in Nat /\ Len(w) = N + 1
      /\ \A i \in 1 .. N : r[i] = w[i + 1]
      /\ DOMAIN r = 1 .. N /\ DOMAIN w = 1 .. N + 1
  BY HeadTailProperties, EmptySeq, LenProperties
<1> PICK P : P = {i \in 1 .. N : IsReport(r[i])'}
  OBVIOUS
<1> PICK Q : Q = {i \in 1 .. N + 1 : IsReport(w[i])}
  OBVIOUS
<1>2. S = {0, N + 1} \cup P /\ P \subseteq 1 .. N
  <2>1. S = {0, Len(r) + 1} \cup {i \in DOMAIN r : IsReport(r[i])'}
    BY DEF Reports
  <2>2. {i \in DOMAIN r : IsReport(r[i])'} = P
    BY <1>1
  <2> QED BY <2>1, <2>2
<1>3. R = {0, N + 2} \cup Q /\ Q \subseteq 1 .. N + 1
  <2>1. R = {0, Len(w) + 1} \cup {i \in DOMAIN w : IsReport(w[i])}
    BY DEF Reports
  <2>2. {i \in DOMAIN w : IsReport(w[i])} = Q
    BY <1>1
  <2>3. Len(w) + 1 = N + 2
    BY <1>1
  <2> QED BY <2>1, <2>2, <2>3
<1>4. 1 \in Q /\ \A i \in 1 .. N : i + 1 \in Q <=> i \in P
  <2>1. 1 \in 1 .. N + 1
    BY <1>1
  <2>2. ASSUME NEW i \in 1 .. N PROVE i + 1 \in Q <=> i \in P
    <3>1. i + 1 \in 1 .. N + 1 /\ r[i] = w[i + 1]
      BY <1>1
    <3>2. IsReport(r[i])' <=> IsReport(w[i + 1])
      BY <3>1 DEF IsReport
    <3> QED BY <3>1, <3>2
  <2> QED BY <2>1, <2>2
<1> HIDE DEF R, S
<1>5. R \subseteq 0 .. N + 2 /\ S \subseteq 0 .. N + 1
  BY <1>1, <1>2, <1>3
<1>6. \A i \in 0 .. N + 1 : i \in S <=> i + 1 \in R
  <2> SUFFICES ASSUME NEW i \in 0 .. N + 1 PROVE i \in S <=> i + 1 \in R
    OBVIOUS
  <2> PICK j : j = i + 1
    OBVIOUS
  <2>1. i = 0 \/ i = N + 1 \/ i \in 1 .. N
    BY <1>1
  <2>2. i = 0 => i \in S /\ j \in R
    BY <1>2, <1>3, <1>4
  <2>3. i = N + 1 => i \in S /\ j \in R
    BY <1>1, <1>2, <1>3
  <2>4. i \in 1 .. N => (j \in Q <=> i \in P)
    BY <1>4
  <2>5. i \in 1 .. N => i # 0 /\ i # N + 1 /\ j # 0 /\ j # N + 2
    BY <1>1
  <2> QED BY <1>2, <1>3, <2>1, <2>2, <2>3, <2>4, <2>5
<1>7. KeepsTurn(t, S, R)
  <2>1. S \subseteq Int /\ R \subseteq Int
    BY <1>1, <1>5
  <2>2. ASSUME NEW i \in S PROVE i \in 0 .. N + 1 /\ t[i] \in R /\ t[i] = i + 1
    BY <1>5, <1>6
  <2>3. \A i, j \in S : i < j => t[i] < t[j]
    BY <2>1, <2>2
  <2>4. ASSUME NEW i \in S, NEW x \in R, t[i] < x PROVE \E l \in S : t[l] = x
    <3>1. x - 1 \in 0 .. N + 1 /\ (x - 1) + 1 = x
      BY <1>1, <1>5, <2>2, <2>4
    <3>2. x - 1 \in S
      BY <1>6, <3>1
    <3>3. t[x - 1] = x
      BY <3>1, <3>2
    <3> QED BY <3>2, <3>3
  <2> HIDE DEF t
  <2> QED BY <2>1, <2>2, <2>3, <2>4 DEF KeepsTurn
<1>8. \A i \in S : g[i] = f[t[i]]
  <2> SUFFICES ASSUME NEW i \in S PROVE g[i] = f[t[i]]
    OBVIOUS
  <2> PICK j : j = i + 1
    OBVIOUS
  <2>1. g[i] = NumberAt(r, i)'
    BY DEF Numbering, S
  <2>2. j \in R /\ t[i] = j /\ i \in 0 .. N + 1
    BY <1>5, <1>6
  <2>3. f[t[i]] = NumberAt(w, j)
    BY <2>2 DEF Numbering, R
  <2> HIDE DEF t, f, g
  <2>4. CASE i = 0
    <3>1. NumberAt(r, i)' = last' /\ NumberAt(w, j) = text[w[1]].mtext.num
      BY <1>1, <2>4 DEF NumberAt
    <3> QED BY <2>1, <2>3, <3>1
  <2>5. CASE i = N + 1
    <3>1. i # 0 /\ i > N /\ j # 0 /\ j > N + 1
      BY <1>1, <2>5
    <3>2. NumberAt(r, i)' = num' /\ NumberAt(w, j) = num
      BY <1>1, <3>1 DEF NumberAt
    <3> QED BY <2>1, <2>3, <3>2
  <2>6. CASE i \in 1 .. N
    <3>1. i # 0 /\ ~ (i > N) /\ j # 0 /\ ~ (j > N + 1) /\ r[i] = w[j]
      BY <1>1, <2>6
    <3>2. NumberAt(r, i)' = text'[r[i]].mtext.num /\ NumberAt(w, j) = text[w[j]].mtext.num
      BY <1>1, <3>1 DEF NumberAt
    <3> QED BY <2>1, <2>3, <3>1, <3>2
  <2>7. i = 0 \/ i = N + 1 \/ i \in 1 .. N
    BY <1>1, <2>2
  <2> QED BY <2>4, <2>5, <2>6, <2>7
<1>9. InTurn(R, f)
  BY NoReportLostInTurn DEF R
<1> HIDE DEF t, f, g
<1>10. InTurn(S, g)
  BY <1>7, <1>8, <1>9, KeptInTurn
<1> QED
  BY <1>10, NextInTurn DEF S, g

\* A sends a report behind the others.
LEMMA WayAppend ==
  ASSUME NEW w \in Seq(AnyMsg), NEW x \in AnyMsg, OnTheWay = w, OnTheWay' = Append(w, x),
         NoReportLost, IsReport(x)', text'[x].mtext.num = num,
         num' = (num + 1) % MAX_NUM, UNCHANGED last,
         \A b \in Contents(w) : text'[b] = text[b]
  PROVE  NoReportLost'
<1> PICK z : z = Append(w, x)
  OBVIOUS
<1> PICK N : N = Len(w)
  OBVIOUS
<1> DEFINE R == Reports(w)
           S == Reports(z)'
           f == Numbering(w)
           g == Numbering(z)'
<1>1. /\ z \in Seq(AnyMsg) /\ N \in Nat /\ Len(z) = N + 1
      /\ \A i \in 1 .. N : z[i] = w[i]
      /\ z[N + 1] = x
      /\ DOMAIN w = 1 .. N /\ DOMAIN z = 1 .. N + 1
  BY AppendProperties, LenProperties
<1>2. \A i \in 1 .. N : /\ IsReport(w[i])' <=> IsReport(w[i])
                        /\ text'[w[i]] = text[w[i]]
  BY SameTexts
<1> PICK P : P = {i \in 1 .. N : IsReport(w[i])}
  OBVIOUS
<1> PICK Q : Q = {i \in 1 .. N + 1 : IsReport(z[i])'}
  OBVIOUS
<1>3. R = {0, N + 1} \cup P /\ P \subseteq 1 .. N
  <2>1. R = {0, Len(w) + 1} \cup {i \in DOMAIN w : IsReport(w[i])}
    BY DEF Reports
  <2>2. {i \in DOMAIN w : IsReport(w[i])} = P
    BY <1>1
  <2> QED BY <2>1, <2>2
<1>4. S = {0, N + 2} \cup Q /\ Q \subseteq 1 .. N + 1
  <2>1. S = {0, Len(z) + 1} \cup {i \in DOMAIN z : IsReport(z[i])'}
    BY DEF Reports
  <2>2. {i \in DOMAIN z : IsReport(z[i])'} = Q
    BY <1>1
  <2>3. Len(z) + 1 = N + 2
    BY <1>1
  <2> QED BY <2>1, <2>2, <2>3
<1>5. N + 1 \in Q /\ \A i \in 1 .. N : i \in Q <=> i \in P
  <2>1. N + 1 \in Q
    <3>1. IsReport(z[N + 1])'
      BY <1>1
    <3>2. N + 1 \in 1 .. N + 1
      BY <1>1
    <3> QED BY <3>1, <3>2
  <2>2. ASSUME NEW i \in 1 .. N PROVE i \in Q <=> i \in P
    <3>1. i \in 1 .. N + 1 /\ z[i] = w[i]
      BY <1>1
    <3>2. IsReport(z[i])' <=> IsReport(w[i])
      BY <1>2, <3>1
    <3> QED BY <3>1, <3>2
  <2> QED BY <2>1, <2>2
<1> HIDE DEF R, S
<1>6. S = R \cup {N + 2} /\ N + 1 \in R /\ R \subseteq 0 .. N + 1
  <2>1. Q = P \cup {N + 1}
    <3>1. \A i \in 1 .. N + 1 : i \in 1 .. N \/ i = N + 1
      BY <1>1
    <3>2. \A i \in 1 .. N : i \in 1 .. N + 1
      BY <1>1
    <3> QED BY <1>3, <1>4, <1>5, <3>1, <3>2, Zenon
  <2>2. R \subseteq 0 .. N + 1
    BY <1>1, <1>3
  <2> QED BY <1>3, <1>4, <2>1, <2>2
<1>7. \A i \in R : g[i] = f[i]
  <2> SUFFICES ASSUME NEW i \in R PROVE g[i] = f[i]
    OBVIOUS
  <2>1. g[i] = NumberAt(z, i)' /\ f[i] = NumberAt(w, i)
    <3>1. i \in S
      BY <1>6
    <3> QED BY <3>1 DEF Numbering, S, R
  <2> HIDE DEF f, g
  <2>2. CASE i = 0
    BY <2>1, <2>2 DEF NumberAt
  <2>3. CASE i = N + 1
    <3>1. i # 0 /\ i > N /\ ~ (i > N + 1)
      BY <1>1, <2>3
    <3>2. NumberAt(w, i) = num /\ NumberAt(z, i)' = text'[z[i]].mtext.num
      BY <1>1, <3>1 DEF NumberAt
    <3> QED BY <1>1, <2>1, <2>3, <3>2
  <2>4. CASE i \in 1 .. N
    <3>1. i # 0 /\ ~ (i > N) /\ ~ (i > N + 1) /\ z[i] = w[i]
      BY <1>1, <2>4
    <3>2. NumberAt(w, i) = text[w[i]].mtext.num /\ NumberAt(z, i)' = text'[z[i]].mtext.num
      BY <1>1, <3>1 DEF NumberAt
    <3> QED BY <1>2, <2>1, <2>4, <3>1, <3>2
  <2>5. i = 0 \/ i = N + 1 \/ i \in 1 .. N
    BY <1>1, <1>6
  <2> QED BY <2>2, <2>3, <2>4, <2>5
<1>8. g[N + 2] = num' /\ g[N + 1] = num
  <2>1. N + 2 \in S /\ N + 2 # 0 /\ N + 2 > N + 1
    BY <1>1, <1>6
  <2>2. g[N + 2] = NumberAt(z, N + 2)'
    BY <2>1 DEF Numbering, S
  <2>3. N + 1 \in R /\ N + 1 # 0 /\ N + 1 > N
    BY <1>1, <1>6
  <2>4. f[N + 1] = NumberAt(w, N + 1)
    BY <2>3 DEF Numbering, R
  <2>5. g[N + 1] = f[N + 1]
    BY <1>7, <2>3
  <2> HIDE DEF f, g
  <2>6. NumberAt(z, N + 2)' = num' /\ NumberAt(w, N + 1) = num
    BY <1>1, <2>1, <2>3 DEF NumberAt
  <2> QED BY <2>2, <2>4, <2>5, <2>6
<1>9. InTurn(R, f)
  BY NoReportLostInTurn DEF R
<1> HIDE DEF f, g
<1>10. ASSUME NEW i \in S, NEW j \in S, i < j, \A l \in S : l <= i \/ j <= l
       PROVE  g[j] = (g[i] + 1) % MAX_NUM
  <2>1. i \in Int /\ j \in Int /\ N \in Int
    BY <1>1, <1>6
  <2>2. CASE j = N + 2
    <3>1. N + 1 <= i
      <4>1. ~ (j <= N + 1) /\ N + 1 \in S
        BY <1>1, <1>6, <2>2
      <4> QED BY <1>10, <4>1
    <3>2. i = N + 1
      BY <1>1, <1>6, <1>10, <2>1, <2>2, <3>1
    <3> QED BY <1>8, <2>2, <3>2
  <2>3. CASE j # N + 2
    <3>1. j \in R /\ i \in R
      BY <1>1, <1>6, <1>10, <2>1, <2>3
    <3>2. \A l \in R : l <= i \/ j <= l
      BY <1>6, <1>10
    <3>3. f[j] = (f[i] + 1) % MAX_NUM
      BY <1>9, <1>10, <3>1, <3>2 DEF InTurn
    <3> QED BY <1>7, <3>1, <3>3
  <2> QED BY <2>2, <2>3
<1>11. InTurn(S, g)
  BY <1>10 DEF InTurn
<1> QED
  BY <1>11, NextInTurn DEF S, g

-----------------------------------------------------------------------------
(* The way of the reports, and what the processes do to it. *)

LEMMA Parts ==
  ASSUME StressInv
  PROVE  /\ c_message_queue \in Seq(AnyMsg) /\ InHand \in Seq(AnyMsg)
         /\ \A p \in Procs : /\ g_message_queues[p] \in Seq(Envelope)
                             /\ Mailed(p) \in Seq(AnyMsg)
         /\ OnTheWay = ((c_message_queue \o Mailed(PID_C)) \o InHand) \o Mailed(PID_B)
         /\ OnTheWay \in Seq(AnyMsg)
<1>1. c_message_queue \in Seq(AnyMsg)
  <2>1. c_message_queue \in Seq(mem_blocks)
    BY DEF StressInv, ProgramsInv, CInv
  <2>2. Len(c_message_queue) \in Nat /\ DOMAIN c_message_queue = 1 .. Len(c_message_queue)
        /\ \A i \in 1 .. Len(c_message_queue) : c_message_queue[i] \in mem_blocks
    BY <2>1, LenProperties, ElementOfSeq
  <2> QED BY <2>1, <2>2 DEF AnyMsg
<1>2. InHand \in Seq(AnyMsg)
  <2>1. hand[PID_B] # NoBlock => hand[PID_B] \in mem_blocks
    BY DEF StressInv, ProgramsInv, BInv
  <2>2. hand[PID_B] # NoBlock => <<hand[PID_B]>> \in Seq(AnyMsg)
    BY <2>1 DEF AnyMsg
  <2>3. << >> \in Seq(AnyMsg)
    OBVIOUS
  <2> QED BY <2>2, <2>3 DEF InHand
<1>3. \A p \in Procs : g_message_queues[p] \in Seq(Envelope) /\ Mailed(p) \in Seq(AnyMsg)
  <2> SUFFICES ASSUME NEW p \in Procs
               PROVE  g_message_queues[p] \in Seq(Envelope) /\ Mailed(p) \in Seq(AnyMsg)
    OBVIOUS
  <2>1. g_message_queues \in Mailboxes
    BY Types DEF StressInv, Sound
  <2>2. g_message_queues[p] \in Seq(Envelope)
    BY <2>1 DEF Mailboxes
  <2> QED BY <2>2, MailedSeq DEF Mailed
<1>4. OnTheWay = ((c_message_queue \o Mailed(PID_C)) \o InHand) \o Mailed(PID_B)
  BY DEF OnTheWay, InHand
<1>5. OnTheWay \in Seq(AnyMsg)
  BY <1>1, <1>2, <1>3, <1>4, PidsDistinct, ConcatProperties
<1> QED
  BY <1>1, <1>2, <1>3, <1>4, <1>5

\* The parts after a step.
LEMMA NewWay ==
  ASSUME NEW a, NEW m, NEW h, NEW d,
         c_message_queue' = a, Mailed(PID_C)' = m, InHand' = h, Mailed(PID_B)' = d
  PROVE  OnTheWay' = ((a \o m) \o h) \o d
BY DEF OnTheWay, InHand

LEMMA ConcatContents ==
  ASSUME NEW S, NEW s \in Seq(S), NEW t \in Seq(S)
  PROVE  Contents(s \o t) \subseteq Contents(s) \cup Contents(t)
<1> PICK r : r = s \o t
  OBVIOUS
<1>1. /\ Len(s) \in Nat /\ Len(t) \in Nat
      /\ DOMAIN s = 1 .. Len(s) /\ DOMAIN t = 1 .. Len(t) /\ DOMAIN r = 1 .. Len(s) + Len(t)
      /\ \A i \in 1 .. Len(s) + Len(t) : r[i] = IF i <= Len(s) THEN s[i] ELSE t[i - Len(s)]
  BY ConcatProperties, LenProperties
<1>2. ASSUME NEW i \in DOMAIN r PROVE r[i] \in Contents(s) \cup Contents(t)
  <2>1. CASE i <= Len(s)
    BY <1>1, <2>1 DEF Contents
  <2>2. CASE ~ (i <= Len(s))
    <3>1. i - Len(s) \in 1 .. Len(t) /\ r[i] = t[i - Len(s)]
      BY <1>1, <2>2
    <3> QED BY <1>1, <3>1 DEF Contents
  <2> QED BY <2>1, <2>2
<1> QED
  BY <1>2 DEF Contents

\* Where the messages on the way are.
LEMMA WhereOnTheWay ==
  ASSUME StressInv, NEW b \in Contents(OnTheWay)
  PROVE  /\ b \in mem_blocks
         /\ \/ b \in Contents(c_message_queue)
            \/ b \in Msgs(g_message_queues[PID_C])
            \/ hand[PID_B] # NoBlock /\ b = hand[PID_B]
            \/ b \in Msgs(g_message_queues[PID_B])
<1> DEFINE m == Mailed(PID_C)
           d == Mailed(PID_B)
           c == c_message_queue
           h == InHand
<1>1. /\ c \in Seq(AnyMsg) /\ h \in Seq(AnyMsg) /\ m \in Seq(AnyMsg) /\ d \in Seq(AnyMsg)
      /\ OnTheWay = ((c \o m) \o h) \o d
  BY Parts, PidsDistinct
<1>2. Contents(m) = Msgs(g_message_queues[PID_C]) /\ Contents(d) = Msgs(g_message_queues[PID_B])
  BY DEF Mailed, Contents, Msgs
<1>3. b \in Contents(h) => hand[PID_B] # NoBlock /\ b = hand[PID_B]
  BY DEF InHand, Contents
<1> HIDE DEF m, d, c, h
<1>4. c \o m \in Seq(AnyMsg) /\ (c \o m) \o h \in Seq(AnyMsg)
  BY <1>1, ConcatProperties
<1>5. b \in Contents(c) \cup Contents(m) \cup Contents(h) \cup Contents(d)
  <2>1. Contents(c \o m) \subseteq Contents(c) \cup Contents(m)
    BY <1>1, ConcatContents
  <2>2. Contents((c \o m) \o h) \subseteq Contents(c \o m) \cup Contents(h)
    BY <1>1, <1>4, ConcatContents
  <2>3. Contents(((c \o m) \o h) \o d) \subseteq Contents((c \o m) \o h) \cup Contents(d)
    BY <1>1, <1>4, ConcatContents
  <2> QED BY <1>1, <2>1, <2>2, <2>3
<1>6. b \in Contents(c) => b \in mem_blocks
  <2>1. c \in Seq(mem_blocks)
    BY DEF StressInv, ProgramsInv, CInv, c
  <2>2. \A i \in DOMAIN c : c[i] \in mem_blocks
    BY <2>1, LenProperties, ElementOfSeq
  <2> QED BY <2>2 DEF Contents
<1>7. ASSUME NEW p \in {PID_B, PID_C}, b \in Msgs(g_message_queues[p]) PROVE b \in mem_blocks
  <2>1. PICK e \in Contents(g_message_queues[p]) : e.msg = b
    BY <1>7 DEF Msgs, Contents
  <2>2. Expected(p, e)
    BY <2>1, PidsDistinct DEF StressInv, ProgramsInv, MailInv
  <2> QED BY <2>1, <2>2, PidsDistinct DEF Expected
<1>8. hand[PID_B] # NoBlock => hand[PID_B] \in mem_blocks
  BY DEF StressInv, ProgramsInv, BInv
<1> QED
  BY <1>2, <1>3, <1>5, <1>6, <1>7, <1>8 DEF c

\* B and C have what they hold of it, and nobody else has anything.
LEMMA NotHeld ==
  ASSUME StressInv, NEW b \in Contents(OnTheWay)
  PROVE  /\ \A p \in Procs \ {PID_B, PID_C} : b \notin held[p]
         /\ hand[PID_C] \in held[PID_C] => b # hand[PID_C]
<1>1. /\ b \in mem_blocks
      /\ \/ b \in Contents(c_message_queue)
         \/ b \in Msgs(g_message_queues[PID_C])
         \/ hand[PID_B] # NoBlock /\ b = hand[PID_B]
         \/ b \in Msgs(g_message_queues[PID_B])
  BY WhereOnTheWay
<1>2. Sound /\ PID_B \in Procs /\ PID_C \in Procs /\ PID_B # PID_C
  BY PidsDistinct DEF StressInv
<1>3. CASE b \in Contents(c_message_queue)
  <2>1. b \in held[PID_C] /\ b # hand[PID_C]
    BY <1>3 DEF StressInv, ProgramsInv, CInv
  <2> QED BY <1>2, <2>1, HeldOnly
<1>4. CASE b \in Msgs(g_message_queues[PID_C]) \/ b \in Msgs(g_message_queues[PID_B])
  <2>1. \A r \in Procs : b \notin held[r]
    BY <1>1, <1>2, <1>4, MailOnly
  <2> QED BY <1>2, <2>1
<1>5. CASE hand[PID_B] # NoBlock /\ b = hand[PID_B]
  <2>1. b \in held[PID_B]
    BY <1>5 DEF StressInv, ProgramsInv, BInv, HandOf
  <2>2. \A r \in Procs : r # PID_B => b \notin held[r]
    BY <1>2, <2>1, HeldOnly
  <2> QED BY <1>2, <2>2
<1> QED
  BY <1>1, <1>3, <1>4, <1>5

\* Process p leaves the way alone.
Leaves(p) ==
  /\ hand'[PID_B] = hand[PID_B]
  /\ g_message_queues'[PID_B] = g_message_queues[PID_B]
  /\ g_message_queues'[PID_C] = g_message_queues[PID_C]
  /\ \A b \in mem_blocks \ held[p] : text'[b] = text[b]

LEMMA SameWay ==
  ASSUME UNCHANGED c_message_queue, hand'[PID_B] = hand[PID_B],
         g_message_queues'[PID_B] = g_message_queues[PID_B],
         g_message_queues'[PID_C] = g_message_queues[PID_C]
  PROVE  OnTheWay' = OnTheWay
<1>1. Mailed(PID_B)' = Mailed(PID_B) /\ Mailed(PID_C)' = Mailed(PID_C)
  BY DEF Mailed
<1>2. InHand' = InHand
  BY DEF InHand
<1> QED
  BY <1>1, <1>2, NewWay DEF OnTheWay, InHand

LEMMA LeftAlone ==
  ASSUME StressInv, NoReportLost, UNCHANGED <<c_message_queue, num, last>>,
         NEW p \in Procs \ {PID_B, PID_C}, Leaves(p)
  PROVE  NoReportLost'
<1> PICK w : w = OnTheWay
  OBVIOUS
<1>1. w \in Seq(AnyMsg)
  BY Parts
<1>2. OnTheWay' = w
  BY SameWay DEF Leaves
<1>3. \A b \in Contents(w) : text'[b] = text[b]
  BY NotHeld, WhereOnTheWay DEF Leaves
<1> QED
  BY <1>1, <1>2, <1>3, WaySame

\* The calls that leave it alone.
LEMMA CallLeaves ==
  ASSUME StressInv, NEW p \in Procs \ {PID_B, PID_C}, NEW at, NEW then,
         \/ Request(p, at, then)
         \/ Release(p, at, then)
         \/ (Step(p, at, then) \/ Yield(p, at, then)) /\ UNCHANGED <<hand, text>>
         \/ p # PID_KCD /\ Receive(p, at, then)
         \/ ReceiveNothing(p, at)
  PROVE  Leaves(p)
<1>1. Sound /\ Domains /\ PID_B \in Procs \ {p} /\ PID_C \in Procs \ {p} /\ p \in Procs
  BY PidsDistinct DEF StressInv, ProgramsInv
<1>2. ASSUME Others(p), UNCHANGED g_message_queues PROVE Leaves(p)
  BY <1>1, <1>2 DEF Leaves, Others
<1>3. CASE Request(p, at, then)
  <2>1. /\ UNCHANGED <<g_message_queues, text>>
        /\ UNCHANGED hand \/ Others(p)
    BY <1>1, <1>3, RequestCall
  <2> QED BY <1>2, <2>1 DEF Leaves
<1>4. CASE Release(p, at, then)
  BY <1>1, <1>2, <1>4, ReleaseCall
<1>5. CASE (Step(p, at, then) \/ Yield(p, at, then)) /\ UNCHANGED <<hand, text>>
  <2>1. Sound' /\ Quiet
    BY <1>1, <1>5, QuietKernel DEF Step, Yield
  <2> QED BY <1>5, <2>1 DEF Quiet, Leaves
<1>6. CASE p # PID_KCD /\ Receive(p, at, then)
  <2>1. Others(p) /\ Read(p, Mail(p))
    BY <1>1, <1>6, ReceiveCall
  <2> QED BY <1>1, <2>1 DEF Leaves, Others, Read
<1>7. CASE ReceiveNothing(p, at)
  <2>1. Caller = p /\ g_message_queues[Caller] = << >>
    BY <1>7 DEF ReceiveNothing, At, HasMail
  <2>2. Sound' /\ Quiet
    BY <1>1, <1>7, <2>1, ReceiveKernel DEF ReceiveNothing
  <2>3. UNCHANGED <<hand, text>>
    BY <1>7 DEF ReceiveNothing, procVars, locals
  <2> QED BY <2>2, <2>3 DEF Quiet, Leaves
<1> QED
  BY <1>3, <1>4, <1>5, <1>6, <1>7

LEMMA SendLeaves ==
  ASSUME StressInv, NEW p \in Procs \ {PID_B, PID_C}, NEW at, NEW then,
         NEW to \in Procs \ {PID_B, PID_C}, NEW content, IsMessage(content),
         Send(p, at, to, content, then)
  PROVE  Leaves(p)
<1>1. p \in Procs /\ to \in Procs /\ PID_B \in Procs \ {p, to} /\ PID_C \in Procs \ {p, to}
  BY PidsDistinct
<1>2. Others(p) /\ Posted(to, [msg |-> hand[p], m_send_pid |-> p])
  BY <1>1, SendCall
<1> QED
  BY <1>1, <1>2 DEF Leaves, Others, Posted

LEMMA RegisterLeaves ==
  ASSUME StressInv, NEW p \in {PID_A, PID_SET_PRIO}, NEW prefix,
         kcd_register(p, prefix, "receive")
  PROVE  Leaves(p)
<1>1. p \in Procs \ {PID_B, PID_C} /\ PID_KCD \in Procs \ {PID_B, PID_C}
  BY PidsDistinct
<1> PICK content : content = Message(KCD_REG, [cmd |-> prefix])
  OBVIOUS
<1>2. IsMessage(content)
  BY DEF IsMessage, Message
<1>3. CASE Request(p, "register", "send_register")
  BY <1>1, <1>3, CallLeaves
<1>4. CASE Send(p, "send_register", PID_KCD, content, "receive")
  BY <1>1, <1>2, <1>4, SendLeaves
<1> QED
  BY <1>3, <1>4 DEF kcd_register

LEMMA SetPrioLeaves ==
  ASSUME StressInv, proc_set_prio
  PROVE  Leaves(PID_SET_PRIO)
<1> DEFINE p == PID_SET_PRIO
<1>1. /\ p \in Procs \ {PID_B, PID_C} /\ PID_B \in Procs \ {p} /\ PID_C \in Procs \ {p}
      /\ p \in Procs /\ PID_CRT \in Procs \ {PID_B, PID_C} /\ p # PID_KCD
      /\ SetPrioInv /\ Sound /\ Domains
  BY PidsDistinct DEF StressInv, ProgramsInv
<1>2. CASE kcd_register(p, "%C", "receive")
  BY <1>2, RegisterLeaves
<1>3. CASE ReceiveNothing(p, "receive")
  BY <1>1, <1>3, CallLeaves
<1>4. CASE Receive(p, "receive", "set")
  BY <1>1, <1>4, CallLeaves
<1>5. CASE SetPrioCommand
  <2>1. Quiet /\ UNCHANGED <<hand, text>>
    BY <1>5, CommandCall
  <2> QED BY <2>1 DEF Quiet, Leaves
<1>6. CASE SetPrioError /\ At(p, "request")
  <2>1. UNCHANGED <<g_message_queues, hand, text>>
    BY <1>6, ErrorRequestCall
  <2> QED BY <2>1 DEF Leaves
<1>7. CASE SetPrioError /\ At(p, "display")
  <2>1. /\ UNCHANGED hand /\ display_msg \in held[p]
        /\ Written(display_msg, Message(CRT_DISPLAY, text[display_msg].mtext))
        /\ Posted(PID_CRT, [msg |-> display_msg, m_send_pid |-> p])
    BY <1>7, ErrorSendCall
  <2> QED BY <1>1, <2>1 DEF Leaves, Posted, Written
<1>8. CASE Release(p, "release", "receive")
  BY <1>1, <1>8, CallLeaves
<1>9. SetPrioError => At(p, "request") \/ At(p, "display")
  BY DEF SetPrioError
<1> QED
  BY <1>2, <1>3, <1>4, <1>5, <1>6, <1>7, <1>8, <1>9 DEF proc_set_prio

LEMMA CrtLeaves ==
  ASSUME StressInv, proc_crt
  PROVE  Leaves(PID_CRT)
<1> DEFINE p == PID_CRT
<1>1. p \in Procs \ {PID_B, PID_C} /\ p # PID_KCD /\ Sound /\ Domains
  BY PidsDistinct DEF StressInv, ProgramsInv
<1>2. CASE ReceiveNothing(p, "receive")
  BY <1>1, <1>2, CallLeaves
<1>3. CASE CrtReceive
  BY <1>1, <1>3, CallLeaves DEF CrtReceive
<1>4. CASE CrtPrint
  <2>1. Others(p) /\ UNCHANGED <<g_message_queues, hand>>
    BY <1>4, PrintCall
  <2> QED BY <1>1, <2>1 DEF Leaves, Others
<1>5. CASE CrtWait
  BY <1>1, <1>5, CallLeaves DEF CrtWait, locals
<1> QED
  BY <1>2, <1>3, <1>4, <1>5 DEF proc_crt

LEMMA KcdLeaves ==
  ASSUME StressInv, proc_kcd
  PROVE  Leaves(PID_KCD)
<1> DEFINE p == PID_KCD
<1>1. p \in Procs \ {PID_B, PID_C} /\ p \in Procs /\ KcdInv /\ Sound /\ Domains
      /\ PID_B \in Procs \ {p} /\ PID_C \in Procs \ {p}
  BY PidsDistinct DEF StressInv, ProgramsInv
<1>2. CASE ReceiveNothing(p, "receive")
  BY <1>1, <1>2, CallLeaves
<1>3. CASE KcdReceive
  <2> PICK e : e = Mail(p)
    OBVIOUS
  <2>1. Caller = p /\ ReceiveMessage /\ HasMail(p) /\ UNCHANGED <<hand, text>>
    BY <1>3 DEF KcdReceive, At, locals
  <2>2. Read(p, e)
    BY <1>1, <2>1, ReceiveLetter
  <2> QED BY <1>1, <2>1, <2>2 DEF Leaves, Read
<1>4. CASE KcdGetc
  <2>1. (\E then : Step(p, "getc", then)) /\ UNCHANGED <<hand, text>>
    BY <1>4 DEF KcdGetc, locals
  <2> QED BY <1>1, <2>1, CallLeaves
<1>5. CASE Step(p, "dispatch", "getc") /\ UNCHANGED locals
  BY <1>1, <1>5, CallLeaves DEF locals
<1>6. CASE Request(p, "dispatch", "forward")
  BY <1>1, <1>6, CallLeaves
<1>7. ASSUME NEW i, i = Smallest(ToServe),
             Send(p, "forward", entries[i].m_send_pid, Message(DEFAULT, msg_buf.line), "dispatch")
      PROVE  Leaves(p)
  <2> PICK content : content = Message(DEFAULT, msg_buf.line)
    OBVIOUS
  <2> PICK pid : pid = entries[i].m_send_pid
    OBVIOUS
  <2>1. IsMessage(content)
    BY DEF Message, IsMessage
  <2>2. Send(p, "forward", pid, content, "dispatch")
    BY <1>7
  <2>3. pid \in {PID_A, PID_SET_PRIO}
    BY <1>7, <2>2, ForwardTo DEF Send, At
  <2>4. pid \in Procs \ {PID_B, PID_C}
    BY <2>3, PidsDistinct
  <2> QED BY <1>1, <2>1, <2>2, <2>4, SendLeaves
<1> QED
  BY <1>2, <1>3, <1>4, <1>5, <1>6, <1>7 DEF proc_kcd, KcdDispatch

-----------------------------------------------------------------------------
(* A message goes from one part of the way to the next. *)

LEMMA TailOfConcat ==
  ASSUME NEW s \in Seq(AnyMsg), NEW t \in Seq(AnyMsg), s # << >>
  PROVE  s \o t # << >> /\ Tail(s \o t) = Tail(s) \o t /\ (s \o t)[1] = s[1]
<1> PICK r : r = Tail(s)
  OBVIOUS
<1> PICK c : c = s \o t
  OBVIOUS
<1>1. /\ r \in Seq(AnyMsg) /\ Len(r) = Len(s) - 1 /\ Len(s) \in Nat \ {0} /\ Len(t) \in Nat
      /\ \A i \in 1 .. Len(r) : r[i] = s[i + 1]
  BY HeadTailProperties, EmptySeq, LenProperties
<1>2. /\ c \in Seq(AnyMsg) /\ Len(c) = Len(s) + Len(t)
      /\ \A i \in 1 .. Len(s) + Len(t) : c[i] = IF i <= Len(s) THEN s[i] ELSE t[i - Len(s)]
  BY ConcatProperties
<1>3. c # << >>
  <2>1. Len(c) # 0
    BY <1>1, <1>2
  <2> QED BY <1>2, <2>1, EmptySeq
<1> PICK x : x = Tail(c)
  OBVIOUS
<1> PICK y : y = r \o t
  OBVIOUS
<1>4. /\ x \in Seq(AnyMsg) /\ Len(x) = Len(c) - 1
      /\ \A i \in 1 .. Len(x) : x[i] = c[i + 1]
  BY <1>2, <1>3, HeadTailProperties
<1>5. /\ y \in Seq(AnyMsg) /\ Len(y) = Len(r) + Len(t)
      /\ \A i \in 1 .. Len(r) + Len(t) : y[i] = IF i <= Len(r) THEN r[i] ELSE t[i - Len(r)]
  BY <1>1, ConcatProperties
<1>6. Len(x) = Len(y)
  BY <1>1, <1>2, <1>4, <1>5
<1>7. ASSUME NEW i \in 1 .. Len(x) PROVE x[i] = y[i]
  <2>1. /\ i + 1 \in 1 .. Len(s) + Len(t) /\ i \in 1 .. Len(r) + Len(t)
        /\ (i + 1 <= Len(s) <=> i <= Len(r)) /\ (i + 1) - Len(s) = i - Len(r)
        /\ (i <= Len(r) => i \in 1 .. Len(r))
    BY <1>1, <1>2, <1>4
  <2>2. x[i] = IF i + 1 <= Len(s) THEN s[i + 1] ELSE t[(i + 1) - Len(s)]
    BY <1>2, <1>4, <2>1
  <2>3. y[i] = IF i <= Len(r) THEN r[i] ELSE t[i - Len(r)]
    BY <1>5, <2>1
  <2> QED BY <1>1, <2>1, <2>2, <2>3
<1>8. x = y
  BY <1>4, <1>5, <1>6, <1>7, SeqEqual
<1>9. c[1] = s[1]
  <2>1. 1 \in 1 .. Len(s) + Len(t) /\ 1 <= Len(s)
    BY <1>1
  <2> QED BY <1>2, <2>1
<1> QED
  BY <1>3, <1>8, <1>9

\* One sequence behind the other, as a function of its own for the provers, and what
\* they need to know of three and of four of them.
Join(s, t) == s \o t
Way(a, m, h, d) == Join(Join(Join(a, m), h), d)

Associates(u, v, w) ==
  /\ Join(u, v) \in Seq(AnyMsg) /\ Join(v, w) \in Seq(AnyMsg)
  /\ Join(Join(u, v), w) \in Seq(AnyMsg)
  /\ Join(Join(u, v), w) = Join(u, Join(v, w))

LEMMA Associative ==
  ASSUME NEW u \in Seq(AnyMsg), NEW v \in Seq(AnyMsg), NEW w \in Seq(AnyMsg)
  PROVE  Associates(u, v, w)
<1>1. u \o v \in Seq(AnyMsg) /\ v \o w \in Seq(AnyMsg)
  BY ConcatProperties
<1>2. (u \o v) \o w \in Seq(AnyMsg)
  BY <1>1, ConcatProperties
<1>3. (u \o v) \o w = u \o (v \o w)
  BY ConcatAssociative
<1> QED
  BY <1>1, <1>2, <1>3, Zenon DEF Join, Associates

Regroups(a, m, h, d) ==
  /\ Way(a, m, h, d) \in Seq(AnyMsg)
  /\ Join(a, m) \in Seq(AnyMsg) /\ Join(h, d) \in Seq(AnyMsg)
  /\ Join(Join(a, m), h) \in Seq(AnyMsg) /\ Join(Join(m, h), d) \in Seq(AnyMsg)
  /\ Way(a, m, h, d) = Join(a, Join(Join(m, h), d))
  /\ Way(a, m, h, d) = Join(Join(a, m), Join(h, d))
  /\ Join(Join(m, h), d) = Join(m, Join(h, d))

LEMMA Regroup ==
  ASSUME NEW a \in Seq(AnyMsg), NEW m \in Seq(AnyMsg), NEW h \in Seq(AnyMsg), NEW d \in Seq(AnyMsg)
  PROVE  Regroups(a, m, h, d)
<1>1. Associates(a, m, h) /\ Associates(m, h, d)
  BY Associative
<1>2. PICK am \in Seq(AnyMsg) : am = Join(a, m)
  BY <1>1 DEF Associates
<1>3. PICK hd \in Seq(AnyMsg) : hd = Join(h, d)
  BY <1>1 DEF Associates
<1>4. Associates(am, h, d) /\ Associates(a, m, hd)
  BY Associative
<1> QED
  BY <1>1, <1>2, <1>3, <1>4 DEF Associates, Regroups, Way

LEMMA ShortSeqs == << >> \in Seq(AnyMsg) /\ \A x \in AnyMsg : <<x>> \in Seq(AnyMsg)
OBVIOUS

\* The first of s moves to the end of the sequence in front of it.
LEMMA PassOn ==
  ASSUME NEW r \in Seq(AnyMsg), NEW s \in Seq(AnyMsg), s # << >>
  PROVE  /\ Join(Append(r, Head(s)), Tail(s)) = Join(r, s)
         /\ Join(Join(r, <<Head(s)>>), Tail(s)) = Join(r, s)
<1>1. PICK one \in Seq(AnyMsg) : one = <<Head(s)>>
  <2>1. Head(s) \in AnyMsg
    BY HeadTailProperties
  <2> QED BY <2>1, ShortSeqs
<1>2. PICK rest \in Seq(AnyMsg) : rest = Tail(s)
  BY HeadTailProperties
<1>3. s = Join(one, rest)
  <2>1. s = <<Head(s)>> \o Tail(s)
    BY HeadAndTail
  <2> QED BY <1>1, <1>2, <2>1 DEF Join
<1>4. Append(r, Head(s)) = Join(r, one)
  <2>1. Head(s) \in AnyMsg
    BY HeadTailProperties
  <2>2. Append(r, Head(s)) = r \o <<Head(s)>>
    BY <2>1, AppendIsConcat
  <2> QED BY <1>1, <2>2 DEF Join
<1>5. Associates(r, one, rest)
  BY Associative
<1>6. Join(Join(r, one), rest) = Join(r, s)
  BY <1>3, <1>5 DEF Associates
<1> QED
  BY <1>1, <1>2, <1>4, <1>6

LEMMA EmptyJoin ==
  ASSUME NEW s \in Seq(AnyMsg)
  PROVE  Join(<< >>, s) = s /\ Join(s, << >>) = s
BY ConcatEmptySeq DEF Join

LEMMA AppendJoin ==
  ASSUME NEW s \in Seq(AnyMsg), NEW x \in AnyMsg, NEW one, one = <<x>>
  PROVE  Append(s, x) = Join(s, one)
<1>1. Append(s, x) = s \o <<x>>
  BY AppendIsConcat
<1> QED
  BY <1>1 DEF Join

LEMMA WayNow ==
  ASSUME StressInv,
         NEW a, NEW m, NEW h, NEW d,
         a = c_message_queue, m = Mailed(PID_C), h = InHand, d = Mailed(PID_B)
  PROVE  /\ a \in Seq(AnyMsg) /\ m \in Seq(AnyMsg) /\ h \in Seq(AnyMsg) /\ d \in Seq(AnyMsg)
         /\ OnTheWay = Way(a, m, h, d) /\ OnTheWay \in Seq(AnyMsg)
BY Parts, PidsDistinct DEF Way, Join

LEMMA WayNext ==
  ASSUME NEW a, NEW m, NEW h, NEW d,
         c_message_queue' = a, Mailed(PID_C)' = m, InHand' = h, Mailed(PID_B)' = d
  PROVE  OnTheWay' = Way(a, m, h, d)
BY NewWay DEF Way, Join

\* B receives.
LEMMA WayReceive ==
  ASSUME StressInv, Mailed(PID_B) # << >>, InHand = << >>,
         UNCHANGED c_message_queue, Mailed(PID_C)' = Mailed(PID_C),
         InHand' = <<Head(Mailed(PID_B))>>, Mailed(PID_B)' = Tail(Mailed(PID_B))
  PROVE  OnTheWay' = OnTheWay
<1>1. PICK a \in Seq(AnyMsg), m \in Seq(AnyMsg), h \in Seq(AnyMsg), d \in Seq(AnyMsg) :
        a = c_message_queue /\ m = Mailed(PID_C) /\ h = InHand /\ d = Mailed(PID_B)
  BY WayNow
<1>2. PICK am \in Seq(AnyMsg) : am = Join(a, m)
  BY Associative DEF Associates
<1>3. Join(am, h) = am
  BY <1>1, EmptyJoin
<1>4. Join(Join(am, <<Head(d)>>), Tail(d)) = Join(am, d)
  BY <1>1, PassOn
<1>5. PICK one, t : one = <<Head(d)>> /\ t = Tail(d)
  OBVIOUS
<1>6. OnTheWay = Way(a, m, h, d) /\ OnTheWay' = Way(a, m, one, t)
  BY <1>1, <1>5, WayNow, WayNext
<1> QED
  BY <1>2, <1>3, <1>4, <1>5, <1>6 DEF Way

\* B passes on.
LEMMA WaySend ==
  ASSUME StressInv, NEW x \in AnyMsg, InHand = <<x>>,
         UNCHANGED c_message_queue, Mailed(PID_C)' = Append(Mailed(PID_C), x),
         InHand' = << >>, Mailed(PID_B)' = Mailed(PID_B)
  PROVE  OnTheWay' = OnTheWay
<1>1. PICK a \in Seq(AnyMsg), m \in Seq(AnyMsg), h \in Seq(AnyMsg), d \in Seq(AnyMsg) :
        a = c_message_queue /\ m = Mailed(PID_C) /\ h = InHand /\ d = Mailed(PID_B)
  BY WayNow
<1>2. Append(m, x) = Join(m, h)
  BY <1>1, AppendJoin
<1>3. Associates(a, m, h)
  BY Associative
<1>4. PICK w \in Seq(AnyMsg) : w = Join(a, Join(m, h)) /\ w = Join(Join(a, m), h)
  BY <1>3 DEF Associates
<1>5. Join(w, << >>) = w
  BY EmptyJoin
<1>6. PICK empty, longer : empty = << >> /\ longer = Append(m, x)
  OBVIOUS
<1>7. OnTheWay = Way(a, m, h, d) /\ OnTheWay' = Way(a, longer, empty, d)
  BY <1>1, <1>6, WayNow, WayNext
<1>8. Way(a, Join(m, h), empty, d) = Way(a, m, h, d)
  BY <1>4, <1>5, <1>6 DEF Way
<1> QED
  BY <1>2, <1>6, <1>7, <1>8

\* C receives: what it keeps ...
LEMMA WayKeep ==
  ASSUME StressInv, Mailed(PID_C) # << >>,
         c_message_queue' = Append(c_message_queue, Head(Mailed(PID_C))),
         Mailed(PID_C)' = Tail(Mailed(PID_C)),
         InHand' = InHand, Mailed(PID_B)' = Mailed(PID_B)
  PROVE  OnTheWay' = OnTheWay
<1>1. PICK a \in Seq(AnyMsg), m \in Seq(AnyMsg), h \in Seq(AnyMsg), d \in Seq(AnyMsg) :
        a = c_message_queue /\ m = Mailed(PID_C) /\ h = InHand /\ d = Mailed(PID_B)
  BY WayNow
<1>2. Join(Append(a, Head(m)), Tail(m)) = Join(a, m)
  BY <1>1, PassOn
<1>3. PICK longer, t : longer = Append(a, Head(m)) /\ t = Tail(m)
  OBVIOUS
<1>4. OnTheWay = Way(a, m, h, d) /\ OnTheWay' = Way(longer, t, h, d)
  <2>1. OnTheWay = Way(a, m, h, d)
    BY <1>1, WayNow, SMTT(20)
  <2>2. /\ c_message_queue' = longer /\ Mailed(PID_C)' = t
        /\ InHand' = h /\ Mailed(PID_B)' = d
    BY <1>1, <1>3, Zenon
  <2>3. OnTheWay' = Way(longer, t, h, d)
    BY <2>2, WayNext, SMTT(20)
  <2> QED BY <2>1, <2>3, Zenon
<1>5. Join(longer, t) = Join(a, m)
  BY <1>2, <1>3, Zenon
<1> QED
  BY <1>4, <1>5 DEF Way

\* ... what it takes ...
LEMMA WayTake ==
  ASSUME StressInv, c_message_queue # << >>,
         c_message_queue' = Tail(c_message_queue), Mailed(PID_C)' = Mailed(PID_C),
         InHand' = InHand, Mailed(PID_B)' = Mailed(PID_B)
  PROVE  /\ OnTheWay # << >> /\ OnTheWay' = Tail(OnTheWay)
         /\ OnTheWay[1] = c_message_queue[1]
<1>1. PICK a \in Seq(AnyMsg), m \in Seq(AnyMsg), h \in Seq(AnyMsg), d \in Seq(AnyMsg) :
        a = c_message_queue /\ m = Mailed(PID_C) /\ h = InHand /\ d = Mailed(PID_B)
  BY WayNow
<1>2. PICK t \in Seq(AnyMsg) : t = Tail(a)
  BY <1>1, HeadTailProperties
<1>3. Regroups(a, m, h, d) /\ Regroups(t, m, h, d)
  BY Regroup
<1>4. PICK rest \in Seq(AnyMsg) : rest = Join(Join(m, h), d)
  BY <1>3 DEF Regroups
<1>5. Way(a, m, h, d) = Join(a, rest) /\ Way(t, m, h, d) = Join(t, rest)
  BY <1>3, <1>4 DEF Regroups
<1>6. /\ Join(a, rest) # << >> /\ Tail(Join(a, rest)) = Join(Tail(a), rest)
      /\ Join(a, rest)[1] = a[1]
  BY <1>1, TailOfConcat DEF Join
<1>7. OnTheWay = Way(a, m, h, d) /\ OnTheWay' = Way(t, m, h, d)
  BY <1>1, <1>2, WayNow, WayNext
<1>8. PICK w : w = Join(a, rest)
  OBVIOUS
<1>9. w # << >> /\ Tail(w) = Join(t, rest) /\ w[1] = a[1]
  BY <1>2, <1>6, <1>8
<1> QED
  BY <1>1, <1>5, <1>7, <1>8, <1>9

LEMMA WayTakeMailed ==
  ASSUME StressInv, c_message_queue = << >>, Mailed(PID_C) # << >>,
         UNCHANGED c_message_queue, Mailed(PID_C)' = Tail(Mailed(PID_C)),
         InHand' = InHand, Mailed(PID_B)' = Mailed(PID_B)
  PROVE  /\ OnTheWay # << >> /\ OnTheWay' = Tail(OnTheWay)
         /\ OnTheWay[1] = Mailed(PID_C)[1]
<1>1. PICK a \in Seq(AnyMsg), m \in Seq(AnyMsg), h \in Seq(AnyMsg), d \in Seq(AnyMsg) :
        a = c_message_queue /\ m = Mailed(PID_C) /\ h = InHand /\ d = Mailed(PID_B)
  BY WayNow
<1>2. PICK t \in Seq(AnyMsg) : t = Tail(m)
  BY <1>1, HeadTailProperties
<1>3. PICK rest \in Seq(AnyMsg) : rest = Join(h, d)
  BY Regroup DEF Regroups
<1>4. Associates(m, h, d) /\ Associates(t, h, d)
  BY Associative
<1>5. Join(a, m) = m /\ Join(a, t) = t
  BY <1>1, EmptyJoin
<1>6. Way(a, m, h, d) = Join(m, rest) /\ Way(a, t, h, d) = Join(t, rest)
  BY <1>3, <1>4, <1>5 DEF Associates, Way
<1>7. /\ Join(m, rest) # << >> /\ Tail(Join(m, rest)) = Join(Tail(m), rest)
      /\ Join(m, rest)[1] = m[1]
  BY <1>1, TailOfConcat DEF Join
<1>8. OnTheWay = Way(a, m, h, d) /\ OnTheWay' = Way(a, t, h, d)
  BY <1>1, <1>2, WayNow, WayNext
<1>9. PICK w : w = Join(m, rest)
  OBVIOUS
<1>10. w # << >> /\ Tail(w) = Join(t, rest) /\ w[1] = m[1]
  BY <1>2, <1>7, <1>9
<1> QED
  BY <1>1, <1>6, <1>8, <1>9, <1>10

\* ... and what wakes it.
LEMMA WayWake ==
  ASSUME StressInv, Mailed(PID_C) # << >>,
         UNCHANGED c_message_queue, Mailed(PID_C)' = Tail(Mailed(PID_C)),
         InHand' = InHand, Mailed(PID_B)' = Mailed(PID_B),
         NEW x, x = Head(Mailed(PID_C))
  PROVE  /\ x \in AnyMsg
         /\ \E u, v \in Seq(AnyMsg) :
              OnTheWay = Join(u, Join(<<x>>, v)) /\ OnTheWay' = Join(u, v)
<1>1. PICK a \in Seq(AnyMsg), m \in Seq(AnyMsg), h \in Seq(AnyMsg), d \in Seq(AnyMsg) :
        a = c_message_queue /\ m = Mailed(PID_C) /\ h = InHand /\ d = Mailed(PID_B)
  BY WayNow
<1>2. PICK t \in Seq(AnyMsg) : t = Tail(m)
  BY <1>1, HeadTailProperties
<1>3. x \in AnyMsg
  BY <1>1, HeadTailProperties
<1>4. PICK one \in Seq(AnyMsg) : one = <<x>>
  BY <1>3, ShortSeqs
<1>5. Regroups(a, t, h, d) /\ Regroups(one, t, h, d) /\ Regroups(a, m, h, d)
  BY Regroup
<1>6. PICK rest \in Seq(AnyMsg) : rest = Join(Join(t, h), d)
  BY <1>5 DEF Regroups
<1>7. m = Join(one, t)
  <2>1. m = <<Head(m)>> \o Tail(m)
    BY <1>1, HeadAndTail
  <2> QED BY <1>1, <1>2, <1>4, <2>1 DEF Join
<1>8. Join(Join(m, h), d) = Join(one, rest)
  BY <1>5, <1>6, <1>7 DEF Regroups, Way
<1>9. Way(a, m, h, d) = Join(a, Join(one, rest)) /\ Way(a, t, h, d) = Join(a, rest)
  BY <1>5, <1>6, <1>8 DEF Regroups
<1>10. OnTheWay = Way(a, m, h, d) /\ OnTheWay' = Way(a, t, h, d)
  BY <1>1, <1>2, WayNow, WayNext
<1> QED
  BY <1>3, <1>4, <1>9, <1>10

\* A message comes to C.
LEMMA WayCome ==
  ASSUME StressInv, NEW x \in AnyMsg,
         UNCHANGED c_message_queue, Mailed(PID_C)' = Append(Mailed(PID_C), x),
         InHand' = InHand, Mailed(PID_B)' = Mailed(PID_B)
  PROVE  \E u, v \in Seq(AnyMsg) :
           OnTheWay = Join(u, v) /\ OnTheWay' = Join(u, Join(<<x>>, v))
<1>1. PICK a \in Seq(AnyMsg), m \in Seq(AnyMsg), h \in Seq(AnyMsg), d \in Seq(AnyMsg) :
        a = c_message_queue /\ m = Mailed(PID_C) /\ h = InHand /\ d = Mailed(PID_B)
  BY WayNow
<1>2. PICK one \in Seq(AnyMsg) : one = <<x>>
  BY ShortSeqs
<1>3. Associates(a, m, one) /\ Regroups(a, m, h, d)
  BY Associative, Regroup
<1>4. PICK am \in Seq(AnyMsg) : am = Join(a, m)
  BY <1>3 DEF Associates
<1>5. PICK rest \in Seq(AnyMsg) : rest = Join(h, d)
  BY <1>3 DEF Regroups
<1>6. Append(m, x) = Join(m, one)
  BY <1>2, AppendJoin
<1>7. Way(a, Join(m, one), h, d) = Way(am, one, h, d)
  BY <1>3, <1>4 DEF Associates, Way
<1>8. Regroups(am, one, h, d)
  BY Regroup
<1>9. Way(am, one, h, d) = Join(am, Join(one, rest)) /\ Way(a, m, h, d) = Join(am, rest)
  BY <1>3, <1>4, <1>5, <1>8 DEF Regroups
<1>10. PICK longer : longer = Append(m, x)
  OBVIOUS
<1>11. OnTheWay = Way(a, m, h, d) /\ OnTheWay' = Way(a, longer, h, d)
  BY <1>1, <1>10, WayNow, WayNext
<1>12. OnTheWay = Join(am, rest) /\ OnTheWay' = Join(am, Join(one, rest))
  BY <1>6, <1>7, <1>9, <1>10, <1>11
<1> QED
  BY <1>2, <1>12

\* A sends to B.
LEMMA WayGrows ==
  ASSUME StressInv, NEW x \in AnyMsg,
         UNCHANGED c_message_queue, Mailed(PID_C)' = Mailed(PID_C),
         InHand' = InHand, Mailed(PID_B)' = Append(Mailed(PID_B), x)
  PROVE  OnTheWay' = Append(OnTheWay, x)
<1>1. PICK a \in Seq(AnyMsg), m \in Seq(AnyMsg), h \in Seq(AnyMsg), d \in Seq(AnyMsg) :
        a = c_message_queue /\ m = Mailed(PID_C) /\ h = InHand /\ d = Mailed(PID_B)
  BY WayNow
<1>2. Regroups(a, m, h, d)
  BY Regroup
<1>3. PICK w \in Seq(AnyMsg) : w = Join(Join(a, m), h)
  BY <1>2 DEF Regroups
<1>4. PICK one \in Seq(AnyMsg) : one = <<x>>
  BY ShortSeqs
<1>5. PICK wd \in Seq(AnyMsg) : wd = Join(w, d)
  BY <1>2, <1>3 DEF Regroups, Way
<1>6. Append(d, x) = Join(d, one) /\ Append(wd, x) = Join(wd, one)
  BY <1>4, AppendJoin
<1>7. Associates(w, d, one)
  BY Associative
<1>8. Join(wd, one) = Join(w, Join(d, one))
  BY <1>5, <1>7 DEF Associates
<1>9. PICK longer : longer = Append(d, x)
  OBVIOUS
<1>10. OnTheWay = Way(a, m, h, d) /\ OnTheWay' = Way(a, m, h, longer)
  BY <1>1, <1>9, WayNow, WayNext
<1> QED
  BY <1>3, <1>5, <1>6, <1>8, <1>9, <1>10 DEF Way

-----------------------------------------------------------------------------
(* Every step leaves the numbers of the reports in turn. *)

LEMMA MailedStays ==
  ASSUME NEW p, g_message_queues'[p] = g_message_queues[p]
  PROVE  Mailed(p)' = Mailed(p)
BY DEF Mailed

LEMMA MailedPosted ==
  ASSUME StressInv, NEW p \in Procs, NEW e \in Envelope, Posted(p, e)
  PROVE  Mailed(p)' = Append(Mailed(p), e.msg)
<1>1. PICK box \in Seq(Envelope) : box = g_message_queues[p]
  BY Parts
<1>2. g_message_queues'[p] = Append(box, e)
  BY <1>1 DEF Posted
<1>3. Mailed(p) = [i \in DOMAIN box |-> box[i].msg]
  BY <1>1 DEF Mailed
<1>4. Mailed(p)' = [i \in DOMAIN Append(box, e) |-> Append(box, e)[i].msg]
  BY <1>2 DEF Mailed
<1> QED
  BY <1>3, <1>4, MailedAppend

LEMMA MailedRead ==
  ASSUME NEW p \in Procs, NEW e, Read(p, e)
  PROVE  /\ Mailed(p) # << >> /\ Head(Mailed(p)) = e.msg
         /\ Mailed(p)' = Tail(Mailed(p))
<1>1. PICK box \in Seq(Envelope) : box = g_message_queues[p]
  BY DEF Read
<1>2. box # << >> /\ e = Head(box) /\ g_message_queues'[p] = Tail(box)
  BY <1>1 DEF Read
<1>3. Mailed(p) = [i \in DOMAIN box |-> box[i].msg]
  BY <1>1 DEF Mailed
<1>4. Mailed(p)' = [i \in DOMAIN Tail(box) |-> Tail(box)[i].msg]
  BY <1>2 DEF Mailed
<1> QED
  BY <1>2, <1>3, <1>4, MailedTail

\* A sends the next report, and does nothing else to the way.
LEMMA ASendsInTurn ==
  ASSUME StressInv, NoReportLost, UNCHANGED cVars,
         Send(PID_A, "send", PID_B, Message(COUNT_REPORT, [num |-> num]), "release_processor"),
         num' = (num + 1) % MAX_NUM
  PROVE  NoReportLost'
<1>1. /\ PID_A \in Procs \ {PID_B, PID_C} /\ PID_B \in Procs \ {PID_A} /\ PID_C \in Procs
      /\ PID_A \in Procs /\ PID_B # PID_C /\ PID_B \in Procs
  BY PidsDistinct
<1> PICK content : content = Message(COUNT_REPORT, [num |-> num])
  OBVIOUS
<1>2. IsMessage(content) /\ content.mtype = COUNT_REPORT /\ content.mtext.num = num
  BY DEF Message, IsMessage
<1> PICK x : x = hand[PID_A]
  OBVIOUS
<1> PICK e : e = [msg |-> x, m_send_pid |-> PID_A]
  OBVIOUS
<1>3. /\ Others(PID_A) /\ x \in mem_blocks /\ x \in held[PID_A]
      /\ Written(x, content) /\ Posted(PID_B, e)
  <2>1. Send(PID_A, "send", PID_B, content, "release_processor")
    OBVIOUS
  <2> QED BY <1>1, <1>2, <2>1, SendCall
<1>4. e \in Envelope /\ e.msg = x
  BY <1>1, <1>3 DEF Envelope
<1>5. PICK w : w = OnTheWay
  OBVIOUS
<1>6. w \in Seq(AnyMsg) /\ x \in AnyMsg
  BY <1>3, <1>5, Parts DEF AnyMsg
<1>7. OnTheWay' = Append(w, x)
  <2>1. g_message_queues'[PID_C] = g_message_queues[PID_C] /\ hand'[PID_B] = hand[PID_B]
    BY <1>1, <1>3 DEF Posted, Others
  <2>2. Mailed(PID_C)' = Mailed(PID_C)
    BY <2>1, MailedStays
  <2>3. Mailed(PID_B)' = Append(Mailed(PID_B), x)
    BY <1>1, <1>3, <1>4, MailedPosted
  <2>4. InHand' = InHand /\ UNCHANGED c_message_queue
    BY <2>1 DEF InHand, cVars
  <2> QED BY <1>5, <1>6, <2>2, <2>3, <2>4, WayGrows
<1>8. IsReport(x)' /\ text'[x].mtext.num = num
  BY <1>2, <1>3 DEF Written, IsReport
<1>9. \A b \in Contents(w) : text'[b] = text[b]
  <2> SUFFICES ASSUME NEW b \in Contents(w) PROVE text'[b] = text[b]
    OBVIOUS
  <2>1. b \in mem_blocks /\ b \notin held[PID_A]
    BY <1>1, <1>5, NotHeld, WhereOnTheWay
  <2> QED BY <1>3, <2>1 DEF Written
<1> QED
  BY <1>5, <1>6, <1>7, <1>8, <1>9, WayAppend DEF cVars

LEMMA AInTurn ==
  ASSUME StressInv, NoReportLost, proc_A, UNCHANGED cVars
  PROVE  NoReportLost'
<1> DEFINE p == PID_A
<1>1. p \in Procs \ {PID_B, PID_C} /\ p # PID_KCD
  BY PidsDistinct
<1>2. ASSUME Leaves(p), UNCHANGED num PROVE NoReportLost'
  BY <1>1, <1>2, LeftAlone DEF cVars
<1>3. CASE kcd_register(p, "%Z", "receive") /\ UNCHANGED num
  BY <1>2, <1>3, RegisterLeaves
<1>4. CASE ReceiveNothing(p, "receive") /\ UNCHANGED num
  BY <1>1, <1>2, <1>4, CallLeaves
<1>5. CASE Receive(p, "receive", "answer") /\ UNCHANGED num
  BY <1>1, <1>2, <1>5, CallLeaves
<1>6. ASSUME NEW then, Release(p, "answer", then), UNCHANGED num PROVE NoReportLost'
  BY <1>1, <1>2, <1>6, CallLeaves
<1>7. CASE Request(p, "request", "send") /\ UNCHANGED num
  BY <1>1, <1>2, <1>7, CallLeaves
<1>8. CASE Yield(p, "release_processor", "request") /\ UNCHANGED locals /\ UNCHANGED num
  BY <1>1, <1>2, <1>8, CallLeaves DEF locals
<1> QED
  BY <1>3, <1>4, <1>5, <1>6, <1>7, <1>8, ASendsInTurn DEF proc_A

LEMMA StaysInTurn ==
  ASSUME StressInv, NoReportLost, OnTheWay' = OnTheWay, UNCHANGED <<num, last>>,
         \A b \in Contents(OnTheWay) : text'[b] = text[b]
  PROVE  NoReportLost'
<1>1. PICK w : w = OnTheWay
  OBVIOUS
<1> QED
  BY <1>1, Parts, WaySame

\* A process that waits for mail changes nothing.
LEMMA WaitsInTurn ==
  ASSUME StressInv, NoReportLost, NEW p, NEW at, ReceiveNothing(p, at),
         UNCHANGED <<c_message_queue, num, last>>
  PROVE  NoReportLost'
<1>1. Caller = p /\ g_message_queues[Caller] = << >> /\ Sound
  BY DEF ReceiveNothing, At, HasMail, StressInv
<1>2. Quiet
  BY <1>1, ReceiveKernel DEF ReceiveNothing
<1>3. UNCHANGED <<hand, text>>
  BY DEF ReceiveNothing, procVars, locals
<1>4. OnTheWay' = OnTheWay
  BY <1>2, <1>3, SameWay DEF Quiet
<1> QED
  BY <1>3, <1>4, StaysInTurn

\* B passes on what it receives, and keeps nothing back.
LEMMA BInTurn ==
  ASSUME StressInv, NoReportLost, proc_B, UNCHANGED stressVars
  PROVE  NoReportLost'
<1>1. /\ PID_B \in Procs \ {PID_KCD} /\ PID_B \in Procs \ {PID_C} /\ PID_C \in Procs \ {PID_B}
      /\ PID_B \in Procs /\ PID_C \in Procs /\ PID_B # PID_C /\ BInv /\ Domains
  BY PidsDistinct DEF StressInv, ProgramsInv
<1>2. UNCHANGED <<c_message_queue, num, last>>
  BY DEF stressVars, cVars
<1>3. CASE ReceiveNothing(PID_B, "receive")
  BY <1>2, <1>3, WaitsInTurn
<1>4. CASE Receive(PID_B, "receive", "send")
  <2> PICK e : e = Mail(PID_B)
    OBVIOUS
  <2>1. /\ Others(PID_B) /\ Goes(PID_B, "receive", "send") /\ UNCHANGED text
        /\ Read(PID_B, e) /\ hand'[PID_B] = e.msg /\ hand'[PID_B] \in mem_blocks
    BY <1>1, <1>4, ReceiveCall
  <2>2. /\ Mailed(PID_B) # << >> /\ Head(Mailed(PID_B)) = e.msg
        /\ Mailed(PID_B)' = Tail(Mailed(PID_B))
    BY <1>1, <2>1, MailedRead
  <2>3. InHand = << >>
    BY <1>1, <2>1 DEF BInv, Goes, InHand
  <2>4. InHand' = <<Head(Mailed(PID_B))>>
    <3>1. hand'[PID_B] # NoBlock
      BY <2>1, HandIs
    <3> QED BY <2>1, <2>2, <3>1 DEF InHand
  <2>5. Mailed(PID_C)' = Mailed(PID_C)
    BY <1>1, <2>1, MailedStays DEF Read
  <2>6. OnTheWay' = OnTheWay
    BY <1>2, <2>2, <2>3, <2>4, <2>5, WayReceive
  <2> QED BY <1>2, <2>1, <2>6, StaysInTurn
<1>5. CASE Send(PID_B, "send", PID_C, text[hand[PID_B]], "receive")
  <2> PICK x : x = hand[PID_B]
    OBVIOUS
  <2> PICK content : content = text[x]
    OBVIOUS
  <2> PICK e : e = [msg |-> x, m_send_pid |-> PID_B]
    OBVIOUS
  <2>1. x \in mem_blocks /\ IsMessage(content)
    BY <1>1, <1>5 DEF BInv, Send, At, Domains
  <2>2. /\ hand'[PID_B] = NoBlock /\ Written(x, content) /\ Posted(PID_C, e)
    <3>1. Send(PID_B, "send", PID_C, content, "receive")
      BY <1>5
    <3> QED BY <1>1, <2>1, <3>1, SendCall
  <2>3. e \in Envelope /\ e.msg = x
    BY <1>1, <2>1 DEF Envelope
  <2>4. Mailed(PID_C)' = Append(Mailed(PID_C), x)
    BY <1>1, <2>2, <2>3, MailedPosted
  <2>5. Mailed(PID_B)' = Mailed(PID_B)
    BY <1>1, <2>2, MailedStays DEF Posted
  <2>6. InHand = <<x>> /\ InHand' = << >>
    BY <2>1, <2>2, HandIs DEF InHand
  <2>7. OnTheWay' = OnTheWay
    <3>1. x \in AnyMsg
      BY <2>1 DEF AnyMsg
    <3> QED BY <1>2, <2>4, <2>5, <2>6, <3>1, WaySend
  <2>8. \A b \in Contents(OnTheWay) : text'[b] = text[b]
    <3>1. \A b \in mem_blocks : text'[b] = text[b]
      BY <2>2 DEF Written
    <3> QED BY <3>1, WhereOnTheWay
  <2> QED BY <1>2, <2>7, <2>8, StaysInTurn
<1> QED
  BY <1>3, <1>4, <1>5 DEF proc_B

\* C takes the first report of the way.
LEMMA CTakesInTurn ==
  ASSUME StressInv, NoReportLost, CTakeMailed \/ CTakeKept, UNCHANGED num
  PROVE  NoReportLost'
<1> DEFINE p == PID_C
<1>1. /\ p \in Procs \ {PID_KCD} /\ p \in Procs /\ PID_B \in Procs \ {p} /\ PID_B \in Procs
      /\ CInv /\ Sound /\ Domains
  BY PidsDistinct DEF StressInv, ProgramsInv
<1>2. PICK w : w = OnTheWay
  OBVIOUS
<1>3. w \in Seq(AnyMsg)
  BY <1>2, Parts
<1>4. CASE CTakeMailed
  <2> PICK e : e = Mail(p)
    OBVIOUS
  <2> PICK then : then = Handle(e.msg)
    OBVIOUS
  <2>1. /\ Receive(p, "take", then) /\ last' = text[e.msg].mtext.num
        /\ UNCHANGED c_message_queue /\ c_message_queue = << >>
    BY <1>4 DEF CTakeMailed
  <2>2. /\ Others(p) /\ Goes(p, "take", then) /\ UNCHANGED text
        /\ Read(p, e) /\ Expected(p, e)
    BY <1>1, <2>1, ReceiveCall
  <2>3. IsReport(e.msg)
    BY <1>1, <2>2 DEF Expected, Goes
  <2>4. /\ Mailed(p) # << >> /\ Head(Mailed(p)) = e.msg /\ Mailed(p)' = Tail(Mailed(p))
    BY <1>1, <2>2, MailedRead
  <2>5. Mailed(PID_B)' = Mailed(PID_B) /\ InHand' = InHand
    BY <1>1, <2>2, MailedStays DEF Read, Others, InHand
  <2>6. w # << >> /\ OnTheWay' = Tail(w) /\ w[1] = Mailed(p)[1]
    BY <1>2, <2>1, <2>4, <2>5, WayTakeMailed
  <2>7. Mailed(p)[1] = e.msg
    BY <2>4
  <2>8. IsReport(w[1]) /\ last' = text[w[1]].mtext.num
    BY <2>1, <2>3, <2>6, <2>7
  <2> QED BY <1>2, <1>3, <2>2, <2>6, <2>8, WayTail
<1>5. CASE CTakeKept
  <2> PICK b : b = Head(c_message_queue)
    OBVIOUS
  <2> PICK then : then = Handle(b)
    OBVIOUS
  <2>1. /\ Step(p, "take", then) /\ Put(p, b) /\ c_message_queue' = Tail(c_message_queue)
        /\ c_message_queue # << >> /\ UNCHANGED text /\ last' = text[b].mtext.num
    BY <1>5 DEF CTakeKept
  <2>2. c_message_queue \in Seq(mem_blocks)
    BY <1>1 DEF CInv
  <2>3. b \in Contents(c_message_queue) /\ b = c_message_queue[1]
    <3>1. /\ DOMAIN c_message_queue = 1 .. Len(c_message_queue)
          /\ Len(c_message_queue) \in Nat \ {0}
      BY <2>1, <2>2, EmptySeq, LenProperties
    <3>2. b = c_message_queue[1]
      BY <2>1, <2>2
    <3> QED BY <3>1, <3>2 DEF Contents
  <2>4. IsReport(b)
    BY <1>1, <2>3 DEF CInv
  <2>5. Others(p) /\ Quiet
    BY <1>1, <2>1, StepCall
  <2>6. /\ Mailed(PID_B)' = Mailed(PID_B) /\ Mailed(p)' = Mailed(p)
        /\ InHand' = InHand
    BY <1>1, <2>5, MailedStays DEF Quiet, Others, InHand
  <2>7. w # << >> /\ OnTheWay' = Tail(w) /\ w[1] = b
    BY <1>2, <2>1, <2>3, <2>6, WayTake
  <2>8. IsReport(w[1]) /\ last' = text[w[1]].mtext.num
    BY <2>1, <2>4, <2>7
  <2> QED BY <1>2, <1>3, <2>1, <2>7, <2>8, WayTail
<1> QED
  BY <1>4, <1>5

\* C keeps for later what does not wake it.
LEMMA CSleepsInTurn ==
  ASSUME StressInv, NoReportLost, CSleep, UNCHANGED num
  PROVE  NoReportLost'
<1> DEFINE p == PID_C
<1>1. /\ p \in Procs /\ PID_B \in Procs \ {p} /\ PID_B \in Procs
  BY PidsDistinct
<1> PICK e : e = Mail(p)
  OBVIOUS
<1>2. /\ Caller = p /\ HasMail(p) /\ ReceiveMessage
      /\ UNCHANGED <<hand, text, num, last>>
  BY DEF CSleep, At, locals
<1>3. Read(p, e)
  BY <1>1, <1>2, ReceiveLetter
<1>4. Mailed(p) # << >> /\ Head(Mailed(p)) = e.msg /\ Mailed(p)' = Tail(Mailed(p))
  BY <1>1, <1>3, MailedRead
<1>5. Mailed(PID_B)' = Mailed(PID_B) /\ InHand' = InHand
  BY <1>1, <1>2, <1>3, MailedStays DEF Read, InHand
<1>6. CASE IsWakeup(e.msg)
  <2>1. UNCHANGED c_message_queue
    BY <1>6 DEF CSleep
  <2>2. PICK x : x = Head(Mailed(p))
    OBVIOUS
  <2>3. x \in AnyMsg
        /\ \E u, v \in Seq(AnyMsg) :
             OnTheWay = Join(u, Join(<<x>>, v)) /\ OnTheWay' = Join(u, v)
    BY <1>4, <1>5, <2>1, <2>2, WayWake
  <2>4. ~ IsReport(x)
    BY <1>4, <1>6, <2>2 DEF IsReport, IsWakeup, COUNT_REPORT, WAKEUP_10
  <2>5. PICK u \in Seq(AnyMsg), v \in Seq(AnyMsg) :
          OnTheWay = u \o (<<x>> \o v) /\ OnTheWay' = u \o v
    BY <2>3 DEF Join
  <2> QED BY <1>2, <2>3, <2>4, <2>5, WayRemove
<1>7. CASE ~ IsWakeup(e.msg)
  <2>1. c_message_queue' = Append(c_message_queue, Head(Mailed(p)))
    BY <1>4, <1>7 DEF CSleep
  <2>2. OnTheWay' = OnTheWay
    BY <1>4, <1>5, <2>1, WayKeep
  <2> QED BY <1>2, <2>2, StaysInTurn
<1> QED
  BY <1>6, <1>7

\* What else C does is about the message in its hand, which is off the way.
LEMMA CInTurn ==
  ASSUME StressInv, NoReportLost, proc_C, UNCHANGED num
  PROVE  NoReportLost'
<1> DEFINE p == PID_C
<1>1. /\ p \in Procs /\ PID_B \in Procs \ {p} /\ PID_B \in Procs
      /\ PID_CRT \in Procs \ {p, PID_B} /\ PID_B \in Procs \ {PID_CRT} /\ p \in Procs \ {PID_CRT}
      /\ PID_CRT \in Procs
      /\ Sound /\ Domains
  BY PidsDistinct DEF StressInv, ProgramsInv
<1>2. ASSUME UNCHANGED <<c_message_queue, last>>, hand'[PID_B] = hand[PID_B],
             g_message_queues'[PID_B] = g_message_queues[PID_B],
             g_message_queues'[p] = g_message_queues[p],
             hand[p] \in held[p],
             \A b \in mem_blocks \ {hand[p]} : text'[b] = text[b]
      PROVE  NoReportLost'
  <2>1. OnTheWay' = OnTheWay
    BY <1>2, SameWay
  <2>2. \A b \in Contents(OnTheWay) : text'[b] = text[b]
    BY <1>2, NotHeld, WhereOnTheWay
  <2> QED BY <1>2, <2>1, <2>2, StaysInTurn
<1>3. CASE CTakeMailed \/ CTakeKept
  BY <1>3, CTakesInTurn
<1>4. CASE CHibernate
  <2>1. /\ Caller = p /\ DelayedSend(p, hand[p], HIBERNATION) /\ HIBERNATION \in Nat
        /\ text' = [text EXCEPT ![hand[p]].mtype = WAKEUP_10]
        /\ UNCHANGED <<hand, c_message_queue, last>>
    BY <1>4, StressAssumption DEF CHibernate, At
  <2>2. hand[p] \in held[p] /\ UNCHANGED g_message_queues
    BY <1>1, <2>1, DelayKernel
  <2>3. \A b \in mem_blocks \ {hand[p]} : text'[b] = text[b]
    BY <1>1, <2>1 DEF Domains
  <2> QED BY <1>2, <2>1, <2>2, <2>3
<1>5. CASE CSleep
  BY <1>5, CSleepsInTurn
<1>6. CASE CDisplay
  <2> PICK content : content = Message(CRT_DISPLAY, [str |-> "Process C"])
    OBVIOUS
  <2>1. IsMessage(content)
    BY DEF IsMessage, Message
  <2>2. Send(p, "display", PID_CRT, content, "take") /\ UNCHANGED <<c_message_queue, last>>
    BY <1>6 DEF CDisplay
  <2>3. /\ Others(p) /\ hand[p] \in held[p] /\ Written(hand[p], content)
        /\ Posted(PID_CRT, [msg |-> hand[p], m_send_pid |-> p])
    BY <1>1, <2>1, <2>2, SendCall
  <2>4. /\ g_message_queues'[PID_B] = g_message_queues[PID_B]
        /\ g_message_queues'[p] = g_message_queues[p] /\ hand'[PID_B] = hand[PID_B]
    BY <1>1, <2>3 DEF Posted, Others
  <2> QED BY <1>2, <2>2, <2>3, <2>4 DEF Written
<1>7. CASE CRelease /\ UNCHANGED cVars
  <2>1. /\ Others(p) /\ UNCHANGED g_message_queues /\ hand[p] \in held[p]
        /\ \A c \in mem_blocks \ {hand[p]} : text'[c] = text[c]
    BY <1>1, <1>7, ReleaseCall DEF CRelease
  <2> QED BY <1>1, <1>2, <1>7, <2>1 DEF Others, cVars
<1>8. CASE /\ Yield(p, "release_processor", "take") /\ UNCHANGED locals /\ UNCHANGED cVars
  <2>1. Quiet /\ UNCHANGED <<hand, text, c_message_queue, last>>
    BY <1>1, <1>8, StepCall DEF locals, cVars
  <2>2. OnTheWay' = OnTheWay
    BY <2>1, SameWay DEF Quiet
  <2> QED BY <2>1, <2>2, StaysInTurn
<1>9. ASSUME NEW at, ReceiveNothing(p, at), UNCHANGED cVars PROVE NoReportLost'
  BY <1>9, WaitsInTurn DEF cVars
<1> QED
  BY <1>3, <1>4, <1>5, <1>6, <1>7, <1>8, <1>9 DEF proc_C

\* The first n messages of q are message x.  Box is what old was, or has a letter more,
\* with message x, that the queue had for p.
AllAre(q, n, x) == \A c \in 1 .. n : q[c].msg = x
OneOrNone(box, old, q, p, n, x) ==
  \/ box = old
  \/ \E e \in Envelope : /\ box = Append(old, e) /\ e.msg = x
                         /\ \E c \in 1 .. n : q[c].m_recv_pid = p

\* What a millisecond brings to a mailbox when every delayed message is message x.
LEMMA BringsOneOrNone ==
  ASSUME NEW box, NEW old \in Seq(Envelope), NEW q, NEW p, NEW n,
         Brings(box, old, q, p, n), NEW x, AllAre(q, n, x)
  PROVE  OneOrNone(box, old, q, p, n, x)
<1> DEFINE N == Len(old)
           M == Len(box)
<1>1. /\ box \in Seq(Envelope) /\ N \in Nat /\ M \in Nat /\ N <= M
      /\ DOMAIN box = 1 .. M /\ DOMAIN old = 1 .. N
      /\ \A j \in 1 .. N : box[j] = old[j]
  BY LenProperties DEF Brings
<1>2. \A j \in N + 1 .. M : /\ j \in 1 .. M /\ box[j] \in Envelope /\ box[j].msg = x
                            /\ \E c \in 1 .. n : q[c].m_recv_pid = p
  <2> SUFFICES ASSUME NEW j \in N + 1 .. M
               PROVE  /\ j \in 1 .. M /\ box[j] \in Envelope /\ box[j].msg = x
                      /\ \E c \in 1 .. n : q[c].m_recv_pid = p
    OBVIOUS
  <2>1. PICK c \in 1 .. n : q[c].m_recv_pid = p /\ box[j] = Letter(q[c])
    BY DEF Brings
  <2>2. j \in 1 .. M
    BY <1>1
  <2>3. box[j] \in Envelope
    BY <1>1, <2>2, ElementOfSeq
  <2> QED BY <2>1, <2>2, <2>3 DEF Letter, AllAre
<1>3. ~ (N + 2 <= M)
  <2> SUFFICES ASSUME N + 2 <= M PROVE FALSE
    OBVIOUS
  <2>1. N + 1 \in N + 1 .. M /\ N + 2 \in N + 1 .. M /\ N + 1 # N + 2
    BY <1>1
  <2>2. /\ N + 1 \in 1 .. M /\ N + 2 \in 1 .. M
        /\ box[N + 1].msg = x /\ box[N + 2].msg = x
    BY <1>2, <2>1
  <2>3. OneEach(box)
    BY DEF Brings
  <2> QED BY <1>1, <2>1, <2>2, <2>3 DEF OneEach
<1>4. CASE M = N
  <2>1. \A j \in 1 .. M : box[j] = old[j]
    BY <1>1, <1>4
  <2>2. box = old
    BY <1>1, <1>4, <2>1, SeqEqual
  <2> QED BY <2>2 DEF OneOrNone
<1>5. CASE M = N + 1
  <2>1. PICK e \in Envelope : e = box[N + 1] /\ e.msg = x /\ \E c \in 1 .. n : q[c].m_recv_pid = p
    <3>1. N + 1 \in N + 1 .. M
      BY <1>1, <1>5
    <3> QED BY <1>2, <3>1
  <2> PICK s : s = Append(old, e)
    OBVIOUS
  <2>2. /\ s \in Seq(Envelope) /\ Len(s) = N + 1
        /\ \A j \in 1 .. N : s[j] = old[j]
        /\ s[N + 1] = e
    BY AppendProperties
  <2>3. \A j \in 1 .. M : box[j] = s[j]
    <3>1. \A j \in 1 .. M : j \in 1 .. N \/ j = N + 1
      BY <1>1, <1>5
    <3> QED BY <1>1, <2>1, <2>2, <3>1
  <2>4. box = s
    BY <1>1, <1>5, <2>2, <2>3, SeqEqual
  <2> QED BY <2>1, <2>4 DEF OneOrNone
<1>6. M = N \/ M = N + 1
  <2>1. N \in Nat /\ M \in Nat /\ N <= M
    BY <1>1
  <2> HIDE DEF N, M
  <2> QED BY <1>3, <2>1
<1> QED
  BY <1>4, <1>5, <1>6

\* A millisecond brings C its wake-up call, which is no report, and nothing to B.
LEMMA TickInTurn ==
  ASSUME StressInv, NoReportLost, Tick
  PROVE  NoReportLost'
<1> DEFINE p == PID_C
           h == hand[p]
           n == ExpiredCount(g_delayed_msg_queue, 1)
<1>1. /\ p \in Procs /\ PID_B \in Procs /\ PID_B # p
      /\ CInv /\ SleepInv /\ Sound /\ Domains
  BY PidsDistinct DEF StressInv, ProgramsInv
<1>2. /\ TimerHandler /\ UNCHANGED <<pc, hand, text, c_message_queue, num, last>>
  BY DEF Tick, TimerHandler, procVars, locals
<1>3. PICK q : q = g_delayed_msg_queue
  OBVIOUS
<1>4. /\ q \in Seq(DelayedEnvelope) /\ Len(q) \in Nat /\ n \in 0 .. Len(q)
      /\ DOMAIN q = 1 .. Len(q)
      /\ \A r \in Procs : Brings(g_message_queues'[r], g_message_queues[r], q, r, n)
  BY <1>1, <1>2, <1>3, TimerHandlerFacts, LenProperties
<1>5. \A c \in 1 .. n : q[c].msg = h /\ q[c].m_recv_pid = p /\ pc[p] = "sleep"
  <2> SUFFICES ASSUME NEW c \in 1 .. n
               PROVE  q[c].msg = h /\ q[c].m_recv_pid = p /\ pc[p] = "sleep"
    OBVIOUS
  <2>1. c \in DOMAIN q
    BY <1>4
  <2>2. q[c] \in Contents(g_delayed_msg_queue) /\ q # << >>
    BY <1>3, <1>4, <2>1 DEF Contents
  <2> QED BY <1>1, <1>3, <2>2 DEF SleepInv
<1> HIDE DEF n
<1>6. ASSUME NEW r \in Procs
      PROVE  \/ g_message_queues'[r] = g_message_queues[r]
             \/ /\ r = p /\ pc[p] = "sleep"
                /\ \E e \in Envelope :
                     g_message_queues'[r] = Append(g_message_queues[r], e) /\ e.msg = h
  <2>1. PICK old \in Seq(Envelope) : old = g_message_queues[r]
    BY Parts
  <2>2. PICK box : box = g_message_queues'[r]
    OBVIOUS
  <2>3. PICK m : m = n
    OBVIOUS
  <2>4. PICK x : x = h
    OBVIOUS
  <2>5. Brings(box, old, q, r, m)
    BY <1>4, <2>1, <2>2, <2>3
  <2>6. AllAre(q, m, x)
    BY <1>5, <2>3, <2>4 DEF AllAre
  <2>7. OneOrNone(box, old, q, r, m, x)
    BY <2>5, <2>6, BringsOneOrNone
  <2>8. CASE box = old
    BY <2>1, <2>2, <2>8
  <2>9. ASSUME NEW e \in Envelope, box = Append(old, e), e.msg = x,
               \E c \in 1 .. m : q[c].m_recv_pid = r
        PROVE  /\ r = p /\ pc[p] = "sleep"
               /\ g_message_queues'[r] = Append(g_message_queues[r], e) /\ e.msg = h
    BY <1>5, <2>1, <2>2, <2>3, <2>4, <2>9
  <2> QED BY <2>7, <2>8, <2>9 DEF OneOrNone
<1>7. g_message_queues'[PID_B] = g_message_queues[PID_B]
  BY <1>1, <1>6
<1>8. CASE g_message_queues'[p] = g_message_queues[p]
  <2>1. OnTheWay' = OnTheWay
    BY <1>2, <1>7, <1>8, SameWay
  <2> QED BY <1>2, <2>1, StaysInTurn
<1>9. ASSUME pc[p] = "sleep", NEW e \in Envelope,
             g_message_queues'[p] = Append(g_message_queues[p], e), e.msg = h
      PROVE  NoReportLost'
  <2>1. PICK x : x = h
    OBVIOUS
  <2>2. x \in AnyMsg /\ IsWakeup(x)
    BY <1>1, <1>9, <2>1 DEF CInv, SleepInv, AnyMsg
  <2>3. ~ IsReport(x)'
    BY <1>2, <2>2 DEF IsReport, IsWakeup, COUNT_REPORT, WAKEUP_10
  <2>4. Mailed(p)' = Append(Mailed(p), x)
    <3>1. PICK box \in Seq(Envelope) : box = g_message_queues[p]
      BY <1>1, Parts
    <3>2. Mailed(p) = [i \in DOMAIN box |-> box[i].msg]
      BY <3>1 DEF Mailed
    <3>3. Mailed(p)' = [i \in DOMAIN Append(box, e) |-> Append(box, e)[i].msg]
      BY <1>9, <3>1 DEF Mailed
    <3>4. Mailed(p)' = Append(Mailed(p), e.msg)
      BY <3>2, <3>3, MailedAppend
    <3> QED BY <1>9, <2>1, <3>4
  <2>5. Mailed(PID_B)' = Mailed(PID_B) /\ InHand' = InHand
    BY <1>2, <1>7, MailedStays DEF InHand
  <2>6. \E u, v \in Seq(AnyMsg) :
          OnTheWay = Join(u, v) /\ OnTheWay' = Join(u, Join(<<x>>, v))
    BY <1>2, <2>2, <2>4, <2>5, WayCome
  <2>7. PICK u \in Seq(AnyMsg), v \in Seq(AnyMsg) :
          OnTheWay = u \o v /\ OnTheWay' = u \o (<<x>> \o v)
    BY <2>6 DEF Join
  <2> QED BY <1>2, <2>2, <2>3, <2>7, WayInsert
<1> QED
  BY <1>1, <1>6, <1>8, <1>9

\* The other processes and the interrupts leave the way alone.
LEMMA QuietInTurn ==
  ASSUME StressInv, NoReportLost, Quiet, UNCHANGED <<hand, text, c_message_queue, num, last>>
  PROVE  NoReportLost'
<1>1. OnTheWay' = OnTheWay
  BY SameWay DEF Quiet
<1> QED
  BY <1>1, StaysInTurn

LEMMA TypeInTurn ==
  ASSUME StressInv, NoReportLost, NEW line, Type(line), UNCHANGED stressVars
  PROVE  NoReportLost'
<1>1. UNCHANGED <<hand, text, c_message_queue, num, last>>
  BY DEF Type, locals, stressVars, cVars
<1>2. CASE UartNotify(PID_KCD, notif_in_msg)
  <2>1. Posted(PID_KCD, [msg |-> notif_in_msg, m_send_pid |-> PID_UART_IPROC])
    BY <1>2, NotifyKernel DEF StressInv
  <2>2. /\ g_message_queues'[PID_B] = g_message_queues[PID_B]
        /\ g_message_queues'[PID_C] = g_message_queues[PID_C]
    BY <2>1, PidsDistinct DEF Posted
  <2>3. OnTheWay' = OnTheWay
    BY <1>1, <2>2, SameWay
  <2> QED BY <1>1, <2>3, StaysInTurn
<1>3. CASE UartIrq
  BY <1>1, <1>3, QuietKernel, QuietInTurn DEF StressInv
<1> QED
  BY <1>2, <1>3 DEF Type

LEMMA OthersInTurn ==
  ASSUME StressInv, NoReportLost, Spin \/ SystemProcess \/ KernelStep \/ UartInterrupt,
         UNCHANGED stressVars
  PROVE  NoReportLost'
<1>1. UNCHANGED <<c_message_queue, num, last>>
  BY DEF stressVars, cVars
<1>2. ASSUME NEW p \in Procs \ {PID_B, PID_C}, Leaves(p) PROVE NoReportLost'
  BY <1>1, <1>2, LeftAlone
<1>3. CASE Spin
  <2>1. PICK p \in Spinners : Yield(p, "spin", "spin") /\ UNCHANGED locals
    BY <1>3 DEF Spin
  <2>2. p \in Procs \ {PID_B, PID_C}
    BY StressAssumption
  <2> QED BY <1>2, <2>1, <2>2, CallLeaves DEF locals
<1>4. CASE SystemProcess
  BY <1>2, <1>4, KcdLeaves, CrtLeaves, SetPrioLeaves, PidsDistinct DEF SystemProcess
<1>5. CASE KernelStep \/ (UartIrq /\ UNCHANGED procVars)
  <2>1. Quiet
    BY <1>5, QuietKernel DEF KernelStep, StressInv
  <2>2. UNCHANGED <<hand, text>>
    BY <1>5 DEF KernelStep, procVars, locals
  <2> QED BY <1>1, <2>1, <2>2, QuietInTurn
<1>6. ASSUME NEW line, Type(line) PROVE NoReportLost'
  BY <1>6, TypeInTurn
<1> QED
  BY <1>3, <1>4, <1>5, <1>6 DEF UartInterrupt

LEMMA InitInTurn == StressInit => NoReportLost
<1> SUFFICES ASSUME StressInit PROVE NoReportLost
  OBVIOUS
<1>1. /\ PID_B \in Procs /\ PID_C \in Procs
      /\ MAX_NUM \in Nat \ {0}
  BY PidsDistinct, StressAssumption
<1>2. /\ g_message_queues[PID_B] = << >> /\ g_message_queues[PID_C] = << >>
      /\ hand[PID_B] = NoBlock /\ c_message_queue = << >> /\ num = 0 /\ last = MAX_NUM - 1
  BY <1>1 DEF StressInit, ProcessesInit, Init
<1>3. Mailed(PID_B) = << >> /\ Mailed(PID_C) = << >> /\ InHand = << >>
  BY <1>2 DEF Mailed, InHand
<1>4. OnTheWay = << >>
  <2>1. OnTheWay = ((c_message_queue \o Mailed(PID_C)) \o InHand) \o Mailed(PID_B)
    BY DEF OnTheWay, InHand
  <2>2. << >> \o << >> = << >>
    OBVIOUS
  <2> QED BY <1>2, <1>3, <2>1, <2>2
<1>5. PICK w : w = << >>
  OBVIOUS
<1>6. Len(w) = 0 /\ DOMAIN w = {}
  BY <1>5
<1>7. Reports(w) = {0, 1}
  BY <1>6 DEF Reports
<1>8. NumberAt(w, 0) = MAX_NUM - 1 /\ NumberAt(w, 1) = 0
  BY <1>2, <1>6 DEF NumberAt
<1>9. (NumberAt(w, 0) + 1) % MAX_NUM = NumberAt(w, 1)
  <2>1. (MAX_NUM - 1) + 1 = MAX_NUM /\ MAX_NUM % MAX_NUM = 0
    BY <1>1
  <2> QED BY <1>8, <2>1
<1> QED
  BY <1>4, <1>5, <1>7, <1>9 DEF NoReportLost

LEMMA NumbersStep == StressInv /\ NoReportLost /\ [StressNext]_allVars => NoReportLost'
<1> SUFFICES ASSUME StressInv, NoReportLost, [StressNext]_allVars PROVE NoReportLost'
  OBVIOUS
<1>1. CASE proc_A /\ UNCHANGED cVars
  BY <1>1, AInTurn
<1>2. CASE proc_B /\ UNCHANGED stressVars
  BY <1>2, BInTurn
<1>3. CASE proc_C /\ UNCHANGED num
  BY <1>3, CInTurn
<1>4. CASE (Spin \/ SystemProcess) /\ UNCHANGED stressVars
  BY <1>4, OthersInTurn
<1>5. CASE Tick
  BY <1>5, TickInTurn
<1>6. CASE Finish \/ Irq
  BY <1>6, OthersInTurn DEF Finish, Irq
<1>7. CASE UNCHANGED allVars
  <2>1. Quiet
    BY <1>7, QuietKernel DEF allVars, StressInv
  <2>2. UNCHANGED <<hand, text, c_message_queue, num, last>>
    BY <1>7 DEF allVars, procVars, locals, stressVars, cVars
  <2> QED BY <2>1, <2>2, QuietInTurn
<1> QED
  BY <1>1, <1>2, <1>3, <1>4, <1>5, <1>6, <1>7 DEF StressNext, Run, StressProcess

\* C takes every report of A once and in order, for every period, every number of
\* blocks and whatever arrives while C sleeps (usr_proc.c:576-603, 640-672).
THEOREM NoReportIsLost == StressSpec => []NoReportLost
<1> QED
  BY InitInTurn, NumbersStep, ProgramsInvariance, PTL DEF StressSpec

-----------------------------------------------------------------------------
(* The kernel under the programs. *)

\* What the kernel promises to any processes it keeps for these: the clause of each
\* theorem of KernelProofs, with the programs' calls in the place of arbitrary ones
\* (k_process.c:137-240, 296-420, k_memory.c:131-190).
THEOREM KernelKeepsItsWord ==
  StressSpec => [](/\ NoProcessLost /\ HighestPriorityRuns /\ NoMissedWakeup
                   /\ WaitsWhereItBlocked /\ BlockConservation)
<1>1. StressInv => Sound
  BY DEF StressInv
<1>2. Sound => NoProcessLost /\ HighestPriorityRuns /\ NoMissedWakeup /\ WaitsWhereItBlocked
  BY DEF Sound, KernelInv, SchedInv, NoProcessLost, HighestPriorityRuns, BestRuns, UserMode
<1>3. Sound => BlockConservation
  BY OnePlace, FS_Singleton DEF Sound, BlockConservation
<1> QED
  BY <1>1, <1>2, <1>3, ProgramsInvariance, PTL

-----------------------------------------------------------------------------
(* The memory that can be kept for good: the invariant. *)

\* The blocks with a registration and those with a line, wherever they are.
RegBlocks == {b \in mem_blocks : text[b].mtype = KCD_REG}
LineBlocks == {b \in mem_blocks : text[b].mtype = DEFAULT /\ text[b].mtext \in AllLines}

\* Two processes register, once each.
Registering(p) == IF pc[p] \in {"register", "send_register"} THEN 1 ELSE 0
FewRegs == Cardinality(RegBlocks) + Registering(PID_A) + Registering(PID_SET_PRIO) <= 2

\* A line that was typed is in the input, in KCD's buffer, or in one block at most.
Pending ==
  IF pc[PID_KCD] \in {"dispatch", "forward"} /\ msg_buf.sent_to = {} THEN 1 ELSE 0
FewLines == Cardinality(LineBlocks) + Len(inbuf) + Pending <= typed

\* KCD keeps registrations only, A's for %Z lines.
Kept(e) ==
  /\ e.msg \in RegBlocks
  /\ e.m_send_pid = PID_A => text[e.msg].mtext.cmd = "%Z"
KeptInv == \A e \in Contents(entries) : Kept(e)

\* Nobody but the programs gets a letter, and A and the priority command get lines.
Kind(p, e) ==
  /\ p \in Programs
  /\ p = PID_KCD /\ e.msg \in mem_blocks => Kept(e)
  /\ p \in {PID_A, PID_SET_PRIO} => e.msg \in LineBlocks
KindsInv == \A p \in Procs : \A e \in Contents(g_message_queues[p]) : Kind(p, e)

\* The line that a refused command holds, CRT that has printed all, a line that has
\* been served, and the processes that hold nothing.
HandLine == pc[PID_SET_PRIO] \in {"set", "request"} => hand[PID_SET_PRIO] \in LineBlocks
CrtIdle == pc[PID_CRT] = "receive" => output = << >>
Served ==
  pc[PID_KCD] \in {"dispatch", "forward"} /\ msg_buf.sent_to # {} => ToServe = {}
NobodyElse == \A p \in Procs \ Programs : held[p] = {}

MemoryInv ==
  /\ FewRegs /\ FewLines /\ KindsInv /\ KeptInv
  /\ HandLine /\ CrtIdle /\ Served /\ NobodyElse

\* A program waits at a point where it asks for what it waits for, and C waits for a
\* message only when it has kept none.
WaitInv ==
  /\ \A p \in Procs :
       /\ cont[p] = "request" => pc[p] \in {"register", "request", "dispatch"}
       /\ cont[p] = "receive" => pc[p] \in {"receive", "take", "sleep"}
  /\ cont[PID_C] = "receive" /\ pc[PID_C] = "take" => c_message_queue = << >>

-----------------------------------------------------------------------------
(* What the programs wait for. *)

LEMMA ContTypes ==
  ASSUME StressInv
  PROVE  /\ DOMAIN cont = Procs /\ DOMAIN pc = Procs
         /\ k.running # PID_NONE => Caller \in Procs
BY Types DEF StressInv, ProgramsInv, Domains, Sound, KernelInv, TypeOK

\* A step of p: it goes on, or it starts or continues to wait where it is.
LEMMA ProgramWaits ==
  ASSUME StressInv, WaitInv, NEW p \in Procs,
         \A r \in Procs \ {p} : pc'[r] = pc[r],
         p # PID_C => UNCHANGED c_message_queue,
         \/ UNCHANGED cont /\ cont[p] \notin {"request", "receive"}
         \/ cont' = [cont EXCEPT ![p] = "user"]
         \/ /\ cont' = [cont EXCEPT ![p] = "request"] /\ UNCHANGED <<pc, c_message_queue>>
            /\ pc[p] \in {"register", "request", "dispatch"}
         \/ /\ cont' = [cont EXCEPT ![p] = "receive"] /\ UNCHANGED <<pc, c_message_queue>>
            /\ pc[p] \in {"receive", "take", "sleep"}
            /\ p = PID_C /\ pc[p] = "take" => c_message_queue = << >>
  PROVE  WaitInv'
<1>1. DOMAIN cont = Procs /\ DOMAIN pc = Procs /\ PID_C \in Procs
  BY ContTypes, PidsDistinct
<1>2. \A r \in Procs \ {p} : cont'[r] = cont[r] /\ pc'[r] = pc[r]
  BY <1>1
<1>3. CASE cont'[p] \notin {"request", "receive"}
  BY <1>1, <1>2, <1>3 DEF WaitInv
<1>4. CASE /\ cont'[p] = "request" /\ UNCHANGED <<pc, c_message_queue>>
           /\ pc[p] \in {"register", "request", "dispatch"}
  BY <1>1, <1>2, <1>4 DEF WaitInv
<1>5. CASE /\ cont'[p] = "receive" /\ UNCHANGED <<pc, c_message_queue>>
           /\ pc[p] \in {"receive", "take", "sleep"}
           /\ p = PID_C /\ pc[p] = "take" => c_message_queue = << >>
  BY <1>1, <1>2, <1>5 DEF WaitInv
<1> QED
  BY <1>1, <1>3, <1>4, <1>5

\* The calls.
LEMMA CallWaits ==
  ASSUME StressInv, WaitInv, NEW p \in Procs, NEW at, NEW then,
         p # PID_C => UNCHANGED c_message_queue,
         \/ /\ Request(p, at, then) /\ UNCHANGED c_message_queue
            /\ at \in {"register", "request", "dispatch"}
         \/ Step(p, at, then) \/ Yield(p, at, then) \/ Receive(p, at, then)
         \/ Release(p, at, then)
         \/ \E to, content : Send(p, at, to, content, then)
         \/ /\ ReceiveNothing(p, at) /\ UNCHANGED c_message_queue
            /\ at \in {"receive", "take", "sleep"}
            /\ p = PID_C /\ at = "take" => c_message_queue = << >>
  PROVE  WaitInv'
<1>1. DOMAIN cont = Procs /\ DOMAIN pc = Procs
  BY ContTypes
<1>2. ASSUME UNCHANGED pc \/ Goto(p, then)
      PROVE  \A r \in Procs \ {p} : pc'[r] = pc[r]
  BY <1>1, <1>2 DEF Goto
<1>3. CASE Request(p, at, then) /\ UNCHANGED c_message_queue
           /\ at \in {"register", "request", "dispatch"}
  <2>1. Caller = p /\ pc[p] = at
    BY <1>3 DEF Request, At
  <2>2. CASE g_heap = << >>
    <3>1. UNCHANGED pc /\ cont' = [cont EXCEPT ![p] = "request"]
      BY <1>3, <2>1, <2>2 DEF Request, RequestMemoryBlock
    <3> QED BY <1>2, <1>3, <2>1, <3>1, ProgramWaits
  <2>3. CASE g_heap # << >>
    <3>1. Goto(p, then) /\ cont' = [cont EXCEPT ![p] = "user"]
      BY <1>3, <2>1, <2>3 DEF Request, RequestMemoryBlock
    <3> QED BY <1>2, <3>1, ProgramWaits
  <2> QED BY <2>2, <2>3
<1>4. CASE \/ Step(p, at, then) \/ Yield(p, at, then) \/ Release(p, at, then)
           \/ \E to, content : Send(p, at, to, content, then)
  <2>1. Goto(p, then) /\ UNCHANGED cont /\ cont[p] = "user"
    BY <1>4 DEF Step, Yield, Release, Send, Free, ReleaseMemoryBlock, ReleaseProcessor,
                SendMessage, At, CanCall, UserMode, Caller, vars
  <2> QED BY <1>2, <2>1, ProgramWaits
<1>5. CASE Receive(p, at, then)
  <2>1. Goto(p, then) /\ cont' = [cont EXCEPT ![p] = "user"]
    BY <1>5 DEF Receive, ReceiveMessage, HasMail, At
  <2> QED BY <1>2, <2>1, ProgramWaits
<1>6. CASE /\ ReceiveNothing(p, at) /\ UNCHANGED c_message_queue
           /\ at \in {"receive", "take", "sleep"}
           /\ p = PID_C /\ at = "take" => c_message_queue = << >>
  <2>1. /\ Caller = p /\ pc[p] = at /\ UNCHANGED pc
        /\ cont' = [cont EXCEPT ![p] = "receive"]
    BY <1>6 DEF ReceiveNothing, ReceiveMessage, HasMail, At, procVars
  <2> QED BY <1>2, <1>6, <2>1, ProgramWaits
<1> QED
  BY <1>3, <1>4, <1>5, <1>6

LEMMA RegisterWaits ==
  ASSUME StressInv, WaitInv, NEW p \in Procs, NEW prefix, NEW then, UNCHANGED c_message_queue,
         kcd_register(p, prefix, then)
  PROVE  WaitInv'
BY CallWaits DEF kcd_register

LEMMA SystemWaits ==
  ASSUME StressInv, WaitInv, SystemProcess, UNCHANGED c_message_queue
  PROVE  WaitInv'
<1>1. PID_KCD \in Procs /\ PID_CRT \in Procs /\ PID_SET_PRIO \in Procs
  BY PidsDistinct
<1>2. DOMAIN pc = Procs
  BY ContTypes
<1>3. CASE proc_kcd
  <2>1. CASE KcdReceive
    <3>1. cont' = [cont EXCEPT ![PID_KCD] = "user"]
      BY <2>1 DEF KcdReceive, ReceiveMessage, HasMail, At
    <3>2. \A r \in Procs \ {PID_KCD} : pc'[r] = pc[r]
      BY <1>2, <2>1 DEF KcdReceive, Goto
    <3> QED BY <1>1, <3>1, <3>2, ProgramWaits
  <2>2. CASE KcdGetc
    BY <1>1, <2>2, CallWaits DEF KcdGetc
  <2>3. CASE KcdDispatch
    <3>1. \/ Step(PID_KCD, "dispatch", "getc")
          \/ Request(PID_KCD, "dispatch", "forward")
          \/ \E to, content : Send(PID_KCD, "forward", to, content, "dispatch")
      BY <2>3 DEF KcdDispatch
    <3>2. CASE Step(PID_KCD, "dispatch", "getc")
      BY <1>1, <3>2, CallWaits
    <3>3. CASE Request(PID_KCD, "dispatch", "forward")
      BY <1>1, <3>3, CallWaits
    <3>4. CASE \E to, content : Send(PID_KCD, "forward", to, content, "dispatch")
      BY <1>1, <3>4, CallWaits
    <3> QED BY <3>1, <3>2, <3>3, <3>4
  <2>4. CASE ReceiveNothing(PID_KCD, "receive")
    <3> PICK then : then = "getc"
      OBVIOUS
    <3>1. \/ Receive(PID_KCD, "receive", then) \/ ReceiveNothing(PID_KCD, "receive")
      BY <2>4
    <3> QED BY <1>1, <3>1, CallWaits
  <2> QED BY <1>3, <2>1, <2>2, <2>3, <2>4 DEF proc_kcd
<1>4. CASE proc_crt
  <2>1. CASE CrtPrint
    <3>1. UNCHANGED <<cont, pc>> /\ cont[PID_CRT] = "user"
      BY <2>1 DEF CrtPrint, Free, ReleaseMemoryBlock, At, CanCall, UserMode, Caller
    <3> QED BY <1>1, <3>1, ProgramWaits
  <2>2. CASE CrtReceive \/ CrtWait \/ ReceiveNothing(PID_CRT, "receive")
    BY <1>1, <2>2, CallWaits DEF CrtReceive, CrtWait
  <2> QED BY <1>4, <2>1, <2>2 DEF proc_crt
<1>5. CASE proc_set_prio
  <2> DEFINE p == PID_SET_PRIO
  <2>1. CASE SetPrioCommand
    <3>1. ASSUME NEW then, Goto(p, then), UNCHANGED cont, cont[p] = "user" PROVE WaitInv'
      <4>1. \A r \in Procs \ {p} : pc'[r] = pc[r]
        BY <1>2, <3>1 DEF Goto
      <4> QED BY <1>1, <3>1, <4>1, ProgramWaits
    <3>2. \E then : Goto(p, then) /\ UNCHANGED cont /\ cont[p] = "user"
      BY <2>1 DEF SetPrioCommand, SetProcess, Step, SetProcessPriority, At, CanCall, UserMode,
                  Caller, vars
    <3> QED BY <3>1, <3>2
  <2>2. CASE SetPrioError
    <3>1. ASSUME At(p, "request"), RequestMemoryBlock,
                 IF g_heap = << >> THEN UNCHANGED <<pc, display_msg>>
                 ELSE display_msg' = Head(g_heap) /\ Goto(p, "display")
          PROVE  WaitInv'
      <4>1. Caller = p /\ pc[p] = "request"
        BY <3>1 DEF At
      <4>2. CASE g_heap = << >>
        <5>1. UNCHANGED pc /\ cont' = [cont EXCEPT ![p] = "request"]
          BY <3>1, <4>1, <4>2 DEF RequestMemoryBlock
        <5> QED BY <1>1, <4>1, <5>1, ProgramWaits
      <4>3. CASE g_heap # << >>
        <5>1. cont' = [cont EXCEPT ![p] = "user"] /\ \A r \in Procs \ {p} : pc'[r] = pc[r]
          BY <1>2, <3>1, <4>1, <4>3 DEF RequestMemoryBlock, Goto
        <5> QED BY <1>1, <5>1, ProgramWaits
      <4> QED BY <4>2, <4>3
    <3>2. ASSUME At(p, "display"), SendMessage(PID_CRT, display_msg), Goto(p, "release")
          PROVE  WaitInv'
      <4>1. /\ UNCHANGED cont /\ cont[p] = "user"
            /\ \A r \in Procs \ {p} : pc'[r] = pc[r]
        BY <1>2, <3>2 DEF SendMessage, At, Goto, CanCall, UserMode, Caller
      <4> QED BY <1>1, <4>1, ProgramWaits
    <3> QED BY <2>2, <3>1, <3>2 DEF SetPrioError
  <2>3. CASE kcd_register(p, "%C", "receive")
    BY <1>1, <2>3, RegisterWaits
  <2>4. CASE Receive(p, "receive", "set")
    BY <1>1, <2>4, CallWaits
  <2>5. CASE Release(p, "release", "receive")
    BY <1>1, <2>5, CallWaits
  <2>6. CASE ReceiveNothing(p, "receive")
    <3>1. PID_SET_PRIO # PID_C
      BY PidsDistinct
    <3>2. PICK then : then = "set"
      OBVIOUS
    <3> QED BY <1>1, <2>6, <3>1, <3>2, CallWaits
  <2> QED BY <1>5, <2>1, <2>2, <2>3, <2>4, <2>5, <2>6 DEF proc_set_prio
<1> QED
  BY <1>3, <1>4, <1>5 DEF SystemProcess

LEMMA StressWaits ==
  ASSUME StressInv, WaitInv, StressProcess
  PROVE  WaitInv'
<1>1. PID_A \in Procs /\ PID_B \in Procs /\ PID_C \in Procs /\ PID_C \notin {PID_A, PID_B}
  BY PidsDistinct
<1>2. CASE proc_A /\ UNCHANGED cVars
  <2>1. UNCHANGED c_message_queue
    BY <1>2 DEF cVars
  <2>2. CASE kcd_register(PID_A, "%Z", "receive")
    BY <1>1, <2>1, <2>2, RegisterWaits
  <2>3. CASE Send(PID_A, "send", PID_B, Message(COUNT_REPORT, [num |-> num]), "release_processor")
    <3>1. \E to, content : Send(PID_A, "send", to, content, "release_processor")
      BY <2>3
    <3> QED BY <1>1, <2>1, <3>1, CallWaits
  <2>4. CASE \/ ReceiveNothing(PID_A, "receive") \/ Receive(PID_A, "receive", "answer")
             \/ Release(PID_A, "answer", IF IsStart THEN "request" ELSE "receive")
             \/ Request(PID_A, "request", "send")
             \/ Yield(PID_A, "release_processor", "request")
    BY <1>1, <2>1, <2>4, CallWaits
  <2> QED BY <1>2, <2>2, <2>3, <2>4 DEF proc_A
<1>3. CASE proc_B /\ UNCHANGED stressVars
  <2>1. UNCHANGED c_message_queue
    BY <1>3 DEF stressVars, cVars
  <2> QED BY <1>1, <1>3, <2>1, CallWaits DEF proc_B
<1>4. CASE proc_C
  <2> DEFINE p == PID_C
  <2>1. CASE CTakeMailed \/ CTakeKept \/ CDisplay \/ CRelease \/ Yield(p, "release_processor", "take")
    BY <1>1, <2>1, CallWaits DEF CTakeMailed, CTakeKept, CDisplay, CRelease
  <2>2. CASE ReceiveNothing(p, "take") /\ c_message_queue = << >> /\ UNCHANGED c_message_queue
    BY <1>1, <2>2, CallWaits
  <2>3. CASE ReceiveNothing(p, "sleep") /\ UNCHANGED c_message_queue
    BY <1>1, <2>3, CallWaits
  <2>4. CASE CHibernate
    <3>1. /\ UNCHANGED cont /\ cont[p] = "user"
          /\ \A r \in Procs \ {p} : pc'[r] = pc[r]
      BY <2>4, ContTypes DEF CHibernate, DelayedSend, At, Goto, CanCall, UserMode, Caller
    <3> QED BY <1>1, <3>1, ProgramWaits
  <2>5. CASE CSleep
    <3>1. /\ cont' = [cont EXCEPT ![p] = "user"]
          /\ \A r \in Procs \ {p} : pc'[r] = pc[r]
      BY <2>5, ContTypes DEF CSleep, ReceiveMessage, HasMail, At, Goto
    <3> QED BY <1>1, <3>1, ProgramWaits
  <2> QED BY <1>4, <2>1, <2>2, <2>3, <2>4, <2>5 DEF proc_C, cVars
<1>5. CASE Spin /\ UNCHANGED stressVars
  <2>1. PICK p \in Spinners : Yield(p, "spin", "spin")
    BY <1>5 DEF Spin
  <2>2. p \in Procs /\ UNCHANGED c_message_queue
    BY <1>5, StressAssumption DEF stressVars, cVars
  <2> QED BY <2>1, <2>2, CallWaits
<1> QED
  BY <1>2, <1>3, <1>4, <1>5 DEF StressProcess

LEMMA WaitStep == StressInv /\ WaitInv /\ [StressNext]_allVars => WaitInv'
<1> SUFFICES ASSUME StressInv, WaitInv, [StressNext]_allVars PROVE WaitInv'
  OBVIOUS
<1>1. CASE StressProcess
  BY <1>1, StressWaits
<1>2. CASE SystemProcess /\ UNCHANGED stressVars
  BY <1>2, SystemWaits DEF stressVars, cVars
<1>3. ASSUME UNCHANGED <<cont, pc, c_message_queue>> PROVE WaitInv'
  BY <1>3 DEF WaitInv
<1>4. CASE Tick \/ Finish
  <2>1. UNCHANGED <<pc, c_message_queue>>
    BY <1>4 DEF Tick, TimerHandler, Finish, KernelStep, procVars, stressVars, cVars
  <2>2. CASE UNCHANGED cont
    BY <1>3, <2>1, <2>2
  <2>3. ASSUME NEW p \in Procs, NEW c \in {"timer", "user"}, cont' = [cont EXCEPT ![p] = c]
        PROVE  WaitInv'
    BY <2>1, <2>3, ContTypes, PidsDistinct DEF WaitInv
  <2>4. \/ UNCHANGED cont
        \/ /\ k.running # PID_NONE
           /\ \E c \in {"timer", "user"} : cont' = [cont EXCEPT ![k.running] = c]
    BY <1>4 DEF Tick, TimerHandler, Finish, KernelStep, Boot, TimerAck, UserMode
  <2> QED BY <2>2, <2>3, <2>4, ContTypes DEF Caller
<1>5. CASE Irq
  <2>1. UNCHANGED <<cont, pc, c_message_queue>>
    BY <1>5 DEF Irq, UartInterrupt, Type, UartNotify, UartIrq, procVars, stressVars, cVars
  <2> QED BY <1>3, <2>1
<1>6. CASE UNCHANGED allVars
  <2>1. UNCHANGED <<cont, pc, c_message_queue>>
    BY <1>6 DEF allVars, vars, procVars, stressVars, cVars
  <2> QED BY <1>3, <2>1
<1> QED
  BY <1>1, <1>2, <1>4, <1>5, <1>6 DEF StressNext, Run

-----------------------------------------------------------------------------
(* Blocks, texts and letters through a step. *)

LEMMA BlockSets ==
  ASSUME NEW T, T \subseteq mem_blocks
  PROVE  IsFiniteSet(T) /\ Cardinality(T) \in Nat
<1>1. IsFiniteSet(mem_blocks)
  BY KernelAssumption, FS_Interval DEF mem_blocks
<1> QED
  BY <1>1, FS_Subset, FS_CardinalityType

LEMMA MarkedBlocks ==
  /\ RegBlocks \subseteq mem_blocks /\ LineBlocks \subseteq mem_blocks
  /\ RegBlocks' \subseteq mem_blocks /\ LineBlocks' \subseteq mem_blocks
  /\ IsFiniteSet(RegBlocks) /\ Cardinality(RegBlocks) \in Nat
  /\ IsFiniteSet(LineBlocks) /\ Cardinality(LineBlocks) \in Nat
  /\ IsFiniteSet(RegBlocks') /\ Cardinality(RegBlocks') \in Nat
  /\ IsFiniteSet(LineBlocks') /\ Cardinality(LineBlocks') \in Nat
<1>1. /\ RegBlocks \subseteq mem_blocks /\ LineBlocks \subseteq mem_blocks
      /\ RegBlocks' \subseteq mem_blocks /\ LineBlocks' \subseteq mem_blocks
  BY DEF RegBlocks, LineBlocks, mem_blocks
<1> QED
  BY <1>1, BlockSets

LEMMA OneMoreBlock ==
  ASSUME NEW T, NEW S, NEW b, IsFiniteSet(S), Cardinality(S) \in Nat, T \subseteq S \cup {b}
  PROVE  Cardinality(T) <= Cardinality(S) + 1
<1> PICK U : U = S \cup {b}
  OBVIOUS
<1>1. IsFiniteSet(U) /\ Cardinality(U) \in {Cardinality(S), Cardinality(S) + 1}
  BY FS_AddElement
<1>2. Cardinality(T) <= Cardinality(U) /\ Cardinality(T) \in Nat
  BY <1>1, FS_Subset, FS_CardinalityType
<1> QED
  BY <1>1, <1>2

\* What is left in a released block is no line.
LEMMA FreeText ==
  ASSUME NEW s
  PROVE  [str |-> s] \notin AllLines
BY ProcessesAssumption

\* No registration and no line is written into a block.
NoNewText == RegBlocks' \subseteq RegBlocks /\ LineBlocks' \subseteq LineBlocks

LEMMA TextsStay ==
  ASSUME UNCHANGED text
  PROVE  NoNewText
BY DEF NoNewText, RegBlocks, LineBlocks, mem_blocks

LEMMA OneText ==
  ASSUME NEW b, \A c \in mem_blocks \ {b} : text'[c] = text[c],
         text'[b].mtype # KCD_REG,
         text'[b].mtype = DEFAULT => text'[b].mtext \notin AllLines
  PROVE  NoNewText
BY DEF NoNewText, RegBlocks, LineBlocks, mem_blocks

\* What is new in a mailbox is what its owner gets.
NewKinds ==
  \A r \in Procs :
    \A e \in Contents(g_message_queues'[r]) \ Contents(g_message_queues[r]) : Kind(r, e)'

LEMMA NoLetter ==
  ASSUME UNCHANGED g_message_queues
  PROVE  NewKinds
<1>1. \A r \in Procs : Contents(g_message_queues'[r]) = Contents(g_message_queues[r])
  BY DEF Contents
<1> QED
  BY <1>1 DEF NewKinds

LEMMA ReadLetter ==
  ASSUME NEW p \in Procs, NEW e, Read(p, e)
  PROVE  NewKinds
<1>1. \A r \in Procs : r # p =>
        Contents(g_message_queues'[r]) = Contents(g_message_queues[r])
  BY DEF Read, Contents
<1> QED
  BY <1>1 DEF Read, NewKinds

LEMMA PostLetter ==
  ASSUME NEW to \in Procs, NEW e, Posted(to, e), Kind(to, e)'
  PROVE  NewKinds
<1>1. \A r \in Procs : r # to =>
        Contents(g_message_queues'[r]) = Contents(g_message_queues[r])
  BY DEF Posted, Contents
<1>2. Contents(g_message_queues'[to]) = Contents(g_message_queues[to]) \cup {e}
  BY DEF Posted
<1> QED
  BY <1>1, <1>2 DEF NewKinds

-----------------------------------------------------------------------------
(* The invariant through a step of p. *)

LEMMA KindsKept ==
  ASSUME StressInv, KindsInv, NEW p \in Procs, Others(p), NewKinds
  PROVE  KindsInv'
<1> SUFFICES ASSUME NEW r \in Procs, NEW e \in Contents(g_message_queues'[r])
             PROVE  Kind(r, e)'
  BY DEF KindsInv
<1>1. CASE e \notin Contents(g_message_queues[r])
  BY <1>1 DEF NewKinds
<1>2. CASE e \in Contents(g_message_queues[r])
  <2>1. Kind(r, e)
    BY <1>2 DEF KindsInv
  <2>2. e.msg \in mem_blocks => text'[e.msg] = text[e.msg]
    <3>1. e.msg \in Msgs(g_message_queues[r])
      BY <1>2 DEF Contents, Msgs
    <3> QED BY <3>1, MailOnly DEF StressInv, Others
  <2> QED BY <2>1, <2>2 DEF Kind, Kept, RegBlocks, LineBlocks, mem_blocks
<1> QED
  BY <1>1, <1>2

\* KCD's entries, when their texts stay.
LEMMA EntriesServed ==
  ASSUME StressInv, UNCHANGED entries, \A b \in Msgs(entries) : text'[b] = text[b]
  PROVE  /\ KeptInv => KeptInv'
         /\ UNCHANGED msg_buf => ToServe' = ToServe
<1>1. Contents(entries') = Contents(entries)
  BY DEF Contents
<1>2. \A e \in Contents(entries) : e.msg \in Msgs(entries)
  BY DEF Contents, Msgs
<1>3. \A i \in DOMAIN entries : entries[i].msg \in Msgs(entries)
  BY DEF Msgs
<1>4. KeptInv => KeptInv'
  BY <1>1, <1>2 DEF KeptInv, Kept, RegBlocks, mem_blocks
<1>5. UNCHANGED msg_buf => ToServe' = ToServe
  BY <1>3 DEF ToServe
<1> QED
  BY <1>4, <1>5

\* A step of another process leaves the texts of KCD's entries alone.
LEMMA EntryTexts ==
  ASSUME StressInv, NEW p \in Procs \ {PID_KCD}, Others(p)
  PROVE  \A b \in Msgs(entries) : text'[b] = text[b]
<1>1. KcdInv /\ Sound /\ PID_KCD \in Procs
  BY PidsDistinct DEF StressInv, ProgramsInv
<1>2. \A b \in Msgs(entries) : b \in held[PID_KCD]
  BY <1>1 DEF KcdInv
<1> QED
  BY <1>1, <1>2, HeldOnly DEF Others

LEMMA FewStay ==
  ASSUME MemoryInv, InputInv, NoNewText, UNCHANGED <<inbuf, typed>>,
         Registering(PID_A)' <= Registering(PID_A),
         Registering(PID_SET_PRIO)' <= Registering(PID_SET_PRIO),
         Pending' <= Pending
  PROVE  FewRegs' /\ FewLines'
<1>1. /\ Cardinality(RegBlocks') <= Cardinality(RegBlocks)
      /\ Cardinality(LineBlocks') <= Cardinality(LineBlocks)
  BY MarkedBlocks, FS_Subset DEF NoNewText
<1>2. FewRegs'
  BY <1>1, MarkedBlocks DEF MemoryInv, FewRegs, Registering
<1>3. FewLines'
  <2>1. Len(inbuf) \in Nat /\ typed \in Nat /\ Len(inbuf') = Len(inbuf) /\ typed' = typed
    BY LenProperties DEF InputInv
  <2> QED BY <1>1, <2>1, MarkedBlocks DEF MemoryInv, FewLines, Pending
<1> QED
  BY <1>2, <1>3

\* What a process leaves to the others.
LEMMA PartsKept ==
  ASSUME StressInv, MemoryInv, NEW p \in Procs, Others(p), NewKinds,
         p \in Programs \/ UNCHANGED held
  PROVE  /\ KindsInv' /\ NobodyElse'
         /\ p # PID_KCD /\ UNCHANGED <<entries, msg_buf>> => KeptInv' /\ Served' /\ Pending' = Pending
         /\ p # PID_SET_PRIO => HandLine'
         /\ p # PID_CRT /\ UNCHANGED output => CrtIdle'
<1>1. KindsInv'
  BY KindsKept DEF MemoryInv
<1>2. NobodyElse'
  BY DEF MemoryInv, NobodyElse, Others
<1>3. ASSUME p # PID_KCD /\ UNCHANGED <<entries, msg_buf>>
      PROVE  KeptInv' /\ Served' /\ Pending' = Pending
  <2>1. \A b \in Msgs(entries) : text'[b] = text[b]
    BY <1>3, EntryTexts
  <2>2. KeptInv' /\ ToServe' = ToServe
    BY <1>3, <2>1, EntriesServed DEF MemoryInv
  <2>3. pc'[PID_KCD] = pc[PID_KCD]
    BY <1>3, PidsDistinct DEF Others
  <2> QED BY <1>3, <2>2, <2>3 DEF MemoryInv, Served, Pending
<1>4. ASSUME p # PID_SET_PRIO PROVE HandLine'
  <2>1. SetPrioInv /\ Sound /\ PID_SET_PRIO \in Procs
    BY PidsDistinct DEF StressInv, ProgramsInv
  <2>2. /\ pc'[PID_SET_PRIO] = pc[PID_SET_PRIO] /\ hand'[PID_SET_PRIO] = hand[PID_SET_PRIO]
    BY <1>4, <2>1 DEF Others
  <2>3. ASSUME pc[PID_SET_PRIO] \in {"set", "request"}
        PROVE  text'[hand[PID_SET_PRIO]] = text[hand[PID_SET_PRIO]]
    <3>1. hand[PID_SET_PRIO] \in held[PID_SET_PRIO]
      BY <2>1, <2>3 DEF SetPrioInv, HandOf, mem_blocks, NoBlock
    <3> QED BY <1>4, <2>1, <3>1, HeldOnly DEF Others
  <2> QED BY <2>2, <2>3 DEF MemoryInv, HandLine, LineBlocks, mem_blocks
<1>5. p # PID_CRT /\ UNCHANGED output => CrtIdle'
  BY PidsDistinct DEF MemoryInv, CrtIdle, Others
<1> QED
  BY <1>1, <1>2, <1>3, <1>4, <1>5

\* A step of any process but KCD that writes no registration and no line.
LEMMA OrdinaryStep ==
  ASSUME StressInv, MemoryInv, NEW p \in Procs \ {PID_KCD}, Others(p), NewKinds, NoNewText,
         p \in Programs \/ UNCHANGED held,
         UNCHANGED <<entries, msg_buf, inbuf, typed>>,
         IF p = PID_CRT THEN CrtIdle' ELSE UNCHANGED output,
         p = PID_SET_PRIO => HandLine',
         p \in {PID_A, PID_SET_PRIO} => Registering(p)' <= Registering(p)
  PROVE  MemoryInv'
<1>1. KindsInv' /\ NobodyElse' /\ KeptInv' /\ Served' /\ Pending' = Pending
  BY PartsKept
<1>2. HandLine' /\ CrtIdle'
  BY PartsKept
<1>3. \A r \in {PID_A, PID_SET_PRIO} : Registering(r)' <= Registering(r)
  BY PidsDistinct DEF Others, Registering
<1>4. FewRegs' /\ FewLines'
  BY <1>1, <1>3, FewStay DEF Pending, StressInv, ProgramsInv
<1> QED
  BY <1>1, <1>2, <1>4 DEF MemoryInv

\* What the invariant of the memory is about.
LEMMA NothingKept ==
  ASSUME StressInv, MemoryInv,
         UNCHANGED <<g_message_queues, held, pc, hand, text, entries, msg_buf, output, inbuf,
                     typed>>
  PROVE  MemoryInv'
<1>1. PID_CRT \in Procs \ {PID_KCD}
  BY PidsDistinct
<1>2. /\ KindsInv' /\ KeptInv' /\ NobodyElse' /\ Served' /\ CrtIdle' /\ HandLine'
  BY DEF MemoryInv, KindsInv, Kind, KeptInv, Kept, NobodyElse, Served, ToServe, CrtIdle,
         HandLine, RegBlocks, LineBlocks, Contents, mem_blocks
<1>3. NoNewText
  BY TextsStay
<1>4. FewRegs' /\ FewLines'
  BY <1>3, FewStay DEF Registering, Pending, StressInv, ProgramsInv
<1> QED
  BY <1>2, <1>4 DEF MemoryInv

-----------------------------------------------------------------------------
(* The memory through the calls. *)

\* What Free leaves in block b.
LEMMA FreedText ==
  ASSUME Domains, NEW b \in mem_blocks, Free(b)
  PROVE  NoNewText
<1>0. PICK content : content = Message(DEFAULT, [str |-> ""])
  OBVIOUS
<1>1. text' = [text EXCEPT ![b] = content]
  BY <1>0, Zenon DEF Free
<1>2. content.mtext \notin AllLines /\ content.mtype = DEFAULT
  <2>1. ASSUME NEW s, content = Message(DEFAULT, [str |-> s])
        PROVE  content.mtext \notin AllLines /\ content.mtype = DEFAULT
    BY <2>1, FreeText DEF Message
  <2> QED BY <1>0, <2>1, Zenon
<1>3. text'[b] = content /\ \A c \in mem_blocks \ {b} : text'[c] = text[c]
  BY <1>1 DEF Domains
<1> QED
  BY <1>2, <1>3, OneText DEF DEFAULT, KCD_REG

\* What every program leaves to KCD and to CRT.
Frame(p) ==
  /\ UNCHANGED <<entries, msg_buf, inbuf, typed>>
  /\ IF p = PID_CRT THEN CrtIdle' ELSE UNCHANGED output

\* The points where p asks for a registration, and where it looks at a line.
Points(p, at, then) ==
  /\ p \in {PID_A, PID_SET_PRIO} /\ then \in {"register", "send_register"} =>
       at \in {"register", "send_register"}
  /\ p = PID_SET_PRIO => HandLine'

LEMMA PlainStep ==
  ASSUME StressInv, MemoryInv, NEW p \in Programs \ {PID_KCD}, Others(p), NewKinds, NoNewText,
         Frame(p), NEW at, NEW then, Goes(p, at, then), Points(p, at, then)
  PROVE  MemoryInv'
<1>1. p \in Procs \ {PID_KCD}
  BY PidsDistinct DEF Programs
<1>2. p \in {PID_A, PID_SET_PRIO} => Registering(p)' <= Registering(p)
  BY DEF Points, Goes, Registering
<1> QED
  BY <1>1, <1>2, OrdinaryStep DEF Frame, Points

LEMMA StepKeeps ==
  ASSUME StressInv, MemoryInv, NEW p \in Programs \ {PID_KCD}, NEW at, NEW then, NEW b,
         Step(p, at, then) \/ Yield(p, at, then),
         UNCHANGED text, UNCHANGED hand \/ Put(p, b),
         Frame(p), Points(p, at, then)
  PROVE  MemoryInv'
<1>1. p \in Procs /\ Sound /\ Domains
  BY PidsDistinct DEF Programs, StressInv, ProgramsInv
<1>2. Others(p) /\ Quiet /\ Goes(p, at, then)
  BY <1>1, StepCall
<1> QED
  BY <1>2, NoLetter, TextsStay, PlainStep DEF Quiet

LEMMA RequestKeeps ==
  ASSUME StressInv, MemoryInv, NEW p \in Programs \ {PID_KCD}, NEW at, NEW then,
         Request(p, at, then), UNCHANGED consoleVars, p # PID_CRT,
         then \notin {"set", "request"},
         then = "send_register" => at = "register",
         then # "register"
  PROVE  MemoryInv'
<1>1. p \in Procs
  BY PidsDistinct DEF Programs
<1>2. UNCHANGED <<entries, msg_buf, output, inbuf, typed>>
  BY DEF consoleVars, kcdVars
<1>3. /\ UNCHANGED <<g_message_queues, text>>
      /\ UNCHANGED <<pc, hand, held>> \/ (Others(p) /\ Goes(p, at, then))
  BY <1>1, RequestCall
<1>4. CASE UNCHANGED <<pc, hand, held>>
  BY <1>2, <1>3, <1>4, NothingKept
<1>5. CASE Others(p) /\ Goes(p, at, then)
  <2>1. Frame(p) /\ Points(p, at, then)
    BY <1>2, <1>5 DEF Frame, Points, HandLine, Goes
  <2> QED BY <1>3, <1>5, <2>1, NoLetter, TextsStay, PlainStep
<1> QED
  BY <1>3, <1>4, <1>5

LEMMA ReceiveKeeps ==
  ASSUME StressInv, MemoryInv, NEW p \in Programs \ {PID_KCD}, NEW at, NEW then,
         Receive(p, at, then), Frame(p),
         then \notin {"register", "send_register"}
  PROVE  MemoryInv'
<1>1. p \in Procs \ {PID_KCD}
  BY PidsDistinct DEF Programs
<1>2. /\ Others(p) /\ Goes(p, at, then) /\ UNCHANGED text /\ Read(p, Mail(p))
      /\ hand'[p] = Mail(p).msg
  BY <1>1, ReceiveCall
<1>3. p = PID_SET_PRIO => HandLine'
  <2> PICK e : e = Mail(p)
    OBVIOUS
  <2>1. e \in Contents(g_message_queues[p]) /\ hand'[p] = e.msg
    BY <1>2 DEF Read
  <2>2. p = PID_SET_PRIO => e.msg \in LineBlocks
    BY <1>1, <2>1 DEF MemoryInv, KindsInv, Kind
  <2>3. LineBlocks' = LineBlocks
    BY <1>2 DEF LineBlocks, mem_blocks
  <2> QED BY <2>1, <2>2, <2>3 DEF HandLine
<1>4. NewKinds
  <2> PICK e : e = Mail(p)
    OBVIOUS
  <2>1. Read(p, e)
    BY <1>2
  <2> QED BY <1>1, <2>1, ReadLetter
<1> QED
  BY <1>2, <1>3, <1>4, TextsStay, PlainStep DEF Points

LEMMA ReleaseKeeps ==
  ASSUME StressInv, MemoryInv, NEW p \in Programs \ {PID_KCD}, NEW at, NEW then,
         Release(p, at, then), Frame(p),
         then \notin {"register", "send_register", "set"},
         p = PID_SET_PRIO => then # "request"
  PROVE  MemoryInv'
<1>1. p \in Procs
  BY PidsDistinct DEF Programs
<1>2. /\ Others(p) /\ Goes(p, at, then) /\ UNCHANGED g_message_queues /\ hand[p] \in held[p]
  BY <1>1, ReleaseCall
<1>3. NoNewText
  <2>1. hand[p] \in mem_blocks
    BY <1>1, <1>2, HeldOnly DEF StressInv
  <2> PICK b : b = hand[p]
    OBVIOUS
  <2>2. b \in mem_blocks /\ Free(b)
    BY <2>1 DEF Release
  <2> QED BY <2>2, FreedText DEF StressInv, ProgramsInv
<1>4. Points(p, at, then)
  BY <1>2 DEF Points, HandLine, Goes
<1> QED
  BY <1>2, <1>3, <1>4, NoLetter, PlainStep

\* A message that is neither a registration nor a line.
LEMMA SendKeeps ==
  ASSUME StressInv, MemoryInv, NEW p \in Programs \ {PID_KCD}, NEW at, NEW then,
         NEW to \in Programs \ {PID_KCD, PID_A, PID_SET_PRIO},
         NEW content, IsMessage(content), content.mtype \notin {DEFAULT, KCD_REG},
         Send(p, at, to, content, then), Frame(p), p # PID_SET_PRIO,
         then \notin {"register", "send_register"}
  PROVE  MemoryInv'
<1>1. p \in Procs /\ to \in Procs
  BY PidsDistinct DEF Programs
<1> PICK e : e = [msg |-> hand[p], m_send_pid |-> p]
  OBVIOUS
<1>2. /\ Others(p) /\ Goes(p, at, then)
      /\ Written(hand[p], content)
      /\ Posted(to, [msg |-> hand[p], m_send_pid |-> p])
  BY <1>1, SendCall
<1>3. Posted(to, e)
  BY <1>2
<1>4. Kind(to, e)'
  BY DEF Kind, Programs
<1>5. NewKinds
  BY <1>1, <1>3, <1>4, PostLetter
<1>6. NoNewText
  <2> PICK b : b = hand[p]
    OBVIOUS
  <2>1. Written(b, content)
    BY <1>2
  <2> QED BY <2>1, OneText DEF Written
<1>7. Points(p, at, then)
  BY DEF Points
<1> QED
  BY <1>2, <1>5, <1>6, <1>7, PlainStep

LEMMA WaitKeeps ==
  ASSUME StressInv, MemoryInv, NEW p \in Procs, NEW at, ReceiveNothing(p, at)
  PROVE  MemoryInv'
<1>1. Caller = p /\ g_message_queues[Caller] = << >> /\ Sound
  BY DEF ReceiveNothing, At, HasMail, StressInv
<1>2. Sound' /\ Quiet
  BY <1>1, ReceiveKernel DEF ReceiveNothing
<1>3. UNCHANGED <<pc, hand, text, entries, msg_buf, output, inbuf, typed>>
  BY DEF ReceiveNothing, procVars, locals, consoleVars, kcdVars
<1> QED
  BY <1>2, <1>3, NothingKept DEF Quiet

\* A registration is sent: one process less has to register.
LEMMA RegisterKeeps ==
  ASSUME StressInv, MemoryInv, NEW p \in {PID_A, PID_SET_PRIO}, NEW prefix,
         p = PID_A => prefix = "%Z",
         kcd_register(p, prefix, "receive")
  PROVE  MemoryInv'
<1>1. /\ p \in Procs /\ p \in Programs \ {PID_KCD} /\ p \notin {PID_KCD, PID_CRT}
      /\ PID_KCD \in Procs
  BY PidsDistinct DEF Programs
<1>2. UNCHANGED consoleVars /\ UNCHANGED <<entries, msg_buf, output, inbuf, typed>>
  BY DEF kcd_register, consoleVars, kcdVars
<1>3. CASE Request(p, "register", "send_register")
  BY <1>1, <1>2, <1>3, RequestKeeps
<1>4. CASE Send(p, "send_register", PID_KCD, Message(KCD_REG, [cmd |-> prefix]), "receive")
  <2> PICK content : content = Message(KCD_REG, [cmd |-> prefix])
    OBVIOUS
  <2> PICK b : b = hand[p]
    OBVIOUS
  <2> PICK e : e = [msg |-> b, m_send_pid |-> p]
    OBVIOUS
  <2>1. /\ IsMessage(content) /\ content.mtype = KCD_REG /\ content.mtext.cmd = prefix
        /\ e.msg = b /\ e.m_send_pid = p
    BY DEF Message, IsMessage
  <2>2. Send(p, "send_register", PID_KCD, content, "receive")
    BY <1>4
  <2>3. /\ Others(p) /\ Goes(p, "send_register", "receive") /\ b \in mem_blocks
        /\ Written(b, content)
        /\ Posted(PID_KCD, [msg |-> b, m_send_pid |-> p])
    BY <1>1, <2>1, <2>2, SendCall
  <2>4. Posted(PID_KCD, e)
    BY <2>3
  <2>5. RegBlocks' \subseteq RegBlocks \cup {b} /\ b \in RegBlocks' /\ LineBlocks' \subseteq LineBlocks
    BY <2>1, <2>3 DEF RegBlocks, LineBlocks, Written, mem_blocks, DEFAULT, KCD_REG
  <2>6. Kind(PID_KCD, e)'
    <3>1. text'[e.msg].mtext.cmd = prefix
      BY <2>1, <2>3 DEF Written
    <3> QED BY <2>1, <2>5, <3>1, PidsDistinct DEF Kind, Kept, Programs
  <2>7. NewKinds
    BY <1>1, <2>4, <2>6, PostLetter
  <2>8. KindsInv' /\ NobodyElse' /\ KeptInv' /\ Served' /\ Pending' = Pending /\ CrtIdle'
    BY <1>1, <1>2, <2>3, <2>7, PartsKept
  <2>9. HandLine'
    <3>1. p # PID_SET_PRIO => HandLine'
      BY <1>1, <2>3, <2>7, PartsKept
    <3> QED BY <2>3, <3>1 DEF HandLine, Goes
  <2>10. FewRegs'
    <3>1. Cardinality(RegBlocks') <= Cardinality(RegBlocks) + 1
      BY <2>5, MarkedBlocks, OneMoreBlock
    <3>2. Registering(p) = 1 /\ Registering(p)' = 0
      BY <2>3 DEF Registering, Goes
    <3>3. \A r \in {PID_A, PID_SET_PRIO} \ {p} : Registering(r)' = Registering(r)
      BY <2>3, PidsDistinct DEF Registering, Others
    <3>4. \A r : Registering(r) \in {0, 1}
      BY DEF Registering
    <3>5. CASE p = PID_A
      <4>1. Registering(PID_SET_PRIO)' = Registering(PID_SET_PRIO)
        BY <3>3, <3>5, PidsDistinct
      <4> QED BY <3>1, <3>2, <3>4, <3>5, <4>1, MarkedBlocks DEF MemoryInv, FewRegs
    <3>6. CASE p = PID_SET_PRIO
      <4>1. Registering(PID_A)' = Registering(PID_A)
        BY <3>3, <3>6, PidsDistinct
      <4> QED BY <3>1, <3>2, <3>4, <3>6, <4>1, MarkedBlocks DEF MemoryInv, FewRegs
    <3> QED BY <3>5, <3>6
  <2>11. FewLines'
    <3>1. Cardinality(LineBlocks') <= Cardinality(LineBlocks)
      BY <2>5, MarkedBlocks, FS_Subset
    <3>2. Len(inbuf) \in Nat /\ typed \in Nat /\ Len(inbuf') = Len(inbuf) /\ typed' = typed
      BY <1>2, LenProperties DEF InputInv, StressInv, ProgramsInv
    <3>3. Pending \in {0, 1}
      BY DEF Pending
    <3> QED BY <2>8, <3>1, <3>2, <3>3, MarkedBlocks DEF MemoryInv, FewLines
  <2> QED BY <2>8, <2>9, <2>10, <2>11 DEF MemoryInv
<1> QED
  BY <1>3, <1>4 DEF kcd_register

-----------------------------------------------------------------------------
(* The memory through the steps of the processes. *)

LEMMA AKeeps ==
  ASSUME StressInv, MemoryInv, proc_A, UNCHANGED cVars
  PROVE  MemoryInv'
<1> DEFINE p == PID_A
<1>1. /\ p \in Procs /\ p \in Programs \ {PID_KCD} /\ p \notin {PID_CRT, PID_SET_PRIO}
      /\ PID_B \in Programs \ {PID_KCD, PID_A, PID_SET_PRIO}
  BY PidsDistinct DEF Programs
<1>2. UNCHANGED consoleVars => Frame(p)
  BY <1>1 DEF consoleVars, kcdVars, Frame
<1>3. CASE kcd_register(p, "%Z", "receive")
  BY <1>1, <1>3, RegisterKeeps
<1>4. CASE ReceiveNothing(p, "receive")
  BY <1>1, <1>4, WaitKeeps
<1>5. CASE Receive(p, "receive", "answer") /\ UNCHANGED consoleVars
  BY <1>1, <1>2, <1>5, ReceiveKeeps
<1>6. CASE Release(p, "answer", IF IsStart THEN "request" ELSE "receive") /\ UNCHANGED consoleVars
  <2> PICK then : then = IF IsStart THEN "request" ELSE "receive"
    OBVIOUS
  <2>1. Release(p, "answer", then) /\ then \in {"request", "receive"}
    BY <1>6
  <2> QED BY <1>1, <1>2, <1>6, <2>1, ReleaseKeeps
<1>7. CASE Request(p, "request", "send") /\ UNCHANGED consoleVars
  BY <1>1, <1>7, RequestKeeps
<1>8. CASE Yield(p, "release_processor", "request") /\ UNCHANGED locals /\ UNCHANGED consoleVars
  <2>1. UNCHANGED <<hand, text>> /\ Points(p, "release_processor", "request")
    BY <1>1, <1>8 DEF locals, Points
  <2> QED BY <1>1, <1>2, <1>8, <2>1, StepKeeps
<1>9. CASE /\ Send(p, "send", PID_B, Message(COUNT_REPORT, [num |-> num]), "release_processor")
           /\ UNCHANGED consoleVars
  <2> PICK content : content = Message(COUNT_REPORT, [num |-> num])
    OBVIOUS
  <2>1. IsMessage(content) /\ content.mtype \notin {DEFAULT, KCD_REG}
    BY DEF IsMessage, Message, COUNT_REPORT, DEFAULT, KCD_REG
  <2>2. Send(p, "send", PID_B, content, "release_processor")
    BY <1>9
  <2> QED BY <1>1, <1>2, <1>9, <2>1, <2>2, SendKeeps
<1> QED
  BY <1>3, <1>4, <1>5, <1>6, <1>7, <1>8, <1>9 DEF proc_A

LEMMA BKeeps ==
  ASSUME StressInv, MemoryInv, proc_B, UNCHANGED stressVars
  PROVE  MemoryInv'
<1> DEFINE p == PID_B
<1>1. /\ p \in Procs /\ p \in Programs \ {PID_KCD} /\ p \notin {PID_CRT, PID_SET_PRIO}
      /\ PID_C \in Programs \ {PID_KCD, PID_A, PID_SET_PRIO} /\ BInv /\ Domains
  BY PidsDistinct DEF Programs, StressInv, ProgramsInv
<1>2. UNCHANGED consoleVars => Frame(p)
  BY <1>1 DEF consoleVars, kcdVars, Frame
<1>3. CASE ReceiveNothing(p, "receive")
  BY <1>1, <1>3, WaitKeeps
<1>4. CASE Receive(p, "receive", "send") /\ UNCHANGED consoleVars
  BY <1>1, <1>2, <1>4, ReceiveKeeps
<1>5. CASE At(p, "send") /\ Send(p, "send", PID_C, text[hand[p]], "receive") /\ UNCHANGED consoleVars
  <2> PICK content : content = text[hand[p]]
    OBVIOUS
  <2>1. hand[p] \in mem_blocks /\ IsReport(hand[p])
    BY <1>1, <1>5 DEF BInv, At
  <2>2. IsMessage(content) /\ content.mtype \notin {DEFAULT, KCD_REG}
    BY <1>1, <2>1 DEF Domains, IsReport, COUNT_REPORT, DEFAULT, KCD_REG
  <2>3. Send(p, "send", PID_C, content, "receive")
    BY <1>5
  <2> QED BY <1>1, <1>2, <1>5, <2>2, <2>3, SendKeeps
<1> QED
  BY <1>3, <1>4, <1>5 DEF proc_B

LEMMA CKeeps ==
  ASSUME StressInv, MemoryInv, proc_C, UNCHANGED num
  PROVE  MemoryInv'
<1> DEFINE p == PID_C
<1>1. /\ p \in Procs /\ p \in Programs \ {PID_KCD} /\ p \in Procs \ {PID_KCD}
      /\ p \notin {PID_CRT, PID_SET_PRIO, PID_A}
      /\ PID_CRT \in Programs \ {PID_KCD, PID_A, PID_SET_PRIO}
      /\ CInv /\ Domains /\ Sound
  BY PidsDistinct DEF Programs, StressInv, ProgramsInv
<1>2. UNCHANGED consoleVars => Frame(p)
  BY <1>1 DEF consoleVars, kcdVars, Frame
<1>3. \A at, then : Points(p, at, then)
  BY <1>1 DEF Points
<1>4. CASE CTakeMailed /\ UNCHANGED consoleVars
  <2> PICK then : then = Handle(Mail(p).msg)
    OBVIOUS
  <2>1. Receive(p, "take", then) /\ then \in {"release", "hibernate", "display"}
    BY <1>4 DEF CTakeMailed, Handle, AfterSleep
  <2> QED BY <1>1, <1>2, <1>4, <2>1, ReceiveKeeps
<1>5. CASE CTakeKept /\ UNCHANGED consoleVars
  <2> PICK b : b = Head(c_message_queue)
    OBVIOUS
  <2> PICK then : then = Handle(b)
    OBVIOUS
  <2>1. Step(p, "take", then) /\ Put(p, b) /\ UNCHANGED text
    BY <1>5 DEF CTakeKept
  <2> QED BY <1>1, <1>2, <1>3, <1>5, <2>1, StepKeeps
<1>6. ASSUME Others(p), NewKinds, NoNewText, UNCHANGED consoleVars
      PROVE  MemoryInv'
  BY <1>1, <1>2, <1>6, OrdinaryStep DEF Frame
<1>7. CASE CHibernate /\ UNCHANGED consoleVars
  <2>1. Others(p)
    BY <1>7, CHibernateStep
  <2>2. UNCHANGED g_message_queues
    BY <1>7 DEF CHibernate, DelayedSend
  <2> PICK b : b = hand[p]
    OBVIOUS
  <2>3. b \in mem_blocks /\ text' = [text EXCEPT ![b].mtype = WAKEUP_10]
    BY <1>1, <1>7 DEF CHibernate, At, CInv
  <2> PICK content : content = Message(WAKEUP_10, text[b].mtext)
    OBVIOUS
  <2>4. text' = [text EXCEPT ![b] = content] /\ content.mtype = WAKEUP_10
    BY <1>1, <2>3, Retyped DEF Message
  <2>5. text'[b] = content /\ \A c \in mem_blocks \ {b} : text'[c] = text[c]
    BY <1>1, <2>3, <2>4 DEF Domains
  <2>6. NoNewText
    BY <2>4, <2>5, OneText DEF WAKEUP_10, DEFAULT, KCD_REG
  <2> QED BY <1>6, <1>7, <2>1, <2>2, <2>6, NoLetter
<1>8. CASE CSleep /\ UNCHANGED consoleVars
  <2>1. Others(p)
    BY <1>8, CSleepStep
  <2> PICK e : e = Mail(p)
    OBVIOUS
  <2>2. Caller = p /\ HasMail(p) /\ ReceiveMessage /\ UNCHANGED text
    BY <1>8 DEF CSleep, At, locals
  <2>3. Read(p, e)
    BY <1>1, <2>2, ReceiveLetter
  <2> QED BY <1>1, <1>6, <1>8, <2>1, <2>2, <2>3, ReadLetter, TextsStay
<1>9. CASE CDisplay /\ UNCHANGED consoleVars
  <2>1. PICK mtext : Send(p, "display", PID_CRT, Message(CRT_DISPLAY, mtext), "take")
    BY <1>9 DEF CDisplay
  <2> PICK content : content = Message(CRT_DISPLAY, mtext)
    OBVIOUS
  <2>2. IsMessage(content) /\ content.mtype \notin {DEFAULT, KCD_REG}
    BY DEF IsMessage, Message, CRT_DISPLAY, DEFAULT, KCD_REG
  <2>3. Send(p, "display", PID_CRT, content, "take")
    BY <2>1
  <2> QED BY <1>1, <1>2, <1>9, <2>2, <2>3, SendKeeps
<1>10. CASE CRelease /\ UNCHANGED consoleVars
  BY <1>1, <1>2, <1>10, ReleaseKeeps DEF CRelease
<1>11. CASE Yield(p, "release_processor", "take") /\ UNCHANGED locals /\ UNCHANGED consoleVars
  BY <1>1, <1>2, <1>3, <1>11, StepKeeps DEF locals
<1>12. CASE ReceiveNothing(p, "take") \/ ReceiveNothing(p, "sleep")
  BY <1>1, <1>12, WaitKeeps
<1> QED
  BY <1>4, <1>5, <1>7, <1>8, <1>9, <1>10, <1>11, <1>12 DEF proc_C

LEMMA CrtKeeps ==
  ASSUME StressInv, MemoryInv, proc_crt, UNCHANGED stressVars
  PROVE  MemoryInv'
<1> DEFINE p == PID_CRT
<1>1. /\ p \in Procs /\ p \in Programs \ {PID_KCD} /\ p \notin {PID_KCD, PID_SET_PRIO, PID_A}
      /\ Domains
  BY PidsDistinct DEF Programs, StressInv, ProgramsInv
<1>2. UNCHANGED <<kcdVars, typed>> /\ CrtIdle' => Frame(p)
  BY DEF kcdVars, Frame
<1>3. CASE ReceiveNothing(p, "receive")
  BY <1>1, <1>3, WaitKeeps
<1>4. CASE CrtReceive /\ UNCHANGED <<kcdVars, typed>>
  <2>1. Receive(p, "receive", "print")
    BY <1>4 DEF CrtReceive
  <2>2. pc'[p] = "print"
    BY <1>1, <2>1 DEF Receive, Goto, Domains
  <2>3. CrtIdle'
    BY <2>2 DEF CrtIdle
  <2> QED BY <1>1, <1>2, <1>4, <2>1, <2>3, ReceiveKeeps
<1>5. CASE CrtPrint /\ UNCHANGED <<kcdVars, typed>>
  <2> PICK b : b = Head(output)
    OBVIOUS
  <2>1. /\ Others(p) /\ UNCHANGED <<g_message_queues, pc>> /\ b \in mem_blocks /\ Free(b)
    BY <1>5, PrintCall
  <2>2. pc[p] = "print"
    BY <1>5 DEF CrtPrint, At
  <2>3. CrtIdle'
    BY <2>1, <2>2 DEF CrtIdle
  <2> QED BY <1>1, <1>2, <1>5, <2>1, <2>3, NoLetter, FreedText, OrdinaryStep DEF Frame
<1>6. CASE CrtWait /\ UNCHANGED <<kcdVars, typed>>
  <2>1. Step(p, "print", "receive") /\ UNCHANGED <<hand, text, output>> /\ output = << >>
    BY <1>6 DEF CrtWait, locals
  <2>2. CrtIdle'
    BY <2>1 DEF CrtIdle
  <2>3. Points(p, "print", "receive")
    BY <1>1 DEF Points
  <2> QED BY <1>1, <1>2, <1>6, <2>1, <2>2, <2>3, StepKeeps
<1> QED
  BY <1>3, <1>4, <1>5, <1>6 DEF proc_crt

LEMMA SetPrioKeeps ==
  ASSUME StressInv, MemoryInv, proc_set_prio, UNCHANGED stressVars
  PROVE  MemoryInv'
<1> DEFINE p == PID_SET_PRIO
<1>1. /\ p \in Procs /\ p \in Programs \ {PID_KCD} /\ p \notin {PID_KCD, PID_CRT, PID_A}
      /\ PID_CRT \in Procs /\ PID_CRT \notin {PID_KCD, PID_A, p} /\ PID_CRT \in Programs
  BY PidsDistinct DEF Programs
<1>2. UNCHANGED consoleVars =>
        Frame(p) /\ UNCHANGED <<entries, msg_buf, output, inbuf, typed>>
  BY <1>1 DEF consoleVars, kcdVars, Frame
<1>3. CASE kcd_register(p, "%C", "receive")
  BY <1>1, <1>3, RegisterKeeps
<1>4. CASE ReceiveNothing(p, "receive")
  BY <1>1, <1>4, WaitKeeps
<1>5. CASE Receive(p, "receive", "set") /\ UNCHANGED consoleVars
  BY <1>1, <1>2, <1>5, ReceiveKeeps
<1>6. CASE SetPrioCommand /\ UNCHANGED consoleVars
  <2>1. /\ Others(p) /\ UNCHANGED <<g_message_queues, hand, text>>
        /\ \E then \in {"release", "request"} : Goes(p, "set", then)
    BY <1>6, CommandCall DEF Quiet
  <2>2. PICK then \in {"release", "request"} : Goes(p, "set", then)
    BY <2>1
  <2>3. HandLine'
    <3>1. hand'[p] \in LineBlocks
      BY <2>1, <2>2 DEF MemoryInv, HandLine, Goes
    <3> QED BY <2>1, <3>1 DEF HandLine, LineBlocks, mem_blocks
  <2>4. Points(p, "set", then)
    BY <2>3 DEF Points
  <2> QED BY <1>1, <1>2, <1>6, <2>1, <2>2, <2>4, NoLetter, TextsStay, PlainStep
<1>7. CASE SetPrioError /\ UNCHANGED consoleVars /\ At(p, "request")
  <2>1. /\ UNCHANGED <<g_message_queues, hand, text>>
        /\ UNCHANGED <<pc, held>> \/ (Others(p) /\ Goes(p, "request", "display"))
    BY <1>7, ErrorRequestCall
  <2>2. CASE UNCHANGED <<pc, held>>
    BY <1>2, <1>7, <2>1, <2>2, NothingKept
  <2>3. CASE Others(p) /\ Goes(p, "request", "display")
    <3>1. Points(p, "request", "display")
      BY <2>3 DEF Points, HandLine, Goes
    <3> QED BY <1>1, <1>2, <1>7, <2>1, <2>3, <3>1, NoLetter, TextsStay, PlainStep
  <2> QED BY <2>1, <2>2, <2>3
<1>8. CASE SetPrioError /\ UNCHANGED consoleVars /\ At(p, "display")
  <2> PICK b : b = display_msg
    OBVIOUS
  <2> PICK content : content = Message(CRT_DISPLAY, text[b].mtext)
    OBVIOUS
  <2> PICK e : e = [msg |-> b, m_send_pid |-> p]
    OBVIOUS
  <2>1. /\ Others(p) /\ Goes(p, "display", "release")
        /\ Written(b, content) /\ Posted(PID_CRT, [msg |-> b, m_send_pid |-> p])
    BY <1>8, ErrorSendCall
  <2>2. Posted(PID_CRT, e)
    BY <2>1
  <2>3. Kind(PID_CRT, e)'
    BY <1>1 DEF Kind, Programs
  <2>4. NewKinds
    BY <1>1, <2>2, <2>3, PostLetter
  <2>5. content.mtype = CRT_DISPLAY
    BY DEF Message
  <2>6. NoNewText
    BY <2>1, <2>5, OneText DEF Written, CRT_DISPLAY, DEFAULT, KCD_REG
  <2>7. Points(p, "display", "release")
    BY <2>1 DEF Points, HandLine, Goes
  <2> QED BY <1>1, <1>2, <1>8, <2>1, <2>4, <2>6, <2>7, PlainStep
<1>9. CASE Release(p, "release", "receive") /\ UNCHANGED consoleVars
  BY <1>1, <1>2, <1>9, ReleaseKeeps
<1>10. SetPrioError => At(p, "request") \/ At(p, "display")
  BY DEF SetPrioError
<1> QED
  BY <1>3, <1>4, <1>5, <1>6, <1>7, <1>8, <1>9, <1>10 DEF proc_set_prio

LEMMA SpinKeeps ==
  ASSUME StressInv, MemoryInv, Spin, UNCHANGED stressVars
  PROVE  MemoryInv'
<1>1. PICK p \in Spinners : Yield(p, "spin", "spin") /\ UNCHANGED <<locals, consoleVars>>
  BY DEF Spin
<1>2. /\ p \in Procs \ {PID_KCD} /\ p \notin {PID_KCD, PID_CRT, PID_SET_PRIO, PID_A}
      /\ Sound /\ Domains
  BY StressAssumption DEF StressInv, ProgramsInv
<1>3. UNCHANGED <<hand, text, entries, msg_buf, output, inbuf, typed>>
  BY <1>1 DEF locals, consoleVars, kcdVars
<1>4. Others(p) /\ Quiet
  BY <1>1, <1>2, <1>3, StepCall
<1> QED
  BY <1>2, <1>3, <1>4, NoLetter, TextsStay, OrdinaryStep DEF Quiet

\* What KCD takes in, reads and forwards.
LEMMA KcdPart ==
  ASSUME StressInv, MemoryInv, Others(PID_KCD), NewKinds, UNCHANGED output,
         RegBlocks' \subseteq RegBlocks, KeptInv', Served', FewLines'
  PROVE  MemoryInv'
<1>1. PID_KCD \in Procs /\ PID_KCD \in Programs /\ PID_KCD \notin {PID_SET_PRIO, PID_CRT, PID_A}
  BY PidsDistinct DEF Programs
<1>2. KindsInv' /\ NobodyElse' /\ HandLine' /\ CrtIdle'
  BY <1>1, PartsKept
<1>3. FewRegs'
  <2>1. Cardinality(RegBlocks') <= Cardinality(RegBlocks)
    BY MarkedBlocks, FS_Subset
  <2>2. \A r \in {PID_A, PID_SET_PRIO} : Registering(r)' = Registering(r)
    BY <1>1, PidsDistinct DEF Others, Registering
  <2> QED BY <2>1, <2>2, MarkedBlocks DEF MemoryInv, FewRegs, Registering
<1> QED
  BY <1>2, <1>3 DEF MemoryInv

\* A step of KCD that writes nothing and reads no line.
LEMMA KcdPlain ==
  ASSUME StressInv, MemoryInv, Others(PID_KCD), NewKinds, UNCHANGED <<text, output, inbuf, typed>>,
         KeptInv', Served', Pending' <= Pending
  PROVE  MemoryInv'
<1>1. NoNewText /\ InputInv
  BY TextsStay DEF StressInv, ProgramsInv
<1>2. \A r \in {PID_A, PID_SET_PRIO} : Registering(r)' = Registering(r)
  BY PidsDistinct DEF Others, Registering
<1>3. FewLines'
  BY <1>1, <1>2, FewStay DEF Registering
<1> QED
  BY <1>1, <1>3, KcdPart DEF NoNewText

LEMMA KcdReceiveKeeps ==
  ASSUME StressInv, MemoryInv, KcdReceive
  PROVE  MemoryInv'
<1> DEFINE p == PID_KCD
<1> PICK e : e = Mail(p)
  OBVIOUS
<1>1. /\ Others(p) /\ UNCHANGED <<text, msg_buf, inbuf, output, typed>> /\ Read(p, e)
      /\ e.msg \in mem_blocks \/ e.msg \in Notifications
      /\ pc[p] = "receive" /\ pc'[p] \in {"receive", "getc"}
  BY KcdReceiveCall
<1>2. p \in Procs /\ KcdInv
  BY PidsDistinct DEF StressInv, ProgramsInv
<1>3. Served' /\ Pending' = 0 /\ Pending = 0
  BY <1>1 DEF Served, Pending
<1>4. KeptInv'
  <2>1. CASE UNCHANGED entries
    BY <1>1, <2>1, EntriesServed DEF MemoryInv
  <2>2. CASE entries' = Append(entries, e) /\ e.msg \notin Notifications
    <3>1. entries \in Seq(Envelope) /\ e \in Envelope /\ e \in Contents(g_message_queues[p])
      BY <1>1, <1>2 DEF KcdInv, Read
    <3>2. Contents(entries') = Contents(entries) \cup {e}
      BY <2>2, <3>1, AppendElements
    <3>3. Kept(e)
      BY <1>1, <1>2, <2>2, <3>1 DEF MemoryInv, KindsInv, Kind
    <3>4. \A c : Kept(c) => Kept(c)'
      BY <1>1 DEF Kept, RegBlocks, mem_blocks
    <3> QED BY <3>2, <3>3, <3>4 DEF MemoryInv, KeptInv
  <2> QED BY <2>1, <2>2 DEF KcdReceive
<1> QED
  BY <1>1, <1>2, <1>3, <1>4, ReadLetter, KcdPlain

LEMMA KcdGetcKeeps ==
  ASSUME StressInv, MemoryInv, KcdGetc
  PROVE  MemoryInv'
<1> DEFINE p == PID_KCD
<1>1. p \in Procs /\ Sound /\ Domains /\ InputInv
  BY PidsDistinct DEF StressInv, ProgramsInv
<1>2. UNCHANGED <<hand, text, entries, output, typed>>
  BY DEF KcdGetc, locals
<1>3. ASSUME NEW then, Step(p, "getc", then)
      PROVE  Others(p) /\ NewKinds /\ NoNewText /\ Goes(p, "getc", then)
  <2>1. Others(p) /\ Quiet /\ Goes(p, "getc", then)
    BY <1>1, <1>2, <1>3, StepCall
  <2> QED BY <1>2, <2>1, NoLetter, TextsStay DEF Quiet
<1>4. KeptInv'
  BY <1>2, EntriesServed DEF MemoryInv
<1>5. CASE inbuf = << >>
  <2>1. Step(p, "getc", "receive") /\ UNCHANGED inbuf
    BY <1>5 DEF KcdGetc
  <2>2. Served' /\ Pending' = 0 /\ Pending = 0 /\ Others(p) /\ NewKinds
    BY <1>3, <2>1 DEF Served, Pending, Goes
  <2> QED BY <1>2, <1>4, <2>1, <2>2, KcdPlain
<1>6. CASE inbuf # << >>
  <2>1. /\ Step(p, "getc", "dispatch") /\ inbuf' = Tail(inbuf)
        /\ msg_buf' = [line |-> Head(inbuf), cur |-> 1, sent_to |-> {}]
    BY <1>6 DEF KcdGetc
  <2>2. Others(p) /\ NewKinds /\ NoNewText /\ pc[p] = "getc" /\ pc'[p] = "dispatch"
    BY <1>3, <2>1 DEF Goes
  <2>3. Served' /\ Pending' = 1 /\ Pending = 0
    BY <2>1, <2>2 DEF Served, Pending
  <2>4. FewLines'
    <3>1. Len(inbuf) \in Nat \ {0} /\ Len(inbuf') = Len(inbuf) - 1 /\ typed \in Nat
      BY <1>1, <1>6, <2>1, EmptySeq, LenProperties, HeadTailProperties DEF InputInv
    <3>2. Cardinality(LineBlocks') <= Cardinality(LineBlocks)
      BY <2>2, MarkedBlocks, FS_Subset DEF NoNewText
    <3> QED BY <1>2, <2>3, <3>1, <3>2, MarkedBlocks DEF MemoryInv, FewLines
  <2> QED BY <1>2, <1>4, <2>2, <2>3, <2>4, KcdPart DEF NoNewText
<1> QED
  BY <1>5, <1>6

LEMMA KcdDispatchKeeps ==
  ASSUME StressInv, MemoryInv,
         \/ /\ ToServe = {} /\ Step(PID_KCD, "dispatch", "getc")
            /\ UNCHANGED <<locals, entries, inbuf, output, typed>>
         \/ /\ ToServe # {} /\ Request(PID_KCD, "dispatch", "forward")
            /\ UNCHANGED consoleVars
  PROVE  MemoryInv'
<1> DEFINE p == PID_KCD
<1>1. p \in Procs /\ Sound /\ Domains
  BY PidsDistinct DEF StressInv, ProgramsInv
<1>2. CASE /\ ToServe = {} /\ Step(p, "dispatch", "getc")
           /\ UNCHANGED <<locals, entries, inbuf, output, typed>>
  <2>1. UNCHANGED <<hand, text, entries, inbuf, output, typed>>
    BY <1>2 DEF locals
  <2>2. Others(p) /\ Quiet /\ Goes(p, "dispatch", "getc")
    BY <1>1, <1>2, <2>1, StepCall
  <2>3. KeptInv'
    BY <2>1, EntriesServed DEF MemoryInv
  <2>4. Served' /\ Pending' <= Pending
    BY <2>2 DEF Served, Pending, Goes
  <2> QED BY <2>1, <2>2, <2>3, <2>4, NoLetter, KcdPlain DEF Quiet
<1>3. CASE ToServe # {} /\ Request(p, "dispatch", "forward") /\ UNCHANGED consoleVars
  <2>1. UNCHANGED <<entries, msg_buf, output, inbuf, typed>>
    BY <1>3 DEF consoleVars, kcdVars
  <2>2. /\ UNCHANGED <<g_message_queues, text>>
        /\ UNCHANGED <<pc, hand, held>> \/ (Others(p) /\ Goes(p, "dispatch", "forward"))
    BY <1>1, <1>3, RequestCall
  <2>3. CASE UNCHANGED <<pc, hand, held>>
    BY <2>1, <2>2, <2>3, NothingKept
  <2>4. CASE Others(p) /\ Goes(p, "dispatch", "forward")
    <3>1. msg_buf.sent_to = {}
      BY <1>3, <2>4 DEF MemoryInv, Served, Goes
    <3>2. Served' /\ Pending' = 1 /\ Pending = 1
      BY <2>1, <2>4, <3>1 DEF Served, Pending, Goes
    <3>3. KeptInv'
      BY <2>1, <2>2, EntriesServed DEF MemoryInv
    <3> QED BY <2>1, <2>2, <2>4, <3>2, <3>3, NoLetter, KcdPlain
  <2> QED BY <2>2, <2>3, <2>4
<1> QED
  BY <1>2, <1>3

\* A line goes to the one process that has registered for it.
LEMMA KcdForwardKeeps ==
  ASSUME StressInv, MemoryInv, NEW i, i = Smallest(ToServe), NEW pid, pid = entries[i].m_send_pid,
         Send(PID_KCD, "forward", pid, Message(DEFAULT, msg_buf.line), "dispatch"),
         msg_buf' = [msg_buf EXCEPT !.cur = i + 1, !.sent_to = @ \cup {pid}],
         UNCHANGED <<entries, inbuf, output, typed>>
  PROVE  MemoryInv'
<1> DEFINE p == PID_KCD
<1> PICK content : content = Message(DEFAULT, msg_buf.line)
  OBVIOUS
<1> PICK b : b = hand[p]
  OBVIOUS
<1> PICK e : e = [msg |-> b, m_send_pid |-> p]
  OBVIOUS
<1>1. p \in Procs /\ KcdInv /\ InputInv /\ pc[p] = "forward"
  BY PidsDistinct DEF StressInv, ProgramsInv, Send, At
<1>2. /\ i \in ToServe /\ entries[i] \in Contents(entries)
      /\ text[entries[i].msg].mtext.cmd = msg_buf.line.cmd
      /\ pid \in {PID_A, PID_SET_PRIO} /\ pid \in Procs
  BY <1>1, ForwardTo, PidsDistinct
<1>3. IsMessage(content) /\ content.mtype = DEFAULT /\ content.mtext = msg_buf.line
  BY DEF IsMessage, Message
<1>4. /\ Others(p) /\ Goes(p, "forward", "dispatch")
      /\ Written(b, content) /\ Posted(pid, [msg |-> b, m_send_pid |-> p])
  <2>1. Send(p, "forward", pid, content, "dispatch")
    OBVIOUS
  <2> QED BY <1>1, <1>2, <1>3, <2>1, SendCall
<1>5. /\ b \in mem_blocks \ Msgs(entries) /\ msg_buf.line \in AllLines
  BY <1>1 DEF KcdInv
<1>6. /\ b \in LineBlocks' /\ LineBlocks' \subseteq LineBlocks \cup {b}
      /\ RegBlocks' \subseteq RegBlocks
  BY <1>3, <1>4, <1>5 DEF LineBlocks, RegBlocks, Written, mem_blocks, DEFAULT, KCD_REG
<1>7. NewKinds
  <2>1. Posted(pid, e) /\ e.msg = b
    BY <1>4
  <2>2. Kind(pid, e)'
    BY <1>2, <1>6, <2>1, PidsDistinct DEF Kind, Programs
  <2> QED BY <1>2, <2>1, <2>2, PostLetter
<1>8. \A c \in Msgs(entries) : text'[c] = text[c]
  <2>1. Msgs(entries) \subseteq mem_blocks
    BY <1>1 DEF KcdInv, Contents, Msgs
  <2> QED BY <1>4, <1>5, <2>1 DEF Written
<1>9. KeptInv'
  BY <1>8, EntriesServed DEF MemoryInv
<1>10. msg_buf'.line = msg_buf.line /\ msg_buf'.sent_to = msg_buf.sent_to \cup {pid}
  <2>1. msg_buf = [line |-> msg_buf.line, cur |-> msg_buf.cur, sent_to |-> msg_buf.sent_to]
    BY <1>1 DEF KcdInv
  <2> QED BY <2>1
<1>11. ToServe' = {}
  <2> SUFFICES ASSUME NEW j \in ToServe' PROVE FALSE
    OBVIOUS
  <2>1. /\ j \in DOMAIN entries /\ entries[j].m_send_pid # pid
        /\ text'[entries[j].msg].mtext.cmd = msg_buf.line.cmd
    BY <1>10 DEF ToServe
  <2>2. entries[j] \in Contents(entries) /\ entries[j].msg \in Msgs(entries)
    BY <2>1 DEF Contents, Msgs
  <2>3. text[entries[j].msg].mtext.cmd = msg_buf.line.cmd
    BY <1>8, <2>1, <2>2
  <2>4. Registration(entries[j]) /\ Kept(entries[j])
    BY <1>1, <2>2 DEF KcdInv, MemoryInv, KeptInv
  <2>5. Registration(entries[i]) /\ Kept(entries[i])
    BY <1>1, <1>2 DEF KcdInv, MemoryInv, KeptInv
  <2> QED BY <1>2, <2>1, <2>3, <2>4, <2>5, PidsDistinct DEF Registration, Kept
<1>12. Served'
  BY <1>11 DEF Served
<1>13. Pending = 1 /\ Pending' = 0
  <2>1. msg_buf.sent_to = {}
    BY <1>1, <1>2 DEF MemoryInv, Served
  <2>2. msg_buf'.sent_to # {}
    BY <1>10
  <2> QED BY <1>1, <2>1, <2>2 DEF Pending
<1>14. FewLines'
  <2>1. Cardinality(LineBlocks') <= Cardinality(LineBlocks) + 1
    BY <1>6, MarkedBlocks, OneMoreBlock
  <2>2. Len(inbuf) \in Nat /\ typed \in Nat /\ Len(inbuf') = Len(inbuf) /\ typed' = typed
    BY <1>1, LenProperties DEF InputInv
  <2> QED BY <1>13, <2>1, <2>2, MarkedBlocks DEF MemoryInv, FewLines
<1> QED
  BY <1>4, <1>6, <1>7, <1>9, <1>12, <1>14, KcdPart

LEMMA KcdKeeps ==
  ASSUME StressInv, MemoryInv, proc_kcd, UNCHANGED stressVars
  PROVE  MemoryInv'
<1>1. CASE ReceiveNothing(PID_KCD, "receive")
  BY <1>1, WaitKeeps, PidsDistinct
<1>2. CASE KcdReceive \/ KcdGetc
  BY <1>2, KcdReceiveKeeps, KcdGetcKeeps
<1>3. CASE \/ /\ ToServe = {} /\ Step(PID_KCD, "dispatch", "getc")
              /\ UNCHANGED <<locals, entries, inbuf, output, typed>>
           \/ /\ ToServe # {} /\ Request(PID_KCD, "dispatch", "forward")
              /\ UNCHANGED consoleVars
  BY <1>3, KcdDispatchKeeps
<1>4. ASSUME NEW i, i = Smallest(ToServe), NEW pid, pid = entries[i].m_send_pid,
             Send(PID_KCD, "forward", pid, Message(DEFAULT, msg_buf.line), "dispatch"),
             msg_buf' = [msg_buf EXCEPT !.cur = i + 1, !.sent_to = @ \cup {pid}],
             UNCHANGED <<entries, inbuf, output, typed>>
      PROVE  MemoryInv'
  BY <1>4, KcdForwardKeeps
<1> QED
  BY <1>1, <1>2, <1>3, <1>4 DEF proc_kcd, KcdDispatch

\* What is typed.
LEMMA TypeKeeps ==
  ASSUME StressInv, MemoryInv, NEW line \in AllLines, Type(line), UNCHANGED stressVars
  PROVE  MemoryInv'
<1> DEFINE p == PID_KCD
<1>1. p \in Procs /\ p \in Programs /\ p \notin {PID_A, PID_SET_PRIO}
      /\ InputInv /\ Sound /\ Domains
  BY PidsDistinct DEF Programs, StressInv, ProgramsInv
<1>2. UNCHANGED <<pc, hand, text, entries, msg_buf, output>>
  BY DEF Type, locals
<1>3. UNCHANGED <<g_timer_count, held>> /\ NewKinds
  <2>1. CASE UartNotify(p, notif_in_msg)
    <3> PICK e : e = [msg |-> notif_in_msg, m_send_pid |-> PID_UART_IPROC]
      OBVIOUS
    <3>1. /\ UNCHANGED <<g_timer_count, held>>
          /\ Posted(p, [msg |-> notif_in_msg, m_send_pid |-> PID_UART_IPROC])
      BY <1>1, <2>1, NotifyKernel
    <3>2. Posted(p, e) /\ e.msg \notin mem_blocks
      BY <3>1 DEF mem_blocks, notif_in_msg
    <3>3. Kind(p, e)'
      BY <1>1, <3>2 DEF Kind, Programs, mem_blocks
    <3> QED BY <1>1, <3>1, <3>2, <3>3, PostLetter
  <2>2. CASE UartIrq
    BY <1>1, <2>2, QuietKernel, NoLetter DEF Quiet
  <2> QED BY <2>1, <2>2 DEF Type
<1>4. Others(p)
  BY <1>1, <1>2, <1>3 DEF Others, Domains, mem_blocks
<1>5. KeptInv' /\ Served'
  BY <1>2, EntriesServed DEF MemoryInv, Served
<1>6. FewLines'
  <2>1. Len(inbuf) \in Nat /\ typed \in Nat /\ Len(inbuf') = Len(inbuf) + 1 /\ typed' = typed + 1
    BY <1>1, LenProperties, AppendProperties DEF InputInv, Type
  <2>2. LineBlocks' = LineBlocks /\ Pending' = Pending
    BY <1>2 DEF LineBlocks, Pending, mem_blocks
  <2>3. Pending \in {0, 1}
    BY DEF Pending
  <2> QED BY <2>1, <2>2, <2>3, MarkedBlocks DEF MemoryInv, FewLines
<1>7. NoNewText
  BY <1>2, TextsStay
<1> QED
  BY <1>2, <1>3, <1>4, <1>5, <1>6, <1>7, KcdPart DEF NoNewText

\* A millisecond brings a letter to C at most.
LEMMA TimerHandlerKeepsMemory ==
  ASSUME StressInv, MemoryInv, TimerHandler
  PROVE  MemoryInv'
<1> DEFINE p == PID_C
<1>1. p \in Procs /\ p \in Procs \ {PID_KCD} /\ p \in Programs
      /\ p \notin {PID_CRT, PID_SET_PRIO, PID_A}
      /\ SleepInv /\ Sound /\ Domains /\ g_timer_count = 0
  BY PidsDistinct DEF Programs, StressInv, ProgramsInv, SleepInv
<1>2. UNCHANGED <<pc, hand, text, entries, msg_buf, output, inbuf, typed>>
  BY DEF TimerHandler, procVars, locals, consoleVars, kcdVars
<1>3. /\ UNCHANGED <<g_timer_count, held>>
      /\ \A r \in Procs :
           \A e \in Contents(g_message_queues'[r]) \ Contents(g_message_queues[r]) :
             \E m \in Contents(g_delayed_msg_queue) : m.m_recv_pid = r
  <2>1. Sound /\ g_timer_count = 0 /\ TimerHandler
    BY <1>1
  <2> QED BY <2>1, TickKernel
<1>4. \A m \in Contents(g_delayed_msg_queue) : m.m_recv_pid = p
  BY <1>1 DEF SleepInv, Contents
<1>5. NewKinds
  BY <1>1, <1>3, <1>4, PidsDistinct DEF NewKinds, Kind, Programs
<1>6. Others(p)
  BY <1>1, <1>2, <1>3 DEF Others, Domains, mem_blocks
<1> QED
  BY <1>1, <1>2, <1>5, <1>6, TextsStay, OrdinaryStep

LEMMA MemoryStep == StressInv /\ MemoryInv /\ [StressNext]_allVars => MemoryInv'
<1> SUFFICES ASSUME StressInv, MemoryInv, [StressNext]_allVars PROVE MemoryInv'
  OBVIOUS
<1>1. CASE proc_A /\ UNCHANGED cVars
  BY <1>1, AKeeps
<1>2. CASE proc_B /\ UNCHANGED stressVars
  BY <1>2, BKeeps
<1>3. CASE proc_C /\ UNCHANGED num
  BY <1>3, CKeeps
<1>4. CASE Spin /\ UNCHANGED stressVars
  BY <1>4, SpinKeeps
<1>5. CASE SystemProcess /\ UNCHANGED stressVars
  BY <1>5, KcdKeeps, CrtKeeps, SetPrioKeeps DEF SystemProcess
<1>6. CASE Tick
  BY <1>6, TimerHandlerKeepsMemory DEF Tick
<1>7. ASSUME Quiet, UNCHANGED procVars PROVE MemoryInv'
  BY <1>7, NothingKept DEF Quiet, procVars, locals, consoleVars, kcdVars
<1>8. CASE Finish
  <2>1. Quiet /\ UNCHANGED procVars
    BY <1>8, QuietKernel DEF Finish, KernelStep, StressInv
  <2> QED BY <2>1, <1>7
<1>9. CASE Irq
  <2>1. CASE UartIrq /\ UNCHANGED procVars
    <3>1. Quiet
      BY <2>1, QuietKernel DEF StressInv
    <3> QED BY <2>1, <3>1, <1>7
  <2>2. ASSUME typed < Len(Lines), NEW line \in Lines[typed + 1], Type(line)
        PROVE  MemoryInv'
    <3>1. typed \in Nat /\ typed + 1 \in DOMAIN Lines
      BY <2>2, ProcessesAssumption, LenProperties DEF StressInv, ProgramsInv, InputInv
    <3>2. line \in AllLines
      BY <2>2, <3>1 DEF AllLines
    <3>3. UNCHANGED stressVars
      BY <1>9 DEF Irq
    <3> QED BY <2>2, <3>2, <3>3, TypeKeeps
  <2> QED BY <1>9, <2>1, <2>2 DEF Irq, UartInterrupt
<1>10. CASE UNCHANGED allVars
  <2>1. UNCHANGED vars /\ UNCHANGED procVars
    BY <1>10 DEF allVars
  <2>2. Quiet
    BY <2>1, QuietKernel DEF StressInv
  <2> QED BY <2>1, <2>2, <1>7
<1> QED
  BY <1>1, <1>2, <1>3, <1>4, <1>5, <1>6, <1>8, <1>9, <1>10
     DEF StressNext, Run, StressProcess

LEMMA MemoryInit == StressInit => MemoryInv /\ WaitInv
<1> SUFFICES ASSUME StressInit PROVE MemoryInv /\ WaitInv
  OBVIOUS
<1>1. \A p \in Procs : g_message_queues[p] = << >> /\ held[p] = {} /\ cont[p] = "user"
  BY DEF StressInit, ProcessesInit, Init
<1>2. /\ pc = StartPoint /\ entries = << >> /\ msg_buf = NoLine /\ output = << >>
      /\ inbuf = << >> /\ typed = 0 /\ c_message_queue = << >>
  BY DEF StressInit, ProcessesInit
<1>3. /\ pc[PID_KCD] = "receive" /\ pc[PID_SET_PRIO] = "register" /\ pc[PID_A] = "register"
      /\ PID_C \in Procs
  BY <1>2, StressAssumption
<1>4. Contents(<< >>) = {}
  BY DEF Contents
<1>5. RegBlocks = {} /\ LineBlocks = {}
  <2>1. PICK content : content = Message(DEFAULT, [str |-> ""])
    OBVIOUS
  <2>2. text = [b \in mem_blocks |-> content]
    BY <2>1, Zenon DEF StressInit, ProcessesInit
  <2>3. content.mtext \notin AllLines /\ content.mtype = DEFAULT
    <3>1. ASSUME NEW s, content = Message(DEFAULT, [str |-> s])
          PROVE  content.mtext \notin AllLines /\ content.mtype = DEFAULT
      BY <3>1, FreeText DEF Message
    <3> QED BY <2>1, <3>1, Zenon
  <2> QED BY <2>2, <2>3 DEF RegBlocks, LineBlocks, DEFAULT, KCD_REG
<1>6. Cardinality(RegBlocks) = 0 /\ Cardinality(LineBlocks) = 0
  BY <1>5, FS_EmptySet
<1>7. FewRegs
  BY <1>3, <1>6 DEF FewRegs, Registering
<1>8. FewLines
  <2>1. Len(inbuf) = 0 /\ typed = 0 /\ Pending = 0
    BY <1>2, <1>3 DEF Pending
  <2> QED BY <1>6, <2>1 DEF FewLines
<1>9. KindsInv /\ KeptInv /\ CrtIdle /\ NobodyElse
  BY <1>1, <1>2, <1>4 DEF KindsInv, KeptInv, CrtIdle, NobodyElse
<1>10. HandLine /\ Served
  BY <1>3 DEF HandLine, Served
<1>11. WaitInv
  BY <1>1, <1>3 DEF WaitInv
<1> QED
  BY <1>7, <1>8, <1>9, <1>10, <1>11 DEF MemoryInv

-----------------------------------------------------------------------------
(* Memory comes back. *)

\* When all programs wait and nothing is delayed, whoever holds a block or has it in
\* its mailbox keeps a registration or a line.
LEMMA WhatIsKept ==
  ASSUME StressInv, MemoryInv, WaitInv, g_delayed_msg_queue = << >>,
         \A p \in Programs : Blocked(p),
         NEW p \in Procs
  PROVE  held[p] \cup (Msgs(g_message_queues[p]) \cap mem_blocks) \subseteq RegBlocks \cup LineBlocks
<1>1. /\ \A r \in Procs : r \in Programs =>
            \/ cont[r] = "request"
            \/ cont[r] = "receive" /\ g_message_queues[r] = << >>
  BY DEF StressInv, Sound, KernelInv, NoMissedWakeup, WaitsWhereItBlocked, Blocked
<1>2. \A r \in Procs : g_message_queues[r] = << >> => Msgs(g_message_queues[r]) = {}
  BY DEF Msgs
<1>3. /\ KcdInv /\ CrtInv /\ SetPrioInv /\ AInv /\ BInv /\ CInv /\ SleepInv
      /\ KindsInv /\ KeptInv /\ HandLine /\ CrtIdle /\ NobodyElse
  BY DEF StressInv, ProgramsInv, MemoryInv
<1>4. \A b \in Msgs(g_message_queues[p]) :
        \E e \in Contents(g_message_queues[p]) : e.msg = b
  BY DEF Msgs, Contents
<1>5. Contents(<< >>) = {}
  BY DEF Contents
<1>6. /\ cont[p] = "request" => pc[p] \in {"register", "request", "dispatch"}
      /\ cont[p] = "receive" => pc[p] \in {"receive", "take", "sleep"}
  BY DEF WaitInv
<1>7. CASE p \notin Programs
  <2>1. held[p] = {}
    BY <1>3, <1>7 DEF NobodyElse
  <2>2. Contents(g_message_queues[p]) = {}
    BY <1>3, <1>7 DEF KindsInv, Kind
  <2> QED BY <1>4, <2>1, <2>2
<1>8. CASE p = PID_KCD
  <2>1. pc[p] # "forward"
    BY <1>1, <1>6, <1>8 DEF Programs
  <2>2. held[p] \subseteq RegBlocks
    <3>1. held[p] = Msgs(entries)
      BY <1>3, <1>8, <2>1 DEF KcdInv, HandOf
    <3>2. \A b \in Msgs(entries) : \E e \in Contents(entries) : e.msg = b
      BY DEF Msgs, Contents
    <3> QED BY <1>3, <3>1, <3>2 DEF KeptInv, Kept
  <2>3. Msgs(g_message_queues[p]) \cap mem_blocks \subseteq RegBlocks
    BY <1>3, <1>4, <1>8 DEF KindsInv, Kind, Kept
  <2> QED BY <2>2, <2>3
<1>9. CASE p = PID_CRT
  <2>1. cont[p] = "receive" /\ g_message_queues[p] = << >> /\ pc[p] = "receive"
    BY <1>1, <1>3, <1>6, <1>9 DEF Programs, CrtInv
  <2>2. held[p] = {}
    BY <1>3, <1>5, <1>9, <2>1 DEF CrtIdle, CrtInv
  <2> QED BY <1>2, <2>1, <2>2
<1>10. CASE p = PID_SET_PRIO
  <2>1. pc[p] \in {"register", "request", "receive"}
    BY <1>1, <1>3, <1>6, <1>10 DEF Programs, SetPrioInv
  <2>2. held[p] \subseteq LineBlocks
    BY <1>3, <1>10, <2>1 DEF SetPrioInv, HandLine, HandOf
  <2>3. Msgs(g_message_queues[p]) \subseteq LineBlocks
    BY <1>3, <1>4, <1>10 DEF KindsInv, Kind
  <2> QED BY <2>2, <2>3
<1>11. CASE p = PID_A
  <2>1. pc[p] \in {"register", "request", "receive"}
    BY <1>1, <1>3, <1>6, <1>11 DEF Programs, AInv
  <2>2. held[p] = {}
    BY <1>3, <1>11, <2>1 DEF AInv, HandOf
  <2>3. Msgs(g_message_queues[p]) \subseteq LineBlocks
    BY <1>3, <1>4, <1>11 DEF KindsInv, Kind
  <2> QED BY <2>2, <2>3
<1>12. CASE p = PID_B
  <2>1. g_message_queues[p] = << >> /\ pc[p] = "receive"
    BY <1>1, <1>3, <1>6, <1>12 DEF Programs, BInv
  <2>2. held[p] = {}
    BY <1>3, <1>12, <2>1 DEF BInv, HandOf
  <2> QED BY <1>2, <2>1, <2>2
<1>13. CASE p = PID_C
  <2>1. cont[p] = "receive" /\ g_message_queues[p] = << >> /\ pc[p] \in {"take", "sleep"}
    BY <1>1, <1>3, <1>6, <1>13 DEF Programs, CInv
  <2>2. pc[p] # "sleep"
    BY <1>2, <1>3, <1>13, <2>1 DEF SleepInv
  <2>3. c_message_queue = << >>
    BY <1>13, <2>1, <2>2 DEF WaitInv
  <2>4. held[p] = {}
    BY <1>3, <1>5, <1>13, <2>1, <2>2, <2>3 DEF CInv, HandOf
  <2> QED BY <1>2, <2>1, <2>4
<1> QED
  BY <1>7, <1>8, <1>9, <1>10, <1>11, <1>12, <1>13 DEF Programs

\* Nor is there a block that nobody has.
LEMMA KeptBlocks ==
  ASSUME StressInv, MemoryInv, WaitInv, g_delayed_msg_queue = << >>, g_heap = << >>,
         \A p \in Programs : Blocked(p)
  PROVE  mem_blocks \subseteq RegBlocks \cup LineBlocks
<1> SUFFICES ASSUME NEW b \in mem_blocks PROVE b \in RegBlocks \cup LineBlocks
  OBVIOUS
<1>1. Contents(g_heap) = {} /\ Msgs(g_delayed_msg_queue) = {}
  BY DEF Contents, Msgs
<1>2. \E p \in Procs : b \in held[p] \/ b \in Msgs(g_message_queues[p])
  BY <1>1 DEF StressInv, Sound, PlacesInv, Placed, MailMsgs
<1> QED
  BY <1>2, WhatIsKept

LEMMA EnoughMemory == StressInv /\ MemoryInv /\ WaitInv => MemoryComesBack
<1> SUFFICES ASSUME StressInv, MemoryInv, WaitInv, g_delayed_msg_queue = << >>,
                    \E p \in Procs : k.m_state[p] = BLOCKED_ON_RESOURCE,
                    typed < NUM_MEM_BLOCKS - 2,
                    \A p \in Programs : Blocked(p)
             PROVE  FALSE
  BY DEF MemoryComesBack
<1>1. g_heap = << >>
  BY DEF StressInv, Sound, KernelInv, NoMissedWakeup
<1>2. mem_blocks \subseteq RegBlocks \cup LineBlocks
  BY <1>1, KeptBlocks
<1> PICK R, L : R = RegBlocks /\ L = LineBlocks
  OBVIOUS
<1> PICK U : U = R \cup L
  OBVIOUS
<1>3. /\ IsFiniteSet(R) /\ Cardinality(R) \in Nat /\ IsFiniteSet(L) /\ Cardinality(L) \in Nat
  BY MarkedBlocks
<1>4. /\ Cardinality(R) <= 2 /\ Cardinality(L) <= typed
  <2>1. typed \in Nat /\ Len(inbuf) \in Nat
    BY LenProperties DEF StressInv, ProgramsInv, InputInv
  <2>2. Registering(PID_A) \in Nat /\ Registering(PID_SET_PRIO) \in Nat /\ Pending \in Nat
    BY DEF Registering, Pending
  <2> QED BY <1>3, <2>1, <2>2 DEF MemoryInv, FewRegs, FewLines
<1>5. IsFiniteSet(U) /\ Cardinality(U) \in Nat /\ Cardinality(U) <= Cardinality(R) + Cardinality(L)
  <2>1. /\ IsFiniteSet(U) /\ IsFiniteSet(R \cap L)
        /\ Cardinality(U) = Cardinality(R) + Cardinality(L) - Cardinality(R \cap L)
    BY <1>3, FS_Union, FS_Intersection
  <2> QED BY <1>3, <2>1, FS_CardinalityType
<1>6. Cardinality(mem_blocks) = NUM_MEM_BLOCKS
  BY KernelAssumption, FS_Interval DEF mem_blocks
<1>7. Cardinality(mem_blocks) <= Cardinality(U)
  BY <1>2, <1>5, FS_Subset
<1>8. typed \in Nat /\ NUM_MEM_BLOCKS \in Nat
  BY KernelAssumption DEF StressInv, ProgramsInv, InputInv
<1> QED
  BY <1>3, <1>4, <1>5, <1>6, <1>7, <1>8

\* For every number of blocks and whatever is typed: while somebody waits for a block,
\* another program can go on or C's wake-up call is on its way, as long as the lines
\* typed and the two registrations cannot fill the memory.  So no order of the steps of
\* A, B, C, KCD, CRT and the priority command makes all of them wait for one another
\* (usr_proc.c:552-696, kcd.c:34-57, crt.c:12-48, sys_proc.c:230-291).
THEOREM MemoryIsNotExhausted == StressSpec => []MemoryComesBack
<1> QED
  BY InitPrograms, ProgramsStep, MemoryInit, MemoryStep, WaitStep, EnoughMemory, PTL
     DEF StressSpec
=============================================================================
