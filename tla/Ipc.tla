---------------------------------- MODULE Ipc ----------------------------------
(***************************************************************************)
(* What the kernel's memory and message calls promise to the processes:    *)
(* nothing is said of scheduling, of waiting or of how the pool and the    *)
(* delayed messages are kept.  A block is free, or one process has it, or  *)
(* it is a letter in one mailbox, or a delayed letter.  A mailbox is read  *)
(* in the order in which it was filled, and a delayed letter gets there in *)
(* the tick that reaches its expiry.  Interrupt handlers notify processes  *)
(* with letters of their own, each of which is in a mailbox at most once.  *)
(***************************************************************************)
EXTENDS Integers, Sequences

CONSTANTS Procs, Blocks,
          Notices,  \* the letters of the interrupt handlers
          Delays

VARIABLES free,     \* a set of blocks
          held,     \* the blocks of each process
          mail,     \* the letters of each process
          delayed,  \* a set of delayed letters
          now

ipcVars == <<free, held, mail, delayed, now>>

Letter(d) == [msg |-> d.msg, m_send_pid |-> d.m_send_pid]

\* `letters` is `before` followed by the letters of `arrived`, each of them once.
Extends(letters, before, arrived) ==
  LET New == Len(before) + 1 .. Len(letters)
  IN  /\ Len(letters) >= Len(before)
      /\ \A i \in 1 .. Len(before) : letters[i] = before[i]
      /\ {letters[i] : i \in New} = {Letter(d) : d \in arrived}
      /\ \A i, j \in New : letters[i] = letters[j] => i = j

Init ==
  /\ free = Blocks
  /\ held = [p \in Procs |-> {}]
  /\ mail = [p \in Procs |-> << >>]
  /\ delayed = {}
  /\ now = 0

Request(p, b) ==
  /\ free' = free \ {b}
  /\ held' = [held EXCEPT ![p] = @ \cup {b}]
  /\ UNCHANGED <<mail, delayed, now>>

\* p gives up block b.
GiveUp(p, b) == held' = [held EXCEPT ![p] = @ \ {b}]

Release(p, b) ==
  /\ GiveUp(p, b)
  /\ free' = free \cup {b}
  /\ UNCHANGED <<mail, delayed, now>>

Post(to, letter) == mail' = [mail EXCEPT ![to] = Append(@, letter)]

Send(p, to, b) ==
  /\ GiveUp(p, b)
  /\ Post(to, [msg |-> b, m_send_pid |-> p])
  /\ UNCHANGED <<free, delayed, now>>

\* The letter will be in the mailbox after `delay` ticks.
DelayedSend(p, to, b, delay) ==
  /\ GiveUp(p, b)
  /\ delay > 0
  /\ delayed' = delayed \cup {[msg |-> b, m_send_pid |-> p, m_recv_pid |-> to,
                               expiry |-> now + delay]}
  /\ UNCHANGED <<free, mail, now>>

Notify(to, from, n) ==
  /\ \A i \in DOMAIN mail[to] : mail[to][i].msg # n
  /\ Post(to, [msg |-> n, m_send_pid |-> from])
  /\ UNCHANGED <<free, held, delayed, now>>

\* The first letter of p; with a block, the block is p's.
Receive(p) ==
  /\ mail[p] # << >>
  /\ mail' = [mail EXCEPT ![p] = Tail(@)]
  /\ held' = [held EXCEPT ![p] = @ \cup ({Head(mail[p]).msg} \ Notices)]
  /\ UNCHANGED <<free, delayed, now>>

Due == {d \in delayed : d.expiry = now + 1}
Tick ==
  /\ now' = now + 1
  /\ mail' \in [Procs -> Seq([msg : Blocks \cup Notices, m_send_pid : Procs])]
  /\ \A p \in Procs : Extends(mail'[p], mail[p], {d \in Due : d.m_recv_pid = p})
  /\ delayed' = delayed \ Due
  /\ UNCHANGED <<free, held>>

Next ==
  \/ Tick
  \/ \E p \in Procs :
       \/ Receive(p)
       \/ \E b \in free : Request(p, b)
       \/ \E b \in held[p] :
            \/ Release(p, b)
            \/ \E to \in Procs :
                 Send(p, to, b) \/ \E delay \in Delays : DelayedSend(p, to, b, delay)
       \/ \E n \in Notices, from \in Procs : Notify(p, from, n)

Spec == Init /\ [][Next]_ipcVars
=============================================================================
