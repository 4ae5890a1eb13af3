----------------------------- MODULE DelayedQueue -----------------------------
(***************************************************************************)
(* The delayed queue over the whole life of the millisecond counter: an    *)
(* unsigned counter (uint32_t) whose values are stored and compared as     *)
(* signed integers of the same width (k_delayed_send, message_queue.c).    *)
(* Module Kernel covers the part of its life in which nothing wraps.       *)
(***************************************************************************)
EXTENDS Integers, Sequences, FiniteSets, SequencesExt

CONSTANTS SignBit, \* the value of the sign bit: 2^31 in the code
          Blocks,
          Delays

ASSUME SignBitAssumption == SignBit \in Nat \ {0}
\* A positive int, as the callers pass.
ASSUME DelaysAssumption == Delays \subseteq 1 .. SignBit - 1

\* The unsigned values are 0 .. Modulus - 1; sums wrap around.
Modulus == 2 * SignBit
Unsigned(x) == x % Modulus

VARIABLES g_timer_count,       \* uint32_t
          g_delayed_msg_queue

vars == <<g_timer_count, g_delayed_msg_queue>>

\* Mutant: the counter is compared as it is.
Signed_unsigned(u) == u
\* The conversion of an unsigned value to int.
Signed(u) == IF u < SignBit THEN u ELSE u - Modulus

\* A message is its block, its m_kdata[0] and, as history, the ticks left until
\* it should be delivered.
InUse == {m.msg : m \in Range(g_delayed_msg_queue)}

Init ==
  /\ g_timer_count = 0
  /\ g_delayed_msg_queue = << >>

\* dequeue_message returns the front message or NULL.
Expired(m, current_time) == m.expiry <= current_time

\* The length of the front part of q that expires by time t, where the loops of
\* enqueue_message and of k_check_delayed_messages stop.
ExpiredCount(q, t) ==
  CHOOSE n \in 0 .. Len(q) : /\ \A i \in 1 .. n : Expired(q[i], t)
                             /\ n < Len(q) => ~ Expired(q[n + 1], t)

\* Mutant: behind the last message.
enqueue_message_back(m, q) == Append(q, m)
\* Behind the last of the messages in front that expire no later.
enqueue_message(m, q) == InsertAt(q, ExpiredCount(q, m.expiry) + 1, m)

\* k_delayed_send with a positive delay.
k_delayed_send(b, delay) ==
  /\ b \notin InUse
  /\ g_delayed_msg_queue' =
       enqueue_message([msg |-> b,
                        expiry |-> Signed(Unsigned(delay + g_timer_count)),
                        left |-> delay], g_delayed_msg_queue)
  /\ UNCHANGED g_timer_count

\* The timer handler: count, then dequeue until there is nothing to dequeue.
Tick ==
  /\ g_timer_count' = Unsigned(g_timer_count + 1)
  /\ LET q == g_delayed_msg_queue
         n == ExpiredCount(q, Signed(g_timer_count'))
     IN  g_delayed_msg_queue' =
           [i \in 1 .. Len(q) - n |-> [q[n + i] EXCEPT !.left = @ - 1]]

Next == Tick \/ \E b \in Blocks, delay \in Delays : k_delayed_send(b, delay)

Spec == Init /\ [][Next]_vars
-----------------------------------------------------------------------------
Leaves(m) == m.msg \notin InUse'

\* No message is left in the queue once it is due, the wraps of the counter
\* included, behind whatever other messages it was queued
\* (message_queue.c:24-52, k_process.c:487-497).
NeverLate == \A m \in Range(g_delayed_msg_queue) : m.left > 0

\* A message is delivered early only if, when it is, the signed view of the
\* counter still has to overflow before the message is due; the wrap of the
\* counter to 0 does no harm (k_process.c:479, message_queue.c:31-34).
EarlyOnlyBeforeOverflow ==
  [][\A m \in Range(g_delayed_msg_queue) :
       Leaves(m) /\ m.left > 1 =>
         \E d \in 1 .. m.left - 1 :
           Unsigned(g_timer_count' + d) = SignBit]_vars

\* message_queue.c:22 says "if g_timer_count hasn't reached return null": no
\* message is delivered early.  Before the signed overflow some are.
NeverEarly ==
  [][\A m \in Range(g_delayed_msg_queue) : Leaves(m) => m.left = 1]_vars
=============================================================================
