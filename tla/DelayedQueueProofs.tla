-------------------------- MODULE DelayedQueueProofs --------------------------
(***************************************************************************)
(* The delayed queue is never late, and early only where the signed view   *)
(* of the counter overflows, for a counter of any width, any number of     *)
(* messages and all positive delays.                                       *)
(***************************************************************************)
EXTENDS DelayedQueue, DataLemmas

-----------------------------------------------------------------------------
(* The counter. *)

\* Two sums that a counter of Modulus values meets.
LEMMA Wraps ==
  \A a \in 0 .. 2 * Modulus - 1 :
    Unsigned(a) = IF a < Modulus THEN a ELSE a - Modulus
<1> SUFFICES ASSUME NEW a \in 0 .. 2 * Modulus - 1
             PROVE  Unsigned(a) = IF a < Modulus THEN a ELSE a - Modulus
  OBVIOUS
<1>1. Modulus \in Nat \ {0}
  BY SignBitAssumption DEF Modulus
<1>2. a < Modulus => a \in 0 .. Modulus - 1
  BY <1>1
<1>3. ~ (a < Modulus) => a \in Modulus .. 2 * Modulus - 1
  BY <1>1
<1> QED
  BY <1>1, <1>2, <1>3, ModBelow, ModAbove DEF Unsigned

\* What a message with left ticks to wait expires at when the counter is c.
ExpiryAt(c, left) == Signed(Unsigned(c + left))

LEMMA SignedType ==
  ASSUME NEW c \in 0 .. Modulus - 1, NEW left \in 0 .. SignBit - 1
  PROVE  /\ Unsigned(c + left) \in 0 .. Modulus - 1
         /\ ExpiryAt(c, left) \in -SignBit .. SignBit - 1
<1>1. SignBit \in Nat \ {0} /\ Modulus = 2 * SignBit
  BY SignBitAssumption DEF Modulus
<1>3. Unsigned(c + left) = IF c + left < Modulus THEN c + left ELSE c + left - Modulus
  <2>1. c + left \in 0 .. 2 * Modulus - 1
    BY <1>1
  <2> QED BY <1>1, <2>1, Wraps
<1>4. Unsigned(c + left) \in 0 .. Modulus - 1
  BY <1>1, <1>3
<1>5. ASSUME NEW u \in 0 .. Modulus - 1 PROVE Signed(u) \in -SignBit .. SignBit - 1
  BY <1>1 DEF Signed
<1> QED
  BY <1>4, <1>5 DEF ExpiryAt

\* A tick brings every message one tick nearer to its expiry.
LEMMA TickNearer ==
  ASSUME NEW c \in 0 .. Modulus - 1, NEW left \in 1 .. SignBit - 1
  PROVE  ExpiryAt(Unsigned(c + 1), left - 1) = ExpiryAt(c, left)
<1>1. SignBit \in Nat \ {0} /\ Modulus = 2 * SignBit
  BY SignBitAssumption DEF Modulus
<1> DEFINE d == Unsigned(c + 1)
<1>2. d = IF c + 1 < Modulus THEN c + 1 ELSE c + 1 - Modulus
  <2>1. c + 1 \in 0 .. 2 * Modulus - 1
    BY <1>1
  <2> QED BY <1>1, <2>1, Wraps
<1>3. Unsigned(c + left) = IF c + left < Modulus THEN c + left ELSE c + left - Modulus
  <2>1. c + left \in 0 .. 2 * Modulus - 1
    BY <1>1
  <2> QED BY <1>1, <2>1, Wraps
<1>4. d + (left - 1) \in 0 .. 2 * Modulus - 1
  BY <1>1, <1>2
<1> HIDE DEF d
<1> DEFINE e == d + (left - 1)
<1>5. Unsigned(e) = IF e < Modulus THEN e ELSE e - Modulus
  BY <1>4, Wraps
<1>6. Unsigned(e) = Unsigned(c + left)
  BY <1>1, <1>2, <1>3, <1>5
<1> QED
  BY <1>6 DEF ExpiryAt, d

\* With left ticks to wait a message counts as expired only if the signed view of
\* the counter overflows before it is due.
LEMMA ExpiredEarly ==
  ASSUME NEW c \in 0 .. Modulus - 1, NEW left \in 1 .. SignBit - 1,
         ExpiryAt(c, left) <= Signed(c)
  PROVE  \E d \in 1 .. left : Unsigned(c + d) = SignBit
<1>1. SignBit \in Nat \ {0} /\ Modulus = 2 * SignBit
  BY SignBitAssumption DEF Modulus
<1>2. Unsigned(c + left) = IF c + left < Modulus THEN c + left ELSE c + left - Modulus
  <2>1. c + left \in 0 .. 2 * Modulus - 1
    BY <1>1
  <2> QED BY <1>1, <2>1, Wraps
<1>3. c < SignBit /\ SignBit <= c + left
  <2> DEFINE u == Unsigned(c + left)
  <2>1. Signed(u) <= Signed(c)
    BY DEF ExpiryAt
  <2> HIDE DEF u
  <2> QED BY <1>1, <1>2, <2>1 DEF Signed, u
<1> DEFINE d == SignBit - c
<1>4. d \in 1 .. left /\ c + d = SignBit /\ SignBit \in 0 .. Modulus - 1
  BY <1>1, <1>3
<1>5. Unsigned(SignBit) = SignBit
  BY <1>1, <1>4, Wraps
<1> QED
  BY <1>4, <1>5

-----------------------------------------------------------------------------
(* The queue. *)

Entry == [msg : Blocks, expiry : -SignBit .. SignBit - 1, left : 1 .. SignBit - 1]

Sorted(q) == \A i, j \in DOMAIN q : i < j => q[i].expiry <= q[j].expiry

\* Every message carries the time at which its ticks are over, and the queue is
\* sorted by it.
QueueInv ==
  /\ g_timer_count \in 0 .. Modulus - 1
  /\ g_delayed_msg_queue \in Seq(Entry)
  /\ \A m \in Range(g_delayed_msg_queue) : m.expiry = ExpiryAt(g_timer_count, m.left)
  /\ Sorted(g_delayed_msg_queue)

\* The loops stop at a place.
LEMMA ExpiredCountProperties ==
  ASSUME NEW q \in Seq(Entry), NEW t \in Int
  PROVE  LET n == ExpiredCount(q, t)
         IN  /\ n \in 0 .. Len(q)
             /\ \A i \in 1 .. n : q[i].expiry <= t
             /\ n < Len(q) => t < q[n + 1].expiry
<1> DEFINE Stop(n) == /\ \A i \in 1 .. n : q[i].expiry <= t
                      /\ n < Len(q) => ~ (q[n + 1].expiry <= t)
           E == {i \in 1 .. Len(q) : q[i].expiry <= t}
<1>0. Len(q) \in Nat /\ \A i \in 1 .. Len(q) : q[i].expiry \in Int
  <2>1. \A e \in Entry : e.expiry \in Int
    BY SignBitAssumption DEF Entry
  <2> QED BY <2>1, LenProperties, ElementOfSeq
<1>3. \E n \in 0 .. Len(q) : Stop(n)
  <2>1. PICK n \in 0 .. Len(q) : /\ \A i \in 1 .. n : i \in E
                                 /\ n < Len(q) => n + 1 \notin E
    <3> HIDE DEF E
    <3> QED BY <1>0, FrontExists
  <2>2. n < Len(q) => n + 1 \in 1 .. Len(q)
    BY <1>0
  <2> QED BY <1>0, <2>1, <2>2
<1>4. ExpiredCount(q, t) = CHOOSE i \in 0 .. Len(q) : Stop(i)
  BY DEF ExpiredCount, Expired
<1> HIDE DEF Stop
<1>5. ExpiredCount(q, t) \in 0 .. Len(q) /\ Stop(ExpiredCount(q, t))
  BY <1>3, <1>4
<1>6. ExpiredCount(q, t) < Len(q) => ExpiredCount(q, t) + 1 \in 1 .. Len(q)
  BY <1>0, <1>5
<1> QED
  BY <1>0, <1>5, <1>6 DEF Stop

\* In a sorted queue all that comes behind the place expires later.
LEMMA BehindIsLater ==
  ASSUME NEW q \in Seq(Entry), Sorted(q), NEW t \in Int,
         NEW i \in 1 .. Len(q), ~ (i <= ExpiredCount(q, t))
  PROVE  t < q[i].expiry
<1> DEFINE n == ExpiredCount(q, t)
<1>1. /\ Len(q) \in Nat /\ DOMAIN q = 1 .. Len(q)
      /\ \A j \in 1 .. Len(q) : q[j].expiry \in Int
  <2>1. \A e \in Entry : e.expiry \in Int
    BY SignBitAssumption DEF Entry
  <2> QED BY <2>1, LenProperties, ElementOfSeq
<1>2. n \in 0 .. Len(q) /\ (n < Len(q) => t < q[n + 1].expiry)
  BY ExpiredCountProperties
<1>3. ~ (i <= n)
  OBVIOUS
<1> HIDE DEF n
<1>4. n + 1 \in 1 .. Len(q) /\ n < Len(q) /\ (i = n + 1 \/ n + 1 < i)
  BY <1>1, <1>2, <1>3
<1>5. t < q[n + 1].expiry
  BY <1>1, <1>2, <1>4
<1>6. q[n + 1].expiry <= q[i].expiry
  BY <1>1, <1>4 DEF Sorted
<1> QED
  BY <1>1, <1>4, <1>5, <1>6

\* k_delayed_send keeps the queue sorted.
LEMMA SendKeeps ==
  ASSUME QueueInv, NEW b \in Blocks, NEW delay \in Delays, k_delayed_send(b, delay)
  PROVE  QueueInv' /\ InUse \subseteq InUse'
<1> DEFINE q == g_delayed_msg_queue
           c == g_timer_count
           m == [msg |-> b, expiry |-> Signed(Unsigned(delay + c)), left |-> delay]
           n == ExpiredCount(q, m.expiry)
           r == Inserted(q, n, m)
           N == Len(q)
<1>1. /\ c \in 0 .. Modulus - 1 /\ q \in Seq(Entry) /\ Sorted(q)
      /\ \A e \in Range(q) : e.expiry = ExpiryAt(c, e.left)
  BY DEF QueueInv
<1>2. delay \in 1 .. SignBit - 1 /\ delay \in 0 .. SignBit - 1 /\ delay + c = c + delay
  BY <1>1, SignBitAssumption, DelaysAssumption DEF Modulus
<1>3. m \in Entry /\ m.expiry = ExpiryAt(c, delay) /\ m.left = delay
  <2>1. Signed(Unsigned(delay + c)) = ExpiryAt(c, delay)
    BY <1>2 DEF ExpiryAt
  <2>2. ExpiryAt(c, delay) \in -SignBit .. SignBit - 1
    BY <1>1, <1>2, SignedType
  <2> QED BY <1>2, <2>1, <2>2 DEF Entry
<1>0. m.expiry \in Int
  BY <1>3, SignBitAssumption DEF Entry
<1>5. /\ N \in Nat /\ DOMAIN q = 1 .. N /\ \A i \in 1 .. N : q[i] \in Entry
      /\ n \in 0 .. N
      /\ \A i \in 1 .. n : q[i].expiry <= m.expiry
  <2>1. N \in Nat /\ DOMAIN q = 1 .. N /\ \A i \in 1 .. N : q[i] \in Entry
    BY <1>1, LenProperties, ElementOfSeq
  <2> HIDE DEF m, q
  <2>2. n \in 0 .. N /\ \A i \in 1 .. n : q[i].expiry <= m.expiry
    BY <1>0, <1>1, ExpiredCountProperties
  <2> QED BY <2>1, <2>2
<1>4. q' = r /\ c' = c
  <2>1. (n + 1) - 1 = n
    BY <1>5
  <2> QED BY <2>1 DEF k_delayed_send, enqueue_message, InsertAt, Inserted
<1>6. \A e \in Entry : e.expiry \in Int
  BY SignBitAssumption DEF Entry
<1> HIDE DEF q, c, m
<1>7. \A i \in n + 1 .. N : i \in 1 .. N /\ m.expiry < q[i].expiry
  <2> SUFFICES ASSUME NEW i \in n + 1 .. N PROVE i \in 1 .. N /\ m.expiry < q[i].expiry
    OBVIOUS
  <2>1. i \in 1 .. Len(q) /\ ~ (i <= ExpiredCount(q, m.expiry))
    BY <1>5
  <2> QED BY <1>0, <1>1, <2>1, BehindIsLater
<1>8. /\ r \in Seq(Entry) /\ DOMAIN r = 1 .. N + 1
      /\ \A i \in 1 .. n : r[i] = q[i]
      /\ r[n + 1] = m
      /\ \A i \in n + 1 .. N : r[i + 1] = q[i]
  <2>1. \A s \in Seq(Entry) : \A k \in 0 .. Len(s) :
          /\ Inserted(s, k, m) \in Seq(Entry)
          /\ DOMAIN Inserted(s, k, m) = 1 .. Len(s) + 1
          /\ \A i \in 1 .. k : Inserted(s, k, m)[i] = s[i]
          /\ Inserted(s, k, m)[k + 1] = m
          /\ \A i \in k + 1 .. Len(s) : Inserted(s, k, m)[i + 1] = s[i]
    BY <1>3, Insertion
  <2> QED BY <1>1, <1>5, <2>1
<1> HIDE DEF n, r, N
\* Where an element of r comes from.
<1>9. \A i \in 1 .. N + 1 : \/ i \in 1 .. n /\ i \in 1 .. N /\ r[i] = q[i]
                            \/ i = n + 1 /\ r[i] = m
                            \/ i - 1 \in n + 1 .. N /\ i - 1 \in 1 .. N /\ r[i] = q[i - 1]
  <2>1. ASSUME NEW i \in 1 .. N + 1
        PROVE  \/ i \in 1 .. n /\ i \in 1 .. N
               \/ i = n + 1
               \/ i - 1 \in n + 1 .. N /\ i - 1 \in 1 .. N /\ (i - 1) + 1 = i
    BY <1>5
  <2> QED BY <1>8, <2>1
<1>10. \A i \in 1 .. N + 1 : r[i].expiry = ExpiryAt(c, r[i].left)
  <2>1. \A i \in 1 .. N : q[i].expiry = ExpiryAt(c, q[i].left)
    BY <1>1, <1>5 DEF Range
  <2> QED BY <1>3, <1>9, <2>1
<1>11. ASSUME NEW i \in 1 .. N + 1, NEW j \in 1 .. N + 1, i < j
       PROVE  r[i].expiry <= r[j].expiry
  <2>0. /\ m.expiry \in Int
        /\ \A a \in 1 .. N : q[a].expiry \in Int
        /\ \A a, e \in 1 .. N : a <= e => q[a].expiry <= q[e].expiry
    <3>1. m.expiry \in Int /\ \A a \in 1 .. N : q[a].expiry \in Int
      BY <1>3, <1>5, <1>6
    <3>2. \A a, e \in 1 .. N : a < e => q[a].expiry <= q[e].expiry
      BY <1>1, <1>5 DEF Sorted
    <3>3. \A a, e \in 1 .. N : a <= e => a < e \/ a = e
      BY <1>5
    <3> QED BY <3>1, <3>2, <3>3
  <2>1. CASE i \in 1 .. n /\ i \in 1 .. N /\ r[i] = q[i]
    <3>1. r[j] = m \/ (j \in 1 .. N /\ r[j] = q[j])
          \/ (j - 1 \in 1 .. N /\ i <= j - 1 /\ r[j] = q[j - 1])
      BY <1>9, <1>11
    <3> QED BY <1>5, <1>11, <2>0, <2>1, <3>1
  <2>2. CASE i = n + 1 /\ r[i] = m
    <3>1. j - 1 \in n + 1 .. N /\ r[j] = q[j - 1]
      BY <1>5, <1>9, <1>11, <2>2
    <3> QED BY <1>7, <2>0, <2>2, <3>1
  <2>3. CASE i - 1 \in n + 1 .. N /\ i - 1 \in 1 .. N /\ r[i] = q[i - 1]
    <3>1. j - 1 \in 1 .. N /\ r[j] = q[j - 1] /\ i - 1 <= j - 1
      BY <1>5, <1>9, <1>11, <2>3
    <3> QED BY <2>0, <2>3, <3>1
  <2> QED BY <1>9, <2>1, <2>2, <2>3
<1>12. Sorted(r)
  BY <1>8, <1>11 DEF Sorted
<1>13. \A e \in Range(r) : e.expiry = ExpiryAt(c, e.left)
  BY <1>8, <1>10 DEF Range
<1>14. q' = r /\ c' = c
  BY <1>4 DEF r
<1>15. Range(q) \subseteq Range(r)
  <2>1. ASSUME NEW i \in 1 .. N
        PROVE  \/ i \in 1 .. n /\ i \in 1 .. N + 1
               \/ i \in n + 1 .. N /\ i + 1 \in 1 .. N + 1
    BY <1>5
  <2>2. \A i \in 1 .. N : q[i] \in Range(r)
    BY <1>8, <2>1 DEF Range
  <2> QED BY <1>5, <2>2 DEF Range
<1>16. InUse \subseteq InUse'
  BY <1>14, <1>15 DEF InUse, q
<1> QED
  BY <1>1, <1>8, <1>12, <1>13, <1>14, <1>16 DEF QueueInv, q, c
\* A tick takes out what has expired and brings the rest one tick nearer.
LEMMA TickKeeps ==
  ASSUME QueueInv, Tick
  PROVE  /\ QueueInv'
         /\ LET n == ExpiredCount(g_delayed_msg_queue, Signed(g_timer_count'))
            IN  /\ n \in 0 .. Len(g_delayed_msg_queue)
                /\ \A i \in 1 .. n : g_delayed_msg_queue[i].expiry <= Signed(g_timer_count')
                /\ \A i \in n + 1 .. Len(g_delayed_msg_queue) :
                     g_delayed_msg_queue[i].msg \in InUse'
<1> DEFINE q == g_delayed_msg_queue
           c == g_timer_count
           d == Unsigned(c + 1)
           t == Signed(d)
           n == ExpiredCount(q, t)
           N == Len(q)
           r == [i \in 1 .. N - n |-> [q[n + i] EXCEPT !.left = @ - 1]]
<1>1. /\ c \in 0 .. Modulus - 1 /\ q \in Seq(Entry) /\ Sorted(q)
      /\ \A e \in Range(q) : e.expiry = ExpiryAt(c, e.left)
  BY DEF QueueInv
<1>2. c' = d /\ q' = r /\ Signed(g_timer_count') = t
  BY DEF Tick
<1>3. SignBit \in Nat \ {0} /\ Modulus \in Nat
  BY SignBitAssumption DEF Modulus
<1>4. d \in 0 .. Modulus - 1 /\ t \in Int /\ t = ExpiryAt(c, 1)
  <2>1. c + 1 \in 0 .. 2 * Modulus - 1
    BY <1>1, <1>3
  <2>2. d = IF c + 1 < Modulus THEN c + 1 ELSE c + 1 - Modulus
    BY <1>1, <1>3, <2>1, Wraps
  <2>3. d \in 0 .. Modulus - 1
    BY <1>1, <1>3, <2>2
  <2> HIDE DEF d
  <2>4. t \in Int
    BY <1>3, <2>3 DEF Signed
  <2> QED BY <2>3, <2>4 DEF ExpiryAt, d
<1>5. /\ N \in Nat /\ DOMAIN q = 1 .. N /\ \A i \in 1 .. N : q[i] \in Entry
      /\ n \in 0 .. N
      /\ \A i \in 1 .. n : q[i].expiry <= t
  <2>1. N \in Nat /\ DOMAIN q = 1 .. N /\ \A i \in 1 .. N : q[i] \in Entry
    BY <1>1, LenProperties, ElementOfSeq
  <2> HIDE DEF t, q
  <2>2. n \in 0 .. N /\ \A i \in 1 .. n : q[i].expiry <= t
    BY <1>1, <1>4, ExpiredCountProperties
  <2> QED BY <2>1, <2>2
<1> HIDE DEF q, c, d, t
<1>6. \A i \in n + 1 .. N : i \in 1 .. N /\ t < q[i].expiry
  <2> SUFFICES ASSUME NEW i \in n + 1 .. N PROVE i \in 1 .. N /\ t < q[i].expiry
    OBVIOUS
  <2>1. i \in 1 .. Len(q) /\ ~ (i <= ExpiredCount(q, t))
    BY <1>5
  <2> QED BY <1>1, <1>4, <2>1, BehindIsLater
<1> HIDE DEF n, N
\* A message that stays has more than the tick to wait.
<1>7. ASSUME NEW e \in Entry, e.expiry = ExpiryAt(c, e.left), t < e.expiry
      PROVE  /\ e.left \in 2 .. SignBit - 1
             /\ [e EXCEPT !.left = @ - 1] \in Entry
             /\ [e EXCEPT !.left = @ - 1].msg = e.msg
             /\ [e EXCEPT !.left = @ - 1].expiry = e.expiry
             /\ e.expiry = ExpiryAt(d, e.left - 1)
             /\ [e EXCEPT !.left = @ - 1].left = e.left - 1
  <2>1. /\ e.left \in 1 .. SignBit - 1 /\ e.expiry \in -SignBit .. SignBit - 1
        /\ e.msg \in Blocks
        /\ e = [msg |-> e.msg, expiry |-> e.expiry, left |-> e.left]
    BY DEF Entry
  <2>2. e.left # 1
    <3>1. e.left = 1 => e.expiry = t
      BY <1>4, <1>7
    <3> QED BY <1>3, <1>4, <1>7, <2>1, <3>1
  <2>3. e.left \in 2 .. SignBit - 1 /\ e.left - 1 \in 1 .. SignBit - 1
    BY <1>3, <2>1, <2>2
  <2> DEFINE f == [e EXCEPT !.left = @ - 1]
  <2>4. f = [msg |-> e.msg, expiry |-> e.expiry, left |-> e.left - 1]
    BY <2>1
  <2>5. f \in Entry /\ f.msg = e.msg /\ f.expiry = e.expiry /\ f.left = e.left - 1
    BY <2>1, <2>3, <2>4 DEF Entry
  <2>6. ExpiryAt(d, e.left - 1) = ExpiryAt(c, e.left)
    BY <1>1, <2>1, TickNearer DEF d
  <2> QED BY <1>7, <2>3, <2>5, <2>6
<1>8. \A i \in 1 .. N - n :
        /\ n + i \in n + 1 .. N /\ n + i \in 1 .. N
        /\ r[i] \in Entry /\ r[i].msg = q[n + i].msg /\ r[i].expiry = q[n + i].expiry
        /\ r[i].expiry = ExpiryAt(d, r[i].left)
  <2> SUFFICES ASSUME NEW i \in 1 .. N - n
               PROVE  /\ n + i \in n + 1 .. N /\ n + i \in 1 .. N
                      /\ r[i] \in Entry /\ r[i].msg = q[n + i].msg
                      /\ r[i].expiry = q[n + i].expiry
                      /\ r[i].expiry = ExpiryAt(d, r[i].left)
    OBVIOUS
  <2>1. n + i \in n + 1 .. N /\ n + i \in 1 .. N
    BY <1>5
  <2> DEFINE e == q[n + i]
  <2>2. e \in Entry /\ e.expiry = ExpiryAt(c, e.left) /\ t < e.expiry
    BY <1>1, <1>5, <1>6, <2>1 DEF Range
  <2>3. r[i] = [e EXCEPT !.left = @ - 1]
    OBVIOUS
  <2> HIDE DEF e, r
  <2>4. /\ r[i] \in Entry /\ r[i].msg = e.msg /\ r[i].expiry = e.expiry
        /\ r[i].left = e.left - 1 /\ e.expiry = ExpiryAt(d, e.left - 1)
    BY <1>7, <2>2, <2>3
  <2> QED BY <2>1, <2>4 DEF e
<1>9. N - n \in Nat /\ DOMAIN r = 1 .. N - n /\ r = [i \in 1 .. N - n |-> r[i]]
  BY <1>5
<1> HIDE DEF r
<1>10. r \in Seq(Entry)
  <2>1. \A i \in 1 .. N - n : r[i] \in Entry
    BY <1>8
  <2>2. [i \in 1 .. N - n |-> r[i]] \in Seq(Entry)
    BY <1>9, <2>1, SeqDef
  <2> QED BY <1>9, <2>2
<1>11. Sorted(r)
  <2>1. ASSUME NEW i \in 1 .. N - n, NEW j \in 1 .. N - n, i < j
        PROVE  r[i].expiry <= r[j].expiry
    <3>1. n + i < n + j
      BY <1>5, <2>1
    <3>2. n + i \in DOMAIN q /\ n + j \in DOMAIN q
      BY <1>5, <1>8
    <3>3. q[n + i].expiry <= q[n + j].expiry
      BY <1>1, <3>1, <3>2 DEF Sorted
    <3> QED BY <1>8, <3>3
  <2> QED BY <1>9, <2>1 DEF Sorted
<1>12. \A e \in Range(r) : e.expiry = ExpiryAt(d, e.left)
  BY <1>8, <1>9 DEF Range
<1>13. QueueInv'
  BY <1>2, <1>4, <1>10, <1>11, <1>12 DEF QueueInv, q, c
<1>14. ASSUME NEW i \in n + 1 .. N PROVE q[i].msg \in InUse'
  <2>1. i - n \in 1 .. N - n /\ n + (i - n) = i
    BY <1>5
  <2>2. r[i - n].msg = q[i].msg /\ r[i - n] \in Range(r)
    BY <1>8, <1>9, <2>1 DEF Range
  <2> QED BY <1>2, <2>2 DEF InUse, q
<1> QED
  BY <1>2, <1>5, <1>13, <1>14 DEF q, n, N, t

-----------------------------------------------------------------------------
(* The theorems. *)

\* The queue is sorted, and every message in it carries the value that the counter
\* will have, read as an int, when its ticks are over: the invariant of the delayed
\* queue.
THEOREM QueueInvariance == Spec => []QueueInv
<1>1. Init => QueueInv
  <2> SUFFICES ASSUME Init PROVE QueueInv
    OBVIOUS
  <2>1. 0 \in 0 .. Modulus - 1
    BY SignBitAssumption DEF Modulus
  <2>2. g_delayed_msg_queue \in Seq(Entry) /\ DOMAIN g_delayed_msg_queue = {}
    BY DEF Init
  <2> QED BY <2>1, <2>2 DEF Init, QueueInv, Sorted, Range
<1>2. QueueInv /\ [Next]_vars => QueueInv'
  <2> SUFFICES ASSUME QueueInv, [Next]_vars PROVE QueueInv'
    OBVIOUS
  <2>1. CASE Tick
    BY <2>1, TickKeeps
  <2>2. CASE \E b \in Blocks, delay \in Delays : k_delayed_send(b, delay)
    BY <2>2, SendKeeps
  <2>3. CASE UNCHANGED vars
    BY <2>3 DEF QueueInv, vars
  <2> QED BY <2>1, <2>2, <2>3 DEF Next
<1> QED
  BY <1>1, <1>2, PTL DEF Spec

\* No message stays in the queue once it is due, wherever the counter wraps or its
\* signed view overflows meanwhile (message_queue.c:24-52).
THEOREM DeliveryNotLate == Spec => []NeverLate
<1>1. QueueInv => NeverLate
  <2> SUFFICES ASSUME QueueInv, NEW m \in Range(g_delayed_msg_queue) PROVE m.left > 0
    BY DEF NeverLate
  <2>1. m \in Entry
    BY ElementOfSeq, LenProperties DEF QueueInv, Range
  <2> QED BY <2>1, SignBitAssumption DEF Entry
<1> QED
  BY <1>1, QueueInvariance, PTL

\* A message leaves the queue early only if the signed view of the counter still
\* overflows before it is due (message_queue.c:31-34).
THEOREM EarlyOnlyAtOverflow == Spec => EarlyOnlyBeforeOverflow
<1> DEFINE Early == \A m \in Range(g_delayed_msg_queue) :
                      Leaves(m) /\ m.left > 1 =>
                        \E d \in 1 .. m.left - 1 : Unsigned(g_timer_count' + d) = SignBit
<1>1. QueueInv /\ [Next]_vars => [Early]_vars
  <2> SUFFICES ASSUME QueueInv, Next, NEW m \in Range(g_delayed_msg_queue),
                      Leaves(m), m.left > 1
               PROVE  \E d \in 1 .. m.left - 1 : Unsigned(g_timer_count' + d) = SignBit
    OBVIOUS
  <2> DEFINE q == g_delayed_msg_queue
             c == g_timer_count'
             n == ExpiredCount(q, Signed(c))
  <2>1. q \in Seq(Entry) /\ Len(q) \in Nat /\ DOMAIN q = 1 .. Len(q)
    BY LenProperties DEF QueueInv
  <2>2. PICK i \in 1 .. Len(q) : m = q[i]
    BY <2>1 DEF Range
  <2>3. m \in Entry
    BY <2>1, <2>2, ElementOfSeq
  <2>4. m.left \in 1 .. SignBit - 1 /\ m.left - 1 \in 1 .. SignBit - 1
    <3>1. m.left \in 1 .. SignBit - 1
      BY <2>3 DEF Entry
    <3> QED BY <3>1, SignBitAssumption
  <2>5. CASE Tick
    <3>1. /\ n \in 0 .. Len(q)
          /\ \A j \in 1 .. n : q[j].expiry <= Signed(c)
          /\ \A j \in n + 1 .. Len(q) : q[j].msg \in InUse'
          /\ c \in 0 .. Modulus - 1
      BY <2>5, TickKeeps DEF QueueInv
    <3>2. m.expiry = ExpiryAt(g_timer_count, m.left)
          /\ c = Unsigned(g_timer_count + 1) /\ g_timer_count \in 0 .. Modulus - 1
      BY <2>5 DEF QueueInv, Tick
    <3> HIDE DEF q, c, n
    <3>3. i \in 1 .. n
      <4>1. i \notin n + 1 .. Len(q)
        BY <2>2, <3>1 DEF Leaves
      <4> QED BY <2>1, <3>1, <4>1
    <3>4. m.expiry <= Signed(c)
      BY <2>2, <3>1, <3>3
    <3>5. m.expiry = ExpiryAt(c, m.left - 1)
      BY <2>4, <3>2, TickNearer
    <3>6. \E d \in 1 .. m.left - 1 : Unsigned(c + d) = SignBit
      BY <2>4, <3>1, <3>4, <3>5, ExpiredEarly
    <3> QED BY <3>6 DEF c
  <2>6. CASE \E b \in Blocks, delay \in Delays : k_delayed_send(b, delay)
    <3>1. m.msg \in InUse'
      BY <2>6, SendKeeps DEF InUse
    <3> QED BY <3>1 DEF Leaves
  <2> QED BY <2>5, <2>6 DEF Next
<1> QED
  BY <1>1, QueueInvariance, PTL DEF Spec, EarlyOnlyBeforeOverflow
=============================================================================
