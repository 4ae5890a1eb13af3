------------------------------ MODULE LinearList ------------------------------
(***************************************************************************)
(* The generic linear list of list.h and list.c: a ring of Capacity slots, *)
(* the index of the front slot and the number of items.  The ready queue,  *)
(* the blocked queue, the mailboxes, the free list and both UART buffers   *)
(* are such lists.                                                         *)
(*                                                                         *)
(* The asserts of list.c are compiled out (NDEBUG); what they ask for, room *)
(* to push and an item to pop, is a duty of the callers.                   *)
(***************************************************************************)
EXTENDS Integers, Sequences

CONSTANTS Capacity, Values

ASSUME CapacityAssumption == Capacity \in Nat \ {0}

VARIABLES start, size,   \* ll_header_t
          values,        \* the slots, indexed from 0
          result         \* what the last reading operation returned

vars == <<start, size, values, result>>

Slots == 0 .. Capacity - 1

\* LL_AT_: the slot of the i-th item, counting from 0.  Mutant: the ring is not
\* closed.
LL_AT_open(i) == IF start + i < Capacity THEN start + i ELSE Capacity - 1
LL_AT_(i) == (start + i) % Capacity

\* The items that a loop LL_FOREACH visits, in its order.
LL_FOREACH == [i \in 1 .. size |-> values[LL_AT_(i - 1)]]

\* A static list is all zeroes: empty.
Init ==
  /\ start = 0
  /\ size = 0
  /\ \E zero \in Values : values = [s \in Slots |-> zero] /\ result = zero

LL_PUSH_FRONT(v) ==
  /\ size < Capacity
  /\ size' = size + 1
  /\ start' = (start + Capacity - 1) % Capacity
  /\ values' = [values EXCEPT ![start'] = v]
  /\ UNCHANGED result

LL_PUSH_BACK(v) ==
  /\ size < Capacity
  /\ size' = size + 1
  /\ values' = [values EXCEPT ![LL_AT_(size)] = v]
  /\ UNCHANGED <<start, result>>

LL_FRONT ==
  /\ size > 0
  /\ result' = values[start]
  /\ UNCHANGED <<start, size, values>>

\* Mutant: the index does not wrap around.
LL_POP_FRONT_open ==
  /\ size > 0
  /\ result' = values[start]
  /\ size' = size - 1
  /\ start' = start + 1
  /\ UNCHANGED values
LL_POP_FRONT ==
  /\ size > 0
  /\ result' = values[start]
  /\ size' = size - 1
  /\ start' = (start + 1) % Capacity
  /\ UNCHANGED values

\* One round of the loop of LL_REMOVE: the item at src is kept by copying it back
\* to dst.
KeepUnless(v, src, w) ==
  LET x == w.values[LL_AT_(src)]
  IN  IF x = v THEN w
      ELSE [dst |-> w.dst + 1, values |-> [w.values EXCEPT ![LL_AT_(w.dst)] = x]]
LL_REMOVE(v) ==
  LET loop[n \in 0 .. size] == IF n = 0 THEN [dst |-> 0, values |-> values]
                               ELSE KeepUnless(v, n - 1, loop[n - 1])
  IN  /\ values' = loop[size].values
      /\ size' = loop[size].dst
      /\ UNCHANGED <<start, result>>

\* clear_queue resets the size and nothing else.
clear_queue == size' = 0 /\ UNCHANGED <<start, values, result>>

\* The operations that are used: nobody calls the one caller of LL_BACK, and none
\* calls LL_POP_BACK.  Both name the slot behind the last item (list.c:31-34, 45-51).
Next ==
  \/ \E v \in Values : LL_PUSH_FRONT(v) \/ LL_PUSH_BACK(v) \/ LL_REMOVE(v)
  \/ LL_FRONT \/ LL_POP_FRONT \/ clear_queue

Spec == Init /\ [][Next]_vars
-----------------------------------------------------------------------------
TypeOK ==
  /\ start \in Slots
  /\ size \in 0 .. Capacity
  /\ values \in [Slots -> Values]
  /\ result \in Values

\* The ring is a deque: read from the front to the back as LL_FOREACH reads it,
\* every operation does to it what the abstract operation does, across the
\* wrap-around of both ends and the copying of LL_REMOVE (list.c:13-43,
\* list.h:121-129).
D == INSTANCE Deque WITH items <- LL_FOREACH
DequeSpec == D!Spec
=============================================================================
