-------------------------------- MODULE Deque --------------------------------
(***************************************************************************)
(* What the linear list of list.h promises: a sequence of at most Capacity *)
(* items with operations at both ends ("every list conceptually has a      *)
(* linear shape: [front, item, item, ..., item, item, back]").             *)
(***************************************************************************)
EXTENDS Integers, Sequences

CONSTANTS Capacity, Values

VARIABLES items,   \* the items, from the front to the back
          result   \* what the last operation returned

dequeVars == <<items, result>>

Init == items = << >> /\ result \in Values

PushFront(v) == Len(items) < Capacity /\ items' = <<v>> \o items /\ UNCHANGED result

PushBack(v) == Len(items) < Capacity /\ items' = Append(items, v) /\ UNCHANGED result

Front == items # << >> /\ result' = Head(items) /\ UNCHANGED items

PopFront == items # << >> /\ result' = Head(items) /\ items' = Tail(items)

\* Every instance of v goes, and the rest keeps its order.
Without(s, v) ==
  LET kept[n \in 0 .. Len(s)] ==
        IF n = 0 THEN << >>
        ELSE IF s[n] = v THEN kept[n - 1] ELSE Append(kept[n - 1], s[n])
  IN  kept[Len(s)]
Remove(v) == items' = Without(items, v) /\ UNCHANGED result

Clear == items' = << >> /\ UNCHANGED result

Next ==
  \/ \E v \in Values : PushFront(v) \/ PushBack(v) \/ Remove(v)
  \/ Front \/ PopFront \/ Clear

Spec == Init /\ [][Next]_dequeVars
=============================================================================
