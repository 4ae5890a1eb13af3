--------------------------- MODULE LinearListProofs ---------------------------
(***************************************************************************)
(* The ring of list.c is a deque, for every capacity and every set of      *)
(* values.                                                                 *)
(***************************************************************************)
EXTENDS LinearList, DataLemmas

-----------------------------------------------------------------------------
(* The ring. *)

Ring(a) == a % Capacity

LEMMA RingValue ==
  \A a \in 0 .. 2 * Capacity - 1 : Ring(a) = IF a < Capacity THEN a ELSE a - Capacity
<1> SUFFICES ASSUME NEW a \in 0 .. 2 * Capacity - 1
             PROVE  Ring(a) = IF a < Capacity THEN a ELSE a - Capacity
  OBVIOUS
<1>1. Capacity \in Nat \ {0}
  BY CapacityAssumption
<1>2. a < Capacity => a \in 0 .. Capacity - 1
  BY <1>1
<1>3. ~ (a < Capacity) => a \in Capacity .. 2 * Capacity - 1
  BY <1>1
<1> QED
  BY <1>1, <1>2, <1>3, ModBelow, ModAbove DEF Ring

\* The slot of the item at index i, when the front is in slot st.
At(st, i) == Ring(st + i)

\* Every index has a slot of its own.
LEMMA AtValue ==
  ASSUME NEW st \in Slots, NEW i \in 0 .. Capacity
  PROVE  /\ At(st, i) = IF st + i < Capacity THEN st + i ELSE st + i - Capacity
         /\ At(st, i) \in Slots
<1>1. Capacity \in Nat \ {0} /\ st \in 0 .. Capacity - 1
  BY CapacityAssumption DEF Slots
<1>2. st + i \in 0 .. 2 * Capacity - 1
  BY <1>1
<1>3. At(st, i) = IF st + i < Capacity THEN st + i ELSE st + i - Capacity
  BY <1>1, <1>2, RingValue DEF At
<1> QED
  BY <1>1, <1>3 DEF Slots

LEMMA AtDiffers ==
  ASSUME NEW st \in Slots, NEW i \in 0 .. Capacity - 1, NEW j \in 0 .. Capacity - 1, i # j
  PROVE  At(st, i) # At(st, j)
<1>1. Capacity \in Nat \ {0} /\ st \in 0 .. Capacity - 1 /\ i \in 0 .. Capacity /\ j \in 0 .. Capacity
  BY CapacityAssumption DEF Slots
<1>2. /\ At(st, i) = IF st + i < Capacity THEN st + i ELSE st + i - Capacity
      /\ At(st, j) = IF st + j < Capacity THEN st + j ELSE st + j - Capacity
  BY <1>1, AtValue
<1> QED
  BY <1>1, <1>2

-----------------------------------------------------------------------------
(* The items of a ring. *)

View(st, n, vals) == [i \in 1 .. n |-> vals[At(st, i - 1)]]

LEMMA ViewType ==
  ASSUME NEW st \in Slots, NEW n \in 0 .. Capacity, NEW vals \in [Slots -> Values]
  PROVE  /\ View(st, n, vals) \in Seq(Values)
         /\ Len(View(st, n, vals)) = n
         /\ DOMAIN View(st, n, vals) = 1 .. n
         /\ \A i \in 1 .. n : View(st, n, vals)[i] = vals[At(st, i - 1)]
<1>1. n \in Nat /\ Capacity \in Nat
  BY CapacityAssumption
<1>2. \A i \in 1 .. n : At(st, i - 1) \in Slots
  <2>1. \A i \in 1 .. n : i - 1 \in 0 .. Capacity
    BY <1>1
  <2> QED BY <2>1, AtValue
<1>3. \A i \in 1 .. n : vals[At(st, i - 1)] \in Values
  BY <1>2
<1> DEFINE s == View(st, n, vals)
<1>4. DOMAIN s = 1 .. n /\ \A i \in 1 .. n : s[i] = vals[At(st, i - 1)]
  BY DEF View
<1>5. s = [i \in 1 .. n |-> s[i]]
  BY DEF View
<1> HIDE DEF s
<1>6. s \in Seq(Values)
  <2>1. [i \in 1 .. n |-> s[i]] \in Seq(Values)
    BY <1>1, <1>3, <1>4, SeqDef
  <2> QED BY <1>5, <2>1
<1>7. Len(s) = n
  BY <1>1, <1>4, <1>6, LenProperties
<1> QED
  BY <1>4, <1>6, <1>7 DEF s

\* Two sequences are equal if they agree everywhere.
LEMMA SameSeq ==
  ASSUME NEW S, NEW s \in Seq(S), NEW t \in Seq(S), Len(s) = Len(t),
         \A i \in 1 .. Len(s) : s[i] = t[i]
  PROVE  s = t
BY SeqEqual

\* A value behind the last item.
LEMMA PushBackView ==
  ASSUME NEW st \in Slots, NEW n \in 0 .. Capacity - 1, NEW vals \in [Slots -> Values],
         NEW v \in Values
  PROVE  /\ [vals EXCEPT ![At(st, n)] = v] \in [Slots -> Values]
         /\ View(st, n + 1, [vals EXCEPT ![At(st, n)] = v]) = Append(View(st, n, vals), v)
<1> DEFINE new == [vals EXCEPT ![At(st, n)] = v]
           s == View(st, n, vals)
           t == View(st, n + 1, new)
<1>1. /\ Capacity \in Nat \ {0} /\ n \in Nat /\ n \in 0 .. Capacity /\ n + 1 \in 0 .. Capacity
  BY CapacityAssumption
<1>2. At(st, n) \in Slots
  BY <1>1, AtValue
<1>3. /\ new \in [Slots -> Values] /\ new[At(st, n)] = v
      /\ \A a \in Slots : a # At(st, n) => new[a] = vals[a]
  BY <1>2
<1> HIDE DEF new
<1>4. /\ s \in Seq(Values) /\ Len(s) = n
      /\ \A i \in 1 .. n : s[i] = vals[At(st, i - 1)]
  BY <1>1, ViewType
<1>5. /\ t \in Seq(Values) /\ Len(t) = n + 1
      /\ \A i \in 1 .. n + 1 : t[i] = new[At(st, i - 1)]
  BY <1>1, <1>3, ViewType
<1> HIDE DEF s, t
<1>6. \A i \in 1 .. n : t[i] = s[i]
  <2> SUFFICES ASSUME NEW i \in 1 .. n PROVE t[i] = s[i]
    OBVIOUS
  <2>1. i \in 1 .. n + 1 /\ i - 1 \in 0 .. Capacity - 1 /\ i - 1 \in 0 .. Capacity /\ i - 1 # n
    BY <1>1
  <2>2. At(st, i - 1) \in Slots /\ At(st, i - 1) # At(st, n)
    BY <2>1, AtValue, AtDiffers
  <2> QED BY <1>3, <1>4, <1>5, <2>1, <2>2
<1>7. t[n + 1] = v
  <2>1. n + 1 \in 1 .. n + 1 /\ (n + 1) - 1 = n
    BY <1>1
  <2> QED BY <1>3, <1>5, <2>1
<1> DEFINE u == Append(s, v)
<1>8. /\ u \in Seq(Values) /\ Len(u) = n + 1
      /\ \A i \in 1 .. n : u[i] = s[i]
      /\ u[n + 1] = v
  BY <1>4, AppendProperties
<1> HIDE DEF u
<1>9. \A i \in 1 .. n + 1 : t[i] = u[i]
  <2>1. \A i \in 1 .. n + 1 : i \in 1 .. n \/ i = n + 1
    BY <1>1
  <2> QED BY <1>6, <1>7, <1>8, <2>1
<1>10. t = u
  BY <1>5, <1>8, <1>9, SameSeq
<1> QED
  BY <1>3, <1>10 DEF new, s, t, u

\* A value in front of the first item.
LEMMA PushFrontView ==
  ASSUME NEW st \in Slots, NEW n \in 0 .. Capacity - 1, NEW vals \in [Slots -> Values],
         NEW v \in Values, NEW at, at = Ring(st + Capacity - 1)
  PROVE  /\ at \in Slots
         /\ [vals EXCEPT ![at] = v] \in [Slots -> Values]
         /\ View(at, n + 1, [vals EXCEPT ![at] = v]) = <<v>> \o View(st, n, vals)
<1> DEFINE new == [vals EXCEPT ![at] = v]
           s == View(st, n, vals)
           t == View(at, n + 1, new)
<1>1. /\ Capacity \in Nat \ {0} /\ n \in Nat /\ n \in 0 .. Capacity /\ n + 1 \in 0 .. Capacity
      /\ st \in 0 .. Capacity - 1
  BY CapacityAssumption DEF Slots
<1>2. at = IF st = 0 THEN Capacity - 1 ELSE st - 1
  <2>1. st + Capacity - 1 \in 0 .. 2 * Capacity - 1
    BY <1>1
  <2>2. at = IF st + Capacity - 1 < Capacity THEN st + Capacity - 1 ELSE st + Capacity - 1 - Capacity
    BY <1>1, <2>1, RingValue
  <2> QED BY <1>1, <2>2
<1>3. at \in Slots
  BY <1>1, <1>2 DEF Slots
<1>4. /\ new \in [Slots -> Values] /\ new[at] = v
      /\ \A a \in Slots : a # at => new[a] = vals[a]
  BY <1>3
<1> HIDE DEF new
<1>5. /\ s \in Seq(Values) /\ Len(s) = n
      /\ \A i \in 1 .. n : s[i] = vals[At(st, i - 1)]
  BY <1>1, ViewType
<1>6. /\ t \in Seq(Values) /\ Len(t) = n + 1
      /\ \A i \in 1 .. n + 1 : t[i] = new[At(at, i - 1)]
  BY <1>1, <1>3, <1>4, ViewType
<1> HIDE DEF s, t
<1>7. t[1] = v
  <2>1. 1 \in 1 .. n + 1 /\ 1 - 1 = 0 /\ 0 \in 0 .. Capacity
    BY <1>1
  <2>2. At(at, 0) = IF at + 0 < Capacity THEN at + 0 ELSE at + 0 - Capacity
    BY <1>3, <2>1, AtValue
  <2>3. At(at, 0) = at
    BY <1>1, <1>3, <2>2 DEF Slots
  <2> QED BY <1>4, <1>6, <2>1, <2>3
<1>8. \A i \in 1 .. n : t[i + 1] = s[i]
  <2> SUFFICES ASSUME NEW i \in 1 .. n PROVE t[i + 1] = s[i]
    OBVIOUS
  <2>1. /\ i + 1 \in 1 .. n + 1 /\ (i + 1) - 1 = i /\ i - 1 \in 0 .. Capacity /\ i \in 0 .. Capacity
        /\ i \in 1 .. Capacity - 1
    BY <1>1
  <2>2. /\ At(at, i) = IF at + i < Capacity THEN at + i ELSE at + i - Capacity
        /\ At(st, i - 1) = IF st + (i - 1) < Capacity THEN st + (i - 1) ELSE st + (i - 1) - Capacity
        /\ At(st, i - 1) \in Slots
    BY <1>3, <2>1, AtValue
  <2>3. At(at, i) = At(st, i - 1) /\ At(at, i) # at
    BY <1>1, <1>2, <2>1, <2>2
  <2>4. t[i + 1] = new[At(at, i)]
    BY <1>6, <2>1
  <2> QED BY <1>4, <1>5, <2>2, <2>3, <2>4
<1> DEFINE one == <<v>>
           u == one \o s
<1>9. one \in Seq(Values) /\ Len(one) = 1 /\ one[1] = v
  OBVIOUS
<1> HIDE DEF one
<1>10. /\ u \in Seq(Values) /\ Len(u) = n + 1
       /\ u[1] = v
       /\ \A i \in 1 .. n : u[i + 1] = s[i]
  <2>1. /\ u \in Seq(Values) /\ Len(u) = Len(one) + Len(s)
        /\ \A i \in 1 .. Len(one) + Len(s) :
             u[i] = IF i <= Len(one) THEN one[i] ELSE s[i - Len(one)]
    BY <1>5, <1>9, ConcatProperties
  <2> HIDE DEF u
  <2>2. Len(u) = n + 1 /\ \A i \in 1 .. n + 1 : u[i] = IF i <= 1 THEN one[i] ELSE s[i - 1]
    <3>1. Len(one) + Len(s) = n + 1
      BY <1>1, <1>5, <1>9
    <3> QED BY <1>9, <2>1, <3>1
  <2>3. 1 \in 1 .. n + 1 /\ \A i \in 1 .. n : i + 1 \in 1 .. n + 1 /\ ~ (i + 1 <= 1) /\ (i + 1) - 1 = i
    BY <1>1
  <2> QED BY <1>9, <2>1, <2>2, <2>3
<1> HIDE DEF u
<1>11. \A i \in 1 .. n + 1 : t[i] = u[i]
  <2>1. \A i \in 1 .. n + 1 : i = 1 \/ (i - 1 \in 1 .. n /\ (i - 1) + 1 = i)
    BY <1>1
  <2> QED BY <1>7, <1>8, <1>10, <2>1
<1>12. t = u
  BY <1>6, <1>10, <1>11, SameSeq
<1> QED
  BY <1>3, <1>4, <1>12 DEF new, s, t, u, one

\* Without the first item.
LEMMA PopFrontView ==
  ASSUME NEW st \in Slots, NEW n \in 1 .. Capacity, NEW vals \in [Slots -> Values]
  PROVE  /\ Ring(st + 1) \in Slots
         /\ View(st, n, vals) # << >>
         /\ vals[st] = Head(View(st, n, vals))
         /\ View(Ring(st + 1), n - 1, vals) = Tail(View(st, n, vals))
<1> DEFINE at == Ring(st + 1)
           s == View(st, n, vals)
           t == View(at, n - 1, vals)
<1>1. /\ Capacity \in Nat \ {0} /\ n \in Nat /\ n \in 0 .. Capacity /\ n - 1 \in 0 .. Capacity
      /\ st \in 0 .. Capacity - 1 /\ 1 \in 0 .. Capacity /\ 0 \in 0 .. Capacity
  BY CapacityAssumption DEF Slots
<1>2. at = (IF st + 1 < Capacity THEN st + 1 ELSE st + 1 - Capacity) /\ at \in Slots
  BY <1>1, AtValue DEF At
<1> HIDE DEF at
<1>3. /\ s \in Seq(Values) /\ Len(s) = n
      /\ \A i \in 1 .. n : s[i] = vals[At(st, i - 1)]
  BY <1>1, ViewType
<1>4. /\ t \in Seq(Values) /\ Len(t) = n - 1
      /\ \A i \in 1 .. n - 1 : t[i] = vals[At(at, i - 1)]
  BY <1>1, <1>2, ViewType
<1> HIDE DEF s, t
<1>5. s # << >>
  BY <1>1, <1>3
<1>6. Head(s) = vals[st]
  <2>1. At(st, 0) = IF st + 0 < Capacity THEN st + 0 ELSE st + 0 - Capacity
    BY <1>1, AtValue
  <2>2. At(st, 0) = st /\ 1 \in 1 .. n /\ 1 - 1 = 0
    BY <1>1, <2>1
  <2>3. s[1] = vals[st]
    BY <1>3, <2>2
  <2> QED BY <1>3, <1>5, <2>3, HeadTailProperties
<1>7. /\ Tail(s) \in Seq(Values) /\ Len(Tail(s)) = n - 1
      /\ \A i \in 1 .. n - 1 : Tail(s)[i] = s[i + 1]
  BY <1>3, <1>5, HeadTailProperties
<1>8. \A i \in 1 .. n - 1 : t[i] = Tail(s)[i]
  <2> SUFFICES ASSUME NEW i \in 1 .. n - 1 PROVE t[i] = Tail(s)[i]
    OBVIOUS
  <2>1. i + 1 \in 1 .. n /\ (i + 1) - 1 = i /\ i - 1 \in 0 .. Capacity /\ i \in 0 .. Capacity
    BY <1>1
  <2>2. /\ At(st, i) = IF st + i < Capacity THEN st + i ELSE st + i - Capacity
        /\ At(at, i - 1) = IF at + (i - 1) < Capacity THEN at + (i - 1) ELSE at + (i - 1) - Capacity
    BY <1>2, <2>1, AtValue
  <2>3. At(st, i) = At(at, i - 1)
    BY <1>1, <1>2, <2>1, <2>2
  <2> QED BY <1>3, <1>4, <1>7, <2>1, <2>3
<1>9. t = Tail(s)
  BY <1>4, <1>7, <1>8, SameSeq
<1> QED
  BY <1>2, <1>5, <1>6, <1>9 DEF at, s, t

-----------------------------------------------------------------------------
(* The loop of LL_REMOVE. *)

\* g[n] is what Without keeps of the first n elements.
KeptUpTo(g, s, v, m) ==
  /\ g[0] = << >>
  /\ \A n \in 1 .. m : g[n] = IF s[n] = v THEN g[n - 1] ELSE Append(g[n - 1], s[n])

LEMMA WithoutLoop ==
  ASSUME NEW s \in Seq(Values), NEW v
  PROVE  \E g : KeptUpTo(g, s, v, Len(s)) /\ D!Without(s, v) = g[Len(s)]
<1> DEFINE N == Len(s)
           Loop(f) == f = [n \in 0 .. N |->
                             IF n = 0 THEN << >>
                             ELSE IF s[n] = v THEN f[n - 1] ELSE Append(f[n - 1], s[n])]
           V == Seq(Values)
           step == [n \in 1 .. N |-> [w \in V |-> IF s[n] = v THEN w ELSE Append(w, s[n])]]
<1>1. N \in Nat /\ \A n \in 1 .. N : s[n] \in Values
  BY LenProperties, ElementOfSeq
<1>2. << >> \in V
  BY EmptySeq
<1>3. \A n \in 1 .. N : \A w \in V : Append(w, s[n]) \in V
  BY <1>1, AppendProperties
<1> HIDE DEF N, V
<1>4. step \in [1 .. N -> [V -> V]]
  BY <1>3
<1>5. \A n \in 1 .. N : \A w \in V : step[n][w] = IF s[n] = v THEN w ELSE Append(w, s[n])
  OBVIOUS
<1> HIDE DEF step
<1>6. PICK f \in [0 .. N -> V] : Iterates(f, << >>, step, N)
  BY <1>1, <1>2, <1>4, IterationExists
<1>7. KeptUpTo(f, s, v, N)
  <2>1. \A n \in 1 .. N : n - 1 \in 0 .. N /\ f[n - 1] \in V
    BY <1>1
  <2> QED BY <1>5, <1>6, <2>1 DEF Iterates, KeptUpTo
<1>8. Loop(f)
  <2>1. \A n \in 0 .. N : n = 0 \/ n \in 1 .. N
    BY <1>1
  <2> QED BY <1>7, <2>1 DEF KeptUpTo
<1>9. PICK g : Loop(g) /\ D!Without(s, v) = g[N]
  <2> DEFINE chosen == CHOOSE g : Loop(g)
  <2>1. Loop(chosen)
    BY <1>8
  <2>2. D!Without(s, v) = chosen[N]
    BY DEF D!Without, N
  <2> HIDE DEF chosen
  <2> QED BY <2>1, <2>2
<1>10. KeptUpTo(g, s, v, N)
  <2>1. 0 \in 0 .. N /\ \A n \in 1 .. N : n \in 0 .. N /\ n # 0
    BY <1>1
  <2> QED BY <1>9, <2>1 DEF KeptUpTo
<1> QED
  BY <1>9, <1>10 DEF N

\* g[n] is where the loop of LL_REMOVE stands after n rounds.
RoundsUpTo(g, v, m) ==
  /\ g[0] = [dst |-> 0, values |-> values]
  /\ \A n \in 1 .. m : g[n] = KeepUnless(v, n - 1, g[n - 1])

LEMMA RemoveLoop ==
  ASSUME TypeOK, NEW v \in Values, LL_REMOVE(v)
  PROVE  \E g : RoundsUpTo(g, v, size) /\ values' = g[size].values /\ size' = g[size].dst
<1> DEFINE first == [dst |-> 0, values |-> values]
           Loop(f) == f = [n \in 0 .. size |-> IF n = 0 THEN first
                                               ELSE KeepUnless(v, n - 1, f[n - 1])]
           V == [dst : Nat, values : [Slots -> Values]]
           step == [n \in 1 .. size |-> [w \in V |-> KeepUnless(v, n - 1, w)]]
<1>1. size \in Nat /\ size \in 0 .. Capacity /\ Capacity \in Nat /\ start \in Slots
  BY CapacityAssumption DEF TypeOK
<1>2. first \in V
  BY DEF TypeOK
<1>3. \A n \in 1 .. size : \A w \in V : KeepUnless(v, n - 1, w) \in V
  <2> SUFFICES ASSUME NEW n \in 1 .. size, NEW w \in V PROVE KeepUnless(v, n - 1, w) \in V
    OBVIOUS
  <2>1. LL_AT_(n - 1) \in Slots
    <3>1. n - 1 \in 0 .. Capacity
      BY <1>1
    <3>2. At(start, n - 1) \in Slots
      BY <1>1, <3>1, AtValue
    <3> QED BY <3>2 DEF At, Ring, LL_AT_
  <2> DEFINE x == w.values[LL_AT_(n - 1)]
             at == LL_AT_(w.dst)
  <2>2. w.dst \in Nat /\ w.values \in [Slots -> Values]
    OBVIOUS
  <2>3. KeepUnless(v, n - 1, w) =
          IF x = v THEN w ELSE [dst |-> w.dst + 1, values |-> [w.values EXCEPT ![at] = x]]
    BY DEF KeepUnless
  <2>4. [w.values EXCEPT ![at] = x] \in [Slots -> Values] /\ w.dst + 1 \in Nat
    <3>1. x \in Values
      BY <2>1, <2>2
    <3>2. \A f \in [Slots -> Values], u \in Values : \A a :
            [f EXCEPT ![a] = u] \in [Slots -> Values]
      OBVIOUS
    <3> DEFINE f == w.values
    <3>3. f \in [Slots -> Values]
      BY <2>2
    <3> HIDE DEF x, at, f
    <3>4. [f EXCEPT ![at] = x] \in [Slots -> Values]
      BY <3>1, <3>2, <3>3
    <3> QED BY <2>2, <3>4 DEF f
  <2> HIDE DEF x, at
  <2> QED BY <2>3, <2>4
<1> HIDE DEF V, first
<1>4. step \in [1 .. size -> [V -> V]]
  BY <1>3
<1>5. \A n \in 1 .. size : \A w \in V : step[n][w] = KeepUnless(v, n - 1, w)
  OBVIOUS
<1> HIDE DEF step
<1>6. PICK f \in [0 .. size -> V] : Iterates(f, first, step, size)
  BY <1>1, <1>2, <1>4, IterationExists
<1>7. f[0] = first /\ \A n \in 1 .. size : f[n] = KeepUnless(v, n - 1, f[n - 1])
  <2>1. \A n \in 1 .. size : n - 1 \in 0 .. size /\ f[n - 1] \in V
    BY <1>1
  <2> QED BY <1>5, <1>6, <2>1 DEF Iterates
<1>8. Loop(f)
  <2>1. \A n \in 0 .. size : n = 0 \/ n \in 1 .. size
    BY <1>1
  <2> QED BY <1>7, <2>1
<1>9. PICK g : Loop(g) /\ values' = g[size].values /\ size' = g[size].dst
  <2> DEFINE chosen == CHOOSE g : Loop(g)
  <2>1. Loop(chosen)
    BY <1>8
  <2>2. values' = chosen[size].values /\ size' = chosen[size].dst
    BY DEF LL_REMOVE, first
  <2> HIDE DEF chosen
  <2> QED BY <2>1, <2>2
<1>10. RoundsUpTo(g, v, size)
  <2>1. 0 \in 0 .. size /\ \A n \in 1 .. size : n \in 0 .. size /\ n # 0
    BY <1>1
  <2> QED BY <1>9, <2>1 DEF RoundsUpTo, first
<1> QED
  BY <1>9, <1>10

\* After every round the slots before dst hold what is kept of the items seen so
\* far, and the slots of the others are as they were.
LEMMA RemoveView ==
  ASSUME TypeOK, NEW v \in Values, LL_REMOVE(v)
  PROVE  /\ size' \in 0 .. Capacity
         /\ values' \in [Slots -> Values]
         /\ View(start, size', values') = D!Without(LL_FOREACH, v)
<1> DEFINE s == View(start, size, values)
<1>1. /\ size \in Nat /\ size \in 0 .. Capacity /\ Capacity \in Nat \ {0} /\ start \in Slots
      /\ values \in [Slots -> Values]
  BY CapacityAssumption DEF TypeOK
<1>2. /\ s \in Seq(Values) /\ Len(s) = size
      /\ \A i \in 1 .. size : s[i] = values[At(start, i - 1)]
  BY <1>1, ViewType
<1>3. LL_FOREACH = s
  BY DEF LL_FOREACH, View, At, Ring, LL_AT_
<1> HIDE DEF s
<1>4. PICK g : RoundsUpTo(g, v, size) /\ values' = g[size].values /\ size' = g[size].dst
  BY RemoveLoop
<1>5. PICK h : KeptUpTo(h, s, v, size) /\ D!Without(s, v) = h[size]
  BY <1>2, WithoutLoop
<1> DEFINE Good == {n \in 0 .. size :
                      /\ g[n].dst \in 0 .. n
                      /\ g[n].values \in [Slots -> Values]
                      /\ \A j \in n .. size - 1 :
                           g[n].values[At(start, j)] = values[At(start, j)]
                      /\ View(start, g[n].dst, g[n].values) = h[n]}
<1>6. 0 \in Good
  <2>1. g[0] = [dst |-> 0, values |-> values] /\ h[0] = << >>
    BY <1>4, <1>5 DEF RoundsUpTo, KeptUpTo
  <2>2. View(start, 0, values) = << >>
    <3>1. 0 \in 0 .. Capacity
      BY <1>1
    <3>2. View(start, 0, values) \in Seq(Values) /\ Len(View(start, 0, values)) = 0
      BY <1>1, <3>1, ViewType
    <3> QED BY <3>2, EmptySeq
  <2> QED BY <1>1, <2>1, <2>2
<1>7. ASSUME NEW n \in 0 .. size - 1, n \in Good PROVE n + 1 \in Good
  <2> DEFINE d == g[n].dst
             w == g[n].values
             x == w[At(start, n)]
             new == [w EXCEPT ![At(start, d)] = x]
  <2>1. /\ n + 1 \in 1 .. size /\ n + 1 \in 0 .. size /\ (n + 1) - 1 = n
        /\ n \in 0 .. Capacity - 1 /\ n \in 0 .. Capacity /\ n \in n .. size - 1
    BY <1>1
  <2>2. /\ d \in 0 .. n /\ w \in [Slots -> Values] /\ View(start, d, w) = h[n]
        /\ \A j \in n .. size - 1 : w[At(start, j)] = values[At(start, j)]
    BY <1>7
  <2>3. x = s[n + 1] /\ x \in Values
    <3>1. At(start, n) \in Slots
      BY <1>1, <2>1, AtValue
    <3> QED BY <1>2, <2>1, <2>2, <3>1
  <2>4. h[n + 1] = IF x = v THEN h[n] ELSE Append(h[n], x)
    BY <1>5, <2>1, <2>3 DEF KeptUpTo
  <2>5. g[n + 1] = IF x = v THEN g[n] ELSE [dst |-> d + 1, values |-> new]
    <3>1. g[n + 1] = KeepUnless(v, n, g[n])
      BY <1>4, <2>1 DEF RoundsUpTo
    <3> QED BY <3>1 DEF KeepUnless, LL_AT_, At, Ring
  <2> HIDE DEF d, x
  <2>6. CASE x = v
    <3>1. g[n + 1] = g[n] /\ h[n + 1] = h[n]
      BY <2>4, <2>5, <2>6
    <3>2. d \in 0 .. n + 1 /\ \A j \in n + 1 .. size - 1 : j \in n .. size - 1
      BY <1>1, <2>2
    <3> QED BY <2>1, <2>2, <3>1, <3>2 DEF d
  <2>7. CASE x # v
    <3>1. /\ g[n + 1].dst = d + 1 /\ g[n + 1].values = new
          /\ h[n + 1] = Append(h[n], x)
      BY <2>4, <2>5, <2>7
    <3>2. d \in 0 .. Capacity - 1 /\ d + 1 \in 0 .. n + 1
      BY <1>1, <2>1, <2>2
    <3>3. new \in [Slots -> Values] /\ View(start, d + 1, new) = Append(View(start, d, w), x)
      <4>1. \A k \in 0 .. Capacity - 1 : \A vals \in [Slots -> Values] : \A u \in Values :
              /\ [vals EXCEPT ![At(start, k)] = u] \in [Slots -> Values]
              /\ View(start, k + 1, [vals EXCEPT ![At(start, k)] = u])
                   = Append(View(start, k, vals), u)
        BY <1>1, PushBackView
      <4> HIDE DEF w
      <4> QED BY <2>2, <2>3, <3>2, <4>1
    <3>4. ASSUME NEW j \in n + 1 .. size - 1
          PROVE  new[At(start, j)] = values[At(start, j)]
      <4>1. /\ j \in n .. size - 1 /\ j \in 0 .. Capacity - 1 /\ j \in 0 .. Capacity
            /\ d \in 0 .. Capacity /\ d # j
        BY <1>1, <2>1, <2>2
      <4>2. At(start, j) # At(start, d) /\ At(start, j) \in Slots
        BY <1>1, <3>2, <4>1, AtDiffers, AtValue
      <4> QED BY <2>2, <4>1, <4>2
    <3> HIDE DEF new, w
    <3> QED BY <2>1, <2>2, <3>1, <3>2, <3>3, <3>4
  <2> QED BY <2>6, <2>7
<1> HIDE DEF Good
<1>8. size \in Good
  <2>1. 0 .. size \subseteq Good
    BY <1>1, <1>6, <1>7, SegmentInduction
  <2> QED BY <1>1, <2>1
<1> QED
  BY <1>1, <1>3, <1>4, <1>5, <1>8 DEF Good

-----------------------------------------------------------------------------
(* The operations. *)

LEMMA Viewed == LL_FOREACH = View(start, size, values)
  BY DEF LL_FOREACH, View, At, Ring, LL_AT_

LEMMA ListInit == Init => TypeOK /\ D!Init
<1> SUFFICES ASSUME Init PROVE TypeOK /\ D!Init
  OBVIOUS
<1>1. Capacity \in Nat \ {0}
  BY CapacityAssumption
<1>2. TypeOK
  BY <1>1 DEF Init, TypeOK, Slots
<1>3. View(start, 0, values) = << >>
  <2>1. 0 \in 0 .. Capacity
    BY <1>1
  <2>2. View(start, 0, values) \in Seq(Values) /\ Len(View(start, 0, values)) = 0
    BY <1>2, <2>1, ViewType DEF TypeOK
  <2> QED BY <2>2, EmptySeq
<1>4. LL_FOREACH = << >>
  BY <1>3, Viewed DEF Init
<1> QED
  BY <1>2, <1>4 DEF D!Init, TypeOK

\* Every step of the ring is a step of the deque.
LEMMA ListNext == TypeOK /\ [Next]_vars => TypeOK' /\ [D!Next]_<<LL_FOREACH, result>>
<1> SUFFICES ASSUME TypeOK, [Next]_vars PROVE TypeOK' /\ [D!Next]_<<LL_FOREACH, result>>
  OBVIOUS
<1> DEFINE s == View(start, size, values)
           t == View(start', size', values')
<1>1. /\ Capacity \in Nat \ {0} /\ size \in Nat /\ size \in 0 .. Capacity /\ start \in Slots
      /\ values \in [Slots -> Values] /\ result \in Values
  BY CapacityAssumption DEF TypeOK
<1>2. LL_FOREACH = s /\ LL_FOREACH' = t
  BY Viewed DEF LL_FOREACH, View, At, Ring, LL_AT_
<1>3. s \in Seq(Values) /\ Len(s) = size
  BY <1>1, ViewType
<1>4. ASSUME NEW v \in Values, LL_PUSH_FRONT(v)
      PROVE  TypeOK' /\ D!PushFront(v)
  <2>1. /\ size \in 0 .. Capacity - 1 /\ size' = size + 1 /\ size + 1 \in 0 .. Capacity
        /\ start' = Ring(start + Capacity - 1)
        /\ values' = [values EXCEPT ![start'] = v] /\ result' = result
    BY <1>1, <1>4 DEF LL_PUSH_FRONT, Ring
  <2>2. start' \in Slots /\ values' \in [Slots -> Values] /\ t = <<v>> \o s
    <3>1. \A n \in 0 .. Capacity - 1, vals \in [Slots -> Values], u \in Values : \A at :
            at = Ring(start + Capacity - 1) =>
              /\ at \in Slots
              /\ [vals EXCEPT ![at] = u] \in [Slots -> Values]
              /\ View(at, n + 1, [vals EXCEPT ![at] = u]) = <<u>> \o View(start, n, vals)
      BY <1>1, PushFrontView
    <3>2. \A vals \in [Slots -> Values], u \in Values : \A at :
            at = Ring(start + Capacity - 1) =>
              /\ at \in Slots
              /\ [vals EXCEPT ![at] = u] \in [Slots -> Values]
              /\ View(at, size + 1, [vals EXCEPT ![at] = u]) = <<u>> \o View(start, size, vals)
      BY <2>1, <3>1
    <3>3. /\ start' \in Slots
          /\ [values EXCEPT ![start'] = v] \in [Slots -> Values]
          /\ View(start', size + 1, [values EXCEPT ![start'] = v]) = <<v>> \o View(start, size, values)
      BY <1>1, <1>4, <2>1, <3>2
    <3> QED BY <2>1, <3>3
  <2> HIDE DEF s, t
  <2> QED BY <1>1, <1>2, <1>3, <2>1, <2>2 DEF TypeOK, D!PushFront
<1>5. ASSUME NEW v \in Values, LL_PUSH_BACK(v)
      PROVE  TypeOK' /\ D!PushBack(v)
  <2>1. /\ size \in 0 .. Capacity - 1 /\ size' = size + 1 /\ size + 1 \in 0 .. Capacity
        /\ values' = [values EXCEPT ![At(start, size)] = v]
        /\ start' = start /\ result' = result
    BY <1>1, <1>5 DEF LL_PUSH_BACK, LL_AT_, At, Ring
  <2>2. values' \in [Slots -> Values] /\ t = Append(s, v)
    <3>1. \A n \in 0 .. Capacity - 1, vals \in [Slots -> Values], u \in Values :
            /\ [vals EXCEPT ![At(start, n)] = u] \in [Slots -> Values]
            /\ View(start, n + 1, [vals EXCEPT ![At(start, n)] = u])
                 = Append(View(start, n, vals), u)
      BY <1>1, PushBackView
    <3>2. \A vals \in [Slots -> Values], u \in Values :
            /\ [vals EXCEPT ![At(start, size)] = u] \in [Slots -> Values]
            /\ View(start, size + 1, [vals EXCEPT ![At(start, size)] = u])
                 = Append(View(start, size, vals), u)
      BY <2>1, <3>1
    <3>3. /\ [values EXCEPT ![At(start, size)] = v] \in [Slots -> Values]
          /\ View(start, size + 1, [values EXCEPT ![At(start, size)] = v])
               = Append(View(start, size, values), v)
      BY <1>1, <1>5, <3>2
    <3> QED BY <2>1, <3>3
  <2> HIDE DEF s, t
  <2> QED BY <1>1, <1>2, <1>3, <2>1, <2>2 DEF TypeOK, D!PushBack
<1>6. ASSUME NEW v \in Values, LL_REMOVE(v)
      PROVE  TypeOK' /\ D!Remove(v)
  <2>1. start' = start /\ result' = result
    BY <1>6 DEF LL_REMOVE
  <2>2. /\ size' \in 0 .. Capacity /\ values' \in [Slots -> Values]
        /\ View(start, size', values') = D!Without(LL_FOREACH, v)
    BY <1>6, RemoveView
  <2>3. LL_FOREACH' = D!Without(LL_FOREACH, v)
    BY <1>2, <2>1, <2>2
  <2> QED BY <1>1, <2>1, <2>2, <2>3 DEF TypeOK, D!Remove
<1>7. ASSUME LL_FRONT PROVE TypeOK' /\ D!Front
  <2>1. size \in 1 .. Capacity /\ result' = values[start] /\ start' = start /\ size' = size
        /\ values' = values
    BY <1>1, <1>7 DEF LL_FRONT
  <2>2. s # << >> /\ values[start] = Head(s) /\ t = s
    BY <1>1, <2>1, PopFrontView
  <2> HIDE DEF s, t
  <2> QED BY <1>1, <1>2, <2>1, <2>2 DEF TypeOK, D!Front
<1>8. ASSUME LL_POP_FRONT PROVE TypeOK' /\ D!PopFront
  <2>1. /\ size \in 1 .. Capacity /\ result' = values[start] /\ start' = Ring(start + 1)
        /\ size' = size - 1 /\ size - 1 \in 0 .. Capacity /\ values' = values
    BY <1>1, <1>8 DEF LL_POP_FRONT, Ring
  <2>2. start' \in Slots /\ s # << >> /\ values[start] = Head(s) /\ t = Tail(s)
    BY <1>1, <2>1, PopFrontView
  <2> HIDE DEF s, t
  <2> QED BY <1>1, <1>2, <2>1, <2>2 DEF TypeOK, D!PopFront
<1>9. ASSUME clear_queue PROVE TypeOK' /\ D!Clear
  <2>1. /\ size' = 0 /\ 0 \in 0 .. Capacity /\ start' = start /\ values' = values
        /\ result' = result
    BY <1>1, <1>9 DEF clear_queue
  <2>2. t \in Seq(Values) /\ Len(t) = 0
    BY <1>1, <2>1, ViewType
  <2> HIDE DEF s, t
  <2>3. t = << >>
    BY <2>2, EmptySeq
  <2> QED BY <1>1, <1>2, <2>1, <2>3 DEF TypeOK, D!Clear
<1>10. CASE UNCHANGED vars
  BY <1>1, <1>10 DEF vars, TypeOK, LL_FOREACH, LL_AT_
<1> QED
  BY <1>4, <1>5, <1>6, <1>7, <1>8, <1>9, <1>10 DEF Next, D!Next

\* Start is a slot and the size never exceeds the capacity (list.h:64-87).
THEOREM ListTypes == Spec => []TypeOK
BY ListInit, ListNext, PTL DEF Spec

\* Every operation of the ring does to the items what the deque does, across the
\* wrap-around of both ends and the copying of LL_REMOVE (list.c:13-43,
\* list.h:121-129).
THEOREM ImplementsDeque == Spec => DequeSpec
BY ListInit, ListNext, ListTypes, PTL DEF Spec, DequeSpec, D!Spec, D!dequeVars
=============================================================================
