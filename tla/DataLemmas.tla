------------------------------ MODULE DataLemmas ------------------------------
(***************************************************************************)
(* Facts about numbers, sequences and finite sets that several proofs use. *)
(***************************************************************************)
EXTENDS Integers, Sequences, FiniteSets, SequenceTheorems, FiniteSetTheorems,
        WellFoundedInduction, TLAPS

-----------------------------------------------------------------------------
(* Induction over an initial segment of the naturals, for a set. *)

\* A non-empty set of naturals has a smallest element.
LEMMA LeastExists ==
  ASSUME NEW S, S \subseteq Nat, S # {}
  PROVE  \E x \in S : \A y \in S : x <= y
<1>1. PICK x \in S : \A y \in S : ~ (<<y, x>> \in OpToRel(<, Nat))
  BY NatLessThanWellFounded, WFMin
<1>2. \A a, b \in Nat : <<a, b>> \in OpToRel(<, Nat) <=> a < b
  BY DEF OpToRel
<1>3. ASSUME NEW y \in S PROVE x <= y
  <2>1. x \in Nat /\ y \in Nat
    OBVIOUS
  <2>2. ~ (y < x)
    BY <1>1, <1>2, <2>1
  <2> QED BY <2>1, <2>2
<1> QED
  BY <1>3

\* The numbers 1 .. N begin with some that are in E, up to the first that is not.
LEMMA FrontExists ==
  ASSUME NEW N \in Nat, NEW E
  PROVE  \E n \in 0 .. N : /\ \A i \in 1 .. n : i \in E
                           /\ n < N => n + 1 \notin E
<1> DEFINE Out == {i \in 1 .. N + 1 : i \notin E \/ i = N + 1}
<1>1. PICK m \in Out : \A i \in Out : m <= i
  <2>1. Out \subseteq Nat /\ N + 1 \in Out
    OBVIOUS
  <2> HIDE DEF Out
  <2> QED BY <2>1, LeastExists
<1>2. m - 1 \in 0 .. N /\ (m - 1) + 1 = m
  OBVIOUS
<1>3. ASSUME NEW i \in 1 .. m - 1 PROVE i \in E
  <2>1. i \in 1 .. N + 1 /\ ~ (m <= i)
    OBVIOUS
  <2> QED BY <1>1, <2>1
<1>4. m - 1 < N => (m - 1) + 1 \notin E
  BY <1>2
<1> QED
  BY <1>2, <1>3, <1>4

\* What holds of 0 and is passed on from n to n + 1 below m holds up to m.
LEMMA SegmentInduction ==
  ASSUME NEW S, NEW m \in Nat, 0 \in S, \A n \in 0 .. m - 1 : n \in S => n + 1 \in S
  PROVE  0 .. m \subseteq S
<1> DEFINE T == (0 .. m) \ S
<1>1. SUFFICES ASSUME T # {} PROVE FALSE
  OBVIOUS
<1>2. T \subseteq Nat
  OBVIOUS
<1>3. PICK x \in T : \A y \in T : x <= y
  BY <1>1, <1>2, LeastExists
<1>4. x # 0 /\ x \in 0 .. m /\ x \notin S
  BY <1>3
<1>5. x - 1 \in S
  BY <1>3, <1>4
<1> QED
  BY <1>4, <1>5

-----------------------------------------------------------------------------
(* Remainders, in the only two cases that a ring or a counter meets. *)

LEMMA ModBelow ==
  ASSUME NEW n \in Nat \ {0}, NEW a \in 0 .. n - 1
  PROVE  a % n = a
OBVIOUS

LEMMA ModAbove ==
  ASSUME NEW n \in Nat \ {0}, NEW a \in n .. 2 * n - 1
  PROVE  a % n = a - n
OBVIOUS

-----------------------------------------------------------------------------
(* Recursion over an initial segment of the naturals. *)

\* f starts from base and goes on with step[n], up to m.
Iterates(f, base, step, m) ==
  /\ f[0] = base
  /\ \A n \in 1 .. m : f[n] = step[n][f[n - 1]]

\* A step for every n defines a function.
LEMMA IterationExists ==
  ASSUME NEW V, NEW base \in V, NEW N \in Nat, NEW step \in [1 .. N -> [V -> V]]
  PROVE  \E f \in [0 .. N -> V] : Iterates(f, base, step, N)
<1> DEFINE Good == {m \in 0 .. N : \E f \in [0 .. m -> V] : Iterates(f, base, step, m)}
<1>1. 0 \in Good
  <2> DEFINE f == [n \in 0 .. 0 |-> base]
  <2>1. f \in [0 .. 0 -> V] /\ f[0] = base
    OBVIOUS
  <2>2. Iterates(f, base, step, 0)
    BY <2>1 DEF Iterates
  <2> QED BY <2>1, <2>2
<1>2. ASSUME NEW m \in 0 .. N - 1, m \in Good PROVE m + 1 \in Good
  <2>1. PICK f \in [0 .. m -> V] : Iterates(f, base, step, m)
    BY <1>2
  <2> DEFINE g == [n \in 0 .. m + 1 |-> IF n = m + 1 THEN step[m + 1][f[m]] ELSE f[n]]
  <2>2. f[m] \in V /\ step[m + 1] \in [V -> V]
    OBVIOUS
  <2>3. g \in [0 .. m + 1 -> V]
    BY <2>2
  <2>4. (\A n \in 0 .. m : g[n] = f[n]) /\ g[m + 1] = step[m + 1][f[m]]
    OBVIOUS
  <2> HIDE DEF g
  <2>5. ASSUME NEW n \in 1 .. m + 1 PROVE g[n] = step[n][g[n - 1]]
    <3>1. CASE n = m + 1
      BY <2>4, <3>1
    <3>2. CASE n # m + 1
      <4>1. n \in 1 .. m /\ n - 1 \in 0 .. m /\ n \in 0 .. m
        BY <3>2
      <4> QED BY <2>1, <2>4, <4>1 DEF Iterates
    <3> QED BY <3>1, <3>2
  <2>6. Iterates(g, base, step, m + 1)
    BY <2>1, <2>4, <2>5 DEF Iterates
  <2> QED BY <2>3, <2>6
<1>3. 0 .. N \subseteq Good
  <2> HIDE DEF Good
  <2> QED BY <1>1, <1>2, SegmentInduction
<1> QED
  BY <1>3

-----------------------------------------------------------------------------
(* Inserting an element behind the first n of a sequence. *)

Inserted(q, n, m) == SubSeq(q, 1, n) \o <<m>> \o SubSeq(q, n + 1, Len(q))

\* What stands in front stays in its place, what stands behind moves on by one.
LEMMA Insertion ==
  ASSUME NEW S, NEW q \in Seq(S), NEW n \in 0 .. Len(q), NEW m \in S
  PROVE  /\ Inserted(q, n, m) \in Seq(S)
         /\ DOMAIN Inserted(q, n, m) = 1 .. Len(q) + 1
         /\ \A i \in 1 .. n : Inserted(q, n, m)[i] = q[i]
         /\ Inserted(q, n, m)[n + 1] = m
         /\ \A i \in n + 1 .. Len(q) : Inserted(q, n, m)[i + 1] = q[i]
<1> DEFINE N == Len(q)
           front == SubSeq(q, 1, n)
           back == SubSeq(q, n + 1, N)
           one == <<m>>
           head == front \o one
           r == Inserted(q, n, m)
<1>1. N \in Nat /\ DOMAIN q = 1 .. N /\ \A i \in 1 .. N : q[i] \in S
  BY LenProperties, ElementOfSeq
<1>2. n \in 0 .. N
  OBVIOUS
<1>3. r = head \o back
  BY DEF Inserted
<1>4. one \in Seq(S) /\ Len(one) = 1 /\ one[1] = m
  OBVIOUS
<1>5. head = front \o one
  OBVIOUS
<1>6. /\ front \in Seq(S) /\ Len(front) = n
      /\ \A i \in 1 .. n : front[i] = q[i]
  <2>1. \A i \in 1 .. n : q[i] \in S
    BY <1>1, <1>2
  <2>2. n \in Int /\ (IF 1 <= n THEN n - 1 + 1 ELSE 0) = n /\ n - 1 + 1 = n
        /\ \A i \in 1 .. n : 1 + i - 1 = i
    BY <1>1, <1>2
  <2> HIDE DEF N
  <2> QED BY <2>1, <2>2, SubSeqProperties
<1>7. /\ back \in Seq(S) /\ Len(back) = N - n
      /\ \A i \in 1 .. N - n : back[i] = q[n + i]
  <2>1. \A i \in n + 1 .. N : q[i] \in S
    BY <1>1, <1>2
  <2>2. n + 1 \in Int /\ N \in Int
    BY <1>1, <1>2
  <2> HIDE DEF N
  <2>3. /\ back \in Seq(S)
        /\ Len(back) = IF n + 1 <= N THEN N - (n + 1) + 1 ELSE 0
        /\ \A i \in 1 .. N - (n + 1) + 1 : back[i] = q[(n + 1) + i - 1]
    BY <2>1, <2>2, SubSeqProperties
  <2>4. N - (n + 1) + 1 = N - n /\ \A i \in 1 .. N - n : (n + 1) + i - 1 = n + i
    BY <1>1, <1>2
  <2>5. Len(back) = N - n
    BY <1>1, <1>2, <2>3
  <2> QED BY <2>3, <2>4, <2>5
<1> HIDE DEF N, front, back, one, head, r
<1>8. /\ head \in Seq(S) /\ Len(head) = n + 1
      /\ \A i \in 1 .. n + 1 : head[i] = IF i <= n THEN front[i] ELSE one[i - n]
  <2>1. /\ front \o one \in Seq(S) /\ Len(front \o one) = Len(front) + Len(one)
        /\ \A i \in 1 .. Len(front) + Len(one) :
             (front \o one)[i] = IF i <= Len(front) THEN front[i] ELSE one[i - Len(front)]
    BY <1>4, <1>6, ConcatProperties
  <2> QED BY <1>4, <1>5, <1>6, <2>1
<1>9. (n + 1) - n = 1 /\ n + 1 \in 1 .. n + 1
      /\ ~ (n + 1 <= n) /\ \A i \in 1 .. n : i \in 1 .. n + 1 /\ i <= n
  BY <1>2
<1>10. head[n + 1] = m /\ \A i \in 1 .. n : head[i] = q[i]
  BY <1>4, <1>6, <1>8, <1>9
<1>11. /\ r \in Seq(S) /\ Len(r) = (n + 1) + (N - n)
       /\ \A i \in 1 .. (n + 1) + (N - n) :
            r[i] = IF i <= n + 1 THEN head[i] ELSE back[i - (n + 1)]
  <2>1. r = head \o back /\ head \in Seq(S) /\ back \in Seq(S)
        /\ Len(head) = n + 1 /\ Len(back) = N - n
    BY <1>3, <1>7, <1>8
  <2>2. /\ head \o back \in Seq(S) /\ Len(head \o back) = Len(head) + Len(back)
        /\ \A i \in 1 .. Len(head) + Len(back) :
             (head \o back)[i] = IF i <= Len(head) THEN head[i] ELSE back[i - Len(head)]
    BY <2>1, ConcatProperties
  <2> QED BY <2>1, <2>2
<1>12. /\ (n + 1) + (N - n) = N + 1
       /\ \A i \in 1 .. n + 1 : i \in 1 .. N + 1 /\ i <= n + 1
       /\ \A i \in n + 1 .. N :
            /\ i + 1 \in 1 .. N + 1 /\ ~ (i + 1 <= n + 1)
            /\ (i + 1) - (n + 1) = i - n /\ i - n \in 1 .. N - n /\ n + (i - n) = i
  BY <1>1, <1>2
<1>13. DOMAIN r = 1 .. N + 1
  BY <1>11, <1>12, LenProperties
<1>14. \A i \in 1 .. n + 1 : r[i] = head[i]
  BY <1>11, <1>12
<1>15. \A i \in n + 1 .. N : r[i + 1] = q[i]
  BY <1>7, <1>11, <1>12
<1>16. /\ \A i \in 1 .. n : r[i] = q[i]
       /\ r[n + 1] = m
  BY <1>9, <1>10, <1>14
<1> QED
  BY <1>11, <1>13, <1>15, <1>16 DEF r, N

-----------------------------------------------------------------------------
(* Counting the elements of a sequence that are in a set. *)

Hits(s, L) == {i \in DOMAIN s : s[i] \in L}
CountIn(s, L) == Cardinality(Hits(s, L))

LEMMA CountType ==
  ASSUME NEW M, NEW s \in Seq(M), NEW L
  PROVE  /\ IsFiniteSet(Hits(s, L)) /\ Hits(s, L) \subseteq 1 .. Len(s)
         /\ CountIn(s, L) \in Nat /\ CountIn(s, L) <= Len(s)
<1>1. Len(s) \in Nat /\ Hits(s, L) \subseteq 1 .. Len(s)
  BY LenProperties DEF Hits
<1>2. IsFiniteSet(1 .. Len(s)) /\ Cardinality(1 .. Len(s)) = Len(s)
  <2>1. 1 \in Int /\ Len(s) \in Int
    BY <1>1
  <2>2. /\ IsFiniteSet(1 .. Len(s))
        /\ Cardinality(1 .. Len(s)) = IF 1 > Len(s) THEN 0 ELSE Len(s) - 1 + 1
    BY <2>1, FS_Interval
  <2> QED BY <1>1, <2>2
<1>3. IsFiniteSet(Hits(s, L)) /\ Cardinality(Hits(s, L)) <= Cardinality(1 .. Len(s))
  BY <1>1, <1>2, FS_Subset
<1>4. Cardinality(Hits(s, L)) \in Nat
  BY <1>3, FS_CardinalityType
<1> QED
  BY <1>1, <1>2, <1>3, <1>4 DEF CountIn

\* There is none exactly if the count is 0.
LEMMA CountNone ==
  ASSUME NEW M, NEW s \in Seq(M), NEW L
  PROVE  CountIn(s, L) = 0 <=> \A i \in 1 .. Len(s) : s[i] \notin L
<1>1. IsFiniteSet(Hits(s, L)) /\ DOMAIN s = 1 .. Len(s)
  BY CountType, LenProperties
<1>2. CountIn(s, L) = 0 <=> Hits(s, L) = {}
  BY <1>1, FS_EmptySet DEF CountIn
<1> QED
  BY <1>1, <1>2 DEF Hits

LEMMA CountEmpty == \A L : CountIn(<< >>, L) = 0
<1>1. \A L : Hits(<< >>, L) = {}
  BY DEF Hits
<1>2. Cardinality({}) = 0
  BY FS_EmptySet
<1> QED
  BY <1>1, <1>2 DEF CountIn

LEMMA CountSame ==
  ASSUME NEW M, NEW s \in Seq(M), NEW L, NEW N, NEW t \in Seq(N), NEW K,
         Len(s) = Len(t), \A i \in 1 .. Len(s) : s[i] \in L <=> t[i] \in K
  PROVE  CountIn(s, L) = CountIn(t, K)
<1>1. DOMAIN s = 1 .. Len(s) /\ DOMAIN t = 1 .. Len(s)
  BY LenProperties
<1>2. Hits(s, L) = Hits(t, K)
  BY <1>1 DEF Hits
<1> QED
  BY <1>2 DEF CountIn

LEMMA CountAppend ==
  ASSUME NEW M, NEW s \in Seq(M), NEW e \in M, NEW L
  PROVE  CountIn(Append(s, e), L) = CountIn(s, L) + IF e \in L THEN 1 ELSE 0
<1> DEFINE n == Len(s)
           longer == Append(s, e)
           H == Hits(s, L)
<1>1. /\ n \in Nat /\ DOMAIN s = 1 .. n /\ DOMAIN longer = 1 .. n + 1
      /\ \A i \in 1 .. n : longer[i] = s[i]
      /\ longer[n + 1] = e
  BY AppendProperties, LenProperties
<1>2. IsFiniteSet(H) /\ H \subseteq 1 .. n /\ Cardinality(H) \in Nat
  BY CountType DEF CountIn
<1>3. \A i : i \in 1 .. n + 1 <=> i \in 1 .. n \/ i = n + 1
  BY <1>1
<1>4. n + 1 \notin H
  BY <1>1, <1>2
<1>5. Hits(longer, L) = IF e \in L THEN H \cup {n + 1} ELSE H
  <2> HIDE DEF n, longer
  <2>1. \A i : i \in Hits(longer, L) <=> i \in H \/ (e \in L /\ i = n + 1)
    BY <1>1, <1>3, <1>4 DEF Hits
  <2> HIDE DEF H
  <2>2. CASE e \in L
    <3>1. Hits(longer, L) = H \cup {n + 1}
      BY <2>1, <2>2
    <3> QED BY <2>2, <3>1
  <2>3. CASE e \notin L
    <3>1. Hits(longer, L) = H
      BY <2>1, <2>3
    <3> QED BY <2>3, <3>1
  <2> QED BY <2>2, <2>3
<1> HIDE DEF n, longer, H
<1>6. Cardinality(H \cup {n + 1}) = Cardinality(H) + 1
  BY <1>2, <1>4, FS_AddElement
<1> QED
  BY <1>2, <1>5, <1>6 DEF CountIn, H, longer

\* A set of numbers that is moved keeps its size.
LEMMA ShiftSize ==
  ASSUME NEW S, IsFiniteSet(S), S \subseteq Int, NEW k \in Int
  PROVE  IsFiniteSet({i + k : i \in S}) /\ Cardinality({i + k : i \in S}) = Cardinality(S)
<1> DEFINE T == {i + k : i \in S}
           f == [i \in S |-> i + k]
<1>1. f \in [S -> T] /\ \A i \in S : f[i] = i + k
  OBVIOUS
<1>2. \A i, j \in S : f[i] = f[j] => i = j
  BY <1>1
<1>3. \A t \in T : \E i \in S : f[i] = t
  BY <1>1
<1> HIDE DEF f
<1>4. f \in Injection(S, T)
  BY <1>1, <1>2 DEF Injection, IsInjective
<1>5. f \in Surjection(S, T)
  BY <1>1, <1>3 DEF Surjection
<1>6. ExistsBijection(S, T)
  BY <1>4, <1>5 DEF ExistsBijection, Bijection
<1> QED
  BY <1>6, FS_Bijection

LEMMA CountConcat ==
  ASSUME NEW M, NEW s \in Seq(M), NEW t \in Seq(M), NEW L
  PROVE  CountIn(s \o t, L) = CountIn(s, L) + CountIn(t, L)
<1> DEFINE n == Len(s)
           m == Len(t)
           both == s \o t
           H == Hits(s, L)
           G == Hits(t, L)
           Moved == {i + n : i \in G}
<1>1. /\ n \in Nat /\ m \in Nat /\ DOMAIN s = 1 .. n /\ DOMAIN t = 1 .. m
      /\ DOMAIN both = 1 .. n + m
      /\ \A i \in 1 .. n + m : both[i] = IF i <= n THEN s[i] ELSE t[i - n]
  BY ConcatProperties, LenProperties
<1>2. /\ IsFiniteSet(H) /\ H \subseteq 1 .. n /\ IsFiniteSet(G) /\ G \subseteq 1 .. m
      /\ Cardinality(H) \in Nat /\ Cardinality(G) \in Nat
  BY CountType DEF CountIn
<1>3. Hits(both, L) = H \cup Moved
  <2> HIDE DEF n, m, both
  <2>1. ASSUME NEW i \in Hits(both, L) PROVE i \in H \cup Moved
    <3>1. i \in 1 .. n + m /\ both[i] \in L
      BY <1>1 DEF Hits
    <3>2. CASE i <= n
      <4>1. i \in 1 .. n /\ s[i] \in L
        BY <1>1, <3>1, <3>2
      <4> QED BY <1>1, <4>1 DEF Hits
    <3>3. CASE ~ (i <= n)
      <4>1. i - n \in 1 .. m /\ t[i - n] \in L /\ (i - n) + n = i
        BY <1>1, <3>1, <3>3
      <4>2. i - n \in G
        BY <1>1, <4>1 DEF Hits
      <4> HIDE DEF G
      <4> QED BY <4>1, <4>2
    <3> QED BY <3>2, <3>3
  <2>2. ASSUME NEW i \in H PROVE i \in Hits(both, L)
    <3>1. i \in 1 .. n /\ s[i] \in L
      BY <1>1 DEF Hits
    <3>2. i \in 1 .. n + m /\ i <= n
      BY <1>1, <3>1
    <3> QED BY <1>1, <3>1, <3>2 DEF Hits
  <2>3. ASSUME NEW i \in G PROVE i + n \in Hits(both, L)
    <3>1. i \in 1 .. m /\ t[i] \in L
      BY <1>1 DEF Hits
    <3>2. i + n \in 1 .. n + m /\ ~ (i + n <= n) /\ (i + n) - n = i
      BY <1>1, <3>1
    <3>3. both[i + n] = t[i]
      BY <1>1, <3>2
    <3> QED BY <1>1, <3>1, <3>2, <3>3 DEF Hits
  <2> HIDE DEF H, G
  <2> QED BY <2>1, <2>2, <2>3
<1> HIDE DEF n, m, both, H, G
<1>4. IsFiniteSet(Moved) /\ Cardinality(Moved) = Cardinality(G)
  <2>1. G \subseteq Int /\ n \in Int
    BY <1>1, <1>2
  <2> QED BY <1>2, <2>1, ShiftSize
<1>5. H \cap Moved = {}
  BY <1>1, <1>2
<1> HIDE DEF Moved
<1>6. Cardinality(H \cup Moved) = Cardinality(H) + Cardinality(G)
  <2>1. Cardinality(H \cup Moved) = Cardinality(H) + Cardinality(Moved) - Cardinality(H \cap Moved)
    BY <1>2, <1>4, FS_Union
  <2>2. Cardinality(H \cap Moved) = 0
    BY <1>5, FS_EmptySet
  <2> QED BY <1>2, <1>4, <2>1, <2>2
<1> QED
  BY <1>3, <1>6 DEF CountIn, H, G, both

LEMMA CountTail ==
  ASSUME NEW M, NEW s \in Seq(M), s # << >>, NEW L
  PROVE  CountIn(s, L) = (IF Head(s) \in L THEN 1 ELSE 0) + CountIn(Tail(s), L)
<1> DEFINE first == <<Head(s)>>
<1>1. Head(s) \in M /\ Tail(s) \in Seq(M) /\ Len(s) \in Nat \ {0} /\ Head(s) = s[1]
  BY HeadTailProperties, EmptySeq
<1>2. first \in Seq(M) /\ Len(first) = 1 /\ first[1] = Head(s)
  BY <1>1
<1>3. s = first \o Tail(s)
  <2>1. 1 \in 1 .. Len(s) /\ Len(s) \in 1 .. Len(s)
    BY <1>1
  <2>2. SubSeq(s, 1, Len(s)) = <<s[1]>> \o SubSeq(s, 1 + 1, Len(s))
    BY <2>1, SubSeqRecursiveFirst
  <2>3. SubSeq(s, 1, Len(s)) = s /\ Tail(s) = SubSeq(s, 2, Len(s)) /\ 1 + 1 = 2
    BY SubSeqFull, TailIsSubSeq
  <2> QED BY <1>1, <2>2, <2>3
<1>4. CountIn(s, L) = CountIn(first, L) + CountIn(Tail(s), L)
  <2>1. \A u, v \in Seq(M) : CountIn(u \o v, L) = CountIn(u, L) + CountIn(v, L)
    BY CountConcat
  <2> DEFINE rest == Tail(s)
  <2>2. rest \in Seq(M) /\ s = first \o rest
    BY <1>1, <1>3
  <2> HIDE DEF first, rest
  <2> QED BY <1>2, <2>1, <2>2 DEF rest
<1>5. CountIn(first, L) = IF Head(s) \in L THEN 1 ELSE 0
  <2>1. Hits(first, L) = IF Head(s) \in L THEN {1} ELSE {}
    <3>1. DOMAIN first = {1} /\ first[1] = Head(s)
      OBVIOUS
    <3> HIDE DEF first
    <3>2. \A i : i \in Hits(first, L) <=> i = 1 /\ Head(s) \in L
      BY <3>1 DEF Hits
    <3>3. CASE Head(s) \in L
      <4>1. Hits(first, L) = {1}
        BY <3>2, <3>3
      <4> QED BY <3>3, <4>1
    <3>4. CASE Head(s) \notin L
      <4>1. Hits(first, L) = {}
        BY <3>2, <3>4
      <4> QED BY <3>4, <4>1
    <3> QED BY <3>3, <3>4
  <2>2. Cardinality({1}) = 1 /\ Cardinality({}) = 0
    BY FS_EmptySet, FS_Singleton
  <2> HIDE DEF first
  <2> QED BY <2>1, <2>2 DEF CountIn
<1> QED
  BY <1>4, <1>5

\* A sequence falls into two parts at every place.
LEMMA CountSplit ==
  ASSUME NEW M, NEW s \in Seq(M), NEW n \in 0 .. Len(s), NEW L
  PROVE  CountIn(s, L) = CountIn(SubSeq(s, 1, n), L) + CountIn(SubSeq(s, n + 1, Len(s)), L)
<1>1. Len(s) \in Nat
  BY LenProperties
<1>2. SubSeq(s, 1, n) \o SubSeq(s, n + 1, Len(s)) = s
  <2>1. 1 \in 1 .. Len(s) + 1 /\ n \in 1 - 1 .. Len(s) /\ Len(s) \in n .. Len(s)
    BY <1>1
  <2>2. SubSeq(s, 1, n) \o SubSeq(s, n + 1, Len(s)) = SubSeq(s, 1, Len(s))
    BY <2>1, ConcatAdjacentSubSeq
  <2> QED BY <2>2, SubSeqFull
<1>3. SubSeq(s, 1, n) \in Seq(M) /\ SubSeq(s, n + 1, Len(s)) \in Seq(M)
  <2>1. \A i \in 1 .. n : s[i] \in M
    BY <1>1, ElementOfSeq
  <2>2. \A i \in n + 1 .. Len(s) : s[i] \in M
    BY <1>1, ElementOfSeq
  <2>3. 1 \in Int /\ n \in Int /\ n + 1 \in Int /\ Len(s) \in Int
    BY <1>1
  <2> QED BY <2>1, <2>2, <2>3, SubSeqProperties
<1>4. \A u, v \in Seq(M) : CountIn(u \o v, L) = CountIn(u, L) + CountIn(v, L)
  BY CountConcat
<1> DEFINE a == SubSeq(s, 1, n)
           b == SubSeq(s, n + 1, Len(s))
<1>5. a \in Seq(M) /\ b \in Seq(M) /\ a \o b = s
  BY <1>2, <1>3
<1> HIDE DEF a, b
<1> QED
  BY <1>4, <1>5 DEF a, b

\* The elements up to a place are as many as its number.
LEMMA PrefixSet ==
  ASSUME NEW N \in Nat, NEW E, E \subseteq 1 .. N, \A i \in 1 .. N : \A j \in E : i <= j => i \in E
  PROVE  Cardinality(E) \in 0 .. N /\ E = 1 .. Cardinality(E)
<1> DEFINE C == {i \in 1 .. N + 1 : i \notin E}
<1>1. N + 1 \in C /\ C \subseteq Nat
  OBVIOUS
<1>2. PICK x \in C : \A y \in C : x <= y
  BY <1>1, LeastExists
<1>3. E = 1 .. x - 1 /\ x - 1 \in 0 .. N
  <2>1. x \in 1 .. N + 1 /\ x \notin E
    OBVIOUS
  <2>2. \A i \in 1 .. x - 1 : i \in E
    <3> SUFFICES ASSUME NEW i \in 1 .. x - 1, i \notin E PROVE FALSE
      OBVIOUS
    <3>1. i \in C
      BY <2>1
    <3> QED BY <1>2, <2>1, <3>1
  <2>3. \A j \in E : j \in 1 .. x - 1
    <3> SUFFICES ASSUME NEW j \in E, ~ (j \in 1 .. x - 1) PROVE FALSE
      OBVIOUS
    <3>1. j \in 1 .. N /\ x <= j /\ x \in 1 .. N
      BY <2>1
    <3> QED BY <2>1, <3>1
  <2>4. \A i : i \in E <=> i \in 1 .. x - 1
    BY <2>2, <2>3
  <2>5. x - 1 \in 0 .. N
    BY <2>1
  <2> QED BY <2>4, <2>5
<1> HIDE DEF C
<1>4. Cardinality(E) = x - 1
  <2>1. 1 \in Int /\ x - 1 \in Int
    BY <1>3
  <2>2. Cardinality(1 .. x - 1) = IF 1 > x - 1 THEN 0 ELSE (x - 1) - 1 + 1
    BY <2>1, FS_Interval
  <2> QED BY <1>3, <2>2
<1> QED
  BY <1>3, <1>4
=============================================================================
