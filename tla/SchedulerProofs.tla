--------------------------- MODULE SchedulerProofs ---------------------------
(***************************************************************************)
(* Facts about the operators of Scheduler, for every number of processes   *)
(* and of priorities.                                                      *)
(***************************************************************************)
EXTENDS Scheduler, DataLemmas

-----------------------------------------------------------------------------
(* Numbers. *)

\* A non-empty set of naturals has a smallest element.
LEMMA SmallestExists ==
  ASSUME NEW S, S \subseteq Nat, S # {}
  PROVE  Smallest(S) \in S /\ \A y \in S : Smallest(S) <= y
BY LeastExists DEF Smallest

-----------------------------------------------------------------------------
(* Keep and LL_REMOVE. *)

\* f is the function that Keep(s, K) defines by recursion, up to m.
IsKept(f, s, K, m) ==
  f = [n \in 0 .. m |-> IF n = 0 THEN << >>
                        ELSE IF s[n] \in K THEN Append(f[n - 1], s[n]) ELSE f[n - 1]]

LEMMA KeptExists ==
  ASSUME NEW s, NEW K, NEW N \in Nat
  PROVE  \E f : IsKept(f, s, K, N)
<1> DEFINE Good == {m \in 0 .. N : \E f : IsKept(f, s, K, m)}
<1>1. 0 \in Good
  <2>1. IsKept([n \in {0} |-> << >>], s, K, 0)
    BY DEF IsKept
  <2> QED BY <2>1
<1>2. ASSUME NEW m \in 0 .. N - 1, m \in Good PROVE m + 1 \in Good
  <2>1. PICK f : IsKept(f, s, K, m)
    BY <1>2
  <2> DEFINE g == [n \in 0 .. m + 1 |->
                     IF n = m + 1
                     THEN IF s[n] \in K THEN Append(f[n - 1], s[n]) ELSE f[n - 1]
                     ELSE f[n]]
  <2>2. \A n \in 0 .. m :
          f[n] = IF n = 0 THEN << >>
                 ELSE IF s[n] \in K THEN Append(f[n - 1], s[n]) ELSE f[n - 1]
    BY <2>1 DEF IsKept
  <2>3. \A n \in 0 .. m : g[n] = f[n]
    OBVIOUS
  <2>4. \A n \in 0 .. m + 1 :
          g[n] = IF n = 0 THEN << >>
                 ELSE IF s[n] \in K THEN Append(g[n - 1], s[n]) ELSE g[n - 1]
    <3>1. g[m + 1] = IF s[m + 1] \in K THEN Append(g[m], s[m + 1]) ELSE g[m]
      BY <2>3
    <3>2. ASSUME NEW n \in 0 .. m
          PROVE  g[n] = IF n = 0 THEN << >>
                        ELSE IF s[n] \in K THEN Append(g[n - 1], s[n]) ELSE g[n - 1]
      <4>1. n = 0 \/ n - 1 \in 0 .. m
        OBVIOUS
      <4> HIDE DEF g
      <4> QED BY <2>2, <2>3, <4>1
    <3> HIDE DEF g
    <3>3. \A n \in 0 .. m + 1 : n \in 0 .. m \/ n = m + 1
      OBVIOUS
    <3>4. (m + 1) - 1 = m /\ m + 1 # 0
      OBVIOUS
    <3> QED BY <3>1, <3>2, <3>3, <3>4
  <2>5. IsKept(g, s, K, m + 1)
    <3>1. g = [n \in 0 .. m + 1 |-> g[n]]
      OBVIOUS
    <3> HIDE DEF g
    <3> QED BY <2>4, <3>1 DEF IsKept
  <2> QED BY <2>5
<1>3. 0 .. N \subseteq Good
  <2> HIDE DEF Good
  <2> QED BY <1>1, <1>2, SegmentInduction
<1> QED
  BY <1>3

\* The loop of Keep, after m iterations.
LEMMA KeptProperties ==
  ASSUME NEW S, NEW s \in Seq(S), NEW K, NEW f, IsKept(f, s, K, Len(s)),
         NEW m \in 0 .. Len(s)
  PROVE  /\ f[m] \in Seq(S)
         /\ \A p : Occurs(f[m], p) <=> p \in K /\ \E i \in 1 .. m : s[i] = p
         /\ Distinct(s) => Distinct(f[m])
<1> DEFINE N == Len(s)
           Right(n) == /\ f[n] \in Seq(S)
                       /\ \A p : Occurs(f[n], p) <=> p \in K /\ \E i \in 1 .. n : s[i] = p
                       /\ Distinct(s) => Distinct(f[n])
           RightOnes == {n \in 0 .. N : Right(n)}
<1>0. N \in Nat /\ DOMAIN s = 1 .. N /\ \A n \in 1 .. N : s[n] \in S
  BY LenProperties
<1>a. \A n \in 0 .. N :
        f[n] = IF n = 0 THEN << >>
               ELSE IF s[n] \in K THEN Append(f[n - 1], s[n]) ELSE f[n - 1]
  BY DEF IsKept
<1>1. 0 \in RightOnes
  <2>1. f[0] = << >>
    BY <1>0, <1>a
  <2>2. DOMAIN f[0] = {} /\ f[0] \in Seq(S)
    BY <2>1, EmptySeq, LenProperties
  <2>3. Right(0)
    BY <2>2 DEF Occurs, Distinct
  <2> HIDE DEF Right
  <2> QED BY <2>3, <1>0
<1>2. ASSUME NEW n \in 0 .. N - 1, n \in RightOnes PROVE n + 1 \in RightOnes
  <2>0. n \in Nat /\ n + 1 \in 1 .. N /\ n + 1 \in 0 .. N /\ s[n + 1] \in S
    BY <1>0
  <2>1. f[n + 1] = IF s[n + 1] \in K THEN Append(f[n], s[n + 1]) ELSE f[n]
    BY <1>a, <2>0
  <2>2. Right(n)
    BY <1>2
  <2>3. CASE s[n + 1] \notin K
    <3>1. f[n + 1] = f[n]
      BY <2>1, <2>3
    <3>2. \A p : p \in K => ((\E i \in 1 .. n : s[i] = p) <=> (\E i \in 1 .. n + 1 : s[i] = p))
      BY <2>0, <2>3
    <3>3. Right(n + 1)
      BY <2>2, <3>1, <3>2
    <3> HIDE DEF Right
    <3> QED BY <2>0, <3>3
  <2>4. CASE s[n + 1] \in K
    <3> DEFINE t == f[n]
               u == f[n + 1]
    <3>1. /\ u \in Seq(S) /\ Len(t) \in Nat /\ DOMAIN t = 1 .. Len(t)
          /\ DOMAIN u = 1 .. Len(t) + 1
          /\ \A i \in 1 .. Len(t) : u[i] = t[i]
          /\ u[Len(t) + 1] = s[n + 1]
      <4>1. t \in Seq(S) /\ u = Append(t, s[n + 1])
        BY <2>1, <2>2, <2>4
      <4> HIDE DEF t, u
      <4> QED BY <2>0, <4>1, AppendProperties, LenProperties
    <3>a. \A p : Occurs(t, p) <=> p \in K /\ \E i \in 1 .. n : s[i] = p
      BY <2>2
    <3>b. Distinct(s) => Distinct(t)
      BY <2>2
    <3> HIDE DEF t, u
    <3>c. \A p : Occurs(u, p) <=> Occurs(t, p) \/ p = s[n + 1]
      <4>1. ASSUME NEW p, Occurs(u, p) PROVE Occurs(t, p) \/ p = s[n + 1]
        <5>1. PICK i \in DOMAIN u : u[i] = p
          BY <4>1 DEF Occurs
        <5>2. i \in 1 .. Len(t) \/ i = Len(t) + 1
          BY <3>1
        <5> QED BY <3>1, <5>1, <5>2 DEF Occurs
      <4>2. ASSUME NEW p, Occurs(t, p) PROVE Occurs(u, p)
        <5>1. PICK i \in DOMAIN t : t[i] = p
          BY <4>2 DEF Occurs
        <5>2. i \in DOMAIN u /\ u[i] = p
          BY <3>1, <5>1
        <5> QED BY <5>2 DEF Occurs
      <4>3. Occurs(u, s[n + 1])
        <5>1. Len(t) + 1 \in DOMAIN u
          BY <3>1
        <5> QED BY <3>1, <5>1 DEF Occurs
      <4> QED BY <4>1, <4>2, <4>3
    <3>d. \A p : (\E i \in 1 .. n + 1 : s[i] = p) <=> (\E i \in 1 .. n : s[i] = p) \/ p = s[n + 1]
      <4>1. 1 .. n + 1 = (1 .. n) \cup {n + 1}
        BY <2>0
      <4> QED BY <4>1
    <3>2. \A p : Occurs(u, p) <=> p \in K /\ \E i \in 1 .. n + 1 : s[i] = p
      <4> QED BY <2>4, <3>a, <3>c, <3>d
    <3>3. ASSUME Distinct(s) PROVE Distinct(u)
      <4>1. ~ Occurs(t, s[n + 1])
        <5>1. ASSUME NEW i \in 1 .. n, s[i] = s[n + 1] PROVE FALSE
          <6>1. i \in DOMAIN s /\ n + 1 \in DOMAIN s /\ i # n + 1
            BY <1>0, <2>0
          <6> QED BY <3>3, <5>1, <6>1 DEF Distinct
        <5> QED BY <3>a, <5>1
      <4>2. Distinct(t)
        BY <3>3, <3>b
      <4>3. \A i \in DOMAIN u : \/ i \in DOMAIN t /\ u[i] = t[i]
                                \/ i = Len(t) + 1 /\ u[i] = s[n + 1]
        BY <3>1
      <4> QED BY <4>1, <4>2, <4>3 DEF Distinct, Occurs
    <3>4. Right(n + 1)
      <4> QED BY <3>1, <3>2, <3>3 DEF u
    <3> HIDE DEF Right
    <3> QED BY <2>0, <3>4
  <2> QED BY <2>3, <2>4
<1>3. m \in RightOnes
  <2> HIDE DEF RightOnes
  <2> QED BY <1>0, <1>1, <1>2, SegmentInduction
<1> QED
  BY <1>3

\* Keep keeps the type, keeps exactly the elements in K, and introduces no
\* duplicates.
LEMMA KeepProperties ==
  ASSUME NEW S, NEW s \in Seq(S), NEW K
  PROVE  /\ Keep(s, K) \in Seq(S)
         /\ \A p : Occurs(Keep(s, K), p) <=> p \in K /\ Occurs(s, p)
         /\ Distinct(s) => Distinct(Keep(s, K))
<1>1. Len(s) \in Nat /\ Len(s) \in 0 .. Len(s) /\ DOMAIN s = 1 .. Len(s)
  BY LenProperties
<1>2. PICK f : IsKept(f, s, K, Len(s)) /\ Keep(s, K) = f[Len(s)]
  <2> DEFINE kept == CHOOSE f : IsKept(f, s, K, Len(s))
  <2>1. IsKept(kept, s, K, Len(s))
    BY <1>1, KeptExists
  <2>2. Keep(s, K) = kept[Len(s)]
    BY DEF Keep, IsKept
  <2> HIDE DEF kept
  <2> QED BY <2>1, <2>2
<1>3. \A p : Occurs(s, p) <=> \E i \in 1 .. Len(s) : s[i] = p
  BY <1>1 DEF Occurs
<1>4. /\ f[Len(s)] \in Seq(S)
      /\ \A p : Occurs(f[Len(s)], p) <=> p \in K /\ \E i \in 1 .. Len(s) : s[i] = p
      /\ Distinct(s) => Distinct(f[Len(s)])
  <2> DEFINE m == Len(s)
  <2>1. m \in 0 .. Len(s) /\ IsKept(f, s, K, Len(s))
    BY <1>1, <1>2
  <2> HIDE DEF m
  <2>2. /\ f[m] \in Seq(S)
        /\ \A p : Occurs(f[m], p) <=> p \in K /\ \E i \in 1 .. m : s[i] = p
        /\ Distinct(s) => Distinct(f[m])
    BY <2>1, KeptProperties
  <2> QED BY <2>2 DEF m
<1> QED
  BY <1>2, <1>3, <1>4

\* LL_REMOVE removes v and nothing else.
LEMMA RemoveProperties ==
  ASSUME NEW S, NEW s \in Seq(S), NEW v
  PROVE  /\ LL_REMOVE(s, v) \in Seq(S)
         /\ \A p : Occurs(LL_REMOVE(s, v), p) <=> p # v /\ Occurs(s, p)
         /\ Distinct(s) => Distinct(LL_REMOVE(s, v))
<1> DEFINE K == {s[i] : i \in DOMAIN s} \ {v}
<1>1. LL_REMOVE(s, v) = Keep(s, K)
  BY DEF LL_REMOVE
<1>2. \A p : p \in K /\ Occurs(s, p) <=> p # v /\ Occurs(s, p)
  BY DEF Occurs
<1> HIDE DEF K
<1> QED
  BY <1>1, <1>2, KeepProperties

-----------------------------------------------------------------------------
(* LL_PUSH_BACK and the concatenation of lists in copy_queue. *)

\* Pushing v at the back adds v and nothing else.
LEMMA PushBackProperties ==
  ASSUME NEW S, NEW s \in Seq(S), NEW v \in S
  PROVE  /\ Append(s, v) \in Seq(S)
         /\ \A p : Occurs(Append(s, v), p) <=> Occurs(s, p) \/ p = v
         /\ Distinct(s) /\ ~ Occurs(s, v) => Distinct(Append(s, v))
<1> DEFINE t == Append(s, v)
<1>1. /\ t \in Seq(S) /\ Len(s) \in Nat /\ DOMAIN s = 1 .. Len(s)
      /\ DOMAIN t = 1 .. Len(s) + 1
      /\ \A i \in 1 .. Len(s) : t[i] = s[i]
      /\ t[Len(s) + 1] = v
  BY AppendProperties, LenProperties
<1> HIDE DEF t
<1>2. \A i \in DOMAIN t : \/ i \in DOMAIN s /\ t[i] = s[i]
                          \/ i = Len(s) + 1 /\ t[i] = v
  BY <1>1
<1>3. \A i \in DOMAIN s : i \in DOMAIN t /\ t[i] = s[i]
  BY <1>1
<1>4. Len(s) + 1 \in DOMAIN t
  BY <1>1
<1>5. \A p : Occurs(t, p) <=> Occurs(s, p) \/ p = v
  BY <1>1, <1>2, <1>3, <1>4 DEF Occurs
<1>6. Distinct(s) /\ ~ Occurs(s, v) => Distinct(t)
  BY <1>2 DEF Occurs, Distinct
<1> QED
  BY <1>1, <1>5, <1>6 DEF t

\* Concatenation joins the elements; it is free of duplicates if its parts are
\* and share nothing.
LEMMA ConcatOccurs ==
  ASSUME NEW S, NEW s \in Seq(S), NEW t \in Seq(S)
  PROVE  /\ s \o t \in Seq(S)
         /\ \A p : Occurs(s \o t, p) <=> Occurs(s, p) \/ Occurs(t, p)
         /\ Distinct(s) /\ Distinct(t) /\ (\A p : ~ (Occurs(s, p) /\ Occurs(t, p)))
              => Distinct(s \o t)
<1> DEFINE u == s \o t
           m == Len(s)
<1>1. /\ u \in Seq(S) /\ m \in Nat /\ Len(t) \in Nat
      /\ DOMAIN s = 1 .. m /\ DOMAIN t = 1 .. Len(t) /\ DOMAIN u = 1 .. m + Len(t)
      /\ \A i \in 1 .. m + Len(t) : u[i] = IF i <= m THEN s[i] ELSE t[i - m]
  BY ConcatProperties, LenProperties
<1> HIDE DEF u, m
<1>2. \A i \in DOMAIN u : \/ i \in DOMAIN s /\ u[i] = s[i]
                          \/ i > m /\ i - m \in DOMAIN t /\ u[i] = t[i - m]
  BY <1>1
<1>3. \A i \in DOMAIN s : i \in DOMAIN u /\ u[i] = s[i]
  BY <1>1
<1>4. \A i \in DOMAIN t : m + i \in DOMAIN u /\ u[m + i] = t[i]
  <2>1. \A i \in DOMAIN t : m + i \in 1 .. m + Len(t) /\ ~ (m + i <= m) /\ (m + i) - m = i
    BY <1>1
  <2> QED BY <1>1, <2>1
<1>5. \A p : Occurs(u, p) <=> Occurs(s, p) \/ Occurs(t, p)
  BY <1>2, <1>3, <1>4 DEF Occurs
<1>6. ASSUME Distinct(s), Distinct(t), \A p : ~ (Occurs(s, p) /\ Occurs(t, p)),
             NEW i \in DOMAIN u, NEW j \in DOMAIN u, u[i] = u[j]
      PROVE  i = j
  <2>1. CASE i \in DOMAIN s /\ u[i] = s[i] /\ j \in DOMAIN s /\ u[j] = s[j]
    BY <1>6, <2>1 DEF Distinct
  <2>2. CASE i - m \in DOMAIN t /\ u[i] = t[i - m] /\ j - m \in DOMAIN t /\ u[j] = t[j - m]
    <3>1. i - m = j - m
      BY <1>6, <2>2 DEF Distinct
    <3> QED BY <1>1, <3>1
  <2>3. ~ (i \in DOMAIN s /\ u[i] = s[i] /\ j - m \in DOMAIN t /\ u[j] = t[j - m])
    BY <1>6 DEF Occurs
  <2>4. ~ (j \in DOMAIN s /\ u[j] = s[j] /\ i - m \in DOMAIN t /\ u[i] = t[i - m])
    BY <1>6 DEF Occurs
  <2> QED BY <1>2, <2>1, <2>2, <2>3, <2>4
<1> QED
  BY <1>1, <1>5, <1>6 DEF u, Distinct

-----------------------------------------------------------------------------
(* Queues: what Holds says through push, remove and change of priority. *)

LEMMA PrioritiesFact ==
  /\ Priorities \subseteq Nat
  /\ HIGHEST \in Priorities /\ NULL_PRIO \in Priorities /\ IPROC_PRIO \in Priorities
  /\ \A i \in Priorities : HIGHEST <= i /\ i < NUM_PRIORITIES
  /\ 0 .. NULL_PRIO \subseteq Priorities
  /\ NULL_PRIO \in Nat \ {0}
BY PriorityAssumption DEF Priorities, HIGHEST, IPROC_PRIO, NUM_PRIORITIES

Queues == [Priorities -> Seq(Procs)]

\* A process that was in no list is in exactly the right one after a push.
LEMMA PushHolds ==
  ASSUME NEW q \in Queues, NEW mp \in [Procs -> Priorities], NEW S, NEW p \in Procs \ S,
         Holds(q, mp, S)
  PROVE  /\ push_process(q, p, mp[p]) \in Queues
         /\ Holds(push_process(q, p, mp[p]), mp, S \cup {p})
<1> DEFINE r == push_process(q, p, mp[p])
<1>1. /\ r \in Queues
      /\ r[mp[p]] = Append(q[mp[p]], p)
      /\ \A i \in Priorities : i # mp[p] => r[i] = q[i]
  <2>1. q[mp[p]] \in Seq(Procs) /\ Append(q[mp[p]], p) \in Seq(Procs)
    BY PushBackProperties DEF Queues
  <2> QED BY <2>1 DEF Queues, push_process
<1> HIDE DEF r
<1>2. ~ Occurs(q[mp[p]], p)
  BY DEF Holds, InList
<1>3. /\ \A x : Occurs(r[mp[p]], x) <=> Occurs(q[mp[p]], x) \/ x = p
      /\ Distinct(r[mp[p]])
  <2>1. q[mp[p]] \in Seq(Procs) /\ Distinct(q[mp[p]])
    BY DEF Queues, Holds, NoDuplicates
  <2> QED BY <1>1, <1>2, <2>1, PushBackProperties
<1>4. NoDuplicates(r)
  BY <1>1, <1>3 DEF Holds, NoDuplicates
<1>5. \A x \in Procs : \A i \in Priorities :
        InList(r, i, x) <=> x \in S \cup {p} /\ i = mp[x]
  BY <1>1, <1>3 DEF Holds, InList
<1> QED
  BY <1>1, <1>4, <1>5 DEF Holds, r

\* A process that is removed from the list of its priority is in none.
LEMMA RemoveHolds ==
  ASSUME NEW q \in Queues, NEW mp \in [Procs -> Priorities], NEW S, NEW p \in Procs,
         Holds(q, mp, S)
  PROVE  /\ [q EXCEPT ![mp[p]] = LL_REMOVE(@, p)] \in Queues
         /\ Holds([q EXCEPT ![mp[p]] = LL_REMOVE(@, p)], mp, S \ {p})
<1> DEFINE r == [q EXCEPT ![mp[p]] = LL_REMOVE(@, p)]
<1>0. /\ q[mp[p]] \in Seq(Procs) /\ LL_REMOVE(q[mp[p]], p) \in Seq(Procs)
      /\ \A x : Occurs(LL_REMOVE(q[mp[p]], p), x) <=> x # p /\ Occurs(q[mp[p]], x)
      /\ Distinct(LL_REMOVE(q[mp[p]], p))
  <2>1. q[mp[p]] \in Seq(Procs) /\ Distinct(q[mp[p]])
    BY DEF Queues, Holds, NoDuplicates
  <2> QED BY <2>1, RemoveProperties
<1>1. /\ r \in Queues
      /\ r[mp[p]] = LL_REMOVE(q[mp[p]], p)
      /\ \A i \in Priorities : i # mp[p] => r[i] = q[i]
  BY <1>0 DEF Queues
<1> HIDE DEF r
<1>2. NoDuplicates(r)
  BY <1>0, <1>1 DEF Holds, NoDuplicates
<1>3. \A x \in Procs : \A i \in Priorities :
        InList(r, i, x) <=> x \in S \ {p} /\ i = mp[x]
  BY <1>0, <1>1 DEF Holds, InList
<1> QED
  BY <1>1, <1>2, <1>3 DEF Holds, r

\* change_priority moves a queued process with its priority, and leaves the
\* queue alone if the process is not in it.
LEMMA ChangeHolds ==
  ASSUME NEW q \in Queues, NEW mp \in [Procs -> Priorities], NEW S, NEW p \in Procs,
         NEW to \in Priorities, Holds(q, mp, S)
  PROVE  /\ change_priority(q, p, mp[p], to) \in Queues
         /\ Holds(change_priority(q, p, mp[p], to), [mp EXCEPT ![p] = to], S)
<1> DEFINE np == [mp EXCEPT ![p] = to]
<1>0. /\ np \in [Procs -> Priorities] /\ np[p] = to
      /\ \A x \in Procs : x # p => np[x] = mp[x]
  OBVIOUS
<1> HIDE DEF np
<1>1. CASE Occurs(q[mp[p]], p)
  <2> DEFINE r == [q EXCEPT ![mp[p]] = LL_REMOVE(@, p)]
  <2>1. r \in Queues /\ Holds(r, mp, S \ {p}) /\ p \in S
    <3>1. p \in S
      BY <1>1 DEF Holds, InList
    <3> QED BY <3>1, RemoveHolds
  <2>2. change_priority(q, p, mp[p], to) = push_process(r, p, np[p])
    BY <1>0, <1>1 DEF change_priority
  <2> HIDE DEF r
  <2>3. Holds(r, np, S \ {p})
    BY <1>0, <2>1 DEF Holds
  <2>4. /\ push_process(r, p, np[p]) \in Queues
        /\ Holds(push_process(r, p, np[p]), np, (S \ {p}) \cup {p})
    <3>1. p \in Procs \ (S \ {p})
      OBVIOUS
    <3> QED BY <1>0, <2>1, <2>3, <3>1, PushHolds
  <2>5. (S \ {p}) \cup {p} = S
    BY <2>1
  <2> QED BY <2>2, <2>4, <2>5 DEF np
<1>2. CASE ~ Occurs(q[mp[p]], p)
  <2>1. change_priority(q, p, mp[p], to) = q
    BY <1>2 DEF change_priority
  <2>2. p \notin S
    BY <1>2 DEF Holds, InList
  <2>3. Holds(q, np, S)
    BY <1>0, <2>2 DEF Holds
  <2> QED BY <2>1, <2>3 DEF np
<1> QED
  BY <1>1, <1>2

-----------------------------------------------------------------------------
(* peek_front and pop_first_process. *)

\* What peek_front promises of a queue that holds the set S: nothing to find
\* when S is empty, else a member of S with the best priority of S.
PeekOK(front, mp, S) ==
  \/ S = {} /\ front.pid = PID_NONE /\ front.prio = NUM_PRIORITIES
  \/ /\ front.pid \in S
     /\ \/ front.prio = mp[front.pid]
        \/ front.prio = -1 /\ mp[front.pid] = HIGHEST
     /\ \A p \in S : mp[front.pid] <= mp[p]

LEMMA PeekProperties ==
  ASSUME NEW q \in Queues, NEW mp \in [Procs -> Priorities], NEW S \in SUBSET Procs,
         Holds(q, mp, S)
  PROVE  PeekOK(peek_front(q, mp), mp, S)
<1> DEFINE front == peek_front(q, mp)
           urgent == {i \in DOMAIN q[HIGHEST] : q[HIGHEST][i] \in {PID_KCD, PID_CRT}}
           levels == {i \in Priorities : q[i] # << >>}
<1>0. \A i \in Priorities : q[i] \in Seq(Procs) /\ Len(q[i]) \in Nat
                            /\ DOMAIN q[i] = 1 .. Len(q[i])
  BY LenProperties DEF Queues
<1>1. CASE urgent # {}
  <2> DEFINE n == Smallest(urgent)
             pid == q[HIGHEST][n]
  <2>1. n \in DOMAIN q[HIGHEST]
    <3>1. urgent \subseteq Nat
      BY <1>0, PrioritiesFact
    <3> HIDE DEF urgent
    <3>2. n \in urgent
      BY <1>1, <3>1, SmallestExists
    <3> QED BY <3>2 DEF urgent
  <2>2. front.pid = pid /\ front.prio = -1
    BY <1>1 DEF peek_front
  <2> HIDE DEF n, front
  <2>3. pid \in Procs /\ InList(q, HIGHEST, pid)
    <3>1. q[HIGHEST] \in Seq(Procs) /\ DOMAIN q[HIGHEST] = 1 .. Len(q[HIGHEST])
      BY <1>0, PrioritiesFact
    <3>2. pid \in Procs
      BY <2>1, <3>1, ElementOfSeq
    <3> QED BY <2>1, <3>2 DEF InList, Occurs
  <2> HIDE DEF pid
  <2>4. pid \in S /\ mp[pid] = HIGHEST
    BY <2>3, PrioritiesFact DEF Holds
  <2>5. \A p \in S : mp[pid] <= mp[p]
    BY <2>4, PrioritiesFact
  <2> QED BY <2>2, <2>4, <2>5 DEF PeekOK, front
<1>2. CASE urgent = {} /\ levels # {}
  <2> DEFINE i == Smallest(levels)
             pid == Head(q[i])
  <2>1. i \in levels /\ \A j \in levels : i <= j
    <3>1. levels \subseteq Nat
      BY PrioritiesFact
    <3> HIDE DEF levels
    <3> QED BY <1>2, <3>1, SmallestExists
  <2>2. front.pid = pid /\ front.prio = mp[pid]
    BY <1>2 DEF peek_front
  <2> HIDE DEF i, front
  <2>3. i \in Priorities /\ q[i] # << >>
    BY <2>1
  <2>4. pid \in Procs /\ InList(q, i, pid)
    <3>1. pid = q[i][1] /\ 1 \in DOMAIN q[i] /\ q[i][1] \in Procs
      BY <1>0, <2>3, EmptySeq, ElementOfSeq
    <3> QED BY <3>1 DEF InList, Occurs
  <2>5. pid \in S /\ mp[pid] = i
    BY <2>3, <2>4 DEF Holds
  <2>6. ASSUME NEW p \in S PROVE i <= mp[p]
    <3>1. mp[p] \in Priorities /\ Occurs(q[mp[p]], p)
      BY <2>6 DEF Holds, InList
    <3>2. q[mp[p]] # << >>
      BY <3>1, EmptySeq, LenProperties DEF Occurs
    <3> QED BY <2>1, <3>1, <3>2
  <2> HIDE DEF pid
  <2>7. \A p \in S : mp[pid] <= mp[p]
    BY <2>5, <2>6
  <2>8. PeekOK(front, mp, S)
    BY <2>2, <2>5, <2>7 DEF PeekOK
  <2> QED BY <2>8 DEF front
<1>3. CASE urgent = {} /\ levels = {}
  <2>1. front = [pid |-> PID_NONE, prio |-> NUM_PRIORITIES]
    BY <1>3 DEF peek_front
  <2>2. ASSUME NEW p \in S PROVE FALSE
    <3>1. mp[p] \in Priorities /\ Occurs(q[mp[p]], p)
      BY <2>2 DEF Holds, InList
    <3>2. q[mp[p]] # << >>
      BY <3>1, EmptySeq, LenProperties DEF Occurs
    <3> QED BY <1>3, <3>1, <3>2
  <2> HIDE DEF front
  <2> QED BY <2>1, <2>2 DEF PeekOK, front
<1> QED
  BY <1>1, <1>2, <1>3

\* Popping what peek_front found takes exactly that process out of the queue.
LEMMA PopHolds ==
  ASSUME NEW q \in Queues, NEW mp \in [Procs -> Priorities], NEW S \in SUBSET Procs,
         Holds(q, mp, S), NEW front, PeekOK(front, mp, S)
  PROVE  /\ AfterPop(q, front) \in Queues
         /\ Holds(AfterPop(q, front), mp, S \ {front.pid})
<1>1. CASE S = {} /\ front.pid = PID_NONE /\ front.prio = NUM_PRIORITIES
  <2>1. AfterPop(q, front) = q
    BY <1>1 DEF AfterPop
  <2> QED BY <1>1, <2>1
<1>2. CASE /\ front.pid \in S
           /\ \/ front.prio = mp[front.pid]
              \/ front.prio = -1 /\ mp[front.pid] = HIGHEST
  <2>1. front.pid \in Procs /\ front.pid # PID_NONE /\ mp[front.pid] \in Priorities
    BY <1>2, PidAssumption
  <2>2. mp[front.pid] # -1
    BY <2>1, PrioritiesFact
  <2>3. AfterPop(q, front) = [q EXCEPT ![mp[front.pid]] = LL_REMOVE(@, front.pid)]
    BY <1>2, <2>1, <2>2 DEF AfterPop
  <2> DEFINE p == front.pid
             r == [q EXCEPT ![mp[p]] = LL_REMOVE(@, p)]
  <2> HIDE DEF p
  <2>4. p \in Procs
    BY <2>1 DEF p
  <2>5. r \in Queues /\ Holds(r, mp, S \ {p})
    BY <2>4, RemoveHolds
  <2>6. AfterPop(q, front) = r
    BY <2>3 DEF p
  <2> QED BY <2>5, <2>6 DEF p
<1> QED
  BY <1>1, <1>2 DEF PeekOK

-----------------------------------------------------------------------------
(* k_release_processor and k_check_preemption. *)

\* The processes that belong in the ready queue and in the blocked queue, and
\* the rule for RUN, with process o left out: o is the process that is running
\* or about to lose the processor.
ReadyBut(k, o) ==
  {p \in Procs \ {o} : \/ k.m_state[p] = RDY
                       \/ k.m_state[p] = NEW_ /\ p \notin IProcs}
BlockedBut(k, o) == {p \in Procs \ {o} : k.m_state[p] = BLOCKED_ON_RESOURCE}

Consistent(k, o) ==
  /\ Holds(k.ready, k.m_priority, ReadyBut(k, o))
  /\ Holds(k.blocked, k.m_priority, BlockedBut(k, o))
  /\ \A p \in Procs \ {o} : k.m_state[p] # RUN

\* What else is true of the PCBs: the null process never blocks and is the only
\* process of NULL_PRIO, and the i-processes never start.
PcbInv(k) ==
  /\ k.m_state[PID_NULL] \notin {BLOCKED_ON_RESOURCE, BLOCKED_ON_RECEIVE}
  /\ \A p \in IProcs : k.m_state[p] = NEW_
  /\ \A p \in Procs \ IProcs : p # PID_NULL => k.m_priority[p] < NULL_PRIO
  /\ k.running \notin IProcs

\* The invariant of the scheduler's state, between kernel calls.
SchedInv(k) == SchedulerTypeOK(k) /\ QueuesMatchStates(k) /\ PcbInv(k)

\* No ready process has a better priority than the one that runs.
BestRuns(k) ==
  \A p \in Procs : InQueue(k.ready, p) => k.m_priority[k.running] <= k.m_priority[p]

LEMMA StatesDistinct ==
  /\ NEW_ # RDY /\ NEW_ # RUN /\ NEW_ # BLOCKED_ON_RESOURCE /\ NEW_ # BLOCKED_ON_RECEIVE
  /\ RDY # RUN /\ RDY # BLOCKED_ON_RESOURCE /\ RDY # BLOCKED_ON_RECEIVE
  /\ RUN # BLOCKED_ON_RESOURCE /\ RUN # BLOCKED_ON_RECEIVE
  /\ BLOCKED_ON_RESOURCE # BLOCKED_ON_RECEIVE
  /\ {NEW_, RDY, RUN, BLOCKED_ON_RESOURCE, BLOCKED_ON_RECEIVE} = ProcStates
BY DEF NEW_, RDY, RUN, BLOCKED_ON_RESOURCE, BLOCKED_ON_RECEIVE, ProcStates

\* The queues match the states exactly if they do without the running process
\* and that one is in state RUN.
LEMMA ConsistentRunning ==
  ASSUME NEW k, SchedulerTypeOK(k)
  PROVE  QueuesMatchStates(k) <=>
           /\ Consistent(k, k.running)
           /\ k.running # PID_NONE => k.m_state[k.running] = RUN
<1> DEFINE o == k.running
           R == {p \in Procs : \/ k.m_state[p] = RDY
                               \/ k.m_state[p] = NEW_ /\ p \notin IProcs}
           B == {p \in Procs : k.m_state[p] = BLOCKED_ON_RESOURCE}
<1>1. o \in Procs \cup {PID_NONE} /\ (o = PID_NONE <=> o \notin Procs)
  BY PidAssumption DEF SchedulerTypeOK
<1>2. ASSUME o # PID_NONE => k.m_state[o] = RUN
      PROVE  R = ReadyBut(k, o) /\ B = BlockedBut(k, o)
  <2>1. \A p \in R : p # o
    BY <1>1, <1>2, StatesDistinct
  <2>2. \A p \in B : p # o
    BY <1>1, <1>2, StatesDistinct
  <2> QED BY <2>1, <2>2 DEF ReadyBut, BlockedBut
<1>3. ASSUME QueuesMatchStates(k) PROVE o # PID_NONE => k.m_state[o] = RUN
  BY <1>1, <1>3 DEF QueuesMatchStates
<1>4. ASSUME QueuesMatchStates(k) PROVE Consistent(k, o)
  <2>1. \A p \in Procs \ {o} : k.m_state[p] # RUN
    BY <1>4 DEF QueuesMatchStates
  <2>2. R = ReadyBut(k, o) /\ B = BlockedBut(k, o)
    BY <1>2, <1>3, <1>4
  <2> QED BY <1>4, <2>1, <2>2 DEF QueuesMatchStates, Consistent
<1>5. ASSUME Consistent(k, o), o # PID_NONE => k.m_state[o] = RUN
      PROVE  QueuesMatchStates(k)
  <2>1. R = ReadyBut(k, o) /\ B = BlockedBut(k, o)
    BY <1>2, <1>5
  <2>2. \A p \in Procs : k.m_state[p] = RUN <=> p = o
    BY <1>1, <1>5 DEF Consistent
  <2> QED BY <1>5, <2>1, <2>2 DEF QueuesMatchStates, Consistent
<1> QED
  BY <1>3, <1>4, <1>5

\* From k to r, no process gets blocked and none becomes NEW.
Unblocking(k, r) ==
  \A p \in Procs : /\ r.m_state[p] = BLOCKED_ON_RESOURCE => k.m_state[p] = BLOCKED_ON_RESOURCE
                   /\ r.m_state[p] = BLOCKED_ON_RECEIVE => k.m_state[p] = BLOCKED_ON_RECEIVE
                   /\ r.m_state[p] = NEW_ => k.m_state[p] = NEW_

\* k_release_processor, called by a process that runs or has just set its state
\* to blocked, or at boot: the queues match the states again, and the best
\* ready process runs.
LEMMA ReleaseProcessorProperties ==
  ASSUME NEW k, SchedulerTypeOK(k), Consistent(k, k.running), PcbInv(k),
         k.running # PID_NONE =>
           k.m_state[k.running] \in {RUN, BLOCKED_ON_RESOURCE, BLOCKED_ON_RECEIVE}
  PROVE  /\ SchedInv(k_release_processor(k))
         /\ k_release_processor(k).running # PID_NONE
         /\ BestRuns(k_release_processor(k))
         /\ Unblocking(k, k_release_processor(k))
<1> DEFINE o == k.running
           mp == k.m_priority
           ms == k.m_state
           front == peek_front(k.ready, mp)
           pid == front.pid
           S == ReadyBut(k, o)
           r == k_release_processor(k)
<1>0. /\ o \in Procs \cup {PID_NONE} /\ (o = PID_NONE <=> o \notin Procs)
      /\ mp \in [Procs -> Priorities] /\ ms \in [Procs -> ProcStates]
      /\ k.ready \in Queues /\ k.blocked \in Queues
      /\ k = [running |-> o, m_state |-> ms, m_priority |-> mp,
              ready |-> k.ready, blocked |-> k.blocked]
  BY PidAssumption DEF SchedulerTypeOK, Queues
<1>1. S \in SUBSET Procs /\ Holds(k.ready, mp, S) /\ Holds(k.blocked, mp, BlockedBut(k, o))
  BY DEF ReadyBut, Consistent
<1>2. PeekOK(front, mp, S)
  BY <1>0, <1>1, PeekProperties
<1>3. /\ AfterPop(k.ready, front) \in Queues
      /\ Holds(AfterPop(k.ready, front), mp, S \ {pid})
  BY <1>0, <1>1, <1>2, PopHolds
<1>4. CASE o # PID_NONE /\ front.prio > mp[o] /\ ms[o] = RUN
  <2>1. r = k
    BY <1>4, StatesDistinct DEF k_release_processor, scheduler
  <2>2. SchedInv(k)
    BY <1>4, ConsistentRunning DEF SchedInv
  <2>3. BestRuns(k)
    <3>1. ASSUME NEW p \in Procs, InQueue(k.ready, p) PROVE mp[o] <= mp[p]
      <4>1. p \in S
        BY <1>1, <3>1 DEF Holds, InQueue
      <4>2. front.prio <= mp[p]
        BY <1>0, <1>2, <4>1, PrioritiesFact DEF PeekOK
      <4>3. mp[o] \in Nat /\ mp[p] \in Nat /\ front.prio \in Int
        <5> HIDE DEF front
        <5>1. front.pid \in S
          BY <1>2, <4>1 DEF PeekOK
        <5>2. front.prio \in Priorities \cup {-1}
          BY <1>0, <1>1, <1>2, <5>1, PrioritiesFact DEF PeekOK
        <5> QED BY <1>0, <1>4, <5>2, PrioritiesFact
      <4> QED BY <1>4, <4>2, <4>3
    <3> QED BY <3>1 DEF BestRuns
  <2> QED BY <1>4, <2>1, <2>2, <2>3 DEF Unblocking
<1>5. CASE ~ (o # PID_NONE /\ front.prio > mp[o] /\ ms[o] = RUN)
  <2>1. pid \in S /\ pid # o /\ pid \in Procs /\ pid # PID_NONE /\ ms[pid] \in {NEW_, RDY}
        /\ pid \notin IProcs
    <3>1. S # {}
      <4>1. CASE o = PID_NULL
        <5>1. ms[o] = RUN /\ mp[o] \in Priorities
          BY <1>0, <4>1, PidAssumption DEF PcbInv
        <5>2. front.prio # NUM_PRIORITIES
          BY <1>5, <4>1, <5>1, PidAssumption, PrioritiesFact
        <5> QED BY <1>2, <5>2 DEF PeekOK
      <4>2. CASE o # PID_NULL
        <5>1. PID_NULL \in Procs \ IProcs /\ ms[PID_NULL] \in {NEW_, RDY}
          BY <1>0, <4>2, PidAssumption, StatesDistinct DEF PcbInv, Consistent
        <5> QED BY <4>2, <5>1 DEF ReadyBut
      <4> QED BY <4>1, <4>2
    <3>2. pid \in S
      BY <1>2, <3>1 DEF PeekOK
    <3>3. ms[pid] \in {NEW_, RDY} /\ pid \notin IProcs
      BY <3>2, StatesDistinct DEF ReadyBut, PcbInv
    <3> QED BY <3>2, <3>3, PidAssumption DEF ReadyBut
  <2> DEFINE popped == AfterPop(k.ready, front)
             runs(m) == [m EXCEPT ![pid] = RUN]
  <2>2. scheduler(k) = [running |-> pid, m_state |-> ms, m_priority |-> mp,
                        ready |-> popped, blocked |-> k.blocked]
    <3>1. scheduler(k) = [k EXCEPT !.running = pid, !.ready = popped]
      BY <1>5, <2>1, StatesDistinct DEF scheduler
    <3> QED BY <1>0, <3>1
  <2> HIDE DEF front
  <2>3. r = process_switch(Park(scheduler(k), o), o)
    BY <2>1, <2>2 DEF k_release_processor
  <2>4. \A p \in S : mp[pid] <= mp[p]
    BY <1>2, <2>1, PidAssumption DEF PeekOK
  <2>5. CASE o # PID_NONE /\ ms[o] = RUN
    <3> DEFINE q == push_process(popped, o, mp[o])
    <3>0. o \in Procs /\ o \notin S \ {pid} /\ o # PID_NONE /\ o \notin BlockedBut(k, o)
      BY <1>0, <2>5 DEF ReadyBut, BlockedBut
    <3>1. q \in Queues /\ Holds(q, mp, (S \ {pid}) \cup {o})
      BY <1>0, <1>3, <3>0, PushHolds
    <3>2. r = [running |-> pid, m_state |-> runs([ms EXCEPT ![o] = RDY]), m_priority |-> mp,
               ready |-> q, blocked |-> k.blocked]
      <4> HIDE DEF q
      <4>1. Park(scheduler(k), o) =
              [running |-> pid, m_state |-> [ms EXCEPT ![o] = RDY], m_priority |-> mp,
               ready |-> q, blocked |-> k.blocked]
        <5> DEFINE c == scheduler(k)
        <5>1. c.m_state = ms /\ c.m_priority = mp /\ c.ready = popped
          BY <2>2
        <5> HIDE DEF c
        <5>2. Park(c, o) = [c EXCEPT !.m_state[o] = RDY, !.ready = push_process(@, o, mp[o])]
          BY <2>5, <3>0, <5>1, StatesDistinct DEF Park
        <5>3. Park(c, o) = [c EXCEPT !.m_state = [ms EXCEPT ![o] = RDY], !.ready = q]
          BY <5>1, <5>2 DEF q
        <5>4. c = [running |-> pid, m_state |-> ms, m_priority |-> mp,
                   ready |-> popped, blocked |-> k.blocked]
          BY <2>2 DEF c
        <5> DEFINE nms == [ms EXCEPT ![o] = RDY]
        <5> HIDE DEF q, nms, pid, popped
        <5>5. Park(c, o) = [running |-> pid, m_state |-> nms, m_priority |-> mp,
                            ready |-> q, blocked |-> k.blocked]
          BY <5>3, <5>4 DEF nms
        <5> QED BY <5>5 DEF c, nms
      <4>2. [ms EXCEPT ![o] = RDY][pid] \in {NEW_, RDY}
        BY <1>0, <2>1
      <4> HIDE DEF pid
      <4> QED BY <2>3, <4>1, <4>2 DEF process_switch
    <3> DEFINE st == r.m_state
    <3>3. /\ st \in [Procs -> ProcStates] /\ st[pid] = RUN /\ st[o] = RDY
          /\ \A p \in Procs : p # pid /\ p # o => st[p] = ms[p]
      BY <1>0, <2>1, <3>0, <3>2, StatesDistinct
    <3>4. r.running = pid /\ r.m_priority = mp /\ r.ready = q /\ r.blocked = k.blocked
      BY <3>2
    <3>5. SchedulerTypeOK(r)
      <4>1. r = [running |-> pid, m_state |-> st, m_priority |-> mp,
                 ready |-> q, blocked |-> k.blocked]
        BY <3>2
      <4> HIDE DEF r, st, q, pid
      <4> QED BY <1>0, <2>1, <3>1, <3>3, <4>1 DEF SchedulerTypeOK, Queues
    <3> HIDE DEF r, st, q, pid
    <3>6. ReadyBut(r, pid) = (S \ {pid}) \cup {o}
      BY <2>1, <3>0, <3>3 DEF ReadyBut, st
    <3>7. BlockedBut(r, pid) = BlockedBut(k, o)
      BY <1>0, <2>1, <3>0, <3>3, StatesDistinct DEF BlockedBut, st
    <3>8. \A p \in Procs \ {pid} : r.m_state[p] # RUN
      BY <3>3, StatesDistinct DEF Consistent, st
    <3>9. Consistent(r, r.running)
      BY <1>1, <3>1, <3>4, <3>6, <3>7, <3>8 DEF Consistent
    <3>10. PcbInv(r)
      BY <1>0, <2>1, <3>0, <3>3, <3>4, PidAssumption, StatesDistinct DEF PcbInv, st
    <3>11. BestRuns(r)
      <4>1. ASSUME NEW p \in Procs, InQueue(r.ready, p) PROVE mp[pid] <= mp[p]
        <5>1. p \in S \/ p = o
          BY <3>1, <3>4, <4>1 DEF Holds, InQueue
        <5>2. mp[pid] <= mp[o]
          BY <1>0, <1>2, <1>5, <2>1, <2>5, <3>0, PrioritiesFact DEF PeekOK, pid
        <5> QED BY <2>4, <5>1, <5>2
      <4> QED BY <3>4, <4>1 DEF BestRuns
    <3>12. Unblocking(k, r)
      BY <3>0, <3>3, <3>4, StatesDistinct DEF Unblocking, st
    <3> QED BY <2>1, <3>3, <3>4, <3>5, <3>9, <3>10, <3>11, <3>12, ConsistentRunning
            DEF SchedInv, r, st
  <2>6. CASE o # PID_NONE /\ ms[o] = BLOCKED_ON_RESOURCE
    <3> DEFINE q == push_process(k.blocked, o, mp[o])
    <3>0. o \in Procs /\ o \notin S /\ o # PID_NONE /\ o \notin BlockedBut(k, o)
      BY <1>0, <2>6 DEF ReadyBut, BlockedBut
    <3>1. q \in Queues /\ Holds(q, mp, BlockedBut(k, o) \cup {o})
      BY <1>0, <1>1, <3>0, PushHolds
    <3>2. r = [running |-> pid, m_state |-> runs(ms), m_priority |-> mp,
               ready |-> popped, blocked |-> q]
      <4> HIDE DEF q
      <4>1. Park(scheduler(k), o) =
              [running |-> pid, m_state |-> ms, m_priority |-> mp,
               ready |-> popped, blocked |-> q]
        BY <2>2, <2>6, <3>0, StatesDistinct DEF Park, q
      <4> HIDE DEF pid
      <4> QED BY <2>1, <2>3, <4>1 DEF process_switch
    <3> DEFINE st == r.m_state
    <3>3. /\ st \in [Procs -> ProcStates] /\ st[pid] = RUN
          /\ \A p \in Procs : p # pid => st[p] = ms[p]
      BY <1>0, <2>1, <3>2, StatesDistinct
    <3>4. r.running = pid /\ r.m_priority = mp /\ r.ready = popped /\ r.blocked = q
      BY <3>2
    <3>5. SchedulerTypeOK(r)
      BY <1>0, <1>3, <2>1, <3>1, <3>2, <3>3 DEF SchedulerTypeOK, Queues
    <3> HIDE DEF r, st, q, pid, popped
    <3>6. ReadyBut(r, pid) = S \ {pid}
      BY <2>6, <3>0, <3>3, StatesDistinct DEF ReadyBut, st
    <3>7. BlockedBut(r, pid) = BlockedBut(k, o) \cup {o}
      BY <1>0, <2>1, <2>6, <3>0, <3>3, StatesDistinct DEF BlockedBut, st
    <3>8. \A p \in Procs \ {pid} : r.m_state[p] # RUN
      BY <2>6, <3>3, StatesDistinct DEF Consistent, st
    <3>9. Consistent(r, r.running)
      BY <1>3, <3>1, <3>4, <3>6, <3>7, <3>8 DEF Consistent, popped, pid
    <3>10. PcbInv(r)
      BY <1>0, <2>1, <3>0, <3>3, <3>4, PidAssumption, StatesDistinct DEF PcbInv, st
    <3>11. BestRuns(r)
      BY <1>3, <2>4, <3>4 DEF BestRuns, Holds, InQueue, popped, pid
    <3>12. Unblocking(k, r)
      BY <3>0, <3>3, <3>4, StatesDistinct DEF Unblocking, st
    <3> QED BY <2>1, <3>3, <3>4, <3>5, <3>9, <3>10, <3>11, <3>12, ConsistentRunning
            DEF SchedInv, r, st
  <2>7. CASE o = PID_NONE \/ ms[o] = BLOCKED_ON_RECEIVE
    <3>0. o \notin S /\ (o \in Procs => ms[o] = BLOCKED_ON_RECEIVE)
      BY <1>0, <2>7 DEF ReadyBut
    <3>2. r = [running |-> pid, m_state |-> runs(ms), m_priority |-> mp,
               ready |-> popped, blocked |-> k.blocked]
      <4>1. Park(scheduler(k), o) = scheduler(k)
        BY <2>2, <2>7, StatesDistinct DEF Park
      <4> HIDE DEF pid
      <4> QED BY <2>1, <2>2, <2>3, <4>1 DEF process_switch
    <3> DEFINE st == r.m_state
    <3>3. /\ st \in [Procs -> ProcStates] /\ st[pid] = RUN
          /\ \A p \in Procs : p # pid => st[p] = ms[p]
      BY <1>0, <2>1, <3>2, StatesDistinct
    <3>4. r.running = pid /\ r.m_priority = mp /\ r.ready = popped /\ r.blocked = k.blocked
      BY <3>2
    <3>5. SchedulerTypeOK(r)
      BY <1>0, <1>3, <2>1, <3>2, <3>3 DEF SchedulerTypeOK, Queues
    <3> HIDE DEF r, st, pid, popped
    <3>6. ReadyBut(r, pid) = S \ {pid}
      BY <3>0, <3>3, StatesDistinct DEF ReadyBut, st
    <3>7. BlockedBut(r, pid) = BlockedBut(k, o)
      BY <1>0, <2>1, <3>0, <3>3, StatesDistinct DEF BlockedBut, st
    <3>8. \A p \in Procs \ {pid} : r.m_state[p] # RUN
      BY <3>0, <3>3, StatesDistinct DEF Consistent, st
    <3>9. Consistent(r, r.running)
      BY <1>1, <1>3, <3>4, <3>6, <3>7, <3>8 DEF Consistent, popped, pid
    <3>10. PcbInv(r)
      BY <1>0, <2>1, <3>0, <3>3, <3>4, PidAssumption, StatesDistinct DEF PcbInv, st
    <3>11. BestRuns(r)
      BY <1>3, <2>4, <3>4 DEF BestRuns, Holds, InQueue, popped, pid
    <3>12. Unblocking(k, r)
      BY <3>0, <3>3, <3>4, StatesDistinct DEF Unblocking, st
    <3> QED BY <2>1, <3>3, <3>4, <3>5, <3>9, <3>10, <3>11, <3>12, ConsistentRunning
            DEF SchedInv, r, st
  <2> QED BY <1>0, <2>5, <2>6, <2>7
<1> QED
  BY <1>4, <1>5

\* The state in which k_poll calls k_release_processor.
Polling(k, which) == [k EXCEPT !.m_state[k.running] = which]

LEMMA PollingProperties ==
  ASSUME NEW k, SchedInv(k), k.running # PID_NONE, k.running # PID_NULL,
         NEW which \in {BLOCKED_ON_RESOURCE, BLOCKED_ON_RECEIVE}
  PROVE  LET c == Polling(k, which)
         IN  /\ SchedulerTypeOK(c) /\ Consistent(c, c.running) /\ PcbInv(c)
             /\ c.m_state[k.running] = which
             /\ \A p \in Procs : p # k.running => c.m_state[p] = k.m_state[p]
             /\ c.running = k.running /\ c.ready = k.ready
<1> DEFINE o == k.running
           c == Polling(k, which)
<1>0. /\ o \in Procs
      /\ k.m_state \in [Procs -> ProcStates]
      /\ Consistent(k, o)
      /\ SchedulerTypeOK(k)
  BY ConsistentRunning DEF SchedInv, SchedulerTypeOK
<1>1. /\ c.m_state \in [Procs -> ProcStates] /\ c.m_state[o] = which
      /\ \A p \in Procs : p # o => c.m_state[p] = k.m_state[p]
      /\ c.running = o /\ c.ready = k.ready /\ c.blocked = k.blocked
      /\ c.m_priority = k.m_priority
  BY <1>0, StatesDistinct DEF SchedulerTypeOK, Polling
<1>2. SchedulerTypeOK(c)
  BY <1>0, <1>1, StatesDistinct DEF SchedulerTypeOK, Polling
<1> HIDE DEF c
<1>4. ReadyBut(c, o) = ReadyBut(k, o) /\ BlockedBut(c, o) = BlockedBut(k, o)
  BY <1>1 DEF ReadyBut, BlockedBut
<1>5. Consistent(c, c.running)
  BY <1>0, <1>1, <1>4 DEF Consistent
<1>6. PcbInv(c)
  <2>1. o \notin IProcs
    BY DEF SchedInv, PcbInv
  <2> QED BY <1>1, <2>1, PidAssumption DEF SchedInv, PcbInv
<1> QED
  BY <1>1, <1>2, <1>5, <1>6 DEF c

\* k_poll by a process other than the null process: that process and no other
\* gets blocked.
LEMMA PollProperties ==
  ASSUME NEW k, SchedInv(k), k.running # PID_NONE, k.running # PID_NULL,
         NEW which \in {BLOCKED_ON_RESOURCE, BLOCKED_ON_RECEIVE}
  PROVE  /\ SchedInv(k_poll(k, which))
         /\ k_poll(k, which).running # PID_NONE
         /\ BestRuns(k_poll(k, which))
         /\ \A p \in Procs :
              /\ k_poll(k, which).m_state[p] = BLOCKED_ON_RESOURCE =>
                   k.m_state[p] = BLOCKED_ON_RESOURCE \/ (p = k.running /\ which = BLOCKED_ON_RESOURCE)
              /\ k_poll(k, which).m_state[p] = BLOCKED_ON_RECEIVE =>
                   k.m_state[p] = BLOCKED_ON_RECEIVE \/ (p = k.running /\ which = BLOCKED_ON_RECEIVE)
              /\ k_poll(k, which).m_state[p] = NEW_ => k.m_state[p] = NEW_
<1> DEFINE o == k.running
           c == Polling(k, which)
<1>1. /\ SchedulerTypeOK(c) /\ Consistent(c, c.running) /\ PcbInv(c)
      /\ c.m_state[o] = which
      /\ \A p \in Procs : p # o => c.m_state[p] = k.m_state[p]
      /\ c.running = o
  BY PollingProperties
<1>3. k_poll(k, which) = k_release_processor(c)
  BY DEF k_poll, Polling
<1> HIDE DEF c
<1> DEFINE r == k_release_processor(c)
<1>7. SchedInv(r) /\ r.running # PID_NONE /\ BestRuns(r) /\ Unblocking(c, r)
  BY <1>1, ReleaseProcessorProperties
<1> HIDE DEF r
<1>8. ASSUME NEW p \in Procs
      PROVE  /\ r.m_state[p] = BLOCKED_ON_RESOURCE =>
                  k.m_state[p] = BLOCKED_ON_RESOURCE \/ (p = o /\ which = BLOCKED_ON_RESOURCE)
             /\ r.m_state[p] = BLOCKED_ON_RECEIVE =>
                  k.m_state[p] = BLOCKED_ON_RECEIVE \/ (p = o /\ which = BLOCKED_ON_RECEIVE)
             /\ r.m_state[p] = NEW_ => k.m_state[p] = NEW_
  BY <1>1, <1>7, StatesDistinct DEF Unblocking
<1> QED
  BY <1>3, <1>7, <1>8 DEF r

\* copy_queue and the loop over the PCBs in k_check_preemption_impl: nobody
\* waits for memory afterwards, and the processor stays where it is.
LEMMA WakeMemoryWaitersProperties ==
  ASSUME NEW k, SchedInv(k), k.running # PID_NONE
  PROVE  /\ SchedInv(WakeMemoryWaiters(k))
         /\ WakeMemoryWaiters(k).running = k.running
         /\ Unblocking(k, WakeMemoryWaiters(k))
         /\ \A p \in Procs : WakeMemoryWaiters(k).m_state[p] # BLOCKED_ON_RESOURCE
<1> DEFINE o == k.running
           w == WakeMemoryWaiters(k)
           mp == k.m_priority
           R == ReadyBut(k, o)
           B == BlockedBut(k, o)
           joined == [i \in Priorities |-> k.ready[i] \o k.blocked[i]]
           none == [i \in Priorities |-> << >>]
<1>0. /\ o \in Procs /\ SchedulerTypeOK(k)
      /\ k.m_state \in [Procs -> ProcStates] /\ k.m_state[o] = RUN
      /\ mp \in [Procs -> Priorities]
      /\ k.ready \in Queues /\ k.blocked \in Queues
      /\ Holds(k.ready, mp, R) /\ Holds(k.blocked, mp, B)
      /\ \A p \in Procs \ {o} : k.m_state[p] # RUN
  BY ConsistentRunning DEF SchedInv, SchedulerTypeOK, Consistent, Queues
<1>1. R \subseteq Procs \ {o} /\ B \subseteq Procs \ {o} /\ R \cap B = {}
  BY StatesDistinct DEF ReadyBut, BlockedBut
<1>2. /\ w.running = o /\ w.m_priority = mp /\ w.ready = joined /\ w.blocked = none
      /\ w.m_state = [p \in Procs |->
           IF mp[p] < NULL_PRIO /\ k.m_state[p] = BLOCKED_ON_RESOURCE
           THEN RDY ELSE k.m_state[p]]
      /\ w \in [running : {w.running}, m_state : {w.m_state}, m_priority : {w.m_priority},
                ready : {w.ready}, blocked : {w.blocked}]
  BY <1>0 DEF WakeMemoryWaiters, copy_queue, clear_queue, SchedulerTypeOK
<1> DEFINE st == w.m_state
<1> HIDE DEF w
<1>3. ASSUME NEW p \in Procs
      PROVE  st[p] = IF k.m_state[p] = BLOCKED_ON_RESOURCE THEN RDY ELSE k.m_state[p]
  <2>1. k.m_state[p] = BLOCKED_ON_RESOURCE => mp[p] < NULL_PRIO
    BY StatesDistinct DEF SchedInv, PcbInv
  <2> QED BY <1>2, <2>1
<1>4. joined \in Queues /\ none \in Queues
  <2>1. \A i \in Priorities : k.ready[i] \o k.blocked[i] \in Seq(Procs)
    BY <1>0, ConcatProperties DEF Queues
  <2> QED BY <2>1, EmptySeq DEF Queues
<1>5. Holds(joined, mp, R \cup B)
  <2>1. ASSUME NEW i \in Priorities
        PROVE  /\ Distinct(joined[i])
               /\ \A p \in Procs : Occurs(joined[i], p)
                    <=> Occurs(k.ready[i], p) \/ Occurs(k.blocked[i], p)
    <3>1. /\ k.ready[i] \in Seq(Procs) /\ k.blocked[i] \in Seq(Procs)
          /\ Distinct(k.ready[i]) /\ Distinct(k.blocked[i])
      BY <1>0 DEF Queues, Holds, NoDuplicates
    <3>2. ASSUME NEW p, Occurs(k.ready[i], p), Occurs(k.blocked[i], p) PROVE FALSE
      <4>1. p \in Procs
        BY <3>1, <3>2, ElementOfSeq, LenProperties DEF Occurs
      <4>2. p \in R /\ p \in B
        BY <1>0, <3>2, <4>1 DEF Holds, InList
      <4> QED BY <1>1, <4>2
    <3> QED BY <3>1, <3>2, ConcatOccurs
  <2>2. ASSUME NEW p \in Procs, NEW i \in Priorities
        PROVE  InList(joined, i, p) <=> p \in R \cup B /\ i = mp[p]
    BY <1>0, <2>1 DEF Holds, InList
  <2> HIDE DEF joined
  <2> QED BY <2>1, <2>2 DEF Holds, NoDuplicates
<1>6. Holds(none, mp, {})
  <2>1. \A i \in Priorities : DOMAIN none[i] = {}
    BY EmptySeq, LenProperties
  <2> QED BY <2>1 DEF Holds, NoDuplicates, Distinct, InList, Occurs
<1> HIDE DEF joined, none, R, B
<1>7. SchedulerTypeOK(w)
  <2>1. st \in [Procs -> ProcStates]
    BY <1>0, <1>2, StatesDistinct
  <2> QED BY <1>0, <1>2, <1>4, <2>1 DEF SchedulerTypeOK, Queues
<1>8. ReadyBut(w, o) = R \cup B
  BY <1>3, StatesDistinct DEF ReadyBut, BlockedBut, R, B
<1>9. BlockedBut(w, o) = {}
  BY <1>3, StatesDistinct DEF BlockedBut
<1>10. st[o] = RUN /\ \A p \in Procs \ {o} : st[p] # RUN
  BY <1>0, <1>3, StatesDistinct
<1>11. QueuesMatchStates(w)
  <2>1. Consistent(w, w.running)
    BY <1>2, <1>5, <1>6, <1>8, <1>9, <1>10 DEF Consistent
  <2> QED BY <1>2, <1>7, <1>10, <2>1, ConsistentRunning
<1>12. PcbInv(w)
  BY <1>2, <1>3, PidAssumption, StatesDistinct DEF SchedInv, PcbInv
<1>13. Unblocking(k, w) /\ \A p \in Procs : st[p] # BLOCKED_ON_RESOURCE
  BY <1>3, StatesDistinct DEF Unblocking
<1> QED
  BY <1>2, <1>7, <1>11, <1>12, <1>13 DEF SchedInv, w

\* k_check_preemption: the queues still match, the best process runs, and with
\* a free block nobody waits for memory.
LEMMA CheckPreemptionProperties ==
  ASSUME NEW k, SchedInv(k), k.running # PID_NONE, NEW free \in Nat
  PROVE  /\ SchedInv(k_check_preemption(k, free))
         /\ k_check_preemption(k, free).running # PID_NONE
         /\ BestRuns(k_check_preemption(k, free))
         /\ Unblocking(k, k_check_preemption(k, free))
         /\ free > 0 => \A p \in Procs :
              k_check_preemption(k, free).m_state[p] # BLOCKED_ON_RESOURCE
<1> DEFINE w == IF free > 0 THEN WakeMemoryWaiters(k) ELSE k
           front == peek_front(w.ready, w.m_priority)
           delta == w.m_priority[w.running] - front.prio
           o == w.running
           r == k_check_preemption(k, free)
<1>1. /\ SchedInv(w) /\ w.running = k.running /\ Unblocking(k, w)
      /\ free > 0 => \A p \in Procs : w.m_state[p] # BLOCKED_ON_RESOURCE
  BY WakeMemoryWaitersProperties DEF Unblocking
<1>2. r = IF front.pid # PID_NONE /\ delta > 0 THEN k_release_processor(w) ELSE w
  BY DEF k_check_preemption, k_check_preemption_impl
<1> HIDE DEF w, r
<1>3. /\ o \in Procs /\ o # PID_NONE /\ SchedulerTypeOK(w) /\ Consistent(w, o) /\ PcbInv(w)
      /\ w.m_state[o] = RUN
      /\ w.ready \in Queues /\ w.m_priority \in [Procs -> Priorities]
  BY <1>1, ConsistentRunning DEF SchedInv, SchedulerTypeOK, Queues
<1>4. CASE front.pid # PID_NONE /\ delta > 0
  <2> DEFINE rp == k_release_processor(w)
  <2>1. SchedInv(rp) /\ rp.running # PID_NONE /\ BestRuns(rp) /\ Unblocking(w, rp)
    BY <1>3, ReleaseProcessorProperties
  <2>2. r = rp
    BY <1>2, <1>4
  <2> HIDE DEF rp
  <2> QED BY <1>1, <2>1, <2>2 DEF r, Unblocking
<1>5. CASE ~ (front.pid # PID_NONE /\ delta > 0)
  <2>1. r = w
    BY <1>2, <1>5
  <2> DEFINE S == ReadyBut(w, o)
  <2>2. PeekOK(front, w.m_priority, S) /\ Holds(w.ready, w.m_priority, S) /\ S \subseteq Procs
    <3>1. S \in SUBSET Procs /\ Holds(w.ready, w.m_priority, S)
      BY <1>3 DEF Consistent, ReadyBut
    <3> HIDE DEF S
    <3> QED BY <1>3, <3>1, PeekProperties
  <2> HIDE DEF S, front
  <2>3. ASSUME NEW p \in Procs, InQueue(w.ready, p)
        PROVE  w.m_priority[o] <= w.m_priority[p]
    <3>1. p \in S
      BY <2>2, <2>3 DEF Holds, InQueue
    <3>2. /\ front.pid \in S /\ front.pid # PID_NONE
          /\ front.prio <= w.m_priority[front.pid]
          /\ front.prio \in Int
          /\ w.m_priority[front.pid] <= w.m_priority[p]
      <4>1. /\ front.pid \in S
            /\ \/ front.prio = w.m_priority[front.pid]
               \/ front.prio = -1 /\ w.m_priority[front.pid] = HIGHEST
            /\ w.m_priority[front.pid] <= w.m_priority[p]
        BY <2>2, <3>1 DEF PeekOK
      <4>2. front.pid \in Procs /\ front.pid # PID_NONE /\ w.m_priority[front.pid] \in Nat
        BY <1>3, <2>2, <4>1, PidAssumption, PrioritiesFact
      <4> QED BY <4>1, <4>2
    <3>3. w.m_priority[o] \in Nat /\ w.m_priority[p] \in Nat /\ w.m_priority[front.pid] \in Nat
      BY <1>3, <2>2, <3>2, PrioritiesFact
    <3>4. w.m_priority[o] <= front.prio
      BY <1>5, <3>2, <3>3
    <3> QED BY <3>2, <3>3, <3>4
  <2>4. BestRuns(w)
    BY <2>3 DEF BestRuns
  <2> QED BY <1>1, <1>3, <2>1, <2>4 DEF r
<1> QED
  BY <1>4, <1>5

\* k_send_message_helper wakes its receiver and nobody else.
LEMMA WakeReceiverProperties ==
  ASSUME NEW k, SchedInv(k), k.running # PID_NONE, NEW p \in Procs
  PROVE  /\ SchedInv(WakeReceiver(k, p))
         /\ WakeReceiver(k, p).running = k.running
         /\ Unblocking(k, WakeReceiver(k, p))
         /\ WakeReceiver(k, p).m_state[p] # BLOCKED_ON_RECEIVE
<1> DEFINE o == k.running
           mp == k.m_priority
           w == WakeReceiver(k, p)
<1>0. /\ o \in Procs /\ SchedulerTypeOK(k)
      /\ k.m_state \in [Procs -> ProcStates] /\ k.m_state[o] = RUN
      /\ mp \in [Procs -> Priorities]
      /\ k.ready \in Queues /\ k.blocked \in Queues
      /\ Holds(k.ready, mp, ReadyBut(k, o)) /\ Holds(k.blocked, mp, BlockedBut(k, o))
      /\ \A x \in Procs \ {o} : k.m_state[x] # RUN
  BY ConsistentRunning DEF SchedInv, SchedulerTypeOK, Consistent, Queues
<1>1. CASE k.m_state[p] # BLOCKED_ON_RECEIVE
  BY <1>1 DEF WakeReceiver, Unblocking
<1>2. CASE k.m_state[p] = BLOCKED_ON_RECEIVE
  <2> DEFINE q == push_process(k.ready, p, mp[p])
             ms == [k.m_state EXCEPT ![p] = RDY]
  <2>1. /\ w.running = o /\ w.m_priority = mp /\ w.ready = q /\ w.blocked = k.blocked
        /\ w.m_state = ms
        /\ w \in [running : {w.running}, m_state : {w.m_state}, m_priority : {w.m_priority},
                  ready : {w.ready}, blocked : {w.blocked}]
    BY <1>0, <1>2 DEF WakeReceiver, SchedulerTypeOK
  <2>2. p # o /\ p \notin ReadyBut(k, o) /\ p \notin BlockedBut(k, o) /\ p \notin IProcs
        /\ p # PID_NULL
    BY <1>0, <1>2, StatesDistinct DEF ReadyBut, BlockedBut, SchedInv, PcbInv
  <2>3. q \in Queues /\ Holds(q, mp, ReadyBut(k, o) \cup {p})
    BY <1>0, <2>2, PushHolds
  <2>4. /\ ms \in [Procs -> ProcStates] /\ ms[p] = RDY
        /\ \A x \in Procs : x # p => ms[x] = k.m_state[x]
    BY <1>0, StatesDistinct
  <2> HIDE DEF w, q, ms
  <2>5. SchedulerTypeOK(w)
    BY <1>0, <2>1, <2>3, <2>4 DEF SchedulerTypeOK, Queues
  <2>6. ReadyBut(w, o) = ReadyBut(k, o) \cup {p} /\ BlockedBut(w, o) = BlockedBut(k, o)
    BY <1>2, <2>1, <2>2, <2>4, StatesDistinct DEF ReadyBut, BlockedBut
  <2>7. ms[o] = RUN /\ \A x \in Procs \ {o} : ms[x] # RUN
    BY <1>0, <2>2, <2>4, StatesDistinct
  <2>8. Consistent(w, w.running)
    BY <1>0, <2>1, <2>3, <2>6, <2>7 DEF Consistent
  <2>9. QueuesMatchStates(w)
    BY <2>1, <2>5, <2>7, <2>8, ConsistentRunning
  <2>10. PcbInv(w)
    BY <2>1, <2>2, <2>4, PidAssumption, StatesDistinct DEF SchedInv, PcbInv
  <2>11. Unblocking(k, w) /\ w.m_state[p] # BLOCKED_ON_RECEIVE
    BY <2>1, <2>4, StatesDistinct DEF Unblocking
  <2> QED BY <2>1, <2>5, <2>9, <2>10, <2>11 DEF SchedInv, w
<1> QED
  BY <1>1, <1>2

\* The state in which k_set_process_priority checks for preemption.
Reprioritized(k, p, prio) ==
  [k EXCEPT !.ready = change_priority(@, p, k.m_priority[p], prio),
            !.blocked = change_priority(@, p, k.m_priority[p], prio),
            !.m_priority[p] = prio]

LEMMA ReprioritizedProperties ==
  ASSUME NEW k, SchedInv(k), k.running # PID_NONE,
         NEW p \in Procs \ {PID_NULL}, NEW prio \in 0 .. NULL_PRIO - 1
  PROVE  /\ SchedInv(Reprioritized(k, p, prio))
         /\ Reprioritized(k, p, prio).running = k.running
         /\ Unblocking(k, Reprioritized(k, p, prio))
         /\ Reprioritized(k, p, prio).ready
              = change_priority(k.ready, p, k.m_priority[p], prio)
         /\ Reprioritized(k, p, prio).m_priority = [k.m_priority EXCEPT ![p] = prio]
<1> DEFINE o == k.running
           mp == k.m_priority
           np == [mp EXCEPT ![p] = prio]
           rq == change_priority(k.ready, p, mp[p], prio)
           bq == change_priority(k.blocked, p, mp[p], prio)
           c == Reprioritized(k, p, prio)
<1>0. /\ o \in Procs /\ SchedulerTypeOK(k)
      /\ k.m_state \in [Procs -> ProcStates] /\ k.m_state[o] = RUN
      /\ mp \in [Procs -> Priorities]
      /\ k.ready \in Queues /\ k.blocked \in Queues
      /\ Holds(k.ready, mp, ReadyBut(k, o)) /\ Holds(k.blocked, mp, BlockedBut(k, o))
      /\ \A x \in Procs \ {o} : k.m_state[x] # RUN
      /\ prio \in Priorities /\ prio < NULL_PRIO
  <2>1. prio \in Priorities /\ prio < NULL_PRIO
    BY PrioritiesFact
  <2> QED BY <2>1, ConsistentRunning DEF SchedInv, SchedulerTypeOK, Consistent, Queues
<1>1. /\ rq \in Queues /\ Holds(rq, np, ReadyBut(k, o))
      /\ bq \in Queues /\ Holds(bq, np, BlockedBut(k, o))
  BY <1>0, ChangeHolds
<1>2. /\ c.running = o /\ c.m_priority = np /\ c.ready = rq /\ c.blocked = bq
      /\ c.m_state = k.m_state
      /\ c \in [running : {c.running}, m_state : {c.m_state}, m_priority : {c.m_priority},
                ready : {c.ready}, blocked : {c.blocked}]
  <2> HIDE DEF rq, bq
  <2>1. c = [k EXCEPT !.ready = rq, !.blocked = bq, !.m_priority[p] = prio]
    BY DEF rq, bq, Reprioritized
  <2> HIDE DEF c
  <2> QED BY <1>0, <2>1 DEF SchedulerTypeOK
<1>4. np \in [Procs -> Priorities] /\ np[p] = prio /\ \A x \in Procs : x # p => np[x] = mp[x]
  BY <1>0
<1> HIDE DEF c, rq, bq, np
<1>5. SchedulerTypeOK(c)
  BY <1>0, <1>1, <1>2, <1>4 DEF SchedulerTypeOK, Queues
<1>6. ReadyBut(c, o) = ReadyBut(k, o) /\ BlockedBut(c, o) = BlockedBut(k, o)
  BY <1>2 DEF ReadyBut, BlockedBut
<1>7. QueuesMatchStates(c)
  <2>1. Consistent(c, c.running)
    BY <1>0, <1>1, <1>2, <1>6 DEF Consistent
  <2> QED BY <1>0, <1>2, <1>5, <2>1, ConsistentRunning
<1>8. PcbInv(c)
  BY <1>0, <1>2, <1>4 DEF SchedInv, PcbInv
<1>9. SchedInv(c) /\ c.running # PID_NONE /\ Unblocking(k, c)
  BY <1>2, <1>5, <1>7, <1>8 DEF SchedInv, Unblocking
<1> QED
  BY <1>2, <1>9 DEF c, rq, np

\* k_set_process_priority moves a queued process along with its priority.
LEMMA SetPriorityProperties ==
  ASSUME NEW k, SchedInv(k), k.running # PID_NONE,
         NEW p \in Procs \ {PID_NULL}, NEW prio \in 0 .. NULL_PRIO - 1, NEW free \in Nat
  PROVE  /\ SchedInv(SetPriority(k, p, prio, free))
         /\ SetPriority(k, p, prio, free).running # PID_NONE
         /\ BestRuns(SetPriority(k, p, prio, free))
         /\ Unblocking(k, SetPriority(k, p, prio, free))
         /\ free > 0 => \A x \in Procs :
              SetPriority(k, p, prio, free).m_state[x] # BLOCKED_ON_RESOURCE
<1> DEFINE c == Reprioritized(k, p, prio)
<1>3. SetPriority(k, p, prio, free) = k_check_preemption(c, free)
  BY DEF SetPriority, Reprioritized
<1> HIDE DEF c
<1>8. SchedInv(Reprioritized(k, p, prio)) /\ Reprioritized(k, p, prio).running # PID_NONE
      /\ Unblocking(k, Reprioritized(k, p, prio))
  BY ReprioritizedProperties
<1>9. SchedInv(c) /\ c.running # PID_NONE /\ Unblocking(k, c)
  BY <1>8 DEF c
<1> DEFINE r == k_check_preemption(c, free)
<1>10. /\ SchedInv(r) /\ r.running # PID_NONE /\ BestRuns(r) /\ Unblocking(c, r)
       /\ free > 0 => \A x \in Procs : r.m_state[x] # BLOCKED_ON_RESOURCE
  BY <1>9, CheckPreemptionProperties
<1> HIDE DEF r
<1> QED
  BY <1>3, <1>9, <1>10 DEF r, Unblocking

\* process_init queues every process once, by priority.
LEMMA InitialProperties ==
  /\ SchedInv(process_init)
  /\ process_init.running = PID_NONE
  /\ \A p \in Procs : process_init.m_state[p] = NEW_
<1> DEFINE mp == [p \in Procs |-> IF p \in IProcs THEN IPROC_PRIO ELSE InitPriority[p]]
           ms == [p \in Procs |-> NEW_]
           rq == [i \in Priorities |-> InitialList(i)]
           bq == [i \in Priorities |-> << >>]
           k0 == process_init
           User == Procs \ IProcs
<1>1. /\ k0.running = PID_NONE /\ k0.m_state = ms /\ k0.m_priority = mp
      /\ k0.ready = rq /\ k0.blocked = bq
      /\ k0 \in [running : {k0.running}, m_state : {k0.m_state}, m_priority : {k0.m_priority},
                ready : {k0.ready}, blocked : {k0.blocked}]
  BY DEF process_init, clear_queue
<1> HIDE DEF k0
<1>2. mp \in [Procs -> Priorities] /\ ms \in [Procs -> ProcStates]
  BY PriorityAssumption, PrioritiesFact, StatesDistinct
<1>3. ASSUME NEW i \in Priorities
      PROVE  /\ rq[i] \in Seq(Procs) /\ Distinct(rq[i])
             /\ \A p \in Procs : Occurs(rq[i], p) <=> p \in User /\ i = mp[p]
  <2> DEFINE K == {p \in User : InitPriority[p] = i}
  <2>1. rq[i] = Keep(InitOrder, K)
    BY DEF InitialList
  <2> HIDE DEF K, rq
  <2>2. InitOrder \in Seq(Procs) /\ Distinct(InitOrder)
    BY InitOrderAssumption, SeqMonotonic
  <2>3. /\ rq[i] \in Seq(Procs) /\ Distinct(rq[i])
        /\ \A p : Occurs(rq[i], p) <=> p \in K /\ Occurs(InitOrder, p)
    BY <2>1, <2>2, KeepProperties
  <2>4. \A p \in Procs : p \in K /\ Occurs(InitOrder, p) <=> p \in User /\ i = mp[p]
    BY InitOrderAssumption DEF K
  <2> QED BY <2>3, <2>4
<1>4. rq \in Queues /\ Holds(rq, mp, User)
  <2> HIDE DEF User, mp
  <2>1. rq \in Queues
    BY <1>3 DEF Queues
  <2> HIDE DEF rq
  <2> QED BY <1>3, <2>1 DEF Holds, NoDuplicates, InList
<1>5. bq \in Queues /\ Holds(bq, mp, {})
  <2>1. \A i \in Priorities : bq[i] \in Seq(Procs) /\ DOMAIN bq[i] = {}
    BY EmptySeq, LenProperties
  <2> QED BY <2>1 DEF Queues, Holds, NoDuplicates, Distinct, InList, Occurs
<1>6. \A p \in Procs : ms[p] = NEW_
  OBVIOUS
<1>7. /\ {p \in Procs : \/ ms[p] = RDY
                        \/ ms[p] = NEW_ /\ p \notin IProcs} = User
      /\ {p \in Procs : ms[p] = BLOCKED_ON_RESOURCE} = {}
      /\ \A p \in Procs : ms[p] # RUN /\ p # PID_NONE
  BY <1>6, PidAssumption, StatesDistinct
<1>8. PcbInv(k0)
  <2>1. \A p \in User : p # PID_NULL => mp[p] < NULL_PRIO
    BY PriorityAssumption, PrioritiesFact
  <2>2. PID_NULL \in Procs /\ PID_NONE \notin IProcs
    BY PidAssumption
  <2> HIDE DEF mp, ms, User
  <2> QED BY <1>1, <1>6, <2>1, <2>2, PidAssumption, StatesDistinct DEF PcbInv, User
<1> HIDE DEF ms, mp, rq, bq, User
<1>9. SchedulerTypeOK(k0)
  BY <1>1, <1>2, <1>4, <1>5 DEF SchedulerTypeOK, Queues
<1>10. QueuesMatchStates(k0)
  BY <1>1, <1>4, <1>5, <1>7 DEF QueuesMatchStates
<1> QED
  BY <1>1, <1>6, <1>8, <1>9, <1>10 DEF SchedInv, k0

-----------------------------------------------------------------------------
(* The order of the lists. *)

\* From list q to list r: who is in both stays in front of the newcomers of r and
\* of those in front of which it was.
KeepsOrder(q, r) ==
  \A p, x : /\ p # x
            /\ Occurs(q, p) /\ Occurs(r, p) /\ Occurs(r, x)
            /\ Occurs(q, x) => Before(q, p, x)
            => Before(r, p, x)

\* A list to whose back something is added keeps its order.
LEMMA LongerKeepsOrder ==
  ASSUME NEW S, NEW q \in Seq(S), NEW r \in Seq(S), Len(q) <= Len(r),
         \A i \in 1 .. Len(q) : r[i] = q[i]
  PROVE  KeepsOrder(q, r)
<1>1. /\ DOMAIN q = 1 .. Len(q) /\ DOMAIN r = 1 .. Len(r)
      /\ Len(q) \in Nat /\ Len(r) \in Nat
  BY LenProperties
<1>2. \A i \in DOMAIN q : i \in DOMAIN r /\ r[i] = q[i]
  BY <1>1
<1> SUFFICES ASSUME NEW p, NEW x, p # x, Occurs(q, p), Occurs(r, x),
                    Occurs(q, x) => Before(q, p, x)
             PROVE  Before(r, p, x)
  BY DEF KeepsOrder
<1>3. CASE Occurs(q, x)
  <2>1. PICK m, n \in DOMAIN q : m < n /\ q[m] = p /\ q[n] = x
    BY <1>3 DEF Before
  <2> QED BY <1>2, <2>1 DEF Before
<1>4. CASE ~ Occurs(q, x)
  <2>1. PICK m \in DOMAIN q : q[m] = p
    BY DEF Occurs
  <2>2. PICK n \in DOMAIN r : r[n] = x
    BY DEF Occurs
  <2>3. n \notin DOMAIN q
    BY <1>2, <1>4, <2>2 DEF Occurs
  <2>4. m < n
    BY <1>1, <2>1, <2>2, <2>3
  <2> QED BY <1>2, <2>1, <2>2, <2>4 DEF Before
<1> QED
  BY <1>3, <1>4

\* The loop of Keep keeps the order of what it keeps.
LEMMA KeptOrder ==
  ASSUME NEW S, NEW s \in Seq(S), NEW K, NEW f, IsKept(f, s, K, Len(s)),
         NEW m \in 0 .. Len(s),
         NEW i \in 1 .. m, NEW j \in 1 .. m, i < j, s[i] \in K, s[j] \in K
  PROVE  Before(f[m], s[i], s[j])
<1>a. \A n \in 0 .. Len(s) :
        /\ f[n] \in Seq(S)
        /\ \A p : Occurs(f[n], p) <=> p \in K /\ \E a \in 1 .. n : s[a] = p
  <2> SUFFICES ASSUME NEW n, n \in 0 .. Len(s)
               PROVE  /\ f[n] \in Seq(S)
                      /\ \A p : Occurs(f[n], p) <=> p \in K /\ \E a \in 1 .. n : s[a] = p
    OBVIOUS
  <2>1. /\ f[n] \in Seq(S)
        /\ \A p : Occurs(f[n], p) <=> p \in K /\ \E a \in 1 .. n : s[a] = p
        /\ Distinct(s) => Distinct(f[n])
    BY KeptProperties
  <2> QED BY <2>1
<1> DEFINE N == Len(s)
           Right(n) == \A a, b \in 1 .. n :
                         a < b /\ s[a] \in K /\ s[b] \in K => Before(f[n], s[a], s[b])
           RightOnes == {n \in 0 .. N : Right(n)}
<1>0. N \in Nat /\ \A n \in 1 .. N : s[n] \in S
  BY LenProperties, ElementOfSeq
<1>1. 0 \in RightOnes
  BY <1>0
<1>2. ASSUME NEW n \in 0 .. N - 1, n \in RightOnes PROVE n + 1 \in RightOnes
  <2>0. n \in Nat /\ n + 1 \in 1 .. N /\ n + 1 \in 0 .. N /\ n \in 0 .. N /\ (n + 1) - 1 = n
    BY <1>0
  <2>1. f[n + 1] = IF s[n + 1] \in K THEN Append(f[n], s[n + 1]) ELSE f[n]
    <3>1. f[n + 1] = IF n + 1 = 0 THEN << >>
                     ELSE IF s[n + 1] \in K THEN Append(f[(n + 1) - 1], s[n + 1])
                          ELSE f[(n + 1) - 1]
      BY <2>0 DEF IsKept
    <3> QED BY <2>0, <3>1
  <2>2. /\ f[n] \in Seq(S)
        /\ \A p : Occurs(f[n], p) <=> p \in K /\ \E a \in 1 .. n : s[a] = p
    BY <1>a, <2>0
  <2>3. ASSUME NEW a \in 1 .. n + 1, NEW b \in 1 .. n + 1, a < b, s[a] \in K, s[b] \in K
        PROVE  Before(f[n + 1], s[a], s[b])
    <3> DEFINE t == f[n]
               u == f[n + 1]
    <3>1. a \in 1 .. n /\ (b \in 1 .. n \/ b = n + 1)
      BY <2>0, <2>3
    <3>2. CASE s[n + 1] \notin K
      BY <1>2, <2>1, <2>3, <3>1, <3>2
    <3>3. CASE s[n + 1] \in K
      <4>1. /\ Len(t) \in Nat /\ DOMAIN t = 1 .. Len(t)
            /\ DOMAIN u = 1 .. Len(t) + 1
            /\ \A c \in 1 .. Len(t) : u[c] = t[c]
            /\ u[Len(t) + 1] = s[n + 1]
        <5>1. t \in Seq(S) /\ u = Append(t, s[n + 1]) /\ s[n + 1] \in S
          BY <1>0, <2>0, <2>1, <2>2, <3>3
        <5> HIDE DEF t, u
        <5> QED BY <5>1, AppendProperties, LenProperties
      <4>2. CASE b \in 1 .. n
        <5>1. Before(t, s[a], s[b])
          BY <1>2, <2>3, <3>1, <4>2
        <5> HIDE DEF t, u
        <5>2. PICK c, d \in DOMAIN t : c < d /\ t[c] = s[a] /\ t[d] = s[b]
          BY <5>1 DEF Before
        <5>3. c \in DOMAIN u /\ d \in DOMAIN u /\ u[c] = s[a] /\ u[d] = s[b]
          BY <4>1, <5>2
        <5> QED BY <5>2, <5>3 DEF Before, u
      <4>3. CASE b = n + 1
        <5>1. Occurs(t, s[a])
          BY <2>2, <2>3, <3>1
        <5> HIDE DEF t, u
        <5>2. PICK c \in DOMAIN t : t[c] = s[a]
          BY <5>1 DEF Occurs
        <5> DEFINE d == Len(t) + 1
        <5>3. c \in DOMAIN u /\ d \in DOMAIN u /\ c < d /\ u[c] = s[a] /\ u[d] = s[b]
          BY <4>1, <4>3, <5>2
        <5> HIDE DEF d
        <5> QED BY <5>3 DEF Before, u
      <4> QED BY <3>1, <4>2, <4>3
    <3> QED BY <3>2, <3>3
  <2>4. Right(n + 1)
    BY <2>3
  <2> HIDE DEF Right
  <2> QED BY <2>0, <2>4
<1>3. m \in RightOnes
  <2> HIDE DEF RightOnes
  <2> QED BY <1>0, <1>1, <1>2, SegmentInduction
<1> QED
  BY <1>3

\* LL_REMOVE keeps the order of the rest.
LEMMA RemoveKeepsOrder ==
  ASSUME NEW S, NEW s \in Seq(S), NEW v
  PROVE  KeepsOrder(s, LL_REMOVE(s, v))
<1> DEFINE K == {s[i] : i \in DOMAIN s} \ {v}
           N == Len(s)
<1>1. N \in Nat /\ N \in 0 .. Len(s) /\ DOMAIN s = 1 .. N
  BY LenProperties
<1>2. PICK f : IsKept(f, s, K, Len(s)) /\ LL_REMOVE(s, v) = f[N]
  <2> DEFINE kept == CHOOSE f : IsKept(f, s, K, Len(s))
  <2>1. IsKept(kept, s, K, Len(s))
    BY <1>1, KeptExists
  <2>2. LL_REMOVE(s, v) = kept[N]
    BY DEF LL_REMOVE, Keep, IsKept
  <2> HIDE DEF kept
  <2> QED BY <2>1, <2>2
<1> SUFFICES ASSUME NEW p, NEW x, p # x, Occurs(s, p), Occurs(LL_REMOVE(s, v), p),
                    Occurs(LL_REMOVE(s, v), x), Occurs(s, x) => Before(s, p, x)
             PROVE  Before(LL_REMOVE(s, v), p, x)
  BY DEF KeepsOrder
<1>3. p # v /\ x # v /\ Before(s, p, x)
  BY RemoveProperties
<1>4. PICK m, n \in DOMAIN s : m < n /\ s[m] = p /\ s[n] = x
  BY <1>3 DEF Before
<1>5. m \in 1 .. N /\ n \in 1 .. N /\ s[m] \in K /\ s[n] \in K
  BY <1>1, <1>3, <1>4
<1> HIDE DEF K, N
<1>6. Before(f[N], s[m], s[n])
  BY <1>1, <1>2, <1>4, <1>5, KeptOrder
<1> QED
  BY <1>2, <1>4, <1>6

\* One change of a list after another.
LEMMA OrderComposes ==
  ASSUME NEW q, NEW r, NEW t, KeepsOrder(q, r), KeepsOrder(r, t),
         \A p : Occurs(q, p) /\ Occurs(t, p) => Occurs(r, p)
  PROVE  KeepsOrder(q, t)
<1> SUFFICES ASSUME NEW p, NEW x, p # x, Occurs(q, p), Occurs(t, p), Occurs(t, x),
                    Occurs(q, x) => Before(q, p, x)
             PROVE  Before(t, p, x)
  BY DEF KeepsOrder
<1>1. Occurs(r, p)
  OBVIOUS
<1>2. Occurs(r, x) => Before(r, p, x)
  BY <1>1 DEF KeepsOrder
<1> QED
  BY <1>1, <1>2 DEF KeepsOrder

\* All lists of a queue.
KeepsOrders(q, r) == \A i \in Priorities : KeepsOrder(q[i], r[i])

\* Whoever gets the processor from queue q without being KCD or CRT had nobody in
\* front of it in its list.
WasFirst(q, m_priority, pid) ==
  pid \in {PID_KCD, PID_CRT} \/ \A p : ~ Before(q[m_priority[pid]], p, pid)

\* The process that peek_front finds is the first of its list, or KCD or CRT.
LEMMA PeekIsFirst ==
  ASSUME NEW q \in Queues, NEW mp \in [Procs -> Priorities], NEW S \in SUBSET Procs,
         Holds(q, mp, S), peek_front(q, mp).pid \in S
  PROVE  /\ WasFirst(q, mp, peek_front(q, mp).pid)
         /\ \/ peek_front(q, mp).prio = mp[peek_front(q, mp).pid]
            \/ /\ peek_front(q, mp).pid \in {PID_KCD, PID_CRT}
               /\ mp[peek_front(q, mp).pid] = HIGHEST
<1> DEFINE front == peek_front(q, mp)
           urgent == {i \in DOMAIN q[HIGHEST] : q[HIGHEST][i] \in {PID_KCD, PID_CRT}}
           levels == {i \in Priorities : q[i] # << >>}
<1>0. \A i \in Priorities : q[i] \in Seq(Procs) /\ Len(q[i]) \in Nat
                            /\ DOMAIN q[i] = 1 .. Len(q[i])
  BY LenProperties DEF Queues
<1>1. CASE urgent # {}
  <2> DEFINE n == Smallest(urgent)
  <2>1. n \in urgent
    <3>1. urgent \subseteq Nat
      <4>1. DOMAIN q[HIGHEST] = 1 .. Len(q[HIGHEST])
        BY <1>0, PrioritiesFact
      <4> QED BY <4>1
    <3> HIDE DEF urgent
    <3> QED BY <1>1, <3>1, SmallestExists
  <2>2. front.pid = q[HIGHEST][n]
    BY <1>1 DEF peek_front
  <2> HIDE DEF n, front
  <2>3. front.pid \in {PID_KCD, PID_CRT} /\ InList(q, HIGHEST, front.pid)
    BY <2>1, <2>2 DEF InList, Occurs
  <2>4. front.pid \in Procs
    BY <2>3, PidAssumption
  <2>5. mp[front.pid] = HIGHEST
    BY <2>3, <2>4, PrioritiesFact DEF Holds
  <2> QED BY <2>3, <2>5 DEF WasFirst, front
<1>2. CASE urgent = {} /\ levels # {}
  <2> DEFINE i == Smallest(levels)
             pid == Head(q[i])
  <2>1. i \in levels
    <3>1. levels \subseteq Nat
      BY PrioritiesFact
    <3> HIDE DEF levels
    <3> QED BY <1>2, <3>1, SmallestExists
  <2>2. front.pid = pid /\ front.prio = mp[pid]
    BY <1>2 DEF peek_front
  <2> HIDE DEF i, front
  <2>3. i \in Priorities /\ q[i] # << >>
    BY <2>1
  <2>4. pid \in Procs /\ InList(q, i, pid) /\ pid = q[i][1] /\ 1 \in DOMAIN q[i]
    <3>0. q[i] \in Seq(Procs) /\ DOMAIN q[i] = 1 .. Len(q[i]) /\ Len(q[i]) \in Nat \ {0}
      BY <1>0, <2>3, EmptySeq
    <3>a. 1 \in DOMAIN q[i] /\ q[i][1] \in Procs
      BY <3>0, ElementOfSeq
    <3>b. pid = q[i][1]
      BY <2>3, <3>0, HeadTailProperties
    <3>1. pid = q[i][1] /\ 1 \in DOMAIN q[i] /\ q[i][1] \in Procs
      BY <3>a, <3>b
    <3> QED BY <3>1 DEF InList, Occurs
  <2> HIDE DEF pid
  <2>5. mp[pid] = i /\ Distinct(q[i])
    BY <2>3, <2>4 DEF Holds, NoDuplicates
  <2>6. ASSUME NEW p, Before(q[i], p, pid) PROVE FALSE
    <3>1. PICK a, b \in DOMAIN q[i] : a < b /\ q[i][b] = pid
      BY <2>6 DEF Before
    <3>2. b = 1
      BY <2>4, <2>5, <3>1 DEF Distinct
    <3> QED BY <1>0, <2>3, <3>1, <3>2
  <2>7. WasFirst(q, mp, front.pid)
    BY <2>2, <2>5, <2>6 DEF WasFirst
  <2> QED BY <2>2, <2>7 DEF front
<1>3. CASE urgent = {} /\ levels = {}
  <2>1. front.pid = PID_NONE
    BY <1>3 DEF peek_front
  <2> QED BY <2>1, PidAssumption DEF front
<1> QED
  BY <1>1, <1>2, <1>3

LEMMA SameKeepsOrder ==
  ASSUME NEW q PROVE KeepsOrder(q, q)
BY DEF KeepsOrder

LEMMA PushKeepsOrders ==
  ASSUME NEW q \in Queues, NEW p \in Procs, NEW prio \in Priorities
  PROVE  /\ KeepsOrders(q, push_process(q, p, prio))
         /\ \A i \in Priorities : \A x :
              Occurs(push_process(q, p, prio)[i], x) => Occurs(q[i], x) \/ x = p
<1> SUFFICES ASSUME NEW i \in Priorities
             PROVE  /\ KeepsOrder(q[i], push_process(q, p, prio)[i])
                    /\ \A x : Occurs(push_process(q, p, prio)[i], x) => Occurs(q[i], x) \/ x = p
  BY DEF KeepsOrders
<1>1. q[i] \in Seq(Procs)
  BY DEF Queues
<1>2. CASE i # prio
  <2>1. push_process(q, p, prio)[i] = q[i]
    BY <1>2 DEF push_process, Queues
  <2> QED BY <2>1, SameKeepsOrder
<1>3. CASE i = prio
  <2> DEFINE t == q[i]
             u == Append(t, p)
  <2>1. push_process(q, p, prio)[i] = u
    BY <1>3 DEF push_process, Queues
  <2> HIDE DEF t
  <2>2. t \in Seq(Procs)
    BY <1>1 DEF t
  <2>3. /\ u \in Seq(Procs) /\ Len(t) \in Nat /\ Len(u) = Len(t) + 1
        /\ \A j \in 1 .. Len(t) : u[j] = t[j]
        /\ \A x : Occurs(u, x) <=> Occurs(t, x) \/ x = p
    BY <2>2, PushBackProperties, AppendProperties, LenProperties
  <2> HIDE DEF u
  <2>4. KeepsOrder(t, u)
    <3>1. Len(t) <= Len(u)
      BY <2>3
    <3> QED BY <2>2, <2>3, <3>1, LongerKeepsOrder
  <2> QED BY <2>1, <2>3, <2>4 DEF t
<1> QED
  BY <1>2, <1>3

\* Popping keeps the order of those that stay.
LEMMA PopKeepsOrders ==
  ASSUME NEW q \in Queues, NEW mp \in [Procs -> Priorities], NEW S \in SUBSET Procs,
         Holds(q, mp, S), NEW front, PeekOK(front, mp, S)
  PROVE  KeepsOrders(q, AfterPop(q, front))
<1> SUFFICES ASSUME NEW i \in Priorities PROVE KeepsOrder(q[i], AfterPop(q, front)[i])
  BY DEF KeepsOrders
<1>1. q[i] \in Seq(Procs)
  BY DEF Queues
<1>2. AfterPop(q, front)[i] \in {q[i], LL_REMOVE(q[i], front.pid)}
  BY DEF AfterPop, Queues
<1>3. KeepsOrder(q[i], LL_REMOVE(q[i], front.pid))
  BY <1>1, RemoveKeepsOrder
<1> QED
  BY <1>2, <1>3, SameKeepsOrder

\* How k_release_processor chooses: it leaves everything alone, or gives the
\* processor to the process that peek_front found.
Chosen(k, r) ==
  LET front == peek_front(k.ready, k.m_priority)
  IN  /\ r.running = front.pid /\ front.pid # k.running
      /\ front.pid \in ReadyBut(k, k.running)
      /\ WasFirst(k.ready, k.m_priority, front.pid)
      /\ \/ front.prio = k.m_priority[front.pid]
         \/ front.pid \in {PID_KCD, PID_CRT} /\ k.m_priority[front.pid] = HIGHEST

\* k_release_processor keeps the order of the ready processes and gives the
\* processor to none but a first one.
LEMMA ReleaseKeepsOrder ==
  ASSUME NEW k, SchedulerTypeOK(k), Consistent(k, k.running), PcbInv(k),
         k.running # PID_NONE =>
           k.m_state[k.running] \in {RUN, BLOCKED_ON_RESOURCE, BLOCKED_ON_RECEIVE}
  PROVE  /\ KeepsOrders(k.ready, k_release_processor(k).ready)
         /\ k_release_processor(k).m_priority = k.m_priority
         /\ k_release_processor(k) = k \/ Chosen(k, k_release_processor(k))
         /\ k.running # PID_NONE /\ k.m_state[k.running] # RUN =>
              k_release_processor(k).m_state[k.running] # RDY
<1> DEFINE o == k.running
           mp == k.m_priority
           ms == k.m_state
           front == peek_front(k.ready, mp)
           pid == front.pid
           S == ReadyBut(k, o)
           popped == AfterPop(k.ready, front)
           r == k_release_processor(k)
<1>0. /\ o \in Procs \cup {PID_NONE} /\ (o = PID_NONE <=> o \notin Procs)
      /\ mp \in [Procs -> Priorities] /\ ms \in [Procs -> ProcStates]
      /\ k.ready \in Queues /\ k.blocked \in Queues
      /\ k = [running |-> o, m_state |-> ms, m_priority |-> mp,
              ready |-> k.ready, blocked |-> k.blocked]
  BY PidAssumption DEF SchedulerTypeOK, Queues
<1>1. S \in SUBSET Procs /\ Holds(k.ready, mp, S)
  BY DEF ReadyBut, Consistent
<1>2. PeekOK(front, mp, S)
  BY <1>0, <1>1, PeekProperties
<1>3. popped \in Queues /\ KeepsOrders(k.ready, popped)
  BY <1>0, <1>1, <1>2, PopHolds, PopKeepsOrders
<1>4. CASE o # PID_NONE /\ front.prio > mp[o] /\ ms[o] = RUN
  <2>1. r = k
    BY <1>4, StatesDistinct DEF k_release_processor, scheduler
  <2>2. KeepsOrders(k.ready, k.ready)
    BY SameKeepsOrder DEF KeepsOrders
  <2> QED BY <1>4, <2>1, <2>2
<1>5. CASE ~ (o # PID_NONE /\ front.prio > mp[o] /\ ms[o] = RUN)
  <2>1. pid \in S /\ pid # o /\ pid \in Procs /\ pid # PID_NONE /\ ms[pid] \in {NEW_, RDY}
    <3>1. S # {}
      <4>1. CASE o = PID_NULL
        <5>1. ms[o] = RUN /\ mp[o] \in Priorities
          BY <1>0, <4>1, PidAssumption DEF PcbInv
        <5>2. front.prio # NUM_PRIORITIES
          BY <1>5, <4>1, <5>1, PidAssumption, PrioritiesFact
        <5> QED BY <1>2, <5>2 DEF PeekOK
      <4>2. CASE o # PID_NULL
        <5>1. PID_NULL \in Procs \ IProcs /\ ms[PID_NULL] \in {NEW_, RDY}
          BY <1>0, <4>2, PidAssumption, StatesDistinct DEF PcbInv, Consistent
        <5> QED BY <4>2, <5>1 DEF ReadyBut
      <4> QED BY <4>1, <4>2
    <3>2. pid \in S
      BY <1>2, <3>1 DEF PeekOK
    <3>3. ms[pid] \in {NEW_, RDY}
      BY <3>2, StatesDistinct DEF ReadyBut, PcbInv
    <3> QED BY <3>2, <3>3, PidAssumption DEF ReadyBut
  <2> DEFINE c == scheduler(k)
             q == push_process(popped, o, mp[o])
             d == Park(c, o)
  <2>2. c = [running |-> pid, m_state |-> ms, m_priority |-> mp,
             ready |-> popped, blocked |-> k.blocked]
    <3>1. scheduler(k) = [k EXCEPT !.running = pid, !.ready = popped]
      BY <1>5, <2>1, StatesDistinct DEF scheduler
    <3> QED BY <1>0, <3>1
  <2>3. Chosen(k, [running |-> pid])
    <3>1. /\ WasFirst(k.ready, mp, pid)
          /\ \/ front.prio = mp[pid]
             \/ pid \in {PID_KCD, PID_CRT} /\ mp[pid] = HIGHEST
      BY <1>0, <1>1, <2>1, PeekIsFirst
    <3> QED BY <2>1, <3>1 DEF Chosen
  <2>4. r = process_switch(d, o)
    BY <2>1, <2>2 DEF k_release_processor
  <2> HIDE DEF c
  <2>5. /\ d \in [running : {pid}, m_state : {d.m_state}, m_priority : {mp},
                  ready : {popped, q}, blocked : {d.blocked}]
        /\ d.m_state[pid] = ms[pid]
        /\ d.ready = popped \/ (o \in Procs /\ d.ready = q)
        /\ o \in Procs /\ ms[o] # RUN => d.m_state[o] = ms[o]
    <3>1. CASE o \in Procs /\ ms[o] = RUN
      <4>1. d = [c EXCEPT !.m_state = [ms EXCEPT ![o] = RDY], !.ready = q]
        BY <1>0, <2>2, <3>1, StatesDistinct DEF Park
      <4>2. d = [running |-> pid, m_state |-> [ms EXCEPT ![o] = RDY], m_priority |-> mp,
                 ready |-> q, blocked |-> k.blocked]
        BY <2>2, <4>1
      <4> QED BY <1>0, <2>1, <3>1, <4>2
    <3>2. CASE o \notin Procs \/ ms[o] # RUN
      <4>1. \/ d = c
            \/ d = [c EXCEPT !.blocked = push_process(k.blocked, o, mp[o])]
        BY <1>0, <2>2, <3>2, StatesDistinct DEF Park
      <4> DEFINE b == push_process(k.blocked, o, mp[o])
      <4> HIDE DEF b, d, popped, pid
      <4>2. \/ d = c
            \/ d = [running |-> pid, m_state |-> ms, m_priority |-> mp,
                    ready |-> popped, blocked |-> b]
        BY <2>2, <4>1 DEF b
      <4> QED BY <2>2, <3>2, <4>2
    <3> QED BY <3>1, <3>2
  <2>6. r = [d EXCEPT !.m_state[pid] = RUN]
    BY <2>1, <2>4, <2>5 DEF process_switch
  <2> HIDE DEF d
  <2>7. /\ r.running = pid /\ r.m_priority = mp /\ r.ready = d.ready
        /\ o \in Procs => r.m_state[o] = d.m_state[o]
    BY <2>1, <2>5, <2>6
  <2> HIDE DEF r
  <2>8. KeepsOrders(k.ready, r.ready)
    <3>1. CASE d.ready = popped
      BY <1>3, <2>7, <3>1
    <3>2. CASE o \in Procs /\ d.ready = q
      <4> SUFFICES ASSUME NEW i \in Priorities PROVE KeepsOrder(k.ready[i], q[i])
        BY <2>7, <3>2 DEF KeepsOrders
      <4> HIDE DEF popped
      <4>1. /\ KeepsOrder(popped[i], q[i])
            /\ \A x : Occurs(q[i], x) => Occurs(popped[i], x) \/ x = o
        <5>1. mp[o] \in Priorities
          BY <1>0, <3>2
        <5> QED BY <1>3, <3>2, <5>1, PushKeepsOrders DEF KeepsOrders
      <4>2. KeepsOrder(k.ready[i], popped[i])
        BY <1>3 DEF KeepsOrders
      <4>3. ~ Occurs(k.ready[i], o)
        BY <1>1, <3>2 DEF Holds, InList, ReadyBut
      <4> HIDE DEF q
      <4>4. \A x : Occurs(k.ready[i], x) /\ Occurs(q[i], x) => Occurs(popped[i], x)
        BY <4>1, <4>3
      <4> QED BY <4>1, <4>2, <4>4, OrderComposes
    <3> QED BY <2>5, <3>1, <3>2
  <2>9. Chosen(k, r)
    BY <2>3, <2>7 DEF Chosen
  <2>10. o # PID_NONE /\ ms[o] # RUN => r.m_state[o] # RDY
    BY <1>0, <2>5, <2>7, StatesDistinct
  <2> QED BY <2>7, <2>8, <2>9, <2>10 DEF r
<1> QED
  BY <1>4, <1>5

\* First come, first served, between two states of the scheduler.
FairTo(k, r) ==
  \A i \in Priorities, p, x \in Procs :
    InList(k.ready, i, p) /\ InList(r.ready, i, p) /\ p # x =>
      /\ InList(r.ready, i, x) /\ (InList(k.ready, i, x) => Before(k.ready[i], p, x))
           => Before(r.ready[i], p, x)
      /\ Before(k.ready[i], p, x) /\ x = r.running /\ r.m_priority[x] = i
           => x \in {PID_KCD, PID_CRT}

\* The processor goes to nobody, to a process of better priority or to KCD or CRT.
Preempts(k, r) ==
  \/ r.running = k.running
  \/ r.m_priority[r.running] < r.m_priority[k.running]
  \/ r.running \in {PID_KCD, PID_CRT} /\ r.m_priority[r.running] = HIGHEST

\* From k to c processes are queued and nothing else happens.
OnlyQueues(k, c) ==
  /\ c.running = k.running /\ c.m_priority = k.m_priority
  /\ KeepsOrders(k.ready, c.ready)
  /\ \A i \in Priorities : \A p : Occurs(k.ready[i], p) => Occurs(c.ready[i], p)

LEMMA OnlyQueuesComposes ==
  ASSUME NEW k, NEW c, NEW d, OnlyQueues(k, c), OnlyQueues(c, d)
  PROVE  OnlyQueues(k, d)
<1>1. KeepsOrders(k.ready, d.ready)
  <2> SUFFICES ASSUME NEW i \in Priorities PROVE KeepsOrder(k.ready[i], d.ready[i])
    BY DEF KeepsOrders
  <2>1. KeepsOrder(k.ready[i], c.ready[i]) /\ KeepsOrder(c.ready[i], d.ready[i])
    BY DEF OnlyQueues, KeepsOrders
  <2>2. \A p : Occurs(k.ready[i], p) => Occurs(c.ready[i], p)
    BY DEF OnlyQueues
  <2> QED BY <2>1, <2>2, OrderComposes
<1> QED
  BY <1>1 DEF OnlyQueues

\* A change of the queues before a fair step, if it does not move the processes
\* that are in a list before and after both.
LEMMA FairComposes ==
  ASSUME NEW k, NEW c, NEW r, KeepsOrders(k.ready, c.ready), FairTo(c, r),
         \A i \in Priorities, p \in Procs :
           /\ InList(k.ready, i, p)
           /\ InList(r.ready, i, p) \/ (p = r.running /\ r.m_priority[p] = i)
           => InList(c.ready, i, p)
  PROVE  FairTo(k, r)
<1> SUFFICES ASSUME NEW i \in Priorities, NEW p \in Procs, NEW x \in Procs,
                    InList(k.ready, i, p), InList(r.ready, i, p), p # x
             PROVE  /\ /\ InList(r.ready, i, x)
                       /\ InList(k.ready, i, x) => Before(k.ready[i], p, x)
                       => Before(r.ready[i], p, x)
                    /\ Before(k.ready[i], p, x) /\ x = r.running /\ r.m_priority[x] = i
                         => x \in {PID_KCD, PID_CRT}
  BY DEF FairTo
<1>1. InList(c.ready, i, p)
  OBVIOUS
<1>2. KeepsOrder(k.ready[i], c.ready[i])
  BY DEF KeepsOrders
<1>3. ASSUME InList(r.ready, i, x), InList(k.ready, i, x) => Before(k.ready[i], p, x)
      PROVE  Before(r.ready[i], p, x)
  <2>1. InList(c.ready, i, x) => Before(c.ready[i], p, x)
    BY <1>1, <1>2, <1>3 DEF KeepsOrder, InList
  <2> QED BY <1>1, <1>3, <2>1 DEF FairTo
<1>4. ASSUME Before(k.ready[i], p, x), x = r.running, r.m_priority[x] = i
      PROVE  x \in {PID_KCD, PID_CRT}
  <2>1. InList(k.ready, i, x)
    BY <1>4 DEF InList, Before, Occurs
  <2>2. InList(c.ready, i, x)
    BY <1>4, <2>1
  <2>3. Before(c.ready[i], p, x)
    BY <1>1, <1>2, <1>4, <2>2 DEF KeepsOrder, InList
  <2> QED BY <1>1, <1>4, <2>3 DEF FairTo
<1> QED
  BY <1>3, <1>4

LEMMA ReleaseIsFair ==
  ASSUME NEW k, SchedulerTypeOK(k), Consistent(k, k.running), PcbInv(k),
         k.running # PID_NONE =>
           k.m_state[k.running] \in {RUN, BLOCKED_ON_RESOURCE, BLOCKED_ON_RECEIVE}
  PROVE  FairTo(k, k_release_processor(k))
<1> DEFINE r == k_release_processor(k)
<1>1. /\ KeepsOrders(k.ready, r.ready) /\ r.m_priority = k.m_priority
      /\ r = k \/ Chosen(k, r)
  BY ReleaseKeepsOrder
<1> HIDE DEF r
<1> SUFFICES ASSUME NEW i \in Priorities, NEW p \in Procs, NEW x \in Procs,
                    InList(k.ready, i, p), InList(r.ready, i, p), p # x
             PROVE  /\ /\ InList(r.ready, i, x)
                       /\ InList(k.ready, i, x) => Before(k.ready[i], p, x)
                       => Before(r.ready[i], p, x)
                    /\ Before(k.ready[i], p, x) /\ x = r.running /\ r.m_priority[x] = i
                         => x \in {PID_KCD, PID_CRT}
  BY DEF FairTo, r
<1>2. KeepsOrder(k.ready[i], r.ready[i])
  BY <1>1 DEF KeepsOrders
<1>3. ASSUME Before(k.ready[i], p, x), x = r.running, r.m_priority[x] = i
      PROVE  x \in {PID_KCD, PID_CRT}
  <2>1. InList(k.ready, i, x)
    BY <1>3 DEF InList, Before, Occurs
  <2>2. r # k
    BY <1>3, <2>1 DEF Consistent, Holds, ReadyBut
  <2>3. WasFirst(k.ready, k.m_priority, x) /\ k.m_priority[x] = i
    BY <1>1, <1>3, <2>2 DEF Chosen
  <2> QED BY <1>3, <2>3 DEF WasFirst
<1> QED
  BY <1>2, <1>3 DEF KeepsOrder, InList

\* Waking the waiters for memory puts them behind the ready processes.
LEMMA WakeMemoryOnlyQueues ==
  ASSUME NEW k, SchedInv(k)
  PROVE  OnlyQueues(k, WakeMemoryWaiters(k))
<1> DEFINE w == WakeMemoryWaiters(k)
<1>1. SchedulerTypeOK(k)
  BY DEF SchedInv
<1>2. /\ w.running = k.running /\ w.m_priority = k.m_priority
      /\ w.ready = [i \in Priorities |-> k.ready[i] \o k.blocked[i]]
  BY <1>1 DEF WakeMemoryWaiters, copy_queue, clear_queue, SchedulerTypeOK
<1> HIDE DEF w
<1>3. ASSUME NEW i \in Priorities
      PROVE  /\ KeepsOrder(k.ready[i], w.ready[i])
             /\ \A p : Occurs(k.ready[i], p) => Occurs(w.ready[i], p)
  <2> DEFINE s == k.ready[i]
             t == k.blocked[i]
             u == s \o t
  <2>1. s \in Seq(Procs) /\ t \in Seq(Procs)
    BY <1>1 DEF SchedulerTypeOK
  <2>2. w.ready[i] = u
    BY <1>2
  <2> HIDE DEF s, t
  <2>3. /\ u \in Seq(Procs) /\ Len(u) = Len(s) + Len(t) /\ Len(s) \in Nat /\ Len(t) \in Nat
        /\ \A j \in 1 .. Len(s) : u[j] = s[j]
    BY <2>1, ConcatProperties, LenProperties
  <2> HIDE DEF u
  <2>4. Len(s) <= Len(u)
    BY <2>3
  <2>5. KeepsOrder(s, u)
    BY <2>1, <2>3, <2>4, LongerKeepsOrder
  <2>6. \A p : Occurs(s, p) => Occurs(u, p)
    <3>1. DOMAIN s = 1 .. Len(s) /\ DOMAIN u = 1 .. Len(u)
      BY <2>1, <2>3, LenProperties
    <3>2. \A j \in DOMAIN s : j \in DOMAIN u /\ u[j] = s[j]
      BY <2>3, <3>1
    <3> QED BY <3>2 DEF Occurs
  <2> QED BY <2>2, <2>5, <2>6 DEF s
<1> QED
  BY <1>2, <1>3 DEF OnlyQueues, KeepsOrders, w

\* Waking a receiver puts it behind the ready processes of its priority.
LEMMA WakeReceiverOnlyQueues ==
  ASSUME NEW k, SchedInv(k), NEW p \in Procs
  PROVE  OnlyQueues(k, WakeReceiver(k, p))
<1> DEFINE prio == k.m_priority[p]
           q == push_process(k.ready, p, prio)
           w == WakeReceiver(k, p)
<1>1. SchedulerTypeOK(k) /\ k.ready \in Queues /\ prio \in Priorities
  BY DEF SchedInv, SchedulerTypeOK, Queues
<1>2. KeepsOrders(k.ready, k.ready)
  BY SameKeepsOrder DEF KeepsOrders
<1>3. /\ KeepsOrders(k.ready, q)
      /\ \A i \in Priorities : \A x : Occurs(k.ready[i], x) => Occurs(q[i], x)
  <2>1. KeepsOrders(k.ready, q)
    BY <1>1, PushKeepsOrders
  <2>2. ASSUME NEW i \in Priorities, NEW x, Occurs(k.ready[i], x) PROVE Occurs(q[i], x)
    <3>1. k.ready[i] \in Seq(Procs)
      BY <1>1 DEF Queues
    <3>2. q[i] = IF i = prio THEN Append(k.ready[i], p) ELSE k.ready[i]
      BY <1>1 DEF push_process, Queues
    <3>3. Occurs(Append(k.ready[i], p), x)
      BY <2>2, <3>1, PushBackProperties
    <3> QED BY <2>2, <3>2, <3>3
  <2> QED BY <2>1, <2>2
<1> HIDE DEF q
<1>4. w.running = k.running /\ w.m_priority = k.m_priority /\ w.ready \in {k.ready, q}
  BY <1>1 DEF WakeReceiver, SchedulerTypeOK, q
<1> HIDE DEF w
<1> QED
  BY <1>2, <1>3, <1>4 DEF OnlyQueues, w

\* k_check_preemption is fair, and preempts only for a better process.
LEMMA CheckPreemptionIsFair ==
  ASSUME NEW k, SchedInv(k), k.running # PID_NONE, NEW free \in Nat
  PROVE  /\ FairTo(k, k_check_preemption(k, free))
         /\ Preempts(k, k_check_preemption(k, free))
         /\ k_check_preemption(k, free).m_priority = k.m_priority
<1> DEFINE w == IF free > 0 THEN WakeMemoryWaiters(k) ELSE k
           front == peek_front(w.ready, w.m_priority)
           delta == w.m_priority[w.running] - front.prio
           o == w.running
           rp == k_release_processor(w)
           r == k_check_preemption(k, free)
<1>1. SchedInv(w) /\ OnlyQueues(k, w)
  <2>1. KeepsOrders(k.ready, k.ready)
    BY SameKeepsOrder DEF KeepsOrders
  <2>2. OnlyQueues(k, k)
    BY <2>1 DEF OnlyQueues
  <2> QED BY <2>2, WakeMemoryWaitersProperties, WakeMemoryOnlyQueues
<1>2. r = IF front.pid # PID_NONE /\ delta > 0 THEN rp ELSE w
  BY DEF k_check_preemption, k_check_preemption_impl
<1> HIDE DEF w, r
<1>3. /\ o = k.running /\ o \in Procs /\ o # PID_NONE
      /\ SchedulerTypeOK(w) /\ Consistent(w, o) /\ PcbInv(w) /\ w.m_state[o] = RUN
      /\ w.ready \in Queues /\ w.m_priority \in [Procs -> Priorities]
  BY <1>1, ConsistentRunning DEF SchedInv, SchedulerTypeOK, Queues, OnlyQueues
<1>4. FairTo(w, r) /\ Preempts(w, r) /\ r.m_priority = w.m_priority
  <2>1. CASE r = w
    <3>1. ASSUME NEW i \in Priorities, NEW p, Before(w.ready[i], p, o) PROVE FALSE
      <4>1. InList(w.ready, i, o)
        BY <3>1 DEF Before, InList, Occurs
      <4> QED BY <1>3, <4>1 DEF Consistent, Holds, ReadyBut
    <3>2. FairTo(w, w)
      BY <3>1 DEF FairTo
    <3> QED BY <2>1, <3>2 DEF Preempts
  <2>2. CASE r # w
    <3>1. r = rp /\ delta > 0
      BY <1>2, <2>2
    <3>2. FairTo(w, rp) /\ rp.m_priority = w.m_priority /\ (rp = w \/ Chosen(w, rp))
      BY <1>3, ReleaseIsFair, ReleaseKeepsOrder
    <3> HIDE DEF rp
    <3>3. Chosen(w, r)
      BY <2>2, <3>1, <3>2
    <3> HIDE DEF front
    <3>4. /\ r.running = front.pid /\ front.pid \in Procs
          /\ \/ front.prio = w.m_priority[front.pid]
             \/ front.pid \in {PID_KCD, PID_CRT} /\ w.m_priority[front.pid] = HIGHEST
      BY <3>3 DEF Chosen, ReadyBut, front
    <3>5. w.m_priority[o] \in Int /\ w.m_priority[front.pid] \in Int
      <4>1. w.m_priority[o] \in Priorities /\ w.m_priority[front.pid] \in Priorities
        BY <1>3, <3>4
      <4>2. \A z \in Priorities : z \in Int
        BY PrioritiesFact
      <4> HIDE DEF o, delta
      <4> QED BY <4>1, <4>2
    <3>6. Preempts(w, r)
      <4>1. CASE front.prio = w.m_priority[front.pid]
        <5>1. w.m_priority[o] - w.m_priority[front.pid] > 0
          BY <3>1, <4>1
        <5>2. w.m_priority[front.pid] < w.m_priority[o]
          BY <3>5, <5>1
        <5> QED BY <3>1, <3>2, <3>4, <5>2 DEF Preempts
      <4>2. CASE front.pid \in {PID_KCD, PID_CRT} /\ w.m_priority[front.pid] = HIGHEST
        BY <3>1, <3>2, <3>4, <4>2 DEF Preempts
      <4> QED BY <3>4, <4>1, <4>2
    <3> QED BY <3>1, <3>2, <3>6
  <2> QED BY <2>1, <2>2
<1>5. FairTo(k, r)
  BY <1>1, <1>4, FairComposes DEF OnlyQueues, InList
<1> QED
  BY <1>1, <1>4, <1>5 DEF OnlyQueues, Preempts, r

\* k_set_process_priority is fair: the process whose priority changes is a
\* newcomer in its new list and nobody in its old one.
LEMMA SetPriorityIsFair ==
  ASSUME NEW k, SchedInv(k), k.running # PID_NONE,
         NEW p \in Procs \ {PID_NULL}, NEW prio \in 0 .. NULL_PRIO - 1,
         k.m_priority[p] # prio, NEW free \in Nat
  PROVE  /\ FairTo(k, SetPriority(k, p, prio, free))
         /\ Preempts(k, SetPriority(k, p, prio, free))
<1> DEFINE c == Reprioritized(k, p, prio)
           r == k_check_preemption(c, free)
           from == k.m_priority[p]
<1>1. SetPriority(k, p, prio, free) = r
  BY DEF SetPriority, Reprioritized
<1>2. /\ SchedInv(c) /\ c.running # PID_NONE /\ c.running = k.running
      /\ c.ready = change_priority(k.ready, p, from, prio)
      /\ c.m_priority = [k.m_priority EXCEPT ![p] = prio]
  BY ReprioritizedProperties
<1>3. /\ k.ready \in Queues /\ from \in Priorities /\ prio \in Priorities
      /\ k.m_priority \in [Procs -> Priorities]
  <2>1. prio \in Priorities
    BY PrioritiesFact
  <2> QED BY <2>1 DEF SchedInv, SchedulerTypeOK, Queues
<1> HIDE DEF c
<1>4. /\ FairTo(c, r) /\ Preempts(c, r) /\ r.m_priority = c.m_priority
      /\ SchedInv(r)
  BY <1>2, CheckPreemptionIsFair, CheckPreemptionProperties
<1>5. r.m_priority[p] = prio
  BY <1>2, <1>3, <1>4
<1> HIDE DEF r
<1>6. ASSUME NEW i \in Priorities
      PROVE  /\ KeepsOrder(k.ready[i], c.ready[i])
             /\ \A x : Occurs(k.ready[i], x) =>
                  Occurs(c.ready[i], x) \/ (x = p /\ i = from)
  <2> DEFINE s == k.ready[i]
             t == LL_REMOVE(s, p)
             u == Append(s, p)
  <2>1. \/ c.ready[i] = s
        \/ i = from /\ c.ready[i] = t
        \/ i # from /\ c.ready[i] = u
    BY <1>2, <1>3 DEF change_priority, push_process, Queues
  <2>2. s \in Seq(Procs)
    BY <1>3 DEF Queues
  <2> HIDE DEF s
  <2>3. KeepsOrder(s, s) /\ KeepsOrder(s, t)
    BY <2>2, SameKeepsOrder, RemoveKeepsOrder
  <2>4. \A x : Occurs(t, x) <=> x # p /\ Occurs(s, x)
    BY <2>2, RemoveProperties
  <2>5. /\ u \in Seq(Procs) /\ Len(s) \in Nat /\ Len(u) = Len(s) + 1
        /\ \A j \in 1 .. Len(s) : u[j] = s[j]
        /\ \A x : Occurs(u, x) <=> Occurs(s, x) \/ x = p
    BY <2>2, PushBackProperties, AppendProperties, LenProperties
  <2> HIDE DEF t, u
  <2>6. KeepsOrder(s, u)
    <3>1. Len(s) <= Len(u)
      BY <2>5
    <3> QED BY <2>2, <2>5, <3>1, LongerKeepsOrder
  <2> QED BY <2>1, <2>3, <2>4, <2>5, <2>6 DEF s
<1>7. ASSUME NEW i \in Priorities, NEW x \in Procs, InList(k.ready, i, x),
             InList(r.ready, i, x) \/ (x = r.running /\ r.m_priority[x] = i)
      PROVE  InList(c.ready, i, x)
  <2>1. ASSUME x = p, i = from PROVE FALSE
    <3>1. InList(r.ready, i, x) => i = r.m_priority[x]
      BY <1>4 DEF SchedInv, QueuesMatchStates, Holds
    <3> QED BY <1>5, <1>7, <2>1, <3>1
  <2> QED BY <1>6, <1>7, <2>1 DEF InList
<1>8. FairTo(k, r)
  BY <1>4, <1>6, <1>7, FairComposes DEF KeepsOrders
<1> QED
  BY <1>1, <1>2, <1>4, <1>8 DEF Preempts

\* A call that waits is fair, and its process is not ready afterwards.
LEMMA PollIsFair ==
  ASSUME NEW k, SchedInv(k), k.running # PID_NONE, k.running # PID_NULL,
         NEW which \in {BLOCKED_ON_RESOURCE, BLOCKED_ON_RECEIVE}
  PROVE  /\ FairTo(k, k_poll(k, which))
         /\ k_poll(k, which).m_state[k.running] # RDY
<1> DEFINE c == Polling(k, which)
           r == k_release_processor(c)
<1>1. k_poll(k, which) = r
  BY DEF k_poll, Polling
<1>2. /\ SchedulerTypeOK(c) /\ Consistent(c, c.running) /\ PcbInv(c)
      /\ c.m_state[k.running] = which /\ c.running = k.running /\ c.ready = k.ready
  BY PollingProperties
<1> HIDE DEF c
<1>3. FairTo(c, r) /\ r.m_state[c.running] # RDY
  BY <1>2, StatesDistinct, ReleaseIsFair, ReleaseKeepsOrder
<1> HIDE DEF r
<1> QED
  BY <1>1, <1>2, <1>3 DEF FairTo
=============================================================================
