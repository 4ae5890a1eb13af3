---------------------------- MODULE WallClockProofs ----------------------------
(***************************************************************************)
(* The wall clock keeps its pace, for every length of its units, every     *)
(* period, every number of memory blocks and every sequence of commands.   *)
(***************************************************************************)
EXTENDS WallClock, DataLemmas

-----------------------------------------------------------------------------
(* The messages that the clock gets. *)

\* Commands, and ticks no newer than the newest one.
Orders == [from : {"PID_KCD"}, cmd : Commands]
Ticks(newest) == [from : {"PID_CLOCK"}, tick : 0 .. newest]
Delayed(newest) == [tick : 0 .. newest, left : 1 .. PERIOD]

\* The ticks that count.
LiveMail(tick) == [from : {"PID_CLOCK"}, tick : {tick}]
LiveDelayed(tick) == [tick : {tick}, left : Int]

-----------------------------------------------------------------------------
(* The invariant. *)

\* The delayed queue is in the order of expiry.
DelayedInOrder == \A i, j \in 1 .. Len(delayed) : i <= j => delayed[i].left <= delayed[j].left

\* Every start and every stop was typed and is no longer in the mailbox.
TicksTyped == clock_tick + CountIn(mailbox, Orders) <= commands

\* There is one live tick while the clock runs, or it is about to be sent.
LiveDelayedCount == CountIn(delayed, LiveDelayed(clock_tick))
LiveMailCount == CountIn(mailbox, LiveMail(clock_tick))
Sending == pc \in {"request", "printf", "delayed_send"}
LiveCount ==
  LiveDelayedCount + LiveMailCount + (IF Sending THEN 1 ELSE 0) = IF running THEN 1 ELSE 0

\* The live tick is as old as the last display, or younger.
TickOnTime ==
  /\ \A i \in 1 .. Len(delayed) :
       delayed[i] \in LiveDelayed(clock_tick) => since + delayed[i].left >= PERIOD
  /\ \A i \in 1 .. Len(mailbox) : mailbox[i] \in LiveMail(clock_tick) => since = PERIOD

Types ==
  /\ free \in Nat
  /\ mailbox \in Seq(Orders \cup Ticks(clock_tick))
  /\ delayed \in Seq(Delayed(clock_tick))
  /\ clock_tick \in Nat
  /\ clock \in Time
  /\ pc \in {"receive", "request", "printf", "delayed_send", "release"}
  /\ displays \in Seq(Time)
  /\ commands \in 0 .. MAX_COMMANDS
  /\ since \in 0 .. PERIOD
  /\ running \in BOOLEAN

ClockInv ==
  /\ Types
  /\ DelayedInOrder
  /\ TicksTyped
  /\ BlocksAccounted
  /\ LiveCount
  /\ TickOnTime

ConstantsNat ==
  /\ HOURS \in Nat \ {0} /\ MINUTES \in Nat \ {0} /\ SECONDS \in Nat \ {0}
  /\ PERIOD \in Nat \ {0} /\ NUM_BLOCKS \in Nat \ {0} /\ MAX_COMMANDS \in Nat

LEMMA ConstantsAre == ConstantsNat
BY ClockAssumption DEF ConstantsNat

-----------------------------------------------------------------------------
(* The sequences of messages. *)

\* What a command or a tick is.
LEMMA MailFacts ==
  ASSUME NEW n \in Nat
  PROVE  /\ \A cmd \in Commands : FromKcd(cmd) \in Orders /\ FromKcd(cmd) \notin LiveMail(n)
         /\ \A m \in Orders : m.from = "PID_KCD" /\ m.cmd \in Commands /\ m \notin LiveMail(n)
         /\ \A m \in Ticks(n) : /\ m.from = "PID_CLOCK" /\ m.tick \in 0 .. n /\ m \notin Orders
                                /\ m \in LiveMail(n) <=> m.tick = n
         /\ \A t \in 0 .. n : /\ FromClock(t) \in Ticks(n)
                              /\ FromClock(t) \in LiveMail(n) <=> t = n
<1>1. \A cmd \in Commands : FromKcd(cmd) \in Orders /\ FromKcd(cmd) \notin LiveMail(n)
  BY DEF FromKcd, Orders, LiveMail
<1>2. \A m \in Orders : m.from = "PID_KCD" /\ m.cmd \in Commands /\ m \notin LiveMail(n)
  BY DEF Orders, LiveMail
<1>3. \A m \in Ticks(n) : /\ m.from = "PID_CLOCK" /\ m.tick \in 0 .. n /\ m \notin Orders
                          /\ m \in LiveMail(n) <=> m.tick = n
  BY DEF Orders, Ticks, LiveMail
<1>4. \A t \in 0 .. n : FromClock(t) \in Ticks(n) /\ (FromClock(t) \in LiveMail(n) <=> t = n)
  BY DEF FromClock, Ticks, LiveMail
<1> QED
  BY <1>1, <1>2, <1>3, <1>4

\* A tick of now is not live once it is outdated.
LEMMA NoneNewer ==
  ASSUME NEW n \in Nat, NEW mail \in Seq(Orders \cup Ticks(n)), NEW queue \in Seq(Delayed(n))
  PROVE  /\ mail \in Seq(Orders \cup Ticks(n + 1)) /\ queue \in Seq(Delayed(n + 1))
         /\ CountIn(mail, LiveMail(n + 1)) = 0 /\ CountIn(queue, LiveDelayed(n + 1)) = 0
         /\ \A i \in 1 .. Len(mail) : mail[i] \notin LiveMail(n + 1)
         /\ \A i \in 1 .. Len(queue) : queue[i] \notin LiveDelayed(n + 1)
<1>1. Orders \cup Ticks(n) \subseteq Orders \cup Ticks(n + 1) /\ Delayed(n) \subseteq Delayed(n + 1)
  <2>1. 0 .. n \subseteq 0 .. n + 1
    OBVIOUS
  <2> QED BY <2>1 DEF Ticks, Delayed
<1>2. mail \in Seq(Orders \cup Ticks(n + 1)) /\ queue \in Seq(Delayed(n + 1))
  BY <1>1, SeqMonotonic
<1>3. \A i \in 1 .. Len(mail) : mail[i] \notin LiveMail(n + 1)
  <2>1. ASSUME NEW m \in Orders \cup Ticks(n) PROVE m \notin LiveMail(n + 1)
    BY DEF Orders, Ticks, LiveMail
  <2>2. \A i \in 1 .. Len(mail) : mail[i] \in Orders \cup Ticks(n)
    BY ElementOfSeq
  <2> QED BY <2>1, <2>2
<1>4. \A i \in 1 .. Len(queue) : queue[i] \notin LiveDelayed(n + 1)
  <2>1. ASSUME NEW d \in Delayed(n) PROVE d \notin LiveDelayed(n + 1)
    BY DEF Delayed, LiveDelayed
  <2>2. \A i \in 1 .. Len(queue) : queue[i] \in Delayed(n)
    BY ElementOfSeq
  <2> QED BY <2>1, <2>2
<1>5. CountIn(mail, LiveMail(n + 1)) = 0 /\ CountIn(queue, LiveDelayed(n + 1)) = 0
  <2>1. \A L : (\A i \in 1 .. Len(mail) : mail[i] \notin L) => CountIn(mail, L) = 0
    BY CountNone
  <2>2. \A L : (\A i \in 1 .. Len(queue) : queue[i] \notin L) => CountIn(queue, L) = 0
    BY CountNone
  <2> QED BY <1>3, <1>4, <2>1, <2>2
<1> QED
  BY <1>2, <1>3, <1>4, <1>5

\* The counts and the lengths are numbers.
LEMMA CountsAre ==
  ASSUME Types
  PROVE  /\ LiveDelayedCount \in Nat /\ LiveMailCount \in Nat /\ CountIn(mailbox, Orders) \in Nat
         /\ Len(mailbox) \in Nat /\ Len(delayed) \in Nat /\ Len(displays) \in Nat
BY CountType, LenProperties DEF Types, LiveDelayedCount, LiveMailCount

\* What the mailbox is when its first message is taken.
LEMMA TakeMail ==
  ASSUME Types, mailbox # << >>
  PROVE  /\ Head(mailbox) \in Orders \cup Ticks(clock_tick)
         /\ Tail(mailbox) \in Seq(Orders \cup Ticks(clock_tick))
         /\ Len(Tail(mailbox)) = Len(mailbox) - 1 /\ Len(mailbox) \in Nat \ {0}
         /\ CountIn(mailbox, Orders) =
              (IF Head(mailbox) \in Orders THEN 1 ELSE 0) + CountIn(Tail(mailbox), Orders)
         /\ LiveMailCount =
              (IF Head(mailbox) \in LiveMail(clock_tick) THEN 1 ELSE 0)
              + CountIn(Tail(mailbox), LiveMail(clock_tick))
         /\ CountIn(Tail(mailbox), Orders) \in Nat
         /\ CountIn(Tail(mailbox), LiveMail(clock_tick)) \in Nat
         /\ \A i \in 1 .. Len(Tail(mailbox)) :
              Tail(mailbox)[i] = mailbox[i + 1] /\ i + 1 \in 1 .. Len(mailbox)
         /\ Head(mailbox) = mailbox[1] /\ 1 \in 1 .. Len(mailbox)
<1> DEFINE M == Orders \cup Ticks(clock_tick)
           rest == Tail(mailbox)
<1>1. /\ mailbox \in Seq(M) /\ Head(mailbox) \in M /\ rest \in Seq(M) /\ Len(rest) = Len(mailbox) - 1
      /\ \A i \in 1 .. Len(rest) : rest[i] = mailbox[i + 1]
      /\ Len(mailbox) \in Nat \ {0} /\ Head(mailbox) = mailbox[1]
  BY HeadTailProperties, EmptySeq DEF Types
<1> HIDE DEF M
<1>2. \A L : CountIn(mailbox, L) = (IF Head(mailbox) \in L THEN 1 ELSE 0) + CountIn(rest, L)
  BY <1>1, CountTail
<1>3. \A L : CountIn(rest, L) \in Nat
  BY <1>1, CountType
<1>4. \A i \in 1 .. Len(rest) : i + 1 \in 1 .. Len(mailbox)
  BY <1>1
<1>5. 1 \in 1 .. Len(mailbox)
  BY <1>1
<1> HIDE DEF rest
<1> QED
  BY <1>1, <1>2, <1>3, <1>4, <1>5 DEF M, rest, LiveMailCount

-----------------------------------------------------------------------------
(* The clock's own steps. *)

LEMMA ClockInit == Init => ClockInv
<1> SUFFICES ASSUME Init PROVE ClockInv
  OBVIOUS
<1>1. /\ mailbox = << >> /\ delayed = << >> /\ displays = << >>
      /\ clock_tick = 0 /\ clock = Midnight /\ pc = "receive" /\ free = NUM_BLOCKS
      /\ commands = 0 /\ since = 0 /\ running = FALSE
  BY DEF Init
<1>2. Len(mailbox) = 0 /\ Len(delayed) = 0 /\ Len(displays) = 0
  BY <1>1, EmptySeq
<1>3. Types
  <2>1. clock \in Time
    BY <1>1, ConstantsAre DEF ConstantsNat, Time, Midnight
  <2>2. mailbox \in Seq(Orders \cup Ticks(clock_tick)) /\ delayed \in Seq(Delayed(clock_tick))
    BY <1>1, EmptySeq
  <2>3. displays \in Seq(Time)
    BY <1>1, EmptySeq
  <2>4. running \in BOOLEAN
    BY <1>1
  <2>5. /\ free \in Nat /\ clock_tick \in Nat /\ commands \in 0 .. MAX_COMMANDS
        /\ since \in 0 .. PERIOD
    BY <1>1, ConstantsAre DEF ConstantsNat
  <2>6. pc \in {"receive", "request", "printf", "delayed_send", "release"}
    BY <1>1
  <2> QED BY <2>1, <2>2, <2>3, <2>4, <2>5, <2>6 DEF Types
<1>4. \A L : CountIn(mailbox, L) = 0
  BY <1>1, CountEmpty
<1>5. \A L : CountIn(delayed, L) = 0
  BY <1>1, CountEmpty
<1>6. DelayedInOrder /\ TickOnTime
  BY <1>2 DEF DelayedInOrder, TickOnTime
<1>7. TicksTyped /\ LiveCount
  BY <1>1, <1>4, <1>5 DEF TicksTyped, LiveCount, LiveDelayedCount, LiveMailCount, Sending
<1>8. BlocksAccounted
  BY <1>1, <1>2, ConstantsAre DEF ConstantsNat, BlocksAccounted
<1> QED
  BY <1>3, <1>6, <1>7, <1>8 DEF ClockInv

\* A command, or a stop, that outdates the ticks on their way.
LEMMA ReceiveOutdates ==
  ASSUME ClockInv, pc = "receive", mailbox # << >>, mailbox' = Tail(mailbox),
         Head(mailbox) \in Orders, clock' \in Time, clock_tick' = clock_tick + 1,
         \/ running' = TRUE /\ pc' = "request"
         \/ running' = FALSE /\ pc' = "release",
         UNCHANGED <<free, delayed, displays, commands, since>>
  PROVE  ClockInv'
<1>1. /\ Tail(mailbox) \in Seq(Orders \cup Ticks(clock_tick))
      /\ Len(Tail(mailbox)) = Len(mailbox) - 1 /\ Len(mailbox) \in Nat \ {0}
      /\ CountIn(mailbox, Orders) = 1 + CountIn(Tail(mailbox), Orders)
      /\ CountIn(Tail(mailbox), Orders) \in Nat
  BY TakeMail DEF ClockInv
<1>2. clock_tick \in Nat /\ delayed \in Seq(Delayed(clock_tick)) /\ commands \in Nat
  BY DEF ClockInv, Types
<1>3. /\ mailbox' \in Seq(Orders \cup Ticks(clock_tick')) /\ delayed' \in Seq(Delayed(clock_tick'))
      /\ CountIn(mailbox', LiveMail(clock_tick')) = 0
      /\ CountIn(delayed', LiveDelayed(clock_tick')) = 0
      /\ \A i \in 1 .. Len(mailbox') : mailbox'[i] \notin LiveMail(clock_tick')
      /\ \A i \in 1 .. Len(delayed') : delayed'[i] \notin LiveDelayed(clock_tick')
  BY <1>1, <1>2, NoneNewer
<1>4. Types'
  <2>1. running' \in BOOLEAN /\ clock_tick' \in Nat
    <3>1. running' = TRUE \/ running' = FALSE
      OBVIOUS
    <3>2. running' \in BOOLEAN
      BY <3>1
    <3> QED BY <1>2, <3>2
  <2>2. pc' \in {"receive", "request", "printf", "delayed_send", "release"}
    OBVIOUS
  <2> QED BY <1>3, <2>1, <2>2 DEF ClockInv, Types
<1>5. DelayedInOrder'
  BY DEF ClockInv, DelayedInOrder
<1>6. TicksTyped'
  <2>1. clock_tick + CountIn(mailbox, Orders) <= commands
    BY DEF ClockInv, TicksTyped
  <2>2. clock_tick + 1 + CountIn(Tail(mailbox), Orders) <= commands
    BY <1>1, <1>2, <2>1
  <2> QED BY <2>2 DEF TicksTyped
<1>7. BlocksAccounted'
  <2>1. free \in Nat /\ Len(delayed) \in Nat /\ Len(displays) \in Nat
    BY CountsAre DEF ClockInv, Types
  <2> QED BY <1>1, <2>1 DEF ClockInv, BlocksAccounted
<1>8. LiveCount'
  BY <1>3 DEF LiveCount, LiveDelayedCount, LiveMailCount, Sending
<1>9. TickOnTime'
  BY <1>3 DEF TickOnTime
<1> QED
  BY <1>4, <1>5, <1>6, <1>7, <1>8, <1>9 DEF ClockInv

\* A message that leaves the ticks on their way as they are.
LEMMA ReceiveKeeps ==
  ASSUME ClockInv, pc = "receive", mailbox # << >>, mailbox' = Tail(mailbox), clock' \in Time,
         \/ Head(mailbox) \in LiveMail(clock_tick) /\ pc' = "request"
         \/ Head(mailbox) \notin LiveMail(clock_tick) /\ pc' = "release",
         UNCHANGED <<free, delayed, displays, commands, since, clock_tick, running>>
  PROVE  ClockInv'
<1>1. /\ Tail(mailbox) \in Seq(Orders \cup Ticks(clock_tick))
      /\ Len(Tail(mailbox)) = Len(mailbox) - 1 /\ Len(mailbox) \in Nat \ {0}
      /\ CountIn(mailbox, Orders) =
           (IF Head(mailbox) \in Orders THEN 1 ELSE 0) + CountIn(Tail(mailbox), Orders)
      /\ LiveMailCount =
           (IF Head(mailbox) \in LiveMail(clock_tick) THEN 1 ELSE 0)
              + CountIn(Tail(mailbox), LiveMail(clock_tick))
      /\ CountIn(Tail(mailbox), Orders) \in Nat
      /\ CountIn(Tail(mailbox), LiveMail(clock_tick)) \in Nat
      /\ \A i \in 1 .. Len(Tail(mailbox)) :
           Tail(mailbox)[i] = mailbox[i + 1] /\ i + 1 \in 1 .. Len(mailbox)
  BY TakeMail DEF ClockInv
<1>2. clock_tick \in Nat /\ commands \in Nat
  BY DEF ClockInv, Types
<1>3. Types'
  BY <1>1 DEF ClockInv, Types
<1>4. DelayedInOrder'
  BY DEF ClockInv, DelayedInOrder
<1>5. TicksTyped'
  <2>1. clock_tick + CountIn(mailbox, Orders) <= commands
    BY DEF ClockInv, TicksTyped
  <2>2. clock_tick + CountIn(Tail(mailbox), Orders) <= commands
    BY <1>1, <1>2, <2>1
  <2> QED BY <2>2 DEF TicksTyped
<1>6. BlocksAccounted'
  <2>1. free \in Nat /\ Len(delayed) \in Nat /\ Len(displays) \in Nat
    BY CountsAre DEF ClockInv, Types
  <2> QED BY <1>1, <2>1 DEF ClockInv, BlocksAccounted
<1>7. LiveCount'
  <2>1. LiveDelayedCount \in Nat /\ LiveDelayedCount' = LiveDelayedCount
    BY CountsAre DEF ClockInv, LiveDelayedCount
  <2>2. LiveMailCount' = CountIn(Tail(mailbox), LiveMail(clock_tick))
    BY DEF LiveMailCount
  <2>3. LiveDelayedCount + LiveMailCount + 0 = IF running THEN 1 ELSE 0
    BY DEF ClockInv, LiveCount, Sending
  <2>4. CASE Head(mailbox) \in LiveMail(clock_tick) /\ pc' = "request"
    BY <1>1, <2>1, <2>2, <2>3, <2>4 DEF LiveCount, Sending
  <2>5. CASE Head(mailbox) \notin LiveMail(clock_tick) /\ pc' = "release"
    BY <1>1, <2>1, <2>2, <2>3, <2>5 DEF LiveCount, Sending
  <2> QED BY <2>4, <2>5
<1>8. TickOnTime'
  BY <1>1 DEF ClockInv, TickOnTime
<1> QED
  BY <1>3, <1>4, <1>5, <1>6, <1>7, <1>8 DEF ClockInv

LEMMA NextSecondType ==
  ASSUME NEW t \in Time
  PROVE  NextSecond(t) \in Time
<1>1. t.h \in 0 .. HOURS - 1 /\ t.m \in 0 .. MINUTES - 1 /\ t.s \in 0 .. SECONDS - 1
  BY DEF Time
<1>2. /\ (t.h + 1) % HOURS \in 0 .. HOURS - 1 /\ (t.m + 1) % MINUTES \in 0 .. MINUTES - 1
      /\ (t.s + 1) % SECONDS \in 0 .. SECONDS - 1
  BY <1>1, ConstantsAre DEF ConstantsNat
<1> QED
  BY <1>1, <1>2 DEF NextSecond, Time

LEMMA ClockReceive == ClockInv /\ Receive => ClockInv'
<1> SUFFICES ASSUME ClockInv, Receive PROVE ClockInv'
  OBVIOUS
<1>1. /\ pc = "receive" /\ mailbox # << >> /\ msg' = Head(mailbox) /\ mailbox' = Tail(mailbox)
      /\ UNCHANGED <<free, delayed, displays, commands, since>>
      /\ IF Head(mailbox).from = "PID_KCD" THEN HandleMessage(Head(mailbox).cmd)
                                           ELSE HandleTick(Head(mailbox).tick)
  BY DEF Receive
<1>2. Head(mailbox) \in Orders \cup Ticks(clock_tick)
  BY <1>1, TakeMail DEF ClockInv
<1>3. clock \in Time /\ clock_tick \in Nat
  BY DEF ClockInv, Types
<1>4. CASE Head(mailbox) \in Orders
  <2> DEFINE cmd == Head(mailbox).cmd
  <2>1. cmd \in Commands /\ HandleMessage(cmd) /\ Head(mailbox) \notin LiveMail(clock_tick)
    BY <1>1, <1>3, <1>4, MailFacts
  <2> HIDE DEF cmd
  <2>2. CASE /\ cmd.c = "R" \/ (cmd.c = "S" /\ IsTime(cmd.time))
             /\ clock' = cmd.time /\ Outdate /\ running' = TRUE /\ pc' = "request"
    <3>1. cmd.time \in Time
      <4>1. CASE cmd.c = "R"
        <5>1. cmd.time = Midnight
          BY <2>1, <4>1 DEF Commands
        <5> QED BY <5>1, ConstantsAre DEF ConstantsNat, Midnight, Time
      <4>2. CASE cmd.c = "S" /\ IsTime(cmd.time)
        <5>1. cmd.time \in SetTimes
          BY <2>1, <4>2 DEF Commands
        <5>2. cmd.time \in [h : Nat, m : Nat, s : Nat]
          BY <5>1, ClockAssumption
        <5> QED BY <4>2, <5>2, ConstantsAre DEF ConstantsNat, IsTime, Time
      <4> QED BY <2>2, <4>1, <4>2
    <3>2. clock' \in Time /\ clock_tick' = clock_tick + 1
      BY <2>2, <3>1 DEF Outdate
    <3> QED BY <1>1, <1>4, <2>2, <3>2, ReceiveOutdates
  <2>3. CASE cmd.c = "T" /\ Outdate /\ running' = FALSE /\ pc' = "release" /\ UNCHANGED clock
    <3>1. clock' \in Time /\ clock_tick' = clock_tick + 1
      BY <1>3, <2>3 DEF Outdate
    <3> QED BY <1>1, <1>4, <2>3, <3>1, ReceiveOutdates
  <2>4. CASE pc' = "release" /\ UNCHANGED <<clock, clock_tick, running>>
    BY <1>1, <1>3, <2>1, <2>4, ReceiveKeeps
  <2> QED BY <2>1, <2>2, <2>3, <2>4 DEF HandleMessage
<1>5. CASE Head(mailbox) \in Ticks(clock_tick)
  <2> DEFINE tick == Head(mailbox).tick
  <2>1. HandleTick(tick) /\ (Head(mailbox) \in LiveMail(clock_tick) <=> tick = clock_tick)
    BY <1>1, <1>3, <1>5, MailFacts
  <2> HIDE DEF tick
  <2>2. clock' \in Time
    BY <1>3, <2>1, NextSecondType DEF HandleTick
  <2>3. \/ Head(mailbox) \in LiveMail(clock_tick) /\ pc' = "request"
        \/ Head(mailbox) \notin LiveMail(clock_tick) /\ pc' = "release"
    BY <2>1 DEF HandleTick, IsCurrent
  <2>4. UNCHANGED <<clock_tick, running>>
    BY <2>1 DEF HandleTick
  <2> QED BY <1>1, <2>2, <2>3, <2>4, ReceiveKeeps
<1> QED
  BY <1>2, <1>4, <1>5

\* A step that changes neither the messages on their way nor the newest tick.
LEMMA QuietClock ==
  ASSUME ClockInv, UNCHANGED <<mailbox, delayed, clock_tick, commands, running>>,
         Types', BlocksAccounted', Sending' = Sending,
         since' = since \/ Sending
  PROVE  ClockInv'
<1>1. DelayedInOrder' /\ TicksTyped'
  BY DEF ClockInv, DelayedInOrder, TicksTyped
<1>2. LiveCount'
  BY DEF ClockInv, LiveCount, LiveDelayedCount, LiveMailCount
<1>3. TickOnTime'
  <2>1. CASE since' = since
    BY <2>1 DEF ClockInv, TickOnTime
  <2>2. CASE Sending
    <3>1. LiveDelayedCount \in Nat /\ LiveMailCount \in Nat
      BY CountsAre DEF ClockInv
    <3>2. LiveDelayedCount = 0 /\ LiveMailCount = 0
      BY <2>2, <3>1 DEF ClockInv, LiveCount
    <3>3. \A i \in 1 .. Len(mailbox) : mailbox[i] \notin LiveMail(clock_tick)
      BY <3>2, CountNone DEF ClockInv, Types, LiveMailCount
    <3>4. \A i \in 1 .. Len(delayed) : delayed[i] \notin LiveDelayed(clock_tick)
      BY <3>2, CountNone DEF ClockInv, Types, LiveDelayedCount
    <3> QED BY <3>3, <3>4 DEF TickOnTime
  <2> QED BY <2>1, <2>2
<1> QED
  BY <1>1, <1>2, <1>3 DEF ClockInv

LEMMA ClockRequestTick == ClockInv /\ RequestTick => ClockInv'
<1> SUFFICES ASSUME ClockInv, RequestTick PROVE ClockInv'
  OBVIOUS
<1>1. /\ pc = "request" /\ free > 0 /\ free' = free - 1 /\ pc' = "printf"
      /\ UNCHANGED <<mailbox, delayed, clock_tick, clock, displays, commands, since, running>>
  BY DEF RequestTick
<1>2. Types'
  BY <1>1 DEF ClockInv, Types
<1>3. BlocksAccounted'
  BY <1>1, CountsAre DEF ClockInv, Types, BlocksAccounted
<1>4. Sending' = Sending
  BY <1>1 DEF Sending
<1> QED
  BY <1>1, <1>2, <1>3, <1>4, QuietClock

LEMMA ClockPrintf == ClockInv /\ Printf => ClockInv'
<1> SUFFICES ASSUME ClockInv, Printf PROVE ClockInv'
  OBVIOUS
<1>1. /\ pc = "printf" /\ free > 0 /\ free' = free - 1 /\ pc' = "delayed_send"
      /\ displays' = Append(displays, clock) /\ since' = 0
      /\ UNCHANGED <<mailbox, delayed, clock_tick, clock, commands, running>>
  BY DEF Printf
<1>2. displays' \in Seq(Time) /\ Len(displays') = Len(displays) + 1
  BY <1>1, AppendProperties DEF ClockInv, Types
<1>3. Types'
  BY <1>1, <1>2, ConstantsAre DEF ConstantsNat, ClockInv, Types
<1>4. BlocksAccounted'
  BY <1>1, <1>2, CountsAre DEF ClockInv, Types, BlocksAccounted
<1>5. Sending' = Sending /\ Sending
  BY <1>1 DEF Sending
<1> QED
  BY <1>1, <1>3, <1>4, <1>5, QuietClock

LEMMA ClockCrtPrint == ClockInv /\ CrtPrint => ClockInv'
<1> SUFFICES ASSUME ClockInv, CrtPrint PROVE ClockInv'
  OBVIOUS
<1>1. /\ displays # << >> /\ displays' = Tail(displays) /\ free' = free + 1
      /\ UNCHANGED <<mailbox, delayed, clock_tick, clock, pc, commands, since, running>>
  BY DEF CrtPrint
<1>2. displays' \in Seq(Time) /\ Len(displays') = Len(displays) - 1
  BY <1>1, HeadTailProperties DEF ClockInv, Types
<1>3. Types'
  BY <1>1, <1>2 DEF ClockInv, Types
<1>4. BlocksAccounted'
  BY <1>1, <1>2, CountsAre DEF ClockInv, Types, BlocksAccounted
<1>5. Sending' = Sending
  BY <1>1 DEF Sending
<1> QED
  BY <1>1, <1>3, <1>4, <1>5, QuietClock

LEMMA ClockRelease == ClockInv /\ Release => ClockInv'
<1> SUFFICES ASSUME ClockInv, Release PROVE ClockInv'
  OBVIOUS
<1>1. /\ pc = "release" /\ free' = free + 1 /\ pc' = "receive"
      /\ UNCHANGED <<mailbox, delayed, clock_tick, clock, displays, commands, since, running>>
  BY DEF Release
<1>2. Types'
  BY <1>1 DEF ClockInv, Types
<1>3. BlocksAccounted'
  BY <1>1, CountsAre DEF ClockInv, Types, BlocksAccounted
<1>4. Sending' = Sending
  BY <1>1 DEF Sending
<1> QED
  BY <1>1, <1>2, <1>3, <1>4, QuietClock

LEMMA ClockKcdDispatch ==
  ASSUME ClockInv, NEW cmd \in Commands, KcdDispatch(cmd)
  PROVE  ClockInv'
<1> DEFINE m == FromKcd(cmd)
<1>1. /\ commands < MAX_COMMANDS /\ free > 0 /\ free' = free - 1 /\ commands' = commands + 1
      /\ mailbox' = Append(mailbox, m)
      /\ UNCHANGED <<delayed, clock_tick, clock, pc, displays, since, running>>
  BY DEF KcdDispatch
<1>2. clock_tick \in Nat /\ mailbox \in Seq(Orders \cup Ticks(clock_tick)) /\ commands \in Nat
  BY DEF ClockInv, Types
<1>3. m \in Orders /\ m \notin LiveMail(clock_tick)
  BY <1>2, MailFacts
<1> HIDE DEF m
<1>4. /\ mailbox' \in Seq(Orders \cup Ticks(clock_tick)) /\ Len(mailbox') = Len(mailbox) + 1
      /\ \A i \in 1 .. Len(mailbox) : mailbox'[i] = mailbox[i]
      /\ mailbox'[Len(mailbox) + 1] = m
      /\ Len(mailbox) \in Nat
  BY <1>1, <1>2, <1>3, AppendProperties, LenProperties
<1>5. \A L : CountIn(mailbox', L) = CountIn(mailbox, L) + IF m \in L THEN 1 ELSE 0
  <2> DEFINE M == Orders \cup Ticks(clock_tick)
  <2>1. mailbox \in Seq(M) /\ m \in M
    BY <1>2, <1>3
  <2> HIDE DEF M
  <2> QED BY <1>1, <2>1, CountAppend
<1>6. Types'
  BY <1>1, <1>4, ConstantsAre DEF ConstantsNat, ClockInv, Types
<1>7. DelayedInOrder'
  BY <1>1 DEF ClockInv, DelayedInOrder
<1>8. TicksTyped'
  <2>1. CountIn(mailbox', Orders) = CountIn(mailbox, Orders) + 1
    BY <1>3, <1>5
  <2>2. CountIn(mailbox, Orders) \in Nat /\ clock_tick + CountIn(mailbox, Orders) <= commands
    BY CountsAre DEF ClockInv, TicksTyped
  <2>3. clock_tick + (CountIn(mailbox, Orders) + 1) <= commands + 1
    BY <1>2, <2>2
  <2> QED BY <1>1, <2>1, <2>3 DEF TicksTyped
<1>9. BlocksAccounted'
  BY <1>1, <1>4, CountsAre DEF ClockInv, Types, BlocksAccounted
<1>10. LiveCount'
  <2>1. LiveMailCount' = LiveMailCount
    BY <1>1, <1>3, <1>5, CountsAre DEF ClockInv, LiveMailCount
  <2>2. LiveDelayedCount' = LiveDelayedCount
    BY <1>1 DEF LiveDelayedCount
  <2> QED BY <1>1, <2>1, <2>2 DEF ClockInv, LiveCount, Sending
<1>11. TickOnTime'
  <2>1. ASSUME NEW i \in 1 .. Len(mailbox'), mailbox'[i] \in LiveMail(clock_tick)
        PROVE  since = PERIOD
    <3>1. i # Len(mailbox) + 1
      BY <1>3, <1>4, <2>1
    <3>2. i \in 1 .. Len(mailbox)
      BY <1>4, <3>1
    <3> QED BY <1>4, <2>1, <3>2 DEF ClockInv, TickOnTime
  <2> QED BY <1>1, <2>1 DEF ClockInv, TickOnTime
<1> QED
  BY <1>6, <1>7, <1>8, <1>9, <1>10, <1>11 DEF ClockInv

LEMMA ClockDelayedSend == ClockInv /\ DelayedSend => ClockInv'
<1> SUFFICES ASSUME ClockInv, DelayedSend PROVE ClockInv'
  OBVIOUS
<1> DEFINE d == [tick |-> clock_tick, left |-> PERIOD]
           n == Len(delayed)
<1>1. /\ pc = "delayed_send" /\ delayed' = Append(delayed, d) /\ pc' = "release"
      /\ UNCHANGED <<free, mailbox, clock_tick, clock, displays, commands, since, running>>
  BY DEF DelayedSend, TickText
<1>2. clock_tick \in Nat /\ delayed \in Seq(Delayed(clock_tick)) /\ since \in Nat
  BY ConstantsAre DEF ConstantsNat, ClockInv, Types
<1>3. d \in Delayed(clock_tick) /\ d \in LiveDelayed(clock_tick) /\ d.left = PERIOD
  BY <1>2, ConstantsAre DEF ConstantsNat, Delayed, LiveDelayed
<1> HIDE DEF d
<1>4. /\ delayed' \in Seq(Delayed(clock_tick)) /\ Len(delayed') = n + 1
      /\ \A i \in 1 .. n : delayed'[i] = delayed[i]
      /\ delayed'[n + 1] = d
      /\ n \in Nat
  BY <1>1, <1>2, <1>3, AppendProperties, LenProperties
<1>5. \A i \in 1 .. n : delayed[i].left \in 1 .. PERIOD
  <2>1. \A i \in 1 .. n : delayed[i] \in Delayed(clock_tick)
    BY <1>2, ElementOfSeq
  <2> QED BY <2>1 DEF Delayed
<1>6. CountIn(delayed', LiveDelayed(clock_tick)) = LiveDelayedCount + 1
  BY <1>1, <1>2, <1>3, CountAppend DEF LiveDelayedCount
<1>7. Types'
  BY <1>1, <1>4 DEF ClockInv, Types
<1>8. DelayedInOrder'
  <2>1. ASSUME NEW i \in 1 .. n + 1, NEW j \in 1 .. n + 1, i <= j
        PROVE  delayed'[i].left <= delayed'[j].left
    <3>1. CASE j = n + 1
      <4>1. delayed'[j].left = PERIOD
        BY <1>3, <1>4, <3>1
      <4>2. i = n + 1 \/ i \in 1 .. n
        BY <1>4
      <4>3. i \in 1 .. n => delayed'[i].left \in 1 .. PERIOD
        BY <1>4, <1>5
      <4> QED BY <3>1, <4>1, <4>2, <4>3, ConstantsAre DEF ConstantsNat
    <3>2. CASE j # n + 1
      <4>1. i \in 1 .. n /\ j \in 1 .. n
        BY <1>4, <2>1, <3>2
      <4> QED BY <1>4, <2>1, <4>1 DEF ClockInv, DelayedInOrder
    <3> QED BY <3>1, <3>2
  <2> QED BY <1>4, <2>1 DEF DelayedInOrder
<1>9. TicksTyped'
  BY <1>1 DEF ClockInv, TicksTyped
<1>10. BlocksAccounted'
  BY <1>1, <1>4, CountsAre DEF ClockInv, Types, BlocksAccounted
<1>11. LiveCount'
  <2>1. LiveDelayedCount' = LiveDelayedCount + 1 /\ LiveDelayedCount \in Nat
    BY <1>1, <1>6, CountsAre DEF ClockInv, LiveDelayedCount
  <2>2. LiveMailCount' = LiveMailCount /\ LiveMailCount \in Nat
    BY <1>1, CountsAre DEF ClockInv, LiveMailCount
  <2>3. LiveDelayedCount + LiveMailCount + 1 = IF running THEN 1 ELSE 0
    BY <1>1 DEF ClockInv, LiveCount, Sending
  <2>4. ~ Sending'
    BY <1>1 DEF Sending
  <2> QED BY <1>1, <2>1, <2>2, <2>3, <2>4 DEF LiveCount
<1>12. TickOnTime'
  <2>1. ASSUME NEW i \in 1 .. n + 1, delayed'[i] \in LiveDelayed(clock_tick)
        PROVE  since + delayed'[i].left >= PERIOD
    <3>1. CASE i = n + 1
      BY <1>2, <1>3, <1>4, <3>1, ConstantsAre DEF ConstantsNat
    <3>2. CASE i # n + 1
      <4>1. i \in 1 .. n
        BY <1>4, <3>2
      <4> QED BY <1>4, <2>1, <4>1 DEF ClockInv, TickOnTime
    <3> QED BY <3>1, <3>2
  <2> QED BY <1>1, <1>4, <2>1 DEF ClockInv, TickOnTime
<1> QED
  BY <1>7, <1>8, <1>9, <1>10, <1>11, <1>12 DEF ClockInv

\* A millisecond moves the expired ticks, the first ones, to the mailbox.
LEMMA ClockTimerHandler == ClockInv /\ TimerHandler => ClockInv'
<1> SUFFICES ASSUME ClockInv, TimerHandler PROVE ClockInv'
  OBVIOUS
<1> DEFINE E == {i \in DOMAIN delayed : Expires(delayed[i])}
           n == Cardinality(E)
           N == Len(delayed)
           T == clock_tick
           moved == [i \in 1 .. n |-> FromClock(delayed[i].tick)]
           front == SubSeq(delayed, 1, n)
           back == SubSeq(delayed, n + 1, N)
           M == Orders \cup Ticks(clock_tick)
           ms == mailbox
<1>1. /\ mailbox' = mailbox \o moved
      /\ delayed' = [i \in 1 .. N - n |-> [delayed[n + i] EXCEPT !.left = @ - 1]]
      /\ since' = IF since < PERIOD THEN since + 1 ELSE since
      /\ UNCHANGED <<free, clock_tick, clock, pc, displays, commands, running>>
  BY DEF TimerHandler
<1>2. /\ T \in Nat /\ delayed \in Seq(Delayed(T)) /\ mailbox \in Seq(M) /\ since \in 0 .. PERIOD
      /\ N \in Nat /\ Len(mailbox) \in Nat /\ DOMAIN delayed = 1 .. N /\ PERIOD \in Nat \ {0}
  BY LenProperties, ConstantsAre DEF ConstantsNat, ClockInv, Types
<1>3. \A i \in 1 .. N : /\ delayed[i] \in Delayed(T)
                        /\ delayed[i].tick \in 0 .. T /\ delayed[i].left \in 1 .. PERIOD
  <2>1. \A i \in 1 .. N : delayed[i] \in Delayed(T)
    BY <1>2, ElementOfSeq
  <2> QED BY <2>1 DEF Delayed
<1>4. /\ n \in 0 .. N /\ E = 1 .. n
      /\ \A i \in 1 .. N : i \in 1 .. n <=> delayed[i].left = 1
  <2>1. E \subseteq 1 .. N /\ \A i \in 1 .. N : i \in E <=> delayed[i].left = 1
    BY <1>2, <1>3 DEF Expires
  <2>2. \A i \in 1 .. N : \A j \in E : i <= j => i \in E
    <3> SUFFICES ASSUME NEW i \in 1 .. N, NEW j \in E, i <= j PROVE i \in E
      OBVIOUS
    <3>1. j \in 1 .. N /\ delayed[j].left = 1 /\ delayed[i].left <= delayed[j].left
      BY <2>1 DEF ClockInv, DelayedInOrder
    <3> QED BY <1>3, <2>1, <3>1
  <2> HIDE DEF E
  <2>3. n \in 0 .. N /\ E = 1 .. n
    BY <1>2, <2>1, <2>2, PrefixSet
  <2> QED BY <2>1, <2>3
<1> HIDE DEF E, n, N, M, T
<1>5. \A i \in 1 .. n : i \in 1 .. N
  BY <1>2, <1>4
<1>6. /\ moved \in Seq(M) /\ Len(moved) = n
      /\ \A i \in 1 .. n : /\ moved[i] \notin Orders
                           /\ moved[i] \in LiveMail(T) <=> delayed[i] \in LiveDelayed(T)
  <2>1. \A i \in 1 .. n : /\ moved[i] \in Ticks(T)
                          /\ moved[i] \in LiveMail(T) <=> delayed[i].tick = T
    BY <1>2, <1>3, <1>5, MailFacts DEF T
  <2>2. \A i \in 1 .. n : moved[i] \notin Orders
    BY <1>2, <2>1, MailFacts DEF T
  <2>3. \A i \in 1 .. N : delayed[i] \in LiveDelayed(T) <=> delayed[i].tick = T
    BY <1>3 DEF LiveDelayed, Delayed
  <2>4. \A i \in 1 .. n : moved[i] \in M
    BY <2>1 DEF M, T
  <2>5. moved \in [1 .. n -> M]
    BY <2>4
  <2>6. n \in Nat
    BY <1>4
  <2>7. moved \in Seq(M) /\ Len(moved) = n
    BY <2>5, <2>6
  <2> HIDE DEF moved
  <2> QED BY <1>5, <2>1, <2>2, <2>3, <2>7
<1>7. /\ front \in Seq(Delayed(T)) /\ Len(front) = n
      /\ \A i \in 1 .. n : front[i] = delayed[i]
  <2>1. 1 \in Int /\ n \in Int /\ n \in Nat /\ \A i \in 1 .. n : delayed[i] \in Delayed(T)
    BY <1>3, <1>4, <1>5
  <2>2. /\ front \in Seq(Delayed(T))
        /\ Len(front) = IF 1 <= n THEN n - 1 + 1 ELSE 0
        /\ \A i \in 1 .. n - 1 + 1 : front[i] = delayed[1 + i - 1]
    BY <2>1, SubSeqProperties
  <2> HIDE DEF front
  <2>3. \A i \in 1 .. n : i \in 1 .. n - 1 + 1 /\ 1 + i - 1 = i
    BY <2>1
  <2> QED BY <2>1, <2>2, <2>3
<1>8. /\ back \in Seq(Delayed(T)) /\ Len(back) = N - n
      /\ \A i \in 1 .. N - n : back[i] = delayed[n + i] /\ n + i \in 1 .. N /\ delayed[n + i].left > 1
  <2>1. n \in Nat /\ n + 1 \in Int /\ N \in Int /\ \A i \in n + 1 .. N : delayed[i] \in Delayed(T)
    <3>1. \A i \in n + 1 .. N : i \in 1 .. N
      BY <1>4
    <3> QED BY <1>2, <1>3, <1>4, <3>1
  <2>2. /\ back \in Seq(Delayed(T))
        /\ Len(back) = IF n + 1 <= N THEN N - (n + 1) + 1 ELSE 0
        /\ \A i \in 1 .. N - (n + 1) + 1 : back[i] = delayed[(n + 1) + i - 1]
    BY <2>1, SubSeqProperties
  <2> HIDE DEF back
  <2>3. \A i \in 1 .. N - n : /\ i \in 1 .. N - (n + 1) + 1 /\ (n + 1) + i - 1 = n + i
                              /\ n + i \in 1 .. N /\ n + i \notin 1 .. n
    BY <1>2, <1>4
  <2>4. \A i \in 1 .. N - n : delayed[n + i].left > 1
    BY <1>3, <1>4, <2>3
  <2>5. Len(back) = N - n
    BY <1>2, <1>4, <2>2
  <2> QED BY <2>2, <2>3, <2>4, <2>5
<1>9. /\ delayed' \in Seq(Delayed(T)) /\ Len(delayed') = N - n
      /\ \A i \in 1 .. N - n : /\ delayed'[i].tick = delayed[n + i].tick
                               /\ delayed'[i].left = delayed[n + i].left - 1
                               /\ delayed'[i] \in LiveDelayed(T) <=> delayed[n + i] \in LiveDelayed(T)
  <2>1. \A i \in 1 .. N - n : delayed'[i] = [delayed[n + i] EXCEPT !.left = @ - 1]
    BY <1>1
  <2>2. ASSUME NEW d \in Delayed(T), d.left > 1
        PROVE  /\ [d EXCEPT !.left = @ - 1] \in Delayed(T)
               /\ [d EXCEPT !.left = @ - 1].tick = d.tick
               /\ [d EXCEPT !.left = @ - 1].left = d.left - 1
               /\ [d EXCEPT !.left = @ - 1] \in LiveDelayed(T) <=> d \in LiveDelayed(T)
    <3>1. /\ d.tick \in 0 .. T /\ d.left \in 1 .. PERIOD
          /\ [d EXCEPT !.left = @ - 1] = [tick |-> d.tick, left |-> d.left - 1]
      BY DEF Delayed
    <3>2. d.left - 1 \in 1 .. PERIOD /\ d.left \in Int /\ d.left - 1 \in Int
      BY <1>2, <2>2, <3>1
    <3>3. d \in LiveDelayed(T) <=> d.tick = T
      BY <3>2 DEF Delayed, LiveDelayed
    <3> QED BY <3>1, <3>2, <3>3 DEF Delayed, LiveDelayed
  <2>3. \A i \in 1 .. N - n : delayed[n + i] \in Delayed(T) /\ delayed[n + i].left > 1
    BY <1>3, <1>8
  <2>4. \A i \in 1 .. N - n : /\ delayed'[i] \in Delayed(T)
                              /\ delayed'[i].tick = delayed[n + i].tick
                              /\ delayed'[i].left = delayed[n + i].left - 1
                              /\ delayed'[i] \in LiveDelayed(T) <=> delayed[n + i] \in LiveDelayed(T)
    <3> SUFFICES ASSUME NEW i \in 1 .. N - n
                 PROVE  /\ delayed'[i] \in Delayed(T)
                        /\ delayed'[i].tick = delayed[n + i].tick
                        /\ delayed'[i].left = delayed[n + i].left - 1
                        /\ delayed'[i] \in LiveDelayed(T) <=> delayed[n + i] \in LiveDelayed(T)
      OBVIOUS
    <3> DEFINE d == delayed[n + i]
    <3>1. d \in Delayed(T) /\ d.left > 1 /\ delayed'[i] = [d EXCEPT !.left = @ - 1]
      BY <2>1, <2>3
    <3> HIDE DEF d
    <3>2. /\ [d EXCEPT !.left = @ - 1] \in Delayed(T)
          /\ [d EXCEPT !.left = @ - 1].tick = d.tick
          /\ [d EXCEPT !.left = @ - 1].left = d.left - 1
          /\ [d EXCEPT !.left = @ - 1] \in LiveDelayed(T) <=> d \in LiveDelayed(T)
      BY <2>2, <3>1
    <3> QED BY <3>1, <3>2 DEF d
  <2>5. N - n \in Nat /\ DOMAIN delayed' = 1 .. N - n
    BY <1>1, <1>2, <1>4
  <2>6. delayed' \in [1 .. N - n -> Delayed(T)]
    BY <1>1, <2>4
  <2> DEFINE k == N - n
  <2>7. k \in Nat /\ delayed' \in [1 .. k -> Delayed(T)]
    BY <2>5, <2>6
  <2> HIDE DEF k
  <2>8. delayed' \in Seq(Delayed(T)) /\ Len(delayed') = k
    BY <2>7
  <2> QED BY <2>4, <2>8 DEF k
<1>10. CountIn(front, LiveDelayed(T)) = CountIn(moved, LiveMail(T))
  <2>1. \A i \in 1 .. Len(front) : front[i] \in LiveDelayed(T) <=> moved[i] \in LiveMail(T)
    BY <1>6, <1>7
  <2> HIDE DEF front, moved
  <2> QED BY <1>6, <1>7, <2>1, CountSame
<1>11. CountIn(back, LiveDelayed(T)) = CountIn(delayed', LiveDelayed(T))
  <2>1. \A i \in 1 .. Len(back) : back[i] \in LiveDelayed(T) <=> delayed'[i] \in LiveDelayed(T)
    BY <1>8, <1>9
  <2> HIDE DEF back
  <2> QED BY <1>8, <1>9, <2>1, CountSame
<1>12. LiveDelayedCount = CountIn(front, LiveDelayed(T)) + CountIn(back, LiveDelayed(T))
  BY <1>2, <1>4, CountSplit DEF LiveDelayedCount, T, N
<1> HIDE DEF front, back, moved
<1>13. /\ mailbox' \in Seq(M) /\ Len(mailbox') = Len(mailbox) + n
       /\ \A i \in 1 .. Len(mailbox) + n :
            mailbox'[i] = IF i <= Len(mailbox) THEN mailbox[i] ELSE moved[i - Len(mailbox)]
       /\ \A L : CountIn(mailbox', L) = CountIn(mailbox, L) + CountIn(moved, L)
  <2>1. mailbox' \in Seq(M) /\ Len(mailbox') = Len(mailbox) + Len(moved)
        /\ \A i \in 1 .. Len(mailbox) + Len(moved) :
             mailbox'[i] = IF i <= Len(mailbox) THEN mailbox[i] ELSE moved[i - Len(mailbox)]
    BY <1>1, <1>2, <1>6, ConcatProperties
  <2>2. \A u, v \in Seq(M) : \A L : CountIn(u \o v, L) = CountIn(u, L) + CountIn(v, L)
    BY CountConcat
  <2> QED BY <1>1, <1>2, <1>6, <2>1, <2>2
<1>14. CountIn(moved, Orders) = 0
  BY <1>6, CountNone
<1>15. /\ CountIn(mailbox, Orders) \in Nat /\ CountIn(moved, LiveMail(T)) \in Nat
       /\ LiveMailCount \in Nat /\ LiveDelayedCount \in Nat
       /\ CountIn(delayed', LiveDelayed(T)) \in Nat
  BY <1>6, <1>9, CountType, CountsAre DEF ClockInv
<1>16. since' \in 0 .. PERIOD
  BY <1>1, <1>2
<1>17. Types'
  BY <1>1, <1>9, <1>13, <1>16 DEF ClockInv, Types, M, T
<1>18. DelayedInOrder'
  <2>1. ASSUME NEW i \in 1 .. N - n, NEW j \in 1 .. N - n, i <= j
        PROVE  delayed'[i].left <= delayed'[j].left
    <3>1. n + i \in 1 .. N /\ n + j \in 1 .. N /\ n + i <= n + j
      BY <1>4, <1>8, <2>1
    <3>2. delayed[n + i].left <= delayed[n + j].left
      BY <3>1 DEF ClockInv, DelayedInOrder, N
    <3> QED BY <1>3, <1>9, <3>1, <3>2
  <2> QED BY <1>9, <2>1 DEF DelayedInOrder
<1>19. TicksTyped'
  <2>1. CountIn(mailbox', Orders) = CountIn(mailbox, Orders)
    BY <1>13, <1>14, <1>15
  <2> QED BY <1>1, <2>1 DEF ClockInv, TicksTyped
<1>20. BlocksAccounted'
  <2>1. Len(mailbox') + Len(delayed') = Len(mailbox) + Len(delayed)
    BY <1>2, <1>4, <1>9, <1>13 DEF N
  <2>2. /\ Len(mailbox) \in Nat /\ Len(delayed) \in Nat /\ Len(displays) \in Nat /\ free \in Nat
        /\ Len(mailbox') \in Nat /\ Len(delayed') \in Nat
    BY <1>2, <1>4, <1>9, <1>13, CountsAre DEF ClockInv, Types
  <2> DEFINE held == (IF pc = "receive" THEN 0 ELSE 1)
                     + (IF pc \in {"printf", "delayed_send"} THEN 1 ELSE 0)
  <2>3. held \in Nat /\ held' = held /\ free' = free /\ displays' = displays
    BY <1>1
  <2>4. free + Len(mailbox) + Len(delayed) + Len(displays) + held = NUM_BLOCKS
    BY <2>2 DEF ClockInv, BlocksAccounted
  <2>5. free' + Len(mailbox') + Len(delayed') + Len(displays') + held' = NUM_BLOCKS
    <3> HIDE DEF held
    <3> QED BY <2>1, <2>2, <2>3, <2>4
  <2> QED BY <2>2, <2>3, <2>5 DEF BlocksAccounted
<1>21. LiveCount'
  <2>1. LiveMailCount' = LiveMailCount + CountIn(moved, LiveMail(T))
    BY <1>1, <1>13 DEF LiveMailCount, T
  <2>2. LiveDelayedCount' = CountIn(delayed', LiveDelayed(T))
    BY <1>1 DEF LiveDelayedCount, T
  <2>3. LiveDelayedCount' + LiveMailCount' = LiveDelayedCount + LiveMailCount
    BY <1>10, <1>11, <1>12, <1>15, <2>1, <2>2
  <2>4. Sending' = Sending /\ running' = running
    BY <1>1 DEF Sending
  <2>6. LiveDelayedCount + LiveMailCount + (IF Sending THEN 1 ELSE 0) = IF running THEN 1 ELSE 0
    BY DEF ClockInv, LiveCount
  <2> QED BY <2>3, <2>4, <2>6 DEF LiveCount
<1>22. TickOnTime'
  <2>1. \A i \in 1 .. N : delayed[i] \in LiveDelayed(T) => since + delayed[i].left >= PERIOD
    BY DEF ClockInv, TickOnTime, N, T
  <2>2. ASSUME NEW i \in 1 .. N - n, delayed'[i] \in LiveDelayed(T)
        PROVE  since' + delayed'[i].left >= PERIOD
    <3>1. n + i \in 1 .. N /\ delayed[n + i] \in LiveDelayed(T)
      BY <1>8, <1>9, <2>2
    <3>2. since + delayed[n + i].left >= PERIOD /\ delayed[n + i].left \in 1 .. PERIOD
      BY <1>3, <2>1, <3>1
    <3>3. delayed'[i].left = delayed[n + i].left - 1
      BY <1>9
    <3> QED BY <1>1, <1>2, <3>2, <3>3, SMTT(20)
  <2>3. ASSUME NEW i \in 1 .. Len(mailbox) + n, mailbox'[i] \in LiveMail(T)
        PROVE  since' = PERIOD
    <3>1. CASE i <= Len(mailbox)
      <4>1. i \in 1 .. Len(mailbox) /\ mailbox[i] \in LiveMail(T)
        BY <1>2, <1>13, <2>3, <3>1
      <4>2. since = PERIOD
        BY <4>1 DEF ClockInv, TickOnTime, T
      <4> QED BY <1>1, <1>2, <4>2
    <3>2. CASE ~ (i <= Len(mailbox))
      <4> DEFINE j == i - Len(mailbox)
      <4>1. j \in 1 .. n /\ moved[j] \in LiveMail(T)
        <5>1. j \in 1 .. n
          BY <1>2, <1>4, <3>2
        <5> QED BY <1>13, <2>3, <3>2, <5>1
      <4> HIDE DEF j
      <4>2. delayed[j] \in LiveDelayed(T) /\ j \in 1 .. N /\ delayed[j].left = 1
        BY <1>4, <1>5, <1>6, <4>1
      <4>3. since + 1 >= PERIOD
        BY <2>1, <4>2
      <4> QED BY <1>1, <1>2, <4>3
    <3> QED BY <3>1, <3>2
  <2> QED BY <1>1, <1>9, <1>13, <2>2, <2>3 DEF TickOnTime, T
<1> QED
  BY <1>17, <1>18, <1>19, <1>20, <1>21, <1>22 DEF ClockInv

LEMMA ClockNext == ClockInv /\ [Next]_vars => ClockInv'
<1> SUFFICES ASSUME ClockInv, [Next]_vars PROVE ClockInv'
  OBVIOUS
<1>1. CASE Receive
  BY <1>1, ClockReceive
<1>2. CASE RequestTick
  BY <1>2, ClockRequestTick
<1>3. CASE Printf
  BY <1>3, ClockPrintf
<1>4. CASE DelayedSend
  BY <1>4, ClockDelayedSend
<1>5. CASE Release
  BY <1>5, ClockRelease
<1>6. CASE CrtPrint
  BY <1>6, ClockCrtPrint
<1>7. CASE TimerHandler
  BY <1>7, ClockTimerHandler
<1>8. ASSUME NEW cmd \in Commands, KcdDispatch(cmd) PROVE ClockInv'
  BY <1>8, ClockKcdDispatch
<1>9. CASE UNCHANGED vars
  BY <1>9 DEF vars, ClockInv, Types, DelayedInOrder, TicksTyped, BlocksAccounted, LiveCount,
              LiveDelayedCount, LiveMailCount, Sending, TickOnTime
<1> QED
  BY <1>1, <1>2, <1>3, <1>4, <1>5, <1>6, <1>7, <1>8, <1>9 DEF Next, proc_clock

LEMMA ClockInvariant == Spec => []ClockInv
BY ClockInit, ClockNext, PTL DEF Spec

-----------------------------------------------------------------------------
(* What the invariant says. *)

LEMMA BlocksAreBounded == ClockInv => free <= NUM_BLOCKS
<1> SUFFICES ASSUME ClockInv PROVE free <= NUM_BLOCKS
  OBVIOUS
<1>1. /\ free \in Nat /\ Len(mailbox) \in Nat /\ Len(delayed) \in Nat /\ Len(displays) \in Nat
      /\ NUM_BLOCKS \in Nat
  BY CountsAre, ConstantsAre DEF ConstantsNat, ClockInv, Types
<1> QED
  BY <1>1 DEF ClockInv, BlocksAccounted

\* The clock's variables keep their types, the time of day among them
\* (sys_proc.c:76-112, 145-195).
THEOREM ClockTypes == Spec => []TypeOK
<1>1. ClockInv => TypeOK
  <2> SUFFICES ASSUME ClockInv PROVE TypeOK
    OBVIOUS
  <2>1. clock_tick \in 0 .. MAX_COMMANDS
    <3>1. clock_tick \in Nat /\ CountIn(mailbox, Orders) \in Nat /\ commands \in 0 .. MAX_COMMANDS
      BY CountsAre DEF ClockInv, Types
    <3>2. clock_tick + CountIn(mailbox, Orders) <= commands
      BY DEF ClockInv, TicksTyped
    <3> QED BY <3>1, <3>2, ConstantsAre DEF ConstantsNat
  <2>2. 0 .. clock_tick \subseteq 0 .. MAX_COMMANDS
    BY <2>1, ConstantsAre DEF ConstantsNat
  <2>3. mailbox \in Seq([from : {"PID_KCD"}, cmd : Commands]
                        \cup [from : {"PID_CLOCK"}, tick : 0 .. MAX_COMMANDS])
    <3>1. Orders \cup Ticks(clock_tick) \subseteq
            [from : {"PID_KCD"}, cmd : Commands] \cup [from : {"PID_CLOCK"}, tick : 0 .. MAX_COMMANDS]
      BY <2>2 DEF Orders, Ticks
    <3>2. mailbox \in Seq(Orders \cup Ticks(clock_tick))
      BY DEF ClockInv, Types
    <3> QED BY <3>1, <3>2, SeqMonotonic
  <2>4. delayed \in Seq([tick : 0 .. MAX_COMMANDS, left : 1 .. PERIOD])
    <3>1. Delayed(clock_tick) \subseteq [tick : 0 .. MAX_COMMANDS, left : 1 .. PERIOD]
      BY <2>2 DEF Delayed
    <3>2. delayed \in Seq(Delayed(clock_tick))
      BY DEF ClockInv, Types
    <3> QED BY <3>1, <3>2, SeqMonotonic
  <2>5. free \in 0 .. NUM_BLOCKS
    <3>1. free \in Nat /\ NUM_BLOCKS \in Nat /\ free <= NUM_BLOCKS
      BY BlocksAreBounded, ConstantsAre DEF ConstantsNat, ClockInv, Types
    <3> QED BY <3>1
  <2> QED BY <2>1, <2>3, <2>4, <2>5 DEF ClockInv, Types, TypeOK
<1> QED
  BY <1>1, ClockInvariant, PTL

\* The clock neither doubles its pace nor dies, however commands and ticks on
\* their way interleave (sys_proc.c:76-112, 145-195).
THEOREM OneTickOnly == Spec => []OneLiveTick
<1>1. ClockInv => OneLiveTick
  <2> SUFFICES ASSUME ClockInv PROVE OneLiveTick
    OBVIOUS
  <2>1. clock_tick \in Nat
    BY DEF ClockInv, Types
  <2>2. {i \in DOMAIN delayed : IsCurrent(delayed[i].tick)} = Hits(delayed, LiveDelayed(clock_tick))
    <3>1. DOMAIN delayed = 1 .. Len(delayed) /\ \A i \in 1 .. Len(delayed) : delayed[i] \in Delayed(clock_tick)
      BY LenProperties, ElementOfSeq DEF ClockInv, Types
    <3>2. \A d \in Delayed(clock_tick) : IsCurrent(d.tick) <=> d \in LiveDelayed(clock_tick)
      BY <2>1 DEF Delayed, LiveDelayed, IsCurrent
    <3> QED BY <3>1, <3>2 DEF Hits
  <2>3. {i \in DOMAIN mailbox : mailbox[i].from = "PID_CLOCK" /\ IsCurrent(mailbox[i].tick)}
          = Hits(mailbox, LiveMail(clock_tick))
    <3>1. /\ DOMAIN mailbox = 1 .. Len(mailbox)
          /\ \A i \in 1 .. Len(mailbox) : mailbox[i] \in Orders \cup Ticks(clock_tick)
      BY LenProperties, ElementOfSeq DEF ClockInv, Types
    <3>2. \A m \in Orders \cup Ticks(clock_tick) :
            m.from = "PID_CLOCK" /\ IsCurrent(m.tick) <=> m \in LiveMail(clock_tick)
      BY <2>1, MailFacts DEF IsCurrent
    <3> QED BY <3>1, <3>2 DEF Hits
  <2> QED BY <2>2, <2>3 DEF ClockInv, LiveCount, LiveDelayedCount, LiveMailCount, Sending, CountIn,
                            OneLiveTick, LiveTicks
<1> QED
  BY <1>1, ClockInvariant, PTL

\* No block of the clock's messages, ticks and displays is lost or released
\* twice (sys_proc.c:60-112, 206-222).
THEOREM ClockBlocksAccounted == Spec => []BlocksAccounted
<1>1. ClockInv => BlocksAccounted
  BY DEF ClockInv
<1> QED
  BY <1>1, ClockInvariant, PTL

-----------------------------------------------------------------------------
(* The pace of the clock. *)

LEMMA ProductBound ==
  ASSUME NEW a \in Nat, NEW b \in Nat, a <= b, NEW c \in Nat
  PROVE  a * c \in Nat /\ b * c \in Nat /\ a * c <= b * c
OBVIOUS

\* The nested carries count the seconds of the day.
LEMMA NextSecondCounts ==
  ASSUME NEW t \in Time
  PROVE  SecondsOf(NextSecond(t)) = (SecondsOf(t) + 1) % (HOURS * MINUTES * SECONDS)
<1> DEFINE h == t.h
           m == t.m
           s == t.s
           minutes == h * MINUTES + m
           now == minutes * SECONDS + s
           day == HOURS * MINUTES * SECONDS
<1>1. /\ h \in 0 .. HOURS - 1 /\ m \in 0 .. MINUTES - 1 /\ s \in 0 .. SECONDS - 1
      /\ HOURS \in Nat \ {0} /\ MINUTES \in Nat \ {0} /\ SECONDS \in Nat \ {0}
  BY ConstantsAre DEF ConstantsNat, Time
<1>2. SecondsOf(t) = now
  BY DEF SecondsOf
<1> HIDE DEF h, m, s
<1>3. /\ h * MINUTES \in Nat /\ HOURS * MINUTES \in Nat
      /\ (h + 1) * MINUTES = h * MINUTES + MINUTES
      /\ (h + 1) * MINUTES <= HOURS * MINUTES
      /\ h + 1 = HOURS => (h + 1) * MINUTES = HOURS * MINUTES
  <2>1. h + 1 \in Nat /\ h + 1 <= HOURS /\ h \in Nat
    BY <1>1
  <2>2. (h + 1) * MINUTES <= HOURS * MINUTES /\ h * MINUTES \in Nat /\ HOURS * MINUTES \in Nat
    BY <1>1, <2>1, ProductBound
  <2> QED BY <1>1, <2>1, <2>2
<1>4. /\ minutes \in Nat /\ minutes + 1 <= HOURS * MINUTES
      /\ m + 1 = MINUTES => minutes + 1 = (h + 1) * MINUTES
  BY <1>1, <1>3
<1> DEFINE hm == HOURS * MINUTES
<1>5. day = hm * SECONDS /\ hm \in Nat /\ minutes + 1 <= hm
  BY <1>3, <1>4
<1> HIDE DEF minutes, hm, day
<1>6. /\ minutes * SECONDS \in Nat /\ day \in Nat
      /\ (minutes + 1) * SECONDS = minutes * SECONDS + SECONDS
      /\ (minutes + 1) * SECONDS <= day
      /\ minutes + 1 = hm => (minutes + 1) * SECONDS = day
      /\ minutes + 1 < hm => (minutes + 1) * SECONDS < day
  <2>1. minutes + 1 \in Nat /\ minutes \in Nat /\ SECONDS \in Nat \ {0}
    BY <1>1, <1>4
  <2>2. (minutes + 1) * SECONDS <= hm * SECONDS /\ minutes * SECONDS \in Nat /\ hm * SECONDS \in Nat
    BY <1>5, <2>1, ProductBound
  <2>3. ASSUME minutes + 1 < hm PROVE (minutes + 1) * SECONDS < hm * SECONDS
    <3>1. (minutes + 1) + 1 \in Nat /\ (minutes + 1) + 1 <= hm
      BY <1>5, <2>1, <2>3
    <3>2. ((minutes + 1) + 1) * SECONDS <= hm * SECONDS
      BY <1>5, <2>1, <3>1, ProductBound
    <3>3. ((minutes + 1) + 1) * SECONDS = (minutes + 1) * SECONDS + SECONDS
      BY <2>1
    <3>4. (minutes + 1) * SECONDS \in Nat
      BY <2>1
    <3> QED BY <1>5, <2>1, <2>2, <3>2, <3>3, <3>4
  <2>4. (minutes + 1) * SECONDS = minutes * SECONDS + SECONDS
    BY <2>1
  <2> QED BY <1>5, <2>2, <2>3, <2>4
<1>7. /\ now \in Nat /\ now + 1 <= day
      /\ s + 1 = SECONDS => now + 1 = (minutes + 1) * SECONDS
      /\ s + 1 < SECONDS => now + 1 = minutes * SECONDS + (s + 1) /\ now + 1 < day
  BY <1>1, <1>6
<1>8. /\ now + 1 < day => (now + 1) % day = now + 1
      /\ now + 1 = day => (now + 1) % day = 0
  <2>1. day \in Nat \ {0}
    BY <1>1, <1>6
  <2> DEFINE k == now + 1
  <2>2. k \in Nat /\ k <= day
    BY <1>7
  <2> HIDE DEF k, now
  <2>3. ASSUME k < day PROVE k % day = k
    <3>1. k \in 0 .. day - 1
      BY <2>1, <2>2, <2>3
    <3> QED BY <2>1, <3>1, ModBelow
  <2>4. ASSUME k = day PROVE k % day = 0
    <3>1. day \in day .. 2 * day - 1 /\ day - day = 0
      BY <2>1
    <3>2. day % day = day - day
      BY <2>1, <3>1, ModAbove
    <3> QED BY <2>4, <3>1, <3>2
  <2> QED BY <2>3, <2>4 DEF k
<1> DEFINE u == NextSecond(t)
<1>9. /\ u.s = (s + 1) % SECONDS
      /\ u.m = IF u.s = 0 THEN (m + 1) % MINUTES ELSE m
      /\ u.h = IF u.s = 0 /\ u.m = 0 THEN (h + 1) % HOURS ELSE h
  BY DEF NextSecond, h, m, s
<1>10. SecondsOf(u) = (u.h * MINUTES + u.m) * SECONDS + u.s
  BY DEF SecondsOf
<1> HIDE DEF u
<1>a. SUFFICES SecondsOf(u) = (now + 1) % day
  BY <1>2 DEF u, day, hm
<1> HIDE DEF now
<1>11. CASE s + 1 < SECONDS
  <2>1. s + 1 \in 0 .. SECONDS - 1
    BY <1>1, <1>11
  <2>2. u.s = s + 1 /\ u.s # 0
    BY <1>1, <1>9, <2>1, ModBelow
  <2>3. u.m = m /\ u.h = h
    BY <1>9, <2>2
  <2>4. SecondsOf(u) = minutes * SECONDS + (s + 1)
    BY <1>10, <2>2, <2>3 DEF minutes
  <2>5. SecondsOf(u) = now + 1 /\ now + 1 < day
    BY <1>7, <1>11, <2>4
  <2> QED BY <1>8, <2>5
<1>12. CASE ~ (s + 1 < SECONDS)
  <2>1. s + 1 = SECONDS /\ SECONDS % SECONDS = 0
    <3>1. SECONDS \in SECONDS .. 2 * SECONDS - 1 /\ SECONDS - SECONDS = 0
      BY <1>1
    <3>2. SECONDS % SECONDS = SECONDS - SECONDS
      BY <1>1, <3>1, ModAbove
    <3> QED BY <1>1, <1>12, <3>1, <3>2
  <2>2. u.s = 0
    BY <1>9, <2>1
  <2>3. CASE m + 1 < MINUTES
    <3>1. m + 1 \in 0 .. MINUTES - 1
      BY <1>1, <2>3
    <3>2. u.m = m + 1 /\ u.m # 0
      BY <1>1, <1>9, <2>2, <3>1, ModBelow
    <3>3. u.h = h
      BY <1>9, <2>2, <3>2
    <3>4. u.h * MINUTES + u.m = minutes + 1
      BY <1>1, <1>3, <3>2, <3>3 DEF minutes
    <3>5. minutes + 1 < hm
      BY <1>1, <1>3, <2>3 DEF minutes, hm
    <3>6. SecondsOf(u) = (minutes + 1) * SECONDS + 0
      BY <1>10, <2>2, <3>4
    <3>7. SecondsOf(u) = (minutes + 1) * SECONDS
      BY <1>4, <1>1, <3>6
    <3> QED BY <1>6, <1>7, <1>8, <2>1, <3>5, <3>7
  <2>4. CASE ~ (m + 1 < MINUTES)
    <3>1. m + 1 = MINUTES /\ MINUTES % MINUTES = 0
      <4>1. MINUTES \in MINUTES .. 2 * MINUTES - 1 /\ MINUTES - MINUTES = 0
        BY <1>1
      <4>2. MINUTES % MINUTES = MINUTES - MINUTES
        BY <1>1, <4>1, ModAbove
      <4> QED BY <1>1, <2>4, <4>1, <4>2
    <3>2. u.m = 0
      BY <1>9, <2>2, <3>1
    <3>3. u.h = (h + 1) % HOURS
      BY <1>9, <2>2, <3>2
    <3>4. CASE h + 1 < HOURS
      <4>1. h + 1 \in 0 .. HOURS - 1
        BY <1>1, <3>4
      <4>2. u.h = h + 1
        BY <1>1, <3>3, <4>1, ModBelow
      <4>3. u.h * MINUTES + u.m = minutes + 1
        BY <1>1, <1>3, <1>4, <3>1, <3>2, <4>2
      <4>4. minutes + 1 < hm
        <5>1. (h + 1) + 1 \in Nat /\ (h + 1) + 1 <= HOURS /\ h + 1 \in Nat
          BY <1>1, <3>4
        <5>2. ((h + 1) + 1) * MINUTES <= HOURS * MINUTES
          BY <1>1, <5>1, ProductBound
        <5>3. ((h + 1) + 1) * MINUTES = (h + 1) * MINUTES + MINUTES /\ (h + 1) * MINUTES \in Nat
          BY <1>1, <5>1
        <5> QED BY <1>1, <1>3, <1>4, <3>1, <5>2, <5>3 DEF hm
      <4>5. SecondsOf(u) = (minutes + 1) * SECONDS
        <5>1. SecondsOf(u) = (minutes + 1) * SECONDS + 0
          BY <1>10, <2>2, <4>3
        <5> QED BY <1>1, <1>4, <5>1
      <4> QED BY <1>6, <1>7, <1>8, <2>1, <4>4, <4>5
    <3>5. CASE ~ (h + 1 < HOURS)
      <4>1. h + 1 = HOURS /\ HOURS % HOURS = 0
        <5>1. HOURS \in HOURS .. 2 * HOURS - 1 /\ HOURS - HOURS = 0
          BY <1>1
        <5>2. HOURS % HOURS = HOURS - HOURS
          BY <1>1, <5>1, ModAbove
        <5> QED BY <1>1, <3>5, <5>1, <5>2
      <4>2. u.h = 0
        BY <3>3, <4>1
      <4>3. SecondsOf(u) = 0
        BY <1>1, <1>10, <2>2, <3>2, <4>2
      <4>4. minutes + 1 = hm
        BY <1>3, <1>4, <3>1, <4>1 DEF hm
      <4> QED BY <1>6, <1>7, <1>8, <2>1, <4>3, <4>4
    <3> QED BY <3>4, <3>5
  <2> QED BY <2>3, <2>4
<1> QED
  BY <1>11, <1>12

\* A tick that counts comes when g_timer_count, short of its signed overflow, has
\* counted a whole period since the last display, and adds one second
\* (sys_proc.c:85-91, 111).  Counts may be fewer milliseconds (module TimerKernel).
THEOREM NoTickIsEarly == Spec => NeverFast
<1> DEFINE A == pc = "receive" /\ pc' = "request" /\ msg'.from = "PID_CLOCK"
                => /\ since = PERIOD
                   /\ SecondsOf(clock') = (SecondsOf(clock) + 1) % (HOURS * MINUTES * SECONDS)
<1>1. ClockInv /\ [Next]_vars => [A]_vars
  <2> SUFFICES ASSUME ClockInv, Next, pc = "receive", pc' = "request", msg'.from = "PID_CLOCK"
               PROVE  /\ since = PERIOD
                      /\ SecondsOf(clock') = (SecondsOf(clock) + 1) % (HOURS * MINUTES * SECONDS)
    OBVIOUS
  <2>1. Receive
    <3>1. ASSUME NEW cmd \in Commands, KcdDispatch(cmd) PROVE FALSE
      BY <3>1 DEF KcdDispatch
    <3> QED BY <3>1 DEF Next, proc_clock, RequestTick, Printf, DelayedSend, Release, CrtPrint, TimerHandler
  <2>2. /\ mailbox # << >> /\ msg' = Head(mailbox)
        /\ IF Head(mailbox).from = "PID_KCD" THEN HandleMessage(Head(mailbox).cmd)
                                             ELSE HandleTick(Head(mailbox).tick)
    BY <2>1 DEF Receive
  <2>3. HandleTick(Head(mailbox).tick) /\ Head(mailbox).from = "PID_CLOCK"
    BY <2>2
  <2>4. clock_tick \in Nat /\ clock \in Time
    BY DEF ClockInv, Types
  <2>5. Head(mailbox) \in Orders \cup Ticks(clock_tick) /\ Head(mailbox) = mailbox[1] /\ 1 \in 1 .. Len(mailbox)
    BY <2>2, TakeMail DEF ClockInv
  <2>6. Head(mailbox) \in Ticks(clock_tick)
    BY <2>3, <2>4, <2>5, MailFacts
  <2>7. Head(mailbox).tick = clock_tick /\ clock' = NextSecond(clock)
    BY <2>3 DEF HandleTick, IsCurrent
  <2>8. mailbox[1] \in LiveMail(clock_tick)
    BY <2>4, <2>5, <2>6, <2>7, MailFacts
  <2>9. since = PERIOD
    BY <2>5, <2>8 DEF ClockInv, TickOnTime
  <2> QED BY <2>4, <2>7, <2>9, NextSecondCounts
<1> QED
  BY <1>1, ClockInvariant, PTL DEF Spec, NeverFast
-----------------------------------------------------------------------------
(* Memory for the clock. *)

\* Every unread message, every tick on its way and the tick that is about to be
\* sent goes back to a command of its own.
CommandsCover == Len(mailbox) + Len(delayed) + (IF Sending THEN 1 ELSE 0) <= commands

\* What the clock and its messages hold, as a number of blocks: BlocksAccounted
\* before and after a step gives the lengths of the queues without a look at them.
Lengths ==
  /\ Len(mailbox) \in Nat /\ Len(delayed) \in Nat /\ Len(displays) \in Nat
  /\ free \in Nat /\ commands \in Nat /\ NUM_BLOCKS \in Nat
  /\ pc \in {"receive", "request", "printf", "delayed_send", "release"}
  /\ BlocksAccounted

LEMMA LengthsAre == ClockInv => Lengths
<1> SUFFICES ASSUME ClockInv PROVE Lengths
  OBVIOUS
<1>1. Types /\ BlocksAccounted
  BY DEF ClockInv
<1> QED
  BY <1>1, CountsAre, ConstantsAre DEF ConstantsNat, Types, Lengths

LEMMA CoverNext ==
  ASSUME Lengths, Lengths', CommandsCover, [Next]_vars
  PROVE  CommandsCover'
<1>1. CASE Receive
  <2>1. pc = "receive" /\ UNCHANGED <<free, displays, commands>>
    BY <1>1 DEF Receive
  <2>2. pc' \in {"request", "release"}
    BY <1>1 DEF Receive, HandleMessage, HandleTick
  <2> QED BY <2>1, <2>2 DEF Lengths, BlocksAccounted, CommandsCover, Sending
<1>2. CASE RequestTick
  BY <1>2 DEF RequestTick, Lengths, BlocksAccounted, CommandsCover, Sending
<1>3. CASE Printf
  BY <1>3 DEF Printf, CommandsCover, Sending
<1>4. CASE DelayedSend
  <2>1. pc = "delayed_send" /\ pc' = "release" /\ UNCHANGED <<free, displays, commands>>
    BY <1>4 DEF DelayedSend
  <2> QED BY <2>1 DEF Lengths, BlocksAccounted, CommandsCover, Sending
<1>5. CASE Release
  BY <1>5 DEF Release, CommandsCover, Sending
<1>6. CASE CrtPrint
  BY <1>6 DEF CrtPrint, CommandsCover, Sending
<1>7. CASE TimerHandler
  <2>1. UNCHANGED <<free, displays, commands, pc>>
    BY <1>7 DEF TimerHandler
  <2> QED BY <2>1 DEF Lengths, BlocksAccounted, CommandsCover, Sending
<1>8. ASSUME NEW cmd \in Commands, KcdDispatch(cmd) PROVE CommandsCover'
  <2>1. free' = free - 1 /\ commands' = commands + 1 /\ UNCHANGED <<delayed, displays, pc>>
    BY <1>8 DEF KcdDispatch
  <2> QED BY <2>1 DEF Lengths, BlocksAccounted, CommandsCover, Sending
<1>9. CASE UNCHANGED vars
  BY <1>9 DEF vars, CommandsCover, Sending
<1> QED
  BY <1>1, <1>2, <1>3, <1>4, <1>5, <1>6, <1>7, <1>8, <1>9 DEF Next, proc_clock

LEMMA CoverInvariant == Spec => [](ClockInv /\ CommandsCover)
<1>1. Init => CommandsCover
  BY EmptySeq DEF Init, CommandsCover, Sending
<1>2. ClockInv /\ ClockInv' /\ CommandsCover /\ [Next]_vars => CommandsCover'
  <2>1. ClockInv' => Lengths'
    BY LengthsAre, PTL
  <2> QED BY <2>1, LengthsAre, CoverNext
<1> QED
  BY <1>1, <1>2, ClockInit, ClockNext, PTL DEF Spec

\* Below the bound the clock never waits for a block that only itself would
\* release (sys_proc.c:101, 108; the finding on sys_proc.c:105 is what happens
\* above it).
THEOREM ClockIsNotStarved == Spec => []ClockGetsMemory
<1>1. ClockInv /\ CommandsCover => ClockGetsMemory
  <2> SUFFICES ASSUME ClockInv, CommandsCover, pc \in {"request", "printf"},
                      commands < NUM_BLOCKS - 1, ~ (free > 0), displays = << >>
               PROVE  FALSE
    BY DEF ClockGetsMemory
  <2>1. Lengths /\ Len(displays) = 0
    BY LengthsAre, EmptySeq
  <2> QED BY <2>1 DEF Lengths, BlocksAccounted, CommandsCover, Sending
<1> QED
  BY <1>1, CoverInvariant, PTL
=============================================================================
