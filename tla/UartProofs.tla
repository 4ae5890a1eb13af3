------------------------------ MODULE UartProofs ------------------------------
(***************************************************************************)
(* The console keeps its invariants, whatever is typed and printed and     *)
(* for every size of the two buffers that leaves room for two characters   *)
(* above the threshold.                                                    *)
(***************************************************************************)
EXTENDS Uart, DataLemmas

-----------------------------------------------------------------------------
(* Input: the handler, the input buffer and KCD. *)

\* The permission to notify KCD is a token: the handler has it, or a
\* notification carries it to KCD, or KCD is reading with it.
InputToken ==
  \/ uart_iproc_notif_in /\ kcd_mail = 0 /\ kcd = "receive"
  \/ ~ uart_iproc_notif_in /\ kcd_mail = 1 /\ kcd = "receive"
  \/ ~ uart_iproc_notif_in /\ kcd_mail = 0 /\ kcd # "receive"

\* A line in the input buffer has taken the token from the handler.
LineTakesToken == (\E i \in DOMAIN inbuf : inbuf[i] = "cr") => ~ uart_iproc_notif_in

InputInv ==
  /\ inbuf \in Seq({"key", "cr"}) /\ Len(inbuf) <= InCapacity
  /\ uart_iproc_notif_in \in BOOLEAN
  /\ kcd \in {"receive", "getc", "dispatch"}
  /\ keys \in 0 .. MAX_KEYS
  /\ InputToken
  /\ LineTakesToken

LEMMA InputInit == Init => InputInv
<1> SUFFICES ASSUME Init PROVE InputInv
  OBVIOUS
<1>1. inbuf = << >> /\ << >> \in Seq({"key", "cr"}) /\ Len(<< >>) = 0 /\ DOMAIN << >> = {}
  BY EmptySeq DEF Init
<1>2. InCapacity \in Nat /\ MAX_KEYS \in Nat
  BY UartAssumption
<1> QED
  BY <1>1, <1>2 DEF Init, InputInv, InputToken, LineTakesToken

LEMMA InputRxIrq ==
  ASSUME InputInv, NEW ch \in {"key", "cr"}, RxIrq(ch)
  PROVE  InputInv'
<1>1. keys' \in 0 .. MAX_KEYS /\ kcd' = kcd
  BY UartAssumption DEF InputInv, RxIrq
<1>2. CASE Len(inbuf) = InCapacity
  <2>1. UNCHANGED <<inbuf, uart_iproc_notif_in, kcd_mail, kcd>>
    BY <1>2 DEF RxIrq
  <2> QED BY <1>1, <2>1 DEF InputInv, InputToken, LineTakesToken
<1>3. CASE Len(inbuf) # InCapacity
  <2>1. /\ inbuf' = Append(inbuf, ch)
        /\ IF ch = "cr" /\ uart_iproc_notif_in
           THEN uart_iproc_notif_in' = FALSE /\ kcd_mail' = kcd_mail + 1
           ELSE UNCHANGED <<uart_iproc_notif_in, kcd_mail>>
    BY <1>3 DEF RxIrq
  <2>2. /\ inbuf' \in Seq({"key", "cr"})
        /\ Len(inbuf') = Len(inbuf) + 1 /\ Len(inbuf) \in Nat
        /\ DOMAIN inbuf' = 1 .. Len(inbuf) + 1 /\ DOMAIN inbuf = 1 .. Len(inbuf)
        /\ \A i \in 1 .. Len(inbuf) : inbuf'[i] = inbuf[i]
        /\ inbuf'[Len(inbuf) + 1] = ch
    BY <2>1, AppendProperties, LenProperties DEF InputInv
  <2>3. InCapacity \in Nat /\ Len(inbuf) <= InCapacity
    BY UartAssumption DEF InputInv
  <2>4. Len(inbuf') <= InCapacity
    <3> DEFINE n == Len(inbuf)
    <3>1. n \in Nat /\ n <= InCapacity /\ n # InCapacity /\ Len(inbuf') = n + 1
      BY <1>3, <2>2, <2>3
    <3> HIDE DEF n
    <3> QED BY <2>3, <3>1
  <2>5. uart_iproc_notif_in' \in BOOLEAN /\ InputToken'
    <3>1. CASE ch = "cr" /\ uart_iproc_notif_in
      <4>1. kcd_mail = 0 /\ kcd = "receive"
        BY <3>1 DEF InputInv, InputToken
      <4>2. uart_iproc_notif_in' = FALSE /\ kcd_mail' = 1
        BY <2>1, <3>1, <4>1
      <4> QED BY <1>1, <4>1, <4>2 DEF InputToken
    <3>2. CASE ~ (ch = "cr" /\ uart_iproc_notif_in)
      <4>1. uart_iproc_notif_in' = uart_iproc_notif_in /\ kcd_mail' = kcd_mail
        BY <2>1, <3>2
      <4> QED BY <1>1, <4>1 DEF InputInv, InputToken
    <3> QED BY <3>1, <3>2
  <2>6. LineTakesToken'
    <3>1. ASSUME NEW i \in DOMAIN inbuf', inbuf'[i] = "cr"
          PROVE  ~ uart_iproc_notif_in'
      <4>1. uart_iproc_notif_in' = FALSE \/ uart_iproc_notif_in' = uart_iproc_notif_in
        BY <2>1
      <4>2. ch = "cr" => uart_iproc_notif_in' = FALSE
        BY <2>1 DEF InputInv
      <4>3. i \in 1 .. Len(inbuf) \/ i = Len(inbuf) + 1
        BY <2>2
      <4>4. i \in 1 .. Len(inbuf) => i \in DOMAIN inbuf /\ inbuf[i] = "cr"
        BY <2>2, <3>1
      <4>5. i = Len(inbuf) + 1 => ch = "cr"
        BY <2>2, <3>1
      <4>6. i \in 1 .. Len(inbuf) => ~ uart_iproc_notif_in
        BY <4>4 DEF InputInv, LineTakesToken
      <4> QED BY <4>1, <4>2, <4>3, <4>5, <4>6
    <3> QED BY <3>1 DEF LineTakesToken
  <2> QED BY <1>1, <2>2, <2>4, <2>5, <2>6 DEF InputInv
<1> QED
  BY <1>2, <1>3

LEMMA InputKcdGetc == InputInv /\ KcdGetc => InputInv'
<1> SUFFICES ASSUME InputInv, KcdGetc PROVE InputInv'
  OBVIOUS
<1>1. UNCHANGED <<kcd_mail, keys>> /\ kcd = "getc"
  BY DEF KcdGetc
<1>2. CASE uart_iproc_getc_none /\ kcd' = "receive"
  <2>1. inbuf' = inbuf /\ inbuf = << >> /\ uart_iproc_notif_in' = TRUE /\ kcd' = "receive"
    BY <1>2 DEF uart_iproc_getc_none
  <2>2. DOMAIN inbuf = {}
    BY <2>1
  <2> QED BY <1>1, <2>1, <2>2 DEF InputInv, InputToken, LineTakesToken
<1>3. CASE /\ uart_iproc_getc_some
           /\ kcd' = IF Head(inbuf) = "cr" THEN "dispatch" ELSE "getc"
  <2>1. inbuf # << >> /\ inbuf' = Tail(inbuf) /\ uart_iproc_notif_in' = uart_iproc_notif_in
    BY <1>3 DEF uart_iproc_getc_some
  <2>2. /\ inbuf' \in Seq({"key", "cr"})
        /\ Len(inbuf') = Len(inbuf) - 1 /\ Len(inbuf) \in Nat
    BY <2>1, HeadTailProperties, LenProperties DEF InputInv
  <2>3. InputToken' /\ ~ uart_iproc_notif_in'
    BY <1>1, <1>3, <2>1 DEF InputInv, InputToken
  <2>4. Len(inbuf') <= InCapacity
    BY <2>2, UartAssumption DEF InputInv
  <2> QED BY <1>1, <1>3, <2>1, <2>2, <2>3, <2>4 DEF InputInv, LineTakesToken
<1> QED
  BY <1>2, <1>3 DEF KcdGetc

LEMMA InputNext == InputInv /\ [Next]_vars => InputInv'
<1> SUFFICES ASSUME InputInv, [Next]_vars PROVE InputInv'
  OBVIOUS
<1>1. ASSUME UNCHANGED inVars PROVE InputInv'
  BY <1>1 DEF inVars, InputInv, InputToken, LineTakesToken
<1>2. ASSUME NEW ch \in {"key", "cr"}, RxIrq(ch) PROVE InputInv'
  BY <1>2, InputRxIrq
<1>3. CASE KcdReceive
  <2>1. /\ kcd = "receive" /\ kcd_mail > 0 /\ kcd' = "getc" /\ kcd_mail' = kcd_mail - 1
        /\ UNCHANGED <<inbuf, uart_iproc_notif_in, keys>>
    BY <1>3 DEF KcdReceive
  <2>2. InputToken'
    BY <2>1 DEF InputInv, InputToken
  <2> QED BY <2>1, <2>2 DEF InputInv, LineTakesToken
<1>4. CASE KcdGetc
  BY <1>4, InputKcdGetc
<1>5. CASE KcdDispatch
  BY <1>5 DEF KcdDispatch, InputInv, InputToken, LineTakesToken
<1>6. CASE ThreIrq
  BY <1>1, <1>6 DEF ThreIrq
<1>7. CASE Crt
  BY <1>1, <1>7 DEF Crt, CrtReceive, CrtClear, CrtPrint
<1>8. ASSUME NEW t \in Texts, DisplaySend(t) PROVE InputInv'
  BY <1>1, <1>8 DEF DisplaySend
<1>9. CASE UNCHANGED vars
  BY <1>1, <1>9 DEF vars
<1> QED
  BY <1>2, <1>3, <1>4, <1>5, <1>6, <1>7, <1>8, <1>9 DEF Next, Irq, Kcd

\* A completed line never waits in the input buffer without KCD knowing
\* (uart_irq.c:54-61, 98-109).
THEOREM LineNotMissed == Spec => []LineAnnounced
<1>1. InputInv => LineAnnounced
  BY DEF InputInv, InputToken, LineTakesToken, LineAnnounced
<1> QED
  BY <1>1, InputInit, InputNext, PTL DEF Spec

-----------------------------------------------------------------------------
(* Output notification: the handler, notif_out_msg and CRT. *)

\* Where the notification is in a mailbox.
Notices(mail) == {i \in DOMAIN mail : mail[i] = notif}

LEMMA NoticesAppend ==
  ASSUME NEW M, NEW mail \in Seq(M), NEW m \in M
  PROVE  /\ Append(mail, m) \in Seq(M)
         /\ Notices(Append(mail, m)) =
              Notices(mail) \cup IF m = notif THEN {Len(mail) + 1} ELSE {}
<1> DEFINE n == Len(mail)
           longer == Append(mail, m)
<1>1. /\ longer \in Seq(M) /\ n \in Nat /\ DOMAIN longer = 1 .. n + 1 /\ DOMAIN mail = 1 .. n
      /\ \A i \in 1 .. n : longer[i] = mail[i]
      /\ longer[n + 1] = m
  BY AppendProperties, LenProperties
<1> HIDE DEF n, longer
<1>2. Notices(longer) \subseteq Notices(mail) \cup IF m = notif THEN {n + 1} ELSE {}
  BY <1>1 DEF Notices
<1>3. Notices(mail) \cup (IF m = notif THEN {n + 1} ELSE {}) \subseteq Notices(longer)
  BY <1>1 DEF Notices
<1> QED
  BY <1>1, <1>2, <1>3 DEF n, longer

LEMMA NoticesTail ==
  ASSUME NEW M, NEW mail \in Seq(M), mail # << >>
  PROVE  /\ Tail(mail) \in Seq(M) /\ Head(mail) \in M
         /\ Head(mail) = notif <=> 1 \in Notices(mail)
         /\ Notices(mail) \subseteq Nat \ {0}
         /\ \A i \in Nat \ {0} : i \in Notices(Tail(mail)) <=> i + 1 \in Notices(mail)
         /\ Notices(Tail(mail)) \subseteq Nat \ {0}
<1> DEFINE n == Len(mail)
           shorter == Tail(mail)
<1>1. /\ shorter \in Seq(M) /\ Head(mail) \in M
      /\ n \in Nat \ {0} /\ DOMAIN mail = 1 .. n /\ DOMAIN shorter = 1 .. n - 1
      /\ \A i \in 1 .. n - 1 : shorter[i] = mail[i + 1]
  BY HeadTailProperties, LenProperties, EmptySeq
<1>2. Head(mail) = mail[1]
  OBVIOUS
<1> HIDE DEF n, shorter
<1>3. Head(mail) = notif <=> 1 \in Notices(mail)
  BY <1>1, <1>2 DEF Notices
<1>4. Notices(mail) \subseteq Nat \ {0} /\ Notices(shorter) \subseteq Nat \ {0}
  BY <1>1 DEF Notices
<1>5. ASSUME NEW i \in Nat \ {0} PROVE i \in Notices(shorter) <=> i + 1 \in Notices(mail)
  <2>1. i \in 1 .. n - 1 <=> i + 1 \in 1 .. n
    BY <1>1
  <2> QED BY <1>1, <2>1 DEF Notices
<1> QED
  BY <1>1, <1>3, <1>4, <1>5 DEF shorter

\* The one buffer of the notification: mtext says whether it is on its way, in
\* CRT's mailbox once or in CRT's hand, and the handler is asked for it only
\* while it is not.
RoomToken ==
  /\ mtext = 0 => crt # "clear" /\ Notices(crt_mail) = {}
  /\ mtext = 1 => ~ uart_iproc_notif_out
  /\ mtext = 1 /\ crt = "clear" => Notices(crt_mail) = {}
  /\ mtext = 1 /\ crt # "clear" => \E i : Notices(crt_mail) = {i}

NoticeInv ==
  /\ uart_iproc_notif_out \in BOOLEAN /\ mtext \in {0, 1}
  /\ crt \in {"receive", "clear", "print"}
  /\ crt_mail \in Seq(Texts \cup {notif})
  /\ output \in Seq(Texts)
  /\ RoomToken
  /\ RoomAnnounced

LEMMA NoticeInit == Init => NoticeInv
<1> SUFFICES ASSUME Init PROVE NoticeInv
  OBVIOUS
<1>1. crt_mail \in Seq(Texts \cup {notif}) /\ Notices(crt_mail) = {}
  BY EmptySeq DEF Init, Notices
<1>2. output = << >> /\ output \in Seq(Texts)
  BY EmptySeq DEF Init
<1>3. ~ uart_iproc_notif_out /\ mtext = 0 /\ crt = "receive"
  BY DEF Init
<1>4. RoomToken /\ RoomAnnounced
  BY <1>1, <1>2, <1>3 DEF RoomToken, RoomAnnounced
<1> QED
  BY <1>1, <1>2, <1>3, <1>4 DEF Init, NoticeInv

LEMMA NoticeThreIrq == NoticeInv /\ ThreIrq => NoticeInv'
<1> SUFFICES ASSUME NoticeInv, ThreIrq PROVE NoticeInv'
  OBVIOUS
<1>1. UNCHANGED <<crt, output>>
  BY DEF ThreIrq
<1>2. CASE UNCHANGED <<uart_iproc_notif_out, mtext, crt_mail>>
  BY <1>1, <1>2 DEF NoticeInv, RoomToken, RoomAnnounced, Notifications
<1>3. CASE ~ uart_iproc_notif_out /\ uart_iproc_notif_out' = FALSE /\ UNCHANGED <<mtext, crt_mail>>
  <2>1. uart_iproc_notif_out' = uart_iproc_notif_out
    BY <1>3 DEF NoticeInv
  <2> QED BY <1>1, <1>3, <2>1 DEF NoticeInv, RoomToken, RoomAnnounced, Notifications
<1>4. CASE /\ uart_iproc_notif_out /\ uart_iproc_notif_out' = FALSE
           /\ mtext' = 1 /\ crt_mail' = Append(crt_mail, notif)
  <2>1. mtext = 0 /\ crt # "clear" /\ Notices(crt_mail) = {}
    BY <1>4 DEF NoticeInv, RoomToken
  <2>2. /\ crt_mail' \in Seq(Texts \cup {notif})
        /\ Notices(crt_mail') = {Len(crt_mail) + 1}
    BY <1>4, <2>1, NoticesAppend DEF NoticeInv
  <2>3. RoomToken'
    <3>1. \E i : Notices(crt_mail') = {i}
      BY <2>2
    <3>2. mtext' = 1 /\ ~ uart_iproc_notif_out' /\ crt' # "clear"
      BY <1>1, <1>4, <2>1
    <3>3. mtext' # 0
      BY <3>2
    <3> QED BY <3>1, <3>2, <3>3 DEF RoomToken
  <2>4. Notifications' # {}
    BY <2>2 DEF Notifications, Notices
  <2>5. RoomAnnounced'
    BY <2>4 DEF RoomAnnounced
  <2> QED BY <1>1, <1>4, <2>2, <2>3, <2>5 DEF NoticeInv
<1> QED
  BY <1>2, <1>3, <1>4 DEF ThreIrq

LEMMA NoticeDisplaySend ==
  ASSUME NoticeInv, NEW t \in Texts, DisplaySend(t)
  PROVE  NoticeInv'
<1>1. /\ UNCHANGED <<uart_iproc_notif_out, mtext, crt, output>>
      /\ crt_mail' = Append(crt_mail, t)
  BY DEF DisplaySend
<1>2. t # notif
  BY UartAssumption
<1>3. crt_mail' \in Seq(Texts \cup {notif}) /\ Notices(crt_mail') = Notices(crt_mail)
  <2>1. crt_mail \in Seq(Texts \cup {notif}) /\ t \in Texts \cup {notif}
    BY DEF NoticeInv
  <2>2. /\ crt_mail' \in Seq(Texts \cup {notif})
        /\ Notices(crt_mail') =
             Notices(crt_mail) \cup IF t = notif THEN {Len(crt_mail) + 1} ELSE {}
    BY <1>1, <2>1, NoticesAppend
  <2> QED BY <1>2, <2>2
<1>4. RoomToken'
  BY <1>1, <1>3 DEF NoticeInv, RoomToken
<1>5. RoomAnnounced'
  BY <1>1, <1>3 DEF NoticeInv, RoomAnnounced, Notifications, Notices
<1> QED
  BY <1>1, <1>3, <1>4, <1>5 DEF NoticeInv

LEMMA NoticeCrtReceive == NoticeInv /\ CrtReceive => NoticeInv'
<1> SUFFICES ASSUME NoticeInv, CrtReceive PROVE NoticeInv'
  OBVIOUS
<1>1. /\ crt = "receive" /\ crt_mail # << >> /\ crt_mail' = Tail(crt_mail)
      /\ UNCHANGED <<uart_iproc_notif_out, mtext>>
  BY DEF CrtReceive
<1>2. /\ crt_mail' \in Seq(Texts \cup {notif}) /\ Head(crt_mail) \in Texts \cup {notif}
      /\ Head(crt_mail) = notif <=> 1 \in Notices(crt_mail)
      /\ Notices(crt_mail) \subseteq Nat \ {0}
      /\ \A i \in Nat \ {0} : i \in Notices(crt_mail') <=> i + 1 \in Notices(crt_mail)
      /\ Notices(crt_mail') \subseteq Nat \ {0}
  BY <1>1, NoticesTail DEF NoticeInv
<1>3. CASE Head(crt_mail) = notif
  <2>1. crt' = "clear" /\ output' = output
    BY <1>3 DEF CrtReceive
  <2>2. mtext = 1 /\ ~ uart_iproc_notif_out /\ Notices(crt_mail) = {1}
    BY <1>1, <1>2, <1>3 DEF NoticeInv, RoomToken
  <2>3. Notices(crt_mail') = {}
    BY <1>2, <2>2
  <2> QED BY <1>1, <1>2, <2>1, <2>2, <2>3 DEF NoticeInv, RoomToken, RoomAnnounced
<1>4. CASE Head(crt_mail) # notif
  <2>1. crt' = "print" /\ output' = Append(output, Head(crt_mail))
    BY <1>4 DEF CrtReceive
  <2>2. output' \in Seq(Texts)
    BY <1>2, <1>4, <2>1, AppendProperties DEF NoticeInv
  <2>3. mtext = 0 => Notices(crt_mail') = {}
    BY <1>1, <1>2 DEF NoticeInv, RoomToken
  <2>4. ASSUME mtext = 1 PROVE \E i : Notices(crt_mail') = {i}
    <3>1. PICK i : Notices(crt_mail) = {i}
      BY <1>1, <2>4 DEF NoticeInv, RoomToken
    <3>2. i \in Nat \ {0} /\ i # 1
      BY <1>2, <1>4, <3>1
    <3>3. i - 1 \in Nat \ {0} /\ (i - 1) + 1 = i
      BY <3>2
    <3>4. \A j \in Nat \ {0} : j + 1 = i => j = i - 1
      BY <3>2
    <3>5. Notices(crt_mail') = {i - 1}
      BY <1>2, <3>1, <3>3, <3>4
    <3> QED BY <3>5
  <2>5. RoomToken'
    BY <1>1, <2>1, <2>3, <2>4 DEF NoticeInv, RoomToken
  <2> QED BY <1>1, <1>2, <2>1, <2>2, <2>5 DEF NoticeInv, RoomAnnounced
<1> QED
  BY <1>3, <1>4

LEMMA NoticeCrtPrint == NoticeInv /\ CrtPrint => NoticeInv'
<1> SUFFICES ASSUME NoticeInv, CrtPrint PROVE NoticeInv'
  OBVIOUS
<1>1. crt = "print" /\ UNCHANGED <<mtext, crt_mail>>
  BY DEF CrtPrint
<1>2. CASE output = << >> /\ crt' = "receive" /\ UNCHANGED <<uart_iproc_notif_out, output>>
  BY <1>1, <1>2 DEF NoticeInv, RoomToken, RoomAnnounced
<1>3. CASE UNCHANGED <<uart_iproc_notif_out, crt, output>>
  BY <1>1, <1>3 DEF NoticeInv, RoomToken, RoomAnnounced
<1>4. CASE AskForRoom /\ crt' = "receive" /\ output' = output
  <2>1. uart_iproc_notif_out' = (uart_iproc_notif_out \/ mtext = 0)
    BY <1>4 DEF AskForRoom
  <2>2. CASE mtext = 0
    <3>1. uart_iproc_notif_out' = TRUE
      BY <2>1, <2>2
    <3> QED BY <1>1, <1>4, <2>2, <3>1 DEF NoticeInv, RoomToken, RoomAnnounced
  <2>3. CASE mtext = 1
    <3>1. ~ uart_iproc_notif_out /\ Notices(crt_mail) # {}
      BY <1>1, <2>3 DEF NoticeInv, RoomToken
    <3>2. (uart_iproc_notif_out \/ mtext = 0) = FALSE
      BY <2>3, <3>1
    <3>4. uart_iproc_notif_out' = FALSE
      BY <2>1, <3>2
    <3>3. Notifications' # {}
      BY <1>1, <3>1 DEF Notifications, Notices
    <3> QED BY <1>1, <1>4, <2>3, <3>1, <3>4, <3>3 DEF NoticeInv, RoomToken, RoomAnnounced
  <2> QED BY <2>2, <2>3 DEF NoticeInv
<1>5. CASE /\ output # << >> /\ output' = Tail(output)
           /\ UNCHANGED <<uart_iproc_notif_out, crt>>
  <2>1. output' \in Seq(Texts)
    BY <1>5, HeadTailProperties DEF NoticeInv
  <2> QED BY <1>1, <1>5, <2>1 DEF NoticeInv, RoomToken, RoomAnnounced
<1> QED
  BY <1>2, <1>3, <1>4, <1>5 DEF CrtPrint

LEMMA NoticeNext == NoticeInv /\ [Next]_vars => NoticeInv'
<1> SUFFICES ASSUME NoticeInv, [Next]_vars PROVE NoticeInv'
  OBVIOUS
<1>1. ASSUME UNCHANGED crtVars PROVE NoticeInv'
  BY <1>1 DEF crtVars, NoticeInv, RoomToken, RoomAnnounced, Notifications
<1>2. ASSUME NEW ch \in {"key", "cr"}, RxIrq(ch) PROVE NoticeInv'
  BY <1>1, <1>2 DEF RxIrq
<1>3. CASE Kcd
  BY <1>1, <1>3 DEF Kcd, KcdReceive, KcdGetc, KcdDispatch
<1>4. CASE ThreIrq
  BY <1>4, NoticeThreIrq
<1>5. CASE CrtReceive
  BY <1>5, NoticeCrtReceive
<1>6. CASE CrtClear
  <2>1. crt = "clear" /\ mtext' = 0 /\ crt' = "print"
        /\ UNCHANGED <<uart_iproc_notif_out, crt_mail, output>>
    BY <1>6 DEF CrtClear, ClearNotification
  <2> QED BY <2>1 DEF NoticeInv, RoomToken, RoomAnnounced
<1>7. CASE CrtPrint
  BY <1>7, NoticeCrtPrint
<1>8. ASSUME NEW t \in Texts, DisplaySend(t) PROVE NoticeInv'
  BY <1>8, NoticeDisplaySend
<1>9. CASE UNCHANGED vars
  BY <1>1, <1>9 DEF vars
<1> QED
  BY <1>2, <1>3, <1>4, <1>5, <1>6, <1>7, <1>8, <1>9 DEF Next, Irq, Crt

\* There is never more than one notification of either kind on its way, so that
\* one buffer for each is enough (uart_irq.c:54-60, 66-72, 115-118; crt.c:20-23).
THEOREM OneBufferIsEnough == Spec => []OneNotificationInFlight
<1>1. InputInv /\ NoticeInv => OneNotificationInFlight
  <2> SUFFICES ASSUME InputInv, NoticeInv PROVE OneNotificationInFlight
    OBVIOUS
  <2>1. kcd_mail <= 1
    BY DEF InputInv, InputToken
  <2>2. Notifications = Notices(crt_mail)
    BY DEF Notifications, Notices
  <2>3. Notices(crt_mail) = {} \/ \E i : Notices(crt_mail) = {i}
    BY DEF NoticeInv, RoomToken
  <2>4. Cardinality(Notices(crt_mail)) \in {0, 1}
    BY <2>3, FS_EmptySet, FS_Singleton
  <2> QED BY <2>1, <2>2, <2>4 DEF OneNotificationInFlight
<1> QED
  BY <1>1, InputInit, InputNext, NoticeInit, NoticeNext, PTL DEF Spec

\* CRT never waits for room without the handler, or the notification, knowing
\* (uart_irq.c:66-72, 115-118).
THEOREM RoomNotMissed == Spec => []RoomAnnounced
<1>1. NoticeInv => RoomAnnounced
  BY DEF NoticeInv
<1> QED
  BY <1>1, NoticeInit, NoticeNext, PTL DEF Spec

-----------------------------------------------------------------------------
(* The characters of texts in the output buffer. *)

\* f[n] is what WithoutEcho keeps of the first n characters.
KeepsUpTo(f, buf, m) ==
  /\ f[0] = << >>
  /\ \A n \in 1 .. m :
       f[n] = IF buf[n] = "echo" THEN f[n - 1] ELSE Append(f[n - 1], buf[n])

LEMMA WithoutEchoLoop ==
  ASSUME NEW S, NEW buf \in Seq(S)
  PROVE  \E f \in [0 .. Len(buf) -> Seq(S)] :
           KeepsUpTo(f, buf, Len(buf)) /\ WithoutEcho(buf) = f[Len(buf)]
<1> DEFINE N == Len(buf)
           Loop(f) == f = [n \in 0 .. N |->
                             IF n = 0 THEN << >>
                             ELSE IF buf[n] = "echo" THEN f[n - 1] ELSE Append(f[n - 1], buf[n])]
           V == Seq(S)
           step == [n \in 1 .. N |-> [v \in V |-> IF buf[n] = "echo" THEN v ELSE Append(v, buf[n])]]
<1>1. N \in Nat /\ \A n \in 1 .. N : buf[n] \in S
  BY LenProperties, ElementOfSeq
<1>2. << >> \in V
  BY EmptySeq
<1>3. \A n \in 1 .. N : \A v \in V : Append(v, buf[n]) \in V
  BY <1>1, AppendProperties
<1> HIDE DEF N, V
<1>4. step \in [1 .. N -> [V -> V]]
  BY <1>3
<1>5. \A n \in 1 .. N : \A v \in V :
        step[n][v] = IF buf[n] = "echo" THEN v ELSE Append(v, buf[n])
  OBVIOUS
<1> HIDE DEF step
<1>6. PICK f \in [0 .. N -> V] : Iterates(f, << >>, step, N)
  BY <1>1, <1>2, <1>4, IterationExists
<1>7. \A n \in 1 .. N : n - 1 \in 0 .. N /\ f[n - 1] \in V
  BY <1>1
<1>8. KeepsUpTo(f, buf, N)
  BY <1>5, <1>6, <1>7 DEF Iterates, KeepsUpTo
<1>9. Loop(f)
  <2>1. \A n \in 0 .. N : n = 0 \/ n \in 1 .. N
    BY <1>1
  <2> QED BY <1>8, <2>1 DEF KeepsUpTo
<1>10. PICK g : Loop(g) /\ WithoutEcho(buf) = g[N]
  <2> DEFINE chosen == CHOOSE g : Loop(g)
  <2>1. Loop(chosen)
    BY <1>9
  <2>2. WithoutEcho(buf) = chosen[N]
    BY DEF WithoutEcho, N
  <2> HIDE DEF chosen
  <2> QED BY <2>1, <2>2
<1>11. /\ g[0] = << >>
       /\ \A n \in 1 .. N : g[n] = IF buf[n] = "echo" THEN g[n - 1] ELSE Append(g[n - 1], buf[n])
  <2>1. 0 \in 0 .. N /\ \A n \in 1 .. N : n \in 0 .. N /\ n # 0
    BY <1>1
  <2> QED BY <1>10, <2>1
<1>12. 0 .. N \subseteq {n \in 0 .. N : g[n] = f[n]}
  <2> DEFINE Same == {n \in 0 .. N : g[n] = f[n]}
  <2>1. 0 \in Same
    BY <1>1, <1>8, <1>11 DEF KeepsUpTo
  <2>2. ASSUME NEW n \in 0 .. N - 1, n \in Same PROVE n + 1 \in Same
    <3>1. n + 1 \in 1 .. N /\ n + 1 \in 0 .. N /\ (n + 1) - 1 = n /\ g[n] = f[n]
      BY <1>1, <2>2
    <3> QED BY <1>8, <1>11, <3>1 DEF KeepsUpTo
  <2> HIDE DEF Same
  <2>3. 0 .. N \subseteq Same
    BY <1>1, <2>1, <2>2, SegmentInduction
  <2> QED BY <2>3 DEF Same
<1>13. g[N] = f[N]
  <2>1. N \in 0 .. N
    BY <1>1
  <2> QED BY <1>12, <2>1
<1> QED
  BY <1>8, <1>10, <1>13 DEF N, V

LEMMA WithoutEchoEmpty == WithoutEcho(<< >>) = << >>
<1>1. << >> \in Seq({}) /\ Len(<< >>) = 0
  BY EmptySeq
<1>2. PICK f \in [0 .. 0 -> Seq({})] : KeepsUpTo(f, << >>, 0) /\ WithoutEcho(<< >>) = f[0]
  BY <1>1, WithoutEchoLoop
<1> QED
  BY <1>2 DEF KeepsUpTo

LEMMA WithoutEchoType ==
  ASSUME NEW S, NEW buf \in Seq(S)
  PROVE  WithoutEcho(buf) \in Seq(S)
<1>1. PICK f \in [0 .. Len(buf) -> Seq(S)] : WithoutEcho(buf) = f[Len(buf)]
  BY WithoutEchoLoop
<1>2. Len(buf) \in 0 .. Len(buf)
  BY LenProperties
<1> QED
  BY <1>1, <1>2

LEMMA WithoutEchoAppend ==
  ASSUME NEW S, NEW buf \in Seq(S), NEW ch \in S
  PROVE  WithoutEcho(Append(buf, ch)) =
           IF ch = "echo" THEN WithoutEcho(buf) ELSE Append(WithoutEcho(buf), ch)
<1> DEFINE n == Len(buf)
           longer == Append(buf, ch)
<1>1. /\ n \in Nat /\ longer \in Seq(S) /\ Len(longer) = n + 1
      /\ \A i \in 1 .. n : longer[i] = buf[i]
      /\ longer[n + 1] = ch
  BY AppendProperties, LenProperties
<1>2. PICK f \in [0 .. n -> Seq(S)] : KeepsUpTo(f, buf, n) /\ WithoutEcho(buf) = f[n]
  BY WithoutEchoLoop
<1> HIDE DEF n, longer
<1>3. PICK g \in [0 .. n + 1 -> Seq(S)] :
        KeepsUpTo(g, longer, n + 1) /\ WithoutEcho(longer) = g[n + 1]
  BY <1>1, WithoutEchoLoop
<1> DEFINE Same == {i \in 0 .. n : g[i] = f[i]}
<1>4. 0 \in Same
  BY <1>1, <1>2, <1>3 DEF KeepsUpTo
<1>5. ASSUME NEW i \in 0 .. n - 1, i \in Same PROVE i + 1 \in Same
  <2>1. i + 1 \in 1 .. n /\ i + 1 \in 1 .. n + 1 /\ i + 1 \in 0 .. n /\ (i + 1) - 1 = i
    BY <1>1
  <2>2. longer[i + 1] = buf[i + 1] /\ g[i] = f[i]
    BY <1>1, <1>5, <2>1
  <2> QED BY <1>2, <1>3, <2>1, <2>2 DEF KeepsUpTo
<1> HIDE DEF Same
<1>6. 0 .. n \subseteq Same
  BY <1>1, <1>4, <1>5, SegmentInduction
<1>7. g[n] = f[n]
  BY <1>1, <1>6 DEF Same
<1>8. n + 1 \in 1 .. n + 1 /\ (n + 1) - 1 = n
  BY <1>1
<1>9. g[n + 1] = IF ch = "echo" THEN g[n] ELSE Append(g[n], ch)
  BY <1>1, <1>3, <1>8 DEF KeepsUpTo
<1> QED
  BY <1>2, <1>3, <1>7, <1>9 DEF longer

\* A concatenation grows by what its second part grows by.
Shifts(u, v, c) == Append(u \o v, c) = u \o Append(v, c)

LEMMA AppendConcat ==
  ASSUME NEW S, NEW u \in Seq(S), NEW v \in Seq(S), NEW c \in S
  PROVE  Shifts(u, v, c)
<1>1. <<c>> \in Seq(S) /\ u \o v \in Seq(S)
  BY ConcatProperties
<1>2. Append(u \o v, c) = (u \o v) \o <<c>> /\ Append(v, c) = v \o <<c>>
  BY <1>1, AppendIsConcat
<1>3. (u \o v) \o <<c>> = u \o (v \o <<c>>)
  BY <1>1, ConcatAssociative
<1> QED
  BY <1>2, <1>3 DEF Shifts

LEMMA WithoutEchoTail ==
  ASSUME NEW S, NEW buf \in Seq(S), buf # << >>
  PROVE  WithoutEcho(buf) =
           (IF Head(buf) = "echo" THEN << >> ELSE <<Head(buf)>>) \o WithoutEcho(Tail(buf))
<1> DEFINE n == Len(buf)
           rest == Tail(buf)
           front == IF Head(buf) = "echo" THEN << >> ELSE <<Head(buf)>>
<1>1. /\ n \in Nat \ {0} /\ rest \in Seq(S) /\ Len(rest) = n - 1
      /\ \A i \in 1 .. n - 1 : rest[i] = buf[i + 1]
      /\ Head(buf) = buf[1] /\ buf[1] \in S
  BY HeadTailProperties, LenProperties, EmptySeq, ElementOfSeq
<1>2. PICK f \in [0 .. n -> Seq(S)] : KeepsUpTo(f, buf, n) /\ WithoutEcho(buf) = f[n]
  BY WithoutEchoLoop
<1> HIDE DEF n, rest
<1>3. PICK g \in [0 .. n - 1 -> Seq(S)] :
        KeepsUpTo(g, rest, n - 1) /\ WithoutEcho(rest) = g[n - 1]
  <2>1. \E g \in [0 .. Len(rest) -> Seq(S)] :
          KeepsUpTo(g, rest, Len(rest)) /\ WithoutEcho(rest) = g[Len(rest)]
    BY <1>1, WithoutEchoLoop
  <2> QED BY <1>1, <2>1
<1>4. front \in Seq(S) /\ f[1] = front
  <2>1. 1 \in 1 .. n /\ 1 - 1 = 0
    BY <1>1
  <2>2. f[1] = IF buf[1] = "echo" THEN << >> ELSE Append(<< >>, buf[1])
    BY <1>2, <2>1 DEF KeepsUpTo
  <2>3. Append(<< >>, buf[1]) = <<buf[1]>>
    OBVIOUS
  <2>4. << >> \in Seq(S) /\ <<buf[1]>> \in Seq(S)
    BY <1>1
  <2> QED BY <1>1, <2>2, <2>3, <2>4
<1> HIDE DEF front
<1> DEFINE Same == {i \in 0 .. n - 1 : f[i + 1] = front \o g[i]}
<1>5. 0 \in Same
  <2>1. g[0] = << >> /\ 0 \in 0 .. n - 1
    BY <1>1, <1>3 DEF KeepsUpTo
  <2> QED BY <1>4, <2>1, ConcatEmptySeq
<1>6. ASSUME NEW i \in 0 .. (n - 1) - 1, i \in Same PROVE i + 1 \in Same
  <2>1. /\ i + 1 \in 1 .. n - 1 /\ i + 1 \in 0 .. n - 1 /\ (i + 1) - 1 = i /\ i \in 0 .. n - 1
        /\ (i + 1) + 1 \in 1 .. n /\ ((i + 1) + 1) - 1 = i + 1
    BY <1>1
  <2>2. rest[i + 1] = buf[(i + 1) + 1] /\ f[i + 1] = front \o g[i]
    BY <1>1, <1>6, <2>1
  <2> DEFINE c == rest[i + 1]
  <2>3. c \in S
    BY <1>1, <2>1, ElementOfSeq
  <2>4. g[i + 1] = IF c = "echo" THEN g[i] ELSE Append(g[i], c)
    BY <1>3, <2>1 DEF KeepsUpTo
  <2>5. f[(i + 1) + 1] = IF c = "echo" THEN f[i + 1] ELSE Append(f[i + 1], c)
    BY <1>2, <2>1, <2>2 DEF KeepsUpTo
  <2> HIDE DEF c
  <2>6. g[i] \in Seq(S)
    BY <2>1
  <2>7. Append(front \o g[i], c) = front \o Append(g[i], c)
    <3>1. Shifts(front, g[i], c)
      BY <1>4, <2>3, <2>6, AppendConcat
    <3> QED BY <3>1 DEF Shifts
  <2> QED BY <2>1, <2>2, <2>4, <2>5, <2>7
<1> HIDE DEF Same
<1>7. n - 1 \in Nat
  BY <1>1
<1>8. 0 .. n - 1 \subseteq Same
  BY <1>5, <1>6, <1>7, SegmentInduction
<1>9. f[n] = front \o g[n - 1]
  <2>1. n - 1 \in 0 .. n - 1 /\ (n - 1) + 1 = n
    BY <1>7, <1>1
  <2> QED BY <1>8, <2>1 DEF Same
<1> QED
  BY <1>1, <1>2, <1>3, <1>9 DEF front, rest

-----------------------------------------------------------------------------
(* The characters of a sequence of texts. *)

\* f[n] joins the first n sequences.
JoinsUpTo(f, ss, m) ==
  /\ f[0] = << >>
  /\ \A n \in 1 .. m : f[n] = f[n - 1] \o ss[n]

LEMMA FlattenLoop ==
  ASSUME NEW S, NEW ss \in Seq(Seq(S))
  PROVE  \E f \in [0 .. Len(ss) -> Seq(S)] :
           JoinsUpTo(f, ss, Len(ss)) /\ FlattenSeq(ss) = f[Len(ss)]
<1> DEFINE N == Len(ss)
           Loop(f) == f = [n \in 1 .. N |-> IF n = 1 THEN ss[n] ELSE f[n - 1] \o ss[n]]
           V == Seq(S)
           step == [n \in 1 .. N |-> [v \in V |-> v \o ss[n]]]
<1>1. N \in Nat /\ \A n \in 1 .. N : ss[n] \in V
  BY LenProperties, ElementOfSeq
<1>2. << >> \in V /\ \A v \in V : << >> \o v = v
  BY EmptySeq, ConcatEmptySeq
<1>3. \A n \in 1 .. N : \A v \in V : v \o ss[n] \in V
  BY <1>1, ConcatProperties
<1>e. N = 0 => ss = << >>
  BY EmptySeq
<1> HIDE DEF N, V
<1>4. step \in [1 .. N -> [V -> V]]
  BY <1>3
<1>5. \A n \in 1 .. N : \A v \in V : step[n][v] = v \o ss[n]
  OBVIOUS
<1> HIDE DEF step
<1>6. PICK f \in [0 .. N -> V] : Iterates(f, << >>, step, N)
  BY <1>1, <1>2, <1>4, IterationExists
<1>7. \A n \in 1 .. N : n - 1 \in 0 .. N /\ f[n - 1] \in V
  BY <1>1
<1>8. JoinsUpTo(f, ss, N)
  BY <1>5, <1>6, <1>7 DEF Iterates, JoinsUpTo
<1>9. CASE N = 0
  <2>1. FlattenSeq(ss) = ss
    BY <1>9 DEF FlattenSeq, N
  <2> QED BY <1>8, <1>9, <1>e, <2>1 DEF JoinsUpTo, N, V
<1>10. CASE N # 0
  <2> DEFINE h == [n \in 1 .. N |-> f[n]]
  <2>1. Loop(h)
    <3>1. ASSUME NEW n \in 1 .. N
          PROVE  h[n] = IF n = 1 THEN ss[n] ELSE h[n - 1] \o ss[n]
      <4>1. CASE n = 1
        <5>1. f[1] = f[0] \o ss[1] /\ f[0] = << >>
          <6>1. 1 \in 1 .. N /\ 1 - 1 = 0
            BY <4>1
          <6> QED BY <1>8, <6>1 DEF JoinsUpTo
        <5> QED BY <1>1, <1>2, <4>1, <5>1
      <4>2. CASE n # 1
        <5>1. n - 1 \in 1 .. N
          BY <1>1, <4>2
        <5> QED BY <1>8, <4>2, <5>1 DEF JoinsUpTo
      <4> QED BY <4>1, <4>2
    <3> QED BY <3>1
  <2> HIDE DEF h
  <2>2. PICK g : Loop(g) /\ FlattenSeq(ss) = g[N]
    <3> DEFINE chosen == CHOOSE g : Loop(g)
    <3>1. Loop(chosen)
      BY <2>1
    <3>2. FlattenSeq(ss) = chosen[N]
      BY <1>10 DEF FlattenSeq, N
    <3> HIDE DEF chosen
    <3> QED BY <3>1, <3>2
  <2>3. \A n \in 1 .. N : g[n] = IF n = 1 THEN ss[n] ELSE g[n - 1] \o ss[n]
    BY <2>2
  <2> DEFINE Same == {n \in 0 .. N : n = 0 \/ g[n] = f[n]}
  <2>4. 0 \in Same
    BY <1>1
  <2>5. ASSUME NEW n \in 0 .. N - 1, n \in Same PROVE n + 1 \in Same
    <3>1. n + 1 \in 1 .. N /\ n + 1 \in 0 .. N /\ (n + 1) - 1 = n
      BY <1>1
    <3>2. f[n + 1] = f[n] \o ss[n + 1]
      BY <1>8, <3>1 DEF JoinsUpTo
    <3>3. CASE n = 0
      <4>1. g[1] = ss[1] /\ f[0] = << >>
        BY <1>8, <2>3, <3>1, <3>3 DEF JoinsUpTo
      <4> QED BY <1>1, <1>2, <3>1, <3>2, <3>3, <4>1
    <3>4. CASE n # 0
      <4>1. n + 1 # 1
        BY <3>4
      <4>2. g[n + 1] = g[n] \o ss[n + 1] /\ g[n] = f[n]
        BY <2>3, <2>5, <3>1, <3>4, <4>1
      <4> QED BY <3>1, <3>2, <4>2
    <3> QED BY <3>3, <3>4
  <2> HIDE DEF Same
  <2>6. 0 .. N \subseteq Same
    BY <1>1, <2>4, <2>5, SegmentInduction
  <2>7. g[N] = f[N]
    BY <1>1, <1>10, <2>6 DEF Same
  <2> QED BY <1>8, <2>2, <2>7 DEF N, V
<1> QED
  BY <1>9, <1>10

LEMMA FlattenType ==
  ASSUME NEW S, NEW ss \in Seq(Seq(S))
  PROVE  FlattenSeq(ss) \in Seq(S)
<1>1. PICK f \in [0 .. Len(ss) -> Seq(S)] : FlattenSeq(ss) = f[Len(ss)]
  BY FlattenLoop
<1>2. Len(ss) \in 0 .. Len(ss)
  BY LenProperties
<1> QED
  BY <1>1, <1>2

\* A further sequence comes at the end.
LEMMA FlattenAppend ==
  ASSUME NEW S, NEW ss \in Seq(Seq(S)), NEW s \in Seq(S)
  PROVE  FlattenSeq(Append(ss, s)) = FlattenSeq(ss) \o s
<1> DEFINE n == Len(ss)
           longer == Append(ss, s)
<1>1. /\ n \in Nat /\ longer \in Seq(Seq(S)) /\ Len(longer) = n + 1
      /\ \A i \in 1 .. n : longer[i] = ss[i]
      /\ longer[n + 1] = s
  BY AppendProperties, LenProperties
<1>2. PICK f \in [0 .. n -> Seq(S)] : JoinsUpTo(f, ss, n) /\ FlattenSeq(ss) = f[n]
  BY FlattenLoop
<1> HIDE DEF n, longer
<1>3. PICK g \in [0 .. n + 1 -> Seq(S)] :
        JoinsUpTo(g, longer, n + 1) /\ FlattenSeq(longer) = g[n + 1]
  BY <1>1, FlattenLoop
<1> DEFINE Same == {i \in 0 .. n : g[i] = f[i]}
<1>4. 0 \in Same
  BY <1>1, <1>2, <1>3 DEF JoinsUpTo
<1>5. ASSUME NEW i \in 0 .. n - 1, i \in Same PROVE i + 1 \in Same
  <2>1. i + 1 \in 1 .. n /\ i + 1 \in 1 .. n + 1 /\ i + 1 \in 0 .. n /\ (i + 1) - 1 = i
    BY <1>1
  <2>2. longer[i + 1] = ss[i + 1] /\ g[i] = f[i]
    BY <1>1, <1>5, <2>1
  <2> QED BY <1>2, <1>3, <2>1, <2>2 DEF JoinsUpTo
<1> HIDE DEF Same
<1>6. 0 .. n \subseteq Same
  BY <1>1, <1>4, <1>5, SegmentInduction
<1>7. g[n] = f[n]
  BY <1>1, <1>6 DEF Same
<1>8. n + 1 \in 1 .. n + 1 /\ (n + 1) - 1 = n
  BY <1>1
<1>9. g[n + 1] = g[n] \o s
  BY <1>1, <1>3, <1>8 DEF JoinsUpTo
<1> QED
  BY <1>2, <1>3, <1>7, <1>9 DEF longer

-----------------------------------------------------------------------------
(* What CRT has printed. *)

\* The characters that go over the line.
Chars == {"echo", "ret", "nl"} \cup UNION {{t[i] : i \in DOMAIN t} : t \in Texts}

LEMMA CharsFacts ==
  /\ "echo" \in Chars /\ "ret" \in Chars /\ "nl" \in Chars
  /\ Texts \subseteq Seq(Chars)
  /\ \A t \in Texts : \A i \in 1 .. Len(t) : t[i] \in Chars /\ t[i] # "echo"
<1>1. "echo" \in Chars /\ "ret" \in Chars /\ "nl" \in Chars
  BY DEF Chars
<1>2. ASSUME NEW t \in Texts PROVE t \in Seq(Chars)
  <2>1. t \in Seq(STRING)
    BY UartAssumption
  <2>2. Len(t) \in Nat /\ DOMAIN t = 1 .. Len(t) /\ t \in [1 .. Len(t) -> STRING]
    BY <2>1, LenProperties
  <2>3. \A i \in DOMAIN t : t[i] \in Chars
    BY DEF Chars
  <2> DEFINE n == Len(t)
  <2>4. n \in Nat /\ t \in [1 .. n -> Chars]
    BY <2>2, <2>3
  <2> HIDE DEF n
  <2> QED BY <2>4
<1> HIDE DEF Chars
<1>3. ASSUME NEW t \in Texts, NEW i \in 1 .. Len(t) PROVE t[i] \in Chars /\ t[i] # "echo"
  <2>1. t \in Seq(Chars)
    BY <1>2
  <2>2. i \in DOMAIN t /\ t[i] \in Chars
    BY <2>1, LenProperties, ElementOfSeq
  <2> QED BY <2>2, UartAssumption
<1> QED
  BY <1>1, <1>2, <1>3

LEMMA WithReturnType ==
  ASSUME NEW ch \in Chars
  PROVE  WithReturn(ch) \in Seq(Chars)
<1>1. "ret" \in Chars /\ "nl" \in Chars
  BY CharsFacts
<1>2. <<"ret", "nl">> \in Seq(Chars) /\ <<ch>> \in Seq(Chars)
  BY <1>1
<1> QED
  BY <1>2 DEF WithReturn

\* A name for the provers, which hides what it stands for.
Strings == Seq(Chars)

\* Applying a function to a sequence, and to a longer one.
LEMMA MapType ==
  ASSUME NEW S, NEW F, \A x \in S : F[x] \in Strings, NEW s \in Seq(S)
  PROVE  [i \in DOMAIN s |-> F[s[i]]] \in Seq(Strings)
<1> DEFINE n == Len(s)
<1>1. n \in Nat /\ DOMAIN s = 1 .. n /\ \A i \in 1 .. n : s[i] \in S
  BY LenProperties, ElementOfSeq
<1> HIDE DEF n
<1>2. [i \in DOMAIN s |-> F[s[i]]] \in [1 .. n -> Strings]
  BY <1>1
<1> QED
  BY <1>1, <1>2

LEMMA MapAppend ==
  ASSUME NEW S, NEW F, \A x \in S : F[x] \in Strings, NEW s \in Seq(S), NEW e \in S
  PROVE  [i \in DOMAIN Append(s, e) |-> F[Append(s, e)[i]]] =
           Append([i \in DOMAIN s |-> F[s[i]]], F[e])
<1> DEFINE n == Len(s)
           longer == Append(s, e)
           image == [i \in DOMAIN s |-> F[s[i]]]
           limage == [i \in DOMAIN longer |-> F[longer[i]]]
<1>1. /\ n \in Nat /\ DOMAIN s = 1 .. n /\ longer \in Seq(S) /\ DOMAIN longer = 1 .. n + 1
      /\ \A i \in 1 .. n : longer[i] = s[i] /\ s[i] \in S
      /\ longer[n + 1] = e
  BY AppendProperties, LenProperties, ElementOfSeq
<1> HIDE DEF n, longer
<1>2. /\ DOMAIN image = 1 .. n /\ DOMAIN limage = 1 .. n + 1
      /\ image \in [1 .. n -> Strings] /\ limage \in [1 .. n + 1 -> Strings]
      /\ \A i \in 1 .. n : image[i] = F[s[i]] /\ limage[i] = F[s[i]]
      /\ limage[n + 1] = F[e] /\ F[e] \in Strings
  <2>1. \A i \in 1 .. n : i \in 1 .. n + 1
    BY <1>1
  <2>2. n + 1 \in 1 .. n + 1
    BY <1>1
  <2>3. \A i \in 1 .. n + 1 : longer[i] \in S
    BY <1>1
  <2> QED BY <1>1, <2>1, <2>2, <2>3
<1> HIDE DEF image, limage
<1>3. image \in Seq(Strings) /\ Len(image) = n /\ limage \in Seq(Strings) /\ Len(limage) = n + 1
  BY <1>1, <1>2
<1>4. /\ Append(image, F[e]) \in Seq(Strings) /\ Len(Append(image, F[e])) = n + 1
      /\ \A i \in 1 .. n : Append(image, F[e])[i] = image[i]
      /\ Append(image, F[e])[n + 1] = F[e]
  BY <1>2, <1>3, AppendProperties
<1>5. \A i \in 1 .. n + 1 : i \in 1 .. n \/ i = n + 1
  BY <1>1
<1>6. \A i \in 1 .. n + 1 : limage[i] = Append(image, F[e])[i]
  BY <1>2, <1>4, <1>5
<1>7. limage = Append(image, F[e])
  BY <1>3, <1>4, <1>6, SeqEqual
<1> QED
  BY <1>7 DEF image, limage, longer

\* The characters of one text, with the carriage returns.
ExpandedText(t) == FlattenSeq([j \in DOMAIN t |-> WithReturn(t[j])])

LEMMA ExpandedTextAppend ==
  ASSUME NEW t \in Seq(Chars), NEW ch \in Chars
  PROVE  /\ ExpandedText(t) \in Seq(Chars)
         /\ ExpandedText(Append(t, ch)) = ExpandedText(t) \o WithReturn(ch)
<1> DEFINE F == [c \in Chars |-> WithReturn(c)]
           image == [j \in DOMAIN t |-> F[t[j]]]
<1>1. F \in [Chars -> Seq(Chars)]
  BY WithReturnType
<1>2. /\ t \in Seq(Chars) /\ DOMAIN t = 1 .. Len(t) /\ Append(t, ch) \in Seq(Chars)
      /\ DOMAIN Append(t, ch) = 1 .. Len(Append(t, ch))
  BY LenProperties, AppendProperties
<1>3. \A u \in Seq(Chars) : \A j \in DOMAIN u : F[u[j]] = WithReturn(u[j])
  <2> SUFFICES ASSUME NEW u \in Seq(Chars), NEW j \in DOMAIN u PROVE u[j] \in Chars
    OBVIOUS
  <2> QED BY ElementOfSeq, LenProperties
<1>4. /\ image \in Seq(Seq(Chars))
      /\ [j \in DOMAIN Append(t, ch) |-> F[Append(t, ch)[j]]] = Append(image, F[ch])
  <2> HIDE DEF F
  <2>1. \A x \in Chars : F[x] \in Strings
    BY <1>1 DEF Strings
  <2>2. [j \in DOMAIN t |-> F[t[j]]] \in Seq(Strings)
    BY <2>1, MapType
  <2>3. [j \in DOMAIN Append(t, ch) |-> F[Append(t, ch)[j]]] =
          Append([j \in DOMAIN t |-> F[t[j]]], F[ch])
    BY <2>1, MapAppend
  <2> QED BY <2>2, <2>3 DEF Strings
<1>5. image = [j \in DOMAIN t |-> WithReturn(t[j])]
  BY <1>3
<1>6. [j \in DOMAIN Append(t, ch) |-> F[Append(t, ch)[j]]] =
        [j \in DOMAIN Append(t, ch) |-> WithReturn(Append(t, ch)[j])]
  <2> HIDE DEF F
  <2> QED BY <1>2, <1>3
<1>7. F[ch] = WithReturn(ch) /\ WithReturn(ch) \in Seq(Chars)
  BY WithReturnType
<1> HIDE DEF F, image
<1>8. ExpandedText(t) = FlattenSeq(image)
  BY <1>5 DEF ExpandedText
<1>9. ExpandedText(Append(t, ch)) = FlattenSeq(Append(image, F[ch]))
  BY <1>4, <1>6 DEF ExpandedText
<1>10. FlattenSeq(Append(image, WithReturn(ch))) = FlattenSeq(image) \o WithReturn(ch)
  BY <1>4, <1>7, FlattenAppend
<1>11. FlattenSeq(image) \in Seq(Chars)
  BY <1>4, FlattenType
<1> QED
  BY <1>7, <1>8, <1>9, <1>10, <1>11

LEMMA ExpandedAppend ==
  ASSUME NEW ts \in Seq(Seq(Chars)), NEW t \in Seq(Chars)
  PROVE  /\ Expanded(ts) \in Seq(Chars)
         /\ Expanded(Append(ts, t)) = Expanded(ts) \o ExpandedText(t)
<1> DEFINE F == [u \in Seq(Chars) |-> ExpandedText(u)]
           image == [j \in DOMAIN ts |-> F[ts[j]]]
<1>1. \A u \in Seq(Chars) : ExpandedText(u) \in Seq(Chars)
  <2>1. "nl" \in Chars
    BY CharsFacts
  <2> QED BY <2>1, ExpandedTextAppend
<1>2. F \in [Seq(Chars) -> Seq(Chars)]
  BY <1>1
<1>3. /\ ts \in Seq(Seq(Chars)) /\ DOMAIN ts = 1 .. Len(ts) /\ Append(ts, t) \in Seq(Seq(Chars))
      /\ DOMAIN Append(ts, t) = 1 .. Len(Append(ts, t))
  BY LenProperties, AppendProperties
<1>4. \A us \in Seq(Seq(Chars)) : \A j \in DOMAIN us : F[us[j]] = ExpandedText(us[j])
  <2> SUFFICES ASSUME NEW us \in Seq(Seq(Chars)), NEW j \in DOMAIN us PROVE us[j] \in Seq(Chars)
    OBVIOUS
  <2> QED BY ElementOfSeq, LenProperties
<1>5. /\ image \in Seq(Seq(Chars))
      /\ [j \in DOMAIN Append(ts, t) |-> F[Append(ts, t)[j]]] = Append(image, F[t])
  <2> HIDE DEF F
  <2>1. (\A x \in Strings : F[x] \in Strings) /\ ts \in Seq(Strings) /\ t \in Strings
    BY <1>2 DEF Strings
  <2>2. [j \in DOMAIN ts |-> F[ts[j]]] \in Seq(Strings)
    BY <2>1, MapType
  <2>3. [j \in DOMAIN Append(ts, t) |-> F[Append(ts, t)[j]]] =
             Append([j \in DOMAIN ts |-> F[ts[j]]], F[t])
    BY <2>1, MapAppend
  <2> QED BY <2>2, <2>3 DEF Strings
<1>6. image = [j \in DOMAIN ts |-> ExpandedText(ts[j])]
  <2> HIDE DEF F
  <2> QED BY <1>3, <1>4
<1>7. [j \in DOMAIN Append(ts, t) |-> F[Append(ts, t)[j]]] =
        [j \in DOMAIN Append(ts, t) |-> ExpandedText(Append(ts, t)[j])]
  <2> HIDE DEF F
  <2> QED BY <1>3, <1>4
<1>8. F[t] = ExpandedText(t) /\ ExpandedText(t) \in Seq(Chars)
  BY <1>1
<1> HIDE DEF F, image
<1>9. Expanded(ts) = FlattenSeq(image)
  BY <1>6 DEF Expanded, ExpandedText
<1>10. Expanded(Append(ts, t)) = FlattenSeq(Append(image, F[t]))
  BY <1>5, <1>7 DEF Expanded, ExpandedText
<1>11. FlattenSeq(Append(image, ExpandedText(t))) = FlattenSeq(image) \o ExpandedText(t)
  BY <1>5, <1>8, FlattenAppend
<1>12. FlattenSeq(image) \in Seq(Chars)
  BY <1>5, FlattenType
<1> QED
  BY <1>8, <1>9, <1>10, <1>11, <1>12

LEMMA ExpandedTextEmpty == ExpandedText(<< >>) = << >>
<1>1. [j \in DOMAIN << >> |-> WithReturn(<< >>[j])] = << >>
  OBVIOUS
<1>2. FlattenSeq(<< >>) = << >>
  BY DEF FlattenSeq
<1> QED
  BY <1>1, <1>2 DEF ExpandedText
LEMMA ExpandedEmpty == Expanded(<< >>) = << >>
<1>1. [i \in DOMAIN << >> |->
         FlattenSeq([j \in DOMAIN << >>[i] |-> WithReturn(<< >>[i][j])])] = << >>
  OBVIOUS
<1>2. FlattenSeq(<< >>) = << >>
  BY DEF FlattenSeq
<1> QED
  BY <1>1, <1>2 DEF Expanded

-----------------------------------------------------------------------------
(* The line: the output buffer, what has gone over it, and CRT's texts. *)

\* A line as uart_putc_nonblocking finds it and leaves it.
GoodLine(line) ==
  /\ line \in [outbuf : Seq(Chars), uart_thre : BOOLEAN, sent : Seq(Chars)]
  /\ Len(line.outbuf) <= OutCapacity
  /\ line.outbuf # << >> => line.uart_thre
\* The characters of texts that have come in, whether they are on the line or
\* still in the buffer.
Traffic(line) == line.sent \o WithoutEcho(line.outbuf)
\* What a character adds to them.
Trace(ch) == IF ch = "echo" THEN << >> ELSE <<ch>>

LEMMA TraceType ==
  ASSUME NEW ch \in Chars
  PROVE  Trace(ch) \in Seq(Chars)
<1>1. << >> \in Seq(Chars) /\ <<ch>> \in Seq(Chars)
  OBVIOUS
<1> QED
  BY <1>1 DEF Trace

LEMMA PairIsAppend == \A a, b : Append(<<a>>, b) = <<a, b>>
<1> SUFFICES ASSUME NEW a, NEW b PROVE Append(<<a>>, b) = <<a, b>>
  OBVIOUS
<1> DEFINE longer == Append(<<a>>, b)
           pair == <<a, b>>
<1>1. <<a>> \in Seq({a, b}) /\ Len(<<a>>) = 1 /\ <<a>>[1] = a
  OBVIOUS
<1>2. pair \in Seq({a, b}) /\ Len(pair) = 2 /\ pair[1] = a /\ pair[2] = b
  OBVIOUS
<1>3. longer \in Seq({a, b}) /\ Len(longer) = 2 /\ longer[1] = a /\ longer[2] = b
  <2>1. b \in {a, b} /\ 1 + 1 = 2 /\ 1 \in 1 .. 1
    OBVIOUS
  <2>2. /\ longer \in Seq({a, b}) /\ Len(longer) = Len(<<a>>) + 1
        /\ \A i \in 1 .. Len(<<a>>) : longer[i] = <<a>>[i]
        /\ longer[Len(<<a>>) + 1] = b
    BY <1>1, AppendProperties
  <2> HIDE DEF longer
  <2> QED BY <1>1, <2>1, <2>2
<1> HIDE DEF longer, pair
<1>4. \A i \in 1 .. Len(longer) : longer[i] = pair[i]
  BY <1>2, <1>3
<1> QED
  BY <1>2, <1>3, <1>4, SeqEqual DEF longer, pair

LEMMA CharsAssociative ==
  \A u, v, w \in Seq(Chars) : (u \o v) \o w = u \o (v \o w)
BY ConcatAssociative

\* Sending the front of the buffer moves a character from the buffer to the line.
LEMMA FrontGoes ==
  ASSUME NEW line, line.sent \in Seq(Chars), NEW buf \in Seq(Chars), buf # << >>
  PROVE  /\ Traced(line, Head(buf)) \in Seq(Chars)
         /\ Traced(line, Head(buf)) \o WithoutEcho(Tail(buf)) = line.sent \o WithoutEcho(buf)
<1> DEFINE c == Head(buf)
           rest == WithoutEcho(Tail(buf))
           old == line.sent
<1>1. c \in Chars /\ Tail(buf) \in Seq(Chars)
  BY HeadTailProperties
<1>2. rest \in Seq(Chars) /\ old \in Seq(Chars)
  BY <1>1, WithoutEchoType
<1>3. WithoutEcho(buf) = Trace(c) \o rest
  BY WithoutEchoTail DEF Trace
<1>4. Traced(line, c) = old \o Trace(c)
  <2>1. c = "echo" => old \o Trace(c) = old
    BY <1>2, ConcatEmptySeq DEF Trace
  <2>2. c # "echo" => old \o Trace(c) = Append(old, c)
    BY <1>1, <1>2, AppendIsConcat DEF Trace
  <2> QED BY <2>1, <2>2 DEF Traced
<1> HIDE DEF c, rest, old
<1>5. Trace(c) \in Seq(Chars)
  BY <1>1, TraceType
<1>6. Traced(line, c) \in Seq(Chars)
  BY <1>2, <1>4, <1>5, ConcatProperties
<1>7. (old \o Trace(c)) \o rest = old \o (Trace(c) \o rest)
  BY <1>2, <1>5, CharsAssociative
<1> QED
  BY <1>3, <1>4, <1>6, <1>7 DEF c, rest, old

\* uart_putc_nonblocking adds its character behind the others, provided that
\* there is room for it or that nobody misses it.
LEMMA PutProperties ==
  ASSUME NEW line, GoodLine(line), NEW ch \in Chars,
         ch = "echo" \/ Len(line.outbuf) < OutCapacity
  PROVE  /\ GoodLine(uart_putc_nonblocking(line, ch))
         /\ Len(uart_putc_nonblocking(line, ch).outbuf) <= Len(line.outbuf) + 1
         /\ Traffic(uart_putc_nonblocking(line, ch)) = Traffic(line) \o Trace(ch)
<1> DEFINE buf == IF Len(line.outbuf) # OutCapacity THEN Append(line.outbuf, ch) ELSE line.outbuf
           put == uart_putc_nonblocking(line, ch)
           n == Len(line.outbuf)
           kept == WithoutEcho(line.outbuf)
<1>1. /\ n \in Nat /\ n <= OutCapacity /\ OutCapacity \in Nat /\ OutCapacity >= 2
      /\ line.outbuf \in Seq(Chars) /\ line.sent \in Seq(Chars)
  BY UartAssumption, LenProperties DEF GoodLine
<1>2. kept \in Seq(Chars) /\ Trace(ch) \in Seq(Chars)
  BY <1>1, WithoutEchoType, TraceType
<1>3. /\ buf \in Seq(Chars) /\ Len(buf) <= OutCapacity /\ Len(buf) <= n + 1 /\ Len(buf) \in Nat
      /\ WithoutEcho(buf) = kept \o Trace(ch)
      /\ buf # << >>
  <2>1. CASE n # OutCapacity
    <3>1. buf = Append(line.outbuf, ch)
      BY <2>1
    <3>2. buf \in Seq(Chars) /\ Len(buf) = n + 1 /\ buf # << >>
      BY <1>1, <3>1, AppendProperties
    <3>3. WithoutEcho(buf) = IF ch = "echo" THEN kept ELSE Append(kept, ch)
      BY <1>1, <3>1, WithoutEchoAppend
    <3>4. ch = "echo" => kept \o Trace(ch) = kept
      BY <1>2, ConcatEmptySeq DEF Trace
    <3>5. ch # "echo" => kept \o Trace(ch) = Append(kept, ch)
      BY <1>2, AppendIsConcat DEF Trace
    <3> HIDE DEF buf, n
    <3> QED BY <1>1, <2>1, <3>2, <3>3, <3>4, <3>5
  <2>2. CASE n = OutCapacity
    <3>1. buf = line.outbuf /\ ch = "echo"
      BY <1>1, <2>2
    <3>2. kept \o Trace(ch) = kept
      BY <1>2, <3>1, ConcatEmptySeq DEF Trace
    <3>3. buf # << >>
      BY <1>1, <2>2, <3>1, EmptySeq
    <3> QED BY <1>1, <2>2, <3>1, <3>2, <3>3
  <2> QED BY <2>1, <2>2
<1>4. Traffic(line) \o Trace(ch) = line.sent \o WithoutEcho(buf)
  <2>1. (line.sent \o kept) \o Trace(ch) = line.sent \o (kept \o Trace(ch))
    BY <1>1, <1>2, CharsAssociative
  <2> QED BY <1>3, <2>1 DEF Traffic
<1>5. CASE ~ line.uart_thre
  <2>1. put = [outbuf |-> Tail(buf), uart_thre |-> TRUE, sent |-> Traced(line, Head(buf))]
    BY <1>5 DEF uart_putc_nonblocking
  <2> HIDE DEF buf, put
  <2>2. put.outbuf = Tail(buf) /\ put.uart_thre = TRUE /\ put.sent = Traced(line, Head(buf))
    BY <2>1
  <2>3. Tail(buf) \in Seq(Chars) /\ Len(Tail(buf)) = Len(buf) - 1
    BY <1>3, HeadTailProperties
  <2>4. /\ Traced(line, Head(buf)) \in Seq(Chars)
        /\ Traced(line, Head(buf)) \o WithoutEcho(Tail(buf)) = line.sent \o WithoutEcho(buf)
    BY <1>1, <1>3, FrontGoes
  <2>5. Len(put.outbuf) <= OutCapacity /\ Len(put.outbuf) <= n + 1
    <3> HIDE DEF n
    <3> QED BY <1>1, <1>3, <2>2, <2>3
  <2>6. GoodLine(put)
    BY <2>1, <2>2, <2>3, <2>4, <2>5 DEF GoodLine
  <2>7. Traffic(put) = Traffic(line) \o Trace(ch)
    BY <1>4, <2>2, <2>4 DEF Traffic
  <2> QED BY <2>5, <2>6, <2>7 DEF put
<1>6. CASE line.uart_thre
  <2>1. put = [line EXCEPT !.outbuf = buf]
    BY <1>6 DEF uart_putc_nonblocking
  <2> HIDE DEF buf, put
  <2>2. /\ put \in [outbuf : Seq(Chars), uart_thre : BOOLEAN, sent : Seq(Chars)]
        /\ put.outbuf = buf /\ put.sent = line.sent /\ put.uart_thre
    BY <1>3, <1>6, <2>1 DEF GoodLine
  <2>3. GoodLine(put) /\ Traffic(put) = Traffic(line) \o Trace(ch)
    BY <1>3, <1>4, <2>2 DEF GoodLine, Traffic
  <2> QED BY <1>3, <2>2, <2>3 DEF put
<1> QED
  BY <1>5, <1>6

LineInv ==
  /\ GoodLine(Line)
  /\ displayed \in Seq(Texts) /\ output \in Seq(Texts)
  /\ Len(output) <= Len(displayed)
  /\ \A i \in 1 .. Len(output) : output[i] = displayed[Printed + i]
  /\ offset \in Nat
  /\ output = << >> => offset = 0
  /\ output # << >> => offset <= Len(Head(output))
  /\ TextsIntact

LEMMA LineFields == Line.outbuf = outbuf /\ Line.uart_thre = uart_thre /\ Line.sent = sent
BY DEF Line

\* The texts that CRT is done with, and what it has printed of the next one.
Done(d, o) == SubSeq(d, 1, Len(d) - Len(o))
Begun(o, k) == IF o = << >> THEN << >> ELSE ExpandedText(SubSeq(Head(o), 1, k))

\* The start of a text.
LEMMA TextStart ==
  ASSUME NEW t \in Seq(Chars), NEW n \in 0 .. Len(t)
  PROVE  /\ SubSeq(t, 1, n) \in Seq(Chars)
         /\ n < Len(t) => SubSeq(t, 1, n + 1) = Append(SubSeq(t, 1, n), t[n + 1])
<1> DEFINE N == Len(t)
           s == SubSeq(t, 1, n)
           longer == SubSeq(t, 1, n + 1)
<1>1. N \in Nat /\ n \in 0 .. N /\ \A i \in 1 .. N : t[i] \in Chars
  BY LenProperties, ElementOfSeq
<1> HIDE DEF N
<1>2. s \in Seq(Chars) /\ Len(s) = n /\ \A i \in 1 .. n : s[i] = t[i]
  <2>1. \A i \in 1 .. n : t[i] \in Chars
    BY <1>1
  <2>2. 1 \in Int /\ n \in Int
    BY <1>1
  <2>3. /\ s \in Seq(Chars)
        /\ Len(s) = IF 1 <= n THEN n - 1 + 1 ELSE 0
        /\ \A i \in 1 .. n - 1 + 1 : s[i] = t[1 + i - 1]
    BY <2>1, <2>2, SubSeqProperties
  <2> HIDE DEF s
  <2>4. n - 1 + 1 = n /\ \A i \in 1 .. n : 1 + i - 1 = i
    BY <1>1
  <2> QED BY <1>1, <2>3, <2>4
<1>3. ASSUME n < N PROVE longer = Append(s, t[n + 1])
  <2>1. 1 \in 1 .. N /\ n + 1 \in 1 .. N /\ (n + 1) - 1 = n
    BY <1>1, <1>3
  <2>2. longer = SubSeq(t, 1, (n + 1) - 1) \o <<t[n + 1]>>
    BY <2>1, SubSeqRecursiveSecond DEF N
  <2>3. t[n + 1] \in Chars
    BY <1>1, <2>1
  <2> QED BY <1>2, <2>1, <2>2, <2>3, AppendIsConcat
<1> QED
  BY <1>2, <1>3 DEF N

\* The printed text is that of the texts CRT is done with, and the start of one.
LEMMA PrintedTextSplit ==
  ASSUME NEW d \in Seq(Texts), NEW o \in Seq(Texts), Len(o) <= Len(d),
         NEW k \in Nat, o # << >> => k <= Len(Head(o))
  PROVE  /\ Done(d, o) \in Seq(Seq(Chars))
         /\ Expanded(Done(d, o)) \in Seq(Chars)
         /\ Begun(o, k) \in Seq(Chars)
         /\ Expanded(SubSeq(d, 1, Len(d) - Len(o))
                     \o IF o = << >> THEN << >> ELSE <<SubSeq(Head(o), 1, k)>>)
            = Expanded(Done(d, o)) \o Begun(o, k)
<1> DEFINE done == Done(d, o)
           now == SubSeq(Head(o), 1, k)
           n == Len(d) - Len(o)
<1>1. Len(d) \in Nat /\ Len(o) \in Nat /\ n \in 0 .. Len(d)
  BY LenProperties
<1>2. \A i \in 1 .. Len(d) : d[i] \in Seq(Chars)
  BY ElementOfSeq, CharsFacts
<1>3. done \in Seq(Seq(Chars))
  <2>1. 1 \in Int /\ n \in Int /\ \A i \in 1 .. n : d[i] \in Seq(Chars)
    BY <1>1, <1>2
  <2> QED BY <2>1, SubSeqProperties DEF Done
<1>4. Expanded(done) \in Seq(Chars)
  <2>1. << >> \in Seq(Chars)
    BY EmptySeq
  <2> HIDE DEF done
  <2> QED BY <1>3, <2>1, ExpandedAppend
<1>5. CASE o = << >>
  <2>1. Begun(o, k) = << >>
    BY <1>5 DEF Begun
  <2>2. done \o << >> = done /\ Expanded(done) \o << >> = Expanded(done)
    BY <1>3, <1>4, ConcatEmptySeq
  <2> QED BY <1>3, <1>4, <1>5, <2>1, <2>2, EmptySeq DEF Done
<1>6. CASE o # << >>
  <2>1. Head(o) \in Seq(Chars) /\ k \in 0 .. Len(Head(o))
    <3>1. Head(o) \in Texts
      BY <1>6, HeadTailProperties
    <3>2. Head(o) \in Seq(Chars) /\ Len(Head(o)) \in Nat
      BY <3>1, CharsFacts, LenProperties
    <3> QED BY <1>6, <3>2
  <2>2. now \in Seq(Chars)
    BY <2>1, TextStart
  <2>3. Begun(o, k) = ExpandedText(now) /\ done = SubSeq(d, 1, Len(d) - Len(o))
    BY <1>6 DEF Begun, Done
  <2> HIDE DEF done, now
  <2>4. done \o <<now>> = Append(done, now)
    BY <1>3, <2>2, AppendIsConcat
  <2>5. Expanded(Append(done, now)) = Expanded(done) \o ExpandedText(now)
    BY <1>3, <2>2, ExpandedAppend
  <2>6. ExpandedText(now) \in Seq(Chars)
    <3>1. "nl" \in Chars
      BY CharsFacts
    <3> QED BY <2>2, <3>1, ExpandedTextAppend
  <2> QED BY <1>3, <1>4, <1>6, <2>3, <2>4, <2>5, <2>6 DEF done, now
<1> QED
  BY <1>5, <1>6

\* What the line has, in the words of the texts.
LEMMA LineHas ==
  ASSUME LineInv
  PROVE  /\ Traffic(Line) = Expanded(Done(displayed, output)) \o Begun(output, offset)
         /\ Done(displayed, output) \in Seq(Seq(Chars))
         /\ Expanded(Done(displayed, output)) \in Seq(Chars)
         /\ Begun(output, offset) \in Seq(Chars)
BY PrintedTextSplit, LineFields DEF LineInv, TextsIntact, Traffic, PrintedText, Printed

\* To keep LineInv is to keep what the line has equal to that.
LEMMA LineStep ==
  ASSUME GoodLine(Line)', (displayed \in Seq(Texts))', (output \in Seq(Texts))',
         (Len(output) <= Len(displayed))',
         (\A i \in 1 .. Len(output) : output[i] = displayed[Printed + i])',
         (offset \in Nat)', (output = << >> => offset = 0)',
         (output # << >> => offset <= Len(Head(output)))',
         Traffic(Line)' = Expanded(Done(displayed', output')) \o Begun(output', offset')
  PROVE  LineInv'
<1>1. PrintedText' = Expanded(Done(displayed', output')) \o Begun(output', offset')
  BY PrintedTextSplit DEF PrintedText, Printed
<1>2. TextsIntact'
  BY <1>1 DEF TextsIntact, Traffic, Line
<1> QED
  BY <1>2 DEF LineInv

\* A step that changes neither what CRT prints nor what goes over the line.
LEMMA QuietLine ==
  ASSUME LineInv, UNCHANGED <<output, offset, displayed>>,
         GoodLine(Line)', Traffic(Line)' = Traffic(Line)
  PROVE  LineInv'
<1>1. TextsIntact'
  BY LineFields DEF LineInv, TextsIntact, Traffic, Line, PrintedText, Printed
<1> QED
  BY <1>1 DEF LineInv, Printed

LEMMA LineInit == Init => LineInv
<1> SUFFICES ASSUME Init PROVE LineInv
  OBVIOUS
<1>1. /\ outbuf = << >> /\ sent = << >> /\ uart_thre = FALSE /\ output = << >>
      /\ displayed = << >> /\ offset = 0
  BY DEF Init
<1>2. << >> \in Seq(Chars) /\ << >> \in Seq(Texts) /\ Len(<< >>) = 0
  BY EmptySeq
<1>3. OutCapacity \in Nat
  BY UartAssumption
<1>4. GoodLine(Line)
  <2>1. outbuf \in Seq(Chars) /\ sent \in Seq(Chars) /\ uart_thre \in BOOLEAN
    BY <1>1, <1>2
  <2>2. Line \in [outbuf : Seq(Chars), uart_thre : BOOLEAN, sent : Seq(Chars)]
    BY <2>1 DEF Line
  <2> QED BY <1>1, <1>2, <1>3, <2>2, LineFields DEF GoodLine
<1>5. PrintedText = << >>
  <2>1. Printed = 0
    BY <1>1, <1>2 DEF Printed
  <2>2. SubSeq(displayed, 1, Printed) = << >>
    BY <2>1, SubSeqEmpty
  <2>3. << >> \o << >> = << >>
    BY <1>2, ConcatEmptySeq
  <2> QED BY <1>1, <2>2, <2>3, ExpandedEmpty DEF PrintedText
<1>6. TextsIntact
  <2>1. << >> \o << >> = << >>
    BY <1>2, ConcatEmptySeq
  <2> QED BY <1>1, <1>5, <2>1, WithoutEchoEmpty DEF TextsIntact
<1> QED
  BY <1>1, <1>2, <1>4, <1>6 DEF LineInv

\* Putting the characters of one call on the line.
LEMMA PutAllProperties ==
  ASSUME GoodLine(Line), NEW a \in Chars, NEW b \in Chars,
         \/ a = "echo" /\ b = "echo"
         \/ a # "echo" /\ b # "echo" /\ Len(outbuf) + 2 <= OutCapacity
  PROVE  /\ GoodLine(PutAll(<<a>>)) /\ GoodLine(PutAll(<<a, b>>))
         /\ Traffic(PutAll(<<a>>)) = Traffic(Line) \o Trace(a)
         /\ Traffic(PutAll(<<a, b>>)) = (Traffic(Line) \o Trace(a)) \o Trace(b)
<1> DEFINE first == uart_putc_nonblocking(Line, a)
           second == uart_putc_nonblocking(first, b)
<1>1. Len(outbuf) \in Nat /\ OutCapacity \in Nat
  BY LineFields, LenProperties, UartAssumption DEF GoodLine
<1>2. a = "echo" \/ Len(Line.outbuf) < OutCapacity
  BY <1>1, LineFields
<1>3. /\ GoodLine(first) /\ Len(first.outbuf) <= Len(outbuf) + 1
      /\ Traffic(first) = Traffic(Line) \o Trace(a)
  BY <1>2, LineFields, PutProperties
<1> HIDE DEF first
<1>4. Len(first.outbuf) \in Nat
  BY <1>3, LenProperties DEF GoodLine
<1>5. b = "echo" \/ Len(first.outbuf) < OutCapacity
  BY <1>1, <1>3, <1>4
<1>6. GoodLine(second) /\ Traffic(second) = Traffic(first) \o Trace(b)
  BY <1>3, <1>5, PutProperties
<1>7. PutAll(<<a>>) = first
  BY DEF PutAll, first
<1>8. PutAll(<<a, b>>) = second
  BY DEF PutAll, first
<1> QED
  BY <1>3, <1>6, <1>7, <1>8

LEMMA SetLineIs ==
  ASSUME NEW line, GoodLine(line), SetLine(line)
  PROVE  Line' = line
BY DEF SetLine, Line, GoodLine

LEMMA TrafficType ==
  ASSUME NEW line, GoodLine(line)
  PROVE  Traffic(line) \in Seq(Chars)
<1>1. line.sent \in Seq(Chars) /\ line.outbuf \in Seq(Chars)
  BY DEF GoodLine
<1>2. WithoutEcho(line.outbuf) \in Seq(Chars)
  BY <1>1, WithoutEchoType
<1> QED
  BY <1>1, <1>2, ConcatProperties DEF Traffic

LEMMA LineRxIrq ==
  ASSUME LineInv, NEW ch \in {"key", "cr"}, RxIrq(ch)
  PROVE  LineInv'
<1>1. UNCHANGED <<output, offset, displayed>>
  BY DEF RxIrq, crtVars
<1>2. "echo" \in Chars
  BY CharsFacts
<1>3. Trace("echo") = << >>
  BY DEF Trace
<1>4. Traffic(Line) \in Seq(Chars)
  BY TrafficType DEF LineInv
<1>5. Traffic(Line) \o << >> = Traffic(Line)
  BY <1>4, ConcatEmptySeq
<1>6. /\ GoodLine(PutAll(<<"echo">>)) /\ GoodLine(PutAll(<<"echo", "echo">>))
      /\ Traffic(PutAll(<<"echo">>)) = Traffic(Line)
      /\ Traffic(PutAll(<<"echo", "echo">>)) = Traffic(Line)
  BY <1>2, <1>3, <1>5, PutAllProperties DEF LineInv
<1>7. SetLine(PutAll(<<"echo">>)) \/ SetLine(PutAll(<<"echo", "echo">>))
  BY DEF RxIrq
<1>8. Line' = PutAll(<<"echo">>) \/ Line' = PutAll(<<"echo", "echo">>)
  BY <1>6, <1>7, SetLineIs
<1>9. GoodLine(Line') /\ Traffic(Line') = Traffic(Line)
  BY <1>6, <1>8
<1>10. GoodLine(Line)' /\ Traffic(Line)' = Traffic(Line)
  BY <1>9 DEF GoodLine, Traffic
<1> QED
  BY <1>1, <1>10, QuietLine

LEMMA LineThreIrq == LineInv /\ ThreIrq => LineInv'
<1> SUFFICES ASSUME LineInv, ThreIrq PROVE LineInv'
  OBVIOUS
<1>1. UNCHANGED <<output, offset, displayed>> /\ uart_thre
  BY DEF ThreIrq
<1>2. outbuf \in Seq(Chars) /\ sent \in Seq(Chars) /\ Len(outbuf) <= OutCapacity
  BY LineFields DEF LineInv, GoodLine
<1>3. CASE outbuf = << >>
  <2>1. uart_thre' = FALSE /\ outbuf' = outbuf /\ sent' = sent
    BY <1>3 DEF ThreIrq
  <2>2. Line' \in [outbuf : Seq(Chars), uart_thre : BOOLEAN, sent : Seq(Chars)]
    BY <1>2, <2>1 DEF Line
  <2>3. Line'.outbuf = outbuf /\ Line'.sent = sent
    BY <2>1 DEF Line
  <2>4. GoodLine(Line)' /\ Traffic(Line)' = Traffic(Line)
    BY <1>2, <1>3, <2>2, <2>3, LineFields DEF GoodLine, Traffic
  <2> QED BY <1>1, <2>4, QuietLine
<1>4. CASE outbuf # << >>
  <2>1. uart_thre' = uart_thre /\ outbuf' = Tail(outbuf) /\ sent' = Traced(Line, Head(outbuf))
    BY <1>4 DEF ThreIrq
  <2>2. /\ Traced(Line, Head(outbuf)) \in Seq(Chars)
        /\ Traced(Line, Head(outbuf)) \o WithoutEcho(Tail(outbuf)) = sent \o WithoutEcho(outbuf)
    BY <1>2, <1>4, LineFields, FrontGoes
  <2>3. Tail(outbuf) \in Seq(Chars) /\ Len(Tail(outbuf)) = Len(outbuf) - 1 /\ Len(outbuf) \in Nat
    BY <1>2, <1>4, HeadTailProperties, LenProperties
  <2>4. uart_thre \in BOOLEAN /\ OutCapacity \in Nat
    BY LineFields, UartAssumption DEF LineInv, GoodLine
  <2>5. Line' \in [outbuf : Seq(Chars), uart_thre : BOOLEAN, sent : Seq(Chars)]
    BY <2>1, <2>2, <2>3, <2>4 DEF Line
  <2>6. Line'.outbuf = Tail(outbuf) /\ Line'.sent = Traced(Line, Head(outbuf)) /\ Line'.uart_thre
    BY <1>1, <2>1 DEF Line
  <2>7. Len(Tail(outbuf)) <= OutCapacity
    BY <1>2, <2>3, <2>4
  <2>8. GoodLine(Line)'
    BY <2>5, <2>6, <2>7 DEF GoodLine
  <2>9. Traffic(Line)' = Traffic(Line)
    BY <2>2, <2>6, LineFields DEF Traffic
  <2> QED BY <1>1, <2>8, <2>9, QuietLine
<1> QED
  BY <1>3, <1>4

\* CRT puts the next character of its first text on the line.
LEMMA LineCrtChar ==
  ASSUME LineInv, output # << >>, offset < Len(Head(output)), HasRoom,
         SetLine(PutAll(WithReturn(Head(output)[offset + 1]))),
         offset' = offset + 1, UNCHANGED <<output, displayed>>
  PROVE  LineInv'
<1> DEFINE h == Head(output)
           c == h[offset + 1]
           now == SubSeq(h, 1, offset)
           base == Expanded(Done(displayed, output))
<1>1. Head(output) \in Texts
  BY HeadTailProperties DEF LineInv
<1>2. /\ h \in Seq(Chars) /\ Len(h) \in Nat /\ offset \in 0 .. Len(h) /\ offset + 1 \in 1 .. Len(h)
      /\ c \in Chars /\ c # "echo"
  <2>1. h \in Seq(Chars)
    BY <1>1, CharsFacts
  <2>2. Len(h) \in Nat /\ offset \in Nat
    BY <2>1, LenProperties DEF LineInv
  <2>3. offset + 1 \in 1 .. Len(h) /\ offset \in 0 .. Len(h)
    <3> HIDE DEF h
    <3> QED BY <2>2 DEF h
  <2> QED BY <1>1, <2>1, <2>2, <2>3, CharsFacts
<1>3. /\ now \in Seq(Chars) /\ SubSeq(h, 1, offset + 1) = Append(now, c)
      /\ ExpandedText(now) \in Seq(Chars)
      /\ ExpandedText(Append(now, c)) = ExpandedText(now) \o WithReturn(c)
  <2>1. now \in Seq(Chars) /\ SubSeq(h, 1, offset + 1) = Append(now, c)
    BY <1>2, TextStart
  <2> HIDE DEF h, c, now
  <2> QED BY <1>2, <2>1, ExpandedTextAppend
<1>4. /\ Traffic(Line) = base \o ExpandedText(now)
      /\ base \in Seq(Chars)
  BY LineHas DEF Begun
<1>5. Begun(output', offset') = ExpandedText(now) \o WithReturn(c)
  BY <1>3 DEF Begun
<1>6. Traffic(Line) \in Seq(Chars) /\ WithReturn(c) \in Seq(Chars)
  BY <1>2, TrafficType, WithReturnType DEF LineInv
<1> HIDE DEF h, c, now, base
<1>7. /\ GoodLine(PutAll(WithReturn(c)))
      /\ Traffic(PutAll(WithReturn(c))) = Traffic(Line) \o WithReturn(c)
  <2>1. Len(outbuf) + 2 <= OutCapacity
    <3>1. Len(outbuf) \in Nat
      BY LineFields, LenProperties DEF LineInv, GoodLine
    <3> QED BY <3>1, UartAssumption DEF HasRoom
  <2>2. GoodLine(Line) /\ "ret" \in Chars /\ "nl" \in Chars
    BY CharsFacts DEF LineInv
  <2>3. CASE c = "nl"
    <3>1. /\ GoodLine(PutAll(<<"ret", "nl">>))
          /\ Traffic(PutAll(<<"ret", "nl">>)) = (Traffic(Line) \o Trace("ret")) \o Trace("nl")
      BY <2>1, <2>2, PutAllProperties
    <3>2. Trace("ret") = <<"ret">> /\ Trace("nl") = <<"nl">> /\ WithReturn(c) = <<"ret", "nl">>
      BY <2>3 DEF Trace, WithReturn
    <3>3. /\ (Traffic(Line) \o <<"ret">>) \o <<"nl">> = Traffic(Line) \o (<<"ret">> \o <<"nl">>)
      <4>1. <<"ret">> \in Seq(Chars) /\ <<"nl">> \in Seq(Chars)
        BY <2>2
      <4> QED BY <1>6, <4>1, CharsAssociative
    <3>4. <<"ret">> \o <<"nl">> = <<"ret", "nl">>
      <4>1. <<"ret">> \in Seq(Chars)
        BY <2>2
      <4>2. Append(<<"ret">>, "nl") = <<"ret">> \o <<"nl">>
        BY <2>2, <4>1, AppendIsConcat
      <4>3. Append(<<"ret">>, "nl") = <<"ret", "nl">>
        BY PairIsAppend
      <4> QED BY <4>2, <4>3
    <3> QED BY <3>1, <3>2, <3>3, <3>4
  <2>4. CASE c # "nl"
    <3>1. GoodLine(PutAll(<<c>>)) /\ Traffic(PutAll(<<c>>)) = Traffic(Line) \o Trace(c)
      <4>1. GoodLine(PutAll(<<c>>)) /\ GoodLine(PutAll(<<c, c>>))
            /\ Traffic(PutAll(<<c>>)) = Traffic(Line) \o Trace(c)
        BY <1>2, <2>1, <2>2, PutAllProperties
      <4> QED BY <4>1
    <3>2. Trace(c) = <<c>> /\ WithReturn(c) = <<c>>
      BY <1>2, <2>4 DEF Trace, WithReturn
    <3> QED BY <3>1, <3>2
  <2> QED BY <2>3, <2>4
<1>8. Line' = PutAll(WithReturn(c))
  BY <1>7, SetLineIs DEF c, h
<1>9. GoodLine(Line') /\ Traffic(Line') = Traffic(Line) \o WithReturn(c)
  BY <1>7, <1>8
<1>10. GoodLine(Line)' /\ Traffic(Line)' = Traffic(Line) \o WithReturn(c)
  BY <1>9 DEF GoodLine, Traffic
<1>11. Traffic(Line)' = base \o Begun(output', offset')
  <2>1. (base \o ExpandedText(now)) \o WithReturn(c) = base \o (ExpandedText(now) \o WithReturn(c))
    BY <1>3, <1>4, <1>6, CharsAssociative
  <2> QED BY <1>4, <1>5, <1>10, <2>1
<1>12. Done(displayed', output') = Done(displayed, output)
  OBVIOUS
<1>13. /\ (offset \in Nat)' /\ (output = << >> => offset = 0)'
       /\ (output # << >> => offset <= Len(Head(output)))'
  BY <1>2 DEF h, LineInv
<1>14. /\ (displayed \in Seq(Texts))' /\ (output \in Seq(Texts))'
       /\ (Len(output) <= Len(displayed))'
       /\ (\A i \in 1 .. Len(output) : output[i] = displayed[Printed + i])'
  BY DEF LineInv, Printed
<1> QED
  BY <1>10, <1>11, <1>12, <1>13, <1>14, LineStep DEF base

\* CRT is done with its first text.
LEMMA LineCrtEnd ==
  ASSUME LineInv, output # << >>, offset = Len(Head(output)), output' = Tail(output),
         offset' = 0, UNCHANGED <<outbuf, uart_thre, sent, displayed>>
  PROVE  LineInv'
<1> DEFINE h == Head(output)
           done == Done(displayed, output)
           n == Len(displayed)
           o == Len(output)
<1>1. /\ h \in Texts /\ h \in Seq(Chars) /\ h = output[1]
      /\ n \in Nat /\ o \in Nat \ {0} /\ o <= n
      /\ output' \in Seq(Texts) /\ Len(output') = o - 1
      /\ \A i \in 1 .. o - 1 : output'[i] = output[i + 1]
      /\ \A i \in 1 .. o : output[i] = displayed[n - o + i]
      /\ displayed \in Seq(Texts)
  BY HeadTailProperties, LenProperties, EmptySeq, CharsFacts DEF LineInv, Printed
<1> HIDE DEF n, o
<1>2. displayed[n - o + 1] = h /\ n - o + 1 \in 1 .. n /\ (n - o + 1) - 1 = n - o
  BY <1>1
<1>3. Done(displayed', output') = Append(done, h)
  <2>1. n - (o - 1) = n - o + 1
    BY <1>1
  <2>2. Done(displayed', output') = SubSeq(displayed, 1, n - o + 1)
    BY <1>1, <2>1 DEF Done, n
  <2>3. 1 \in 1 .. n
    BY <1>1
  <2>4. SubSeq(displayed, 1, n - o + 1) = SubSeq(displayed, 1, n - o) \o <<h>>
    <3>1. SubSeq(displayed, 1, n - o + 1)
            = SubSeq(displayed, 1, (n - o + 1) - 1) \o <<displayed[n - o + 1]>>
      BY <1>1, <1>2, <2>3, SubSeqRecursiveSecond DEF n
    <3> QED BY <1>2, <3>1
  <2>5. done = SubSeq(displayed, 1, n - o)
    BY DEF Done, n, o
  <2>6. done \in Seq(Seq(Chars))
    BY LineHas
  <2>7. done \o <<h>> = Append(done, h)
    BY <1>1, <2>6, AppendIsConcat
  <2> QED BY <2>2, <2>4, <2>5, <2>7
<1>4. /\ Traffic(Line) = Expanded(done) \o ExpandedText(h)
      /\ done \in Seq(Seq(Chars))
  <2>1. SubSeq(h, 1, Len(h)) = h
    BY <1>1, SubSeqFull
  <2> QED BY <2>1, LineHas DEF Begun
<1>5. Expanded(Append(done, h)) = Expanded(done) \o ExpandedText(h)
      /\ Expanded(Append(done, h)) \in Seq(Chars)
  <2> HIDE DEF done, h
  <2>1. Append(done, h) \in Seq(Seq(Chars))
    BY <1>1, <1>4, AppendProperties
  <2> QED BY <1>1, <1>4, <2>1, ExpandedAppend
<1>6. Begun(output', offset') = << >>
  <2>1. SubSeq(Head(output'), 1, 0) = << >>
    BY SubSeqEmpty
  <2> QED BY <2>1, ExpandedTextEmpty DEF Begun
<1>7. Traffic(Line)' = Expanded(Done(displayed', output')) \o Begun(output', offset')
  <2>1. Traffic(Line)' = Traffic(Line)
    BY DEF Traffic, Line
  <2>2. Expanded(Append(done, h)) \o << >> = Expanded(Append(done, h))
    BY <1>5, ConcatEmptySeq
  <2> HIDE DEF done, h
  <2> QED BY <1>3, <1>4, <1>5, <1>6, <2>1, <2>2
<1>8. GoodLine(Line)'
  BY DEF LineInv, GoodLine, Line
<1>9. (Len(output) <= Len(displayed))' /\ (\A i \in 1 .. Len(output) : output[i] = displayed[Printed + i])'
  <2>1. Printed' = n - o + 1 /\ Len(displayed') = n
    BY <1>1 DEF Printed, n
  <2>2. \A i \in 1 .. o - 1 : i + 1 \in 1 .. o /\ n - o + (i + 1) = n - o + 1 + i
    BY <1>1
  <2>3. o - 1 <= n
    BY <1>1
  <2> QED BY <1>1, <2>1, <2>2, <2>3
<1>10. /\ (offset \in Nat)' /\ (output = << >> => offset = 0)'
       /\ (output # << >> => offset <= Len(Head(output)))'
  <2>1. output' # << >> => Len(Head(output')) \in Nat
    <3> SUFFICES ASSUME output' # << >> PROVE Len(Head(output')) \in Nat
      OBVIOUS
    <3>1. Head(output') \in Texts
      BY <1>1, HeadTailProperties
    <3>2. Head(output') \in Seq(Chars)
      BY <3>1, CharsFacts
    <3> QED BY <3>2, LenProperties
  <2> QED BY <2>1
<1> QED
  BY <1>1, <1>7, <1>8, <1>9, <1>10, LineStep

LEMMA LineCrtPrint == LineInv /\ CrtPrint => LineInv'
<1> SUFFICES ASSUME LineInv, CrtPrint PROVE LineInv'
  OBVIOUS
<1>1. displayed' = displayed
  BY DEF CrtPrint
<1>2. CASE UNCHANGED <<lineVars, output, offset>>
  <2>1. Line' = Line
    BY <1>2 DEF Line, lineVars
  <2>2. GoodLine(Line') /\ Traffic(Line') = Traffic(Line)
    BY <2>1 DEF LineInv
  <2>3. GoodLine(Line)' /\ Traffic(Line)' = Traffic(Line)
    BY <2>2 DEF GoodLine, Traffic
  <2> QED BY <1>1, <1>2, <2>3, QuietLine
<1>3. CASE /\ output # << >> /\ offset < Len(Head(output)) /\ HasRoom
           /\ SetLine(PutAll(WithReturn(Head(output)[offset + 1])))
           /\ offset' = offset + 1 /\ output' = output
  BY <1>1, <1>3, LineCrtChar
<1>4. CASE /\ output # << >> /\ offset = Len(Head(output))
           /\ output' = Tail(output) /\ offset' = 0 /\ UNCHANGED lineVars
  BY <1>1, <1>4, LineCrtEnd DEF lineVars
<1> QED
  BY <1>2, <1>3, <1>4 DEF CrtPrint

LEMMA LineCrtReceive == LineInv /\ NoticeInv /\ CrtReceive => LineInv'
<1> SUFFICES ASSUME LineInv, NoticeInv, CrtReceive PROVE LineInv'
  OBVIOUS
<1>1. offset' = offset /\ Line' = Line /\ crt_mail # << >>
  BY DEF CrtReceive, Line, lineVars
<1>2. GoodLine(Line') /\ Traffic(Line') = Traffic(Line)
  BY <1>1 DEF LineInv
<1>3. GoodLine(Line)' /\ Traffic(Line)' = Traffic(Line)
  BY <1>2 DEF GoodLine, Traffic
<1>4. CASE UNCHANGED <<output, displayed>>
  BY <1>1, <1>3, <1>4, QuietLine
<1>5. CASE /\ Head(crt_mail) # notif
           /\ output' = Append(output, Head(crt_mail))
           /\ displayed' = Append(displayed, Head(crt_mail))
  <2> DEFINE h == Head(crt_mail)
             n == Len(displayed)
             o == Len(output)
  <2>1. h \in Texts
    <3>1. h \in Texts \cup {notif}
      BY <1>1, HeadTailProperties DEF NoticeInv
    <3> QED BY <1>5, <3>1
  <2>2. /\ n \in Nat /\ o \in Nat /\ o <= n
        /\ output' \in Seq(Texts) /\ Len(output') = o + 1 /\ output' # << >>
        /\ displayed' \in Seq(Texts) /\ Len(displayed') = n + 1
        /\ \A i \in 1 .. o : output'[i] = output[i]
        /\ \A i \in 1 .. n : displayed'[i] = displayed[i]
        /\ output'[o + 1] = h /\ displayed'[n + 1] = h
        /\ \A i \in 1 .. o : output[i] = displayed[n - o + i]
        /\ displayed \in Seq(Texts) /\ output \in Seq(Texts)
    BY <1>5, <2>1, AppendProperties, LenProperties DEF LineInv, Printed
  <2>e. o = 0 <=> output = << >>
    BY <2>2, EmptySeq
  <2> HIDE DEF h, n, o
  <2>3. (n + 1) - (o + 1) = n - o /\ n - o \in 0 .. n
    BY <2>2
  <2>4. Done(displayed', output') = Done(displayed, output)
    <3>1. Done(displayed', output') = SubSeq(displayed', 1, n - o)
      BY <2>2, <2>3 DEF Done
    <3>2. Done(displayed, output) = SubSeq(displayed, 1, n - o)
      BY DEF Done, n, o
    <3>3. \A i \in 1 .. n - o : displayed[i] \in Texts /\ displayed'[i] = displayed[i]
      <4>1. \A i \in 1 .. n - o : i \in 1 .. n
        BY <2>2
      <4> QED BY <2>2, <4>1, ElementOfSeq DEF n
    <3>4. 1 \in Int /\ n - o \in Int /\ \A i \in 1 .. n - o - 1 + 1 : 1 + i - 1 \in 1 .. n - o
      BY <2>2
    <3>5. /\ SubSeq(displayed, 1, n - o) \in Seq(Texts)
          /\ Len(SubSeq(displayed, 1, n - o)) = IF 1 <= n - o THEN n - o - 1 + 1 ELSE 0
          /\ \A i \in 1 .. n - o - 1 + 1 : SubSeq(displayed, 1, n - o)[i] = displayed[1 + i - 1]
      BY <3>3, <3>4, SubSeqProperties
    <3>6. /\ SubSeq(displayed', 1, n - o) \in Seq(Texts)
          /\ Len(SubSeq(displayed', 1, n - o)) = IF 1 <= n - o THEN n - o - 1 + 1 ELSE 0
          /\ \A i \in 1 .. n - o - 1 + 1 : SubSeq(displayed', 1, n - o)[i] = displayed'[1 + i - 1]
      <4>1. \A i \in 1 .. n - o : displayed'[i] \in Texts
        BY <3>3
      <4> QED BY <3>4, <4>1, SubSeqProperties
    <3>7. SubSeq(displayed, 1, n - o) = SubSeq(displayed', 1, n - o)
      <4> DEFINE a == SubSeq(displayed, 1, n - o)
                 b == SubSeq(displayed', 1, n - o)
      <4>1. a \in Seq(Texts) /\ b \in Seq(Texts) /\ Len(a) = Len(b)
        BY <3>5, <3>6
      <4>2. \A i \in 1 .. Len(a) : i \in 1 .. n - o - 1 + 1
        BY <2>2, <3>5
      <4>3. \A i \in 1 .. Len(a) : a[i] = b[i]
        BY <3>3, <3>4, <3>5, <3>6, <4>2
      <4> HIDE DEF a, b
      <4> QED BY <4>1, <4>3, SeqEqual DEF a, b
    <3> QED BY <3>1, <3>2, <3>7
  <2>5. Begun(output', offset') = Begun(output, offset)
    <3>1. CASE output = << >>
      <4>1. offset' = 0
        BY <1>1, <3>1 DEF LineInv
      <4>2. SubSeq(Head(output'), 1, 0) = << >>
        BY SubSeqEmpty
      <4> QED BY <2>2, <3>1, <4>1, <4>2, ExpandedTextEmpty DEF Begun
    <3>2. CASE output # << >>
      <4>1. output'[1] = output[1]
        BY <2>2, <2>e, <3>2
      <4>2. Head(output') = Head(output)
        BY <4>1
      <4> QED BY <1>1, <2>2, <3>2, <4>2 DEF Begun
    <3> QED BY <3>1, <3>2
  <2>6. Traffic(Line)' = Expanded(Done(displayed', output')) \o Begun(output', offset')
    BY <1>3, <2>4, <2>5, LineHas
  <2>7. /\ (Len(output) <= Len(displayed))'
        /\ (\A i \in 1 .. Len(output) : output[i] = displayed[Printed + i])'
    <3>1. Printed' = n - o /\ Len(displayed') = n + 1 /\ Len(output') = o + 1
      BY <2>2, <2>3 DEF Printed
    <3>2. ASSUME NEW i \in 1 .. o + 1 PROVE output'[i] = displayed'[n - o + i]
      <4>1. CASE i = o + 1
        <5>1. n - o + (o + 1) = n + 1
          BY <2>2
        <5> QED BY <2>2, <4>1, <5>1
      <4>2. CASE i # o + 1
        <5>1. i \in 1 .. o /\ n - o + i \in 1 .. n
          BY <2>2, <4>2
        <5> QED BY <2>2, <5>1
      <4> QED BY <4>1, <4>2
    <3>3. o + 1 <= n + 1
      BY <2>2
    <3> QED BY <3>1, <3>2, <3>3
  <2>8. (offset \in Nat)' /\ (output = << >> => offset = 0)'
    BY <1>1, <2>2 DEF LineInv
  <2>9. (offset <= Len(Head(output)))'
    <3>1. CASE output = << >>
      <4>1. offset' = 0 /\ Head(output') = h
        BY <1>1, <2>2, <2>e, <3>1 DEF LineInv
      <4>2. Len(h) \in Nat
        <5>1. h \in Seq(Chars)
          BY <2>1, CharsFacts
        <5> QED BY <5>1, LenProperties
      <4> QED BY <4>1, <4>2
    <3>2. CASE output # << >>
      <4>1. output'[1] = output[1]
        BY <2>2, <2>e, <3>2
      <4>2. Head(output') = Head(output)
        BY <4>1
      <4> QED BY <1>1, <3>2, <4>2 DEF LineInv
    <3> QED BY <3>1, <3>2
  <2> QED BY <1>3, <2>2, <2>6, <2>7, <2>8, <2>9, LineStep
<1> QED
  BY <1>4, <1>5 DEF CrtReceive

LEMMA LineNext == LineInv /\ NoticeInv /\ [Next]_vars => LineInv'
<1> SUFFICES ASSUME LineInv, NoticeInv, [Next]_vars PROVE LineInv'
  OBVIOUS
<1>1. ASSUME UNCHANGED <<lineVars, output, offset, displayed>> PROVE LineInv'
  <2>1. Line' = Line
    BY <1>1 DEF Line, lineVars
  <2>2. GoodLine(Line') /\ Traffic(Line') = Traffic(Line)
    BY <2>1 DEF LineInv
  <2>3. GoodLine(Line)' /\ Traffic(Line)' = Traffic(Line)
    BY <2>2 DEF GoodLine, Traffic
  <2> QED BY <1>1, <2>3, QuietLine
<1>2. ASSUME NEW ch \in {"key", "cr"}, RxIrq(ch) PROVE LineInv'
  BY <1>2, LineRxIrq
<1>3. CASE ThreIrq
  BY <1>3, LineThreIrq
<1>4. CASE Kcd
  BY <1>1, <1>4 DEF Kcd, KcdReceive, KcdGetc, KcdDispatch, crtVars
<1>5. CASE CrtReceive
  BY <1>5, LineCrtReceive
<1>6. CASE CrtClear
  BY <1>1, <1>6 DEF CrtClear
<1>7. CASE CrtPrint
  BY <1>7, LineCrtPrint
<1>8. ASSUME NEW t \in Texts, DisplaySend(t) PROVE LineInv'
  BY <1>1, <1>8 DEF DisplaySend
<1>9. CASE UNCHANGED vars
  BY <1>1, <1>9 DEF vars, crtVars
<1> QED
  BY <1>2, <1>3, <1>4, <1>5, <1>6, <1>7, <1>8, <1>9 DEF Next, Irq, Crt

\* What goes over the line, and what is left in the buffer, is what CRT has
\* printed, whatever is typed meanwhile (uart_irq.c:78-92, 115-126).
THEOREM TextsStayIntact == Spec => []TextsIntact
<1>1. LineInv => TextsIntact
  BY DEF LineInv
<1> QED
  BY <1>1, LineInit, LineNext, NoticeInit, NoticeNext, PTL DEF Spec

\* An idle line has nothing to send (uart_irq.c:84-91, 306-313).
THEOREM IdleLineIsEmpty == Spec => []LineBusy
<1>1. LineInv => LineBusy
  BY LineFields DEF LineInv, GoodLine, LineBusy
<1> QED
  BY <1>1, LineInit, LineNext, NoticeInit, NoticeNext, PTL DEF Spec

\* The variables of the handler, KCD and CRT keep their types, and the two
\* buffers their capacities.
THEOREM ConsoleTypes == Spec => []TypeOK
<1>1. InputInv /\ NoticeInv /\ LineInv => TypeOK
  BY LineFields DEF InputInv, InputToken, NoticeInv, LineInv, GoodLine, TypeOK
<1> QED
  BY <1>1, InputInit, InputNext, LineInit, LineNext, NoticeInit, NoticeNext, PTL DEF Spec
=============================================================================
