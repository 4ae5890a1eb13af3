--------------------------------- MODULE Uart ---------------------------------
(***************************************************************************)
(* The console: the UART interrupt handler (uart_irq.c), the keyboard      *)
(* decoder KCD (kcd.c), the display process CRT (crt.c), and the two       *)
(* buffers, the three flags and the two notifications they share.          *)
(*                                                                         *)
(* The handler runs with interrupts off, and so do uart_iproc_getc and     *)
(* uart_iproc_putc; between two of these calls the handler can come in at  *)
(* any point of KCD and CRT.  A notification is a message of the kernel:   *)
(* module Kernel shows that a process with mail runs again, here the       *)
(* mailboxes are counters and queues.                                      *)
(*                                                                         *)
(* Keys are "key" and "cr"; the handler drops backspaces and hotkeys       *)
(* before they reach anything modelled here.  A text is a sequence of      *)
(* printable characters and "nl".                                          *)
(***************************************************************************)
EXTENDS Integers, Sequences, SequencesExt

CONSTANTS InCapacity, OutCapacity,   \* both 200 in uart_irq.c
          OUTBUF_THRESHOLD,          \* 100 in uart_irq.c
          Texts,                     \* the texts that processes send to CRT
          MAX_KEYS, MAX_TEXTS        \* bounds on the keys typed and the texts sent

notif == <<"notif">>   \* notif_out_msg in CRT's mailbox, no text

ASSUME UartAssumption ==
  /\ InCapacity \in Nat \ {0}
  /\ OUTBUF_THRESHOLD \in Nat
  /\ OutCapacity \in Nat /\ OutCapacity >= OUTBUF_THRESHOLD + 2
  /\ \A t \in Texts : t \in Seq(STRING) /\ t # notif
  /\ \A t \in Texts : \A i \in DOMAIN t : t[i] \notin {"echo", "cr"}
  /\ MAX_KEYS \in Nat /\ MAX_TEXTS \in Nat

VARIABLES inbuf, outbuf,
          uart_thre, uart_iproc_notif_in, uart_iproc_notif_out,
          mtext,          \* notif_out_msg.mtext: the notification is on its way
          kcd, kcd_mail,  \* what KCD does, and the notifications in its mailbox
          crt, crt_mail,  \* what CRT does, and its mailbox
          output, offset, \* CRT's queue of texts and its position in the first one
          keys,           \* the number of keys typed
          displayed,      \* history: the texts that CRT took, in order
          sent            \* history: the characters of texts put on the line

inVars == <<inbuf, uart_iproc_notif_in, kcd, kcd_mail, keys>>
lineVars == <<outbuf, uart_thre, sent>>
crtVars == <<uart_iproc_notif_out, mtext, crt, crt_mail, output, offset, displayed>>
vars == <<inVars, lineVars, crtVars>>

Init ==
  /\ inbuf = << >> /\ outbuf = << >>
  /\ uart_thre = FALSE
  /\ uart_iproc_notif_in = TRUE
  /\ uart_iproc_notif_out = FALSE
  /\ mtext = 0
  /\ kcd = "receive" /\ kcd_mail = 0
  /\ crt = "receive" /\ crt_mail = << >>
  /\ output = << >> /\ offset = 0
  /\ keys = 0 /\ displayed = << >> /\ sent = << >>

-----------------------------------------------------------------------------
(* Output to the line. *)

\* Characters of texts leave a trace when they are put on the line.
Traced(line, ch) == IF ch = "echo" THEN line.sent ELSE Append(line.sent, ch)

Line == [outbuf |-> outbuf, uart_thre |-> uart_thre, sent |-> sent]

\* uart_putc_nonblocking: a full buffer drops the character; an idle line takes
\* the front of the buffer at once.
\* Mutant: an idle line is not started.
uart_putc_lazy(line, ch) ==
  [line EXCEPT !.outbuf = IF Len(@) # OutCapacity THEN Append(@, ch) ELSE @]
\* Mutant: a full buffer is written to.
uart_putc_unchecked(line, ch) ==
  IF ~ line.uart_thre
  THEN [outbuf |-> Tail(Append(line.outbuf, ch)), uart_thre |-> TRUE,
        sent |-> Traced(line, Head(Append(line.outbuf, ch)))]
  ELSE [line EXCEPT !.outbuf = Append(@, ch)]
uart_putc_nonblocking(line, ch) ==
  LET buf == IF Len(line.outbuf) # OutCapacity THEN Append(line.outbuf, ch) ELSE line.outbuf
  IN  IF ~ line.uart_thre
      THEN [outbuf |-> Tail(buf), uart_thre |-> TRUE, sent |-> Traced(line, Head(buf))]
      ELSE [line EXCEPT !.outbuf = buf]

\* One character or two, one after the other.
PutAll(chars) ==
  LET first == uart_putc_nonblocking(Line, chars[1])
  IN  IF Len(chars) = 1 THEN first ELSE uart_putc_nonblocking(first, chars[2])

SetLine(line) ==
  outbuf' = line.outbuf /\ uart_thre' = line.uart_thre /\ sent' = line.sent

\* What uart_iproc_putc puts into the buffer for one character.
WithReturn(ch) == IF ch = "nl" THEN <<"ret", "nl">> ELSE <<ch>>

-----------------------------------------------------------------------------
(* The interrupt handler. *)

\* A character has been received: echo it, then uart_send_input_char.
RxIrq(ch) ==
  /\ keys < MAX_KEYS
  /\ keys' = keys + 1
  /\ SetLine(PutAll(IF ch = "cr" THEN <<"echo", "echo">> ELSE <<"echo">>))
  /\ IF Len(inbuf) = InCapacity
     THEN UNCHANGED <<inbuf, uart_iproc_notif_in, kcd_mail>>
     ELSE /\ inbuf' = Append(inbuf, ch)
          /\ IF ch = "cr" /\ uart_iproc_notif_in
             THEN uart_iproc_notif_in' = FALSE /\ kcd_mail' = kcd_mail + 1
             ELSE UNCHANGED <<uart_iproc_notif_in, kcd_mail>>
  /\ UNCHANGED <<kcd, crtVars>>

\* The line is idle again: send the next character, or stop and tell CRT if it
\* asked for that.
ThreIrq ==
  /\ uart_thre
  /\ IF outbuf = << >>
     THEN /\ uart_thre' = FALSE
          /\ uart_iproc_notif_out' = FALSE
          /\ IF uart_iproc_notif_out
             THEN mtext' = 1 /\ crt_mail' = Append(crt_mail, notif)
             ELSE UNCHANGED <<mtext, crt_mail>>
          /\ UNCHANGED <<outbuf, sent>>
     ELSE /\ outbuf' = Tail(outbuf)
          /\ sent' = Traced(Line, Head(outbuf))
          /\ UNCHANGED <<uart_thre, uart_iproc_notif_out, mtext, crt_mail>>
  /\ UNCHANGED <<inVars, crt, output, offset, displayed>>

-----------------------------------------------------------------------------
(* KCD. *)

\* receive_message returns a notification.
KcdReceive ==
  /\ kcd = "receive" /\ kcd_mail > 0
  /\ kcd' = "getc"
  /\ kcd_mail' = kcd_mail - 1
  /\ UNCHANGED <<inbuf, uart_iproc_notif_in, keys, lineVars, crtVars>>

\* Mutant: input notification is not enabled again.
uart_iproc_getc_forgets == inbuf = << >> /\ UNCHANGED <<inbuf, uart_iproc_notif_in>>
\* uart_iproc_getc when it returns NO_CHAR, and when it returns a character.
uart_iproc_getc_none == inbuf = << >> /\ uart_iproc_notif_in' = TRUE /\ UNCHANGED inbuf
uart_iproc_getc_some == inbuf # << >> /\ inbuf' = Tail(inbuf) /\ UNCHANGED uart_iproc_notif_in

\* One turn of the loop of kcd_handle_keyboard_input.
KcdGetc ==
  /\ kcd = "getc"
  /\ \/ uart_iproc_getc_none /\ kcd' = "receive"
     \/ uart_iproc_getc_some /\ kcd' = IF Head(inbuf) = "cr" THEN "dispatch" ELSE "getc"
  /\ UNCHANGED <<kcd_mail, keys, lineVars, crtVars>>

\* kcd_process_keyboard_input returns: the line is on its way to the processes
\* that registered for it.  It may first have waited for memory blocks.
KcdDispatch ==
  /\ kcd = "dispatch"
  /\ kcd' = "getc"
  /\ UNCHANGED <<inbuf, uart_iproc_notif_in, kcd_mail, keys, lineVars, crtVars>>

-----------------------------------------------------------------------------
(* CRT. *)

\* A process sends a text to CRT.
DisplaySend(t) ==
  /\ Len(displayed) + Cardinality({i \in DOMAIN crt_mail : crt_mail[i] # notif}) < MAX_TEXTS
  /\ crt_mail' = Append(crt_mail, t)
  /\ UNCHANGED <<inVars, lineVars, uart_iproc_notif_out, mtext, crt, output, offset, displayed>>

\* receive_message: a text is queued, a notification is still to be marked.
CrtReceive ==
  /\ crt = "receive" /\ crt_mail # << >>
  /\ crt_mail' = Tail(crt_mail)
  /\ IF Head(crt_mail) = notif
     THEN crt' = "clear" /\ UNCHANGED <<output, displayed>>
     ELSE /\ crt' = "print"
          /\ output' = Append(output, Head(crt_mail))
          /\ displayed' = Append(displayed, Head(crt_mail))
  /\ UNCHANGED <<inVars, lineVars, uart_iproc_notif_out, mtext, offset>>

\* crt.c:21-23: the notification has arrived.
\* Mutant: it is not marked.
ClearNotification_forgotten == mtext' = mtext
ClearNotification == mtext' = 0

CrtClear ==
  /\ crt = "clear"
  /\ ClearNotification
  /\ crt' = "print"
  /\ UNCHANGED <<inVars, lineVars, uart_iproc_notif_out, crt_mail, output, offset, displayed>>

\* uart_iproc_putc when it returns false: ask for a notification, unless one is
\* on its way.
\* Mutant: ask for one whatever is on its way.
AskForRoom_always == uart_iproc_notif_out' = TRUE
AskForRoom == uart_iproc_notif_out' = (uart_iproc_notif_out \/ mtext = 0)

\* Mutant: room for one character is enough.
HasRoom_one == Len(outbuf) < OutCapacity
\* uart_iproc_putc takes a character only below a threshold that leaves room for
\* the carriage return it adds.
HasRoom == Len(outbuf) <= OUTBUF_THRESHOLD

\* One turn of the loop of proc_crt: nothing to print, the next character of
\* the first text, no room for it, or the end of the text.
CrtPrint ==
  /\ crt = "print"
  /\ \/ /\ output = << >>
        /\ crt' = "receive"
        /\ UNCHANGED <<lineVars, uart_iproc_notif_out, output, offset>>
     \/ /\ output # << >> /\ offset < Len(Head(output))
        /\ HasRoom
        /\ SetLine(PutAll(WithReturn(Head(output)[offset + 1])))
        /\ offset' = offset + 1
        /\ UNCHANGED <<uart_iproc_notif_out, crt, output>>
     \/ /\ output # << >> /\ offset < Len(Head(output))
        /\ ~ HasRoom
        /\ AskForRoom
        /\ crt' = "receive"
        /\ UNCHANGED <<lineVars, output, offset>>
     \/ /\ output # << >> /\ offset = Len(Head(output))
        /\ output' = Tail(output)
        /\ offset' = 0
        /\ UNCHANGED <<lineVars, uart_iproc_notif_out, crt>>
  /\ UNCHANGED <<inVars, mtext, crt_mail, displayed>>

-----------------------------------------------------------------------------
Irq == (\E ch \in {"key", "cr"} : RxIrq(ch)) \/ ThreIrq
Kcd == KcdReceive \/ KcdGetc \/ KcdDispatch
Crt == CrtReceive \/ CrtClear \/ CrtPrint

Next == Irq \/ Kcd \/ Crt \/ \E t \in Texts : DisplaySend(t)

Spec == Init /\ [][Next]_vars

\* The line goes on sending, KCD and CRT, which have the best priority, run when
\* they can, and the processes of the system release the blocks that KCD may have
\* to wait for.  Nobody has to type or to print.
FairSpec == Spec /\ WF_vars(ThreIrq) /\ WF_vars(Kcd) /\ WF_vars(Crt)
-----------------------------------------------------------------------------
(* Properties. *)

TypeOK ==
  /\ inbuf \in Seq({"key", "cr"}) /\ Len(inbuf) <= InCapacity
  /\ Len(outbuf) <= OutCapacity
  /\ {uart_thre, uart_iproc_notif_in, uart_iproc_notif_out} \subseteq BOOLEAN
  /\ mtext \in {0, 1}
  /\ kcd \in {"receive", "getc", "dispatch"} /\ kcd_mail \in Nat
  /\ crt \in {"receive", "clear", "print"} /\ crt_mail \in Seq(Texts \cup {notif})
  /\ output \in Seq(Texts) /\ offset \in Nat
  /\ keys \in 0 .. MAX_KEYS

Notifications == {i \in DOMAIN crt_mail : crt_mail[i] = notif}

\* Neither notification message is ever in a mailbox twice: there is one buffer
\* for each, and the module Kernel relies on it (uart_irq.c:56-60, 67-72,
\* 101-103, 116-118; crt.c:20-23).
OneNotificationInFlight == kcd_mail <= 1 /\ Cardinality(Notifications) <= 1

\* A completed line never waits in the input buffer without KCD knowing: a
\* notification is queued or KCD is reading (uart_irq.c:54-61, 98-109).
LineAnnounced ==
  (\E i \in DOMAIN inbuf : inbuf[i] = "cr") => kcd_mail > 0 \/ kcd # "receive"

\* CRT never waits for room with nobody to tell it (uart_irq.c:115-118, 66-72).
RoomAnnounced ==
  crt = "receive" /\ output # << >> => uart_iproc_notif_out \/ Notifications # {}

\* Characters never wait in the output buffer of an idle line
\* (uart_irq.c:84-91, 306-313).
LineBusy == outbuf # << >> => uart_thre

\* What goes over the line, and what is left in the buffer, is exactly what CRT
\* has printed of the texts it took, in order: echoed keys come in between but
\* never push a character out (uart_irq.c:78-92, 115-126).
Expanded(ts) == FlattenSeq([i \in DOMAIN ts |-> FlattenSeq([j \in DOMAIN ts[i] |-> WithReturn(ts[i][j])])])
Printed == Len(displayed) - Len(output)
PrintedText ==
  Expanded(SubSeq(displayed, 1, Printed)
           \o IF output = << >> THEN << >> ELSE <<SubSeq(Head(output), 1, offset)>>)
WithoutEcho(buf) ==
  LET kept[n \in 0 .. Len(buf)] ==
        IF n = 0 THEN << >>
        ELSE IF buf[n] = "echo" THEN kept[n - 1] ELSE Append(kept[n - 1], buf[n])
  IN  kept[Len(buf)]
TextsIntact == sent \o WithoutEcho(outbuf) = PrintedText

\* Every completed line is read, and every text is printed.
LinesRead == (\E i \in DOMAIN inbuf : inbuf[i] = "cr") ~> ~ (\E i \in DOMAIN inbuf : inbuf[i] = "cr")
TextsPrinted == (output # << >>) ~> (output = << >> /\ outbuf = << >>)

\* uart_irq.c:48 says "Send the input character to the appropriate process(es)":
\* after a carriage return, KCD reads or has a reason to.  Not so when the input
\* buffer has filled up without one: it is dropped, as every later one.
ReturnAnnounced == [][RxIrq("cr") => kcd_mail' > 0 \/ kcd' # "receive"]_vars
=============================================================================
