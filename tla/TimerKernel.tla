----------------------------- MODULE TimerKernel -----------------------------
(***************************************************************************)
(* The kernel with the timer that interrupts it: the match interrupt flag  *)
(* of TIMER0, which asks for c_TIMER0_IRQHandler for as long as it is set, *)
(* and which the handler clears in its last line.  A handler that gives    *)
(* the processor away leaves the flag set: the interrupt is taken again as *)
(* soon as the new process runs, and the flag is cleared once more when    *)
(* the old process gets the processor back.                                *)
(***************************************************************************)
EXTENDS Kernel

CONSTANT MAX_MATCHES \* bound on the milliseconds that pass

ASSUME MatchAssumption == MAX_MATCHES \in Nat

VARIABLES IR,          \* bit 0 of LPC_TIM0->IR
          tc_matches,  \* history: the milliseconds that have passed
          preemptions \* history: the ticks that gave the processor away

timerVars == <<vars, IR, tc_matches, preemptions>>

TimerInit == Init /\ IR = FALSE /\ tc_matches = 0 /\ preemptions = 0

\* TIMER0 reaches its match value, once every millisecond.
Match ==
  /\ tc_matches < MAX_MATCHES
  /\ tc_matches' = tc_matches + 1
  /\ IR' = TRUE
  /\ UNCHANGED <<vars, preemptions>>

\* Mutant: the interrupt is not acknowledged.
ClearIR_never == IR' = IR
\* The last line of the handler.
ClearIR == IR' = FALSE

\* The interrupt is taken; without a process switch the handler also ends.
c_TIMER0_IRQHandler ==
  /\ IR
  /\ TimerIrq
  /\ IF k'.running = k.running
     THEN ClearIR /\ UNCHANGED preemptions
     ELSE preemptions' = preemptions + 1 /\ UNCHANGED IR
  /\ UNCHANGED tc_matches

\* The last line of a handler that a process switch interrupted.
Acknowledge ==
  /\ TimerAck
  /\ ClearIR
  /\ UNCHANGED <<tc_matches, preemptions>>

Other == CallOrUart /\ UNCHANGED <<IR, tc_matches, preemptions>>

TimerNext == Match \/ c_TIMER0_IRQHandler \/ Acknowledge \/ Other

TimerSpec == TimerInit /\ [][TimerNext]_timerVars
-----------------------------------------------------------------------------
\* A tick is counted twice only if it gave the processor away, and then only
\* twice, however late the handlers that were left come to their end
\* (timer.c:113-122).
GhostTicksExplained == g_timer_count <= tc_matches + preemptions

\* timer.c:16 says of g_timer_count "increment every 1 ms": it never counts
\* more milliseconds than have passed.  It does: a tick that preempts the
\* running process is counted again.
TicksAreReal == g_timer_count <= tc_matches
=============================================================================
