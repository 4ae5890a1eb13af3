---------------------------- MODULE MCTimerKernel ----------------------------
(* The one user process of MCKernel under the timer. *)
EXTENDS TimerKernel, MCKernel
=============================================================================
