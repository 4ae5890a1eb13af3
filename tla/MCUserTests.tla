------------------------------ MODULE MCUserTests ------------------------------
(* The whole system as it is built: the processes of rtx_init.c and their priorities. *)
EXTENDS UserTests

\* k_set_procs: the null process, the system processes, and those of usr_proc.c.
MCInitOrder == <<0, 11, 12, 13, 10, 1, 2, 3, 4, 5, 6, 7, 8, 9>>
MCInitPriority ==
  [p \in 0 .. 13 |-> IF p = PID_NULL THEN NULL_PRIO ELSE IF p > 9 THEN HIGH ELSE LOWEST]

MCStartPoint ==
  [p \in Procs |->
     IF p \in Testers THEN "test"
     ELSE IF p \in {PID_P4, PID_KCD, PID_CRT, PID_B} THEN "receive"
     ELSE IF p = PID_C THEN "take"
     ELSE IF p \in {PID_A, PID_SET_PRIO, PID_CLOCK} THEN "register" ELSE "spin"]

MCNone == -1
MCNoLines == << >>
=============================================================================
