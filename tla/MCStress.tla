-------------------------------- MODULE MCStress --------------------------------
(* The stress processes with small numbers, for TLC. *)
EXTENDS Stress, TLC

CONSTANTS null, kcd, crt, setprio, pid_a, pid_b, pid_c, spin, uart

MCInitOrder == <<null, kcd, crt, setprio, spin, pid_a, pid_b, pid_c>>
MCInitPriority ==
  null :> NULL_PRIO @@ kcd :> 0 @@ crt :> 0 @@ setprio :> 0
  @@ spin :> 1 @@ pid_a :> 1 @@ pid_b :> 1 @@ pid_c :> 1

MCStartPoint ==
  [p \in Procs |->
     IF p \in {kcd, crt, pid_b} THEN "receive"
     ELSE IF p = pid_c THEN "take"
     ELSE IF p \in {pid_a, setprio} THEN "register" ELSE "spin"]

\* First the stress is started; then comes a second start, a command of wrong form, or
\* one that sets the priority of A or of C, or is refused.
MCLines ==
  <<{[cmd |-> "%Z"]},
    {[cmd |-> "%Z"], [cmd |-> "%C", legal |-> FALSE]}
    \cup {[cmd |-> "%C", legal |-> TRUE, pid |-> call[1], priority |-> call[2]] :
            call \in {<<pid_a, 0>>, <<pid_c, 0>>, <<null, 0>>}}>>
=============================================================================
