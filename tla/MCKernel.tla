------------------------------- MODULE MCKernel -------------------------------
(* Small instances of Kernel for TLC. *)
EXTENDS Kernel, TLC

CONSTANTS null, kcd, crt, u1, u2, uart

\* KCD and two user processes; KCD also plays CRT.
MCInitOrder == <<null, kcd, u1, u2>>
MCInitPriority == null :> NULL_PRIO @@ kcd :> 0 @@ u1 :> 1 @@ u2 :> 1

\* One user process.
MCInitOrder2 == <<null, kcd, u1>>
MCInitPriority2 == null :> NULL_PRIO @@ kcd :> 0 @@ u1 :> 1

\* KCD and a user process can be moved to both priorities, an i-process to one; the
\* other calls are invalid.
MCPriorityCalls ==
  ({kcd, u1} \X {0, 1}) \cup {<<uart, 0>>, <<null, 1>>, <<u1, -1>>, <<u1, NULL_PRIO>>}
=============================================================================
