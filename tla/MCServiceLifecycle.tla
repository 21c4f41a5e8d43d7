-------------------------- MODULE MCServiceLifecycle --------------------------
(* The thread sets TLC checks ServiceLifecycle on. *)
EXTENDS ServiceLifecycle
AllFaults == FaultPoints
=============================================================================
