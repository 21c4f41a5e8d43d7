------------------------------- MODULE MCSignals -------------------------------
(* The signal points and faults TLC checks Signals on. *)
EXTENDS Signals
\* clear_state succeeds, so that Released says something of the state file.
ClearWorks == FaultPoints \ {"clear"}
AllPoints == Labels
AfterStart == Labels \ StartLabels
Nowhere == {}
=============================================================================
