------------------------------- MODULE Register -------------------------------
(***************************************************************************)
(* What a file that several processes save promises its readers: it holds   *)
(* what it held before or the whole of one save, and a save that reports an *)
(* error has changed nothing.                                               *)
(***************************************************************************)
CONSTANTS Writers, Before

VARIABLES
    content,    \* whose save the file holds
    outcome     \* how each save ended

vars == <<content, outcome>>

Init ==
    /\ content = Before
    /\ outcome = [w \in Writers |-> "none"]

Save(w) ==
    /\ outcome[w] = "none"
    /\ content' = w /\ outcome' = [outcome EXCEPT ![w] = "saved"]

Fail(w) ==
    /\ outcome[w] = "none"
    /\ outcome' = [outcome EXCEPT ![w] = "failed"] /\ UNCHANGED content

Next == \E w \in Writers : Save(w) \/ Fail(w)

Spec == Init /\ [][Next]_vars
=============================================================================
