--------------------------------- MODULE Relay ---------------------------------
(***************************************************************************)
(* What a streamed chat promises its HTTP client: the texts of the answer  *)
(* in order, and then one verdict.  It calls the answer complete only when  *)
(* every text has been relayed; after the verdict there is nothing more.    *)
(***************************************************************************)
EXTENDS Naturals, Sequences

VARIABLES
    texts,      \* the texts of the answer
    complete,   \* the answer is well-formed and was not cut short
    relayed,    \* those that were relayed
    verdict     \* "none", "complete", "error" or "gone"

relayVars == <<texts, complete, relayed, verdict>>

Init ==
    /\ complete \in BOOLEAN
    /\ relayed = <<>> /\ verdict = "none"

Text ==
    /\ verdict = "none" /\ Len(relayed) < Len(texts)
    /\ relayed' = Append(relayed, texts[Len(relayed) + 1])
    /\ UNCHANGED <<texts, complete, verdict>>

Complete ==
    /\ verdict = "none" /\ complete /\ relayed = texts
    /\ verdict' = "complete"
    /\ UNCHANGED <<texts, complete, relayed>>

Error == verdict = "none" /\ verdict' = "error" /\ UNCHANGED <<texts, complete, relayed>>

\* The HTTP client may go away at any time, even within the verdict.
Leave == verdict # "gone" /\ verdict' = "gone" /\ UNCHANGED <<texts, complete, relayed>>

Next == Text \/ Complete \/ Error \/ Leave
Spec == Init /\ [][Next]_relayVars
=============================================================================
