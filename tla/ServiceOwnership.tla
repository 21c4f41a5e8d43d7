--------------------------- MODULE ServiceOwnership ---------------------------
(***************************************************************************)
(* What KiroxService promises about the things it owns, without threads or *)
(* locks: resources are acquired in one order while it starts, nothing is  *)
(* acquired afterwards, they are let go in ownership order while it stops  *)
(* ("Stop scheduler, server, state, and client in ownership order."), and  *)
(* the stopped Event is set exactly when nothing is left.                  *)
(***************************************************************************)
EXTENDS FiniteSets

CONSTANT Residue     \* what a failing tear-down step may leave behind:
                     \* {"state"}, or nothing

VARIABLES
    phase,   \* "new", "starting", "running", "stopping" or "stopped"
    event,   \* wait() returns
    held     \* the resources that are live

absVars == <<phase, event, held>>

Resources == {"client", "socket", "worker", "server", "state"}
Phases == {"new", "starting", "running", "stopping", "stopped"}

Needs(r) == CASE r = "client" -> {}
              [] r = "socket" -> {"client"}
              [] r = "worker" -> {"client", "socket"}
              [] r = "server" -> {"client", "socket", "worker"}
              [] r = "state"  -> {"client", "worker"}

\* What must be gone before r is let go.
ReleasedBefore(r) ==
    CASE r = "worker" -> {}
      [] r \in {"socket", "server"} -> {"worker"}
      [] r = "state"  -> {"worker", "socket", "server"}
      [] r = "client" -> {"worker", "socket", "server", "state"} \ Residue

Init == phase = "new" /\ event = TRUE /\ held \in {{}, {"client"}}

Begin ==
    /\ phase = "new"
    /\ phase' = "starting" /\ event' = FALSE
    /\ UNCHANGED held

Acquire(r) ==
    /\ phase = "starting" /\ r \notin held /\ Needs(r) \subseteq held
    /\ held' = held \cup {r}
    /\ UNCHANGED <<phase, event>>

Publish ==
    /\ phase = "starting" /\ {"client", "worker", "state"} \subseteq held
    /\ phase' = "running"
    /\ UNCHANGED <<event, held>>

\* The serving thread may die at any time; its socket goes first.
Lose(r) ==
    /\ r \in held /\ r \in {"socket", "server"}
    /\ r = "server" => "socket" \notin held
    /\ held' = held \ {r}
    /\ UNCHANGED <<phase, event>>

\* A serving thread that cannot be started gives up its socket at once.
Retire ==
    /\ phase \in {"new", "starting", "running"}
    /\ phase' = "stopping"
    /\ held' = held \/ (phase = "starting" /\ held' = held \ {"socket"})
    /\ UNCHANGED event

Release(r) ==
    /\ phase = "stopping" /\ r \in held
    /\ ReleasedBefore(r) \cap held = {}
    /\ held' = held \ {r}
    /\ UNCHANGED <<phase, event>>

Finish ==
    /\ phase = "stopping" /\ held \subseteq Residue
    /\ phase' = "stopped" /\ event' = TRUE
    /\ UNCHANGED held

Next ==
    \/ Begin \/ Publish \/ Retire \/ Finish
    \/ \E r \in Resources : Acquire(r) \/ Lose(r) \/ Release(r)

Spec == Init /\ [][Next]_absVars
=============================================================================
