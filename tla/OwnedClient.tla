------------------------------ MODULE OwnedClient ------------------------------
(***************************************************************************)
(* What the owner of a lazily created client promises, be it the HTTP       *)
(* application or the MCP server: there is at most one client; it is made   *)
(* and handed out only while the owner is open; it is closed at most once,  *)
(* after that, and never if it belongs to somebody else.                    *)
(***************************************************************************)
CONSTANTS
    Users,      \* requests and tool calls
    Given       \* the client the owner may be created with

VARIABLES
    clients,    \* those there have been
    holders,    \* users that were handed the client
    closed,     \* the owner is closed
    released,   \* clients the owner has closed
    keeps       \* clients it may not close

vars == <<clients, holders, closed, released, keeps>>

Init ==
    /\ clients \in {{}, {Given}} /\ keeps \in SUBSET clients
    /\ holders = {} /\ closed = FALSE /\ released = {}

Make(c) ==
    /\ ~closed /\ clients = {}
    /\ clients' = {c} /\ holders' = holders \cup {c}
    /\ UNCHANGED <<closed, released, keeps>>

HandOut(u) ==
    /\ ~closed /\ clients # {}
    /\ holders' = holders \cup {u}
    /\ UNCHANGED <<clients, closed, released, keeps>>

Shut ==
    /\ ~closed /\ closed' = TRUE
    /\ UNCHANGED <<clients, holders, released, keeps>>

Release(c) ==
    /\ closed /\ c \in clients \ keeps /\ c \notin released
    /\ released' = released \cup {c}
    /\ UNCHANGED <<clients, holders, closed, keeps>>

Next ==
    \/ \E u \in Users : Make(u) \/ HandOut(u)
    \/ Shut
    \/ \E c \in Users \cup {Given} : Release(c)

Spec == Init /\ [][Next]_vars
=============================================================================
