------------------------------ MODULE ClientOwner ------------------------------
(***************************************************************************)
(* The owners of a lazily created AssistantClient: create_app               *)
(* (service/server.py), whose request handlers run on threads of their own  *)
(* and meet close_owned_client under client_lock, and the MCP server        *)
(* (mcp/server.py), whose tool calls obtain the client on the event loop and *)
(* use it on worker threads.  Everything the loop does without an await      *)
(* excludes everything else it does, so the loop is the MCP server's lock.   *)
(*                                                                          *)
(* A client is named by the user, a request or a tool call, that made it,    *)
(* and so is the httpx.Client a user opens inside one.                      *)
(***************************************************************************)
EXTENDS Naturals

CONSTANTS
    Users,      \* requests to the application, or tool calls
    Given,      \* the client an owner may be created with
    Closer,     \* whoever closes the owner
    None

ASSUME DistinctNames ==
    /\ Given \notin Users /\ Closer \notin Users /\ None \notin Users
    /\ None \notin {Given, Closer}

Clients == Users \cup {Given}

VARIABLES
    host,       \* "app" or "mcp"
    client,     \* shared_client, or _client
    owns,       \* owns_client
    closed,     \* closed, or _closed
    lock,       \* who holds client_lock, or runs on the event loop
    pc, kind,   \* where a user is, and what it asks for
    mine,       \* the client it was handed
    using,      \* the httpx.Client it posts through
    verdict,    \* what it is told
    http,       \* AssistantClient._http of every client
    httpState,  \* the httpx.Client each user opened
    closer,     \* where the closer is
    target,     \* the client it is about to close
    left,       \* how often it will call close
    made,       \* history: the clients there have been
    ended,      \* history: the clients close() was called on
    late        \* history: users that held the client when the owner closed

ownerVars == <<client, owns, closed, made>>
httpVars  == <<http, httpState>>
userVars  == <<pc, kind, mine, using, verdict>>
closeVars == <<closer, target, left, ended, late>>
vars == <<host, ownerVars, lock, userVars, httpVars, closeVars>>

App == host = "app"
InThread == {"got", "open", "read", "send", "sending"}

\* The lock, and what a mutation makes of it.
Always == TRUE                      \* mutation: client_lock is missing
Free == lock = None

Goes(u, label) == pc' = [pc EXCEPT ![u] = label]

\* An answer goes to whoever is still waiting for it; what it asked is over.
Answer(u, what) ==
    /\ Goes(u, "done") /\ kind' = [kind EXCEPT ![u] = "none"]
    /\ using' = [using EXCEPT ![u] = None]
    /\ verdict' = [verdict EXCEPT ![u] = IF @ = "none" THEN what ELSE @]

-----------------------------------------------------------------------------
(* A request, or a tool call, up to the client.                             *)

Kinds == IF App THEN {"invalid", "status", "call", "stream"} ELSE {"invalid", "call"}

\* Until the server, or the session, ends.
Arrive(u) ==
    /\ pc[u] = "idle" /\ closer = "serving"
    /\ \E k \in Kinds : kind' = [kind EXCEPT ![u] = k]
    /\ Goes(u, "validate")
    /\ UNCHANGED <<host, ownerVars, lock, mine, using, verdict, httpVars, closeVars>>

\* The Host header, the size, the payload or the arguments are refused before
\* anything is asked of the client.
Validate(u) ==
    /\ pc[u] = "validate"
    /\ IF kind[u] = "invalid" THEN Answer(u, "invalid")
                              ELSE Goes(u, "enter") /\ UNCHANGED <<kind, using, verdict>>
    /\ UNCHANGED <<host, ownerVars, lock, mine, httpVars, closeVars>>

Enter(u) ==
    /\ pc[u] = "enter" /\ Free
    /\ lock' = u /\ Goes(u, "inside")
    /\ UNCHANGED <<host, ownerVars, kind, mine, using, verdict, httpVars, closeVars>>

\* get_client, or get: "... client is closed".
GetClosed(u) ==
    /\ pc[u] = "inside" /\ closed
    /\ lock' = None /\ Answer(u, "error")
    /\ UNCHANGED <<host, ownerVars, mine, httpVars, closeVars>>

GetMissing(u) ==
    /\ pc[u] = "inside" /\ ~closed /\ client = None
    /\ Goes(u, "make")
    /\ UNCHANGED <<host, ownerVars, lock, kind, mine, using, verdict, httpVars, closeVars>>

GetThere(u) ==
    /\ pc[u] = "inside" /\ ~closed /\ client # None
    /\ mine' = [mine EXCEPT ![u] = client]
    /\ lock' = None /\ Goes(u, "got")
    /\ UNCHANGED <<host, ownerVars, kind, using, verdict, httpVars, closeVars>>

\* AuthManager.resolve and AssistantClient(...); only the application notes
\* that the client is its own.
Disowned == owns                    \* mutation: owns_client is not set
Owned == App

Make(u) ==
    /\ pc[u] = "make"
    /\ client' = u /\ made' = made \cup {u} /\ owns' = Owned
    /\ mine' = [mine EXCEPT ![u] = u]
    /\ lock' = None /\ Goes(u, "got")
    /\ UNCHANGED <<host, closed, kind, using, verdict, httpVars, closeVars>>

\* There are no credentials, or a path cannot be expanded or read; the MCP
\* server loads its configuration here, too.
KeepsLock(u) == UNCHANGED lock      \* mutation: not released on an exception
LeavesLock(u) == lock' = None

MakeFails(u) ==
    /\ pc[u] = "make" /\ Answer(u, "error") /\ LeavesLock(u)
    /\ UNCHANGED <<host, ownerVars, mine, httpVars, closeVars>>

-----------------------------------------------------------------------------
(* The use of the client, on the request's or a worker thread.              *)

\* api_token_status reads what the client was made with.
Status(u) ==
    /\ pc[u] = "got" /\ kind[u] = "status" /\ Answer(u, "ok")
    /\ UNCHANGED <<host, ownerVars, lock, mine, httpVars, closeVars>>

\* The property _client: check, open, read again.
CheckHttp(u) ==
    /\ pc[u] = "got" /\ kind[u] # "status"
    /\ Goes(u, IF http[mine[u]] = None THEN "open" ELSE "read")
    /\ UNCHANGED <<host, ownerVars, lock, kind, mine, using, verdict, httpVars, closeVars>>

OpenHttp(u) ==
    /\ pc[u] = "open"
    /\ http' = [http EXCEPT ![mine[u]] = u]
    /\ httpState' = [httpState EXCEPT ![u] = "open"]
    /\ Goes(u, "read")
    /\ UNCHANGED <<host, ownerVars, lock, kind, mine, using, verdict, closeVars>>

ReadHttp(u) ==
    /\ pc[u] = "read"
    /\ using' = [using EXCEPT ![u] = http[mine[u]]]
    /\ Goes(u, "send")
    /\ UNCHANGED <<host, ownerVars, lock, kind, mine, verdict, httpVars, closeVars>>

Posts(u) == using[u] # None /\ httpState[using[u]] = "open"

Send(u) ==
    /\ pc[u] = "send" /\ Posts(u) /\ Goes(u, "sending")
    /\ UNCHANGED <<host, ownerVars, lock, kind, mine, using, verdict, httpVars, closeVars>>

\* A closed httpx.Client raises a RuntimeError, None has no post.
SendFails(u) ==
    /\ pc[u] = "send" /\ ~Posts(u) /\ Answer(u, "error")
    /\ UNCHANGED <<host, ownerVars, lock, mine, httpVars, closeVars>>

\* What upstream, the connection and the code that reads the answer make of it.
Respond(u) ==
    /\ pc[u] = "sending"
    /\ Answer(u, "ok") \/ Answer(u, "error")
    /\ UNCHANGED <<host, ownerVars, lock, mine, httpVars, closeVars>>

\* The reader of a stream leaves before its generator ran; a tool call is
\* cancelled before its thread ran, or before the loop began it.
Abandon(u) ==
    /\ \/ pc[u] = "got" /\ (~App \/ kind[u] = "stream")
       \/ pc[u] = "validate" /\ ~App
    /\ Answer(u, "cancelled")
    /\ UNCHANGED <<host, ownerVars, lock, mine, httpVars, closeVars>>

\* A tool call is cancelled while its thread runs; the thread runs on.
Cancel(u) ==
    /\ ~App /\ pc[u] \in InThread \ {"got"} /\ verdict[u] = "none"
    /\ verdict' = [verdict EXCEPT ![u] = "cancelled"]
    /\ UNCHANGED <<host, ownerVars, lock, pc, kind, mine, using, httpVars, closeVars>>

UserStep(u) ==
    \/ Validate(u) \/ Enter(u) \/ GetClosed(u) \/ GetMissing(u) \/ GetThere(u)
    \/ Make(u) \/ MakeFails(u) \/ Status(u) \/ CheckHttp(u) \/ OpenHttp(u)
    \/ ReadHttp(u) \/ Send(u) \/ SendFails(u) \/ Respond(u)

-----------------------------------------------------------------------------
(* The close.                                                               *)

\* run_server stops the server, which waits for no request; the session ends
\* when its tasks have ended or were cancelled, which waits for no thread.
TasksOver == \A u \in Users : pc[u] = "idle" \/ verdict[u] # "none"

EndServing ==
    /\ closer = "serving" /\ closer' = "ended"
    /\ UNCHANGED <<host, ownerVars, lock, userVars, httpVars, target, left, ended, late>>

\* run_server calls close once and main exits; the application's contract is
\* "once and for good", and the MCP server calls it again in _run_stdio.
BeginClose ==
    /\ closer = "ended" /\ left > 0 /\ (App \/ TasksOver) /\ Free
    /\ lock' = Closer /\ closer' = "locked" /\ left' = left - 1
    /\ UNCHANGED <<host, ownerVars, userVars, httpVars, target, ended, late>>

\* The part under the lock; the application forgets the client.
ClosesGiven == client # None /\ ~closed             \* mutation: whoever made it
ClosesAnything == IF App THEN owns ELSE ~closed     \* mutation: without a look
Releases == client # None /\ IF App THEN owns ELSE ~closed

CloseOwner ==
    /\ closer = "locked" /\ closed' = TRUE
    /\ late' = IF closed THEN late ELSE {u \in Users : pc[u] \in InThread}
    /\ IF Releases THEN closer' = "closing" /\ target' = client
                   ELSE closer' = "ended" /\ target' = None
    /\ IF Releases /\ App THEN client' = None /\ owns' = FALSE
                          ELSE UNCHANGED <<client, owns>>
    /\ lock' = IF Releases /\ ~App THEN lock ELSE None
    /\ UNCHANGED <<host, made, userVars, httpVars, left, ended>>

\* AssistantClient.close(): the httpx.Client, which may raise, and then None.
CloseHttp ==
    /\ closer = "closing" /\ ended' = ended \cup {target}
    /\ IF http[target] = None
       THEN closer' = "returns" /\ UNCHANGED httpState
       ELSE /\ httpState' = [httpState EXCEPT ![http[target]] = "closed"]
            /\ closer' \in {"forget", "returns"}
    /\ UNCHANGED <<host, ownerVars, lock, userVars, http, target, left, late>>

ForgetHttp ==
    /\ closer = "forget" /\ closer' = "returns"
    /\ http' = [http EXCEPT ![target] = None]
    /\ UNCHANGED <<host, ownerVars, lock, userVars, httpState, target, left, ended, late>>

CloseReturns ==
    /\ closer = "returns" /\ closer' = "ended"
    /\ lock' = IF App THEN lock ELSE None
    /\ UNCHANGED <<host, ownerVars, userVars, httpVars, target, left, ended, late>>

CloseStep == BeginClose \/ CloseOwner \/ CloseHttp \/ ForgetHttp \/ CloseReturns

Quiet == closer = "ended" /\ left = 0 /\ \A u \in Users : pc[u] \in {"idle", "done"}
Over == Quiet /\ UNCHANGED vars

Init ==
    /\ host \in {"app", "mcp"}
    /\ client \in {None, Given} /\ made = {client} \ {None}
    /\ owns = FALSE /\ closed = FALSE /\ lock = None
    /\ pc = [u \in Users |-> "idle"] /\ kind = [u \in Users |-> "none"]
    /\ mine = [u \in Users |-> None] /\ using = [u \in Users |-> None]
    /\ verdict = [u \in Users |-> "none"]
    /\ http = [c \in Clients |-> None] /\ httpState = [u \in Users |-> "none"]
    /\ closer = "serving" /\ target = None /\ left = 2
    /\ ended = {} /\ late = {}

Next ==
    \/ \E u \in Users : Arrive(u) \/ UserStep(u) \/ Abandon(u) \/ Cancel(u)
    \/ EndServing \/ CloseStep \/ Over

Spec == Init /\ [][Next]_vars

\* Threads are scheduled, and upstream's answers are bounded by httpx's
\* timeouts.  Nobody has to ask, to leave, to cancel or to end the server;
\* when the session of the MCP server ends, its tasks are cancelled or waited
\* for, so that it ends as well.
FairSpec ==
    /\ Spec /\ WF_vars(CloseStep) /\ \A u \in Users : WF_vars(UserStep(u))

-----------------------------------------------------------------------------
\* Every variable keeps to its type, and whoever closes has a client to close.
TypeOK ==
    /\ host \in {"app", "mcp"}
    /\ client \in Clients \cup {None} /\ owns \in BOOLEAN /\ closed \in BOOLEAN
    /\ lock \in Users \cup {Closer, None}
    /\ pc \in [Users -> {"idle", "validate", "enter", "inside", "make", "done"}
                            \cup InThread]
    /\ kind \in [Users -> {"none", "invalid", "status", "call", "stream"}]
    /\ mine \in [Users -> Clients \cup {None}]
    /\ using \in [Users -> Users \cup {None}]
    /\ verdict \in [Users -> {"none", "ok", "invalid", "error", "cancelled"}]
    /\ http \in [Clients -> Users \cup {None}]
    /\ httpState \in [Users -> {"none", "open", "closed"}]
    /\ closer \in {"serving", "ended", "locked", "closing", "forget", "returns"}
    /\ target \in Clients \cup {None} /\ left \in 0 .. 2
    /\ closer \in {"closing", "forget"} => target \in Clients
    /\ made \subseteq Clients /\ ended \subseteq Clients /\ late \subseteq Users

\* A closed client is met only by those the code accepts to leave behind: a
\* request to an application that made the client itself and was closed under
\* it, or a tool call that was cancelled while its thread ran.  A client that
\* the application was given stays open under every request, and a tool call
\* that is waited for never loses its client.
MeetsClosed(u) == pc[u] \in {"send", "sending"} /\ ~Posts(u)
ClosedClientIsExpected ==
    \A u \in Users : MeetsClosed(u) =>
        closed /\ IF App THEN mine[u] # Given ELSE verdict[u] = "cancelled"

\* After everything has ended, an httpx.Client is open only for one of two
\* reasons: whoever opened it held the client when the owner closed, or two
\* users opened one at a time and one of the two was lost.  (The given client
\* of an application is closed by the service.)
LeaksExplained ==
    Quiet /\ closed => \A u \in Users :
        httpState[u] = "open" /\ ~(App /\ mine[u] = Given) =>
            \/ u \in late
            \/ \E other \in Users \ {u} : mine[other] = mine[u] /\ httpState[other] # "none"

\* Every request is answered and every close returns.
Returns ==
    /\ \A u \in Users : pc[u] = "validate" ~> pc[u] = "done"
    /\ closer = "locked" ~> closer = "ended"

\* The owner keeps the promise of OwnedClient: the client is that of the
\* application or of the MCP server, a user holds it from get to its answer.
Holders == {u \in Users : mine[u] # None}
Owner == INSTANCE OwnedClient WITH
    clients <- made, holders <- Holders, closed <- closed, released <- ended,
    keeps <- IF App THEN made \cap {Given} ELSE {}
OwnerSpec == Owner!Spec
=============================================================================
