--------------------------- MODULE ClientOwnerProofs ---------------------------
(***************************************************************************)
(* Theorems about ClientOwner for any number of requests and tool calls: the *)
(* type invariant, that only known users meet a closed client, that both     *)
(* owners keep the promise of module OwnedClient, and what alone leaves an   *)
(* httpx.Client open.                                                        *)
(***************************************************************************)
EXTENDS ClientOwner, TLAPS

-----------------------------------------------------------------------------
(* The inductive invariant.                                                 *)

\* The lock belongs to the user that is inside, or to the closer; the
\* application's closer gives it back before it closes the client.
LockInv ==
    /\ \A u \in Users : pc[u] \in {"inside", "make"} <=> lock = u
    /\ lock = Closer <=> \/ closer = "locked"
                         \/ ~App /\ closer \in {"closing", "forget", "returns"}

\* There is no client before one is made, a closed owner makes none, and what
\* is being closed is neither given to the application nor closed already.
OwnInv ==
    /\ \A u \in Users : pc[u] = "make" => ~closed /\ client = None
    /\ client = None /\ ~closed => made = {}
    /\ client # None => client \in made
    /\ ~closed => ended = {} /\ closer \in {"serving", "ended", "locked"}
    /\ owns => App /\ ~closed /\ client \in Users
    /\ closer = "closing" =>
           /\ target \in made /\ target \notin ended
           /\ App => target \in Users
    /\ closer = "forget" => target \in ended
    /\ App => Given \notin ended

\* As long as the owner has not closed a client, the httpx.Client it refers to
\* is open and was opened for it, and whoever is past the check of _http, or
\* posts, has such a one.
HttpInv ==
    /\ \A u \in Users : pc[u] \in InThread => mine[u] \in Clients
    /\ \A u \in Users :
           httpState[u] # "none" => pc[u] \in {"read", "send", "sending", "done"}
    /\ \A c \in Clients \ ended :
           http[c] # None => httpState[http[c]] = "open" /\ mine[http[c]] = c
    /\ \A u \in Users : mine[u] \notin ended =>
           /\ pc[u] = "read" => http[mine[u]] # None
           /\ pc[u] \in {"send", "sending"} => Posts(u) /\ mine[using[u]] = mine[u]

\* A user that is on its way may have been cancelled and was told nothing else;
\* the MCP server closes when nobody waits any more.
TaskInv ==
    /\ \A u \in Users : pc[u] # "done" => verdict[u] \in {"none", "cancelled"}
    /\ closed => closer # "serving"
    /\ ~App /\ (closed \/ closer \notin {"serving", "ended"}) => TasksOver

SafetyInv == TypeOK /\ LockInv /\ OwnInv /\ HttpInv /\ TaskInv

-----------------------------------------------------------------------------
\* The inductive invariant holds before anybody asks.
LEMMA InvInit == Init => SafetyInv
<1> SUFFICES ASSUME Init PROVE SafetyInv
  OBVIOUS
<1> USE DistinctNames DEF Init
<1>1. TypeOK
  <2>1. client \in Clients \cup {None} /\ made \subseteq Clients /\ target \in Clients \cup {None}
    BY DEF Clients
  <2>2. owns \in BOOLEAN /\ closed \in BOOLEAN
    BY Zenon
  <2>3. /\ http \in [Clients -> Users \cup {None}]
        /\ httpState \in [Users -> {"none", "open", "closed"}]
        /\ mine \in [Users -> Clients \cup {None}] /\ using \in [Users -> Users \cup {None}]
    OBVIOUS
  <2> QED
    BY <2>1, <2>2, <2>3 DEF TypeOK
<1>2. LockInv
  BY DEF LockInv
<1>3. OwnInv
  BY DEF OwnInv
<1>4. HttpInv
  BY DEF HttpInv, InThread
<1>5. TaskInv
  BY DEF TaskInv
<1> QED
  BY <1>1, <1>2, <1>3, <1>4, <1>5 DEF SafetyInv

\* Every step keeps every variable to its type.
LEMMA TypeStep == TypeOK /\ OwnInv /\ HttpInv /\ [Next]_vars => TypeOK'
<1> SUFFICES ASSUME TypeOK, OwnInv, HttpInv, [Next]_vars PROVE TypeOK'
  OBVIOUS
<1>0. CASE UNCHANGED vars
  BY <1>0 DEF vars, ownerVars, httpVars, userVars, closeVars, TypeOK, InThread
<1>1. ASSUME NEW u \in Users, Arrive(u) PROVE TypeOK'
  BY <1>1 DEF Arrive, Goes, Kinds, ownerVars, httpVars, closeVars, userVars, TypeOK, App, InThread, Clients
<1>2. ASSUME NEW u \in Users, Validate(u) PROVE TypeOK'
  BY <1>2 DEF Validate, Goes, Answer, ownerVars, httpVars, closeVars, userVars, TypeOK, App, InThread, Clients
<1>3. ASSUME NEW u \in Users, Enter(u) PROVE TypeOK'
  BY <1>3 DEF Enter, Goes, Free, ownerVars, httpVars, closeVars, userVars, TypeOK, App, InThread, Clients
<1>4. ASSUME NEW u \in Users, GetClosed(u) PROVE TypeOK'
  BY <1>4 DEF Goes, Answer, ownerVars, httpVars, closeVars, userVars, TypeOK, App, InThread, Clients, GetClosed
<1>5. ASSUME NEW u \in Users, GetMissing(u) PROVE TypeOK'
  BY <1>5 DEF GetMissing, Goes, ownerVars, httpVars, closeVars, userVars, TypeOK, App, InThread, Clients
<1>6. ASSUME NEW u \in Users, GetThere(u) PROVE TypeOK'
  BY <1>6 DEF GetThere, Goes, ownerVars, httpVars, closeVars, userVars, TypeOK, App, InThread, Clients
<1>7. ASSUME NEW u \in Users, Make(u) PROVE TypeOK'
  BY <1>7 DEF Make, Goes, Owned, ownerVars, httpVars, closeVars, userVars, TypeOK, App, InThread, Clients
<1>8. ASSUME NEW u \in Users, MakeFails(u) PROVE TypeOK'
  BY <1>8 DEF Goes, Answer, LeavesLock, ownerVars, httpVars, closeVars, userVars, TypeOK, App, InThread, Clients, MakeFails
<1>9. ASSUME NEW u \in Users, Status(u) PROVE TypeOK'
  BY <1>9 DEF Status, Goes, Answer, ownerVars, httpVars, closeVars, userVars, TypeOK, App, InThread, Clients
<1>10. ASSUME NEW u \in Users, CheckHttp(u) PROVE TypeOK'
  BY <1>10 DEF CheckHttp, Goes, ownerVars, httpVars, closeVars, userVars, TypeOK, App, InThread, Clients
<1>11. ASSUME NEW u \in Users, OpenHttp(u) PROVE TypeOK'
  BY <1>11 DEF OpenHttp, Goes, ownerVars, httpVars, closeVars, userVars, TypeOK, App, InThread, Clients, HttpInv
<1>12. ASSUME NEW u \in Users, ReadHttp(u) PROVE TypeOK'
  BY <1>12 DEF ReadHttp, Goes, ownerVars, httpVars, closeVars, userVars, TypeOK, App, InThread, Clients, HttpInv
<1>13. ASSUME NEW u \in Users, Send(u) PROVE TypeOK'
  BY <1>13 DEF Send, Goes, Posts, ownerVars, httpVars, closeVars, userVars, TypeOK, App, InThread, Clients
<1>14. ASSUME NEW u \in Users, SendFails(u) PROVE TypeOK'
  BY <1>14 DEF Goes, Answer, Posts, ownerVars, httpVars, closeVars, userVars, TypeOK, App, InThread, Clients, SendFails
<1>15. ASSUME NEW u \in Users, Respond(u) PROVE TypeOK'
  BY <1>15 DEF Goes, Answer, Posts, ownerVars, httpVars, closeVars, userVars, TypeOK, App, InThread, Clients, Respond
<1>16. ASSUME NEW u \in Users, Abandon(u) PROVE TypeOK'
  BY <1>16 DEF Abandon, Goes, Answer, InThread, ownerVars, httpVars, closeVars, userVars, TypeOK, App, Clients
<1>17. ASSUME NEW u \in Users, Cancel(u) PROVE TypeOK'
  BY <1>17 DEF Cancel, Goes, InThread, ownerVars, httpVars, closeVars, userVars, TypeOK, App, Clients
<1>18. CASE EndServing
  BY <1>18 DEF EndServing, ownerVars, httpVars, closeVars, userVars, TypeOK, App, InThread, Clients
<1>19. CASE BeginClose
  BY <1>19 DEF BeginClose, Free, ownerVars, httpVars, closeVars, userVars, TypeOK, App, InThread, Clients
<1>20. CASE CloseOwner
  BY <1>20 DEF CloseOwner, Releases, ownerVars, httpVars, closeVars, userVars, TypeOK, App, InThread, Clients
<1>21. CASE CloseHttp
  BY <1>21 DEF CloseHttp, ownerVars, httpVars, closeVars, userVars, TypeOK, App, InThread, Clients
<1>22. CASE ForgetHttp
  BY <1>22 DEF ForgetHttp, ownerVars, httpVars, closeVars, userVars, TypeOK, App, InThread, Clients
<1>23. CASE CloseReturns
  BY <1>23 DEF CloseReturns, ownerVars, httpVars, closeVars, userVars, TypeOK, App, InThread, Clients
<1> QED
  BY <1>0, <1>1, <1>2, <1>3, <1>4, <1>5, <1>6, <1>7, <1>8, <1>9, <1>10, <1>11, <1>12,
     <1>13, <1>14, <1>15, <1>16, <1>17, <1>18, <1>19, <1>20, <1>21, <1>22, <1>23
     DEF Next, UserStep, CloseStep, Over

\* Every step keeps the lock with one of them.
LEMMA LockStep == TypeOK /\ LockInv /\ [Next]_vars => LockInv'
<1> SUFFICES ASSUME TypeOK, LockInv, [Next]_vars PROVE LockInv'
  OBVIOUS
<1> USE DistinctNames DEF LockInv
<1>0. CASE UNCHANGED vars
  BY <1>0 DEF vars, ownerVars, httpVars, userVars, closeVars, App
<1>1. ASSUME NEW u \in Users, Arrive(u) PROVE LockInv'
  BY <1>1 DEF Arrive, Goes, Kinds, ownerVars, httpVars, closeVars, userVars, TypeOK, InThread, App
<1>2. ASSUME NEW u \in Users, Validate(u) PROVE LockInv'
  BY <1>2 DEF Validate, Goes, Answer, ownerVars, httpVars, closeVars, userVars, TypeOK, InThread, App
<1>3. ASSUME NEW u \in Users, Enter(u) PROVE LockInv'
  BY <1>3 DEF Enter, Goes, Free, ownerVars, httpVars, closeVars, userVars, TypeOK, InThread, App
<1>4. ASSUME NEW u \in Users, GetClosed(u) PROVE LockInv'
  BY <1>4 DEF GetClosed, Goes, Answer, ownerVars, httpVars, closeVars, userVars, TypeOK, InThread, App
<1>5. ASSUME NEW u \in Users, GetMissing(u) PROVE LockInv'
  BY <1>5 DEF GetMissing, Goes, ownerVars, httpVars, closeVars, userVars, TypeOK, InThread, App
<1>6. ASSUME NEW u \in Users, GetThere(u) PROVE LockInv'
  BY <1>6 DEF GetThere, Goes, ownerVars, httpVars, closeVars, userVars, TypeOK, InThread, App
<1>7. ASSUME NEW u \in Users, Make(u) PROVE LockInv'
  BY <1>7 DEF Make, Goes, Owned, ownerVars, httpVars, closeVars, userVars, TypeOK, InThread, App
<1>8. ASSUME NEW u \in Users, MakeFails(u) PROVE LockInv'
  BY <1>8 DEF MakeFails, Goes, Answer, LeavesLock, ownerVars, httpVars, closeVars, userVars, TypeOK, InThread, App
<1>9. ASSUME NEW u \in Users, Status(u) PROVE LockInv'
  BY <1>9 DEF Status, Goes, Answer, ownerVars, httpVars, closeVars, userVars, TypeOK, InThread, App
<1>10. ASSUME NEW u \in Users, CheckHttp(u) PROVE LockInv'
  BY <1>10 DEF CheckHttp, Goes, ownerVars, httpVars, closeVars, userVars, TypeOK, InThread, App
<1>11. ASSUME NEW u \in Users, OpenHttp(u) PROVE LockInv'
  BY <1>11 DEF OpenHttp, Goes, ownerVars, httpVars, closeVars, userVars, TypeOK, InThread, App
<1>12. ASSUME NEW u \in Users, ReadHttp(u) PROVE LockInv'
  BY <1>12 DEF ReadHttp, Goes, ownerVars, httpVars, closeVars, userVars, TypeOK, InThread, App
<1>13. ASSUME NEW u \in Users, Send(u) PROVE LockInv'
  BY <1>13 DEF Send, Goes, Posts, ownerVars, httpVars, closeVars, userVars, TypeOK, InThread, App
<1>14. ASSUME NEW u \in Users, SendFails(u) PROVE LockInv'
  BY <1>14 DEF SendFails, Goes, Answer, Posts, ownerVars, httpVars, closeVars, userVars, TypeOK, InThread, App
<1>15. ASSUME NEW u \in Users, Respond(u) PROVE LockInv'
  BY <1>15 DEF Respond, Goes, Answer, Posts, ownerVars, httpVars, closeVars, userVars, TypeOK, InThread, App
<1>16. ASSUME NEW u \in Users, Abandon(u) PROVE LockInv'
  BY <1>16 DEF Abandon, Goes, Answer, InThread, ownerVars, httpVars, closeVars, userVars, TypeOK, App
<1>17. ASSUME NEW u \in Users, Cancel(u) PROVE LockInv'
  BY <1>17 DEF Cancel, Goes, InThread, ownerVars, httpVars, closeVars, userVars, TypeOK, App
<1>18. CASE EndServing
  BY <1>18 DEF EndServing, ownerVars, httpVars, closeVars, userVars, App
<1>19. CASE BeginClose
  BY <1>19 DEF BeginClose, Free, ownerVars, httpVars, closeVars, userVars, App
<1>20. CASE CloseOwner
  BY <1>20 DEF CloseOwner, Releases, ownerVars, httpVars, closeVars, userVars, App
<1>21. CASE CloseHttp
  BY <1>21 DEF CloseHttp, ownerVars, httpVars, closeVars, userVars, App
<1>22. CASE ForgetHttp
  BY <1>22 DEF ForgetHttp, ownerVars, httpVars, closeVars, userVars, App
<1>23. CASE CloseReturns
  BY <1>23 DEF CloseReturns, ownerVars, httpVars, closeVars, userVars, App
<1> QED
  BY <1>0, <1>1, <1>2, <1>3, <1>4, <1>5, <1>6, <1>7, <1>8, <1>9, <1>10, <1>11, <1>12,
     <1>13, <1>14, <1>15, <1>16, <1>17, <1>18, <1>19, <1>20, <1>21, <1>22, <1>23
     DEF Next, UserStep, CloseStep, Over

\* Every step keeps the client where it belongs.
LEMMA OwnStep == TypeOK /\ LockInv /\ OwnInv /\ [Next]_vars => OwnInv'
<1> SUFFICES ASSUME TypeOK, LockInv, OwnInv, [Next]_vars PROVE OwnInv'
  OBVIOUS
<1> USE DistinctNames DEF LockInv, OwnInv
<1>0. CASE UNCHANGED vars
  BY <1>0 DEF vars, ownerVars, httpVars, userVars, closeVars, App
<1>1. ASSUME NEW u \in Users, Arrive(u) PROVE OwnInv'
  BY <1>1 DEF Arrive, Goes, Kinds, ownerVars, httpVars, closeVars, userVars, TypeOK, App
<1>2. ASSUME NEW u \in Users, Validate(u) PROVE OwnInv'
  BY <1>2 DEF Validate, Goes, Answer, ownerVars, httpVars, closeVars, userVars, TypeOK, App
<1>3. ASSUME NEW u \in Users, Enter(u) PROVE OwnInv'
  BY <1>3 DEF Enter, Goes, Free, ownerVars, httpVars, closeVars, userVars, TypeOK, App
<1>4. ASSUME NEW u \in Users, GetClosed(u) PROVE OwnInv'
  BY <1>4 DEF GetClosed, Goes, Answer, ownerVars, httpVars, closeVars, userVars, TypeOK, App
<1>5. ASSUME NEW u \in Users, GetMissing(u) PROVE OwnInv'
  BY <1>5 DEF GetMissing, Goes, ownerVars, httpVars, closeVars, userVars, TypeOK, App
<1>6. ASSUME NEW u \in Users, GetThere(u) PROVE OwnInv'
  BY <1>6 DEF GetThere, Goes, ownerVars, httpVars, closeVars, userVars, TypeOK, App
<1>7. ASSUME NEW u \in Users, Make(u) PROVE OwnInv'
  BY <1>7 DEF Make, Goes, Owned, ownerVars, httpVars, closeVars, userVars, TypeOK, App
<1>8. ASSUME NEW u \in Users, MakeFails(u) PROVE OwnInv'
  BY <1>8 DEF MakeFails, Goes, Answer, LeavesLock, ownerVars, httpVars, closeVars, userVars, TypeOK, App
<1>9. ASSUME NEW u \in Users, Status(u) PROVE OwnInv'
  BY <1>9 DEF Status, Goes, Answer, ownerVars, httpVars, closeVars, userVars, TypeOK, App
<1>10. ASSUME NEW u \in Users, CheckHttp(u) PROVE OwnInv'
  BY <1>10 DEF CheckHttp, Goes, ownerVars, httpVars, closeVars, userVars, TypeOK, App
<1>11. ASSUME NEW u \in Users, OpenHttp(u) PROVE OwnInv'
  BY <1>11 DEF OpenHttp, Goes, ownerVars, httpVars, closeVars, userVars, TypeOK, App
<1>12. ASSUME NEW u \in Users, ReadHttp(u) PROVE OwnInv'
  BY <1>12 DEF ReadHttp, Goes, ownerVars, httpVars, closeVars, userVars, TypeOK, App
<1>13. ASSUME NEW u \in Users, Send(u) PROVE OwnInv'
  BY <1>13 DEF Send, Goes, Posts, ownerVars, httpVars, closeVars, userVars, TypeOK, App
<1>14. ASSUME NEW u \in Users, SendFails(u) PROVE OwnInv'
  BY <1>14 DEF SendFails, Goes, Answer, Posts, ownerVars, httpVars, closeVars, userVars, TypeOK, App
<1>15. ASSUME NEW u \in Users, Respond(u) PROVE OwnInv'
  BY <1>15 DEF Respond, Goes, Answer, Posts, ownerVars, httpVars, closeVars, userVars, TypeOK, App
<1>16. ASSUME NEW u \in Users, Abandon(u) PROVE OwnInv'
  BY <1>16 DEF Abandon, Goes, Answer, InThread, ownerVars, httpVars, closeVars, userVars, TypeOK, App
<1>17. ASSUME NEW u \in Users, Cancel(u) PROVE OwnInv'
  BY <1>17 DEF Cancel, Goes, InThread, ownerVars, httpVars, closeVars, userVars, TypeOK, App
<1>18. CASE EndServing
  BY <1>18 DEF EndServing, ownerVars, httpVars, closeVars, userVars, TypeOK, App, Clients
<1>19. CASE BeginClose
  BY <1>19 DEF BeginClose, Free, ownerVars, httpVars, closeVars, userVars, TypeOK, App, Clients
<1>20. CASE CloseOwner
  BY <1>20 DEF CloseOwner, Releases, ownerVars, httpVars, closeVars, userVars, TypeOK, App, Clients
<1>21. CASE CloseHttp
  BY <1>21 DEF CloseHttp, ownerVars, httpVars, closeVars, userVars, TypeOK, App, Clients
<1>22. CASE ForgetHttp
  BY <1>22 DEF ForgetHttp, ownerVars, httpVars, closeVars, userVars, TypeOK, App, Clients
<1>23. CASE CloseReturns
  BY <1>23 DEF CloseReturns, ownerVars, httpVars, closeVars, userVars, TypeOK, App, Clients
<1> QED
  BY <1>0, <1>1, <1>2, <1>3, <1>4, <1>5, <1>6, <1>7, <1>8, <1>9, <1>10, <1>11, <1>12,
     <1>13, <1>14, <1>15, <1>16, <1>17, <1>18, <1>19, <1>20, <1>21, <1>22, <1>23
     DEF Next, UserStep, CloseStep, Over

\* Every step keeps what is posted through open while the owner is.
LEMMA HttpStep == TypeOK /\ LockInv /\ OwnInv /\ HttpInv /\ [Next]_vars => HttpInv'
<1> SUFFICES ASSUME TypeOK, LockInv, OwnInv, HttpInv, [Next]_vars PROVE HttpInv'
  OBVIOUS
<1> USE DistinctNames DEF HttpInv
<1>0. CASE UNCHANGED vars
  BY <1>0 DEF vars, ownerVars, httpVars, userVars, closeVars, Posts
<1>1. ASSUME NEW u \in Users, Arrive(u) PROVE HttpInv'
  BY <1>1 DEF Arrive, Goes, Kinds, ownerVars, httpVars, closeVars, userVars, TypeOK, Posts, InThread, Clients, LockInv
<1>2. ASSUME NEW u \in Users, Validate(u) PROVE HttpInv'
  BY <1>2 DEF Validate, Goes, Answer, ownerVars, httpVars, closeVars, userVars, TypeOK, Posts, InThread, Clients, LockInv
<1>3. ASSUME NEW u \in Users, Enter(u) PROVE HttpInv'
  BY <1>3 DEF Enter, Goes, Free, ownerVars, httpVars, closeVars, userVars, TypeOK, Posts, InThread, Clients, LockInv
<1>4. ASSUME NEW u \in Users, GetClosed(u) PROVE HttpInv'
  BY <1>4 DEF GetClosed, Goes, Answer, ownerVars, httpVars, closeVars, userVars, TypeOK, Posts, InThread, Clients, LockInv
<1>5. ASSUME NEW u \in Users, GetMissing(u) PROVE HttpInv'
  BY <1>5 DEF GetMissing, Goes, ownerVars, httpVars, closeVars, userVars, TypeOK, Posts, InThread, Clients, LockInv
<1>6. ASSUME NEW u \in Users, GetThere(u) PROVE HttpInv'
  BY <1>6 DEF GetThere, Goes, ownerVars, httpVars, closeVars, userVars, TypeOK, Posts, InThread, Clients, LockInv
<1>7. ASSUME NEW u \in Users, Make(u) PROVE HttpInv'
  BY <1>7 DEF Make, Goes, Owned, ownerVars, httpVars, closeVars, userVars, TypeOK, Posts, InThread, Clients, LockInv
<1>8. ASSUME NEW u \in Users, MakeFails(u) PROVE HttpInv'
  BY <1>8 DEF MakeFails, Goes, Answer, LeavesLock, ownerVars, httpVars, closeVars, userVars, TypeOK, Posts, InThread, Clients, LockInv
<1>9. ASSUME NEW u \in Users, Status(u) PROVE HttpInv'
  BY <1>9 DEF Status, Goes, Answer, ownerVars, httpVars, closeVars, userVars, TypeOK, Posts, InThread, Clients, LockInv
<1>10. ASSUME NEW u \in Users, CheckHttp(u) PROVE HttpInv'
  BY <1>10 DEF CheckHttp, Goes, ownerVars, httpVars, closeVars, userVars, TypeOK, Posts, InThread, Clients, LockInv
<1>11. ASSUME NEW u \in Users, OpenHttp(u) PROVE HttpInv'
  BY <1>11 DEF OpenHttp, Goes, ownerVars, httpVars, closeVars, userVars, TypeOK, Posts, InThread, Clients, LockInv
<1>12. ASSUME NEW u \in Users, ReadHttp(u) PROVE HttpInv'
  BY <1>12 DEF ReadHttp, Goes, ownerVars, httpVars, closeVars, userVars, TypeOK, Posts, InThread, Clients, LockInv
<1>13. ASSUME NEW u \in Users, Send(u) PROVE HttpInv'
  BY <1>13 DEF Send, Goes, Posts, ownerVars, httpVars, closeVars, userVars, TypeOK, InThread, Clients, LockInv
<1>14. ASSUME NEW u \in Users, SendFails(u) PROVE HttpInv'
  BY <1>14 DEF SendFails, Goes, Answer, Posts, ownerVars, httpVars, closeVars, userVars, TypeOK, InThread, Clients, LockInv
<1>15. ASSUME NEW u \in Users, Respond(u) PROVE HttpInv'
  BY <1>15 DEF Respond, Goes, Answer, Posts, ownerVars, httpVars, closeVars, userVars, TypeOK, InThread, Clients, LockInv
<1>16. ASSUME NEW u \in Users, Abandon(u) PROVE HttpInv'
  BY <1>16 DEF Abandon, Goes, Answer, InThread, ownerVars, httpVars, closeVars, userVars, TypeOK, Posts, Clients, LockInv
<1>17. ASSUME NEW u \in Users, Cancel(u) PROVE HttpInv'
  BY <1>17 DEF Cancel, Goes, InThread, ownerVars, httpVars, closeVars, userVars, TypeOK, Posts, Clients, LockInv
<1>18. CASE EndServing
  BY <1>18 DEF EndServing, ownerVars, httpVars, closeVars, userVars, TypeOK, Posts, InThread, Clients, OwnInv
<1>19. CASE BeginClose
  BY <1>19 DEF BeginClose, Free, ownerVars, httpVars, closeVars, userVars, TypeOK, Posts, InThread, Clients, OwnInv
<1>20. CASE CloseOwner
  BY <1>20 DEF CloseOwner, Releases, ownerVars, httpVars, closeVars, userVars, TypeOK, Posts, InThread, Clients, OwnInv
<1>21. CASE CloseHttp
  BY <1>21 DEF CloseHttp, ownerVars, httpVars, closeVars, userVars, TypeOK, Posts, InThread, Clients, OwnInv
<1>22. CASE ForgetHttp
  BY <1>22 DEF ForgetHttp, ownerVars, httpVars, closeVars, userVars, TypeOK, Posts, InThread, Clients, OwnInv
<1>23. CASE CloseReturns
  BY <1>23 DEF CloseReturns, ownerVars, httpVars, closeVars, userVars, TypeOK, Posts, InThread, Clients, OwnInv
<1> QED
  BY <1>0, <1>1, <1>2, <1>3, <1>4, <1>5, <1>6, <1>7, <1>8, <1>9, <1>10, <1>11, <1>12,
     <1>13, <1>14, <1>15, <1>16, <1>17, <1>18, <1>19, <1>20, <1>21, <1>22, <1>23
     DEF Next, UserStep, CloseStep, Over

\* Every step keeps the answers apart and the MCP server's close behind its tasks.
LEMMA TaskStep == TypeOK /\ OwnInv /\ TaskInv /\ [Next]_vars => TaskInv'
<1> SUFFICES ASSUME TypeOK, OwnInv, TaskInv, [Next]_vars PROVE TaskInv'
  OBVIOUS
<1> USE DEF TaskInv, TasksOver
<1>0. CASE UNCHANGED vars
  BY <1>0 DEF vars, ownerVars, httpVars, userVars, closeVars, App
<1>1. ASSUME NEW u \in Users, Arrive(u) PROVE TaskInv'
  BY <1>1 DEF Arrive, Goes, Kinds, ownerVars, httpVars, closeVars, userVars, TypeOK, App, InThread
<1>2. ASSUME NEW u \in Users, Validate(u) PROVE TaskInv'
  BY <1>2 DEF Validate, Goes, Answer, ownerVars, httpVars, closeVars, userVars, TypeOK, App, InThread
<1>3. ASSUME NEW u \in Users, Enter(u) PROVE TaskInv'
  BY <1>3 DEF Enter, Goes, Free, ownerVars, httpVars, closeVars, userVars, TypeOK, App, InThread
<1>4. ASSUME NEW u \in Users, GetClosed(u) PROVE TaskInv'
  BY <1>4 DEF GetClosed, Goes, Answer, ownerVars, httpVars, closeVars, userVars, TypeOK, App, InThread
<1>5. ASSUME NEW u \in Users, GetMissing(u) PROVE TaskInv'
  BY <1>5 DEF GetMissing, Goes, ownerVars, httpVars, closeVars, userVars, TypeOK, App, InThread
<1>6. ASSUME NEW u \in Users, GetThere(u) PROVE TaskInv'
  BY <1>6 DEF GetThere, Goes, ownerVars, httpVars, closeVars, userVars, TypeOK, App, InThread
<1>7. ASSUME NEW u \in Users, Make(u) PROVE TaskInv'
  BY <1>7 DEF Make, Goes, Owned, ownerVars, httpVars, closeVars, userVars, TypeOK, App, InThread
<1>8. ASSUME NEW u \in Users, MakeFails(u) PROVE TaskInv'
  BY <1>8 DEF MakeFails, Goes, Answer, LeavesLock, ownerVars, httpVars, closeVars, userVars, TypeOK, App, InThread
<1>9. ASSUME NEW u \in Users, Status(u) PROVE TaskInv'
  BY <1>9 DEF Status, Goes, Answer, ownerVars, httpVars, closeVars, userVars, TypeOK, App, InThread
<1>10. ASSUME NEW u \in Users, CheckHttp(u) PROVE TaskInv'
  BY <1>10 DEF CheckHttp, Goes, ownerVars, httpVars, closeVars, userVars, TypeOK, App, InThread
<1>11. ASSUME NEW u \in Users, OpenHttp(u) PROVE TaskInv'
  BY <1>11 DEF OpenHttp, Goes, ownerVars, httpVars, closeVars, userVars, TypeOK, App, InThread
<1>12. ASSUME NEW u \in Users, ReadHttp(u) PROVE TaskInv'
  BY <1>12 DEF ReadHttp, Goes, ownerVars, httpVars, closeVars, userVars, TypeOK, App, InThread
<1>13. ASSUME NEW u \in Users, Send(u) PROVE TaskInv'
  BY <1>13 DEF Send, Goes, Posts, ownerVars, httpVars, closeVars, userVars, TypeOK, App, InThread
<1>14. ASSUME NEW u \in Users, SendFails(u) PROVE TaskInv'
  BY <1>14 DEF SendFails, Goes, Answer, Posts, ownerVars, httpVars, closeVars, userVars, TypeOK, App, InThread
<1>15. ASSUME NEW u \in Users, Respond(u) PROVE TaskInv'
  BY <1>15 DEF Respond, Goes, Answer, Posts, ownerVars, httpVars, closeVars, userVars, TypeOK, App, InThread
<1>16. ASSUME NEW u \in Users, Abandon(u) PROVE TaskInv'
  BY <1>16 DEF Abandon, Goes, Answer, InThread, ownerVars, httpVars, closeVars, userVars, TypeOK, App
<1>17. ASSUME NEW u \in Users, Cancel(u) PROVE TaskInv'
  BY <1>17 DEF Cancel, Goes, InThread, ownerVars, httpVars, closeVars, userVars, TypeOK, App
<1>18. CASE EndServing
  BY <1>18 DEF EndServing, ownerVars, httpVars, closeVars, userVars, App, TypeOK
<1>19. CASE BeginClose
  BY <1>19 DEF BeginClose, Free, ownerVars, httpVars, closeVars, userVars, App, TypeOK
<1>20. CASE CloseOwner
  BY <1>20 DEF CloseOwner, Releases, ownerVars, httpVars, closeVars, userVars, App, TypeOK
<1>21. CASE CloseHttp
  BY <1>21 DEF CloseHttp, ownerVars, httpVars, closeVars, userVars, App, TypeOK
<1>22. CASE ForgetHttp
  BY <1>22 DEF ForgetHttp, ownerVars, httpVars, closeVars, userVars, App, TypeOK
<1>23. CASE CloseReturns
  BY <1>23 DEF CloseReturns, ownerVars, httpVars, closeVars, userVars, App, TypeOK
<1> QED
  BY <1>0, <1>1, <1>2, <1>3, <1>4, <1>5, <1>6, <1>7, <1>8, <1>9, <1>10, <1>11, <1>12,
     <1>13, <1>14, <1>15, <1>16, <1>17, <1>18, <1>19, <1>20, <1>21, <1>22, <1>23
     DEF Next, UserStep, CloseStep, Over

\* SafetyInv is inductive.
LEMMA InvStep == SafetyInv /\ [Next]_vars => SafetyInv'
  BY TypeStep, LockStep, OwnStep, HttpStep, TaskStep DEF SafetyInv

\* SafetyInv is an invariant.
LEMMA Safety == Spec => []SafetyInv
  BY InvInit, InvStep, PTL DEF Spec

-----------------------------------------------------------------------------
(* The theorems.                                                            *)

\* Every variable keeps to its type; in particular whoever is about to close a
\* client has one.
THEOREM TypeInvariant == Spec => []TypeOK
  BY Safety, PTL DEF SafetyInv

\* Only a request that the application was closed under, with a client of its
\* own, or a cancelled tool call meets a closed client, however many users
\* open, overwrite and use an httpx.Client at once.
THEOREM ClosedClientExpected == Spec => []ClosedClientIsExpected
<1>1. SafetyInv => ClosedClientIsExpected
  <2> SUFFICES ASSUME SafetyInv, NEW u \in Users, MeetsClosed(u)
               PROVE  closed /\ IF App THEN mine[u] # Given ELSE verdict[u] = "cancelled"
    BY DEF ClosedClientIsExpected
  <2>1. mine[u] \in ended /\ closed
    BY DEF SafetyInv, HttpInv, OwnInv, MeetsClosed
  <2>2. App => mine[u] # Given
    BY <2>1 DEF SafetyInv, OwnInv
  <2>3. ~App => verdict[u] = "cancelled"
    BY <2>1 DEF SafetyInv, TaskInv, TasksOver, MeetsClosed
  <2> QED
    BY <2>1, <2>2, <2>3
<1> QED
  BY Safety, <1>1, PTL

\* The first state is the abstract owner's: with the client it was given.
LEMMA OwnerInit == Init => Owner!Init
  BY DistinctNames DEF Init, Owner!Init, Holders, App

\* Making, handing out, closing the owner and closing the client are the steps
\* of the abstract owner; nothing else can be seen of it.
LEMMA OwnerStep == SafetyInv /\ [Next]_vars => [Owner!Next]_(Owner!vars)
<1> SUFFICES ASSUME TypeOK, OwnInv, LockInv, [Next]_vars
             PROVE  Owner!Next \/ UNCHANGED Owner!vars
  BY DEF SafetyInv
<1> USE DistinctNames
<1>1. ASSUME UNCHANGED <<host, made, mine, closed, ended>>
      PROVE  UNCHANGED Owner!vars
  BY <1>1 DEF Owner!vars, Holders, App
<1>2. CASE UNCHANGED vars
  BY <1>1, <1>2 DEF vars, ownerVars, userVars, closeVars
<1>3. ASSUME NEW u \in Users, Make(u) PROVE Owner!Next
  <2>1. ~closed /\ made = {} /\ made' = {u}
    BY <1>3 DEF Make, OwnInv
  <2>2. Holders' = Holders \cup {u}
    BY <1>3 DEF Make, Holders, TypeOK
  <2>3. UNCHANGED <<closed, ended, host>> /\ made \cap {Given} = made' \cap {Given}
    BY <1>3, <2>1 DEF Make, closeVars
  <2>4. Owner!Make(u)
    BY <2>1, <2>2, <2>3 DEF Owner!Make, App
  <2> QED
    BY <2>4 DEF Owner!Next
<1>4. ASSUME NEW u \in Users, GetThere(u) PROVE Owner!Next
  <2>1. ~closed /\ made # {}
    BY <1>4 DEF GetThere, OwnInv
  <2>2. Holders' = Holders \cup {u}
    BY <1>4 DEF GetThere, Holders, TypeOK
  <2>3. UNCHANGED <<made, closed, ended, host>>
    BY <1>4 DEF GetThere, ownerVars, closeVars
  <2>4. Owner!HandOut(u)
    BY <2>1, <2>2, <2>3 DEF Owner!HandOut, App
  <2> QED
    BY <1>4, <2>4 DEF Owner!Next
<1>5. CASE CloseOwner
  <2>1. closed' = TRUE /\ UNCHANGED <<host, made, mine, ended>>
    BY <1>5 DEF CloseOwner, userVars
  <2>2. CASE closed
    BY <1>1, <2>1, <2>2
  <2>3. CASE ~closed
    BY <2>1, <2>3 DEF Owner!Next, Owner!Shut, Holders, App
  <2> QED
    BY <2>2, <2>3
<1>6. CASE CloseHttp
  <2>1. /\ closed /\ target \in made /\ target \notin ended
        /\ App => target \in Users
    BY <1>6 DEF CloseHttp, OwnInv
  <2>2. ended' = ended \cup {target} /\ UNCHANGED <<host, made, mine, closed>>
    BY <1>6 DEF CloseHttp, ownerVars, userVars
  <2>3. target \notin IF App THEN made \cap {Given} ELSE {}
    BY <2>1
  <2>4. Owner!Release(target)
    BY <2>1, <2>2, <2>3 DEF Owner!Release, Holders, App
  <2>5. target \in Users \cup {Given}
    BY <2>1 DEF TypeOK, Clients
  <2> QED
    BY <2>4, <2>5 DEF Owner!Next
<1>7. ASSUME NEW u \in Users,
             \/ Arrive(u) \/ Validate(u) \/ Enter(u) \/ GetClosed(u) \/ GetMissing(u)
             \/ MakeFails(u) \/ Status(u) \/ CheckHttp(u) \/ OpenHttp(u) \/ ReadHttp(u)
             \/ Send(u) \/ SendFails(u) \/ Respond(u) \/ Abandon(u) \/ Cancel(u)
      PROVE  UNCHANGED <<host, made, mine, closed, ended>>
  BY <1>7 DEF Arrive, Validate, Enter, GetClosed, GetMissing, MakeFails, Status, CheckHttp,
              OpenHttp, ReadHttp, Send, SendFails, Respond, Abandon, Cancel, ownerVars,
              closeVars
<1>8. CASE EndServing \/ BeginClose \/ ForgetHttp \/ CloseReturns
  BY <1>1, <1>8 DEF EndServing, BeginClose, ForgetHttp, CloseReturns, ownerVars, userVars
<1> QED
  BY <1>1, <1>2, <1>3, <1>4, <1>5, <1>6, <1>7, <1>8 DEF Next, UserStep, CloseStep, Over

\* The HTTP application and the MCP server make at most one client, hand it out
\* only while they are open, and close it at most once, after that, and only if
\* it is theirs.
THEOREM OwnersKeepPromise == Spec => OwnerSpec
  BY OwnerInit, OwnerStep, Safety, PTL DEF Spec, OwnerSpec, Owner!Spec

-----------------------------------------------------------------------------
(* LeaksExplained.                                                          *)

\* Until the owner closes there is one client, and its own or the given one;
\* whoever is on its way with the client by then is late; and only who has the
\* client has opened an httpx.Client.
OneClientInv ==
    /\ ~closed => late = {} /\ \A u \in Users : mine[u] \in {None, client}
    /\ ~closed /\ client # None /\ App => owns \/ client = Given
    /\ closed => \A u \in Users : pc[u] \in InThread => u \in late
    /\ \A u \in Users : httpState[u] # "none" =>
           pc[u] \in {"read", "send", "sending", "done"} /\ mine[u] \in Clients
    /\ \A c \in Clients : http[c] # None => httpState[http[c]] # "none"

Explained(u) ==
    \/ u \in late
    \/ \E other \in Users \ {u} : mine[other] = mine[u] /\ httpState[other] # "none"

\* An httpx.Client that nothing explains is the one the client refers to, and
\* the owner has not closed it yet.
Reachable(u) ==
    /\ http[mine[u]] = u
    /\ ~closed \/ (closer = "closing" /\ target = mine[u])
LeakInv ==
    \A u \in Users : httpState[u] = "open" /\ ~(App /\ mine[u] = Given) =>
        Explained(u) \/ Reachable(u)

\* No step brings a second client, or opens one without being late.
LEMMA OneClientStep == TypeOK /\ LockInv /\ OwnInv /\ HttpInv /\ OneClientInv /\ [Next]_vars => OneClientInv'
<1> SUFFICES ASSUME TypeOK, LockInv, OwnInv, HttpInv, OneClientInv, [Next]_vars PROVE OneClientInv'
  OBVIOUS
<1> USE DistinctNames DEF OneClientInv, App
<1>0. CASE UNCHANGED vars
  BY <1>0 DEF vars, ownerVars, httpVars, userVars, closeVars, Posts
<1>1. ASSUME NEW u \in Users, Arrive(u) PROVE OneClientInv'
  BY <1>1 DEF Arrive, Goes, Kinds, ownerVars, httpVars, closeVars, userVars, TypeOK, Posts, InThread, Clients, LockInv
<1>2. ASSUME NEW u \in Users, Validate(u) PROVE OneClientInv'
  BY <1>2 DEF Validate, Goes, Answer, ownerVars, httpVars, closeVars, userVars, TypeOK, Posts, InThread, Clients, LockInv
<1>3. ASSUME NEW u \in Users, Enter(u) PROVE OneClientInv'
  BY <1>3 DEF Enter, Goes, Free, ownerVars, httpVars, closeVars, userVars, TypeOK, Posts, InThread, Clients, LockInv
<1>4. ASSUME NEW u \in Users, GetClosed(u) PROVE OneClientInv'
  BY <1>4 DEF GetClosed, Goes, Answer, ownerVars, httpVars, closeVars, userVars, TypeOK, Posts, InThread, Clients, LockInv
<1>5. ASSUME NEW u \in Users, GetMissing(u) PROVE OneClientInv'
  BY <1>5 DEF GetMissing, Goes, ownerVars, httpVars, closeVars, userVars, TypeOK, Posts, InThread, Clients, LockInv
<1>6. ASSUME NEW u \in Users, GetThere(u) PROVE OneClientInv'
  BY <1>6 DEF GetThere, Goes, ownerVars, httpVars, closeVars, userVars, TypeOK, Posts, InThread, Clients, LockInv
<1>7. ASSUME NEW u \in Users, Make(u) PROVE OneClientInv'
  <2> USE <1>7 DEF Make, Goes, ownerVars, httpVars, closeVars, TypeOK
  <2>1. ~closed /\ client = None /\ \A v \in Users : mine[v] = None
    BY DEF OwnInv
  <2>2. ~closed' /\ late' = {} /\ client' = u /\ mine' = [mine EXCEPT ![u] = u]
    BY <2>1
  <2>3. App' => owns'
    BY Zenon DEF Owned
  <2>4. httpState[u] = "none" /\ UNCHANGED <<http, httpState>>
    BY DEF Clients
  <2> QED
    BY <2>1, <2>2, <2>3, <2>4 DEF Clients
<1>8. ASSUME NEW u \in Users, MakeFails(u) PROVE OneClientInv'
  BY <1>8 DEF MakeFails, Goes, Answer, LeavesLock, ownerVars, httpVars, closeVars, userVars, TypeOK, Posts, InThread, Clients, LockInv
<1>9. ASSUME NEW u \in Users, Status(u) PROVE OneClientInv'
  BY <1>9 DEF Status, Goes, Answer, ownerVars, httpVars, closeVars, userVars, TypeOK, Posts, InThread, Clients, LockInv
<1>10. ASSUME NEW u \in Users, CheckHttp(u) PROVE OneClientInv'
  BY <1>10 DEF CheckHttp, Goes, ownerVars, httpVars, closeVars, userVars, TypeOK, Posts, InThread, Clients, LockInv
<1>11. ASSUME NEW u \in Users, OpenHttp(u) PROVE OneClientInv'
  BY <1>11 DEF HttpInv, OpenHttp, Goes, ownerVars, httpVars, closeVars, userVars, TypeOK, Posts, InThread, Clients, LockInv
<1>12. ASSUME NEW u \in Users, ReadHttp(u) PROVE OneClientInv'
  BY <1>12 DEF ReadHttp, Goes, ownerVars, httpVars, closeVars, userVars, TypeOK, Posts, InThread, Clients, LockInv
<1>13. ASSUME NEW u \in Users, Send(u) PROVE OneClientInv'
  BY <1>13 DEF Send, Goes, Posts, ownerVars, httpVars, closeVars, userVars, TypeOK, InThread, Clients, LockInv
<1>14. ASSUME NEW u \in Users, SendFails(u) PROVE OneClientInv'
  BY <1>14 DEF SendFails, Goes, Answer, Posts, ownerVars, httpVars, closeVars, userVars, TypeOK, InThread, Clients, LockInv
<1>15. ASSUME NEW u \in Users, Respond(u) PROVE OneClientInv'
  BY <1>15 DEF Respond, Goes, Answer, Posts, ownerVars, httpVars, closeVars, userVars, TypeOK, InThread, Clients, LockInv
<1>16. ASSUME NEW u \in Users, Abandon(u) PROVE OneClientInv'
  BY <1>16 DEF Abandon, Goes, Answer, InThread, ownerVars, httpVars, closeVars, userVars, TypeOK, Posts, Clients, LockInv
<1>17. ASSUME NEW u \in Users, Cancel(u) PROVE OneClientInv'
  BY <1>17 DEF Cancel, Goes, InThread, ownerVars, httpVars, closeVars, userVars, TypeOK, Posts, Clients, LockInv
<1>18. CASE EndServing
  BY <1>18 DEF EndServing, ownerVars, httpVars, closeVars, userVars, TypeOK, Posts, InThread, Clients, OwnInv
<1>19. CASE BeginClose
  BY <1>19 DEF BeginClose, Free, ownerVars, httpVars, closeVars, userVars, TypeOK, Posts, InThread, Clients, OwnInv
<1>20. CASE CloseOwner
  BY <1>20 DEF CloseOwner, Releases, ownerVars, httpVars, closeVars, userVars, TypeOK, Posts, InThread, Clients, OwnInv
<1>21. CASE CloseHttp
  BY <1>21 DEF CloseHttp, ownerVars, httpVars, closeVars, userVars, TypeOK, Posts, InThread, Clients, OwnInv
<1>22. CASE ForgetHttp
  BY <1>22 DEF ForgetHttp, ownerVars, httpVars, closeVars, userVars, TypeOK, Posts, InThread, Clients, OwnInv
<1>23. CASE CloseReturns
  BY <1>23 DEF CloseReturns, ownerVars, httpVars, closeVars, userVars, TypeOK, Posts, InThread, Clients, OwnInv
<1> QED
  BY <1>0, <1>1, <1>2, <1>3, <1>4, <1>5, <1>6, <1>7, <1>8, <1>9, <1>10, <1>11, <1>12,
     <1>13, <1>14, <1>15, <1>16, <1>17, <1>18, <1>19, <1>20, <1>21, <1>22, <1>23
     DEF Next, UserStep, CloseStep, Over


\* What explains an open httpx.Client stays, and what is reachable is closed
\* or becomes the one of two that was lost.
LEMMA LeakStep == TypeOK /\ LockInv /\ OwnInv /\ HttpInv /\ OneClientInv /\ LeakInv /\ [Next]_vars => LeakInv'
<1> SUFFICES ASSUME TypeOK, LockInv, OwnInv, HttpInv, OneClientInv, LeakInv, [Next]_vars PROVE LeakInv'
  OBVIOUS
<1> USE DistinctNames DEF LeakInv, OneClientInv, Explained, Reachable, App
<1>0. CASE UNCHANGED vars
  BY <1>0 DEF vars, ownerVars, httpVars, userVars, closeVars, Posts
<1>1. ASSUME NEW u \in Users, Arrive(u) PROVE LeakInv'
  BY <1>1 DEF Arrive, Goes, Kinds, ownerVars, httpVars, closeVars, userVars, TypeOK, Posts, InThread, Clients, LockInv
<1>2. ASSUME NEW u \in Users, Validate(u) PROVE LeakInv'
  BY <1>2 DEF Validate, Goes, Answer, ownerVars, httpVars, closeVars, userVars, TypeOK, Posts, InThread, Clients, LockInv
<1>3. ASSUME NEW u \in Users, Enter(u) PROVE LeakInv'
  BY <1>3 DEF Enter, Goes, Free, ownerVars, httpVars, closeVars, userVars, TypeOK, Posts, InThread, Clients, LockInv
<1>4. ASSUME NEW u \in Users, GetClosed(u) PROVE LeakInv'
  BY <1>4 DEF GetClosed, Goes, Answer, ownerVars, httpVars, closeVars, userVars, TypeOK, Posts, InThread, Clients, LockInv
<1>5. ASSUME NEW u \in Users, GetMissing(u) PROVE LeakInv'
  BY <1>5 DEF GetMissing, Goes, ownerVars, httpVars, closeVars, userVars, TypeOK, Posts, InThread, Clients, LockInv
<1>6. ASSUME NEW u \in Users, GetThere(u) PROVE LeakInv'
  BY <1>6 DEF GetThere, Goes, ownerVars, httpVars, closeVars, userVars, TypeOK, Posts, InThread, Clients, LockInv
<1>7. ASSUME NEW u \in Users, Make(u) PROVE LeakInv'
  BY <1>7 DEF OwnInv, Make, Goes, Owned, ownerVars, httpVars, closeVars, userVars, TypeOK, Posts, InThread, Clients, LockInv
<1>8. ASSUME NEW u \in Users, MakeFails(u) PROVE LeakInv'
  BY <1>8 DEF MakeFails, Goes, Answer, LeavesLock, ownerVars, httpVars, closeVars, userVars, TypeOK, Posts, InThread, Clients, LockInv
<1>9. ASSUME NEW u \in Users, Status(u) PROVE LeakInv'
  BY <1>9 DEF Status, Goes, Answer, ownerVars, httpVars, closeVars, userVars, TypeOK, Posts, InThread, Clients, LockInv
<1>10. ASSUME NEW u \in Users, CheckHttp(u) PROVE LeakInv'
  BY <1>10 DEF CheckHttp, Goes, ownerVars, httpVars, closeVars, userVars, TypeOK, Posts, InThread, Clients, LockInv
<1>11. ASSUME NEW u \in Users, OpenHttp(u) PROVE LeakInv'
  <2> SUFFICES ASSUME NEW v \in Users, httpState'[v] = "open", ~(App /\ mine[v] = Given)
               PROVE  Explained(v)' \/ Reachable(v)'
    BY <1>11 DEF OpenHttp, userVars
  <2> USE <1>11 DEF OpenHttp, Goes, ownerVars, closeVars, TypeOK
  <2>1. mine[u] \in Clients /\ (closed => u \in late)
    BY DEF HttpInv, InThread
  <2>2. CASE v = u
    BY <2>1, <2>2
  <2>3. CASE v # u /\ mine[v] = mine[u]
    BY <2>3
  <2>4. CASE v # u /\ mine[v] # mine[u]
    <3>1. mine[v] \in Clients /\ httpState[v] = "open"
      BY <2>4
    <3>2. http'[mine[v]] = http[mine[v]]
      BY <2>4, <3>1
    <3>3. Explained(v) => Explained(v)'
      BY <2>4
    <3> QED
      BY <2>4, <3>1, <3>2, <3>3
  <2> QED
    BY <2>2, <2>3, <2>4
<1>12. ASSUME NEW u \in Users, ReadHttp(u) PROVE LeakInv'
  BY <1>12 DEF ReadHttp, Goes, ownerVars, httpVars, closeVars, userVars, TypeOK, Posts, InThread, Clients, LockInv
<1>13. ASSUME NEW u \in Users, Send(u) PROVE LeakInv'
  BY <1>13 DEF Send, Goes, Posts, ownerVars, httpVars, closeVars, userVars, TypeOK, InThread, Clients, LockInv
<1>14. ASSUME NEW u \in Users, SendFails(u) PROVE LeakInv'
  BY <1>14 DEF SendFails, Goes, Answer, Posts, ownerVars, httpVars, closeVars, userVars, TypeOK, InThread, Clients, LockInv
<1>15. ASSUME NEW u \in Users, Respond(u) PROVE LeakInv'
  BY <1>15 DEF Respond, Goes, Answer, Posts, ownerVars, httpVars, closeVars, userVars, TypeOK, InThread, Clients, LockInv
<1>16. ASSUME NEW u \in Users, Abandon(u) PROVE LeakInv'
  BY <1>16 DEF Abandon, Goes, Answer, InThread, ownerVars, httpVars, closeVars, userVars, TypeOK, Posts, Clients, LockInv
<1>17. ASSUME NEW u \in Users, Cancel(u) PROVE LeakInv'
  BY <1>17 DEF Cancel, Goes, InThread, ownerVars, httpVars, closeVars, userVars, TypeOK, Posts, Clients, LockInv
<1>18. CASE EndServing
  BY <1>18 DEF EndServing, ownerVars, httpVars, closeVars, userVars, TypeOK, Posts, InThread, Clients, OwnInv
<1>19. CASE BeginClose
  BY <1>19 DEF BeginClose, Free, ownerVars, httpVars, closeVars, userVars, TypeOK, Posts, InThread, Clients, OwnInv
<1>20. CASE CloseOwner
  BY <1>20 DEF CloseOwner, Releases, ownerVars, httpVars, closeVars, userVars, TypeOK, Posts, InThread, Clients, OwnInv
<1>21. CASE CloseHttp
  BY <1>21 DEF CloseHttp, ownerVars, httpVars, closeVars, userVars, TypeOK, Posts, InThread, Clients, OwnInv
<1>22. CASE ForgetHttp
  BY <1>22 DEF ForgetHttp, ownerVars, httpVars, closeVars, userVars, TypeOK, Posts, InThread, Clients, OwnInv
<1>23. CASE CloseReturns
  BY <1>23 DEF CloseReturns, ownerVars, httpVars, closeVars, userVars, TypeOK, Posts, InThread, Clients, OwnInv
<1> QED
  BY <1>0, <1>1, <1>2, <1>3, <1>4, <1>5, <1>6, <1>7, <1>8, <1>9, <1>10, <1>11, <1>12,
     <1>13, <1>14, <1>15, <1>16, <1>17, <1>18, <1>19, <1>20, <1>21, <1>22, <1>23
     DEF Next, UserStep, CloseStep, Over


\* After everything has ended an httpx.Client is left open only by who was on
\* its way when the owner closed, or by two who opened one at a time, however
\* many users there are.
THEOREM LeaksHaveReasons == Spec => []LeaksExplained
<1>1. Init => OneClientInv /\ LeakInv
  BY DistinctNames DEF Init, OneClientInv, LeakInv, Clients
<1>2. SafetyInv /\ OneClientInv /\ LeakInv /\ [Next]_vars => OneClientInv' /\ LeakInv'
  BY OneClientStep, LeakStep DEF SafetyInv
<1>3. LeakInv => LeaksExplained
  BY DEF LeakInv, LeaksExplained, Explained, Reachable, Quiet
<1> QED
  BY Safety, <1>1, <1>2, <1>3, PTL DEF Spec
=============================================================================
