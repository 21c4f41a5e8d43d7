--------------------------- MODULE SharedClientProofs ---------------------------
(***************************************************************************)
(* Theorems about SharedClient for any number of requests and logins: the    *)
(* type invariant, that chats and the scheduler send one bundle, that the    *)
(* scheduler meets no closed client, and that a wake-up costs two calls.     *)
(***************************************************************************)
EXTENDS SharedClient, TLAPS

-----------------------------------------------------------------------------
(* The inductive invariant.                                                 *)

\* A thread in a method is at one of its steps; the scheduler's thread only
\* ever lists models, and is alone to say how many calls it has made.
CallInv ==
    /\ \A a \in Actors :
        /\ call[a] = "chat" => at[a] \in 1 .. 5
        /\ call[a] \in {"models", "tools"} => at[a] \in 1 .. 6
    /\ call[Worker] \in {"none", "models"}
    /\ Busy(Worker) => duty \in {"checking", "retrying"}
    /\ duty = "first" => calls = 0
    /\ duty \in {"checking", "resolve", "resolve_only", "retry"} => calls = 1
    /\ calls <= 2

\* A chat reads both at its first step; the scheduler reads both while nobody
\* else replaces the credentials.
BundleInv ==
    /\ \A a \in Actors : call[a] = "chat" /\ at[a] > 1 => token[a] = profile[a]
    /\ Busy(Worker) /\ at[Worker] > 4 => token[Worker] = auth
    /\ Busy(Worker) /\ at[Worker] > 5 => profile[Worker] = auth

\* Nothing is closed before the scheduler is dead, so what it found or opened
\* stays open.
OpenInv ==
    /\ phase \in {"drained", "closing", "closed"} => duty = "dead"
    /\ phase \in {"up", "stopping"} =>
        /\ http # Nothing => httpState[http] = "open"
        /\ \A a \in Actors : httpState[a] # "closed"
        /\ Busy(Worker) =>
            /\ at[Worker] = 2 => missing[Worker] \/ http # Nothing
            /\ at[Worker] = 3 => http # Nothing
            /\ at[Worker] > 3 => Sendable(Worker)

SafetyInv == TypeOK /\ CallInv /\ BundleInv /\ OpenInv

\* Which step a thread is at, by its method and how far it is in it.
LEMMA Where ==
    ASSUME TypeOK, CallInv, NEW a \in Actors
    PROVE  /\ At(a, "both") <=> call[a] = "chat" /\ at[a] = 1
           /\ At(a, "check") <=> \/ call[a] \in {"chat", "tools"} /\ at[a] = 2
                                 \/ call[a] = "models" /\ at[a] = 1
           /\ At(a, "create") <=> \/ call[a] \in {"chat", "tools"} /\ at[a] = 3
                                  \/ call[a] = "models" /\ at[a] = 2
           /\ At(a, "use") <=> \/ call[a] \in {"chat", "tools"} /\ at[a] = 4
                               \/ call[a] = "models" /\ at[a] = 3
           /\ At(a, "token") <=> \/ call[a] = "models" /\ at[a] = 4
                                 \/ call[a] = "tools" /\ at[a] = 5
           /\ At(a, "profile") <=> \/ call[a] = "models" /\ at[a] = 5
                                   \/ call[a] = "tools" /\ at[a] = 1
           /\ At(a, "send") <=> \/ call[a] = "chat" /\ at[a] = 5
                                \/ call[a] \in {"models", "tools"} /\ at[a] = 6
<1>1. CASE call[a] = "chat"
  <2>1. Plan(call[a]) = <<"both", "check", "create", "use", "send">> /\ at[a] \in 1 .. 5
    BY <1>1 DEF Plan, CallInv, ChatPlan, ModelsPlan, ToolsPlan
  <2> QED
    BY <1>1, <2>1 DEF At, Busy
<1>2. CASE call[a] = "models"
  <2>1. /\ Plan(call[a]) = <<"check", "create", "use", "token", "profile", "send">>
        /\ at[a] \in 1 .. 6
    BY <1>2 DEF Plan, CallInv, ChatPlan, ModelsPlan, ToolsPlan
  <2> QED
    BY <1>2, <2>1 DEF At, Busy
<1>3. CASE call[a] = "tools"
  <2>1. /\ Plan(call[a]) = <<"profile", "check", "create", "use", "token", "send">>
        /\ at[a] \in 1 .. 6
    BY <1>3 DEF Plan, CallInv, ChatPlan, ModelsPlan, ToolsPlan
  <2> QED
    BY <1>3, <2>1 DEF At, Busy
<1> QED
  BY <1>1, <1>2, <1>3 DEF TypeOK, At, Busy

\* The inductive invariant holds when the service starts.
LEMMA InvInit == Init => SafetyInv
<1> SUFFICES ASSUME Init PROVE SafetyInv
  OBVIOUS
<1> USE DistinctActors, LoginBound DEF Init
<1>1. TypeOK
  BY DEF TypeOK, Logins
<1>2. CallInv
  BY DEF CallInv, Busy, Actors
<1>3. BundleInv /\ OpenInv
  BY DEF BundleInv, OpenInv, Busy, Actors
<1> QED
  BY <1>1, <1>2, <1>3 DEF SafetyInv

\* Every step keeps every variable to its type.
LEMMA TypeStep == TypeOK /\ CallInv /\ [Next]_vars => TypeOK'
<1> SUFFICES ASSUME TypeOK, CallInv, [Next]_vars PROVE TypeOK'
  OBVIOUS
<1> USE DistinctActors, LoginBound
<1>0. CASE UNCHANGED vars \/ Idle
  BY <1>0 DEF Idle, vars, credVars, callVars, dutyVars, TypeOK
<1>1. ASSUME NEW a \in Actors, ReadToken(a) PROVE TypeOK'
  BY <1>1, Where DEF ReadToken, Steps, TypeOK, CallInv, credVars, callVars, dutyVars
<1>2. ASSUME NEW a \in Actors, ReadProfile(a) PROVE TypeOK'
  BY <1>2, Where DEF ReadProfile, Steps, TypeOK, CallInv, credVars, callVars, dutyVars
<1>3. ASSUME NEW a \in Actors, ReadBoth(a) PROVE TypeOK'
  BY <1>3, Where DEF ReadBoth, Steps, TypeOK, CallInv, credVars, callVars, dutyVars
<1>4. ASSUME NEW a \in Actors, CheckHttp(a) PROVE TypeOK'
  BY <1>4, Where DEF CheckHttp, Steps, TypeOK, CallInv, credVars, callVars, dutyVars
<1>5. ASSUME NEW a \in Actors, CreateHttp(a) PROVE TypeOK'
  BY <1>5, Where DEF CreateHttp, Steps, TypeOK, CallInv, credVars, callVars, dutyVars
<1>6. ASSUME NEW a \in Actors, UseHttp(a) PROVE TypeOK'
  BY <1>6, Where DEF UseHttp, Steps, TypeOK, CallInv, credVars, callVars, dutyVars
<1>7. CASE Wake
  BY <1>7 DEF Wake, TypeOK, Actors, Logins, credVars, callVars, dutyVars
<1>8. CASE Die
  BY <1>8 DEF Die, TypeOK, Actors, Logins, credVars, callVars, dutyVars
<1>8a. CASE Skip
  BY <1>8a DEF Skip, TypeOK, Actors, Logins, credVars, callVars, dutyVars
<1>9. CASE ListModels
  BY <1>9 DEF ListModels, Enter, Busy, TypeOK, Actors, Logins, credVars, callVars, dutyVars
<1>10. CASE Refused
  BY <1>10 DEF Refused, Leave, At, RefreshOn, Busy, TypeOK, Actors, Logins, credVars, callVars, dutyVars
<1>11. CASE Answered
  BY <1>11 DEF Answered, Leave, At, Busy, TypeOK, Actors, Logins, credVars, callVars, dutyVars
<1>12. CASE SaysInvalid
  BY <1>12 DEF SaysInvalid, Leave, At, Busy, TypeOK, Actors, Logins, credVars, callVars, dutyVars
<1>13. CASE RefreshToken
  BY <1>13 DEF RefreshToken, Resolved, TypeOK, Actors, Logins, credVars, callVars, dutyVars
<1>14. CASE ResolverFails
  BY <1>14 DEF ResolverFails, TypeOK, Actors, Logins, credVars, callVars, dutyVars
<1>15. ASSUME NEW r \in Requests, Request(r) PROVE TypeOK'
  BY <1>15 DEF Request, Enter, Busy, TypeOK, Actors, Logins, credVars, callVars, dutyVars
<1>16. ASSUME NEW r \in Requests, Respond(r) PROVE TypeOK'
  BY <1>16 DEF Respond, Leave, At, Busy, TypeOK, Actors, Logins, credVars, callVars, dutyVars
<1>17. CASE Login
  BY <1>17 DEF Login, TypeOK, Actors, Logins, credVars, callVars, dutyVars
<1>18. CASE Expire
  BY <1>18 DEF Expire, TypeOK, Actors, Logins, credVars, callVars, dutyVars
<1>19. CASE StopScheduler
  BY <1>19 DEF StopScheduler, StopPhase, TypeOK, Actors, Logins, credVars, callVars, dutyVars
<1>20. CASE StopServer
  BY <1>20 DEF StopServer, StopPhase, WorkerJoined, TypeOK, Actors, Logins, credVars, callVars, dutyVars
<1>21. CASE CloseHttp
  BY <1>21 DEF CloseHttp, StopPhase, TypeOK, Actors, Logins, credVars, callVars, dutyVars
<1>22. CASE ForgetHttp
  BY <1>22 DEF ForgetHttp, StopPhase, TypeOK, Actors, Logins, credVars, callVars, dutyVars
<1> QED
  BY <1>0, <1>1, <1>2, <1>3, <1>4, <1>5, <1>6, <1>7, <1>8, <1>8a, <1>9, <1>10, <1>11, <1>12,
     <1>13, <1>14, <1>15, <1>16, <1>17, <1>18, <1>19, <1>20, <1>21, <1>22
     DEF Next, WorkerStep, Prepare, Stop, Actors

\* Every step keeps threads inside their methods.
LEMMA CallStep == TypeOK /\ CallInv /\ [Next]_vars => CallInv'
<1> SUFFICES ASSUME TypeOK, CallInv, [Next]_vars PROVE CallInv'
  OBVIOUS
<1> USE DistinctActors
<1>0. CASE UNCHANGED vars \/ Idle
  BY <1>0 DEF Idle, vars, credVars, callVars, dutyVars, CallInv, Busy
<1>1. ASSUME NEW a \in Actors, ReadToken(a) PROVE CallInv'
  BY <1>1, Where DEF ReadToken, Steps, TypeOK, CallInv, Busy, credVars, callVars, dutyVars
<1>2. ASSUME NEW a \in Actors, ReadProfile(a) PROVE CallInv'
  BY <1>2, Where DEF ReadProfile, Steps, TypeOK, CallInv, Busy, credVars, callVars, dutyVars
<1>3. ASSUME NEW a \in Actors, ReadBoth(a) PROVE CallInv'
  BY <1>3, Where DEF ReadBoth, Steps, TypeOK, CallInv, Busy, credVars, callVars, dutyVars
<1>4. ASSUME NEW a \in Actors, CheckHttp(a) PROVE CallInv'
  BY <1>4, Where DEF CheckHttp, Steps, TypeOK, CallInv, Busy, credVars, callVars, dutyVars
<1>5. ASSUME NEW a \in Actors, CreateHttp(a) PROVE CallInv'
  BY <1>5, Where DEF CreateHttp, Steps, TypeOK, CallInv, Busy, credVars, callVars, dutyVars
<1>6. ASSUME NEW a \in Actors, UseHttp(a) PROVE CallInv'
  BY <1>6, Where DEF UseHttp, Steps, TypeOK, CallInv, Busy, credVars, callVars, dutyVars
<1>7. CASE Wake
  BY <1>7 DEF Wake, TypeOK, CallInv, Actors, Busy, credVars, callVars, dutyVars
<1>8. CASE Die
  BY <1>8 DEF Die, TypeOK, CallInv, Actors, Busy, credVars, callVars, dutyVars
<1>8a. CASE Skip
  BY <1>8a DEF Skip, TypeOK, CallInv, Actors, Busy, credVars, callVars, dutyVars
<1>9. CASE ListModels
  BY <1>9 DEF ListModels, Enter, Busy, TypeOK, CallInv, Actors, credVars, callVars, dutyVars
<1>10. CASE Refused
  BY <1>10 DEF Refused, Leave, At, RefreshOn, Busy, TypeOK, CallInv, Actors, credVars, callVars, dutyVars
<1>11. CASE Answered
  BY <1>11 DEF Answered, Leave, At, Busy, TypeOK, CallInv, Actors, credVars, callVars, dutyVars
<1>12. CASE SaysInvalid
  BY <1>12 DEF SaysInvalid, Leave, At, Busy, TypeOK, CallInv, Actors, credVars, callVars, dutyVars
<1>13. CASE RefreshToken
  BY <1>13 DEF RefreshToken, Resolved, TypeOK, CallInv, Actors, Busy, credVars, callVars, dutyVars
<1>14. CASE ResolverFails
  BY <1>14 DEF ResolverFails, TypeOK, CallInv, Actors, Busy, credVars, callVars, dutyVars
<1>15. ASSUME NEW r \in Requests, Request(r) PROVE CallInv'
  BY <1>15 DEF Request, Enter, Busy, TypeOK, CallInv, Actors, credVars, callVars, dutyVars
<1>16. ASSUME NEW r \in Requests, Respond(r) PROVE CallInv'
  BY <1>16 DEF Respond, Leave, At, Busy, TypeOK, CallInv, Actors, credVars, callVars, dutyVars
<1>17. CASE Login
  BY <1>17 DEF Login, TypeOK, CallInv, Actors, Busy, credVars, callVars, dutyVars
<1>18. CASE Expire
  BY <1>18 DEF Expire, TypeOK, CallInv, Actors, Busy, credVars, callVars, dutyVars
<1>19. CASE StopScheduler
  BY <1>19 DEF StopScheduler, StopPhase, TypeOK, CallInv, Actors, Busy, credVars, callVars, dutyVars
<1>20. CASE StopServer
  BY <1>20 DEF StopServer, StopPhase, WorkerJoined, TypeOK, CallInv, Actors, Busy, credVars, callVars, dutyVars
<1>21. CASE CloseHttp
  BY <1>21 DEF CloseHttp, StopPhase, TypeOK, CallInv, Actors, Busy, credVars, callVars, dutyVars
<1>22. CASE ForgetHttp
  BY <1>22 DEF ForgetHttp, StopPhase, TypeOK, CallInv, Actors, Busy, credVars, callVars, dutyVars
<1> QED
  BY <1>0, <1>1, <1>2, <1>3, <1>4, <1>5, <1>6, <1>7, <1>8, <1>8a, <1>9, <1>10, <1>11, <1>12,
     <1>13, <1>14, <1>15, <1>16, <1>17, <1>18, <1>19, <1>20, <1>21, <1>22
     DEF Next, WorkerStep, Prepare, Stop, Actors

\* Every step keeps the token and the profile together.
LEMMA BundleStep == TypeOK /\ CallInv /\ BundleInv /\ [Next]_vars => BundleInv'
<1> SUFFICES ASSUME TypeOK, CallInv, BundleInv, [Next]_vars PROVE BundleInv'
  OBVIOUS
<1> USE DistinctActors
<1>0. CASE UNCHANGED vars \/ Idle
  BY <1>0 DEF Idle, vars, credVars, callVars, dutyVars, BundleInv, Busy
<1>1. ASSUME NEW a \in Actors, ReadToken(a) PROVE BundleInv'
  BY <1>1, Where DEF ReadToken, Steps, TypeOK, CallInv, BundleInv, Busy, credVars, callVars, dutyVars
<1>2. ASSUME NEW a \in Actors, ReadProfile(a) PROVE BundleInv'
  BY <1>2, Where DEF ReadProfile, Steps, TypeOK, CallInv, BundleInv, Busy, credVars, callVars, dutyVars
<1>3. ASSUME NEW a \in Actors, ReadBoth(a) PROVE BundleInv'
  BY <1>3, Where DEF ReadBoth, Steps, TypeOK, CallInv, BundleInv, Busy, credVars, callVars, dutyVars
<1>4. ASSUME NEW a \in Actors, CheckHttp(a) PROVE BundleInv'
  BY <1>4, Where DEF CheckHttp, Steps, TypeOK, CallInv, BundleInv, Busy, credVars, callVars, dutyVars
<1>5. ASSUME NEW a \in Actors, CreateHttp(a) PROVE BundleInv'
  BY <1>5, Where DEF CreateHttp, Steps, TypeOK, CallInv, BundleInv, Busy, credVars, callVars, dutyVars
<1>6. ASSUME NEW a \in Actors, UseHttp(a) PROVE BundleInv'
  BY <1>6, Where DEF UseHttp, Steps, TypeOK, CallInv, BundleInv, Busy, credVars, callVars, dutyVars
<1>7. CASE Wake
  BY <1>7 DEF Wake, TypeOK, CallInv, BundleInv, Actors, Busy, credVars, callVars, dutyVars
<1>8. CASE Die
  BY <1>8 DEF Die, TypeOK, CallInv, BundleInv, Actors, Busy, credVars, callVars, dutyVars
<1>8a. CASE Skip
  BY <1>8a DEF Skip, TypeOK, CallInv, BundleInv, Actors, Busy, credVars, callVars, dutyVars
<1>9. CASE ListModels
  BY <1>9 DEF ListModels, Enter, Busy, TypeOK, CallInv, BundleInv, Actors, credVars, callVars, dutyVars
<1>10. CASE Refused
  BY <1>10 DEF Refused, Leave, At, RefreshOn, Busy, TypeOK, CallInv, BundleInv, Actors, credVars, callVars, dutyVars
<1>11. CASE Answered
  BY <1>11 DEF Answered, Leave, At, Busy, TypeOK, CallInv, BundleInv, Actors, credVars, callVars, dutyVars
<1>12. CASE SaysInvalid
  BY <1>12 DEF SaysInvalid, Leave, At, Busy, TypeOK, CallInv, BundleInv, Actors, credVars, callVars, dutyVars
<1>13. CASE RefreshToken
  BY <1>13 DEF RefreshToken, Resolved, TypeOK, CallInv, BundleInv, Actors, Busy, credVars, callVars, dutyVars
<1>14. CASE ResolverFails
  BY <1>14 DEF ResolverFails, TypeOK, CallInv, BundleInv, Actors, Busy, credVars, callVars, dutyVars
<1>15. ASSUME NEW r \in Requests, Request(r) PROVE BundleInv'
  BY <1>15 DEF Request, Enter, Busy, TypeOK, CallInv, BundleInv, Actors, credVars, callVars, dutyVars
<1>16. ASSUME NEW r \in Requests, Respond(r) PROVE BundleInv'
  BY <1>16 DEF Respond, Leave, At, Busy, TypeOK, CallInv, BundleInv, Actors, credVars, callVars, dutyVars
<1>17. CASE Login
  BY <1>17 DEF Login, TypeOK, CallInv, BundleInv, Actors, Busy, credVars, callVars, dutyVars
<1>18. CASE Expire
  BY <1>18 DEF Expire, TypeOK, CallInv, BundleInv, Actors, Busy, credVars, callVars, dutyVars
<1>19. CASE StopScheduler
  BY <1>19 DEF StopScheduler, StopPhase, TypeOK, CallInv, BundleInv, Actors, Busy, credVars, callVars, dutyVars
<1>20. CASE StopServer
  BY <1>20 DEF StopServer, StopPhase, WorkerJoined, TypeOK, CallInv, BundleInv, Actors, Busy, credVars, callVars, dutyVars
<1>21. CASE CloseHttp
  BY <1>21 DEF CloseHttp, StopPhase, TypeOK, CallInv, BundleInv, Actors, Busy, credVars, callVars, dutyVars
<1>22. CASE ForgetHttp
  BY <1>22 DEF ForgetHttp, StopPhase, TypeOK, CallInv, BundleInv, Actors, Busy, credVars, callVars, dutyVars
<1> QED
  BY <1>0, <1>1, <1>2, <1>3, <1>4, <1>5, <1>6, <1>7, <1>8, <1>8a, <1>9, <1>10, <1>11, <1>12,
     <1>13, <1>14, <1>15, <1>16, <1>17, <1>18, <1>19, <1>20, <1>21, <1>22
     DEF Next, WorkerStep, Prepare, Stop, Actors

\* Every step keeps the client of the scheduler open.
LEMMA OpenStep == TypeOK /\ CallInv /\ OpenInv /\ [Next]_vars => OpenInv'
<1> SUFFICES ASSUME TypeOK, CallInv, OpenInv, [Next]_vars PROVE OpenInv'
  OBVIOUS
<1> USE DistinctActors
<1>0. CASE UNCHANGED vars \/ Idle
  BY <1>0 DEF Idle, vars, credVars, callVars, dutyVars, OpenInv, Busy, Sendable
<1>1. ASSUME NEW a \in Actors, ReadToken(a) PROVE OpenInv'
  BY <1>1, Where DEF ReadToken, Steps, TypeOK, CallInv, OpenInv, Busy, Sendable, Actors, credVars, callVars, dutyVars
<1>2. ASSUME NEW a \in Actors, ReadProfile(a) PROVE OpenInv'
  BY <1>2, Where DEF ReadProfile, Steps, TypeOK, CallInv, OpenInv, Busy, Sendable, Actors, credVars, callVars, dutyVars
<1>3. ASSUME NEW a \in Actors, ReadBoth(a) PROVE OpenInv'
  BY <1>3, Where DEF ReadBoth, Steps, TypeOK, CallInv, OpenInv, Busy, Sendable, Actors, credVars, callVars, dutyVars
<1>4. ASSUME NEW a \in Actors, CheckHttp(a) PROVE OpenInv'
  <2>1. a = Worker => (missing'[Worker] <=> http = Nothing)
    BY <1>4, Zenon DEF CheckHttp, TypeOK
  <2>2. a # Worker => missing'[Worker] = missing[Worker]
    BY <1>4 DEF CheckHttp, TypeOK, Actors
  <2>3. At(a, "check")
    BY <1>4 DEF CheckHttp, Steps
  <2> QED
    BY <1>4, <2>1, <2>2, <2>3, Where
    DEF CheckHttp, Steps, TypeOK, CallInv, OpenInv, Busy, Sendable, Actors, credVars, callVars, dutyVars
<1>5. ASSUME NEW a \in Actors, CreateHttp(a) PROVE OpenInv'
  BY <1>5, Where DEF CreateHttp, Steps, TypeOK, CallInv, OpenInv, Busy, Sendable, Actors, credVars, callVars, dutyVars
<1>6. ASSUME NEW a \in Actors, UseHttp(a) PROVE OpenInv'
  BY <1>6, Where DEF UseHttp, Steps, TypeOK, CallInv, OpenInv, Busy, Sendable, Actors, credVars, callVars, dutyVars
<1>7. CASE Wake
  BY <1>7 DEF Wake, TypeOK, CallInv, OpenInv, Actors, Sendable, Busy, credVars, callVars, dutyVars
<1>8. CASE Die
  BY <1>8 DEF Die, TypeOK, CallInv, OpenInv, Actors, Sendable, Busy, credVars, callVars, dutyVars
<1>8a. CASE Skip
  BY <1>8a DEF Skip, TypeOK, CallInv, OpenInv, Actors, Sendable, Busy, credVars, callVars, dutyVars
<1>9. CASE ListModels
  BY <1>9 DEF ListModels, Enter, Busy, TypeOK, CallInv, OpenInv, Actors, Sendable, credVars, callVars, dutyVars
<1>10. CASE Refused
  BY <1>10 DEF Refused, Leave, At, RefreshOn, Busy, TypeOK, CallInv, OpenInv, Actors, Sendable, credVars, callVars, dutyVars
<1>11. CASE Answered
  BY <1>11 DEF Answered, Leave, At, Busy, TypeOK, CallInv, OpenInv, Actors, Sendable, credVars, callVars, dutyVars
<1>12. CASE SaysInvalid
  BY <1>12 DEF SaysInvalid, Leave, At, Busy, TypeOK, CallInv, OpenInv, Actors, Sendable, credVars, callVars, dutyVars
<1>13. CASE RefreshToken
  BY <1>13 DEF RefreshToken, Resolved, TypeOK, CallInv, OpenInv, Actors, Sendable, Busy, credVars, callVars, dutyVars
<1>14. CASE ResolverFails
  BY <1>14 DEF ResolverFails, TypeOK, CallInv, OpenInv, Actors, Sendable, Busy, credVars, callVars, dutyVars
<1>15. ASSUME NEW r \in Requests, Request(r) PROVE OpenInv'
  BY <1>15 DEF Request, Enter, Busy, TypeOK, CallInv, OpenInv, Actors, Sendable, credVars, callVars, dutyVars
<1>16. ASSUME NEW r \in Requests, Respond(r) PROVE OpenInv'
  BY <1>16 DEF Respond, Leave, At, Busy, TypeOK, CallInv, OpenInv, Actors, Sendable, credVars, callVars, dutyVars
<1>17. CASE Login
  BY <1>17 DEF Login, TypeOK, CallInv, OpenInv, Actors, Sendable, Busy, credVars, callVars, dutyVars
<1>18. CASE Expire
  BY <1>18 DEF Expire, TypeOK, CallInv, OpenInv, Actors, Sendable, Busy, credVars, callVars, dutyVars
<1>19. CASE StopScheduler
  BY <1>19 DEF StopScheduler, StopPhase, TypeOK, CallInv, OpenInv, Actors, Sendable, Busy, credVars, callVars, dutyVars
<1>20. CASE StopServer
  BY <1>20 DEF StopServer, StopPhase, WorkerJoined, TypeOK, CallInv, OpenInv, Actors, Sendable, Busy, credVars, callVars, dutyVars
<1>21. CASE CloseHttp
  BY <1>21 DEF CloseHttp, StopPhase, TypeOK, CallInv, OpenInv, Actors, Sendable, Busy, credVars, callVars, dutyVars
<1>22. CASE ForgetHttp
  BY <1>22 DEF ForgetHttp, StopPhase, TypeOK, CallInv, OpenInv, Actors, Sendable, Busy, credVars, callVars, dutyVars
<1> QED
  BY <1>0, <1>1, <1>2, <1>3, <1>4, <1>5, <1>6, <1>7, <1>8, <1>8a, <1>9, <1>10, <1>11, <1>12,
     <1>13, <1>14, <1>15, <1>16, <1>17, <1>18, <1>19, <1>20, <1>21, <1>22
     DEF Next, WorkerStep, Prepare, Stop, Actors

\* One step keeps the inductive invariant.
LEMMA InvStep == SafetyInv /\ [Next]_vars => SafetyInv'
  BY TypeStep, CallStep, BundleStep, OpenStep DEF SafetyInv

\* So it always holds.
LEMMA Safety == Spec => []SafetyInv
  BY InvInit, InvStep, PTL DEF Spec

-----------------------------------------------------------------------------
(* The theorems.                                                            *)

\* Every variable keeps to its type.
THEOREM TypeInvariant == Spec => []TypeOK
<1>1. SafetyInv => TypeOK
  BY DEF SafetyInv
<1> QED
  BY <1>1, Safety, PTL

\* A chat, and every call of the scheduler, posts the token and the profile of
\* one login, for any number of concurrent requests and of logins.
THEOREM OneLogin == Spec => []ChatAndSchedulerSendOneBundle
<1>1. SafetyInv => ChatAndSchedulerSendOneBundle
  <2> SUFFICES ASSUME SafetyInv, NEW a \in Actors,
                      a = Worker \/ call[a] = "chat", At(a, "send")
               PROVE  token[a] = profile[a]
    BY DEF ChatAndSchedulerSendOneBundle, OneBundle
  <2>1. CASE call[a] = "chat"
    BY <2>1, Where DEF SafetyInv, BundleInv
  <2>2. CASE a = Worker
    BY <2>2, Where DEF SafetyInv, BundleInv, CallInv, Busy, TypeOK
  <2> QED
    BY <2>1, <2>2
<1> QED
  BY <1>1, Safety, PTL

\* When the scheduler posts, the client it took hold of is open: stop() joins
\* its thread before it closes the client.
THEOREM SchedulerMeetsOpenClient == Spec => []SchedulerFindsClientOpen
<1>1. SafetyInv => SchedulerFindsClientOpen
  <2> SUFFICES ASSUME SafetyInv, At(Worker, "send") PROVE Sendable(Worker)
    BY DEF SchedulerFindsClientOpen
  <2>1. Worker \in Actors
    BY DEF Actors
  <2> QED
    BY <2>1, Where DEF SafetyInv, OpenInv, CallInv, Busy, TypeOK
<1> QED
  BY <1>1, Safety, PTL

\* However often upstream refuses, a wake-up of the scheduler costs at most
\* two calls.
THEOREM TwoCalls == Spec => []CallsBounded
<1>1. SafetyInv => CallsBounded
  BY DEF SafetyInv, CallInv, CallsBounded
<1> QED
  BY <1>1, Safety, PTL
=============================================================================
