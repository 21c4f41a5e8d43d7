------------------------------ MODULE SharedClient ------------------------------
(***************************************************************************)
(* One AssistantClient (core/client.py) as the running service uses it:     *)
(* the scheduler's worker calls list_models() and replaces the credentials  *)
(* when they are refused (service/scheduler.py), while HTTP request threads *)
(* call list_models(), list_tools() and chat(), and stop() closes it.  The  *)
(* client has no lock: a call reads _auth and _http at points of its own.   *)
(*                                                                          *)
(* Credentials are numbered by the login that stored them; a number stands  *)
(* for the token and the profile of one database file.                      *)
(***************************************************************************)
EXTENDS Naturals, Sequences

CONSTANTS
    Worker,     \* the kirox-token-scheduler thread
    Requests,   \* HTTP request threads, each with one call
    Nothing,    \* None
    MaxLogins   \* bound on the logins while the service runs

ASSUME DistinctActors == Worker \notin Requests /\ Nothing \notin Requests \cup {Worker}
ASSUME LoginBound == MaxLogins \in Nat

Actors == Requests \cup {Worker}
Logins == 0 .. MaxLogins

VARIABLES
    autoRefresh, \* Config.auto_refresh, which nothing changes
    stored,     \* the login in the database, which the resolver reads
    expired,    \* logins below this one are refused upstream
    auth,       \* AssistantClient._auth
    http,       \* AssistantClient._http, by the thread that created it
    httpState,  \* the httpx.Client each thread created
    call,       \* the method each thread is in
    at,         \* how far it is in it; 0 before its first call
    missing,    \* it saw _http is None
    using,      \* the httpx.Client it posts through
    token,      \* the login of the token it sends
    profile,    \* the login of the profile in the body
    duty,       \* where the scheduler's loop is
    calls,      \* how many calls it has made since it woke up
    phase       \* stop(): "up", "stopping", "drained", "closing" or "closed"

credVars == <<autoRefresh, stored, expired>>
callVars == <<call, at, missing, using, token, profile>>
dutyVars == <<duty, calls>>
vars == <<credVars, auth, http, httpState, callVars, dutyVars, phase>>

-----------------------------------------------------------------------------
(* The client's methods: what each reads, in the order of its arguments.     *)

\* The property _client is the steps "check", "create" and "use".
ChatReadsTwice ==                                       \* mutation
    <<"token", "profile", "check", "create", "use", "send">>
ChatPlan   == <<"both", "check", "create", "use", "send">>
ModelsPlan == <<"check", "create", "use", "token", "profile", "send">>
ToolsPlan  == <<"profile", "check", "create", "use", "token", "send">>

Plan(method) ==
    CASE method = "chat"   -> ChatPlan
      [] method = "models" -> ModelsPlan
      [] method = "tools"  -> ToolsPlan

Busy(a) == call[a] # "none"
At(a, step) == Busy(a) /\ Plan(call[a])[at[a]] = step

Enter(a, method) ==
    /\ ~Busy(a)
    /\ call' = [call EXCEPT ![a] = method]
    /\ at' = [at EXCEPT ![a] = 1]
    /\ UNCHANGED <<missing, using, token, profile>>

Steps(a, step) ==
    /\ At(a, step)
    /\ at' = [at EXCEPT ![a] = @ + 1]
    /\ UNCHANGED <<call, credVars, auth, dutyVars, phase>>

ReadToken(a) ==
    /\ Steps(a, "token") /\ token' = [token EXCEPT ![a] = auth]
    /\ UNCHANGED <<missing, using, profile, http, httpState>>

ReadProfile(a) ==
    /\ Steps(a, "profile") /\ profile' = [profile EXCEPT ![a] = auth]
    /\ UNCHANGED <<missing, using, token, http, httpState>>

ReadBoth(a) ==
    /\ Steps(a, "both")
    /\ token' = [token EXCEPT ![a] = auth]
    /\ profile' = [profile EXCEPT ![a] = auth]
    /\ UNCHANGED <<missing, using, http, httpState>>

CheckHttp(a) ==
    /\ Steps(a, "check") /\ missing' = [missing EXCEPT ![a] = http = Nothing]
    /\ UNCHANGED <<using, token, profile, http, httpState>>

CreateHttp(a) ==
    /\ Steps(a, "create")
    /\ IF missing[a]
       THEN http' = a /\ httpState' = [httpState EXCEPT ![a] = "open"]
       ELSE UNCHANGED <<http, httpState>>
    /\ UNCHANGED <<missing, using, token, profile>>

UseHttp(a) ==
    /\ Steps(a, "use") /\ using' = [using EXCEPT ![a] = http]
    /\ UNCHANGED <<missing, token, profile, http, httpState>>

\* The request, and how it ends: an httpx.Client that is closed, or None,
\* raises; upstream refuses an expired token; anything else may fail too.
Sendable(a) == using[a] # Nothing /\ httpState[using[a]] = "open"
Current(a)  == token[a] >= expired

Leave(a) ==
    /\ At(a, "send")
    /\ call' = [call EXCEPT ![a] = "none"]
    /\ missing' = [missing EXCEPT ![a] = FALSE]
    /\ using' = [using EXCEPT ![a] = Nothing]
    /\ token' = [token EXCEPT ![a] = 0] /\ profile' = [profile EXCEPT ![a] = 0]
    /\ at' = [at EXCEPT ![a] = 1]

Prepare(a) ==
    \/ ReadToken(a) \/ ReadProfile(a) \/ ReadBoth(a)
    \/ CheckHttp(a) \/ CreateHttp(a) \/ UseHttp(a)

-----------------------------------------------------------------------------
(* The scheduler: _run and _check_and_refresh.                              *)

Wake ==
    /\ duty = "top" /\ phase = "up"
    /\ duty' = "first" /\ calls' = 0
    /\ UNCHANGED <<credVars, auth, http, httpState, callVars, phase>>

\* The stop event is set: at the top of the loop or in its wait.
Die ==
    /\ duty = "top" /\ phase # "up"
    /\ duty' = "dead"
    /\ UNCHANGED <<credVars, auth, http, httpState, callVars, calls, phase>>

\* _check_and_refresh returns at once when the configuration says so ...
Skip ==
    /\ duty = "first" /\ ~autoRefresh
    /\ duty' = "top"
    /\ UNCHANGED <<credVars, auth, http, httpState, callVars, calls, phase>>

\* ... and else calls upstream; the retry after a refresh is the same call.
ListModels ==
    /\ duty \in {"first", "retry"} /\ autoRefresh
    /\ Enter(Worker, "models")
    /\ duty' = IF duty = "first" THEN "checking" ELSE "retrying"
    /\ calls' = calls + 1
    /\ UNCHANGED <<credVars, auth, http, httpState, phase>>

\* APIError 401 or 403, or an error whose text says expired or invalid:
\* resolve, and for the former call once more.
RetriesForEver == {"checking", "retrying"}    \* mutation: every refusal counts
RefreshOn == {"checking"}

Refused ==
    /\ ~Current(Worker) /\ Sendable(Worker) /\ Leave(Worker)
    /\ duty' = IF duty \in RefreshOn THEN "resolve" ELSE "top"
    /\ UNCHANGED <<credVars, auth, http, httpState, calls, phase>>

\* Success, or an error that is only reported.
Answered ==
    /\ Leave(Worker)
    /\ duty' = "top"
    /\ UNCHANGED <<credVars, auth, http, httpState, calls, phase>>

\* A transport or client error with "expired" or "invalid" in it.
SaysInvalid ==
    /\ duty = "checking" /\ Leave(Worker)
    /\ duty' = "resolve_only"
    /\ UNCHANGED <<credVars, auth, http, httpState, calls, phase>>

\* _refresh_token: the resolver may raise, too.
StaleResolved == auth               \* mutation: the old credentials again
NoneResolved == Nothing             \* mutation: None where the resolver raises
Resolved == stored
RefreshToken ==
    /\ duty \in {"resolve", "resolve_only"}
    /\ auth' = Resolved
    /\ duty' = IF duty = "resolve" THEN "retry" ELSE "top"
    /\ UNCHANGED <<credVars, http, httpState, callVars, calls, phase>>

ResolverFails ==
    /\ duty \in {"resolve", "resolve_only"} /\ duty' = "top"
    /\ UNCHANGED <<credVars, auth, http, httpState, callVars, calls, phase>>

WorkerStep ==
    \/ Wake \/ Skip \/ Die \/ ListModels \/ Prepare(Worker) \/ Refused \/ Answered
    \/ SaysInvalid \/ RefreshToken \/ ResolverFails

-----------------------------------------------------------------------------
(* Request threads, logins and stop().                                      *)

\* The server accepts requests until stop() has stopped it; the threads of
\* those it has accepted go on.
Request(r) ==
    /\ phase \in {"up", "stopping"} /\ at[r] = 0
    /\ \E method \in {"models", "tools", "chat"} : Enter(r, method)
    /\ UNCHANGED <<credVars, auth, http, httpState, dutyVars, phase>>

Respond(r) ==
    /\ Leave(r)
    /\ UNCHANGED <<credVars, auth, http, httpState, dutyVars, phase>>

Login ==
    /\ stored < MaxLogins /\ stored' = stored + 1
    /\ UNCHANGED <<autoRefresh, expired, auth, http, httpState, callVars, dutyVars, phase>>

Expire ==
    /\ expired <= stored /\ expired < MaxLogins /\ expired' = expired + 1
    /\ UNCHANGED <<autoRefresh, stored, auth, http, httpState, callVars, dutyVars, phase>>

StopPhase(from, to) ==
    /\ phase = from /\ phase' = to
    /\ UNCHANGED <<credVars, auth, callVars, dutyVars>>

\* The scheduler is joined before the server stops, and both before close().
NotJoined == TRUE                    \* mutation: close() does not wait
WorkerJoined == duty = "dead"

StopScheduler == StopPhase("up", "stopping") /\ UNCHANGED <<http, httpState>>
StopServer ==
    WorkerJoined /\ StopPhase("stopping", "drained") /\ UNCHANGED <<http, httpState>>

\* AssistantClient.close(): self._http.close(), then self._http = None.
CloseHttp ==
    /\ http # Nothing /\ StopPhase("drained", "closing")
    /\ httpState' = [httpState EXCEPT ![http] = "closed"]
    /\ UNCHANGED http
ForgetHttp ==
    /\ \/ StopPhase("closing", "closed")
       \/ http = Nothing /\ StopPhase("drained", "closed")
    /\ http' = Nothing /\ UNCHANGED httpState

Stop == StopScheduler \/ StopServer \/ CloseHttp \/ ForgetHttp

Idle ==
    /\ phase = "closed" /\ \A a \in Actors : ~Busy(a)
    /\ UNCHANGED vars

Init ==
    /\ autoRefresh \in BOOLEAN
    /\ stored = 0 /\ expired = 0 /\ auth = 0
    /\ http = Nothing /\ httpState = [a \in Actors |-> "none"]
    /\ call = [a \in Actors |-> "none"] /\ at = [a \in Actors |-> 0]
    /\ missing = [a \in Actors |-> FALSE]
    /\ using = [a \in Actors |-> Nothing]
    /\ token = [a \in Actors |-> 0] /\ profile = [a \in Actors |-> 0]
    /\ duty = "top" /\ calls = 0 /\ phase = "up"

Next ==
    \/ WorkerStep
    \/ \E r \in Requests : Request(r) \/ Prepare(r) \/ Respond(r)
    \/ Login \/ Expire \/ Stop \/ Idle

Spec == Init /\ [][Next]_vars

\* The worker is scheduled; upstream answers again and again with what it
\* thinks of the token, and the resolver can again and again read the file.
FairSpec ==
    /\ Spec
    /\ WF_vars(WorkerStep) /\ SF_vars(Refused) /\ SF_vars(RefreshToken)

-----------------------------------------------------------------------------
\* Every variable keeps to its type.
TypeOK ==
    /\ autoRefresh \in BOOLEAN
    /\ stored \in Logins /\ expired \in Logins /\ auth \in Logins
    /\ http \in Actors \cup {Nothing}
    /\ httpState \in [Actors -> {"none", "open", "closed"}]
    /\ call \in [Actors -> {"none", "models", "tools", "chat"}]
    /\ at \in [Actors -> 0 .. 6]
    /\ missing \in [Actors -> BOOLEAN]
    /\ using \in [Actors -> Actors \cup {Nothing}]
    /\ token \in [Actors -> Logins] /\ profile \in [Actors -> Logins]
    /\ duty \in {"top", "first", "checking", "resolve", "resolve_only", "retry",
                 "retrying", "dead"}
    /\ calls \in Nat
    /\ phase \in {"up", "stopping", "drained", "closing", "closed"}

OneBundle(a) == At(a, "send") => token[a] = profile[a]

\* A chat, and every call of the scheduler, sends the token and the profile of
\* one login, although the credentials may be replaced in the middle of it:
\* chat() reads them once, and the scheduler is the only one to replace them.
ChatAndSchedulerSendOneBundle ==
    \A a \in Actors : a = Worker \/ call[a] = "chat" => OneBundle(a)

\* The scheduler never posts through a client that stop() has closed.
SchedulerFindsClientOpen == At(Worker, "send") => Sendable(Worker)

\* A wake-up costs two upstream calls at most, however often upstream refuses.
CallsBounded == calls <= 2

\* When the token in use has expired and the database holds a better one, the
\* scheduler puts it to use, unless that expires as well or the service stops;
\* provided that the configuration lets it refresh at all.
RefreshRecovers ==
    autoRefresh /\ auth < expired /\ stored >= expired ~>
        auth >= expired \/ stored < expired \/ phase # "up"
=============================================================================
