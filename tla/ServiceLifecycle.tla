--------------------------- MODULE ServiceLifecycle ---------------------------
(***************************************************************************)
(* One KiroxService (service/daemon.py) and the two components it owns: the *)
(* TokenScheduler (service/scheduler.py) and the ManagedHTTPServer          *)
(* (service/server.py), with every thread that can call into it.            *)
(*                                                                          *)
(* An Activity is one call stack that runs service code: the main thread in *)
(* run(), library or tray threads that call start/stop/wait, HTTP request   *)
(* threads that reach POST /internal/shutdown, and activations of the       *)
(* signal handler, which borrow the main thread (module Signals gives them  *)
(* their steps; here they stay idle).  Each activity has a pc; a step is    *)
(* the code between two points where another thread can observe a change,   *)
(* the activity can block, or a signal handler's stop() makes a difference  *)
(* to the code it interrupted.                                              *)
(***************************************************************************)
EXTENDS Naturals, FiniteSets

CONSTANTS
    Main,       \* the main thread, inside KiroxService.run()
    Callers,    \* threads that call start(), stop() and wait() at will
    Requests,   \* authorised POST /internal/shutdown requests
    Handlers,   \* activations of the signal handler on the main thread
    Faults,     \* the start-up and tear-down steps that may raise
    NoOne       \* an unlocked threading.Lock

Activities == {Main} \cup Callers \cup Requests \cup Handlers

FaultPoints == {"client", "bind", "schedThread", "srvThread",
                "identity", "write", "clear", "serve"}

ASSUME DistinctActivities ==
    /\ Main \notin Callers \cup Requests \cup Handlers
    /\ Callers \cap Requests = {}
    /\ (Callers \cup Requests) \cap Handlers = {}
    /\ NoOne \notin Activities
ASSUME KnownFaults == Faults \subseteq FaultPoints

VARIABLES
    lifecycle,     \* KiroxService._lifecycle
    stopped,       \* KiroxService._stopped, the Event
    lock,          \* KiroxService._lock, the activities inside the RLock
    client,        \* the AssistantClient: "none", "open" or "closed"
    clientClosed,  \* KiroxService._client_closed
    closes,        \* how often client.close() has been called
    scheduler,     \* KiroxService._scheduler is not None
    schRunning,    \* TokenScheduler._running
    schThread,     \* TokenScheduler._thread is not None
    stopEvent,     \* TokenScheduler._stop_event
    schLock,       \* TokenScheduler._lock, its holder
    worker,        \* the kirox-token-scheduler thread
    socket,        \* the listening socket: "none", "bound" or "closed"
    srvThread,     \* ManagedHTTPServer._thread is not None
    srvClosed,     \* ManagedHTTPServer._closed
    srvDone,       \* ManagedHTTPServer._done
    srvLock,       \* ManagedHTTPServer._lock, its holder
    serve,         \* the kirox-http-server thread
    shutReq,       \* socketserver's shutdown request flag
    stateOwner,    \* KiroxService._state_owner is not None
    stateFile,     \* the state file names this service
    pc,            \* where each activity is
    cont,          \* where it goes when the call it is in returns
    mode           \* "stop" or "rollback": which caller of the tear-down

svcVars    == <<lifecycle, stopped>>
clientVars == <<client, clientClosed, closes>>
schVars    == <<scheduler, schRunning, schThread, stopEvent, worker>>
srvVars    == <<socket, srvThread, srvClosed, srvDone, serve, shutReq>>
stateVars  == <<stateOwner, stateFile>>
ownVars    == <<clientVars, schVars, srvVars, stateVars>>
lockVars   == <<lock, schLock, srvLock>>
ctlVars    == <<pc, cont, mode>>
vars == <<svcVars, ownVars, lockVars, ctlVars>>

-----------------------------------------------------------------------------
(* Program points.                                                          *)

IdleLabels  == {"idle", "exit", "raised"}
EntryLabels == {"start", "wait", "wait_check", "final", "stop"}
TryLabels   == {"create_client", "create_server", "sched_start", "srv_start",
                "capture", "write_state", "running"}   \* the try of start()
StartLabels == {"begin"} \cup TryLabels
TearLabels  == {"td_sched", "td_sched_body", "td_join", "td_srv",
                "td_srv_join", "td_srv_close", "td_clear", "td_close",
                "td_mark", "td_shut", "td_finish"}
Labels == IdleLabels \cup EntryLabels \cup StartLabels \cup TearLabels

Lifecycles == {"new", "starting", "running", "stopping", "stopped"}
Workers    == {"none", "top", "busy", "waiting", "exit", "dead"}
Serves     == {"none", "created", "serving", "left", "dead"}

\* threading.RLock: a thread that holds it enters again; a Lock never does.
ThreadOf(a) == IF a \in Handlers THEN Main ELSE a
RLockFree(a) == \A b \in lock : ThreadOf(b) = ThreadOf(a)

\* thread.is_alive() of the two owned threads.
WorkerAlive == worker \in {"top", "busy", "waiting", "exit"}
ServeAlive  == serve \in {"created", "serving", "left"}

Goto(a, from, to) == pc[a] = from /\ pc' = [pc EXCEPT ![a] = to]

\* Where calls return to: run() goes from start() to wait(), and from either
\* to the stop() in its finally clause.
Return(a, from) == Goto(a, from, cont[a])
FailedStart(a)  == IF a = Main THEN "final" ELSE "idle"
AfterWait(a)    == IF a = Main THEN "final" ELSE "idle"

Init ==
    /\ lifecycle = "new" /\ stopped = TRUE
    /\ client \in {"none", "open"}    \* "open": injected by the caller
    /\ clientClosed = FALSE /\ closes = 0
    /\ scheduler = FALSE /\ schRunning = FALSE /\ schThread = FALSE
    /\ stopEvent = FALSE /\ worker = "none"
    /\ socket = "none" /\ srvThread = FALSE /\ srvClosed = FALSE
    /\ srvDone = FALSE /\ serve = "none" /\ shutReq = FALSE
    /\ stateOwner = FALSE /\ stateFile = FALSE
    /\ lock = {} /\ schLock = NoOne /\ srvLock = NoOne
    /\ pc = [a \in Activities |-> "idle"]
    /\ cont = [a \in Activities |-> "idle"]
    /\ mode = [a \in Activities |-> "stop"]

-----------------------------------------------------------------------------
(* The calls each kind of activity makes.                                   *)

\* A call moves its activity only; back is where it returns to.
CallOf(a, from, op, back) ==
    /\ Goto(a, from, op)
    /\ cont' = [cont EXCEPT ![a] = back]
    /\ UNCHANGED <<svcVars, ownVars, lockVars, mode>>

\* run() calls start(), then wait(), then stop() in its finally clause.
MainCalls == CallOf(Main, "idle", "start", "wait")
Final(a)  == CallOf(a, "final", "stop", "exit")

\* The tray menu and library code call the public methods in any order.
CallerCalls(a) ==
    a \in Callers /\ \E op \in {"start", "stop", "wait"} : CallOf(a, "idle", op, "idle")

\* The serving thread hands an authorised shutdown request to a daemon
\* thread of its own, which calls shutdown_callback = service.stop.
RequestArrives(a) ==
    /\ a \in Requests /\ serve = "serving" /\ socket = "bound"
    /\ CallOf(a, "idle", "stop", "exit")

-----------------------------------------------------------------------------
(* start()                                                                  *)

MayStart == lifecycle \in {"new", "starting"}

StartEnter(a) ==
    /\ RLockFree(a)
    /\ \/ MayStart /\ Goto(a, "start", "begin") /\ lock' = lock \cup {a}
       \/ lifecycle = "running" /\ Return(a, "start") /\ UNCHANGED lock
       \/ /\ lifecycle \in {"stopping", "stopped"}
          /\ Goto(a, "start", FailedStart(a)) /\ UNCHANGED lock
    /\ UNCHANGED <<svcVars, ownVars, schLock, srvLock, cont, mode>>

\* The lifecycle has been looked at, and is not looked at again.
Begin(a) ==
    /\ Goto(a, "begin", "create_client")
    /\ lifecycle' = "starting" /\ stopped' = FALSE
    /\ UNCHANGED <<ownVars, lockVars, cont, mode>>

\* A step of start(): it succeeds, or `except BaseException` rolls back.
Advance(a, from, to) == Goto(a, from, to) /\ UNCHANGED mode
Rollback(a, from) ==
    /\ Goto(a, from, "td_sched")
    /\ mode' = [mode EXCEPT ![a] = "rollback"]

CreateClient(a) ==
    /\ \/ /\ Advance(a, "create_client", "create_server")
          /\ client' = IF client = "none" THEN "open" ELSE client
       \/ /\ client = "none" /\ "client" \in Faults
          /\ Rollback(a, "create_client")
          /\ UNCHANGED client
    /\ UNCHANGED <<svcVars, clientClosed, closes, schVars, srvVars, stateVars,
                   lockVars, cont>>

\* create_app and ManagedHTTPServer.__init__, which binds, then the
\* TokenScheduler object; a failed bind creates neither.
CreateServer(a) ==
    /\ \/ /\ Advance(a, "create_server", "sched_start")
          /\ socket' = "bound" /\ scheduler' = TRUE
       \/ /\ "bind" \in Faults
          /\ Rollback(a, "create_server")
          /\ UNCHANGED <<socket, scheduler>>
    /\ UNCHANGED <<svcVars, clientVars, schRunning, schThread, stopEvent,
                   worker, srvThread, srvClosed, srvDone, serve, shutReq,
                   stateVars, lockVars, cont>>

SchedStart(a) ==
    /\ schLock = NoOne
    /\ \/ /\ schThread /\ WorkerAlive
          /\ Advance(a, "sched_start", "srv_start")
          /\ UNCHANGED schVars
       \/ /\ ~(schThread /\ WorkerAlive)
          /\ Advance(a, "sched_start", "srv_start")
          /\ stopEvent' = FALSE /\ schRunning' = TRUE
          /\ schThread' = TRUE /\ worker' = "top"
          /\ UNCHANGED scheduler
       \/ /\ ~(schThread /\ WorkerAlive) /\ "schedThread" \in Faults
          /\ Rollback(a, "sched_start")
          /\ schThread' = FALSE /\ schRunning' = FALSE /\ stopEvent' = TRUE
          /\ UNCHANGED <<scheduler, worker>>
    /\ UNCHANGED <<svcVars, clientVars, srvVars, stateVars, lockVars, cont>>

SrvStart(a) ==
    /\ srvLock = NoOne
    /\ \/ /\ srvClosed
          /\ Rollback(a, "srv_start")
          /\ UNCHANGED srvVars
       \/ /\ ~srvClosed /\ ~srvThread
          /\ Advance(a, "srv_start", "capture")
          /\ srvThread' = TRUE /\ srvDone' = FALSE /\ serve' = "created"
          /\ UNCHANGED <<socket, srvClosed, shutReq>>
       \/ /\ ~srvClosed /\ ~srvThread /\ "srvThread" \in Faults
          /\ Rollback(a, "srv_start")
          /\ srvDone' = TRUE /\ socket' = "closed" /\ srvClosed' = TRUE
          /\ UNCHANGED <<srvThread, serve, shutReq>>
    /\ UNCHANGED <<svcVars, clientVars, schVars, stateVars, lockVars, cont>>

\* capture_process_identity, then self._state_owner = owner.
Capture(a) ==
    /\ \/ /\ Advance(a, "capture", "write_state")
          /\ stateOwner' = TRUE
       \/ /\ "identity" \in Faults
          /\ Rollback(a, "capture")
          /\ UNCHANGED stateOwner
    /\ UNCHANGED <<svcVars, clientVars, schVars, srvVars, stateFile, lockVars,
                   cont>>

WriteErrorSwallowed(a) ==     \* mutation: start() goes on without the file
    Advance(a, "write_state", "running")
WriteError(a) == Rollback(a, "write_state")

WriteState(a) ==
    /\ \/ Advance(a, "write_state", "running") /\ stateFile' = TRUE
       \/ "write" \in Faults /\ WriteError(a) /\ UNCHANGED stateFile
    /\ UNCHANGED <<svcVars, clientVars, schVars, srvVars, stateOwner,
                   lockVars, cont>>

Running(a) ==
    /\ Return(a, "running")
    /\ lifecycle' = "running" /\ lock' = lock \ {a}
    /\ UNCHANGED <<stopped, ownVars, schLock, srvLock, cont, mode>>

-----------------------------------------------------------------------------
(* stop(), and the tear-down it shares with _rollback_start().  Looking at  *)
(* the lifecycle and leaving "stopping" in it are one step: a handler's     *)
(* stop() between them leaves what one right after them leaves.             *)

BeginStopMisnamed == lifecycle' = "closing"   \* mutation: no such state
BeginStop == lifecycle' = "stopping"

StopEnter(a) ==
    /\ RLockFree(a)
    /\ \/ /\ lifecycle = "stopped"
          /\ Return(a, "stop")
          /\ UNCHANGED <<lifecycle, lock, mode>>
       \/ /\ lifecycle # "stopped"
          /\ Goto(a, "stop", "td_sched")
          /\ BeginStop /\ lock' = lock \cup {a}
          /\ mode' = [mode EXCEPT ![a] = "stop"]
    /\ UNCHANGED <<stopped, ownVars, schLock, srvLock, cont>>

\* TokenScheduler.stop takes the lock, if there is a scheduler at all.
TearSched(a) ==
    /\ \/ ~scheduler /\ Goto(a, "td_sched", "td_srv") /\ UNCHANGED schLock
       \/ /\ scheduler /\ schLock = NoOne
          /\ Goto(a, "td_sched", "td_sched_body")
          /\ schLock' = a
    /\ UNCHANGED <<svcVars, ownVars, lock, srvLock, cont, mode>>

InterruptForgotten == UNCHANGED stopEvent   \* mutation: no wake-up
Interrupt == stopEvent' = TRUE

TearSchedBody(a) ==
    /\ schLock' = NoOne
    /\ \/ /\ ~schRunning /\ ~(schThread /\ WorkerAlive)
          /\ Goto(a, "td_sched_body", "td_srv")
          /\ UNCHANGED schVars
       \/ /\ schRunning \/ (schThread /\ WorkerAlive)
          /\ Goto(a, "td_sched_body", IF schThread THEN "td_join" ELSE "td_srv")
          /\ schRunning' = FALSE /\ Interrupt
          /\ UNCHANGED <<scheduler, schThread, worker>>
    /\ UNCHANGED <<svcVars, clientVars, srvVars, stateVars, lock, srvLock,
                   cont, mode>>

\* thread.join() holds no scheduler lock, which the worker needs to finish;
\* the lock is taken again to drop the reference.
WorkerJoinSkipped == TRUE     \* mutation: stop() does not join the worker
WorkerJoined == ~WorkerAlive

TearJoin(a) ==
    /\ WorkerJoined /\ schLock = NoOne
    /\ Goto(a, "td_join", "td_srv")
    /\ schThread' = FALSE
    /\ UNCHANGED <<svcVars, clientVars, scheduler, schRunning, stopEvent,
                   worker, srvVars, stateVars, lockVars, cont, mode>>

NothingServing ==             \* mutation: only a running thread needs a close
    socket = "none" \/ (srvLock = NoOne /\ (srvClosed \/ ~ServeAlive))
NothingToClose == socket = "none" \/ (srvLock = NoOne /\ srvClosed)

\* ManagedHTTPServer.stop keeps its non-reentrant lock to the end, across
\* shutdown() and the join.
TearSrv(a) ==
    /\ \/ /\ NothingToClose
          /\ Goto(a, "td_srv", "td_clear")
          /\ UNCHANGED <<srvLock, shutReq>>
       \/ /\ ~NothingToClose /\ srvLock = NoOne
          /\ srvLock' = a
          /\ IF srvThread /\ ServeAlive
             THEN Goto(a, "td_srv", "td_srv_join") /\ shutReq' = TRUE
             ELSE Goto(a, "td_srv", "td_srv_close") /\ UNCHANGED shutReq
    /\ UNCHANGED <<svcVars, clientVars, schVars, socket, srvThread, srvClosed,
                   srvDone, serve, stateVars, lock, schLock, cont, mode>>

\* shutdown() waits for serve_forever to leave its loop, join() for the end.
TearSrvJoin(a) ==
    /\ ~ServeAlive
    /\ Goto(a, "td_srv_join", "td_srv_close")
    /\ UNCHANGED <<svcVars, ownVars, lockVars, cont, mode>>

TearSrvClose(a) ==
    /\ Goto(a, "td_srv_close", "td_clear")
    /\ socket' = "closed" /\ srvClosed' = TRUE /\ srvDone' = TRUE
    /\ srvLock' = NoOne
    /\ UNCHANGED <<svcVars, clientVars, schVars, srvThread, serve, shutReq,
                   stateVars, lock, schLock, cont, mode>>

\* clear_state; an OSError from it is logged and the tear-down goes on, and a
\* record that cannot be read stays, too.
ClearFailedAborts(a) == Goto(a, "td_clear", "td_finish")  \* mutation
ClearFailed(a) == Goto(a, "td_clear", "td_close")

TearClear(a) ==
    /\ \/ /\ stateOwner /\ stateFile' = FALSE
          /\ Goto(a, "td_clear", "td_close")
       \/ /\ ~stateOwner
          /\ Goto(a, "td_clear", "td_close") /\ UNCHANGED stateFile
       \/ /\ stateOwner /\ "clear" \in Faults
          /\ ClearFailed(a) /\ UNCHANGED stateFile
    /\ UNCHANGED <<svcVars, clientVars, schVars, srvVars, stateOwner,
                   lockVars, cont, mode>>

\* _close_client_once: it looks at _client_closed, sets it, and calls close(),
\* an exception from which is logged.
CloseAlways == client = "none"      \* mutation: _client_closed is not looked at
CloseNothing == client = "none" \/ clientClosed

TearClose(a) ==
    /\ Goto(a, "td_close", IF CloseNothing THEN "td_finish" ELSE "td_mark")
    /\ UNCHANGED <<svcVars, ownVars, lockVars, cont, mode>>

TearMark(a) ==
    /\ Goto(a, "td_mark", "td_shut")
    /\ clientClosed' = TRUE
    /\ UNCHANGED <<svcVars, client, closes, schVars, srvVars, stateVars,
                   lockVars, cont, mode>>

TearShut(a) ==
    /\ Goto(a, "td_shut", "td_finish")
    /\ client' = "closed" /\ closes' = closes + 1
    /\ UNCHANGED <<svcVars, clientClosed, schVars, srvVars, stateVars,
                   lockVars, cont, mode>>

\* The finally of stop(), the end of _rollback_start() and the re-raise.
EndStopSilent == lifecycle' = "stopped" /\ UNCHANGED stopped   \* mutation
EndStop == lifecycle' = "stopped" /\ stopped' = TRUE

TearFinish(a) ==
    /\ Goto(a, "td_finish",
            IF mode[a] = "rollback" THEN FailedStart(a) ELSE cont[a])
    /\ EndStop /\ lock' = lock \ {a}
    /\ UNCHANGED <<ownVars, schLock, srvLock, cont, mode>>

-----------------------------------------------------------------------------
(* wait()                                                                   *)

\* _stopped.wait(interval): set, or the interval passed.
Wait(a) ==
    /\ Goto(a, "wait", IF stopped THEN AfterWait(a) ELSE "wait_check")
    /\ UNCHANGED <<svcVars, ownVars, lockVars, cont, mode>>

\* The RLock is held only to read _server and _lifecycle.
WaitCheck(a) ==
    /\ RLockFree(a)
    /\ IF lifecycle = "running" /\ socket # "none" /\ srvDone
       THEN CallOf(a, "wait_check", "stop", "wait")
       ELSE /\ Goto(a, "wait_check", "wait")
            /\ UNCHANGED <<svcVars, ownVars, lockVars, cont, mode>>

-----------------------------------------------------------------------------
(* The two owned threads.                                                   *)

WorkerGoes(from, to) ==
    /\ worker = from /\ worker' = to
    /\ UNCHANGED <<svcVars, clientVars, scheduler, stopEvent, srvVars,
                   stateVars, lockVars, ctlVars>>

\* while not self._stop_event.is_set(): ...
WorkerTop ==
    /\ WorkerGoes("top", IF stopEvent THEN "exit" ELSE "busy")
    /\ UNCHANGED <<schRunning, schThread>>

\* _check_and_refresh returned or raised; errors are caught and reported.
WorkerCheck == WorkerGoes("busy", "waiting") /\ UNCHANGED <<schRunning, schThread>>

\* self._stop_event.wait(delay): set, or the delay passed.
WorkerWait ==
    /\ WorkerGoes("waiting", IF stopEvent THEN "exit" ELSE "top")
    /\ UNCHANGED <<schRunning, schThread>>

WorkerExit ==
    /\ schLock = NoOne
    /\ WorkerGoes("exit", "dead")
    /\ schRunning' = FALSE /\ schThread' = FALSE

WorkerStep == WorkerTop \/ WorkerCheck \/ WorkerWait \/ WorkerExit

ServeGoes(from, to) ==
    /\ serve = from /\ serve' = to
    /\ UNCHANGED <<svcVars, clientVars, schVars, srvThread, srvClosed,
                   stateVars, lockVars, ctlVars>>

ServeEnter ==
    ServeGoes("created", "serving") /\ UNCHANGED <<socket, srvDone, shutReq>>

\* serve_forever leaves its loop on a shutdown request, or raises; Werkzeug
\* closes the listening socket on the way out.
ServeLeave ==
    /\ shutReq \/ "serve" \in Faults
    /\ ServeGoes("serving", "left")
    /\ shutReq' = FALSE /\ socket' = "closed"
    /\ UNCHANGED srvDone

\* finally: self._done.set(), and the thread ends.
DoneForgotten == UNCHANGED srvDone       \* mutation
SetDone == srvDone' = TRUE

ServeEnd == ServeGoes("left", "dead") /\ SetDone /\ UNCHANGED <<socket, shutReq>>

ServeStep == ServeEnter \/ ServeLeave \/ ServeEnd

-----------------------------------------------------------------------------
StartStep(a) ==
    \/ StartEnter(a) \/ Begin(a) \/ CreateClient(a) \/ CreateServer(a)
    \/ SchedStart(a) \/ SrvStart(a) \/ Capture(a) \/ WriteState(a) \/ Running(a)

TearStep(a) ==
    \/ StopEnter(a) \/ TearSched(a) \/ TearSchedBody(a) \/ TearJoin(a)
    \/ TearSrv(a) \/ TearSrvJoin(a) \/ TearSrvClose(a) \/ TearClear(a)
    \/ TearClose(a) \/ TearMark(a) \/ TearShut(a) \/ TearFinish(a)

\* A step inside a call; the thread scheduler runs these.
Proceed(a) == StartStep(a) \/ TearStep(a) \/ Wait(a) \/ WaitCheck(a) \/ Final(a)

Call(a) == (a = Main /\ MainCalls) \/ CallerCalls(a) \/ RequestArrives(a)

\* run() has returned; what is left is other threads' business.
Exited == pc[Main] = "exit" /\ UNCHANGED vars

Next ==
    \/ \E a \in Activities : Proceed(a) \/ Call(a)
    \/ WorkerStep
    \/ ServeStep
    \/ Exited

Spec == Init /\ [][Next]_vars

\* Every thread that can run is eventually scheduled, list_models() returns
\* (its HTTP timeouts bound it) and serve_forever polls its flag.  Nobody has
\* to call anything, except that run() starts what it was called to start.
Fairness ==
    /\ \A a \in Activities : WF_vars(Proceed(a))
    /\ WF_vars(MainCalls)
    /\ WF_vars(WorkerStep)
    /\ WF_vars(ServeEnter \/ (shutReq /\ ServeLeave) \/ ServeEnd)

FairSpec == Spec /\ Fairness

-----------------------------------------------------------------------------
(* Properties.                                                              *)

Holders == Activities \cup {NoOne}

FlagsOK ==
    /\ stopped \in BOOLEAN /\ clientClosed \in BOOLEAN
    /\ scheduler \in BOOLEAN /\ schRunning \in BOOLEAN
    /\ schThread \in BOOLEAN /\ stopEvent \in BOOLEAN
    /\ srvThread \in BOOLEAN /\ srvClosed \in BOOLEAN /\ srvDone \in BOOLEAN
    /\ shutReq \in BOOLEAN /\ stateOwner \in BOOLEAN /\ stateFile \in BOOLEAN

ValuesOK ==
    /\ lifecycle \in Lifecycles
    /\ lock \subseteq Activities
    /\ schLock \in Holders /\ srvLock \in Holders
    /\ client \in {"none", "open", "closed"} /\ closes \in Nat
    /\ worker \in Workers /\ serve \in Serves
    /\ socket \in {"none", "bound", "closed"}
    /\ pc \in [Activities -> Labels]
    /\ cont \in [Activities -> {"idle", "wait", "exit"}]
    /\ mode \in [Activities -> {"stop", "rollback"}]

\* Every variable keeps to its type.
TypeOK == FlagsOK /\ ValuesOK

\* What stop() and a failed start() promise to have let go of.
Released ==
    /\ ~WorkerAlive /\ ~ServeAlive
    /\ socket # "bound"
    /\ client # "open"
    /\ "clear" \in Faults \/ ~stateFile

\* Whoever sees the service stopped finds both threads gone, the socket and
\* the client closed and the state file removed, whichever thread stopped it
\* and whatever failed on the way: the reader of _lifecycle under the RLock,
\* and wait(), which returns on the Event without taking it.
StoppedMeansReleased ==
    /\ lifecycle = "stopped" => Released /\ stopped
    /\ stopped /\ lifecycle # "new" =>
           ~WorkerAlive /\ ~ServeAlive /\ socket # "bound"

\* The client outlives the scheduler and the serving thread: neither a token
\* refresh nor a newly accepted request meets a client that stop() or the
\* roll-back of start() has closed.
ClientOutlivesUsers == client = "closed" => ~WorkerAlive /\ ~ServeAlive

\* A published service is whole: while it is "running" the state file, the
\* client, the scheduler and the socket are there, unless the serving thread
\* died by itself.
RunningIsWhole ==
    lifecycle = "running" =>
        /\ stateFile /\ client = "open" /\ WorkerAlive
        /\ socket = "bound" \/ serve \in {"left", "dead"}

\* A tear-down inside a failed start() counts as stopping.
RollingBack ==
    \E a \in Activities : mode[a] = "rollback" /\ pc[a] \in TearLabels

\* KiroxService keeps the promise of ServiceOwnership: every step of every
\* thread acquires or releases in its order, or is invisible to it.
Ownership == INSTANCE ServiceOwnership WITH
    Residue <- IF "clear" \in Faults THEN {"state"} ELSE {},
    phase   <- IF RollingBack THEN "stopping" ELSE lifecycle,
    event   <- stopped,
    held    <- {r \in {"client", "socket", "worker", "server", "state"} :
                  CASE r = "client" -> client = "open"
                    [] r = "socket" -> socket = "bound"
                    [] r = "worker" -> WorkerAlive
                    [] r = "server" -> ServeAlive
                    [] r = "state"  -> stateFile}
OwnershipSpec == Ownership!Spec

\* stop() always returns, whichever threads call it at once and whatever
\* state the service is in: no caller waits forever on the RLock, the two
\* component locks or a join.
StopReturns ==
    \A a \in Activities : pc[a] = "stop" ~> pc[a] \in {"idle", "exit", "wait"}

\* A serving thread that dies by itself does not leave a published service
\* behind: run() notices through wait() and stops it.
DeadServerIsStopped ==
    lifecycle = "running" /\ serve = "dead" ~> lifecycle = "stopped"

\* Once anything stops the service, or start() fails, run() returns.
RunReturns ==
    lifecycle = "stopped" /\ pc[Main] # "idle" ~> pc[Main] = "exit"
=============================================================================
