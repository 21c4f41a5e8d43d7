-------------------------------- MODULE Signals --------------------------------
(***************************************************************************)
(* ServiceLifecycle with SIGINT and SIGTERM.  CPython runs a signal handler *)
(* on the main thread, between two bytecodes of whatever that thread is     *)
(* doing, blocking lock acquisitions included: the code it interrupted is   *)
(* frozen below it until the handler returns.  run() and                    *)
(* cli._wait_for_interrupt install a handler that calls stop(); everywhere  *)
(* else (the tray, the end of `kirox run`) Python's own handler raises      *)
(* KeyboardInterrupt in the interrupted code.                               *)
(***************************************************************************)
EXTENDS ServiceLifecycle, Sequences

CONSTANTS
    HandlerPoints,  \* where a signal may find the main thread while the
                    \* handler of run() is installed
    RaisePoints     \* and while Python's default handler is

ASSUME PointsAreLabels ==
    HandlerPoints \subseteq Labels /\ RaisePoints \subseteq Labels

VARIABLE stack     \* the active handlers, the innermost first

signalVars == <<vars, stack>>

\* The frame the main thread executes.
Top == IF stack = <<>> THEN Main ELSE Head(stack)

\* Each element of Handlers is one signal: their number bounds the signals.
Unused(h) == h \in Handlers /\ cont[h] = "idle"
Arrives(h, points) ==
    Unused(h) /\ pc[Main] \notin IdleLabels /\ pc[Top] \in points

SignalInit == Init /\ stack = <<>>

\* handler(signum, frame): self.stop()
Deliver(h) ==
    /\ Arrives(h, HandlerPoints)
    /\ stack' = <<h>> \o stack
    /\ pc' = [pc EXCEPT ![h] = "stop"]
    /\ cont' = [cont EXCEPT ![h] = "exit"]
    /\ UNCHANGED <<svcVars, clientVars, schVars, srvVars, stateVars,
                   lockVars, mode>>

HandlerReturns(h) ==
    /\ stack # <<>> /\ h = Head(stack) /\ pc[h] = "exit"
    /\ stack' = Tail(stack)
    /\ UNCHANGED vars

\* The default handler: KeyboardInterrupt in the main thread, which goes on at
\* p.  The with-blocks it leaves release the component locks.
Raised(h, p) ==
    /\ stack = <<>> /\ Arrives(h, RaisePoints)
    /\ pc' = [pc EXCEPT ![h] = "raised", ![Main] = p]
    /\ cont' = [cont EXCEPT ![h] = "exit"]
    /\ schLock' = IF schLock = Main THEN NoOne ELSE schLock
    /\ srvLock' = IF srvLock = Main THEN NoOne ELSE srvLock
    /\ UNCHANGED <<clientVars, stateVars, stack>>

\* Where it goes when it leaves start(), wait() or stop(): to the finally
\* clause of run(), and from there out.
Escape == IF pc[Main] = "final" \/ cont[Main] = "exit" THEN "exit" ELSE "final"

\* In the try of start(): except BaseException rolls back.  Inside a
\* component's thread.start() its own except BaseException runs first, and the
\* new thread may already be running.
RaisedInStart(h) ==
    /\ pc[Main] \in TryLabels
    /\ Raised(h, "td_sched")
    /\ mode' = [mode EXCEPT ![Main] = "rollback"]
    /\ \/ UNCHANGED <<schVars, srvVars>>
       \/ /\ pc[Main] = "sched_start"
          /\ worker' \in {worker, "top"}
          /\ schThread' = FALSE /\ schRunning' = FALSE /\ stopEvent' = TRUE
          /\ UNCHANGED <<scheduler, srvVars>>
       \/ /\ pc[Main] = "srv_start"
          /\ serve' \in {serve, "created"}
          /\ srvThread' = FALSE /\ srvDone' = TRUE
          /\ socket' = "closed" /\ srvClosed' = TRUE
          /\ UNCHANGED <<shutReq, schVars>>
    /\ UNCHANGED <<svcVars, lock>>

\* In the try of stop(): `except Exception` does not catch it, the finally
\* clause runs.
RaisedInStop(h) ==
    /\ pc[Main] \in TearLabels \ {"td_finish"} /\ mode[Main] = "stop"
    /\ Raised(h, "td_finish")
    /\ UNCHANGED <<svcVars, lock, schVars, srvVars, mode>>

\* Where nothing catches it: it leaves the RLock, if it is in it, with what the
\* interrupted step has done so far.  start() and stop() set the lifecycle
\* before their try begins, and stop() and _rollback_start() end with two
\* assignments.
RaisedOutside(h) ==
    /\ \/ pc[Main] \in EntryLabels \cup {"begin", "td_finish"}
       \/ pc[Main] \in TearLabels /\ mode[Main] = "rollback"
    /\ Raised(h, Escape)
    /\ lock' = lock \ {Main}
    /\ \/ UNCHANGED svcVars
       \/ pc[Main] = "begin" /\ lifecycle' = "starting" /\ stopped' \in {stopped, FALSE}
       \/ /\ pc[Main] = "stop" /\ RLockFree(Main) /\ lifecycle # "stopped"
          /\ BeginStop /\ UNCHANGED stopped
       \/ pc[Main] = "td_finish" /\ lifecycle' = "stopped" /\ stopped' \in {stopped, TRUE}
    /\ UNCHANGED <<schVars, srvVars, mode>>

Signal(h) ==
    Deliver(h) \/ RaisedInStart(h) \/ RaisedInStop(h) \/ RaisedOutside(h)

\* Of the main thread's frames only the innermost runs.
Scheduled(a) == ThreadOf(a) = Main => a = Top

SignalNext ==
    \/ \E a \in Activities :
          Scheduled(a) /\ (Proceed(a) \/ Call(a)) /\ UNCHANGED stack
    \/ (WorkerStep \/ ServeStep \/ Exited) /\ UNCHANGED stack
    \/ \E h \in Handlers : Signal(h) \/ HandlerReturns(h)

SignalSpec == SignalInit /\ [][SignalNext]_signalVars

SignalFairness ==
    /\ \A a \in Activities :
          WF_signalVars(Scheduled(a) /\ Proceed(a) /\ UNCHANGED stack)
    /\ WF_signalVars(Scheduled(Main) /\ MainCalls /\ UNCHANGED stack)
    /\ \A h \in Handlers : WF_signalVars(HandlerReturns(h))
    /\ WF_signalVars(WorkerStep /\ UNCHANGED stack)
    /\ WF_signalVars((ServeEnter \/ (shutReq /\ ServeLeave) \/ ServeEnd)
                     /\ UNCHANGED stack)

FairSignalSpec == SignalSpec /\ SignalFairness

-----------------------------------------------------------------------------
\* The points where a signal finds the main thread not holding one of the two
\* non-reentrant component locks, between the steps of start() included, and
\* not between a look at the service's state and the assignment it is for
\* ("begin" and "td_mark").
SafePoints ==
    EntryLabels \cup TryLabels
        \cup {"td_sched", "td_join", "td_srv", "td_clear", "td_close",
              "td_shut", "td_finish"}

\* The client is closed once, however many stop() calls and roll-backs nest
\* on the main thread inside the reentrant lock, which keeps none of them out
\* of _close_client_once.
ClientClosedOnce == closes <= 1

\* A signal ends run(), whether its handler calls stop() or it raises
\* KeyboardInterrupt: nothing the interrupted code held blocks what follows.
SignalEndsRun ==
    \A h \in Handlers :
        cont[h] = "exit" ~> pc[Main] = "exit" /\ stack = <<>>

\* As long as no KeyboardInterrupt was raised, signals leave the promise of
\* stop() intact wherever they arrive, nested stop() calls included: where one
\* meets a component lock that its own thread holds the process hangs, but what
\* it says is true.  A stop() that the handler runs between two steps of start()
\* does not end that start(): it goes on in a service already "stopped" and may
\* still say "running".  Even so whoever takes the RLock and reads "stopped"
\* finds everything released, and so does run() when it returns.
HandledSignalsRelease ==
    (\A h \in Handlers : pc[h] # "raised") =>
        (lifecycle = "stopped" /\ lock = {} => Released /\ stopped)
=============================================================================
