------------------------ MODULE ServiceLifecycleProofs ------------------------
(***************************************************************************)
(* Theorems about ServiceLifecycle, for any number of callers and shutdown  *)
(* requests and any set of faults: the type invariant, the safety           *)
(* invariants of the run "lifecycle" through the inductive SafetyInv, and   *)
(* that it implements ServiceOwnership.  Then about Signals: the invariants *)
(* of the run "signals", for any number of signals at any points (the one   *)
(* about the close: but that between _client_closed's test and assignment). *)
(***************************************************************************)
EXTENDS Signals, TLAPS

\* The labels the actions use are labels.
LEMMA LabelsKnown ==
    ASSUME NEW a \in Activities
    PROVE  FailedStart(a) \in Labels /\ AfterWait(a) \in Labels
BY DEF FailedStart, AfterWait, Labels, IdleLabels, EntryLabels

\* ThreadOf, and so RLockFree, speaks of activities only.
LEMMA HandlersAreActivities == Handlers \subseteq Activities
BY DEF Activities

-----------------------------------------------------------------------------
(* Types.  The Boolean variables and the others need different provers.     *)

\* The Boolean variables stay Boolean: the first half of the type invariant.
LEMMA FlagsInvariant == Spec => []FlagsOK
<1> USE DEF FlagsOK
<1>1. Init => FlagsOK
  BY Zenon DEF Init
<1>2. FlagsOK /\ [Next]_vars => FlagsOK'
  <2> SUFFICES ASSUME FlagsOK, [Next]_vars PROVE FlagsOK'
    OBVIOUS
  <2> USE DEF svcVars, ownVars, clientVars, schVars, srvVars, stateVars, ctlVars,
            lockVars,
              WorkerGoes, ServeGoes
  <2>1. ASSUME NEW a \in Activities, StartEnter(a) PROVE FlagsOK'
    BY <2>1, ZenonT(90) DEF StartEnter, MayStart
  <2>2. ASSUME NEW a \in Activities, CreateClient(a) PROVE FlagsOK'
    BY <2>2 DEF CreateClient
  <2>3. ASSUME NEW a \in Activities, CreateServer(a) PROVE FlagsOK'
    BY <2>3, ZenonT(90) DEF CreateServer
  <2>4. ASSUME NEW a \in Activities, SchedStart(a) PROVE FlagsOK'
    BY <2>4, ZenonT(90) DEF SchedStart
  <2>5. ASSUME NEW a \in Activities, SrvStart(a) PROVE FlagsOK'
    BY <2>5, ZenonT(90) DEF SrvStart
  <2>6. ASSUME NEW a \in Activities, Capture(a) PROVE FlagsOK'
    BY <2>6, ZenonT(90) DEF Capture
  <2>7. ASSUME NEW a \in Activities, WriteState(a) PROVE FlagsOK'
    BY <2>7, ZenonT(90) DEF WriteState, WriteError
  <2>8. ASSUME NEW a \in Activities, Running(a) PROVE FlagsOK'
    BY <2>8 DEF Running
  <2>9. ASSUME NEW a \in Activities, StopEnter(a) PROVE FlagsOK'
    BY <2>9 DEF StopEnter, BeginStop
  <2>10. ASSUME NEW a \in Activities, TearSched(a) PROVE FlagsOK'
    BY <2>10 DEF TearSched
  <2>11. ASSUME NEW a \in Activities, TearSchedBody(a) PROVE FlagsOK'
    BY <2>11, ZenonT(90) DEF TearSchedBody, Interrupt
  <2>12. ASSUME NEW a \in Activities, TearJoin(a) PROVE FlagsOK'
    BY <2>12, ZenonT(90) DEF TearJoin, WorkerJoined
  <2>13. ASSUME NEW a \in Activities, TearSrv(a) PROVE FlagsOK'
    BY <2>13, ZenonT(90) DEF TearSrv, NothingToClose
  <2>14. ASSUME NEW a \in Activities, TearSrvJoin(a) PROVE FlagsOK'
    BY <2>14 DEF TearSrvJoin
  <2>15. ASSUME NEW a \in Activities, TearSrvClose(a) PROVE FlagsOK'
    BY <2>15 DEF TearSrvClose
  <2>16. ASSUME NEW a \in Activities, TearClear(a) PROVE FlagsOK'
    BY <2>16, ZenonT(90) DEF TearClear, ClearFailed
  <2>17. ASSUME NEW a \in Activities, TearClose(a) PROVE FlagsOK'
    BY <2>17 DEF TearClose, CloseNothing
  <2>18. ASSUME NEW a \in Activities, TearFinish(a) PROVE FlagsOK'
    BY <2>18 DEF TearFinish, EndStop
  <2>19. ASSUME NEW a \in Activities, Wait(a) PROVE FlagsOK'
    BY <2>19 DEF Wait
  <2>20. ASSUME NEW a \in Activities, WaitCheck(a) PROVE FlagsOK'
    BY <2>20 DEF WaitCheck, CallOf
  <2>21. ASSUME NEW a \in Activities, Final(a) PROVE FlagsOK'
    BY <2>21 DEF Final, CallOf
  <2>22. CASE WorkerTop
    BY <2>22 DEF WorkerTop
  <2>23. CASE WorkerCheck
    BY <2>23 DEF WorkerCheck
  <2>24. CASE WorkerWait
    BY <2>24 DEF WorkerWait
  <2>25. CASE WorkerExit
    BY <2>25, ZenonT(90) DEF WorkerExit
  <2>26. CASE ServeEnter
    BY <2>26 DEF ServeEnter
  <2>27. CASE ServeLeave
    BY <2>27, ZenonT(90) DEF ServeLeave
  <2>28. CASE ServeEnd
    BY <2>28 DEF ServeEnd, SetDone
  <2>29. ASSUME NEW a \in Activities, Call(a) PROVE FlagsOK'
    BY <2>29 DEF Call, MainCalls, CallerCalls, RequestArrives, CallOf
  <2>30. CASE Exited \/ UNCHANGED vars
    BY <2>30 DEF Exited, vars
  <2>31. ASSUME NEW a \in Activities, Begin(a) PROVE FlagsOK'
    BY <2>31, ZenonT(90) DEF Begin
  <2>32. ASSUME NEW a \in Activities, TearMark(a) PROVE FlagsOK'
    BY <2>32, ZenonT(90) DEF TearMark
  <2>33. ASSUME NEW a \in Activities, TearShut(a) PROVE FlagsOK'
    BY <2>33, ZenonT(90) DEF TearShut
  <2> QED
    BY <2>1, <2>2, <2>3, <2>4, <2>5, <2>6, <2>7, <2>8, <2>9, <2>10, <2>11, <2>12,
       <2>13, <2>14, <2>15, <2>16, <2>17, <2>18, <2>19, <2>20, <2>21, <2>22, <2>23,
       <2>24, <2>25, <2>26, <2>27, <2>28, <2>29, <2>30, <2>31, <2>32, <2>33
       DEF Next, Proceed, StartStep, TearStep, WorkerStep, ServeStep
<1> QED
  BY <1>1, <1>2, PTL DEF Spec

\* A step keeps the other variables in their types.
LEMMA ValuesStep == ValuesOK /\ [Next]_vars => ValuesOK'
<1> SUFFICES ASSUME ValuesOK, [Next]_vars PROVE ValuesOK'
  OBVIOUS
<1> USE DEF ValuesOK, Holders, Lifecycles, Workers, Serves,
            svcVars, ownVars, clientVars, schVars, srvVars, stateVars, ctlVars,
            lockVars, WorkerGoes, ServeGoes,
            Goto, Return, Advance, Rollback, Labels, IdleLabels, EntryLabels,
            StartLabels, TryLabels, TearLabels
<1>1. ASSUME NEW a \in Activities, StartEnter(a) PROVE ValuesOK'
  BY <1>1, LabelsKnown DEF StartEnter, MayStart
<1>2. ASSUME NEW a \in Activities, CreateClient(a) PROVE ValuesOK'
  BY <1>2, LabelsKnown DEF CreateClient
<1>3. ASSUME NEW a \in Activities, CreateServer(a) PROVE ValuesOK'
  BY <1>3, LabelsKnown DEF CreateServer
<1>4. ASSUME NEW a \in Activities, SchedStart(a) PROVE ValuesOK'
  BY <1>4, LabelsKnown DEF SchedStart
<1>5. ASSUME NEW a \in Activities, SrvStart(a) PROVE ValuesOK'
  BY <1>5, LabelsKnown DEF SrvStart
<1>6. ASSUME NEW a \in Activities, Capture(a) PROVE ValuesOK'
  BY <1>6, LabelsKnown DEF Capture
<1>7. ASSUME NEW a \in Activities, WriteState(a) PROVE ValuesOK'
  BY <1>7, LabelsKnown DEF WriteState, WriteError
<1>8. ASSUME NEW a \in Activities, Running(a) PROVE ValuesOK'
  BY <1>8, LabelsKnown DEF Running
<1>9. ASSUME NEW a \in Activities, StopEnter(a) PROVE ValuesOK'
  BY <1>9, LabelsKnown DEF StopEnter, BeginStop
<1>10. ASSUME NEW a \in Activities, TearSched(a) PROVE ValuesOK'
  BY <1>10, LabelsKnown DEF TearSched
<1>11. ASSUME NEW a \in Activities, TearSchedBody(a) PROVE ValuesOK'
  BY <1>11, LabelsKnown DEF TearSchedBody, Interrupt
<1>12. ASSUME NEW a \in Activities, TearJoin(a) PROVE ValuesOK'
  BY <1>12, LabelsKnown DEF TearJoin, WorkerJoined
<1>13. ASSUME NEW a \in Activities, TearSrv(a) PROVE ValuesOK'
  BY <1>13, LabelsKnown DEF TearSrv, NothingToClose
<1>14. ASSUME NEW a \in Activities, TearSrvJoin(a) PROVE ValuesOK'
  BY <1>14, LabelsKnown DEF TearSrvJoin
<1>15. ASSUME NEW a \in Activities, TearSrvClose(a) PROVE ValuesOK'
  BY <1>15, LabelsKnown DEF TearSrvClose
<1>16. ASSUME NEW a \in Activities, TearClear(a) PROVE ValuesOK'
  BY <1>16, LabelsKnown DEF TearClear, ClearFailed
<1>17. ASSUME NEW a \in Activities, TearClose(a) PROVE ValuesOK'
  BY <1>17, LabelsKnown DEF TearClose, CloseNothing
<1>18. ASSUME NEW a \in Activities, TearFinish(a) PROVE ValuesOK'
  BY <1>18, LabelsKnown DEF TearFinish, EndStop
<1>19. ASSUME NEW a \in Activities, Wait(a) PROVE ValuesOK'
  BY <1>19, LabelsKnown DEF Wait
<1>20. ASSUME NEW a \in Activities, WaitCheck(a) PROVE ValuesOK'
  BY <1>20, LabelsKnown DEF WaitCheck, CallOf
<1>21. ASSUME NEW a \in Activities, Final(a) PROVE ValuesOK'
  BY <1>21, LabelsKnown DEF Final, CallOf
<1>22. CASE WorkerTop
  BY <1>22 DEF WorkerTop
<1>23. CASE WorkerCheck
  BY <1>23 DEF WorkerCheck
<1>24. CASE WorkerWait
  BY <1>24 DEF WorkerWait
<1>25. CASE WorkerExit
  BY <1>25 DEF WorkerExit
<1>26. CASE ServeEnter
  BY <1>26 DEF ServeEnter
<1>27. CASE ServeLeave
  BY <1>27 DEF ServeLeave
<1>28. CASE ServeEnd
  BY <1>28 DEF ServeEnd, SetDone
<1>29. ASSUME NEW a \in Activities, Call(a) PROVE ValuesOK'
  BY <1>29 DEF Call, MainCalls, CallerCalls, RequestArrives, CallOf
<1>30. CASE Exited \/ UNCHANGED vars
  BY <1>30 DEF Exited, vars
<1>31. ASSUME NEW a \in Activities, Begin(a) PROVE ValuesOK'
  BY <1>31 DEF Begin
<1>32. ASSUME NEW a \in Activities, TearMark(a) PROVE ValuesOK'
  BY <1>32 DEF TearMark
<1>33. ASSUME NEW a \in Activities, TearShut(a) PROVE ValuesOK'
  BY <1>33 DEF TearShut
<1> QED
  BY <1>1, <1>2, <1>3, <1>4, <1>5, <1>6, <1>7, <1>8, <1>9, <1>10, <1>11, <1>12,
     <1>13, <1>14, <1>15, <1>16, <1>17, <1>18, <1>19, <1>20, <1>21, <1>22, <1>23,
     <1>24, <1>25, <1>26, <1>27, <1>28, <1>29, <1>30, <1>31, <1>32, <1>33
     DEF Next, Proceed, StartStep, TearStep, WorkerStep, ServeStep

\* The second half of the type invariant.
LEMMA ValuesInvariant == Spec => []ValuesOK
<1>1. Init => ValuesOK
  BY DistinctActivities DEF Init, Labels, IdleLabels, ValuesOK, Holders, Lifecycles, Workers, Serves
<1> QED
  BY <1>1, ValuesStep, PTL DEF Spec

\* Every variable of the service and its components keeps to its type.
THEOREM TypeInvariant == Spec => []TypeOK
BY FlagsInvariant, ValuesInvariant, PTL DEF TypeOK

-----------------------------------------------------------------------------
(* The inductive invariant behind StoppedMeansReleased, ClientOutlivesUsers *)
(* and RunningIsWhole: where the one activity inside the RLock is tells     *)
(* what has been acquired and what has been let go.                         *)

InCall(a) == pc[a] \in StartLabels \cup TearLabels

LockInv ==
    /\ \A h \in Handlers : pc[h] = "idle"
    /\ \A a \in Activities : a \in lock <=> InCall(a)
    /\ \A a, b \in lock : a = b

PhaseInv ==
    /\ lock = {} => lifecycle \in {"new", "running", "stopped"}
    /\ \A a \in Activities :
          /\ pc[a] = "begin" => lifecycle = "new"
          /\ pc[a] \in TryLabels => lifecycle = "starting" /\ ~stopped
          /\ pc[a] \in TearLabels  => lifecycle \in {"starting", "stopping"}

\* Somebody has set _client_closed and is about to call close().
Shutting == \E a \in Activities : pc[a] = "td_shut"

PartsInv ==
    /\ WorkerAlive => scheduler /\ schThread
    /\ ServeAlive  => srvThread /\ ~srvClosed /\ socket # "none"
    /\ srvClosed => socket = "closed"
    /\ stateFile => stateOwner
    /\ client # "closed" /\ clientClosed => Shutting
    /\ ClientOutlivesUsers

Untouched ==
    /\ worker = "none" /\ serve = "none" /\ socket = "none"
    /\ ~scheduler /\ ~srvThread /\ ~srvClosed
WorkerUp == worker \in {"top", "busy", "waiting"} /\ ~stopEvent
ServerUp == socket = "bound" \/ serve \in {"left", "dead"}

StartInv ==
    \A a \in Activities :
        /\ pc[a] \in {"create_client", "create_server"} => Untouched
        /\ pc[a] = "create_client" => client # "closed"
        /\ pc[a] \in TryLabels \ {"create_client"} => client = "open"
        /\ pc[a] = "sched_start" => worker = "none"
        /\ pc[a] \in {"sched_start", "srv_start"} =>
              /\ scheduler /\ socket = "bound"
              /\ serve = "none" /\ ~srvThread /\ ~srvClosed
        /\ pc[a] \in {"srv_start", "capture", "write_state", "running"} => WorkerUp
        /\ pc[a] \in {"capture", "write_state", "running"} => ServerUp
        /\ pc[a] \in {"write_state", "running"} => stateOwner
        /\ pc[a] = "running" => stateFile

TearInv ==
    \A a \in Activities :
        /\ pc[a] \in TearLabels \ {"td_sched", "td_sched_body", "td_join"} =>
              ~WorkerAlive
        /\ pc[a] \in {"td_srv_close", "td_clear", "td_close", "td_mark", "td_shut",
                     "td_finish"} => ~ServeAlive
        /\ pc[a] \in {"td_clear", "td_close", "td_mark", "td_shut", "td_finish"} =>
              socket # "bound"
        /\ pc[a] \in {"td_close", "td_mark", "td_shut", "td_finish"} =>
              "clear" \in Faults \/ ~stateFile
        /\ pc[a] = "td_finish" => client # "open" \/ Shutting

RestInv ==
    /\ lifecycle = "new" => Untouched /\ client # "closed" /\ ~stateFile
    /\ lifecycle = "running" =>
          client = "open" /\ WorkerUp /\ ServerUp /\ stateFile
    /\ StoppedMeansReleased

SafetyInv == LockInv /\ PhaseInv /\ PartsInv /\ StartInv /\ TearInv /\ RestInv

\* The inductive invariant holds of a service that has not been started.
LEMMA SafetyInvInit == Init => SafetyInv
<1> SUFFICES ASSUME Init PROVE SafetyInv
  OBVIOUS
<1> USE DEF Init, StartLabels, TryLabels, TearLabels, WorkerAlive, ServeAlive
<1>1. LockInv /\ PhaseInv
  BY HandlersAreActivities DEF LockInv, PhaseInv, InCall
<1>2. PartsInv
  BY DEF PartsInv, ClientOutlivesUsers
<1>3. StartInv /\ TearInv
  BY DEF StartInv, TearInv
<1>4. RestInv
  BY DEF RestInv, Untouched, StoppedMeansReleased, Released
<1> QED
  BY <1>1, <1>2, <1>3, <1>4 DEF SafetyInv

\* A step inside a call: the activities in the RLock stay the same.
LEMMA MoveInside ==
    ASSUME ValuesOK, LockInv, NEW a \in Activities, InCall(a),
           NEW p \in StartLabels \cup TearLabels,
           pc' = [pc EXCEPT ![a] = p], lock' = lock
    PROVE  LockInv'
BY HandlersAreActivities
   DEF LockInv, InCall, ValuesOK, Labels, IdleLabels, StartLabels, TryLabels, TearLabels

\* Every step of every thread preserves it: one case per action.
LEMMA SafetyInvStep == ValuesOK /\ SafetyInv /\ [Next]_vars => SafetyInv'
<1> SUFFICES ASSUME ValuesOK, SafetyInv, [Next]_vars PROVE SafetyInv'
  OBVIOUS
<1> USE DEF svcVars, ownVars, clientVars, schVars, srvVars, stateVars, ctlVars,
            lockVars,
            Goto, Return, Advance, Rollback, FailedStart, AfterWait, WorkerGoes, ServeGoes,
            ValuesOK, Labels, IdleLabels, EntryLabels, StartLabels, TryLabels, TearLabels,
            Lifecycles, Workers, Serves, WorkerAlive, ServeAlive,
            InCall, Untouched, WorkerUp, ServerUp, Shutting
<1>1. ASSUME NEW a \in Activities, StartEnter(a) PROVE SafetyInv'
  <2> USE <1>1 DEF StartEnter, MayStart
  <2>1. LockInv'
    <3>1. \A h \in Handlers : pc'[h] = "idle"
      BY HandlersAreActivities DEF SafetyInv, LockInv
    <3>2. \A b \in Activities : b \in lock' <=> InCall(b)'
      BY DEF SafetyInv, LockInv
    <3>3. \A b, c \in lock' : b = c
      BY <3>2 DEF SafetyInv, LockInv, RLockFree, ThreadOf
    <3> QED
      BY <3>1, <3>2, <3>3 DEF LockInv
  <2>2. PhaseInv'
    BY <2>1 DEF SafetyInv, LockInv, PhaseInv, RLockFree, ThreadOf
  <2>3. PartsInv'
    BY DEF SafetyInv, LockInv, PartsInv, StartInv, TearInv, ClientOutlivesUsers
  <2>4. StartInv'
    BY <2>1 DEF SafetyInv, LockInv, StartInv, PhaseInv, RestInv
  <2>5. TearInv'
    BY <2>1 DEF SafetyInv, LockInv, TearInv, PartsInv, PhaseInv
  <2>6. RestInv'
    BY <2>1, <2>2 DEF SafetyInv, LockInv, PhaseInv, PartsInv, StartInv, TearInv, RestInv,
                StoppedMeansReleased, Released
  <2> QED
    BY <2>1, <2>2, <2>3, <2>4, <2>5, <2>6 DEF SafetyInv
<1>2. ASSUME NEW a \in Activities, CreateClient(a) PROVE SafetyInv'
  <2> USE <1>2 DEF CreateClient
  <2>1. LockInv'
    BY MoveInside DEF SafetyInv
  <2>2. PhaseInv'
    BY <2>1 DEF SafetyInv, LockInv, PhaseInv, RLockFree, ThreadOf
  <2>3. PartsInv'
    BY DEF SafetyInv, LockInv, PartsInv, StartInv, TearInv, ClientOutlivesUsers
  <2>4. StartInv'
    BY <2>1 DEF SafetyInv, LockInv, StartInv, PhaseInv, RestInv
  <2>5. TearInv'
    BY <2>1 DEF SafetyInv, LockInv, TearInv, PartsInv, PhaseInv
  <2>6. RestInv'
    BY <2>1, <2>2 DEF SafetyInv, LockInv, PhaseInv, PartsInv, StartInv, TearInv, RestInv,
                StoppedMeansReleased, Released
  <2> QED
    BY <2>1, <2>2, <2>3, <2>4, <2>5, <2>6 DEF SafetyInv
<1>3. ASSUME NEW a \in Activities, CreateServer(a) PROVE SafetyInv'
  <2> USE <1>3 DEF CreateServer
  <2>1. LockInv'
    BY MoveInside DEF SafetyInv
  <2>2. PhaseInv'
    BY <2>1 DEF SafetyInv, LockInv, PhaseInv, RLockFree, ThreadOf
  <2>3. PartsInv'
    BY DEF SafetyInv, LockInv, PartsInv, StartInv, TearInv, ClientOutlivesUsers
  <2>4. StartInv'
    BY <2>1 DEF SafetyInv, LockInv, StartInv, PhaseInv, RestInv
  <2>5. TearInv'
    BY <2>1 DEF SafetyInv, LockInv, TearInv, PartsInv, PhaseInv
  <2>6. RestInv'
    BY <2>1, <2>2 DEF SafetyInv, LockInv, PhaseInv, PartsInv, StartInv, TearInv, RestInv,
                StoppedMeansReleased, Released
  <2> QED
    BY <2>1, <2>2, <2>3, <2>4, <2>5, <2>6 DEF SafetyInv
<1>4. ASSUME NEW a \in Activities, SchedStart(a) PROVE SafetyInv'
  <2> USE <1>4 DEF SchedStart
  <2>1. LockInv'
    BY MoveInside DEF SafetyInv
  <2>2. PhaseInv'
    BY <2>1 DEF SafetyInv, LockInv, PhaseInv, RLockFree, ThreadOf
  <2>3. PartsInv'
    BY DEF SafetyInv, LockInv, PartsInv, StartInv, TearInv, ClientOutlivesUsers
  <2>4. StartInv'
    BY <2>1 DEF SafetyInv, LockInv, StartInv, PhaseInv, RestInv
  <2>5. TearInv'
    BY <2>1 DEF SafetyInv, LockInv, TearInv, PartsInv, PhaseInv
  <2>6. RestInv'
    BY <2>1, <2>2 DEF SafetyInv, LockInv, PhaseInv, PartsInv, StartInv, TearInv, RestInv,
                StoppedMeansReleased, Released
  <2> QED
    BY <2>1, <2>2, <2>3, <2>4, <2>5, <2>6 DEF SafetyInv
<1>5. ASSUME NEW a \in Activities, SrvStart(a) PROVE SafetyInv'
  <2> USE <1>5 DEF SrvStart
  <2>1. LockInv'
    BY MoveInside DEF SafetyInv
  <2>2. PhaseInv'
    BY <2>1 DEF SafetyInv, LockInv, PhaseInv, RLockFree, ThreadOf
  <2>3. PartsInv'
    BY DEF SafetyInv, LockInv, PartsInv, StartInv, TearInv, ClientOutlivesUsers
  <2>4. StartInv'
    BY <2>1 DEF SafetyInv, LockInv, StartInv, PhaseInv, RestInv
  <2>5. TearInv'
    BY <2>1 DEF SafetyInv, LockInv, TearInv, PartsInv, PhaseInv
  <2>6. RestInv'
    BY <2>1, <2>2 DEF SafetyInv, LockInv, PhaseInv, PartsInv, StartInv, TearInv, RestInv,
                StoppedMeansReleased, Released
  <2> QED
    BY <2>1, <2>2, <2>3, <2>4, <2>5, <2>6 DEF SafetyInv
<1>6. ASSUME NEW a \in Activities, Capture(a) PROVE SafetyInv'
  <2> USE <1>6 DEF Capture
  <2>1. LockInv'
    BY MoveInside DEF SafetyInv
  <2>2. PhaseInv'
    BY <2>1 DEF SafetyInv, LockInv, PhaseInv, RLockFree, ThreadOf
  <2>3. PartsInv'
    BY DEF SafetyInv, LockInv, PartsInv, StartInv, TearInv, ClientOutlivesUsers
  <2>4. StartInv'
    BY <2>1 DEF SafetyInv, LockInv, StartInv, PhaseInv, RestInv
  <2>5. TearInv'
    BY <2>1 DEF SafetyInv, LockInv, TearInv, PartsInv, PhaseInv
  <2>6. RestInv'
    BY <2>1, <2>2 DEF SafetyInv, LockInv, PhaseInv, PartsInv, StartInv, TearInv, RestInv,
                StoppedMeansReleased, Released
  <2> QED
    BY <2>1, <2>2, <2>3, <2>4, <2>5, <2>6 DEF SafetyInv
<1>7. ASSUME NEW a \in Activities, WriteState(a) PROVE SafetyInv'
  <2> USE <1>7 DEF WriteState, WriteError
  <2>1. LockInv'
    BY MoveInside DEF SafetyInv
  <2>2. PhaseInv'
    BY <2>1 DEF SafetyInv, LockInv, PhaseInv, RLockFree, ThreadOf
  <2>3. PartsInv'
    BY DEF SafetyInv, LockInv, PartsInv, StartInv, TearInv, ClientOutlivesUsers
  <2>4. StartInv'
    BY <2>1 DEF SafetyInv, LockInv, StartInv, PhaseInv, RestInv
  <2>5. TearInv'
    BY <2>1 DEF SafetyInv, LockInv, TearInv, PartsInv, PhaseInv
  <2>6. RestInv'
    BY <2>1, <2>2 DEF SafetyInv, LockInv, PhaseInv, PartsInv, StartInv, TearInv, RestInv,
                StoppedMeansReleased, Released
  <2> QED
    BY <2>1, <2>2, <2>3, <2>4, <2>5, <2>6 DEF SafetyInv
<1>8. ASSUME NEW a \in Activities, Running(a) PROVE SafetyInv'
  <2> USE <1>8 DEF Running
  <2>1. LockInv'
    <3>1. \A h \in Handlers : pc'[h] = "idle"
      BY HandlersAreActivities DEF SafetyInv, LockInv
    <3>2. \A b \in Activities : b \in lock' <=> InCall(b)'
      BY DEF SafetyInv, LockInv
    <3>3. \A b, c \in lock' : b = c
      BY <3>2 DEF SafetyInv, LockInv, RLockFree, ThreadOf
    <3> QED
      BY <3>1, <3>2, <3>3 DEF LockInv
  <2>2. PhaseInv'
    BY <2>1 DEF SafetyInv, LockInv, PhaseInv, RLockFree, ThreadOf
  <2>3. PartsInv'
    BY DEF SafetyInv, LockInv, PartsInv, StartInv, TearInv, ClientOutlivesUsers
  <2>4. StartInv'
    BY <2>1 DEF SafetyInv, LockInv, StartInv, PhaseInv, RestInv
  <2>5. TearInv'
    BY <2>1 DEF SafetyInv, LockInv, TearInv, PartsInv, PhaseInv
  <2>6. RestInv'
    BY <2>1, <2>2 DEF SafetyInv, LockInv, PhaseInv, PartsInv, StartInv, TearInv, RestInv,
                StoppedMeansReleased, Released
  <2> QED
    BY <2>1, <2>2, <2>3, <2>4, <2>5, <2>6 DEF SafetyInv
<1>9. ASSUME NEW a \in Activities, StopEnter(a) PROVE SafetyInv'
  <2> USE <1>9 DEF StopEnter, BeginStop
  <2>1. LockInv'
    <3>1. \A h \in Handlers : pc'[h] = "idle"
      BY HandlersAreActivities DEF SafetyInv, LockInv
    <3>2. \A b \in Activities : b \in lock' <=> InCall(b)'
      BY DEF SafetyInv, LockInv
    <3>3. \A b, c \in lock' : b = c
      BY <3>2 DEF SafetyInv, LockInv, RLockFree, ThreadOf
    <3> QED
      BY <3>1, <3>2, <3>3 DEF LockInv
  <2>2. PhaseInv'
    BY <2>1 DEF SafetyInv, LockInv, PhaseInv, RLockFree, ThreadOf
  <2>3. PartsInv'
    BY DEF SafetyInv, LockInv, PartsInv, StartInv, TearInv, ClientOutlivesUsers
  <2>4. StartInv'
    BY <2>1 DEF SafetyInv, LockInv, StartInv, PhaseInv, RestInv
  <2>5. TearInv'
    BY <2>1 DEF SafetyInv, LockInv, TearInv, PartsInv, PhaseInv
  <2>6. RestInv'
    BY <2>1, <2>2 DEF SafetyInv, LockInv, PhaseInv, PartsInv, StartInv, TearInv, RestInv,
                StoppedMeansReleased, Released
  <2> QED
    BY <2>1, <2>2, <2>3, <2>4, <2>5, <2>6 DEF SafetyInv
<1>10. ASSUME NEW a \in Activities, TearSched(a) PROVE SafetyInv'
  <2> USE <1>10 DEF TearSched
  <2>1. LockInv'
    BY MoveInside DEF SafetyInv
  <2>2. PhaseInv'
    BY <2>1 DEF SafetyInv, LockInv, PhaseInv, RLockFree, ThreadOf
  <2>3. PartsInv'
    BY DEF SafetyInv, LockInv, PartsInv, StartInv, TearInv, ClientOutlivesUsers
  <2>4. StartInv'
    BY <2>1 DEF SafetyInv, LockInv, StartInv, PhaseInv, RestInv
  <2>5. TearInv'
    BY <2>1 DEF SafetyInv, LockInv, TearInv, PartsInv, PhaseInv
  <2>6. RestInv'
    BY <2>1, <2>2 DEF SafetyInv, LockInv, PhaseInv, PartsInv, StartInv, TearInv, RestInv,
                StoppedMeansReleased, Released
  <2> QED
    BY <2>1, <2>2, <2>3, <2>4, <2>5, <2>6 DEF SafetyInv
<1>11. ASSUME NEW a \in Activities, TearSchedBody(a) PROVE SafetyInv'
  <2> USE <1>11 DEF TearSchedBody, Interrupt
  <2>1. LockInv'
    BY MoveInside DEF SafetyInv
  <2>2. PhaseInv'
    BY <2>1 DEF SafetyInv, LockInv, PhaseInv, RLockFree, ThreadOf
  <2>3. PartsInv'
    BY DEF SafetyInv, LockInv, PartsInv, StartInv, TearInv, ClientOutlivesUsers
  <2>4. StartInv'
    BY <2>1 DEF SafetyInv, LockInv, StartInv, PhaseInv, RestInv
  <2>5. TearInv'
    BY <2>1 DEF SafetyInv, LockInv, TearInv, PartsInv, PhaseInv
  <2>6. RestInv'
    BY <2>1, <2>2 DEF SafetyInv, LockInv, PhaseInv, PartsInv, StartInv, TearInv, RestInv,
                StoppedMeansReleased, Released
  <2> QED
    BY <2>1, <2>2, <2>3, <2>4, <2>5, <2>6 DEF SafetyInv
<1>12. ASSUME NEW a \in Activities, TearJoin(a) PROVE SafetyInv'
  <2> USE <1>12 DEF TearJoin, WorkerJoined
  <2>1. LockInv'
    BY MoveInside DEF SafetyInv
  <2>2. PhaseInv'
    BY <2>1 DEF SafetyInv, LockInv, PhaseInv, RLockFree, ThreadOf
  <2>3. PartsInv'
    BY DEF SafetyInv, LockInv, PartsInv, StartInv, TearInv, ClientOutlivesUsers
  <2>4. StartInv'
    BY <2>1 DEF SafetyInv, LockInv, StartInv, PhaseInv, RestInv
  <2>5. TearInv'
    BY <2>1 DEF SafetyInv, LockInv, TearInv, PartsInv, PhaseInv
  <2>6. RestInv'
    BY <2>1, <2>2 DEF SafetyInv, LockInv, PhaseInv, PartsInv, StartInv, TearInv, RestInv,
                StoppedMeansReleased, Released
  <2> QED
    BY <2>1, <2>2, <2>3, <2>4, <2>5, <2>6 DEF SafetyInv
<1>13. ASSUME NEW a \in Activities, TearSrv(a) PROVE SafetyInv'
  <2> USE <1>13 DEF TearSrv, NothingToClose
  <2>1. LockInv'
    BY MoveInside DEF SafetyInv
  <2>2. PhaseInv'
    BY <2>1 DEF SafetyInv, LockInv, PhaseInv, RLockFree, ThreadOf
  <2>3. PartsInv'
    BY DEF SafetyInv, LockInv, PartsInv, StartInv, TearInv, ClientOutlivesUsers
  <2>4. StartInv'
    BY <2>1 DEF SafetyInv, LockInv, StartInv, PhaseInv, RestInv
  <2>5. TearInv'
    BY <2>1 DEF SafetyInv, LockInv, TearInv, PartsInv, PhaseInv
  <2>6. RestInv'
    BY <2>1, <2>2 DEF SafetyInv, LockInv, PhaseInv, PartsInv, StartInv, TearInv, RestInv,
                StoppedMeansReleased, Released
  <2> QED
    BY <2>1, <2>2, <2>3, <2>4, <2>5, <2>6 DEF SafetyInv
<1>14. ASSUME NEW a \in Activities, TearSrvJoin(a) PROVE SafetyInv'
  <2> USE <1>14 DEF TearSrvJoin
  <2>1. LockInv'
    BY MoveInside DEF SafetyInv
  <2>2. PhaseInv'
    BY <2>1 DEF SafetyInv, LockInv, PhaseInv, RLockFree, ThreadOf
  <2>3. PartsInv'
    BY DEF SafetyInv, LockInv, PartsInv, StartInv, TearInv, ClientOutlivesUsers
  <2>4. StartInv'
    BY <2>1 DEF SafetyInv, LockInv, StartInv, PhaseInv, RestInv
  <2>5. TearInv'
    BY <2>1 DEF SafetyInv, LockInv, TearInv, PartsInv, PhaseInv
  <2>6. RestInv'
    BY <2>1, <2>2 DEF SafetyInv, LockInv, PhaseInv, PartsInv, StartInv, TearInv, RestInv,
                StoppedMeansReleased, Released
  <2> QED
    BY <2>1, <2>2, <2>3, <2>4, <2>5, <2>6 DEF SafetyInv
<1>15. ASSUME NEW a \in Activities, TearSrvClose(a) PROVE SafetyInv'
  <2> USE <1>15 DEF TearSrvClose
  <2>1. LockInv'
    BY MoveInside DEF SafetyInv
  <2>2. PhaseInv'
    BY <2>1 DEF SafetyInv, LockInv, PhaseInv, RLockFree, ThreadOf
  <2>3. PartsInv'
    BY DEF SafetyInv, LockInv, PartsInv, StartInv, TearInv, ClientOutlivesUsers
  <2>4. StartInv'
    BY <2>1 DEF SafetyInv, LockInv, StartInv, PhaseInv, RestInv
  <2>5. TearInv'
    BY <2>1 DEF SafetyInv, LockInv, TearInv, PartsInv, PhaseInv
  <2>6. RestInv'
    BY <2>1, <2>2 DEF SafetyInv, LockInv, PhaseInv, PartsInv, StartInv, TearInv, RestInv,
                StoppedMeansReleased, Released
  <2> QED
    BY <2>1, <2>2, <2>3, <2>4, <2>5, <2>6 DEF SafetyInv
<1>16. ASSUME NEW a \in Activities, TearClear(a) PROVE SafetyInv'
  <2> USE <1>16 DEF TearClear, ClearFailed
  <2>1. LockInv'
    BY MoveInside DEF SafetyInv
  <2>2. PhaseInv'
    BY <2>1 DEF SafetyInv, LockInv, PhaseInv, RLockFree, ThreadOf
  <2>3. PartsInv'
    BY DEF SafetyInv, LockInv, PartsInv, StartInv, TearInv, ClientOutlivesUsers
  <2>4. StartInv'
    BY <2>1 DEF SafetyInv, LockInv, StartInv, PhaseInv, RestInv
  <2>5. TearInv'
    BY <2>1 DEF SafetyInv, LockInv, TearInv, PartsInv, PhaseInv
  <2>6. RestInv'
    BY <2>1, <2>2 DEF SafetyInv, LockInv, PhaseInv, PartsInv, StartInv, TearInv, RestInv,
                StoppedMeansReleased, Released
  <2> QED
    BY <2>1, <2>2, <2>3, <2>4, <2>5, <2>6 DEF SafetyInv
<1>17. ASSUME NEW a \in Activities, TearClose(a) PROVE SafetyInv'
  <2> USE <1>17 DEF TearClose, CloseNothing
  <2>1. LockInv'
    BY MoveInside DEF SafetyInv
  <2>2. PhaseInv'
    BY <2>1 DEF SafetyInv, LockInv, PhaseInv, RLockFree, ThreadOf
  <2>3. PartsInv'
    BY DEF SafetyInv, LockInv, PartsInv, StartInv, TearInv, ClientOutlivesUsers
  <2>4. StartInv'
    BY <2>1 DEF SafetyInv, LockInv, StartInv, PhaseInv, RestInv
  <2>5. TearInv'
    BY <2>1 DEF SafetyInv, LockInv, TearInv, PartsInv, PhaseInv
  <2>6. RestInv'
    BY <2>1, <2>2 DEF SafetyInv, LockInv, PhaseInv, PartsInv, StartInv, TearInv, RestInv,
                StoppedMeansReleased, Released
  <2> QED
    BY <2>1, <2>2, <2>3, <2>4, <2>5, <2>6 DEF SafetyInv
<1>18. ASSUME NEW a \in Activities, TearFinish(a) PROVE SafetyInv'
  <2> USE <1>18 DEF TearFinish, EndStop
  <2>1. LockInv'
    <3>1. \A h \in Handlers : pc'[h] = "idle"
      BY HandlersAreActivities DEF SafetyInv, LockInv
    <3>2. \A b \in Activities : b \in lock' <=> InCall(b)'
      BY DEF SafetyInv, LockInv
    <3>3. \A b, c \in lock' : b = c
      BY <3>2 DEF SafetyInv, LockInv, RLockFree, ThreadOf
    <3> QED
      BY <3>1, <3>2, <3>3 DEF LockInv
  <2>2. PhaseInv'
    BY <2>1 DEF SafetyInv, LockInv, PhaseInv, RLockFree, ThreadOf
  <2>3. PartsInv'
    BY DEF SafetyInv, LockInv, PartsInv, StartInv, TearInv, ClientOutlivesUsers
  <2>4. StartInv'
    BY <2>1 DEF SafetyInv, LockInv, StartInv, PhaseInv, RestInv
  <2>5. TearInv'
    BY <2>1 DEF SafetyInv, LockInv, TearInv, PartsInv, PhaseInv
  <2>6. RestInv'
    BY <2>1, <2>2 DEF SafetyInv, LockInv, PhaseInv, PartsInv, StartInv, TearInv, RestInv,
                StoppedMeansReleased, Released
  <2> QED
    BY <2>1, <2>2, <2>3, <2>4, <2>5, <2>6 DEF SafetyInv
<1>19. ASSUME NEW a \in Activities, Wait(a) PROVE SafetyInv'
  <2> USE <1>19 DEF Wait
  <2>1. LockInv'
    <3>1. \A h \in Handlers : pc'[h] = "idle"
      BY HandlersAreActivities DEF SafetyInv, LockInv
    <3>2. \A b \in Activities : b \in lock' <=> InCall(b)'
      BY DEF SafetyInv, LockInv
    <3>3. \A b, c \in lock' : b = c
      BY <3>2 DEF SafetyInv, LockInv, RLockFree, ThreadOf
    <3> QED
      BY <3>1, <3>2, <3>3 DEF LockInv
  <2>2. PhaseInv'
    BY <2>1 DEF SafetyInv, LockInv, PhaseInv, RLockFree, ThreadOf
  <2>3. PartsInv'
    BY DEF SafetyInv, LockInv, PartsInv, StartInv, TearInv, ClientOutlivesUsers
  <2>4. StartInv'
    BY <2>1 DEF SafetyInv, LockInv, StartInv, PhaseInv, RestInv
  <2>5. TearInv'
    BY <2>1 DEF SafetyInv, LockInv, TearInv, PartsInv, PhaseInv
  <2>6. RestInv'
    BY <2>1, <2>2 DEF SafetyInv, LockInv, PhaseInv, PartsInv, StartInv, TearInv, RestInv,
                StoppedMeansReleased, Released
  <2> QED
    BY <2>1, <2>2, <2>3, <2>4, <2>5, <2>6 DEF SafetyInv
<1>20. ASSUME NEW a \in Activities, WaitCheck(a) PROVE SafetyInv'
  <2> USE <1>20 DEF WaitCheck, CallOf
  <2>1. LockInv'
    <3>1. \A h \in Handlers : pc'[h] = "idle"
      BY HandlersAreActivities DEF SafetyInv, LockInv
    <3>2. \A b \in Activities : b \in lock' <=> InCall(b)'
      BY DEF SafetyInv, LockInv
    <3>3. \A b, c \in lock' : b = c
      BY <3>2 DEF SafetyInv, LockInv, RLockFree, ThreadOf
    <3> QED
      BY <3>1, <3>2, <3>3 DEF LockInv
  <2>2. PhaseInv'
    BY <2>1 DEF SafetyInv, LockInv, PhaseInv, RLockFree, ThreadOf
  <2>3. PartsInv'
    BY DEF SafetyInv, LockInv, PartsInv, StartInv, TearInv, ClientOutlivesUsers
  <2>4. StartInv'
    BY <2>1 DEF SafetyInv, LockInv, StartInv, PhaseInv, RestInv
  <2>5. TearInv'
    BY <2>1 DEF SafetyInv, LockInv, TearInv, PartsInv, PhaseInv
  <2>6. RestInv'
    BY <2>1, <2>2 DEF SafetyInv, LockInv, PhaseInv, PartsInv, StartInv, TearInv, RestInv,
                StoppedMeansReleased, Released
  <2> QED
    BY <2>1, <2>2, <2>3, <2>4, <2>5, <2>6 DEF SafetyInv
<1>21. ASSUME NEW a \in Activities, Final(a) PROVE SafetyInv'
  <2> USE <1>21 DEF Final, CallOf
  <2>1. LockInv'
    <3>1. \A h \in Handlers : pc'[h] = "idle"
      BY HandlersAreActivities DEF SafetyInv, LockInv
    <3>2. \A b \in Activities : b \in lock' <=> InCall(b)'
      BY DEF SafetyInv, LockInv
    <3>3. \A b, c \in lock' : b = c
      BY <3>2 DEF SafetyInv, LockInv, RLockFree, ThreadOf
    <3> QED
      BY <3>1, <3>2, <3>3 DEF LockInv
  <2>2. PhaseInv'
    BY <2>1 DEF SafetyInv, LockInv, PhaseInv, RLockFree, ThreadOf
  <2>3. PartsInv'
    BY DEF SafetyInv, LockInv, PartsInv, StartInv, TearInv, ClientOutlivesUsers
  <2>4. StartInv'
    BY <2>1 DEF SafetyInv, LockInv, StartInv, PhaseInv, RestInv
  <2>5. TearInv'
    BY <2>1 DEF SafetyInv, LockInv, TearInv, PartsInv, PhaseInv
  <2>6. RestInv'
    BY <2>1, <2>2 DEF SafetyInv, LockInv, PhaseInv, PartsInv, StartInv, TearInv, RestInv,
                StoppedMeansReleased, Released
  <2> QED
    BY <2>1, <2>2, <2>3, <2>4, <2>5, <2>6 DEF SafetyInv
<1>22. CASE WorkerTop
  <2> USE <1>22 DEF WorkerTop
  <2>1. LockInv' /\ PhaseInv'
    BY DEF SafetyInv, LockInv, PhaseInv
  <2>2. PartsInv'
    BY DEF SafetyInv, PartsInv, ClientOutlivesUsers
  <2>3. StartInv'
    BY DEF SafetyInv, StartInv
  <2>4. TearInv'
    BY DEF SafetyInv, TearInv
  <2>5. RestInv'
    BY DEF SafetyInv, RestInv, StoppedMeansReleased, Released
  <2> QED
    BY <2>1, <2>2, <2>3, <2>4, <2>5 DEF SafetyInv
<1>23. CASE WorkerCheck
  <2> USE <1>23 DEF WorkerCheck
  <2>1. LockInv' /\ PhaseInv'
    BY DEF SafetyInv, LockInv, PhaseInv
  <2>2. PartsInv'
    BY DEF SafetyInv, PartsInv, ClientOutlivesUsers
  <2>3. StartInv'
    BY DEF SafetyInv, StartInv
  <2>4. TearInv'
    BY DEF SafetyInv, TearInv
  <2>5. RestInv'
    BY DEF SafetyInv, RestInv, StoppedMeansReleased, Released
  <2> QED
    BY <2>1, <2>2, <2>3, <2>4, <2>5 DEF SafetyInv
<1>24. CASE WorkerWait
  <2> USE <1>24 DEF WorkerWait
  <2>1. LockInv' /\ PhaseInv'
    BY DEF SafetyInv, LockInv, PhaseInv
  <2>2. PartsInv'
    BY DEF SafetyInv, PartsInv, ClientOutlivesUsers
  <2>3. StartInv'
    BY DEF SafetyInv, StartInv
  <2>4. TearInv'
    BY DEF SafetyInv, TearInv
  <2>5. RestInv'
    BY DEF SafetyInv, RestInv, StoppedMeansReleased, Released
  <2> QED
    BY <2>1, <2>2, <2>3, <2>4, <2>5 DEF SafetyInv
<1>25. CASE WorkerExit
  <2> USE <1>25 DEF WorkerExit
  <2>1. LockInv' /\ PhaseInv'
    BY DEF SafetyInv, LockInv, PhaseInv
  <2>2. PartsInv'
    BY DEF SafetyInv, PartsInv, ClientOutlivesUsers
  <2>3. StartInv'
    BY DEF SafetyInv, StartInv
  <2>4. TearInv'
    BY DEF SafetyInv, TearInv
  <2>5. RestInv'
    BY DEF SafetyInv, RestInv, StoppedMeansReleased, Released
  <2> QED
    BY <2>1, <2>2, <2>3, <2>4, <2>5 DEF SafetyInv
<1>26. CASE ServeEnter
  <2> USE <1>26 DEF ServeEnter
  <2>1. LockInv' /\ PhaseInv'
    BY DEF SafetyInv, LockInv, PhaseInv
  <2>2. PartsInv'
    BY DEF SafetyInv, PartsInv, ClientOutlivesUsers
  <2>3. StartInv'
    BY DEF SafetyInv, StartInv
  <2>4. TearInv'
    BY DEF SafetyInv, TearInv
  <2>5. RestInv'
    BY DEF SafetyInv, RestInv, StoppedMeansReleased, Released
  <2> QED
    BY <2>1, <2>2, <2>3, <2>4, <2>5 DEF SafetyInv
<1>27. CASE ServeLeave
  <2> USE <1>27 DEF ServeLeave
  <2>1. LockInv' /\ PhaseInv'
    BY DEF SafetyInv, LockInv, PhaseInv
  <2>2. PartsInv'
    BY DEF SafetyInv, PartsInv, ClientOutlivesUsers
  <2>3. StartInv'
    BY DEF SafetyInv, StartInv
  <2>4. TearInv'
    BY DEF SafetyInv, TearInv
  <2>5. RestInv'
    BY DEF SafetyInv, RestInv, StoppedMeansReleased, Released
  <2> QED
    BY <2>1, <2>2, <2>3, <2>4, <2>5 DEF SafetyInv
<1>28. CASE ServeEnd
  <2> USE <1>28 DEF ServeEnd, SetDone
  <2>1. LockInv' /\ PhaseInv'
    BY DEF SafetyInv, LockInv, PhaseInv
  <2>2. PartsInv'
    BY DEF SafetyInv, PartsInv, ClientOutlivesUsers
  <2>3. StartInv'
    BY DEF SafetyInv, StartInv
  <2>4. TearInv'
    BY DEF SafetyInv, TearInv
  <2>5. RestInv'
    BY DEF SafetyInv, RestInv, StoppedMeansReleased, Released
  <2> QED
    BY <2>1, <2>2, <2>3, <2>4, <2>5 DEF SafetyInv
<1>29. ASSUME NEW a \in Activities, Call(a) PROVE SafetyInv'
  <2> USE <1>29 DEF Call, MainCalls, CallerCalls, RequestArrives, CallOf
  <2>1. LockInv'
    BY HandlersAreActivities, DistinctActivities DEF SafetyInv, LockInv
  <2>2. PhaseInv' /\ PartsInv' /\ RestInv'
    BY DEF SafetyInv, PhaseInv, PartsInv, RestInv, ClientOutlivesUsers,
           StoppedMeansReleased, Released
  <2>3. StartInv' /\ TearInv'
    BY DEF SafetyInv, StartInv, TearInv
  <2> QED
    BY <2>1, <2>2, <2>3 DEF SafetyInv
<1>30. CASE Exited \/ UNCHANGED vars
  BY <1>30 DEF Exited, vars, SafetyInv, LockInv, PhaseInv, PartsInv, StartInv, TearInv,
               RestInv, ClientOutlivesUsers, StoppedMeansReleased, Released
<1>31. ASSUME NEW a \in Activities, Begin(a) PROVE SafetyInv'
  <2> USE <1>31 DEF Begin
  <2>1. LockInv'
    BY MoveInside DEF SafetyInv
  <2>2. PhaseInv'
    BY <2>1 DEF SafetyInv, LockInv, PhaseInv, RLockFree, ThreadOf
  <2>3. PartsInv'
    BY DEF SafetyInv, LockInv, PartsInv, StartInv, TearInv, ClientOutlivesUsers
  <2>4. StartInv'
    BY <2>1 DEF SafetyInv, LockInv, StartInv, PhaseInv, RestInv
  <2>5. TearInv'
    BY <2>1 DEF SafetyInv, LockInv, TearInv, PartsInv, PhaseInv
  <2>6. RestInv'
    BY <2>1, <2>2 DEF SafetyInv, LockInv, PhaseInv, PartsInv, StartInv, TearInv, RestInv,
                StoppedMeansReleased, Released
  <2> QED
    BY <2>1, <2>2, <2>3, <2>4, <2>5, <2>6 DEF SafetyInv
<1>32. ASSUME NEW a \in Activities, TearMark(a) PROVE SafetyInv'
  <2> USE <1>32 DEF TearMark
  <2>1. LockInv'
    BY MoveInside DEF SafetyInv
  <2>2. PhaseInv'
    BY <2>1 DEF SafetyInv, LockInv, PhaseInv, RLockFree, ThreadOf
  <2>3. PartsInv'
    BY DEF SafetyInv, LockInv, PartsInv, StartInv, TearInv, ClientOutlivesUsers
  <2>4. StartInv'
    BY <2>1 DEF SafetyInv, LockInv, StartInv, PhaseInv, RestInv
  <2>5. TearInv'
    BY <2>1 DEF SafetyInv, LockInv, TearInv, PartsInv, PhaseInv
  <2>6. RestInv'
    BY <2>1, <2>2 DEF SafetyInv, LockInv, PhaseInv, PartsInv, StartInv, TearInv, RestInv,
                StoppedMeansReleased, Released
  <2> QED
    BY <2>1, <2>2, <2>3, <2>4, <2>5, <2>6 DEF SafetyInv
<1>33. ASSUME NEW a \in Activities, TearShut(a) PROVE SafetyInv'
  <2> USE <1>33 DEF TearShut
  <2>1. LockInv'
    BY MoveInside DEF SafetyInv
  <2>2. PhaseInv'
    BY <2>1 DEF SafetyInv, LockInv, PhaseInv, RLockFree, ThreadOf
  <2>3. PartsInv'
    BY DEF SafetyInv, LockInv, PartsInv, StartInv, TearInv, ClientOutlivesUsers
  <2>4. StartInv'
    BY <2>1 DEF SafetyInv, LockInv, StartInv, PhaseInv, RestInv
  <2>5. TearInv'
    BY <2>1 DEF SafetyInv, LockInv, TearInv, PartsInv, PhaseInv
  <2>6. RestInv'
    BY <2>1, <2>2 DEF SafetyInv, LockInv, PhaseInv, PartsInv, StartInv, TearInv, RestInv,
                StoppedMeansReleased, Released
  <2> QED
    BY <2>1, <2>2, <2>3, <2>4, <2>5, <2>6 DEF SafetyInv
<1> QED
    BY <1>1, <1>2, <1>3, <1>4, <1>5, <1>6, <1>7, <1>8, <1>9, <1>10, <1>11, <1>12,
       <1>13, <1>14, <1>15, <1>16, <1>17, <1>18, <1>19, <1>20, <1>21, <1>22, <1>23,
       <1>24, <1>25, <1>26, <1>27, <1>28, <1>29, <1>30, <1>31, <1>32, <1>33
       DEF Next, Proceed, StartStep, TearStep, WorkerStep, ServeStep

\* So it is an invariant.
LEMMA SafetyInvariant == Spec => []SafetyInv
BY SafetyInvInit, SafetyInvStep, ValuesInvariant, PTL DEF Spec

\* Whoever sees the service stopped finds the threads gone, the socket and the
\* client closed and the state file removed: stop() and the roll-back of
\* start() let go of everything, on every path and from every thread.
THEOREM StoppedReleases == Spec => []StoppedMeansReleased
<1>1. SafetyInv => StoppedMeansReleased
  BY DEF SafetyInv, RestInv
<1> QED
  BY <1>1, SafetyInvariant, PTL

\* The client is closed only after the refresh worker and the serving thread
\* have ended.
THEOREM ClientIsLast == Spec => []ClientOutlivesUsers
<1>1. SafetyInv => ClientOutlivesUsers
  BY DEF SafetyInv, PartsInv
<1> QED
  BY <1>1, SafetyInvariant, PTL

\* A service in state "running" owns all it publishes.
THEOREM RunningWhole == Spec => []RunningIsWhole
<1>1. SafetyInv => RunningIsWhole
  BY DEF SafetyInv, RestInv, RunningIsWhole, WorkerUp, ServerUp, WorkerAlive
<1> QED
  BY <1>1, SafetyInvariant, PTL

-----------------------------------------------------------------------------
(* KiroxService keeps the promise of ServiceOwnership: whatever the threads  *)
(* do, its resources come and go in the order that promises.  The refinement *)
(* mapping:                                                                  *)

Held == {r \in {"client", "socket", "worker", "server", "state"} :
           CASE r = "client" -> client = "open"
             [] r = "socket" -> socket = "bound"
             [] r = "worker" -> WorkerAlive
             [] r = "server" -> ServeAlive
             [] r = "state"  -> stateFile}
Phase == IF RollingBack THEN "stopping" ELSE lifecycle
Left == IF "clear" \in Faults THEN {"state"} ELSE {}

\* Which resources are held, one by one, now and after a step.
LEMMA HeldNow ==
    /\ Held \subseteq Ownership!Resources
    /\ "client" \in Held <=> client = "open"
    /\ "socket" \in Held <=> socket = "bound"
    /\ "worker" \in Held <=> WorkerAlive
    /\ "server" \in Held <=> ServeAlive
    /\ "state" \in Held <=> stateFile
  BY DEF Held, Ownership!Resources

\* The same after a step.
LEMMA HeldNext ==
    /\ Held' \subseteq Ownership!Resources
    /\ "client" \in Held' <=> client' = "open"
    /\ "socket" \in Held' <=> socket' = "bound"
    /\ "worker" \in Held' <=> WorkerAlive'
    /\ "server" \in Held' <=> ServeAlive'
    /\ "state" \in Held' <=> stateFile'
  BY DEF Held, Ownership!Resources

-----------------------------------------------------------------------------
(* What the mapping needs beyond SafetyInv.                                 *)

\* A tear-down belongs to a start that failed or to a stop, and the lifecycle
\* knows which; a serving thread that has left its loop has closed the socket.
MapInv ==
    /\ \A a \in Activities :
          pc[a] \in TearLabels => (mode[a] = "rollback" <=> lifecycle = "starting")
    /\ serve \in {"left", "dead"} => socket # "bound"

Inv == ValuesOK /\ SafetyInv /\ MapInv

\* Nobody is inside the RLock when somebody enters.
LEMMA EntersAlone ==
    ASSUME ValuesOK, SafetyInv, NEW a \in Activities,
           pc[a] \in {"start", "stop"}, RLockFree(a)
    PROVE  lock = {} /\ \A b \in Activities : pc[b] \notin StartLabels \cup TearLabels
<1>1. \A b \in lock : b \notin Handlers /\ InCall(b) /\ b \in Activities
  BY HandlersAreActivities
  DEF SafetyInv, LockInv, ValuesOK, InCall, StartLabels, TryLabels, TearLabels
<1>2. a \notin Handlers
  BY HandlersAreActivities DEF SafetyInv, LockInv
<1>3. a \notin lock
  BY DEF SafetyInv, LockInv, InCall, StartLabels, TryLabels, TearLabels
<1>4. lock = {}
  BY <1>1, <1>2, <1>3 DEF RLockFree, ThreadOf
<1> QED
  BY <1>4 DEF SafetyInv, LockInv, InCall

\* Every step keeps the mapping's invariant.
LEMMA MapStep == Inv /\ [Next]_vars => MapInv'
<1> SUFFICES ASSUME ValuesOK, SafetyInv, MapInv, [Next]_vars PROVE MapInv'
  BY DEF Inv
<1> USE DEF svcVars, ownVars, clientVars, schVars, srvVars, stateVars, ctlVars,
            lockVars, MapInv, ValuesOK,
            Goto, Return, Advance, Rollback, FailedStart, AfterWait, WorkerGoes, ServeGoes,
            IdleLabels, EntryLabels, StartLabels, TryLabels, TearLabels, Labels
<1>1. ASSUME NEW a \in Activities, StartEnter(a) PROVE MapInv'
  BY <1>1, EntersAlone
     DEF StartEnter, MayStart, SafetyInv, LockInv, PhaseInv, StartInv, InCall
<1>2. ASSUME NEW a \in Activities, CreateClient(a) PROVE MapInv'
  BY <1>2 DEF CreateClient, SafetyInv, LockInv, PhaseInv, StartInv, InCall
<1>3. ASSUME NEW a \in Activities, CreateServer(a) PROVE MapInv'
  BY <1>3 DEF CreateServer, SafetyInv, LockInv, PhaseInv, StartInv, InCall, Untouched
<1>4. ASSUME NEW a \in Activities, SchedStart(a) PROVE MapInv'
  BY <1>4 DEF SchedStart, SafetyInv, LockInv, PhaseInv, StartInv, InCall
<1>5. ASSUME NEW a \in Activities, SrvStart(a) PROVE MapInv'
  BY <1>5 DEF SrvStart, SafetyInv, LockInv, PhaseInv, StartInv, InCall, Untouched
<1>6. ASSUME NEW a \in Activities, Capture(a) PROVE MapInv'
  BY <1>6 DEF Capture, SafetyInv, LockInv, PhaseInv, StartInv, InCall
<1>7. ASSUME NEW a \in Activities, WriteState(a) PROVE MapInv'
  BY <1>7 DEF WriteState, WriteError, SafetyInv, LockInv, PhaseInv, StartInv, InCall
<1>8. ASSUME NEW a \in Activities, Running(a) PROVE MapInv'
  BY <1>8 DEF Running, SafetyInv, LockInv, PhaseInv, StartInv, InCall
<1>9. ASSUME NEW a \in Activities, StopEnter(a) PROVE MapInv'
  BY <1>9, EntersAlone
     DEF StopEnter, BeginStop, SafetyInv, LockInv, PhaseInv, StartInv, InCall
<1>10. ASSUME NEW a \in Activities, TearSched(a) PROVE MapInv'
  BY <1>10 DEF TearSched, SafetyInv, LockInv, PhaseInv, StartInv, InCall
<1>11. ASSUME NEW a \in Activities, TearSchedBody(a) PROVE MapInv'
  BY <1>11 DEF TearSchedBody, Interrupt, SafetyInv, LockInv, PhaseInv, StartInv, InCall
<1>12. ASSUME NEW a \in Activities, TearJoin(a) PROVE MapInv'
  BY <1>12 DEF TearJoin, WorkerJoined, SafetyInv, LockInv, PhaseInv, StartInv, InCall
<1>13. ASSUME NEW a \in Activities, TearSrv(a) PROVE MapInv'
  BY <1>13 DEF TearSrv, NothingToClose, SafetyInv, LockInv, PhaseInv, StartInv, InCall
<1>14. ASSUME NEW a \in Activities, TearSrvJoin(a) PROVE MapInv'
  BY <1>14 DEF TearSrvJoin, SafetyInv, LockInv, PhaseInv, StartInv, InCall
<1>15. ASSUME NEW a \in Activities, TearSrvClose(a) PROVE MapInv'
  BY <1>15 DEF TearSrvClose, SafetyInv, LockInv, PhaseInv, StartInv, InCall
<1>16. ASSUME NEW a \in Activities, TearClear(a) PROVE MapInv'
  BY <1>16 DEF TearClear, ClearFailed, SafetyInv, LockInv, PhaseInv, StartInv, InCall
<1>17. ASSUME NEW a \in Activities, TearClose(a) PROVE MapInv'
  BY <1>17 DEF TearClose, CloseNothing, SafetyInv, LockInv, PhaseInv, StartInv, InCall
<1>18. ASSUME NEW a \in Activities, TearFinish(a) PROVE MapInv'
  BY <1>18 DEF TearFinish, EndStop, SafetyInv, LockInv, PhaseInv, StartInv, InCall
<1>19. ASSUME NEW a \in Activities, Wait(a) PROVE MapInv'
  BY <1>19 DEF Wait, SafetyInv, LockInv, PhaseInv, StartInv, InCall
<1>20. ASSUME NEW a \in Activities, WaitCheck(a) PROVE MapInv'
  BY <1>20 DEF WaitCheck, CallOf, SafetyInv, LockInv, PhaseInv, StartInv, InCall
<1>21. ASSUME NEW a \in Activities, Final(a) PROVE MapInv'
  BY <1>21 DEF Final, CallOf, SafetyInv, LockInv, PhaseInv, StartInv, InCall
<1>22. ASSUME NEW a \in Activities, Call(a) PROVE MapInv'
  BY <1>22
     DEF Call, MainCalls, CallerCalls, RequestArrives, CallOf, SafetyInv, LockInv,
         PhaseInv, StartInv, InCall
<1>23. CASE WorkerTop
  BY <1>23 DEF WorkerTop
<1>24. CASE WorkerCheck
  BY <1>24 DEF WorkerCheck
<1>25. CASE WorkerWait
  BY <1>25 DEF WorkerWait
<1>26. CASE WorkerExit
  BY <1>26 DEF WorkerExit
<1>27. CASE ServeEnter
  BY <1>27 DEF ServeEnter
<1>28. CASE ServeLeave
  BY <1>28 DEF ServeLeave
<1>29. CASE ServeEnd
  BY <1>29 DEF ServeEnd, SetDone
<1>30. CASE Exited \/ UNCHANGED vars
  BY <1>30 DEF Exited, vars
<1>31. ASSUME NEW a \in Activities, Begin(a) PROVE MapInv'
  BY <1>31 DEF Begin, SafetyInv, LockInv, PhaseInv, StartInv, InCall
<1>32. ASSUME NEW a \in Activities, TearMark(a) PROVE MapInv'
  BY <1>32 DEF TearMark, SafetyInv, LockInv, PhaseInv, StartInv, InCall
<1>33. ASSUME NEW a \in Activities, TearShut(a) PROVE MapInv'
  BY <1>33 DEF TearShut, SafetyInv, LockInv, PhaseInv, StartInv, InCall
<1> QED
  BY <1>1, <1>2, <1>3, <1>4, <1>5, <1>6, <1>7, <1>8, <1>9, <1>10, <1>11,
     <1>12, <1>13, <1>14, <1>15, <1>16, <1>17, <1>18, <1>19, <1>20, <1>21,
     <1>22, <1>23, <1>24, <1>25, <1>26, <1>27, <1>28, <1>29, <1>30, <1>31, <1>32, <1>33
     DEF Next, Proceed, StartStep, TearStep, WorkerStep, ServeStep

\* The mapping's invariant holds.
LEMMA InvHolds == Spec => []Inv
<1>1. Init => MapInv
  BY DEF Init, MapInv, TearLabels
<1>2. Inv /\ [Next]_vars => MapInv'
  BY MapStep
<1> QED
  BY ValuesInvariant, SafetyInvariant, <1>1, <1>2, PTL DEF Spec, Inv

-----------------------------------------------------------------------------
(* The phase.                                                               *)

\* Where the activity inside the RLock is says what phase it is, and without
\* one the lifecycle does.
LEMMA PhaseNow ==
    ASSUME Inv
    PROVE  /\ \A a \in Activities : pc[a] \in TearLabels => Phase = "stopping"
           /\ \A a \in Activities : pc[a] \in TryLabels => Phase = "starting"
           /\ \A a \in Activities : pc[a] = "begin" => Phase = "new"
           /\ lock = {} => Phase = lifecycle
<1> USE DEF Inv, SafetyInv, LockInv, InCall, PhaseInv, MapInv, Phase, RollingBack,
            StartLabels, TryLabels, TearLabels
<1>1. ASSUME NEW a \in Activities, pc[a] \in TearLabels PROVE Phase = "stopping"
  BY <1>1
<1>2. ASSUME NEW a \in Activities, pc[a] \in TryLabels PROVE Phase = "starting"
  <2>1. a \in lock
    BY <1>2
  <2>2. \A b \in Activities : pc[b] \notin TearLabels
    BY <1>2, <2>1
  <2> QED
    BY <1>2, <2>2
<1>3. ASSUME lock = {} PROVE Phase = lifecycle
  BY <1>3
<1>4. ASSUME NEW a \in Activities, pc[a] = "begin" PROVE Phase = "new"
  <2>1. a \in lock
    BY <1>4
  <2>2. \A b \in Activities : pc[b] \notin TearLabels
    BY <1>4, <2>1
  <2> QED
    BY <1>4, <2>2
<1> QED
  BY <1>1, <1>2, <1>3, <1>4

\* The same after a step.
LEMMA PhaseNext ==
    ASSUME Inv'
    PROVE  /\ \A a \in Activities : pc'[a] \in TearLabels => Phase' = "stopping"
           /\ \A a \in Activities : pc'[a] \in TryLabels => Phase' = "starting"
           /\ \A a \in Activities : pc'[a] = "begin" => Phase' = "new"
           /\ lock' = {} => Phase' = lifecycle'
<1> USE DEF Inv, SafetyInv, LockInv, InCall, PhaseInv, MapInv, Phase, RollingBack,
            StartLabels, TryLabels, TearLabels
<1>1. ASSUME NEW a \in Activities, pc'[a] \in TearLabels PROVE Phase' = "stopping"
  BY <1>1
<1>2. ASSUME NEW a \in Activities, pc'[a] \in TryLabels PROVE Phase' = "starting"
  <2>1. a \in lock'
    BY <1>2
  <2>2. \A b \in Activities : pc'[b] \notin TearLabels
    BY <1>2, <2>1
  <2> QED
    BY <1>2, <2>2
<1>3. ASSUME lock' = {} PROVE Phase' = lifecycle'
  BY <1>3
<1>4. ASSUME NEW a \in Activities, pc'[a] = "begin" PROVE Phase' = "new"
  <2>1. a \in lock'
    BY <1>4
  <2>2. \A b \in Activities : pc'[b] \notin TearLabels
    BY <1>4, <2>1
  <2> QED
    BY <1>4, <2>2
<1> QED
  BY <1>1, <1>2, <1>3, <1>4

-----------------------------------------------------------------------------
(* The steps of ServiceOwnership, in terms of Phase and Held.               *)

\* Sets of resources are equal when they hold the same ones.
LEMMA SameResources ==
    ASSUME NEW A \in SUBSET Ownership!Resources, NEW B,
           B \subseteq Ownership!Resources,
           \A r \in Ownership!Resources : r \in A <=> r \in B
    PROVE  A = B
  OBVIOUS

\* What is held after a step, from what it did to the parts.
LEMMA HeldBy ==
    ASSUME NEW S \in SUBSET Ownership!Resources,
           "client" \in S <=> client' = "open",
           "socket" \in S <=> socket' = "bound",
           "worker" \in S <=> WorkerAlive',
           "server" \in S <=> ServeAlive',
           "state" \in S <=> stateFile'
    PROVE  Held' = S
<1>1. \A r \in Ownership!Resources : r \in S <=> r \in Held'
  BY HeldNext DEF Ownership!Resources
<1> QED
  BY <1>1, HeldNext, SameResources

\* A step that acquires r, or already had it.
LEMMA HeldGains ==
    ASSUME NEW r \in Ownership!Resources,
           (r = "client" \/ "client" \in Held) <=> client' = "open",
           (r = "socket" \/ "socket" \in Held) <=> socket' = "bound",
           (r = "worker" \/ "worker" \in Held) <=> WorkerAlive',
           (r = "server" \/ "server" \in Held) <=> ServeAlive',
           (r = "state" \/ "state" \in Held) <=> stateFile'
    PROVE  Held' = Held \cup {r}
<1>1. Held \cup {r} \in SUBSET Ownership!Resources
  BY HeldNow
<1> QED
  BY <1>1, HeldBy

\* A step that lets r go, if it was held.
LEMMA HeldDrops ==
    ASSUME NEW r \in Ownership!Resources,
           (r # "client" /\ "client" \in Held) <=> client' = "open",
           (r # "socket" /\ "socket" \in Held) <=> socket' = "bound",
           (r # "worker" /\ "worker" \in Held) <=> WorkerAlive',
           (r # "server" /\ "server" \in Held) <=> ServeAlive',
           (r # "state" /\ "state" \in Held) <=> stateFile'
    PROVE  Held' = Held \ {r}
<1>1. Held \ {r} \in SUBSET Ownership!Resources
  BY HeldNow
<1> QED
  BY <1>1, HeldBy

\* A step that leaves the phase, the event and the resources alone is invisible.
LEMMA Invisible ==
    ASSUME Phase' = Phase, stopped' = stopped, Held' = Held
    PROVE  UNCHANGED Ownership!absVars
  BY Zenon DEF Ownership!absVars, Phase, Held

\* Acquire, for one resource.
LEMMA Acquires ==
    ASSUME NEW r \in Ownership!Resources, Phase = "starting", Phase' = Phase,
           stopped' = stopped, r \notin Held, Ownership!Needs(r) \subseteq Held,
           Held' = Held \cup {r}
    PROVE  Ownership!Next
  BY Zenon DEF Ownership!Next, Ownership!Acquire, Phase, Held

\* Release, for one resource.
LEMMA Releases ==
    ASSUME NEW r \in Ownership!Resources, Phase = "stopping", Phase' = Phase,
           stopped' = stopped, r \in Held, Ownership!ReleasedBefore(r) \cap Held = {},
           Held' = Held \ {r}
    PROVE  Ownership!Next
  BY Zenon DEF Ownership!Next, Ownership!Release, Phase, Held

\* Lose, for the socket or the serving thread.
LEMMA Loses ==
    ASSUME NEW r \in {"socket", "server"}, Phase' = Phase, stopped' = stopped,
           r \in Held, r = "server" => "socket" \notin Held, Held' = Held \ {r}
    PROVE  Ownership!Next
<1>1. r \in Ownership!Resources
  BY DEF Ownership!Resources
<1> QED
  BY <1>1, Zenon DEF Ownership!Next, Ownership!Lose, Phase, Held

\* Retire: stop() or the roll-back begins.
LEMMA Retires ==
    ASSUME Phase \in {"new", "starting", "running"}, Phase' = "stopping",
           stopped' = stopped,
           Held' = Held \/ (Phase = "starting" /\ Held' = Held \ {"socket"})
    PROVE  Ownership!Next
  BY Zenon DEF Ownership!Next, Ownership!Retire, Phase, Held

\* Begin, Publish and Finish.
LEMMA Milestones ==
    ASSUME Held' = Held,
           \/ Phase = "new" /\ Phase' = "starting" /\ stopped' = FALSE
           \/ /\ Phase = "starting" /\ Phase' = "running" /\ stopped' = stopped
              /\ {"client", "worker", "state"} \subseteq Held
           \/ /\ Phase = "stopping" /\ Phase' = "stopped" /\ stopped' = TRUE
              /\ Held \subseteq Left
    PROVE  Ownership!Next
  BY Zenon DEF Ownership!Next, Ownership!Begin, Ownership!Publish, Ownership!Finish,
               Phase, Held, Left

\* The tables of ServiceOwnership.
LEMMA Tables ==
    /\ Ownership!Needs("client") = {}
    /\ Ownership!Needs("socket") = {"client"}
    /\ Ownership!Needs("worker") = {"client", "socket"}
    /\ Ownership!Needs("server") = {"client", "socket", "worker"}
    /\ Ownership!Needs("state") = {"client", "worker"}
    /\ Ownership!ReleasedBefore("worker") = {}
    /\ Ownership!ReleasedBefore("socket") = {"worker"}
    /\ Ownership!ReleasedBefore("state") = {"worker", "socket", "server"}
    /\ Ownership!ReleasedBefore("client") = {"worker", "socket", "server", "state"} \ Left
    /\ {"client", "socket", "worker", "server", "state"} = Ownership!Resources
  BY DEF Ownership!Needs, Ownership!ReleasedBefore, Left, Ownership!Resources

\* A step that touches none of the resources.
LEMMA HeldSame ==
    ASSUME client' = client, socket' = socket, worker' = worker, serve' = serve,
           stateFile' = stateFile
    PROVE  Held' = Held
  BY HeldNow, HeldBy DEF WorkerAlive, ServeAlive

\* A step of an activity that stays outside the tear-down keeps the phase.
LEMMA PhaseSame ==
    ASSUME ValuesOK, NEW a \in Activities, NEW l, pc' = [pc EXCEPT ![a] = l],
           pc[a] \notin TearLabels, l \notin TearLabels,
           mode' = mode, lifecycle' = lifecycle
    PROVE  Phase' = Phase
<1>1. \A b \in Activities : pc'[b] \in TearLabels <=> pc[b] \in TearLabels
  BY DEF ValuesOK
<1> QED
  BY <1>1 DEF Phase, RollingBack

\* An activity inside the RLock that stays in its half of the code keeps it too.
LEMMA PhaseInside ==
    ASSUME Inv, Inv', NEW a \in Activities,
           \/ pc[a] \in TryLabels /\ pc'[a] \in TryLabels
           \/ pc[a] \in TearLabels /\ pc'[a] \in TearLabels
    PROVE  Phase' = Phase
  BY PhaseNow, PhaseNext

-----------------------------------------------------------------------------
(* Every step is a step of ServiceOwnership, or invisible to it.            *)

Visible == Ownership!Next \/ UNCHANGED Ownership!absVars

\* Invisible.
LEMMA StartEnterMaps ==
    ASSUME Inv, Inv', NEW a \in Activities, StartEnter(a)
    PROVE  Visible
<1> USE DEF svcVars, ownVars, clientVars, schVars, srvVars, stateVars, ctlVars, lockVars
<1>1. stopped' = stopped /\ Held' = Held
  BY HeldSame DEF StartEnter
<1>2. PICK l \in {"begin", "idle", "exit", "wait", "final"} : pc' = [pc EXCEPT ![a] = l]
  BY DEF StartEnter, Return, Goto, FailedStart, Inv, ValuesOK
<1>3. Phase' = Phase
  BY <1>2, PhaseSame DEF StartEnter, Return, Goto, Inv, TearLabels
<1> QED
  BY <1>1, <1>3, Invisible DEF Visible

\* Begin.
LEMMA BeginMaps ==
    ASSUME Inv, Inv', NEW a \in Activities, Begin(a)
    PROVE  Visible
<1> USE DEF svcVars, ownVars, clientVars, schVars, srvVars, stateVars, ctlVars, lockVars
<1>1. stopped' = FALSE /\ Held' = Held
  BY HeldSame DEF Begin
<1>2. Phase = "new"
  BY PhaseNow DEF Begin, Goto
<1>3. Phase' = "starting"
  BY PhaseNext DEF Begin, Goto, TryLabels, Inv, ValuesOK
<1> QED
  BY <1>1, <1>2, <1>3, Milestones DEF Visible

\* A step of start() that fails begins the roll-back: Retire.
LEMMA RollbackMaps ==
    ASSUME Inv, Inv', NEW a \in Activities, NEW l \in TryLabels, Rollback(a, l),
           stopped' = stopped, Held' = Held \/ Held' = Held \ {"socket"}
    PROVE  Visible
<1>1. Phase = "starting"
  BY PhaseNow DEF Rollback, Goto
<1>2. Phase' = "stopping"
  BY PhaseNext DEF Rollback, Goto, TearLabels, Inv, ValuesOK
<1> QED
  BY <1>1, <1>2, Retires DEF Visible

\* The client is acquired, unless it was injected.
LEMMA CreateClientMaps ==
    ASSUME Inv, Inv', NEW a \in Activities, CreateClient(a)
    PROVE  Visible
<1> USE DEF svcVars, ownVars, clientVars, schVars, srvVars, stateVars, ctlVars, lockVars
<1> USE DEF CreateClient
<1>1. stopped' = stopped
  OBVIOUS
<1>2. ASSUME Advance(a, "create_client", "create_server"),
             client' = IF client = "none" THEN "open" ELSE client
      PROVE  Visible
  <2>1. Phase = "starting" /\ Phase' = Phase
    BY <1>2, PhaseNow, PhaseInside DEF Advance, Goto, TryLabels, Inv, ValuesOK
  <2>2. CASE client = "none"
    <3>1. "client" \notin Held /\ Held' = Held \cup {"client"}
      BY <1>2, <2>2, HeldNow, HeldGains DEF Ownership!Resources, WorkerAlive, ServeAlive
    <3> QED
      BY <1>1, <2>1, <3>1, Acquires, Tables DEF Visible
  <2>3. CASE client # "none"
    BY <1>1, <1>2, <2>1, <2>3, HeldSame, Invisible DEF Visible
  <2> QED
    BY <2>2, <2>3
<1>3. ASSUME Rollback(a, "create_client"), UNCHANGED client PROVE Visible
  BY <1>1, <1>3, HeldSame, RollbackMaps DEF TryLabels
<1> QED
  BY <1>2, <1>3

\* The bound socket is acquired.
LEMMA CreateServerMaps ==
    ASSUME Inv, Inv', NEW a \in Activities, CreateServer(a)
    PROVE  Visible
<1> USE DEF svcVars, ownVars, clientVars, schVars, srvVars, stateVars, ctlVars, lockVars
<1> USE DEF CreateServer
<1>1. stopped' = stopped
  OBVIOUS
<1>2. ASSUME Advance(a, "create_server", "sched_start"), socket' = "bound"
      PROVE  Visible
  <2>1. Phase = "starting" /\ Phase' = Phase
    BY <1>2, PhaseNow, PhaseInside DEF Advance, Goto, TryLabels, Inv, ValuesOK
  <2>2. client = "open" /\ socket = "none"
    BY <1>2 DEF Advance, Goto, Inv, SafetyInv, StartInv, Untouched, TryLabels
  <2>3. Held' = Held \cup {"socket"}
    BY <1>2, HeldNow, HeldGains DEF Ownership!Resources, WorkerAlive, ServeAlive
  <2>4. "socket" \notin Held /\ "client" \in Held
    BY <2>2, HeldNow
  <2> QED
    BY <1>1, <2>1, <2>3, <2>4, Acquires, Tables DEF Visible
<1>3. ASSUME Rollback(a, "create_server"), UNCHANGED socket PROVE Visible
  BY <1>1, <1>3, HeldSame, RollbackMaps DEF TryLabels
<1> QED
  BY <1>2, <1>3

\* The worker is acquired.
LEMMA SchedStartMaps ==
    ASSUME Inv, Inv', NEW a \in Activities, SchedStart(a)
    PROVE  Visible
<1> USE DEF svcVars, ownVars, clientVars, schVars, srvVars, stateVars, ctlVars, lockVars
<1> USE DEF SchedStart
<1>1. stopped' = stopped
  OBVIOUS
<1>2. ASSUME Advance(a, "sched_start", "srv_start") PROVE Visible
  <2>1. Phase = "starting" /\ Phase' = Phase
    BY <1>2, PhaseNow, PhaseInside DEF Advance, Goto, TryLabels, Inv, ValuesOK
  <2>2. client = "open" /\ socket = "bound" /\ worker = "none"
    BY <1>2 DEF Advance, Goto, Inv, SafetyInv, StartInv, TryLabels
  <2>3. worker' = "top"
    BY <1>2, <2>2 DEF WorkerAlive, Advance, Rollback, Goto, Inv, ValuesOK
  <2>4. Held' = Held \cup {"worker"}
    BY <1>2, <2>3, HeldNow, HeldGains DEF Ownership!Resources, WorkerAlive, ServeAlive
  <2>5. "worker" \notin Held /\ {"client", "socket"} \subseteq Held
    BY <2>2, HeldNow DEF WorkerAlive
  <2> QED
    BY <1>1, <2>1, <2>4, <2>5, Acquires, Tables DEF Visible
<1>3. ASSUME Rollback(a, "sched_start"), UNCHANGED worker PROVE Visible
  BY <1>1, <1>3, HeldSame, RollbackMaps DEF TryLabels
<1> QED
  BY <1>2, <1>3

\* The serving thread is acquired, or gives up its socket in the roll-back.
LEMMA SrvStartMaps ==
    ASSUME Inv, Inv', NEW a \in Activities, SrvStart(a)
    PROVE  Visible
<1> USE DEF svcVars, ownVars, clientVars, schVars, srvVars, stateVars, ctlVars, lockVars
<1> USE DEF SrvStart
<1>1. stopped' = stopped
  OBVIOUS
<1>2. ASSUME Advance(a, "srv_start", "capture"), serve' = "created", socket' = socket
      PROVE  Visible
  <2>1. Phase = "starting" /\ Phase' = Phase
    BY <1>2, PhaseNow, PhaseInside DEF Advance, Goto, TryLabels, Inv, ValuesOK
  <2>2. client = "open" /\ socket = "bound" /\ serve = "none" /\ WorkerAlive
    BY <1>2
       DEF Advance, Goto, Inv, SafetyInv, StartInv, TryLabels, WorkerUp, WorkerAlive
  <2>3. Held' = Held \cup {"server"}
    BY <1>2, HeldNow, HeldGains DEF Ownership!Resources, WorkerAlive, ServeAlive
  <2>4. "server" \notin Held /\ {"client", "socket", "worker"} \subseteq Held
    BY <2>2, HeldNow DEF ServeAlive
  <2> QED
    BY <1>1, <2>1, <2>3, <2>4, Acquires, Tables DEF Visible
<1>3. ASSUME Rollback(a, "srv_start"), serve' = serve, socket' \in {socket, "closed"}
      PROVE  Visible
  <2>1. Held' = Held \/ Held' = Held \ {"socket"}
    <3>1. CASE socket' = socket
      BY <1>3, <3>1, HeldSame
    <3>2. CASE socket' = "closed"
      BY <1>3, <3>2, HeldNow, HeldDrops DEF Ownership!Resources, WorkerAlive, ServeAlive
    <3> QED
      BY <1>3, <3>1, <3>2
  <2> QED
    BY <1>1, <1>3, <2>1, RollbackMaps DEF TryLabels
<1> QED
  BY <1>2, <1>3

\* Invisible, unless it fails.
LEMMA CaptureMaps ==
    ASSUME Inv, Inv', NEW a \in Activities, Capture(a)
    PROVE  Visible
<1> USE DEF svcVars, ownVars, clientVars, schVars, srvVars, stateVars, ctlVars, lockVars
<1> USE DEF Capture
<1>1. stopped' = stopped /\ Held' = Held
  BY HeldSame
<1>2. ASSUME Advance(a, "capture", "write_state") PROVE Visible
  BY <1>1, <1>2, PhaseInside, Invisible
     DEF Visible, Advance, Goto, TryLabels, Inv, ValuesOK
<1>3. ASSUME Rollback(a, "capture") PROVE Visible
  BY <1>1, <1>3, RollbackMaps DEF TryLabels
<1> QED
  BY <1>2, <1>3

\* The state file is acquired, unless it named this service already.
LEMMA WriteStateMaps ==
    ASSUME Inv, Inv', NEW a \in Activities, WriteState(a)
    PROVE  Visible
<1> USE DEF svcVars, ownVars, clientVars, schVars, srvVars, stateVars, ctlVars, lockVars
<1> USE DEF WriteState, WriteError
<1>1. stopped' = stopped
  OBVIOUS
<1>2. ASSUME Advance(a, "write_state", "running"), stateFile' = TRUE PROVE Visible
  <2>1. Phase = "starting" /\ Phase' = Phase
    BY <1>2, PhaseNow, PhaseInside DEF Advance, Goto, TryLabels, Inv, ValuesOK
  <2>2. client = "open" /\ WorkerAlive
    BY <1>2
       DEF Advance, Goto, Inv, SafetyInv, StartInv, TryLabels, WorkerUp, WorkerAlive
  <2>3. Held' = Held \cup {"state"}
    BY <1>2, HeldNow, HeldGains DEF Ownership!Resources, WorkerAlive, ServeAlive
  <2>4. {"client", "worker"} \subseteq Held
    BY <2>2, HeldNow
  <2>5. CASE "state" \notin Held
    BY <1>1, <2>1, <2>3, <2>4, <2>5, Acquires, Tables DEF Visible
  <2>6. CASE "state" \in Held
    BY <1>1, <2>1, <2>3, <2>6, Invisible DEF Visible
  <2> QED
    BY <2>5, <2>6
<1>3. ASSUME Rollback(a, "write_state"), UNCHANGED stateFile PROVE Visible
  BY <1>1, <1>3, HeldSame, RollbackMaps DEF TryLabels
<1> QED
  BY <1>2, <1>3

\* Publish.
LEMMA RunningMaps ==
    ASSUME Inv, Inv', NEW a \in Activities, Running(a)
    PROVE  Visible
<1> USE DEF svcVars, ownVars, clientVars, schVars, srvVars, stateVars, ctlVars, lockVars
<1> USE DEF Running
<1>1. stopped' = stopped /\ Held' = Held
  BY HeldSame
<1>2. Phase = "starting"
  BY PhaseNow DEF Return, Goto, TryLabels
<1>3. {"client", "worker", "state"} \subseteq Held
  BY HeldNow
     DEF Return, Goto, Inv, SafetyInv, StartInv, TryLabels, WorkerUp, WorkerAlive
<1>4. Phase' = "running"
  <2>1. lock' = {}
    BY DEF Inv, SafetyInv, LockInv, InCall, Return, Goto, StartLabels, TryLabels, ValuesOK
  <2> QED
    BY <2>1, PhaseNext
<1> QED
  BY <1>1, <1>2, <1>3, <1>4, Milestones DEF Visible

\* Retire, unless the service has stopped.
LEMMA StopEnterMaps ==
    ASSUME Inv, Inv', NEW a \in Activities, StopEnter(a)
    PROVE  Visible
<1> USE DEF svcVars, ownVars, clientVars, schVars, srvVars, stateVars, ctlVars, lockVars
<1> USE DEF StopEnter, BeginStop
<1>1. stopped' = stopped /\ Held' = Held
  BY HeldSame
<1>2. CASE lifecycle = "stopped" /\ Return(a, "stop") /\ UNCHANGED <<lifecycle, mode>>
  <2>1. Phase' = Phase
    BY <1>2, PhaseSame DEF Return, Goto, Inv, ValuesOK, TearLabels
  <2> QED
    BY <1>1, <2>1, Invisible DEF Visible
<1>3. CASE lifecycle # "stopped" /\ Goto(a, "stop", "td_sched")
  <2>1. lock = {}
    BY <1>3, EntersAlone DEF Goto, Inv
  <2>2. Phase \in {"new", "running"}
    BY <1>3, <2>1, PhaseNow DEF Inv, SafetyInv, PhaseInv
  <2>3. Phase' = "stopping"
    BY <1>3, PhaseNext DEF Goto, TearLabels, Inv, ValuesOK
  <2> QED
    BY <1>1, <2>2, <2>3, Retires DEF Visible
<1> QED
  BY <1>2, <1>3

\* Invisible.
LEMMA TearSchedMaps ==
    ASSUME Inv, Inv', NEW a \in Activities, TearSched(a)
    PROVE  Visible
<1> USE DEF svcVars, ownVars, clientVars, schVars, srvVars, stateVars, ctlVars, lockVars
<1>1. Phase' = Phase
  BY PhaseInside DEF TearSched, Goto, Advance, TryLabels, TearLabels, Inv, ValuesOK
<1>2. stopped' = stopped /\ Held' = Held
  BY HeldSame DEF TearSched
<1> QED
  BY <1>1, <1>2, Invisible DEF Visible

\* Invisible.
LEMMA TearSchedBodyMaps ==
    ASSUME Inv, Inv', NEW a \in Activities, TearSchedBody(a)
    PROVE  Visible
<1> USE DEF svcVars, ownVars, clientVars, schVars, srvVars, stateVars, ctlVars, lockVars
<1>1. Phase' = Phase
  BY PhaseInside
     DEF TearSchedBody, Interrupt, Goto, Advance, TryLabels, TearLabels, Inv, ValuesOK
<1>2. stopped' = stopped /\ Held' = Held
  BY HeldSame DEF TearSchedBody, Interrupt
<1> QED
  BY <1>1, <1>2, Invisible DEF Visible

\* Invisible.
LEMMA TearJoinMaps ==
    ASSUME Inv, Inv', NEW a \in Activities, TearJoin(a)
    PROVE  Visible
<1> USE DEF svcVars, ownVars, clientVars, schVars, srvVars, stateVars, ctlVars, lockVars
<1>1. Phase' = Phase
  BY PhaseInside DEF TearJoin, Goto, Advance, TryLabels, TearLabels, Inv, ValuesOK
<1>2. stopped' = stopped /\ Held' = Held
  BY HeldSame DEF TearJoin
<1> QED
  BY <1>1, <1>2, Invisible DEF Visible

\* Invisible.
LEMMA TearSrvMaps ==
    ASSUME Inv, Inv', NEW a \in Activities, TearSrv(a)
    PROVE  Visible
<1> USE DEF svcVars, ownVars, clientVars, schVars, srvVars, stateVars, ctlVars, lockVars
<1>1. Phase' = Phase
  BY PhaseInside
     DEF TearSrv, NothingToClose, Goto, Advance, TryLabels, TearLabels, Inv, ValuesOK
<1>2. stopped' = stopped /\ Held' = Held
  BY HeldSame DEF TearSrv, NothingToClose
<1> QED
  BY <1>1, <1>2, Invisible DEF Visible

\* Invisible.
LEMMA TearSrvJoinMaps ==
    ASSUME Inv, Inv', NEW a \in Activities, TearSrvJoin(a)
    PROVE  Visible
<1> USE DEF svcVars, ownVars, clientVars, schVars, srvVars, stateVars, ctlVars, lockVars
<1>1. Phase' = Phase
  BY PhaseInside DEF TearSrvJoin, Goto, Advance, TryLabels, TearLabels, Inv, ValuesOK
<1>2. stopped' = stopped /\ Held' = Held
  BY HeldSame DEF TearSrvJoin
<1> QED
  BY <1>1, <1>2, Invisible DEF Visible

\* A tear-down step that lets go of one resource, if it is held.
LEMMA TearReleases ==
    ASSUME Inv, Inv', NEW a \in Activities, pc[a] \in TearLabels, pc'[a] \in TearLabels,
           NEW r \in Ownership!Resources, stopped' = stopped,
           Ownership!ReleasedBefore(r) \cap Held = {}, Held' = Held \ {r}
    PROVE  Visible
<1>1. Phase = "stopping" /\ Phase' = Phase
  BY PhaseNow, PhaseInside
<1>2. CASE r \in Held
  BY <1>1, <1>2, Releases DEF Visible
<1>3. CASE r \notin Held
  BY <1>1, <1>3, Invisible DEF Visible
<1> QED
  BY <1>2, <1>3

\* The socket is let go of.
LEMMA TearSrvCloseMaps ==
    ASSUME Inv, Inv', NEW a \in Activities, TearSrvClose(a)
    PROVE  Visible
<1> USE DEF svcVars, ownVars, clientVars, schVars, srvVars, stateVars, ctlVars, lockVars
<1> USE DEF TearSrvClose
<1>1. pc[a] \in TearLabels /\ pc'[a] \in TearLabels
  BY DEF Goto, TearLabels, Inv, ValuesOK
<1>2. Held' = Held \ {"socket"}
  BY HeldNow, HeldDrops DEF Ownership!Resources, WorkerAlive, ServeAlive
<1>3. "worker" \notin Held
  BY HeldNow DEF Goto, TearLabels, Inv, SafetyInv, TearInv
<1> QED
  BY <1>1, <1>2, <1>3, Tables, TearReleases DEF Ownership!Resources

\* The state file is let go of, unless clear_state fails.
LEMMA TearClearMaps ==
    ASSUME Inv, Inv', NEW a \in Activities, TearClear(a)
    PROVE  Visible
<1> USE DEF svcVars, ownVars, clientVars, schVars, srvVars, stateVars, ctlVars, lockVars
<1> USE DEF TearClear, ClearFailed
<1>1. pc[a] \in TearLabels /\ pc'[a] \in TearLabels
  BY DEF Goto, TearLabels, Inv, ValuesOK
<1>2. CASE stateFile' = FALSE
  <2>1. Held' = Held \ {"state"}
    BY <1>2, HeldNow, HeldDrops DEF Ownership!Resources, WorkerAlive, ServeAlive
  <2>2. "worker" \notin Held /\ "server" \notin Held /\ "socket" \notin Held
    BY HeldNow DEF Goto, TearLabels, Inv, SafetyInv, TearInv
  <2> QED
    BY <1>1, <2>1, <2>2, Tables, TearReleases DEF Ownership!Resources
<1>3. CASE UNCHANGED stateFile
  BY <1>1, <1>3, HeldSame, PhaseInside, Invisible DEF Visible
<1> QED
  BY <1>2, <1>3

\* Invisible.
LEMMA TearCloseMaps ==
    ASSUME Inv, Inv', NEW a \in Activities, TearClose(a)
    PROVE  Visible
<1> USE DEF svcVars, ownVars, clientVars, schVars, srvVars, stateVars, ctlVars, lockVars
<1>1. Phase' = Phase
  BY PhaseInside DEF TearClose, Goto, TearLabels, Inv, ValuesOK
<1>2. stopped' = stopped /\ Held' = Held
  BY HeldSame DEF TearClose
<1> QED
  BY <1>1, <1>2, Invisible DEF Visible

\* Invisible.
LEMMA TearMarkMaps ==
    ASSUME Inv, Inv', NEW a \in Activities, TearMark(a)
    PROVE  Visible
<1> USE DEF svcVars, ownVars, clientVars, schVars, srvVars, stateVars, ctlVars, lockVars
<1>1. Phase' = Phase
  BY PhaseInside DEF TearMark, Goto, TearLabels, Inv, ValuesOK
<1>2. stopped' = stopped /\ Held' = Held
  BY HeldSame DEF TearMark
<1> QED
  BY <1>1, <1>2, Invisible DEF Visible

\* The client is let go of, last.
LEMMA TearShutMaps ==
    ASSUME Inv, Inv', NEW a \in Activities, TearShut(a)
    PROVE  Visible
<1> USE DEF svcVars, ownVars, clientVars, schVars, srvVars, stateVars, ctlVars, lockVars
<1> USE DEF TearShut
<1>1. pc[a] \in TearLabels /\ pc'[a] \in TearLabels
  BY DEF Goto, TearLabels, Inv, ValuesOK
<1>2. Held' = Held \ {"client"}
  BY HeldNow, HeldDrops DEF Ownership!Resources, WorkerAlive, ServeAlive
<1>3. /\ "worker" \notin Held /\ "server" \notin Held /\ "socket" \notin Held
      /\ "state" \in Held => Left = {"state"}
  BY HeldNow DEF Goto, TearLabels, Inv, SafetyInv, TearInv, Left
<1> QED
  BY <1>1, <1>2, <1>3, Tables, TearReleases DEF Ownership!Resources

\* Finish.
LEMMA TearFinishMaps ==
    ASSUME Inv, Inv', NEW a \in Activities, TearFinish(a)
    PROVE  Visible
<1> USE DEF svcVars, ownVars, clientVars, schVars, srvVars, stateVars, ctlVars, lockVars
<1> USE DEF TearFinish, EndStop
<1>1. Held' = Held
  BY HeldSame
<1>2. Phase = "stopping"
  BY PhaseNow DEF Goto, TearLabels
<1>3. Held \subseteq Left
  <2>1. /\ "worker" \notin Held /\ "server" \notin Held /\ "socket" \notin Held
        /\ "client" \notin Held /\ ("state" \in Held => Left = {"state"})
    BY HeldNow DEF Goto, TearLabels, Inv, SafetyInv, LockInv, TearInv, InCall,
           Shutting, Left
  <2> QED
    BY <2>1, HeldNow DEF Ownership!Resources
<1>4. Phase' = "stopped"
  <2>1. lock' = {}
    BY DEF Inv, SafetyInv, LockInv, InCall, Goto, TearLabels, ValuesOK
  <2> QED
    BY <2>1, PhaseNext
<1> QED
  BY <1>1, <1>2, <1>3, <1>4, Milestones DEF Visible

\* Invisible: the activity moves outside the RLock.
LEMMA WaitMaps ==
    ASSUME Inv, Inv', NEW a \in Activities, Wait(a)
    PROVE  Visible
<1> USE DEF svcVars, ownVars, clientVars, schVars, srvVars, stateVars, ctlVars, lockVars
<1>1. stopped' = stopped /\ Held' = Held
  BY HeldSame DEF Wait, AfterWait
<1>2. Phase' = Phase
  <2>1. PICK b \in Activities,
             l \in {"idle", "exit", "final", "start", "stop", "wait", "wait_check"} :
                /\ pc[b] \notin TearLabels /\ pc' = [pc EXCEPT ![b] = l]
                /\ mode' = mode /\ lifecycle' = lifecycle
    BY DEF Wait, AfterWait, Goto, TearLabels
  <2> QED
    BY <2>1, PhaseSame DEF TearLabels, Inv
<1> QED
  BY <1>1, <1>2, Invisible DEF Visible

\* Invisible: the activity moves outside the RLock.
LEMMA WaitCheckMaps ==
    ASSUME Inv, Inv', NEW a \in Activities, WaitCheck(a)
    PROVE  Visible
<1> USE DEF svcVars, ownVars, clientVars, schVars, srvVars, stateVars, ctlVars, lockVars
<1>1. stopped' = stopped /\ Held' = Held
  BY HeldSame DEF WaitCheck, CallOf
<1>2. Phase' = Phase
  <2>1. PICK b \in Activities,
             l \in {"idle", "exit", "final", "start", "stop", "wait", "wait_check"} :
                /\ pc[b] \notin TearLabels /\ pc' = [pc EXCEPT ![b] = l]
                /\ mode' = mode /\ lifecycle' = lifecycle
    BY DEF WaitCheck, CallOf, Goto, TearLabels
  <2> QED
    BY <2>1, PhaseSame DEF TearLabels, Inv
<1> QED
  BY <1>1, <1>2, Invisible DEF Visible

\* Invisible: the activity moves outside the RLock.
LEMMA FinalMaps ==
    ASSUME Inv, Inv', NEW a \in Activities, Final(a)
    PROVE  Visible
<1> USE DEF svcVars, ownVars, clientVars, schVars, srvVars, stateVars, ctlVars, lockVars
<1>1. stopped' = stopped /\ Held' = Held
  BY HeldSame DEF Final, CallOf
<1>2. Phase' = Phase
  <2>1. PICK b \in Activities,
             l \in {"idle", "exit", "final", "start", "stop", "wait", "wait_check"} :
                /\ pc[b] \notin TearLabels /\ pc' = [pc EXCEPT ![b] = l]
                /\ mode' = mode /\ lifecycle' = lifecycle
    BY DEF Final, CallOf, Goto, TearLabels
  <2> QED
    BY <2>1, PhaseSame DEF TearLabels, Inv
<1> QED
  BY <1>1, <1>2, Invisible DEF Visible

\* Invisible: the activity moves outside the RLock.
LEMMA CallMaps ==
    ASSUME Inv, Inv', NEW a \in Activities, Call(a)
    PROVE  Visible
<1> USE DEF svcVars, ownVars, clientVars, schVars, srvVars, stateVars, ctlVars, lockVars
<1>1. stopped' = stopped /\ Held' = Held
  BY HeldSame DEF Call, MainCalls, CallerCalls, RequestArrives, CallOf
<1>2. Phase' = Phase
  <2>1. PICK b \in Activities,
             l \in {"idle", "exit", "final", "start", "stop", "wait", "wait_check"} :
                /\ pc[b] \notin TearLabels /\ pc' = [pc EXCEPT ![b] = l]
                /\ mode' = mode /\ lifecycle' = lifecycle
    BY DEF Call, MainCalls, CallerCalls, RequestArrives, CallOf, Goto, TearLabels
  <2> QED
    BY <2>1, PhaseSame DEF TearLabels, Inv
<1> QED
  BY <1>1, <1>2, Invisible DEF Visible

\* The worker and the serving thread end; their other steps are invisible.
LEMMA ThreadsMap ==
    ASSUME Inv, Inv', WorkerStep \/ ServeStep
    PROVE  Visible
<1> USE DEF svcVars, ownVars, clientVars, schVars, srvVars, stateVars, ctlVars,
            lockVars,
            WorkerGoes, ServeGoes
<1>1. stopped' = stopped /\ Phase' = Phase
  <2>1. UNCHANGED <<lifecycle, stopped, pc, mode>>
    BY DEF WorkerStep, WorkerTop, WorkerCheck, WorkerWait, WorkerExit, ServeStep,
           ServeEnter, ServeLeave, ServeEnd
  <2> QED
    BY <2>1 DEF Phase, RollingBack
<1>2. CASE WorkerTop \/ WorkerCheck \/ WorkerWait \/ ServeEnter
  <2>1. /\ client' = client /\ socket' = socket /\ stateFile' = stateFile
        /\ WorkerAlive' = WorkerAlive /\ ServeAlive' = ServeAlive
    BY <1>2 DEF WorkerTop, WorkerCheck, WorkerWait, ServeEnter, WorkerAlive, ServeAlive
  <2>2. Held' = Held
    BY <2>1, HeldNow, HeldBy DEF Ownership!Resources
  <2> QED
    BY <1>1, <2>2, Invisible DEF Visible
<1>3. CASE WorkerExit
  <2>1. Held' = Held \ {"worker"} /\ "worker" \in Held
    BY <1>3, HeldNow, HeldDrops
       DEF Ownership!Resources, WorkerExit, WorkerAlive, ServeAlive
  <2>2. Phase = "stopping"
    <3>1. worker = "exit"
      BY <1>3 DEF WorkerExit
    <3>2. lock # {}
      BY <3>1 DEF Inv, SafetyInv, PhaseInv, RestInv, StoppedMeansReleased, Released,
                  Untouched, WorkerUp, WorkerAlive
    <3>3. PICK a \in lock : a \in Activities /\ InCall(a)
      BY <3>2 DEF Inv, SafetyInv, LockInv, ValuesOK
    <3>4. pc[a] \notin StartLabels
      BY <3>1, <3>3
         DEF Inv, SafetyInv, StartInv, PhaseInv, RestInv, StartLabels, TryLabels, Untouched,
             WorkerUp
    <3> QED
      BY <3>3, <3>4, PhaseNow DEF InCall
  <2>3. "worker" \in Ownership!Resources /\ Ownership!ReleasedBefore("worker") = {}
    BY Tables DEF Ownership!Resources
  <2> QED
    BY <1>1, <2>1, <2>2, <2>3, Releases DEF Visible
<1>4. CASE ServeLeave
  <2>1. Held' = Held \ {"socket"}
    BY <1>4, HeldNow, HeldDrops
       DEF Ownership!Resources, ServeLeave, WorkerAlive, ServeAlive
  <2>2. CASE "socket" \in Held
    BY <1>1, <2>1, <2>2, Loses DEF Visible
  <2>3. CASE "socket" \notin Held
    BY <1>1, <2>1, <2>3, Invisible DEF Visible
  <2> QED
    BY <2>2, <2>3
<1>5. CASE ServeEnd
  <2>1. Held' = Held \ {"server"} /\ "server" \in Held
    BY <1>5, HeldNow, HeldDrops
       DEF Ownership!Resources, ServeEnd, SetDone, WorkerAlive, ServeAlive
  <2>2. "socket" \notin Held
    BY <1>5, HeldNow DEF ServeEnd, Inv, MapInv
  <2> QED
    BY <1>1, <2>1, <2>2, Loses DEF Visible
<1> QED
  BY <1>2, <1>3, <1>4, <1>5 DEF WorkerStep, ServeStep

\* Every step maps to a step or a stutter.
LEMMA OwnershipStep == Inv /\ Inv' /\ [Next]_vars => Visible
<1> SUFFICES ASSUME Inv, Inv', [Next]_vars PROVE Visible
  OBVIOUS
<1>1. ASSUME NEW a \in Activities, StartStep(a) PROVE Visible
  BY <1>1, StartEnterMaps, BeginMaps, CreateClientMaps, CreateServerMaps, SchedStartMaps,
     SrvStartMaps, CaptureMaps, WriteStateMaps, RunningMaps DEF StartStep
<1>2. ASSUME NEW a \in Activities, TearStep(a) PROVE Visible
  BY <1>2, StopEnterMaps, TearSchedMaps, TearSchedBodyMaps, TearJoinMaps, TearSrvMaps,
     TearSrvJoinMaps, TearSrvCloseMaps, TearClearMaps, TearCloseMaps, TearMarkMaps, TearShutMaps,
     TearFinishMaps
     DEF TearStep
<1>3. ASSUME NEW a \in Activities, Wait(a) \/ WaitCheck(a) \/ Final(a) \/ Call(a)
      PROVE  Visible
  BY <1>3, WaitMaps, WaitCheckMaps, FinalMaps, CallMaps
<1>4. CASE WorkerStep \/ ServeStep
  BY <1>4, ThreadsMap
<1>5. CASE Exited \/ UNCHANGED vars
  <2>1. UNCHANGED vars
    BY <1>5 DEF Exited
  <2>2. stopped' = stopped /\ Held' = Held
    BY <2>1, HeldSame
       DEF vars, svcVars, ownVars, clientVars, schVars, srvVars, stateVars
  <2>3. Phase' = Phase
    BY <2>1 DEF Phase, RollingBack, vars, svcVars, ctlVars
  <2> QED
    BY <2>2, <2>3, Invisible DEF Visible
<1> QED
  BY <1>1, <1>2, <1>3, <1>4, <1>5 DEF Next, Proceed

\* KiroxService implements ServiceOwnership (the docstring of stop(): "Stop
\* scheduler, server, state, and client in ownership order."), whichever of its
\* threads and callers run, in any order, and whatever fails.
THEOREM ServiceKeepsPromise == Spec => OwnershipSpec
<1>1. Init => Ownership!Init
  <2> SUFFICES ASSUME Init PROVE Ownership!Init
    OBVIOUS
  <2>1. Phase = "new" /\ stopped = TRUE
    BY DEF Init, Phase, RollingBack, TearLabels
  <2>2. Held \in {{}, {"client"}}
    <3>1. Held \subseteq {"client"}
      BY HeldNow DEF Init, WorkerAlive, ServeAlive, Ownership!Resources
    <3> QED
      BY <3>1
  <2> QED
    BY <2>1, <2>2, Zenon DEF Ownership!Init, Phase, Held
<1>2. Inv /\ Inv' /\ [Next]_vars => [Ownership!Next]_(Ownership!absVars)
  BY OwnershipStep DEF Visible
<1> QED
  BY <1>1, <1>2, InvHolds, PTL DEF Spec, OwnershipSpec, Ownership!Spec

-----------------------------------------------------------------------------
(* Signals.  The frames of the main thread share the RLock, so a start() may *)
(* be frozen below a stop(): it goes on in a service already stopped, and    *)
(* SafetyInv is lost.  What stays true is that start() acquires only while   *)
(* no other activity is inside the lock, that a part acquired is known to    *)
(* the tear-down, and that what a tear-down has let go of nobody takes back. *)

\* Frames of handlers that run or are interrupted are on the stack; the
\* activities inside the RLock belong to one thread.  A KeyboardInterrupt
\* leaves this true; what follows it does not.
HandlerLabels == {"idle", "exit", "raised", "stop"} \cup TearLabels

FrameInv ==
    /\ stack \in Seq(Handlers)
    /\ \A h \in Handlers :
          /\ pc[h] \in HandlerLabels
          /\ cont[h] # "wait"
          /\ cont[h] = "idle" => pc[h] = "idle"
          /\ pc[h] \in {"stop"} \cup TearLabels => \E i \in 1 .. Len(stack) : stack[i] = h
    /\ \A a \in Activities : a \in lock <=> InCall(a)
    /\ \A a, b \in lock : ThreadOf(a) = ThreadOf(b)

RestingInv ==
    /\ lock = {} => lifecycle \in {"new", "running", "stopped"}
    /\ lifecycle = "new" =>
          /\ \A a \in Activities : InCall(a) => pc[a] = "begin"
          /\ Untouched /\ client # "closed" /\ ~stateFile
    /\ lifecycle = "stopped" /\ lock = {} => Released /\ stopped

KnownInv ==
    /\ WorkerAlive => scheduler /\ schThread
    /\ ServeAlive  => srvThread /\ ~srvClosed /\ socket # "none"
    /\ srvClosed => socket = "closed"
    /\ stateFile => stateOwner
    /\ client # "closed" /\ clientClosed => Shutting

AcquireInv ==
    \A a \in Activities :
        /\ pc[a] \in {"begin", "create_client", "create_server"} => Untouched
        /\ pc[a] \in {"sched_start", "srv_start"} => scheduler /\ socket # "none"
        /\ pc[a] = "write_state" => stateOwner
        /\ pc[a] \in {"td_srv_join", "td_srv_close"} => socket # "none"

SignalInv == RestingInv /\ KnownInv /\ AcquireInv /\ TearInv

\* No KeyboardInterrupt was raised; once one was, that is never forgotten.
Handled == \A h \in Handlers : pc[h] # "raised"
RaisedInv == \A h \in Handlers : pc[h] = "raised" => cont[h] = "exit"

\* The main thread is no handler, and a frame of it that runs is the innermost.
LEMMA Frames ==
    ASSUME FrameInv, NEW a \in Activities, Scheduled(a), a \notin Handlers
    PROVE  /\ ThreadOf(a) = a
           /\ \A b \in lock : ThreadOf(b) = a => b = a
<1>1. ThreadOf(a) = a /\ Main \notin Handlers
  BY DistinctActivities DEF ThreadOf
<1>2. ASSUME NEW b \in lock, ThreadOf(b) = a PROVE b = a
  <2>1. CASE b \notin Handlers
    BY <1>2, <2>1 DEF ThreadOf
  <2>2. CASE b \in Handlers
    <3>1. a = Main /\ a = Top
      BY <1>1, <1>2, <2>2 DEF ThreadOf, Scheduled
    <3>2. pc[b] \in {"stop"} \cup TearLabels
      BY <2>2, HandlersAreActivities DEF FrameInv, HandlerLabels, InCall, StartLabels, TryLabels, TearLabels
    <3>3. stack \in Seq(Handlers) /\ stack # <<>>
      BY <2>2, <3>2 DEF FrameInv
    <3>4. Head(stack) \in Handlers
      BY <3>3
    <3> QED
      BY <1>1, <3>1, <3>3, <3>4 DEF Top
  <2> QED
    BY <2>1, <2>2
<1> QED
  BY <1>1, <1>2

\* Whoever acquires is the only activity inside the RLock.
LEMMA AcquiresAlone ==
    ASSUME FrameInv, NEW a \in Activities, Scheduled(a), pc[a] \in StartLabels
    PROVE  lock = {a} /\ a \notin Handlers
<1>1. a \notin Handlers
  BY DEF FrameInv, HandlerLabels, StartLabels, TryLabels, TearLabels
<1>2. a \in lock
  BY DEF FrameInv, InCall
<1> QED
  BY <1>1, <1>2, Frames DEF FrameInv

\* Whoever enters start() finds nobody inside.
LEMMA EntersFree ==
    ASSUME FrameInv, NEW a \in Activities, Scheduled(a), pc[a] = "start", RLockFree(a)
    PROVE  lock = {} /\ a \notin Handlers
<1>1. a \notin Handlers
  BY DEF FrameInv, HandlerLabels, TearLabels
<1>2. a \notin lock
  BY DEF FrameInv, InCall, StartLabels, TryLabels, TearLabels
<1> QED
  BY <1>1, <1>2, Frames DEF RLockFree

\* An activity moves, and enters or leaves the RLock as its place says.
LEMMA FrameMoves ==
    ASSUME ValuesOK, FrameInv, NEW a \in Activities, NEW p \in Labels,
           pc' = [pc EXCEPT ![a] = p], stack' = stack,
           \A h \in Handlers : cont'[h] = cont[h],
           a \in Handlers => /\ p \in HandlerLabels
                             /\ pc[a] # "idle"
                             /\ p \in {"stop"} \cup TearLabels => pc[a] \in {"stop"} \cup TearLabels,
           lock' = IF p \in StartLabels \cup TearLabels THEN lock \cup {a} ELSE lock \ {a},
           p \in StartLabels \cup TearLabels => InCall(a) \/ RLockFree(a)
    PROVE  FrameInv'
<1>0. pc \in [Activities -> Labels] /\ Handlers \subseteq Activities /\ lock \subseteq Activities
  BY HandlersAreActivities DEF ValuesOK
<1>1. \A b \in Activities : pc'[b] = IF b = a THEN p ELSE pc[b]
  BY <1>0
<1>2. stack' \in Seq(Handlers)
  BY DEF FrameInv
<1>3. ASSUME NEW h \in Handlers
      PROVE  /\ pc'[h] \in HandlerLabels
             /\ cont'[h] # "wait"
             /\ cont'[h] = "idle" => pc'[h] = "idle"
             /\ pc'[h] \in {"stop"} \cup TearLabels => \E i \in 1 .. Len(stack) : stack[i] = h
  BY <1>0, <1>1 DEF FrameInv
<1>4. ASSUME NEW b \in Activities PROVE b \in lock' <=> InCall(b)'
  BY <1>1 DEF FrameInv, InCall
<1>5. ASSUME NEW b \in lock', NEW c \in lock' PROVE ThreadOf(b) = ThreadOf(c)
  <2>1. \A d \in lock : a \in lock' => ThreadOf(d) = ThreadOf(a)
    BY DEF FrameInv, RLockFree
  <2> QED
    BY <2>1 DEF FrameInv
<1> QED
  BY <1>2, <1>3, <1>4, <1>5 DEF FrameInv

\* A move inside start() or the tear-down keeps the lock.
LEMMA FrameStays ==
    ASSUME ValuesOK, FrameInv, NEW a \in Activities, InCall(a),
           NEW p \in StartLabels \cup TearLabels, a \in Handlers => p \in TearLabels,
           pc' = [pc EXCEPT ![a] = p], stack' = stack, cont' = cont, lock' = lock
    PROVE  FrameInv'
<1>1. a \in lock /\ p \in Labels
  BY DEF FrameInv, Labels
<1>2. a \in Handlers => pc[a] \in TearLabels /\ pc[a] # "idle"
  BY DEF FrameInv, HandlerLabels, InCall, StartLabels, TryLabels, TearLabels
<1> QED
  BY <1>1, <1>2, FrameMoves DEF HandlerLabels

\* A move or a call outside the RLock.
LEMMA FrameOutside ==
    ASSUME ValuesOK, FrameInv, NEW a \in Activities, a \notin Handlers, ~InCall(a),
           NEW p \in IdleLabels \cup EntryLabels,
           pc' = [pc EXCEPT ![a] = p], stack' = stack, lock' = lock,
           \A h \in Handlers : cont'[h] = cont[h]
    PROVE  FrameInv'
<1>1. a \notin lock /\ p \in Labels /\ p \notin StartLabels \cup TearLabels
  BY DEF FrameInv, Labels, IdleLabels, EntryLabels, StartLabels, TryLabels, TearLabels
<1>2. lock' = lock \ {a}
  BY <1>1
<1> QED
  BY <1>1, <1>2, FrameMoves

\* A step of an activity keeps the frames: one case per action.
LEMMA FrameActivity ==
    ASSUME ValuesOK, FrameInv, NEW a \in Activities, Scheduled(a),
           Proceed(a) \/ Call(a), stack' = stack
    PROVE  FrameInv'
<1> USE DEF svcVars, ownVars, clientVars, schVars, srvVars, stateVars, ctlVars, lockVars,
            Goto, Return, Advance, Rollback, FailedStart, AfterWait,
            ValuesOK, Labels, IdleLabels, EntryLabels, StartLabels, TryLabels, TearLabels,
            InCall, HandlerLabels
<1>0. FrameInv
  OBVIOUS
<1>1. CASE StartEnter(a)
  <2> USE <1>1 DEF StartEnter, MayStart
  <2>1. pc[a] = "start" /\ lock = {} /\ a \notin Handlers
    BY <1>0, EntersFree
  <2>2. FrameInv'
    BY <1>0, <2>1, FrameMoves
  <2> QED
    BY <2>2
<1>2. CASE CreateClient(a)
  <2> USE <1>2 DEF CreateClient
  <2>1. lock = {a} /\ a \notin Handlers
    BY <1>0, AcquiresAlone
  <2>2. FrameInv'
    BY <1>0, <2>1, FrameStays
  <2> QED
    BY <2>2
<1>3. CASE CreateServer(a)
  <2> USE <1>3 DEF CreateServer
  <2>1. lock = {a} /\ a \notin Handlers
    BY <1>0, AcquiresAlone
  <2>2. FrameInv'
    BY <1>0, <2>1, FrameStays
  <2> QED
    BY <2>2
<1>4. CASE SchedStart(a)
  <2> USE <1>4 DEF SchedStart
  <2>1. lock = {a} /\ a \notin Handlers
    BY <1>0, AcquiresAlone
  <2>2. FrameInv'
    BY <1>0, <2>1, FrameStays
  <2> QED
    BY <2>2
<1>5. CASE SrvStart(a)
  <2> USE <1>5 DEF SrvStart
  <2>1. lock = {a} /\ a \notin Handlers
    BY <1>0, AcquiresAlone
  <2>2. FrameInv'
    BY <1>0, <2>1, FrameStays
  <2> QED
    BY <2>2
<1>6. CASE Capture(a)
  <2> USE <1>6 DEF Capture
  <2>1. lock = {a} /\ a \notin Handlers
    BY <1>0, AcquiresAlone
  <2>2. FrameInv'
    BY <1>0, <2>1, FrameStays
  <2> QED
    BY <2>2
<1>7. CASE WriteState(a)
  <2> USE <1>7 DEF WriteState, WriteError
  <2>1. lock = {a} /\ a \notin Handlers
    BY <1>0, AcquiresAlone
  <2>2. FrameInv'
    BY <1>0, <2>1, FrameStays
  <2> QED
    BY <2>2
<1>8. CASE Running(a)
  <2> USE <1>8 DEF Running
  <2>1. lock = {a} /\ a \notin Handlers
    BY <1>0, AcquiresAlone
  <2>2. FrameInv'
    BY <1>0, <2>1, FrameMoves
  <2> QED
    BY <2>2
<1>9. CASE StopEnter(a)
  <2> USE <1>9 DEF StopEnter, BeginStop
  <2>1. pc[a] = "stop" /\ a \notin lock
    BY <1>0 DEF FrameInv
  <2>2. FrameInv'
    BY <1>0, <2>1, FrameMoves DEF FrameInv
  <2> QED
    BY <2>2
<1>10. CASE TearSched(a)
  <2> USE <1>10 DEF TearSched
  <2>1. InCall(a) /\ a \in lock
    BY <1>0 DEF FrameInv
  <2>2. FrameInv'
    BY <1>0, <2>1, FrameStays
  <2> QED
    BY <2>2
<1>11. CASE TearSchedBody(a)
  <2> USE <1>11 DEF TearSchedBody, Interrupt
  <2>1. InCall(a) /\ a \in lock
    BY <1>0 DEF FrameInv
  <2>2. FrameInv'
    BY <1>0, <2>1, FrameStays
  <2> QED
    BY <2>2
<1>12. CASE TearJoin(a)
  <2> USE <1>12 DEF TearJoin, WorkerJoined
  <2>1. InCall(a) /\ a \in lock
    BY <1>0 DEF FrameInv
  <2>2. FrameInv'
    BY <1>0, <2>1, FrameStays
  <2> QED
    BY <2>2
<1>13. CASE TearSrv(a)
  <2> USE <1>13 DEF TearSrv, NothingToClose
  <2>1. InCall(a) /\ a \in lock
    BY <1>0 DEF FrameInv
  <2>2. FrameInv'
    BY <1>0, <2>1, FrameStays
  <2> QED
    BY <2>2
<1>14. CASE TearSrvJoin(a)
  <2> USE <1>14 DEF TearSrvJoin
  <2>1. InCall(a) /\ a \in lock
    BY <1>0 DEF FrameInv
  <2>2. FrameInv'
    BY <1>0, <2>1, FrameStays
  <2> QED
    BY <2>2
<1>15. CASE TearSrvClose(a)
  <2> USE <1>15 DEF TearSrvClose
  <2>1. InCall(a) /\ a \in lock
    BY <1>0 DEF FrameInv
  <2>2. FrameInv'
    BY <1>0, <2>1, FrameStays
  <2> QED
    BY <2>2
<1>16. CASE TearClear(a)
  <2> USE <1>16 DEF TearClear, ClearFailed
  <2>1. InCall(a) /\ a \in lock
    BY <1>0 DEF FrameInv
  <2>2. FrameInv'
    BY <1>0, <2>1, FrameStays
  <2> QED
    BY <2>2
<1>17. CASE TearClose(a)
  <2> USE <1>17 DEF TearClose, CloseNothing
  <2>1. InCall(a) /\ a \in lock
    BY <1>0 DEF FrameInv
  <2>2. FrameInv'
    BY <1>0, <2>1, FrameStays
  <2> QED
    BY <2>2
<1>18. CASE TearFinish(a)
  <2> USE <1>18 DEF TearFinish, EndStop
  <2>1. InCall(a) /\ a \in lock
    BY <1>0 DEF FrameInv
  <2>2. FrameInv'
    <3>1. PICK p \in {"idle", "exit", "wait", "final"} : pc' = [pc EXCEPT ![a] = p] /\ (a \in Handlers => p \in {"idle", "exit"})
      BY <1>0, <2>1, DistinctActivities DEF FrameInv
    <3>2. lock' = lock \ {a} /\ p \in Labels /\ p \notin StartLabels \cup TearLabels
      OBVIOUS
    <3>3. a \in Handlers => pc[a] # "idle"
      BY <2>1
    <3>4. \A h \in Handlers : cont'[h] = cont[h]
      OBVIOUS
    <3>5. ValuesOK
      OBVIOUS
    <3>6. p \notin {"stop"} \cup TearLabels /\ p \in {"idle", "exit", "stop"} \cup TearLabels \cup {"wait", "final"}
      BY <3>1
    <3> HIDE <1>18 DEF TearFinish, ValuesOK, EndStop, Labels, StartLabels, TryLabels, TearLabels
    <3> QED
      BY <1>0, <3>1, <3>2, <3>3, <3>4, <3>5, <3>6, FrameMoves
  <2> QED
    BY <2>2
<1>19. CASE Wait(a)
  <2> USE <1>19 DEF Wait
  <2>1. a \notin Handlers /\ a \notin lock
    BY <1>0 DEF FrameInv
  <2>2. FrameInv'
    BY <1>0, <2>1, FrameMoves
  <2> QED
    BY <2>2
<1>20. CASE WaitCheck(a)
  <2> USE <1>20 DEF WaitCheck, CallOf
  <2>1. a \notin Handlers /\ a \notin lock
    BY <1>0 DEF FrameInv
  <2>2. FrameInv'
    <3>1. \A h \in Handlers : cont'[h] = cont[h]
      BY <2>1, HandlersAreActivities
    <3>2. CASE pc' = [pc EXCEPT ![a] = "stop"]
      BY <1>0, <2>1, <3>1, <3>2, FrameOutside
    <3>3. CASE pc' = [pc EXCEPT ![a] = "wait"]
      BY <1>0, <2>1, <3>1, <3>3, FrameOutside
    <3> QED
      BY <3>2, <3>3
  <2> QED
    BY <2>2
<1>21. CASE Final(a)
  <2> USE <1>21 DEF Final, CallOf
  <2>1. a \notin Handlers /\ a \notin lock
    BY <1>0 DEF FrameInv
  <2>2. FrameInv'
    <3>1. \A h \in Handlers : cont'[h] = cont[h]
      BY <2>1, HandlersAreActivities
    <3> QED
      BY <1>0, <2>1, <3>1, FrameOutside
  <2> QED
    BY <2>2
<1>22. CASE Call(a)
  <2> USE <1>22 DEF Call, MainCalls, CallerCalls, RequestArrives, CallOf
  <2>1. a \notin Handlers /\ a \notin lock
    BY <1>0, DistinctActivities DEF FrameInv
  <2>2. FrameInv'
    <3>1. \A h \in Handlers : cont'[h] = cont[h]
      BY <2>1, HandlersAreActivities
    <3>2. PICK op \in EntryLabels : pc' = [pc EXCEPT ![a] = op]
      OBVIOUS
    <3>3. pc[a] = "idle" /\ lock' = lock
      OBVIOUS
    <3>4. op \in IdleLabels \cup EntryLabels /\ ~InCall(a)
      BY <3>3
    <3> QED
      BY <1>0, <2>1, <3>1, <3>2, <3>3, <3>4, FrameOutside
  <2> QED
    BY <2>2
<1>23. CASE Begin(a)
  <2> USE <1>23 DEF Begin
  <2>1. lock = {a} /\ a \notin Handlers
    BY <1>0, AcquiresAlone
  <2>2. FrameInv'
    BY <1>0, <2>1, FrameStays
  <2> QED
    BY <2>2
<1>24. CASE TearMark(a)
  <2> USE <1>24 DEF TearMark
  <2>1. InCall(a) /\ a \in lock
    BY <1>0 DEF FrameInv
  <2>2. FrameInv'
    BY <1>0, <2>1, FrameStays
  <2> QED
    BY <2>2
<1>25. CASE TearShut(a)
  <2> USE <1>25 DEF TearShut
  <2>1. InCall(a) /\ a \in lock
    BY <1>0 DEF FrameInv
  <2>2. FrameInv'
    BY <1>0, <2>1, FrameStays
  <2> QED
    BY <2>2
<1> QED
  BY <1>1, <1>2, <1>3, <1>4, <1>5, <1>6, <1>7, <1>8, <1>9, <1>10, <1>11, <1>12, <1>13,
     <1>14, <1>15, <1>16, <1>17, <1>18, <1>19, <1>20, <1>21, <1>22, <1>23, <1>24, <1>25
     DEF Proceed, StartStep, TearStep

\* A step of an activity that runs leaves the invariant true: one case per
\* action.
LEMMA ActivityKeeps ==
    ASSUME ValuesOK, FrameInv, FrameInv', SignalInv, NEW a \in Activities,
           Scheduled(a), Proceed(a) \/ Call(a), stack' = stack
    PROVE  SignalInv'
<1> USE DEF svcVars, ownVars, clientVars, schVars, srvVars, stateVars, ctlVars, lockVars,
            Goto, Return, Advance, Rollback, FailedStart, AfterWait,
            ValuesOK, Labels, IdleLabels, EntryLabels, StartLabels, TryLabels, TearLabels,
            HandlerLabels, WorkerAlive, ServeAlive, InCall, Untouched, Shutting
<1>0. FrameInv /\ RestingInv /\ KnownInv /\ AcquireInv /\ TearInv
  BY DEF SignalInv
<1>1. CASE StartEnter(a)
  <2> USE <1>1 DEF StartEnter, MayStart
  <2>1. pc[a] = "start" /\ lock = {} /\ a \notin Handlers
    BY <1>0, EntersFree
  <2>2. RestingInv' /\ KnownInv'
    BY <1>0, <2>1 DEF RestingInv, KnownInv, AcquireInv, TearInv, FrameInv, Released
  <2>3. AcquireInv' /\ TearInv'
    BY <1>0, <2>1 DEF AcquireInv, TearInv, FrameInv, RestingInv, KnownInv
  <2> QED
    BY <2>2, <2>3 DEF SignalInv
<1>2. CASE CreateClient(a)
  <2> USE <1>2 DEF CreateClient
  <2>1. lock = {a} /\ a \notin Handlers
    BY <1>0, AcquiresAlone
  <2>2. RestingInv' /\ KnownInv'
    BY <1>0, <2>1 DEF RestingInv, KnownInv, AcquireInv, TearInv, FrameInv, Released
  <2>3. AcquireInv' /\ TearInv'
    BY <1>0, <2>1 DEF AcquireInv, TearInv, FrameInv, RestingInv, KnownInv
  <2> QED
    BY <2>2, <2>3 DEF SignalInv
<1>3. CASE CreateServer(a)
  <2> USE <1>3 DEF CreateServer
  <2>1. lock = {a} /\ a \notin Handlers
    BY <1>0, AcquiresAlone
  <2>2. RestingInv' /\ KnownInv'
    BY <1>0, <2>1 DEF RestingInv, KnownInv, AcquireInv, TearInv, FrameInv, Released
  <2>3. AcquireInv' /\ TearInv'
    BY <1>0, <2>1 DEF AcquireInv, TearInv, FrameInv, RestingInv, KnownInv
  <2> QED
    BY <2>2, <2>3 DEF SignalInv
<1>4. CASE SchedStart(a)
  <2> USE <1>4 DEF SchedStart
  <2>1. lock = {a} /\ a \notin Handlers
    BY <1>0, AcquiresAlone
  <2>2. RestingInv' /\ KnownInv'
    BY <1>0, <2>1 DEF RestingInv, KnownInv, AcquireInv, TearInv, FrameInv, Released
  <2>3. AcquireInv' /\ TearInv'
    BY <1>0, <2>1 DEF AcquireInv, TearInv, FrameInv, RestingInv, KnownInv
  <2> QED
    BY <2>2, <2>3 DEF SignalInv
<1>5. CASE SrvStart(a)
  <2> USE <1>5 DEF SrvStart
  <2>1. lock = {a} /\ a \notin Handlers
    BY <1>0, AcquiresAlone
  <2>2. RestingInv' /\ KnownInv'
    BY <1>0, <2>1 DEF RestingInv, KnownInv, AcquireInv, TearInv, FrameInv, Released
  <2>3. AcquireInv' /\ TearInv'
    BY <1>0, <2>1 DEF AcquireInv, TearInv, FrameInv, RestingInv, KnownInv
  <2> QED
    BY <2>2, <2>3 DEF SignalInv
<1>6. CASE Capture(a)
  <2> USE <1>6 DEF Capture
  <2>1. lock = {a} /\ a \notin Handlers
    BY <1>0, AcquiresAlone
  <2>2. RestingInv' /\ KnownInv'
    BY <1>0, <2>1 DEF RestingInv, KnownInv, AcquireInv, TearInv, FrameInv, Released
  <2>3. AcquireInv' /\ TearInv'
    BY <1>0, <2>1 DEF AcquireInv, TearInv, FrameInv, RestingInv, KnownInv
  <2> QED
    BY <2>2, <2>3 DEF SignalInv
<1>7. CASE WriteState(a)
  <2> USE <1>7 DEF WriteState, WriteError
  <2>1. lock = {a} /\ a \notin Handlers
    BY <1>0, AcquiresAlone
  <2>2. RestingInv' /\ KnownInv'
    BY <1>0, <2>1 DEF RestingInv, KnownInv, AcquireInv, TearInv, FrameInv, Released
  <2>3. AcquireInv' /\ TearInv'
    BY <1>0, <2>1 DEF AcquireInv, TearInv, FrameInv, RestingInv, KnownInv
  <2> QED
    BY <2>2, <2>3 DEF SignalInv
<1>8. CASE Running(a)
  <2> USE <1>8 DEF Running
  <2>1. lock = {a} /\ a \notin Handlers
    BY <1>0, AcquiresAlone
  <2>2. RestingInv' /\ KnownInv'
    BY <1>0, <2>1 DEF RestingInv, KnownInv, AcquireInv, TearInv, FrameInv, Released
  <2>3. AcquireInv' /\ TearInv'
    BY <1>0, <2>1 DEF AcquireInv, TearInv, FrameInv, RestingInv, KnownInv
  <2> QED
    BY <2>2, <2>3 DEF SignalInv
<1>9. CASE StopEnter(a)
  <2> USE <1>9 DEF StopEnter, BeginStop
  <2>1. pc[a] = "stop" /\ a \notin lock
    BY <1>0 DEF FrameInv
  <2>2. RestingInv' /\ KnownInv'
    BY <1>0, <2>1 DEF RestingInv, KnownInv, AcquireInv, TearInv, FrameInv, Released
  <2>3. AcquireInv' /\ TearInv'
    BY <1>0, <2>1 DEF AcquireInv, TearInv, FrameInv, RestingInv, KnownInv
  <2> QED
    BY <2>2, <2>3 DEF SignalInv
<1>10. CASE TearSched(a)
  <2> USE <1>10 DEF TearSched
  <2>1. InCall(a) /\ a \in lock
    BY <1>0 DEF FrameInv
  <2>2. RestingInv' /\ KnownInv'
    BY <1>0, <2>1 DEF RestingInv, KnownInv, AcquireInv, TearInv, FrameInv, Released
  <2>3. AcquireInv' /\ TearInv'
    BY <1>0, <2>1 DEF AcquireInv, TearInv, FrameInv, RestingInv, KnownInv
  <2> QED
    BY <2>2, <2>3 DEF SignalInv
<1>11. CASE TearSchedBody(a)
  <2> USE <1>11 DEF TearSchedBody, Interrupt
  <2>1. InCall(a) /\ a \in lock
    BY <1>0 DEF FrameInv
  <2>2. RestingInv' /\ KnownInv'
    BY <1>0, <2>1 DEF RestingInv, KnownInv, AcquireInv, TearInv, FrameInv, Released
  <2>3. AcquireInv' /\ TearInv'
    BY <1>0, <2>1 DEF AcquireInv, TearInv, FrameInv, RestingInv, KnownInv
  <2> QED
    BY <2>2, <2>3 DEF SignalInv
<1>12. CASE TearJoin(a)
  <2> USE <1>12 DEF TearJoin, WorkerJoined
  <2>1. InCall(a) /\ a \in lock
    BY <1>0 DEF FrameInv
  <2>2. RestingInv' /\ KnownInv'
    BY <1>0, <2>1 DEF RestingInv, KnownInv, AcquireInv, TearInv, FrameInv, Released
  <2>3. AcquireInv' /\ TearInv'
    BY <1>0, <2>1 DEF AcquireInv, TearInv, FrameInv, RestingInv, KnownInv
  <2> QED
    BY <2>2, <2>3 DEF SignalInv
<1>13. CASE TearSrv(a)
  <2> USE <1>13 DEF TearSrv, NothingToClose
  <2>1. InCall(a) /\ a \in lock
    BY <1>0 DEF FrameInv
  <2>2. RestingInv' /\ KnownInv'
    BY <1>0, <2>1 DEF RestingInv, KnownInv, AcquireInv, TearInv, FrameInv, Released
  <2>3. AcquireInv' /\ TearInv'
    BY <1>0, <2>1 DEF AcquireInv, TearInv, FrameInv, RestingInv, KnownInv
  <2> QED
    BY <2>2, <2>3 DEF SignalInv
<1>14. CASE TearSrvJoin(a)
  <2> USE <1>14 DEF TearSrvJoin
  <2>1. InCall(a) /\ a \in lock
    BY <1>0 DEF FrameInv
  <2>2. RestingInv' /\ KnownInv'
    BY <1>0, <2>1 DEF RestingInv, KnownInv, AcquireInv, TearInv, FrameInv, Released
  <2>3. AcquireInv' /\ TearInv'
    BY <1>0, <2>1 DEF AcquireInv, TearInv, FrameInv, RestingInv, KnownInv
  <2> QED
    BY <2>2, <2>3 DEF SignalInv
<1>15. CASE TearSrvClose(a)
  <2> USE <1>15 DEF TearSrvClose
  <2>1. InCall(a) /\ a \in lock
    BY <1>0 DEF FrameInv
  <2>2. RestingInv' /\ KnownInv'
    BY <1>0, <2>1 DEF RestingInv, KnownInv, AcquireInv, TearInv, FrameInv, Released
  <2>3. AcquireInv' /\ TearInv'
    BY <1>0, <2>1 DEF AcquireInv, TearInv, FrameInv, RestingInv, KnownInv
  <2> QED
    BY <2>2, <2>3 DEF SignalInv
<1>16. CASE TearClear(a)
  <2> USE <1>16 DEF TearClear, ClearFailed
  <2>1. InCall(a) /\ a \in lock
    BY <1>0 DEF FrameInv
  <2>2. RestingInv' /\ KnownInv'
    BY <1>0, <2>1 DEF RestingInv, KnownInv, AcquireInv, TearInv, FrameInv, Released
  <2>3. AcquireInv' /\ TearInv'
    BY <1>0, <2>1 DEF AcquireInv, TearInv, FrameInv, RestingInv, KnownInv
  <2> QED
    BY <2>2, <2>3 DEF SignalInv
<1>17. CASE TearClose(a)
  <2> USE <1>17 DEF TearClose, CloseNothing
  <2>1. InCall(a) /\ a \in lock
    BY <1>0 DEF FrameInv
  <2>2. RestingInv' /\ KnownInv'
    BY <1>0, <2>1 DEF RestingInv, KnownInv, AcquireInv, TearInv, FrameInv, Released
  <2>3. AcquireInv' /\ TearInv'
    BY <1>0, <2>1 DEF AcquireInv, TearInv, FrameInv, RestingInv, KnownInv
  <2> QED
    BY <2>2, <2>3 DEF SignalInv
<1>18. CASE TearFinish(a)
  <2> USE <1>18 DEF TearFinish, EndStop
  <2>1. InCall(a) /\ a \in lock
    BY <1>0 DEF FrameInv
  <2>2. RestingInv' /\ KnownInv'
    BY <1>0, <2>1 DEF RestingInv, KnownInv, AcquireInv, TearInv, FrameInv, Released
  <2>3. AcquireInv' /\ TearInv'
    BY <1>0, <2>1 DEF AcquireInv, TearInv, FrameInv, RestingInv, KnownInv
  <2> QED
    BY <2>2, <2>3 DEF SignalInv
<1>19. CASE Wait(a)
  <2> USE <1>19 DEF Wait
  <2>1. a \notin Handlers /\ a \notin lock
    BY <1>0 DEF FrameInv
  <2>2. RestingInv' /\ KnownInv'
    BY <1>0, <2>1 DEF RestingInv, KnownInv, AcquireInv, TearInv, FrameInv, Released
  <2>3. AcquireInv' /\ TearInv'
    BY <1>0, <2>1 DEF AcquireInv, TearInv, FrameInv, RestingInv, KnownInv
  <2> QED
    BY <2>2, <2>3 DEF SignalInv
<1>20. CASE WaitCheck(a)
  <2> USE <1>20 DEF WaitCheck, CallOf
  <2>1. a \notin Handlers /\ a \notin lock
    BY <1>0 DEF FrameInv
  <2>2. RestingInv' /\ KnownInv'
    BY <1>0, <2>1 DEF RestingInv, KnownInv, AcquireInv, TearInv, FrameInv, Released
  <2>3. AcquireInv' /\ TearInv'
    BY <1>0, <2>1 DEF AcquireInv, TearInv, FrameInv, RestingInv, KnownInv
  <2> QED
    BY <2>2, <2>3 DEF SignalInv
<1>21. CASE Final(a)
  <2> USE <1>21 DEF Final, CallOf
  <2>1. a \notin Handlers /\ a \notin lock
    BY <1>0 DEF FrameInv
  <2>2. RestingInv' /\ KnownInv'
    BY <1>0, <2>1 DEF RestingInv, KnownInv, AcquireInv, TearInv, FrameInv, Released
  <2>3. AcquireInv' /\ TearInv'
    BY <1>0, <2>1 DEF AcquireInv, TearInv, FrameInv, RestingInv, KnownInv
  <2> QED
    BY <2>2, <2>3 DEF SignalInv
<1>22. CASE Call(a)
  <2> USE <1>22 DEF Call, MainCalls, CallerCalls, RequestArrives, CallOf
  <2>1. a \notin Handlers /\ a \notin lock
    BY <1>0, DistinctActivities DEF FrameInv
  <2>2. RestingInv' /\ KnownInv'
    BY <1>0, <2>1 DEF RestingInv, KnownInv, AcquireInv, TearInv, FrameInv, Released
  <2>3. AcquireInv' /\ TearInv'
    BY <1>0, <2>1 DEF AcquireInv, TearInv, FrameInv, RestingInv, KnownInv
  <2> QED
    BY <2>2, <2>3 DEF SignalInv
<1>23. CASE Begin(a)
  <2> USE <1>23 DEF Begin
  <2>1. lock = {a} /\ a \notin Handlers
    BY <1>0, AcquiresAlone
  <2>2. RestingInv' /\ KnownInv'
    BY <1>0, <2>1 DEF RestingInv, KnownInv, AcquireInv, TearInv, FrameInv, Released
  <2>3. AcquireInv' /\ TearInv'
    BY <1>0, <2>1 DEF AcquireInv, TearInv, FrameInv, RestingInv, KnownInv
  <2> QED
    BY <2>2, <2>3 DEF SignalInv
<1>24. CASE TearMark(a)
  <2> USE <1>24 DEF TearMark
  <2>1. InCall(a) /\ a \in lock
    BY <1>0 DEF FrameInv
  <2>2. RestingInv' /\ KnownInv'
    BY <1>0, <2>1 DEF RestingInv, KnownInv, AcquireInv, TearInv, FrameInv, Released
  <2>3. AcquireInv' /\ TearInv'
    BY <1>0, <2>1 DEF AcquireInv, TearInv, FrameInv, RestingInv, KnownInv
  <2> QED
    BY <2>2, <2>3 DEF SignalInv
<1>25. CASE TearShut(a)
  <2> USE <1>25 DEF TearShut
  <2>1. InCall(a) /\ a \in lock
    BY <1>0 DEF FrameInv
  <2>2. RestingInv' /\ KnownInv'
    BY <1>0, <2>1 DEF RestingInv, KnownInv, AcquireInv, TearInv, FrameInv, Released
  <2>3. AcquireInv' /\ TearInv'
    BY <1>0, <2>1 DEF AcquireInv, TearInv, FrameInv, RestingInv, KnownInv
  <2> QED
    BY <2>2, <2>3 DEF SignalInv
<1> QED
  BY <1>1, <1>2, <1>3, <1>4, <1>5, <1>6, <1>7, <1>8, <1>9, <1>10, <1>11, <1>12, <1>13,
     <1>14, <1>15, <1>16, <1>17, <1>18, <1>19, <1>20, <1>21, <1>22, <1>23, <1>24, <1>25
     DEF Proceed, StartStep, TearStep

\* So does a step of the two owned threads.
LEMMA ThreadKeeps ==
    ASSUME ValuesOK, SignalInv, WorkerStep \/ ServeStep
    PROVE  SignalInv'
<1> USE DEF WorkerGoes, ServeGoes, svcVars, clientVars, schVars, srvVars, stateVars, lockVars,
            ctlVars, WorkerAlive, ServeAlive, Untouched, InCall, Shutting
<1>1. CASE WorkerStep
  <2>1. RestingInv' /\ KnownInv'
    BY <1>1 DEF WorkerStep, WorkerTop, WorkerCheck, WorkerWait, WorkerExit,
       SignalInv, RestingInv, KnownInv, Released
  <2>2. AcquireInv' /\ TearInv'
    BY <1>1 DEF WorkerStep, WorkerTop, WorkerCheck, WorkerWait, WorkerExit,
       SignalInv, AcquireInv, TearInv
  <2> QED
    BY <2>1, <2>2 DEF SignalInv
<1>2. CASE ServeStep
  <2>1. RestingInv' /\ KnownInv'
    BY <1>2 DEF ServeStep, ServeEnter, ServeLeave, ServeEnd, SetDone,
       SignalInv, RestingInv, KnownInv, Released
  <2>2. AcquireInv' /\ TearInv'
    BY <1>2 DEF ServeStep, ServeEnter, ServeLeave, ServeEnd, SetDone,
       SignalInv, AcquireInv, TearInv, KnownInv
  <2> QED
    BY <2>1, <2>2 DEF SignalInv
<1> QED
  BY <1>1, <1>2

\* A signal that is handled puts a frame on the stack.
LEMMA FrameDeliver ==
    ASSUME ValuesOK, FrameInv, NEW h \in Handlers, Deliver(h)
    PROVE  FrameInv' /\ \A a \in Activities :
               pc'[a] = pc[a] \/ (a = h /\ pc[a] = "idle" /\ pc'[a] = "stop")
<1> USE DEF lockVars, HandlerLabels, StartLabels, TryLabels, TearLabels
<1>1. /\ pc[h] = "idle" /\ h \in Activities
      /\ pc' = [pc EXCEPT ![h] = "stop"] /\ cont' = [cont EXCEPT ![h] = "exit"]
      /\ lock' = lock /\ stack' = <<h>> \o stack
  BY HandlersAreActivities DEF Deliver, Arrives, Unused, FrameInv
<1>2. pc \in [Activities -> Labels] /\ cont \in [Activities -> {"idle", "wait", "exit"}]
      /\ Handlers \subseteq Activities
  BY HandlersAreActivities DEF ValuesOK
<1>3. stack \in Seq(Handlers)
  BY DEF FrameInv
<1>4. stack' \in Seq(Handlers) /\ Len(stack') = Len(stack) + 1 /\ Len(stack) \in Nat
      /\ stack'[1] = h /\ \A i \in 1 .. Len(stack) : stack'[i + 1] = stack[i]
  BY <1>1, <1>3
<1>5. ASSUME NEW g \in Handlers
      PROVE  /\ pc'[g] \in HandlerLabels
             /\ cont'[g] # "wait"
             /\ cont'[g] = "idle" => pc'[g] = "idle"
             /\ pc'[g] \in {"stop"} \cup TearLabels => \E i \in 1 .. Len(stack') : stack'[i] = g
  <2>1. CASE g = h
    <3>1. 1 \in 1 .. Len(stack')
      BY <1>4
    <3> QED
      BY <1>1, <1>2, <1>4, <2>1, <3>1
  <2>2. CASE g # h
    <3>1. pc'[g] = pc[g] /\ cont'[g] = cont[g]
      BY <1>1, <1>2, <2>2
    <3>2. ASSUME NEW i \in 1 .. Len(stack), stack[i] = g
          PROVE  \E j \in 1 .. Len(stack') : stack'[j] = g
      <4>1. i + 1 \in 1 .. Len(stack') /\ stack'[i + 1] = g
        BY <1>4, <3>2
      <4> QED
        BY <4>1
    <3> QED
      BY <3>1, <3>2 DEF FrameInv
  <2> QED
    BY <2>1, <2>2
<1>6. \A a \in Activities : pc'[a] = IF a = h THEN "stop" ELSE pc[a]
  BY <1>1, <1>2
<1>7. FrameInv'
  BY <1>1, <1>4, <1>5, <1>6 DEF FrameInv, InCall
<1> QED
  BY <1>1, <1>6, <1>7

\* Nothing of the service changes.
LEMMA DeliverKeeps ==
    ASSUME ValuesOK, FrameInv, SignalInv, NEW h \in Handlers, Deliver(h)
    PROVE  SignalInv'
<1> USE DEF svcVars, clientVars, schVars, srvVars, stateVars, lockVars,
            WorkerAlive, ServeAlive, Untouched, InCall, Shutting,
            StartLabels, TryLabels, TearLabels
<1>1. \A a \in Activities :
          pc'[a] = pc[a] \/ (a = h /\ pc[a] = "idle" /\ pc'[a] = "stop")
  BY FrameDeliver
<1>2. RestingInv' /\ KnownInv'
  BY <1>1 DEF Deliver, SignalInv, RestingInv, KnownInv, Released
<1>3. AcquireInv' /\ TearInv'
  BY <1>1 DEF Deliver, SignalInv, AcquireInv, TearInv
<1> QED
  BY <1>2, <1>3 DEF SignalInv

\* The innermost handler returns.
LEMMA FrameReturn ==
    ASSUME FrameInv, NEW h \in Handlers, HandlerReturns(h)
    PROVE  FrameInv'
<1> USE DEF vars, ctlVars, lockVars
<1>1. stack \in Seq(Handlers) /\ stack # <<>> /\ h = Head(stack) /\ pc[h] = "exit"
  BY DEF HandlerReturns, FrameInv
<1>2. stack' = Tail(stack) /\ pc' = pc /\ cont' = cont /\ lock' = lock
  BY DEF HandlerReturns
<1>3. stack' \in Seq(Handlers) /\ Len(stack') = Len(stack) - 1 /\ Len(stack) \in Nat
      /\ stack[1] = h /\ \A i \in 1 .. Len(stack') : stack'[i] = stack[i + 1]
  BY <1>1, <1>2
<1>4. ASSUME NEW g \in Handlers, pc[g] \in {"stop"} \cup TearLabels
      PROVE  \E i \in 1 .. Len(stack') : stack'[i] = g
  <2>1. PICK i \in 1 .. Len(stack) : stack[i] = g
    BY <1>4 DEF FrameInv
  <2>2. i # 1
    BY <1>1, <1>3, <1>4, <2>1 DEF TearLabels
  <2>3. i - 1 \in 1 .. Len(stack') /\ (i - 1) + 1 = i
    BY <1>3, <2>2
  <2>4. stack'[i - 1] = g
    BY <1>3, <2>1, <2>3
  <2> QED
    BY <2>3, <2>4
<1> QED
  BY <1>2, <1>3, <1>4 DEF FrameInv, InCall

\* A signal that raises leaves its mark on its activation, and the main thread
\* goes on somewhere else.
LEMMA RaisedMarks ==
    ASSUME ValuesOK, NEW h \in Handlers,
           RaisedInStart(h) \/ RaisedInStop(h) \/ RaisedOutside(h)
    PROVE  \E p \in {"td_sched", "td_finish", "final", "exit"} :
              /\ Raised(h, p)
              /\ \A a \in Activities :
                    pc'[a] = IF a = h THEN "raised" ELSE IF a = Main THEN p ELSE pc[a]
              /\ \A g \in Activities : cont'[g] = IF g = h THEN "exit" ELSE cont[g]
<1>1. PICK p \in {"td_sched", "td_finish", "final", "exit"} : Raised(h, p)
  BY DEF RaisedInStart, RaisedInStop, RaisedOutside, Escape
<1>2. pc' = [pc EXCEPT ![h] = "raised", ![Main] = p] /\ cont' = [cont EXCEPT ![h] = "exit"]
  BY <1>1 DEF Raised
<1>3. h \in Activities /\ h # Main
  BY HandlersAreActivities, DistinctActivities
<1> QED
  BY <1>1, <1>2, <1>3 DEF ValuesOK

\* A KeyboardInterrupt leaves the frames as they should be: the main thread
\* leaves the RLock when it leaves start() or stop().
LEMMA FrameRaised ==
    ASSUME ValuesOK, FrameInv, NEW h \in Handlers,
           RaisedInStart(h) \/ RaisedInStop(h) \/ RaisedOutside(h)
    PROVE  FrameInv'
<1> USE DEF InCall, HandlerLabels, StartLabels, TryLabels, TearLabels, EntryLabels
<1>0. Main \in Activities \ Handlers /\ Handlers \subseteq Activities
  BY HandlersAreActivities, DistinctActivities DEF Activities
<1>1. PICK p \in {"td_sched", "td_finish", "final", "exit"} :
         /\ Raised(h, p)
         /\ \A a \in Activities :
               pc'[a] = IF a = h THEN "raised" ELSE IF a = Main THEN p ELSE pc[a]
         /\ \A g \in Activities : cont'[g] = IF g = h THEN "exit" ELSE cont[g]
  BY RaisedMarks
<1>2. stack' = stack /\ ~InCall(h) /\ cont[h] = "idle"
  BY <1>1 DEF Raised, Arrives, Unused, FrameInv
<1>3. \A g \in Handlers :
         /\ pc'[g] \in HandlerLabels /\ cont'[g] # "wait"
         /\ cont'[g] = "idle" => pc'[g] = "idle"
         /\ pc'[g] \in {"stop"} \cup TearLabels => \E i \in 1 .. Len(stack') : stack'[i] = g
  BY <1>0, <1>1, <1>2 DEF FrameInv
<1>4. lock' \subseteq lock /\ \A a \in Activities : a # Main => (a \in lock' <=> a \in lock)
  BY DEF RaisedInStart, RaisedInStop, RaisedOutside
<1>5. Main \in lock' <=> InCall(Main)'
  <2>1. CASE RaisedInStart(h) \/ RaisedInStop(h)
    <3>1. lock' = lock /\ InCall(Main)
      BY <2>1 DEF RaisedInStart, RaisedInStop
    <3>2. pc'[Main] \in {"td_sched", "td_finish"}
      BY <2>1, <1>0 DEF RaisedInStart, RaisedInStop, Raised, ValuesOK
    <3> QED
      BY <1>0, <3>1, <3>2 DEF FrameInv
  <2>2. CASE RaisedOutside(h)
    <3>1. lock' = lock \ {Main}
      BY <2>2 DEF RaisedOutside
    <3>2. pc'[Main] \in {"final", "exit"}
      BY <2>2, <1>0 DEF RaisedOutside, Raised, Escape, ValuesOK
    <3> QED
      BY <3>1, <3>2
  <2> QED
    BY <2>1, <2>2
<1>6. \A a \in Activities : a \in lock' <=> InCall(a)'
  BY <1>0, <1>1, <1>2, <1>4, <1>5 DEF FrameInv
<1>7. \A a, b \in lock' : ThreadOf(a) = ThreadOf(b)
  BY <1>4 DEF FrameInv
<1> QED
  BY <1>2, <1>3, <1>6, <1>7 DEF FrameInv

\* So every step keeps the frames.
LEMMA FrameStep == ValuesOK /\ FrameInv /\ [SignalNext]_signalVars => FrameInv'
<1> SUFFICES ASSUME ValuesOK, FrameInv, [SignalNext]_signalVars PROVE FrameInv'
  OBVIOUS
<1>1. ASSUME NEW a \in Activities, Scheduled(a), Proceed(a) \/ Call(a), stack' = stack
      PROVE  FrameInv'
  BY <1>1, FrameActivity
<1>2. CASE ((WorkerStep \/ ServeStep \/ Exited) /\ stack' = stack) \/ UNCHANGED signalVars
  BY <1>2 DEF WorkerStep, WorkerTop, WorkerCheck, WorkerWait, WorkerExit, WorkerGoes,
     ServeStep, ServeEnter, ServeLeave, ServeEnd, ServeGoes, Exited, vars, signalVars,
     lockVars, ctlVars, FrameInv, InCall
<1>3. ASSUME NEW h \in Handlers, Signal(h) \/ HandlerReturns(h) PROVE FrameInv'
  BY <1>3, FrameDeliver, FrameReturn, FrameRaised DEF Signal
<1> QED
  BY <1>1, <1>2, <1>3 DEF SignalNext

\* The variables keep to their types when a signal arrives, too.
LEMMA SignalValues ==
    ValuesOK /\ [SignalNext]_signalVars => ValuesOK'
<1> SUFFICES ASSUME ValuesOK, [SignalNext]_signalVars PROVE ValuesOK'
  OBVIOUS
<1> USE DEF svcVars, ownVars, clientVars, schVars, srvVars, stateVars, ctlVars, lockVars
<1>1. CASE Next \/ UNCHANGED vars
  BY <1>1, ValuesStep DEF vars
<1>2. ASSUME NEW h \in Handlers, Deliver(h) PROVE ValuesOK'
  BY <1>2, HandlersAreActivities DEF Deliver, ValuesOK, Labels, EntryLabels
<1>3. ASSUME NEW h \in Handlers,
             RaisedInStart(h) \/ RaisedInStop(h) \/ RaisedOutside(h)
      PROVE  ValuesOK'
  <2>1. PICK p \in {"td_sched", "td_finish", "final", "exit"} : Raised(h, p)
    BY <1>3, RaisedMarks
  <2>2. /\ pc' \in [Activities -> Labels] /\ cont' \in [Activities -> {"idle", "wait", "exit"}]
        /\ schLock' \in Holders /\ srvLock' \in Holders
        /\ client' = client /\ closes' = closes
    BY <2>1, HandlersAreActivities DEF Raised, ValuesOK, Labels, IdleLabels, EntryLabels,
       TearLabels, Holders
  <2>3. /\ lifecycle' \in Lifecycles /\ lock' \subseteq lock
        /\ mode' \in [Activities -> {"stop", "rollback"}]
        /\ worker' \in Workers /\ serve' \in Serves /\ socket' \in {"none", "bound", "closed"}
    BY <1>3 DEF RaisedInStart, RaisedInStop, RaisedOutside, BeginStop, ValuesOK,
       Workers, Serves, Lifecycles
  <2> QED
    BY <2>2, <2>3 DEF ValuesOK
<1>4. ASSUME NEW h \in Handlers, HandlerReturns(h) PROVE UNCHANGED vars
  BY <1>4 DEF HandlerReturns
<1> QED
  BY <1>1, <1>2, <1>3, <1>4 DEF SignalNext, Signal, Next, signalVars

\* An activity moves itself only, and raises nothing.
LEMMA ActivityMoves ==
    ASSUME ValuesOK, NEW a \in Activities, Proceed(a) \/ Call(a)
    PROVE  /\ pc[a] # "raised" /\ pc'[a] # "raised"
           /\ \A b \in Activities : b # a => pc'[b] = pc[b] /\ cont'[b] = cont[b]
<1> USE DEF svcVars, ownVars, clientVars, schVars, srvVars, stateVars, ctlVars, lockVars
<1>0. pc \in [Activities -> Labels] /\ cont \in [Activities -> {"idle", "wait", "exit"}]
  BY DEF ValuesOK
<1> USE DEF Goto, Return, Advance, Rollback, FailedStart, AfterWait, CallOf
<1>1. CASE StartStep(a)
  BY <1>0, <1>1 DEF StartStep, StartEnter, Begin, CreateClient, CreateServer, SchedStart, SrvStart,
     Capture, WriteState, WriteError, Running
<1>2. CASE TearStep(a)
  BY <1>0, <1>2 DEF TearStep, StopEnter, TearSched, TearSchedBody, TearJoin, TearSrv,
     TearSrvJoin, TearSrvClose, TearClear, ClearFailed, TearClose, TearMark, TearShut, TearFinish
<1>3. CASE Wait(a) \/ WaitCheck(a) \/ Final(a) \/ Call(a)
  BY <1>0, <1>3 DEF Wait, WaitCheck, Final, Call, MainCalls, CallerCalls, RequestArrives
<1> QED
  BY <1>1, <1>2, <1>3 DEF Proceed

\* A KeyboardInterrupt is not forgotten.
LEMMA RaisedStep ==
    ASSUME ValuesOK, RaisedInv, [SignalNext]_signalVars
    PROVE  RaisedInv' /\ (Handled' => Handled)
<1> USE DEF svcVars, ownVars, clientVars, schVars, srvVars, stateVars, ctlVars, lockVars,
            RaisedInv, Handled
<1>0. /\ pc \in [Activities -> Labels] /\ cont \in [Activities -> {"idle", "wait", "exit"}]
      /\ Handlers \subseteq Activities
  BY HandlersAreActivities DEF ValuesOK
<1>1. ASSUME NEW h \in Handlers, Deliver(h) PROVE RaisedInv' /\ (Handled' => Handled)
  BY <1>0, <1>1 DEF Deliver, Arrives, Unused
<1>2. ASSUME NEW h \in Handlers,
             RaisedInStart(h) \/ RaisedInStop(h) \/ RaisedOutside(h)
      PROVE  RaisedInv' /\ (Handled' => Handled)
  <2>1. pc'[h] = "raised"
    BY <1>0, <1>2, RaisedMarks
  <2>2. \A g \in Handlers : g # h => pc'[g] = pc[g] /\ cont'[g] = cont[g]
    BY <1>0, <1>2, RaisedMarks, DistinctActivities
  <2>3. cont'[h] = "exit"
    BY <1>0, <1>2, RaisedMarks
  <2> QED
    BY <2>1, <2>2, <2>3
<1>4. ASSUME NEW a \in Activities, Proceed(a) \/ Call(a) PROVE RaisedInv' /\ (Handled' => Handled)
  BY <1>0, <1>4, ActivityMoves
<1>5. ASSUME pc' = pc /\ cont' = cont PROVE RaisedInv' /\ (Handled' => Handled)
  BY <1>5
<1>6. WorkerStep \/ ServeStep \/ Exited \/ UNCHANGED signalVars \/ (\E h \in Handlers : HandlerReturns(h))
          => pc' = pc /\ cont' = cont
  BY DEF WorkerStep, WorkerTop, WorkerCheck, WorkerWait, WorkerExit, WorkerGoes,
     ServeStep, ServeEnter, ServeLeave, ServeEnd, ServeGoes, Exited, vars, signalVars, HandlerReturns
<1> QED
  BY <1>1, <1>2, <1>4, <1>5, <1>6 DEF SignalNext, Signal

\* As long as no KeyboardInterrupt was raised, every step keeps SignalInv.
LEMMA SignalStep ==
    ASSUME ValuesOK, FrameInv, RaisedInv, Handled => SignalInv, [SignalNext]_signalVars
    PROVE  Handled' => SignalInv'
<1>1. FrameInv' /\ (Handled' => Handled)
  BY FrameStep, RaisedStep
<1>2. ASSUME Handled', SignalInv PROVE SignalInv'
  <2>1. ASSUME NEW a \in Activities, Scheduled(a), Proceed(a) \/ Call(a), stack' = stack
        PROVE  SignalInv'
    BY <1>1, <1>2, <2>1, ActivityKeeps
  <2>2. CASE WorkerStep \/ ServeStep
    BY <1>2, <2>2, ThreadKeeps
  <2>3. ASSUME UNCHANGED vars PROVE SignalInv'
    BY <1>2, <2>3
       DEF vars, svcVars, ownVars, clientVars, schVars, srvVars, stateVars, ctlVars,
           lockVars, SignalInv, RestingInv, KnownInv, AcquireInv, TearInv, InCall,
           Untouched, Shutting, WorkerAlive, ServeAlive, Released
  <2>4. ASSUME NEW h \in Handlers, Deliver(h) PROVE SignalInv'
    BY <1>2, <2>4, DeliverKeeps
  <2>5. ASSUME NEW h \in Handlers,
               RaisedInStart(h) \/ RaisedInStop(h) \/ RaisedOutside(h)
        PROVE  FALSE
    BY <1>2, <2>5, RaisedMarks, HandlersAreActivities DEF Handled
  <2>6. Exited \/ UNCHANGED signalVars \/ (\E h \in Handlers : HandlerReturns(h))
            => UNCHANGED vars
    BY DEF Exited, signalVars, HandlerReturns
  <2> QED
    BY <2>1, <2>2, <2>3, <2>4, <2>5, <2>6 DEF SignalNext, Signal
<1> QED
  BY <1>1, <1>2

\* Nobody is inside a service that has not been started.
LEMMA SignalBegins == SignalInit => ValuesOK /\ FrameInv /\ RaisedInv /\ SignalInv
<1> SUFFICES ASSUME SignalInit PROVE ValuesOK /\ FrameInv /\ RaisedInv /\ SignalInv
  OBVIOUS
<1> USE DEF SignalInit, Init, StartLabels, TryLabels, TearLabels, WorkerAlive, ServeAlive
<1>1. ValuesOK
  BY DistinctActivities DEF ValuesOK, Labels, IdleLabels, Holders, Lifecycles, Workers, Serves
<1>2. FrameInv /\ RaisedInv
  BY HandlersAreActivities DEF FrameInv, HandlerLabels, RaisedInv, InCall
<1>3. RestingInv /\ KnownInv /\ AcquireInv /\ TearInv
  BY DEF RestingInv, KnownInv, AcquireInv, TearInv, Untouched, InCall
<1> QED
  BY <1>1, <1>2, <1>3 DEF SignalInv

\* As long as no KeyboardInterrupt was raised, the promise of stop() survives
\* the signals of run(), wherever on the main thread they arrive and however
\* many: not the safe points alone.
THEOREM SignalsRelease == SignalSpec => []HandledSignalsRelease
<1> DEFINE Inv0 == ValuesOK /\ FrameInv /\ RaisedInv /\ (Handled => SignalInv)
<1>1. SignalInit => Inv0
  BY SignalBegins
<1>2. Inv0 /\ [SignalNext]_signalVars => Inv0'
  BY SignalValues, FrameStep, RaisedStep, SignalStep
<1>3. Inv0 => HandledSignalsRelease
  BY DEF SignalInv, RestingInv, Handled, HandledSignalsRelease
<1> QED
  BY <1>1, <1>2, <1>3, PTL DEF SignalSpec

\* Of the frames of the main thread only the innermost is between the look at
\* _client_closed and its assignment, if no signal is handled there.
MarkInv ==
    \A a \in Activities : pc[a] = "td_mark" /\ ThreadOf(a) = Main => a = Top

\* What the count says of the flag, and where the flag is about to change.
CloseInv ==
    /\ closes \in {0, 1}
    /\ ~clientClosed => closes = 0
    /\ \A a \in Activities :
          /\ pc[a] = "td_mark" => ~clientClosed
          /\ pc[a] = "td_shut" => closes = 0 /\ clientClosed
          /\ \A b \in Activities : pc[a] = "td_shut" /\ pc[b] = "td_shut" => a = b

\* One activity at a time is about to set the flag.
LEMMA MarksAlone ==
    ASSUME FrameInv, MarkInv, NEW a \in Activities, NEW b \in Activities,
           pc[a] = "td_mark", pc[b] = "td_mark"
    PROVE  a = b
<1>1. ThreadOf(a) = ThreadOf(b)
  BY DEF FrameInv, InCall, TearLabels
<1>2. CASE ThreadOf(a) = Main
  BY <1>1, <1>2 DEF MarkInv
<1>3. CASE ThreadOf(a) # Main
  BY <1>1, <1>3 DEF ThreadOf
<1> QED
  BY <1>2, <1>3

\* A frame is frozen only where a signal may be handled.
LEMMA MarkStep ==
    ASSUME "td_mark" \notin HandlerPoints, ValuesOK, FrameInv, MarkInv,
           [SignalNext]_signalVars
    PROVE  MarkInv'
<1>0. /\ pc \in [Activities -> Labels] /\ Handlers \subseteq Activities
      /\ Main \in Activities \ Handlers
  BY HandlersAreActivities, DistinctActivities DEF ValuesOK, Activities
<1>1. ASSUME NEW a \in Activities, Scheduled(a), Proceed(a) \/ Call(a), stack' = stack
      PROVE  MarkInv'
  <2>1. \A b \in Activities : b # a => pc'[b] = pc[b]
    BY <1>0, <1>1, ActivityMoves
  <2> QED
    BY <1>1, <2>1 DEF MarkInv, Scheduled, Top, ThreadOf
<1>2. ASSUME pc' = pc, stack' = stack PROVE MarkInv'
  BY <1>2 DEF MarkInv, Top, ThreadOf
<1>3. ASSUME NEW h \in Handlers, Deliver(h) PROVE MarkInv'
  <2>1. \A a \in Activities : pc'[a] = "td_mark" => pc[a] = "td_mark"
    BY <1>3, FrameDeliver
  <2>2. pc[Top] # "td_mark"
    BY <1>3 DEF Deliver, Arrives
  <2> QED
    BY <2>1, <2>2 DEF MarkInv, ThreadOf
<1>4. ASSUME NEW h \in Handlers, HandlerReturns(h) PROVE MarkInv'
  <2>1. pc' = pc /\ Top = h /\ pc[h] = "exit"
    BY <1>4 DEF HandlerReturns, Top, vars, ctlVars
  <2> QED
    BY <2>1 DEF MarkInv, ThreadOf
<1>5. ASSUME NEW h \in Handlers,
             RaisedInStart(h) \/ RaisedInStop(h) \/ RaisedOutside(h)
      PROVE  MarkInv'
  <2>1. stack' = stack /\ \A a \in Activities : pc'[a] = "td_mark" => pc[a] = "td_mark"
    BY <1>5, RaisedMarks DEF Raised
  <2> QED
    BY <2>1 DEF MarkInv, Top, ThreadOf
<1>6. WorkerStep \/ ServeStep \/ Exited \/ UNCHANGED signalVars => pc' = pc
  BY DEF WorkerStep, WorkerTop, WorkerCheck, WorkerWait, WorkerExit, WorkerGoes,
     ServeStep, ServeEnter, ServeLeave, ServeEnd, ServeGoes, Exited, vars, signalVars, ctlVars
<1> QED
  BY <1>1, <1>2, <1>3, <1>4, <1>5, <1>6 DEF SignalNext, Signal, signalVars

\* The count and the flag go together in every step.
LEMMA CloseStep ==
    ASSUME ValuesOK, FrameInv, FrameInv', MarkInv, MarkInv', CloseInv,
           [SignalNext]_signalVars
    PROVE  CloseInv'
<1> USE DEF svcVars, ownVars, clientVars, schVars, srvVars, stateVars, ctlVars, lockVars
<1>0. pc \in [Activities -> Labels] /\ Handlers \subseteq Activities
  BY HandlersAreActivities DEF ValuesOK
<1>1. ASSUME closes' = closes, clientClosed' = clientClosed,
             \A a \in Activities : /\ pc'[a] = "td_mark" => pc[a] = "td_mark"
                                   /\ pc'[a] = "td_shut" => pc[a] = "td_shut"
      PROVE  CloseInv'
  BY <1>1 DEF CloseInv
<1>2. ASSUME NEW a \in Activities, TearClose(a) PROVE CloseInv'
  BY <1>0, <1>2 DEF TearClose, CloseNothing, Goto, CloseInv
<1>3. ASSUME NEW a \in Activities, TearMark(a) PROVE CloseInv'
  <2>1. pc[a] = "td_mark" /\ ~clientClosed /\ closes = 0
    BY <1>3 DEF TearMark, Goto, CloseInv
  <2>2. \A b \in Activities : pc[b] = "td_mark" => b = a
    BY <2>1, MarksAlone
  <2>3. \A b \in Activities : pc[b] # "td_shut"
    BY <2>1 DEF CloseInv
  <2>4. \A b \in Activities : pc'[b] = IF b = a THEN "td_shut" ELSE pc[b]
    BY <1>0, <1>3 DEF TearMark, Goto
  <2> QED
    BY <1>3, <2>1, <2>2, <2>3, <2>4 DEF TearMark, CloseInv
<1>4. ASSUME NEW a \in Activities, TearShut(a) PROVE CloseInv'
  <2>1. pc[a] = "td_shut" /\ clientClosed /\ closes = 0
    BY <1>4 DEF TearShut, Goto, CloseInv
  <2>2. \A b \in Activities : pc'[b] = IF b = a THEN "td_finish" ELSE pc[b]
    BY <1>0, <1>4 DEF TearShut, Goto
  <2> QED
    BY <1>4, <2>1, <2>2 DEF TearShut, CloseInv
<1>5. ASSUME NEW a \in Activities, Proceed(a) \/ Call(a),
             ~TearClose(a), ~TearMark(a), ~TearShut(a)
      PROVE  CloseInv'
  <2> USE DEF Goto, Return, Advance, Rollback, FailedStart, AfterWait, CallOf
  <2>1. \A b \in Activities : b # a => pc'[b] = pc[b]
    BY <1>0, <1>5, ActivityMoves
  <2>2. closes' = closes /\ clientClosed' = clientClosed /\ pc'[a] \notin {"td_mark", "td_shut"}
    <3>1. CASE StartStep(a)
      BY <1>0, <3>1 DEF StartStep, StartEnter, Begin, CreateClient, CreateServer, SchedStart,
         SrvStart, Capture, WriteState, WriteError, Running, ValuesOK
    <3>2. CASE TearStep(a)
      BY <1>0, <1>5, <3>2 DEF TearStep, StopEnter, TearSched, TearSchedBody, TearJoin, TearSrv,
         TearSrvJoin, TearSrvClose, TearClear, ClearFailed, TearFinish, ValuesOK
    <3>3. CASE Wait(a) \/ WaitCheck(a) \/ Final(a) \/ Call(a)
      BY <1>0, <3>3 DEF Wait, WaitCheck, Final, Call, MainCalls, CallerCalls, RequestArrives
    <3> QED
      BY <1>5, <3>1, <3>2, <3>3 DEF Proceed
  <2> QED
    BY <1>1, <2>1, <2>2
<1>6. ASSUME WorkerStep \/ ServeStep \/ Exited \/ UNCHANGED signalVars PROVE CloseInv'
  <2>1. pc' = pc /\ closes' = closes /\ clientClosed' = clientClosed
    BY <1>6 DEF WorkerStep, WorkerTop, WorkerCheck, WorkerWait, WorkerExit, WorkerGoes,
       ServeStep, ServeEnter, ServeLeave, ServeEnd, ServeGoes, Exited, vars, signalVars
  <2> QED
    BY <1>1, <2>1
<1>7. ASSUME NEW h \in Handlers, Deliver(h) PROVE CloseInv'
  BY <1>1, <1>7, FrameDeliver DEF Deliver
<1>8. ASSUME NEW h \in Handlers, HandlerReturns(h) PROVE CloseInv'
  BY <1>1, <1>8 DEF HandlerReturns, vars
<1>9. ASSUME NEW h \in Handlers,
             RaisedInStart(h) \/ RaisedInStop(h) \/ RaisedOutside(h)
      PROVE  CloseInv'
  BY <1>1, <1>9, RaisedMarks DEF Raised
<1> QED
  BY <1>2, <1>3, <1>4, <1>5, <1>6, <1>7, <1>8, <1>9 DEF SignalNext, Signal

\* Unless a handler runs between the look at _client_closed and its assignment,
\* the client is closed once, however many stop() calls and roll-backs nest and
\* wherever else signals arrive, KeyboardInterrupt included.
THEOREM ClosedOnce ==
    ASSUME "td_mark" \notin HandlerPoints
    PROVE  SignalSpec => []ClientClosedOnce
<1> DEFINE Inv1 == ValuesOK /\ FrameInv /\ MarkInv /\ CloseInv
<1>1. SignalInit => Inv1
  BY SignalBegins DEF SignalInit, Init, CloseInv, MarkInv
<1>2. Inv1 /\ [SignalNext]_signalVars => Inv1'
  BY SignalValues, FrameStep, MarkStep, CloseStep
<1>3. Inv1 => ClientClosedOnce
  BY DEF CloseInv, ClientClosedOnce
<1> QED
  BY <1>1, <1>2, <1>3, PTL DEF SignalSpec
=============================================================================
