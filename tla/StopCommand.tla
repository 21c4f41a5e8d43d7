------------------------------ MODULE StopCommand ------------------------------
(***************************************************************************)
(* `kirox stop` (cli/__init__.py), the state file (service/state.py) and    *)
(* identity-bound termination (service/process_identity.py): one file that *)
(* service processes and stop commands, all separate processes, read,       *)
(* replace and remove without a lock they share (_STATE_LOCK is a lock of   *)
(* one process).  The service is seen from outside: ServiceLifecycle is     *)
(* what happens inside it.                                                  *)
(***************************************************************************)
EXTENDS Naturals

CONSTANTS
    Instances,  \* service processes; each start writes a record of its own
    Strangers,  \* other processes, which may be given a used PID
    Commands,   \* `kirox stop` processes
    Legacy,     \* instances whose record has no process identity
    Pids,
    Urls,
    MaxPolls,   \* bound on the polls before the deadline passes
    Nobody      \* no record, no process, no listener

ASSUME KnownLegacy == Legacy \subseteq Instances
ASSUME DistinctProcesses ==
    /\ Instances \cap Strangers = {}
    /\ Instances \cap Commands = {}
    /\ Nobody \notin Instances \cup Strangers \cup Commands \cup Pids \cup Urls
ASSUME PollBound == MaxPolls \in Nat

VARIABLES
    file,       \* the instance the state file names
    displaced,  \* instances whose record another process replaced or removed
    service,    \* how far each instance is
    pidOf,      \* ServiceState.pid
    urlOf,      \* ServiceState.url
    holder,     \* the process each PID belongs to
    listener,   \* the instance that accepts connections at each URL
    killed,     \* processes that were sent SIGKILL
    forced,     \* the commands with --force
    pc,         \* where each command is
    target,     \* the record the command read
    handle,     \* the pidfd of a force stop
    forcing,    \* the SIGKILL was sent: the second wait
    polls,
    result,
    misread     \* the commands that once took the record they polled for no record

procVars == <<service, pidOf, urlOf, holder, listener>>
fileVars == <<file, displaced>>
cmdVars  == <<forced, pc, target, handle, forcing, polls, result, misread>>
vars  == <<procVars, fileVars, killed, cmdVars>>
\* What most steps of a command only read.
world == <<procVars, fileVars, killed, forced>>

Processes == Instances \cup Strangers
Alive(p) == \E pid \in Pids : holder[pid] = p

Init ==
    /\ file = Nobody /\ displaced = {}
    /\ service = [i \in Instances |-> "new"]
    /\ pidOf = [i \in Instances |-> Nobody]
    /\ urlOf = [i \in Instances |-> Nobody]
    /\ holder = [pid \in Pids |-> Nobody]
    /\ listener = [u \in Urls |-> Nobody]
    /\ killed = {} /\ forced \in SUBSET Commands
    /\ pc = [c \in Commands |-> "idle"]
    /\ target = [c \in Commands |-> Nobody]
    /\ handle = [c \in Commands |-> Nobody]
    /\ forcing = [c \in Commands |-> FALSE]
    /\ polls = [c \in Commands |-> 0]
    /\ result = [c \in Commands |-> "none"]
    /\ misread = {}

-----------------------------------------------------------------------------
(* The state file.                                                          *)

\* _read_state_unlocked: a file that cannot be read, or whose content does not
\* validate, reads as no record.
Readings == {file, Nobody}

\* write_state: os.replace puts the new record in place of whatever is there.
WriteState(i) ==
    /\ file' = i
    /\ displaced' = displaced \cup ({file} \ {i, Nobody})

\* clear_state(owner) reads and compares ...
StillOwned(owner, read) == read = owner

\* ... and then unlinks the path, whatever it holds by then.
Unlink(owner) ==
    /\ file' = Nobody
    /\ displaced' = displaced \cup ({file} \ {owner, Nobody})

-----------------------------------------------------------------------------
(* Service processes.                                                       *)

Becomes(i, from, to) ==
    service[i] \in from /\ service' = [service EXCEPT ![i] = to]

\* Bind, start the threads, capture the identity.
Begin(i) ==
    /\ Becomes(i, {"new"}, "up")
    /\ \E pid \in Pids, u \in Urls :
          /\ holder[pid] = Nobody /\ listener[u] = Nobody
          /\ holder' = [holder EXCEPT ![pid] = i]
          /\ listener' = [listener EXCEPT ![u] = i]
          /\ pidOf' = [pidOf EXCEPT ![i] = pid]
          /\ urlOf' = [urlOf EXCEPT ![i] = u]
    /\ UNCHANGED <<fileVars, killed, cmdVars>>

Publish(i) ==
    /\ Becomes(i, {"up"}, "published")
    /\ WriteState(i)
    /\ UNCHANGED <<pidOf, urlOf, holder, listener, killed, cmdVars>>

Silent(i) == [u \in Urls |-> IF listener[u] = i THEN Nobody ELSE listener[u]]

\* stop() has stopped the server, on a request, a signal or the roll-back of
\* a start() whose write_state failed.
Drain(i) ==
    /\ Becomes(i, {"up", "published"}, "drained")
    /\ listener' = Silent(i)
    /\ UNCHANGED <<pidOf, urlOf, holder, fileVars, killed, cmdVars>>

\* clear_state of the service; an OSError is logged.
Compare(i) ==
    /\ \E read \in Readings :
          Becomes(i, {"drained"}, IF StillOwned(i, read) THEN "removing" ELSE "cleared")
    /\ UNCHANGED <<pidOf, urlOf, holder, listener, fileVars, killed, cmdVars>>

Remove(i) ==
    /\ Becomes(i, {"removing"}, "cleared")
    /\ Unlink(i) \/ UNCHANGED fileVars
    /\ UNCHANGED <<pidOf, urlOf, holder, listener, killed, cmdVars>>

Without(p) == [pid \in Pids |-> IF holder[pid] = p THEN Nobody ELSE holder[pid]]

Ends(i) ==
    /\ service' = [service EXCEPT ![i] = "gone"]
    /\ holder' = Without(i)
    /\ listener' = Silent(i)

\* The process exits, or it is killed or crashes anywhere.
Exit(i) ==
    /\ service[i] \notin {"new", "gone"}
    /\ Ends(i)
    /\ UNCHANGED <<pidOf, urlOf, fileVars, killed, cmdVars>>

\* Another process gets a free PID, and ends.
TakePid(s) ==
    /\ ~Alive(s)
    /\ \E pid \in Pids :
          holder[pid] = Nobody /\ holder' = [holder EXCEPT ![pid] = s]
    /\ UNCHANGED <<service, pidOf, urlOf, listener, fileVars, killed, cmdVars>>

LeavePid(s) ==
    /\ Alive(s)
    /\ holder' = Without(s)
    /\ UNCHANGED <<service, pidOf, urlOf, listener, fileVars, killed, cmdVars>>

-----------------------------------------------------------------------------
(* kirox stop.                                                              *)

Goto(c, from, to) == pc[c] = from /\ pc' = [pc EXCEPT ![c] = to]

Finish(c, from, how) ==
    /\ Goto(c, from, "done")
    /\ result' = [result EXCEPT ![c] = how]

\* read_state; without a record, "Kirox is not running".
ReadState(c) ==
    /\ \E read \in Readings :
          /\ target' = [target EXCEPT ![c] = read]
          /\ \/ read = Nobody /\ Finish(c, "idle", "not_running")
             \/ read # Nobody /\ Goto(c, "idle", "post") /\ UNCHANGED result
    /\ UNCHANGED <<world, handle, forcing, polls, misread>>

\* A later read of the command.
Rereads(c, read) ==
    /\ read \in Readings
    /\ misread' = IF read = file THEN misread ELSE misread \cup {c}

Recorded(c) == holder[pidOf[target[c]]]
Answers(c)  == listener[urlOf[target[c]]]

\* httpx.post of the shutdown request.  Only the instance that wrote the
\* record knows its token: it stops (Drain, which may also happen by itself).
\* An exception counts as accepted, for the answer may be lost with the server.
Post(c) ==
    /\ pc[c] = "post"
    /\ \/ Goto(c, "post", "wait")
       \/ /\ Answers(c) # Nobody
          /\ Goto(c, "post", IF c \in forced THEN "retry" ELSE "fail")
    /\ UNCHANGED <<world, target, handle, forcing, polls, result, misread>>

Fail(c) ==
    /\ Finish(c, "fail", "failed")
    /\ UNCHANGED <<world, target, handle, forcing, polls, misread>>

\* _wait_until_stopped: the record is gone or another's ...
WaitRead(c) ==
    /\ \E read \in Readings :
          /\ Rereads(c, read)
          /\ \/ read # target[c] /\ Finish(c, "wait", "stopped")
             \/ read = target[c] /\ Goto(c, "wait", "health") /\ UNCHANGED result
    /\ UNCHANGED <<world, target, handle, forcing, polls>>

\* ... or nobody answers at its URL and its process is not there any more.
DeadWhenSilent(c) == "clear"       \* mutation: no identity check
WhenSilent(c) == IF target[c] \in Legacy THEN "deadline" ELSE "inspect"

Health(c) ==
    /\ pc[c] = "health"
    /\ \/ Answers(c) # Nobody /\ Goto(c, "health", "deadline")
       \/ Goto(c, "health", WhenSilent(c))
    /\ UNCHANGED <<world, target, handle, forcing, polls, result, misread>>

Inspect(c) ==
    /\ pc[c] = "inspect"
    /\ \/ Recorded(c) # target[c] /\ Goto(c, "inspect", "clear")
       \/ Recorded(c) = target[c] /\ Goto(c, "inspect", "deadline")
       \/ Recorded(c) # Nobody /\ Goto(c, "inspect", "deadline")   \* an error
    /\ UNCHANGED <<world, target, handle, forcing, polls, result, misread>>

\* time.monotonic() >= deadline, or another round.
AfterDeadline(c) == IF forcing[c] \/ c \notin forced THEN "fail" ELSE "retry"

DeadlineRestarts(c) == UNCHANGED polls   \* mutation: set anew in each round
TimePasses(c) == polls' = [polls EXCEPT ![c] = @ + 1]

TimeLeftAtBound(c) == polls[c] <= MaxPolls   \* mutation: off by one
TimeLeft(c) == polls[c] < MaxPolls

Deadline(c) ==
    /\ \/ TimeLeft(c) /\ Goto(c, "deadline", "wait") /\ TimePasses(c)
       \/ Goto(c, "deadline", AfterDeadline(c)) /\ UNCHANGED polls
    /\ UNCHANGED <<world, target, handle, forcing, result, misread>>

\* clear_state(state) of the command; an OSError ends it with a traceback.
ClearCompare(c) ==
    /\ \E read \in Readings :
          /\ Rereads(c, read)
          /\ \/ StillOwned(target[c], read) /\ Goto(c, "clear", "unlink") /\ UNCHANGED result
             \/ ~StillOwned(target[c], read) /\ Finish(c, "clear", "stopped")
    /\ UNCHANGED <<world, target, handle, forcing, polls>>

UnlinkErrorIgnored(c) == Finish(c, "unlink", "stopped")   \* mutation
UnlinkError(c) == Finish(c, "unlink", "failed")

ClearUnlink(c) ==
    /\ \/ Unlink(target[c]) /\ Finish(c, "unlink", "stopped")
       \/ UNCHANGED fileVars /\ UnlinkError(c)
    /\ UNCHANGED <<procVars, killed, forced, target, handle, forcing, polls, misread>>

\* --force reads the file again and refuses a record that has changed or has
\* no identity.
Retry(c) ==
    /\ \E read \in Readings :
          /\ Rereads(c, read)
          /\ \/ read = Nobody /\ Finish(c, "retry", "stopped")
             \/ /\ read # Nobody
                /\ read # target[c] \/ target[c] \in Legacy
                /\ Finish(c, "retry", "failed")
             \/ /\ read = target[c] /\ target[c] \notin Legacy
                /\ Goto(c, "retry", "open") /\ UNCHANGED result
    /\ UNCHANGED <<world, target, handle, forcing, polls>>

\* A handle on whatever process has the PID now; there may be no way to get
\* one (macOS, an old kernel, no permission).
OpenHandle(c) ==
    /\ pc[c] = "open"
    /\ \/ Recorded(c) = Nobody /\ Goto(c, "open", "clear") /\ UNCHANGED handle
       \/ /\ Recorded(c) # Nobody /\ Goto(c, "open", "verify")
          /\ handle' = [handle EXCEPT ![c] = Recorded(c)]
       \/ Goto(c, "open", "fail") /\ UNCHANGED handle
    /\ UNCHANGED <<world, target, forcing, polls, result, misread>>

\* The identity is looked up by PID while the handle is held.
SameProcess(c) == Recorded(c) = target[c]

Verify(c) ==
    /\ pc[c] = "verify"
    /\ \/ Recorded(c) = Nobody /\ Goto(c, "verify", "clear")
       \/ SameProcess(c) /\ Goto(c, "verify", "kill")
       \/ ~SameProcess(c) /\ Goto(c, "verify", "fail")
    /\ UNCHANGED <<world, target, handle, forcing, polls, result, misread>>

KillByPid(c) == Recorded(c)       \* mutation: os.kill(pid) instead of the handle
Victim(c) == handle[c]

Kills(c, p) ==
    /\ killed' = killed \cup {p}
    /\ forcing' = [forcing EXCEPT ![c] = TRUE]
    /\ polls' = [polls EXCEPT ![c] = 0]
    /\ Goto(c, "kill", "wait")
    /\ IF p \in Instances
       THEN Ends(p)
       ELSE /\ holder' = Without(p)
            /\ UNCHANGED <<service, listener>>

Kill(c) ==
    /\ pc[c] = "kill"
    /\ \/ Alive(Victim(c)) /\ Kills(c, Victim(c))
       \/ /\ ~Alive(Victim(c)) /\ Goto(c, "kill", "clear")
          /\ UNCHANGED <<service, holder, listener, killed, forcing, polls>>
       \/ /\ Alive(Victim(c)) /\ Goto(c, "kill", "fail")   \* no permission
          /\ UNCHANGED <<service, holder, listener, killed, forcing, polls>>
    /\ UNCHANGED <<pidOf, urlOf, fileVars, forced, target, handle, result, misread>>

-----------------------------------------------------------------------------
ServiceStep(i) ==
    \/ Begin(i) \/ Publish(i) \/ Drain(i) \/ Compare(i) \/ Remove(i) \/ Exit(i)

CommandStep(c) ==
    \/ Post(c) \/ Fail(c) \/ WaitRead(c) \/ Health(c) \/ Inspect(c)
    \/ Deadline(c) \/ ClearCompare(c) \/ ClearUnlink(c) \/ Retry(c)
    \/ OpenHandle(c) \/ Verify(c) \/ Kill(c)

Next ==
    \/ \E i \in Instances : ServiceStep(i)
    \/ \E s \in Strangers : TakePid(s) \/ LeavePid(s)
    \/ \E c \in Commands : ReadState(c) \/ CommandStep(c)

Spec == Init /\ [][Next]_vars

\* A started command is scheduled; nothing is assumed of the services, which
\* may hang for ever.
FairSpec == Spec /\ \A c \in Commands : WF_vars(CommandStep(c))

-----------------------------------------------------------------------------
\* Every variable keeps to its type.
TypeOK ==
    /\ file \in Instances \cup {Nobody} /\ displaced \subseteq Instances
    /\ service \in [Instances -> {"new", "up", "published", "drained",
                                  "removing", "cleared", "gone"}]
    /\ pidOf \in [Instances -> Pids \cup {Nobody}]
    /\ urlOf \in [Instances -> Urls \cup {Nobody}]
    /\ holder \in [Pids -> Processes \cup {Nobody}]
    /\ listener \in [Urls -> Instances \cup {Nobody}]
    /\ killed \subseteq Processes /\ forced \subseteq Commands
    /\ pc \in [Commands -> {"idle", "post", "fail", "wait", "health", "inspect",
                            "deadline", "clear", "unlink", "retry", "open",
                            "verify", "kill", "done"}]
    /\ target \in [Commands -> Instances \cup {Nobody}]
    /\ handle \in [Commands -> Processes \cup {Nobody}]
    /\ forcing \in [Commands -> BOOLEAN]
    /\ polls \in [Commands -> 0 .. MaxPolls]
    /\ result \in [Commands -> {"none", "not_running", "stopped", "failed"}]
    /\ misread \subseteq Commands

\* SIGKILL reaches nothing but the very process that wrote the record a
\* forced command read, even if that process ends and its PID is given away
\* at any moment of the command.
KillsOnlyTheOwner ==
    \A p \in killed :
        \E c \in forced : target[c] = p /\ p \in Instances \ Legacy

\* "Stopped" is true: the instance the command was sent to accepts no more
\* connections, unless its record was taken away by another process, after
\* which nothing in the file speaks of it, or a read of the command failed.
StoppedIsTrue ==
    \A c \in Commands \ misread :
        result[c] = "stopped" =>
            \/ target[c] \in displaced
            \/ \A u \in Urls : listener[u] # target[c]

\* "Stopped" also means that no later command finds this instance again.
StoppedIsForgotten ==
    \A c \in Commands \ misread : result[c] = "stopped" => file # target[c]

\* A command ends, whatever the service, its PID and the file do meanwhile.
CommandReturns ==
    \A c \in Commands : pc[c] # "idle" ~> pc[c] = "done"

\* "State is deleted only if it still belongs to the same service instance."
OnlyOwnStateDeleted ==
    [][/\ \A i \in Instances :
             service[i] = "removing" /\ service'[i] = "cleared" /\ file # Nobody
                 => file \in {i, file'}
       /\ \A c \in Commands :
             pc[c] = "unlink" /\ pc'[c] = "done" /\ file # Nobody
                 => file \in {target[c], file'}]_vars
=============================================================================
