--------------------------- MODULE StopCommandProofs ---------------------------
(***************************************************************************)
(* Theorems about StopCommand for any number of services, commands, PIDs   *)
(* and URLs, and any number of polls: the type invariant, and that a force  *)
(* stop kills only the process it was pointed at.                           *)
(***************************************************************************)
EXTENDS StopCommand, TLAPS

-----------------------------------------------------------------------------
(* The inductive invariant.                                                 *)

ForceLabels == {"retry", "open", "verify", "kill"}

\* A process has the PID in its record from the moment there is a record, and
\* an instance starts once.
Started(i) == i \in Instances /\ service[i] # "new"
StartedHasPid == \A i \in Instances : service[i] # "new" => pidOf[i] \in Pids

\* Records are written, and so found, by started instances only.
RecordsAreStarted ==
    /\ file # Nobody => Started(file)
    /\ \A c \in Commands : pc[c] \notin {"idle", "done"} => Started(target[c])

\* Only a forced command comes near a PID, and only with an identity to check.
ForceAllowed ==
    \A c \in Commands :
        /\ pc[c] \in ForceLabels => c \in forced
        /\ pc[c] \in ForceLabels \ {"retry"} => target[c] \notin Legacy

\* The handle is on the target, or the target has lost its PID for good: the
\* lookup by PID that follows cannot find it again.
HandleOrLost ==
    \A c \in Commands :
        pc[c] = "verify" =>
            handle[c] = target[c] \/ Recorded(c) # target[c]

\* So a verified handle is on the target.
HandleVerified == \A c \in Commands : pc[c] = "kill" => handle[c] = target[c]

KilledWereTargets ==
    \A p \in killed :
        \E c \in forced :
            pc[c] # "idle" /\ target[c] = p /\ p \in Instances \ Legacy

ForceInv ==
    /\ StartedHasPid /\ RecordsAreStarted /\ ForceAllowed
    /\ HandleOrLost /\ HandleVerified /\ KilledWereTargets

SafetyInv == TypeOK /\ ForceInv

\* The inductive invariant holds before the first process starts.
LEMMA InvInit == Init => SafetyInv
<1>1. Init => TypeOK
  BY PollBound DEF Init, TypeOK
<1>2. Init => ForceInv
  BY DEF Init, ForceInv, StartedHasPid, RecordsAreStarted, ForceAllowed,
         ForceLabels, HandleOrLost, HandleVerified, KilledWereTargets
<1> QED
  BY <1>1, <1>2 DEF SafetyInv

-----------------------------------------------------------------------------
(* Each step preserves the types.                                           *)

\* Every step keeps every variable to its type.
LEMMA TypesStep == SafetyInv /\ [Next]_vars => TypeOK'
<1> SUFFICES ASSUME SafetyInv, [Next]_vars PROVE TypeOK'
  OBVIOUS
<1> USE KnownLegacy, PollBound DEF SafetyInv, TypeOK, Processes
<1> USE DEF procVars, fileVars, cmdVars, world, Goto, Finish, Becomes, Silent,
            Without, Ends, Unlink, Readings, Rereads
<1>1. ASSUME NEW i \in Instances, Begin(i) PROVE TypeOK'
  BY <1>1 DEF Begin
<1>2. ASSUME NEW i \in Instances, Publish(i) PROVE TypeOK'
  BY <1>2 DEF Publish, WriteState
<1>3. ASSUME NEW i \in Instances, Drain(i) PROVE TypeOK'
  BY <1>3 DEF Drain
<1>4. ASSUME NEW i \in Instances, Compare(i) PROVE TypeOK'
  BY <1>4 DEF Compare, StillOwned
<1>5. ASSUME NEW i \in Instances, Remove(i) PROVE TypeOK'
  BY <1>5 DEF Remove
<1>6. ASSUME NEW i \in Instances, Exit(i) PROVE TypeOK'
  BY <1>6 DEF Exit
<1>7. ASSUME NEW s \in Strangers, TakePid(s) PROVE TypeOK'
  BY <1>7 DEF TakePid
<1>8. ASSUME NEW s \in Strangers, LeavePid(s) PROVE TypeOK'
  BY <1>8 DEF LeavePid
<1>9. ASSUME NEW c \in Commands, ReadState(c) PROVE TypeOK'
  BY <1>9 DEF ReadState
<1>10. ASSUME NEW c \in Commands, Post(c) PROVE TypeOK'
  BY <1>10 DEF Post
<1>11. ASSUME NEW c \in Commands, Fail(c) PROVE TypeOK'
  BY <1>11 DEF Fail
<1>12. ASSUME NEW c \in Commands, WaitRead(c) PROVE TypeOK'
  BY <1>12 DEF WaitRead
<1>13. ASSUME NEW c \in Commands, Health(c) PROVE TypeOK'
  BY <1>13 DEF Health, WhenSilent
<1>14. ASSUME NEW c \in Commands, Inspect(c) PROVE TypeOK'
  BY <1>14 DEF Inspect
<1>15. ASSUME NEW c \in Commands, Deadline(c) PROVE TypeOK'
  BY <1>15 DEF Deadline, AfterDeadline, TimeLeft, TimePasses
<1>16. ASSUME NEW c \in Commands, ClearCompare(c) PROVE TypeOK'
  BY <1>16 DEF ClearCompare
<1>17. ASSUME NEW c \in Commands, ClearUnlink(c) PROVE TypeOK'
  BY <1>17 DEF ClearUnlink, UnlinkError
<1>18. ASSUME NEW c \in Commands, Retry(c) PROVE TypeOK'
  BY <1>18 DEF Retry
<1>19. ASSUME NEW c \in Commands, OpenHandle(c) PROVE TypeOK'
  <2>1. Recorded(c) \in Processes \cup {Nobody}
    BY <1>19 DEF OpenHandle, Recorded, ForceInv, RecordsAreStarted, Started,
                StartedHasPid
  <2>2. handle' \in [Commands -> Processes \cup {Nobody}]
    BY <1>19, <2>1 DEF OpenHandle
  <2> QED
    BY <1>19, <2>2 DEF OpenHandle
<1>20. ASSUME NEW c \in Commands, Verify(c) PROVE TypeOK'
  BY <1>20 DEF Verify
<1>21. ASSUME NEW c \in Commands, Kill(c) PROVE TypeOK'
  <2>1. handle[c] \in Instances
    BY <1>21 DEF Kill, ForceInv, HandleVerified, RecordsAreStarted, Started
  <2>2. CASE Alive(Victim(c)) /\ Kills(c, Victim(c))
    <3>1. /\ holder' = Without(handle[c]) /\ listener' = Silent(handle[c])
          /\ service' = [service EXCEPT ![handle[c]] = "gone"]
          /\ killed' = killed \cup {handle[c]}
          /\ pc' = [pc EXCEPT ![c] = "wait"]
          /\ forcing' = [forcing EXCEPT ![c] = TRUE]
          /\ polls' = [polls EXCEPT ![c] = 0]
      BY <2>1, <2>2 DEF Kills, Victim
    <3>2. UNCHANGED <<pidOf, urlOf, fileVars, forced, target, handle, result, misread>>
      BY <1>21 DEF Kill
    <3> HIDE DEF Without, Silent
    <3>3. Without(handle[c]) \in [Pids -> Processes \cup {Nobody}]
      BY DEF Without
    <3>4. Silent(handle[c]) \in [Urls -> Instances \cup {Nobody}]
      BY DEF Silent
    <3> QED
      BY <2>1, <3>1, <3>2, <3>3, <3>4
  <2>3. CASE UNCHANGED <<service, holder, listener, killed, forcing, polls>>
    <3>1. PICK l \in {"wait", "clear", "fail"} : pc' = [pc EXCEPT ![c] = l]
      BY <1>21 DEF Kill, Kills
    <3>2. UNCHANGED <<pidOf, urlOf, fileVars, forced, target, handle, result, misread>>
      BY <1>21 DEF Kill
    <3> QED
      BY <2>3, <3>1, <3>2
  <2> QED
    BY <1>21, <2>2, <2>3 DEF Kill
<1>22. CASE UNCHANGED vars
  BY <1>22 DEF vars
<1> QED
  BY <1>1, <1>2, <1>3, <1>4, <1>5, <1>6, <1>7, <1>8, <1>9, <1>10, <1>11,
       <1>12, <1>13, <1>14, <1>15, <1>16, <1>17, <1>18, <1>19, <1>20,
       <1>21, <1>22
     DEF Next, ServiceStep, CommandStep

-----------------------------------------------------------------------------
(* ... and the rest.                                                        *)

\* A target that lost its PID does not get it back: PIDs are given to
\* strangers, or to instances that have not started.
LEMMA TargetsStayLost ==
    ASSUME SafetyInv, NEW c \in Commands, Started(target[c]),
           Recorded(c) # target[c], target' = target,
           \/ \E i \in Instances : Begin(i)
           \/ \E s \in Strangers : TakePid(s)
           \/ pidOf' = pidOf /\ \/ holder' = holder
                                \/ \E p \in Processes : holder' = Without(p)
    PROVE  Recorded(c)' # target'[c]
<1> USE DistinctProcesses DEF SafetyInv, TypeOK, ForceInv, StartedHasPid, Started,
                              Recorded
<1>1. target[c] \in Instances /\ pidOf[target[c]] \in Pids
  OBVIOUS
<1>2. ASSUME NEW i \in Instances, Begin(i) PROVE Recorded(c)' # target'[c]
  <2>1. target[c] # i
    BY <1>2 DEF Begin, Becomes
  <2> QED
    BY <1>1, <1>2, <2>1 DEF Begin
<1>3. ASSUME NEW s \in Strangers, TakePid(s) PROVE Recorded(c)' # target'[c]
  BY <1>1, <1>3 DEF TakePid
<1>4. CASE pidOf' = pidOf /\ holder' = holder
  BY <1>1, <1>4
<1>5. ASSUME NEW p \in Processes, pidOf' = pidOf, holder' = Without(p)
      PROVE  Recorded(c)' # target'[c]
  BY <1>1, <1>5 DEF Without
<1> QED
  BY <1>2, <1>3, <1>4, <1>5

\* Steps of services and strangers leave the commands alone, and cannot undo
\* a start.
LEMMA OthersStep ==
    ASSUME SafetyInv, UNCHANGED <<forced, pc, target, handle, killed>>,
           \A i \in Instances : service[i] # "new" =>
               service'[i] # "new" /\ pidOf'[i] = pidOf[i],
           \A i \in Instances : service'[i] # "new" => pidOf'[i] \in Pids,
           file' # Nobody => file' = file \/ Started(file'),
           file' \in Instances \cup {Nobody},
           \/ \E i \in Instances : Begin(i)
           \/ \E s \in Strangers : TakePid(s)
           \/ pidOf' = pidOf /\ \/ holder' = holder
                                \/ \E p \in Processes : holder' = Without(p)
    PROVE  ForceInv'
<1>1. StartedHasPid'
  BY DEF StartedHasPid
<1>2. RecordsAreStarted'
  BY DEF SafetyInv, ForceInv, RecordsAreStarted, Started
<1>3. ForceAllowed' /\ HandleVerified' /\ KilledWereTargets'
  BY DEF SafetyInv, ForceInv, ForceAllowed, HandleVerified, KilledWereTargets
<1>4. HandleOrLost'
  <2> SUFFICES ASSUME NEW c \in Commands, pc[c] = "verify", handle[c] # target[c]
               PROVE  Recorded(c)' # target'[c]
    BY DEF HandleOrLost
  <2>1. Started(target[c]) /\ Recorded(c) # target[c]
    BY DEF SafetyInv, ForceInv, RecordsAreStarted, HandleOrLost
  <2> QED
    BY <2>1, TargetsStayLost
<1> QED
  BY <1>1, <1>2, <1>3, <1>4 DEF ForceInv

\* Every step preserves what the safety of --force rests on: one case per action.
LEMMA ForceStep == SafetyInv /\ [Next]_vars => ForceInv'
<1> SUFFICES ASSUME SafetyInv, [Next]_vars PROVE ForceInv'
  OBVIOUS
<1> USE DEF procVars, fileVars, cmdVars, world, Goto, Finish, Becomes, Readings, Rereads
<1>1. ASSUME NEW i \in Instances, Begin(i) PROVE ForceInv'
  BY <1>1, OthersStep DEF Begin, SafetyInv, TypeOK, ForceInv, StartedHasPid
<1>2. ASSUME NEW i \in Instances, Publish(i) PROVE ForceInv'
  BY <1>2, OthersStep DEF Publish, WriteState, Started, SafetyInv, TypeOK, ForceInv, StartedHasPid
<1>3. ASSUME NEW i \in Instances, Drain(i) PROVE ForceInv'
  BY <1>3, OthersStep DEF Drain, SafetyInv, TypeOK, ForceInv, StartedHasPid
<1>4. ASSUME NEW i \in Instances, Compare(i) PROVE ForceInv'
  BY <1>4, OthersStep DEF Compare, StillOwned, SafetyInv, TypeOK, ForceInv, StartedHasPid
<1>5. ASSUME NEW i \in Instances, Remove(i) PROVE ForceInv'
  BY <1>5, OthersStep DEF Remove, Unlink, Started, SafetyInv, TypeOK, ForceInv, StartedHasPid
<1>6. ASSUME NEW i \in Instances, Exit(i) PROVE ForceInv'
  BY <1>6, OthersStep DEF Exit, Ends, Processes, SafetyInv, TypeOK, ForceInv, StartedHasPid
<1>7. ASSUME NEW s \in Strangers, TakePid(s) PROVE ForceInv'
  BY <1>7, OthersStep DEF TakePid, SafetyInv, TypeOK, ForceInv, StartedHasPid
<1>8. ASSUME NEW s \in Strangers, LeavePid(s) PROVE ForceInv'
  BY <1>8, OthersStep DEF LeavePid, Processes, SafetyInv, TypeOK, ForceInv, StartedHasPid
<1>9. ASSUME NEW c \in Commands, ReadState(c) PROVE ForceInv'
  BY <1>9 DEF ReadState, SafetyInv, TypeOK, ForceInv, StartedHasPid,
       RecordsAreStarted, Started, ForceAllowed, ForceLabels, HandleOrLost,
       Recorded, HandleVerified, KilledWereTargets
<1>10. ASSUME NEW c \in Commands, Post(c) PROVE ForceInv'
  BY <1>10 DEF Post, SafetyInv, TypeOK, ForceInv, StartedHasPid,
       RecordsAreStarted, Started, ForceAllowed, ForceLabels, HandleOrLost,
       Recorded, HandleVerified, KilledWereTargets
<1>11. ASSUME NEW c \in Commands, Fail(c) PROVE ForceInv'
  BY <1>11 DEF Fail, SafetyInv, TypeOK, ForceInv, StartedHasPid,
       RecordsAreStarted, Started, ForceAllowed, ForceLabels, HandleOrLost,
       Recorded, HandleVerified, KilledWereTargets
<1>12. ASSUME NEW c \in Commands, WaitRead(c) PROVE ForceInv'
  BY <1>12 DEF WaitRead, SafetyInv, TypeOK, ForceInv, StartedHasPid,
       RecordsAreStarted, Started, ForceAllowed, ForceLabels, HandleOrLost,
       Recorded, HandleVerified, KilledWereTargets
<1>13. ASSUME NEW c \in Commands, Health(c) PROVE ForceInv'
  BY <1>13 DEF Health, WhenSilent, SafetyInv, TypeOK, ForceInv, StartedHasPid,
       RecordsAreStarted, Started, ForceAllowed, ForceLabels, HandleOrLost,
       Recorded, HandleVerified, KilledWereTargets
<1>14. ASSUME NEW c \in Commands, Inspect(c) PROVE ForceInv'
  BY <1>14 DEF Inspect, SafetyInv, TypeOK, ForceInv, StartedHasPid,
       RecordsAreStarted, Started, ForceAllowed, ForceLabels, HandleOrLost,
       Recorded, HandleVerified, KilledWereTargets
<1>15. ASSUME NEW c \in Commands, Deadline(c) PROVE ForceInv'
  BY <1>15 DEF Deadline, AfterDeadline, TimeLeft, TimePasses, SafetyInv, TypeOK, ForceInv, StartedHasPid,
       RecordsAreStarted, Started, ForceAllowed, ForceLabels, HandleOrLost,
       Recorded, HandleVerified, KilledWereTargets
<1>16. ASSUME NEW c \in Commands, ClearCompare(c) PROVE ForceInv'
  BY <1>16 DEF ClearCompare, SafetyInv, TypeOK, ForceInv, StartedHasPid,
       RecordsAreStarted, Started, ForceAllowed, ForceLabels, HandleOrLost,
       Recorded, HandleVerified, KilledWereTargets
<1>17. ASSUME NEW c \in Commands, ClearUnlink(c) PROVE ForceInv'
  BY <1>17 DEF ClearUnlink, UnlinkError, Unlink, SafetyInv, TypeOK, ForceInv, StartedHasPid,
       RecordsAreStarted, Started, ForceAllowed, ForceLabels, HandleOrLost,
       Recorded, HandleVerified, KilledWereTargets
<1>18. ASSUME NEW c \in Commands, Retry(c) PROVE ForceInv'
  BY <1>18 DEF Retry, SafetyInv, TypeOK, ForceInv, StartedHasPid,
       RecordsAreStarted, Started, ForceAllowed, ForceLabels, HandleOrLost,
       Recorded, HandleVerified, KilledWereTargets
<1>19. ASSUME NEW c \in Commands, OpenHandle(c) PROVE ForceInv'
  <2> USE <1>19 DEF OpenHandle, SafetyInv, TypeOK, ForceInv
  <2>1. StartedHasPid' /\ RecordsAreStarted' /\ ForceAllowed' /\ KilledWereTargets'
    BY DEF StartedHasPid, RecordsAreStarted, Started, ForceAllowed, ForceLabels,
           KilledWereTargets
  <2>2. HandleOrLost' /\ HandleVerified'
    BY DEF HandleOrLost, HandleVerified, Recorded
  <2> QED
    BY <2>1, <2>2
<1>20. ASSUME NEW c \in Commands, Verify(c) PROVE ForceInv'
  <2> USE <1>20 DEF Verify, SafetyInv, TypeOK, ForceInv
  <2>1. StartedHasPid' /\ RecordsAreStarted' /\ ForceAllowed' /\ KilledWereTargets'
    BY DEF StartedHasPid, RecordsAreStarted, Started, ForceAllowed, ForceLabels,
           KilledWereTargets
  <2>2. HandleOrLost' /\ HandleVerified'
    BY DEF HandleOrLost, HandleVerified, Recorded, SameProcess
  <2> QED
    BY <2>1, <2>2
<1>21. ASSUME NEW c \in Commands, Kill(c) PROVE ForceInv'
  <2> USE <1>21 DEF Kill, SafetyInv, TypeOK, ForceInv
  <2>1. CASE UNCHANGED <<service, holder, listener, killed, forcing, polls>>
    <3>1. PICK l \in {"wait", "clear", "fail"} : pc' = [pc EXCEPT ![c] = l]
      BY DEF Kills
    <3>2. UNCHANGED <<pidOf, urlOf, file, forced, target, handle>>
      OBVIOUS
    <3> HIDE <1>21 DEF Kill
    <3>3. \A d \in Commands : pc'[d] \in ForceLabels => pc'[d] = pc[d]
      BY <3>1 DEF ForceLabels
    <3>4. StartedHasPid' /\ ForceAllowed' /\ HandleVerified' /\ HandleOrLost'
      BY <2>1, <3>2, <3>3 DEF StartedHasPid, ForceAllowed, ForceLabels,
         HandleVerified, HandleOrLost, Recorded
    <3>5. pc[c] = "kill"
      BY <1>21 DEF Kill
    <3>6. RecordsAreStarted' /\ KilledWereTargets'
      BY <2>1, <3>1, <3>2, <3>5 DEF RecordsAreStarted, Started, KilledWereTargets
    <3> QED
      BY <3>4, <3>6
  <2>2. CASE Alive(Victim(c)) /\ Kills(c, Victim(c))
    <3>1. /\ handle[c] = target[c] /\ target[c] \in Instances \ Legacy
          /\ c \in forced
      BY DEF HandleVerified, RecordsAreStarted, Started, ForceAllowed, ForceLabels
    <3>2. /\ holder' = Without(target[c])
          /\ service' = [service EXCEPT ![target[c]] = "gone"]
          /\ killed' = killed \cup {target[c]}
          /\ pc' = [pc EXCEPT ![c] = "wait"]
      BY <2>2, <3>1 DEF Kills, Victim, Ends
    <3>3. StartedHasPid'
      BY <2>2, <3>1, <3>2 DEF StartedHasPid, RecordsAreStarted, Started
    <3>4. RecordsAreStarted'
      BY <3>1, <3>2 DEF RecordsAreStarted, Started
    <3>5. ForceAllowed' /\ HandleVerified' /\ KilledWereTargets'
      BY <3>1, <3>2 DEF ForceAllowed, ForceLabels, HandleVerified, KilledWereTargets
    <3>6. HandleOrLost'
      <4> SUFFICES ASSUME NEW d \in Commands, pc'[d] = "verify",
                          handle[d] # target[d]
                   PROVE  Recorded(d)' # target'[d]
        BY DEF HandleOrLost
      <4>1. Started(target[d]) /\ Recorded(d) # target[d]
        BY <3>2 DEF RecordsAreStarted, HandleOrLost
      <4> QED
        BY <3>1, <3>2, <4>1, TargetsStayLost DEF Processes
    <3> QED
      BY <3>3, <3>4, <3>5, <3>6
  <2> QED
    BY <2>1, <2>2
<1>22. CASE UNCHANGED vars
  BY <1>22 DEF vars, SafetyInv, TypeOK, ForceInv, StartedHasPid, RecordsAreStarted,
     Started, ForceAllowed, HandleOrLost, Recorded, HandleVerified,
     KilledWereTargets
<1> QED
  BY <1>1, <1>2, <1>3, <1>4, <1>5, <1>6, <1>7, <1>8, <1>9, <1>10, <1>11,
       <1>12, <1>13, <1>14, <1>15, <1>16, <1>17, <1>18, <1>19, <1>20,
       <1>21, <1>22
     DEF Next, ServiceStep, CommandStep

-----------------------------------------------------------------------------
\* The inductive invariant holds.
THEOREM SafetyInvariant == Spec => []SafetyInv
<1>1. SafetyInv /\ [Next]_vars => SafetyInv'
  BY TypesStep, ForceStep DEF SafetyInv
<1> QED
  BY InvInit, <1>1, PTL DEF Spec

\* Every variable keeps to its type: in particular a force stop never takes a
\* handle on, or kills, something that is not a process.
THEOREM TypeInvariant == Spec => []TypeOK
<1>1. SafetyInv => TypeOK
  BY DEF SafetyInv
<1> QED
  BY SafetyInvariant, <1>1, PTL

\* However many services, commands and strangers race, and whenever a PID is
\* given away, SIGKILL reaches only the process whose record a forced command
\* read.
THEOREM ForceKillsOwner == Spec => []KillsOnlyTheOwner
<1>1. SafetyInv => KillsOnlyTheOwner
  BY DEF SafetyInv, ForceInv, KilledWereTargets, KillsOnlyTheOwner
<1> QED
  BY SafetyInvariant, <1>1, PTL
-----------------------------------------------------------------------------
(* What "Stopped" means.                                                    *)

\* A process has its PID, and only its own, until it ends; who listens is up;
\* and nothing speaks of an instance that has not written its record.
ProcInv ==
    /\ \A i \in Instances : service[i] \notin {"new", "gone"} => holder[pidOf[i]] = i
    /\ \A u \in Urls : listener[u] # Nobody => service[listener[u]] \in {"up", "published"}
    /\ \A i \in Instances : service[i] \in {"new", "up"} =>
           file # i /\ \A c \in Commands : target[c] # i

\* It accepts no connections, or nothing in the file speaks of it.
Over(i) ==
    \/ i \in displaced
    \/ service[i] \in {"drained", "removing", "cleared", "gone"}

\* The record of a service that is up is there, unless another process took it
\* away; a command removes that of a process it knows to be gone; and what it
\* has called stopped stays over and out of the file, if its reads did not fail.
StoppedInv ==
    /\ \A i \in Instances : service[i] = "published" => file = i \/ i \in displaced
    /\ \A c \in Commands : pc[c] \in {"clear", "unlink"} => service[target[c]] = "gone"
    /\ \A c \in Commands : result[c] = "stopped" =>
           /\ pc[c] = "done" /\ target[c] \in Instances
           /\ c \in misread \/ (file # target[c] /\ Over(target[c]))

\* Every step keeps processes, PIDs and listeners together.
LEMMA ProcStep == SafetyInv /\ ProcInv /\ [Next]_vars => ProcInv'
<1> SUFFICES ASSUME SafetyInv, ProcInv, [Next]_vars PROVE ProcInv'
  OBVIOUS
<1> USE DistinctProcesses DEF procVars, fileVars, cmdVars, world, Goto, Finish, Becomes,
                              Readings, Rereads
<1> USE DEF SafetyInv, TypeOK, ForceInv, StartedHasPid, RecordsAreStarted, Started
<1>1. ASSUME NEW i \in Instances, Begin(i) PROVE ProcInv'
  BY <1>1 DEF Begin, ProcInv
<1>2. ASSUME NEW i \in Instances, Publish(i) PROVE ProcInv'
  BY <1>2 DEF Publish, WriteState, ProcInv
<1>3. ASSUME NEW i \in Instances, Drain(i) PROVE ProcInv'
  BY <1>3 DEF Drain, Silent, ProcInv
<1>4. ASSUME NEW i \in Instances, Compare(i) PROVE ProcInv'
  BY <1>4 DEF Compare, StillOwned, ProcInv
<1>5. ASSUME NEW i \in Instances, Remove(i) PROVE ProcInv'
  BY <1>5 DEF Remove, Unlink, ProcInv
<1>6. ASSUME NEW i \in Instances, Exit(i) PROVE ProcInv'
  BY <1>6 DEF Exit, Ends, Without, Silent, ProcInv
<1>7. ASSUME NEW s \in Strangers, TakePid(s) PROVE ProcInv'
  BY <1>7 DEF TakePid, ProcInv
<1>8. ASSUME NEW s \in Strangers, LeavePid(s) PROVE ProcInv'
  BY <1>8 DEF LeavePid, Without, ProcInv
<1>9. ASSUME NEW c \in Commands, ReadState(c) PROVE ProcInv'
  BY <1>9 DEF ReadState, ProcInv
<1>10. ASSUME NEW c \in Commands, Post(c) PROVE ProcInv'
  BY <1>10 DEF Post, ProcInv
<1>11. ASSUME NEW c \in Commands, Fail(c) PROVE ProcInv'
  BY <1>11 DEF Fail, ProcInv
<1>12. ASSUME NEW c \in Commands, WaitRead(c) PROVE ProcInv'
  BY <1>12 DEF WaitRead, ProcInv
<1>13. ASSUME NEW c \in Commands, Health(c) PROVE ProcInv'
  BY <1>13 DEF Health, WhenSilent, ProcInv
<1>14. ASSUME NEW c \in Commands, Inspect(c) PROVE ProcInv'
  BY <1>14 DEF Inspect, Recorded, ProcInv
<1>15. ASSUME NEW c \in Commands, Deadline(c) PROVE ProcInv'
  BY <1>15 DEF Deadline, AfterDeadline, TimeLeft, TimePasses, ProcInv
<1>16. ASSUME NEW c \in Commands, ClearCompare(c) PROVE ProcInv'
  BY <1>16 DEF ClearCompare, StillOwned, ProcInv
<1>17. ASSUME NEW c \in Commands, ClearUnlink(c) PROVE ProcInv'
  BY <1>17 DEF ClearUnlink, Unlink, UnlinkError, ProcInv
<1>18. ASSUME NEW c \in Commands, Retry(c) PROVE ProcInv'
  BY <1>18 DEF Retry, ProcInv
<1>19. ASSUME NEW c \in Commands, OpenHandle(c) PROVE ProcInv'
  BY <1>19 DEF OpenHandle, Recorded, ProcInv
<1>20. ASSUME NEW c \in Commands, Verify(c) PROVE ProcInv'
  BY <1>20 DEF Verify, Recorded, SameProcess, ProcInv
<1>21. ASSUME NEW c \in Commands, Kill(c) PROVE ProcInv'
  <2>1. CASE Alive(Victim(c)) /\ Kills(c, Victim(c))
    <3>1. target[c] \in Instances /\ handle[c] = target[c]
      BY <1>21 DEF Kill, HandleVerified
    <3>2. /\ service' = [service EXCEPT ![target[c]] = "gone"]
          /\ holder' = Without(target[c]) /\ listener' = Silent(target[c])
          /\ UNCHANGED <<pidOf, file, target>>
      BY <1>21, <2>1, <3>1 DEF Kill, Kills, Victim, Ends
    <3> QED
      BY <3>1, <3>2 DEF ProcInv, Without, Silent
  <2>2. CASE UNCHANGED <<service, holder, listener, killed, forcing, polls>>
    BY <1>21, <2>2 DEF Kill, ProcInv
  <2> QED
    BY <1>21, <2>1, <2>2 DEF Kill
<1>22. CASE UNCHANGED vars
  BY <1>22 DEF vars, ProcInv
<1> QED
  BY <1>1, <1>2, <1>3, <1>4, <1>5, <1>6, <1>7, <1>8, <1>9, <1>10, <1>11,
       <1>12, <1>13, <1>14, <1>15, <1>16, <1>17, <1>18, <1>19, <1>20,
       <1>21, <1>22
     DEF Next, ServiceStep, CommandStep

\* Every step keeps what has been called stopped over.
LEMMA StoppedStep == SafetyInv /\ ProcInv /\ StoppedInv /\ [Next]_vars => StoppedInv'
<1> SUFFICES ASSUME SafetyInv, ProcInv, StoppedInv, [Next]_vars PROVE StoppedInv'
  OBVIOUS
<1> USE DistinctProcesses DEF procVars, fileVars, cmdVars, world, Goto, Finish, Becomes,
                              Readings, Rereads
<1> USE DEF SafetyInv, TypeOK, ForceInv, StartedHasPid, RecordsAreStarted, Started
<1>1. ASSUME NEW i \in Instances, Begin(i) PROVE StoppedInv'
  BY <1>1 DEF Begin, ProcInv, StoppedInv, Over
<1>2. ASSUME NEW i \in Instances, Publish(i) PROVE StoppedInv'
  BY <1>2 DEF Publish, WriteState, ProcInv, StoppedInv, Over
<1>3. ASSUME NEW i \in Instances, Drain(i) PROVE StoppedInv'
  BY <1>3 DEF Drain, Silent, ProcInv, StoppedInv, Over
<1>4. ASSUME NEW i \in Instances, Compare(i) PROVE StoppedInv'
  BY <1>4 DEF Compare, StillOwned, ProcInv, StoppedInv, Over
<1>5. ASSUME NEW i \in Instances, Remove(i) PROVE StoppedInv'
  BY <1>5 DEF Remove, Unlink, ProcInv, StoppedInv, Over
<1>6. ASSUME NEW i \in Instances, Exit(i) PROVE StoppedInv'
  BY <1>6 DEF Exit, Ends, Without, Silent, ProcInv, StoppedInv, Over
<1>7. ASSUME NEW s \in Strangers, TakePid(s) PROVE StoppedInv'
  BY <1>7 DEF TakePid, ProcInv, StoppedInv, Over
<1>8. ASSUME NEW s \in Strangers, LeavePid(s) PROVE StoppedInv'
  BY <1>8 DEF LeavePid, Without, ProcInv, StoppedInv, Over
<1>9. ASSUME NEW c \in Commands, ReadState(c) PROVE StoppedInv'
  BY <1>9 DEF ReadState, ProcInv, StoppedInv, Over
<1>10. ASSUME NEW c \in Commands, Post(c) PROVE StoppedInv'
  BY <1>10 DEF Post, ProcInv, StoppedInv, Over
<1>11. ASSUME NEW c \in Commands, Fail(c) PROVE StoppedInv'
  BY <1>11 DEF Fail, ProcInv, StoppedInv, Over
<1>12. ASSUME NEW c \in Commands, WaitRead(c) PROVE StoppedInv'
  BY <1>12 DEF WaitRead, ProcInv, StoppedInv, Over
<1>13. ASSUME NEW c \in Commands, Health(c) PROVE StoppedInv'
  BY <1>13 DEF Health, WhenSilent, ProcInv, StoppedInv, Over
<1>14. ASSUME NEW c \in Commands, Inspect(c) PROVE StoppedInv'
  BY <1>14 DEF Inspect, Recorded, ProcInv, StoppedInv, Over
<1>15. ASSUME NEW c \in Commands, Deadline(c) PROVE StoppedInv'
  BY <1>15 DEF Deadline, AfterDeadline, TimeLeft, TimePasses, ProcInv, StoppedInv, Over
<1>16. ASSUME NEW c \in Commands, ClearCompare(c) PROVE StoppedInv'
  BY <1>16 DEF ClearCompare, StillOwned, ProcInv, StoppedInv, Over
<1>17. ASSUME NEW c \in Commands, ClearUnlink(c) PROVE StoppedInv'
  BY <1>17 DEF ClearUnlink, Unlink, UnlinkError, ProcInv, StoppedInv, Over
<1>18. ASSUME NEW c \in Commands, Retry(c) PROVE StoppedInv'
  BY <1>18 DEF Retry, ProcInv, StoppedInv, Over
<1>19. ASSUME NEW c \in Commands, OpenHandle(c) PROVE StoppedInv'
  BY <1>19 DEF OpenHandle, Recorded, ProcInv, StoppedInv, Over
<1>20. ASSUME NEW c \in Commands, Verify(c) PROVE StoppedInv'
  BY <1>20 DEF Verify, Recorded, SameProcess, ProcInv, StoppedInv, Over
<1>21. ASSUME NEW c \in Commands, Kill(c) PROVE StoppedInv'
  <2>1. target[c] \in Instances /\ handle[c] = target[c]
    BY <1>21 DEF Kill, HandleVerified
  <2>2. UNCHANGED <<pidOf, fileVars, target, result, misread>>
    BY <1>21 DEF Kill
  <2>3. CASE Alive(Victim(c)) /\ Kills(c, Victim(c))
    <3>1. /\ service' = [service EXCEPT ![target[c]] = "gone"]
          /\ pc' = [pc EXCEPT ![c] = "wait"] /\ pc[c] = "kill"
      BY <2>1, <2>3 DEF Kills, Victim, Ends
    <3> QED
      BY <2>1, <2>2, <3>1 DEF StoppedInv, Over
  <2>4. CASE ~Alive(Victim(c)) /\ Goto(c, "kill", "clear") /\ UNCHANGED service
    <3>1. service[target[c]] = "gone"
      BY <2>1, <2>4 DEF Alive, Victim, ProcInv
    <3> QED
      BY <2>1, <2>2, <2>4, <3>1 DEF StoppedInv, Over
  <2>5. CASE Goto(c, "kill", "fail") /\ UNCHANGED service
    BY <2>2, <2>5 DEF StoppedInv, Over
  <2> QED
    BY <1>21, <2>3, <2>4, <2>5 DEF Kill
<1>22. CASE UNCHANGED vars
  BY <1>22 DEF vars, ProcInv, StoppedInv, Over
<1> QED
  BY <1>1, <1>2, <1>3, <1>4, <1>5, <1>6, <1>7, <1>8, <1>9, <1>10, <1>11,
       <1>12, <1>13, <1>14, <1>15, <1>16, <1>17, <1>18, <1>19, <1>20,
       <1>21, <1>22
     DEF Next, ServiceStep, CommandStep

\* The whole invariant holds.
LEMMA StoppedSafety == Spec => [](SafetyInv /\ ProcInv /\ StoppedInv)
<1>1. Init => ProcInv /\ StoppedInv
  BY DistinctProcesses DEF Init, ProcInv, StoppedInv
<1>2. SafetyInv /\ SafetyInv' /\ ProcInv /\ StoppedInv /\ [Next]_vars
        => ProcInv' /\ StoppedInv'
  BY ProcStep, StoppedStep
<1> QED
  BY SafetyInvariant, <1>1, <1>2, PTL DEF Spec

\* When a command none of whose later reads failed has said "Stopped", the
\* instance it was sent to accepts no connections for the rest of its life,
\* unless another process took its record away.
THEOREM StoppedHolds == Spec => []StoppedIsTrue
<1>1. SafetyInv /\ ProcInv /\ StoppedInv => StoppedIsTrue
  BY DistinctProcesses DEF SafetyInv, TypeOK, ProcInv, StoppedInv, Over, StoppedIsTrue
<1> QED
  BY <1>1, StoppedSafety, PTL

\* And the state file never names that instance again.  A failed read of any
\* other process, the service included, changes neither.
THEOREM StoppedStays == Spec => []StoppedIsForgotten
<1>1. StoppedInv => StoppedIsForgotten
  BY DEF StoppedInv, StoppedIsForgotten
<1> QED
  BY <1>1, StoppedSafety, PTL
=============================================================================
