------------------------------ MODULE AtomicFile ------------------------------
(***************************************************************************)
(* How Kirox replaces a file: Config.to_file (utils/config.py) and           *)
(* write_state (service/state.py) write a private temporary file beside it,  *)
(* rename that over it and remove it if anything fails.  to_file first       *)
(* removes the temporary files that killed processes left behind.  Writers   *)
(* are processes with one save each, so the lock of write_state, which is    *)
(* one process's, excludes none of them; each may be killed at any step.     *)
(***************************************************************************)
EXTENDS Naturals

CONSTANTS
    Writers,    \* processes that save the file
    Before      \* what the file holds, or its absence, before any save

ASSUME BeforeIsNoWriter == Before \notin Writers

VARIABLES
    sweeps,     \* it is to_file
    file,       \* whose payload the file holds, and how much of it
    temp,       \* the temporary file of each writer in the directory
    pc,         \* where each writer is
    found,      \* the temporary files its sweep still has to remove
    outcome,    \* how its save ended; "lost" if its temporary file had gone
    leftover,   \* history: the temporary files nobody would rename or remove
                \* when it began
    refused     \* history: those the system would not let its sweep remove

vars == <<sweeps, file, temp, pc, found, outcome, leftover, refused>>

Over(w)  == pc[w] \in {"idle", "returned", "killed"}
Exists(w) == temp[w] # "none"
Holds(w, amount) == [by |-> w, amount |-> amount]

Goes(w, label) == pc' = [pc EXCEPT ![w] = label]
Ends(w, how) == Goes(w, "returned") /\ outcome' = [outcome EXCEPT ![w] = how]

-----------------------------------------------------------------------------
(* to_file and write_state.                                                 *)

\* The order of the steps that have one; the mutation sweeps before the rename.
SweepsLast(label) ==
    IF label = "idle" THEN "create"
    ELSE IF label = "flush" /\ sweeps THEN "glob" ELSE "rename"
After(label) ==
    IF label = "idle" /\ sweeps THEN "glob"
    ELSE IF label = "flush" THEN "rename" ELSE "create"

Begin(w) ==
    /\ pc[w] = "idle" /\ Goes(w, After("idle"))
    /\ leftover' = [leftover EXCEPT ![w] = {v \in Writers : Over(v) /\ Exists(v)}]
    /\ UNCHANGED <<sweeps, file, temp, found, outcome, refused>>

\* The directory is read once; one that may not be listed looks empty.
OfTheLiving(w) == {v \in Writers : Exists(v) /\ ~Over(v)}      \* mutation
Matching(w) == {v \in Writers : Exists(v)}

Glob(w) ==
    /\ pc[w] = "glob" /\ Goes(w, "sweep")
    /\ \/ /\ found' = [found EXCEPT ![w] = Matching(w)]
          /\ UNCHANGED refused
       \/ /\ refused' = [refused EXCEPT ![w] = {v \in Writers : Exists(v)}]
          /\ UNCHANGED found
    /\ UNCHANGED <<sweeps, file, temp, outcome, leftover>>

\* An error is ignored: the file has gone, or the system refuses to remove it,
\* because a process has it open, or the directory or the file is protected.
Remove(w) ==
    /\ pc[w] = "sweep"
    /\ \E v \in found[w] :
          /\ found' = [found EXCEPT ![w] = @ \ {v}]
          /\ \/ temp' = [temp EXCEPT ![v] = "none"] /\ UNCHANGED refused
             \/ /\ Exists(v) /\ UNCHANGED temp
                /\ refused' = [refused EXCEPT ![w] = @ \cup {v}]
    /\ UNCHANGED <<sweeps, file, pc, outcome, leftover>>

SweepDone(w) ==
    /\ pc[w] = "sweep" /\ found[w] = {} /\ Goes(w, After("sweep"))
    /\ UNCHANGED <<sweeps, file, temp, found, outcome, leftover, refused>>

\* NamedTemporaryFile: a name of its own, readable by the owner only.
Create(w) ==
    /\ pc[w] = "create"
    /\ \/ /\ temp' = [temp EXCEPT ![w] = "empty"]
          /\ Goes(w, "write") /\ UNCHANGED outcome
       \/ Ends(w, "failed") /\ UNCHANGED temp
    /\ UNCHANGED <<sweeps, file, found, leftover, refused>>

\* A file that was removed meanwhile is written all the same.
Fills(w, amount) == temp' = [temp EXCEPT ![w] = IF @ = "none" THEN @ ELSE amount]

Write(w) ==
    /\ pc[w] = "write"
    /\ Fills(w, "part")
    /\ pc' \in {[pc EXCEPT ![w] = "flush"], [pc EXCEPT ![w] = "clean"]}
    /\ UNCHANGED <<sweeps, file, found, outcome, leftover, refused>>

\* flush() and fsync(); the chmod that follows may fail unnoticed.
Unflushed(w) == UNCHANGED temp          \* mutation: no flush() before the rename
Flushed(w) == Fills(w, "whole")

Flush(w) ==
    /\ pc[w] = "flush"
    /\ \/ Flushed(w) /\ Goes(w, After("flush"))
       \/ UNCHANGED temp /\ Goes(w, "clean")
    /\ UNCHANGED <<sweeps, file, found, outcome, leftover, refused>>

Rename(w) ==
    /\ pc[w] = "rename" /\ Exists(w)
    /\ file' = Holds(w, temp[w])
    /\ temp' = [temp EXCEPT ![w] = "none"]
    /\ Ends(w, "saved")
    /\ UNCHANGED <<sweeps, found, leftover, refused>>

\* It has gone, or os.replace fails.
RenameFails(w) ==
    /\ pc[w] = "rename" /\ Goes(w, "clean")
    /\ outcome' = [outcome EXCEPT ![w] = IF Exists(w) THEN @ ELSE "lost"]
    /\ UNCHANGED <<sweeps, file, temp, found, leftover, refused>>

\* The finally clause; the unlink may fail as well.
Clean(w) ==
    /\ pc[w] = "clean"
    /\ Ends(w, IF outcome[w] = "lost" THEN "lost" ELSE "failed")
    /\ temp' \in {temp, [temp EXCEPT ![w] = "none"]}
    /\ UNCHANGED <<sweeps, file, found, leftover, refused>>

Killed(w) ==
    /\ ~Over(w) /\ Goes(w, "killed")
    /\ found' = [found EXCEPT ![w] = {}]
    /\ UNCHANGED <<sweeps, file, temp, outcome, leftover, refused>>

Init ==
    /\ sweeps \in BOOLEAN
    /\ file = Holds(Before, "whole")
    /\ temp = [w \in Writers |-> "none"] /\ pc = [w \in Writers |-> "idle"]
    /\ found = [w \in Writers |-> {}]
    /\ outcome = [w \in Writers |-> "none"]
    /\ leftover = [w \in Writers |-> {}] /\ refused = [w \in Writers |-> {}]

Step(w) ==
    \/ Begin(w) \/ Glob(w) \/ Remove(w) \/ SweepDone(w) \/ Create(w) \/ Write(w)
    \/ Flush(w) \/ Rename(w) \/ RenameFails(w) \/ Clean(w)

Next == \E w \in Writers : Step(w) \/ Killed(w)

Spec == Init /\ [][Next]_vars

-----------------------------------------------------------------------------
\* Every variable keeps to its type.
TypeOK ==
    /\ sweeps \in BOOLEAN
    /\ file \in [by : Writers \cup {Before}, amount : {"empty", "part", "whole"}]
    /\ temp \in [Writers -> {"none", "empty", "part", "whole"}]
    /\ pc \in [Writers -> {"idle", "glob", "sweep", "create", "write", "flush",
                           "rename", "clean", "returned", "killed"}]
    /\ found \in [Writers -> SUBSET Writers]
    /\ outcome \in [Writers -> {"none", "saved", "failed", "lost"}]
    /\ leftover \in [Writers -> SUBSET Writers]
    /\ refused \in [Writers -> SUBSET Writers]

\* A temporary file, which may hold a token, does not outlive the next save of
\* the configuration: what was left behind when a save began has gone when it
\* has made its own, whoever was killed in the meantime, unless the system
\* refused to remove it: that error is ignored and the save succeeds.
LeftoversRemoved ==
    \A w \in Writers : sweeps /\ outcome[w] = "saved" =>
        \A v \in leftover[w] : Exists(v) => v \in refused[w]

\* Saves of the configuration may remove each other's temporary file, and the
\* save that finds its own gone reports an error; but they never all do: of any
\* number of saves, one is saved or ends for a reason of its own.  A save is
\* never lost where nobody sweeps.
SomeSaveIsNotLost ==
    (\E w \in Writers : outcome[w] = "lost") =>
        sweeps /\ \E w \in Writers : pc[w] # "idle" /\ outcome[w] # "lost"

\* The file is a register: readers see whole saves, in the order of the
\* renames, whoever is killed where.
Content == IF file.amount = "whole" THEN file.by ELSE "torn"
Outcome == [w \in Writers |-> IF outcome[w] = "lost" THEN "failed" ELSE outcome[w]]
File == INSTANCE Register WITH content <- Content, outcome <- Outcome
RegisterSpec == File!Spec
=============================================================================
