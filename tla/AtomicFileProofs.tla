---------------------------- MODULE AtomicFileProofs ----------------------------
(***************************************************************************)
(* Theorems about AtomicFile for any number of writers: the type invariant, *)
(* that the file is the register of module Register, that temporary files   *)
(* do not outlive the next save, and that saves never all lose.             *)
(***************************************************************************)
EXTENDS AtomicFile, TLAPS

-----------------------------------------------------------------------------
(* The inductive invariant.                                                 *)

Labels == {"idle", "glob", "sweep", "create", "write", "flush", "rename", "clean",
           "returned", "killed"}

\* A save has no outcome before it ends, but for the loss it is cleaning up.
OutcomeInv ==
    \A w \in Writers :
        /\ pc[w] \in {"idle", "glob", "sweep", "create", "write", "flush", "rename"} =>
               outcome[w] = "none"
        /\ pc[w] = "clean" => outcome[w] \in {"none", "lost"}
        /\ outcome[w] = "saved" => pc[w] = "returned"

\* What is renamed is whole, if it is there at all, and so is the file.
WholeInv ==
    /\ file.amount = "whole"
    /\ \A w \in Writers :
        /\ pc[w] = "rename" => temp[w] \in {"none", "whole"}
        /\ pc[w] \in {"idle", "glob", "sweep", "create"} => temp[w] = "none"

\* What was left behind belongs to writers that are over for good, and waits
\* for the sweep of the writer that found it, which may be refused it.
LeftoverInv ==
    \A w \in Writers : \A v \in leftover[w] :
        /\ pc[v] \in {"returned", "killed"}
        /\ sweeps /\ Exists(v) =>
               \/ pc[w] \in {"glob", "killed"}
               \/ pc[w] = "sweep" /\ v \in found[w]
               \/ v \in refused[w]

\* The temporary file of w was removed under it, or w is about to say so.
Hit(w) ==
    \/ outcome[w] = "lost"
    \/ pc[w] \in {"write", "flush", "rename"} /\ ~Exists(w)

\* Only those who sweep remove another's file, and one who does, and whoever
\* it was that began last, still has its own or has not made it.
HitInv ==
    /\ \A w \in Writers : pc[w] \in {"glob", "sweep"} => sweeps
    /\ \A w \in Writers : Hit(w) =>
          sweeps /\ \E x \in Writers : pc[x] # "idle" /\ ~Hit(x)

SafetyInv == TypeOK /\ OutcomeInv /\ WholeInv /\ LeftoverInv /\ HitInv

-----------------------------------------------------------------------------
(* After, step by step.                                                     *)

\* A save begins with the sweep or the temporary file, sweeps before it
\* creates, and renames what it has flushed.
LEMMA Order ==
    ASSUME sweeps \in BOOLEAN
    PROVE  /\ sweeps => After("idle") = "glob"
           /\ ~sweeps => After("idle") = "create"
           /\ After("sweep") = "create"
           /\ After("flush") = "rename"
  BY DEF After

\* The inductive invariant holds before the first save.
LEMMA InvInit == Init => SafetyInv
  BY DEF Init, SafetyInv, TypeOK, OutcomeInv, WholeInv, LeftoverInv, HitInv, Hit,
         Holds, Exists

\* Every step keeps every variable to its type.
LEMMA TypeStep == TypeOK /\ [Next]_vars => TypeOK'
<1> SUFFICES ASSUME TypeOK, [Next]_vars PROVE TypeOK'
  OBVIOUS
<1>0. CASE UNCHANGED vars
  BY <1>0 DEF TypeOK, vars
<1> SUFFICES ASSUME NEW w \in Writers, Step(w) \/ Killed(w) PROVE TypeOK'
  BY <1>0 DEF Next
<1>1. CASE Begin(w)
  <2>1. After("idle") \in {"glob", "create"}
    BY Order DEF TypeOK
  <2> QED
    BY <1>1, <2>1 DEF Begin, Goes, TypeOK, Over, Exists
<1>2. CASE Glob(w)
  BY <1>2 DEF Glob, Goes, Matching, Exists, TypeOK
<1>3. CASE Remove(w)
  BY <1>3 DEF Remove, TypeOK
<1>4. CASE SweepDone(w)
  BY <1>4, Order DEF SweepDone, Goes, TypeOK
<1>5. CASE Create(w)
  BY <1>5 DEF Create, Goes, Ends, TypeOK
<1>6. CASE Write(w)
  BY <1>6 DEF Write, Fills, TypeOK
<1>7. CASE Flush(w)
  BY <1>7, Order DEF Flush, Flushed, Fills, Goes, TypeOK
<1>8. CASE Rename(w)
  <2>1. temp[w] \in {"empty", "part", "whole"}
    BY <1>8 DEF Rename, Exists, TypeOK
  <2> QED
    BY <1>8, <2>1 DEF Rename, Holds, Goes, Ends, TypeOK
<1>9. CASE RenameFails(w)
  BY <1>9 DEF RenameFails, Goes, TypeOK
<1>10. CASE Clean(w)
  BY <1>10 DEF Clean, Goes, Ends, TypeOK
<1>11. CASE Killed(w)
  BY <1>11 DEF Killed, Goes, TypeOK
<1> QED
  BY <1>1, <1>2, <1>3, <1>4, <1>5, <1>6, <1>7, <1>8, <1>9, <1>10, <1>11 DEF Step

\* Every step keeps outcomes and contents as they should be.
LEMMA ContentStep ==
    TypeOK /\ OutcomeInv /\ WholeInv /\ [Next]_vars => OutcomeInv' /\ WholeInv'
<1> SUFFICES ASSUME TypeOK, OutcomeInv, WholeInv, [Next]_vars
             PROVE  OutcomeInv' /\ WholeInv'
  OBVIOUS
<1> USE DEF OutcomeInv, WholeInv
<1>0. CASE UNCHANGED vars
  BY <1>0 DEF vars
<1> SUFFICES ASSUME NEW w \in Writers, Step(w) \/ Killed(w)
             PROVE  OutcomeInv' /\ WholeInv'
  BY <1>0 DEF Next
<1>1. CASE Begin(w)
  <2>1. After("idle") \in {"glob", "create"}
    BY Order DEF TypeOK
  <2> QED
    BY <1>1, <2>1 DEF Begin, Goes, TypeOK
<1>2. CASE Glob(w)
  BY <1>2 DEF Glob, Goes, TypeOK
<1>3. CASE Remove(w)
  BY <1>3 DEF Remove, TypeOK
<1>4. CASE SweepDone(w)
  BY <1>4, Order DEF SweepDone, Goes, TypeOK
<1>5. CASE Create(w)
  BY <1>5 DEF Create, Goes, Ends, TypeOK
<1>6. CASE Write(w)
  BY <1>6 DEF Write, Fills, TypeOK
<1>7. CASE Flush(w)
  BY <1>7, Order DEF Flush, Flushed, Fills, Goes, TypeOK
<1>8. CASE Rename(w)
  <2>1. temp[w] = "whole"
    BY <1>8 DEF Rename, Exists
  <2> QED
    BY <1>8, <2>1 DEF Rename, Holds, Goes, Ends, TypeOK
<1>9. CASE RenameFails(w)
  BY <1>9 DEF RenameFails, Goes, TypeOK
<1>10. CASE Clean(w)
  BY <1>10 DEF Clean, Goes, Ends, TypeOK
<1>11. CASE Killed(w)
  BY <1>11 DEF Killed, Over, Goes, TypeOK
<1> QED
  BY <1>1, <1>2, <1>3, <1>4, <1>5, <1>6, <1>7, <1>8, <1>9, <1>10, <1>11 DEF Step

\* Every step leaves what was left behind to the sweep that found it.
LEMMA LeftoverStep ==
    SafetyInv /\ [Next]_vars => LeftoverInv'
<1> SUFFICES ASSUME TypeOK, OutcomeInv, WholeInv, LeftoverInv, [Next]_vars
             PROVE  LeftoverInv'
  BY DEF SafetyInv
<1> USE DEF LeftoverInv, Exists
<1>0. CASE UNCHANGED vars
  BY <1>0 DEF vars
<1> SUFFICES ASSUME NEW w \in Writers, Step(w) \/ Killed(w) PROVE LeftoverInv'
  BY <1>0 DEF Next
<1>1. CASE Begin(w)
  <2>1. \A v \in leftover'[w] : pc[v] \in {"returned", "killed"} /\ v # w
    BY <1>1 DEF Begin, Over, WholeInv, TypeOK
  <2>2. sweeps => pc'[w] = "glob"
    BY <1>1, Order DEF Begin, Goes, TypeOK
  <2> QED
    BY <1>1, <2>1, <2>2 DEF Begin, Goes, TypeOK
<1>2. CASE Glob(w)
  BY <1>2 DEF Glob, Matching, Goes, TypeOK
<1>3. CASE Remove(w)
  BY <1>3 DEF Remove, Over, TypeOK
<1>4. CASE SweepDone(w)
  BY <1>4 DEF SweepDone, Goes, TypeOK
<1>5. CASE Create(w)
  BY <1>5 DEF Create, Goes, Ends, TypeOK
<1>6. CASE Write(w)
  BY <1>6 DEF Write, Fills, TypeOK
<1>7. CASE Flush(w)
  BY <1>7 DEF Flush, Flushed, Fills, Goes, TypeOK
<1>8. CASE Rename(w)
  BY <1>8 DEF Rename, Goes, Ends, TypeOK
<1>9. CASE RenameFails(w)
  BY <1>9 DEF RenameFails, Goes, TypeOK
<1>10. CASE Clean(w)
  BY <1>10 DEF Clean, Goes, Ends, TypeOK
<1>11. CASE Killed(w)
  BY <1>11 DEF Killed, Over, Goes, TypeOK
<1> QED
  BY <1>1, <1>2, <1>3, <1>4, <1>5, <1>6, <1>7, <1>8, <1>9, <1>10, <1>11 DEF Step

\* Whoever is not hit stays so unless a sweep removes its file; the sweeper is
\* not hit itself.
LEMMA HitStep == SafetyInv /\ [Next]_vars => HitInv'
<1> SUFFICES ASSUME TypeOK, OutcomeInv, WholeInv, HitInv, [Next]_vars
             PROVE  HitInv'
  BY DEF SafetyInv
<1> USE DEF HitInv, Hit, Exists
<1>0. CASE UNCHANGED vars
  BY <1>0 DEF vars
<1> SUFFICES ASSUME NEW w \in Writers, Step(w) \/ Killed(w) PROVE HitInv'
  BY <1>0 DEF Next
<1>1. CASE Begin(w)
  <2>1. pc[w] = "idle" /\ pc'[w] = After("idle") /\ outcome[w] = "none"
    BY <1>1 DEF Begin, Goes, OutcomeInv, TypeOK
  <2>2. After("idle") = "create" \/ (sweeps /\ After("idle") = "glob")
    BY Order DEF TypeOK
  <2> QED
    BY <1>1, <2>1, <2>2 DEF Begin, Goes, TypeOK
<1>2. CASE Glob(w)
  BY <1>2 DEF Glob, Goes, TypeOK
<1>3. CASE Remove(w)
  <2>1. pc[w] = "sweep" /\ outcome[w] = "none" /\ sweeps
    BY <1>3 DEF Remove, OutcomeInv
  <2>2. pc' = pc /\ outcome' = outcome /\ sweeps' = sweeps
    BY <1>3 DEF Remove
  <2>3. pc'[w] # "idle" /\ ~Hit(w)'
    BY <2>1, <2>2
  <2>4. \A y \in Writers : pc'[y] \in {"glob", "sweep"} => sweeps'
    BY <2>2
  <2>5. sweeps'
    BY <2>1, <2>2
  <2> QED
    BY <2>3, <2>4, <2>5 DEF HitInv
<1>4. CASE SweepDone(w)
  BY <1>4, Order DEF SweepDone, Goes, TypeOK
<1>5. CASE Create(w)
  BY <1>5 DEF Create, Goes, Ends, OutcomeInv, TypeOK
<1>6. CASE Write(w)
  BY <1>6 DEF Write, Fills, OutcomeInv, TypeOK
<1>7. CASE Flush(w)
  BY <1>7, Order DEF Flush, Flushed, Fills, Goes, OutcomeInv, TypeOK
<1>8. CASE Rename(w)
  BY <1>8 DEF Rename, Goes, Ends, TypeOK
<1>9. CASE RenameFails(w)
  BY <1>9 DEF RenameFails, Goes, OutcomeInv, TypeOK
<1>10. CASE Clean(w)
  BY <1>10 DEF Clean, Goes, Ends, OutcomeInv, TypeOK
<1>11. CASE Killed(w)
  BY <1>11 DEF Killed, Over, Goes, TypeOK
<1> QED
  BY <1>1, <1>2, <1>3, <1>4, <1>5, <1>6, <1>7, <1>8, <1>9, <1>10, <1>11 DEF Step

\* SafetyInv is inductive.
LEMMA InvStep == SafetyInv /\ [Next]_vars => SafetyInv'
  BY TypeStep, ContentStep, LeftoverStep, HitStep DEF SafetyInv

\* SafetyInv is an invariant.
LEMMA Safety == Spec => []SafetyInv
  BY InvInit, InvStep, PTL DEF Spec

-----------------------------------------------------------------------------
(* The theorems.                                                            *)

\* Every variable keeps to its type, in to_file and in write_state.
THEOREM TypeInvariant == Spec => []TypeOK
  BY Safety, PTL DEF SafetyInv

\* A temporary file left behind when a save of the configuration began has
\* gone when that save has made its own, unless the system refused to remove it.
THEOREM NothingLeftBehind == Spec => []LeftoversRemoved
<1>1. SafetyInv => LeftoversRemoved
  BY DEF SafetyInv, OutcomeInv, LeftoverInv, LeftoversRemoved
<1> QED
  BY <1>1, Safety, PTL

\* Of any number of saves that sweep away each other's temporary files one is
\* not lost, and where nobody sweeps none is.
THEOREM NotAllLost == Spec => []SomeSaveIsNotLost
<1>1. SafetyInv => SomeSaveIsNotLost
  BY DEF SafetyInv, HitInv, Hit, SomeSaveIsNotLost
<1> QED
  BY <1>1, Safety, PTL

\* The first state is the register's.
LEMMA RegisterInit == Init => File!Init
  BY DEF Init, File!Init, Content, Outcome, Holds

\* A rename is a save; the step in which a save fails, or finds its temporary
\* file gone, is a failure; all the others are invisible.
LEMMA RegisterStep == SafetyInv /\ [Next]_vars => [File!Next]_(File!vars)
<1> SUFFICES ASSUME TypeOK, OutcomeInv, WholeInv, [Next]_vars
             PROVE  File!Next \/ UNCHANGED File!vars
  BY DEF SafetyInv
<1>0. ASSUME file' = file, outcome' = outcome
      PROVE  UNCHANGED File!vars
  BY <1>0 DEF File!vars, Content, Outcome
<1>1. CASE UNCHANGED vars
  BY <1>0, <1>1 DEF vars
<1> SUFFICES ASSUME NEW w \in Writers, Step(w) \/ Killed(w)
             PROVE  File!Next \/ UNCHANGED File!vars
  BY <1>1 DEF Next
<1>2. ASSUME file' = file, outcome[w] = "none", outcome' \in {[outcome EXCEPT ![w] = "failed"],
                                                           [outcome EXCEPT ![w] = "lost"]}
      PROVE  File!Fail(w)
  <2>1. Content' = Content
    BY <1>2 DEF Content
  <2>2. Outcome[w] = "none"
    BY <1>2 DEF Outcome
  <2>3. \A v \in Writers : outcome'[v] = IF v = w THEN outcome'[w] ELSE outcome[v]
    BY <1>2 DEF TypeOK
  <2>4. outcome'[w] \in {"failed", "lost"}
    BY <1>2 DEF TypeOK
  <2>5. Outcome' = [Outcome EXCEPT ![w] = "failed"]
    BY <2>3, <2>4 DEF Outcome
  <2> QED
    BY <2>1, <2>2, <2>5 DEF File!Fail
<1>3. CASE Begin(w) \/ Glob(w) \/ Remove(w) \/ SweepDone(w) \/ Write(w) \/ Flush(w) \/ Killed(w)
  BY <1>0, <1>3 DEF Begin, Glob, Remove, SweepDone, Write, Flush, Killed
<1>4. CASE Create(w)
  <2>1. outcome[w] = "none"
    BY <1>4 DEF Create, OutcomeInv
  <2> QED
    BY <1>0, <1>2, <1>4, <2>1 DEF Create, Ends, File!Next
<1>5. CASE Rename(w)
  <2>1. outcome[w] = "none" /\ temp[w] = "whole"
    BY <1>5 DEF Rename, Exists, OutcomeInv, WholeInv
  <2>2. Content' = w
    BY <1>5, <2>1 DEF Rename, Holds, Content
  <2>3. Outcome' = [Outcome EXCEPT ![w] = "saved"]
    BY <1>5 DEF Rename, Ends, Outcome, TypeOK
  <2>4. Outcome[w] = "none"
    BY <2>1 DEF Outcome
  <2> QED
    BY <2>2, <2>3, <2>4 DEF File!Next, File!Save
<1>6. CASE RenameFails(w)
  <2>1. outcome[w] = "none"
    BY <1>6 DEF RenameFails, OutcomeInv
  <2>2. CASE Exists(w)
    BY <1>0, <1>6, <2>2 DEF RenameFails, TypeOK
  <2>3. CASE ~Exists(w)
    BY <1>2, <1>6, <2>1, <2>3 DEF RenameFails, File!Next
  <2> QED
    BY <2>2, <2>3
<1>7. CASE Clean(w)
  <2>1. outcome[w] \in {"none", "lost"}
    BY <1>7 DEF Clean, OutcomeInv
  <2>2. CASE outcome[w] = "none"
    BY <1>2, <1>7, <2>2 DEF Clean, Ends, File!Next
  <2>3. CASE outcome[w] = "lost"
    BY <1>0, <1>7, <2>3 DEF Clean, Ends, TypeOK
  <2> QED
    BY <2>1, <2>2, <2>3
<1> QED
  BY <1>3, <1>4, <1>5, <1>6, <1>7 DEF Step

\* The file is a register: whoever reads it, whoever is killed where, it holds
\* what it held before or the whole of one save.
THEOREM FileIsRegister == Spec => RegisterSpec
  BY RegisterInit, RegisterStep, Safety, PTL DEF Spec, RegisterSpec, File!Spec
=============================================================================
