--------------------------- MODULE WorkspaceProofs ---------------------------
(***************************************************************************)
(* Workspace, proved for any number of jobs and slugs.  All the state that *)
(* counts is a job's own: where it stands says whether its tree is in      *)
(* staging, published or neither.  OwnInv says that of one job, and no     *)
(* step of another job can disturb it, because a published directory is    *)
(* never given to someone else.                                            *)
(***************************************************************************)
EXTENDS Workspace, TLAPS

\* Where job j stands determines its slug, its two trees and its error.
OwnInv(j) ==
  /\ pc[j] \in Busy \cup {"returned"} => SlugOf[j] \in Slugs
  /\ pc[j] \in {"working", "returned"} => folder[SlugOf[j]] = j
  /\ pc[j] \in Trying \ {"working"} => j \in staging
  /\ \A s \in Slugs : folder[s] = j =>
       /\ s = SlugOf[j]
       /\ j \notin staging
       /\ pc[j] \in {"working", "cleaning", "returned", "failed", "lost"}
       /\ pc[j] = "failed" => j \in metadata
  /\ j \in staging =>
       /\ SlugOf[j] \in Slugs
       /\ pc[j] \in (Trying \ {"working"}) \cup {"cleaning", "failed", "lost"}
       /\ j \notin metadata
  /\ j \in metadata => pc[j] = "failed" /\ SlugOf[j] \in Slugs

IInv == TypeOK /\ \A j \in Jobs : OwnInv(j)

-----------------------------------------------------------------------------

\* The initial states satisfy the invariant: no job owns anything, and the
\* directories that are there are a stranger's.
LEMMA InitIInv == Init => IInv
  BY SlugAssumption, OwnerAssumption DEF Init, IInv, TypeOK, PC, Busy, Trying, OwnInv

\* A step of one job keeps the types.
LEMMA StepTypeOK ==
  ASSUME TypeOK, NEW j \in Jobs, Step(j)
  PROVE  TypeOK'
  <1>1. CASE Begin(j)
    BY <1>1 DEF TypeOK, Begin, ThrowBare, Goto, PC, Busy, Trying
  <1>2. CASE FindAbsent(j) \/ FindOccupied(j)
    BY <1>2 DEF TypeOK, FindAbsent, FindOccupied, ThrowNamed, Goto, PC, Busy, Trying
  <1>3. CASE MakeStaging(j) \/ PrepareFails(j) \/ Build(j) \/ Commit(j)
    BY <1>3 DEF TypeOK, MakeStaging, PrepareFails, Build, Commit, ThrowBare, Goto, PC, Busy, Trying
  <1>4. CASE Rename(j)
    BY <1>4 DEF TypeOK, Rename, Goto, PC, Busy, Trying
  <1>5. CASE WorkDone(j) \/ TryFails(j)
    BY <1>5 DEF TypeOK, WorkDone, TryFails, Goto, PC, Busy, Trying
  <1>6. CASE Clean(j) \/ CleanFails(j)
    BY <1>6 DEF TypeOK, Clean, CleanFails, ThrowNamed, ThrowBare, Goto, PC, Busy, Trying
  <1> QED
    BY <1>1, <1>2, <1>3, <1>4, <1>5, <1>6 DEF Step

\* A step of j leaves what is said of j true.
LEMMA StepOwnInv ==
  ASSUME IInv, NEW j \in Jobs, Step(j)
  PROVE  OwnInv(j)'
  <1> USE OwnerAssumption DEF Busy, Trying, Goto
  <1>1. CASE Begin(j)
    BY <1>1, SlugAssumption DEF IInv, TypeOK, OwnInv, Begin, ThrowBare
  <1>2. CASE FindAbsent(j)
    BY <1>2 DEF IInv, TypeOK, OwnInv, FindAbsent
  <1>3. CASE FindOccupied(j)
    BY <1>3 DEF IInv, TypeOK, OwnInv, FindOccupied, ThrowNamed
  <1>4. CASE MakeStaging(j)
    BY <1>4 DEF IInv, TypeOK, OwnInv, MakeStaging
  <1>5. CASE PrepareFails(j)
    BY <1>5 DEF IInv, TypeOK, OwnInv, PrepareFails, ThrowBare
  <1>6. CASE Build(j) \/ Commit(j)
    BY <1>6 DEF IInv, TypeOK, OwnInv, Build, Commit
  <1>7. CASE Rename(j)
    BY <1>7 DEF IInv, TypeOK, OwnInv, Rename
  <1>8. CASE WorkDone(j)
    BY <1>8 DEF IInv, TypeOK, OwnInv, WorkDone
  <1>9. CASE TryFails(j)
    BY <1>9 DEF IInv, TypeOK, OwnInv, TryFails
  <1>10. CASE Clean(j)
    BY <1>10 DEF IInv, TypeOK, OwnInv, Clean, ThrowNamed
  <1>11. CASE CleanFails(j)
    BY <1>11 DEF IInv, TypeOK, OwnInv, CleanFails, ThrowBare
  <1> QED
    BY <1>1, <1>2, <1>3, <1>4, <1>5, <1>6, <1>7, <1>8, <1>9, <1>10, <1>11 DEF Step

\* What a step of one job may do to the directories and to the other jobs: it
\* publishes its own tree under a free name, or touches no directory.
LEMMA StepFrame ==
  ASSUME IInv, NEW j \in Jobs, Step(j)
  PROVE  /\ \A k \in Jobs \ {j} :
              /\ pc'[k] = pc[k]
              /\ k \in staging' <=> k \in staging
              /\ k \in metadata' <=> k \in metadata
         /\ \A s \in Slugs : folder'[s] = folder[s] \/ (folder[s] = Nobody /\ folder'[s] = j)
  <1> USE DEF IInv, TypeOK, OwnInv, Busy, Trying, Goto
  <1>1. CASE Begin(j) \/ FindAbsent(j) \/ FindOccupied(j) \/ PrepareFails(j)
    BY <1>1 DEF Begin, FindAbsent, FindOccupied, PrepareFails, ThrowBare, ThrowNamed
  <1>2. CASE MakeStaging(j) \/ Build(j) \/ Commit(j) \/ WorkDone(j) \/ TryFails(j)
    BY <1>2 DEF MakeStaging, Build, Commit, WorkDone, TryFails
  <1>3. CASE Rename(j)
    BY <1>3 DEF Rename
  <1>4. CASE Clean(j) \/ CleanFails(j)
    BY <1>4 DEF Clean, CleanFails, ThrowBare, ThrowNamed
  <1> QED
    BY <1>1, <1>2, <1>3, <1>4 DEF Step

\* Every step keeps the invariant.
LEMMA NextIInv == IInv /\ [Next]_vars => IInv'
  <1> SUFFICES ASSUME IInv, [Next]_vars PROVE IInv'
    OBVIOUS
  <1>1. ASSUME NEW j \in Jobs, Step(j) PROVE IInv'
    <2>1. TypeOK'
      BY <1>1, StepTypeOK DEF IInv
    <2>2. OwnInv(j)'
      BY <1>1, StepOwnInv
    <2>3. ASSUME NEW k \in Jobs \ {j} PROVE OwnInv(k)'
      BY <1>1, <2>1, StepFrame, OwnerAssumption DEF IInv, TypeOK, OwnInv, Busy, Trying
    <2> QED
      BY <2>1, <2>2, <2>3 DEF IInv
  <1>2. CASE Crash
    BY <1>2 DEF IInv, TypeOK, OwnInv, Crash, PC, Busy, Trying
  <1>3. CASE Restart
    BY <1>3 DEF IInv, TypeOK, OwnInv, Restart
  <1>4. CASE UNCHANGED vars
    BY <1>4 DEF IInv, TypeOK, OwnInv, vars
  <1> QED
    BY <1>1, <1>2, <1>3, <1>4 DEF Next

\* The invariant holds in every reachable state.
LEMMA Invariance == Spec => []IInv
  BY InitIInv, NextIInv, PTL DEF Spec

-----------------------------------------------------------------------------

\* Every variable keeps its type.
THEOREM TypeCorrect == Spec => []TypeOK
  <1>1. IInv => TypeOK
    BY DEF IInv
  <1> QED
    BY <1>1, Invariance, PTL

\* Whoever returns from generate() owns the directory it reports, however the
\* existence checks and the renames of colliding jobs interleave.
THEOREM ReturnMeansOwnership == Spec => []ReturnedOwnsFolder
  <1>1. IInv => ReturnedOwnsFolder
    BY DEF IInv, OwnInv, ReturnedOwnsFolder
  <1> QED
    BY <1>1, Invariance, PTL

\* A staging tree is left over only by a process end or by a failed removal,
\* and never beside a published tree of the same job.
THEOREM StagingLeavesNoTrace == Spec => []StagingIsTemporary
  <1>1. IInv => StagingIsTemporary
    BY SlugAssumption DEF IInv, OwnInv, StagingIsTemporary, TypeOK, Trying
  <1> QED
    BY <1>1, Invariance, PTL

\* A failed generation whose tree stays behind has named it in its error.
THEOREM LeftoversAreNamed == Spec => []LeftoverIsNamed
  <1>1. IInv => LeftoverIsNamed
    BY DEF IInv, OwnInv, LeftoverIsNamed
  <1> QED
    BY <1>1, Invariance, PTL

\* No step, of any job, of a crash or of a restart, moves or replaces a
\* directory that is in the workspace.
THEOREM FoldersAreFinal == Spec => FolderIsFinal
  <1> DEFINE Kept == \A s \in Slugs : folder[s] # Nobody => folder'[s] = folder[s]
  <1>1. IInv /\ [Next]_vars => [Kept]_folder
    <2> SUFFICES ASSUME IInv, [Next]_vars PROVE Kept \/ UNCHANGED folder
      OBVIOUS
    <2>1. ASSUME NEW j \in Jobs, Step(j) PROVE Kept
      BY <2>1, StepFrame
    <2>2. CASE Crash \/ Restart \/ UNCHANGED vars
      BY <2>2 DEF Crash, Restart, vars
    <2> QED
      BY <2>1, <2>2 DEF Next
  <1> QED
    BY <1>1, Invariance, PTL DEF Spec, FolderIsFinal

\* The workspace gives its directories away as Claims says: first come, first
\* served, under the claimant's own slug, in one step and for good.
THEOREM ClaimsRefinement == Spec => ImplementsClaims
  <1>1. Init => Directories!Init
    BY SlugAssumption DEF Init, Directories!Init
  <1>2. IInv /\ [Next]_vars => [Directories!Next]_(Directories!vars)
    <2> SUFFICES ASSUME IInv, [Next]_vars
                 PROVE  Directories!Next \/ UNCHANGED <<folder, SlugOf>>
      BY DEF Directories!vars
    <2>1. ASSUME NEW j \in Jobs, Step(j) PROVE Directories!Next \/ UNCHANGED folder
      <3>1. CASE Rename(j) /\ folder[SlugOf[j]] = Nobody
        <4>1. SlugOf[j] \in Slugs
          BY <3>1 DEF Rename, IInv, OwnInv, Busy, Trying
        <4>2. folder' = [folder EXCEPT ![SlugOf[j]] = j]
          BY <3>1 DEF Rename
        <4> QED
          BY <3>1, <4>1, <4>2 DEF Directories!Next, Directories!Claim
      <3>2. CASE ~(Rename(j) /\ folder[SlugOf[j]] = Nobody)
        BY <2>1, <3>2 DEF Step, Begin, FindAbsent, FindOccupied, MakeStaging, PrepareFails,
                          Build, Commit, Rename, WorkDone, TryFails, Clean, CleanFails
      <3> QED
        BY <3>1, <3>2
    <2>2. CASE Crash \/ Restart \/ UNCHANGED vars
      BY <2>2 DEF Crash, Restart, vars
    <2> QED
      BY <2>1, <2>2 DEF Next
  <1> QED
    BY <1>1, <1>2, Invariance, PTL DEF Spec, ImplementsClaims, Directories!Spec

-----------------------------------------------------------------------------
(***************************************************************************)
(* A generation goes forward.                                              *)
(***************************************************************************)

\* How far generate() of j has got.
Stage(j) ==
  CASE pc[j] = "idle" -> 0
    [] pc[j] = "checking" -> 1
    [] pc[j] = "reserving" -> 2
    [] pc[j] = "building" -> 3
    [] pc[j] = "committing" -> 4
    [] pc[j] = "renaming" -> 5
    [] pc[j] = "working" -> 6
    [] pc[j] = "cleaning" -> 7
    [] OTHER -> 8

\* No generation does a step twice, resumes after an end or is resumed after
\* a crash: whatever the others do, it moves on or stays where it is, and it
\* creates, moves and removes its staging tree once at most.
StagesAdvance ==
  [][\A j \in Jobs :
       /\ pc'[j] = pc[j] \/ Stage(j)' > Stage(j)
       /\ j \in staging' \ staging => pc[j] = "reserving"
       /\ j \in staging \ staging' => pc'[j] \in {"working", "failed"}]_vars

\* A generation takes at most eight steps, in one order, with retries of none.
THEOREM GenerationsAdvance == Spec => StagesAdvance
  <1> DEFINE Advance(j) ==
        /\ pc'[j] = pc[j] \/ Stage(j)' > Stage(j)
        /\ j \in staging' \ staging => pc[j] = "reserving"
        /\ j \in staging \ staging' => pc'[j] \in {"working", "failed"}
  <1>1. IInv /\ [Next]_vars => \A j \in Jobs : Advance(j)
    <2> SUFFICES ASSUME IInv, [Next]_vars, NEW j \in Jobs PROVE Advance(j)
      OBVIOUS
    <2> USE DEF IInv, TypeOK
    <2>1. CASE Step(j)
      <3> USE DEF Goto, ThrowBare, ThrowNamed, Stage
      <3>1. CASE Begin(j) \/ FindAbsent(j) \/ FindOccupied(j) \/ PrepareFails(j)
        BY <3>1 DEF Begin, FindAbsent, FindOccupied, PrepareFails
      <3>2. CASE MakeStaging(j) \/ Build(j) \/ Commit(j) \/ WorkDone(j)
        BY <3>2 DEF MakeStaging, Build, Commit, WorkDone
      <3>3. CASE Rename(j) \/ TryFails(j)
        BY <3>3 DEF Rename, TryFails, Trying
      <3>4. CASE Clean(j) \/ CleanFails(j)
        BY <3>4 DEF Clean, CleanFails
      <3> QED
        BY <2>1, <3>1, <3>2, <3>3, <3>4 DEF Step
    <2>2. ASSUME NEW k \in Jobs \ {j}, Step(k) PROVE Advance(j)
      BY <2>2, StepFrame
    <2>3. CASE Crash
      BY <2>3 DEF Crash, Stage, Busy, Trying
    <2>4. CASE Restart \/ UNCHANGED vars
      BY <2>4 DEF Restart, vars
    <2> QED
      BY <2>1, <2>2, <2>3, <2>4 DEF Next
  <1> QED
    BY <1>1, Invariance, PTL DEF Spec, StagesAdvance

=============================================================================
