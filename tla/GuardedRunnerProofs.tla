------------------------- MODULE GuardedRunnerProofs -------------------------
(***************************************************************************)
(* GuardedRunner, proved for every set of scopes and every bound on the    *)
(* iterations.  The loop keeps two readings of the file; ReadingInv says   *)
(* how they relate to the file and to the number of idle runs at each      *)
(* point of the loop, which is what makes the stall test exact.            *)
(***************************************************************************)
EXTENDS GuardedRunner, TLAPS

\* Before a run nothing but the agent has touched the file since the last
\* reading, and an idle run is on record only right after the first one.
ReadingInv ==
  /\ pc = "check" =>
       /\ previous = IF iteration = 0 THEN <<>> ELSE file
       /\ idle = 0 \/ (idle = 1 /\ iteration = 1)
       /\ iteration = 0 => idle = 0
       /\ iteration > 0 => file # NoFile
  /\ pc = "run" =>
       /\ content = file
       /\ file # NoFile
       /\ previous = IF iteration = 0 THEN <<>> ELSE file
       /\ idle = 0 \/ (idle = 1 /\ iteration = 1)
       /\ iteration = 0 => idle = 0
  /\ pc = "compare" =>
       /\ content # NoFile
       /\ previous = IF iteration = 0 THEN <<>> ELSE content
       /\ idle <= 2
       /\ iteration = 0 => idle <= 1
       /\ idle > 0 <=> file = content

IInv ==
  /\ TypeOK
  /\ ReadingInv
  /\ pc \in {"check", "run", "compare"} => iteration < MaxIterations
  /\ idle <= 2
  /\ pc = "returned" => file # NoFile /\ ~hasReadyInternalTask(file)

-----------------------------------------------------------------------------

\* The code's scan, which remembers that a heading was passed, finds a ready
\* status exactly when some section has one.
LEMMA ScanFindsReadyTask ==
  ASSUME NEW c \in Seq(Line)
  PROVE  hasReadyInternalTask(c) <=> ReadyTaskIn(c)
<1>1. ASSUME hasReadyInternalTask(c) PROVE ReadyTaskIn(c)
  <2>1. PICK h \in DOMAIN c, k \in DOMAIN c : h < k /\ c[h] = "heading" /\ c[k] = "ready"
    BY <1>1 DEF hasReadyInternalTask
  <2>2. k \in h .. Len(c)
    BY <2>1
  <2> QED
    BY <2>1, <2>2 DEF ReadyTaskIn
<1>2. ASSUME ReadyTaskIn(c) PROVE hasReadyInternalTask(c)
  <2>1. PICK h \in DOMAIN c : c[h] = "heading" /\ "ready" \in {c[k] : k \in h .. Len(c)}
    BY <1>2 DEF ReadyTaskIn
  <2>2. PICK k \in h .. Len(c) : c[k] = "ready"
    BY <2>1
  <2>3. k \in DOMAIN c /\ k # h
    BY <2>1, <2>2
  <2> QED
    BY <2>1, <2>2, <2>3 DEF hasReadyInternalTask
<1> QED
  BY <1>1, <1>2

LEMMA InitIInv == Init => IInv
  BY ScopeAssumption, IterationAssumption
     DEF Init, IInv, TypeOK, ReadingInv, Ended, Error

LEMMA NextIInv == IInv /\ [Next]_vars => IInv'
<1> SUFFICES ASSUME IInv, [Next]_vars PROVE IInv'
  OBVIOUS
<1> USE ScopeAssumption, IterationAssumption DEF IInv, TypeOK, ReadingInv, Ended, Error
<1>1. CASE Check
  <2>1. CASE file = NoFile
    BY <1>1, <2>1 DEF Check, Throw
  <2>2. CASE file # NoFile /\ hasReadyInternalTask(file)
    BY <1>1, <2>2 DEF Check
  <2>3. CASE file # NoFile /\ ~hasReadyInternalTask(file)
    <3>1. pc' = "returned" /\ content' = file /\ UNCHANGED <<file, previous, iteration, error, idle>>
      BY <1>1, <2>3 DEF Check
    <3>2. ~hasReadyInternalTask(file)'
      BY <2>3, <3>1 DEF hasReadyInternalTask
    <3> QED
      BY <1>1, <3>1, <3>2, <2>3 DEF Check
  <2> QED
    BY <2>1, <2>2, <2>3
<1>2. CASE AgentExits
  BY <1>2 DEF AgentExits
<1>3. CASE AgentFails
  BY <1>3 DEF AgentFails, Throw
<1>4. CASE Compare
  <2>1. CASE file = NoFile \/ (file = content /\ file = previous)
    BY <1>4, <2>1 DEF Compare, Throw
  <2>2. CASE file # NoFile /\ ~(file = content /\ file = previous)
    <3>1. NextIteration(file) /\ UNCHANGED <<file, content, idle>>
      BY <1>4, <2>2 DEF Compare
    <3>2. idle = 0 \/ (idle = 1 /\ iteration = 0)
      BY <1>4, <2>2 DEF Compare
    <3>3. /\ previous' = file /\ iteration' = iteration + 1
          /\ iteration' \in Nat \ {0}
      BY <3>1 DEF NextIteration
    <3>4. CASE iteration + 1 < MaxIterations
      <4>1. pc' = "check" /\ UNCHANGED error
        BY <3>1, <3>4 DEF NextIteration
      <4>2. iteration' \in 0 .. MaxIterations /\ iteration' < MaxIterations
        BY <3>3, <3>4
      <4>3. idle' = 0 \/ (idle' = 1 /\ iteration' = 1)
        BY <3>1, <3>2, <3>3
      <4>4. TypeOK'
        BY <2>2, <3>1, <3>3, <4>1, <4>2
      <4>5. ReadingInv'
        BY <2>2, <3>1, <3>3, <4>1, <4>3
      <4> QED
        BY <4>1, <4>2, <4>3, <4>4, <4>5
    <3>5. CASE ~(iteration + 1 < MaxIterations)
      <4>1. pc' = "threw" /\ error' = "exceeded"
        BY <3>1, <3>5 DEF NextIteration, Throw
      <4>2. iteration < MaxIterations
        BY <1>4 DEF Compare
      <4>3. iteration' \in 0 .. MaxIterations
        BY <3>3, <4>2
      <4> QED
        BY <2>2, <3>1, <3>2, <3>3, <4>1, <4>3
    <3> QED
      BY <3>4, <3>5
  <2> QED
    BY <2>1, <2>2
<1>5. CASE UNCHANGED vars
  BY <1>5 DEF vars, hasReadyInternalTask
<1> QED
  BY <1>1, <1>2, <1>3, <1>4, <1>5 DEF Next

LEMMA Invariance == Spec => []IInv
  BY InitIInv, NextIInv, PTL DEF Spec

-----------------------------------------------------------------------------

\* Every variable keeps its type; in particular the iterations never pass the
\* bound.
THEOREM TypeCorrect == Spec => []TypeOK
<1>1. IInv => TypeOK
  BY DEF IInv
<1> QED
  BY <1>1, Invariance, PTL

\* A normal return, on which the job succeeds, leaves no ready task in the
\* scope, whatever the agent did and for every content the file may have.
THEOREM ReturnMeansDone == Spec => []ReturnedMeansDone
<1>1. IInv => ReturnedMeansDone
  <2> SUFFICES ASSUME IInv, pc = "returned" PROVE file # NoFile /\ ~ReadyTaskIn(file)
    BY DEF ReturnedMeansDone
  <2>1. file # NoFile /\ ~hasReadyInternalTask(file)
    BY DEF IInv
  <2>2. file \in Seq(Line)
    BY <2>1, ScopeAssumption DEF IInv, TypeOK
  <2> QED
    BY <2>1, <2>2, ScanFindsReadyTask
<1> QED
  BY <1>1, Invariance, PTL

\* An idle run is followed by another only when it was the first.
THEOREM StallsAreCaught == Spec => []StallIsCaught
<1>1. IInv => StallIsCaught
  BY DEF IInv, ReadingInv, StallIsCaught, TypeOK
<1> QED
  BY <1>1, Invariance, PTL

-----------------------------------------------------------------------------
(***************************************************************************)
(* What an end of the loop says, and how far away it is.                   *)
(***************************************************************************)

\* A run is asked for only on a reading that has a ready task, the error is
\* set by the step that ends the loop, and nothing moves afterwards.
TruthInv ==
  /\ pc \in {"run", "compare"} => content \in Scopes /\ hasReadyInternalTask(content)
  /\ pc # "threw" => error = "none"
  /\ error = "unreadable" => file = NoFile
  /\ error = "stalled" =>
       /\ iteration > 0 /\ idle > 0
       /\ file # NoFile /\ file = content /\ hasReadyInternalTask(content)
  /\ error = "exceeded" =>
       /\ iteration = MaxIterations
       /\ content \in Scopes /\ hasReadyInternalTask(content)

\* Each error names its cause.  "unreadable": the file is gone; "stalled": the
\* scope on disk still has a ready task and at least one earlier iteration and
\* the last run left it alone; "exceeded": every allowed iteration was used
\* and the reading the last run was started on had a ready task, which is all
\* the message can claim, the run itself may have completed it.
ErrorsTellTheTruth ==
  /\ error = "unreadable" => file = NoFile
  /\ error = "stalled" =>
       iteration > 0 /\ idle > 0 /\ file # NoFile /\ ReadyTaskIn(file)
  /\ error = "exceeded" =>
       iteration = MaxIterations /\ ReadyTaskIn(content)

\* The number of steps of the loop that are behind; an end uses up the rest.
Rank ==
  CASE pc = "check" -> 3 * iteration
    [] pc = "run" -> 3 * iteration + 1
    [] pc = "compare" -> 3 * iteration + 2
    [] OTHER -> 3 * MaxIterations

\* Every step of the loop uses up rank, of which there is only so much: no
\* step is repeated for nothing and the agent runs MaxIterations times at most.
RankBounds == Rank \in 0 .. 3 * MaxIterations
RankGrows == [][Rank' > Rank]_vars

LEMMA NextTruth == IInv /\ TruthInv /\ [Next]_vars => TruthInv'
<1> SUFFICES ASSUME IInv, TruthInv, [Next]_vars PROVE TruthInv'
  OBVIOUS
<1> USE ScopeAssumption, IterationAssumption DEF IInv, TypeOK, ReadingInv, TruthInv, Ended
<1>1. ASSUME UNCHANGED content
      PROVE  hasReadyInternalTask(content)' <=> hasReadyInternalTask(content)
  BY <1>1 DEF hasReadyInternalTask
<1>2. CASE Check
  <2>1. CASE file = NoFile
    BY <1>1, <1>2, <2>1 DEF Check, Throw
  <2>2. CASE file # NoFile
    <3>1. /\ content' = file
          /\ pc' = IF hasReadyInternalTask(file) THEN "run" ELSE "returned"
          /\ UNCHANGED <<file, previous, iteration, idle, error>>
      BY <1>2, <2>2 DEF Check
    <3>2. hasReadyInternalTask(content)' <=> hasReadyInternalTask(file)
      BY <3>1 DEF hasReadyInternalTask
    <3> QED
      BY <1>2, <2>2, <3>1, <3>2 DEF Check
  <2> QED
    BY <2>1, <2>2
<1>3. CASE AgentExits
  BY <1>1, <1>3 DEF AgentExits
<1>4. CASE AgentFails
  BY <1>1, <1>4 DEF AgentFails, Throw
<1>5. CASE Compare
  <2>1. UNCHANGED <<file, content, idle>> /\ pc = "compare"
    BY <1>5 DEF Compare
  <2>2. CASE file = NoFile
    BY <1>1, <1>5, <2>1, <2>2 DEF Compare, Throw
  <2>3. CASE file # NoFile /\ file = content /\ file = previous
    <3>1. iteration > 0 /\ idle > 0
      BY <2>1, <2>3
    <3>2. pc' = "threw" /\ error' = "stalled" /\ UNCHANGED iteration
      BY <1>5, <2>3 DEF Compare, Throw
    <3> QED
      BY <1>1, <2>1, <2>3, <3>1, <3>2
  <2>4. CASE file # NoFile /\ ~(file = content /\ file = previous)
    <3>1. NextIteration(file)
      BY <1>5, <2>4 DEF Compare
    <3>2. CASE iteration + 1 < MaxIterations
      <4>1. pc' = "check" /\ UNCHANGED error
        BY <3>1, <3>2 DEF NextIteration
      <4> QED
        BY <2>1, <4>1
    <3>3. CASE ~(iteration + 1 < MaxIterations)
      <4>1. pc' = "threw" /\ error' = "exceeded" /\ iteration' = iteration + 1
        BY <3>1, <3>3 DEF NextIteration, Throw
      <4>2. iteration' = MaxIterations
        BY <2>1, <3>3, <4>1
      <4> QED
        BY <1>1, <2>1, <4>1, <4>2
    <3> QED
      BY <3>2, <3>3
  <2> QED
    BY <2>2, <2>3, <2>4
<1>6. CASE UNCHANGED vars
  BY <1>1, <1>6 DEF vars
<1> QED
  BY <1>2, <1>3, <1>4, <1>5, <1>6 DEF Next

LEMMA TruthInvariance == Spec => [](IInv /\ TruthInv)
<1>1. Init => TruthInv
  BY DEF Init, TruthInv
<1> QED
  BY <1>1, NextTruth, InitIInv, NextIInv, PTL DEF Spec

\* Every way the loop throws says something true of the scope it leaves, for
\* every content and whatever the agent did.  The claim of the last message
\* about the file on disk is not among them: a run refutes it.
THEOREM ThrowsAreTrue == Spec => []ErrorsTellTheTruth
<1>1. IInv /\ TruthInv => ErrorsTellTheTruth
  <2> SUFFICES ASSUME IInv, TruthInv PROVE ErrorsTellTheTruth
    OBVIOUS
  <2>1. content \in Scopes /\ hasReadyInternalTask(content) => ReadyTaskIn(content)
    BY ScopeAssumption, ScanFindsReadyTask
  <2>2. error = "stalled" => content \in Scopes
    BY DEF TruthInv, IInv, TypeOK
  <2> QED
    BY <2>1, <2>2 DEF TruthInv, ErrorsTellTheTruth
<1> QED
  BY <1>1, TruthInvariance, PTL

\* The safety half of termination: no behaviour takes more than three steps
\* for each allowed iteration, hence no more agent runs than iterations.
THEOREM LoopIsBounded == Spec => []RankBounds /\ RankGrows
<1>1. IInv => RankBounds
  <2> SUFFICES ASSUME IInv PROVE RankBounds
    OBVIOUS
  <2>1. iteration \in Nat /\ MaxIterations \in Nat
    BY IterationAssumption DEF IInv, TypeOK
  <2> QED
    BY <2>1 DEF IInv, RankBounds, Rank
<1>2. IInv /\ [Next]_vars => [Rank' > Rank]_vars
  <2> SUFFICES ASSUME IInv, Next PROVE Rank' > Rank
    BY DEF vars
  <2>1. iteration \in Nat /\ MaxIterations \in Nat
    BY IterationAssumption DEF IInv, TypeOK
  <2>2. pc \in {"check", "run", "compare"} => iteration < MaxIterations
    BY DEF IInv
  <2>3. CASE Check
    BY <2>1, <2>2, <2>3 DEF Check, Throw, Rank
  <2>4. CASE AgentExits \/ AgentFails
    BY <2>1, <2>2, <2>4 DEF AgentExits, AgentFails, Throw, Rank
  <2>5. CASE Compare
    <3>1. CASE pc' = "threw"
      BY <2>1, <2>2, <2>5, <3>1 DEF Compare, Rank
    <3>2. CASE pc' # "threw"
      <4>1. pc' = "check" /\ iteration' = iteration + 1
        BY <2>5, <3>2 DEF Compare, Throw, NextIteration
      <4> QED
        BY <2>1, <2>5, <4>1 DEF Compare, Rank
    <3> QED
      BY <3>1, <3>2
  <2> QED
    BY <2>3, <2>4, <2>5 DEF Next
<1> QED
  BY <1>1, <1>2, Invariance, PTL DEF Spec, RankGrows

-----------------------------------------------------------------------------
(***************************************************************************)
(* What a caller may rely on.                                              *)
(***************************************************************************)

\* The state of the contract, as Contract's substitution spells it.
RunStatus == IF pc \notin Ended THEN "running" ELSE IF pc = "threw" THEN "broken" ELSE "returned"
RunScope == IF file # NoFile /\ ~ReadyTaskIn(file) THEN "done" ELSE "open"

\* The steps of the contract, told by what becomes of status and scope.
LEMMA ContractSteps ==
  ASSUME RunStatus = "running"
  PROVE  /\ RunStatus' = "running" => Contract!Edit("run")
         /\ RunStatus' = "broken" => Contract!Throw("run")
         /\ RunStatus' = "returned" /\ RunScope = "done" /\ RunScope' = "done"
              => Contract!Return("run")
<1>1. RunScope' \in Contract!Scope
  BY DEF RunScope, Contract!Scope
<1>2. ASSUME NEW a, NEW b
      PROVE  [[r \in {"run"} |-> a] EXCEPT !["run"] = b] = [r \in {"run"} |-> b]
  OBVIOUS
<1>3. ASSUME RunStatus' = "running" PROVE Contract!Edit("run")
  BY <1>1, <1>2, <1>3 DEF Contract!Edit, RunStatus, RunScope
<1>4. ASSUME RunStatus' = "broken" PROVE Contract!Throw("run")
  BY <1>1, <1>2, <1>4 DEF Contract!Throw, Contract!Goto, RunStatus, RunScope
<1>5. ASSUME RunStatus' = "returned", RunScope = "done", RunScope' = "done"
      PROVE  Contract!Return("run")
  BY <1>2, <1>5 DEF Contract!Return, Contract!Goto, RunStatus, RunScope
<1> QED
  BY <1>3, <1>4, <1>5

\* For every set of scopes, every bound and any agent, the loop implements
\* RunnerContract: it returns over a scope without ready tasks or throws.
THEOREM ContractRefinement == Spec => ImplementsContract
<1>1. Init => Contract!Init
  BY DEF Init, Ended, Contract!Init, Contract!Scope
<1>2. IInv /\ [Next]_vars => [Contract!Next]_(Contract!vars)
  <2> SUFFICES ASSUME IInv, [Next]_vars
               PROVE  Contract!Next \/ UNCHANGED <<pc, file>>
    BY DEF Contract!vars, ReadyTaskIn
  <2>1. RunStatus = "running" <=> pc \notin Ended
    BY DEF RunStatus
  <2>2. CASE Check /\ pc' = "returned"
    <3>1. file # NoFile /\ ~hasReadyInternalTask(file) /\ UNCHANGED file
      BY <2>2 DEF Check, Throw
    <3>2. file \in Seq(Line)
      BY <3>1, ScopeAssumption DEF IInv, TypeOK
    <3>3. ~ReadyTaskIn(file)
      BY <3>1, <3>2, ScanFindsReadyTask
    <3>4. RunScope = "done" /\ RunScope' = "done"
      BY <3>1, <3>3 DEF RunScope, ReadyTaskIn
    <3>5. RunStatus = "running" /\ RunStatus' = "returned"
      BY <2>2 DEF Check, RunStatus, Ended
    <3> QED
      BY <3>4, <3>5, ContractSteps DEF Contract!Next
  <2>3. CASE Next /\ pc' # "returned"
    <3>1. pc \notin Ended
      BY <2>3 DEF Next, Check, AgentExits, AgentFails, Compare, Ended
    <3>2. RunStatus' \in {"running", "broken"}
      BY <2>3 DEF RunStatus, Ended
    <3> QED
      BY <2>1, <3>1, <3>2, ContractSteps DEF Contract!Next
  <2>4. CASE Next /\ ~Check
    <3>1. pc' # "returned"
      BY <2>4 DEF Next, AgentExits, AgentFails, Compare, NextIteration, Throw
    <3> QED
      BY <2>3, <2>4, <3>1
  <2> QED
    BY <2>2, <2>3, <2>4 DEF vars
<1> QED
  BY <1>1, <1>2, Invariance, PTL DEF Spec, ImplementsContract, Contract!Spec

=============================================================================
