---------------------------- MODULE GuardedRunner ----------------------------
(***************************************************************************)
(* The guarded loop over the feature scope of one generated repository     *)
(* (orchestration-generated-service-workflow-runner.ts): read the scope,   *)
(* stop when no task is ready, run the external agent for one task, read   *)
(* the scope again, and throw when the agent no longer changes it or when  *)
(* the iterations run out.  The agent may write any scope, delete it, fail *)
(* or never return.                                                        *)
(*                                                                         *)
(* A scope is the sequence of its lines, reduced to what the loop reads:   *)
(* "heading" begins with `## `, "ready" matches ^Status:\s*ready$, "other" *)
(* is any other line.                                                      *)
(***************************************************************************)
EXTENDS Naturals, Sequences

CONSTANTS
  Scopes,           \* the contents the feature file may have
  FirstScopes,      \* those the generator may write
  NoFile,           \* the file cannot be read
  MaxIterations     \* MAX_GUARDED_ITERATIONS, 25 in the code

Line == {"heading", "ready", "other"}

ASSUME ScopeAssumption ==
  /\ Scopes \subseteq Seq(Line) \ {<<>>}
  /\ FirstScopes \subseteq Scopes
  /\ NoFile \notin Scopes \cup {<<>>}
ASSUME IterationAssumption == MaxIterations \in Nat \ {0}

VARIABLES
  file,             \* the feature file on disk
  pc,               \* where run() stands
  content,          \* featureFileContent
  previous,         \* previousFeatureFileContent, '' at first
  iteration,
  error,            \* why run() threw, "none" until then
  idle              \* history: how many runs in a row left the file unchanged

vars == <<file, pc, content, previous, iteration, error, idle>>

Ended == {"returned", "threw"}
Error == {"none", "unreadable", "agent", "stalled", "exceeded"}

TypeOK ==
  /\ file \in Scopes \cup {NoFile}
  /\ pc \in {"check", "run", "compare"} \cup Ended
  /\ content \in Scopes \cup {<<>>}
  /\ previous \in Scopes \cup {<<>>}
  /\ iteration \in 0 .. MaxIterations
  /\ error \in Error
  /\ idle \in Nat

\* Deviation: only the status of the first task is looked at.
firstTaskReady(c) ==
  \E h \in DOMAIN c :
    /\ c[h] = "heading"
    /\ \A k \in 1 .. h - 1 : c[k] # "heading"
    /\ h + 1 \in DOMAIN c /\ c[h + 1] = "ready"

\* A ready status anywhere after the first `## ` heading.
hasReadyInternalTask(c) ==
  \E h, k \in DOMAIN c : h < k /\ c[h] = "heading" /\ c[k] = "ready"

Init ==
  /\ file \in FirstScopes
  /\ pc = "check"
  /\ content = <<>>
  /\ previous = <<>>
  /\ iteration = 0
  /\ error = "none"
  /\ idle = 0

Throw(e) ==
  /\ pc' = "threw"
  /\ error' = e

\* Head of the loop: read the scope, return if nothing is ready.
Check ==
  /\ pc = "check"
  /\ IF file = NoFile
     THEN Throw("unreadable") /\ UNCHANGED content
     ELSE /\ content' = file
          /\ pc' = IF hasReadyInternalTask(file) THEN "run" ELSE "returned"
          /\ UNCHANGED error
  /\ UNCHANGED <<file, previous, iteration, idle>>

\* The agent process exits with success, whatever it did to the scope.
AgentExits ==
  /\ pc = "run"
  /\ file' \in Scopes \cup {NoFile}
  /\ idle' = IF file' = file THEN idle + 1 ELSE 0
  /\ pc' = "compare"
  /\ UNCHANGED <<content, previous, iteration, error>>

\* The agent process fails or cannot be started.
AgentFails ==
  /\ pc = "run"
  /\ Throw("agent")
  /\ file' \in Scopes \cup {NoFile}
  /\ UNCHANGED <<content, previous, iteration, idle>>

\* Deviation: the stall test forgets what the previous run left.
NextIterationForgetting(updated) ==
  /\ UNCHANGED <<previous, error>>
  /\ iteration' = iteration + 1
  /\ pc' = IF iteration' < MaxIterations THEN "check" ELSE "threw"

\* Deviation: the loop's test lets one iteration too many through.
NextIterationInclusive(updated) ==
  /\ previous' = updated
  /\ iteration' = iteration + 1
  /\ IF iteration < MaxIterations + 1
     THEN pc' = "check" /\ UNCHANGED error
     ELSE Throw("exceeded")

\* Deviation: a change of the scope starts the count anew.
NextIterationRenewed(updated) ==
  /\ previous' = updated
  /\ iteration' = IF updated = content THEN iteration + 1 ELSE 0
  /\ UNCHANGED error
  /\ pc' = IF iteration' < MaxIterations THEN "check" ELSE "threw"

\* The end of the loop body and the loop's own test.
NextIteration(updated) ==
  /\ previous' = updated
  /\ iteration' = iteration + 1
  /\ IF iteration + 1 < MaxIterations
     THEN pc' = "check" /\ UNCHANGED error
     ELSE Throw("exceeded")

\* Read the scope again and compare it with the last two readings.
Compare ==
  /\ pc = "compare"
  /\ IF file = NoFile
     THEN Throw("unreadable") /\ UNCHANGED <<previous, iteration>>
     ELSE IF file = content /\ file = previous
     THEN Throw("stalled") /\ UNCHANGED <<previous, iteration>>
     ELSE NextIteration(file)
  /\ UNCHANGED <<file, content, idle>>

Next == Check \/ AgentExits \/ AgentFails \/ Compare

Spec == Init /\ [][Next]_vars

\* The loop itself always runs on; the agent is started without a timeout and
\* may never return.
FairSpec == Spec /\ WF_vars(Check) /\ WF_vars(Compare)

-----------------------------------------------------------------------------
(***************************************************************************)
(* Properties.                                                             *)
(***************************************************************************)

\* Some section of the scope, from its `## ` heading on, has a ready status.
ReadyTaskIn(c) ==
  \E from \in DOMAIN c :
    c[from] = "heading" /\ "ready" \in {c[k] : k \in from .. Len(c)}

\* A return, which makes the job SUCCEEDED, means the scope on disk has no
\* ready task left (features/ai-assisted-backend-generation.md:139).
ReturnedMeansDone ==
  pc = "returned" => file # NoFile /\ ~ReadyTaskIn(file)

\* What a caller may rely on: the run returns only over a scope that is there
\* and has no ready task, and the scope it returned over stays as it is, since
\* nothing happens between the last look and the return.
Contract == INSTANCE RunnerContract WITH
  Runs <- {"run"},
  status <- [r \in {"run"} |->
              IF pc \notin Ended THEN "running"
              ELSE IF pc = "threw" THEN "broken" ELSE "returned"],
  scope <- [r \in {"run"} |->
              IF file # NoFile /\ ~ReadyTaskIn(file) THEN "done" ELSE "open"]
ImplementsContract == Contract!Spec

\* The agent is given a scope it has already left alone only once, and only
\* at the start: an idle first run is forgiven, an idle run after that ends
\* the loop (the comparison with the two previous readings).
StallIsCaught ==
  /\ idle <= 2
  /\ pc \in {"check", "run"} => idle = 0 \/ (idle = 1 /\ iteration = 1)

\* The loop ends, or the agent it waits for never returns.
LoopEnds == <>[](pc = "run") \/ <>(pc \in Ended)

\* The message of the last throw (line 57) says that the iterations ran out
\* "without completing the generated feature scope".
ExceededMeansIncomplete ==
  error = "exceeded" => ReadyTaskIn(file)

=============================================================================
