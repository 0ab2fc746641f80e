---------------------------- MODULE GuardedService ----------------------------
(***************************************************************************)
(* FactoryService with the guarded runs in it.  The directory of a slug    *)
(* holds a feature scope; the agent of a job works on the one under the    *)
(* job's repository path, whosever tree is there, and run() returns when   *)
(* the agent is done and no task is ready in it.  An agent is a child      *)
(* process of the service: neither an error of run() nor the end of the    *)
(* service is sure to end it.                                              *)
(***************************************************************************)
EXTENDS FactoryService

VARIABLES
  scope,            \* scope[s]: "open" while the scope under s has a ready task
  agents            \* the jobs whose agent may be at work

guardedVars == <<factoryVars, scope, agents>>

HasTree(j) == \E s \in Slugs : folder[s] = j

\* Where the guarded run of each job stands; it starts with the rename.
RunStatus ==
  [j \in Jobs |->
     IF step[j] = "working" THEN "running"
     ELSE IF step[j] = "returned" THEN "returned"
     ELSE IF j \in agents THEN "broken" ELSE "waiting"]

\* The scope that the run of each job is about: the one in the job's own tree.
OwnScope == [j \in Jobs |-> IF HasTree(j) THEN scope[SlugOf[j]] ELSE "open"]

Runner == INSTANCE RunnerContract WITH Runs <- Jobs, status <- RunStatus, scope <- OwnScope

GuardedInit == FactoryInit /\ scope = [s \in Slugs |-> "open"] /\ agents = {}

\* An agent, at work for run() or left behind, works under the path that it
\* was started in.
AgentEdits(j) ==
  /\ j \in agents
  /\ \E s \in {"open", "done"} : scope' = [scope EXCEPT ![SlugOf[j]] = s]
  /\ UNCHANGED <<factoryVars, agents>>

\* Deviation: run() returns when the agent does, without a look at the scope.
RunReturnsUnread(j) ==
  /\ step[j] = "working"
  /\ Generate(j)
  /\ step'[j] = "returned"
  /\ agents' = agents \ {j}
  /\ UNCHANGED scope

\* run() returns, and generate() with it.
RunReturns(j) ==
  /\ step[j] = "working" /\ scope[SlugOf[j]] = "done"
  /\ Generate(j)
  /\ step'[j] = "returned"
  /\ agents' = agents \ {j}
  /\ UNCHANGED scope

\* Any other step of the service. A tree is moved into place with all its
\* tasks ready, and run() starts the agent there.
ServiceStep ==
  /\ FactoryNext
  /\ \A j \in Jobs : step'[j] = "returned" => step[j] = "returned"
  /\ scope' = [s \in Slugs |-> IF folder'[s] = folder[s] THEN scope[s] ELSE "open"]
  /\ agents' = agents \cup {j \in Jobs : step'[j] = "working"}

GuardedNext == (\E j \in Jobs : AgentEdits(j) \/ RunReturns(j)) \/ ServiceStep

GuardedSpec == GuardedInit /\ [][GuardedNext]_guardedVars

-----------------------------------------------------------------------------
\* SUCCEEDED says all it should (features/ai-assisted-backend-generation.md:139):
\* the job has the directory that its row reports, and the scope in there has
\* no ready task, now and for good, although the row was written long after
\* the last look, and agents of lost and failed runs may still be at work.
SucceededIsComplete ==
  /\ SucceededOwnsTree
  /\ \A j \in Jobs : row[j] = "SUCCEEDED" => scope[SlugOf[j]] = "done"

\* The guarded runs of all jobs, side by side, keep to their contract, each
\* for the scope in its own tree: none returns over a ready task, and no agent
\* touches a scope that a run has returned over. That every agent works in its
\* job's own tree rests on the race for the directory: whoever lost it never
\* starts one.
RunsKeepContract == Runner!Spec

=============================================================================
