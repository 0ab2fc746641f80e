---------------------------- MODULE RunnerContract ----------------------------
(***************************************************************************)
(* What a caller may rely on when it awaits guarded runs                   *)
(* (GeneratedServiceWorkflowRunner.run): a run returns only over a feature *)
(* scope without ready tasks, and from then on nothing touches that scope. *)
(* Until it returns, the agent does with the scope what it likes, and it   *)
(* may go on after its run has thrown or was lost with the process: a      *)
(* child process need not end with either.                                 *)
(*                                                                         *)
(* GuardedRunner implements this for one run, by its loop; GuardedService  *)
(* uses it for the runs of all jobs.                                       *)
(***************************************************************************)
CONSTANT Runs

VARIABLES
  status,           \* "waiting" to be started, "broken" by an error or a crash
  scope             \* whether the run's feature scope has a ready task

vars == <<status, scope>>

Scope == {"open", "done"}

Init ==
  /\ status \in [Runs -> {"waiting", "running"}]
  /\ scope \in [Runs -> Scope]

Goto(r, next) == status' = [status EXCEPT ![r] = next]

Start(r) ==
  /\ status[r] = "waiting"
  /\ Goto(r, "running")
  /\ UNCHANGED scope

Edit(r) ==
  /\ status[r] \in {"running", "broken"}
  /\ \E s \in Scope : scope' = [scope EXCEPT ![r] = s]
  /\ UNCHANGED status

Return(r) ==
  /\ status[r] = "running"
  /\ scope[r] = "done"
  /\ Goto(r, "returned")
  /\ UNCHANGED scope

\* The agent may have edited the scope before it failed.
Throw(r) ==
  /\ status[r] = "running"
  /\ Goto(r, "broken")
  /\ \E s \in Scope : scope' = [scope EXCEPT ![r] = s]

\* The process ends.
Lose ==
  /\ status' = [r \in Runs |-> IF status[r] = "running" THEN "broken" ELSE status[r]]
  /\ UNCHANGED scope

Next == (\E r \in Runs : Start(r) \/ Edit(r) \/ Return(r) \/ Throw(r)) \/ Lose

Spec == Init /\ [][Next]_vars

=============================================================================
