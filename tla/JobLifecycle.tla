----------------------------- MODULE JobLifecycle -----------------------------
(***************************************************************************)
(* What the Factory Service promises about a Generation Job, with no       *)
(* process, no database round trip and no failure in sight: a job is       *)
(* stored PENDING, moves to RUNNING and then to exactly one terminal       *)
(* state, and a terminal state is announced by at most one Generation      *)
(* Notification, which names that state.  JobProcessing implements it.     *)
(*                                                                         *)
(* Nothing here says that a job must move on: a stop at any point is       *)
(* allowed, because the service may die at any point and recovers nothing. *)
(***************************************************************************)
EXTENDS Naturals

CONSTANT Jobs       \* identifiers of the jobs that may ever be requested

VARIABLES
  status,           \* status[j]: the stored state of job j, "NONE" before it
  notices           \* notices[j][t]: stored notifications of type t about j

vars == <<status, notices>>

\* The terminal members of GenerationJobState, and NotificationType with them:
\* there is one notification type per terminal state.
Terminal == {"SUCCEEDED", "FAILED"}

NoNotices == [t \in Terminal |-> 0]
OneNotice(t) == [NoNotices EXCEPT ![t] = 1]

Init ==
  /\ status = [j \in Jobs |-> "NONE"]
  /\ notices = [j \in Jobs |-> NoNotices]

Move(j, from, to) ==
  /\ status[j] = from
  /\ status' = [status EXCEPT ![j] = to]
  /\ UNCHANGED notices

Store(j) == Move(j, "NONE", "PENDING")

Start(j) == Move(j, "PENDING", "RUNNING")

Finish(j) == \E t \in Terminal : Move(j, "RUNNING", t)

Announce(j) ==
  /\ status[j] \in Terminal
  /\ notices[j] = NoNotices
  /\ notices' = [notices EXCEPT ![j] = OneNotice(status[j])]
  /\ UNCHANGED status

Next == \E j \in Jobs : Store(j) \/ Start(j) \/ Finish(j) \/ Announce(j)

Spec == Init /\ [][Next]_vars

=============================================================================
