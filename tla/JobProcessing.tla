---------------------------- MODULE JobProcessing ----------------------------
(***************************************************************************)
(* The path of a Generation Job through the single Node process of the     *)
(* Factory Service: the create request stores a row and schedules the      *)
(* background task with setImmediate; the task loads the job, saves it     *)
(* RUNNING, generates, saves the outcome, and the save dispatches the      *)
(* aggregate's domain event to the subscriber that stores a notification.  *)
(*                                                                         *)
(* Every database call is an await, so other tasks run between any two     *)
(* steps here, and every call is two steps: the database applies it, then  *)
(* the answer reaches the process.  A fault may strike before either: the  *)
(* call fails without effect, or it takes effect and its answer is lost.   *)
(* A background task that rejects has no handler (`void execute(...)`), so *)
(* Node ends the process; a crash does the same.  Memory is lost, rows are *)
(* kept, and a restart re-subscribes the handlers and resumes no job.      *)
(***************************************************************************)
EXTENDS Naturals, Sequences

CONSTANTS
  Jobs,             \* identifiers of the jobs that may be requested
  MaxFaults         \* bound: database faults and crashes in one behaviour

ASSUME FaultAssumption == MaxFaults \in Nat

VARIABLES
  \* the database
  row,              \* row[j]: state column of job j, "NONE" while no row
  inbox,            \* inbox[j][t]: stored notifications of type t about j
  \* the process; all of it is lost when the process ends
  up,               \* the process runs
  pc,               \* pc[j]: where the request, then the task, of j stands
  job,              \* job[j]: state of the aggregate instance j's code holds
  events,           \* events[j]: _domainEvents of that instance
  sent,             \* sent[j]: index of the event being dispatched
  marked,           \* ids of the aggregates in markedAggregates
  \* the environment
  faults            \* faults so far

stored == <<row, inbox>>
bus == <<events, sent, marked>>
vars == <<row, inbox, up, pc, job, events, sent, marked, faults>>

Terminal == {"SUCCEEDED", "FAILED"}
State == {"NONE", "PENDING", "RUNNING"} \cup Terminal

Creating == {"inserting", "inserted"}
Settling == {"finishing", "finished", "announcing", "announced"}
Tasking == {"queued", "loaded", "starting", "started", "generating"} \cup Settling
PC == {"unasked", "done", "dropped"} \cup Creating \cup Tasking

NoNotices == [t \in Terminal |-> 0]

TypeOK ==
  /\ row \in [Jobs -> State]
  /\ inbox \in [Jobs -> [Terminal -> Nat]]
  /\ up \in BOOLEAN
  /\ pc \in [Jobs -> PC]
  /\ job \in [Jobs -> State]
  /\ events \in [Jobs -> Seq(Terminal)]
  /\ sent \in [Jobs -> Nat]
  /\ marked \subseteq Jobs
  /\ faults \in 0 .. MaxFaults

Init ==
  /\ row = [j \in Jobs |-> "NONE"]
  /\ inbox = [j \in Jobs |-> NoNotices]
  /\ up = TRUE
  /\ pc = [j \in Jobs |-> "unasked"]
  /\ job = [j \in Jobs |-> "NONE"]
  /\ events = [j \in Jobs |-> <<>>]
  /\ sent = [j \in Jobs |-> 0]
  /\ marked = {}
  /\ faults = 0

At(j, here, next) ==
  /\ pc[j] = here
  /\ pc' = [pc EXCEPT ![j] = next]

Fault ==
  /\ faults < MaxFaults
  /\ faults' = faults + 1

-----------------------------------------------------------------------------
(***************************************************************************)
(* Domain events (core/events/domain-events.ts, aggregate-root.ts).        *)
(***************************************************************************)

\* markAggregateForDispatch: an id is in the registry once.
markAggregateForDispatch(j) == marked' = marked \cup {j}

\* addDomainEvent: the instance records the event and marks itself.
AddDomainEvent(j, t) ==
  /\ events' = [events EXCEPT ![j] = Append(@, t)]
  /\ markAggregateForDispatch(j)

\* Deviation: the registry is emptied instead of filtered by id.
UnmarkAll(j) == {}

\* Drop one aggregate from the registry as it is NOW, after the awaits.
Unmark(j) == marked \ {j}

\* dispatchEventsForAggregate from its k-th event on: hand the event to its
\* subscriber, or, past the last one, forget the events and the mark and let
\* the caller of save or create continue at `after`.
DispatchEvents(j, k, after) ==
  IF j \in marked /\ k < Len(events[j])
  THEN /\ pc' = [pc EXCEPT ![j] = "announcing"]
       /\ sent' = [sent EXCEPT ![j] = k]
       /\ UNCHANGED <<events, marked>>
  ELSE /\ pc' = [pc EXCEPT ![j] = after]
       /\ sent' = [sent EXCEPT ![j] = 0]
       /\ events' = [events EXCEPT ![j] = IF j \in marked THEN <<>> ELSE @]
       /\ marked' = Unmark(j)

-----------------------------------------------------------------------------
(***************************************************************************)
(* The create request (create-generation-job.ts).                          *)
(***************************************************************************)

\* A request builds a PENDING job and sends the insert.
Submit(j) ==
  /\ up
  /\ At(j, "unasked", "inserting")
  /\ job' = [job EXCEPT ![j] = "PENDING"]
  /\ UNCHANGED <<stored, up, bus, faults>>

\* The database inserts the row.
InsertRow(j) ==
  /\ At(j, "inserting", "inserted")
  /\ row' = [row EXCEPT ![j] = job[j]]
  /\ UNCHANGED <<inbox, up, job, bus, faults>>

\* The insert is acknowledged: no event is pending on a fresh job, and the
\* dispatcher schedules the task.
Enqueue(j) ==
  /\ pc[j] = "inserted"
  /\ DispatchEvents(j, 0, "queued")
  /\ UNCHANGED <<stored, up, job, faults>>

\* The insert fails, or its answer is lost: the request answers 500 and
\* nothing is scheduled, even if the row is there.
RejectRequest(j) ==
  /\ pc[j] \in Creating
  /\ Fault
  /\ pc' = [pc EXCEPT ![j] = "dropped"]
  /\ job' = [job EXCEPT ![j] = "NONE"]
  /\ UNCHANGED <<stored, up, bus>>

-----------------------------------------------------------------------------
(***************************************************************************)
(* The background task (process-generation-job.ts).                        *)
(***************************************************************************)

\* Deviation: tasks are run one at a time.
LoadJobAlone(j) ==
  /\ \A k \in Jobs : pc[k] # "generating"
  /\ At(j, "queued", "loaded")
  /\ job' = [job EXCEPT ![j] = row[j]]
  /\ UNCHANGED <<stored, up, bus, faults>>

\* setImmediate fires and findById reads the row into a new instance.
LoadJob(j) ==
  /\ At(j, "queued", "loaded")
  /\ job' = [job EXCEPT ![j] = row[j]]
  /\ UNCHANGED <<stored, up, bus, faults>>

\* Deviation: the RUNNING row is written without waiting for the write.
StartJobUnawaited(j) ==
  /\ At(j, "loaded", "generating")
  /\ job' = [job EXCEPT ![j] = "RUNNING"]
  /\ UNCHANGED <<stored, up, bus, faults>>

\* Only a PENDING job is started; any other is returned as it is.
StartJob(j) ==
  /\ pc[j] = "loaded"
  /\ IF job[j] = "PENDING"
     THEN /\ job' = [job EXCEPT ![j] = "RUNNING"]
          /\ pc' = [pc EXCEPT ![j] = "starting"]
     ELSE /\ pc' = [pc EXCEPT ![j] = "done"]
          /\ UNCHANGED job
  /\ UNCHANGED <<stored, up, bus, faults>>

\* Repository save: the database replaces the row by the instance.
SaveRow(j) == row' = [row EXCEPT ![j] = job[j]]

SaveRunning(j) ==
  /\ At(j, "starting", "started")
  /\ SaveRow(j)
  /\ UNCHANGED <<inbox, up, job, bus, faults>>

\* The save is acknowledged; no event is pending; generate() is called.
BeginGeneration(j) ==
  /\ pc[j] = "started"
  /\ DispatchEvents(j, 0, "generating")
  /\ UNCHANGED <<stored, up, job, faults>>

\* Deviation: every error is taken for a failed generation.
isRunningAlways(j) == TRUE

\* The guard of the catch block, repeated by the aggregate's own succeed and
\* fail.
isRunning(j) == job[j] = "RUNNING"

\* Deviation: the state takes the name of the notification type.
SettleByNotificationType(j, t) ==
  /\ job' = [job EXCEPT ![j] = IF t = "FAILED" THEN "GENERATION_FAILED"
                                               ELSE "GENERATION_SUCCEEDED"]
  /\ AddDomainEvent(j, t)
  /\ sent' = [sent EXCEPT ![j] = 0]
  /\ pc' = [pc EXCEPT ![j] = "finishing"]

\* The aggregate completes in state t and its save is sent.
Settle(j, t) ==
  /\ job' = [job EXCEPT ![j] = t]
  /\ AddDomainEvent(j, t)
  /\ sent' = [sent EXCEPT ![j] = 0]
  /\ pc' = [pc EXCEPT ![j] = "finishing"]

\* The process ends: every request and task in flight is lost with memory.
ProcessExit ==
  /\ up' = FALSE
  /\ pc' = [k \in Jobs |-> IF pc[k] \in Creating \cup Tasking
                           THEN "dropped" ELSE pc[k]]
  /\ job' = [k \in Jobs |-> "NONE"]
  /\ events' = [k \in Jobs |-> <<>>]
  /\ sent' = [k \in Jobs |-> 0]
  /\ marked' = {}

\* The catch block: fail a job that is still RUNNING, rethrow otherwise. A
\* rethrown error is an unhandled rejection.
Catch(j) ==
  IF isRunning(j)
  THEN Settle(j, "FAILED") /\ UNCHANGED up
  ELSE ProcessExit

\* generate() returns and the job succeeds ...
GenerationSucceeds(j) ==
  /\ pc[j] = "generating"
  /\ Settle(j, "SUCCEEDED")
  /\ UNCHANGED <<stored, up, faults>>

\* ... or it throws.
GenerationFails(j) ==
  /\ pc[j] = "generating"
  /\ Catch(j)
  /\ UNCHANGED <<stored, faults>>

SaveOutcome(j) ==
  /\ At(j, "finishing", "finished")
  /\ SaveRow(j)
  /\ UNCHANGED <<inbox, up, job, bus, faults>>

\* Deviation: events are handed out before the row is written.
BeginDispatchUnsaved(j) ==
  /\ pc[j] \in {"finishing", "finished"}
  /\ DispatchEvents(j, 0, "done")
  /\ UNCHANGED <<stored, up, job, faults>>

\* Deviation: dispatch waits until no other aggregate is marked.
BeginDispatchAlone(j) ==
  /\ pc[j] = "finished"
  /\ marked \subseteq {j}
  /\ DispatchEvents(j, 0, "done")
  /\ UNCHANGED <<stored, up, job, faults>>

\* The save of the outcome is acknowledged and its events are dispatched.
BeginDispatch(j) ==
  /\ pc[j] = "finished"
  /\ DispatchEvents(j, 0, "done")
  /\ UNCHANGED <<stored, up, job, faults>>

\* The subscriber's notification is inserted.
InsertNotification(j) ==
  /\ At(j, "announcing", "announced")
  /\ inbox' = [inbox EXCEPT ![j][events[j][sent[j] + 1]] = @ + 1]
  /\ UNCHANGED <<row, up, job, bus, faults>>

\* The insert is acknowledged and the loop over the events goes on.
NextEvent(j) ==
  /\ pc[j] = "announced"
  /\ DispatchEvents(j, sent[j] + 1, "done")
  /\ UNCHANGED <<stored, up, job, faults>>

\* A database call of the task fails, or its answer is lost. The save of a
\* success is inside the try block; the other calls are not.
RejectTask(j) ==
  /\ pc[j] \in Tasking \ {"generating"}
  /\ Fault
  /\ IF pc[j] \in Settling /\ job[j] = "SUCCEEDED"
     THEN Catch(j)
     ELSE ProcessExit
  /\ UNCHANGED stored

-----------------------------------------------------------------------------
(***************************************************************************)
(* The process.                                                            *)
(***************************************************************************)

Crash ==
  /\ up
  /\ Fault
  /\ ProcessExit
  /\ UNCHANGED stored

\* Deviation: the start-up work queues every unfinished job again.
RestartRequeues ==
  /\ ~up
  /\ up' = TRUE
  /\ pc' = [k \in Jobs |-> IF pc[k] = "dropped" /\ row[k] # "NONE"
                           THEN "queued" ELSE pc[k]]
  /\ UNCHANGED <<stored, job, bus, faults>>

\* The start-up work subscribes the handlers and looks at no row.
Restart ==
  /\ ~up
  /\ up' = TRUE
  /\ UNCHANGED <<stored, pc, job, bus, faults>>

\* What the event loop and the database do for j without outside help.
TaskStep(j) ==
  \/ InsertRow(j) \/ Enqueue(j)
  \/ LoadJob(j) \/ StartJob(j) \/ SaveRunning(j) \/ BeginGeneration(j)
  \/ SaveOutcome(j) \/ BeginDispatch(j) \/ InsertNotification(j) \/ NextEvent(j)

Next ==
  \/ \E j \in Jobs :
       \/ Submit(j) \/ TaskStep(j)
       \/ GenerationSucceeds(j) \/ GenerationFails(j)
       \/ RejectRequest(j) \/ RejectTask(j)
  \/ Crash
  \/ Restart

Spec == Init /\ [][Next]_vars

\* The event loop runs every callback that is ready and the database answers
\* every call. Nothing is assumed of generate(), which runs child processes
\* without a timeout, nor of a restart, which no code here brings about.
Fairness == \A j \in Jobs : WF_vars(TaskStep(j))

FairSpec == Spec /\ Fairness

-----------------------------------------------------------------------------
(***************************************************************************)
(* Properties.                                                             *)
(***************************************************************************)

OneNotice(t) == [NoNotices EXCEPT ![t] = 1]

\* A notification never outruns or contradicts the job it is about: whatever
\* fault strikes between the save, the dispatch and the insert, a stored
\* notification names the terminal state the row already has, and there is
\* one (generation-job-terminal-state subscriber against the repository save).
NoticeMatchesRow ==
  \A j \in Jobs :
    \/ inbox[j] = NoNotices
    \/ row[j] \in Terminal /\ inbox[j] = OneNotice(row[j])

\* A task that returns normally has left nothing behind: the row is terminal
\* and its notification is stored (ProcessGenerationJobUseCase.execute).
DoneIsComplete ==
  \A j \in Jobs :
    pc[j] = "done" => row[j] \in Terminal /\ inbox[j] = OneNotice(row[j])

\* The generator, which writes to the workspace, never works for a job that
\* the database does not know to be RUNNING (the save before generate()).
WorkFollowsDurableStart ==
  \A j \in Jobs : pc[j] = "generating" => row[j] = "RUNNING"

\* The process-wide registry keeps an aggregate exactly while its outcome is
\* being saved and announced: a task never takes another's mark away, no mark
\* outlives its task, and a marked aggregate holds its one undelivered event.
RegistryMatchesTasks ==
  \A j \in Jobs :
    /\ j \in marked <=> pc[j] \in Settling
    /\ events[j] = IF j \in marked THEN <<job[j]>> ELSE <<>>

\* The database, seen alone, goes through the life of a job and nothing else:
\* no state is skipped or revisited, and nothing is announced twice, by any
\* interleaving of the tasks, lost answer, crash or restart.
Lifecycle == INSTANCE JobLifecycle WITH status <- row, notices <- inbox
ImplementsLifecycle == Lifecycle!Spec

\* A scheduled task reaches the generator whatever the others do, even if
\* theirs never returns, unless the process ends (setImmediate dispatch).
TaskStarts ==
  \A j \in Jobs : pc[j] = "queued" ~> pc[j] \in {"generating", "dropped"}

\* An outcome is saved and announced, and the task returns, unless the
\* process ends: tasks in their settling steps never wait for one another.
OutcomeSettles ==
  \A j \in Jobs : pc[j] = "finishing" ~> pc[j] \in {"done", "dropped"}

\* docs/PRD.md:88 has a notification stored when a job completes or fails.
\* The code saves the row first and stores the notification in a later call
\* that nothing repeats.
TerminalIsAnnounced ==
  \A j \in Jobs : row[j] \in Terminal ~> inbox[j] # NoNotices

=============================================================================
