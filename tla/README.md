# Verification of the AI Backend Factory

TLA+ models, TLC runs and TLAPS proofs for the **Factory Service** of this
repository: the NestJS application under `src/` that registers users, accepts
Generation Jobs, generates backend repositories in a workspace directory and
notifies the owner. Paths below are relative to the repository root; the
service's own code is about 3 500 lines of TypeScript.

The properties follow one question: the service is a *single process without a
transaction, a queue or a recovery step*, in which every database call, file
operation and child process is an `await` where anything else may run and where
the process may end. Which promises survive that?

## 1. The system

### Components

| component | code | state it keeps | operations |
|---|---|---|---|
| Job processing | `domain/factory/application/use-cases/{create,process}-generation-job.ts`, `infra/events/*`, `core/events/domain-events.ts`, `core/entities/aggregate-root.ts`, `domain/notification/application/subscribers/*` | rows of `generation_jobs` and `notifications`; in memory the aggregate of each task, its `_domainEvents` and the process-wide `markedAggregates` | create request, background task, event dispatch, subscriber, start-up |
| GenerationJob entity | `domain/factory/enterprise/entities/generation-job.ts` | state, metadata, times | `create`, `start`, `succeed`, `fail` |
| Workspace generator | `infra/filesystem/local-generated-service-generator.ts`, `infra/process/git-cli-process-runner.ts` | the workspace directory: final and staging trees | `generate` |
| Planning pack | rendering functions of the same file | none: the request's texts become `docs/PRD.md` and the feature scope | `renderGeneratedPrdFile`, `extractSection`, `renderFeatureScopeFile` |
| Guarded runner | `infra/process/orchestration-generated-service-workflow-runner.ts` | the feature scope file; loop variables | `run` |
| Notifications | `domain/notification/**`, `prisma-notifications-repository.ts` | rows of `notifications` | insert, list, mark as read |
| Accounts and access | `register-account.ts`, `authenticate-account.ts`, `infra/auth/*`, `infra/cryptography/*` | rows of `accounts`; tokens at the clients | register, login, guard |
| Queries | `get-generation-job-details.ts`, `list-user-generation-jobs.ts`, `list-notifications.ts` | none here; what a client has been shown is the client's | read one snapshot |
| HTTP layer, configuration, wiring | `infra/http/*`, `infra/env/*`, `*.module.ts` | none | translation |
| Blueprint template, generated services | assets | none | copied, never run here |

### How they interact

A `POST /generation-jobs` passes the guard, stores a PENDING row and schedules
`ProcessGenerationJobUseCase.execute` with `setImmediate`; nobody awaits or
catches that promise. The task loads the row, saves it RUNNING, calls the
generator, which calls git and the guarded runner, which runs an external agent;
then it saves SUCCEEDED or FAILED. The repository's `save` writes the row and
afterwards dispatches the aggregate's domain events to the subscriber, which
inserts the notification, all within the task's own `await` chain. The owner
later lists and reads notifications through other requests.

### What is hard, and what should hold

The full list, with a line and the properties for each item, is `hazards` in
`PROJECT.json`. In short:

* **Separate writes.** Row, event, notification are three steps. A notification
  must never contradict its row and never come twice; that one always comes is
  what the documentation says and the code does not do.
* **A rejected task ends the process** (unhandled rejection), so one job's
  database error strikes all others.
* **The catch block covers more than generation**: an error while a success is
  being saved or announced also lands there, and must not fail the job.
* **A shared registry** of marked aggregates, filtered after awaits.
* **Check-then-act** on directories, emails and notification rows.
* **Cleanup that may fail**, and that replaces the error being handled.
* **Agents outlive their runs**: a child process need not end with the service, or
  with the run that started it, and edits the repository of a job that is over.
* **A loop around an arbitrary process** with two bounds (a stall test and 25
  iterations) whose boundary cases decide between success and failure.
* **User text in a file that a program reads back**: the scope's status lines and
  the PRD's headings are found by their text, and nothing escapes the request's.
* **Times in whole seconds** on both sides of a token's expiry test.
* **Three stories of one job** - its row, its directory, its notification - told
  by separate writes from one instance in memory, which a row becomes again
  through the same `create` that checked the request.
* **Clients that poll** two tables through separate requests while both change.

## 2. Modules

| module | what it is |
|---|---|
| `JobLifecycle` | an abstract promise: life of a stored job and its one notification |
| `Claims` | an abstract promise: names are given away once, first come, first served; `Workspace` (directories) and `Accounts` (emails) implement it |
| `RunnerContract` | an abstract promise: what a caller of guarded runs may rely on; `GuardedRunner` implements it, `GuardedService` uses it |
| `JobProcessing` | the process, its tasks, event bus and database; implements `JobLifecycle` |
| `GuardedRunner` | the loop over the feature scope |
| `PlanningPack` | the rendered PRD and feature scope, composed with `GuardedRunner` |
| `Workspace` | concurrent generations in one workspace root |
| `JobRecord` | the entity's texts, dates and metadata as operators: `create`, `start`, `succeed`, `fail`, the mapper, what a notification tells |
| `FactoryService` | `JobProcessing`, `Workspace` and `JobRecord` composed into one process |
| `GuardedService` | `FactoryService` with the guarded runs of all jobs, and agents left behind, in it |
| `ReadNotification` | overlapping requests that mark notifications as read |
| `OwnerApi` | the queries and the create request as a client sees them, on top of `ReadNotification` and `JobLifecycle` |
| `Accounts` | registrations, logins, tokens, guard |
| `MC...` | instances for TLC: symmetry, functions of model values |
| `...Proofs` | inductive invariants and theorems, checked by TLAPS |

Operators named as a *Deviation* in the component modules are plausible bugs of
the operator that follows them. They are used by no action; replacing the
operator by its deviation must break a property (`mutants` in `PROJECT.json`),
which shows that the property looks at the code.

### JobProcessing

One action per awaited step. `pc[j]` is the point in the request, then the task,
of job `j`; `row`, `inbox` are the database; `job`, `events`, `sent`, `marked`
are memory.

| action | code |
|---|---|
| `Submit`, `InsertRow`, `Enqueue`, `RejectRequest` | `CreateGenerationJobUseCase`, repository `create`, `setImmediate` dispatcher |
| `LoadJob`, `StartJob`, `SaveRunning`, `BeginGeneration` | `execute` up to the call of `generate` |
| `GenerationSucceeds`, `GenerationFails`, `Settle`, `Catch` | the try and catch blocks, `succeed`, `fail`, `isRunning` |
| `SaveOutcome`, `BeginDispatch`, `InsertNotification`, `NextEvent`, `DispatchEvents` | repository `save`, `dispatchEventsForAggregate`, the subscriber |
| `RejectTask`, `ProcessExit`, `Crash`, `Restart` | failed calls, unhandled rejection, end and start of the process |

A database call is two steps, effect and answer; a fault may strike before the
effect or between the two (a lost answer). A write that lands only after its
process has gone is not a case of its own: nothing reads the rows between, and a
restart resumes nothing, so landing before the fault gives the same history of
the database. `Restart` changes `up` and nothing else, because that is all
`onModuleInit` does.

`NoticeMatchesRow`, `DoneIsComplete`, `WorkFollowsDurableStart` and
`RegistryMatchesTasks` relate memory, database and registry. `ImplementsLifecycle`
is the refinement: with `status <- row`, `notices <- inbox` every step is a step
of `JobLifecycle` or leaves the database alone.

### GuardedRunner

A scope is the sequence of its lines, each one a heading, a ready status or
something else: all that `hasReadyInternalTask` tells apart. The agent may write
any scope of `Scopes`, delete the file, fail or hang. `idle` is a history
variable that counts runs in a row which left the file as it was; it exists only
to state `StallIsCaught`: an idle *first* run is forgiven (there is no earlier
reading to compare with) and any other idle run ends the loop. An agent that
alternates between two contents is never "stalled"; `LoopEnds` then rests on the
bound alone.

`ImplementsContract` is the refinement of `RunnerContract` for one run: what the
rest of the service has to know of the loop. A scope that cannot be read counts
as "open" there, since the loop never returns over it.

### PlanningPack

Extends `GuardedRunner` and gives its files a meaning: `FeatureScope(r, done)` is
what the generator renders for request `r`, with the tasks in `done` marked by
the agent, and `FileOf` is what the loop's scan sees of it. The module's actions
are `GuardedRunner`'s with the agent narrowed to one that completes one task
(`CompleteTask`), none (`CompleteNothing`) or fails (`GiveUp`), as the generated
`AGENTS.md` and `WORKFLOW.md` ask; so everything shown of `GuardedRunner` holds
here too.

Texts and files are flat sequences of words: the line break, a `Status: ready`,
the start of a `## ` heading, the two headings that `extractSection` looks for,
and "plain" for all else. They are flat because the cut is made in the middle of
lines: what follows a quoted heading on its line, or precedes the other one, is
kept and becomes a line of the scope. `Within` and `Item` say what stands around a
text, and `LineAt` what the scan sees at each word: a heading where a line starts,
a ready status where it has the line to itself. Blanks and blank lines are left
out, and a run of the generator's own words is one plain word.

`LeavesStatus` states which requests leave a bare status line in the scope, in two
parts. `TextLeavesStatus` is a whole line of a text (the first is always behind
something else, and the name's last one only counts in the title, where a heading
must precede it). `CutLeavesStatus` is a status that shares a line with a quoted
heading, such as `## Acceptance Criteria Status: ready` in the notes: the scan does
not react to it where the notes are quoted, but the cut leaves it alone on a line.
`ScanIsExact` says that these, and open tasks, are all that the loop reacts to.

### Workspace

`folder[s]` is whose tree is at `<root>/s`, `staging` the jobs whose temporary
tree exists, `metadata` the jobs whose error names the repository. `FindAbsent`
may answer "absent" for a directory that is there, because `pathExists` takes
every failed `access` for absence; the rename of a tree onto a directory that is
not empty is refused by the file system and is the step that decides. Directories
made by strangers may be there from the start. The check that the path stays
within the workspace root cannot fire, since a slug has only letters, digits and
dashes; it is part of `Begin` as such.

A generation that fails after the rename leaves its tree in place. The tests of
the repository expect that (`generation-jobs.e2e-spec.ts`), so it is no finding;
`LeftoverIsNamed` says that the job's error then names it.

`ImplementsClaims` is the refinement of `Claims` with `holder <- folder`: of all
the steps only the rename of a tree under a free name is a step there.

### ReadNotification

A request has an instance of its own (`copy`), marks it and writes back the whole
row. A failed request may have answered 500 while its write is still on the way
(`abandoned`). The list of notifications is in `OwnerApi`.

### JobRecord and FactoryService

`JobRecord` has no state: a record is both the aggregate's properties and the
columns of its row. A text is a word and whether white space surrounds it, which
is all that `trim` and the checks for emptiness tell apart; a date is the call
that read the clock (created, started, completed). `toDomainGenerationJob` is
`create`, because that is what the mapper calls.

`FactoryService` extends `JobProcessing` and holds `Workspace` as an instance
(`Gen`, with `pc <- step`). Each of its actions is one action of `JobProcessing`
together with what it does to the records, or one step of the generator:

| action | code |
|---|---|
| `AcceptRequest`, `CreateJob` | body schema, `GenerationJob.create`, insert |
| `FindJob`, `StartTask`, `SaveJob` | row to aggregate, `start`, aggregate to row |
| `Generate` | a step of `generate()` while the task awaits it |
| `GenerateReturns`, `GenerateFails` | `succeed` with the path, `fail` with `resolveFailure` |
| `SendLetter` | the subscriber renders the instance that the event refers to |
| `Acknowledge`, `Reject` | answers of the database, failed calls |
| `Stop`, `Begin` | the process ends, for tasks and generations alike, and starts |

A rejected task ends the process too, so `Hold` and `GenerationsFollow` look at
`up'`: the generations of *all* jobs end with it. `generate()` reports the
directory and the scope by one slug, so both paths are the slug (`RepositoryOf`);
the workspace root and the `features/` prefix are left out. The guarded run is
one step of `Workspace` here (`WorkDone` or `TryFails`); `GuardedService` opens it.

A FAILED row may name a directory that belongs to another job: the error of a
collision carries the path that was taken. `TreesAreKnown` therefore goes from
trees to rows and not back; only a SUCCEEDED row vouches for its directory
(`SucceededOwnsTree`).

### GuardedService

Adds two variables: whether the scope under each slug has a ready task, and the
jobs whose agent may be at work. `Generate`'s rename brings a scope with all its
tasks ready and starts the agent, which makes of the scope *under its path* what it
likes (`AgentEdits`), whosever tree is there. `RunReturns` is the one step of
`FactoryService` that gets a guard: the loop returns over a scope that is "done",
in the same step as its last look at it. An agent is a child process started
without a timeout or a signal: when a run throws (output beyond `execFile`'s
buffer, say) or the service ends, its agent may go on, so `AgentEdits` goes on for
jobs that failed or were lost. A successful `execFile` waits for its child and for
the pipes to close, so a run that has returned has no agent. What is assumed of an
agent is that it works under the path it was started in (`cwd`); that this path is
its own job's tree and no other's is a consequence of the race for the directory,
and is checked.

`RunsKeepContract` is the refinement of `RunnerContract` for the runs of all jobs:
the scope of a run is the one in its job's *own* tree (`OwnScope`), and nothing
touches it once the run has returned. It fails when the loser of a race starts an
agent all the same (the mutant `RenameIfAbsent`), or a run returns unread.

`SucceededIsComplete` is the promise of the whole chain: a row SUCCEEDED means a
directory of the job's own *and* a scope without ready tasks, for good.

### OwnerApi

Extends `ReadNotification` (whose actions are `Announce`, `Mark` and `Clock`
here) with jobs that go through the life `JobLifecycle` allows, and with clients.
A request is sent, served by one read of the database, and delivered or lost;
between the last two anything may happen. `seenJob` and `seenNotice` are what a
client was last shown. A job that a list leaves out, and a 404, are shown as
"not there", so `ViewsAdvance` also says that nothing disappears.

`NewsIsTrue` rests on two orders: the row is stored before its notification, and
a client waits for one answer before it asks again. The opposite promise, that a
client who sees a terminal state will find the notification in its next list, is
*not* true: the row is visible first. `generation-jobs.e2e-spec.ts:293` lists
the notifications right after a terminal state and expects one to be there; the
gap is one database call wide.

### Accounts

Emails are spelled: `lower` maps a spelling to its normalized form, which the
entity computes when it is made and the repository when it looks up, each by
itself; a registration and a login may spell one email differently.
The unique index is the database's (`prisma/schema.prisma`) and refuses the
second insert. A token has `exp` in seconds, `now` is in ticks, `Seconds` is the
flooring that `signJwt` and `verifyJwt` both do. `issued` and `checked` are
history variables. A bearer may call again with the same token (`CallAgain`).
`EmailsAreClaimed` is the refinement of `Claims` with `holder <- account`, where
only `Insert` is a step; it is proved, and no run checks it.
Signatures are taken for unforgeable: a token is one that a login signed.

## 3. Runs

| run | instance | question and result |
|---|---|---|
| `job_processing` | 3 jobs, 2 faults | holds: rows, notifications and registry agree, the refinement of `JobLifecycle`, `TaskStarts`, `OutcomeSettles` |
| `factory_service` | 4 requests (2 for one directory under two spellings, 1 without a slug, 1 that is refused), 2 faults | holds: SUCCEEDED means an own directory with a completed scope; one story in rows, directories and notifications; rows reload; the refinement of `RunnerContract` by the runs of all jobs |
| `notification_lost` | 2 jobs, 1 fault | **violated**: `TerminalIsAnnounced` |
| `guarded_runner` | 5 scopes of 2 tasks, 25 iterations | holds: the refinement of `RunnerContract`, stall and end of the loop |
| `guarded_runner_exceeded` | the same | **violated**: `ExceededMeansIncomplete` |
| `planning_pack` | 69 requests (6 names, 4 descriptions, 6 notes), 25 iterations | holds: no task hidden, exact scan, criteria kept, completed scopes accepted |
| `status_in_notes` | 1 request | **violated**: `RunsOnlyForTasks` |
| `workspace` | 4 jobs: 2 of one slug, 1 alone, 1 without a slug; strangers | holds: ownership, staging, leftovers, the refinement of `Claims` |
| `owner_api` | 2 users with a job each, 1 client, 2 read requests, clock 0..1 | holds: a read stays read, only owners read, views only advance, news is true, others' jobs stay hidden |
| `read_twice` | 2 requests | **violated**: `FirstReadingIsKept` |
| `accounts` | 2 registrations, 1 login, 1 fault, token of 2 seconds of 2 ticks | holds: one winner, admission, lifetime |
| `accounts_race` | the same without faults | **violated**: `TakenIsConflict` |

**Bounds.** `MaxFaults` counts failed calls, lost answers and crashes; two let a
second strike during or after the consequences of the first (a crash after a
restart, say). In `factory_service` the two racing jobs differ in owner and in
the white space of their texts, and messages of errors are padded, blank or
missing; the other two requests cover the refusals. Three jobs put two tasks in their settling steps while the third
is anywhere, which is what the registry is about. `MaxIterations` is the code's own 25.
The scopes let the agent progress, regress, reword and return to an earlier
content. The texts of `planning_pack` have up to three lines, which is what tells
first, middle and last apart, with quoted headings alone on a line and next to a
status, before and behind it; each text of a field meets each of the others. Two jobs on one slug are the collision; a third on the slug would only
lose as the second does, and the proofs cover any number. `MaxTime` is past the
expiry of a token signed at any tick up to the second; the clock of
`ReadNotification` gives each overlapping request a time of its own (in
`owner_api` two times suffice, since its properties do not compare them). One
client is enough there: clients share nothing but the database, and the other
user's requests are `MoveJob` and `Mark`. None of
these bounds restricts the theorems of section 4.

**Symmetry** permutes read requests (`owner_api`) and registrations
(`accounts`), which no definition tells apart; runs with liveness properties have
none.

**Fairness.** `JobProcessing` assumes weak fairness of `TaskStep(j)` for each
job: the event loop runs callbacks that are ready and the database answers. It
assumes nothing of `generate()`, which runs child processes without a timeout,
and nothing of `Restart`, which no code brings about; so the liveness properties
end in "or dropped" and promise nothing about a generation that hangs.
`GuardedRunner` assumes it of the loop's own steps and not of the agent, hence
the first disjunct of `LoopEnds`; `PlanningPack` does the same (`Look`).
`FactoryService`, `GuardedService`, `OwnerApi`, `Workspace`, `ReadNotification` and
`Accounts` state safety and action properties only, and assume none.

**Deadlock** checking is off where the modelled requests and tasks really end;
it is on for `workspace`, where the process can always crash and restart, and
for `owner_api`, whose clients can always ask again.

### Findings

1. **A notification may be lost for good** (`notification_lost`).
   `docs/PRD.md:88` stores a notification when a job completes or fails. The row
   is saved first; a fault before the notification's insert leaves a terminal
   job that nobody is told about, and no later step looks for such jobs.
2. **A scope completed by the 25th run fails its job** (`guarded_runner_exceeded`).
   The loop looks for ready tasks only before a run, so after the last one it
   throws "… without completing the generated feature scope" unseen.
3. **Two overlapping reads replace the first time of reading** (`read_twice`),
   against `notification.spec.ts:24`: the guard of `markAsRead` is per instance.
4. **A registration that loses a race answers 500, not 409** (`accounts_race`),
   against `register-account.spec.ts:59`: the unique index keeps the data right,
   its error is not translated.

5. **A status line in the notes keeps the agent running** (`status_in_notes`).
   `docs/PRD.md:85` runs the agent until the scope has no ready tasks. The scan
   takes the line `Status: ready` of a multi-line text for one, so the agent is
   started again after the last task, and the job fails if it changes nothing. The
   cut can make such a line of one that quotes a heading next to a status.
   A description or notes that quote the PRD's own headings are a smaller case
   of the same: the scope's criteria are then cut short or missing
   (`CriteriaSurvive` says exactly when).

## 4. Proofs

All for every value of the constants, from the named assumptions of the modules
(the bounds are natural numbers, "nothing" values are not identifiers, slugs,
owners and scopes are of their sets). Two theorems of `PlanningPackProofs`
(`BoundIsNotMet`, `DoneIsAccepted`) assume `MaxIterations > 4` besides: a pack has
three tasks, the loop forgives one idle run, and the code allows 25.

Each module defines an inductive invariant `IInv`, proves `Init => IInv` and
`IInv /\ [Next]_vars => IInv'`, and derives the theorems from it. A further
property that needs more gets an invariant of its own, proved on top of `IInv`.
TLC agreed with each of them, on the instances of section 3, before it was proved.

| module | theorems | the invariants |
|---|---|---|
| `JobProcessingProofs` | `TypeCorrect`, `NoticesFollowRows`, `DoneJobsAreComplete`, `WorkIsDurablyStarted`, `RegistryIsExact`, `Refinement`; `NothingRepeats`, `EndedJobsRest`, `SuccessStands`, `NoneStrandedWithoutFault` | for each point of a job's control: what its row, instance, events and notifications are. Needed because the properties speak of ends (a notification, a return) whose cause lies several awaits earlier. `LossInv`: a process that has ended has nothing in hand, and without a fault none ends |
| `GuardedRunnerProofs` | `TypeCorrect`, `ReturnMeansDone`, `StallsAreCaught`, `ContractRefinement`; `ThrowsAreTrue`, `LoopIsBounded` | how the two readings relate to the file and to the number of idle runs; a lemma shows the code's scan to find exactly the sections with a ready status. `TruthInv`: what each error says of the scope |
| `PlanningPackProofs` | `NoTaskIsHidden`, `ScanSeesExactly`, `CutsAreKnown`; `RunsHaveReason`, `BoundIsNotMet`, `DoneIsAccepted` | the file is the rendering of the request with the completed tasks marked, on top of `GuardedRunner`'s invariants (carried over by the lemma `PackRefines`); the rest is lemmas on flat word sequences: how the scan sees a word of a concatenation, what keeps a heading followed by a ready status, where the first of the two headings is and what the cut begins and ends with (`CutOpenIff`, `CutCloseIff`, `SectionIsExact`), and that the scope has no status but the ones listed (`NoStatusNoScan`) and all of those (`StatusIsShown`). `ProgressInv`: every iteration but one has completed a task; `NeedInv`: without a status line left by the texts, no run starts after the last task |
| `WorkspaceProofs` | `TypeCorrect`, `ReturnMeansOwnership`, `StagingLeavesNoTrace`, `LeftoversAreNamed`, `FoldersAreFinal`, `ClaimsRefinement`; `GenerationsAdvance` | where a job stands determines its two trees and its error; a frame lemma shows that no other job's step disturbs that |
| `ReadNotificationProofs` | `TypeCorrect`, `AcknowledgementsHold`, `OwnersRead`, `ReadIsForEver`; `ReadingsAreTheOwners` | every copy on its way to the database is a read one and the owner's. `SourceInv`: a stored time of reading is the copy of a request that wrote it |
| `FactoryServiceProofs` | of `FactoryService`: `TasksRefinement`, `RecordsTyped`, `SuccessIsPublished`, `DiskIsAccounted`, `RowsAreConsistent`, `RowsRoundTrip`, `LettersAreTrue`; `ServiceLifecycle`, `ServiceNeverRepeats`, `RequestsAreKept`, `DirectoriesAreNotShared`, `HistoryStays`. Of `GuardedService`: `GuardedRefinement`, `SuccessIsComplete`, `ServiceContract` | three parts: `JobProcessing`'s invariant, carried over by `TasksRefinement`; the generator's, carried over from its instance by the lemma `GeneratorRefinement` (the composition uses that module's own steps, so this much holds by construction); and what links them (`Linked`): where a task stands determines where its generation stands, and how far instance, columns and notification have followed, and whose request they repeat (`Asks`). `LetterInv`: a letter is there only with its notification. `ScopeInv`: an agent that may be at work is in a tree of its own job, whose generation has not returned, and one that has returned has a scope without ready tasks |
| `OwnerApiProofs` | `OwnersOnly`, `NewsStaysTrue`, `ViewsOnlyAdvance`, `ReadingRefinement`, `LifeRefinement` | what a client was shown, and what an answer on its way shows, lies between what it saw before and what is stored now; a lemma says that the store only moves on |
| `AccountsProofs` | `TypeCorrect`, `CreatedMeansOwned`, `AdmissionNeedsPassword`, `AcceptedTokensAreYoung`, `RefusedTokensAreOld`, `ClaimsRefinement`; `RefusalsAreJust` | rows are final, so what a login has read stays true; lemmas on flooring turn seconds into ticks. `RefusalInv`: who has the email of a refused registration |

### Refinements

| abstract | implemented by |
|---|---|
| `JobLifecycle` | `JobProcessing` (`Refinement`), `FactoryService` (`ServiceLifecycle`), `OwnerApi` (`LifeRefinement`) |
| `Claims` | `Workspace`, `Accounts` (a `ClaimsRefinement` each) |
| `RunnerContract` | `GuardedRunner` (`ContractRefinement`), `GuardedService` (`ServiceContract`) |
| `JobProcessing` | `FactoryService` (`TasksRefinement`) |
| `FactoryService` | `GuardedService` (`GuardedRefinement`) |
| `GuardedRunner` | `PlanningPack` (the lemma `PackRefines`) |
| `ReadNotification` | `OwnerApi` (`ReadingRefinement`) |

The specifications on the left are used without fairness here, so initial states
and every step are all there is to prove.

What is proved on the left holds on the right: `ServiceNeverRepeats`
says so for three theorems of `JobProcessingProofs`, and with `GuardedRefinement`
every theorem about `FactoryService` is one about `GuardedService`. A theorem
proved of a module cannot be used for an `INSTANCE` of it with other variables, so
the generator's invariant is stated and proved again for `Gen`.

### The other side of the findings

A violated property tells what the code does not promise. A theorem tells what it
does promise there:

| finding | what holds instead |
|---|---|
| a notification may be lost | only by a fault: without one no terminal job lacks its notification, except on its way, and no job is stranded (`NoneStrandedWithoutFault`) |
| a completed scope may be "exceeded" | the reading that the last run started from had a ready task, and "stalled" and "unreadable" are true of the file itself (`ThrowsAreTrue`); a rendered pack never gets there (`BoundIsNotMet`) |
| a first time of reading may be replaced | only by another request of the owner about the same notification, on its way when the first had written (`ReadingsAreTheOwners`) |
| a taken email may answer 500 | a 500 still means a taken email or a fault, and a 409 always a taken one (`RefusalsAreJust`) |
| a status line keeps the agent running | nothing does but an open task or a status line that `LeavesStatus` describes (`RunsHaveReason`) |

### What is not proved

**Only model-checked:** the liveness properties (`TaskStarts`, `OutcomeSettles`,
`LoopEnds`, `CompletedIsAccepted`); liveness under fairness is outside the
prover. Their safety halves are proved: nothing is done twice and each step uses
up a rank (`NothingRepeats`, `LoopIsBounded`, `GenerationsAdvance`), and a
completed pack is not refused (`DoneIsAccepted`). Every other property that a
passing run checks is also a theorem. The violated properties are shown by their
counterexamples.

**Only proved:** properties that a `...Proofs` module defines next to their
theorems, `FolderIsFinal`, `ReturnedMeansDone`, `SucceededOwnsTree` (each implied
by a property that a run checks) and `EmailsAreClaimed`. No run repeats them, but
each held on the instance of its module before it was proved.

## 5. Not modelled, and why

* The shape of error answers, the schemas other than the create request's, the
  order of lists, the health check: translation without state.
* File contents other than `docs/PRD.md` and the feature scope, and the template:
  one step (`Build`); no code reads them back. When one of the six concurrent
  writes fails, the others go on while the tree is removed; they make no
  directory, so the worst they do is to make the removal fail (`CleanFails`).
* The errors that `start`, `succeed` and `fail` throw for a wrong state or a blank
  path or reason: every caller meets their conditions.
* Token signatures, header syntax, bcrypt, email syntax: no protocol in them.
* Configuration, the Prisma client and module wiring: read once at start-up.
* The end-to-end tests: they drive the controllers and assert on answers; what
  they promise is compared with the models above.
* Deletion of workspace directories by an operator; several processes on one
  database or workspace: nothing in the code provides for either.
* `Accounts` repository `save`, `clearHandlers`, `clearMarkedAggregates`: no
  caller outside tests.

## 6. Plan

Order: the most important behaviour first; done unless marked.

1. `JobLifecycle`, `JobProcessing`, refinement and proofs.
2. `GuardedRunner`, `Workspace` with proofs.
3. `ReadNotification`, `Accounts` with proofs.
4. `JobRecord`: what `create`, `succeed` and `fail` normalize and reject, times,
   metadata columns, the mapper's round trip.
5. `PlanningPack` with proofs.
6. `FactoryService` with proofs; `GuardedService`, `RunnerContract` and `Claims`,
   the refinements between them.
7. `OwnerApi` with proofs.
8. *Open:* the agent of `PlanningPack`, which completes one task per run, inside
   `GuardedService`, so that SUCCEEDED also means the three rendered tasks (today
   this follows from `SuccessIsComplete` and `NoTaskIsHidden` together, which
   speak of the same scope in two modules); a client of `OwnerApi` on top of
   `FactoryService` instead of `JobLifecycle` (the theorem `ServiceLifecycle` says
   that nothing is lost by it).
