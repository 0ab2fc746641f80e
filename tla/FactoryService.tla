--------------------------- MODULE FactoryService ---------------------------
(***************************************************************************)
(* The Factory Service as a whole: the tasks and the database of           *)
(* JobProcessing, the generator and the workspace of Workspace, and the    *)
(* record of JobRecord that a job carries from one to the other.           *)
(*                                                                         *)
(* While a task stands at "generating" it is inside generate(), whose own  *)
(* steps are Workspace's; its return and its error are what the task goes  *)
(* on with.  The process is one: when it ends, tasks, generations and      *)
(* instances are lost together, and rows and directories stay.             *)
(***************************************************************************)
EXTENDS JobProcessing, JobRecord

CONSTANTS
  Slugs, NoSlug, Nobody, Stranger,   \* see Workspace
  slugOf,           \* the slug that a project name normalizes to
  Owner,            \* the account that requests each job, and ...
  Body,             \* ... the body of its request
  Messages          \* what errors say; Null for a thrown value that is none

ASSUME SlugWords == Slugs \subseteq Words /\ slugOf \in [Words -> Slugs \cup {NoSlug}]
ASSUME DirectoryAssumption ==
  /\ NoSlug \notin Slugs
  /\ Nobody \notin Jobs /\ Stranger \notin Jobs /\ Nobody # Stranger
ASSUME RequestTypes ==
  /\ Owner \in [Jobs -> Owners]
  /\ Body \in [Jobs -> [projectName : Text, projectDescription : Text, notes : Text]]
  /\ Messages \subseteq Text \cup {Null}

\* normalizeProjectSlug reads the name, which the entity has trimmed.
SlugOf == [j \in Jobs |-> LET name == Body[j].projectName.word
                          IN IF name = Blank THEN NoSlug ELSE slugOf[name]]

VARIABLES
  \* the generator
  step,             \* step[j]: where generate() of job j stands
  folder, staging,  \* see Workspace
  metadata,
  \* the record of a job
  instance,         \* instance[j]: the properties of the aggregate in memory
  columns,          \* columns[j]: the columns of the row, next to its state
  letter            \* letter[j]: what the stored notification about j tells

disk == <<step, folder, staging, metadata>>
records == <<instance, columns, letter>>
tasks == <<stored, pc, job, bus, faults>>
factoryVars == <<vars, disk, records>>

Gen == INSTANCE Workspace WITH pc <- step

Letter == [type : Terminal, owner : Owners,
           content : [projectName : Text, scope : Text \cup {Null},
                      reason : Text \cup {Null}, repository : Text \cup {Null}]]

RecordsOK ==
  /\ instance \in [Jobs -> Columns \cup {Null}]
  /\ columns \in [Jobs -> Columns \cup {Null}]
  /\ letter \in [Jobs -> Letter \cup {Null}]

FactoryInit ==
  /\ Init
  /\ Gen!Init
  /\ instance = [j \in Jobs |-> Null]
  /\ columns = [j \in Jobs |-> Null]
  /\ letter = [j \in Jobs |-> Null]

-----------------------------------------------------------------------------
\* The instance of j becomes r, unless the process ends.
Hold(j, r) ==
  /\ instance' = IF up' THEN [instance EXCEPT ![j] = r] ELSE [k \in Jobs |-> Null]
  /\ UNCHANGED <<columns, letter>>

\* The mapper copies the instance into the row.
Write(j) ==
  /\ columns' = [columns EXCEPT ![j] = instance[j]]
  /\ UNCHANGED <<instance, letter>>

\* Generations end and stand still with the process.
GenerationsFollow ==
  IF up' = up THEN UNCHANGED disk
              ELSE IF up THEN Gen!Crash ELSE Gen!Restart

\* The path and the scope of a job's repository, by the slug in both.
RepositoryOf(j) == Plain(SlugOf[j])

NoMetadata == [repositoryPath |-> Null, featureScopeRelativePath |-> Null]

\* generationMetadata of generate().
GenerationMetadata(j) ==
  [repositoryPath |-> RepositoryOf(j), featureScopeRelativePath |-> RepositoryOf(j)]

\* Deviation: the metadata of an error is not taken over.
resolveFailureBare(j) == NoMetadata

\* resolveFailure: a GeneratedServiceGenerationError carries the metadata.
resolveFailure(j) == IF j \in metadata THEN GenerationMetadata(j) ELSE NoMetadata

-----------------------------------------------------------------------------
\* A request whose body is valid and whose texts are there is accepted; any
\* other is answered with an error and changes nothing.
AcceptRequest(j) ==
  /\ isValidBody(Body[j])
  /\ LET props == RequestProps(Owner[j], Body[j])
     IN /\ ~isMissingText(props)
        /\ Submit(j)
        /\ Hold(j, create(props))
  /\ UNCHANGED disk

CreateJob(j) == InsertRow(j) /\ Write(j) /\ UNCHANGED disk

FindJob(j) ==
  /\ LoadJob(j)
  /\ Hold(j, toDomainGenerationJob(columns[j]))
  /\ UNCHANGED disk

StartTask(j) ==
  /\ StartJob(j)
  /\ Hold(j, IF job[j] = "PENDING" THEN start(instance[j]) ELSE instance[j])
  /\ UNCHANGED disk

SaveJob(j) ==
  /\ SaveRunning(j) \/ SaveOutcome(j)
  /\ Write(j)
  /\ UNCHANGED disk

\* One step of generate().
Generate(j) ==
  /\ pc[j] = "generating"
  /\ Gen!Step(j)
  /\ UNCHANGED <<tasks, records>>

\* generate() returns where the repository is.
GenerateReturns(j) ==
  /\ step[j] = "returned"
  /\ GenerationSucceeds(j)
  /\ Hold(j, succeed(instance[j], RepositoryOf(j), GenerationMetadata(j)))
  /\ GenerationsFollow

\* generate() throws, and the error tells what it tells.
GenerateFails(j) ==
  /\ step[j] = "failed"
  /\ GenerationFails(j)
  /\ \E message \in Messages :
       Hold(j, fail(instance[j], resolveFailureReason(message), resolveFailure(j)))
  /\ GenerationsFollow

\* The subscriber renders the instance that the event refers to.
SendLetter(j) ==
  /\ InsertNotification(j)
  /\ LET type == events[j][sent[j] + 1]
         r == instance[j]
     IN letter' = [letter EXCEPT ![j] =
          [type |-> type, owner |-> r.owner,
           content |-> IF type = "FAILED" THEN failureNotificationContent(r)
                                          ELSE successNotificationContent(r)]]
  /\ UNCHANGED <<instance, columns, disk>>

\* Answers of the database that leave the records alone.
Acknowledge(j) ==
  /\ Enqueue(j) \/ BeginGeneration(j) \/ BeginDispatch(j) \/ NextEvent(j)
  /\ UNCHANGED <<records, disk>>

\* A failed call ends the request, or the process.
Reject(j) ==
  /\ RejectRequest(j) \/ RejectTask(j)
  /\ Hold(j, IF job'[j] = "NONE" THEN Null ELSE instance[j])
  /\ GenerationsFollow

Stop ==
  /\ Crash
  /\ instance' = [j \in Jobs |-> Null]
  /\ UNCHANGED <<columns, letter>>
  /\ GenerationsFollow

Begin == Restart /\ UNCHANGED records /\ GenerationsFollow

FactoryNext ==
  \/ \E j \in Jobs :
       \/ AcceptRequest(j) \/ CreateJob(j) \/ FindJob(j) \/ StartTask(j) \/ SaveJob(j)
       \/ Generate(j) \/ GenerateReturns(j) \/ GenerateFails(j)
       \/ SendLetter(j) \/ Acknowledge(j) \/ Reject(j)
  \/ Stop
  \/ Begin

FactorySpec == FactoryInit /\ [][FactoryNext]_factoryVars

-----------------------------------------------------------------------------
(***************************************************************************)
(* Properties.                                                             *)
(***************************************************************************)

\* A job that is stored SUCCEEDED has the directory that its row reports:
\* whatever the races for the name, the faults and the crashes, that tree is
\* there and is the job's own, so no two succeeded jobs report the same one.
SucceededOwnsTree ==
  \A j \in Jobs : row[j] = "SUCCEEDED" =>
    /\ columns[j].outputPath = RepositoryOf(j)
    /\ folder[SlugOf[j]] = j

\* Nothing on the disk is unknown to the database: a tree or staging tree was
\* made by a job whose row says RUNNING or more, and once the row is terminal
\* it names the directory in which the job's tree has been left.
TreesAreKnown ==
  \A j \in Jobs :
    /\ j \in staging => row[j] \in {"RUNNING", "FAILED"}
    /\ \A s \in Slugs : folder[s] = j =>
         \/ row[j] = "RUNNING"
         \/ row[j] \in Terminal /\ columns[j].repositoryPath = Plain(s)

\* The columns of a row tell the same story as its state, although they are
\* written in one piece from an instance that was loaded, changed, saved and,
\* when a save failed, lost.
ColumnsFitState ==
  \A j \in Jobs : row[j] # "NONE" =>
    LET c == columns[j] IN
    /\ {c.projectName, c.projectDescription} \subseteq Trimmed
    /\ c.startedAt = Null <=> row[j] = "PENDING"
    /\ c.completedAt = Null <=> row[j] \notin Terminal
    /\ c.updatedAt = Or(c.completedAt, Or(c.startedAt, c.createdAt))
    /\ c.outputPath # Null <=> row[j] = "SUCCEEDED"
    /\ IF row[j] = "FAILED" THEN c.failureReason \in Trimmed ELSE c.failureReason = Null
    /\ row[j] = "SUCCEEDED" => c.repositoryPath = c.outputPath

\* Every stored row can be loaded, by a task or by a query, and gives back
\* exactly what was stored, although loading runs the checks and the
\* normalization of `create` again.
RowsReload ==
  \A j \in Jobs : row[j] # "NONE" =>
    /\ ~isMissingText(columns[j])
    /\ toDomainGenerationJob(columns[j]) = columns[j]

\* A notification says of the job what its row says: the state, and for a
\* failure the reason, the scope and the repository. The row was written from
\* the same instance some awaits earlier.
LetterMatchesRow ==
  \A j \in Jobs : letter[j] # Null =>
    LET c == columns[j] told == letter[j].content IN
    /\ letter[j].type = row[j]
    /\ letter[j].owner = c.owner
    /\ told.projectName = c.projectName
    /\ row[j] = "FAILED" =>
         /\ told.reason = c.failureReason
         /\ told.scope = c.featureScopeRelativePath
         /\ told.repository = c.repositoryPath

=============================================================================
