------------------------- MODULE FactoryServiceProofs -------------------------
(***************************************************************************)
(* FactoryService, proved for any number of requests, slugs and faults.    *)
(* It implements its two parts, JobProcessing and Workspace, so their      *)
(* invariants hold in it; what is left is to tie where a task stands to    *)
(* where its generation stands and to what its record holds.               *)
(***************************************************************************)
EXTENDS GuardedService, JobProcessingProofs

-----------------------------------------------------------------------------
(***************************************************************************)
(* The two parts.                                                          *)
(***************************************************************************)

\* The assumptions of Workspace follow from those made here.
LEMMA Slugging == SlugOf \in [Jobs -> Slugs \cup {NoSlug}]
<1> SUFFICES ASSUME NEW j \in Jobs PROVE SlugOf[j] \in Slugs \cup {NoSlug}
  BY DEF SlugOf
<1>1. Body[j].projectName \in Text
  BY RequestTypes
<1>2. Body[j].projectName.word \in Words \cup {Blank}
  BY <1>1 DEF Text
<1> QED
  BY <1>2, SlugWords DEF SlugOf

\* What a step does to the generator: it ends and begins with the process.
LEMMA FollowStep ==
  ASSUME GenerationsFollow
  PROVE  \/ UNCHANGED <<up, disk>>
         \/ Gen!Crash
         \/ Gen!Restart
BY DEF GenerationsFollow

LEMMA GenStep ==
  ASSUME NEW j \in Jobs, Gen!Step(j)
  PROVE  up' = up
BY DEF Gen!Step, Gen!Begin, Gen!FindAbsent, Gen!FindOccupied, Gen!MakeStaging,
       Gen!PrepareFails, Gen!Build, Gen!Commit, Gen!Rename, Gen!WorkDone,
       Gen!TryFails, Gen!Clean, Gen!CleanFails

\* What a step of the service is to the generator.
LEMMA GeneratorStep == [FactoryNext]_factoryVars => [Gen!Next]_Gen!vars
<1> SUFFICES ASSUME [FactoryNext]_factoryVars PROVE [Gen!Next]_Gen!vars
  OBVIOUS
<1>1. ASSUME UNCHANGED <<up, disk>> PROVE UNCHANGED Gen!vars
  BY <1>1 DEF disk, Gen!vars
<1>2. ASSUME GenerationsFollow PROVE [Gen!Next]_Gen!vars
  BY <1>1, <1>2, FollowStep DEF Gen!Next
<1>3. ASSUME NEW j \in Jobs,
             \/ AcceptRequest(j) \/ CreateJob(j) \/ FindJob(j) \/ StartTask(j)
             \/ SaveJob(j) \/ SendLetter(j) \/ Acknowledge(j)
      PROVE  UNCHANGED <<up, disk>>
  BY <1>3 DEF AcceptRequest, Submit, CreateJob, InsertRow, FindJob, LoadJob,
              StartTask, StartJob, SaveJob, SaveRunning, SaveOutcome, SendLetter,
              InsertNotification, Acknowledge, Enqueue, BeginGeneration,
              BeginDispatch, NextEvent
<1>4. ASSUME NEW j \in Jobs, Generate(j) PROVE Gen!Next
  BY <1>4 DEF Generate, Gen!Next
<1>5. ASSUME NEW j \in Jobs, GenerateReturns(j) \/ GenerateFails(j) \/ Reject(j)
      PROVE  GenerationsFollow
  BY <1>5 DEF GenerateReturns, GenerateFails, Reject
<1>6. CASE Stop \/ Begin
  BY <1>2, <1>6 DEF Stop, Begin
<1>7. CASE UNCHANGED factoryVars
  BY <1>1, <1>7 DEF factoryVars, vars
<1> QED
  BY <1>1, <1>2, <1>3, <1>4, <1>5, <1>6, <1>7 DEF FactoryNext

\* So what WorkspaceProofs says of the generator alone holds here too.
LEMMA GeneratorRefinement == FactorySpec => Gen!Spec
<1>1. FactoryInit => Gen!Init
  BY DEF FactoryInit
<1> QED
  BY <1>1, GeneratorStep, PTL DEF FactorySpec, Gen!Spec

\* Inside the service requests and tasks behave as they do alone.
THEOREM TasksRefinement == FactorySpec => Spec
<1>1. FactoryInit => Init
  BY DEF FactoryInit
<1>2. [FactoryNext]_factoryVars => [Next]_vars
  <2> SUFFICES ASSUME [FactoryNext]_factoryVars PROVE [Next]_vars
    OBVIOUS
  <2>1. ASSUME NEW j \in Jobs,
               \/ AcceptRequest(j) \/ CreateJob(j) \/ FindJob(j) \/ StartTask(j)
               \/ SaveJob(j) \/ SendLetter(j) \/ Acknowledge(j)
        PROVE  Submit(j) \/ TaskStep(j)
    BY <2>1 DEF AcceptRequest, CreateJob, FindJob, StartTask, SaveJob, SendLetter,
                Acknowledge, TaskStep
  <2>2. ASSUME NEW j \in Jobs, GenerateReturns(j) \/ GenerateFails(j) \/ Reject(j)
        PROVE  Next
    BY <2>2 DEF GenerateReturns, GenerateFails, Reject, Next
  <2>3. ASSUME NEW j \in Jobs, Generate(j) PROVE UNCHANGED vars
    BY <2>3, GenStep DEF Generate, tasks, vars, stored, bus
  <2>4. CASE Stop \/ Begin
    BY <2>4 DEF Stop, Begin, Next
  <2>5. CASE UNCHANGED factoryVars
    BY <2>5 DEF factoryVars
  <2> QED
    BY <2>1, <2>2, <2>3, <2>4, <2>5 DEF FactoryNext, Next
<1> QED
  BY <1>1, <1>2, PTL DEF FactorySpec, Spec
-----------------------------------------------------------------------------
(***************************************************************************)
(* The generator.  Where generate() of a job stands says which tree is the *)
(* job's and what its error names; WorkspaceProofs shows the same of the   *)
(* generator alone.                                                        *)
(***************************************************************************)

TreeInv(j) ==
  /\ step[j] \in Gen!Busy \cup {"returned"} => SlugOf[j] \in Slugs
  /\ step[j] \in {"working", "returned"} => folder[SlugOf[j]] = j
  /\ step[j] \in Gen!Trying \ {"working"} => j \in staging
  /\ \A s \in Slugs : folder[s] = j =>
       /\ s = SlugOf[j]
       /\ j \notin staging
       /\ step[j] \in {"working", "cleaning", "returned", "failed", "lost"}
       /\ step[j] = "failed" => j \in metadata
  /\ j \in staging =>
       step[j] \in (Gen!Trying \ {"working"}) \cup {"cleaning", "failed", "lost"}
  /\ j \in metadata => step[j] = "failed" /\ SlugOf[j] \in Slugs

GenInv == Gen!TypeOK /\ \A j \in Jobs : TreeInv(j)

LEMMA GenInit == Gen!Init => GenInv
BY DirectoryAssumption DEF Gen!Init, GenInv, Gen!TypeOK, Gen!PC, Gen!Busy, Gen!Trying, TreeInv

\* A step of one generation keeps the types.
LEMMA GenStepTypeOK ==
  ASSUME Gen!TypeOK, NEW j \in Jobs, Gen!Step(j)
  PROVE  Gen!TypeOK'
<1> USE DEF Gen!TypeOK, Gen!Goto, Gen!PC, Gen!Busy, Gen!Trying
<1>1. CASE Gen!Begin(j) \/ Gen!FindAbsent(j) \/ Gen!FindOccupied(j)
  BY <1>1 DEF Gen!Begin, Gen!FindAbsent, Gen!FindOccupied, Gen!ThrowBare, Gen!ThrowNamed
<1>2. CASE Gen!MakeStaging(j) \/ Gen!PrepareFails(j) \/ Gen!Build(j) \/ Gen!Commit(j)
  BY <1>2 DEF Gen!MakeStaging, Gen!PrepareFails, Gen!Build, Gen!Commit, Gen!ThrowBare
<1>3. CASE Gen!Rename(j)
  BY <1>3 DEF Gen!Rename
<1>4. CASE Gen!WorkDone(j) \/ Gen!TryFails(j)
  BY <1>4 DEF Gen!WorkDone, Gen!TryFails
<1>5. CASE Gen!Clean(j) \/ Gen!CleanFails(j)
  BY <1>5 DEF Gen!Clean, Gen!CleanFails, Gen!ThrowNamed, Gen!ThrowBare
<1> QED
  BY <1>1, <1>2, <1>3, <1>4, <1>5 DEF Gen!Step

\* A step of j leaves what is said of j true.
LEMMA GenStepOwn ==
  ASSUME GenInv, NEW j \in Jobs, Gen!Step(j)
  PROVE  TreeInv(j)'
<1> USE DirectoryAssumption DEF Gen!Busy, Gen!Trying, Gen!Goto, GenInv, Gen!TypeOK, TreeInv
<1>1. CASE Gen!Begin(j)
  BY <1>1, Slugging DEF Gen!Begin, Gen!ThrowBare
<1>2. CASE Gen!FindAbsent(j)
  BY <1>2 DEF Gen!FindAbsent
<1>3. CASE Gen!FindOccupied(j)
  BY <1>3 DEF Gen!FindOccupied, Gen!ThrowNamed
<1>4. CASE Gen!MakeStaging(j)
  BY <1>4 DEF Gen!MakeStaging
<1>5. CASE Gen!PrepareFails(j)
  BY <1>5 DEF Gen!PrepareFails, Gen!ThrowBare
<1>6. CASE Gen!Build(j) \/ Gen!Commit(j)
  BY <1>6 DEF Gen!Build, Gen!Commit
<1>7. CASE Gen!Rename(j)
  BY <1>7 DEF Gen!Rename
<1>8. CASE Gen!WorkDone(j)
  BY <1>8 DEF Gen!WorkDone
<1>9. CASE Gen!TryFails(j)
  BY <1>9 DEF Gen!TryFails
<1>10. CASE Gen!Clean(j)
  BY <1>10 DEF Gen!Clean, Gen!ThrowNamed
<1>11. CASE Gen!CleanFails(j)
  BY <1>11 DEF Gen!CleanFails, Gen!ThrowBare
<1> QED
  BY <1>1, <1>2, <1>3, <1>4, <1>5, <1>6, <1>7, <1>8, <1>9, <1>10, <1>11 DEF Gen!Step

\* It leaves the other jobs alone and publishes only under a free name.
LEMMA GenStepFrame ==
  ASSUME GenInv, NEW j \in Jobs, Gen!Step(j)
  PROVE  /\ \A k \in Jobs \ {j} :
              /\ step'[k] = step[k]
              /\ k \in staging' <=> k \in staging
              /\ k \in metadata' <=> k \in metadata
         /\ \A s \in Slugs : folder'[s] = folder[s] \/ (folder[s] = Nobody /\ folder'[s] = j)
<1> USE DEF GenInv, Gen!TypeOK, TreeInv, Gen!Busy, Gen!Trying, Gen!Goto
<1>1. CASE Gen!Begin(j) \/ Gen!FindAbsent(j) \/ Gen!FindOccupied(j) \/ Gen!PrepareFails(j)
  BY <1>1 DEF Gen!Begin, Gen!FindAbsent, Gen!FindOccupied, Gen!PrepareFails,
              Gen!ThrowBare, Gen!ThrowNamed
<1>2. CASE Gen!MakeStaging(j) \/ Gen!Build(j) \/ Gen!Commit(j) \/ Gen!WorkDone(j) \/ Gen!TryFails(j)
  BY <1>2 DEF Gen!MakeStaging, Gen!Build, Gen!Commit, Gen!WorkDone, Gen!TryFails
<1>3. CASE Gen!Rename(j)
  BY <1>3 DEF Gen!Rename
<1>4. CASE Gen!Clean(j) \/ Gen!CleanFails(j)
  BY <1>4 DEF Gen!Clean, Gen!CleanFails, Gen!ThrowBare, Gen!ThrowNamed
<1> QED
  BY <1>1, <1>2, <1>3, <1>4 DEF Gen!Step

LEMMA GenNext == GenInv /\ [Gen!Next]_Gen!vars => GenInv'
<1> SUFFICES ASSUME GenInv, [Gen!Next]_Gen!vars PROVE GenInv'
  OBVIOUS
<1>1. ASSUME NEW j \in Jobs, Gen!Step(j) PROVE GenInv'
  <2>1. Gen!TypeOK'
    BY <1>1, GenStepTypeOK DEF GenInv
  <2>2. TreeInv(j)'
    BY <1>1, GenStepOwn
  <2>3. ASSUME NEW k \in Jobs \ {j} PROVE TreeInv(k)'
    BY <1>1, <2>1, GenStepFrame, DirectoryAssumption
    DEF GenInv, Gen!TypeOK, TreeInv, Gen!Busy, Gen!Trying
  <2> QED
    BY <2>1, <2>2, <2>3 DEF GenInv
<1>2. CASE Gen!Crash
  BY <1>2 DEF GenInv, Gen!TypeOK, TreeInv, Gen!Crash, Gen!PC, Gen!Busy, Gen!Trying
<1>3. CASE Gen!Restart
  BY <1>3 DEF GenInv, Gen!TypeOK, TreeInv, Gen!Restart
<1>4. CASE UNCHANGED Gen!vars
  BY <1>4 DEF GenInv, Gen!TypeOK, TreeInv, Gen!vars
<1> QED
  BY <1>1, <1>2, <1>3, <1>4 DEF Gen!Next

LEMMA GeneratorInvariance == FactorySpec => []GenInv
<1>1. Gen!Spec => []GenInv
  BY GenInit, GenNext, PTL DEF Gen!Spec
<1> QED
  BY <1>1, GeneratorRefinement, PTL

LEMMA TasksInvariance == FactorySpec => []IInv
BY TasksRefinement, Invariance, PTL

-----------------------------------------------------------------------------
(***************************************************************************)
(* The record of a job.  Fits(j, c, state, error) says what the properties *)
(* or the columns c of job j are in a state, where error is what an error  *)
(* of its generation names.                                                *)
(***************************************************************************)

Reported(j, state, error) ==
  IF state = "SUCCEEDED" THEN GenerationMetadata(j)
  ELSE IF state = "FAILED" THEN error ELSE NoMetadata

\* A record tells of the job what its request asked for.
Asks(j, c) ==
  /\ c.owner = Owner[j]
  /\ c.projectName = trim(Body[j].projectName)
  /\ c.projectDescription = trim(Body[j].projectDescription)
  /\ c.notes = trim(Body[j].notes)

Fits(j, c, state, error) ==
  /\ c \in Columns
  /\ Asks(j, c)
  /\ c.projectName \in Trimmed /\ c.projectDescription \in Trimmed
  /\ c.notes = trim(c.notes)
  /\ {c.repositoryPath, c.featureScopeRelativePath} \subseteq Trimmed \cup {Null}
  /\ c.createdAt = "created"
  /\ c.startedAt = IF state = "PENDING" THEN Null ELSE "started"
  /\ c.completedAt = IF state \in Terminal THEN "completed" ELSE Null
  /\ c.updatedAt = Or(c.completedAt, Or(c.startedAt, "created"))
  /\ c.outputPath = IF state = "SUCCEEDED" THEN RepositoryOf(j) ELSE Null
  /\ state = "SUCCEEDED" => c.outputPath \in Trimmed
  /\ IF state = "FAILED" THEN c.failureReason \in Trimmed ELSE c.failureReason = Null
  /\ c.repositoryPath = Reported(j, state, error).repositoryPath
  /\ c.featureScopeRelativePath = Reported(j, state, error).featureScopeRelativePath

LEMMA TrimmedText ==
  ASSUME NEW t \in Trimmed
  PROVE  t \in Text /\ trim(t) = t /\ t # Empty /\ t # Null /\ normalizeOptionalText(t) = t
<1>1. PICK w \in Words : t = Plain(w)
  BY DEF Trimmed
<1>2. t = [word |-> w, spaces |-> FALSE] /\ t.word = w
  BY <1>1 DEF Plain
<1>3. t \in Text /\ trim(t) = t /\ t # Empty
  BY <1>2, WordAssumption DEF Plain, Text, trim, Empty
<1> QED
  BY <1>3, NullAssumption DEF normalizeOptionalText

LEMMA TrimText ==
  ASSUME NEW t \in Text
  PROVE  /\ trim(t) \in Text
         /\ trim(trim(t)) = trim(t)
         /\ trim(t) # Empty => trim(t) \in Trimmed
<1>1. t.word \in Words \cup {Blank} /\ trim(t) = [word |-> t.word, spaces |-> FALSE]
  BY DEF Text, trim, Plain
<1> QED
  BY <1>1 DEF Text, trim, Trimmed, Plain, Empty

\* Whatever an error says, the reason that is kept is a text.
LEMMA ReasonIsText ==
  ASSUME NEW message \in Messages
  PROVE  resolveFailureReason(message) \in Trimmed
<1>1. message \in Text \cup {Null}
  BY RequestTypes
<1>2. Plain(Unexpected) \in Trimmed
  BY WordAssumption DEF Trimmed
<1> QED
  BY <1>1, <1>2, TrimText DEF resolveFailureReason

\* Loading a row gives back what was stored.
LEMMA Reload ==
  ASSUME NEW j \in Jobs, NEW c, NEW state, NEW error, Fits(j, c, state, error)
  PROVE  ~isMissingText(c) /\ create(c) = c
<1>1. /\ trim(c.projectName) = c.projectName /\ trim(c.projectDescription) = c.projectDescription
      /\ c.projectName # Empty /\ c.projectDescription # Empty
  BY TrimmedText DEF Fits
<1>2. /\ normalizeOptionalText(c.repositoryPath) = c.repositoryPath
      /\ normalizeOptionalText(c.featureScopeRelativePath) = c.featureScopeRelativePath
  BY TrimmedText DEF Fits, normalizeOptionalText
<1>3. c.createdAt # Null /\ c.updatedAt # Null
  BY NullAssumption DEF Fits, Or
<1>4. c \in Columns /\ trim(c.notes) = c.notes
  BY DEF Fits
<1>5. create(c) = [c EXCEPT
        !.projectName = c.projectName, !.projectDescription = c.projectDescription,
        !.notes = c.notes, !.repositoryPath = c.repositoryPath,
        !.featureScopeRelativePath = c.featureScopeRelativePath,
        !.createdAt = c.createdAt, !.updatedAt = c.updatedAt]
  BY <1>1, <1>2, <1>3, <1>4 DEF create, Or
<1>6. create(c) = c
  BY <1>4, <1>5 DEF Columns
<1> QED
  BY <1>1, <1>6 DEF isMissingText

\* A request that is accepted makes a PENDING job.
LEMMA CreateFits ==
  ASSUME NEW j \in Jobs, NEW error, ~isMissingText(RequestProps(Owner[j], Body[j]))
  PROVE  Fits(j, create(RequestProps(Owner[j], Body[j])), "PENDING", error)
<1> DEFINE p == RequestProps(Owner[j], Body[j])
           c == create(p)
<1>1. /\ Owner[j] \in Owners
      /\ Body[j].projectName \in Text /\ Body[j].projectDescription \in Text
      /\ Body[j].notes \in Text
  BY RequestTypes
<1>2. /\ p \in [owner : Owners, projectName : Text, projectDescription : Text, notes : Text,
                outputPath : {Null}, failureReason : {Null}, repositoryPath : {Null},
                featureScopeRelativePath : {Null}, startedAt : {Null}, completedAt : {Null},
                createdAt : {Null}, updatedAt : {Null}]
      /\ trim(p.projectName) \in Trimmed /\ trim(p.projectDescription) \in Trimmed
  BY <1>1, TrimText DEF isMissingText, RequestProps
<1>3. c = create(p)
  OBVIOUS
<1> HIDE DEF c, p
<1>4. c = [p EXCEPT !.projectName = trim(p.projectName),
                    !.projectDescription = trim(p.projectDescription),
                    !.notes = trim(p.notes), !.repositoryPath = Null,
                    !.featureScopeRelativePath = Null,
                    !.createdAt = "created", !.updatedAt = "created"]
  BY <1>2, <1>3 DEF create, normalizeOptionalText, Or
<1>5. /\ trim(p.projectName) \in Text /\ trim(p.projectDescription) \in Text
      /\ trim(p.notes) \in Text /\ trim(trim(p.notes)) = trim(p.notes)
  BY <1>2, TrimText
<1>6. c \in Columns
  BY <1>2, <1>4, <1>5 DEF Columns, Date
<1>7. Fits(j, c, "PENDING", error)
  <2>1. /\ p.owner = Owner[j] /\ p.projectName = Body[j].projectName
        /\ p.projectDescription = Body[j].projectDescription /\ p.notes = Body[j].notes
    BY DEF p, RequestProps
  <2>2. Asks(j, c)
    BY <1>2, <1>4, <2>1 DEF Asks
  <2> QED
    BY <1>2, <1>4, <1>5, <1>6, <2>2 DEF Fits, Reported, NoMetadata, Terminal, Or
<1> QED
  BY <1>7 DEF c, p

LEMMA StartFits ==
  ASSUME NEW j \in Jobs, NEW c, NEW error, Fits(j, c, "PENDING", error)
  PROVE  Fits(j, start(c), "RUNNING", error)
<1>1. c \in Columns
  BY DEF Fits
<1>2. start(c) \in Columns
  BY <1>1 DEF Columns, start, Date
<1>3. start(c) = [c EXCEPT !.startedAt = "started", !.updatedAt = "started"]
  BY DEF start
<1>4. Asks(j, start(c))
  BY <1>1, <1>3 DEF Fits, Asks, Columns
<1> QED
  BY <1>1, <1>2, <1>3, <1>4, NullAssumption DEF Fits, Reported, Terminal, Or, Columns

LEMMA SucceedFits ==
  ASSUME NEW j \in Jobs, NEW c, NEW error, Fits(j, c, "RUNNING", error), SlugOf[j] \in Slugs
  PROVE  Fits(j, succeed(c, RepositoryOf(j), GenerationMetadata(j)), "SUCCEEDED", error)
<1> DEFINE p == RepositoryOf(j)
           d == succeed(c, p, GenerationMetadata(j))
<1>1. p \in Trimmed
  BY SlugWords DEF RepositoryOf, Trimmed
<1>2. trim(p) = p /\ normalizeOptionalText(p) = p /\ p # Null /\ p \in Text
  BY <1>1, TrimmedText
<1>3. c \in Columns
  BY DEF Fits
<1>4. d = [c EXCEPT !.outputPath = p, !.failureReason = Null, !.repositoryPath = p,
                    !.featureScopeRelativePath = p,
                    !.completedAt = "completed", !.updatedAt = "completed"]
  BY <1>2 DEF succeed, GenerationMetadata, Or
<1> HIDE DEF d, p
<1>5. d \in Columns
  BY <1>2, <1>3, <1>4 DEF Columns, Date
<1>6. Asks(j, d)
  BY <1>3, <1>4 DEF Fits, Asks, Columns
<1>7. Fits(j, d, "SUCCEEDED", error)
  BY <1>1, <1>3, <1>4, <1>5, <1>6, NullAssumption
  DEF Fits, Reported, GenerationMetadata, Terminal, Or, Columns, p
<1> QED
  BY <1>7 DEF d, p

\* What an error of a generation may name.
Names(j, error) ==
  \/ error = NoMetadata
  \/ error = GenerationMetadata(j) /\ SlugOf[j] \in Slugs

LEMMA FailFits ==
  ASSUME NEW j \in Jobs, NEW c, NEW error, Names(j, error), NEW reason \in Trimmed,
         Fits(j, c, "RUNNING", error)
  PROVE  Fits(j, fail(c, reason, error), "FAILED", error)
<1> DEFINE d == fail(c, reason, error)
<1>1. trim(reason) = reason /\ reason \in Text
  BY TrimmedText
<1>2. {error.repositoryPath, error.featureScopeRelativePath} \subseteq Trimmed \cup {Null}
  BY SlugWords DEF Names, NoMetadata, GenerationMetadata, RepositoryOf, Trimmed
<1>3. /\ normalizeOptionalText(error.repositoryPath) = error.repositoryPath
      /\ normalizeOptionalText(error.featureScopeRelativePath) = error.featureScopeRelativePath
  BY <1>2, TrimmedText DEF normalizeOptionalText
<1>4. c \in Columns
  BY DEF Fits
<1>5. d = [c EXCEPT !.failureReason = reason, !.outputPath = Null,
                    !.repositoryPath = error.repositoryPath,
                    !.featureScopeRelativePath = error.featureScopeRelativePath,
                    !.completedAt = "completed", !.updatedAt = "completed"]
  BY <1>1, <1>3 DEF fail
<1> HIDE DEF d
<1>6. d \in Columns
  BY <1>1, <1>2, <1>4, <1>5, TrimmedText DEF Columns, Date
<1>7. Asks(j, d)
  BY <1>4, <1>5 DEF Fits, Asks, Columns
<1>8. Fits(j, d, "FAILED", error)
  BY <1>2, <1>4, <1>5, <1>6, <1>7, NullAssumption DEF Fits, Reported, Terminal, Or, Columns
<1> QED
  BY <1>8 DEF d

\* Only a FAILED job has something to tell of an error.
LEMMA ErrorIrrelevant ==
  ASSUME NEW j \in Jobs, NEW c, NEW state, NEW e1, NEW e2,
         Fits(j, c, state, e1), state = "FAILED" => e1 = e2
  PROVE  Fits(j, c, state, e2)
BY DEF Fits, Reported

-----------------------------------------------------------------------------
(***************************************************************************)
(* The parts tied together.                                                *)
(***************************************************************************)

\* The task of j and its generation: none begins before the row says RUNNING,
\* and the outcome of the task is that of the generation.
Coupled(j) ==
  /\ ~up => pc[j] \in {"unasked", "done", "dropped"}
  /\ step[j] # "idle" => row[j] \notin {"NONE", "PENDING"}
  /\ "SUCCEEDED" \in {row[j], job[j]} => step[j] = "returned"
  /\ "FAILED" \in {row[j], job[j]} => step[j] = "failed"

\* The notification that a record in a terminal state gives rise to.
LetterOf(type, r) ==
  [type |-> type, owner |-> r.owner,
   content |-> IF type = "FAILED" THEN failureNotificationContent(r)
                                  ELSE successNotificationContent(r)]

\* While the task of j is here it holds an instance of its own.
Holding == {"inserting", "loaded", "starting", "started", "generating"} \cup Settling

Recorded(j) ==
  /\ pc[j] \in Holding => Fits(j, instance[j], job[j], resolveFailure(j))
  /\ row[j] # "NONE" => Fits(j, columns[j], row[j], resolveFailure(j))
  /\ pc[j] \in {"finished", "announcing", "announced"} => instance[j] = columns[j]
  /\ letter[j] # Null => row[j] \in Terminal /\ letter[j] = LetterOf(row[j], columns[j])

Linked(j) == Coupled(j) /\ Recorded(j)

LinkInv == RecordsOK /\ \A j \in Jobs : Linked(j)

\* All that is said of k stays as it is.
Kept(k) ==
  /\ pc'[k] = pc[k] /\ job'[k] = job[k] /\ row'[k] = row[k]
  /\ step'[k] = step[k] /\ resolveFailure(k)' = resolveFailure(k)
  /\ instance'[k] = instance[k] /\ columns'[k] = columns[k] /\ letter'[k] = letter[k]

LEMMA KeptLinked ==
  ASSUME NEW k \in Jobs, Linked(k), Kept(k), up' = up
  PROVE  Linked(k)'
<1>1. Coupled(k)'
  BY DEF Linked, Coupled, Kept
<1>2. Recorded(k)'
  <2>1. pc'[k] \in Holding => Fits(k, instance'[k], job'[k], resolveFailure(k)')
    BY DEF Linked, Recorded, Kept
  <2>2. row'[k] # "NONE" => Fits(k, columns'[k], row'[k], resolveFailure(k)')
    BY DEF Linked, Recorded, Kept
  <2> QED
    BY <2>1, <2>2 DEF Linked, Recorded, Kept
<1> QED
  BY <1>1, <1>2 DEF Linked

\* A step of one job changes what is said of that job only.
LEMMA OneJob ==
  ASSUME LinkInv, RecordsOK', up' = up, NEW j \in Jobs, Linked(j)',
         \A k \in Jobs \ {j} : Kept(k)
  PROVE  LinkInv'
BY KeptLinked DEF LinkInv

LEMMA LinkInit == FactoryInit => LinkInv
<1> SUFFICES ASSUME FactoryInit PROVE LinkInv
  OBVIOUS
<1>1. RecordsOK
  BY DEF FactoryInit, RecordsOK
<1>2. \A j \in Jobs : Linked(j)
  BY DEF FactoryInit, Init, Gen!Init, Linked, Coupled, Recorded, Holding, Settling
<1> QED
  BY <1>1, <1>2 DEF LinkInv

\* An instance that fits its job is a record.
LEMMA FitsColumns ==
  ASSUME NEW j, NEW c, NEW state, NEW error, Fits(j, c, state, error)
  PROVE  c \in Columns
BY DEF Fits

LEMMA AcceptLinked ==
  ASSUME IInv, LinkInv, NEW j \in Jobs, AcceptRequest(j)
  PROVE  LinkInv'
<1> DEFINE r == create(RequestProps(Owner[j], Body[j]))
<1>1. Fits(j, r, "PENDING", resolveFailure(j))
  BY CreateFits DEF AcceptRequest
<1> HIDE DEF r
<1>2. /\ up /\ up' = up /\ pc[j] = "unasked" /\ pc' = [pc EXCEPT ![j] = "inserting"]
      /\ job' = [job EXCEPT ![j] = "PENDING"]
      /\ UNCHANGED <<row, disk, columns, letter>>
      /\ instance' = [instance EXCEPT ![j] = r]
  BY DEF AcceptRequest, Submit, At, Hold, stored, r
<1>3. row[j] = "NONE" /\ pc \in [Jobs -> PC] /\ job \in [Jobs -> State]
  BY <1>2 DEF IInv, RowInv, TypeOK
<1>4. RecordsOK'
  BY <1>1, <1>2, FitsColumns DEF LinkInv, RecordsOK
<1>5. instance \in [Jobs -> Columns \cup {Null}]
  BY DEF LinkInv, RecordsOK
<1>6. \A k \in Jobs \ {j} : Kept(k)
  BY <1>2, <1>3, <1>5 DEF Kept, disk, resolveFailure
<1>7. Linked(j)'
  <2>1. Linked(j) /\ resolveFailure(j)' = resolveFailure(j)
    BY <1>2 DEF LinkInv, disk, resolveFailure
  <2>2. Coupled(j)'
    BY <1>2, <1>3, <2>1 DEF Linked, Coupled, disk
  <2>3. Recorded(j)'
    BY <1>1, <1>2, <1>3, <1>5, <2>1 DEF Linked, Recorded
  <2> QED
    BY <2>2, <2>3 DEF Linked
<1> QED
  BY <1>2, <1>4, <1>6, <1>7, OneJob

\* The two ways the database takes an instance over: insert and save.
LEMMA WriteLinked ==
  ASSUME IInv, LinkInv, NEW j \in Jobs, CreateJob(j) \/ SaveJob(j)
  PROVE  LinkInv'
<1>1. /\ up' = up /\ UNCHANGED <<job, disk, instance, letter>>
      /\ row' = [row EXCEPT ![j] = job[j]]
      /\ columns' = [columns EXCEPT ![j] = instance[j]]
      /\ pc' = [pc EXCEPT ![j] = pc'[j]]
      /\ \/ pc[j] = "inserting" /\ pc'[j] = "inserted"
         \/ pc[j] = "starting" /\ pc'[j] = "started"
         \/ pc[j] = "finishing" /\ pc'[j] = "finished"
  <2>1. pc \in [Jobs -> PC]
    BY DEF IInv, TypeOK
  <2> QED
    BY <2>1 DEF CreateJob, SaveJob, InsertRow, SaveRunning, SaveOutcome, SaveRow, At, Write
<1>2. /\ pc[j] \in Holding /\ row[j] \notin Terminal /\ job[j] # "NONE"
      /\ pc[j] = "inserting" => job[j] = "PENDING" /\ row[j] = "NONE"
      /\ pc[j] = "starting" => job[j] = "RUNNING" /\ row[j] = "PENDING"
      /\ pc[j] = "finishing" => row[j] = "RUNNING" /\ job[j] \in Terminal
      /\ pc \in [Jobs -> PC] /\ row \in [Jobs -> State]
  BY <1>1 DEF IInv, TypeOK, RowInv, JobInv, Holding, Settling, Terminal
<1>3. Linked(j) /\ resolveFailure(j)' = resolveFailure(j)
  BY <1>1 DEF LinkInv, disk, resolveFailure
<1>4. Fits(j, instance[j], job[j], resolveFailure(j)) /\ letter[j] = Null
  BY <1>2, <1>3 DEF Linked, Recorded
<1>5. columns \in [Jobs -> Columns \cup {Null}]
  BY DEF LinkInv, RecordsOK
<1>6. RecordsOK'
  BY <1>1 DEF LinkInv, RecordsOK
<1>7. \A k \in Jobs \ {j} : Kept(k)
  BY <1>1, <1>2, <1>5 DEF Kept, disk, resolveFailure
<1>8. Coupled(j)'
  BY <1>1, <1>2, <1>3 DEF Linked, Coupled, disk, Terminal
<1>9. Recorded(j)'
  <2>1. row'[j] = job[j] /\ columns'[j] = instance[j]
    BY <1>1, <1>2, <1>5
  <2> QED
    BY <1>1, <1>2, <1>3, <1>4, <2>1 DEF Recorded
<1> QED
  BY <1>1, <1>6, <1>7, <1>8, <1>9, OneJob DEF Linked

\* Loading and starting: the instance changes, the row stays.
LEMMA HoldLinked ==
  ASSUME IInv, LinkInv, NEW j \in Jobs, NEW r, NEW state \in State,
         pc[j] \in {"queued", "loaded"}, up' = up, up,
         UNCHANGED <<row, disk, columns, letter>>,
         pc' = [pc EXCEPT ![j] = pc'[j]], pc'[j] \in {"loaded", "starting"},
         job' = [job EXCEPT ![j] = state],
         instance' = [instance EXCEPT ![j] = r],
         state \in {"PENDING", "RUNNING"}, Fits(j, r, state, resolveFailure(j))
  PROVE  LinkInv'
<1>1. pc \in [Jobs -> PC] /\ job \in [Jobs -> State] /\ row[j] = "PENDING"
  BY DEF IInv, TypeOK, RowInv
<1>2. Linked(j) /\ resolveFailure(j)' = resolveFailure(j)
  BY DEF LinkInv, disk, resolveFailure
<1>3. instance \in [Jobs -> Columns \cup {Null}]
  BY DEF LinkInv, RecordsOK
<1>4. RecordsOK'
  BY FitsColumns DEF LinkInv, RecordsOK
<1>5. \A k \in Jobs \ {j} : Kept(k)
  BY <1>1, <1>3 DEF Kept, disk, resolveFailure
<1>6. Coupled(j)'
  BY <1>1, <1>2 DEF Linked, Coupled, disk
<1>7. Recorded(j)'
  <2>1. Fits(j, instance'[j], job'[j], resolveFailure(j)')
    BY <1>1, <1>2, <1>3
  <2>2. row'[j] # "NONE" => Fits(j, columns'[j], row'[j], resolveFailure(j)')
    BY <1>2 DEF Linked, Recorded
  <2> QED
    BY <1>1, <1>2, <2>1, <2>2 DEF Linked, Recorded
<1> QED
  BY <1>4, <1>5, <1>6, <1>7, OneJob DEF Linked

LEMMA FindLinked ==
  ASSUME IInv, LinkInv, NEW j \in Jobs, FindJob(j)
  PROVE  LinkInv'
<1>1. Linked(j) /\ pc[j] = "queued" /\ row[j] = "PENDING"
  BY DEF FindJob, LoadJob, At, IInv, RowInv, LinkInv
<1>2. up /\ Fits(j, columns[j], "PENDING", resolveFailure(j))
  BY <1>1 DEF Linked, Coupled, Recorded
<1>3. toDomainGenerationJob(columns[j]) = columns[j]
  BY <1>2, Reload DEF toDomainGenerationJob
<1>4. pc \in [Jobs -> PC] /\ "PENDING" \in State
  BY DEF IInv, TypeOK, State
<1>5. /\ up' = up /\ UNCHANGED <<row, disk, columns, letter>>
      /\ pc' = [pc EXCEPT ![j] = pc'[j]] /\ pc'[j] = "loaded"
      /\ job' = [job EXCEPT ![j] = "PENDING"]
      /\ instance' = [instance EXCEPT ![j] = columns[j]]
  BY <1>1, <1>2, <1>3, <1>4 DEF FindJob, LoadJob, At, Hold, stored
<1> QED
  BY <1>1, <1>2, <1>4, <1>5, HoldLinked

LEMMA StartLinked ==
  ASSUME IInv, LinkInv, NEW j \in Jobs, StartTask(j)
  PROVE  LinkInv'
<1>1. Linked(j) /\ pc[j] = "loaded" /\ job[j] = "PENDING"
  BY DEF StartTask, StartJob, IInv, JobInv, LinkInv
<1>2. up /\ Fits(j, instance[j], "PENDING", resolveFailure(j))
  BY <1>1 DEF Linked, Coupled, Recorded, Holding
<1>3. Fits(j, start(instance[j]), "RUNNING", resolveFailure(j))
  BY <1>2, StartFits
<1>4. pc \in [Jobs -> PC] /\ "RUNNING" \in State
  BY DEF IInv, TypeOK, State
<1>5. /\ up' = up /\ UNCHANGED <<row, disk, columns, letter>>
      /\ pc' = [pc EXCEPT ![j] = pc'[j]] /\ pc'[j] = "starting"
      /\ job' = [job EXCEPT ![j] = "RUNNING"]
      /\ instance' = [instance EXCEPT ![j] = start(instance[j])]
  BY <1>1, <1>2, <1>4 DEF StartTask, StartJob, Hold, stored
<1> QED
  BY <1>1, <1>2, <1>3, <1>4, <1>5, HoldLinked

\* The tasks' calls that leave records and rows alone.
LEMMA AcknowledgeMoves ==
  ASSUME IInv, NEW j \in Jobs, Acknowledge(j)
  PROVE  /\ UNCHANGED <<row, job, up, records, disk>>
         /\ pc' = [pc EXCEPT ![j] = pc'[j]]
         /\ \/ pc[j] = "inserted" /\ pc'[j] = "queued"
            \/ pc[j] = "started" /\ pc'[j] = "generating"
            \/ pc[j] \in {"finished", "announced"} /\ pc'[j] \in {"announcing", "done"}
<1>1. pc \in [Jobs -> PC]
  BY DEF IInv, TypeOK
<1>2. CASE Enqueue(j)
  <2>1. j \notin marked
    BY <1>2 DEF Enqueue, IInv, BusInv, Settling
  <2> QED
    BY <1>1, <1>2, <2>1, DispatchNone DEF Enqueue, Acknowledge, stored
<1>3. CASE BeginGeneration(j)
  <2>1. j \notin marked
    BY <1>3 DEF BeginGeneration, IInv, BusInv, Settling
  <2> QED
    BY <1>1, <1>3, <2>1, DispatchNone DEF BeginGeneration, Acknowledge, stored
<1>4. CASE BeginDispatch(j) \/ NextEvent(j)
  BY <1>1, <1>4 DEF BeginDispatch, NextEvent, DispatchEvents, Acknowledge, stored
<1> QED
  BY <1>2, <1>3, <1>4 DEF Acknowledge

LEMMA AcknowledgeLinked ==
  ASSUME IInv, LinkInv, NEW j \in Jobs, Acknowledge(j)
  PROVE  LinkInv'
<1>1. /\ UNCHANGED <<row, job, up, disk, instance, columns, letter>>
      /\ pc' = [pc EXCEPT ![j] = pc'[j]]
      /\ \/ pc[j] = "inserted" /\ pc'[j] = "queued"
         \/ pc[j] = "started" /\ pc'[j] = "generating"
         \/ pc[j] \in {"finished", "announced"} /\ pc'[j] \in {"announcing", "done"}
  BY AcknowledgeMoves DEF records
<1>2. Linked(j) /\ resolveFailure(j)' = resolveFailure(j) /\ pc \in [Jobs -> PC]
  BY <1>1 DEF LinkInv, disk, resolveFailure, IInv, TypeOK
<1>3. RecordsOK'
  BY <1>1 DEF LinkInv, RecordsOK
<1>4. \A k \in Jobs \ {j} : Kept(k)
  BY <1>1, <1>2 DEF Kept, disk, resolveFailure
<1>5. Coupled(j)'
  BY <1>1, <1>2 DEF Linked, Coupled, disk
<1>6. Recorded(j)'
  <2>1. pc'[j] \in Holding => pc[j] \in Holding
    BY <1>1 DEF Holding, Settling
  <2> QED
    BY <1>1, <1>2, <2>1 DEF Linked, Recorded
<1> QED
  BY <1>1, <1>3, <1>4, <1>5, <1>6, OneJob DEF Linked

\* The generation of j moves while its task waits.
LEMMA GenerateLinked ==
  ASSUME IInv, GenInv, LinkInv, NEW j \in Jobs, Generate(j)
  PROVE  LinkInv'
<1>1. /\ UNCHANGED <<row, job, pc, up, instance, columns, letter>>
      /\ pc[j] = "generating" /\ row[j] = "RUNNING" /\ job[j] = "RUNNING"
  BY GenStep DEF Generate, tasks, records, stored, IInv, RowInv, JobInv
<1>2. RecordsOK'
  BY <1>1 DEF LinkInv, RecordsOK
<1>3. \A k \in Jobs \ {j} : Kept(k)
  BY <1>1, GenStepFrame DEF Generate, Kept, resolveFailure
<1>4. Linked(j)
  BY DEF LinkInv
<1>5. Coupled(j)'
  BY <1>1, <1>4 DEF Linked, Coupled
<1>6. Recorded(j)'
  <2>1. /\ Fits(j, instance[j], job[j], resolveFailure(j)')
        /\ Fits(j, columns[j], row[j], resolveFailure(j)')
    BY <1>1, <1>4, ErrorIrrelevant DEF Linked, Recorded, Holding
  <2> QED
    BY <1>1, <1>4, <2>1 DEF Linked, Recorded
<1> QED
  BY <1>1, <1>2, <1>3, <1>5, <1>6, OneJob DEF Linked

\* generate() ends, one way or the other.
LEMMA SettleLinked ==
  ASSUME IInv, LinkInv, NEW j \in Jobs, NEW r, NEW t \in Terminal,
         pc[j] = "generating", Settle(j, t), up' = up,
         UNCHANGED <<row, disk, columns, letter>>,
         instance' = [instance EXCEPT ![j] = r],
         t = "SUCCEEDED" => step[j] = "returned",
         t = "FAILED" => step[j] = "failed",
         Fits(j, r, t, resolveFailure(j))
  PROVE  LinkInv'
<1>1. /\ pc' = [pc EXCEPT ![j] = "finishing"] /\ job' = [job EXCEPT ![j] = t]
      /\ pc \in [Jobs -> PC] /\ job \in [Jobs -> State] /\ row[j] = "RUNNING"
      /\ up
  BY DEF Settle, IInv, TypeOK, RowInv, LinkInv, Linked, Coupled
<1>2. Linked(j) /\ resolveFailure(j)' = resolveFailure(j)
  BY DEF LinkInv, disk, resolveFailure
<1>3. instance \in [Jobs -> Columns \cup {Null}]
  BY DEF LinkInv, RecordsOK
<1>4. RecordsOK'
  BY FitsColumns DEF LinkInv, RecordsOK
<1>5. \A k \in Jobs \ {j} : Kept(k)
  BY <1>1, <1>3 DEF Kept, disk, resolveFailure
<1>6. Coupled(j)'
  BY <1>1, <1>2 DEF Linked, Coupled, disk
<1>7. Recorded(j)'
  <2>1. Fits(j, instance'[j], job'[j], resolveFailure(j)')
    BY <1>1, <1>2, <1>3
  <2>2. row'[j] # "NONE" => Fits(j, columns'[j], row'[j], resolveFailure(j)')
    BY <1>2 DEF Linked, Recorded
  <2> QED
    BY <1>1, <1>2, <2>1, <2>2 DEF Linked, Recorded
<1> QED
  BY <1>4, <1>5, <1>6, <1>7, OneJob DEF Linked

LEMMA ReturnLinked ==
  ASSUME IInv, GenInv, LinkInv, NEW j \in Jobs, GenerateReturns(j)
  PROVE  LinkInv'
<1> DEFINE r == succeed(instance[j], RepositoryOf(j), GenerationMetadata(j))
<1>1. /\ pc[j] = "generating" /\ job[j] = "RUNNING" /\ step[j] = "returned"
      /\ SlugOf[j] \in Slugs /\ up /\ Linked(j)
  BY DEF GenerateReturns, GenerationSucceeds, IInv, JobInv, GenInv, TreeInv,
         LinkInv, Linked, Coupled
<1>2. Fits(j, r, "SUCCEEDED", resolveFailure(j))
  BY <1>1, SucceedFits DEF Linked, Recorded, Holding
<1> HIDE DEF r
<1>3. /\ Settle(j, "SUCCEEDED") /\ up' = up /\ UNCHANGED <<row, disk, columns, letter>>
      /\ instance' = [instance EXCEPT ![j] = r]
  BY <1>1 DEF GenerateReturns, GenerationSucceeds, Hold, GenerationsFollow, stored, r
<1> QED
  BY <1>1, <1>2, <1>3, SettleLinked DEF Terminal

LEMMA FailLinked ==
  ASSUME IInv, GenInv, LinkInv, NEW j \in Jobs, GenerateFails(j)
  PROVE  LinkInv'
<1>1. /\ pc[j] = "generating" /\ job[j] = "RUNNING" /\ step[j] = "failed"
      /\ up /\ Linked(j)
  BY DEF GenerateFails, GenerationFails, IInv, JobInv, LinkInv, Linked, Coupled
<1>2. Settle(j, "FAILED") /\ up' = up /\ UNCHANGED <<row, disk>>
  BY <1>1 DEF GenerateFails, GenerationFails, Catch, isRunning, GenerationsFollow, stored
<1>3. PICK message \in Messages :
        Hold(j, fail(instance[j], resolveFailureReason(message), resolveFailure(j)))
  BY DEF GenerateFails
<1> DEFINE r == fail(instance[j], resolveFailureReason(message), resolveFailure(j))
<1>4. Names(j, resolveFailure(j))
  BY DEF GenInv, TreeInv, Names, resolveFailure
<1>5. Fits(j, r, "FAILED", resolveFailure(j))
  BY <1>1, <1>4, ReasonIsText, FailFits DEF Linked, Recorded, Holding
<1>6. Hold(j, r)
  BY <1>3
<1> HIDE DEF r
<1>7. instance' = [instance EXCEPT ![j] = r] /\ UNCHANGED <<columns, letter>>
  BY <1>1, <1>2, <1>6 DEF Hold
<1> QED
  BY <1>1, <1>2, <1>5, <1>7, SettleLinked DEF Terminal

\* The notification is made from the instance, which is what the row holds.
LEMMA LetterLinked ==
  ASSUME IInv, LinkInv, NEW j \in Jobs, SendLetter(j)
  PROVE  LinkInv'
<1>1. /\ pc[j] = "announcing" /\ pc' = [pc EXCEPT ![j] = "announced"]
      /\ UNCHANGED <<row, job, up, disk, instance, columns>>
  BY DEF SendLetter, InsertNotification, At, bus
<1>2. /\ Linked(j) /\ instance[j] = columns[j]
      /\ row[j] \in Terminal /\ row[j] = job[j] /\ pc \in [Jobs -> PC]
      /\ events[j][sent[j] + 1] = row[j]
  <2>1. /\ row[j] \in Terminal /\ row[j] = job[j] /\ pc \in [Jobs -> PC]
        /\ events[j] = <<job[j]>> /\ sent[j] = 0
    BY <1>1 DEF IInv, TypeOK, RowInv, JobInv, BusInv, Settling
  <2>2. events[j][sent[j] + 1] = job[j]
    BY <2>1
  <2> QED
    BY <1>1, <2>1, <2>2 DEF LinkInv, Linked, Recorded
<1>3. letter' = [letter EXCEPT ![j] = LetterOf(row[j], columns[j])]
  BY <1>2 DEF SendLetter, LetterOf
<1>4. LetterOf(row[j], columns[j]) \in Letter
  <2>1. columns[j] \in Columns
    BY <1>2, FitsColumns DEF Linked, Recorded, Terminal
  <2>2. /\ columns[j].owner \in Owners /\ columns[j].projectName \in Text
        /\ {columns[j].featureScopeRelativePath, columns[j].failureReason,
            columns[j].repositoryPath} \subseteq Text \cup {Null}
    BY <2>1 DEF Columns
  <2> QED
    BY <1>2, <2>2 DEF LetterOf, Letter, failureNotificationContent, successNotificationContent
<1>5. letter \in [Jobs -> Letter \cup {Null}]
  BY DEF LinkInv, RecordsOK
<1>6. RecordsOK'
  BY <1>1, <1>3, <1>4, <1>5 DEF LinkInv, RecordsOK
<1>7. \A k \in Jobs \ {j} : Kept(k)
  BY <1>1, <1>2, <1>3, <1>5 DEF Kept, disk, resolveFailure
<1>8. Coupled(j)'
  BY <1>1, <1>2 DEF Linked, Coupled, disk
<1>9. Recorded(j)'
  <2>1. resolveFailure(j)' = resolveFailure(j) /\ letter'[j] = LetterOf(row[j], columns[j])
    BY <1>1, <1>3, <1>5 DEF disk, resolveFailure
  <2> QED
    BY <1>1, <1>2, <2>1 DEF Linked, Recorded, Holding, Settling
<1> QED
  BY <1>1, <1>6, <1>7, <1>8, <1>9, OneJob DEF Linked

\* The process ends: rows, columns and letters stay, and so do the outcomes of
\* the generations that had ended.
LEMMA ExitLinked ==
  ASSUME IInv, LinkInv, ProcessExit, GenerationsFollow,
         UNCHANGED <<row, columns, letter>>, instance' = [k \in Jobs |-> Null], up
  PROVE  LinkInv'
<1>1. /\ ~up' /\ metadata' = metadata
      /\ \A k \in Jobs : step'[k] = IF step[k] \in Gen!Busy THEN "lost" ELSE step[k]
      /\ \A k \in Jobs : job'[k] = "NONE"
      /\ \A k \in Jobs : pc'[k] \in {"unasked", "done", "dropped"}
  BY DEF ProcessExit, GenerationsFollow, Gen!Crash, IInv, TypeOK, PC
<1>2. RecordsOK'
  BY DEF LinkInv, RecordsOK
<1>3. ASSUME NEW k \in Jobs PROVE Linked(k)'
  <2>1. Linked(k) /\ resolveFailure(k)' = resolveFailure(k)
    BY <1>1 DEF LinkInv, resolveFailure
  <2>2. Coupled(k)'
    BY <1>1, <2>1 DEF Linked, Coupled, Gen!Busy, Gen!Trying
  <2>3. Recorded(k)'
    BY <1>1, <2>1 DEF Linked, Recorded, Holding, Settling
  <2> QED
    BY <2>2, <2>3 DEF Linked
<1> QED
  BY <1>2, <1>3 DEF LinkInv

LEMMA RejectLinked ==
  ASSUME IInv, LinkInv, NEW j \in Jobs, Reject(j)
  PROVE  LinkInv'
<1>1. up /\ Linked(j)
  <2>1. pc[j] \in Creating \cup Tasking
    BY DEF Reject, RejectRequest, RejectTask
  <2> QED
    BY <2>1 DEF LinkInv, Linked, Coupled, Creating, Tasking, Settling
<1>2. CASE RejectRequest(j)
  <2>1. /\ up' = up /\ pc' = [pc EXCEPT ![j] = "dropped"]
        /\ job' = [job EXCEPT ![j] = "NONE"]
        /\ UNCHANGED <<row, disk, columns, letter>>
        /\ pc \in [Jobs -> PC] /\ job \in [Jobs -> State]
        /\ instance \in [Jobs -> Columns \cup {Null}]
    BY <1>2 DEF RejectRequest, Reject, Hold, GenerationsFollow, stored, IInv, TypeOK,
                LinkInv, RecordsOK
  <2>2. instance' = [instance EXCEPT ![j] = Null]
    BY <1>1, <1>2, <2>1 DEF Reject, Hold
  <2>3. RecordsOK'
    BY <2>1, <2>2 DEF LinkInv, RecordsOK
  <2>4. \A k \in Jobs \ {j} : Kept(k)
    BY <2>1, <2>2 DEF Kept, disk, resolveFailure
  <2>5. Coupled(j)'
    BY <1>1, <2>1 DEF Linked, Coupled, disk
  <2>6. resolveFailure(j)' = resolveFailure(j)
    BY <2>1 DEF disk, resolveFailure
  <2>7. Recorded(j)'
    BY <1>1, <2>1, <2>6 DEF Linked, Recorded, Holding, Settling
  <2> QED
    BY <2>1, <2>3, <2>4, <2>5, <2>7, OneJob DEF Linked
<1>3. CASE RejectTask(j)
  <2>1. ProcessExit
    BY <1>3 DEF RejectTask, Catch, isRunning
  <2>2. UNCHANGED <<row, columns, letter>> /\ GenerationsFollow
    BY <1>3 DEF RejectTask, Reject, Hold, stored
  <2>3. instance' = [k \in Jobs |-> Null]
    BY <2>1 DEF Reject, Hold, ProcessExit
  <2> QED
    BY <1>1, <2>1, <2>2, <2>3, ExitLinked
<1> QED
  BY <1>2, <1>3 DEF Reject

LEMMA ProcessLinked ==
  ASSUME IInv, LinkInv, Stop \/ Begin
  PROVE  LinkInv'
<1>1. CASE Stop
  BY <1>1, ExitLinked DEF Stop, Crash, stored
<1>2. CASE Begin
  <2>1. /\ up' /\ UNCHANGED <<row, job, pc, instance, columns, letter, step, metadata>>
    BY <1>2 DEF Begin, Restart, GenerationsFollow, Gen!Restart, records, stored
  <2>2. RecordsOK'
    BY <2>1 DEF LinkInv, RecordsOK
  <2>3. ASSUME NEW k \in Jobs PROVE Linked(k)'
    <3>1. Linked(k) /\ resolveFailure(k)' = resolveFailure(k)
      BY <2>1 DEF LinkInv, resolveFailure
    <3>2. Coupled(k)'
      BY <2>1, <3>1 DEF Linked, Coupled
    <3>3. Recorded(k)'
      BY <2>1, <3>1 DEF Linked, Recorded
    <3> QED
      BY <3>2, <3>3 DEF Linked
  <2> QED
    BY <2>2, <2>3 DEF LinkInv
<1> QED
  BY <1>1, <1>2

LEMMA LinkNext == IInv /\ GenInv /\ LinkInv /\ [FactoryNext]_factoryVars => LinkInv'
<1> SUFFICES ASSUME IInv, GenInv, LinkInv, [FactoryNext]_factoryVars PROVE LinkInv'
  OBVIOUS
<1>1. ASSUME NEW j \in Jobs,
             \/ AcceptRequest(j) \/ CreateJob(j) \/ FindJob(j) \/ StartTask(j)
             \/ SaveJob(j) \/ SendLetter(j) \/ Acknowledge(j) \/ Reject(j)
      PROVE  LinkInv'
  BY <1>1, AcceptLinked, WriteLinked, FindLinked, StartLinked, LetterLinked,
     AcknowledgeLinked, RejectLinked
<1>2. ASSUME NEW j \in Jobs, Generate(j) \/ GenerateReturns(j) \/ GenerateFails(j)
      PROVE  LinkInv'
  BY <1>2, GenerateLinked, ReturnLinked, FailLinked
<1>3. CASE Stop \/ Begin
  BY <1>3, ProcessLinked
<1>4. CASE UNCHANGED factoryVars
  <2>1. ASSUME NEW k \in Jobs PROVE Linked(k)'
    BY <1>4, KeptLinked DEF LinkInv, Kept, factoryVars, vars, disk, records, resolveFailure
  <2> QED
    BY <1>4, <2>1 DEF LinkInv, RecordsOK, factoryVars, records
<1> QED
  BY <1>1, <1>2, <1>3, <1>4 DEF FactoryNext

LEMMA FactoryInvariance == FactorySpec => [](GenInv /\ LinkInv)
BY LinkInit, LinkNext, GeneratorInvariance, TasksInvariance, PTL DEF FactorySpec

-----------------------------------------------------------------------------
(***************************************************************************)
(* What follows.                                                           *)
(***************************************************************************)

\* The records keep their types.
THEOREM RecordsTyped == FactorySpec => []RecordsOK
<1>1. LinkInv => RecordsOK
  BY DEF LinkInv
<1> QED
  BY <1>1, FactoryInvariance, PTL

\* A job that is stored SUCCEEDED owns the directory that its row reports.
THEOREM SuccessIsPublished == FactorySpec => []SucceededOwnsTree
<1>1. GenInv /\ LinkInv => SucceededOwnsTree
  <2> SUFFICES ASSUME GenInv, LinkInv, NEW j \in Jobs, row[j] = "SUCCEEDED"
               PROVE  columns[j].outputPath = RepositoryOf(j) /\ folder[SlugOf[j]] = j
    BY DEF SucceededOwnsTree
  <2>1. step[j] = "returned" /\ Fits(j, columns[j], "SUCCEEDED", resolveFailure(j))
    BY DEF LinkInv, Linked, Coupled, Recorded
  <2> QED
    BY <2>1 DEF GenInv, TreeInv, Fits
<1> QED
  BY <1>1, FactoryInvariance, PTL

\* Every tree on the disk belongs to a job whose row accounts for it.
THEOREM DiskIsAccounted == FactorySpec => []TreesAreKnown
<1>1. IInv /\ GenInv /\ LinkInv => TreesAreKnown
  <2> SUFFICES ASSUME IInv, GenInv, LinkInv, NEW j \in Jobs
               PROVE  /\ j \in staging => row[j] \in {"RUNNING", "FAILED"}
                      /\ \A s \in Slugs : folder[s] = j =>
                           \/ row[j] = "RUNNING"
                           \/ row[j] \in Terminal /\ columns[j].repositoryPath = Plain(s)
    BY DEF TreesAreKnown
  <2>1. /\ TreeInv(j) /\ Linked(j) /\ row[j] \in State
    BY DEF IInv, TypeOK, GenInv, LinkInv
  <2>2. step[j] # "idle" => row[j] \in {"RUNNING", "SUCCEEDED", "FAILED"}
    BY <2>1 DEF Linked, Coupled, State, Terminal
  <2>3. j \in staging => row[j] \in {"RUNNING", "FAILED"}
    BY <2>1, <2>2 DEF TreeInv, Linked, Coupled, Gen!Trying
  <2>4. ASSUME NEW s \in Slugs, folder[s] = j, row[j] # "RUNNING"
        PROVE  row[j] \in Terminal /\ columns[j].repositoryPath = Plain(s)
    <3>1. /\ s = SlugOf[j] /\ row[j] \in Terminal
          /\ row[j] = "FAILED" => j \in metadata
      BY <2>1, <2>2, <2>4 DEF TreeInv, Linked, Coupled, Terminal
    <3>2. Fits(j, columns[j], row[j], resolveFailure(j))
      BY <2>1, <3>1 DEF Linked, Recorded, Terminal
    <3>3. columns[j].repositoryPath = RepositoryOf(j)
      BY <3>1, <3>2 DEF Fits, Reported, GenerationMetadata, resolveFailure, Terminal
    <3> QED
      BY <3>1, <3>3 DEF RepositoryOf
  <2> QED
    BY <2>3, <2>4
<1> QED
  BY <1>1, FactoryInvariance, TasksInvariance, PTL

\* The columns of every row fit its state.
THEOREM RowsAreConsistent == FactorySpec => []ColumnsFitState
<1>1. LinkInv => ColumnsFitState
  <2> SUFFICES ASSUME LinkInv, NEW j \in Jobs, row[j] # "NONE"
               PROVE  LET c == columns[j] IN
                      /\ {c.projectName, c.projectDescription} \subseteq Trimmed
                      /\ c.startedAt = Null <=> row[j] = "PENDING"
                      /\ c.completedAt = Null <=> row[j] \notin Terminal
                      /\ c.updatedAt = Or(c.completedAt, Or(c.startedAt, c.createdAt))
                      /\ c.outputPath # Null <=> row[j] = "SUCCEEDED"
                      /\ IF row[j] = "FAILED" THEN c.failureReason \in Trimmed
                                              ELSE c.failureReason = Null
                      /\ row[j] = "SUCCEEDED" => c.repositoryPath = c.outputPath
    BY DEF ColumnsFitState
  <2> DEFINE c == columns[j]
  <2>1. Fits(j, c, row[j], resolveFailure(j))
    BY DEF LinkInv, Linked, Recorded
  <2> HIDE DEF c
  <2>2. c.outputPath # Null <=> row[j] = "SUCCEEDED"
    <3>1. row[j] # "SUCCEEDED" => c.outputPath = Null
      BY <2>1 DEF Fits
    <3>2. row[j] = "SUCCEEDED" => c.outputPath \in Trimmed
      BY <2>1 DEF Fits
    <3> QED
      BY <3>1, <3>2, TrimmedText
  <2> QED
    BY <2>1, <2>2, NullAssumption DEF Fits, Reported, GenerationMetadata, Or, c
<1> QED
  BY <1>1, FactoryInvariance, PTL

\* Every stored row can be loaded and comes back as it was stored.
THEOREM RowsRoundTrip == FactorySpec => []RowsReload
<1>1. LinkInv => RowsReload
  BY Reload DEF LinkInv, Linked, Recorded, RowsReload, toDomainGenerationJob
<1> QED
  BY <1>1, FactoryInvariance, PTL

\* A notification tells what the row tells.
THEOREM LettersAreTrue == FactorySpec => []LetterMatchesRow
<1>1. LinkInv => LetterMatchesRow
  <2> SUFFICES ASSUME LinkInv, NEW j \in Jobs, letter[j] # Null
               PROVE  LET c == columns[j] told == letter[j].content IN
                      /\ letter[j].type = row[j]
                      /\ letter[j].owner = c.owner
                      /\ told.projectName = c.projectName
                      /\ row[j] = "FAILED" =>
                           /\ told.reason = c.failureReason
                           /\ told.scope = c.featureScopeRelativePath
                           /\ told.repository = c.repositoryPath
    BY DEF LetterMatchesRow
  <2>1. letter[j] = LetterOf(row[j], columns[j])
    BY DEF LinkInv, Linked, Recorded
  <2> QED
    BY <2>1 DEF LetterOf, failureNotificationContent, successNotificationContent
<1> QED
  BY <1>1, FactoryInvariance, PTL

-----------------------------------------------------------------------------
(***************************************************************************)
(* What the parts promise, promised by the whole.                          *)
(***************************************************************************)

\* The database of the service, with its generators and records, goes through
\* the life of a job and nothing else.
THEOREM ServiceLifecycle == FactorySpec => ImplementsLifecycle
BY TasksRefinement, Refinement, PTL

\* In the service, too, no job does anything twice, what has ended is final,
\* and without a fault no job is stranded.
THEOREM ServiceNeverRepeats ==
  FactorySpec => ControlAdvances /\ EndedIsForEver /\ []StrandedOnlyByFault
BY TasksRefinement, NothingRepeats, EndedJobsRest, NoneStrandedWithoutFault, PTL

\* A row and a notification tell of their own request, for ever: through all
\* loads and saves by tasks that run side by side, the owner, name,
\* description and notes stay those of the request, and the notification goes
\* to the owner under that name.
RequestIsKept ==
  \A j \in Jobs :
    /\ row[j] # "NONE" => Asks(j, columns[j])
    /\ letter[j] # Null =>
         /\ letter[j].owner = Owner[j]
         /\ letter[j].content.projectName = trim(Body[j].projectName)

\* For any texts, owners and interleaving, what is stored and told about a job
\* is what its own request said.
THEOREM RequestsAreKept == FactorySpec => []RequestIsKept
<1>1. LinkInv => RequestIsKept
  <2> SUFFICES ASSUME LinkInv, NEW j \in Jobs
               PROVE  /\ row[j] # "NONE" => Asks(j, columns[j])
                      /\ letter[j] # Null =>
                           /\ letter[j].owner = Owner[j]
                           /\ letter[j].content.projectName = trim(Body[j].projectName)
    BY DEF RequestIsKept
  <2>1. row[j] # "NONE" => Asks(j, columns[j])
    BY DEF LinkInv, Linked, Recorded, Fits
  <2>2. ASSUME letter[j] # Null
        PROVE  /\ letter[j].owner = columns[j].owner
               /\ letter[j].content.projectName = columns[j].projectName
               /\ row[j] # "NONE"
    <3>1. row[j] \in Terminal /\ letter[j] = LetterOf(row[j], columns[j])
      BY <2>2 DEF LinkInv, Linked, Recorded
    <3> QED
      BY <3>1 DEF LetterOf, failureNotificationContent, successNotificationContent, Terminal
  <2> QED
    BY <2>1, <2>2 DEF Asks
<1> QED
  BY <1>1, FactoryInvariance, PTL

\* No two jobs that are stored SUCCEEDED report the same directory, although
\* their names may give the same slug and their tasks may run side by side.
OneSuccessPerDirectory ==
  \A j, k \in Jobs :
    /\ row[j] = "SUCCEEDED" /\ row[k] = "SUCCEEDED"
    /\ columns[j].outputPath = columns[k].outputPath
    => j = k

\* Of any number of jobs with one slug, at most one is stored SUCCEEDED with
\* that directory.
THEOREM DirectoriesAreNotShared == FactorySpec => []OneSuccessPerDirectory
<1>1. GenInv /\ LinkInv => OneSuccessPerDirectory
  <2> SUFFICES ASSUME GenInv, LinkInv, NEW j \in Jobs, NEW k \in Jobs,
                      row[j] = "SUCCEEDED", row[k] = "SUCCEEDED",
                      columns[j].outputPath = columns[k].outputPath
               PROVE  j = k
    BY DEF OneSuccessPerDirectory
  <2>1. ASSUME NEW i \in {j, k}
        PROVE  columns[i].outputPath = Plain(SlugOf[i]) /\ folder[SlugOf[i]] = i
    <3>1. step[i] = "returned" /\ Fits(i, columns[i], "SUCCEEDED", resolveFailure(i))
      BY DEF LinkInv, Linked, Coupled, Recorded
    <3> QED
      BY <3>1 DEF GenInv, TreeInv, Fits, RepositoryOf
  <2>2. Plain(SlugOf[j]).word = Plain(SlugOf[k]).word
    BY <2>1
  <2>3. SlugOf[j] = SlugOf[k]
    BY <2>2 DEF Plain
  <2> QED
    BY <2>1, <2>3
<1> QED
  BY <1>1, FactoryInvariance, PTL

-----------------------------------------------------------------------------
(***************************************************************************)
(* What is history stays as it is.                                         *)
(***************************************************************************)

\* Which steps may change what is stored about job k, and which directory.
LEMMA StoredFrame ==
  ASSUME IInv, GenInv, LinkInv, [FactoryNext]_factoryVars, NEW k \in Jobs
  PROVE  /\ \/ row'[k] = row[k] /\ columns'[k] = columns[k]
            \/ pc[k] \in {"inserting", "starting", "finishing"}
         /\ \/ letter'[k] = letter[k] /\ inbox'[k] = inbox[k]
            \/ pc[k] = "announcing" /\ SendLetter(k)
         /\ \A s \in Slugs : folder'[s] = folder[s] \/ folder[s] = Nobody
<1> USE DEF stored, bus, tasks, records, disk
<1>0. /\ row \in [Jobs -> State] /\ inbox \in [Jobs -> [Terminal -> Nat]]
      /\ columns \in [Jobs -> Columns \cup {Null}] /\ letter \in [Jobs -> Letter \cup {Null}]
  BY DEF IInv, TypeOK, LinkInv, RecordsOK
<1> DEFINE Still == UNCHANGED <<row, columns, letter, inbox>>
<1>1. ASSUME NEW j \in Jobs, CreateJob(j) \/ SaveJob(j)
      PROVE  /\ UNCHANGED <<letter, inbox, folder>>
             /\ pc[j] \in {"inserting", "starting", "finishing"}
             /\ \A i \in Jobs \ {j} : row'[i] = row[i] /\ columns'[i] = columns[i]
  BY <1>0, <1>1 DEF CreateJob, SaveJob, InsertRow, SaveRunning, SaveOutcome, SaveRow, At, Write
<1>2. ASSUME NEW j \in Jobs, SendLetter(j)
      PROVE  /\ UNCHANGED <<row, columns, folder>> /\ pc[j] = "announcing"
             /\ \A i \in Jobs \ {j} : letter'[i] = letter[i] /\ inbox'[i] = inbox[i]
  BY <1>0, <1>2 DEF SendLetter, InsertNotification, At
<1>3. ASSUME NEW j \in Jobs,
             AcceptRequest(j) \/ FindJob(j) \/ StartTask(j) \/ Acknowledge(j)
      PROVE  Still /\ UNCHANGED folder
  BY <1>3 DEF AcceptRequest, Submit, FindJob, LoadJob, StartTask, StartJob, Hold,
              Acknowledge, Enqueue, BeginGeneration, BeginDispatch, NextEvent
<1>4. ASSUME NEW j \in Jobs, Generate(j)
      PROVE  Still /\ \A s \in Slugs : folder'[s] = folder[s] \/ folder[s] = Nobody
  BY <1>4, GenStepFrame DEF Generate
<1>5. ASSUME GenerationsFollow PROVE UNCHANGED folder
  BY <1>5 DEF GenerationsFollow, Gen!Crash, Gen!Restart
<1>6. ASSUME NEW j \in Jobs, GenerateReturns(j) \/ GenerateFails(j) \/ Reject(j)
      PROVE  Still /\ UNCHANGED folder
  <2>1. GenerationsFollow
    BY <1>6 DEF GenerateReturns, GenerateFails, Reject
  <2>2. UNCHANGED <<row, inbox>>
    BY <1>6 DEF GenerateReturns, GenerationSucceeds, GenerateFails, GenerationFails,
                Reject, RejectRequest, RejectTask
  <2>3. UNCHANGED <<columns, letter>>
    BY <1>6 DEF GenerateReturns, GenerateFails, Reject, Hold
  <2> QED
    BY <1>5, <2>1, <2>2, <2>3
<1>7. CASE Stop \/ Begin
  BY <1>5, <1>7 DEF Stop, Crash, Begin, Restart
<1>8. CASE UNCHANGED factoryVars
  BY <1>8 DEF factoryVars, vars
<1>9. ASSUME NEW j \in Jobs, CreateJob(j) \/ SaveJob(j) \/ SendLetter(j)
      PROVE  /\ \/ row'[k] = row[k] /\ columns'[k] = columns[k]
                \/ pc[k] \in {"inserting", "starting", "finishing"}
             /\ \/ letter'[k] = letter[k] /\ inbox'[k] = inbox[k]
                \/ pc[k] = "announcing" /\ SendLetter(k)
             /\ UNCHANGED folder
  <2>1. CASE k = j
    BY <1>1, <1>2, <1>9, <2>1
  <2>2. CASE k # j
    BY <1>1, <1>2, <1>9, <2>2
  <2> QED
    BY <2>1, <2>2
<1> QED
  BY <1>3, <1>4, <1>6, <1>7, <1>8, <1>9 DEF FactoryNext

\* What a notification tells is there only with the notification.
LetterInv == \A j \in Jobs : letter[j] # Null => inbox[j] # NoNotices

LEMMA LetterInvariance == FactorySpec => []LetterInv
<1>1. FactoryInit => LetterInv
  BY DEF FactoryInit, LetterInv
<1>2. /\ IInv /\ GenInv /\ LinkInv /\ LetterInv
      /\ IInv' /\ [FactoryNext]_factoryVars
      => LetterInv'
  <2> SUFFICES ASSUME IInv, GenInv, LinkInv, LetterInv, IInv', [FactoryNext]_factoryVars,
                      NEW j \in Jobs, letter'[j] # Null
               PROVE  inbox'[j] # NoNotices
    BY DEF LetterInv
  <2>1. CASE letter'[j] = letter[j] /\ inbox'[j] = inbox[j]
    BY <2>1 DEF LetterInv
  <2>2. CASE pc[j] = "announcing" /\ SendLetter(j)
    <3>1. pc'[j] = "announced"
      BY <2>2 DEF SendLetter, InsertNotification, At, IInv, TypeOK
    <3>2. inbox'[j] = OneNotice(row'[j]) /\ row'[j] \in Terminal
      <4>1. IInv' => InboxInv(j)'
        BY DEF IInv
      <4>2. inbox'[j] = OneNotice(row'[j])
        BY <3>1, <4>1 DEF InboxInv
      <4>3. row'[j] = row[j] /\ row[j] = job[j] /\ job[j] \in Terminal
        BY <2>2 DEF SendLetter, InsertNotification, IInv, RowInv, JobInv, Settling
      <4> QED
        BY <4>2, <4>3
    <3>3. OneNotice(row'[j])[row'[j]] = 1 /\ NoNotices[row'[j]] = 0
      BY <3>2 DEF OneNotice, NoNotices
    <3> QED
      BY <3>2, <3>3
  <2> QED
    BY <2>1, <2>2, StoredFrame
<1> QED
  BY <1>1, <1>2, FactoryInvariance, TasksInvariance, PTL DEF FactorySpec

\* An outcome that is stored is history: no later step, of whatever job, and
\* no fault or restart changes the columns of a terminal row, rewrites a
\* notification, or takes the directory away that a success reports.
HistoryIsFixed ==
  [][\A j \in Jobs :
       /\ row[j] \in Terminal => row'[j] = row[j] /\ columns'[j] = columns[j]
       /\ letter[j] # Null => letter'[j] = letter[j]
       /\ row[j] = "SUCCEEDED" => folder'[SlugOf[j]] = j]_factoryVars

\* No step of the service, of whatever job, rewrites what it has stored and
\* told about an outcome, or moves the directory of a success.
THEOREM HistoryStays == FactorySpec => HistoryIsFixed
<1> DEFINE Fixed ==
      \A j \in Jobs :
        /\ row[j] \in Terminal => row'[j] = row[j] /\ columns'[j] = columns[j]
        /\ letter[j] # Null => letter'[j] = letter[j]
        /\ row[j] = "SUCCEEDED" => folder'[SlugOf[j]] = j
<1>1. IInv /\ GenInv /\ LinkInv /\ LetterInv /\ [FactoryNext]_factoryVars => Fixed
  <2> SUFFICES ASSUME IInv, GenInv, LinkInv, LetterInv, [FactoryNext]_factoryVars,
                      NEW j \in Jobs
               PROVE  /\ row[j] \in Terminal => row'[j] = row[j] /\ columns'[j] = columns[j]
                      /\ letter[j] # Null => letter'[j] = letter[j]
                      /\ row[j] = "SUCCEEDED" => folder'[SlugOf[j]] = j
    OBVIOUS
  <2>1. row[j] \in Terminal => pc[j] \notin {"inserting", "starting", "finishing"}
    BY DEF IInv, RowInv, Terminal
  <2>2. letter[j] # Null => pc[j] # "announcing"
    BY DEF LetterInv, IInv, InboxInv
  <2>3. ASSUME row[j] = "SUCCEEDED" PROVE folder'[SlugOf[j]] = j
    <3>1. step[j] = "returned"
      BY <2>3 DEF LinkInv, Linked, Coupled
    <3>2. SlugOf[j] \in Slugs /\ folder[SlugOf[j]] = j
      BY <3>1 DEF GenInv, TreeInv
    <3> QED
      BY <3>2, StoredFrame, DirectoryAssumption
  <2> QED
    BY <2>1, <2>2, <2>3, StoredFrame
<1> QED
  BY <1>1, LetterInvariance, FactoryInvariance, TasksInvariance, PTL
  DEF FactorySpec, HistoryIsFixed

-----------------------------------------------------------------------------
(***************************************************************************)
(* The guarded runs in it.                                                 *)
(***************************************************************************)

\* The runs and their agents take nothing from what was proved above: to the
\* rest of the service a step of theirs is a step of generate() or none.
THEOREM GuardedRefinement == GuardedSpec => FactorySpec
<1>1. GuardedInit => FactoryInit
  BY DEF GuardedInit
<1>2. [GuardedNext]_guardedVars => [FactoryNext]_factoryVars
  BY DEF GuardedNext, guardedVars, AgentEdits, RunReturns, ServiceStep, FactoryNext
<1> QED
  BY <1>1, <1>2, PTL DEF GuardedSpec, FactorySpec

ScopeType == scope \in [Slugs -> {"open", "done"}] /\ agents \subseteq Jobs

\* An agent of j that may be at work is in a tree of j's own, and j's run has
\* not returned; a run that has, did so over a scope without ready tasks.
AgentInv(j) ==
  /\ step[j] = "working" => j \in agents
  /\ j \in agents =>
       SlugOf[j] \in Slugs /\ folder[SlugOf[j]] = j /\ step[j] # "returned"
  /\ step[j] = "returned" => scope[SlugOf[j]] = "done"

ScopeInv == ScopeType /\ \A j \in Jobs : AgentInv(j)

\* What a step of the service may do to the disk, and what it may not.
LEMMA ServiceMoves ==
  ASSUME GenInv, [Gen!Next]_Gen!vars
  PROVE  /\ \A s \in Slugs : folder[s] # Nobody => folder'[s] = folder[s]
         /\ \A j \in Jobs : step[j] = "returned" => step'[j] = "returned"
<1>1. ASSUME NEW j \in Jobs, Gen!Step(j)
      PROVE  step[j] = "returned" => step'[j] = "returned"
  BY <1>1 DEF Gen!Step, Gen!Begin, Gen!FindAbsent, Gen!FindOccupied, Gen!MakeStaging,
       Gen!PrepareFails, Gen!Build, Gen!Commit, Gen!Rename, Gen!WorkDone, Gen!TryFails,
       Gen!Clean, Gen!CleanFails, Gen!Trying
<1>2. ASSUME NEW j \in Jobs, Gen!Step(j)
      PROVE  \A s \in Slugs : folder[s] # Nobody => folder'[s] = folder[s]
  BY <1>2, GenStepFrame
<1>3. ASSUME NEW j \in Jobs, Gen!Step(j)
      PROVE  \A k \in Jobs : step[k] = "returned" => step'[k] = "returned"
  BY <1>1, <1>3, GenStepFrame
<1>4. CASE Gen!Crash
  BY <1>4 DEF Gen!Crash, Gen!Busy, Gen!Trying, GenInv, Gen!TypeOK
<1>5. CASE Gen!Restart \/ UNCHANGED Gen!vars
  BY <1>5 DEF Gen!Restart, Gen!vars
<1> QED
  BY <1>2, <1>3, <1>4, <1>5 DEF Gen!Next

\* An agent edits a scope that no run has returned over: were there one, the
\* tree would be of two jobs.
LEMMA EditsOwn ==
  ASSUME GenInv, ScopeInv, NEW j \in Jobs, AgentEdits(j), NEW k \in Jobs, step[k] = "returned"
  PROVE  SlugOf[k] \in Slugs /\ SlugOf[k] # SlugOf[j]
<1>1. folder[SlugOf[j]] = j /\ step[j] # "returned"
  BY DEF ScopeInv, AgentInv, AgentEdits
<1>2. folder[SlugOf[k]] = k /\ SlugOf[k] \in Slugs
  BY DEF GenInv, TreeInv
<1> QED
  BY <1>1, <1>2

LEMMA ScopeNext == GenInv /\ ScopeInv /\ GenInv' /\ [GuardedNext]_guardedVars => ScopeInv'
<1> SUFFICES ASSUME GenInv, ScopeInv, GenInv', [GuardedNext]_guardedVars PROVE ScopeInv'
  OBVIOUS
<1>1. ASSUME NEW j \in Jobs, AgentEdits(j) PROVE ScopeInv'
  <2>1. UNCHANGED <<step, folder, agents>> /\ ScopeType'
    BY <1>1 DEF AgentEdits, factoryVars, disk, ScopeInv, ScopeType
  <2>2. ASSUME NEW k \in Jobs, step[k] = "returned" PROVE scope'[SlugOf[k]] = scope[SlugOf[k]]
    BY <1>1, <2>2, EditsOwn DEF AgentEdits, ScopeInv, ScopeType
  <2> QED
    BY <2>1, <2>2 DEF ScopeInv, AgentInv
<1>2. ASSUME NEW j \in Jobs, RunReturns(j) PROVE ScopeInv'
  <2>1. scope[SlugOf[j]] = "done" /\ UNCHANGED scope /\ agents' = agents \ {j}
    BY <1>2 DEF RunReturns
  <2>2. /\ \A k \in Jobs \ {j} : step'[k] = step[k]
        /\ step'[j] = "returned"
    BY <1>2, GenStepFrame DEF RunReturns, Generate
  <2>3. UNCHANGED folder
    BY <1>2, <2>2 DEF RunReturns, Generate, Gen!Step, Gen!Begin, Gen!FindAbsent,
       Gen!FindOccupied, Gen!MakeStaging, Gen!PrepareFails, Gen!Build, Gen!Commit, Gen!Rename,
       Gen!WorkDone, Gen!TryFails, Gen!Clean, Gen!CleanFails
  <2> QED
    BY <2>1, <2>2, <2>3 DEF ScopeInv, ScopeType, AgentInv
<1>3. CASE ServiceStep
  <2>1. /\ \A s \in Slugs : folder[s] # Nobody => folder'[s] = folder[s]
        /\ \A j \in Jobs : step[j] = "returned" <=> step'[j] = "returned"
    BY <1>3, GeneratorStep, ServiceMoves DEF ServiceStep
  <2>2. /\ scope' = [s \in Slugs |-> IF folder'[s] = folder[s] THEN scope[s] ELSE "open"]
        /\ agents' = agents \cup {j \in Jobs : step'[j] = "working"}
    BY <1>3 DEF ServiceStep
  <2>3. ScopeType'
    BY <2>2 DEF ScopeInv, ScopeType
  <2>4. ASSUME NEW j \in Jobs PROVE AgentInv(j)'
    <3>1. step'[j] = "working" => j \in agents'
      BY <2>2
    <3>2. CASE j \in agents
      <4>1. SlugOf[j] \in Slugs /\ folder[SlugOf[j]] = j /\ step[j] # "returned"
        BY <3>2 DEF ScopeInv, AgentInv
      <4> QED
        BY <2>1, <3>1, <4>1, DirectoryAssumption DEF AgentInv
    <3>3. CASE step'[j] = "working"
      <4>1. SlugOf[j] \in Slugs /\ folder'[SlugOf[j]] = j
        BY <3>3 DEF GenInv, TreeInv, Gen!Busy, Gen!Trying
      <4> QED
        BY <3>1, <3>3, <4>1 DEF AgentInv
    <3>4. CASE j \notin agents /\ step'[j] # "working"
      <4>1. j \notin agents'
        BY <2>2, <3>4
      <4>2. ASSUME step'[j] = "returned" PROVE scope'[SlugOf[j]] = "done"
        <5>1. step[j] = "returned" /\ scope[SlugOf[j]] = "done"
          BY <2>1, <4>2 DEF ScopeInv, AgentInv
        <5>2. SlugOf[j] \in Slugs /\ folder[SlugOf[j]] = j
          BY <5>1 DEF GenInv, TreeInv
        <5> QED
          BY <2>1, <2>2, <5>1, <5>2, DirectoryAssumption
      <4> QED
        BY <3>4, <4>1, <4>2 DEF AgentInv
    <3> QED
      BY <3>2, <3>3, <3>4
  <2> QED
    BY <2>3, <2>4 DEF ScopeInv
<1>4. CASE UNCHANGED guardedVars
  BY <1>4 DEF guardedVars, factoryVars, disk, ScopeInv, ScopeType, AgentInv
<1> QED
  BY <1>1, <1>2, <1>3, <1>4 DEF GuardedNext

LEMMA GuardedInvariance == GuardedSpec => [](GenInv /\ LinkInv /\ ScopeInv)
<1>1. GuardedInit => ScopeInv
  BY DEF GuardedInit, FactoryInit, Gen!Init, ScopeInv, ScopeType, AgentInv
<1> QED
  BY <1>1, ScopeNext, GuardedRefinement, FactoryInvariance, PTL DEF GuardedSpec

\* For any number of jobs, faults and crashes, and whatever the agents do with
\* the scopes: a row that says SUCCEEDED stands for a directory of the job's
\* own in which no task is ready, for ever.
THEOREM SuccessIsComplete == GuardedSpec => []SucceededIsComplete
<1>1. LinkInv /\ ScopeInv /\ SucceededOwnsTree => SucceededIsComplete
  <2> SUFFICES ASSUME LinkInv, ScopeInv, NEW j \in Jobs, row[j] = "SUCCEEDED"
               PROVE  scope[SlugOf[j]] = "done"
    BY DEF SucceededIsComplete
  <2>1. step[j] = "returned"
    BY DEF LinkInv, Linked, Coupled
  <2> QED
    BY <2>1 DEF ScopeInv, AgentInv
<1> QED
  BY <1>1, GuardedInvariance, GuardedRefinement, SuccessIsPublished, PTL

\* The tree of a job is the one under its slug.
LEMMA OwnTree ==
  ASSUME GenInv, NEW j \in Jobs
  PROVE  HasTree(j) <=> SlugOf[j] \in Slugs /\ folder[SlugOf[j]] = j
BY DEF GenInv, TreeInv, HasTree

\* No step of the service touches the scope of a tree: it only brings new
\* ones, whose tasks are ready.
LEMMA ScopesStay ==
  ASSUME GenInv, GenInv', [Gen!Next]_Gen!vars,
         scope' = [s \in Slugs |-> IF folder'[s] = folder[s] THEN scope[s] ELSE "open"]
  PROVE  OwnScope' = OwnScope
<1> SUFFICES ASSUME NEW j \in Jobs
             PROVE  (IF HasTree(j)' THEN scope'[SlugOf[j]] ELSE "open") =
                    (IF HasTree(j) THEN scope[SlugOf[j]] ELSE "open")
  BY DEF OwnScope
<1>1. HasTree(j) <=> SlugOf[j] \in Slugs /\ folder[SlugOf[j]] = j
  BY OwnTree
<1>2. HasTree(j)' <=> SlugOf[j] \in Slugs /\ folder'[SlugOf[j]] = j
  BY DEF GenInv, TreeInv, HasTree
<1>3. \A s \in Slugs : folder[s] # Nobody => folder'[s] = folder[s]
  BY ServiceMoves
<1>4. j # Nobody
  BY DirectoryAssumption
<1>5. SlugOf[j] \in Slugs =>
        scope'[SlugOf[j]] = IF folder'[SlugOf[j]] = folder[SlugOf[j]]
                            THEN scope[SlugOf[j]] ELSE "open"
  OBVIOUS
<1> QED
  BY <1>1, <1>2, <1>3, <1>4, <1>5

\* Where the run of one job stands depends on that job alone.
LEMMA StatusOf ==
  ASSUME NEW j \in Jobs
  PROVE  RunStatus[j] = IF step[j] = "working" THEN "running"
                        ELSE IF step[j] = "returned" THEN "returned"
                        ELSE IF j \in agents THEN "broken" ELSE "waiting"
BY DEF RunStatus

\* What a step of the generator of j is to the guarded run of j.
LEMMA RunMoves ==
  ASSUME GenInv, ScopeInv, NEW j \in Jobs, Gen!Step(j),
         agents' = agents \cup {k \in Jobs : step'[k] = "working"}
  PROVE  \/ RunStatus'[j] = RunStatus[j]
         \/ RunStatus[j] = "waiting" /\ RunStatus'[j] = "running"
         \/ RunStatus[j] = "running" /\ RunStatus'[j] \in {"broken", "returned"}
<1>1. RunStatus'[j] = IF step'[j] = "working" THEN "running"
                      ELSE IF step'[j] = "returned" THEN "returned"
                      ELSE IF j \in agents' THEN "broken" ELSE "waiting"
  BY DEF RunStatus
<1>2. j \in agents' <=> j \in agents \/ step'[j] = "working"
  OBVIOUS
<1>3. \/ step[j] = "renaming" /\ step'[j] = "working"
      \/ step[j] = "working" /\ step'[j] \in {"returned", "cleaning"}
      \/ step[j] \notin {"working", "returned"} /\ step'[j] \notin {"working", "returned"}
  BY DEF Gen!Step, Gen!Begin, Gen!FindAbsent, Gen!FindOccupied, Gen!MakeStaging,
     Gen!PrepareFails, Gen!Build, Gen!Commit, Gen!Rename, Gen!WorkDone, Gen!TryFails,
     Gen!Clean, Gen!CleanFails, Gen!ThrowBare, Gen!ThrowNamed, Gen!Goto, Gen!Trying,
     GenInv, Gen!TypeOK
<1>4. step[j] = "renaming" => j \notin agents
  BY DEF ScopeInv, AgentInv, GenInv, TreeInv
<1>5. step[j] = "working" => j \in agents
  BY DEF ScopeInv, AgentInv
<1> QED
  BY <1>1, <1>2, <1>3, <1>4, <1>5, StatusOf

\* The guarded runs of all jobs, side by side, through faults, crashes and
\* restarts, keep to their contract: none returns over a ready task, and no
\* agent touches a scope that a run has returned over.
THEOREM ServiceContract == GuardedSpec => RunsKeepContract
<1>1. GuardedInit => Runner!Init
  BY DirectoryAssumption
  DEF GuardedInit, FactoryInit, Gen!Init, Runner!Init, Runner!Scope, RunStatus, OwnScope, HasTree
<1>2. GenInv /\ ScopeInv /\ GenInv' /\ [GuardedNext]_guardedVars => [Runner!Next]_(Runner!vars)
  <2> SUFFICES ASSUME GenInv, ScopeInv, GenInv', [GuardedNext]_guardedVars
               PROVE  Runner!Next \/ UNCHANGED <<RunStatus, OwnScope>>
    BY DEF Runner!vars
  <2>0. /\ RunStatus \in [Jobs -> {"waiting", "running", "returned", "broken"}]
        /\ RunStatus' \in [Jobs -> {"waiting", "running", "returned", "broken"}]
    BY DEF RunStatus
  <2>1. OwnScope \in [Jobs -> Runner!Scope]
    BY OwnTree DEF OwnScope, ScopeInv, ScopeType, Runner!Scope
  <2>2. ASSUME UNCHANGED <<step, agents>> PROVE RunStatus' = RunStatus
    BY <2>2 DEF RunStatus
  <2>3. ASSUME NEW j \in Jobs, AgentEdits(j) PROVE Runner!Next
    <3>1. UNCHANGED <<step, folder, agents>>
      BY <2>3 DEF AgentEdits, factoryVars, disk
    <3>2. RunStatus[j] \in {"running", "broken"} /\ UNCHANGED RunStatus
      BY <2>2, <2>3, <3>1, StatusOf DEF AgentEdits, ScopeInv, AgentInv
    <3>3. PICK s \in {"open", "done"} : scope' = [scope EXCEPT ![SlugOf[j]] = s]
      BY <2>3 DEF AgentEdits
    <3>4. SlugOf[j] \in Slugs /\ folder[SlugOf[j]] = j
      BY <2>3 DEF AgentEdits, ScopeInv, AgentInv
    <3>5. \A k \in Jobs : HasTree(k)' = HasTree(k)
      BY <3>1 DEF HasTree
    <3>6. ASSUME NEW k \in Jobs PROVE OwnScope'[k] = IF k = j THEN s ELSE OwnScope[k]
      <4>1. OwnScope'[k] = IF HasTree(k) THEN scope'[SlugOf[k]] ELSE "open"
        BY <3>5 DEF OwnScope
      <4>2. OwnScope[k] = IF HasTree(k) THEN scope[SlugOf[k]] ELSE "open"
        BY DEF OwnScope
      <4>3. HasTree(k) <=> SlugOf[k] \in Slugs /\ folder[SlugOf[k]] = k
        BY OwnTree
      <4>4. scope \in [Slugs -> {"open", "done"}]
        BY DEF ScopeInv, ScopeType
      <4> QED
        BY <3>3, <3>4, <4>1, <4>2, <4>3, <4>4
    <3>7. OwnScope' = [OwnScope EXCEPT ![j] = s]
      BY <2>1, <3>6 DEF OwnScope
    <3> QED
      BY <3>2, <3>7 DEF Runner!Next, Runner!Edit, Runner!Scope
  <2>4. ASSUME NEW j \in Jobs, NEW next,
               \A k \in Jobs : RunStatus'[k] = IF k = j THEN next ELSE RunStatus[k]
        PROVE  RunStatus' = [RunStatus EXCEPT ![j] = next]
    BY <2>0, <2>4
  <2>5. ASSUME NEW j \in Jobs, RunReturns(j) PROVE Runner!Next
    <3>1. /\ step[j] = "working" /\ step'[j] = "returned"
          /\ scope[SlugOf[j]] = "done" /\ UNCHANGED scope
          /\ agents' = agents \ {j} /\ Gen!Step(j)
      BY <2>5 DEF RunReturns, Generate
    <3>2. \A k \in Jobs \ {j} : step'[k] = step[k]
      BY <3>1, GenStepFrame
    <3>3. UNCHANGED folder
      BY <3>1 DEF Gen!Step, Gen!Begin, Gen!FindAbsent, Gen!FindOccupied, Gen!MakeStaging,
         Gen!PrepareFails, Gen!Build, Gen!Commit, Gen!Rename, Gen!WorkDone, Gen!TryFails,
         Gen!Clean, Gen!CleanFails
    <3>4. RunStatus' = [RunStatus EXCEPT ![j] = "returned"]
      BY <2>4, <3>1, <3>2 DEF RunStatus
    <3>5. UNCHANGED OwnScope
      BY <3>1, <3>3 DEF OwnScope, HasTree
    <3>6. RunStatus[j] = "running" /\ OwnScope[j] = "done"
      <4>1. SlugOf[j] \in Slugs /\ folder[SlugOf[j]] = j
        BY <3>1 DEF GenInv, TreeInv, Gen!Busy, Gen!Trying
      <4> QED
        BY <3>1, <4>1, OwnTree, StatusOf DEF OwnScope
    <3> QED
      BY <3>4, <3>5, <3>6 DEF Runner!Next, Runner!Return, Runner!Goto
  <2>6. CASE ServiceStep
    <3>1. /\ [Gen!Next]_Gen!vars
          /\ \A j \in Jobs : step'[j] = "returned" => step[j] = "returned"
          /\ agents' = agents \cup {j \in Jobs : step'[j] = "working"}
          /\ scope' = [s \in Slugs |-> IF folder'[s] = folder[s] THEN scope[s] ELSE "open"]
      BY <2>6, GeneratorStep DEF ServiceStep
    <3>2. UNCHANGED OwnScope
      BY <3>1, ScopesStay
    <3>3. ASSUME NEW j \in Jobs, Gen!Step(j) PROVE Runner!Next \/ UNCHANGED RunStatus
      <4>1. \A k \in Jobs \ {j} : RunStatus'[k] = RunStatus[k]
        <5> SUFFICES ASSUME NEW k \in Jobs \ {j} PROVE RunStatus'[k] = RunStatus[k]
          OBVIOUS
        <5>1. step'[k] = step[k]
          BY <3>3, GenStepFrame
        <5>2. step[k] = "working" => k \in agents
          BY DEF ScopeInv, AgentInv
        <5>3. k \in agents' <=> k \in agents
          BY <3>1, <5>1, <5>2
        <5> QED
          BY <5>1, <5>3 DEF RunStatus
      <4>2. RunStatus' = [RunStatus EXCEPT ![j] = RunStatus'[j]]
        BY <2>4, <4>1
      <4>3. CASE RunStatus'[j] = RunStatus[j]
        BY <2>0, <4>1, <4>3
      <4>4. CASE RunStatus[j] = "waiting" /\ RunStatus'[j] = "running"
        BY <3>2, <4>2, <4>4 DEF Runner!Next, Runner!Start, Runner!Goto
      <4>5. CASE RunStatus[j] = "running" /\ RunStatus'[j] \in {"broken", "returned"}
        <5>1. RunStatus'[j] = "broken"
          BY <3>1, <4>5 DEF RunStatus
        <5>2. OwnScope' = [OwnScope EXCEPT ![j] = OwnScope[j]] /\ OwnScope[j] \in Runner!Scope
          BY <2>1, <3>2
        <5> QED
          BY <4>2, <4>5, <5>1, <5>2 DEF Runner!Next, Runner!Throw, Runner!Goto
      <4> QED
        BY <3>1, <3>3, <4>3, <4>4, <4>5, RunMoves
    <3>4. CASE Gen!Crash
      <4>1. \A j \in Jobs : step'[j] = IF step[j] \in Gen!Busy THEN "lost" ELSE step[j]
        BY <3>4 DEF Gen!Crash
      <4>2. agents' = agents
        BY <3>1, <4>1 DEF Gen!Busy, Gen!Trying
      <4>3. \A j \in Jobs : step[j] = "working" => j \in agents
        BY DEF ScopeInv, AgentInv
      <4>4. RunStatus' = [j \in Jobs |->
              IF RunStatus[j] = "running" THEN "broken" ELSE RunStatus[j]]
        BY <4>1, <4>2, <4>3 DEF RunStatus, Gen!Busy, Gen!Trying
      <4> QED
        BY <3>2, <4>4 DEF Runner!Next, Runner!Lose
    <3>5. CASE Gen!Restart \/ UNCHANGED Gen!vars
      <4>1. UNCHANGED step
        BY <3>5 DEF Gen!Restart, Gen!vars
      <4>2. UNCHANGED agents
        BY <3>1, <4>1 DEF ScopeInv, AgentInv, ScopeType
      <4> QED
        BY <2>2, <3>2, <4>1, <4>2
    <3> QED
      BY <3>1, <3>2, <3>3, <3>4, <3>5 DEF Gen!Next
  <2>7. CASE UNCHANGED guardedVars
    BY <2>2, <2>7 DEF guardedVars, factoryVars, disk, OwnScope, HasTree
  <2> QED
    BY <2>3, <2>5, <2>6, <2>7 DEF GuardedNext
<1> QED
  BY <1>1, <1>2, GuardedInvariance, PTL DEF GuardedSpec, RunsKeepContract, Runner!Spec

=============================================================================
