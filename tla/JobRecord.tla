------------------------------ MODULE JobRecord ------------------------------
(***************************************************************************)
(* What a Generation Job holds besides its state (generation-job.ts): the  *)
(* request's texts, where the generated repository is, why the generation  *)
(* failed, and the dates.  The same record is the aggregate's properties   *)
(* and the columns of its row; the two mappers copy it, one of them        *)
(* through the aggregate's own `create`.                                   *)
(*                                                                         *)
(* A text is a word and whether white space surrounds it.  A date is the   *)
(* call that read the clock for it: an aggregate is created, started and   *)
(* completed.                                                              *)
(***************************************************************************)
CONSTANTS
  Words,            \* what texts may say
  Blank,            \* the word of a text without any
  Unexpected,       \* "Generation failed unexpectedly."
  Owners,           \* ids of accounts
  Null              \* a column that is null, an argument that is not given

ASSUME WordAssumption == Blank \notin Words /\ Unexpected \in Words

Text == [word : Words \cup {Blank}, spaces : BOOLEAN]

ASSUME NullAssumption ==
  Null \notin Text \cup {"created", "started", "completed"}

Empty == [word |-> Blank, spaces |-> FALSE]
Plain(w) == [word |-> w, spaces |-> FALSE]

trim(t) == Plain(t.word)

\* A text that has been trimmed and is not empty.
Trimmed == {Plain(w) : w \in Words}

Date == {"created", "started", "completed"}

Columns ==
  [owner : Owners, projectName : Text, projectDescription : Text, notes : Text,
   outputPath : Text \cup {Null}, failureReason : Text \cup {Null},
   repositoryPath : Text \cup {Null}, featureScopeRelativePath : Text \cup {Null},
   startedAt : Date \cup {Null}, completedAt : Date \cup {Null},
   createdAt : Date, updatedAt : Date]

\* Two of the columns, as generate() and its error report them.
Metadata == [repositoryPath : Text \cup {Null}, featureScopeRelativePath : Text \cup {Null}]

\* What a request gives `create`.
RequestProps(owner, body) ==
  [owner |-> owner, projectName |-> body.projectName,
   projectDescription |-> body.projectDescription, notes |-> body.notes,
   outputPath |-> Null, failureReason |-> Null,
   repositoryPath |-> Null, featureScopeRelativePath |-> Null,
   startedAt |-> Null, completedAt |-> Null, createdAt |-> Null, updatedAt |-> Null]

normalizeOptionalText(t) ==
  IF t = Null THEN Null ELSE IF trim(t) = Empty THEN Null ELSE trim(t)

Or(value, default) == IF value = Null THEN default ELSE value

\* The schema of the request's body: z.string().min(1).
isValidBody(body) == body.projectName # Empty /\ body.projectDescription # Empty

\* `create` throws for a name or a description that is empty when trimmed. An
\* owner is never missing: it is the id of the account the guard has loaded.
isMissingText(props) ==
  trim(props.projectName) = Empty \/ trim(props.projectDescription) = Empty

\* Deviation: updatedAt has no default.
createUndated(props) ==
  [props EXCEPT
     !.projectName = trim(@), !.projectDescription = trim(@), !.notes = trim(@),
     !.repositoryPath = normalizeOptionalText(@),
     !.featureScopeRelativePath = normalizeOptionalText(@),
     !.createdAt = Or(@, "created")]

create(props) ==
  [props EXCEPT
     !.projectName = trim(@), !.projectDescription = trim(@), !.notes = trim(@),
     !.repositoryPath = normalizeOptionalText(@),
     !.featureScopeRelativePath = normalizeOptionalText(@),
     !.createdAt = Or(@, "created"),
     !.updatedAt = Or(@, Or(props.createdAt, "created"))]

\* Deviation: the mapper leaves updatedAt to its default.
toDomainForgetful(raw) == create([raw EXCEPT !.updatedAt = Null])

\* A row becomes an aggregate through `create`, which trims again.
toDomainGenerationJob(raw) == create(raw)

start(r) == [r EXCEPT !.startedAt = "started", !.updatedAt = "started"]

\* generate() never reports an empty path, so succeed accepts it.
succeed(r, outputPath, meta) ==
  [r EXCEPT
     !.outputPath = trim(outputPath), !.failureReason = Null,
     !.repositoryPath = Or(normalizeOptionalText(meta.repositoryPath), trim(outputPath)),
     !.featureScopeRelativePath = normalizeOptionalText(meta.featureScopeRelativePath),
     !.completedAt = "completed", !.updatedAt = "completed"]

fail(r, reason, meta) ==
  [r EXCEPT
     !.failureReason = trim(reason), !.outputPath = Null,
     !.repositoryPath = normalizeOptionalText(meta.repositoryPath),
     !.featureScopeRelativePath = normalizeOptionalText(meta.featureScopeRelativePath),
     !.completedAt = "completed", !.updatedAt = "completed"]

\* Deviation: an error's message is the reason as it is.
resolveFailureReasonVerbatim(message) == Or(message, Plain(Unexpected))

\* A thrown value without a message, or with a blank one, gets a default;
\* fail, which throws for an empty reason, therefore never does.
resolveFailureReason(message) ==
  IF message # Null /\ trim(message) # Empty THEN trim(message) ELSE Plain(Unexpected)

\* What the text of a failure notification tells.
failureNotificationContent(r) ==
  [projectName |-> r.projectName, scope |-> r.featureScopeRelativePath,
   reason |-> r.failureReason, repository |-> r.repositoryPath]

successNotificationContent(r) ==
  [projectName |-> r.projectName, scope |-> Null, reason |-> Null, repository |-> Null]

=============================================================================
