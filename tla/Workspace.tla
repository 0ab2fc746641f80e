------------------------------ MODULE Workspace ------------------------------
(***************************************************************************)
(* The generator and the workspace root it shares with every other task    *)
(* (local-generated-service-generator.ts): jobs whose names give the same  *)
(* slug race for one final directory.  Each checks that it is absent,      *)
(* builds a staging tree of its own, renames it into place and lets the    *)
(* guarded runner work there.  The check and the rename are far apart; the *)
(* rename is the step that decides.  A crash of the process stops every    *)
(* generation and leaves the disk as it is.                                *)
(***************************************************************************)
EXTENDS Naturals, FiniteSets

CONSTANTS
  Jobs,
  Slugs,            \* the directory names that job names normalize to
  NoSlug,           \* a name without a letter or digit has none
  SlugOf,           \* the slug of each job's project name
  Nobody,           \* a directory that is not there
  Stranger          \* one that no job made

ASSUME SlugAssumption == NoSlug \notin Slugs /\ SlugOf \in [Jobs -> Slugs \cup {NoSlug}]
ASSUME OwnerAssumption == Nobody \notin Jobs /\ Stranger \notin Jobs /\ Nobody # Stranger

VARIABLES
  up,               \* the process runs
  pc,               \* where generate() of each job stands
  folder,           \* folder[s]: whose tree is <root>/s; a job, Stranger or Nobody
  staging,          \* the jobs whose .tmp-<slug>-XXXXXX tree is on disk
  metadata          \* the jobs whose error names repository and scope

vars == <<up, pc, folder, staging, metadata>>

\* "returned", "failed" and "lost" (with the process) are final.
Trying == {"building", "committing", "renaming", "working"}
Busy == {"checking", "reserving", "cleaning"} \cup Trying
PC == {"idle", "returned", "failed", "lost"} \cup Busy

TypeOK ==
  /\ up \in BOOLEAN
  /\ pc \in [Jobs -> PC]
  /\ folder \in [Slugs -> Jobs \cup {Nobody, Stranger}]
  /\ staging \subseteq Jobs
  /\ metadata \subseteq Jobs

Init ==
  /\ up = TRUE
  /\ pc = [j \in Jobs |-> "idle"]
  /\ folder \in [Slugs -> {Nobody, Stranger}]
  /\ staging = {}
  /\ metadata = {}

Goto(j, next) == pc' = [pc EXCEPT ![j] = next]

\* An error from before the try block, or from the cleanup: a plain Error.
ThrowBare(j) == Goto(j, "failed") /\ UNCHANGED metadata

\* Deviation: the error is filed under the directory's name.
ThrowNamedBySlug(j) == Goto(j, "failed") /\ metadata' = metadata \cup {SlugOf[j]}

\* A GeneratedServiceGenerationError.
ThrowNamed(j) == Goto(j, "failed") /\ metadata' = metadata \cup {j}

\* generate() normalizes the name and creates the workspace root. A slug of
\* letters, digits and dashes cannot escape the root, so the check for that
\* never fires.
Begin(j) ==
  /\ up
  /\ pc[j] = "idle"
  /\ IF SlugOf[j] = NoSlug
     THEN ThrowBare(j)
     ELSE Goto(j, "checking") /\ UNCHANGED metadata
  /\ UNCHANGED <<up, folder, staging>>

\* pathExists says no: the name is free, or access(2) failed for any reason.
FindAbsent(j) ==
  /\ pc[j] = "checking"
  /\ Goto(j, "reserving")
  /\ UNCHANGED <<up, folder, staging, metadata>>

\* pathExists says yes: an occupied name fails the job.
FindOccupied(j) ==
  /\ pc[j] = "checking"
  /\ folder[SlugOf[j]] # Nobody
  /\ ThrowNamed(j)
  /\ UNCHANGED <<up, folder, staging>>

\* mkdtemp.
MakeStaging(j) ==
  /\ pc[j] = "reserving"
  /\ staging' = staging \cup {j}
  /\ Goto(j, "building")
  /\ UNCHANGED <<up, folder, metadata>>

\* mkdir or mkdtemp fails.
PrepareFails(j) ==
  /\ pc[j] \in {"checking", "reserving"}
  /\ ThrowBare(j)
  /\ UNCHANGED <<up, folder, staging>>

\* Copy the template and write the planning pack into the staging tree.
Build(j) ==
  /\ pc[j] = "building"
  /\ Goto(j, "committing")
  /\ UNCHANGED <<up, folder, staging, metadata>>

\* git init, add and commit there.
Commit(j) ==
  /\ pc[j] = "committing"
  /\ Goto(j, "renaming")
  /\ UNCHANGED <<up, folder, staging, metadata>>

\* Deviation: the tree is moved over whatever is there.
RenameOver(j) ==
  /\ pc[j] = "renaming"
  /\ folder' = [folder EXCEPT ![SlugOf[j]] = j]
  /\ staging' = staging \ {j}
  /\ Goto(j, "working")
  /\ UNCHANGED <<up, metadata>>

\* Deviation: a directory that appeared meanwhile is taken for one's own.
RenameIfAbsent(j) ==
  /\ pc[j] = "renaming"
  /\ IF folder[SlugOf[j]] = Nobody
     THEN folder' = [folder EXCEPT ![SlugOf[j]] = j]
     ELSE UNCHANGED folder
  /\ staging' = staging \ {j}
  /\ Goto(j, "working")
  /\ UNCHANGED <<up, metadata>>

\* rename(2) of the staging tree: atomic, and refused by a directory that is
\* not empty, which a generated one never is.
Rename(j) ==
  /\ pc[j] = "renaming"
  /\ IF folder[SlugOf[j]] = Nobody
     THEN /\ folder' = [folder EXCEPT ![SlugOf[j]] = j]
          /\ staging' = staging \ {j}
          /\ Goto(j, "working")
     ELSE /\ Goto(j, "cleaning")
          /\ UNCHANGED <<folder, staging>>
  /\ UNCHANGED <<up, metadata>>

\* The guarded runner returns.
WorkDone(j) ==
  /\ pc[j] = "working"
  /\ Goto(j, "returned")
  /\ UNCHANGED <<up, folder, staging, metadata>>

\* Deviation: an error of the guarded runner leaves generate() as it is.
TryFailsBare(j) ==
  /\ pc[j] \in Trying
  /\ IF pc[j] = "working"
     THEN ThrowBare(j)
     ELSE Goto(j, "cleaning") /\ UNCHANGED metadata
  /\ UNCHANGED <<up, folder, staging>>

\* Any step of the try block throws: copy, write, git, rename, runner.
TryFails(j) ==
  /\ pc[j] \in Trying
  /\ Goto(j, "cleaning")
  /\ UNCHANGED <<up, folder, staging, metadata>>

\* Deviation: the catch block only wraps the error.
CleanNothing(j) ==
  /\ pc[j] = "cleaning"
  /\ ThrowNamed(j)
  /\ UNCHANGED <<up, folder, staging>>

\* The catch block: remove the staging tree by its old name, throw.
Clean(j) ==
  /\ pc[j] = "cleaning"
  /\ staging' = staging \ {j}
  /\ ThrowNamed(j)
  /\ UNCHANGED <<up, folder>>

\* Removing a tree that is there may fail, and that error replaces the one
\* being handled. With { force: true } an absent tree is no error.
CleanFails(j) ==
  /\ pc[j] = "cleaning"
  /\ j \in staging
  /\ ThrowBare(j)
  /\ UNCHANGED <<up, folder, staging>>

\* The process ends; no generation is resumed after it.
Crash ==
  /\ up
  /\ up' = FALSE
  /\ pc' = [j \in Jobs |-> IF pc[j] \in Busy THEN "lost" ELSE pc[j]]
  /\ UNCHANGED <<folder, staging, metadata>>

Restart ==
  /\ ~up
  /\ up' = TRUE
  /\ UNCHANGED <<pc, folder, staging, metadata>>

Step(j) ==
  \/ Begin(j) \/ FindAbsent(j) \/ FindOccupied(j) \/ MakeStaging(j) \/ PrepareFails(j)
  \/ Build(j) \/ Commit(j) \/ Rename(j) \/ WorkDone(j) \/ TryFails(j)
  \/ Clean(j) \/ CleanFails(j)

Next == (\E j \in Jobs : Step(j)) \/ Crash \/ Restart

Spec == Init /\ [][Next]_vars

-----------------------------------------------------------------------------
(***************************************************************************)
(* Properties.                                                             *)
(***************************************************************************)

\* A directory in the workspace is never overwritten, moved or shared: whoever
\* made it, a job or a stranger, it stays theirs (docs/PRD.md:60).
FolderIsFinal ==
  [][\A s \in Slugs : folder[s] # Nobody => folder'[s] = folder[s]]_folder

\* Directories are claimed: each appears once, complete, under the slug of the
\* job that made it and for good, through all the checks, staging trees,
\* failures, crashes and restarts around the one step that decides.
Directories == INSTANCE Claims WITH
  Names <- Slugs, Claimants <- Jobs, Wishes <- Slugs \cup {NoSlug},
  Free <- Nobody, Squatters <- {Stranger}, holder <- folder, wanted <- SlugOf
ImplementsClaims == Directories!Spec

\* A generation that returns, and lets its job succeed, owns the directory it
\* reports, so of the jobs that share a slug at most one ever succeeds,
\* although several may pass the existence check.
ReturnedOwnsFolder ==
  \A j \in Jobs : pc[j] = "returned" => folder[SlugOf[j]] = j

\* A generation that ended with a named error has left no staging tree, and
\* one that published its tree has none either.
StagingIsTemporary ==
  \A j \in staging :
    /\ pc[j] \in (Trying \ {"working"}) \cup {"cleaning", "failed", "lost"}
    /\ j \notin metadata
    /\ SlugOf[j] # NoSlug /\ folder[SlugOf[j]] # j

\* A failed generation whose tree stays in the workspace says where: its
\* error carries the repository path that the job's row and the notification
\* show, whichever step failed.
LeftoverIsNamed ==
  \A j \in Jobs :
    pc[j] = "failed" /\ (\E s \in Slugs : folder[s] = j) => j \in metadata

=============================================================================
