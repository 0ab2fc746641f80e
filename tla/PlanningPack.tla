---------------------------- MODULE PlanningPack ----------------------------
(***************************************************************************)
(* The feature scope of a generated repository, from the request to the    *)
(* guarded loop: the generator renders the request's texts into docs/PRD.md*)
(* and, with a section cut out of that, into features/<slug>.md            *)
(* (local-generated-service-generator.ts); GuardedRunner then reads the    *)
(* same file while an agent completes one task per run.  Nothing escapes   *)
(* the texts, and each of them may have several lines.                     *)
(*                                                                         *)
(* Texts and documents are flat sequences of words, since the cut is made  *)
(* in the middle of lines: the line break, what the loop's scan looks for  *)
(* (a `Status: ready`, the start of a `## ` heading), the two headings the *)
(* cut looks for, and "plain" for everything else.  Blanks and blank lines *)
(* are left out, and a run of the generator's own words is one plain word. *)
(***************************************************************************)
EXTENDS GuardedRunner

CONSTANT Requests   \* the requests: the words of their three texts

Word == {"plain", "newline", "status", "heading", "criteria", "testing"}
Text == Seq(Word) \ {<<>>}

ASSUME RequestAssumption ==
  Requests \subseteq [name : Text, description : Text, notes : Text]

VARIABLES
  request,          \* the job's name, description and notes
  completed         \* the internal tasks the agent has marked done

packVars == <<vars, request, completed>>

Tasks == 1 .. 3

-----------------------------------------------------------------------------
(***************************************************************************)
(* Rendering.                                                              *)
(***************************************************************************)

\* A section under a heading of the generator's own.
Section(body) == <<"newline", "heading", "newline">> \o body

\* Deviation: a text ends its line.
WithinLine(t) == <<"plain">> \o t \o <<"newline">>

\* A text in the middle of a sentence.
Within(t) == <<"plain">> \o t \o <<"plain">>

\* A text behind a title or an item's mark, to the end of its line.
Item(t) == <<"plain">> \o t \o <<"newline">>

\* Deviation: the story quotes the description as it is.
Verbatim(t) == t

\* toLowerCase: the PRD's headings are looked for with their capitals.
Lowered(t) ==
  [i \in DOMAIN t |-> IF t[i] \in {"criteria", "testing"} THEN "heading" ELSE t[i]]

\* What the PRD lists under its acceptance criteria.
AcceptanceCriteria(r) ==
  Within(r.name) \o Within(r.description) \o <<"newline">> \o Within(r.notes)

\* renderGeneratedPrdFile, section by section.
GeneratedPrd(r) ==
     <<"plain">>
  \o Section(r.name \o <<"plain">>)
  \o Section(Within(r.name))
  \o Section(Within(r.name) \o Within(Lowered(r.description))
                \o <<"newline">> \o Within(r.notes))
  \o Section(Within(r.name))
  \o <<"newline", "criteria", "newline">> \o AcceptanceCriteria(r)
  \o <<"newline", "testing", "newline", "plain">>
  \o Section(<<"plain">>) \o Section(<<"plain">>)
  \o Section(Item(r.description) \o Item(r.notes))

\* indexOf: the first place of the heading, at the start of a line or not.
IndexOf(doc, h) ==
  CHOOSE i \in DOMAIN doc :
    doc[i] = h /\ \A k \in 1 .. i - 1 : doc[k] # h

\* extractSection between the two headings: both are in every PRD, and the
\* first of each need not be the PRD's own.  What follows the one and what
\* precedes the other on its line is kept.  The trim takes blank ends away,
\* where the scope has blank lines of its own.
extractSection(doc) ==
  LET start == IndexOf(doc, "criteria")
      end == IndexOf(doc, "testing")
  IN  IF end <= start THEN <<"plain">> ELSE SubSeq(doc, start + 1, end - 1)

Status(done) == IF done THEN "plain" ELSE "status"

\* Deviation: the last task waits until somebody makes it ready.
TaskWaiting(t, done, body) ==
  Section(<<Status(t \in done \/ t = 3), "newline">> \o body)

\* A task: its heading, its status, its objective and notes.
Task(t, done, body) == Section(<<Status(t \in done), "newline">> \o body)

\* renderFeatureScopeFile, later edited by the agent: the scope's own status
\* is to be set with the last task (line 489).
ScopeHead(r, done) ==
     Item(r.name) \o <<Status(done = Tasks)>>
  \o Section(Within(r.name))
  \o Section(Item(r.description) \o Item(r.notes))
  \o Section(<<"plain">>)
  \o Section(extractSection(GeneratedPrd(r)))
  \o Section(<<"plain">>)

TaskList(r, done) ==
     Task(1, done, Within(r.name) \o Within(r.notes))
  \o Task(2, done, Within(r.notes))
  \o Task(3, done, <<"plain">>)

FeatureScope(r, done) == ScopeHead(r, done) \o TaskList(r, done)

\* The file as the loop scans it: a heading is one where a line starts, and a
\* status where it has the line to itself; no other word makes a difference.
StartsLine(doc, i) == i = 1 \/ doc[i - 1] = "newline"
EndsLine(doc, i) == i = Len(doc) \/ doc[i + 1] = "newline"

LineAt(doc, i) ==
  IF doc[i] \in {"heading", "criteria", "testing"} /\ StartsLine(doc, i)
  THEN "heading"
  ELSE IF doc[i] = "status" /\ StartsLine(doc, i) /\ EndsLine(doc, i)
  THEN "ready"
  ELSE "other"

FileOf(r, done) ==
  LET scope == FeatureScope(r, done)
  IN  [i \in DOMAIN scope |-> LineAt(scope, i)]

\* GuardedRunner's files are these, marked in any order.
ASSUME PackAssumption ==
  \A r \in Requests :
    /\ FileOf(r, {}) \in FirstScopes
    /\ \A done \in SUBSET Tasks : FileOf(r, done) \in Scopes

-----------------------------------------------------------------------------
(***************************************************************************)
(* The guarded loop on that file.                                          *)
(***************************************************************************)

\* writeGeneratedWorkspaceFiles has written the scope.
PackInit ==
  /\ request \in Requests
  /\ completed = {}
  /\ file = FileOf(request, {})
  /\ Init

\* The agent does as AGENTS.md and WORKFLOW.md tell it: one ready internal
\* task, marked in the scope.
CompleteTask ==
  /\ \E t \in Tasks \ completed : completed' = completed \cup {t}
  /\ file' = FileOf(request, completed')
  /\ AgentExits
  /\ UNCHANGED request

\* It ends well without completing one.
CompleteNothing ==
  /\ file' = file
  /\ AgentExits
  /\ UNCHANGED <<request, completed>>

GiveUp ==
  /\ file' = file
  /\ AgentFails
  /\ UNCHANGED <<request, completed>>

\* The loop's own steps.
Look == (Check \/ Compare) /\ UNCHANGED <<request, completed>>

PackNext == CompleteTask \/ CompleteNothing \/ GiveUp \/ Look

PackSpec == PackInit /\ [][PackNext]_packVars /\ WF_packVars(Look)

-----------------------------------------------------------------------------
(***************************************************************************)
(* Properties.                                                             *)
(***************************************************************************)

Quotes(t, h) == \E i \in DOMAIN t : t[i] = h

\* A status on a line of its own, below the text's first: that one is behind
\* something else wherever the scope has the text.
StatusLineAt(t, i) == i > 1 /\ t[i] = "status" /\ StartsLine(t, i) /\ EndsLine(t, i)
StatusLine(t) == \E i \in DOMAIN t : StatusLineAt(t, i)

\* The texts leave a status line.  The name has a whole last line only in the
\* scope's title, where the scan wants a heading before it.
TextLeavesStatus(r) ==
  \/ StatusLine(r.description) \/ StatusLine(r.notes)
  \/ StatusLine(r.name \o <<"plain">>)
  \/ \E k, i \in DOMAIN r.name :
       1 < k /\ k < i /\ LineAt(r.name, k) = "heading" /\ StatusLineAt(r.name, i)

\* The text has the criteria heading before any testing heading; and what
\* follows the first of the two on its line, up to the cut, is a status.
CriteriaFirst(t) ==
  \E p \in DOMAIN t : t[p] = "criteria" /\ \A k \in 1 .. p : t[k] # "testing"
OpensWithStatus(t) ==
  \E p \in DOMAIN t :
    /\ t[p] = "criteria" /\ \A k \in 1 .. p - 1 : t[k] \notin {"criteria", "testing"}
    /\ p + 2 <= Len(t) /\ t[p + 1] = "status" /\ t[p + 2] \in {"newline", "testing"}

\* What precedes the text's first testing heading on its line is a status.
ClosesWithStatus(t) ==
  \E q \in DOMAIN t :
    /\ t[q] = "testing" /\ \A k \in 1 .. q - 1 : t[k] # "testing"
    /\ q > 2 /\ t[q - 1] = "status" /\ t[q - 2] = "newline"

\* The cut leaves one, of a line that holds a quoted heading too: the PRD has
\* name, notes and its own first heading in this order, then the description
\* as it is, and its own second heading.
CutLeavesStatus(r) ==
  \/ OpensWithStatus(r.name)
  \/ CriteriaFirst(r.name) /\ ClosesWithStatus(r.name)
  \/ /\ ~Quotes(r.name, "testing")
     /\ \/ ~Quotes(r.name, "criteria") /\ OpensWithStatus(r.notes)
        \/ /\ Quotes(r.name, "criteria") \/ CriteriaFirst(r.notes)
           /\ ClosesWithStatus(r.notes)
        \/ ~Quotes(r.notes, "testing") /\ ClosesWithStatus(r.description)

\* The request's own words make a ready status in the scope.
LeavesStatus(r) == TextLeavesStatus(r) \/ CutLeavesStatus(r)

\* Whatever lines the request has, none of them hides a task from the loop:
\* it returns, and the job succeeds, only with all three tasks done.
ReturnedMeansAllDone == pc = "returned" => completed = Tasks

\* The scan is exact: it finds a ready task while one of the three is open or
\* the request itself leaves a status line, whole or cut, and not else.
ScanIsExact ==
  hasReadyInternalTask(file) <=> (completed # Tasks \/ LeavesStatus(request))

\* When the agent has done the last task of a request that leaves no status
\* line, whole or cut, the loop returns: neither the stall test nor the bound on the
\* iterations fails such a job.
CompletedIsAccepted ==
  (pc = "compare" /\ completed = Tasks /\ ~LeavesStatus(request)) ~> (pc = "returned")

\* The scope's criteria mapping is the PRD's list exactly when name and notes
\* quote neither heading and the description does not quote the second: user
\* text before the PRD's own headings is found first.
CriteriaSurvive ==
  extractSection(GeneratedPrd(request))
      = <<"newline">> \o AcceptanceCriteria(request) \o <<"newline">>
    <=> /\ \A h \in {"criteria", "testing"} :
             ~Quotes(request.name, h) /\ ~Quotes(request.notes, h)
        /\ ~Quotes(request.description, "testing")

\* The agent is started only until the scope's tasks are done
\* (docs/PRD.md:85), whatever the texts of the request say.
RunsOnlyForTasks == pc = "run" => completed # Tasks

=============================================================================
