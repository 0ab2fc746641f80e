------------------------------ MODULE OwnerApi ------------------------------
(***************************************************************************)
(* The Factory API as its clients see it: the create request, the job      *)
(* details, the two lists, and, from ReadNotification, the requests that   *)
(* mark notifications as read.  The database goes through the life that    *)
(* JobLifecycle allows, which is all that JobProcessing does to it.        *)
(*                                                                         *)
(* A client sends one request at a time.  A query reads the database once, *)
(* in one call; its answer is on the way while jobs move on.  A client     *)
(* keeps what it was last shown; nothing else of an answer is kept.        *)
(*                                                                         *)
(* A job has at most one notification (JobLifecycle), so a member of       *)
(* Notices is the id of a job and of the notification about it.            *)
(***************************************************************************)
EXTENDS ReadNotification

CONSTANTS
  Clients,
  UserOf            \* the authenticated user of each client

ASSUME ClientAssumption == UserOf \in [Clients -> Users]

VARIABLES
  status,           \* status[n]: stored state of job n, "NONE" while no row
  type,             \* type[n]: type column of its notification, if any
  asked,            \* asked[c]: the request that c waits for
  answer,           \* answer[c]: what the database has answered to it
  seenJob,          \* seenJob[c][n]: the state in which c was last shown job n
  seenNotice        \* seenNotice[c][n]: the same of the notification

server == <<status, type>>
seen == <<seenJob, seenNotice>>
client == <<asked, answer, seen>>
apiVars == <<vars, server, client>>

Terminal == {"SUCCEEDED", "FAILED"}

\* The inbox that JobLifecycle speaks of.
Stored == [n \in Notices |->
             [t \in Terminal |-> IF readAt[n] # Missing /\ type[n] = t THEN 1 ELSE 0]]

Life == INSTANCE JobLifecycle WITH Jobs <- Notices, notices <- Stored

\* What a client is shown of a notification, and of one that it is not shown.
NotShown == [type |-> "none", isRead |-> FALSE]

\* An answer shows some jobs and some notifications.
Nothing == [jobs |-> <<>>, notices |-> <<>>]

ApiInit ==
  /\ Init
  /\ status = [n \in Notices |-> "NONE"]
  /\ type = [n \in Notices |-> "none"]
  /\ asked = [c \in Clients |-> [path |-> "none"]]
  /\ answer = [c \in Clients |-> Nothing]
  /\ seenJob = [c \in Clients |-> [n \in Notices |-> "NONE"]]
  /\ seenNotice = [c \in Clients |-> [n \in Notices |-> NotShown]]

-----------------------------------------------------------------------------
(***************************************************************************)
(* The service behind the API.                                             *)
(***************************************************************************)

\* A request of another client, or a background task, moves a job on.
MoveJob(n) ==
  /\ UNCHANGED <<vars, type, client>>
  /\ Life!Store(n) \/ Life!Start(n) \/ Life!Finish(n)

\* Deviation: the notification is stored before the job's row.
AnnounceUnsaved(n) ==
  /\ status[n] = "RUNNING"
  /\ Create(n)
  /\ \E t \in Terminal : type' = [type EXCEPT ![n] = t]
  /\ UNCHANGED <<status, client>>

\* The subscriber stores the notification of a terminal job.
Announce(n) ==
  /\ Create(n)
  /\ type' = [type EXCEPT ![n] = status[n]]
  /\ Life!Announce(n)
  /\ UNCHANGED client

\* A read request, of whatever client, and the clock.
Mark(r) == Handle(r) /\ UNCHANGED <<server, client>>
Clock == Tick /\ UNCHANGED <<server, client>>

-----------------------------------------------------------------------------
(***************************************************************************)
(* What a query reads, in one call.                                        *)
(***************************************************************************)

Owns(c, n) == Owner[n] = UserOf[c]

\* The answer to a request for a job that the user does not have: 404.
NotFound == "NONE"

presentGenerationJob(n) == status[n]
presentNotification(n) == [type |-> type[n], isRead |-> readAt[n] # Unread]

\* Deviation: the details of any user's job are served.
jobDetailsOfAny(c, n) == presentGenerationJob(n)

\* Another user's job is not found, and one that is not stored neither.
jobDetails(c, n) ==
  IF status[n] # "NONE" /\ Owns(c, n) THEN presentGenerationJob(n) ELSE NotFound

findManyJobs(c) == {n \in Notices : status[n] # "NONE" /\ Owns(c, n)}
findManyNotifications(c) == {n \in Notices : readAt[n] # Missing /\ Owns(c, n)}

\* A job that a list leaves out is shown as if it were not there.
listJobs(c) ==
  [n \in Notices |-> IF n \in findManyJobs(c) THEN presentGenerationJob(n) ELSE NotFound]

listNotifications(c) ==
  [n \in Notices |-> IF n \in findManyNotifications(c) THEN presentNotification(n)
                                                       ELSE NotShown]

-----------------------------------------------------------------------------
(***************************************************************************)
(* A client's request.                                                     *)
(***************************************************************************)

Send(c) ==
  /\ asked[c].path = "none"
  /\ \E ask \in [path : {"create", "jobs", "notifications"}]
                \cup [path : {"job"}, id : Notices] :
       asked' = [asked EXCEPT ![c] = ask]
  /\ UNCHANGED <<vars, server, answer, seen>>

Answer(c, path, jobs, notices) ==
  /\ asked[c].path = path
  /\ answer[c] = Nothing
  /\ answer' = [answer EXCEPT ![c] = [jobs |-> jobs, notices |-> notices]]
  /\ UNCHANGED <<vars, type, asked, seen>>

Only(n, view) == [k \in {n} |-> view]

\* The new row is stored; the answer shows the job as it was built.
ServeCreate(c) ==
  \E n \in Notices :
    /\ Owns(c, n)
    /\ Answer(c, "create", Only(n, "PENDING"), <<>>)
    /\ Life!Store(n)

ServeDetails(c) ==
  /\ Answer(c, "job", Only(asked[c].id, jobDetails(c, asked[c].id)), <<>>)
  /\ UNCHANGED status

ServeJobs(c) == Answer(c, "jobs", listJobs(c), <<>>) /\ UNCHANGED status

ServeNotifications(c) ==
  Answer(c, "notifications", <<>>, listNotifications(c)) /\ UNCHANGED status

EndRequest(c) ==
  /\ asked' = [asked EXCEPT ![c] = [path |-> "none"]]
  /\ answer' = [answer EXCEPT ![c] = Nothing]
  /\ UNCHANGED <<vars, server>>

\* views with what an answer shows in place of what was shown before.
Updated(views, shown) ==
  [n \in Notices |-> IF n \in DOMAIN shown THEN shown[n] ELSE views[n]]

Deliver(c) ==
  /\ answer[c] # Nothing
  /\ seenJob' = [seenJob EXCEPT ![c] = Updated(@, answer[c].jobs)]
  /\ seenNotice' = [seenNotice EXCEPT ![c] = Updated(@, answer[c].notices)]
  /\ EndRequest(c)

\* The request fails, or its answer is lost.
Lose(c) ==
  /\ asked[c].path # "none"
  /\ EndRequest(c)
  /\ UNCHANGED seen

Client(c) ==
  \/ Send(c) \/ Deliver(c) \/ Lose(c)
  \/ ServeCreate(c) \/ ServeDetails(c) \/ ServeJobs(c) \/ ServeNotifications(c)

ApiNext ==
  \/ \E n \in Notices : MoveJob(n) \/ Announce(n)
  \/ \E r \in Requests : Mark(r)
  \/ Clock
  \/ \E c \in Clients : Client(c)

ApiSpec == ApiInit /\ [][ApiNext]_apiVars

-----------------------------------------------------------------------------
(***************************************************************************)
(* Properties.                                                             *)
(***************************************************************************)

\* How far a job has got.
Progress(state) ==
  CASE state = "NONE" -> 0 [] state = "PENDING" -> 1
    [] state = "RUNNING" -> 2 [] state \in Terminal -> 3

\* A client that asks again and again, for single jobs and for lists, never
\* sees time run backwards: no job that it was shown disappears or returns to
\* an earlier state, no outcome changes, and no notification disappears,
\* changes its type or becomes unread (presentGenerationJob,
\* presentNotification), although answers show what was true when they were
\* read and others read, write back and fail meanwhile.
ViewsAdvance ==
  [][\A c \in Clients, n \in Notices :
       LET state == seenJob[c][n] notice == seenNotice[c][n] IN
       /\ seenJob'[c][n] = state \/ Progress(seenJob'[c][n]) > Progress(state)
       /\ notice # NotShown => seenNotice'[c][n].type = notice.type
       /\ notice.isRead => seenNotice'[c][n].isRead]_seen

\* The news that a client has been shown is true of the database and of every
\* later view: once it has seen the notification about a job, each further
\* answer about that job shows the outcome that the notification told.
NewsIsTrue ==
  \A c \in Clients, n \in Notices :
    seenNotice[c][n] # NotShown =>
      /\ status[n] = seenNotice[c][n].type
      /\ n \in DOMAIN answer[c].jobs => answer[c].jobs[n] = status[n]

\* No client learns anything of another user's jobs and notifications, by
\* whichever path it asks: not their state, and not that they exist.
OnlyOwnJobs ==
  \A c \in Clients, n \in Notices : ~Owns(c, n) =>
    /\ seenJob[c][n] = NotFound /\ seenNotice[c][n] = NotShown
    /\ n \in DOMAIN answer[c].jobs => answer[c].jobs[n] = NotFound
    /\ n \in DOMAIN answer[c].notices => answer[c].notices[n] = NotShown

=============================================================================
