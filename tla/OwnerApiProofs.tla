---------------------------- MODULE OwnerApiProofs ----------------------------
(***************************************************************************)
(* OwnerApi, proved for any number of clients, users, jobs and read        *)
(* requests.  The stored state only moves on (Grows); what a client has    *)
(* been shown, and what is on the way to it, lags behind the store by no   *)
(* more than its progress, and what is on the way does not lag behind what *)
(* was shown.                                                              *)
(***************************************************************************)
EXTENDS OwnerApi, ReadNotificationProofs

State == {"NONE", "PENDING", "RUNNING"} \cup Terminal

Ahead(later, earlier) == later = earlier \/ Progress(later) > Progress(earlier)

\* A stored notification tells the outcome of its job.
NewsInv ==
  /\ status \in [Notices -> State]
  /\ type \in [Notices -> Terminal \cup {"none"}]
  /\ \A n \in Notices : readAt[n] # Missing => status[n] \in Terminal /\ type[n] = status[n]

\* A view of job n, and of the notification about it, that c may have.
ShownJob(c, n, view) ==
  /\ view \in State
  /\ Ahead(status[n], view)
  /\ ~Owns(c, n) => view = NotFound

ShownNotice(c, n, view) ==
  /\ view \in [type : Terminal \cup {"none"}, isRead : BOOLEAN]
  /\ view # NotShown => Owns(c, n) /\ readAt[n] # Missing /\ view.type = type[n]
  /\ view.isRead => Read(n)

SeenInv(c) ==
  \A n \in Notices : ShownJob(c, n, seenJob[c][n]) /\ ShownNotice(c, n, seenNotice[c][n])

\* A view that may follow another.
LaterNotice(new, old) ==
  /\ old # NotShown => new.type = old.type
  /\ old.isRead => new.isRead

AnswerInv(c) ==
  /\ \A n \in Notices : n \in DOMAIN answer[c].jobs =>
       LET view == answer[c].jobs[n] IN
       /\ ShownJob(c, n, view)
       /\ Ahead(view, seenJob[c][n])
       /\ seenNotice[c][n] # NotShown => view = status[n]
  /\ \A n \in Notices : n \in DOMAIN answer[c].notices =>
       LET view == answer[c].notices[n] IN
       ShownNotice(c, n, view) /\ LaterNotice(view, seenNotice[c][n])

ClientTypes ==
  /\ answer = [c \in Clients |-> answer[c]]
  /\ seenJob \in [Clients -> [Notices -> State]]
  /\ seenNotice \in [Clients -> [Notices -> [type : Terminal \cup {"none"}, isRead : BOOLEAN]]]

ApiInv == NewsInv /\ ClientTypes /\ \A c \in Clients : SeenInv(c) /\ AnswerInv(c)

-----------------------------------------------------------------------------

LEMMA AheadFacts ==
  /\ \A a \in State : Ahead(a, "NONE") /\ Ahead(a, a)
  /\ \A a \in State : Ahead("NONE", a) => a = "NONE"
  /\ \A a, b, c \in State : Ahead(a, b) /\ Ahead(b, c) => Ahead(a, c)
  /\ \A a \in State : \A b \in Terminal : Ahead(a, b) => a = b
<1>1. \A a \in State :
        /\ Progress(a) \in 0 .. 3
        /\ Progress(a) = 0 <=> a = "NONE"
        /\ a \in Terminal => Progress(a) = 3
  BY DEF State, Progress, Terminal
<1>2. Terminal \subseteq State /\ "NONE" \in State
  BY DEF State
<1> QED
  BY <1>1, <1>2 DEF Ahead

LEMMA NothingShown == DOMAIN Nothing.jobs = {} /\ DOMAIN Nothing.notices = {}
BY DEF Nothing

\* The service behind the API implements ReadNotification: whatever its clients
\* and its tasks do, every step is one of a read request, of the subscriber's
\* insert or of the clock there, or leaves the readings alone.
THEOREM ReadingRefinement == ApiSpec => Spec
<1>1. ApiInit => Init
  BY DEF ApiInit
<1>2. [ApiNext]_apiVars => [Next]_vars
  <2> SUFFICES ASSUME [ApiNext]_apiVars PROVE [Next]_vars
    OBVIOUS
  <2>1. ASSUME NEW n \in Notices, MoveJob(n) \/ Announce(n) PROVE [Next]_vars
    BY <2>1 DEF MoveJob, Announce, Next
  <2>2. ASSUME NEW r \in Requests, Mark(r) PROVE Next
    BY <2>2 DEF Mark, Next
  <2>3. ASSUME NEW c \in Clients, Client(c) PROVE UNCHANGED vars
    BY <2>3 DEF Client, Send, Deliver, Lose, EndRequest, Answer, ServeCreate,
                ServeDetails, ServeJobs, ServeNotifications
  <2>4. CASE Clock \/ UNCHANGED apiVars
    BY <2>4 DEF Clock, Next, apiVars
  <2> QED
    BY <2>1, <2>2, <2>3, <2>4 DEF ApiNext
<1> QED
  BY <1>1, <1>2, PTL DEF ApiSpec, Spec

LEMMA ReadingInvariance == ApiSpec => []IInv
BY ReadingRefinement, Invariance, PTL

LEMMA ApiInitInv == ApiInit => ApiInv
<1> SUFFICES ASSUME ApiInit PROVE ApiInv
  OBVIOUS
<1>1. NewsInv
  BY DEF ApiInit, Init, NewsInv, State
<1>2. ClientTypes
  BY DEF ApiInit, ClientTypes, State, NotShown
<1>3. ASSUME NEW c \in Clients PROVE SeenInv(c) /\ AnswerInv(c)
  <2>1. SeenInv(c)
    BY AheadFacts DEF ApiInit, SeenInv, ShownJob, ShownNotice, NotShown, NotFound, State
  <2>2. AnswerInv(c)
    BY NothingShown DEF ApiInit, AnswerInv
  <2> QED
    BY <2>1, <2>2
<1> QED
  BY <1>1, <1>2, <1>3 DEF ApiInv

-----------------------------------------------------------------------------
(***************************************************************************)
(* The store moves on, whoever takes the step.                             *)
(***************************************************************************)

Grows ==
  \A n \in Notices :
    /\ Ahead(status'[n], status[n])
    /\ readAt[n] # Missing => readAt'[n] # Missing /\ type'[n] = type[n]
    /\ Read(n) => Read(n)'

LEMMA Still ==
  ASSUME NewsInv, UNCHANGED <<vars, server>>
  PROVE  NewsInv' /\ Grows
BY AheadFacts DEF NewsInv, Grows, vars, server, Read

LEMMA StoreGrows ==
  ASSUME NewsInv, NEW n \in Notices, UNCHANGED <<vars, type>>,
         Life!Store(n) \/ Life!Start(n) \/ Life!Finish(n)
  PROVE  NewsInv' /\ Grows
<1>1. PICK to \in State : /\ status' = [status EXCEPT ![n] = to]
                          /\ Progress(to) > Progress(status[n])
                          /\ status[n] \notin Terminal
  BY DEF Life!Store, Life!Start, Life!Finish, Life!Move, Life!Terminal, State, Terminal, Progress
<1> QED
  BY <1>1, AheadFacts DEF NewsInv, Grows, vars, Read, Ahead

LEMMA AnnounceGrows ==
  ASSUME NewsInv, IInv, NEW n \in Notices, Announce(n)
  PROVE  NewsInv' /\ Grows
<1>1. /\ status[n] \in Terminal /\ UNCHANGED status
      /\ type' = [type EXCEPT ![n] = status[n]]
      /\ readAt[n] = Missing /\ readAt' = [readAt EXCEPT ![n] = Unread]
  BY DEF Announce, Create, Life!Announce, Life!Terminal, Terminal
<1>2. readAt \in [Notices -> Time \cup {Unread, Missing}]
  BY DEF IInv, TypeOK
<1> QED
  BY <1>1, <1>2, AheadFacts DEF NewsInv, Grows, Read

LEMMA MarkGrows ==
  ASSUME NewsInv, IInv, NEW r \in Requests, Mark(r)
  PROVE  NewsInv' /\ Grows
<1>1. UNCHANGED <<status, type>>
  BY DEF Mark, server
<1>2. \A n \in Notices : \/ readAt'[n] = readAt[n]
                         \/ readAt[n] # Missing /\ Read(n)'
  BY HandleFrame DEF Mark
<1> QED
  BY <1>1, <1>2, AheadFacts DEF NewsInv, Grows, Read

LEMMA ApiGrows ==
  ASSUME NewsInv, IInv, [ApiNext]_apiVars
  PROVE  NewsInv' /\ Grows
<1>1. ASSUME NEW n \in Notices, MoveJob(n) \/ Announce(n) PROVE NewsInv' /\ Grows
  BY <1>1, StoreGrows, AnnounceGrows DEF MoveJob
<1>2. ASSUME NEW r \in Requests, Mark(r) PROVE NewsInv' /\ Grows
  BY <1>2, MarkGrows
<1>3. CASE Clock
  BY <1>3, AheadFacts DEF Clock, Tick, server, NewsInv, Grows, Read
<1>4. ASSUME NEW c \in Clients, Client(c) PROVE NewsInv' /\ Grows
  <2>1. CASE ServeCreate(c)
    BY <2>1, StoreGrows DEF ServeCreate, Answer
  <2>2. CASE ~ServeCreate(c)
    BY <1>4, <2>2, Still DEF Client, Send, Deliver, Lose, EndRequest, Answer,
       ServeDetails, ServeJobs, ServeNotifications, server
  <2> QED
    BY <2>1, <2>2
<1>5. CASE UNCHANGED apiVars
  BY <1>5, Still DEF apiVars
<1> QED
  BY <1>1, <1>2, <1>3, <1>4, <1>5 DEF ApiNext

-----------------------------------------------------------------------------
(***************************************************************************)
(* What a client has seen, and what is on the way to it, stays true.       *)
(***************************************************************************)

LEMMA JobViewStays ==
  ASSUME NewsInv, NewsInv', Grows, NEW c \in Clients, NEW n \in Notices, NEW view,
         ShownJob(c, n, view)
  PROVE  ShownJob(c, n, view)'
<1>1. status[n] \in State /\ status'[n] \in State /\ Ahead(status'[n], status[n])
  BY DEF NewsInv, Grows
<1>2. view \in State /\ Ahead(status[n], view)
  BY DEF ShownJob
<1>3. Ahead(status'[n], view)
  BY <1>1, <1>2, AheadFacts
<1> QED
  BY <1>2, <1>3 DEF ShownJob

LEMMA NoticeViewStays ==
  ASSUME Grows, NEW c \in Clients, NEW n \in Notices, NEW view, ShownNotice(c, n, view)
  PROVE  ShownNotice(c, n, view)'
BY DEF ShownNotice, Grows

LEMMA SeenStays ==
  ASSUME NewsInv, NewsInv', Grows, NEW c \in Clients, SeenInv(c),
         seenJob'[c] = seenJob[c], seenNotice'[c] = seenNotice[c]
  PROVE  SeenInv(c)'
<1> SUFFICES ASSUME NEW n \in Notices
             PROVE  (ShownJob(c, n, seenJob[c][n]) /\ ShownNotice(c, n, seenNotice[c][n]))'
  BY DEF SeenInv
<1> DEFINE job == seenJob[c][n]
           notice == seenNotice[c][n]
<1>1. ShownJob(c, n, job) /\ ShownNotice(c, n, notice)
  BY DEF SeenInv
<1>2. ShownJob(c, n, job)' /\ ShownNotice(c, n, notice)'
  BY <1>1, JobViewStays, NoticeViewStays DEF ShownJob, ShownNotice
<1> QED
  BY <1>2 DEF ShownJob, ShownNotice

\* A notification that was shown tells a state that does not change any more.
LEMMA OutcomeStays ==
  ASSUME NewsInv, NewsInv', Grows, NEW c \in Clients, NEW n \in Notices, SeenInv(c),
         seenNotice[c][n] # NotShown
  PROVE  /\ status'[n] = status[n] /\ status[n] \in Terminal /\ Owns(c, n)
         /\ seenNotice[c][n].type = status[n]
<1>1. /\ readAt[n] # Missing /\ seenNotice[c][n].type = type[n] /\ Owns(c, n)
  BY DEF SeenInv, ShownNotice
<1>2. status[n] \in Terminal /\ type[n] = status[n]
  BY <1>1 DEF NewsInv
<1>3. status'[n] \in State /\ Ahead(status'[n], status[n])
  BY DEF NewsInv, Grows
<1> QED
  BY <1>1, <1>2, <1>3, AheadFacts

LEMMA AnswerStays ==
  ASSUME NewsInv, NewsInv', Grows, NEW c \in Clients, SeenInv(c), AnswerInv(c),
         answer'[c] = answer[c], seenJob'[c] = seenJob[c], seenNotice'[c] = seenNotice[c]
  PROVE  AnswerInv(c)'
<1>1. ASSUME NEW n \in Notices, n \in DOMAIN answer[c].jobs
      PROVE  LET view == answer[c].jobs[n] IN
             /\ ShownJob(c, n, view)'
             /\ Ahead(view, seenJob[c][n])
             /\ seenNotice[c][n] # NotShown => view = status'[n]
  BY <1>1, JobViewStays, OutcomeStays DEF AnswerInv
<1>2. ASSUME NEW n \in Notices, n \in DOMAIN answer[c].notices
      PROVE  LET view == answer[c].notices[n] IN
             ShownNotice(c, n, view)' /\ LaterNotice(view, seenNotice[c][n])
  BY <1>2, NoticeViewStays DEF AnswerInv
<1> QED
  BY <1>1, <1>2 DEF AnswerInv, ShownJob, ShownNotice

\* A client that takes no step.
LEMMA ClientStays ==
  ASSUME NewsInv, NewsInv', Grows, NEW c \in Clients, SeenInv(c), AnswerInv(c),
         answer'[c] = answer[c], seenJob'[c] = seenJob[c], seenNotice'[c] = seenNotice[c]
  PROVE  SeenInv(c)' /\ AnswerInv(c)'
BY SeenStays, AnswerStays

-----------------------------------------------------------------------------
(***************************************************************************)
(* The answers.                                                            *)
(***************************************************************************)

\* A fresh view of job n: what the store holds, or nothing.
LEMMA FreshJob ==
  ASSUME NewsInv, NEW c \in Clients, SeenInv(c), NEW n \in Notices
  PROVE  LET view == IF status[n] # "NONE" /\ Owns(c, n)
                     THEN presentGenerationJob(n) ELSE NotFound
         IN  /\ ShownJob(c, n, view)
             /\ Ahead(view, seenJob[c][n])
             /\ seenNotice[c][n] # NotShown => view = status[n]
<1>1. status[n] \in State /\ "NONE" \in State
  BY DEF NewsInv, State
<1>2. /\ seenJob[c][n] \in State /\ Ahead(status[n], seenJob[c][n])
      /\ ~Owns(c, n) => seenJob[c][n] = "NONE"
      /\ seenNotice[c][n] # NotShown => Owns(c, n) /\ status[n] \in Terminal
  BY DEF SeenInv, ShownJob, ShownNotice, NewsInv, NotFound
<1>3. CASE status[n] # "NONE" /\ Owns(c, n)
  BY <1>1, <1>2, <1>3, AheadFacts DEF ShownJob, presentGenerationJob
<1>4. CASE ~(status[n] # "NONE" /\ Owns(c, n))
  <2>1. seenJob[c][n] = "NONE"
    BY <1>1, <1>2, <1>4, AheadFacts
  <2>2. Ahead(status[n], "NONE") /\ Ahead("NONE", "NONE")
    BY <1>1, AheadFacts
  <2>3. seenNotice[c][n] = NotShown
    BY <1>2, <1>4 DEF Terminal
  <2> QED
    BY <1>1, <1>4, <2>1, <2>2, <2>3 DEF ShownJob, NotFound
<1> QED
  BY <1>3, <1>4

LEMMA FreshNotice ==
  ASSUME NewsInv, IInv, NEW c \in Clients, SeenInv(c), NEW n \in Notices
  PROVE  LET view == IF readAt[n] # Missing /\ Owns(c, n)
                     THEN presentNotification(n) ELSE NotShown
         IN  ShownNotice(c, n, view) /\ LaterNotice(view, seenNotice[c][n])
<1>1. /\ type[n] \in Terminal \cup {"none"}
      /\ readAt[n] # Missing => type[n] \in Terminal
  BY DEF NewsInv
<1>2. /\ seenNotice[c][n] # NotShown =>
           Owns(c, n) /\ readAt[n] # Missing /\ seenNotice[c][n].type = type[n]
      /\ seenNotice[c][n].isRead => Read(n)
  BY DEF SeenInv, ShownNotice
<1>3. CASE readAt[n] # Missing /\ Owns(c, n)
  <2> DEFINE view == presentNotification(n)
  <2>1. view.type = type[n] /\ (view.isRead <=> readAt[n] # Unread)
    BY DEF presentNotification
  <2>2. view \in [type : Terminal \cup {"none"}, isRead : BOOLEAN]
    BY <1>1 DEF presentNotification
  <2> HIDE DEF view
  <2>3. ShownNotice(c, n, view)
    BY <1>3, <2>1, <2>2 DEF ShownNotice, Read
  <2>4. LaterNotice(view, seenNotice[c][n])
    BY <1>2, <2>1 DEF LaterNotice, Read
  <2> QED
    BY <1>3, <2>3, <2>4 DEF view
<1>4. CASE ~(readAt[n] # Missing /\ Owns(c, n))
  <2>1. seenNotice[c][n] = NotShown
    BY <1>2, <1>4
  <2>2. ShownNotice(c, n, NotShown) /\ LaterNotice(NotShown, NotShown)
    BY DEF ShownNotice, LaterNotice, NotShown
  <2> QED
    BY <1>4, <2>1, <2>2
<1> QED
  BY <1>3, <1>4

\* An answer of the right kind keeps the invariant of its client.
LEMMA Answered ==
  ASSUME NewsInv, IInv, NEW c \in Clients, SeenInv(c), ClientTypes,
         ServeDetails(c) \/ ServeJobs(c) \/ ServeNotifications(c)
  PROVE  AnswerInv(c)'
<1> DEFINE jobs == answer'[c].jobs
           notices == answer'[c].notices
<1>1. UNCHANGED <<vars, server, asked, seen>>
  BY DEF ServeDetails, ServeJobs, ServeNotifications, Answer, server
<1>2. /\ \A n \in Notices : n \in DOMAIN jobs =>
           jobs[n] = IF status[n] # "NONE" /\ Owns(c, n)
                     THEN presentGenerationJob(n) ELSE NotFound
      /\ \A n \in Notices : n \in DOMAIN notices =>
           notices[n] = IF readAt[n] # Missing /\ Owns(c, n)
                        THEN presentNotification(n) ELSE NotShown
  <2>1. CASE ServeDetails(c)
    <3>1. jobs = Only(asked[c].id, jobDetails(c, asked[c].id)) /\ notices = <<>>
      BY <2>1 DEF ServeDetails, Answer, ClientTypes
    <3> QED
      BY <3>1, NothingShown DEF Only, jobDetails, Nothing
  <2>2. CASE ServeJobs(c)
    <3>1. jobs = listJobs(c) /\ notices = <<>>
      BY <2>2 DEF ServeJobs, Answer, ClientTypes
    <3> QED
      BY <3>1, NothingShown DEF listJobs, findManyJobs, Nothing
  <2>3. CASE ServeNotifications(c)
    <3>1. jobs = <<>> /\ notices = listNotifications(c)
      BY <2>3 DEF ServeNotifications, Answer, ClientTypes
    <3> QED
      BY <3>1, NothingShown DEF listNotifications, findManyNotifications, Nothing
  <2> QED
    BY <2>1, <2>2, <2>3
<1> HIDE DEF jobs, notices
<1>4. ASSUME NEW n \in Notices, n \in DOMAIN jobs
      PROVE  /\ ShownJob(c, n, jobs[n])
             /\ Ahead(jobs[n], seenJob[c][n])
             /\ seenNotice[c][n] # NotShown => jobs[n] = status[n]
  BY <1>2, <1>4, FreshJob
<1>5. ASSUME NEW n \in Notices, n \in DOMAIN notices
      PROVE  ShownNotice(c, n, notices[n]) /\ LaterNotice(notices[n], seenNotice[c][n])
  BY <1>2, <1>5, FreshNotice
<1>6. UNCHANGED <<readAt, status, type, seenJob, seenNotice>>
  BY <1>1 DEF vars, server, seen
<1> QED
  BY <1>4, <1>5, <1>6 DEF AnswerInv, ShownJob, ShownNotice, Read, jobs, notices

\* The answer to a create request shows a job that nobody had.
LEMMA Created ==
  ASSUME NewsInv, NewsInv', Grows, NEW c \in Clients, SeenInv(c), ClientTypes, ServeCreate(c)
  PROVE  AnswerInv(c)'
<1>1. PICK n \in Notices :
        /\ Owns(c, n) /\ status[n] = "NONE"
        /\ status' = [status EXCEPT ![n] = "PENDING"]
        /\ answer' = [answer EXCEPT ![c] = [jobs |-> Only(n, "PENDING"), notices |-> <<>>]]
  BY DEF ServeCreate, Answer, Life!Store, Life!Move
<1>2. UNCHANGED <<seenJob, seenNotice>>
  BY DEF ServeCreate, Answer, seen
<1>3. /\ answer'[c].jobs = Only(n, "PENDING") /\ DOMAIN answer'[c].jobs = {n}
      /\ answer'[c].jobs[n] = "PENDING" /\ DOMAIN answer'[c].notices = {}
  BY <1>1, NothingShown DEF ClientTypes, Only, Nothing
<1>4. /\ seenJob[c][n] = "NONE" /\ seenNotice[c][n] = NotShown
      /\ status'[n] = "PENDING" /\ "PENDING" \in State
  <2>1. seenJob[c][n] \in State /\ Ahead("NONE", seenJob[c][n])
    BY <1>1 DEF SeenInv, ShownJob
  <2>2. seenNotice[c][n] = NotShown
    BY <1>1, OutcomeStays DEF Terminal
  <2> QED
    BY <1>1, <2>1, <2>2, AheadFacts DEF NewsInv, State
<1>5. Ahead("PENDING", "PENDING") /\ Ahead("PENDING", "NONE")
  BY <1>4, AheadFacts
<1> QED
  BY <1>1, <1>2, <1>3, <1>4, <1>5 DEF AnswerInv, ShownJob, Owns

-----------------------------------------------------------------------------
(***************************************************************************)
(* A client's steps.                                                       *)
(***************************************************************************)

\* What a delivered answer leaves a client with.
LEMMA Delivered ==
  ASSUME ClientTypes, NEW c \in Clients, AnswerInv(c), Deliver(c), NEW n \in Notices
  PROVE  /\ seenJob'[c][n] = IF n \in DOMAIN answer[c].jobs THEN answer[c].jobs[n]
                                                            ELSE seenJob[c][n]
         /\ seenNotice'[c][n] = IF n \in DOMAIN answer[c].notices THEN answer[c].notices[n]
                                                                  ELSE seenNotice[c][n]
BY DEF Deliver, ClientTypes, Updated

\* An answer that has arrived, or is lost, leaves nothing on the way.
LEMMA Ended ==
  ASSUME ClientTypes, NEW c \in Clients, EndRequest(c)
  PROVE  /\ AnswerInv(c)'
         /\ answer' = [answer EXCEPT ![c] = Nothing]
         /\ UNCHANGED <<vars, server>>
<1>1. answer' = [answer EXCEPT ![c] = Nothing] /\ answer'[c] = Nothing
  BY DEF EndRequest, ClientTypes
<1> QED
  BY <1>1, NothingShown DEF AnswerInv, EndRequest

LEMMA DeliverSeen ==
  ASSUME ClientTypes, NEW c \in Clients, SeenInv(c), AnswerInv(c), Deliver(c)
  PROVE  SeenInv(c)'
<1>1. ASSUME NEW n \in Notices
      PROVE  ShownJob(c, n, seenJob'[c][n]) /\ ShownNotice(c, n, seenNotice'[c][n])
  BY Delivered DEF SeenInv, AnswerInv
<1>2. UNCHANGED <<readAt, status, type>>
  BY DEF Deliver, EndRequest, vars, server
<1> QED
  BY <1>1, <1>2 DEF SeenInv, ShownJob, ShownNotice, Read

\* Which of the clients' variables a step changes, and for whom.
LEMMA OthersStay ==
  ASSUME ClientTypes, NEW c \in Clients, Client(c), NEW d \in Clients \ {c}
  PROVE  answer'[d] = answer[d] /\ seenJob'[d] = seenJob[d] /\ seenNotice'[d] = seenNotice[d]
BY DEF ClientTypes, Client, Send, Deliver, Lose, EndRequest, Answer, ServeCreate,
       ServeDetails, ServeJobs, ServeNotifications, seen

LEMMA ClientTyped ==
  ASSUME ClientTypes, NEW c \in Clients, SeenInv(c), AnswerInv(c), Client(c)
  PROVE  ClientTypes'
<1>1. answer' = [d \in Clients |-> answer'[d]]
  BY DEF ClientTypes, Client, Send, Deliver, Lose, EndRequest, Answer, ServeCreate,
         ServeDetails, ServeJobs, ServeNotifications
<1>2. CASE Deliver(c)
  <2>1. \A n \in Notices : /\ seenJob'[c][n] \in State
                           /\ seenNotice'[c][n] \in [type : Terminal \cup {"none"}, isRead : BOOLEAN]
    BY <1>2, Delivered DEF SeenInv, AnswerInv, ShownJob, ShownNotice
  <2>2. /\ seenJob'[c] = [n \in Notices |-> seenJob'[c][n]]
        /\ seenNotice'[c] = [n \in Notices |-> seenNotice'[c][n]]
    BY <1>2 DEF Deliver, ClientTypes, Updated
  <2>3. /\ seenJob'[c] \in [Notices -> State]
        /\ seenNotice'[c] \in [Notices -> [type : Terminal \cup {"none"}, isRead : BOOLEAN]]
    BY <2>1, <2>2
  <2>4. /\ seenJob' = [seenJob EXCEPT ![c] = seenJob'[c]]
        /\ seenNotice' = [seenNotice EXCEPT ![c] = seenNotice'[c]]
    BY <1>2 DEF Deliver, ClientTypes
  <2> QED
    BY <1>1, <2>3, <2>4 DEF ClientTypes
<1>3. CASE ~Deliver(c)
  <2>1. UNCHANGED seen
    BY <1>3 DEF Client, Send, Lose, Answer, ServeCreate, ServeDetails, ServeJobs,
                ServeNotifications
  <2> QED
    BY <1>1, <2>1 DEF ClientTypes, seen
<1> QED
  BY <1>2, <1>3

LEMMA ClientStep ==
  ASSUME ApiInv, IInv, NewsInv', Grows, NEW c \in Clients, Client(c)
  PROVE  SeenInv(c)' /\ AnswerInv(c)'
<1>1. NewsInv /\ ClientTypes /\ SeenInv(c) /\ AnswerInv(c)
  BY DEF ApiInv
<1>2. CASE Send(c)
  BY <1>1, <1>2, ClientStays DEF Send, seen
<1>3. CASE Deliver(c)
  BY <1>1, <1>3, DeliverSeen, Ended DEF Deliver
<1>4. CASE Lose(c)
  BY <1>1, <1>4, SeenStays, Ended DEF Lose, seen
<1>5. CASE ServeDetails(c) \/ ServeJobs(c) \/ ServeNotifications(c)
  <2>1. AnswerInv(c)'
    BY <1>1, <1>5, Answered
  <2>2. UNCHANGED seen
    BY <1>5 DEF ServeDetails, ServeJobs, ServeNotifications, Answer
  <2> QED
    BY <1>1, <2>1, <2>2, SeenStays DEF seen
<1>6. CASE ServeCreate(c)
  <2>1. AnswerInv(c)'
    BY <1>1, <1>6, Created
  <2>2. UNCHANGED seen
    BY <1>6 DEF ServeCreate, Answer
  <2> QED
    BY <1>1, <2>1, <2>2, SeenStays DEF seen
<1> QED
  BY <1>2, <1>3, <1>4, <1>5, <1>6 DEF Client

LEMMA ApiNextInv == ApiInv /\ IInv /\ [ApiNext]_apiVars => ApiInv'
<1> SUFFICES ASSUME ApiInv, IInv, [ApiNext]_apiVars PROVE ApiInv'
  OBVIOUS
<1>1. /\ NewsInv' /\ Grows /\ NewsInv /\ ClientTypes
      /\ \A d \in Clients : SeenInv(d) /\ AnswerInv(d)
  BY ApiGrows DEF ApiInv
<1>2. CASE UNCHANGED client
  <2>1. ClientTypes'
    BY <1>1, <1>2 DEF ClientTypes, client, seen
  <2>2. ASSUME NEW d \in Clients PROVE SeenInv(d)' /\ AnswerInv(d)'
    BY <1>1, <1>2, ClientStays DEF client, seen
  <2> QED
    BY <1>1, <2>1, <2>2 DEF ApiInv
<1>3. ASSUME NEW c \in Clients, Client(c) PROVE ApiInv'
  <2>1. ClientTypes'
    BY <1>1, <1>3, ClientTyped
  <2>2. SeenInv(c)' /\ AnswerInv(c)'
    BY <1>1, <1>3, ClientStep
  <2>3. ASSUME NEW d \in Clients \ {c} PROVE SeenInv(d)' /\ AnswerInv(d)'
    BY <1>1, <1>3, OthersStay, ClientStays
  <2> QED
    BY <1>1, <2>1, <2>2, <2>3 DEF ApiInv
<1> QED
  BY <1>2, <1>3 DEF ApiNext, MoveJob, Announce, Mark, Clock, apiVars

LEMMA ApiInvariance == ApiSpec => []ApiInv
BY ApiInitInv, ApiNextInv, ReadingInvariance, PTL DEF ApiSpec

-----------------------------------------------------------------------------
(***************************************************************************)
(* What follows.                                                           *)
(***************************************************************************)

\* Nobody learns of another user's jobs and notifications.
THEOREM OwnersOnly == ApiSpec => []OnlyOwnJobs
<1>1. ApiInv => OnlyOwnJobs
  BY DEF ApiInv, SeenInv, AnswerInv, ShownJob, ShownNotice, OnlyOwnJobs
<1> QED
  BY <1>1, ApiInvariance, PTL

\* A notification that was shown is true of the store and of later answers.
THEOREM NewsStaysTrue == ApiSpec => []NewsIsTrue
<1>1. ApiInv => NewsIsTrue
  <2> SUFFICES ASSUME ApiInv, NEW c \in Clients, NEW n \in Notices,
                      seenNotice[c][n] # NotShown
               PROVE  /\ status[n] = seenNotice[c][n].type
                      /\ n \in DOMAIN answer[c].jobs => answer[c].jobs[n] = status[n]
    BY DEF NewsIsTrue
  <2>1. ShownNotice(c, n, seenNotice[c][n]) /\ AnswerInv(c) /\ NewsInv
    BY DEF ApiInv, SeenInv
  <2> QED
    BY <2>1 DEF ShownNotice, AnswerInv, NewsInv
<1> QED
  BY <1>1, ApiInvariance, PTL

\* No view of a client ever goes back.
THEOREM ViewsOnlyAdvance == ApiSpec => ViewsAdvance
<1> DEFINE Advance ==
      \A c \in Clients, n \in Notices :
        LET state == seenJob[c][n] notice == seenNotice[c][n] IN
        /\ seenJob'[c][n] = state \/ Progress(seenJob'[c][n]) > Progress(state)
        /\ notice # NotShown => seenNotice'[c][n].type = notice.type
        /\ notice.isRead => seenNotice'[c][n].isRead
<1>1. ApiInv /\ [ApiNext]_apiVars => [Advance]_seen
  <2> SUFFICES ASSUME ApiInv, [ApiNext]_apiVars, ~UNCHANGED seen PROVE Advance
    OBVIOUS
  <2>1. PICK d \in Clients : Deliver(d)
    BY DEF ApiNext, MoveJob, Announce, Mark, Clock, apiVars, client, Client, Send, Lose,
           Answer, ServeCreate, ServeDetails, ServeJobs, ServeNotifications
  <2>2. ASSUME NEW c \in Clients, NEW n \in Notices
        PROVE  /\ Ahead(seenJob'[c][n], seenJob[c][n])
               /\ LaterNotice(seenNotice'[c][n], seenNotice[c][n])
    <3>1. ClientTypes /\ AnswerInv(d) /\ seenJob[c][n] \in State
      BY DEF ApiInv, ClientTypes
    <3>2. CASE c = d
      BY <2>1, <3>1, <3>2, Delivered, AheadFacts DEF AnswerInv, LaterNotice
    <3>3. CASE c # d
      BY <2>1, <3>1, <3>3, OthersStay, AheadFacts DEF Client, LaterNotice
    <3> QED
      BY <3>2, <3>3
  <2> QED
    BY <2>2 DEF Ahead, LaterNotice
<1> QED
  BY <1>1, ApiInvariance, PTL DEF ApiSpec, ViewsAdvance

\* The stored jobs and notifications, with the reading of notifications and
\* any number of clients around them, still live the life that JobLifecycle
\* promises: no request inserts, removes or retypes a notification.
THEOREM LifeRefinement == ApiSpec => Life!Spec
<1>1. ApiInit => Life!Init
  BY TimeAssumption DEF ApiInit, Init, Life!Init, Stored, Life!NoNotices, Life!Terminal, Terminal
<1>2. IInv /\ [ApiNext]_apiVars => [Life!Next]_(Life!vars)
  <2> SUFFICES ASSUME IInv, [ApiNext]_apiVars PROVE Life!Next \/ UNCHANGED <<status, Stored>>
    BY DEF Life!vars
  <2>1. ASSUME NEW n \in Notices, MoveJob(n) \/ Announce(n) PROVE Life!Next
    BY <2>1 DEF MoveJob, Announce, Life!Next
  <2>2. ASSUME NEW r \in Requests, Mark(r) PROVE UNCHANGED <<status, Stored>>
    <3>1. Handle(r) /\ UNCHANGED <<status, type>>
      BY <2>2 DEF Mark, server
    <3>2. \A n \in Notices : readAt'[n] # Missing <=> readAt[n] # Missing
      BY <3>1, HandleFrame DEF Read
    <3> QED
      BY <3>1, <3>2 DEF Stored
  <2>3. ASSUME NEW c \in Clients, Client(c)
        PROVE  Life!Next \/ UNCHANGED <<status, Stored>>
    <3>1. CASE ServeCreate(c)
      BY <3>1 DEF ServeCreate, Life!Next
    <3>2. CASE ~ServeCreate(c)
      <4>1. UNCHANGED <<vars, server>>
        BY <2>3, <3>2 DEF Client, Send, Deliver, Lose, EndRequest, Answer, ServeDetails,
                          ServeJobs, ServeNotifications, server
      <4> QED
        BY <4>1 DEF vars, server, Stored
    <3> QED
      BY <3>1, <3>2
  <2>4. CASE Clock \/ UNCHANGED apiVars
    BY <2>4 DEF Clock, Tick, apiVars, vars, server, Stored
  <2> QED
    BY <2>1, <2>2, <2>3, <2>4 DEF ApiNext
<1> QED
  BY <1>1, <1>2, ReadingInvariance, PTL DEF ApiSpec, Life!Spec

=============================================================================
