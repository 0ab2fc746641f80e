--------------------------- MODULE ReadNotification ---------------------------
(***************************************************************************)
(* Generation Notifications once they are stored: the subscriber inserts   *)
(* them unread, and PATCH /notifications/:id/read requests mark them       *)
(* (read-notification.ts).  A request loads the row into an instance of    *)
(* its own, marks the instance and writes the whole row back; requests     *)
(* about one notification overlap, because each of these is an await.  A   *)
(* request may fail at any of them, and a write whose request has failed   *)
(* may still reach the database.                                           *)
(***************************************************************************)
EXTENDS Naturals

CONSTANTS
  Notices,          \* identifiers of the notifications
  Users,            \* authenticated Factory Users
  Owner,            \* the owner of each notification
  Requests,         \* the read requests of one behaviour
  Unread,           \* readAt is null
  Missing,          \* there is no such row
  MaxTime           \* bound: the clock stops there

Time == 0 .. MaxTime

ASSUME OwnerAssumption == Owner \in [Notices -> Users]
ASSUME TimeAssumption == MaxTime \in Nat /\ Unread \notin Time
                         /\ Missing \notin Time \cup {Unread}

VARIABLES
  readAt,           \* readAt[n]: the column, or Missing while there is no row
  now,
  pc,               \* where each request stands
  who,              \* its user and ...
  what,             \* ... the notification it names
  copy              \* readAt of the instance it holds

request == <<pc, who, what, copy>>
vars == <<readAt, now, request>>

\* "ok" answers 200, "absent" 404, "error" 500. An "abandoned" request has
\* answered 500 while its write is still on the way.
PC == {"idle", "finding", "found", "saving", "saved", "abandoned",
       "ok", "absent", "error"}

TypeOK ==
  /\ readAt \in [Notices -> Time \cup {Unread, Missing}]
  /\ now \in Time
  /\ pc \in [Requests -> PC]
  /\ who \in [Requests -> Users]
  /\ what \in [Requests -> Notices]
  /\ copy \in [Requests -> Time \cup {Unread}]

Init ==
  /\ readAt = [n \in Notices |-> Missing]
  /\ now = 0
  /\ pc = [r \in Requests |-> "idle"]
  /\ who \in [Requests -> Users]
  /\ what \in [Requests -> Notices]
  /\ copy = [r \in Requests |-> Unread]

At(r, here, next) ==
  /\ pc[r] = here
  /\ pc' = [pc EXCEPT ![r] = next]

\* The subscriber's insert.
Create(n) ==
  /\ readAt[n] = Missing
  /\ readAt' = [readAt EXCEPT ![n] = Unread]
  /\ UNCHANGED <<now, request>>

\* The guard has let the user in; findById is sent.
Ask(r) ==
  /\ At(r, "idle", "finding")
  /\ UNCHANGED <<readAt, now, who, what, copy>>

\* Deviation: any user's notification is served.
FindAny(r) ==
  /\ pc[r] = "finding"
  /\ IF readAt[what[r]] # Missing
     THEN /\ copy' = [copy EXCEPT ![r] = readAt[what[r]]]
          /\ pc' = [pc EXCEPT ![r] = "found"]
     ELSE /\ pc' = [pc EXCEPT ![r] = "absent"]
          /\ UNCHANGED copy
  /\ UNCHANGED <<readAt, now, who, what>>

\* Deviation: a missing row is not looked for.
FindUnchecked(r) ==
  /\ pc[r] = "finding"
  /\ IF Owner[what[r]] = who[r]
     THEN /\ copy' = [copy EXCEPT ![r] = readAt[what[r]]]
          /\ pc' = [pc EXCEPT ![r] = "found"]
     ELSE /\ pc' = [pc EXCEPT ![r] = "absent"]
          /\ UNCHANGED copy
  /\ UNCHANGED <<readAt, now, who, what>>

\* findById answers; another user's notification is no different from none.
Find(r) ==
  /\ pc[r] = "finding"
  /\ IF readAt[what[r]] # Missing /\ Owner[what[r]] = who[r]
     THEN /\ copy' = [copy EXCEPT ![r] = readAt[what[r]]]
          /\ pc' = [pc EXCEPT ![r] = "found"]
     ELSE /\ pc' = [pc EXCEPT ![r] = "absent"]
          /\ UNCHANGED copy
  /\ UNCHANGED <<readAt, now, who, what>>

\* Deviation: a second call takes the mark back.
MarkAsReadToggling(r) ==
  /\ At(r, "found", "saving")
  /\ copy' = [copy EXCEPT ![r] = IF @ = Unread THEN now ELSE Unread]
  /\ UNCHANGED <<readAt, now, who, what>>

\* markAsRead leaves an instance that is read already as it is.
MarkAsRead(r) ==
  /\ At(r, "found", "saving")
  /\ copy' = [copy EXCEPT ![r] = IF @ = Unread THEN now ELSE @]
  /\ UNCHANGED <<readAt, now, who, what>>

\* The database writes the whole row, of a request that waits for it or not.
Save(r) ==
  /\ \/ At(r, "saving", "saved")
     \/ At(r, "abandoned", "error")
  /\ readAt' = [readAt EXCEPT ![what[r]] = copy[r]]
  /\ UNCHANGED <<now, who, what, copy>>

\* Deviation: the answer does not wait for the write.
ReplyEarly(r) ==
  /\ pc[r] \in {"saving", "saved"}
  /\ pc' = [pc EXCEPT ![r] = "ok"]
  /\ UNCHANGED <<readAt, now, who, what, copy>>

\* 200 with the instance.
Reply(r) ==
  /\ At(r, "saved", "ok")
  /\ UNCHANGED <<readAt, now, who, what, copy>>

\* A database call fails, or its answer is lost: 500.
Fail(r) ==
  /\ \/ pc[r] \in {"finding", "saving", "saved"} /\ pc' = [pc EXCEPT ![r] = "error"]
     \/ At(r, "saving", "abandoned")
  /\ UNCHANGED <<readAt, now, who, what, copy>>

Tick ==
  /\ now < MaxTime
  /\ now' = now + 1
  /\ UNCHANGED <<readAt, request>>

Handle(r) == Ask(r) \/ Find(r) \/ MarkAsRead(r) \/ Save(r) \/ Reply(r) \/ Fail(r)

Next ==
  \/ \E n \in Notices : Create(n)
  \/ \E r \in Requests : Handle(r)
  \/ Tick

Spec == Init /\ [][Next]_vars

-----------------------------------------------------------------------------
(***************************************************************************)
(* Properties.                                                             *)
(***************************************************************************)

Read(n) == readAt[n] \notin {Unread, Missing}

\* A notification that was read is never unread again, although every request
\* writes the whole row from a copy that may be out of date.
StaysRead == [][\A n \in Notices : Read(n) => Read(n)']_readAt

\* After a 200 the stored notification is read, and stays so while the same
\* and other requests come and go.
AcknowledgedIsRead ==
  \A r \in Requests : pc[r] \in {"saved", "ok"} => Read(what[r])

\* A notification is read only through a request of its owner: when the mark
\* appears, one that the owner made has found the row and is writing it.
OnlyOwnersRead ==
  \A n \in Notices : Read(n) =>
    \E r \in Requests :
      /\ what[r] = n /\ who[r] = Owner[n]
      /\ pc[r] \in {"saved", "ok", "error"}

\* notification.spec.ts:24, "marks a notification as read only once": the
\* first time of reading is kept. It is for one instance; two overlapping
\* requests have two.
FirstReadingIsKept ==
  [][\A n \in Notices : Read(n) => readAt'[n] = readAt[n]]_readAt

=============================================================================
