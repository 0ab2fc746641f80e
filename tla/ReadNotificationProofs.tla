------------------------ MODULE ReadNotificationProofs ------------------------
(***************************************************************************)
(* ReadNotification, proved for any number of users, notifications and     *)
(* requests.  A request that has found its row writes a copy that is read, *)
(* so a write may replace a time of reading but never take it away.        *)
(***************************************************************************)
EXTENDS ReadNotification, TLAPS

\* A request past its look-up belongs to the owner, and from its mark on it
\* carries a time of reading.
RequestInv(r) ==
  /\ pc[r] \in {"found", "saving", "abandoned", "saved", "ok"} =>
       Owner[what[r]] = who[r] /\ readAt[what[r]] # Missing
  /\ pc[r] \in {"saving", "abandoned"} => copy[r] # Unread
  /\ pc[r] \in {"saved", "ok"} => Read(what[r])

IInv == TypeOK /\ (\A r \in Requests : RequestInv(r)) /\ OnlyOwnersRead

-----------------------------------------------------------------------------

LEMMA InitIInv == Init => IInv
  BY TimeAssumption, OwnerAssumption
     DEF Init, IInv, TypeOK, PC, Time, RequestInv, OnlyOwnersRead, Read

\* A step of one request: the types, the other requests and the rows.
LEMMA HandleFrame ==
  ASSUME IInv, NEW r \in Requests, Handle(r)
  PROVE  /\ TypeOK'
         /\ UNCHANGED <<now, who, what>>
         /\ \A q \in Requests \ {r} : pc'[q] = pc[q] /\ copy'[q] = copy[q]
         /\ \A n \in Notices :
              \/ readAt'[n] = readAt[n]
              \/ n = what[r] /\ readAt[n] # Missing /\ Read(n)' /\ pc'[r] \in {"saved", "error"}
  <1> USE TimeAssumption DEF IInv, TypeOK, PC, At, RequestInv, Read, Time
  <1>1. CASE Ask(r)
    BY <1>1 DEF Ask
  <1>2. CASE Find(r)
    BY <1>2 DEF Find
  <1>3. CASE MarkAsRead(r)
    BY <1>3 DEF MarkAsRead
  <1>4. CASE Save(r)
    BY <1>4 DEF Save
  <1>5. CASE Reply(r)
    BY <1>5 DEF Reply
  <1>6. CASE Fail(r)
    BY <1>6 DEF Fail
  <1> QED
    BY <1>1, <1>2, <1>3, <1>4, <1>5, <1>6 DEF Handle

\* A step of r keeps what is said of r.
LEMMA HandleOwn ==
  ASSUME IInv, NEW r \in Requests, Handle(r)
  PROVE  RequestInv(r)'
  <1> USE TimeAssumption DEF IInv, TypeOK, PC, At, RequestInv, Read, Time
  <1>1. CASE Ask(r)
    BY <1>1 DEF Ask
  <1>2. CASE Find(r)
    BY <1>2 DEF Find
  <1>3. CASE MarkAsRead(r)
    BY <1>3 DEF MarkAsRead
  <1>4. CASE Save(r)
    BY <1>4 DEF Save
  <1>5. CASE Reply(r)
    BY <1>5 DEF Reply
  <1>6. CASE Fail(r)
    BY <1>6 DEF Fail
  <1> QED
    BY <1>1, <1>2, <1>3, <1>4, <1>5, <1>6 DEF Handle

\* Only a save writes, and whoever has read a notification stays on record.
LEMMA HandleOwners ==
  ASSUME IInv, NEW r \in Requests, Handle(r)
  PROVE  OnlyOwnersRead'
  <1> SUFFICES ASSUME NEW n \in Notices, Read(n)'
               PROVE  \E q \in Requests : /\ what'[q] = n /\ who'[q] = Owner[n]
                                          /\ pc'[q] \in {"saved", "ok", "error"}
    BY DEF OnlyOwnersRead
  <1>1. UNCHANGED <<who, what>>
    BY HandleFrame
  <1>2. CASE readAt'[n] = readAt[n]
    <2>1. Read(n)
      BY <1>2 DEF Read
    <2>2. PICK q \in Requests : /\ what[q] = n /\ who[q] = Owner[n]
                                /\ pc[q] \in {"saved", "ok", "error"}
      BY <2>1 DEF IInv, OnlyOwnersRead
    <2>3. pc'[q] \in {"saved", "ok", "error"}
      <3>1. CASE q # r
        BY <2>2, <3>1, HandleFrame
      <3>2. CASE q = r
        BY <2>2, <3>2 DEF Handle, Ask, Find, MarkAsRead, Save, Reply, Fail, At, IInv, TypeOK
      <3> QED
        BY <3>1, <3>2
    <2> QED
      BY <1>1, <2>2, <2>3
  <1>3. CASE readAt'[n] # readAt[n]
    <2>1. n = what[r] /\ pc'[r] \in {"saved", "error"}
      BY <1>3, HandleFrame
    <2>2. pc[r] \in {"saving", "abandoned"}
      BY <1>3 DEF Handle, Ask, Find, MarkAsRead, Save, Reply, Fail, At
    <2>3. who[r] = Owner[n]
      BY <2>1, <2>2 DEF IInv, RequestInv
    <2> QED
      BY <1>1, <2>1, <2>3
  <1> QED
    BY <1>2, <1>3

LEMMA NextIInv == IInv /\ [Next]_vars => IInv'
  <1> SUFFICES ASSUME IInv, [Next]_vars PROVE IInv'
    OBVIOUS
  <1>1. ASSUME NEW n \in Notices, Create(n) PROVE IInv'
    <2>1. TypeOK'
      BY <1>1 DEF IInv, TypeOK, Create, request
    <2>2. ASSUME NEW r \in Requests PROVE RequestInv(r)'
      BY <1>1, TimeAssumption DEF IInv, TypeOK, Create, request, RequestInv, Read
    <2>3. OnlyOwnersRead'
      BY <1>1 DEF IInv, TypeOK, Create, request, OnlyOwnersRead, Read
    <2> QED
      BY <2>1, <2>2, <2>3 DEF IInv
  <1>2. ASSUME NEW r \in Requests, Handle(r) PROVE IInv'
    <2>1. TypeOK'
      BY <1>2, HandleFrame
    <2>2. ASSUME NEW q \in Requests \ {r} PROVE RequestInv(q)'
      BY <1>2, HandleFrame DEF IInv, TypeOK, RequestInv, Read
    <2>3. RequestInv(r)'
      BY <1>2, HandleOwn
    <2>4. OnlyOwnersRead'
      BY <1>2, HandleOwners
    <2> QED
      BY <2>1, <2>2, <2>3, <2>4 DEF IInv
  <1>3. CASE Tick
    BY <1>3, TimeAssumption DEF IInv, TypeOK, Tick, request, RequestInv, Read, OnlyOwnersRead, Time
  <1>4. CASE UNCHANGED vars
    BY <1>4 DEF IInv, TypeOK, vars, request, RequestInv, Read, OnlyOwnersRead
  <1> QED
    BY <1>1, <1>2, <1>3, <1>4 DEF Next

LEMMA Invariance == Spec => []IInv
  BY InitIInv, NextIInv, PTL DEF Spec

-----------------------------------------------------------------------------

\* Every variable keeps its type.
THEOREM TypeCorrect == Spec => []TypeOK
  <1>1. IInv => TypeOK
    BY DEF IInv
  <1> QED
    BY <1>1, Invariance, PTL

\* A 200 is kept: the notification is read from then on, whatever copies the
\* other requests hold.
THEOREM AcknowledgementsHold == Spec => []AcknowledgedIsRead
  <1>1. IInv => AcknowledgedIsRead
    BY DEF IInv, RequestInv, AcknowledgedIsRead
  <1> QED
    BY <1>1, Invariance, PTL

\* Behind every read notification is a request of its owner.
THEOREM OwnersRead == Spec => []OnlyOwnersRead
  <1>1. IInv => OnlyOwnersRead
    BY DEF IInv
  <1> QED
    BY <1>1, Invariance, PTL

\* No step makes a read notification unread or removes it.
THEOREM ReadIsForEver == Spec => StaysRead
  <1> DEFINE Kept == \A n \in Notices : Read(n) => Read(n)'
  <1>1. IInv /\ [Next]_vars => [Kept]_readAt
    <2> SUFFICES ASSUME IInv, [Next]_vars PROVE Kept \/ UNCHANGED readAt
      OBVIOUS
    <2>1. ASSUME NEW n \in Notices, Create(n) PROVE Kept
      BY <2>1 DEF Create, Read, IInv, TypeOK
    <2>2. ASSUME NEW r \in Requests, Handle(r) PROVE Kept
      BY <2>2, HandleFrame DEF Read
    <2>3. CASE Tick \/ UNCHANGED vars
      BY <2>3 DEF Tick, vars
    <2> QED
      BY <2>1, <2>2, <2>3 DEF Next
  <1> QED
    BY <1>1, Invariance, PTL DEF Spec, StaysRead

-----------------------------------------------------------------------------
(***************************************************************************)
(* Where a time of reading comes from.                                     *)
(***************************************************************************)

\* The time of reading of n is the copy that an owner's request has written.
Wrote(q, n) ==
  /\ what[q] = n /\ who[q] = Owner[n]
  /\ pc[q] \in {"saved", "ok", "error"}
  /\ copy[q] = readAt[n]

SourceInv == \A n \in Notices : Read(n) => \E q \in Requests : Wrote(q, n)

\* A first time of reading is not always kept, as a run shows; but what
\* replaces it is the copy of another request that the same owner made about
\* the same notification, one still on its way when the first had written.
ReplacedByAnother ==
  [][\A n \in Notices : Read(n) /\ readAt'[n] # readAt[n] =>
       \E r, q \in Requests :
         /\ r # q
         /\ Wrote(q, n)
         /\ what[r] = n /\ who[r] = Owner[n]
         /\ pc[r] \in {"saving", "abandoned"} /\ copy[r] = readAt'[n]]_readAt

\* A write carries its request's copy; nothing else touches a row.
LEMMA OnlySavesWrite ==
  ASSUME IInv, NEW r \in Requests, Handle(r), NEW n \in Notices, readAt'[n] # readAt[n]
  PROVE  /\ what[r] = n /\ who[r] = Owner[n]
         /\ pc[r] \in {"saving", "abandoned"} /\ pc'[r] \in {"saved", "error"}
         /\ copy[r] = readAt'[n] /\ UNCHANGED <<copy, what, who>>
  <1>1. Save(r)
    BY DEF Handle, Ask, Find, MarkAsRead, Reply, Fail
  <1>2. what[r] = n /\ copy[r] = readAt'[n]
    BY <1>1 DEF Save, IInv, TypeOK
  <1>3. pc[r] \in {"saving", "abandoned"} /\ pc'[r] \in {"saved", "error"}
    BY <1>1 DEF Save, At, IInv, TypeOK
  <1>4. who[r] = Owner[n]
    BY <1>2, <1>3 DEF IInv, RequestInv
  <1> QED
    BY <1>1, <1>2, <1>3, <1>4 DEF Save

LEMMA NextSource == IInv /\ SourceInv /\ [Next]_vars => SourceInv'
  <1> SUFFICES ASSUME IInv, SourceInv, [Next]_vars, NEW n \in Notices, Read(n)'
               PROVE  \E q \in Requests : Wrote(q, n)'
    BY DEF SourceInv
  <1>1. ASSUME NEW m \in Notices, Create(m) PROVE \E q \in Requests : Wrote(q, n)'
    <2>1. readAt'[n] = readAt[n] /\ UNCHANGED request
      BY <1>1 DEF Create, Read, IInv, TypeOK
    <2> QED
      BY <2>1 DEF SourceInv, Read, Wrote, request
  <1>2. ASSUME NEW r \in Requests, Handle(r) PROVE \E q \in Requests : Wrote(q, n)'
    <2>1. CASE readAt'[n] = readAt[n]
      <3>1. PICK q \in Requests : Wrote(q, n)
        BY <2>1 DEF SourceInv, Read
      <3>2. pc'[q] \in {"saved", "ok", "error"} /\ copy'[q] = copy[q]
        <4>1. CASE q # r
          BY <1>2, <3>1, <4>1, HandleFrame DEF Wrote
        <4>2. CASE q = r
          BY <1>2, <3>1, <4>2 DEF Wrote, Handle, Ask, Find, MarkAsRead, Save, Reply, Fail, At,
                                  IInv, TypeOK
        <4> QED
          BY <4>1, <4>2
      <3> QED
        BY <1>2, <2>1, <3>1, <3>2, HandleFrame DEF Wrote
    <2>2. CASE readAt'[n] # readAt[n]
      BY <1>2, <2>2, OnlySavesWrite DEF Wrote
    <2> QED
      BY <2>1, <2>2
  <1>3. CASE Tick \/ UNCHANGED vars
    BY <1>3 DEF Tick, vars, request, SourceInv, Read, Wrote
  <1> QED
    BY <1>1, <1>2, <1>3 DEF Next

\* However many requests overlap, a stored time of reading is replaced only by
\* a second request of the owner, and only by the time that one carries: no
\* other user, no retry of the subscriber and no single request does it.
THEOREM ReadingsAreTheOwners == Spec => ReplacedByAnother
  <1> DEFINE Another ==
        \A n \in Notices : Read(n) /\ readAt'[n] # readAt[n] =>
          \E r, q \in Requests :
            /\ r # q
            /\ Wrote(q, n)
            /\ what[r] = n /\ who[r] = Owner[n]
            /\ pc[r] \in {"saving", "abandoned"} /\ copy[r] = readAt'[n]
  <1>1. Init => SourceInv
    BY TimeAssumption DEF Init, SourceInv, Read
  <1>2. IInv /\ SourceInv /\ [Next]_vars => [Another]_readAt
    <2> SUFFICES ASSUME IInv, SourceInv, [Next]_vars, NEW n \in Notices,
                        Read(n), readAt'[n] # readAt[n]
                 PROVE  \E r, q \in Requests :
                          /\ r # q
                          /\ Wrote(q, n)
                          /\ what[r] = n /\ who[r] = Owner[n]
                          /\ pc[r] \in {"saving", "abandoned"} /\ copy[r] = readAt'[n]
      OBVIOUS
    <2>1. PICK q \in Requests : Wrote(q, n)
      BY DEF SourceInv
    <2>2. PICK r \in Requests : Handle(r)
      BY DEF Next, Create, Tick, vars, Read, IInv, TypeOK
    <2>3. /\ what[r] = n /\ who[r] = Owner[n]
          /\ pc[r] \in {"saving", "abandoned"} /\ copy[r] = readAt'[n]
      BY <2>2, OnlySavesWrite
    <2>4. r # q
      BY <2>1, <2>3 DEF Wrote
    <2> QED
      BY <2>1, <2>3, <2>4
  <1> QED
    BY <1>1, <1>2, InitIInv, NextIInv, NextSource, PTL DEF Spec, ReplacedByAnother

=============================================================================
