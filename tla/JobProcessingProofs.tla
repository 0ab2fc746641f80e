------------------------- MODULE JobProcessingProofs -------------------------
(***************************************************************************)
(* Proofs about JobProcessing, for every set of jobs and every number of   *)
(* faults.  The inductive invariant says, for each point of the control of *)
(* a job, what its row, its in-memory instance, its events and its stored  *)
(* notifications are.                                                      *)
(***************************************************************************)
EXTENDS JobProcessing, TLAPS

\* What the row holds while the code of j stands at pc[j].
RowInv(j) ==
  /\ pc[j] \in {"unasked", "inserting"} => row[j] = "NONE"
  /\ pc[j] \in {"inserted", "queued", "loaded", "starting"} => row[j] = "PENDING"
  /\ pc[j] \in {"started", "generating", "finishing"} => row[j] = "RUNNING"
  /\ pc[j] \in {"finished", "announcing", "announced"} => row[j] = job[j]
  /\ pc[j] = "done" => row[j] \in Terminal

\* What the instance in memory holds.
JobInv(j) ==
  /\ pc[j] \in {"unasked", "dropped"} => job[j] = "NONE"
  /\ pc[j] \in {"inserting", "inserted", "queued", "loaded"} => job[j] = "PENDING"
  /\ pc[j] \in {"starting", "started", "generating"} => job[j] = "RUNNING"
  /\ pc[j] \in Settling => job[j] \in Terminal
  /\ pc[j] = "done" => job[j] \in {"NONE", row[j]}

\* Which events wait for dispatch.
BusInv(j) ==
  /\ j \in marked <=> pc[j] \in Settling
  /\ events[j] = IF j \in marked THEN <<job[j]>> ELSE <<>>
  /\ sent[j] = 0

\* Which notifications are stored; a dropped task may have stored its own.
InboxInv(j) ==
  /\ pc[j] \notin {"announced", "done", "dropped"} => inbox[j] = NoNotices
  /\ pc[j] \in {"announced", "done"} => inbox[j] = OneNotice(row[j])
  /\ \/ inbox[j] = NoNotices
     \/ row[j] \in Terminal /\ inbox[j] = OneNotice(row[j])

IInv ==
  /\ TypeOK
  /\ \A j \in Jobs : RowInv(j) /\ JobInv(j) /\ BusInv(j) /\ InboxInv(j)

-----------------------------------------------------------------------------
(***************************************************************************)
(* The three ways DispatchEvents is reached.                               *)
(***************************************************************************)

\* Nothing is pending (after create and after the save of RUNNING): the
\* caller goes on and the bus is as it was.
LEMMA DispatchNone ==
  ASSUME IInv, NEW j \in Jobs, NEW a, j \notin marked, DispatchEvents(j, 0, a)
  PROVE  pc' = [pc EXCEPT ![j] = a] /\ UNCHANGED bus
<1>1. sent' = [sent EXCEPT ![j] = 0] /\ sent[j] = 0 /\ sent \in [Jobs -> Nat]
  BY DEF IInv, BusInv, TypeOK, DispatchEvents
<1>2. events' = [events EXCEPT ![j] = events[j]] /\ events \in [Jobs -> Seq(Terminal)]
  BY DEF IInv, TypeOK, DispatchEvents
<1>3. marked' = marked
  BY DEF DispatchEvents, Unmark
<1>4. pc' = [pc EXCEPT ![j] = a]
  BY DEF DispatchEvents
<1> QED
  BY <1>1, <1>2, <1>3, <1>4 DEF bus

\* The outcome was saved: its one event goes to the subscriber.
LEMMA DispatchFirst ==
  ASSUME IInv, NEW j \in Jobs, NEW a, j \in marked, DispatchEvents(j, 0, a)
  PROVE  pc' = [pc EXCEPT ![j] = "announcing"] /\ UNCHANGED bus
<1>1. events[j] = <<job[j]>>
  BY DEF IInv, BusInv
<1>2. 0 < Len(events[j])
  BY <1>1
<1>3. /\ pc' = [pc EXCEPT ![j] = "announcing"]
      /\ sent' = [sent EXCEPT ![j] = 0]
      /\ UNCHANGED <<events, marked>>
  BY <1>2 DEF DispatchEvents
<1>4. sent[j] = 0 /\ sent \in [Jobs -> Nat]
  BY DEF IInv, BusInv, TypeOK
<1> QED
  BY <1>3, <1>4 DEF bus

\* The event was handed out: the instance is clean and the mark is gone.
LEMMA DispatchLast ==
  ASSUME IInv, NEW j \in Jobs, NEW a, j \in marked,
         DispatchEvents(j, sent[j] + 1, a)
  PROVE  /\ pc' = [pc EXCEPT ![j] = a]
         /\ events' = [events EXCEPT ![j] = <<>>]
         /\ marked' = marked \ {j}
         /\ sent' = sent
<1>1. events[j] = <<job[j]>> /\ sent[j] = 0 /\ sent \in [Jobs -> Nat]
  BY DEF IInv, BusInv, TypeOK
<1>2. ~(sent[j] + 1 < Len(events[j]))
  BY <1>1
<1>3. /\ pc' = [pc EXCEPT ![j] = a]
      /\ sent' = [sent EXCEPT ![j] = 0]
      /\ events' = [events EXCEPT ![j] = <<>>]
      /\ marked' = marked \ {j}
  BY <1>2 DEF DispatchEvents, Unmark
<1> QED
  BY <1>1, <1>3

-----------------------------------------------------------------------------
(***************************************************************************)
(* Each action preserves the invariant.                                    *)
(***************************************************************************)

LEMMA InitIInv == Init => IInv
<1> SUFFICES ASSUME Init PROVE IInv
  OBVIOUS
<1>1. TypeOK
  <2>1. faults \in 0 .. MaxFaults
    BY FaultAssumption DEF Init
  <2>2. NoNotices \in [Terminal -> Nat]
    BY DEF NoNotices
  <2>3. inbox \in [Jobs -> [Terminal -> Nat]]
    BY <2>2 DEF Init
  <2>4. events \in [Jobs -> Seq(Terminal)]
    BY DEF Init
  <2> QED
    BY <2>1, <2>3, <2>4 DEF Init, TypeOK, State, PC
<1>2. \A j \in Jobs : RowInv(j) /\ JobInv(j) /\ BusInv(j) /\ InboxInv(j)
  BY DEF Init, RowInv, JobInv, BusInv, InboxInv, Settling
<1> QED
  BY <1>1, <1>2 DEF IInv

\* Faults are counted within their bound.
LEMMA FaultStep ==
  ASSUME faults \in 0 .. MaxFaults, Fault
  PROVE  faults' \in 0 .. MaxFaults
BY FaultAssumption DEF Fault

LEMMA SubmitStep ==
  ASSUME IInv, NEW j \in Jobs, Submit(j)
  PROVE  IInv'
<1> USE DEF Submit, At, stored, bus
<1>1. TypeOK'
  BY DEF IInv, TypeOK, State, Terminal, PC, Creating, Tasking, Settling
<1>2. ASSUME NEW k \in Jobs
      PROVE  (RowInv(k) /\ JobInv(k) /\ BusInv(k) /\ InboxInv(k))'
  <2>1. RowInv(k) /\ JobInv(k) /\ BusInv(k) /\ InboxInv(k)
    BY DEF IInv
  <2>2. RowInv(k)' /\ JobInv(k)'
    BY <2>1 DEF IInv, TypeOK, RowInv, JobInv, Settling, Terminal
  <2>3. BusInv(k)'
    BY <2>1 DEF IInv, TypeOK, BusInv, Settling, Terminal
  <2>4. InboxInv(k)'
    BY <2>1 DEF IInv, TypeOK, RowInv, InboxInv, Terminal
  <2> QED
    BY <2>2, <2>3, <2>4
<1> QED
  BY <1>1, <1>2 DEF IInv

LEMMA InsertRowStep ==
  ASSUME IInv, NEW j \in Jobs, InsertRow(j)
  PROVE  IInv'
<1> USE DEF InsertRow, At, bus
<1>1. TypeOK'
  BY DEF IInv, TypeOK, State, Terminal, PC, Creating, Tasking, Settling
<1>2. ASSUME NEW k \in Jobs
      PROVE  (RowInv(k) /\ JobInv(k) /\ BusInv(k) /\ InboxInv(k))'
  <2>1. RowInv(k) /\ JobInv(k) /\ BusInv(k) /\ InboxInv(k)
    BY DEF IInv
  <2>2. RowInv(k)' /\ JobInv(k)'
    BY <2>1 DEF IInv, TypeOK, RowInv, JobInv, Settling, Terminal
  <2>3. BusInv(k)'
    BY <2>1 DEF IInv, TypeOK, BusInv, Settling, Terminal
  <2>4. InboxInv(k)'
    BY <2>1 DEF IInv, TypeOK, RowInv, InboxInv, Terminal
  <2> QED
    BY <2>2, <2>3, <2>4
<1> QED
  BY <1>1, <1>2 DEF IInv

LEMMA RejectRequestStep ==
  ASSUME IInv, NEW j \in Jobs, RejectRequest(j)
  PROVE  IInv'
<1> USE DEF RejectRequest, stored, bus, Creating
<1>1. TypeOK'
  <2>1. faults' \in 0 .. MaxFaults
    BY FaultStep DEF IInv, TypeOK
  <2> QED
    BY <2>1 DEF IInv, TypeOK, State, PC
<1>2. ASSUME NEW k \in Jobs
      PROVE  (RowInv(k) /\ JobInv(k) /\ BusInv(k) /\ InboxInv(k))'
  <2>1. RowInv(k) /\ JobInv(k) /\ BusInv(k) /\ InboxInv(k)
    BY DEF IInv
  <2>2. RowInv(k)' /\ JobInv(k)'
    BY <2>1 DEF IInv, TypeOK, RowInv, JobInv, Settling, Terminal
  <2>3. BusInv(k)'
    BY <2>1 DEF IInv, TypeOK, BusInv, Settling, Terminal
  <2>4. InboxInv(k)'
    BY <2>1 DEF IInv, TypeOK, RowInv, InboxInv, Terminal
  <2> QED
    BY <2>2, <2>3, <2>4
<1> QED
  BY <1>1, <1>2 DEF IInv

LEMMA LoadJobStep ==
  ASSUME IInv, NEW j \in Jobs, LoadJob(j)
  PROVE  IInv'
<1> USE DEF LoadJob, At, stored, bus
<1>1. TypeOK'
  BY DEF IInv, TypeOK, State, Terminal, PC, Creating, Tasking, Settling
<1>2. ASSUME NEW k \in Jobs
      PROVE  (RowInv(k) /\ JobInv(k) /\ BusInv(k) /\ InboxInv(k))'
  <2>1. RowInv(k) /\ JobInv(k) /\ BusInv(k) /\ InboxInv(k)
    BY DEF IInv
  <2>2. RowInv(k)' /\ JobInv(k)'
    BY <2>1 DEF IInv, TypeOK, RowInv, JobInv, Settling, Terminal
  <2>3. BusInv(k)'
    BY <2>1 DEF IInv, TypeOK, BusInv, Settling, Terminal
  <2>4. InboxInv(k)'
    BY <2>1 DEF IInv, TypeOK, RowInv, InboxInv, Terminal
  <2> QED
    BY <2>2, <2>3, <2>4
<1> QED
  BY <1>1, <1>2 DEF IInv

LEMMA StartJobStep ==
  ASSUME IInv, NEW j \in Jobs, StartJob(j)
  PROVE  IInv'
<1> USE DEF StartJob, stored, bus
<1>1. TypeOK'
  BY DEF IInv, TypeOK, State, Terminal, PC, Creating, Tasking, Settling
<1>2. ASSUME NEW k \in Jobs
      PROVE  (RowInv(k) /\ JobInv(k) /\ BusInv(k) /\ InboxInv(k))'
  <2>1. RowInv(k) /\ JobInv(k) /\ BusInv(k) /\ InboxInv(k)
    BY DEF IInv
  <2>2. RowInv(k)' /\ JobInv(k)'
    BY <2>1 DEF IInv, TypeOK, RowInv, JobInv, Settling, Terminal
  <2>3. BusInv(k)'
    BY <2>1 DEF IInv, TypeOK, BusInv, Settling, Terminal
  <2>4. InboxInv(k)'
    BY <2>1 DEF IInv, TypeOK, JobInv, RowInv, InboxInv, Terminal
  <2> QED
    BY <2>2, <2>3, <2>4
<1> QED
  BY <1>1, <1>2 DEF IInv

LEMMA SaveRunningStep ==
  ASSUME IInv, NEW j \in Jobs, SaveRunning(j)
  PROVE  IInv'
<1> USE DEF SaveRunning, SaveRow, At, bus
<1>1. TypeOK'
  BY DEF IInv, TypeOK, State, Terminal, PC, Creating, Tasking, Settling
<1>2. ASSUME NEW k \in Jobs
      PROVE  (RowInv(k) /\ JobInv(k) /\ BusInv(k) /\ InboxInv(k))'
  <2>1. RowInv(k) /\ JobInv(k) /\ BusInv(k) /\ InboxInv(k)
    BY DEF IInv
  <2>2. RowInv(k)' /\ JobInv(k)'
    BY <2>1 DEF IInv, TypeOK, RowInv, JobInv, Settling, Terminal
  <2>3. BusInv(k)'
    BY <2>1 DEF IInv, TypeOK, BusInv, Settling, Terminal
  <2>4. InboxInv(k)'
    BY <2>1 DEF IInv, TypeOK, RowInv, InboxInv, Terminal
  <2> QED
    BY <2>2, <2>3, <2>4
<1> QED
  BY <1>1, <1>2 DEF IInv

LEMMA SaveOutcomeStep ==
  ASSUME IInv, NEW j \in Jobs, SaveOutcome(j)
  PROVE  IInv'
<1> USE DEF SaveOutcome, SaveRow, At, bus
<1>1. TypeOK'
  BY DEF IInv, TypeOK, State, Terminal, PC, Creating, Tasking, Settling
<1>2. ASSUME NEW k \in Jobs
      PROVE  (RowInv(k) /\ JobInv(k) /\ BusInv(k) /\ InboxInv(k))'
  <2>1. RowInv(k) /\ JobInv(k) /\ BusInv(k) /\ InboxInv(k)
    BY DEF IInv
  <2>2. RowInv(k)' /\ JobInv(k)'
    BY <2>1 DEF IInv, TypeOK, RowInv, JobInv, Settling, Terminal
  <2>3. BusInv(k)'
    BY <2>1 DEF IInv, TypeOK, BusInv, Settling, Terminal
  <2>4. InboxInv(k)'
    BY <2>1 DEF IInv, TypeOK, RowInv, InboxInv, Terminal
  <2> QED
    BY <2>2, <2>3, <2>4
<1> QED
  BY <1>1, <1>2 DEF IInv

LEMMA EnqueueStep ==
  ASSUME IInv, NEW j \in Jobs, Enqueue(j)
  PROVE  IInv'
<1>0. /\ pc[j] = "inserted"
      /\ pc' = [pc EXCEPT ![j] = "queued"]
      /\ UNCHANGED <<row, inbox, up, job, events, sent, marked, faults>>
  <2>1. j \notin marked
    BY DEF Enqueue, IInv, BusInv, Settling
  <2> QED
    BY <2>1, DispatchNone DEF Enqueue, stored, bus
<1>1. TypeOK'
  BY <1>0 DEF IInv, TypeOK, State, Terminal, PC, Creating, Tasking, Settling
<1>2. ASSUME NEW k \in Jobs
      PROVE  (RowInv(k) /\ JobInv(k) /\ BusInv(k) /\ InboxInv(k))'
  <2>1. RowInv(k) /\ JobInv(k) /\ BusInv(k) /\ InboxInv(k)
    BY DEF IInv
  <2>2. RowInv(k)' /\ JobInv(k)'
    BY <1>0, <2>1 DEF IInv, TypeOK, RowInv, JobInv, Settling, Terminal
  <2>3. BusInv(k)'
    BY <1>0, <2>1 DEF IInv, TypeOK, BusInv, Settling, Terminal
  <2>4. InboxInv(k)'
    BY <1>0, <2>1 DEF IInv, TypeOK, RowInv, InboxInv, Terminal
  <2> QED
    BY <2>2, <2>3, <2>4
<1> QED
  BY <1>1, <1>2 DEF IInv

LEMMA BeginGenerationStep ==
  ASSUME IInv, NEW j \in Jobs, BeginGeneration(j)
  PROVE  IInv'
<1>0. /\ pc[j] = "started"
      /\ pc' = [pc EXCEPT ![j] = "generating"]
      /\ UNCHANGED <<row, inbox, up, job, events, sent, marked, faults>>
  <2>1. j \notin marked
    BY DEF BeginGeneration, IInv, BusInv, Settling
  <2> QED
    BY <2>1, DispatchNone DEF BeginGeneration, stored, bus
<1>1. TypeOK'
  BY <1>0 DEF IInv, TypeOK, State, Terminal, PC, Creating, Tasking, Settling
<1>2. ASSUME NEW k \in Jobs
      PROVE  (RowInv(k) /\ JobInv(k) /\ BusInv(k) /\ InboxInv(k))'
  <2>1. RowInv(k) /\ JobInv(k) /\ BusInv(k) /\ InboxInv(k)
    BY DEF IInv
  <2>2. RowInv(k)' /\ JobInv(k)'
    BY <1>0, <2>1 DEF IInv, TypeOK, RowInv, JobInv, Settling, Terminal
  <2>3. BusInv(k)'
    BY <1>0, <2>1 DEF IInv, TypeOK, BusInv, Settling, Terminal
  <2>4. InboxInv(k)'
    BY <1>0, <2>1 DEF IInv, TypeOK, RowInv, InboxInv, Terminal
  <2> QED
    BY <2>2, <2>3, <2>4
<1> QED
  BY <1>1, <1>2 DEF IInv

LEMMA BeginDispatchStep ==
  ASSUME IInv, NEW j \in Jobs, BeginDispatch(j)
  PROVE  IInv'
<1>0. /\ pc[j] = "finished"
      /\ pc' = [pc EXCEPT ![j] = "announcing"]
      /\ UNCHANGED <<row, inbox, up, job, events, sent, marked, faults>>
  <2>1. j \in marked
    BY DEF BeginDispatch, IInv, BusInv, Settling
  <2> QED
    BY <2>1, DispatchFirst DEF BeginDispatch, stored, bus
<1>1. TypeOK'
  BY <1>0 DEF IInv, TypeOK, State, Terminal, PC, Creating, Tasking, Settling
<1>2. ASSUME NEW k \in Jobs
      PROVE  (RowInv(k) /\ JobInv(k) /\ BusInv(k) /\ InboxInv(k))'
  <2>1. RowInv(k) /\ JobInv(k) /\ BusInv(k) /\ InboxInv(k)
    BY DEF IInv
  <2>2. RowInv(k)' /\ JobInv(k)'
    BY <1>0, <2>1 DEF IInv, TypeOK, RowInv, JobInv, Settling, Terminal
  <2>3. BusInv(k)'
    BY <1>0, <2>1 DEF IInv, TypeOK, BusInv, Settling, Terminal
  <2>4. InboxInv(k)'
    BY <1>0, <2>1 DEF IInv, TypeOK, RowInv, InboxInv, Terminal
  <2> QED
    BY <2>2, <2>3, <2>4
<1> QED
  BY <1>1, <1>2 DEF IInv

LEMMA InsertNotificationStep ==
  ASSUME IInv, NEW j \in Jobs, InsertNotification(j)
  PROVE  IInv'
<1>0. /\ pc[j] = "announcing"
      /\ pc' = [pc EXCEPT ![j] = "announced"]
      /\ job[j] = row[j] /\ row[j] \in Terminal
      /\ inbox' = [inbox EXCEPT ![j] = OneNotice(row[j])]
      /\ OneNotice(row[j]) \in [Terminal -> Nat]
      /\ UNCHANGED <<row, up, job, events, sent, marked, faults>>
  <2>1. RowInv(j) /\ JobInv(j) /\ BusInv(j) /\ InboxInv(j)
    BY DEF IInv
  <2>2. pc[j] = "announcing" /\ pc' = [pc EXCEPT ![j] = "announced"]
    BY DEF InsertNotification, At
  <2>3. job[j] = row[j] /\ row[j] \in Terminal
    BY <2>1, <2>2 DEF RowInv, JobInv, Settling
  <2>4. events[j][sent[j] + 1] = row[j]
    BY <2>1, <2>2, <2>3 DEF BusInv, Settling
  <2>5. inbox[j] = NoNotices /\ inbox \in [Jobs -> [Terminal -> Nat]]
    BY <2>1, <2>2 DEF InboxInv, IInv, TypeOK
  <2>6. inbox' = [inbox EXCEPT ![j] = [NoNotices EXCEPT ![row[j]] = NoNotices[row[j]] + 1]]
    BY <2>4, <2>5 DEF InsertNotification
  <2>7. NoNotices[row[j]] + 1 = 1
    BY <2>3 DEF NoNotices
  <2>8. OneNotice(row[j]) \in [Terminal -> Nat]
    BY DEF OneNotice, NoNotices
  <2> QED
    BY <2>2, <2>3, <2>6, <2>7, <2>8 DEF InsertNotification, OneNotice, bus
<1>1. TypeOK'
  BY <1>0 DEF IInv, TypeOK, State, Terminal, PC, Creating, Tasking, Settling
<1>2. ASSUME NEW k \in Jobs
      PROVE  (RowInv(k) /\ JobInv(k) /\ BusInv(k) /\ InboxInv(k))'
  <2>1. RowInv(k) /\ JobInv(k) /\ BusInv(k) /\ InboxInv(k)
    BY DEF IInv
  <2>2. RowInv(k)' /\ JobInv(k)'
    BY <1>0, <2>1 DEF IInv, TypeOK, RowInv, JobInv, Settling, Terminal
  <2>3. BusInv(k)'
    BY <1>0, <2>1 DEF IInv, TypeOK, BusInv, Settling, Terminal
  <2>4. InboxInv(k)'
    BY <1>0, <2>1 DEF IInv, TypeOK, RowInv, InboxInv, Terminal
  <2> QED
    BY <2>2, <2>3, <2>4
<1> QED
  BY <1>1, <1>2 DEF IInv

LEMMA NextEventStep ==
  ASSUME IInv, NEW j \in Jobs, NextEvent(j)
  PROVE  IInv'
<1>0. /\ pc[j] = "announced"
      /\ pc' = [pc EXCEPT ![j] = "done"]
      /\ events' = [events EXCEPT ![j] = <<>>]
      /\ marked' = marked \ {j}
      /\ UNCHANGED <<row, inbox, up, job, sent, faults>>
  <2>1. j \in marked
    BY DEF NextEvent, IInv, BusInv, Settling
  <2> QED
    BY <2>1, DispatchLast DEF NextEvent, stored
<1>1. TypeOK'
  BY <1>0 DEF IInv, TypeOK, State, Terminal, PC, Creating, Tasking, Settling
<1>2. ASSUME NEW k \in Jobs
      PROVE  (RowInv(k) /\ JobInv(k) /\ BusInv(k) /\ InboxInv(k))'
  <2>1. RowInv(k) /\ JobInv(k) /\ BusInv(k) /\ InboxInv(k)
    BY DEF IInv
  <2>2. RowInv(k)' /\ JobInv(k)'
    BY <1>0, <2>1 DEF IInv, TypeOK, RowInv, JobInv, Settling, Terminal
  <2>3. BusInv(k)'
    BY <1>0, <2>1 DEF IInv, TypeOK, BusInv, Settling, Terminal
  <2>4. InboxInv(k)'
    BY <1>0, <2>1 DEF IInv, TypeOK, RowInv, InboxInv, Terminal
  <2> QED
    BY <2>2, <2>3, <2>4
<1> QED
  BY <1>1, <1>2 DEF IInv

\* The aggregate completes, by either road.
LEMMA SettleStep ==
  ASSUME IInv, NEW j \in Jobs, NEW t \in Terminal,
         pc[j] = "generating", Settle(j, t), UNCHANGED <<stored, up, faults>>
  PROVE  IInv'
<1>0. /\ pc' = [pc EXCEPT ![j] = "finishing"]
      /\ job' = [job EXCEPT ![j] = t]
      /\ events' = [events EXCEPT ![j] = <<t>>]
      /\ marked' = marked \cup {j}
      /\ UNCHANGED <<row, inbox, up, sent, faults>>
  <2>1. events[j] = <<>> /\ sent[j] = 0
    BY DEF IInv, BusInv, Settling
  <2>2. events \in [Jobs -> Seq(Terminal)] /\ sent \in [Jobs -> Nat]
    BY DEF IInv, TypeOK
  <2>3. events' = [events EXCEPT ![j] = Append(<<>>, t)]
    BY <2>1, <2>2 DEF Settle, AddDomainEvent, markAggregateForDispatch
  <2>4. sent' = sent
    BY <2>1, <2>2 DEF Settle
  <2>5. Append(<<>>, t) = <<t>>
    OBVIOUS
  <2> QED
    BY <2>3, <2>4, <2>5 DEF Settle, AddDomainEvent, markAggregateForDispatch, stored
<1>1. TypeOK'
  BY <1>0 DEF IInv, TypeOK, State, Terminal, PC, Creating, Tasking, Settling
<1>2. ASSUME NEW k \in Jobs
      PROVE  (RowInv(k) /\ JobInv(k) /\ BusInv(k) /\ InboxInv(k))'
  <2>1. RowInv(k) /\ JobInv(k) /\ BusInv(k) /\ InboxInv(k)
    BY DEF IInv
  <2>2. RowInv(k)' /\ JobInv(k)'
    BY <1>0, <2>1 DEF IInv, TypeOK, RowInv, JobInv, Settling, Terminal
  <2>3. BusInv(k)'
    BY <1>0, <2>1 DEF IInv, TypeOK, BusInv, Settling, Terminal
  <2>4. InboxInv(k)'
    BY <1>0, <2>1 DEF IInv, TypeOK, RowInv, InboxInv, Terminal
  <2> QED
    BY <2>2, <2>3, <2>4
<1> QED
  BY <1>1, <1>2 DEF IInv

\* The process ends: what is lost is dropped, what is stored stays.
LEMMA ProcessExitStep ==
  ASSUME IInv, ProcessExit, UNCHANGED stored, faults' \in 0 .. MaxFaults
  PROVE  IInv'
<1>1. TypeOK'
  <2>1. pc' \in [Jobs -> PC]
    BY DEF IInv, TypeOK, ProcessExit, PC
  <2>2. events' \in [Jobs -> Seq(Terminal)] /\ sent' \in [Jobs -> Nat]
    BY DEF ProcessExit
  <2>3. job' \in [Jobs -> State] /\ up' \in BOOLEAN /\ marked' \subseteq Jobs
    BY DEF ProcessExit, State
  <2> QED
    BY <2>1, <2>2, <2>3 DEF IInv, TypeOK, stored
<1>2. ASSUME NEW k \in Jobs
      PROVE  (RowInv(k) /\ JobInv(k) /\ BusInv(k) /\ InboxInv(k))'
  <2>1. RowInv(k) /\ InboxInv(k) /\ pc[k] \in PC
    BY DEF IInv, TypeOK
  <2>2. pc'[k] \in {"unasked", "done", "dropped"} /\ pc'[k] \in {pc[k], "dropped"}
    BY <2>1 DEF ProcessExit, PC
  <2>3. RowInv(k)' /\ JobInv(k)'
    BY <2>1, <2>2 DEF RowInv, JobInv, ProcessExit, stored, Settling
  <2>4. BusInv(k)'
    BY <2>2 DEF BusInv, ProcessExit, Settling
  <2>5. InboxInv(k)'
    <3>1. UNCHANGED <<row, inbox>>
      BY DEF stored
    <3>2. pc'[k] \notin {"announced", "dropped"} /\ pc'[k] # "done" => pc[k] = pc'[k]
      BY <2>2
    <3> QED
      BY <2>1, <2>2, <3>1, <3>2 DEF InboxInv
  <2> QED
    BY <2>3, <2>4, <2>5
<1> QED
  BY <1>1, <1>2 DEF IInv

LEMMA GenerationEndsStep ==
  ASSUME IInv, NEW j \in Jobs, GenerationSucceeds(j) \/ GenerationFails(j)
  PROVE  IInv'
<1>1. "SUCCEEDED" \in Terminal /\ "FAILED" \in Terminal
  BY DEF Terminal
<1>2. CASE GenerationSucceeds(j)
  BY <1>1, <1>2, SettleStep DEF GenerationSucceeds, stored
<1>3. CASE GenerationFails(j)
  <2>1. isRunning(j)
    BY <1>3 DEF GenerationFails, isRunning, IInv, JobInv
  <2> QED
    BY <1>1, <1>3, <2>1, SettleStep DEF GenerationFails, Catch, stored
<1> QED
  BY <1>2, <1>3

\* An error after the outcome is decided always ends the process: the catch
\* block never fails a job a second time.
LEMMA RejectTaskStep ==
  ASSUME IInv, NEW j \in Jobs, RejectTask(j)
  PROVE  IInv'
<1>1. ProcessExit
  <2>1. job[j] = "SUCCEEDED" => ~isRunning(j)
    BY DEF isRunning
  <2> QED
    BY <2>1 DEF RejectTask, Catch
<1>2. faults' \in 0 .. MaxFaults
  BY FaultStep DEF IInv, TypeOK, RejectTask
<1> QED
  BY <1>1, <1>2, ProcessExitStep DEF RejectTask

LEMMA ProcessStep ==
  ASSUME IInv, Crash \/ Restart
  PROVE  IInv'
<1>1. CASE Crash
  BY <1>1, FaultStep, ProcessExitStep DEF Crash, IInv, TypeOK
<1>2. CASE Restart
  <2>1. UNCHANGED <<row, inbox, pc, job, events, sent, marked, faults>>
        /\ up' \in BOOLEAN
    BY <1>2 DEF Restart, stored, bus
  <2> QED
    BY <2>1 DEF IInv, TypeOK, RowInv, JobInv, BusInv, InboxInv
<1> QED
  BY <1>1, <1>2

-----------------------------------------------------------------------------
LEMMA NextIInv == IInv /\ [Next]_vars => IInv'
<1> SUFFICES ASSUME IInv, [Next]_vars PROVE IInv'
  OBVIOUS
<1>1. ASSUME NEW j \in Jobs, TaskStep(j) PROVE IInv'
  BY <1>1, InsertRowStep, EnqueueStep, LoadJobStep, StartJobStep,
     SaveRunningStep, BeginGenerationStep, SaveOutcomeStep, BeginDispatchStep,
     InsertNotificationStep, NextEventStep
  DEF TaskStep
<1>2. ASSUME NEW j \in Jobs,
             \/ Submit(j) \/ GenerationSucceeds(j) \/ GenerationFails(j)
             \/ RejectRequest(j) \/ RejectTask(j)
      PROVE  IInv'
  BY <1>2, SubmitStep, GenerationEndsStep, RejectRequestStep, RejectTaskStep
<1>3. CASE Crash \/ Restart
  BY <1>3, ProcessStep
<1>4. CASE UNCHANGED vars
  BY <1>4 DEF vars, IInv, TypeOK, RowInv, JobInv, BusInv, InboxInv
<1> QED
  BY <1>1, <1>2, <1>3, <1>4 DEF Next

LEMMA Invariance == Spec => []IInv
BY InitIInv, NextIInv, PTL DEF Spec

\* The variables stay in their types.
THEOREM TypeCorrect == Spec => []TypeOK
<1>1. IInv => TypeOK
  BY DEF IInv
<1> QED
  BY <1>1, Invariance, PTL

\* A stored notification names the terminal state its row already has.
THEOREM NoticesFollowRows == Spec => []NoticeMatchesRow
<1>1. IInv => NoticeMatchesRow
  BY DEF IInv, InboxInv, NoticeMatchesRow
<1> QED
  BY <1>1, Invariance, PTL

\* A task that returned left a terminal row and its one notification.
THEOREM DoneJobsAreComplete == Spec => []DoneIsComplete
<1>1. IInv => DoneIsComplete
  BY DEF IInv, RowInv, InboxInv, DoneIsComplete
<1> QED
  BY <1>1, Invariance, PTL

\* The generator works only for jobs the database knows to be RUNNING.
THEOREM WorkIsDurablyStarted == Spec => []WorkFollowsDurableStart
<1>1. IInv => WorkFollowsDurableStart
  BY DEF IInv, RowInv, WorkFollowsDurableStart
<1> QED
  BY <1>1, Invariance, PTL

\* The registry of marked aggregates never leaks or loses one.
THEOREM RegistryIsExact == Spec => []RegistryMatchesTasks
<1>1. IInv => RegistryMatchesTasks
  BY DEF IInv, BusInv, RegistryMatchesTasks
<1> QED
  BY <1>1, Invariance, PTL

-----------------------------------------------------------------------------
(***************************************************************************)
(* The database goes through the life of a job: four actions change it,    *)
(* each by one step of JobLifecycle, and all others leave it alone.        *)
(***************************************************************************)

LEMMA StoreStep ==
  ASSUME IInv, NEW j \in Jobs, InsertRow(j)
  PROVE  Lifecycle!Store(j)
<1>1. row[j] = "NONE" /\ job[j] = "PENDING"
  BY DEF IInv, RowInv, JobInv, InsertRow, At
<1> QED
  BY <1>1 DEF InsertRow, Lifecycle!Store, Lifecycle!Move

LEMMA StartStep ==
  ASSUME IInv, NEW j \in Jobs, SaveRunning(j)
  PROVE  Lifecycle!Start(j)
<1>1. row[j] = "PENDING" /\ job[j] = "RUNNING"
  BY DEF IInv, RowInv, JobInv, SaveRunning, At
<1> QED
  BY <1>1 DEF SaveRunning, SaveRow, Lifecycle!Start, Lifecycle!Move

LEMMA FinishStep ==
  ASSUME IInv, NEW j \in Jobs, SaveOutcome(j)
  PROVE  Lifecycle!Finish(j)
<1>1. row[j] = "RUNNING" /\ job[j] \in Terminal
  BY DEF IInv, RowInv, JobInv, SaveOutcome, At, Settling
<1>2. Lifecycle!Move(j, "RUNNING", job[j])
  BY <1>1 DEF SaveOutcome, SaveRow, Lifecycle!Move
<1> QED
  BY <1>1, <1>2 DEF Lifecycle!Finish, Lifecycle!Terminal, Terminal

LEMMA AnnounceStep ==
  ASSUME IInv, NEW j \in Jobs, InsertNotification(j)
  PROVE  Lifecycle!Announce(j)
<1>1. /\ row[j] \in Terminal /\ row[j] = job[j]
      /\ inbox[j] = NoNotices /\ inbox \in [Jobs -> [Terminal -> Nat]]
      /\ events[j] = <<job[j]>> /\ sent[j] = 0
  BY DEF IInv, TypeOK, RowInv, JobInv, BusInv, InboxInv, InsertNotification, At, Settling
<1>2. events[j][sent[j] + 1] = row[j]
  BY <1>1
<1>3. inbox' = [inbox EXCEPT ![j] = [NoNotices EXCEPT ![row[j]] = NoNotices[row[j]] + 1]]
  BY <1>1, <1>2 DEF InsertNotification
<1>4. NoNotices[row[j]] + 1 = 1
  BY <1>1 DEF NoNotices
<1>5. Lifecycle!NoNotices = NoNotices
  BY DEF NoNotices, Terminal, Lifecycle!NoNotices, Lifecycle!Terminal
<1> QED
  BY <1>1, <1>3, <1>4, <1>5
  DEF InsertNotification, Terminal, Lifecycle!Announce, Lifecycle!Terminal,
      Lifecycle!OneNotice

\* Every behaviour of the process, faults included, is a life of the jobs.
THEOREM Refinement == Spec => ImplementsLifecycle
<1>1. Init => Lifecycle!Init
  BY DEF Init, NoNotices, Terminal, Lifecycle!Init, Lifecycle!NoNotices, Lifecycle!Terminal
<1>2. IInv /\ [Next]_vars => [Lifecycle!Next]_Lifecycle!vars
  <2> SUFFICES ASSUME IInv, [Next]_vars
               PROVE  Lifecycle!Next \/ UNCHANGED Lifecycle!vars
    OBVIOUS
  <2>1. ASSUME NEW j \in Jobs,
               \/ InsertRow(j) \/ SaveRunning(j)
               \/ SaveOutcome(j) \/ InsertNotification(j)
        PROVE  Lifecycle!Next
    BY <2>1, StoreStep, StartStep, FinishStep, AnnounceStep DEF Lifecycle!Next
  <2>2. ASSUME NEW j \in Jobs,
               \/ Submit(j) \/ Enqueue(j) \/ RejectRequest(j) \/ LoadJob(j)
               \/ StartJob(j) \/ BeginGeneration(j) \/ GenerationSucceeds(j)
               \/ GenerationFails(j) \/ BeginDispatch(j) \/ NextEvent(j)
               \/ RejectTask(j)
        PROVE  UNCHANGED <<row, inbox>>
    BY <2>2
    DEF Submit, Enqueue, RejectRequest, LoadJob, StartJob, BeginGeneration,
        GenerationSucceeds, GenerationFails, BeginDispatch, NextEvent,
        RejectTask, stored
  <2>3. CASE Crash \/ Restart
    BY <2>3 DEF Crash, Restart, stored, Lifecycle!vars
  <2>4. CASE UNCHANGED vars
    BY <2>4 DEF vars, Lifecycle!vars
  <2> QED
    BY <2>1, <2>2, <2>3, <2>4 DEF Next, TaskStep, Lifecycle!vars
<1> QED
  BY <1>1, <1>2, Invariance, PTL DEF Spec, ImplementsLifecycle, Lifecycle!Spec

-----------------------------------------------------------------------------
(***************************************************************************)
(* No step repeats.  The control of a job only moves forward, so the rank  *)
(* below bounds what a job can ever do, over any number of crashes and     *)
(* restarts.                                                               *)
(***************************************************************************)

\* How far the control of a job has got; a dropped job is past everything.
Rank(here) ==
  CASE here = "unasked" -> 0     [] here = "inserting" -> 1
    [] here = "inserted" -> 2    [] here = "queued" -> 3
    [] here = "loaded" -> 4      [] here = "starting" -> 5
    [] here = "started" -> 6     [] here = "generating" -> 7
    [] here = "finishing" -> 8   [] here = "finished" -> 9
    [] here = "announcing" -> 10 [] here = "announced" -> 11
    [] here = "done" -> 12       [] here = "dropped" -> 13

Ended == {"done", "dropped"}

\* Nothing of job k changes, but its bus may.
Rests(k) ==
  pc'[k] = pc[k] /\ job'[k] = job[k] /\ row'[k] = row[k] /\ inbox'[k] = inbox[k]

\* Job j takes a step of its own, the others rest, and the process goes on.
Advances(j) ==
  /\ \A k \in Jobs \ {j} : Rests(k)
  /\ pc[j] \notin Ended
  /\ pc[j] = "unasked" => up
  /\ Rank(pc'[j]) > Rank(pc[j])
  /\ pc'[j] = "dropped" => faults < faults'
  /\ job[j] = "SUCCEEDED" => job'[j] = "SUCCEEDED" /\ row'[j] # "FAILED"
  /\ up' = up
  /\ faults' \in {faults, faults + 1}

\* The process ends by a fault.
Ends == ProcessExit /\ UNCHANGED stored /\ faults < faults' /\ faults' = faults + 1

LEMMA AdvanceStep ==
  ASSUME IInv, NEW j \in Jobs,
         \/ Submit(j) \/ TaskStep(j) \/ GenerationSucceeds(j)
         \/ GenerationFails(j) \/ RejectRequest(j)
  PROVE  Advances(j)
<1>0. /\ TypeOK /\ RowInv(j) /\ JobInv(j) /\ BusInv(j)
      /\ faults \in Nat
  BY FaultAssumption DEF IInv, TypeOK
<1> DEFINE Moves(from, to) ==
             /\ pc[j] = from /\ pc' = [pc EXCEPT ![j] = to]
             /\ UNCHANGED <<up, faults>>
<1>1. CASE Submit(j)
  BY <1>0, <1>1 DEF TypeOK, JobInv, Submit, At, stored, Advances, Rests, Ended, Rank
<1>2. CASE InsertRow(j) \/ SaveRunning(j)
  BY <1>0, <1>2 DEF TypeOK, RowInv, JobInv, InsertRow, SaveRunning, SaveRow, At,
                    Advances, Rests, Ended, Rank
<1>3. CASE LoadJob(j)
  BY <1>0, <1>3 DEF TypeOK, JobInv, RowInv, LoadJob, At, stored, Advances, Rests, Ended, Rank
<1>4. CASE StartJob(j)
  BY <1>0, <1>4 DEF TypeOK, JobInv, StartJob, stored, Advances, Rests, Ended, Rank
<1>5. CASE Enqueue(j) \/ BeginGeneration(j)
  <2>1. Moves("inserted", "queued") \/ Moves("started", "generating")
    BY <1>0, <1>5, DispatchNone DEF BusInv, Settling, Enqueue, BeginGeneration
  <2>2. UNCHANGED <<row, inbox, job>> /\ row[j] # "FAILED"
    BY <1>0, <1>5 DEF RowInv, Enqueue, BeginGeneration, stored
  <2> QED
    BY <1>0, <2>1, <2>2 DEF TypeOK, Advances, Rests, Ended, Rank
<1>6. CASE SaveOutcome(j)
  BY <1>0, <1>6 DEF TypeOK, SaveOutcome, SaveRow, At, Advances, Rests, Ended, Rank
<1>7. CASE BeginDispatch(j)
  <2>1. Moves("finished", "announcing")
    BY <1>0, <1>7, DispatchFirst DEF BusInv, Settling, BeginDispatch
  <2>2. UNCHANGED <<row, inbox, job>> /\ row[j] = job[j]
    BY <1>0, <1>7 DEF RowInv, BeginDispatch, stored
  <2> QED
    BY <1>0, <2>1, <2>2 DEF TypeOK, Advances, Rests, Ended, Rank
<1>8. CASE InsertNotification(j)
  BY <1>0, <1>8 DEF TypeOK, RowInv, InsertNotification, At, Advances, Rests, Ended, Rank
<1>9. CASE NextEvent(j)
  <2>1. Moves("announced", "done")
    BY <1>0, <1>9, DispatchLast DEF BusInv, Settling, NextEvent
  <2>2. UNCHANGED <<row, inbox, job>> /\ row[j] = job[j]
    BY <1>0, <1>9 DEF RowInv, NextEvent, stored
  <2> QED
    BY <1>0, <2>1, <2>2 DEF TypeOK, Advances, Rests, Ended, Rank
<1>10. CASE GenerationSucceeds(j) \/ GenerationFails(j)
  <2>1. \E t \in Terminal : Settle(j, t) /\ pc[j] = "generating"
                            /\ UNCHANGED <<row, inbox, up, faults>>
    BY <1>0, <1>10 DEF JobInv, GenerationSucceeds, GenerationFails, Catch, isRunning,
                       Terminal, stored
  <2> QED
    BY <1>0, <2>1 DEF TypeOK, JobInv, Settle, Advances, Rests, Ended, Rank
<1>11. CASE RejectRequest(j)
  <2>1. job[j] # "SUCCEEDED"
    BY <1>0, <1>11 DEF RejectRequest, Creating, IInv, JobInv
  <2> QED
    BY <1>0, <1>11, <2>1 DEF TypeOK, RejectRequest, Creating, Fault, stored,
                              Advances, Rests, Ended, Rank
<1> QED
  BY <1>1, <1>2, <1>3, <1>4, <1>5, <1>6, <1>7, <1>8, <1>9, <1>10, <1>11 DEF TaskStep

LEMMA EndStep ==
  ASSUME IInv, Crash \/ \E j \in Jobs : RejectTask(j)
  PROVE  Ends
<1>1. faults \in Nat
  BY FaultAssumption DEF IInv, TypeOK
<1>2. CASE Crash
  BY <1>1, <1>2 DEF Crash, Fault, Ends
<1>3. ASSUME NEW j \in Jobs, RejectTask(j) PROVE Ends
  <2>1. job[j] = "SUCCEEDED" => ~isRunning(j)
    BY DEF isRunning
  <2> QED
    BY <1>1, <1>3, <2>1 DEF RejectTask, Catch, Fault, Ends
<1> QED
  BY <1>2, <1>3

\* Whatever happens is one of four things.
LEMMA StepCases ==
  ASSUME IInv, [Next]_vars
  PROVE  (\E j \in Jobs : Advances(j)) \/ Ends \/ Restart \/ UNCHANGED vars
BY AdvanceStep, EndStep DEF Next

\* A process that ends drops what it had in hand and advances nothing else.
LEMMA EndsControl ==
  ASSUME TypeOK, Ends, NEW j \in Jobs
  PROVE  /\ row'[j] = row[j] /\ inbox'[j] = inbox[j] /\ job'[j] = "NONE"
         /\ \/ pc'[j] = pc[j] /\ pc[j] \in {"unasked"} \cup Ended
            \/ pc'[j] = "dropped" /\ pc[j] \in Creating \cup Tasking
BY DEF TypeOK, PC, Ends, ProcessExit, stored, Ended

\* Every job goes forward only: no fault, crash or restart makes the service
\* load, start, generate, save or announce a job again, so generate() is
\* entered at most once for a job, and a job takes at most 13 steps
\* (ProcessGenerationJobUseCase.execute, and no requeue at start-up).
ControlAdvances ==
  [][\A j \in Jobs : pc'[j] = pc[j] \/ Rank(pc'[j]) > Rank(pc[j])]_pc

\* For any number of jobs, faults and restarts, each job goes forward only:
\* every step that concerns it either leaves its place or increases its rank.
THEOREM NothingRepeats == Spec => ControlAdvances
<1> DEFINE Forward == \A j \in Jobs : pc'[j] = pc[j] \/ Rank(pc'[j]) > Rank(pc[j])
<1>1. IInv /\ [Next]_vars => [Forward]_pc
  <2> SUFFICES ASSUME IInv, [Next]_vars PROVE Forward \/ UNCHANGED pc
    OBVIOUS
  <2>1. ASSUME NEW j \in Jobs, Advances(j) PROVE Forward
    BY <2>1 DEF Advances, Rests
  <2>2. CASE Ends
    <3> SUFFICES ASSUME NEW j \in Jobs PROVE pc'[j] = pc[j] \/ Rank(pc'[j]) > Rank(pc[j])
      OBVIOUS
    <3>1. \/ pc'[j] = pc[j]
          \/ pc'[j] = "dropped" /\ pc[j] \in Creating \cup Tasking
      BY <2>2, EndsControl DEF IInv
    <3> QED
      BY <3>1 DEF Rank, Creating, Tasking, Settling
  <2>3. CASE Restart \/ UNCHANGED vars
    BY <2>3 DEF Restart, vars
  <2> QED
    BY <2>1, <2>2, <2>3, StepCases
<1> QED
  BY <1>1, Invariance, PTL DEF Spec, ControlAdvances

\* What has ended is final: once a task has returned or was lost with the
\* process, nothing in the service touches the job's row or notification
\* again; a row that a crash left PENDING or RUNNING stays so for ever.
EndedIsForEver ==
  [][\A j \in Jobs : pc[j] \in Ended =>
       pc'[j] = pc[j] /\ row'[j] = row[j] /\ inbox'[j] = inbox[j]]_vars

\* What has ended is final, for every job and through every later step, crash
\* and restart of the service.
THEOREM EndedJobsRest == Spec => EndedIsForEver
<1> DEFINE Final == \A j \in Jobs : pc[j] \in Ended =>
                      pc'[j] = pc[j] /\ row'[j] = row[j] /\ inbox'[j] = inbox[j]
<1>1. IInv /\ [Next]_vars => [Final]_vars
  <2> SUFFICES ASSUME IInv, [Next]_vars PROVE Final \/ UNCHANGED vars
    OBVIOUS
  <2>1. ASSUME NEW j \in Jobs, Advances(j) PROVE Final
    BY <2>1 DEF Advances, Rests
  <2>2. CASE Ends
    <3> SUFFICES ASSUME NEW j \in Jobs, pc[j] \in Ended
                 PROVE  pc'[j] = pc[j] /\ row'[j] = row[j] /\ inbox'[j] = inbox[j]
      OBVIOUS
    <3>1. pc[j] \notin Creating \cup Tasking
      BY DEF Ended, Creating, Tasking, Settling
    <3> QED
      BY <2>2, <3>1, EndsControl DEF IInv
  <2>3. CASE Restart
    BY <2>3 DEF Restart, stored
  <2> QED
    BY <2>1, <2>2, <2>3, StepCases
<1> QED
  BY <1>1, Invariance, PTL DEF Spec, EndedIsForEver

\* The catch block stands around the save of a success as well as around
\* generate(), and still never turns a success into a failure: an instance
\* that has succeeded stays so or is lost, and its row is never FAILED.
SuccessIsNotRevoked ==
  [][\A j \in Jobs : job[j] = "SUCCEEDED" =>
       job'[j] \in {"SUCCEEDED", "NONE"} /\ row'[j] # "FAILED"]_vars

\* An error of saving or announcing a success lands in the catch block, and
\* the block leaves the job alone: no success is ever revoked.
THEOREM SuccessStands == Spec => SuccessIsNotRevoked
<1> DEFINE Stands == \A j \in Jobs : job[j] = "SUCCEEDED" =>
                       job'[j] \in {"SUCCEEDED", "NONE"} /\ row'[j] # "FAILED"
<1>1. IInv /\ [Next]_vars => [Stands]_vars
  <2> SUFFICES ASSUME IInv, [Next]_vars PROVE Stands \/ UNCHANGED vars
    OBVIOUS
  <2>1. ASSUME NEW j \in Jobs, job[j] = "SUCCEEDED" PROVE row[j] # "FAILED"
    BY <2>1 DEF IInv, TypeOK, PC, Creating, Tasking, Settling, Terminal, RowInv, JobInv
  <2>2. ASSUME NEW j \in Jobs, Advances(j) PROVE Stands
    BY <2>1, <2>2 DEF Advances, Rests
  <2>3. CASE Ends
    BY <2>1, <2>3, EndsControl DEF IInv
  <2>4. CASE Restart
    BY <2>1, <2>4 DEF Restart, stored
  <2> QED
    BY <2>2, <2>3, <2>4, StepCases
<1> QED
  BY <1>1, Invariance, PTL DEF Spec, SuccessIsNotRevoked

-----------------------------------------------------------------------------
(***************************************************************************)
(* What is lost, is lost by a fault.                                       *)
(***************************************************************************)

\* A process that has ended has nothing in hand, and without a fault none
\* ends and nothing is dropped.
LossInv ==
  /\ ~up => \A j \in Jobs : pc[j] \in {"unasked"} \cup Ended
  /\ faults = 0 => up /\ \A j \in Jobs : pc[j] # "dropped"

LEMMA InitLoss == Init => LossInv
BY DEF Init, LossInv, Ended

LEMMA NextLoss == IInv /\ LossInv /\ [Next]_vars => LossInv'
<1> SUFFICES ASSUME IInv, LossInv, [Next]_vars PROVE LossInv'
  OBVIOUS
<1>1. TypeOK /\ faults \in Nat
  BY FaultAssumption DEF IInv, TypeOK
<1>2. ASSUME NEW j \in Jobs, Advances(j) PROVE LossInv'
  <2>1. up
    BY <1>2 DEF LossInv, Advances
  <2>2. faults' = 0 => \A k \in Jobs : pc'[k] # "dropped"
    BY <1>1, <1>2 DEF LossInv, Advances, Rests
  <2> QED
    BY <1>1, <1>2, <2>1, <2>2 DEF LossInv, Advances
<1>3. CASE Ends
  <2>1. faults' # 0
    BY <1>1, <1>3 DEF Ends
  <2>2. \A j \in Jobs : pc'[j] \in {"unasked"} \cup Ended
    BY <1>1, <1>3, EndsControl DEF Ended
  <2> QED
    BY <2>1, <2>2 DEF LossInv
<1>4. CASE Restart
  BY <1>4 DEF Restart, LossInv
<1>5. CASE UNCHANGED vars
  BY <1>5 DEF vars, LossInv
<1> QED
  BY <1>2, <1>3, <1>4, <1>5, StepCases

LEMMA LossInvariance == Spec => [](IInv /\ LossInv)
BY InitIInv, NextIInv, InitLoss, NextLoss, PTL DEF Spec

\* No job is stranded without a fault: as long as no database call has failed
\* and the process has not crashed, a row that is not terminal has its task
\* on the way, and a terminal row without its notification is about to get
\* one.  Interleavings alone never lose the notification that docs/PRD.md:88
\* speaks of.
StrandedOnlyByFault ==
  faults = 0 =>
    \A j \in Jobs :
      /\ row[j] \in {"PENDING", "RUNNING"} => pc[j] \in Creating \cup Tasking
      /\ row[j] \in Terminal =>
           inbox[j] = OneNotice(row[j]) \/ pc[j] \in {"finished", "announcing"}

\* Without a fault no job is stranded and no notification lost, however the
\* tasks of any number of jobs interleave.
THEOREM NoneStrandedWithoutFault == Spec => []StrandedOnlyByFault
<1>1. IInv /\ LossInv => StrandedOnlyByFault
  <2> SUFFICES ASSUME IInv, LossInv, faults = 0, NEW j \in Jobs
               PROVE  /\ row[j] \in {"PENDING", "RUNNING"} =>
                           pc[j] \in Creating \cup Tasking
                      /\ row[j] \in Terminal =>
                           \/ inbox[j] = OneNotice(row[j])
                           \/ pc[j] \in {"finished", "announcing"}
    BY DEF StrandedOnlyByFault
  <2>1. pc[j] \in PC \ {"dropped"} /\ RowInv(j) /\ InboxInv(j)
    BY DEF IInv, TypeOK, LossInv
  <2> QED
    BY <2>1 DEF PC, Creating, Tasking, Settling, Terminal, RowInv, InboxInv
<1> QED
  BY <1>1, LossInvariance, PTL

=============================================================================
