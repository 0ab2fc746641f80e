---------------------------- MODULE AccountsProofs ----------------------------
(***************************************************************************)
(* Accounts, proved for any number of requests, emails and passwords and   *)
(* for every lifetime and resolution of the clock.  Once a row is there it *)
(* never changes, so what a request has read of it stays true; and a token *)
(* that was signed keeps its times.                                        *)
(***************************************************************************)
EXTENDS Accounts, TLAPS

\* A row belongs to the email its request gave, and a request that was told
\* so owns it.
RowInv ==
  /\ \A e \in Emails : account[e] # None => lower[email[account[e]]] = e
  /\ \A r \in Registrations :
       pc[r] \in {"inserted", "created"} => account[lower[email[r]]] = r

\* What a login has read of its account, and what its token says.
LoginInv(l) ==
  /\ pc[l] \in {"comparing", "granted"} =>
       id[l] # None /\ account[lower[email[l]]] = id[l]
  /\ pc[l] = "granted" =>
       /\ password[l] = password[id[l]]
       /\ exp[l] = Seconds(issued[l]) + Lifetime
  /\ call[l] # "none" => pc[l] = "granted"
  /\ call[l] \in {"verified", "admitted"} => exp[l] > Seconds(checked[l])
  /\ call[l] = "refused" => exp[l] <= Seconds(checked[l])

IInv == TypeOK /\ RowInv /\ \A l \in Logins : LoginInv(l)

-----------------------------------------------------------------------------

\* Whole seconds and ticks.
LEMMA SecondsBounds ==
  ASSUME NEW t \in Nat
  PROVE  /\ Seconds(t) \in Nat
         /\ TicksPerSecond * Seconds(t) <= t
         /\ t < TicksPerSecond * Seconds(t) + TicksPerSecond
  BY TokenAssumption DEF Seconds

\* Verified within the lifetime in seconds is young in ticks.
LEMMA YoungInTicks ==
  ASSUME NEW i \in Nat, NEW c \in Nat, Seconds(i) + Lifetime > Seconds(c)
  PROVE  c - i < Lifetime * TicksPerSecond
  <1> DEFINE T == TicksPerSecond
  <1>1. T \in Nat \ {0} /\ Lifetime \in Nat \ {0}
    BY TokenAssumption
  <1>2. /\ Seconds(i) \in Nat /\ T * Seconds(i) <= i
        /\ Seconds(c) \in Nat /\ c < T * Seconds(c) + T
    BY SecondsBounds
  <1> HIDE DEF T
  <1>3. T * (Seconds(c) + 1) <= T * (Seconds(i) + Lifetime)
    BY <1>1, <1>2
  <1>4. T * Seconds(c) + T <= T * Seconds(i) + Lifetime * T
    BY <1>1, <1>2, <1>3
  <1> QED
    BY <1>1, <1>2, <1>4 DEF T

\* Expired in seconds has used up all but a second in ticks.
LEMMA OldInTicks ==
  ASSUME NEW i \in Nat, NEW c \in Nat, Seconds(i) + Lifetime <= Seconds(c)
  PROVE  c - i > (Lifetime - 1) * TicksPerSecond
  <1> DEFINE T == TicksPerSecond
  <1>1. T \in Nat \ {0} /\ Lifetime \in Nat \ {0}
    BY TokenAssumption
  <1>2. /\ Seconds(i) \in Nat /\ i < T * Seconds(i) + T
        /\ Seconds(c) \in Nat /\ T * Seconds(c) <= c
    BY SecondsBounds
  <1> HIDE DEF T
  <1>3. T * (Seconds(i) + Lifetime) <= T * Seconds(c)
    BY <1>1, <1>2
  <1>4. T * Seconds(i) + T + (Lifetime - 1) * T <= T * Seconds(c)
    BY <1>1, <1>2, <1>3
  <1> QED
    BY <1>1, <1>2, <1>4 DEF T

-----------------------------------------------------------------------------

LEMMA InitIInv == Init => IInv
  <1> SUFFICES ASSUME Init PROVE IInv
    OBVIOUS
  <1>1. 0 \in Time /\ 0 \in 0 .. MaxFaults
    BY BoundAssumption DEF Time
  <1>2. TypeOK
    BY <1>1 DEF Init, TypeOK, PC
  <1>3. RowInv /\ \A l \in Logins : LoginInv(l)
    BY DEF Init, RowInv, LoginInv, Requests
  <1> QED
    BY <1>2, <1>3 DEF IInv

\* A registration step keeps every row and touches no login.
LEMMA RegistrationKeeps ==
  ASSUME IInv, NEW r \in Registrations, RegistrationStep(r)
  PROVE  IInv'
  <1> USE NoneAssumption, DisjointAssumption, LowerAssumption DEF Goto, normalizedEmail, storedEmail, input, token, guard, Requests, RegistrationStep
  <1>1. TypeOK'
    <2>1. CASE Register(r) \/ AnswerCreated(r)
      BY <2>1 DEF IInv, TypeOK, PC, Register, AnswerCreated
    <2>2. CASE FindByEmail(r)
      BY <2>2 DEF IInv, TypeOK, PC, FindByEmail
    <2>3. CASE Insert(r)
      BY <2>3 DEF IInv, TypeOK, PC, Insert
    <2> QED
      BY <2>1, <2>2, <2>3
  <1>2. UNCHANGED <<email, password, id, issued, exp, call, checked>>
    BY DEF Register, FindByEmail, Insert, AnswerCreated
  <1>3. \A e \in Emails : account[e] # None => account'[e] = account[e]
    BY DEF IInv, TypeOK, Register, FindByEmail, Insert, AnswerCreated
  <1>4. \A q \in Requests \ {r} : pc'[q] = pc[q]
    BY DEF IInv, TypeOK, Register, FindByEmail, Insert, AnswerCreated
  <1>5. RowInv'
    <2>1. \A e \in Emails : account'[e] # None => lower[email'[account'[e]]] = e
      BY DEF IInv, TypeOK, RowInv, Register, FindByEmail, Insert, AnswerCreated
    <2>2. ASSUME NEW q \in Registrations, pc'[q] \in {"inserted", "created"}
          PROVE  account'[lower[email'[q]]] = q
      <3>1. CASE q = r
        BY <2>2, <3>1 DEF IInv, TypeOK, RowInv, Register, FindByEmail, Insert, AnswerCreated
      <3>2. CASE q # r
        BY <2>2, <3>2, <1>2, <1>3, <1>4 DEF IInv, TypeOK, RowInv
      <3> QED
        BY <3>1, <3>2
    <2> QED
      BY <2>1, <2>2 DEF RowInv
  <1>6. ASSUME NEW l \in Logins PROVE LoginInv(l)'
    <2>1. pc'[l] = pc[l]
      BY <1>4
    <2>2. lower[email[l]] \in Emails
      BY DEF IInv, TypeOK
    <2> QED
      BY <1>2, <1>3, <2>1, <2>2 DEF IInv, LoginInv, Seconds
  <1> QED
    BY <1>1, <1>5, <1>6 DEF IInv

\* A login step keeps the rows and the other logins.
LEMMA LoginKeeps ==
  ASSUME IInv, NEW l \in Logins, LoginStep(l)
  PROVE  IInv'
  <1> USE NoneAssumption, DisjointAssumption, LowerAssumption DEF Goto, normalizedEmail, storedEmail, input, token, guard, Requests, LoginStep
  <1>1. TypeOK'
    <2>1. CASE LogIn(l) \/ LookUp(l)
      BY <2>1 DEF IInv, TypeOK, PC, LogIn, LookUp
    <2>2. CASE Compare(l)
      <3>1. now \in Nat /\ Seconds(now) \in Nat
        BY SecondsBounds, BoundAssumption DEF IInv, TypeOK, Time
      <3>2. Seconds(now) + Lifetime \in Nat
        BY <3>1, TokenAssumption
      <3> QED
        BY <2>2, <3>2 DEF IInv, TypeOK, PC, Compare, signJwt
    <2>3. CASE Verify(l) \/ Admit(l) \/ CallAgain(l)
      BY <2>3 DEF IInv, TypeOK, Verify, Admit, CallAgain
    <2> QED
      BY <2>1, <2>2, <2>3
  <1>2. UNCHANGED <<account, email, password>>
    BY DEF LogIn, LookUp, Compare, Verify, Admit, CallAgain
  <1>3. \A q \in Requests \ {l} : pc'[q] = pc[q]
    BY DEF IInv, TypeOK, LogIn, LookUp, Compare, Verify, Admit, CallAgain
  <1>4. \A k \in Logins \ {l} : /\ id'[k] = id[k] /\ issued'[k] = issued[k] /\ exp'[k] = exp[k]
                                /\ call'[k] = call[k] /\ checked'[k] = checked[k]
    BY DEF IInv, TypeOK, LogIn, LookUp, Compare, Verify, Admit, CallAgain, signJwt
  <1>5. RowInv'
    BY <1>2, <1>3 DEF IInv, RowInv
  <1>6. ASSUME NEW k \in Logins \ {l} PROVE LoginInv(k)'
    BY <1>2, <1>3, <1>4 DEF IInv, LoginInv, Seconds
  <1>7. LoginInv(l)'
    <2>1. CASE LogIn(l)
      BY <2>1 DEF IInv, TypeOK, LoginInv, LogIn, Seconds
    <2>2. CASE LookUp(l)
      BY <2>2 DEF IInv, TypeOK, LoginInv, LookUp, Seconds
    <2>3. CASE Compare(l)
      BY <2>3 DEF IInv, TypeOK, LoginInv, Compare, signJwt, Seconds
    <2>4. CASE Verify(l)
      <3>1. Seconds(now) \in Nat /\ exp[l] \in Nat
        BY SecondsBounds, BoundAssumption DEF IInv, TypeOK, Time
      <3>2. /\ pc[l] = "granted"
            /\ call' = [call EXCEPT ![l] = IF exp[l] > Seconds(now) THEN "verified" ELSE "refused"]
            /\ checked' = [checked EXCEPT ![l] = now]
            /\ UNCHANGED <<account, email, password, pc, id, issued, exp>>
        BY <2>4 DEF Verify, verifyJwt
      <3>3. checked'[l] = now
        BY <3>2 DEF IInv, TypeOK
      <3>4. Seconds(checked[l])' = Seconds(now)
        BY <3>3 DEF Seconds
      <3>5. \/ exp[l] > Seconds(now) /\ call'[l] = "verified"
            \/ exp[l] <= Seconds(now) /\ call'[l] = "refused"
        BY <3>1, <3>2 DEF IInv, TypeOK
      <3>6. Seconds(issued[l])' = Seconds(issued[l])
        BY <3>2 DEF Seconds
      <3> QED
        BY <3>2, <3>4, <3>5, <3>6 DEF IInv, LoginInv
    <2>5. CASE Admit(l)
      <3>1. account[lower[email[l]]] = id[l] /\ lower[email[l]] \in Emails
        BY <2>5 DEF Admit, IInv, LoginInv, TypeOK
      <3>2. call'[l] = "admitted"
        BY <2>5, <3>1 DEF Admit, IInv, TypeOK
      <3> QED
        BY <2>5, <3>2 DEF IInv, LoginInv, Admit, Seconds
    <2>6. CASE CallAgain(l)
      BY <2>6 DEF IInv, TypeOK, LoginInv, CallAgain, Seconds
    <2> QED
      BY <2>1, <2>2, <2>3, <2>4, <2>5, <2>6
  <1> QED
    BY <1>1, <1>5, <1>6, <1>7 DEF IInv

LEMMA NextIInv == IInv /\ [Next]_vars => IInv'
  <1> SUFFICES ASSUME IInv, [Next]_vars PROVE IInv'
    OBVIOUS
  <1>1. ASSUME NEW r \in Registrations, RegistrationStep(r) PROVE IInv'
    BY <1>1, RegistrationKeeps
  <1>2. ASSUME NEW l \in Logins, LoginStep(l) PROVE IInv'
    BY <1>2, LoginKeeps
  <1>3. ASSUME NEW r \in Requests, Fail(r) PROVE IInv'
    <2>1. TypeOK'
      BY <1>3, BoundAssumption DEF IInv, TypeOK, PC, Fail, Goto, input, token, guard
    <2>2. RowInv'
      BY <1>3 DEF IInv, TypeOK, RowInv, Fail, Goto, input, token, guard, Requests
    <2>3. ASSUME NEW l \in Logins PROVE LoginInv(l)'
      BY <1>3 DEF IInv, TypeOK, LoginInv, Fail, Goto, input, token, guard, Requests, Seconds
    <2> QED
      BY <2>1, <2>2, <2>3 DEF IInv
  <1>4. CASE Tick
    <2>1. TypeOK'
      BY <1>4, BoundAssumption DEF IInv, TypeOK, Time, Tick, input, token, guard
    <2>2. RowInv' /\ \A l \in Logins : LoginInv(l)'
      BY <1>4 DEF IInv, RowInv, LoginInv, Tick, input, token, guard, Seconds
    <2> QED
      BY <2>1, <2>2 DEF IInv
  <1>5. CASE UNCHANGED vars
    BY <1>5 DEF IInv, TypeOK, RowInv, LoginInv, vars, input, token, guard, Seconds
  <1> QED
    BY <1>1, <1>2, <1>3, <1>4, <1>5 DEF Next

LEMMA Invariance == Spec => []IInv
  BY InitIInv, NextIInv, PTL DEF Spec

-----------------------------------------------------------------------------

\* Every variable keeps its type.
THEOREM TypeCorrect == Spec => []TypeOK
  <1>1. IInv => TypeOK
    BY DEF IInv
  <1> QED
    BY <1>1, Invariance, PTL

\* A 201 goes to one winner of a race, and the account is the winner's.
THEOREM CreatedMeansOwned == Spec => []CreatedOwnsEmail
  <1>1. IInv => CreatedOwnsEmail
    BY DEF IInv, RowInv, CreatedOwnsEmail
  <1> QED
    BY <1>1, Invariance, PTL

\* The guard admits the bearer of a token only for the account whose email
\* and password the login gave.
THEOREM AdmissionNeedsPassword == Spec => []AdmittedIsOwner
  <1>1. IInv => AdmittedIsOwner
    <2> SUFFICES ASSUME IInv, NEW l \in Logins, call[l] = "admitted"
                 PROVE  \E r \in Registrations : /\ account[lower[email[l]]] = r
                                                 /\ lower[email[r]] = lower[email[l]]
                                                 /\ password[r] = password[l]
      BY DEF AdmittedIsOwner
    <2>1. /\ id[l] \in Registrations /\ account[lower[email[l]]] = id[l]
          /\ password[l] = password[id[l]]
      BY DEF IInv, TypeOK, LoginInv
    <2>2. lower[email[l]] \in Emails
      BY LowerAssumption DEF IInv, TypeOK, Requests
    <2>3. lower[email[id[l]]] = lower[email[l]]
      BY <2>1, <2>2, NoneAssumption DEF IInv, RowInv
    <2> QED
      BY <2>1, <2>3
  <1> QED
    BY <1>1, Invariance, PTL

\* For every lifetime and resolution: a token never outlives its lifetime.
THEOREM AcceptedTokensAreYoung == Spec => []AcceptedIsYoung
  <1>1. IInv => AcceptedIsYoung
    <2> SUFFICES ASSUME IInv, NEW l \in Logins, call[l] \in {"verified", "admitted"}
                 PROVE  checked[l] - issued[l] < Lifetime * TicksPerSecond
      BY DEF AcceptedIsYoung
    <2>1. Seconds(issued[l]) + Lifetime > Seconds(checked[l])
      BY DEF IInv, LoginInv
    <2>2. issued[l] \in Nat /\ checked[l] \in Nat
      BY BoundAssumption DEF IInv, TypeOK, Time
    <2> QED
      BY <2>1, <2>2, YoungInTicks
  <1> QED
    BY <1>1, Invariance, PTL

\* For every lifetime and resolution: rounding to whole seconds costs a token
\* less than one second.
THEOREM RefusedTokensAreOld == Spec => []RefusedIsOld
  <1>1. IInv => RefusedIsOld
    <2> SUFFICES ASSUME IInv, NEW l \in Logins, call[l] = "refused"
                 PROVE  checked[l] - issued[l] > (Lifetime - 1) * TicksPerSecond
      BY DEF RefusedIsOld
    <2>1. Seconds(issued[l]) + Lifetime <= Seconds(checked[l])
      BY DEF IInv, LoginInv
    <2>2. issued[l] \in Nat /\ checked[l] \in Nat
      BY BoundAssumption DEF IInv, TypeOK, Time
    <2> QED
      BY <2>1, <2>2, OldInTicks
  <1> QED
    BY <1>1, Invariance, PTL

-----------------------------------------------------------------------------
(***************************************************************************)
(* Emails and refusals.                                                    *)
(***************************************************************************)

\* A registration without an account, after its look-up or its insert, lost
\* its email to another, or met a fault.
RefusalInv ==
  \A r \in Registrations :
    /\ pc[r] = "conflict" => account[lower[email[r]]] \notin {None, r}
    /\ pc[r] = "error" => faults > 0 \/ account[lower[email[r]]] \notin {None, r}
    /\ pc[r] \in {"idle", "finding", "hashed"} => account[lower[email[r]]] # r
    /\ pc[r] = "abandoned" => faults > 0

\* A registration is refused for a reason: 409 only when another account holds
\* its email, 500 only then or when the database failed it.  That a taken
\* email always is a 409 is what a run refutes.
RefusalsHaveCause ==
  \A r \in Registrations :
    LET winner == account[lower[email[r]]] IN
    /\ pc[r] = "conflict" => winner \notin {None, r}
    /\ pc[r] = "error" => faults > 0 \/ winner \notin {None, r}

\* A row only appears, by the insert of the registration that gave its email.
LEMMA RowsOnlyAppear ==
  ASSUME IInv, [Next]_vars
  PROVE  /\ UNCHANGED <<email, password>>
         /\ \/ UNCHANGED account
            \/ \E r \in Registrations :
                 /\ Insert(r)
                 /\ account[lower[email[r]]] = None
                 /\ account' = [account EXCEPT ![lower[email[r]]] = r]
  <1> USE DEF input, token, guard
  <1>1. ASSUME NEW r \in Registrations, RegistrationStep(r)
        PROVE  /\ UNCHANGED <<email, password>>
               /\ UNCHANGED account
                  \/ /\ Insert(r)
                     /\ account[lower[email[r]]] = None
                     /\ account' = [account EXCEPT ![lower[email[r]]] = r]
    BY <1>1 DEF RegistrationStep, Register, FindByEmail, Insert, AnswerCreated, storedEmail
  <1>2. ASSUME NEW l \in Logins, LoginStep(l) PROVE UNCHANGED <<account, email, password>>
    BY <1>2 DEF LoginStep, LogIn, LookUp, Compare, Verify, Admit, CallAgain
  <1>3. ASSUME NEW r \in Requests, Fail(r) PROVE UNCHANGED <<account, email, password>>
    BY <1>3 DEF Fail
  <1>4. CASE Tick \/ UNCHANGED vars
    BY <1>4 DEF Tick, vars
  <1> QED
    BY <1>1, <1>2, <1>3, <1>4 DEF Next

LEMMA NextRefusal == IInv /\ RefusalInv /\ [Next]_vars => RefusalInv'
  <1> SUFFICES ASSUME IInv, RefusalInv, [Next]_vars PROVE RefusalInv'
    OBVIOUS
  <1> USE NoneAssumption, DisjointAssumption, LowerAssumption
      DEF input, token, guard, Requests, Goto, normalizedEmail, storedEmail
  <1>1. ASSUME NEW r \in Registrations, RegistrationStep(r) PROVE RefusalInv'
    <2>1. CASE Register(r) \/ AnswerCreated(r)
      BY <1>1, <2>1 DEF IInv, TypeOK, RefusalInv, Register, AnswerCreated
    <2>2. CASE FindByEmail(r)
      BY <1>1, <2>2 DEF IInv, TypeOK, RefusalInv, FindByEmail
    <2>3. CASE Insert(r)
      <3>1. /\ email' = email /\ faults' = faults
            /\ pc[r] \in {"hashed", "abandoned"}
            /\ lower[email[r]] \in Emails
        BY <1>1, <2>3 DEF IInv, TypeOK, Insert
      <3>2. CASE account[lower[email[r]]] = None
        <4>1. /\ account' = [account EXCEPT ![lower[email[r]]] = r]
              /\ pc' = [pc EXCEPT ![r] = IF pc[r] = "hashed" THEN "inserted" ELSE "error"]
          BY <2>3, <3>2 DEF Insert
        <4>2. pc[r] = "abandoned" => faults > 0
          BY DEF RefusalInv
        <4>3. ASSUME NEW q \in Registrations \ {r}
              PROVE  /\ pc'[q] = pc[q] /\ lower[email[q]] \in Emails
                     /\ \/ account'[lower[email[q]]] = account[lower[email[q]]]
                        \/ account'[lower[email[q]]] = r
          BY <4>1 DEF IInv, TypeOK
        <4>4. pc'[r] = "inserted" \/ (pc'[r] = "error" /\ pc[r] = "abandoned")
          BY <3>1, <4>1 DEF IInv, TypeOK
        <4> QED
          BY <3>1, <4>2, <4>3, <4>4 DEF RefusalInv
      <3>3. CASE account[lower[email[r]]] # None
        <4>1. UNCHANGED account /\ pc' = [pc EXCEPT ![r] = "error"]
          BY <2>3, <3>3 DEF Insert
        <4>2. faults > 0 \/ account[lower[email[r]]] # r
          BY <3>1 DEF RefusalInv
        <4> QED
          BY <3>1, <3>3, <4>1, <4>2 DEF IInv, TypeOK, RefusalInv
      <3> QED
        BY <3>2, <3>3
    <2> QED
      BY <1>1, <2>1, <2>2, <2>3 DEF RegistrationStep
  <1>2. ASSUME NEW l \in Logins, LoginStep(l) PROVE RefusalInv'
    <2>1. /\ UNCHANGED <<account, email, faults>>
          /\ \A r \in Registrations : pc'[r] = pc[r]
      BY <1>2 DEF IInv, TypeOK, LoginStep, LogIn, LookUp, Compare, Verify, Admit, CallAgain
    <2> QED
      BY <2>1 DEF RefusalInv
  <1>3. ASSUME NEW q \in Requests, Fail(q) PROVE RefusalInv'
    <2>1. /\ UNCHANGED <<account, email>> /\ faults' > 0
          /\ \A r \in Registrations :
               pc'[r] = pc[r] \/ pc'[r] = "error" \/ pc'[r] = "abandoned"
      BY <1>3 DEF IInv, TypeOK, Fail
    <2> QED
      BY <2>1 DEF RefusalInv
  <1>4. CASE Tick \/ UNCHANGED vars
    BY <1>4 DEF RefusalInv, Tick, vars
  <1> QED
    BY <1>1, <1>2, <1>3, <1>4 DEF Next

\* Who is refused an account has lost its email to another or met a fault,
\* for any number of racing registrations, failures and late inserts.
THEOREM RefusalsAreJust == Spec => []RefusalsHaveCause
  <1>1. Init => RefusalInv
    BY NoneAssumption, LowerAssumption DEF Init, RefusalInv, Requests
  <1>2. RefusalInv => RefusalsHaveCause
    BY DEF RefusalInv, RefusalsHaveCause
  <1> QED
    BY <1>1, <1>2, InitIInv, NextIInv, NextRefusal, PTL DEF Spec

\* Accounts gives emails away as Claims says: a row appears by one step of the
\* registration that gave the email, and is never replaced.
THEOREM ClaimsRefinement == Spec => EmailsAreClaimed
  <1> USE DEF Requests
  <1>1. Init => Holders!Init
    BY LowerAssumption DEF Init, Holders!Init
  <1>2. IInv /\ [Next]_vars => [Holders!Next]_(Holders!vars)
    <2> SUFFICES ASSUME IInv, [Next]_vars
                 PROVE  Holders!Next \/ UNCHANGED <<account, [r \in Registrations |-> lower[email[r]]]>>
      BY DEF Holders!vars
    <2>1. UNCHANGED email
      BY RowsOnlyAppear
    <2>2. CASE UNCHANGED account
      BY <2>1, <2>2
    <2>3. ASSUME NEW r \in Registrations,
                 account[lower[email[r]]] = None,
                 account' = [account EXCEPT ![lower[email[r]]] = r]
          PROVE  Holders!Next
      <3>1. lower[email[r]] \in Emails
        BY LowerAssumption DEF IInv, TypeOK
      <3> QED
        BY <2>1, <2>3, <3>1 DEF Holders!Next, Holders!Claim
    <2> QED
      BY <2>2, <2>3, RowsOnlyAppear
  <1> QED
    BY <1>1, <1>2, Invariance, PTL DEF Spec, EmailsAreClaimed, Holders!Spec

=============================================================================
