------------------------------- MODULE Accounts -------------------------------
(***************************************************************************)
(* Accounts and access: registrations (register-account.ts), logins        *)
(* (authenticate-account.ts), the tokens they give out (jwt.ts) and the    *)
(* guard that lets a token's bearer in (jwt-auth.guard.ts).                *)
(*                                                                         *)
(* A registration looks its email up, hashes the password and inserts, so  *)
(* two of them may both find the email free; the unique index on email     *)
(* decides.  The entity that is inserted and the look-up each bring an     *)
(* email into lower case on their own.  A token carries times in whole     *)
(* seconds while the clock runs finer, in ticks.                           *)
(***************************************************************************)
EXTENDS Integers

CONSTANTS
  Registrations,    \* registration requests; an account's id is its request
  Logins,           \* login requests, each with the token it may be given
  Emails,           \* as requests may spell them
  lower,            \* their trimmed lower-case form
  Passwords,
  None,             \* no account
  Lifetime,         \* seconds a token is good for, 7 days in the code
  TicksPerSecond,
  MaxTime,          \* bound: the clock stops at this tick
  MaxFaults         \* bound: database faults in one behaviour

ASSUME NoneAssumption == None \notin Registrations
ASSUME DisjointAssumption == Registrations \cap Logins = {}
ASSUME LowerAssumption ==
  lower \in [Emails -> Emails] /\ \A e \in Emails : lower[lower[e]] = lower[e]
ASSUME BoundAssumption == MaxTime \in Nat /\ MaxFaults \in Nat
ASSUME TokenAssumption == Lifetime \in Nat \ {0} /\ TicksPerSecond \in Nat \ {0}

Requests == Registrations \cup Logins
Time == 0 .. MaxTime

VARIABLES
  account,          \* account[e]: id of the row with that email, or None
  now,
  email, password,  \* what each request carries; never changes
  pc,               \* where each request stands
  id,               \* id[l]: the account login l found, the token's sub
  issued,           \* history: the tick at which the token was signed
  exp,              \* exp[l]: the token's expiry, in seconds
  call,             \* call[l]: what the guard makes of the token
  checked,          \* history: the tick at which it was verified
  faults

input == <<email, password>>
token == <<id, issued, exp>>
guard == <<call, checked>>
vars == <<account, now, input, pc, token, guard, faults>>

PC == {"idle", "error",
       "finding", "hashed", "inserted", "abandoned", "created", "conflict",
       "looking", "comparing", "granted", "denied"}

TypeOK ==
  /\ account \in [Emails -> Registrations \cup {None}]
  /\ now \in Time
  /\ email \in [Requests -> Emails]
  /\ password \in [Requests -> Passwords]
  /\ pc \in [Requests -> PC]
  /\ id \in [Logins -> Registrations \cup {None}]
  /\ issued \in [Logins -> Time]
  /\ exp \in [Logins -> Nat]
  /\ call \in [Logins -> {"none", "verified", "admitted", "refused"}]
  /\ checked \in [Logins -> Time]
  /\ faults \in 0 .. MaxFaults

Init ==
  /\ account = [e \in Emails |-> None]
  /\ now = 0
  /\ email \in [Requests -> Emails]
  /\ password \in [Requests -> Passwords]
  /\ pc = [r \in Requests |-> "idle"]
  /\ id = [l \in Logins |-> None]
  /\ issued = [l \in Logins |-> 0]
  /\ exp = [l \in Logins |-> 0]
  /\ call = [l \in Logins |-> "none"]
  /\ checked = [l \in Logins |-> 0]
  /\ faults = 0

\* What findByEmail looks for, and what Account.create makes the email column
\* of a new row; a row is loaded through Account.create again.
normalizedEmail(r) == lower[email[r]]
storedEmail(r) == lower[email[r]]

Goto(r, next) == pc' = [pc EXCEPT ![r] = next]

-----------------------------------------------------------------------------
(***************************************************************************)
(* Registration.                                                           *)
(***************************************************************************)

Register(r) ==
  /\ pc[r] = "idle"
  /\ Goto(r, "finding")
  /\ UNCHANGED <<account, now, input, token, guard, faults>>

\* findByEmail answers, and the password is hashed for a free email.
FindByEmail(r) ==
  /\ pc[r] = "finding"
  /\ Goto(r, IF account[normalizedEmail(r)] = None THEN "hashed" ELSE "conflict")
  /\ UNCHANGED <<account, now, input, token, guard, faults>>

\* Deviation: an account that appeared meanwhile is overwritten.
InsertOver(r) ==
  /\ pc[r] \in {"hashed", "abandoned"}
  /\ account' = [account EXCEPT ![storedEmail(r)] = r]
  /\ Goto(r, IF pc[r] = "hashed" THEN "inserted" ELSE "error")
  /\ UNCHANGED <<now, input, token, guard, faults>>

\* The insert; the unique index refuses an email that is taken, an error that
\* nobody translates. The insert of a failed request may still arrive.
Insert(r) ==
  /\ pc[r] \in {"hashed", "abandoned"}
  /\ IF account[storedEmail(r)] = None
     THEN /\ account' = [account EXCEPT ![storedEmail(r)] = r]
          /\ Goto(r, IF pc[r] = "hashed" THEN "inserted" ELSE "error")
     ELSE /\ Goto(r, "error")
          /\ UNCHANGED account
  /\ UNCHANGED <<now, input, token, guard, faults>>

\* 201 with the account.
AnswerCreated(r) ==
  /\ pc[r] = "inserted"
  /\ Goto(r, "created")
  /\ UNCHANGED <<account, now, input, token, guard, faults>>

-----------------------------------------------------------------------------
(***************************************************************************)
(* Login and tokens.                                                       *)
(***************************************************************************)

Seconds(t) == t \div TicksPerSecond

LogIn(l) ==
  /\ pc[l] = "idle"
  /\ Goto(l, "looking")
  /\ UNCHANGED <<account, now, input, token, guard, faults>>

\* findByEmail answers; an unknown email is answered as a wrong password is.
LookUp(l) ==
  /\ pc[l] = "looking"
  /\ id' = [id EXCEPT ![l] = account[normalizedEmail(l)]]
  /\ Goto(l, IF account[normalizedEmail(l)] = None THEN "denied" ELSE "comparing")
  /\ UNCHANGED <<account, now, input, issued, exp, guard, faults>>

\* Deviation: the second of signing counts against the token.
signJwtEarly(l) ==
  /\ issued' = [issued EXCEPT ![l] = now]
  /\ exp' = [exp EXCEPT ![l] = Seconds(now) + Lifetime - 1]

\* signJwt: both times of the token are in whole seconds.
signJwt(l) ==
  /\ issued' = [issued EXCEPT ![l] = now]
  /\ exp' = [exp EXCEPT ![l] = Seconds(now) + Lifetime]

\* Deviation: the result of the comparison is not looked at.
CompareNothing(l) ==
  /\ pc[l] = "comparing"
  /\ Goto(l, "granted")
  /\ signJwt(l)
  /\ UNCHANGED <<account, now, input, id, guard, faults>>

\* The password is compared with the hash that was read; the token is signed.
Compare(l) ==
  /\ pc[l] = "comparing"
  /\ IF password[l] = password[id[l]]
     THEN Goto(l, "granted") /\ signJwt(l)
     ELSE Goto(l, "denied") /\ UNCHANGED <<issued, exp>>
  /\ UNCHANGED <<account, now, input, id, guard, faults>>

\* Deviation: a token is good for its second exp, too.
verifyJwtInclusive(l) == exp[l] >= Seconds(now)

\* verifyJwt: a token is expired from its second exp on.
verifyJwt(l) == exp[l] > Seconds(now)

\* Deviation: an expired token has an answer of its own.
VerifyExpired(l) ==
  /\ pc[l] = "granted"
  /\ call[l] = "none"
  /\ call' = [call EXCEPT ![l] = IF verifyJwt(l) THEN "verified" ELSE "expired"]
  /\ checked' = [checked EXCEPT ![l] = now]
  /\ UNCHANGED <<account, now, input, pc, token, faults>>

\* The guard of a protected route verifies the token ...
Verify(l) ==
  /\ pc[l] = "granted"
  /\ call[l] = "none"
  /\ call' = [call EXCEPT ![l] = IF verifyJwt(l) THEN "verified" ELSE "refused"]
  /\ checked' = [checked EXCEPT ![l] = now]
  /\ UNCHANGED <<account, now, input, pc, token, faults>>

\* ... and loads the account it names.
Admit(l) ==
  /\ call[l] = "verified"
  /\ call' = [call EXCEPT ![l] =
       IF \E e \in Emails : account[e] = id[l] THEN "admitted" ELSE "refused"]
  /\ UNCHANGED <<account, now, input, pc, token, checked, faults>>

\* The request is over, or its look-up failed; the bearer may come again.
CallAgain(l) ==
  /\ call[l] # "none"
  /\ call' = [call EXCEPT ![l] = "none"]
  /\ UNCHANGED <<account, now, input, pc, token, checked, faults>>

-----------------------------------------------------------------------------

\* A database call of a request fails, or its answer is lost: 500.
Fail(r) ==
  /\ faults < MaxFaults
  /\ faults' = faults + 1
  /\ \/ pc[r] \in {"finding", "hashed", "inserted", "looking"} /\ Goto(r, "error")
     \/ pc[r] = "hashed" /\ Goto(r, "abandoned")
  /\ UNCHANGED <<account, now, input, token, guard>>

Tick ==
  /\ now < MaxTime
  /\ now' = now + 1
  /\ UNCHANGED <<account, input, pc, token, guard, faults>>

RegistrationStep(r) ==
  Register(r) \/ FindByEmail(r) \/ Insert(r) \/ AnswerCreated(r)

LoginStep(l) ==
  LogIn(l) \/ LookUp(l) \/ Compare(l) \/ Verify(l) \/ Admit(l) \/ CallAgain(l)

Next ==
  \/ \E r \in Registrations : RegistrationStep(r)
  \/ \E l \in Logins : LoginStep(l)
  \/ \E r \in Requests : Fail(r)
  \/ Tick

Spec == Init /\ [][Next]_vars

-----------------------------------------------------------------------------
(***************************************************************************)
(* Properties.                                                             *)
(***************************************************************************)

\* Whoever is answered 201 owns the email, however it is spelled: of the
\* registrations that raced for it, and all found it free, one at most is told that it won, and the account
\* is that one's, with that one's password.
CreatedOwnsEmail ==
  \A r \in Registrations : pc[r] = "created" => account[lower[email[r]]] = r

\* Emails are claimed: each comes to the registration that gave it, in one
\* step, and is never given to another, whatever is looked up, hashed, failed
\* or written late.
Holders == INSTANCE Claims WITH
  Names <- Emails, Claimants <- Registrations, Wishes <- Emails,
  Free <- None, Squatters <- {}, holder <- account,
  wanted <- [r \in Registrations |-> lower[email[r]]]
EmailsAreClaimed == Holders!Spec

\* Whoever the guard lets in has given the email and the password with which
\* the stored account was registered, through whatever happened in between.
AdmittedIsOwner ==
  \A l \in Logins : call[l] = "admitted" =>
    \E r \in Registrations :
      /\ account[lower[email[l]]] = r
      /\ lower[email[r]] = lower[email[l]] /\ password[r] = password[l]

\* A token that passes is younger than its lifetime ...
AcceptedIsYoung ==
  \A l \in Logins : call[l] \in {"verified", "admitted"} =>
    checked[l] - issued[l] < Lifetime * TicksPerSecond

\* ... and one that is refused has lost less than a second of it.
RefusedIsOld ==
  \A l \in Logins : call[l] = "refused" =>
    checked[l] - issued[l] > (Lifetime - 1) * TicksPerSecond

\* register-account.spec.ts:59, "rejects registration when the email is
\* already in use": such a registration is a conflict. The error of the unique
\* index is not translated, so one that loses a race answers 500.
TakenIsConflict ==
  \A r \in Registrations : pc[r] = "error" => faults > 0

=============================================================================
