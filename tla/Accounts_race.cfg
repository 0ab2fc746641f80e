\* No fault at all: the race alone makes the error.
SPECIFICATION Spec
CONSTANTS
  Registrations = {g1, g2}
  Logins = {l1}
  e1 = e1
  E1 = E1
  e2 = e2
  Emails = {e1, E1, e2}
  lower <- MCLower
  Passwords = {p1, p2}
  None = None
  Lifetime = 2
  TicksPerSecond = 2
  MaxTime = 6
  MaxFaults = 0
INVARIANTS
  TakenIsConflict
\* Every request answers once.
CHECK_DEADLOCK FALSE
