\* Two requests of the owner overlap.
SPECIFICATION Spec
CONSTANTS
  n1 = n1
  n2 = n2
  u1 = u1
  u2 = u2
  Notices = {n1, n2}
  Users = {u1, u2}
  Owner <- MCOwner
  Requests = {r1, r2}
  Unread = Unread
  Missing = Missing
  MaxTime = 2
PROPERTIES
  FirstReadingIsKept
CHECK_DEADLOCK FALSE
