\* A client asks while its job, another user's, and two read requests go on.
SPECIFICATION ApiSpec
CONSTANTS
  n1 = n1
  n2 = n2
  u1 = u1
  u2 = u2
  c1 = c1
  Notices = {n1, n2}
  Users = {u1, u2}
  Owner <- MCOwner
  Clients = {c1}
  UserOf <- MCUserOf
  Requests = {r1, r2}
  Unread = Unread
  Missing = Missing
  MaxTime = 1
SYMMETRY RequestSymmetry
INVARIANTS
  TypeOK
  AcknowledgedIsRead
  OnlyOwnersRead
  NewsIsTrue
  OnlyOwnJobs
PROPERTIES
  StaysRead
  ViewsAdvance
