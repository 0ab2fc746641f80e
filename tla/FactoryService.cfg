\* Two jobs that race for one directory, two faults; a third that fails at once, a fourth that is refused.
SPECIFICATION GuardedSpec
CONSTANTS
  j1 = j1
  j2 = j2
  j3 = j3
  j4 = j4
  crm = crm
  dots = dots
  crash = crash
  u1 = u1
  u2 = u2
  Jobs = {j1, j2, j3, j4}
  MaxFaults = 2
  Words <- MCWords
  Blank = Blank
  Unexpected = Unexpected
  Owners = {u1, u2}
  Null = Null
  Slugs = {crm}
  NoSlug = NoSlug
  Nobody = Nobody
  Stranger = Stranger
  slugOf <- MCSlugOf
  Owner <- MCOwner
  Body <- MCBody
  Messages <- MCMessages
INVARIANTS
  RecordsOK
  SucceededIsComplete
  TreesAreKnown
  ColumnsFitState
  RowsReload
  LetterMatchesRow
PROPERTIES
  RunsKeepContract
\* Every job may be done, dropped or refused for good.
CHECK_DEADLOCK FALSE
