\* Six names, four descriptions and six notes, two at a time; the code's own bound.
SPECIFICATION PackSpec
CONSTANTS
  Requests <- MCRequests
  Scopes <- MCScopes
  FirstScopes <- MCFirstScopes
  NoFile = NoFile
  MaxIterations = 25
INVARIANTS
  ReturnedMeansAllDone
  ScanIsExact
  CriteriaSurvive
PROPERTIES
  CompletedIsAccepted
\* The loop stops when it has returned or thrown.
CHECK_DEADLOCK FALSE
