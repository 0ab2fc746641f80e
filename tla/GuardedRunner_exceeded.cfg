\* The agent completes the scope in the last allowed run.
SPECIFICATION FairSpec
CONSTANTS
  Scopes <- MCScopes
  FirstScopes <- MCFirstScopes
  NoFile = NoFile
  MaxIterations = 25
INVARIANTS
  ExceededMeansIncomplete
CHECK_DEADLOCK FALSE
