\* The code's own bound: a forgiven idle run, progress, returns to an earlier
\* scope, a stall and running out all happen well within it.
SPECIFICATION FairSpec
CONSTANTS
  Scopes <- MCScopes
  FirstScopes <- MCFirstScopes
  NoFile = NoFile
  MaxIterations = 25
INVARIANTS
  TypeOK
  StallIsCaught
PROPERTIES
  ImplementsContract
  LoopEnds
\* The loop stops when it has returned or thrown.
CHECK_DEADLOCK FALSE
