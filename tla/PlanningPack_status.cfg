\* A status line in the notes keeps the agent running after the last task.
SPECIFICATION PackSpec
CONSTANTS
  Requests <- MCStatusInNotes
  Scopes <- MCScopes
  FirstScopes <- MCFirstScopes
  NoFile = NoFile
  MaxIterations = 25
INVARIANTS
  RunsOnlyForTasks
CHECK_DEADLOCK FALSE
