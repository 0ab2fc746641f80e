\* Three jobs, two faults: two tasks settle while a third is anywhere. No
\* symmetry: some of the properties are about what must happen.
SPECIFICATION FairSpec
CONSTANTS
  Jobs = {j1, j2, j3}
  MaxFaults = 2
INVARIANTS
  TypeOK
  NoticeMatchesRow
  DoneIsComplete
  WorkFollowsDurableStart
  RegistryMatchesTasks
PROPERTIES
  ImplementsLifecycle
  TaskStarts
  OutcomeSettles
\* Every job may be done or dropped for good.
CHECK_DEADLOCK FALSE
