\* One fault is enough to lose a notification for good.
SPECIFICATION FairSpec
CONSTANTS
  Jobs = {j1, j2}
  MaxFaults = 1
PROPERTIES
  TerminalIsAnnounced
CHECK_DEADLOCK FALSE
