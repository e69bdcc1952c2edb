SPECIFICATION FairSpec
CONSTANTS
  LastEvent = 2
  Dispatching = {1}
  Relays = {r1, r2}
  BatchLimit = 2
  MaxAttempts = 2
  FaultBudgets <- MCFaultBudgets
  None = None
INVARIANTS
  TypeOK
  PublishedWasAccepted
  DuplicatesAreExplained
PROPERTIES
  AppendedIsSettled
CHECK_DEADLOCK FALSE
