SPECIFICATION Spec
CONSTANTS
  PayoutIds = {p1}
  Declined = {}
  Workers = {w1}
  ProviderPayouts = {pp1}
  MaxAttempts = 2
  MaxStalls = 1
  FaultBudget <- OneSqlFailure
  None = None
INVARIANTS
  FinalFailureLeavesQueue
CHECK_DEADLOCK FALSE
