SPECIFICATION FairSpec
CONSTANTS
  PayoutIds = {p1}
  Declined = {p1}
  Workers = {w1, w2}
  ProviderPayouts = {pp1, pp2}
  MaxAttempts = 2
  MaxStalls = 1
  FaultBudget <- OneOfEachButSql
  None = None
PROPERTIES
  QueuedIsDispatched
  AcceptedIsSettled
CHECK_DEADLOCK FALSE
