SPECIFICATION FairSpec
CONSTANTS
  Deliveries = {d1}
  Endpoints = {e1}
  EndpointOf <- OneEndpoint
  Schedulers = {s1}
  Slots = {w1}
  Requests = {}
  LastJob = 2
  MaxAttempts = 2
  MaxStalls = 1
  FaultBudget <- Disturbances
  None = None
PROPERTIES
  AnnouncedIsSettled
CHECK_DEADLOCK FALSE
