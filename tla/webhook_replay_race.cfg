SPECIFICATION Spec
CONSTANTS
  Deliveries = {d1}
  Endpoints = {e1}
  EndpointOf <- OneEndpoint
  Schedulers = {s1}
  Slots = {w1}
  Requests = {q1}
  LastJob = 2
  MaxAttempts = 2
  MaxStalls = 1
  FaultBudget <- NoFaults
  None = None
PROPERTIES
  DeliveredIsNotReplayed
CHECK_DEADLOCK FALSE
