SPECIFICATION Spec
CONSTANTS
  Deliveries = {d1}
  Endpoints = {e1}
  EndpointOf <- OneEndpoint
  Schedulers = {s1, s2}
  Slots = {w1, w2}
  Requests = {q1}
  LastJob = 2
  MaxAttempts = 2
  MaxStalls = 1
  FaultBudget <- SqlAndStall
  None = None
SYMMETRY Sym
INVARIANTS
  TypeOK
  DeliveredWasAccepted
  StrandedHasCause
  RepetitionHasCause
PROPERTIES
  DeadLetterAnnouncedOnce
  OnlyReplayReopens
CHECK_DEADLOCK FALSE
