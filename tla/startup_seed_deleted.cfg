SPECIFICATION Spec
CONSTANTS
  Replicas = {r1}
  Callers = {q1}
  LastVersion = 1
  MaxAttempts = 1
  MaxFaults = 0
  MayDelete = TRUE
  None = None
PROPERTIES
  DemoSeedIsIdempotent
