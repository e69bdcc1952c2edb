SPECIFICATION FairSpec
CONSTANTS
  Replicas = {r1, r2}
  Callers = {q1}
  LastVersion = 2
  MaxAttempts = 2
  MaxFaults = 2
  MayDelete = TRUE
  None = None
INVARIANTS
  TypeOK
  ServingIsReady
  MigratedOnceInOrder
  HalfSeededHasOwner
PROPERTIES
  EveryReplicaServes
