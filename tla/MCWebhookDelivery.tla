-------------------------- MODULE MCWebhookDelivery --------------------------
(***************************************************************************)
(* Endpoints, fault budgets and symmetry for the runs of WebhookDelivery.  *)
(***************************************************************************)
EXTENDS WebhookDelivery, TLC

\* All deliveries belong to the one endpoint there is.
OneEndpoint == [d \in Deliveries |-> CHOOSE e \in Endpoints : TRUE]

\* An SQL failure, and a lost job lock or a crashing slot.
SqlAndStall == [k \in FaultKinds |-> IF k \in {"sql", "stall"} THEN 1 ELSE 0]

\* All but SQL failures; two stalls, so that a job may stall too often.
Disturbances ==
  [k \in FaultKinds |-> CASE k = "sql" -> 0 [] k = "stall" -> 2 [] OTHER -> 1]

NoFaults == [k \in FaultKinds |-> 0]

Sym == Permutations(Schedulers) \cup Permutations(Slots) \cup Permutations(Requests)
=============================================================================
