-------------------------- MODULE MCPayoutDispatch --------------------------
(***************************************************************************)
(* Fault budgets and symmetry for the runs of PayoutDispatch.              *)
(***************************************************************************)
EXTENDS PayoutDispatch, TLC

\* Every kind of fault once.
OneOfEach == [k \in FaultKinds |-> 1]

\* A worker crash or a lost job lock, a provider restart and a failed callback,
\* each once, and SQL that never fails.
OneOfEachButSql == [k \in FaultKinds |-> IF k = "sql" THEN 0 ELSE 1]

\* One SQL failure and nothing else.
OneSqlFailure == [k \in FaultKinds |-> IF k = "sql" THEN 1 ELSE 0]

Sym == Permutations(Workers) \cup Permutations(ProviderPayouts)
=============================================================================
