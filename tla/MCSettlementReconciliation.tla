--------------------- MODULE MCSettlementReconciliation ---------------------
(***************************************************************************)
(* Payouts, provider ids and files for the run of SettlementReconciliation *)
(***************************************************************************)
EXTENDS SettlementReconciliation, TLC

CONSTANTS t1, t2, p1, p2, x1, x2, y1, z1, f1, f2

\* A payout of each tenant; the provider has made the first one twice.
MCTenantOf == (p1 :> t1) @@ (p2 :> t2)
MCAmountOf == (p1 :> 1) @@ (p2 :> 2)
MCMadeFor == (x1 :> p1) @@ (x2 :> p1) @@ (y1 :> p2)

\* A file with both ids of the first payout, and one with a wrong amount for it,
\* the payout of the other tenant, and an id that the provider has not issued.
MCRowsOf ==
  (f1 :> <<[provider |-> x1, amount |-> 1], [provider |-> x2, amount |-> 1]>>) @@
  (f2 :> <<[provider |-> x1, amount |-> 2], [provider |-> y1, amount |-> 2],
           [provider |-> z1, amount |-> 1]>>)

Sym == Permutations(Calls)
=============================================================================
