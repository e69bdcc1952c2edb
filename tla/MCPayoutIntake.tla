--------------------------- MODULE MCPayoutIntake ---------------------------
(***************************************************************************)
(* Tenants, members, keys, bodies and risk rules for the run of            *)
(* PayoutIntake.                                                           *)
(***************************************************************************)
EXTENDS PayoutIntake, TLC

CONSTANTS t1, t2, t3, m1, m2, m3, m4, m5, a1, a2, a3, c1, c2, k1, k2, k3,
          Shop, shop, other, usd, eur

\* Two tenants, the first with two owners, and one that does not exist yet.
MCTenantOf ==
  (m1 :> t1) @@ (m2 :> t1) @@ (m3 :> t2) @@ (m4 :> t2) @@ (m5 :> t3) @@
  (c1 :> t1) @@ (c2 :> t2)

MCFolded == (Shop :> shop) @@ (shop :> shop) @@ (other :> other)
\* Take ownership away, and give it.
MCEdits ==
  {[role |-> "developer", status |-> None], [role |-> "merchant_owner", status |-> "active"]}

\* A plain payout, and one that a rule of t1 and two rules for everyone ask for.
MCBodies ==
  {[amount |-> 1, currency |-> usd, destination |-> other],
   [amount |-> 2, currency |-> usd, destination |-> Shop]}

Rule(tenant, type, amount, currency, destination) ==
  [tenant |-> tenant, type |-> type, amount |-> amount, currency |-> currency,
   destination |-> destination]

MCRiskRules ==
  <<Rule(None, "blocked_destination", None, None, shop),
    Rule(t1, "amount_threshold", 2, usd, None),
    Rule(None, "amount_threshold", 1, eur, None)>>

Access == {"tenant", "client", "key"}

Issued(k) == [n \in Keys |-> IF n = k1 THEN c1 ELSE IF n = k THEN c2 ELSE None]

\* Three calls about memberships; two that change who has access beside a payout
\* request; and one such call beside two payout requests of one or two tenants.
MCScenarios ==
  {[issued |-> Issued(k1),
    may |-> (a1 :> {"tenant", "membership"}) @@ (a2 :> {"membership"}) @@ (a3 :> {"membership"})],
   [issued |-> Issued(k1),
    may |-> (a1 :> Access) @@ (a2 :> Access) @@ (a3 :> {"payout"})],
   [issued |-> Issued(k2),
    may |-> (a1 :> Access) @@ (a2 :> {"payout"}) @@ (a3 :> {"payout"})],
   [issued |-> Issued(k3),
    may |-> (a1 :> Access) @@ (a2 :> {"payout"}) @@ (a3 :> {"payout"})]}

Sym == Permutations({m1, m2}) \cup Permutations({k2, k3})
=============================================================================
