---------------------------- MODULE MCOutboxRelay ----------------------------
(***************************************************************************)
(* Fault budgets for the run of OutboxRelay.                               *)
(***************************************************************************)
EXTENDS OutboxRelay

CrashAnd(kind) == [k \in FaultKinds |-> IF k \in {"crash", kind} THEN 1 ELSE 0]

\* A crash, and a failing statement or a relay that is too slow for its leases.
MCFaultBudgets == {CrashAnd("sql"), CrashAnd("slow")}
=============================================================================
