-------------------------- MODULE PayoutLifecycle --------------------------
(***************************************************************************)
(* What the orchestrator promises about one payout, without saying how:    *)
(* which status may follow which, and that money is requested from the     *)
(* provider only for payouts that were released for dispatch.  The         *)
(* pipeline of API, relay, queue, workers, provider and callbacks in       *)
(* PayoutDispatch implements it.                                           *)
(*                                                                         *)
(* The statuses are those of PayoutStatus in packages/contracts; "none" is *)
(* a payout that has not been created.                                     *)
(***************************************************************************)
CONSTANTS
  PayoutIds,   \* the payouts
  Declined     \* the payouts whose amount the provider declines

VARIABLES
  status,      \* status[p]: the status column of payout p
  submitted    \* the payouts the provider has accepted

vars == <<status, submitted>>

Statuses ==
  {"none", "needs_approval", "queued", "processing", "paid", "failed", "canceled"}

Released == {"queued", "processing", "paid", "failed"}

Verdict(p) == IF p \in Declined THEN "failed" ELSE "paid"

TypeOK ==
  /\ status \in [PayoutIds -> Statuses]
  /\ submitted \subseteq PayoutIds

Init ==
  /\ status = [p \in PayoutIds |-> "none"]
  /\ submitted = {}

Move(p, from, to) ==
  /\ status[p] \in from
  /\ status' = [status EXCEPT ![p] = to]
  /\ UNCHANGED submitted

\* A new payout is released at once or held for an operator.
Create(p) == \E s \in {"queued", "needs_approval"} : Move(p, {"none"}, s)

\* An operator releases or cancels a held payout.
Decide(p) == \E s \in {"queued", "canceled"} : Move(p, {"needs_approval"}, s)

\* The provider takes on a payout.  It can do so late: an attempt that was
\* started while the payout was queued may reach the provider after another
\* attempt has already moved the payout on.
Submit(p) ==
  /\ status[p] \in Released
  /\ submitted' = submitted \cup {p}
  /\ UNCHANGED status

\* The orchestrator learns that the provider has the payout.
Acknowledge(p) == p \in submitted /\ Move(p, {"queued"}, "processing")

\* The orchestrator stops trying.
GiveUp(p) == Move(p, {"queued"}, "failed")

\* The provider's verdict arrives.  A payout that was given up although the
\* provider had taken it on can still be overwritten by a verdict that was
\* being applied at that moment.
Settle(p) ==
  /\ p \in submitted
  /\ Move(p, {"queued", "processing", "failed"}, Verdict(p))

Next == \E p \in PayoutIds :
  Create(p) \/ Decide(p) \/ Submit(p) \/ Acknowledge(p) \/ GiveUp(p) \/ Settle(p)

Spec == Init /\ [][Next]_vars
=============================================================================
