----------------------------- MODULE OutboxRelay -----------------------------
(***************************************************************************)
(* The outbox relay of the worker processes.  Domain transactions append   *)
(* events; each relay claims a batch under a lease of 30 seconds, sends    *)
(* the events to the broker, hands payout.created.v1 events to the         *)
(* dispatch queue, and records the outcome of each event if it still owns  *)
(* the row.                                                                *)
(*                                                                         *)
(* Time is abstracted: a lease may run out at any moment after the claim,  *)
(* because nothing renews it and the length of a batch has no bound, and a *)
(* backoff ends at some moment.  A relay that crashes never comes back:    *)
(* its successor has a worker id of its own, so it is another relay.       *)
(***************************************************************************)
EXTENDS Naturals, FiniteSets

CONSTANTS
  LastEvent,     \* bound: the events are 1 .. LastEvent, in order of created_at
  Dispatching,   \* the payout.created.v1 events
  Relays,        \* relay processes, later incarnations included
  BatchLimit,    \* the limit of claimBatch
  MaxAttempts,   \* asyncRetryPolicy.attempts
  FaultBudgets,  \* bounds: how often each kind of fault may happen in a behaviour
  None           \* SQL NULL, and "no claim"

Events == 1 .. LastEvent

FaultKinds == {"sql", "slow", "crash"}

ASSUME RelayAssumption ==
  /\ LastEvent \in Nat
  /\ Dispatching \subseteq Events
  /\ BatchLimit \in Nat \ {0}
  /\ MaxAttempts \in Nat \ {0}
  /\ FaultBudgets \subseteq [FaultKinds -> Nat]
  /\ IsFiniteSet(Relays)
  /\ None \notin Relays

VARIABLES
  rows,         \* dbo.outbox_events
  relays,       \* what each relay process is doing
  sent,         \* how often the broker took each event
  queued,       \* events whose dispatch job BullMQ was given
  deadLetters,  \* events mirrored into the paymentops-dead-letter queue
  expiries,     \* how often a lease on each event ran out
  budget        \* faults that may still happen

outside == <<sent, queued, deadLetters>>
vars == <<rows, relays, outside, expiries, budget>>

-----------------------------------------------------------------------------
(* Values *)

\* "none" is an event that no transaction has appended yet.
EventStatuses == {"none", "pending", "failed", "published", "dead_letter"}

\* due: available_at has passed; expired: locked_until has passed.
Row ==
  [status : EventStatuses, attempts : 0 .. MaxAttempts, due : BOOLEAN,
   lockedBy : Relays \cup {None}, expired : BOOLEAN]

\* An event as claimBatch returned it, with the attempts it had then.
Claimed == [event : Events, attempts : 0 .. MaxAttempts]

ASSUME NoneAssumption == None \notin Claimed

Steps == {"idle", "publish", "enqueue", "mark", "fail", "mirror", "dead"}

Relay == [step : Steps, todo : SUBSET Claimed, current : Claimed \cup {None}]

Idle == [step |-> "idle", todo |-> {}, current |-> None]

TypeOK ==
  /\ rows \in [Events -> Row]
  /\ relays \in [Relays -> Relay]
  /\ sent \in [Events -> Nat]
  /\ queued \in SUBSET Dispatching
  /\ deadLetters \in SUBSET Events
  /\ expiries \in [Events -> Nat]
  /\ budget \in [FaultKinds -> Nat]

Init ==
  /\ rows = [e \in Events |-> [status |-> "none", attempts |-> 0, due |-> TRUE,
                               lockedBy |-> None, expired |-> FALSE]]
  /\ relays = [r \in Relays |-> Idle]
  /\ sent = [e \in Events |-> 0]
  /\ queued = {}
  /\ deadLetters = {}
  /\ expiries = [e \in Events |-> 0]
  /\ budget \in FaultBudgets

Fault(kind) ==
  /\ budget[kind] > 0
  /\ budget' = [budget EXCEPT ![kind] = @ - 1]

-----------------------------------------------------------------------------
(* The table and the clock *)

\* A domain transaction commits with its outbox row.
Append(e) ==
  /\ rows[e].status = "none"
  /\ \A f \in Events : f < e => rows[f].status # "none"
  /\ rows' = [rows EXCEPT ![e].status = "pending"]
  /\ UNCHANGED <<relays, outside, expiries, budget>>

\* Relay r is still going to touch event e.
Holds(r, e) ==
  \/ \E c \in relays[r].todo : c.event = e
  \/ relays[r].current # None /\ relays[r].current.event = e

Expire(e) ==
  /\ rows[e].lockedBy # None
  /\ ~rows[e].expired
  /\ rows' = [rows EXCEPT ![e].expired = TRUE]
  /\ expiries' = [expiries EXCEPT ![e] = @ + 1]
  /\ UNCHANGED <<relays, outside>>

\* The lease of a crashed relay or of an abandoned batch runs out.
ExpireAbandoned(e) ==
  /\ Expire(e)
  /\ ~Holds(rows[e].lockedBy, e)
  /\ UNCHANGED budget

\* The relay is slower than its lease and does not notice.
ExpireUnderway(e) ==
  /\ Expire(e)
  /\ Holds(rows[e].lockedBy, e)
  /\ Fault("slow")

\* available_at passes.
BackoffEnds(e) ==
  /\ ~rows[e].due
  /\ rows' = [rows EXCEPT ![e].due = TRUE]
  /\ UNCHANGED <<relays, outside, expiries, budget>>

-----------------------------------------------------------------------------
(* claimBatch: one UPDATE statement over the first due rows without a lease *)

\* Mutant of Claimable: locked_until is not looked at.
ClaimableLocked(e) == rows[e].status \in {"pending", "failed"} /\ rows[e].due

\* Mutant of Claimable: a failed event is not taken up again.
ClaimablePendingOnly(e) ==
  /\ rows[e].status = "pending"
  /\ rows[e].due
  /\ rows[e].lockedBy = None \/ rows[e].expired

Claimable(e) ==
  /\ rows[e].status \in {"pending", "failed"}
  /\ rows[e].due
  /\ rows[e].lockedBy = None \/ rows[e].expired

Batch ==
  LET candidates == {e \in Events : Claimable(e)}
  IN {e \in candidates : Cardinality({f \in candidates : f < e}) < BatchLimit}

LeaseTo(r) ==
  /\ Batch # {}
  /\ rows' = [e \in Events |->
       IF e \in Batch THEN [rows[e] EXCEPT !.lockedBy = r, !.expired = FALSE] ELSE rows[e]]

\* processOnce; OUTPUT returns the rows in no particular order.
ClaimBatch(r) ==
  /\ relays[r].step = "idle"
  /\ LeaseTo(r)
  /\ relays' = [relays EXCEPT ![r] =
       [step |-> "publish",
        todo |-> {[event |-> e, attempts |-> rows[e].attempts] : e \in Batch},
        current |-> None]]
  /\ UNCHANGED <<outside, expiries, budget>>

\* The statement commits and its answer is lost: the cycle ends and the rows
\* stay leased.
ClaimBatchUnanswered(r) ==
  /\ relays[r].step = "idle"
  /\ LeaseTo(r)
  /\ Fault("sql")
  /\ UNCHANGED <<relays, outside, expiries>>

-----------------------------------------------------------------------------
(* publish: one event of the batch at a time *)

Current(r) == relays[r].current.event

Go(r, step) == relays' = [relays EXCEPT ![r].step = step]

\* The loop of processOnce goes on to its next event, or ends.
Continue(r) ==
  relays' = [relays EXCEPT ![r] =
    [step |-> IF @.todo = {} THEN "idle" ELSE "publish", todo |-> @.todo, current |-> None]]

Take(r, c, step) ==
  relays' = [relays EXCEPT ![r] = [step |-> step, todo |-> @.todo \ {c}, current |-> c]]

BrokerTakes(e) == sent' = [sent EXCEPT ![e] = @ + 1]

\* Mutant of AfterBroker: the event is marked before it is queued.
AfterBrokerMark(e) == "mark"

\* Only payout.created.v1 is handed to the dispatch queue.
AfterBroker(e) == IF e \in Dispatching THEN "enqueue" ELSE "mark"

Publish(r) ==
  /\ relays[r].step = "publish"
  /\ \E c \in relays[r].todo : Take(r, c, AfterBroker(c.event)) /\ BrokerTakes(c.event)
  /\ UNCHANGED <<rows, queued, deadLetters, expiries, budget>>

\* The broker refuses the event, or takes it and the answer is lost.
PublishFails(r) ==
  /\ relays[r].step = "publish"
  /\ \E c \in relays[r].todo :
       Take(r, c, "fail") /\ (UNCHANGED sent \/ BrokerTakes(c.event))
  /\ UNCHANGED <<rows, queued, deadLetters, expiries, budget>>

\* enqueuePayoutDispatch: BullMQ ignores a job id that it already knows.
Enqueue(r) ==
  /\ relays[r].step = "enqueue"
  /\ queued' = queued \cup {Current(r)}
  /\ Go(r, "mark")
  /\ UNCHANGED <<rows, sent, deadLetters, expiries, budget>>

EnqueueFails(r) ==
  /\ relays[r].step = "enqueue"
  /\ UNCHANGED queued \/ queued' = queued \cup {Current(r)}
  /\ Go(r, "fail")
  /\ UNCHANGED <<rows, sent, deadLetters, expiries, budget>>

Release(e, status, attempts, due) ==
  rows' = [rows EXCEPT ![e] = [status |-> status, attempts |-> attempts, due |-> due,
                               lockedBy |-> None, expired |-> FALSE]]

Owns(r, e) == rows[e].lockedBy = r

\* The UPDATE of markPublished: no row when another relay owns the event by now.
CommitPublished(r, e) ==
  IF Owns(r, e) THEN Release(e, "published", rows[e].attempts, rows[e].due)
                ELSE UNCHANGED rows

MarkPublished(r) ==
  /\ relays[r].step = "mark"
  /\ CommitPublished(r, Current(r))
  /\ Continue(r)
  /\ UNCHANGED <<outside, expiries, budget>>

\* markPublished throws, with or without its commit; publish catches it.
MarkPublishedFails(r) ==
  /\ relays[r].step = "mark"
  /\ UNCHANGED rows \/ CommitPublished(r, Current(r))
  /\ Go(r, "fail")
  /\ Fault("sql")
  /\ UNCHANGED <<outside, expiries>>

\* Mutant of IsLast: the attempt that just failed is not counted.
IsLastLate(c) == c.attempts >= MaxAttempts

\* deadLetter is decided from the attempts that claimBatch returned.
IsLast(c) == c.attempts + 1 >= MaxAttempts

FailRow(c) ==
  Release(c.event, IF IsLast(c) THEN "dead_letter" ELSE "failed",
          rows[c.event].attempts + 1, IF IsLast(c) THEN rows[c.event].due ELSE FALSE)

\* The UPDATE of markFailed.
CommitFailed(r, c) == IF Owns(r, c.event) THEN FailRow(c) ELSE UNCHANGED rows

\* The last failure is mirrored even if the row belongs to another relay.
MarkFailed(r) ==
  /\ relays[r].step = "fail"
  /\ CommitFailed(r, relays[r].current)
  /\ IF IsLast(relays[r].current) THEN Go(r, "mirror") ELSE Continue(r)
  /\ UNCHANGED <<outside, expiries, budget>>

\* markFailed throws out of publish: the cycle ends and the rest of the batch
\* stays leased.
MarkFailedFails(r) ==
  /\ relays[r].step = "fail"
  /\ UNCHANGED rows \/ CommitFailed(r, relays[r].current)
  /\ relays' = [relays EXCEPT ![r] = Idle]
  /\ Fault("sql")
  /\ UNCHANGED <<outside, expiries>>

\* enqueueDeadLetterSafely
Mirror(r) ==
  /\ relays[r].step = "mirror"
  /\ UNCHANGED deadLetters \/ deadLetters' = deadLetters \cup {Current(r)}
  /\ Continue(r)
  /\ UNCHANGED <<rows, sent, queued, expiries, budget>>

\* The worker process dies.
Crash(r) ==
  /\ relays[r].step # "dead"
  /\ relays' = [relays EXCEPT ![r] = [step |-> "dead", todo |-> {}, current |-> None]]
  /\ Fault("crash")
  /\ UNCHANGED <<rows, outside, expiries>>

-----------------------------------------------------------------------------
Work(r) ==
  \/ Publish(r) \/ PublishFails(r) \/ Enqueue(r) \/ EnqueueFails(r)
  \/ MarkPublished(r) \/ MarkFailed(r) \/ Mirror(r)

Fails(r) ==
  ClaimBatchUnanswered(r) \/ MarkPublishedFails(r) \/ MarkFailedFails(r) \/ Crash(r)

Next ==
  \/ \E e \in Events :
       Append(e) \/ ExpireAbandoned(e) \/ ExpireUnderway(e) \/ BackoffEnds(e)
  \/ \E r \in Relays : ClaimBatch(r) \/ Work(r) \/ Fails(r)

Spec == Init /\ [][Next]_vars

\* The timer of each relay starts a cycle, every request is answered or fails,
\* and time passes.
Fairness ==
  /\ \A r \in Relays : WF_vars(ClaimBatch(r)) /\ WF_vars(Work(r))
  /\ \A e \in Events : WF_vars(ExpireAbandoned(e)) /\ WF_vars(BackoffEnds(e))

FairSpec == Spec /\ Fairness

-----------------------------------------------------------------------------
(* What every step keeps true.  A lease stands for an open row, and the relay
   that holds it knows the row's attempts, so that its decision about the last
   attempt is the right one; a relay that lost the lease changes nothing. *)

OpenStatuses == {"pending", "failed"}

RowOK(e) ==
  /\ rows[e].lockedBy # None => rows[e].status \in OpenStatuses
  /\ rows[e].status = "dead_letter" <=> rows[e].attempts = MaxAttempts
  /\ rows[e].status = "published" => sent[e] > 0 /\ (e \in Dispatching => e \in queued)

\* What relay r took out of its claim.
ClaimsOf(r) == relays[r].todo \cup ({relays[r].current} \ {None})

RelayOK(r) ==
  /\ relays[r].step \in {"idle", "dead"} => relays[r].todo = {} /\ relays[r].current = None
  /\ relays[r].step \in {"enqueue", "mark", "fail", "mirror"} => relays[r].current # None
  /\ relays[r].step \in {"enqueue", "mark"} => sent[Current(r)] > 0
  /\ relays[r].step = "enqueue" => Current(r) \in Dispatching
  /\ relays[r].step = "mark" /\ Current(r) \in Dispatching => Current(r) \in queued
  /\ \A c, d \in relays[r].todo : c.event = d.event => c = d
  /\ \A c \in ClaimsOf(r) :
       rows[c.event].lockedBy = r => rows[c.event].attempts = c.attempts

\* The relays that are still going to send event e, and whether the row may be
\* claimed once more without another failure or expiry.
Senders(e) == {r \in Relays : \E c \in relays[r].todo : c.event = e}

Available(e) ==
  IF rows[e].status \in {"none"} \cup OpenStatuses
     /\ (rows[e].lockedBy = None \/ rows[e].expired) THEN 1 ELSE 0

\* Every sending that is past or still possible is paid for.
SendingsOK(e) ==
  sent[e] + Cardinality(Senders(e)) + Available(e) <= 1 + rows[e].attempts + expiries[e]

IInv ==
  /\ TypeOK
  /\ \A e \in Events : RowOK(e) /\ SendingsOK(e)
  /\ \A r \in Relays : RelayOK(r)

-----------------------------------------------------------------------------
(* Properties *)

Settled == {"published", "dead_letter"}

\* An event is published only when the broker took it and, for a released
\* payout, BullMQ took its dispatch job: no order of stale relays, crashes and
\* lost answers marks an event that was not handed on.
PublishedWasAccepted ==
  \A e \in Events : rows[e].status = "published" =>
    sent[e] > 0 /\ (e \in Dispatching => e \in queued)

\* An event is given up exactly when MaxAttempts failures are recorded on its
\* row, although the decision rests on the attempts that the claim returned and
\* other relays may have failed on the event since.
GivenUpAfterLastAttempt ==
  \A e \in Events : rows[e].status = "dead_letter" <=> rows[e].attempts = MaxAttempts

\* The broker sees an event again only after a recorded failure or a lease that
\* ran out: two relays never publish it under leases that are both running.
DuplicatesAreExplained ==
  \A e \in Events : sent[e] <= 1 + rows[e].attempts + expiries[e]

\* A relay that is late, or tells of a failure that is no longer its own, never
\* reopens an event that was published or given up.
SettledIsFinal ==
  [][\A e \in Events :
       rows[e].status \in Settled => rows'[e].status = rows[e].status]_vars

\* Every appended event is published or given up, whichever relay crashes or
\* abandons its batch.
AppendedIsSettled ==
  \A e \in Events : rows[e].status = "pending" ~> rows[e].status \in Settled
=============================================================================
