--------------------------- MODULE WebhookDelivery ---------------------------
(***************************************************************************)
(* Merchant webhooks.  The pieces, and what each of them does:             *)
(*                                                                         *)
(*   schedulers  one timer in each worker process, one cycle at a time:    *)
(*               insert the missing delivery rows, find the deliveries     *)
(*               without a job, and for each reserve a new job id on the   *)
(*               row and only then add the job to BullMQ;                  *)
(*   slots       run the jobs: read the row, post the event to the         *)
(*               merchant, and record the outcome with a row in the table  *)
(*               of attempts;                                              *)
(*   API         an operator replays a delivery, in a transaction that     *)
(*               keeps no lock between its SELECT and its UPDATE; the      *)
(*               merchant's endpoint is disabled, enabled or deleted.      *)
(*                                                                         *)
(* A delivery stands for a pair of an endpoint and an event that the       *)
(* endpoint subscribes to.  Job ids are random, so BullMQ never meets one  *)
(* twice and its removal of finished jobs has no effect here.  Time is     *)
(* abstracted: next_attempt_at passes at some moment.                      *)
(***************************************************************************)
EXTENDS Naturals, FiniteSets

CONSTANTS
  Deliveries,   \* pairs of an endpoint and a subscribed payout event
  Endpoints,    \* dbo.webhook_endpoints
  EndpointOf,   \* the endpoint of each delivery
  Schedulers,   \* the recovery timers of the worker processes
  Slots,        \* the webhook processor slots of all worker processes
  Requests,     \* bound: the replay requests there are
  LastJob,      \* bound: the job ids there are to draw, 1 .. LastJob
  MaxAttempts,  \* asyncRetryPolicy.attempts
  MaxStalls,    \* BullMQ's maxStalledCount
  FaultBudget,  \* bound: how often each kind of disturbance may happen
  None          \* SQL NULL, and "no such thing"

JobIds == 1 .. LastJob

\* "endpoint" is a change of an endpoint, the others are failures.
FaultKinds == {"sql", "redis", "stall", "crash", "endpoint"}

ASSUME WebhookAssumption ==
  /\ EndpointOf \in [Deliveries -> Endpoints]
  /\ LastJob \in Nat
  /\ MaxAttempts \in Nat \ {0}
  /\ MaxStalls \in Nat
  /\ FaultBudget \in [FaultKinds -> Nat]
  /\ IsFiniteSet(Schedulers) /\ IsFiniteSet(Slots) /\ IsFiniteSet(Requests)
  /\ None \notin Deliveries \cup Slots \cup JobIds

VARIABLES
  rows,         \* dbo.webhook_deliveries
  log,          \* dbo.webhook_delivery_attempts: successes and failures
  deadEvents,   \* webhook.dead_lettered.v1 events, each with its audit entry
  endpoints,    \* dbo.webhook_endpoints.status
  schedulers,   \* what the cycle of each scheduler is doing
  jobs,         \* the BullMQ jobs
  deadLetters,  \* jobs mirrored into the paymentops-dead-letter queue
  slots,        \* what each slot is doing
  accepted,     \* how often the merchant took each delivery
  requests,     \* the replay requests
  budget        \* disturbances that may still happen

tables == <<rows, log, deadEvents>>
vars == <<tables, endpoints, schedulers, jobs, deadLetters, slots, accepted,
          requests, budget>>

-----------------------------------------------------------------------------
(* Values *)

\* "none" is a delivery whose event does not exist yet; "missing" one whose
\* event does, but not its row.
DeliveryStatuses == {"none", "missing", "pending", "delivered", "failed", "dead_letter"}

Open == {"pending", "failed"}

\* due: next_attempt_at has passed; job: queue_job_id.
Row ==
  [status : DeliveryStatuses, attempts : 0 .. MaxAttempts, due : BOOLEAN,
   job : JobIds \cup {None}]

EndpointStatuses == {"active", "disabled", "deleted"}

SchedulerSteps == {"idle", "find", "reserve", "enqueue", "release"}

Scheduler ==
  [step : SchedulerSteps, todo : SUBSET Deliveries,
   delivery : Deliveries \cup {None}, job : JobIds \cup {None}]

NoCycle == [step |-> "idle", todo |-> {}, delivery |-> None, job |-> None]

\* "none" with a delivery is an id that was drawn and not added.
JobStates == {"none", "waiting", "active", "completed", "failed"}

Job ==
  [state : JobStates, delivery : Deliveries \cup {None}, made : 0 .. MaxAttempts,
   stalls : 0 .. MaxStalls + 1, owner : Slots \cup {None}]

SlotSteps ==
  {"idle", "find", "post", "succeed", "fail", "complete", "mirror", "settle"}

Slot == [step : SlotSteps, job : JobIds \cup {None}, attempt : 0 .. MaxAttempts]

Free == [step |-> "idle", job |-> None, attempt |-> 0]

RequestSteps == {"none", "update", "replayed", "refused"}

Request == [step : RequestSteps, delivery : Deliveries \cup {None}]

TypeOK ==
  /\ rows \in [Deliveries -> Row]
  /\ log \in [Deliveries -> [ok : Nat, failed : Nat]]
  /\ deadEvents \in [Deliveries -> Nat]
  /\ endpoints \in [Endpoints -> EndpointStatuses]
  /\ schedulers \in [Schedulers -> Scheduler]
  /\ jobs \in [JobIds -> Job]
  /\ deadLetters \in SUBSET JobIds
  /\ slots \in [Slots -> Slot]
  /\ accepted \in [Deliveries -> Nat]
  /\ requests \in [Requests -> Request]
  /\ budget \in [FaultKinds -> Nat]

Init ==
  /\ rows = [d \in Deliveries |->
       [status |-> "none", attempts |-> 0, due |-> FALSE, job |-> None]]
  /\ log = [d \in Deliveries |-> [ok |-> 0, failed |-> 0]]
  /\ deadEvents = [d \in Deliveries |-> 0]
  /\ endpoints = [e \in Endpoints |-> "active"]
  /\ schedulers = [s \in Schedulers |-> NoCycle]
  /\ jobs = [j \in JobIds |->
       [state |-> "none", delivery |-> None, made |-> 0, stalls |-> 0, owner |-> None]]
  /\ deadLetters = {}
  /\ slots = [w \in Slots |-> Free]
  /\ accepted = [d \in Deliveries |-> 0]
  /\ requests = [r \in Requests |-> [step |-> "none", delivery |-> None]]
  /\ budget = FaultBudget

Fault(kind) ==
  /\ budget[kind] > 0
  /\ budget' = [budget EXCEPT ![kind] = @ - 1]

-----------------------------------------------------------------------------
(* Events and endpoints *)

\* A transaction appends the payout event.
AppendEvent(d) ==
  /\ rows[d].status = "none"
  /\ rows' = [rows EXCEPT ![d].status = "missing"]
  /\ UNCHANGED <<log, deadEvents, endpoints, schedulers, jobs, deadLetters, slots,
                 accepted, requests, budget>>

\* updateWebhookEndpoint changes the status of an endpoint that is not deleted.
UpdateEndpoint(e, status) ==
  /\ endpoints[e] # "deleted"
  /\ endpoints' = [endpoints EXCEPT ![e] = status]
  /\ Fault("endpoint")
  /\ UNCHANGED <<tables, schedulers, jobs, deadLetters, slots, accepted, requests>>

\* deleteWebhookEndpoint keeps the row, disabled for good.
DeleteEndpoint(e) ==
  /\ endpoints[e] # "deleted"
  /\ endpoints' = [endpoints EXCEPT ![e] = "deleted"]
  /\ Fault("endpoint")
  /\ UNCHANGED <<tables, schedulers, jobs, deadLetters, slots, accepted, requests>>

Active(d) == endpoints[EndpointOf[d]] = "active"

\* next_attempt_at passes.
BackoffEnds(d) ==
  /\ rows[d].status = "failed"
  /\ ~rows[d].due
  /\ rows' = [rows EXCEPT ![d].due = TRUE]
  /\ UNCHANGED <<log, deadEvents, endpoints, schedulers, jobs, deadLetters, slots,
                 accepted, requests, budget>>

-----------------------------------------------------------------------------
(* scheduleWebhookDeliveries, the cycle of scheduler s *)

\* Mutant of InsertMissing: next_attempt_at has no default.
InsertMissingWithoutTime ==
  rows' = [d \in Deliveries |->
    IF rows[d].status = "missing" /\ Active(d)
      THEN [status |-> "pending", attempts |-> 0, due |-> FALSE, job |-> None]
      ELSE rows[d]]

\* The INSERT of the rows that are missing.
InsertMissing ==
  rows' = [d \in Deliveries |->
    IF rows[d].status = "missing" /\ Active(d)
      THEN [status |-> "pending", attempts |-> 0, due |-> TRUE, job |-> None]
      ELSE rows[d]]

\* A cycle starts.  When two cycles insert the same row, the constraint
\* uq_webhook_deliveries_endpoint_event ends the later cycle, which leaves no
\* trace.
ScheduleMissing(s) ==
  /\ schedulers[s].step = "idle"
  /\ InsertMissing
  /\ schedulers' = [schedulers EXCEPT ![s].step = "find"]
  /\ UNCHANGED <<log, deadEvents, endpoints, jobs, deadLetters, slots, accepted,
                 requests, budget>>

Unqueued(d) ==
  rows[d].status \in Open /\ Active(d) /\ rows[d].job = None /\ rows[d].due

FindUnqueued(s) ==
  /\ schedulers[s].step = "find"
  /\ LET found == {d \in Deliveries : Unqueued(d)}
     IN schedulers' = [schedulers EXCEPT
          ![s].step = IF found = {} THEN "idle" ELSE "reserve",
          ![s].todo = found]
  /\ UNCHANGED <<tables, endpoints, jobs, deadLetters, slots, accepted, requests, budget>>

\* The loop over the deliveries goes on or ends.
Continue(s, todo) ==
  schedulers' = [schedulers EXCEPT ![s] =
    [NoCycle EXCEPT !.step = IF todo = {} THEN "idle" ELSE "reserve", !.todo = todo]]

EndCycle(s) == schedulers' = [schedulers EXCEPT ![s] = NoCycle]

FreshJob(j) ==
  /\ jobs[j].delivery = None
  /\ \A i \in JobIds : i < j => jobs[i].delivery # None

\* Mutant of Reservable: the UPDATE lost AND queue_job_id IS NULL.
ReservableAgain(d) == rows[d].status \in Open

\* The WHERE of reserveQueueJob.
Reservable(d) == rows[d].status \in Open /\ rows[d].job = None

CommitReservation(d, j) ==
  /\ rows' = [rows EXCEPT ![d].job = j]
  /\ jobs' = [jobs EXCEPT ![j].delivery = d]

\* reserveQueueJob for one of the deliveries found; another scheduler may have
\* been faster, or the delivery may have been settled.
ReserveQueueJob(s) ==
  /\ schedulers[s].step = "reserve"
  /\ \E d \in schedulers[s].todo :
       \/ /\ Reservable(d)
          /\ \E j \in JobIds :
               /\ FreshJob(j)
               /\ CommitReservation(d, j)
               /\ schedulers' = [schedulers EXCEPT ![s] =
                    [step |-> "enqueue", todo |-> @.todo \ {d}, delivery |-> d, job |-> j]]
       \/ /\ ~Reservable(d)
          /\ Continue(s, schedulers[s].todo \ {d})
          /\ UNCHANGED <<rows, jobs>>
  /\ UNCHANGED <<log, deadEvents, endpoints, deadLetters, slots, accepted, requests, budget>>

\* enqueueWebhookDelivery
EnqueueWebhookDelivery(s) ==
  /\ schedulers[s].step = "enqueue"
  /\ jobs' = [jobs EXCEPT ![schedulers[s].job].state = "waiting"]
  /\ Continue(s, schedulers[s].todo)
  /\ UNCHANGED <<tables, endpoints, deadLetters, slots, accepted, requests, budget>>

\* Redis refuses the job, or takes it and the answer is lost.
EnqueueWebhookDeliveryFails(s) ==
  /\ schedulers[s].step = "enqueue"
  /\ \/ UNCHANGED jobs
     \/ jobs' = [jobs EXCEPT ![schedulers[s].job].state = "waiting"]
  /\ schedulers' = [schedulers EXCEPT ![s].step = "release"]
  /\ Fault("redis")
  /\ UNCHANGED <<tables, endpoints, deadLetters, slots, accepted, requests>>

\* Mutant of CommitRelease: AND queue_job_id = @jobId compares with the wrong
\* column, so that nothing is released.
CommitReleaseNothing(d, j) == UNCHANGED rows

\* The UPDATE of releaseQueueJob: the row may have been reserved anew since.
CommitRelease(d, j) ==
  rows' = IF rows[d].job = j THEN [rows EXCEPT ![d].job = None] ELSE rows

\* releaseQueueJob; the error is thrown on and the cycle ends.
ReleaseQueueJob(s) ==
  /\ schedulers[s].step = "release"
  /\ CommitRelease(schedulers[s].delivery, schedulers[s].job)
  /\ EndCycle(s)
  /\ UNCHANGED <<log, deadEvents, endpoints, jobs, deadLetters, slots, accepted,
                 requests, budget>>

\* A statement of the cycle throws, before or after it has taken effect.
CycleFails(s) ==
  /\ \/ /\ schedulers[s].step = "idle"
        /\ InsertMissing /\ UNCHANGED jobs
     \/ /\ schedulers[s].step # "idle"
        /\ UNCHANGED <<rows, jobs>>
     \/ /\ schedulers[s].step = "reserve"
        /\ \E d \in schedulers[s].todo, j \in JobIds :
             Reservable(d) /\ FreshJob(j) /\ CommitReservation(d, j)
     \/ /\ schedulers[s].step = "release"
        /\ CommitRelease(schedulers[s].delivery, schedulers[s].job) /\ UNCHANGED jobs
  /\ schedulers[s].step # "enqueue"
  /\ EndCycle(s)
  /\ Fault("sql")
  /\ UNCHANGED <<log, deadEvents, endpoints, deadLetters, slots, accepted, requests>>

\* The worker process dies in the middle of a cycle, and starts again.
CrashScheduler(s) ==
  /\ schedulers[s].step # "idle"
  /\ EndCycle(s)
  /\ Fault("crash")
  /\ UNCHANGED <<tables, endpoints, jobs, deadLetters, slots, accepted, requests>>

-----------------------------------------------------------------------------
(* BullMQ *)

\* A free slot locks the job; processWebhookJob computes its attempt number.
StartJob(w, j) ==
  /\ slots[w].step = "idle"
  /\ jobs[j].state = "waiting"
  /\ jobs' = [jobs EXCEPT ![j].state = "active", ![j].owner = w]
  /\ slots' = [slots EXCEPT ![w] = [step |-> "find", job |-> j, attempt |-> jobs[j].made + 1]]
  /\ UNCHANGED <<tables, endpoints, schedulers, deadLetters, accepted, requests, budget>>

\* The check for stalled jobs: back to the queue, or failed without another run
\* of the processor when the job has stalled too often.
Stalled(j) ==
  jobs' = [jobs EXCEPT
    ![j].state = IF jobs[j].stalls < MaxStalls THEN "waiting" ELSE "failed",
    ![j].stalls = @ + 1,
    ![j].owner = None]

Running(w, j) == slots[w].step # "idle" /\ slots[w].job = j

RecoverStalledJob(j) ==
  /\ jobs[j].state = "active"
  /\ ~Running(jobs[j].owner, j)
  /\ Stalled(j)
  /\ UNCHANGED <<tables, endpoints, schedulers, deadLetters, slots, accepted, requests, budget>>

\* The slot could not renew its lock in time but is still running.
LoseJobLock(j) ==
  /\ jobs[j].state = "active"
  /\ Running(jobs[j].owner, j)
  /\ Stalled(j)
  /\ Fault("stall")
  /\ UNCHANGED <<tables, endpoints, schedulers, deadLetters, slots, accepted, requests>>

\* The worker process dies between two steps of an attempt.
CrashSlot(w) ==
  /\ slots[w].step # "idle"
  /\ slots' = [slots EXCEPT ![w] = Free]
  /\ Fault("stall")
  /\ UNCHANGED <<tables, endpoints, schedulers, jobs, deadLetters, accepted, requests>>

-----------------------------------------------------------------------------
(* One attempt in slot w *)

DeliveryOf(w) == jobs[slots[w].job].delivery

Go(w, step) == slots' = [slots EXCEPT ![w].step = step]

\* processWebhookJob catches the error and mirrors the last attempt.
AfterError(w) == IF slots[w].attempt >= MaxAttempts THEN "mirror" ELSE "settle"

\* processJob reads the row; a delivery that is settled needs no attempt.  The
\* status of the endpoint is not looked at again.
FindDelivery(w) ==
  /\ slots[w].step = "find"
  /\ Go(w, IF rows[DeliveryOf(w)].status \in Open THEN "post" ELSE "complete")
  /\ UNCHANGED <<tables, endpoints, schedulers, jobs, deadLetters, accepted,
                 requests, budget>>

\* The read fails, outside of the try block that records failures.
FindDeliveryFails(w) ==
  /\ slots[w].step = "find"
  /\ Go(w, AfterError(w))
  /\ Fault("sql")
  /\ UNCHANGED <<tables, endpoints, schedulers, jobs, deadLetters, accepted, requests>>

MerchantTakes(d) == accepted' = [accepted EXCEPT ![d] = @ + 1]

\* The merchant answers 2xx.
Post(w) ==
  /\ slots[w].step = "post"
  /\ MerchantTakes(DeliveryOf(w))
  /\ Go(w, "succeed")
  /\ UNCHANGED <<tables, endpoints, schedulers, jobs, deadLetters, requests, budget>>

\* Mutant of PostFails: response.ok is not looked at.
PostFailsUnnoticed(w) ==
  /\ slots[w].step = "post"
  /\ UNCHANGED accepted
  /\ Go(w, "succeed")
  /\ UNCHANGED <<tables, endpoints, schedulers, jobs, deadLetters, requests, budget>>

\* Another status, a refused connection or the timeout; the merchant may have
\* taken the event all the same.
PostFails(w) ==
  /\ slots[w].step = "post"
  /\ UNCHANGED accepted \/ MerchantTakes(DeliveryOf(w))
  /\ Go(w, "fail")
  /\ UNCHANGED <<tables, endpoints, schedulers, jobs, deadLetters, requests, budget>>

Settle(d, status, attempt, due) ==
  rows' = [rows EXCEPT ![d] =
    [status |-> status, attempts |-> attempt, due |-> due, job |-> @.job]]

\* The transaction of recordDeliverySucceeded.
CommitSucceeded(d, attempt) ==
  /\ log' = [log EXCEPT ![d].ok = @ + 1]
  /\ IF rows[d].status \in Open THEN Settle(d, "delivered", attempt, FALSE)
                                ELSE UNCHANGED rows
  /\ UNCHANGED deadEvents

RecordSucceeded(w) ==
  /\ slots[w].step = "succeed"
  /\ CommitSucceeded(DeliveryOf(w), slots[w].attempt)
  /\ Go(w, "complete")
  /\ UNCHANGED <<endpoints, schedulers, jobs, deadLetters, accepted, requests, budget>>

\* recordDeliverySucceeded throws, rolled back or with its commit
\* unacknowledged; the catch block treats it like a failed request.
RecordSucceededFails(w) ==
  /\ slots[w].step = "succeed"
  /\ UNCHANGED tables \/ CommitSucceeded(DeliveryOf(w), slots[w].attempt)
  /\ Go(w, "fail")
  /\ Fault("sql")
  /\ UNCHANGED <<endpoints, schedulers, jobs, deadLetters, accepted, requests>>

\* The effect of a failed attempt on an open delivery.
FailDelivery(d, attempt) ==
  IF attempt >= MaxAttempts
    THEN /\ Settle(d, "dead_letter", attempt, FALSE)
         /\ deadEvents' = [deadEvents EXCEPT ![d] = @ + 1]
    ELSE /\ Settle(d, "failed", attempt, FALSE)
         /\ UNCHANGED deadEvents

LogFailure(d) == log' = [log EXCEPT ![d].failed = @ + 1]

\* Mutant of CommitFailed: the UPDATE lost AND status IN ('pending', 'failed').
CommitFailedUnguarded(d, attempt) == LogFailure(d) /\ FailDelivery(d, attempt)

\* Mutant of CommitFailed: the event is appended when no row was updated.
CommitFailedAlwaysAnnounced(d, attempt) ==
  /\ LogFailure(d)
  /\ IF rows[d].status \in Open
       THEN FailDelivery(d, attempt)
       ELSE /\ UNCHANGED rows
            /\ deadEvents' = IF attempt >= MaxAttempts
                               THEN [deadEvents EXCEPT ![d] = @ + 1] ELSE deadEvents

\* Mutant of CommitFailed: the last attempt is missed by one.
CommitFailedOffByOne(d, attempt) ==
  /\ LogFailure(d)
  /\ IF rows[d].status \in Open
       THEN /\ Settle(d, IF attempt > MaxAttempts THEN "dead_letter" ELSE "failed",
                      attempt, FALSE)
            /\ UNCHANGED deadEvents
       ELSE UNCHANGED <<rows, deadEvents>>

\* The transaction of recordDeliveryFailed.
CommitFailed(d, attempt) ==
  /\ LogFailure(d)
  /\ IF rows[d].status \in Open THEN FailDelivery(d, attempt)
                                ELSE UNCHANGED <<rows, deadEvents>>

RecordFailed(w) ==
  /\ slots[w].step = "fail"
  /\ CommitFailed(DeliveryOf(w), slots[w].attempt)
  /\ Go(w, AfterError(w))
  /\ UNCHANGED <<endpoints, schedulers, jobs, deadLetters, accepted, requests, budget>>

RecordFailedFails(w) ==
  /\ slots[w].step = "fail"
  /\ UNCHANGED tables \/ CommitFailed(DeliveryOf(w), slots[w].attempt)
  /\ Go(w, AfterError(w))
  /\ Fault("sql")
  /\ UNCHANGED <<endpoints, schedulers, jobs, deadLetters, accepted, requests>>

\* enqueueDeadLetter; Redis may refuse, and the attempt ends with an error in
\* either case.
MirrorDeadLetter(w) ==
  /\ slots[w].step = "mirror"
  /\ UNCHANGED deadLetters \/ deadLetters' = deadLetters \cup {slots[w].job}
  /\ Go(w, "settle")
  /\ UNCHANGED <<tables, endpoints, schedulers, jobs, accepted, requests, budget>>

\* BullMQ settles the attempt if the slot still holds the lock of the job.
SettleJob(w, settled) ==
  LET j == slots[w].job
  IN /\ jobs' = IF jobs[j].state = "active" /\ jobs[j].owner = w
                  THEN [jobs EXCEPT ![j] = settled] ELSE jobs
     /\ slots' = [slots EXCEPT ![w] = Free]
     /\ UNCHANGED <<tables, endpoints, schedulers, deadLetters, accepted, requests, budget>>

CompleteJob(w) ==
  /\ slots[w].step = "complete"
  /\ SettleJob(w, [jobs[slots[w].job] EXCEPT !.state = "completed", !.owner = None])

\* Mutant of FailAttempt: BullMQ is given one attempt too many.
FailAttemptOneMore(w) ==
  LET made == jobs[slots[w].job].made + 1
  IN /\ slots[w].step = "settle"
     /\ SettleJob(w, [jobs[slots[w].job] EXCEPT
          !.state = IF made <= MaxAttempts THEN "waiting" ELSE "failed",
          !.made = made,
          !.owner = None])

FailAttempt(w) ==
  LET made == jobs[slots[w].job].made + 1
  IN /\ slots[w].step = "settle"
     /\ SettleJob(w, [jobs[slots[w].job] EXCEPT
          !.state = IF made < MaxAttempts THEN "waiting" ELSE "failed",
          !.made = made,
          !.owner = None])

-----------------------------------------------------------------------------
(* replayDelivery *)

\* The SELECT under READ COMMITTED with its refusals.
ReplaySelect(r, d) ==
  /\ requests[r].step = "none"
  /\ rows[d].status \notin {"none", "missing"}
  /\ requests' = [requests EXCEPT ![r] =
       [step |-> IF rows[d].status \in {"failed", "dead_letter"} THEN "update" ELSE "refused",
        delivery |-> d]]
  /\ UNCHANGED <<tables, endpoints, schedulers, jobs, deadLetters, slots, accepted, budget>>

\* The UPDATE by id alone, and the audit entry.
ReplayUpdate(r) ==
  /\ requests[r].step = "update"
  /\ rows' = [rows EXCEPT ![requests[r].delivery] =
       [status |-> "pending", attempts |-> 0, due |-> TRUE, job |-> None]]
  /\ requests' = [requests EXCEPT ![r].step = "replayed"]
  /\ UNCHANGED <<log, deadEvents, endpoints, schedulers, jobs, deadLetters, slots,
                 accepted, budget>>

\* The transaction rolls back.
ReplayFails(r) ==
  /\ requests[r].step = "update"
  /\ requests' = [requests EXCEPT ![r].step = "refused"]
  /\ Fault("sql")
  /\ UNCHANGED <<tables, endpoints, schedulers, jobs, deadLetters, slots, accepted>>

-----------------------------------------------------------------------------
Cycle(s) ==
  \/ ScheduleMissing(s) \/ FindUnqueued(s) \/ ReserveQueueJob(s)
  \/ EnqueueWebhookDelivery(s) \/ ReleaseQueueJob(s)

Attempt(w) ==
  \/ FindDelivery(w) \/ Post(w) \/ PostFails(w) \/ RecordSucceeded(w)
  \/ RecordFailed(w) \/ MirrorDeadLetter(w) \/ CompleteJob(w) \/ FailAttempt(w)

AttemptFails(w) ==
  FindDeliveryFails(w) \/ RecordSucceededFails(w) \/ RecordFailedFails(w) \/ CrashSlot(w)

Next ==
  \/ \E d \in Deliveries : AppendEvent(d) \/ BackoffEnds(d)
  \/ \E e \in Endpoints :
       \/ \E status \in {"active", "disabled"} : UpdateEndpoint(e, status)
       \/ DeleteEndpoint(e)
  \/ \E s \in Schedulers :
       Cycle(s) \/ EnqueueWebhookDeliveryFails(s) \/ CycleFails(s) \/ CrashScheduler(s)
  \/ \E j \in JobIds :
       \/ \E w \in Slots : StartJob(w, j)
       \/ RecoverStalledJob(j) \/ LoseJobLock(j)
  \/ \E w \in Slots : Attempt(w) \/ AttemptFails(w)
  \/ \E r \in Requests :
       \/ \E d \in Deliveries : ReplaySelect(r, d)
       \/ ReplayUpdate(r) \/ ReplayFails(r)

Spec == Init /\ [][Next]_vars

\* Timers start cycles, BullMQ takes waiting jobs up and looks for stalled
\* ones, every request is answered or fails, and time passes.
Fairness ==
  /\ \A s \in Schedulers : WF_vars(Cycle(s))
  /\ \A j \in JobIds :
       WF_vars(\E w \in Slots : StartJob(w, j)) /\ WF_vars(RecoverStalledJob(j))
  /\ \A w \in Slots : WF_vars(Attempt(w))
  /\ \A d \in Deliveries : WF_vars(BackoffEnds(d))

FairSpec == Spec /\ Fairness

-----------------------------------------------------------------------------
(* Properties *)

Spent(kind) == FaultBudget[kind] - budget[kind]

JobsOf(d) == {j \in JobIds : jobs[j].delivery = d}

LiveJobs(d) == {j \in JobsOf(d) : jobs[j].state \in {"waiting", "active"}}

Replays(d) ==
  Cardinality({r \in Requests : requests[r].step = "replayed" /\ requests[r].delivery = d})

\* A delivery counts as delivered only when the merchant took the event and a
\* successful attempt is on record, through replays and jobs that outlive them.
DeliveredWasAccepted ==
  \A d \in Deliveries : rows[d].status = "delivered" => accepted[d] > 0 /\ log[d].ok > 0

\* An open delivery that is reserved, although no job of it will run and no
\* scheduler is about to add the job or to give the reservation back.
Stranded(d) ==
  /\ rows[d].status \in Open
  /\ rows[d].job # None
  /\ LiveJobs(d) = {}
  /\ \A s \in Schedulers :
       schedulers[s].step \in {"enqueue", "release"} => schedulers[s].delivery # d

\* Only a crash, an SQL failure or a job that stalled too often leaves a
\* delivery reserved with nobody working on it: no order of schedulers, retries
\* and replays alone does.
StrandedHasCause ==
  \A d \in Deliveries :
    Stranded(d) =>
      \/ Spent("crash") + Spent("sql") > 0
      \/ \E j \in JobsOf(d) : jobs[j].stalls > MaxStalls

\* The merchant takes an event again only after a failure that is on record, a
\* replay or a fault: concurrent jobs and slots alone repeat nothing.
RepetitionHasCause ==
  \A d \in Deliveries :
    accepted[d] <= 1 + log[d].failed + Replays(d)
                     + Spent("sql") + Spent("redis") + Spent("stall")

\* Each move to dead_letter appends one webhook.dead_lettered.v1 event with its
\* audit entry, and nothing else does: two jobs that fail for the last time, or
\* one that fails after the delivery was settled, announce once.
DeadLetterAnnouncedOnce ==
  [][\A d \in Deliveries :
       deadEvents'[d] = deadEvents[d] +
         IF rows[d].status # "dead_letter" /\ rows'[d].status = "dead_letter"
           THEN 1 ELSE 0]_vars

\* A settled delivery is only reopened by a replay that had seen it failed or
\* dead-lettered: no late attempt of an older job changes it.
OnlyReplayReopens ==
  [][\A d \in Deliveries :
       rows[d].status \in {"delivered", "dead_letter"} /\ rows'[d] # rows[d] =>
         \/ rows'[d] = [rows[d] EXCEPT !.job = None]
         \/ /\ rows'[d].status = "pending"
            /\ \E r \in Requests :
                 requests[r].step = "update" /\ requests'[r].step = "replayed"]_vars

\* What the API tells the operator: only failed or dead-lettered deliveries are
\* replayed.
DeliveredIsNotReplayed ==
  [][\A d \in Deliveries :
       rows[d].status = "delivered" => rows'[d].status = "delivered"]_vars

\* Every payout event is delivered or dead-lettered as long as its endpoint
\* stays active, or it ends up stranded, for which StrandedHasCause names the
\* causes.
AnnouncedIsSettled ==
  \A d \in Deliveries :
    rows[d].status \in {"missing", "pending", "failed"} ~>
      rows[d].status \in {"delivered", "dead_letter"} \/ ~Active(d) \/ Stranded(d)
=============================================================================
