--------------------------- MODULE PayoutDispatch ---------------------------
(***************************************************************************)
(* The path of a payout from the API to its final status:                  *)
(*                                                                         *)
(*   API         createPayout and decideApproval, one serializable SQL     *)
(*               transaction each, which write the payout, its history,    *)
(*               its audit entry and its outbox events together;           *)
(*   relay       turns the payout.created.v1 event into a BullMQ job, at   *)
(*               least once and under a job id derived from the event (its *)
(*               own leases and retries are not in this module);           *)
(*   workers     run the job: read the payout, submit it to the provider,  *)
(*               record the outcome, and let BullMQ retry a failure;       *)
(*   provider    accepts a payout once per memory of its process and       *)
(*               sends one callback, which nobody retries;                 *)
(*   callbacks   read the payout and then update it, in a transaction that *)
(*               takes no lock between the two.                            *)
(*                                                                         *)
(* A payout has exactly one payout.created.v1 event, so the job and the    *)
(* event are named by the payout.  Faults come out of finite budgets; an   *)
(* unreachable provider is limited only by the attempts of the job.        *)
(***************************************************************************)
EXTENDS Naturals, Sequences, FiniteSets

CONSTANTS
  PayoutIds,         \* the payouts
  Declined,          \* payouts of at least 5,000,000 minor units
  Workers,           \* the processor slots of all worker processes
  ProviderPayouts,   \* bound: the provider payout ids there are to hand out
  MaxAttempts,       \* asyncRetryPolicy.attempts
  MaxStalls,         \* BullMQ's maxStalledCount
  FaultBudget,       \* bound: how often each kind of fault may happen
  None               \* SQL NULL, and "no such thing"

FaultKinds == {"sql", "stall", "restart", "callback"}

ASSUME ConstantsAssumption ==
  /\ Declined \subseteq PayoutIds
  /\ MaxAttempts \in Nat \ {0}
  /\ MaxStalls \in Nat
  /\ FaultBudget \in [FaultKinds -> Nat]
  /\ None \notin PayoutIds \cup Workers \cup ProviderPayouts

VARIABLES
  payouts,     \* dbo.payouts: the columns that dispatch and callbacks touch
  approvals,   \* dbo.payout_approvals.status
  history,     \* dbo.payout_status_history, oldest row first
  outbox,      \* dbo.outbox_events: how many of each type the payout has
  audit,       \* dbo.audit_logs: the actions recorded about the payout
  jobs,        \* the BullMQ job of the payout's created event
  deadLetters, \* payouts mirrored into the paymentops-dead-letter queue
  runs,        \* what each processor slot is doing
  accepted,    \* the provider's payoutsByIdempotencyKey map
  issued,      \* the payout each provider payout id was made for
  callbacks,   \* the one callback of each provider payout
  budget       \* faults that may still happen

sqlVars == <<payouts, approvals, history, outbox, audit>>
queueVars == <<jobs, deadLetters>>
providerVars == <<accepted, issued>>
vars == <<sqlVars, queueVars, runs, providerVars, callbacks, budget>>

-----------------------------------------------------------------------------
(* Values *)

Statuses ==
  {"none", "needs_approval", "queued", "processing", "paid", "failed", "canceled"}

Terminal == {"paid", "failed", "canceled"}

ApprovalStatuses == {"none", "pending", "approved", "rejected"}

EventTypes ==
  {"approval_requested", "created", "approved", "rejected", "processing", "paid", "failed"}

AuditActions ==
  {"approval_requested", "created", "approved", "rejected", "paid", "failed",
   "dispatch_dead_lettered"}

PayoutRow ==
  [status : Statuses, provider : ProviderPayouts \cup {None},
   attempts : 0 .. MaxAttempts, deadLettered : BOOLEAN]

HistoryRow == [from : Statuses, to : Statuses]

\* "none" was never added; "removed" was added, finished and then dropped by
\* removeOnComplete or removeOnFail.  "waiting" includes the backoff delay.
JobStates == {"none", "waiting", "active", "completed", "failed", "removed"}

Job ==
  [state : JobStates, made : 0 .. MaxAttempts, stalls : 0 .. MaxStalls + 1,
   owner : Workers \cup {None}]

Steps ==
  {"idle", "find", "submit", "mark", "record", "complete", "throw", "settle"}

Run ==
  [step : Steps, payout : PayoutIds \cup {None}, attempt : 0 .. MaxAttempts,
   provider : ProviderPayouts \cup {None}]

Idle == [step |-> "idle", payout |-> None, attempt |-> 0, provider |-> None]

CallbackStates ==
  {"none", "scheduled", "applying", "accepted", "ignored", "conflict", "lost"}

Callback == [state : CallbackStates, seen : Statuses]

\* The verdict depends on the amount alone.
Verdict(p) == IF p \in Declined THEN "failed" ELSE "paid"

TypeOK ==
  /\ payouts \in [PayoutIds -> PayoutRow]
  /\ approvals \in [PayoutIds -> ApprovalStatuses]
  /\ history \in [PayoutIds -> Seq(HistoryRow)]
  /\ outbox \in [PayoutIds -> [EventTypes -> Nat]]
  /\ audit \in [PayoutIds -> SUBSET AuditActions]
  /\ jobs \in [PayoutIds -> Job]
  /\ deadLetters \in SUBSET PayoutIds
  /\ runs \in [Workers -> Run]
  /\ accepted \in [PayoutIds -> ProviderPayouts \cup {None}]
  /\ issued \in [ProviderPayouts -> PayoutIds \cup {None}]
  /\ callbacks \in [ProviderPayouts -> Callback]
  /\ budget \in [FaultKinds -> Nat]

Init ==
  /\ payouts = [p \in PayoutIds |->
       [status |-> "none", provider |-> None, attempts |-> 0, deadLettered |-> FALSE]]
  /\ approvals = [p \in PayoutIds |-> "none"]
  /\ history = [p \in PayoutIds |-> <<>>]
  /\ outbox = [p \in PayoutIds |-> [t \in EventTypes |-> 0]]
  /\ audit = [p \in PayoutIds |-> {}]
  /\ jobs = [p \in PayoutIds |->
       [state |-> "none", made |-> 0, stalls |-> 0, owner |-> None]]
  /\ deadLetters = {}
  /\ runs = [w \in Workers |-> Idle]
  /\ accepted = [p \in PayoutIds |-> None]
  /\ issued = [pp \in ProviderPayouts |-> None]
  /\ callbacks = [pp \in ProviderPayouts |-> [state |-> "none", seen |-> "none"]]
  /\ budget = FaultBudget

Fault(kind) ==
  /\ budget[kind] > 0
  /\ budget' = [budget EXCEPT ![kind] = @ - 1]

\* The rows every transaction writes beside the status it changes.
Record(p, from, to, events, actions) ==
  /\ history' = [history EXCEPT ![p] = Append(@, [from |-> from, to |-> to])]
  /\ outbox' = [outbox EXCEPT ![p] =
       [t \in EventTypes |-> IF t \in events THEN @[t] + 1 ELSE @[t]]]
  /\ audit' = [audit EXCEPT ![p] = @ \cup actions]

-----------------------------------------------------------------------------
(* API *)

\* Mutant of CreatePayout: the status and the event ignore the risk match.
CreatePayoutIgnoringRisk(p, matched) ==
  /\ payouts[p].status = "none"
  /\ payouts' = [payouts EXCEPT ![p].status = "queued"]
  /\ approvals' = [approvals EXCEPT ![p] = IF matched THEN "pending" ELSE @]
  /\ Record(p, "none", "queued", {"created"}, {"created"})
  /\ UNCHANGED <<queueVars, runs, providerVars, callbacks, budget>>

\* PayoutsRepository.createPayout for a new idempotency key; "matched" says
\* whether a risk rule holds the payout for approval.
CreatePayout(p, matched) ==
  LET status == IF matched THEN "needs_approval" ELSE "queued"
      event == IF matched THEN "approval_requested" ELSE "created"
  IN /\ payouts[p].status = "none"
     /\ payouts' = [payouts EXCEPT ![p].status = status]
     /\ approvals' = [approvals EXCEPT ![p] = IF matched THEN "pending" ELSE @]
     /\ Record(p, "none", status, {event}, {event})
     /\ UNCHANGED <<queueVars, runs, providerVars, callbacks, budget>>

\* Mutant of DecideApproval: an approval forgets its payout.created.v1 event.
DecideApprovalWithoutCreated(p, decision) ==
  LET status == IF decision = "approved" THEN "queued" ELSE "canceled"
  IN /\ approvals[p] = "pending"
     /\ payouts[p].status = "needs_approval"
     /\ payouts' = [payouts EXCEPT ![p].status = status]
     /\ approvals' = [approvals EXCEPT ![p] = decision]
     /\ Record(p, "needs_approval", status, {decision}, {decision})
     /\ UNCHANGED <<queueVars, runs, providerVars, callbacks, budget>>

\* ApprovalsRepository.decideApproval.  SERIALIZABLE keeps what it read
\* locked until it commits, so the handler is one step.
DecideApproval(p, decision) ==
  LET status == IF decision = "approved" THEN "queued" ELSE "canceled"
      events == IF decision = "approved" THEN {"approved", "created"} ELSE {"rejected"}
  IN /\ approvals[p] = "pending"
     /\ payouts[p].status = "needs_approval"
     /\ payouts' = [payouts EXCEPT ![p].status = status]
     /\ approvals' = [approvals EXCEPT ![p] = decision]
     /\ Record(p, "needs_approval", status, events, {decision})
     /\ UNCHANGED <<queueVars, runs, providerVars, callbacks, budget>>

-----------------------------------------------------------------------------
(* Queue *)

\* AsyncQueueService.enqueuePayoutDispatch, called by the relay once or more
\* for each created event.  BullMQ ignores an id it still knows.
EnqueuePayoutDispatch(p) ==
  /\ outbox[p]["created"] > 0
  /\ jobs[p].state \in {"none", "removed"}
  /\ jobs' = [jobs EXCEPT ![p] =
       [state |-> "waiting", made |-> 0, stalls |-> 0, owner |-> None]]
  /\ UNCHANGED <<sqlVars, deadLetters, runs, providerVars, callbacks, budget>>

\* BullMQ drops finished jobs by age and count.
RemoveFinishedJob(p) ==
  /\ jobs[p].state \in {"completed", "failed"}
  /\ jobs' = [jobs EXCEPT ![p].state = "removed"]
  /\ UNCHANGED <<sqlVars, deadLetters, runs, providerVars, callbacks, budget>>

\* A free slot locks the job; processPayoutJob computes its attempt number.
StartJob(w, p) ==
  /\ runs[w].step = "idle"
  /\ jobs[p].state = "waiting"
  /\ jobs' = [jobs EXCEPT ![p].state = "active", ![p].owner = w]
  /\ runs' = [runs EXCEPT ![w] =
       [step |-> "find", payout |-> p, attempt |-> jobs[p].made + 1, provider |-> None]]
  /\ UNCHANGED <<sqlVars, deadLetters, providerVars, callbacks, budget>>

\* The stalled-job check: back to the queue, or failed without another run of
\* the processor when the job has stalled too often.
Stalled(p) ==
  jobs' = [jobs EXCEPT
    ![p].state = IF jobs[p].stalls < MaxStalls THEN "waiting" ELSE "failed",
    ![p].stalls = @ + 1,
    ![p].owner = None]

Running(w, p) == runs[w].step # "idle" /\ runs[w].payout = p

\* The slot that locked the job is gone.
RecoverStalledJob(p) ==
  /\ jobs[p].state = "active"
  /\ ~Running(jobs[p].owner, p)
  /\ Stalled(p)
  /\ UNCHANGED <<sqlVars, deadLetters, runs, providerVars, callbacks, budget>>

\* The slot that locked the job could not renew the lock but is still running.
LoseJobLock(p) ==
  /\ jobs[p].state = "active"
  /\ Running(jobs[p].owner, p)
  /\ Stalled(p)
  /\ Fault("stall")
  /\ UNCHANGED <<sqlVars, deadLetters, runs, providerVars, callbacks>>

\* The worker process dies between two steps.
CrashWorker(w) ==
  /\ runs[w].step # "idle"
  /\ runs' = [runs EXCEPT ![w] = Idle]
  /\ Fault("stall")
  /\ UNCHANGED <<sqlVars, queueVars, providerVars, callbacks>>

-----------------------------------------------------------------------------
(* One attempt of the dispatch job in slot w *)

Go(w, step) == runs' = [runs EXCEPT ![w].step = step]

\* PayoutDispatchService.processJob reads the payout; a payout that is no
\* longer queued needs no dispatch.
FindDispatch(w) ==
  /\ runs[w].step = "find"
  /\ Go(w, IF payouts[runs[w].payout].status = "queued" THEN "submit" ELSE "complete")
  /\ UNCHANGED <<sqlVars, queueVars, providerVars, callbacks, budget>>

\* The read fails, outside the try block that records failures.
FindDispatchFails(w) ==
  /\ runs[w].step = "find"
  /\ Fault("sql")
  /\ Go(w, "throw")
  /\ UNCHANGED <<sqlVars, queueVars, providerVars, callbacks>>

\* Mutant of ProviderCreatePayout: every request makes a new provider payout.
ProviderCreateEveryTime(p, pp) ==
  /\ issued[pp] = None
  /\ accepted' = [accepted EXCEPT ![p] = pp]
  /\ issued' = [issued EXCEPT ![pp] = p]
  /\ callbacks' = [callbacks EXCEPT ![pp].state = "scheduled"]

\* ProviderPayoutsService.createPayout: an id the process remembers, or a new
\* one with its callback timer.
ProviderCreatePayout(p, pp) ==
  \/ /\ accepted[p] = pp
     /\ UNCHANGED <<providerVars, callbacks>>
  \/ /\ accepted[p] = None
     /\ issued[pp] = None
     /\ accepted' = [accepted EXCEPT ![p] = pp]
     /\ issued' = [issued EXCEPT ![pp] = p]
     /\ callbacks' = [callbacks EXCEPT ![pp].state = "scheduled"]

\* submitToProvider, and the provider answers.
SubmitToProvider(w) ==
  /\ runs[w].step = "submit"
  /\ \E pp \in ProviderPayouts :
       /\ ProviderCreatePayout(runs[w].payout, pp)
       /\ runs' = [runs EXCEPT ![w].step = "mark", ![w].provider = pp]
  /\ UNCHANGED <<sqlVars, queueVars, budget>>

\* submitToProvider throws: the provider never saw the request, or it did and
\* the answer was lost.
SubmitToProviderFails(w) ==
  /\ runs[w].step = "submit"
  /\ \/ UNCHANGED <<providerVars, callbacks>>
     \/ \E pp \in ProviderPayouts : ProviderCreatePayout(runs[w].payout, pp)
  /\ Go(w, "record")
  /\ UNCHANGED <<sqlVars, queueVars, budget>>

\* Mutant of CommitDispatchSucceeded: the UPDATE lost AND status = 'queued'.
CommitDispatchUnguarded(p, pp) ==
  /\ payouts' = [payouts EXCEPT ![p].status = "processing", ![p].provider = pp]
  /\ Record(p, "queued", "processing", {"processing"}, {})
  /\ UNCHANGED approvals

\* The transaction of markDispatchSucceeded.
CommitDispatchSucceeded(p, pp) ==
  \/ /\ payouts[p].status = "queued"
     /\ payouts' = [payouts EXCEPT ![p].status = "processing", ![p].provider = pp]
     /\ Record(p, "queued", "processing", {"processing"}, {})
     /\ UNCHANGED approvals
  \/ payouts[p].status # "queued" /\ UNCHANGED sqlVars

MarkDispatchSucceeded(w) ==
  /\ runs[w].step = "mark"
  /\ CommitDispatchSucceeded(runs[w].payout, runs[w].provider)
  /\ Go(w, "complete")
  /\ UNCHANGED <<queueVars, providerVars, callbacks, budget>>

\* markDispatchSucceeded throws, rolled back or with its commit unacknowledged.
\* The catch block of dispatchPayout treats it like a refused submission.
MarkDispatchSucceededFails(w) ==
  /\ runs[w].step = "mark"
  /\ Fault("sql")
  /\ \/ UNCHANGED sqlVars
     \/ CommitDispatchSucceeded(runs[w].payout, runs[w].provider)
  /\ Go(w, "record")
  /\ UNCHANGED <<queueVars, providerVars, callbacks>>

FailureOf(p, attempt, deadLetter) ==
  /\ payouts' = [payouts EXCEPT
       ![p].attempts = IF @ < attempt THEN attempt ELSE @,
       ![p].deadLettered = deadLetter,
       ![p].status = IF deadLetter THEN "failed" ELSE @]
  /\ IF deadLetter
       THEN Record(p, "queued", "failed", {"failed"}, {"dispatch_dead_lettered"})
       ELSE UNCHANGED <<history, outbox, audit>>
  /\ UNCHANGED approvals

\* Mutant of CommitDispatchFailure: the UPDATE lost AND status = 'queued'.
CommitFailureUnguarded(p, attempt) == FailureOf(p, attempt, attempt >= MaxAttempts)

\* Mutant of CommitDispatchFailure: the last attempt is missed by one.
CommitFailureOffByOne(p, attempt) ==
  \/ payouts[p].status = "queued" /\ FailureOf(p, attempt, attempt > MaxAttempts)
  \/ payouts[p].status # "queued" /\ UNCHANGED sqlVars

\* Mutant of CommitDispatchFailure: it records the attempt number incremented
\* twice.
CommitFailureCountsOneMore(p, attempt) ==
  \/ payouts[p].status = "queued" /\ FailureOf(p, attempt + 1, attempt >= MaxAttempts)
  \/ payouts[p].status # "queued" /\ UNCHANGED sqlVars

\* Mutant of CommitDispatchFailure: attemptsMade is taken for the number of the
\* attempt, so the last but one counts as the last.
CommitFailureOneEarly(p, attempt) ==
  \/ payouts[p].status = "queued" /\ FailureOf(p, attempt, attempt + 1 >= MaxAttempts)
  \/ payouts[p].status # "queued" /\ UNCHANGED sqlVars

\* The transaction of recordDispatchFailure.
CommitDispatchFailure(p, attempt) ==
  \/ payouts[p].status = "queued" /\ FailureOf(p, attempt, attempt >= MaxAttempts)
  \/ payouts[p].status # "queued" /\ UNCHANGED sqlVars

RecordDispatchFailure(w) ==
  /\ runs[w].step = "record"
  /\ CommitDispatchFailure(runs[w].payout, runs[w].attempt)
  /\ Go(w, "throw")
  /\ UNCHANGED <<queueVars, providerVars, callbacks, budget>>

RecordDispatchFailureFails(w) ==
  /\ runs[w].step = "record"
  /\ Fault("sql")
  /\ \/ UNCHANGED sqlVars
     \/ CommitDispatchFailure(runs[w].payout, runs[w].attempt)
  /\ Go(w, "throw")
  /\ UNCHANGED <<queueVars, providerVars, callbacks>>

\* The catch block of processPayoutJob mirrors the last attempt; whether Redis
\* takes the mirror or not, the attempt ends with an error.
MirrorDeadLetter(w) ==
  /\ runs[w].step = "throw"
  /\ \/ /\ runs[w].attempt >= MaxAttempts
        /\ deadLetters' = deadLetters \cup {runs[w].payout}
     \/ UNCHANGED deadLetters
  /\ Go(w, "settle")
  /\ UNCHANGED <<sqlVars, jobs, providerVars, callbacks, budget>>

\* BullMQ settles the attempt if the slot still holds the lock of the job.
SettleJob(w, settled) ==
  LET p == runs[w].payout
  IN /\ jobs' = IF jobs[p].state = "active" /\ jobs[p].owner = w
                  THEN [jobs EXCEPT ![p] = settled] ELSE jobs
     /\ runs' = [runs EXCEPT ![w] = Idle]
     /\ UNCHANGED <<sqlVars, deadLetters, providerVars, callbacks, budget>>

CompleteJob(w) ==
  /\ runs[w].step = "complete"
  /\ SettleJob(w, [jobs[runs[w].payout] EXCEPT !.state = "completed", !.owner = None])

FailAttempt(w) ==
  LET made == jobs[runs[w].payout].made + 1
  IN /\ runs[w].step = "settle"
     /\ SettleJob(w, [jobs[runs[w].payout] EXCEPT
          !.state = IF made < MaxAttempts THEN "waiting" ELSE "failed",
          !.made = made,
          !.owner = None])

-----------------------------------------------------------------------------
(* Provider and callbacks *)

\* The provider's map and its timers live in memory.
RestartProvider ==
  /\ Fault("restart")
  /\ accepted' = [p \in PayoutIds |-> None]
  /\ callbacks' = [pp \in ProviderPayouts |->
       IF callbacks[pp].state = "scheduled"
         THEN [callbacks[pp] EXCEPT !.state = "lost"] ELSE callbacks[pp]]
  /\ UNCHANGED <<sqlVars, queueVars, runs, issued>>

\* Mutant of ReadForCallback: a callback that arrives before the worker has
\* marked the payout as processing is turned away.
ReadForCallbackProcessingOnly(pp) ==
  /\ callbacks[pp].state = "scheduled"
  /\ callbacks' = [callbacks EXCEPT ![pp] =
       [state |-> IF payouts[issued[pp]].status = "processing" THEN "applying" ELSE "ignored",
        seen |-> payouts[issued[pp]].status]]
  /\ UNCHANGED <<sqlVars, queueVars, runs, providerVars, budget>>

\* applyPayoutCallback up to its early returns: the SELECT under READ COMMITTED.
ReadForCallback(pp) ==
  LET row == payouts[issued[pp]]
  IN /\ callbacks[pp].state = "scheduled"
     /\ callbacks' = [callbacks EXCEPT ![pp] =
          [state |-> IF row.provider # None /\ row.provider # pp THEN "conflict"
                     ELSE IF row.status \in Terminal THEN "ignored"
                     ELSE "applying",
           seen |-> row.status]]
     /\ UNCHANGED <<sqlVars, queueVars, runs, providerVars, budget>>

\* The rest of applyPayoutCallback: an UPDATE by payout id alone, and rows that
\* repeat the status the SELECT saw.
ApplyCallback(pp) ==
  LET p == issued[pp]
      status == Verdict(p)
  IN /\ callbacks[pp].state = "applying"
     /\ payouts' = [payouts EXCEPT ![p].status = status,
                                   ![p].provider = IF @ = None THEN pp ELSE @]
     /\ Record(p, callbacks[pp].seen, status, {status}, {status})
     /\ callbacks' = [callbacks EXCEPT ![pp].state = "accepted"]
     /\ UNCHANGED <<approvals, queueVars, runs, providerVars, budget>>

\* The request fails, or its transaction rolls back; sendCallback only logs it.
LoseCallback(pp) ==
  /\ callbacks[pp].state \in {"scheduled", "applying"}
  /\ Fault("callback")
  /\ callbacks' = [callbacks EXCEPT ![pp].state = "lost"]
  /\ UNCHANGED <<sqlVars, queueVars, runs, providerVars>>

-----------------------------------------------------------------------------
Attempt(w) ==
  \/ FindDispatch(w) \/ SubmitToProvider(w) \/ SubmitToProviderFails(w)
  \/ MarkDispatchSucceeded(w) \/ RecordDispatchFailure(w)
  \/ MirrorDeadLetter(w) \/ CompleteJob(w) \/ FailAttempt(w)

SqlFails(w) ==
  \/ FindDispatchFails(w) \/ MarkDispatchSucceededFails(w) \/ RecordDispatchFailureFails(w)

Next ==
  \/ \E p \in PayoutIds :
       \/ \E matched \in BOOLEAN : CreatePayout(p, matched)
       \/ \E decision \in {"approved", "rejected"} : DecideApproval(p, decision)
       \/ EnqueuePayoutDispatch(p) \/ RemoveFinishedJob(p)
       \/ RecoverStalledJob(p) \/ LoseJobLock(p)
  \/ \E w \in Workers :
       \/ \E p \in PayoutIds : StartJob(w, p)
       \/ Attempt(w) \/ SqlFails(w) \/ CrashWorker(w)
  \/ RestartProvider
  \/ \E pp \in ProviderPayouts :
       ReadForCallback(pp) \/ ApplyCallback(pp) \/ LoseCallback(pp)

Spec == Init /\ [][Next]_vars

\* The relay enqueues every created event, a free slot takes a waiting job,
\* BullMQ looks for stalled jobs, a request is answered or fails, and the API
\* finishes the transactions it starts.
Fairness ==
  /\ \A p \in PayoutIds :
       /\ WF_vars(jobs[p].state = "none" /\ EnqueuePayoutDispatch(p))
       /\ WF_vars(\E w \in Workers : StartJob(w, p))
       /\ WF_vars(RecoverStalledJob(p))
  /\ \A w \in Workers : WF_vars(Attempt(w))
  /\ \A pp \in ProviderPayouts :
       WF_vars(ReadForCallback(pp)) /\ WF_vars(ApplyCallback(pp))

FairSpec == Spec /\ Fairness

-----------------------------------------------------------------------------
(* What every step keeps true, and why the provider sees only released payouts:
   an event, a job, an attempt and a provider payout each exist only for a
   payout that was released, and nothing takes a release back. *)

Released(p) ==
  /\ approvals[p] \in {"none", "approved"}
  /\ payouts[p].status \in {"queued", "processing", "paid", "failed"}

JobsOK ==
  \A p \in PayoutIds :
    /\ jobs[p].state \in {"waiting", "active"} =>
         jobs[p].made < MaxAttempts /\ jobs[p].stalls <= MaxStalls
    /\ jobs[p].state = "active" => jobs[p].owner \in Workers

RunOK(w) ==
  runs[w].step # "idle" =>
    /\ runs[w].payout \in PayoutIds
    /\ Released(runs[w].payout)
    /\ runs[w].step = "mark" =>
         runs[w].provider \in ProviderPayouts /\ issued[runs[w].provider] = runs[w].payout

RunsOK == \A w \in Workers : RunOK(w)

ProviderOK ==
  /\ \A p \in PayoutIds : accepted[p] # None => issued[accepted[p]] = p
  /\ \A pp \in ProviderPayouts : callbacks[pp].state # "none" => issued[pp] # None
  /\ \A pp \in ProviderPayouts : issued[pp] # None => Released(issued[pp])

PayoutOK(p) ==
  /\ outbox[p]["created"] > 0 => Released(p)
  /\ jobs[p].state # "none" => Released(p)
  /\ payouts[p].status = "none" => approvals[p] = "none"
  /\ payouts[p].status = "paid" => p \notin Declined
  /\ payouts[p].provider # None => issued[payouts[p].provider] = p
  /\ payouts[p].status \in {"processing", "paid"} => payouts[p].provider # None

PayoutsOK == \A p \in PayoutIds : PayoutOK(p)

IInv == TypeOK /\ JobsOK /\ RunsOK /\ ProviderOK /\ PayoutsOK

-----------------------------------------------------------------------------
(* Properties *)

\* The events a history row must have in the outbox.
Announced(row) ==
  CASE row.to = "needs_approval" -> {"approval_requested"}
    [] row.to = "queued" ->
         IF row.from = "none" THEN {"created"} ELSE {"approved", "created"}
    [] row.to = "canceled" -> {"rejected"}
    [] OTHER -> {row.to}

\* The status is the one of the newest history row, every recorded transition
\* has its outbox events exactly once, and no event exists without its
\* transition: payout, history and outbox are written together by every
\* transaction, also by the guarded updates that change no row.
EveryTransitionOnRecord ==
  \A p \in PayoutIds :
    /\ payouts[p].status # "none" =>
         history[p] # <<>> /\ payouts[p].status = history[p][Len(history[p])].to
    /\ \A t \in EventTypes :
         outbox[p][t] =
           Cardinality({i \in DOMAIN history[p] : t \in Announced(history[p][i])})

\* The provider never learns of a payout that waits for approval or was
\* rejected, through however many relays, jobs and attempts the request went.
ProviderOnlyAfterRelease ==
  \A pp \in ProviderPayouts :
    issued[pp] # None =>
      /\ approvals[issued[pp]] \in {"none", "approved"}
      /\ payouts[issued[pp]].status \notin {"none", "needs_approval", "canceled"}

\* The provider payout id on the row was issued for this payout, and a payout
\* is never processing or paid without one.
ProviderIdIsGenuine ==
  \A p \in PayoutIds :
    /\ payouts[p].provider # None => issued[payouts[p].provider] = p
    /\ payouts[p].status \in {"processing", "paid"} => payouts[p].provider # None

\* A payout is paid only when a callback of the provider said so, and failed
\* only by a callback or after the job's last attempt.
TerminalHasCause ==
  \A p \in PayoutIds :
    LET settled == \E pp \in ProviderPayouts :
                     issued[pp] = p /\ callbacks[pp].state = "accepted"
    IN /\ payouts[p].status = "paid" => settled /\ p \notin Declined
       /\ payouts[p].status = "failed" =>
            \/ settled /\ p \in Declined
            \/ payouts[p].deadLettered /\ payouts[p].attempts = MaxAttempts

ProviderPayoutsOf(p) == {pp \in ProviderPayouts : issued[pp] = p}

Restarts == FaultBudget["restart"] - budget["restart"]

\* However often a payout is submitted, by retries, stalled jobs and two slots
\* at a time, the provider makes a new payout of it at most once for each time
\* its process was started.
OneProviderPayoutPerStart ==
  \A p \in PayoutIds : Cardinality(ProviderPayoutsOf(p)) <= 1 + Restarts

\* When BullMQ gives the job up, the payout does not stay queued.
FinalFailureLeavesQueue ==
  \A p \in PayoutIds : jobs[p].state = "failed" => payouts[p].status # "queued"

\* Each history row starts where the row before it ended, except for a row that
\* a callback wrote from the status it had read: the guarded updates of the
\* worker never break the chain.
OnlyCallbacksBreakTheChain ==
  \A p \in PayoutIds : \A i \in 2 .. Len(history[p]) :
    \/ history[p][i].from = history[p][i - 1].to
    \/ /\ history[p][i].to = Verdict(p)
       /\ \E pp \in ProviderPayoutsOf(p) :
            callbacks[pp].state = "accepted" /\ callbacks[pp].seen = history[p][i].from

\* No retry, late attempt or second callback undoes a payment or a rejection.
PaidAndCanceledAreFinal ==
  [][\A p \in PayoutIds :
       payouts[p].status \in {"paid", "canceled"} =>
         payouts'[p].status = payouts[p].status]_vars

\* A queued payout is dispatched or given up.
QueuedIsDispatched ==
  \A p \in PayoutIds : payouts[p].status = "queued" ~> payouts[p].status # "queued"

\* The provider payout that the row names will not report: its callback failed
\* or rolled back, which sendCallback only logs, or its timer died with the
\* provider's process.  Nothing sends it again or asks the provider.
CallbackLost(p) ==
  \E pp \in ProviderPayouts : payouts[p].provider = pp /\ callbacks[pp].state = "lost"

\* Whatever the provider takes on reaches a final status, or the callback of the
\* provider payout on record is lost: a worker's crash or lost lock, a lost
\* answer, a second submission or a callback turned away is no other excuse.
AcceptedIsSettled ==
  \A p \in PayoutIds :
    (\E pp \in ProviderPayouts : issued[pp] = p) ~>
      payouts[p].status \in Terminal \/ CallbackLost(p)

\* The pipeline implements the promise about each payout.
Lifecycle == INSTANCE PayoutLifecycle WITH
  status <- [p \in PayoutIds |-> payouts[p].status],
  submitted <- {issued[pp] : pp \in ProviderPayouts} \ {None}

ImplementsLifecycle == Lifecycle!Spec
=============================================================================
