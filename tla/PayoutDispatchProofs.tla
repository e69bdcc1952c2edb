------------------------ MODULE PayoutDispatchProofs ------------------------
(***************************************************************************)
(* Proofs about PayoutDispatch, for any number of payouts, worker slots,   *)
(* attempts and faults.  IInv is inductive: its parts say that an event, a *)
(* job, a run and a provider payout exist only for a released payout, and  *)
(* every step keeps released payouts released.                             *)
(***************************************************************************)
EXTENDS PayoutDispatch, TLAPS

-----------------------------------------------------------------------------
(* Types of the pieces that several actions share *)

LEMMA RowWithStatus ==
  ASSUME NEW f \in [PayoutIds -> PayoutRow], NEW p \in PayoutIds, NEW s \in Statuses
  PROVE  [f EXCEPT ![p].status = s] \in [PayoutIds -> PayoutRow]
  BY DEF PayoutRow

LEMMA RowWithProvider ==
  ASSUME NEW f \in [PayoutIds -> PayoutRow], NEW p \in PayoutIds, NEW s \in Statuses,
         NEW pp \in ProviderPayouts \cup {None}
  PROVE  [f EXCEPT ![p].status = s, ![p].provider = pp] \in [PayoutIds -> PayoutRow]
  BY DEF PayoutRow

LEMMA RowWithFailure ==
  ASSUME NEW f \in [PayoutIds -> PayoutRow], NEW p \in PayoutIds, NEW s \in Statuses,
         NEW n \in 0 .. MaxAttempts, NEW d \in BOOLEAN
  PROVE  [f EXCEPT ![p].attempts = n, ![p].deadLettered = d, ![p].status = s]
           \in [PayoutIds -> PayoutRow]
  BY DEF PayoutRow

\* What Record writes has its type, and it never takes an event back.
LEMMA RecordType ==
  ASSUME TypeOK, NEW p \in PayoutIds, NEW from \in Statuses, NEW to \in Statuses,
         NEW events, NEW actions \in SUBSET AuditActions,
         Record(p, from, to, events, actions)
  PROVE  /\ history' \in [PayoutIds -> Seq(HistoryRow)]
         /\ outbox' \in [PayoutIds -> [EventTypes -> Nat]]
         /\ audit' \in [PayoutIds -> SUBSET AuditActions]
         /\ \A q \in PayoutIds : q # p => outbox'[q] = outbox[q]
         /\ "created" \notin events => outbox'[p]["created"] = outbox[p]["created"]
  <1>1. history' \in [PayoutIds -> Seq(HistoryRow)]
    <2> DEFINE row == [from |-> from, to |-> to]
    <2>1. row \in HistoryRow
      BY DEF HistoryRow
    <2>2. Append(history[p], row) \in Seq(HistoryRow)
      BY <2>1 DEF TypeOK
    <2>3. history' = [history EXCEPT ![p] = Append(history[p], row)]
      BY DEF Record
    <2> QED BY <2>2, <2>3 DEF TypeOK
  <1>2. outbox' \in [PayoutIds -> [EventTypes -> Nat]]
    BY DEF TypeOK, Record
  <1>3. audit' \in [PayoutIds -> SUBSET AuditActions]
    BY DEF TypeOK, Record
  <1>4. \A q \in PayoutIds : q # p => outbox'[q] = outbox[q]
    BY DEF TypeOK, Record
  <1>5. "created" \notin events => outbox'[p]["created"] = outbox[p]["created"]
    BY DEF TypeOK, Record, EventTypes
  <1> QED BY <1>1, <1>2, <1>3, <1>4, <1>5

LEMMA StatusType ==
  ASSUME TypeOK, NEW p \in PayoutIds
  PROVE  payouts[p].status \in Statuses
  BY DEF TypeOK, PayoutRow

-----------------------------------------------------------------------------
(* The initial state *)

LEMMA InitIInv == Init => IInv
  <1> SUFFICES ASSUME Init PROVE IInv
    OBVIOUS
  <1>1. TypeOK
    BY ConstantsAssumption DEF Init, TypeOK, PayoutRow, Statuses, ApprovalStatuses, HistoryRow,
       EventTypes, AuditActions, Job, JobStates, Run, Steps, Idle, Callback, CallbackStates,
       FaultKinds
  <1>2. JobsOK
    BY DEF Init, JobsOK
  <1>3. RunsOK
    BY DEF Init, RunsOK, RunOK, Idle
  <1>4. ProviderOK
    BY DEF Init, ProviderOK
  <1>5. PayoutsOK
    BY DEF Init, PayoutsOK, PayoutOK, EventTypes
  <1> QED BY <1>1, <1>2, <1>3, <1>4, <1>5 DEF IInv

-----------------------------------------------------------------------------
(* Transactions: steps that write SQL and leave queue and provider alone *)

\* Some run moves on to a step other than "mark".
Advances ==
  \E w \in Workers, step \in Steps \ {"mark"} :
    /\ runs[w].step # "idle"
    /\ runs' = [runs EXCEPT ![w].step = step]

LEMMA AdvancingType ==
  ASSUME TypeOK, Advances
  PROVE  runs' \in [Workers -> Run]
  <1>1. PICK w \in Workers, step \in Steps \ {"mark"} :
          runs' = [runs EXCEPT ![w].step = step]
    BY DEF Advances
  <1>2. runs \in [Workers -> Run]
    BY DEF TypeOK
  <1> QED BY <1>1, <1>2 DEF Run

LEMMA AdvancingRun ==
  ASSUME IInv, Advances, issued' = issued,
         \A q \in PayoutIds : Released(q) => Released(q)'
  PROVE  RunsOK'
  <1> SUFFICES ASSUME NEW v \in Workers PROVE RunOK(v)'
    BY DEF RunsOK
  <1>1. runs'[v].step # "idle" =>
          /\ runs[v].step # "idle"
          /\ runs'[v].payout = runs[v].payout
          /\ runs'[v].provider = runs[v].provider
          /\ runs'[v].step = "mark" => runs[v].step = "mark"
    BY DEF IInv, TypeOK, Run, Advances
  <1> QED BY <1>1 DEF IInv, RunsOK, RunOK

\* A transaction on payout p preserves the invariant when the types, p itself
\* and the release of p are in order afterwards.
LEMMA SqlStep ==
  ASSUME IInv, TypeOK', NEW p \in PayoutIds,
         UNCHANGED <<jobs, accepted, issued>>,
         runs' = runs \/ Advances,
         \A pp \in ProviderPayouts : callbacks'[pp].state # "none" => issued[pp] # None,
         \A q \in PayoutIds : q # p =>
           /\ payouts'[q] = payouts[q]
           /\ approvals'[q] = approvals[q]
           /\ outbox'[q] = outbox[q],
         Released(p) => Released(p)',
         PayoutOK(p)'
  PROVE  IInv'
  <1>1. \A q \in PayoutIds : Released(q) => Released(q)'
    BY DEF Released
  <1>2. JobsOK'
    BY DEF IInv, JobsOK
  <1>3. RunsOK'
    <2>1. CASE runs' = runs
      BY <1>1, <2>1 DEF IInv, RunsOK, RunOK
    <2>2. CASE Advances
      BY <1>1, <2>2, AdvancingRun
    <2> QED BY <2>1, <2>2
  <1>4. ProviderOK'
    BY <1>1 DEF IInv, ProviderOK, TypeOK
  <1>5. PayoutsOK'
    <2>1. ASSUME NEW q \in PayoutIds, q # p PROVE PayoutOK(q)'
      BY <1>1, <2>1 DEF IInv, PayoutsOK, PayoutOK
    <2> QED BY <2>1 DEF PayoutsOK
  <1> QED BY <1>2, <1>3, <1>4, <1>5 DEF IInv

LEMMA CreateStep ==
  ASSUME IInv, NEW p \in PayoutIds, NEW matched \in BOOLEAN, CreatePayout(p, matched)
  PROVE  IInv'
  <1> DEFINE st == IF matched THEN "needs_approval" ELSE "queued"
             ev == IF matched THEN "approval_requested" ELSE "created"
  <1>1. /\ payouts[p].status = "none"
        /\ payouts' = [payouts EXCEPT ![p].status = st]
        /\ approvals' = [approvals EXCEPT ![p] = IF matched THEN "pending" ELSE @]
        /\ Record(p, "none", st, {ev}, {ev})
        /\ UNCHANGED <<jobs, deadLetters, runs, accepted, issued, callbacks, budget>>
    BY DEF CreatePayout, queueVars, providerVars
  <1>2. st \in Statuses /\ "none" \in Statuses /\ ev \in AuditActions
    BY DEF Statuses, AuditActions
  <1> HIDE DEF st
  <1>3. /\ history' \in [PayoutIds -> Seq(HistoryRow)]
        /\ outbox' \in [PayoutIds -> [EventTypes -> Nat]]
        /\ audit' \in [PayoutIds -> SUBSET AuditActions]
        /\ \A q \in PayoutIds : q # p => outbox'[q] = outbox[q]
        /\ "created" \notin {ev} => outbox'[p]["created"] = outbox[p]["created"]
    BY <1>1, <1>2, RecordType DEF IInv
  <1>4. payouts' \in [PayoutIds -> PayoutRow]
    BY <1>1, <1>2, RowWithStatus DEF IInv, TypeOK
  <1>5. approvals' \in [PayoutIds -> ApprovalStatuses]
    BY <1>1 DEF IInv, TypeOK, ApprovalStatuses
  <1>6. TypeOK'
    BY <1>1, <1>3, <1>4, <1>5 DEF IInv, TypeOK
  <1>7. \A q \in PayoutIds : q # p =>
          payouts'[q] = payouts[q] /\ approvals'[q] = approvals[q]
    BY <1>1 DEF IInv, TypeOK
  <1>8. /\ ~Released(p)
        /\ outbox[p]["created"] = 0
        /\ jobs[p].state = "none"
        /\ payouts[p].provider = None
        /\ approvals[p] = "none"
    <2>1. ~Released(p)
      BY <1>1 DEF Released
    <2>2. PayoutOK(p)
      BY DEF IInv, PayoutsOK
    <2>3. outbox[p]["created"] \in Nat
      BY DEF IInv, TypeOK, EventTypes
    <2>4. payouts[p].provider \in ProviderPayouts \cup {None}
      BY DEF IInv, TypeOK, PayoutRow
    <2>5. payouts[p].provider = None
      <3>1. ASSUME payouts[p].provider # None PROVE FALSE
        BY <2>1, <2>2, <2>4, <3>1, ConstantsAssumption DEF IInv, ProviderOK, PayoutOK
      <3> QED BY <3>1
    <2> QED BY <1>1, <2>1, <2>2, <2>3, <2>5 DEF PayoutOK
  <1>9. /\ payouts'[p].status = st
        /\ payouts'[p].provider = None
        /\ approvals'[p] = IF matched THEN "pending" ELSE "none"
    BY <1>1, <1>8 DEF IInv, TypeOK, PayoutRow
  <1>10. PayoutOK(p)'
    <2>1. CASE matched
      BY <1>1, <1>3, <1>8, <1>9, <2>1 DEF st, PayoutOK
    <2>2. CASE ~matched
      BY <1>1, <1>8, <1>9, <2>2 DEF st, PayoutOK, Released
    <2> QED BY <2>1, <2>2
  <1>11. \A pp \in ProviderPayouts : callbacks'[pp].state # "none" => issued[pp] # None
    BY <1>1 DEF IInv, ProviderOK
  <1> QED BY <1>1, <1>3, <1>6, <1>7, <1>8, <1>10, <1>11, SqlStep

LEMMA DecideStep ==
  ASSUME IInv, NEW p \in PayoutIds, NEW decision \in {"approved", "rejected"},
         DecideApproval(p, decision)
  PROVE  IInv'
  <1> DEFINE st == IF decision = "approved" THEN "queued" ELSE "canceled"
             evs == IF decision = "approved" THEN {"approved", "created"} ELSE {"rejected"}
  <1>1. /\ approvals[p] = "pending"
        /\ payouts[p].status = "needs_approval"
        /\ payouts' = [payouts EXCEPT ![p].status = st]
        /\ approvals' = [approvals EXCEPT ![p] = decision]
        /\ Record(p, "needs_approval", st, evs, {decision})
        /\ UNCHANGED <<jobs, deadLetters, runs, accepted, issued, callbacks, budget>>
    BY DEF DecideApproval, queueVars, providerVars
  <1>2. st \in Statuses /\ "needs_approval" \in Statuses /\ decision \in AuditActions
    BY DEF Statuses, AuditActions
  <1> HIDE DEF st, evs
  <1>3. /\ history' \in [PayoutIds -> Seq(HistoryRow)]
        /\ outbox' \in [PayoutIds -> [EventTypes -> Nat]]
        /\ audit' \in [PayoutIds -> SUBSET AuditActions]
        /\ \A q \in PayoutIds : q # p => outbox'[q] = outbox[q]
        /\ "created" \notin evs => outbox'[p]["created"] = outbox[p]["created"]
    BY <1>1, <1>2, RecordType DEF IInv
  <1>4. payouts' \in [PayoutIds -> PayoutRow]
    BY <1>1, <1>2, RowWithStatus DEF IInv, TypeOK
  <1>5. approvals' \in [PayoutIds -> ApprovalStatuses]
    BY <1>1 DEF IInv, TypeOK, ApprovalStatuses
  <1>6. TypeOK'
    BY <1>1, <1>3, <1>4, <1>5 DEF IInv, TypeOK
  <1>7. \A q \in PayoutIds : q # p =>
          payouts'[q] = payouts[q] /\ approvals'[q] = approvals[q]
    BY <1>1 DEF IInv, TypeOK
  <1>8. ~Released(p) /\ PayoutOK(p)
    BY <1>1 DEF Released, IInv, PayoutsOK
  <1>9. outbox[p]["created"] = 0
    <2>1. outbox[p]["created"] \in Nat
      BY DEF IInv, TypeOK, EventTypes
    <2> QED BY <1>8, <2>1 DEF PayoutOK
  <1>10. /\ payouts'[p].status = st
         /\ payouts'[p].provider = payouts[p].provider
         /\ approvals'[p] = decision
    BY <1>1 DEF IInv, TypeOK, PayoutRow
  <1>11. PayoutOK(p)'
    <2>1. CASE decision = "approved"
      <3>1. Released(p)'
        BY <1>10, <2>1 DEF st, Released
      <3> QED BY <1>1, <1>8, <1>10, <2>1, <3>1 DEF st, PayoutOK
    <2>2. CASE decision # "approved"
      <3>1. outbox'[p]["created"] = 0
        BY <1>3, <1>9, <2>2 DEF evs
      <3> QED BY <1>1, <1>8, <1>10, <2>2, <3>1 DEF st, PayoutOK
    <2> QED BY <2>1, <2>2
  <1>12. \A pp \in ProviderPayouts : callbacks'[pp].state # "none" => issued[pp] # None
    BY <1>1 DEF IInv, ProviderOK
  <1> QED BY <1>1, <1>6, <1>3, <1>7, <1>8, <1>11, <1>12, SqlStep

\* The dispatch transactions keep the release, and the other columns, of p.
LEMMA DispatchCommit ==
  ASSUME IInv, TypeOK', NEW p \in PayoutIds,
         UNCHANGED <<approvals, jobs, accepted, issued, callbacks>>,
         runs' = runs \/ Advances,
         \A q \in PayoutIds : q # p => payouts'[q] = payouts[q] /\ outbox'[q] = outbox[q],
         outbox'[p]["created"] = outbox[p]["created"],
         Released(p),
         payouts'[p].status \in {"queued", "processing", "paid", "failed"},
         payouts'[p].status = "paid" => p \notin Declined,
         payouts'[p].provider # None => issued[payouts'[p].provider] = p,
         payouts'[p].status \in {"processing", "paid"} => payouts'[p].provider # None
  PROVE  IInv'
  <1>1. Released(p)'
    BY DEF Released
  <1>2. PayoutOK(p)'
    BY <1>1 DEF IInv, PayoutsOK, PayoutOK
  <1>3. \A pp \in ProviderPayouts : callbacks'[pp].state # "none" => issued[pp] # None
    BY DEF IInv, ProviderOK
  <1> QED BY <1>1, <1>2, <1>3, SqlStep

-----------------------------------------------------------------------------
(* Steps of the queue: they change jobs, runs and the fault budget only *)

LEMMA QueueStep ==
  ASSUME IInv,
         UNCHANGED <<payouts, approvals, history, outbox, audit, accepted, issued, callbacks>>,
         deadLetters' \in SUBSET PayoutIds, budget' \in [FaultKinds -> Nat],
         jobs' \in [PayoutIds -> Job], runs' \in [Workers -> Run],
         JobsOK', RunsOK',
         \A q \in PayoutIds :
           jobs'[q].state # "none" => jobs[q].state # "none" \/ Released(q)
  PROVE  IInv'
  <1>1. TypeOK'
    BY DEF IInv, TypeOK
  <1>2. \A q \in PayoutIds : Released(q)' <=> Released(q)
    BY DEF Released
  <1>3. ProviderOK'
    BY <1>2 DEF IInv, ProviderOK, TypeOK
  <1>4. PayoutsOK'
    <2>1. ASSUME NEW q \in PayoutIds PROVE PayoutOK(q)'
      BY <1>2 DEF IInv, PayoutsOK, PayoutOK
    <2> QED BY <2>1 DEF PayoutsOK
  <1> QED BY <1>1, <1>3, <1>4 DEF IInv

LEMMA RunsKept ==
  ASSUME IInv, UNCHANGED <<runs, payouts, approvals, issued>>
  PROVE  RunsOK'
  BY DEF IInv, RunsOK, RunOK, Released

LEMMA FaultType ==
  ASSUME TypeOK, NEW kind \in FaultKinds, Fault(kind)
  PROVE  budget' \in [FaultKinds -> Nat]
  BY DEF TypeOK, Fault

LEMMA EnqueueStep ==
  ASSUME IInv, NEW p \in PayoutIds, EnqueuePayoutDispatch(p)
  PROVE  IInv'
  <1> DEFINE job == [state |-> "waiting", made |-> 0, stalls |-> 0, owner |-> None]
  <1>1. /\ outbox[p]["created"] > 0
        /\ jobs' = [jobs EXCEPT ![p] = job]
        /\ UNCHANGED <<payouts, approvals, history, outbox, audit, deadLetters, runs,
                       accepted, issued, callbacks, budget>>
    BY DEF EnqueuePayoutDispatch, sqlVars, providerVars
  <1>2. job \in Job
    BY ConstantsAssumption DEF Job, JobStates
  <1>3. jobs' \in [PayoutIds -> Job]
    BY <1>1, <1>2 DEF IInv, TypeOK
  <1>4. JobsOK'
    BY <1>1, ConstantsAssumption DEF IInv, JobsOK, TypeOK
  <1>5. Released(p)
    BY <1>1 DEF IInv, PayoutsOK, PayoutOK
  <1>6. \A q \in PayoutIds :
          jobs'[q].state # "none" => jobs[q].state # "none" \/ Released(q)
    BY <1>1, <1>5 DEF IInv, TypeOK
  <1>7. RunsOK'
    BY <1>1, RunsKept
  <1> QED BY <1>1, <1>3, <1>4, <1>6, <1>7, QueueStep DEF IInv, TypeOK

LEMMA RemoveStep ==
  ASSUME IInv, NEW p \in PayoutIds, RemoveFinishedJob(p)
  PROVE  IInv'
  <1>1. /\ jobs[p].state \in {"completed", "failed"}
        /\ jobs' = [jobs EXCEPT ![p].state = "removed"]
        /\ UNCHANGED <<payouts, approvals, history, outbox, audit, deadLetters, runs,
                       accepted, issued, callbacks, budget>>
    BY DEF RemoveFinishedJob, sqlVars, providerVars
  <1>2. jobs' \in [PayoutIds -> Job]
    BY <1>1 DEF IInv, TypeOK, Job, JobStates
  <1>3. JobsOK'
    BY <1>1 DEF IInv, JobsOK, TypeOK, Job
  <1>4. \A q \in PayoutIds :
          jobs'[q].state # "none" => jobs[q].state # "none" \/ Released(q)
    BY <1>1 DEF IInv, TypeOK, Job
  <1>5. RunsOK'
    BY <1>1, RunsKept
  <1> QED BY <1>1, <1>2, <1>3, <1>4, <1>5, QueueStep DEF IInv, TypeOK

LEMMA StalledJobs ==
  ASSUME IInv, NEW p \in PayoutIds, jobs[p].state = "active", Stalled(p)
  PROVE  /\ jobs' \in [PayoutIds -> Job]
         /\ JobsOK'
         /\ \A q \in PayoutIds :
              jobs'[q].state # "none" => jobs[q].state # "none" \/ Released(q)
  <1> DEFINE st == IF jobs[p].stalls < MaxStalls THEN "waiting" ELSE "failed"
             job == [jobs[p] EXCEPT !.state = st, !.stalls = @ + 1, !.owner = None]
  <1>1. jobs[p] \in Job /\ jobs \in [PayoutIds -> Job]
    BY DEF IInv, TypeOK
  <1>2. /\ jobs[p].made < MaxAttempts
        /\ jobs[p].stalls <= MaxStalls
        /\ jobs[p].stalls \in Nat
        /\ jobs[p].made \in 0 .. MaxAttempts
    BY <1>1, ConstantsAssumption DEF IInv, JobsOK, Job
  <1>3. jobs' = [jobs EXCEPT ![p] = job]
    BY <1>1 DEF Stalled
  <1>4. st \in {"waiting", "failed"} /\ (st = "waiting" => jobs[p].stalls < MaxStalls)
    OBVIOUS
  <1> HIDE DEF st
  <1>5. /\ job.state = st
        /\ job.made = jobs[p].made
        /\ job.stalls = jobs[p].stalls + 1
        /\ job.owner = None
        /\ job \in [state : {"waiting", "failed"}, made : 0 .. MaxAttempts,
                    stalls : {jobs[p].stalls + 1}, owner : {None}]
    BY <1>1, <1>2, <1>4 DEF Job
  <1>6. job \in Job
    BY <1>2, <1>5, ConstantsAssumption DEF Job, JobStates
  <1> HIDE DEF job
  <1>7. jobs' \in [PayoutIds -> Job]
    BY <1>1, <1>3, <1>6
  <1>8. JobsOK'
    <2> SUFFICES ASSUME NEW q \in PayoutIds
        PROVE  /\ jobs'[q].state \in {"waiting", "active"} =>
                    jobs'[q].made < MaxAttempts /\ jobs'[q].stalls <= MaxStalls
               /\ jobs'[q].state = "active" => jobs'[q].owner \in Workers
      BY DEF JobsOK
    <2>1. CASE q = p
      BY <1>1, <1>2, <1>3, <1>4, <1>5, <2>1, ConstantsAssumption
    <2>2. CASE q # p
      BY <1>1, <1>3, <2>2 DEF IInv, JobsOK
    <2> QED BY <2>1, <2>2
  <1>9. ASSUME NEW q \in PayoutIds, jobs'[q].state # "none"
        PROVE  jobs[q].state # "none" \/ Released(q)
    BY <1>1, <1>3, <1>9
  <1> QED BY <1>7, <1>8, <1>9

LEMMA RecoverStep ==
  ASSUME IInv, NEW p \in PayoutIds, RecoverStalledJob(p)
  PROVE  IInv'
  <1>1. /\ jobs[p].state = "active"
        /\ Stalled(p)
        /\ UNCHANGED <<payouts, approvals, history, outbox, audit, deadLetters, runs,
                       accepted, issued, callbacks, budget>>
    BY DEF RecoverStalledJob, sqlVars, providerVars
  <1>2. RunsOK'
    BY <1>1, RunsKept
  <1> QED BY <1>1, <1>2, StalledJobs, QueueStep DEF IInv, TypeOK

LEMMA LoseLockStep ==
  ASSUME IInv, NEW p \in PayoutIds, LoseJobLock(p)
  PROVE  IInv'
  <1>1. /\ jobs[p].state = "active"
        /\ Stalled(p)
        /\ Fault("stall")
        /\ UNCHANGED <<payouts, approvals, history, outbox, audit, deadLetters, runs,
                       accepted, issued, callbacks>>
    BY DEF LoseJobLock, sqlVars, providerVars
  <1>2. RunsOK'
    BY <1>1, RunsKept
  <1>3. budget' \in [FaultKinds -> Nat]
    BY <1>1, FaultType DEF IInv, FaultKinds
  <1> QED BY <1>1, <1>2, <1>3, StalledJobs, QueueStep DEF IInv, TypeOK

-----------------------------------------------------------------------------
(* Steps of the processor slots *)

\* A run that moves on is one that was there: its payout is released.
LEMMA RunningPayout ==
  ASSUME IInv, NEW w \in Workers, runs[w].step # "idle"
  PROVE  runs[w].payout \in PayoutIds /\ Released(runs[w].payout)
  BY DEF IInv, RunsOK, RunOK

LEMMA JobsKept ==
  ASSUME IInv, UNCHANGED jobs
  PROVE  JobsOK'
  BY DEF IInv, JobsOK

LEMMA StartStep ==
  ASSUME IInv, NEW w \in Workers, NEW p \in PayoutIds, StartJob(w, p)
  PROVE  IInv'
  <1> DEFINE run == [step |-> "find", payout |-> p, attempt |-> jobs[p].made + 1, provider |-> None]
  <1>1. /\ jobs[p].state = "waiting"
        /\ jobs' = [jobs EXCEPT ![p].state = "active", ![p].owner = w]
        /\ runs' = [runs EXCEPT ![w] = run]
        /\ UNCHANGED <<payouts, approvals, history, outbox, audit, deadLetters,
                       accepted, issued, callbacks, budget>>
    BY DEF StartJob, sqlVars, providerVars
  <1>2. jobs \in [PayoutIds -> Job] /\ runs \in [Workers -> Run] /\ jobs[p] \in Job
    BY DEF IInv, TypeOK
  <1>3. jobs[p].made \in Nat /\ jobs[p].made < MaxAttempts /\ jobs[p].stalls <= MaxStalls
    BY <1>1, <1>2, ConstantsAssumption DEF IInv, JobsOK, Job
  <1>4. jobs' \in [PayoutIds -> Job]
    BY <1>1, <1>2 DEF Job, JobStates
  <1>5. /\ jobs'[p].state = "active" /\ jobs'[p].owner = w
        /\ jobs'[p].made = jobs[p].made /\ jobs'[p].stalls = jobs[p].stalls
        /\ \A q \in PayoutIds : q # p => jobs'[q] = jobs[q]
    BY <1>1, <1>2 DEF Job
  <1>6. run.step = "find" /\ run.payout = p /\ run \in Run
    <2>1. jobs[p].made + 1 \in 0 .. MaxAttempts
      BY <1>3, ConstantsAssumption
    <2> DEFINE attempt == jobs[p].made + 1
    <2> HIDE DEF attempt
    <2>2. attempt \in 0 .. MaxAttempts
      BY <2>1 DEF attempt
    <2>3. run = [step |-> "find", payout |-> p, attempt |-> attempt, provider |-> None]
      BY DEF attempt
    <2>4. run \in Run
      BY <2>2, <2>3 DEF Run, Steps
    <2> QED BY <2>4
  <1> HIDE DEF run
  <1>7. JobsOK'
    <2>1. ASSUME NEW q \in PayoutIds
          PROVE  /\ jobs'[q].state \in {"waiting", "active"} =>
                      jobs'[q].made < MaxAttempts /\ jobs'[q].stalls <= MaxStalls
                 /\ jobs'[q].state = "active" => jobs'[q].owner \in Workers
      BY <1>3, <1>5 DEF IInv, JobsOK
    <2> QED BY <2>1 DEF JobsOK
  <1>8. Released(p)
    BY <1>1 DEF IInv, PayoutsOK, PayoutOK
  <1>9. RunsOK'
    <2> SUFFICES ASSUME NEW v \in Workers PROVE RunOK(v)'
      BY DEF RunsOK
    <2>1. CASE v = w
      BY <1>1, <1>2, <1>6, <1>8, <2>1 DEF RunOK, Released
    <2>2. CASE v # w
      BY <1>1, <1>2, <2>2 DEF IInv, RunsOK, RunOK, Released
    <2> QED BY <2>1, <2>2
  <1>10. \A q \in PayoutIds :
           jobs'[q].state # "none" => jobs[q].state # "none" \/ Released(q)
    BY <1>5, <1>8
  <1>11. runs' \in [Workers -> Run]
    BY <1>1, <1>2, <1>6
  <1> QED BY <1>1, <1>4, <1>7, <1>9, <1>10, <1>11, QueueStep DEF IInv, TypeOK

\* A step that only moves one run on.
LEMMA AdvanceStep ==
  ASSUME IInv, Advances,
         UNCHANGED <<payouts, approvals, history, outbox, audit, jobs,
                     accepted, issued, callbacks>>,
         deadLetters' \in SUBSET PayoutIds, budget' \in [FaultKinds -> Nat]
  PROVE  IInv'
  <1>1. \A q \in PayoutIds : Released(q) => Released(q)'
    BY DEF Released
  <1>2. RunsOK'
    BY <1>1, AdvancingRun
  <1>3. runs' \in [Workers -> Run]
    BY AdvancingType DEF IInv
  <1>4. JobsOK' /\ jobs' \in [PayoutIds -> Job]
    BY JobsKept DEF IInv, TypeOK
  <1> QED BY <1>2, <1>3, <1>4, QueueStep

LEMMA FindStep ==
  ASSUME IInv, NEW w \in Workers, FindDispatch(w) \/ FindDispatchFails(w)
  PROVE  IInv'
  <1>1. UNCHANGED <<payouts, approvals, history, outbox, audit, jobs, deadLetters,
                    accepted, issued, callbacks>>
    BY DEF FindDispatch, FindDispatchFails, sqlVars, queueVars, providerVars
  <1>2. budget' \in [FaultKinds -> Nat]
    BY FaultType DEF FindDispatch, FindDispatchFails, FaultKinds, IInv, TypeOK
  <1>3. Advances
    BY DEF FindDispatch, FindDispatchFails, Go, Advances, Steps
  <1> QED BY <1>1, <1>2, <1>3, AdvanceStep DEF IInv, TypeOK

LEMMA MirrorStep ==
  ASSUME IInv, NEW w \in Workers, MirrorDeadLetter(w)
  PROVE  IInv'
  <1>1. UNCHANGED <<payouts, approvals, history, outbox, audit, jobs,
                    accepted, issued, callbacks, budget>>
    BY DEF MirrorDeadLetter, sqlVars, providerVars
  <1>2. deadLetters' \in SUBSET PayoutIds
    <2>1. runs[w].payout \in PayoutIds
      BY RunningPayout DEF MirrorDeadLetter
    <2> QED BY <2>1 DEF MirrorDeadLetter, IInv, TypeOK
  <1>3. Advances
    BY DEF MirrorDeadLetter, Go, Advances, Steps
  <1> QED BY <1>1, <1>2, <1>3, AdvanceStep DEF IInv, TypeOK

\* A slot that becomes idle leaves no run to say anything about.
LEMMA SlotFreed ==
  ASSUME IInv, NEW w \in Workers, runs' = [runs EXCEPT ![w] = Idle],
         UNCHANGED <<payouts, approvals, issued>>
  PROVE  runs' \in [Workers -> Run] /\ RunsOK'
  <1>1. Idle \in Run
    BY ConstantsAssumption DEF Idle, Run, Steps
  <1>2. runs' \in [Workers -> Run]
    BY <1>1 DEF IInv, TypeOK
  <1>3. ASSUME NEW v \in Workers PROVE RunOK(v)'
    <2>1. CASE v = w
      BY <2>1 DEF IInv, TypeOK, RunOK, Idle
    <2>2. CASE v # w
      BY <2>2 DEF IInv, TypeOK, RunsOK, RunOK, Released
    <2> QED BY <2>1, <2>2
  <1> QED BY <1>2, <1>3 DEF RunsOK

LEMMA CrashStep ==
  ASSUME IInv, NEW w \in Workers, CrashWorker(w)
  PROVE  IInv'
  <1>1. /\ runs' = [runs EXCEPT ![w] = Idle]
        /\ Fault("stall")
        /\ UNCHANGED <<payouts, approvals, history, outbox, audit, jobs, deadLetters,
                       accepted, issued, callbacks>>
    BY DEF CrashWorker, sqlVars, queueVars, providerVars
  <1>2. runs' \in [Workers -> Run] /\ RunsOK'
    BY <1>1, SlotFreed
  <1>3. budget' \in [FaultKinds -> Nat]
    BY <1>1, FaultType DEF IInv, FaultKinds
  <1>4. JobsOK' /\ jobs' \in [PayoutIds -> Job]
    BY <1>1, JobsKept DEF IInv, TypeOK
  <1> QED BY <1>1, <1>2, <1>3, <1>4, QueueStep DEF IInv, TypeOK

LEMMA SettleStep ==
  ASSUME IInv, NEW w \in Workers, runs[w].step # "idle",
         NEW settled \in Job, SettleJob(w, settled),
         settled.state # "active",
         settled.state = "waiting" =>
           settled.made < MaxAttempts /\ settled.stalls <= MaxStalls
  PROVE  IInv'
  <1> DEFINE p == runs[w].payout
  <1>1. /\ runs' = [runs EXCEPT ![w] = Idle]
        /\ \/ UNCHANGED jobs
           \/ jobs[p].state = "active" /\ jobs' = [jobs EXCEPT ![p] = settled]
        /\ UNCHANGED <<payouts, approvals, history, outbox, audit, deadLetters,
                       accepted, issued, callbacks, budget>>
    BY DEF SettleJob, sqlVars, providerVars
  <1>2. p \in PayoutIds /\ jobs \in [PayoutIds -> Job]
    BY RunningPayout DEF IInv, TypeOK
  <1> HIDE DEF p
  <1>3. jobs' \in [PayoutIds -> Job]
    BY <1>1, <1>2
  <1>4. ASSUME NEW q \in PayoutIds
        PROVE  /\ jobs'[q].state \in {"waiting", "active"} =>
                    jobs'[q].made < MaxAttempts /\ jobs'[q].stalls <= MaxStalls
               /\ jobs'[q].state = "active" => jobs'[q].owner \in Workers
               /\ jobs'[q].state # "none" => jobs[q].state # "none" \/ Released(q)
    <2>1. CASE jobs' = jobs
      BY <2>1 DEF IInv, JobsOK
    <2>2. CASE jobs[p].state = "active" /\ jobs' = [jobs EXCEPT ![p] = settled]
      <3>1. CASE q = p
        BY <1>2, <2>2, <3>1
      <3>2. CASE q # p
        BY <1>2, <2>2, <3>2 DEF IInv, JobsOK
      <3> QED BY <3>1, <3>2
    <2> QED BY <1>1, <2>1, <2>2
  <1>5. JobsOK'
    BY <1>4 DEF JobsOK
  <1>6. runs' \in [Workers -> Run] /\ RunsOK'
    BY <1>1, SlotFreed
  <1> QED BY <1>1, <1>3, <1>4, <1>5, <1>6, QueueStep DEF IInv, TypeOK

LEMMA CompleteStep ==
  ASSUME IInv, NEW w \in Workers, CompleteJob(w)
  PROVE  IInv'
  <1> DEFINE settled == [jobs[runs[w].payout] EXCEPT !.state = "completed", !.owner = None]
  <1>1. runs[w].step # "idle" /\ SettleJob(w, settled)
    BY DEF CompleteJob
  <1>2. jobs[runs[w].payout] \in Job
    BY <1>1, RunningPayout DEF IInv, TypeOK
  <1>3. settled \in Job /\ settled.state = "completed"
    BY <1>2 DEF Job, JobStates
  <1> HIDE DEF settled
  <1> QED BY <1>1, <1>3, SettleStep

LEMMA FailAttemptStep ==
  ASSUME IInv, NEW w \in Workers, FailAttempt(w)
  PROVE  IInv'
  <1> DEFINE p == runs[w].payout
             made == jobs[p].made + 1
             st == IF made < MaxAttempts THEN "waiting" ELSE "failed"
             settled == [jobs[p] EXCEPT !.state = st, !.made = made, !.owner = None]
  <1>1. runs[w].step # "idle" /\ SettleJob(w, settled)
    BY DEF FailAttempt
  <1>2. p \in PayoutIds /\ jobs[p] \in Job
    BY <1>1, RunningPayout DEF IInv, TypeOK
  <1>3. CASE jobs[p].state = "active"
    <2>1. jobs[p].made \in Nat /\ made <= MaxAttempts /\ jobs[p].stalls <= MaxStalls
      BY <1>2, <1>3, ConstantsAssumption DEF IInv, JobsOK, Job
    <2>2. st \in {"waiting", "failed"} /\ (st = "waiting" => made < MaxAttempts)
      OBVIOUS
    <2>3. made \in 0 .. MaxAttempts
      BY <2>1, ConstantsAssumption
    <2> HIDE DEF st, made
    <2>4. settled \in Job /\ settled.state = st /\ settled.made = made
            /\ settled.stalls = jobs[p].stalls
      BY <1>2, <2>2, <2>3 DEF Job, JobStates
    <2> HIDE DEF settled
    <2> QED BY <1>1, <2>1, <2>2, <2>4, SettleStep
  <1>4. CASE jobs[p].state # "active"
    \* The lock is gone, so the job stays as it is and only the slot is freed.
    <2>1. /\ runs' = [runs EXCEPT ![w] = Idle]
          /\ UNCHANGED <<payouts, approvals, history, outbox, audit, jobs, deadLetters,
                         accepted, issued, callbacks, budget>>
      BY <1>1, <1>4 DEF SettleJob, sqlVars, providerVars
    <2>2. runs' \in [Workers -> Run] /\ RunsOK'
      BY <2>1, SlotFreed
    <2> QED BY <2>1, <2>2, JobsKept, QueueStep DEF IInv, TypeOK
  <1> QED BY <1>3, <1>4

-----------------------------------------------------------------------------
(* Submission *)

\* A request leaves the provider in order and gives the slot an id that was
\* issued for the payout of the request.
LEMMA ProviderAnswers ==
  ASSUME IInv, NEW p \in PayoutIds, Released(p), NEW pp \in ProviderPayouts,
         ProviderCreatePayout(p, pp), UNCHANGED <<payouts, approvals>>
  PROVE  /\ accepted' \in [PayoutIds -> ProviderPayouts \cup {None}]
         /\ issued' \in [ProviderPayouts -> PayoutIds \cup {None}]
         /\ callbacks' \in [ProviderPayouts -> Callback]
         /\ issued'[pp] = p
         /\ \A x \in ProviderPayouts : issued[x] # None => issued'[x] = issued[x]
         /\ ProviderOK'
  <1>1. p # None /\ pp # None
    BY ConstantsAssumption
  <1>2. CASE accepted[p] = pp /\ UNCHANGED <<accepted, issued, callbacks>>
    BY <1>1, <1>2 DEF IInv, TypeOK, ProviderOK, Released
  <1>3. CASE /\ issued[pp] = None
             /\ accepted' = [accepted EXCEPT ![p] = pp]
             /\ issued' = [issued EXCEPT ![pp] = p]
             /\ callbacks' = [callbacks EXCEPT ![pp].state = "scheduled"]
    <2>1. accepted' \in [PayoutIds -> ProviderPayouts \cup {None}]
      BY <1>3 DEF IInv, TypeOK
    <2>2. issued' \in [ProviderPayouts -> PayoutIds \cup {None}]
      BY <1>3 DEF IInv, TypeOK
    <2>3. callbacks' \in [ProviderPayouts -> Callback]
      BY <1>3 DEF IInv, TypeOK, Callback, CallbackStates
    <2>4. issued'[pp] = p /\ \A x \in ProviderPayouts : x # pp => issued'[x] = issued[x]
      BY <1>3 DEF IInv, TypeOK
    <2>5. ASSUME NEW q \in PayoutIds, accepted'[q] # None PROVE issued'[accepted'[q]] = q
      <3>1. CASE q = p
        BY <1>3, <2>4, <3>1 DEF IInv, TypeOK
      <3>2. CASE q # p
        <4>1. accepted'[q] = accepted[q] /\ accepted[q] \in ProviderPayouts
          BY <1>3, <2>5, <3>2 DEF IInv, TypeOK
        <4>2. issued[accepted[q]] = q
          BY <2>5, <4>1 DEF IInv, ProviderOK
        <4>3. accepted[q] # pp
          BY <1>3, <4>2, ConstantsAssumption
        <4> QED BY <2>4, <4>1, <4>2, <4>3
      <3> QED BY <3>1, <3>2
    <2>6. ASSUME NEW x \in ProviderPayouts, callbacks'[x].state # "none"
          PROVE  issued'[x] # None
      <3>1. CASE x = pp
        BY <1>1, <2>4, <3>1
      <3>2. CASE x # pp
        BY <1>3, <2>4, <2>6, <3>2 DEF IInv, TypeOK, ProviderOK
      <3> QED BY <3>1, <3>2
    <2>7. ASSUME NEW x \in ProviderPayouts, issued'[x] # None PROVE Released(issued[x])'
      <3>1. CASE x = pp
        BY <2>4, <3>1 DEF Released
      <3>2. CASE x # pp
        BY <2>4, <2>7, <3>2 DEF IInv, ProviderOK, Released
      <3> QED BY <3>1, <3>2
    <2>8. ProviderOK'
      BY <2>5, <2>6, <2>7 DEF ProviderOK
    <2> QED BY <1>3, <2>1, <2>2, <2>3, <2>4, <2>8
  <1> QED BY <1>2, <1>3 DEF ProviderCreatePayout, providerVars

\* What a provider step has to leave in order.
LEMMA ProviderStep ==
  ASSUME IInv,
         UNCHANGED <<payouts, approvals, history, outbox, audit, jobs, deadLetters>>,
         budget' \in [FaultKinds -> Nat],
         runs' \in [Workers -> Run],
         accepted' \in [PayoutIds -> ProviderPayouts \cup {None}],
         issued' \in [ProviderPayouts -> PayoutIds \cup {None}],
         callbacks' \in [ProviderPayouts -> Callback],
         \A x \in ProviderPayouts : issued[x] # None => issued'[x] = issued[x],
         RunsOK', ProviderOK'
  PROVE  IInv'
  <1>1. TypeOK'
    BY DEF IInv, TypeOK
  <1>2. JobsOK'
    BY JobsKept
  <1>3. ASSUME NEW q \in PayoutIds PROVE PayoutOK(q)'
    <2>1. Released(q)' <=> Released(q)
      BY DEF Released
    <2>2. PayoutOK(q)
      BY DEF IInv, PayoutsOK
    <2>3. payouts[q].provider \in ProviderPayouts \cup {None}
      BY DEF IInv, TypeOK, PayoutRow
    <2>4. q # None
      BY ConstantsAssumption
    <2>5. payouts[q].provider # None => issued'[payouts[q].provider] = q
      BY <2>2, <2>3, <2>4 DEF PayoutOK
    <2> QED BY <2>1, <2>2, <2>5 DEF PayoutOK
  <1> QED BY <1>1, <1>2, <1>3 DEF IInv, PayoutsOK

LEMMA RunWithProvider ==
  ASSUME IInv, NEW w \in Workers, NEW pp \in ProviderPayouts,
         runs' = [runs EXCEPT ![w].step = "mark", ![w].provider = pp]
  PROVE  /\ runs' \in [Workers -> Run]
         /\ runs'[w].payout = runs[w].payout /\ runs'[w].provider = pp
         /\ \A v \in Workers : v # w => runs'[v] = runs[v]
  <1>1. runs \in [Workers -> Run]
    BY DEF IInv, TypeOK
  <1>2. runs' \in [Workers -> Run]
    BY <1>1 DEF Run, Steps
  <1>3. runs'[w].payout = runs[w].payout /\ runs'[w].provider = pp
    BY <1>1 DEF Run
  <1>4. \A v \in Workers : v # w => runs'[v] = runs[v]
    BY <1>1
  <1> QED BY <1>2, <1>3, <1>4

LEMMA SubmitStep ==
  ASSUME IInv, NEW w \in Workers, SubmitToProvider(w)
  PROVE  IInv'
  <1> DEFINE p == runs[w].payout
  <1>1. PICK pp \in ProviderPayouts :
          /\ ProviderCreatePayout(p, pp)
          /\ runs' = [runs EXCEPT ![w].step = "mark", ![w].provider = pp]
          /\ runs[w].step = "submit"
          /\ UNCHANGED <<payouts, approvals, history, outbox, audit, jobs, deadLetters, budget>>
    BY DEF SubmitToProvider, sqlVars, queueVars
  <1>2. p \in PayoutIds /\ Released(p)
    BY <1>1, RunningPayout
  <1>3. /\ accepted' \in [PayoutIds -> ProviderPayouts \cup {None}]
        /\ issued' \in [ProviderPayouts -> PayoutIds \cup {None}]
        /\ callbacks' \in [ProviderPayouts -> Callback]
        /\ issued'[pp] = p
        /\ \A x \in ProviderPayouts : issued[x] # None => issued'[x] = issued[x]
        /\ ProviderOK'
    BY <1>1, <1>2, ProviderAnswers
  <1>4. /\ runs' \in [Workers -> Run]
        /\ runs'[w].payout = p /\ runs'[w].provider = pp
        /\ \A v \in Workers : v # w => runs'[v] = runs[v]
    BY <1>1, RunWithProvider
  <1>5. ASSUME NEW v \in Workers PROVE RunOK(v)'
    <2>1. CASE v = w
      BY <1>1, <1>2, <1>3, <1>4, <2>1 DEF RunOK, Released
    <2>2. CASE v # w
      <3>1. runs'[v] = runs[v] /\ RunOK(v)
        BY <1>4, <2>2 DEF IInv, RunsOK
      <3>2. runs[v].payout \in PayoutIds => runs[v].payout # None
        BY ConstantsAssumption
      <3> QED BY <1>1, <1>3, <3>1, <3>2 DEF RunOK, Released
    <2> QED BY <2>1, <2>2
  <1> HIDE DEF p
  <1> QED BY <1>1, <1>3, <1>4, <1>5, ProviderStep DEF RunsOK, IInv, TypeOK

LEMMA SubmitFailsStep ==
  ASSUME IInv, NEW w \in Workers, SubmitToProviderFails(w)
  PROVE  IInv'
  <1> DEFINE p == runs[w].payout
  <1>1. /\ runs[w].step = "submit"
        /\ \/ UNCHANGED <<accepted, issued, callbacks>>
           \/ \E pp \in ProviderPayouts : ProviderCreatePayout(p, pp)
        /\ runs' = [runs EXCEPT ![w].step = "record"]
        /\ UNCHANGED <<payouts, approvals, history, outbox, audit, jobs, deadLetters, budget>>
    BY DEF SubmitToProviderFails, Go, sqlVars, queueVars, providerVars
  <1>2. p \in PayoutIds /\ Released(p)
    BY <1>1, RunningPayout
  <1>3. Advances
    BY <1>1 DEF Advances, Steps
  <1>4. CASE UNCHANGED <<accepted, issued, callbacks>>
    BY <1>1, <1>3, <1>4, AdvanceStep DEF IInv, TypeOK
  <1>5. CASE \E pp \in ProviderPayouts : ProviderCreatePayout(p, pp)
    <2>1. PICK pp \in ProviderPayouts : ProviderCreatePayout(p, pp)
      BY <1>5
    <2>2. /\ accepted' \in [PayoutIds -> ProviderPayouts \cup {None}]
          /\ issued' \in [ProviderPayouts -> PayoutIds \cup {None}]
          /\ callbacks' \in [ProviderPayouts -> Callback]
          /\ \A x \in ProviderPayouts : issued[x] # None => issued'[x] = issued[x]
          /\ ProviderOK'
      BY <1>1, <1>2, <2>1, ProviderAnswers
    <2>3. runs' \in [Workers -> Run]
      BY <1>3, AdvancingType DEF IInv
    <2>4. ASSUME NEW v \in Workers PROVE RunOK(v)'
      <3>1. runs'[v].step # "idle" =>
              /\ runs[v].step # "idle"
              /\ runs'[v].payout = runs[v].payout
              /\ runs'[v].provider = runs[v].provider
              /\ runs'[v].step = "mark" => runs[v].step = "mark"
        BY <1>1 DEF IInv, TypeOK, Run
      <3>2. RunOK(v) /\ (runs[v].payout \in PayoutIds => runs[v].payout # None)
        BY ConstantsAssumption DEF IInv, RunsOK
      <3> QED BY <1>1, <2>2, <3>1, <3>2 DEF RunOK, Released
    <2> HIDE DEF p
    <2> QED BY <1>1, <2>2, <2>3, <2>4, ProviderStep DEF RunsOK, IInv, TypeOK
  <1> QED BY <1>1, <1>4, <1>5

-----------------------------------------------------------------------------
(* The transactions of the worker *)

LEMMA MarkCommit ==
  ASSUME IInv, NEW p \in PayoutIds, Released(p),
         NEW pp \in ProviderPayouts, issued[pp] = p,
         CommitDispatchSucceeded(p, pp), Advances,
         budget' \in [FaultKinds -> Nat],
         UNCHANGED <<jobs, deadLetters, accepted, issued, callbacks>>
  PROVE  IInv'
  <1>1. CASE payouts[p].status # "queued" /\ UNCHANGED sqlVars
    BY <1>1, AdvanceStep DEF IInv, TypeOK, sqlVars
  <1>2. CASE /\ payouts[p].status = "queued"
             /\ payouts' = [payouts EXCEPT ![p].status = "processing", ![p].provider = pp]
             /\ Record(p, "queued", "processing", {"processing"}, {})
             /\ UNCHANGED approvals
    <2>1. "processing" \in Statuses /\ "queued" \in Statuses
      BY DEF Statuses
    <2>2. /\ history' \in [PayoutIds -> Seq(HistoryRow)]
          /\ outbox' \in [PayoutIds -> [EventTypes -> Nat]]
          /\ audit' \in [PayoutIds -> SUBSET AuditActions]
          /\ \A q \in PayoutIds : q # p => outbox'[q] = outbox[q]
          /\ outbox'[p]["created"] = outbox[p]["created"]
      BY <1>2, <2>1, RecordType DEF IInv
    <2>3. payouts' \in [PayoutIds -> PayoutRow]
      BY <1>2, <2>1, RowWithProvider DEF IInv, TypeOK
    <2>4. TypeOK'
      BY <1>2, <2>2, <2>3, AdvancingType DEF IInv, TypeOK
    <2>5. /\ payouts'[p].status = "processing" /\ payouts'[p].provider = pp
          /\ \A q \in PayoutIds : q # p => payouts'[q] = payouts[q]
      BY <1>2 DEF IInv, TypeOK, PayoutRow
    <2>6. pp # None
      BY ConstantsAssumption
    <2> QED BY <1>2, <2>2, <2>4, <2>5, <2>6, DispatchCommit
  <1> QED BY <1>1, <1>2 DEF CommitDispatchSucceeded

LEMMA MarkStep ==
  ASSUME IInv, NEW w \in Workers, MarkDispatchSucceeded(w) \/ MarkDispatchSucceededFails(w)
  PROVE  IInv'
  <1> DEFINE p == runs[w].payout
             pp == runs[w].provider
  <1>1. /\ runs[w].step = "mark"
        /\ CommitDispatchSucceeded(p, pp) \/ UNCHANGED sqlVars
        /\ UNCHANGED <<jobs, deadLetters, accepted, issued, callbacks>>
    BY DEF MarkDispatchSucceeded, MarkDispatchSucceededFails, queueVars, providerVars
  <1>2. /\ p \in PayoutIds /\ Released(p)
        /\ pp \in ProviderPayouts /\ issued[pp] = p
    BY <1>1 DEF IInv, RunsOK, RunOK
  <1>3. Advances
    BY DEF MarkDispatchSucceeded, MarkDispatchSucceededFails, Go, Advances, Steps
  <1>4. budget' \in [FaultKinds -> Nat]
    BY FaultType DEF MarkDispatchSucceeded, MarkDispatchSucceededFails, FaultKinds, IInv, TypeOK
  <1> HIDE DEF p, pp
  <1>5. CASE CommitDispatchSucceeded(p, pp)
    BY <1>1, <1>2, <1>3, <1>4, <1>5, MarkCommit
  <1>6. CASE UNCHANGED sqlVars
    BY <1>1, <1>3, <1>4, <1>6, AdvanceStep DEF sqlVars, IInv, TypeOK
  <1> QED BY <1>1, <1>5, <1>6

LEMMA FailureCommit ==
  ASSUME IInv, NEW p \in PayoutIds, Released(p), NEW attempt \in 0 .. MaxAttempts,
         CommitDispatchFailure(p, attempt), Advances,
         budget' \in [FaultKinds -> Nat],
         UNCHANGED <<jobs, deadLetters, accepted, issued, callbacks>>
  PROVE  IInv'
  <1>1. CASE payouts[p].status # "queued" /\ UNCHANGED sqlVars
    BY <1>1, AdvanceStep DEF IInv, TypeOK, sqlVars
  <1>2. CASE payouts[p].status = "queued" /\ FailureOf(p, attempt, attempt >= MaxAttempts)
    <2> DEFINE d == attempt >= MaxAttempts
               n == IF payouts[p].attempts < attempt THEN attempt ELSE payouts[p].attempts
               st == IF d THEN "failed" ELSE payouts[p].status
    <2>1. payouts \in [PayoutIds -> PayoutRow] /\ payouts[p] \in PayoutRow
      BY DEF IInv, TypeOK
    <2>2. n \in 0 .. MaxAttempts /\ d \in BOOLEAN
      BY <2>1 DEF PayoutRow
    <2>3. st \in {"queued", "failed"} /\ st \in Statuses
      BY <1>2 DEF Statuses
    <2>4. /\ payouts' = [payouts EXCEPT
               ![p].attempts = n, ![p].deadLettered = d, ![p].status = st]
          /\ UNCHANGED approvals
      BY <1>2, <2>1 DEF FailureOf
    <2>5. \/ Record(p, "queued", "failed", {"failed"}, {"dispatch_dead_lettered"})
          \/ UNCHANGED <<history, outbox, audit>>
      BY <1>2 DEF FailureOf
    <2> HIDE DEF d, n, st
    <2>6. payouts' \in [PayoutIds -> PayoutRow]
      BY <2>1, <2>2, <2>3, <2>4, RowWithFailure
    <2>7. /\ payouts'[p].status = st
          /\ payouts'[p].provider = payouts[p].provider
          /\ \A q \in PayoutIds : q # p => payouts'[q] = payouts[q]
      BY <2>1, <2>4 DEF PayoutRow
    <2>8. /\ history' \in [PayoutIds -> Seq(HistoryRow)]
          /\ outbox' \in [PayoutIds -> [EventTypes -> Nat]]
          /\ audit' \in [PayoutIds -> SUBSET AuditActions]
          /\ \A q \in PayoutIds : q # p => outbox'[q] = outbox[q]
          /\ outbox'[p]["created"] = outbox[p]["created"]
      <3>1. CASE Record(p, "queued", "failed", {"failed"}, {"dispatch_dead_lettered"})
        <4>1. /\ "queued" \in Statuses /\ "failed" \in Statuses
              /\ {"dispatch_dead_lettered"} \in SUBSET AuditActions
              /\ "created" \notin {"failed"}
          BY DEF Statuses, AuditActions
        <4> QED BY <3>1, <4>1, RecordType DEF IInv
      <3>2. CASE UNCHANGED <<history, outbox, audit>>
        BY <3>2 DEF IInv, TypeOK
      <3> QED BY <2>5, <3>1, <3>2
    <2>9. TypeOK'
      BY <2>4, <2>6, <2>8, AdvancingType DEF IInv, TypeOK
    <2>10. payouts[p].provider # None => issued[payouts[p].provider] = p
      BY DEF IInv, PayoutsOK, PayoutOK
    <2> QED BY <2>3, <2>4, <2>7, <2>8, <2>9, <2>10, DispatchCommit
  <1> QED BY <1>1, <1>2 DEF CommitDispatchFailure

LEMMA RecordStep ==
  ASSUME IInv, NEW w \in Workers, RecordDispatchFailure(w) \/ RecordDispatchFailureFails(w)
  PROVE  IInv'
  <1> DEFINE p == runs[w].payout
             attempt == runs[w].attempt
  <1>1. /\ runs[w].step = "record"
        /\ CommitDispatchFailure(p, attempt) \/ UNCHANGED sqlVars
        /\ UNCHANGED <<jobs, deadLetters, accepted, issued, callbacks>>
    BY DEF RecordDispatchFailure, RecordDispatchFailureFails, queueVars, providerVars
  <1>2. p \in PayoutIds /\ Released(p)
    BY <1>1, RunningPayout
  <1>3. attempt \in 0 .. MaxAttempts
    BY DEF IInv, TypeOK, Run
  <1>4. Advances
    BY DEF RecordDispatchFailure, RecordDispatchFailureFails, Go, Advances, Steps
  <1>5. budget' \in [FaultKinds -> Nat]
    BY FaultType DEF RecordDispatchFailure, RecordDispatchFailureFails, FaultKinds, IInv, TypeOK
  <1> HIDE DEF p, attempt
  <1>6. CASE CommitDispatchFailure(p, attempt)
    BY <1>1, <1>2, <1>3, <1>4, <1>5, <1>6, FailureCommit
  <1>7. CASE UNCHANGED sqlVars
    BY <1>1, <1>4, <1>5, <1>7, AdvanceStep DEF sqlVars, IInv, TypeOK
  <1> QED BY <1>1, <1>6, <1>7

-----------------------------------------------------------------------------
(* The provider's restart and its callbacks *)

LEMMA RestartStep ==
  ASSUME IInv, RestartProvider
  PROVE  IInv'
  <1>1. /\ Fault("restart")
        /\ accepted' = [p \in PayoutIds |-> None]
        /\ callbacks' = [pp \in ProviderPayouts |->
             IF callbacks[pp].state = "scheduled"
               THEN [callbacks[pp] EXCEPT !.state = "lost"] ELSE callbacks[pp]]
        /\ UNCHANGED <<payouts, approvals, history, outbox, audit, jobs, deadLetters,
                       runs, issued>>
    BY DEF RestartProvider, sqlVars, queueVars
  <1>2. budget' \in [FaultKinds -> Nat]
    BY <1>1, FaultType DEF IInv, FaultKinds
  <1>3. callbacks' \in [ProviderPayouts -> Callback]
    BY <1>1 DEF IInv, TypeOK, Callback, CallbackStates
  <1>4. ASSUME NEW pp \in ProviderPayouts, callbacks'[pp].state # "none"
        PROVE  issued'[pp] # None
    <2>1. callbacks[pp].state # "none"
      BY <1>1, <1>4
    <2> QED BY <1>1, <2>1 DEF IInv, ProviderOK
  <1>5. ProviderOK'
    BY <1>1, <1>4 DEF IInv, ProviderOK, Released
  <1>6. RunsOK'
    BY <1>1, RunsKept
  <1> QED BY <1>1, <1>2, <1>3, <1>5, <1>6, ProviderStep DEF IInv, TypeOK

\* A step that only moves a callback on.
LEMMA CallbackStep ==
  ASSUME IInv, NEW pp \in ProviderPayouts, callbacks[pp].state # "none",
         UNCHANGED <<payouts, approvals, history, outbox, audit, jobs, deadLetters,
                     runs, accepted, issued>>,
         budget' \in [FaultKinds -> Nat],
         callbacks' \in [ProviderPayouts -> Callback],
         \A x \in ProviderPayouts : x # pp => callbacks'[x] = callbacks[x]
  PROVE  IInv'
  <1>1. ProviderOK'
    BY DEF IInv, ProviderOK, Released
  <1>2. RunsOK'
    BY RunsKept
  <1> QED BY <1>1, <1>2, ProviderStep DEF IInv, TypeOK

LEMMA ReadStep ==
  ASSUME IInv, NEW pp \in ProviderPayouts, ReadForCallback(pp)
  PROVE  IInv'
  <1> DEFINE row == payouts[issued[pp]]
             st == IF row.provider # None /\ row.provider # pp THEN "conflict"
                   ELSE IF row.status \in Terminal THEN "ignored"
                   ELSE "applying"
  <1>1. /\ callbacks[pp].state = "scheduled"
        /\ callbacks' = [callbacks EXCEPT ![pp] = [state |-> st, seen |-> row.status]]
        /\ UNCHANGED <<payouts, approvals, history, outbox, audit, jobs, deadLetters,
                       runs, accepted, issued, budget>>
    BY DEF ReadForCallback, sqlVars, queueVars, providerVars
  <1>2. issued[pp] \in PayoutIds
    BY <1>1 DEF IInv, TypeOK, ProviderOK
  <1>3. row.status \in Statuses
    BY <1>2, StatusType DEF IInv
  <1>4. st \in CallbackStates
    BY DEF CallbackStates
  <1> HIDE DEF row, st
  <1>5. [state |-> st, seen |-> row.status] \in Callback
    BY <1>3, <1>4 DEF Callback
  <1>6. callbacks' \in [ProviderPayouts -> Callback]
    BY <1>1, <1>5 DEF IInv, TypeOK
  <1>7. \A x \in ProviderPayouts : x # pp => callbacks'[x] = callbacks[x]
    BY <1>1 DEF IInv, TypeOK
  <1> QED BY <1>1, <1>6, <1>7, CallbackStep DEF IInv, TypeOK

LEMMA LoseCallbackStep ==
  ASSUME IInv, NEW pp \in ProviderPayouts, LoseCallback(pp)
  PROVE  IInv'
  <1>1. /\ callbacks[pp].state # "none"
        /\ Fault("callback")
        /\ callbacks' = [callbacks EXCEPT ![pp].state = "lost"]
        /\ UNCHANGED <<payouts, approvals, history, outbox, audit, jobs, deadLetters,
                       runs, accepted, issued>>
    BY DEF LoseCallback, sqlVars, queueVars, providerVars
  <1>2. budget' \in [FaultKinds -> Nat]
    BY <1>1, FaultType DEF IInv, FaultKinds
  <1>3. callbacks' \in [ProviderPayouts -> Callback]
    BY <1>1 DEF IInv, TypeOK, Callback, CallbackStates
  <1>4. \A x \in ProviderPayouts : x # pp => callbacks'[x] = callbacks[x]
    BY <1>1 DEF IInv, TypeOK
  <1> QED BY <1>1, <1>2, <1>3, <1>4, CallbackStep

\* A callback settles a released payout with the verdict on its amount and an
\* id that was issued for it, whatever happened since it read the row.
LEMMA AppliedCallback ==
  ASSUME IInv, NEW pp \in ProviderPayouts, ApplyCallback(pp)
  PROVE  /\ issued[pp] \in PayoutIds
         /\ Released(issued[pp])
         /\ payouts' \in [PayoutIds -> PayoutRow]
         /\ payouts'[issued[pp]].status = Verdict(issued[pp])
         /\ payouts'[issued[pp]].provider =
              IF payouts[issued[pp]].provider = None THEN pp ELSE payouts[issued[pp]].provider
         /\ \A q \in PayoutIds : q # issued[pp] => payouts'[q] = payouts[q]
  <1> DEFINE p == issued[pp]
             st == Verdict(p)
             id == IF payouts[p].provider = None THEN pp ELSE payouts[p].provider
  <1>1. p \in PayoutIds /\ Released(p)
    BY DEF ApplyCallback, IInv, TypeOK, ProviderOK
  <1>2. payouts \in [PayoutIds -> PayoutRow]
    BY DEF IInv, TypeOK
  <1>3. st \in Statuses
    BY DEF Verdict, Statuses
  <1>4. id \in ProviderPayouts \cup {None}
    BY <1>1, <1>2 DEF PayoutRow
  <1>5. payouts' = [payouts EXCEPT ![p].status = st, ![p].provider = id]
    BY <1>1, <1>2 DEF ApplyCallback, PayoutRow
  <1> HIDE DEF p, st, id
  <1>6. payouts' \in [PayoutIds -> PayoutRow]
    BY <1>1, <1>2, <1>3, <1>4, <1>5, RowWithProvider
  <1>7. payouts'[p].status = st /\ payouts'[p].provider = id
    BY <1>1, <1>2, <1>5 DEF PayoutRow
  <1>8. \A q \in PayoutIds : q # p => payouts'[q] = payouts[q]
    BY <1>1, <1>2, <1>5
  <1> QED BY <1>1, <1>6, <1>7, <1>8 DEF p, st, id

LEMMA ApplyStep ==
  ASSUME IInv, NEW pp \in ProviderPayouts, ApplyCallback(pp)
  PROVE  IInv'
  <1> PICK p \in PayoutIds : p = issued[pp]
    BY AppliedCallback
  <1> PICK st : st = Verdict(p)
    OBVIOUS
  <1> DEFINE seen == callbacks[pp].seen
  <1>1. /\ callbacks[pp].state = "applying"
        /\ Record(p, seen, st, {st}, {st})
        /\ callbacks' = [callbacks EXCEPT ![pp].state = "accepted"]
        /\ UNCHANGED <<approvals, jobs, deadLetters, runs, accepted, issued, budget>>
    BY DEF ApplyCallback, queueVars, providerVars
  <1>2. /\ Released(p)
        /\ payouts' \in [PayoutIds -> PayoutRow]
        /\ payouts'[p].status = st
        /\ payouts'[p].provider = IF payouts[p].provider = None THEN pp ELSE payouts[p].provider
        /\ \A q \in PayoutIds : q # p => payouts'[q] = payouts[q]
    BY AppliedCallback
  <1>3. /\ st \in {"paid", "failed"} /\ (st = "paid" => p \notin Declined)
        /\ st \in Statuses /\ {st} \in SUBSET AuditActions /\ "created" \notin {st}
    BY DEF Verdict, Statuses, AuditActions
  <1>4. seen \in Statuses
    BY DEF IInv, TypeOK, Callback
  <1> HIDE DEF seen
  <1>5. /\ history' \in [PayoutIds -> Seq(HistoryRow)]
        /\ outbox' \in [PayoutIds -> [EventTypes -> Nat]]
        /\ audit' \in [PayoutIds -> SUBSET AuditActions]
        /\ \A q \in PayoutIds : q # p => outbox'[q] = outbox[q]
        /\ outbox'[p]["created"] = outbox[p]["created"]
    BY <1>1, <1>2, <1>3, <1>4, RecordType DEF IInv
  <1>6. callbacks' \in [ProviderPayouts -> Callback]
    BY <1>1 DEF IInv, TypeOK, Callback, CallbackStates
  <1>7. TypeOK'
    BY <1>1, <1>2, <1>5, <1>6 DEF IInv, TypeOK
  <1>8. Released(p)'
    BY <1>1, <1>2, <1>3 DEF Released
  <1>9. pp # None /\ issued[pp] = p
    BY ConstantsAssumption
  <1>10. PayoutOK(p)'
    <2>1. PayoutOK(p)
      BY <1>2 DEF IInv, PayoutsOK
    <2>2. payouts'[p].provider # None /\ issued'[payouts'[p].provider] = p
      BY <1>1, <1>2, <1>9, <2>1 DEF PayoutOK
    <2> QED BY <1>1, <1>2, <1>3, <1>8, <2>2 DEF PayoutOK
  <1>11. \A x \in ProviderPayouts : callbacks'[x].state # "none" => issued[x] # None
    BY <1>1 DEF IInv, TypeOK, ProviderOK
  <1>12. \A q \in PayoutIds : q # p =>
           /\ payouts'[q] = payouts[q]
           /\ approvals'[q] = approvals[q]
           /\ outbox'[q] = outbox[q]
    BY <1>1, <1>2, <1>5
  <1> QED BY <1>1, <1>2, <1>7, <1>8, <1>10, <1>11, <1>12, SqlStep

-----------------------------------------------------------------------------
(* The inductive invariant *)

LEMMA NextIInv == IInv /\ [Next]_vars => IInv'
  <1> SUFFICES ASSUME IInv, [Next]_vars PROVE IInv'
    OBVIOUS
  <1>1. CASE UNCHANGED vars
    BY <1>1, QueueStep, RunsKept, JobsKept
    DEF vars, sqlVars, queueVars, providerVars, IInv, TypeOK
  <1>2. ASSUME NEW p \in PayoutIds,
               \/ \E matched \in BOOLEAN : CreatePayout(p, matched)
               \/ \E decision \in {"approved", "rejected"} : DecideApproval(p, decision)
               \/ EnqueuePayoutDispatch(p) \/ RemoveFinishedJob(p)
               \/ RecoverStalledJob(p) \/ LoseJobLock(p)
        PROVE  IInv'
    BY <1>2, CreateStep, DecideStep, EnqueueStep, RemoveStep, RecoverStep, LoseLockStep
  <1>3. ASSUME NEW w \in Workers,
               \/ \E p \in PayoutIds : StartJob(w, p)
               \/ Attempt(w) \/ SqlFails(w) \/ CrashWorker(w)
        PROVE  IInv'
    BY <1>3, StartStep, FindStep, SubmitStep, SubmitFailsStep, MarkStep, RecordStep,
       MirrorStep, CompleteStep, FailAttemptStep, CrashStep
    DEF Attempt, SqlFails
  <1>4. ASSUME NEW pp \in ProviderPayouts,
               ReadForCallback(pp) \/ ApplyCallback(pp) \/ LoseCallback(pp)
        PROVE  IInv'
    BY <1>4, ReadStep, ApplyStep, LoseCallbackStep
  <1> QED BY <1>1, <1>2, <1>3, <1>4, RestartStep DEF Next

THEOREM InductiveInvariant == Spec => []IInv
  BY InitIInv, NextIInv, PTL DEF Spec

\* The types of all variables, for any number of payouts, slots and faults.
THEOREM TypeCorrect == Spec => []TypeOK
  <1>1. IInv => TypeOK
    BY DEF IInv
  <1> QED BY <1>1, InductiveInvariant, PTL

\* The provider only ever sees payouts that an operator or the risk rules
\* released, through any number of relays, jobs, attempts and restarts.
THEOREM ProviderSeesReleasedOnly == Spec => []ProviderOnlyAfterRelease
  <1>1. IInv => ProviderOnlyAfterRelease
    BY DEF IInv, ProviderOK, ProviderOnlyAfterRelease, Released
  <1> QED BY <1>1, InductiveInvariant, PTL

\* The provider payout id on a row was issued for that payout, although worker
\* and callback race to write it.
THEOREM ProviderIdGenuine == Spec => []ProviderIdIsGenuine
  <1>1. IInv => ProviderIdIsGenuine
    BY DEF IInv, PayoutsOK, PayoutOK, ProviderIdIsGenuine
  <1> QED BY <1>1, InductiveInvariant, PTL

-----------------------------------------------------------------------------
(* Every step is a step of the lifecycle, or none *)

LEMMA LifecycleInit == Init => Lifecycle!Init
  BY DEF Init, Lifecycle!Init

LEMMA LifecycleStutter ==
  ASSUME UNCHANGED issued,
         \A q \in PayoutIds : payouts'[q].status = payouts[q].status
  PROVE  UNCHANGED Lifecycle!vars
  <1>1. [q \in PayoutIds |-> payouts'[q].status] = [q \in PayoutIds |-> payouts[q].status]
    OBVIOUS
  <1> QED BY <1>1 DEF Lifecycle!vars

LEMMA LifecycleMove ==
  ASSUME UNCHANGED issued, NEW p \in PayoutIds, NEW from, NEW to,
         payouts[p].status \in from, payouts'[p].status = to,
         \A q \in PayoutIds : q # p => payouts'[q].status = payouts[q].status
  PROVE  Lifecycle!Move(p, from, to)
  <1> DEFINE status == [q \in PayoutIds |-> payouts[q].status]
  <1>1. [q \in PayoutIds |-> payouts'[q].status] = [status EXCEPT ![p] = to]
    OBVIOUS
  <1> QED BY <1>1 DEF Lifecycle!Move

LEMMA LifecycleCreate ==
  ASSUME IInv, NEW p \in PayoutIds, NEW matched \in BOOLEAN, CreatePayout(p, matched)
  PROVE  Lifecycle!Next
  <1> DEFINE st == IF matched THEN "needs_approval" ELSE "queued"
  <1>1. /\ payouts[p].status \in {"none"}
        /\ payouts' = [payouts EXCEPT ![p].status = st]
        /\ UNCHANGED issued
    BY DEF CreatePayout, providerVars
  <1>2. st \in {"queued", "needs_approval"}
    OBVIOUS
  <1> HIDE DEF st
  <1>3. /\ payouts'[p].status = st
        /\ \A q \in PayoutIds : q # p => payouts'[q].status = payouts[q].status
    BY <1>1 DEF IInv, TypeOK, PayoutRow
  <1>4. Lifecycle!Move(p, {"none"}, st)
    BY <1>1, <1>3, LifecycleMove
  <1> QED BY <1>2, <1>4 DEF Lifecycle!Create, Lifecycle!Next

LEMMA LifecycleDecide ==
  ASSUME IInv, NEW p \in PayoutIds, NEW decision \in {"approved", "rejected"},
         DecideApproval(p, decision)
  PROVE  Lifecycle!Next
  <1> DEFINE st == IF decision = "approved" THEN "queued" ELSE "canceled"
  <1>1. /\ payouts[p].status \in {"needs_approval"}
        /\ payouts' = [payouts EXCEPT ![p].status = st]
        /\ UNCHANGED issued
    BY DEF DecideApproval, providerVars
  <1>2. st \in {"queued", "canceled"}
    OBVIOUS
  <1> HIDE DEF st
  <1>3. /\ payouts'[p].status = st
        /\ \A q \in PayoutIds : q # p => payouts'[q].status = payouts[q].status
    BY <1>1 DEF IInv, TypeOK, PayoutRow
  <1>4. Lifecycle!Move(p, {"needs_approval"}, st)
    BY <1>1, <1>3, LifecycleMove
  <1> QED BY <1>2, <1>4 DEF Lifecycle!Decide, Lifecycle!Next

LEMMA LifecycleSubmit ==
  ASSUME IInv, NEW p \in PayoutIds, Released(p), NEW pp \in ProviderPayouts,
         ProviderCreatePayout(p, pp), UNCHANGED payouts
  PROVE  [Lifecycle!Next]_(Lifecycle!vars)
  <1>1. CASE UNCHANGED issued
    BY <1>1, LifecycleStutter
  <1>2. CASE issued[pp] = None /\ issued' = [issued EXCEPT ![pp] = p]
    <2> DEFINE submitted == {issued[x] : x \in ProviderPayouts} \ {None}
    <2>1. {issued'[x] : x \in ProviderPayouts} \ {None} = submitted \cup {p}
      <3>1. issued'[pp] = p /\ \A x \in ProviderPayouts : x # pp => issued'[x] = issued[x]
        BY <1>2 DEF IInv, TypeOK
      <3> QED BY <1>2, <3>1, ConstantsAssumption
    <2>2. [q \in PayoutIds |-> payouts'[q].status] = [q \in PayoutIds |-> payouts[q].status]
      OBVIOUS
    <2>3. [q \in PayoutIds |-> payouts[q].status][p] \in Lifecycle!Released
      BY DEF Released, Lifecycle!Released
    <2>4. Lifecycle!Submit(p)
      BY <2>1, <2>2, <2>3 DEF Lifecycle!Submit
    <2> QED BY <2>4 DEF Lifecycle!Next
  <1> QED BY <1>1, <1>2 DEF ProviderCreatePayout, providerVars

LEMMA LifecycleMark ==
  ASSUME IInv, NEW p \in PayoutIds, NEW pp \in ProviderPayouts, issued[pp] = p,
         CommitDispatchSucceeded(p, pp), UNCHANGED issued
  PROVE  [Lifecycle!Next]_(Lifecycle!vars)
  <1>1. CASE UNCHANGED payouts
    BY <1>1, LifecycleStutter
  <1>2. CASE /\ payouts[p].status \in {"queued"}
             /\ payouts' = [payouts EXCEPT ![p].status = "processing", ![p].provider = pp]
    <2>1. /\ payouts[p].status \in {"queued"}
          /\ payouts'[p].status = "processing"
          /\ \A q \in PayoutIds : q # p => payouts'[q].status = payouts[q].status
      BY <1>2 DEF IInv, TypeOK, PayoutRow
    <2>2. Lifecycle!Move(p, {"queued"}, "processing")
      BY <2>1, LifecycleMove
    <2>3. p \in {issued[x] : x \in ProviderPayouts} \ {None}
      BY ConstantsAssumption
    <2> QED BY <2>2, <2>3 DEF Lifecycle!Acknowledge, Lifecycle!Next
  <1> QED BY <1>1, <1>2 DEF CommitDispatchSucceeded, sqlVars

LEMMA LifecycleFailure ==
  ASSUME IInv, NEW p \in PayoutIds, NEW attempt,
         CommitDispatchFailure(p, attempt), UNCHANGED issued
  PROVE  [Lifecycle!Next]_(Lifecycle!vars)
  <1>1. CASE UNCHANGED payouts
    BY <1>1, LifecycleStutter
  <1>2. CASE payouts[p].status = "queued" /\ FailureOf(p, attempt, attempt >= MaxAttempts)
    <2> DEFINE st == IF attempt >= MaxAttempts THEN "failed" ELSE payouts[p].status
    <2>1. /\ payouts'[p].status = st
          /\ \A q \in PayoutIds : q # p => payouts'[q].status = payouts[q].status
      <3> DEFINE d == attempt >= MaxAttempts
                 n == IF payouts[p].attempts < attempt THEN attempt ELSE payouts[p].attempts
      <3>1. payouts \in [PayoutIds -> PayoutRow]
        BY DEF IInv, TypeOK
      <3>2. payouts' = [payouts EXCEPT
              ![p].attempts = n, ![p].deadLettered = d, ![p].status = st]
        BY <1>2, <3>1 DEF FailureOf, PayoutRow
      <3> HIDE DEF d, n, st
      <3> QED BY <3>1, <3>2 DEF PayoutRow
    <2>2. CASE attempt >= MaxAttempts
      <3>1. Lifecycle!Move(p, {"queued"}, "failed")
        BY <1>2, <2>1, <2>2, LifecycleMove
      <3> QED BY <3>1 DEF Lifecycle!GiveUp, Lifecycle!Next
    <2>3. CASE ~(attempt >= MaxAttempts)
      BY <2>1, <2>3, LifecycleStutter
    <2> QED BY <2>2, <2>3
  <1> QED BY <1>1, <1>2 DEF CommitDispatchFailure, sqlVars

LEMMA LifecycleApply ==
  ASSUME IInv, NEW pp \in ProviderPayouts, ApplyCallback(pp)
  PROVE  [Lifecycle!Next]_(Lifecycle!vars)
  <1> PICK p \in PayoutIds : p = issued[pp]
    BY AppliedCallback
  <1>1. /\ Released(p)
        /\ payouts'[p].status = Verdict(p)
        /\ \A q \in PayoutIds : q # p => payouts'[q].status = payouts[q].status
        /\ UNCHANGED issued
    BY AppliedCallback DEF ApplyCallback, providerVars
  <1>2. CASE payouts[p].status = "paid"
    <2>1. Verdict(p) = "paid"
      BY <1>2 DEF IInv, PayoutsOK, PayoutOK, Verdict
    <2> QED BY <1>1, <1>2, <2>1, LifecycleStutter
  <1>3. CASE payouts[p].status \in {"queued", "processing", "failed"}
    <2>1. Lifecycle!Move(p, {"queued", "processing", "failed"}, Verdict(p))
      BY <1>1, <1>3, LifecycleMove
    <2>2. p \in {issued[x] : x \in ProviderPayouts} \ {None}
      BY ConstantsAssumption
    <2>3. Lifecycle!Verdict(p) = Verdict(p)
      BY DEF Lifecycle!Verdict, Verdict
    <2> QED BY <2>1, <2>2, <2>3 DEF Lifecycle!Settle, Lifecycle!Next
  <1> QED BY <1>1, <1>2, <1>3 DEF Released

LEMMA LifecycleAttempt ==
  ASSUME IInv, NEW w \in Workers, Attempt(w) \/ SqlFails(w)
  PROVE  [Lifecycle!Next]_(Lifecycle!vars)
  <1> DEFINE p == runs[w].payout
             pp == runs[w].provider
  <1>1. CASE UNCHANGED <<payouts, issued>>
    BY <1>1, LifecycleStutter
  <1>2. ASSUME SubmitToProvider(w) \/ SubmitToProviderFails(w)
        PROVE  [Lifecycle!Next]_(Lifecycle!vars)
    <2>1. p \in PayoutIds /\ Released(p) /\ UNCHANGED payouts
      BY <1>2, RunningPayout DEF SubmitToProvider, SubmitToProviderFails, sqlVars
    <2>2. \/ UNCHANGED issued
          \/ \E x \in ProviderPayouts : ProviderCreatePayout(p, x)
      BY <1>2 DEF SubmitToProvider, SubmitToProviderFails, providerVars
    <2> HIDE DEF p
    <2> QED BY <1>1, <2>1, <2>2, LifecycleSubmit
  <1>3. ASSUME MarkDispatchSucceeded(w) \/ MarkDispatchSucceededFails(w)
        PROVE  [Lifecycle!Next]_(Lifecycle!vars)
    <2>1. /\ p \in PayoutIds /\ pp \in ProviderPayouts /\ issued[pp] = p
          /\ UNCHANGED issued
          /\ UNCHANGED payouts \/ CommitDispatchSucceeded(p, pp)
      BY <1>3 DEF MarkDispatchSucceeded, MarkDispatchSucceededFails, IInv, RunsOK, RunOK,
                  providerVars, sqlVars
    <2> HIDE DEF p, pp
    <2> QED BY <1>1, <2>1, LifecycleMark
  <1>4. ASSUME RecordDispatchFailure(w) \/ RecordDispatchFailureFails(w)
        PROVE  [Lifecycle!Next]_(Lifecycle!vars)
    <2>1. /\ p \in PayoutIds /\ UNCHANGED issued
          /\ UNCHANGED payouts \/ CommitDispatchFailure(p, runs[w].attempt)
      BY <1>4, RunningPayout
      DEF RecordDispatchFailure, RecordDispatchFailureFails, providerVars, sqlVars
    <2> HIDE DEF p
    <2> QED BY <1>1, <2>1, LifecycleFailure
  <1>5. ASSUME \/ FindDispatch(w) \/ FindDispatchFails(w) \/ MirrorDeadLetter(w)
               \/ CompleteJob(w) \/ FailAttempt(w)
        PROVE  UNCHANGED <<payouts, issued>>
    BY <1>5 DEF FindDispatch, FindDispatchFails, MirrorDeadLetter, CompleteJob, FailAttempt,
                SettleJob, sqlVars, providerVars
  <1> QED BY <1>1, <1>2, <1>3, <1>4, <1>5 DEF Attempt, SqlFails

LEMMA LifecycleNext == IInv /\ [Next]_vars => [Lifecycle!Next]_(Lifecycle!vars)
  <1> SUFFICES ASSUME IInv, [Next]_vars PROVE [Lifecycle!Next]_(Lifecycle!vars)
    OBVIOUS
  <1>1. CASE UNCHANGED <<payouts, issued>>
    BY <1>1, LifecycleStutter
  <1>2. CASE UNCHANGED vars
    BY <1>1, <1>2 DEF vars, sqlVars, providerVars
  <1>3. ASSUME NEW p \in PayoutIds,
               \/ \E matched \in BOOLEAN : CreatePayout(p, matched)
               \/ \E decision \in {"approved", "rejected"} : DecideApproval(p, decision)
        PROVE  [Lifecycle!Next]_(Lifecycle!vars)
    BY <1>3, LifecycleCreate, LifecycleDecide
  <1>4. ASSUME NEW p \in PayoutIds,
               \/ EnqueuePayoutDispatch(p) \/ RemoveFinishedJob(p)
               \/ RecoverStalledJob(p) \/ LoseJobLock(p)
               \/ \E w \in Workers : StartJob(w, p)
        PROVE  UNCHANGED <<payouts, issued>>
    BY <1>4 DEF EnqueuePayoutDispatch, RemoveFinishedJob, RecoverStalledJob, LoseJobLock,
                StartJob, sqlVars, providerVars
  <1>5. ASSUME NEW w \in Workers, CrashWorker(w)
        PROVE  UNCHANGED <<payouts, issued>>
    BY <1>5 DEF CrashWorker, sqlVars, providerVars
  <1>6. ASSUME RestartProvider \/ \E pp \in ProviderPayouts : ReadForCallback(pp) \/ LoseCallback(pp)
        PROVE  UNCHANGED <<payouts, issued>>
    BY <1>6 DEF RestartProvider, ReadForCallback, LoseCallback, sqlVars, providerVars
  <1> QED BY <1>1, <1>2, <1>3, <1>4, <1>5, <1>6, LifecycleAttempt, LifecycleApply DEF Next

\* The pipeline of API, relay, queue, workers, provider and callbacks keeps the
\* promise about each payout: only the listed transitions, and money requested
\* only for released payouts.
THEOREM Refinement == Spec => ImplementsLifecycle
  BY LifecycleInit, LifecycleNext, InductiveInvariant, PTL
  DEF Spec, ImplementsLifecycle, Lifecycle!Spec

\* A payment or a rejection is never undone, although the callback's UPDATE and
\* the late attempts of the worker act on what they read earlier.
THEOREM FinalStatuses == Spec => PaidAndCanceledAreFinal
  <1> DEFINE Kept == \A p \in PayoutIds :
               payouts[p].status \in {"paid", "canceled"} =>
                 payouts'[p].status = payouts[p].status
  <1>1. IInv /\ [Next]_vars => [Kept]_vars
    <2> SUFFICES ASSUME IInv, [Next]_vars, NEW p \in PayoutIds,
                        payouts[p].status \in {"paid", "canceled"}
                 PROVE  payouts'[p].status = payouts[p].status
      OBVIOUS
    <2> DEFINE before == [q \in PayoutIds |-> payouts[q].status]
               after == [q \in PayoutIds |-> payouts'[q].status]
    <2>1. CASE UNCHANGED Lifecycle!vars
      <3>1. after = before
        BY <2>1 DEF Lifecycle!vars
      <3>2. after[p] = before[p]
        BY <3>1
      <3> QED BY <3>2
    <2>2. CASE Lifecycle!Next
      <3>1. PICK q \in PayoutIds :
              \/ after = before
              \/ /\ before[q] \notin {"paid", "canceled"}
                 /\ \E s : after = [before EXCEPT ![q] = s]
        BY <2>2 DEF Lifecycle!Next, Lifecycle!Create, Lifecycle!Decide, Lifecycle!Submit,
                    Lifecycle!Acknowledge, Lifecycle!GiveUp, Lifecycle!Settle, Lifecycle!Move
      <3>2. after[p] = before[p]
        BY <3>1
      <3> QED BY <3>2
    <2> QED BY <2>1, <2>2, LifecycleNext
  <1> QED BY <1>1, InductiveInvariant, PTL DEF Spec, PaidAndCanceledAreFinal
=============================================================================
