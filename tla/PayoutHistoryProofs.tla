------------------------- MODULE PayoutHistoryProofs -------------------------
(***************************************************************************)
(* What PayoutDispatch keeps on record, for any number of payouts, slots,  *)
(* attempts and faults: the history and the outbox of a payout, the cause  *)
(* of its final status, and how many provider payouts were made of it.     *)
(* PayoutDispatchProofs knows where a step can be taken (IInv); here each  *)
(* step is first reduced to what it does to the rows (RowEffect) and to    *)
(* the provider (ProviderEffect), and HInv is inductive for these effects. *)
(***************************************************************************)
EXTENDS PayoutDispatchProofs, FiniteSetTheorems

(* The inductive invariant *)

Count(t, h) == Cardinality({i \in DOMAIN h : t \in Announced(h[i])})

RecordOK(p) ==
  /\ payouts[p].status = "none" => history[p] = <<>>
  /\ payouts[p].status # "none" =>
       history[p] # <<>> /\ payouts[p].status = history[p][Len(history[p])].to
  /\ \A t \in EventTypes : outbox[p][t] = Count(t, history[p])

SettledBy(pp, p) == issued[pp] = p /\ callbacks[pp].state = "accepted"

CauseOK(p) ==
  LET settled == \E pp \in ProviderPayouts : SettledBy(pp, p)
  IN /\ payouts[p].status = "paid" => settled /\ p \notin Declined
     /\ payouts[p].status = "failed" =>
          \/ settled /\ p \in Declined
          \/ payouts[p].deadLettered /\ payouts[p].attempts = MaxAttempts

\* Row i of the history follows the row before it, or is a callback's.
LinkOK(p, i) ==
  \/ history[p][i].from = history[p][i - 1].to
  \/ /\ history[p][i].to = Verdict(p)
     /\ \E pp \in ProviderPayouts :
          SettledBy(pp, p) /\ callbacks[pp].seen = history[p][i].from

ChainOK(p) == \A i \in 2 .. Len(history[p]) : LinkOK(p, i)

\* A provider that still knows the payout has made it once since its last start.
IssuedOK(p) ==
  /\ IsFiniteSet(ProviderPayoutsOf(p))
  /\ Cardinality(ProviderPayoutsOf(p)) <= Restarts + IF accepted[p] = None THEN 0 ELSE 1

HInv ==
  /\ budget["restart"] <= FaultBudget["restart"]
  /\ \A p \in PayoutIds : RecordOK(p) /\ CauseOK(p) /\ ChainOK(p) /\ IssuedOK(p)

-----------------------------------------------------------------------------
(* What a step does to the rows *)

\* The status of p becomes to; the history and the outbox say so.
Recorded(p, from, to) ==
  /\ history' = [history EXCEPT ![p] = Append(@, [from |-> from, to |-> to])]
  /\ outbox' = [outbox EXCEPT ![p] =
       [t \in EventTypes |->
          IF t \in Announced([from |-> from, to |-> to]) THEN @[t] + 1 ELSE @[t]]]
  /\ payouts'[p].status = to
  /\ \A q \in PayoutIds : q # p => payouts'[q] = payouts[q]

Unrecorded(p) ==
  /\ payouts[p].status = "queued" /\ payouts'[p].status = "queued"
  /\ \A q \in PayoutIds : q # p => payouts'[q] = payouts[q]
  /\ UNCHANGED <<history, outbox>>

\* The API and the worker move a payout from the status it has.
OwnMove(p, to) ==
  /\ to \in Statuses \ {"none", "paid"}
  /\ Recorded(p, payouts[p].status, to)
  /\ to = "failed" => payouts'[p].deadLettered /\ payouts'[p].attempts = MaxAttempts

\* A callback moves it from the status that it has read.
CallbackMove(p, pp) ==
  /\ issued[pp] = p
  /\ callbacks' = [callbacks EXCEPT ![pp].state = "accepted"]
  /\ Recorded(p, callbacks[pp].seen, Verdict(p))

RowEffect ==
  \/ UNCHANGED <<payouts, history, outbox>>
  \/ \E p \in PayoutIds : Unrecorded(p)
  \/ \E p \in PayoutIds, to \in Statuses : OwnMove(p, to)
  \/ \E p \in PayoutIds, pp \in ProviderPayouts : CallbackMove(p, pp)

LEMMA RecordRecords ==
  ASSUME NEW p \in PayoutIds, NEW from, NEW to, NEW events, NEW actions,
         Record(p, from, to, events, actions), events = Announced([from |-> from, to |-> to]),
         payouts'[p].status = to, \A q \in PayoutIds : q # p => payouts'[q] = payouts[q]
  PROVE  Recorded(p, from, to)
  BY DEF Record, Recorded

\* The events of a transition to one of the later statuses.
LEMMA AnnouncedLater ==
  ASSUME NEW from, NEW to \in {"processing", "paid", "failed"}
  PROVE  Announced([from |-> from, to |-> to]) = {to}
  BY DEF Announced

LEMMA CreateEffect ==
  ASSUME IInv, NEW p \in PayoutIds, NEW matched \in BOOLEAN, CreatePayout(p, matched)
  PROVE  RowEffect
  <1> DEFINE st == IF matched THEN "needs_approval" ELSE "queued"
             ev == IF matched THEN "approval_requested" ELSE "created"
  <1>1. /\ payouts[p].status = "none"
        /\ payouts' = [payouts EXCEPT ![p].status = st]
        /\ Record(p, "none", st, {ev}, {ev})
    BY DEF CreatePayout
  <1>2. {ev} = Announced([from |-> "none", to |-> st])
    BY DEF Announced
  <1>3. st \in Statuses \ {"none", "paid", "failed"}
    BY DEF Statuses
  <1> HIDE DEF st, ev
  <1>4. payouts'[p].status = st /\ \A q \in PayoutIds : q # p => payouts'[q] = payouts[q]
    BY <1>1 DEF IInv, TypeOK, PayoutRow
  <1>5. Recorded(p, payouts[p].status, st)
    BY <1>1, <1>2, <1>4, RecordRecords
  <1> QED BY <1>3, <1>5 DEF OwnMove, RowEffect

LEMMA DecideEffect ==
  ASSUME IInv, NEW p \in PayoutIds, NEW decision \in {"approved", "rejected"},
         DecideApproval(p, decision)
  PROVE  RowEffect
  <1> DEFINE st == IF decision = "approved" THEN "queued" ELSE "canceled"
             evs == IF decision = "approved" THEN {"approved", "created"} ELSE {"rejected"}
  <1>1. /\ payouts[p].status = "needs_approval"
        /\ payouts' = [payouts EXCEPT ![p].status = st]
        /\ Record(p, "needs_approval", st, evs, {decision})
    BY DEF DecideApproval
  <1>2. evs = Announced([from |-> "needs_approval", to |-> st])
    BY DEF Announced
  <1>3. st \in Statuses \ {"none", "paid", "failed"}
    BY DEF Statuses
  <1> HIDE DEF st, evs
  <1>4. payouts'[p].status = st /\ \A q \in PayoutIds : q # p => payouts'[q] = payouts[q]
    BY <1>1 DEF IInv, TypeOK, PayoutRow
  <1>5. Recorded(p, payouts[p].status, st)
    BY <1>1, <1>2, <1>4, RecordRecords
  <1> QED BY <1>3, <1>5 DEF OwnMove, RowEffect

LEMMA MarkEffect ==
  ASSUME IInv, NEW w \in Workers, MarkDispatchSucceeded(w) \/ MarkDispatchSucceededFails(w)
  PROVE  RowEffect
  <1> DEFINE p == runs[w].payout  pp == runs[w].provider
  <1>1. CommitDispatchSucceeded(p, pp) \/ UNCHANGED sqlVars
    BY DEF MarkDispatchSucceeded, MarkDispatchSucceededFails
  <1>2. p \in PayoutIds
    BY DEF MarkDispatchSucceeded, MarkDispatchSucceededFails, IInv, RunsOK, RunOK
  <1> HIDE DEF p, pp
  <1>3. CASE UNCHANGED sqlVars
    BY <1>3 DEF sqlVars, RowEffect
  <1>4. CASE /\ payouts[p].status = "queued"
             /\ payouts' = [payouts EXCEPT ![p].status = "processing", ![p].provider = pp]
             /\ Record(p, "queued", "processing", {"processing"}, {})
    <2>1. /\ payouts'[p].status = "processing"
          /\ \A q \in PayoutIds : q # p => payouts'[q] = payouts[q]
      BY <1>2, <1>4 DEF IInv, TypeOK, PayoutRow
    <2>2. Recorded(p, payouts[p].status, "processing")
      BY <1>2, <1>4, <2>1, AnnouncedLater, RecordRecords
    <2> QED BY <1>2, <2>2 DEF OwnMove, RowEffect, Statuses
  <1> QED BY <1>1, <1>3, <1>4 DEF CommitDispatchSucceeded

LEMMA FailureEffect ==
  ASSUME IInv, NEW w \in Workers, RecordDispatchFailure(w) \/ RecordDispatchFailureFails(w)
  PROVE  RowEffect
  <1> DEFINE p == runs[w].payout  attempt == runs[w].attempt
  <1>1. CommitDispatchFailure(p, attempt) \/ UNCHANGED sqlVars
    BY DEF RecordDispatchFailure, RecordDispatchFailureFails
  <1>2. p \in PayoutIds /\ attempt \in 0 .. MaxAttempts
    BY DEF RecordDispatchFailure, RecordDispatchFailureFails, IInv, TypeOK, Run, RunsOK, RunOK
  <1> HIDE DEF p, attempt
  <1>3. CASE UNCHANGED sqlVars
    BY <1>3 DEF sqlVars, RowEffect
  <1>4. CASE payouts[p].status = "queued" /\ FailureOf(p, attempt, attempt >= MaxAttempts)
    <2> DEFINE d == attempt >= MaxAttempts
               n == IF payouts[p].attempts < attempt THEN attempt ELSE payouts[p].attempts
               st == IF d THEN "failed" ELSE payouts[p].status
    <2>1. payouts \in [PayoutIds -> PayoutRow] /\ payouts[p] \in PayoutRow
      BY <1>2 DEF IInv, TypeOK
    <2>2. n \in 0 .. MaxAttempts /\ (d => n = MaxAttempts)
      BY <1>2, <2>1, ConstantsAssumption DEF PayoutRow
    <2>3. payouts' = [payouts EXCEPT ![p].attempts = n, ![p].deadLettered = d, ![p].status = st]
      BY <1>4, <2>1 DEF FailureOf
    <2>4. st = IF d THEN "failed" ELSE "queued"
      BY <1>4
    <2>5. IF d THEN Record(p, "queued", "failed", {"failed"}, {"dispatch_dead_lettered"})
               ELSE UNCHANGED <<history, outbox, audit>>
      BY <1>4 DEF FailureOf
    <2> HIDE DEF d, n, st
    <2>6. /\ payouts'[p].status = st /\ payouts'[p].attempts = n /\ payouts'[p].deadLettered = d
          /\ \A q \in PayoutIds : q # p => payouts'[q] = payouts[q]
      BY <1>2, <2>1, <2>3 DEF PayoutRow
    <2>7. CASE d
      <3>1. Recorded(p, payouts[p].status, "failed")
        BY <1>2, <1>4, <2>4, <2>5, <2>6, <2>7, AnnouncedLater, RecordRecords
      <3>2. OwnMove(p, "failed")
        BY <2>2, <2>6, <2>7, <3>1 DEF OwnMove, Statuses
      <3> QED BY <1>2, <3>2 DEF RowEffect, Statuses
    <2>8. CASE ~d
      BY <1>2, <1>4, <2>4, <2>5, <2>6, <2>8 DEF Unrecorded, RowEffect
    <2> QED BY <2>7, <2>8
  <1> QED BY <1>1, <1>3, <1>4 DEF CommitDispatchFailure, sqlVars

LEMMA ApplyEffect ==
  ASSUME IInv, NEW pp \in ProviderPayouts, ApplyCallback(pp)
  PROVE  RowEffect
  <1>1. PICK p \in PayoutIds : p = issued[pp]
    BY AppliedCallback
  <1>2. /\ payouts'[p].status = Verdict(p)
        /\ \A q \in PayoutIds : q # p => payouts'[q] = payouts[q]
    BY <1>1, AppliedCallback
  <1>3. /\ Record(p, callbacks[pp].seen, Verdict(p), {Verdict(p)}, {Verdict(p)})
        /\ callbacks' = [callbacks EXCEPT ![pp].state = "accepted"]
    BY <1>1 DEF ApplyCallback
  <1>4. {Verdict(p)} = Announced([from |-> callbacks[pp].seen, to |-> Verdict(p)])
    BY AnnouncedLater DEF Verdict
  <1>5. Recorded(p, callbacks[pp].seen, Verdict(p))
    BY <1>2, <1>3, <1>4, RecordRecords
  <1> QED BY <1>1, <1>3, <1>5 DEF CallbackMove, RowEffect

LEMMA RowEffects == IInv /\ [Next]_vars => RowEffect
  <1> SUFFICES ASSUME IInv, [Next]_vars PROVE RowEffect
    OBVIOUS
  <1>1. CASE UNCHANGED <<payouts, history, outbox>>
    BY <1>1 DEF RowEffect
  <1>2. UNCHANGED vars => UNCHANGED <<payouts, history, outbox>>
    BY DEF vars, sqlVars
  <1>3. ASSUME NEW p \in PayoutIds,
               \/ EnqueuePayoutDispatch(p) \/ RemoveFinishedJob(p)
               \/ RecoverStalledJob(p) \/ LoseJobLock(p)
               \/ \E w \in Workers : StartJob(w, p)
        PROVE  UNCHANGED <<payouts, history, outbox>>
    BY <1>3 DEF EnqueuePayoutDispatch, RemoveFinishedJob, RecoverStalledJob, LoseJobLock,
                StartJob, sqlVars
  <1>4. ASSUME NEW w \in Workers,
               \/ FindDispatch(w) \/ FindDispatchFails(w) \/ SubmitToProvider(w)
               \/ SubmitToProviderFails(w) \/ MirrorDeadLetter(w)
        PROVE  UNCHANGED <<payouts, history, outbox>>
    BY <1>4 DEF FindDispatch, FindDispatchFails, SubmitToProvider, SubmitToProviderFails,
                MirrorDeadLetter, sqlVars
  <1>5. ASSUME NEW w \in Workers, CompleteJob(w) \/ FailAttempt(w) \/ CrashWorker(w)
        PROVE  UNCHANGED <<payouts, history, outbox>>
    BY <1>5 DEF CompleteJob, FailAttempt, SettleJob, CrashWorker, sqlVars
  <1>6. ASSUME RestartProvider \/ \E pp \in ProviderPayouts : ReadForCallback(pp) \/ LoseCallback(pp)
        PROVE  UNCHANGED <<payouts, history, outbox>>
    BY <1>6 DEF RestartProvider, ReadForCallback, LoseCallback, sqlVars
  <1>7. ASSUME NEW w \in Workers, Attempt(w) \/ SqlFails(w) PROVE RowEffect
    BY <1>1, <1>4, <1>5, <1>7, MarkEffect, FailureEffect DEF Attempt, SqlFails
  <1> QED BY <1>1, <1>2, <1>3, <1>5, <1>6, <1>7, CreateEffect, DecideEffect, ApplyEffect DEF Next

-----------------------------------------------------------------------------
(* What a step does to the provider *)

SameStart == budget'["restart"] = budget["restart"]

\* A new provider payout of a payout that the provider does not know.
MakesPayout(p, pp) ==
  /\ accepted[p] = None /\ issued[pp] = None
  /\ accepted' = [accepted EXCEPT ![p] = pp]
  /\ issued' = [issued EXCEPT ![pp] = p]
  /\ callbacks' = [callbacks EXCEPT ![pp].state = "scheduled"]
  /\ SameStart

\* A callback that is not over moves.
CallbackMoves(pp) ==
  /\ callbacks[pp].state \in {"scheduled", "applying"}
  /\ \A x \in ProviderPayouts : x # pp => callbacks'[x] = callbacks[x]
  /\ UNCHANGED <<accepted, issued>> /\ SameStart

ForgetsPayouts ==
  /\ budget["restart"] > 0 /\ budget'["restart"] = budget["restart"] - 1
  /\ \A p \in PayoutIds : accepted'[p] = None
  /\ \A x \in ProviderPayouts : callbacks[x].state = "accepted" => callbacks'[x] = callbacks[x]
  /\ UNCHANGED issued

ProviderEffect ==
  \/ UNCHANGED <<accepted, issued, callbacks>> /\ SameStart
  \/ \E p \in PayoutIds, pp \in ProviderPayouts : MakesPayout(p, pp)
  \/ \E pp \in ProviderPayouts : CallbackMoves(pp)
  \/ ForgetsPayouts

LEMMA OtherFault ==
  ASSUME TypeOK, NEW kind \in FaultKinds \ {"restart"}, Fault(kind)
  PROVE  SameStart
  BY DEF TypeOK, Fault, SameStart, FaultKinds

LEMMA ProviderEffects == IInv /\ [Next]_vars => ProviderEffect
  <1> SUFFICES ASSUME IInv, [Next]_vars PROVE ProviderEffect
    OBVIOUS
  <1> DEFINE Quiet == UNCHANGED <<accepted, issued, callbacks>> /\ SameStart
  <1>1. /\ \A kind \in {"sql", "stall", "callback"} : Fault(kind) => SameStart
        /\ budget' = budget => SameStart
    <2>1. \A kind \in {"sql", "stall", "callback"} : kind \in FaultKinds \ {"restart"}
      BY DEF FaultKinds
    <2> QED BY <2>1, OtherFault DEF IInv, SameStart
  <1>2. UNCHANGED vars => Quiet
    BY <1>1 DEF vars, providerVars
  <1>3. ASSUME NEW p \in PayoutIds,
               \/ \E matched \in BOOLEAN : CreatePayout(p, matched)
               \/ \E decision \in {"approved", "rejected"} : DecideApproval(p, decision)
               \/ EnqueuePayoutDispatch(p) \/ RemoveFinishedJob(p)
               \/ RecoverStalledJob(p) \/ LoseJobLock(p)
               \/ \E w \in Workers : StartJob(w, p)
        PROVE  Quiet
    BY <1>1, <1>3 DEF CreatePayout, DecideApproval, EnqueuePayoutDispatch, RemoveFinishedJob,
                RecoverStalledJob, LoseJobLock, StartJob, providerVars
  <1>4. ASSUME NEW w \in Workers,
               \/ FindDispatch(w) \/ MarkDispatchSucceeded(w) \/ RecordDispatchFailure(w)
               \/ MirrorDeadLetter(w) \/ CompleteJob(w) \/ FailAttempt(w) \/ SqlFails(w)
               \/ CrashWorker(w)
        PROVE  Quiet
    BY <1>1, <1>4 DEF FindDispatch, MarkDispatchSucceeded, RecordDispatchFailure,
                MirrorDeadLetter, CompleteJob, FailAttempt, SettleJob, SqlFails,
                FindDispatchFails, MarkDispatchSucceededFails, RecordDispatchFailureFails,
                CrashWorker, providerVars
  <1>5. ASSUME NEW w \in Workers, SubmitToProvider(w) \/ SubmitToProviderFails(w)
        PROVE  ProviderEffect
    <2>1. PICK p \in PayoutIds : p = runs[w].payout
      BY <1>5, RunningPayout DEF SubmitToProvider, SubmitToProviderFails
    <2>2. SameStart
      BY <1>1, <1>5 DEF SubmitToProvider, SubmitToProviderFails
    <2>3. \/ UNCHANGED <<accepted, issued, callbacks>>
          \/ \E pp \in ProviderPayouts : ProviderCreatePayout(p, pp)
      BY <1>5, <2>1 DEF SubmitToProvider, SubmitToProviderFails, providerVars
    <2>4. ASSUME NEW pp \in ProviderPayouts, ProviderCreatePayout(p, pp) PROVE ProviderEffect
      <3>1. UNCHANGED <<accepted, issued, callbacks>> \/ MakesPayout(p, pp)
        BY <2>2, <2>4 DEF ProviderCreatePayout, MakesPayout, providerVars
      <3> QED BY <2>2, <3>1 DEF ProviderEffect
    <2> QED BY <2>2, <2>3, <2>4 DEF ProviderEffect
  <1>6. ASSUME RestartProvider PROVE ForgetsPayouts
    <2>1. Fault("restart") /\ budget["restart"] \in Nat /\ budget \in [FaultKinds -> Nat] /\ "restart" \in FaultKinds
      BY <1>6 DEF RestartProvider, IInv, TypeOK, FaultKinds
    <2>2. budget["restart"] > 0 /\ budget'["restart"] = budget["restart"] - 1
      BY <2>1 DEF Fault
    <2> QED BY <1>6, <2>2 DEF RestartProvider, ForgetsPayouts
  <1>7. ASSUME NEW pp \in ProviderPayouts,
               ReadForCallback(pp) \/ ApplyCallback(pp) \/ LoseCallback(pp)
        PROVE  CallbackMoves(pp)
    <2>1. SameStart
      BY <1>1, <1>7 DEF ReadForCallback, ApplyCallback, LoseCallback
    <2>2. \A x \in ProviderPayouts : x # pp => callbacks'[x] = callbacks[x]
      BY <1>7 DEF ReadForCallback, ApplyCallback, LoseCallback, IInv, TypeOK
    <2> QED BY <1>7, <2>1, <2>2 DEF ReadForCallback, ApplyCallback, LoseCallback, CallbackMoves,
                                    providerVars
  <1> QED BY <1>2, <1>3, <1>4, <1>5, <1>6, <1>7 DEF ProviderEffect, Next, Attempt

\* What a callback has settled stays settled by it.
LEMMA SettledStays ==
  ASSUME IInv, ProviderEffect, NEW pp \in ProviderPayouts, NEW p \in PayoutIds, SettledBy(pp, p)
  PROVE  SettledBy(pp, p)' /\ callbacks'[pp].seen = callbacks[pp].seen
  <1>1. issued[pp] = p /\ callbacks[pp].state = "accepted" /\ p # None
    BY ConstantsAssumption DEF SettledBy
  <1>2. CASE UNCHANGED <<accepted, issued, callbacks>>
    BY <1>1, <1>2 DEF SettledBy
  <1>3. ASSUME NEW q \in PayoutIds, NEW x \in ProviderPayouts, MakesPayout(q, x)
        PROVE  issued'[pp] = p /\ callbacks'[pp] = callbacks[pp]
    <2>1. x # pp
      BY <1>1, <1>3 DEF MakesPayout
    <2> QED BY <1>1, <1>3, <2>1 DEF MakesPayout, IInv, TypeOK
  <1>4. ASSUME NEW x \in ProviderPayouts, CallbackMoves(x)
        PROVE  issued'[pp] = p /\ callbacks'[pp] = callbacks[pp]
    BY <1>1, <1>4 DEF CallbackMoves
  <1>5. CASE ForgetsPayouts
    BY <1>1, <1>5 DEF ForgetsPayouts, SettledBy
  <1> QED BY <1>1, <1>2, <1>3, <1>4, <1>5 DEF ProviderEffect, SettledBy

-----------------------------------------------------------------------------
(* The record *)

\* One more row announces what it announces, and takes nothing back.
LEMMA CountAppend ==
  ASSUME NEW h \in Seq(HistoryRow), NEW row \in HistoryRow, NEW t
  PROVE  Count(t, Append(h, row)) = Count(t, h) + IF t \in Announced(row) THEN 1 ELSE 0
  <1> DEFINE n == Len(h)  h2 == Append(h, row)
             S == {i \in DOMAIN h : t \in Announced(h[i])}
             S2 == {i \in DOMAIN h2 : t \in Announced(h2[i])}
  <1>1. /\ n \in Nat /\ DOMAIN h = 1 .. n /\ DOMAIN h2 = 1 .. (n + 1)
        /\ h2[n + 1] = row /\ \A i \in 1 .. n : h2[i] = h[i]
    OBVIOUS
  <1>2. IsFiniteSet(S)
    <2>1. IsFiniteSet(1 .. n)
      BY <1>1, FS_Interval
    <2>2. S \in SUBSET (1 .. n)
      BY <1>1
    <2> QED BY <2>1, <2>2, FS_Subset
  <1>3. n + 1 \notin S
    BY <1>1
  <1>4. S2 = IF t \in Announced(row) THEN S \cup {n + 1} ELSE S
    <2>1. \A i \in 1 .. (n + 1) : i \in 1 .. n \/ i = n + 1
      BY <1>1
    <2>2. \A i \in 1 .. n : i \in S2 <=> i \in S
      BY <1>1
    <2>3. n + 1 \in S2 <=> t \in Announced(row)
      BY <1>1
    <2>4. S2 \subseteq 1 .. (n + 1) /\ S \subseteq 1 .. n /\ n + 1 \notin 1 .. n
      BY <1>1
    <2> HIDE DEF S, S2, n
    <2>5. ASSUME NEW i
          PROVE  i \in S2 <=> i \in S \/ (i = n + 1 /\ t \in Announced(row))
      <3>1. CASE i \in 1 .. n
        BY <2>2, <2>4, <3>1
      <3>2. CASE i = n + 1
        BY <2>3, <2>4, <3>2
      <3>3. CASE i \notin 1 .. n /\ i # n + 1
        BY <2>1, <2>4, <3>3
      <3> QED BY <3>1, <3>2, <3>3
    <2> QED BY <2>5
  <1>5. Count(t, h2) = Cardinality(S2) /\ Count(t, h) = Cardinality(S)
    BY DEF Count
  <1>6. Cardinality(S) \in Nat /\ Cardinality(S \cup {n + 1}) = Cardinality(S) + 1
    BY <1>2, <1>3, FS_AddElement, FS_CardinalityType
  <1> HIDE DEF S, S2, h2, n
  <1> QED BY <1>4, <1>5, <1>6 DEF h2

\* A recorded move keeps the record.
LEMMA RecordedKeeps ==
  ASSUME IInv, HInv, NEW p \in PayoutIds, NEW from \in Statuses, NEW to \in Statuses \ {"none"},
         Recorded(p, from, to)
  PROVE  /\ \A q \in PayoutIds : RecordOK(q)'
         /\ history'[p] = Append(history[p], [from |-> from, to |-> to])
         /\ \A q \in PayoutIds : q # p => history'[q] = history[q]
  <1> DEFINE row == [from |-> from, to |-> to]
  <1>1. row \in HistoryRow /\ row.to = to
    BY DEF HistoryRow
  <1>2. /\ history \in [PayoutIds -> Seq(HistoryRow)]
        /\ outbox \in [PayoutIds -> [EventTypes -> Nat]]
    BY DEF IInv, TypeOK
  <1>3. /\ history' = [history EXCEPT ![p] = Append(history[p], row)]
        /\ outbox' = [outbox EXCEPT ![p] =
             [t \in EventTypes |-> IF t \in Announced(row) THEN outbox[p][t] + 1 ELSE outbox[p][t]]]
        /\ payouts'[p].status = to /\ \A q \in PayoutIds : q # p => payouts'[q] = payouts[q]
    BY <1>2 DEF Recorded
  <1> HIDE DEF row
  <1>4. /\ history'[p] = Append(history[p], row)
        /\ \A q \in PayoutIds : q # p => history'[q] = history[q] /\ outbox'[q] = outbox[q]
        /\ \A t \in EventTypes : outbox'[p][t] = outbox[p][t] + IF t \in Announced(row) THEN 1 ELSE 0
    BY <1>2, <1>3
  <1>5. RecordOK(p)'
    <2>1. history[p] \in Seq(HistoryRow) /\ RecordOK(p)
      BY <1>2 DEF HInv
    <2>2. history'[p] # <<>> /\ history'[p][Len(history'[p])] = row
      BY <1>1, <1>4, <2>1
    <2>3. ASSUME NEW t \in EventTypes PROVE outbox'[p][t] = Count(t, history'[p])
      BY <1>1, <1>4, <2>1, CountAppend DEF RecordOK
    <2> QED BY <1>1, <1>3, <2>2, <2>3 DEF RecordOK
  <1>6. ASSUME NEW q \in PayoutIds, q # p PROVE RecordOK(q)'
    BY <1>3, <1>4, <1>6 DEF HInv, RecordOK
  <1> QED BY <1>4, <1>5, <1>6 DEF row

LEMMA VerdictMoves == \A p : Verdict(p) \in Statuses \ {"none"}
  BY DEF Verdict, Statuses

LEMMA MovesTyped ==
  ASSUME IInv, NEW p \in PayoutIds, NEW pp \in ProviderPayouts
  PROVE  payouts[p].status \in Statuses /\ callbacks[pp].seen \in Statuses
  BY DEF IInv, TypeOK, PayoutRow, Callback

LEMMA RecordKept == IInv /\ HInv /\ RowEffect => \A p \in PayoutIds : RecordOK(p)'
  <1> SUFFICES ASSUME IInv, HInv, RowEffect PROVE \A p \in PayoutIds : RecordOK(p)'
    OBVIOUS
  <1>1. CASE UNCHANGED <<payouts, history, outbox>>
    BY <1>1 DEF HInv, RecordOK
  <1>2. ASSUME NEW p \in PayoutIds, Unrecorded(p) PROVE \A q \in PayoutIds : RecordOK(q)'
    <2> SUFFICES ASSUME NEW q \in PayoutIds PROVE RecordOK(q)'
      OBVIOUS
    <2>1. payouts'[q].status = payouts[q].status /\ UNCHANGED <<history, outbox>>
      BY <1>2 DEF Unrecorded
    <2> QED BY <2>1 DEF HInv, RecordOK
  <1>3. ASSUME NEW p \in PayoutIds, NEW to \in Statuses, OwnMove(p, to)
        PROVE  \A q \in PayoutIds : RecordOK(q)'
    BY <1>3, MovesTyped, RecordedKeeps, StatusType DEF OwnMove, IInv
  <1>4. ASSUME NEW p \in PayoutIds, NEW pp \in ProviderPayouts, CallbackMove(p, pp)
        PROVE  \A q \in PayoutIds : RecordOK(q)'
    BY <1>4, MovesTyped, VerdictMoves, RecordedKeeps DEF CallbackMove
  <1> QED BY <1>1, <1>2, <1>3, <1>4 DEF RowEffect

-----------------------------------------------------------------------------
(* The chain *)

\* A row that follows its predecessor goes on doing so, whatever is appended.
LEMMA LinksStay ==
  ASSUME IInv, HInv, ProviderEffect, NEW p \in PayoutIds, NEW i \in 2 .. Len(history[p]),
         history'[p][i] = history[p][i], history'[p][i - 1] = history[p][i - 1]
  PROVE  LinkOK(p, i)'
  <1>1. LinkOK(p, i)
    BY DEF HInv, ChainOK
  <1>2. ASSUME NEW pp \in ProviderPayouts, SettledBy(pp, p)
        PROVE  SettledBy(pp, p)' /\ callbacks'[pp].seen = callbacks[pp].seen
    BY <1>2, SettledStays
  <1> QED BY <1>1, <1>2 DEF LinkOK

LEMMA ChainKept ==
  ASSUME IInv, HInv, RowEffect, ProviderEffect, NEW p \in PayoutIds
  PROVE  ChainOK(p)'
  <1>0. history[p] \in Seq(HistoryRow)
    BY DEF IInv, TypeOK
  <1>1. PICK n \in Nat : n = Len(history[p]) /\ history[p] \in Seq(HistoryRow)
    BY <1>0
  <1>2. ASSUME history'[p] = history[p] PROVE ChainOK(p)'
    BY <1>2, LinksStay DEF ChainOK
  <1>3. ASSUME NEW from \in Statuses, NEW to \in Statuses \ {"none"}, Recorded(p, from, to),
               n # 0 => LinkOK(p, n + 1)'
        PROVE  ChainOK(p)'
    <2>1. history'[p] = Append(history[p], [from |-> from, to |-> to])
      BY <1>3, RecordedKeeps
    <2>2. Len(history'[p]) = n + 1 /\ \A i \in 1 .. n : history'[p][i] = history[p][i]
      BY <1>1, <2>1
    <2>3. ASSUME NEW i \in 2 .. n PROVE LinkOK(p, i)'
      <3>1. i \in 1 .. n /\ i - 1 \in 1 .. n
        OBVIOUS
      <3> QED BY <1>1, <2>2, <3>1, LinksStay
    <2>4. ASSUME NEW i \in 2 .. (n + 1) PROVE LinkOK(p, i)'
      <3>1. i \in 2 .. n \/ (i = n + 1 /\ n # 0)
        BY <1>1
      <3> QED BY <1>3, <2>3, <3>1
    <2> QED BY <2>2, <2>4 DEF ChainOK
  <1>4. CASE OwnMove(p, payouts'[p].status)
    <2>1. PICK to \in Statuses \ {"none"} : OwnMove(p, to)
      BY <1>4 DEF OwnMove
    <2>2. Recorded(p, payouts[p].status, to) /\ payouts[p].status \in Statuses
      BY <2>1, StatusType DEF OwnMove, IInv
    <2>3. history'[p] = Append(history[p], [from |-> payouts[p].status, to |-> to])
      BY <2>2, RecordedKeeps
    <2>4. RecordOK(p)
      BY DEF HInv
    <2>5. ASSUME n # 0 PROVE LinkOK(p, n + 1)'
      <3>1. history[p] # <<>> /\ payouts[p].status = history[p][n].to
        BY <1>1, <2>4, <2>5 DEF RecordOK
      <3>2. /\ history'[p][n + 1].from = payouts[p].status
            /\ history'[p][n + 1 - 1] = history[p][n]
        BY <1>1, <2>3, <2>5
      <3> QED BY <3>1, <3>2 DEF LinkOK
    <2> QED BY <1>3, <2>2, <2>5
  <1>5. ASSUME NEW pp \in ProviderPayouts, CallbackMove(p, pp) PROVE ChainOK(p)'
    <2>1. PICK from \in Statuses, to \in Statuses \ {"none"} :
            from = callbacks[pp].seen /\ to = Verdict(p)
      BY MovesTyped, VerdictMoves
    <2>2. Recorded(p, from, to)
      BY <1>5, <2>1 DEF CallbackMove
    <2>3. history'[p] = Append(history[p], [from |-> from, to |-> to])
      BY <2>2, RecordedKeeps
    <2>4. history'[p][n + 1].from = from /\ history'[p][n + 1].to = to
      BY <1>1, <2>3
    <2>5. callbacks'[pp].state = "accepted" /\ callbacks'[pp].seen = from
      BY <1>5, <2>1 DEF CallbackMove, IInv, TypeOK, Callback
    <2>6. issued'[pp] = p
      <3>1. p # None /\ issued[pp] = p
        BY <1>5, ConstantsAssumption DEF CallbackMove
      <3>2. \A x \in ProviderPayouts : issued[x] # None => issued'[x] = issued[x]
        BY DEF ProviderEffect, MakesPayout, CallbackMoves, ForgetsPayouts, IInv, TypeOK
      <3> QED BY <3>1, <3>2
    <2>7. LinkOK(p, n + 1)'
      BY <2>1, <2>4, <2>5, <2>6 DEF LinkOK, SettledBy
    <2> QED BY <1>3, <2>2, <2>7
  <1>6. ASSUME NEW q \in PayoutIds, q # p,
               \/ \E to \in Statuses : OwnMove(q, to)
               \/ \E pp \in ProviderPayouts : CallbackMove(q, pp)
        PROVE  history'[p] = history[p]
    BY <1>6 DEF OwnMove, CallbackMove, Recorded, IInv, TypeOK
  <1>7. ASSUME NEW to \in Statuses, OwnMove(p, to) PROVE OwnMove(p, payouts'[p].status)
    BY <1>7 DEF OwnMove, Recorded
  <1>8. UNCHANGED history => history'[p] = history[p]
    OBVIOUS
  <1> QED BY <1>2, <1>4, <1>5, <1>6, <1>7, <1>8 DEF RowEffect, Unrecorded

-----------------------------------------------------------------------------
(* The cause of a final status *)

LEMMA CauseKept ==
  ASSUME IInv, HInv, RowEffect, ProviderEffect, NEW p \in PayoutIds
  PROVE  CauseOK(p)'
  <1> DEFINE settled == \E pp \in ProviderPayouts : SettledBy(pp, p)
  <1>1. settled => settled'
    BY SettledStays
  <1>2. CauseOK(p)
    BY DEF HInv
  <1>3. ASSUME payouts'[p] = payouts[p] PROVE CauseOK(p)'
    BY <1>1, <1>2, <1>3 DEF CauseOK
  <1>4. ASSUME payouts'[p].status \notin {"paid", "failed"} PROVE CauseOK(p)'
    BY <1>4 DEF CauseOK
  <1>5. ASSUME NEW to \in Statuses, OwnMove(p, to) PROVE CauseOK(p)'
    <2>1. payouts'[p].status = to /\ to # "paid"
      BY <1>5 DEF OwnMove, Recorded
    <2> QED BY <1>5, <2>1 DEF CauseOK, OwnMove
  <1>6. ASSUME NEW pp \in ProviderPayouts, CallbackMove(p, pp) PROVE CauseOK(p)'
    <2>1. payouts'[p].status = Verdict(p)
      BY <1>6 DEF CallbackMove, Recorded
    <2>2. callbacks'[pp].state = "accepted"
      BY <1>6 DEF CallbackMove, IInv, TypeOK, Callback
    <2>3. issued'[pp] = p
      <3>1. p # None /\ issued[pp] = p
        BY <1>6, ConstantsAssumption DEF CallbackMove
      <3>2. \A x \in ProviderPayouts : issued[x] # None => issued'[x] = issued[x]
        BY DEF ProviderEffect, MakesPayout, CallbackMoves, ForgetsPayouts, IInv, TypeOK
      <3> QED BY <3>1, <3>2
    <2>4. settled'
      BY <2>2, <2>3 DEF SettledBy
    <2> HIDE DEF settled
    <2>5. CASE p \in Declined
      BY <2>1, <2>4, <2>5 DEF CauseOK, Verdict, settled
    <2>6. CASE p \notin Declined
      BY <2>1, <2>4, <2>6 DEF CauseOK, Verdict, settled
    <2> QED BY <2>5, <2>6
  <1>7. ASSUME NEW q \in PayoutIds, q # p,
               \/ Unrecorded(q)
               \/ \E to \in Statuses : OwnMove(q, to)
               \/ \E pp \in ProviderPayouts : CallbackMove(q, pp)
        PROVE  payouts'[p] = payouts[p]
    BY <1>7 DEF Unrecorded, OwnMove, CallbackMove, Recorded
  <1>8. Unrecorded(p) => payouts'[p].status \notin {"paid", "failed"}
    BY DEF Unrecorded
  <1>9. UNCHANGED payouts => payouts'[p] = payouts[p]
    OBVIOUS
  <1> QED BY <1>3, <1>4, <1>5, <1>6, <1>7, <1>8, <1>9 DEF RowEffect

-----------------------------------------------------------------------------
(* Provider payouts per start of the provider *)

LEMMA IssuedKept ==
  ASSUME IInv, HInv, ProviderEffect, NEW p \in PayoutIds
  PROVE  IssuedOK(p)' /\ budget'["restart"] <= FaultBudget["restart"]
  <1> DEFINE S == ProviderPayoutsOf(p)
  <1>1. IsFiniteSet(S) /\ Cardinality(S) \in Nat
        /\ Cardinality(S) <= Restarts + IF accepted[p] = None THEN 0 ELSE 1
    BY FS_CardinalityType DEF HInv, IssuedOK
  <1>2. budget["restart"] \in Nat /\ FaultBudget["restart"] \in Nat /\ p # None
        /\ budget["restart"] <= FaultBudget["restart"]
    BY ConstantsAssumption DEF IInv, TypeOK, FaultKinds, HInv
  <1>3. CASE UNCHANGED <<accepted, issued>> /\ SameStart
    BY <1>1, <1>2, <1>3 DEF IssuedOK, ProviderPayoutsOf, Restarts, SameStart
  <1>4. ASSUME NEW q \in PayoutIds, NEW pp \in ProviderPayouts, MakesPayout(q, pp)
        PROVE  IssuedOK(p)' /\ SameStart
    <2>1. Restarts' = Restarts /\ SameStart
      BY <1>4 DEF MakesPayout, SameStart, Restarts
    <2>2. CASE q # p
      <3>1. ProviderPayoutsOf(p)' = S
        BY <1>2, <1>4, <2>2 DEF MakesPayout, ProviderPayoutsOf, IInv, TypeOK
      <3>2. accepted'[p] = accepted[p]
        BY <1>4, <2>2 DEF MakesPayout, IInv, TypeOK
      <3> QED BY <1>1, <2>1, <3>1, <3>2 DEF IssuedOK
    <2>3. CASE q = p
      <3>1. ProviderPayoutsOf(p)' = S \cup {pp} /\ pp \notin S
        BY <1>2, <1>4, <2>3 DEF MakesPayout, ProviderPayoutsOf, IInv, TypeOK
      <3>2. accepted'[p] # None /\ accepted[p] = None
        BY <1>4, <2>3, ConstantsAssumption DEF MakesPayout, IInv, TypeOK
      <3> HIDE DEF S
      <3>3. IsFiniteSet(S \cup {pp}) /\ Cardinality(S \cup {pp}) = Cardinality(S) + 1
        BY <1>1, <3>1, FS_AddElement
      <3>4. Restarts \in Int
        BY <1>2 DEF Restarts
      <3>5. Cardinality(S \cup {pp}) <= Restarts + 1
        BY <1>1, <3>2, <3>3, <3>4
      <3> QED BY <2>1, <3>1, <3>2, <3>3, <3>5 DEF IssuedOK
    <2> QED BY <2>1, <2>2, <2>3
  <1>5. CASE ForgetsPayouts
    <2>1. ProviderPayoutsOf(p)' = S /\ accepted'[p] = None
      BY <1>5 DEF ForgetsPayouts, ProviderPayoutsOf
    <2>2. Restarts' = Restarts + 1 /\ Restarts \in Int /\ budget'["restart"] <= FaultBudget["restart"]
      BY <1>2, <1>5 DEF ForgetsPayouts, Restarts
    <2> HIDE DEF S
    <2>3. Cardinality(S) <= Restarts + 1
      BY <1>1, <2>2
    <2> QED BY <1>1, <2>1, <2>2, <2>3 DEF IssuedOK
  <1> QED BY <1>2, <1>3, <1>4, <1>5 DEF ProviderEffect, CallbackMoves, SameStart

-----------------------------------------------------------------------------
(* The theorems *)

LEMMA InitHInv == Init => HInv
  <1> SUFFICES ASSUME Init PROVE HInv
    OBVIOUS
  <1>1. budget["restart"] <= FaultBudget["restart"]
    BY ConstantsAssumption DEF Init, FaultKinds
  <1>2. ASSUME NEW p \in PayoutIds PROVE RecordOK(p)
    <2>1. \A t \in EventTypes : Count(t, <<>>) = 0
      BY FS_EmptySet DEF Count
    <2> QED BY <2>1 DEF Init, RecordOK
  <1>3. ASSUME NEW p \in PayoutIds PROVE CauseOK(p) /\ ChainOK(p)
    BY DEF Init, CauseOK, ChainOK
  <1>4. ASSUME NEW p \in PayoutIds PROVE IssuedOK(p)
    <2>1. ProviderPayoutsOf(p) = {} /\ Restarts = 0 /\ accepted[p] = None
      BY ConstantsAssumption DEF Init, ProviderPayoutsOf, Restarts, FaultKinds
    <2>2. IsFiniteSet({}) /\ Cardinality({}) = 0
      BY FS_EmptySet
    <2> QED BY <2>1, <2>2 DEF IssuedOK
  <1> QED BY <1>1, <1>2, <1>3, <1>4 DEF HInv

LEMMA NextHInv == IInv /\ HInv /\ [Next]_vars => HInv'
  <1> SUFFICES ASSUME IInv, HInv, [Next]_vars PROVE HInv'
    OBVIOUS
  <1>1. RowEffect /\ ProviderEffect
    BY RowEffects, ProviderEffects
  <1>2. ASSUME NEW p \in PayoutIds
        PROVE  RecordOK(p)' /\ CauseOK(p)' /\ ChainOK(p)' /\ IssuedOK(p)'
    BY <1>1, RecordKept, CauseKept, ChainKept, IssuedKept
  <1>3. budget'["restart"] <= FaultBudget["restart"]
    <2>1. /\ budget["restart"] \in Nat /\ FaultBudget["restart"] \in Nat
          /\ budget["restart"] <= FaultBudget["restart"]
      BY ConstantsAssumption DEF IInv, TypeOK, FaultKinds, HInv
    <2> QED BY <1>1, <2>1 DEF ProviderEffect, MakesPayout, CallbackMoves, ForgetsPayouts, SameStart
  <1> QED BY <1>2, <1>3 DEF HInv

\* What is on record about a payout, in every reachable state.
THEOREM HistoryInvariant == Spec => []HInv
  <1> QED BY InitHInv, NextHInv, InductiveInvariant, PTL DEF Spec

\* Status, history and outbox agree, however late the guarded updates of the
\* worker and the unguarded one of the callback come.
THEOREM EveryTransitionOnRecordHolds == Spec => []EveryTransitionOnRecord
  <1>1. HInv => EveryTransitionOnRecord
    BY DEF HInv, RecordOK, Count, EveryTransitionOnRecord
  <1> QED BY <1>1, HistoryInvariant, PTL

\* A payment has an accepted callback, and a failure an accepted callback or
\* the last attempt of the job.
THEOREM TerminalHasCauseHolds == Spec => []TerminalHasCause
  <1>1. HInv => TerminalHasCause
    BY DEF HInv, CauseOK, SettledBy, TerminalHasCause
  <1> QED BY <1>1, HistoryInvariant, PTL

\* Any number of submissions makes one provider payout for each start of the
\* provider's process.
THEOREM OneProviderPayoutPerStartHolds == Spec => []OneProviderPayoutPerStart
  <1>1. ASSUME IInv, HInv, NEW p \in PayoutIds PROVE Cardinality(ProviderPayoutsOf(p)) <= 1 + Restarts
    <2>1. Restarts \in Int
      BY <1>1, ConstantsAssumption DEF IInv, TypeOK, FaultKinds, Restarts
    <2>2. Cardinality(ProviderPayoutsOf(p)) \in Nat
      BY <1>1, FS_CardinalityType DEF HInv, IssuedOK
    <2> QED BY <1>1, <2>1, <2>2 DEF HInv, IssuedOK
  <1>2. IInv /\ HInv => OneProviderPayoutPerStart
    BY <1>1 DEF OneProviderPayoutPerStart
  <1> QED BY <1>2, HistoryInvariant, InductiveInvariant, PTL

\* Only a callback writes a history row that does not start where the row
\* before it ended.
THEOREM OnlyCallbacksBreakTheChainHolds == Spec => []OnlyCallbacksBreakTheChain
  <1>1. HInv => OnlyCallbacksBreakTheChain
    BY DEF HInv, ChainOK, LinkOK, SettledBy, ProviderPayoutsOf, OnlyCallbacksBreakTheChain
  <1> QED BY <1>1, HistoryInvariant, PTL

=============================================================================
