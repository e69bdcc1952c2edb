------------------------ MODULE WebhookDeliveryProofs ------------------------
(***************************************************************************)
(* Proofs about WebhookDelivery, for any number of deliveries, schedulers, *)
(* slots, job ids and faults.  IInv is inductive.  Its three arguments:    *)
(* an attempt past its post knows that the merchant took the event         *)
(* (SlotOK, RowOK); as long as no statement failed and no cycle died, an   *)
(* open delivery that is reserved has somebody behind it (ReservedOK,      *)
(* EndingOK); every post that happened or may still happen is paid for by  *)
(* a failure on record, a replay or a fault (Paid).                        *)
(***************************************************************************)
EXTENDS WebhookDelivery, FiniteSetTheorems, TLAPS

(* The inductive invariant *)

\* A job that was added belongs to a delivery, and may run again only while it
\* has attempts left.
JobOK(j) ==
  /\ jobs[j].state # "none" => jobs[j].delivery \in Deliveries
  /\ jobs[j].state = "none" => jobs[j].made = 0 /\ jobs[j].stalls = 0
  /\ jobs[j].state \in {"waiting", "active"} =>
       jobs[j].made < MaxAttempts /\ jobs[j].stalls <= MaxStalls
  /\ jobs[j].state = "active" => jobs[j].owner \in Slots

\* The job that a cycle has reserved: it is the cycle's own, and not yet added
\* before the call to BullMQ.
Reserving(s) == schedulers[s].step \in {"enqueue", "release"}

SchedulerOK(s) ==
  /\ Reserving(s) =>
       /\ schedulers[s].delivery \in Deliveries /\ schedulers[s].job \in JobIds
       /\ jobs[schedulers[s].job].delivery = schedulers[s].delivery
  /\ schedulers[s].step = "enqueue" => jobs[schedulers[s].job].state = "none"
  /\ \A r \in Schedulers : Reserving(s) /\ Reserving(r) /\ schedulers[r].job = schedulers[s].job => r = s

\* A slot at work has a job of some delivery; while it holds the lock, its
\* attempt is the one that BullMQ counts next.
HoldsLock(w) ==
  jobs[slots[w].job].state = "active" /\ jobs[slots[w].job].owner = w

SlotOK(w) ==
  slots[w].step # "idle" =>
    /\ slots[w].job \in JobIds
    /\ jobs[slots[w].job].state # "none"
    /\ slots[w].attempt >= 1
    /\ HoldsLock(w) => slots[w].attempt = jobs[slots[w].job].made + 1
    /\ slots[w].step = "succeed" => accepted[DeliveryOf(w)] > 0

RowOK(d) ==
  /\ rows[d].status \in {"none", "missing"} => rows[d].job = None
  /\ rows[d].job # None => jobs[rows[d].job].delivery = d
  /\ rows[d].status = "delivered" => accepted[d] > 0 /\ log[d].ok > 0

RequestOK(r) ==
  /\ requests[r].step # "none" => requests[r].delivery \in Deliveries
  /\ requests[r].step = "update" => rows[requests[r].delivery].status \notin {"none", "missing"}

BudgetOK == \A k \in FaultKinds : budget[k] <= FaultBudget[k]

\* What keeps a reserved delivery from being stranded as long as no statement
\* has failed and no process has died in a cycle: its job is alive, has stalled too
\* often, or is in the hands of a scheduler; and an attempt that ends the
\* job has settled the row, or the row was reserved anew.
Calm == budget["crash"] = FaultBudget["crash"] /\ budget["sql"] = FaultBudget["sql"]

Held(d, j) == rows[d].status \in Open /\ rows[d].job = j

Backed(j) ==
  \/ jobs[j].state \in {"waiting", "active"}
  \/ jobs[j].stalls > MaxStalls
  \/ \E s \in Schedulers : Reserving(s) /\ schedulers[s].job = j

ReservedOK(d) ==
  Calm /\ rows[d].status \in Open /\ rows[d].job # None => Backed(rows[d].job)

Ending(w) ==
  \/ slots[w].step = "complete"
  \/ slots[w].step \in {"mirror", "settle"} /\ slots[w].attempt >= MaxAttempts

EndingOK(w) == Calm /\ Ending(w) => ~Held(DeliveryOf(w), slots[w].job)

\* Who may still bring the merchant an event: a row that can be reserved, a
\* cycle with a reservation, a job that a slot can take, and a slot before its
\* post or about to give its job back to BullMQ.
Unreserved(d) == IF rows[d].job = None THEN 1 ELSE 0

Cycles(d) == {s \in Schedulers : Reserving(s) /\ schedulers[s].delivery = d}

Takable(j) ==
  \/ jobs[j].state = "waiting"
  \/ jobs[j].state = "active" /\ ~Running(jobs[j].owner, j)

Takables(d) == {j \in JobIds : jobs[j].delivery = d /\ Takable(j)}

Posting(w) == slots[w].step \in {"find", "post", "mirror", "settle"}

Posters(d) == {w \in Slots : Posting(w) /\ DeliveryOf(w) = d}

\* Posts that happened or may still happen are paid for.
Paid(d) ==
  accepted[d] + Unreserved(d)
    + Cardinality(Cycles(d)) + Cardinality(Takables(d)) + Cardinality(Posters(d))
  <= 1 + log[d].failed + Replays(d) + Spent("sql") + Spent("redis") + Spent("stall")

IInv ==
  /\ TypeOK /\ BudgetOK
  /\ \A j \in JobIds : JobOK(j)
  /\ \A s \in Schedulers : SchedulerOK(s)
  /\ \A w \in Slots : SlotOK(w) /\ EndingOK(w)
  /\ \A d \in Deliveries : RowOK(d) /\ ReservedOK(d) /\ Paid(d)
  /\ \A r \in Requests : RequestOK(r)

-----------------------------------------------------------------------------
(* Counting *)

Bit(b) == IF b THEN 1 ELSE 0

\* Whether x is in S makes the difference of one.
LEMMA CountOne ==
  ASSUME NEW S, IsFiniteSet(S), NEW x
  PROVE  /\ Cardinality(S) = Cardinality(S \ {x}) + Bit(x \in S)
         /\ Cardinality(S \ {x}) \in Nat
  <1>1. /\ IsFiniteSet(S \ {x})
        /\ Cardinality(S \ {x}) = IF x \in S THEN Cardinality(S) - 1 ELSE Cardinality(S)
    BY FS_RemoveElement
  <1>2. Cardinality(S) \in Nat /\ Cardinality(S \ {x}) \in Nat
    BY <1>1, FS_CardinalityType
  <1> QED BY <1>1, <1>2 DEF Bit

\* Two finite sets that differ in x at most.
LEMMA CountDifference ==
  ASSUME NEW S, IsFiniteSet(S), NEW T, IsFiniteSet(T), NEW x, T \ {x} = S \ {x}
  PROVE  /\ Cardinality(S) \in Nat /\ Cardinality(T) \in Nat
         /\ Cardinality(T) - Bit(x \in T) = Cardinality(S) - Bit(x \in S)
  <1>1. Cardinality(S) \in Nat /\ Cardinality(T) \in Nat
    BY FS_CardinalityType
  <1>2. Bit(x \in S) \in Nat /\ Bit(x \in T) \in Nat
    BY DEF Bit
  <1>3. /\ Cardinality(S) = Cardinality(S \ {x}) + Bit(x \in S)
        /\ Cardinality(T) = Cardinality(T \ {x}) + Bit(x \in T)
        /\ Cardinality(S \ {x}) \in Nat
    BY CountOne
  <1>4. Cardinality(T \ {x}) = Cardinality(S \ {x})
    BY Zenon
  <1> DEFINE b == Bit(x \in S)  c == Bit(x \in T)  n == Cardinality(S \ {x})
  <1>5. /\ b \in Nat /\ c \in Nat /\ n \in Nat
        /\ Cardinality(S) = n + b /\ Cardinality(T) = n + c
    BY <1>2, <1>3, <1>4
  <1> HIDE DEF b, c, n
  <1>6. Cardinality(T) - c = Cardinality(S) - b
    BY <1>5
  <1> QED BY <1>1, <1>6 DEF b, c

LEMMA CountedFinite ==
  ASSUME NEW d
  PROVE  /\ IsFiniteSet(Cycles(d)) /\ IsFiniteSet(Takables(d)) /\ IsFiniteSet(Posters(d))
         /\ IsFiniteSet(Cycles(d))' /\ IsFiniteSet(Takables(d))' /\ IsFiniteSet(Posters(d))'
  <1>1. IsFiniteSet(JobIds)
    BY WebhookAssumption, FS_Interval DEF JobIds
  <1>2. /\ Cycles(d) \in SUBSET Schedulers /\ Cycles(d)' \in SUBSET Schedulers
        /\ Takables(d) \in SUBSET JobIds /\ Takables(d)' \in SUBSET JobIds
        /\ Posters(d) \in SUBSET Slots /\ Posters(d)' \in SUBSET Slots
    BY DEF Cycles, Takables, Posters
  <1>3. \A S, T : IsFiniteSet(S) /\ T \in SUBSET S => IsFiniteSet(T)
    BY FS_Subset
  <1> QED BY <1>1, <1>2, <1>3, WebhookAssumption

\* What has been paid for.
Credit(d) ==
  1 + log[d].failed + Replays(d) + Spent("sql") + Spent("redis") + Spent("stall")

\* A step that changes the part of one cycle, one job and one slot at most.
LEMMA PaidKept ==
  ASSUME NEW d \in Deliveries, TypeOK, TypeOK', Paid(d), NEW s, NEW j, NEW w,
         Cycles(d)' \ {s} = Cycles(d) \ {s},
         Takables(d)' \ {j} = Takables(d) \ {j},
         Posters(d)' \ {w} = Posters(d) \ {w},
         Credit(d) \in Int, Credit(d)' \in Int,
         accepted'[d] + Unreserved(d)' + Bit(s \in Cycles(d)') + Bit(j \in Takables(d)')
           + Bit(w \in Posters(d)') + Credit(d)
         <= accepted[d] + Unreserved(d) + Bit(s \in Cycles(d)) + Bit(j \in Takables(d))
           + Bit(w \in Posters(d)) + Credit(d)'
  PROVE  Paid(d)'
  <1> DEFINE C == Cycles(d)  D == Cycles(d)'  J == Takables(d)  K == Takables(d)'
             P == Posters(d)  Q == Posters(d)'
  <1>1. /\ IsFiniteSet(C) /\ IsFiniteSet(D) /\ IsFiniteSet(J) /\ IsFiniteSet(K)
        /\ IsFiniteSet(P) /\ IsFiniteSet(Q)
    BY CountedFinite
  <1>2. accepted[d] \in Nat /\ accepted'[d] \in Nat
    BY DEF TypeOK
  <1>3. Unreserved(d) \in Nat /\ Unreserved(d)' \in Nat
    BY DEF Unreserved
  <1>4. /\ D \ {s} = C \ {s} /\ K \ {j} = J \ {j} /\ Q \ {w} = P \ {w}
    OBVIOUS
  <1>5. accepted[d] + Unreserved(d) + Cardinality(C) + Cardinality(J) + Cardinality(P) <= Credit(d)
    BY DEF Paid, Credit
  <1>6. accepted'[d] + Unreserved(d)' + Bit(s \in D) + Bit(j \in K) + Bit(w \in Q) + Credit(d)
          <= accepted[d] + Unreserved(d) + Bit(s \in C) + Bit(j \in J) + Bit(w \in P) + Credit(d)'
    OBVIOUS
  <1>7. /\ Bit(s \in C) \in Nat /\ Bit(j \in J) \in Nat /\ Bit(w \in P) \in Nat
        /\ Bit(s \in D) \in Nat /\ Bit(j \in K) \in Nat /\ Bit(w \in Q) \in Nat
    BY DEF Bit
  <1>8. Paid(d)' = (accepted'[d] + Unreserved(d)' + Cardinality(D) + Cardinality(K)
                      + Cardinality(Q) <= Credit(d)')
    BY DEF Paid, Credit
  <1> HIDE DEF C, D, J, K, P, Q
  <1>9. /\ Cardinality(C) \in Nat /\ Cardinality(D) \in Nat
        /\ Cardinality(D) - Bit(s \in D) = Cardinality(C) - Bit(s \in C)
    BY <1>1, <1>4, CountDifference
  <1>10. /\ Cardinality(J) \in Nat /\ Cardinality(K) \in Nat
         /\ Cardinality(K) - Bit(j \in K) = Cardinality(J) - Bit(j \in J)
    BY <1>1, <1>4, CountDifference
  <1>11. /\ Cardinality(P) \in Nat /\ Cardinality(Q) \in Nat
         /\ Cardinality(Q) - Bit(w \in Q) = Cardinality(P) - Bit(w \in P)
    BY <1>1, <1>4, CountDifference
  <1>12. accepted'[d] + Unreserved(d)' + Cardinality(D) + Cardinality(K) + Cardinality(Q)
           <= Credit(d)'
    BY <1>2, <1>3, <1>5, <1>6, <1>7, <1>9, <1>10, <1>11
  <1> QED BY <1>8, <1>12

ReplaysOf(d) == {r \in Requests : requests[r].step = "replayed" /\ requests[r].delivery = d}

LEMMA ReplaysCounted ==
  ASSUME NEW d
  PROVE  /\ IsFiniteSet(ReplaysOf(d)) /\ IsFiniteSet(ReplaysOf(d))'
         /\ Replays(d) = Cardinality(ReplaysOf(d)) /\ Replays(d)' = Cardinality(ReplaysOf(d))'
         /\ Replays(d) \in Nat /\ Replays(d)' \in Nat
  <1> DEFINE R == ReplaysOf(d)  S == ReplaysOf(d)'
  <1>1. R \in SUBSET Requests /\ S \in SUBSET Requests
    BY DEF ReplaysOf
  <1>2. Replays(d) = Cardinality(R) /\ Replays(d)' = Cardinality(S)
    BY DEF Replays, ReplaysOf
  <1> HIDE DEF R, S
  <1>3. IsFiniteSet(R) /\ IsFiniteSet(S)
    BY <1>1, WebhookAssumption, FS_Subset
  <1>4. Cardinality(R) \in Nat /\ Cardinality(S) \in Nat
    BY <1>3, FS_CardinalityType
  <1> QED BY <1>2, <1>3, <1>4 DEF R, S

LEMMA CreditType ==
  ASSUME NEW d \in Deliveries
  PROVE  /\ TypeOK => Credit(d) \in Int
         /\ TypeOK' => Credit(d)' \in Int
  <1>1. Replays(d) \in Nat /\ Replays(d)' \in Nat
    BY ReplaysCounted
  <1>2. /\ TypeOK => log[d].failed \in Nat
        /\ TypeOK' => log'[d].failed \in Nat
    BY DEF TypeOK
  <1>3. \A k \in FaultKinds : /\ TypeOK => Spent(k) \in Int
                              /\ TypeOK' => Spent(k)' \in Int
    BY WebhookAssumption DEF TypeOK, Spent
  <1>4. {"sql", "redis", "stall"} \subseteq FaultKinds
    BY DEF FaultKinds
  <1> QED BY <1>1, <1>2, <1>3, <1>4 DEF Credit

-----------------------------------------------------------------------------
(* The initial state *)

LEMMA InitIInv == Init => IInv
  <1> SUFFICES ASSUME Init PROVE IInv
    OBVIOUS
  <1>1. TypeOK /\ BudgetOK
    BY WebhookAssumption
    DEF Init, TypeOK, BudgetOK, Row, DeliveryStatuses, EndpointStatuses, Scheduler, NoCycle,
        SchedulerSteps, Job, JobStates, Slot, Free, SlotSteps, Request, RequestSteps
  <1>2. \A j \in JobIds : JobOK(j)
    BY DEF Init, JobOK
  <1>3. \A s \in Schedulers : SchedulerOK(s) /\ ~Reserving(s)
    BY DEF Init, SchedulerOK, Reserving, NoCycle
  <1>4. \A w \in Slots : SlotOK(w) /\ EndingOK(w) /\ ~Posting(w)
    BY DEF Init, SlotOK, EndingOK, Ending, Posting, Free
  <1>5. \A d \in Deliveries : RowOK(d) /\ ReservedOK(d)
    BY DEF Init, RowOK, ReservedOK
  <1>6. \A r \in Requests : RequestOK(r)
    BY DEF Init, RequestOK
  <1>7. ASSUME NEW d \in Deliveries PROVE Paid(d)
    <2>1. Cycles(d) = {} /\ Takables(d) = {} /\ Posters(d) = {} /\ ReplaysOf(d) = {}
      BY <1>3, <1>4 DEF Cycles, Takables, Takable, Posters, ReplaysOf, Init
    <2>2. /\ Cardinality(Cycles(d)) = 0 /\ Cardinality(Takables(d)) = 0
          /\ Cardinality(Posters(d)) = 0 /\ Replays(d) = 0
      BY <2>1, FS_EmptySet DEF Replays, ReplaysOf
    <2>3. accepted[d] = 0 /\ Unreserved(d) = 1 /\ log[d].failed = 0
      BY DEF Init, Unreserved
    <2>4. Spent("sql") = 0 /\ Spent("redis") = 0 /\ Spent("stall") = 0
      BY WebhookAssumption DEF Init, Spent, FaultKinds
    <2> QED BY <2>2, <2>3, <2>4 DEF Paid
  <1> QED BY <1>1, <1>2, <1>3, <1>4, <1>5, <1>6, <1>7 DEF IInv

-----------------------------------------------------------------------------
(* Steps that leave jobs and slots alone and touch no reservation *)

\* Budgets only shrink; what was spent is not taken back.
LEMMA BudgetKept ==
  ASSUME TypeOK, BudgetOK, budget' = budget \/ \E k \in FaultKinds : Fault(k)
  PROVE  /\ budget' \in [FaultKinds -> Nat] /\ BudgetOK'
         /\ \A k \in FaultKinds : Spent(k)' >= Spent(k) /\ Spent(k) \in Int /\ Spent(k)' \in Int
         /\ Calm' => Calm
  <1>1. \A k \in FaultKinds : /\ budget[k] \in Nat /\ budget'[k] \in Nat
                              /\ budget'[k] <= budget[k] /\ FaultBudget[k] \in Nat
                              /\ budget[k] <= FaultBudget[k]
    BY WebhookAssumption DEF TypeOK, BudgetOK, Fault
  <1>2. budget' \in [FaultKinds -> Nat]
    BY DEF TypeOK, Fault
  <1>3. \A k \in FaultKinds : Spent(k)' >= Spent(k) /\ Spent(k) \in Int /\ Spent(k)' \in Int
    BY <1>1 DEF Spent
  <1>4. BudgetOK'
    BY <1>1 DEF BudgetOK
  <1>5. {"crash", "sql"} \subseteq FaultKinds
    BY DEF FaultKinds
  <1>6. Calm' => Calm
    BY <1>1, <1>5 DEF Calm
  <1> QED BY <1>2, <1>3, <1>4, <1>6

LEMMA CreditKept ==
  ASSUME TypeOK, TypeOK', BudgetOK, NEW d \in Deliveries,
         budget' = budget \/ \E k \in FaultKinds : Fault(k),
         log'[d].failed >= log[d].failed, Replays(d)' >= Replays(d)
  PROVE  Credit(d) \in Int /\ Credit(d)' \in Int /\ Credit(d)' >= Credit(d)
  <1>1. /\ Spent("sql")' >= Spent("sql") /\ Spent("sql") \in Int /\ Spent("sql")' \in Int
        /\ Spent("redis")' >= Spent("redis") /\ Spent("redis") \in Int /\ Spent("redis")' \in Int
        /\ Spent("stall")' >= Spent("stall") /\ Spent("stall") \in Int /\ Spent("stall")' \in Int
    BY BudgetKept DEF FaultKinds
  <1>2. Replays(d) \in Nat /\ Replays(d)' \in Nat
    BY ReplaysCounted
  <1>3. log[d].failed \in Nat /\ log'[d].failed \in Nat
    BY DEF TypeOK
  <1> QED BY <1>1, <1>2, <1>3 DEF Credit

LEMMA TableStep ==
  ASSUME IInv, TypeOK', jobs' = jobs, slots' = slots, accepted' = accepted, log' = log,
         \A s \in Schedulers : Reserving(s)' = Reserving(s),
         \A s \in Schedulers : Reserving(s) => schedulers'[s] = schedulers[s],
         budget' = budget \/ \E k \in FaultKinds : Fault(k),
         \A d \in Deliveries :
           /\ RowOK(d)'
           /\ rows'[d].job # None => rows'[d].job = rows[d].job
           /\ rows'[d].job # None /\ rows'[d].status \in Open => rows[d].status \in Open
           /\ Replays(d)' >= Replays(d)
           /\ rows[d].job = None \/ rows'[d].job # None \/ Replays(d)' >= Replays(d) + 1,
         \A r \in Requests : RequestOK(r)'
  PROVE  IInv'
  <1> USE DEF IInv
  <1>1. BudgetOK' /\ (Calm' => Calm)
    BY BudgetKept
  <1>2. \A j \in JobIds : JobOK(j)'
    BY DEF JobOK
  <1>3. \A s \in Schedulers : SchedulerOK(s)'
    BY DEF SchedulerOK, Reserving
  <1>4. \A w \in Slots : SlotOK(w)'
    BY DEF SlotOK, HoldsLock, DeliveryOf
  <1>5. \A w \in Slots : DeliveryOf(w)' = DeliveryOf(w) /\ Posting(w)' = Posting(w)
    BY DEF DeliveryOf, Posting
  <1>6. ASSUME NEW w \in Slots PROVE EndingOK(w)'
    <2>1. CASE ~Ending(w)
      BY <2>1 DEF EndingOK, Ending
    <2>2. CASE Ending(w)
      <3>1. slots[w].job \in JobIds /\ slots[w].job # None
        BY <2>2, WebhookAssumption DEF SlotOK, Ending
      <3>2. DeliveryOf(w) \in Deliveries
        BY <2>2, <3>1 DEF SlotOK, JobOK, DeliveryOf, Ending
      <3>3. ~Held(DeliveryOf(w), slots[w].job) => ~Held(DeliveryOf(w), slots[w].job)'
        BY <3>1, <3>2, <1>5 DEF Held, Open
      <3> QED BY <1>1, <3>3, <2>2 DEF EndingOK
    <2> QED BY <2>1, <2>2
  <1>7. ASSUME NEW d \in Deliveries PROVE ReservedOK(d)'
    <2>1. \A j : Backed(j) => Backed(j)'
      BY DEF Backed, Reserving
    <2> QED BY <1>1, <2>1 DEF ReservedOK, Open
  <1>8. ASSUME NEW d \in Deliveries PROVE Paid(d)'
    <2>1. Cycles(d)' = Cycles(d)
      BY DEF Cycles
    <2>2. Takables(d)' = Takables(d)
      BY DEF Takables, Takable, Running
    <2>3. Posters(d)' = Posters(d)
      BY <1>5 DEF Posters
    <2>4. /\ Credit(d) \in Int /\ Credit(d)' \in Int
          /\ Unreserved(d)' + Credit(d) <= Unreserved(d) + Credit(d)'
      <3>1. /\ Spent("sql")' >= Spent("sql") /\ Spent("sql") \in Int /\ Spent("sql")' \in Int
            /\ Spent("redis")' >= Spent("redis") /\ Spent("redis") \in Int /\ Spent("redis")' \in Int
            /\ Spent("stall")' >= Spent("stall") /\ Spent("stall") \in Int /\ Spent("stall")' \in Int
        BY BudgetKept DEF FaultKinds
      <3>2. Replays(d) \in Nat /\ Replays(d)' \in Nat
        BY ReplaysCounted
      <3>3. log[d].failed \in Nat
        BY DEF TypeOK
      <3>4. Unreserved(d)' + Replays(d) <= Unreserved(d) + Replays(d)'
        BY <3>2 DEF Unreserved
      <3>5. Unreserved(d) \in Nat /\ Unreserved(d)' \in Nat
        BY DEF Unreserved
      <3> QED BY <3>1, <3>2, <3>3, <3>4, <3>5 DEF Credit
    <2>5. accepted[d] \in Nat
      BY DEF TypeOK
    <2>6. Unreserved(d) \in Nat /\ Unreserved(d)' \in Nat
      BY DEF Unreserved
    <2>7. \A x : Bit(x) \in Nat
      BY DEF Bit
    <2> DEFINE S == {}
    <2> QED BY <2>1, <2>2, <2>3, <2>4, <2>5, <2>6, <2>7, PaidKept
  <1> QED BY <1>1, <1>2, <1>3, <1>4, <1>6, <1>7, <1>8

LEMMA SameReplays ==
  ASSUME NEW d \in Deliveries, requests' = requests
  PROVE  Replays(d)' = Replays(d)
  BY DEF Replays

LEMMA AppendEventKeeps ==
  ASSUME IInv, NEW d \in Deliveries, AppendEvent(d)
  PROVE  IInv'
  <1> USE DEF IInv
  <1>1. TypeOK'
    BY DEF AppendEvent, TypeOK, Row, DeliveryStatuses
  <1>2. ASSUME NEW e \in Deliveries PROVE RowOK(e)' /\ rows'[e].job = rows[e].job
    BY DEF AppendEvent, TypeOK, RowOK, Row
  <1>3. \A e \in Deliveries : rows'[e].status \in Open => rows[e].status \in Open
    BY DEF AppendEvent, TypeOK, Open
  <1>4. \A r \in Requests : RequestOK(r)'
    BY DEF AppendEvent, RequestOK, TypeOK
  <1>5. \A s \in Schedulers : Reserving(s)' = Reserving(s)
    BY DEF AppendEvent, Reserving
  <1>6. UNCHANGED <<jobs, slots, accepted, log, schedulers, budget, requests>>
    BY DEF AppendEvent
  <1> QED BY <1>1, <1>2, <1>3, <1>4, <1>5, <1>6, SameReplays, ReplaysCounted, TableStep

LEMMA BackoffEndsKeeps ==
  ASSUME IInv, NEW d \in Deliveries, BackoffEnds(d)
  PROVE  IInv'
  <1> USE DEF IInv
  <1>1. TypeOK'
    BY DEF BackoffEnds, TypeOK, Row
  <1>2. ASSUME NEW e \in Deliveries
        PROVE  RowOK(e)' /\ rows'[e].job = rows[e].job /\ rows'[e].status = rows[e].status
    BY DEF BackoffEnds, TypeOK, RowOK, Row
  <1>3. \A r \in Requests : RequestOK(r)'
    BY <1>2 DEF BackoffEnds, RequestOK, TypeOK
  <1>4. \A s \in Schedulers : Reserving(s)' = Reserving(s)
    BY DEF BackoffEnds, Reserving
  <1>5. UNCHANGED <<jobs, slots, accepted, log, schedulers, budget, requests>>
    BY DEF BackoffEnds
  <1> QED BY <1>1, <1>2, <1>3, <1>4, <1>5, SameReplays, ReplaysCounted, TableStep

LEMMA EndpointKeeps ==
  ASSUME IInv, NEW e \in Endpoints,
         (\E status \in {"active", "disabled"} : UpdateEndpoint(e, status)) \/ DeleteEndpoint(e)
  PROVE  IInv'
  <1> USE DEF IInv
  <1>1. UNCHANGED <<rows, log, deadEvents, schedulers, jobs, deadLetters, slots, accepted, requests>>
        /\ Fault("endpoint") /\ endpoints' \in [Endpoints -> EndpointStatuses]
    BY DEF UpdateEndpoint, DeleteEndpoint, tables, TypeOK, EndpointStatuses
  <1>2. \E k \in FaultKinds : Fault(k)
    BY <1>1 DEF FaultKinds
  <1>3. TypeOK'
    BY <1>1, <1>2, BudgetKept DEF TypeOK
  <1>4. \A d \in Deliveries : RowOK(d)'
    BY <1>1 DEF RowOK
  <1>5. \A r \in Requests : RequestOK(r)'
    BY <1>1 DEF RequestOK
  <1>6. \A s \in Schedulers : Reserving(s)' = Reserving(s)
    BY <1>1 DEF Reserving
  <1> QED BY <1>1, <1>2, <1>3, <1>4, <1>5, <1>6, SameReplays, ReplaysCounted, TableStep

\* What the INSERT of missing rows does to a row.
LEMMA InsertMissingRows ==
  ASSUME IInv, InsertMissing, UNCHANGED <<jobs, accepted, log, requests>>
  PROVE  /\ rows' \in [Deliveries -> Row]
         /\ \A d \in Deliveries :
              /\ RowOK(d)'
              /\ rows'[d].job = rows[d].job
              /\ rows'[d].job # None => rows'[d].status = rows[d].status
         /\ \A r \in Requests : RequestOK(r)'
  <1> USE DEF IInv
  <1>1. rows' \in [Deliveries -> Row]
    BY WebhookAssumption DEF InsertMissing, TypeOK, Row, DeliveryStatuses
  <1>2. ASSUME NEW d \in Deliveries
        PROVE  /\ RowOK(d)' /\ rows'[d].job = rows[d].job
               /\ rows'[d].job # None => rows'[d].status = rows[d].status
               /\ rows[d].status \notin {"none", "missing"} => rows'[d] = rows[d]
    <2>1. CASE rows[d].status = "missing" /\ Active(d)
      <3>1. rows'[d] = [status |-> "pending", attempts |-> 0, due |-> TRUE, job |-> None]
        BY <2>1 DEF InsertMissing
      <3>2. rows[d].job = None
        BY <2>1 DEF RowOK
      <3> QED BY <3>1, <3>2, <2>1 DEF RowOK
    <2>2. CASE ~(rows[d].status = "missing" /\ Active(d))
      <3>1. rows'[d] = rows[d]
        BY <2>2 DEF InsertMissing
      <3> QED BY <3>1 DEF RowOK
    <2> QED BY <2>1, <2>2
  <1>3. \A r \in Requests : RequestOK(r)'
    BY <1>2 DEF RequestOK
  <1> QED BY <1>1, <1>2, <1>3

LEMMA CyclesTyped ==
  ASSUME NEW c \in Scheduler, NEW step \in SchedulerSteps
  PROVE  [c EXCEPT !.step = step] \in Scheduler
  BY DEF Scheduler

LEMMA ScheduleMissingKeeps ==
  ASSUME IInv, NEW s \in Schedulers, ScheduleMissing(s)
  PROVE  IInv'
  <1> USE DEF IInv
  <1>1. /\ InsertMissing
        /\ UNCHANGED <<jobs, slots, accepted, log, requests, budget, endpoints, deadEvents, deadLetters>>
    BY DEF ScheduleMissing
  <1>2. /\ schedulers' \in [Schedulers -> Scheduler]
        /\ \A r \in Schedulers : /\ Reserving(r)' = Reserving(r)
                                 /\ Reserving(r) => schedulers'[r] = schedulers[r]
    <2>1. /\ schedulers[s].step = "idle"
          /\ schedulers' = [schedulers EXCEPT ![s] = [@ EXCEPT !.step = "find"]]
          /\ schedulers \in [Schedulers -> Scheduler]
      BY DEF ScheduleMissing, TypeOK
    <2>2. [schedulers[s] EXCEPT !.step = "find"] \in Scheduler
      BY <2>1, CyclesTyped DEF SchedulerSteps
    <2>3. schedulers'[s].step = "find" /\ \A r \in Schedulers \ {s} : schedulers'[r] = schedulers[r]
      BY <2>1, <2>2 DEF Scheduler
    <2>4. schedulers' \in [Schedulers -> Scheduler]
      BY <2>1, <2>2
    <2> QED BY <2>1, <2>3, <2>4 DEF Reserving
  <1>3. TypeOK'
    BY <1>1, <1>2, InsertMissingRows DEF TypeOK
  <1> QED BY <1>1, <1>2, <1>3, InsertMissingRows, SameReplays, ReplaysCounted, TableStep

\* A scheduler that moves on without holding a reservation.
LEMMA CycleOnly ==
  ASSUME IInv, NEW s \in Schedulers, ~Reserving(s),
         schedulers' \in [Schedulers -> Scheduler],
         \A r \in Schedulers \ {s} : schedulers'[r] = schedulers[r],
         schedulers'[s].step \notin {"enqueue", "release"},
         budget' = budget \/ \E k \in FaultKinds : Fault(k),
         UNCHANGED <<tables, endpoints, jobs, deadLetters, slots, accepted, requests>>
  PROVE  IInv'
  <1> USE DEF IInv
  <1>1. \A r \in Schedulers : /\ Reserving(r)' = Reserving(r)
                              /\ Reserving(r) => schedulers'[r] = schedulers[r]
    BY DEF Reserving
  <1>2. TypeOK'
    BY BudgetKept DEF TypeOK, tables
  <1>3. \A d \in Deliveries : RowOK(d)'
    BY DEF RowOK, tables
  <1>4. \A r \in Requests : RequestOK(r)'
    BY DEF RequestOK, tables
  <1> QED BY <1>1, <1>2, <1>3, <1>4, SameReplays, ReplaysCounted, TableStep DEF tables

LEMMA FindUnqueuedKeeps ==
  ASSUME IInv, NEW s \in Schedulers, FindUnqueued(s)
  PROVE  IInv'
  <1> DEFINE found == {d \in Deliveries : Unqueued(d)}
  <1>1. /\ schedulers[s].step = "find"
        /\ schedulers' = [schedulers EXCEPT ![s].step = IF found = {} THEN "idle" ELSE "reserve",
                                            ![s].todo = found]
        /\ UNCHANGED <<tables, endpoints, jobs, deadLetters, slots, accepted, requests, budget>>
    BY DEF FindUnqueued
  <1>2. found \in SUBSET Deliveries
    OBVIOUS
  <1> HIDE DEF found
  <1>3. /\ schedulers' \in [Schedulers -> Scheduler]
        /\ \A r \in Schedulers \ {s} : schedulers'[r] = schedulers[r]
        /\ schedulers'[s].step \notin {"enqueue", "release"}
    <2> DEFINE c == [schedulers[s] EXCEPT !.step = IF found = {} THEN "idle" ELSE "reserve",
                                          !.todo = found]
    <2>1. schedulers' = [schedulers EXCEPT ![s] = c] /\ schedulers \in [Schedulers -> Scheduler]
      BY <1>1 DEF IInv, TypeOK
    <2>2. c \in Scheduler /\ c.step \notin {"enqueue", "release"}
      BY <2>1, <1>2 DEF Scheduler, SchedulerSteps
    <2> QED BY <2>1, <2>2
  <1> QED BY <1>1, <1>3, CycleOnly DEF Reserving

-----------------------------------------------------------------------------
(* Replays *)

LEMMA ReplaySelectKeeps ==
  ASSUME IInv, NEW r \in Requests, NEW d \in Deliveries, ReplaySelect(r, d)
  PROVE  IInv'
  <1> USE DEF IInv
  <1>1. /\ requests[r].step = "none" /\ rows[d].status \notin {"none", "missing"}
        /\ requests'[r].delivery = d /\ requests'[r].step \in {"update", "refused"}
        /\ \A q \in Requests \ {r} : requests'[q] = requests[q]
        /\ requests' \in [Requests -> Request]
        /\ UNCHANGED <<tables, endpoints, schedulers, jobs, deadLetters, slots, accepted, budget>>
    BY DEF ReplaySelect, TypeOK, Request, RequestSteps
  <1>2. TypeOK'
    BY <1>1 DEF TypeOK, tables
  <1>3. \A e \in Deliveries : RowOK(e)'
    BY <1>1 DEF RowOK, tables
  <1>4. \A q \in Requests : RequestOK(q)'
    BY <1>1 DEF RequestOK, tables
  <1>5. \A s \in Schedulers : Reserving(s)' = Reserving(s)
    BY <1>1 DEF Reserving
  <1>6. ASSUME NEW e \in Deliveries PROVE Replays(e)' = Replays(e)
    <2>1. ReplaysOf(e)' = ReplaysOf(e)
      BY <1>1 DEF ReplaysOf
    <2> QED BY <2>1, ReplaysCounted
  <1> QED BY <1>1, <1>2, <1>3, <1>4, <1>5, <1>6, ReplaysCounted, TableStep DEF tables

LEMMA ReplayFailsKeeps ==
  ASSUME IInv, NEW r \in Requests, ReplayFails(r)
  PROVE  IInv'
  <1> USE DEF IInv
  <1>1. /\ requests[r].step = "update" /\ Fault("sql")
        /\ requests'[r].step = "refused" /\ requests'[r].delivery = requests[r].delivery
        /\ \A q \in Requests \ {r} : requests'[q] = requests[q]
        /\ requests' \in [Requests -> Request]
        /\ UNCHANGED <<tables, endpoints, schedulers, jobs, deadLetters, slots, accepted>>
    BY DEF ReplayFails, TypeOK, Request, RequestSteps
  <1>2. \E k \in FaultKinds : Fault(k)
    BY <1>1 DEF FaultKinds
  <1>3. TypeOK'
    BY <1>1, <1>2, BudgetKept DEF TypeOK, tables
  <1>4. \A e \in Deliveries : RowOK(e)'
    BY <1>1 DEF RowOK, tables
  <1>5. \A q \in Requests : RequestOK(q)'
    BY <1>1 DEF RequestOK, tables
  <1>6. \A s \in Schedulers : Reserving(s)' = Reserving(s)
    BY <1>1 DEF Reserving
  <1>7. ASSUME NEW e \in Deliveries PROVE Replays(e)' = Replays(e)
    <2>1. ReplaysOf(e)' = ReplaysOf(e)
      BY <1>1 DEF ReplaysOf
    <2> QED BY <2>1, ReplaysCounted
  <1>8. UNCHANGED <<rows, log>>
    BY <1>1 DEF tables
  <1>9. \A e \in Deliveries : Replays(e)' >= Replays(e)
    BY <1>7, ReplaysCounted
  <1> QED BY <1>1, <1>2, <1>3, <1>4, <1>5, <1>6, <1>8, <1>9, TableStep

LEMMA ReplayUpdateKeeps ==
  ASSUME IInv, NEW r \in Requests, ReplayUpdate(r)
  PROVE  IInv'
  <1> USE DEF IInv
  <1>0. PICK d \in Deliveries : d = requests[r].delivery
    BY DEF ReplayUpdate, RequestOK
  <1>1. /\ requests[r].step = "update" /\ requests[r].delivery = d
        /\ requests'[r].step = "replayed" /\ requests'[r].delivery = d
        /\ \A q \in Requests \ {r} : requests'[q] = requests[q]
        /\ requests' \in [Requests -> Request]
        /\ UNCHANGED <<log, deadEvents, endpoints, schedulers, jobs, deadLetters, slots,
                       accepted, budget>>
    BY <1>0 DEF ReplayUpdate, TypeOK, Request, RequestSteps
  <1>2. /\ rows' \in [Deliveries -> Row]
        /\ rows'[d] = [status |-> "pending", attempts |-> 0, due |-> TRUE, job |-> None]
        /\ \A e \in Deliveries \ {d} : rows'[e] = rows[e]
    BY <1>1, WebhookAssumption DEF ReplayUpdate, TypeOK, Row, DeliveryStatuses
  <1>3. TypeOK'
    BY <1>1, <1>2 DEF TypeOK
  <1>4. \A e \in Deliveries : RowOK(e)'
    BY <1>1, <1>2 DEF RowOK
  <1>5. \A q \in Requests : RequestOK(q)'
    BY <1>1, <1>2 DEF RequestOK
  <1>6. \A s \in Schedulers : Reserving(s)' = Reserving(s)
    BY <1>1 DEF Reserving
  <1>7. ASSUME NEW e \in Deliveries \ {d} PROVE Replays(e)' = Replays(e)
    <2>1. ReplaysOf(e)' = ReplaysOf(e)
      BY <1>1 DEF ReplaysOf
    <2> QED BY <2>1, ReplaysCounted
  <1>8. Replays(d)' = Replays(d) + 1
    <2>1. ReplaysOf(d)' = ReplaysOf(d) \cup {r} /\ r \notin ReplaysOf(d)
      <3>1. r \in ReplaysOf(d)' /\ r \notin ReplaysOf(d)
        BY <1>1 DEF ReplaysOf
      <3>2. \A q \in Requests \ {r} : q \in ReplaysOf(d)' <=> q \in ReplaysOf(d)
        BY <1>1 DEF ReplaysOf
      <3>3. ReplaysOf(d) \subseteq Requests /\ ReplaysOf(d)' \subseteq Requests
        BY DEF ReplaysOf
      <3> QED BY <3>1, <3>2, <3>3
    <2> DEFINE R == ReplaysOf(d)
    <2>2. IsFiniteSet(R)
      BY ReplaysCounted
    <2> HIDE DEF R
    <2>3. Cardinality(R \cup {r}) = IF r \in R THEN Cardinality(R) ELSE Cardinality(R) + 1
      BY <2>2, FS_AddElement
    <2> QED BY <2>1, <2>3, ReplaysCounted DEF R
  <1>9. \A e \in Deliveries :
               /\ rows'[e].job # None => rows'[e].job = rows[e].job
               /\ rows'[e].job # None /\ rows'[e].status \in Open => rows[e].status \in Open
               /\ Replays(e)' >= Replays(e)
               /\ rows[e].job = None \/ rows'[e].job # None \/ Replays(e)' >= Replays(e) + 1
    <2>1. ASSUME NEW e \in Deliveries \ {d}
          PROVE  rows'[e] = rows[e] /\ Replays(e)' = Replays(e) /\ Replays(e) \in Nat
      BY <1>2, <1>7, ReplaysCounted
    <2>2. /\ rows'[d].job = None /\ Replays(d) \in Nat
          /\ Replays(d)' >= Replays(d) /\ Replays(d)' >= Replays(d) + 1
      BY <1>2, <1>8, ReplaysCounted
    <2> QED BY <2>1, <2>2
  <1> QED BY <1>1, <1>3, <1>4, <1>5, <1>6, <1>9, TableStep

-----------------------------------------------------------------------------
(* Attempts *)

PostingSteps == {"find", "post", "mirror", "settle"}

LEMMA RunningSlot ==
  ASSUME IInv, NEW w \in Slots, slots[w].step # "idle"
  PROVE  /\ slots[w].job \in JobIds /\ slots[w].job # None
         /\ DeliveryOf(w) \in Deliveries
         /\ slots[w].attempt \in 1 .. MaxAttempts
  <1>1. slots[w].job \in JobIds /\ jobs[slots[w].job].state # "none" /\ slots[w].attempt >= 1
    BY DEF IInv, SlotOK
  <1>2. slots[w].attempt \in 0 .. MaxAttempts
    BY DEF IInv, TypeOK, Slot
  <1>3. DeliveryOf(w) \in Deliveries
    BY <1>1 DEF IInv, JobOK, DeliveryOf
  <1> QED BY <1>1, <1>2, <1>3, WebhookAssumption

LEMMA GoMoves ==
  ASSUME TypeOK, NEW w \in Slots, NEW step \in SlotSteps, Go(w, step)
  PROVE  /\ slots' \in [Slots -> Slot]
         /\ slots'[w].step = step /\ slots'[w].job = slots[w].job
         /\ slots'[w].attempt = slots[w].attempt
         /\ \A v \in Slots \ {w} : slots'[v] = slots[v]
  BY DEF Go, TypeOK, Slot

\* A step of the attempt in slot w, for delivery d.
LEMMA AttemptStep ==
  ASSUME IInv, TypeOK', NEW w \in Slots, slots[w].step # "idle",
         NEW step \in SlotSteps, step # "idle", Go(w, step),
         UNCHANGED <<jobs, schedulers, requests>>,
         budget' = budget \/ \E k \in FaultKinds : Fault(k),
         NEW d \in Deliveries, d = DeliveryOf(w),
         \A e \in Deliveries \ {d} :
           rows'[e] = rows[e] /\ log'[e] = log[e] /\ accepted'[e] = accepted[e],
         accepted'[d] >= accepted[d], log'[d].ok >= log[d].ok,
         log'[d].failed >= log[d].failed,
         rows'[d].job = rows[d].job,
         \/ rows'[d].status = rows[d].status
         \/ rows[d].status \in Open /\ rows'[d].status \in {"delivered", "failed", "dead_letter"},
         rows'[d].status = "delivered" /\ rows[d].status # "delivered" =>
           accepted[d] > 0 /\ log'[d].ok > 0,
         step = "succeed" => accepted'[d] > 0,
         Calm' /\ Ending(w)' => ~(rows'[d].status \in Open /\ rows[d].job = slots[w].job),
         accepted'[d] + Bit(step \in PostingSteps) + Credit(d)
           <= accepted[d] + Bit(slots[w].step \in PostingSteps) + Credit(d)'
  PROVE  IInv'
  <1> USE DEF IInv
  <1>1. BudgetOK' /\ (Calm' => Calm)
    BY BudgetKept
  <1>2. /\ slots' \in [Slots -> Slot]
        /\ slots'[w].step = step /\ slots'[w].job = slots[w].job
        /\ slots'[w].attempt = slots[w].attempt
        /\ \A v \in Slots \ {w} : slots'[v] = slots[v]
    BY GoMoves
  <1>3. \A v \in Slots : /\ DeliveryOf(v)' = DeliveryOf(v) /\ slots'[v].job = slots[v].job
                         /\ slots'[v].attempt = slots[v].attempt
                         /\ slots'[v].step = "idle" <=> slots[v].step = "idle"
    BY <1>2 DEF DeliveryOf
  <1>4. \A e \in Deliveries : /\ accepted'[e] >= accepted[e] /\ log'[e].ok >= log[e].ok
                              /\ accepted[e] \in Nat /\ accepted'[e] \in Nat
                              /\ log[e].ok \in Nat /\ log'[e].ok \in Nat
    BY DEF TypeOK
  <1>5. \A e \in Deliveries : /\ rows'[e].job = rows[e].job
                              /\ rows'[e].status \in Open => rows[e].status \in Open
                              /\ rows'[e].status \in {"none", "missing"} =>
                                   rows[e].status \in {"none", "missing"}
    BY DEF Open
  <1>6. \A j \in JobIds : JobOK(j)'
    BY DEF JobOK
  <1>7. \A s \in Schedulers : SchedulerOK(s)' /\ Reserving(s)' = Reserving(s)
    BY DEF SchedulerOK, Reserving
  <1>8. ASSUME NEW v \in Slots PROVE SlotOK(v)'
    <2>1. HoldsLock(v)' = HoldsLock(v)
      BY <1>3 DEF HoldsLock
    <2>2. v # w => slots'[v] = slots[v]
      BY <1>2
    <2>3. slots[v].step # "idle" => DeliveryOf(v) \in Deliveries
      BY RunningSlot
    <2> QED BY <1>2, <1>3, <1>4, <2>1, <2>2, <2>3 DEF SlotOK
  <1>9. ASSUME NEW v \in Slots PROVE EndingOK(v)'
    <2>1. CASE v = w
      BY <2>1, <1>2, <1>3, <1>5 DEF EndingOK, Held
    <2>2. CASE v # w
      <3>1. Ending(v)' = Ending(v)
        BY <2>2, <1>2 DEF Ending
      <3>2. ASSUME Ending(v), ~Held(DeliveryOf(v), slots[v].job)
            PROVE  ~Held(DeliveryOf(v), slots[v].job)'
        <4>1. DeliveryOf(v) \in Deliveries
          BY <3>2, RunningSlot DEF Ending
        <4> QED BY <4>1, <3>2, <1>3, <1>5 DEF Held
      <3> QED BY <3>1, <3>2, <1>1 DEF EndingOK
    <2> QED BY <2>1, <2>2
  <1>10. ASSUME NEW e \in Deliveries PROVE RowOK(e)'
    BY <1>4, <1>5 DEF RowOK
  <1>11. ASSUME NEW e \in Deliveries PROVE ReservedOK(e)'
    <2>1. \A j : Backed(j) => Backed(j)'
      BY <1>7 DEF Backed
    <2> QED BY <1>1, <1>5, <2>1 DEF ReservedOK
  <1>12. \A r \in Requests : RequestOK(r)'
    BY <1>5 DEF RequestOK
  <1>13. ASSUME NEW e \in Deliveries PROVE Paid(e)'
    <2>1. Cycles(e)' = Cycles(e)
      BY <1>7 DEF Cycles
    <2>2. Takables(e)' = Takables(e)
      <3>1. \A j \in JobIds : jobs[j].state = "active" => jobs[j].owner \in Slots
        BY DEF JobOK
      <3> QED BY <3>1, <1>3 DEF Takables, Takable, Running
    <2>3. Posters(e)' \ {w} = Posters(e) \ {w}
      BY <1>2, <1>3 DEF Posters, Posting
    <2>4. /\ w \in Posters(e)' <=> e = d /\ step \in PostingSteps
          /\ w \in Posters(e) <=> e = d /\ slots[w].step \in PostingSteps
      BY <1>2, <1>3 DEF Posters, Posting, PostingSteps
    <2>5. Credit(e) \in Int /\ Credit(e)' \in Int
      BY CreditType
    <2>6. ASSUME e # d PROVE Credit(e)' >= Credit(e)
      <3>1. Replays(e)' >= Replays(e)
        BY SameReplays, ReplaysCounted
      <3>2. log'[e].failed >= log[e].failed
        BY <2>6 DEF TypeOK
      <3>3. TypeOK /\ BudgetOK
        OBVIOUS
      <3> HIDE DEF IInv
      <3> QED BY <3>1, <3>2, <3>3, CreditKept
    <2>7. \A x : Bit(x) \in Nat
      BY DEF Bit
    <2>8. Unreserved(e)' = Unreserved(e) /\ Unreserved(e) \in Nat
      BY <1>5 DEF Unreserved
    <2>9. accepted'[e] + Bit(w \in Posters(e)') + Credit(e)
            <= accepted[e] + Bit(w \in Posters(e)) + Credit(e)'
      <3>1. CASE e = d
        <4>1. Bit(w \in Posters(e)') = Bit(step \in PostingSteps)
          BY <2>4, <3>1 DEF Bit
        <4>2. Bit(w \in Posters(e)) = Bit(slots[w].step \in PostingSteps)
          BY <2>4, <3>1 DEF Bit
        <4> QED BY <3>1, <4>1, <4>2
      <3>2. CASE e # d
        <4>1. Bit(w \in Posters(e)') = 0 /\ Bit(w \in Posters(e)) = 0
          BY <2>4, <3>2 DEF Bit
        <4>2. accepted'[e] = accepted[e]
          BY <3>2
        <4> QED BY <4>1, <4>2, <2>5, <2>6, <3>2, <1>4
      <3> QED BY <3>1, <3>2
    <2> HIDE DEF IInv
    <2>10. \A x, y : accepted'[e] + Unreserved(e)' + Bit(x) + Bit(y) + Bit(w \in Posters(e)') + Credit(e)
            <= accepted[e] + Unreserved(e) + Bit(x) + Bit(y) + Bit(w \in Posters(e)) + Credit(e)'
      BY <2>5, <2>7, <2>8, <2>9, <1>4
    <2> QED BY <2>1, <2>2, <2>3, <2>5, <2>10, PaidKept DEF IInv
  <1> QED BY <1>1, <1>6, <1>7, <1>8, <1>9, <1>10, <1>11, <1>12, <1>13

\* A failure on record, or a fault, pays for one post.
LEMMA CreditPays ==
  ASSUME TypeOK, TypeOK', BudgetOK, NEW d \in Deliveries, Replays(d)' >= Replays(d),
         \/ Fault("sql") \/ Fault("redis") \/ Fault("stall"),
         log'[d].failed >= log[d].failed
  PROVE  Credit(d) \in Int /\ Credit(d)' \in Int /\ Credit(d)' >= Credit(d) + 1
  <1>1. PICK f \in {"sql", "redis", "stall"} : Fault(f)
    OBVIOUS
  <1>2. f \in FaultKinds
    BY DEF FaultKinds
  <1>3. /\ Spent("sql")' >= Spent("sql") /\ Spent("sql") \in Int /\ Spent("sql")' \in Int
        /\ Spent("redis")' >= Spent("redis") /\ Spent("redis") \in Int /\ Spent("redis")' \in Int
        /\ Spent("stall")' >= Spent("stall") /\ Spent("stall") \in Int /\ Spent("stall")' \in Int
    BY <1>1, <1>2, BudgetKept DEF FaultKinds
  <1>4. Spent(f)' = Spent(f) + 1
    <2>1. budget[f] \in Nat /\ budget'[f] = budget[f] - 1 /\ FaultBudget[f] \in Nat
      BY <1>1, <1>2, WebhookAssumption DEF Fault, TypeOK
    <2> QED BY <2>1 DEF Spent
  <1>5. Replays(d) \in Nat /\ Replays(d)' \in Nat
    BY ReplaysCounted
  <1>6. log[d].failed \in Nat /\ log'[d].failed \in Nat
    BY DEF TypeOK
  <1>7. CASE f = "sql"
    BY <1>3, <1>4, <1>5, <1>6, <1>7 DEF Credit
  <1>8. CASE f = "redis"
    BY <1>3, <1>4, <1>5, <1>6, <1>8 DEF Credit
  <1>9. CASE f = "stall"
    BY <1>3, <1>4, <1>5, <1>6, <1>9 DEF Credit
  <1> QED BY <1>7, <1>8, <1>9

LEMMA FailurePays ==
  ASSUME TypeOK, TypeOK', BudgetOK, NEW d \in Deliveries, Replays(d)' >= Replays(d),
         budget' = budget, log'[d].failed = log[d].failed + 1
  PROVE  Credit(d) \in Int /\ Credit(d)' \in Int /\ Credit(d)' >= Credit(d) + 1
  <1>1. /\ Spent("sql")' = Spent("sql") /\ Spent("sql") \in Int
        /\ Spent("redis")' = Spent("redis") /\ Spent("redis") \in Int
        /\ Spent("stall")' = Spent("stall") /\ Spent("stall") \in Int
    BY BudgetKept DEF Spent, FaultKinds
  <1>2. Replays(d) \in Nat /\ Replays(d)' \in Nat
    BY ReplaysCounted
  <1>3. log[d].failed \in Nat
    BY DEF TypeOK
  <1> QED BY <1>1, <1>2, <1>3 DEF Credit

LEMMA NotCalm ==
  ASSUME TypeOK, BudgetOK, Fault("sql") \/ Fault("crash")
  PROVE  ~Calm'
  <1>1. \A k \in {"sql", "crash"} : budget[k] \in Nat /\ budget[k] <= FaultBudget[k] /\ FaultBudget[k] \in Nat
    BY WebhookAssumption DEF TypeOK, BudgetOK, FaultKinds
  <1>2. PICK f \in {"sql", "crash"} : Fault(f)
    OBVIOUS
  <1>3. budget'[f] = budget[f] - 1 /\ f \in FaultKinds
    BY <1>2 DEF Fault, TypeOK, FaultKinds
  <1> QED BY <1>1, <1>2, <1>3 DEF Calm

\* A step of an attempt that leaves the tables alone.
LEMMA QuietStep ==
  ASSUME IInv, NEW w \in Slots, slots[w].step # "idle",
         NEW step \in SlotSteps, step # "idle", Go(w, step),
         UNCHANGED <<tables, endpoints, schedulers, jobs, requests>>,
         deadLetters' \in SUBSET JobIds,
         budget' = budget \/ \E k \in FaultKinds : Fault(k),
         NEW d \in Deliveries, d = DeliveryOf(w),
         accepted' = accepted \/ MerchantTakes(d),
         step = "succeed" => accepted'[d] > 0,
         Calm' /\ Ending(w)' => ~Held(d, slots[w].job),
         accepted'[d] + Bit(step \in PostingSteps) <= accepted[d] + Bit(slots[w].step \in PostingSteps)
  PROVE  IInv'
  <1>1. TypeOK /\ BudgetOK
    BY DEF IInv
  <1>2. /\ accepted' \in [Deliveries -> Nat]
        /\ \A e \in Deliveries \ {d} : accepted'[e] = accepted[e]
        /\ accepted[d] \in Nat /\ accepted'[d] \in Nat /\ accepted'[d] >= accepted[d]
    BY <1>1 DEF MerchantTakes, TypeOK
  <1>3. slots' \in [Slots -> Slot] /\ budget' \in [FaultKinds -> Nat]
    BY <1>1, GoMoves, BudgetKept
  <1>4. rows' = rows /\ log' = log /\ deadEvents' = deadEvents
    BY DEF tables
  <1>5. TypeOK'
    BY <1>1, <1>2, <1>3, <1>4 DEF TypeOK
  <1>6. log[d].ok \in Nat /\ log[d].failed \in Nat
    BY <1>1 DEF TypeOK
  <1>7. Replays(d)' >= Replays(d)
    BY SameReplays, ReplaysCounted
  <1>8. Credit(d) \in Int /\ Credit(d)' \in Int /\ Credit(d)' >= Credit(d)
    BY <1>1, <1>4, <1>5, <1>6, <1>7, CreditKept
  <1>9. Bit(step \in PostingSteps) \in Nat /\ Bit(slots[w].step \in PostingSteps) \in Nat
    BY DEF Bit
  <1>10. accepted'[d] + Bit(step \in PostingSteps) + Credit(d)
           <= accepted[d] + Bit(slots[w].step \in PostingSteps) + Credit(d)'
    BY <1>2, <1>8, <1>9
  <1>11. Calm' /\ Ending(w)' => ~(rows'[d].status \in Open /\ rows[d].job = slots[w].job)
    BY <1>4 DEF Held
  <1> QED BY <1>2, <1>4, <1>5, <1>6, <1>10, <1>11, AttemptStep

LEMMA FindDeliveryKeeps ==
  ASSUME IInv, NEW w \in Slots, FindDelivery(w)
  PROVE  IInv'
  <1>1. slots[w].step = "find" /\ TypeOK
    BY DEF FindDelivery, IInv
  <1>2. PICK d \in Deliveries : d = DeliveryOf(w)
    BY <1>1, RunningSlot
  <1>3. PICK step \in {"post", "complete"} :
          step = IF rows[d].status \in Open THEN "post" ELSE "complete"
    OBVIOUS
  <1>4. /\ Go(w, step) /\ step \in SlotSteps
        /\ UNCHANGED <<tables, endpoints, schedulers, jobs, deadLetters, accepted, requests, budget>>
    BY <1>2, <1>3 DEF FindDelivery, SlotSteps
  <1>5. Ending(w)' => ~Held(d, slots[w].job)
    BY <1>1, <1>3, <1>4, GoMoves DEF Ending, Held
  <1>6. Bit(step \in PostingSteps) <= Bit(slots[w].step \in PostingSteps)
    BY <1>1 DEF Bit, PostingSteps
  <1>7. accepted[d] \in Nat /\ deadLetters \in SUBSET JobIds
    BY <1>1 DEF TypeOK
  <1>8. Bit(step \in PostingSteps) \in Nat /\ Bit(slots[w].step \in PostingSteps) \in Nat
    BY DEF Bit
  <1>9. accepted'[d] + Bit(step \in PostingSteps) <= accepted[d] + Bit(slots[w].step \in PostingSteps)
    BY <1>4, <1>6, <1>7, <1>8
  <1> QED BY <1>1, <1>2, <1>4, <1>5, <1>7, <1>9, QuietStep

LEMMA AfterErrorSteps ==
  ASSUME NEW w
  PROVE  AfterError(w) \in {"mirror", "settle"} /\ AfterError(w) \in SlotSteps
         /\ Bit(AfterError(w) \in PostingSteps) = 1
  BY DEF AfterError, SlotSteps, Bit, PostingSteps

LEMMA FindDeliveryFailsKeeps ==
  ASSUME IInv, NEW w \in Slots, FindDeliveryFails(w)
  PROVE  IInv'
  <1>1. slots[w].step = "find" /\ TypeOK /\ BudgetOK
    BY DEF FindDeliveryFails, IInv
  <1>2. PICK d \in Deliveries : d = DeliveryOf(w)
    BY <1>1, RunningSlot
  <1>3. PICK step \in {"mirror", "settle"} : step = AfterError(w)
    BY AfterErrorSteps
  <1>4. /\ Go(w, step) /\ step \in SlotSteps /\ Fault("sql")
        /\ UNCHANGED <<tables, endpoints, schedulers, jobs, deadLetters, accepted, requests>>
    BY <1>3 DEF FindDeliveryFails, SlotSteps
  <1>5. ~Calm' /\ \E k \in FaultKinds : Fault(k)
    BY <1>1, <1>4, NotCalm DEF FaultKinds
  <1>6. Bit(step \in PostingSteps) = 1 /\ Bit(slots[w].step \in PostingSteps) = 1
    BY <1>1 DEF Bit, PostingSteps
  <1>7. accepted[d] \in Nat /\ deadLetters \in SUBSET JobIds
    BY <1>1 DEF TypeOK
  <1>8. accepted'[d] + Bit(step \in PostingSteps) <= accepted[d] + Bit(slots[w].step \in PostingSteps)
    BY <1>4, <1>6, <1>7
  <1> QED BY <1>1, <1>2, <1>4, <1>5, <1>7, <1>8, QuietStep

LEMMA PostKeeps ==
  ASSUME IInv, NEW w \in Slots, Post(w) \/ PostFails(w)
  PROVE  IInv'
  <1>1. slots[w].step = "post" /\ TypeOK
    BY DEF Post, PostFails, IInv
  <1>2. PICK d \in Deliveries : d = DeliveryOf(w)
    BY <1>1, RunningSlot
  <1>3. PICK step \in {"succeed", "fail"} :
          /\ Go(w, step) /\ step \in SlotSteps
          /\ step = "succeed" => MerchantTakes(d)
          /\ accepted' = accepted \/ MerchantTakes(d)
          /\ UNCHANGED <<tables, endpoints, schedulers, jobs, deadLetters, requests, budget>>
    BY <1>2 DEF Post, PostFails, SlotSteps
  <1>4. accepted[d] \in Nat /\ deadLetters \in SUBSET JobIds
    BY <1>1 DEF TypeOK
  <1>5. accepted'[d] \in {accepted[d], accepted[d] + 1} /\ (step = "succeed" => accepted'[d] > 0)
    BY <1>1, <1>3, <1>4 DEF TypeOK, MerchantTakes
  <1>6. Bit(step \in PostingSteps) = 0 /\ Bit(slots[w].step \in PostingSteps) = 1
    BY <1>1 DEF Bit, PostingSteps
  <1>7. ~Ending(w)'
    BY <1>1, <1>3, GoMoves DEF Ending
  <1>8. accepted'[d] + Bit(step \in PostingSteps) <= accepted[d] + Bit(slots[w].step \in PostingSteps)
    BY <1>4, <1>5, <1>6
  <1> QED BY <1>1, <1>2, <1>3, <1>4, <1>5, <1>7, <1>8, QuietStep

LEMMA MirrorDeadLetterKeeps ==
  ASSUME IInv, NEW w \in Slots, MirrorDeadLetter(w)
  PROVE  IInv'
  <1>1. slots[w].step = "mirror" /\ TypeOK
    BY DEF MirrorDeadLetter, IInv
  <1>2. PICK d \in Deliveries : d = DeliveryOf(w)
    BY <1>1, RunningSlot
  <1>3. /\ Go(w, "settle") /\ "settle" \in SlotSteps
        /\ UNCHANGED <<tables, endpoints, schedulers, jobs, accepted, requests, budget>>
    BY DEF MirrorDeadLetter, SlotSteps
  <1>4. accepted[d] \in Nat /\ deadLetters' \in SUBSET JobIds
    BY <1>1, RunningSlot DEF TypeOK, MirrorDeadLetter
  <1>5. Bit("settle" \in PostingSteps) = 1 /\ Bit(slots[w].step \in PostingSteps) = 1
    BY <1>1 DEF Bit, PostingSteps
  <1>6. Calm' /\ Ending(w)' => ~Held(d, slots[w].job)
    <2>1. slots'[w].attempt = slots[w].attempt /\ slots'[w].step = "settle"
      BY <1>1, <1>3, GoMoves
    <2>2. Ending(w)' => Ending(w)
      BY <1>1, <2>1 DEF Ending
    <2>3. Calm' = Calm
      BY <1>3 DEF Calm
    <2> QED BY <1>2, <2>2, <2>3 DEF IInv, EndingOK
  <1>7. accepted'[d] + Bit("settle" \in PostingSteps) <= accepted[d] + Bit(slots[w].step \in PostingSteps)
    BY <1>3, <1>4, <1>5
  <1> QED BY <1>1, <1>2, <1>3, <1>4, <1>6, <1>7, QuietStep

\* What a transaction that records an outcome does to the tables.
LEMMA SettleSets ==
  ASSUME TypeOK, NEW d \in Deliveries, NEW status \in DeliveryStatuses,
         NEW attempt \in 1 .. MaxAttempts, NEW due \in BOOLEAN, Settle(d, status, attempt, due)
  PROVE  /\ rows' \in [Deliveries -> Row]
         /\ rows'[d].status = status /\ rows'[d].job = rows[d].job
         /\ \A e \in Deliveries \ {d} : rows'[e] = rows[e]
  <1> DEFINE r == [status |-> status, attempts |-> attempt, due |-> due, job |-> rows[d].job]
  <1>1. rows' = [rows EXCEPT ![d] = r] /\ rows \in [Deliveries -> Row]
    BY DEF Settle, TypeOK
  <1>2. attempt \in 0 .. MaxAttempts
    BY WebhookAssumption
  <1>3. r \in Row
    BY <1>1, <1>2 DEF Row
  <1> QED BY <1>1, <1>3

LEMMA SucceededTables ==
  ASSUME TypeOK, NEW d \in Deliveries, NEW attempt \in 1 .. MaxAttempts,
         CommitSucceeded(d, attempt)
  PROVE  /\ rows' \in [Deliveries -> Row]
         /\ log' \in [Deliveries -> [ok : Nat, failed : Nat]] /\ deadEvents' = deadEvents
         /\ log'[d].ok = log[d].ok + 1 /\ log'[d].failed = log[d].failed
         /\ rows'[d].job = rows[d].job /\ rows'[d].status \notin Open
         /\ \/ rows[d].status \in Open /\ rows'[d].status = "delivered"
            \/ rows'[d].status = rows[d].status
         /\ \A e \in Deliveries \ {d} : rows'[e] = rows[e] /\ log'[e] = log[e]
  <1>1. log' = [log EXCEPT ![d].ok = @ + 1] /\ deadEvents' = deadEvents
    BY DEF CommitSucceeded
  <1>2. /\ log' \in [Deliveries -> [ok : Nat, failed : Nat]]
        /\ log'[d].ok = log[d].ok + 1 /\ log'[d].failed = log[d].failed
        /\ \A e \in Deliveries \ {d} : log'[e] = log[e]
    BY <1>1 DEF TypeOK
  <1>3. CASE rows[d].status \in Open
    <2>1. Settle(d, "delivered", attempt, FALSE)
      BY <1>3 DEF CommitSucceeded
    <2> QED BY <1>1, <1>2, <1>3, <2>1, SettleSets DEF DeliveryStatuses, Open
  <1>4. CASE rows[d].status \notin Open
    BY <1>1, <1>2, <1>4 DEF CommitSucceeded, TypeOK
  <1> QED BY <1>3, <1>4

LEMMA FailedTables ==
  ASSUME TypeOK, NEW d \in Deliveries, NEW attempt \in 1 .. MaxAttempts,
         CommitFailed(d, attempt)
  PROVE  /\ rows' \in [Deliveries -> Row]
         /\ log' \in [Deliveries -> [ok : Nat, failed : Nat]]
         /\ deadEvents' \in [Deliveries -> Nat]
         /\ log'[d].ok = log[d].ok /\ log'[d].failed = log[d].failed + 1
         /\ rows'[d].job = rows[d].job
         /\ attempt >= MaxAttempts => rows'[d].status \notin Open
         /\ \/ /\ rows[d].status \in Open
               /\ rows'[d].status = IF attempt >= MaxAttempts THEN "dead_letter" ELSE "failed"
               /\ deadEvents'[d] = deadEvents[d] + IF attempt >= MaxAttempts THEN 1 ELSE 0
            \/ rows[d].status \notin Open /\ rows' = rows /\ deadEvents' = deadEvents
         /\ \A e \in Deliveries \ {d} :
              rows'[e] = rows[e] /\ log'[e] = log[e] /\ deadEvents'[e] = deadEvents[e]
  <1>1. /\ log' \in [Deliveries -> [ok : Nat, failed : Nat]]
        /\ log'[d].ok = log[d].ok /\ log'[d].failed = log[d].failed + 1
        /\ \A e \in Deliveries \ {d} : log'[e] = log[e]
    BY DEF TypeOK, CommitFailed, LogFailure
  <1>2. deadEvents \in [Deliveries -> Nat]
    BY DEF TypeOK
  <1>3. CASE rows[d].status \in Open /\ attempt >= MaxAttempts
    <2>1. Settle(d, "dead_letter", attempt, FALSE) /\ deadEvents' = [deadEvents EXCEPT ![d] = @ + 1]
      BY <1>3 DEF CommitFailed, FailDelivery
    <2>2. /\ rows' \in [Deliveries -> Row]
          /\ rows'[d].status = "dead_letter" /\ rows'[d].job = rows[d].job
          /\ \A e \in Deliveries \ {d} : rows'[e] = rows[e]
      BY <2>1, SettleSets DEF DeliveryStatuses
    <2>3. /\ deadEvents' \in [Deliveries -> Nat] /\ deadEvents'[d] = deadEvents[d] + 1
          /\ \A e \in Deliveries \ {d} : deadEvents'[e] = deadEvents[e]
      BY <1>2, <2>1
    <2> QED BY <1>1, <1>3, <2>2, <2>3 DEF Open
  <1>4. CASE rows[d].status \in Open /\ ~(attempt >= MaxAttempts)
    <2>1. Settle(d, "failed", attempt, FALSE) /\ deadEvents' = deadEvents
      BY <1>4 DEF CommitFailed, FailDelivery
    <2>2. /\ rows' \in [Deliveries -> Row]
          /\ rows'[d].status = "failed" /\ rows'[d].job = rows[d].job
          /\ \A e \in Deliveries \ {d} : rows'[e] = rows[e]
      BY <2>1, SettleSets DEF DeliveryStatuses
    <2>3. deadEvents'[d] = deadEvents[d] + 0
      BY <1>2, <2>1
    <2> QED BY <1>1, <1>2, <1>4, <2>1, <2>2, <2>3
  <1>5. CASE rows[d].status \notin Open
    BY <1>1, <1>2, <1>5 DEF CommitFailed, TypeOK
  <1> QED BY <1>3, <1>4, <1>5

LEMMA RecordSucceededKeeps ==
  ASSUME IInv, NEW w \in Slots, RecordSucceeded(w)
  PROVE  IInv'
  <1>1. slots[w].step = "succeed" /\ TypeOK /\ BudgetOK
    BY DEF RecordSucceeded, IInv
  <1>2. PICK d \in Deliveries : d = DeliveryOf(w)
    BY <1>1, RunningSlot
  <1>3. PICK attempt \in 1 .. MaxAttempts : attempt = slots[w].attempt
    BY <1>1, RunningSlot
  <1>4. /\ Go(w, "complete") /\ "complete" \in SlotSteps /\ CommitSucceeded(d, attempt)
        /\ UNCHANGED <<endpoints, schedulers, jobs, deadLetters, accepted, requests, budget>>
    BY <1>2, <1>3 DEF RecordSucceeded, SlotSteps
  <1>5. /\ rows' \in [Deliveries -> Row]
        /\ log' \in [Deliveries -> [ok : Nat, failed : Nat]] /\ deadEvents' = deadEvents
        /\ log'[d].ok = log[d].ok + 1 /\ log'[d].failed = log[d].failed
        /\ rows'[d].job = rows[d].job /\ rows'[d].status \notin Open
        /\ \/ rows[d].status \in Open /\ rows'[d].status = "delivered"
           \/ rows'[d].status = rows[d].status
        /\ \A e \in Deliveries \ {d} : rows'[e] = rows[e] /\ log'[e] = log[e]
    BY <1>1, <1>4, SucceededTables
  <1>6. TypeOK'
    BY <1>1, <1>4, <1>5, GoMoves DEF TypeOK
  <1>7. log[d].ok \in Nat /\ log[d].failed \in Nat /\ accepted[d] \in Nat
    BY <1>1 DEF TypeOK
  <1>8. accepted[d] > 0
    BY <1>1, <1>2 DEF IInv, SlotOK
  <1>9. Replays(d)' >= Replays(d)
    BY <1>4, SameReplays, ReplaysCounted
  <1>10. Credit(d) \in Int /\ Credit(d)' \in Int /\ Credit(d)' >= Credit(d)
    <2>1. log'[d].failed >= log[d].failed
      BY <1>5, <1>7
    <2> QED BY <1>1, <1>4, <1>6, <1>9, <2>1, CreditKept
  <1>11. Bit("complete" \in PostingSteps) = 0 /\ Bit(slots[w].step \in PostingSteps) = 0
    BY <1>1 DEF Bit, PostingSteps
  <1>12. accepted'[d] + Bit("complete" \in PostingSteps) + Credit(d)
           <= accepted[d] + Bit(slots[w].step \in PostingSteps) + Credit(d)'
    BY <1>4, <1>7, <1>10, <1>11
  <1>13. log'[d].ok >= log[d].ok /\ log'[d].ok > 0 /\ log'[d].failed >= log[d].failed
         /\ accepted'[d] >= accepted[d]
    BY <1>4, <1>5, <1>7
  <1> QED BY <1>1, <1>2, <1>4, <1>5, <1>6, <1>8, <1>12, <1>13, AttemptStep

LEMMA RecordSucceededFailsKeeps ==
  ASSUME IInv, NEW w \in Slots, RecordSucceededFails(w)
  PROVE  IInv'
  <1>1. slots[w].step = "succeed" /\ TypeOK /\ BudgetOK
    BY DEF RecordSucceededFails, IInv
  <1>2. PICK d \in Deliveries : d = DeliveryOf(w)
    BY <1>1, RunningSlot
  <1>3. PICK attempt \in 1 .. MaxAttempts : attempt = slots[w].attempt
    BY <1>1, RunningSlot
  <1>4. /\ Go(w, "fail") /\ "fail" \in SlotSteps /\ Fault("sql")
        /\ UNCHANGED tables \/ CommitSucceeded(d, attempt)
        /\ UNCHANGED <<endpoints, schedulers, jobs, deadLetters, accepted, requests>>
    BY <1>2, <1>3 DEF RecordSucceededFails, SlotSteps
  <1>5. log[d].ok \in Nat /\ log[d].failed \in Nat /\ accepted[d] \in Nat
    BY <1>1 DEF TypeOK
  <1>6. /\ rows' \in [Deliveries -> Row]
        /\ log' \in [Deliveries -> [ok : Nat, failed : Nat]] /\ deadEvents' = deadEvents
        /\ log'[d].ok >= log[d].ok /\ log'[d].failed = log[d].failed
        /\ rows'[d].job = rows[d].job
        /\ \/ /\ rows[d].status \in Open /\ rows'[d].status = "delivered" /\ log'[d].ok > 0
           \/ rows'[d].status = rows[d].status
        /\ \A e \in Deliveries \ {d} : rows'[e] = rows[e] /\ log'[e] = log[e]
    <2>1. CASE UNCHANGED tables
      BY <1>1, <1>5, <2>1 DEF tables, TypeOK
    <2>2. CASE CommitSucceeded(d, attempt)
      BY <1>1, <1>5, <2>2, SucceededTables
    <2> QED BY <1>4, <2>1, <2>2
  <1>7. ~Calm' /\ \E k \in FaultKinds : Fault(k)
    BY <1>1, <1>4, NotCalm DEF FaultKinds
  <1>8. TypeOK'
    BY <1>1, <1>4, <1>6, <1>7, GoMoves, BudgetKept DEF TypeOK
  <1>9. accepted[d] > 0
    BY <1>1, <1>2 DEF IInv, SlotOK
  <1>10. Replays(d)' >= Replays(d)
    BY <1>4, SameReplays, ReplaysCounted
  <1>11. Credit(d) \in Int /\ Credit(d)' \in Int /\ Credit(d)' >= Credit(d)
    <2>1. log'[d].failed >= log[d].failed
      BY <1>5, <1>6
    <2> QED BY <1>1, <1>7, <1>8, <1>10, <2>1, CreditKept
  <1>12. Bit("fail" \in PostingSteps) = 0 /\ Bit(slots[w].step \in PostingSteps) = 0
    BY <1>1 DEF Bit, PostingSteps
  <1>13. accepted'[d] + Bit("fail" \in PostingSteps) + Credit(d)
           <= accepted[d] + Bit(slots[w].step \in PostingSteps) + Credit(d)'
    BY <1>4, <1>5, <1>11, <1>12
  <1>14. log'[d].failed >= log[d].failed /\ accepted'[d] >= accepted[d]
    BY <1>4, <1>5, <1>6
  <1> QED BY <1>1, <1>2, <1>4, <1>6, <1>7, <1>8, <1>9, <1>13, <1>14, AttemptStep

LEMMA RecordFailedKeeps ==
  ASSUME IInv, NEW w \in Slots, RecordFailed(w) \/ RecordFailedFails(w)
  PROVE  IInv'
  <1>1. slots[w].step = "fail" /\ TypeOK /\ BudgetOK
    BY DEF RecordFailed, RecordFailedFails, IInv
  <1>2. PICK d \in Deliveries : d = DeliveryOf(w)
    BY <1>1, RunningSlot
  <1>3. PICK attempt \in 1 .. MaxAttempts : attempt = slots[w].attempt
    BY <1>1, RunningSlot
  <1>4. PICK step \in {"mirror", "settle"} : step = AfterError(w)
    BY AfterErrorSteps
  <1>5. /\ Go(w, step) /\ step \in SlotSteps
        /\ \/ CommitFailed(d, attempt) /\ budget' = budget
           \/ UNCHANGED tables /\ Fault("sql")
           \/ CommitFailed(d, attempt) /\ Fault("sql")
        /\ UNCHANGED <<endpoints, schedulers, jobs, deadLetters, accepted, requests>>
    BY <1>2, <1>3, <1>4 DEF RecordFailed, RecordFailedFails, SlotSteps
  <1>6. log[d].ok \in Nat /\ log[d].failed \in Nat /\ accepted[d] \in Nat
    BY <1>1 DEF TypeOK
  <1>7. /\ rows' \in [Deliveries -> Row]
        /\ log' \in [Deliveries -> [ok : Nat, failed : Nat]]
        /\ deadEvents' \in [Deliveries -> Nat]
        /\ log'[d].ok = log[d].ok /\ log'[d].failed >= log[d].failed
        /\ rows'[d].job = rows[d].job
        /\ \/ rows[d].status \in Open /\ rows'[d].status \in {"failed", "dead_letter"}
           \/ rows'[d].status = rows[d].status
        /\ \A e \in Deliveries \ {d} : rows'[e] = rows[e] /\ log'[e] = log[e]
    <2>1. CASE UNCHANGED tables
      BY <1>1, <1>6, <2>1 DEF tables, TypeOK
    <2>2. CASE CommitFailed(d, attempt)
      BY <1>1, <1>6, <2>2, FailedTables
    <2> QED BY <1>5, <2>1, <2>2
  <1>8. budget' = budget \/ \E k \in FaultKinds : Fault(k)
    BY <1>5 DEF FaultKinds
  <1>9. TypeOK'
    BY <1>1, <1>5, <1>7, <1>8, GoMoves, BudgetKept DEF TypeOK
  <1>10. Replays(d)' >= Replays(d)
    BY <1>5, SameReplays, ReplaysCounted
  <1>11. Credit(d) \in Int /\ Credit(d)' \in Int /\ Credit(d)' >= Credit(d) + 1
    <2>1. CASE Fault("sql")
      BY <1>1, <1>7, <1>9, <1>10, <2>1, CreditPays
    <2>2. CASE CommitFailed(d, attempt) /\ budget' = budget
      <3>1. log'[d].failed = log[d].failed + 1
        BY <1>1, <2>2, FailedTables
      <3> QED BY <1>1, <1>9, <1>10, <2>2, <3>1, FailurePays
    <2> QED BY <1>5, <2>1, <2>2
  <1>12. Bit(step \in PostingSteps) = 1 /\ Bit(slots[w].step \in PostingSteps) = 0
    BY <1>1 DEF Bit, PostingSteps
  <1>13. accepted'[d] + Bit(step \in PostingSteps) + Credit(d)
           <= accepted[d] + Bit(slots[w].step \in PostingSteps) + Credit(d)'
    BY <1>5, <1>6, <1>11, <1>12
  <1>14. Calm' /\ Ending(w)' => ~(rows'[d].status \in Open /\ rows[d].job = slots[w].job)
    <2>1. CASE Fault("sql")
      BY <1>1, <2>1, NotCalm
    <2>2. CASE CommitFailed(d, attempt)
      <3>1. Ending(w)' => attempt >= MaxAttempts
        BY <1>1, <1>3, <1>5, GoMoves DEF Ending
      <3>2. attempt >= MaxAttempts => rows'[d].status \notin Open
        BY <1>1, <2>2, FailedTables
      <3> QED BY <3>1, <3>2
    <2> QED BY <1>5, <2>1, <2>2
  <1>15. log'[d].ok >= log[d].ok /\ accepted'[d] >= accepted[d]
    BY <1>5, <1>6, <1>7
  <1>16. rows'[d].status = "delivered" => rows[d].status = "delivered"
    BY <1>7
  <1> QED BY <1>1, <1>2, <1>5, <1>7, <1>8, <1>9, <1>13, <1>14, <1>15, <1>16, AttemptStep

-----------------------------------------------------------------------------
(* BullMQ *)

\* A step of BullMQ on job j, which may free or fill slot w.
LEMMA QueueStep ==
  ASSUME IInv, TypeOK', NEW j \in JobIds, NEW w,
         jobs[j].state # "none", jobs'[j].state # "none",
         jobs'[j].delivery = jobs[j].delivery,
         \A i \in JobIds \ {j} : jobs'[i] = jobs[i],
         JobOK(j)',
         UNCHANGED <<tables, schedulers, accepted, requests>>,
         budget' = budget \/ \E k \in FaultKinds : Fault(k),
         \A v \in Slots \ {w} : slots'[v] = slots[v],
         w \in Slots =>
           /\ slots[w].step # "idle" => slots[w].job = j
           /\ slots'[w].step # "idle" => slots'[w].job = j
           /\ SlotOK(w)' /\ ~Ending(w)',
         \/ jobs'[j] = jobs[j]
         \/ \A v \in Slots \ {w} : ~(jobs'[j].state = "active" /\ jobs'[j].owner = v),
         \/ Backed(j) => Backed(j)'
         \/ Calm' => ~Held(jobs[j].delivery, j),
         \A d \in Deliveries : d = jobs[j].delivery =>
           Bit(Takable(j)') + Bit(w \in Posters(d)') + Credit(d)
             <= Bit(Takable(j)) + Bit(w \in Posters(d)) + Credit(d)'
  PROVE  IInv'
  <1> USE DEF IInv
  <1>1. BudgetOK' /\ (Calm' => Calm)
    BY BudgetKept
  <1>2. PICK d \in Deliveries : d = jobs[j].delivery
    BY DEF JobOK
  <1>3. \A i \in JobIds : jobs'[i].delivery = jobs[i].delivery
    OBVIOUS
  <1>4. UNCHANGED <<rows, log, deadEvents>>
    BY DEF tables
  <1>5. \A i \in JobIds : JobOK(i)'
    BY DEF JobOK
  <1>6. ASSUME NEW s \in Schedulers PROVE SchedulerOK(s)' /\ Reserving(s)' = Reserving(s)
    <2>1. \A r : Reserving(r)' = Reserving(r)
      BY DEF Reserving
    <2>2. Reserving(s) => schedulers[s].job \in JobIds
      BY DEF SchedulerOK
    <2>3. schedulers[s].step = "enqueue" =>
            jobs[schedulers[s].job].state = "none" /\ schedulers[s].job \in JobIds
      BY DEF SchedulerOK, Reserving
    <2> QED BY <1>3, <2>1, <2>2, <2>3 DEF SchedulerOK
  <1>7. ASSUME NEW v \in Slots \ {w}, slots[v].step # "idle"
        PROVE  /\ slots[v].job \in JobIds /\ DeliveryOf(v)' = DeliveryOf(v)
               /\ DeliveryOf(v) \in Deliveries
    <2>1. slots[v].job \in JobIds /\ slots'[v] = slots[v] /\ DeliveryOf(v) \in Deliveries
      BY <1>7, RunningSlot
    <2> QED BY <2>1, <1>3 DEF DeliveryOf
  <1>8. ASSUME NEW v \in Slots PROVE SlotOK(v)'
    <2>1. CASE v = w
      BY <2>1
    <2>2. CASE v # w /\ slots[v].step = "idle"
      BY <2>2 DEF SlotOK
    <2>3. CASE v # w /\ slots[v].step # "idle"
      <3>1. SlotOK(v) /\ slots'[v] = slots[v]
        BY <2>3
      <3>2. HoldsLock(v)' => HoldsLock(v) /\ jobs'[slots[v].job] = jobs[slots[v].job]
        BY <1>7, <2>3, <3>1 DEF HoldsLock
      <3>3. jobs'[slots[v].job].state # "none"
        BY <1>7, <2>3, <3>1 DEF SlotOK
      <3> QED BY <1>7, <2>3, <3>1, <3>2, <3>3 DEF SlotOK
    <2> QED BY <2>1, <2>2, <2>3
  <1>9. ASSUME NEW v \in Slots PROVE EndingOK(v)'
    <2>1. CASE v = w
      BY <2>1 DEF EndingOK
    <2>2. CASE v # w
      <3>1. slots'[v] = slots[v] /\ Ending(v)' = Ending(v) /\ EndingOK(v)
        BY <2>2 DEF Ending
      <3>2. Ending(v) => slots[v].step # "idle"
        BY DEF Ending
      <3> QED BY <1>1, <1>4, <1>7, <2>2, <3>1, <3>2 DEF EndingOK, Held
    <2> QED BY <2>1, <2>2
  <1>10. ASSUME NEW e \in Deliveries PROVE RowOK(e)'
    <2>1. rows[e].job \in JobIds \cup {None}
      BY DEF TypeOK, Row
    <2> QED BY <1>3, <1>4, <2>1 DEF RowOK
  <1>11. ASSUME NEW e \in Deliveries PROVE ReservedOK(e)'
    <2>1. SUFFICES ASSUME Calm', rows[e].status \in Open, rows[e].job # None
          PROVE  Backed(rows[e].job)'
      BY <1>4 DEF ReservedOK
    <2>2. PICK i \in JobIds : i = rows[e].job
      BY <2>1 DEF TypeOK, Row
    <2>3. Backed(i) /\ jobs[i].delivery = e
      BY <1>1, <2>1, <2>2 DEF ReservedOK, RowOK
    <2>4. Backed(i)'
      <3>1. CASE i = j
        BY <2>1, <2>2, <2>3, <3>1 DEF Held
      <3>2. CASE i # j
        BY <1>6, <2>3, <3>2 DEF Backed
      <3> QED BY <3>1, <3>2
    <2> QED BY <1>4, <2>2, <2>4
  <1>12. \A r \in Requests : RequestOK(r)'
    BY <1>4 DEF RequestOK
  <1>13. ASSUME NEW e \in Deliveries PROVE Paid(e)'
    <2>1. Cycles(e)' = Cycles(e)
      BY <1>6 DEF Cycles
    <2>2. Takables(e)' \ {j} = Takables(e) \ {j}
      <3>1. ASSUME NEW i \in JobIds \ {j} PROVE Takable(i)' = Takable(i)
        <4>1. jobs'[i] = jobs[i] /\ (jobs[i].state = "active" => jobs[i].owner \in Slots)
          BY DEF JobOK
        <4>2. jobs[i].state = "active" => Running(jobs[i].owner, i)' = Running(jobs[i].owner, i)
          BY <4>1 DEF Running
        <4> QED BY <4>1, <4>2 DEF Takable
      <3> QED BY <1>3, <3>1 DEF Takables
    <2>3. Posters(e)' \ {w} = Posters(e) \ {w}
      BY <1>7 DEF Posters, Posting
    <2>4. Credit(e) \in Int /\ Credit(e)' \in Int
      BY CreditType
    <2>5. Unreserved(e)' = Unreserved(e) /\ Unreserved(e) \in Nat
      BY <1>4 DEF Unreserved
    <2>6. \A x : Bit(x) \in Nat
      BY DEF Bit
    <2>7. accepted[e] \in Nat
      BY DEF TypeOK
    <2>8. Bit(j \in Takables(e)') + Bit(w \in Posters(e)') + Credit(e)
            <= Bit(j \in Takables(e)) + Bit(w \in Posters(e)) + Credit(e)'
      <3>1. CASE e = d
        <4>1. (j \in Takables(e)' <=> Takable(j)') /\ (j \in Takables(e) <=> Takable(j))
          BY <1>2, <3>1 DEF Takables
        <4>2. Bit(j \in Takables(e)') = Bit(Takable(j)') /\ Bit(j \in Takables(e)) = Bit(Takable(j))
          BY <4>1 DEF Bit
        <4> HIDE DEF IInv
        <4> QED BY <1>2, <3>1, <4>2
      <3>2. CASE e # d
        <4>1. j \notin Takables(e)' /\ j \notin Takables(e)
          BY <1>2, <3>2 DEF Takables
        <4>2. w \notin Posters(e)' /\ w \notin Posters(e)
          BY <1>2, <3>2 DEF Posters, Posting, DeliveryOf
        <4>3. /\ Bit(j \in Takables(e)') = 0 /\ Bit(w \in Posters(e)') = 0
              /\ Bit(j \in Takables(e)) = 0 /\ Bit(w \in Posters(e)) = 0
          BY <4>1, <4>2 DEF Bit
        <4>4. Credit(e)' >= Credit(e)
          <5>1. TypeOK /\ BudgetOK /\ Replays(e)' >= Replays(e)
            BY SameReplays, ReplaysCounted
          <5>2. log'[e].failed >= log[e].failed
            BY <1>4 DEF TypeOK
          <5> HIDE DEF IInv
          <5> QED BY <5>1, <5>2, CreditKept
        <4> QED BY <2>4, <4>3, <4>4
      <3> QED BY <3>1, <3>2
    <2> HIDE DEF IInv
    <2>9. \A x : accepted'[e] + Unreserved(e)' + Bit(x) + Bit(j \in Takables(e)')
              + Bit(w \in Posters(e)') + Credit(e)
            <= accepted[e] + Unreserved(e) + Bit(x) + Bit(j \in Takables(e))
              + Bit(w \in Posters(e)) + Credit(e)'
      BY <2>4, <2>5, <2>6, <2>7, <2>8
    <2> QED BY <2>1, <2>2, <2>3, <2>4, <2>9, PaidKept DEF IInv
  <1> QED BY <1>1, <1>5, <1>6, <1>8, <1>9, <1>10, <1>11, <1>12, <1>13

LEMMA CreditSame ==
  ASSUME TypeOK, TypeOK', BudgetOK, NEW d \in Deliveries,
         UNCHANGED <<tables, requests>>,
         budget' = budget \/ \E k \in FaultKinds : Fault(k)
  PROVE  /\ Credit(d) \in Int /\ Credit(d)' \in Int /\ Credit(d)' >= Credit(d)
         /\ Fault("stall") \/ Fault("redis") \/ Fault("sql") => Credit(d)' >= Credit(d) + 1
  <1>1. log'[d].failed >= log[d].failed
    BY DEF tables, TypeOK
  <1>2. Replays(d)' >= Replays(d)
    BY SameReplays, ReplaysCounted
  <1> QED BY <1>1, <1>2, CreditKept, CreditPays

LEMMA StartJobKeeps ==
  ASSUME IInv, NEW w \in Slots, NEW j \in JobIds, StartJob(w, j)
  PROVE  IInv'
  <1>1. TypeOK /\ BudgetOK /\ JobOK(j)
    BY DEF IInv
  <1>2. /\ slots[w].step = "idle" /\ jobs[j].state = "waiting"
        /\ UNCHANGED <<tables, endpoints, schedulers, deadLetters, accepted, requests, budget>>
    BY DEF StartJob
  <1>3. /\ jobs' \in [JobIds -> Job]
        /\ jobs'[j].state = "active" /\ jobs'[j].owner = w
        /\ jobs'[j].delivery = jobs[j].delivery /\ jobs'[j].made = jobs[j].made
        /\ jobs'[j].stalls = jobs[j].stalls
        /\ \A i \in JobIds \ {j} : jobs'[i] = jobs[i]
    BY <1>1 DEF StartJob, TypeOK, Job, JobStates
  <1>4. jobs[j].made \in 0 .. MaxAttempts /\ jobs[j].made < MaxAttempts /\ MaxAttempts \in Nat
    BY <1>1, <1>2, WebhookAssumption DEF TypeOK, Job, JobOK
  <1>5. PICK a \in 1 .. MaxAttempts : a = jobs[j].made + 1
    BY <1>4
  <1>6. /\ slots' \in [Slots -> Slot]
        /\ slots'[w] = [step |-> "find", job |-> j, attempt |-> a]
        /\ \A v \in Slots \ {w} : slots'[v] = slots[v]
    <2>1. [step |-> "find", job |-> j, attempt |-> a] \in Slot
      BY <1>4 DEF Slot, SlotSteps
    <2> QED BY <1>1, <1>5, <2>1 DEF StartJob, TypeOK
  <1>7. TypeOK'
    BY <1>1, <1>2, <1>3, <1>6 DEF TypeOK, tables
  <1>8. JobOK(j)'
    BY <1>1, <1>2, <1>3 DEF JobOK
  <1>9. SlotOK(w)' /\ ~Ending(w)'
    BY <1>3, <1>5, <1>6 DEF SlotOK, Ending, HoldsLock
  <1>10. Backed(j)'
    BY <1>3 DEF Backed
  <1>11. ASSUME NEW d \in Deliveries, d = jobs[j].delivery
         PROVE  Bit(Takable(j)') + Bit(w \in Posters(d)') + Credit(d)
                  <= Bit(Takable(j)) + Bit(w \in Posters(d)) + Credit(d)'
    <2>1. ~Takable(j)' /\ Takable(j) /\ w \notin Posters(d)
      BY <1>2, <1>3, <1>6 DEF Takable, Running, Posters, Posting
    <2>2. Bit(Takable(j)') = 0 /\ Bit(Takable(j)) = 1 /\ Bit(w \in Posters(d)) = 0
          /\ Bit(w \in Posters(d)') \in {0, 1}
      BY <2>1 DEF Bit
    <2>3. Credit(d) \in Int /\ Credit(d)' \in Int /\ Credit(d)' >= Credit(d)
      BY <1>1, <1>2, <1>7, CreditSame
    <2> QED BY <2>2, <2>3
  <1>12. jobs[j].state # "none" /\ jobs'[j].state # "none"
         /\ (slots[w].step # "idle" => slots[w].job = j)
         /\ (slots'[w].step # "idle" => slots'[w].job = j)
         /\ \A v \in Slots \ {w} : ~(jobs'[j].owner = v)
    BY <1>2, <1>3, <1>6
  <1> QED BY <1>2, <1>3, <1>6, <1>7, <1>8, <1>9, <1>10, <1>11, <1>12, QueueStep

LEMMA StalledKeeps ==
  ASSUME IInv, NEW j \in JobIds, jobs[j].state = "active", Stalled(j),
         UNCHANGED <<tables, endpoints, schedulers, deadLetters, slots, accepted, requests>>,
         \/ ~Running(jobs[j].owner, j) /\ budget' = budget
         \/ Fault("stall")
  PROVE  IInv'
  <1>1. TypeOK /\ BudgetOK /\ JobOK(j)
    BY DEF IInv
  <1>2. /\ jobs[j].stalls \in Nat /\ jobs[j].stalls <= MaxStalls /\ MaxStalls \in Nat
        /\ jobs[j].made < MaxAttempts
    BY <1>1, WebhookAssumption DEF JobOK, TypeOK, Job
  <1>3. /\ jobs' \in [JobIds -> Job]
        /\ jobs'[j].state = IF jobs[j].stalls < MaxStalls THEN "waiting" ELSE "failed"
        /\ jobs'[j].stalls = jobs[j].stalls + 1
        /\ jobs'[j].delivery = jobs[j].delivery /\ jobs'[j].made = jobs[j].made
        /\ \A i \in JobIds \ {j} : jobs'[i] = jobs[i]
    <2> DEFINE b == [jobs[j] EXCEPT
                       !.state = IF jobs[j].stalls < MaxStalls THEN "waiting" ELSE "failed",
                       !.stalls = @ + 1, !.owner = None]
    <2>1. jobs' = [jobs EXCEPT ![j] = b] /\ jobs \in [JobIds -> Job]
      BY <1>1 DEF Stalled, TypeOK
    <2>2. jobs[j].stalls + 1 \in 0 .. MaxStalls + 1
      BY <1>2
    <2>3. b \in Job
      BY <2>1, <2>2 DEF Job, JobStates
    <2>4. jobs'[j] = b /\ jobs[j] \in Job
      BY <2>1
    <2> QED BY <2>1, <2>3, <2>4 DEF Job
  <1>4. budget' = budget \/ \E k \in FaultKinds : Fault(k)
    BY DEF FaultKinds
  <1>5. TypeOK'
    BY <1>1, <1>3, <1>4, BudgetKept DEF TypeOK, tables
  <1>6. JobOK(j)'
    BY <1>1, <1>2, <1>3 DEF JobOK
  <1>7. Backed(j)'
    BY <1>2, <1>3 DEF Backed
  <1>8. PICK w : w \notin Slots
    BY WebhookAssumption
  <1>9. ASSUME NEW d \in Deliveries, d = jobs[j].delivery
        PROVE  Bit(Takable(j)') + Bit(w \in Posters(d)') + Credit(d)
                 <= Bit(Takable(j)) + Bit(w \in Posters(d)) + Credit(d)'
    <2>1. w \notin Posters(d) /\ w \notin Posters(d)'
      BY <1>8 DEF Posters
    <2>2. Bit(w \in Posters(d)) = 0 /\ Bit(w \in Posters(d)') = 0
      BY <2>1 DEF Bit
    <2>3. Credit(d) \in Int /\ Credit(d)' \in Int /\ Credit(d)' >= Credit(d)
          /\ (Fault("stall") => Credit(d)' >= Credit(d) + 1)
      BY <1>1, <1>4, <1>5, CreditSame
    <2>4. Bit(Takable(j)) \in {0, 1} /\ Bit(Takable(j)') \in {0, 1}
      BY DEF Bit
    <2>5. CASE ~Running(jobs[j].owner, j)
      <3>1. Bit(Takable(j)) = 1
        BY <2>5 DEF Takable, Bit
      <3> QED BY <2>2, <2>3, <2>4, <3>1
    <2>6. CASE Fault("stall")
      BY <2>2, <2>3, <2>4, <2>6
    <2> QED BY <2>5, <2>6
  <1> QED BY <1>3, <1>4, <1>5, <1>6, <1>7, <1>8, <1>9, QueueStep

LEMMA RecoverStalledJobKeeps ==
  ASSUME IInv, NEW j \in JobIds, RecoverStalledJob(j) \/ LoseJobLock(j)
  PROVE  IInv'
  BY StalledKeeps DEF RecoverStalledJob, LoseJobLock, tables

LEMMA CrashSlotKeeps ==
  ASSUME IInv, NEW w \in Slots, CrashSlot(w)
  PROVE  IInv'
  <1>1. TypeOK /\ BudgetOK
    BY DEF IInv
  <1>2. /\ slots[w].step # "idle" /\ Fault("stall")
        /\ UNCHANGED <<tables, endpoints, schedulers, jobs, deadLetters, accepted, requests>>
    BY DEF CrashSlot
  <1>3. PICK j \in JobIds : j = slots[w].job
    BY <1>2, RunningSlot
  <1>4. /\ slots' \in [Slots -> Slot] /\ slots'[w].step = "idle"
        /\ \A v \in Slots \ {w} : slots'[v] = slots[v]
    <2>1. Free \in Slot /\ Free.step = "idle"
      BY WebhookAssumption DEF Free, Slot, SlotSteps
    <2> QED BY <1>1, <2>1 DEF CrashSlot, TypeOK
  <1>5. \E k \in FaultKinds : Fault(k)
    BY <1>2 DEF FaultKinds
  <1>6. TypeOK'
    BY <1>1, <1>2, <1>4, <1>5, BudgetKept DEF TypeOK, tables
  <1>7. SlotOK(w)' /\ ~Ending(w)'
    BY <1>4 DEF SlotOK, Ending
  <1>8. Backed(j) => Backed(j)'
    BY <1>2 DEF Backed, Reserving
  <1>9. JobOK(j)' /\ jobs[j].state # "none"
    BY <1>2, <1>3 DEF IInv, JobOK, SlotOK
  <1>10. ASSUME NEW d \in Deliveries, d = jobs[j].delivery
         PROVE  Bit(Takable(j)') + Bit(w \in Posters(d)') + Credit(d)
                  <= Bit(Takable(j)) + Bit(w \in Posters(d)) + Credit(d)'
    <2>1. w \notin Posters(d)'
      BY <1>4 DEF Posters, Posting
    <2>2. Bit(w \in Posters(d)') = 0 /\ Bit(w \in Posters(d)) \in {0, 1}
          /\ Bit(Takable(j)) \in {0, 1} /\ Bit(Takable(j)') \in {0, 1}
      BY <2>1 DEF Bit
    <2>3. Credit(d) \in Int /\ Credit(d)' \in Int /\ Credit(d)' >= Credit(d) + 1
      BY <1>1, <1>2, <1>5, <1>6, CreditSame
    <2> QED BY <2>2, <2>3
  <1>11. jobs'[j] = jobs[j] /\ \A i \in JobIds \ {j} : jobs'[i] = jobs[i]
    BY <1>2
  <1> QED BY <1>2, <1>3, <1>4, <1>5, <1>6, <1>7, <1>8, <1>9, <1>10, <1>11, QueueStep

\* BullMQ settles an attempt: the job is over only if its end is known, and it
\* is taken again only at the price of the attempt that ends.
LEMMA SettleStep ==
  ASSUME IInv, NEW w \in Slots, slots[w].step \in {"complete", "settle"},
         NEW j \in JobIds, j = slots[w].job, NEW settled \in Job, SettleJob(w, settled),
         settled.delivery = jobs[j].delivery, settled.owner = None,
         settled.state \in {"waiting", "completed", "failed"},
         settled.stalls = jobs[j].stalls, jobs[j].made <= settled.made,
         HoldsLock(w) =>
           /\ settled.state = "waiting" => settled.made < MaxAttempts /\ slots[w].step = "settle"
           /\ settled.state # "waiting" => Ending(w)
  PROVE  IInv'
  <1>1. TypeOK /\ BudgetOK /\ JobOK(j) /\ SlotOK(w) /\ EndingOK(w)
    BY DEF IInv
  <1>2. /\ jobs' = IF HoldsLock(w) THEN [jobs EXCEPT ![j] = settled] ELSE jobs
        /\ slots' = [slots EXCEPT ![w] = Free]
        /\ UNCHANGED <<tables, endpoints, schedulers, deadLetters, accepted, requests, budget>>
    BY DEF SettleJob, HoldsLock
  <1>3. /\ slots' \in [Slots -> Slot] /\ slots'[w].step = "idle"
        /\ \A v \in Slots \ {w} : slots'[v] = slots[v]
    <2>1. Free \in Slot /\ Free.step = "idle"
      BY WebhookAssumption DEF Free, Slot, SlotSteps
    <2> QED BY <1>1, <1>2, <2>1 DEF TypeOK
  <1>4. /\ jobs' \in [JobIds -> Job]
        /\ HoldsLock(w) => jobs'[j] = settled
        /\ ~HoldsLock(w) => jobs'[j] = jobs[j]
        /\ \A i \in JobIds \ {j} : jobs'[i] = jobs[i]
    BY <1>1, <1>2 DEF TypeOK
  <1>5. TypeOK'
    BY <1>1, <1>2, <1>3, <1>4 DEF TypeOK, tables
  <1>6. SlotOK(w)' /\ ~Ending(w)'
    BY <1>3 DEF SlotOK, Ending
  <1>7. jobs[j].state # "none" /\ jobs'[j].state # "none" /\ jobs'[j].delivery = jobs[j].delivery
    BY <1>1, <1>4 DEF SlotOK
  <1>8. JobOK(j)'
    <2>1. CASE HoldsLock(w)
      <3>1. jobs[j].stalls <= MaxStalls /\ jobs[j].delivery \in Deliveries
        BY <1>1, <2>1 DEF HoldsLock, JobOK
      <3> QED BY <1>4, <2>1, <3>1 DEF JobOK
    <2>2. CASE ~HoldsLock(w)
      BY <1>1, <1>4, <2>2 DEF JobOK
    <2> QED BY <2>1, <2>2
  <1>9. (Backed(j) => Backed(j)') \/ (Calm' => ~Held(jobs[j].delivery, j))
    <2>1. CASE ~HoldsLock(w)
      BY <1>2, <1>4, <2>1 DEF Backed, Reserving
    <2>2. CASE HoldsLock(w) /\ settled.state = "waiting"
      BY <1>4, <2>2 DEF Backed
    <2>3. CASE HoldsLock(w) /\ settled.state # "waiting"
      <3>1. Ending(w) /\ Calm' = Calm
        BY <1>2, <2>3 DEF Calm
      <3>2. Calm => ~Held(DeliveryOf(w), slots[w].job)
        BY <1>1, <3>1 DEF EndingOK
      <3> QED BY <3>1, <3>2 DEF DeliveryOf
    <2> QED BY <2>1, <2>2, <2>3
  <1>10. jobs'[j] = jobs[j] \/ \A v \in Slots \ {w} : ~(jobs'[j].state = "active" /\ jobs'[j].owner = v)
    BY <1>4
  <1>11. ASSUME NEW d \in Deliveries, d = jobs[j].delivery
         PROVE  Bit(Takable(j)') + Bit(w \in Posters(d)') + Credit(d)
                  <= Bit(Takable(j)) + Bit(w \in Posters(d)) + Credit(d)'
    <2>1. w \notin Posters(d)' /\ (slots[w].step = "settle" => w \in Posters(d))
      BY <1>3, <1>11 DEF Posters, Posting, DeliveryOf
    <2>2. Bit(w \in Posters(d)') = 0 /\ Bit(w \in Posters(d)) \in {0, 1}
          /\ Bit(Takable(j)) \in {0, 1} /\ Bit(Takable(j)') \in {0, 1}
          /\ (slots[w].step = "settle" => Bit(w \in Posters(d)) = 1)
      BY <2>1 DEF Bit
    <2>3. Credit(d) \in Int /\ Credit(d)' \in Int /\ Credit(d)' >= Credit(d)
      BY <1>1, <1>2, <1>5, CreditSame
    <2>4. Takable(j)' => Takable(j) \/ slots[w].step = "settle"
      <3>1. CASE HoldsLock(w)
        BY <1>4, <3>1 DEF Takable
      <3>2. CASE ~HoldsLock(w)
        <4>1. jobs'[j] = jobs[j]
          BY <1>4, <3>2
        <4>2. jobs[j].state = "active" => jobs[j].owner \in Slots \ {w}
          BY <1>1, <3>2 DEF JobOK, HoldsLock
        <4> QED BY <1>3, <4>1, <4>2 DEF Takable, Running
      <3> QED BY <3>1, <3>2
    <2>5. Bit(Takable(j)') <= Bit(Takable(j)) \/ slots[w].step = "settle"
      BY <2>4 DEF Bit
    <2> QED BY <2>2, <2>3, <2>5
  <1>12. slots[w].step # "idle" => slots[w].job = j
    OBVIOUS
  <1> QED BY <1>2, <1>3, <1>4, <1>5, <1>6, <1>7, <1>8, <1>9, <1>10, <1>11, <1>12, QueueStep

LEMMA CompleteJobKeeps ==
  ASSUME IInv, NEW w \in Slots, CompleteJob(w)
  PROVE  IInv'
  <1>1. slots[w].step = "complete" /\ TypeOK
    BY DEF CompleteJob, IInv
  <1>2. PICK j \in JobIds : j = slots[w].job
    BY <1>1, RunningSlot
  <1>3. jobs[j] \in Job /\ jobs[j].made \in Nat
    BY <1>1 DEF TypeOK, Job
  <1>4. PICK settled \in Job : settled = [jobs[j] EXCEPT !.state = "completed", !.owner = None]
    BY <1>3 DEF Job, JobStates
  <1>5. /\ settled.delivery = jobs[j].delivery /\ settled.owner = None
        /\ settled.state = "completed"
        /\ settled.stalls = jobs[j].stalls /\ jobs[j].made <= settled.made
    BY <1>3, <1>4 DEF Job
  <1>6. SettleJob(w, settled)
    BY <1>2, <1>4 DEF CompleteJob
  <1>7. Ending(w)
    BY <1>1 DEF Ending
  <1> QED BY <1>1, <1>2, <1>5, <1>6, <1>7, SettleStep

LEMMA FailAttemptKeeps ==
  ASSUME IInv, NEW w \in Slots, FailAttempt(w)
  PROVE  IInv'
  <1>1. slots[w].step = "settle" /\ TypeOK
    BY DEF FailAttempt, IInv
  <1>2. PICK j \in JobIds : j = slots[w].job
    BY <1>1, RunningSlot
  <1>3. jobs[j] \in Job /\ jobs[j].made \in 0 .. MaxAttempts /\ MaxAttempts \in Nat
    BY <1>1, WebhookAssumption DEF TypeOK, Job
  <1> DEFINE made == jobs[j].made + 1
             b == [jobs[j] EXCEPT !.state = IF made < MaxAttempts THEN "waiting" ELSE "failed",
                                  !.made = made, !.owner = None]
  <1>4. SettleJob(w, b)
    BY <1>2 DEF FailAttempt
  <1>5. CASE HoldsLock(w)
    <2>1. jobs[j].made < MaxAttempts /\ slots[w].attempt = made
      BY <1>1, <1>2, <1>5 DEF IInv, JobOK, SlotOK, HoldsLock
    <2>2. PICK settled \in Job : settled = b
      <3>1. made \in 0 .. MaxAttempts
        BY <1>3, <2>1
      <3> HIDE DEF made
      <3> QED BY <1>3, <3>1 DEF Job, JobStates
    <2>3. /\ settled.delivery = jobs[j].delivery /\ settled.owner = None
          /\ settled.state = IF made < MaxAttempts THEN "waiting" ELSE "failed"
          /\ settled.stalls = jobs[j].stalls /\ settled.made = made
      BY <1>3, <2>2 DEF Job
    <2>4. settled.state # "waiting" => Ending(w)
      BY <1>1, <1>3, <2>1, <2>3 DEF Ending
    <2>5. jobs[j].made <= settled.made /\ settled.state \in {"waiting", "failed"}
          /\ (settled.state = "waiting" => settled.made < MaxAttempts)
      BY <1>3, <2>3
    <2>6. SettleJob(w, settled)
      BY <1>4, <2>2
    <2> HIDE DEF b, made
    <2> QED BY <1>1, <1>2, <2>3, <2>4, <2>5, <2>6, SettleStep
  <1>6. CASE ~HoldsLock(w)
    <2>1. PICK settled \in Job : settled = [jobs[j] EXCEPT !.state = "failed", !.owner = None]
      BY <1>3 DEF Job, JobStates
    <2>2. SettleJob(w, settled)
      BY <1>2, <1>4, <1>6 DEF SettleJob, HoldsLock
    <2>3. /\ settled.delivery = jobs[j].delivery /\ settled.owner = None
          /\ settled.state = "failed"
          /\ settled.stalls = jobs[j].stalls /\ jobs[j].made <= settled.made
      BY <1>3, <2>1 DEF Job
    <2> QED BY <1>1, <1>2, <1>6, <2>2, <2>3, SettleStep
  <1> QED BY <1>5, <1>6

-----------------------------------------------------------------------------
(* Cycles with a reservation *)

\* A job that was not drawn belongs to no delivery, cycle, slot or row.
LEMMA UndrawnJob ==
  ASSUME IInv, NEW j \in JobIds, jobs[j].delivery = None
  PROVE  /\ jobs[j].state = "none"
         /\ \A r \in Schedulers : Reserving(r) => schedulers[r].job # j
  <1>1. None \notin Deliveries
    BY WebhookAssumption
  <1> QED BY <1>1 DEF IInv, JobOK, SchedulerOK

\* A step of cycle s on the reservation of job j for delivery d.
LEMMA CycleStep ==
  ASSUME IInv, TypeOK', NEW s \in Schedulers, NEW d \in Deliveries, NEW j \in JobIds,
         \A r \in Schedulers \ {s} : schedulers'[r] = schedulers[r],
         \A e \in Deliveries \ {d} : rows'[e] = rows[e],
         \A i \in JobIds \ {j} : jobs'[i] = jobs[i],
         UNCHANGED <<log, slots, accepted, requests>>,
         budget' = budget \/ \E k \in FaultKinds : Fault(k),
         Reserving(s) => schedulers[s].job = j /\ schedulers[s].delivery = d,
         Reserving(s)' => schedulers'[s].job = j /\ schedulers'[s].delivery = d,
         schedulers'[s].step = "enqueue" => jobs'[j].state = "none",
         \A r \in Schedulers \ {s} : Reserving(r) => schedulers[r].job # j,
         rows'[d].status = rows[d].status,
         \/ rows'[d].job \in {rows[d].job, None}
         \/ rows'[d].job = j /\ Reservable(d) /\ jobs[j].state = "none",
         jobs[j].delivery \in {None, d}, jobs'[j].delivery = d,
         jobs[j].state = "none" \/ jobs'[j] = jobs[j],
         JobOK(j)',
         Calm' /\ rows'[d].job = j => Backed(j)',
         Unreserved(d)' + Bit(Reserving(s)') + Bit(Takable(j)') + Credit(d)
           <= Unreserved(d) + Bit(Reserving(s)) + Bit(Takable(j)) + Credit(d)'
  PROVE  IInv'
  <1> USE DEF IInv
  <1>1. BudgetOK' /\ (Calm' => Calm)
    BY BudgetKept
  <1>2. jobs[j].delivery = None => jobs[j].state = "none"
    BY UndrawnJob
  <1>3. \A i \in JobIds : JobOK(i)'
    BY DEF JobOK
  <1>4. \A r \in Schedulers \ {s} : Reserving(r)' = Reserving(r)
    BY DEF Reserving
  <1>5. ASSUME NEW r \in Schedulers PROVE SchedulerOK(r)'
    <2>1. \A q \in Schedulers : Reserving(r)' /\ Reserving(q)' /\ schedulers'[q].job = schedulers'[r].job => q = r
      <3>1. ASSUME NEW q \in Schedulers, Reserving(r)', Reserving(q)',
                   schedulers'[q].job = schedulers'[r].job, q # r
            PROVE  FALSE
        <4>1. CASE r # s /\ q # s
          <5>1. /\ Reserving(r) /\ Reserving(q) /\ schedulers[q].job = schedulers[r].job
            BY <1>4, <3>1, <4>1
          <5> QED BY <5>1, <3>1 DEF SchedulerOK
        <4>2. CASE r = s
          <5>1. q \in Schedulers \ {s} /\ schedulers'[r].job = j
            BY <3>1, <4>2
          <5> QED BY <1>4, <3>1, <5>1
        <4>3. CASE q = s
          <5>1. r \in Schedulers \ {s} /\ schedulers'[q].job = j
            BY <3>1, <4>3
          <5> QED BY <1>4, <3>1, <5>1
        <4> QED BY <4>1, <4>2, <4>3
      <3> QED BY <3>1
    <2>2. CASE r = s
      <3>1. schedulers'[r].step = "enqueue" => Reserving(r)'
        BY DEF Reserving
      <3> QED BY <2>1, <2>2, <3>1 DEF SchedulerOK
    <2>3. CASE r # s
      <3>1. schedulers'[r] = schedulers[r] /\ SchedulerOK(r)
        BY <2>3
      <3>2. schedulers[r].step = "enqueue" => Reserving(r)
        BY DEF Reserving
      <3>3. Reserving(r) => schedulers[r].job \in JobIds \ {j}
        BY <2>3 DEF SchedulerOK
      <3>4. Reserving(r)' = Reserving(r)
        BY <1>4, <2>3
      <3> QED BY <2>1, <3>1, <3>2, <3>3, <3>4 DEF SchedulerOK
    <2> QED BY <2>2, <2>3
  <1>6. ASSUME NEW v \in Slots, slots[v].step # "idle"
        PROVE  /\ slots[v].job \in JobIds /\ jobs[slots[v].job].state # "none"
               /\ jobs'[slots[v].job] = jobs[slots[v].job]
               /\ DeliveryOf(v)' = DeliveryOf(v) /\ DeliveryOf(v) \in Deliveries
    <2>1. slots[v].job \in JobIds /\ jobs[slots[v].job].state # "none"
      BY <1>6 DEF SlotOK
    <2>2. jobs'[slots[v].job] = jobs[slots[v].job]
      BY <2>1
    <2> QED BY <1>6, <2>1, <2>2, RunningSlot DEF DeliveryOf
  <1>7. ASSUME NEW v \in Slots PROVE SlotOK(v)'
    BY <1>6 DEF SlotOK, HoldsLock
  <1>8. ASSUME NEW v \in Slots PROVE EndingOK(v)'
    <2>1. Ending(v)' = Ending(v) /\ (Ending(v) => slots[v].step # "idle")
      BY DEF Ending
    <2>2. ASSUME Ending(v), Held(DeliveryOf(v), slots[v].job)'
          PROVE  Held(DeliveryOf(v), slots[v].job)
      <3>1. PICK e \in Deliveries : e = DeliveryOf(v) /\ e = DeliveryOf(v)'
        BY <1>6, <2>1, <2>2
      <3>2. rows'[e].status \in Open /\ rows'[e].job = slots[v].job
        BY <2>2, <3>1 DEF Held
      <3>3. slots[v].job # None
        BY <2>1, <2>2, RunningSlot
      <3>4. CASE e # d
        BY <3>1, <3>2, <3>4 DEF Held
      <3>5. CASE e = d
        <4>1. rows'[d].job # j \/ jobs[j].state # "none"
          BY <1>6, <2>1, <2>2, <3>2, <3>5
        <4> QED BY <3>1, <3>2, <3>3, <3>5, <4>1 DEF Held
      <3> QED BY <3>4, <3>5
    <2> QED BY <1>1, <2>1, <2>2 DEF EndingOK
  <1>9. ASSUME NEW e \in Deliveries PROVE RowOK(e)'
    <2>1. rows[e].job \in JobIds \cup {None}
      BY DEF TypeOK, Row
    <2>2. CASE e # d
      <3>1. rows'[e] = rows[e] /\ RowOK(e)
        BY <2>2
      <3>2. rows[e].job # None => rows[e].job \in JobIds \ {j} /\ jobs[rows[e].job].delivery = e
        BY <2>1, <2>2, <3>1, WebhookAssumption DEF RowOK
      <3> QED BY <3>1, <3>2 DEF RowOK
    <2>3. CASE e = d
      <3>1. RowOK(d)
        OBVIOUS
      <3>2. rows'[d].job # None => jobs'[rows'[d].job].delivery = d
        BY <2>1, <2>3, <3>1 DEF RowOK
      <3>3. rows'[d].status \in {"none", "missing"} => rows'[d].job = None
        BY <3>1 DEF RowOK, Reservable, Open
      <3> QED BY <2>3, <3>1, <3>2, <3>3 DEF RowOK
    <2> QED BY <2>2, <2>3
  <1>10. ASSUME NEW e \in Deliveries PROVE ReservedOK(e)'
    <2>1. rows'[e].job \in JobIds \cup {None}
      BY DEF TypeOK, Row
    <2>2. SUFFICES ASSUME NEW i \in JobIds, i = rows'[e].job,
                          Calm', rows'[e].status \in Open, rows'[e].job # None
          PROVE  Backed(i)'
      BY <2>1 DEF ReservedOK
    <2>3. CASE i = j
      <3>1. jobs'[j].delivery = e
        BY <1>9, <2>1, <2>2, <2>3 DEF RowOK
      <3>2. e = d
        BY <3>1
      <3> QED BY <2>2, <2>3, <3>2
    <2>4. CASE i # j
      <3>1. rows[e].job = i /\ rows[e].status \in Open
        BY <2>2, <2>4
      <3>2. Backed(i)
        BY <1>1, <2>2, <3>1 DEF ReservedOK
      <3>3. jobs'[i] = jobs[i]
        BY <2>4
      <3>4. ASSUME NEW r \in Schedulers, Reserving(r), schedulers[r].job = i
            PROVE  Reserving(r)' /\ schedulers'[r].job = i
        BY <1>4, <2>4, <3>4
      <3>5. (\E r \in Schedulers : Reserving(r) /\ schedulers[r].job = i)
              => \E r \in Schedulers : Reserving(r)' /\ schedulers'[r].job = i
        BY <3>4
      <3> QED BY <3>2, <3>3, <3>5 DEF Backed
    <2> QED BY <2>3, <2>4
  <1>11. \A r \in Requests : RequestOK(r)'
    BY DEF RequestOK
  <1>12. ASSUME NEW e \in Deliveries PROVE Paid(e)'
    <2>1. Cycles(e)' \ {s} = Cycles(e) \ {s}
      BY <1>4 DEF Cycles
    <2>2. Takables(e)' \ {j} = Takables(e) \ {j}
      BY DEF Takables, Takable, Running
    <2>3. Posters(e)' = Posters(e)
      <3>1. \A v \in Slots : Posting(v)' = Posting(v) /\ (Posting(v) => slots[v].step # "idle")
        BY DEF Posting
      <3> QED BY <1>6, <3>1 DEF Posters
    <2>4. Credit(e) \in Int /\ Credit(e)' \in Int
      BY CreditType
    <2>5. Unreserved(e) \in Nat /\ Unreserved(e)' \in Nat
      BY DEF Unreserved
    <2>6. \A x : Bit(x) \in Nat
      BY DEF Bit
    <2>7. accepted[e] \in Nat
      BY DEF TypeOK
    <2>8. Unreserved(e)' + Bit(s \in Cycles(e)') + Bit(j \in Takables(e)') + Credit(e)
            <= Unreserved(e) + Bit(s \in Cycles(e)) + Bit(j \in Takables(e)) + Credit(e)'
      <3>1. CASE e = d
        <4>1. (s \in Cycles(e)' <=> Reserving(s)') /\ (s \in Cycles(e) <=> Reserving(s))
          BY <3>1 DEF Cycles
        <4>2. (j \in Takables(e)' <=> Takable(j)') /\ (j \in Takables(e) <=> Takable(j))
          <5>1. jobs[j].delivery = None => ~Takable(j)
            BY <1>2 DEF Takable
          <5> QED BY <1>2, <3>1 DEF Takables, Takable
        <4>3. /\ Bit(s \in Cycles(e)') = Bit(Reserving(s)') /\ Bit(s \in Cycles(e)) = Bit(Reserving(s))
              /\ Bit(j \in Takables(e)') = Bit(Takable(j)') /\ Bit(j \in Takables(e)) = Bit(Takable(j))
          BY <4>1, <4>2 DEF Bit
        <4> HIDE DEF IInv
        <4> QED BY <3>1, <4>3
      <3>2. CASE e # d
        <4>1. s \notin Cycles(e)' /\ s \notin Cycles(e)
          BY <3>2 DEF Cycles
        <4>2. j \notin Takables(e)' /\ j \notin Takables(e)
          BY <3>2, WebhookAssumption DEF Takables
        <4>3. /\ Bit(s \in Cycles(e)') = 0 /\ Bit(s \in Cycles(e)) = 0
              /\ Bit(j \in Takables(e)') = 0 /\ Bit(j \in Takables(e)) = 0
          BY <4>1, <4>2 DEF Bit
        <4>4. Unreserved(e)' = Unreserved(e)
          BY <3>2 DEF Unreserved
        <4>5. Credit(e)' >= Credit(e)
          <5>1. TypeOK /\ BudgetOK /\ Replays(e)' >= Replays(e)
            BY SameReplays, ReplaysCounted
          <5>2. log'[e].failed >= log[e].failed
            BY DEF TypeOK
          <5> HIDE DEF IInv
          <5> QED BY <5>1, <5>2, CreditKept
        <4> QED BY <2>4, <2>5, <4>3, <4>4, <4>5
      <3> QED BY <3>1, <3>2
    <2> HIDE DEF IInv
    <2>9. \A x : accepted'[e] + Unreserved(e)' + Bit(s \in Cycles(e)') + Bit(j \in Takables(e)')
              + Bit(x) + Credit(e)
            <= accepted[e] + Unreserved(e) + Bit(s \in Cycles(e)) + Bit(j \in Takables(e))
              + Bit(x) + Credit(e)'
      BY <2>4, <2>5, <2>6, <2>7, <2>8
    <2> QED BY <2>1, <2>2, <2>3, <2>4, <2>9, PaidKept DEF IInv
  <1> QED BY <1>1, <1>3, <1>5, <1>7, <1>8, <1>9, <1>10, <1>11, <1>12

\* The cycle that ends or goes on without a reservation.
LEMMA CycleMoves ==
  ASSUME TypeOK, NEW s \in Schedulers,
         \/ \E todo \in SUBSET Deliveries : Continue(s, todo)
         \/ EndCycle(s)
  PROVE  /\ schedulers' \in [Schedulers -> Scheduler]
         /\ schedulers'[s].step \notin {"enqueue", "release"} /\ ~Reserving(s)'
         /\ \A r \in Schedulers \ {s} : schedulers'[r] = schedulers[r]
  <1>1. NoCycle \in Scheduler
    BY WebhookAssumption DEF NoCycle, Scheduler, SchedulerSteps
  <1>2. PICK c \in Scheduler : schedulers' = [schedulers EXCEPT ![s] = c]
                               /\ c.step \notin {"enqueue", "release"}
    <2>1. CASE EndCycle(s)
      BY <1>1, <2>1 DEF EndCycle, NoCycle
    <2>2. CASE \E todo \in SUBSET Deliveries : Continue(s, todo)
      <3>1. PICK todo \in SUBSET Deliveries : Continue(s, todo)
        BY <2>2
      <3> DEFINE c == [NoCycle EXCEPT !.step = IF todo = {} THEN "idle" ELSE "reserve", !.todo = todo]
      <3>2. c \in Scheduler
        BY <1>1 DEF Scheduler, SchedulerSteps
      <3>3. c.step \notin {"enqueue", "release"}
        BY DEF NoCycle
      <3> QED BY <3>1, <3>2, <3>3 DEF Continue
    <2> QED BY <2>1, <2>2
  <1>3. schedulers \in [Schedulers -> Scheduler]
    BY DEF TypeOK
  <1>4. schedulers'[s] = c /\ schedulers' \in [Schedulers -> Scheduler]
    BY <1>2, <1>3
  <1> QED BY <1>2, <1>3, <1>4 DEF Reserving

LEMMA UnreservedBit ==
  ASSUME NEW d
  PROVE  Unreserved(d) = Bit(rows[d].job = None) /\ Unreserved(d)' = Bit(rows'[d].job = None)
  BY DEF Unreserved, Bit

\* What the UPDATE of reserveQueueJob does.
LEMMA ReservationSets ==
  ASSUME IInv, NEW d \in Deliveries, NEW j \in JobIds, Reservable(d), FreshJob(j),
         CommitReservation(d, j)
  PROVE  /\ rows' \in [Deliveries -> Row] /\ jobs' \in [JobIds -> Job]
         /\ rows'[d].job = j /\ rows'[d].status = rows[d].status
         /\ rows[d].job = None /\ rows[d].status \in Open
         /\ \A e \in Deliveries \ {d} : rows'[e] = rows[e]
         /\ jobs[j].state = "none" /\ jobs[j].delivery = None
         /\ jobs'[j].state = "none" /\ jobs'[j].delivery = d
         /\ JobOK(j)' /\ ~Takable(j) /\ ~Takable(j)'
         /\ \A i \in JobIds \ {j} : jobs'[i] = jobs[i]
         /\ \A r \in Schedulers : Reserving(r) => schedulers[r].job # j
  <1>1. TypeOK /\ JobOK(j)
    BY DEF IInv
  <1>2. jobs[j].delivery = None /\ jobs[j].state = "none"
    BY UndrawnJob DEF FreshJob
  <1>3. /\ rows' \in [Deliveries -> Row] /\ rows'[d].job = j /\ rows'[d].status = rows[d].status
        /\ \A e \in Deliveries \ {d} : rows'[e] = rows[e]
    BY <1>1 DEF CommitReservation, TypeOK, Row
  <1>4. /\ jobs' \in [JobIds -> Job] /\ jobs'[j].state = jobs[j].state /\ jobs'[j].delivery = d
        /\ jobs'[j].made = jobs[j].made /\ jobs'[j].stalls = jobs[j].stalls
        /\ \A i \in JobIds \ {j} : jobs'[i] = jobs[i]
    BY <1>1 DEF CommitReservation, TypeOK, Job
  <1>5. JobOK(j)' /\ ~Takable(j) /\ ~Takable(j)'
    BY <1>1, <1>2, <1>4 DEF JobOK, Takable
  <1> QED BY <1>2, <1>3, <1>4, <1>5, UndrawnJob DEF Reservable

\* The reservation, with the next state of the cycle: enqueue, or ended by an
\* error although the transaction was committed.
LEMMA ReserveStep ==
  ASSUME IInv, NEW s \in Schedulers, schedulers[s].step = "reserve",
         NEW d \in Deliveries, NEW j \in JobIds, Reservable(d), FreshJob(j),
         CommitReservation(d, j),
         schedulers' \in [Schedulers -> Scheduler],
         \A r \in Schedulers \ {s} : schedulers'[r] = schedulers[r],
         \/ /\ schedulers'[s].step = "enqueue" /\ schedulers'[s].job = j
            /\ schedulers'[s].delivery = d /\ budget' = budget
         \/ ~Reserving(s)' /\ Fault("sql"),
         UNCHANGED <<log, deadEvents, endpoints, deadLetters, slots, accepted, requests>>
  PROVE  IInv'
  <1>1. TypeOK /\ BudgetOK
    BY DEF IInv
  <1>2. /\ rows' \in [Deliveries -> Row] /\ jobs' \in [JobIds -> Job]
        /\ rows'[d].job = j /\ rows'[d].status = rows[d].status
        /\ rows[d].job = None /\ rows[d].status \in Open
        /\ \A e \in Deliveries \ {d} : rows'[e] = rows[e]
        /\ jobs[j].state = "none" /\ jobs[j].delivery = None
        /\ jobs'[j].state = "none" /\ jobs'[j].delivery = d
        /\ JobOK(j)' /\ ~Takable(j) /\ ~Takable(j)'
        /\ \A i \in JobIds \ {j} : jobs'[i] = jobs[i]
        /\ \A r \in Schedulers : Reserving(r) => schedulers[r].job # j
    BY ReservationSets
  <1>3. budget' = budget \/ \E k \in FaultKinds : Fault(k)
    BY DEF FaultKinds
  <1>4. TypeOK'
    BY <1>1, <1>2, <1>3, BudgetKept DEF TypeOK
  <1>5. ~Reserving(s)
    BY DEF Reserving
  <1>6. Calm' => Backed(j)'
    <2>1. CASE Fault("sql")
      BY <1>1, <2>1, NotCalm
    <2>2. CASE schedulers'[s].step = "enqueue" /\ schedulers'[s].job = j
      BY <2>2 DEF Backed, Reserving
    <2> QED BY <2>1, <2>2
  <1>7. schedulers'[s].step = "enqueue" \/ ~Reserving(s)'
    OBVIOUS
  <1>8. Reserving(s)' => schedulers'[s].job = j /\ schedulers'[s].delivery = d
    OBVIOUS
  <1>9. Unreserved(d)' + Bit(Reserving(s)') + Bit(Takable(j)') + Credit(d)
          <= Unreserved(d) + Bit(Reserving(s)) + Bit(Takable(j)) + Credit(d)'
    <2>1. j # None
      BY WebhookAssumption
    <2>2. /\ Unreserved(d)' = 0 /\ Unreserved(d) = 1
      BY <1>2, <2>1 DEF Unreserved
    <2>3. Bit(Reserving(s)) = 0 /\ Bit(Takable(j)) = 0 /\ Bit(Takable(j)') = 0
          /\ Bit(Reserving(s)') \in {0, 1}
      BY <1>2, <1>5 DEF Bit
    <2>4. Replays(d)' >= Replays(d)
      BY SameReplays, ReplaysCounted
    <2>5. log'[d].failed >= log[d].failed
      BY <1>1 DEF TypeOK
    <2>6. Credit(d) \in Int /\ Credit(d)' \in Int /\ Credit(d)' >= Credit(d)
      BY <1>1, <1>3, <1>4, <2>4, <2>5, CreditKept
    <2> QED BY <2>2, <2>3, <2>6
  <1>10. /\ \A r \in Schedulers \ {s} : Reserving(r) => schedulers[r].job # j
         /\ rows'[d].job = j /\ Reservable(d) /\ jobs[j].state = "none"
         /\ jobs[j].delivery \in {None, d} /\ jobs'[j].delivery = d
    BY <1>2
  <1> QED BY <1>2, <1>3, <1>4, <1>5, <1>6, <1>8, <1>9, <1>10, CycleStep

LEMMA ReserveQueueJobKeeps ==
  ASSUME IInv, NEW s \in Schedulers, ReserveQueueJob(s)
  PROVE  IInv'
  <1>1. TypeOK /\ schedulers[s] \in Scheduler
    BY DEF IInv, TypeOK
  <1>2. PICK d \in schedulers[s].todo :
          \/ /\ Reservable(d)
             /\ \E j \in JobIds :
                  /\ FreshJob(j)
                  /\ CommitReservation(d, j)
                  /\ schedulers' = [schedulers EXCEPT ![s] =
                       [step |-> "enqueue", todo |-> @.todo \ {d}, delivery |-> d, job |-> j]]
          \/ /\ ~Reservable(d)
             /\ Continue(s, schedulers[s].todo \ {d})
             /\ UNCHANGED <<rows, jobs>>
    BY DEF ReserveQueueJob
  <1>3. /\ schedulers[s].step = "reserve" /\ ~Reserving(s)
        /\ UNCHANGED <<log, deadEvents, endpoints, deadLetters, slots, accepted, requests, budget>>
    BY DEF ReserveQueueJob, Reserving
  <1>4. schedulers[s].todo \in SUBSET Deliveries /\ d \in Deliveries
        /\ schedulers[s].todo \ {d} \in SUBSET Deliveries
    BY <1>1 DEF Scheduler
  <1>5. CASE Reservable(d)
    <2>1. PICK j \in JobIds :
            /\ FreshJob(j) /\ CommitReservation(d, j)
            /\ schedulers' = [schedulers EXCEPT ![s] =
                 [step |-> "enqueue", todo |-> @.todo \ {d}, delivery |-> d, job |-> j]]
      BY <1>2, <1>5
    <2>2. [step |-> "enqueue", todo |-> schedulers[s].todo \ {d}, delivery |-> d, job |-> j]
            \in Scheduler
      BY <1>4 DEF Scheduler, SchedulerSteps
    <2>3. /\ schedulers' \in [Schedulers -> Scheduler]
          /\ \A r \in Schedulers \ {s} : schedulers'[r] = schedulers[r]
          /\ schedulers'[s].step = "enqueue" /\ schedulers'[s].job = j
          /\ schedulers'[s].delivery = d
      BY <1>1, <2>1, <2>2 DEF TypeOK
    <2> QED BY <1>3, <1>4, <1>5, <2>1, <2>3, ReserveStep
  <1>6. CASE ~Reservable(d)
    <2>1. Continue(s, schedulers[s].todo \ {d}) /\ UNCHANGED <<rows, jobs>>
      BY <1>2, <1>6
    <2>2. /\ schedulers' \in [Schedulers -> Scheduler]
          /\ schedulers'[s].step \notin {"enqueue", "release"}
          /\ \A r \in Schedulers \ {s} : schedulers'[r] = schedulers[r]
      BY <1>1, <1>4, <2>1, CycleMoves
    <2> QED BY <1>3, <2>1, <2>2, CycleOnly DEF tables
  <1> QED BY <1>5, <1>6

\* The reservation that a cycle holds.
LEMMA ReservingCycle ==
  ASSUME IInv, NEW s \in Schedulers, Reserving(s)
  PROVE  \E d \in Deliveries, j \in JobIds :
           /\ schedulers[s].delivery = d /\ schedulers[s].job = j
           /\ jobs[j].delivery = d
           /\ schedulers[s].step = "enqueue" => jobs[j].state = "none"
           /\ \A r \in Schedulers \ {s} : Reserving(r) => schedulers[r].job # j
           /\ Bit(Reserving(s)) = 1
  BY DEF IInv, SchedulerOK, Bit

\* BullMQ takes the job that the cycle has reserved.
LEMMA AddedJob ==
  ASSUME IInv, NEW j \in JobIds, jobs[j].state = "none", jobs[j].delivery \in Deliveries,
         jobs' = [jobs EXCEPT ![j].state = "waiting"]
  PROVE  /\ jobs' \in [JobIds -> Job] /\ JobOK(j)'
         /\ jobs'[j].state = "waiting" /\ jobs'[j].delivery = jobs[j].delivery
         /\ \A i \in JobIds \ {j} : jobs'[i] = jobs[i]
  <1>1. TypeOK /\ JobOK(j)
    BY DEF IInv
  <1>2. /\ jobs' \in [JobIds -> Job]
        /\ jobs'[j].state = "waiting" /\ jobs'[j].delivery = jobs[j].delivery
        /\ jobs'[j].made = jobs[j].made /\ jobs'[j].stalls = jobs[j].stalls
        /\ \A i \in JobIds \ {j} : jobs'[i] = jobs[i]
    BY <1>1 DEF TypeOK, Job, JobStates
  <1>3. JobOK(j)'
    BY <1>1, <1>2, WebhookAssumption DEF JobOK
  <1> QED BY <1>2, <1>3

LEMMA EnqueueKeeps ==
  ASSUME IInv, NEW s \in Schedulers, EnqueueWebhookDelivery(s)
  PROVE  IInv'
  <1>1. TypeOK /\ BudgetOK /\ schedulers[s] \in Scheduler
    BY DEF IInv, TypeOK
  <1>2. /\ schedulers[s].step = "enqueue" /\ Reserving(s)
        /\ jobs' = [jobs EXCEPT ![schedulers[s].job].state = "waiting"]
        /\ Continue(s, schedulers[s].todo)
        /\ UNCHANGED <<tables, endpoints, deadLetters, slots, accepted, requests, budget>>
    BY DEF EnqueueWebhookDelivery, Reserving
  <1>3. PICK d \in Deliveries, j \in JobIds :
          /\ schedulers[s].delivery = d /\ schedulers[s].job = j
          /\ jobs[j].delivery = d /\ jobs[j].state = "none"
          /\ \A r \in Schedulers \ {s} : Reserving(r) => schedulers[r].job # j
          /\ Bit(Reserving(s)) = 1
    BY <1>2, ReservingCycle
  <1>4. /\ jobs' \in [JobIds -> Job] /\ JobOK(j)'
        /\ jobs'[j].state = "waiting" /\ jobs'[j].delivery = d
        /\ \A i \in JobIds \ {j} : jobs'[i] = jobs[i]
    BY <1>2, <1>3, AddedJob
  <1>5. schedulers[s].todo \in SUBSET Deliveries
    BY <1>1 DEF Scheduler
  <1>6. /\ schedulers' \in [Schedulers -> Scheduler]
        /\ schedulers'[s].step \notin {"enqueue", "release"} /\ ~Reserving(s)'
        /\ \A r \in Schedulers \ {s} : schedulers'[r] = schedulers[r]
    BY <1>1, <1>2, <1>5, CycleMoves
  <1>7. TypeOK' /\ rows' = rows /\ log' = log
    BY <1>1, <1>2, <1>4, <1>6 DEF TypeOK, tables
  <1>8. Backed(j)'
    BY <1>4 DEF Backed
  <1>9. Unreserved(d)' + Bit(Reserving(s)') + Bit(Takable(j)') + Credit(d)
          <= Unreserved(d) + Bit(Reserving(s)) + Bit(Takable(j)) + Credit(d)'
    <2>1. Bit(Reserving(s)') = 0 /\ Bit(Takable(j)) \in {0, 1} /\ Bit(Takable(j)') \in {0, 1}
      BY <1>6 DEF Bit
    <2>2. Unreserved(d)' = Unreserved(d) /\ Unreserved(d) \in Nat
      BY <1>7 DEF Unreserved
    <2>3. Credit(d) \in Int /\ Credit(d)' \in Int /\ Credit(d)' >= Credit(d)
      BY <1>1, <1>2, <1>7, CreditSame
    <2> QED BY <1>3, <2>1, <2>2, <2>3
  <1>10. schedulers'[s].step # "enqueue"
    BY <1>6
  <1>11. /\ UNCHANGED <<log, slots, accepted, requests>> /\ budget' = budget
         /\ \A e \in Deliveries \ {d} : rows'[e] = rows[e]
         /\ rows'[d].status = rows[d].status /\ rows'[d].job \in {rows[d].job, None}
         /\ jobs[j].delivery \in {None, d}
    BY <1>2, <1>3, <1>7
  <1> QED BY <1>3, <1>4, <1>6, <1>7, <1>8, <1>9, <1>10, <1>11, CycleStep

LEMMA EnqueueFailsKeeps ==
  ASSUME IInv, NEW s \in Schedulers, EnqueueWebhookDeliveryFails(s)
  PROVE  IInv'
  <1>1. TypeOK /\ BudgetOK /\ schedulers[s] \in Scheduler
    BY DEF IInv, TypeOK
  <1>2. /\ schedulers[s].step = "enqueue" /\ Reserving(s) /\ Fault("redis")
        /\ \/ UNCHANGED jobs
           \/ jobs' = [jobs EXCEPT ![schedulers[s].job].state = "waiting"]
        /\ schedulers' = [schedulers EXCEPT ![s] = [@ EXCEPT !.step = "release"]]
        /\ UNCHANGED <<tables, endpoints, deadLetters, slots, accepted, requests>>
    BY DEF EnqueueWebhookDeliveryFails, Reserving
  <1>3. PICK d \in Deliveries, j \in JobIds :
          /\ schedulers[s].delivery = d /\ schedulers[s].job = j
          /\ jobs[j].delivery = d /\ jobs[j].state = "none"
          /\ \A r \in Schedulers \ {s} : Reserving(r) => schedulers[r].job # j
          /\ Bit(Reserving(s)) = 1
    <2>1. schedulers[s].step = "enqueue" /\ Reserving(s)
      BY <1>2
    <2> QED BY <2>1, ReservingCycle
  <1>4. /\ jobs' \in [JobIds -> Job] /\ JobOK(j)' /\ jobs'[j].delivery = d
        /\ \A i \in JobIds \ {j} : jobs'[i] = jobs[i]
    <2>1. CASE UNCHANGED jobs
      BY <1>1, <1>3, <2>1 DEF TypeOK, IInv, JobOK
    <2>2. CASE jobs' = [jobs EXCEPT ![schedulers[s].job].state = "waiting"]
      BY <1>3, <2>2, AddedJob
    <2> QED BY <1>2, <2>1, <2>2
  <1>5. /\ schedulers' \in [Schedulers -> Scheduler]
        /\ schedulers'[s].step = "release" /\ Reserving(s)'
        /\ schedulers'[s].job = j /\ schedulers'[s].delivery = d
        /\ \A r \in Schedulers \ {s} : schedulers'[r] = schedulers[r]
    <2>1. [schedulers[s] EXCEPT !.step = "release"] \in Scheduler
      BY <1>1, CyclesTyped DEF SchedulerSteps
    <2>2. schedulers'[s] = [schedulers[s] EXCEPT !.step = "release"]
          /\ schedulers' \in [Schedulers -> Scheduler]
          /\ \A r \in Schedulers \ {s} : schedulers'[r] = schedulers[r]
      BY <1>1, <1>2, <2>1 DEF TypeOK
    <2>3. schedulers'[s].step = "release" /\ schedulers'[s].job = j /\ schedulers'[s].delivery = d
      BY <1>1, <1>3, <2>2 DEF Scheduler
    <2> QED BY <2>2, <2>3 DEF Reserving
  <1>6. budget' = budget \/ \E k \in FaultKinds : Fault(k)
    BY <1>2 DEF FaultKinds
  <1>7. TypeOK' /\ rows' = rows /\ log' = log
    BY <1>1, <1>2, <1>4, <1>5, <1>6, BudgetKept DEF TypeOK, tables
  <1>8. Backed(j)'
    BY <1>5 DEF Backed
  <1>9. Unreserved(d)' + Bit(Reserving(s)') + Bit(Takable(j)') + Credit(d)
          <= Unreserved(d) + Bit(Reserving(s)) + Bit(Takable(j)) + Credit(d)'
    <2>1. Bit(Reserving(s)') = 1 /\ Bit(Takable(j)) \in {0, 1} /\ Bit(Takable(j)') \in {0, 1}
      BY <1>5 DEF Bit
    <2>2. Unreserved(d)' = Unreserved(d) /\ Unreserved(d) \in Nat
      BY <1>7 DEF Unreserved
    <2>3. Credit(d) \in Int /\ Credit(d)' \in Int /\ Credit(d)' >= Credit(d) + 1
      BY <1>1, <1>2, <1>6, <1>7, CreditSame
    <2> QED BY <1>3, <2>1, <2>2, <2>3
  <1>10. schedulers'[s].step # "enqueue"
    BY <1>5
  <1>11. /\ UNCHANGED <<log, slots, accepted, requests>>
         /\ \A e \in Deliveries \ {d} : rows'[e] = rows[e]
         /\ rows'[d].status = rows[d].status /\ rows'[d].job \in {rows[d].job, None}
         /\ jobs[j].delivery \in {None, d}
    BY <1>2, <1>3, <1>7
  <1> QED BY <1>3, <1>4, <1>5, <1>6, <1>7, <1>8, <1>9, <1>10, <1>11, CycleStep

\* A cycle that gives its reservation back, or loses it to an error or a crash.
LEMMA DropReservation ==
  ASSUME IInv, NEW s \in Schedulers, schedulers[s].step \in {"enqueue", "release"}, EndCycle(s),
         \/ rows' = rows /\ (Fault("sql") \/ Fault("crash"))
         \/ /\ CommitRelease(schedulers[s].delivery, schedulers[s].job)
            /\ budget' = budget \/ Fault("sql"),
         UNCHANGED <<log, deadEvents, endpoints, jobs, deadLetters, slots, accepted, requests>>
  PROVE  IInv'
  <1>1. TypeOK /\ BudgetOK
    BY DEF IInv
  <1>2. PICK d \in Deliveries, j \in JobIds :
          /\ schedulers[s].delivery = d /\ schedulers[s].job = j
          /\ jobs[j].delivery = d
          /\ \A r \in Schedulers \ {s} : Reserving(r) => schedulers[r].job # j
          /\ Bit(Reserving(s)) = 1
    BY ReservingCycle DEF Reserving
  <1>3. /\ schedulers' \in [Schedulers -> Scheduler]
        /\ schedulers'[s].step \notin {"enqueue", "release"} /\ ~Reserving(s)'
        /\ \A r \in Schedulers \ {s} : schedulers'[r] = schedulers[r]
    BY <1>1, CycleMoves
  <1>4. budget' = budget \/ \E k \in FaultKinds : Fault(k)
    BY DEF FaultKinds
  <1>5. /\ rows' \in [Deliveries -> Row] /\ rows'[d].status = rows[d].status
        /\ rows'[d].job \in {rows[d].job, None}
        /\ \A e \in Deliveries \ {d} : rows'[e] = rows[e]
        /\ Calm' => rows'[d].job # j
    <2>1. CASE rows' = rows /\ (Fault("sql") \/ Fault("crash"))
      BY <1>1, <2>1, NotCalm DEF TypeOK
    <2>2. CASE CommitRelease(d, j) /\ rows[d].job = j
      <3>1. rows' = [rows EXCEPT ![d].job = None] /\ rows \in [Deliveries -> Row]
        BY <1>1, <2>2 DEF CommitRelease, TypeOK
      <3>2. /\ rows' \in [Deliveries -> Row] /\ rows'[d].status = rows[d].status
            /\ rows'[d].job = None /\ \A e \in Deliveries \ {d} : rows'[e] = rows[e]
        BY <3>1 DEF Row
      <3>3. j # None
        BY WebhookAssumption
      <3> QED BY <3>2, <3>3
    <2>3. CASE CommitRelease(d, j) /\ rows[d].job # j
      BY <1>1, <2>3 DEF CommitRelease, TypeOK
    <2> QED BY <1>2, <2>1, <2>2, <2>3
  <1>6. TypeOK'
    BY <1>1, <1>3, <1>4, <1>5, BudgetKept DEF TypeOK
  <1>7. JobOK(j)'
    BY DEF IInv, JobOK
  <1>8. Unreserved(d)' + Bit(Reserving(s)') + Bit(Takable(j)') + Credit(d)
          <= Unreserved(d) + Bit(Reserving(s)) + Bit(Takable(j)) + Credit(d)'
    <2>1. Bit(Reserving(s)') = 0
      BY <1>3 DEF Bit
    <2>2. Bit(Takable(j)') = Bit(Takable(j))
      <3>1. jobs' = jobs /\ slots' = slots
        OBVIOUS
      <3> QED BY <3>1 DEF Takable, Running
    <2>3. Bit(Takable(j)) \in Nat
      BY DEF Bit
    <2>4. Unreserved(d)' \in {0, 1} /\ Unreserved(d) \in {0, 1}
      BY DEF Unreserved
    <2>5. Replays(d)' >= Replays(d)
      BY SameReplays, ReplaysCounted
    <2>6. log'[d].failed >= log[d].failed
      BY <1>1 DEF TypeOK
    <2>7. Credit(d) \in Int /\ Credit(d)' \in Int /\ Credit(d)' >= Credit(d)
      BY <1>1, <1>4, <1>6, <2>5, <2>6, CreditKept
    <2>8. Bit(Reserving(s)) = 1
      BY <1>2
    <2> QED BY <2>1, <2>2, <2>3, <2>4, <2>7, <2>8
  <1>9. /\ schedulers'[s].step # "enqueue" /\ (Calm' /\ rows'[d].job = j => Backed(j)')
        /\ jobs'[j] = jobs[j] /\ \A i \in JobIds \ {j} : jobs'[i] = jobs[i]
        /\ UNCHANGED <<log, slots, accepted, requests>>
        /\ jobs[j].delivery \in {None, d} /\ jobs'[j].delivery = d
    BY <1>2, <1>3, <1>5
  <1> QED BY <1>2, <1>3, <1>4, <1>5, <1>6, <1>7, <1>8, <1>9, CycleStep

LEMMA ReleaseQueueJobKeeps ==
  ASSUME IInv, NEW s \in Schedulers, ReleaseQueueJob(s)
  PROVE  IInv'
  BY DropReservation DEF ReleaseQueueJob, Reserving

LEMMA CycleFailsKeeps ==
  ASSUME IInv, NEW s \in Schedulers, CycleFails(s)
  PROVE  IInv'
  <1>1. TypeOK /\ BudgetOK
    BY DEF IInv
  <1>2. /\ EndCycle(s) /\ Fault("sql") /\ schedulers[s].step # "enqueue"
        /\ UNCHANGED <<log, deadEvents, endpoints, deadLetters, slots, accepted, requests>>
    BY DEF CycleFails
  <1>3. /\ schedulers' \in [Schedulers -> Scheduler]
        /\ schedulers'[s].step \notin {"enqueue", "release"} /\ ~Reserving(s)'
        /\ \A r \in Schedulers \ {s} : schedulers'[r] = schedulers[r]
    BY <1>1, <1>2, CycleMoves
  <1>4. budget' = budget \/ \E k \in FaultKinds : Fault(k)
    BY <1>2 DEF FaultKinds
  <1>5. CASE schedulers[s].step = "idle" /\ InsertMissing /\ UNCHANGED jobs
    <2>1. \A r \in Schedulers : /\ Reserving(r)' = Reserving(r)
                                /\ Reserving(r) => schedulers'[r] = schedulers[r]
      BY <1>3, <1>5 DEF Reserving
    <2>2. /\ rows' \in [Deliveries -> Row]
          /\ \A d \in Deliveries :
               /\ RowOK(d)'
               /\ rows'[d].job = rows[d].job
               /\ rows'[d].job # None => rows'[d].status = rows[d].status
          /\ \A r \in Requests : RequestOK(r)'
      BY <1>2, <1>5, InsertMissingRows
    <2>3. TypeOK'
      BY <1>1, <1>2, <1>3, <1>4, <1>5, <2>2, BudgetKept DEF TypeOK
    <2>4. \A d \in Deliveries : Replays(d)' >= Replays(d)
      BY <1>2, SameReplays, ReplaysCounted
    <2> QED BY <1>2, <1>4, <1>5, <2>1, <2>2, <2>3, <2>4, TableStep
  <1>6. CASE ~Reserving(s) /\ UNCHANGED <<rows, jobs>>
    BY <1>2, <1>3, <1>4, <1>6, CycleOnly DEF tables
  <1>7. CASE Reserving(s) /\ UNCHANGED <<rows, jobs>>
    BY <1>2, <1>7, DropReservation DEF Reserving
  <1>8. CASE /\ schedulers[s].step = "reserve"
             /\ \E d \in schedulers[s].todo, j \in JobIds :
                  Reservable(d) /\ FreshJob(j) /\ CommitReservation(d, j)
    <2>1. PICK d \in schedulers[s].todo, j \in JobIds :
            Reservable(d) /\ FreshJob(j) /\ CommitReservation(d, j)
      BY <1>8
    <2>2. d \in Deliveries
      BY <1>1 DEF TypeOK, Scheduler
    <2> QED BY <1>2, <1>3, <1>8, <2>1, <2>2, ReserveStep
  <1>9. CASE /\ schedulers[s].step = "release"
             /\ CommitRelease(schedulers[s].delivery, schedulers[s].job) /\ UNCHANGED jobs
    BY <1>2, <1>9, DropReservation DEF Reserving
  <1> QED BY <1>5, <1>6, <1>7, <1>8, <1>9 DEF CycleFails

LEMMA CrashSchedulerKeeps ==
  ASSUME IInv, NEW s \in Schedulers, CrashScheduler(s)
  PROVE  IInv'
  <1>1. TypeOK /\ BudgetOK
    BY DEF IInv
  <1>2. /\ EndCycle(s) /\ Fault("crash")
        /\ UNCHANGED <<rows, log, deadEvents, endpoints, jobs, deadLetters, slots, accepted, requests>>
    BY DEF CrashScheduler, tables
  <1>3. CASE Reserving(s)
    BY <1>2, <1>3, DropReservation DEF Reserving
  <1>4. CASE ~Reserving(s)
    <2>1. /\ schedulers' \in [Schedulers -> Scheduler]
          /\ schedulers'[s].step \notin {"enqueue", "release"}
          /\ \A r \in Schedulers \ {s} : schedulers'[r] = schedulers[r]
      BY <1>1, <1>2, CycleMoves
    <2>2. \E k \in FaultKinds : Fault(k)
      BY <1>2 DEF FaultKinds
    <2> QED BY <1>2, <1>4, <2>1, <2>2, CycleOnly DEF tables
  <1> QED BY <1>3, <1>4

-----------------------------------------------------------------------------
(* The theorems *)

LEMMA StutterKeeps ==
  ASSUME IInv, UNCHANGED vars
  PROVE  IInv'
  <1>1. PICK w : w \notin Slots
    BY WebhookAssumption
  <1> USE DEF vars, tables, IInv
  <1>2. TypeOK'
    BY DEF TypeOK
  <1>3. \A d \in Deliveries : RowOK(d)'
    BY DEF RowOK
  <1>4. \A r \in Requests : RequestOK(r)'
    BY DEF RequestOK
  <1>5. \A s \in Schedulers : Reserving(s)' = Reserving(s)
    BY DEF Reserving
  <1> HIDE DEF IInv
  <1> QED BY <1>2, <1>3, <1>4, <1>5, SameReplays, ReplaysCounted, TableStep

LEMMA NextKeeps == IInv /\ [Next]_vars => IInv'
  <1> SUFFICES ASSUME IInv, Next PROVE IInv'
    BY StutterKeeps
  <1>1. ASSUME NEW d \in Deliveries, AppendEvent(d) \/ BackoffEnds(d) PROVE IInv'
    BY <1>1, AppendEventKeeps, BackoffEndsKeeps
  <1>2. ASSUME NEW e \in Endpoints,
               (\E status \in {"active", "disabled"} : UpdateEndpoint(e, status)) \/ DeleteEndpoint(e)
        PROVE  IInv'
    BY <1>2, EndpointKeeps
  <1>3. ASSUME NEW s \in Schedulers, Cycle(s) PROVE IInv'
    BY <1>3, ScheduleMissingKeeps, FindUnqueuedKeeps, ReserveQueueJobKeeps, EnqueueKeeps,
       ReleaseQueueJobKeeps DEF Cycle
  <1>4. ASSUME NEW s \in Schedulers,
               EnqueueWebhookDeliveryFails(s) \/ CycleFails(s) \/ CrashScheduler(s)
        PROVE  IInv'
    BY <1>4, EnqueueFailsKeeps, CycleFailsKeeps, CrashSchedulerKeeps
  <1>5. ASSUME NEW j \in JobIds,
               \/ \E w \in Slots : StartJob(w, j)
               \/ RecoverStalledJob(j) \/ LoseJobLock(j)
        PROVE  IInv'
    BY <1>5, StartJobKeeps, RecoverStalledJobKeeps
  <1>6. ASSUME NEW w \in Slots, Attempt(w) PROVE IInv'
    BY <1>6, FindDeliveryKeeps, PostKeeps, RecordSucceededKeeps, RecordFailedKeeps,
       MirrorDeadLetterKeeps, CompleteJobKeeps, FailAttemptKeeps DEF Attempt
  <1>7. ASSUME NEW w \in Slots, AttemptFails(w) PROVE IInv'
    BY <1>7, FindDeliveryFailsKeeps, RecordSucceededFailsKeeps, RecordFailedKeeps,
       CrashSlotKeeps DEF AttemptFails
  <1>8. ASSUME NEW r \in Requests,
               \/ \E d \in Deliveries : ReplaySelect(r, d)
               \/ ReplayUpdate(r) \/ ReplayFails(r)
        PROVE  IInv'
    BY <1>8, ReplaySelectKeeps, ReplayUpdateKeeps, ReplayFailsKeeps
  <1> QED BY <1>1, <1>2, <1>3, <1>4, <1>5, <1>6, <1>7, <1>8 DEF Next

\* IInv holds in every reachable state.
THEOREM InductiveInvariant == Spec => []IInv
  BY InitIInv, NextKeeps, PTL DEF Spec

\* Every variable keeps its type: a job is never run more often than its
\* attempts, and BullMQ never counts one stall too many.
THEOREM TypeCorrect == Spec => []TypeOK
  <1>1. IInv => TypeOK
    BY DEF IInv
  <1> QED BY <1>1, InductiveInvariant, PTL

\* For any number of jobs, slots, replays and faults, a delivery is delivered
\* only when the merchant took the event and a success is on record.
THEOREM DeliveredWasAcceptedHolds == Spec => []DeliveredWasAccepted
  <1>1. IInv => DeliveredWasAccepted
    BY DEF IInv, RowOK, DeliveredWasAccepted
  <1> QED BY <1>1, InductiveInvariant, PTL

\* A delivery is left reserved with nobody behind it only after a crash, a
\* failed statement or too many stalls: ReservedOK tells who is behind it
\* otherwise.
THEOREM StrandedHasCauseHolds == Spec => []StrandedHasCause
  <1>1. ASSUME IInv, NEW d \in Deliveries, Stranded(d)
        PROVE  \/ Spent("crash") + Spent("sql") > 0
               \/ \E j \in JobsOf(d) : jobs[j].stalls > MaxStalls
    <2>1. CASE Calm
      <3>1. rows[d].job # None /\ rows[d].status \in Open /\ LiveJobs(d) = {}
        BY <1>1 DEF Stranded
      <3>2. PICK j \in JobIds : j = rows[d].job
        BY <1>1, <3>1 DEF IInv, TypeOK, Row
      <3>3. jobs[j].delivery = d /\ Backed(j)
        BY <1>1, <2>1, <3>1, <3>2 DEF IInv, RowOK, ReservedOK
      <3>4. j \in JobsOf(d) /\ jobs[j].state \notin {"waiting", "active"}
        BY <3>1, <3>3 DEF JobsOf, LiveJobs
      <3>5. ASSUME NEW s \in Schedulers, Reserving(s), schedulers[s].job = j PROVE FALSE
        <4>1. schedulers[s].delivery = d
          BY <1>1, <3>3, <3>5 DEF IInv, SchedulerOK
        <4> QED BY <1>1, <3>5, <4>1 DEF Stranded, Reserving
      <3> QED BY <3>3, <3>4, <3>5 DEF Backed
    <2>2. CASE ~Calm
      <3>1. \A k \in {"crash", "sql"} :
              budget[k] \in Nat /\ FaultBudget[k] \in Nat /\ budget[k] <= FaultBudget[k]
        BY <1>1, WebhookAssumption DEF IInv, TypeOK, BudgetOK, FaultKinds
      <3> QED BY <2>2, <3>1 DEF Calm, Spent
    <2> QED BY <2>1, <2>2
  <1>2. IInv => StrandedHasCause
    BY <1>1 DEF StrandedHasCause
  <1> QED BY <1>2, InductiveInvariant, PTL

\* However many jobs, slots and schedulers work at once, the merchant takes an
\* event again only after a failure on record, a replay or a fault: the sum in
\* Paid counts the posts that are still to come.
THEOREM RepetitionHasCauseHolds == Spec => []RepetitionHasCause
  <1>1. ASSUME IInv, NEW d \in Deliveries
        PROVE  accepted[d] <= 1 + log[d].failed + Replays(d)
                                + Spent("sql") + Spent("redis") + Spent("stall")
    <2> DEFINE C == Cycles(d)  J == Takables(d)  P == Posters(d)
    <2>1. IsFiniteSet(C) /\ IsFiniteSet(J) /\ IsFiniteSet(P)
      BY CountedFinite
    <2>2. accepted[d] + Unreserved(d) + Cardinality(C) + Cardinality(J) + Cardinality(P) <= Credit(d)
      BY <1>1 DEF IInv, Paid, Credit
    <2> HIDE DEF C, J, P
    <2>3. Cardinality(C) \in Nat /\ Cardinality(J) \in Nat /\ Cardinality(P) \in Nat
      BY <2>1, FS_CardinalityType
    <2>4. accepted[d] \in Nat /\ Unreserved(d) \in Nat /\ Credit(d) \in Int
      BY <1>1, CreditType DEF IInv, TypeOK, Unreserved
    <2>5. accepted[d] <= Credit(d)
      BY <2>2, <2>3, <2>4
    <2> QED BY <2>5 DEF Credit
  <1>2. IInv => RepetitionHasCause
    BY <1>1 DEF RepetitionHasCause
  <1> QED BY <1>2, InductiveInvariant, PTL

\* What one step does to a row, and to its dead-letter events.
Settled == {"delivered", "dead_letter"}

Reopened(d) ==
  /\ rows'[d].status = "pending"
  /\ \E r \in Requests : requests[r].step = "update" /\ requests'[r].step = "replayed"

RowMoves(d) ==
  \/ /\ deadEvents'[d] = deadEvents[d]
     /\ \/ rows'[d] = rows[d]
        \/ rows[d].status \notin Settled /\ rows'[d].status # "dead_letter"
        \/ rows'[d] = [rows[d] EXCEPT !.job = None]
        \/ Reopened(d)
  \/ /\ deadEvents'[d] = deadEvents[d] + 1
     /\ rows[d].status \notin Settled /\ rows'[d].status = "dead_letter"

LEMMA AttemptRowMoves ==
  ASSUME IInv, NEW w \in Slots, Attempt(w) \/ AttemptFails(w), NEW e \in Deliveries
  PROVE  RowMoves(e)
  <1>1. TypeOK /\ deadEvents[e] \in Nat
    BY DEF IInv, TypeOK
  <1>2. CASE UNCHANGED tables
    BY <1>2 DEF tables, RowMoves
  <1>3. CASE slots[w].step # "idle" /\ CommitSucceeded(DeliveryOf(w), slots[w].attempt)
    <2>1. PICK d \in Deliveries, a \in 1 .. MaxAttempts :
            d = DeliveryOf(w) /\ a = slots[w].attempt
      BY <1>3, RunningSlot
    <2>2. /\ deadEvents' = deadEvents
          /\ rows[d].status \in Open => rows'[d].status = "delivered"
          /\ rows[d].status \notin Open => rows' = rows
          /\ \A x \in Deliveries \ {d} : rows'[x] = rows[x]
      <3>1. CommitSucceeded(d, a)
        BY <1>3, <2>1
      <3>2. rows[d].status \notin Open => rows' = rows
        BY <3>1 DEF CommitSucceeded
      <3> QED BY <1>1, <3>1, <3>2, SucceededTables
    <2> QED BY <2>2 DEF RowMoves, Settled, Open
  <1>4. CASE slots[w].step # "idle" /\ CommitFailed(DeliveryOf(w), slots[w].attempt)
    <2>1. PICK d \in Deliveries, a \in 1 .. MaxAttempts :
            d = DeliveryOf(w) /\ a = slots[w].attempt
      BY <1>4, RunningSlot
    <2>2. CommitFailed(d, a)
      BY <1>4, <2>1
    <2>3. /\ \/ /\ rows[d].status \in Open
                /\ rows'[d].status = IF a >= MaxAttempts THEN "dead_letter" ELSE "failed"
                /\ deadEvents'[d] = deadEvents[d] + IF a >= MaxAttempts THEN 1 ELSE 0
             \/ rows[d].status \notin Open /\ rows' = rows /\ deadEvents' = deadEvents
          /\ \A x \in Deliveries \ {d} : rows'[x] = rows[x] /\ deadEvents'[x] = deadEvents[x]
      BY <1>1, <2>2, FailedTables
    <2> QED BY <1>1, <2>3 DEF RowMoves, Settled, Open
  <1> QED BY <1>2, <1>3, <1>4 DEF Attempt, AttemptFails, FindDelivery, Post, PostFails,
             RecordSucceeded, RecordFailed, MirrorDeadLetter, CompleteJob, FailAttempt,
             SettleJob, FindDeliveryFails, RecordSucceededFails, RecordFailedFails, CrashSlot

LEMMA CycleRowMoves ==
  ASSUME IInv, NEW s \in Schedulers,
         Cycle(s) \/ EnqueueWebhookDeliveryFails(s) \/ CycleFails(s) \/ CrashScheduler(s),
         NEW e \in Deliveries
  PROVE  RowMoves(e)
  <1>1. TypeOK
    BY DEF IInv
  <1>2. deadEvents' = deadEvents
    BY DEF Cycle, ScheduleMissing, FindUnqueued, ReserveQueueJob, EnqueueWebhookDelivery,
           ReleaseQueueJob, EnqueueWebhookDeliveryFails, CycleFails, CrashScheduler, tables
  <1>3. CASE rows' = rows
    BY <1>2, <1>3 DEF RowMoves
  <1>4. CASE InsertMissing
    <2>1. rows'[e] = rows[e] \/ (rows[e].status = "missing" /\ rows'[e].status = "pending")
      BY <1>4 DEF InsertMissing
    <2> QED BY <1>2, <2>1 DEF RowMoves, Settled
  <1>5. CASE \E d \in Deliveries, j \in JobIds :
               Reservable(d) /\ FreshJob(j) /\ CommitReservation(d, j)
    <2>1. PICK d \in Deliveries, j \in JobIds :
            Reservable(d) /\ FreshJob(j) /\ CommitReservation(d, j)
      BY <1>5
    <2>2. /\ rows'[d].status = rows[d].status /\ rows[d].status \in Open
          /\ \A x \in Deliveries \ {d} : rows'[x] = rows[x]
      BY <2>1, ReservationSets
    <2> QED BY <1>2, <2>2 DEF RowMoves, Settled, Open
  <1>6. CASE \E j \in JobIds \cup {None}, d \in Deliveries \cup {None} : CommitRelease(d, j)
    <2>1. rows'[e] = rows[e] \/ rows'[e] = [rows[e] EXCEPT !.job = None]
      BY <1>1, <1>6 DEF CommitRelease, TypeOK
    <2> QED BY <1>2, <2>1 DEF RowMoves
  <1>7. /\ schedulers[s].todo \subseteq Deliveries
        /\ schedulers[s].job \in JobIds \cup {None}
        /\ schedulers[s].delivery \in Deliveries \cup {None}
    BY <1>1 DEF TypeOK, Scheduler
  <1>8. Cycle(s) =>
          \/ rows' = rows \/ InsertMissing
          \/ \E d \in Deliveries, j \in JobIds :
               Reservable(d) /\ FreshJob(j) /\ CommitReservation(d, j)
          \/ CommitRelease(schedulers[s].delivery, schedulers[s].job)
    BY <1>7 DEF Cycle, ScheduleMissing, FindUnqueued, ReserveQueueJob, EnqueueWebhookDelivery,
           ReleaseQueueJob, tables
  <1>9. CycleFails(s) =>
          \/ rows' = rows \/ InsertMissing
          \/ \E d \in Deliveries, j \in JobIds :
               Reservable(d) /\ FreshJob(j) /\ CommitReservation(d, j)
          \/ CommitRelease(schedulers[s].delivery, schedulers[s].job)
    BY <1>7 DEF CycleFails
  <1>10. EnqueueWebhookDeliveryFails(s) \/ CrashScheduler(s) => rows' = rows
    BY DEF EnqueueWebhookDeliveryFails, CrashScheduler, tables
  <1> QED BY <1>3, <1>4, <1>5, <1>6, <1>7, <1>8, <1>9, <1>10

LEMMA NextRowMoves ==
  ASSUME IInv, [Next]_vars, NEW e \in Deliveries
  PROVE  RowMoves(e)
  <1>1. TypeOK
    BY DEF IInv
  <1>2. CASE UNCHANGED tables
    BY <1>2 DEF tables, RowMoves
  <1>3. ASSUME NEW d \in Deliveries, AppendEvent(d) \/ BackoffEnds(d) PROVE RowMoves(e)
    BY <1>1, <1>3 DEF AppendEvent, BackoffEnds, RowMoves, Settled, TypeOK, Row
  <1>4. ASSUME NEW r \in Requests, ReplayUpdate(r) PROVE RowMoves(e)
    <2>1. deadEvents' = deadEvents /\ requests[r].step = "update" /\ requests'[r].step = "replayed"
      BY <1>1, <1>4 DEF ReplayUpdate, TypeOK, Request
    <2>2. rows'[e] = rows[e] \/ rows'[e].status = "pending"
      BY <1>1, <1>4 DEF ReplayUpdate, TypeOK
    <2> QED BY <2>1, <2>2 DEF RowMoves, Reopened
  <1>5. ASSUME NEW x \in Endpoints,
               (\E status \in {"active", "disabled"} : UpdateEndpoint(x, status)) \/ DeleteEndpoint(x)
        PROVE  UNCHANGED tables
    BY <1>5 DEF UpdateEndpoint, DeleteEndpoint
  <1>6. ASSUME NEW j \in JobIds,
               \/ \E w \in Slots : StartJob(w, j)
               \/ RecoverStalledJob(j) \/ LoseJobLock(j)
        PROVE  UNCHANGED tables
    BY <1>6 DEF StartJob, RecoverStalledJob, LoseJobLock
  <1>7. ASSUME NEW r \in Requests, (\E d \in Deliveries : ReplaySelect(r, d)) \/ ReplayFails(r)
        PROVE  UNCHANGED tables
    BY <1>7 DEF ReplaySelect, ReplayFails
  <1>8. UNCHANGED vars => UNCHANGED tables
    BY DEF vars
  <1> QED BY <1>2, <1>3, <1>4, <1>5, <1>6, <1>7, <1>8, AttemptRowMoves, CycleRowMoves DEF Next

\* Each move to dead_letter appends exactly one event, for any number of jobs
\* of one delivery that fail for the last time.
THEOREM DeadLetterAnnouncedOnceHolds == Spec => DeadLetterAnnouncedOnce
  <1>1. ASSUME IInv, [Next]_vars, NEW d \in Deliveries
        PROVE  deadEvents'[d] = deadEvents[d] +
                 IF rows[d].status # "dead_letter" /\ rows'[d].status = "dead_letter"
                   THEN 1 ELSE 0
    <2>1. RowMoves(d)
      BY <1>1, NextRowMoves
    <2>2. deadEvents[d] \in Nat /\ rows[d] \in Row
      BY <1>1 DEF IInv, TypeOK
    <2>3. rows'[d] = [rows[d] EXCEPT !.job = None] => rows'[d].status = rows[d].status
      BY <2>2 DEF Row
    <2>4. CASE /\ deadEvents'[d] = deadEvents[d]
               /\ ~(rows[d].status # "dead_letter" /\ rows'[d].status = "dead_letter")
      BY <2>2, <2>4
    <2>5. CASE /\ deadEvents'[d] = deadEvents[d] + 1
               /\ rows[d].status # "dead_letter" /\ rows'[d].status = "dead_letter"
      BY <2>2, <2>5
    <2> QED BY <2>1, <2>3, <2>4, <2>5 DEF RowMoves, Settled, Reopened
  <1>2. IInv /\ [Next]_vars =>
          [\A d \in Deliveries :
             deadEvents'[d] = deadEvents[d] +
               IF rows[d].status # "dead_letter" /\ rows'[d].status = "dead_letter"
                 THEN 1 ELSE 0]_vars
    BY <1>1
  <1> QED BY <1>2, InductiveInvariant, PTL DEF Spec, DeadLetterAnnouncedOnce

\* No late attempt, no scheduler and no failure reopens a settled delivery.
THEOREM OnlyReplayReopensHolds == Spec => OnlyReplayReopens
  <1>1. ASSUME IInv, [Next]_vars, NEW d \in Deliveries,
               rows[d].status \in {"delivered", "dead_letter"}, rows'[d] # rows[d]
        PROVE  \/ rows'[d] = [rows[d] EXCEPT !.job = None]
               \/ /\ rows'[d].status = "pending"
                  /\ \E r \in Requests :
                       requests[r].step = "update" /\ requests'[r].step = "replayed"
    BY <1>1, NextRowMoves DEF RowMoves, Settled, Reopened
  <1>2. IInv /\ [Next]_vars =>
          [\A d \in Deliveries :
             rows[d].status \in {"delivered", "dead_letter"} /\ rows'[d] # rows[d] =>
               \/ rows'[d] = [rows[d] EXCEPT !.job = None]
               \/ /\ rows'[d].status = "pending"
                  /\ \E r \in Requests :
                       requests[r].step = "update" /\ requests'[r].step = "replayed"]_vars
    BY <1>1
  <1> QED BY <1>2, InductiveInvariant, PTL DEF Spec, OnlyReplayReopens

=============================================================================
