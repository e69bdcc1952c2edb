-------------------------- MODULE OutboxRelayProofs --------------------------
(***************************************************************************)
(* Proofs about OutboxRelay, for any number of events, relays, attempts    *)
(* and faults and any size of a batch.  IInv is inductive: a lease stands  *)
(* for an open row and a relay that still holds it knows the attempts of   *)
(* the row (RowOK, RelayOK); every sending that is past or still possible  *)
(* is paid for by a recorded failure or an expired lease (SendingsOK).     *)
(***************************************************************************)
EXTENDS OutboxRelay, FiniteSetTheorems, TLAPS

-----------------------------------------------------------------------------
(* The initial state *)

LEMMA NoSenders ==
  ASSUME NEW e \in Events, \A r \in Relays : relays[r].todo = {}
  PROVE  Cardinality(Senders(e)) = 0
  <1>1. Senders(e) = {}
    BY DEF Senders
  <1> QED BY <1>1, FS_EmptySet

LEMMA InitIInv == Init => IInv
  <1> SUFFICES ASSUME Init PROVE IInv
    OBVIOUS
  <1>1. TypeOK
    BY RelayAssumption DEF Init, TypeOK, Row, EventStatuses, Relay, Steps, Idle, FaultKinds
  <1>2. ASSUME NEW e \in Events PROVE RowOK(e)
    BY RelayAssumption DEF Init, RowOK
  <1>3. ASSUME NEW e \in Events PROVE SendingsOK(e)
    <2>1. Cardinality(Senders(e)) = 0
      BY NoSenders DEF Init, Idle
    <2> QED BY <2>1 DEF Init, SendingsOK, Available
  <1>4. ASSUME NEW r \in Relays PROVE RelayOK(r)
    BY DEF Init, RelayOK, Idle, ClaimsOf
  <1> QED BY <1>1, <1>2, <1>3, <1>4 DEF IInv

-----------------------------------------------------------------------------
(* Senders *)

LEMMA SendersFinite ==
  ASSUME NEW e \in Events
  PROVE  IsFiniteSet(Senders(e)) /\ Cardinality(Senders(e)) \in Nat
  <1>1. Senders(e) \in SUBSET Relays
    BY DEF Senders
  <1>2. IsFiniteSet(Senders(e))
    BY <1>1, RelayAssumption, FS_Subset
  <1> QED BY <1>2, FS_CardinalityType

LEMMA FewerSenders ==
  ASSUME NEW e \in Events, Senders(e)' \subseteq Senders(e)
  PROVE  Cardinality(Senders(e))' \in Nat /\ Cardinality(Senders(e))' <= Cardinality(Senders(e))
  <1>1. IsFiniteSet(Senders(e))
    BY SendersFinite
  <1>2. PICK T : T = Senders(e)'
    OBVIOUS
  <1>3. T \in SUBSET Senders(e)
    BY <1>2
  <1>4. IsFiniteSet(T) /\ Cardinality(T) <= Cardinality(Senders(e))
    BY <1>1, <1>3, FS_Subset
  <1>5. Cardinality(T) \in Nat
    BY <1>4, FS_CardinalityType
  <1> QED BY <1>2, <1>4, <1>5

\* A row that is unchanged, and as many sendings as before, at most.
LEMMA SendingsKeep ==
  ASSUME TypeOK, NEW e \in Events, SendingsOK(e),
         \A r \in Relays : relays'[r].todo \subseteq relays[r].todo,
         rows'[e] = rows[e], sent'[e] = sent[e], expiries'[e] = expiries[e]
  PROVE  SendingsOK(e)'
  <1>0. Senders(e)' \subseteq Senders(e)
    BY DEF Senders
  <1>1. Cardinality(Senders(e))' \in Nat /\ Cardinality(Senders(e))' <= Cardinality(Senders(e))
    BY <1>0, FewerSenders
  <1>2. Cardinality(Senders(e)) \in Nat
    BY SendersFinite
  <1>3. Available(e)' = Available(e) /\ Available(e) \in {0, 1}
    BY DEF Available
  <1>4. sent[e] \in Nat /\ expiries[e] \in Nat /\ rows[e].attempts \in Nat
    BY RelayAssumption DEF TypeOK, Row
  <1> QED BY <1>1, <1>2, <1>3, <1>4 DEF SendingsOK

-----------------------------------------------------------------------------
(* What a step leaves in order for the relays that do not take it *)

LEMMA OtherRelays ==
  ASSUME TypeOK, NEW q \in Relays, RelayOK(q), relays'[q] = relays[q],
         \A e \in Events : sent[e] > 0 => sent'[e] > 0,
         queued \subseteq queued',
         \A e \in Events : rows'[e].lockedBy = q =>
           rows[e].lockedBy = q /\ rows'[e].attempts = rows[e].attempts
  PROVE  RelayOK(q)'
  <1>1. /\ relays[q].todo \subseteq Claimed
        /\ relays[q].current \in Claimed \cup {None}
    BY DEF TypeOK, Relay
  <1>2. \A c \in ClaimsOf(q) : c.event \in Events
    BY <1>1 DEF ClaimsOf, Claimed
  <1>3. relays[q].current # None => Current(q) \in Events
    BY <1>1 DEF Current, Claimed
  <1>4. ClaimsOf(q)' = ClaimsOf(q) /\ Current(q)' = Current(q)
    BY DEF ClaimsOf, Current
  <1>5. relays[q].step \in {"enqueue", "mark"} => sent'[Current(q)] > 0
    BY <1>3 DEF RelayOK
  <1>6. \A c \in ClaimsOf(q) : rows'[c.event].lockedBy = q => rows'[c.event].attempts = c.attempts
    BY <1>2 DEF RelayOK
  <1> QED BY <1>4, <1>5, <1>6 DEF RelayOK

LEMMA RowKeeps ==
  ASSUME NEW e \in Events, RowOK(e), rows'[e] = rows[e],
         sent[e] > 0 => sent'[e] > 0, queued \subseteq queued'
  PROVE  RowOK(e)'
  BY DEF RowOK

LEMMA BudgetType ==
  ASSUME TypeOK, NEW kind \in FaultKinds, Fault(kind)
  PROVE  budget' \in [FaultKinds -> Nat]
  BY DEF TypeOK, Fault

-----------------------------------------------------------------------------
(* Steps of the table and the clock *)

(* Row e becomes v: it is appended, its lease runs out, or its backoff ends. *)
RowChange(e, v) ==
  /\ rows' = [rows EXCEPT ![e] = v]
  /\ v.attempts = rows[e].attempts /\ v.lockedBy = rows[e].lockedBy
  /\ v.status = rows[e].status \/ (rows[e].status = "none" /\ v.status = "pending")
  /\ expiries' \in [Events -> Nat]
  /\ \A f \in Events : f # e => expiries'[f] = expiries[f]
  /\ \/ v.expired = rows[e].expired /\ expiries'[e] = expiries[e]
     \/ rows[e].lockedBy # None /\ ~rows[e].expired /\ expiries'[e] = expiries[e] + 1
  /\ budget' \in [FaultKinds -> Nat]
  /\ UNCHANGED <<relays, outside>>

LEMMA RowStep ==
  ASSUME IInv, NEW e \in Events, NEW v \in Row, RowChange(e, v)
  PROVE  IInv'
  <1> USE DEF IInv, RowChange
  <1>1. rows' \in [Events -> Row] /\ rows'[e] = v /\ \A f \in Events : f # e => rows'[f] = rows[f]
    BY DEF TypeOK
  <1>2. TypeOK'
    BY <1>1 DEF TypeOK, outside
  <1>3. ASSUME NEW f \in Events PROVE RowOK(f)'
    <2>1. CASE f # e
      BY <2>1, <1>1, RowKeeps DEF outside
    <2>2. CASE f = e
      BY <2>2, <1>1, RelayAssumption DEF RowOK, outside, OpenStatuses
    <2> QED BY <2>1, <2>2
  <1>4. ASSUME NEW f \in Events PROVE SendingsOK(f)'
    <2>2. CASE f # e
      BY <2>2, <1>1, SendingsKeep DEF outside
    <2>3. CASE f = e
      <3>1. Cardinality(Senders(e))' = Cardinality(Senders(e))
        BY DEF Senders
      <3>2. Cardinality(Senders(e)) \in Nat
        BY SendersFinite
      <3>3. Available(e) \in {0, 1} /\ Available(e)' \in {0, 1}
        BY DEF Available
      <3>4. sent[e] \in Nat /\ expiries[e] \in Nat /\ expiries'[e] \in Nat /\ rows[e].attempts \in Nat
        BY RelayAssumption DEF TypeOK, Row
      <3>5. rows'[e].attempts = rows[e].attempts /\ sent'[e] = sent[e]
        BY <1>1 DEF outside
      <3>6. Available(e)' + expiries[e] <= Available(e) + expiries'[e]
        BY <1>1, <3>3, <3>4 DEF Available, OpenStatuses
      <3>7. SendingsOK(e)'
        BY <3>1, <3>2, <3>3, <3>4, <3>5, <3>6 DEF SendingsOK
      <3> QED BY <2>3, <3>7
    <2> QED BY <2>2, <2>3
  <1>5. ASSUME NEW r \in Relays PROVE RelayOK(r)'
    <2>1. \A f \in Events : rows'[f].lockedBy = rows[f].lockedBy /\ rows'[f].attempts = rows[f].attempts
      BY <1>1
    <2> QED BY <2>1, OtherRelays DEF outside
  <1> QED BY <1>2, <1>3, <1>4, <1>5

LEMMA AppendStep ==
  ASSUME IInv, NEW e \in Events, Append(e)
  PROVE  IInv'
  <1>1. PICK v \in Row : v = [rows[e] EXCEPT !.status = "pending"]
    BY DEF IInv, TypeOK, Row, EventStatuses
  <1>2. rows' = [rows EXCEPT ![e] = v] /\ rows'[e] = v
    BY <1>1 DEF IInv, TypeOK, Append
  <1>3. /\ v.status = "pending" /\ v.attempts = rows[e].attempts
        /\ v.lockedBy = rows[e].lockedBy /\ v.expired = rows[e].expired
    BY <1>1 DEF IInv, TypeOK, Row
  <1>4. /\ expiries[e] \in Nat /\ expiries' \in [Events -> Nat] /\ budget' \in [FaultKinds -> Nat]
        /\ expiries'[e] = expiries[e] /\ \A f \in Events : f # e => expiries'[f] = expiries[f]
    BY DEF IInv, TypeOK, Append
  <1>5. UNCHANGED <<relays, outside>> /\ rows[e].status = "none"
    BY DEF Append
  <1>6. RowChange(e, v)
    BY <1>2, <1>3, <1>4, <1>5 DEF RowChange
  <1> QED BY <1>6, RowStep

LEMMA ExpireStep ==
  ASSUME IInv, NEW e \in Events, Expire(e), budget' \in [FaultKinds -> Nat]
  PROVE  IInv'
  <1>1. PICK v \in Row : v = [rows[e] EXCEPT !.expired = TRUE]
    BY DEF IInv, TypeOK, Row
  <1>2. rows' = [rows EXCEPT ![e] = v] /\ rows'[e] = v
    BY <1>1 DEF IInv, TypeOK, Expire
  <1>3. /\ v.status = rows[e].status /\ v.attempts = rows[e].attempts
        /\ v.lockedBy = rows[e].lockedBy
    BY <1>1 DEF IInv, TypeOK, Row
  <1>4. /\ expiries' \in [Events -> Nat] /\ expiries[e] \in Nat /\ expiries'[e] = expiries[e] + 1
        /\ \A f \in Events : f # e => expiries'[f] = expiries[f]
    BY DEF IInv, TypeOK, Expire
  <1>5. UNCHANGED <<relays, outside>> /\ rows[e].lockedBy # None /\ ~rows[e].expired
    BY DEF Expire
  <1>6. RowChange(e, v)
    BY <1>2, <1>3, <1>4, <1>5 DEF RowChange
  <1> QED BY <1>6, RowStep

LEMMA BackoffStep ==
  ASSUME IInv, NEW e \in Events, BackoffEnds(e)
  PROVE  IInv'
  <1>1. PICK v \in Row : v = [rows[e] EXCEPT !.due = TRUE]
    BY DEF IInv, TypeOK, Row
  <1>2. rows' = [rows EXCEPT ![e] = v] /\ rows'[e] = v
    BY <1>1 DEF IInv, TypeOK, BackoffEnds
  <1>3. /\ v.status = rows[e].status /\ v.attempts = rows[e].attempts
        /\ v.lockedBy = rows[e].lockedBy /\ v.expired = rows[e].expired
    BY <1>1 DEF IInv, TypeOK, Row
  <1>4. /\ expiries[e] \in Nat /\ expiries' \in [Events -> Nat] /\ budget' \in [FaultKinds -> Nat]
        /\ expiries'[e] = expiries[e] /\ \A f \in Events : f # e => expiries'[f] = expiries[f]
    BY DEF IInv, TypeOK, BackoffEnds
  <1>5. UNCHANGED <<relays, outside>>
    BY DEF BackoffEnds
  <1>6. RowChange(e, v)
    BY <1>2, <1>3, <1>4, <1>5 DEF RowChange
  <1> QED BY <1>6, RowStep

-----------------------------------------------------------------------------
(* What the relay that takes a step does to its own state *)

Moves(r, step, todo, current) ==
  /\ relays' \in [Relays -> Relay]
  /\ relays'[r].step = step
  /\ relays'[r].todo = todo
  /\ relays'[r].current = current
  /\ \A q \in Relays : q # r => relays'[q] = relays[q]

LEMMA RelayType ==
  ASSUME TypeOK, NEW r \in Relays
  PROVE  /\ relays[r] \in Relay
         /\ relays[r].step \in Steps
         /\ relays[r].todo \in SUBSET Claimed
         /\ relays[r].current \in Claimed \cup {None}
  BY DEF TypeOK, Relay

LEMMA RecordMoves ==
  ASSUME TypeOK, NEW r \in Relays, NEW step \in Steps, NEW todo \in SUBSET Claimed,
         NEW current \in Claimed \cup {None},
         relays' = [relays EXCEPT ![r] = [step |-> step, todo |-> todo, current |-> current]]
  PROVE  Moves(r, step, todo, current)
  <1>1. PICK v \in Relay : v = [step |-> step, todo |-> todo, current |-> current]
    BY DEF Relay
  <1>2. v.step = step /\ v.todo = todo /\ v.current = current
    BY <1>1
  <1>3. relays \in [Relays -> Relay] /\ relays' = [relays EXCEPT ![r] = v]
    BY <1>1 DEF TypeOK
  <1>4. /\ relays' \in [Relays -> Relay] /\ relays'[r] = v
        /\ \A q \in Relays : q # r => relays'[q] = relays[q]
    BY <1>3
  <1> QED BY <1>2, <1>4 DEF Moves

LEMMA GoMoves ==
  ASSUME TypeOK, NEW r \in Relays, NEW step \in Steps, Go(r, step)
  PROVE  Moves(r, step, relays[r].todo, relays[r].current)
  <1>1. relays[r] = [step |-> relays[r].step, todo |-> relays[r].todo,
                     current |-> relays[r].current]
    BY RelayType DEF Relay
  <1>2. [relays[r] EXCEPT !.step = step] =
        [step |-> step, todo |-> relays[r].todo, current |-> relays[r].current]
    BY <1>1
  <1>3. relays' = [relays EXCEPT ![r] =
          [step |-> step, todo |-> relays[r].todo, current |-> relays[r].current]]
    BY <1>2 DEF Go
  <1> QED BY <1>3, RelayType, RecordMoves

LEMMA ContinueMoves ==
  ASSUME TypeOK, NEW r \in Relays, Continue(r)
  PROVE  Moves(r, IF relays[r].todo = {} THEN "idle" ELSE "publish", relays[r].todo, None)
  <1>1. PICK step \in Steps : step = IF relays[r].todo = {} THEN "idle" ELSE "publish"
    BY DEF Steps
  <1>2. relays' = [relays EXCEPT ![r] =
          [step |-> step, todo |-> relays[r].todo, current |-> None]]
    BY <1>1 DEF Continue, TypeOK
  <1> QED BY <1>1, <1>2, RelayType, RecordMoves

LEMMA TakeMoves ==
  ASSUME TypeOK, NEW r \in Relays, NEW step \in Steps, NEW c \in relays[r].todo,
         Take(r, c, step)
  PROVE  Moves(r, step, relays[r].todo \ {c}, c)
  <1>1. relays' = [relays EXCEPT ![r] =
          [step |-> step, todo |-> relays[r].todo \ {c}, current |-> c]]
    BY DEF Take, TypeOK
  <1>2. c \in Claimed /\ relays[r].todo \ {c} \in SUBSET Claimed
    BY RelayType
  <1> QED BY <1>1, <1>2, RecordMoves

(* A move of relay r that never adds to what it claimed and enters each step
   with what the step asks for. *)
Proper(r, step, todo, current) ==
  /\ todo \subseteq relays[r].todo
  /\ current = None \/ current \in ClaimsOf(r)
  /\ step \in {"idle", "dead"} => todo = {} /\ current = None
  /\ step \in {"enqueue", "mark", "fail", "mirror"} => current # None
  /\ step \in {"enqueue", "mark"} => sent'[current.event] > 0
  /\ step = "enqueue" => current.event \in Dispatching
  /\ step = "mark" /\ current.event \in Dispatching => current.event \in queued'

(* What any step of a relay does to the rest of the state: nothing is taken
   back, and a row that is leased after the step was so before. *)
Monotone ==
  /\ sent' \in [Events -> Nat]
  /\ \A e \in Events : sent[e] <= sent'[e]
  /\ queued \subseteq queued' /\ queued' \subseteq Dispatching
  /\ deadLetters' \subseteq Events
  /\ expiries' = expiries
  /\ budget' \in [FaultKinds -> Nat]
  /\ rows' \in [Events -> Row]
  /\ \A e \in Events : rows'[e].lockedBy # None => rows'[e] = rows[e]

LEMMA RelaysStep ==
  ASSUME IInv, NEW r \in Relays, NEW step, NEW todo, NEW current,
         Moves(r, step, todo, current), Proper(r, step, todo, current), Monotone
  PROVE  TypeOK' /\ \A q \in Relays : RelayOK(q)'
  <1>1. TypeOK'
    BY DEF IInv, TypeOK, Moves, Monotone
  <1>2. ASSUME NEW q \in Relays, q # r PROVE RelayOK(q)'
    <2>1. relays'[q] = relays[q] /\ RelayOK(q) /\ TypeOK
      BY <1>2 DEF Moves, IInv
    <2>2. \A e \in Events : sent[e] \in Nat /\ sent'[e] \in Nat /\ sent[e] <= sent'[e]
      BY <2>1 DEF Monotone, TypeOK
    <2>3. \A e \in Events : sent[e] > 0 => sent'[e] > 0
      BY <2>2
    <2>4. \A e \in Events : rows'[e].lockedBy = q =>
            rows[e].lockedBy = q /\ rows'[e].attempts = rows[e].attempts
      BY RelayAssumption DEF Monotone
    <2>5. queued \subseteq queued'
      BY DEF Monotone
    <2> QED BY <2>1, <2>3, <2>4, <2>5, OtherRelays
  <1>3. RelayOK(r)'
    <2>1. RelayOK(r) /\ TypeOK
      BY DEF IInv
    <2>2. /\ relays'[r].step = step /\ relays'[r].todo = todo /\ relays'[r].current = current
          /\ Current(r)' = current.event
      BY DEF Moves, Current
    <2>3. ClaimsOf(r)' \subseteq ClaimsOf(r)
      BY <2>2 DEF Proper, ClaimsOf
    <2>4. \A c \in ClaimsOf(r) : c.event \in Events
      BY <2>1, RelayType DEF ClaimsOf, Claimed
    <2>5. \A c \in ClaimsOf(r) : rows'[c.event].lockedBy = r => rows'[c.event].attempts = c.attempts
      BY <2>1, <2>4, RelayAssumption DEF Monotone, RelayOK
    <2>6. \A c \in ClaimsOf(r)' : rows'[c.event].lockedBy = r => rows'[c.event].attempts = c.attempts
      BY <2>3, <2>5
    <2>7. \A c, d \in todo : c.event = d.event => c = d
      BY <2>1 DEF Proper, RelayOK
    <2> QED BY <2>2, <2>6, <2>7 DEF RelayOK, Proper
  <1> QED BY <1>1, <1>2, <1>3

FewerTodo == \A q \in Relays : relays'[q].todo \subseteq relays[q].todo

LEMMA MovesFewerTodo ==
  ASSUME NEW r \in Relays, NEW step, NEW todo, NEW current,
         Moves(r, step, todo, current), todo \subseteq relays[r].todo
  PROVE  FewerTodo
  BY DEF Moves, FewerTodo

(* A row that the step leaves alone and whose event it does not send. *)
LEMMA RowAlone ==
  ASSUME IInv, NEW e \in Events, FewerTodo, Monotone,
         rows'[e] = rows[e], sent'[e] = sent[e]
  PROVE  RowOK(e)' /\ SendingsOK(e)'
  <1>1. RowOK(e)'
    BY RowKeeps DEF IInv, Monotone
  <1>2. SendingsOK(e)'
    BY SendingsKeep DEF IInv, FewerTodo, Monotone
  <1> QED BY <1>1, <1>2

(* A row whose outcome its owner records. *)
Settles(e, w) ==
  /\ w.lockedBy = None
  /\ \/ /\ w.status = "published" /\ w.attempts = rows[e].attempts
        /\ sent[e] > 0 /\ (e \in Dispatching => e \in queued)
     \/ /\ w.status = IF rows[e].attempts + 1 >= MaxAttempts THEN "dead_letter" ELSE "failed"
        /\ w.attempts = rows[e].attempts + 1

LEMMA RowSettles ==
  ASSUME IInv, NEW e \in Events, NEW w \in Row, rows[e].lockedBy # None, Settles(e, w),
         FewerTodo, Monotone, rows'[e] = w, sent' = sent
  PROVE  RowOK(e)' /\ SendingsOK(e)'
  <1>1. /\ rows[e].status \in OpenStatuses
        /\ rows[e].attempts \in Nat /\ rows[e].attempts <= MaxAttempts
        /\ rows[e].attempts # MaxAttempts /\ MaxAttempts \in Nat
        /\ sent[e] \in Nat /\ expiries[e] \in Nat
    BY RelayAssumption DEF IInv, TypeOK, Row, RowOK, OpenStatuses
  <1>2. RowOK(e)'
    <2>1. CASE w.status = "published" /\ w.attempts = rows[e].attempts
               /\ sent[e] > 0 /\ (e \in Dispatching => e \in queued)
      BY <1>1, <2>1 DEF RowOK, Settles, Monotone
    <2>2. CASE w.status = (IF rows[e].attempts + 1 >= MaxAttempts THEN "dead_letter" ELSE "failed")
               /\ w.attempts = rows[e].attempts + 1
      BY <1>1, <2>2 DEF RowOK, Settles
    <2> QED BY <2>1, <2>2 DEF Settles
  <1>3. SendingsOK(e)'
    <2>1. Senders(e)' \subseteq Senders(e)
      BY DEF Senders, FewerTodo
    <2>2. Cardinality(Senders(e))' \in Nat /\ Cardinality(Senders(e))' <= Cardinality(Senders(e))
      BY <2>1, FewerSenders
    <2>3. Cardinality(Senders(e)) \in Nat
      BY SendersFinite
    <2>4. Available(e) \in {0, 1} /\ Available(e)' \in {0, 1}
      BY DEF Available
    <2>5. SendingsOK(e) /\ expiries' = expiries
      BY DEF IInv, Monotone
    <2>6. CASE w.status = "published" /\ w.attempts = rows[e].attempts
      <3>1. Available(e)' = 0
        BY <2>6 DEF Available, OpenStatuses
      <3> QED BY <1>1, <2>2, <2>3, <2>4, <2>5, <2>6, <3>1 DEF SendingsOK
    <2>7. CASE w.attempts = rows[e].attempts + 1
      BY <1>1, <2>2, <2>3, <2>4, <2>5, <2>7 DEF SendingsOK
    <2> QED BY <2>6, <2>7 DEF Settles
  <1> QED BY <1>2, <1>3

(* A relay that sends its claim on event e is not going to send it again: the
   sending takes the place of one that was possible. *)
LEMMA SendOne ==
  ASSUME IInv, NEW r \in Relays, NEW c \in relays[r].todo, NEW step,
         Moves(r, step, relays[r].todo \ {c}, c), Monotone, rows' = rows,
         sent'[c.event] <= sent[c.event] + 1
  PROVE  SendingsOK(c.event)'
  <1> DEFINE e == c.event
  <1>1. e \in Events
    BY RelayType DEF IInv, Claimed
  <1>2. \A d \in relays[r].todo : d.event = e => d = c
    BY DEF IInv, RelayOK
  <1>3. PICK T : T = Senders(e) /\ r \in T
    BY DEF Senders
  <1>4. Senders(e)' = T \ {r}
    <2>1. \A q \in Relays : q # r => relays'[q].todo = relays[q].todo
      BY DEF Moves
    <2>2. ~\E d \in relays'[r].todo : d.event = e
      BY <1>2 DEF Moves
    <2> QED BY <1>3, <2>1, <2>2 DEF Senders
  <1>5. IsFiniteSet(T) /\ Cardinality(T) \in Nat
    BY <1>1, <1>3, SendersFinite
  <1>6. Cardinality(T \ {r}) = Cardinality(T) - 1
    BY <1>3, <1>5, FS_RemoveElement
  <1>7. Cardinality(Senders(e))' = Cardinality(Senders(e)) - 1
    BY <1>3, <1>4, <1>6
  <1>8. Cardinality(Senders(e)) \in Nat
    BY <1>3, <1>5
  <1>9. Available(e)' = Available(e) /\ Available(e) \in {0, 1}
    BY DEF Available
  <1>10. /\ sent[e] \in Nat /\ sent'[e] \in Nat /\ expiries[e] \in Nat /\ rows[e].attempts \in Nat
         /\ expiries' = expiries
    BY <1>1, RelayAssumption DEF IInv, TypeOK, Row, Monotone
  <1>11. SendingsOK(e)
    BY <1>1 DEF IInv
  <1> QED BY <1>7, <1>8, <1>9, <1>10, <1>11 DEF SendingsOK

-----------------------------------------------------------------------------
(* The steps of a relay *)

LEMMA SendStep ==
  ASSUME IInv, NEW r \in Relays, NEW c \in relays[r].todo, NEW step \in {"enqueue", "mark", "fail"},
         Take(r, c, step),
         step = "enqueue" => c.event \in Dispatching,
         step = "mark" => c.event \notin Dispatching,
         \/ step = "fail" /\ UNCHANGED sent
         \/ BrokerTakes(c.event),
         UNCHANGED <<rows, queued, deadLetters, expiries, budget>>
  PROVE  IInv'
  <1>0. TypeOK /\ c \in Claimed /\ c.event \in Events
    BY RelayType DEF IInv, Claimed
  <1>1. Moves(r, step, relays[r].todo \ {c}, c)
    BY <1>0, TakeMoves DEF Steps
  <1>2. /\ sent' \in [Events -> Nat]
        /\ \A e \in Events : sent[e] <= sent'[e]
        /\ \A e \in Events : e # c.event => sent'[e] = sent[e]
        /\ sent'[c.event] <= sent[c.event] + 1
        /\ step # "fail" => sent'[c.event] > 0
    <2>1. sent \in [Events -> Nat]
      BY <1>0 DEF TypeOK
    <2>2. CASE BrokerTakes(c.event)
      BY <1>0, <2>1, <2>2 DEF BrokerTakes
    <2>3. CASE step = "fail" /\ UNCHANGED sent
      BY <1>0, <2>1, <2>3
    <2> QED BY <2>2, <2>3
  <1>3. Monotone
    BY <1>0, <1>2 DEF Monotone, TypeOK
  <1>4. Proper(r, step, relays[r].todo \ {c}, c)
    BY <1>0, <1>2, NoneAssumption DEF Proper, ClaimsOf
  <1>5. TypeOK' /\ \A q \in Relays : RelayOK(q)'
    BY <1>1, <1>3, <1>4, RelaysStep
  <1>6. FewerTodo
    BY <1>1, MovesFewerTodo
  <1>7. ASSUME NEW e \in Events, e # c.event PROVE RowOK(e)' /\ SendingsOK(e)'
    BY <1>2, <1>3, <1>6, <1>7, RowAlone
  <1>8. RowOK(c.event)'
    <2>1. sent[c.event] \in Nat /\ sent'[c.event] \in Nat /\ sent[c.event] <= sent'[c.event]
      BY <1>0, <1>2 DEF TypeOK
    <2> QED BY <1>0, <2>1, RowKeeps DEF IInv
  <1>9. SendingsOK(c.event)'
    BY <1>1, <1>2, <1>3, SendOne
  <1> QED BY <1>5, <1>7, <1>8, <1>9 DEF IInv

LEMMA PublishStep ==
  ASSUME IInv, NEW r \in Relays, Publish(r) \/ PublishFails(r)
  PROVE  IInv'
  <1>1. CASE Publish(r)
    <2>1. PICK c \in relays[r].todo : Take(r, c, AfterBroker(c.event)) /\ BrokerTakes(c.event)
      BY <1>1 DEF Publish
    <2>2. PICK step \in {"enqueue", "mark", "fail"} : step = AfterBroker(c.event)
      BY DEF AfterBroker
    <2>3. (step = "enqueue" => c.event \in Dispatching) /\ (step = "mark" => c.event \notin Dispatching)
      BY <2>2 DEF AfterBroker
    <2> QED BY <1>1, <2>1, <2>2, <2>3, SendStep DEF Publish
  <1>2. CASE PublishFails(r)
    <2>1. PICK c \in relays[r].todo :
            Take(r, c, "fail") /\ (UNCHANGED sent \/ BrokerTakes(c.event))
      BY <1>2 DEF PublishFails
    <2> QED BY <1>2, <2>1, SendStep DEF PublishFails
  <1> QED BY <1>1, <1>2

(* A step that neither sends nor touches a row. *)
LEMMA QuietStep ==
  ASSUME IInv, NEW r \in Relays, NEW step, NEW todo, NEW current,
         Moves(r, step, todo, current), Proper(r, step, todo, current), Monotone,
         rows' = rows, sent' = sent
  PROVE  IInv'
  <1>1. TypeOK' /\ \A q \in Relays : RelayOK(q)'
    BY RelaysStep
  <1>2. FewerTodo
    BY MovesFewerTodo DEF Proper
  <1>3. ASSUME NEW e \in Events PROVE RowOK(e)' /\ SendingsOK(e)'
    BY <1>2, RowAlone
  <1> QED BY <1>1, <1>3 DEF IInv

LEMMA EnqueueStep ==
  ASSUME IInv, NEW r \in Relays, Enqueue(r) \/ EnqueueFails(r)
  PROVE  IInv'
  <1>1. /\ TypeOK /\ relays[r].step = "enqueue" /\ relays[r].current # None
        /\ relays[r].current \in Claimed /\ relays[r].current \in ClaimsOf(r)
        /\ Current(r) \in Dispatching /\ sent[Current(r)] > 0
        /\ UNCHANGED <<rows, sent, deadLetters, expiries, budget>>
        /\ queued \subseteq queued' /\ queued' \subseteq queued \cup {Current(r)}
    BY RelayType DEF IInv, RelayOK, Enqueue, EnqueueFails, ClaimsOf
  <1>2. \A e \in Events : sent[e] <= sent'[e]
    BY <1>1 DEF TypeOK
  <1>3. Monotone
    BY <1>1, <1>2 DEF Monotone, TypeOK
  <1>4. CASE Enqueue(r)
    <2>1. Moves(r, "mark", relays[r].todo, relays[r].current)
      BY <1>1, <1>4, GoMoves DEF Enqueue, Steps
    <2>2. Current(r) \in queued'
      BY <1>4 DEF Enqueue
    <2>3. Proper(r, "mark", relays[r].todo, relays[r].current)
      BY <1>1, <2>2 DEF Proper, Current
    <2> QED BY <1>1, <1>3, <2>1, <2>3, QuietStep
  <1>5. CASE EnqueueFails(r)
    <2>1. Moves(r, "fail", relays[r].todo, relays[r].current)
      BY <1>1, <1>5, GoMoves DEF EnqueueFails, Steps
    <2>2. Proper(r, "fail", relays[r].todo, relays[r].current)
      BY <1>1 DEF Proper
    <2> QED BY <1>1, <1>3, <2>1, <2>2, QuietStep
  <1> QED BY <1>4, <1>5

LEMMA ContinueProper ==
  ASSUME NEW r \in Relays
  PROVE  Proper(r, IF relays[r].todo = {} THEN "idle" ELSE "publish", relays[r].todo, None)
  BY DEF Proper

LEMMA MirrorStep ==
  ASSUME IInv, NEW r \in Relays, Mirror(r)
  PROVE  IInv'
  <1>1. /\ TypeOK /\ relays[r].current # None /\ relays[r].current \in Claimed
        /\ UNCHANGED <<rows, sent, queued, expiries, budget>>
    BY RelayType DEF IInv, RelayOK, Mirror
  <1>2. Current(r) \in Events
    BY <1>1 DEF Current, Claimed
  <1>3. deadLetters' \subseteq Events
    BY <1>1, <1>2 DEF Mirror, TypeOK
  <1>4. \A e \in Events : sent[e] <= sent'[e]
    BY <1>1 DEF TypeOK
  <1>5. Monotone
    BY <1>1, <1>3, <1>4 DEF Monotone, TypeOK
  <1> QED BY <1>1, <1>5, ContinueMoves, ContinueProper, QuietStep DEF Mirror

(* A relay that lets go of everything. *)
LEMMA NothingProper ==
  ASSUME NEW r \in Relays, NEW step \in {"idle", "dead"}
  PROVE  Proper(r, step, {}, None)
  BY DEF Proper

LEMMA CrashStep ==
  ASSUME IInv, NEW r \in Relays, Crash(r)
  PROVE  IInv'
  <1>1. TypeOK /\ UNCHANGED <<rows, sent, queued, deadLetters, expiries>>
    BY DEF IInv, Crash, outside
  <1>2. budget' \in [FaultKinds -> Nat]
    BY <1>1, BudgetType DEF Crash, FaultKinds
  <1>3. \A e \in Events : sent[e] <= sent'[e]
    BY <1>1 DEF TypeOK
  <1>4. Monotone
    BY <1>1, <1>2, <1>3 DEF Monotone, TypeOK
  <1>5. Moves(r, "dead", {}, None)
    BY <1>1, RecordMoves DEF Crash, Steps
  <1> QED BY <1>1, <1>4, <1>5, NothingProper, QuietStep

(* The UPDATE that records an outcome, when the relay still owns the row. *)
LEMMA ReleaseSettles ==
  ASSUME IInv, NEW r \in Relays, NEW c \in Claimed, c = relays[r].current,
         Owns(r, c.event),
         \/ relays[r].step = "mark" /\ CommitPublished(r, c.event)
         \/ relays[r].step = "fail" /\ CommitFailed(r, c)
  PROVE  \E w \in Row : Settles(c.event, w) /\ rows' = [rows EXCEPT ![c.event] = w]
  <1> DEFINE e == c.event
  <1>1. /\ TypeOK /\ RelayOK(r) /\ e \in Events /\ RowOK(e) /\ c # None /\ c \in ClaimsOf(r)
    BY NoneAssumption DEF IInv, Claimed, ClaimsOf
  <1>2. /\ rows[e].lockedBy = r /\ rows[e].attempts = c.attempts /\ r # None
        /\ rows[e].status \in OpenStatuses /\ rows[e].due \in BOOLEAN
        /\ rows[e].attempts \in Nat /\ rows[e].attempts <= MaxAttempts /\ MaxAttempts \in Nat
        /\ rows[e].attempts # MaxAttempts
    BY <1>1, RelayAssumption DEF Owns, RelayOK, RowOK, OpenStatuses, TypeOK, Row
  <1>3. CASE relays[r].step = "mark" /\ CommitPublished(r, e)
    <2>1. PICK w : w = [status |-> "published", attempts |-> rows[e].attempts,
                        due |-> rows[e].due, lockedBy |-> None, expired |-> FALSE]
      OBVIOUS
    <2>2. w \in Row
      BY <1>2, <2>1 DEF Row, EventStatuses
    <2>3. sent[e] > 0 /\ (e \in Dispatching => e \in queued)
      BY <1>1, <1>3 DEF RelayOK, Current
    <2>4. Settles(e, w)
      BY <2>1, <2>3 DEF Settles
    <2>5. rows' = [rows EXCEPT ![e] = w]
      BY <1>3, <2>1 DEF CommitPublished, Release
    <2> QED BY <2>2, <2>4, <2>5
  <1>4. CASE relays[r].step = "fail" /\ CommitFailed(r, c)
    <2>1. PICK w : w = [status |-> IF IsLast(c) THEN "dead_letter" ELSE "failed",
                        attempts |-> rows[e].attempts + 1,
                        due |-> IF IsLast(c) THEN rows[e].due ELSE FALSE,
                        lockedBy |-> None, expired |-> FALSE]
      OBVIOUS
    <2>2. w \in Row
      <3>1. CASE IsLast(c)
        BY <1>2, <2>1, <3>1 DEF Row, EventStatuses
      <3>2. CASE ~IsLast(c)
        BY <1>2, <2>1, <3>2 DEF Row, EventStatuses
      <3> QED BY <3>1, <3>2
    <2>3. IsLast(c) <=> rows[e].attempts + 1 >= MaxAttempts
      BY <1>2 DEF IsLast
    <2>4. Settles(e, w)
      BY <2>1, <2>3 DEF Settles
    <2>5. rows' = [rows EXCEPT ![e] = w]
      BY <1>4, <2>1 DEF CommitFailed, FailRow, Release
    <2> QED BY <2>2, <2>4, <2>5
  <1> QED BY <1>3, <1>4

(* A step that records an outcome, or finds that the row is another relay's. *)
LEMMA OutcomeStep ==
  ASSUME IInv, NEW r \in Relays, NEW step, NEW todo, NEW current,
         Moves(r, step, todo, current), Proper(r, step, todo, current),
         relays[r].current # None,
         \/ UNCHANGED rows
         \/ relays[r].step = "mark" /\ CommitPublished(r, Current(r))
         \/ relays[r].step = "fail" /\ CommitFailed(r, relays[r].current),
         UNCHANGED <<outside, expiries>>, budget' \in [FaultKinds -> Nat]
  PROVE  IInv'
  <1>0. PICK c \in Claimed : c = relays[r].current
    BY RelayType DEF IInv
  <1>1. TypeOK /\ c.event \in Events /\ Current(r) = c.event
        /\ sent' = sent /\ queued' = queued /\ deadLetters' = deadLetters
        /\ expiries' = expiries
    BY <1>0 DEF IInv, Claimed, Current, outside
  <1>2. FewerTodo
    BY MovesFewerTodo DEF Proper
  <1>3. \A e \in Events : sent[e] <= sent'[e]
    BY <1>1 DEF TypeOK
  <1>4. CASE UNCHANGED rows
    <2>1. Monotone
      BY <1>1, <1>3, <1>4 DEF Monotone, TypeOK
    <2> QED BY <1>1, <1>4, <2>1, QuietStep
  <1>5. CASE ~UNCHANGED rows
    <2>1. Owns(r, c.event)
      BY <1>0, <1>1, <1>5 DEF CommitPublished, CommitFailed
    <2>2. PICK w \in Row : Settles(c.event, w) /\ rows' = [rows EXCEPT ![c.event] = w]
      BY <1>0, <1>1, <1>5, <2>1, ReleaseSettles
    <2>3. /\ rows' \in [Events -> Row] /\ rows'[c.event] = w
          /\ \A e \in Events : e # c.event => rows'[e] = rows[e]
      BY <1>1, <2>2 DEF TypeOK
    <2>4. w.lockedBy = None
      BY <2>2 DEF Settles
    <2>5. Monotone
      BY <1>1, <1>3, <2>3, <2>4 DEF Monotone, TypeOK
    <2>6. rows[c.event].lockedBy # None
      BY <2>1, RelayAssumption DEF Owns
    <2>7. TypeOK' /\ \A q \in Relays : RelayOK(q)'
      BY <2>5, RelaysStep
    <2>8. RowOK(c.event)' /\ SendingsOK(c.event)'
      BY <1>1, <1>2, <2>2, <2>3, <2>5, <2>6, RowSettles
    <2>9. ASSUME NEW e \in Events, e # c.event PROVE RowOK(e)' /\ SendingsOK(e)'
      BY <1>1, <1>2, <2>3, <2>5, <2>9, RowAlone
    <2> QED BY <2>7, <2>8, <2>9 DEF IInv
  <1> QED BY <1>4, <1>5

LEMMA MarkStep ==
  ASSUME IInv, NEW r \in Relays, MarkPublished(r) \/ MarkPublishedFails(r)
  PROVE  IInv'
  <1>1. /\ TypeOK /\ relays[r].step = "mark" /\ relays[r].current # None
        /\ relays[r].current \in ClaimsOf(r)
        /\ UNCHANGED rows \/ CommitPublished(r, Current(r))
        /\ UNCHANGED <<outside, expiries>>
    BY DEF IInv, RelayOK, MarkPublished, MarkPublishedFails, ClaimsOf
  <1>2. CASE MarkPublished(r)
    <2>1. budget' \in [FaultKinds -> Nat]
      BY <1>1, <1>2 DEF MarkPublished, TypeOK
    <2> QED BY <1>1, <1>2, <2>1, ContinueMoves, ContinueProper, OutcomeStep DEF MarkPublished
  <1>3. CASE MarkPublishedFails(r)
    <2>1. budget' \in [FaultKinds -> Nat]
      BY <1>1, <1>3, BudgetType DEF MarkPublishedFails, FaultKinds
    <2>2. Moves(r, "fail", relays[r].todo, relays[r].current)
      BY <1>1, <1>3, GoMoves DEF MarkPublishedFails, Steps
    <2>3. Proper(r, "fail", relays[r].todo, relays[r].current)
      BY <1>1 DEF Proper
    <2> QED BY <1>1, <2>1, <2>2, <2>3, OutcomeStep
  <1> QED BY <1>2, <1>3

LEMMA FailStep ==
  ASSUME IInv, NEW r \in Relays, MarkFailed(r) \/ MarkFailedFails(r)
  PROVE  IInv'
  <1>1. /\ TypeOK /\ relays[r].step = "fail" /\ relays[r].current # None
        /\ relays[r].current \in ClaimsOf(r)
        /\ UNCHANGED rows \/ CommitFailed(r, relays[r].current)
        /\ UNCHANGED <<outside, expiries>>
    BY DEF IInv, RelayOK, MarkFailed, MarkFailedFails, ClaimsOf
  <1>2. CASE MarkFailed(r)
    <2>1. budget' \in [FaultKinds -> Nat]
      BY <1>1, <1>2 DEF MarkFailed, TypeOK
    <2>2. CASE Go(r, "mirror")
      <3>1. Moves(r, "mirror", relays[r].todo, relays[r].current)
        BY <1>1, <2>2, GoMoves DEF Steps
      <3>2. Proper(r, "mirror", relays[r].todo, relays[r].current)
        BY <1>1 DEF Proper
      <3> QED BY <1>1, <2>1, <3>1, <3>2, OutcomeStep
    <2>3. CASE Continue(r)
      BY <1>1, <2>1, <2>3, ContinueMoves, ContinueProper, OutcomeStep
    <2> QED BY <1>2, <2>2, <2>3 DEF MarkFailed
  <1>3. CASE MarkFailedFails(r)
    <2>1. budget' \in [FaultKinds -> Nat]
      BY <1>1, <1>3, BudgetType DEF MarkFailedFails, FaultKinds
    <2>2. Moves(r, "idle", {}, None)
      BY <1>1, <1>3, RecordMoves DEF MarkFailedFails, Idle, Steps
    <2> QED BY <1>1, <2>1, <2>2, NothingProper, OutcomeStep
  <1> QED BY <1>2, <1>3

(* claimBatch: the rows of the batch are leased to r, the others are left. *)
LEMMA LeaseRows ==
  ASSUME IInv, NEW r \in Relays, LeaseTo(r)
  PROVE  /\ Batch \subseteq Events
         /\ rows' \in [Events -> Row]
         /\ \A e \in Batch :
              /\ rows[e].status \in OpenStatuses
              /\ rows[e].lockedBy = None \/ rows[e].expired
              /\ rows'[e].status = rows[e].status /\ rows'[e].attempts = rows[e].attempts
              /\ rows'[e].lockedBy = r /\ rows'[e].expired = FALSE
         /\ \A e \in Events \ Batch : rows'[e] = rows[e]
  <1> DEFINE Leased(e) == [rows[e] EXCEPT !.lockedBy = r, !.expired = FALSE]
  <1>1. TypeOK /\ Batch \subseteq Events
    BY DEF IInv, Batch
  <1>2. \A e \in Batch : rows[e].status \in OpenStatuses
                         /\ (rows[e].lockedBy = None \/ rows[e].expired)
    BY DEF Batch, Claimable, OpenStatuses
  <1>3. ASSUME NEW e \in Events
        PROVE  /\ Leased(e) \in Row
               /\ Leased(e).status = rows[e].status /\ Leased(e).attempts = rows[e].attempts
               /\ Leased(e).lockedBy = r /\ Leased(e).expired = FALSE
    BY <1>1 DEF TypeOK, Row
  <1>4. rows' = [e \in Events |-> IF e \in Batch THEN Leased(e) ELSE rows[e]]
    BY DEF LeaseTo
  <1>5. \A e \in Events : rows[e] \in Row
    BY <1>1 DEF TypeOK
  <1> HIDE DEF Leased
  <1>6. rows' \in [Events -> Row]
    BY <1>3, <1>4, <1>5
  <1>7. \A e \in Batch : rows'[e] = Leased(e)
    BY <1>1, <1>4
  <1>8. \A e \in Events \ Batch : rows'[e] = rows[e]
    BY <1>4
  <1> QED BY <1>1, <1>2, <1>3, <1>6, <1>7, <1>8

(* Rows keep their invariant under a lease; the lease uses up the claim that
   was available on each row of the batch. *)
LEMMA LeaseKeepsRows ==
  ASSUME IInv, NEW r \in Relays, LeaseTo(r), UNCHANGED <<outside, expiries>>
  PROVE  /\ \A e \in Events : RowOK(e)'
         /\ \A e \in Batch : Available(e) = 1 /\ Available(e)' = 0
         /\ \A e \in Events \ Batch : Available(e)' = Available(e)
  <1>1. ASSUME NEW e \in Events PROVE RowOK(e)'
    <2>1. RowOK(e) /\ sent' = sent /\ queued' = queued
      BY DEF IInv, outside
    <2>2. CASE e \in Batch
      BY <2>1, <2>2, LeaseRows DEF RowOK
    <2>3. CASE e \notin Batch
      <3>1. rows'[e] = rows[e]
        BY <2>3, LeaseRows
      <3> QED BY <2>1, <3>1 DEF RowOK
    <2> QED BY <2>2, <2>3
  <1>2. ASSUME NEW e \in Batch PROVE Available(e) = 1 /\ Available(e)' = 0
    <2>1. rows'[e].lockedBy # None /\ rows'[e].expired = FALSE
      <3>1. rows'[e].lockedBy = r /\ rows'[e].expired = FALSE
        BY LeaseRows
      <3>2. r # None
        BY RelayAssumption
      <3> QED BY <3>1, <3>2
    <2>2. rows[e].status \in OpenStatuses /\ (rows[e].lockedBy = None \/ rows[e].expired)
      BY LeaseRows
    <2>3. Available(e)' = 0
      BY <2>1 DEF Available
    <2>4. Available(e) = 1
      BY <2>2 DEF Available
    <2> QED BY <2>3, <2>4
  <1>3. ASSUME NEW e \in Events \ Batch PROVE Available(e)' = Available(e)
    <2>1. rows'[e] = rows[e]
      BY LeaseRows
    <2> QED BY <2>1 DEF Available
  <1> QED BY <1>1, <1>2, <1>3

LEMMA LeaseKeepsOthers ==
  ASSUME IInv, NEW r \in Relays, LeaseTo(r), UNCHANGED <<outside, expiries>>,
         NEW q \in Relays, q # r, relays'[q] = relays[q]
  PROVE  RelayOK(q)'
  <1>1. TypeOK /\ RelayOK(q) /\ sent' = sent /\ queued' = queued
    BY DEF IInv, outside
  <1>2. \A e \in Events : sent[e] > 0 => sent'[e] > 0
    BY <1>1
  <1>3. \A e \in Events : rows'[e].lockedBy = q =>
          rows[e].lockedBy = q /\ rows'[e].attempts = rows[e].attempts
    BY LeaseRows
  <1> QED BY <1>1, <1>2, <1>3, OtherRelays

LEMMA ClaimUnansweredStep ==
  ASSUME IInv, NEW r \in Relays, ClaimBatchUnanswered(r)
  PROVE  IInv'
  <1>1. /\ TypeOK /\ RelayOK(r) /\ LeaseTo(r) /\ relays[r].step = "idle" /\ relays' = relays
        /\ UNCHANGED <<outside, expiries>>
        /\ sent' = sent /\ queued' = queued /\ deadLetters' = deadLetters
    BY DEF IInv, ClaimBatchUnanswered, outside
  <1>2. TypeOK'
    <2>1. budget' \in [FaultKinds -> Nat]
      BY <1>1, BudgetType DEF ClaimBatchUnanswered, FaultKinds
    <2> QED BY <1>1, <2>1, LeaseRows DEF TypeOK
  <1>3. ASSUME NEW q \in Relays PROVE RelayOK(q)'
    <2>1. CASE q # r
      BY <1>1, <2>1, LeaseKeepsOthers
    <2>2. CASE q = r
      BY <1>1, <2>2 DEF RelayOK, ClaimsOf
    <2> QED BY <2>1, <2>2
  <1>4. ASSUME NEW e \in Events PROVE SendingsOK(e)'
    <2>1. Cardinality(Senders(e))' = Cardinality(Senders(e)) /\ Cardinality(Senders(e)) \in Nat
      BY <1>1, SendersFinite DEF Senders
    <2>2. /\ sent[e] \in Nat /\ expiries[e] \in Nat /\ rows[e].attempts \in Nat
          /\ sent' = sent /\ expiries' = expiries /\ SendingsOK(e)
          /\ rows'[e].attempts = rows[e].attempts
      <3>1. sent[e] \in Nat /\ expiries[e] \in Nat /\ rows[e].attempts \in Nat
        BY <1>1, RelayAssumption DEF TypeOK, Row
      <3>2. rows'[e].attempts = rows[e].attempts
        BY <1>1, LeaseRows
      <3> QED BY <1>1, <3>1, <3>2 DEF IInv
    <2>3. Available(e)' <= Available(e) /\ Available(e) \in Nat /\ Available(e)' \in Nat
      <3>1. Available(e) \in {0, 1} /\ Available(e)' \in {0, 1}
        BY DEF Available
      <3> QED BY <1>1, <3>1, LeaseKeepsRows
    <2> QED BY <2>1, <2>2, <2>3 DEF SendingsOK
  <1> QED BY <1>1, <1>2, <1>3, <1>4, LeaseKeepsRows DEF IInv

LEMMA ClaimBatchStep ==
  ASSUME IInv, NEW r \in Relays, ClaimBatch(r)
  PROVE  IInv'
  <1>1. /\ TypeOK /\ RelayOK(r) /\ LeaseTo(r) /\ relays[r].step = "idle"
        /\ relays[r].todo = {}
        /\ UNCHANGED <<outside, expiries>> /\ budget' = budget
        /\ sent' = sent /\ queued' = queued /\ deadLetters' = deadLetters
    BY DEF IInv, RelayOK, ClaimBatch, outside
  <1>2. PICK claims : claims = {[event |-> e, attempts |-> rows[e].attempts] : e \in Batch}
    OBVIOUS
  <1>3. claims \in SUBSET Claimed
    <2>1. Batch \subseteq Events /\ \A e \in Events : rows[e].attempts \in 0 .. MaxAttempts
      BY <1>1, LeaseRows DEF TypeOK, Row
    <2> QED BY <1>2, <2>1 DEF Claimed
  <1>4. Moves(r, "publish", claims, None)
    BY <1>1, <1>2, <1>3, RecordMoves DEF ClaimBatch, Steps
  <1>5. TypeOK'
    BY <1>1, <1>4, LeaseRows DEF TypeOK, Moves
  <1>6. ASSUME NEW q \in Relays PROVE RelayOK(q)'
    <2>1. CASE q # r
      BY <1>1, <1>4, <2>1, LeaseKeepsOthers DEF Moves
    <2>2. CASE q = r
      <3>1. ClaimsOf(r)' = claims
        BY <1>4 DEF Moves, ClaimsOf
      <3>2. \A c, d \in claims : c.event = d.event => c = d
        BY <1>2
      <3>3. ASSUME NEW c \in claims PROVE rows'[c.event].attempts = c.attempts
        <4>1. c.event \in Batch /\ c.attempts = rows[c.event].attempts
          BY <1>2
        <4>2. rows'[c.event].attempts = rows[c.event].attempts
          BY <1>1, <4>1, LeaseRows
        <4> QED BY <4>1, <4>2
      <3> QED BY <1>4, <2>2, <3>1, <3>2, <3>3 DEF Moves, RelayOK
    <2> QED BY <2>1, <2>2
  <1>7. ASSUME NEW e \in Events PROVE SendingsOK(e)'
    <2>1. PICK T : T = Senders(e) /\ r \notin T /\ IsFiniteSet(T) /\ Cardinality(T) \in Nat
      BY <1>1, SendersFinite DEF Senders
    <2>2. \A q \in Relays : q # r => relays'[q].todo = relays[q].todo
      BY <1>4 DEF Moves
    <2>3. (\E c \in relays'[r].todo : c.event = e) <=> e \in Batch
      <3>1. relays'[r].todo = claims
        BY <1>4 DEF Moves
      <3>2. \A c \in claims : c.event \in Batch
        BY <1>2
      <3>3. ASSUME e \in Batch PROVE \E c \in claims : c.event = e
        <4>1. [event |-> e, attempts |-> rows[e].attempts] \in claims
          BY <1>2, <3>3
        <4> QED BY <4>1
      <3> QED BY <3>1, <3>2, <3>3
    <2>4. /\ sent[e] \in Nat /\ expiries[e] \in Nat /\ rows[e].attempts \in Nat
          /\ SendingsOK(e)
      BY <1>1, RelayAssumption DEF IInv, TypeOK, Row
    <2>5. rows'[e].attempts = rows[e].attempts /\ sent' = sent /\ expiries' = expiries
      BY <1>1, LeaseRows
    <2>6. CASE e \in Batch
      <3>1. Senders(e)' = T \cup {r}
        BY <2>1, <2>2, <2>3, <2>6 DEF Senders
      <3>2. Cardinality(T \cup {r}) = Cardinality(T) + 1
        BY <2>1, FS_AddElement
      <3>3. Cardinality(Senders(e))' = Cardinality(Senders(e)) + 1
        BY <2>1, <3>1, <3>2
      <3>4. Available(e) = 1 /\ Available(e)' = 0
        BY <1>1, <2>6, LeaseKeepsRows
      <3> QED BY <2>1, <2>4, <2>5, <3>3, <3>4 DEF SendingsOK
    <2>7. CASE e \notin Batch
      <3>1. Senders(e)' = T
        BY <1>1, <2>1, <2>2, <2>3, <2>7 DEF Senders
      <3>2. Cardinality(Senders(e))' = Cardinality(Senders(e))
        BY <2>1, <3>1
      <3>3. Available(e)' = Available(e) /\ Available(e) \in {0, 1}
        BY <1>1, <2>7, LeaseKeepsRows DEF Available
      <3> QED BY <2>1, <2>4, <2>5, <3>2, <3>3 DEF SendingsOK
    <2> QED BY <2>6, <2>7
  <1> QED BY <1>1, <1>5, <1>6, <1>7, LeaseKeepsRows DEF IInv

-----------------------------------------------------------------------------
(* The theorems *)

LEMMA NextIInv == IInv /\ [Next]_vars => IInv'
  <1> SUFFICES ASSUME IInv, [Next]_vars PROVE IInv'
    OBVIOUS
  <1>1. ASSUME NEW e \in Events, Append(e) PROVE IInv'
    BY <1>1, AppendStep
  <1>2. ASSUME NEW e \in Events, ExpireAbandoned(e) PROVE IInv'
    BY <1>2, ExpireStep DEF ExpireAbandoned, IInv, TypeOK
  <1>3. ASSUME NEW e \in Events, ExpireUnderway(e) PROVE IInv'
    <2>1. budget' \in [FaultKinds -> Nat]
      BY <1>3, BudgetType DEF ExpireUnderway, IInv, FaultKinds
    <2> QED BY <1>3, <2>1, ExpireStep DEF ExpireUnderway
  <1>4. ASSUME NEW e \in Events, BackoffEnds(e) PROVE IInv'
    BY <1>4, BackoffStep
  <1>5. ASSUME NEW r \in Relays, ClaimBatch(r) \/ ClaimBatchUnanswered(r) PROVE IInv'
    BY <1>5, ClaimBatchStep, ClaimUnansweredStep
  <1>6. ASSUME NEW r \in Relays, Work(r) PROVE IInv'
    BY <1>6, PublishStep, EnqueueStep, MarkStep, FailStep, MirrorStep DEF Work
  <1>7. ASSUME NEW r \in Relays, MarkPublishedFails(r) \/ MarkFailedFails(r) \/ Crash(r)
        PROVE  IInv'
    BY <1>7, MarkStep, FailStep, CrashStep
  <1>8. CASE UNCHANGED vars
    <2>1. \A e \in Events : RowOK(e)' /\ SendingsOK(e)'
      BY <1>8 DEF IInv, vars, outside, RowOK, SendingsOK, Senders, Available
    <2>2. \A r \in Relays : RelayOK(r)'
      BY <1>8 DEF IInv, vars, outside, RelayOK, ClaimsOf, Current
    <2> QED BY <1>8, <2>1, <2>2 DEF IInv, TypeOK, vars, outside
  <1> QED BY <1>1, <1>2, <1>3, <1>4, <1>5, <1>6, <1>7, <1>8 DEF Next, Fails

THEOREM InductiveInvariant == Spec => []IInv
  <1>1. Init => IInv
    BY InitIInv
  <1>2. IInv /\ [Next]_vars => IInv'
    BY NextIInv
  <1> QED BY <1>1, <1>2, PTL DEF Spec

(* Type correctness of the table, the relays and the queues. *)
THEOREM TypeCorrect == Spec => []TypeOK
  <1>1. IInv => TypeOK
    BY DEF IInv
  <1> QED BY <1>1, InductiveInvariant, PTL

(* An event is marked published only after the broker took it and, for a
   released payout, after BullMQ took its dispatch job, however many relays
   lose their lease, fail or crash on it. *)
THEOREM PublishedWasAcceptedHolds == Spec => []PublishedWasAccepted
  <1>1. IInv => PublishedWasAccepted
    BY DEF IInv, RowOK, PublishedWasAccepted
  <1> QED BY <1>1, InductiveInvariant, PTL

(* An event is given up exactly when MaxAttempts failures are recorded on its
   row: the attempts that a relay read with its claim are those of the row as
   long as its lease is its own. *)
THEOREM GivenUpAfterLastAttemptHolds == Spec => []GivenUpAfterLastAttempt
  <1>1. IInv => GivenUpAfterLastAttempt
    BY DEF IInv, RowOK, GivenUpAfterLastAttempt
  <1> QED BY <1>1, InductiveInvariant, PTL

(* The broker takes an event at most once more than the recorded failures and
   the expired leases of its row, for any number of relays. *)
THEOREM DuplicatesAreExplainedHolds == Spec => []DuplicatesAreExplained
  <1>1. ASSUME IInv, NEW e \in Events
        PROVE  sent[e] <= 1 + rows[e].attempts + expiries[e]
    <2>1. Cardinality(Senders(e)) \in Nat
      BY SendersFinite
    <2>2. Available(e) \in {0, 1}
      BY DEF Available
    <2>3. sent[e] \in Nat /\ expiries[e] \in Nat /\ rows[e].attempts \in Nat
      BY <1>1, RelayAssumption DEF IInv, TypeOK, Row
    <2> QED BY <1>1, <2>1, <2>2, <2>3 DEF IInv, SendingsOK
  <1>2. IInv => DuplicatesAreExplained
    BY <1>1 DEF DuplicatesAreExplained
  <1> QED BY <1>2, InductiveInvariant, PTL

(* A row without a lease is settled by nobody. *)
LEMMA OutcomeKeepsSettled ==
  ASSUME IInv, NEW r \in Relays, relays[r].current # None,
         \/ UNCHANGED rows
         \/ CommitPublished(r, Current(r))
         \/ CommitFailed(r, relays[r].current),
         NEW e \in Events, rows[e].lockedBy = None
  PROVE  rows'[e] = rows[e]
  <1>1. PICK c \in Claimed : c = relays[r].current /\ Current(r) = c.event
    BY RelayType DEF IInv, Current
  <1>2. r # None
    BY RelayAssumption
  <1>3. CASE Owns(r, c.event)
    <2>1. e # c.event
      BY <1>2, <1>3 DEF Owns
    <2> QED BY <1>1, <1>3, <2>1 DEF CommitPublished, CommitFailed, FailRow, Release, IInv, TypeOK
  <1>4. CASE ~Owns(r, c.event)
    BY <1>1, <1>4 DEF CommitPublished, CommitFailed
  <1> QED BY <1>3, <1>4

(* No step of any relay, however late, reopens an event that is published or
   given up, or turns the one into the other. *)
THEOREM SettledIsFinalHolds == Spec => SettledIsFinal
  <1>1. ASSUME IInv, Next, NEW e \in Events, rows[e].status \in Settled
        PROVE  rows'[e].status = rows[e].status
    <2>1. /\ TypeOK /\ rows[e].lockedBy = None
          /\ rows[e].status # "none" /\ rows[e].status \notin OpenStatuses
      BY <1>1 DEF IInv, RowOK, Settled, OpenStatuses
    <2>2. ASSUME NEW f \in Events, Append(f) PROVE rows'[e].status = rows[e].status
      BY <2>1, <2>2 DEF Append, TypeOK
    <2>3. ASSUME NEW f \in Events, Expire(f) PROVE rows'[e].status = rows[e].status
      BY <2>1, <2>3 DEF Expire, TypeOK
    <2>4. ASSUME NEW f \in Events, BackoffEnds(f) PROVE rows'[e].status = rows[e].status
      BY <2>1, <2>4 DEF BackoffEnds, TypeOK, Row
    <2>5. ASSUME NEW r \in Relays, LeaseTo(r) PROVE rows'[e].status = rows[e].status
      <3>1. e \in Batch => rows[e].status \in OpenStatuses
        BY <1>1, <2>5, LeaseRows
      <3> QED BY <1>1, <2>1, <2>5, <3>1, LeaseRows
    <2>6. ASSUME NEW r \in Relays, MarkPublished(r) \/ MarkPublishedFails(r)
          PROVE  rows'[e].status = rows[e].status
      <3>1. relays[r].current # None /\ (UNCHANGED rows \/ CommitPublished(r, Current(r)))
        BY <1>1, <2>6 DEF MarkPublished, MarkPublishedFails, IInv, RelayOK
      <3> QED BY <1>1, <2>1, <3>1, OutcomeKeepsSettled
    <2>7. ASSUME NEW r \in Relays, MarkFailed(r) \/ MarkFailedFails(r)
          PROVE  rows'[e].status = rows[e].status
      <3>1. relays[r].current # None /\ (UNCHANGED rows \/ CommitFailed(r, relays[r].current))
        BY <1>1, <2>7 DEF MarkFailed, MarkFailedFails, IInv, RelayOK
      <3> QED BY <1>1, <2>1, <3>1, OutcomeKeepsSettled
    <2>8. ASSUME UNCHANGED rows PROVE rows'[e].status = rows[e].status
      BY <2>8
    <2> QED BY <1>1, <2>2, <2>3, <2>4, <2>5, <2>6, <2>7, <2>8
            DEF Next, Work, Fails, ExpireAbandoned, ExpireUnderway, ClaimBatch,
                ClaimBatchUnanswered, Publish, PublishFails, Enqueue, EnqueueFails, Mirror, Crash
  <1>2. IInv /\ [Next]_vars =>
          [\A e \in Events :
             rows[e].status \in Settled => rows'[e].status = rows[e].status]_vars
    BY <1>1
  <1> QED BY <1>2, InductiveInvariant, PTL DEF Spec, SettledIsFinal
=============================================================================
