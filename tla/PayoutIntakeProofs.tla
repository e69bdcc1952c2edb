------------------------- MODULE PayoutIntakeProofs -------------------------
(***************************************************************************)
(* Proofs about PayoutIntake and the part of TenantOperations that it      *)
(* extends, for any number of calls, tenants, keys, bodies and risk rules. *)
(* IInv is inductive: a call knows what it has read (AdminCallOK,          *)
(* PayoutCallOK), the table of idempotency keys and the table of payouts   *)
(* name each other (EntryOK, PayoutOK), and every replacement of a key     *)
(* beyond the first is the work of a rotation that came late (ReplacedOK). *)
(***************************************************************************)
EXTENDS PayoutIntake, FiniteSetTheorems, WellFoundedInduction, TLAPS

(* The inductive invariant *)

\* The change that updateMembership is asked for ends the ownership that it saw.
Removes(c) ==
  /\ calls[c].seen = [role |-> "merchant_owner", status |-> "active"]
  /\ calls[c].wanted.role = "developer" \/ calls[c].wanted.status \notin {None, "active"}

\* What a call of TenantOperations is about exists, and an update that ends an
\* ownership has counted others.
AdminCallOK(c) ==
  /\ AtStep(c, "membership.created", "insert") =>
       calls[c].on \in Members /\ calls[c].wanted \in Member
  /\ AtStep(c, "membership.updated", "count") => calls[c].on \in Members
  /\ AtStep(c, "membership.updated", "update") =>
       /\ calls[c].on \in Members
       /\ Removes(c) => calls[c].others # {} /\ calls[c].on \notin calls[c].others
  /\ calls[c].action \in {"api_key.rotated", "api_key.revoked"}
       /\ calls[c].step \in {"rotate", "done", "update"} =>
       calls[c].on \in Keys /\ Exists(calls[c].on)

KeyOK(k) == ~Exists(k) => keys[k].replaces = None /\ ~keys[k].revoked

Replacements(k) == {n \in Keys : keys[n].replaces = k}

LateRotations(k) ==
  {c \in Calls : AtStep(c, "api_key.rotated", "done") /\ calls[c].on = k /\ calls[c].late}

ReplacedOK(k) ==
  /\ IsFiniteSet(Replacements(k)) /\ IsFiniteSet(LateRotations(k))
  /\ Replacements(k) # {} => keys[k].revoked
  /\ Cardinality(Replacements(k)) <= Cardinality(LateRotations(k)) + 1

\* What a payout request has found out so far.
PayoutCallOK(c) ==
  calls[c].action = "payout" =>
    LET entry == idempotency[Scope(c)]
    IN /\ Exists(calls[c].key)
       /\ calls[c].step = "authenticate" /\ calls[c].ended => ~Unended(calls[c].key)
       /\ calls[c].step # "authenticate" =>
            ~calls[c].ended /\ calls[c].tenant = TenantOf[keys[calls[c].key].client]
       /\ calls[c].step # "duplicate"
       /\ calls[c].step = "insert" =>
            entry = None /\ \A d \in Calls : AtStep(d, "payout", "insert") /\ Scope(d) = Scope(c) => d = c
       /\ calls[c].step = "answered" =>
            entry # None /\ entry.hash = calls[c].body /\ entry.response = calls[c].answer
       /\ calls[c].step = "conflict" => entry # None /\ entry.hash # calls[c].body

\* A payout is the one its idempotency key names, and its request is over.
PayoutOK(c) ==
  payouts[c] # None =>
    LET payout == payouts[c]
        entry == idempotency[<<payout.tenant, payout.idempotencyKey>>]
        rules == MatchingRules(payout.tenant, payout.body)
    IN /\ AtStep(c, "payout", "answered") \/ AtStep(c, "payout", "lost")
       /\ ~calls[c].ended
       /\ entry # None /\ entry.response.payout = c
       /\ payout.rule \in rules \cup {None}
       /\ payout.rule = None => rules = {} /\ payout.status # "needs_approval"

EntryOK(t, i) ==
  idempotency[<<t, i>>] # None =>
    LET entry == idempotency[<<t, i>>]
        payout == payouts[entry.response.payout]
    IN /\ payout # None
       /\ payout.tenant = t /\ payout.idempotencyKey = i /\ payout.body = entry.hash
       /\ entry.response.status = IF payout.rule = None THEN "queued" ELSE "needs_approval"

AdminPart ==
  /\ \A c \in Calls : AdminCallOK(c)
  /\ \A k \in Keys : KeyOK(k) /\ ReplacedOK(k)

PayoutPart ==
  /\ \A c \in Calls : PayoutCallOK(c) /\ PayoutOK(c)
  /\ \A t \in Tenants, i \in IdempotencyKeys : EntryOK(t, i)

IInv == TypeOK /\ AdminPart /\ PayoutPart

-----------------------------------------------------------------------------
(* Risk rules *)

\* A non-empty set of rules has a first one.
LEMMA FirstIndex ==
  ASSUME NEW S, S \subseteq Nat, S # {}
  PROVE  \E i \in S : \A j \in S : i = j \/ i < j
  <1>1. PICK i \in S : \A j \in S : ~(<<j, i>> \in OpToRel(<, Nat))
    BY WFMin, NatLessThanWellFounded
  <1>2. ASSUME NEW j \in S PROVE i = j \/ i < j
    <2>1. <<j, i>> \in Nat \X Nat /\ ~(j < i)
      BY <1>1 DEF OpToRel
    <2> QED BY <2>1
  <1> QED BY <1>2

\* The rules that ask for a payout of tenant t to be held.
Asking(t, body) == {i \in Rules : RiskRules[i].tenant \in {t, None} /\ Matches(i, body)}

\* The query finds a rule that asks, if there is one, and one of the tenant's
\* own if one of these asks.
LEMMA MatchingRulesAsk ==
  ASSUME NEW t \in Tenants, NEW body
  PROVE  /\ MatchingRules(t, body) \subseteq Asking(t, body)
         /\ MatchingRules(t, body) = {} => Asking(t, body) = {}
         /\ \A i \in MatchingRules(t, body), j \in Asking(t, body) :
              RiskRules[j].tenant # None => RiskRules[i].tenant # None
  <1> DEFINE M == Asking(t, body)  O == {i \in M : RiskRules[i].tenant = t}
  <1>1. MatchingRules(t, body) = {i \in M : \A j \in M : i = j \/ Before(i, j, t)}
    BY DEF MatchingRules, Asking
  <1>2. M \subseteq Nat /\ O \subseteq M /\ t # None
    BY IntakeAssumption DEF Asking, Rules
  <1>3. \A i \in M : RiskRules[i].tenant # None => RiskRules[i].tenant = t
    BY DEF Asking
  <1> HIDE DEF M
  <1>4. ASSUME M # {} PROVE \E i \in M : \A j \in M : i = j \/ Before(i, j, t)
    <2>1. CASE O # {}
      <3>1. O \subseteq Nat
        BY <1>2
      <3>2. PICK i \in O : \A j \in O : i = j \/ i < j
        BY <2>1, <3>1, FirstIndex
      <3>3. \A j \in M : i = j \/ Before(i, j, t)
        BY <3>2 DEF Before
      <3> QED BY <1>2, <3>3
    <2>2. CASE O = {}
      <3>1. PICK i \in M : \A j \in M : i = j \/ i < j
        BY <1>2, <1>4, FirstIndex
      <3>2. \A j \in M : RiskRules[j].tenant # t
        BY <2>2
      <3>3. \A j \in M : i = j \/ Before(i, j, t)
        BY <3>1, <3>2 DEF Before
      <3> QED BY <3>3
    <2> QED BY <2>1, <2>2
  <1>5. ASSUME NEW i \in MatchingRules(t, body), NEW j \in M, RiskRules[j].tenant # None
        PROVE  RiskRules[i].tenant # None
    <2>1. i \in M /\ (i = j \/ Before(i, j, t)) /\ RiskRules[j].tenant = t
      BY <1>1, <1>3, <1>5
    <2>2. CASE i = j
      BY <1>5, <2>2
    <2>3. CASE Before(i, j, t)
      BY <1>2, <2>1, <2>3 DEF Before
    <2> QED BY <2>1, <2>2, <2>3
  <1>6. MatchingRules(t, body) \subseteq M /\ (MatchingRules(t, body) = {} => M = {})
    BY <1>1, <1>4
  <1> QED BY <1>5, <1>6 DEF M

-----------------------------------------------------------------------------
(* Calls *)

AllCalls == Idle \cup {Over} \cup AdminCall \cup PayoutCall

\* What a call is doing tells what kind of call it is.
LEMMA CallKinds ==
  ASSUME TypeOK, NEW c \in Calls
  PROVE  /\ calls[c].action \in Actions => calls[c] \in AdminCall
         /\ calls[c].action = "payout" => calls[c] \in PayoutCall
         /\ calls[c].step = "idle" => calls[c] \in Idle
         /\ calls[c].step = "audit" => calls[c] \in AdminCall
         /\ calls[c] \in Idle \cup {Over} => calls[c].action = "none"
         /\ calls[c] \in AdminCall => calls[c].action \in Actions
         /\ calls[c].action = "payout" => calls[c].step \in PayoutSteps
         /\ calls[c].step \in {"insert", "count", "update", "rotate"} =>
              calls[c] \in AdminCall \cup PayoutCall
  <1>1. calls[c] \in Idle \cup {Over} \cup AdminCall \cup PayoutCall
    BY DEF TypeOK
  <1>2. calls[c] \in Idle => calls[c].action = "none" /\ calls[c].step = "idle"
    BY DEF Idle
  <1>3. calls[c] = Over => calls[c].action = "none" /\ calls[c].step = "over"
    BY DEF Over
  <1>4. calls[c] \in AdminCall => calls[c].action \in Actions /\ calls[c].step \in AdminSteps
    BY DEF AdminCall
  <1>5. calls[c] \in PayoutCall => calls[c].action = "payout" /\ calls[c].step \in PayoutSteps
    BY DEF PayoutCall
  <1>6. /\ "none" \notin Actions /\ "payout" \notin Actions
        /\ "idle" \notin AdminSteps \cup PayoutSteps /\ "audit" \notin PayoutSteps
        /\ "insert" \notin {"idle", "over"} /\ "count" \notin {"idle", "over"}
    BY DEF Actions, AdminSteps, PayoutSteps
  <1> QED BY <1>1, <1>2, <1>3, <1>4, <1>5, <1>6

\* A call moves: the others stay.
LEMMA CallMoves ==
  ASSUME TypeOK, NEW c \in Calls, NEW call \in AllCalls, calls' = [calls EXCEPT ![c] = call]
  PROVE  /\ calls' \in [Calls -> AllCalls] /\ calls'[c] = call
         /\ \A d \in Calls \ {c} : calls'[d] = calls[d]
  BY DEF TypeOK, AllCalls

LEMMA AdminTyped ==
  ASSUME NEW action \in Actions, NEW on \in Things, NEW step \in AdminSteps
  PROVE  Admin(action, on, step) \in AdminCall
  BY DEF Admin, AdminCall, Wanted, AbsentMember, Member, Roles, MemberStatuses, Expiries

-----------------------------------------------------------------------------
(* What a step leaves alone *)

\* A step in which requests stay where they are: keys only come and end, and
\* time only passes.
LEMMA PayoutPartKept ==
  ASSUME IInv, TypeOK', UNCHANGED <<payouts, idempotency>>, now' >= now,
         \A k \in Keys : Exists(k) =>
           /\ keys'[k].client = keys[k].client /\ keys'[k].expiresAt = keys[k].expiresAt
           /\ keys[k].revoked => keys'[k].revoked,
         \A d \in Calls :
           calls'[d] = calls[d] \/ (calls[d].action # "payout" /\ calls'[d].action # "payout")
  PROVE  PayoutPart'
  <1>1. now \in Nat /\ now' \in Nat /\ None \notin Nat /\ EndOfTime \in Nat
    BY TenantAssumption DEF IInv, TypeOK, AdminTypeOK
  <1>2. ASSUME NEW c \in Calls PROVE PayoutCallOK(c)'
    <2> SUFFICES ASSUME calls'[c].action = "payout" PROVE PayoutCallOK(c)'
      BY DEF PayoutCallOK
    <2>1. calls'[c] = calls[c] /\ calls[c] \in PayoutCall
      BY CallKinds DEF IInv
    <2>2. PICK k \in Keys : k = calls[c].key
      BY <2>1 DEF PayoutCall
    <2>3. PayoutCallOK(c) /\ Exists(k)
      BY <2>1, <2>2 DEF IInv, PayoutPart, PayoutCallOK
    <2>4. Exists(k)' /\ keys'[k].client = keys[k].client
      BY <2>3 DEF Exists
    <2>5. ~Unended(k) => ~Unended(k)'
      <3>1. keys[k].expiresAt \in Expiries
        BY DEF IInv, TypeOK, AdminTypeOK, Key
      <3>2. keys[k].expiresAt = None \/ keys[k].expiresAt \in Nat
        BY <3>1, <1>1 DEF Expiries
      <3> QED BY <2>3, <3>2, <1>1 DEF Unended
    <2>6. ASSUME NEW d \in Calls, AtStep(d, "payout", "insert")'
          PROVE  AtStep(d, "payout", "insert") /\ Scope(d)' = Scope(d)
      <3>1. calls'[d] = calls[d]
        BY <2>6 DEF AtStep
      <3> QED BY <2>6, <3>1 DEF AtStep, Scope
    <2>7. Scope(c)' = Scope(c) /\ idempotency'[Scope(c)'] = idempotency[Scope(c)]
      BY <2>1 DEF Scope
    <2> QED BY <2>1, <2>2, <2>3, <2>4, <2>5, <2>6, <2>7 DEF PayoutCallOK
  <1>3. ASSUME NEW c \in Calls PROVE PayoutOK(c)'
    <2> SUFFICES ASSUME payouts[c] # None PROVE PayoutOK(c)'
      BY DEF PayoutOK
    <2>1. PayoutOK(c) /\ calls[c].action = "payout"
      BY DEF IInv, PayoutPart, PayoutOK, AtStep
    <2>2. calls'[c] = calls[c]
      BY <2>1
    <2> QED BY <2>1, <2>2 DEF PayoutOK, AtStep
  <1>4. \A t \in Tenants, i \in IdempotencyKeys : EntryOK(t, i)'
    BY DEF IInv, PayoutPart, EntryOK
  <1> QED BY <1>2, <1>3, <1>4 DEF PayoutPart

\* What the calls of administrators know stays true while keys stay there.
LEMMA AdminCallsKept ==
  ASSUME IInv, TypeOK', \A k \in Keys : Exists(k) => Exists(k)',
         \A d \in Calls : calls'[d] = calls[d] \/ AdminCallOK(d)'
  PROVE  \A d \in Calls : AdminCallOK(d)'
  <1> SUFFICES ASSUME NEW d \in Calls, calls'[d] = calls[d] PROVE AdminCallOK(d)'
    OBVIOUS
  <1>1. AdminCallOK(d)
    BY DEF IInv, AdminPart
  <1>2. ASSUME NEW k \in Keys, k = calls[d].on, Exists(k) PROVE Exists(k)' /\ k = calls'[d].on
    BY <1>2
  <1> QED BY <1>1, <1>2 DEF AdminCallOK, AtStep, Removes

\* A step that changes no key and ends no rotation.
LEMMA AdminPartKept ==
  ASSUME IInv, TypeOK', UNCHANGED keys,
         \A d \in Calls :
           \/ calls'[d] = calls[d]
           \/ /\ AdminCallOK(d)'
              /\ ~AtStep(d, "api_key.rotated", "done") /\ ~AtStep(d, "api_key.rotated", "done")'
  PROVE  AdminPart'
  <1>1. \A d \in Calls : AdminCallOK(d)'
    <2>1. \A k \in Keys : Exists(k) => Exists(k)'
      BY DEF Exists
    <2> QED BY <2>1, AdminCallsKept
  <1>2. ASSUME NEW k \in Keys PROVE KeyOK(k)' /\ ReplacedOK(k)'
    <2>1. KeyOK(k) /\ ReplacedOK(k)
      BY DEF IInv, AdminPart
    <2>2. Replacements(k)' = Replacements(k)
      BY DEF Replacements
    <2>3. LateRotations(k)' = LateRotations(k)
      BY DEF LateRotations, AtStep
    <2> QED BY <2>1, <2>2, <2>3 DEF KeyOK, Exists, ReplacedOK
  <1> QED BY <1>1, <1>2 DEF AdminPart

\* A call of TenantOperations that changes no key makes one step.
LEMMA AdminCallSteps ==
  ASSUME IInv, AdminTypeOK', UNCHANGED <<now, keys, payouts, idempotency>>,
         NEW c \in Calls, NEW call \in Idle \cup {Over} \cup AdminCall,
         calls' = [calls EXCEPT ![c] = call],
         calls[c].action # "payout", ~AtStep(c, "api_key.rotated", "done"),
         AdminCallOK(c)', ~(call.action = "api_key.rotated" /\ call.step = "done")
  PROVE  IInv'
  <1>1. call \in AllCalls
    BY DEF AllCalls
  <1>2. /\ calls' \in [Calls -> AllCalls] /\ calls'[c] = call
        /\ \A d \in Calls \ {c} : calls'[d] = calls[d]
    BY <1>1, CallMoves DEF IInv
  <1>3. TypeOK'
    BY <1>2 DEF IInv, TypeOK, AllCalls
  <1>4. call.action # "payout"
    BY DEF Idle, Over, AdminCall, Actions
  <1>5. \A d \in Calls : calls'[d] = calls[d] \/ (calls[d].action # "payout" /\ calls'[d].action # "payout")
    BY <1>2, <1>4
  <1>6. now \in Nat /\ now' >= now
    BY TenantAssumption DEF IInv, TypeOK, AdminTypeOK
  <1>7. PayoutPart'
    <2>1. \A k \in Keys : Exists(k) =>
           /\ keys'[k].client = keys[k].client /\ keys'[k].expiresAt = keys[k].expiresAt
           /\ keys[k].revoked => keys'[k].revoked
      OBVIOUS
    <2> QED BY <1>3, <1>5, <1>6, <2>1, PayoutPartKept
  <1>8. \A d \in Calls :
           \/ calls'[d] = calls[d]
           \/ /\ AdminCallOK(d)'
              /\ ~AtStep(d, "api_key.rotated", "done") /\ ~AtStep(d, "api_key.rotated", "done")'
    BY <1>2 DEF AtStep
  <1> QED BY <1>3, <1>7, <1>8, AdminPartKept DEF IInv

-----------------------------------------------------------------------------
(* The initial state *)

LEMMA InitIInv == Init => IInv
  <1> SUFFICES ASSUME Init PROVE IInv
    OBVIOUS
  <1>1. PICK s \in Scenarios :
          /\ keys = [k \in Keys |-> [NoKey EXCEPT !.client = s.issued[k]]]
          /\ calls = [c \in Calls |-> [action |-> "none", step |-> "idle", may |-> s.may[c]]]
    BY DEF Init, AdminInit
  <1>2. s.issued \in [Keys -> Clients \cup {None}] /\ s.may \in [Calls -> SUBSET Families]
    BY TenantAssumption
  <1>3. keys \in [Keys -> Key] /\ \A k \in Keys : keys[k].replaces = None /\ ~keys[k].revoked
    BY <1>1, <1>2 DEF Key, NoKey, Expiries
  <1>4. calls \in [Calls -> Idle] /\ \A c \in Calls : calls[c].action = "none" /\ calls[c].step = "idle"
    BY <1>1, <1>2 DEF Idle
  <1>5. AdminTypeOK
    BY <1>3, TenantAssumption
    DEF Init, AdminInit, AdminTypeOK, TenantStatuses, Member, Roles, MemberStatuses,
        AbsentMember, ClientStatuses
  <1>6. TypeOK
    BY <1>4, <1>5 DEF Init, TypeOK
  <1>7. ASSUME NEW k \in Keys PROVE KeyOK(k) /\ ReplacedOK(k)
    <2>1. Replacements(k) = {} /\ LateRotations(k) = {}
      BY <1>3, <1>4, TenantAssumption DEF Replacements, LateRotations, AtStep
    <2>2. IsFiniteSet({}) /\ Cardinality({}) = 0
      BY FS_EmptySet
    <2> QED BY <1>3, <2>1, <2>2 DEF KeyOK, ReplacedOK
  <1>8. ASSUME NEW c \in Calls PROVE AdminCallOK(c) /\ PayoutCallOK(c) /\ PayoutOK(c)
    BY <1>4 DEF AdminCallOK, AtStep, PayoutCallOK, PayoutOK, Init
  <1>9. ASSUME NEW t \in Tenants, NEW i \in IdempotencyKeys PROVE EntryOK(t, i)
    BY DEF Init, EntryOK
  <1> QED BY <1>6, <1>7, <1>8, <1>9 DEF IInv, AdminPart, PayoutPart

-----------------------------------------------------------------------------
(* The calls of administrators that change no key *)

\* A call that has nothing left to do but its audit entry knows nothing.
LEMMA NothingKnown ==
  ASSUME NEW c \in Calls,
         calls'[c].step \notin {"insert", "count", "update", "rotate", "done"}
  PROVE  AdminCallOK(c)'
  BY DEF AdminCallOK, AtStep

\* A call begins.
LEMMA Begins ==
  ASSUME IInv, AdminTypeOK', UNCHANGED <<now, keys, payouts, idempotency>>,
         NEW c \in Calls, NEW family, NEW call \in {Over} \cup AdminCall,
         Start(c, family, call), call.step # "done", AdminCallOK(c)'
  PROVE  IInv'
  <1>1. calls[c].step = "idle" /\ calls[c].action = "none" /\ calls' = [calls EXCEPT ![c] = call]
    BY CallKinds DEF IInv, Start
  <1>2. calls[c].action # "payout" /\ ~AtStep(c, "api_key.rotated", "done")
    BY <1>1 DEF AtStep
  <1> QED BY <1>1, <1>2, AdminCallSteps

\* A call is over, or all but its audit entry is.
LEMMA Ends ==
  ASSUME IInv, AdminTypeOK', UNCHANGED <<now, keys, payouts, idempotency>>,
         NEW c \in Calls, calls[c] \in AdminCall, calls[c].step # "done",
         End(c) \/ ToAudit(c)
  PROVE  IInv'
  <1>1. /\ calls[c].action \in Actions /\ calls[c].on \in Things
        /\ calls[c].action # "payout" /\ ~AtStep(c, "api_key.rotated", "done")
    BY DEF AdminCall, AtStep, Actions
  <1>2. CASE End(c)
    <2>1. calls' = [calls EXCEPT ![c] = Over] /\ Over.step = "over"
      BY <1>2 DEF End, Over
    <2>2. calls'[c].step = "over"
      BY <2>1, CallMoves DEF IInv, AllCalls
    <2>3. AdminCallOK(c)'
      BY <2>2, NothingKnown
    <2> QED BY <1>1, <2>1, <2>3, AdminCallSteps
  <1>3. CASE ToAudit(c)
    <2> DEFINE call == Admin(calls[c].action, calls[c].on, "audit")
    <2>1. calls' = [calls EXCEPT ![c] = call] /\ call.step = "audit"
      BY <1>3 DEF ToAudit, Admin
    <2>2. call \in AdminCall
      BY <1>1, AdminTyped DEF AdminSteps
    <2> HIDE DEF call
    <2>3. calls'[c].step = "audit"
      BY <2>1, <2>2, CallMoves DEF IInv, AllCalls
    <2>4. AdminCallOK(c)'
      BY <2>3, NothingKnown
    <2> QED BY <1>1, <2>1, <2>2, <2>4, AdminCallSteps
  <1> QED BY <1>2, <1>3

LEMMA CreateTenantKeeps ==
  ASSUME IInv, NEW c \in Calls, NEW t \in Tenants, NEW m \in Members,
         CreateTenant(c, t, m), UNCHANGED <<payouts, idempotency>>
  PROVE  IInv'
  <1>1. Start(c, "tenant", Over) /\ Over.step = "over"
    BY DEF CreateTenant, Over
  <1>2. AdminTypeOK'
    <2>1. tenants' \in [Tenants -> TenantStatuses] /\ members' \in [Members -> Member]
      BY DEF CreateTenant, IInv, TypeOK, AdminTypeOK, TenantStatuses, Member, Roles, MemberStatuses
    <2>2. audit' \subseteq Actions \X Things
      BY DEF CreateTenant, IInv, TypeOK, AdminTypeOK, Actions, Things
    <2> QED BY <2>1, <2>2 DEF CreateTenant, IInv, TypeOK, AdminTypeOK
  <1>3. calls'[c] = Over
    BY <1>1, CallMoves DEF Start, IInv, AllCalls
  <1>4. AdminCallOK(c)'
    BY <1>1, <1>3, NothingKnown
  <1> QED BY <1>1, <1>2, <1>4, Begins DEF CreateTenant

\* A call that writes a row begins, and its audit entry is left.
LEMMA BeginsAtAudit ==
  ASSUME IInv, AdminTypeOK', UNCHANGED <<now, keys, payouts, idempotency>>,
         NEW c \in Calls, NEW family, NEW action \in Actions, NEW on \in Things,
         Start(c, family, Admin(action, on, "audit"))
  PROVE  IInv'
  <1>1. Admin(action, on, "audit") \in AdminCall /\ Admin(action, on, "audit").step = "audit"
    BY AdminTyped DEF AdminSteps, Admin
  <1>2. calls'[c] = Admin(action, on, "audit")
    BY <1>1, CallMoves DEF Start, IInv, AllCalls
  <1>3. AdminCallOK(c)'
    BY <1>1, <1>2, NothingKnown
  <1> QED BY <1>1, <1>3, Begins

LEMMA UpdateTenantKeeps ==
  ASSUME IInv, NEW c \in Calls, NEW t \in Tenants, NEW status \in TenantStatuses \ {"absent"},
         UpdateTenant(c, t, status), UNCHANGED <<payouts, idempotency>>
  PROVE  IInv'
  <1>1. AdminTypeOK'
    BY DEF UpdateTenant, IInv, TypeOK, AdminTypeOK
  <1>2. "tenant.updated" \in Actions /\ t \in Things
    BY DEF Actions, Things
  <1> QED BY <1>1, <1>2, BeginsAtAudit DEF UpdateTenant

LEMMA CreateApiClientKeeps ==
  ASSUME IInv, NEW c \in Calls, NEW client \in Clients,
         CreateApiClient(c, client), UNCHANGED <<payouts, idempotency>>
  PROVE  IInv'
  <1>1. AdminTypeOK'
    BY DEF CreateApiClient, IInv, TypeOK, AdminTypeOK, ClientStatuses
  <1>2. "api_client.created" \in Actions /\ client \in Things
    BY DEF Actions, Things
  <1> QED BY <1>1, <1>2, BeginsAtAudit DEF CreateApiClient

LEMMA UpdateApiClientKeeps ==
  ASSUME IInv, NEW c \in Calls, NEW client \in Clients,
         NEW status \in ClientStatuses \ {"absent"},
         UpdateApiClient(c, client, status), UNCHANGED <<payouts, idempotency>>
  PROVE  IInv'
  <1>1. AdminTypeOK'
    BY DEF UpdateApiClient, IInv, TypeOK, AdminTypeOK
  <1>2. "api_client.updated" \in Actions /\ client \in Things
    BY DEF Actions, Things
  <1> QED BY <1>1, <1>2, BeginsAtAudit DEF UpdateApiClient

LEMMA WriteAuditKeeps ==
  ASSUME IInv, NEW c \in Calls, WriteAudit(c), UNCHANGED <<payouts, idempotency>>
  PROVE  IInv'
  <1>1. calls[c].step = "audit" /\ calls[c] \in AdminCall /\ End(c)
    BY CallKinds DEF IInv, WriteAudit
  <1>2. audit' \subseteq Actions \X Things
    BY <1>1 DEF WriteAudit, IInv, TypeOK, AdminTypeOK, AdminCall
  <1>3. AdminTypeOK'
    BY <1>2 DEF WriteAudit, IInv, TypeOK, AdminTypeOK
  <1> QED BY <1>1, <1>3, Ends DEF WriteAudit

LEMMA CallFailsKeeps ==
  ASSUME IInv, NEW c \in Calls, CallFails(c), UNCHANGED <<payouts, idempotency>>
  PROVE  IInv'
  <1>1. /\ calls[c] \in AdminCall /\ calls[c].step # "done"
        /\ calls[c].action # "payout" /\ ~AtStep(c, "api_key.rotated", "done")
    BY CallKinds DEF IInv, CallFails, Actions, AtStep
  <1>2. AdminTypeOK' /\ UNCHANGED <<now, keys, payouts, idempotency>>
    BY DEF CallFails, adminVars, IInv, TypeOK, AdminTypeOK
  <1>3. CASE calls' = [calls EXCEPT ![c].step = "unaudited"]
    <2> DEFINE call == [calls[c] EXCEPT !.step = "unaudited"]
    <2>1. calls' = [calls EXCEPT ![c] = call] /\ call.step = "unaudited" /\ call \in AdminCall
      BY <1>1, <1>3 DEF AdminCall, AdminSteps
    <2> HIDE DEF call
    <2>2. calls'[c] = call
      BY <2>1, CallMoves DEF IInv, AllCalls
    <2>3. AdminCallOK(c)'
      BY <2>1, <2>2, NothingKnown
    <2> QED BY <1>1, <1>2, <2>1, <2>3, AdminCallSteps
  <1>4. CASE End(c)
    BY <1>1, <1>2, <1>4, Ends
  <1> QED BY <1>3, <1>4 DEF CallFails

LEMMA FindMembershipByEmailKeeps ==
  ASSUME IInv, NEW c \in Calls, NEW m \in Members, NEW wanted \in Edits,
         FindMembershipByEmail(c, m, wanted), UNCHANGED <<payouts, idempotency>>
  PROVE  IInv'
  <1> DEFINE call == [Admin("membership.created", m, "insert") EXCEPT !.wanted = wanted]
  <1>1. wanted \in Wanted /\ None \notin {wanted.role, wanted.status}
    BY TenantAssumption DEF FindMembershipByEmail
  <1>2. wanted \in Member
    BY <1>1 DEF Wanted, Member
  <1>3. Admin("membership.created", m, "insert") \in AdminCall
    BY AdminTyped DEF Actions, Things, AdminSteps
  <1>4. call \in AdminCall
    BY <1>1, <1>3 DEF AdminCall
  <1>5. call.action = "membership.created" /\ call.step = "insert" /\ call.on = m /\ call.wanted = wanted
    BY DEF Admin
  <1>6. Start(c, "membership", call) /\ UNCHANGED adminVars
    BY DEF FindMembershipByEmail
  <1> HIDE DEF call
  <1>7. calls'[c] = call
    BY <1>4, <1>6, CallMoves DEF Start, IInv, AllCalls
  <1>8. AdminCallOK(c)'
    BY <1>2, <1>5, <1>7 DEF AdminCallOK, AtStep
  <1>9. AdminTypeOK' /\ UNCHANGED <<now, keys, payouts, idempotency>>
    BY <1>6 DEF adminVars, IInv, TypeOK, AdminTypeOK
  <1> QED BY <1>4, <1>5, <1>6, <1>8, <1>9, Begins

LEMMA InsertMembershipKeeps ==
  ASSUME IInv, NEW c \in Calls, InsertMembership(c), UNCHANGED <<payouts, idempotency>>
  PROVE  IInv'
  <1>1. AtStep(c, "membership.created", "insert")
    BY DEF InsertMembership
  <1>2. calls[c] \in AdminCall /\ calls[c].step # "done"
    BY <1>1, CallKinds DEF IInv, AtStep, Actions
  <1>3. calls[c].on \in Members /\ calls[c].wanted \in Member
    BY <1>1 DEF IInv, AdminPart, AdminCallOK
  <1>4. members' \in [Members -> Member]
    BY <1>3 DEF InsertMembership, IInv, TypeOK, AdminTypeOK
  <1>5. AdminTypeOK'
    BY <1>4 DEF InsertMembership, IInv, TypeOK, AdminTypeOK
  <1>6. End(c) \/ ToAudit(c)
    BY DEF InsertMembership
  <1> QED BY <1>2, <1>5, <1>6, Ends DEF InsertMembership

LEMMA FindMembershipKeeps ==
  ASSUME IInv, NEW c \in Calls, NEW m \in Members, NEW wanted \in Edits,
         FindMembership(c, m, wanted), UNCHANGED <<payouts, idempotency>>
  PROVE  IInv'
  <1>1. PICK step \in {"count", "update"} :
          /\ Start(c, "membership", [Admin("membership.updated", m, step)
                                     EXCEPT !.wanted = wanted, !.seen = members[m]])
          /\ step = "update" => ~(/\ ActiveOwner(m)
                                  /\ wanted.role = "developer" \/ wanted.status \notin {None, "active"})
    BY DEF FindMembership
  <1> DEFINE call == [Admin("membership.updated", m, step) EXCEPT !.wanted = wanted, !.seen = members[m]]
  <1>2. wanted \in Wanted /\ members[m] \in Member
    BY TenantAssumption DEF IInv, TypeOK, AdminTypeOK
  <1>3. Admin("membership.updated", m, step) \in AdminCall
    BY AdminTyped DEF Actions, Things, AdminSteps
  <1>4. call \in AdminCall
    BY <1>2, <1>3 DEF AdminCall
  <1>5. /\ call.action = "membership.updated" /\ call.step = step /\ call.on = m
        /\ call.wanted = wanted /\ call.seen = members[m]
    BY DEF Admin
  <1>6. Start(c, "membership", call) /\ UNCHANGED adminVars
    BY <1>1 DEF FindMembership
  <1> HIDE DEF call
  <1>7. calls'[c] = call
    BY <1>4, <1>6, CallMoves DEF Start, IInv, AllCalls
  <1>8. AdminCallOK(c)'
    BY <1>1, <1>5, <1>7 DEF AdminCallOK, AtStep, Removes, ActiveOwner
  <1>9. AdminTypeOK' /\ UNCHANGED <<now, keys, payouts, idempotency>>
    BY <1>6 DEF adminVars, IInv, TypeOK, AdminTypeOK
  <1> QED BY <1>4, <1>5, <1>6, <1>8, <1>9, Begins

LEMMA CountOtherActiveOwnersKeeps ==
  ASSUME IInv, NEW c \in Calls, CountOtherActiveOwners(c), UNCHANGED <<payouts, idempotency>>
  PROVE  IInv'
  <1>1. AtStep(c, "membership.updated", "count")
    BY DEF CountOtherActiveOwners
  <1>2. /\ calls[c] \in AdminCall /\ calls[c].step # "done"
        /\ calls[c].action # "payout" /\ ~AtStep(c, "api_key.rotated", "done")
    BY <1>1, CallKinds DEF IInv, AtStep, Actions
  <1>3. AdminTypeOK' /\ UNCHANGED <<now, keys, payouts, idempotency>>
    BY DEF CountOtherActiveOwners, adminVars, IInv, TypeOK, AdminTypeOK
  <1>4. CASE OtherActiveOwners(calls[c].on) = {}
    <2>1. End(c)
      BY <1>4 DEF CountOtherActiveOwners
    <2> QED BY <1>2, <1>3, <2>1, Ends
  <1>5. CASE OtherActiveOwners(calls[c].on) # {}
    <2> DEFINE others == OtherActiveOwners(calls[c].on)
               call == [calls[c] EXCEPT !.step = "update", !.others = others]
    <2>1. others \subseteq Members /\ others # {} /\ calls[c].on \notin others
      BY <1>5 DEF OtherActiveOwners, ActiveOwners
    <2> HIDE DEF others
    <2>2. call \in AdminCall
      BY <1>2, <2>1 DEF AdminCall, AdminSteps
    <2>3. /\ call.action = "membership.updated" /\ call.step = "update"
          /\ call.on = calls[c].on /\ call.others = others
      BY <1>1, <1>2 DEF AdminCall, AtStep
    <2>4. calls' = [calls EXCEPT ![c] = call]
      BY <1>5 DEF CountOtherActiveOwners, others
    <2> HIDE DEF call
    <2>5. calls'[c] = call
      BY <2>2, <2>4, CallMoves DEF IInv, AllCalls
    <2>6. calls[c].on \in Members
      BY <1>1 DEF IInv, AdminPart, AdminCallOK
    <2>7. AdminCallOK(c)'
      BY <2>1, <2>3, <2>5, <2>6 DEF AdminCallOK, AtStep
    <2> QED BY <1>2, <1>3, <2>2, <2>3, <2>4, <2>7, AdminCallSteps
  <1> QED BY <1>4, <1>5

LEMMA WriteMembershipKeeps ==
  ASSUME IInv, NEW c \in Calls, WriteMembership(c), UNCHANGED <<payouts, idempotency>>
  PROVE  IInv'
  <1>1. AtStep(c, "membership.updated", "update") /\ ToAudit(c)
    BY DEF WriteMembership
  <1>2. calls[c] \in AdminCall /\ calls[c].step # "done"
    BY <1>1, CallKinds DEF IInv, AtStep, Actions
  <1>3. calls[c].on \in Members /\ calls[c].wanted \in Wanted
    BY <1>1, <1>2 DEF IInv, AdminPart, AdminCallOK, AdminCall
  <1>4. members' \in [Members -> Member]
    BY <1>3 DEF WriteMembership, Coalesce, Wanted, Member, IInv, TypeOK, AdminTypeOK
  <1>5. AdminTypeOK'
    BY <1>4 DEF WriteMembership, IInv, TypeOK, AdminTypeOK
  <1> QED BY <1>1, <1>2, <1>5, Ends DEF WriteMembership

LEMMA FindKeyToRotateKeeps ==
  ASSUME IInv, NEW c \in Calls, NEW k \in Keys, NEW expiresAt \in Expiries,
         FindKeyToRotate(c, k, expiresAt), UNCHANGED <<payouts, idempotency>>
  PROVE  IInv'
  <1> DEFINE call == [Admin("api_key.rotated", k, "rotate") EXCEPT !.expiresAt = expiresAt]
  <1>1. Admin("api_key.rotated", k, "rotate") \in AdminCall
    BY AdminTyped DEF Actions, Things, AdminSteps
  <1>2. call \in AdminCall
    BY <1>1 DEF AdminCall
  <1>3. call.action = "api_key.rotated" /\ call.step = "rotate" /\ call.on = k
    BY DEF Admin
  <1>4. Start(c, "key", call) /\ UNCHANGED adminVars /\ Exists(k)
    BY DEF FindKeyToRotate
  <1> HIDE DEF call
  <1>5. calls'[c] = call
    BY <1>2, <1>4, CallMoves DEF Start, IInv, AllCalls
  <1>6. AdminTypeOK' /\ UNCHANGED <<now, keys, payouts, idempotency>>
    BY <1>4 DEF adminVars, IInv, TypeOK, AdminTypeOK
  <1>7. AdminCallOK(c)'
    BY <1>3, <1>4, <1>5, <1>6 DEF AdminCallOK, AtStep, Exists
  <1> QED BY <1>2, <1>3, <1>4, <1>6, <1>7, Begins

LEMMA FindKeyToRevokeKeeps ==
  ASSUME IInv, NEW c \in Calls, NEW k \in Keys,
         FindKeyToRevoke(c, k), UNCHANGED <<payouts, idempotency>>
  PROVE  IInv'
  <1> DEFINE call == Admin("api_key.revoked", k, "update")
  <1>1. call \in AdminCall
    BY AdminTyped DEF Actions, Things, AdminSteps
  <1>2. call.action = "api_key.revoked" /\ call.step = "update" /\ call.on = k
    BY DEF Admin
  <1>3. Start(c, "key", call) /\ UNCHANGED adminVars /\ Exists(k)
    BY DEF FindKeyToRevoke
  <1> HIDE DEF call
  <1>4. calls'[c] = call
    BY <1>1, <1>3, CallMoves DEF Start, IInv, AllCalls
  <1>5. AdminTypeOK' /\ UNCHANGED <<now, keys, payouts, idempotency>>
    BY <1>3 DEF adminVars, IInv, TypeOK, AdminTypeOK
  <1>6. AdminCallOK(c)'
    BY <1>2, <1>3, <1>4, <1>5 DEF AdminCallOK, AtStep, Exists
  <1> QED BY <1>1, <1>2, <1>3, <1>5, <1>6, Begins

-----------------------------------------------------------------------------
(* The calls of administrators that change keys, and time *)

\* A call changes a key and makes a step.
LEMMA KeyCallSteps ==
  ASSUME IInv, AdminTypeOK', UNCHANGED <<now, payouts, idempotency>>,
         NEW c \in Calls, NEW call \in AdminCall,
         calls' = [calls EXCEPT ![c] = call], calls[c].action # "payout", AdminCallOK(c)',
         \A k \in Keys : Exists(k) =>
           /\ keys'[k].client = keys[k].client /\ keys'[k].expiresAt = keys[k].expiresAt
           /\ keys[k].revoked => keys'[k].revoked,
         \A k \in Keys : KeyOK(k)' /\ ReplacedOK(k)'
  PROVE  IInv'
  <1>1. /\ calls' \in [Calls -> AllCalls] /\ calls'[c] = call
        /\ \A d \in Calls \ {c} : calls'[d] = calls[d]
    BY CallMoves DEF IInv, AllCalls
  <1>2. TypeOK'
    BY <1>1 DEF IInv, TypeOK, AllCalls
  <1>3. call.action # "payout"
    BY DEF AdminCall, Actions
  <1>4. \A d \in Calls : calls'[d] = calls[d] \/ (calls[d].action # "payout" /\ calls'[d].action # "payout")
    BY <1>1, <1>3
  <1>5. now' >= now
    BY TenantAssumption DEF IInv, TypeOK, AdminTypeOK
  <1>6. PayoutPart'
    BY <1>2, <1>4, <1>5, PayoutPartKept
  <1>7. \A k \in Keys : Exists(k) => Exists(k)'
    BY DEF Exists
  <1>8. \A d \in Calls : AdminCallOK(d)'
    BY <1>1, <1>2, <1>7, AdminCallsKept
  <1> QED BY <1>2, <1>6, <1>8 DEF IInv, AdminPart

LEMMA CreateApiKeyKeeps ==
  ASSUME IInv, NEW c \in Calls, NEW new \in Keys, NEW client \in Clients, NEW expiresAt \in Expiries,
         CreateApiKey(c, new, client, expiresAt), UNCHANGED <<payouts, idempotency>>
  PROVE  IInv'
  <1> DEFINE call == Admin("api_key.created", new, "audit")
             key == [NoKey EXCEPT !.client = client, !.expiresAt = expiresAt]
  <1>1. call \in AdminCall /\ call.step = "audit" /\ call.action = "api_key.created"
    BY AdminTyped DEF Actions, Things, AdminSteps, Admin
  <1>2. key \in Key /\ key.client = client /\ ~key.revoked /\ key.replaces = None /\ client # None
    BY TenantAssumption DEF Key, NoKey, Expiries
  <1>3. keys \in [Keys -> Key] /\ keys' = [keys EXCEPT ![new] = key] /\ ~Exists(new)
    BY DEF CreateApiKey, IInv, TypeOK, AdminTypeOK
  <1>4. Start(c, "key", call) /\ UNCHANGED <<now, payouts, idempotency>>
    BY DEF CreateApiKey
  <1> HIDE DEF call, key
  <1>5. keys' \in [Keys -> Key] /\ keys'[new] = key /\ \A k \in Keys \ {new} : keys'[k] = keys[k]
    BY <1>2, <1>3
  <1>6. AdminTypeOK'
    BY <1>5 DEF CreateApiKey, IInv, TypeOK, AdminTypeOK
  <1>7. calls[c].step = "idle" /\ calls[c].action = "none" /\ calls' = [calls EXCEPT ![c] = call]
    BY <1>4, CallKinds DEF IInv, Start
  <1>8. calls'[c] = call /\ \A d \in Calls \ {c} : calls'[d] = calls[d]
    BY <1>1, <1>7, CallMoves DEF IInv, AllCalls
  <1>9. AdminCallOK(c)'
    BY <1>1, <1>8, NothingKnown
  <1>10. keys[new].replaces = None /\ ~keys[new].revoked
    BY <1>3 DEF IInv, AdminPart, KeyOK
  <1>11. ASSUME NEW k \in Keys PROVE KeyOK(k)' /\ ReplacedOK(k)'
    <2>1. KeyOK(k) /\ ReplacedOK(k)
      BY DEF IInv, AdminPart
    <2>2. Replacements(k)' = Replacements(k)
      BY <1>2, <1>5, <1>10, TenantAssumption DEF Replacements
    <2>3. LateRotations(k)' = LateRotations(k)
      BY <1>1, <1>7, <1>8 DEF LateRotations, AtStep
    <2>4. keys[k].revoked => keys'[k].revoked
      BY <1>5, <1>10
    <2>5. KeyOK(k)'
      BY <1>2, <1>5, <2>1 DEF KeyOK, Exists
    <2> QED BY <2>1, <2>2, <2>3, <2>4, <2>5 DEF ReplacedOK
  <1>12. \A k \in Keys : Exists(k) =>
           /\ keys'[k].client = keys[k].client /\ keys'[k].expiresAt = keys[k].expiresAt
           /\ keys[k].revoked => keys'[k].revoked
    BY <1>3, <1>5
  <1>13. calls[c].action # "payout"
    BY <1>7
  <1> QED BY <1>1, <1>4, <1>6, <1>7, <1>9, <1>11, <1>12, <1>13, KeyCallSteps

LEMMA RevokeApiKeyKeeps ==
  ASSUME IInv, NEW c \in Calls, RevokeApiKey(c), UNCHANGED <<payouts, idempotency>>
  PROVE  IInv'
  <1>1. AtStep(c, "api_key.revoked", "update")
    BY DEF RevokeApiKey
  <1>2. calls[c] \in AdminCall /\ calls[c].action # "payout" /\ calls[c].on \in Things
    BY <1>1, CallKinds DEF IInv, AtStep, Actions, AdminCall
  <1>3. PICK old \in Keys : old = calls[c].on /\ Exists(old)
    BY <1>1 DEF IInv, AdminPart, AdminCallOK, AtStep
  <1> DEFINE call == Admin("api_key.revoked", old, "audit")
  <1>4. call \in AdminCall /\ call.step = "audit" /\ call.action = "api_key.revoked"
    BY AdminTyped DEF Actions, Things, AdminSteps, Admin
  <1>5. /\ keys \in [Keys -> Key] /\ keys' = [keys EXCEPT ![old].revoked = TRUE]
        /\ calls' = [calls EXCEPT ![c] = call] /\ UNCHANGED <<now, payouts, idempotency>>
    BY <1>1, <1>3 DEF RevokeApiKey, Revoked, ToAudit, AtStep, IInv, TypeOK, AdminTypeOK
  <1> HIDE DEF call
  <1>6. /\ keys' \in [Keys -> Key] /\ keys'[old].revoked
        /\ \A k \in Keys : /\ keys'[k].client = keys[k].client
                           /\ keys'[k].expiresAt = keys[k].expiresAt
                           /\ keys'[k].replaces = keys[k].replaces
                           /\ k # old => keys'[k] = keys[k]
    BY <1>5 DEF Key
  <1>7. AdminTypeOK'
    BY <1>6 DEF RevokeApiKey, IInv, TypeOK, AdminTypeOK
  <1>8. calls'[c] = call /\ \A d \in Calls \ {c} : calls'[d] = calls[d]
    BY <1>4, <1>5, CallMoves DEF IInv, AllCalls
  <1>9. AdminCallOK(c)'
    BY <1>4, <1>8, NothingKnown
  <1>10. ASSUME NEW k \in Keys PROVE KeyOK(k)' /\ ReplacedOK(k)'
    <2>1. KeyOK(k) /\ ReplacedOK(k)
      BY DEF IInv, AdminPart
    <2>2. Replacements(k)' = Replacements(k)
      BY <1>6 DEF Replacements
    <2>3. LateRotations(k)' = LateRotations(k)
      BY <1>1, <1>4, <1>8 DEF LateRotations, AtStep
    <2>4. keys[k].revoked => keys'[k].revoked
      BY <1>6
    <2>5. KeyOK(k)'
      BY <1>3, <1>6, <2>1 DEF KeyOK, Exists
    <2> QED BY <2>1, <2>2, <2>3, <2>4, <2>5 DEF ReplacedOK
  <1>11. \A k \in Keys : Exists(k) =>
           /\ keys'[k].client = keys[k].client /\ keys'[k].expiresAt = keys[k].expiresAt
           /\ keys[k].revoked => keys'[k].revoked
    BY <1>6
  <1> QED BY <1>2, <1>4, <1>5, <1>7, <1>9, <1>10, <1>11, KeyCallSteps

\* A rotation adds one replacement, and counts as late unless it is the first.
LEMMA RotateApiKeyKeeps ==
  ASSUME IInv, NEW c \in Calls, NEW new \in Keys,
         RotateApiKey(c, new), UNCHANGED <<payouts, idempotency>>
  PROVE  IInv'
  <1>1. AtStep(c, "api_key.rotated", "rotate")
    BY DEF RotateApiKey
  <1>2. calls[c] \in AdminCall /\ calls[c].action # "payout" /\ calls[c].expiresAt \in Expiries
    BY <1>1, CallKinds DEF IInv, AtStep, Actions, AdminCall
  <1>3. PICK old \in Keys : old = calls[c].on /\ Exists(old)
    BY <1>1 DEF IInv, AdminPart, AdminCallOK, AtStep
  <1> DEFINE call == [Admin("api_key.rotated", old, "done") EXCEPT !.late = keys[old].revoked]
             key == [client |-> keys[old].client, revoked |-> FALSE,
                     expiresAt |-> calls[c].expiresAt, replaces |-> old]
  <1>4. keys \in [Keys -> Key] /\ keys[old] \in Key
    BY DEF IInv, TypeOK, AdminTypeOK
  <1>5. Admin("api_key.rotated", old, "done") \in AdminCall
    BY AdminTyped DEF Actions, Things, AdminSteps
  <1>6. /\ call \in AdminCall /\ call.step = "done" /\ call.action = "api_key.rotated"
        /\ call.on = old /\ call.late = keys[old].revoked
    BY <1>4, <1>5 DEF AdminCall, Key, Admin
  <1>7. key \in Key /\ key.client = keys[old].client /\ ~key.revoked /\ key.replaces = old
    BY <1>2, <1>4 DEF Key
  <1>8. /\ keys' = [[keys EXCEPT ![old].revoked = TRUE] EXCEPT ![new] = key] /\ ~Exists(new)
        /\ calls' = [calls EXCEPT ![c] = call] /\ UNCHANGED <<now, payouts, idempotency>>
    BY <1>3 DEF RotateApiKey, Revoked
  <1> HIDE DEF call, key
  <1>9. new # old
    BY <1>3, <1>8
  <1>10. /\ keys' \in [Keys -> Key] /\ keys'[new] = key
         /\ keys'[old] = [keys[old] EXCEPT !.revoked = TRUE]
         /\ \A k \in Keys \ {old, new} : keys'[k] = keys[k]
    BY <1>4, <1>7, <1>8, <1>9 DEF Key
  <1>11. /\ keys'[old].revoked /\ keys'[old].client = keys[old].client
         /\ keys'[old].expiresAt = keys[old].expiresAt /\ keys'[old].replaces = keys[old].replaces
    BY <1>4, <1>10 DEF Key
  <1>12. AdminTypeOK'
    <2>1. audit' \subseteq Actions \X Things
      BY <1>3 DEF RotateApiKey, IInv, TypeOK, AdminTypeOK, Actions, Things
    <2> QED BY <1>10, <2>1 DEF RotateApiKey, IInv, TypeOK, AdminTypeOK
  <1>13. calls'[c] = call /\ \A d \in Calls \ {c} : calls'[d] = calls[d]
    BY <1>6, <1>8, CallMoves DEF IInv, AllCalls
  <1>14. AdminCallOK(c)'
    BY <1>3, <1>6, <1>11, <1>13 DEF AdminCallOK, AtStep, Exists
  <1>15. keys[new].replaces = None /\ ~keys[new].revoked
    BY <1>8 DEF IInv, AdminPart, KeyOK
  <1>16. ASSUME NEW k \in Keys
         PROVE  /\ KeyOK(k)'
                /\ keys'[k].replaces = IF k = new THEN old ELSE keys[k].replaces
    <2>1. CASE k = new
      BY <1>3, <1>7, <1>10, <2>1 DEF KeyOK, Exists
    <2>2. CASE k = old
      BY <1>3, <1>9, <1>11, <2>2 DEF KeyOK, Exists
    <2>3. CASE k \notin {old, new}
      BY <1>10, <2>3 DEF IInv, AdminPart, KeyOK, Exists
    <2> QED BY <2>1, <2>2, <2>3
  <1>17. ASSUME NEW k \in Keys \ {old} PROVE ReplacedOK(k)'
    <2>1. ReplacedOK(k)
      BY DEF IInv, AdminPart
    <2>2. Replacements(k)' = Replacements(k)
      BY <1>15, <1>16, <1>17, TenantAssumption DEF Replacements
    <2>3. LateRotations(k)' = LateRotations(k)
      BY <1>1, <1>6, <1>13, <1>17 DEF LateRotations, AtStep
    <2>4. keys[k].revoked => keys'[k].revoked
      BY <1>10, <1>15, <1>17
    <2> QED BY <2>1, <2>2, <2>3, <2>4 DEF ReplacedOK
  <1>18. ReplacedOK(old)'
    <2> DEFINE R == Replacements(old)  L == LateRotations(old)
    <2>1. ReplacedOK(old)
      BY DEF IInv, AdminPart
    <2>2. IsFiniteSet(R) /\ IsFiniteSet(L) /\ (R # {} => keys[old].revoked) /\ Cardinality(R) <= Cardinality(L) + 1
      BY <2>1 DEF ReplacedOK
    <2>3. Replacements(old)' = R \cup {new} /\ new \notin R
      BY <1>15, <1>16, TenantAssumption DEF Replacements
    <2>4. c \notin L /\ LateRotations(old)' = IF keys[old].revoked THEN L \cup {c} ELSE L
      BY <1>1, <1>6, <1>13 DEF LateRotations, AtStep
    <2> HIDE DEF R, L
    <2>5. /\ IsFiniteSet(R \cup {new}) /\ Cardinality(R \cup {new}) = Cardinality(R) + 1
          /\ IsFiniteSet(L \cup {c}) /\ Cardinality(L \cup {c}) = Cardinality(L) + 1
          /\ Cardinality(R) \in Nat /\ Cardinality(L) \in Nat
      BY <2>2, <2>3, <2>4, FS_AddElement, FS_CardinalityType
    <2>6. CASE keys[old].revoked
      <3>1. LateRotations(old)' = L \cup {c}
        BY <2>4, <2>6
      <3>2. Cardinality(R \cup {new}) <= Cardinality(L \cup {c}) + 1
        BY <2>2, <2>5
      <3> QED BY <1>11, <2>3, <2>5, <3>1, <3>2 DEF ReplacedOK
    <2>7. CASE ~keys[old].revoked
      <3>1. LateRotations(old)' = L
        BY <2>4, <2>7
      <3>2. R = {} /\ Cardinality(R) = 0
        BY <2>2, <2>7, FS_EmptySet
      <3>3. Cardinality(R \cup {new}) <= Cardinality(L) + 1
        BY <2>5, <3>2
      <3> QED BY <1>11, <2>2, <2>3, <2>5, <3>1, <3>3 DEF ReplacedOK
    <2> QED BY <2>6, <2>7
  <1>19. \A k \in Keys : Exists(k) =>
           /\ keys'[k].client = keys[k].client /\ keys'[k].expiresAt = keys[k].expiresAt
           /\ keys[k].revoked => keys'[k].revoked
    BY <1>8, <1>10, <1>11
  <1>20. \A k \in Keys : KeyOK(k)' /\ ReplacedOK(k)'
    BY <1>16, <1>17, <1>18
  <1> QED BY <1>2, <1>6, <1>8, <1>12, <1>14, <1>19, <1>20, KeyCallSteps

LEMMA TickKeeps ==
  ASSUME IInv, Tick, UNCHANGED <<payouts, idempotency>>
  PROVE  IInv'
  <1>1. now \in 0 .. EndOfTime /\ EndOfTime \in Nat /\ now' = now + 1 /\ now < EndOfTime
    BY TenantAssumption DEF Tick, IInv, TypeOK, AdminTypeOK
  <1>2. now' \in 0 .. EndOfTime /\ now' >= now
    BY <1>1
  <1>3. TypeOK'
    BY <1>2 DEF Tick, IInv, TypeOK, AdminTypeOK
  <1>4. UNCHANGED <<keys, calls>>
    BY DEF Tick
  <1>5. PayoutPart'
    BY <1>2, <1>3, <1>4, PayoutPartKept
  <1>6. AdminPart'
    BY <1>3, <1>4, AdminPartKept
  <1> QED BY <1>3, <1>5, <1>6 DEF IInv

\* Whatever administrators do, the invariant holds.
LEMMA AdminNextKeeps ==
  ASSUME IInv, AdminNext, UNCHANGED <<payouts, idempotency>>
  PROVE  IInv'
  <1>1. ASSUME NEW c \in Calls, TenantCall(c) PROVE IInv'
    BY <1>1, CreateTenantKeeps, UpdateTenantKeeps DEF TenantCall
  <1>2. ASSUME NEW c \in Calls, MembershipCall(c) PROVE IInv'
    BY <1>2, FindMembershipByEmailKeeps, FindMembershipKeeps, InsertMembershipKeeps,
       CountOtherActiveOwnersKeeps, WriteMembershipKeeps DEF MembershipCall
  <1>3. ASSUME NEW c \in Calls, ClientCall(c) PROVE IInv'
    BY <1>3, CreateApiClientKeeps, UpdateApiClientKeeps DEF ClientCall
  <1>4. ASSUME NEW c \in Calls, KeyCall(c) PROVE IInv'
    BY <1>4, CreateApiKeyKeeps, FindKeyToRotateKeeps, FindKeyToRevokeKeeps, RotateApiKeyKeeps,
       RevokeApiKeyKeeps DEF KeyCall
  <1> QED BY <1>1, <1>2, <1>3, <1>4, WriteAuditKeeps, CallFailsKeeps, TickKeeps DEF AdminNext

-----------------------------------------------------------------------------
(* Payout requests *)

\* A request makes a step and leaves what administrators do alone.
LEMMA RequestMoves ==
  ASSUME IInv, UNCHANGED adminVars, NEW c \in Calls, NEW call \in {Over} \cup PayoutCall,
         calls' = [calls EXCEPT ![c] = call], calls[c].action \in {"none", "payout"},
         payouts' \in [Calls -> Payout \cup {None}],
         idempotency' \in [Tenants \X IdempotencyKeys -> Entry \cup {None}]
  PROVE  /\ TypeOK' /\ AdminPart' /\ calls'[c] = call
         /\ \A d \in Calls \ {c} : calls'[d] = calls[d]
  <1>1. /\ calls' \in [Calls -> AllCalls] /\ calls'[c] = call
        /\ \A d \in Calls \ {c} : calls'[d] = calls[d]
    BY CallMoves DEF IInv, AllCalls
  <1>2. TypeOK'
    BY <1>1 DEF adminVars, IInv, TypeOK, AdminTypeOK, AllCalls
  <1>3. call.action \in {"none", "payout"}
    BY DEF Over, PayoutCall
  <1>4. /\ AdminCallOK(c)'
        /\ ~AtStep(c, "api_key.rotated", "done") /\ ~AtStep(c, "api_key.rotated", "done")'
    BY <1>1, <1>3 DEF AdminCallOK, AtStep
  <1>5. UNCHANGED keys
    BY DEF adminVars
  <1>6. AdminPart'
    BY <1>1, <1>2, <1>4, <1>5, AdminPartKept
  <1> QED BY <1>1, <1>2, <1>6

\* The scope of a request that has been authenticated is one of the table.
LEMMA ScopeTyped ==
  ASSUME IInv, NEW c \in Calls, calls[c].action = "payout", calls[c].step # "authenticate"
  PROVE  /\ calls[c].tenant \in Tenants /\ calls[c].idempotencyKey \in IdempotencyKeys
         /\ Scope(c) \in Tenants \X IdempotencyKeys
         /\ idempotency[Scope(c)] \in Entry \cup {None}
  <1>1. calls[c] \in PayoutCall /\ PayoutCallOK(c)
    BY CallKinds DEF IInv, PayoutPart
  <1>2. calls[c].key \in Keys /\ calls[c].idempotencyKey \in IdempotencyKeys
    BY <1>1 DEF PayoutCall
  <1>3. keys[calls[c].key].client \in Clients
    BY <1>1, <1>2 DEF PayoutCallOK, Exists, IInv, TypeOK, AdminTypeOK, Key
  <1>4. calls[c].tenant \in Tenants
    BY <1>1, <1>3, TenantAssumption DEF PayoutCallOK
  <1> QED BY <1>2, <1>4 DEF Scope, IInv, TypeOK

\* A request that is not over has made no payout.
LEMMA NotMade ==
  ASSUME IInv, NEW c \in Calls, calls[c].step \notin {"answered", "lost"}
  PROVE  payouts[c] = None
  BY DEF IInv, PayoutPart, PayoutOK, AtStep

\* A request makes a step that changes neither table.
LEMMA RequestSteps ==
  ASSUME IInv, UNCHANGED <<adminVars, payouts, idempotency>>, NEW c \in Calls,
         NEW call \in {Over} \cup PayoutCall,
         calls' = [calls EXCEPT ![c] = call], calls[c].action \in {"none", "payout"},
         PayoutCallOK(c)',
         payouts[c] # None => call.action = "payout" /\ call.step \in {"answered", "lost"} /\ ~call.ended
  PROVE  IInv'
  <1>1. /\ payouts' \in [Calls -> Payout \cup {None}] /\ UNCHANGED adminVars
        /\ idempotency' \in [Tenants \X IdempotencyKeys -> Entry \cup {None}]
    BY DEF IInv, TypeOK
  <1>2. /\ TypeOK' /\ AdminPart' /\ calls'[c] = call
        /\ \A d \in Calls \ {c} : calls'[d] = calls[d]
    BY <1>1, RequestMoves
  <1>3. ASSUME NEW d \in Calls \ {c} PROVE PayoutCallOK(d)'
    <2> SUFFICES ASSUME calls[d].action = "payout" PROVE PayoutCallOK(d)'
      BY <1>2 DEF PayoutCallOK
    <2>1. calls'[d] = calls[d] /\ Scope(d)' = Scope(d) /\ PayoutCallOK(d)
      BY <1>2 DEF Scope, IInv, PayoutPart
    <2>2. ASSUME calls[d].step = "insert", NEW e \in Calls,
                 AtStep(e, "payout", "insert")', Scope(e)' = Scope(d)
          PROVE  e = d
      <3>1. CASE e = c
        <4>1. AtStep(d, "payout", "insert")' /\ Scope(d)' = Scope(c)'
          BY <2>1, <2>2, <3>1 DEF AtStep
        <4> QED BY <2>2, <3>1, <4>1 DEF PayoutCallOK, AtStep
      <3>2. CASE e # c
        <4>1. AtStep(e, "payout", "insert") /\ Scope(e) = Scope(d)
          BY <1>2, <2>2, <3>2 DEF AtStep, Scope
        <4> QED BY <2>1, <2>2, <4>1 DEF PayoutCallOK
      <3> QED BY <3>1, <3>2
    <2>3. Unended(calls[d].key) <=> (/\ ~keys[calls[d].key].revoked
                                     /\ keys[calls[d].key].expiresAt = None \/ keys[calls[d].key].expiresAt > now)
      BY DEF Unended
    <2>4. UNCHANGED <<now, keys>>
      BY DEF adminVars
    <2> QED BY <2>1, <2>2, <2>3, <2>4 DEF PayoutCallOK, Exists, Unended
  <1>4. ASSUME NEW d \in Calls PROVE PayoutOK(d)'
    <2> SUFFICES ASSUME payouts[d] # None PROVE PayoutOK(d)'
      BY DEF PayoutOK
    <2>1. PayoutOK(d)
      BY DEF IInv, PayoutPart
    <2>2. (AtStep(d, "payout", "answered") \/ AtStep(d, "payout", "lost"))' /\ ~calls'[d].ended
      BY <1>2, <2>1 DEF PayoutOK, AtStep
    <2> QED BY <2>1, <2>2 DEF PayoutOK
  <1>5. \A t \in Tenants, i \in IdempotencyKeys : EntryOK(t, i)'
    BY DEF IInv, PayoutPart, EntryOK
  <1> QED BY <1>2, <1>3, <1>4, <1>5 DEF IInv, PayoutPart

LEMMA ArriveKeeps ==
  ASSUME IInv, NEW c \in Calls, NEW k \in Keys, NEW i \in IdempotencyKeys, NEW body \in Bodies,
         Arrive(c, k, i, body)
  PROVE  IInv'
  <1>1. PICK t \in {TenantOf[keys[k].client], None} :
          Start(c, "payout", [action |-> "payout", step |-> "authenticate", tenant |-> t, key |-> k,
                 idempotencyKey |-> i, body |-> body, answer |-> None,
                 ended |-> keys[k].revoked \/ keys[k].expiresAt \in 0 .. now])
    BY DEF Arrive
  <1> DEFINE call == [action |-> "payout", step |-> "authenticate", tenant |-> t, key |-> k,
                 idempotencyKey |-> i, body |-> body, answer |-> None,
                 ended |-> keys[k].revoked \/ keys[k].expiresAt \in 0 .. now]
  <1>2. Exists(k) /\ UNCHANGED <<adminVars, payouts, idempotency>> /\ UNCHANGED <<now, keys>>
    BY DEF Arrive, adminVars
  <1>3. keys[k] \in Key /\ keys[k].client \in Clients /\ keys[k].revoked \in BOOLEAN
    BY <1>2 DEF IInv, TypeOK, AdminTypeOK, Key, Exists
  <1>4. t \in Tenants \cup {None}
    BY <1>3, TenantAssumption
  <1>5. call \in PayoutCall
    BY <1>4 DEF PayoutCall, PayoutSteps
  <1>6. call.action = "payout" /\ call.step = "authenticate" /\ call.key = k
    OBVIOUS
  <1>7. call.ended => ~Unended(k)
    BY <1>3, TenantAssumption DEF Unended, IInv, TypeOK, AdminTypeOK
  <1> HIDE DEF call
  <1>8. calls[c].step = "idle" /\ calls' = [calls EXCEPT ![c] = call] /\ calls[c].action = "none"
    BY <1>1, CallKinds DEF call, Start, IInv
  <1>9. calls'[c] = call
    BY <1>5, <1>8, CallMoves DEF IInv, AllCalls
  <1>10. PayoutCallOK(c)'
    BY <1>2, <1>6, <1>7, <1>9 DEF PayoutCallOK, Exists, Unended
  <1>11. payouts[c] = None
    BY <1>8, NotMade
  <1> QED BY <1>2, <1>5, <1>8, <1>10, <1>11, RequestSteps

\* What To does to a call.
LEMMA ToMoves ==
  ASSUME TypeOK, NEW c \in Calls, calls[c].action = "payout", NEW step \in PayoutSteps, To(c, step)
  PROVE  \E call \in PayoutCall :
           /\ calls' = [calls EXCEPT ![c] = call] /\ calls'[c] = call
           /\ call = [calls[c] EXCEPT !.step = step]
           /\ call.action = "payout" /\ call.step = step /\ call.key = calls[c].key
           /\ call.tenant = calls[c].tenant /\ call.idempotencyKey = calls[c].idempotencyKey
           /\ call.body = calls[c].body /\ call.ended = calls[c].ended
  <1> DEFINE call == [calls[c] EXCEPT !.step = step]
  <1>1. calls[c] \in PayoutCall
    BY CallKinds
  <1>2. /\ call \in PayoutCall /\ call.action = "payout" /\ call.step = step /\ call.key = calls[c].key
        /\ call.tenant = calls[c].tenant /\ call.idempotencyKey = calls[c].idempotencyKey
        /\ call.body = calls[c].body /\ call.ended = calls[c].ended
    BY <1>1 DEF PayoutCall
  <1>3. calls' = [calls EXCEPT ![c] = call]
    BY DEF To
  <1>4. calls'[c] = call
    BY <1>2, <1>3, CallMoves DEF AllCalls
  <1> QED BY <1>2, <1>3, <1>4

LEMMA RequestEnds ==
  ASSUME IInv, NEW c \in Calls, calls[c].action = "payout", payouts[c] = None,
         End(c), UNCHANGED <<adminVars, payouts, idempotency>>
  PROVE  IInv'
  <1>1. calls' = [calls EXCEPT ![c] = Over] /\ calls'[c] = Over
    BY CallMoves DEF End, IInv, AllCalls
  <1>2. PayoutCallOK(c)'
    BY <1>1 DEF PayoutCallOK, Over
  <1> QED BY <1>1, <1>2, RequestSteps

LEMMA AuthenticateKeeps ==
  ASSUME IInv, NEW c \in Calls, Authenticate(c)
  PROVE  IInv'
  <1>1. /\ calls[c].action = "payout" /\ calls[c].step = "authenticate"
        /\ UNCHANGED <<adminVars, payouts, idempotency>> /\ UNCHANGED <<now, keys>>
    BY DEF Authenticate, AtStep, adminVars
  <1>2. payouts[c] = None /\ PayoutCallOK(c) /\ calls[c] \in PayoutCall
    BY <1>1, NotMade, CallKinds DEF IInv, PayoutPart
  <1>3. CASE End(c)
    BY <1>1, <1>2, <1>3, RequestEnds
  <1>4. CASE /\ To(c, "requireTenant") /\ Unended(calls[c].key)
             /\ TenantOf[keys[calls[c].key].client] = calls[c].tenant
    <2>1. PICK call \in PayoutCall :
           /\ calls' = [calls EXCEPT ![c] = call] /\ calls'[c] = call
           /\ call.action = "payout" /\ call.step = "requireTenant" /\ call.key = calls[c].key
           /\ call.tenant = calls[c].tenant /\ call.ended = calls[c].ended
      BY <1>1, <1>4, ToMoves DEF IInv, PayoutSteps
    <2>2. ~calls[c].ended /\ Exists(calls[c].key)
      BY <1>1, <1>2, <1>4 DEF PayoutCallOK
    <2>3. PayoutCallOK(c)'
      BY <1>1, <1>4, <2>1, <2>2 DEF PayoutCallOK, Exists
    <2> QED BY <1>1, <1>2, <2>1, <2>3, RequestSteps
  <1> QED BY <1>3, <1>4 DEF Authenticate

LEMMA RequireTenantKeeps ==
  ASSUME IInv, NEW c \in Calls, RequireTenant(c)
  PROVE  IInv'
  <1>1. /\ calls[c].action = "payout" /\ calls[c].step = "requireTenant"
        /\ UNCHANGED <<adminVars, payouts, idempotency>> /\ UNCHANGED <<now, keys>>
    BY DEF RequireTenant, AtStep, adminVars
  <1>2. payouts[c] = None /\ PayoutCallOK(c) /\ calls[c] \in PayoutCall
    BY <1>1, NotMade, CallKinds DEF IInv, PayoutPart
  <1>3. CASE End(c)
    BY <1>1, <1>2, <1>3, RequestEnds
  <1>4. CASE To(c, "lookup")
    <2>1. PICK call \in PayoutCall :
           /\ calls' = [calls EXCEPT ![c] = call] /\ calls'[c] = call
           /\ call.action = "payout" /\ call.step = "lookup" /\ call.key = calls[c].key
           /\ call.tenant = calls[c].tenant /\ call.ended = calls[c].ended
      BY <1>1, <1>4, ToMoves DEF IInv, PayoutSteps
    <2>2. PayoutCallOK(c)'
      BY <1>1, <1>2, <2>1 DEF PayoutCallOK, Exists
    <2> QED BY <1>1, <1>2, <2>1, <2>2, RequestSteps
  <1> QED BY <1>3, <1>4 DEF RequireTenant

LEMMA PayoutCallFailsKeeps ==
  ASSUME IInv, NEW c \in Calls, PayoutCallFails(c)
  PROVE  IInv'
  <1>1. /\ calls[c].action = "payout" /\ calls[c].step \notin {"answered", "lost"} /\ End(c)
        /\ UNCHANGED <<adminVars, payouts, idempotency>>
    BY DEF PayoutCallFails
  <1>2. payouts[c] = None
    BY <1>1, NotMade
  <1> QED BY <1>1, <1>2, RequestEnds

\* Whoever finds the key free holds its range alone; whoever finds it taken
\* learns what is stored.
LEMMA LookupIdempotencyKeyKeeps ==
  ASSUME IInv, NEW c \in Calls, LookupIdempotencyKey(c)
  PROVE  IInv'
  <1> DEFINE entry == idempotency[Scope(c)]
  <1>1. /\ calls[c].action = "payout" /\ calls[c].step = "lookup"
        /\ UNCHANGED <<adminVars, payouts, idempotency>> /\ UNCHANGED <<now, keys>>
    BY DEF LookupIdempotencyKey, AtStep, adminVars
  <1>2. payouts[c] = None /\ PayoutCallOK(c) /\ calls[c] \in PayoutCall
    BY <1>1, NotMade, CallKinds DEF IInv, PayoutPart
  <1>3. entry \in Entry \cup {None}
    BY <1>1, ScopeTyped
  <1>4. /\ Exists(calls[c].key) /\ ~calls[c].ended
        /\ calls[c].tenant = TenantOf[keys[calls[c].key].client]
    BY <1>1, <1>2 DEF PayoutCallOK
  <1>5. CASE entry = None
    <2>1. To(c, "insert")
      BY <1>5 DEF LookupIdempotencyKey
    <2>2. PICK call \in PayoutCall :
           /\ calls' = [calls EXCEPT ![c] = call] /\ calls'[c] = call
           /\ call.action = "payout" /\ call.step = "insert" /\ call.key = calls[c].key
           /\ call.tenant = calls[c].tenant /\ call.idempotencyKey = calls[c].idempotencyKey
           /\ call.ended = calls[c].ended
      BY <1>1, <2>1, ToMoves DEF IInv, PayoutSteps
    <2>3. Scope(c)' = Scope(c) /\ idempotency'[Scope(c)'] = None
      BY <1>1, <1>5, <2>2 DEF Scope
    <2>4. ASSUME NEW d \in Calls, AtStep(d, "payout", "insert")', Scope(d)' = Scope(c)'
          PROVE  d = c
      <3> SUFFICES ASSUME d # c PROVE FALSE
        OBVIOUS
      <3>1. calls'[d] = calls[d]
        BY <2>2, CallMoves DEF IInv, AllCalls
      <3>2. AtStep(d, "payout", "insert") /\ Scope(d) = Scope(c)
        BY <2>3, <2>4, <3>1 DEF AtStep, Scope
      <3> QED BY <3>2 DEF LookupIdempotencyKey, Locked
    <2>5. PayoutCallOK(c)'
      BY <1>1, <1>4, <2>2, <2>3, <2>4 DEF PayoutCallOK, Exists
    <2> QED BY <1>1, <1>2, <2>2, <2>5, RequestSteps
  <1>6. CASE entry # None /\ entry.hash # calls[c].body
    <2>1. To(c, "conflict")
      BY <1>6 DEF LookupIdempotencyKey
    <2>2. PICK call \in PayoutCall :
           /\ calls' = [calls EXCEPT ![c] = call] /\ calls'[c] = call
           /\ call.action = "payout" /\ call.step = "conflict" /\ call.key = calls[c].key
           /\ call.tenant = calls[c].tenant /\ call.idempotencyKey = calls[c].idempotencyKey
           /\ call.body = calls[c].body /\ call.ended = calls[c].ended
      BY <1>1, <2>1, ToMoves DEF IInv, PayoutSteps
    <2>3. Scope(c)' = Scope(c) /\ idempotency'[Scope(c)'] = entry
      BY <1>1, <2>2 DEF Scope
    <2>4. PayoutCallOK(c)'
      BY <1>1, <1>4, <1>6, <2>2, <2>3 DEF PayoutCallOK, Exists
    <2> QED BY <1>1, <1>2, <2>2, <2>4, RequestSteps
  <1>7. CASE entry # None /\ entry.hash = calls[c].body
    <2>1. calls' = [calls EXCEPT ![c].step = "answered", ![c].answer = entry.response]
      BY <1>7 DEF LookupIdempotencyKey, ReplayedAnswer
    <2>2. entry.response \in Answer
      BY <1>3, <1>7 DEF Entry
    <2> DEFINE call == [calls[c] EXCEPT !.step = "answered", !.answer = entry.response]
    <2>3. call \in PayoutCall
      BY <1>2, <2>2 DEF PayoutCall, PayoutSteps
    <2>4. /\ call.action = "payout" /\ call.step = "answered" /\ call.key = calls[c].key
          /\ call.tenant = calls[c].tenant /\ call.idempotencyKey = calls[c].idempotencyKey
          /\ call.body = calls[c].body /\ call.ended = calls[c].ended /\ call.answer = entry.response
      BY <1>1, <1>2 DEF PayoutCall
    <2>5. calls' = [calls EXCEPT ![c] = call]
      BY <2>1
    <2> HIDE DEF call
    <2>6. calls'[c] = call
      BY <2>3, <2>5, CallMoves DEF IInv, AllCalls
    <2>7. Scope(c)' = Scope(c) /\ idempotency'[Scope(c)'] = entry
      BY <1>1, <2>4, <2>6 DEF Scope
    <2>8. PayoutCallOK(c)'
      BY <1>1, <1>4, <1>7, <2>4, <2>6, <2>7 DEF PayoutCallOK, Exists
    <2> QED BY <1>1, <1>2, <2>3, <2>5, <2>8, RequestSteps
  <1> QED BY <1>5, <1>6, <1>7

LEMMA LoseAnswerKeeps ==
  ASSUME IInv, NEW c \in Calls, LoseAnswer(c)
  PROVE  IInv'
  <1> DEFINE call == [calls[c] EXCEPT !.step = "lost", !.answer = None]
  <1>1. /\ calls[c].action = "payout" /\ calls[c].step = "answered"
        /\ UNCHANGED <<adminVars, payouts, idempotency>> /\ UNCHANGED <<now, keys>>
        /\ calls' = [calls EXCEPT ![c] = call]
    BY DEF LoseAnswer, AtStep, adminVars
  <1>2. PayoutCallOK(c) /\ calls[c] \in PayoutCall /\ PayoutOK(c)
    BY <1>1, CallKinds DEF IInv, PayoutPart
  <1>3. call \in PayoutCall
    BY <1>2 DEF PayoutCall, PayoutSteps
  <1>4. /\ call.action = "payout" /\ call.step = "lost" /\ call.key = calls[c].key
        /\ call.tenant = calls[c].tenant /\ call.ended = calls[c].ended
    BY <1>1, <1>2 DEF PayoutCall
  <1> HIDE DEF call
  <1>5. calls'[c] = call
    BY <1>1, <1>3, CallMoves DEF IInv, AllCalls
  <1>6. PayoutCallOK(c)'
    BY <1>1, <1>2, <1>4, <1>5 DEF PayoutCallOK, Exists
  <1>7. ~calls[c].ended
    BY <1>1, <1>2 DEF PayoutCallOK
  <1> QED BY <1>1, <1>3, <1>4, <1>6, <1>7, RequestSteps

LEMMA MovePayoutKeeps ==
  ASSUME IInv, NEW c \in Calls, MovePayout(c)
  PROVE  IInv'
  <1>1. /\ payouts[c] # None /\ payouts' = [payouts EXCEPT ![c].status = "moved"]
        /\ UNCHANGED <<idempotency, calls, keys, now, tenants, members, clients, audit>>
    BY DEF MovePayout, tenantVars, adminVars
  <1>2. payouts[c] \in Payout
    BY <1>1 DEF IInv, TypeOK
  <1>3. /\ payouts' \in [Calls -> Payout \cup {None}] /\ payouts'[c] \in Payout
        /\ payouts'[c].status = "moved" /\ payouts'[c].tenant = payouts[c].tenant
        /\ payouts'[c].body = payouts[c].body /\ payouts'[c].rule = payouts[c].rule
        /\ payouts'[c].idempotencyKey = payouts[c].idempotencyKey
        /\ \A d \in Calls \ {c} : payouts'[d] = payouts[d]
    BY <1>1, <1>2 DEF Payout, Statuses, IInv, TypeOK
  <1>4. payouts'[c] # None
    BY <1>3, NoneAssumption
  <1>5. TypeOK'
    BY <1>1, <1>3 DEF IInv, TypeOK, AdminTypeOK
  <1>6. AdminPart'
    BY <1>1, <1>5, AdminPartKept
  <1>7. ASSUME NEW d \in Calls PROVE PayoutCallOK(d)'
    BY <1>1 DEF IInv, PayoutPart, PayoutCallOK, Scope, AtStep, Exists, Unended
  <1>8. ASSUME NEW d \in Calls PROVE PayoutOK(d)'
    <2>1. PayoutOK(d) /\ (AtStep(d, "payout", "answered")' <=> AtStep(d, "payout", "answered"))
                      /\ (AtStep(d, "payout", "lost")' <=> AtStep(d, "payout", "lost"))
      BY <1>1 DEF IInv, PayoutPart, AtStep
    <2>2. CASE d = c
      BY <1>1, <1>3, <2>1, <2>2 DEF PayoutOK
    <2>3. CASE d # c
      BY <1>1, <1>3, <2>1, <2>3 DEF PayoutOK
    <2> QED BY <2>2, <2>3
  <1>9. ASSUME NEW t \in Tenants, NEW i \in IdempotencyKeys PROVE EntryOK(t, i)'
    <2> SUFFICES ASSUME idempotency[<<t, i>>] # None PROVE EntryOK(t, i)'
      BY <1>1 DEF EntryOK
    <2>1. EntryOK(t, i) /\ idempotency[<<t, i>>] \in Entry
      BY DEF IInv, PayoutPart, TypeOK
    <2>2. PICK d \in Calls : d = idempotency[<<t, i>>].response.payout
      BY <2>1 DEF Entry, Answer
    <2>3. CASE d = c
      BY <1>1, <1>3, <1>4, <2>1, <2>2, <2>3 DEF EntryOK
    <2>4. CASE d # c
      BY <1>1, <1>3, <2>1, <2>2, <2>4 DEF EntryOK
    <2> QED BY <2>3, <2>4
  <1> QED BY <1>5, <1>6, <1>7, <1>8, <1>9 DEF IInv, PayoutPart

\* The transaction inserts the payout and the key that names it.
LEMMA InsertPayoutKeeps ==
  ASSUME IInv, NEW c \in Calls, InsertPayout(c)
  PROVE  IInv'
  <1>1. /\ AtStep(c, "payout", "insert") /\ calls[c].action = "payout" /\ calls[c].step = "insert"
        /\ UNCHANGED adminVars /\ UNCHANGED <<now, keys>>
    BY DEF InsertPayout, AtStep, adminVars
  <1>2. payouts[c] = None /\ PayoutCallOK(c) /\ calls[c] \in PayoutCall
    BY <1>1, NotMade, CallKinds DEF IInv, PayoutPart
  <1>3. /\ Exists(calls[c].key) /\ ~calls[c].ended /\ idempotency[Scope(c)] = None
        /\ calls[c].tenant = TenantOf[keys[calls[c].key].client]
        /\ \A d \in Calls : AtStep(d, "payout", "insert") /\ Scope(d) = Scope(c) => d = c
    BY <1>1, <1>2 DEF PayoutCallOK
  <1>4. PICK tenant \in Tenants, i \in IdempotencyKeys, body \in Bodies, key \in Keys :
          /\ tenant = calls[c].tenant /\ i = calls[c].idempotencyKey
          /\ body = calls[c].body /\ key = calls[c].key
    BY <1>1, <1>2, ScopeTyped DEF PayoutCall
  <1>5. Scope(c) = <<tenant, i>>
    BY <1>4 DEF Scope
  <1> DEFINE rules == MatchingRules(tenant, body)
             status == IF rules = {} THEN "queued" ELSE "needs_approval"
             rule == IF rules = {} THEN None ELSE CHOOSE r \in rules : TRUE
             answer == [payout |-> c, status |-> status]
             entry == [hash |-> body, response |-> answer]
             payout == [tenant |-> tenant, key |-> key, idempotencyKey |-> i, body |-> body,
                        status |-> status, rule |-> rule]
             call == [calls[c] EXCEPT !.step = "answered", !.answer = answer]
  <1>6. /\ payouts' = [payouts EXCEPT ![c] = payout]
        /\ idempotency' = [idempotency EXCEPT ![<<tenant, i>>] = entry]
        /\ calls' = [calls EXCEPT ![c] = call]
    BY <1>3, <1>4, <1>5 DEF InsertPayout, KeyStored
  <1>7. rules \subseteq Rules
    BY DEF MatchingRules
  <1> HIDE DEF rules
  <1>8. rule \in rules \cup {None} /\ (rule = None <=> rules = {})
    BY <1>7, TenantAssumption, IntakeAssumption DEF Rules
  <1>9. /\ status \in {"queued", "needs_approval"}
        /\ status = IF rule = None THEN "queued" ELSE "needs_approval"
    BY <1>8
  <1> HIDE DEF rule, status
  <1>10. answer \in Answer /\ answer.payout = c /\ answer.status = status
    BY <1>9 DEF Answer, Statuses
  <1> HIDE DEF answer
  <1>11. entry \in Entry /\ entry.hash = body /\ entry.response = answer /\ entry # None
    BY <1>10, NoneAssumption DEF Entry
  <1>12. /\ payout \in Payout /\ payout.tenant = tenant /\ payout.idempotencyKey = i
         /\ payout.body = body /\ payout.status = status /\ payout.rule = rule
    BY <1>7, <1>8, <1>9 DEF Payout, Statuses
  <1>13. payout # None
    BY <1>12, NoneAssumption
  <1>14. /\ call \in PayoutCall /\ call.action = "payout" /\ call.step = "answered" /\ call.key = key
         /\ call.tenant = tenant /\ call.idempotencyKey = i /\ call.body = body
         /\ call.ended = calls[c].ended /\ call.answer = answer
    BY <1>1, <1>2, <1>4, <1>10 DEF PayoutCall, PayoutSteps
  <1> HIDE DEF entry, payout, call
  <1>15. /\ payouts' \in [Calls -> Payout \cup {None}] /\ payouts'[c] = payout
         /\ \A d \in Calls \ {c} : payouts'[d] = payouts[d]
    BY <1>6, <1>12 DEF IInv, TypeOK
  <1>16. /\ idempotency' \in [Tenants \X IdempotencyKeys -> Entry \cup {None}]
         /\ idempotency'[<<tenant, i>>] = entry
         /\ \A t \in Tenants, j \in IdempotencyKeys :
              <<t, j>> # <<tenant, i>> => idempotency'[<<t, j>>] = idempotency[<<t, j>>]
    BY <1>6, <1>11 DEF IInv, TypeOK
  <1>17. /\ TypeOK' /\ AdminPart' /\ calls'[c] = call
         /\ \A d \in Calls \ {c} : calls'[d] = calls[d]
    BY <1>1, <1>6, <1>14, <1>15, <1>16, RequestMoves
  <1>18. PayoutCallOK(c)'
    <2>1. Scope(c)' = <<tenant, i>>
      BY <1>14, <1>17 DEF Scope
    <2> QED BY <1>1, <1>3, <1>4, <1>11, <1>14, <1>16, <1>17, <2>1 DEF PayoutCallOK, Exists
  <1>19. ASSUME NEW d \in Calls \ {c} PROVE PayoutCallOK(d)'
    <2> SUFFICES ASSUME calls[d].action = "payout" PROVE PayoutCallOK(d)'
      BY <1>17 DEF PayoutCallOK
    <2>1. calls'[d] = calls[d] /\ Scope(d)' = Scope(d) /\ PayoutCallOK(d)
      BY <1>17 DEF Scope, IInv, PayoutPart
    <2>2. CASE calls[d].step \in {"insert", "answered", "conflict"}
      <3>1. Scope(d) \in Tenants \X IdempotencyKeys
        BY <2>2, ScopeTyped
      <3>2. Scope(d) # Scope(c)
        BY <1>3, <2>1, <2>2 DEF PayoutCallOK, AtStep
      <3>3. idempotency'[Scope(d)'] = idempotency[Scope(d)]
        BY <1>5, <1>16, <2>1, <3>1, <3>2
      <3>4. ASSUME NEW e \in Calls, AtStep(e, "payout", "insert")', Scope(e)' = Scope(d),
                   calls[d].step = "insert"
            PROVE  e = d
        <4>1. e # c
          BY <1>14, <1>17, <3>4 DEF AtStep
        <4>2. AtStep(e, "payout", "insert") /\ Scope(e) = Scope(d)
          BY <1>17, <3>4, <4>1 DEF AtStep, Scope
        <4> QED BY <2>1, <3>4, <4>2 DEF PayoutCallOK
      <3> QED BY <1>1, <2>1, <2>2, <3>3, <3>4 DEF PayoutCallOK, Exists
    <2>3. CASE calls[d].step \notin {"insert", "answered", "conflict"}
      BY <1>1, <2>1, <2>3 DEF PayoutCallOK, Exists, Unended
    <2> QED BY <2>2, <2>3
  <1>20. PayoutOK(c)'
    <2>1. payouts'[c].tenant = tenant /\ payouts'[c].idempotencyKey = i /\ payouts'[c].body = body
      BY <1>12, <1>15
    <2>2. MatchingRules(payouts'[c].tenant, payouts'[c].body) = rules
      BY <2>1 DEF rules
    <2>3. (AtStep(c, "payout", "answered"))' /\ ~calls'[c].ended
      BY <1>3, <1>14, <1>17 DEF AtStep
    <2>4. /\ idempotency'[<<payouts'[c].tenant, payouts'[c].idempotencyKey>>] = entry
          /\ entry.response.payout = c
      BY <1>10, <1>11, <1>16, <2>1
    <2>5. /\ payouts'[c].rule \in rules \cup {None}
          /\ payouts'[c].rule = None => rules = {} /\ payouts'[c].status # "needs_approval"
      BY <1>8, <1>9, <1>12, <1>15
    <2> QED BY <1>11, <2>2, <2>3, <2>4, <2>5 DEF PayoutOK
  <1>21. ASSUME NEW d \in Calls \ {c} PROVE PayoutOK(d)'
    <2> SUFFICES ASSUME payouts[d] # None PROVE PayoutOK(d)'
      BY <1>15 DEF PayoutOK
    <2>1. PayoutOK(d) /\ payouts'[d] = payouts[d] /\ calls'[d] = calls[d] /\ payouts[d] \in Payout
      BY <1>15, <1>17 DEF IInv, PayoutPart, TypeOK
    <2>2. /\ idempotency[<<payouts[d].tenant, payouts[d].idempotencyKey>>] # None
          /\ payouts[d].tenant \in Tenants /\ payouts[d].idempotencyKey \in IdempotencyKeys
      BY <2>1 DEF PayoutOK, Payout
    <2>3. idempotency'[<<payouts[d].tenant, payouts[d].idempotencyKey>>]
            = idempotency[<<payouts[d].tenant, payouts[d].idempotencyKey>>]
      BY <1>3, <1>5, <1>16, <2>2
    <2>4. (AtStep(d, "payout", "answered") \/ AtStep(d, "payout", "lost"))' /\ ~calls'[d].ended
      BY <2>1 DEF PayoutOK, AtStep
    <2> QED BY <2>1, <2>3, <2>4 DEF PayoutOK
  <1>22. ASSUME NEW t \in Tenants, NEW j \in IdempotencyKeys PROVE EntryOK(t, j)'
    <2>1. CASE <<t, j>> = <<tenant, i>>
      <3>1. idempotency'[<<t, j>>] = entry /\ entry.response.payout = c /\ t = tenant /\ j = i
        BY <1>10, <1>11, <1>16, <2>1
      <3> QED BY <1>9, <1>10, <1>11, <1>12, <1>13, <1>15, <3>1 DEF EntryOK
    <2>2. CASE <<t, j>> # <<tenant, i>>
      <3>1. idempotency'[<<t, j>>] = idempotency[<<t, j>>]
        BY <1>16, <2>2
      <3> SUFFICES ASSUME idempotency[<<t, j>>] # None PROVE EntryOK(t, j)'
        BY <3>1 DEF EntryOK
      <3>2. EntryOK(t, j) /\ idempotency[<<t, j>>] \in Entry
        BY DEF IInv, PayoutPart, TypeOK
      <3>3. PICK d \in Calls : d = idempotency[<<t, j>>].response.payout
        BY <3>2 DEF Entry, Answer
      <3>4. d # c
        BY <1>2, <3>2, <3>3 DEF EntryOK
      <3> QED BY <1>15, <3>1, <3>2, <3>3, <3>4 DEF EntryOK
    <2> QED BY <2>1, <2>2
  <1> QED BY <1>17, <1>18, <1>19, <1>20, <1>21, <1>22 DEF IInv, PayoutPart

LEMMA NextKeeps == IInv /\ [Next]_vars => IInv'
  <1> SUFFICES ASSUME IInv, [Next]_vars PROVE IInv'
    OBVIOUS
  <1>1. ASSUME NEW c \in Calls, PayoutRequest(c) PROVE IInv'
    BY <1>1, ArriveKeeps, AuthenticateKeeps, RequireTenantKeeps, LookupIdempotencyKeyKeeps,
       InsertPayoutKeeps, PayoutCallFailsKeeps, LoseAnswerKeeps DEF PayoutRequest
  <1>2. ASSUME UNCHANGED vars PROVE IInv'
    <2>1. UNCHANGED <<now, tenants, members, clients, keys, audit, calls, payouts, idempotency>>
      BY <1>2 DEF vars, tenantVars, adminVars
    <2>2. TypeOK' /\ now' >= now
      BY <2>1, TenantAssumption DEF IInv, TypeOK, AdminTypeOK
    <2>3. PayoutPart'
      BY <2>1, <2>2, PayoutPartKept
    <2>4. AdminPart'
      BY <2>1, <2>2, AdminPartKept
    <2> QED BY <2>2, <2>3, <2>4 DEF IInv
  <1> QED BY <1>1, <1>2, MovePayoutKeeps, AdminNextKeeps DEF Next

-----------------------------------------------------------------------------
(* The theorems *)

\* The invariant holds in every state that calls, failures and the passing of
\* time lead to.
THEOREM InductiveInvariant == Spec => []IInv
  <1> QED BY InitIInv, NextKeeps, PTL DEF Spec

\* Every row has the columns' types, and every call one of the shapes of its kind.
THEOREM TypeCorrect == Spec => []TypeOK
  <1>1. IInv => TypeOK
    BY DEF IInv
  <1> QED BY <1>1, InductiveInvariant, PTL

LEMMA OnePayout == IInv => OnePayoutPerKey
  <1> SUFFICES ASSUME IInv PROVE OnePayoutPerKey
    OBVIOUS
  <1>1. ASSUME NEW c \in Made, NEW d \in Made,
               payouts[c].tenant = payouts[d].tenant,
               payouts[c].idempotencyKey = payouts[d].idempotencyKey
        PROVE  c = d
    <2>1. /\ c \in Calls /\ payouts[c] # None /\ PayoutOK(c)
          /\ d \in Calls /\ payouts[d] # None /\ PayoutOK(d)
      BY DEF Made, IInv, PayoutPart
    <2> QED BY <1>1, <2>1 DEF PayoutOK
  <1>2. ASSUME NEW c \in Calls, calls[c].action = "payout", calls[c].step \in {"answered", "conflict"}
        PROVE  \E d \in Made, entry \in Entry :
                 /\ entry = idempotency[Scope(c)] /\ d = entry.response.payout
                 /\ payouts[d].tenant = calls[c].tenant
                 /\ payouts[d].idempotencyKey = calls[c].idempotencyKey
                 /\ payouts[d].body = entry.hash
                 /\ entry.response.status = IF payouts[d].rule = None THEN "queued" ELSE "needs_approval"
    <2>1. /\ PayoutCallOK(c) /\ Scope(c) = <<calls[c].tenant, calls[c].idempotencyKey>>
          /\ idempotency[Scope(c)] \in Entry \cup {None}
          /\ calls[c].tenant \in Tenants /\ calls[c].idempotencyKey \in IdempotencyKeys
      BY <1>2, ScopeTyped DEF IInv, PayoutPart, Scope
    <2>2. idempotency[Scope(c)] # None /\ EntryOK(calls[c].tenant, calls[c].idempotencyKey)
      BY <1>2, <2>1 DEF PayoutCallOK, IInv, PayoutPart
    <2>3. PICK entry \in Entry : entry = idempotency[Scope(c)]
      BY <2>1, <2>2
    <2>4. PICK d \in Calls : d = entry.response.payout
      BY DEF Entry, Answer
    <2>5. d \in Made
      BY <2>1, <2>2, <2>3, <2>4 DEF EntryOK, Made
    <2> QED BY <2>1, <2>2, <2>3, <2>4, <2>5 DEF EntryOK
  <1>3. ASSUME NEW c \in {d \in Calls : calls[d].action = "payout" /\ calls[d].step = "answered"}
        PROVE  LET made == calls[c].answer.payout
               IN /\ made \in Made
                  /\ payouts[made].tenant = TenantOf[keys[calls[c].key].client]
                  /\ payouts[made].idempotencyKey = calls[c].idempotencyKey
                  /\ payouts[made].body = calls[c].body
                  /\ calls[c].answer.status =
                       IF payouts[made].rule = None THEN "queued" ELSE "needs_approval"
    <2>1. PayoutCallOK(c)
      BY DEF IInv, PayoutPart
    <2> QED BY <1>2, <2>1 DEF PayoutCallOK
  <1>4. ASSUME NEW c \in {d \in Calls : calls[d].action = "payout" /\ calls[d].step = "conflict"}
        PROVE  \E d \in Made : /\ payouts[d].tenant = calls[c].tenant
                               /\ payouts[d].idempotencyKey = calls[c].idempotencyKey
                               /\ payouts[d].body # calls[c].body
    <2>1. PayoutCallOK(c)
      BY DEF IInv, PayoutPart
    <2> QED BY <1>2, <2>1 DEF PayoutCallOK
  <1>5. ASSUME NEW c \in Calls PROVE calls[c].step # "duplicate"
    <2>1. calls[c].action = "payout" => calls[c].step # "duplicate"
      BY DEF IInv, PayoutPart, PayoutCallOK
    <2>2. calls[c] \in Idle \cup {Over} \cup AdminCall => calls[c].step # "duplicate"
      BY DEF Idle, Over, AdminCall, AdminSteps
    <2>3. calls[c] \in PayoutCall => calls[c].action = "payout"
      BY DEF PayoutCall
    <2> QED BY <2>1, <2>2, <2>3 DEF IInv, TypeOK
  <1> QED BY <1>1, <1>3, <1>4, <1>5 DEF OnePayoutPerKey

\* However often and by however many requests an idempotency key is used, it
\* makes one payout; the answers and the conflicts are right; and the range lock
\* of the first SELECT keeps the unique constraint from ever being met.
THEOREM OnePayoutPerKeyHolds == Spec => []OnePayoutPerKey
  <1> QED BY OnePayout, InductiveInvariant, PTL

LEMMA HeldRight == IInv => HeldByTheRightRule
  <1> SUFFICES ASSUME IInv, NEW c \in Made
               PROVE  LET asking == {r \in Rules : /\ RiskRules[r].tenant \in {payouts[c].tenant, None}
                                                   /\ Matches(r, payouts[c].body)}
                          own == {r \in asking : RiskRules[r].tenant # None}
                      IN /\ payouts[c].rule \in asking \cup {None}
                         /\ payouts[c].rule = None => asking = {} /\ payouts[c].status # "needs_approval"
                         /\ own # {} => payouts[c].rule \in own
    BY DEF HeldByTheRightRule
  <1>1. c \in Calls /\ payouts[c] # None /\ payouts[c] \in Payout /\ PayoutOK(c)
    BY DEF Made, IInv, TypeOK, PayoutPart
  <1>2. PICK t \in Tenants, body \in Bodies : t = payouts[c].tenant /\ body = payouts[c].body
    BY <1>1 DEF Payout
  <1> DEFINE rules == MatchingRules(t, body)  asking == Asking(t, body)
  <1>3. /\ rules \subseteq asking /\ (rules = {} => asking = {})
        /\ \A i \in rules, j \in asking : RiskRules[j].tenant # None => RiskRules[i].tenant # None
    BY MatchingRulesAsk
  <1>4. /\ payouts[c].rule \in rules \cup {None}
        /\ payouts[c].rule = None => rules = {} /\ payouts[c].status # "needs_approval"
    BY <1>1, <1>2 DEF PayoutOK
  <1>5. asking = {r \in Rules : /\ RiskRules[r].tenant \in {payouts[c].tenant, None}
                                /\ Matches(r, payouts[c].body)}
    BY <1>2 DEF Asking
  <1> HIDE DEF rules, asking
  <1> QED BY <1>3, <1>4, <1>5

\* A payout is held exactly if a rule asks for it, under a rule of its own tenant
\* if one of these asks: whatever the rules are.
THEOREM HeldByTheRightRuleHolds == Spec => []HeldByTheRightRule
  <1> QED BY HeldRight, InductiveInvariant, PTL

\* No request that arrived with an ended key makes a payout.
THEOREM EndedKeyMakesNoPayoutHolds == Spec => []EndedKeyMakesNoPayout
  <1>1. IInv => EndedKeyMakesNoPayout
    BY DEF IInv, PayoutPart, PayoutOK, EndedKeyMakesNoPayout, Made
  <1> QED BY <1>1, InductiveInvariant, PTL

LEMMA ReplacementsCaused == IInv => ReplacementsHaveCause
  <1> SUFFICES ASSUME IInv, NEW k \in Keys
               PROVE  LET replacements == {n \in Keys : keys[n].replaces = k}
                          rotations == {c \in Calls : AtStep(c, "api_key.rotated", "done") /\ calls[c].on = k}
                          late == {c \in rotations : calls[c].late}
                      IN /\ replacements # {} => keys[k].revoked
                         /\ Cardinality(replacements) <= Cardinality(late) + 1
    BY DEF ReplacementsHaveCause
  <1>1. ReplacedOK(k)
    BY DEF IInv, AdminPart
  <1>2. Replacements(k) = {n \in Keys : keys[n].replaces = k}
    BY DEF Replacements
  <1>3. LateRotations(k) = {c \in {d \in Calls : AtStep(d, "api_key.rotated", "done") /\ calls[d].on = k} :
                              calls[c].late}
    BY DEF LateRotations
  <1> QED BY <1>1, <1>2, <1>3 DEF ReplacedOK

\* A key that has replacements is revoked, and all but one of them come from
\* rotations that were late.
THEOREM ReplacementsHaveCauseHolds == Spec => []ReplacementsHaveCause
  <1> QED BY ReplacementsCaused, InductiveInvariant, PTL

\* An update of a membership after which a tenant has no active owner, and before
\* which it had one, is of its only active owner; if that is what it saw, it had
\* counted another.
LEMMA OwnerLost ==
  ASSUME IInv, NEW c \in Calls, WriteMembership(c), NEW t \in Tenants,
         ActiveOwners(t) # {}, ActiveOwners(t)' = {}
  PROVE  /\ AtStep(c, "membership.updated", "update") /\ calls'[c] # calls[c]
         /\ ActiveOwners(t) = {calls[c].on}
         /\ calls[c].seen = members[calls[c].on] => calls[c].others \ ActiveOwners(t) # {}
  <1>1. /\ AtStep(c, "membership.updated", "update") /\ calls[c].step = "update" /\ ToAudit(c)
        /\ AdminCallOK(c)
    BY DEF WriteMembership, AtStep, IInv, AdminPart
  <1>2. calls[c] \in AdminCall /\ calls[c].wanted \in Wanted
    BY <1>1, CallKinds DEF IInv, AtStep, Actions, AdminCall
  <1>3. PICK m \in Members : m = calls[c].on
    BY <1>1 DEF AdminCallOK
  <1>4. calls'[c] # calls[c]
    <2>1. calls'[c].step = "audit"
      BY <1>1 DEF ToAudit, Admin, IInv, TypeOK
    <2> QED BY <1>1, <2>1
  <1>5. /\ members[m] \in Member
        /\ members' = [members EXCEPT ![m].role = Coalesce(calls[c].wanted.role, @),
                                      ![m].status = Coalesce(calls[c].wanted.status, @)]
    BY <1>3 DEF WriteMembership, IInv, TypeOK, AdminTypeOK
  <1>6. /\ \A n \in Members \ {m} : members'[n] = members[n]
        /\ members'[m].role = Coalesce(calls[c].wanted.role, members[m].role)
        /\ members'[m].status = Coalesce(calls[c].wanted.status, members[m].status)
        /\ members'[m] \in Member
    BY <1>2, <1>5 DEF Member, Wanted, Coalesce, IInv, TypeOK, AdminTypeOK
  <1>7. ActiveOwners(t) = {m}
    <2>1. \A n \in Members \ {m} : n \notin ActiveOwners(t)
      BY <1>6 DEF ActiveOwners, ActiveOwner
    <2> QED BY <2>1 DEF ActiveOwners
  <1>8. ASSUME calls[c].seen = members[m] PROVE calls[c].others \ {m} # {}
    <2>1. TenantOf[m] = t /\ members[m] = [role |-> "merchant_owner", status |-> "active"]
      BY <1>7 DEF ActiveOwners, ActiveOwner
    <2>2. members'[m] # [role |-> "merchant_owner", status |-> "active"]
      BY <2>1 DEF ActiveOwners, ActiveOwner
    <2>3. ~(members'[m].role = "merchant_owner" /\ members'[m].status = "active")
      BY <1>6, <2>2 DEF Member
    <2>4. calls[c].wanted.role = "developer" \/ calls[c].wanted.status \notin {None, "active"}
      BY <1>2, <1>6, <2>1, <2>3 DEF Coalesce, Wanted, Roles
    <2>5. calls[c].others # {} /\ m \notin calls[c].others
      BY <1>1, <1>3, <1>8, <2>1, <2>4 DEF AdminCallOK, Removes
    <2> QED BY <2>5
  <1> QED BY <1>1, <1>3, <1>4, <1>7, <1>8

\* No other step takes a tenant's active owners away.
LEMMA OwnersStay ==
  ASSUME IInv, [Next]_vars, \A c \in Calls : ~WriteMembership(c), NEW t \in Tenants
  PROVE  ActiveOwners(t) \subseteq ActiveOwners(t)'
  <1>1. members \in [Members -> Member]
    BY DEF IInv, TypeOK, AdminTypeOK
  <1>2. ASSUME NEW c \in Calls, NEW u \in Tenants, NEW m \in Members, CreateTenant(c, u, m)
        PROVE  ActiveOwners(t) \subseteq ActiveOwners(t)'
    <2>1. members' = [members EXCEPT ![m] = [role |-> "merchant_owner", status |-> "active"]]
      BY <1>2 DEF CreateTenant
    <2> QED BY <1>1, <2>1 DEF ActiveOwners, ActiveOwner
  <1>3. ASSUME NEW c \in Calls, InsertMembership(c)
        PROVE  ActiveOwners(t) \subseteq ActiveOwners(t)'
    <2>1. CASE members' = [members EXCEPT ![calls[c].on] = calls[c].wanted]
               /\ members[calls[c].on].status = "absent"
      BY <1>1, <2>1 DEF ActiveOwners, ActiveOwner
    <2>2. CASE UNCHANGED members
      BY <2>2 DEF ActiveOwners, ActiveOwner
    <2> QED BY <1>3, <2>1, <2>2 DEF InsertMembership
  <1>4. UNCHANGED members => ActiveOwners(t) \subseteq ActiveOwners(t)'
    BY DEF ActiveOwners, ActiveOwner
  <1>5. ASSUME NEW c \in Calls, PayoutRequest(c) \/ MovePayout(c) PROVE UNCHANGED members
    BY <1>5 DEF PayoutRequest, Arrive, Authenticate, RequireTenant, LookupIdempotencyKey,
                InsertPayout, PayoutCallFails, LoseAnswer, MovePayout, tenantVars, adminVars
  <1>6. ASSUME NEW c \in Calls, ClientCall(c) \/ KeyCall(c) \/ WriteAudit(c) \/ CallFails(c)
        PROVE  UNCHANGED members
    BY <1>6 DEF ClientCall, CreateApiClient, UpdateApiClient, KeyCall, CreateApiKey,
                FindKeyToRotate, FindKeyToRevoke, RotateApiKey, RevokeApiKey, WriteAudit,
                CallFails, adminVars
  <1>7. ASSUME NEW c \in Calls, MembershipCall(c)
        PROVE  UNCHANGED members \/ InsertMembership(c)
    BY <1>7 DEF MembershipCall, FindMembershipByEmail, FindMembership, CountOtherActiveOwners,
                adminVars
  <1>8. ASSUME NEW c \in Calls, TenantCall(c)
        PROVE  UNCHANGED members \/ \E u \in Tenants, m \in Members : CreateTenant(c, u, m)
    BY <1>8 DEF TenantCall, UpdateTenant
  <1>9. (Tick \/ UNCHANGED vars) => UNCHANGED members
    BY DEF Tick, vars, tenantVars, adminVars
  <1> QED BY <1>2, <1>3, <1>4, <1>5, <1>6, <1>7, <1>8, <1>9 DEF Next, AdminNext

\* A tenant loses its last active owner only by an update that relies on what it
\* read before and is no longer so.
THEOREM LastOwnerLostToStaleReadHolds == Spec => LastOwnerLostToStaleRead
  <1>1. ASSUME IInv, [Next]_vars, NEW t \in Tenants, ActiveOwners(t) # {}, ActiveOwners(t)' = {}
        PROVE  \E c \in Calls :
                 /\ AtStep(c, "membership.updated", "update") /\ calls'[c] # calls[c]
                 /\ ActiveOwners(t) = {calls[c].on}
                 /\ calls[c].seen = members[calls[c].on] =>
                      calls[c].others \ ActiveOwners(t) # {}
    <2>1. PICK c \in Calls : WriteMembership(c)
      BY <1>1, OwnersStay
    <2> QED BY <1>1, <2>1, OwnerLost
  <1>2. IInv /\ [Next]_vars =>
          [members' # members => \A t \in Tenants :
             ActiveOwners(t) # {} /\ ActiveOwners(t)' = {} =>
               \E c \in Calls :
                 /\ AtStep(c, "membership.updated", "update") /\ calls'[c] # calls[c]
                 /\ ActiveOwners(t) = {calls[c].on}
                 /\ calls[c].seen = members[calls[c].on] =>
                      calls[c].others \ ActiveOwners(t) # {}]_tenantVars
    BY <1>1
  <1> QED BY <1>2, InductiveInvariant, PTL DEF Spec, LastOwnerLostToStaleRead

=============================================================================
