---------------------------- MODULE PayoutIntake ----------------------------
(***************************************************************************)
(* Payout requests of merchants, beside the calls of TenantOperations that *)
(* end and begin the access they rely on.  A request is authenticated by   *)
(* its key, its tenant is looked up, and one SERIALIZABLE transaction      *)
(* finds the idempotency key or inserts the payout: three reads at three   *)
(* moments.  The transaction is two steps, because its first SELECT locks  *)
(* the key's range until it ends.                                          *)
(*                                                                         *)
(* A payout is named by the request that made it, and a request by a call. *)
(* The request hash is the normalised body itself.  Ledger entries,        *)
(* history, outbox and audit rows are inserted with the payout and are not *)
(* touched here; PayoutDispatch has what becomes of them.  The times a key *)
(* and an idempotency key were last used are left out.                     *)
(***************************************************************************)
EXTENDS TenantOperations, Sequences

CONSTANTS
  IdempotencyKeys,  \* values of the Idempotency-Key header
  Bodies,           \* normalised requests: amount, currency, destination
  Folded,           \* each destination account in lower case
  RiskRules         \* active rows of dbo.risk_rules, the newest first

RuleTypes == {"amount_threshold", "blocked_destination"}

\* A rule without a tenant is for all of them, one without a currency for all
\* currencies.  Nothing in the API changes a rule.
ASSUME IntakeAssumption ==
  /\ \A b \in Bodies : b.amount \in Nat \ {0} /\ b.destination \in DOMAIN Folded
  /\ \A i \in DOMAIN RiskRules :
       /\ RiskRules[i].tenant \in Tenants \cup {None}
       /\ RiskRules[i].type \in RuleTypes
       /\ RiskRules[i].amount \in Nat \cup {None}
       /\ RiskRules[i].destination \in DOMAIN Folded \cup {None}
  /\ DOMAIN RiskRules \subseteq Nat
  /\ None \notin Calls \cup Bodies \cup Tenants

VARIABLES
  payouts,      \* dbo.payouts, by the call that made them
  idempotency   \* dbo.payout_idempotency_keys

vars == <<tenantVars, payouts, idempotency>>

-----------------------------------------------------------------------------
(* Values *)

\* "moved" stands for all the statuses that a payout gets later.
Statuses == {"needs_approval", "queued", "moved"}

Rules == DOMAIN RiskRules

Payout ==
  [tenant : Tenants, key : Keys, idempotencyKey : IdempotencyKeys, body : Bodies,
   status : Statuses, rule : Rules \cup {None}]

\* response_json, as far as it tells answers apart.
Answer == [payout : Calls, status : Statuses]

Entry == [hash : Bodies, response : Answer]

ASSUME NoneAssumption == None \notin Payout \cup Entry

PayoutSteps ==
  {"authenticate", "requireTenant", "lookup", "insert", "answered", "lost",
   "conflict", "duplicate"}

\* ended: the key had been revoked, or had expired, when the request arrived.
PayoutCall ==
  [action : {"payout"}, step : PayoutSteps, tenant : Tenants \cup {None}, key : Keys,
   idempotencyKey : IdempotencyKeys, body : Bodies, ended : BOOLEAN,
   answer : Answer \cup {None}]

TypeOK ==
  /\ AdminTypeOK
  /\ calls \in [Calls -> Idle \cup {Over} \cup AdminCall \cup PayoutCall]
  /\ payouts \in [Calls -> Payout \cup {None}]
  /\ idempotency \in [Tenants \X IdempotencyKeys -> Entry \cup {None}]

Init ==
  /\ AdminInit
  /\ payouts = [c \in Calls |-> None]
  /\ idempotency = [pair \in Tenants \X IdempotencyKeys |-> None]

-----------------------------------------------------------------------------
(* Risk rules *)

MatchesAmountThreshold(rule, body) ==
  /\ rule.amount # None
  /\ body.amount >= rule.amount
  /\ rule.currency \in {None, body.currency}

MatchesBlockedDestination(rule, body) ==
  /\ rule.destination # None
  /\ Folded[rule.destination] = Folded[body.destination]

Matches(i, body) ==
  CASE RiskRules[i].type = "amount_threshold" -> MatchesAmountThreshold(RiskRules[i], body)
    [] RiskRules[i].type = "blocked_destination" -> MatchesBlockedDestination(RiskRules[i], body)

\* Mutant of Before: NULL sorts first.
BeforeForAllFirst(i, j, t) ==
  LET own(r) == RiskRules[r].tenant = t
  IN IF own(i) = own(j) THEN i < j ELSE own(j)

\* The order of the query: the tenant's own rules before those for all.
Before(i, j, t) ==
  LET own(r) == RiskRules[r].tenant = t
  IN IF own(i) = own(j) THEN i < j ELSE own(i)

\* findMatchingRiskRule: the first rule in that order that matches.
MatchingRules(t, body) ==
  LET matching == {i \in Rules : RiskRules[i].tenant \in {t, None} /\ Matches(i, body)}
  IN {i \in matching : \A j \in matching : i = j \/ Before(i, j, t)}

-----------------------------------------------------------------------------
(* Requests *)

\* Mutant of Unended: only the expiry is looked at.
Unexpired(k) == keys[k].expiresAt = None \/ keys[k].expiresAt > now

\* revoked_at IS NULL and an expiry that has not passed.
Unended(k) ==
  /\ ~keys[k].revoked
  /\ keys[k].expiresAt = None \/ keys[k].expiresAt > now

\* A merchant sends a request with a key it was given, or sends it once more.
\* tenant is None if the path names another tenant than the key's.
Arrive(c, k, i, body) ==
  /\ Exists(k)
  /\ \E t \in {TenantOf[keys[k].client], None} :
       Start(c, "payout", [action |-> "payout", step |-> "authenticate", tenant |-> t, key |-> k,
                 idempotencyKey |-> i, body |-> body, answer |-> None,
                 ended |-> keys[k].revoked \/ keys[k].expiresAt \in 0 .. now])
  /\ UNCHANGED <<adminVars, payouts, idempotency>>

To(c, step) == calls' = [calls EXCEPT ![c].step = step]

\* findActiveApiKeyByHash, and assertTenantAccess of the payouts service.
Authenticate(c) ==
  LET k == calls[c].key
      client == keys[k].client
      t == TenantOf[client]
      accepted == /\ Unended(k)
                  /\ clients[client] = "active"
                  /\ tenants[t] = "active"
                  /\ t = calls[c].tenant
  IN /\ AtStep(c, "payout", "authenticate")
     /\ IF accepted THEN To(c, "requireTenant") ELSE End(c)
     /\ UNCHANGED <<adminVars, payouts, idempotency>>

\* requireTenant, on a connection of its own.
RequireTenant(c) ==
  /\ AtStep(c, "payout", "requireTenant")
  /\ IF tenants[calls[c].tenant] = "active" THEN To(c, "lookup") ELSE End(c)
  /\ UNCHANGED <<adminVars, payouts, idempotency>>

Scope(c) == <<calls[c].tenant, calls[c].idempotencyKey>>

\* Mutant of Locked: the SELECT takes no lock that lasts.
NeverLocked(pair) == FALSE

\* UPDLOCK, HOLDLOCK: the transaction keeps the key's range locked.
Locked(pair) == \E c \in Calls : AtStep(c, "payout", "insert") /\ Scope(c) = pair

\* Mutant of ReplayedAnswer: the payout is read again.
CurrentAnswer(entry) ==
  [entry.response EXCEPT !.status = payouts[entry.response.payout].status]

\* What is stored is what the first request was answered.
ReplayedAnswer(entry) == entry.response

\* The first SELECT of the transaction.  If it finds the key the transaction
\* ends here, with a conflict or with the stored answer.
LookupIdempotencyKey(c) ==
  LET entry == idempotency[Scope(c)]
  IN /\ AtStep(c, "payout", "lookup")
     /\ ~Locked(Scope(c))
     /\ CASE entry = None -> To(c, "insert")
          [] entry # None /\ entry.hash # calls[c].body -> To(c, "conflict")
          [] entry # None /\ entry.hash = calls[c].body ->
               calls' = [calls EXCEPT ![c].step = "answered",
                                      ![c].answer = ReplayedAnswer(entry)]
     /\ UNCHANGED <<adminVars, payouts, idempotency>>

\* The row that InsertPayout ends with.
KeyStored(c, answer) ==
  [idempotency EXCEPT ![Scope(c)] = [hash |-> calls[c].body, response |-> answer]]

\* The rest of the transaction.  uq_payout_idempotency_keys_tenant_key stands
\* behind the last INSERT; "duplicate" is the error it would raise.
InsertPayout(c) ==
  LET call == calls[c]
      rules == MatchingRules(call.tenant, call.body)
      status == IF rules = {} THEN "queued" ELSE "needs_approval"
      answer == [payout |-> c, status |-> status]
  IN /\ AtStep(c, "payout", "insert")
     /\ IF idempotency[Scope(c)] # None
        THEN To(c, "duplicate") /\ UNCHANGED <<payouts, idempotency>>
        ELSE /\ payouts' = [payouts EXCEPT ![c] =
                  [tenant |-> call.tenant, key |-> call.key,
                   idempotencyKey |-> call.idempotencyKey, body |-> call.body,
                   status |-> status,
                   rule |-> IF rules = {} THEN None ELSE CHOOSE r \in rules : TRUE]]
             /\ idempotency' = KeyStored(c, answer)
             /\ calls' = [calls EXCEPT ![c].step = "answered", ![c].answer = answer]
     /\ UNCHANGED adminVars

\* A statement fails and the transaction is rolled back, or the process dies.
PayoutCallFails(c) ==
  /\ calls[c].action = "payout"
  /\ calls[c].step \in {"authenticate", "requireTenant", "lookup", "insert"}
  /\ End(c)
  /\ UNCHANGED <<adminVars, payouts, idempotency>>

\* The answer does not reach the merchant, whatever was committed.
LoseAnswer(c) ==
  /\ AtStep(c, "payout", "answered")
  /\ calls' = [calls EXCEPT ![c].step = "lost", ![c].answer = None]
  /\ UNCHANGED <<adminVars, payouts, idempotency>>

\* Approval, dispatch and callbacks; see PayoutDispatch.
MovePayout(c) ==
  /\ payouts[c] # None
  /\ payouts[c].status # "moved"
  /\ payouts' = [payouts EXCEPT ![c].status = "moved"]
  /\ UNCHANGED <<tenantVars, idempotency>>

PayoutRequest(c) ==
  \/ \E k \in Keys, i \in IdempotencyKeys, body \in Bodies : Arrive(c, k, i, body)
  \/ Authenticate(c) \/ RequireTenant(c) \/ LookupIdempotencyKey(c) \/ InsertPayout(c)
  \/ PayoutCallFails(c) \/ LoseAnswer(c)

Next ==
  \/ \E c \in Calls : PayoutRequest(c) \/ MovePayout(c)
  \/ AdminNext /\ UNCHANGED <<payouts, idempotency>>

Spec == Init /\ [][Next]_vars

-----------------------------------------------------------------------------
(* Properties *)

Made == {c \in Calls : payouts[c] # None}

\* However often a request is sent, at once or again after a failure or a lost
\* answer, with this key or with its replacement: a tenant's idempotency key
\* makes one payout.  "Replaying the same key with the same payload returns the
\* original payout response, while reusing it with a different payload returns
\* a conflict": whoever is answered asked for that payout and learns the same,
\* whatever has become of it, and who gets a conflict asked for something else.
\* The range lock keeps everyone from meeting the unique constraint, which would
\* answer a repetition with an internal error.
OnePayoutPerKey ==
  /\ \A c, d \in Made :
       /\ payouts[c].tenant = payouts[d].tenant
       /\ payouts[c].idempotencyKey = payouts[d].idempotencyKey
       => c = d
  /\ \A c \in {d \in Calls : calls[d].action = "payout" /\ calls[d].step = "answered"} :
       LET made == calls[c].answer.payout
       IN /\ made \in Made
          /\ payouts[made].tenant = TenantOf[keys[calls[c].key].client]
          /\ payouts[made].idempotencyKey = calls[c].idempotencyKey
          /\ payouts[made].body = calls[c].body
          /\ calls[c].answer.status =
               IF payouts[made].rule = None THEN "queued" ELSE "needs_approval"
  /\ \A c \in {d \in Calls : calls[d].action = "payout" /\ calls[d].step = "conflict"} :
       \E d \in Made : /\ payouts[d].tenant = calls[c].tenant
                       /\ payouts[d].idempotencyKey = calls[c].idempotencyKey
                       /\ payouts[d].body # calls[c].body
  /\ \A c \in Calls : calls[c].step # "duplicate"

\* A payout is held exactly if a rule for its tenant asks for it, however many do,
\* and the operator is shown a rule of the tenant itself if one of these does.
HeldByTheRightRule ==
  \A c \in Made :
    LET asking == {r \in Rules : /\ RiskRules[r].tenant \in {payouts[c].tenant, None}
                                 /\ Matches(r, payouts[c].body)}
        own == {r \in asking : RiskRules[r].tenant # None}
    IN /\ payouts[c].rule \in asking \cup {None}
       /\ payouts[c].rule = None => asking = {} /\ payouts[c].status # "needs_approval"
       /\ own # {} => payouts[c].rule \in own

\* "Revoke a key immediately": no payout is made by a request that arrived after
\* its key had been revoked or rotated, or had expired, not even of a tenant that
\* was suspended and restored in between.  A request that was on its way is
\* allowed to finish.
EndedKeyMakesNoPayout == \A c \in Made : ~calls[c].ended
=============================================================================
