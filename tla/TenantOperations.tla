-------------------------- MODULE TenantOperations --------------------------
(***************************************************************************)
(* What administrators and tenant owners do through the API: tenants,      *)
(* memberships, API clients and API keys.  Several calls run at a time,    *)
(* and most of them read first and write later without a transaction, so   *)
(* each SQL statement is a step of its own.  The entry in the audit log    *)
(* follows in one more step, except where a transaction holds both.        *)
(*                                                                         *)
(* Names, emails and permissions are left out: no other statement reads    *)
(* what these calls write there.  A key's tenant is that of its client.    *)
(* PayoutIntake extends this module with the calls that use the keys.      *)
(***************************************************************************)
EXTENDS Naturals, FiniteSets

CONSTANTS
  Calls,      \* bound: the calls that the API gets, each made once
  Tenants,   \* dbo.tenants
  Members,   \* dbo.user_memberships: pairs of a tenant and an email
  Clients,   \* dbo.api_clients
  Keys,      \* dbo.api_keys
  TenantOf,  \* the tenant of each member and client
  Owners,    \* the members that own their tenant at the start
  Scenarios, \* bound: which keys exist at the start, and what each call may be
  EndOfTime, \* bound: the clock stops there, and all expiry dates are before
  Edits,     \* bound: what createMembership and updateMembership are asked to write
  None       \* SQL NULL, and "no such thing"

Families == {"tenant", "membership", "client", "key", "payout"}

Roles == {"merchant_owner", "developer"}

MemberStatuses == {"absent", "active", "invited", "disabled"}

\* What updateMembership is asked to write; NULL keeps the column.
Wanted == [role : Roles \cup {None}, status : (MemberStatuses \ {"absent"}) \cup {None}]

ASSUME TenantAssumption ==
  /\ Edits \subseteq Wanted
  /\ TenantOf \in [Members \cup Clients -> Tenants]
  /\ Owners \subseteq Members
  /\ Scenarios \subseteq [issued : [Keys -> Clients \cup {None}],
                        may : [Calls -> SUBSET Families]]
  /\ \A s \in Scenarios, k \in Keys : s.issued[k] # None =>
       \E m \in Owners : TenantOf[m] = TenantOf[s.issued[k]]
  /\ EndOfTime \in Nat
  /\ Members \cap Clients = {}
  /\ None \notin Clients \cup Keys \cup Nat

VARIABLES
  now,       \* SYSUTCDATETIME()
  tenants,   \* dbo.tenants.status
  members,   \* dbo.user_memberships
  clients,   \* dbo.api_clients.status
  keys,      \* dbo.api_keys
  audit,     \* dbo.audit_logs: what was done to what
  calls      \* what each call is doing

adminVars == <<now, tenants, members, clients, keys, audit>>
tenantVars == <<adminVars, calls>>

-----------------------------------------------------------------------------
(* Values *)

\* "absent" stands for a row that does not exist.  "archived" is left out: every
\* statement treats it like "suspended".
TenantStatuses == {"absent", "active", "suspended"}

Member == [role : Roles, status : MemberStatuses]

ClientStatuses == {"absent", "active", "disabled"}

Expiries == (1 .. EndOfTime) \cup {None}

\* replaces is no column: it is the key whose rotation made this one.
Key ==
  [client : Clients \cup {None}, revoked : BOOLEAN, expiresAt : Expiries,
   replaces : Keys \cup {None}]

NoKey == [client |-> None, revoked |-> FALSE, expiresAt |-> None, replaces |-> None]

Exists(k) == keys[k].client # None

ActiveOwner(m) == members[m] = [role |-> "merchant_owner", status |-> "active"]

ActiveOwners(t) == {m \in Members : TenantOf[m] = t /\ ActiveOwner(m)}

Things == Tenants \cup Members \cup Clients \cup Keys

Actions ==
  {"tenant.created", "tenant.updated", "membership.created", "membership.updated",
   "api_client.created", "api_client.updated", "api_key.created",
   "api_key.rotated", "api_key.revoked"}

AdminSteps == {"insert", "count", "update", "rotate", "audit", "done", "unaudited"}

\* seen: the membership that was read; others: what countOtherActiveOwners found;
\* late: the UPDATE of a rotation met a key that was revoked already.
AdminCall ==
  [action : Actions, on : Things, step : AdminSteps, wanted : Wanted,
   seen : Member, others : SUBSET Members, expiresAt : Expiries, late : BOOLEAN]

\* A call that has not begun.
Idle == [action : {"none"}, step : {"idle"}, may : SUBSET Families]

\* A call that is over, of which nothing needs to be remembered: what it did is in
\* the tables, and an error that left nothing behind is forgotten too.
Over == [action |-> "none", step |-> "over"]

AbsentMember == [role |-> "developer", status |-> "absent"]

Admin(action, on, step) ==
  [action |-> action, on |-> on, step |-> step,
   wanted |-> [role |-> None, status |-> None], seen |-> AbsentMember,
   others |-> {}, expiresAt |-> None, late |-> FALSE]

AdminTypeOK ==
  /\ now \in 0 .. EndOfTime
  /\ tenants \in [Tenants -> TenantStatuses]
  /\ members \in [Members -> Member]
  /\ clients \in [Clients -> ClientStatuses]
  /\ keys \in [Keys -> Key]
  /\ audit \subseteq Actions \X Things

\* The tenants that exist have owners; their clients that have keys exist too.
AdminInit ==
  /\ now = 0
  /\ members = [m \in Members |->
       IF m \in Owners THEN [role |-> "merchant_owner", status |-> "active"]
       ELSE AbsentMember]
  /\ tenants = [t \in Tenants |->
       IF \E m \in Owners : TenantOf[m] = t THEN "active" ELSE "absent"]
  /\ \E s \in Scenarios :
       /\ keys = [k \in Keys |-> [NoKey EXCEPT !.client = s.issued[k]]]
       /\ calls = [c \in Calls |-> [action |-> "none", step |-> "idle", may |-> s.may[c]]]
  /\ clients = [c \in Clients |->
       IF \E k \in Keys : keys[k].client = c THEN "active" ELSE "absent"]
  /\ audit = {}

-----------------------------------------------------------------------------
(* Tenants *)

Start(c, family, call) ==
  /\ calls[c].step = "idle"
  /\ family \in calls[c].may
  /\ calls' = [calls EXCEPT ![c] = call]

End(c) == calls' = [calls EXCEPT ![c] = Over]

\* The process forgets what it has read.
ToAudit(c) == calls' = [calls EXCEPT ![c] = Admin(@.action, @.on, "audit")]

AtStep(c, action, step) == calls[c].action = action /\ calls[c].step = step

\* createTenant: one transaction for the tenant, its first owner and the audit.
CreateTenant(c, t, m) ==
  /\ tenants[t] = "absent"
  /\ TenantOf[m] = t
  /\ Start(c, "tenant", Over)
  /\ tenants' = [tenants EXCEPT ![t] = "active"]
  /\ members' = [members EXCEPT ![m] = [role |-> "merchant_owner", status |-> "active"]]
  /\ audit' = audit \cup {<<"tenant.created", t>>}
  /\ UNCHANGED <<now, clients, keys>>

UpdateTenant(c, t, status) ==
  /\ tenants[t] # "absent"
  /\ Start(c, "tenant", Admin("tenant.updated", t, "audit"))
  /\ tenants' = [tenants EXCEPT ![t] = status]
  /\ UNCHANGED <<now, members, clients, keys, audit>>

\* writeAuditLog, for whatever the call has done before.
WriteAudit(c) ==
  /\ calls[c].step = "audit"
  /\ audit' = audit \cup {<<calls[c].action, calls[c].on>>}
  /\ End(c)
  /\ UNCHANGED <<now, tenants, members, clients, keys>>

\* A statement fails, or the process dies: what was committed stays.
CallFails(c) ==
  /\ calls[c].step \in {"insert", "count", "update", "rotate", "audit"}
  /\ calls[c].action \in Actions
  /\ IF AtStep(c, "api_key.revoked", "audit")
     THEN calls' = [calls EXCEPT ![c].step = "unaudited"] ELSE End(c)
  /\ UNCHANGED adminVars

-----------------------------------------------------------------------------
(* Memberships *)

\* createMembership first looks for the email.
FindMembershipByEmail(c, m, wanted) ==
  /\ tenants[TenantOf[m]] # "absent"
  /\ members[m].status = "absent"
  /\ None \notin {wanted.role, wanted.status}
  /\ Start(c, "membership", [Admin("membership.created", m, "insert") EXCEPT !.wanted = wanted])
  /\ UNCHANGED adminVars

\* The INSERT fails on uq_user_memberships_tenant_email if another came first.
InsertMembership(c) ==
  LET m == calls[c].on
  IN /\ AtStep(c, "membership.created", "insert")
     /\ IF members[m].status = "absent"
        THEN /\ members' = [members EXCEPT ![m] = calls[c].wanted]
             /\ ToAudit(c)
        ELSE End(c) /\ UNCHANGED members
     /\ UNCHANGED <<now, tenants, clients, keys, audit>>

\* updateMembership reads the row and decides from it whether to count.
FindMembership(c, m, wanted) ==
  LET removesActiveOwner ==
        /\ ActiveOwner(m)
        /\ wanted.role = "developer" \/ wanted.status \notin {None, "active"}
  IN /\ members[m].status # "absent"
     /\ wanted # [role |-> None, status |-> None]
     /\ Start(c, "membership", [Admin("membership.updated", m,
                        IF removesActiveOwner THEN "count" ELSE "update")
                    EXCEPT !.wanted = wanted, !.seen = members[m]])
     /\ UNCHANGED adminVars

\* Mutant of OtherActiveOwners: the member is counted too.
OtherActiveOwnersWithSelf(m) == ActiveOwners(TenantOf[m])

OtherActiveOwners(m) == ActiveOwners(TenantOf[m]) \ {m}

\* countOtherActiveOwners, and the refusal if there are none.
CountOtherActiveOwners(c) ==
  LET others == OtherActiveOwners(calls[c].on)
  IN /\ AtStep(c, "membership.updated", "count")
     /\ IF others = {} THEN End(c)
        ELSE calls' = [calls EXCEPT ![c].step = "update", ![c].others = others]
     /\ UNCHANGED adminVars

\* Mutant of Coalesce: what is not asked for becomes NULL.
CoalesceNot(value, column) == value

Coalesce(value, column) == IF value = None THEN column ELSE value

\* The UPDATE matches the id alone.
WriteMembership(c) ==
  /\ AtStep(c, "membership.updated", "update")
  /\ members' = [members EXCEPT
       ![calls[c].on].role = Coalesce(calls[c].wanted.role, @),
       ![calls[c].on].status = Coalesce(calls[c].wanted.status, @)]
  /\ ToAudit(c)
  /\ UNCHANGED <<now, tenants, clients, keys, audit>>

-----------------------------------------------------------------------------
(* API clients and keys *)

CreateApiClient(c, client) ==
  /\ tenants[TenantOf[client]] # "absent"
  /\ clients[client] = "absent"
  /\ Start(c, "client", Admin("api_client.created", client, "audit"))
  /\ clients' = [clients EXCEPT ![client] = "active"]
  /\ UNCHANGED <<now, tenants, members, keys, audit>>

UpdateApiClient(c, client, status) ==
  /\ clients[client] # "absent"
  /\ Start(c, "client", Admin("api_client.updated", client, "audit"))
  /\ clients' = [clients EXCEPT ![client] = status]
  /\ UNCHANGED <<now, tenants, members, keys, audit>>

\* createApiKey asks neither for an active client nor for an active tenant.
CreateApiKey(c, k, client, expiresAt) ==
  /\ clients[client] # "absent"
  /\ ~Exists(k)
  /\ Start(c, "key", Admin("api_key.created", k, "audit"))
  /\ keys' = [keys EXCEPT ![k] = [NoKey EXCEPT !.client = client, !.expiresAt = expiresAt]]
  /\ UNCHANGED <<now, tenants, members, clients, audit>>

\* rotateApiKey and revokeApiKey read the key and refuse one that is revoked.
\* expiresAt is for the replacement: the expiry that was read, or another one.
FindKeyToRotate(c, k, expiresAt) ==
  /\ Exists(k) /\ ~keys[k].revoked
  /\ Start(c, "key", [Admin("api_key.rotated", k, "rotate") EXCEPT !.expiresAt = expiresAt])
  /\ UNCHANGED adminVars

\* Mutant of Revoked: the key is left to expire.
LeftToExpire(k) == [keys EXCEPT ![k].expiresAt = EndOfTime]

Revoked(k) == [keys EXCEPT ![k].revoked = TRUE]

\* One transaction: the UPDATE only touches a key that is not revoked, but the
\* rows it touched are not counted, and the replacement is inserted anyway.
RotateApiKey(c, new) ==
  LET k == calls[c].on
  IN /\ AtStep(c, "api_key.rotated", "rotate")
     /\ ~Exists(new)
     /\ keys' = [Revoked(k) EXCEPT ![new] =
          [client |-> keys[k].client, revoked |-> FALSE,
           expiresAt |-> calls[c].expiresAt, replaces |-> k]]
     /\ audit' = audit \cup {<<"api_key.rotated", k>>}
     /\ calls' = [calls EXCEPT ![c] =
          [Admin("api_key.rotated", k, "done") EXCEPT !.late = keys[k].revoked]]
     /\ UNCHANGED <<now, tenants, members, clients>>

FindKeyToRevoke(c, k) ==
  /\ Exists(k) /\ ~keys[k].revoked
  /\ Start(c, "key", Admin("api_key.revoked", k, "update"))
  /\ UNCHANGED adminVars

\* A key that was revoked meanwhile is left alone, and the audit entry follows
\* all the same; only then the missing row makes the call fail.
RevokeApiKey(c) ==
  /\ AtStep(c, "api_key.revoked", "update")
  /\ keys' = Revoked(calls[c].on)
  /\ ToAudit(c)
  /\ UNCHANGED <<now, tenants, members, clients, audit>>

Tick ==
  /\ now < EndOfTime
  /\ now' = now + 1
  /\ UNCHANGED <<tenants, members, clients, keys, audit, calls>>

-----------------------------------------------------------------------------
(* All calls *)

TenantCall(c) ==
  \/ \E t \in Tenants, m \in Members : CreateTenant(c, t, m)
  \/ \E t \in Tenants, status \in TenantStatuses \ {"absent"} : UpdateTenant(c, t, status)

MembershipCall(c) ==
  \/ \E m \in Members, wanted \in Edits :
       FindMembershipByEmail(c, m, wanted) \/ FindMembership(c, m, wanted)
  \/ InsertMembership(c)
  \/ CountOtherActiveOwners(c)
  \/ WriteMembership(c)

ClientCall(c) ==
  \E client \in Clients :
    \/ CreateApiClient(c, client)
    \/ \E status \in ClientStatuses \ {"absent"} : UpdateApiClient(c, client, status)

KeyCall(c) ==
  \/ \E k \in Keys, expiresAt \in Expiries :
       \/ \E client \in Clients : CreateApiKey(c, k, client, expiresAt)
       \/ FindKeyToRotate(c, k, expiresAt)
  \/ \E k \in Keys : FindKeyToRevoke(c, k) \/ RotateApiKey(c, k)
  \/ RevokeApiKey(c)

AdminNext ==
  \/ \E c \in Calls : TenantCall(c) \/ MembershipCall(c) \/ ClientCall(c) \/ KeyCall(c)
                      \/ WriteAudit(c) \/ CallFails(c)
  \/ Tick

-----------------------------------------------------------------------------
(* Properties *)

\* "A tenant must retain at least one active owner": the code counts in one
\* statement and updates in another.  A tenant loses its last active owner only
\* by an update that relies on what has changed since: the member was no active
\* owner when it was read, or other active owners were counted that are gone.
LastOwnerLostToStaleRead ==
  [][members' # members => \A t \in Tenants :
       ActiveOwners(t) # {} /\ ActiveOwners(t)' = {} =>
         \E c \in Calls :
           /\ AtStep(c, "membership.updated", "update") /\ calls'[c] # calls[c]
           /\ ActiveOwners(t) = {calls[c].on}
           /\ calls[c].seen = members[calls[c].on] =>
                calls[c].others \ ActiveOwners(t) # {}]_tenantVars

\* "Rotate atomically revokes and replaces a key": a key is replaced only when it
\* is revoked, and once; a second replacement, or one of a key that another call
\* revoked, comes from a rotation that read the key before and did not look
\* at what its UPDATE had done.
ReplacementsHaveCause ==
  \A k \in Keys :
    LET replacements == {n \in Keys : keys[n].replaces = k}
        rotations == {c \in Calls : AtStep(c, "api_key.rotated", "done") /\ calls[c].on = k}
        late == {c \in rotations : calls[c].late}
    IN /\ replacements # {} => keys[k].revoked
       /\ Cardinality(replacements) <= Cardinality(late) + 1

=============================================================================
