----------------------------- MODULE ApiStartup -----------------------------
(***************************************************************************)
(* How replicas of the API come up on one SQL Server: bootstrap creates    *)
(* the database, runs the migrations with retries, seeds the demo tenant   *)
(* and only then listens (bootstrap.ts, database.service.ts).  The same    *)
(* seeding runs for GET /v1/demo/dashboard and POST /v1/demo/seed while    *)
(* replicas serve (operations.repository.ts).                              *)
(*                                                                         *)
(* Nothing coordinates the replicas.  Every "IF ... IS NULL CREATE" and    *)
(* every "find, else insert" is two steps here, because another replica    *)
(* may come between them; SQL Server then rejects the second create or     *)
(* insert.  A migration is one transaction: its DDL locks keep a second    *)
(* replica out of the same batch until it ends.                            *)
(***************************************************************************)
EXTENDS Naturals, Sequences, FiniteSets

CONSTANTS
  Replicas,      \* processes of the API
  Callers,       \* requests that seed the demo tenant
  LastVersion,   \* number of migrations
  MaxAttempts,   \* attempts of initialize before it throws; 30 in the code
  MaxFaults,     \* bound on failing statements and crashes together
  MayDelete,     \* whether an operator deletes the demo webhook endpoint
  None

ASSUME StartupAssumption ==
  /\ LastVersion \in Nat \ {0} /\ MaxAttempts \in Nat \ {0} /\ MaxFaults \in Nat
  /\ MayDelete \in BOOLEAN
  /\ Replicas \cap Callers = {} /\ None \notin Replicas

VARIABLES
  database,      \* the database exists
  versionTable,  \* dbo.schema_migrations exists
  applied,       \* its rows
  schema,        \* migrations whose batch took effect
  runs,          \* ghost: how often the batch of a migration was committed
  tenant,        \* the demo tenant exists
  children,      \* rows of the demo tenant, soft-deleted ones included
  audited,       \* the rows with an entry in dbo.audit_logs
  deleted,       \* the demo webhook endpoint is soft-deleted
  proc,          \* where each replica and each request is
  faults         \* faults so far

vars == <<database, versionTable, applied, schema, runs, tenant, children,
          audited, deleted, proc, faults>>
dbVars == <<database, versionTable, applied, schema, runs>>
seedVars == <<tenant, children, audited, deleted>>

Actors == Replicas \cup Callers
Versions == 1..LastVersion

\* The order in which ensureDemoChildren looks after the tenant's rows.
Children == <<"client", "key", "rule", "endpoint">>
LastChild == 4

MigrationSteps == {"database", "createDatabase", "table", "createTable",
                   "migrate", "batch", "record", "commit"}
ChildSteps == {"find", "insert", "audit"}
SeedSteps == {"findTenant", "createTenant"} \cup ChildSteps
RestingSteps == {"down", "serving", "idle", "answered", "refused"}

Procs == [step : MigrationSteps \cup SeedSteps \cup RestingSteps,
          attempt : 1..MaxAttempts, version : 1..LastVersion + 1,
          child : 1..LastChild, at : Replicas \cup {None}]

Seeding(a) == proc[a].step \in SeedSteps
Child(a) == Children[proc[a].child]

AtStart(step) ==
  [step |-> step, attempt |-> 1, version |-> 1, child |-> 1, at |-> None]

Init ==
  /\ database = FALSE /\ versionTable = FALSE
  /\ applied = {} /\ schema = {} /\ runs = [v \in Versions |-> 0]
  /\ tenant = FALSE /\ children = {} /\ audited = {} /\ deleted = FALSE
  /\ proc = [a \in Actors |-> AtStart(IF a \in Replicas THEN "down" ELSE "idle")]
  /\ faults = 0

Goto(a, step) == proc' = [proc EXCEPT ![a].step = step]

-----------------------------------------------------------------------------
\* Mutant: one attempt too many.
InitializeFailsLate(r) ==
  IF proc[r].attempt <= MaxAttempts
  THEN proc' = [proc EXCEPT ![r] = [AtStart("database") EXCEPT !.attempt = proc[r].attempt + 1]]
  ELSE proc' = [proc EXCEPT ![r] = AtStart("down")]

\* initialize: up to MaxAttempts attempts, each from the start.  The last
\* failure is thrown on, which ends the process.
InitializeFails(r) ==
  IF proc[r].attempt < MaxAttempts
  THEN proc' = [proc EXCEPT ![r] = [AtStart("database") EXCEPT !.attempt = proc[r].attempt + 1]]
  ELSE proc' = [proc EXCEPT ![r] = AtStart("down")]

\* A process is started, by the first deployment or as a replacement.
StartProcess(r) ==
  /\ proc[r].step = "down"
  /\ proc' = [proc EXCEPT ![r] = AtStart("database")]
  /\ UNCHANGED <<dbVars, seedVars, faults>>

\* ensureDatabase: IF DB_ID(...) IS NULL ...
CheckDatabase(r) ==
  /\ proc[r].step = "database"
  /\ Goto(r, IF database THEN "table" ELSE "createDatabase")
  /\ UNCHANGED <<dbVars, seedVars, faults>>

\* ... CREATE DATABASE, which fails when another replica was faster.
CreateDatabase(r) ==
  /\ proc[r].step = "createDatabase"
  /\ \/ database /\ InitializeFails(r) /\ UNCHANGED database
     \/ ~database /\ database' = TRUE /\ Goto(r, "table")
  /\ UNCHANGED <<versionTable, applied, schema, runs, seedVars, faults>>

\* Mutant: without IF OBJECT_ID(...) IS NULL.
CheckVersionTableNever(r) ==
  /\ proc[r].step = "table"
  /\ Goto(r, "createTable")
  /\ UNCHANGED <<dbVars, seedVars, faults>>

CheckVersionTable(r) ==
  /\ proc[r].step = "table"
  /\ Goto(r, IF versionTable THEN "migrate" ELSE "createTable")
  /\ UNCHANGED <<dbVars, seedVars, faults>>

CreateVersionTable(r) ==
  /\ proc[r].step = "createTable"
  /\ \/ versionTable /\ InitializeFails(r) /\ UNCHANGED versionTable
     \/ ~versionTable /\ versionTable' = TRUE /\ Goto(r, "migrate")
  /\ UNCHANGED <<database, applied, schema, runs, seedVars, faults>>

\* Another replica has inserted the row of version v and not committed it yet.
RowLocked(v) == \E q \in Replicas : proc[q].step = "commit" /\ proc[q].version = v

\* Mutant: the loop ends before the last migration.
NextMigrationButLast(r) ==
  LET v == proc[r].version IN
  /\ proc[r].step = "migrate" /\ ~RowLocked(v)
  /\ \/ v >= LastVersion /\ Goto(r, "findTenant")
     \/ v < LastVersion /\ v \in applied /\ proc' = [proc EXCEPT ![r].version = v + 1]
     \/ v < LastVersion /\ v \notin applied /\ Goto(r, "batch")
  /\ UNCHANGED <<dbVars, seedVars, faults>>

\* The loop over the migrations: skip what has its row, open a transaction
\* for the rest; after the last one initialize is done and seeding starts.
\* The SELECT waits for a row that is not committed.
NextMigration(r) ==
  LET v == proc[r].version IN
  /\ proc[r].step = "migrate" /\ ~RowLocked(v)
  /\ \/ v > LastVersion /\ Goto(r, "findTenant")
     \/ v \in applied /\ proc' = [proc EXCEPT ![r].version = v + 1]
     \/ v <= LastVersion /\ v \notin applied /\ Goto(r, "batch")
  /\ UNCHANGED <<dbVars, seedVars, faults>>

\* Replica q holds the schema locks of the migration that r wants to run.
SchemaLocked(r) ==
  \E q \in Replicas \ {r} :
    proc[q].step \in {"record", "commit"} /\ proc[q].version = proc[r].version

\* The batch of the migration, inside the transaction.  Its guards (OBJECT_ID,
\* COL_LENGTH, NOT EXISTS) make it a no-op where the effects are committed.
RunBatch(r) ==
  /\ proc[r].step = "batch" /\ ~SchemaLocked(r)
  /\ Goto(r, "record")
  /\ UNCHANGED <<dbVars, seedVars, faults>>

\* Both replicas found the guards open: the slower batch creates what is
\* there by then, or is chosen as a deadlock victim.
BatchLosesRace(r) ==
  /\ proc[r].step = "batch" /\ SchemaLocked(r)
  /\ InitializeFails(r)
  /\ UNCHANGED <<dbVars, seedVars, faults>>

\* Mutant: schema_migrations without a primary key.
RecordVersionAgain(r) ==
  /\ proc[r].step = "record"
  /\ Goto(r, "commit")
  /\ UNCHANGED <<dbVars, seedVars, faults>>

\* INSERT INTO schema_migrations: the primary key rejects a second row.
RecordVersion(r) ==
  /\ proc[r].step = "record"
  /\ IF proc[r].version \in applied THEN InitializeFails(r) ELSE Goto(r, "commit")
  /\ UNCHANGED <<dbVars, seedVars, faults>>

CommitMigration(r) ==
  LET v == proc[r].version IN
  /\ proc[r].step = "commit"
  /\ applied' = applied \cup {v}
  /\ schema' = schema \cup {v}
  /\ runs' = [runs EXCEPT ![v] = @ + 1]
  /\ proc' = [proc EXCEPT ![r].step = "migrate", ![r].version = v + 1]
  /\ UNCHANGED <<database, versionTable, seedVars, faults>>

\* The commit went through, its answer did not arrive: rollback and retry.
CommitAnswerLost(r) ==
  LET v == proc[r].version IN
  /\ proc[r].step = "commit" /\ faults < MaxFaults
  /\ applied' = applied \cup {v}
  /\ schema' = schema \cup {v}
  /\ runs' = [runs EXCEPT ![v] = @ + 1]
  /\ InitializeFails(r)
  /\ faults' = faults + 1
  /\ UNCHANGED <<database, versionTable, seedVars>>

-----------------------------------------------------------------------------
\* GET /v1/demo/dashboard or POST /v1/demo/seed, handled by replica r.
Call(a, r) ==
  /\ proc[a].step \in {"idle", "answered", "refused"}
  /\ proc[r].step = "serving"
  /\ proc' = [proc EXCEPT ![a] = [AtStart("findTenant") EXCEPT !.at = r]]
  /\ UNCHANGED <<dbVars, seedVars, faults>>

\* Seeding is over: the replica listens, the request is answered.
SeedSucceeds(a) ==
  proc' = [proc EXCEPT ![a] = AtStart(IF a \in Replicas THEN "serving" ELSE "answered")]

\* Seeding throws: bootstrap ends the process, the request gets an error.
SeedFails(a) ==
  proc' = [proc EXCEPT ![a] = AtStart(IF a \in Replicas THEN "down" ELSE "refused")]

FindTenant(a) ==
  /\ proc[a].step = "findTenant"
  /\ Goto(a, IF tenant THEN "find" ELSE "createTenant")
  /\ UNCHANGED <<dbVars, seedVars, faults>>

\* createTenant: tenant, owner and audit entry in one transaction.
CreateTenant(a) ==
  /\ proc[a].step = "createTenant"
  /\ \/ tenant /\ SeedFails(a) /\ UNCHANGED <<tenant, audited>>
     \/ /\ ~tenant
        /\ tenant' = TRUE
        /\ audited' = audited \cup {"tenant"}
        /\ Goto(a, "find")
  /\ UNCHANGED <<dbVars, children, deleted, faults>>

\* The finders filter by tenant and external id; the one for the endpoint
\* passes over soft-deleted rows as well.
Found(c) == c \in children /\ ~(c = "endpoint" /\ deleted)

\* Mutant: ensureDemoChildren without the endpoint.
NextChildButLast(a) ==
  IF proc[a].child + 1 < LastChild
  THEN proc' = [proc EXCEPT ![a].step = "find", ![a].child = proc[a].child + 1]
  ELSE SeedSucceeds(a)

NextChild(a) ==
  IF proc[a].child < LastChild
  THEN proc' = [proc EXCEPT ![a].step = "find", ![a].child = proc[a].child + 1]
  ELSE SeedSucceeds(a)

FindChild(a) ==
  /\ proc[a].step = "find"
  /\ IF Found(Child(a)) THEN NextChild(a) ELSE Goto(a, "insert")
  /\ UNCHANGED <<dbVars, seedVars, faults>>

\* The external ids are unique over all rows, soft-deleted ones included.
InsertChild(a) ==
  /\ proc[a].step = "insert"
  /\ \/ Child(a) \in children /\ SeedFails(a) /\ UNCHANGED children
     \/ /\ Child(a) \notin children
        /\ children' = children \cup {Child(a)}
        /\ Goto(a, "audit")
  /\ UNCHANGED <<dbVars, tenant, audited, deleted, faults>>

\* writeAuditLog, a statement of its own.
AuditChild(a) ==
  /\ proc[a].step = "audit"
  /\ audited' = audited \cup {Child(a)}
  /\ NextChild(a)
  /\ UNCHANGED <<dbVars, tenant, children, deleted, faults>>

\* deleteWebhookEndpoint for the demo endpoint: a soft delete, once.
DeleteDemoEndpoint ==
  /\ MayDelete /\ Found("endpoint")
  /\ \E r \in Replicas : proc[r].step = "serving"
  /\ deleted' = TRUE
  /\ UNCHANGED <<dbVars, tenant, children, audited, proc, faults>>

-----------------------------------------------------------------------------
\* The statement at hand fails without effect, or the connection does.
StatementFails(a) ==
  /\ faults < MaxFaults
  /\ \/ proc[a].step \in MigrationSteps /\ InitializeFails(a)
     \/ Seeding(a) /\ SeedFails(a)
  /\ faults' = faults + 1
  /\ UNCHANGED <<dbVars, seedVars>>

\* A replica dies, and with it the requests it handles.
Crash(r) ==
  /\ faults < MaxFaults /\ proc[r].step # "down"
  /\ proc' = [a \in Actors |->
       IF a = r THEN AtStart("down")
       ELSE IF a \in Callers /\ proc[a].at = r THEN AtStart("refused")
       ELSE proc[a]]
  /\ faults' = faults + 1
  /\ UNCHANGED <<dbVars, seedVars>>

MigrateStep(r) ==
  \/ CheckDatabase(r) \/ CreateDatabase(r)
  \/ CheckVersionTable(r) \/ CreateVersionTable(r)
  \/ NextMigration(r) \/ RunBatch(r) \/ BatchLosesRace(r)
  \/ RecordVersion(r) \/ CommitMigration(r)

SeedStep(a) ==
  FindTenant(a) \/ CreateTenant(a) \/ FindChild(a) \/ InsertChild(a) \/ AuditChild(a)

Next ==
  \/ \E r \in Replicas : StartProcess(r) \/ MigrateStep(r)
                         \/ CommitAnswerLost(r) \/ Crash(r)
  \/ \E a \in Actors : SeedStep(a) \/ StatementFails(a)
  \/ \E a \in Callers, r \in Replicas : Call(a, r)
  \/ DeleteDemoEndpoint

Spec == Init /\ [][Next]_vars

\* A process that ended is replaced, a running one goes on.  Requests need no
\* fairness, operators do not have to delete anything.
FairSpec ==
  Spec /\ \A r \in Replicas : WF_vars(StartProcess(r) \/ MigrateStep(r) \/ SeedStep(r))

-----------------------------------------------------------------------------
TypeOK ==
  /\ database \in BOOLEAN /\ versionTable \in BOOLEAN
  /\ applied \subseteq Versions /\ schema \subseteq Versions
  /\ runs \in [Versions -> Nat]
  /\ tenant \in BOOLEAN /\ deleted \in BOOLEAN
  /\ children \subseteq {"client", "key", "rule", "endpoint"}
  /\ audited \subseteq {"tenant", "client", "key", "rule", "endpoint"}
  /\ proc \in [Actors -> Procs]
  /\ faults \in 0..MaxFaults

\* A replica seeds and listens only on a schema that is complete, and listens
\* only when the demo tenant has all its rows: retries, races and restarts of
\* initialize never skip a migration or a row (bootstrap.ts).
ServingIsReady ==
  \A r \in Replicas :
    /\ proc[r].step \in SeedSteps \cup {"serving"} => schema = Versions
    /\ proc[r].step = "serving" => tenant /\ children = {"client", "key", "rule", "endpoint"}

\* Migrations are recorded in order, a row is there exactly when the effects
\* are, and no batch is committed twice, although several replicas may try
\* the same one and an answer to a commit may be lost (runMigrations).
MigratedOnceInOrder ==
  /\ schema = applied
  /\ \A v \in applied : 1..v \subseteq applied
  /\ \A v \in Versions : runs[v] = IF v \in applied THEN 1 ELSE 0

\* When seeds race, one of them ends on a unique key and gives up; another one
\* always completes the tenant and its audit trail.  A row stays missing, or
\* without its audit entry, only after a fault (ensureDemoChildren); no later
\* seed makes up for the entry, because the finders see the row.
HalfSeededHasOwner ==
  faults = 0 =>
    /\ tenant /\ children # {"client", "key", "rule", "endpoint"} =>
         \E a \in Actors : proc[a].step \in ChildSteps
    /\ \A c \in children \ audited :
         \E a \in Actors : proc[a].step = "audit" /\ Child(a) = c

\* Whatever races and faults a start meets, every replica serves in the end,
\* unless the demo endpoint was deleted (see DemoSeedIsIdempotent).
EveryReplicaServes ==
  \A r \in Replicas : <>(proc[r].step = "serving" \/ deleted)
                      /\ [](proc[r].step = "down" => <>(proc[r].step = "serving" \/ deleted))

\* README.md:145: "`POST /v1/demo/seed` idempotently seeds the demo tenant."
\* A request that seeds with no other seed under way is not refused.
DemoSeedIsIdempotent ==
  [][\A a \in Callers :
       (/\ InsertChild(a)
        /\ \A b \in Actors \ {a} : ~Seeding(b)) => proc'[a].step # "refused"]_vars
=============================================================================
