-------------------------- MODULE ApiStartupProofs --------------------------
(***************************************************************************)
(* Proofs about ApiStartup, for any number of replicas, requests,          *)
(* migrations, attempts and faults: a replica that listens has the whole   *)
(* schema and the whole demo tenant, migrations take effect once and in    *)
(* order, and without faults racing seeds always leave one that goes on.   *)
(*                                                                         *)
(* The inductive invariant says of every actor what its program counter    *)
(* promises about the database (Fits), that no two replicas hold the locks *)
(* of the same migration (Exclusive), and which seed is ahead of all       *)
(* others while rows are missing (Frontier).                               *)
(***************************************************************************)
EXTENDS ApiStartup, TLAPS

Rows == {"client", "key", "rule", "endpoint"}
Locking == {"record", "commit"}

\* What an actor p relies on, given the rows of dbo.schema_migrations, whether
\* the tenant is there and the rows of the tenant.
MigrationFits(p, app) ==
  /\ p.step \in {"database", "createDatabase", "table", "createTable"} => p.version = 1
  /\ p.step \in {"migrate", "batch", "record", "commit"} => 1..(p.version - 1) \subseteq app
  /\ p.step \in {"batch", "record", "commit"} => p.version \in Versions
  /\ p.step = "commit" => p.version \notin app
  /\ p.step \in SeedSteps \cup {"serving"} => Versions \subseteq app

SeedFits(p, ten, kids) ==
  /\ p.step \in MigrationSteps \cup {"findTenant", "createTenant"} => p.child = 1
  /\ p.step \in ChildSteps => ten /\ \A i \in 1..4 : i < p.child => Children[i] \in kids
  /\ p.step = "audit" => Children[p.child] \in kids
  /\ p.step = "serving" => ten /\ \A i \in 1..4 : Children[i] \in kids

Exclusive ==
  \A a, b \in Actors :
    a # b /\ proc[a].step \in Locking /\ proc[b].step \in Locking =>
      proc[a].version # proc[b].version

CallersOnlySeed == \A a \in Callers : proc[a].step \notin MigrationSteps

\* Nothing from p's position on is there yet.
Ahead(p, kids) ==
  /\ p.step \in ChildSteps
  /\ \A i \in 1..4 : i > p.child => Children[i] \notin kids
  /\ p.step # "audit" => Children[p.child] \notin kids

Frontier ==
  faults = 0 /\ tenant /\ children # Rows => \E a \in Actors : Ahead(proc[a], children)

AuditsFollow ==
  faults = 0 => \A c \in children \ audited :
                  \E a \in Actors : proc[a].step = "audit" /\ Child(a) = c

IInv ==
  /\ TypeOK
  /\ MigratedOnceInOrder
  /\ \A a \in Actors : MigrationFits(proc[a], applied) /\ SeedFits(proc[a], tenant, children)
  /\ Exclusive /\ CallersOnlySeed
  /\ children # {} => tenant
  /\ Frontier /\ AuditsFollow

-----------------------------------------------------------------------------
(* Records and positions *)

LEMMA ChildNames ==
  /\ Children[1] = "client" /\ Children[2] = "key"
  /\ Children[3] = "rule" /\ Children[4] = "endpoint"
BY DEF Children

LEMMA ChildIsRow == ASSUME NEW i \in 1..4 PROVE Children[i] \in Rows
BY ChildNames DEF Rows

LEMMA AllRows ==
  ASSUME NEW kids, kids \subseteq Rows, \A i \in 1..4 : Children[i] \in kids
  PROVE  kids = Rows
<1>1. /\ 1 \in 1..4 /\ 2 \in 1..4 /\ 3 \in 1..4 /\ 4 \in 1..4
  OBVIOUS
<1> QED
  BY <1>1, ChildNames DEF Rows

LEMMA ChildrenDiffer ==
  ASSUME NEW i \in 1..4, NEW j \in 1..4, Children[i] = Children[j] PROVE i = j
BY ChildNames

LEMMA StepsAreApart ==
  /\ MigrationSteps \cap SeedSteps = {}
  /\ ChildSteps \subseteq SeedSteps
BY DEF MigrationSteps, SeedSteps, ChildSteps

\* A step taken anew keeps its type, and so does a move of the other fields.
LEMMA AtStartType ==
  ASSUME NEW s \in MigrationSteps \cup SeedSteps \cup RestingSteps
  PROVE  AtStart(s) \in Procs
BY StartupAssumption DEF AtStart, Procs, LastChild

LEMMA MoveType ==
  ASSUME NEW p \in Procs, NEW s \in MigrationSteps \cup SeedSteps \cup RestingSteps
  PROVE  [p EXCEPT !.step = s] \in Procs
BY DEF Procs

-----------------------------------------------------------------------------
(* What a step of one actor keeps *)

\* An actor that starts over relies on nothing.
LEMMA FreshFits ==
  ASSUME NEW p, NEW app, NEW ten, NEW kids, p.child = 1, p.version = 1,
         p.step \in {"database", "down", "idle", "answered", "refused"}
  PROVE  MigrationFits(p, app) /\ SeedFits(p, ten, kids) /\ p.step \notin Locking
BY DEF MigrationFits, SeedFits, Locking, MigrationSteps, SeedSteps, ChildSteps

\* What actors rely on survives the growth of what is there.
LEMMA FitsGrow ==
  ASSUME NEW p, NEW app, NEW app2, NEW ten, NEW ten2, NEW kids, NEW kids2,
         MigrationFits(p, app), SeedFits(p, ten, kids),
         app \subseteq app2, ten => ten2, kids \subseteq kids2,
         p.step = "commit" => p.version \notin app2
  PROVE  MigrationFits(p, app2) /\ SeedFits(p, ten2, kids2)
<1>1. MigrationFits(p, app2)
  BY DEF MigrationFits
<1>2. SeedFits(p, ten2, kids2)
  BY DEF SeedFits
<1> QED
  BY <1>1, <1>2

\* Actor a moves to p; the others keep what they rely on.
LEMMA MoveKeeps ==
  ASSUME IInv, NEW a \in Actors, NEW p \in Procs, proc' = [proc EXCEPT ![a] = p],
         applied \subseteq applied', tenant => tenant', children \subseteq children',
         \A b \in Actors \ {a} : proc[b].step = "commit" => proc[b].version \notin applied',
         MigrationFits(p, applied'), SeedFits(p, tenant', children'),
         p.step \in Locking =>
           \A b \in Actors \ {a} : proc[b].step \in Locking => proc[b].version # p.version,
         a \in Callers => p.step \notin MigrationSteps
  PROVE  /\ proc' \in [Actors -> Procs]
         /\ \A b \in Actors : /\ MigrationFits(proc'[b], applied')
                             /\ SeedFits(proc'[b], tenant', children')
         /\ Exclusive' /\ CallersOnlySeed'
<1>1. proc \in [Actors -> Procs]
  BY DEF IInv, TypeOK
<1>2. proc' \in [Actors -> Procs]
  BY <1>1
<1>3. proc'[a] = p /\ \A b \in Actors \ {a} : proc'[b] = proc[b]
  BY <1>1
<1>4. ASSUME NEW b \in Actors
      PROVE  MigrationFits(proc'[b], applied') /\ SeedFits(proc'[b], tenant', children')
  <2>1. CASE b = a
    BY <2>1, <1>3
  <2>2. CASE b # a
    <3>1. MigrationFits(proc[b], applied) /\ SeedFits(proc[b], tenant, children)
      BY DEF IInv
    <3>2. proc[b].step = "commit" => proc[b].version \notin applied'
      BY <2>2
    <3>3. MigrationFits(proc[b], applied') /\ SeedFits(proc[b], tenant', children')
      BY <3>1, <3>2, FitsGrow
    <3> QED
      BY <3>3, <2>2, <1>3
  <2> QED
    BY <2>1, <2>2
<1>5. Exclusive'
  <2>1. Exclusive
    BY DEF IInv
  <2> QED
    BY <2>1, <1>3 DEF Exclusive
<1>6. CallersOnlySeed'
  <2>1. CallersOnlySeed
    BY DEF IInv
  <2> QED
    BY <2>1, <1>3 DEF CallersOnlySeed, Actors
<1> QED
  BY <1>2, <1>4, <1>5, <1>6

\* While the rows stay as they are, the actor ahead of the others remains so
\* unless it moves itself.
LEMMA FrontierKept ==
  ASSUME IInv, NEW a \in Actors, NEW p, proc' = [proc EXCEPT ![a] = p],
         tenant' = tenant, children' = children, faults' = 0 => faults = 0,
         faults' = 0 /\ Ahead(proc[a], children) /\ children # Rows => Ahead(p, children)
  PROVE  Frontier'
<1>1. proc \in [Actors -> Procs] /\ Frontier
  BY DEF IInv, TypeOK
<1>2. SUFFICES ASSUME faults' = 0, tenant, children # Rows
               PROVE  \E b \in Actors : Ahead(proc'[b], children)
  BY DEF Frontier
<1>3. PICK b \in Actors : Ahead(proc[b], children)
  BY <1>1, <1>2 DEF Frontier
<1>4. proc'[b] = IF b = a THEN p ELSE proc[b]
  BY <1>1
<1> QED
  BY <1>2, <1>3, <1>4

\* While the rows and their entries stay as they are, only an actor that owes
\* an entry could leave one out.
LEMMA AuditsKept ==
  ASSUME IInv, NEW a \in Actors, NEW p, proc' = [proc EXCEPT ![a] = p],
         children' = children, audited' = audited, faults' = 0 => faults = 0,
         faults' = 0 => proc[a].step # "audit"
  PROVE  AuditsFollow'
<1>1. proc \in [Actors -> Procs] /\ AuditsFollow
  BY DEF IInv, TypeOK
<1>2. SUFFICES ASSUME faults' = 0, NEW c \in children \ audited
               PROVE  \E b \in Actors : proc'[b].step = "audit" /\ Children[proc'[b].child] = c
  BY DEF AuditsFollow, Child
<1>3. PICK b \in Actors : proc[b].step = "audit" /\ Children[proc[b].child] = c
  BY <1>1, <1>2 DEF AuditsFollow, Child
<1>4. proc'[b] = proc[b]
  BY <1>1, <1>2, <1>3
<1> QED
  BY <1>3, <1>4

\* A step that leaves migrations, rows and entries as they are.
LEMMA QuietKeeps ==
  ASSUME IInv, NEW a \in Actors, NEW p \in Procs, proc' = [proc EXCEPT ![a] = p],
         UNCHANGED <<applied, schema, runs, seedVars>>,
         database' \in BOOLEAN, versionTable' \in BOOLEAN,
         faults' \in 0..MaxFaults, faults' = 0 => faults = 0,
         MigrationFits(p, applied), SeedFits(p, tenant, children),
         p.step \in Locking =>
           \A b \in Actors \ {a} : proc[b].step \in Locking => proc[b].version # p.version,
         a \in Callers => p.step \notin MigrationSteps,
         faults' = 0 /\ Ahead(proc[a], children) /\ children # Rows => Ahead(p, children),
         faults' = 0 => proc[a].step # "audit"
  PROVE  IInv'
<1>1. /\ applied' = applied /\ schema' = schema /\ runs' = runs
      /\ tenant' = tenant /\ children' = children /\ audited' = audited /\ deleted' = deleted
  BY DEF seedVars
<1>2. \A b \in Actors : MigrationFits(proc[b], applied)
  BY DEF IInv
<1>3. \A b \in Actors \ {a} : proc[b].step = "commit" => proc[b].version \notin applied'
  BY <1>1, <1>2 DEF MigrationFits
<1>4. /\ proc' \in [Actors -> Procs]
      /\ \A b \in Actors : /\ MigrationFits(proc'[b], applied')
                          /\ SeedFits(proc'[b], tenant', children')
      /\ Exclusive' /\ CallersOnlySeed'
  BY <1>1, <1>3, MoveKeeps
<1>5. Frontier' /\ AuditsFollow'
  BY <1>1, FrontierKept, AuditsKept
<1>6. TypeOK'
  BY <1>1, <1>4 DEF IInv, TypeOK
<1>7. MigratedOnceInOrder' /\ (children' # {} => tenant')
  BY <1>1 DEF IInv, MigratedOnceInOrder
<1> QED
  BY <1>4, <1>5, <1>6, <1>7 DEF IInv

\* A failing attempt of initialize starts over or ends the process.
LEMMA InitializeFailsMove ==
  ASSUME IInv, NEW a \in Actors, InitializeFails(a)
  PROVE  \E p \in Procs : /\ proc' = [proc EXCEPT ![a] = p]
                         /\ p.step \in {"database", "down"} /\ p.version = 1 /\ p.child = 1
<1>1. proc[a] \in Procs
  BY DEF IInv, TypeOK
<1>2. CASE proc[a].attempt < MaxAttempts
  <2> DEFINE p == [AtStart("database") EXCEPT !.attempt = proc[a].attempt + 1]
  <2>1. AtStart("database") \in Procs
    BY AtStartType DEF MigrationSteps
  <2>2. proc[a].attempt + 1 \in 1..MaxAttempts
    BY <1>1, <1>2, StartupAssumption DEF Procs
  <2>3. p \in Procs
    BY <2>1, <2>2 DEF Procs
  <2>4. p.step = "database" /\ p.version = 1 /\ p.child = 1
    BY DEF AtStart
  <2>5. proc' = [proc EXCEPT ![a] = p]
    BY <1>2 DEF InitializeFails
  <2> QED
    BY <2>3, <2>4, <2>5, <1>2
<1>3. CASE ~(proc[a].attempt < MaxAttempts)
  <2>1. AtStart("down") \in Procs
    BY AtStartType DEF RestingSteps
  <2>2. AtStart("down").step = "down" /\ AtStart("down").version = 1 /\ AtStart("down").child = 1
    BY DEF AtStart
  <2>3. proc' = [proc EXCEPT ![a] = AtStart("down")]
    BY <1>3 DEF InitializeFails
  <2> QED
    BY <2>1, <2>2, <2>3
<1> QED
  BY <1>2, <1>3

\* A failing attempt keeps the invariant, when nothing else happens.
LEMMA InitializeFailsKeeps ==
  ASSUME IInv, NEW a \in Replicas, InitializeFails(a), proc[a].step \in MigrationSteps,
         UNCHANGED <<applied, schema, runs, seedVars>>,
         database' \in BOOLEAN, versionTable' \in BOOLEAN,
         faults' \in 0..MaxFaults, faults' = 0 => faults = 0
  PROVE  IInv'
<1>1. a \in Actors /\ a \notin Callers
  BY StartupAssumption DEF Actors
<1>2. PICK p \in Procs : /\ proc' = [proc EXCEPT ![a] = p]
                        /\ p.step \in {"database", "down"} /\ p.version = 1 /\ p.child = 1
  BY <1>1, InitializeFailsMove
<1>3. MigrationFits(p, applied) /\ SeedFits(p, tenant, children) /\ p.step \notin Locking
  BY <1>2, FreshFits
<1>4. ~Ahead(proc[a], children) /\ proc[a].step # "audit"
  BY DEF Ahead, MigrationSteps, ChildSteps
<1> QED
  BY <1>1, <1>2, <1>3, <1>4, QuietKeeps

\* A failing seed keeps the invariant, when the actor is not ahead of all
\* others and owes no entry, or the failure is a fault.
LEMMA SeedFailsKeeps ==
  ASSUME IInv, NEW a \in Actors, SeedFails(a),
         UNCHANGED <<dbVars, seedVars>>,
         faults' \in 0..MaxFaults, faults' = 0 => faults = 0,
         faults' = 0 => ~Ahead(proc[a], children) /\ proc[a].step # "audit"
  PROVE  IInv'
<1> DEFINE s == IF a \in Replicas THEN "down" ELSE "refused"
<1>1. AtStart(s) \in Procs
  BY AtStartType DEF RestingSteps
<1>2. AtStart(s).step = s /\ AtStart(s).version = 1 /\ AtStart(s).child = 1
  BY DEF AtStart
<1>3. proc' = [proc EXCEPT ![a] = AtStart(s)]
  BY DEF SeedFails
<1>4. s \in {"down", "refused"}
  OBVIOUS
<1>5. UNCHANGED <<applied, schema, runs>> /\ database' \in BOOLEAN /\ versionTable' \in BOOLEAN
  BY DEF dbVars, IInv, TypeOK
<1>6. s \notin MigrationSteps
  BY <1>4 DEF MigrationSteps
<1> HIDE DEF s
<1>7. /\ MigrationFits(AtStart(s), applied) /\ SeedFits(AtStart(s), tenant, children)
      /\ AtStart(s).step \notin Locking
  BY <1>2, <1>4, FreshFits
<1> QED
  BY <1>1, <1>2, <1>3, <1>5, <1>6, <1>7, QuietKeeps

-----------------------------------------------------------------------------
(* The steps of initialize *)

LEMMA StartProcessKeeps == ASSUME IInv, NEW r \in Replicas, StartProcess(r) PROVE IInv'
<1>1. r \in Actors /\ r \notin Callers
  BY StartupAssumption DEF Actors
<1>2. AtStart("database") \in Procs
  BY AtStartType DEF MigrationSteps
<1>3. AtStart("database").step = "database" /\ AtStart("database").version = 1
      /\ AtStart("database").child = 1
  BY DEF AtStart
<1>4. /\ MigrationFits(AtStart("database"), applied)
      /\ SeedFits(AtStart("database"), tenant, children)
      /\ AtStart("database").step \notin Locking
  BY <1>3, FreshFits
<1>5. ~Ahead(proc[r], children) /\ proc[r].step # "audit"
  BY DEF StartProcess, Ahead, ChildSteps
<1>6. proc' = [proc EXCEPT ![r] = AtStart("database")]
      /\ UNCHANGED <<applied, schema, runs, seedVars>> /\ faults' = faults
      /\ database' = database /\ versionTable' = versionTable
  BY DEF StartProcess, dbVars
<1>7. faults \in 0..MaxFaults /\ database \in BOOLEAN /\ versionTable \in BOOLEAN
  BY DEF IInv, TypeOK
<1> QED
  BY <1>1, <1>2, <1>4, <1>5, <1>6, <1>7, QuietKeeps

\* A step of initialize on to the step s: what it has to bring along.
LEMMA AdvanceKeeps ==
  ASSUME IInv, NEW r \in Replicas, proc[r].step \in MigrationSteps,
         NEW s \in MigrationSteps \cup {"findTenant"},
         Goto(r, s),
         UNCHANGED <<applied, schema, runs, seedVars, faults>>,
         database' \in BOOLEAN, versionTable' \in BOOLEAN,
         MigrationFits([proc[r] EXCEPT !.step = s], applied),
         s \in Locking =>
           \A b \in Actors \ {r} :
             proc[b].step \in Locking => proc[b].version # proc[r].version
  PROVE  IInv'
<1> DEFINE p == [proc[r] EXCEPT !.step = s]
<1>1. r \in Actors /\ r \notin Callers
  BY StartupAssumption DEF Actors
<1>2. proc[r] \in Procs /\ SeedFits(proc[r], tenant, children) /\ faults \in 0..MaxFaults
  BY <1>1 DEF IInv, TypeOK
<1>3. s \in MigrationSteps \cup SeedSteps \cup RestingSteps
  BY DEF SeedSteps
<1>4. p \in Procs
  BY <1>2, <1>3, MoveType
<1>5. p.step = s /\ p.version = proc[r].version /\ p.child = proc[r].child
  BY <1>2 DEF Procs
<1>6. proc[r].child = 1
  BY <1>2 DEF SeedFits
<1>7. SeedFits(p, tenant, children)
  BY <1>5, <1>6 DEF SeedFits, MigrationSteps, ChildSteps
<1>8. ~Ahead(proc[r], children) /\ proc[r].step # "audit"
  BY DEF Ahead, MigrationSteps, ChildSteps
<1>9. proc' = [proc EXCEPT ![r] = p]
  BY DEF Goto
<1>10. MigrationFits(p, applied)
  OBVIOUS
<1> HIDE DEF p
<1> QED
  BY <1>1, <1>2, <1>4, <1>5, <1>7, <1>8, <1>9, <1>10, QuietKeeps

\* What the rows of dbo.schema_migrations promise to a step s.
LEMMA MigrationPromise ==
  ASSUME NEW p \in Procs, NEW s, NEW app,
         s \in {"database", "createDatabase", "table", "createTable"} => p.version = 1,
         s \in {"migrate", "batch", "record", "commit"} => 1..(p.version - 1) \subseteq app,
         s \in {"batch", "record", "commit"} => p.version \in Versions,
         s = "commit" => p.version \notin app,
         s \in SeedSteps \cup {"serving"} => Versions \subseteq app
  PROVE  MigrationFits([p EXCEPT !.step = s], app)
<1>1. [p EXCEPT !.step = s].step = s /\ [p EXCEPT !.step = s].version = p.version
  BY DEF Procs
<1> QED
  BY <1>1 DEF MigrationFits

LEMMA CheckDatabaseKeeps == ASSUME IInv, NEW r \in Replicas, CheckDatabase(r) PROVE IInv'
<1> DEFINE s == IF database THEN "table" ELSE "createDatabase"
<1>1. proc[r] \in Procs /\ MigrationFits(proc[r], applied) /\ database \in BOOLEAN
      /\ versionTable \in BOOLEAN
  BY DEF IInv, TypeOK, Actors
<1>2. proc[r].version = 1 /\ proc[r].step \in MigrationSteps
  BY <1>1 DEF CheckDatabase, MigrationFits, MigrationSteps
<1>3. s \in {"table", "createDatabase"} /\ s \in MigrationSteps /\ s \notin SeedSteps /\ s \notin Locking
  BY DEF MigrationSteps, SeedSteps, ChildSteps, Locking
<1>4. Goto(r, s) /\ UNCHANGED <<applied, schema, runs, seedVars, faults>>
      /\ database' = database /\ versionTable' = versionTable
  BY DEF CheckDatabase, dbVars
<1> HIDE DEF s
<1>5. MigrationFits([proc[r] EXCEPT !.step = s], applied)
  BY <1>1, <1>2, <1>3, MigrationPromise
<1> QED
  BY <1>1, <1>2, <1>3, <1>4, <1>5, AdvanceKeeps

LEMMA CreateDatabaseKeeps == ASSUME IInv, NEW r \in Replicas, CreateDatabase(r) PROVE IInv'
<1>1. proc[r] \in Procs /\ MigrationFits(proc[r], applied) /\ database \in BOOLEAN
      /\ versionTable \in BOOLEAN /\ faults \in 0..MaxFaults
  BY DEF IInv, TypeOK, Actors
<1>2. proc[r].version = 1 /\ proc[r].step \in MigrationSteps
  BY <1>1 DEF CreateDatabase, MigrationFits, MigrationSteps
<1>3. UNCHANGED <<applied, schema, runs, seedVars, faults>> /\ versionTable' = versionTable
  BY DEF CreateDatabase
<1>4. CASE database /\ InitializeFails(r) /\ UNCHANGED database
  BY <1>1, <1>2, <1>3, <1>4, InitializeFailsKeeps
<1>5. CASE ~database /\ database' = TRUE /\ Goto(r, "table")
  <2>1. "table" \in MigrationSteps /\ "table" \notin SeedSteps /\ "table" \notin Locking
    BY DEF MigrationSteps, SeedSteps, ChildSteps, Locking
  <2>2. MigrationFits([proc[r] EXCEPT !.step = "table"], applied)
    BY <1>1, <1>2, <2>1, MigrationPromise
  <2> QED
    BY <1>1, <1>2, <1>3, <1>5, <2>1, <2>2, AdvanceKeeps
<1> QED
  BY <1>4, <1>5 DEF CreateDatabase

LEMMA CheckVersionTableKeeps ==
  ASSUME IInv, NEW r \in Replicas, CheckVersionTable(r) PROVE IInv'
<1> DEFINE s == IF versionTable THEN "migrate" ELSE "createTable"
<1>1. proc[r] \in Procs /\ MigrationFits(proc[r], applied) /\ database \in BOOLEAN
      /\ versionTable \in BOOLEAN
  BY DEF IInv, TypeOK, Actors
<1>2. proc[r].version = 1 /\ proc[r].step \in MigrationSteps /\ 1..(proc[r].version - 1) = {}
  BY <1>1 DEF CheckVersionTable, MigrationFits, MigrationSteps
<1>3. s \in {"migrate", "createTable"} /\ s \in MigrationSteps /\ s \notin SeedSteps /\ s \notin Locking
  BY DEF MigrationSteps, SeedSteps, ChildSteps, Locking
<1>4. Goto(r, s) /\ UNCHANGED <<applied, schema, runs, seedVars, faults>>
      /\ database' = database /\ versionTable' = versionTable
  BY DEF CheckVersionTable, dbVars
<1> HIDE DEF s
<1>5. MigrationFits([proc[r] EXCEPT !.step = s], applied)
  BY <1>1, <1>2, <1>3, MigrationPromise
<1> QED
  BY <1>1, <1>2, <1>3, <1>4, <1>5, AdvanceKeeps

LEMMA CreateVersionTableKeeps ==
  ASSUME IInv, NEW r \in Replicas, CreateVersionTable(r) PROVE IInv'
<1>1. proc[r] \in Procs /\ MigrationFits(proc[r], applied) /\ database \in BOOLEAN
      /\ versionTable \in BOOLEAN /\ faults \in 0..MaxFaults
  BY DEF IInv, TypeOK, Actors
<1>2. proc[r].version = 1 /\ proc[r].step \in MigrationSteps /\ 1..(proc[r].version - 1) = {}
  BY <1>1 DEF CreateVersionTable, MigrationFits, MigrationSteps
<1>3. UNCHANGED <<applied, schema, runs, seedVars, faults>> /\ database' = database
  BY DEF CreateVersionTable
<1>4. CASE versionTable /\ InitializeFails(r) /\ UNCHANGED versionTable
  BY <1>1, <1>2, <1>3, <1>4, InitializeFailsKeeps
<1>5. CASE ~versionTable /\ versionTable' = TRUE /\ Goto(r, "migrate")
  <2>1. "migrate" \in MigrationSteps /\ "migrate" \notin SeedSteps /\ "migrate" \notin Locking
    BY DEF MigrationSteps, SeedSteps, ChildSteps, Locking
  <2>2. MigrationFits([proc[r] EXCEPT !.step = "migrate"], applied)
    BY <1>1, <1>2, <2>1, MigrationPromise
  <2> QED
    BY <1>1, <1>2, <1>3, <1>5, <2>1, <2>2, AdvanceKeeps
<1> QED
  BY <1>4, <1>5 DEF CreateVersionTable

LEMMA NextMigrationKeeps == ASSUME IInv, NEW r \in Replicas, NextMigration(r) PROVE IInv'
<1> DEFINE v == proc[r].version
<1>1. proc[r] \in Procs /\ MigrationFits(proc[r], applied) /\ SeedFits(proc[r], tenant, children)
      /\ database \in BOOLEAN /\ versionTable \in BOOLEAN /\ faults \in 0..MaxFaults
      /\ applied \subseteq Versions
  BY DEF IInv, TypeOK, Actors
<1>2. proc[r].step = "migrate" /\ proc[r].step \in MigrationSteps
  BY DEF NextMigration, MigrationSteps
<1>3. UNCHANGED <<applied, schema, runs, seedVars, faults>>
      /\ database' = database /\ versionTable' = versionTable
  BY DEF NextMigration, dbVars
<1>4. 1..(v - 1) \subseteq applied /\ v \in 1..LastVersion + 1
  BY <1>1, <1>2 DEF MigrationFits, Procs
<1>5. CASE v > LastVersion /\ Goto(r, "findTenant")
  <2>1. "findTenant" \notin Locking
    BY DEF Locking
  <2>2. v - 1 = LastVersion
    BY <1>4, <1>5, StartupAssumption
  <2>3. Versions \subseteq applied
    BY <1>4, <2>2 DEF Versions
  <2>4. MigrationFits([proc[r] EXCEPT !.step = "findTenant"], applied)
    BY <1>1, <2>3, MigrationPromise
  <2> QED
    BY <1>1, <1>2, <1>3, <1>5, <2>1, <2>4, AdvanceKeeps
<1>6. CASE v \in applied /\ proc' = [proc EXCEPT ![r].version = v + 1]
  <2> DEFINE p == [proc[r] EXCEPT !.version = v + 1]
  <2>1. v \in Versions /\ v + 1 \in 1..LastVersion + 1
    BY <1>1, <1>6, StartupAssumption DEF Versions
  <2>2. p \in Procs /\ p.step = "migrate" /\ p.version = v + 1 /\ p.child = proc[r].child
    BY <1>1, <1>2, <2>1 DEF Procs
  <2>3. 1..((v + 1) - 1) \subseteq applied
    BY <1>4, <1>6, <2>1 DEF Versions
  <2>4. proc' = [proc EXCEPT ![r] = p]
    BY <1>6
  <2> HIDE DEF p
  <2>5. MigrationFits(p, applied)
    BY <2>2, <2>3 DEF MigrationFits, SeedSteps, ChildSteps
  <2>6. SeedFits(p, tenant, children)
    BY <1>1, <1>2, <2>2 DEF SeedFits, MigrationSteps, ChildSteps
  <2>7. p.step \notin Locking /\ ~Ahead(proc[r], children) /\ proc[r].step # "audit"
    BY <1>2, <2>2 DEF Locking, Ahead, ChildSteps
  <2>8. r \in Actors /\ r \notin Callers
    BY StartupAssumption DEF Actors
  <2>9. faults' = faults
    BY <1>3
  <2> QED
    BY <1>1, <1>3, <2>2, <2>4, <2>5, <2>6, <2>7, <2>8, <2>9, QuietKeeps
<1>7. CASE v <= LastVersion /\ v \notin applied /\ Goto(r, "batch")
  <2>1. "batch" \in MigrationSteps /\ "batch" \notin SeedSteps /\ "batch" \notin Locking
    BY DEF MigrationSteps, SeedSteps, ChildSteps, Locking
  <2>2. v \in Versions
    BY <1>4, <1>7, StartupAssumption DEF Versions
  <2>3. MigrationFits([proc[r] EXCEPT !.step = "batch"], applied)
    BY <1>1, <1>4, <2>1, <2>2, MigrationPromise
  <2> QED
    BY <1>1, <1>2, <1>3, <1>7, <2>1, <2>3, AdvanceKeeps
<1> QED
  BY <1>5, <1>6, <1>7 DEF NextMigration

LEMMA RunBatchKeeps == ASSUME IInv, NEW r \in Replicas, RunBatch(r) PROVE IInv'
<1>1. proc[r] \in Procs /\ MigrationFits(proc[r], applied)
      /\ database \in BOOLEAN /\ versionTable \in BOOLEAN
  BY DEF IInv, TypeOK, Actors
<1>2. proc[r].step = "batch" /\ proc[r].step \in MigrationSteps
  BY DEF RunBatch, MigrationSteps
<1>3. Goto(r, "record") /\ UNCHANGED <<applied, schema, runs, seedVars, faults>>
      /\ database' = database /\ versionTable' = versionTable
  BY DEF RunBatch, dbVars
<1>4. "record" \in MigrationSteps /\ "record" \notin SeedSteps
  BY DEF MigrationSteps, SeedSteps, ChildSteps
<1>5. 1..(proc[r].version - 1) \subseteq applied /\ proc[r].version \in Versions
  BY <1>1, <1>2 DEF MigrationFits
<1>6. MigrationFits([proc[r] EXCEPT !.step = "record"], applied)
  BY <1>1, <1>4, <1>5, MigrationPromise
<1>7. \A b \in Actors \ {r} : proc[b].step \in Locking => proc[b].version # proc[r].version
  <2>1. \A b \in Actors : proc[b].step \in Locking => b \in Replicas
    BY DEF IInv, CallersOnlySeed, Actors, Locking, MigrationSteps
  <2> QED
    BY <2>1 DEF RunBatch, SchemaLocked, Locking
<1> QED
  BY <1>1, <1>2, <1>3, <1>4, <1>6, <1>7, AdvanceKeeps

LEMMA BatchLosesRaceKeeps == ASSUME IInv, NEW r \in Replicas, BatchLosesRace(r) PROVE IInv'
<1>1. database \in BOOLEAN /\ versionTable \in BOOLEAN /\ faults \in 0..MaxFaults
  BY DEF IInv, TypeOK
<1>2. proc[r].step \in MigrationSteps /\ InitializeFails(r)
  BY DEF BatchLosesRace, MigrationSteps
<1>3. UNCHANGED <<applied, schema, runs, seedVars, faults>>
      /\ database' = database /\ versionTable' = versionTable
  BY DEF BatchLosesRace, dbVars
<1> QED
  BY <1>1, <1>2, <1>3, InitializeFailsKeeps

LEMMA RecordVersionKeeps == ASSUME IInv, NEW r \in Replicas, RecordVersion(r) PROVE IInv'
<1>1. r \in Actors /\ proc[r] \in Procs /\ MigrationFits(proc[r], applied)
      /\ database \in BOOLEAN /\ versionTable \in BOOLEAN /\ faults \in 0..MaxFaults
  BY DEF IInv, TypeOK, Actors
<1>2. proc[r].step = "record" /\ proc[r].step \in MigrationSteps /\ proc[r].step \in Locking
  BY DEF RecordVersion, MigrationSteps, Locking
<1>3. UNCHANGED <<applied, schema, runs, seedVars, faults>>
      /\ database' = database /\ versionTable' = versionTable
  BY DEF RecordVersion, dbVars
<1>4. CASE proc[r].version \in applied
  <2>1. InitializeFails(r)
    BY <1>4 DEF RecordVersion
  <2> QED
    BY <1>1, <1>2, <1>3, <2>1, InitializeFailsKeeps
<1>5. CASE proc[r].version \notin applied
  <2>1. "commit" \in MigrationSteps /\ "commit" \notin SeedSteps
    BY DEF MigrationSteps, SeedSteps, ChildSteps
  <2>2. 1..(proc[r].version - 1) \subseteq applied /\ proc[r].version \in Versions
    BY <1>1, <1>2 DEF MigrationFits
  <2>3. MigrationFits([proc[r] EXCEPT !.step = "commit"], applied)
    BY <1>1, <1>5, <2>1, <2>2, MigrationPromise
  <2>4. \A b \in Actors \ {r} : proc[b].step \in Locking => proc[b].version # proc[r].version
    BY <1>1, <1>2 DEF IInv, Exclusive
  <2>5. Goto(r, "commit")
    BY <1>5 DEF RecordVersion
  <2> QED
    BY <1>1, <1>2, <1>3, <2>1, <2>3, <2>4, <2>5, AdvanceKeeps
<1> QED
  BY <1>4, <1>5

\* A migration of version v takes effect: r goes on to p.
LEMMA CommitKeeps ==
  ASSUME IInv, NEW r \in Replicas, NEW v \in Versions,
         proc[r].step = "commit", proc[r].version = v,
         applied' = applied \cup {v}, schema' = schema \cup {v},
         runs' = [runs EXCEPT ![v] = @ + 1],
         UNCHANGED <<seedVars, database, versionTable>>,
         faults' \in 0..MaxFaults, faults' = 0 => faults = 0,
         NEW p \in Procs, proc' = [proc EXCEPT ![r] = p],
         p.step \in {"migrate", "database", "down"}, p.child = 1,
         p.step = "migrate" => p.version = v + 1,
         p.step # "migrate" => p.version = 1
  PROVE  IInv'
<1>1. /\ r \in Actors /\ r \notin Callers /\ MigrationFits(proc[r], applied)
      /\ tenant' = tenant /\ children' = children /\ audited' = audited /\ deleted' = deleted
  BY StartupAssumption DEF IInv, Actors, seedVars
<1>2. v \notin applied /\ 1..(v - 1) \subseteq applied
  BY <1>1 DEF MigrationFits
<1>3. v \in Nat /\ v >= 1 /\ v <= LastVersion
  BY DEF Versions
<1>4. 1..v \subseteq applied'
  BY <1>2, <1>3
<1>5. MigrationFits(p, applied')
  BY <1>3, <1>4 DEF MigrationFits, SeedSteps, ChildSteps
<1>6. SeedFits(p, tenant', children') /\ p.step \notin Locking
  BY DEF SeedFits, MigrationSteps, ChildSteps, Locking
<1>7. \A b \in Actors \ {r} : proc[b].step = "commit" => proc[b].version \notin applied'
  <2> SUFFICES ASSUME NEW b \in Actors \ {r}, proc[b].step = "commit"
               PROVE  proc[b].version \notin applied /\ proc[b].version # v
    OBVIOUS
  <2>1. proc[b].version \notin applied
    BY DEF IInv, MigrationFits
  <2>2. proc[b].version # v
    BY <1>1 DEF IInv, Exclusive, Locking
  <2> QED
    BY <2>1, <2>2
<1>8. /\ proc' \in [Actors -> Procs]
      /\ \A b \in Actors : /\ MigrationFits(proc'[b], applied')
                          /\ SeedFits(proc'[b], tenant', children')
      /\ Exclusive' /\ CallersOnlySeed'
  BY <1>1, <1>5, <1>6, <1>7, MoveKeeps
<1>9. ~Ahead(proc[r], children) /\ proc[r].step # "audit"
  BY DEF Ahead, ChildSteps
<1>10. Frontier' /\ AuditsFollow'
  BY <1>1, <1>9, FrontierKept, AuditsKept
<1>11. TypeOK'
  <2>1. runs' \in [Versions -> Nat]
    BY DEF IInv, TypeOK
  <2> QED
    BY <1>1, <1>8, <2>1 DEF IInv, TypeOK
<1>12. MigratedOnceInOrder'
  <2>1. schema' = applied' /\ \A u \in applied' : 1..u \subseteq applied'
    BY <1>4 DEF IInv, MigratedOnceInOrder
  <2>2. \A u \in Versions : runs'[u] = IF u \in applied' THEN 1 ELSE 0
    BY <1>2 DEF IInv, MigratedOnceInOrder, TypeOK
  <2> QED
    BY <2>1, <2>2 DEF MigratedOnceInOrder
<1>13. children' # {} => tenant'
  BY <1>1 DEF IInv
<1> QED
  BY <1>8, <1>10, <1>11, <1>12, <1>13 DEF IInv

LEMMA CommitMigrationKeeps == ASSUME IInv, NEW r \in Replicas, CommitMigration(r) PROVE IInv'
<1> DEFINE v == proc[r].version
           p == [proc[r] EXCEPT !.step = "migrate", !.version = v + 1]
<1>1. /\ proc[r] \in Procs /\ MigrationFits(proc[r], applied) /\ SeedFits(proc[r], tenant, children)
      /\ proc \in [Actors -> Procs] /\ r \in Actors /\ faults \in 0..MaxFaults
  BY DEF IInv, TypeOK, Actors
<1>2. proc[r].step = "commit"
  BY DEF CommitMigration
<1>3. v \in Versions /\ proc[r].child = 1
  BY <1>1, <1>2 DEF MigrationFits, SeedFits, MigrationSteps
<1>4. v + 1 \in 1..LastVersion + 1
  BY <1>3, StartupAssumption DEF Versions
<1>5. /\ p \in Procs /\ p.step = "migrate" /\ p.version = v + 1 /\ p.child = 1
  BY <1>1, <1>3, <1>4 DEF Procs, MigrationSteps
<1>6. proc' = [proc EXCEPT ![r] = p]
  BY <1>1 DEF CommitMigration
<1>7. /\ applied' = applied \cup {v} /\ schema' = schema \cup {v}
      /\ runs' = [runs EXCEPT ![v] = @ + 1]
      /\ UNCHANGED <<seedVars, database, versionTable>> /\ faults' = faults
  BY DEF CommitMigration
<1> HIDE DEF p
<1> QED
  BY <1>1, <1>2, <1>3, <1>5, <1>6, <1>7, CommitKeeps

LEMMA CommitAnswerLostKeeps == ASSUME IInv, NEW r \in Replicas, CommitAnswerLost(r) PROVE IInv'
<1> DEFINE v == proc[r].version
<1>1. MigrationFits(proc[r], applied) /\ r \in Actors /\ faults \in 0..MaxFaults
  BY DEF IInv, TypeOK, Actors
<1>2. proc[r].step = "commit" /\ InitializeFails(r)
  BY DEF CommitAnswerLost
<1>3. v \in Versions
  BY <1>1, <1>2 DEF MigrationFits
<1>4. PICK p \in Procs : /\ proc' = [proc EXCEPT ![r] = p]
                        /\ p.step \in {"database", "down"} /\ p.version = 1 /\ p.child = 1
  BY <1>1, <1>2, InitializeFailsMove
<1>5. /\ applied' = applied \cup {v} /\ schema' = schema \cup {v}
      /\ runs' = [runs EXCEPT ![v] = @ + 1]
      /\ UNCHANGED <<seedVars, database, versionTable>>
  BY DEF CommitAnswerLost
<1>6. faults' \in 0..MaxFaults /\ faults' # 0
  BY <1>1, StartupAssumption DEF CommitAnswerLost
<1> QED
  BY <1>2, <1>3, <1>4, <1>5, <1>6, CommitKeeps

-----------------------------------------------------------------------------
(* The steps of seeding *)

LEMMA SeedingTypes ==
  ASSUME IInv, NEW a \in Actors
  PROVE  /\ proc \in [Actors -> Procs] /\ proc[a] \in Procs
         /\ MigrationFits(proc[a], applied) /\ SeedFits(proc[a], tenant, children)
         /\ database \in BOOLEAN /\ versionTable \in BOOLEAN /\ faults \in 0..MaxFaults
         /\ children \subseteq Rows
BY DEF IInv, TypeOK, Rows

\* A seeding actor's step s: it relies on no migration that is missing.
LEMMA SeedMove ==
  ASSUME IInv, NEW a \in Actors, proc[a].step \in SeedSteps, NEW s \in SeedSteps
  PROVE  LET p == [proc[a] EXCEPT !.step = s] IN
         /\ p \in Procs /\ MigrationFits(p, applied)
         /\ p.step = s /\ p.child = proc[a].child
         /\ p.step \notin Locking /\ p.step \notin MigrationSteps
<1> DEFINE p == [proc[a] EXCEPT !.step = s]
<1>1. proc[a] \in Procs /\ MigrationFits(proc[a], applied)
  BY SeedingTypes
<1>2. Versions \subseteq applied
  BY <1>1 DEF MigrationFits
<1>3. s \notin {"database", "createDatabase", "table", "createTable", "migrate", "batch",
                "record", "commit"}
  BY DEF SeedSteps, ChildSteps
<1>4. p \in Procs
  BY <1>1, MoveType
<1>5. p.step = s /\ p.child = proc[a].child
  BY <1>1 DEF Procs
<1>6. MigrationFits(p, applied)
  BY <1>1, <1>2, <1>3, MigrationPromise
<1>7. s \notin Locking /\ s \notin MigrationSteps
  BY <1>3 DEF Locking, MigrationSteps
<1> QED
  BY <1>4, <1>5, <1>6, <1>7

LEMMA CallKeeps ==
  ASSUME IInv, NEW a \in Callers, NEW r \in Replicas, Call(a, r) PROVE IInv'
<1> DEFINE p == [AtStart("findTenant") EXCEPT !.at = r]
<1>1. a \in Actors /\ r \in Actors
  BY DEF Actors
<1>2. AtStart("findTenant") \in Procs
  BY AtStartType DEF SeedSteps
<1>3. p \in Procs /\ p.step = "findTenant" /\ p.child = 1
  BY <1>2 DEF Procs, AtStart
<1>4. Versions \subseteq applied
  BY <1>1, SeedingTypes DEF Call, MigrationFits
<1>5. proc' = [proc EXCEPT ![a] = p] /\ UNCHANGED <<applied, schema, runs, seedVars, faults>>
      /\ database' = database /\ versionTable' = versionTable
  BY DEF Call, dbVars
<1> HIDE DEF p
<1>6. MigrationFits(p, applied) /\ SeedFits(p, tenant, children)
  BY <1>3, <1>4 DEF MigrationFits, SeedFits, ChildSteps
<1>7. p.step \notin Locking /\ p.step \notin MigrationSteps
  BY <1>3 DEF Locking, MigrationSteps
<1>8. ~Ahead(proc[a], children) /\ proc[a].step # "audit"
  BY DEF Call, Ahead, ChildSteps
<1>9. database \in BOOLEAN /\ versionTable \in BOOLEAN /\ faults \in 0..MaxFaults
  BY <1>1, SeedingTypes
<1> QED
  BY <1>1, <1>3, <1>5, <1>6, <1>7, <1>8, <1>9, QuietKeeps

LEMMA FindTenantKeeps == ASSUME IInv, NEW a \in Actors, FindTenant(a) PROVE IInv'
<1> DEFINE s == IF tenant THEN "find" ELSE "createTenant"
           p == [proc[a] EXCEPT !.step = s]
<1>1. proc[a].step = "findTenant" /\ proc[a].step \in SeedSteps
  BY DEF FindTenant, SeedSteps
<1>2. s \in SeedSteps
  BY DEF SeedSteps, ChildSteps
<1>3. /\ p \in Procs /\ MigrationFits(p, applied) /\ p.step = s /\ p.child = proc[a].child
      /\ p.step \notin Locking /\ p.step \notin MigrationSteps
  BY <1>1, <1>2, SeedMove
<1>4. /\ proc[a].child = 1 /\ database \in BOOLEAN /\ versionTable \in BOOLEAN
      /\ faults \in 0..MaxFaults
  BY <1>1, SeedingTypes DEF SeedFits
<1>5. proc' = [proc EXCEPT ![a] = p] /\ UNCHANGED <<applied, schema, runs, seedVars, faults>>
      /\ database' = database /\ versionTable' = versionTable
  BY DEF FindTenant, Goto, dbVars
<1>6. (s = "find" /\ tenant) \/ s = "createTenant"
  OBVIOUS
<1> HIDE DEF p, s
<1>7. SeedFits(p, tenant, children)
  BY <1>3, <1>4, <1>6 DEF SeedFits, ChildSteps
<1>8. ~Ahead(proc[a], children) /\ proc[a].step # "audit"
  BY <1>1 DEF Ahead, ChildSteps
<1> QED
  BY <1>3, <1>4, <1>5, <1>7, <1>8, QuietKeeps

LEMMA CreateTenantKeeps == ASSUME IInv, NEW a \in Actors, CreateTenant(a) PROVE IInv'
<1>1. proc[a].step = "createTenant" /\ proc[a].step \in SeedSteps
  BY DEF CreateTenant, SeedSteps
<1>2. UNCHANGED <<dbVars, children, deleted, faults>>
  BY DEF CreateTenant
<1>3. ~Ahead(proc[a], children) /\ proc[a].step # "audit"
  BY <1>1 DEF Ahead, ChildSteps
<1>4. CASE tenant /\ SeedFails(a) /\ UNCHANGED <<tenant, audited>>
  <2>1. UNCHANGED <<dbVars, seedVars>> /\ faults' = faults /\ faults \in 0..MaxFaults
    BY <1>2, <1>4, SeedingTypes DEF seedVars
  <2> QED
    BY <1>3, <1>4, <2>1, SeedFailsKeeps
<1>5. CASE ~tenant /\ tenant' = TRUE /\ audited' = audited \cup {"tenant"} /\ Goto(a, "find")
  <2> DEFINE p == [proc[a] EXCEPT !.step = "find"]
  <2>1. "find" \in SeedSteps
    BY DEF SeedSteps, ChildSteps
  <2>2. /\ p \in Procs /\ MigrationFits(p, applied) /\ p.step = "find" /\ p.child = proc[a].child
        /\ p.step \notin Locking /\ p.step \notin MigrationSteps
    BY <1>1, <2>1, SeedMove
  <2>3. proc[a].child = 1 /\ proc \in [Actors -> Procs]
    BY <1>1, SeedingTypes DEF SeedFits
  <2>4. proc' = [proc EXCEPT ![a] = p]
    BY <1>5 DEF Goto
  <2>5. /\ applied' = applied /\ schema' = schema /\ runs' = runs /\ database' = database
        /\ versionTable' = versionTable /\ children' = children /\ deleted' = deleted
        /\ faults' = faults
    BY <1>2 DEF dbVars
  <2>6. children = {}
    BY <1>5 DEF IInv
  <2> HIDE DEF p
  <2>7. SeedFits(p, tenant', children')
    BY <1>5, <2>2, <2>3 DEF SeedFits, ChildSteps
  <2>8. \A b \in Actors : proc[b].step = "commit" => proc[b].version \notin applied'
    BY <2>5 DEF IInv, MigrationFits
  <2>9. /\ proc' \in [Actors -> Procs]
        /\ \A b \in Actors : /\ MigrationFits(proc'[b], applied')
                            /\ SeedFits(proc'[b], tenant', children')
        /\ Exclusive' /\ CallersOnlySeed'
    BY <1>5, <2>2, <2>4, <2>5, <2>7, <2>8, MoveKeeps
  <2>10. Frontier'
    <3>1. proc'[a] = p /\ Ahead(p, children')
      BY <2>2, <2>3, <2>4, <2>5, <2>6 DEF Ahead, ChildSteps
    <3> QED
      BY <3>1 DEF Frontier
  <2>11. AuditsFollow' /\ (children' # {} => tenant')
    BY <1>5, <2>5, <2>6 DEF AuditsFollow
  <2>12. TypeOK'
    BY <1>5, <2>5, <2>9 DEF IInv, TypeOK
  <2>13. MigratedOnceInOrder'
    BY <2>5 DEF IInv, MigratedOnceInOrder
  <2> QED
    BY <2>9, <2>10, <2>11, <2>12, <2>13 DEF IInv
<1> QED
  BY <1>4, <1>5 DEF CreateTenant

\* After a row that is there the seed goes on to the next one, or is over.
LEMMA NextChildMove ==
  ASSUME IInv, NEW a \in Actors, proc[a].step \in ChildSteps,
         Child(a) \in children, NextChild(a)
  PROVE  \E p \in Procs :
           /\ proc' = [proc EXCEPT ![a] = p]
           /\ MigrationFits(p, applied) /\ SeedFits(p, tenant, children)
           /\ p.step \notin Locking /\ p.step \notin MigrationSteps
           /\ Ahead(proc[a], children) /\ children # Rows => Ahead(p, children)
<1>1. /\ proc[a] \in Procs /\ proc[a].step \in SeedSteps /\ proc[a].child \in 1..4
      /\ MigrationFits(proc[a], applied) /\ SeedFits(proc[a], tenant, children)
      /\ children \subseteq Rows
  BY SeedingTypes DEF SeedSteps, Procs, LastChild
<1>2. /\ tenant /\ \A i \in 1..4 : i <= proc[a].child => Children[i] \in children
      /\ Versions \subseteq applied
  BY <1>1 DEF SeedFits, MigrationFits, Child
<1>3. CASE proc[a].child < LastChild
  <2> DEFINE p == [proc[a] EXCEPT !.step = "find", !.child = proc[a].child + 1]
  <2>1. proc[a].child + 1 \in 1..LastChild
    BY <1>1, <1>3 DEF LastChild
  <2>2. p \in Procs /\ p.step = "find" /\ p.child = proc[a].child + 1 /\ p.version = proc[a].version
    BY <1>1, <2>1 DEF Procs, SeedSteps, ChildSteps
  <2>3. proc' = [proc EXCEPT ![a] = p]
    BY <1>3, SeedingTypes DEF NextChild
  <2> HIDE DEF p
  <2>4. MigrationFits(p, applied)
    BY <1>2, <2>2 DEF MigrationFits
  <2>5. SeedFits(p, tenant, children)
    BY <1>1, <1>2, <2>2 DEF SeedFits, MigrationSteps
  <2>6. p.step \notin Locking /\ p.step \notin MigrationSteps
    BY <2>2 DEF Locking, MigrationSteps
  <2>7. Ahead(proc[a], children) => Ahead(p, children)
    BY <1>1, <2>1, <2>2 DEF Ahead, ChildSteps, LastChild
  <2> QED
    BY <2>2, <2>3, <2>4, <2>5, <2>6, <2>7
<1>4. CASE ~(proc[a].child < LastChild)
  <2> DEFINE s == IF a \in Replicas THEN "serving" ELSE "answered"
  <2>1. AtStart(s) \in Procs
    BY AtStartType DEF RestingSteps
  <2>2. AtStart(s).step = s /\ AtStart(s).version = 1 /\ AtStart(s).child = 1
    BY DEF AtStart
  <2>3. proc' = [proc EXCEPT ![a] = AtStart(s)]
    BY <1>4 DEF NextChild, SeedSucceeds
  <2>4. s \in {"serving", "answered"}
    OBVIOUS
  <2>5. \A i \in 1..4 : Children[i] \in children
    BY <1>1, <1>2, <1>4 DEF LastChild
  <2>6. children = Rows
    BY <1>1, <2>5, AllRows
  <2> HIDE DEF s
  <2>7. MigrationFits(AtStart(s), applied)
    BY <1>2, <2>2, <2>4 DEF MigrationFits
  <2>8. SeedFits(AtStart(s), tenant, children)
    BY <1>2, <2>2, <2>4, <2>5 DEF SeedFits, MigrationSteps, ChildSteps
  <2>9. AtStart(s).step \notin Locking /\ AtStart(s).step \notin MigrationSteps
    BY <2>2, <2>4 DEF Locking, MigrationSteps
  <2> QED
    BY <2>1, <2>3, <2>6, <2>7, <2>8, <2>9
<1> QED
  BY <1>3, <1>4

LEMMA FindChildKeeps == ASSUME IInv, NEW a \in Actors, FindChild(a) PROVE IInv'
<1>1. /\ proc[a].step = "find" /\ proc[a].step \in ChildSteps /\ proc[a].step \in SeedSteps
      /\ proc[a].step # "audit"
  BY DEF FindChild, ChildSteps, SeedSteps
<1>2. /\ UNCHANGED <<applied, schema, runs, seedVars, faults>>
      /\ database' = database /\ versionTable' = versionTable /\ faults' = faults
  BY DEF FindChild, dbVars
<1>3. /\ database \in BOOLEAN /\ versionTable \in BOOLEAN /\ faults \in 0..MaxFaults
      /\ SeedFits(proc[a], tenant, children)
  BY SeedingTypes
<1>4. CASE Found(Child(a))
  <2>1. Child(a) \in children /\ NextChild(a)
    BY <1>4 DEF Found, FindChild
  <2>2. \E p \in Procs :
           /\ proc' = [proc EXCEPT ![a] = p]
           /\ MigrationFits(p, applied) /\ SeedFits(p, tenant, children)
           /\ p.step \notin Locking /\ p.step \notin MigrationSteps
           /\ Ahead(proc[a], children) /\ children # Rows => Ahead(p, children)
    BY <1>1, <2>1, NextChildMove
  <2> QED
    BY <1>1, <1>2, <1>3, <2>2, QuietKeeps
<1>5. CASE ~Found(Child(a))
  <2> DEFINE p == [proc[a] EXCEPT !.step = "insert"]
  <2>1. "insert" \in SeedSteps /\ "insert" \in ChildSteps
    BY DEF SeedSteps, ChildSteps
  <2>2. /\ p \in Procs /\ MigrationFits(p, applied) /\ p.step = "insert"
        /\ p.child = proc[a].child /\ p.step \notin Locking /\ p.step \notin MigrationSteps
    BY <1>1, <2>1, SeedMove
  <2>3. proc' = [proc EXCEPT ![a] = p]
    BY <1>5 DEF FindChild, Goto
  <2> HIDE DEF p
  <2>4. SeedFits(p, tenant, children)
    BY <1>1, <1>3, <2>2 DEF SeedFits
  <2>5. Ahead(proc[a], children) => Ahead(p, children)
    BY <1>1, <2>1, <2>2 DEF Ahead
  <2> QED
    BY <1>1, <1>2, <1>3, <2>2, <2>3, <2>4, <2>5, QuietKeeps
<1> QED
  BY <1>4, <1>5

LEMMA InsertChildKeeps == ASSUME IInv, NEW a \in Actors, InsertChild(a) PROVE IInv'
<1> DEFINE c == Child(a)
<1>1. proc[a].step = "insert" /\ proc[a].step \in ChildSteps /\ proc[a].step \in SeedSteps
  BY DEF InsertChild, ChildSteps, SeedSteps
<1>2. UNCHANGED <<dbVars, tenant, audited, deleted, faults>>
  BY DEF InsertChild
<1>3. /\ proc \in [Actors -> Procs] /\ proc[a].child \in 1..4 /\ faults \in 0..MaxFaults
      /\ SeedFits(proc[a], tenant, children) /\ children \subseteq Rows
  BY SeedingTypes DEF Procs, LastChild
<1>4. CASE c \in children /\ SeedFails(a) /\ UNCHANGED children
  <2>1. UNCHANGED <<dbVars, seedVars>> /\ faults' = faults
    BY <1>2, <1>4 DEF seedVars
  <2>2. ~Ahead(proc[a], children) /\ proc[a].step # "audit"
    BY <1>1, <1>4 DEF Ahead, Child
  <2> QED
    BY <1>3, <1>4, <2>1, <2>2, SeedFailsKeeps
<1>5. CASE c \notin children /\ children' = children \cup {c} /\ Goto(a, "audit")
  <2> DEFINE p == [proc[a] EXCEPT !.step = "audit"]
  <2>1. "audit" \in SeedSteps /\ "audit" \in ChildSteps
    BY DEF SeedSteps, ChildSteps
  <2>2. /\ p \in Procs /\ MigrationFits(p, applied) /\ p.step = "audit"
        /\ p.child = proc[a].child /\ p.step \notin Locking /\ p.step \notin MigrationSteps
    BY <1>1, <2>1, SeedMove
  <2>3. proc' = [proc EXCEPT ![a] = p]
    BY <1>5 DEF Goto
  <2>4. /\ applied' = applied /\ schema' = schema /\ runs' = runs /\ database' = database
        /\ versionTable' = versionTable /\ tenant' = tenant /\ audited' = audited
        /\ deleted' = deleted /\ faults' = faults
    BY <1>2 DEF dbVars
  <2>5. c = Children[proc[a].child] /\ c \in Rows
    BY <1>3, ChildIsRow DEF Child
  <2>6. tenant /\ \A i \in 1..4 : i < proc[a].child => Children[i] \in children
    BY <1>1, <1>3 DEF SeedFits
  <2> HIDE DEF p, c
  <2>7. SeedFits(p, tenant', children')
    BY <1>5, <2>2, <2>4, <2>5, <2>6 DEF SeedFits, MigrationSteps
  <2>8. \A b \in Actors : proc[b].step = "commit" => proc[b].version \notin applied'
    BY <2>4 DEF IInv, MigrationFits
  <2>9. /\ proc' \in [Actors -> Procs]
        /\ \A b \in Actors : /\ MigrationFits(proc'[b], applied')
                            /\ SeedFits(proc'[b], tenant', children')
        /\ Exclusive' /\ CallersOnlySeed'
    BY <1>5, <2>2, <2>3, <2>4, <2>7, <2>8, MoveKeeps
  \* The inserted row was the first one missing, so a is ahead now.
  <2>10. Frontier'
    <3>1. SUFFICES ASSUME faults = 0 PROVE Ahead(p, children')
      BY <1>3, <2>3, <2>4 DEF Frontier
    <3>2. PICK b \in Actors : Ahead(proc[b], children)
      BY <1>5, <2>5, <2>6, <3>1 DEF IInv, Frontier
    <3>3. /\ SeedFits(proc[b], tenant, children) /\ proc[b].child \in 1..4
          /\ proc[b].step \in ChildSteps
      BY <3>2, SeedingTypes DEF Ahead, Procs, LastChild
    <3>4. proc[b].child <= proc[a].child
      <4>1. SUFFICES ASSUME proc[a].child < proc[b].child PROVE FALSE
        BY <1>3, <3>3
      <4>2. Children[proc[a].child] \in children
        BY <1>3, <3>3, <4>1 DEF SeedFits
      <4> QED
        BY <1>5, <2>5, <4>2
    <3>5. \A i \in 1..4 : i > proc[a].child => Children[i] \notin children /\ Children[i] # c
      BY <1>3, <2>5, <3>2, <3>3, <3>4, ChildrenDiffer DEF Ahead
    <3> QED
      BY <1>5, <2>1, <2>2, <3>5 DEF Ahead
  <2>11. AuditsFollow'
    <3>1. SUFFICES ASSUME faults = 0, NEW k \in children' \ audited
                   PROVE  \E b \in Actors : proc'[b].step = "audit" /\ Children[proc'[b].child] = k
      BY <2>4 DEF AuditsFollow, Child
    <3>2. CASE k = c
      BY <1>3, <2>2, <2>3, <2>5, <3>2
    <3>3. CASE k # c
      <4>1. PICK b \in Actors : proc[b].step = "audit" /\ Children[proc[b].child] = k
        BY <1>5, <3>1, <3>3 DEF IInv, AuditsFollow, Child
      <4>2. proc'[b] = proc[b]
        BY <1>1, <1>3, <2>3, <4>1
      <4> QED
        BY <4>1, <4>2
    <3> QED
      BY <3>2, <3>3
  <2>12. TypeOK'
    BY <1>5, <2>4, <2>5, <2>9 DEF IInv, TypeOK, Rows
  <2>13. MigratedOnceInOrder' /\ (children' # {} => tenant')
    BY <2>4, <2>6 DEF IInv, MigratedOnceInOrder
  <2> QED
    BY <2>9, <2>10, <2>11, <2>12, <2>13 DEF IInv
<1> QED
  BY <1>4, <1>5 DEF InsertChild

LEMMA AuditChildKeeps == ASSUME IInv, NEW a \in Actors, AuditChild(a) PROVE IInv'
<1> DEFINE c == Child(a)
<1>1. proc[a].step = "audit" /\ proc[a].step \in ChildSteps
  BY DEF AuditChild, ChildSteps
<1>2. /\ audited' = audited \cup {c} /\ NextChild(a)
      /\ applied' = applied /\ schema' = schema /\ runs' = runs /\ database' = database
      /\ versionTable' = versionTable /\ tenant' = tenant /\ children' = children
      /\ deleted' = deleted /\ faults' = faults
  BY DEF AuditChild, dbVars
<1>3. /\ proc \in [Actors -> Procs] /\ proc[a].child \in 1..4
      /\ SeedFits(proc[a], tenant, children)
  BY SeedingTypes DEF Procs, LastChild
<1>4. c \in children /\ c = Children[proc[a].child] /\ c \in Rows
  BY <1>1, <1>3, ChildIsRow DEF SeedFits, Child
<1>5. PICK p \in Procs :
         /\ proc' = [proc EXCEPT ![a] = p]
         /\ MigrationFits(p, applied) /\ SeedFits(p, tenant, children)
         /\ p.step \notin Locking /\ p.step \notin MigrationSteps
         /\ Ahead(proc[a], children) /\ children # Rows => Ahead(p, children)
  <2>1. Child(a) \in children
    BY <1>4
  <2> HIDE DEF c
  <2> QED
    BY <1>1, <1>2, <2>1, NextChildMove
<1> HIDE DEF c
<1>6. \A b \in Actors : proc[b].step = "commit" => proc[b].version \notin applied'
  BY <1>2 DEF IInv, MigrationFits
<1>7. /\ proc' \in [Actors -> Procs]
      /\ \A b \in Actors : /\ MigrationFits(proc'[b], applied')
                          /\ SeedFits(proc'[b], tenant', children')
      /\ Exclusive' /\ CallersOnlySeed'
  BY <1>2, <1>5, <1>6, MoveKeeps
<1>8. Frontier'
  BY <1>2, <1>5, FrontierKept
<1>9. AuditsFollow'
  <2>1. SUFFICES ASSUME faults = 0, NEW k \in children \ audited, k # c
                 PROVE  \E b \in Actors : proc'[b].step = "audit" /\ Children[proc'[b].child] = k
    BY <1>2 DEF AuditsFollow, Child
  <2>2. PICK b \in Actors : proc[b].step = "audit" /\ Children[proc[b].child] = k
    BY <2>1 DEF IInv, AuditsFollow, Child
  <2>3. proc'[b] = proc[b]
    BY <1>3, <1>4, <1>5, <2>1, <2>2
  <2> QED
    BY <2>2, <2>3
<1>10. TypeOK'
  BY <1>2, <1>4, <1>7 DEF IInv, TypeOK, Rows
<1>11. MigratedOnceInOrder' /\ (children' # {} => tenant')
  BY <1>2 DEF IInv, MigratedOnceInOrder
<1> QED
  BY <1>7, <1>8, <1>9, <1>10, <1>11 DEF IInv

-----------------------------------------------------------------------------
(* Faults and deletion *)

LEMMA DeleteDemoEndpointKeeps == ASSUME IInv, DeleteDemoEndpoint PROVE IInv'
<1>1. /\ applied' = applied /\ schema' = schema /\ runs' = runs /\ database' = database
      /\ versionTable' = versionTable /\ tenant' = tenant /\ children' = children
      /\ audited' = audited /\ proc' = proc /\ faults' = faults /\ deleted' = TRUE
  BY DEF DeleteDemoEndpoint, dbVars
<1>2. TypeOK' /\ MigratedOnceInOrder'
  BY <1>1 DEF IInv, TypeOK, MigratedOnceInOrder
<1>3. Exclusive' /\ CallersOnlySeed' /\ Frontier' /\ AuditsFollow'
  BY <1>1 DEF IInv, Exclusive, CallersOnlySeed, Frontier, AuditsFollow, Child
<1> QED
  BY <1>1, <1>2, <1>3 DEF IInv

LEMMA StatementFailsKeeps == ASSUME IInv, NEW a \in Actors, StatementFails(a) PROVE IInv'
<1>1. UNCHANGED <<dbVars, seedVars>> /\ faults' = faults + 1 /\ faults < MaxFaults
  BY DEF StatementFails
<1>2. faults \in 0..MaxFaults /\ database \in BOOLEAN /\ versionTable \in BOOLEAN
  BY SeedingTypes
<1>3. faults' \in 0..MaxFaults /\ faults' # 0
  BY <1>1, <1>2, StartupAssumption
<1>4. CASE proc[a].step \in MigrationSteps /\ InitializeFails(a)
  <2>1. a \in Replicas
    BY <1>4 DEF IInv, CallersOnlySeed, Actors
  <2>2. UNCHANGED <<applied, schema, runs, seedVars>> /\ database' = database
        /\ versionTable' = versionTable
    BY <1>1 DEF dbVars
  <2> QED
    BY <1>2, <1>3, <1>4, <2>1, <2>2, InitializeFailsKeeps
<1>5. CASE Seeding(a) /\ SeedFails(a)
  BY <1>1, <1>3, <1>5, SeedFailsKeeps
<1> QED
  BY <1>4, <1>5 DEF StatementFails

LEMMA CrashKeeps == ASSUME IInv, NEW r \in Replicas, Crash(r) PROVE IInv'
<1>1. /\ applied' = applied /\ schema' = schema /\ runs' = runs /\ database' = database
      /\ versionTable' = versionTable /\ tenant' = tenant /\ children' = children
      /\ audited' = audited /\ deleted' = deleted /\ faults' = faults + 1 /\ faults < MaxFaults
  BY DEF Crash, dbVars, seedVars
<1>2. proc \in [Actors -> Procs] /\ faults \in 0..MaxFaults
  BY DEF IInv, TypeOK
<1>3. faults' \in 0..MaxFaults /\ faults' # 0
  BY <1>1, <1>2, StartupAssumption
<1>4. AtStart("down") \in Procs /\ AtStart("refused") \in Procs
  BY AtStartType DEF RestingSteps
<1>5. /\ AtStart("down").step = "down" /\ AtStart("down").version = 1 /\ AtStart("down").child = 1
      /\ AtStart("refused").step = "refused" /\ AtStart("refused").version = 1
      /\ AtStart("refused").child = 1
  BY DEF AtStart
<1>6. \A a \in Actors : proc'[a] \in {AtStart("down"), AtStart("refused"), proc[a]}
  BY DEF Crash
<1>7. proc' \in [Actors -> Procs]
  <2>1. proc' = [a \in Actors |-> proc'[a]]
    BY DEF Crash
  <2>2. \A a \in Actors : proc'[a] \in Procs
    BY <1>2, <1>4, <1>6
  <2> QED
    BY <2>1, <2>2
<1>8. ASSUME NEW a \in Actors
      PROVE  /\ MigrationFits(proc'[a], applied) /\ SeedFits(proc'[a], tenant, children)
             /\ proc'[a].step \in Locking => proc'[a] = proc[a]
             /\ proc'[a].step \in MigrationSteps => proc'[a] = proc[a]
  <2>1. CASE proc'[a] = proc[a]
    BY <2>1 DEF IInv
  <2>2. CASE proc'[a] = AtStart("down")
    <3>1. proc'[a].step = "down" /\ proc'[a].version = 1 /\ proc'[a].child = 1
      BY <1>5, <2>2
    <3>2. MigrationFits(proc'[a], applied) /\ SeedFits(proc'[a], tenant, children)
      BY <3>1, FreshFits
    <3> QED
      BY <3>1, <3>2 DEF Locking, MigrationSteps
  <2>3. CASE proc'[a] = AtStart("refused")
    <3>1. proc'[a].step = "refused" /\ proc'[a].version = 1 /\ proc'[a].child = 1
      BY <1>5, <2>3
    <3>2. MigrationFits(proc'[a], applied) /\ SeedFits(proc'[a], tenant, children)
      BY <3>1, FreshFits
    <3> QED
      BY <3>1, <3>2 DEF Locking, MigrationSteps
  <2> QED
    BY <1>6, <2>1, <2>2, <2>3
<1>9. Exclusive' /\ CallersOnlySeed'
  <2>1. Exclusive'
    BY <1>8 DEF IInv, Exclusive
  <2>2. CallersOnlySeed'
    BY <1>8 DEF IInv, CallersOnlySeed, Actors
  <2> QED
    BY <2>1, <2>2
<1>10. Frontier' /\ AuditsFollow'
  BY <1>3 DEF Frontier, AuditsFollow
<1>11. TypeOK' /\ MigratedOnceInOrder' /\ (children' # {} => tenant')
  BY <1>1, <1>3, <1>7 DEF IInv, TypeOK, MigratedOnceInOrder
<1> QED
  BY <1>1, <1>8, <1>9, <1>10, <1>11 DEF IInv

-----------------------------------------------------------------------------
(* The theorems *)

LEMMA InitHolds == ASSUME Init PROVE IInv
<1>1. /\ AtStart("down") \in Procs /\ AtStart("idle") \in Procs
  BY AtStartType DEF RestingSteps
<1>2. /\ AtStart("down").step = "down" /\ AtStart("down").version = 1 /\ AtStart("down").child = 1
      /\ AtStart("idle").step = "idle" /\ AtStart("idle").version = 1 /\ AtStart("idle").child = 1
  BY DEF AtStart
<1>3. proc \in [Actors -> Procs] /\ \A a \in Actors : proc[a] \in {AtStart("down"), AtStart("idle")}
  BY <1>1 DEF Init
<1>4. ASSUME NEW a \in Actors
      PROVE  /\ MigrationFits(proc[a], applied) /\ SeedFits(proc[a], tenant, children)
             /\ proc[a].step \notin Locking /\ proc[a].step \notin MigrationSteps
  <2>1. proc[a].step \in {"down", "idle"} /\ proc[a].version = 1 /\ proc[a].child = 1
    BY <1>2, <1>3
  <2> QED
    BY <2>1, FreshFits DEF MigrationSteps
<1>5. Exclusive /\ CallersOnlySeed
  BY <1>4 DEF Exclusive, CallersOnlySeed, Actors
<1>6. TypeOK
  <2>1. /\ database \in BOOLEAN /\ versionTable \in BOOLEAN
        /\ applied \subseteq Versions /\ schema \subseteq Versions
        /\ tenant \in BOOLEAN /\ deleted \in BOOLEAN
        /\ children = {} /\ audited = {}
    BY DEF Init
  <2>2. runs \in [Versions -> Nat]
    BY DEF Init
  <2>3. faults \in 0..MaxFaults
    BY StartupAssumption DEF Init
  <2> QED
    BY <1>3, <2>1, <2>2, <2>3 DEF TypeOK
<1>7. MigratedOnceInOrder /\ Frontier /\ AuditsFollow /\ (children # {} => tenant)
  BY DEF Init, MigratedOnceInOrder, Frontier, AuditsFollow
<1> QED
  BY <1>4, <1>5, <1>6, <1>7 DEF IInv

LEMMA StepHolds == ASSUME IInv, [Next]_vars PROVE IInv'
<1>1. ASSUME NEW r \in Replicas, MigrateStep(r) PROVE IInv'
  BY <1>1, CheckDatabaseKeeps, CreateDatabaseKeeps, CheckVersionTableKeeps,
     CreateVersionTableKeeps, NextMigrationKeeps, RunBatchKeeps, BatchLosesRaceKeeps,
     RecordVersionKeeps, CommitMigrationKeeps DEF MigrateStep
<1>2. ASSUME NEW a \in Actors, SeedStep(a) PROVE IInv'
  BY <1>2, FindTenantKeeps, CreateTenantKeeps, FindChildKeeps, InsertChildKeeps,
     AuditChildKeeps DEF SeedStep
<1>3. CASE UNCHANGED vars
  <2>1. /\ applied' = applied /\ schema' = schema /\ runs' = runs /\ database' = database
        /\ versionTable' = versionTable /\ tenant' = tenant /\ children' = children
        /\ audited' = audited /\ proc' = proc /\ faults' = faults /\ deleted' = deleted
    BY <1>3 DEF vars
  <2>2. TypeOK' /\ MigratedOnceInOrder'
    BY <2>1 DEF IInv, TypeOK, MigratedOnceInOrder
  <2>3. Exclusive' /\ CallersOnlySeed' /\ Frontier' /\ AuditsFollow'
    BY <2>1 DEF IInv, Exclusive, CallersOnlySeed, Frontier, AuditsFollow, Child
  <2> QED
    BY <2>1, <2>2, <2>3 DEF IInv
<1> QED
  BY <1>1, <1>2, <1>3, StartProcessKeeps, CommitAnswerLostKeeps, CrashKeeps,
     StatementFailsKeeps, CallKeeps, DeleteDemoEndpointKeeps DEF Next

\* The invariant the others follow from: what each actor relies on is there, no
\* two replicas hold the locks of one migration, and, without faults, missing
\* rows and entries have an actor that will add them.
THEOREM InductiveInvariant == Spec => []IInv
<1>1. Init => IInv
  BY InitHolds
<1>2. IInv /\ [Next]_vars => IInv'
  BY StepHolds
<1> QED
  BY <1>1, <1>2, PTL DEF Spec

\* Every variable keeps its type: no replica tries more often than MaxAttempts.
THEOREM TypeCorrect == Spec => []TypeOK
<1>1. IInv => TypeOK
  BY DEF IInv
<1> QED
  BY <1>1, InductiveInvariant, PTL

\* Migrations take effect once and in order, whatever replicas race and
\* whatever answers are lost (runMigrations).
THEOREM MigratedOnceInOrderHolds == Spec => []MigratedOnceInOrder
<1>1. IInv => MigratedOnceInOrder
  BY DEF IInv
<1> QED
  BY <1>1, InductiveInvariant, PTL

\* Who seeds or listens has the whole schema, and who listens the whole demo
\* tenant (bootstrapApi).
THEOREM ServingIsReadyHolds == Spec => []ServingIsReady
<1>1. ASSUME IInv, NEW r \in Replicas
      PROVE  /\ proc[r].step \in SeedSteps \cup {"serving"} => schema = Versions
             /\ proc[r].step = "serving" => tenant /\ children = Rows
  <2>1. r \in Actors /\ applied \subseteq Versions /\ schema = applied
    BY <1>1 DEF IInv, TypeOK, MigratedOnceInOrder, Actors
  <2>2. MigrationFits(proc[r], applied) /\ SeedFits(proc[r], tenant, children) /\ children \subseteq Rows
    BY <1>1, <2>1, SeedingTypes
  <2> QED
    BY <2>1, <2>2, AllRows DEF MigrationFits, SeedFits
<1>2. IInv => ServingIsReady
  BY <1>1 DEF ServingIsReady, Rows
<1> QED
  BY <1>2, InductiveInvariant, PTL

\* Without faults, racing seeds always leave one that goes on, and every row
\* gets its audit entry (ensureDemoChildren).
THEOREM HalfSeededHasOwnerHolds == Spec => []HalfSeededHasOwner
<1>1. ASSUME IInv, faults = 0, tenant, children # Rows
      PROVE  \E a \in Actors : proc[a].step \in ChildSteps
  BY <1>1 DEF IInv, Frontier, Ahead
<1>2. ASSUME IInv, faults = 0, NEW c \in children \ audited
      PROVE  \E a \in Actors : proc[a].step = "audit" /\ Child(a) = c
  BY <1>2 DEF IInv, AuditsFollow
<1>3. IInv => HalfSeededHasOwner
  BY <1>1, <1>2 DEF HalfSeededHasOwner, Rows
<1> QED
  BY <1>3, InductiveInvariant, PTL
=============================================================================
