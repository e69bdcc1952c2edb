---------------------- MODULE SettlementReconciliation ----------------------
(***************************************************************************)
(* Operators upload what the provider says it has settled, and resolve the *)
(* discrepancies this shows.  An import is one SERIALIZABLE transaction    *)
(* that looks up the payout of each row in turn, while the worker and the  *)
(* provider's callbacks go on recording provider ids; its rows, counts,    *)
(* discrepancies and event appear when it commits.  A resolution is one    *)
(* SERIALIZABLE transaction too.                                           *)
(*                                                                         *)
(* A file is known by its content, as by its SHA-256, an import by the     *)
(* call that made it, and a discrepancy by its import and row.  An amount  *)
(* stands for amount and currency.  Tenants stay active, audit rows are    *)
(* left out because they are inserted with the events, and a refused file  *)
(* is no file here: rows have different provider ids.                      *)
(***************************************************************************)
EXTENDS Naturals, FiniteSets, Sequences

CONSTANTS
  Calls,            \* bound: imports and resolutions, each attempted once
  Tenants,
  Payouts,          \* dbo.payouts that are submitted at some time
  TenantOf,         \* the tenant of each payout
  AmountOf,         \* the amount of each payout
  ProviderPayouts,  \* ids of the provider; those of DOMAIN MadeFor it has issued
  MadeFor,          \* the payout each was issued for: maybe two for one payout
  Files,            \* uploaded contents
  RowsOf,           \* the rows of each
  None

ASSUME ReconciliationAssumption ==
  /\ TenantOf \in [Payouts -> Tenants]
  /\ AmountOf \in [Payouts -> Nat]
  /\ DOMAIN MadeFor \subseteq ProviderPayouts
  /\ \A pp \in DOMAIN MadeFor : MadeFor[pp] \in Payouts
  /\ \A f \in Files :
       /\ RowsOf[f] \in Seq([provider : ProviderPayouts, amount : Nat]) \ {<<>>}
       /\ \A i, j \in DOMAIN RowsOf[f] : RowsOf[f][i].provider = RowsOf[f][j].provider => i = j
  /\ None \notin Payouts \cup ProviderPayouts \cup Calls

VARIABLES
  provider,       \* dbo.payouts.provider_payout_id
  imports,        \* dbo.settlement_imports with its dbo.settlement_rows
  discrepancies,  \* dbo.reconciliation_discrepancies
  events,         \* the outbox events of reconciliation, with the call each is of
  calls           \* what each call is doing

vars == <<provider, imports, discrepancies, events, calls>>
sqlVars == <<provider, imports, discrepancies, events>>

-----------------------------------------------------------------------------
(* Values *)

Matches == {"matched", "missing", "amount_mismatch"}

Row == [match : Matches, payout : Payouts \cup {None}]

Import == [tenant : Tenants, file : Files, rows : Seq(Row), matched : Nat, discrepancies : Nat]

Indexes == UNION {DOMAIN RowsOf[f] : f \in Files}

\* by: the call whose resolution note is stored; None while it is open.
Discrepancy == [type : Matches \ {"matched"}, by : Calls \cup {None}]

\* A row that does not exist is no row.
ASSUME NoneAssumption == None \notin Discrepancy

Event == [type : {"completed", "resolved"}, import : Calls, row : Indexes \cup {0}, by : Calls]

\* found: the rows that the transaction has classified so far.
ImportCall ==
  [step : {"lookup", "insert", "rows"}, tenant : Tenants, file : Files, found : Seq(Row)]

\* on: an import and a row of it; the answer of a resolution is what is stored.
ResolveCall ==
  [step : {"read", "write", "return", "answered"}, on : Calls \X Indexes,
   answer : Discrepancy \cup {None}]

Idle == [step |-> "idle"]
Over == [step |-> "over"]

TypeOK ==
  /\ provider \in [Payouts -> ProviderPayouts \cup {None}]
  /\ imports \in [Calls -> Import \cup {None}]
  /\ discrepancies \in [Calls \X Indexes -> Discrepancy \cup {None}]
  /\ events \subseteq Event
  /\ calls \in [Calls -> {Idle, Over} \cup ImportCall \cup ResolveCall]

Init ==
  /\ provider = [p \in Payouts |-> None]
  /\ imports = [c \in Calls |-> None]
  /\ discrepancies = [d \in Calls \X Indexes |-> None]
  /\ events = {}
  /\ calls = [c \in Calls |-> Idle]

To(c, step) == calls' = [calls EXCEPT ![c].step = step]

End(c) == calls' = [calls EXCEPT ![c] = Over]

-----------------------------------------------------------------------------
(* Payouts *)

\* Mutant of RangeLocked: READ COMMITTED, so that a read locks nothing for long.
NeverRangeLocked(t, pp) == FALSE

\* SERIALIZABLE: what an import has looked up stays as it was until it ends.
RangeLocked(t, pp) ==
  \E c \in Calls : /\ calls[c].step = "rows" /\ calls[c].tenant = t
                   /\ \E i \in DOMAIN calls[c].found : RowsOf[calls[c].file][i].provider = pp

\* The worker or a callback records the provider's id, once; see PayoutDispatch.
RecordProviderPayout(p, pp) ==
  /\ pp \in DOMAIN MadeFor /\ MadeFor[pp] = p
  /\ provider[p] = None
  /\ ~RangeLocked(TenantOf[p], pp)
  /\ provider' = [provider EXCEPT ![p] = pp]
  /\ UNCHANGED <<imports, discrepancies, events, calls>>

-----------------------------------------------------------------------------
(* Imports *)

Imported(t, f) == \E c \in Calls : imports[c] # None /\ imports[c].tenant = t /\ imports[c].file = f

StartImport(c, t, f) ==
  /\ calls[c] = Idle
  /\ calls' = [calls EXCEPT ![c] = [step |-> "lookup", tenant |-> t, file |-> f, found |-> <<>>]]
  /\ UNCHANGED sqlVars

\* On a connection of its own: two uploads of one file can both get past this.
LookupDuplicate(c) ==
  /\ calls[c].step = "lookup"
  /\ IF Imported(calls[c].tenant, calls[c].file) THEN End(c) ELSE To(c, "insert")
  /\ UNCHANGED sqlVars

\* Mutant of UniqueViolated: uq_settlement_imports_tenant_hash does not exist.
NeverViolated(t, f) == FALSE

UniqueViolated(t, f) == Imported(t, f)

\* The INSERT waits for another transaction that has inserted the same hash, and
\* fails if that one commits.
InsertImport(c) ==
  /\ calls[c].step = "insert"
  /\ ~\E d \in Calls : /\ calls[d].step = "rows"
                       /\ calls[d].tenant = calls[c].tenant /\ calls[d].file = calls[c].file
  /\ IF UniqueViolated(calls[c].tenant, calls[c].file) THEN End(c) ELSE To(c, "rows")
  /\ UNCHANGED sqlVars

\* SELECT TOP 1 and classifySettlementRow.
Classified(t, row) ==
  LET found == {p \in Payouts : TenantOf[p] = t /\ provider[p] = row.provider}
      p == CHOOSE q \in found : TRUE
  IN CASE found = {} -> [match |-> "missing", payout |-> None]
       [] found # {} /\ AmountOf[p] # row.amount -> [match |-> "amount_mismatch", payout |-> p]
       [] found # {} /\ AmountOf[p] = row.amount -> [match |-> "matched", payout |-> p]

CurrentRow(c) == RowsOf[calls[c].file][Len(calls[c].found) + 1]

ReconcileRow(c) ==
  /\ calls[c].step = "rows"
  /\ Len(calls[c].found) < Len(RowsOf[calls[c].file])
  /\ calls' = [calls EXCEPT ![c].found = Append(@, Classified(calls[c].tenant, CurrentRow(c)))]
  /\ UNCHANGED sqlVars

\* Mutant of Wrong: every row gets a discrepancy.
WrongAll(found) == DOMAIN found

\* The rows that get a discrepancy.
Wrong(found) == {i \in DOMAIN found : found[i].match # "matched"}

\* The counts, the event and the commit, which shows everything at once.
CompleteImport(c) ==
  LET found == calls[c].found
      wrong == Wrong(found)
  IN /\ calls[c].step = "rows"
     /\ Len(found) = Len(RowsOf[calls[c].file])
     /\ imports' = [imports EXCEPT ![c] =
          [tenant |-> calls[c].tenant, file |-> calls[c].file, rows |-> found,
           matched |-> Len(found) - Cardinality(wrong), discrepancies |-> Cardinality(wrong)]]
     /\ discrepancies' = [d \in Calls \X Indexes |->
          IF d[1] = c /\ d[2] \in wrong THEN [type |-> found[d[2]].match, by |-> None]
          ELSE discrepancies[d]]
     /\ events' = events \cup {[type |-> "completed", import |-> c, row |-> 0, by |-> c]}
     /\ End(c)
     /\ UNCHANGED provider

\* A statement fails, or the process dies, and the transaction is rolled back.
CallFails(c) ==
  /\ calls[c].step \in {"lookup", "insert", "rows", "read", "write", "return"}
  /\ End(c)
  /\ UNCHANGED sqlVars

-----------------------------------------------------------------------------
(* Resolutions *)

StartResolve(c, d) ==
  /\ calls[c] = Idle
  /\ discrepancies[d] # None
  /\ calls' = [calls EXCEPT ![c] = [step |-> "read", on |-> d, answer |-> None]]
  /\ UNCHANGED sqlVars

\* Mutant of Locked: the SELECT has no UPDLOCK.
NeverLocked(d) == FALSE

\* UPDLOCK, HOLDLOCK.
Locked(d) == \E c \in Calls : calls[c].step = "write" /\ calls[c].on = d

\* Only an open discrepancy is resolved; else the transaction changes nothing.
ReadStatus(c) ==
  /\ calls[c].step = "read"
  /\ ~Locked(calls[c].on)
  /\ To(c, IF discrepancies[calls[c].on].by = None THEN "write" ELSE "return")
  /\ UNCHANGED sqlVars

WriteResolution(c) ==
  LET d == calls[c].on
  IN /\ calls[c].step = "write"
     /\ discrepancies' = [discrepancies EXCEPT ![d].by = c]
     /\ events' = events \cup {[type |-> "resolved", import |-> d[1], row |-> d[2], by |-> c]}
     /\ To(c, "return")
     /\ UNCHANGED <<provider, imports>>

\* getDiscrepancy, after the transaction.
ReturnDiscrepancy(c) ==
  /\ calls[c].step = "return"
  /\ calls' = [calls EXCEPT ![c].step = "answered", ![c].answer = discrepancies[calls[c].on]]
  /\ UNCHANGED sqlVars

Next ==
  \/ \E p \in Payouts, pp \in ProviderPayouts : RecordProviderPayout(p, pp)
  \/ \E c \in Calls :
       \/ \E t \in Tenants, f \in Files : StartImport(c, t, f)
       \/ LookupDuplicate(c) \/ InsertImport(c) \/ ReconcileRow(c) \/ CompleteImport(c)
       \/ \E d \in Calls \X Indexes : StartResolve(c, d)
       \/ ReadStatus(c) \/ WriteResolution(c) \/ ReturnDiscrepancy(c)
       \/ CallFails(c)

Spec == Init /\ [][Next]_vars

-----------------------------------------------------------------------------
(* Properties *)

CommitsASnapshot ==
  \A c \in Calls :
    imports[c] = None /\ imports'[c] # None =>
      LET import == imports'[c]
          file == RowsOf[import.file]
      IN /\ Len(import.rows) = Len(file)
         /\ \A i \in DOMAIN file :
              /\ import.rows[i] = Classified(import.tenant, file[i])
              /\ discrepancies'[<<c, i>>] =
                   IF import.rows[i].match = "matched" THEN None
                   ELSE [type |-> import.rows[i].match, by |-> None]
         /\ import.matched + import.discrepancies = Len(file)

\* "Each import is ... reconciled transactionally against tenant payouts": although
\* its rows are looked up one after the other while ids are being recorded, an
\* import says of all its rows what is true when it commits, its counts add up,
\* and just the rows that do not match have an open discrepancy.
ImportIsASnapshot == [][CommitsASnapshot]_imports

\* "Each import is hashed to prevent duplicate processing": the tenant's file is
\* imported once, however many uploads of it race or are repeated
\* after a failure.
FileImportedOnce ==
  \A c, d \in Calls :
    /\ imports[c] # None /\ imports[d] # None
    /\ imports[c].tenant = imports[d].tenant /\ imports[c].file = imports[d].file
    => c = d

\* "Discrepancy resolution is idempotent and emits its own ... outbox event": a
\* discrepancy is resolved by one call, which is the one its only event names,
\* and every other call that tries is answered with that resolution.
ResolvedOnce ==
  \A d \in Calls \X Indexes :
    LET emitted == {e \in events : e.type = "resolved" /\ <<e.import, e.row>> = d}
    IN /\ {e.by : e \in emitted} =
            IF discrepancies[d] = None THEN {} ELSE {discrepancies[d].by} \ {None}
       /\ \A c \in Calls :
            calls[c].step = "answered" /\ calls[c].on = d =>
              calls[c].answer = discrepancies[d] /\ calls[c].answer.by # None
=============================================================================
