------------------- MODULE SettlementReconciliationProofs -------------------
(***************************************************************************)
(* Theorems about SettlementReconciliation, for any number of calls,       *)
(* tenants, payouts and files.                                             *)
(***************************************************************************)
EXTENDS SettlementReconciliation, TLAPS, FiniteSetTheorems

-----------------------------------------------------------------------------
(* The inductive invariant *)

Importing(c) == calls[c].step = "rows"

\* What an import has found so far is what the tables still say.
FoundOf(c) ==
  /\ calls[c].step \in {"lookup", "insert"} => calls[c].found = <<>>
  /\ Importing(c) =>
       /\ Len(calls[c].found) <= Len(RowsOf[calls[c].file])
       /\ \A i \in DOMAIN calls[c].found :
            calls[c].found[i] = Classified(calls[c].tenant, RowsOf[calls[c].file][i])

FoundOK == \A c \in Calls : FoundOf(c)

SameFile(a, b) == a.tenant = b.tenant /\ a.file = b.file

\* Whoever is past its INSERT is alone with its file.
AloneOK ==
  \A c \in Calls :
    Importing(c) =>
      /\ \A d \in Calls : imports[d] # None => ~SameFile(imports[d], calls[c])
      /\ \A d \in Calls : Importing(d) /\ SameFile(calls[d], calls[c]) => c = d

\* A resolution is of a discrepancy that exists.
ResolvingOK ==
  \A c \in Calls :
    calls[c].step \in {"read", "write", "return", "answered"} =>
      discrepancies[calls[c].on] \in Discrepancy

\* An import that has not committed has no discrepancies.
Fresh(c) == calls[c].step \in {"idle", "lookup", "insert", "rows"}

UntouchedOK ==
  \A c \in Calls : Fresh(c) => \A i \in Indexes : discrepancies[<<c, i>>] = None

\* Whoever is about to resolve holds the lock of an open discrepancy; whoever is
\* past that has seen it resolved.
LockOK ==
  \A c \in Calls :
    /\ calls[c].step = "write" =>
         /\ discrepancies[calls[c].on].by = None
         /\ \A b \in Calls : calls[b].step = "write" /\ calls[b].on = calls[c].on => b = c
    /\ calls[c].step = "return" => discrepancies[calls[c].on].by # None

\* The two halves of ResolvedOnce.
Resolvers(emitted, d) ==
  {e.by : e \in {x \in emitted : x.type = "resolved" /\ <<x.import, x.row>> = d}}

EventsOK ==
  \A d \in Calls \X Indexes :
    Resolvers(events, d) = IF discrepancies[d] = None THEN {} ELSE {discrepancies[d].by} \ {None}

AnswersOK ==
  \A c \in Calls :
    calls[c].step = "answered" =>
      calls[c].answer = discrepancies[calls[c].on] /\ calls[c].answer.by # None

IInv ==
  /\ TypeOK
  /\ FoundOK /\ AloneOK /\ ResolvingOK /\ UntouchedOK /\ LockOK /\ EventsOK /\ AnswersOK
  /\ FileImportedOnce

-----------------------------------------------------------------------------
(* Values *)

LEMMA ImportCallTyped ==
  ASSUME TypeOK, NEW c \in Calls, calls[c].step \in {"lookup", "insert", "rows"}
  PROVE  calls[c] \in ImportCall
  BY DEF TypeOK, ImportCall, ResolveCall, Idle, Over

LEMMA ResolveCallTyped ==
  ASSUME TypeOK, NEW c \in Calls, calls[c].step \in {"read", "write", "return", "answered"}
  PROVE  calls[c] \in ResolveCall
  BY DEF TypeOK, ImportCall, ResolveCall, Idle, Over

LEMMA ElementTyped ==
  ASSUME NEW S, NEW s \in Seq(S), NEW i \in DOMAIN s
  PROVE  s[i] \in S
  OBVIOUS

LEMMA RowsTyped ==
  ASSUME NEW f \in Files
  PROVE  /\ RowsOf[f] \in Seq([provider : ProviderPayouts, amount : Nat])
         /\ Len(RowsOf[f]) \in Nat
         /\ DOMAIN RowsOf[f] = 1 .. Len(RowsOf[f])
         /\ \A i \in DOMAIN RowsOf[f] : RowsOf[f][i].provider \in ProviderPayouts
  <1> DEFINE R == [provider : ProviderPayouts, amount : Nat]
             rows == RowsOf[f]
  <1>1. rows \in Seq(R)
    BY ReconciliationAssumption
  <1>2. Len(rows) \in Nat /\ DOMAIN rows = 1 .. Len(rows)
    BY <1>1
  <1>3. ASSUME NEW i \in DOMAIN rows PROVE rows[i] \in R
    <2> HIDE DEF R, rows
    <2> QED BY <1>1, <1>3, ElementTyped
  <1> QED BY <1>1, <1>2, <1>3

LEMMA ClassifiedTyped ==
  ASSUME NEW t, NEW row
  PROVE  Classified(t, row) \in Row
  <1> DEFINE found == {p \in Payouts : TenantOf[p] = t /\ provider[p] = row.provider}
             q == CHOOSE p \in found : TRUE
  <1>1. CASE found = {}
    BY <1>1 DEF Classified, Row, Matches
  <1>2. CASE found # {}
    <2>1. q \in Payouts
      BY <1>2
    <2> QED BY <1>2, <2>1 DEF Classified, Row, Matches
  <1> QED BY <1>1, <1>2

\* How many rows are wrong.
LEMMA WrongCounted ==
  ASSUME NEW found \in Seq(Row)
  PROVE  /\ Wrong(found) \subseteq DOMAIN found
         /\ Cardinality(Wrong(found)) \in Nat
         /\ Cardinality(Wrong(found)) <= Len(found)
  <1>1. Wrong(found) \in SUBSET (1 .. Len(found))
    BY DEF Wrong
  <1>2. /\ IsFiniteSet(1 .. Len(found))
        /\ Cardinality(1 .. Len(found)) = Len(found)
    <2>1. Len(found) \in Nat
      OBVIOUS
    <2> QED BY <2>1, FS_Interval
  <1>3. IsFiniteSet(Wrong(found)) /\ Cardinality(Wrong(found)) <= Len(found)
    BY <1>1, <1>2, FS_Subset
  <1> QED BY <1>1, <1>3, FS_CardinalityType

-----------------------------------------------------------------------------
(* Types *)

LEMMA RecordTyped ==
  ASSUME TypeOK, NEW p \in Payouts, NEW pp \in ProviderPayouts, RecordProviderPayout(p, pp)
  PROVE  TypeOK'
  BY DEF TypeOK, RecordProviderPayout

\* Steps that only change what a call is doing.
LEMMA CallTyped ==
  ASSUME TypeOK, UNCHANGED sqlVars, NEW c \in Calls, NEW x,
         calls' = [calls EXCEPT ![c] = x], x \in {Idle, Over} \cup ImportCall \cup ResolveCall
  PROVE  TypeOK'
  BY DEF TypeOK, sqlVars

LEMMA CompleteTyped ==
  ASSUME TypeOK, NEW c \in Calls, CompleteImport(c)
  PROVE  TypeOK'
  <1> DEFINE found == calls[c].found
             import == [tenant |-> calls[c].tenant, file |-> calls[c].file, rows |-> found,
                        matched |-> Len(found) - Cardinality(Wrong(found)),
                        discrepancies |-> Cardinality(Wrong(found))]
  <1>1. calls[c] \in ImportCall /\ found \in Seq(Row)
    BY ImportCallTyped DEF CompleteImport, ImportCall
  <1>2. import \in Import
    <2>1. Len(found) - Cardinality(Wrong(found)) \in Nat
      BY <1>1, WrongCounted
    <2> QED BY <1>1, <2>1, WrongCounted DEF Import, ImportCall
  <1>3. imports' \in [Calls -> Import \cup {None}]
    BY <1>2 DEF CompleteImport, TypeOK
  <1>4. ASSUME NEW i \in Wrong(found)
        PROVE  [type |-> found[i].match, by |-> None] \in Discrepancy
    <2>1. found[i] \in Row /\ found[i].match # "matched"
      BY <1>1, <1>4 DEF Wrong
    <2> QED BY <2>1 DEF Row, Discrepancy
  <1>5. discrepancies' \in [Calls \X Indexes -> Discrepancy \cup {None}]
    BY <1>4 DEF CompleteImport, TypeOK
  <1>6. events' \subseteq Event
    BY DEF CompleteImport, TypeOK, Event
  <1>7. calls' \in [Calls -> {Idle, Over} \cup ImportCall \cup ResolveCall]
    BY DEF CompleteImport, End, TypeOK
  <1> QED BY <1>3, <1>5, <1>6, <1>7 DEF CompleteImport, TypeOK

LEMMA WriteTyped ==
  ASSUME TypeOK, ResolvingOK, NEW c \in Calls, WriteResolution(c)
  PROVE  TypeOK'
  <1> DEFINE d == calls[c].on
  <1>1. calls[c] \in ResolveCall /\ d \in Calls \X Indexes
    BY ResolveCallTyped DEF WriteResolution, ResolveCall
  <1>2. calls' \in [Calls -> {Idle, Over} \cup ImportCall \cup ResolveCall]
    BY <1>1 DEF WriteResolution, To, TypeOK, ResolveCall
  <1>3. events' \subseteq Event
    BY <1>1 DEF WriteResolution, TypeOK, Event
  <1>4. discrepancies' \in [Calls \X Indexes -> Discrepancy \cup {None}]
    <2>1. discrepancies[d] \in Discrepancy
      BY DEF WriteResolution, ResolvingOK
    <2> QED BY <1>1, <2>1 DEF WriteResolution, TypeOK, Discrepancy
  <1> QED BY <1>2, <1>3, <1>4 DEF WriteResolution, TypeOK

\* Any other step.
CallStep(c) ==
  \/ \E t \in Tenants, f \in Files : StartImport(c, t, f)
  \/ LookupDuplicate(c) \/ InsertImport(c) \/ ReconcileRow(c)
  \/ \E d \in Calls \X Indexes : StartResolve(c, d)
  \/ ReadStatus(c) \/ ReturnDiscrepancy(c) \/ CallFails(c)

LEMMA CallStepTyped ==
  ASSUME TypeOK, ResolvingOK, NEW c \in Calls, CallStep(c)
  PROVE  TypeOK'
  <1>1. UNCHANGED sqlVars
    BY DEF CallStep, StartImport, LookupDuplicate, InsertImport, ReconcileRow, StartResolve,
           ReadStatus, ReturnDiscrepancy, CallFails
  <1> SUFFICES \E x \in {Idle, Over} \cup ImportCall \cup ResolveCall :
                 calls' = [calls EXCEPT ![c] = x]
    BY <1>1, CallTyped
  <1>2. ASSUME NEW t \in Tenants, NEW f \in Files, StartImport(c, t, f)
        PROVE  \E x \in ImportCall : calls' = [calls EXCEPT ![c] = x]
    <2>1. [step |-> "lookup", tenant |-> t, file |-> f, found |-> <<>>] \in ImportCall
      BY DEF ImportCall
    <2> QED BY <1>2, <2>1 DEF StartImport
  <1>3. CASE LookupDuplicate(c) \/ InsertImport(c)
    <2>1. calls[c] \in ImportCall
      BY <1>3, ImportCallTyped DEF LookupDuplicate, InsertImport
    <2>2. CASE End(c)
      BY <2>2 DEF End
    <2>3. CASE To(c, "insert") \/ To(c, "rows")
      <3>1. PICK s \in {"insert", "rows"} : To(c, s)
        BY <2>3
      <3>2. [calls[c] EXCEPT !.step = s] \in ImportCall
        BY <2>1 DEF ImportCall
      <3> QED BY <3>1, <3>2 DEF To
    <2> QED BY <1>3, <2>2, <2>3 DEF LookupDuplicate, InsertImport
  <1>4. CASE ReconcileRow(c)
    <2> DEFINE row == Classified(calls[c].tenant, CurrentRow(c))
    <2>1. calls[c] \in ImportCall
      BY <1>4, ImportCallTyped DEF ReconcileRow
    <2>2. row \in Row
      BY ClassifiedTyped
    <2>3. Append(calls[c].found, row) \in Seq(Row)
      <3> HIDE DEF row
      <3> QED BY <2>1, <2>2 DEF ImportCall
    <2>4. [calls[c] EXCEPT !.found = Append(calls[c].found, row)] \in ImportCall
      <3> HIDE DEF row
      <3> QED BY <2>1, <2>3 DEF ImportCall
    <2>5. calls' = [calls EXCEPT ![c] = [calls[c] EXCEPT !.found = Append(calls[c].found, row)]]
      <3>1. calls' = [calls EXCEPT ![c].found = Append(@, row)]
        BY <1>4 DEF ReconcileRow
      <3> HIDE DEF row
      <3> QED BY <3>1
    <2> QED BY <2>4, <2>5
  <1>5. ASSUME NEW d \in Calls \X Indexes, StartResolve(c, d)
        PROVE  \E x \in ResolveCall : calls' = [calls EXCEPT ![c] = x]
    BY <1>5 DEF StartResolve, ResolveCall
  <1>6. CASE ReadStatus(c)
    <2>1. calls[c] \in ResolveCall
      BY <1>6, ResolveCallTyped DEF ReadStatus
    <2>2. To(c, "write") \/ To(c, "return")
      BY <1>6 DEF ReadStatus
    <2> QED BY <2>1, <2>2 DEF To, ResolveCall, TypeOK
  <1>7. CASE ReturnDiscrepancy(c)
    <2>1. calls[c] \in ResolveCall
      BY <1>7, ResolveCallTyped DEF ReturnDiscrepancy
    <2>2. discrepancies[calls[c].on] \in Discrepancy
      BY <1>7 DEF ReturnDiscrepancy, ResolvingOK
    <2> QED BY <1>7, <2>1, <2>2 DEF ReturnDiscrepancy, ResolveCall, TypeOK
  <1>8. CASE CallFails(c)
    BY <1>8 DEF CallFails, End
  <1> QED BY <1>2, <1>3, <1>4, <1>5, <1>6, <1>7, <1>8 DEF CallStep

-----------------------------------------------------------------------------
(* What an import has found *)

\* Whoever looks up a row keeps it as it is.
LEMMA RecordKeepsFound ==
  ASSUME TypeOK, FoundOK, NEW p \in Payouts, NEW pp \in ProviderPayouts,
         RecordProviderPayout(p, pp)
  PROVE  FoundOK'
  <1>1. UNCHANGED calls
    BY DEF RecordProviderPayout
  <1>2. ASSUME NEW c \in Calls, Importing(c), NEW i \in DOMAIN calls[c].found
        PROVE  Classified(calls[c].tenant, RowsOf[calls[c].file][i])' =
                 Classified(calls[c].tenant, RowsOf[calls[c].file][i])
    <2> DEFINE t == calls[c].tenant
               row == RowsOf[calls[c].file][i]
               Found(pr) == {q \in Payouts : TenantOf[q] = t /\ pr[q] = row.provider}
    <2>1. calls[c] \in ImportCall
      BY <1>2, ImportCallTyped DEF Importing
    <2>2. i \in DOMAIN RowsOf[calls[c].file]
      <3>1. /\ calls[c].found \in Seq(Row)
            /\ Len(calls[c].found) <= Len(RowsOf[calls[c].file])
        BY <1>2, <2>1 DEF FoundOK, FoundOf, ImportCall
      <3>2. calls[c].file \in Files
        BY <2>1 DEF ImportCall
      <3> QED BY <1>2, <3>1, <3>2, RowsTyped
    <2>3. row.provider \in ProviderPayouts /\ row.provider # None
      BY <2>1, <2>2, RowsTyped, ReconciliationAssumption DEF ImportCall
    <2>4. ~(TenantOf[p] = t /\ row.provider = pp)
      BY <1>2 DEF RecordProviderPayout, RangeLocked, Importing
    <2>5. Found(provider') = Found(provider)
      BY <2>3, <2>4 DEF RecordProviderPayout, TypeOK
    <2> QED BY <1>1, <2>5 DEF Classified
  <1> QED BY <1>1, <1>2 DEF FoundOK, FoundOf, Importing

LEMMA FoundKept ==
  ASSUME NEW c \in Calls, FoundOf(c), calls'[c] = calls[c], UNCHANGED provider
  PROVE  FoundOf(c)'
  <1>1. ASSUME NEW i \in DOMAIN calls[c].found
        PROVE  Classified(calls[c].tenant, RowsOf[calls[c].file][i])' =
                 Classified(calls[c].tenant, RowsOf[calls[c].file][i])
    <2> DEFINE row == RowsOf[calls[c].file][i]
               Found(pr) == {q \in Payouts : TenantOf[q] = calls[c].tenant /\ pr[q] = row.provider}
    <2>1. Found(provider') = Found(provider)
      OBVIOUS
    <2> QED BY <2>1 DEF Classified
  <1> QED BY <1>1 DEF FoundOf, Importing

\* A step of a call that is not past its INSERT afterwards.
LEMMA OthersKeepFound ==
  ASSUME TypeOK, FoundOK, NEW c \in Calls, UNCHANGED provider, NEW x,
         calls' = [calls EXCEPT ![c] = x],
         x.step # "rows", x.step \in {"lookup", "insert"} => x.found = <<>>
  PROVE  FoundOK'
  <1>1. calls'[c] = x /\ \A d \in Calls \ {c} : calls'[d] = calls[d]
    BY DEF TypeOK
  <1>2. FoundOf(c)'
    BY <1>1 DEF FoundOf, Importing
  <1>3. ASSUME NEW d \in Calls \ {c} PROVE FoundOf(d)'
    BY <1>1, FoundKept DEF FoundOK
  <1> QED BY <1>2, <1>3 DEF FoundOK

LEMMA EndKeepsFound ==
  ASSUME TypeOK, FoundOK, NEW c \in Calls, UNCHANGED provider, End(c)
  PROVE  FoundOK'
  <1>1. Over.step = "over"
    BY DEF Over
  <1>2. calls' = [calls EXCEPT ![c] = Over]
    BY DEF End
  <1> QED BY <1>1, <1>2, OthersKeepFound

LEMMA InsertKeepsFound ==
  ASSUME TypeOK, FoundOK, NEW c \in Calls, InsertImport(c)
  PROVE  FoundOK'
  <1>1. UNCHANGED provider
    BY DEF InsertImport, sqlVars
  <1>2. \A d \in Calls \ {c} : calls'[d] = calls[d]
    BY DEF InsertImport, To, End, TypeOK
  <1>3. FoundOf(c)'
    <2>1. calls[c] \in ImportCall /\ calls[c].found = <<>>
      BY ImportCallTyped DEF InsertImport, FoundOK, FoundOf
    <2>2. Len(RowsOf[calls[c].file]) >= 0
      BY <2>1, RowsTyped DEF ImportCall
    <2>3. CASE End(c)
      BY <2>3 DEF End, Over, TypeOK, FoundOf, Importing
    <2>4. CASE To(c, "rows")
      <3>1. calls'[c].found = <<>> /\ calls'[c].file = calls[c].file /\ calls'[c].step = "rows"
        BY <2>1, <2>4 DEF To, TypeOK, ImportCall
      <3> QED BY <2>2, <3>1 DEF FoundOf, Importing
    <2> QED BY <2>3, <2>4 DEF InsertImport
  <1>4. ASSUME NEW d \in Calls \ {c} PROVE FoundOf(d)'
    BY <1>1, <1>2, FoundKept DEF FoundOK
  <1> QED BY <1>3, <1>4 DEF FoundOK

LEMMA RowKeepsFound ==
  ASSUME TypeOK, FoundOK, NEW c \in Calls, ReconcileRow(c)
  PROVE  FoundOK'
  <1> DEFINE found == calls[c].found
             rows == RowsOf[calls[c].file]
             new == Classified(calls[c].tenant, CurrentRow(c))
  <1>1. UNCHANGED provider
    BY DEF ReconcileRow, sqlVars
  <1>2. \A d \in Calls \ {c} : calls'[d] = calls[d]
    BY DEF ReconcileRow, TypeOK
  <1>3. FoundOf(c)'
    <2>1. calls[c] \in ImportCall /\ found \in Seq(Row) /\ calls[c].step = "rows"
      BY ImportCallTyped DEF ReconcileRow, ImportCall
    <2>2. Len(rows) \in Nat
      BY <2>1, RowsTyped DEF ImportCall
    <2>3. /\ calls'[c].step = "rows" /\ calls'[c].file = calls[c].file
          /\ calls'[c].tenant = calls[c].tenant /\ calls'[c].found = Append(found, new)
      <3>1. calls' = [calls EXCEPT ![c].found = Append(@, new)]
        BY DEF ReconcileRow
      <3> HIDE DEF new
      <3> QED BY <2>1, <3>1 DEF TypeOK, ImportCall
    <2>4. new \in Row
      BY ClassifiedTyped
    <2>5. Len(Append(found, new)) <= Len(rows)
      <3> HIDE DEF new
      <3> QED BY <2>1, <2>2, <2>4 DEF ReconcileRow
    <2>6. ASSUME NEW i \in DOMAIN Append(found, new)
          PROVE  Append(found, new)[i] = Classified(calls[c].tenant, rows[i])
      <3>1. CASE i \in DOMAIN found
        <4>1. Append(found, new)[i] = found[i]
          <5> HIDE DEF new
          <5> QED BY <2>1, <2>4, <3>1
        <4> QED BY <2>1, <3>1, <4>1 DEF FoundOK, FoundOf, Importing
      <3>2. CASE i = Len(found) + 1
        <4>1. Append(found, new)[i] = new
          <5> HIDE DEF new
          <5> QED BY <2>1, <2>4, <3>2
        <4> QED BY <3>2, <4>1 DEF CurrentRow
      <3>3. i \in DOMAIN found \/ i = Len(found) + 1
        <4> HIDE DEF new
        <4> QED BY <2>1, <2>4, <2>6
      <3> QED BY <3>1, <3>2, <3>3
    <2>7. ASSUME NEW i \in DOMAIN Append(found, new)
          PROVE  Classified(calls[c].tenant, rows[i])' = Classified(calls[c].tenant, rows[i])
      <3> DEFINE Found ==
                   {q \in Payouts : TenantOf[q] = calls[c].tenant /\ provider[q] = rows[i].provider}
      <3>1. (rows[i])' = rows[i]
        BY <2>3
      <3>2. Found' = Found
        BY <1>1, <2>3, <3>1
      <3> QED BY <2>3, <3>1, <3>2 DEF Classified
    <2> HIDE DEF new
    <2> QED BY <2>3, <2>5, <2>6, <2>7 DEF FoundOf, Importing
  <1>4. ASSUME NEW d \in Calls \ {c} PROVE FoundOf(d)'
    BY <1>1, <1>2, FoundKept DEF FoundOK
  <1> QED BY <1>3, <1>4 DEF FoundOK

LEMMA StepKeepsFound ==
  ASSUME TypeOK, FoundOK, Next
  PROVE  FoundOK'
  <1>1. ASSUME NEW p \in Payouts, NEW pp \in ProviderPayouts, RecordProviderPayout(p, pp)
        PROVE  FoundOK'
    BY <1>1, RecordKeepsFound
  <1>2. ASSUME NEW c \in Calls, NEW t \in Tenants, NEW f \in Files, StartImport(c, t, f)
        PROVE  FoundOK'
    <2> DEFINE x == [step |-> "lookup", tenant |-> t, file |-> f, found |-> <<>>]
    <2>1. x.step = "lookup" /\ x.found = <<>>
      OBVIOUS
    <2>2. calls' = [calls EXCEPT ![c] = x] /\ UNCHANGED provider
      BY <1>2 DEF StartImport, sqlVars
    <2> HIDE DEF x
    <2> QED BY <2>1, <2>2, OthersKeepFound
  <1>3. ASSUME NEW c \in Calls, LookupDuplicate(c)
        PROVE  FoundOK'
    <2>1. UNCHANGED provider
      BY <1>3 DEF LookupDuplicate, sqlVars
    <2>2. CASE End(c)
      BY <2>1, <2>2, EndKeepsFound
    <2>3. CASE To(c, "insert")
      <3> DEFINE x == [calls[c] EXCEPT !.step = "insert"]
      <3>1. calls[c] \in ImportCall /\ calls[c].found = <<>>
        BY <1>3, ImportCallTyped DEF LookupDuplicate, FoundOK, FoundOf
      <3>2. x.step = "insert" /\ x.found = <<>>
        BY <3>1 DEF ImportCall
      <3>3. calls' = [calls EXCEPT ![c] = x]
        BY <2>3 DEF To
      <3> HIDE DEF x
      <3> QED BY <2>1, <3>2, <3>3, OthersKeepFound
    <2> QED BY <1>3, <2>2, <2>3 DEF LookupDuplicate
  <1>4. ASSUME NEW c \in Calls, InsertImport(c)
        PROVE  FoundOK'
    BY <1>4, InsertKeepsFound
  <1>5. ASSUME NEW c \in Calls, ReconcileRow(c)
        PROVE  FoundOK'
    BY <1>5, RowKeepsFound
  <1>6. ASSUME NEW c \in Calls, CompleteImport(c)
        PROVE  FoundOK'
    BY <1>6, EndKeepsFound DEF CompleteImport
  <1>7. ASSUME NEW c \in Calls, NEW d \in Calls \X Indexes, StartResolve(c, d)
        PROVE  FoundOK'
    <2> DEFINE x == [step |-> "read", on |-> d, answer |-> None]
    <2>1. x.step = "read"
      OBVIOUS
    <2>2. calls' = [calls EXCEPT ![c] = x] /\ UNCHANGED provider
      BY <1>7 DEF StartResolve, sqlVars
    <2> HIDE DEF x
    <2> QED BY <2>1, <2>2, OthersKeepFound
  <1>8. ASSUME NEW c \in Calls, ReadStatus(c) \/ WriteResolution(c)
        PROVE  FoundOK'
    <2>1. UNCHANGED provider
      BY <1>8 DEF ReadStatus, WriteResolution, sqlVars
    <2>2. PICK s \in {"write", "return"} : To(c, s)
      BY <1>8 DEF ReadStatus, WriteResolution
    <2> DEFINE x == [calls[c] EXCEPT !.step = s]
    <2>3. calls[c] \in ResolveCall
      BY <1>8, ResolveCallTyped DEF ReadStatus, WriteResolution
    <2>4. x.step = s
      BY <2>3 DEF ResolveCall
    <2>5. calls' = [calls EXCEPT ![c] = x]
      BY <2>2 DEF To
    <2> HIDE DEF x
    <2> QED BY <2>1, <2>4, <2>5, OthersKeepFound
  <1>9. ASSUME NEW c \in Calls, ReturnDiscrepancy(c)
        PROVE  FoundOK'
    <2> DEFINE x == [calls[c] EXCEPT !.step = "answered", !.answer = discrepancies[calls[c].on]]
    <2>1. calls[c] \in ResolveCall
      BY <1>9, ResolveCallTyped DEF ReturnDiscrepancy
    <2>2. x.step = "answered"
      BY <2>1 DEF ResolveCall
    <2>3. calls' = [calls EXCEPT ![c] = x]
      BY <1>9 DEF ReturnDiscrepancy
    <2>4. UNCHANGED provider
      BY <1>9 DEF ReturnDiscrepancy, sqlVars
    <2> HIDE DEF x
    <2> QED BY <2>2, <2>3, <2>4, OthersKeepFound
  <1>10. ASSUME NEW c \in Calls, CallFails(c)
         PROVE  FoundOK'
    BY <1>10, EndKeepsFound DEF CallFails, sqlVars
  <1> QED
    BY <1>1, <1>2, <1>3, <1>4, <1>5, <1>6, <1>7, <1>8, <1>9, <1>10 DEF Next

-----------------------------------------------------------------------------
(* One import per file *)

\* The unique index makes whoever inserts wait, so that it is alone afterwards.
LEMMA InsertKeepsAlone ==
  ASSUME TypeOK, AloneOK, NEW c \in Calls, InsertImport(c)
  PROVE  AloneOK'
  <1>1. UNCHANGED imports /\ calls[c] \in ImportCall
    BY ImportCallTyped DEF InsertImport, sqlVars
  <1>2. \A d \in Calls \ {c} : calls'[d] = calls[d]
    BY DEF InsertImport, To, End, TypeOK
  <1>3. CASE End(c)
    <2>1. ~Importing(c)'
      BY <1>3 DEF End, Over, TypeOK, Importing
    <2> QED BY <1>1, <1>2, <2>1 DEF AloneOK, Importing, SameFile
  <1>4. CASE To(c, "rows") /\ ~Imported(calls[c].tenant, calls[c].file)
    <2>1. calls'[c].tenant = calls[c].tenant /\ calls'[c].file = calls[c].file
      BY <1>1, <1>4 DEF To, TypeOK, ImportCall
    <2>2. \A d \in Calls : imports[d] # None => ~SameFile(imports[d], calls[c])
      BY <1>4 DEF Imported, SameFile
    <2>3. \A d \in Calls : Importing(d) => ~SameFile(calls[d], calls[c])
      BY DEF InsertImport, Importing, SameFile
    <2> QED BY <1>1, <1>2, <2>1, <2>2, <2>3 DEF AloneOK, Importing, SameFile
  <1> QED BY <1>3, <1>4 DEF InsertImport, UniqueViolated

\* Steps in which nobody gets past its INSERT or commits.
LEMMA OthersKeepAlone ==
  ASSUME TypeOK, AloneOK, UNCHANGED imports,
         \A c \in Calls : Importing(c)' =>
           Importing(c) /\ calls'[c].tenant = calls[c].tenant /\ calls'[c].file = calls[c].file
  PROVE  AloneOK'
  BY DEF AloneOK, SameFile

LEMMA CompleteKeepsOnce ==
  ASSUME TypeOK, AloneOK, FileImportedOnce, NEW c \in Calls, CompleteImport(c)
  PROVE  AloneOK' /\ FileImportedOnce'
  <1>1. /\ Importing(c) /\ ~Importing(c)'
        /\ \A d \in Calls \ {c} : calls'[d] = calls[d]
    BY DEF CompleteImport, End, Over, Importing, TypeOK
  <1>2. /\ imports'[c].tenant = calls[c].tenant /\ imports'[c].file = calls[c].file
        /\ \A d \in Calls \ {c} : imports'[d] = imports[d]
    BY DEF CompleteImport, TypeOK
  <1>3. \A d \in Calls \ {c} : imports[d] # None => ~SameFile(imports[d], calls[c])
    BY <1>1 DEF AloneOK
  <1>4. \A d \in Calls \ {c} : Importing(d) => ~SameFile(calls[c], calls[d])
    BY <1>1 DEF AloneOK
  <1>5. AloneOK'
    BY <1>1, <1>2, <1>4 DEF AloneOK, Importing, SameFile
  <1>6. FileImportedOnce'
    BY <1>2, <1>3 DEF FileImportedOnce, SameFile
  <1> QED BY <1>5, <1>6

LEMMA StepKeepsOnce ==
  ASSUME TypeOK, AloneOK, FileImportedOnce, Next
  PROVE  AloneOK' /\ FileImportedOnce'
  <1>1. ASSUME NEW c \in Calls, InsertImport(c)
        PROVE  AloneOK' /\ FileImportedOnce'
    BY <1>1, InsertKeepsAlone DEF InsertImport, sqlVars, FileImportedOnce
  <1>2. ASSUME NEW c \in Calls, CompleteImport(c)
        PROVE  AloneOK' /\ FileImportedOnce'
    BY <1>2, CompleteKeepsOnce
  <1> DEFINE Kept == \A d \in Calls : Importing(d)' =>
                       /\ Importing(d)
                       /\ calls'[d].tenant = calls[d].tenant /\ calls'[d].file = calls[d].file
  <1>3. ASSUME UNCHANGED imports, Kept
        PROVE  AloneOK' /\ FileImportedOnce'
    BY <1>3, OthersKeepAlone DEF FileImportedOnce
  <1>4. ASSUME NEW p \in Payouts, NEW pp \in ProviderPayouts, RecordProviderPayout(p, pp)
        PROVE  UNCHANGED imports /\ Kept
    BY <1>4 DEF RecordProviderPayout, Importing
  <1>5. ASSUME NEW c \in Calls, ReconcileRow(c)
        PROVE  UNCHANGED imports /\ Kept
    <2>1. calls[c] \in ImportCall
      BY <1>5, ImportCallTyped DEF ReconcileRow
    <2>2. PICK x : calls' = [calls EXCEPT ![c].found = x]
      BY <1>5 DEF ReconcileRow
    <2> QED BY <1>5, <2>1, <2>2 DEF ReconcileRow, Importing, TypeOK, ImportCall, sqlVars
  <1>6. ASSUME NEW c \in Calls, NEW x, calls' = [calls EXCEPT ![c] = x], x.step # "rows"
        PROVE  Kept
    BY <1>6 DEF TypeOK, Importing
  <1>7. ASSUME NEW c \in Calls, End(c)
        PROVE  Kept
    <2>1. Over.step # "rows"
      BY DEF Over
    <2> QED BY <1>6, <1>7, <2>1 DEF End
  <1>8. ASSUME NEW c \in Calls, NEW s \in {"insert", "write", "return"}, To(c, s),
               calls[c] \in ImportCall \cup ResolveCall
        PROVE  Kept
    <2> DEFINE x == [calls[c] EXCEPT !.step = s]
    <2>1. x.step # "rows"
      BY <1>8 DEF ImportCall, ResolveCall
    <2>2. calls' = [calls EXCEPT ![c] = x]
      BY <1>8 DEF To
    <2> HIDE DEF x
    <2> QED BY <1>6, <2>1, <2>2
  <1>9. ASSUME NEW c \in Calls, NEW t \in Tenants, NEW f \in Files, StartImport(c, t, f)
        PROVE  UNCHANGED imports /\ Kept
    <2> DEFINE x == [step |-> "lookup", tenant |-> t, file |-> f, found |-> <<>>]
    <2>1. x.step # "rows"
      OBVIOUS
    <2>2. calls' = [calls EXCEPT ![c] = x] /\ UNCHANGED imports
      BY <1>9 DEF StartImport, sqlVars
    <2> HIDE DEF x
    <2> QED BY <1>6, <2>1, <2>2
  <1>10. ASSUME NEW c \in Calls, LookupDuplicate(c)
         PROVE  UNCHANGED imports /\ Kept
    BY <1>7, <1>8, <1>10, ImportCallTyped DEF LookupDuplicate, sqlVars
  <1>11. ASSUME NEW c \in Calls, NEW d \in Calls \X Indexes, StartResolve(c, d)
         PROVE  UNCHANGED imports /\ Kept
    <2> DEFINE x == [step |-> "read", on |-> d, answer |-> None]
    <2>1. x.step # "rows"
      OBVIOUS
    <2>2. calls' = [calls EXCEPT ![c] = x] /\ UNCHANGED imports
      BY <1>11 DEF StartResolve, sqlVars
    <2> HIDE DEF x
    <2> QED BY <1>6, <2>1, <2>2
  <1>12. ASSUME NEW c \in Calls, ReadStatus(c) \/ WriteResolution(c)
         PROVE  UNCHANGED imports /\ Kept
    <2>1. calls[c] \in ResolveCall
      BY <1>12, ResolveCallTyped DEF ReadStatus, WriteResolution
    <2>2. \E s \in {"write", "return"} : To(c, s)
      BY <1>12 DEF ReadStatus, WriteResolution
    <2> QED BY <1>8, <1>12, <2>1, <2>2 DEF ReadStatus, WriteResolution, sqlVars
  <1>13. ASSUME NEW c \in Calls, ReturnDiscrepancy(c)
         PROVE  UNCHANGED imports /\ Kept
    <2> DEFINE x == [calls[c] EXCEPT !.step = "answered", !.answer = discrepancies[calls[c].on]]
    <2>1. calls[c] \in ResolveCall
      BY <1>13, ResolveCallTyped DEF ReturnDiscrepancy
    <2>2. x.step # "rows"
      BY <2>1 DEF ResolveCall
    <2>3. calls' = [calls EXCEPT ![c] = x] /\ UNCHANGED imports
      BY <1>13 DEF ReturnDiscrepancy, sqlVars
    <2> HIDE DEF x
    <2> QED BY <1>6, <2>2, <2>3
  <1>14. ASSUME NEW c \in Calls, CallFails(c)
         PROVE  UNCHANGED imports /\ Kept
    BY <1>7, <1>14 DEF CallFails, sqlVars
  <1> HIDE DEF Kept
  <1> QED
    BY <1>1, <1>2, <1>3, <1>4, <1>5, <1>9, <1>10, <1>11, <1>12, <1>13, <1>14 DEF Next

-----------------------------------------------------------------------------
(* Resolutions *)

\* A discrepancy is never deleted.
LEMMA DiscrepanciesStay ==
  ASSUME TypeOK, ResolvingOK, Next, NEW d \in Calls \X Indexes, discrepancies[d] \in Discrepancy
  PROVE  discrepancies'[d] \in Discrepancy
  <1>1. ASSUME NEW c \in Calls, CompleteImport(c)
        PROVE  discrepancies'[d] \in Discrepancy
    <2> DEFINE found == calls[c].found
    <2>1. calls[c] \in ImportCall /\ found \in Seq(Row)
      BY <1>1, ImportCallTyped DEF CompleteImport, ImportCall
    <2>2. ASSUME NEW i \in Wrong(found)
          PROVE  [type |-> found[i].match, by |-> None] \in Discrepancy
      <3>1. found[i] \in Row /\ found[i].match # "matched"
        BY <2>1, <2>2 DEF Wrong
      <3> QED BY <3>1 DEF Row, Discrepancy
    <2> QED BY <1>1, <2>2 DEF CompleteImport
  <1>2. ASSUME NEW c \in Calls, WriteResolution(c)
        PROVE  discrepancies'[d] \in Discrepancy
    BY <1>2 DEF WriteResolution, TypeOK, Discrepancy
  <1>3. CASE UNCHANGED discrepancies
    BY <1>3
  <1> QED
    BY <1>1, <1>2, <1>3 DEF Next, RecordProviderPayout, StartImport, LookupDuplicate, InsertImport,
      ReconcileRow, StartResolve, ReadStatus, ReturnDiscrepancy, CallFails, sqlVars

LEMMA StepKeepsResolving ==
  ASSUME TypeOK, ResolvingOK, Next
  PROVE  ResolvingOK'
  <1> DEFINE Resolving(c) == calls[c].step \in {"read", "write", "return", "answered"}
             Kept == \A c \in Calls : Resolving(c)' => Resolving(c) /\ calls'[c].on = calls[c].on
  <1>1. ASSUME Kept
        PROVE  ResolvingOK'
    <2>1. ASSUME NEW c \in Calls, Resolving(c)'
          PROVE  discrepancies'[calls'[c].on] \in Discrepancy
      <3>1. Resolving(c) /\ calls'[c].on = calls[c].on
        BY <1>1, <2>1
      <3>2. calls[c].on \in Calls \X Indexes /\ discrepancies[calls[c].on] \in Discrepancy
        BY <3>1, ResolveCallTyped DEF ResolvingOK, ResolveCall
      <3> QED BY <3>1, <3>2, DiscrepanciesStay
    <2> QED BY <2>1 DEF ResolvingOK
  <1>2. ASSUME NEW c \in Calls, NEW d \in Calls \X Indexes, StartResolve(c, d)
        PROVE  ResolvingOK'
    BY <1>2 DEF StartResolve, ResolvingOK, TypeOK, sqlVars
  <1>3. ASSUME NEW c \in Calls, NEW x, calls' = [calls EXCEPT ![c] = x],
               x.step \notin {"read", "write", "return", "answered"}
        PROVE  Kept
    BY <1>3 DEF TypeOK
  <1>4. ASSUME NEW c \in Calls, End(c)
        PROVE  Kept
    <2>1. Over.step = "over"
      BY DEF Over
    <2> QED BY <1>3, <1>4, <2>1 DEF End
  <1>5. ASSUME NEW c \in Calls, NEW t \in Tenants, NEW f \in Files, StartImport(c, t, f)
        PROVE  Kept
    <2> DEFINE x == [step |-> "lookup", tenant |-> t, file |-> f, found |-> <<>>]
    <2>1. x.step = "lookup"
      OBVIOUS
    <2>2. calls' = [calls EXCEPT ![c] = x]
      BY <1>5 DEF StartImport
    <2> HIDE DEF x
    <2> QED BY <1>3, <2>1, <2>2
  <1>6. ASSUME NEW c \in Calls, LookupDuplicate(c) \/ InsertImport(c)
        PROVE  Kept
    <2>1. calls[c] \in ImportCall
      BY <1>6, ImportCallTyped DEF LookupDuplicate, InsertImport
    <2>2. ASSUME NEW s \in {"insert", "rows"}, To(c, s)
          PROVE  Kept
      <3> DEFINE x == [calls[c] EXCEPT !.step = s]
      <3>1. x.step = s
        BY <2>1 DEF ImportCall
      <3>2. calls' = [calls EXCEPT ![c] = x]
        BY <2>2 DEF To
      <3> HIDE DEF x
      <3> QED BY <1>3, <3>1, <3>2
    <2> QED BY <1>4, <1>6, <2>2 DEF LookupDuplicate, InsertImport
  <1>7. ASSUME NEW c \in Calls, ReconcileRow(c)
        PROVE  Kept
    <2>1. calls[c] \in ImportCall /\ calls[c].step = "rows"
      BY <1>7, ImportCallTyped DEF ReconcileRow
    <2>2. PICK y : calls' = [calls EXCEPT ![c].found = y]
      BY <1>7 DEF ReconcileRow
    <2> DEFINE x == [calls[c] EXCEPT !.found = y]
    <2>3. x.step = "rows"
      BY <2>1 DEF ImportCall
    <2>4. calls' = [calls EXCEPT ![c] = x]
      BY <2>2
    <2> HIDE DEF x
    <2> QED BY <1>3, <2>3, <2>4
  <1>8. ASSUME NEW c \in Calls, ReadStatus(c) \/ WriteResolution(c) \/ ReturnDiscrepancy(c)
        PROVE  Kept
    <2>1. calls[c] \in ResolveCall
      BY <1>8, ResolveCallTyped DEF ReadStatus, WriteResolution, ReturnDiscrepancy
    <2>2. calls'[c].on = calls[c].on /\ \A b \in Calls \ {c} : calls'[b] = calls[b]
      BY <1>8, <2>1 DEF ReadStatus, WriteResolution, ReturnDiscrepancy, To, TypeOK, ResolveCall
    <2> QED BY <2>1, <2>2 DEF ResolveCall
  <1>9. ASSUME NEW c \in Calls, CompleteImport(c) \/ CallFails(c)
        PROVE  Kept
    BY <1>4, <1>9 DEF CompleteImport, CallFails
  <1>10. ASSUME NEW p \in Payouts, NEW pp \in ProviderPayouts, RecordProviderPayout(p, pp)
         PROVE  Kept
    BY <1>10 DEF RecordProviderPayout
  <1> HIDE DEF Kept
  <1> QED BY <1>1, <1>2, <1>5, <1>6, <1>7, <1>8, <1>9, <1>10 DEF Next

LEMMA StepKeepsUntouched ==
  ASSUME TypeOK, ResolvingOK, UntouchedOK, Next
  PROVE  UntouchedOK'
  <1>1. ASSUME NEW c \in Calls, Fresh(c)'
        PROVE  Fresh(c)
    <2>1. ASSUME NEW b \in Calls, b # c \/ Fresh(b), \A d \in Calls \ {b} : calls'[d] = calls[d]
          PROVE  Fresh(c)
      BY <1>1, <2>1 DEF Fresh
    <2>2. ASSUME NEW b \in Calls, ~Fresh(b)', \A d \in Calls \ {b} : calls'[d] = calls[d]
          PROVE  Fresh(c)
      BY <1>1, <2>2 DEF Fresh
    <2>3. ASSUME NEW b \in Calls, NEW t \in Tenants, NEW f \in Files, StartImport(b, t, f)
          PROVE  Fresh(c)
      BY <2>1, <2>3 DEF StartImport, Fresh, Idle, TypeOK
    <2>4. ASSUME NEW b \in Calls,
                 LookupDuplicate(b) \/ InsertImport(b) \/ ReconcileRow(b) \/ CompleteImport(b)
          PROVE  Fresh(c)
      BY <2>1, <2>4
      DEF LookupDuplicate, InsertImport, ReconcileRow, CompleteImport, To, End, Fresh, TypeOK
    <2>5. ASSUME NEW b \in Calls, NEW d \in Calls \X Indexes, StartResolve(b, d)
          PROVE  Fresh(c)
      BY <2>1, <2>5 DEF StartResolve, Fresh, Idle, TypeOK
    <2>6. ASSUME NEW b \in Calls, ReadStatus(b) \/ WriteResolution(b) \/ ReturnDiscrepancy(b)
          PROVE  Fresh(c)
      <3>1. calls[b] \in ResolveCall
        BY <2>6, ResolveCallTyped DEF ReadStatus, WriteResolution, ReturnDiscrepancy
      <3> QED BY <2>2, <2>6, <3>1
        DEF ReadStatus, WriteResolution, ReturnDiscrepancy, To, Fresh, TypeOK, ResolveCall
    <2>7. ASSUME NEW b \in Calls, CallFails(b)
          PROVE  Fresh(c)
      BY <2>2, <2>7 DEF CallFails, End, Over, Fresh, TypeOK
    <2>8. ASSUME UNCHANGED calls
          PROVE  Fresh(c)
      BY <1>1, <2>8 DEF Fresh
    <2> QED BY <2>3, <2>4, <2>5, <2>6, <2>7, <2>8 DEF Next, RecordProviderPayout
  <1>2. ASSUME NEW c \in Calls, Fresh(c)', NEW i \in Indexes
        PROVE  discrepancies'[<<c, i>>] = None
    <2>1. discrepancies[<<c, i>>] = None /\ Fresh(c)
      BY <1>1, <1>2 DEF UntouchedOK
    <2>2. ASSUME NEW b \in Calls, CompleteImport(b)
          PROVE  discrepancies'[<<c, i>>] = None
      <3>1. ~Fresh(b)'
        BY <2>2 DEF CompleteImport, End, Over, Fresh, TypeOK
      <3>2. b # c
        BY <1>2, <3>1
      <3> QED BY <2>1, <2>2, <3>2 DEF CompleteImport
    <2>3. ASSUME NEW b \in Calls, WriteResolution(b)
          PROVE  discrepancies'[<<c, i>>] = None
      <3>1. discrepancies[calls[b].on] \in Discrepancy
        BY <2>3 DEF WriteResolution, ResolvingOK
      <3>2. calls[b].on # <<c, i>>
        BY <2>1, <3>1, NoneAssumption
      <3> QED BY <2>1, <2>3, <3>2 DEF WriteResolution, TypeOK
    <2>4. CASE UNCHANGED discrepancies
      BY <2>1, <2>4
    <2> QED
      BY <2>2, <2>3, <2>4 DEF Next, RecordProviderPayout, StartImport, LookupDuplicate,
        InsertImport, ReconcileRow, StartResolve, ReadStatus, ReturnDiscrepancy, CallFails, sqlVars
  <1> QED BY <1>2 DEF UntouchedOK

\* The commit of an import changes no discrepancy that exists.
LEMMA CompleteKeepsDiscrepancies ==
  ASSUME UntouchedOK, NEW c \in Calls, CompleteImport(c),
         NEW d \in Calls \X Indexes, discrepancies[d] \in Discrepancy
  PROVE  discrepancies'[d] = discrepancies[d]
  <1>1. Fresh(c)
    BY DEF CompleteImport, Fresh
  <1>2. d = <<d[1], d[2]>> /\ d[1] \in Calls /\ d[2] \in Indexes
    OBVIOUS
  <1>3. d[1] # c
    BY <1>1, <1>2, NoneAssumption DEF UntouchedOK
  <1> QED BY <1>3 DEF CompleteImport

\* Only the three steps of a resolution bring a call past its read.
LEMMA OthersKeepCalls ==
  ASSUME TypeOK, Next,
         \A b \in Calls : ~ReadStatus(b) /\ ~WriteResolution(b) /\ ~ReturnDiscrepancy(b),
         NEW c \in Calls, calls'[c].step \in {"write", "return", "answered"}
  PROVE  calls'[c] = calls[c]
  <1>1. ASSUME NEW b \in Calls, NEW x, calls' = [calls EXCEPT ![b] = x],
               x.step \notin {"write", "return", "answered"}
        PROVE  calls'[c] = calls[c]
    BY <1>1 DEF TypeOK
  <1>2. ASSUME NEW b \in Calls, End(b)
        PROVE  calls'[c] = calls[c]
    <2>1. Over.step = "over"
      BY DEF Over
    <2> QED BY <1>1, <1>2, <2>1 DEF End
  <1>3. ASSUME NEW b \in Calls, NEW s \in {"insert", "rows"}, To(b, s), calls[b] \in ImportCall
        PROVE  calls'[c] = calls[c]
    <2> DEFINE x == [calls[b] EXCEPT !.step = s]
    <2>1. x.step = s
      BY <1>3 DEF ImportCall
    <2>2. calls' = [calls EXCEPT ![b] = x]
      BY <1>3 DEF To
    <2> HIDE DEF x
    <2> QED BY <1>1, <2>1, <2>2
  <1>4. ASSUME NEW b \in Calls, NEW t \in Tenants, NEW f \in Files, StartImport(b, t, f)
        PROVE  calls'[c] = calls[c]
    <2> DEFINE x == [step |-> "lookup", tenant |-> t, file |-> f, found |-> <<>>]
    <2>1. x.step = "lookup" /\ calls' = [calls EXCEPT ![b] = x]
      BY <1>4 DEF StartImport
    <2> HIDE DEF x
    <2> QED BY <1>1, <2>1
  <1>5. ASSUME NEW b \in Calls, LookupDuplicate(b) \/ InsertImport(b)
        PROVE  calls'[c] = calls[c]
    BY <1>2, <1>3, <1>5, ImportCallTyped DEF LookupDuplicate, InsertImport
  <1>6. ASSUME NEW b \in Calls, ReconcileRow(b)
        PROVE  calls'[c] = calls[c]
    <2>1. calls[b] \in ImportCall /\ calls[b].step = "rows"
      BY <1>6, ImportCallTyped DEF ReconcileRow
    <2>2. PICK y : calls' = [calls EXCEPT ![b].found = y]
      BY <1>6 DEF ReconcileRow
    <2> DEFINE x == [calls[b] EXCEPT !.found = y]
    <2>3. x.step = "rows" /\ calls' = [calls EXCEPT ![b] = x]
      BY <2>1, <2>2 DEF ImportCall
    <2> HIDE DEF x
    <2> QED BY <1>1, <2>3
  <1>7. ASSUME NEW b \in Calls, NEW d \in Calls \X Indexes, StartResolve(b, d)
        PROVE  calls'[c] = calls[c]
    <2> DEFINE x == [step |-> "read", on |-> d, answer |-> None]
    <2>1. x.step = "read" /\ calls' = [calls EXCEPT ![b] = x]
      BY <1>7 DEF StartResolve
    <2> HIDE DEF x
    <2> QED BY <1>1, <2>1
  <1>8. ASSUME NEW b \in Calls, CompleteImport(b) \/ CallFails(b)
        PROVE  calls'[c] = calls[c]
    BY <1>2, <1>8 DEF CompleteImport, CallFails
  <1>9. ASSUME NEW p \in Payouts, NEW pp \in ProviderPayouts, RecordProviderPayout(p, pp)
        PROVE  calls'[c] = calls[c]
    BY <1>9 DEF RecordProviderPayout
  <1> QED BY <1>4, <1>5, <1>6, <1>7, <1>8, <1>9 DEF Next

\* Only a resolution changes a discrepancy that exists.
LEMMA OthersKeepDiscrepancies ==
  ASSUME UntouchedOK, Next, \A b \in Calls : ~WriteResolution(b),
         NEW d \in Calls \X Indexes, discrepancies[d] \in Discrepancy
  PROVE  discrepancies'[d] = discrepancies[d]
  <1>1. CASE UNCHANGED discrepancies
    BY <1>1
  <1> QED
    BY <1>1, CompleteKeepsDiscrepancies DEF Next, RecordProviderPayout, StartImport,
      LookupDuplicate, InsertImport, ReconcileRow, StartResolve, ReadStatus, ReturnDiscrepancy,
      CallFails, sqlVars

LEMMA ReadStep ==
  ASSUME TypeOK, NEW c \in Calls, ReadStatus(c)
  PROVE  /\ UNCHANGED sqlVars /\ \A b \in Calls \ {c} : calls'[b] = calls[b]
         /\ calls'[c].on = calls[c].on
         /\ calls'[c].step = IF discrepancies[calls[c].on].by = None THEN "write" ELSE "return"
  <1>1. calls[c] \in ResolveCall
    BY ResolveCallTyped DEF ReadStatus
  <1> QED BY <1>1 DEF ReadStatus, To, TypeOK, ResolveCall

LEMMA WriteStep ==
  ASSUME TypeOK, ResolvingOK, NEW c \in Calls, WriteResolution(c)
  PROVE  /\ \A b \in Calls \ {c} : calls'[b] = calls[b]
         /\ calls[c].on \in Calls \X Indexes /\ calls'[c].on = calls[c].on
         /\ calls'[c].step = "return"
         /\ \A d \in Calls \X Indexes : d # calls[c].on => discrepancies'[d] = discrepancies[d]
         /\ discrepancies[calls[c].on] \in Discrepancy
         /\ discrepancies'[calls[c].on] \in Discrepancy
         /\ discrepancies'[calls[c].on].by = c
  <1>1. calls[c] \in ResolveCall /\ discrepancies[calls[c].on] \in Discrepancy
    BY ResolveCallTyped DEF WriteResolution, ResolvingOK
  <1> QED BY <1>1 DEF WriteResolution, To, TypeOK, ResolveCall, Discrepancy

LEMMA StepKeepsLock ==
  ASSUME TypeOK, ResolvingOK, UntouchedOK, LockOK, Next
  PROVE  LockOK'
  <1>1. ASSUME NEW c \in Calls, ReadStatus(c)
        PROVE  LockOK'
    <2>1. \A b \in Calls : calls[b].step = "write" => calls[b].on # calls[c].on
      BY <1>1 DEF ReadStatus, Locked
    <2> QED BY <1>1, <2>1, ReadStep DEF LockOK, sqlVars
  <1>2. ASSUME NEW c \in Calls, WriteResolution(c)
        PROVE  LockOK'
    <2>1. c # None
      BY ReconciliationAssumption
    <2>2. \A b \in Calls \ {c} : calls[b].step = "write" => calls[b].on # calls[c].on
      BY <1>2 DEF WriteResolution, LockOK
    <2>3. \A b \in Calls : calls[b].step \in {"write", "return"} => calls[b].on \in Calls \X Indexes
      BY ResolveCallTyped DEF ResolveCall
    <2> QED BY <1>2, <2>1, <2>2, <2>3, WriteStep DEF LockOK
  <1>3. ASSUME NEW c \in Calls, ReturnDiscrepancy(c)
        PROVE  LockOK'
    <2>1. calls'[c].step = "answered"
      <3>1. calls[c] \in ResolveCall
        BY <1>3, ResolveCallTyped DEF ReturnDiscrepancy
      <3> QED BY <1>3, <3>1 DEF ReturnDiscrepancy, TypeOK, ResolveCall
    <2>2. /\ UNCHANGED discrepancies
          /\ \A b \in Calls \ {c} : calls'[b] = calls[b]
      BY <1>3 DEF ReturnDiscrepancy, sqlVars, TypeOK
    <2> QED BY <2>1, <2>2 DEF LockOK
  <1>4. ASSUME \A b \in Calls : ~ReadStatus(b) /\ ~WriteResolution(b) /\ ~ReturnDiscrepancy(b)
        PROVE  LockOK'
    <2>1. \A c \in Calls : calls'[c].step \in {"write", "return"} => calls'[c] = calls[c]
      BY <1>4, OthersKeepCalls
    <2>2. ASSUME NEW c \in Calls, calls[c].step \in {"write", "return"}
          PROVE  discrepancies'[calls[c].on] = discrepancies[calls[c].on]
      <3>1. calls[c].on \in Calls \X Indexes /\ discrepancies[calls[c].on] \in Discrepancy
        BY <2>2, ResolveCallTyped DEF ResolveCall, ResolvingOK
      <3> QED BY <1>4, <3>1, OthersKeepDiscrepancies
    <2> QED BY <2>1, <2>2 DEF LockOK
  <1> QED BY <1>1, <1>2, <1>3, <1>4

LEMMA StepKeepsEvents ==
  ASSUME TypeOK, ResolvingOK, UntouchedOK, LockOK, EventsOK, Next
  PROVE  EventsOK'
  <1>1. ASSUME NEW c \in Calls, CompleteImport(c), NEW d \in Calls \X Indexes
        PROVE  Resolvers(events', d) =
                 IF discrepancies'[d] = None THEN {} ELSE {discrepancies'[d].by} \ {None}
    <2>1. Resolvers(events', d) = Resolvers(events, d)
      BY <1>1 DEF CompleteImport, Resolvers
    <2>2. d = <<d[1], d[2]>> /\ d[1] \in Calls /\ d[2] \in Indexes
      BY <1>1
    <2>3. CASE discrepancies'[d] = discrepancies[d]
      BY <2>1, <2>3 DEF EventsOK
    <2>4. CASE d[1] = c /\ discrepancies'[d].by = None
      <3>1. discrepancies[d] = None
        BY <1>1, <2>2, <2>4 DEF CompleteImport, UntouchedOK, Fresh
      <3>2. Resolvers(events, d) = {}
        BY <3>1 DEF EventsOK
      <3> QED BY <2>1, <2>4, <3>2
    <2> QED BY <1>1, <2>3, <2>4 DEF CompleteImport
  <1>2. ASSUME NEW c \in Calls, WriteResolution(c), NEW d \in Calls \X Indexes
        PROVE  Resolvers(events', d) =
                 IF discrepancies'[d] = None THEN {} ELSE {discrepancies'[d].by} \ {None}
    <2> DEFINE on == calls[c].on
               new == [type |-> "resolved", import |-> on[1], row |-> on[2], by |-> c]
    <2>1. events' = events \cup {new}
      BY <1>2 DEF WriteResolution
    <2>2. on \in Calls \X Indexes /\ on = <<on[1], on[2]>>
      BY <1>2, WriteStep
    <2>3. CASE d = on
      <3>1. Resolvers(events', d) = Resolvers(events, d) \cup {c}
        <4>1. new.type = "resolved" /\ <<new.import, new.row>> = d /\ new.by = c
          BY <2>2, <2>3
        <4> HIDE DEF new, on
        <4> QED BY <2>1, <4>1 DEF Resolvers
      <3>2. discrepancies[d] # None /\ discrepancies[d].by = None
        <4>1. discrepancies[d] \in Discrepancy
          BY <1>2, <2>3, WriteStep
        <4>2. discrepancies[d].by = None
          BY <1>2, <2>3 DEF WriteResolution, LockOK
        <4> QED BY <4>1, <4>2, NoneAssumption
      <3>3. Resolvers(events, d) = {}
        BY <3>2 DEF EventsOK
      <3>4. discrepancies'[d] # None /\ discrepancies'[d].by = c
        BY <1>2, <2>3, WriteStep, NoneAssumption
      <3>5. c # None
        BY ReconciliationAssumption
      <3> QED BY <3>1, <3>3, <3>4, <3>5
    <2>4. CASE d # on
      <3>1. Resolvers(events', d) = Resolvers(events, d)
        BY <2>1, <2>2, <2>4 DEF Resolvers
      <3>2. discrepancies'[d] = discrepancies[d]
        BY <1>2, <2>4, WriteStep
      <3> QED BY <3>1, <3>2 DEF EventsOK
    <2> QED BY <2>3, <2>4
  <1>3. CASE UNCHANGED <<events, discrepancies>>
    BY <1>3 DEF EventsOK
  <1> QED
    BY <1>1, <1>2, <1>3 DEF EventsOK, Next, RecordProviderPayout, StartImport, LookupDuplicate,
      InsertImport, ReconcileRow, StartResolve, ReadStatus, ReturnDiscrepancy, CallFails, sqlVars

LEMMA StepKeepsAnswers ==
  ASSUME TypeOK, ResolvingOK, UntouchedOK, LockOK, AnswersOK, Next
  PROVE  AnswersOK'
  <1>1. ASSUME NEW c \in Calls, ReadStatus(c)
        PROVE  AnswersOK'
    <2>1. calls'[c].step # "answered"
      BY <1>1, ReadStep
    <2> QED BY <1>1, <2>1, ReadStep DEF AnswersOK, sqlVars
  <1>2. ASSUME NEW c \in Calls, WriteResolution(c)
        PROVE  AnswersOK'
    <2>1. discrepancies[calls[c].on].by = None
      BY <1>2 DEF WriteResolution, LockOK
    <2>2. ASSUME NEW b \in Calls \ {c}, calls[b].step = "answered"
          PROVE  discrepancies'[calls[b].on] = discrepancies[calls[b].on]
      <3>1. calls[b].on \in Calls \X Indexes
        BY <2>2, ResolveCallTyped DEF ResolveCall
      <3>2. calls[b].on # calls[c].on
        BY <2>1, <2>2 DEF AnswersOK
      <3> QED BY <1>2, <3>1, <3>2, WriteStep
    <2>3. calls'[c].step # "answered"
      BY <1>2, WriteStep
    <2> QED BY <1>2, <2>2, <2>3, WriteStep DEF AnswersOK
  <1>3. ASSUME NEW c \in Calls, ReturnDiscrepancy(c)
        PROVE  AnswersOK'
    <2>1. calls[c] \in ResolveCall
      BY <1>3, ResolveCallTyped DEF ReturnDiscrepancy
    <2>2. /\ UNCHANGED discrepancies /\ \A b \in Calls \ {c} : calls'[b] = calls[b]
          /\ calls'[c].answer = discrepancies[calls[c].on] /\ calls'[c].on = calls[c].on
      BY <1>3, <2>1 DEF ReturnDiscrepancy, sqlVars, TypeOK, ResolveCall
    <2>3. discrepancies[calls[c].on].by # None
      BY <1>3 DEF ReturnDiscrepancy, LockOK
    <2> QED BY <2>2, <2>3 DEF AnswersOK
  <1>4. ASSUME \A b \in Calls : ~ReadStatus(b) /\ ~WriteResolution(b) /\ ~ReturnDiscrepancy(b)
        PROVE  AnswersOK'
    <2>1. \A c \in Calls : calls'[c].step = "answered" => calls'[c] = calls[c]
      BY <1>4, OthersKeepCalls
    <2>2. ASSUME NEW c \in Calls, calls[c].step = "answered"
          PROVE  discrepancies'[calls[c].on] = discrepancies[calls[c].on]
      <3>1. calls[c].on \in Calls \X Indexes /\ discrepancies[calls[c].on] \in Discrepancy
        BY <2>2, ResolveCallTyped DEF ResolveCall, ResolvingOK
      <3> QED BY <1>4, <3>1, OthersKeepDiscrepancies
    <2> QED BY <2>1, <2>2 DEF AnswersOK
  <1> QED BY <1>1, <1>2, <1>3, <1>4

-----------------------------------------------------------------------------
(* Theorems *)

LEMMA StepTyped ==
  ASSUME TypeOK, ResolvingOK, Next
  PROVE  TypeOK'
  BY RecordTyped, CompleteTyped, WriteTyped, CallStepTyped DEF Next, CallStep

LEMMA InitIInv == Init => IInv
  <1> SUFFICES ASSUME Init PROVE IInv
    OBVIOUS
  <1>1. \A c \in Calls : calls[c] = Idle /\ calls[c].step = "idle" /\ imports[c] = None
    BY DEF Init, Idle
  <1>2. TypeOK
    BY DEF Init, TypeOK
  <1>3. FoundOK /\ AloneOK /\ FileImportedOnce
    BY <1>1 DEF FoundOK, FoundOf, AloneOK, FileImportedOnce, Importing
  <1>4. ResolvingOK /\ LockOK /\ AnswersOK
    BY <1>1 DEF ResolvingOK, LockOK, AnswersOK
  <1>5. UntouchedOK
    BY DEF Init, UntouchedOK
  <1>6. EventsOK
    <2>1. \A d : Resolvers(events, d) = {}
      BY DEF Init, Resolvers
    <2> QED BY <2>1 DEF Init, EventsOK
  <1> QED BY <1>2, <1>3, <1>4, <1>5, <1>6 DEF IInv

LEMMA StepIInv == IInv /\ [Next]_vars => IInv'
  <1> SUFFICES ASSUME IInv, [Next]_vars PROVE IInv'
    OBVIOUS
  <1>1. CASE Next
    BY <1>1, StepTyped, StepKeepsFound, StepKeepsOnce, StepKeepsResolving, StepKeepsUntouched,
       StepKeepsLock, StepKeepsEvents, StepKeepsAnswers DEF IInv
  <1>2. CASE UNCHANGED vars
    <2> USE <1>2 DEF vars
    <2>1. TypeOK'
      BY DEF IInv, TypeOK
    <2>2. FoundOK'
      BY FoundKept DEF IInv, FoundOK
    <2>3. AloneOK' /\ FileImportedOnce'
      BY DEF IInv, AloneOK, FileImportedOnce, Importing, SameFile
    <2>4. ResolvingOK' /\ LockOK' /\ AnswersOK'
      BY DEF IInv, ResolvingOK, LockOK, AnswersOK
    <2>5. UntouchedOK'
      BY DEF IInv, UntouchedOK, Fresh
    <2>6. EventsOK'
      BY DEF IInv, EventsOK
    <2> QED BY <2>1, <2>2, <2>3, <2>4, <2>5, <2>6 DEF IInv
  <1> QED BY <1>1, <1>2

\* What an import or a resolution that is under way relies on stays true.
THEOREM InductiveInvariant == Spec => []IInv
  BY InitIInv, StepIInv, PTL DEF Spec

\* Every state has the declared types.
THEOREM TypeCorrect == Spec => []TypeOK
  <1>1. IInv => TypeOK
    BY DEF IInv
  <1> QED BY <1>1, InductiveInvariant, PTL

\* A tenant's file is imported once, however many uploads of it race: the unique
\* index makes the second INSERT wait for the first transaction, so that whoever
\* reconciles a file is alone with it, and nobody has imported it before.
THEOREM FileImportedOnceHolds == Spec => []FileImportedOnce
  <1>1. IInv => FileImportedOnce
    BY DEF IInv
  <1> QED BY <1>1, InductiveInvariant, PTL

\* A discrepancy is resolved by one call, the one that its only event names, and
\* every caller is answered with that resolution: the row lock of the SELECT keeps
\* two calls from finding it open.
THEOREM ResolvedOnceHolds == Spec => []ResolvedOnce
  <1>1. IInv => ResolvedOnce
    BY DEF IInv, EventsOK, AnswersOK, ResolvedOnce, Resolvers
  <1> QED BY <1>1, InductiveInvariant, PTL

\* What a committing import says of its rows.
LEMMA CommitIsASnapshot ==
  ASSUME IInv, NEW c \in Calls, CompleteImport(c)
  PROVE  LET import == imports'[c]
             file == RowsOf[import.file]
         IN /\ Len(import.rows) = Len(file)
            /\ \A i \in DOMAIN file :
                 /\ import.rows[i] = Classified(import.tenant, file[i])
                 /\ discrepancies'[<<c, i>>] =
                      IF import.rows[i].match = "matched" THEN None
                      ELSE [type |-> import.rows[i].match, by |-> None]
            /\ import.matched + import.discrepancies = Len(file)
  <1> DEFINE found == calls[c].found
             rows == RowsOf[calls[c].file]
  <1>1. /\ imports'[c].tenant = calls[c].tenant /\ imports'[c].file = calls[c].file
        /\ imports'[c].rows = found
        /\ imports'[c].matched = Len(found) - Cardinality(Wrong(found))
        /\ imports'[c].discrepancies = Cardinality(Wrong(found))
    BY DEF CompleteImport, IInv, TypeOK
  <1>2. calls[c] \in ImportCall /\ found \in Seq(Row) /\ calls[c].file \in Files
    BY ImportCallTyped DEF CompleteImport, ImportCall, IInv
  <1>3. Len(found) = Len(rows) /\ DOMAIN found = DOMAIN rows
    BY <1>2, RowsTyped DEF CompleteImport
  <1>4. Len(found) - Cardinality(Wrong(found)) + Cardinality(Wrong(found)) = Len(rows)
    BY <1>2, <1>3, WrongCounted
  <1>5. ASSUME NEW i \in DOMAIN rows
        PROVE  /\ found[i] = Classified(calls[c].tenant, rows[i])
               /\ discrepancies'[<<c, i>>] =
                    IF found[i].match = "matched" THEN None
                    ELSE [type |-> found[i].match, by |-> None]
    <2>1. found[i] = Classified(calls[c].tenant, rows[i])
      BY <1>3, <1>5 DEF CompleteImport, IInv, FoundOK, FoundOf, Importing
    <2>2. <<c, i>> \in Calls \X Indexes
      BY <1>2, <1>5 DEF Indexes
    <2>3. discrepancies[<<c, i>>] = None
      BY <1>2, <1>5, <2>2 DEF CompleteImport, IInv, UntouchedOK, Fresh
    <2>4. i \in Wrong(found) <=> found[i].match # "matched"
      BY <1>3, <1>5 DEF Wrong
    <2>5. discrepancies'[<<c, i>>] =
            IF i \in Wrong(found) THEN [type |-> found[i].match, by |-> None]
            ELSE discrepancies[<<c, i>>]
      BY <2>2 DEF CompleteImport
    <2> QED BY <2>1, <2>3, <2>4, <2>5
  <1> QED BY <1>1, <1>3, <1>4, <1>5

\* When an import commits, it says of every row what is true then, although the
\* rows were looked up one after the other while provider ids were recorded: the
\* key-range locks of SERIALIZABLE keep each row as it was found.
THEOREM ImportIsASnapshotHolds == Spec => ImportIsASnapshot
  <1>1. IInv /\ [Next]_vars => [CommitsASnapshot]_imports
    <2> SUFFICES ASSUME IInv, [Next]_vars, imports' # imports, NEW c \in Calls,
                        imports[c] = None, imports'[c] # None
                 PROVE  CompleteImport(c)
      BY CommitIsASnapshot DEF CommitsASnapshot
    <2>1. PICK b \in Calls : CompleteImport(b)
      BY DEF Next, vars, RecordProviderPayout, StartImport, LookupDuplicate, InsertImport,
        ReconcileRow, StartResolve, ReadStatus, WriteResolution, ReturnDiscrepancy, CallFails, sqlVars
    <2>2. b = c
      BY <2>1 DEF CompleteImport, IInv, TypeOK
    <2> QED BY <2>1, <2>2
  <1> QED BY <1>1, InductiveInvariant, PTL DEF ImportIsASnapshot, Spec
=============================================================================
