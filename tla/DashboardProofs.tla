--------------------------- MODULE DashboardProofs ---------------------------
(***************************************************************************)
(* Proofs about Dashboard, for any number of handlers under way, tenants,  *)
(* imports, keys, failing requests and reloads: no payout is forgotten,    *)
(* and the view is current where it is claimed to be.                      *)
(*                                                                         *)
(* The inductive invariant says what each activity's step promises about   *)
(* its own fields (Shape), that the flag saving admits one mutation at a   *)
(* time (OneMutation), and what the server holds of the payout under way   *)
(* (Paid).  Room is about the bounds of the model alone.  On top of it,    *)
(* FormInv is about payouts, the form and the tenant shown, and ViewInv    *)
(* about what is shown: how far a read that overlaps with no   *)
(* other has come (Loaded), and what the replies under way say (Told).     *)
(***************************************************************************)
EXTENDS Dashboard, TLAPS

\* What an activity d is about is there when its step uses it; dash is the
\* dashboard shown.
Shape(d, dash) ==
  /\ d.step \in {"imports", "details", "reselect", "pick"} => d.tenant \in Tenants
  /\ d.step \in {"details", "reselect", "pick"} => d.item \in Imports
  /\ d.step = "summary" /\ d.reply = "ok" => d.tenant \in Tenants
  /\ d.step = "imports" /\ d.reply = "ok" => d.at \in 0..MaxImports
  /\ d.step = "idle" => d.kind \notin Mutations
  /\ d.step = "post" => d.kind \in Mutations
  /\ d.step = "post" /\ (d.kind # "tenant" \/ d.reply = "ok") => d.tenant \in Tenants
  /\ d.step = "post" /\ d.kind = "resolve" => d.item \in Imports
  /\ d.step = "post" /\ d.kind = "import" /\ d.reply = "ok" => d.item \in Imports
  /\ d.kind \in Mutations \ {"tenant"} \/ d.step \in {"imports", "details"} => dash # None

\* The bounds leave room for a POST that the server has not handled.
Room(d, count, chg, imp, pay, k) ==
  d.step = "post" /\ d.reply = "none" =>
    /\ d.kind = "tenant" => count < MaxTenants
    /\ d.kind = "payout" => chg[d.tenant] < MaxChanges \/ <<d.tenant, k>> \in pay
    /\ d.kind \in {"import", "resolve", "change"} => \A u \in Tenants : chg[u] < MaxChanges
    /\ d.kind = "import" => imp[d.tenant] < MaxImports

\* A payout under way has its key k from the form, is sent to the tenant shown at
\* the click, and once its POST succeeded the server has it.
Paid(d, pay, k) ==
  d.kind = "payout" =>
    /\ k < MaxKeys /\ d.of \in Tenants
    /\ d.step = "post" => d.tenant = d.of
    /\ (d.step = "post" /\ d.reply # "ok") \/ <<d.of, k>> \in pay

OneMutation ==
  /\ \A a \in Activities : doing[a].kind \in Mutations => saving
  /\ \A a, b \in Activities :
       doing[a].kind \in Mutations /\ doing[b].kind \in Mutations => a = b

IInv ==
  /\ TypeOK
  /\ \A a \in Activities : /\ Shape(doing[a], dashboard)
                           /\ Room(doing[a], tenants, changes, imports, payouts, key)
                           /\ Paid(doing[a], payouts, key)
  /\ OneMutation
  /\ list # None => dashboard # None

-----------------------------------------------------------------------------
(* Activities and requests *)

LEMMA KindsAndSteps ==
  /\ Mutations = {"tenant", "payout", "import", "resolve", "change"}
  /\ Reads = {"summary", "imports", "details", "reselect", "pick"}
BY DEF Mutations, Reads

LEMMA RestType == Rest \in Doings
BY DEF Rest, Doings

LEMMA RequestFields ==
  ASSUME NEW d \in Doings, NEW s \in Reads \cup {"session", "post"},
         NEW t \in Tenants \cup {None}, NEW i \in Imports \cup {None}
  PROVE  LET q == Request(d, s, t, i) IN
         /\ q \in Doings /\ q.kind = d.kind /\ q.of = d.of /\ q.step = s
         /\ q.tenant = t /\ q.item = i /\ q.reply = "none" /\ q.at = 0
BY DEF Request, Doings

\* The answer to a's request, as a new value of its activity.
LEMMA ReplyFields ==
  ASSUME IInv, NEW a \in Activities, NEW reply \in {"ok", "refused", "lost"},
         NEW t \in Tenants \cup {None}, NEW i \in Imports \cup {None}, NEW n \in Nat,
         Reply(a, reply, t, i, n)
  PROVE  \E q \in Doings :
           /\ doing' = [doing EXCEPT ![a] = q]
           /\ q.kind = doing[a].kind /\ q.of = doing[a].of /\ q.step = doing[a].step
           /\ q.tenant = t /\ q.item = i /\ q.reply = reply /\ q.at = n
<1> DEFINE q == [doing[a] EXCEPT !.reply = reply, !.tenant = t, !.item = i, !.at = n]
<1>1. doing[a] \in Doings
  BY DEF IInv, TypeOK
<1>2. /\ q \in Doings /\ q.kind = doing[a].kind /\ q.of = doing[a].of /\ q.step = doing[a].step
      /\ q.tenant = t /\ q.item = i /\ q.reply = reply /\ q.at = n
  BY <1>1 DEF Doings
<1>3. doing' = [doing EXCEPT ![a] = q]
  BY DEF Reply, Becomes
<1> QED
  BY <1>2, <1>3

\* An activity that is no mutation owes the bounds and the payouts nothing.
LEMMA OtherKinds ==
  ASSUME NEW d, d.kind \notin Mutations, d.step # "post",
         NEW count, NEW chg, NEW imp, NEW pay, NEW k
  PROVE  Room(d, count, chg, imp, pay, k) /\ Paid(d, pay, k)
BY KindsAndSteps DEF Room, Paid

\* Activity a moves on to d.  A mutation may change the server and the key,
\* because it is the only one; whatever else moves leaves them alone.
LEMMA MoveKeeps ==
  ASSUME IInv, NEW a \in Activities, NEW d \in Doings, doing' = [doing EXCEPT ![a] = d],
         dashboard # None => dashboard' # None,
         \/ doing[a].kind \in Mutations
         \/ UNCHANGED <<tenants, changes, imports, payouts, key>>,
         Shape(d, dashboard'),
         Room(d, tenants', changes', imports', payouts', key'),
         Paid(d, payouts', key'),
         d.kind \in Mutations => saving' /\ (doing[a].kind \in Mutations \/ ~saving),
         saving => saving' \/ doing[a].kind \in Mutations
  PROVE  /\ doing' \in [Activities -> Doings]
         /\ \A b \in Activities :
              /\ Shape(doing'[b], dashboard')
              /\ Room(doing'[b], tenants', changes', imports', payouts', key')
              /\ Paid(doing'[b], payouts', key')
         /\ OneMutation'
<1>1. doing \in [Activities -> Doings]
  BY DEF IInv, TypeOK
<1>2. doing' \in [Activities -> Doings]
  BY <1>1
<1>3. doing'[a] = d /\ \A b \in Activities \ {a} : doing'[b] = doing[b]
  BY <1>1
<1>4. \A b \in Activities \ {a} :
        doing[b].kind \in Mutations => doing[a].kind \notin Mutations /\ saving
  BY DEF IInv, OneMutation
<1>5. ASSUME NEW b \in Activities
      PROVE  /\ Shape(doing'[b], dashboard')
             /\ Room(doing'[b], tenants', changes', imports', payouts', key')
             /\ Paid(doing'[b], payouts', key')
  <2>1. CASE b = a
    BY <1>3, <2>1
  <2>2. CASE b # a
    <3>1. /\ Shape(doing[b], dashboard)
          /\ Room(doing[b], tenants, changes, imports, payouts, key)
          /\ Paid(doing[b], payouts, key)
      BY DEF IInv
    <3>2. Shape(doing[b], dashboard')
      BY <3>1 DEF Shape
    <3>3. CASE doing[b].kind \in Mutations
      <4>1. UNCHANGED <<tenants, changes, imports, payouts, key>>
        BY <1>4, <2>2, <3>3
      <4> QED
        BY <1>3, <2>2, <3>1, <3>2, <4>1
    <3>4. CASE doing[b].kind \notin Mutations
      <4>1. doing[b].step # "post"
        BY <3>1, <3>4 DEF Shape
      <4>2. /\ Room(doing[b], tenants', changes', imports', payouts', key')
            /\ Paid(doing[b], payouts', key')
        BY <3>4, <4>1, OtherKinds
      <4> QED
        BY <1>3, <2>2, <3>2, <4>2
    <3> QED
      BY <3>3, <3>4
  <2> QED
    BY <2>1, <2>2
<1>6. OneMutation'
  <2>1. ASSUME NEW b \in Activities, doing'[b].kind \in Mutations PROVE saving'
    BY <1>3, <1>4, <2>1 DEF IInv, OneMutation
  <2>2. ASSUME NEW b \in Activities, NEW c \in Activities, doing'[b].kind \in Mutations,
               doing'[c].kind \in Mutations
        PROVE  b = c
    <3>1. CASE b = a /\ c # a
      BY <1>3, <1>4, <2>2, <3>1
    <3>2. CASE b # a /\ c = a
      BY <1>3, <1>4, <2>2, <3>2
    <3>3. CASE b # a /\ c # a
      BY <1>3, <2>2, <3>3 DEF IInv, OneMutation
    <3> QED
      BY <3>1, <3>2, <3>3
  <2> QED
    BY <2>1, <2>2 DEF OneMutation
<1> QED
  BY <1>2, <1>5, <1>6

-----------------------------------------------------------------------------
(* What steps have in common *)

\* The part of the type invariant that is about the page, and that a list is
\* shown only beside a dashboard.
PageOK ==
  /\ auth \in {"starting", "gate", "in"}
  /\ dashboard \in [tenant : Tenants, at : Nat] \cup {None}
  /\ active \in Tenants \cup {None}
  /\ list \in [tenant : Tenants, count : Nat] \cup {None}
  /\ list # None => dashboard # None
  /\ selected \in Imports \cup {None}
  /\ saving \in BOOLEAN /\ loading \in BOOLEAN /\ error \in BOOLEAN
  /\ confirmed \in [Tenants -> Nat]
  /\ left \subseteq Tenants /\ overlapped \in BOOLEAN /\ trouble \in BOOLEAN
  /\ faults \in 0..MaxFaults /\ reloads \in 0..MaxReloads

ServerOK ==
  /\ tenants \in Tenants /\ changes \in [Tenants -> 0..MaxChanges]
  /\ imports \in [Tenants -> 0..MaxImports] /\ payouts \subseteq Tenants \X (1..MaxKeys)

LEMMA Facts ==
  ASSUME IInv, NEW a \in Activities
  PROVE  /\ PageOK /\ ServerOK
         /\ doing \in [Activities -> Doings] /\ doing[a] \in Doings
         /\ Shape(doing[a], dashboard) /\ Paid(doing[a], payouts, key)
         /\ Room(doing[a], tenants, changes, imports, payouts, key)
         /\ doing[a].kind \in Mutations => saving
         /\ key \in 1..MaxKeys
BY DEF IInv, TypeOK, PageOK, ServerOK, OneMutation

\* A step that leaves the server and the keys alone.
LEMMA QuietKeeps ==
  ASSUME IInv, NEW a \in Activities, NEW d \in Doings, doing' = [doing EXCEPT ![a] = d],
         UNCHANGED <<tenants, changes, imports, payouts, key, finished, abandoned>>,
         dashboard # None => dashboard' # None, PageOK',
         Shape(d, dashboard'),
         Room(d, tenants, changes, imports, payouts, key),
         Paid(d, payouts, key),
         d.kind \in Mutations => saving' /\ (doing[a].kind \in Mutations \/ ~saving),
         saving => saving' \/ doing[a].kind \in Mutations
  PROVE  IInv'
<1>1. /\ tenants' = tenants /\ changes' = changes /\ imports' = imports /\ payouts' = payouts
      /\ key' = key /\ finished' = finished /\ abandoned' = abandoned
  OBVIOUS
<1>2. /\ doing' \in [Activities -> Doings]
      /\ \A b \in Activities :
           /\ Shape(doing'[b], dashboard')
           /\ Room(doing'[b], tenants', changes', imports', payouts', key')
           /\ Paid(doing'[b], payouts', key')
      /\ OneMutation'
  BY <1>1, MoveKeeps
<1>3. TypeOK' /\ (list' # None => dashboard' # None)
  BY <1>1, <1>2 DEF IInv, TypeOK, PageOK
<1> QED
  BY <1>2, <1>3 DEF IInv

\* A load that starts.  A payout comes here only when the server has it.
LEMMA LoadKeeps ==
  ASSUME IInv, NEW a \in Activities, NEW d \in Doings, NEW t \in Tenants \cup {None},
         Load(a, d, t),
         UNCHANGED <<tenants, changes, imports, payouts, key, finished, abandoned, saving>>,
         dashboard' = dashboard, PageOK',
         d.kind = doing[a].kind \/ d.kind \notin Mutations,
         d.kind \in Mutations \ {"tenant"} => dashboard # None,
         d.kind = "payout" => key < MaxKeys /\ d.of \in Tenants /\ <<d.of, key>> \in payouts
  PROVE  IInv'
<1> DEFINE q == Request(d, "summary", t, None)
<1>1. /\ q \in Doings /\ q.kind = d.kind /\ q.of = d.of /\ q.step = "summary"
      /\ q.tenant = t /\ q.reply = "none"
  BY RequestFields, KindsAndSteps
<1>2. doing' = [doing EXCEPT ![a] = q]
  BY DEF Load, Becomes
<1> HIDE DEF q
<1>3. Shape(q, dashboard')
  BY <1>1 DEF Shape
<1>4. Room(q, tenants, changes, imports, payouts, key) /\ Paid(q, payouts, key)
  BY <1>1 DEF Room, Paid
<1>5. doing[a].kind \in Mutations => saving
  BY Facts
<1>6. saving' = saving /\ UNCHANGED <<tenants, changes, imports, payouts, key, finished, abandoned>>
  OBVIOUS
<1>7. q.kind \in Mutations => saving' /\ doing[a].kind \in Mutations
  BY <1>1, <1>5, <1>6
<1>8. (saving => saving') /\ (dashboard # None => dashboard' # None)
  BY <1>6
<1> QED
  BY <1>1, <1>2, <1>3, <1>4, <1>6, <1>7, <1>8, QuietKeeps

\* The end of an activity; that of a payout without an error closes the form.
LEMMA EndsKeeps ==
  ASSUME IInv, NEW a \in Activities, NEW failed \in BOOLEAN, Ends(a, failed),
         UNCHANGED <<tenants, changes, imports, payouts, abandoned>>,
         dashboard' = dashboard, PageOK'
  PROVE  IInv'
<1>1. /\ tenants' = tenants /\ changes' = changes /\ imports' = imports /\ payouts' = payouts
      /\ abandoned' = abandoned
  OBVIOUS
<1>2. doing' = [doing EXCEPT ![a] = Rest]
  BY DEF Ends, Becomes
<1>3. Rest.kind = "none" /\ Rest.step = "idle" /\ Rest.kind \notin Mutations
  BY KindsAndSteps DEF Rest
<1>4. /\ Shape(Rest, dashboard')
      /\ Room(Rest, tenants', changes', imports', payouts', key') /\ Paid(Rest, payouts', key')
  BY <1>3, OtherKinds DEF Shape
<1>5. saving' = IF doing[a].kind \in Mutations THEN FALSE ELSE saving
  BY DEF Ends
<1>6. Paid(doing[a], payouts, key) /\ key \in 1..MaxKeys
  BY Facts
<1>7. CASE doing[a].kind = "payout" /\ ~failed
  <2>1. /\ key' = key + 1 /\ finished' = finished \cup {<<doing[a].of, key>>}
        /\ key < MaxKeys /\ doing[a].of \in Tenants
    BY <1>6, <1>7 DEF Ends, Paid
  <2>2. /\ doing' \in [Activities -> Doings]
        /\ \A b \in Activities :
             /\ Shape(doing'[b], dashboard')
             /\ Room(doing'[b], tenants', changes', imports', payouts', key')
             /\ Paid(doing'[b], payouts', key')
        /\ OneMutation'
    BY <1>2, <1>3, <1>4, <1>5, <1>7, RestType, KindsAndSteps, MoveKeeps
  <2>3. key' \in 1..MaxKeys /\ finished' \subseteq Tenants \X (1..MaxKeys)
    BY <1>6, <2>1, DashboardAssumption DEF IInv, TypeOK
  <2>4. TypeOK' /\ (list' # None => dashboard' # None)
    BY <1>1, <2>2, <2>3 DEF IInv, TypeOK, PageOK
  <2> QED
    BY <2>2, <2>4 DEF IInv
<1>8. CASE ~(doing[a].kind = "payout" /\ ~failed)
  <2>1. key' = key /\ finished' = finished
    BY <1>8 DEF Ends
  <2>2. /\ Room(Rest, tenants, changes, imports, payouts, key) /\ Paid(Rest, payouts, key)
    BY <1>3, OtherKinds
  <2> QED
    BY <1>1, <1>2, <1>3, <1>4, <1>5, <2>1, <2>2, RestType, QuietKeeps
<1> QED
  BY <1>7, <1>8

-----------------------------------------------------------------------------
(* Sign-in, loads and their answers *)

LEMMA InitializeKeeps == ASSUME IInv, NEW a \in Activities, Initialize(a) PROVE IInv'
<1>1. /\ UNCHANGED <<tenants, changes, imports, payouts, key, finished, abandoned>>
      /\ dashboard' = dashboard /\ active' = active /\ list' = list /\ selected' = selected
      /\ saving' = saving /\ loading' = loading /\ error' = error /\ confirmed' = confirmed
      /\ left' = left /\ overlapped' = overlapped /\ trouble' = trouble
      /\ faults' = faults /\ reloads' = reloads
      /\ auth' \in {"gate", "in"}
  BY DEF Initialize, server, view, flags, history, bounds
<1>2. PageOK' /\ (dashboard # None => dashboard' # None)
  BY <1>1, Facts DEF PageOK
<1>3. doing[a].step = "idle" /\ doing[a] \in Doings /\ Shape(doing[a], dashboard)
  BY Facts DEF Initialize, Free
<1>4. CASE UNCHANGED doing
  <2>1. doing' = [doing EXCEPT ![a] = doing[a]]
    BY <1>4, Facts
  <2>2. doing[a].kind \notin Mutations
    BY <1>3 DEF Shape
  <2>3. Shape(doing[a], dashboard') /\ (saving => saving')
    BY <1>1, <1>3
  <2>4. Room(doing[a], tenants, changes, imports, payouts, key) /\ Paid(doing[a], payouts, key)
    BY Facts
  <2> QED
    BY <1>1, <1>2, <1>3, <2>1, <2>2, <2>3, <2>4, QuietKeeps
<1>5. CASE Becomes(a, Request([Rest EXCEPT !.kind = "mount"], "session", None, None))
  <2> DEFINE m == [Rest EXCEPT !.kind = "mount"]
             q == Request(m, "session", None, None)
  <2>1. m \in Doings /\ m.kind = "mount"
    BY RestType DEF Doings, Rest
  <2>2. q \in Doings /\ q.kind = "mount" /\ q.step = "session"
    <3> HIDE DEF m
    <3> QED
      BY <2>1, RequestFields
  <2>3. doing' = [doing EXCEPT ![a] = q]
    BY <1>5 DEF Becomes
  <2> HIDE DEF q
  <2>4. q.kind \notin Mutations /\ Shape(q, dashboard')
    BY <2>2, KindsAndSteps DEF Shape
  <2>5. Room(q, tenants, changes, imports, payouts, key) /\ Paid(q, payouts, key)
    BY <2>2, <2>4, OtherKinds
  <2>6. saving => saving'
    BY <1>1
  <2> QED
    BY <1>1, <1>2, <2>2, <2>3, <2>4, <2>5, <2>6, QuietKeeps
<1> QED
  BY <1>4, <1>5 DEF Initialize

LEMMA ReloadKeeps == ASSUME IInv, Reload PROVE IInv'
<1>1. /\ tenants' = tenants /\ changes' = changes /\ imports' = imports /\ payouts' = payouts
      /\ auth' = "starting" /\ dashboard' = None /\ active' = None /\ list' = None
      /\ selected' = None /\ saving' = FALSE /\ loading' = FALSE /\ error' = FALSE
      /\ key < MaxKeys /\ key' = key + 1 /\ abandoned' = abandoned \cup {key} /\ left' = {}
      /\ doing' = [a \in Activities |-> Rest] /\ confirmed' = [t \in Tenants |-> 0]
      /\ overlapped' = FALSE /\ trouble' = FALSE /\ finished' = finished /\ faults' = faults
      /\ reloads < MaxReloads /\ reloads' = reloads + 1
  BY DEF Reload, server
<1>2. TypeOK
  BY DEF IInv
<1>3. reloads' \in 0..MaxReloads /\ key' \in 1..MaxKeys /\ abandoned' \subseteq 1..MaxKeys
  BY <1>1, <1>2, DashboardAssumption DEF TypeOK
<1>4. doing' \in [Activities -> Doings] /\ confirmed' \in [Tenants -> Nat]
  BY <1>1, RestType
<1>5. TypeOK'
  BY <1>1, <1>2, <1>3, <1>4 DEF TypeOK
<1>6. Rest.kind = "none" /\ Rest.step = "idle" /\ Rest.kind \notin Mutations
  BY KindsAndSteps DEF Rest
<1>7. /\ Shape(Rest, dashboard')
      /\ Room(Rest, tenants', changes', imports', payouts', key') /\ Paid(Rest, payouts', key')
  BY <1>6, OtherKinds DEF Shape
<1>8. \A a \in Activities : doing'[a] = Rest
  BY <1>1
<1>9. OneMutation'
  BY <1>6, <1>8 DEF OneMutation
<1>10. list' # None => dashboard' # None
  BY <1>1
<1> QED
  BY <1>5, <1>7, <1>8, <1>9, <1>10 DEF IInv

LEMMA SessionArrivesKeeps == ASSUME IInv, NEW a \in Activities, SessionArrives(a) PROVE IInv'
<1>1. /\ UNCHANGED <<tenants, changes, imports, payouts, key, finished, abandoned>>
      /\ left' = left /\ auth' = auth /\ dashboard' = dashboard /\ active' = active /\ list' = list
      /\ selected' = selected /\ saving' = saving /\ confirmed' = confirmed
      /\ faults' = faults /\ reloads' = reloads
      /\ UNCHANGED <<tenants, changes, imports, payouts, key, finished, abandoned, saving>>
  BY DEF SessionArrives, server, view, bounds
<1>2. doing[a].step = "session" /\ doing[a] \in Doings /\ Shape(doing[a], dashboard)
      /\ Paid(doing[a], payouts, key) /\ PageOK
  BY Facts DEF SessionArrives, Accepted, Failed
<1>3. ASSUME NEW home \in {None, Demo}, Load(a, doing[a], home) PROVE IInv'
  <2>1. home \in Tenants \cup {None}
    BY DashboardAssumption DEF Demo, Tenants
  <2>2. loading' = TRUE /\ error' = FALSE /\ trouble' = FALSE /\ overlapped' \in BOOLEAN
    BY <1>3 DEF Load, ReadUnderWay
  <2>3. PageOK'
    BY <1>1, <1>2, <2>2 DEF PageOK
  <2>4. doing[a].kind \in Mutations \ {"tenant"} => dashboard # None
    BY <1>2 DEF Shape
  <2>5. doing[a].kind = "payout" =>
          key < MaxKeys /\ doing[a].of \in Tenants /\ <<doing[a].of, key>> \in payouts
    BY <1>2 DEF Paid
  <2> QED
    BY <1>1, <1>2, <1>3, <2>1, <2>3, <2>4, <2>5, LoadKeeps
<1>4. CASE /\ Failed(a, {"session"})
           /\ Becomes(a, Rest) /\ UNCHANGED <<loading, error, trouble, overlapped>>
  <2>1. PageOK'
    BY <1>1, <1>2, <1>4 DEF PageOK
  <2>2. Rest.kind = "none" /\ Rest.step = "idle" /\ Rest.kind \notin Mutations
    BY KindsAndSteps DEF Rest
  <2>3. /\ Shape(Rest, dashboard')
        /\ Room(Rest, tenants, changes, imports, payouts, key) /\ Paid(Rest, payouts, key)
    BY <2>2, OtherKinds DEF Shape
  <2>4. doing' = [doing EXCEPT ![a] = Rest] /\ (saving => saving')
        /\ (dashboard # None => dashboard' # None)
    BY <1>1, <1>4 DEF Becomes
  <2> QED
    BY <1>1, <2>1, <2>2, <2>3, <2>4, RestType, QuietKeeps
<1> QED
  BY <1>3, <1>4 DEF SessionArrives

LEMMA RefreshKeeps == ASSUME IInv, NEW a \in Activities, Refresh(a) PROVE IInv'
<1> DEFINE d == [Rest EXCEPT !.kind = "refresh"]
<1>1. d \in Doings /\ d.kind = "refresh"
  BY RestType DEF Doings, Rest
<1>2. d.kind \notin Mutations
  BY <1>1, KindsAndSteps
<1>3. /\ UNCHANGED <<tenants, changes, imports, payouts, key, finished, abandoned, saving>>
      /\ left' = left /\ auth' = auth /\ dashboard' = dashboard /\ active' = active /\ list' = list
      /\ selected' = selected /\ saving' = saving /\ confirmed' = confirmed
      /\ faults' = faults /\ reloads' = reloads /\ Load(a, d, active)
  BY DEF Refresh, server, view, bounds
<1>4. loading' = TRUE /\ error' = FALSE /\ trouble' = FALSE /\ overlapped' \in BOOLEAN
  BY <1>3 DEF Load, ReadUnderWay
<1>5. PageOK' /\ active \in Tenants \cup {None}
  BY <1>3, <1>4, Facts DEF PageOK
<1> HIDE DEF d
<1>6. d.kind # "payout"
  BY <1>1
<1> QED
  BY <1>1, <1>2, <1>3, <1>5, <1>6, LoadKeeps

LEMMA SummaryArrivesKeeps == ASSUME IInv, NEW a \in Activities, SummaryArrives(a) PROVE IInv'
<1> DEFINE t == doing[a].tenant
           q == Request(doing[a], "imports", t, None)
<1>1. /\ UNCHANGED <<tenants, changes, imports, payouts, key, finished, abandoned>>
      /\ auth' = auth /\ dashboard' = [tenant |-> t, at |-> doing[a].at] /\ active' = t
      /\ list' = list /\ selected' \in {None, selected} /\ saving' = saving /\ loading' = loading
      /\ error' = error /\ confirmed' = confirmed /\ overlapped' = overlapped
      /\ trouble' = trouble /\ faults' = faults /\ reloads' = reloads
  BY DEF SummaryArrives, server, flags, bounds
<1>11. left' \subseteq Tenants
  BY Facts DEF SummaryArrives, PageOK
<1>2. /\ doing[a].step = "summary" /\ doing[a].reply = "ok" /\ doing[a] \in Doings
      /\ Shape(doing[a], dashboard) /\ Paid(doing[a], payouts, key) /\ PageOK
      /\ doing[a].kind \in Mutations => saving
  BY Facts DEF SummaryArrives, Accepted
<1>3. t \in Tenants /\ doing[a].at \in Nat
  BY <1>2 DEF Shape, Doings
<1>4. dashboard' \in [tenant : Tenants, at : Nat] /\ dashboard' # None
  BY <1>1, <1>3, DashboardAssumption
<1>5. PageOK'
  BY <1>1, <1>2, <1>3, <1>4, <1>11 DEF PageOK
<1>6. /\ q \in Doings /\ q.kind = doing[a].kind /\ q.of = doing[a].of
      /\ q.step = "imports" /\ q.tenant = t
      /\ q.reply = "none"
  BY <1>2, <1>3, RequestFields, KindsAndSteps
<1>7. doing' = [doing EXCEPT ![a] = q]
  BY DEF SummaryArrives, Becomes
<1> HIDE DEF q, t
<1>8. Shape(q, dashboard')
  BY <1>3, <1>4, <1>6 DEF Shape
<1>9. Room(q, tenants, changes, imports, payouts, key) /\ Paid(q, payouts, key)
  BY <1>2, <1>6 DEF Room, Paid
<1>10. (saving => saving') /\ (q.kind \in Mutations => saving' /\ doing[a].kind \in Mutations)
  BY <1>1, <1>2, <1>6
<1> QED
  BY <1>1, <1>4, <1>5, <1>6, <1>7, <1>8, <1>9, <1>10, QuietKeeps

\* The end of a load, whatever became of it.
LEMMA LoadEndsKeeps ==
  ASSUME IInv, NEW a \in Activities, NEW failed \in BOOLEAN, LoadEnds(a, failed),
         UNCHANGED <<tenants, changes, imports, payouts, abandoned>>,
         auth' = auth, dashboard' = dashboard, active' = active, confirmed' = confirmed,
         list' \in [tenant : Tenants, count : Nat] \cup {None}, list' # None => dashboard # None,
         selected' \in Imports \cup {None}, overlapped' = overlapped, trouble' \in BOOLEAN,
         faults' = faults, reloads' = reloads
  PROVE  IInv'
<1>1. PageOK
  BY Facts
<1>2. (error \/ failed) \in BOOLEAN
  OBVIOUS
<1>3. Ends(a, error \/ failed) /\ loading' = FALSE
  BY DEF LoadEnds
<1>4. error' \in BOOLEAN /\ saving' \in BOOLEAN /\ left' \subseteq Tenants
  BY <1>1, <1>2, <1>3 DEF Ends, PageOK
<1>5. PageOK'
  BY <1>1, <1>3, <1>4 DEF PageOK
<1> QED
  BY <1>2, <1>3, <1>5, EndsKeeps

LEMMA ImportsArriveKeeps == ASSUME IInv, NEW a \in Activities, ImportsArrive(a) PROVE IInv'
<1> DEFINE t == doing[a].tenant
           wanted == Wanted(t, doing[a].at)
           q == Request(doing[a], "details", t, wanted)
<1>1. /\ UNCHANGED <<tenants, changes, imports, payouts, abandoned>>
      /\ auth' = auth /\ dashboard' = dashboard /\ active' = active
      /\ list' = [tenant |-> t, count |-> doing[a].at] /\ confirmed' = confirmed
      /\ overlapped' = overlapped /\ trouble' = trouble /\ faults' = faults /\ reloads' = reloads
  BY DEF ImportsArrive, server, bounds
<1>2. /\ doing[a].step = "imports" /\ doing[a].reply = "ok" /\ doing[a] \in Doings
      /\ Shape(doing[a], dashboard) /\ Paid(doing[a], payouts, key) /\ PageOK
      /\ doing[a].kind \in Mutations => saving
  BY Facts DEF ImportsArrive, Accepted
<1>3. t \in Tenants /\ doing[a].at \in 0..MaxImports /\ dashboard # None
  BY <1>2 DEF Shape
<1>4. list' \in [tenant : Tenants, count : Nat] \cup {None} /\ trouble' \in BOOLEAN
  BY <1>1, <1>2, <1>3 DEF PageOK
<1>5. wanted \in Imports \cup {None}
  <2>1. CASE selected # None
    BY <1>2, <2>1 DEF Wanted, PageOK
  <2>2. CASE selected = None /\ doing[a].at > 0
    <3>1. doing[a].at \in 1..MaxImports
      BY <1>3, <2>2, DashboardAssumption
    <3> QED
      BY <1>3, <2>2, <3>1 DEF Wanted, Imports
  <2>3. CASE selected = None /\ ~(doing[a].at > 0)
    BY <2>3 DEF Wanted
  <2> QED
    BY <2>1, <2>2, <2>3
<1>6. CASE wanted = None
  <2>1. selected' = None /\ LoadEnds(a, FALSE)
    BY <1>6 DEF ImportsArrive
  <2> QED
    BY <1>1, <1>2, <1>3, <1>4, <2>1, LoadEndsKeeps
<1>7. CASE wanted # None
  <2>1. /\ doing' = [doing EXCEPT ![a] = q] /\ selected' = selected /\ saving' = saving
        /\ left' = left
        /\ loading' = loading /\ error' = error
        /\ UNCHANGED <<tenants, changes, imports, payouts, key, finished, abandoned>>
    BY <1>1, <1>7 DEF ImportsArrive, Becomes, flags
  <2>2. PageOK'
    BY <1>1, <1>2, <1>3, <1>4, <2>1 DEF PageOK
  <2>3. wanted \in Imports
    BY <1>5, <1>7
  <2>4. /\ q \in Doings /\ q.kind = doing[a].kind /\ q.of = doing[a].of
        /\ q.step = "details" /\ q.tenant = t
        /\ q.item = wanted /\ q.reply = "none"
    <3> HIDE DEF t, wanted
    <3>1. "details" \in Reads \cup {"session", "post"} /\ t \in Tenants \cup {None}
      BY <1>3, KindsAndSteps
    <3>2. doing[a] \in Doings
      BY <1>2
    <3> QED
      BY <1>5, <3>1, <3>2 DEF Request, Doings
  <2> HIDE DEF q, t, wanted
  <2>5. Shape(q, dashboard')
    BY <1>1, <1>3, <2>3, <2>4 DEF Shape
  <2>6. Room(q, tenants, changes, imports, payouts, key) /\ Paid(q, payouts, key)
    BY <1>2, <2>4 DEF Room, Paid
  <2>7. /\ saving => saving'
        /\ q.kind \in Mutations => saving' /\ doing[a].kind \in Mutations
        /\ dashboard # None => dashboard' # None
    BY <1>1, <1>2, <2>1, <2>4
  <2> QED
    BY <2>1, <2>2, <2>4, <2>5, <2>6, <2>7, QuietKeeps
<1> QED
  BY <1>6, <1>7

LEMMA DetailsArriveKeeps == ASSUME IInv, NEW a \in Activities, DetailsArrive(a) PROVE IInv'
<1>1. /\ UNCHANGED <<tenants, changes, imports, payouts, abandoned>>
      /\ auth' = auth /\ dashboard' = dashboard /\ active' = active /\ list' = list
      /\ confirmed' = confirmed /\ overlapped' = overlapped /\ trouble' = trouble
      /\ faults' = faults /\ reloads' = reloads
      /\ selected' = doing[a].item /\ LoadEnds(a, FALSE) /\ doing[a].step = "details"
  BY DEF DetailsArrive, Accepted, server, bounds
<1>2. PageOK /\ doing[a].item \in Imports
  BY <1>1, Facts DEF Shape
<1>3. /\ list' \in [tenant : Tenants, count : Nat] \cup {None} /\ (list' # None => dashboard # None)
      /\ trouble' \in BOOLEAN /\ selected' \in Imports \cup {None}
  BY <1>1, <1>2 DEF PageOK
<1> QED
  BY <1>1, <1>3, LoadEndsKeeps

LEMMA LoadFailsKeeps == ASSUME IInv, NEW a \in Activities, LoadFails(a) PROVE IInv'
<1>1. /\ UNCHANGED <<tenants, changes, imports, payouts, abandoned>>
      /\ auth' = auth /\ dashboard' = dashboard /\ active' = active /\ list' = list
      /\ selected' = selected /\ confirmed' = confirmed /\ overlapped' = overlapped
      /\ faults' = faults /\ reloads' = reloads
      /\ LoadEnds(a, TRUE) /\ doing[a].step # "post"
      /\ trouble' = (trouble \/ doing[a].reply = "lost")
  BY DEF LoadFails, Failed, server, view, bounds
<1>2. PageOK
  BY Facts
<1>3. /\ list' \in [tenant : Tenants, count : Nat] \cup {None} /\ (list' # None => dashboard # None)
      /\ trouble' \in BOOLEAN /\ selected' \in Imports \cup {None}
  BY <1>1, <1>2 DEF PageOK
<1> QED
  BY <1>1, <1>3, LoadEndsKeeps

-----------------------------------------------------------------------------
(* Mutations and selections *)

LEMMA SubmitKeeps ==
  ASSUME IInv, NEW a \in Activities, NEW kind \in Mutations, Submit(a, kind) PROVE IInv'
<1> DEFINE t == IF kind = "tenant" THEN None ELSE dashboard.tenant
           i == IF kind = "resolve" THEN selected ELSE None
           d == [Rest EXCEPT !.kind = kind, !.of = t]
           q == Request(d, "post", t, i)
<1>1. /\ UNCHANGED <<tenants, changes, imports, payouts, key, finished, abandoned>>
      /\ left' = left /\ auth' = auth /\ dashboard' = dashboard /\ active' = active /\ list' = list
      /\ selected' = selected /\ saving' = TRUE /\ loading' = loading /\ error' = FALSE
      /\ trouble' = FALSE /\ confirmed' = confirmed /\ overlapped' = overlapped
      /\ faults' = faults /\ reloads' = reloads /\ ~saving
      /\ kind # "tenant" => dashboard # None
      /\ kind = "resolve" => selected # None
      /\ Within(kind) /\ doing' = [doing EXCEPT ![a] = q]
  BY DEF Submit, Becomes, server, view, bounds
<1>2. PageOK /\ key \in 1..MaxKeys
  BY Facts
<1>3. PageOK'
  BY <1>1, <1>2 DEF PageOK
<1>4. /\ t \in Tenants \cup {None} /\ (kind # "tenant" => t \in Tenants /\ t = dashboard.tenant)
      /\ i \in Imports \cup {None} /\ (kind = "resolve" => i \in Imports)
  BY <1>1, <1>2 DEF PageOK
<1>5. d \in Doings /\ d.kind = kind /\ d.of = t
  <2> HIDE DEF t
  <2> QED
    BY <1>4, RestType DEF Doings, Rest
<1> HIDE DEF t, i
<1>6. /\ q \in Doings /\ q.kind = kind /\ q.of = t /\ q.step = "post" /\ q.tenant = t /\ q.item = i
      /\ q.reply = "none"
  <2> HIDE DEF d
  <2>1. "post" \in Reads \cup {"session", "post"} /\ t \in Tenants \cup {None}
        /\ i \in Imports \cup {None}
    BY <1>4
  <2>2. d \in Doings
    BY <1>5
  <2> QED
    BY <1>5, <2>1, <2>2 DEF Request, Doings
<1> HIDE DEF d, q
<1>7. Shape(q, dashboard')
  BY <1>1, <1>4, <1>6 DEF Shape
<1>8. Room(q, tenants, changes, imports, payouts, key) /\ Paid(q, payouts, key)
  <2>1. CASE kind = "tenant"
    BY <1>1, <1>6, <2>1 DEF Within, Room, Paid
  <2>2. CASE kind = "payout"
    BY <1>1, <1>4, <1>6, <2>2 DEF Within, Room, Paid
  <2>3. CASE kind = "import"
    BY <1>1, <1>4, <1>6, <2>3 DEF Within, Room, Paid
  <2>4. CASE kind \in {"resolve", "change"}
    BY <1>1, <1>6, <2>4 DEF Within, Room, Paid
  <2> QED
    BY <2>1, <2>2, <2>3, <2>4, KindsAndSteps
<1>9. /\ saving => saving'
      /\ q.kind \in Mutations => saving' /\ ~saving
      /\ dashboard # None => dashboard' # None
  BY <1>1
<1> QED
  BY <1>1, <1>3, <1>6, <1>7, <1>8, <1>9, QuietKeeps

LEMMA PostArrivesKeeps == ASSUME IInv, NEW a \in Activities, PostArrives(a) PROVE IInv'
<1> DEFINE d == doing[a]
<1>1. /\ UNCHANGED <<tenants, changes, imports, payouts, key, finished, abandoned>>
      /\ UNCHANGED <<tenants, changes, imports, payouts, key, finished, abandoned, saving>>
      /\ left' = left /\ auth' = auth /\ dashboard' = dashboard /\ list' = list /\ saving' = saving
      /\ confirmed' = [confirmed EXCEPT ![d.tenant] = d.at]
      /\ active' \in {d.tenant, active} /\ selected' = IF d.kind = "import" THEN d.item ELSE selected
      /\ faults' = faults /\ reloads' = reloads
      /\ d.step = "post" /\ d.reply = "ok"
  BY DEF PostArrives, Accepted, server, bounds
<1>2. /\ PageOK /\ d \in Doings /\ Shape(d, dashboard) /\ Paid(d, payouts, key)
      /\ d.kind \in Mutations => saving
  BY Facts
<1>3. d.tenant \in Tenants /\ d.kind \in Mutations /\ d.at \in Nat
  BY <1>1, <1>2 DEF Shape, Doings
<1>4. /\ confirmed' \in [Tenants -> Nat] /\ active' \in Tenants \cup {None}
      /\ selected' \in Imports \cup {None}
  BY <1>1, <1>2, <1>3 DEF PageOK, Shape
<1>5. CASE d.kind = "resolve"
  <2> DEFINE q == Request(d, "reselect", dashboard.tenant, d.item)
  <2>1. /\ doing' = [doing EXCEPT ![a] = q] /\ loading' = loading /\ error' = error
        /\ trouble' = trouble /\ overlapped' = (overlapped \/ ReadUnderWay(a))
    BY <1>5 DEF PostArrives, Becomes
  <2>2. overlapped' \in BOOLEAN
    BY <1>2, <2>1 DEF PageOK
  <2>3. PageOK'
    BY <1>1, <1>2, <1>4, <2>1, <2>2 DEF PageOK
  <2>4. dashboard # None /\ d.item \in Imports /\ dashboard.tenant \in Tenants
    BY <1>1, <1>2, <1>5, KindsAndSteps DEF Shape, PageOK
  <2>5. /\ q \in Doings /\ q.kind = "resolve" /\ q.step = "reselect"
        /\ q.tenant = dashboard.tenant /\ q.item = d.item /\ q.reply = "none"
    BY <1>2, <1>5, <2>4, KindsAndSteps DEF Request, Doings
  <2> HIDE DEF q
  <2>6. Shape(q, dashboard')
    BY <1>1, <2>4, <2>5 DEF Shape
  <2>7. Room(q, tenants, changes, imports, payouts, key) /\ Paid(q, payouts, key)
    BY <2>5 DEF Room, Paid
  <2>8. /\ saving => saving'
        /\ q.kind \in Mutations => saving' /\ d.kind \in Mutations
        /\ dashboard # None => dashboard' # None
    BY <1>1, <1>2, <1>3
  <2> QED
    BY <1>1, <2>1, <2>3, <2>5, <2>6, <2>7, <2>8, QuietKeeps
<1>6. CASE d.kind # "resolve"
  <2>1. Load(a, d, d.tenant)
    BY <1>6 DEF PostArrives
  <2>2. loading' = TRUE /\ error' = FALSE /\ trouble' = FALSE /\ overlapped' \in BOOLEAN
    BY <2>1 DEF Load, ReadUnderWay
  <2>3. PageOK'
    BY <1>1, <1>2, <1>4, <2>2 DEF PageOK
  <2>4. d.kind \in Mutations \ {"tenant"} => dashboard # None
    BY <1>2 DEF Shape
  <2>5. d.kind = "payout" => key < MaxKeys /\ d.of \in Tenants /\ <<d.of, key>> \in payouts
    BY <1>1, <1>2 DEF Paid
  <2>6. d.tenant \in Tenants \cup {None}
    BY <1>3
  <2> QED
    BY <1>1, <1>2, <2>1, <2>3, <2>4, <2>5, <2>6, LoadKeeps
<1> QED
  BY <1>5, <1>6

LEMMA ReselectArrivesKeeps == ASSUME IInv, NEW a \in Activities, ReselectArrives(a) PROVE IInv'
<1>1. /\ UNCHANGED <<tenants, changes, imports, payouts, key, finished, abandoned, saving>>
      /\ left' = left /\ auth' = auth /\ dashboard' = dashboard /\ active' = active /\ list' = list
      /\ saving' = saving /\ confirmed' = confirmed /\ selected' = doing[a].item
      /\ faults' = faults /\ reloads' = reloads /\ doing[a].step = "reselect"
      /\ Load(a, doing[a], doing[a].of)
  BY DEF ReselectArrives, Accepted, server, bounds
<1>2. /\ PageOK /\ doing[a] \in Doings /\ Shape(doing[a], dashboard) /\ Paid(doing[a], payouts, key)
  BY Facts
<1>3. doing[a].of \in Tenants \cup {None} /\ doing[a].item \in Imports
  BY <1>1, <1>2 DEF Doings, Shape
<1>4. loading' = TRUE /\ error' = FALSE /\ trouble' = FALSE /\ overlapped' \in BOOLEAN
  BY <1>1 DEF Load, ReadUnderWay
<1>5. PageOK'
  BY <1>1, <1>2, <1>3, <1>4 DEF PageOK
<1>6. doing[a].kind \in Mutations \ {"tenant"} => dashboard # None
  BY <1>2 DEF Shape
<1>7. doing[a].kind = "payout" =>
        key < MaxKeys /\ doing[a].of \in Tenants /\ <<doing[a].of, key>> \in payouts
  BY <1>1, <1>2 DEF Paid
<1> QED
  BY <1>1, <1>2, <1>3, <1>5, <1>6, <1>7, LoadKeeps

LEMMA MutationFailsKeeps == ASSUME IInv, NEW a \in Activities, MutationFails(a) PROVE IInv'
<1>1. /\ UNCHANGED <<tenants, changes, imports, payouts, abandoned>>
      /\ auth' = auth /\ dashboard' = dashboard /\ active' = active /\ list' = list
      /\ selected' = selected /\ loading' = loading /\ confirmed' = confirmed
      /\ overlapped' = overlapped /\ faults' = faults /\ reloads' = reloads /\ Ends(a, TRUE)
      /\ trouble' = (trouble \/ doing[a].reply = "lost" \/ doing[a].step = "post")
  BY DEF MutationFails, server, view, bounds
<1>2. PageOK
  BY Facts
<1>3. error' \in BOOLEAN /\ saving' \in BOOLEAN /\ trouble' \in BOOLEAN /\ left' \subseteq Tenants
  BY <1>1, <1>2 DEF Ends, PageOK
<1>4. PageOK'
  BY <1>1, <1>2, <1>3 DEF PageOK
<1> QED
  BY <1>1, <1>4, EndsKeeps

LEMMA PickKeeps == ASSUME IInv, NEW a \in Activities, Pick(a) PROVE IInv'
<1> DEFINE d == [Rest EXCEPT !.kind = "select"]
<1>1. /\ UNCHANGED <<tenants, changes, imports, payouts, key, finished, abandoned>>
      /\ left' = left /\ auth' = auth /\ dashboard' = dashboard /\ active' = active /\ list' = list
      /\ selected' = selected /\ saving' = saving /\ loading' = loading /\ error' = error
      /\ confirmed' = confirmed /\ trouble' = trouble /\ faults' = faults /\ reloads' = reloads
      /\ overlapped' = (overlapped \/ ReadUnderWay(a)) /\ list # None
  BY DEF Pick, server, view, flags, bounds
<1>2. PageOK
  BY Facts
<1>3. overlapped' \in BOOLEAN /\ dashboard # None /\ dashboard.tenant \in Tenants
  BY <1>1, <1>2 DEF PageOK
<1>4. PageOK'
  BY <1>1, <1>2, <1>3 DEF PageOK
<1>5. PICK i \in Imports : Becomes(a, Request(d, "pick", dashboard.tenant, i))
  BY DEF Pick
<1> DEFINE q == Request(d, "pick", dashboard.tenant, i)
<1>6. d \in Doings /\ d.kind = "select"
  BY RestType DEF Doings, Rest
<1>7. doing' = [doing EXCEPT ![a] = q]
  BY <1>5 DEF Becomes
<1> HIDE DEF d
<1>8. /\ q \in Doings /\ q.kind = "select" /\ q.step = "pick"
      /\ q.tenant = dashboard.tenant /\ q.item = i
  BY <1>3, <1>6, KindsAndSteps DEF Request, Doings
<1> HIDE DEF q
<1>9. q.kind \notin Mutations /\ Shape(q, dashboard')
  BY <1>3, <1>8, KindsAndSteps DEF Shape
<1>10. Room(q, tenants, changes, imports, payouts, key) /\ Paid(q, payouts, key)
  BY <1>8, <1>9, OtherKinds
<1>11. (saving => saving') /\ (dashboard # None => dashboard' # None)
  BY <1>1
<1> QED
  BY <1>1, <1>4, <1>7, <1>8, <1>9, <1>10, <1>11, QuietKeeps

LEMMA PickArrivesKeeps == ASSUME IInv, NEW a \in Activities, PickArrives(a) PROVE IInv'
<1>1. /\ UNCHANGED <<tenants, changes, imports, payouts, key, finished, abandoned>>
      /\ left' = left /\ auth' = auth /\ dashboard' = dashboard /\ active' = active /\ list' = list
      /\ saving' = saving /\ loading' = loading /\ error' = error
      /\ confirmed' = confirmed /\ overlapped' = overlapped /\ trouble' = trouble
      /\ faults' = faults /\ reloads' = reloads
      /\ selected' \in {doing[a].item, selected} /\ doing[a].step = "pick"
  BY DEF PickArrives, Accepted, Failed, server, flags, history, bounds
<1>2. PageOK /\ doing[a].item \in Imports
  BY <1>1, Facts DEF Shape
<1>3. selected' \in Imports \cup {None}
  BY <1>1, <1>2 DEF PageOK
<1>4. PageOK'
  BY <1>1, <1>2, <1>3 DEF PageOK
<1>5. Rest.kind = "none" /\ Rest.step = "idle" /\ Rest.kind \notin Mutations
  BY KindsAndSteps DEF Rest
<1>6. /\ Shape(Rest, dashboard')
      /\ Room(Rest, tenants, changes, imports, payouts, key) /\ Paid(Rest, payouts, key)
  BY <1>5, OtherKinds DEF Shape
<1>7. doing' = [doing EXCEPT ![a] = Rest]
  BY DEF PickArrives, Becomes
<1>8. (saving => saving') /\ (dashboard # None => dashboard' # None)
  BY <1>1
<1> QED
  BY <1>1, <1>4, <1>5, <1>6, <1>7, <1>8, RestType, QuietKeeps

-----------------------------------------------------------------------------
(* The server *)

\* The page does not notice.
PageUnchanged ==
  /\ left' = left /\ auth' = auth /\ dashboard' = dashboard /\ active' = active /\ list' = list
  /\ selected' = selected /\ saving' = saving /\ loading' = loading /\ error' = error
  /\ key' = key /\ confirmed' = confirmed /\ finished' = finished /\ abandoned' = abandoned
  /\ overlapped' = overlapped /\ trouble' = trouble /\ reloads' = reloads
  /\ faults' \in 0..MaxFaults

\* The server has handled a POST.
LEMMA ServerKeeps ==
  ASSUME IInv, NEW a \in Activities, NEW q \in Doings, doing' = [doing EXCEPT ![a] = q],
         doing[a].kind \in Mutations, q.kind = doing[a].kind, q.step = "post",
         q.reply # "none", Shape(q, dashboard), Paid(q, payouts', key),
         PageUnchanged, ServerOK'
  PROVE  IInv'
<1>1. Room(q, tenants', changes', imports', payouts', key')
  BY DEF Room
<1>2. Shape(q, dashboard') /\ Paid(q, payouts', key')
  BY DEF PageUnchanged
<1>3. saving /\ saving'
  BY Facts DEF PageUnchanged
<1>4. dashboard # None => dashboard' # None
  BY DEF PageUnchanged
<1>5. /\ doing' \in [Activities -> Doings]
      /\ \A b \in Activities :
           /\ Shape(doing'[b], dashboard')
           /\ Room(doing'[b], tenants', changes', imports', payouts', key')
           /\ Paid(doing'[b], payouts', key')
      /\ OneMutation'
  BY <1>1, <1>2, <1>3, <1>4, MoveKeeps
<1>6. TypeOK' /\ (list' # None => dashboard' # None)
  BY <1>5 DEF IInv, TypeOK, ServerOK, PageUnchanged
<1> QED
  BY <1>5, <1>6 DEF IInv

LEMMA HandlePostKeeps ==
  ASSUME IInv, NEW a \in Activities, NEW reply \in {"ok", "lost"}, HandlePost(a, reply),
         doing[a].reply = "none", PageUnchanged
  PROVE  IInv'
<1> DEFINE d == doing[a]
           t == d.tenant
<1>1. /\ d.step = "post" /\ d \in Doings /\ Shape(d, dashboard) /\ Paid(d, payouts, key)
      /\ Room(d, tenants, changes, imports, payouts, key) /\ ServerOK /\ key \in 1..MaxKeys
  BY Facts DEF HandlePost
<1>2. /\ d.kind \in Mutations /\ (d.kind # "tenant" => t \in Tenants)
      /\ d.item \in Imports \cup {None} /\ t \in Tenants \cup {None} /\ reply \in {"ok", "refused", "lost"}
  BY <1>1 DEF Shape, Doings
<1>3. tenants \in Nat /\ tenants >= 1 /\ tenants <= MaxTenants
  BY <1>1 DEF ServerOK, Tenants
<1>4. CASE /\ d.kind = "tenant" /\ tenants' = tenants + 1
           /\ Reply(a, reply, tenants + 1, None, 0)
           /\ UNCHANGED <<changes, imports, payouts>>
  <2>1. tenants < MaxTenants
    BY <1>1, <1>4 DEF Room
  <2>2. tenants + 1 \in Tenants
    BY <1>3, <2>1, DashboardAssumption DEF Tenants
  <2>3. PICK q \in Doings :
           /\ doing' = [doing EXCEPT ![a] = q]
           /\ q.kind = d.kind /\ q.of = d.of /\ q.step = d.step /\ q.tenant = tenants + 1
           /\ q.item = None /\ q.reply = reply /\ q.at = 0
    BY <1>2, <1>4, <2>2, ReplyFields
  <2>4. ServerOK'
    BY <1>1, <1>4, <2>2 DEF ServerOK
  <2>5. Shape(q, dashboard) /\ Paid(q, payouts', key)
    BY <1>1, <1>2, <1>4, <2>2, <2>3 DEF Shape, Paid
  <2> QED
    BY <1>1, <1>2, <1>4, <2>3, <2>4, <2>5, ServerKeeps
<1>5. CASE /\ d.kind = "payout" /\ <<t, key>> \in payouts
           /\ Reply(a, reply, t, None, changes[t])
           /\ UNCHANGED server
  <2>1. t \in Tenants /\ changes[t] \in Nat
    BY <1>1, <1>2, <1>5, DashboardAssumption DEF ServerOK
  <2> DEFINE n == changes[t]
  <2> HIDE DEF n
  <2>2. PICK q \in Doings :
           /\ doing' = [doing EXCEPT ![a] = q]
           /\ q.kind = d.kind /\ q.of = d.of /\ q.step = d.step /\ q.tenant = t
           /\ q.item = None /\ q.reply = reply /\ q.at = n
    <3>1. Reply(a, reply, t, None, n) /\ None \in Imports \cup {None}
          /\ t \in Tenants \cup {None} /\ reply \in {"ok", "refused", "lost"} /\ n \in Nat
      BY <1>2, <1>5, <2>1 DEF n
    <3> HIDE DEF d, t
    <3> QED
      BY <3>1, ReplyFields DEF d
  <2>3. payouts' = payouts /\ ServerOK'
    BY <1>1, <1>5 DEF server, ServerOK
  <2>5. Shape(q, dashboard) /\ Paid(q, payouts', key)
    BY <1>1, <1>5, <2>1, <2>2, <2>3 DEF Shape, Paid
  <2> QED
    BY <1>1, <1>2, <2>2, <2>3, <2>5, ServerKeeps
<1>6. CASE /\ d.kind = "payout" /\ <<t, key>> \notin payouts
           /\ payouts' = payouts \cup {<<t, key>>}
           /\ changes' = [changes EXCEPT ![t] = @ + 1]
           /\ Reply(a, reply, t, None, changes[t] + 1)
           /\ UNCHANGED <<tenants, imports>>
  <2>1. t \in Tenants /\ changes[t] \in 0..MaxChanges /\ changes[t] < MaxChanges
    BY <1>1, <1>2, <1>6 DEF ServerOK, Room
  <2>2. changes[t] + 1 \in Nat /\ changes[t] + 1 \in 0..MaxChanges
    BY <2>1, DashboardAssumption
  <2> DEFINE n == changes[t] + 1
  <2> HIDE DEF n
  <2>3. PICK q \in Doings :
           /\ doing' = [doing EXCEPT ![a] = q]
           /\ q.kind = d.kind /\ q.of = d.of /\ q.step = d.step /\ q.tenant = t
           /\ q.item = None /\ q.reply = reply /\ q.at = n
    <3>1. Reply(a, reply, t, None, n) /\ None \in Imports \cup {None}
          /\ t \in Tenants \cup {None} /\ reply \in {"ok", "refused", "lost"} /\ n \in Nat
      BY <1>2, <1>6, <2>2 DEF n
    <3> HIDE DEF d, t
    <3> QED
      BY <3>1, ReplyFields DEF d
  <2>4. ServerOK'
    BY <1>1, <1>6, <2>1, <2>2 DEF ServerOK
  <2>5. <<t, key>> \in payouts'
    BY <1>6
  <2>6. Shape(q, dashboard) /\ Paid(q, payouts', key)
    BY <1>1, <1>6, <2>1, <2>3, <2>5 DEF Shape, Paid
  <2> QED
    BY <1>1, <1>2, <1>6, <2>3, <2>4, <2>5, <2>6, ServerKeeps
<1>7. CASE /\ d.kind = "import"
           /\ imports' = [imports EXCEPT ![t] = @ + 1]
           /\ changes' = [changes EXCEPT ![t] = @ + 1]
           /\ Reply(a, reply, t, [tenant |-> t, no |-> imports[t] + 1], changes[t] + 1)
           /\ UNCHANGED <<tenants, payouts>>
  <2> DEFINE i == [tenant |-> t, no |-> imports[t] + 1]
  <2>1. /\ t \in Tenants /\ changes[t] \in 0..MaxChanges /\ changes[t] < MaxChanges
        /\ imports[t] \in 0..MaxImports /\ imports[t] < MaxImports
    BY <1>1, <1>2, <1>7 DEF ServerOK, Room
  <2>2. /\ changes[t] + 1 \in Nat /\ changes[t] + 1 \in 0..MaxChanges
        /\ imports[t] + 1 \in 0..MaxImports /\ imports[t] + 1 \in 1..MaxImports
    BY <2>1, DashboardAssumption
  <2>3. i \in Imports
    BY <2>1, <2>2 DEF Imports
  <2> HIDE DEF i
  <2>4. PICK q \in Doings :
           /\ doing' = [doing EXCEPT ![a] = q]
           /\ q.kind = d.kind /\ q.of = d.of /\ q.step = d.step /\ q.tenant = t
           /\ q.item = i /\ q.reply = reply /\ q.at = changes[t] + 1
    <3>1. Reply(a, reply, t, i, changes[t] + 1) /\ i \in Imports \cup {None}
      BY <1>7, <2>3 DEF i
    <3> QED
      BY <1>2, <2>1, <2>2, <3>1, ReplyFields
  <2>5. ServerOK'
    BY <1>1, <1>7, <2>1, <2>2 DEF ServerOK
  <2>6. Shape(q, dashboard) /\ Paid(q, payouts', key)
    BY <1>1, <1>7, <2>1, <2>3, <2>4 DEF Shape, Paid
  <2> QED
    BY <1>1, <1>2, <1>7, <2>4, <2>5, <2>6, ServerKeeps
<1>8. CASE /\ d.kind = "resolve" /\ d.item.tenant # t
           /\ Reply(a, "refused", t, d.item, 0)
           /\ UNCHANGED server
  <2>1. PICK q \in Doings :
           /\ doing' = [doing EXCEPT ![a] = q]
           /\ q.kind = d.kind /\ q.of = d.of /\ q.step = d.step /\ q.tenant = t
           /\ q.item = d.item /\ q.reply = "refused" /\ q.at = 0
    <3>1. Reply(a, "refused", t, d.item, 0) /\ d.item \in Imports \cup {None} /\ 0 \in Nat
          /\ t \in Tenants \cup {None} /\ "refused" \in {"ok", "refused", "lost"}
      BY <1>2, <1>8
    <3> HIDE DEF d, t
    <3> QED
      BY <3>1, ReplyFields DEF d
  <2>2. payouts' = payouts /\ ServerOK'
    BY <1>1, <1>8 DEF server, ServerOK
  <2>3. Shape(q, dashboard) /\ Paid(q, payouts', key)
    BY <1>1, <1>8, <2>1 DEF Shape, Paid
  <2> QED
    BY <1>1, <1>2, <2>1, <2>2, <2>3, ServerKeeps
<1>9. CASE /\ d.kind = "change" \/ (d.kind = "resolve" /\ d.item.tenant = t)
           /\ changes' = [changes EXCEPT ![t] = @ + 1]
           /\ Reply(a, reply, t, d.item, changes[t] + 1)
           /\ UNCHANGED <<tenants, imports, payouts>>
  <2>1. t \in Tenants /\ changes[t] \in 0..MaxChanges /\ changes[t] < MaxChanges
    BY <1>1, <1>2, <1>9 DEF ServerOK, Room
  <2>2. changes[t] + 1 \in Nat /\ changes[t] + 1 \in 0..MaxChanges
    BY <2>1, DashboardAssumption
  <2> DEFINE n == changes[t] + 1
  <2> HIDE DEF n
  <2>3. PICK q \in Doings :
           /\ doing' = [doing EXCEPT ![a] = q]
           /\ q.kind = d.kind /\ q.of = d.of /\ q.step = d.step /\ q.tenant = t
           /\ q.item = d.item /\ q.reply = reply /\ q.at = n
    <3>1. Reply(a, reply, t, d.item, n) /\ d.item \in Imports \cup {None}
          /\ t \in Tenants \cup {None} /\ reply \in {"ok", "refused", "lost"} /\ n \in Nat
      BY <1>2, <1>9, <2>2 DEF n
    <3> HIDE DEF d, t
    <3> QED
      BY <3>1, ReplyFields DEF d
  <2>4. ServerOK'
    BY <1>1, <1>9, <2>1, <2>2 DEF ServerOK
  <2>5. Shape(q, dashboard) /\ Paid(q, payouts', key)
    BY <1>1, <1>9, <2>1, <2>3 DEF Shape, Paid
  <2> QED
    BY <1>1, <1>2, <1>9, <2>3, <2>4, <2>5, ServerKeeps
<1> QED
  BY <1>4, <1>5, <1>6, <1>7, <1>8, <1>9 DEF HandlePost

\* The answer to a read, or the loss of a request.
LEMMA AnswerKeeps ==
  ASSUME IInv, NEW a \in Activities, NEW reply \in {"ok", "refused", "lost"},
         NEW t \in Tenants \cup {None}, NEW i \in Imports \cup {None}, NEW n \in Nat,
         Reply(a, reply, t, i, n), UNCHANGED server, PageUnchanged,
         doing[a].step = "post" => reply = "lost" /\ t = doing[a].tenant /\ i = doing[a].item,
         doing[a].step \in {"summary", "imports", "details", "reselect", "pick"} =>
           i = doing[a].item \/ doing[a].step \in {"summary", "imports"},
         doing[a].step \in {"imports", "details", "reselect", "pick"} => t = doing[a].tenant,
         doing[a].step = "summary" /\ reply = "ok" => t \in Tenants,
         doing[a].step = "imports" /\ reply = "ok" => n \in 0..MaxImports,
         doing[a].reply = "none"
  PROVE  IInv'
<1>1. /\ Shape(doing[a], dashboard) /\ Paid(doing[a], payouts, key) /\ PageOK
      /\ doing[a].kind \in Mutations => saving
  BY Facts
<1>2. PICK q \in Doings :
         /\ doing' = [doing EXCEPT ![a] = q]
         /\ q.kind = doing[a].kind /\ q.of = doing[a].of /\ q.step = doing[a].step
         /\ q.tenant = t /\ q.item = i /\ q.reply = reply /\ q.at = n
  BY ReplyFields
<1>3. Shape(q, dashboard)
  BY <1>1, <1>2 DEF Shape
<1>4. Room(q, tenants, changes, imports, payouts, key) /\ Paid(q, payouts, key)
  BY <1>1, <1>2 DEF Room, Paid
<1>5. /\ UNCHANGED <<tenants, changes, imports, payouts, key, finished, abandoned>>
      /\ dashboard' = dashboard
  BY DEF server, PageUnchanged
<1>6. PageOK' /\ Shape(q, dashboard')
  BY <1>1, <1>3 DEF PageOK, PageUnchanged
<1>7. /\ saving => saving'
      /\ q.kind \in Mutations => saving' /\ doing[a].kind \in Mutations
      /\ dashboard # None => dashboard' # None
  BY <1>1, <1>2 DEF PageUnchanged
<1> QED
  BY <1>2, <1>4, <1>5, <1>6, <1>7, QuietKeeps

LEMMA HandleReadKeeps ==
  ASSUME IInv, NEW a \in Activities, HandleRead(a), doing[a].reply = "none", PageUnchanged
  PROVE  IInv'
<1> DEFINE d == doing[a]
           t == IF d.tenant = None THEN Demo ELSE d.tenant
<1>1. Shape(d, dashboard) /\ d \in Doings /\ ServerOK
  BY Facts
<1>2. t \in Tenants /\ (d.tenant \in Tenants => t = d.tenant)
  BY <1>1, DashboardAssumption DEF Demo, Tenants, Doings
<1>3. UNCHANGED server
  BY DEF HandleRead
<1>4. /\ changes[t] \in Nat /\ imports[t] \in Nat /\ imports[t] \in 0..MaxImports /\ 0 \in Nat
  BY <1>1, <1>2, DashboardAssumption DEF ServerOK
<1> HIDE DEF t
<1>5. CASE d.step = "session" /\ Reply(a, "ok", None, None, 0)
  BY <1>3, <1>4, <1>5, AnswerKeeps
<1>6. CASE d.step = "summary" /\ Reply(a, "ok", t, None, changes[t])
  <2>1. t \in Tenants \cup {None} /\ None \in Imports \cup {None}
    BY <1>2
  <2> DEFINE n == changes[t]
  <2>2. n \in Nat /\ Reply(a, "ok", t, None, n)
    BY <1>4, <1>6
  <2> HIDE DEF n
  <2> QED
    BY <1>2, <1>3, <1>6, <2>1, <2>2, AnswerKeeps
<1>7. CASE d.step = "imports" /\ Reply(a, "ok", t, None, imports[t])
  <2>1. t = d.tenant
    BY <1>1, <1>2, <1>7 DEF Shape
  <2> DEFINE n == imports[t]
  <2>2. n \in Nat /\ n \in 0..MaxImports /\ Reply(a, "ok", t, None, n)
    BY <1>4, <1>7
  <2>3. t \in Tenants \cup {None} /\ None \in Imports \cup {None}
    BY <1>2
  <2> HIDE DEF n
  <2> QED
    BY <1>2, <1>3, <1>7, <2>1, <2>2, <2>3, AnswerKeeps
<1>8. CASE /\ d.step \in {"details", "reselect", "pick"}
           /\ Reply(a, IF d.item.tenant = t THEN "ok" ELSE "refused", t, d.item, 0)
  <2> DEFINE reply == IF d.item.tenant = t THEN "ok" ELSE "refused"
  <2>1. t = d.tenant /\ d.item \in Imports /\ reply \in {"ok", "refused", "lost"}
    BY <1>1, <1>2, <1>8 DEF Shape
  <2>2. Reply(a, reply, t, d.item, 0)
    BY <1>8
  <2> HIDE DEF reply
  <2> QED
    BY <1>2, <1>3, <1>4, <1>8, <2>1, <2>2, AnswerKeeps
<1> QED
  BY <1>5, <1>6, <1>7, <1>8 DEF HandleRead, t

LEMMA HandleKeeps == ASSUME IInv, NEW a \in Activities, Handle(a) PROVE IInv'
<1>1. PageUnchanged /\ doing[a].reply = "none"
  BY Facts DEF Handle, PageUnchanged, PageOK, view, flags, history, bounds
<1> QED
  BY <1>1, HandlePostKeeps, HandleReadKeeps DEF Handle

LEMMA LoseKeeps == ASSUME IInv, NEW a \in Activities, Lose(a) PROVE IInv'
<1>1. PageOK /\ doing[a] \in Doings /\ Shape(doing[a], dashboard)
  BY Facts
<1>2. faults' \in 0..MaxFaults
  BY <1>1, DashboardAssumption DEF Lose, PageOK
<1>3. PageUnchanged /\ doing[a].reply = "none"
  BY <1>2 DEF Lose, PageUnchanged, view, flags, history
<1>4. CASE HandlePost(a, "lost")
  BY <1>3, <1>4, HandlePostKeeps
<1>5. CASE Reply(a, "lost", doing[a].tenant, doing[a].item, 0) /\ UNCHANGED server
  <2>1. /\ doing[a].tenant \in Tenants \cup {None} /\ doing[a].item \in Imports \cup {None}
        /\ 0 \in Nat
    BY <1>1 DEF Doings
  <2> QED
    BY <1>3, <1>5, <2>1, AnswerKeeps
<1> QED
  BY <1>4, <1>5 DEF Lose

-----------------------------------------------------------------------------
(* The theorems *)

LEMMA InitHolds == ASSUME Init PROVE IInv
<1>1. Rest.kind = "none" /\ Rest.step = "idle" /\ Rest.kind \notin Mutations
  BY KindsAndSteps DEF Rest
<1>2. doing \in [Activities -> Doings] /\ \A a \in Activities : doing[a] = Rest
  BY RestType DEF Init
<1>3. OneMutation
  BY <1>1, <1>2 DEF OneMutation
<1>4. \A a \in Activities : /\ Shape(doing[a], dashboard)
                            /\ Room(doing[a], tenants, changes, imports, payouts, key)
                            /\ Paid(doing[a], payouts, key)
  BY <1>1, <1>2, OtherKinds DEF Shape
<1>5. TypeOK
  <2>1. /\ tenants \in Tenants /\ key \in 1..MaxKeys /\ faults \in 0..MaxFaults
        /\ reloads \in 0..MaxReloads
    BY DashboardAssumption DEF Init, Tenants
  <2>2. changes \in [Tenants -> 0..MaxChanges] /\ confirmed \in [Tenants -> Nat]
    BY DashboardAssumption DEF Init
  <2>3. imports \in [Tenants -> 0..MaxImports]
    <3>1. PICK n \in 0..MaxImports : imports = [t \in Tenants |-> IF t = Demo THEN n ELSE 0]
      BY DEF Init
    <3>2. 0 \in 0..MaxImports
      BY DashboardAssumption
    <3> QED
      BY <3>1, <3>2
  <2>4. /\ payouts = {} /\ finished = {} /\ abandoned = {} /\ left = {} /\ auth = "starting"
        /\ dashboard = None /\ active = None /\ list = None /\ selected = None
        /\ saving = FALSE /\ loading = FALSE /\ error = FALSE
        /\ overlapped = FALSE /\ trouble = FALSE
    BY DEF Init
  <2> QED
    BY <1>2, <2>1, <2>2, <2>3, <2>4 DEF TypeOK
<1>6. list # None => dashboard # None
  BY DEF Init
<1> QED
  BY <1>3, <1>4, <1>5, <1>6 DEF IInv

LEMMA StepHolds == ASSUME IInv, [Next]_vars PROVE IInv'
<1>1. ASSUME NEW a \in Activities, Clicks(a) PROVE IInv'
  BY <1>1, RefreshKeeps, PickKeeps, SubmitKeeps DEF Clicks
<1>2. ASSUME NEW a \in Activities, Arrives(a) PROVE IInv'
  BY <1>2, SessionArrivesKeeps, SummaryArrivesKeeps, ImportsArriveKeeps, DetailsArriveKeeps,
     LoadFailsKeeps, PostArrivesKeeps, ReselectArrivesKeeps, MutationFailsKeeps,
     PickArrivesKeeps DEF Arrives
<1>3. CASE UNCHANGED vars
  <2>1. /\ UNCHANGED <<tenants, changes, imports, payouts, auth, dashboard, active, list>>
        /\ UNCHANGED <<selected, saving, loading, error, key, doing>>
        /\ UNCHANGED <<confirmed, finished, abandoned, left, overlapped, trouble, faults, reloads>>
    BY <1>3 DEF vars, server, view, flags, history, bounds
  <2>2. TypeOK' /\ (list' # None => dashboard' # None)
    BY <2>1 DEF IInv, TypeOK
  <2>3. OneMutation'
    BY <2>1 DEF IInv, OneMutation
  <2>4. \A a \in Activities : /\ Shape(doing'[a], dashboard')
                              /\ Room(doing'[a], tenants', changes', imports', payouts', key')
                              /\ Paid(doing'[a], payouts', key')
    BY <2>1 DEF IInv
  <2> QED
    BY <2>2, <2>3, <2>4 DEF IInv
<1> QED
  BY <1>1, <1>2, <1>3, InitializeKeeps, ReloadKeeps, HandleKeeps, LoseKeeps DEF Next

\* The invariant the others follow from: one mutation at a time, each step with
\* what it needs, and a payout whose POST succeeded is at the server.
THEOREM InductiveInvariant == Spec => []IInv
<1>1. Init => IInv
  BY InitHolds
<1>2. IInv /\ [Next]_vars => IInv'
  BY StepHolds
<1> QED
  BY <1>1, <1>2, PTL DEF Spec

\* Every variable keeps its type: among others the page never asks for an
\* import that a list of its tenant could not hold.
THEOREM TypeCorrect == Spec => []TypeOK
<1>1. IInv => TypeOK
  BY DEF IInv
<1> QED
  BY <1>1, InductiveInvariant, PTL

-----------------------------------------------------------------------------
(* The payout form *)

\* The page shows the tenant of the payout under way, or has turned from it.
FormInv ==
  /\ \A a \in Activities :
       doing[a].kind = "payout" => Showing(doing[a].of) \/ doing[a].of \in left
  /\ NoPayoutIsForgotten

\* What is under way afterwards was under way before, for the same tenant.
SameForms ==
  \A b \in Activities :
    doing'[b].kind = "payout" => doing[b].kind = "payout" /\ doing'[b].of = doing[b].of

LEMMA MoveForms ==
  ASSUME IInv, NEW a \in Activities, NEW d, doing' = [doing EXCEPT ![a] = d],
         d.kind = "payout" => doing[a].kind = "payout" /\ d.of = doing[a].of
  PROVE  SameForms
BY DEF IInv, TypeOK, SameForms

\* A step that adds no payout, closes no form and keeps the page's tenant in
\* mind where the form was sent to it.
LEMMA FormStays ==
  ASSUME IInv, FormInv, SameForms, UNCHANGED <<payouts, key, finished, abandoned>>,
         \A t \in Tenants : (Showing(t) \/ t \in left) /\ FormSentTo(t) =>
           Showing(t)' \/ t \in left'
  PROVE  FormInv'
<1>1. payouts' = payouts /\ key' = key /\ finished' = finished /\ abandoned' = abandoned
  OBVIOUS
<1>2. ASSUME NEW b \in Activities, doing'[b].kind = "payout"
      PROVE  (Showing(doing[b].of) \/ doing[b].of \in left)'
  <2>1. /\ doing[b].kind = "payout" /\ doing'[b].of = doing[b].of /\ doing[b].of \in Tenants
        /\ Showing(doing[b].of) \/ doing[b].of \in left
    BY <1>2, Facts DEF SameForms, FormInv, Paid
  <2>2. FormSentTo(doing[b].of)
    BY <2>1 DEF FormSentTo
  <2>3. PICK t \in Tenants : t = doing[b].of
    BY <2>1
  <2>4. Showing(t)' \/ t \in left'
    BY <2>1, <2>2, <2>3
  <2> QED
    BY <2>1, <2>3, <2>4 DEF Showing
<1>3. ASSUME NEW p \in payouts, p[2] = key, Showing(p[1]) \/ p[1] \in left
      PROVE  Showing(p[1])' \/ p[1] \in left'
  <2>1. PICK t \in Tenants, k \in 1..MaxKeys : p = <<t, k>>
    BY DEF IInv, TypeOK
  <2>2. t = p[1] /\ <<t, key>> \in payouts
    BY <1>3, <2>1
  <2>3. (Showing(t) \/ t \in left) /\ FormSentTo(t)
    BY <1>3, <2>2 DEF FormSentTo
  <2>4. Showing(t)' \/ t \in left'
    BY <2>3
  <2> QED
    BY <2>2, <2>4 DEF Showing
<1>4. NoPayoutIsForgotten'
  BY <1>1, <1>3 DEF FormInv, NoPayoutIsForgotten, Showing
<1>5. \A b \in Activities :
        doing'[b].kind = "payout" => (Showing(doing[b].of) \/ doing[b].of \in left)'
  BY <1>2 DEF Showing
<1> QED
  BY <1>4, <1>5 DEF FormInv

LEMMA FormQuiet ==
  ASSUME IInv, FormInv, SameForms, UNCHANGED <<payouts, key, finished, abandoned>>,
         dashboard' = dashboard, left' = left
  PROVE  FormInv'
<1>1. \A t \in Tenants :
        (Showing(t) \/ t \in left) /\ FormSentTo(t) => Showing(t)' \/ t \in left'
  BY DEF Showing
<1> QED
  BY <1>1, FormStays

\* Closing the form: another tenant's payout with its key is the second exception.
LEMMA EndsForm ==
  ASSUME IInv, FormInv, NEW a \in Activities, NEW failed \in BOOLEAN, Ends(a, failed),
         UNCHANGED <<payouts, abandoned>>, dashboard' = dashboard,
         doing[a].kind = "payout" /\ ~failed => doing[a].step # "post"
  PROVE  FormInv'
<1>1. doing' = [doing EXCEPT ![a] = Rest] /\ Rest.kind = "none"
  BY DEF Ends, Becomes, Rest
<1>2. SameForms
  BY <1>1, MoveForms
<1>3. CASE ~(doing[a].kind = "payout" /\ ~failed)
  BY <1>2, <1>3, FormQuiet DEF Ends
<1>4. CASE doing[a].kind = "payout" /\ ~failed
  <2> DEFINE o == doing[a].of
  <2>1. o \in Tenants /\ <<o, key>> \in payouts
    BY <1>4, Facts DEF Paid
  <2>2. finished' = finished \cup {<<o, key>>} /\ payouts' = payouts /\ abandoned' = abandoned
    BY <1>4 DEF Ends
  <2>3. ASSUME NEW b \in Activities PROVE doing'[b].kind # "payout"
    <3>1. CASE b = a
      BY <1>1, <3>1 DEF IInv, TypeOK
    <3>2. CASE b # a
      <4>1. doing'[b] = doing[b]
        BY <1>1, <3>2 DEF IInv, TypeOK
      <4> QED
        BY <1>4, <3>2, <4>1 DEF IInv, OneMutation, Mutations
    <3> QED
      BY <3>1, <3>2
  <2> HIDE DEF o
  <2>4. ASSUME NEW p \in payouts
        PROVE  \/ p \in finished' \/ p[2] \in abandoned'
               \/ \E t \in Tenants \ {p[1]} : <<t, p[2]>> \in finished'
    <3>1. PICK u \in Tenants, k \in 1..MaxKeys : p = <<u, k>>
      BY DEF IInv, TypeOK
    <3>2. p[1] = u /\ p[2] = k
      BY <3>1
    <3>3. CASE k = key
      BY <2>1, <2>2, <3>1, <3>2, <3>3
    <3>4. CASE k # key
      BY <2>2, <3>2, <3>4 DEF FormInv, NoPayoutIsForgotten
    <3> QED
      BY <3>3, <3>4
  <2>5. finished' \subseteq payouts'
    BY <2>1, <2>2 DEF FormInv, NoPayoutIsForgotten
  <2>6. NoPayoutIsForgotten'
    BY <2>2, <2>4, <2>5 DEF NoPayoutIsForgotten
  <2> QED
    BY <2>3, <2>6 DEF FormInv
<1> QED
  BY <1>3, <1>4

\* A request of the same activity, for what it is about.
LEMMA RequestForms ==
  ASSUME IInv, NEW a \in Activities, NEW d, NEW s, NEW t, NEW i,
         d = doing[a] \/ (d \in Doings /\ d.kind # "payout"), Becomes(a, Request(d, s, t, i))
  PROVE  SameForms
<1> DEFINE q == Request(d, s, t, i)
<1>1. d \in Doings
  BY DEF IInv, TypeOK
<1>2. q.kind = d.kind /\ q.of = d.of
  BY <1>1 DEF Request, Doings
<1>3. doing' = [doing EXCEPT ![a] = q]
  BY DEF Becomes
<1> HIDE DEF q
<1>4. q.kind = "payout" => doing[a].kind = "payout" /\ q.of = doing[a].of
  BY <1>2
<1> QED
  BY <1>3, <1>4, MoveForms

LEMMA RestForms ==
  ASSUME IInv, NEW a \in Activities, Becomes(a, Rest)
  PROVE  SameForms
<1>1. doing' = [doing EXCEPT ![a] = Rest] /\ Rest.kind = "none"
  BY DEF Becomes, Rest
<1> QED
  BY <1>1, MoveForms

\* Clicks, and the answers that close no form.
LEMMA PageForm ==
  ASSUME IInv, FormInv, NEW a \in Activities,
         \/ Initialize(a) \/ Refresh(a) \/ Pick(a) \/ SessionArrives(a) \/ PostArrives(a)
         \/ ReselectArrives(a) \/ PickArrives(a)
  PROVE  FormInv'
<1>1. UNCHANGED <<payouts, key, finished, abandoned>> /\ dashboard' = dashboard /\ left' = left
  BY DEF Initialize, Refresh, Pick, SessionArrives, PostArrives, ReselectArrives, PickArrives,
     server, view, flags, history, bounds
<1>2. \A k \in {"mount", "refresh", "select"} :
        /\ [Rest EXCEPT !.kind = k] \in Doings
        /\ [Rest EXCEPT !.kind = k].kind # "payout"
  BY DEF Rest, Doings
<1>3. CASE Initialize(a)
  <2>1. doing' = doing => SameForms
    BY DEF SameForms
  <2>2. Becomes(a, Request([Rest EXCEPT !.kind = "mount"], "session", None, None)) => SameForms
    BY <1>2, RequestForms
  <2>3. SameForms
    BY <1>3, <2>1, <2>2 DEF Initialize
  <2> QED
    BY <1>1, <2>3, FormQuiet
<1>4. CASE Refresh(a)
  <2>1. Becomes(a, Request([Rest EXCEPT !.kind = "refresh"], "summary", active, None))
    BY <1>4 DEF Refresh, Load
  <2> QED
    BY <1>1, <1>2, <2>1, RequestForms, FormQuiet
<1>5. CASE Pick(a)
  <2>1. PICK i : Becomes(a, Request([Rest EXCEPT !.kind = "select"], "pick", dashboard.tenant, i))
    BY <1>5 DEF Pick
  <2> QED
    BY <1>1, <1>2, <2>1, RequestForms, FormQuiet
<1>6. CASE SessionArrives(a)
  <2>1. \/ \E home : Becomes(a, Request(doing[a], "summary", home, None))
        \/ Becomes(a, Rest)
    BY <1>6 DEF SessionArrives, Load
  <2>2. SameForms
    BY <2>1, RequestForms, RestForms
  <2> QED
    BY <1>1, <2>2, FormQuiet
<1>7. CASE PostArrives(a)
  <2>1. \E s, t, i : Becomes(a, Request(doing[a], s, t, i))
    BY <1>7 DEF PostArrives, Load
  <2>2. SameForms
    BY <2>1, RequestForms
  <2> QED
    BY <1>1, <2>2, FormQuiet
<1>8. CASE ReselectArrives(a)
  <2>1. Becomes(a, Request(doing[a], "summary", doing[a].of, None))
    BY <1>8 DEF ReselectArrives, Load
  <2>2. SameForms
    BY <2>1, RequestForms
  <2> QED
    BY <1>1, <2>2, FormQuiet
<1>9. CASE PickArrives(a)
  BY <1>1, <1>9, RestForms, FormQuiet DEF PickArrives
<1> QED
  BY <1>3, <1>4, <1>5, <1>6, <1>7, <1>8, <1>9

LEMMA SubmitForm ==
  ASSUME IInv, FormInv, NEW a \in Activities, NEW kind \in Mutations, Submit(a, kind)
  PROVE  FormInv'
<1> DEFINE t == IF kind = "tenant" THEN None ELSE dashboard.tenant
           i == IF kind = "resolve" THEN selected ELSE None
           q == Request([Rest EXCEPT !.kind = kind, !.of = t], "post", t, i)
<1>1. /\ doing' = [doing EXCEPT ![a] = q]
      /\ UNCHANGED <<payouts, key, finished, abandoned>> /\ dashboard' = dashboard /\ left' = left
      /\ kind # "tenant" => dashboard # None
  BY DEF Submit, Becomes, server, view
<1>2. kind = "payout" => Showing(t)
  BY <1>1 DEF Showing
<1> HIDE DEF t, i
<1>3. q.kind = kind /\ q.of = t
  BY DEF Request, Rest
<1> HIDE DEF q
<1>4. ASSUME NEW b \in Activities, doing'[b].kind = "payout"
      PROVE  Showing(doing'[b].of) \/ doing'[b].of \in left
  <2>1. CASE b = a
    <3>1. doing'[b] = q
      BY <1>1, <1>3, <2>1 DEF IInv, TypeOK
    <3> QED
      BY <1>2, <1>3, <1>4, <3>1
  <2>2. CASE b # a
    <3>1. doing'[b] = doing[b]
      BY <1>1, <2>2 DEF IInv, TypeOK
    <3> QED
      BY <1>4, <3>1 DEF FormInv
  <2> QED
    BY <2>1, <2>2
<1>5. \A b \in Activities :
        doing'[b].kind = "payout" => (Showing(doing[b].of) \/ doing[b].of \in left)'
  BY <1>1, <1>4 DEF Showing
<1>6. NoPayoutIsForgotten'
  BY <1>1 DEF FormInv, NoPayoutIsForgotten, Showing
<1> QED
  BY <1>5, <1>6 DEF FormInv

\* The page turns to another tenant.
LEMMA SummaryForm ==
  ASSUME IInv, FormInv, NEW a \in Activities, SummaryArrives(a)
  PROVE  FormInv'
<1> DEFINE t == doing[a].tenant
<1>1. /\ UNCHANGED <<payouts, key, finished, abandoned>>
      /\ dashboard' = [tenant |-> t, at |-> doing[a].at]
      /\ left' = left \cup {u \in Tenants \ {t} : Showing(u) /\ FormSentTo(u)}
      /\ Becomes(a, Request(doing[a], "imports", t, None))
      /\ doing[a].step = "summary" /\ doing[a].reply = "ok"
  BY DEF SummaryArrives, Accepted, server
<1>2. t \in Tenants /\ doing[a].at \in Nat
  BY <1>1, Facts DEF Shape, Doings
<1> HIDE DEF t
<1>3. dashboard' # None /\ dashboard'.tenant = t
  BY <1>1, <1>2, DashboardAssumption
<1>4. SameForms
  BY <1>1, RequestForms
<1>5. ASSUME NEW u \in Tenants, Showing(u) \/ u \in left, FormSentTo(u)
      PROVE  Showing(u)' \/ u \in left'
  <2>1. CASE u = t
    BY <1>3, <2>1 DEF Showing
  <2>2. CASE u # t
    BY <1>1, <1>5, <2>2
  <2> QED
    BY <2>1, <2>2
<1> QED
  BY <1>1, <1>4, <1>5, FormStays

\* The other steps of a load, and the failures.
LEMMA LoadForm ==
  ASSUME IInv, FormInv, NEW a \in Activities,
         ImportsArrive(a) \/ DetailsArrive(a) \/ LoadFails(a) \/ MutationFails(a)
  PROVE  FormInv'
<1>1. UNCHANGED <<payouts, abandoned>> /\ dashboard' = dashboard
  BY DEF ImportsArrive, DetailsArrive, LoadFails, MutationFails, server, view
<1>2. error \in BOOLEAN
  BY DEF IInv, TypeOK
<1>3. ASSUME NEW failed \in BOOLEAN, LoadEnds(a, failed), doing[a].step # "post" PROVE FormInv'
  <2>1. (error \/ failed) \in BOOLEAN /\ Ends(a, error \/ failed)
    BY <1>2, <1>3 DEF LoadEnds
  <2> QED
    BY <1>1, <1>3, <2>1, EndsForm
<1>4. CASE ImportsArrive(a)
  <2>1. doing[a].step # "post"
    BY <1>4 DEF ImportsArrive, Accepted
  <2>2. CASE LoadEnds(a, FALSE)
    BY <1>3, <2>1, <2>2
  <2>3. CASE ~LoadEnds(a, FALSE)
    <3>1. /\ \E s, t, i : Becomes(a, Request(doing[a], s, t, i))
          /\ UNCHANGED <<payouts, key, finished, abandoned>> /\ left' = left
      BY <1>1, <1>4, <2>3 DEF ImportsArrive
    <3>2. SameForms
      BY <3>1, RequestForms
    <3> QED
      BY <1>1, <3>1, <3>2, FormQuiet
  <2> QED
    BY <2>2, <2>3
<1>5. CASE DetailsArrive(a)
  BY <1>3, <1>5 DEF DetailsArrive, Accepted
<1>6. CASE LoadFails(a)
  BY <1>3, <1>6 DEF LoadFails, Failed
<1>7. CASE MutationFails(a)
  <2>1. Ends(a, TRUE)
    BY <1>7 DEF MutationFails
  <2> QED
    BY <1>1, <2>1, EndsForm
<1> QED
  BY <1>4, <1>5, <1>6, <1>7

\* The server handles or answers a request, or it is lost.
LEMMA ServerForm ==
  ASSUME IInv, FormInv, NEW a \in Activities, Handle(a) \/ Lose(a)
  PROVE  FormInv'
<1>1. key' = key /\ dashboard' = dashboard /\ UNCHANGED <<finished, abandoned, left>>
  BY DEF Handle, Lose, view, history
<1>2. \E reply, t, i, n : Reply(a, reply, t, i, n)
  BY DEF Handle, Lose, HandlePost, HandleRead
<1>3. SameForms
  <2>1. PICK reply, t, i, n : Reply(a, reply, t, i, n)
    BY <1>2
  <2> DEFINE q == [doing[a] EXCEPT !.reply = reply, !.tenant = t, !.item = i, !.at = n]
  <2>2. doing[a] \in Doings
    BY DEF IInv, TypeOK
  <2>3. q.kind = doing[a].kind /\ q.of = doing[a].of
    BY <2>2 DEF Doings
  <2>4. doing' = [doing EXCEPT ![a] = q]
    BY <2>1 DEF Reply, Becomes
  <2> HIDE DEF q
  <2> QED
    BY <2>3, <2>4, MoveForms
<1>4. \/ payouts' = payouts
      \/ /\ doing[a].kind = "payout" /\ doing[a].step = "post"
         /\ payouts' = payouts \cup {<<doing[a].tenant, key>>}
  BY DEF Handle, Lose, HandlePost, HandleRead, server
<1>5. CASE payouts' = payouts
  BY <1>1, <1>3, <1>5, FormQuiet
<1>6. CASE /\ doing[a].kind = "payout" /\ doing[a].step = "post"
           /\ payouts' = payouts \cup {<<doing[a].tenant, key>>}
  <2> DEFINE t == doing[a].tenant
  <2>1. Showing(t) \/ t \in left
    <3>1. doing[a].tenant = doing[a].of
      BY <1>6, Facts DEF Paid
    <3> QED
      BY <1>6, <3>1 DEF FormInv
  <2> HIDE DEF t
  <2>2. payouts' = payouts \cup {<<t, key>>}
    BY <1>6 DEF t
  <2>3. \A b \in Activities :
          doing'[b].kind = "payout" => (Showing(doing[b].of) \/ doing[b].of \in left)'
    BY <1>1, <1>3 DEF FormInv, SameForms, Showing
  <2>4. NoPayoutIsForgotten'
    BY <1>1, <2>1, <2>2 DEF FormInv, NoPayoutIsForgotten, Showing
  <2> QED
    BY <2>3, <2>4 DEF FormInv
<1> QED
  BY <1>4, <1>5, <1>6

\* The first exception.
LEMMA ReloadForm == ASSUME IInv, FormInv, Reload PROVE FormInv'
<1>1. /\ payouts' = payouts /\ finished' = finished /\ abandoned' = abandoned \cup {key}
      /\ doing' = [b \in Activities |-> Rest] /\ Rest.kind = "none"
  BY DEF Reload, Rest, server
<1>2. \A b \in Activities : doing'[b].kind # "payout"
  BY <1>1
<1>3. NoPayoutIsForgotten'
  BY <1>1 DEF FormInv, NoPayoutIsForgotten
<1> QED
  BY <1>2, <1>3 DEF FormInv

LEMMA FormInit == ASSUME Init PROVE FormInv
<1>1. \A a \in Activities : doing[a].kind # "payout"
  BY DEF Init, Rest
<1>2. NoPayoutIsForgotten
  BY DEF Init, NoPayoutIsForgotten
<1> QED
  BY <1>1, <1>2 DEF FormInv

LEMMA FormStep == ASSUME IInv, FormInv, [Next]_vars PROVE FormInv'
<1>1. ASSUME NEW a \in Activities, Clicks(a) PROVE FormInv'
  BY <1>1, PageForm, SubmitForm DEF Clicks
<1>2. ASSUME NEW a \in Activities, Arrives(a) PROVE FormInv'
  BY <1>2, PageForm, SummaryForm, LoadForm DEF Arrives
<1>3. CASE UNCHANGED vars
  <2>1. /\ UNCHANGED <<payouts, key, finished, abandoned>> /\ dashboard' = dashboard
        /\ left' = left /\ doing' = doing
    BY <1>3 DEF vars, server, view, history
  <2>2. SameForms
    BY <2>1 DEF SameForms
  <2> QED
    BY <2>1, <2>2, FormQuiet
<1> QED
  BY <1>1, <1>2, <1>3, PageForm, ServerForm, ReloadForm DEF Next

\* A payout that the operator was not told of is one submission away, with the
\* form's key and under the tenant shown, except where the page was reloaded or
\* has turned to another tenant; the form that forgets one has closed for another
\* tenant (foundation.ts, createPayout; index.vue, submitPayout).
THEOREM NoPayoutIsForgottenHolds == Spec => []NoPayoutIsForgotten
<1>1. Init => IInv /\ FormInv
  BY InitHolds, FormInit
<1>2. IInv /\ FormInv /\ [Next]_vars => (IInv /\ FormInv)'
  BY StepHolds, FormStep
<1>3. IInv /\ FormInv => NoPayoutIsForgotten
  BY DEF FormInv
<1> QED
  BY <1>1, <1>2, <1>3, PTL DEF Spec

-----------------------------------------------------------------------------
(* What the page shows *)

\* What the reply to an activity d tells: an import is found under its own
\* tenant only, and a mutation that succeeded is among the changes.
Told(d, chg) ==
  /\ d.reply = "refused" =>
       d.step \in {"details", "reselect", "pick", "post"} /\ d.item.tenant # d.tenant
  /\ d.reply = "ok" /\ d.step \in {"details", "reselect", "pick"} => d.item.tenant = d.tenant
  /\ d.reply = "ok" /\ d.step = "post" => d.at <= chg[d.tenant]

\* How far a read d that is alone has come: the answer it holds is no older than
\* what the page was told, and what it put on the page is still there.
Loaded(d, conf, dash, act, lst, sel) ==
  /\ d.step = "summary" /\ d.reply = "ok" => d.at >= conf[d.tenant]
  /\ d.step \in {"imports", "details"} =>
       /\ dash # None /\ dash.tenant = d.tenant /\ act = d.tenant
       /\ dash.at >= conf[d.tenant]
  /\ d.step = "details" =>
       /\ lst # None /\ lst.tenant = d.tenant
       /\ IF sel = None THEN d.item.tenant = d.tenant ELSE d.item = sel
  /\ d.step = "pick" => lst # None /\ d.item.tenant = lst.tenant

\* An activity that is going to replace the view, or to report an error.
Replacing(d) == d.step \in {"post", "summary", "imports", "details", "reselect"}

Current ==
  /\ dashboard.at >= confirmed[dashboard.tenant]
  /\ active = dashboard.tenant
  /\ list # None /\ list.tenant = dashboard.tenant
  /\ selected # None => selected.tenant = dashboard.tenant

ViewInv ==
  /\ \A t \in Tenants : confirmed[t] <= changes[t]
  /\ \A a \in Activities : Told(doing[a], changes)
  /\ ~overlapped =>
       /\ \A a, b \in Activities :
            doing[a].step \in Reads /\ doing[b].step \in Reads => a = b
       /\ \A a \in Activities : Loaded(doing[a], confirmed, dashboard, active, list, selected)
  /\ ~overlapped /\ ~error /\ dashboard # None /\ (\A a \in Activities : ~Replacing(doing[a]))
       => Current

LEMMA ViewFacts ==
  ASSUME IInv, ViewInv, NEW a \in Activities
  PROVE  /\ doing \in [Activities -> Doings] /\ doing[a] \in Doings
         /\ changes \in [Tenants -> Nat] /\ confirmed \in [Tenants -> Nat]
         /\ Shape(doing[a], dashboard) /\ Told(doing[a], changes)
         /\ ~overlapped => Loaded(doing[a], confirmed, dashboard, active, list, selected)
         /\ \A t \in Tenants : confirmed[t] <= changes[t]
<1>1. changes \in [Tenants -> Nat]
  BY DashboardAssumption DEF IInv, TypeOK
<1> QED
  BY <1>1 DEF IInv, TypeOK, ViewInv

\* Activity a moves on to d.  Unless that starts or ends a read that overlaps
\* with no other, the view stays as it is.
LEMMA ViewMoves ==
  ASSUME IInv, IInv', ViewInv, NEW a \in Activities, NEW d \in Doings,
         doing' = [doing EXCEPT ![a] = d],
         \A t \in Tenants : changes[t] <= changes'[t],
         \A t \in Tenants : confirmed'[t] <= changes'[t],
         Told(d, changes'),
         ~overlapped' =>
           /\ Loaded(d, confirmed', dashboard', active', list', selected')
           /\ \/ \A b \in Activities \ {a} : doing[b].step \notin Reads
              \/ /\ ~overlapped /\ UNCHANGED <<confirmed, dashboard, active, list, selected>>
                 /\ d.step \in Reads => doing[a].step \in Reads,
         ~overlapped' /\ ~error' /\ dashboard' # None /\ ~Replacing(d) /\
           (\A b \in Activities \ {a} : ~Replacing(doing[b])) => Current'
  PROVE  ViewInv'
<1>1. doing'[a] = d /\ \A b \in Activities \ {a} : doing'[b] = doing[b]
  BY ViewFacts
<1>2. \A b \in Activities : Told(doing'[b], changes')
  <2>1. ASSUME NEW b \in Activities, b # a PROVE Told(doing[b], changes')
    <3>1. Told(doing[b], changes) /\ doing[b] \in Doings /\ Shape(doing[b], dashboard)
      BY ViewFacts
    <3>2. ASSUME doing[b].reply = "ok", doing[b].step = "post"
          PROVE  doing[b].at <= changes'[doing[b].tenant]
      <4>1. doing[b].tenant \in Tenants /\ doing[b].at <= changes[doing[b].tenant] /\ doing[b].at \in Nat
        BY <3>1, <3>2 DEF Shape, Told, Doings
      <4>2. PICK t \in Tenants : t = doing[b].tenant
        BY <4>1
      <4>3. changes[t] \in Nat /\ changes'[t] \in Nat /\ changes[t] <= changes'[t]
        BY <4>2, DashboardAssumption DEF IInv, TypeOK
      <4> QED
        BY <4>1, <4>2, <4>3
    <3> QED
      BY <3>1, <3>2 DEF Told
  <2> QED
    BY <1>1, <2>1
<1>3. ASSUME ~overlapped'
      PROVE  /\ \A b, c \in Activities :
                  doing'[b].step \in Reads /\ doing'[c].step \in Reads => b = c
             /\ \A b \in Activities :
                  Loaded(doing'[b], confirmed', dashboard', active', list', selected')
  <2>1. CASE \A b \in Activities \ {a} : doing[b].step \notin Reads
    <3>1. \A b \in Activities \ {a} :
            Loaded(doing[b], confirmed', dashboard', active', list', selected')
      BY <2>1, KindsAndSteps DEF Loaded
    <3> QED
      BY <1>1, <1>3, <2>1, <3>1
  <2>2. CASE /\ ~overlapped /\ UNCHANGED <<confirmed, dashboard, active, list, selected>>
             /\ d.step \in Reads => doing[a].step \in Reads
    <3>1. \A b \in Activities : Loaded(doing[b], confirmed, dashboard, active, list, selected)
      BY <2>2, ViewFacts
    <3>2. \A b \in Activities \ {a} :
            Loaded(doing[b], confirmed', dashboard', active', list', selected')
      BY <2>2, <3>1
    <3>3. \A b, c \in Activities : doing[b].step \in Reads /\ doing[c].step \in Reads => b = c
      BY <2>2 DEF ViewInv
    <3> QED
      BY <1>1, <1>3, <2>2, <3>2, <3>3
  <2> QED
    BY <1>3, <2>1, <2>2
<1>4. ASSUME ~overlapped', ~error', dashboard' # None, \A b \in Activities : ~Replacing(doing'[b])
      PROVE  Current'
  <2>1. ~Replacing(d)
    BY <1>1, <1>4 DEF Replacing
  <2>2. \A b \in Activities \ {a} : ~Replacing(doing[b])
    BY <1>1, <1>4 DEF Replacing
  <2> QED
    BY <1>4, <2>1, <2>2
<1> QED
  BY <1>2, <1>3, <1>4 DEF ViewInv

\* A step of a that leaves the view alone: an answer, a failure, a click on a
\* button of a mutation.
LEMMA ViewStays ==
  ASSUME IInv, IInv', ViewInv, NEW a \in Activities, NEW d \in Doings,
         doing' = [doing EXCEPT ![a] = d],
         \A t \in Tenants : changes[t] <= changes'[t],
         UNCHANGED <<confirmed, dashboard, active, list, selected, overlapped>>,
         Told(d, changes'),
         ~overlapped => Loaded(d, confirmed, dashboard, active, list, selected),
         d.step \in Reads => doing[a].step \in Reads,
         error' \/ Replacing(d) \/ (~Replacing(doing[a]) /\ (error => error'))
  PROVE  ViewInv'
<1>1. \A t \in Tenants : confirmed'[t] <= changes'[t]
  <2> TAKE t \in Tenants
  <2>1. /\ confirmed[t] \in Nat /\ changes[t] \in Nat /\ changes'[t] \in Nat
        /\ confirmed[t] <= changes[t] /\ changes[t] <= changes'[t] /\ confirmed' = confirmed
    BY ViewFacts, DashboardAssumption DEF IInv, TypeOK
  <2> QED
    BY <2>1
<1>2. ~overlapped' /\ ~error' /\ dashboard' # None /\ ~Replacing(d) /\
        (\A b \in Activities \ {a} : ~Replacing(doing[b])) => Current'
  <2>1. ASSUME ~overlapped', ~error', dashboard' # None, ~Replacing(d),
               \A b \in Activities \ {a} : ~Replacing(doing[b])
        PROVE  Current'
    <3>1. ~overlapped /\ ~error /\ dashboard # None /\ \A b \in Activities : ~Replacing(doing[b])
      BY <2>1
    <3>2. Current
      BY <3>1 DEF ViewInv
    <3> QED
      BY <3>2 DEF Current
  <2> QED
    BY <2>1
<1>3. ~overlapped' =>
        /\ Loaded(d, confirmed', dashboard', active', list', selected')
        /\ \/ \A b \in Activities \ {a} : doing[b].step \notin Reads
           \/ /\ ~overlapped /\ UNCHANGED <<confirmed, dashboard, active, list, selected>>
              /\ d.step \in Reads => doing[a].step \in Reads
  OBVIOUS
<1> QED
  BY <1>1, <1>2, <1>3, ViewMoves

\* A load that starts: what is shown before it does not matter any more.
LEMMA LoadView ==
  ASSUME IInv, IInv', ViewInv, NEW a \in Activities, NEW d \in Doings,
         NEW t \in Tenants \cup {None}, Load(a, d, t), changes' = changes,
         \A u \in Tenants : confirmed'[u] <= changes[u]
  PROVE  ViewInv'
<1>1. PICK q \in Doings : q = Request(d, "summary", t, None) /\ q.step = "summary" /\ q.reply = "none"
  BY RequestFields, KindsAndSteps
<1>2. doing' = [doing EXCEPT ![a] = q] /\ overlapped' = ReadUnderWay(a)
  BY <1>1 DEF Load, Becomes
<1>3. /\ Told(q, changes') /\ Replacing(q)
      /\ Loaded(q, confirmed', dashboard', active', list', selected')
  BY <1>1 DEF Told, Replacing, Loaded
<1>4. ~overlapped' => \A b \in Activities \ {a} : doing[b].step \notin Reads
  BY <1>2 DEF ReadUnderWay
<1>5. /\ \A u \in Tenants : changes[u] <= changes'[u]
      /\ \A u \in Tenants : confirmed'[u] <= changes'[u]
  BY ViewFacts
<1>6. ~overlapped' =>
        /\ Loaded(q, confirmed', dashboard', active', list', selected')
        /\ \/ \A b \in Activities \ {a} : doing[b].step \notin Reads
           \/ /\ ~overlapped /\ UNCHANGED <<confirmed, dashboard, active, list, selected>>
              /\ q.step \in Reads => doing[a].step \in Reads
  BY <1>3, <1>4
<1> QED
  BY <1>1, <1>2, <1>3, <1>5, <1>6, ViewMoves

\* A read of a that ends without an error, or goes on: it was alone.
LEMMA ReadView ==
  ASSUME IInv, IInv', ViewInv, NEW a \in Activities, NEW d \in Doings,
         doing' = [doing EXCEPT ![a] = d], doing[a].step \in Reads,
         UNCHANGED <<changes, confirmed, overlapped>>, Told(d, changes),
         ~overlapped => Loaded(d, confirmed, dashboard', active', list', selected'),
         ~overlapped /\ ~error' /\ dashboard' # None /\ ~Replacing(d) /\
           (\A b \in Activities \ {a} : ~Replacing(doing[b])) => Current'
  PROVE  ViewInv'
<1>1. /\ \A t \in Tenants : changes[t] <= changes'[t]
      /\ \A t \in Tenants : confirmed'[t] <= changes'[t]
  BY ViewFacts
<1>2. ~overlapped' =>
        /\ ~overlapped
        /\ Loaded(d, confirmed', dashboard', active', list', selected')
        /\ \A b \in Activities \ {a} : doing[b].step \notin Reads
  BY DEF ViewInv
<1>3. Told(d, changes')
  OBVIOUS
<1> QED
  BY <1>1, <1>2, <1>3, ViewMoves

\* An activity at its end owes nothing.
LEMMA RestFields ==
  /\ Rest \in Doings /\ Rest.kind = "none" /\ Rest.step = "idle" /\ Rest.step \notin Reads
  /\ ~Replacing(Rest)
  /\ \A chg : Told(Rest, chg)
  /\ \A conf, dash, act, lst, sel : Loaded(Rest, conf, dash, act, lst, sel)
<1>1. Rest.step = "idle" /\ Rest.reply = "none" /\ Rest.kind = "none"
  BY DEF Rest
<1> QED
  BY <1>1, RestType, KindsAndSteps DEF Replacing, Told, Loaded

\* A step after which nothing of the view, of the flags it depends on or of the
\* activities is different.
LEMMA ViewUnchanged ==
  ASSUME ViewInv, UNCHANGED <<changes, doing, dashboard, active, list, selected>>,
         UNCHANGED <<error, confirmed, overlapped>>
  PROVE  ViewInv'
BY DEF ViewInv, Current

LEMMA InitializeView ==
  ASSUME IInv, IInv', ViewInv, NEW a \in Activities, Initialize(a) PROVE ViewInv'
<1>1. /\ UNCHANGED <<changes, dashboard, active, list, selected>>
      /\ UNCHANGED <<error, confirmed, overlapped>>
  BY DEF Initialize, server, view, flags, history
<1>2. CASE UNCHANGED doing
  BY <1>1, <1>2, ViewUnchanged
<1>3. CASE Becomes(a, Request([Rest EXCEPT !.kind = "mount"], "session", None, None))
  <2>1. [Rest EXCEPT !.kind = "mount"] \in Doings
    BY DEF Rest, Doings
  <2>2. PICK q \in Doings :
           /\ q = Request([Rest EXCEPT !.kind = "mount"], "session", None, None)
           /\ q.step = "session" /\ q.reply = "none"
    BY <2>1, RequestFields
  <2>3. doing' = [doing EXCEPT ![a] = q] /\ doing[a].step = "idle"
    BY <1>3, <2>2 DEF Becomes, Initialize, Free
  <2>4. /\ Told(q, changes') /\ Loaded(q, confirmed, dashboard, active, list, selected)
        /\ q.step \notin Reads /\ ~Replacing(doing[a])
    BY <2>2, <2>3, KindsAndSteps DEF Told, Loaded, Replacing
  <2>5. /\ \A t \in Tenants : changes[t] <= changes'[t]
        /\ UNCHANGED <<confirmed, dashboard, active, list, selected, overlapped>>
        /\ error => error'
    BY <1>1, ViewFacts
  <2> QED
    BY <2>2, <2>3, <2>4, <2>5, ViewStays
<1> QED
  BY <1>2, <1>3 DEF Initialize

LEMMA ReloadView == ASSUME IInv, IInv', ViewInv, Reload PROVE ViewInv'
<1>1. /\ changes' = changes /\ dashboard' = None /\ doing' = [b \in Activities |-> Rest]
      /\ confirmed' = [t \in Tenants |-> 0]
  BY DEF Reload, server
<1>2. \A b \in Activities : doing'[b] = Rest
  BY <1>1
<1>3. changes \in [Tenants -> Nat]
  BY DashboardAssumption DEF IInv, TypeOK
<1>4. \A t \in Tenants : confirmed'[t] <= changes'[t]
  BY <1>1, <1>3
<1>5. \A b \in Activities :
        /\ Told(doing'[b], changes')
        /\ Loaded(doing'[b], confirmed', dashboard', active', list', selected')
        /\ doing'[b].step \notin Reads
  BY <1>2, RestFields
<1> QED
  BY <1>1, <1>4, <1>5 DEF ViewInv

LEMMA SessionArrivesView ==
  ASSUME IInv, IInv', ViewInv, NEW a \in Activities, SessionArrives(a) PROVE ViewInv'
<1>1. /\ UNCHANGED <<changes, dashboard, active, list, selected>>
      /\ changes' = changes /\ confirmed' = confirmed
  BY DEF SessionArrives, server, view
<1>2. doing[a] \in Doings /\ \A t \in Tenants : confirmed[t] <= changes[t]
  BY ViewFacts
<1>3. ASSUME NEW home \in {None, Demo}, Load(a, doing[a], home) PROVE ViewInv'
  <2>1. home \in Tenants \cup {None} /\ \A t \in Tenants : confirmed'[t] <= changes[t]
    BY <1>1, <1>2, DashboardAssumption DEF Demo, Tenants
  <2> QED
    BY <1>1, <1>2, <1>3, <2>1, LoadView
<1>4. CASE Failed(a, {"session"}) /\ Becomes(a, Rest) /\ UNCHANGED <<loading, error, trouble, overlapped>>
  <2>1. doing' = [doing EXCEPT ![a] = Rest] /\ ~Replacing(doing[a]) /\ error' = error
    BY <1>4 DEF Becomes, Failed, Replacing
  <2>2. /\ Told(Rest, changes') /\ Loaded(Rest, confirmed, dashboard, active, list, selected)
        /\ \A t \in Tenants : changes[t] <= changes'[t]
        /\ UNCHANGED <<confirmed, dashboard, active, list, selected, overlapped>>
    BY <1>1, <1>4, RestFields, ViewFacts
  <2> QED
    BY <2>1, <2>2, RestFields, ViewStays
<1> QED
  BY <1>3, <1>4 DEF SessionArrives

LEMMA RefreshView ==
  ASSUME IInv, IInv', ViewInv, NEW a \in Activities, Refresh(a) PROVE ViewInv'
<1>1. /\ Load(a, [Rest EXCEPT !.kind = "refresh"], active)
      /\ changes' = changes /\ confirmed' = confirmed
  BY DEF Refresh, server
<1>2. PICK d \in Doings : d = [Rest EXCEPT !.kind = "refresh"]
  BY DEF Rest, Doings
<1>3. active \in Tenants \cup {None} /\ \A t \in Tenants : confirmed[t] <= changes[t]
  BY ViewFacts DEF IInv, TypeOK
<1>4. PICK t \in Tenants \cup {None} : t = active
  BY <1>3
<1>5. Load(a, d, t)
  BY <1>1, <1>2, <1>4
<1>6. \A u \in Tenants : confirmed'[u] <= changes[u]
  BY <1>1, <1>3
<1> QED
  BY <1>1, <1>5, <1>6, LoadView

LEMMA SummaryArrivesView ==
  ASSUME IInv, IInv', ViewInv, NEW a \in Activities, SummaryArrives(a) PROVE ViewInv'
<1> DEFINE t == doing[a].tenant
<1>1. /\ doing[a].step = "summary" /\ doing[a].reply = "ok" /\ doing[a] \in Doings
      /\ t \in Tenants /\ doing[a].at \in Nat
      /\ ~overlapped => doing[a].at >= confirmed[t]
  BY ViewFacts DEF SummaryArrives, Accepted, Shape, Loaded, Doings
<1>2. /\ dashboard' = [tenant |-> t, at |-> doing[a].at] /\ active' = t /\ list' = list
      /\ UNCHANGED <<changes, confirmed, overlapped>>
      /\ Becomes(a, Request(doing[a], "imports", t, None))
  BY DEF SummaryArrives, server, history
<1>3. PICK q \in Doings :
         /\ q = Request(doing[a], "imports", t, None)
         /\ q.step = "imports" /\ q.reply = "none" /\ q.tenant = t
  BY <1>1, RequestFields, KindsAndSteps
<1>4. dashboard' # None
  BY <1>1, <1>2, DashboardAssumption
<1>5. dashboard'.tenant = t /\ dashboard'.at = doing[a].at
  BY <1>2
<1>6. doing' = [doing EXCEPT ![a] = q] /\ doing[a].step \in Reads
  BY <1>1, <1>2, <1>3, KindsAndSteps DEF Becomes
<1>7. Told(q, changes) /\ Replacing(q)
  BY <1>3 DEF Told, Replacing
<1>8. ~overlapped => Loaded(q, confirmed, dashboard', active', list', selected')
  BY <1>1, <1>2, <1>3, <1>4, <1>5 DEF Loaded
<1> QED
  BY <1>2, <1>3, <1>6, <1>7, <1>8, ReadView

LEMMA ImportsArriveView ==
  ASSUME IInv, IInv', ViewInv, NEW a \in Activities, ImportsArrive(a) PROVE ViewInv'
<1> DEFINE t == doing[a].tenant
           wanted == Wanted(t, doing[a].at)
<1>1. /\ doing[a].step = "imports" /\ doing[a].reply = "ok" /\ doing[a] \in Doings
      /\ t \in Tenants /\ doing[a].at \in Nat /\ doing[a].step \in Reads
  BY ViewFacts, KindsAndSteps DEF ImportsArrive, Accepted, Shape, Doings
<1>2. ~overlapped => /\ dashboard # None /\ dashboard.tenant = t /\ active = t
                     /\ dashboard.at >= confirmed[t]
  BY <1>1, ViewFacts DEF Loaded
<1>3. /\ list' = [tenant |-> t, count |-> doing[a].at]
      /\ dashboard' = dashboard /\ active' = active
      /\ UNCHANGED <<changes, confirmed, overlapped>>
  BY DEF ImportsArrive, server
<1>4. list' # None /\ list'.tenant = t
  BY <1>1, <1>3, DashboardAssumption
<1>5. CASE wanted = None
  <2>1. selected' = None /\ doing' = [doing EXCEPT ![a] = Rest]
    BY <1>5 DEF ImportsArrive, LoadEnds, Ends, Becomes
  <2>2. ~overlapped => Current'
    BY <1>2, <1>3, <1>4, <2>1 DEF Current
  <2>3. Told(Rest, changes) /\ Loaded(Rest, confirmed, dashboard', active', list', selected')
    BY RestFields
  <2> QED
    BY <1>1, <1>3, <2>1, <2>2, <2>3, RestFields, ReadView
<1>6. CASE wanted # None
  <2>1. Becomes(a, Request(doing[a], "details", t, wanted)) /\ selected' = selected
    BY <1>6 DEF ImportsArrive
  <2>2. wanted \in Imports
    <3>1. selected \in Imports \cup {None} /\ doing[a].at \in 0..MaxImports
      BY <1>1, ViewFacts DEF IInv, TypeOK, Shape
    <3> QED
      BY <1>1, <1>6, <3>1, DashboardAssumption DEF Wanted, Imports
  <2>3. IF selected = None THEN wanted.tenant = t ELSE wanted = selected
    BY <1>6 DEF Wanted
  <2> HIDE DEF wanted
  <2>4. PICK q \in Doings :
           /\ q = Request(doing[a], "details", t, wanted)
           /\ q.step = "details" /\ q.reply = "none" /\ q.tenant = t /\ q.item = wanted
    <3>1. PICK i \in Imports : i = wanted
      BY <2>2
    <3>2. "details" \in Reads \cup {"session", "post"} /\ i \in Imports \cup {None}
      BY KindsAndSteps
    <3> QED
      BY <1>1, <3>1, <3>2, RequestFields
  <2>5. doing' = [doing EXCEPT ![a] = q]
    BY <2>1, <2>4 DEF Becomes
  <2>6. Told(q, changes) /\ Replacing(q)
    BY <2>4 DEF Told, Replacing
  <2>7. ~overlapped => Loaded(q, confirmed, dashboard', active', list', selected')
    BY <1>2, <1>3, <1>4, <2>1, <2>3, <2>4 DEF Loaded
  <2> QED
    BY <1>1, <1>3, <2>4, <2>5, <2>6, <2>7, ReadView
<1> QED
  BY <1>5, <1>6

LEMMA DetailsArriveView ==
  ASSUME IInv, IInv', ViewInv, NEW a \in Activities, DetailsArrive(a) PROVE ViewInv'
<1>1. /\ doing[a].step = "details" /\ doing[a].reply = "ok" /\ doing[a].step \in Reads
      /\ doing[a].item.tenant = doing[a].tenant
  BY ViewFacts, KindsAndSteps DEF DetailsArrive, Accepted, Told
<1>2. ~overlapped =>
        /\ dashboard # None /\ dashboard.tenant = doing[a].tenant /\ active = doing[a].tenant
        /\ dashboard.at >= confirmed[doing[a].tenant]
        /\ list # None /\ list.tenant = doing[a].tenant
  BY <1>1, ViewFacts DEF Loaded
<1>3. /\ selected' = doing[a].item /\ doing' = [doing EXCEPT ![a] = Rest]
      /\ dashboard' = dashboard /\ active' = active /\ list' = list
      /\ UNCHANGED <<changes, confirmed, overlapped>>
  BY DEF DetailsArrive, server, LoadEnds, Ends, Becomes
<1>4. ~overlapped => Current'
  BY <1>1, <1>2, <1>3 DEF Current
<1>5. Told(Rest, changes) /\ Loaded(Rest, confirmed, dashboard', active', list', selected')
  BY RestFields
<1> QED
  BY <1>1, <1>3, <1>4, <1>5, RestFields, ReadView

LEMMA PickArrivesView ==
  ASSUME IInv, IInv', ViewInv, NEW a \in Activities, PickArrives(a) PROVE ViewInv'
<1>1. /\ doing[a].step = "pick" /\ doing[a].step \in Reads /\ ~Replacing(doing[a])
      /\ doing' = [doing EXCEPT ![a] = Rest]
      /\ dashboard' = dashboard /\ active' = active /\ list' = list /\ error' = error
      /\ UNCHANGED <<changes, confirmed, overlapped>>
  BY KindsAndSteps DEF PickArrives, Accepted, Failed, Becomes, Replacing, server, flags, history
<1>2. ~overlapped => doing[a].item.tenant = list.tenant
  BY <1>1, ViewFacts DEF Loaded
<1>3. selected' = doing[a].item \/ selected' = selected
  BY DEF PickArrives
<1>4. ASSUME ~overlapped, ~error', dashboard' # None,
             \A b \in Activities \ {a} : ~Replacing(doing[b])
      PROVE  Current'
  <2>1. Current
    BY <1>1, <1>4 DEF ViewInv
  <2> QED
    BY <1>1, <1>2, <1>3, <1>4, <2>1 DEF Current
<1>5. Told(Rest, changes) /\ Loaded(Rest, confirmed, dashboard', active', list', selected')
  BY RestFields
<1> QED
  BY <1>1, <1>4, <1>5, RestFields, ReadView

\* A failure that is reported.
LEMMA FailureView ==
  ASSUME IInv, IInv', ViewInv, NEW a \in Activities, Ends(a, TRUE), changes' = changes,
         UNCHANGED <<confirmed, dashboard, active, list, selected, overlapped>>
  PROVE  ViewInv'
<1>1. doing' = [doing EXCEPT ![a] = Rest] /\ error'
  BY DEF Ends, Becomes
<1>2. /\ \A t \in Tenants : changes[t] <= changes'[t]
      /\ Told(Rest, changes') /\ Loaded(Rest, confirmed, dashboard, active, list, selected)
  BY ViewFacts, RestFields
<1> QED
  BY <1>1, <1>2, RestFields, ViewStays

LEMMA LoadFailsView ==
  ASSUME IInv, IInv', ViewInv, NEW a \in Activities, LoadFails(a) PROVE ViewInv'
<1>1. Ends(a, TRUE)
  <2>1. (error \/ TRUE) = TRUE
    OBVIOUS
  <2> QED
    BY <2>1 DEF LoadFails, LoadEnds
<1>2. changes' = changes /\ UNCHANGED <<confirmed, dashboard, active, list, selected, overlapped>>
  BY DEF LoadFails, server, view
<1> QED
  BY <1>1, <1>2, FailureView

LEMMA MutationFailsView ==
  ASSUME IInv, IInv', ViewInv, NEW a \in Activities, MutationFails(a) PROVE ViewInv'
BY FailureView DEF MutationFails, server, view

LEMMA SubmitView ==
  ASSUME IInv, IInv', ViewInv, NEW a \in Activities, NEW kind \in Mutations, Submit(a, kind)
  PROVE  ViewInv'
<1> DEFINE t == IF kind = "tenant" THEN None ELSE dashboard.tenant
           i == IF kind = "resolve" THEN selected ELSE None
<1>1. doing' = [doing EXCEPT ![a] = Request([Rest EXCEPT !.kind = kind, !.of = t], "post", t, i)]
  BY DEF Submit, Becomes
<1> HIDE DEF t, i
<1>2. /\ doing' \in [Activities -> Doings] /\ doing \in [Activities -> Doings]
  BY DEF IInv, TypeOK
<1>3. PICK q \in Doings :
         q = Request([Rest EXCEPT !.kind = kind, !.of = t], "post", t, i)
  BY <1>1, <1>2
<1>4. q.step = "post" /\ q.reply = "none"
  BY <1>3 DEF Request, Rest
<1>5. /\ doing' = [doing EXCEPT ![a] = q] /\ changes' = changes
      /\ UNCHANGED <<confirmed, dashboard, active, list, selected, overlapped>>
  BY <1>1, <1>3 DEF Submit, server, view
<1>6. /\ Told(q, changes') /\ Loaded(q, confirmed, dashboard, active, list, selected)
      /\ Replacing(q) /\ q.step \notin Reads
  BY <1>4, KindsAndSteps DEF Told, Loaded, Replacing
<1>7. \A u \in Tenants : changes[u] <= changes'[u]
  BY <1>5, ViewFacts
<1> QED
  BY <1>5, <1>6, <1>7, ViewStays

LEMMA PostArrivesView ==
  ASSUME IInv, IInv', ViewInv, NEW a \in Activities, PostArrives(a) PROVE ViewInv'
<1> DEFINE d == doing[a]
<1>1. /\ d \in Doings /\ d.step = "post" /\ d.reply = "ok" /\ d.tenant \in Tenants
      /\ d.at <= changes[d.tenant]
      /\ changes \in [Tenants -> Nat] /\ confirmed \in [Tenants -> Nat]
      /\ \A u \in Tenants : confirmed[u] <= changes[u]
  BY ViewFacts DEF PostArrives, Accepted, Shape, Told
<1>2. confirmed' = [confirmed EXCEPT ![d.tenant] = d.at] /\ changes' = changes
  BY DEF PostArrives, server
<1>3. \A u \in Tenants : confirmed'[u] <= changes[u]
  BY <1>1, <1>2
<1>4. CASE d.kind # "resolve"
  <2>1. Load(a, d, d.tenant)
    BY <1>4 DEF PostArrives
  <2>2. PICK t \in Tenants \cup {None} : t = d.tenant
    BY <1>1
  <2>3. PICK e \in Doings : e = d
    BY <1>1
  <2>4. Load(a, e, t)
    BY <2>1, <2>2, <2>3
  <2> QED
    BY <1>2, <1>3, <2>4, LoadView
<1>5. CASE d.kind = "resolve"
  <2>1. /\ doing' = [doing EXCEPT ![a] = Request(d, "reselect", dashboard.tenant, d.item)]
        /\ overlapped' = (overlapped \/ ReadUnderWay(a))
    BY <1>5 DEF PostArrives, Becomes
  <2>2. doing' \in [Activities -> Doings] /\ doing \in [Activities -> Doings]
    BY DEF IInv, TypeOK
  <2>3. PICK q \in Doings : q = Request(d, "reselect", dashboard.tenant, d.item)
    BY <2>1, <2>2
  <2>4. q.step = "reselect" /\ q.reply = "none"
    BY <1>1, <2>3 DEF Request, Doings
  <2>5. doing' = [doing EXCEPT ![a] = q]
    BY <2>1, <2>3
  <2>6. /\ Told(q, changes') /\ Replacing(q)
        /\ Loaded(q, confirmed', dashboard', active', list', selected')
    BY <2>4 DEF Told, Replacing, Loaded
  <2>7. ~overlapped' => \A b \in Activities \ {a} : doing[b].step \notin Reads
    BY <2>1 DEF ReadUnderWay
  <2>8. /\ \A u \in Tenants : changes[u] <= changes'[u]
        /\ \A u \in Tenants : confirmed'[u] <= changes'[u]
    BY <1>1, <1>2, <1>3
  <2>9. ~overlapped' =>
          /\ Loaded(q, confirmed', dashboard', active', list', selected')
          /\ \/ \A b \in Activities \ {a} : doing[b].step \notin Reads
             \/ /\ ~overlapped /\ UNCHANGED <<confirmed, dashboard, active, list, selected>>
                /\ q.step \in Reads => doing[a].step \in Reads
    BY <2>6, <2>7
  <2> QED
    BY <2>5, <2>6, <2>8, <2>9, ViewMoves
<1> QED
  BY <1>4, <1>5

LEMMA ReselectArrivesView ==
  ASSUME IInv, IInv', ViewInv, NEW a \in Activities, ReselectArrives(a) PROVE ViewInv'
<1>1. PICK d \in Doings : d = doing[a]
  BY ViewFacts
<1>2. PICK t \in Tenants \cup {None} : t = doing[a].of
  BY <1>1 DEF Doings
<1>3. Load(a, d, t) /\ changes' = changes /\ confirmed' = confirmed
  BY <1>1, <1>2 DEF ReselectArrives, server
<1>4. \A u \in Tenants : confirmed'[u] <= changes[u]
  BY <1>3, ViewFacts
<1> QED
  BY <1>3, <1>4, LoadView

LEMMA PickView == ASSUME IInv, IInv', ViewInv, NEW a \in Activities, Pick(a) PROVE ViewInv'
<1>1. PICK i \in Imports :
         /\ i.tenant = list.tenant
         /\ Becomes(a, Request([Rest EXCEPT !.kind = "select"], "pick", dashboard.tenant, i))
  BY DEF Pick
<1>2. doing' \in [Activities -> Doings] /\ doing \in [Activities -> Doings]
  BY DEF IInv, TypeOK
<1>3. PICK q \in Doings :
         /\ q = Request([Rest EXCEPT !.kind = "select"], "pick", dashboard.tenant, i)
         /\ doing' = [doing EXCEPT ![a] = q]
  BY <1>1, <1>2 DEF Becomes
<1>4. q.step = "pick" /\ q.reply = "none" /\ q.item = i
  BY <1>3 DEF Request, Rest
<1>5. /\ list # None /\ ~Replacing(doing[a])
      /\ overlapped' = (overlapped \/ ReadUnderWay(a))
      /\ changes' = changes /\ confirmed' = confirmed /\ dashboard' = dashboard
      /\ active' = active /\ list' = list /\ selected' = selected /\ error' = error
  BY DEF Pick, Free, Replacing, server, view, flags
<1>6. Told(q, changes') /\ Loaded(q, confirmed', dashboard', active', list', selected')
  BY <1>1, <1>4, <1>5 DEF Told, Loaded
<1>7. ~overlapped' => \A b \in Activities \ {a} : doing[b].step \notin Reads
  BY <1>5 DEF ReadUnderWay
<1>8. /\ \A u \in Tenants : changes[u] <= changes'[u]
      /\ \A u \in Tenants : confirmed'[u] <= changes'[u]
  BY <1>5, ViewFacts
<1>9. ~overlapped' =>
        /\ Loaded(q, confirmed', dashboard', active', list', selected')
        /\ \/ \A b \in Activities \ {a} : doing[b].step \notin Reads
           \/ /\ ~overlapped /\ UNCHANGED <<confirmed, dashboard, active, list, selected>>
              /\ q.step \in Reads => doing[a].step \in Reads
  BY <1>6, <1>7
<1>10. ASSUME ~overlapped', ~error', dashboard' # None,
              \A b \in Activities \ {a} : ~Replacing(doing[b])
       PROVE  Current'
  <2>1. Current
    BY <1>5, <1>10 DEF ViewInv
  <2> QED
    BY <1>5, <2>1 DEF Current
<1> QED
  BY <1>3, <1>6, <1>8, <1>9, <1>10, ViewMoves

\* The server's answer q to the request of a; the page does not move.
LEMMA AnswerView ==
  ASSUME IInv, IInv', ViewInv, NEW a \in Activities, NEW q \in Doings,
         doing' = [doing EXCEPT ![a] = q], q.step = doing[a].step, PageUnchanged,
         \A t \in Tenants : changes[t] <= changes'[t],
         Told(q, changes'),
         q.step = "summary" /\ q.reply = "ok" => q.at >= confirmed[q.tenant],
         q.step \in {"imports", "details"} => q.tenant = doing[a].tenant,
         q.step \in {"details", "pick"} => q.item = doing[a].item
  PROVE  ViewInv'
<1>1. /\ UNCHANGED <<confirmed, dashboard, active, list, selected, overlapped>>
      /\ error' = error
  BY DEF PageUnchanged
<1>2. ~overlapped => Loaded(q, confirmed, dashboard, active, list, selected)
  BY ViewFacts DEF Loaded
<1>3. q.step \in Reads => doing[a].step \in Reads
  OBVIOUS
<1>4. error' \/ Replacing(q) \/ (~Replacing(doing[a]) /\ (error => error'))
  BY <1>1 DEF Replacing
<1> QED
  BY <1>1, <1>2, <1>3, <1>4, ViewStays

LEMMA ReplyView ==
  ASSUME IInv, IInv', NEW a \in Activities, NEW reply, NEW t, NEW i, NEW n,
         Reply(a, reply, t, i, n)
  PROVE  \E q \in Doings :
           /\ doing' = [doing EXCEPT ![a] = q] /\ q.step = doing[a].step
           /\ q.tenant = t /\ q.item = i /\ q.reply = reply /\ q.at = n
<1> DEFINE q == [doing[a] EXCEPT !.reply = reply, !.tenant = t, !.item = i, !.at = n]
<1>1. doing' = [doing EXCEPT ![a] = q]
  BY DEF Reply, Becomes
<1>2. doing' \in [Activities -> Doings] /\ doing \in [Activities -> Doings]
  BY DEF IInv, TypeOK
<1>3. doing[a] \in Doings /\ doing'[a] = q
  BY <1>1, <1>2
<1>4. q.step = doing[a].step /\ q.tenant = t /\ q.item = i /\ q.reply = reply /\ q.at = n
  BY <1>3 DEF Doings
<1> HIDE DEF q
<1>5. q \in Doings
  BY <1>2, <1>3
<1> QED
  BY <1>1, <1>4, <1>5

LEMMA HandlePostView ==
  ASSUME IInv, IInv', ViewInv, NEW a \in Activities, NEW reply \in {"ok", "lost"},
         HandlePost(a, reply), PageUnchanged
  PROVE  ViewInv'
<1> DEFINE d == doing[a]
           t == d.tenant
<1>1. d.step = "post"
  BY DEF HandlePost
<1>2. changes \in [Tenants -> Nat] /\ changes' \in [Tenants -> Nat]
  BY DashboardAssumption DEF IInv, TypeOK
\* A success, or a failure after the server's work.
<1>3. ASSUME NEW u, NEW i, NEW n, Reply(a, reply, u, i, n),
             \A v \in Tenants : changes[v] <= changes'[v],
             u \in Tenants => n <= changes'[u]
      PROVE  ViewInv'
  <2>1. PICK q \in Doings :
           /\ doing' = [doing EXCEPT ![a] = q] /\ q.step = d.step
           /\ q.tenant = u /\ q.item = i /\ q.reply = reply /\ q.at = n
    BY <1>3, ReplyView
  <2>2. doing' \in [Activities -> Doings] /\ doing \in [Activities -> Doings]
    BY DEF IInv, TypeOK
  <2>3. doing'[a] = q /\ Shape(doing'[a], dashboard')
    BY <2>1, <2>2 DEF IInv
  <2>4. q.reply = "ok" => u \in Tenants
    BY <1>1, <2>1, <2>3 DEF Shape
  <2>5. Told(q, changes')
    BY <1>1, <1>3, <2>1, <2>4 DEF Told
  <2> QED
    BY <1>1, <1>3, <2>1, <2>5, AnswerView
<1>4. CASE /\ d.kind = "tenant" /\ Reply(a, reply, tenants + 1, None, 0)
           /\ UNCHANGED <<changes, imports, payouts>>
  <2>1. \A v \in Tenants : changes[v] <= changes'[v] /\ 0 <= changes'[v]
    BY <1>2, <1>4
  <2> QED
    BY <1>4, <2>1, <1>3
<1>5. CASE d.kind = "payout" /\ Reply(a, reply, t, None, changes[t]) /\ UNCHANGED server
  <2>1. \A v \in Tenants : changes[v] <= changes'[v]
    BY <1>2, <1>5 DEF server
  <2>2. t \in Tenants => changes[t] <= changes'[t]
    BY <2>1
  <2> QED
    BY <1>5, <2>1, <2>2, <1>3
<1>6. CASE /\ d.kind # "tenant" /\ changes' = [changes EXCEPT ![t] = @ + 1]
           /\ \E i : Reply(a, reply, t, i, changes[t] + 1)
  <2>1. t \in Tenants
    BY <1>1, <1>6, ViewFacts DEF Shape
  <2>2. \A v \in Tenants : changes[v] <= changes'[v]
    BY <1>2, <1>6, <2>1
  <2>3. changes[t] + 1 <= changes'[t]
    BY <1>2, <1>6, <2>1
  <2> QED
    BY <1>6, <2>2, <2>3, <1>3
<1>7. CASE d.item.tenant # t /\ Reply(a, "refused", t, d.item, 0) /\ UNCHANGED server
  <2>1. PICK q \in Doings :
           /\ doing' = [doing EXCEPT ![a] = q] /\ q.step = d.step
           /\ q.tenant = t /\ q.item = d.item /\ q.reply = "refused" /\ q.at = 0
    BY <1>7, ReplyView
  <2>2. Told(q, changes')
    BY <1>1, <1>7, <2>1 DEF Told
  <2>3. \A v \in Tenants : changes[v] <= changes'[v]
    BY <1>2, <1>7 DEF server
  <2> QED
    BY <1>1, <2>1, <2>2, <2>3, AnswerView
<1>8. \/ /\ d.kind = "tenant" /\ Reply(a, reply, tenants + 1, None, 0)
         /\ UNCHANGED <<changes, imports, payouts>>
      \/ d.kind = "payout" /\ Reply(a, reply, t, None, changes[t]) /\ UNCHANGED server
      \/ /\ d.kind # "tenant" /\ changes' = [changes EXCEPT ![t] = @ + 1]
         /\ \E i : Reply(a, reply, t, i, changes[t] + 1)
      \/ d.item.tenant # t /\ Reply(a, "refused", t, d.item, 0) /\ UNCHANGED server
  BY DEF HandlePost
<1> QED
  BY <1>4, <1>5, <1>6, <1>7, <1>8

LEMMA HandleReadView ==
  ASSUME IInv, IInv', ViewInv, NEW a \in Activities, HandleRead(a), PageUnchanged
  PROVE  ViewInv'
<1> DEFINE d == doing[a]
           t == IF d.tenant = None THEN Demo ELSE d.tenant
<1>1. /\ Shape(d, dashboard) /\ d \in Doings /\ changes \in [Tenants -> Nat]
      /\ confirmed \in [Tenants -> Nat]
      /\ \A v \in Tenants : confirmed[v] <= changes[v]
  BY ViewFacts
<1>2. t \in Tenants /\ (d.tenant \in Tenants => t = d.tenant)
  BY <1>1, DashboardAssumption DEF Demo, Tenants, Doings
<1>3. changes' = changes /\ \A v \in Tenants : changes[v] <= changes'[v]
  BY <1>1 DEF HandleRead, server
<1> HIDE DEF t
<1>4. CASE d.step = "session" /\ Reply(a, "ok", None, None, 0)
  <2>1. PICK q \in Doings :
           /\ doing' = [doing EXCEPT ![a] = q] /\ q.step = d.step
           /\ q.tenant = None /\ q.item = None /\ q.reply = "ok" /\ q.at = 0
    BY <1>4, ReplyView
  <2>2. Told(q, changes')
    BY <1>4, <2>1 DEF Told
  <2> QED
    BY <1>3, <1>4, <2>1, <2>2, AnswerView
<1>5. CASE d.step = "summary" /\ Reply(a, "ok", t, None, changes[t])
  <2>1. PICK q \in Doings :
           /\ doing' = [doing EXCEPT ![a] = q] /\ q.step = d.step
           /\ q.tenant = t /\ q.item = None /\ q.reply = "ok" /\ q.at = changes[t]
    BY <1>5, ReplyView
  <2>2. Told(q, changes')
    BY <1>5, <2>1 DEF Told
  <2>3. q.at >= confirmed[q.tenant]
    BY <1>1, <1>2, <2>1
  <2> QED
    BY <1>3, <1>5, <2>1, <2>2, <2>3, AnswerView
<1>6. CASE d.step = "imports" /\ Reply(a, "ok", t, None, imports[t])
  <2>1. PICK q \in Doings :
           /\ doing' = [doing EXCEPT ![a] = q] /\ q.step = d.step
           /\ q.tenant = t /\ q.item = None /\ q.reply = "ok" /\ q.at = imports[t]
    BY <1>6, ReplyView
  <2>2. Told(q, changes')
    BY <1>6, <2>1 DEF Told
  <2>3. t = d.tenant
    BY <1>1, <1>2, <1>6 DEF Shape
  <2> QED
    BY <1>3, <1>6, <2>1, <2>2, <2>3, AnswerView
<1>7. CASE /\ d.step \in {"details", "reselect", "pick"}
           /\ Reply(a, IF d.item.tenant = t THEN "ok" ELSE "refused", t, d.item, 0)
  <2>1. PICK q \in Doings :
           /\ doing' = [doing EXCEPT ![a] = q] /\ q.step = d.step
           /\ q.tenant = t /\ q.item = d.item /\ q.at = 0
           /\ q.reply = IF d.item.tenant = t THEN "ok" ELSE "refused"
    BY <1>7, ReplyView
  <2>2. Told(q, changes')
    BY <1>7, <2>1 DEF Told
  <2>3. t = d.tenant
    BY <1>1, <1>2, <1>7 DEF Shape
  <2> QED
    BY <1>3, <1>7, <2>1, <2>2, <2>3, AnswerView
<1> QED
  BY <1>4, <1>5, <1>6, <1>7 DEF HandleRead, t

LEMMA HandleView ==
  ASSUME IInv, IInv', ViewInv, NEW a \in Activities, Handle(a) PROVE ViewInv'
<1>1. PageUnchanged
  BY Facts DEF Handle, PageUnchanged, PageOK, view, flags, history, bounds
<1> QED
  BY <1>1, HandlePostView, HandleReadView DEF Handle

LEMMA LoseView ==
  ASSUME IInv, IInv', ViewInv, NEW a \in Activities, Lose(a) PROVE ViewInv'
<1>1. faults' \in 0..MaxFaults
  BY DEF IInv, TypeOK
<1>2. PageUnchanged
  BY <1>1 DEF Lose, PageUnchanged, view, flags, history
<1>3. CASE HandlePost(a, "lost")
  BY <1>2, <1>3, HandlePostView
<1>4. CASE Reply(a, "lost", doing[a].tenant, doing[a].item, 0) /\ UNCHANGED server
  <2>1. PICK q \in Doings :
           /\ doing' = [doing EXCEPT ![a] = q] /\ q.step = doing[a].step
           /\ q.tenant = doing[a].tenant /\ q.item = doing[a].item
           /\ q.reply = "lost" /\ q.at = 0
    BY <1>4, ReplyView
  <2>2. Told(q, changes') /\ \A t \in Tenants : changes[t] <= changes'[t]
    BY <1>4, <2>1, ViewFacts DEF Told, server
  <2> QED
    BY <1>2, <2>1, <2>2, AnswerView
<1> QED
  BY <1>3, <1>4 DEF Lose

-----------------------------------------------------------------------------
(* The view invariant and what follows from it *)

LEMMA ViewInit == ASSUME Init PROVE ViewInv
<1>1. /\ doing = [a \in Activities |-> Rest] /\ dashboard = None
      /\ confirmed = [t \in Tenants |-> 0] /\ changes = [t \in Tenants |-> 0]
  BY DEF Init
<1>2. \A a \in Activities :
        /\ Told(doing[a], changes) /\ doing[a].step \notin Reads
        /\ Loaded(doing[a], confirmed, dashboard, active, list, selected)
  BY <1>1, RestFields
<1>3. \A t \in Tenants : confirmed[t] <= changes[t]
  BY <1>1
<1> QED
  BY <1>1, <1>2, <1>3 DEF ViewInv

LEMMA ViewStep == ASSUME IInv, IInv', ViewInv, [Next]_vars PROVE ViewInv'
<1>1. ASSUME NEW a \in Activities, Clicks(a) PROVE ViewInv'
  BY <1>1, RefreshView, PickView, SubmitView DEF Clicks
<1>2. ASSUME NEW a \in Activities, Arrives(a) PROVE ViewInv'
  BY <1>2, SessionArrivesView, SummaryArrivesView, ImportsArriveView, DetailsArriveView,
     LoadFailsView, PostArrivesView, ReselectArrivesView, MutationFailsView,
     PickArrivesView DEF Arrives
<1>3. CASE UNCHANGED vars
  BY <1>3, ViewUnchanged DEF vars, server, view, flags, history
<1> QED
  BY <1>1, <1>2, <1>3, InitializeView, ReloadView, HandleView, LoseView DEF Next

\* What a read that is alone has put on the page is still there when its next
\* answer arrives; and without a read or a mutation under way, the view is whole.
THEOREM ViewInvariant == Spec => [](IInv /\ ViewInv)
<1>1. Init => IInv /\ ViewInv
  BY InitHolds, ViewInit
<1>2. IInv /\ ViewInv /\ [Next]_vars => (IInv /\ ViewInv)'
  BY StepHolds, ViewStep
<1> QED
  BY <1>1, <1>2, PTL DEF Spec

\* When nothing is under way, no error is shown and reads did not overlap, the
\* page shows one tenant, no older than what it was told (foundation.ts, load).
THEOREM ViewIsCurrentHolds == Spec => []ViewIsCurrent
<1>1. IInv /\ ViewInv => ViewIsCurrent
  <2> SUFFICES ASSUME ViewInv, Idle, ~error, dashboard # None, ~overlapped
               PROVE  Current
    BY DEF ViewIsCurrent, Current
  <2>1. \A a \in Activities : ~Replacing(doing[a])
    BY DEF Idle, Free, Replacing
  <2> QED
    BY <2>1 DEF ViewInv
<1> QED
  BY <1>1, ViewInvariant, PTL

\* The error that ends a load without a lost request: load asked for the import
\* that createTenant left selected, under a tenant it does not belong to.
LEMMA ErrorCause ==
  ASSUME IInv, ViewInv, [Next]_vars, loading, ~loading', ~error, error', ~trouble', ~overlapped'
  PROVE  selected # None /\ selected.tenant # active
<1>1. ASSUME NEW a \in Activities, LoadFails(a)
      PROVE  selected # None /\ selected.tenant # active
  <2>1. /\ doing[a].step \in {"summary", "imports", "details"}
        /\ doing[a].reply = "refused" /\ ~overlapped
    BY <1>1 DEF LoadFails, Failed
  <2>2. Told(doing[a], changes) /\ Loaded(doing[a], confirmed, dashboard, active, list, selected)
    BY <2>1, ViewFacts
  <2>3. doing[a].step = "details" /\ doing[a].item.tenant # doing[a].tenant
    BY <2>1, <2>2 DEF Told
  <2> QED
    BY <2>2, <2>3 DEF Loaded
\* No other step ends a load with an error.
<1>2. ASSUME NEW a \in Activities, Clicks(a) PROVE FALSE
  BY <1>2 DEF Clicks, Refresh, Pick, Submit, Load, flags
<1>3. ASSUME NEW a \in Activities,
             SessionArrives(a) \/ PostArrives(a) \/ ReselectArrives(a) \/ MutationFails(a)
      PROVE  FALSE
  BY <1>3 DEF SessionArrives, PostArrives, ReselectArrives, MutationFails, Load
<1>4. ASSUME NEW a \in Activities,
             SummaryArrives(a) \/ ImportsArrive(a) \/ DetailsArrive(a) \/ PickArrives(a)
      PROVE  FALSE
  BY <1>4 DEF SummaryArrives, ImportsArrive, DetailsArrive, PickArrives, LoadEnds, Ends, flags
<1>5. ASSUME NEW a \in Activities, Initialize(a) \/ Handle(a) \/ Lose(a) PROVE FALSE
  BY <1>5 DEF Initialize, Handle, Lose, flags
<1>6. ~Reload /\ ~UNCHANGED vars
  BY DEF Reload, vars, flags
<1> QED
  BY <1>1, <1>2, <1>3, <1>4, <1>5, <1>6 DEF Next, Arrives

\* As ErrorCause, of every step: the hazard of createTenant and load together.
THEOREM ErrorHasCauseHolds == Spec => ErrorHasCause
<1>1. IInv /\ ViewInv /\ [Next]_vars =>
        [loading /\ ~loading' /\ ~error /\ error' /\ ~trouble' /\ ~overlapped' =>
           selected # None /\ selected.tenant # active]_vars
  BY ErrorCause
<1> QED
  BY <1>1, ViewInvariant, PTL DEF Spec, ErrorHasCause
=============================================================================
