------------------------------ MODULE Dashboard ------------------------------
(***************************************************************************)
(* One page of the operator dashboard: the store that every view shares    *)
(* (stores/foundation.ts), the handlers and buttons that call it           *)
(* (pages/index.vue) and the sign-in before them (useAdminAuth.ts).        *)
(*                                                                         *)
(* The page runs on one thread, but every request is awaited, so several   *)
(* activities are under way at a time and share the flags, the tenant and  *)
(* the selection.  An activity is a handler from its click to its end.     *)
(* Each of its requests is two steps, the server's answer and its arrival, *)
(* because answers may overtake each other; all that runs between two      *)
(* awaits is one step.                                                     *)
(*                                                                         *)
(* The server is what the page can tell of it: how many tenants there are, *)
(* how often each was changed, its imports and its payouts.  The server    *)
(* may refuse any request (a failing one without effect).                  *)
(***************************************************************************)
EXTENDS Naturals

CONSTANTS
  Activities,  \* handlers that can be under way at a time
  MaxTenants, MaxChanges, MaxImports, MaxKeys,   \* bounds on what is created
  MaxFaults,   \* bound on failing requests
  MaxReloads,  \* bound on reloads of the page
  None

Tenants == 1..MaxTenants
Demo == 1      \* the tenant of /v1/demo/dashboard; later ones are created here

ASSUME DashboardAssumption ==
  /\ MaxTenants \in Nat \ {0} /\ MaxChanges \in Nat /\ MaxImports \in Nat
  /\ MaxKeys \in Nat \ {0} /\ MaxFaults \in Nat /\ MaxReloads \in Nat
  /\ None \notin Nat /\ None \notin [tenant : Tenants, at : Nat]
  /\ None \notin [tenant : Tenants, count : Nat]

VARIABLES
  \* the server
  tenants,     \* number of tenants
  changes,     \* changes of each tenant so far
  imports,     \* settlement imports of each tenant so far
  payouts,     \* payouts, as pairs of tenant and idempotency key
  \* the page
  auth,        \* "starting", "gate" (not signed in) or "in"
  dashboard,   \* tenant and state last loaded, or None
  active,      \* activeTenantId
  list,        \* reconciliationImports: whose, and how many
  selected,    \* selectedReconciliation, or None
  saving, loading, error,
  key,         \* the idempotency key in the payout form
  doing,       \* the activities
  \* history
  confirmed,   \* changes of each tenant that the page was told of
  finished,    \* payouts whose form closed: the tenant it was sent to, the key
  abandoned,   \* keys of payout forms that a reload threw away
  left,        \* tenants that the page turned from after the form was sent to them
  overlapped,  \* reads of the last burst were under way at the same time
  trouble,     \* a request was lost or a mutation refused since error was cleared
  faults, reloads

server == <<tenants, changes, imports, payouts>>
view == <<dashboard, active, list, selected>>
flags == <<saving, loading, error>>
history == <<confirmed, finished, abandoned, left, overlapped, trouble>>
bounds == <<faults, reloads>>
vars == <<server, auth, view, flags, key, doing, history, bounds>>

Imports == [tenant : Tenants, no : 1..MaxImports]
Mutations == {"tenant", "payout", "import", "resolve", "change"}
Reads == {"summary", "imports", "details", "reselect", "pick"}

\* step is the request that is awaited, tenant and item what it is about, of
\* the tenant shown at the click, reply the answer once there is one ("refused"
\* for a foreign import, "lost" for any other failure), at the number in it.
Doings == [kind : Mutations \cup {"none", "mount", "refresh", "select"},
           step : Reads \cup {"idle", "session", "post"},
           of : Tenants \cup {None}, tenant : Tenants \cup {None},
           item : Imports \cup {None},
           reply : {"none", "ok", "refused", "lost"}, at : Nat]

Rest == [kind |-> "none", step |-> "idle", of |-> None, tenant |-> None,
         item |-> None, reply |-> "none", at |-> 0]

Init ==
  /\ tenants = 1 /\ changes = [t \in Tenants |-> 0]
  /\ \E n \in 0..MaxImports : imports = [t \in Tenants |-> IF t = Demo THEN n ELSE 0]
  /\ payouts = {}
  /\ auth = "starting" /\ dashboard = None /\ active = None /\ list = None /\ selected = None
  /\ saving = FALSE /\ loading = FALSE /\ error = FALSE
  /\ key = 1 /\ doing = [a \in Activities |-> Rest]
  /\ confirmed = [t \in Tenants |-> 0] /\ finished = {} /\ abandoned = {} /\ left = {}
  /\ overlapped = FALSE /\ trouble = FALSE
  /\ faults = 0 /\ reloads = 0

Free(a) == doing[a].step = "idle"
Becomes(a, d) == doing' = [doing EXCEPT ![a] = d]
Request(d, step, t, i) ==
  [d EXCEPT !.step = step, !.tenant = t, !.item = i, !.reply = "none", !.at = 0]
Accepted(a, step) == doing[a].step = step /\ doing[a].reply = "ok"
Failed(a, steps) == doing[a].step \in steps /\ doing[a].reply \in {"refused", "lost"}
ReadUnderWay(a) == \E b \in Activities \ {a} : doing[b].step \in Reads

-----------------------------------------------------------------------------
\* initialize and the session at mount: development mode and a valid Auth0
\* session let the operator in; no session or any failure ends at the gate.
Initialize(a) ==
  /\ auth = "starting" /\ Free(a)
  /\ \/ auth' = "gate" /\ UNCHANGED doing
     \/ auth' = "in" /\ Becomes(a, Request([Rest EXCEPT !.kind = "mount"], "session", None, None))
  /\ UNCHANGED <<server, view, flags, key, history, bounds>>

\* A reload, or the redirects of login and logout: the page starts over with
\* a new idempotency key, and nobody waits for the answers under way.
Reload ==
  /\ auth # "starting" /\ reloads < MaxReloads /\ key < MaxKeys
  /\ auth' = "starting" /\ dashboard' = None /\ active' = None /\ list' = None /\ selected' = None
  /\ saving' = FALSE /\ loading' = FALSE /\ error' = FALSE
  /\ key' = key + 1 /\ abandoned' = abandoned \cup {key} /\ left' = {}
  /\ doing' = [a \in Activities |-> Rest]
  /\ confirmed' = [t \in Tenants |-> 0] /\ overlapped' = FALSE /\ trouble' = FALSE
  /\ reloads' = reloads + 1
  /\ UNCHANGED <<server, finished, faults>>

-----------------------------------------------------------------------------
\* load(tenantId), up to its first await.  Without a tenant it asks for the
\* demo dashboard.
Load(a, d, t) ==
  /\ Becomes(a, Request(d, "summary", t, None))
  /\ loading' = TRUE /\ error' = FALSE /\ trouble' = FALSE
  /\ overlapped' = ReadUnderWay(a)

\* The answer to loadSession; when it fails, nothing is loaded or reported.
SessionArrives(a) ==
  /\ \/ \E home \in {None, Demo} :
          /\ Accepted(a, "session")
          /\ Load(a, doing[a], home)
     \/ /\ Failed(a, {"session"})
        /\ Becomes(a, Rest) /\ UNCHANGED <<loading, error, trouble, overlapped>>
  /\ UNCHANGED <<server, auth, view, saving, key, confirmed, finished, abandoned, left,
                 bounds>>

\* The refresh button is disabled while loading; the retry button beside an
\* error is not.
Refresh(a) ==
  /\ auth = "in" /\ Free(a) /\ (~loading \/ error)
  /\ Load(a, [Rest EXCEPT !.kind = "refresh"], active)
  /\ UNCHANGED <<server, auth, view, saving, key, confirmed, finished, abandoned, left,
                 bounds>>

\* Mutant: the payout form takes a new key whatever became of the request.
EndsRenewing(a, failed) ==
  /\ Becomes(a, Rest)
  /\ error' = failed
  /\ saving' = IF doing[a].kind \in Mutations THEN FALSE ELSE saving
  /\ IF doing[a].kind = "payout"
     THEN /\ key' = key + 1
          /\ finished' = IF failed THEN finished ELSE finished \cup {<<doing[a].of, key>>}
          /\ left' = {}
     ELSE UNCHANGED <<key, finished, left>>

\* Mutant: saving is cleared at the end of the try block, not in finally.
EndsStillSaving(a, failed) ==
  /\ Becomes(a, Rest)
  /\ error' = failed
  /\ saving' = IF doing[a].kind \in Mutations /\ ~failed THEN FALSE ELSE saving
  /\ IF doing[a].kind = "payout" /\ ~failed
     THEN key' = key + 1 /\ finished' = finished \cup {<<doing[a].of, key>>} /\ left' = {}
     ELSE UNCHANGED <<key, finished, left>>

\* The end of an activity with error as given.  A mutation clears saving; the
\* payout form closes and takes a new key unless there is an error.
Ends(a, failed) ==
  /\ Becomes(a, Rest)
  /\ error' = failed
  /\ saving' = IF doing[a].kind \in Mutations THEN FALSE ELSE saving
  /\ IF doing[a].kind = "payout" /\ ~failed
     THEN key' = key + 1 /\ finished' = finished \cup {<<doing[a].of, key>>} /\ left' = {}
     ELSE UNCHANGED <<key, finished, left>>

\* Mutant: the catch block of load keeps the failure to itself.
LoadEndsSilently(a, failed) ==
  /\ Ends(a, error)
  /\ loading' = FALSE

\* The end of load: the catch block reports a failure, finally clears loading.
LoadEnds(a, failed) ==
  /\ Ends(a, error \/ failed)
  /\ loading' = FALSE

Showing(t) == dashboard # None /\ dashboard.tenant = t

\* The payout form, with the key that it has now, was sent to tenant t.
FormSentTo(t) ==
  <<t, key>> \in payouts \/ \E b \in Activities : doing[b].kind = "payout" /\ doing[b].of = t

\* The dashboard arrives: it replaces what is shown, whatever was asked for
\* since.  The selection goes when the tenant is not the active one.
SummaryArrives(a) ==
  LET t == doing[a].tenant IN
  /\ Accepted(a, "summary")
  /\ dashboard' = [tenant |-> t, at |-> doing[a].at]
  /\ selected' = IF active \notin {None, t} THEN None ELSE selected
  /\ active' = t
  /\ left' = left \cup {u \in Tenants \ {t} : Showing(u) /\ FormSentTo(u)}
  /\ Becomes(a, Request(doing[a], "imports", t, None))
  /\ UNCHANGED <<server, auth, list, flags, key, confirmed, finished, abandoned,
                 overlapped, trouble, bounds>>

\* Mutant: the newest import is asked for without looking whether there is one.
WantedUnchecked(t, count) ==
  IF selected # None THEN selected ELSE [tenant |-> t, no |-> count]

\* Mutant: the import is chosen from the list shown before the answer.
WantedBefore(t, count) ==
  IF selected # None THEN selected
  ELSE IF list # None /\ list.count > 0 THEN [tenant |-> list.tenant, no |-> list.count]
  ELSE None

\* loadReconciliation: the selected import again, or the newest one.
Wanted(t, count) ==
  IF selected # None THEN selected
  ELSE IF count > 0 THEN [tenant |-> t, no |-> count] ELSE None

ImportsArrive(a) ==
  LET t == doing[a].tenant
      wanted == Wanted(t, doing[a].at) IN
  /\ Accepted(a, "imports")
  /\ list' = [tenant |-> t, count |-> doing[a].at]
  /\ IF wanted = None
     THEN selected' = None /\ LoadEnds(a, FALSE)
     ELSE /\ Becomes(a, Request(doing[a], "details", t, wanted))
          /\ UNCHANGED <<selected, flags, key, finished, left>>
  /\ UNCHANGED <<server, auth, dashboard, active, confirmed, abandoned, overlapped,
                 trouble, bounds>>

DetailsArrive(a) ==
  /\ Accepted(a, "details")
  /\ selected' = doing[a].item
  /\ LoadEnds(a, FALSE)
  /\ UNCHANGED <<server, auth, dashboard, active, list, confirmed, abandoned,
                 overlapped, trouble, bounds>>

LoadFails(a) ==
  /\ Failed(a, {"summary", "imports", "details"})
  /\ LoadEnds(a, TRUE)
  /\ trouble' = (trouble \/ doing[a].reply = "lost")
  /\ UNCHANGED <<server, auth, view, confirmed, abandoned, overlapped, bounds>>

-----------------------------------------------------------------------------
\* The bounds leave room for the mutation.  A payout form that was sent to
\* one tenant may be sent to any other.
Within(kind) ==
  LET t == dashboard.tenant
      room == \A u \in Tenants : changes[u] < MaxChanges
      resent == changes[t] < MaxChanges /\ \E p \in payouts : p[2] = key IN
  CASE kind = "tenant" -> tenants < MaxTenants
    [] kind = "payout" -> key < MaxKeys /\ (room \/ resent \/ <<t, key>> \in payouts)
    [] kind = "import" -> room /\ imports[t] < MaxImports
    [] OTHER -> room

\* A mutation up to its first await.  Its buttons are disabled while saving,
\* and without a dashboard except for a new tenant.
Submit(a, kind) ==
  /\ auth = "in" /\ Free(a) /\ ~saving
  /\ kind # "tenant" => dashboard # None
  /\ kind = "resolve" => selected # None
  /\ Within(kind)
  /\ LET t == IF kind = "tenant" THEN None ELSE dashboard.tenant IN
     Becomes(a, Request([Rest EXCEPT !.kind = kind, !.of = t], "post", t,
                        IF kind = "resolve" THEN selected ELSE None))
  /\ saving' = TRUE /\ error' = FALSE /\ trouble' = FALSE
  /\ UNCHANGED <<server, auth, view, loading, key, confirmed, finished, abandoned,
                 left, overlapped, bounds>>

\* The answer to the POST or PATCH of a mutation.  A new tenant becomes the
\* active one at once, a new import the selected one; then all is loaded again.
PostArrives(a) ==
  LET d == doing[a] IN
  /\ Accepted(a, "post")
  /\ confirmed' = [confirmed EXCEPT ![d.tenant] = d.at]
  /\ active' = IF d.kind = "tenant" THEN d.tenant ELSE active
  /\ selected' = IF d.kind = "import" THEN d.item ELSE selected
  /\ IF d.kind = "resolve"
     THEN /\ Becomes(a, Request(d, "reselect", dashboard.tenant, d.item))
          /\ overlapped' = (overlapped \/ ReadUnderWay(a))
          /\ UNCHANGED <<loading, error, trouble>>
     ELSE Load(a, d, d.tenant)
  /\ UNCHANGED <<server, auth, dashboard, list, saving, key, finished, abandoned, left,
                 bounds>>

\* selectReconciliationImport within resolveReconciliationDiscrepancy: it asks
\* for the tenant shown by then; the load after it for the one shown before.
ReselectArrives(a) ==
  /\ Accepted(a, "reselect")
  /\ selected' = doing[a].item
  /\ Load(a, doing[a], doing[a].of)
  /\ UNCHANGED <<server, auth, dashboard, active, list, saving, key, confirmed,
                 finished, abandoned, left, bounds>>

\* The catch block of mutate.
MutationFails(a) ==
  /\ Failed(a, {"post", "reselect"})
  /\ Ends(a, TRUE)
  /\ trouble' = (trouble \/ doing[a].reply = "lost" \/ doing[a].step = "post")
  /\ UNCHANGED <<server, auth, view, loading, confirmed, abandoned, overlapped, bounds>>

\* A click on an import in the list.
Pick(a) ==
  /\ auth = "in" /\ Free(a) /\ list # None
  /\ \E i \in Imports :
       /\ i.tenant = list.tenant /\ i.no <= list.count
       /\ Becomes(a, Request([Rest EXCEPT !.kind = "select"], "pick", dashboard.tenant, i))
  /\ overlapped' = (overlapped \/ ReadUnderWay(a))
  /\ UNCHANGED <<server, auth, view, flags, key, confirmed, finished, abandoned, left,
                 trouble, bounds>>

\* Nothing catches a failure here.
PickArrives(a) ==
  /\ \/ Accepted(a, "pick") /\ selected' = doing[a].item
     \/ Failed(a, {"pick"}) /\ UNCHANGED selected
  /\ Becomes(a, Rest)
  /\ UNCHANGED <<server, auth, dashboard, active, list, flags, key, history, bounds>>

-----------------------------------------------------------------------------
Reply(a, reply, t, i, n) ==
  Becomes(a, [doing[a] EXCEPT !.reply = reply, !.tenant = t, !.item = i, !.at = n])

\* The server handles the request of a mutation, and answers it with reply.
HandlePost(a, reply) ==
  LET d == doing[a]
      t == d.tenant IN
  /\ d.step = "post"
  /\ \/ /\ d.kind = "tenant"
        /\ tenants' = tenants + 1
        /\ Reply(a, reply, tenants + 1, None, 0)
        /\ UNCHANGED <<changes, imports, payouts>>
     \/ /\ d.kind = "payout" /\ <<t, key>> \in payouts
        /\ Reply(a, reply, t, None, changes[t])
        /\ UNCHANGED server
     \/ /\ d.kind = "payout" /\ <<t, key>> \notin payouts
        /\ payouts' = payouts \cup {<<t, key>>}
        /\ changes' = [changes EXCEPT ![t] = @ + 1]
        /\ Reply(a, reply, t, None, changes[t] + 1)
        /\ UNCHANGED <<tenants, imports>>
     \/ /\ d.kind = "import"
        /\ imports' = [imports EXCEPT ![t] = @ + 1]
        /\ changes' = [changes EXCEPT ![t] = @ + 1]
        /\ Reply(a, reply, t, [tenant |-> t, no |-> imports[t] + 1], changes[t] + 1)
        /\ UNCHANGED <<tenants, payouts>>
     \/ /\ d.kind = "resolve" /\ d.item.tenant # t
        /\ Reply(a, "refused", t, d.item, 0)
        /\ UNCHANGED server
     \/ /\ d.kind = "change" \/ (d.kind = "resolve" /\ d.item.tenant = t)
        /\ changes' = [changes EXCEPT ![t] = @ + 1]
        /\ Reply(a, reply, t, d.item, changes[t] + 1)
        /\ UNCHANGED <<tenants, imports, payouts>>

\* Mutant: the server finds an import under any tenant.
HandleReadAnyTenant(a) ==
  LET d == doing[a]
      t == IF d.tenant = None THEN Demo ELSE d.tenant IN
  /\ \/ d.step = "session" /\ Reply(a, "ok", None, None, 0)
     \/ d.step = "summary" /\ Reply(a, "ok", t, None, changes[t])
     \/ d.step = "imports" /\ Reply(a, "ok", t, None, imports[t])
     \/ /\ d.step \in {"details", "reselect", "pick"}
        /\ Reply(a, "ok", t, d.item, 0)
  /\ UNCHANGED server

\* The server handles a read.  An import is found only under its own tenant.
HandleRead(a) ==
  LET d == doing[a]
      t == IF d.tenant = None THEN Demo ELSE d.tenant IN
  /\ \/ d.step = "session" /\ Reply(a, "ok", None, None, 0)
     \/ d.step = "summary" /\ Reply(a, "ok", t, None, changes[t])
     \/ d.step = "imports" /\ Reply(a, "ok", t, None, imports[t])
     \/ /\ d.step \in {"details", "reselect", "pick"}
        /\ Reply(a, IF d.item.tenant = t THEN "ok" ELSE "refused", t, d.item, 0)
  /\ UNCHANGED server

Handle(a) ==
  /\ doing[a].reply = "none"
  /\ HandlePost(a, "ok") \/ HandleRead(a)
  /\ UNCHANGED <<auth, view, flags, key, history, bounds>>

\* The request fails on its way or at the server, or its answer is lost.
Lose(a) ==
  /\ ~Free(a) /\ doing[a].reply = "none" /\ faults < MaxFaults
  /\ \/ Reply(a, "lost", doing[a].tenant, doing[a].item, 0) /\ UNCHANGED server
     \/ HandlePost(a, "lost")
  /\ faults' = faults + 1
  /\ UNCHANGED <<auth, view, flags, key, history, reloads>>

Arrives(a) ==
  \/ SessionArrives(a) \/ SummaryArrives(a) \/ ImportsArrive(a) \/ DetailsArrive(a)
  \/ LoadFails(a) \/ PostArrives(a) \/ ReselectArrives(a) \/ MutationFails(a) \/ PickArrives(a)

Clicks(a) == Refresh(a) \/ Pick(a) \/ \E kind \in Mutations : Submit(a, kind)

Next ==
  \/ \E a \in Activities : Initialize(a) \/ Clicks(a) \/ Handle(a) \/ Lose(a) \/ Arrives(a)
  \/ Reload

Spec == Init /\ [][Next]_vars

\* Every request is answered or fails in the end, and the page takes the
\* outcome; the operator does not have to do anything.
FairSpec == Spec /\ \A a \in Activities : WF_vars(Handle(a) \/ Lose(a) \/ Arrives(a))

-----------------------------------------------------------------------------
TypeOK ==
  /\ tenants \in Tenants /\ changes \in [Tenants -> 0..MaxChanges]
  /\ imports \in [Tenants -> 0..MaxImports] /\ payouts \subseteq Tenants \X (1..MaxKeys)
  /\ auth \in {"starting", "gate", "in"}
  /\ dashboard \in [tenant : Tenants, at : Nat] \cup {None}
  /\ active \in Tenants \cup {None}
  /\ list \in [tenant : Tenants, count : Nat] \cup {None}
  /\ selected \in Imports \cup {None}
  /\ saving \in BOOLEAN /\ loading \in BOOLEAN /\ error \in BOOLEAN
  /\ key \in 1..MaxKeys /\ doing \in [Activities -> Doings]
  /\ confirmed \in [Tenants -> Nat]
  /\ finished \subseteq Tenants \X (1..MaxKeys) /\ abandoned \subseteq 1..MaxKeys
  /\ left \subseteq Tenants
  /\ overlapped \in BOOLEAN /\ trouble \in BOOLEAN
  /\ faults \in 0..MaxFaults /\ reloads \in 0..MaxReloads

Idle == \A a \in Activities : Free(a)

\* A payout that the operator was not told of can be asked for again: the form
\* holds its key and the page shows its tenant.  There are two exceptions.  A
\* reload throws the key away.  And when the page turns to another tenant (a new
\* one, or a late answer about another), the form keeps its key: submitted once
\* more, it makes a payout of that tenant, closes and takes a new key, and the
\* first payout has nobody who knows of it.  A form that closed has its payout
\* (submitPayout: the key changes only without an error).
NoPayoutIsForgotten ==
  /\ \A p \in payouts :
       \/ p \in finished
       \/ p[2] = key /\ (Showing(p[1]) \/ p[1] \in left)
       \/ p[2] \in abandoned
       \/ \E t \in Tenants \ {p[1]} : <<t, p[2]>> \in finished
  /\ finished \subseteq payouts

\* When nothing is under way and no error is shown, the page shows all that it
\* was told to have changed, and all of it of one tenant, unless reads
\* overlapped: the parts of the view are set one by one, each when its answer
\* arrives, and load keeps no track of which request is the newest.
ViewIsCurrent ==
  Idle /\ ~error /\ dashboard # None /\ ~overlapped =>
    /\ dashboard.at >= confirmed[dashboard.tenant]
    /\ active = dashboard.tenant
    /\ list # None /\ list.tenant = dashboard.tenant
    /\ selected # None => selected.tenant = dashboard.tenant

\* When a load fails although no request was lost, the selected import belongs
\* to another tenant.  createTenant leaves it selected, and as load asks for it
\* under the new tenant, every refresh fails until another import is selected.
ErrorHasCause ==
  [][loading /\ ~loading' /\ ~error /\ error' /\ ~trouble' /\ ~overlapped' =>
       selected # None /\ selected.tenant # active]_vars

\* The buttons come back: whatever is clicked, fails or overlaps, saving and
\* loading are each cleared again and again, never set for good (finally).
ButtonsComeBack == []<>~saving /\ []<>~loading
=============================================================================
