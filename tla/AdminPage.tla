----------------------------- MODULE AdminPage ------------------------------
(***************************************************************************)
(* The admin page of src/dashboard.ts (adminScript) over the admin API:    *)
(* handleAdminRequest of src/gateway.ts and the functions of src/admin.ts  *)
(* that it calls.                                                          *)
(*                                                                         *)
(* Ids are random: here, numbers that are drawn once, and the newest row   *)
(* is the one with the largest.  A name, a quota and a month's usage are   *)
(* left out: no property tells them apart.                                 *)
(***************************************************************************)
EXTENDS DashboardPage, Listings

CONSTANTS
    AdminToken,  \* what the operator types
    MaxIds       \* bound: apps and keys

ASSUME AdminAssumption ==
    /\ AdminToken # None
    /\ MaxIds \in Nat
    /\ None \notin 1 .. MaxIds

VARIABLES
    apps,    \* the apps table, newest first
    keys,    \* the api_keys table
    drawn    \* ids drawn so far

adminVars == <<apps, keys, drawn>>

KeysOf(app) == {k \in keys : k.app = app}

IdsOf(rows) == {k.id : k \in rows}
Unrevoked(rows) == {k \in rows : ~k.revoked}

-----------------------------------------------------------------------------
(* The server.  What it cannot find it answers with an error: see          *)
(* AdminRequestFails.                                                      *)

DrawId == drawn < MaxIds /\ drawn' = drawn + 1

HandleListApps(r) ==
    /\ r.kind = "list"
    /\ AnswerIsUnderWay(r, Handled(r, apps))
    /\ UNCHANGED adminVars

HandleCreateApp(r) ==
    /\ r.kind = "newTenant"
    /\ DrawId
    /\ apps' = <<drawn'>> \o apps
    /\ AnswerIsUnderWay(r, Handled(r, <<drawn'>>))
    /\ UNCHANGED keys

HandleUsage(r) ==
    /\ r.kind = "usage"
    /\ r.of \in ToSet(apps)
    /\ AnswerIsUnderWay(r, Handled(r, <<r.of>>))
    /\ UNCHANGED adminVars

LargestFirst == {p \in (1 .. MaxIds) \X (1 .. MaxIds) : p[1] > p[2]}

HandleListKeys(r) ==
    /\ r.kind = "keys"
    /\ r.of \in ToSet(apps)
    /\ AnswerIsUnderWay(r,
           [Handled(r, OrderBy(IdsOf(KeysOf(r.of)), LargestFirst)) EXCEPT
               !.asOf = IdsOf(Unrevoked(KeysOf(r.of)))])
    /\ UNCHANGED adminVars

HandleCreateKey(r) ==
    /\ r.kind = "newKey"
    /\ r.of \in ToSet(apps)
    /\ DrawId
    /\ keys' = keys \cup {[id |-> drawn', app |-> r.of, revoked |-> FALSE]}
    /\ AnswerIsUnderWay(r, Handled(r, << >>))
    /\ UNCHANGED apps

(* A key that is revoked already is left as it is. *)
HandleRevokeKey(r) ==
    /\ r.kind = "revoke"
    /\ \E k \in keys :
          /\ k.id = r.of
          /\ keys' = (keys \ {k}) \cup {[k EXCEPT !.revoked = TRUE]}
    /\ AnswerIsUnderWay(r, Handled(r, << >>))
    /\ UNCHANGED <<apps, drawn>>

(* DELETE /v1/admin/apps/:id, by another client: its keys go with it.      *)
(* Before it, a variant that leaves them.                                  *)
DeleteAppAlone(a) ==
    /\ \E i \in DOMAIN apps : apps[i] = a /\ apps' = RemoveAt(apps, i)
    /\ UNCHANGED <<keys, drawn, pageVars>>
DeleteApp(a) ==
    /\ \E i \in DOMAIN apps : apps[i] = a /\ apps' = RemoveAt(apps, i)
    /\ keys' = keys \ KeysOf(a)
    /\ UNCHANGED <<drawn, pageVars>>

-----------------------------------------------------------------------------
(* The script *)

ClearSelectedTenantView(u) ==
    WithPanel(WithPanel([u EXCEPT !.selected = None, !.revocable = {}], "usage", NoRows),
              "keys", NoRows)

ReadyForKey(u) == SetStatus(u, "newKey", IF u.selected = None THEN "error" ELSE "empty")

LoadUsage(u, click, then) ==
    IF u.selected = None THEN WithPanel(u, "usage", NoRows)
    ELSE Load(u, [Request(u, click, "usage", u.selected) EXCEPT !.then = then])

(* Before it, a variant that leaves the old rows. *)
LoadMoreKeys(u, click, then) ==
    IF u.selected = None THEN WithPanel([u EXCEPT !.revocable = {}], "keys", NoRows)
    ELSE Api(SetStatus(u, "keys", "loading"),
             [Request(u, click, "keys", u.selected) EXCEPT !.then = then])
LoadKeys(u, click, then) ==
    IF u.selected = None THEN WithPanel([u EXCEPT !.revocable = {}], "keys", NoRows)
    ELSE Load([u EXCEPT !.revocable = {}],
              [Request(u, click, "keys", u.selected) EXCEPT !.then = then])

LoadSelectedTenant(u, click, then) == LoadKeys(LoadUsage(u, click, then), click, then)

SelectTenant(u, click, a) ==
    LET chosen == [u EXCEPT !.selected = IF a \in ToSet(u.list) THEN a ELSE None,
                            !.secretOf = None]
        shown == ReadyForKey(RenderList(chosen))
    IN  IF shown.selected = None THEN ClearSelectedTenantView(shown)
        ELSE LoadSelectedTenant(shown, click, None)

(* createTenant selects the new tenant when loadAdmin has returned. *)
Then(u, click, then) == IF then = None THEN u ELSE SelectTenant(u, click, then)

LoadAdmin(u, click, then) ==
    IF u.token = None THEN Then(SetStatus(u, "auth", "error"), click, then)
    ELSE Api(SetStatus(SetStatus(u, "auth", "loading"), "list", "loading"),
             [Request(u, click, "list", None) EXCEPT !.then = then])

(* The selected tenant stays selected if it is still there. *)
KeptSelection(u, rows) ==
    IF u.selected \in ToSet(rows) THEN u.selected
    ELSE IF rows = << >> THEN None ELSE Head(rows)

TenantsLoaded(u, r) ==
    LET kept == [u EXCEPT !.list = r.rows, !.selected = KeptSelection(u, r.rows)]
        shown == RenderList(ReadyForKey(SetStatus(kept, "auth", "success")))
    IN  IF shown.selected = None
        THEN Then(ClearSelectedTenantView(shown), r.click, r.then)
        ELSE LoadSelectedTenant(shown, r.click, r.then)

TenantsFailed(u, r) ==
    LET cleared == ClearSelectedTenantView(RenderList([u EXCEPT !.list = << >>]))
    IN  Then(SetStatus(SetStatus(cleared, "auth", "error"), "list", "error"),
             r.click, r.then)

(* Promise.all of loadUsage and loadKeys, which never reject. *)
SelectedTenantLoaded(u, r) ==
    IF \E q \in u.flight : q.click = r.click /\ q.then # None THEN u
    ELSE Then(u, r.click, r.then)

(* The heading of the usage is the selected tenant's name: without one it  *)
(* throws, when the rows are shown already.                                *)
UsageLoaded(u, r) ==
    LET shown == Loaded(u, r, r.rows)
    IN  IF u.selected = None THEN SetStatus(shown, "usage", "error") ELSE shown

KeysLoaded(u, r) == [Loaded(u, r, r.rows) EXCEPT !.revocable = @ \cup r.asOf]

TenantCreated(u, r) ==
    LoadAdmin(SetStatus([u EXCEPT !.selected = Head(r.rows)], "newTenant", "success"),
              r.click, Head(r.rows))

KeyCreated(u, r) ==
    LoadKeys(SetStatus([u EXCEPT !.secretOf = r.of], "newKey", "success"), r.click, None)

KeyRevoked(u, r) == LoadKeys(SetStatus(u, "keys", "success"), r.click, None)

AdminAnswerArrives(r) ==
    LET u == Arrived(ui, r)
    IN  /\ r.handled
        /\ ui' = CASE r.kind = "list" -> TenantsLoaded(u, r)
                   [] r.kind = "usage" -> SelectedTenantLoaded(UsageLoaded(u, r), r)
                   [] r.kind = "keys" -> SelectedTenantLoaded(KeysLoaded(u, r), r)
                   [] r.kind = "newTenant" -> TenantCreated(u, r)
                   [] r.kind = "newKey" -> KeyCreated(u, r)
                   [] r.kind = "revoke" -> KeyRevoked(u, r)

(* An error answer or a lost connection, before the server has handled the *)
(* request or after.                                                       *)
PanelOf(r) == IF r.kind = "revoke" THEN "keys" ELSE r.kind
AdminRequestFails(r) ==
    LET u == Arrived(ui, r)
    IN  ui' = IF r.kind = "list" THEN TenantsFailed(u, r)
              ELSE SelectedTenantLoaded(SetStatus(u, PanelOf(r), "error"), r)

-----------------------------------------------------------------------------
(* The operator *)

SubmitToken(token) ==
    ui' = LoadAdmin(ClearSelectedTenantView([ui EXCEPT !.token = token]), clicks', None)

CreateTenant ==
    ui' = IF ui.token = None THEN SetStatus(ui, "newTenant", "error")
          ELSE Api(SetStatus(ui, "newTenant", "loading"),
                   Request(ui, clicks', "newTenant", None))

CreateKey ==
    ui' = IF ui.selected = None THEN SetStatus(ui, "newKey", "error")
          ELSE Api(SetStatus(ui, "newKey", "loading"),
                   Request(ui, clicks', "newKey", ui.selected))

RevokeKey(k) ==
    ui' = Api(SetStatus(ui, "keys", "loading"), Request(ui, clicks', "revoke", k))

AdminUser ==
    /\ Click
    /\ \/ \E token \in {AdminToken, None} : SubmitToken(token)
       \/ ui' = LoadAdmin(ui, clicks', None)
       \/ CreateTenant
       \/ CreateKey
       \/ \E a \in ToSet(ui.panel["list"].rows) : ui' = SelectTenant(ui, clicks', a)
       \/ \E k \in ui.revocable : RevokeKey(k)

AdminServer(r) ==
    /\ r.token # None /\ ~r.handled
    /\ \/ HandleListApps(r)
       \/ HandleCreateApp(r)
       \/ HandleUsage(r)
       \/ HandleListKeys(r)
       \/ HandleCreateKey(r)
       \/ HandleRevokeKey(r)
    /\ UNCHANGED <<page, patient, clicks>>

AdminPageStep ==
    \/ /\ AdminUser
       /\ UNCHANGED adminVars
    \/ \E r \in ui.flight : AdminServer(r)
    \/ /\ \E r \in ui.flight : AdminAnswerArrives(r) \/ AdminRequestFails(r)
       /\ UNCHANGED <<page, patient, clicks, adminVars>>
    \/ \E a \in ToSet(apps) : DeleteApp(a)
=============================================================================
