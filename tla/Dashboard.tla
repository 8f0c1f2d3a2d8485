----------------------------- MODULE Dashboard ------------------------------
(***************************************************************************)
(* The two pages of src/dashboard.ts.  The page is loaded once and shows   *)
(* what its requests bring back; the question is whether that is true, for *)
(* a user who waits for the answers and for one who does not.              *)
(***************************************************************************)
EXTENDS TenantPage, AdminPage

vars == <<pageVars, accepted, adminVars>>

DashboardInit ==
    /\ Init
    /\ accepted = {}
    /\ apps = << >> /\ keys = {} /\ drawn = 0

Next ==
    \/ page = "tenant" /\ TenantPageStep /\ UNCHANGED adminVars
    \/ page = "admin" /\ AdminPageStep /\ UNCHANGED accepted

Spec == DashboardInit /\ [][Next]_vars

-----------------------------------------------------------------------------
Shown(p) == ui.panel[p].rows
StateOf(p) == ui.panel[p].state

(* What rows are about: tenants by their keys, messages, apps and keys.    *)
Things == Keys \cup Messages \cup 1 .. MaxIds
Tokens == Keys \cup {AdminToken, None}
Kinds == (Panels \ {"auth"}) \cup {"revoke"}

Requests ==
    [click : Nat, kind : Kinds, token : Tokens, of : Things \cup {None},
     reset : BOOLEAN, joint : BOOLEAN, then : Things \cup {None},
     handled : BOOLEAN, rows : Seq(Things), more : Things \cup {None},
     asOf : SUBSET Things]

PanelContents == [state : {"empty", "loading", "success", "error"}, rows : Seq(Things)]

UIStates ==
    [token : Tokens, selected : Things \cup {None}, list : Seq(Things),
     cursor : Things \cup {None}, loadMore : BOOLEAN, since : SUBSET Things,
     secretOf : Things \cup {None}, revocable : SUBSET Things,
     panel : [Panels -> PanelContents], flight : SUBSET Requests]

(* The page, its requests and the tables keep their shape, apps are listed *)
(* once, and a key is of an app that exists.                               *)
TypeOK ==
    /\ page \in Pages /\ patient \in BOOLEAN
    /\ clicks \in 0 .. (IF patient THEN MaxClicks ELSE MaxHastyClicks)
    /\ ui \in UIStates
    /\ \A r \in ui.flight : r.click \in 1 .. clicks
    /\ accepted \subseteq Messages
    /\ drawn \in 0 .. MaxIds
    /\ apps \in Seq(1 .. drawn) /\ IsInjective(apps)
    /\ keys \subseteq [id : 1 .. drawn, app : ToSet(apps), revoked : BOOLEAN]

(* When nothing is under way, no panel says that something is: whatever    *)
(* answers came in whatever order, and whichever failed, each panel was    *)
(* told the end of the last load it had.                                   *)
PanelsSettle == Idle => \A p \in Panels : StateOf(p) # "loading"

-----------------------------------------------------------------------------
(* The tenant page *)

Ordered(rows) == \A i, j \in DOMAIN rows : i < j => Newer(rows[i], rows[j])

(* Nothing that was there when the first page was read is left out of the  *)
(* part of the history that is shown.                                      *)
Covered(rows) ==
    \/ rows = << >> /\ StateOf("list") = "error"
    \/ \A m \in ui.since :
          /\ TenantOf[m] = ui.token
          /\ ui.cursor = None \/ ~Newer(Last(rows), m)
          => m \in ToSet(rows)

(* What that is on the tenant page. *)
TenantSeesTheTruth ==
    /\ \A p \in {"usage", "endpoints"} : ToSet(Shown(p)) \subseteq {ui.token}
    /\ \A p \in {"deliveries", "attempts"} : ToSet(Shown(p)) \subseteq {ui.selected}
    /\ Shown("list") = ui.list
    /\ \A m \in ToSet(ui.list) : TenantOf[m] = ui.token
    /\ Covered(ui.list)
    /\ StateOf("list") = "success" =>
           Ordered(ui.list) /\ ui.loadMore = (ui.cursor # None)

(* Every tenant the server has is listed, unless the answer to its         *)
(* creation was lost, and the keys are those that the server has of the    *)
(* selected tenant, each once, with a button for those not yet revoked.    *)
AdminSeesTheTruth ==
    /\ ToSet(Shown("usage")) \subseteq {ui.selected}
    /\ ui.selected # None => ui.selected \in ToSet(Shown("list"))
    /\ StateOf("list") = "success" /\ StateOf("newTenant") # "error" =>
           ToSet(apps) \subseteq ToSet(Shown("list"))
    /\ /\ ui.selected \in ToSet(apps)
       /\ StateOf("keys") # "error" /\ StateOf("newKey") # "error"
       => /\ ToSet(Shown("keys")) = IdsOf(KeysOf(ui.selected))
          /\ IsInjective(Shown("keys"))
          /\ ui.revocable = IdsOf(Unrevoked(KeysOf(ui.selected)))

(* A user who waits for the answers sees, on either page, what the server  *)
(* has of the tenant and of the selected message or tenant: the rows of    *)
(* nobody else, the messages in order, each once and none missing between  *)
(* two of them, and a button for more exactly when there are more; but for *)
(* what another client did since, and requests whose failure is shown.     *)
(* A tenant who submits a blank key is left out: the page then still shows *)
(* what it had.                                                            *)
PatientSeesTheTruth ==
    patient /\ Idle /\ ui.token # None =>
        /\ page = "tenant" => TenantSeesTheTruth
        /\ page = "admin" => AdminSeesTheTruth

(* What the doc promises of the page: the delivery status and the attempts *)
(* that are shown are those of the message that is selected.               *)
ShownIsOfSelection ==
    page = "tenant" =>
        \A p \in {"deliveries", "attempts"} : ToSet(Shown(p)) \subseteq {ui.selected}
=============================================================================
