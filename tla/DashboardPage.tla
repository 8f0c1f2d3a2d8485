---------------------------- MODULE DashboardPage ----------------------------
(***************************************************************************)
(* What the two pages of src/dashboard.ts share: a page's state, the       *)
(* panels it shows, and its requests to the API, which may be answered in  *)
(* any order or not at all while the user goes on clicking.                *)
(*                                                                         *)
(* The script is single-threaded: what it does between two awaits is one   *)
(* step, written as an operator from the page's state to its next one, of  *)
(* the same name as the function it stands for.                            *)
(*                                                                         *)
(* Abstracted: a panel's text.  A row is what it is about: a message, a    *)
(* tenant, a key.                                                          *)
(***************************************************************************)
EXTENDS Naturals, Sequences, FiniteSets, SequencesExt

CONSTANTS
    Pages,          \* the pages that are looked at: "tenant", "admin"
    None,           \* null, and the empty token
    MaxClicks,      \* bound: what a patient user does
    MaxHastyClicks  \* bound: what a user does who does not wait

ASSUME PageAssumption ==
    /\ Pages \subseteq {"tenant", "admin"}
    /\ MaxClicks \in Nat /\ MaxHastyClicks \in Nat

VARIABLES
    page,     \* the page in the browser
    patient,  \* its user waits for every answer before the next click
    ui,       \* the page's state
    clicks    \* clicks so far; a request carries the number of its click

pageVars == <<page, patient, ui, clicks>>

TenantPanels == {"auth", "usage", "endpoints", "list", "deliveries", "attempts"}
AdminPanels == {"auth", "usage", "list", "keys", "newTenant", "newKey"}
Panels == TenantPanels \cup AdminPanels

NoRows == [state |-> "empty", rows |-> << >>]

(* The closure variables of a page and what it shows.  list is the         *)
(* messages or the tenants, since (history) the messages the server had    *)
(* when it answered with the first of them, secretOf the tenant whose new  *)
(* key is on the screen, and revocable the keys whose Revoke button works. *)
BlankPage == [token |-> None, selected |-> None, list |-> << >>,
              cursor |-> None, loadMore |-> FALSE, since |-> {},
              secretOf |-> None, revocable |-> {},
              panel |-> [p \in Panels |-> NoRows], flight |-> {}]

Init ==
    /\ page \in Pages
    /\ patient \in BOOLEAN
    /\ ui = BlankPage
    /\ clicks = 0

-----------------------------------------------------------------------------
(* A request: the panel it is for, what it asks about, and what goes on    *)
(* when it is answered: joint, a Promise.all waits for it; then, a tenant  *)
(* is selected in the end; reset, its answer replaces the list.  When the  *)
(* server has handled it, its answer is under way.                         *)
Request(u, click, kind, of) ==
    [click |-> click, kind |-> kind, token |-> u.token, of |-> of,
     reset |-> FALSE, joint |-> FALSE, then |-> None,
     handled |-> FALSE, rows |-> << >>, more |-> None, asOf |-> {}]

Api(u, r) == [u EXCEPT !.flight = @ \cup {r}]
Arrived(u, r) == [u EXCEPT !.flight = @ \ {r}]

(* The server's part: r is answered with rows. *)
Handled(r, rows) == [r EXCEPT !.handled = TRUE, !.rows = rows]
AnswerIsUnderWay(r, answer) ==
    ui' = [ui EXCEPT !.flight = (@ \ {r}) \cup {answer}]

WithPanel(u, p, content) == [u EXCEPT !.panel = [@ EXCEPT ![p] = content]]
SetStatus(u, p, state) == WithPanel(u, p, [state |-> state, rows |-> u.panel[p].rows])
ClearRows(u, p) == WithPanel(u, p, [state |-> u.panel[p].state, rows |-> << >>])

(* The panels that are loaded alike: cleared before the request, appended  *)
(* to when it is answered; usage is cleared again then.                    *)
Load(u, r) == Api(SetStatus(ClearRows(u, r.kind), r.kind, "loading"), r)

Loaded(u, r, rows) ==
    WithPanel(u, r.kind,
        [state |-> IF rows = << >> THEN "empty" ELSE "success",
         rows |-> IF r.kind = "usage" THEN rows ELSE u.panel[r.kind].rows \o rows])

(* renderMessages, renderTenants *)
RenderList(u) ==
    WithPanel(u, "list", [state |-> IF u.list = << >> THEN "empty" ELSE "success",
                          rows |-> u.list])

(* Something the user does. *)
Click ==
    /\ clicks < IF patient THEN MaxClicks ELSE MaxHastyClicks
    /\ patient => ui.flight = {}
    /\ clicks' = clicks + 1
    /\ UNCHANGED <<page, patient>>

(* Nothing is under way any more. *)
Idle == ui.flight = {}
=============================================================================
