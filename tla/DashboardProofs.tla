--------------------------- MODULE DashboardProofs ---------------------------
(***************************************************************************)
(* The two pages, for every number of tenants, messages, apps and keys,    *)
(* every size of a page and every number of clicks.                        *)
(***************************************************************************)
EXTENDS Dashboard, FiniteSetTheorems, WellFoundedInduction, SequenceTheorems, TLAPS



-----------------------------------------------------------------------------
(* What the operators of the script do to a page *)

PanelStates == {"empty", "loading", "success", "error"}
Loading == [state |-> "loading", rows |-> << >>]

(* v shows, asks and remembers what u does. *)
SameVars(u, v) ==
    /\ v.token = u.token /\ v.selected = u.selected /\ v.list = u.list
    /\ v.cursor = u.cursor /\ v.loadMore = u.loadMore /\ v.since = u.since
    /\ v.revocable = u.revocable
Shows(v, u, p, content) ==
    \A q \in Panels : v.panel[q] = IF q = p THEN content ELSE u.panel[q]

LEMMA PanelNames ==
  /\ TenantPanels \subseteq Panels /\ AdminPanels \subseteq Panels
  /\ TenantPanels \ {"auth"} \subseteq Kinds /\ AdminPanels \ {"auth"} \subseteq Kinds
  /\ "revoke" \in Kinds /\ NoRows \in PanelContents /\ Loading \in PanelContents
BY DEF Panels, TenantPanels, AdminPanels, Kinds, NoRows, Loading, PanelContents

LEMMA PanelIs ==
  ASSUME NEW u \in UIStates, NEW p \in Panels
  PROVE  /\ u.panel[p] \in PanelContents
         /\ u.panel[p].state \in PanelStates /\ u.panel[p].rows \in Seq(Things)
         /\ u.panel[p] = [state |-> u.panel[p].state, rows |-> u.panel[p].rows]
BY DEF UIStates, PanelContents, PanelStates

LEMMA WithPanelIs ==
  ASSUME NEW u \in UIStates, NEW p \in Panels, NEW c \in PanelContents
  PROVE  LET v == WithPanel(u, p, c)
         IN  v \in UIStates /\ SameVars(u, v) /\ v.flight = u.flight /\ Shows(v, u, p, c)
<1>1. WithPanel(u, p, c) \in UIStates /\ SameVars(u, WithPanel(u, p, c))
  BY DEF UIStates, WithPanel, SameVars
<1>2. WithPanel(u, p, c).flight = u.flight
  BY DEF UIStates, WithPanel
<1>3. WithPanel(u, p, c).panel = [u.panel EXCEPT ![p] = c]
  BY DEF UIStates, WithPanel
<1>4. u.panel \in [Panels -> PanelContents]
  BY DEF UIStates
<1> QED
  BY <1>1, <1>2, <1>3, <1>4 DEF Shows

LEMMA SetStatusIs ==
  ASSUME NEW u \in UIStates, NEW p \in Panels, NEW s \in PanelStates
  PROVE  LET v == SetStatus(u, p, s)
         IN  /\ v \in UIStates /\ SameVars(u, v) /\ v.flight = u.flight
             /\ Shows(v, u, p, [state |-> s, rows |-> u.panel[p].rows])
<1>1. [state |-> s, rows |-> u.panel[p].rows] \in PanelContents
  BY PanelIs DEF PanelContents, PanelStates
<1> QED
  BY <1>1, WithPanelIs DEF SetStatus

LEMMA ClearRowsIs ==
  ASSUME NEW u \in UIStates, NEW p \in Panels
  PROVE  LET v == ClearRows(u, p)
         IN  /\ v \in UIStates /\ SameVars(u, v) /\ v.flight = u.flight
             /\ Shows(v, u, p, [state |-> u.panel[p].state, rows |-> << >>])
<1>1. [state |-> u.panel[p].state, rows |-> << >>] \in PanelContents
  <2>1. u.panel[p].state \in PanelStates
    BY PanelIs
  <2>2. << >> \in Seq(Things)
    OBVIOUS
  <2>3. QED
    BY <2>1, <2>2 DEF PanelContents, PanelStates
<1> QED
  BY <1>1, WithPanelIs DEF ClearRows

LEMMA ApiIs ==
  ASSUME NEW u \in UIStates, NEW r \in Requests
  PROVE  LET v == Api(u, r)
         IN  /\ v \in UIStates /\ SameVars(u, v) /\ v.flight = u.flight \cup {r}
             /\ v.panel = u.panel
BY DEF UIStates, Api, SameVars

LEMMA ArrivedIs ==
  ASSUME NEW u \in UIStates, NEW r
  PROVE  LET v == Arrived(u, r)
         IN  /\ v \in UIStates /\ SameVars(u, v) /\ v.flight = u.flight \ {r}
             /\ v.panel = u.panel
BY DEF UIStates, Arrived, SameVars

LEMMA LoadIs ==
  ASSUME NEW u \in UIStates, NEW r \in Requests, r.kind \in Panels
  PROVE  LET v == Load(u, r)
         IN  /\ v \in UIStates /\ SameVars(u, v) /\ v.flight = u.flight \cup {r}
             /\ Shows(v, u, r.kind, Loading)
<1> DEFINE a == ClearRows(u, r.kind)
           b == SetStatus(a, r.kind, "loading")
<1>1. /\ a \in UIStates /\ SameVars(u, a) /\ a.flight = u.flight
      /\ Shows(a, u, r.kind, [state |-> u.panel[r.kind].state, rows |-> << >>])
  BY ClearRowsIs
<1>2. /\ b \in UIStates /\ SameVars(a, b) /\ b.flight = a.flight
      /\ Shows(b, a, r.kind, [state |-> "loading", rows |-> a.panel[r.kind].rows])
  <2> HIDE DEF a
  <2>1. QED
    BY <1>1, SetStatusIs DEF PanelStates
<1>3. a.panel[r.kind].rows = << >>
  <2> HIDE DEF a
  <2>1. QED
    BY <1>1 DEF Shows
<1>4. /\ Api(b, r) \in UIStates /\ SameVars(b, Api(b, r))
      /\ Api(b, r).flight = b.flight \cup {r} /\ Api(b, r).panel = b.panel
  <2> HIDE DEF b
  <2>1. QED
    BY <1>2, ApiIs
<1>5. Load(u, r) = Api(b, r)
  BY DEF Load
<1> HIDE DEF a, b
<1>6. Shows(Api(b, r), u, r.kind, Loading)
  BY <1>1, <1>2, <1>3, <1>4 DEF Shows, Loading
<1> QED
  BY <1>1, <1>2, <1>4, <1>5, <1>6 DEF SameVars

LEMMA LoadedIs ==
  ASSUME NEW u \in UIStates, NEW r, r.kind \in Panels, NEW rows \in Seq(Things)
  PROVE  LET v == Loaded(u, r, rows)
         IN  /\ v \in UIStates /\ SameVars(u, v) /\ v.flight = u.flight
             /\ Shows(v, u, r.kind,
                    [state |-> IF rows = << >> THEN "empty" ELSE "success",
                     rows |-> IF r.kind = "usage" THEN rows
                              ELSE u.panel[r.kind].rows \o rows])
<1> DEFINE c == [state |-> IF rows = << >> THEN "empty" ELSE "success",
                 rows |-> IF r.kind = "usage" THEN rows ELSE u.panel[r.kind].rows \o rows]
<1>1. (IF r.kind = "usage" THEN rows ELSE u.panel[r.kind].rows \o rows) \in Seq(Things)
  <2>1. u.panel[r.kind].rows \in Seq(Things)
    BY PanelIs
  <2>2. u.panel[r.kind].rows \o rows \in Seq(Things)
    BY ONLY <2>1, rows \in Seq(Things), ConcatProperties
  <2>3. QED
    BY <2>2
<1>2. c \in PanelContents
  BY <1>1 DEF PanelContents
<1>3. Loaded(u, r, rows) = WithPanel(u, r.kind, c)
  BY DEF Loaded
<1> HIDE DEF c
<1>4. LET v == WithPanel(u, r.kind, c)
      IN  v \in UIStates /\ SameVars(u, v) /\ v.flight = u.flight /\ Shows(v, u, r.kind, c)
  BY <1>2, WithPanelIs
<1> QED
  BY <1>3, <1>4 DEF c

ListOf(u) ==
    [state |-> IF u.list = << >> THEN "empty" ELSE "success", rows |-> u.list]

LEMMA RenderListIs ==
  ASSUME NEW u \in UIStates
  PROVE  LET v == RenderList(u)
         IN  /\ v \in UIStates /\ SameVars(u, v) /\ v.flight = u.flight
             /\ Shows(v, u, "list", ListOf(u))
<1>1. u.list \in Seq(Things)
  BY DEF UIStates
<1>2. ListOf(u) \in PanelContents
  BY <1>1 DEF PanelContents, ListOf
<1>3. RenderList(u) = WithPanel(u, "list", ListOf(u))
  BY DEF RenderList, ListOf
<1>4. "list" \in Panels
  BY PanelNames DEF TenantPanels
<1> QED
  BY <1>2, <1>3, <1>4, WithPanelIs

(* r is a new request of the page u. *)
Asks(r, u, click, kind, of) ==
    /\ r \in Requests /\ r.click = click /\ r.kind = kind /\ r.token = u.token
    /\ r.of = of /\ r.handled = FALSE

AsksThen(r, u, click, kind, of, then) ==
    Asks(r, u, click, kind, of) /\ r.joint = FALSE /\ r.reset = FALSE /\ r.then = then

(* What the script makes of a new request. *)
JointRequest(u, click, kind, of) == [Request(u, click, kind, of) EXCEPT !.joint = TRUE]
ListRequest(u, click, of, reset) ==
    [Request(u, click, "list", of) EXCEPT !.reset = reset, !.joint = reset]
ThenRequest(u, click, kind, of, then) == [Request(u, click, kind, of) EXCEPT !.then = then]

LEMMA RequestIs ==
  ASSUME NEW u \in UIStates, NEW click \in Nat, NEW kind \in Kinds,
         NEW of \in Things \cup {None}
  PROVE  AsksThen(Request(u, click, kind, of), u, click, kind, of, None)
<1>1. u.token \in Tokens
  BY DEF UIStates
<1>2. << >> \in Seq(Things)
  OBVIOUS
<1>3. Request(u, click, kind, of) \in Requests
  BY <1>1, <1>2 DEF Request, Requests
<1> QED
  BY <1>3 DEF Asks, AsksThen, Request

LEMMA JointRequestIs ==
  ASSUME NEW u \in UIStates, NEW click \in Nat, NEW kind \in Kinds,
         NEW of \in Things \cup {None}
  PROVE  LET r == JointRequest(u, click, kind, of)
         IN  /\ Asks(r, u, click, kind, of)
             /\ r.joint = TRUE /\ r.reset = FALSE /\ r.then = None
<1>1. u.token \in Tokens
  BY DEF UIStates
<1>2. << >> \in Seq(Things)
  OBVIOUS
<1>3. JointRequest(u, click, kind, of) \in Requests
  BY <1>1, <1>2 DEF Request, Requests, JointRequest
<1> QED
  BY <1>3 DEF Asks, Request, JointRequest

LEMMA ListRequestIs ==
  ASSUME NEW u \in UIStates, NEW click \in Nat,
         NEW of \in Things \cup {None}, NEW reset \in BOOLEAN
  PROVE  LET r == ListRequest(u, click, of, reset)
         IN  /\ Asks(r, u, click, "list", of)
             /\ r.joint = reset /\ r.reset = reset /\ r.then = None
<1>1. u.token \in Tokens
  BY DEF UIStates
<1>2. << >> \in Seq(Things)
  OBVIOUS
<1>0. "list" \in Kinds
  BY PanelNames DEF TenantPanels
<1>3. ListRequest(u, click, of, reset) \in Requests
  BY <1>0, <1>1, <1>2 DEF Request, Requests, ListRequest
<1> QED
  BY <1>3 DEF Asks, Request, ListRequest

LEMMA ThenRequestIs ==
  ASSUME NEW u \in UIStates, NEW click \in Nat, NEW kind \in Kinds,
         NEW of \in Things \cup {None}, NEW then \in Things \cup {None}
  PROVE  AsksThen(ThenRequest(u, click, kind, of, then), u, click, kind, of, then)
<1>1. u.token \in Tokens
  BY DEF UIStates
<1>2. << >> \in Seq(Things)
  OBVIOUS
<1>3. ThenRequest(u, click, kind, of, then) \in Requests
  BY <1>1, <1>2 DEF Request, Requests, ThenRequest
<1> QED
  BY <1>3 DEF Asks, AsksThen, Request, ThenRequest

-----------------------------------------------------------------------------
(* The script of the tenant page *)

(* A page with some of its variables set. *)
WithLoadMore(u, more) == [u EXCEPT !.loadMore = more]
WithList(u, rows, cur) == [u EXCEPT !.list = rows, !.cursor = cur]
WithListSince(u, rows, cur, s) == [u EXCEPT !.list = rows, !.cursor = cur, !.since = s]
WithToken(u, token, rows, cur) ==
    [u EXCEPT !.token = token, !.list = rows, !.cursor = cur]
WithSelected(u, sel) == [u EXCEPT !.selected = sel]

LEMMA LoadMoreIs ==
  ASSUME NEW u \in UIStates, NEW more \in BOOLEAN
  PROVE  LET v == WithLoadMore(u, more)
         IN  /\ v \in UIStates /\ v.flight = u.flight /\ v.panel = u.panel
             /\ v.token = u.token /\ v.selected = u.selected /\ v.list = u.list
             /\ v.cursor = u.cursor /\ v.loadMore = more /\ v.since = u.since
BY DEF UIStates, WithLoadMore

LEMMA ListIs ==
  ASSUME NEW u \in UIStates, NEW rows \in Seq(Things), NEW cur \in Things \cup {None}
  PROVE  LET v == WithList(u, rows, cur)
         IN  /\ v \in UIStates /\ v.flight = u.flight /\ v.panel = u.panel
             /\ v.token = u.token /\ v.selected = u.selected /\ v.list = rows
             /\ v.cursor = cur /\ v.loadMore = u.loadMore /\ v.since = u.since
BY DEF UIStates, WithList

LEMMA ListSinceIs ==
  ASSUME NEW u \in UIStates, NEW rows \in Seq(Things), NEW cur \in Things \cup {None},
         NEW s \in SUBSET Things
  PROVE  LET v == WithListSince(u, rows, cur, s)
         IN  /\ v \in UIStates /\ v.flight = u.flight /\ v.panel = u.panel
             /\ v.token = u.token /\ v.selected = u.selected /\ v.list = rows
             /\ v.cursor = cur /\ v.loadMore = u.loadMore /\ v.since = s
BY DEF UIStates, WithListSince

LEMMA TokenIs ==
  ASSUME NEW u \in UIStates, NEW token \in Tokens, NEW rows \in Seq(Things),
         NEW cur \in Things \cup {None}
  PROVE  LET v == WithToken(u, token, rows, cur)
         IN  /\ v \in UIStates /\ v.flight = u.flight /\ v.panel = u.panel
             /\ v.token = token /\ v.selected = u.selected /\ v.list = rows
             /\ v.cursor = cur /\ v.loadMore = u.loadMore /\ v.since = u.since
BY DEF UIStates, WithToken

LEMMA SelectedIs ==
  ASSUME NEW u \in UIStates, NEW sel \in Things \cup {None}
  PROVE  LET v == WithSelected(u, sel)
         IN  /\ v \in UIStates /\ v.flight = u.flight /\ v.panel = u.panel
             /\ v.token = u.token /\ v.selected = sel /\ v.list = u.list
             /\ v.cursor = u.cursor /\ v.loadMore = u.loadMore /\ v.since = u.since
BY DEF UIStates, WithSelected

LEMMA RenderMessagesIs ==
  ASSUME NEW u \in UIStates
  PROVE  LET v == RenderMessages(u)
         IN  /\ v \in UIStates /\ v.token = u.token /\ v.selected = u.selected
             /\ v.list = u.list /\ v.cursor = u.cursor /\ v.since = u.since
             /\ v.loadMore = (u.list # << >> /\ u.cursor # None)
             /\ v.flight = u.flight /\ Shows(v, u, "list", ListOf(u))
<1> DEFINE a == RenderList(u)
           more == u.list # << >> /\ u.cursor # None
           v == WithLoadMore(a, more)
<1>1. a \in UIStates /\ SameVars(u, a) /\ a.flight = u.flight /\ Shows(a, u, "list", ListOf(u))
  BY RenderListIs
<1>2. more \in BOOLEAN
  OBVIOUS
<1>3. RenderMessages(u) = v
  BY DEF RenderMessages, WithLoadMore
<1> HIDE DEF a, more
<1>4. /\ v \in UIStates /\ v.token = a.token /\ v.selected = a.selected
      /\ v.list = a.list /\ v.cursor = a.cursor /\ v.loadMore = more
      /\ v.since = a.since /\ v.flight = a.flight /\ v.panel = a.panel
  BY <1>1, <1>2, LoadMoreIs
<1> QED
  BY <1>1, <1>3, <1>4 DEF SameVars, Shows, more

(* v is u when loadMessages has sent its request, and so on. *)
MessagesAsked(u, click, reset, v) ==
    /\ v \in UIStates /\ v.token = u.token /\ v.selected = u.selected
    /\ v.list = (IF reset THEN << >> ELSE u.list)
    /\ v.cursor = (IF reset THEN None ELSE u.cursor)
    /\ v.loadMore = FALSE /\ v.since = u.since
    /\ Shows(v, u, "list",
             [state |-> "loading",
              rows |-> IF reset THEN << >> ELSE u.panel["list"].rows])
    /\ \E r : /\ v.flight = u.flight \cup {r}
              /\ Asks(r, u, click, "list", v.cursor)
              /\ r.joint = reset /\ r.reset = reset /\ r.then = None

LEMMA LoadMessagesIs ==
  ASSUME NEW u \in UIStates, NEW click \in Nat, NEW reset \in BOOLEAN
  PROVE  MessagesAsked(u, click, reset, LoadMessages(u, click, reset))
<1> DEFINE b == WithList(u, << >>, None)
           start == IF reset THEN RenderMessages(b) ELSE u
           c == SetStatus(start, "list", "loading")
           d == WithLoadMore(c, FALSE)
           r == ListRequest(start, click, start.cursor, reset)
<1>0. "list" \in Panels /\ "list" \in Kinds
  BY PanelNames DEF TenantPanels
<1>1. LoadMessages(u, click, reset) = Api(d, r)
  BY DEF LoadMessages, WithList, WithLoadMore, ListRequest
<1>2. /\ b \in UIStates /\ b.flight = u.flight /\ b.panel = u.panel
      /\ b.token = u.token /\ b.selected = u.selected /\ b.list = << >>
      /\ b.cursor = None /\ b.since = u.since
  <2>1. << >> \in Seq(Things) /\ None \in Things \cup {None}
    OBVIOUS
  <2>2. \A rows \in Seq(Things), cur \in Things \cup {None} :
           LET x == WithList(u, rows, cur)
           IN  /\ x \in UIStates /\ x.flight = u.flight /\ x.panel = u.panel
               /\ x.token = u.token /\ x.selected = u.selected /\ x.list = rows
               /\ x.cursor = cur /\ x.since = u.since
    BY ListIs
  <2>3. QED
    BY <2>1, <2>2
<1>3. LET v == RenderMessages(b)
      IN  /\ v \in UIStates /\ v.token = b.token /\ v.selected = b.selected
          /\ v.list = b.list /\ v.cursor = b.cursor /\ v.since = b.since
          /\ v.flight = b.flight /\ Shows(v, b, "list", ListOf(b))
  <2> HIDE DEF b
  <2>1. QED
    BY <1>2, RenderMessagesIs
<1>4. ListOf(b) = [state |-> "empty", rows |-> << >>]
  <2> HIDE DEF b
  <2>1. QED
    BY <1>2 DEF ListOf
<1> HIDE DEF b
<1>5. /\ start \in UIStates /\ start.token = u.token /\ start.selected = u.selected
      /\ start.list = (IF reset THEN << >> ELSE u.list)
      /\ start.cursor = (IF reset THEN None ELSE u.cursor)
      /\ start.since = u.since /\ start.flight = u.flight
      /\ start.panel["list"].rows = (IF reset THEN << >> ELSE u.panel["list"].rows)
      /\ \A q \in Panels \ {"list"} : start.panel[q] = u.panel[q]
  <2>1. CASE reset
    BY <2>1, <1>0, <1>2, <1>3, <1>4 DEF Shows
  <2>2. CASE ~reset
    BY <2>2
  <2> QED
    BY <2>1, <2>2
<1> HIDE DEF start
<1>6. /\ c \in UIStates /\ SameVars(start, c) /\ c.flight = start.flight
      /\ Shows(c, start, "list", [state |-> "loading", rows |-> start.panel["list"].rows])
  BY <1>0, <1>5, SetStatusIs DEF PanelStates
<1> HIDE DEF c
<1>7. /\ d \in UIStates /\ d.flight = c.flight /\ d.panel = c.panel
      /\ d.token = c.token /\ d.selected = c.selected /\ d.list = c.list
      /\ d.cursor = c.cursor /\ d.loadMore = FALSE /\ d.since = c.since
  BY <1>6, LoadMoreIs
<1>8. start.cursor \in Things \cup {None}
  BY <1>5 DEF UIStates
<1>9. /\ Asks(r, start, click, "list", start.cursor) /\ r.joint = reset
      /\ r.reset = reset /\ r.then = None
  <2>1. start \in UIStates
    BY <1>5
  <2> QED
    BY ONLY <1>8, <2>1, click \in Nat, reset \in BOOLEAN, ListRequestIs
<1> HIDE DEF d, r
<1>10. LET v == Api(d, r)
       IN  /\ v \in UIStates /\ SameVars(d, v) /\ v.flight = d.flight \cup {r}
           /\ v.panel = d.panel
  BY <1>7, <1>9, ApiIs DEF Asks
<1>11. Asks(r, u, click, "list", start.cursor)
  BY <1>5, <1>9 DEF Asks
<1>12. start.cursor = Api(d, r).cursor /\ Api(d, r).flight = u.flight \cup {r}
  BY <1>5, <1>6, <1>7, <1>10 DEF SameVars
<1>13. Shows(Api(d, r), u, "list",
             [state |-> "loading", rows |-> IF reset THEN << >> ELSE u.panel["list"].rows])
  BY <1>5, <1>6, <1>7, <1>10 DEF Shows
<1> QED
  BY <1>1, <1>5, <1>6, <1>7, <1>9, <1>10, <1>11, <1>12, <1>13 DEF SameVars, MessagesAsked

(* The requests that a click on the tenant page sends: of different kinds, *)
(* about what is selected then.                                            *)
TenantAsked(N, v, click) ==
    /\ \A r \in N :
          /\ r \in Requests /\ r.click = click /\ r.token = v.token /\ r.handled = FALSE
          /\ r.then = None /\ r.kind \in TenantPanels \ {"auth"}
          /\ r.kind \in {"usage", "endpoints"} => r.of = v.token /\ v.token # None
          /\ r.kind \in {"deliveries", "attempts"} => r.of = v.selected /\ v.selected # None
          /\ r.kind = "list" => r.of = v.cursor
          /\ r.kind = "list" /\ r.reset => v.list = << >> /\ v.cursor = None
    /\ \A q, r \in N : q.kind = r.kind => q = r

(* The panels that loadTenant clears, and its requests. *)
LoadedTogether(u) ==
    {"usage", "endpoints", "list"} \cup
    (IF u.selected = None THEN {} ELSE {"deliveries", "attempts"})

TenantIsLoading(u, click, v) ==
    /\ v \in UIStates /\ v.token = u.token /\ v.selected = u.selected
    /\ v.list = << >> /\ v.cursor = None /\ v.loadMore = FALSE
    /\ v.since = u.since
    /\ \A q \in Panels :
          v.panel[q] = IF q \in LoadedTogether(u) THEN Loading
                       ELSE IF q = "auth"
                       THEN [state |-> "loading", rows |-> u.panel["auth"].rows]
                       ELSE u.panel[q]
    /\ \E N : /\ v.flight = u.flight \cup N
              /\ TenantAsked(N, v, click)
              /\ \A r \in N : r.joint /\ (r.kind = "list" => r.reset)
              /\ \A k \in LoadedTogether(u) : \E r \in N : r.kind = k

LEMMA LoadTenantIs ==
  ASSUME NEW u \in UIStates, NEW click \in Nat, u.token \in Keys, u.token # None
  PROVE  TenantIsLoading(u, click, LoadTenant(u, click))
<1> DEFINE a == SetStatus(u, "auth", "loading")
           r1 == JointRequest(u, click, "usage", u.token)
           b == Load(a, r1)
           r2 == JointRequest(u, click, "endpoints", u.token)
           c == Load(b, r2)
           d == LoadMessages(c, click, TRUE)
           r4 == JointRequest(u, click, "deliveries", u.selected)
           e == Load(d, r4)
           r5 == JointRequest(u, click, "attempts", u.selected)
           f == Load(e, r5)
<1>0. /\ {"auth", "usage", "endpoints", "list", "deliveries", "attempts"} \subseteq Panels
      /\ {"usage", "endpoints", "list", "deliveries", "attempts"} \subseteq Kinds
  BY PanelNames DEF TenantPanels
<1>1. LoadTenant(u, click) = IF u.selected = None THEN d ELSE f
  BY DEF LoadTenant, JointRequest
<1>2. /\ a \in UIStates /\ SameVars(u, a) /\ a.flight = u.flight
      /\ Shows(a, u, "auth", [state |-> "loading", rows |-> u.panel["auth"].rows])
  BY <1>0, SetStatusIs DEF PanelStates
<1>k. u.token \in Things \cup {None}
  BY DEF Things
<1>3. Asks(r1, u, click, "usage", u.token) /\ r1.joint = TRUE /\ r1.then = None
  BY <1>0, <1>k, JointRequestIs
<1>4. Asks(r2, u, click, "endpoints", u.token) /\ r2.joint = TRUE /\ r2.then = None
  BY <1>0, <1>k, JointRequestIs
<1>5. u.selected \in Things \cup {None}
  BY DEF UIStates
<1>6. Asks(r4, u, click, "deliveries", u.selected) /\ r4.joint = TRUE /\ r4.then = None
  BY <1>0, <1>5, JointRequestIs
<1>7. Asks(r5, u, click, "attempts", u.selected) /\ r5.joint = TRUE /\ r5.then = None
  BY <1>0, <1>5, JointRequestIs
<1> HIDE DEF a, r1, r2, r4, r5
<1>8. b \in UIStates /\ SameVars(a, b) /\ b.flight = a.flight \cup {r1} /\ Shows(b, a, "usage", Loading)
  BY <1>0, <1>2, <1>3, LoadIs DEF Asks
<1> HIDE DEF b
<1>9. /\ c \in UIStates /\ SameVars(b, c) /\ c.flight = b.flight \cup {r2}
      /\ Shows(c, b, "endpoints", Loading)
  BY <1>0, <1>8, <1>4, LoadIs DEF Asks
<1> HIDE DEF c
<1>10. /\ d \in UIStates /\ d.token = c.token /\ d.selected = c.selected
       /\ d.list = << >> /\ d.cursor = None /\ d.loadMore = FALSE /\ d.since = c.since
       /\ Shows(d, c, "list", Loading)
       /\ \E r : /\ d.flight = c.flight \cup {r}
                 /\ Asks(r, c, click, "list", d.cursor)
                 /\ r.joint = TRUE /\ r.reset = TRUE /\ r.then = None
  <2>1. MessagesAsked(c, click, TRUE, d)
    BY <1>9, LoadMessagesIs
  <2> HIDE DEF d
  <2> QED
    BY <2>1 DEF Loading, MessagesAsked
<1> HIDE DEF d
<1>11. PICK r3 : /\ d.flight = c.flight \cup {r3}
                 /\ Asks(r3, c, click, "list", d.cursor)
                 /\ r3.joint = TRUE /\ r3.reset = TRUE /\ r3.then = None
  BY <1>10
<1>12. d.token = u.token /\ d.selected = u.selected /\ d.since = u.since
       /\ c.token = u.token
  BY <1>2, <1>8, <1>9, <1>10 DEF SameVars
<1>13. d.flight = u.flight \cup {r1, r2, r3}
  BY <1>2, <1>8, <1>9, <1>11
<1>14. \A q \in Panels :
          d.panel[q] = IF q \in {"usage", "endpoints", "list"} THEN Loading
                       ELSE IF q = "auth"
                       THEN [state |-> "loading", rows |-> u.panel["auth"].rows]
                       ELSE u.panel[q]
  BY <1>2, <1>8, <1>9, <1>10 DEF Shows
<1>15. CASE u.selected = None
  <2>1. TenantAsked({r1, r2, r3}, d, click)
    BY <1>3, <1>4, <1>11, <1>12, <1>10 DEF TenantAsked, Asks, TenantPanels
  <2>2. \A k \in LoadedTogether(u) : \E r \in {r1, r2, r3} : r.kind = k
    BY <1>15, <1>3, <1>4, <1>11 DEF Asks, LoadedTogether
  <2>3. \A r \in {r1, r2, r3} : r.joint /\ (r.kind = "list" => r.reset)
    BY <1>3, <1>4, <1>11 DEF Asks
  <2>4. LoadedTogether(u) = {"usage", "endpoints", "list"}
    BY <1>15 DEF LoadedTogether
  <2>5. LoadTenant(u, click) = d
    BY <1>1, <1>15
  <2>6. TenantIsLoading(u, click, d)
    BY <2>1, <2>2, <2>3, <2>4, <1>10, <1>12, <1>13, <1>14 DEF TenantIsLoading
  <2> QED
    BY <2>5, <2>6
<1>16. CASE u.selected # None
  <2>1. e \in UIStates /\ SameVars(d, e) /\ e.flight = d.flight \cup {r4} /\ Shows(e, d, "deliveries", Loading)
    BY <1>0, <1>10, <1>6, LoadIs DEF Asks
  <2> HIDE DEF e
  <2>2. f \in UIStates /\ SameVars(e, f) /\ f.flight = e.flight \cup {r5} /\ Shows(f, e, "attempts", Loading)
    BY <1>0, <2>1, <1>7, LoadIs DEF Asks
  <2> HIDE DEF f
  <2>3. /\ f.token = u.token /\ f.selected = u.selected /\ f.list = << >>
        /\ f.cursor = None /\ f.loadMore = FALSE /\ f.since = u.since
    BY <2>1, <2>2, <1>10, <1>12 DEF SameVars
  <2>4. f.flight = u.flight \cup {r1, r2, r3, r4, r5}
    BY <2>1, <2>2, <1>13
  <2>5. TenantAsked({r1, r2, r3, r4, r5}, f, click)
    <3>1. TenantAsked({r1, r2}, f, click)
      BY <1>3, <1>4, <2>3 DEF TenantAsked, Asks, TenantPanels
    <3>2. TenantAsked({r3}, f, click)
      BY <1>10, <1>11, <1>12, <2>3 DEF TenantAsked, Asks, TenantPanels
    <3>3. TenantAsked({r4, r5}, f, click)
      BY <1>6, <1>7, <1>16, <2>3 DEF TenantAsked, Asks, TenantPanels
    <3>4. \A q, r \in {r1, r2, r3, r4, r5} : q.kind = r.kind => q = r
      BY <1>3, <1>4, <1>6, <1>7, <1>11 DEF Asks
    <3> QED
      BY <3>1, <3>2, <3>3, <3>4 DEF TenantAsked
  <2>6. \A k \in LoadedTogether(u) : \E r \in {r1, r2, r3, r4, r5} : r.kind = k
    BY <1>3, <1>4, <1>6, <1>7, <1>11 DEF Asks, LoadedTogether
  <2>7. \A r \in {r1, r2, r3, r4, r5} : r.joint /\ (r.kind = "list" => r.reset)
    BY <1>3, <1>4, <1>6, <1>7, <1>11 DEF Asks
  <2>8. LoadedTogether(u) = {"usage", "endpoints", "list", "deliveries", "attempts"}
    BY <1>16 DEF LoadedTogether
  <2>9. LoadTenant(u, click) = f
    BY <1>1, <1>16
  <2>10. \A q \in Panels :
            f.panel[q] = IF q \in LoadedTogether(u) THEN Loading
                         ELSE IF q = "auth"
                         THEN [state |-> "loading", rows |-> u.panel["auth"].rows]
                         ELSE u.panel[q]
    BY <2>1, <2>2, <2>8, <1>14 DEF Shows
  <2>11. TenantIsLoading(u, click, f)
    BY <2>2, <2>3, <2>4, <2>5, <2>6, <2>7, <2>10 DEF TenantIsLoading
  <2> QED
    BY <2>9, <2>11
<1> QED
  BY <1>15, <1>16

MessageIsSelected(u, click, m, v) ==
    /\ v \in UIStates /\ v.token = u.token /\ v.selected = m
    /\ v.list = u.list /\ v.cursor = u.cursor /\ v.since = u.since
    /\ v.loadMore = (u.list # << >> /\ u.cursor # None)
    /\ \A q \in Panels :
          v.panel[q] = IF q \in {"deliveries", "attempts"} THEN Loading
                       ELSE IF q = "list" THEN ListOf(u) ELSE u.panel[q]
    /\ \E N : /\ v.flight = u.flight \cup N
              /\ TenantAsked(N, v, click)
              /\ \A r \in N : ~r.joint /\ r.kind # "list"
              /\ \A k \in {"deliveries", "attempts"} : \E r \in N : r.kind = k

LEMMA SelectMessageIs ==
  ASSUME NEW u \in UIStates, NEW click \in Nat, NEW m \in Things, m # None
  PROVE  MessageIsSelected(u, click, m, SelectMessage(u, click, m))
<1> DEFINE a == WithSelected(u, m)
           b == RenderMessages(a)
           r1 == Request(u, click, "deliveries", m)
           c == Load(b, r1)
           r2 == Request(u, click, "attempts", m)
           d == Load(c, r2)
<1>0. /\ {"list", "deliveries", "attempts"} \subseteq Panels
      /\ {"deliveries", "attempts"} \subseteq Kinds
  BY PanelNames DEF TenantPanels
<1>1. SelectMessage(u, click, m) = d
  BY DEF SelectMessage, WithSelected
<1>2. /\ a \in UIStates /\ a.flight = u.flight /\ a.panel = u.panel
      /\ a.token = u.token /\ a.selected = m /\ a.list = u.list
      /\ a.cursor = u.cursor /\ a.since = u.since
  BY SelectedIs
<1>3. Asks(r1, u, click, "deliveries", m) /\ r1.joint = FALSE /\ r1.then = None
  BY <1>0, RequestIs DEF AsksThen
<1>4. Asks(r2, u, click, "attempts", m) /\ r2.joint = FALSE /\ r2.then = None
  BY <1>0, RequestIs DEF AsksThen
<1> HIDE DEF a, r1, r2
<1>5. /\ b \in UIStates /\ b.token = a.token /\ b.selected = a.selected
      /\ b.list = a.list /\ b.cursor = a.cursor /\ b.since = a.since
      /\ b.loadMore = (a.list # << >> /\ a.cursor # None)
      /\ b.flight = a.flight /\ Shows(b, a, "list", ListOf(a))
  BY <1>2, RenderMessagesIs
<1>6. ListOf(a) = ListOf(u)
  BY <1>2 DEF ListOf
<1> HIDE DEF b
<1>7. /\ c \in UIStates /\ SameVars(b, c) /\ c.flight = b.flight \cup {r1}
      /\ Shows(c, b, "deliveries", Loading)
  BY <1>0, <1>5, <1>3, LoadIs DEF Asks
<1> HIDE DEF c
<1>8. /\ d \in UIStates /\ SameVars(c, d) /\ d.flight = c.flight \cup {r2}
      /\ Shows(d, c, "attempts", Loading)
  BY <1>0, <1>7, <1>4, LoadIs DEF Asks
<1> HIDE DEF d
<1>9. /\ d.token = u.token /\ d.selected = m /\ d.list = u.list
      /\ d.cursor = u.cursor /\ d.since = u.since
      /\ d.loadMore = (u.list # << >> /\ u.cursor # None)
      /\ d.flight = u.flight \cup {r1, r2}
  BY <1>2, <1>5, <1>7, <1>8 DEF SameVars
<1>10. \A q \in Panels :
          d.panel[q] = IF q \in {"deliveries", "attempts"} THEN Loading
                       ELSE IF q = "list" THEN ListOf(u) ELSE u.panel[q]
  BY <1>0, <1>2, <1>5, <1>6, <1>7, <1>8 DEF Shows
<1>11. TenantAsked({r1, r2}, d, click)
  BY <1>3, <1>4, <1>9 DEF TenantAsked, Asks, TenantPanels
<1>12. \A r \in {r1, r2} : ~r.joint /\ r.kind # "list"
  BY <1>3, <1>4 DEF Asks
<1>13. \A k \in {"deliveries", "attempts"} : \E r \in {r1, r2} : r.kind = k
  BY <1>3, <1>4 DEF Asks
<1> QED
  BY <1>1, <1>8, <1>9, <1>10, <1>11, <1>12, <1>13 DEF MessageIsSelected

LEMMA ClearSelectedMessageIs ==
  ASSUME NEW u \in UIStates
  PROVE  LET v == ClearSelectedMessage(u)
         IN  /\ v \in UIStates /\ v.token = u.token /\ v.selected = None
             /\ v.list = u.list /\ v.cursor = u.cursor /\ v.since = u.since
             /\ v.loadMore = u.loadMore /\ v.flight = u.flight
             /\ \A q \in Panels :
                   v.panel[q] = IF q \in {"deliveries", "attempts"} THEN NoRows ELSE u.panel[q]
<1> DEFINE a == WithSelected(u, None)
           b == WithPanel(a, "deliveries", NoRows)
           c == WithPanel(b, "attempts", NoRows)
<1>0. {"deliveries", "attempts"} \subseteq Panels /\ NoRows \in PanelContents
  BY PanelNames DEF TenantPanels
<1>1. ClearSelectedMessage(u) = c
  BY DEF ClearSelectedMessage, WithSelected
<1>2. /\ a \in UIStates /\ a.flight = u.flight /\ a.panel = u.panel
      /\ a.token = u.token /\ a.selected = None /\ a.list = u.list
      /\ a.cursor = u.cursor /\ a.since = u.since /\ a.loadMore = u.loadMore
  BY SelectedIs
<1> HIDE DEF a
<1>3. /\ b \in UIStates /\ SameVars(a, b) /\ b.flight = a.flight
      /\ Shows(b, a, "deliveries", NoRows)
  BY <1>0, <1>2, WithPanelIs
<1> HIDE DEF b
<1>4. c \in UIStates /\ SameVars(b, c) /\ c.flight = b.flight /\ Shows(c, b, "attempts", NoRows)
  BY <1>0, <1>3, WithPanelIs
<1> HIDE DEF c
<1>5. \A q \in Panels :
         c.panel[q] = IF q \in {"deliveries", "attempts"} THEN NoRows ELSE u.panel[q]
  BY <1>0, <1>2, <1>3, <1>4 DEF Shows
<1> QED
  BY <1>1, <1>2, <1>3, <1>4, <1>5 DEF SameVars

LEMMA MessagesLoadedIs ==
  ASSUME NEW u \in UIStates, NEW r \in Requests
  PROVE  LET v == MessagesLoaded(u, r)
         IN  /\ v \in UIStates /\ v.token = u.token /\ v.selected = u.selected
             /\ v.list = (IF r.reset THEN r.rows ELSE u.list \o r.rows)
             /\ v.cursor = r.more
             /\ v.since = (IF r.reset THEN r.asOf ELSE u.since)
             /\ v.loadMore = (v.list # << >> /\ v.cursor # None)
             /\ v.flight = u.flight /\ Shows(v, u, "list", ListOf(v))
<1> DEFINE rows == IF r.reset THEN r.rows ELSE u.list \o r.rows
           s == IF r.reset THEN r.asOf ELSE u.since
           a == WithListSince(u, rows, r.more, s)
           b == RenderMessages(a)
<1>1. MessagesLoaded(u, r) = b
  BY DEF MessagesLoaded, WithListSince
<1>2. r.rows \in Seq(Things) /\ r.more \in Things \cup {None} /\ r.asOf \in SUBSET Things
  BY DEF Requests
<1>3. u.list \in Seq(Things) /\ u.since \in SUBSET Things
  BY DEF UIStates
<1>4. u.list \o r.rows \in Seq(Things)
  BY ONLY <1>2, <1>3, ConcatProperties
<1>5. rows \in Seq(Things) /\ s \in SUBSET Things
  BY <1>2, <1>3, <1>4
<1> HIDE DEF rows, s
<1>6. /\ a \in UIStates /\ a.flight = u.flight /\ a.panel = u.panel
      /\ a.token = u.token /\ a.selected = u.selected /\ a.list = rows
      /\ a.cursor = r.more /\ a.since = s
  BY <1>2, <1>5, ListSinceIs
<1> HIDE DEF a
<1>7. /\ b \in UIStates /\ b.token = a.token /\ b.selected = a.selected
      /\ b.list = a.list /\ b.cursor = a.cursor /\ b.since = a.since
      /\ b.loadMore = (a.list # << >> /\ a.cursor # None)
      /\ b.flight = a.flight /\ Shows(b, a, "list", ListOf(a))
  BY <1>6, RenderMessagesIs
<1>8. ListOf(a) = ListOf(b)
  BY <1>7 DEF ListOf
<1> HIDE DEF b
<1>9. Shows(b, u, "list", ListOf(b))
  BY <1>6, <1>7, <1>8 DEF Shows
<1> QED
  BY <1>1, <1>6, <1>7, <1>9 DEF rows, s

LEMMA ResolvedIs ==
  ASSUME NEW u \in UIStates, NEW r
  PROVE  LET v == Resolved(u, r)
         IN  /\ v \in UIStates /\ SameVars(u, v) /\ v.flight = u.flight
             /\ \A q \in Panels \ {"auth"} : v.panel[q] = u.panel[q]
             /\ v.panel["auth"] = u.panel["auth"] \/ v.panel["auth"].state = "success"
             /\ r.joint => v.panel["auth"].state = "success" \/ Partners(u, r) # {}
<1>1. "auth" \in Panels
  BY PanelNames DEF TenantPanels
<1>2. LET v == SetStatus(u, "auth", "success")
      IN  /\ v \in UIStates /\ SameVars(u, v) /\ v.flight = u.flight
          /\ Shows(v, u, "auth", [state |-> "success", rows |-> u.panel["auth"].rows])
  BY <1>1, SetStatusIs DEF PanelStates
<1> QED
  BY <1>1, <1>2 DEF Resolved, Shows, SameVars

(* Two requests that differ in whether a Promise.all waits for them. *)
SameRequest(p, q) ==
    /\ q.click = p.click /\ q.kind = p.kind /\ q.token = p.token /\ q.of = p.of
    /\ q.reset = p.reset /\ q.then = p.then /\ q.handled = p.handled
    /\ q.rows = p.rows /\ q.more = p.more /\ q.asOf = p.asOf
Unjoined(u, r, q) == IF q \in Partners(u, r) THEN [q EXCEPT !.joint = FALSE] ELSE q
WithFlight(u, F) == [u EXCEPT !.flight = F]

LEMMA UnjoinedIs ==
  ASSUME NEW u \in UIStates, NEW r, NEW q \in u.flight
  PROVE  /\ Unjoined(u, r, q) \in Requests /\ SameRequest(q, Unjoined(u, r, q))
         /\ q \in Partners(u, r) => Unjoined(u, r, q).joint = FALSE
         /\ q \notin Partners(u, r) => Unjoined(u, r, q) = q
<1>1. q \in Requests
  BY DEF UIStates
<1>2. [q EXCEPT !.joint = FALSE] \in Requests
  BY <1>1 DEF Requests
<1>3. SameRequest(q, [q EXCEPT !.joint = FALSE]) /\ [q EXCEPT !.joint = FALSE].joint = FALSE
  BY <1>1 DEF Requests, SameRequest
<1> QED
  BY <1>1, <1>2, <1>3 DEF Unjoined, SameRequest

(* v is u when the Promise.all that waits for r, if any, is rejected. *)
RejectedTo(u, r, v) ==
    /\ v \in UIStates /\ SameVars(u, v)
    /\ \A q \in Panels \ {"auth"} : v.panel[q] = u.panel[q]
    /\ r.joint =>
          /\ v.panel["auth"].state = "error"
          /\ \A q \in u.flight : Unjoined(u, r, q) \in v.flight
          /\ \A w \in v.flight : \E q \in u.flight : w = Unjoined(u, r, q)
          /\ \A q \in u.flight : SameRequest(q, Unjoined(u, r, q))
    /\ ~r.joint => v.panel["auth"] = u.panel["auth"] /\ v.flight = u.flight

LEMMA RejectedIs ==
  ASSUME NEW u \in UIStates, NEW r, r.joint \in BOOLEAN
  PROVE  RejectedTo(u, r, Rejected(u, r))
<1> DEFINE a == SetStatus(u, "auth", "error")
           F == {Unjoined(u, r, q) : q \in u.flight}
           b == WithFlight(a, F)
<1>1. "auth" \in Panels
  BY PanelNames DEF TenantPanels
<1>2. /\ a \in UIStates /\ SameVars(u, a) /\ a.flight = u.flight
      /\ Shows(a, u, "auth", [state |-> "error", rows |-> u.panel["auth"].rows])
  BY <1>1, SetStatusIs DEF PanelStates
<1>3. Rejected(u, r) = IF r.joint THEN b ELSE u
  <2>1. a.flight = u.flight
    BY <1>2
  <2>2. {IF q \in Partners(u, r) THEN [q EXCEPT !.joint = FALSE] ELSE q : q \in u.flight} = F
    BY DEF Unjoined
  <2> QED
    BY <2>2 DEF Rejected, WithFlight
<1>4. F \subseteq Requests
  BY UnjoinedIs
<1> HIDE DEF a, F
<1>5. b \in UIStates /\ SameVars(a, b) /\ b.flight = F /\ b.panel = a.panel
  BY <1>2, <1>4 DEF UIStates, WithFlight, SameVars
<1> HIDE DEF b
<1>6. CASE r.joint
  <2>1. /\ b.panel["auth"].state = "error" /\ SameVars(u, b) /\ b \in UIStates
        /\ \A q \in Panels \ {"auth"} : b.panel[q] = u.panel[q]
    BY <1>1, <1>2, <1>5 DEF SameVars, Shows
  <2>2. /\ \A q \in u.flight : Unjoined(u, r, q) \in b.flight
        /\ \A w \in b.flight : \E q \in u.flight : w = Unjoined(u, r, q)
    BY <1>5 DEF F
  <2>3. \A q \in u.flight : SameRequest(q, Unjoined(u, r, q))
    BY UnjoinedIs
  <2> QED
    BY <1>3, <1>6, <2>1, <2>2, <2>3 DEF RejectedTo
<1>7. CASE ~r.joint
  BY <1>3, <1>7 DEF SameVars, RejectedTo
<1> QED
  BY <1>6, <1>7

-----------------------------------------------------------------------------
(* Listings *)

Earlier(S, before, x) == {y \in S : <<y, x>> \in before}

(* OrderBy enumerates a finite set, each of its members once, in the order *)
(* it is given, if that is a strict total order.                           *)
LEMMA OrderByEnumerates ==
  ASSUME NEW S, IsFiniteSet(S), NEW B,
         \A x \in S : <<x, x>> \notin B,
         \A x, y, z \in S : <<x, y>> \in B /\ <<y, z>> \in B => <<x, z>> \in B,
         \A x, y \in S : x # y => <<x, y>> \in B \/ <<y, x>> \in B
  PROVE  LET s == OrderBy(S, B)
         IN  /\ s \in Seq(S) /\ Len(s) = Cardinality(S)
             /\ \A x \in S : \E i \in DOMAIN s : s[i] = x
             /\ \A i, j \in DOMAIN s : i < j => <<s[i], s[j]>> \in B
<1> DEFINE n == Cardinality(S)
           E(x) == Earlier(S, B, x)
           rank == [x \in S |-> Cardinality(E(x)) + 1]
<1>1. n \in Nat
  BY FS_CardinalityType
<1>2. \A x \in S : IsFiniteSet(E(x)) /\ Cardinality(E(x)) \in Nat
  <2>1. \A x \in S : E(x) \subseteq S
    BY DEF Earlier
  <2> HIDE DEF E
  <2>2. QED
    BY <2>1, FS_Subset, FS_CardinalityType
<1>3. \A x, y \in S : <<x, y>> \in B => Cardinality(E(x)) < Cardinality(E(y))
  <2> SUFFICES ASSUME NEW x \in S, NEW y \in S, <<x, y>> \in B
               PROVE  Cardinality(E(x)) < Cardinality(E(y))
    OBVIOUS
  <2>1. E(x) \cup {x} \subseteq E(y) /\ x \notin E(x)
    BY DEF Earlier
  <2> HIDE DEF E
  <2>2. IsFiniteSet(E(x) \cup {x}) /\ Cardinality(E(x) \cup {x}) = Cardinality(E(x)) + 1
    BY <1>2, <2>1, FS_AddElement
  <2>3. Cardinality(E(x) \cup {x}) <= Cardinality(E(y))
    BY <1>2, <2>1, FS_Subset
  <2> QED
    BY <1>2, <2>2, <2>3
<1>4. \A x \in S : Cardinality(E(x)) + 1 \in 1 .. n
  <2> SUFFICES ASSUME NEW x \in S PROVE Cardinality(E(x)) + 1 \in 1 .. n
    OBVIOUS
  <2>1. E(x) \cup {x} \subseteq S /\ x \notin E(x)
    BY DEF Earlier
  <2> HIDE DEF E
  <2>2. Cardinality(E(x) \cup {x}) = Cardinality(E(x)) + 1
    BY <1>2, <2>1, FS_AddElement
  <2>3. Cardinality(E(x) \cup {x}) <= n
    BY <2>1, FS_Subset
  <2> QED
    BY <1>1, <1>2, <2>2, <2>3
<1> HIDE DEF E
<1>e. \A x, y \in S : Cardinality(E(x)) = Cardinality(E(y)) => x = y
  <2> SUFFICES ASSUME NEW x \in S, NEW y \in S, x # y
               PROVE  Cardinality(E(x)) # Cardinality(E(y))
    OBVIOUS
  <2>1. CASE <<x, y>> \in B
    BY <1>2, <1>3, <2>1
  <2>2. CASE <<y, x>> \in B
    BY <1>2, <1>3, <2>2
  <2> QED
    BY <2>1, <2>2
<1>5. rank \in Injection(S, 1 .. n)
  <2>1. rank \in [S -> 1 .. n]
    BY <1>4
  <2>2. \A x, y \in S : rank[x] = rank[y] => x = y
    BY <1>2, <1>e
  <2> QED
    BY <2>1, <2>2 DEF Injection, IsInjective
<1>6. rank \in Surjection(S, 1 .. n)
  <2>1. IsFiniteSet(1 .. n) /\ Cardinality(1 .. n) = n
    BY <1>1, FS_Interval
  <2> HIDE DEF rank
  <2>2. Cardinality(S) = Cardinality(1 .. n)
    BY <2>1
  <2> QED
    BY <1>5, <2>1, <2>2, FS_Injection
<1>7. \A i \in 1 .. n : \E x \in S : Cardinality(E(x)) = i - 1
  <2> SUFFICES ASSUME NEW i \in 1 .. n PROVE \E x \in S : Cardinality(E(x)) = i - 1
    OBVIOUS
  <2>1. PICK x \in S : rank[x] = i
    BY <1>6 DEF Surjection
  <2> QED
    BY <1>2, <2>1
<1> DEFINE s == [i \in 1 .. n |-> CHOOSE x \in S : Cardinality(E(x)) = i - 1]
<1>8. OrderBy(S, B) = s
  BY DEF OrderBy, E, Earlier
<1>9. \A i \in 1 .. n : s[i] \in S /\ Cardinality(E(s[i])) = i - 1
  BY <1>7
<1>10. s \in Seq(S) /\ Len(s) = n /\ DOMAIN s = 1 .. n
  BY <1>1, <1>9
<1> HIDE DEF s
<1>11. \A x \in S : \E i \in 1 .. n : s[i] = x
  <2> SUFFICES ASSUME NEW x \in S PROVE \E i \in 1 .. n : s[i] = x
    OBVIOUS
  <2>1. Cardinality(E(x)) + 1 \in 1 .. n
    BY <1>4
  <2>2. /\ s[Cardinality(E(x)) + 1] \in S
        /\ Cardinality(E(s[Cardinality(E(x)) + 1])) = Cardinality(E(x))
    BY <1>2, <1>9, <2>1
  <2>3. s[Cardinality(E(x)) + 1] = x
    BY <1>e, <2>2
  <2> QED
    BY <2>1, <2>3
<1>12. \A i, j \in 1 .. n : i < j => <<s[i], s[j]>> \in B
  <2> SUFFICES ASSUME NEW i \in 1 .. n, NEW j \in 1 .. n, i < j
               PROVE  <<s[i], s[j]>> \in B
    OBVIOUS
  <2>1. s[i] \in S /\ s[j] \in S /\ Cardinality(E(s[i])) < Cardinality(E(s[j]))
    BY <1>9
  <2>2. s[i] # s[j] /\ ~(<<s[j], s[i]>> \in B)
    BY <1>2, <1>3, <2>1
  <2> QED
    BY <2>1, <2>2
<1> QED
  BY <1>8, <1>10, <1>11, <1>12

LEMMA NewerIsTotal ==
  /\ \A m \in Messages : ~Newer(m, m)
  /\ \A l, m, n \in Messages : Newer(l, m) /\ Newer(m, n) => Newer(l, n)
  /\ \A m, n \in Messages : m # n => Newer(m, n) \/ Newer(n, m)
<1>1. \A m \in Messages : m \in Nat /\ CreatedAt[m] \in Nat
  BY TenantAssumption
<1> QED
  BY <1>1 DEF Newer

Matching(key, cursor) == {m \in accepted : TenantOf[m] = key /\ IsAfter(m, cursor)}

(* What the server answers with is a part of the history in its order, and *)
(* skips nothing between the cursor and its last message.                  *)
LEMMA ListMessagesIs ==
  ASSUME IsFiniteSet(accepted), accepted \subseteq Messages, NEW key, NEW cursor
  PROVE  LET l == ListMessages(key, cursor)
         IN  /\ l.data \in Seq(Messages) /\ l.nextCursor \in Messages \cup {None}
             /\ \A i \in DOMAIN l.data : l.data[i] \in Matching(key, cursor)
             /\ \A i, j \in DOMAIN l.data : i < j => Newer(l.data[i], l.data[j])
             /\ l.nextCursor # None =>
                   l.data # << >> /\ l.nextCursor = l.data[Len(l.data)]
             /\ \A m \in Matching(key, cursor) :
                   l.nextCursor = None \/ ~Newer(l.nextCursor, m) =>
                       \E i \in DOMAIN l.data : l.data[i] = m
<1> DEFINE S == Matching(key, cursor)
           s == OrderBy(S, NewestFirst)
           l == ListMessages(key, cursor)
<1>1. S \subseteq accepted
  BY DEF Matching
<1>2. IsFiniteSet(S) /\ S \subseteq Messages
  BY <1>1, FS_Subset
<1>3. \A m, n \in Messages : <<m, n>> \in NewestFirst <=> Newer(m, n)
  BY DEF NewestFirst
<1>4. l = Page(s, PageSize, None)
  BY DEF ListMessages, Matching
<1> HIDE DEF S
<1>5. /\ s \in Seq(S) /\ Len(s) = Cardinality(S)
      /\ \A x \in S : \E i \in DOMAIN s : s[i] = x
      /\ \A i, j \in DOMAIN s : i < j => <<s[i], s[j]>> \in NewestFirst
  <2>1. /\ \A x \in S : <<x, x>> \notin NewestFirst
        /\ \A x, y \in S : x # y => <<x, y>> \in NewestFirst \/ <<y, x>> \in NewestFirst
    BY <1>2, <1>3, NewerIsTotal
  <2>2. \A x, y, z \in S : <<x, y>> \in NewestFirst /\ <<y, z>> \in NewestFirst
                              => <<x, z>> \in NewestFirst
    BY <1>2, <1>3, NewerIsTotal
  <2> QED
    BY <1>2, <2>1, <2>2, OrderByEnumerates
<1> HIDE DEF s, l
<1>6. \A i \in DOMAIN s : s[i] \in S /\ s[i] \in Messages
  BY <1>2, <1>5
<1>7. \A i, j \in DOMAIN s : i < j => Newer(s[i], s[j])
  BY <1>3, <1>5, <1>6
<1>8. PageSize \in Nat /\ PageSize >= 1 /\ Len(s) \in Nat /\ DOMAIN s = 1 .. Len(s)
  BY <1>5, TenantAssumption
<1>9. CASE Len(s) > PageSize
  <2> DEFINE d == SubSeq(s, 1, PageSize)
  <2>1. l.data = d /\ l.nextCursor = s[PageSize]
    BY <1>4, <1>9 DEF Page
  <2>2. /\ Len(d) = PageSize /\ DOMAIN d = 1 .. PageSize
        /\ \A i \in 1 .. PageSize : d[i] = s[i]
    BY <1>5, <1>8, <1>9
  <2>3. \A i \in 1 .. PageSize : i \in DOMAIN s
    BY <1>8, <1>9
  <2> HIDE DEF d
  <2>4. d \in Seq(Messages)
    BY <1>5, <1>6, <1>8, <1>9, <2>2, <2>3, SubSeqProperties DEF d
  <2>5. \A m \in S : ~Newer(s[PageSize], m) => \E i \in 1 .. PageSize : d[i] = m
    <3> SUFFICES ASSUME NEW m \in S, ~Newer(s[PageSize], m)
                 PROVE  \E i \in 1 .. PageSize : d[i] = m
      OBVIOUS
    <3>1. PICK i \in DOMAIN s : s[i] = m
      BY <1>5
    <3>2. i <= PageSize
      BY <1>7, <1>8, <2>3, <3>1
    <3> QED
      BY <1>8, <2>2, <3>1, <3>2
  <2>6. /\ \A i \in DOMAIN d : d[i] \in S
        /\ \A i, j \in DOMAIN d : i < j => Newer(d[i], d[j])
    BY <1>6, <1>7, <2>2, <2>3
  <2>7. s[PageSize] \in Messages /\ d # << >> /\ d[Len(d)] = s[PageSize]
    BY <1>6, <1>8, <2>2, <2>3
  <2>8. None \notin Messages
    BY TenantAssumption
  <2> QED
    BY <2>1, <2>2, <2>4, <2>5, <2>6, <2>7, <2>8 DEF l, S
<1>10. CASE ~(Len(s) > PageSize)
  <2>1. l.data = s /\ l.nextCursor = None
    BY <1>4, <1>10 DEF Page
  <2>2. s \in Seq(Messages)
    BY <1>2, <1>5
  <2> QED
    BY <1>5, <1>6, <1>7, <2>1, <2>2 DEF l, S
<1> QED
  BY <1>9, <1>10

-----------------------------------------------------------------------------
(* The tenant page keeps its shape, and whatever it is loading has a       *)
(* request under way that will tell the panel the end of it.               *)

TenantRequest(r, c) ==
    /\ r.click \in 1 .. c /\ r.then = None /\ r.kind \in TenantPanels \ {"auth"}
    /\ r.kind # "list" => r.handled = FALSE /\ r.of # None

TenantLoads(u) ==
    \A p \in Panels : u.panel[p].state = "loading" =>
        \E r \in u.flight : r.kind = p \/ (p = "auth" /\ r.joint)

TenantPageOK(u, c) ==
    /\ u \in UIStates /\ u.token \in Keys \cup {None}
    /\ \A r \in u.flight : TenantRequest(r, c)
    /\ TenantLoads(u)

LEMMA PanelStatesDiffer ==
  /\ Loading.state = "loading" /\ Loading.rows = << >>
  /\ NoRows.state = "empty" /\ NoRows.rows = << >>
  /\ \A u : ListOf(u).state # "loading" /\ ListOf(u).rows = u.list
BY DEF Loading, NoRows, ListOf

LEMMA LoadTenantIsOK ==
  ASSUME NEW u \in UIStates, NEW c \in Nat, NEW click \in 1 .. c, TenantPageOK(u, c)
  PROVE  TenantPageOK(LoadTenant(u, click), c)
<1> DEFINE v == LoadTenant(u, click)
<1>0. u \in UIStates /\ click \in Nat /\ "auth" \in Panels
  BY PanelNames DEF TenantPageOK, TenantPanels
<1>1. CASE u.token = None
  <2>1. v = SetStatus(u, "auth", "error")
    BY <1>1 DEF LoadTenant
  <2> HIDE DEF v
  <2>2. /\ v \in UIStates /\ SameVars(u, v) /\ v.flight = u.flight
        /\ Shows(v, u, "auth", [state |-> "error", rows |-> u.panel["auth"].rows])
    BY <1>0, <2>1, SetStatusIs DEF PanelStates
  <2>3. TenantPageOK(v, c)
    BY <2>2 DEF TenantPageOK, TenantLoads, SameVars, Shows
  <2> QED
    BY <2>3 DEF v
<1>2. CASE u.token # None
  <2>1. u.token \in Keys
    BY <1>2 DEF TenantPageOK
  <2>2. TenantIsLoading(u, click, v)
    BY <1>0, <1>2, <2>1, LoadTenantIs
  <2> HIDE DEF v
  <2>3. PICK N : /\ v.flight = u.flight \cup N
                 /\ TenantAsked(N, v, click)
                 /\ \A r \in N : r.joint /\ (r.kind = "list" => r.reset)
                 /\ \A k \in LoadedTogether(u) : \E r \in N : r.kind = k
    BY <2>2 DEF TenantIsLoading
  <2>4. \A r \in N : TenantRequest(r, c)
    BY <1>2, <2>2, <2>3 DEF TenantAsked, TenantRequest, TenantPanels, TenantIsLoading
  <2>5. "usage" \in LoadedTogether(u)
    BY DEF LoadedTogether
  <2>6. TenantLoads(v)
    <3> SUFFICES ASSUME NEW p \in Panels, v.panel[p].state = "loading"
                 PROVE  \E r \in v.flight : r.kind = p \/ (p = "auth" /\ r.joint)
      BY DEF TenantLoads
    <3>1. CASE p \in LoadedTogether(u)
      BY <2>3, <3>1
    <3>2. CASE p = "auth"
      BY <2>3, <2>5, <3>2
    <3>3. CASE p \notin LoadedTogether(u) /\ p # "auth"
      BY <2>2, <2>3, <3>3 DEF TenantPageOK, TenantLoads, TenantIsLoading
    <3> QED
      BY <3>1, <3>2, <3>3
  <2>7. TenantPageOK(v, c)
    BY <2>1, <2>2, <2>3, <2>4, <2>6 DEF TenantPageOK, TenantIsLoading
  <2> QED
    BY <2>7 DEF v
<1> QED
  BY <1>1, <1>2

LEMMA LaterClicks ==
  ASSUME NEW u, NEW c \in Nat, TenantPageOK(u, c)
  PROVE  TenantPageOK(u, c + 1)
BY DEF TenantPageOK, TenantRequest

(* What one click does. *)
TenantChoice(u, click, v) ==
    \/ \E key \in Keys \cup {None} :
          v = LoadTenant(ClearSelectedMessage(WithToken(u, key, << >>, None)), click)
    \/ v = LoadTenant(u, click)
    \/ u.loadMore /\ v = LoadMessages(u, click, FALSE)
    \/ \E m \in Messages : m \in ToSet(u.panel["list"].rows) /\ v = SelectMessage(u, click, m)

LEMMA TenantUserIs ==
  TenantUser <=> Click /\ TenantChoice(ui, clicks', ui')
BY DEF TenantUser, TenantChoice, SubmitKey, RefreshTenant, LoadMore, Inspect, WithToken

LEMMA ClickedPageIsOK ==
  ASSUME NEW u \in UIStates, NEW c \in Nat, NEW v, TenantPageOK(u, c), TenantChoice(u, c + 1, v)
  PROVE  TenantPageOK(v, c + 1)
<1>0. u \in UIStates /\ c + 1 \in 1 .. c + 1 /\ c + 1 \in Nat /\ TenantPageOK(u, c + 1)
  BY LaterClicks DEF TenantPageOK
<1>1. CASE \E key \in Keys \cup {None} :
              v = LoadTenant(ClearSelectedMessage(WithToken(u, key, << >>, None)), c + 1)
  <2> PICK key \in Keys \cup {None} :
              v = LoadTenant(ClearSelectedMessage(WithToken(u, key, << >>, None)), c + 1)
    BY <1>1
  <2> DEFINE a == WithToken(u, key, << >>, None)
             b == ClearSelectedMessage(a)
  <2>1. a \in UIStates /\ a.flight = u.flight /\ a.panel = u.panel /\ a.token = key
    <3>1. key \in Tokens /\ << >> \in Seq(Things) /\ None \in Things \cup {None}
      BY DEF Tokens
    <3>2. \A rows \in Seq(Things) :
             LET x == WithToken(u, key, rows, None)
             IN  x \in UIStates /\ x.flight = u.flight /\ x.panel = u.panel /\ x.token = key
      BY <3>1, TokenIs
    <3> QED
      BY <3>1, <3>2
  <2> HIDE DEF a
  <2>2. /\ b \in UIStates /\ b.token = a.token /\ b.flight = a.flight
        /\ \A q \in Panels :
              b.panel[q] = IF q \in {"deliveries", "attempts"} THEN NoRows ELSE a.panel[q]
    BY <2>1, ClearSelectedMessageIs
  <2> HIDE DEF b
  <2>3. TenantPageOK(b, c + 1)
    BY <1>0, <2>1, <2>2, PanelStatesDiffer DEF TenantPageOK, TenantLoads
  <2>4. TenantPageOK(LoadTenant(b, c + 1), c + 1)
    BY <1>0, <2>2, <2>3, LoadTenantIsOK
  <2> QED
    BY <2>4 DEF a, b
<1>2. CASE v = LoadTenant(u, c + 1)
  BY <1>0, <1>2, LoadTenantIsOK
<1>3. CASE v = LoadMessages(u, c + 1, FALSE)
  <2>1. MessagesAsked(u, c + 1, FALSE, v)
    BY <1>0, <1>3, LoadMessagesIs
  <2>2. PICK r : /\ v.flight = u.flight \cup {r}
                 /\ Asks(r, u, c + 1, "list", v.cursor) /\ r.then = None
    BY <2>1 DEF MessagesAsked
  <2>3. TenantRequest(r, c + 1)
    BY <1>0, <2>2 DEF TenantRequest, Asks, TenantPanels
  <2>4. v \in UIStates /\ v.token = u.token
        /\ \A q \in Panels \ {"list"} : v.panel[q] = u.panel[q]
    BY <2>1 DEF MessagesAsked, Shows
  <2>5. TenantLoads(v)
    <3> SUFFICES ASSUME NEW p \in Panels, v.panel[p].state = "loading"
                 PROVE  \E q \in v.flight : q.kind = p \/ (p = "auth" /\ q.joint)
      BY DEF TenantLoads
    <3>1. CASE p = "list"
      <4>1. r \in v.flight /\ r.kind = p
        BY <2>2, <3>1 DEF Asks
      <4> QED
        BY ONLY <4>1
    <3>2. CASE p # "list"
      BY <1>0, <2>2, <2>4, <3>2 DEF TenantLoads, TenantPageOK
    <3> QED
      BY <3>1, <3>2
  <2> QED
    BY <1>0, <2>2, <2>3, <2>4, <2>5 DEF TenantPageOK
<1>4. CASE \E m \in Messages : v = SelectMessage(u, c + 1, m)
  <2> PICK m \in Messages : v = SelectMessage(u, c + 1, m)
    BY <1>4
  <2>1. m \in Things /\ m # None
    BY TenantAssumption DEF Things
  <2>2. MessageIsSelected(u, c + 1, m, v)
    BY <1>0, <2>1, SelectMessageIs
  <2>3. PICK N : /\ v.flight = u.flight \cup N
                 /\ TenantAsked(N, v, c + 1)
                 /\ \A k \in {"deliveries", "attempts"} : \E r \in N : r.kind = k
    BY <2>2 DEF MessageIsSelected
  <2>4. \A r \in N : TenantRequest(r, c + 1)
    BY <1>0, <2>3 DEF TenantAsked, TenantRequest, TenantPanels
  <2>5. /\ v \in UIStates /\ v.token = u.token
        /\ v.panel["list"].state # "loading"
        /\ \A q \in Panels \ {"list", "deliveries", "attempts"} : v.panel[q] = u.panel[q]
    <3>1. "list" \in Panels
      BY PanelNames DEF TenantPanels
    <3> QED
      BY <3>1, <2>2, PanelStatesDiffer DEF MessageIsSelected
  <2>6. TenantLoads(v)
    <3> SUFFICES ASSUME NEW p \in Panels, v.panel[p].state = "loading"
                 PROVE  \E r \in v.flight : r.kind = p \/ (p = "auth" /\ r.joint)
      BY DEF TenantLoads
    <3>1. CASE p \in {"deliveries", "attempts"}
      <4>1. PICK r \in N : r.kind = p
        BY <2>3, <3>1
      <4>2. r \in v.flight /\ r.kind = p
        BY <2>3, <4>1
      <4> QED
        BY ONLY <4>2
    <3>2. CASE p \notin {"deliveries", "attempts"}
      BY <1>0, <2>3, <2>5, <3>2 DEF TenantLoads, TenantPageOK
    <3> QED
      BY <3>1, <3>2
  <2> QED
    BY <1>0, <2>3, <2>4, <2>5, <2>6 DEF TenantPageOK
<1> QED
  BY <1>1, <1>2, <1>3, <1>4 DEF TenantChoice

(* The panel of r has been told the end of its load: so, then, is "auth".  *)
Told(u, r, x) ==
    /\ x \in UIStates /\ x.token = u.token /\ x.flight = u.flight \ {r}
    /\ x.panel[r.kind].state # "loading"
    /\ \A q \in Panels \ {r.kind} : x.panel[q] = u.panel[q]

LEMMA ResolvedIsOK ==
  ASSUME NEW u \in UIStates, NEW c \in Nat, TenantPageOK(u, c), NEW r \in u.flight,
         NEW x \in UIStates, Told(u, r, x)
  PROVE  TenantPageOK(Resolved(x, r), c)
<1> DEFINE v == Resolved(x, r)
<1>1. /\ v \in UIStates /\ SameVars(x, v) /\ v.flight = x.flight
      /\ \A q \in Panels \ {"auth"} : v.panel[q] = x.panel[q]
      /\ v.panel["auth"] = x.panel["auth"] \/ v.panel["auth"].state = "success"
      /\ r.joint => v.panel["auth"].state = "success" \/ Partners(x, r) # {}
  BY ResolvedIs
<1> HIDE DEF v
<1>2. r.kind # "auth" /\ \A q \in u.flight : q.kind # "auth"
  BY DEF TenantPageOK, TenantRequest
<1>3. TenantLoads(v)
  <2> SUFFICES ASSUME NEW p \in Panels, v.panel[p].state = "loading"
               PROVE  \E q \in v.flight : q.kind = p \/ (p = "auth" /\ q.joint)
    BY DEF TenantLoads
  <2>1. p # r.kind
    BY <1>1, <1>2 DEF Told
  <2>2. x.panel[p].state = "loading" /\ u.panel[p].state = "loading"
    BY <1>1, <2>1 DEF Told
  <2>3. PICK q \in u.flight : q.kind = p \/ (p = "auth" /\ q.joint)
    BY <2>2 DEF TenantPageOK, TenantLoads
  <2>4. CASE q # r
    BY <1>1, <2>3, <2>4 DEF Told
  <2>5. CASE q = r
    <3>1. p = "auth" /\ r.joint
      BY <2>1, <2>3, <2>5
    <3>2. PICK w \in Partners(x, r) : TRUE
      BY <1>1, <3>1
    <3>3. w \in v.flight /\ w.joint
      BY <1>1, <3>2 DEF Partners
    <3> QED
      BY <3>1, <3>3
  <2> QED
    BY <2>4, <2>5
<1>4. TenantPageOK(v, c)
  BY <1>1, <1>3 DEF TenantPageOK, Told, SameVars
<1> QED
  BY <1>4 DEF v

LEMMA RejectedIsOK ==
  ASSUME NEW u \in UIStates, NEW c \in Nat, TenantPageOK(u, c), NEW r \in u.flight,
         NEW x \in UIStates, Told(u, r, x)
  PROVE  TenantPageOK(Rejected(x, r), c)
<1> DEFINE v == Rejected(x, r)
<1>0. r.joint \in BOOLEAN
  BY DEF UIStates, Requests
<1>01. RejectedTo(x, r, v)
  BY <1>0, RejectedIs
<1> HIDE DEF v
<1>1. /\ v \in UIStates /\ SameVars(x, v)
      /\ \A q \in Panels \ {"auth"} : v.panel[q] = x.panel[q]
  BY <1>01 DEF RejectedTo
<1>2. r.kind # "auth" /\ \A q \in u.flight : q.kind # "auth"
  BY DEF TenantPageOK, TenantRequest
<1>3. \A q \in u.flight \ {r} : q \in x.flight /\ TenantRequest(q, c)
  BY DEF Told, TenantPageOK
<1>4. \A q \in x.flight : q \in u.flight \ {r}
  BY DEF Told
<1>5. CASE r.joint
  <2>0. v.panel["auth"].state = "error"
    BY <1>01, <1>5 DEF RejectedTo
  <2>1. \A q \in x.flight : /\ Unjoined(x, r, q) \in v.flight
                            /\ SameRequest(q, Unjoined(x, r, q))
    BY <1>01, <1>5 DEF RejectedTo
  <2>2. \A w \in v.flight : \E q \in x.flight : SameRequest(q, w)
    BY <1>01, <1>5, <2>1 DEF RejectedTo
  <2>3. \A w \in v.flight : TenantRequest(w, c)
    BY <1>3, <1>4, <2>2 DEF TenantRequest, SameRequest
  <2>4. TenantLoads(v)
    <3> SUFFICES ASSUME NEW p \in Panels, v.panel[p].state = "loading"
                 PROVE  \E q \in v.flight : q.kind = p
      BY DEF TenantLoads
    <3>1. p # r.kind /\ p # "auth" /\ u.panel[p].state = "loading"
      BY <1>1, <1>2, <2>0 DEF Told
    <3>2. PICK q \in u.flight : q.kind = p
      BY <3>1 DEF TenantPageOK, TenantLoads
    <3>3. q \in x.flight
      BY <1>3, <3>1, <3>2
    <3> QED
      BY <2>1, <3>2, <3>3 DEF SameRequest
  <2>5. TenantPageOK(v, c)
    BY <1>1, <2>3, <2>4 DEF TenantPageOK, Told, SameVars
  <2> QED
    BY <2>5 DEF v
<1>6. CASE ~r.joint
  <2>1. v.panel["auth"] = x.panel["auth"] /\ v.flight = x.flight
    BY <1>01, <1>6 DEF RejectedTo
  <2>2. TenantLoads(v)
    <3> SUFFICES ASSUME NEW p \in Panels, v.panel[p].state = "loading"
                 PROVE  \E q \in v.flight : q.kind = p \/ (p = "auth" /\ q.joint)
      BY DEF TenantLoads
    <3>1. p # r.kind /\ u.panel[p].state = "loading"
      BY <1>1, <1>2, <2>1 DEF Told
    <3>2. PICK q \in u.flight : q.kind = p \/ (p = "auth" /\ q.joint)
      BY <3>1 DEF TenantPageOK, TenantLoads
    <3>3. q \in v.flight
      BY <1>3, <1>6, <2>1, <3>1, <3>2
    <3> QED
      BY <3>2, <3>3
  <2>3. TenantPageOK(v, c)
    BY <1>1, <1>3, <1>4, <2>1, <2>2 DEF TenantPageOK, Told, SameVars
  <2> QED
    BY <2>3 DEF v
<1> QED
  BY <1>5, <1>6

(* What an answer does, or that there is none. *)
TenantAnswered(u, r, v) ==
    \/ /\ r.kind = "list" /\ r.handled
       /\ v = Resolved(MessagesLoaded(Arrived(u, r), r), r)
    \/ /\ r.kind # "list" /\ r.token # None
       /\ \E rows \in Found(r) : v = Resolved(Loaded(Arrived(u, r), r, rows), r)
    \/ v = Rejected(SetStatus(Arrived(u, r), r.kind, "error"), r)
    \/ v = Resolved(SetStatus(Arrived(u, r), r.kind, "error"), r)

LEMMA FoundIs ==
  ASSUME NEW r, r.of \in Things, NEW rows \in Found(r)
  PROVE  rows \in Seq(Things) /\ ToSet(rows) \subseteq {r.of}
<1>1. rows = << >> \/ rows = <<r.of>>
  BY DEF Found
<1>2. << >> \in Seq(Things) /\ <<r.of>> \in Seq(Things)
  OBVIOUS
<1>3. DOMAIN << >> = {}
  OBVIOUS
<1>4. DOMAIN <<r.of>> = {1} /\ <<r.of>>[1] = r.of
  OBVIOUS
<1>5. \A i \in DOMAIN rows : rows[i] = r.of
  BY <1>1, <1>3, <1>4
<1> QED
  BY <1>1, <1>2, <1>5 DEF ToSet

LEMMA FailedIs ==
  ASSUME NEW u \in UIStates, NEW r \in u.flight, r.kind \in Panels
  PROVE  LET x == SetStatus(Arrived(u, r), r.kind, "error")
         IN  /\ x \in UIStates /\ Told(u, r, x) /\ SameVars(u, x)
             /\ Shows(x, u, r.kind, [state |-> "error", rows |-> u.panel[r.kind].rows])
<1> DEFINE a == Arrived(u, r)
           x == SetStatus(a, r.kind, "error")
<1>1. a \in UIStates /\ SameVars(u, a) /\ a.flight = u.flight \ {r} /\ a.panel = u.panel
  BY ArrivedIs
<1> HIDE DEF a
<1>2. /\ x \in UIStates /\ SameVars(a, x) /\ x.flight = a.flight
      /\ Shows(x, a, r.kind, [state |-> "error", rows |-> a.panel[r.kind].rows])
  BY <1>1, SetStatusIs DEF PanelStates
<1> HIDE DEF x
<1>3. Shows(x, u, r.kind, [state |-> "error", rows |-> u.panel[r.kind].rows])
  BY <1>1, <1>2 DEF Shows
<1>4. SameVars(u, x) /\ x.flight = u.flight \ {r}
  BY <1>1, <1>2 DEF SameVars
<1>5. Told(u, r, x)
  BY <1>2, <1>3, <1>4 DEF Told, Shows, SameVars
<1> QED
  BY <1>2, <1>3, <1>4, <1>5 DEF a, x

LEMMA AnswerIsShown ==
  ASSUME NEW u \in UIStates, NEW r \in u.flight, r.kind \in Panels, NEW rows \in Seq(Things)
  PROVE  LET x == Loaded(Arrived(u, r), r, rows)
         IN  /\ x \in UIStates /\ Told(u, r, x) /\ SameVars(u, x)
             /\ Shows(x, u, r.kind,
                    [state |-> IF rows = << >> THEN "empty" ELSE "success",
                     rows |-> IF r.kind = "usage" THEN rows
                              ELSE u.panel[r.kind].rows \o rows])
<1> DEFINE a == Arrived(u, r)
           x == Loaded(a, r, rows)
           new(w) == [state |-> IF rows = << >> THEN "empty" ELSE "success",
                      rows |-> IF r.kind = "usage" THEN rows ELSE w.panel[r.kind].rows \o rows]
<1>1. a \in UIStates /\ SameVars(u, a) /\ a.flight = u.flight \ {r} /\ a.panel = u.panel
  BY ArrivedIs
<1> HIDE DEF a
<1>2. x \in UIStates /\ SameVars(a, x) /\ x.flight = a.flight /\ Shows(x, a, r.kind, new(a))
  BY <1>1, LoadedIs
<1> HIDE DEF x
<1>3. Shows(x, u, r.kind, new(u))
  BY <1>1, <1>2 DEF Shows
<1>4. SameVars(u, x) /\ x.flight = u.flight \ {r}
  BY <1>1, <1>2 DEF SameVars
<1>5. new(u).state # "loading"
  OBVIOUS
<1> HIDE DEF new
<1>6. Told(u, r, x)
  BY <1>2, <1>3, <1>4, <1>5 DEF Told, Shows, SameVars
<1> QED
  BY <1>2, <1>3, <1>4, <1>6 DEF a, x, new

LEMMA MessagesAreShown ==
  ASSUME NEW u \in UIStates, NEW r \in u.flight, r.kind = "list"
  PROVE  LET x == MessagesLoaded(Arrived(u, r), r)
         IN  /\ x \in UIStates /\ Told(u, r, x)
             /\ x.token = u.token /\ x.selected = u.selected
             /\ x.list = (IF r.reset THEN r.rows ELSE u.list \o r.rows)
             /\ x.cursor = r.more /\ x.since = (IF r.reset THEN r.asOf ELSE u.since)
             /\ x.loadMore = (x.list # << >> /\ x.cursor # None)
             /\ Shows(x, u, "list", ListOf(x))
<1> DEFINE a == Arrived(u, r)
           x == MessagesLoaded(a, r)
<1>0. r \in Requests /\ "list" \in Panels
  BY PanelNames DEF UIStates, TenantPanels
<1>1. a \in UIStates /\ SameVars(u, a) /\ a.flight = u.flight \ {r} /\ a.panel = u.panel
  BY ArrivedIs
<1> HIDE DEF a
<1>2. /\ x \in UIStates /\ x.token = a.token /\ x.selected = a.selected
      /\ x.list = (IF r.reset THEN r.rows ELSE a.list \o r.rows)
      /\ x.cursor = r.more /\ x.since = (IF r.reset THEN r.asOf ELSE a.since)
      /\ x.loadMore = (x.list # << >> /\ x.cursor # None)
      /\ x.flight = a.flight /\ Shows(x, a, "list", ListOf(x))
  BY <1>0, <1>1, MessagesLoadedIs
<1> HIDE DEF x
<1>3. Shows(x, u, "list", ListOf(x))
  BY <1>1, <1>2 DEF Shows
<1>4. Told(u, r, x)
  BY <1>0, <1>1, <1>2, <1>3, PanelStatesDiffer DEF Told, Shows, SameVars
<1> QED
  BY <1>1, <1>2, <1>3, <1>4 DEF a, x, SameVars

LEMMA AnsweredPageIsOK ==
  ASSUME NEW u \in UIStates, NEW c \in Nat, NEW v, TenantPageOK(u, c), NEW r \in u.flight,
         TenantAnswered(u, r, v)
  PROVE  TenantPageOK(v, c)
<1>0. /\ r \in Requests /\ r.kind \in Panels /\ r.kind \in TenantPanels \ {"auth"}
      /\ r.kind # "list" => r.of \in Things
  BY PanelNames DEF UIStates, TenantPageOK, TenantRequest, Requests
<1>1. CASE r.kind = "list" /\ v = Resolved(MessagesLoaded(Arrived(u, r), r), r)
  <2> DEFINE x == MessagesLoaded(Arrived(u, r), r)
  <2>1. x \in UIStates /\ Told(u, r, x)
    BY <1>1, MessagesAreShown
  <2> HIDE DEF x
  <2>2. TenantPageOK(Resolved(x, r), c)
    BY <2>1, ResolvedIsOK
  <2> QED
    BY <1>1, <2>2 DEF x
<1>2. CASE /\ r.kind # "list"
           /\ \E rows \in Found(r) : v = Resolved(Loaded(Arrived(u, r), r, rows), r)
  <2> PICK rows \in Found(r) : v = Resolved(Loaded(Arrived(u, r), r, rows), r)
    BY <1>2
  <2> DEFINE x == Loaded(Arrived(u, r), r, rows)
  <2>1. rows \in Seq(Things)
    BY <1>0, <1>2, FoundIs
  <2>2. x \in UIStates /\ Told(u, r, x)
    BY <1>0, <2>1, AnswerIsShown
  <2> HIDE DEF x
  <2>3. TenantPageOK(Resolved(x, r), c)
    BY <2>2, ResolvedIsOK
  <2> QED
    BY <2>3 DEF x
<1>3. CASE \/ v = Rejected(SetStatus(Arrived(u, r), r.kind, "error"), r)
           \/ v = Resolved(SetStatus(Arrived(u, r), r.kind, "error"), r)
  <2> DEFINE x == SetStatus(Arrived(u, r), r.kind, "error")
  <2>1. x \in UIStates /\ Told(u, r, x)
    BY <1>0, FailedIs
  <2> HIDE DEF x
  <2>2. TenantPageOK(Resolved(x, r), c) /\ TenantPageOK(Rejected(x, r), c)
    BY <2>1, ResolvedIsOK, RejectedIsOK
  <2> QED
    BY <1>3, <2>2 DEF x
<1> QED
  BY <1>1, <1>2, <1>3 DEF TenantAnswered

(* The answer to a request, under way. *)
ListAnswer(r, found) ==
    [Handled(r, found.data) EXCEPT !.more = found.nextCursor, !.asOf = accepted]

Answers(a, r) ==
    /\ a \in Requests /\ a.click = r.click /\ a.kind = r.kind /\ a.token = r.token
    /\ a.of = r.of /\ a.reset = r.reset /\ a.joint = r.joint /\ a.then = r.then
    /\ a.handled = TRUE

LEMMA HandledIs ==
  ASSUME NEW r \in Requests, NEW rows \in Seq(Things)
  PROVE  LET a == Handled(r, rows)
         IN  Answers(a, r) /\ a.rows = rows /\ a.more = r.more /\ a.asOf = r.asOf
BY DEF Handled, Requests, Answers

LEMMA ListAnswerIs ==
  ASSUME NEW r \in Requests, NEW found, found.data \in Seq(Things),
         found.nextCursor \in Things \cup {None}, accepted \subseteq Things
  PROVE  LET a == ListAnswer(r, found)
         IN  /\ Answers(a, r) /\ a.rows = found.data /\ a.more = found.nextCursor
             /\ a.asOf = accepted
BY DEF ListAnswer, Handled, Requests, Answers

LEMMA FlightIs ==
  ASSUME NEW u \in UIStates, NEW F \in SUBSET Requests
  PROVE  LET v == WithFlight(u, F)
         IN  v \in UIStates /\ SameVars(u, v) /\ v.flight = F /\ v.panel = u.panel
BY DEF UIStates, WithFlight, SameVars

Replied(u, r, a) == WithFlight(u, (u.flight \ {r}) \cup {a})

LEMMA RepliedIs ==
  ASSUME NEW u \in UIStates, NEW r \in u.flight, NEW a, Answers(a, r)
  PROVE  LET v == Replied(u, r, a)
         IN  /\ v \in UIStates /\ SameVars(u, v)
             /\ v.flight = (u.flight \ {r}) \cup {a} /\ v.panel = u.panel
<1> DEFINE F == (u.flight \ {r}) \cup {a}
<1>1. F \in SUBSET Requests
  BY DEF UIStates, Answers
<1> HIDE DEF F
<1>2. LET v == WithFlight(u, F)
      IN  v \in UIStates /\ SameVars(u, v) /\ v.flight = F /\ v.panel = u.panel
  BY <1>1, FlightIs
<1> QED
  BY <1>2 DEF Replied, F

LEMMA RepliedPageIsOK ==
  ASSUME NEW u \in UIStates, NEW c \in Nat, TenantPageOK(u, c), NEW r \in u.flight, NEW a,
         Answers(a, r), r.kind = "list"
  PROVE  TenantPageOK(Replied(u, r, a), c)
<1> DEFINE v == Replied(u, r, a)
<1>1. /\ v \in UIStates /\ SameVars(u, v)
      /\ v.flight = (u.flight \ {r}) \cup {a} /\ v.panel = u.panel
  BY RepliedIs
<1> HIDE DEF v
<1>2. TenantRequest(a, c)
  BY DEF TenantPageOK, TenantRequest, Answers
<1>3. a \in v.flight /\ a.kind = r.kind /\ a.joint = r.joint
  BY <1>1 DEF Answers
<1>4. TenantLoads(v)
  <2> SUFFICES ASSUME NEW p \in Panels, v.panel[p].state = "loading"
               PROVE  \E q \in v.flight : q.kind = p \/ (p = "auth" /\ q.joint)
    BY DEF TenantLoads
  <2>1. PICK q \in u.flight : q.kind = p \/ (p = "auth" /\ q.joint)
    BY <1>1 DEF TenantPageOK, TenantLoads
  <2>2. CASE q = r
    BY <1>3, <2>1, <2>2
  <2>3. CASE q # r
    BY <1>1, <2>1, <2>3
  <2> QED
    BY <2>2, <2>3
<1>5. TenantPageOK(v, c)
  BY <1>1, <1>2, <1>4 DEF TenantPageOK, SameVars
<1> QED
  BY <1>5 DEF v

-----------------------------------------------------------------------------
(* The script of the admin page *)

(* A page with some of its variables set. *)
WithSelection(u, sel, buttons) == [u EXCEPT !.selected = sel, !.revocable = buttons]
WithRevocable(u, buttons) == [u EXCEPT !.revocable = buttons]
WithChoice(u, sel) == [u EXCEPT !.selected = sel, !.secretOf = None]
WithTenants(u, rows, sel) == [u EXCEPT !.list = rows, !.selected = sel]
WithRows(u, rows) == [u EXCEPT !.list = rows]
WithSecretOf(u, app) == [u EXCEPT !.secretOf = app]
WithOnlyToken(u, token) == [u EXCEPT !.token = token]

(* What the script of the admin page reads of its page, but for sel. *)
AdminVars(u, v) ==
    v \in UIStates /\ v.token = u.token /\ v.flight = u.flight /\ v.panel = u.panel

LEMMA SelectionIs ==
  ASSUME NEW u \in UIStates, NEW sel \in Things \cup {None}, NEW b \in SUBSET Things
  PROVE  LET v == WithSelection(u, sel, b)
         IN  AdminVars(u, v) /\ v.list = u.list /\ v.selected = sel /\ v.revocable = b
BY DEF UIStates, WithSelection, AdminVars

LEMMA RevocableIs ==
  ASSUME NEW u \in UIStates, NEW b \in SUBSET Things
  PROVE  LET v == WithRevocable(u, b)
         IN  AdminVars(u, v) /\ v.list = u.list /\ v.selected = u.selected /\ v.revocable = b
BY DEF UIStates, WithRevocable, AdminVars

LEMMA ChoiceIs ==
  ASSUME NEW u \in UIStates, NEW sel \in Things \cup {None}
  PROVE  LET v == WithChoice(u, sel)
         IN  /\ AdminVars(u, v) /\ v.list = u.list /\ v.selected = sel
             /\ v.revocable = u.revocable
BY DEF UIStates, WithChoice, AdminVars

LEMMA TenantsAre ==
  ASSUME NEW u \in UIStates, NEW rows \in Seq(Things), NEW sel \in Things \cup {None}
  PROVE  LET v == WithTenants(u, rows, sel)
         IN  /\ AdminVars(u, v) /\ v.list = rows /\ v.selected = sel
             /\ v.revocable = u.revocable
BY DEF UIStates, WithTenants, AdminVars

LEMMA RowsAre ==
  ASSUME NEW u \in UIStates, NEW rows \in Seq(Things)
  PROVE  LET v == WithRows(u, rows)
         IN  /\ AdminVars(u, v) /\ v.list = rows /\ v.selected = u.selected
             /\ v.revocable = u.revocable
BY DEF UIStates, WithRows, AdminVars

LEMMA SecretOfIs ==
  ASSUME NEW u \in UIStates, NEW app \in Things \cup {None}
  PROVE  LET v == WithSecretOf(u, app)
         IN  /\ AdminVars(u, v) /\ v.list = u.list /\ v.selected = u.selected
             /\ v.revocable = u.revocable
BY DEF UIStates, WithSecretOf, AdminVars

LEMMA OnlyTokenIs ==
  ASSUME NEW u \in UIStates, NEW token \in Tokens
  PROVE  LET v == WithOnlyToken(u, token)
         IN  /\ v \in UIStates /\ v.flight = u.flight /\ v.panel = u.panel
             /\ v.list = u.list /\ v.selected = u.selected /\ v.revocable = u.revocable
             /\ v.token = token
BY DEF UIStates, WithOnlyToken

(* The panels of the selected tenant. *)
Context == {"usage", "keys"}

LEMMA AdminPanelNames ==
  /\ Context \subseteq Panels /\ {"auth", "list", "newTenant", "newKey"} \subseteq Panels
  /\ {"usage", "keys", "list", "newTenant", "newKey", "revoke"} \subseteq Kinds
BY PanelNames DEF AdminPanels, Context

LEMMA ClearTenantIs ==
  ASSUME NEW u \in UIStates
  PROVE  LET v == ClearSelectedTenantView(u)
         IN  /\ v \in UIStates /\ v.token = u.token /\ v.selected = None
             /\ v.list = u.list /\ v.revocable = {} /\ v.flight = u.flight
             /\ \A q \in Panels :
                   v.panel[q] = IF q \in Context THEN NoRows ELSE u.panel[q]
<1> DEFINE a == WithSelection(u, None, {})
           b == WithPanel(a, "usage", NoRows)
           c == WithPanel(b, "keys", NoRows)
<1>0. {"usage", "keys"} \subseteq Panels /\ NoRows \in PanelContents
  BY AdminPanelNames, PanelNames DEF Context
<1>1. ClearSelectedTenantView(u) = c
  BY DEF ClearSelectedTenantView, WithSelection
<1>2. AdminVars(u, a) /\ a.list = u.list /\ a.selected = None /\ a.revocable = {}
  BY SelectionIs
<1> HIDE DEF a
<1>3. b \in UIStates /\ SameVars(a, b) /\ b.flight = a.flight /\ Shows(b, a, "usage", NoRows)
  BY <1>0, <1>2, WithPanelIs DEF AdminVars
<1> HIDE DEF b
<1>4. c \in UIStates /\ SameVars(b, c) /\ c.flight = b.flight /\ Shows(c, b, "keys", NoRows)
  BY <1>0, <1>3, WithPanelIs
<1> HIDE DEF c
<1>5. \A q \in Panels : c.panel[q] = IF q \in Context THEN NoRows ELSE u.panel[q]
  BY <1>0, <1>2, <1>3, <1>4 DEF Shows, AdminVars, Context
<1> QED
  BY <1>1, <1>2, <1>3, <1>4, <1>5 DEF SameVars, AdminVars

LEMMA LoadUsageIs ==
  ASSUME NEW u \in UIStates, NEW click \in Nat, NEW then \in Things \cup {None},
         u.selected # None
  PROVE  LET v == LoadUsage(u, click, then)
             r == ThenRequest(u, click, "usage", u.selected, then)
         IN  /\ v \in UIStates /\ SameVars(u, v) /\ Shows(v, u, "usage", Loading)
             /\ v.flight = u.flight \cup {r}
<1> DEFINE r == ThenRequest(u, click, "usage", u.selected, then)
<1>0. "usage" \in Panels /\ "usage" \in Kinds /\ u.selected \in Things \cup {None}
  BY AdminPanelNames DEF Context, UIStates
<1>1. Asks(r, u, click, "usage", u.selected)
  <2>1. AsksThen(r, u, click, "usage", u.selected, then)
    BY <1>0, ThenRequestIs
  <2> QED
    BY <2>1 DEF AsksThen
<1>2. LoadUsage(u, click, then) = Load(u, r)
  BY DEF LoadUsage, ThenRequest
<1> HIDE DEF r
<1>3. LET v == Load(u, r)
      IN  /\ v \in UIStates /\ SameVars(u, v) /\ v.flight = u.flight \cup {r}
          /\ Shows(v, u, "usage", Loading)
  BY <1>0, <1>1, LoadIs DEF Asks
<1> QED
  BY <1>2, <1>3 DEF r

(* v is u when its keys are being loaded, if a tenant is selected. *)
KeysAreLoading(u, click, then, v) ==
    LET r == ThenRequest(u, click, "keys", u.selected, then)
    IN  /\ v \in UIStates /\ v.token = u.token /\ v.list = u.list
        /\ v.selected = u.selected /\ v.revocable = {}
        /\ Shows(v, u, "keys", IF u.selected = None THEN NoRows ELSE Loading)
        /\ v.flight = u.flight \cup (IF u.selected = None THEN {} ELSE {r})

LEMMA LoadKeysIs ==
  ASSUME NEW u \in UIStates, NEW click \in Nat, NEW then \in Things \cup {None}
  PROVE  KeysAreLoading(u, click, then, LoadKeys(u, click, then))
<1> DEFINE a == WithRevocable(u, {})
           r == ThenRequest(u, click, "keys", u.selected, then)
           b == WithPanel(a, "keys", NoRows)
           c == Load(a, r)
<1>0. /\ "keys" \in Panels /\ "keys" \in Kinds /\ u.selected \in Things \cup {None}
      /\ NoRows \in PanelContents
  BY AdminPanelNames, PanelNames DEF Context, UIStates
<1>1. Asks(r, u, click, "keys", u.selected)
  <2>1. AsksThen(r, u, click, "keys", u.selected, then)
    BY <1>0, ThenRequestIs
  <2> QED
    BY <2>1 DEF AsksThen
<1>2. AdminVars(u, a) /\ a.list = u.list /\ a.selected = u.selected /\ a.revocable = {}
  BY RevocableIs
<1>3. CASE u.selected = None
  <2>1. LoadKeys(u, click, then) = b
    BY <1>3 DEF LoadKeys, WithRevocable
  <2> HIDE DEF a
  <2>2. b \in UIStates /\ SameVars(a, b) /\ b.flight = a.flight /\ Shows(b, a, "keys", NoRows)
    BY <1>0, <1>2, WithPanelIs DEF AdminVars
  <2> HIDE DEF b
  <2> QED
    BY <1>2, <1>3, <2>1, <2>2 DEF KeysAreLoading, SameVars, AdminVars, Shows
<1>4. CASE u.selected # None
  <2>1. LoadKeys(u, click, then) = c
    BY <1>4 DEF LoadKeys, WithRevocable, ThenRequest
  <2> HIDE DEF a
  <2>2. r = ThenRequest(u, click, "keys", u.selected, then)
    OBVIOUS
  <2> HIDE DEF r
  <2>3. c \in UIStates /\ SameVars(a, c) /\ c.flight = a.flight \cup {r}
        /\ Shows(c, a, "keys", Loading)
    BY <1>0, <1>1, <1>2, LoadIs DEF AdminVars, Asks
  <2> HIDE DEF c
  <2> QED
    BY <1>2, <1>4, <2>1, <2>2, <2>3 DEF KeysAreLoading, SameVars, AdminVars, Shows
<1> QED
  BY <1>3, <1>4

(* The requests for the selected tenant. *)
ContextAsked(N, v, click, then) ==
    /\ \A r \in N :
          /\ r \in Requests /\ r.click = click /\ r.token = v.token /\ r.of = v.selected
          /\ r.handled = FALSE /\ r.joint = FALSE /\ r.then = then /\ r.kind \in Context
    /\ \A q, r \in N : q.kind = r.kind => q = r
    /\ v.selected # None => \A k \in Context : \E r \in N : r.kind = k
    /\ v.selected = None => N = {}

ContextOf(v) == IF v.selected = None THEN NoRows ELSE Loading

TenantIsChosen(u, click, then, v) ==
    /\ v \in UIStates /\ v.token = u.token /\ v.list = u.list
    /\ v.selected = u.selected /\ v.revocable = {}
    /\ \A q \in Panels : v.panel[q] = IF q \in Context THEN ContextOf(u) ELSE u.panel[q]
    /\ \E N : v.flight = u.flight \cup N /\ ContextAsked(N, v, click, then)

LEMMA LoadSelectedTenantIs ==
  ASSUME NEW u \in UIStates, NEW click \in Nat, NEW then \in Things \cup {None},
         u.selected # None
  PROVE  TenantIsChosen(u, click, then, LoadSelectedTenant(u, click, then))
<1> DEFINE a == LoadUsage(u, click, then)
           r1 == ThenRequest(u, click, "usage", u.selected, then)
           b == LoadKeys(a, click, then)
           r2 == ThenRequest(a, click, "keys", a.selected, then)
           N == {r1, r2}
<1>0. /\ "usage" \in Kinds /\ "keys" \in Kinds /\ u.selected \in Things \cup {None}
  BY AdminPanelNames DEF UIStates
<1>1. /\ Asks(r1, u, click, "usage", u.selected) /\ r1.joint = FALSE /\ r1.then = then
  <2>1. AsksThen(r1, u, click, "usage", u.selected, then)
    BY <1>0, ThenRequestIs
  <2> QED
    BY <2>1 DEF AsksThen
<1>2. a \in UIStates /\ SameVars(u, a) /\ Shows(a, u, "usage", Loading)
      /\ a.flight = u.flight \cup {r1}
  BY LoadUsageIs
<1> HIDE DEF a, r1
<1>3. a.selected = u.selected /\ a.selected \in Things \cup {None} /\ a.token = u.token
  BY <1>0, <1>2 DEF SameVars
<1>4. /\ Asks(r2, a, click, "keys", a.selected) /\ r2.joint = FALSE /\ r2.then = then
  <2>1. AsksThen(r2, a, click, "keys", a.selected, then)
    BY <1>0, <1>2, <1>3, ThenRequestIs
  <2> QED
    BY <2>1 DEF AsksThen
<1>5. KeysAreLoading(a, click, then, b)
  BY <1>2, LoadKeysIs
<1>6. /\ b \in UIStates /\ b.token = a.token /\ b.list = a.list
      /\ b.selected = a.selected /\ b.revocable = {}
      /\ Shows(b, a, "keys", Loading) /\ b.flight = a.flight \cup {r2}
  BY <1>3, <1>5 DEF KeysAreLoading
<1> HIDE DEF b, r2
<1>7. b.flight = u.flight \cup N
  BY <1>2, <1>6
<1>8. ContextAsked(N, b, click, then)
  <2>1. \A r \in N : /\ r \in Requests /\ r.click = click /\ r.token = b.token
                     /\ r.of = b.selected /\ r.handled = FALSE /\ r.joint = FALSE
                     /\ r.then = then /\ r.kind \in Context
    BY <1>1, <1>3, <1>4, <1>6 DEF Asks, Context
  <2>2. \A q, r \in N : q.kind = r.kind => q = r
    BY <1>1, <1>4 DEF Asks
  <2>3. \A k \in Context : \E r \in N : r.kind = k
    BY <1>1, <1>4 DEF Asks, Context
  <2> QED
    BY <1>3, <1>6, <2>1, <2>2, <2>3 DEF ContextAsked
<1>9. \A q \in Panels : b.panel[q] = IF q \in Context THEN ContextOf(u) ELSE u.panel[q]
  BY <1>2, <1>6 DEF Shows, Context, ContextOf
<1> HIDE DEF N
<1>10. TenantIsChosen(u, click, then, b)
  BY <1>2, <1>3, <1>6, <1>7, <1>8, <1>9 DEF TenantIsChosen, SameVars
<1> QED
  BY <1>10 DEF b, a, LoadSelectedTenant

LEMMA ReadyForKeyIs ==
  ASSUME NEW u \in UIStates
  PROVE  LET v == ReadyForKey(u)
         IN  /\ v \in UIStates /\ SameVars(u, v) /\ v.flight = u.flight
             /\ Shows(v, u, "newKey",
                    [state |-> IF u.selected = None THEN "error" ELSE "empty",
                     rows |-> u.panel["newKey"].rows])
<1> DEFINE s == IF u.selected = None THEN "error" ELSE "empty"
<1>1. s \in PanelStates /\ "newKey" \in Panels
  BY AdminPanelNames DEF PanelStates
<1>2. ReadyForKey(u) = SetStatus(u, "newKey", s)
  BY DEF ReadyForKey
<1> HIDE DEF s
<1>3. LET v == SetStatus(u, "newKey", s)
      IN  /\ v \in UIStates /\ SameVars(u, v) /\ v.flight = u.flight
          /\ Shows(v, u, "newKey", [state |-> s, rows |-> u.panel["newKey"].rows])
  BY <1>1, SetStatusIs
<1> QED
  BY <1>2, <1>3 DEF s

(* The contents of every panel when a tenant has been selected. *)
PanelsOfChoice(u, v) ==
    /\ \A q \in Context : v.panel[q] = ContextOf(v)
    /\ v.panel["list"] = ListOf(v)
    /\ v.panel["newKey"].state # "loading"
    /\ v.panel["newKey"].state = "error" <=> v.selected = None
    /\ v.panel["newTenant"] = u.panel["newTenant"]

(* v is u when the tenant a has been selected, if there is such a tenant.  *)
TenantIsSelected(u, click, a, v) ==
    /\ v \in UIStates /\ v.token = u.token /\ v.list = u.list /\ v.revocable = {}
    /\ v.selected = (IF a \in ToSet(u.list) THEN a ELSE None)
    /\ PanelsOfChoice(u, v) /\ v.panel["auth"] = u.panel["auth"]
    /\ \A q \in Panels \ AdminPanels : v.panel[q] = u.panel[q]
    /\ \E N : v.flight = u.flight \cup N /\ ContextAsked(N, v, click, None)

LEMMA PanelOfAdminOrNot ==
  /\ \A q \in AdminPanels : q \in {"auth", "list", "newTenant", "newKey"} \/ q \in Context
  /\ \A q \in Panels \ AdminPanels : q \notin {"auth", "list", "newTenant", "newKey"} \cup Context
BY DEF AdminPanels, Context

(* However the context of the selected tenant is shown, once it is known.  *)
LEMMA ChosenTenantIs ==
  ASSUME NEW u \in UIStates, NEW click \in Nat, NEW then \in Things \cup {None}, NEW v,
         v = IF u.selected = None THEN ClearSelectedTenantView(u)
             ELSE LoadSelectedTenant(u, click, then)
  PROVE  TenantIsChosen(u, click, then, v)
<1>1. CASE u.selected = None
  <2>1. v = ClearSelectedTenantView(u)
    BY <1>1
  <2>2. /\ v \in UIStates /\ v.token = u.token /\ v.selected = None
        /\ v.list = u.list /\ v.revocable = {} /\ v.flight = u.flight
        /\ \A q \in Panels : v.panel[q] = IF q \in Context THEN NoRows ELSE u.panel[q]
    BY <2>1, ClearTenantIs
  <2>3. ContextAsked({}, v, click, then)
    BY <2>2 DEF ContextAsked
  <2>4. v.flight = u.flight \cup {}
    BY <2>2
  <2>5. \E N : v.flight = u.flight \cup N /\ ContextAsked(N, v, click, then)
    BY <2>3, <2>4
  <2> QED
    BY <1>1, <2>2, <2>5 DEF TenantIsChosen, ContextOf
<1>2. CASE u.selected # None
  BY <1>2, LoadSelectedTenantIs
<1> QED
  BY <1>1, <1>2

LEMMA SelectTenantIs ==
  ASSUME NEW u \in UIStates, NEW click \in Nat, NEW a
  PROVE  TenantIsSelected(u, click, a, SelectTenant(u, click, a))
<1> DEFINE sel == IF a \in ToSet(u.list) THEN a ELSE None
           c == WithChoice(u, sel)
           d == RenderList(c)
           e == ReadyForKey(d)
           v == IF e.selected = None THEN ClearSelectedTenantView(e)
                ELSE LoadSelectedTenant(e, click, None)
<1>1. SelectTenant(u, click, a) = v
  BY DEF SelectTenant, WithChoice
<1>2. sel \in Things \cup {None}
  BY DEF ToSet, UIStates
<1> HIDE DEF sel
<1>3. AdminVars(u, c) /\ c.list = u.list /\ c.selected = sel
  BY <1>2, ChoiceIs
<1> HIDE DEF c
<1>4. d \in UIStates /\ SameVars(c, d) /\ d.flight = c.flight /\ Shows(d, c, "list", ListOf(c))
  BY <1>3, RenderListIs DEF AdminVars
<1> HIDE DEF d
<1>5. /\ e \in UIStates /\ SameVars(d, e) /\ e.flight = d.flight
      /\ Shows(e, d, "newKey", [state |-> IF d.selected = None THEN "error" ELSE "empty",
                                rows |-> d.panel["newKey"].rows])
  BY <1>4, ReadyForKeyIs
<1> HIDE DEF e
<1>6. /\ e.token = u.token /\ e.list = u.list /\ e.selected = sel /\ e.flight = u.flight
  BY <1>3, <1>4, <1>5 DEF AdminVars, SameVars
<1>7. TenantIsChosen(e, click, None, v)
  BY <1>5, ChosenTenantIs
<1> HIDE DEF v
<1>8. /\ v \in UIStates /\ v.token = u.token /\ v.list = u.list /\ v.revocable = {}
      /\ v.selected = sel
      /\ \E N : v.flight = u.flight \cup N /\ ContextAsked(N, v, click, None)
  BY <1>6, <1>7 DEF TenantIsChosen
<1>9. \A q \in Panels : v.panel[q] = IF q \in Context THEN ContextOf(v) ELSE e.panel[q]
  BY <1>6, <1>7, <1>8 DEF TenantIsChosen, ContextOf
<1>10. e.panel["list"] = ListOf(v) /\ v.panel["list"] = ListOf(v)
  <2>1. ListOf(c) = ListOf(v)
    BY <1>3, <1>8 DEF ListOf
  <2> QED
    BY <2>1, <1>4, <1>5, <1>9, AdminPanelNames DEF Shows, Context
<1>11. /\ e.panel["newKey"].state = IF sel = None THEN "error" ELSE "empty"
       /\ v.panel["newKey"] = e.panel["newKey"]
  BY <1>5, <1>6, <1>9, AdminPanelNames DEF Shows, Context, SameVars
<1>12. \A q \in Panels \ (Context \cup {"list", "newKey"}) : v.panel[q] = u.panel[q]
  BY <1>3, <1>4, <1>5, <1>9 DEF Shows, AdminVars
<1>13. "auth" \notin Context /\ "newTenant" \notin Context
  BY DEF Context
<1>14. PanelsOfChoice(u, v)
  BY <1>8, <1>9, <1>10, <1>11, <1>12, <1>13, AdminPanelNames DEF PanelsOfChoice
<1>15. \A q \in Panels \ AdminPanels : v.panel[q] = u.panel[q]
  BY <1>12, PanelOfAdminOrNot
<1>16. v.panel["auth"] = u.panel["auth"]
  BY <1>12, <1>13, AdminPanelNames
<1>17. TenantIsSelected(u, click, a, v)
  BY <1>8, <1>14, <1>15, <1>16 DEF TenantIsSelected, sel
<1> QED
  BY <1>1, <1>17

ThenIs(u, click, then, v) ==
    /\ then = None => v = u
    /\ then # None => TenantIsSelected(u, click, then, v)

LEMMA ThenSelects ==
  ASSUME NEW u \in UIStates, NEW click \in Nat, NEW then
  PROVE  ThenIs(u, click, then, Then(u, click, then))
BY SelectTenantIs DEF ThenIs, Then

(* v is u when loadAdmin has sent its request. *)
TenantsAsked(u, click, then, v) ==
    LET r == ThenRequest(u, click, "list", None, then)
    IN  /\ v \in UIStates /\ SameVars(u, v) /\ v.flight = u.flight \cup {r}
        /\ \A q \in Panels :
              v.panel[q] = IF q \in {"auth", "list"}
                           THEN [state |-> "loading", rows |-> u.panel[q].rows]
                           ELSE u.panel[q]

LEMMA LoadAdminIs ==
  ASSUME NEW u \in UIStates, NEW click \in Nat, NEW then \in Things \cup {None},
         u.token # None
  PROVE  TenantsAsked(u, click, then, LoadAdmin(u, click, then))
<1> DEFINE a == SetStatus(u, "auth", "loading")
           b == SetStatus(a, "list", "loading")
           r == ThenRequest(u, click, "list", None, then)
<1>0. {"auth", "list"} \subseteq Panels /\ "list" \in Kinds /\ None \in Things \cup {None}
  BY AdminPanelNames
<1>1. LoadAdmin(u, click, then) = Api(b, r)
  BY DEF LoadAdmin, ThenRequest
<1>2. a \in UIStates /\ SameVars(u, a) /\ a.flight = u.flight
      /\ Shows(a, u, "auth", [state |-> "loading", rows |-> u.panel["auth"].rows])
  BY <1>0, SetStatusIs DEF PanelStates
<1> HIDE DEF a
<1>3. b \in UIStates /\ SameVars(a, b) /\ b.flight = a.flight
      /\ Shows(b, a, "list", [state |-> "loading", rows |-> a.panel["list"].rows])
  BY <1>0, <1>2, SetStatusIs DEF PanelStates
<1> HIDE DEF b
<1>4. AsksThen(r, u, click, "list", None, then)
  BY <1>0, ThenRequestIs
<1>5. r = ThenRequest(u, click, "list", None, then)
  OBVIOUS
<1> HIDE DEF r
<1>6. LET v == Api(b, r)
      IN  /\ v \in UIStates /\ SameVars(b, v) /\ v.flight = b.flight \cup {r}
          /\ v.panel = b.panel
  BY <1>3, <1>4, ApiIs DEF AsksThen, Asks
<1>7. \A q \in Panels :
         b.panel[q] = IF q \in {"auth", "list"}
                      THEN [state |-> "loading", rows |-> u.panel[q].rows]
                      ELSE u.panel[q]
  BY <1>0, <1>2, <1>3 DEF Shows
<1> QED
  BY <1>1, <1>2, <1>3, <1>5, <1>6, <1>7 DEF TenantsAsked, SameVars

LEMMA NoneIsNothing == None \notin Things
BY TenantAssumption, AdminAssumption DEF Things

LEMMA RowsAreThings ==
  /\ \A rows \in Seq(Things) : ToSet(rows) \subseteq Things
  /\ \A rows \in Seq(Things) : rows # << >> => Head(rows) \in ToSet(rows)
  /\ ToSet(<< >>) = {}
<1>1. \A rows \in Seq(Things) : ToSet(rows) \subseteq Things
  BY DEF ToSet
<1>2. ASSUME NEW rows \in Seq(Things), rows # << >>
      PROVE  Head(rows) \in ToSet(rows)
  <2>1. 1 \in DOMAIN rows /\ Head(rows) = rows[1]
    BY <1>2
  <2> QED
    BY <2>1 DEF ToSet
<1>3. ToSet(<< >>) = {}
  BY DEF ToSet
<1> QED
  BY <1>1, <1>2, <1>3

LEMMA KeptSelectionIs ==
  ASSUME NEW u \in UIStates, NEW rows \in Seq(Things)
  PROVE  /\ KeptSelection(u, rows) \in Things \cup {None}
         /\ KeptSelection(u, rows) = None <=> rows = << >>
         /\ KeptSelection(u, rows) # None => KeptSelection(u, rows) \in ToSet(rows)
<1>1. CASE rows = << >>
  <2>1. u.selected \notin ToSet(rows)
    BY <1>1, RowsAreThings
  <2> QED
    BY <1>1, <2>1 DEF KeptSelection
<1>2. CASE rows # << >>
  <2>1. /\ ToSet(rows) \subseteq Things
        /\ Head(rows) \in ToSet(rows)
    BY <1>2, RowsAreThings
  <2>2. KeptSelection(u, rows) \in ToSet(rows)
    BY <1>2, <2>1 DEF KeptSelection
  <2> QED
    BY <1>2, <2>1, <2>2, NoneIsNothing
<1> QED
  BY <1>1, <1>2

(* v is u when the tenants that answer r are shown, and one is selected.   *)
TenantsAreShown(u, r, v) ==
    /\ v \in UIStates /\ v.token = u.token /\ v.list = r.rows /\ v.revocable = {}
    /\ v.selected = KeptSelection(u, r.rows)
    /\ PanelsOfChoice(u, v) /\ v.panel["auth"].state = "success"
    /\ \A q \in Panels \ AdminPanels : v.panel[q] = u.panel[q]
    /\ \E N : v.flight = u.flight \cup N /\ ContextAsked(N, v, r.click, r.then)

LEMMA TenantsLoadedIs ==
  ASSUME NEW u \in UIStates, NEW r \in Requests
  PROVE  TenantsAreShown(u, r, TenantsLoaded(u, r))
<1> DEFINE sel == KeptSelection(u, r.rows)
           b == WithTenants(u, r.rows, sel)
           c == SetStatus(b, "auth", "success")
           d == ReadyForKey(c)
           e == RenderList(d)
           w == IF e.selected = None THEN ClearSelectedTenantView(e)
                ELSE LoadSelectedTenant(e, r.click, r.then)
           v == TenantsLoaded(u, r)
<1>0. r.rows \in Seq(Things) /\ r.click \in Nat /\ r.then \in Things \cup {None}
  BY DEF Requests
<1>1. v = IF e.selected = None THEN Then(w, r.click, r.then) ELSE w
  BY DEF TenantsLoaded, WithTenants
<1>2. sel \in Things \cup {None} /\ (sel = None <=> r.rows = << >>)
  BY <1>0, KeptSelectionIs
<1>s. sel = KeptSelection(u, r.rows)
  OBVIOUS
<1> HIDE DEF sel, v
<1>3. AdminVars(u, b) /\ b.list = r.rows /\ b.selected = sel
  BY <1>0, <1>2, TenantsAre
<1> HIDE DEF b
<1>4. /\ c \in UIStates /\ SameVars(b, c) /\ c.flight = b.flight
      /\ Shows(c, b, "auth", [state |-> "success", rows |-> b.panel["auth"].rows])
  BY <1>3, AdminPanelNames, SetStatusIs DEF PanelStates, AdminVars
<1> HIDE DEF c
<1>5. /\ d \in UIStates /\ SameVars(c, d) /\ d.flight = c.flight
      /\ Shows(d, c, "newKey", [state |-> IF c.selected = None THEN "error" ELSE "empty",
                                rows |-> c.panel["newKey"].rows])
  BY <1>4, ReadyForKeyIs
<1> HIDE DEF d
<1>6. e \in UIStates /\ SameVars(d, e) /\ e.flight = d.flight /\ Shows(e, d, "list", ListOf(d))
  BY <1>5, RenderListIs
<1> HIDE DEF e
<1>7. /\ e.token = u.token /\ e.list = r.rows /\ e.selected = sel /\ e.flight = u.flight
  BY <1>3, <1>4, <1>5, <1>6 DEF AdminVars, SameVars
<1>8. TenantIsChosen(e, r.click, r.then, w)
  BY <1>0, <1>6, ChosenTenantIs
<1> HIDE DEF w
<1>9. /\ w \in UIStates /\ w.token = u.token /\ w.list = r.rows /\ w.revocable = {}
      /\ w.selected = sel
      /\ \E N : w.flight = u.flight \cup N /\ ContextAsked(N, w, r.click, r.then)
  BY <1>7, <1>8 DEF TenantIsChosen
<1>10. \A q \in Panels : w.panel[q] = IF q \in Context THEN ContextOf(w) ELSE e.panel[q]
  BY <1>7, <1>8, <1>9 DEF TenantIsChosen, ContextOf
<1>11. w.panel["list"] = ListOf(w)
  <2>1. ListOf(d) = ListOf(w)
    BY <1>6, <1>7, <1>9 DEF ListOf, SameVars
  <2> QED
    BY <2>1, <1>6, <1>10, AdminPanelNames DEF Shows, Context
<1>12. w.panel["newKey"].state = IF sel = None THEN "error" ELSE "empty"
  BY <1>4, <1>5, <1>6, <1>7, <1>10, AdminPanelNames DEF Shows, Context, SameVars
<1>13. "auth" \notin Context /\ "newTenant" \notin Context
  BY DEF Context
<1>14. w.panel["auth"].state = "success" /\ w.panel["newTenant"] = u.panel["newTenant"]
  BY <1>3, <1>4, <1>5, <1>6, <1>10, <1>13, AdminPanelNames DEF Shows, AdminVars
<1>15. PanelsOfChoice(u, w)
  BY <1>9, <1>10, <1>11, <1>12, <1>14, AdminPanelNames DEF PanelsOfChoice
<1>16. \A q \in Panels \ AdminPanels : w.panel[q] = u.panel[q]
  BY <1>3, <1>4, <1>5, <1>6, <1>10, PanelOfAdminOrNot DEF Shows, AdminVars
<1>17. TenantsAreShown(u, r, w)
  BY <1>9, <1>14, <1>15, <1>16, <1>s DEF TenantsAreShown
<1>18. CASE e.selected = None /\ r.then # None
  <2>1. v = Then(w, r.click, r.then)
    BY <1>1, <1>18
  <2>2. TenantIsSelected(w, r.click, r.then, v)
    BY <1>0, <1>9, <1>18, <2>1, ThenSelects DEF ThenIs
  <2>3. w.list = << >> /\ sel = None /\ w.selected = None
    BY <1>2, <1>7, <1>9, <1>18
  <2>4. v.selected = None
    BY <2>2, <2>3, RowsAreThings DEF TenantIsSelected
  <2>5. PICK N : v.flight = w.flight \cup N /\ ContextAsked(N, v, r.click, None)
    BY <2>2 DEF TenantIsSelected
  <2>6. PICK M : w.flight = u.flight \cup M /\ ContextAsked(M, w, r.click, r.then)
    BY <1>9
  <2>7. N = {} /\ M = {}
    BY <2>3, <2>4, <2>5, <2>6 DEF ContextAsked
  <2>8. v.flight = u.flight \cup {} /\ ContextAsked({}, v, r.click, r.then)
    BY <2>4, <2>5, <2>6, <2>7 DEF ContextAsked
  <2>9. \E S : v.flight = u.flight \cup S /\ ContextAsked(S, v, r.click, r.then)
    BY <2>8
  <2>10. PanelsOfChoice(u, v) /\ v.panel["auth"].state = "success"
         /\ \A q \in Panels \ AdminPanels : v.panel[q] = u.panel[q]
    BY <1>14, <1>16, <2>2 DEF TenantIsSelected, PanelsOfChoice
  <2>11. /\ v \in UIStates /\ v.token = u.token /\ v.list = r.rows /\ v.revocable = {}
         /\ v.selected = KeptSelection(u, r.rows)
    BY <1>9, <1>s, <2>2, <2>3, <2>4 DEF TenantIsSelected
  <2> QED
    BY <2>9, <2>10, <2>11 DEF TenantsAreShown, v
<1>19. CASE ~(e.selected = None /\ r.then # None)
  <2>1. v = w
    BY <1>1, <1>19 DEF Then
  <2> QED
    BY <1>17, <2>1 DEF v
<1> QED
  BY <1>18, <1>19

(* v is u when there was no answer to the request for the tenants.         *)
TenantsAreGone(u, v) ==
    /\ v \in UIStates /\ v.token = u.token /\ v.list = << >> /\ v.revocable = {}
    /\ v.selected = None /\ v.flight = u.flight
    /\ \A q \in Context : v.panel[q] = NoRows
    /\ v.panel["list"].rows = << >> /\ v.panel["list"].state \in {"error", "empty"}
    /\ v.panel["auth"].state = "error"
    /\ v.panel["newKey"] = u.panel["newKey"] \/ v.panel["newKey"].state = "error"
    /\ v.panel["newTenant"] = u.panel["newTenant"]
    /\ \A q \in Panels \ AdminPanels : v.panel[q] = u.panel[q]

LEMMA TenantsFailedIs ==
  ASSUME NEW u \in UIStates, NEW r \in Requests
  PROVE  TenantsAreGone(u, TenantsFailed(u, r))
<1> DEFINE b == WithRows(u, << >>)
           c == RenderList(b)
           d == ClearSelectedTenantView(c)
           e == SetStatus(d, "auth", "error")
           w == SetStatus(e, "list", "error")
           v == TenantsFailed(u, r)
<1>0. r.click \in Nat /\ r.then \in Things \cup {None}
  BY DEF Requests
<1>1. v = Then(w, r.click, r.then)
  BY DEF TenantsFailed, WithRows
<1> HIDE DEF v
<1>2. AdminVars(u, b) /\ b.list = << >>
  <2>1. << >> \in Seq(Things)
    OBVIOUS
  <2>2. \A rows \in Seq(Things) : AdminVars(u, WithRows(u, rows)) /\ WithRows(u, rows).list = rows
    BY RowsAre
  <2> QED
    BY <2>1, <2>2
<1> HIDE DEF b
<1>3. c \in UIStates /\ SameVars(b, c) /\ c.flight = b.flight /\ Shows(c, b, "list", ListOf(b))
  BY <1>2, RenderListIs DEF AdminVars
<1> HIDE DEF c
<1>4. /\ d \in UIStates /\ d.token = c.token /\ d.selected = None /\ d.list = c.list
      /\ d.revocable = {} /\ d.flight = c.flight
      /\ \A q \in Panels : d.panel[q] = IF q \in Context THEN NoRows ELSE c.panel[q]
  BY <1>3, ClearTenantIs
<1> HIDE DEF d
<1>5. /\ e \in UIStates /\ SameVars(d, e) /\ e.flight = d.flight
      /\ Shows(e, d, "auth", [state |-> "error", rows |-> d.panel["auth"].rows])
  BY <1>4, AdminPanelNames, SetStatusIs DEF PanelStates
<1> HIDE DEF e
<1>6. /\ w \in UIStates /\ SameVars(e, w) /\ w.flight = e.flight
      /\ Shows(w, e, "list", [state |-> "error", rows |-> e.panel["list"].rows])
  BY <1>5, AdminPanelNames, SetStatusIs DEF PanelStates
<1> HIDE DEF w
<1>7. /\ w.token = u.token /\ w.list = << >> /\ w.revocable = {} /\ w.selected = None
      /\ w.flight = u.flight
  BY <1>2, <1>3, <1>4, <1>5, <1>6 DEF AdminVars, SameVars
<1>8. {"auth", "list", "newTenant", "newKey"} \cap Context = {}
  BY DEF Context
<1>9. /\ \A q \in Context : w.panel[q] = NoRows
      /\ w.panel["list"].state = "error" /\ w.panel["auth"].state = "error"
      /\ w.panel["newKey"] = u.panel["newKey"] /\ w.panel["newTenant"] = u.panel["newTenant"]
  BY <1>2, <1>3, <1>4, <1>5, <1>6, <1>8, AdminPanelNames DEF Shows, AdminVars
<1>10. w.panel["list"].rows = << >>
  <2>1. w.panel["list"].rows = e.panel["list"].rows
    BY <1>6, AdminPanelNames DEF Shows
  <2>2. e.panel["list"] = d.panel["list"]
    BY <1>5, AdminPanelNames DEF Shows
  <2>3. d.panel["list"] = c.panel["list"]
    BY <1>4, <1>8, AdminPanelNames
  <2>4. c.panel["list"].rows = << >>
    BY <1>2, <1>3, AdminPanelNames DEF Shows, ListOf
  <2> QED
    BY <2>1, <2>2, <2>3, <2>4
<1>11. \A q \in Panels \ AdminPanels : w.panel[q] = u.panel[q]
  BY <1>2, <1>3, <1>4, <1>5, <1>6, PanelOfAdminOrNot DEF Shows, AdminVars
<1>12. TenantsAreGone(u, w)
  BY <1>6, <1>7, <1>9, <1>10, <1>11 DEF TenantsAreGone
<1>13. CASE r.then = None
  BY <1>1, <1>12, <1>13 DEF Then, v
<1>14. CASE r.then # None
  <2>1. TenantIsSelected(w, r.click, r.then, v)
    BY <1>0, <1>1, <1>6, <1>14, ThenSelects DEF ThenIs
  <2>2. /\ v \in UIStates /\ v.token = u.token /\ v.list = << >> /\ v.revocable = {}
        /\ v.selected = None
    BY <1>7, <2>1, RowsAreThings DEF TenantIsSelected
  <2>3. v.flight = u.flight
    <3>1. PICK N : v.flight = w.flight \cup N /\ ContextAsked(N, v, r.click, None)
      BY <2>1 DEF TenantIsSelected
    <3> QED
      BY <1>7, <2>2, <3>1 DEF ContextAsked
  <2>4. ListOf(v) = [state |-> "empty", rows |-> << >>] /\ ContextOf(v) = NoRows
    BY <2>2 DEF ListOf, ContextOf
  <2>5. /\ \A q \in Context : v.panel[q] = NoRows
        /\ v.panel["list"].rows = << >> /\ v.panel["list"].state = "empty"
        /\ v.panel["newKey"].state = "error"
        /\ v.panel["newTenant"] = w.panel["newTenant"] /\ v.panel["auth"] = w.panel["auth"]
    BY <2>1, <2>2, <2>4 DEF TenantIsSelected, PanelsOfChoice
  <2>6. \A q \in Panels \ AdminPanels : v.panel[q] = u.panel[q]
    BY <1>11, <2>1 DEF TenantIsSelected
  <2> QED
    BY <1>9, <2>2, <2>3, <2>5, <2>6 DEF TenantsAreGone, v
<1> QED
  BY <1>13, <1>14

-----------------------------------------------------------------------------
(* The admin page keeps its shape, and whatever it is loading has a        *)
(* request under way that will tell the panel the end of it.               *)

(* The panels that are told the end of their load when r is answered.      *)
Ends(r) ==
    IF r.kind = "list" THEN {"list", "auth"} ELSE IF r.kind = "revoke" THEN {"keys"} ELSE {r.kind}

AdminRequest(r, c) ==
    /\ r.click \in 1 .. c /\ r.kind \in (AdminPanels \ {"auth"}) \cup {"revoke"}
    /\ r.kind = "newTenant" /\ r.handled => r.rows # << >>

(* Some panels, those in X, may have lost their request.                   *)
AdminPageOK(u, c, X) ==
    /\ u \in UIStates
    /\ \A r \in u.flight : AdminRequest(r, c)
    /\ \A p \in Panels \ X : u.panel[p].state = "loading" => \E r \in u.flight : p \in Ends(r)

Grows(u, v, c, X) ==
    /\ v \in UIStates
    /\ \E N : /\ v.flight = u.flight \cup N /\ \A r \in N : AdminRequest(r, c)
              /\ \A p \in Panels : v.panel[p].state = "loading" =>
                    (p \notin X /\ u.panel[p].state = "loading") \/ \E r \in N : p \in Ends(r)

LEMMA GrownPageIsOK ==
  ASSUME NEW u, NEW v, NEW c, NEW X, AdminPageOK(u, c, X), Grows(u, v, c, X)
  PROVE  AdminPageOK(v, c, {})
<1> PICK N : /\ v.flight = u.flight \cup N /\ \A r \in N : AdminRequest(r, c)
             /\ \A p \in Panels : v.panel[p].state = "loading" =>
                   (p \notin X /\ u.panel[p].state = "loading") \/ \E r \in N : p \in Ends(r)
  BY DEF Grows
<1>1. \A r \in v.flight : AdminRequest(r, c)
  BY DEF AdminPageOK
<1>2. ASSUME NEW p \in Panels, v.panel[p].state = "loading"
      PROVE  \E r \in v.flight : p \in Ends(r)
  <2>1. CASE \E r \in N : p \in Ends(r)
    BY <2>1
  <2>2. CASE p \notin X /\ u.panel[p].state = "loading"
    BY <2>2 DEF AdminPageOK
  <2> QED
    BY <1>2, <2>1, <2>2
<1> QED
  BY <1>1, <1>2 DEF AdminPageOK, Grows

LEMMA ContextRequests ==
  ASSUME NEW N, NEW v, NEW c \in Nat, NEW click \in 1 .. c, NEW then,
         ContextAsked(N, v, click, then)
  PROVE  /\ \A r \in N : AdminRequest(r, c)
         /\ \A p \in Context : ContextOf(v).state = "loading" => \E r \in N : p \in Ends(r)
<1>1. \A r \in N : AdminRequest(r, c)
  BY DEF ContextAsked, AdminRequest, Context, AdminPanels
<1>2. \A r \in N : r.kind \in Ends(r)
  BY DEF ContextAsked, Ends, Context
<1>3. ASSUME NEW p \in Context, ContextOf(v).state = "loading"
      PROVE  \E r \in N : p \in Ends(r)
  <2>1. v.selected # None
    BY <1>3, PanelStatesDiffer DEF ContextOf
  <2>2. PICK r \in N : r.kind = p
    BY <2>1 DEF ContextAsked
  <2> QED
    BY <1>2, <2>2
<1> QED
  BY <1>1, <1>3

(* Selecting a tenant settles all panels but auth and newTenant.           *)
LEMMA ChoiceGrows ==
  ASSUME NEW u, NEW v \in UIStates, NEW c \in Nat, NEW click \in 1 .. c, NEW then,
         PanelsOfChoice(u, v), \A q \in Panels \ AdminPanels : v.panel[q] = u.panel[q],
         NEW X, X \subseteq {"auth", "list"} \cup Context,
         \/ v.panel["auth"] = u.panel["auth"] /\ "auth" \notin X
         \/ v.panel["auth"].state # "loading",
         \E N : v.flight = u.flight \cup N /\ ContextAsked(N, v, click, then)
  PROVE  Grows(u, v, c, X)
<1> PICK N : v.flight = u.flight \cup N /\ ContextAsked(N, v, click, then)
  OBVIOUS
<1>1. /\ \A r \in N : AdminRequest(r, c)
      /\ \A p \in Context : ContextOf(v).state = "loading" => \E r \in N : p \in Ends(r)
  BY ContextRequests
<1>2. ASSUME NEW p \in Panels, v.panel[p].state = "loading"
      PROVE  (p \notin X /\ u.panel[p].state = "loading") \/ \E r \in N : p \in Ends(r)
  <2>1. CASE p \in Context
    BY <1>1, <1>2, <2>1 DEF PanelsOfChoice
  <2>2. CASE p \in {"list", "newKey"}
    BY <1>2, <2>2, PanelStatesDiffer DEF PanelsOfChoice
  <2>3. CASE p = "newTenant"
    BY <1>2, <2>3 DEF PanelsOfChoice, Context
  <2>4. CASE p = "auth"
    BY <1>2, <2>4
  <2>5. CASE p \in Panels \ AdminPanels
    BY <1>2, <2>5, PanelOfAdminOrNot
  <2> QED
    BY <2>1, <2>2, <2>3, <2>4, <2>5, PanelOfAdminOrNot
<1> QED
  BY <1>1, <1>2 DEF Grows

LEMMA SelectTenantIsOK ==
  ASSUME NEW u \in UIStates, NEW c \in Nat, NEW click \in 1 .. c, NEW a, AdminPageOK(u, c, {})
  PROVE  AdminPageOK(SelectTenant(u, click, a), c, {})
<1> DEFINE v == SelectTenant(u, click, a)
<1>1. TenantIsSelected(u, click, a, v)
  BY SelectTenantIs
<1> HIDE DEF v
<1>2. Grows(u, v, c, {})
  BY <1>1, ChoiceGrows DEF TenantIsSelected
<1>3. AdminPageOK(v, c, {})
  BY <1>2, GrownPageIsOK
<1> QED
  BY <1>3 DEF v

LEMMA ThenIsOK ==
  ASSUME NEW u \in UIStates, NEW c \in Nat, NEW click \in 1 .. c, NEW then,
         AdminPageOK(u, c, {})
  PROVE  AdminPageOK(Then(u, click, then), c, {})
BY SelectTenantIsOK DEF Then

LEMMA ToldPanelIsOK ==
  ASSUME NEW u \in UIStates, NEW c, NEW p \in Panels, NEW s \in PanelStates \ {"loading"},
         AdminPageOK(u, c, {p})
  PROVE  AdminPageOK(SetStatus(u, p, s), c, {})
<1> DEFINE v == SetStatus(u, p, s)
<1>1. /\ v \in UIStates /\ SameVars(u, v) /\ v.flight = u.flight
      /\ Shows(v, u, p, [state |-> s, rows |-> u.panel[p].rows])
  BY SetStatusIs
<1> HIDE DEF v
<1>2. v.panel[p].state = s /\ s # "loading" /\ \A q \in Panels \ {p} : v.panel[q] = u.panel[q]
  BY <1>1 DEF Shows
<1>3. AdminPageOK(v, c, {})
  BY <1>1, <1>2 DEF AdminPageOK
<1> QED
  BY <1>3 DEF v

LEMMA LoadAdminIsOK ==
  ASSUME NEW u \in UIStates, NEW c \in Nat, NEW click \in 1 .. c,
         NEW then \in Things \cup {None}, AdminPageOK(u, c, {})
  PROVE  AdminPageOK(LoadAdmin(u, click, then), c, {})
<1>0. AdminPageOK(u, c, {"auth"}) /\ "auth" \in Panels
  BY AdminPanelNames DEF AdminPageOK
<1>1. CASE u.token = None
  <2> DEFINE a == SetStatus(u, "auth", "error")
  <2>1. AdminPageOK(a, c, {}) /\ a \in UIStates
    BY <1>0, ToldPanelIsOK DEF PanelStates, AdminPageOK
  <2>2. LoadAdmin(u, click, then) = Then(a, click, then)
    BY <1>1 DEF LoadAdmin
  <2> HIDE DEF a
  <2> QED
    BY <2>1, <2>2, ThenIsOK
<1>2. CASE u.token # None
  <2> DEFINE v == LoadAdmin(u, click, then)
             r == ThenRequest(u, click, "list", None, then)
  <2>1. TenantsAsked(u, click, then, v)
    BY <1>2, LoadAdminIs
  <2>2. AsksThen(r, u, click, "list", None, then)
    BY AdminPanelNames, ThenRequestIs
  <2>3. v \in UIStates /\ v.flight = u.flight \cup {r}
        /\ \A q \in Panels \ {"list", "auth"} : v.panel[q] = u.panel[q]
    BY <2>1 DEF TenantsAsked
  <2> HIDE DEF v, r
  <2>4. AdminRequest(r, c) /\ Ends(r) = {"list", "auth"}
    BY <2>2 DEF AsksThen, Asks, AdminRequest, Ends, AdminPanels
  <2>5. ASSUME NEW p \in Panels, v.panel[p].state = "loading"
        PROVE  (p \notin {} /\ u.panel[p].state = "loading") \/ \E q \in {r} : p \in Ends(q)
    BY <2>3, <2>4, <2>5
  <2>6. Grows(u, v, c, {})
    BY <2>3, <2>4, <2>5 DEF Grows
  <2>7. AdminPageOK(v, c, {})
    BY <2>6, GrownPageIsOK
  <2> QED
    BY <2>7 DEF v
<1> QED
  BY <1>1, <1>2

LEMMA LoadKeysIsOK ==
  ASSUME NEW u \in UIStates, NEW c \in Nat, NEW click \in 1 .. c, AdminPageOK(u, c, {})
  PROVE  AdminPageOK(LoadKeys(u, click, None), c, {})
<1> DEFINE v == LoadKeys(u, click, None)
           r == ThenRequest(u, click, "keys", u.selected, None)
           N == IF u.selected = None THEN {} ELSE {r}
<1>0. u.selected \in Things \cup {None}
  BY DEF UIStates
<1>1. KeysAreLoading(u, click, None, v)
  BY LoadKeysIs
<1>2. AsksThen(r, u, click, "keys", u.selected, None)
  BY <1>0, AdminPanelNames, ThenRequestIs
<1>3. /\ v \in UIStates /\ v.flight = u.flight \cup N
      /\ Shows(v, u, "keys", IF u.selected = None THEN NoRows ELSE Loading)
  BY <1>1 DEF KeysAreLoading
<1> HIDE DEF v, r
<1>4. AdminRequest(r, c) /\ Ends(r) = {"keys"}
  BY <1>2 DEF AsksThen, Asks, AdminRequest, Ends, AdminPanels
<1>5. ASSUME NEW p \in Panels, v.panel[p].state = "loading"
      PROVE  (p \notin {} /\ u.panel[p].state = "loading") \/ \E q \in N : p \in Ends(q)
  BY <1>3, <1>4, <1>5, PanelStatesDiffer DEF Shows
<1>6. \A q \in N : AdminRequest(q, c)
  BY <1>4
<1> HIDE DEF N
<1>7. Grows(u, v, c, {})
  BY <1>3, <1>5, <1>6 DEF Grows
<1>8. AdminPageOK(v, c, {})
  BY <1>7, GrownPageIsOK
<1> QED
  BY <1>8 DEF v

LEMMA ArrivedPageIsOK ==
  ASSUME NEW u \in UIStates, NEW c, NEW r \in u.flight, AdminPageOK(u, c, {})
  PROVE  AdminPageOK(Arrived(u, r), c, Ends(r))
<1> DEFINE v == Arrived(u, r)
<1>1. v \in UIStates /\ v.flight = u.flight \ {r} /\ v.panel = u.panel
  BY ArrivedIs
<1> HIDE DEF v
<1>2. ASSUME NEW p \in Panels \ Ends(r), v.panel[p].state = "loading"
      PROVE  \E q \in v.flight : p \in Ends(q)
  <2>1. PICK q \in u.flight : p \in Ends(q)
    BY <1>1, <1>2 DEF AdminPageOK
  <2> QED
    BY <1>1, <2>1
<1>3. AdminPageOK(v, c, Ends(r))
  BY <1>1, <1>2 DEF AdminPageOK
<1> QED
  BY <1>3 DEF v

LEMMA UsageLoadedIs ==
  ASSUME NEW u \in UIStates, NEW r \in Requests, r.kind = "usage"
  PROVE  LET v == UsageLoaded(u, r)
         IN  /\ v \in UIStates /\ SameVars(u, v) /\ v.flight = u.flight
             /\ \A q \in Panels \ {"usage"} : v.panel[q] = u.panel[q]
             /\ v.panel["usage"].state # "loading" /\ v.panel["usage"].rows = r.rows
<1> DEFINE a == Loaded(u, r, r.rows)
           b == SetStatus(a, "usage", "error")
           new == [state |-> IF r.rows = << >> THEN "empty" ELSE "success", rows |-> r.rows]
<1>0. "usage" \in Panels /\ r.rows \in Seq(Things)
  BY AdminPanelNames DEF Context, Requests
<1>1. UsageLoaded(u, r) = IF u.selected = None THEN b ELSE a
  BY DEF UsageLoaded
<1>2. a \in UIStates /\ SameVars(u, a) /\ a.flight = u.flight /\ Shows(a, u, "usage", new)
  BY <1>0, LoadedIs
<1>3. new.state # "loading" /\ new.rows = r.rows
  OBVIOUS
<1> HIDE DEF a, new
<1>4. /\ b \in UIStates /\ SameVars(a, b) /\ b.flight = a.flight
      /\ Shows(b, a, "usage", [state |-> "error", rows |-> a.panel["usage"].rows])
  BY <1>0, <1>2, SetStatusIs DEF PanelStates
<1> HIDE DEF b
<1>5. CASE u.selected = None
  BY <1>0, <1>1, <1>2, <1>3, <1>4, <1>5 DEF SameVars, Shows
<1>6. CASE u.selected # None
  BY <1>0, <1>1, <1>2, <1>3, <1>6 DEF Shows
<1> QED
  BY <1>5, <1>6

LEMMA KeysLoadedIs ==
  ASSUME NEW u \in UIStates, NEW r \in Requests, r.kind = "keys"
  PROVE  LET v == KeysLoaded(u, r)
         IN  /\ v \in UIStates /\ v.token = u.token /\ v.list = u.list
             /\ v.selected = u.selected /\ v.flight = u.flight
             /\ v.revocable = u.revocable \cup r.asOf
             /\ \A q \in Panels \ {"keys"} : v.panel[q] = u.panel[q]
             /\ v.panel["keys"].state # "loading"
             /\ v.panel["keys"].rows = u.panel["keys"].rows \o r.rows
<1> DEFINE a == Loaded(u, r, r.rows)
           new == [state |-> IF r.rows = << >> THEN "empty" ELSE "success",
                   rows |-> u.panel["keys"].rows \o r.rows]
           buttons == a.revocable \cup r.asOf
           v == WithRevocable(a, buttons)
<1>0. "keys" \in Panels /\ r.rows \in Seq(Things) /\ r.asOf \in SUBSET Things
      /\ u.revocable \in SUBSET Things
  BY AdminPanelNames DEF Context, Requests, UIStates
<1>1. KeysLoaded(u, r) = v
  BY DEF KeysLoaded, WithRevocable
<1>2. a \in UIStates /\ SameVars(u, a) /\ a.flight = u.flight /\ Shows(a, u, "keys", new)
  BY <1>0, LoadedIs
<1>3. new.state # "loading" /\ new.rows = u.panel["keys"].rows \o r.rows
  OBVIOUS
<1> HIDE DEF a, new
<1>4. buttons \in SUBSET Things /\ buttons = u.revocable \cup r.asOf
  BY <1>0, <1>2 DEF SameVars
<1> HIDE DEF buttons
<1>5. AdminVars(a, v) /\ v.list = a.list /\ v.selected = a.selected /\ v.revocable = buttons
  BY <1>2, <1>4, RevocableIs
<1> HIDE DEF v
<1> QED
  BY <1>0, <1>1, <1>2, <1>3, <1>4, <1>5 DEF SameVars, Shows, AdminVars

LEMMA ContextLoadedIsOK ==
  ASSUME NEW u \in UIStates, NEW c \in Nat, NEW r, r.click \in 1 .. c, AdminPageOK(u, c, {})
  PROVE  AdminPageOK(SelectedTenantLoaded(u, r), c, {})
BY ThenIsOK DEF SelectedTenantLoaded

(* What an answer does, or that there is none. *)
AdminAnswered(u, r, v) ==
    LET a == Arrived(u, r)
    IN  \/ r.handled /\ r.kind = "list" /\ v = TenantsLoaded(a, r)
        \/ r.handled /\ r.kind = "usage" /\ v = SelectedTenantLoaded(UsageLoaded(a, r), r)
        \/ r.handled /\ r.kind = "keys" /\ v = SelectedTenantLoaded(KeysLoaded(a, r), r)
        \/ r.handled /\ r.kind = "newTenant" /\ v = TenantCreated(a, r)
        \/ r.handled /\ r.kind = "newKey" /\ v = KeyCreated(a, r)
        \/ r.handled /\ r.kind = "revoke" /\ v = KeyRevoked(a, r)
        \/ r.kind = "list" /\ v = TenantsFailed(a, r)
        \/ r.kind # "list" /\ v = SelectedTenantLoaded(SetStatus(a, PanelOf(r), "error"), r)

LEMMA AnsweredAdminIsOK ==
  ASSUME NEW u \in UIStates, NEW c \in Nat, NEW v, NEW r \in u.flight, AdminPageOK(u, c, {}),
         AdminAnswered(u, r, v)
  PROVE  AdminPageOK(v, c, {})
<1> DEFINE a == Arrived(u, r)
<1>0. /\ r \in Requests /\ r.click \in 1 .. c /\ AdminRequest(r, c)
      /\ r.click \in Nat /\ r.then \in Things \cup {None}
  BY DEF UIStates, AdminPageOK, AdminRequest, Requests
<1>1. AdminPageOK(a, c, Ends(r)) /\ a \in UIStates
  BY ArrivedPageIsOK, ArrivedIs
<1>2. AdminAnswered(u, r, v) <=>
        \/ r.handled /\ r.kind = "list" /\ v = TenantsLoaded(a, r)
        \/ r.handled /\ r.kind = "usage" /\ v = SelectedTenantLoaded(UsageLoaded(a, r), r)
        \/ r.handled /\ r.kind = "keys" /\ v = SelectedTenantLoaded(KeysLoaded(a, r), r)
        \/ r.handled /\ r.kind = "newTenant" /\ v = TenantCreated(a, r)
        \/ r.handled /\ r.kind = "newKey" /\ v = KeyCreated(a, r)
        \/ r.handled /\ r.kind = "revoke" /\ v = KeyRevoked(a, r)
        \/ r.kind = "list" /\ v = TenantsFailed(a, r)
        \/ r.kind # "list" /\ v = SelectedTenantLoaded(SetStatus(a, PanelOf(r), "error"), r)
  BY DEF AdminAnswered
<1> HIDE DEF a
<1>3. CASE r.kind = "list" /\ v = TenantsLoaded(a, r)
  <2>1. TenantsAreShown(a, r, v)
    BY <1>0, <1>1, <1>3, TenantsLoadedIs
  <2>2. Ends(r) = {"list", "auth"}
    BY <1>3 DEF Ends
  <2>3. Grows(a, v, c, Ends(r))
    BY <1>0, <2>1, <2>2, ChoiceGrows DEF TenantsAreShown
  <2> QED
    BY <1>1, <2>3, GrownPageIsOK
<1>4. CASE r.kind = "usage" /\ v = SelectedTenantLoaded(UsageLoaded(a, r), r)
  <2> DEFINE b == UsageLoaded(a, r)
  <2>1. /\ b \in UIStates /\ SameVars(a, b) /\ b.flight = a.flight
        /\ \A q \in Panels \ {"usage"} : b.panel[q] = a.panel[q]
        /\ b.panel["usage"].state # "loading"
    BY <1>0, <1>1, <1>4, UsageLoadedIs
  <2>2. Ends(r) = {"usage"}
    BY <1>4 DEF Ends
  <2> HIDE DEF b
  <2>3. AdminPageOK(b, c, {})
    BY <1>1, <2>1, <2>2 DEF AdminPageOK
  <2>4. AdminPageOK(SelectedTenantLoaded(b, r), c, {})
    BY <1>0, <2>1, <2>3, ContextLoadedIsOK
  <2> QED
    BY <1>4, <2>4 DEF b
<1>5. CASE r.kind = "keys" /\ v = SelectedTenantLoaded(KeysLoaded(a, r), r)
  <2> DEFINE b == KeysLoaded(a, r)
  <2>1. /\ b \in UIStates /\ b.flight = a.flight
        /\ \A q \in Panels \ {"keys"} : b.panel[q] = a.panel[q]
        /\ b.panel["keys"].state # "loading"
    BY <1>0, <1>1, <1>5, KeysLoadedIs
  <2>2. Ends(r) = {"keys"}
    BY <1>5 DEF Ends
  <2> HIDE DEF b
  <2>3. AdminPageOK(b, c, {})
    BY <1>1, <2>1, <2>2 DEF AdminPageOK
  <2>4. AdminPageOK(SelectedTenantLoaded(b, r), c, {})
    BY <1>0, <2>1, <2>3, ContextLoadedIsOK
  <2> QED
    BY <1>5, <2>4 DEF b
<1>6. CASE r.handled /\ r.kind = "newTenant" /\ v = TenantCreated(a, r)
  <2> DEFINE h == Head(r.rows)
             b == WithSelected(a, h)
             d == SetStatus(b, "newTenant", "success")
  <2>1. h \in Things
    <3>1. r.rows # << >> /\ r.rows \in Seq(Things)
      BY <1>0, <1>6 DEF AdminRequest, Requests
    <3> QED
      BY <3>1, RowsAreThings
  <2>2. v = LoadAdmin(d, r.click, h)
    BY <1>6 DEF TenantCreated, WithSelected
  <2> HIDE DEF h
  <2>3. b \in UIStates /\ b.flight = a.flight /\ b.panel = a.panel
    BY <1>1, <2>1, SelectedIs
  <2> HIDE DEF b
  <2>4. Ends(r) = {"newTenant"}
    BY <1>6 DEF Ends
  <2>5. AdminPageOK(b, c, {"newTenant"})
    BY <1>1, <2>3, <2>4 DEF AdminPageOK
  <2>6. AdminPageOK(d, c, {})
    BY <2>3, <2>5, AdminPanelNames, ToldPanelIsOK DEF PanelStates
  <2> HIDE DEF d
  <2> QED
    BY <1>0, <2>1, <2>2, <2>6, LoadAdminIsOK DEF AdminPageOK
<1>7. CASE r.kind = "newKey" /\ v = KeyCreated(a, r)
  <2> DEFINE b == WithSecretOf(a, r.of)
             d == SetStatus(b, "newKey", "success")
  <2>1. v = LoadKeys(d, r.click, None)
    BY <1>7 DEF KeyCreated, WithSecretOf
  <2>2. r.of \in Things \cup {None}
    BY <1>0 DEF Requests
  <2>3. b \in UIStates /\ b.flight = a.flight /\ b.panel = a.panel
    BY <1>1, <2>2, SecretOfIs DEF AdminVars
  <2> HIDE DEF b
  <2>4. Ends(r) = {"newKey"}
    BY <1>7 DEF Ends
  <2>5. AdminPageOK(b, c, {"newKey"})
    BY <1>1, <2>3, <2>4 DEF AdminPageOK
  <2>6. AdminPageOK(d, c, {})
    BY <2>3, <2>5, AdminPanelNames, ToldPanelIsOK DEF PanelStates
  <2> HIDE DEF d
  <2> QED
    BY <1>0, <2>1, <2>6, LoadKeysIsOK DEF AdminPageOK
<1>8. CASE r.kind = "revoke" /\ v = KeyRevoked(a, r)
  <2> DEFINE d == SetStatus(a, "keys", "success")
  <2>1. v = LoadKeys(d, r.click, None)
    BY <1>8 DEF KeyRevoked
  <2>2. Ends(r) = {"keys"} /\ "keys" \in Panels
    BY <1>8, AdminPanelNames DEF Ends, Context
  <2>3. AdminPageOK(d, c, {})
    BY <1>1, <2>2, ToldPanelIsOK DEF PanelStates
  <2> HIDE DEF d
  <2> QED
    BY <1>0, <2>1, <2>3, LoadKeysIsOK DEF AdminPageOK
<1>9. CASE r.kind = "list" /\ v = TenantsFailed(a, r)
  <2>1. TenantsAreGone(a, v)
    BY <1>0, <1>1, <1>9, TenantsFailedIs
  <2>2. Ends(r) = {"list", "auth"}
    BY <1>9 DEF Ends
  <2>3. ASSUME NEW p \in Panels, v.panel[p].state = "loading"
        PROVE  p \notin Ends(r) /\ a.panel[p].state = "loading"
    <3>1. CASE p \in Context
      BY <2>1, <2>3, <3>1, PanelStatesDiffer DEF TenantsAreGone
    <3>2. CASE p \in {"list", "auth", "newKey", "newTenant"}
      BY <2>1, <2>2, <2>3, <3>2 DEF TenantsAreGone
    <3>3. CASE p \in Panels \ AdminPanels
      BY <2>1, <2>2, <2>3, <3>3, PanelOfAdminOrNot DEF TenantsAreGone
    <3> QED
      BY <3>1, <3>2, <3>3, PanelOfAdminOrNot
  <2>4. v.flight = a.flight /\ v \in UIStates
    BY <2>1 DEF TenantsAreGone
  <2> QED
    BY <1>1, <2>3, <2>4 DEF AdminPageOK
<1>10. CASE r.kind # "list" /\ v = SelectedTenantLoaded(SetStatus(a, PanelOf(r), "error"), r)
  <2> DEFINE d == SetStatus(a, PanelOf(r), "error")
  <2>1. Ends(r) = {PanelOf(r)} /\ PanelOf(r) \in Panels
    BY <1>0, <1>10, AdminPanelNames, PanelNames DEF Ends, PanelOf, AdminRequest, Context
  <2>2. AdminPageOK(d, c, {})
    BY <1>1, <2>1, ToldPanelIsOK DEF PanelStates
  <2> HIDE DEF d
  <2>3. AdminPageOK(SelectedTenantLoaded(d, r), c, {})
    BY <1>0, <2>2, ContextLoadedIsOK DEF AdminPageOK
  <2> QED
    BY <1>10, <2>3 DEF d
<1> QED
  BY <1>2, <1>3, <1>4, <1>5, <1>6, <1>7, <1>8, <1>9, <1>10

-----------------------------------------------------------------------------
(* The tables of the admin API *)

LEMMA RowRemoved ==
  ASSUME NEW D, NEW s \in Seq(D), NEW i \in DOMAIN s
  PROVE  /\ RemoveAt(s, i) \in Seq(D)
         /\ Len(RemoveAt(s, i)) = Len(s) - 1
         /\ \A j \in 1 .. Len(s) - 1 : RemoveAt(s, i)[j] = IF j < i THEN s[j] ELSE s[j + 1]
<1> DEFINE a == SubSeq(s, 1, i - 1)
           b == SubSeq(s, i + 1, Len(s))
<1>1. i \in 1 .. Len(s) /\ Len(s) \in Nat
  OBVIOUS
<1>2. a \in Seq(D) /\ Len(a) = i - 1 /\ \A j \in 1 .. i - 1 : a[j] = s[j]
  BY <1>1
<1>3. b \in Seq(D) /\ Len(b) = Len(s) - i /\ \A j \in 1 .. Len(s) - i : b[j] = s[i + j]
  BY <1>1
<1>4. RemoveAt(s, i) = a \o b
  BY DEF RemoveAt
<1> HIDE DEF a, b
<1>5. /\ a \o b \in Seq(D) /\ Len(a \o b) = Len(a) + Len(b)
      /\ \A j \in 1 .. Len(a) + Len(b) :
            (a \o b)[j] = IF j <= Len(a) THEN a[j] ELSE b[j - Len(a)]
  <2>1. a \in Seq(D) /\ b \in Seq(D)
    BY <1>2, <1>3
  <2>2. QED
    BY <2>1, ConcatProperties
<1>6. ASSUME NEW j \in 1 .. Len(s) - 1
      PROVE  (a \o b)[j] = IF j < i THEN s[j] ELSE s[j + 1]
  <2>1. j \in 1 .. Len(a) + Len(b) /\ (j <= Len(a) <=> j < i)
    BY <1>1, <1>2, <1>3
  <2>2. CASE j < i
    BY <1>1, <1>2, <1>5, <2>1, <2>2
  <2>3. CASE ~(j < i)
    <3> DEFINE n == j - (i - 1)
    <3>1. n \in 1 .. Len(s) - i /\ n = j - Len(a) /\ i + n = j + 1
      BY <1>1, <1>2, <2>3
    <3> HIDE DEF n
    <3>2. QED
      BY <1>3, <1>5, <2>1, <2>3, <3>1
  <2>4. QED
    BY <2>2, <2>3
<1>7. Len(a \o b) = Len(s) - 1
  BY <1>1, <1>2, <1>3, <1>5
<1> QED
  BY <1>4, <1>5, <1>6, <1>7

(* A table without one of its rows. *)
LEMMA TableWithout ==
  ASSUME NEW D, NEW s \in Seq(D), NEW i \in DOMAIN s, IsInjective(s)
  PROVE  /\ RemoveAt(s, i) \in Seq(D) /\ IsInjective(RemoveAt(s, i))
         /\ ToSet(RemoveAt(s, i)) = ToSet(s) \ {s[i]}
<1> DEFINE t == RemoveAt(s, i)
<1>1. /\ i \in 1 .. Len(s) /\ Len(s) \in Nat /\ DOMAIN s = 1 .. Len(s)
      /\ \A j, k \in 1 .. Len(s) : s[j] = s[k] => j = k
  BY DEF IsInjective
<1>2. /\ t \in Seq(D) /\ Len(t) = Len(s) - 1
      /\ \A j \in 1 .. Len(s) - 1 : t[j] = IF j < i THEN s[j] ELSE s[j + 1]
  BY RowRemoved
<1> HIDE DEF t
<1>3. DOMAIN t = 1 .. Len(s) - 1
  BY <1>2
<1> DEFINE up(j) == IF j < i THEN j ELSE j + 1
<1>4. \A j \in DOMAIN t : up(j) \in 1 .. Len(s) /\ up(j) # i /\ t[j] = s[up(j)]
  BY <1>1, <1>2, <1>3
<1>5. IsInjective(t)
  <2> SUFFICES ASSUME NEW j \in DOMAIN t, NEW k \in DOMAIN t, t[j] = t[k] PROVE j = k
    BY DEF IsInjective
  <2>1. up(j) = up(k)
    BY <1>1, <1>4
  <2>2. QED
    BY <1>1, <1>3, <2>1
<1>6. ToSet(t) \subseteq ToSet(s) \ {s[i]}
  BY <1>1, <1>4 DEF ToSet
<1>7. ASSUME NEW k \in 1 .. Len(s), k # i PROVE \E j \in DOMAIN t : t[j] = s[k]
  <2> DEFINE j == IF k < i THEN k ELSE k - 1
  <2>1. j \in 1 .. Len(s) - 1 /\ up(j) = k
    BY <1>1, <1>7
  <2>2. QED
    BY <1>3, <1>4, <2>1
<1>8. ToSet(s) \ {s[i]} \subseteq ToSet(t)
  BY <1>1, <1>7 DEF ToSet
<1> QED
  BY <1>2, <1>5, <1>6, <1>8 DEF t

(* A table with one row more, in front. *)
LEMMA TableWith ==
  ASSUME NEW D, NEW s \in Seq(D), NEW d \in D, IsInjective(s), d \notin ToSet(s)
  PROVE  /\ <<d>> \o s \in Seq(D) /\ IsInjective(<<d>> \o s)
         /\ ToSet(<<d>> \o s) = ToSet(s) \cup {d}
<1> DEFINE t == <<d>> \o s
           n == Len(s)
<1>1. n \in Nat /\ DOMAIN s = 1 .. n
  OBVIOUS
<1>2. <<d>> \in Seq(D) /\ Len(<<d>>) = 1 /\ <<d>>[1] = d
  OBVIOUS
<1>3. /\ t \in Seq(D) /\ Len(t) = 1 + n
      /\ \A j \in 1 .. 1 + n : t[j] = IF j <= 1 THEN <<d>>[j] ELSE s[j - 1]
  BY <1>2, ConcatProperties
<1> HIDE DEF t
<1>4. DOMAIN t = 1 .. n + 1 /\ t[1] = d
  BY <1>1, <1>2, <1>3
<1>5. \A j \in 2 .. n + 1 : t[j] = s[j - 1] /\ j - 1 \in DOMAIN s
  BY <1>1, <1>3
<1>6. \A j \in 1 .. n : t[j + 1] = s[j] /\ j + 1 \in DOMAIN t
  BY <1>1, <1>3, <1>4
<1>7. \A j \in DOMAIN s : s[j] # d
  BY DEF ToSet
<1>8. IsInjective(t)
  <2> SUFFICES ASSUME NEW i \in DOMAIN t, NEW j \in DOMAIN t, t[i] = t[j]
               PROVE  i = j
    BY DEF IsInjective
  <2>1. CASE i = 1 /\ j # 1
    BY <1>1, <1>4, <1>5, <1>7, <2>1
  <2>2. CASE j = 1 /\ i # 1
    BY <1>1, <1>4, <1>5, <1>7, <2>2
  <2>3. CASE i # 1 /\ j # 1
    <3>1. s[i - 1] = s[j - 1] /\ i - 1 \in DOMAIN s /\ j - 1 \in DOMAIN s
      BY <1>1, <1>4, <1>5, <2>3
    <3>2. i - 1 = j - 1
      BY <3>1 DEF IsInjective
    <3> QED
      BY <1>1, <1>4, <3>2
  <2> QED
    BY <2>1, <2>2, <2>3
<1>9. ToSet(t) \subseteq ToSet(s) \cup {d}
  <2> SUFFICES ASSUME NEW j \in DOMAIN t, t[j] # d
               PROVE  t[j] \in ToSet(s)
    BY DEF ToSet
  <2>1. j \in 2 .. n + 1
    BY <1>1, <1>4
  <2> QED
    BY <1>5, <2>1 DEF ToSet
<1>10. ToSet(s) \cup {d} \subseteq ToSet(t)
  <2>1. \A j \in DOMAIN s : s[j] \in ToSet(t)
    BY <1>1, <1>6 DEF ToSet
  <2>2. d \in ToSet(t)
    BY <1>1, <1>4 DEF ToSet
  <2> QED
    BY <2>1, <2>2 DEF ToSet
<1> QED
  BY <1>3, <1>8, <1>9, <1>10 DEF t

KeyRows(n, A) == [id : 1 .. n, app : A, revoked : BOOLEAN]

TablesOK ==
    /\ drawn \in 0 .. MaxIds
    /\ apps \in Seq(1 .. drawn) /\ IsInjective(apps)
    /\ keys \subseteq KeyRows(drawn, ToSet(apps))

LEMMA KeyRowsGrow ==
  ASSUME NEW n \in Nat, NEW m \in Nat, n <= m, NEW A, NEW B, A \subseteq B
  PROVE  KeyRows(n, A) \subseteq KeyRows(m, B)
BY DEF KeyRows

LEMMA SequencesOfMore ==
  ASSUME NEW A, NEW B, A \subseteq B
  PROVE  Seq(A) \subseteq Seq(B)
<1> SUFFICES ASSUME NEW s \in Seq(A)
             PROVE  s \in Seq(B)
  OBVIOUS
<1>1. \A i \in 1 .. Len(s) : s[i] \in B
  OBVIOUS
<1> QED
  BY <1>1

LEMMA KeyIdsAreOrdered ==
  ASSUME TablesOK, NEW S, S \subseteq IdsOf(keys)
  PROVE  LET s == OrderBy(S, LargestFirst)
         IN  s \in Seq(1 .. drawn) /\ ToSet(s) = S /\ IsInjective(s)
<1> DEFINE s == OrderBy(S, LargestFirst)
<1>1. S \subseteq 1 .. drawn /\ S \subseteq 1 .. MaxIds /\ MaxIds \in Nat
  BY AdminAssumption DEF TablesOK, IdsOf, KeyRows
<1>2. \A x, y \in 1 .. MaxIds : <<x, y>> \in LargestFirst <=> x > y
  BY DEF LargestFirst
<1>3. /\ \A x \in S : <<x, x>> \notin LargestFirst
      /\ \A x, y \in S : x # y => <<x, y>> \in LargestFirst \/ <<y, x>> \in LargestFirst
  BY <1>1, <1>2
<1>4. \A x, y, z \in S : <<x, y>> \in LargestFirst /\ <<y, z>> \in LargestFirst
                            => <<x, z>> \in LargestFirst
  BY <1>1, <1>2
<1>5. /\ s \in Seq(S) /\ Len(s) = Cardinality(S)
      /\ \A x \in S : \E i \in DOMAIN s : s[i] = x
      /\ \A i, j \in DOMAIN s : i < j => <<s[i], s[j]>> \in LargestFirst
  <2>1. IsFiniteSet(S)
    <3>1. drawn \in Nat
      BY <1>1 DEF TablesOK
    <3>2. IsFiniteSet(1 .. drawn)
      BY <3>1, FS_Interval
    <3> QED
      BY <1>1, <3>2, FS_Subset
  <2> QED
    BY <2>1, <1>3, <1>4, OrderByEnumerates
<1> HIDE DEF s
<1>6. ToSet(s) = S
  BY <1>5 DEF ToSet
<1>s. \A i \in DOMAIN s : s[i] \in S
  BY ONLY <1>5
<1>7. \A i \in DOMAIN s : s[i] \in 1 .. MaxIds
  BY ONLY <1>1, <1>s
<1>8. \A i, j \in DOMAIN s : i < j => s[i] > s[j]
  BY <1>2, <1>5, <1>7
<1>9. IsInjective(s)
  <2> SUFFICES ASSUME NEW i \in DOMAIN s, NEW j \in DOMAIN s, s[i] = s[j]
               PROVE  i = j
    BY DEF IsInjective
  <2>1. i \in Nat /\ j \in Nat /\ s[i] \in Nat
    BY <1>5, <1>7
  <2> QED
    BY <1>8, <2>1
<1>10. s \in Seq(1 .. drawn)
  <2>1. Seq(S) \subseteq Seq(1 .. drawn)
    BY ONLY <1>1, SequencesOfMore
  <2> QED
    BY <1>5, <2>1
<1> QED
  BY <1>6, <1>9, <1>10 DEF s

-----------------------------------------------------------------------------
(* The admin page and the tables, step by step *)

LEMMA RepliedAdminIsOK ==
  ASSUME NEW u \in UIStates, NEW c \in Nat, AdminPageOK(u, c, {}), NEW r \in u.flight, NEW a,
         Answers(a, r), r.kind = "newTenant" => a.rows # << >>
  PROVE  AdminPageOK(Replied(u, r, a), c, {})
<1> DEFINE v == Replied(u, r, a)
<1>1. /\ v \in UIStates /\ SameVars(u, v)
      /\ v.flight = (u.flight \ {r}) \cup {a} /\ v.panel = u.panel
  BY RepliedIs
<1> HIDE DEF v
<1>2. AdminRequest(a, c) /\ Ends(a) = Ends(r) /\ a \in v.flight
  BY <1>1 DEF AdminPageOK, AdminRequest, Answers, Ends
<1>3. ASSUME NEW p \in Panels, v.panel[p].state = "loading"
      PROVE  \E q \in v.flight : p \in Ends(q)
  <2>1. PICK q \in u.flight : p \in Ends(q)
    BY <1>1, <1>3 DEF AdminPageOK
  <2>2. CASE q = r
    BY <1>2, <2>1, <2>2
  <2>3. CASE q # r
    BY <1>1, <2>1, <2>3
  <2> QED
    BY <2>2, <2>3
<1>4. AdminPageOK(v, c, {})
  BY <1>1, <1>2, <1>3 DEF AdminPageOK
<1> QED
  BY <1>4 DEF v

LEMMA AskedPageIsOK ==
  ASSUME NEW u \in UIStates, NEW c \in Nat, NEW click \in 1 .. c, AdminPageOK(u, c, {}),
         NEW p \in Panels, NEW of \in Things \cup {None}, NEW kind \in Kinds,
         \/ kind = p /\ p \in {"newTenant", "newKey"}
         \/ kind = "revoke" /\ p = "keys"
  PROVE  AdminPageOK(Api(SetStatus(u, p, "loading"), Request(u, click, kind, of)), c, {})
<1> DEFINE b == SetStatus(u, p, "loading")
           r == Request(u, click, kind, of)
           v == Api(b, r)
<1>1. Asks(r, u, click, kind, of)
  <2>1. AsksThen(r, u, click, kind, of, None)
    BY RequestIs
  <2> QED
    BY <2>1 DEF AsksThen
<1>2. /\ b \in UIStates /\ SameVars(u, b) /\ b.flight = u.flight
      /\ Shows(b, u, p, [state |-> "loading", rows |-> u.panel[p].rows])
  BY SetStatusIs DEF PanelStates
<1> HIDE DEF b, r
<1>3. v \in UIStates /\ v.flight = b.flight \cup {r} /\ v.panel = b.panel
  BY <1>1, <1>2, ApiIs DEF Asks
<1> HIDE DEF v
<1>4. AdminRequest(r, c) /\ p \in Ends(r)
  BY <1>1 DEF Asks, AdminRequest, Ends, AdminPanels
<1>5. ASSUME NEW x \in Panels, v.panel[x].state = "loading"
      PROVE  (x \notin {} /\ u.panel[x].state = "loading") \/ \E q \in {r} : x \in Ends(q)
  BY <1>2, <1>3, <1>4, <1>5 DEF Shows
<1>6. Grows(u, v, c, {})
  BY <1>2, <1>3, <1>4, <1>5 DEF Grows
<1>7. AdminPageOK(v, c, {})
  BY <1>6, GrownPageIsOK
<1> QED
  BY <1>7 DEF v, b, r

(* What one click does. *)
AdminChoice(u, click, v) ==
    \/ \E token \in {AdminToken, None} :
          v = LoadAdmin(ClearSelectedTenantView(WithOnlyToken(u, token)), click, None)
    \/ v = LoadAdmin(u, click, None)
    \/ u.token = None /\ v = SetStatus(u, "newTenant", "error")
    \/ u.token # None /\ v = Api(SetStatus(u, "newTenant", "loading"),
                                 Request(u, click, "newTenant", None))
    \/ u.selected = None /\ v = SetStatus(u, "newKey", "error")
    \/ u.selected # None /\ v = Api(SetStatus(u, "newKey", "loading"),
                                    Request(u, click, "newKey", u.selected))
    \/ \E a \in ToSet(u.panel["list"].rows) : v = SelectTenant(u, click, a)
    \/ \E k \in u.revocable :
          v = Api(SetStatus(u, "keys", "loading"), Request(u, click, "revoke", k))

LEMMA AdminUserIs ==
  AdminUser <=> Click /\ AdminChoice(ui, clicks', ui')
BY DEF AdminUser, AdminChoice, SubmitToken, CreateTenant, CreateKey, RevokeKey, WithOnlyToken

LEMMA ClickedAdminIsOK ==
  ASSUME NEW u \in UIStates, NEW c \in Nat, NEW v, AdminPageOK(u, c, {}),
         AdminChoice(u, c + 1, v)
  PROVE  AdminPageOK(v, c + 1, {})
<1>0. c + 1 \in 1 .. c + 1 /\ c + 1 \in Nat /\ AdminPageOK(u, c + 1, {})
  BY DEF AdminPageOK, AdminRequest
<1>1. CASE \E token \in {AdminToken, None} :
              v = LoadAdmin(ClearSelectedTenantView(WithOnlyToken(u, token)), c + 1, None)
  <2> PICK token \in {AdminToken, None} :
              v = LoadAdmin(ClearSelectedTenantView(WithOnlyToken(u, token)), c + 1, None)
    BY <1>1
  <2> DEFINE a == WithOnlyToken(u, token)
             b == ClearSelectedTenantView(a)
  <2>1. a \in UIStates /\ a.flight = u.flight /\ a.panel = u.panel
    BY OnlyTokenIs DEF Tokens
  <2> HIDE DEF a
  <2>2. /\ b \in UIStates /\ b.flight = a.flight
        /\ \A q \in Panels : b.panel[q] = IF q \in Context THEN NoRows ELSE a.panel[q]
    BY <2>1, ClearTenantIs
  <2> HIDE DEF b
  <2>3. AdminPageOK(b, c + 1, {})
    BY <1>0, <2>1, <2>2, PanelStatesDiffer DEF AdminPageOK
  <2>4. AdminPageOK(LoadAdmin(b, c + 1, None), c + 1, {})
    BY <1>0, <2>2, <2>3, LoadAdminIsOK
  <2> QED
    BY <2>4 DEF a, b
<1>2. CASE v = LoadAdmin(u, c + 1, None)
  BY <1>0, <1>2, LoadAdminIsOK
<1>3. CASE v = SetStatus(u, "newTenant", "error") \/ v = SetStatus(u, "newKey", "error")
  <2>1. AdminPageOK(u, c + 1, {"newTenant"}) /\ AdminPageOK(u, c + 1, {"newKey"})
    BY <1>0 DEF AdminPageOK
  <2> QED
    BY <1>3, <2>1, AdminPanelNames, ToldPanelIsOK DEF PanelStates
<1>4. CASE v = Api(SetStatus(u, "newTenant", "loading"), Request(u, c + 1, "newTenant", None))
  <2>1. None \in Things \cup {None} /\ "newTenant" \in Kinds /\ "newTenant" \in Panels
    BY AdminPanelNames
  <2> QED
    BY <1>0, <1>4, <2>1, AskedPageIsOK
<1>5. CASE v = Api(SetStatus(u, "newKey", "loading"), Request(u, c + 1, "newKey", u.selected))
  <2>1. u.selected \in Things \cup {None} /\ "newKey" \in Kinds /\ "newKey" \in Panels
    BY AdminPanelNames DEF UIStates
  <2> QED
    BY <1>0, <1>5, <2>1, AskedPageIsOK
<1>6. CASE \E a \in ToSet(u.panel["list"].rows) : v = SelectTenant(u, c + 1, a)
  BY <1>0, <1>6, SelectTenantIsOK
<1>7. CASE \E k \in u.revocable :
              v = Api(SetStatus(u, "keys", "loading"), Request(u, c + 1, "revoke", k))
  <2> PICK k \in u.revocable :
              v = Api(SetStatus(u, "keys", "loading"), Request(u, c + 1, "revoke", k))
    BY <1>7
  <2>1. k \in Things \cup {None} /\ "revoke" \in Kinds /\ "keys" \in Panels
    BY AdminPanelNames DEF UIStates, Context
  <2> QED
    BY <1>0, <2>1, AskedPageIsOK
<1> QED
  BY <1>1, <1>2, <1>3, <1>4, <1>5, <1>6, <1>7 DEF AdminChoice

KeysAnswer(r, rows, as) == [Handled(r, rows) EXCEPT !.asOf = as]

LEMMA KeysAnswerIs ==
  ASSUME NEW r \in Requests, NEW rows \in Seq(Things), NEW as \in SUBSET Things
  PROVE  LET a == KeysAnswer(r, rows, as)
         IN  Answers(a, r) /\ a.rows = rows /\ a.asOf = as
BY DEF KeysAnswer, Handled, Requests, Answers

LEMMA UnderWayIs ==
  ASSUME NEW r, NEW a
  PROVE  AnswerIsUnderWay(r, a) <=> ui' = Replied(ui, r, a)
BY DEF AnswerIsUnderWay, Replied, WithFlight

(* What the server may answer with. *)
AdminReplies(r, a) ==
    /\ Answers(a, r)
    /\ r.kind = "list" => a.rows = apps
    /\ r.kind = "newTenant" => a.rows = <<drawn'>>
    /\ r.kind = "usage" => a.rows = <<r.of>>
    /\ r.kind = "keys" =>
          /\ ToSet(a.rows) = IdsOf(KeysOf(r.of)) /\ IsInjective(a.rows)
          /\ a.asOf = IdsOf(Unrevoked(KeysOf(r.of)))

LEMMA TablesAreThings ==
  ASSUME TablesOK
  PROVE  /\ drawn \in Nat /\ 1 .. drawn \subseteq Things /\ Seq(1 .. drawn) \subseteq Seq(Things)
         /\ ToSet(apps) \subseteq 1 .. drawn
         /\ \A A : IdsOf(KeysOf(A)) \subseteq 1 .. drawn
<1>1. drawn \in Nat /\ 1 .. drawn \subseteq 1 .. MaxIds
  BY AdminAssumption DEF TablesOK
<1>2. 1 .. drawn \subseteq Things
  BY <1>1 DEF Things
<1>3. ToSet(apps) \subseteq 1 .. drawn
  BY DEF TablesOK, ToSet
<1>4. \A A : IdsOf(KeysOf(A)) \subseteq 1 .. drawn
  BY DEF TablesOK, IdsOf, KeysOf, KeyRows
<1> QED
  BY <1>1, <1>2, <1>3, <1>4, SequencesOfMore

(* What the request does to the tables. *)
TablesChange(r) ==
    \/ r.kind \in {"list", "usage", "keys"} /\ UNCHANGED adminVars
    \/ r.kind = "newTenant" /\ DrawId /\ apps' = <<drawn'>> \o apps /\ UNCHANGED keys
    \/ /\ r.kind = "newKey" /\ r.of \in ToSet(apps) /\ DrawId
       /\ keys' = keys \cup {[id |-> drawn', app |-> r.of, revoked |-> FALSE]}
       /\ UNCHANGED apps
    \/ /\ r.kind = "revoke"
       /\ \E k \in keys : k.id = r.of /\ keys' = (keys \ {k}) \cup {[k EXCEPT !.revoked = TRUE]}
       /\ UNCHANGED <<apps, drawn>>

LEMMA AdminServerIs ==
  ASSUME TablesOK, NEW r \in Requests, AdminServer(r)
  PROVE  TablesChange(r) /\ \E a : AdminReplies(r, a) /\ ui' = Replied(ui, r, a)
<1>0. /\ drawn \in Nat /\ 1 .. drawn \subseteq Things /\ Seq(1 .. drawn) \subseteq Seq(Things)
      /\ ToSet(apps) \subseteq 1 .. drawn
  BY TablesAreThings
<1>1. CASE HandleListApps(r)
  <2> DEFINE a == Handled(r, apps)
  <2>1. apps \in Seq(Things)
    BY <1>0 DEF TablesOK
  <2>2. Answers(a, r) /\ a.rows = apps
    BY <2>1, HandledIs
  <2>3. ui' = Replied(ui, r, a) /\ r.kind = "list" /\ TablesChange(r)
    BY <1>1, UnderWayIs DEF HandleListApps, TablesChange
  <2> HIDE DEF a
  <2>4. AdminReplies(r, a)
    BY <2>2, <2>3 DEF AdminReplies
  <2> QED
    BY <2>3, <2>4
<1>2. CASE HandleCreateApp(r)
  <2> DEFINE a == Handled(r, <<drawn'>>)
  <2>1. drawn' \in 1 .. MaxIds
    BY <1>0, <1>2, AdminAssumption DEF HandleCreateApp, DrawId, TablesOK
  <2>2. <<drawn'>> \in Seq(Things)
    BY <2>1 DEF Things
  <2>3. Answers(a, r) /\ a.rows = <<drawn'>>
    BY <2>2, HandledIs
  <2>4. ui' = Replied(ui, r, a) /\ r.kind = "newTenant" /\ TablesChange(r)
    BY <1>2, UnderWayIs DEF HandleCreateApp, TablesChange
  <2> HIDE DEF a
  <2>5. AdminReplies(r, a)
    BY <2>3, <2>4 DEF AdminReplies
  <2> QED
    BY <2>4, <2>5
<1>3. CASE HandleUsage(r)
  <2> DEFINE a == Handled(r, <<r.of>>)
  <2>1. <<r.of>> \in Seq(Things)
    BY <1>0, <1>3 DEF HandleUsage
  <2>2. Answers(a, r) /\ a.rows = <<r.of>>
    BY <2>1, HandledIs
  <2>3. ui' = Replied(ui, r, a) /\ r.kind = "usage" /\ TablesChange(r)
    BY <1>3, UnderWayIs DEF HandleUsage, TablesChange
  <2> HIDE DEF a
  <2>4. AdminReplies(r, a)
    BY <2>2, <2>3 DEF AdminReplies
  <2> QED
    BY <2>3, <2>4
<1>4. CASE HandleListKeys(r)
  <2> DEFINE S == IdsOf(KeysOf(r.of))
             T == IdsOf(Unrevoked(KeysOf(r.of)))
             s == OrderBy(S, LargestFirst)
             a == KeysAnswer(r, s, T)
  <2>1. ui' = Replied(ui, r, a) /\ r.kind = "keys" /\ TablesChange(r)
    BY <1>4, UnderWayIs DEF HandleListKeys, TablesChange, KeysAnswer
  <2>2. S \subseteq IdsOf(keys) /\ T \subseteq S
    BY DEF IdsOf, KeysOf, Unrevoked
  <2>3. S \subseteq 1 .. drawn
    BY TablesAreThings
  <2>4. s \in Seq(1 .. drawn) /\ ToSet(s) = S /\ IsInjective(s)
    BY <2>2, KeyIdsAreOrdered
  <2>5. s \in Seq(Things) /\ T \in SUBSET Things
    BY <1>0, <2>2, <2>3, <2>4
  <2>6. Answers(a, r) /\ a.rows = s /\ a.asOf = T
    BY <2>5, KeysAnswerIs
  <2> HIDE DEF a, s
  <2>7. AdminReplies(r, a)
    BY <2>1, <2>4, <2>6 DEF AdminReplies
  <2> QED
    BY <2>1, <2>7
<1>5. CASE HandleCreateKey(r) \/ HandleRevokeKey(r)
  <2> DEFINE a == Handled(r, << >>)
  <2>1. << >> \in Seq(Things)
    OBVIOUS
  <2>2. \A rows \in Seq(Things) : Answers(Handled(r, rows), r)
    BY HandledIs
  <2>3. Answers(a, r)
    BY <2>1, <2>2
  <2>4. ui' = Replied(ui, r, a) /\ r.kind \in {"newKey", "revoke"} /\ TablesChange(r)
    BY <1>5, UnderWayIs DEF HandleCreateKey, HandleRevokeKey, TablesChange
  <2> HIDE DEF a
  <2>5. AdminReplies(r, a)
    BY <2>3, <2>4 DEF AdminReplies
  <2> QED
    BY <2>4, <2>5
<1> QED
  BY <1>1, <1>2, <1>3, <1>4, <1>5 DEF AdminServer

LEMMA NewIdIs ==
  ASSUME TablesOK, DrawId
  PROVE  /\ drawn \in Nat /\ drawn' = drawn + 1 /\ drawn' \in 1 .. MaxIds
         /\ apps \in Seq(1 .. drawn') /\ drawn' \notin ToSet(apps)
<1>1. drawn \in Nat /\ drawn' = drawn + 1 /\ drawn' \in 1 .. MaxIds
  BY AdminAssumption DEF TablesOK, DrawId
<1>2. 1 .. drawn \subseteq 1 .. drawn'
  BY <1>1
<1>3. Seq(1 .. drawn) \subseteq Seq(1 .. drawn')
  BY ONLY <1>2, SequencesOfMore
<1>4. drawn' \notin ToSet(apps)
  BY <1>1, TablesAreThings
<1> QED
  BY <1>1, <1>3, <1>4 DEF TablesOK

LEMMA ChangedTablesAreOK ==
  ASSUME TablesOK, NEW r, TablesChange(r)
  PROVE  TablesOK'
<1>0. drawn \in Nat /\ MaxIds \in Nat
  BY AdminAssumption DEF TablesOK
<1>1. CASE r.kind \in {"list", "usage", "keys"} /\ UNCHANGED adminVars
  BY <1>1 DEF TablesOK, adminVars
<1>2. CASE r.kind = "newTenant" /\ DrawId /\ apps' = <<drawn'>> \o apps /\ UNCHANGED keys
  <2>1. /\ drawn' = drawn + 1 /\ drawn' \in 1 .. MaxIds
        /\ apps \in Seq(1 .. drawn') /\ drawn' \notin ToSet(apps)
    BY <1>2, NewIdIs
  <2>2. drawn' \in 1 .. drawn'
    BY <1>0, <2>1
  <2>3. /\ <<drawn'>> \o apps \in Seq(1 .. drawn') /\ IsInjective(<<drawn'>> \o apps)
        /\ ToSet(<<drawn'>> \o apps) = ToSet(apps) \cup {drawn'}
    BY <2>1, <2>2, TableWith DEF TablesOK
  <2>4. KeyRows(drawn, ToSet(apps)) \subseteq KeyRows(drawn', ToSet(apps'))
    <3>1. drawn' \in Nat /\ drawn <= drawn' /\ ToSet(apps) \subseteq ToSet(apps')
      BY <1>0, <1>2, <2>1, <2>3
    <3> QED
      BY ONLY <1>0, <3>1, KeyRowsGrow
  <2>5. drawn' \in 0 .. MaxIds
    BY <1>0, <2>1
  <2> QED
    BY <1>2, <2>3, <2>4, <2>5 DEF TablesOK
<1>3. CASE /\ r.kind = "newKey" /\ r.of \in ToSet(apps) /\ DrawId
           /\ keys' = keys \cup {[id |-> drawn', app |-> r.of, revoked |-> FALSE]}
           /\ UNCHANGED apps
  <2>1. drawn' = drawn + 1 /\ drawn' \in 1 .. MaxIds /\ apps \in Seq(1 .. drawn')
    BY <1>3, NewIdIs
  <2>2. KeyRows(drawn, ToSet(apps)) \subseteq KeyRows(drawn', ToSet(apps))
    BY <1>0, <2>1, KeyRowsGrow
  <2>3. drawn' \in 1 .. drawn' /\ drawn' \in 0 .. MaxIds
    BY <1>0, <2>1
  <2>4. [id |-> drawn', app |-> r.of, revoked |-> FALSE] \in KeyRows(drawn', ToSet(apps))
    BY <1>3, <2>3 DEF KeyRows
  <2>5. keys' \subseteq KeyRows(drawn', ToSet(apps))
    BY <1>3, <2>2, <2>4 DEF TablesOK
  <2> QED
    BY <1>3, <2>1, <2>3, <2>5 DEF TablesOK
<1>4. CASE /\ r.kind = "revoke"
           /\ \E k \in keys : /\ k.id = r.of
                              /\ keys' = (keys \ {k}) \cup {[k EXCEPT !.revoked = TRUE]}
           /\ UNCHANGED <<apps, drawn>>
  <2>1. PICK k \in keys : keys' = (keys \ {k}) \cup {[k EXCEPT !.revoked = TRUE]}
    BY <1>4
  <2>2. k \in KeyRows(drawn, ToSet(apps))
    BY DEF TablesOK
  <2>3. [k EXCEPT !.revoked = TRUE] \in KeyRows(drawn, ToSet(apps))
    BY <2>2 DEF KeyRows
  <2>4. keys' \subseteq KeyRows(drawn, ToSet(apps))
    BY <2>1, <2>3 DEF TablesOK
  <2> QED
    BY <1>4, <2>4 DEF TablesOK
<1> QED
  BY <1>1, <1>2, <1>3, <1>4 DEF TablesChange

LEMMA DeletedAppIs ==
  ASSUME TablesOK, NEW a, DeleteApp(a)
  PROVE  /\ TablesOK' /\ UNCHANGED <<drawn, pageVars>>
         /\ ToSet(apps)' = ToSet(apps) \ {a} /\ keys' = keys \ KeysOf(a)
<1>1. PICK i \in DOMAIN apps : apps[i] = a /\ apps' = RemoveAt(apps, i)
  BY DEF DeleteApp
<1>2. apps \in Seq(1 .. drawn) /\ IsInjective(apps)
  BY DEF TablesOK
<1>3. /\ RemoveAt(apps, i) \in Seq(1 .. drawn) /\ IsInjective(RemoveAt(apps, i))
      /\ ToSet(RemoveAt(apps, i)) = ToSet(apps) \ {apps[i]}
  BY <1>2, TableWithout
<1>4. /\ keys' = keys \ KeysOf(a) /\ UNCHANGED <<drawn, pageVars>>
      /\ ToSet(apps') = ToSet(apps) \ {a}
  BY <1>1, <1>3 DEF DeleteApp
<1>5. keys' \subseteq KeyRows(drawn, ToSet(apps'))
  <2> SUFFICES ASSUME NEW k \in keys', k \in keys, k \notin KeysOf(a)
               PROVE  k \in KeyRows(drawn, ToSet(apps'))
    BY <1>4
  <2>1. k \in KeyRows(drawn, ToSet(apps)) /\ k.app # a
    BY DEF TablesOK, KeysOf
  <2> QED
    BY <1>4, <2>1 DEF KeyRows
<1> QED
  BY <1>1, <1>3, <1>4, <1>5 DEF TablesOK

-----------------------------------------------------------------------------
(* The invariant of both pages *)

(* What the server may answer to a request for a page of the history.      *)
ListReplies(r, a) ==
    /\ Answers(a, r) /\ a.asOf = accepted
    /\ a.rows \in Seq(Messages) /\ a.more \in Messages \cup {None}
    /\ \A i \in DOMAIN a.rows : a.rows[i] \in Matching(r.token, r.of)
    /\ \A i, j \in DOMAIN a.rows : i < j => Newer(a.rows[i], a.rows[j])
    /\ a.more # None => a.rows # << >> /\ a.more = a.rows[Len(a.rows)]
    /\ \A m \in Matching(r.token, r.of) :
          a.more = None \/ ~Newer(a.more, m) => \E i \in DOMAIN a.rows : a.rows[i] = m

LEMMA HandleListIs ==
  ASSUME IsFiniteSet(accepted), accepted \subseteq Messages, NEW r \in Requests, HandleList(r)
  PROVE  /\ r.kind = "list" /\ \E a : ListReplies(r, a) /\ ui' = Replied(ui, r, a)
         /\ UNCHANGED <<page, patient, clicks, accepted>>
<1> DEFINE l == ListMessages(r.token, r.of)
           a == ListAnswer(r, l)
<1>1. /\ r.kind = "list" /\ ui' = Replied(ui, r, a)
      /\ UNCHANGED <<page, patient, clicks, accepted>>
  BY UnderWayIs DEF HandleList, ListAnswer
<1>2. /\ l.data \in Seq(Messages) /\ l.nextCursor \in Messages \cup {None}
      /\ \A i \in DOMAIN l.data : l.data[i] \in Matching(r.token, r.of)
      /\ \A i, j \in DOMAIN l.data : i < j => Newer(l.data[i], l.data[j])
      /\ l.nextCursor # None => l.data # << >> /\ l.nextCursor = l.data[Len(l.data)]
      /\ \A m \in Matching(r.token, r.of) :
            l.nextCursor = None \/ ~Newer(l.nextCursor, m) => \E i \in DOMAIN l.data : l.data[i] = m
  BY ListMessagesIs
<1> HIDE DEF l
<1>3. Messages \subseteq Things
  BY DEF Things
<1>4. Seq(Messages) \subseteq Seq(Things)
  BY ONLY <1>3, SequencesOfMore
<1>5. Answers(a, r) /\ a.rows = l.data /\ a.more = l.nextCursor /\ a.asOf = accepted
  <2>1. /\ l.data \in Seq(Things) /\ l.nextCursor \in Things \cup {None}
        /\ accepted \subseteq Things
    BY <1>2, <1>3, <1>4
  <2> QED
    BY <2>1, ListAnswerIs
<1> HIDE DEF a
<1>6. ListReplies(r, a)
  BY <1>2, <1>5 DEF ListReplies
<1> QED
  BY <1>1, <1>6

LEMMA TenantAnswerIs ==
  ASSUME NEW r, ListArrives(r) \/ ReadArrives(r) \/ TenantRequestFails(r)
  PROVE  TenantAnswered(ui, r, ui')
BY DEF ListArrives, ReadArrives, TenantRequestFails, TenantAnswered

LEMMA AdminAnswerIs ==
  ASSUME NEW r, r.kind \in {"usage", "list", "keys", "newTenant", "newKey", "revoke"},
         AdminAnswerArrives(r) \/ AdminRequestFails(r)
  PROVE  AdminAnswered(ui, r, ui')
BY DEF AdminAnswerArrives, AdminRequestFails, AdminAnswered

Bound == IF patient THEN MaxClicks ELSE MaxHastyClicks

(* The inductive invariant behind the type of the pages and PanelsSettle.  *)
PageOK ==
    /\ page \in Pages /\ patient \in BOOLEAN /\ clicks \in 0 .. Bound
    /\ ui \in UIStates /\ accepted \subseteq Messages /\ IsFiniteSet(accepted)
    /\ TablesOK
    /\ page = "tenant" => TenantPageOK(ui, clicks)
    /\ page = "admin" => AdminPageOK(ui, clicks, {})

LEMMA BlankPageIs ==
  /\ BlankPage \in UIStates /\ BlankPage.token = None /\ BlankPage.flight = {}
  /\ BlankPage.list = << >> /\ BlankPage.selected = None /\ BlankPage.revocable = {}
  /\ BlankPage.cursor = None /\ BlankPage.loadMore = FALSE /\ BlankPage.since = {}
  /\ \A p \in Panels : BlankPage.panel[p] = NoRows
<1>1. << >> \in Seq(Things) /\ NoRows \in PanelContents /\ None \in Tokens
  BY PanelNames DEF Tokens
<1>2. [p \in Panels |-> NoRows] \in [Panels -> PanelContents]
  BY <1>1
<1> QED
  BY <1>1, <1>2 DEF BlankPage, UIStates

LEMMA FirstPageIsOK == DashboardInit => PageOK
<1> SUFFICES ASSUME DashboardInit
             PROVE  PageOK
  OBVIOUS
<1>1. /\ ui = BlankPage /\ page \in Pages /\ patient \in BOOLEAN /\ clicks = 0
      /\ accepted = {} /\ apps = << >> /\ keys = {} /\ drawn = 0
  BY DEF DashboardInit, Init
<1>2. 0 \in 0 .. Bound /\ 0 \in 0 .. MaxIds
  BY PageAssumption, AdminAssumption DEF Bound
<1>3. IsFiniteSet(accepted) /\ accepted \subseteq Messages
  BY <1>1, FS_EmptySet
<1>4. TablesOK
  <2>1. << >> \in Seq(1 .. 0) /\ IsInjective(<< >>)
    BY DEF IsInjective
  <2> QED
    BY <1>1, <1>2, <2>1 DEF TablesOK
<1>5. TenantPageOK(ui, clicks)
  BY <1>1, BlankPageIs, PanelStatesDiffer DEF TenantPageOK, TenantLoads
<1>6. AdminPageOK(ui, clicks, {})
  BY <1>1, BlankPageIs, PanelStatesDiffer DEF AdminPageOK
<1> QED
  BY <1>1, <1>2, <1>3, <1>4, <1>5, <1>6, BlankPageIs DEF PageOK

LEMMA ClickIs ==
  ASSUME PageOK, Click
  PROVE  /\ clicks \in Nat /\ clicks' = clicks + 1 /\ clicks' \in 0 .. Bound'
         /\ UNCHANGED <<page, patient>> /\ (patient => ui.flight = {})
<1>1. clicks \in Nat /\ Bound \in Nat
  BY PageAssumption DEF PageOK, Bound
<1>2. /\ clicks < Bound /\ clicks' = clicks + 1 /\ UNCHANGED <<page, patient>>
      /\ patient => ui.flight = {}
  BY DEF Click, Bound
<1>3. Bound' = Bound
  BY <1>2 DEF Bound
<1> QED
  BY <1>1, <1>2, <1>3

LEMMA TenantStepIsOK ==
  ASSUME PageOK, page = "tenant", TenantPageStep, UNCHANGED adminVars
  PROVE  PageOK'
<1>0. /\ page \in Pages /\ patient \in BOOLEAN /\ clicks \in 0 .. Bound /\ clicks \in Nat
      /\ ui \in UIStates /\ accepted \subseteq Messages /\ IsFiniteSet(accepted)
      /\ TablesOK /\ TenantPageOK(ui, clicks)
  BY PageAssumption DEF PageOK, Bound
<1>1. TablesOK'
  BY <1>0 DEF TablesOK, adminVars
<1>2. CASE TenantUser /\ UNCHANGED accepted
  <2>1. Click /\ TenantChoice(ui, clicks', ui')
    BY <1>2, TenantUserIs
  <2>2. clicks' = clicks + 1 /\ clicks' \in 0 .. Bound' /\ UNCHANGED <<page, patient>>
    BY <2>1, ClickIs
  <2>3. TenantPageOK(ui', clicks')
    BY <1>0, <2>1, <2>2, ClickedPageIsOK
  <2>4. ui' \in UIStates
    BY <2>3 DEF TenantPageOK
  <2> QED
    BY <1>0, <1>1, <1>2, <2>2, <2>3, <2>4 DEF PageOK
<1>3. CASE /\ \E r \in ui.flight : ListArrives(r) \/ ReadArrives(r) \/ TenantRequestFails(r)
           /\ UNCHANGED <<page, patient, clicks, accepted>>
  <2>1. PICK r \in ui.flight : ListArrives(r) \/ ReadArrives(r) \/ TenantRequestFails(r)
    BY <1>3
  <2>2. TenantAnswered(ui, r, ui')
    BY <2>1, TenantAnswerIs
  <2>3. TenantPageOK(ui', clicks)
    BY <1>0, <2>2, AnsweredPageIsOK
  <2>4. ui' \in UIStates
    BY <2>3 DEF TenantPageOK
  <2> QED
    BY <1>0, <1>1, <1>3, <2>3, <2>4 DEF PageOK, Bound
<1>4. CASE \E r \in ui.flight : HandleList(r)
  <2>1. PICK r \in ui.flight : HandleList(r)
    BY <1>4
  <2>2. r \in Requests
    BY <1>0 DEF UIStates
  <2>3. /\ r.kind = "list" /\ \E a : ListReplies(r, a) /\ ui' = Replied(ui, r, a)
        /\ UNCHANGED <<page, patient, clicks, accepted>>
    BY <1>0, <2>1, <2>2, HandleListIs
  <2>4. PICK a : Answers(a, r) /\ ui' = Replied(ui, r, a)
    BY <2>3 DEF ListReplies
  <2>5. TenantPageOK(ui', clicks)
    BY <1>0, <2>3, <2>4, RepliedPageIsOK
  <2>6. ui' \in UIStates
    BY <2>5 DEF TenantPageOK
  <2> QED
    BY <1>0, <1>1, <2>3, <2>5, <2>6 DEF PageOK, Bound
<1>5. CASE \E m \in Messages : Accept(m)
  <2>1. PICK m \in Messages : Accept(m)
    BY <1>5
  <2>2. accepted' = accepted \cup {m} /\ UNCHANGED <<page, patient, ui, clicks>>
    BY <2>1 DEF Accept, pageVars
  <2>3. IsFiniteSet(accepted') /\ accepted' \subseteq Messages
    BY <1>0, <2>2, FS_AddElement
  <2> QED
    BY <1>0, <1>1, <2>2, <2>3 DEF PageOK, Bound
<1> QED
  BY <1>2, <1>3, <1>4, <1>5 DEF TenantPageStep

LEMMA AdminStepIsOK ==
  ASSUME PageOK, page = "admin", AdminPageStep, UNCHANGED accepted
  PROVE  PageOK'
<1>0. /\ page \in Pages /\ patient \in BOOLEAN /\ clicks \in 0 .. Bound /\ clicks \in Nat
      /\ ui \in UIStates /\ accepted \subseteq Messages /\ IsFiniteSet(accepted)
      /\ TablesOK /\ AdminPageOK(ui, clicks, {})
  BY PageAssumption DEF PageOK, Bound
<1>1. CASE AdminUser /\ UNCHANGED adminVars
  <2>1. Click /\ AdminChoice(ui, clicks', ui')
    BY <1>1, AdminUserIs
  <2>2. clicks' = clicks + 1 /\ clicks' \in 0 .. Bound' /\ UNCHANGED <<page, patient>>
    BY <2>1, ClickIs
  <2>3. AdminPageOK(ui', clicks', {})
    BY <1>0, <2>1, <2>2, ClickedAdminIsOK
  <2>4. ui' \in UIStates /\ TablesOK'
    BY <1>0, <1>1, <2>3 DEF AdminPageOK, TablesOK, adminVars
  <2> QED
    BY <1>0, <2>2, <2>3, <2>4 DEF PageOK
<1>2. CASE \E r \in ui.flight : AdminServer(r)
  <2>1. PICK r \in ui.flight : AdminServer(r)
    BY <1>2
  <2>2. r \in Requests
    BY <1>0 DEF UIStates
  <2>3. TablesChange(r) /\ \E a : AdminReplies(r, a) /\ ui' = Replied(ui, r, a)
    BY <1>0, <2>1, <2>2, AdminServerIs
  <2>4. PICK a : AdminReplies(r, a) /\ ui' = Replied(ui, r, a)
    BY <2>3
  <2>5. Answers(a, r) /\ (r.kind = "newTenant" => a.rows # << >>)
    <3>1. <<drawn'>> # << >>
      OBVIOUS
    <3> QED
      BY <2>4, <3>1 DEF AdminReplies
  <2>6. AdminPageOK(ui', clicks, {})
    BY <1>0, <2>4, <2>5, RepliedAdminIsOK
  <2>7. TablesOK' /\ ui' \in UIStates /\ UNCHANGED <<page, patient, clicks>>
    BY <1>0, <2>1, <2>3, <2>6, ChangedTablesAreOK DEF AdminPageOK, AdminServer
  <2> QED
    BY <1>0, <2>6, <2>7 DEF PageOK, Bound
<1>3. CASE /\ \E r \in ui.flight : AdminAnswerArrives(r) \/ AdminRequestFails(r)
           /\ UNCHANGED <<page, patient, clicks, adminVars>>
  <2>1. PICK r \in ui.flight : AdminAnswerArrives(r) \/ AdminRequestFails(r)
    BY <1>3
  <2>2. r.kind \in {"usage", "list", "keys", "newTenant", "newKey", "revoke"}
    BY <1>0 DEF AdminPageOK, AdminRequest, AdminPanels
  <2>3. AdminAnswered(ui, r, ui')
    BY <2>1, <2>2, AdminAnswerIs
  <2>4. AdminPageOK(ui', clicks, {})
    BY <1>0, <2>3, AnsweredAdminIsOK
  <2>5. ui' \in UIStates /\ TablesOK'
    BY <1>0, <1>3, <2>4 DEF AdminPageOK, TablesOK, adminVars
  <2> QED
    BY <1>0, <1>3, <2>4, <2>5 DEF PageOK, Bound
<1>4. CASE \E a \in ToSet(apps) : DeleteApp(a)
  <2>1. PICK a \in ToSet(apps) : DeleteApp(a)
    BY <1>4
  <2>2. TablesOK' /\ UNCHANGED <<page, patient, ui, clicks>>
    BY <1>0, <2>1, DeletedAppIs DEF pageVars
  <2> QED
    BY <1>0, <2>2 DEF PageOK, Bound
<1> QED
  BY <1>1, <1>2, <1>3, <1>4 DEF AdminPageStep

(* PageOK is inductive: no step of a user, of the server or of an answer   *)
(* takes either page out of its shape, or leaves a panel loading whose     *)
(* request is gone.                                                        *)
THEOREM PagesInductive == Spec => []PageOK
<1>1. DashboardInit => PageOK
  BY FirstPageIsOK
<1>2. PageOK /\ [Next]_vars => PageOK'
  <2> SUFFICES ASSUME PageOK, [Next]_vars
               PROVE  PageOK'
    OBVIOUS
  <2>1. CASE page = "tenant" /\ TenantPageStep /\ UNCHANGED adminVars
    BY <2>1, TenantStepIsOK
  <2>2. CASE page = "admin" /\ AdminPageStep /\ UNCHANGED accepted
    BY <2>2, AdminStepIsOK
  <2>3. CASE UNCHANGED vars
    BY <2>3 DEF PageOK, Bound, TablesOK, vars, pageVars, adminVars
  <2> QED
    BY <2>1, <2>2, <2>3 DEF Next
<1> QED
  BY <1>1, <1>2, PTL DEF Spec

(* The pages, their requests and the tables keep their shape (TypeOK).     *)
THEOREM TypeCorrect == Spec => []TypeOK
<1>1. PageOK => TypeOK
  <2> SUFFICES ASSUME PageOK
               PROVE  TypeOK
    OBVIOUS
  <2>1. page = "tenant" \/ page = "admin"
    BY PageAssumption DEF PageOK
  <2>2. \A r \in ui.flight : r.click \in 1 .. clicks
    BY <2>1 DEF PageOK, TenantPageOK, TenantRequest, AdminPageOK, AdminRequest
  <2> QED
    BY <2>2 DEF PageOK, TypeOK, TablesOK, Bound, KeyRows
<1> QED
  BY <1>1, PagesInductive, PTL

(* When nothing is under way, no panel says that something is              *)
(* (PanelsSettle): finally and Promise.all of the two scripts tell every   *)
(* panel the end of its load, in whatever order the answers come.          *)
THEOREM PanelsAlwaysSettle == Spec => []PanelsSettle
<1>1. PageOK => PanelsSettle
  <2> SUFFICES ASSUME PageOK, Idle, NEW p \in Panels, StateOf(p) = "loading"
               PROVE  FALSE
    BY DEF PanelsSettle
  <2>1. page = "tenant" \/ page = "admin"
    BY PageAssumption DEF PageOK
  <2>2. ui.flight = {} /\ ui.panel[p].state = "loading"
    BY DEF Idle, StateOf
  <2> QED
    BY <2>1, <2>2 DEF PageOK, TenantPageOK, TenantLoads, AdminPageOK
<1> QED
  BY <1>1, PagesInductive, PTL

-----------------------------------------------------------------------------
(* What a patient tenant sees *)

OneEach(F) == \A q, r \in F : q.kind = r.kind => q = r

(* The request for a page starts where the list ends, and its answer is    *)
(* the part of the tenant's history that follows; A is what was accepted.  *)
AnswerTrue(r, u, A) ==
    /\ r.rows \in Seq(Messages) /\ r.more \in Messages \cup {None}
    /\ \A i \in DOMAIN r.rows : TenantOf[r.rows[i]] = u.token /\ IsAfter(r.rows[i], r.of)
    /\ Ordered(r.rows)
    /\ r.more # None => r.rows # << >> /\ r.more = r.rows[Len(r.rows)]
    /\ \A m \in r.asOf :
          TenantOf[m] = u.token /\ IsAfter(m, r.of) /\ (r.more = None \/ ~Newer(r.more, m))
          => \E i \in DOMAIN r.rows : r.rows[i] = m
    /\ r.asOf \subseteq A /\ (~r.reset => u.since \subseteq r.asOf)

PageRequestTrue(r, u, A) ==
    /\ r.reset => u.list = << >> /\ u.cursor = None /\ r.of = None
    /\ ~r.reset => r.of = u.cursor /\ u.cursor # None
    /\ r.handled => AnswerTrue(r, u, A)

(* A request is about what is on the page now. *)
TenantRequestTrue(r, u, A) ==
    /\ r.kind \in {"deliveries", "attempts"} => r.of = u.selected
    /\ r.kind \in {"usage", "endpoints"} => r.of = u.token
    /\ r.kind = "list" => PageRequestTrue(r, u, A)

RowsTrue(u) ==
    /\ \A p \in {"usage", "endpoints"} : ToSet(u.panel[p].rows) \subseteq {u.token}
    /\ \A p \in {"deliveries", "attempts"} : ToSet(u.panel[p].rows) \subseteq {u.selected}

ListTrue(u) ==
    /\ u.panel["list"].rows = u.list
    /\ u.list \in Seq(Messages) /\ u.cursor \in Messages \cup {None}
    /\ \A i \in DOMAIN u.list : TenantOf[u.list[i]] = u.token
    /\ Ordered(u.list)
    /\ u.cursor # None => u.list # << >> /\ u.cursor = u.list[Len(u.list)]
    /\ u.loadMore => u.cursor # None
    /\ u.panel["list"].state = "success" => u.loadMore = (u.cursor # None)

(* Nothing is missing from the part of the history that is shown, unless   *)
(* there is none yet, or no more.                                          *)
Complete(u) ==
    \A m \in u.since :
        TenantOf[m] = u.token /\ (u.cursor = None \/ ~Newer(u.cursor, m))
        => \E i \in DOMAIN u.list : u.list[i] = m
CoverTrue(u) ==
    \/ u.list = << >> /\ (u.panel["list"].state = "error"
                          \/ \E r \in u.flight : r.kind = "list" /\ r.reset)
    \/ Complete(u)

TenantTrue(u, c, A) ==
    /\ \A r \in u.flight : r.click = c /\ r.token = u.token /\ (r.handled => u.token # None)
    /\ OneEach(u.flight) /\ u.since \subseteq A
    /\ u.token # None =>
          /\ \A r \in u.flight : TenantRequestTrue(r, u, A)
          /\ RowsTrue(u) /\ ListTrue(u) /\ CoverTrue(u)

LEMMA TenantPanelNames ==
  /\ {"usage", "endpoints", "list", "deliveries", "attempts"} \subseteq Panels
  /\ "auth" \notin {"usage", "endpoints", "list", "deliveries", "attempts"}
BY DEF Panels, TenantPanels

(* Only what loadTenant waits for, and says of it, may change.             *)
AuthOnly(x, v) ==
    /\ v \in UIStates /\ SameVars(x, v)
    /\ \A q \in Panels \ {"auth"} : v.panel[q] = x.panel[q]
    /\ \A w \in v.flight : \E q \in x.flight : SameRequest(q, w)
    /\ \A q \in x.flight : \E w \in v.flight : SameRequest(q, w)
    /\ OneEach(x.flight) => OneEach(v.flight)

LEMMA ResolvedIsAuthOnly ==
  ASSUME NEW x \in UIStates, NEW r
  PROVE  AuthOnly(x, Resolved(x, r))
<1> DEFINE v == Resolved(x, r)
<1>1. /\ v \in UIStates /\ SameVars(x, v) /\ v.flight = x.flight
      /\ \A q \in Panels \ {"auth"} : v.panel[q] = x.panel[q]
  BY ResolvedIs
<1> HIDE DEF v
<1>2. \A q : SameRequest(q, q)
  BY DEF SameRequest
<1>3. AuthOnly(x, v)
  BY <1>1, <1>2 DEF AuthOnly
<1> QED
  BY <1>3 DEF v

LEMMA RejectedIsAuthOnly ==
  ASSUME NEW x \in UIStates, NEW r, r.joint \in BOOLEAN
  PROVE  AuthOnly(x, Rejected(x, r))
<1> DEFINE v == Rejected(x, r)
<1>1. RejectedTo(x, r, v)
  BY RejectedIs
<1> HIDE DEF v
<1>2. CASE ~r.joint
  <2>1. \A q : SameRequest(q, q)
    BY DEF SameRequest
  <2>2. v.flight = x.flight
    BY <1>1, <1>2 DEF RejectedTo
  <2>3. v \in UIStates /\ SameVars(x, v) /\ \A q \in Panels \ {"auth"} : v.panel[q] = x.panel[q]
    BY <1>1 DEF RejectedTo
  <2>4. AuthOnly(x, v)
    BY <2>1, <2>2, <2>3 DEF AuthOnly
  <2> QED
    BY <2>4 DEF v
<1>3. CASE r.joint
  <2>1. /\ \A q \in x.flight : Unjoined(x, r, q) \in v.flight
        /\ \A w \in v.flight : \E q \in x.flight : w = Unjoined(x, r, q)
        /\ \A q \in x.flight : SameRequest(q, Unjoined(x, r, q))
    BY <1>1, <1>3 DEF RejectedTo
  <2>2. v \in UIStates /\ SameVars(x, v) /\ \A q \in Panels \ {"auth"} : v.panel[q] = x.panel[q]
    BY <1>1 DEF RejectedTo
  <2>3. OneEach(x.flight) => OneEach(v.flight)
    <3> SUFFICES ASSUME OneEach(x.flight), NEW w1 \in v.flight, NEW w2 \in v.flight,
                        w1.kind = w2.kind
                 PROVE  w1 = w2
      BY DEF OneEach
    <3>1. PICK q1 \in x.flight : w1 = Unjoined(x, r, q1)
      BY <2>1
    <3>2. PICK q2 \in x.flight : w2 = Unjoined(x, r, q2)
      BY <2>1
    <3>3. q1.kind = q2.kind
      BY <2>1, <3>1, <3>2 DEF SameRequest
    <3> QED
      BY <3>1, <3>2, <3>3 DEF OneEach
  <2>4. /\ \A w \in v.flight : \E q \in x.flight : SameRequest(q, w)
        /\ \A q \in x.flight : \E w \in v.flight : SameRequest(q, w)
    BY <2>1
  <2>5. AuthOnly(x, v)
    BY <2>2, <2>3, <2>4 DEF AuthOnly
  <2> QED
    BY <2>5 DEF v
<1> QED
  BY <1>2, <1>3

LEMMA SameRequestIsTrue ==
  ASSUME NEW u, NEW v, SameVars(u, v), NEW q, NEW w, SameRequest(q, w), NEW A,
         TenantRequestTrue(q, u, A)
  PROVE  TenantRequestTrue(w, v, A)
<1>1. q.handled /\ q.kind = "list" => AnswerTrue(w, v, A)
  BY DEF TenantRequestTrue, PageRequestTrue, AnswerTrue, SameRequest, SameVars
<1> QED
  BY <1>1 DEF TenantRequestTrue, PageRequestTrue, SameRequest, SameVars

LEMMA AuthOnlyIsTrue ==
  ASSUME NEW x, NEW v, AuthOnly(x, v), NEW c, NEW A, TenantTrue(x, c, A)
  PROVE  TenantTrue(v, c, A)
<1>1. SameVars(x, v) /\ \A w \in v.flight : \E q \in x.flight : SameRequest(q, w)
  BY DEF AuthOnly
<1>2. \A w \in v.flight : w.click = c /\ w.token = v.token /\ (w.handled => v.token # None)
  BY <1>1 DEF TenantTrue, SameVars, SameRequest
<1>3. OneEach(v.flight) /\ v.since \subseteq A
  BY DEF TenantTrue, AuthOnly, SameVars
<1>4. ASSUME v.token # None
      PROVE  /\ \A w \in v.flight : TenantRequestTrue(w, v, A)
             /\ RowsTrue(v) /\ ListTrue(v) /\ CoverTrue(v)
  <2>1. /\ \A r \in x.flight : TenantRequestTrue(r, x, A)
        /\ RowsTrue(x) /\ ListTrue(x) /\ CoverTrue(x)
    BY <1>1, <1>4 DEF TenantTrue, SameVars
  <2>2. \A w \in v.flight : TenantRequestTrue(w, v, A)
    BY <1>1, <2>1, SameRequestIsTrue
  <2>3. \A p \in {"usage", "endpoints", "list", "deliveries", "attempts"} : v.panel[p] = x.panel[p]
    BY TenantPanelNames DEF AuthOnly
  <2>4. RowsTrue(v) /\ ListTrue(v)
    BY <1>1, <2>1, <2>3 DEF RowsTrue, ListTrue, SameVars
  <2>5. (\E r \in x.flight : r.kind = "list" /\ r.reset)
           => \E r \in v.flight : r.kind = "list" /\ r.reset
    BY DEF AuthOnly, SameRequest
  <2>6. Complete(x) => Complete(v)
    BY <1>1 DEF Complete, SameVars
  <2>7. CoverTrue(v)
    BY <1>1, <2>1, <2>3, <2>5, <2>6 DEF CoverTrue, SameVars
  <2> QED
    BY <2>2, <2>4, <2>7
<1> QED
  BY <1>2, <1>3, <1>4 DEF TenantTrue

(* A page that follows the list, appended to it. *)
LEMMA PagesJoin ==
  ASSUME NEW s \in Seq(Messages), NEW t \in Seq(Messages), Ordered(s), Ordered(t), s # << >>,
         \A j \in DOMAIN t : Newer(s[Len(s)], t[j])
  PROVE  /\ s \o t \in Seq(Messages) /\ Ordered(s \o t) /\ s \o t # << >>
         /\ \A i \in DOMAIN (s \o t) : (\E j \in DOMAIN s : (s \o t)[i] = s[j])
                                       \/ \E j \in DOMAIN t : (s \o t)[i] = t[j]
         /\ \A j \in DOMAIN s : \E i \in DOMAIN (s \o t) : (s \o t)[i] = s[j]
         /\ \A j \in DOMAIN t : \E i \in DOMAIN (s \o t) : (s \o t)[i] = t[j]
         /\ t # << >> => (s \o t)[Len(s \o t)] = t[Len(t)]
<1> DEFINE w == s \o t
           m == Len(s)
           n == Len(t)
<1>1. m \in Nat /\ n \in Nat /\ DOMAIN s = 1 .. m /\ DOMAIN t = 1 .. n /\ m >= 1
  OBVIOUS
<1>2. /\ w \in Seq(Messages) /\ Len(w) = m + n
      /\ \A i \in 1 .. m + n : w[i] = IF i <= m THEN s[i] ELSE t[i - m]
  BY ConcatProperties
<1>n. (t # << >> => n >= 1)
  OBVIOUS
<1> HIDE DEF w, m, n
<1>3. DOMAIN w = 1 .. m + n
  BY <1>1, <1>2
<1>4. \A i \in 1 .. m : i \in DOMAIN w /\ w[i] = s[i]
  BY <1>1, <1>2, <1>3
<1>5. \A j \in 1 .. n : j + m \in DOMAIN w /\ w[j + m] = t[j]
  <2> SUFFICES ASSUME NEW j \in 1 .. n
               PROVE  j + m \in DOMAIN w /\ w[j + m] = t[j]
    OBVIOUS
  <2>1. j + m \in 1 .. m + n /\ ~(j + m <= m) /\ (j + m) - m = j
    BY <1>1
  <2> QED
    BY <1>2, <1>3, <2>1
<1>6. \A i \in DOMAIN w : i > m => i - m \in 1 .. n /\ w[i] = t[i - m]
  BY <1>1, <1>2, <1>3
<1>7. \A i \in 1 .. m : s[i] \in Messages
  BY <1>1
<1>8. \A i \in 1 .. n : t[i] \in Messages
  BY <1>1
<1>9. \A i \in 1 .. m, j \in 1 .. n : Newer(s[i], t[j])
  <2> SUFFICES ASSUME NEW i \in 1 .. m, NEW j \in 1 .. n
               PROVE  Newer(s[i], t[j])
    OBVIOUS
  <2>1. Newer(s[m], t[j]) /\ m \in 1 .. m
    BY <1>1 DEF m
  <2>2. i = m \/ Newer(s[i], s[m])
    BY <1>1, <2>1 DEF Ordered
  <2> QED
    BY <1>7, <1>8, <2>1, <2>2, NewerIsTotal
<1>10. Ordered(w)
  <2> SUFFICES ASSUME NEW i \in DOMAIN w, NEW j \in DOMAIN w, i < j
               PROVE  Newer(w[i], w[j])
    BY DEF Ordered
  <2>0. i \in 1 .. m + n /\ j \in 1 .. m + n
    BY <1>3
  <2>1. CASE j <= m
    <3>1. i \in 1 .. m /\ j \in 1 .. m
      BY <1>1, <2>0, <2>1
    <3> QED
      BY <1>1, <1>4, <3>1 DEF Ordered
  <2>2. CASE i > m
    <3>1. /\ i - m \in 1 .. n /\ j - m \in 1 .. n /\ i - m < j - m
          /\ w[i] = t[i - m] /\ w[j] = t[j - m]
      BY <1>1, <1>6, <2>0, <2>2
    <3> QED
      BY <1>1, <3>1 DEF Ordered
  <2>3. CASE i <= m /\ j > m
    <3>1. i \in 1 .. m /\ j - m \in 1 .. n /\ w[i] = s[i] /\ w[j] = t[j - m]
      BY <1>1, <1>4, <1>6, <2>0, <2>3
    <3> QED
      BY <1>9, <3>1
  <2> QED
    BY <1>1, <2>0, <2>1, <2>2, <2>3
<1>11. \A i \in DOMAIN w : (\E j \in DOMAIN s : w[i] = s[j]) \/ \E j \in DOMAIN t : w[i] = t[j]
  <2> SUFFICES ASSUME NEW i \in DOMAIN w
               PROVE  (\E j \in DOMAIN s : w[i] = s[j]) \/ \E j \in DOMAIN t : w[i] = t[j]
    OBVIOUS
  <2>1. i \in 1 .. m \/ i > m
    BY <1>1, <1>3
  <2> QED
    BY <1>1, <1>4, <1>6, <2>1
<1>12. t # << >> => w[Len(w)] = t[n]
  <2> SUFFICES ASSUME t # << >>
               PROVE  w[Len(w)] = t[n]
    OBVIOUS
  <2>1. n \in 1 .. n /\ Len(w) = n + m
    BY <1>1, <1>2, <1>n
  <2> QED
    BY <1>5, <2>1
<1>13. w # << >>
  <2>1. 1 \in DOMAIN w
    BY <1>1, <1>3
  <2> QED
    BY <2>1
<1>14. /\ \A j \in DOMAIN s : \E i \in DOMAIN w : w[i] = s[j]
       /\ \A j \in DOMAIN t : \E i \in DOMAIN w : w[i] = t[j]
  BY <1>1, <1>4, <1>5
<1> QED
  BY <1>2, <1>10, <1>11, <1>12, <1>13, <1>14 DEF w, n

(* Without r, whose panel shows something else now, and nothing changed    *)
(* but, for r a page of the history, the list.                             *)
LEMMA OtherRequestsAreTrue ==
  ASSUME NEW u, NEW x, NEW c, NEW A, TenantTrue(u, c, A), NEW r \in u.flight,
         x.flight = u.flight \ {r}, x.token = u.token, x.selected = u.selected,
         \/ r.kind = "list"
         \/ x.list = u.list /\ x.cursor = u.cursor /\ x.since = u.since
  PROVE  /\ \A q \in x.flight : q.click = c /\ q.token = x.token /\ (q.handled => x.token # None)
         /\ OneEach(x.flight)
         /\ x.token # None => \A q \in x.flight : TenantRequestTrue(q, x, A)
<1>1. \A q \in x.flight : q \in u.flight /\ q.kind # r.kind
  BY DEF TenantTrue, OneEach
<1>2. /\ \A q \in x.flight : q.click = c /\ q.token = x.token /\ (q.handled => x.token # None)
      /\ OneEach(x.flight)
  BY <1>1 DEF TenantTrue, OneEach
<1>3. ASSUME x.token # None, NEW q \in x.flight
      PROVE  TenantRequestTrue(q, x, A)
  <2>1. TenantRequestTrue(q, u, A) /\ q.kind # r.kind
    BY <1>1, <1>3 DEF TenantTrue
  <2>2. CASE r.kind = "list"
    BY <2>1, <2>2 DEF TenantRequestTrue
  <2>3. CASE x.list = u.list /\ x.cursor = u.cursor /\ x.since = u.since
    <3>1. PageRequestTrue(q, u, A) => PageRequestTrue(q, x, A)
      BY <2>3 DEF PageRequestTrue, AnswerTrue
    <3> QED
      BY <2>1, <3>1 DEF TenantRequestTrue
  <2> QED
    BY <2>2, <2>3
<1> QED
  BY <1>2, <1>3

(* r's panel is told an error, or shows what it asked for.                 *)
LEMMA ReadIsTrue ==
  ASSUME NEW u \in UIStates, NEW x \in UIStates, NEW c, NEW A, TenantTrue(u, c, A),
         NEW r \in u.flight, r.kind \in TenantPanels \ {"auth"},
         Told(u, r, x), SameVars(u, x),
         r.kind = "list" => x.panel["list"].state = "error",
         \A i \in DOMAIN x.panel[r.kind].rows :
            \/ \E j \in DOMAIN u.panel[r.kind].rows :
                  x.panel[r.kind].rows[i] = u.panel[r.kind].rows[j]
            \/ r.kind # "list" /\ x.panel[r.kind].rows[i] = r.of,
         r.kind = "list" => x.panel[r.kind].rows = u.panel[r.kind].rows
  PROVE  TenantTrue(x, c, A)
<1>1. /\ x.flight = u.flight \ {r} /\ \A q \in Panels \ {r.kind} : x.panel[q] = u.panel[q]
      /\ x.token = u.token /\ x.selected = u.selected /\ x.list = u.list
      /\ x.cursor = u.cursor /\ x.since = u.since /\ x.loadMore = u.loadMore
  BY DEF Told, SameVars
<1>2. /\ \A q \in x.flight : q.click = c /\ q.token = x.token /\ (q.handled => x.token # None)
      /\ OneEach(x.flight)
      /\ x.token # None => \A q \in x.flight : TenantRequestTrue(q, x, A)
  BY <1>1, OtherRequestsAreTrue
<1>3. x.since \subseteq A
  BY <1>1 DEF TenantTrue
<1>4. ASSUME x.token # None
      PROVE  RowsTrue(x) /\ ListTrue(x) /\ CoverTrue(x)
  <2>1. TenantRequestTrue(r, u, A) /\ RowsTrue(u) /\ ListTrue(u) /\ CoverTrue(u)
    BY <1>1, <1>4 DEF TenantTrue
  <2>2. ASSUME NEW p \in {"usage", "endpoints", "deliveries", "attempts"}, NEW g,
               ToSet(u.panel[p].rows) \subseteq {g}, p = r.kind => r.of = g
        PROVE  ToSet(x.panel[p].rows) \subseteq {g}
    <3>1. CASE p = r.kind
      <4>1. \A i \in DOMAIN x.panel[p].rows :
               \/ \E j \in DOMAIN u.panel[p].rows : x.panel[p].rows[i] = u.panel[p].rows[j]
               \/ x.panel[p].rows[i] = g
        BY <2>2, <3>1
      <4>2. \A j \in DOMAIN u.panel[p].rows : u.panel[p].rows[j] = g
        BY <2>2 DEF ToSet
      <4> QED
        BY <4>1, <4>2 DEF ToSet
    <3>2. CASE p # r.kind
      BY <1>1, <2>2, <3>2, TenantPanelNames
    <3> QED
      BY <3>1, <3>2
  <2>3. RowsTrue(x)
    BY <1>1, <2>1, <2>2 DEF RowsTrue, TenantRequestTrue
  <2>4. /\ x.panel["list"].rows = u.panel["list"].rows
        /\ x.panel["list"].state = u.panel["list"].state \/ x.panel["list"].state = "error"
    BY <1>1, TenantPanelNames
  <2>5. ListTrue(x)
    BY <1>1, <2>1, <2>4 DEF ListTrue
  <2>6. Complete(u) => Complete(x)
    BY <1>1 DEF Complete
  <2>7. CoverTrue(x)
    <3>1. CASE Complete(u)
      BY <2>6, <3>1 DEF CoverTrue
    <3>2. CASE u.list = << >> /\ u.panel["list"].state = "error"
      BY <1>1, <2>4, <3>2 DEF CoverTrue
    <3>3. CASE u.list = << >> /\ \E q \in u.flight : q.kind = "list" /\ q.reset
      <4>1. PICK q \in u.flight : q.kind = "list" /\ q.reset
        BY <3>3
      <4>2. CASE q = r
        BY <1>1, <3>3, <4>1, <4>2 DEF CoverTrue
      <4>3. CASE q # r
        BY <1>1, <3>3, <4>1, <4>3 DEF CoverTrue
      <4> QED
        BY <4>2, <4>3
    <3> QED
      BY <2>1, <3>1, <3>2, <3>3 DEF CoverTrue
  <2> QED
    BY <2>3, <2>5, <2>7
<1> QED
  BY <1>1, <1>2, <1>3, <1>4 DEF TenantTrue

LEMMA JoinedRows ==
  ASSUME NEW s \in Seq(Things), NEW t \in Seq(Things)
  PROVE  \A i \in DOMAIN (s \o t) : (\E j \in DOMAIN s : (s \o t)[i] = s[j])
                                    \/ \E j \in DOMAIN t : (s \o t)[i] = t[j]
<1>1. /\ Len(s) \in Nat /\ Len(t) \in Nat
      /\ DOMAIN s = 1 .. Len(s) /\ DOMAIN t = 1 .. Len(t)
  OBVIOUS
<1>2. /\ DOMAIN (s \o t) = 1 .. Len(s) + Len(t)
      /\ \A i \in 1 .. Len(s) + Len(t) :
            (s \o t)[i] = IF i <= Len(s) THEN s[i] ELSE t[i - Len(s)]
  BY ConcatProperties
<1> SUFFICES ASSUME NEW i \in DOMAIN (s \o t)
             PROVE  \/ \E j \in DOMAIN s : (s \o t)[i] = s[j]
                    \/ \E j \in DOMAIN t : (s \o t)[i] = t[j]
  OBVIOUS
<1>3. CASE i <= Len(s)
  <2>1. i \in DOMAIN s /\ (s \o t)[i] = s[i]
    BY <1>1, <1>2, <1>3
  <2> QED
    BY <2>1
<1>4. CASE ~(i <= Len(s))
  <2>1. i - Len(s) \in DOMAIN t /\ (s \o t)[i] = t[i - Len(s)]
    BY <1>1, <1>2, <1>4
  <2> QED
    BY <2>1
<1> QED
  BY <1>3, <1>4

(* The page of the history that answers r is shown.                        *)
LEMMA MessagesAreTrue ==
  ASSUME NEW u \in UIStates, NEW x \in UIStates, NEW c, NEW A, A \subseteq Messages,
         TenantTrue(u, c, A), NEW r \in u.flight, r.kind = "list", r.handled,
         x.flight = u.flight \ {r}, x.token = u.token, x.selected = u.selected,
         x.list = (IF r.reset THEN r.rows ELSE u.list \o r.rows),
         x.cursor = r.more, x.since = (IF r.reset THEN r.asOf ELSE u.since),
         x.loadMore = (x.list # << >> /\ x.cursor # None),
         Shows(x, u, "list", ListOf(x))
  PROVE  TenantTrue(x, c, A)
<1>1. /\ \A q \in x.flight : q.click = c /\ q.token = x.token /\ (q.handled => x.token # None)
      /\ OneEach(x.flight)
      /\ x.token # None => \A q \in x.flight : TenantRequestTrue(q, x, A)
  BY OtherRequestsAreTrue
<1>2. /\ u.token # None /\ RowsTrue(u) /\ ListTrue(u) /\ CoverTrue(u) /\ u.since \subseteq A
      /\ \A q \in u.flight : q.kind = "list" => q = r
      /\ PageRequestTrue(r, u, A)
  BY DEF TenantTrue, TenantRequestTrue, OneEach
<1>3. AnswerTrue(r, u, A)
  BY <1>2 DEF PageRequestTrue
<1>4. x.since \subseteq A
  BY <1>2, <1>3 DEF AnswerTrue
<1>5. RowsTrue(x)
  BY <1>2, TenantPanelNames DEF RowsTrue, Shows
<1>6. /\ x.panel["list"].rows = x.list
      /\ x.panel["list"].state = "success" => x.list # << >>
  <2>1. x.panel["list"] = ListOf(x)
    BY TenantPanelNames DEF Shows
  <2> QED
    BY <2>1 DEF ListOf
<1>7. CASE r.reset
  <2>1. x.list = r.rows /\ x.since = r.asOf /\ r.of = None
    BY <1>2, <1>7 DEF PageRequestTrue
  <2>2. ListTrue(x)
    BY <1>3, <1>6, <2>1 DEF ListTrue, AnswerTrue
  <2>3. Complete(x)
    <3> SUFFICES ASSUME NEW m \in x.since, TenantOf[m] = x.token,
                        x.cursor = None \/ ~Newer(x.cursor, m)
                 PROVE  \E i \in DOMAIN x.list : x.list[i] = m
      BY DEF Complete
    <3>1. \A n \in r.asOf :
             TenantOf[n] = u.token /\ IsAfter(n, r.of) /\ (r.more = None \/ ~Newer(r.more, n))
             => \E i \in DOMAIN r.rows : r.rows[i] = n
      BY <1>3 DEF AnswerTrue
    <3>2. IsAfter(m, r.of)
      BY <2>1 DEF IsAfter
    <3>3. m \in r.asOf /\ TenantOf[m] = u.token /\ (r.more = None \/ ~Newer(r.more, m))
      BY <2>1
    <3>4. \E i \in DOMAIN r.rows : r.rows[i] = m
      BY <3>1, <3>2, <3>3
    <3> QED
      BY ONLY <2>1, <3>4
  <2> QED
    BY <1>1, <1>4, <1>5, <2>2, <2>3 DEF TenantTrue, CoverTrue
<1>8. CASE ~r.reset
  <2> DEFINE s == u.list
             t == r.rows
  <2>1. x.list = s \o t /\ x.since = u.since /\ r.of = u.cursor /\ u.cursor # None
    BY <1>2, <1>8 DEF PageRequestTrue
  <2>2. s \in Seq(Messages) /\ Ordered(s) /\ s # << >> /\ u.cursor = s[Len(s)]
        /\ u.cursor \in Messages /\ \A i \in DOMAIN s : TenantOf[s[i]] = u.token
    BY <1>2, <2>1 DEF ListTrue
  <2>3. /\ t \in Seq(Messages) /\ Ordered(t)
        /\ \A i \in DOMAIN t : TenantOf[t[i]] = u.token /\ Newer(u.cursor, t[i])
    BY <1>3, <2>1 DEF AnswerTrue, IsAfter
  <2> HIDE DEF s, t
  <2>4. /\ s \o t \in Seq(Messages) /\ Ordered(s \o t) /\ s \o t # << >>
        /\ \A i \in DOMAIN (s \o t) : (\E j \in DOMAIN s : (s \o t)[i] = s[j])
                                      \/ \E j \in DOMAIN t : (s \o t)[i] = t[j]
        /\ \A j \in DOMAIN s : \E i \in DOMAIN (s \o t) : (s \o t)[i] = s[j]
        /\ \A j \in DOMAIN t : \E i \in DOMAIN (s \o t) : (s \o t)[i] = t[j]
        /\ t # << >> => (s \o t)[Len(s \o t)] = t[Len(t)]
    BY <2>2, <2>3, PagesJoin
  <2>5. \A i \in DOMAIN x.list : TenantOf[x.list[i]] = x.token
    <3> SUFFICES ASSUME NEW i \in DOMAIN (s \o t)
                 PROVE  TenantOf[(s \o t)[i]] = u.token
      BY <2>1
    <3>1. CASE \E j \in DOMAIN s : (s \o t)[i] = s[j]
      <4> PICK j \in DOMAIN s : (s \o t)[i] = s[j]
        BY <3>1
      <4>1. TenantOf[s[j]] = u.token
        BY <2>2
      <4> QED
        BY ONLY <4>1, (s \o t)[i] = s[j]
    <3>2. CASE \E j \in DOMAIN t : (s \o t)[i] = t[j]
      <4> PICK j \in DOMAIN t : (s \o t)[i] = t[j]
        BY <3>2
      <4>1. TenantOf[t[j]] = u.token
        BY <2>3
      <4> QED
        BY ONLY <4>1, (s \o t)[i] = t[j]
    <3> QED
      BY <2>4, <3>1, <3>2
  <2>6. /\ x.cursor \in Messages \cup {None}
        /\ x.cursor # None => t # << >> /\ x.cursor = t[Len(t)]
    BY <1>3 DEF AnswerTrue, t
  <2>7. ListTrue(x)
    <3>1. x.cursor # None => x.list # << >> /\ x.cursor = x.list[Len(x.list)]
      BY <2>1, <2>4, <2>6
    <3>2. x.list \in Seq(Messages) /\ Ordered(x.list)
      BY <2>1, <2>4
    <3> QED
      BY <1>6, <2>5, <2>6, <3>1, <3>2 DEF ListTrue
  <2>8. Complete(x)
    <3> SUFFICES ASSUME NEW m \in x.since, TenantOf[m] = x.token,
                        x.cursor = None \/ ~Newer(x.cursor, m)
                 PROVE  \E i \in DOMAIN x.list : x.list[i] = m
      BY DEF Complete
    <3>1. CASE Newer(u.cursor, m)
      <4>1. m \in r.asOf /\ IsAfter(m, r.of)
        BY <1>3, <1>8, <2>1, <3>1 DEF AnswerTrue, IsAfter
      <4>2. \E j \in DOMAIN t : t[j] = m
        BY <1>3, <4>1 DEF AnswerTrue, t
      <4>3. PICK j \in DOMAIN t : t[j] = m
        BY <4>2
      <4>4. \E i \in DOMAIN (s \o t) : (s \o t)[i] = t[j]
        BY <2>4
      <4> QED
        BY ONLY <2>1, <4>3, <4>4
    <3>2. CASE ~Newer(u.cursor, m)
      <4>1. Complete(u)
        BY <1>2, <2>2 DEF CoverTrue, s
      <4>2. \E j \in DOMAIN s : s[j] = m
        BY <2>1, <3>2, <4>1 DEF Complete, s
      <4>3. PICK j \in DOMAIN s : s[j] = m
        BY <4>2
      <4>4. \E i \in DOMAIN (s \o t) : (s \o t)[i] = s[j]
        BY <2>4
      <4> QED
        BY ONLY <2>1, <4>3, <4>4
    <3> QED
      BY <3>1, <3>2
  <2> QED
    BY <1>1, <1>4, <1>5, <2>7, <2>8 DEF TenantTrue, CoverTrue
<1> QED
  BY <1>7, <1>8

LEMMA AnsweredTenantIsTrue ==
  ASSUME NEW u \in UIStates, NEW c \in Nat, NEW v, TenantPageOK(u, c), NEW r \in u.flight,
         TenantAnswered(u, r, v), NEW A, A \subseteq Messages, TenantTrue(u, c, A)
  PROVE  TenantTrue(v, c, A)
<1>0. /\ r \in Requests /\ r.kind \in Panels /\ r.kind \in TenantPanels \ {"auth"}
      /\ r.kind # "list" => r.of \in Things
      /\ r.joint \in BOOLEAN
  BY PanelNames DEF UIStates, TenantPageOK, TenantRequest, Requests
<1>1. CASE /\ r.kind = "list" /\ r.handled
           /\ v = Resolved(MessagesLoaded(Arrived(u, r), r), r)
  <2> DEFINE x == MessagesLoaded(Arrived(u, r), r)
  <2>1. /\ x \in UIStates /\ Told(u, r, x)
        /\ x.token = u.token /\ x.selected = u.selected
        /\ x.list = (IF r.reset THEN r.rows ELSE u.list \o r.rows)
        /\ x.cursor = r.more /\ x.since = (IF r.reset THEN r.asOf ELSE u.since)
        /\ x.loadMore = (x.list # << >> /\ x.cursor # None)
        /\ Shows(x, u, "list", ListOf(x))
    BY <1>1, MessagesAreShown
  <2> HIDE DEF x
  <2>2. x.flight = u.flight \ {r}
    BY <2>1 DEF Told
  <2>3. TenantTrue(x, c, A)
    BY <1>1, <2>1, <2>2, MessagesAreTrue
  <2>4. TenantTrue(Resolved(x, r), c, A)
    BY <2>1, <2>3, ResolvedIsAuthOnly, AuthOnlyIsTrue
  <2> QED
    BY <1>1, <2>4 DEF x
<1>2. CASE /\ r.kind # "list"
           /\ \E rows \in Found(r) : v = Resolved(Loaded(Arrived(u, r), r, rows), r)
  <2> PICK rows \in Found(r) : v = Resolved(Loaded(Arrived(u, r), r, rows), r)
    BY <1>2
  <2> DEFINE x == Loaded(Arrived(u, r), r, rows)
             old == u.panel[r.kind].rows
             new == IF r.kind = "usage" THEN rows ELSE old \o rows
             content == [state |-> IF rows = << >> THEN "empty" ELSE "success", rows |-> new]
  <2>r. rows \in Seq(Things) /\ ToSet(rows) \subseteq {r.of}
    BY <1>0, <1>2, FoundIs
  <2>1. rows \in Seq(Things) /\ \A i \in DOMAIN rows : rows[i] = r.of
    BY <2>r DEF ToSet
  <2>2. /\ x \in UIStates /\ Told(u, r, x) /\ SameVars(u, x)
        /\ Shows(x, u, r.kind, content)
    BY <1>0, <2>1, AnswerIsShown
  <2>c. content.rows = new
    OBVIOUS
  <2> HIDE DEF x, content
  <2>3. x.panel[r.kind].rows = new
    BY ONLY <1>0, <2>2, <2>c DEF Shows
  <2>4. old \in Seq(Things)
    BY <1>0, PanelIs
  <2>5. \A i \in DOMAIN (old \o rows) :
           (\E j \in DOMAIN old : (old \o rows)[i] = old[j]) \/ (old \o rows)[i] = r.of
    <3> HIDE DEF old
    <3>1. \A i \in DOMAIN (old \o rows) :
             \/ \E j \in DOMAIN old : (old \o rows)[i] = old[j]
             \/ \E j \in DOMAIN rows : (old \o rows)[i] = rows[j]
      BY ONLY <2>1, <2>4, JoinedRows
    <3> QED
      BY <2>1, <3>1
  <2>6. \A i \in DOMAIN new : (\E j \in DOMAIN old : new[i] = old[j]) \/ new[i] = r.of
    BY <2>1, <2>5
  <2> HIDE DEF new
  <2>7. TenantTrue(x, c, A)
    BY <1>0, <1>2, <2>2, <2>3, <2>6, ReadIsTrue
  <2>8. TenantTrue(Resolved(x, r), c, A)
    BY <2>2, <2>7, ResolvedIsAuthOnly, AuthOnlyIsTrue
  <2> QED
    BY <2>8 DEF x
<1>3. CASE \/ v = Rejected(SetStatus(Arrived(u, r), r.kind, "error"), r)
           \/ v = Resolved(SetStatus(Arrived(u, r), r.kind, "error"), r)
  <2> DEFINE x == SetStatus(Arrived(u, r), r.kind, "error")
  <2>1. /\ x \in UIStates /\ Told(u, r, x) /\ SameVars(u, x)
        /\ Shows(x, u, r.kind, [state |-> "error", rows |-> u.panel[r.kind].rows])
    BY <1>0, FailedIs
  <2> HIDE DEF x
  <2>2. x.panel[r.kind].state = "error" /\ x.panel[r.kind].rows = u.panel[r.kind].rows
    BY <1>0, <2>1 DEF Shows
  <2>3. TenantTrue(x, c, A)
    BY <1>0, <2>1, <2>2, ReadIsTrue
  <2>4. TenantTrue(Resolved(x, r), c, A) /\ TenantTrue(Rejected(x, r), c, A)
    BY <1>0, <2>1, <2>3, ResolvedIsAuthOnly, RejectedIsAuthOnly, AuthOnlyIsTrue
  <2> QED
    BY <1>3, <2>4 DEF x
<1> QED
  BY <1>1, <1>2, <1>3 DEF TenantAnswered

(* Everything is loaded, for the tenant whose key was typed last.          *)
LEMMA LoadingTenantIsTrue ==
  ASSUME NEW u \in UIStates, NEW click \in Nat, u.flight = {}, u.token \in Keys,
         u.token # None, NEW A, u.since \subseteq A,
         \A p \in {"deliveries", "attempts"} : ToSet(u.panel[p].rows) \subseteq {u.selected}
  PROVE  TenantTrue(LoadTenant(u, click), click, A)
<1> DEFINE v == LoadTenant(u, click)
<1>1. TenantIsLoading(u, click, v)
  BY LoadTenantIs
<1> HIDE DEF v
<1>2. PICK N : /\ v.flight = u.flight \cup N
               /\ TenantAsked(N, v, click)
               /\ \A r \in N : r.joint /\ (r.kind = "list" => r.reset)
               /\ \A k \in LoadedTogether(u) : \E r \in N : r.kind = k
  BY <1>1 DEF TenantIsLoading
<1>3. v.flight = N
  BY <1>2
<1>4. /\ v.token = u.token /\ v.selected = u.selected /\ v.list = << >> /\ v.cursor = None
      /\ v.loadMore = FALSE /\ v.since = u.since
      /\ \A p \in {"usage", "endpoints", "list"} : v.panel[p] = Loading
      /\ \A p \in {"deliveries", "attempts"} : v.panel[p] = Loading \/ v.panel[p] = u.panel[p]
  BY <1>1, TenantPanelNames DEF TenantIsLoading, LoadedTogether
<1>5. /\ \A r \in v.flight : r.click = click /\ r.token = v.token /\ (r.handled => v.token # None)
      /\ OneEach(v.flight)
  BY <1>2, <1>3 DEF TenantAsked, OneEach
<1>6. \A r \in v.flight : TenantRequestTrue(r, v, A)
  <2> SUFFICES ASSUME NEW r \in N
               PROVE  TenantRequestTrue(r, v, A)
    BY <1>3
  <2>1. /\ r.handled = FALSE
        /\ r.kind \in {"usage", "endpoints"} => r.of = v.token
        /\ r.kind \in {"deliveries", "attempts"} => r.of = v.selected
        /\ r.kind = "list" => r.of = v.cursor /\ r.reset
    BY <1>2 DEF TenantAsked
  <2> QED
    BY <1>4, <2>1 DEF TenantRequestTrue, PageRequestTrue
<1>7. ToSet(Loading.rows) = {}
  BY DEF Loading, ToSet
<1>8. RowsTrue(v)
  BY <1>4, <1>7 DEF RowsTrue
<1>9. ListTrue(v)
  <2>1. v.panel["list"].rows = << >> /\ v.panel["list"].state = "loading"
    BY <1>4, PanelStatesDiffer
  <2>2. << >> \in Seq(Messages) /\ Ordered(<< >>)
    BY DEF Ordered
  <2> QED
    BY <1>4, <2>1, <2>2 DEF ListTrue
<1>10. CoverTrue(v)
  <2>1. PICK r \in N : r.kind = "list"
    BY <1>2 DEF LoadedTogether
  <2> QED
    BY <1>2, <1>3, <1>4, <2>1 DEF CoverTrue
<1>11. TenantTrue(v, click, A)
  BY <1>4, <1>5, <1>6, <1>8, <1>9, <1>10 DEF TenantTrue
<1> QED
  BY <1>11 DEF v

(* A page without a key asks for nothing that is answered.                 *)
LEMMA StrangerIsTrue ==
  ASSUME NEW v, v.token = None, NEW c, NEW A, v.since \subseteq A, NEW N, v.flight = N,
         \A r \in N : r.click = c /\ r.token = v.token /\ r.handled = FALSE,
         \A q, r \in N : q.kind = r.kind => q = r
  PROVE  TenantTrue(v, c, A)
BY DEF TenantTrue, OneEach

LEMMA MoreIsTrue ==
  ASSUME NEW u \in UIStates, NEW c, NEW click, NEW v, NEW A, u.flight = {}, TenantTrue(u, c, A),
         u.loadMore, MessagesAsked(u, click, FALSE, v)
  PROVE  TenantTrue(v, click, A)
<1>1. PICK r : /\ v.flight = u.flight \cup {r}
               /\ Asks(r, u, click, "list", v.cursor)
               /\ r.joint = FALSE /\ r.reset = FALSE /\ r.then = None
  BY DEF MessagesAsked
<1>2. /\ v.flight = {r} /\ r.click = click /\ r.kind = "list" /\ r.token = v.token
      /\ r.of = v.cursor /\ r.handled = FALSE /\ ~r.reset
  BY <1>1 DEF Asks, MessagesAsked
<1>3. /\ v.token = u.token /\ v.selected = u.selected /\ v.list = u.list
      /\ v.cursor = u.cursor /\ v.loadMore = FALSE /\ v.since = u.since
      /\ \A p \in {"usage", "endpoints", "deliveries", "attempts"} : v.panel[p] = u.panel[p]
      /\ v.panel["list"].rows = u.panel["list"].rows /\ v.panel["list"].state = "loading"
  BY TenantPanelNames DEF MessagesAsked, Shows
<1>4. u.since \subseteq A
  BY DEF TenantTrue
<1>5. CASE v.token = None
  <2>1. \A q \in {r} : q.click = click /\ q.token = v.token /\ q.handled = FALSE
    BY <1>2
  <2>2. v.since \subseteq A
    BY <1>3, <1>4
  <2>3. v.flight = {r}
    BY <1>2
  <2>4. \A q, s \in {r} : q.kind = s.kind => q = s
    OBVIOUS
  <2> QED
    BY ONLY <1>5, <2>1, <2>2, <2>3, <2>4, StrangerIsTrue
<1>6. CASE v.token # None
  <2>1. RowsTrue(u) /\ ListTrue(u) /\ CoverTrue(u)
    BY <1>3, <1>6 DEF TenantTrue
  <2>2. u.cursor # None /\ u.list # << >>
    BY <2>1 DEF ListTrue
  <2>3. TenantRequestTrue(r, v, A)
    BY <1>2, <1>3, <2>2 DEF TenantRequestTrue, PageRequestTrue
  <2>4. RowsTrue(v)
    BY <1>3, <2>1 DEF RowsTrue
  <2>5. ListTrue(v)
    BY <1>3, <2>1 DEF ListTrue
  <2>6. Complete(u)
    BY <2>1, <2>2 DEF CoverTrue
  <2>7. Complete(v)
    BY <1>3, <2>6 DEF Complete
  <2>8. OneEach(v.flight)
    BY <1>2 DEF OneEach
  <2> QED
    BY <1>2, <1>3, <1>4, <2>3, <2>4, <2>5, <2>7, <2>8 DEF TenantTrue, CoverTrue
<1> QED
  BY <1>5, <1>6

LEMMA InspectedIsTrue ==
  ASSUME NEW u \in UIStates, NEW c, NEW click, NEW v, NEW A, u.flight = {}, TenantTrue(u, c, A),
         NEW m, m \in ToSet(u.panel["list"].rows), MessageIsSelected(u, click, m, v)
  PROVE  TenantTrue(v, click, A)
<1>1. PICK N : /\ v.flight = u.flight \cup N
               /\ TenantAsked(N, v, click)
               /\ \A r \in N : ~r.joint /\ r.kind # "list"
  BY DEF MessageIsSelected
<1>2. /\ v.token = u.token /\ v.selected = m /\ v.list = u.list
      /\ v.cursor = u.cursor /\ v.since = u.since
      /\ v.loadMore = (u.list # << >> /\ u.cursor # None)
      /\ \A p \in {"usage", "endpoints"} : v.panel[p] = u.panel[p]
      /\ \A p \in {"deliveries", "attempts"} : v.panel[p] = Loading
      /\ v.panel["list"] = ListOf(u)
  BY TenantPanelNames DEF MessageIsSelected
<1>3. /\ v.flight = N
      /\ \A r \in N : r.click = click /\ r.token = v.token /\ r.handled = FALSE
      /\ \A q, r \in N : q.kind = r.kind => q = r
      /\ \A r \in N : /\ r.kind \in {"usage", "endpoints"} => r.of = v.token
                      /\ r.kind \in {"deliveries", "attempts"} => r.of = v.selected
                      /\ r.kind # "list"
  BY <1>1 DEF TenantAsked
<1>4. u.since \subseteq A
  BY DEF TenantTrue
<1>5. CASE v.token = None
  BY <1>2, <1>3, <1>4, <1>5, StrangerIsTrue
<1>6. CASE v.token # None
  <2>1. RowsTrue(u) /\ ListTrue(u) /\ CoverTrue(u)
    BY <1>2, <1>6 DEF TenantTrue
  <2>2. u.list # << >>
    <3>1. u.panel["list"].rows = u.list
      BY <2>1 DEF ListTrue
    <3> QED
      BY <3>1 DEF ToSet
  <2>3. \A r \in N : TenantRequestTrue(r, v, A)
    BY <1>3 DEF TenantRequestTrue
  <2>4. ToSet(Loading.rows) = {}
    BY DEF Loading, ToSet
  <2>5. RowsTrue(v)
    BY <1>2, <2>1, <2>4 DEF RowsTrue
  <2>6. v.panel["list"].rows = v.list
    BY <1>2, PanelStatesDiffer
  <2>7. ListTrue(v)
    BY <1>2, <2>1, <2>2, <2>6 DEF ListTrue
  <2>8. Complete(u)
    BY <2>1, <2>2 DEF CoverTrue
  <2>9. Complete(v)
    BY <1>2, <2>8 DEF Complete
  <2>10. OneEach(v.flight)
    BY <1>3 DEF OneEach
  <2> QED
    BY <1>2, <1>3, <1>4, <2>3, <2>5, <2>7, <2>9, <2>10 DEF TenantTrue, CoverTrue
<1> QED
  BY <1>5, <1>6

LEMMA ClickedTenantIsTrue ==
  ASSUME NEW u \in UIStates, NEW c \in Nat, NEW v, TenantPageOK(u, c), u.flight = {},
         TenantChoice(u, c + 1, v), NEW A, TenantTrue(u, c, A)
  PROVE  TenantTrue(v, c + 1, A)
<1>0. c + 1 \in Nat /\ u.since \subseteq A
  BY DEF TenantTrue
<1>1. ASSUME NEW x \in UIStates, x.flight = {}, x.since \subseteq A, x.token \in Keys \cup {None},
             x.token # None =>
                \A p \in {"deliveries", "attempts"} : ToSet(x.panel[p].rows) \subseteq {x.selected}
      PROVE  TenantTrue(LoadTenant(x, c + 1), c + 1, A)
  <2>1. CASE x.token = None
    <3> DEFINE w == LoadTenant(x, c + 1)
    <3>1. w = SetStatus(x, "auth", "error")
      BY <2>1 DEF LoadTenant
    <3> HIDE DEF w
    <3>2. w \in UIStates /\ SameVars(x, w) /\ w.flight = x.flight
      BY <3>1, PanelNames, SetStatusIs DEF PanelStates, TenantPanels
    <3>3. TenantTrue(w, c + 1, A)
      BY <1>1, <2>1, <3>2 DEF SameVars, TenantTrue, OneEach
    <3> QED
      BY <3>3 DEF w
  <2>2. CASE x.token # None
    BY <1>0, <1>1, <2>2, LoadingTenantIsTrue
  <2> QED
    BY <2>1, <2>2
<1>2. CASE \E key \in Keys \cup {None} :
              v = LoadTenant(ClearSelectedMessage(WithToken(u, key, << >>, None)), c + 1)
  <2> PICK key \in Keys \cup {None} :
              v = LoadTenant(ClearSelectedMessage(WithToken(u, key, << >>, None)), c + 1)
    BY <1>2
  <2> DEFINE a == WithToken(u, key, << >>, None)
             b == ClearSelectedMessage(a)
  <2>1. a \in UIStates /\ a.flight = u.flight /\ a.token = key /\ a.since = u.since
    <3>1. key \in Tokens /\ << >> \in Seq(Things) /\ None \in Things \cup {None}
      BY DEF Tokens
    <3>2. \A rows \in Seq(Things) :
             LET x == WithToken(u, key, rows, None)
             IN  x \in UIStates /\ x.flight = u.flight /\ x.token = key /\ x.since = u.since
      BY <3>1, TokenIs
    <3> QED
      BY <3>1, <3>2
  <2> HIDE DEF a
  <2>2. /\ b \in UIStates /\ b.token = a.token /\ b.flight = a.flight /\ b.since = a.since
        /\ \A q \in {"deliveries", "attempts"} : b.panel[q] = NoRows
    BY <2>1, ClearSelectedMessageIs, TenantPanelNames
  <2> HIDE DEF b
  <2>3. ToSet(NoRows.rows) = {}
    BY DEF NoRows, ToSet
  <2>4. TenantTrue(LoadTenant(b, c + 1), c + 1, A)
    BY <1>0, <1>1, <2>1, <2>2, <2>3
  <2> QED
    BY <2>4 DEF a, b
<1>3. CASE v = LoadTenant(u, c + 1)
  <2>1. u.token # None => RowsTrue(u)
    BY DEF TenantTrue
  <2> QED
    BY <1>0, <1>1, <1>3, <2>1 DEF RowsTrue, TenantPageOK
<1>4. CASE u.loadMore /\ v = LoadMessages(u, c + 1, FALSE)
  BY <1>0, <1>4, LoadMessagesIs, MoreIsTrue
<1>5. CASE \E m \in Messages : m \in ToSet(u.panel["list"].rows) /\ v = SelectMessage(u, c + 1, m)
  <2> PICK m \in Messages : m \in ToSet(u.panel["list"].rows) /\ v = SelectMessage(u, c + 1, m)
    BY <1>5
  <2>1. m \in Things /\ m # None
    BY TenantAssumption DEF Things
  <2>2. c + 1 \in Nat /\ u \in UIStates
    BY <1>0
  <2>3. MessageIsSelected(u, c + 1, m, v)
    BY <2>1, <2>2, SelectMessageIs
  <2> QED
    BY <1>0, <2>2, <2>3, InspectedIsTrue
<1> QED
  BY <1>2, <1>3, <1>4, <1>5 DEF TenantChoice

LEMMA AdminStepStays ==
  ASSUME AdminPageStep
  PROVE  UNCHANGED <<page, patient>>
BY DEF AdminPageStep, AdminUser, Click, AdminServer, DeleteApp, pageVars

(* The server answers with what it has of the tenant.                      *)
LEMMA RepliedTenantIsTrue ==
  ASSUME NEW u \in UIStates, NEW c, TenantTrue(u, c, accepted), NEW r \in u.flight,
         r.kind = "list", r.token # None, NEW a, ListReplies(r, a)
  PROVE  TenantTrue(Replied(u, r, a), c, accepted)
<1> DEFINE v == Replied(u, r, a)
<1>0. Answers(a, r)
  BY DEF ListReplies
<1>1. /\ SameVars(u, v) /\ v.flight = (u.flight \ {r}) \cup {a} /\ v.panel = u.panel
  BY <1>0, RepliedIs
<1> HIDE DEF v
<1>2. r.click = c /\ r.token = u.token /\ u.token # None /\ v.token = u.token
  BY <1>1 DEF TenantTrue, SameVars
<1>3. \A q \in v.flight : q.click = c /\ q.token = v.token /\ (q.handled => v.token # None)
  BY <1>0, <1>1, <1>2 DEF TenantTrue, Answers
<1>4. OneEach(v.flight)
  BY <1>0, <1>1 DEF TenantTrue, OneEach, Answers
<1>5. /\ \A q \in u.flight : TenantRequestTrue(q, u, accepted)
      /\ RowsTrue(u) /\ ListTrue(u) /\ CoverTrue(u) /\ u.since \subseteq accepted
  BY <1>2 DEF TenantTrue
<1>6. \A q \in u.flight : TenantRequestTrue(q, v, accepted)
  <2>1. \A q : SameRequest(q, q)
    BY DEF SameRequest
  <2> QED
    BY <1>1, <1>5, <2>1, SameRequestIsTrue
<1>7. AnswerTrue(a, v, accepted)
  <2>1. a.of = r.of /\ a.reset = r.reset /\ a.asOf = accepted
    BY DEF ListReplies, Answers
  <2>2. Matching(r.token, r.of) = {m \in accepted : TenantOf[m] = v.token /\ IsAfter(m, a.of)}
    BY <1>2, <2>1 DEF Matching
  <2>3. /\ a.rows \in Seq(Messages) /\ a.more \in Messages \cup {None}
        /\ Ordered(a.rows)
        /\ a.more # None => a.rows # << >> /\ a.more = a.rows[Len(a.rows)]
    BY DEF ListReplies, Ordered
  <2>4. \A i \in DOMAIN a.rows : TenantOf[a.rows[i]] = v.token /\ IsAfter(a.rows[i], a.of)
    BY <2>2 DEF ListReplies
  <2>5. \A m \in a.asOf :
           TenantOf[m] = v.token /\ IsAfter(m, a.of) /\ (a.more = None \/ ~Newer(a.more, m))
           => \E i \in DOMAIN a.rows : a.rows[i] = m
    BY <2>1, <2>2 DEF ListReplies
  <2>6. v.since \subseteq a.asOf
    BY <1>1, <1>5, <2>1 DEF SameVars
  <2> QED
    BY <2>1, <2>3, <2>4, <2>5, <2>6 DEF AnswerTrue
<1>8. TenantRequestTrue(a, v, accepted)
  <2>1. PageRequestTrue(r, v, accepted)
    BY <1>6 DEF TenantRequestTrue
  <2>2. PageRequestTrue(a, v, accepted)
    BY <1>0, <1>7, <2>1 DEF PageRequestTrue, Answers
  <2>3. a.kind = "list"
    BY <1>0 DEF Answers
  <2> QED
    BY <2>2, <2>3 DEF TenantRequestTrue
<1>9. RowsTrue(v) /\ ListTrue(v)
  BY <1>1, <1>5 DEF RowsTrue, ListTrue, SameVars
<1>10. CoverTrue(v)
  <2>1. Complete(u) => Complete(v)
    BY <1>1 DEF Complete, SameVars
  <2>2. (\E q \in u.flight : q.kind = "list" /\ q.reset)
           => \E q \in v.flight : q.kind = "list" /\ q.reset
    BY <1>0, <1>1 DEF Answers
  <2> QED
    BY <1>1, <1>5, <2>1, <2>2 DEF CoverTrue, SameVars
<1>11. v.since \subseteq accepted
  BY <1>1, <1>5 DEF SameVars
<1>12. TenantTrue(v, c, accepted)
  BY <1>1, <1>3, <1>4, <1>6, <1>8, <1>9, <1>10, <1>11 DEF TenantTrue
<1> QED
  BY <1>12 DEF v

LEMMA MoreMessages ==
  ASSUME NEW u, NEW c, NEW A, NEW B, A \subseteq B, TenantTrue(u, c, A)
  PROVE  TenantTrue(u, c, B)
<1>1. \A r : AnswerTrue(r, u, A) => AnswerTrue(r, u, B)
  BY DEF AnswerTrue
<1>2. \A r : TenantRequestTrue(r, u, A) => TenantRequestTrue(r, u, B)
  BY <1>1 DEF TenantRequestTrue, PageRequestTrue
<1> QED
  BY <1>2 DEF TenantTrue

PatientTenant == patient /\ page = "tenant" => TenantTrue(ui, clicks, accepted)

LEMMA TenantStepIsTrue ==
  ASSUME PageOK, PatientTenant, patient, page = "tenant", TenantPageStep
  PROVE  TenantTrue(ui', clicks', accepted')
<1>0. /\ clicks \in Nat /\ ui \in UIStates /\ accepted \subseteq Messages
      /\ IsFiniteSet(accepted) /\ TenantPageOK(ui, clicks)
      /\ TenantTrue(ui, clicks, accepted)
  BY PageAssumption DEF PageOK, Bound, PatientTenant
<1>1. CASE TenantUser /\ UNCHANGED accepted
  <2>1. Click /\ TenantChoice(ui, clicks', ui')
    BY <1>1, TenantUserIs
  <2>2. clicks' = clicks + 1 /\ ui.flight = {}
    BY <2>1, ClickIs
  <2>3. TenantTrue(ui', clicks', accepted)
    BY <1>0, <2>1, <2>2, ClickedTenantIsTrue
  <2> QED
    BY <1>1, <2>3
<1>2. CASE /\ \E r \in ui.flight : ListArrives(r) \/ ReadArrives(r) \/ TenantRequestFails(r)
           /\ UNCHANGED <<page, patient, clicks, accepted>>
  <2>1. PICK r \in ui.flight : ListArrives(r) \/ ReadArrives(r) \/ TenantRequestFails(r)
    BY <1>2
  <2>2. TenantAnswered(ui, r, ui')
    BY <2>1, TenantAnswerIs
  <2>3. TenantTrue(ui', clicks, accepted)
    BY <1>0, <2>2, AnsweredTenantIsTrue
  <2> QED
    BY <1>2, <2>3
<1>3. CASE \E r \in ui.flight : HandleList(r)
  <2>1. PICK r \in ui.flight : HandleList(r)
    BY <1>3
  <2>2. r \in Requests /\ r.token # None
    BY <1>0, <2>1 DEF UIStates, HandleList
  <2>3. /\ r.kind = "list" /\ \E a : ListReplies(r, a) /\ ui' = Replied(ui, r, a)
        /\ UNCHANGED <<page, patient, clicks, accepted>>
    BY <1>0, <2>1, <2>2, HandleListIs
  <2>4. PICK a : ListReplies(r, a) /\ ui' = Replied(ui, r, a)
    BY <2>3
  <2>5. TenantTrue(ui', clicks, accepted)
    BY <1>0, <2>2, <2>3, <2>4, RepliedTenantIsTrue
  <2> QED
    BY <2>3, <2>5
<1>4. CASE \E m \in Messages : Accept(m)
  <2>1. PICK m \in Messages : Accept(m)
    BY <1>4
  <2>2. accepted \subseteq accepted' /\ ui' = ui /\ clicks' = clicks
    BY <2>1 DEF Accept, pageVars
  <2>3. TenantTrue(ui, clicks, accepted')
    BY <1>0, <2>2, MoreMessages
  <2> QED
    BY <2>2, <2>3
<1> QED
  BY <1>1, <1>2, <1>3, <1>4 DEF TenantPageStep

LEMMA TenantStepStays ==
  ASSUME TenantPageStep
  PROVE  UNCHANGED <<page, patient>>
BY DEF TenantPageStep, TenantUser, SubmitKey, RefreshTenant, LoadMore, Inspect, Click,
       HandleList, Accept, pageVars

(* On the page of a user who waits, every request under way is of the last *)
(* click, there is one of each kind, and each is about what the page shows *)
(* now: the next page of the history is appended to the list it follows,   *)
(* and its answer, made before, leaves nothing out of what was there when  *)
(* the first page was read (TenantTrue).                                   *)
THEOREM PatientTenantHolds == Spec => []PatientTenant
<1>1. DashboardInit => PatientTenant
  <2> SUFFICES ASSUME DashboardInit
               PROVE  TenantTrue(ui, clicks, accepted)
    BY DEF PatientTenant
  <2>1. ui = BlankPage
    BY DEF DashboardInit, Init
  <2> QED
    BY <2>1, BlankPageIs DEF TenantTrue, OneEach
<1>2. PageOK /\ PatientTenant /\ [Next]_vars => PatientTenant'
  <2> SUFFICES ASSUME PageOK, PatientTenant, [Next]_vars, patient', page' = "tenant"
               PROVE  TenantTrue(ui', clicks', accepted')
    BY DEF PatientTenant
  <2>1. CASE page = "tenant" /\ TenantPageStep
    BY <2>1, TenantStepIsTrue, TenantStepStays
  <2>2. CASE page = "admin" /\ AdminPageStep
    <3>1. page' = page
      BY <2>2, AdminStepStays
    <3> QED
      BY <2>2, <3>1
  <2>3. CASE UNCHANGED vars
    BY <2>3 DEF PatientTenant, vars, pageVars
  <2> QED
    BY <2>1, <2>2, <2>3 DEF Next
<1> QED
  BY <1>1, <1>2, PagesInductive, PTL DEF Spec

LEMMA LastRow ==
  ASSUME NEW rows \in Seq(Messages), rows # << >>
  PROVE  Last(rows) = rows[Len(rows)]
BY DEF Last

(* What a tenant sees who waits for the answers is true.                   *)
LEMMA TenantSees ==
  ASSUME PageOK, PatientTenant, patient, Idle, ui.token # None, page = "tenant"
  PROVE  TenantSeesTheTruth
<1>1. TenantTrue(ui, clicks, accepted) /\ ui.flight = {}
  BY DEF PatientTenant, Idle
<1>2. RowsTrue(ui) /\ ListTrue(ui) /\ CoverTrue(ui)
  BY <1>1 DEF TenantTrue
<1>3. /\ \A p \in {"usage", "endpoints"} : ToSet(Shown(p)) \subseteq {ui.token}
      /\ \A p \in {"deliveries", "attempts"} : ToSet(Shown(p)) \subseteq {ui.selected}
  BY <1>2 DEF RowsTrue, Shown
<1>4. Shown("list") = ui.list /\ ui.list \in Seq(Messages) /\ Ordered(ui.list)
  BY <1>2 DEF ListTrue, Shown
<1>5. \A m \in ToSet(ui.list) : TenantOf[m] = ui.token
  BY <1>2 DEF ListTrue, ToSet
<1>6. StateOf("list") = "success" => ui.loadMore = (ui.cursor # None)
  BY <1>2 DEF ListTrue, StateOf
<1>7. Covered(ui.list)
  <2>1. CASE ui.list = << >> /\ ui.panel["list"].state = "error"
    BY <2>1 DEF Covered, StateOf
  <2>2. CASE Complete(ui)
    <3> SUFFICES ASSUME NEW m \in ui.since, TenantOf[m] = ui.token,
                        ui.cursor = None \/ ~Newer(Last(ui.list), m)
                 PROVE  m \in ToSet(ui.list)
      BY DEF Covered
    <3>1. ui.cursor # None => ui.cursor = Last(ui.list)
      BY <1>2, <1>4, LastRow DEF ListTrue
    <3>2. \E i \in DOMAIN ui.list : ui.list[i] = m
      BY <2>2, <3>1 DEF Complete
    <3> QED
      BY <3>2 DEF ToSet
  <2> QED
    BY <1>1, <1>2, <2>1, <2>2 DEF CoverTrue
<1> QED
  BY <1>3, <1>4, <1>5, <1>6, <1>7 DEF TenantSeesTheTruth

-----------------------------------------------------------------------------
(* What a patient operator sees.  A is the apps the server has, n the ids  *)
(* that it has drawn and K its keys.                                       *)

Listing(u) == \E r \in u.flight : r.kind = "list"
Done(u, p) == u.panel[p].state \notin {"loading", "error"}

KeysIn(K, a) == {k \in K : k.app = a}
KeysExact(rows, buttons, K, a) ==
    /\ ToSet(rows) = IdsOf(KeysIn(K, a)) /\ IsInjective(rows)
    /\ buttons = IdsOf(Unrevoked(KeysIn(K, a)))

(* Nothing but usage and keys are asked for together. *)
FlightTrue(u, c, n) ==
    /\ \A r \in u.flight :
          /\ r.click = c /\ r.token = u.token /\ (r.handled => u.token # None)
          /\ r.then \in 1 .. n \cup {None}
          /\ r.handled /\ r.kind \in {"list", "newTenant"} => r.rows \in Seq(1 .. n)
    /\ \A q, r \in u.flight : q.then = r.then
    /\ \A q, r \in u.flight :
          q # r => q.kind \in Context /\ r.kind \in Context /\ q.kind # r.kind

(* A request is about the selected tenant, its panel says so, and its      *)
(* answer is what the server has still, but for a tenant that is gone.     *)
AskedTrue(r, u, A, K) ==
    /\ r.kind \in Context => r.of = u.selected
    /\ r.kind \in {"newTenant", "newKey", "keys"} => u.panel[r.kind].state = "loading"
    /\ r.kind = "revoke" => u.panel["keys"].state = "loading"
    /\ r.kind = "keys" => u.panel["keys"].rows = << >> /\ u.revocable = {}
    /\ r.kind = "usage" /\ r.handled => ToSet(r.rows) \subseteq {r.of}
    /\ r.kind = "list" /\ r.handled => A \subseteq ToSet(r.rows)
    /\ r.kind = "keys" /\ r.handled /\ r.of \in A => KeysExact(r.rows, r.asOf, K, r.of)

ListIsShown(u, n) ==
    /\ u.selected \in 1 .. n \cup {None} /\ u.list \in Seq(1 .. n)
    /\ u.panel["list"].rows = u.list
    /\ u.panel["list"].state = "success" => u.list # << >>

SelectionTrue(u, A, K) ==
    /\ u.selected # None => u.selected \in ToSet(u.list)
    /\ u.list # << >> /\ Done(u, "newTenant") => A \subseteq ToSet(u.list)
    /\ ToSet(u.panel["usage"].rows) \subseteq {u.selected}
    /\ u.selected \in A /\ Done(u, "keys") /\ Done(u, "newKey")
          => KeysExact(u.panel["keys"].rows, u.revocable, K, u.selected)

AdminTrue(u, c, A, n, K) ==
    /\ FlightTrue(u, c, n) /\ ListIsShown(u, n)
    /\ ~Listing(u) => SelectionTrue(u, A, K)
    /\ \A r \in u.flight : AskedTrue(r, u, A, K)

(* Nothing but what the panels say of themselves changes, and they say     *)
(* less.                                                                   *)
SaysLess(u, v) ==
    /\ v.selected = u.selected /\ v.list = u.list /\ v.revocable = u.revocable
    /\ \A p \in {"list", "usage", "keys"} : v.panel[p].rows = u.panel[p].rows
    /\ \A p \in {"newTenant", "newKey", "keys"} : Done(v, p) => Done(u, p)
    /\ v.panel["list"].state = "success" => u.panel["list"].state = "success"

LEMMA ViewStays ==
  ASSUME NEW u, NEW v, NEW A, NEW n, NEW K, SaysLess(u, v)
  PROVE  /\ ListIsShown(u, n) => ListIsShown(v, n)
         /\ SelectionTrue(u, A, K) => SelectionTrue(v, A, K)
<1>1. /\ v.selected = u.selected /\ v.list = u.list /\ v.revocable = u.revocable
      /\ v.panel["list"].rows = u.panel["list"].rows
      /\ v.panel["usage"].rows = u.panel["usage"].rows
      /\ v.panel["keys"].rows = u.panel["keys"].rows
      /\ Done(v, "newTenant") => Done(u, "newTenant")
      /\ Done(v, "newKey") => Done(u, "newKey")
      /\ Done(v, "keys") => Done(u, "keys")
      /\ v.panel["list"].state = "success" => u.panel["list"].state = "success"
  BY DEF SaysLess
<1> QED
  BY <1>1 DEF ListIsShown, SelectionTrue

(* Usage and keys are asked for, for the tenant that is selected.          *)
LEMMA ContextIsTrue ==
  ASSUME NEW v, NEW click, NEW n, NEW then \in 1 .. n \cup {None}, NEW A, None \notin A, NEW K,
         ContextAsked(v.flight, v, click, then), v.revocable = {},
         \A q \in Context : v.panel[q] = ContextOf(v),
         v.panel["list"] = ListOf(v), v.list \in Seq(1 .. n),
         v.selected \in 1 .. n \cup {None}, v.selected # None => v.selected \in ToSet(v.list),
         v.list # << >> /\ Done(v, "newTenant") => A \subseteq ToSet(v.list)
  PROVE  AdminTrue(v, click, A, n, K)
<1>1. FlightTrue(v, click, n) /\ ~Listing(v)
  BY DEF FlightTrue, ContextAsked, Listing, Context
<1>2. \A r \in v.flight :
         /\ r.kind \in Context /\ r.of = v.selected /\ r.handled = FALSE
         /\ v.selected # None
  BY DEF ContextAsked
<1>3. /\ v.panel["usage"].rows = << >> /\ v.panel["keys"].rows = << >>
      /\ v.selected # None => v.panel["keys"].state = "loading"
  BY PanelStatesDiffer DEF Context, ContextOf
<1>4. \A r \in v.flight : AskedTrue(r, v, A, K)
  BY <1>2, <1>3 DEF AskedTrue, Context
<1>5. ListIsShown(v, n)
  BY PanelStatesDiffer DEF ListIsShown, ListOf
<1>6. SelectionTrue(v, A, K)
  <2>1. ToSet(v.panel["usage"].rows) = {}
    BY <1>3 DEF ToSet
  <2>2. v.selected \in A => ~Done(v, "keys")
    BY <1>3 DEF Done
  <2> QED
    BY <2>1, <2>2 DEF SelectionTrue
<1> QED
  BY <1>1, <1>4, <1>5, <1>6 DEF AdminTrue

LEMMA RowsAreOf ==
  ASSUME NEW D, NEW s \in Seq(D)
  PROVE  ToSet(s) \subseteq D
BY DEF ToSet

LEMMA SelectedTenantIsTrue ==
  ASSUME NEW u \in UIStates, NEW c, NEW click \in Nat, NEW n, NEW A, None \notin A, NEW K,
         AdminTrue(u, c, A, n, K), u.flight = {}, NEW a, NEW v, TenantIsSelected(u, click, a, v)
  PROVE  AdminTrue(v, click, A, n, K)
<1>1. ListIsShown(u, n) /\ SelectionTrue(u, A, K)
  BY DEF AdminTrue, Listing
<1>2. /\ v.list = u.list /\ v.revocable = {} /\ PanelsOfChoice(u, v)
      /\ v.selected = (IF a \in ToSet(u.list) THEN a ELSE None)
  BY DEF TenantIsSelected
<1>3. PICK N : v.flight = u.flight \cup N /\ ContextAsked(N, v, click, None)
  BY DEF TenantIsSelected
<1>4. v.flight = N
  BY <1>3
<1>5. ToSet(u.list) \subseteq 1 .. n
  BY <1>1, RowsAreOf DEF ListIsShown
<1>6. v.list # << >> /\ Done(v, "newTenant") => A \subseteq ToSet(v.list)
  BY <1>1, <1>2 DEF SelectionTrue, PanelsOfChoice, Done
<1>7. v.list \in Seq(1 .. n)
  BY <1>1, <1>2 DEF ListIsShown
<1>8. (\A q \in Context : v.panel[q] = ContextOf(v)) /\ v.panel["list"] = ListOf(v)
  BY <1>2 DEF PanelsOfChoice
<1>9. /\ v.selected \in 1 .. n \cup {None}
      /\ v.selected # None => v.selected \in ToSet(v.list)
  BY <1>2, <1>5
<1>10. ContextAsked(v.flight, v, click, None) /\ None \in 1 .. n \cup {None}
  BY <1>3, <1>4
<1> QED
  BY <1>2, <1>6, <1>7, <1>8, <1>9, <1>10, ContextIsTrue

LEMMA NoRequests ==
  ASSUME NEW u, NEW c, NEW n, NEW A, NEW K, u.flight = {}
  PROVE  AdminTrue(u, c, A, n, K) <=> ListIsShown(u, n) /\ SelectionTrue(u, A, K)
BY DEF AdminTrue, FlightTrue, Listing

(* One request is sent, and its panel says so.                             *)
LEMMA OneRequestIsTrue ==
  ASSUME NEW u, NEW v, NEW c, NEW click, NEW n, NEW A, NEW K, AdminTrue(u, c, A, n, K),
         u.flight = {}, SaysLess(u, v), NEW r, v.flight = {r},
         r.click = click, r.token = v.token, r.handled = FALSE, r.then \in 1 .. n \cup {None},
         AskedTrue(r, v, A, K)
  PROVE  AdminTrue(v, click, A, n, K)
<1>1. ListIsShown(u, n) /\ SelectionTrue(u, A, K)
  BY NoRequests
<1>2. ListIsShown(v, n) /\ SelectionTrue(v, A, K)
  BY <1>1, ViewStays
<1>3. FlightTrue(v, click, n)
  BY DEF FlightTrue
<1> QED
  BY <1>2, <1>3 DEF AdminTrue

LEMMA LoadAdminIsTrue ==
  ASSUME NEW u \in UIStates, NEW c, NEW click \in Nat, NEW n, NEW A, NEW K,
         AdminTrue(u, c, A, n, K), u.flight = {}
  PROVE  AdminTrue(LoadAdmin(u, click, None), click, A, n, K)
<1> DEFINE v == LoadAdmin(u, click, None)
<1>0. {"auth", "list"} \subseteq Panels /\ {"usage", "keys", "newTenant", "newKey"} \subseteq Panels
  BY AdminPanelNames DEF Context
<1>1. CASE u.token = None
  <2>1. v = SetStatus(u, "auth", "error")
    BY <1>1 DEF LoadAdmin, Then
  <2> HIDE DEF v
  <2>2. /\ SameVars(u, v) /\ v.flight = u.flight
        /\ Shows(v, u, "auth", [state |-> "error", rows |-> u.panel["auth"].rows])
    BY <1>0, <2>1, SetStatusIs DEF PanelStates
  <2>3. SaysLess(u, v)
    BY <1>0, <2>2 DEF SaysLess, SameVars, Shows, Done
  <2>4. ListIsShown(v, n) /\ SelectionTrue(v, A, K) /\ v.flight = {}
    BY <2>2, <2>3, ViewStays, NoRequests
  <2>5. AdminTrue(v, click, A, n, K)
    BY <2>4, NoRequests
  <2> QED
    BY <2>5 DEF v
<1>2. CASE u.token # None
  <2> DEFINE r == ThenRequest(u, click, "list", None, None)
  <2>1. TenantsAsked(u, click, None, v)
    BY <1>2, LoadAdminIs
  <2>2. AsksThen(r, u, click, "list", None, None)
    <3>1. None \in Things \cup {None} /\ "list" \in Kinds
      BY AdminPanelNames
    <3> QED
      BY <3>1, ThenRequestIs
  <2>3. v.flight = u.flight \cup {r}
    BY <2>1 DEF TenantsAsked
  <2> HIDE DEF v, r
  <2>4. /\ SameVars(u, v)
        /\ \A q \in Panels :
              v.panel[q] = IF q \in {"auth", "list"}
                           THEN [state |-> "loading", rows |-> u.panel[q].rows]
                           ELSE u.panel[q]
    BY <2>1 DEF TenantsAsked
  <2>s. /\ v.panel["usage"] = u.panel["usage"] /\ v.panel["keys"] = u.panel["keys"]
        /\ v.panel["newTenant"] = u.panel["newTenant"]
        /\ v.panel["newKey"] = u.panel["newKey"]
        /\ v.panel["list"].rows = u.panel["list"].rows
        /\ v.panel["list"].state = "loading"
    <3>1. \A q \in Panels : q \notin {"auth", "list"} => v.panel[q] = u.panel[q]
      BY <2>4
    <3>2. v.panel["list"] = [state |-> "loading", rows |-> u.panel["list"].rows]
      BY <1>0, <2>4
    <3> QED
      BY ONLY <1>0, <3>1, <3>2
  <2>5. SaysLess(u, v)
    BY <2>4, <2>s DEF SaysLess, SameVars, Done
  <2>6. /\ r.click = click /\ r.token = v.token /\ r.handled = FALSE /\ r.kind = "list"
        /\ r.then \in 1 .. n \cup {None}
    BY <2>2, <2>4 DEF AsksThen, Asks, SameVars
  <2>7. AskedTrue(r, v, A, K)
    BY <2>6 DEF AskedTrue, Context
  <2>8. v.flight = {r}
    BY <2>3
  <2>9. AdminTrue(v, click, A, n, K)
    BY <2>5, <2>6, <2>7, <2>8, OneRequestIsTrue
  <2> QED
    BY <2>9 DEF v
<1> QED
  BY <1>1, <1>2

LEMMA ToldIsTrue ==
  ASSUME NEW u \in UIStates, NEW c, NEW click, NEW n, NEW A, NEW K,
         AdminTrue(u, c, A, n, K), u.flight = {}, NEW p \in {"newTenant", "newKey"}
  PROVE  AdminTrue(SetStatus(u, p, "error"), click, A, n, K)
<1> DEFINE v == SetStatus(u, p, "error")
<1>0. /\ p \in Panels
      /\ {"list", "usage", "keys", "newTenant", "newKey"} \subseteq Panels
  BY AdminPanelNames DEF Context
<1>1. /\ SameVars(u, v) /\ v.flight = u.flight
      /\ Shows(v, u, p, [state |-> "error", rows |-> u.panel[p].rows])
  BY <1>0, SetStatusIs DEF PanelStates
<1> HIDE DEF v
<1>2. /\ v.panel[p].state = "error"
      /\ \A q \in Panels \ {p} : v.panel[q] = u.panel[q]
  <2>1. v.panel[p] = [state |-> "error", rows |-> u.panel[p].rows]
    BY <1>0, <1>1 DEF Shows
  <2>2. \A q \in Panels \ {p} : v.panel[q] = u.panel[q]
    BY <1>1 DEF Shows
  <2> QED
    BY <2>1, <2>2
<1>3. SaysLess(u, v)
  <2>1. /\ v.panel["list"] = u.panel["list"] /\ v.panel["usage"] = u.panel["usage"]
        /\ v.panel["keys"] = u.panel["keys"]
    BY <1>0, <1>2
  <2>2. Done(v, "newTenant") => Done(u, "newTenant")
    BY <1>0, <1>2 DEF Done
  <2>3. Done(v, "newKey") => Done(u, "newKey")
    BY <1>0, <1>2 DEF Done
  <2> QED
    BY <1>1, <2>1, <2>2, <2>3 DEF SaysLess, SameVars, Done
<1>4. ListIsShown(v, n) /\ SelectionTrue(v, A, K) /\ v.flight = {}
  BY <1>1, <1>3, ViewStays, NoRequests
<1>5. AdminTrue(v, click, A, n, K)
  BY <1>4, NoRequests
<1> QED
  BY <1>5 DEF v

LEMMA AskingIsTrue ==
  ASSUME NEW u \in UIStates, NEW c, NEW click \in Nat, NEW n, NEW A, NEW K,
         AdminTrue(u, c, A, n, K), u.flight = {},
         NEW p \in Panels, NEW of \in Things \cup {None}, NEW kind \in Kinds,
         \/ kind = p /\ p \in {"newTenant", "newKey"}
         \/ kind = "revoke" /\ p = "keys"
  PROVE  AdminTrue(Api(SetStatus(u, p, "loading"), Request(u, click, kind, of)),
                   click, A, n, K)
<1> DEFINE b == SetStatus(u, p, "loading")
           r == Request(u, click, kind, of)
           v == Api(b, r)
<1>0. {"list", "usage", "keys", "newTenant", "newKey"} \subseteq Panels
  BY AdminPanelNames DEF Context
<1>1. AsksThen(r, u, click, kind, of, None)
  BY RequestIs
<1>2. /\ b \in UIStates /\ SameVars(u, b) /\ b.flight = u.flight
      /\ Shows(b, u, p, [state |-> "loading", rows |-> u.panel[p].rows])
  BY SetStatusIs DEF PanelStates
<1> HIDE DEF b, r
<1>3. SameVars(b, v) /\ v.flight = b.flight \cup {r} /\ v.panel = b.panel
  BY <1>1, <1>2, ApiIs DEF AsksThen, Asks
<1> HIDE DEF v
<1>4. /\ v.panel[p].state = "loading" /\ v.panel[p].rows = u.panel[p].rows
      /\ \A q \in Panels \ {p} : v.panel[q] = u.panel[q]
  BY <1>2, <1>3 DEF Shows
<1>5. SaysLess(u, v)
  <2>1. v.panel["list"] = u.panel["list"] /\ v.panel["usage"] = u.panel["usage"]
    BY <1>0, <1>4
  <2>2. v.panel["keys"].rows = u.panel["keys"].rows
    BY <1>0, <1>4
  <2>3. Done(v, "newTenant") => Done(u, "newTenant")
    BY <1>0, <1>4 DEF Done
  <2>4. Done(v, "newKey") => Done(u, "newKey")
    BY <1>0, <1>4 DEF Done
  <2>5. Done(v, "keys") => Done(u, "keys")
    BY <1>0, <1>4 DEF Done
  <2> QED
    BY <1>2, <1>3, <2>1, <2>2, <2>3, <2>4, <2>5 DEF SaysLess, SameVars
<1>6. /\ r.click = click /\ r.token = v.token /\ r.handled = FALSE /\ r.kind = kind
      /\ r.then \in 1 .. n \cup {None}
  BY <1>1, <1>2, <1>3 DEF AsksThen, Asks, SameVars
<1>7. AskedTrue(r, v, A, K)
  BY <1>4, <1>6 DEF AskedTrue, Context
<1>8. v.flight = {r}
  BY <1>2, <1>3
<1>9. AdminTrue(v, click, A, n, K)
  BY <1>5, <1>6, <1>7, <1>8, OneRequestIsTrue
<1> QED
  BY <1>9 DEF v, b, r

LEMMA ClickedAdminIsTrue ==
  ASSUME NEW u \in UIStates, NEW c \in Nat, NEW n, NEW A, None \notin A, NEW K,
         AdminTrue(u, c, A, n, K), u.flight = {}, NEW v, AdminChoice(u, c + 1, v)
  PROVE  AdminTrue(v, c + 1, A, n, K)
<1>0. c + 1 \in Nat
  OBVIOUS
<1>1. CASE \E token \in {AdminToken, None} :
              v = LoadAdmin(ClearSelectedTenantView(WithOnlyToken(u, token)), c + 1, None)
  <2> PICK token \in {AdminToken, None} :
              v = LoadAdmin(ClearSelectedTenantView(WithOnlyToken(u, token)), c + 1, None)
    BY <1>1
  <2> DEFINE a == WithOnlyToken(u, token)
             b == ClearSelectedTenantView(a)
  <2>1. a \in UIStates /\ a.flight = u.flight /\ a.panel = u.panel /\ a.list = u.list
    BY OnlyTokenIs DEF Tokens
  <2> HIDE DEF a
  <2>2. /\ b \in UIStates /\ b.flight = a.flight /\ b.selected = None /\ b.list = a.list
        /\ \A q \in Panels : b.panel[q] = IF q \in Context THEN NoRows ELSE a.panel[q]
    BY <2>1, ClearTenantIs
  <2> HIDE DEF b
  <2>3. /\ b.panel["list"] = u.panel["list"] /\ b.panel["newTenant"] = u.panel["newTenant"]
        /\ b.panel["usage"].rows = << >>
    BY <2>1, <2>2, AdminPanelNames, PanelStatesDiffer DEF Context
  <2>4. ListIsShown(u, n) /\ SelectionTrue(u, A, K)
    BY NoRequests
  <2>5. ToSet(b.panel["usage"].rows) = {}
    BY <2>3 DEF ToSet
  <2>6. ListIsShown(b, n) /\ SelectionTrue(b, A, K)
    BY <2>1, <2>2, <2>3, <2>4, <2>5 DEF ListIsShown, SelectionTrue, Done
  <2>7. AdminTrue(b, c, A, n, K)
    BY <2>1, <2>2, <2>6, NoRequests
  <2>8. AdminTrue(LoadAdmin(b, c + 1, None), c + 1, A, n, K)
    BY <1>0, <2>1, <2>2, <2>7, LoadAdminIsTrue
  <2> QED
    BY <2>8 DEF a, b
<1>2. CASE v = LoadAdmin(u, c + 1, None)
  BY <1>0, <1>2, LoadAdminIsTrue
<1>3. CASE v = SetStatus(u, "newTenant", "error") \/ v = SetStatus(u, "newKey", "error")
  BY <1>0, <1>3, ToldIsTrue
<1>4. CASE v = Api(SetStatus(u, "newTenant", "loading"), Request(u, c + 1, "newTenant", None))
  <2>1. None \in Things \cup {None} /\ "newTenant" \in Kinds /\ "newTenant" \in Panels
    BY AdminPanelNames
  <2> QED
    BY <1>0, <1>4, <2>1, AskingIsTrue
<1>5. CASE v = Api(SetStatus(u, "newKey", "loading"), Request(u, c + 1, "newKey", u.selected))
  <2>1. u.selected \in Things \cup {None} /\ "newKey" \in Kinds /\ "newKey" \in Panels
    BY AdminPanelNames DEF UIStates
  <2> QED
    BY <1>0, <1>5, <2>1, AskingIsTrue
<1>6. CASE \E a \in ToSet(u.panel["list"].rows) : v = SelectTenant(u, c + 1, a)
  <2> PICK a : v = SelectTenant(u, c + 1, a)
    BY <1>6
  <2>1. TenantIsSelected(u, c + 1, a, v)
    BY <1>0, SelectTenantIs
  <2> QED
    BY <1>0, <2>1, SelectedTenantIsTrue
<1>7. CASE \E k \in u.revocable :
              v = Api(SetStatus(u, "keys", "loading"), Request(u, c + 1, "revoke", k))
  <2> PICK k \in u.revocable :
              v = Api(SetStatus(u, "keys", "loading"), Request(u, c + 1, "revoke", k))
    BY <1>7
  <2>1. k \in Things \cup {None} /\ "revoke" \in Kinds /\ "keys" \in Panels
    BY AdminPanelNames DEF UIStates, Context
  <2> QED
    BY <1>0, <2>1, AskingIsTrue
<1> QED
  BY <1>1, <1>2, <1>3, <1>4, <1>5, <1>6, <1>7 DEF AdminChoice

(* r is gone from the page, and, when it was for usage or keys, the other  *)
(* of the two may still be under way.                                      *)
LEMMA ArrivedFlight ==
  ASSUME NEW u, NEW c, NEW n, NEW A, NEW K, AdminTrue(u, c, A, n, K), NEW r \in u.flight
  PROVE  LET F == u.flight \ {r}
         IN  /\ r.kind \notin Context => F = {}
             /\ \A q \in F : q.kind \in Context /\ r.kind \in Context /\ q.kind # r.kind
             /\ r.kind # "list" => ~Listing(u)
             /\ \A q \in F : q.kind # "list"
             /\ \A q \in F : q.then = r.then /\ q.click = r.click
<1> DEFINE F == u.flight \ {r}
<1>1. \A q \in F : q \in u.flight /\ q # r
  OBVIOUS
<1>2. \A q \in F : /\ q.kind \in Context /\ r.kind \in Context /\ q.kind # r.kind
                   /\ q.then = r.then /\ q.click = r.click
  BY <1>1 DEF AdminTrue, FlightTrue
<1>3. \A q \in F : q.kind # "list"
  BY <1>2 DEF Context
<1>4. r.kind # "list" => ~Listing(u)
  BY <1>1, <1>3 DEF Listing
<1> QED
  BY <1>2, <1>3, <1>4

(* r's panel is told the end of its load: x is u without r, the other      *)
(* request is as true as it was, and so is the view.                       *)
LEMMA SettledIsTrue ==
  ASSUME NEW u, NEW x, NEW c, NEW n, NEW A, NEW K, AdminTrue(u, c, A, n, K),
         NEW r \in u.flight, r.kind # "list", x.flight = u.flight \ {r}, x.token = u.token,
         x.selected = u.selected,
         ListIsShown(u, n) => ListIsShown(x, n),
         SelectionTrue(u, A, K) => SelectionTrue(x, A, K),
         r.kind = "usage" => x.panel["keys"] = u.panel["keys"] /\ x.revocable = u.revocable
  PROVE  AdminTrue(x, c, A, n, K)
<1>1. /\ \A q \in x.flight : q.kind \in Context /\ r.kind \in Context /\ q.kind # r.kind
      /\ ~Listing(u)
  BY ArrivedFlight
<1>2. FlightTrue(x, c, n)
  BY DEF FlightTrue, AdminTrue
<1>3. ListIsShown(x, n) /\ SelectionTrue(x, A, K)
  BY <1>1 DEF AdminTrue
<1>4. ASSUME NEW q \in x.flight
      PROVE  AskedTrue(q, x, A, K)
  <2>1. AskedTrue(q, u, A, K)
    BY DEF AdminTrue
  <2>2. q.kind = "keys" => r.kind = "usage"
    BY <1>1 DEF Context
  <2>3. q.kind \in {"usage", "keys"}
    BY <1>1 DEF Context
  <2> QED
    BY <2>1, <2>2, <2>3 DEF AskedTrue, Context
<1> QED
  BY <1>2, <1>3, <1>4 DEF AdminTrue

(* Promise.all of the two is settled.                                      *)
LEMMA ContextLoadedIsTrue ==
  ASSUME NEW u \in UIStates, NEW c \in Nat, NEW n, NEW A, None \notin A, NEW K,
         AdminTrue(u, c, A, n, K), NEW r, r.click = c,
         \A q \in u.flight : q.then = r.then
  PROVE  AdminTrue(SelectedTenantLoaded(u, r), c, A, n, K)
<1>1. \A q \in u.flight : q.click = c
  BY DEF AdminTrue, FlightTrue
<1>2. CASE r.then = None
  BY <1>2 DEF SelectedTenantLoaded, Then
<1>3. CASE u.flight # {} /\ r.then # None
  <2>1. \E q \in u.flight : q.click = r.click /\ q.then # None
    BY <1>1, <1>3
  <2> QED
    BY <2>1 DEF SelectedTenantLoaded
<1>4. CASE u.flight = {} /\ r.then # None
  <2> DEFINE v == SelectTenant(u, c, r.then)
  <2>1. TenantIsSelected(u, c, r.then, v)
    BY SelectTenantIs
  <2> HIDE DEF v
  <2>2. AdminTrue(v, c, A, n, K)
    BY <1>4, <2>1, SelectedTenantIsTrue
  <2> QED
    BY <1>4, <2>2 DEF SelectedTenantLoaded, Then, v
<1> QED
  BY <1>2, <1>3, <1>4

(* The keys of the selected tenant are loaded again. *)
LEMMA KeysReloadedIsTrue ==
  ASSUME NEW u \in UIStates, NEW c \in Nat, NEW n, NEW A, None \notin A, NEW K, u.flight = {},
         ListIsShown(u, n), u.selected # None => u.selected \in ToSet(u.list),
         u.list # << >> /\ Done(u, "newTenant") => A \subseteq ToSet(u.list),
         ToSet(u.panel["usage"].rows) \subseteq {u.selected}
  PROVE  AdminTrue(LoadKeys(u, c, None), c, A, n, K)
<1> DEFINE v == LoadKeys(u, c, None)
           r == ThenRequest(u, c, "keys", u.selected, None)
           content == IF u.selected = None THEN NoRows ELSE Loading
<1>1. KeysAreLoading(u, c, None, v)
  BY LoadKeysIs
<1>2. /\ v.token = u.token /\ v.list = u.list /\ v.selected = u.selected /\ v.revocable = {}
      /\ Shows(v, u, "keys", content)
      /\ v.flight = IF u.selected = None THEN {} ELSE {r}
  BY <1>1 DEF KeysAreLoading
<1>3. AsksThen(r, u, c, "keys", u.selected, None)
  <2>1. "keys" \in Kinds /\ u.selected \in Things \cup {None}
    BY AdminPanelNames DEF UIStates
  <2> QED
    BY <2>1, ThenRequestIs
<1> HIDE DEF v, r
<1>4. /\ {"list", "usage", "keys", "newTenant", "newKey"} \subseteq Panels
      /\ content.rows = << >> /\ (u.selected # None => content.state = "loading")
  BY AdminPanelNames, PanelStatesDiffer DEF Context
<1> HIDE DEF content
<1>5. /\ v.panel["list"] = u.panel["list"] /\ v.panel["usage"] = u.panel["usage"]
      /\ v.panel["newTenant"] = u.panel["newTenant"] /\ v.panel["keys"] = content
  BY <1>2, <1>4 DEF Shows
<1>6. ListIsShown(v, n)
  BY <1>2, <1>5 DEF ListIsShown
<1>7. SelectionTrue(v, A, K)
  <2>1. v.selected \in A => ~Done(v, "keys")
    BY <1>2, <1>4, <1>5 DEF Done
  <2> QED
    BY <1>2, <1>5, <2>1 DEF SelectionTrue, Done
<1>8. \A q \in v.flight : q = r /\ u.selected # None
  BY <1>2
<1>9. r.click = c /\ r.token = v.token /\ r.handled = FALSE /\ r.kind = "keys"
      /\ r.of = v.selected /\ r.then = None
  BY <1>2, <1>3 DEF AsksThen, Asks
<1>10. FlightTrue(v, c, n)
  BY <1>8, <1>9 DEF FlightTrue
<1>11. \A q \in v.flight : AskedTrue(q, v, A, K)
  <2> SUFFICES ASSUME NEW q \in v.flight
               PROVE  AskedTrue(q, v, A, K)
    OBVIOUS
  <2>1. q = r /\ v.panel["keys"].state = "loading" /\ v.panel["keys"].rows = << >>
    BY <1>4, <1>5, <1>8
  <2> QED
    BY <1>2, <1>9, <2>1 DEF AskedTrue, Context
<1>12. AdminTrue(v, c, A, n, K)
  BY <1>6, <1>7, <1>10, <1>11 DEF AdminTrue
<1> QED
  BY <1>12 DEF v

LEMMA NothingAndRows ==
  ASSUME NEW D, NEW s \in Seq(D)
  PROVE  << >> \o s = s
OBVIOUS

LEMMA ListAnsweredIsTrue ==
  ASSUME NEW u \in UIStates, NEW c \in Nat, NEW n, NEW A, None \notin A, NEW K,
         Seq(1 .. n) \subseteq Seq(Things),
         AdminTrue(u, c, A, n, K), NEW r \in u.flight, r.kind = "list", r.handled,
         NEW a \in UIStates, a.flight = {}, NEW v, TenantsAreShown(a, r, v)
  PROVE  AdminTrue(v, c, A, n, K)
<1>1. /\ r.click = c /\ r.then \in 1 .. n \cup {None} /\ r.rows \in Seq(1 .. n)
      /\ A \subseteq ToSet(r.rows)
  BY DEF AdminTrue, FlightTrue, AskedTrue
<1>2. /\ v.list = r.rows /\ v.revocable = {} /\ PanelsOfChoice(a, v)
      /\ v.selected = KeptSelection(a, r.rows)
  BY DEF TenantsAreShown
<1>3. PICK N : v.flight = a.flight \cup N /\ ContextAsked(N, v, r.click, r.then)
  BY DEF TenantsAreShown
<1>4. ContextAsked(v.flight, v, c, r.then)
  <2>1. v.flight = N
    BY <1>3
  <2> QED
    BY <1>1, <1>3, <2>1
<1>5. r.rows \in Seq(Things)
  BY <1>1
<1>6. v.selected # None => v.selected \in ToSet(v.list)
  BY <1>2, <1>5, KeptSelectionIs
<1>7. ToSet(r.rows) \subseteq 1 .. n
  BY <1>1, RowsAreOf
<1>8. v.selected \in 1 .. n \cup {None}
  BY <1>2, <1>6, <1>7
<1>9. (\A q \in Context : v.panel[q] = ContextOf(v)) /\ v.panel["list"] = ListOf(v)
  BY <1>2 DEF PanelsOfChoice
<1> QED
  BY <1>1, <1>2, <1>4, <1>6, <1>8, <1>9, ContextIsTrue

LEMMA UsageAnsweredIsTrue ==
  ASSUME NEW u, NEW c, NEW n, NEW A, NEW K,
         AdminTrue(u, c, A, n, K), NEW r \in u.flight, r.kind = "usage", r.handled,
         NEW x, SameVars(u, x), x.flight = u.flight \ {r},
         \A q \in Panels \ {"usage"} : x.panel[q] = u.panel[q],
         x.panel["usage"].rows = r.rows
  PROVE  AdminTrue(x, c, A, n, K)
<1>1. /\ x.panel["list"] = u.panel["list"] /\ x.panel["keys"] = u.panel["keys"]
      /\ x.panel["newTenant"] = u.panel["newTenant"]
      /\ x.panel["newKey"] = u.panel["newKey"]
  BY AdminPanelNames DEF Context
<1>2. x.token = u.token /\ x.selected = u.selected /\ x.list = u.list /\ x.revocable = u.revocable
  BY DEF SameVars
<1>3. ToSet(r.rows) \subseteq {u.selected}
  BY DEF AdminTrue, AskedTrue, Context
<1>4. ListIsShown(u, n) => ListIsShown(x, n)
  BY <1>1, <1>2 DEF ListIsShown
<1>5. SelectionTrue(u, A, K) => SelectionTrue(x, A, K)
  BY <1>1, <1>2, <1>3 DEF SelectionTrue, Done
<1> QED
  BY <1>1, <1>2, <1>4, <1>5, SettledIsTrue

LEMMA KeysAnsweredIsTrue ==
  ASSUME NEW u, NEW c, NEW n, NEW A, NEW K,
         AdminTrue(u, c, A, n, K), NEW r \in u.flight, r.kind = "keys", r.handled,
         r.rows \in Seq(Things),
         NEW x, x.token = u.token, x.list = u.list, x.selected = u.selected,
         x.flight = u.flight \ {r}, x.revocable = u.revocable \cup r.asOf,
         \A q \in Panels \ {"keys"} : x.panel[q] = u.panel[q],
         x.panel["keys"].rows = u.panel["keys"].rows \o r.rows
  PROVE  AdminTrue(x, c, A, n, K)
<1>1. /\ x.panel["list"] = u.panel["list"] /\ x.panel["usage"] = u.panel["usage"]
      /\ x.panel["newTenant"] = u.panel["newTenant"]
      /\ x.panel["newKey"] = u.panel["newKey"]
  BY AdminPanelNames DEF Context
<1>2. /\ u.panel["keys"].rows = << >> /\ u.revocable = {} /\ r.of = u.selected
      /\ r.of \in A => KeysExact(r.rows, r.asOf, K, r.of)
  BY DEF AdminTrue, AskedTrue, Context
<1>3. x.panel["keys"].rows = r.rows /\ x.revocable = r.asOf
  <2>1. << >> \o r.rows = r.rows
    BY NothingAndRows
  <2> QED
    BY <1>2, <2>1
<1>4. ListIsShown(u, n) => ListIsShown(x, n)
  BY <1>1 DEF ListIsShown
<1>5. SelectionTrue(u, A, K) => SelectionTrue(x, A, K)
  BY <1>1, <1>2, <1>3 DEF SelectionTrue, Done
<1> QED
  BY <1>4, <1>5, SettledIsTrue

LEMMA CreatedTenantIsTrue ==
  ASSUME NEW u \in UIStates, NEW c \in Nat, NEW n, NEW A, NEW K,
         Seq(1 .. n) \subseteq Seq(Things),
         AdminTrue(u, c, A, n, K), NEW r \in u.flight, r.kind = "newTenant", r.handled,
         r.rows # << >>
  PROVE  AdminTrue(TenantCreated(Arrived(u, r), r), c, A, n, K)
<1> DEFINE a == Arrived(u, r)
           h == Head(r.rows)
           b == WithSelected(a, h)
           d == SetStatus(b, "newTenant", "success")
           v == LoadAdmin(d, c, h)
           q == ThenRequest(d, c, "list", None, h)
<1>0. /\ r.click = c /\ r.rows \in Seq(1 .. n) /\ u.token # None
      /\ u.flight \ {r} = {}
  <2>1. r.kind \notin Context
    BY DEF Context
  <2>2. u.flight \ {r} = {}
    BY <2>1, ArrivedFlight
  <2> QED
    BY <2>2 DEF AdminTrue, FlightTrue
<1>1. TenantCreated(a, r) = v
  BY <1>0 DEF TenantCreated, WithSelected
<1>2. a \in UIStates /\ SameVars(u, a) /\ a.flight = {} /\ a.panel = u.panel
  BY <1>0, ArrivedIs
<1>3. h \in Things /\ h \in 1 .. n
  <2>1. r.rows \in Seq(Things)
    BY <1>0
  <2>2. Head(r.rows) \in ToSet(r.rows)
    BY <2>1, RowsAreThings
  <2> QED
    BY <1>0, <2>1, <2>2, RowsAreOf
<1> HIDE DEF a, h
<1>4. /\ b \in UIStates /\ b.flight = a.flight /\ b.panel = a.panel /\ b.token = a.token
      /\ b.selected = h /\ b.list = a.list
  BY <1>2, <1>3, SelectedIs
<1> HIDE DEF b
<1>5. /\ d \in UIStates /\ SameVars(b, d) /\ d.flight = b.flight
      /\ Shows(d, b, "newTenant", [state |-> "success", rows |-> b.panel["newTenant"].rows])
  BY <1>4, AdminPanelNames, SetStatusIs DEF PanelStates
<1> HIDE DEF d
<1>6. TenantsAsked(d, c, h, v)
  BY <1>0, <1>2, <1>3, <1>4, <1>5, LoadAdminIs DEF SameVars
<1>7. AsksThen(q, d, c, "list", None, h)
  BY <1>3, <1>5, AdminPanelNames, ThenRequestIs
<1>8. v.flight = {q}
  BY <1>2, <1>4, <1>5, <1>6 DEF TenantsAsked
<1>9. /\ SameVars(d, v)
      /\ \A p \in Panels :
            v.panel[p] = IF p \in {"auth", "list"}
                         THEN [state |-> "loading", rows |-> d.panel[p].rows]
                         ELSE d.panel[p]
  BY <1>6 DEF TenantsAsked
<1> HIDE DEF v, q
<1>10. v.panel["list"] = [state |-> "loading", rows |-> u.panel["list"].rows]
  <2>1. "list" \in Panels /\ "list" # "newTenant"
    BY AdminPanelNames
  <2>2. d.panel["list"] = u.panel["list"]
    BY <1>2, <1>4, <1>5, <2>1 DEF Shows
  <2> QED
    BY <1>9, <2>1, <2>2
<1>11. /\ v.list = u.list /\ v.selected = h /\ v.token = d.token
  BY <1>2, <1>4, <1>5, <1>9 DEF SameVars
<1>12. ListIsShown(v, n)
  BY <1>3, <1>10, <1>11 DEF AdminTrue, ListIsShown
<1>13. q.click = c /\ q.kind = "list" /\ q.token = v.token /\ q.handled = FALSE /\ q.then = h
  BY <1>7, <1>11 DEF AsksThen, Asks
<1>14. FlightTrue(v, c, n) /\ Listing(v)
  BY <1>3, <1>8, <1>13 DEF FlightTrue, Listing
<1>15. AskedTrue(q, v, A, K)
  BY <1>13 DEF AskedTrue, Context
<1>16. AdminTrue(v, c, A, n, K)
  BY <1>8, <1>12, <1>14, <1>15 DEF AdminTrue
<1> QED
  BY <1>1, <1>16 DEF a

LEMMA CreatedKeyIsTrue ==
  ASSUME NEW u \in UIStates, NEW c \in Nat, NEW n, NEW A, None \notin A, NEW K,
         AdminTrue(u, c, A, n, K), NEW r \in u.flight, r.kind = "newKey"
  PROVE  AdminTrue(KeyCreated(Arrived(u, r), r), c, A, n, K)
<1> DEFINE a == Arrived(u, r)
           b == WithSecretOf(a, r.of)
           d == SetStatus(b, "newKey", "success")
<1>0. r.click = c /\ u.flight \ {r} = {} /\ ~Listing(u) /\ r.of \in Things \cup {None}
  <2>1. r.kind \notin Context
    BY DEF Context
  <2>2. u.flight \ {r} = {} /\ ~Listing(u)
    BY <2>1, ArrivedFlight
  <2>3. r \in Requests
    BY DEF UIStates
  <2>4. r.of \in Things \cup {None}
    BY <2>3 DEF Requests
  <2>5. r.click = c
    BY DEF AdminTrue, FlightTrue
  <2> QED
    BY <2>2, <2>4, <2>5
<1>1. KeyCreated(a, r) = LoadKeys(d, c, None)
  BY <1>0 DEF KeyCreated, WithSecretOf
<1>2. a \in UIStates /\ SameVars(u, a) /\ a.flight = {} /\ a.panel = u.panel
  BY <1>0, ArrivedIs
<1> HIDE DEF a
<1>3. AdminVars(a, b) /\ b.list = a.list /\ b.selected = a.selected
  BY <1>0, <1>2, SecretOfIs
<1> HIDE DEF b
<1>4. /\ d \in UIStates /\ SameVars(b, d) /\ d.flight = b.flight
      /\ Shows(d, b, "newKey", [state |-> "success", rows |-> b.panel["newKey"].rows])
  BY <1>3, AdminPanelNames, SetStatusIs DEF PanelStates, AdminVars
<1> HIDE DEF d
<1>5. \A q \in Panels \ {"newKey"} : d.panel[q] = u.panel[q]
  BY <1>2, <1>3, <1>4 DEF Shows, AdminVars
<1>6. /\ d.panel["list"] = u.panel["list"] /\ d.panel["usage"] = u.panel["usage"]
      /\ d.panel["newTenant"] = u.panel["newTenant"]
  BY <1>5, AdminPanelNames DEF Context
<1>7. d.list = u.list /\ d.selected = u.selected /\ d.flight = {}
  BY <1>2, <1>3, <1>4 DEF SameVars, AdminVars
<1>8. ListIsShown(u, n) /\ SelectionTrue(u, A, K)
  BY <1>0 DEF AdminTrue
<1>9. /\ ListIsShown(d, n) /\ (d.selected # None => d.selected \in ToSet(d.list))
      /\ d.list # << >> /\ Done(d, "newTenant") => A \subseteq ToSet(d.list)
      /\ ToSet(d.panel["usage"].rows) \subseteq {d.selected}
  BY <1>6, <1>7, <1>8 DEF ListIsShown, SelectionTrue, Done
<1>10. AdminTrue(LoadKeys(d, c, None), c, A, n, K)
  BY <1>4, <1>7, <1>9, KeysReloadedIsTrue
<1> QED
  BY <1>1, <1>10 DEF a

LEMMA RevokedKeyIsTrue ==
  ASSUME NEW u \in UIStates, NEW c \in Nat, NEW n, NEW A, None \notin A, NEW K,
         AdminTrue(u, c, A, n, K), NEW r \in u.flight, r.kind = "revoke"
  PROVE  AdminTrue(KeyRevoked(Arrived(u, r), r), c, A, n, K)
<1> DEFINE a == Arrived(u, r)
           d == SetStatus(a, "keys", "success")
<1>0. r.click = c /\ u.flight \ {r} = {} /\ ~Listing(u)
  <2>1. r.kind \notin Context
    BY DEF Context
  <2>2. u.flight \ {r} = {} /\ ~Listing(u)
    BY <2>1, ArrivedFlight
  <2>3. r.click = c
    BY DEF AdminTrue, FlightTrue
  <2> QED
    BY <2>2, <2>3
<1>1. KeyRevoked(a, r) = LoadKeys(d, c, None)
  BY <1>0 DEF KeyRevoked
<1>2. a \in UIStates /\ SameVars(u, a) /\ a.flight = {} /\ a.panel = u.panel
  BY <1>0, ArrivedIs
<1> HIDE DEF a
<1>3. "keys" \in Panels
  BY AdminPanelNames DEF Context
<1>4. /\ d \in UIStates /\ SameVars(a, d) /\ d.flight = a.flight
      /\ Shows(d, a, "keys", [state |-> "success", rows |-> a.panel["keys"].rows])
  BY <1>2, <1>3, SetStatusIs DEF PanelStates
<1> HIDE DEF d
<1>5. \A q \in Panels \ {"keys"} : d.panel[q] = u.panel[q]
  BY <1>2, <1>4 DEF Shows
<1>6. /\ d.panel["list"] = u.panel["list"] /\ d.panel["usage"] = u.panel["usage"]
      /\ d.panel["newTenant"] = u.panel["newTenant"]
  BY <1>5, AdminPanelNames DEF Context
<1>7. d.list = u.list /\ d.selected = u.selected /\ d.flight = {}
  BY <1>2, <1>4 DEF SameVars
<1>8. ListIsShown(u, n) /\ SelectionTrue(u, A, K)
  BY <1>0 DEF AdminTrue
<1>9. /\ ListIsShown(d, n) /\ (d.selected # None => d.selected \in ToSet(d.list))
      /\ d.list # << >> /\ Done(d, "newTenant") => A \subseteq ToSet(d.list)
      /\ ToSet(d.panel["usage"].rows) \subseteq {d.selected}
  BY <1>6, <1>7, <1>8 DEF ListIsShown, SelectionTrue, Done
<1>10. AdminTrue(LoadKeys(d, c, None), c, A, n, K)
  BY <1>4, <1>7, <1>9, KeysReloadedIsTrue
<1> QED
  BY <1>1, <1>10 DEF a

LEMMA TenantsGoneIsTrue ==
  ASSUME NEW u, NEW c, NEW n, NEW A, None \notin A, NEW K, u.flight = {},
         NEW v, TenantsAreGone(u, v)
  PROVE  AdminTrue(v, c, A, n, K)
<1>1. /\ v.list = << >> /\ v.selected = None /\ v.flight = {}
      /\ v.panel["list"].rows = << >> /\ v.panel["list"].state # "success"
      /\ v.panel["usage"].rows = << >>
  BY PanelStatesDiffer DEF TenantsAreGone, Context
<1>2. << >> \in Seq(1 .. n) /\ ToSet(v.panel["usage"].rows) = {}
  BY <1>1 DEF ToSet
<1>3. ListIsShown(v, n) /\ SelectionTrue(v, A, K)
  BY <1>1, <1>2 DEF ListIsShown, SelectionTrue
<1> QED
  BY <1>1, <1>3, NoRequests

LEMMA AdminFailureIsTrue ==
  ASSUME NEW u \in UIStates, NEW c \in Nat, NEW n, NEW A, NEW K,
         AdminTrue(u, c, A, n, K), NEW r \in u.flight,
         r.kind \in {"usage", "keys", "newTenant", "newKey", "revoke"}
  PROVE  LET x == SetStatus(Arrived(u, r), PanelOf(r), "error")
         IN  x \in UIStates /\ x.flight = u.flight \ {r} /\ AdminTrue(x, c, A, n, K)
<1> DEFINE a == Arrived(u, r)
           p == PanelOf(r)
           x == SetStatus(a, p, "error")
<1>0. /\ {"list", "usage", "keys", "newTenant", "newKey"} \subseteq Panels
      /\ p \in {"usage", "keys", "newTenant", "newKey"}
      /\ r.kind = "usage" => p = "usage"
  BY AdminPanelNames DEF Context, PanelOf
<1>1. a \in UIStates /\ SameVars(u, a) /\ a.flight = u.flight \ {r} /\ a.panel = u.panel
  BY ArrivedIs
<1> HIDE DEF a, p
<1>2. /\ x \in UIStates /\ SameVars(a, x) /\ x.flight = a.flight
      /\ Shows(x, a, p, [state |-> "error", rows |-> a.panel[p].rows])
  BY <1>0, <1>1, SetStatusIs DEF PanelStates
<1> HIDE DEF x
<1>3. /\ x.panel[p].state = "error" /\ x.panel[p].rows = u.panel[p].rows
      /\ \A q \in Panels \ {p} : x.panel[q] = u.panel[q]
  <2>1. x.panel[p] = [state |-> "error", rows |-> u.panel[p].rows]
    BY <1>0, <1>1, <1>2 DEF Shows
  <2>2. \A q \in Panels \ {p} : x.panel[q] = u.panel[q]
    BY <1>1, <1>2 DEF Shows
  <2> QED
    BY <2>1, <2>2
<1>4. SaysLess(u, x)
  <2>1. x.panel["list"] = u.panel["list"]
    BY <1>0, <1>3
  <2>2. /\ x.panel["usage"].rows = u.panel["usage"].rows
        /\ x.panel["keys"].rows = u.panel["keys"].rows
    BY <1>0, <1>3
  <2>3. \A q \in {"newTenant", "newKey", "keys"} : Done(x, q) => Done(u, q)
    BY <1>0, <1>3 DEF Done
  <2> QED
    BY <1>1, <1>2, <2>1, <2>2, <2>3 DEF SaysLess, SameVars
<1>5. /\ ListIsShown(u, n) => ListIsShown(x, n)
      /\ SelectionTrue(u, A, K) => SelectionTrue(x, A, K)
  BY <1>4, ViewStays
<1>6. r.kind = "usage" => x.panel["keys"] = u.panel["keys"] /\ x.revocable = u.revocable
  BY <1>0, <1>1, <1>2, <1>3 DEF SameVars
<1>7. x.token = u.token /\ x.selected = u.selected /\ x.flight = u.flight \ {r}
  BY <1>1, <1>2 DEF SameVars
<1>8. AdminTrue(x, c, A, n, K)
  BY <1>5, <1>6, <1>7, SettledIsTrue
<1> QED
  BY <1>2, <1>7, <1>8 DEF x, a, p

LEMMA AnsweredAdminIsTrue ==
  ASSUME NEW u \in UIStates, NEW c \in Nat, NEW n, NEW A, None \notin A, NEW K,
         Seq(1 .. n) \subseteq Seq(Things),
         AdminPageOK(u, c, {}), AdminTrue(u, c, A, n, K), NEW r \in u.flight,
         NEW v, AdminAnswered(u, r, v)
  PROVE  AdminTrue(v, c, A, n, K)
<1> DEFINE a == Arrived(u, r)
<1>0. /\ r \in Requests /\ r.click = c /\ r.rows \in Seq(Things)
      /\ r.kind = "newTenant" /\ r.handled => r.rows # << >>
      /\ r.kind \in {"list", "usage", "keys", "newTenant", "newKey", "revoke"}
  <2>1. r \in Requests
    BY DEF UIStates
  <2>2. AdminRequest(r, c)
    BY DEF AdminPageOK
  <2>3. r.click = c
    BY DEF AdminTrue, FlightTrue
  <2> QED
    BY <2>1, <2>2, <2>3 DEF AdminRequest, Requests, AdminPanels
<1>1. /\ a \in UIStates /\ SameVars(u, a) /\ a.flight = u.flight \ {r} /\ a.panel = u.panel
  BY ArrivedIs
<1>2. AdminAnswered(u, r, v) <=>
        \/ r.handled /\ r.kind = "list" /\ v = TenantsLoaded(a, r)
        \/ r.handled /\ r.kind = "usage" /\ v = SelectedTenantLoaded(UsageLoaded(a, r), r)
        \/ r.handled /\ r.kind = "keys" /\ v = SelectedTenantLoaded(KeysLoaded(a, r), r)
        \/ r.handled /\ r.kind = "newTenant" /\ v = TenantCreated(a, r)
        \/ r.handled /\ r.kind = "newKey" /\ v = KeyCreated(a, r)
        \/ r.handled /\ r.kind = "revoke" /\ v = KeyRevoked(a, r)
        \/ r.kind = "list" /\ v = TenantsFailed(a, r)
        \/ r.kind # "list" /\ v = SelectedTenantLoaded(SetStatus(a, PanelOf(r), "error"), r)
  BY DEF AdminAnswered
<1>3. \A q \in u.flight \ {r} : q.then = r.then
  BY ArrivedFlight
<1>4. r.kind = "list" => a.flight = {}
  <2>1. "list" \notin Context
    BY DEF Context
  <2> QED
    BY <1>1, <2>1, ArrivedFlight
<1>5. CASE r.handled /\ r.kind = "list" /\ v = TenantsLoaded(a, r)
  <2>1. TenantsAreShown(a, r, v)
    BY <1>0, <1>1, <1>5, TenantsLoadedIs
  <2> QED
    BY <1>1, <1>4, <1>5, <2>1, ListAnsweredIsTrue
<1>6. CASE r.handled /\ r.kind = "usage" /\ v = SelectedTenantLoaded(UsageLoaded(a, r), r)
  <2> DEFINE x == UsageLoaded(a, r)
  <2>1. /\ x \in UIStates /\ SameVars(a, x) /\ x.flight = a.flight
        /\ \A q \in Panels \ {"usage"} : x.panel[q] = a.panel[q]
        /\ x.panel["usage"].rows = r.rows
    BY <1>0, <1>1, <1>6, UsageLoadedIs
  <2> HIDE DEF x
  <2>2. SameVars(u, x)
    BY <1>1, <2>1 DEF SameVars
  <2>3. AdminTrue(x, c, A, n, K)
    BY <1>1, <1>6, <2>1, <2>2, UsageAnsweredIsTrue
  <2>4. AdminTrue(SelectedTenantLoaded(x, r), c, A, n, K)
    BY <1>0, <1>1, <1>3, <2>1, <2>3, ContextLoadedIsTrue
  <2> QED
    BY <1>6, <2>4 DEF x
<1>7. CASE r.handled /\ r.kind = "keys" /\ v = SelectedTenantLoaded(KeysLoaded(a, r), r)
  <2> DEFINE x == KeysLoaded(a, r)
  <2>1. /\ x \in UIStates /\ x.token = a.token /\ x.list = a.list
        /\ x.selected = a.selected /\ x.flight = a.flight
        /\ x.revocable = a.revocable \cup r.asOf
        /\ \A q \in Panels \ {"keys"} : x.panel[q] = a.panel[q]
        /\ x.panel["keys"].rows = a.panel["keys"].rows \o r.rows
    <3>1. a \in UIStates /\ r \in Requests /\ r.kind = "keys"
      BY <1>0, <1>1, <1>7
    <3> QED
      BY ONLY <3>1, KeysLoadedIs
  <2> HIDE DEF x
  <2>2. /\ x.token = u.token /\ x.list = u.list /\ x.selected = u.selected
        /\ x.revocable = u.revocable \cup r.asOf
    BY <1>1, <2>1 DEF SameVars
  <2>p. /\ x.flight = u.flight \ {r}
        /\ \A q \in Panels \ {"keys"} : x.panel[q] = u.panel[q]
        /\ x.panel["keys"].rows = u.panel["keys"].rows \o r.rows
    BY <1>1, <2>1
  <2>3. AdminTrue(x, c, A, n, K)
    BY <1>0, <1>7, <2>2, <2>p, KeysAnsweredIsTrue
  <2>4. AdminTrue(SelectedTenantLoaded(x, r), c, A, n, K)
    BY <1>0, <1>1, <1>3, <2>1, <2>3, ContextLoadedIsTrue
  <2> QED
    BY <1>7, <2>4 DEF x
<1>8. CASE r.handled /\ r.kind = "newTenant" /\ v = TenantCreated(a, r)
  BY <1>0, <1>8, CreatedTenantIsTrue
<1>9. CASE r.handled /\ r.kind = "newKey" /\ v = KeyCreated(a, r)
  BY <1>9, CreatedKeyIsTrue
<1>10. CASE r.handled /\ r.kind = "revoke" /\ v = KeyRevoked(a, r)
  BY <1>10, RevokedKeyIsTrue
<1>11. CASE r.kind = "list" /\ v = TenantsFailed(a, r)
  <2>1. TenantsAreGone(a, v)
    BY <1>0, <1>1, <1>11, TenantsFailedIs
  <2> QED
    BY <1>4, <1>11, <2>1, TenantsGoneIsTrue
<1>12. CASE r.kind # "list" /\ v = SelectedTenantLoaded(SetStatus(a, PanelOf(r), "error"), r)
  <2> DEFINE x == SetStatus(a, PanelOf(r), "error")
  <2>1. x \in UIStates /\ x.flight = u.flight \ {r} /\ AdminTrue(x, c, A, n, K)
    BY <1>0, <1>12, AdminFailureIsTrue
  <2> HIDE DEF x
  <2>2. AdminTrue(SelectedTenantLoaded(x, r), c, A, n, K)
    BY <1>0, <1>3, <2>1, ContextLoadedIsTrue
  <2> QED
    BY <1>12, <2>2 DEF x
<1> QED
  BY <1>2, <1>5, <1>6, <1>7, <1>8, <1>9, <1>10, <1>11, <1>12

(* The tables may lose an app, with its keys. *)
LEMMA LostAppIsTrue ==
  ASSUME NEW u, NEW c, NEW n, NEW A, NEW K, AdminTrue(u, c, A, n, K), NEW B, B \subseteq A,
         NEW L, \A b \in B : KeysIn(L, b) = KeysIn(K, b)
  PROVE  AdminTrue(u, c, B, n, L)
<1>1. \A rows, buttons : \A b \in B :
         KeysExact(rows, buttons, K, b) => KeysExact(rows, buttons, L, b)
  BY DEF KeysExact
<1>2. \A r : AskedTrue(r, u, A, K) => AskedTrue(r, u, B, L)
  BY <1>1 DEF AskedTrue
<1>3. SelectionTrue(u, A, K) => SelectionTrue(u, B, L)
  BY <1>1 DEF SelectionTrue
<1> QED
  BY <1>2, <1>3 DEF AdminTrue

(* The answer that is sent is true when it is sent.                        *)
LEMMA AnswerSentIsTrue ==
  ASSUME NEW u \in UIStates, NEW c, NEW n \in Nat, NEW m \in Nat, n <= m,
         NEW A, NEW B, NEW K, NEW L,
         AdminTrue(u, c, A, n, K), NEW r \in u.flight, r.token # None, NEW a, Answers(a, r),
         AskedTrue(a, u, B, L),
         a.kind \in {"list", "newTenant"} => a.rows \in Seq(1 .. m),
         \A q \in u.flight \ {r} : AskedTrue(q, u, B, L),
         ~Listing(u) => SelectionTrue(u, B, L)
  PROVE  AdminTrue(Replied(u, r, a), c, B, m, L)
<1> DEFINE v == Replied(u, r, a)
<1>1. SameVars(u, v) /\ v.flight = (u.flight \ {r}) \cup {a} /\ v.panel = u.panel
  BY RepliedIs
<1> HIDE DEF v
<1>2. /\ a.click = r.click /\ a.kind = r.kind /\ a.token = r.token /\ a.of = r.of
      /\ a.then = r.then
  BY DEF Answers
<1>3. 1 .. n \subseteq 1 .. m
  OBVIOUS
<1>4. Seq(1 .. n) \subseteq Seq(1 .. m)
  BY ONLY <1>3, SequencesOfMore
<1>5. r.token = u.token /\ u.token # None /\ v.token = u.token
  BY <1>1 DEF AdminTrue, FlightTrue, SameVars
<1>6. FlightTrue(v, c, m)
  <2>1. \A q \in u.flight \ {r} :
           /\ q.click = c /\ q.token = u.token /\ q.then \in 1 .. m \cup {None}
           /\ q.handled /\ q.kind \in {"list", "newTenant"} => q.rows \in Seq(1 .. m)
    BY <1>3, <1>4 DEF AdminTrue, FlightTrue
  <2>2. a.click = c /\ a.token = u.token /\ a.then \in 1 .. m \cup {None}
    BY <1>2, <1>3 DEF AdminTrue, FlightTrue
  <2>3. \A q \in v.flight :
           /\ q.click = c /\ q.token = v.token /\ (q.handled => v.token # None)
           /\ q.then \in 1 .. m \cup {None}
           /\ q.handled /\ q.kind \in {"list", "newTenant"} => q.rows \in Seq(1 .. m)
    BY <1>1, <1>5, <2>1, <2>2
  <2>4. \A q, w \in v.flight : q.then = w.then
    BY <1>1, <1>2 DEF AdminTrue, FlightTrue
  <2>5. \A q, w \in v.flight :
           q # w => q.kind \in Context /\ w.kind \in Context /\ q.kind # w.kind
    BY <1>1, <1>2 DEF AdminTrue, FlightTrue
  <2> QED
    BY <2>3, <2>4, <2>5 DEF FlightTrue
<1>7. ListIsShown(v, m)
  BY <1>1, <1>3, <1>4 DEF AdminTrue, ListIsShown, SameVars
<1>8. Listing(u) <=> Listing(v)
  BY <1>1, <1>2 DEF Listing
<1>9. SelectionTrue(u, B, L) => SelectionTrue(v, B, L)
  BY <1>1 DEF SelectionTrue, SameVars, Done
<1>10. \A q : AskedTrue(q, u, B, L) => AskedTrue(q, v, B, L)
  BY <1>1 DEF AskedTrue, SameVars
<1>11. AdminTrue(v, c, B, m, L)
  BY <1>1, <1>6, <1>7, <1>8, <1>9, <1>10 DEF AdminTrue
<1> QED
  BY <1>11 DEF v

PatientAdmin ==
    patient /\ page = "admin" => AdminTrue(ui, clicks, ToSet(apps), drawn, keys)

LEMMA NoneHasNoApp ==
  ASSUME TablesOK
  PROVE  None \notin ToSet(apps) /\ Seq(1 .. drawn) \subseteq Seq(Things)
BY TablesAreThings, NoneIsNothing

LEMMA ServedAdminIsTrue ==
  ASSUME TablesOK, TablesOK', ui \in UIStates,
         AdminTrue(ui, clicks, ToSet(apps), drawn, keys),
         NEW r \in ui.flight, r.token # None, TablesChange(r), NEW a, AdminReplies(r, a)
  PROVE  AdminTrue(Replied(ui, r, a), clicks, ToSet(apps'), drawn', keys')
<1>0. /\ Answers(a, r) /\ AskedTrue(r, ui, ToSet(apps), keys) /\ drawn \in Nat
      /\ a.kind = r.kind /\ a.of = r.of
      /\ ~Listing(ui) => SelectionTrue(ui, ToSet(apps), keys)
  BY DEF AdminReplies, Answers, AdminTrue, TablesOK
<1>1. CASE r.kind \in {"list", "usage", "keys"} /\ UNCHANGED adminVars
  <2>1. apps' = apps /\ drawn' = drawn /\ keys' = keys
    BY <1>1 DEF adminVars
  <2>2. r.kind = "usage" => ToSet(a.rows) \subseteq {a.of}
    BY <1>0 DEF AdminReplies, ToSet
  <2>3. r.kind = "keys" => KeysExact(a.rows, a.asOf, keys, a.of)
    BY <1>0 DEF AdminReplies, KeysExact, KeysOf, KeysIn
  <2>4. r.kind = "list" => a.rows = apps
    BY DEF AdminReplies
  <2>5. AskedTrue(a, ui, ToSet(apps), keys)
    BY <1>0, <1>1, <2>2, <2>3, <2>4 DEF AskedTrue
  <2>6. a.kind \in {"list", "newTenant"} => a.rows \in Seq(1 .. drawn)
    BY <1>0, <1>1, <2>4 DEF TablesOK
  <2>7. \A q \in ui.flight \ {r} : AskedTrue(q, ui, ToSet(apps), keys)
    BY DEF AdminTrue
  <2>8. drawn <= drawn
    BY <1>0
  <2> QED
    BY <1>0, <2>1, <2>5, <2>6, <2>7, <2>8, AnswerSentIsTrue
<1>a. ASSUME r.kind \in {"newTenant", "newKey", "revoke"}
      PROVE  ui.flight \ {r} = {} /\ ~Listing(ui)
  <2>1. r.kind \notin Context /\ r.kind # "list"
    BY <1>a DEF Context
  <2> QED
    BY <2>1, ArrivedFlight
<1>2. CASE r.kind = "newTenant" /\ DrawId /\ apps' = <<drawn'>> \o apps /\ UNCHANGED keys
  <2>1. /\ drawn' = drawn + 1 /\ drawn' \in 1 .. MaxIds
        /\ apps \in Seq(1 .. drawn') /\ drawn' \notin ToSet(apps)
    BY <1>2, NewIdIs
  <2>2. ToSet(<<drawn'>> \o apps) = ToSet(apps) \cup {drawn'}
    <3>1. drawn' \in 1 .. drawn' /\ IsInjective(apps)
      BY <1>0, <2>1 DEF TablesOK
    <3> QED
      BY <2>1, <3>1, TableWith
  <2>3. a.rows = <<drawn'>> /\ drawn' \in 1 .. drawn'
    BY <1>0, <1>2, <2>1 DEF AdminReplies
  <2>4. a.rows \in Seq(1 .. drawn')
    BY <2>3
  <2>5. AskedTrue(a, ui, ToSet(apps'), keys)
    BY <1>0, <1>2 DEF AskedTrue, Context
  <2>6. SelectionTrue(ui, ToSet(apps'), keys)
    <3>1. SelectionTrue(ui, ToSet(apps), keys)
      BY <1>0, <1>2, <1>a
    <3>2. ~Done(ui, "newTenant")
      BY <1>0, <1>2 DEF AskedTrue, Done
    <3>3. ui.selected # drawn'
      <4>1. ui.selected \in 1 .. drawn \cup {None}
        BY DEF AdminTrue, ListIsShown
      <4>2. drawn' # None /\ drawn' \notin 1 .. drawn
        BY <1>0, <2>1, AdminAssumption
      <4> QED
        BY <4>1, <4>2
    <3>4. ui.selected \in ToSet(apps') => ui.selected \in ToSet(apps)
      BY <1>2, <2>2, <3>3
    <3> QED
      BY <3>1, <3>2, <3>4 DEF SelectionTrue
  <2>7. ui.flight \ {r} = {}
    BY <1>2, <1>a
  <2>8. drawn' \in Nat /\ drawn <= drawn' /\ keys' = keys
    BY <1>0, <1>2, <2>1
  <2> QED
    BY <1>0, <2>4, <2>5, <2>6, <2>7, <2>8, AnswerSentIsTrue
<1>3. CASE /\ r.kind = "newKey" /\ r.of \in ToSet(apps) /\ DrawId
           /\ keys' = keys \cup {[id |-> drawn', app |-> r.of, revoked |-> FALSE]}
           /\ UNCHANGED apps
  <2>1. drawn' = drawn + 1 /\ drawn' \in Nat /\ drawn <= drawn'
    BY <1>0, <1>3, NewIdIs
  <2>2. AskedTrue(a, ui, ToSet(apps), keys')
    BY <1>0, <1>3 DEF AskedTrue, Context
  <2>3. SelectionTrue(ui, ToSet(apps), keys')
    <3>1. SelectionTrue(ui, ToSet(apps), keys)
      BY <1>0, <1>3, <1>a
    <3>2. ~Done(ui, "newKey")
      BY <1>0, <1>3 DEF AskedTrue, Done
    <3> QED
      BY <3>1, <3>2 DEF SelectionTrue
  <2>4. ui.flight \ {r} = {} /\ apps' = apps
    BY <1>3, <1>a
  <2>5. a.kind \notin {"list", "newTenant"}
    BY <1>0, <1>3
  <2> QED
    BY <1>0, <2>1, <2>2, <2>3, <2>4, <2>5, AnswerSentIsTrue
<1>4. CASE r.kind = "revoke" /\ UNCHANGED <<apps, drawn>>
  <2>1. AskedTrue(a, ui, ToSet(apps), keys')
    BY <1>0, <1>4 DEF AskedTrue, Context
  <2>2. SelectionTrue(ui, ToSet(apps), keys')
    <3>1. SelectionTrue(ui, ToSet(apps), keys)
      BY <1>0, <1>4, <1>a
    <3>2. ~Done(ui, "keys")
      BY <1>0, <1>4 DEF AskedTrue, Done
    <3> QED
      BY <3>1, <3>2 DEF SelectionTrue
  <2>3. ui.flight \ {r} = {} /\ apps' = apps /\ drawn' = drawn /\ drawn <= drawn
    BY <1>0, <1>4, <1>a
  <2>4. a.kind \notin {"list", "newTenant"}
    BY <1>0, <1>4
  <2> QED
    BY <1>0, <2>1, <2>2, <2>3, <2>4, AnswerSentIsTrue
<1> QED
  BY <1>1, <1>2, <1>3, <1>4 DEF TablesChange

LEMMA AdminStepIsTrue ==
  ASSUME PageOK, PatientAdmin, patient, page = "admin", AdminPageStep
  PROVE  AdminTrue(ui', clicks', ToSet(apps'), drawn', keys')
<1>0. /\ clicks \in Nat /\ ui \in UIStates /\ TablesOK /\ AdminPageOK(ui, clicks, {})
      /\ AdminTrue(ui, clicks, ToSet(apps), drawn, keys)
      /\ None \notin ToSet(apps) /\ Seq(1 .. drawn) \subseteq Seq(Things)
  BY PageAssumption, NoneHasNoApp DEF PageOK, Bound, PatientAdmin
<1>1. CASE AdminUser /\ UNCHANGED adminVars
  <2>1. Click /\ AdminChoice(ui, clicks', ui')
    BY <1>1, AdminUserIs
  <2>2. clicks' = clicks + 1 /\ ui.flight = {}
    BY <2>1, ClickIs
  <2>3. AdminTrue(ui', clicks', ToSet(apps), drawn, keys)
    BY <1>0, <2>1, <2>2, ClickedAdminIsTrue
  <2> QED
    BY <1>1, <2>3 DEF adminVars
<1>2. CASE \E r \in ui.flight : AdminServer(r)
  <2>1. PICK r \in ui.flight : AdminServer(r)
    BY <1>2
  <2>2. r \in Requests /\ r.token # None /\ clicks' = clicks
    BY <1>0, <2>1 DEF UIStates, AdminServer
  <2>3. TablesChange(r) /\ \E a : AdminReplies(r, a) /\ ui' = Replied(ui, r, a)
    BY <1>0, <2>1, <2>2, AdminServerIs
  <2>4. PICK a : AdminReplies(r, a) /\ ui' = Replied(ui, r, a)
    BY <2>3
  <2>5. TablesOK'
    BY <1>0, <2>3, ChangedTablesAreOK
  <2>6. AdminTrue(ui', clicks, ToSet(apps'), drawn', keys')
    BY <1>0, <2>2, <2>3, <2>4, <2>5, ServedAdminIsTrue
  <2> QED
    BY <2>2, <2>6
<1>3. CASE /\ \E r \in ui.flight : AdminAnswerArrives(r) \/ AdminRequestFails(r)
           /\ UNCHANGED <<page, patient, clicks, adminVars>>
  <2>1. PICK r \in ui.flight : AdminAnswerArrives(r) \/ AdminRequestFails(r)
    BY <1>3
  <2>2. r.kind \in {"usage", "list", "keys", "newTenant", "newKey", "revoke"}
    BY <1>0 DEF AdminPageOK, AdminRequest, AdminPanels
  <2>3. AdminAnswered(ui, r, ui')
    BY <2>1, <2>2, AdminAnswerIs
  <2>4. AdminTrue(ui', clicks, ToSet(apps), drawn, keys)
    BY <1>0, <2>3, AnsweredAdminIsTrue
  <2> QED
    BY <1>3, <2>4 DEF adminVars
<1>4. CASE \E a \in ToSet(apps) : DeleteApp(a)
  <2>1. PICK a \in ToSet(apps) : DeleteApp(a)
    BY <1>4
  <2>2. /\ ui' = ui /\ clicks' = clicks /\ drawn' = drawn
        /\ ToSet(apps') = ToSet(apps) \ {a} /\ keys' = keys \ KeysOf(a)
    BY <1>0, <2>1, DeletedAppIs DEF pageVars
  <2>3. \A b \in ToSet(apps') : KeysIn(keys', b) = KeysIn(keys, b)
    BY <2>2 DEF KeysIn, KeysOf
  <2>4. AdminTrue(ui, clicks, ToSet(apps'), drawn, keys')
    <3>1. AdminTrue(ui, clicks, ToSet(apps), drawn, keys)
      BY <1>0
    <3>2. ToSet(apps') \subseteq ToSet(apps)
      BY <2>2
    <3>3. AdminTrue(ui, clicks, ToSet(apps'), drawn, keys')
      BY <2>3, <3>1, <3>2, LostAppIsTrue
    <3> QED
      BY <3>3
  <2> QED
    BY <2>2, <2>4
<1> QED
  BY <1>1, <1>2, <1>3, <1>4 DEF AdminPageStep

LEMMA FirstAdminIsTrue ==
  ASSUME DashboardInit
  PROVE  AdminTrue(ui, clicks, ToSet(apps), drawn, keys)
<1>1. ui = BlankPage /\ apps = << >> /\ drawn = 0 /\ keys = {}
  BY DEF DashboardInit, Init
<1>2. /\ BlankPage.flight = {} /\ BlankPage.selected = None /\ BlankPage.list = << >>
      /\ BlankPage.panel["list"] = NoRows /\ BlankPage.panel["usage"] = NoRows
      /\ ToSet(apps) = {}
  BY <1>1, BlankPageIs, AdminPanelNames, RowsAreThings DEF Context
<1>3. ToSet(NoRows.rows) = {} /\ NoRows.rows = << >> /\ NoRows.state # "success"
  BY PanelStatesDiffer DEF ToSet
<1>4. ListIsShown(BlankPage, 0)
  <2>1. << >> \in Seq(1 .. 0)
    OBVIOUS
  <2> QED
    BY <1>2, <1>3, <2>1 DEF ListIsShown
<1>5. SelectionTrue(BlankPage, ToSet(apps), keys)
  BY <1>2, <1>3 DEF SelectionTrue
<1>6. AdminTrue(BlankPage, clicks, ToSet(apps), 0, keys)
  BY <1>2, <1>4, <1>5, NoRequests
<1> QED
  BY <1>1, <1>6

(* On the page of an operator who waits, whatever other clients delete:    *)
(* nothing but usage and keys are asked for together, for the tenant that  *)
(* is selected; a list that is under way has every app the server has, and *)
(* the keys are the server's own, with the buttons of those not yet        *)
(* revoked, or their panel is loading, or says that a request failed.      *)
THEOREM PatientAdminHolds == Spec => []PatientAdmin
<1>1. DashboardInit => PatientAdmin
  BY FirstAdminIsTrue DEF PatientAdmin
<1>2. PageOK /\ PatientAdmin /\ [Next]_vars => PatientAdmin'
  <2> SUFFICES ASSUME PageOK, PatientAdmin, [Next]_vars, patient', page' = "admin"
               PROVE  AdminTrue(ui', clicks', ToSet(apps'), drawn', keys')
    BY DEF PatientAdmin
  <2>1. CASE page = "admin" /\ AdminPageStep
    BY <2>1, AdminStepIsTrue, AdminStepStays
  <2>2. CASE page = "tenant" /\ TenantPageStep
    <3>1. page' = page
      BY <2>2, TenantStepStays
    <3> QED
      BY <2>2, <3>1
  <2>3. CASE UNCHANGED vars
    BY <2>3 DEF PatientAdmin, vars, pageVars, adminVars
  <2> QED
    BY <2>1, <2>2, <2>3 DEF Next
<1> QED
  BY <1>1, <1>2, PagesInductive, PTL DEF Spec

LEMMA AdminSees ==
  ASSUME PageOK, PanelsSettle, PatientAdmin, patient, Idle, page = "admin"
  PROVE  AdminSeesTheTruth
<1>1. ListIsShown(ui, drawn) /\ SelectionTrue(ui, ToSet(apps), keys)
  BY NoRequests DEF PatientAdmin, Idle
<1>2. \A p \in Panels : ui.panel[p].state # "loading"
  BY DEF PanelsSettle, StateOf
<1>3. \A p \in {"newTenant", "newKey", "keys"} : StateOf(p) # "error" => Done(ui, p)
  BY <1>2, AdminPanelNames DEF Done, StateOf, Context
<1>4. Shown("list") = ui.list /\ (StateOf("list") = "success" => ui.list # << >>)
  BY <1>1 DEF ListIsShown, Shown, StateOf
<1>5. ToSet(Shown("usage")) \subseteq {ui.selected}
  BY <1>1 DEF SelectionTrue, Shown
<1>6. ui.selected # None => ui.selected \in ToSet(Shown("list"))
  BY <1>1, <1>4 DEF SelectionTrue
<1>7. StateOf("list") = "success" /\ StateOf("newTenant") # "error" =>
         ToSet(apps) \subseteq ToSet(Shown("list"))
  BY <1>1, <1>3, <1>4 DEF SelectionTrue
<1>8. /\ ui.selected \in ToSet(apps)
      /\ StateOf("keys") # "error" /\ StateOf("newKey") # "error"
      => /\ ToSet(Shown("keys")) = IdsOf(KeysOf(ui.selected))
         /\ IsInjective(Shown("keys"))
         /\ ui.revocable = IdsOf(Unrevoked(KeysOf(ui.selected)))
  BY <1>1, <1>3 DEF SelectionTrue, Shown, KeysExact, KeysIn, KeysOf
<1> QED
  BY <1>5, <1>6, <1>7, <1>8 DEF AdminSeesTheTruth

(* A user who waits for the answers sees, on either page, what the server  *)
(* has (PatientSeesTheTruth): the answers of the last click, each in the   *)
(* panel that asked, about what is selected now; the messages in order,    *)
(* each once, and none missing between two of them; every app, and the     *)
(* keys of the selected one.                                               *)
THEOREM PatientSees == Spec => []PatientSeesTheTruth
<1>1. PageOK /\ PanelsSettle /\ PatientTenant /\ PatientAdmin => PatientSeesTheTruth
  BY TenantSees, AdminSees DEF PatientSeesTheTruth
<1> QED
  BY <1>1, PagesInductive, PanelsAlwaysSettle, PatientTenantHolds, PatientAdminHolds, PTL
=============================================================================
