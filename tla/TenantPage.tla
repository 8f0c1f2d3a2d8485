----------------------------- MODULE TenantPage -----------------------------
(***************************************************************************)
(* The tenant page of src/dashboard.ts (tenantScript) over the API that it *)
(* reads: the pages of GET /v1/messages (src/messages.ts), and usage,      *)
(* endpoints, deliveries and attempts, of which only whose they are        *)
(* matters.                                                                *)
(*                                                                         *)
(* A message is its id, a number: ids are random, so the order in which    *)
(* messages are accepted is not the order of their ids.                    *)
(***************************************************************************)
EXTENDS DashboardPage, Listings

CONSTANTS
    Keys,       \* API keys, one of each tenant
    TenantOf,   \* messages.app_id, as the tenant's key
    CreatedAt,  \* messages.created_at
    PageSize    \* the limit of a page

Messages == DOMAIN CreatedAt

ASSUME TenantAssumption ==
    /\ None \notin Keys \cup Messages
    /\ CreatedAt \in [Messages -> Nat] /\ Messages \subseteq Nat
    /\ TenantOf \in [Messages -> Keys]
    /\ PageSize \in Nat \ {0}

VARIABLE accepted   \* the messages table

-----------------------------------------------------------------------------
(* The server *)

(* A message is accepted; the clock it is stamped with does not step back. *)
Accept(m) ==
    /\ m \notin accepted
    /\ \A n \in accepted : CreatedAt[n] <= CreatedAt[m]
    /\ accepted' = accepted \cup {m}
    /\ UNCHANGED pageVars

(* ORDER BY created_at DESC, id DESC; before it, a variant that leaves the *)
(* order of messages of the same moment to chance.                         *)
MerelyNewer(m, n) == CreatedAt[m] > CreatedAt[n]
Newer(m, n) ==
    \/ CreatedAt[m] > CreatedAt[n]
    \/ CreatedAt[m] = CreatedAt[n] /\ m > n

(* The WHERE clause of a page. *)
IsAfterByTime(m, cursor) == cursor = None \/ MerelyNewer(cursor, m)
IsAfter(m, cursor) == cursor = None \/ Newer(cursor, m)

NewestFirst == {p \in Messages \X Messages : Newer(p[1], p[2])}

ListMessages(key, cursor) ==
    LET rows == {m \in accepted : TenantOf[m] = key /\ IsAfter(m, cursor)}
    IN  Page(OrderBy(rows, NewestFirst), PageSize, None)

HandleList(r) ==
    LET found == ListMessages(r.token, r.of)
    IN  /\ r.kind = "list" /\ ~r.handled
        /\ r.token # None
        /\ AnswerIsUnderWay(r, [Handled(r, found.data) EXCEPT
                                   !.more = found.nextCursor, !.asOf = accepted])
        /\ UNCHANGED <<page, patient, clicks, accepted>>

(* getMessage, messageBelongsToTenant *)
IsMessageOf(key, m) == TenantOf[m] = key

(* The other reads: it does not matter when the server looks.  A message   *)
(* of another tenant is not found.                                         *)
Found(r) ==
    CASE r.kind = "usage" -> {<<r.of>>}
      [] r.kind = "endpoints" -> {<< >>, <<r.of>>}
      [] OTHER -> IF IsMessageOf(r.token, r.of) THEN {<< >>, <<r.of>>} ELSE {}

-----------------------------------------------------------------------------
(* The script *)

RenderMessages(u) ==
    [RenderList(u) EXCEPT !.loadMore = u.list # << >> /\ u.cursor # None]

(* Before it, a variant that keeps the cursor when it starts over. *)
LoadMessagesFromCursor(u, click, reset) ==
    LET start == IF reset THEN RenderMessages([u EXCEPT !.list = << >>]) ELSE u
    IN  Api([SetStatus(start, "list", "loading") EXCEPT !.loadMore = FALSE],
            [Request(start, click, "list", start.cursor) EXCEPT
                !.reset = reset, !.joint = reset])
LoadMessages(u, click, reset) ==
    LET start == IF reset
                 THEN RenderMessages([u EXCEPT !.list = << >>, !.cursor = None])
                 ELSE u
    IN  Api([SetStatus(start, "list", "loading") EXCEPT !.loadMore = FALSE],
            [Request(start, click, "list", start.cursor) EXCEPT
                !.reset = reset, !.joint = reset])

MessagesLoaded(u, r) ==
    RenderMessages([u EXCEPT !.list = IF r.reset THEN r.rows ELSE @ \o r.rows,
                             !.cursor = r.more,
                             !.since = IF r.reset THEN r.asOf ELSE @])

(* All that is loaded together, the selected message's panels included. *)
LoadTenant(u, click) ==
    LET Joint(kind, of) == [Request(u, click, kind, of) EXCEPT !.joint = TRUE]
        context == Load(Load(SetStatus(u, "auth", "loading"), Joint("usage", u.token)),
                        Joint("endpoints", u.token))
        all == LoadMessages(context, click, TRUE)
    IN  IF u.token = None THEN SetStatus(u, "auth", "error")
        ELSE IF u.selected = None THEN all
        ELSE Load(Load(all, Joint("deliveries", u.selected)), Joint("attempts", u.selected))

SelectMessage(u, click, m) ==
    LET shown == RenderMessages([u EXCEPT !.selected = m])
    IN  Load(Load(shown, Request(u, click, "deliveries", m)),
             Request(u, click, "attempts", m))

(* Before it, a variant that leaves the panels as they are. *)
ForgetSelectedMessage(u) == [u EXCEPT !.selected = None]
ClearSelectedMessage(u) ==
    WithPanel(WithPanel([u EXCEPT !.selected = None], "deliveries", NoRows),
              "attempts", NoRows)

(* Promise.all of loadTenant: settled by its last answer or by the first   *)
(* error that is thrown on, which those of the selected message are not.   *)
Partners(u, r) == {q \in u.flight : q.click = r.click /\ q.joint}
Resolved(u, r) ==
    IF r.joint /\ Partners(u, r) = {} THEN SetStatus(u, "auth", "success") ELSE u
Rejected(u, r) ==
    IF r.joint
    THEN [SetStatus(u, "auth", "error") EXCEPT
             !.flight = {IF q \in Partners(u, r) THEN [q EXCEPT !.joint = FALSE] ELSE q :
                            q \in u.flight}]
    ELSE u

ListArrives(r) ==
    /\ r.kind = "list" /\ r.handled
    /\ ui' = Resolved(MessagesLoaded(Arrived(ui, r), r), r)

ReadArrives(r) ==
    /\ r.kind # "list"
    /\ r.token # None
    /\ \E rows \in Found(r) : ui' = Resolved(Loaded(Arrived(ui, r), r, rows), r)

(* An error answer, a lost connection, or a key that is not accepted.      *)
(* Before it, a variant that forgets to report it.                         *)
SilentFailure(r) ==
    IF r.kind \in {"usage", "endpoints", "list"}
    THEN ui' = Rejected(Arrived(ui, r), r)
    ELSE ui' = Resolved(Arrived(ui, r), r)
TenantRequestFails(r) ==
    LET failed == SetStatus(Arrived(ui, r), r.kind, "error")
    IN  ui' = IF r.kind \in {"usage", "endpoints", "list"}
              THEN Rejected(failed, r) ELSE Resolved(failed, r)

SubmitKey(key) ==
    /\ Click
    /\ ui' = LoadTenant(ClearSelectedMessage([ui EXCEPT !.token = key, !.list = << >>,
                                                        !.cursor = None]),
                        clicks')

RefreshTenant == Click /\ ui' = LoadTenant(ui, clicks')

LoadMore == ui.loadMore /\ Click /\ ui' = LoadMessages(ui, clicks', FALSE)

Inspect(m) ==
    /\ m \in ToSet(ui.panel["list"].rows)
    /\ Click
    /\ ui' = SelectMessage(ui, clicks', m)

TenantUser ==
    \/ \E key \in Keys \cup {None} : SubmitKey(key)
    \/ RefreshTenant
    \/ LoadMore
    \/ \E m \in Messages : Inspect(m)

TenantPageStep ==
    \/ /\ TenantUser
       /\ UNCHANGED accepted
    \/ /\ \E r \in ui.flight : ListArrives(r) \/ ReadArrives(r) \/ TenantRequestFails(r)
       /\ UNCHANGED <<page, patient, clicks, accepted>>
    \/ \E r \in ui.flight : HandleList(r)
    \/ \E m \in Messages : Accept(m)
=============================================================================
