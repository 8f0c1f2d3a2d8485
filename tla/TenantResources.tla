-------------------------- MODULE TenantResources ---------------------------
(***************************************************************************)
(* What a tenant keeps: endpoints, event types and portal sessions, under  *)
(* requests that are authenticated first and wait for their body then,     *)
(* while the admin revokes keys and deletes apps.                          *)
(*                                                                         *)
(* handleEndpointRequest, handleEventTypeRequest and                       *)
(* handlePortalSessionRequest of src/gateway.ts, over src/endpoints.ts,    *)
(* src/event-types.ts, src/portal-sessions.ts and the tables of            *)
(* src/storage.ts.  The rotation of secrets is in SecretRotation, the use  *)
(* of an endpoint by the worker in DeliveryQueue, and the creation of apps *)
(* and keys in AdminPage: here all exist from the start.                   *)
(*                                                                         *)
(* What a PATCH writes is a version of the row.  An id that a request      *)
(* names may be that of any row there is, also of another tenant's.        *)
(***************************************************************************)
EXTENDS Naturals, FiniteSets

CONSTANTS
    Apps,       \* tenants
    Keys,       \* API keys
    AppOf,      \* api_keys.app_id
    Names,      \* event type names
    Requests,   \* requests in flight at the same time
    None,       \* SQL NULL
    Ttl,        \* a portal session's expiresInSeconds
    MaxTime,    \* bound: the clock stops here
    MaxIds,     \* bound: rows that are created
    MaxVersion  \* bound: updates of a row

ASSUME ResourcesAssumption ==
    /\ AppOf \in [Keys -> Apps]
    /\ None \notin Apps /\ None \notin Nat
    /\ Ttl \in Nat \ {0}
    /\ MaxTime \in Nat /\ MaxIds \in Nat /\ MaxVersion \in Nat

VARIABLES
    now,         \* the clock the program reads
    apps,        \* the apps table
    liveKeys,    \* api_keys that are not revoked, of apps that exist
    endpoints,   \* the endpoints table
    eventTypes,  \* the event_types table, archived rows included
    sessions,    \* the portal_sessions table
    request,     \* the app of a request that waits for its body, or None
    drawn,       \* ids drawn so far
    writer       \* history: the app for which the last step wrote, or None

tables == <<apps, liveKeys, endpoints, eventTypes, sessions>>
vars == <<now, tables, request, drawn, writer>>

Id == 1 .. MaxIds
Version == 0 .. MaxVersion
Endpoint == [id : Id, app : Apps, version : Version]
EventType == [id : Id, app : Apps, name : Names, version : Version, archived : BOOLEAN]
Session == [id : Id, app : Apps, endpoint : Id \cup {None}, expiresAt : Nat]

Init ==
    /\ now = 0
    /\ apps = Apps
    /\ liveKeys = Keys
    /\ endpoints = {} /\ eventTypes = {} /\ sessions = {}
    /\ request = [r \in Requests |-> None]
    /\ drawn = 0
    /\ writer = None

Tick ==
    /\ now < MaxTime
    /\ now' = now + 1
    /\ writer' = None
    /\ UNCHANGED <<tables, request, drawn>>

-----------------------------------------------------------------------------
(* A request *)

(* authenticateTenantRequest; then the handler waits for the body. *)
Authenticate(r, k) ==
    /\ request[r] = None
    /\ k \in liveKeys
    /\ request' = [request EXCEPT ![r] = AppOf[k]]
    /\ writer' = None
    /\ UNCHANGED <<now, tables, drawn>>

(* The body arrives, and the handler goes on with the app it had found.    *)
BodyArrives(r) ==
    /\ request[r] # None
    /\ request' = [request EXCEPT ![r] = None]
    /\ writer' = request[r]
    /\ UNCHANGED now

(* The body never comes or is refused, or the handler answers with an      *)
(* error and has written nothing.                                          *)
RequestEnds(r) ==
    /\ BodyArrives(r)
    /\ UNCHANGED <<tables, drawn>>

(* A handler that has no body to wait for acts as it authenticates. *)
ActsAtOnce(k) ==
    /\ k \in liveKeys
    /\ writer' = AppOf[k]
    /\ UNCHANGED <<now, request, drawn>>

-----------------------------------------------------------------------------
(* The statements *)

(* REFERENCES apps(id): an INSERT for an app that is gone throws.  Before  *)
(* it, a variant without the foreign key.                                  *)
AnyAppWillDo(app) == TRUE
ReferencesApp(app) == app \in apps

Insert == drawn < MaxIds /\ drawn' = drawn + 1

(* WHERE app_id = ? AND id = ?; before it, a variant without the tenant.   *)
OfAnyApp(row, app, id) == row.id = id
Owned(row, app, id) == row.app = app /\ row.id = id

(* getActiveEventTypeByName, and the unique index behind it.  Before it, a *)
(* variant that finds archived names only.                                 *)
IsArchivedName(app, name) ==
    \E t \in eventTypes : t.app = app /\ t.name = name /\ t.archived
IsActiveName(app, name) ==
    \E t \in eventTypes : t.app = app /\ t.name = name /\ ~t.archived

Updated(table, row) == (table \ {row}) \cup {[row EXCEPT !.version = @ + 1]}

-----------------------------------------------------------------------------
(* src/endpoints.ts *)

CreateEndpoint(r) ==
    /\ BodyArrives(r)
    /\ ReferencesApp(request[r])
    /\ Insert
    /\ endpoints' = endpoints \cup {[id |-> drawn', app |-> request[r], version |-> 0]}
    /\ UNCHANGED <<apps, liveKeys, eventTypes, sessions>>

UpdateEndpoint(r, e) ==
    /\ BodyArrives(r)
    /\ Owned(e, request[r], e.id)
    /\ e.version < MaxVersion
    /\ endpoints' = Updated(endpoints, e)
    /\ UNCHANGED <<apps, liveKeys, eventTypes, sessions, drawn>>

(* The endpoint's sessions go with it; before it, a variant where they do  *)
(* not (the column once more without ON DELETE CASCADE).                   *)
SessionsStay(e) == sessions
WithoutEndpoint(e) == {s \in sessions : s.endpoint # e.id}
DeleteEndpoint(k, e) ==
    /\ ActsAtOnce(k)
    /\ Owned(e, AppOf[k], e.id)
    /\ endpoints' = endpoints \ {e}
    /\ sessions' = WithoutEndpoint(e)
    /\ UNCHANGED <<apps, liveKeys, eventTypes>>

-----------------------------------------------------------------------------
(* src/event-types.ts *)

CreateEventType(r, name) ==
    /\ BodyArrives(r)
    /\ ReferencesApp(request[r])
    /\ ~IsActiveName(request[r], name)
    /\ Insert
    /\ eventTypes' = eventTypes \cup {[id |-> drawn', app |-> request[r], name |-> name,
                                       version |-> 0, archived |-> FALSE]}
    /\ UNCHANGED <<apps, liveKeys, endpoints, sessions>>

UpdateEventType(r, t) ==
    /\ BodyArrives(r)
    /\ Owned(t, request[r], t.id) /\ ~t.archived
    /\ t.version < MaxVersion
    /\ eventTypes' = Updated(eventTypes, t)
    /\ UNCHANGED <<apps, liveKeys, endpoints, sessions, drawn>>

ArchiveEventType(k, t) ==
    /\ ActsAtOnce(k)
    /\ Owned(t, AppOf[k], t.id) /\ ~t.archived
    /\ eventTypes' = (eventTypes \ {t}) \cup {[t EXCEPT !.archived = TRUE]}
    /\ UNCHANGED <<apps, liveKeys, endpoints, sessions>>

-----------------------------------------------------------------------------
(* src/portal-sessions.ts *)

(* getEndpoint, of the app; a session of the whole app names none. *)
EndpointIsFound(app, id) == id = None \/ \E e \in endpoints : Owned(e, app, id)

CreatePortalSession(r, id) ==
    /\ BodyArrives(r)
    /\ EndpointIsFound(request[r], id)
    /\ ReferencesApp(request[r])
    /\ Insert
    /\ sessions' = sessions \cup {[id |-> drawn', app |-> request[r], endpoint |-> id,
                                   expiresAt |-> now + Ttl]}
    /\ UNCHANGED <<apps, liveKeys, endpoints, eventTypes>>

(* getPortalSessionByToken; nothing ever writes revoked_at. *)
IsValid(s) == s \in sessions /\ s.expiresAt > now

-----------------------------------------------------------------------------
(* src/admin.ts *)

RevokeKey(k) ==
    /\ k \in liveKeys
    /\ liveKeys' = liveKeys \ {k}
    /\ writer' = AppOf[k]
    /\ UNCHANGED <<now, apps, endpoints, eventTypes, sessions, request, drawn>>

(* deleteAdminApp: ON DELETE CASCADE, through the endpoints too. *)
DeleteApp(a) ==
    /\ a \in apps
    /\ apps' = apps \ {a}
    /\ liveKeys' = {k \in liveKeys : AppOf[k] # a}
    /\ endpoints' = {e \in endpoints : e.app # a}
    /\ eventTypes' = {t \in eventTypes : t.app # a}
    /\ sessions' = {s \in sessions : s.app # a}
    /\ writer' = a
    /\ UNCHANGED <<now, request, drawn>>

-----------------------------------------------------------------------------
(* src/gateway.ts *)

EndpointRequest ==
    \/ \E r \in Requests : CreateEndpoint(r)
    \/ \E r \in Requests, e \in endpoints : UpdateEndpoint(r, e)
    \/ \E k \in Keys, e \in endpoints : DeleteEndpoint(k, e)

EventTypeRequest ==
    \/ \E r \in Requests, n \in Names : CreateEventType(r, n)
    \/ \E r \in Requests, t \in eventTypes : UpdateEventType(r, t)
    \/ \E k \in Keys, t \in eventTypes : ArchiveEventType(k, t)

PortalSessionRequest ==
    \E r \in Requests, id \in Id \cup {None} : CreatePortalSession(r, id)

AdminRequest ==
    \/ \E k \in Keys : RevokeKey(k)
    \/ \E a \in Apps : DeleteApp(a)

Next ==
    \/ Tick
    \/ \E r \in Requests, k \in Keys : Authenticate(r, k)
    \/ \E r \in Requests : RequestEnds(r)
    \/ EndpointRequest
    \/ EventTypeRequest
    \/ PortalSessionRequest
    \/ AdminRequest

Spec == Init /\ [][Next]_vars

-----------------------------------------------------------------------------
(* Every row is of an app that exists, also when the app was deleted while *)
(* the request that inserts it waited for its body.                        *)
TypeOK ==
    /\ now \in 0 .. MaxTime
    /\ apps \subseteq Apps /\ liveKeys \subseteq Keys
    /\ endpoints \subseteq Endpoint
    /\ eventTypes \subseteq EventType
    /\ sessions \subseteq Session
    /\ \A row \in endpoints \cup eventTypes \cup sessions : row.app \in apps
    /\ request \in [Requests -> Apps \cup {None}]
    /\ drawn \in 0 .. MaxIds
    /\ writer \in Apps \cup {None}

(* Whatever a request finds gone when its body has arrived: no portal      *)
(* session outlives the endpoint it is for or is for one of another        *)
(* tenant, no key outlives its app, and an app has at most one active      *)
(* event type of a name.                                                   *)
ReferencesAreIntact ==
    /\ \A s \in sessions :
          s.endpoint # None =>
              \E e \in endpoints : e.id = s.endpoint /\ e.app = s.app
    /\ \A k \in liveKeys : AppOf[k] \in apps
    /\ \A t, u \in eventTypes :
          t.app = u.app /\ t.name = u.name /\ ~t.archived /\ ~u.archived => t = u

(* What a step does to a tenant's rows it does for that tenant, or the     *)
(* admin did it to the tenant; and what has ended has ended for good: an   *)
(* archived event type stays as it is, and a portal session that is no     *)
(* longer valid does not become valid again.                               *)
OwnersStep ==
    /\ \A a \in Apps \ {writer'} :
          /\ {e \in endpoints' : e.app = a} = {e \in endpoints : e.app = a}
          /\ {t \in eventTypes' : t.app = a} = {t \in eventTypes : t.app = a}
          /\ {s \in sessions' : s.app = a} = {s \in sessions : s.app = a}
    /\ \A t \in eventTypes : t.archived /\ t.app \in apps' => t \in eventTypes'
    /\ \A s \in sessions : IsValid(s)' => IsValid(s)

OwnersOnly == [][OwnersStep]_vars
=============================================================================
