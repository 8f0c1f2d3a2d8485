------------------------ MODULE TenantResourcesProofs ------------------------
(***************************************************************************)
(* Proofs about TenantResources, for any number of tenants, keys, names    *)
(* and requests: types, references and ownership.                          *)
(***************************************************************************)
EXTENDS TenantResources, TLAPS

(* The two invariants hold each other up: a session is for an endpoint of  *)
(* its own app, so that what an app's deletion takes with it is the same   *)
(* seen from the session and from the endpoint.                            *)
Inv == TypeOK /\ ReferencesAreIntact

USE DEF Id, Version

(* Whoever waits for a body has been authenticated. *)
LEMMA RequestHasApp ==
    ASSUME TypeOK, NEW r \in Requests, BodyArrives(r)
    PROVE  /\ request[r] \in Apps
           /\ writer' = request[r]
           /\ now' = now
           /\ request' \in [Requests -> Apps \cup {None}]
           /\ writer' \in Apps
BY DEF TypeOK, BodyArrives

LEMMA ActorHasApp ==
    ASSUME TypeOK, NEW k \in Keys, ActsAtOnce(k)
    PROVE  AppOf[k] \in Apps /\ writer' = AppOf[k]
           /\ UNCHANGED <<now, request, drawn>>
BY ResourcesAssumption DEF TypeOK, ActsAtOnce

(* An id that is drawn is an id. *)
LEMMA InsertedId ==
    ASSUME TypeOK, Insert
    PROVE  drawn' \in Id /\ drawn' \in 0 .. MaxIds
BY ResourcesAssumption DEF TypeOK, Insert

(* A PATCH changes the version of a row and nothing else. *)
LEMMA UpdatedEndpoint ==
    ASSUME NEW e \in Endpoint, e.version < MaxVersion
    PROVE  [e EXCEPT !.version = @ + 1]
               = [id |-> e.id, app |-> e.app, version |-> e.version + 1]
BY ResourcesAssumption DEF Endpoint

LEMMA UpdatedEventType ==
    ASSUME NEW t \in EventType, t.version < MaxVersion
    PROVE  [t EXCEPT !.version = @ + 1]
               = [id |-> t.id, app |-> t.app, name |-> t.name,
                  version |-> t.version + 1, archived |-> t.archived]
BY ResourcesAssumption DEF EventType

LEMMA ArchivedEventType ==
    ASSUME NEW t \in EventType
    PROVE  /\ [t EXCEPT !.archived = TRUE] \in EventType
           /\ [t EXCEPT !.archived = TRUE].app = t.app
           /\ [t EXCEPT !.archived = TRUE].archived
<1> DEFINE new == [t EXCEPT !.archived = TRUE]
<1>1. new \in EventType
  BY Zenon DEF EventType
<1>2. DOMAIN t = {"id", "app", "name", "version", "archived"}
  BY DEF EventType
<1>3. new.app = t.app
  BY <1>2, Zenon
<1>4. new.archived = TRUE
  BY <1>2, Zenon
<1> QED
  BY <1>1, <1>3, <1>4

-----------------------------------------------------------------------------
LEMMA InitInv == Init => Inv
<1> SUFFICES ASSUME Init PROVE Inv
  OBVIOUS
<1>1. TypeOK
  <2>1. now \in 0 .. MaxTime /\ drawn \in 0 .. MaxIds
    BY ResourcesAssumption DEF Init
  <2>2. request \in [Requests -> Apps \cup {None}]
    BY DEF Init
  <2> QED
    BY <2>1, <2>2 DEF Init, TypeOK
<1>2. ReferencesAreIntact
  <2>1. \A k \in liveKeys : AppOf[k] \in apps
    BY ResourcesAssumption DEF Init
  <2> QED
    BY <2>1 DEF Init, ReferencesAreIntact
<1> QED
  BY <1>1, <1>2 DEF Inv

LEMMA QuietInv ==
    ASSUME Inv, UNCHANGED tables, now' \in 0 .. MaxTime,
           request' \in [Requests -> Apps \cup {None}], drawn' \in 0 .. MaxIds,
           writer' \in Apps \cup {None}
    PROVE  Inv'
BY DEF Inv, TypeOK, ReferencesAreIntact, tables

LEMMA CreateEndpointInv ==
    ASSUME Inv, NEW r \in Requests, CreateEndpoint(r)
    PROVE  Inv'
<1> DEFINE new == [id |-> drawn', app |-> request[r], version |-> 0]
<1>1. new \in Endpoint /\ new.app \in apps
  BY RequestHasApp, InsertedId, ResourcesAssumption
     DEF Inv, CreateEndpoint, Endpoint, ReferencesApp
<1>2. /\ endpoints' = endpoints \cup {new}
      /\ UNCHANGED <<now, apps, liveKeys, eventTypes, sessions>>
  BY RequestHasApp DEF Inv, CreateEndpoint
<1> HIDE DEF new
<1>3. TypeOK'
  BY <1>1, <1>2, RequestHasApp, InsertedId DEF Inv, TypeOK, CreateEndpoint
<1>4. ReferencesAreIntact'
  BY <1>2 DEF Inv, ReferencesAreIntact
<1> QED
  BY <1>3, <1>4 DEF Inv

LEMMA UpdateEndpointInv ==
    ASSUME Inv, NEW r \in Requests, NEW e \in endpoints, UpdateEndpoint(r, e)
    PROVE  Inv'
<1> DEFINE new == [e EXCEPT !.version = @ + 1]
<1>0. e \in Endpoint /\ e.version < MaxVersion
  BY DEF Inv, TypeOK, UpdateEndpoint
<1>1. new \in Endpoint /\ new.id = e.id /\ new.app = e.app
  BY <1>0, UpdatedEndpoint, ResourcesAssumption DEF Endpoint
<1>2. /\ endpoints' = (endpoints \ {e}) \cup {new}
      /\ UNCHANGED <<now, apps, liveKeys, eventTypes, sessions, drawn>>
  BY RequestHasApp DEF Inv, UpdateEndpoint, Updated
<1> HIDE DEF new
<1>3. TypeOK'
  BY <1>1, <1>2, RequestHasApp DEF Inv, TypeOK, UpdateEndpoint
<1>4. ReferencesAreIntact'
  BY <1>1, <1>2 DEF Inv, ReferencesAreIntact
<1> QED
  BY <1>3, <1>4 DEF Inv

LEMMA DeleteEndpointInv ==
    ASSUME Inv, NEW k \in Keys, NEW e \in endpoints, DeleteEndpoint(k, e)
    PROVE  Inv'
<1>1. /\ endpoints' = endpoints \ {e}
      /\ sessions' = {s \in sessions : s.endpoint # e.id}
      /\ UNCHANGED <<now, apps, liveKeys, eventTypes, request, drawn>>
  BY ActorHasApp DEF Inv, DeleteEndpoint, WithoutEndpoint
<1>2. TypeOK'
  BY <1>1, ActorHasApp DEF Inv, TypeOK, DeleteEndpoint
<1>3. ReferencesAreIntact'
  BY <1>1 DEF Inv, ReferencesAreIntact
<1> QED
  BY <1>2, <1>3 DEF Inv

LEMMA CreateEventTypeInv ==
    ASSUME Inv, NEW r \in Requests, NEW n \in Names, CreateEventType(r, n)
    PROVE  Inv'
<1> DEFINE new == [id |-> drawn', app |-> request[r], name |-> n,
                   version |-> 0, archived |-> FALSE]
<1>1. /\ new \in EventType /\ new.app \in apps
      /\ new.app = request[r] /\ new.name = n
  BY RequestHasApp, InsertedId, ResourcesAssumption
     DEF Inv, CreateEventType, EventType, ReferencesApp
<1>2. /\ eventTypes' = eventTypes \cup {new}
      /\ UNCHANGED <<now, apps, liveKeys, endpoints, sessions>>
  BY RequestHasApp DEF Inv, CreateEventType
<1>3. ~ \E t \in eventTypes : t.app = request[r] /\ t.name = n /\ ~t.archived
  BY DEF CreateEventType, IsActiveName
<1> HIDE DEF new
<1>4. TypeOK'
  BY <1>1, <1>2, RequestHasApp, InsertedId DEF Inv, TypeOK, CreateEventType
<1>5. ReferencesAreIntact'
  BY <1>1, <1>2, <1>3 DEF Inv, ReferencesAreIntact
<1> QED
  BY <1>4, <1>5 DEF Inv

LEMMA UpdateEventTypeInv ==
    ASSUME Inv, NEW r \in Requests, NEW t \in eventTypes, UpdateEventType(r, t)
    PROVE  Inv'
<1> DEFINE new == [t EXCEPT !.version = @ + 1]
<1>0. t \in EventType /\ t.version < MaxVersion
  BY DEF Inv, TypeOK, UpdateEventType
<1>1. /\ new \in EventType /\ new.app = t.app /\ new.name = t.name
      /\ new.archived = t.archived
  BY <1>0, UpdatedEventType, ResourcesAssumption DEF EventType
<1>2. /\ eventTypes' = (eventTypes \ {t}) \cup {new}
      /\ UNCHANGED <<now, apps, liveKeys, endpoints, sessions, drawn>>
  BY RequestHasApp DEF Inv, UpdateEventType, Updated
<1> HIDE DEF new
<1>3. TypeOK'
  BY <1>1, <1>2, RequestHasApp DEF Inv, TypeOK, UpdateEventType
<1>4. ReferencesAreIntact'
  BY <1>1, <1>2 DEF Inv, ReferencesAreIntact
<1> QED
  BY <1>3, <1>4 DEF Inv

LEMMA ArchiveEventTypeInv ==
    ASSUME Inv, NEW k \in Keys, NEW t \in eventTypes, ArchiveEventType(k, t)
    PROVE  Inv'
<1> DEFINE new == [t EXCEPT !.archived = TRUE]
<1>0. t \in EventType
  BY DEF Inv, TypeOK
<1>1. new \in EventType /\ new.app = t.app /\ new.archived
  BY <1>0, ArchivedEventType
<1>2. /\ eventTypes' = (eventTypes \ {t}) \cup {new}
      /\ UNCHANGED <<now, apps, liveKeys, endpoints, sessions, request, drawn>>
  BY ActorHasApp DEF Inv, ArchiveEventType
<1> HIDE DEF new
<1>3. TypeOK'
  BY <1>1, <1>2, ActorHasApp DEF Inv, TypeOK, ArchiveEventType
<1>4. ReferencesAreIntact'
  BY <1>1, <1>2 DEF Inv, ReferencesAreIntact
<1> QED
  BY <1>3, <1>4 DEF Inv

LEMMA CreatePortalSessionInv ==
    ASSUME Inv, NEW r \in Requests, NEW id \in Id \cup {None},
           CreatePortalSession(r, id)
    PROVE  Inv'
<1> DEFINE new == [id |-> drawn', app |-> request[r], endpoint |-> id,
                   expiresAt |-> now + Ttl]
<1>1. /\ new \in Session /\ new.app \in apps
      /\ new.app = request[r] /\ new.endpoint = id
  BY RequestHasApp, InsertedId, ResourcesAssumption
     DEF Inv, TypeOK, CreatePortalSession, Session, ReferencesApp
<1>2. /\ sessions' = sessions \cup {new}
      /\ UNCHANGED <<now, apps, liveKeys, endpoints, eventTypes>>
  BY RequestHasApp DEF Inv, CreatePortalSession
<1>3. id # None => \E e \in endpoints : e.id = id /\ e.app = request[r]
  BY DEF CreatePortalSession, EndpointIsFound, Owned
<1> HIDE DEF new
<1>4. TypeOK'
  BY <1>1, <1>2, RequestHasApp, InsertedId DEF Inv, TypeOK, CreatePortalSession
<1>5. ReferencesAreIntact'
  BY <1>1, <1>2, <1>3 DEF Inv, ReferencesAreIntact
<1> QED
  BY <1>4, <1>5 DEF Inv

LEMMA RevokeKeyInv ==
    ASSUME Inv, NEW k \in Keys, RevokeKey(k)
    PROVE  Inv'
BY ResourcesAssumption DEF Inv, TypeOK, ReferencesAreIntact, RevokeKey

LEMMA DeleteAppInv ==
    ASSUME Inv, NEW a \in Apps, DeleteApp(a)
    PROVE  Inv'
<1>1. TypeOK'
  BY DEF Inv, TypeOK, DeleteApp
<1>2. ReferencesAreIntact'
  BY DEF Inv, TypeOK, ReferencesAreIntact, DeleteApp
<1> QED
  BY <1>1, <1>2 DEF Inv

LEMMA NextInv == Inv /\ [Next]_vars => Inv'
<1> SUFFICES ASSUME Inv, [Next]_vars PROVE Inv'
  OBVIOUS
<1>1. CASE Tick
  <2>1. now' \in 0 .. MaxTime
    BY <1>1, ResourcesAssumption DEF Tick, Inv, TypeOK
  <2> QED
    BY <1>1, <2>1, QuietInv DEF Tick, Inv, TypeOK
<1>2. ASSUME NEW r \in Requests, NEW k \in Keys, Authenticate(r, k) PROVE Inv'
  <2>1. AppOf[k] \in Apps
    BY ResourcesAssumption
  <2>2. request' \in [Requests -> Apps \cup {None}]
    BY <1>2, <2>1 DEF Authenticate, Inv, TypeOK
  <2>3. UNCHANGED <<now, tables, drawn>> /\ writer' = None
    BY <1>2 DEF Authenticate
  <2> QED
    BY <2>2, <2>3, QuietInv DEF Inv, TypeOK
<1>3. ASSUME NEW r \in Requests, RequestEnds(r) PROVE Inv'
  BY <1>3, QuietInv, RequestHasApp DEF RequestEnds, Inv, TypeOK
<1>4. CASE EndpointRequest
  BY <1>4, CreateEndpointInv, UpdateEndpointInv, DeleteEndpointInv
     DEF EndpointRequest
<1>5. CASE EventTypeRequest
  BY <1>5, CreateEventTypeInv, UpdateEventTypeInv, ArchiveEventTypeInv
     DEF EventTypeRequest
<1>6. CASE PortalSessionRequest
  BY <1>6, CreatePortalSessionInv DEF PortalSessionRequest
<1>7. CASE AdminRequest
  BY <1>7, RevokeKeyInv, DeleteAppInv DEF AdminRequest
<1>8. CASE UNCHANGED vars
  BY <1>8, QuietInv DEF vars, Inv, TypeOK
<1> QED
  BY <1>1, <1>2, <1>3, <1>4, <1>5, <1>6, <1>7, <1>8 DEF Next

(* The two invariants of the tables hold of every behaviour. *)
THEOREM ResourcesInductive == Spec => []Inv
<1>1. Init => Inv
  BY InitInv
<1>2. Inv /\ [Next]_vars => Inv'
  BY NextInv
<1> QED
  BY <1>1, <1>2, PTL DEF Spec

(* Every row keeps its type and is of an app that exists, also when the    *)
(* app is deleted while a request that inserts the row awaits its body.    *)
THEOREM TypesAreKept == Spec => []TypeOK
<1>1. Inv => TypeOK
  BY DEF Inv
<1> QED
  BY <1>1, ResourcesInductive, PTL

(* No session outlives its endpoint or is for another tenant's, no key     *)
(* outlives its app, and active event type names are unique.               *)
THEOREM ReferencesStayIntact == Spec => []ReferencesAreIntact
<1>1. Inv => ReferencesAreIntact
  BY DEF Inv
<1> QED
  BY <1>1, ResourcesInductive, PTL

-----------------------------------------------------------------------------
(* Ids are drawn once: the endpoint that a session is for is the only one  *)
(* of its id.                                                              *)
IdsAreUnique ==
    \A e, f \in endpoints : e.id <= drawn /\ (e.id = f.id => e = f)

LEMMA InitUnique == Init => IdsAreUnique
BY DEF Init, IdsAreUnique

LEMMA FewerEndpoints ==
    ASSUME IdsAreUnique, endpoints' \subseteq endpoints, drawn' = drawn
    PROVE  IdsAreUnique'
BY DEF IdsAreUnique

LEMMA InsertKeepsIds ==
    ASSUME Inv, IdsAreUnique, Insert, endpoints' = endpoints
    PROVE  IdsAreUnique'
<1>1. /\ drawn \in Nat /\ drawn' = drawn + 1
      /\ \A e \in endpoints : e.id \in Nat
  BY ResourcesAssumption DEF Inv, TypeOK, Insert, Endpoint
<1> QED
  BY <1>1 DEF IdsAreUnique

LEMMA CreateEndpointUnique ==
    ASSUME Inv, IdsAreUnique, NEW r \in Requests, CreateEndpoint(r)
    PROVE  IdsAreUnique'
<1> DEFINE new == [id |-> drawn', app |-> request[r], version |-> 0]
<1>1. /\ drawn \in Nat /\ drawn' = drawn + 1
      /\ \A e \in endpoints : e.id \in Nat
  BY ResourcesAssumption DEF Inv, TypeOK, CreateEndpoint, Insert, Endpoint
<1>2. endpoints' = endpoints \cup {new} /\ new.id = drawn'
  BY DEF CreateEndpoint
<1> HIDE DEF new
<1> QED
  BY <1>1, <1>2 DEF IdsAreUnique

LEMMA UpdateEndpointUnique ==
    ASSUME Inv, IdsAreUnique, NEW r \in Requests, NEW e \in endpoints,
           UpdateEndpoint(r, e)
    PROVE  IdsAreUnique'
<1> DEFINE new == [e EXCEPT !.version = @ + 1]
<1>1. new.id = e.id
  BY UpdatedEndpoint DEF Inv, TypeOK, UpdateEndpoint
<1>2. endpoints' = (endpoints \ {e}) \cup {new} /\ drawn' = drawn
  BY DEF UpdateEndpoint, Updated
<1> HIDE DEF new
<1> QED
  BY <1>1, <1>2 DEF IdsAreUnique

LEMMA NextUnique == Inv /\ IdsAreUnique /\ [Next]_vars => IdsAreUnique'
<1> SUFFICES ASSUME Inv, IdsAreUnique, [Next]_vars PROVE IdsAreUnique'
  OBVIOUS
<1>1. CASE Tick
  BY <1>1, FewerEndpoints DEF Tick, tables
<1>2. ASSUME NEW r \in Requests, NEW k \in Keys, Authenticate(r, k)
      PROVE  IdsAreUnique'
  BY <1>2, FewerEndpoints DEF Authenticate, tables
<1>3. ASSUME NEW r \in Requests, RequestEnds(r) PROVE IdsAreUnique'
  BY <1>3, FewerEndpoints DEF RequestEnds, tables
<1>4. CASE EndpointRequest
  <2>1. ASSUME NEW k \in Keys, NEW e \in endpoints, DeleteEndpoint(k, e)
        PROVE  IdsAreUnique'
    BY <2>1, FewerEndpoints DEF DeleteEndpoint, ActsAtOnce
  <2> QED
    BY <1>4, <2>1, CreateEndpointUnique, UpdateEndpointUnique
       DEF EndpointRequest
<1>5. CASE EventTypeRequest
  <2>1. ASSUME NEW r \in Requests, NEW n \in Names, CreateEventType(r, n)
        PROVE  IdsAreUnique'
    BY <2>1, InsertKeepsIds DEF CreateEventType
  <2>2. ASSUME NEW r \in Requests, NEW t \in eventTypes, UpdateEventType(r, t)
        PROVE  IdsAreUnique'
    BY <2>2, FewerEndpoints DEF UpdateEventType
  <2>3. ASSUME NEW k \in Keys, NEW t \in eventTypes, ArchiveEventType(k, t)
        PROVE  IdsAreUnique'
    BY <2>3, FewerEndpoints DEF ArchiveEventType, ActsAtOnce
  <2> QED
    BY <1>5, <2>1, <2>2, <2>3 DEF EventTypeRequest
<1>6. CASE PortalSessionRequest
  BY <1>6, InsertKeepsIds DEF PortalSessionRequest, CreatePortalSession
<1>7. CASE AdminRequest
  BY <1>7, FewerEndpoints DEF AdminRequest, RevokeKey, DeleteApp
<1>8. CASE UNCHANGED vars
  BY <1>8, FewerEndpoints DEF vars, tables
<1> QED
  BY <1>1, <1>2, <1>3, <1>4, <1>5, <1>6, <1>7, <1>8 DEF Next

LEMMA QuietOwners ==
    ASSUME Inv, UNCHANGED tables, now' \in Nat, now' >= now
    PROVE  OwnersStep
<1>1. now \in Nat
  BY ResourcesAssumption DEF Inv, TypeOK
<1>2. \A s \in sessions : s.expiresAt \in Nat
  BY DEF Inv, TypeOK, Session
<1>3. \A s \in sessions : IsValid(s)' => IsValid(s)
  BY <1>1, <1>2 DEF IsValid, tables
<1> QED
  BY <1>3 DEF OwnersStep, tables

(* While the clock stands, a session that is valid was valid if it was     *)
(* there at all.                                                           *)
LEMMA ValidAtTheMoment ==
    ASSUME now' = now
    PROVE  \A s \in sessions : IsValid(s)' => IsValid(s)
BY DEF IsValid

LEMMA EndpointOwners ==
    ASSUME Inv, IdsAreUnique, EndpointRequest
    PROVE  OwnersStep
<1>1. ASSUME NEW r \in Requests, CreateEndpoint(r) PROVE OwnersStep
  BY <1>1, RequestHasApp, ValidAtTheMoment
     DEF Inv, CreateEndpoint, OwnersStep
<1>2. ASSUME NEW r \in Requests, NEW e \in endpoints, UpdateEndpoint(r, e)
      PROVE  OwnersStep
  <2> DEFINE new == [e EXCEPT !.version = @ + 1]
  <2>1. new.app = e.app
    BY <1>2, UpdatedEndpoint DEF Inv, TypeOK, UpdateEndpoint
  <2>2. /\ endpoints' = (endpoints \ {e}) \cup {new}
        /\ UNCHANGED <<now, apps, eventTypes, sessions>> /\ e.app = writer'
    BY <1>2, RequestHasApp DEF Inv, UpdateEndpoint, Updated, Owned
  <2> HIDE DEF new
  <2> QED
    BY <2>1, <2>2, ValidAtTheMoment DEF OwnersStep
<1>3. ASSUME NEW k \in Keys, NEW e \in endpoints, DeleteEndpoint(k, e)
      PROVE  OwnersStep
  <2>1. /\ endpoints' = endpoints \ {e} /\ e.app = writer'
        /\ UNCHANGED <<now, apps, eventTypes>>
    BY <1>3, ActorHasApp DEF Inv, DeleteEndpoint, Owned
  <2>2. sessions' = {s \in sessions : s.endpoint # e.id}
    BY <1>3 DEF DeleteEndpoint, WithoutEndpoint
  <2>3. \A s \in sessions : s.endpoint = e.id => s.app = writer'
    <3>1. e.id # None
      BY ResourcesAssumption DEF Inv, TypeOK, Endpoint
    <3> QED
      BY <2>1, <3>1 DEF Inv, ReferencesAreIntact, IdsAreUnique
  <2> QED
    BY <2>1, <2>2, <2>3, ValidAtTheMoment DEF OwnersStep
<1> QED
  BY <1>1, <1>2, <1>3 DEF EndpointRequest

LEMMA EventTypeOwners ==
    ASSUME Inv, EventTypeRequest
    PROVE  OwnersStep
<1>1. ASSUME NEW r \in Requests, NEW n \in Names, CreateEventType(r, n)
      PROVE  OwnersStep
  BY <1>1, RequestHasApp, ValidAtTheMoment
     DEF Inv, CreateEventType, OwnersStep
<1>2. ASSUME NEW r \in Requests, NEW t \in eventTypes, UpdateEventType(r, t)
      PROVE  OwnersStep
  <2> DEFINE new == [t EXCEPT !.version = @ + 1]
  <2>1. new.app = t.app
    BY <1>2, UpdatedEventType DEF Inv, TypeOK, UpdateEventType
  <2>2. /\ eventTypes' = (eventTypes \ {t}) \cup {new} /\ ~t.archived
        /\ UNCHANGED <<now, apps, endpoints, sessions>> /\ t.app = writer'
    BY <1>2, RequestHasApp DEF Inv, UpdateEventType, Updated, Owned
  <2> HIDE DEF new
  <2> QED
    BY <2>1, <2>2, ValidAtTheMoment DEF OwnersStep
<1>3. ASSUME NEW k \in Keys, NEW t \in eventTypes, ArchiveEventType(k, t)
      PROVE  OwnersStep
  <2> DEFINE new == [t EXCEPT !.archived = TRUE]
  <2>1. new.app = t.app
    BY ArchivedEventType DEF Inv, TypeOK
  <2>2. /\ eventTypes' = (eventTypes \ {t}) \cup {new} /\ ~t.archived
        /\ UNCHANGED <<now, apps, endpoints, sessions>> /\ t.app = writer'
    BY <1>3, ActorHasApp DEF Inv, ArchiveEventType, Owned
  <2> HIDE DEF new
  <2> QED
    BY <2>1, <2>2, ValidAtTheMoment DEF OwnersStep
<1> QED
  BY <1>1, <1>2, <1>3 DEF EventTypeRequest

LEMMA PortalSessionOwners ==
    ASSUME Inv, PortalSessionRequest
    PROVE  OwnersStep
BY RequestHasApp, ValidAtTheMoment
   DEF Inv, PortalSessionRequest, CreatePortalSession, OwnersStep

LEMMA AdminOwners ==
    ASSUME Inv, AdminRequest
    PROVE  OwnersStep
<1>1. ASSUME NEW k \in Keys, RevokeKey(k) PROVE OwnersStep
  BY <1>1, ValidAtTheMoment DEF RevokeKey, OwnersStep
<1>2. ASSUME NEW a \in Apps, DeleteApp(a) PROVE OwnersStep
  BY <1>2, ValidAtTheMoment DEF DeleteApp, OwnersStep
<1> QED
  BY <1>1, <1>2 DEF AdminRequest

LEMMA NextOwners == Inv /\ IdsAreUnique /\ [Next]_vars => [OwnersStep]_vars
<1> SUFFICES ASSUME Inv, IdsAreUnique, Next PROVE OwnersStep
  OBVIOUS
<1>0. now \in Nat
  BY ResourcesAssumption DEF Inv, TypeOK
<1>1. CASE Tick
  BY <1>0, <1>1, QuietOwners DEF Tick
<1>2. ASSUME NEW r \in Requests, NEW k \in Keys, Authenticate(r, k)
      PROVE  OwnersStep
  BY <1>0, <1>2, QuietOwners DEF Authenticate
<1>3. ASSUME NEW r \in Requests, RequestEnds(r) PROVE OwnersStep
  BY <1>0, <1>3, QuietOwners DEF RequestEnds, BodyArrives
<1> QED
  BY <1>1, <1>2, <1>3, EndpointOwners, EventTypeOwners, PortalSessionOwners,
     AdminOwners DEF Next

(* A request writes rows of its own tenant only, an archived event type is *)
(* never written again, and a session that has expired stays so.           *)
THEOREM RowsAreWrittenForTheirOwner == Spec => OwnersOnly
<1>1. Init => IdsAreUnique
  BY InitUnique
<1>2. Inv /\ IdsAreUnique /\ [Next]_vars => IdsAreUnique'
  BY NextUnique
<1>3. Inv /\ IdsAreUnique /\ [Next]_vars => [OwnersStep]_vars
  BY NextOwners
<1> QED
  BY <1>1, <1>2, <1>3, ResourcesInductive, PTL DEF Spec, OwnersOnly
=============================================================================
