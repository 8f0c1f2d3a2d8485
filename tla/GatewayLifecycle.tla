-------------------------- MODULE GatewayLifecycle --------------------------
(***************************************************************************)
(* Starting and stopping a gateway: the closure of createGateway in        *)
(* src/gateway.ts, with the scan for a free port, the storage it opens,    *)
(* and the requests that are in flight when it is stopped.                 *)
(*                                                                         *)
(* A session is one start: the HTTP server and the storage connection it   *)
(* made.  Sessions are numbered, and the numbers used again once nothing   *)
(* of a session is left.  What the program does between two events of the  *)
(* network is one step: the continuations of a promise run one after the   *)
(* other, with no other code in between.                                   *)
(***************************************************************************)
EXTENDS Naturals, FiniteSets

CONSTANTS
    Sessions,           \* numbers for sessions
    Handlers,           \* bound: requests in flight at the same time
    MorePorts,          \* ports tried after the configured one
    None,               \* null
    MaxStops            \* bound: stop() calls that wait for the same start()

ASSUME GatewayAssumption ==
    /\ None \notin Sessions \cup Nat
    /\ MorePorts \in Nat
    /\ MaxStops \in Nat

VARIABLES
    server,        \* server
    storage,       \* storage
    address,       \* TRUE iff address is set
    scan,          \* while startPromise is pending: ports tried before
    stopsWaiting,  \* stop() calls that await startPromise
    listening,     \* the servers that accept connections
    open,          \* the storages that are open
    closing,       \* what stop() calls that await closeServer hold
    handler        \* the requests

closure == <<server, storage, address, scan, stopsWaiting>>
vars == <<closure, listening, open, closing, handler>>

SessionOrNone == Sessions \cup {None}

(* A request has no storage until it is authenticated. *)
NoRequest == [phase |-> "idle", on |-> None, storage |-> None]

TypeOK ==
    /\ server \in SessionOrNone
    /\ storage \in SessionOrNone
    /\ address \in BOOLEAN
    /\ scan \in 0 .. MorePorts \cup {None}
    /\ server = None <=> ~address /\ scan = None
    /\ server = None => storage = None
    /\ stopsWaiting \in 0 .. MaxStops
    /\ listening \subseteq Sessions
    /\ open \subseteq Sessions
    /\ closing \subseteq [server : Sessions, storage : SessionOrNone]
    /\ handler \in [Handlers -> [phase : {"idle", "connected", "working"},
                                 on : SessionOrNone, storage : SessionOrNone]]

Init ==
    /\ server = None /\ storage = None /\ address = FALSE
    /\ scan = None /\ stopsWaiting = 0
    /\ listening = {} /\ open = {} /\ closing = {}
    /\ handler = [h \in Handlers |-> NoRequest]

-----------------------------------------------------------------------------
(* start() *)

IsUnused(s) ==
    /\ s \notin {server, storage} \cup listening \cup open
    /\ \A c \in closing : s \notin {c.server, c.storage}
    /\ \A h \in Handlers : s \notin {handler[h].on, handler[h].storage}

(* The first start() of a session opens the storage, or notes that it      *)
(* cannot, and tries the configured port.  Until the session is over,      *)
(* further calls get its address, or wait with this one.  The last session *)
(* may still be closing: stop() forgets it before it awaits its requests.  *)
Start(s) ==
    /\ ~address /\ scan = None
    /\ IsUnused(s)
    /\ server' = s
    /\ \/ storage' = s /\ open' = open \cup {s}
       \/ UNCHANGED <<storage, open>>
    /\ scan' = 0
    /\ UNCHANGED <<address, stopsWaiting, listening, closing, handler>>

(* The port is in use: try the next one. *)
PortIsTaken ==
    /\ scan # None /\ scan < MorePorts
    /\ scan' = scan + 1
    /\ UNCHANGED <<server, storage, address, stopsWaiting, listening, open,
                   closing, handler>>

(* stop(), once no start is pending: it takes the session and awaits the   *)
(* end of its connections.  listens is the set of listening servers; one   *)
(* that does not listen is not waited for.                                 *)
TakeSession(listens) ==
    /\ server' = None /\ storage' = None /\ address' = FALSE
    /\ IF server \in listens
       THEN /\ listening' = listens \ {server}
            /\ closing' = closing \cup {[server |-> server, storage |-> storage]}
            /\ UNCHANGED open
       ELSE /\ listening' = listens
            /\ open' = open \ {storage}
            /\ UNCHANGED closing

(* The server listens: start() is done, and the stop() calls that waited   *)
(* for it run at once.  The first takes the session, the others nothing.   *)
ListenSucceeds ==
    /\ scan # None
    /\ scan' = None
    /\ stopsWaiting' = 0
    /\ IF stopsWaiting = 0
       THEN /\ address' = TRUE
            /\ listening' = listening \cup {server}
            /\ UNCHANGED <<server, storage, open, closing>>
       ELSE TakeSession(listening \cup {server})
    /\ UNCHANGED handler

(* What a failed start leaves in server; before it, a variant that forgets *)
(* to clear it.                                                            *)
FailedServer == server
NoServer == None

(* Every port is in use, or listening failed otherwise: start() cleans up  *)
(* after itself and rejects; stop() calls that waited have nothing to do.  *)
ListenFails ==
    /\ scan # None
    /\ scan' = None
    /\ stopsWaiting' = 0
    /\ server' = NoServer /\ storage' = None
    /\ open' = open \ {storage}
    /\ UNCHANGED <<address, listening, closing, handler>>

-----------------------------------------------------------------------------
(* stop() waits for a pending start; before it, a variant that does not.   *)
NeverAwaitsStart == FALSE
AwaitsStart == scan # None

StopWaits ==
    /\ AwaitsStart
    /\ stopsWaiting < MaxStops
    /\ stopsWaiting' = stopsWaiting + 1
    /\ UNCHANGED <<server, storage, address, scan, listening, open, closing,
                   handler>>

Stop ==
    /\ ~AwaitsStart
    /\ server # None
    /\ TakeSession(listening)
    /\ UNCHANGED <<scan, stopsWaiting, handler>>

(* closeServer awaits the connections of the server that still have a      *)
(* request; before it, a variant that does not.                            *)
ConnectionsAreLeft(c) == TRUE
ConnectionsHaveEnded(c) == \A h \in Handlers : handler[h].on # c.server

CloseStorage(c) ==
    /\ c \in closing
    /\ ConnectionsHaveEnded(c)
    /\ closing' = closing \ {c}
    /\ open' = open \ {c.storage}
    /\ UNCHANGED <<closure, listening, handler>>

-----------------------------------------------------------------------------
(* Requests *)

(* A connection is accepted, and its request begins to arrive. *)
Connect(h) ==
    /\ handler[h].phase = "idle"
    /\ \E s \in listening :
          handler' = [handler EXCEPT ![h] = [phase |-> "connected", on |-> s, storage |-> None]]
    /\ UNCHANGED <<closure, listening, open, closing>>

(* authenticateTenantRequest, authenticateAdminRequest: the handler takes  *)
(* the storage of the moment and keeps it across its awaits.  Without one  *)
(* it answers 503.                                                         *)
Authenticate(h) ==
    /\ handler[h].phase = "connected"
    /\ storage # None
    /\ handler' = [handler EXCEPT ![h] =
                     [phase |-> "working", on |-> handler[h].on, storage |-> storage]]
    /\ UNCHANGED <<closure, listening, open, closing>>

(* The request is answered (503 if there is no storage), or its client is  *)
(* gone; a handler that waits for the body of such a request gives up, one *)
(* that waits for the answer to a test request no longer needs the storage.*)
RequestEnds(h) ==
    /\ handler[h].phase # "idle"
    /\ handler' = [handler EXCEPT ![h] = NoRequest]
    /\ UNCHANGED <<closure, listening, open, closing>>

-----------------------------------------------------------------------------
Next ==
    \/ \E s \in Sessions : Start(s)
    \/ PortIsTaken
    \/ ListenSucceeds
    \/ ListenFails
    \/ StopWaits
    \/ Stop
    \/ \E c \in closing : CloseStorage(c)
    \/ \E h \in Handlers : Connect(h)
    \/ \E h \in Handlers : Authenticate(h)
    \/ \E h \in Handlers : RequestEnds(h)

Spec == Init /\ [][Next]_vars

-----------------------------------------------------------------------------
(* gateway.ts:120-138, 189-198: however start() and stop() calls overlap,  *)
(* and whether the start fails, a server that listens is the one the next  *)
(* stop() closes, and an open storage is that one's, or a pending stop's.  *)
NothingLeaks ==
    /\ listening \subseteq {server} \ {None}
    /\ address <=> listening # {}
    /\ open \subseteq {storage} \cup {c.storage : c \in closing}

(* gateway.ts:136-137: stop() closes a storage only when no request of its *)
(* session works with it any more, not even one that was authenticated     *)
(* long ago and still sends its body.                                      *)
ClosedStorageIsUnused ==
    \A h \in Handlers :
        handler[h].phase = "working" /\ handler[h].storage = handler[h].on
            => handler[h].storage \in open
=============================================================================
