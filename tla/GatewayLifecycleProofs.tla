----------------------- MODULE GatewayLifecycleProofs -----------------------
(***************************************************************************)
(* However start() and stop() calls of a gateway overlap, it leaks neither *)
(* a server nor a storage, and closes no storage that a request of its     *)
(* session still works with: for every number of sessions, requests, ports *)
(* and stops.                                                              *)
(***************************************************************************)
EXTENDS GatewayLifecycle, TLAPS

Session == [server : Sessions, storage : SessionOrNone]
Request == [phase : {"idle", "connected", "working"},
            on : SessionOrNone, storage : SessionOrNone]

(* The variables of the closure agree with each other, and with what       *)
(* listens and is open.                                                    *)
ClosureInv ==
    /\ storage \in {None, server}
    /\ storage # None => storage \in open
    /\ listening = IF address THEN {server} ELSE {}
    /\ address => scan = None
    /\ open \subseteq {storage} \cup {c.storage : c \in closing}

(* A session is stopped once, and is no longer the gateway's then; its     *)
(* storage stays open.                                                     *)
ClosingInv ==
    /\ \A c \in closing :
          /\ c.server # server
          /\ c.storage \in {None, c.server}
          /\ c.storage # None => c.storage \in open
    /\ \A c, d \in closing : c.server = d.server => c = d

(* Session s, with a storage, is the gateway's or a pending stop's.        *)
Owns(s) ==
    \/ address /\ s = server /\ s = storage
    \/ \E c \in closing : s = c.server /\ s = c.storage

(* A request came to a session that is not over; one that works with the   *)
(* storage of its own session keeps that session from being over.          *)
HandlerInv ==
    \A h \in Handlers :
        /\ handler[h].phase = "idle" => handler[h].on = None
        /\ handler[h].phase # "idle" =>
              handler[h].on \in listening \cup {c.server : c \in closing}
        /\ handler[h].phase = "working" /\ handler[h].storage = handler[h].on
              => Owns(handler[h].on)

IInv == TypeOK /\ ClosureInv /\ ClosingInv /\ HandlerInv

USE GatewayAssumption

-----------------------------------------------------------------------------
(* Records *)

LEMMA SessionType ==
  ASSUME TypeOK, NEW c \in closing
  PROVE  c.server \in Sessions /\ c.storage \in SessionOrNone
BY DEF TypeOK

LEMMA RequestType ==
  ASSUME TypeOK, NEW h \in Handlers
  PROVE  /\ handler[h].phase \in {"idle", "connected", "working"}
         /\ handler[h].on \in SessionOrNone /\ handler[h].storage \in SessionOrNone
BY DEF TypeOK

(* What a step that changes one request must see to. *)
LEMMA OneRequestChanges ==
  ASSUME IInv, NEW h \in Handlers, NEW r \in Request,
         handler' = [handler EXCEPT ![h] = r],
         UNCHANGED <<closure, listening, open, closing>>,
         r.phase = "idle" => r.on = None,
         r.phase # "idle" => r.on \in listening \cup {c.server : c \in closing},
         r.phase = "working" /\ r.storage = r.on => Owns(r.on)
  PROVE  IInv'
<1>1. /\ handler' \in [Handlers -> Request]
      /\ \A g \in Handlers : handler'[g] = IF g = h THEN r ELSE handler[g]
  BY DEF IInv, TypeOK, Request
<1>2. TypeOK'
  BY <1>1 DEF IInv, TypeOK, closure, SessionOrNone, Request
<1>3. ClosureInv' /\ ClosingInv'
  BY DEF IInv, ClosureInv, ClosingInv, closure
<1>4. \A s : Owns(s)' <=> Owns(s)
  BY DEF Owns, closure
<1>5. HandlerInv'
  BY <1>1, <1>4 DEF IInv, HandlerInv
<1> QED
  BY <1>2, <1>3, <1>5 DEF IInv

LEMMA NoRequestIsOne ==
  NoRequest \in Request /\ NoRequest.phase = "idle" /\ NoRequest.on = None
BY DEF NoRequest, Request, SessionOrNone

-----------------------------------------------------------------------------
LEMMA InitIInv == Init => IInv
<1> SUFFICES ASSUME Init PROVE IInv
  OBVIOUS
<1>1. TypeOK
  <2>1. handler \in [Handlers -> Request]
    BY NoRequestIsOne DEF Init
  <2>2. server \in SessionOrNone /\ storage \in SessionOrNone /\ 0 \in 0 .. MaxStops
    BY DEF Init, SessionOrNone
  <2>3. closing \subseteq Session
    BY DEF Init
  <2>4. QED
    BY <2>1, <2>2, <2>3 DEF Init, TypeOK, Request, Session
<1>2. ClosureInv /\ ClosingInv
  BY DEF Init, ClosureInv, ClosingInv
<1>3. HandlerInv
  BY NoRequestIsOne DEF Init, HandlerInv
<1> QED
  BY <1>1, <1>2, <1>3 DEF IInv

LEMMA StartIInv == ASSUME IInv, NEW s \in Sessions, Start(s) PROVE IInv'
<1>1. /\ ~address /\ scan = None /\ server' = s /\ scan' = 0
      /\ UNCHANGED <<address, stopsWaiting, listening, closing, handler>>
      /\ \/ storage' = s /\ open' = open \cup {s}
         \/ UNCHANGED <<storage, open>>
  BY DEF Start
<1>2. server = None /\ storage = None /\ s # None
  BY <1>1 DEF IInv, TypeOK
<1>3. /\ s \notin open
      /\ \A c \in closing : c.server # s /\ c.storage # s
  BY DEF Start, IsUnused
<1>4. TypeOK'
  <2>1. 0 \in 0 .. MorePorts /\ 0 # None
    OBVIOUS
  <2>2. open' \subseteq Sessions /\ storage' \in SessionOrNone
    BY <1>1 DEF IInv, TypeOK, SessionOrNone
  <2>3. QED
    BY <1>1, <1>2, <2>1, <2>2 DEF IInv, TypeOK, SessionOrNone
<1>5. ClosureInv'
  <2>1. None \notin open
    BY DEF IInv, TypeOK
  <2>2. open \subseteq {c.storage : c \in closing}
    BY <1>2, <2>1 DEF IInv, ClosureInv
  <2>3. QED
    BY <1>1, <1>2, <2>2 DEF IInv, ClosureInv
<1>6. ClosingInv'
  BY <1>1, <1>3 DEF IInv, ClosingInv
<1>7. \A x : Owns(x) => Owns(x)'
  BY <1>1 DEF Owns
<1>8. HandlerInv'
  BY <1>1, <1>7 DEF IInv, HandlerInv
<1> QED
  BY <1>4, <1>5, <1>6, <1>8 DEF IInv

LEMMA WaitIInv ==
  ASSUME IInv, PortIsTaken \/ StopWaits PROVE IInv'
<1>1. /\ scan # None /\ scan' \in 0 .. MorePorts /\ stopsWaiting' \in 0 .. MaxStops
      /\ UNCHANGED <<server, storage, address, listening, open, closing, handler>>
  BY DEF PortIsTaken, StopWaits, AwaitsStart, IInv, TypeOK
<1>2. scan' # None
  BY <1>1
<1>3. TypeOK'
  BY <1>1, <1>2 DEF IInv, TypeOK, SessionOrNone
<1>4. ClosureInv' /\ ClosingInv'
  BY <1>1 DEF IInv, ClosureInv, ClosingInv
<1>5. \A x : Owns(x) => Owns(x)'
  BY <1>1 DEF Owns
<1>6. HandlerInv'
  BY <1>1, <1>5 DEF IInv, HandlerInv
<1> QED
  BY <1>3, <1>4, <1>6 DEF IInv

(* stop() takes a session that listens, or has just begun to: the storage  *)
(* of the session goes to what it awaits.                                  *)
LEMMA TakeSessionIInv ==
  ASSUME IInv, server # None, TakeSession(listening \cup {server}),
         scan' = None, stopsWaiting' \in 0 .. MaxStops, UNCHANGED handler
  PROVE  IInv'
<1> DEFINE c == [server |-> server, storage |-> storage]
<1>1. /\ server' = None /\ storage' = None /\ address' = FALSE
      /\ listening' = {} /\ closing' = closing \cup {c} /\ open' = open
  BY DEF TakeSession, IInv, ClosureInv
<1>2. c \in Session /\ c.server = server /\ c.storage = storage
  BY DEF IInv, TypeOK, Session, SessionOrNone
<1> HIDE DEF c
<1>3. TypeOK'
  BY <1>1, <1>2 DEF IInv, TypeOK, Session, SessionOrNone
<1>4. ClosureInv'
  BY <1>1, <1>2 DEF IInv, ClosureInv
<1>5. ClosingInv'
  <2>1. \A d \in closing' : d \in closing \/ d = c
    BY <1>1
  <2>2. ASSUME NEW d \in closing'
        PROVE  d.server # None /\ d.storage \in {None, d.server}
               /\ (d.storage # None => d.storage \in open)
    BY <1>2, <2>1, SessionType DEF IInv, ClosingInv, ClosureInv
  <2>3. ASSUME NEW d \in closing', NEW e \in closing', d.server = e.server
        PROVE  d = e
    BY <1>2, <2>1, <2>3 DEF IInv, ClosingInv
  <2>4. QED
    BY <1>1, <2>2, <2>3 DEF ClosingInv
<1>6. ASSUME NEW x, Owns(x) PROVE Owns(x)'
  <2>1. CASE x = server /\ x = storage
    BY <1>1, <1>2, <2>1 DEF Owns
  <2>2. CASE \E d \in closing : x = d.server /\ x = d.storage
    BY <1>1, <2>2 DEF Owns
  <2>3. QED
    BY <1>6, <2>1, <2>2 DEF Owns
<1>7. listening \cup {d.server : d \in closing} \subseteq {d.server : d \in closing'}
  BY <1>1, <1>2 DEF IInv, ClosureInv
<1>8. HandlerInv'
  BY <1>1, <1>6, <1>7 DEF IInv, HandlerInv
<1> QED
  BY <1>3, <1>4, <1>5, <1>8 DEF IInv

LEMMA ListenSucceedsIInv == ASSUME IInv, ListenSucceeds PROVE IInv'
<1>1. /\ scan # None /\ scan' = None /\ stopsWaiting' = 0 /\ handler' = handler
      /\ server # None /\ address = FALSE /\ listening = {}
  BY DEF ListenSucceeds, IInv, TypeOK, ClosureInv
<1>2. CASE stopsWaiting = 0
  <2>1. /\ address' = TRUE /\ listening' = {server}
        /\ UNCHANGED <<server, storage, open, closing>>
    BY <1>1, <1>2 DEF ListenSucceeds
  <2>2. TypeOK'
    BY <1>1, <2>1 DEF IInv, TypeOK, SessionOrNone
  <2>3. ClosureInv' /\ ClosingInv'
    BY <1>1, <2>1 DEF IInv, ClosureInv, ClosingInv
  <2>4. \A x : Owns(x) => Owns(x)'
    BY <1>1, <2>1 DEF Owns
  <2>5. HandlerInv'
    BY <1>1, <2>1, <2>4 DEF IInv, HandlerInv
  <2>6. QED
    BY <2>2, <2>3, <2>5 DEF IInv
<1>3. CASE stopsWaiting # 0
  <2>1. TakeSession(listening \cup {server}) /\ 0 \in 0 .. MaxStops
    BY <1>3 DEF ListenSucceeds
  <2>2. QED
    BY <1>1, <2>1, TakeSessionIInv
<1> QED
  BY <1>2, <1>3

LEMMA StopIInv == ASSUME IInv, Stop PROVE IInv'
<1>1. server # None /\ scan' = None /\ UNCHANGED handler
      /\ stopsWaiting' \in 0 .. MaxStops
  BY DEF Stop, AwaitsStart, IInv, TypeOK
<1>2. address
  BY DEF Stop, AwaitsStart, IInv, TypeOK
<1>3. listening \cup {server} = listening
  BY <1>2 DEF IInv, ClosureInv
<1>4. TakeSession(listening \cup {server})
  BY <1>3 DEF Stop
<1> QED
  BY <1>1, <1>4, TakeSessionIInv

(* A start that fails has no requests yet. *)
LEMMA ListenFailsIInv == ASSUME IInv, ListenFails PROVE IInv'
<1>1. /\ scan # None /\ scan' = None /\ stopsWaiting' = 0
      /\ server' = None /\ storage' = None /\ open' = open \ {storage}
      /\ UNCHANGED <<address, listening, closing, handler>>
  BY DEF ListenFails, NoServer
<1>2. server # None /\ ~address
  BY <1>1 DEF IInv, TypeOK, ClosureInv
<1>3. TypeOK'
  BY <1>1, <1>2 DEF IInv, TypeOK, SessionOrNone
<1>4. ClosureInv'
  BY <1>1, <1>2 DEF IInv, ClosureInv
<1>5. ClosingInv'
  BY <1>1, SessionType DEF IInv, ClosingInv, ClosureInv
<1>6. \A x : Owns(x) => Owns(x)'
  BY <1>1, <1>2 DEF Owns
<1>7. HandlerInv'
  BY <1>1, <1>6 DEF IInv, HandlerInv
<1> QED
  BY <1>3, <1>4, <1>5, <1>7 DEF IInv

(* The storage that is closed is its session's only, and the session has   *)
(* no request any more.                                                    *)
LEMMA CloseStorageIInv ==
  ASSUME IInv, NEW c \in closing, CloseStorage(c) PROVE IInv'
<1>1. /\ \A h \in Handlers : handler[h].on # c.server
      /\ closing' = closing \ {c} /\ open' = open \ {c.storage}
      /\ UNCHANGED <<closure, listening, handler>>
  BY DEF CloseStorage, ConnectionsHaveEnded
<1>2. c.server # server /\ c.storage \in {None, c.server}
      /\ \A d \in closing' : d.server # c.server
  BY <1>1 DEF IInv, ClosingInv
<1>3. TypeOK'
  BY <1>1 DEF IInv, TypeOK, closure, SessionOrNone
<1>4. ClosureInv'
  <2>1. storage # None => storage # c.storage
    BY <1>2 DEF IInv, ClosureInv
  <2>2. ASSUME NEW x \in open' PROVE x \in {storage} \cup {d.storage : d \in closing'}
    BY <1>1 DEF IInv, ClosureInv
  <2>3. QED
    BY <1>1, <2>1, <2>2 DEF IInv, ClosureInv, closure
<1>5. ClosingInv'
  BY <1>1, <1>2 DEF IInv, ClosingInv, closure
<1>6. ASSUME NEW h \in Handlers, handler[h].phase # "idle"
      PROVE  handler[h].on \in listening \cup {d.server : d \in closing'}
  BY <1>1, <1>6 DEF IInv, HandlerInv
<1>7. ASSUME NEW x, Owns(x), x # c.server PROVE Owns(x)'
  BY <1>1, <1>7 DEF Owns, closure
<1>8. HandlerInv'
  BY <1>1, <1>6, <1>7 DEF IInv, HandlerInv
<1> QED
  BY <1>3, <1>4, <1>5, <1>8 DEF IInv

LEMMA ConnectIInv == ASSUME IInv, NEW h \in Handlers, Connect(h) PROVE IInv'
<1>1. PICK s \in listening :
        handler' = [handler EXCEPT ![h] =
                       [phase |-> "connected", on |-> s, storage |-> None]]
  BY DEF Connect
<1>2. s \in Sessions
  BY DEF IInv, TypeOK
<1> DEFINE r == [phase |-> "connected", on |-> s, storage |-> None]
<1>3. r \in Request /\ r.phase = "connected" /\ r.on = s
  BY <1>2 DEF Request, SessionOrNone
<1>4. handler' = [handler EXCEPT ![h] = r]
  BY <1>1
<1>5. UNCHANGED <<closure, listening, open, closing>>
  BY DEF Connect
<1> HIDE DEF r
<1> QED
  BY <1>3, <1>4, <1>5, OneRequestChanges

(* The storage of the moment is that of the session that listens.          *)
LEMMA AuthenticateIInv == ASSUME IInv, NEW h \in Handlers, Authenticate(h) PROVE IInv'
<1> DEFINE r == [phase |-> "working", on |-> handler[h].on, storage |-> storage]
<1>1. /\ handler' = [handler EXCEPT ![h] = r]
      /\ handler[h].phase = "connected" /\ storage # None
      /\ UNCHANGED <<closure, listening, open, closing>>
  BY DEF Authenticate
<1>2. r \in Request /\ r.phase = "working" /\ r.on = handler[h].on /\ r.storage = storage
  BY RequestType DEF IInv, TypeOK, Request
<1>3. r.on \in listening \cup {c.server : c \in closing}
  BY <1>1, <1>2 DEF IInv, HandlerInv
<1> HIDE DEF r
<1>4. ASSUME r.storage = r.on PROVE Owns(r.on)
  <2>1. r.on = server /\ r.on = storage
    BY <1>1, <1>2, <1>4 DEF IInv, ClosureInv
  <2>2. address
    BY <1>3, <2>1 DEF IInv, ClosureInv, ClosingInv
  <2>3. QED
    BY <2>1, <2>2 DEF Owns
<1> QED
  BY <1>1, <1>2, <1>3, <1>4, OneRequestChanges

LEMMA RequestEndsIInv == ASSUME IInv, NEW h \in Handlers, RequestEnds(h) PROVE IInv'
BY NoRequestIsOne, OneRequestChanges DEF RequestEnds

LEMMA NextIInv == IInv /\ [Next]_vars => IInv'
<1> SUFFICES ASSUME IInv, [Next]_vars PROVE IInv'
  OBVIOUS
<1>1. CASE UNCHANGED vars
  <2>1. TypeOK' /\ ClosureInv' /\ ClosingInv'
    BY <1>1 DEF vars, closure, IInv, TypeOK, ClosureInv, ClosingInv, SessionOrNone
  <2>2. \A x : Owns(x) => Owns(x)'
    BY <1>1 DEF vars, closure, Owns
  <2>3. HandlerInv'
    BY <1>1, <2>2 DEF vars, IInv, HandlerInv
  <2>4. QED
    BY <2>1, <2>3 DEF IInv
<1> QED
  BY <1>1, StartIInv, WaitIInv, ListenSucceedsIInv, ListenFailsIInv, StopIInv,
     CloseStorageIInv, ConnectIInv, AuthenticateIInv, RequestEndsIInv DEF Next

LEMMA IInvNothingLeaks == IInv => NothingLeaks
BY DEF IInv, TypeOK, ClosureInv, NothingLeaks

LEMMA OwnedIsOpen == ASSUME IInv, NEW s, s # None, Owns(s) PROVE s \in open
BY DEF IInv, ClosureInv, ClosingInv, Owns

LEMMA IInvClosedIsUnused == IInv => ClosedStorageIsUnused
<1> SUFFICES ASSUME IInv, NEW h \in Handlers, handler[h].phase = "working",
                    handler[h].storage = handler[h].on
             PROVE  handler[h].storage \in open
  BY DEF ClosedStorageIsUnused
<1>1. handler[h].on \in listening \cup {c.server : c \in closing} /\ Owns(handler[h].on)
  BY DEF IInv, HandlerInv
<1>2. handler[h].on # None
  BY <1>1, SessionType DEF IInv, TypeOK
<1> QED
  BY <1>1, <1>2, OwnedIsOpen

-----------------------------------------------------------------------------
(* What holds of every behaviour *)

(* The closure of createGateway agrees with what listens and is open; a    *)
(* request keeps the session whose storage it works with.                  *)
THEOREM GatewayInvariant == Spec => []IInv
<1>1. Init => IInv
  BY InitIInv
<1>2. IInv /\ [Next]_vars => IInv'
  BY NextIInv
<1> QED
  BY <1>1, <1>2, PTL DEF Spec

(* The variables of the gateway keep their types.                          *)
THEOREM GatewayTypes == Spec => []TypeOK
<1>1. IInv => TypeOK
  BY DEF IInv
<1> QED
  BY <1>1, GatewayInvariant, PTL

(* gateway.ts:120-138, 189-198: start() and stop(), however they overlap   *)
(* or fail, leave no server and no storage that nobody closes.             *)
THEOREM GatewayLeaksNothing == Spec => []NothingLeaks
BY IInvNothingLeaks, GatewayInvariant, PTL

(* gateway.ts:136-137: a request that works with the storage of its own    *)
(* session finds it open.                                                  *)
THEOREM StorageOutlivesItsRequests == Spec => []ClosedStorageIsUnused
BY IInvClosedIsUnused, GatewayInvariant, PTL
=============================================================================
