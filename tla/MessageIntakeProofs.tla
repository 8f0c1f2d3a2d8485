------------------------ MODULE MessageIntakeProofs ------------------------
(***************************************************************************)
(* Accepting messages is idempotent, suppresses duplicates, counts what it *)
(* stores, keeps to the quota and keeps tenants apart: for all tenants,    *)
(* keys, request bodies, quotas and deduplication windows.                 *)
(***************************************************************************)
EXTENDS MessageIntake, FiniteSetTheorems, WellFoundedInduction, TLAPS

RequestState == [phase : {"idle", "authenticated", "running"}, item : Nat]

(* A request that runs is at one of its items, or past the last. *)
AtAnItem == \A r \in Requests : request[r].phase = "running" => request[r].item # 0

(* Ids are issued once; a message with a deduplication key has a window.   *)
MessagesAreOnce ==
    /\ \A m \in messages :
          /\ m.id <= issued
          /\ m.deduplicationKey # None => m.deduplicationExpiresAt \in Nat
    /\ \A m, n \in messages : m.id = n.id => m = n

(* At most one message of an app has a given idempotency key. *)
OneOriginal ==
    \A m, n \in messages :
        m.app = n.app /\ m.idempotencyKey = n.idempotencyKey /\ m.idempotencyKey # None
            => m = n

(* What was answered under a key is still what the key stands for, as long *)
(* as the app exists.                                                      *)
AnswersAreStored ==
    \A x \in answers :
        x.idempotencyKey # None /\ x.app \in apps =>
            \E m \in messages : /\ m.app = x.app /\ m.id = x.id
                                /\ m.idempotencyKey = x.idempotencyKey

MessagesInv ==
    /\ MessagesAreOnce /\ OneOriginal
    /\ DuplicatesAreSuppressed
    /\ IsFiniteSet(messages) /\ UsageCountsMessages
AnswersInv ==
    /\ AnswersAreStored /\ IdempotentAnswers
    /\ \A x \in answers : x.owner = x.app
DeliveriesInv ==
    \A m \in messages, e \in Endpoints :
        <<m.id, e>> \in deliveries => AppOfEndpoint[e] = m.app

IInv == TypeOK /\ AtAnItem /\ MessagesInv /\ AnswersInv /\ DeliveriesInv

USE IntakeAssumption

-----------------------------------------------------------------------------
(* Records and items *)

LEMMA MessageType ==
  ASSUME NEW m \in Message
  PROVE  /\ m.id \in Nat /\ m.app \in Apps /\ m.eventType \in EventTypes
         /\ m.payload \in Payloads
         /\ m.idempotencyKey \in IdempotencyKeys \cup {None}
         /\ m.deduplicationKey \in DeduplicationKeys \cup {None}
         /\ m.deduplicationExpiresAt \in Nat \cup {None} /\ m.createdAt \in Nat
BY DEF Message

LEMMA ItemType ==
  ASSUME IInv, NEW r \in Requests, IsHandled(r)
  PROVE  ItemOf(r) \in Item /\ AppOf(r) \in Apps
<1>1. request[r].item \in Nat /\ request[r].item # 0
  BY DEF IInv, TypeOK, AtAnItem, IsHandled
<1>2. Body[r] \in Seq(Item) /\ request[r].item <= Len(Body[r])
  BY DEF IsHandled
<1>3. request[r].item \in 1 .. Len(Body[r])
  BY <1>1, <1>2
<1> QED
  BY <1>2, <1>3 DEF ItemOf, AppOf

LEMMA NoRequestType == NoRequest \in RequestState /\ NoRequest.phase = "idle"
BY DEF NoRequest, RequestState

(* Requests move on *)
LEMMA OneRequestMoves ==
  ASSUME IInv, NEW r \in Requests, NEW q \in RequestState,
         q.phase = "running" => q.item # 0,
         request' = [request EXCEPT ![r] = q]
  PROVE  request' \in [Requests -> RequestState] /\ AtAnItem'
<1>1. /\ request' \in [Requests -> RequestState]
      /\ \A s \in Requests : request'[s] = IF s = r THEN q ELSE request[s]
  BY DEF IInv, TypeOK, RequestState
<1> QED
  BY <1>1 DEF IInv, AtAnItem

LEMMA NextItemMoves ==
  ASSUME IInv, NEW r \in Requests, IsHandled(r), NextItem(r)
  PROVE  request' \in [Requests -> RequestState] /\ AtAnItem'
<1> DEFINE q == [phase |-> "running", item |-> request[r].item + 1]
<1>1. request[r].item \in Nat
  BY DEF IInv, TypeOK
<1>2. q \in RequestState /\ q.item # 0
  BY <1>1 DEF RequestState
<1>3. request' = [request EXCEPT ![r] = q]
  BY DEF NextItem
<1> HIDE DEF q
<1> QED
  BY <1>2, <1>3, OneRequestMoves

-----------------------------------------------------------------------------
(* What a message is found by *)

(* The intervals up to the members of a set of naturals have a smallest.    *)
LEMMA LeastNatural ==
  ASSUME NEW T, T \subseteq Nat, T # {}
  PROVE  \E x \in T : \A y \in T : x <= y
<1> DEFINE R == StrictSubsetOrdering(Nat)
           F == {0 .. n : n \in T}
<1>1. IsWellFoundedOn(R, FiniteSubsetsOf(Nat))
  BY FS_StrictSubsetOrderingWellFounded
<1>2. F # {} /\ F \subseteq FiniteSubsetsOf(Nat)
  <2>1. ASSUME NEW n \in T PROVE 0 .. n \in FiniteSubsetsOf(Nat)
    <3>1. IsFiniteSet(0 .. n)
      BY FS_Interval
    <3>2. QED
      BY <3>1 DEF FiniteSubsetsOf
  <2>2. \A A \in F : A \in FiniteSubsetsOf(Nat)
    BY <2>1
  <2>3. PICK n \in T : TRUE
    OBVIOUS
  <2>4. 0 .. n \in F
    OBVIOUS
  <2>5. QED
    BY <2>2, <2>4
<1> HIDE DEF R
<1>3. PICK A \in F : \A B \in F : ~(<<B, A>> \in R)
  <2> HIDE DEF F
  <2>1. QED
    BY <1>1, <1>2, WFMin
<1>4. PICK x \in T : A = 0 .. x
  OBVIOUS
<1>5. ASSUME NEW y \in T, y < x PROVE FALSE
  <2>1. 0 .. y \in F /\ 0 .. y \subseteq 0 .. x /\ 0 .. y \in SUBSET Nat
        /\ 0 .. x \in SUBSET Nat
    BY <1>5
  <2>2. x \in 0 .. x /\ x \notin 0 .. y
    BY <1>5
  <2>3. <<0 .. y, 0 .. x>> \in R
    BY <2>1, <2>2 DEF R, StrictSubsetOrdering
  <2>4. QED
    BY <1>3, <1>4, <2>1, <2>3
<1> QED
  BY <1>4, <1>5

(* The oldest of a set of messages *)
LEMMA Oldest ==
  ASSUME NEW S, S \subseteq Message, S # {}
  PROVE  \E m \in S : \A n \in S : m.createdAt <= n.createdAt
<1> DEFINE T == {m.createdAt : m \in S}
<1>1. T \subseteq Nat /\ T # {}
  BY MessageType
<1>2. PICK x \in T : \A y \in T : x <= y
  <2> HIDE DEF T
  <2>1. QED
    BY <1>1, LeastNatural
<1> QED
  BY <1>2

LEMMA NoDuplicates ==
  ASSUME TypeOK, NEW a, NEW item, Duplicates(a, item) = {},
         item.idempotencyKey = None, item.deduplicationKey # None
  PROVE  \A m \in messages : ~IsActiveDuplicate(m, a, item)
<1> DEFINE S == {m \in messages : IsActiveDuplicate(m, a, item)}
<1>1. S \subseteq Message
  BY DEF TypeOK
<1>2. {m \in S : \A n \in S : m.createdAt <= n.createdAt} = {}
  BY DEF Duplicates
<1> HIDE DEF S
<1>3. S = {}
  BY <1>1, <1>2, Oldest
<1> QED
  BY <1>3 DEF S

-----------------------------------------------------------------------------
(* Steps that store nothing *)

LEMMA SameMessages ==
  ASSUME IInv, UNCHANGED <<messages, usage, issued>> PROVE MessagesInv'
BY DEF IInv, MessagesInv, MessagesAreOnce, OneOriginal, DuplicatesAreSuppressed,
       UsageCountsMessages

LEMMA SameAnswers ==
  ASSUME IInv, UNCHANGED <<messages, apps, answers>> PROVE AnswersInv'
BY DEF IInv, AnswersInv, AnswersAreStored, IdempotentAnswers

LEMMA SameDeliveries ==
  ASSUME IInv, UNCHANGED <<messages, deliveries>> PROVE DeliveriesInv'
BY DEF IInv, DeliveriesInv

LEMMA StoresNothing ==
  ASSUME IInv, TypeOK', AtAnItem',
         UNCHANGED <<apps, messages, deliveries, usage, answers, issued>>
  PROVE  IInv'
BY SameMessages, SameAnswers, SameDeliveries DEF IInv

(* An answer that names a message, for an item that is its original's, or  *)
(* has no idempotency key.                                                 *)
LEMMA AnswersMessage ==
  ASSUME IInv, NEW r \in Requests, NEW m \in messages, Answer(r, m),
         m.app = AppOf(r),
         ItemOf(r).idempotencyKey # None =>
            m.idempotencyKey = ItemOf(r).idempotencyKey /\ Hash(m) = Hash(ItemOf(r)),
         UNCHANGED <<messages, apps>>
  PROVE  AnswersInv'
<1> DEFINE x == [app |-> AppOf(r), idempotencyKey |-> ItemOf(r).idempotencyKey,
                 sent |-> Hash(ItemOf(r)), id |-> m.id, owner |-> m.app,
                 stored |-> Hash(m)]
<1>1. answers' = answers \cup {x}
  BY DEF Answer
<1>2. /\ x.app = AppOf(r) /\ x.idempotencyKey = ItemOf(r).idempotencyKey
      /\ x.sent = Hash(ItemOf(r)) /\ x.id = m.id /\ x.owner = m.app /\ x.stored = Hash(m)
  OBVIOUS
<1> HIDE DEF x
<1>3. AnswersAreStored'
  BY <1>1, <1>2 DEF IInv, AnswersInv, AnswersAreStored
<1>4. m.app \in apps
  BY DEF IInv, TypeOK
<1>5. ASSUME NEW y \in answers, y.app = x.app, y.idempotencyKey = x.idempotencyKey,
             x.idempotencyKey # None
      PROVE  y.id = x.id
  <2>1. PICK n \in messages : /\ n.app = y.app /\ n.id = y.id
                              /\ n.idempotencyKey = y.idempotencyKey
    BY <1>2, <1>4, <1>5 DEF IInv, AnswersInv, AnswersAreStored
  <2>2. n = m
    BY <1>2, <1>5, <2>1 DEF IInv, MessagesInv, OneOriginal
  <2>3. QED
    BY <1>2, <2>1, <2>2
<1>6. IdempotentAnswers'
  BY <1>1, <1>2, <1>5 DEF IInv, AnswersInv, IdempotentAnswers
<1> QED
  BY <1>1, <1>2, <1>3, <1>6 DEF IInv, AnswersInv

LEMMA ReplayIInv == ASSUME IInv, NEW r \in Requests, Replay(r) PROVE IInv'
<1>1. PICK m \in Originals(AppOf(r), ItemOf(r)) : ~IsConflict(m, ItemOf(r)) /\ Answer(r, m)
  BY DEF Replay
<1>2. UNCHANGED <<now, database, issued, bounds>> /\ IsHandled(r) /\ NextItem(r)
  BY DEF Replay
<1>3. request' \in [Requests -> RequestState] /\ AtAnItem'
  BY <1>2, NextItemMoves
<1>4. TypeOK'
  BY <1>2, <1>3 DEF IInv, TypeOK, RequestState, database, bounds
<1>5. AnswersInv'
  BY <1>1, <1>2, AnswersMessage DEF Originals, IsConflict, database
<1> QED
  BY <1>2, <1>3, <1>4, <1>5, SameMessages, SameDeliveries DEF IInv, database

LEMMA DeduplicateIInv == ASSUME IInv, NEW r \in Requests, Deduplicate(r) PROVE IInv'
<1>1. PICK m \in Duplicates(AppOf(r), ItemOf(r)) : Answer(r, m)
  BY DEF Deduplicate
<1>2. UNCHANGED <<now, database, issued, bounds>> /\ IsHandled(r) /\ NextItem(r)
  BY DEF Deduplicate, IsNew
<1>3. request' \in [Requests -> RequestState] /\ AtAnItem'
  BY <1>2, NextItemMoves
<1>4. TypeOK'
  BY <1>2, <1>3 DEF IInv, TypeOK, RequestState, database, bounds
<1>5. m \in messages /\ m.app = AppOf(r) /\ ItemOf(r).idempotencyKey = None
  BY <1>1 DEF Duplicates, IsActiveDuplicate
<1>6. AnswersInv'
  BY <1>1, <1>2, <1>5, AnswersMessage DEF database
<1> QED
  BY <1>2, <1>3, <1>4, <1>6, SameMessages, SameDeliveries DEF IInv, database

LEMMA ConflictIInv == ASSUME IInv, NEW r \in Requests, Conflict(r) PROVE IInv'
<1>1. UNCHANGED <<now, database, answers, issued, bounds>> /\ IsHandled(r) /\ NextItem(r)
  BY DEF Conflict
<1>2. request' \in [Requests -> RequestState] /\ AtAnItem'
  BY <1>1, NextItemMoves
<1>3. TypeOK'
  BY <1>1, <1>2 DEF IInv, TypeOK, RequestState, database, bounds
<1> QED
  BY <1>1, <1>2, <1>3, StoresNothing DEF database

LEMMA RejectIInv == ASSUME IInv, NEW r \in Requests, RejectOverQuota(r) PROVE IInv'
<1>1. UNCHANGED <<now, database, answers, issued, bounds>> /\ IsHandled(r) /\ NextItem(r)
  BY DEF RejectOverQuota, IsNew
<1>2. request' \in [Requests -> RequestState] /\ AtAnItem'
  BY <1>1, NextItemMoves
<1>3. TypeOK'
  BY <1>1, <1>2 DEF IInv, TypeOK, RequestState, database, bounds
<1> QED
  BY <1>1, <1>2, <1>3, StoresNothing DEF database

(* Steps of a request that are not about an item *)
LEMMA MovesOnly ==
  ASSUME IInv, NEW r \in Requests, NEW q \in RequestState,
         q.phase = "running" => q.item # 0,
         request' = [request EXCEPT ![r] = q], sends' \in Nat,
         UNCHANGED <<now, database, answers, issued, crashes, operatorOps>>
  PROVE  IInv'
<1>1. request' \in [Requests -> RequestState] /\ AtAnItem'
  BY OneRequestMoves
<1>2. TypeOK'
  BY <1>1 DEF IInv, TypeOK, RequestState, database
<1> QED
  BY <1>1, <1>2, StoresNothing DEF database

LEMMA RequestIInv ==
  ASSUME IInv, NEW r \in Requests,
         \/ Authenticate(r) \/ StartItems(r) \/ BodyReadFails(r)
         \/ FailOnMissingApp(r) \/ Respond(r)
  PROVE  IInv'
<1>1. CASE Authenticate(r)
  <2> DEFINE q == [phase |-> "authenticated", item |-> 0]
  <2>1. q \in RequestState /\ q.phase # "running"
    BY DEF RequestState
  <2>2. /\ request' = [request EXCEPT ![r] = q] /\ sends' \in Nat
        /\ UNCHANGED <<now, database, answers, issued, crashes, operatorOps>>
    BY <1>1 DEF Authenticate, IInv, TypeOK
  <2> HIDE DEF q
  <2>3. QED
    BY <2>1, <2>2, MovesOnly
<1>2. CASE StartItems(r)
  <2> DEFINE q == [phase |-> "running", item |-> 1]
  <2>1. q \in RequestState /\ q.item # 0
    BY DEF RequestState
  <2>2. /\ request' = [request EXCEPT ![r] = q] /\ sends' \in Nat
        /\ UNCHANGED <<now, database, answers, issued, crashes, operatorOps>>
    BY <1>2 DEF StartItems, IInv, TypeOK, bounds
  <2> HIDE DEF q
  <2>3. QED
    BY <2>1, <2>2, MovesOnly
<1>3. CASE BodyReadFails(r) \/ FailOnMissingApp(r) \/ Respond(r)
  <2>1. /\ request' = [request EXCEPT ![r] = NoRequest] /\ sends' \in Nat
        /\ UNCHANGED <<now, database, answers, issued, crashes, operatorOps>>
    BY <1>3 DEF BodyReadFails, FailOnMissingApp, Respond, IInv, TypeOK, bounds
  <2>2. QED
    BY <2>1, NoRequestType, MovesOnly
<1> QED
  BY <1>1, <1>2, <1>3

(* A tick and a crash *)
LEMMA TickIInv == ASSUME IInv, Tick PROVE IInv'
<1>1. /\ now' \in 0 .. MaxTime
      /\ UNCHANGED <<database, request, answers, issued, bounds>>
  BY DEF Tick, IInv, TypeOK
<1>2. TypeOK' /\ AtAnItem'
  BY <1>1 DEF IInv, TypeOK, AtAnItem, database, bounds
<1> QED
  BY <1>1, <1>2, StoresNothing DEF database

LEMMA CrashIInv == ASSUME IInv, Crash PROVE IInv'
<1>1. /\ crashes' \in Nat /\ request' = [r \in Requests |-> NoRequest]
      /\ UNCHANGED <<now, database, answers, issued, sends, operatorOps>>
  BY DEF Crash, IInv, TypeOK
<1>2. request' \in [Requests -> RequestState] /\ AtAnItem'
  BY <1>1, NoRequestType DEF AtAnItem
<1>3. TypeOK'
  BY <1>1, <1>2 DEF IInv, TypeOK, RequestState, database
<1> QED
  BY <1>1, <1>2, <1>3, StoresNothing DEF database

(* Operator requests that delete nothing *)
LEMMA SettingsIInv ==
  ASSUME IInv,
         \/ \E k \in ApiKeys : RevokeKey(k)
         \/ \E a \in Apps, q \in Quotas : SetQuota(a, q)
         \/ \E e \in Endpoints, s \in {"enabled", "disabled"} : SetEnabled(e, s)
  PROVE  IInv'
<1>1. /\ operatorOps' \in Nat
      /\ UNCHANGED <<now, request, answers, issued, sends, crashes,
                     apps, messages, deliveries, usage>>
  BY DEF RevokeKey, SetQuota, SetEnabled, OperatorRequest, IInv, TypeOK
<1>2. AtAnItem'
  BY <1>1 DEF IInv, AtAnItem
<1>3. TypeOK'
  <2>1. CASE \E k \in ApiKeys : RevokeKey(k)
    BY <1>1, <2>1 DEF RevokeKey, IInv, TypeOK
  <2>2. CASE \E a \in Apps, q \in Quotas : SetQuota(a, q)
    BY <1>1, <2>2 DEF SetQuota, IInv, TypeOK
  <2>3. ASSUME NEW e \in Endpoints, NEW s \in {"enabled", "disabled"}, SetEnabled(e, s)
        PROVE  TypeOK'
    <3>1. /\ UNCHANGED <<liveKeys, quota>> /\ endpoint[e] # "deleted"
          /\ endpoint' = [endpoint EXCEPT ![e] = s]
      BY <2>3 DEF SetEnabled
    <3>2. /\ endpoint' \in [Endpoints -> {"enabled", "disabled", "deleted"}]
          /\ \A f \in Endpoints : endpoint'[f] = "deleted" <=> endpoint[f] = "deleted"
      BY <3>1 DEF IInv, TypeOK
    <3>3. QED
      BY <1>1, <3>1, <3>2 DEF IInv, TypeOK
  <2>4. QED
    BY <2>1, <2>2, <2>3
<1> QED
  BY <1>1, <1>2, <1>3, StoresNothing

-----------------------------------------------------------------------------
(* A message is accepted *)

(* The message of Accept(r) *)
NewMessage(r) ==
    [id |-> issued + 1, app |-> AppOf(r),
     eventType |-> ItemOf(r).eventType, payload |-> ItemOf(r).payload,
     idempotencyKey |-> ItemOf(r).idempotencyKey,
     deduplicationKey |-> ItemOf(r).deduplicationKey,
     deduplicationExpiresAt |->
         IF ItemOf(r).deduplicationKey = None THEN None
         ELSE now + ItemOf(r).deduplicationWindow,
     createdAt |-> now]

LEMMA NewMessageType ==
  ASSUME IInv, NEW r \in Requests, IsHandled(r), NEW m, m = NewMessage(r)
  PROVE  /\ m \in Message
         /\ m.id = issued + 1 /\ m.app = AppOf(r) /\ m.createdAt = now
         /\ m.eventType = ItemOf(r).eventType /\ m.payload = ItemOf(r).payload
         /\ m.idempotencyKey = ItemOf(r).idempotencyKey
         /\ m.deduplicationKey = ItemOf(r).deduplicationKey
         /\ m.deduplicationKey # None => m.deduplicationExpiresAt \in Nat
<1> DEFINE i == ItemOf(r)
           x == IF i.deduplicationKey = None THEN None ELSE now + i.deduplicationWindow
<1>1. i \in Item /\ AppOf(r) \in Apps /\ now \in Nat /\ issued + 1 \in Nat
  BY ItemType DEF IInv, TypeOK
<1>2. /\ i.eventType \in EventTypes /\ i.payload \in Payloads
      /\ i.idempotencyKey \in IdempotencyKeys \cup {None}
      /\ i.deduplicationKey \in DeduplicationKeys \cup {None}
      /\ i.deduplicationWindow \in Nat
  BY <1>1 DEF Item
<1>3. x \in Nat \cup {None} /\ (i.deduplicationKey # None => x \in Nat)
  BY <1>1, <1>2
<1>4. /\ m.id = issued + 1 /\ m.app = AppOf(r) /\ m.createdAt = now
      /\ m.eventType = i.eventType /\ m.payload = i.payload
      /\ m.idempotencyKey = i.idempotencyKey
      /\ m.deduplicationKey = i.deduplicationKey
      /\ m.deduplicationExpiresAt = x
  BY DEF NewMessage
<1>5. m = [id |-> issued + 1, app |-> AppOf(r),
           eventType |-> i.eventType, payload |-> i.payload,
           idempotencyKey |-> i.idempotencyKey,
           deduplicationKey |-> i.deduplicationKey,
           deduplicationExpiresAt |-> x, createdAt |-> now]
  BY Zenon DEF NewMessage
<1> HIDE DEF x, i
<1>6. m \in Message
  BY <1>1, <1>2, <1>3, <1>5 DEF Message
<1> QED
  BY <1>3, <1>4, <1>6 DEF i

CountsOne(b) == usage' = [usage EXCEPT ![b][Month(now)] = @ + 1]

LEMMA AcceptSteps ==
  ASSUME NEW r \in Requests, Accept(r)
  PROVE  /\ IsHandled(r) /\ Originals(AppOf(r), ItemOf(r)) = {}
         /\ Duplicates(AppOf(r), ItemOf(r)) = {}
         /\ AppOf(r) \in apps
         /\ quota[AppOf(r)] # None => ~(usage[AppOf(r)][Month(now)] >= quota[AppOf(r)])
         /\ messages' = messages \cup {NewMessage(r)}
         /\ deliveries' = deliveries \cup
               ({NewMessage(r).id} \X
                   MatchingEnabledEndpoints(AppOf(r), ItemOf(r).eventType))
         /\ CountsOne(AppOf(r))
         /\ issued' = issued + 1
         /\ Answer(r, NewMessage(r)) /\ NextItem(r)
         /\ UNCHANGED <<now, apps, liveKeys, quota, endpoint, bounds>>
BY Zenon DEF Accept, NewMessage, IsNew, AppIsMissing, QuotaIsExceeded, Incremented, CountsOne

(* A table of which one row is replaced *)
LEMMA OneRow ==
  ASSUME NEW S, NEW X, NEW g \in [S -> X], NEW b \in S, NEW u \in X,
         NEW h, h = [g EXCEPT ![b] = u]
  PROVE  h \in [S -> X] /\ \A a \in S : h[a] = IF a = b THEN u ELSE g[a]
OBVIOUS

LEMMA UsageGrows ==
  ASSUME IInv, NEW b \in Apps, CountsOne(b)
  PROVE  /\ usage' \in [Apps -> [Months -> Nat]]
         /\ \A a \in Apps, n \in Months :
               usage'[a][n] = IF a = b /\ n = Month(now) THEN usage[a][n] + 1
                              ELSE usage[a][n]
<1>1. PICK f : f = usage[b]
  OBVIOUS
<1>2. PICK u : u = [f EXCEPT ![Month(now)] = f[Month(now)] + 1]
  OBVIOUS
<1>3. usage' = [usage EXCEPT ![b] = u]
  BY <1>1, <1>2 DEF CountsOne
<1>4. usage \in [Apps -> [Months -> Nat]] /\ f \in [Months -> Nat]
  BY <1>1 DEF IInv, TypeOK
<1>5. /\ u \in [Months -> Nat]
      /\ \A n \in Months : u[n] = IF n = Month(now) THEN f[n] + 1 ELSE f[n]
  <2>1. f \in [Months -> Nat]
    BY <1>4
  <2>2. \A i \in Months : f[i] \in Nat /\ f[i] + 1 \in Nat
    BY <2>1
  <2>3. u \in [Months -> Nat]
    BY <1>2, <2>1, <2>2
  <2>4. \A n \in Months : u[n] = IF n = Month(now) THEN f[n] + 1 ELSE f[n]
    BY <1>2, <2>1
  <2>5. QED
    BY <2>3, <2>4
<1>6. /\ usage' \in [Apps -> [Months -> Nat]]
      /\ \A a \in Apps : usage'[a] = IF a = b THEN u ELSE usage[a]
  BY <1>3, <1>4, <1>5, OneRow
<1> QED
  BY <1>1, <1>5, <1>6

(* The counters follow: the message is new to its app and month. *)
LEMMA CountsNewMessage ==
  ASSUME IInv, NEW x, x \notin messages, messages' = messages \cup {x},
         x.app \in Apps, x.createdAt = now,
         CountsOne(x.app)
  PROVE  IsFiniteSet(messages)' /\ UsageCountsMessages'
<1>1. IsFiniteSet(messages)
  BY DEF IInv, MessagesInv
<1>2. IsFiniteSet(messages')
  BY <1>1, FS_AddElement
<1>3. ASSUME NEW a \in Apps, NEW n \in Months
      PROVE  usage'[a][n] = Cardinality({m \in messages' : m.app = a /\ Month(m.createdAt) = n})
  <2> DEFINE C == {m \in messages : m.app = a /\ Month(m.createdAt) = n}
             D == {m \in messages' : m.app = a /\ Month(m.createdAt) = n}
  <2>1. C \subseteq messages /\ x \notin C /\ usage[a][n] = Cardinality(C)
    BY DEF IInv, MessagesInv, UsageCountsMessages
  <2>2. D = IF a = x.app /\ n = Month(now) THEN C \cup {x} ELSE C
    OBVIOUS
  <2> HIDE DEF C, D
  <2>3. IsFiniteSet(C)
    BY <1>1, <2>1, FS_Subset
  <2>4. Cardinality(C \cup {x}) = Cardinality(C) + 1
    BY <2>1, <2>3, FS_AddElement
  <2>5. usage'[a][n] = IF a = x.app /\ n = Month(now) THEN usage[a][n] + 1
                       ELSE usage[a][n]
    BY UsageGrows
  <2>6. usage'[a][n] = Cardinality(D)
    BY <2>1, <2>2, <2>4, <2>5
  <2>7. QED
    BY <2>6 DEF D
<1> QED
  BY <1>2, <1>3 DEF UsageCountsMessages

LEMMA AcceptMessages ==
  ASSUME IInv, NEW r \in Requests, Accept(r)
  PROVE  NewMessage(r) \in Message /\ NewMessage(r) \notin messages /\ MessagesInv'
<1> DEFINE x == NewMessage(r)
<1>1. /\ x \in Message
      /\ x.id = issued + 1 /\ x.app = AppOf(r) /\ x.createdAt = now
      /\ x.eventType = ItemOf(r).eventType /\ x.payload = ItemOf(r).payload
      /\ x.idempotencyKey = ItemOf(r).idempotencyKey
      /\ x.deduplicationKey = ItemOf(r).deduplicationKey
      /\ x.deduplicationKey # None => x.deduplicationExpiresAt \in Nat
  BY AcceptSteps, NewMessageType
<1>2. /\ messages' = messages \cup {x} /\ issued' = issued + 1 /\ issued \in Nat
      /\ Originals(x.app, ItemOf(r)) = {} /\ Duplicates(x.app, ItemOf(r)) = {}
      /\ CountsOne(x.app)
  BY <1>1, AcceptSteps DEF IInv, TypeOK
<1> HIDE DEF x
<1>3. messages \subseteq Message /\ \A m \in messages : m.id \in Nat /\ m.id <= issued
  BY MessageType DEF IInv, TypeOK, MessagesInv, MessagesAreOnce
<1>4. x \notin messages
  BY <1>1, <1>2, <1>3
<1>5. MessagesAreOnce'
  BY <1>1, <1>2, <1>3 DEF IInv, MessagesInv, MessagesAreOnce
<1>6. OneOriginal'
  <2>1. ASSUME NEW m \in messages, m.app = x.app, m.idempotencyKey = x.idempotencyKey,
               x.idempotencyKey # None
        PROVE FALSE
    BY <1>1, <1>2, <2>1 DEF Originals
  <2>2. QED
    BY <1>2, <2>1 DEF IInv, MessagesInv, OneOriginal
<1>7. DuplicatesAreSuppressed'
  <2>1. ASSUME NEW m \in messages, m.app = x.app, m.eventType = x.eventType,
               m.deduplicationKey = x.deduplicationKey, m.deduplicationKey # None,
               x.idempotencyKey = None
        PROVE  m.deduplicationExpiresAt <= x.createdAt
    <3>1. ~IsActiveDuplicate(m, x.app, ItemOf(r))
      BY <1>1, <1>2, <2>1, NoDuplicates DEF IInv
    <3>2. ~(m.deduplicationExpiresAt > now)
      BY <1>1, <2>1, <3>1 DEF IsActiveDuplicate
    <3>3. m.deduplicationExpiresAt \in Nat /\ now \in Nat
      BY <2>1 DEF IInv, TypeOK, MessagesInv, MessagesAreOnce
    <3>4. QED
      BY <1>1, <3>2, <3>3
  <2>2. (\A m \in messages : ~(x.id < m.id)) /\ ~(x.id < x.id)
    BY <1>1, <1>2, <1>3
  <2>3. QED
    <3> SUFFICES ASSUME NEW m \in messages', NEW n \in messages',
                        m.id < n.id /\ m.app = n.app /\ m.eventType = n.eventType,
                        m.deduplicationKey = n.deduplicationKey,
                        m.deduplicationKey # None, n.idempotencyKey = None
                 PROVE  m.deduplicationExpiresAt <= n.createdAt
      BY DEF DuplicatesAreSuppressed
    <3>1. CASE m \in messages /\ n \in messages
      BY <3>1 DEF IInv, MessagesInv, DuplicatesAreSuppressed
    <3>2. CASE m \in messages /\ n = x
      BY <2>1, <3>2
    <3>3. CASE m = x
      BY <1>2, <2>2, <3>3
    <3>4. QED
      BY <1>2, <3>1, <3>2, <3>3
<1>8. IsFiniteSet(messages)' /\ UsageCountsMessages'
  BY <1>1, <1>2, <1>4, CountsNewMessage, MessageType
<1> QED
  BY <1>1, <1>4, <1>5, <1>6, <1>7, <1>8 DEF MessagesInv, x

(* The key was never answered before, or its message would be found. *)
LEMMA AcceptAnswers == ASSUME IInv, NEW r \in Requests, Accept(r) PROVE AnswersInv'
<1> DEFINE m == NewMessage(r)
           x == [app |-> AppOf(r), idempotencyKey |-> ItemOf(r).idempotencyKey,
                 sent |-> Hash(ItemOf(r)), id |-> m.id, owner |-> m.app,
                 stored |-> Hash(m)]
<1>1. /\ m.id = issued + 1 /\ m.app = AppOf(r)
      /\ m.eventType = ItemOf(r).eventType /\ m.payload = ItemOf(r).payload
      /\ m.idempotencyKey = ItemOf(r).idempotencyKey
  BY AcceptSteps, NewMessageType
<1>2. /\ AppOf(r) \in apps /\ apps' = apps /\ messages' = messages \cup {m}
      /\ Originals(AppOf(r), ItemOf(r)) = {}
  BY AcceptSteps
<1>3. answers' = answers \cup {x}
  BY AcceptSteps DEF Answer
<1> HIDE DEF m
<1>4. /\ x.app = m.app /\ x.idempotencyKey = m.idempotencyKey
      /\ x.sent = x.stored /\ x.id = m.id /\ x.owner = x.app
  BY <1>1 DEF Hash
<1> HIDE DEF x
<1>5. ASSUME NEW y \in answers, y.app = x.app, y.idempotencyKey = x.idempotencyKey,
             x.idempotencyKey # None
      PROVE  FALSE
  <2>1. PICK n \in messages : n.app = y.app /\ n.idempotencyKey = y.idempotencyKey
    BY <1>1, <1>2, <1>4, <1>5 DEF IInv, AnswersInv, AnswersAreStored
  <2>2. n \in Originals(AppOf(r), ItemOf(r))
    BY <1>1, <1>4, <1>5, <2>1 DEF Originals
  <2>3. QED
    BY <1>2, <2>2
<1>6. AnswersAreStored'
  BY <1>2, <1>3, <1>4 DEF IInv, AnswersInv, AnswersAreStored
<1>7. IdempotentAnswers'
  BY <1>3, <1>4, <1>5 DEF IInv, AnswersInv, IdempotentAnswers
<1> QED
  BY <1>3, <1>4, <1>6, <1>7 DEF IInv, AnswersInv

(* No delivery has the new message's id yet. *)
LEMMA AcceptDeliveries == ASSUME IInv, NEW r \in Requests, Accept(r) PROVE DeliveriesInv'
<1> DEFINE x == NewMessage(r)
           to == MatchingEnabledEndpoints(AppOf(r), ItemOf(r).eventType)
<1>1. x.id = issued + 1 /\ x.app = AppOf(r) /\ issued \in Nat
  BY AcceptSteps, NewMessageType DEF IInv, TypeOK
<1>2. messages' = messages \cup {x} /\ deliveries' = deliveries \cup ({x.id} \X to)
  BY AcceptSteps
<1>3. \A m \in messages : m.id \in Nat /\ m.id <= issued
  BY MessageType DEF IInv, TypeOK, MessagesInv, MessagesAreOnce
<1>4. \A p \in deliveries : \E m \in messages : p[1] = m.id
  <2>1. \A p \in deliveries : p[1] \in {m.id : m \in messages}
    BY DEF IInv, TypeOK
  <2>2. QED
    BY <2>1
<1>5. \A e \in to : AppOfEndpoint[e] = x.app
  BY <1>1 DEF MatchingEnabledEndpoints
<1> HIDE DEF x, to
<1> SUFFICES ASSUME NEW m \in messages', NEW e \in Endpoints, <<m.id, e>> \in deliveries'
             PROVE  AppOfEndpoint[e] = m.app
  BY DEF DeliveriesInv
<1>6. CASE m \in messages
  <2>1. m.id # x.id
    BY <1>1, <1>3, <1>6
  <2>2. <<m.id, e>> \in deliveries
    BY <1>2, <2>1
  <2>3. QED
    BY <1>6, <2>2 DEF IInv, DeliveriesInv
<1>7. CASE m = x
  <2>1. <<x.id, e>> \notin deliveries
    <3>1. ASSUME <<x.id, e>> \in deliveries PROVE FALSE
      <4>1. PICK n \in messages : <<x.id, e>>[1] = n.id
        BY <1>4, <3>1
      <4>2. QED
        BY <1>1, <1>3, <4>1
    <3>2. QED
      BY <3>1
  <2>2. e \in to
    BY <1>2, <1>7, <2>1
  <2>3. QED
    BY <1>5, <1>7, <2>2
<1> QED
  BY <1>2, <1>6, <1>7

LEMMA AcceptTypes == ASSUME IInv, NEW r \in Requests, Accept(r) PROVE TypeOK' /\ AtAnItem'
<1> DEFINE x == NewMessage(r)
           to == MatchingEnabledEndpoints(AppOf(r), ItemOf(r).eventType)
<1>1. x \in Message /\ x.app \in apps /\ AppOf(r) \in Apps
  BY AcceptMessages, AcceptSteps, NewMessageType, ItemType
<1>2. /\ messages' = messages \cup {x} /\ deliveries' = deliveries \cup ({x.id} \X to)
      /\ issued' = issued + 1
      /\ UNCHANGED <<now, apps, liveKeys, quota, endpoint, bounds>>
  BY AcceptSteps
<1>3. request' \in [Requests -> RequestState] /\ AtAnItem'
  BY AcceptSteps, NextItemMoves
<1>4. usage' \in [Apps -> [Months -> Nat]]
  BY <1>1, AcceptSteps, UsageGrows
<1>5. to \subseteq {e \in Endpoints : endpoint[e] # "deleted"}
  BY DEF MatchingEnabledEndpoints
<1> HIDE DEF x, to
<1>6. ASSUME NEW p \in deliveries'
      PROVE  /\ p[1] \in {m.id : m \in messages'}
             /\ p[2] \in {e \in Endpoints : endpoint'[e] # "deleted"}
  <2>1. CASE p \in deliveries
    BY <1>2, <2>1 DEF IInv, TypeOK
  <2>2. CASE p \in {x.id} \X to
    BY <1>2, <1>5, <2>2
  <2>3. QED
    BY <1>2, <2>1, <2>2
<1>7. TypeOK'
  BY <1>1, <1>2, <1>3, <1>4, <1>6 DEF IInv, TypeOK, RequestState, bounds
<1> QED
  BY <1>3, <1>7

LEMMA AcceptIInv == ASSUME IInv, NEW r \in Requests, Accept(r) PROVE IInv'
BY AcceptTypes, AcceptMessages, AcceptAnswers, AcceptDeliveries DEF IInv

-----------------------------------------------------------------------------
(* Deletions *)

LEMMA DeleteEndpointIInv ==
  ASSUME IInv, NEW e \in Endpoints, DeleteEndpoint(e) PROVE IInv'
<1>1. /\ operatorOps' \in Nat
      /\ endpoint' = [endpoint EXCEPT ![e] = "deleted"]
      /\ deliveries' = {p \in deliveries : p[2] # e}
      /\ UNCHANGED <<now, request, answers, issued, sends, crashes,
                     apps, liveKeys, quota, messages, usage>>
  BY DEF DeleteEndpoint, OperatorRequest, IInv, TypeOK
<1>2. /\ endpoint' \in [Endpoints -> {"enabled", "disabled", "deleted"}]
      /\ \A f \in Endpoints : endpoint'[f] = IF f = e THEN "deleted" ELSE endpoint[f]
  BY <1>1 DEF IInv, TypeOK
<1>3. TypeOK' /\ AtAnItem'
  BY <1>1, <1>2 DEF IInv, TypeOK, AtAnItem
<1>4. DeliveriesInv'
  BY <1>1 DEF IInv, DeliveriesInv
<1> QED
  BY <1>1, <1>3, <1>4, SameMessages, SameAnswers DEF IInv

(* What is left of the messages is another app's, and so are the counters  *)
(* that still count.                                                       *)
LEMMA DeleteAppMessages ==
  ASSUME IInv, NEW a \in Apps,
         messages' = {m \in messages : m.app # a},
         usage' = [usage EXCEPT ![a] = [n \in Months |-> 0]], issued' = issued
  PROVE  usage' \in [Apps -> [Months -> Nat]] /\ MessagesInv'
<1>1. PICK u : u = [n \in Months |-> 0]
  OBVIOUS
<1>2. u \in [Months -> Nat] /\ \A n \in Months : u[n] = 0
  BY <1>1
<1>3. usage' = [usage EXCEPT ![a] = u] /\ usage \in [Apps -> [Months -> Nat]]
  BY <1>1 DEF IInv, TypeOK
<1>4. /\ usage' \in [Apps -> [Months -> Nat]]
      /\ \A b \in Apps : usage'[b] = IF b = a THEN u ELSE usage[b]
  BY <1>2, <1>3, OneRow
<1>5. messages' \subseteq messages /\ IsFiniteSet(messages')
  BY FS_Subset DEF IInv, MessagesInv
<1>6. MessagesAreOnce' /\ OneOriginal' /\ DuplicatesAreSuppressed'
  BY <1>5 DEF IInv, MessagesInv, MessagesAreOnce, OneOriginal, DuplicatesAreSuppressed
<1>7. ASSUME NEW b \in Apps, NEW n \in Months
      PROVE  usage'[b][n] = Cardinality({m \in messages' : m.app = b /\ Month(m.createdAt) = n})
  <2>1. CASE b = a
    <3>1. {m \in messages' : m.app = b /\ Month(m.createdAt) = n} = {}
      BY <2>1
    <3>2. QED
      BY <1>2, <1>4, <2>1, <3>1, FS_EmptySet
  <2>2. CASE b # a
    <3>1. {m \in messages' : m.app = b /\ Month(m.createdAt) = n}
            = {m \in messages : m.app = b /\ Month(m.createdAt) = n}
      BY <2>2
    <3>2. QED
      BY <1>4, <2>2, <3>1 DEF IInv, MessagesInv, UsageCountsMessages
  <2>3. QED
    BY <2>1, <2>2
<1> QED
  BY <1>4, <1>5, <1>6, <1>7 DEF MessagesInv, UsageCountsMessages

LEMMA DeleteAppIInv == ASSUME IInv, NEW a \in Apps, DeleteApp(a) PROVE IInv'
<1>1. /\ operatorOps' \in Nat
      /\ UNCHANGED <<now, request, answers, issued, sends, crashes>>
      /\ apps' = apps \ {a}
      /\ liveKeys' = {k \in liveKeys : AppOfKey[k] # a}
      /\ quota' = [quota EXCEPT ![a] = None]
      /\ endpoint' = [e \in Endpoints |->
                         IF AppOfEndpoint[e] = a THEN "deleted" ELSE endpoint[e]]
      /\ messages' = {m \in messages : m.app # a}
      /\ deliveries' = {p \in deliveries : /\ p[1] \in {m.id : m \in messages'}
                                           /\ AppOfEndpoint[p[2]] # a}
      /\ usage' = [usage EXCEPT ![a] = [n \in Months |-> 0]]
  BY DEF DeleteApp, OperatorRequest, IInv, TypeOK
<1>2. usage' \in [Apps -> [Months -> Nat]] /\ MessagesInv'
  BY <1>1, DeleteAppMessages
<1>3. /\ endpoint' \in [Endpoints -> {"enabled", "disabled", "deleted"}]
      /\ \A e \in Endpoints : endpoint'[e] =
            IF AppOfEndpoint[e] = a THEN "deleted" ELSE endpoint[e]
  BY <1>1 DEF IInv, TypeOK
<1>4. \A e \in Endpoints : endpoint'[e] # "deleted" => AppOfEndpoint[e] \in apps'
  BY <1>1, <1>3 DEF IInv, TypeOK
<1>5. ASSUME NEW p \in deliveries'
      PROVE  /\ p[1] \in {m.id : m \in messages'}
             /\ p[2] \in {e \in Endpoints : endpoint'[e] # "deleted"}
  BY <1>1, <1>3 DEF IInv, TypeOK
<1>6. /\ messages' \subseteq Message /\ \A m \in messages' : m.app \in apps'
      /\ quota' \in [Apps -> Nat \cup {None}] /\ apps' \subseteq Apps
      /\ liveKeys' \subseteq {k \in ApiKeys : AppOfKey[k] \in apps'}
  BY <1>1 DEF IInv, TypeOK
<1>7. TypeOK' /\ AtAnItem'
  BY <1>1, <1>2, <1>3, <1>4, <1>5, <1>6 DEF IInv, TypeOK, AtAnItem
<1>8. AnswersAreStored'
  BY <1>1 DEF IInv, AnswersInv, AnswersAreStored
<1>9. AnswersInv'
  BY <1>1, <1>8 DEF IInv, AnswersInv, IdempotentAnswers
<1>10. DeliveriesInv'
  BY <1>1 DEF IInv, DeliveriesInv
<1> QED
  BY <1>2, <1>7, <1>9, <1>10 DEF IInv

-----------------------------------------------------------------------------
LEMMA InitIInv == Init => IInv
<1> SUFFICES ASSUME Init PROVE IInv
  OBVIOUS
<1>1. request \in [Requests -> RequestState] /\ AtAnItem
  BY NoRequestType DEF Init, AtAnItem
<1>2. PICK u : u = [n \in Months |-> 0]
  OBVIOUS
<1>3. u \in [Months -> Nat] /\ \A n \in Months : u[n] = 0
  BY <1>2
<1>4. usage = [a \in Apps |-> u]
  BY <1>2 DEF Init
<1>5. usage \in [Apps -> [Months -> Nat]] /\ \A a \in Apps, n \in Months : usage[a][n] = 0
  BY <1>3, <1>4
<1>6. TypeOK
  <2>1. liveKeys \subseteq {k \in ApiKeys : AppOfKey[k] \in apps} /\ apps \subseteq Apps
    BY DEF Init
  <2>2. /\ endpoint \in [Endpoints -> {"enabled", "disabled", "deleted"}]
        /\ \A e \in Endpoints : AppOfEndpoint[e] \in apps
    BY DEF Init
  <2>3. quota \in [Apps -> Nat \cup {None}] /\ now \in 0 .. MaxTime
    <3>1. quota \in [Apps -> Quotas] /\ now = 0
      BY DEF Init
    <3>2. \A a \in Apps : quota[a] \in Nat \cup {None}
      BY <3>1
    <3>3. quota \in [Apps -> Nat \cup {None}]
      BY <3>1, <3>2
    <3>4. MaxTime \in Nat
      OBVIOUS
    <3>5. QED
      BY <3>1, <3>3, <3>4
  <2>4. QED
    BY <1>1, <1>5, <2>1, <2>2, <2>3 DEF Init, TypeOK, RequestState
<1>7. \A a \in Apps, n \in Months :
         {m \in messages : m.app = a /\ Month(m.createdAt) = n} = {}
  BY DEF Init
<1>8. MessagesInv
  BY <1>5, <1>7, FS_EmptySet DEF Init, MessagesInv, MessagesAreOnce, OneOriginal,
     DuplicatesAreSuppressed, UsageCountsMessages
<1>9. AnswersInv /\ DeliveriesInv
  BY DEF Init, AnswersInv, AnswersAreStored, IdempotentAnswers, DeliveriesInv
<1> QED
  BY <1>1, <1>6, <1>8, <1>9 DEF IInv

LEMMA NextIInv == IInv /\ [Next]_vars => IInv'
<1> SUFFICES ASSUME IInv, [Next]_vars PROVE IInv'
  OBVIOUS
<1>1. CASE UNCHANGED vars
  <2>1. TypeOK' /\ AtAnItem'
    BY <1>1 DEF vars, database, bounds, IInv, TypeOK, AtAnItem
  <2>2. QED
    BY <1>1, <2>1, StoresNothing DEF vars, database
<1>2. ASSUME NEW r \in Requests, HandleItem(r) PROVE IInv'
  BY <1>2, ReplayIInv, ConflictIInv, DeduplicateIInv, RequestIInv, RejectIInv, AcceptIInv
     DEF HandleItem
<1>3. CASE \/ \E k \in ApiKeys : RevokeKey(k)
           \/ \E a \in Apps, q \in Quotas : SetQuota(a, q)
           \/ \E e \in Endpoints, s \in {"enabled", "disabled"} : SetEnabled(e, s)
  BY <1>3, SettingsIInv
<1> QED
  BY <1>1, <1>2, <1>3, TickIInv, RequestIInv, CrashIInv, DeleteEndpointIInv, DeleteAppIInv
     DEF Next

-----------------------------------------------------------------------------
(* The quota *)

NoneBeyondQuota ==
    \A a \in Apps, n \in Months :
        usage'[a][n] > usage[a][n] /\ quota[a] # None => usage'[a][n] <= quota[a]

(* Only Accept counts, one message of this month, and none that the quota  *)
(* does not allow; everything else leaves a counter or starts it over.     *)
LEMMA AcceptKeepsQuota == ASSUME IInv, NEW r \in Requests, Accept(r) PROVE NoneBeyondQuota
<1>1. AppOf(r) \in Apps /\ CountsOne(AppOf(r))
  BY AcceptSteps, ItemType
<1>2. \A a \in Apps, n \in Months :
         usage'[a][n] = IF a = AppOf(r) /\ n = Month(now) THEN usage[a][n] + 1
                        ELSE usage[a][n]
  BY <1>1, UsageGrows
<1>3. quota[AppOf(r)] # None => ~(usage[AppOf(r)][Month(now)] >= quota[AppOf(r)])
  BY AcceptSteps
<1>4. ASSUME NEW a \in Apps, NEW n \in Months, usage'[a][n] > usage[a][n], quota[a] # None
      PROVE  usage'[a][n] <= quota[a]
  <2>1. usage[a][n] \in Nat /\ quota[a] \in Nat
    BY <1>4 DEF IInv, TypeOK
  <2>2. a = AppOf(r) /\ n = Month(now) /\ usage'[a][n] = usage[a][n] + 1
    BY <1>2, <1>4, <2>1
  <2>3. ~(usage[a][n] >= quota[a])
    BY <1>3, <1>4, <2>2
  <2>4. QED
    BY <2>1, <2>2, <2>3
<1> QED
  BY <1>4 DEF NoneBeyondQuota

LEMMA DeletionKeepsQuota ==
  ASSUME IInv, NEW a \in Apps, DeleteApp(a) PROVE NoneBeyondQuota
<1>1. PICK u : u = [n \in Months |-> 0]
  OBVIOUS
<1>2. u \in [Months -> Nat] /\ \A n \in Months : u[n] = 0
  BY <1>1
<1>3. usage' = [usage EXCEPT ![a] = u] /\ usage \in [Apps -> [Months -> Nat]]
  BY <1>1 DEF DeleteApp, IInv, TypeOK
<1>4. \A b \in Apps : usage'[b] = IF b = a THEN u ELSE usage[b]
  BY <1>2, <1>3, OneRow
<1>5. \A b \in Apps, n \in Months : usage[b][n] \in Nat
  BY <1>3
<1>6. \A b \in Apps, n \in Months : ~(usage'[b][n] > usage[b][n])
  BY <1>2, <1>4, <1>5
<1> QED
  BY <1>6 DEF NoneBeyondQuota

LEMMA NextKeepsQuota == IInv /\ [Next]_vars => [NoneBeyondQuota]_vars
<1> SUFFICES ASSUME IInv, [Next]_vars PROVE NoneBeyondQuota
  OBVIOUS
<1>1. CASE usage' = usage
  BY <1>1 DEF NoneBeyondQuota, IInv, TypeOK
<1>2. ASSUME NEW r \in Requests, HandleItem(r) PROVE NoneBeyondQuota
  BY <1>1, <1>2, AcceptKeepsQuota
     DEF HandleItem, Replay, Conflict, Deduplicate, FailOnMissingApp, RejectOverQuota, database
<1>3. ASSUME NEW r \in Requests,
             Authenticate(r) \/ StartItems(r) \/ BodyReadFails(r) \/ Respond(r)
      PROVE  NoneBeyondQuota
  BY <1>1, <1>3 DEF Authenticate, StartItems, BodyReadFails, Respond, database
<1>4. CASE Tick \/ Crash \/ UNCHANGED vars
  BY <1>1, <1>4 DEF Tick, Crash, vars, database
<1>5. CASE \/ \E k \in ApiKeys : RevokeKey(k)
           \/ \E a \in Apps, q \in Quotas : SetQuota(a, q)
           \/ \E e \in Endpoints, s \in {"enabled", "disabled"} : SetEnabled(e, s)
           \/ \E e \in Endpoints : DeleteEndpoint(e)
  BY <1>1, <1>5 DEF RevokeKey, SetQuota, SetEnabled, DeleteEndpoint
<1> QED
  BY <1>2, <1>3, <1>4, <1>5, DeletionKeepsQuota DEF Next

-----------------------------------------------------------------------------
(* What holds of every behaviour *)

(* Ids, idempotency keys, answers, counters and foreign keys agree.        *)
THEOREM IntakeInvariant == Spec => []IInv
<1>1. Init => IInv
  BY InitIInv
<1>2. IInv /\ [Next]_vars => IInv'
  BY NextIInv
<1> QED
  BY <1>1, <1>2, PTL DEF Spec

(* The tables and the requests keep their types and the foreign keys of    *)
(* the schema.                                                             *)
THEOREM IntakeTypes == Spec => []TypeOK
<1>1. IInv => TypeOK
  BY DEF IInv
<1> QED
  BY <1>1, IntakeInvariant, PTL

(* README.md:85: whatever is sent under one idempotency key is answered    *)
(* with one message, and only if the body is that of the message, however  *)
(* requests are batched, repeated and interrupted by crashes.              *)
THEOREM AnswersAreIdempotent == Spec => []IdempotentAnswers
<1>1. IInv => IdempotentAnswers
  BY DEF IInv, AnswersInv
<1> QED
  BY <1>1, IntakeInvariant, PTL

(* README.md:87: no second message with the same deduplication key is      *)
(* stored while the window of the first is open.                           *)
THEOREM DuplicatesStayOut == Spec => []DuplicatesAreSuppressed
<1>1. IInv => DuplicatesAreSuppressed
  BY DEF IInv, MessagesInv
<1> QED
  BY <1>1, IntakeInvariant, PTL

(* usage.ts:69, messages.ts:215: an app's counter for a month is the       *)
(* number of the messages stored for it in that month.                     *)
THEOREM UsageIsExact == Spec => []UsageCountsMessages
<1>1. IInv => UsageCountsMessages
  BY DEF IInv, MessagesInv
<1> QED
  BY <1>1, IntakeInvariant, PTL

(* An answer names a message of the tenant that asked, and a message goes  *)
(* to endpoints of its own tenant only.                                    *)
THEOREM TenantsStayApart == Spec => []TenantsAreIsolated
<1>1. IInv => TenantsAreIsolated
  BY DEF IInv, AnswersInv, DeliveriesInv, TenantsAreIsolated
<1> QED
  BY <1>1, IntakeInvariant, PTL

(* README.md:99: no step counts a message beyond the quota of the moment.  *)
THEOREM QuotaHolds == Spec => QuotaIsKept
<1>1. IInv /\ [Next]_vars => [NoneBeyondQuota]_vars
  BY NextKeepsQuota
<1> QED
  BY <1>1, IntakeInvariant, PTL DEF Spec, QuotaIsKept, NoneBeyondQuota
=============================================================================
