---------------------------- MODULE MessageIntake ----------------------------
(***************************************************************************)
(* Accepting messages: acceptMessage and acceptMessageBatch of             *)
(* src/messages.ts behind the API-key check of src/auth.ts, with the quota *)
(* and usage counters of src/usage.ts and the operator requests that       *)
(* interfere (src/admin.ts, src/endpoints.ts).                             *)
(*                                                                         *)
(* A request is authenticated before its body has arrived, so that         *)
(* anything may happen between the two (gateway.ts:846-868).  Its items    *)
(* are then accepted in one synchronous run, each in a transaction of its  *)
(* own: only a crash can come between two of them.  Clients send a request *)
(* again when they like, which is what idempotency keys are for.           *)
(*                                                                         *)
(* Abstracted: items are well-formed; a payload hash is the event type and *)
(* the payload; ids count up.  Deliveries are only their message and       *)
(* endpoint (DeliveryQueue is what happens to them next).                  *)
(***************************************************************************)
EXTENDS Naturals, FiniteSets, Sequences

CONSTANTS
    Apps, ApiKeys, Endpoints,
    AppOfKey,        \* api_keys.app_id
    AppOfEndpoint,   \* endpoints.app_id
    Subscriptions,   \* endpoints.event_types_json: the event types of each
    Requests,        \* the requests clients send
    KeyOf,           \* the API key each of them carries
    Body,            \* the items of each of them
    EventTypes, Payloads, IdempotencyKeys, DeduplicationKeys, Windows,
    Quotas,          \* the quotas an administrator sets
    None,            \* SQL NULL
    MonthLength,     \* the usage counters start over every MonthLength
    MaxTime,         \* bound: the clock stops here
    MaxSends,        \* bound: requests sent
    MaxCrashes,      \* bound: process crashes
    MaxOperatorOps   \* bound: operator requests

Item == [eventType : EventTypes, payload : Payloads,
         idempotencyKey : IdempotencyKeys \cup {None},
         deduplicationKey : DeduplicationKeys \cup {None},
         deduplicationWindow : Windows]

ASSUME IntakeAssumption ==
    /\ AppOfKey \in [ApiKeys -> Apps]
    /\ AppOfEndpoint \in [Endpoints -> Apps]
    /\ Subscriptions \in [Endpoints -> SUBSET EventTypes]
    /\ KeyOf \in [Requests -> ApiKeys]
    /\ Body \in [Requests -> Seq(Item)]
    /\ Windows \subseteq Nat \ {0}
    /\ Quotas \subseteq Nat \cup {None}
    /\ MonthLength \in Nat \ {0}
    /\ None \notin IdempotencyKeys \cup DeduplicationKeys \cup Nat
    /\ {MaxTime, MaxSends, MaxCrashes, MaxOperatorOps} \subseteq Nat

VARIABLES
    now,          \* the clock the program reads
    apps,         \* rows of the apps table
    liveKeys,     \* rows of api_keys that are not revoked
    quota,        \* apps.monthly_message_quota
    endpoint,     \* endpoints.enabled, or "deleted"
    messages,     \* rows of the messages table
    deliveries,   \* rows of deliveries: message id and endpoint
    usage,        \* usage_months.messages_accepted, by app and month
    request,      \* what the gateway knows of a request in progress
    answers,      \* history: what items were answered with
    issued,       \* history: message ids issued
    sends, crashes, operatorOps  \* bounded counts

database == <<apps, liveKeys, quota, endpoint, messages, deliveries, usage>>
bounds == <<sends, crashes, operatorOps>>
vars == <<now, database, request, answers, issued, bounds>>

Month(t) == t \div MonthLength
Months == 0 .. Month(MaxTime)

Hash(m) == <<m.eventType, m.payload>>

Message == [id : Nat, app : Apps, eventType : EventTypes, payload : Payloads,
            idempotencyKey : IdempotencyKeys \cup {None},
            deduplicationKey : DeduplicationKeys \cup {None},
            deduplicationExpiresAt : Nat \cup {None}, createdAt : Nat]

(* The foreign keys: what belongs to an app exists only while the app does. *)
TypeOK ==
    /\ now \in 0 .. MaxTime
    /\ apps \subseteq Apps
    /\ liveKeys \subseteq {k \in ApiKeys : AppOfKey[k] \in apps}
    /\ quota \in [Apps -> Nat \cup {None}]
    /\ endpoint \in [Endpoints -> {"enabled", "disabled", "deleted"}]
    /\ \A e \in Endpoints : endpoint[e] # "deleted" => AppOfEndpoint[e] \in apps
    /\ messages \subseteq Message
    /\ \A m \in messages : m.app \in apps
    /\ \A p \in deliveries :
          /\ p[1] \in {m.id : m \in messages}
          /\ p[2] \in {e \in Endpoints : endpoint[e] # "deleted"}
    /\ usage \in [Apps -> [Months -> Nat]]
    /\ request \in [Requests -> [phase : {"idle", "authenticated", "running"}, item : Nat]]
    /\ issued \in Nat
    /\ sends \in Nat /\ crashes \in Nat /\ operatorOps \in Nat

NoRequest == [phase |-> "idle", item |-> 0]

Init ==
    /\ now = 0
    /\ apps = Apps
    /\ liveKeys = ApiKeys
    /\ quota \in [Apps -> Quotas]
    /\ endpoint = [e \in Endpoints |-> "enabled"]
    /\ messages = {}
    /\ deliveries = {}
    /\ usage = [a \in Apps |-> [n \in Months |-> 0]]
    /\ request = [r \in Requests |-> NoRequest]
    /\ answers = {}
    /\ issued = 0
    /\ sends = 0 /\ crashes = 0 /\ operatorOps = 0

(* The program is single-threaded: while a request's items are accepted,   *)
(* nothing else runs.                                                      *)
EventLoopIsFree == \A r \in Requests : request[r].phase # "running"

Tick ==
    /\ EventLoopIsFree
    /\ now < MaxTime
    /\ now' = now + 1
    /\ UNCHANGED <<database, request, answers, issued, bounds>>

-----------------------------------------------------------------------------
(* authenticateApiKey: the key is looked up when the headers have arrived. *)
Authenticate(r) ==
    /\ EventLoopIsFree
    /\ request[r].phase = "idle"
    /\ KeyOf[r] \in liveKeys
    /\ sends < MaxSends
    /\ sends' = sends + 1
    /\ request' = [request EXCEPT ![r] = [phase |-> "authenticated", item |-> 0]]
    /\ UNCHANGED <<now, database, answers, issued, crashes, operatorOps>>

(* The body has arrived. *)
StartItems(r) ==
    /\ EventLoopIsFree
    /\ request[r].phase = "authenticated"
    /\ request' = [request EXCEPT ![r] = [phase |-> "running", item |-> 1]]
    /\ UNCHANGED <<now, database, answers, issued, bounds>>

(* readRequestBody, readJsonBody: the client goes away, or sends too much, *)
(* or what is no JSON, and nothing is accepted.                            *)
BodyReadFails(r) ==
    /\ EventLoopIsFree
    /\ request[r].phase = "authenticated"
    /\ request' = [request EXCEPT ![r] = NoRequest]
    /\ UNCHANGED <<now, database, answers, issued, bounds>>

-----------------------------------------------------------------------------
(* One item *)

IsHandled(r) == request[r].phase = "running" /\ request[r].item <= Len(Body[r])
AppOf(r) == AppOfKey[KeyOf[r]]
ItemOf(r) == Body[r][request[r].item]

(* getMessageByIdempotencyKey: the original of a retried item. *)
Originals(a, item) ==
    {m \in messages : /\ item.idempotencyKey # None
                      /\ m.app = a
                      /\ m.idempotencyKey = item.idempotencyKey}

(* The stored hash is compared with that of the item; before it, only its  *)
(* event type is.                                                          *)
IsOfAnotherType(m, item) == m.eventType # item.eventType
IsConflict(m, item) == Hash(m) # Hash(item)

(* Variant of the next query: messages that were sent with an idempotency  *)
(* key are left out.                                                       *)
IsActiveDuplicateWithoutKey(m, a, item) ==
    /\ m.app = a
    /\ m.eventType = item.eventType
    /\ m.deduplicationKey = item.deduplicationKey
    /\ m.idempotencyKey = None
    /\ m.deduplicationExpiresAt > now

(* getActiveDeduplicatedMessage: the message whose window is still open.   *)
IsActiveDuplicate(m, a, item) ==
    /\ m.app = a
    /\ m.eventType = item.eventType
    /\ m.deduplicationKey = item.deduplicationKey
    /\ m.deduplicationExpiresAt > now

(* The query takes the oldest; ids break ties, and they are random. An     *)
(* item with an idempotency key is never looked up.                        *)
Duplicates(a, item) ==
    LET active == {m \in messages : IsActiveDuplicate(m, a, item)}
    IN  IF item.idempotencyKey # None \/ item.deduplicationKey = None
        THEN {}
        ELSE {m \in active : \A n \in active : m.createdAt <= n.createdAt}

(* quotaStatus, of the current month; before it, with the boundary off by  *)
(* one.                                                                    *)
QuotaIsOverrun(a) == quota[a] # None /\ usage[a][Month(now)] > quota[a]
QuotaIsExceeded(a) == quota[a] # None /\ usage[a][Month(now)] >= quota[a]

(* assertMessageQuotaAvailable reads the quota from the app's row. Before  *)
(* it, a variant that looks only at apps that have a quota.                *)
CappedAppIsMissing(a) == a \notin apps /\ quota[a] # None
AppIsMissing(a) == a \notin apps

(* listMatchingEnabledEndpoints; before it, without the tenant.            *)
EnabledEndpointsOfAnyone(a, type) ==
    {e \in Endpoints : endpoint[e] = "enabled" /\ type \in Subscriptions[e]}
MatchingEnabledEndpoints(a, type) ==
    {e \in Endpoints : /\ AppOfEndpoint[e] = a
                       /\ endpoint[e] = "enabled"
                       /\ type \in Subscriptions[e]}

(* ON CONFLICT DO UPDATE; before it, overwriting the counter.              *)
Overwritten(count) == 1
Incremented(count) == count + 1

NextItem(r) ==
    request' = [request EXCEPT ![r] = [phase |-> "running", item |-> request[r].item + 1]]

Answer(r, m) ==
    answers' = answers \cup
        {[app |-> AppOf(r), idempotencyKey |-> ItemOf(r).idempotencyKey,
          sent |-> Hash(ItemOf(r)), id |-> m.id, owner |-> m.app, stored |-> Hash(m)]}

(* The item was accepted before: its message is the answer.                *)
Replay(r) ==
    /\ IsHandled(r)
    /\ \E m \in Originals(AppOf(r), ItemOf(r)) :
          ~IsConflict(m, ItemOf(r)) /\ Answer(r, m)
    /\ NextItem(r)
    /\ UNCHANGED <<now, database, issued, bounds>>

(* The key was used for another body: the item is rejected.                *)
Conflict(r) ==
    /\ IsHandled(r)
    /\ \E m \in Originals(AppOf(r), ItemOf(r)) : IsConflict(m, ItemOf(r))
    /\ NextItem(r)
    /\ UNCHANGED <<now, database, answers, issued, bounds>>

IsNew(r) ==
    /\ IsHandled(r)
    /\ Originals(AppOf(r), ItemOf(r)) = {}

(* The item repeats a message whose deduplication window is open.          *)
Deduplicate(r) ==
    /\ IsNew(r)
    /\ \E m \in Duplicates(AppOf(r), ItemOf(r)) : Answer(r, m)
    /\ NextItem(r)
    /\ UNCHANGED <<now, database, issued, bounds>>

(* The app was deleted after the request was authenticated: the error is   *)
(* none of those a batch reports per item, and ends the request.           *)
FailOnMissingApp(r) ==
    /\ IsNew(r) /\ Duplicates(AppOf(r), ItemOf(r)) = {}
    /\ AppIsMissing(AppOf(r))
    /\ request' = [request EXCEPT ![r] = NoRequest]
    /\ UNCHANGED <<now, database, answers, issued, bounds>>

RejectOverQuota(r) ==
    /\ IsNew(r) /\ Duplicates(AppOf(r), ItemOf(r)) = {}
    /\ ~AppIsMissing(AppOf(r)) /\ QuotaIsExceeded(AppOf(r))
    /\ NextItem(r)
    /\ UNCHANGED <<now, database, answers, issued, bounds>>

(* The transaction that stores the message, queues its deliveries and      *)
(* counts it.                                                              *)
Accept(r) ==
    LET a == AppOf(r)
        item == ItemOf(r)
        message == [id |-> issued + 1, app |-> a,
                    eventType |-> item.eventType, payload |-> item.payload,
                    idempotencyKey |-> item.idempotencyKey,
                    deduplicationKey |-> item.deduplicationKey,
                    deduplicationExpiresAt |->
                        IF item.deduplicationKey = None THEN None
                        ELSE now + item.deduplicationWindow,
                    createdAt |-> now]
    IN  /\ IsNew(r) /\ Duplicates(a, item) = {}
        /\ ~AppIsMissing(a) /\ ~QuotaIsExceeded(a)
        /\ messages' = messages \cup {message}
        /\ deliveries' = deliveries \cup
              ({message.id} \X MatchingEnabledEndpoints(a, item.eventType))
        /\ usage' = [usage EXCEPT ![a][Month(now)] = Incremented(@)]
        /\ issued' = issued + 1
        /\ Answer(r, message)
        /\ NextItem(r)
        /\ UNCHANGED <<now, apps, liveKeys, quota, endpoint, bounds>>

HandleItem(r) ==
    \/ Replay(r)
    \/ Conflict(r)
    \/ Deduplicate(r)
    \/ FailOnMissingApp(r)
    \/ RejectOverQuota(r)
    \/ Accept(r)

(* All items are done: the response is sent, and may not arrive.           *)
Respond(r) ==
    /\ request[r].phase = "running" /\ request[r].item > Len(Body[r])
    /\ request' = [request EXCEPT ![r] = NoRequest]
    /\ UNCHANGED <<now, database, answers, issued, bounds>>

(* The process dies, maybe between two items of a batch: the items before  *)
(* stay accepted.                                                          *)
Crash ==
    /\ crashes < MaxCrashes
    /\ \E r \in Requests : request[r].phase # "idle"
    /\ crashes' = crashes + 1
    /\ request' = [r \in Requests |-> NoRequest]
    /\ UNCHANGED <<now, database, answers, issued, sends, operatorOps>>

-----------------------------------------------------------------------------
OperatorRequest ==
    /\ EventLoopIsFree
    /\ operatorOps < MaxOperatorOps
    /\ operatorOps' = operatorOps + 1
    /\ UNCHANGED <<now, request, answers, issued, sends, crashes>>

(* revokeAdminApiKey *)
RevokeKey(k) ==
    /\ OperatorRequest
    /\ k \in liveKeys
    /\ liveKeys' = liveKeys \ {k}
    /\ UNCHANGED <<apps, quota, endpoint, messages, deliveries, usage>>

(* updateAdminApp with "monthlyMessageQuota": it may go below the usage.   *)
SetQuota(a, q) ==
    /\ OperatorRequest
    /\ a \in apps /\ q # quota[a]
    /\ quota' = [quota EXCEPT ![a] = q]
    /\ UNCHANGED <<apps, liveKeys, endpoint, messages, deliveries, usage>>

(* updateEndpoint with "enabled" *)
SetEnabled(e, enabled) ==
    /\ OperatorRequest
    /\ endpoint[e] \in {"enabled", "disabled"} \ {enabled}
    /\ endpoint' = [endpoint EXCEPT ![e] = enabled]
    /\ UNCHANGED <<apps, liveKeys, quota, messages, deliveries, usage>>

(* deleteEndpoint, with its deliveries *)
DeleteEndpoint(e) ==
    /\ OperatorRequest
    /\ endpoint[e] # "deleted"
    /\ endpoint' = [endpoint EXCEPT ![e] = "deleted"]
    /\ deliveries' = {p \in deliveries : p[2] # e}
    /\ UNCHANGED <<apps, liveKeys, quota, messages, usage>>

(* deleteAdminApp, with everything that refers to the app                  *)
DeleteApp(a) ==
    LET kept == {m \in messages : m.app # a}
    IN  /\ OperatorRequest
        /\ a \in apps
        /\ apps' = apps \ {a}
        /\ liveKeys' = {k \in liveKeys : AppOfKey[k] # a}
        /\ quota' = [quota EXCEPT ![a] = None]
        /\ endpoint' = [e \in Endpoints |->
                           IF AppOfEndpoint[e] = a THEN "deleted" ELSE endpoint[e]]
        /\ messages' = kept
        /\ deliveries' = {p \in deliveries : /\ p[1] \in {m.id : m \in kept}
                                             /\ AppOfEndpoint[p[2]] # a}
        /\ usage' = [usage EXCEPT ![a] = [n \in Months |-> 0]]

-----------------------------------------------------------------------------
Next ==
    \/ Tick
    \/ \E r \in Requests : Authenticate(r)
    \/ \E r \in Requests : StartItems(r)
    \/ \E r \in Requests : BodyReadFails(r)
    \/ \E r \in Requests : HandleItem(r)
    \/ \E r \in Requests : Respond(r)
    \/ Crash
    \/ \E k \in ApiKeys : RevokeKey(k)
    \/ \E a \in Apps, q \in Quotas : SetQuota(a, q)
    \/ \E e \in Endpoints, s \in {"enabled", "disabled"} : SetEnabled(e, s)
    \/ \E e \in Endpoints : DeleteEndpoint(e)
    \/ \E a \in Apps : DeleteApp(a)

Spec == Init /\ [][Next]_vars

-----------------------------------------------------------------------------
(* README.md:85 (a producer's retried send deduplicates on the original):  *)
(* whatever is sent under one key, in one batch or in several, before or   *)
(* after a crash, only one message is ever the answer, and only to the     *)
(* body it stores.                                                         *)
IdempotentAnswers ==
    \A x, y \in answers :
        /\ x.idempotencyKey # None => x.sent = x.stored
        /\ x.app = y.app /\ x.idempotencyKey = y.idempotencyKey
              /\ x.idempotencyKey # None
           => x.id = y.id

(* README.md:87: while the window of a message is open, no other message   *)
(* with its deduplication key is stored, unless the producer gave the      *)
(* other one an idempotency key of its own.                                *)
DuplicatesAreSuppressed ==
    \A m, n \in messages :
        /\ m.id < n.id /\ m.app = n.app /\ m.eventType = n.eventType
        /\ m.deduplicationKey = n.deduplicationKey /\ m.deduplicationKey # None
        /\ n.idempotencyKey = None
        => m.deduplicationExpiresAt <= n.createdAt

(* usage.ts:69, messages.ts:215: the counter an app is billed by is the    *)
(* number of messages stored for it in the month, replays, duplicates,     *)
(* rejections and half-finished batches not counted.                       *)
UsageCountsMessages ==
    \A a \in Apps, n \in Months :
        usage[a][n] = Cardinality({m \in messages : m.app = a /\ Month(m.createdAt) = n})

(* README.md:99: no message is counted beyond the quota of the moment,     *)
(* also in the middle of a batch or after the quota was lowered.           *)
QuotaIsKept ==
    [][\A a \in Apps, n \in Months :
          usage'[a][n] > usage[a][n] /\ quota[a] # None => usage'[a][n] <= quota[a]]_vars

(* Tenants are isolated: what a key's requests are answered with, and      *)
(* where their messages go, belongs to the app of the key.                 *)
TenantsAreIsolated ==
    /\ \A x \in answers : x.owner = x.app
    /\ \A m \in messages, e \in Endpoints :
          <<m.id, e>> \in deliveries => AppOfEndpoint[e] = m.app
=============================================================================
