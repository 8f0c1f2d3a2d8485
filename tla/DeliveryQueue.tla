---------------------------- MODULE DeliveryQueue ----------------------------
(***************************************************************************)
(* The leased delivery queue of src/worker.ts over the deliveries,         *)
(* delivery_attempts and endpoints tables of src/storage.ts, with the      *)
(* handlers of src/messages.ts and src/endpoints.ts that interfere with it.*)
(*                                                                         *)
(* One step is one synchronous section of the program: a transaction, or   *)
(* what happens between two awaits.  The state a worker tick keeps across  *)
(* its awaits is a snapshot taken when it claimed (claim); everything else *)
(* is in the database and survives a crash.                                *)
(*                                                                         *)
(* Abstracted: timestamps are small naturals; payloads, headers, signing   *)
(* and failure reasons; endpoint throttling (every endpoint here has no    *)
(* rate limit) and the order in which due deliveries are picked, so that a *)
(* claim takes any of them up to the batch size.                           *)
(***************************************************************************)
EXTENDS Integers, Sequences, FiniteSets

CONSTANTS
    Deliveries,         \* rows of the deliveries table
    Endpoints,          \* rows of the endpoints table
    Messages,           \* rows of the messages table
    EndpointOf,         \* deliveries.endpoint_id
    MessageOf,          \* deliveries.message_id
    Workers,            \* ticks in progress at the same time
    BatchSize,          \* deliveries a tick claims at most
    Concurrency,        \* requests a tick has in flight at most
    VisibilityTimeout,  \* lease lifetime
    AttemptBudget,      \* attempts before a delivery is dead-lettered
    BackoffBase,        \* backoff after the first failure
    BackoffMax,         \* longest backoff
    AutoDisableAfter,   \* auto-disable window, 0 is off
    None,               \* SQL NULL
    MaxTime,            \* bound: the clock stops here
    MaxCrashes,         \* bound: process crashes
    MaxOperatorOps      \* bound: operator requests that interfere

Time == 0 .. MaxTime

Smaller(a, b) == IF a <= b THEN a ELSE b

(* The delay before the next attempt: it doubles with every failure, up to *)
(* BackoffMax; the exponent is capped so that the power stays finite.      *)
CalculateRetryBackoffMs(attemptNumber) ==
    Smaller(BackoffMax, BackoffBase * 2 ^ Smaller(attemptNumber - 1, 30))

ASSUME QueueAssumption ==
    /\ EndpointOf \in [Deliveries -> Endpoints]
    /\ MessageOf \in [Deliveries -> Messages]
    /\ BatchSize \in Nat \ {0} /\ Concurrency \in Nat \ {0}
    /\ VisibilityTimeout \in Nat \ {0}
    /\ AttemptBudget \in Nat \ {0}
    /\ AutoDisableAfter \in Nat
    /\ None \notin Nat /\ None \notin Workers
    /\ MaxTime \in Nat /\ MaxCrashes \in Nat /\ MaxOperatorOps \in Nat

(* resolveWorkerOptions accepts only positive backoffs, and                *)
(* calculateRetryBackoffMs refuses a maximum below the base.               *)
ASSUME BackoffAssumption ==
    \A n \in 1 .. AttemptBudget : CalculateRetryBackoffMs(n) \in Nat \ {0}

VARIABLES
    now,             \* the clock the program reads
    endpoint,        \* endpoints.enabled, or "deleted"
    status,          \* deliveries.status, or "absent" / "deleted"
    attemptCount,    \* deliveries.attempt_count
    nextAttemptAt,   \* deliveries.next_attempt_at
    leaseExpiresAt,  \* deliveries.lease_expires_at
    attempts,        \* delivery_attempts, in insertion order
    metered,         \* usage_months.delivery_attempts, of all months
    claim,           \* claim[w][d]: what tick w remembers of delivery d
    epochStart,      \* history: attempts before the last manual retry
    crashes,         \* crashes so far
    operatorOps      \* operator requests so far

rowVars == <<status, attemptCount, nextAttemptAt, leaseExpiresAt, attempts,
             metered>>
boundVars == <<crashes, operatorOps>>
vars == <<now, endpoint, rowVars, claim, epochStart, boundVars>>

Statuses == {"absent", "pending", "delivering", "succeeded", "dead_letter",
             "deleted"}

(* A row of delivery_attempts; the audit trail the operator reads.         *)
AttemptRow == [number : Nat, outcome : {"succeeded", "failed", "dead_letter"},
               at : Nat]

(* The task of a tick: claimed and waiting for one of its request slots,   *)
(* requested, or answered with a 2xx.                                      *)
Task == [phase : {"idle", "queued", "sending", "accepted"},
         count : Nat, lease : Nat, at : Nat]
NoTask == [phase |-> "idle", count |-> 0, lease |-> 0, at |-> 0]

Holds(w, d) == claim[w][d].phase # "idle"
Requesting(w, d) == claim[w][d].phase \in {"sending", "accepted"}

TypeOK ==
    /\ now \in Nat
    /\ endpoint \in [Endpoints -> {"enabled", "disabled", "deleted"}]
    /\ status \in [Deliveries -> Statuses]
    /\ attemptCount \in [Deliveries -> 0 .. AttemptBudget]
    /\ nextAttemptAt \in [Deliveries -> Nat \cup {None}]
    /\ leaseExpiresAt \in [Deliveries -> Nat \cup {None}]
    /\ attempts \in [Deliveries -> Seq(AttemptRow)]
    /\ metered \in Nat
    /\ claim \in [Workers -> [Deliveries -> Task]]
    /\ epochStart \in [Deliveries -> Nat]
    /\ crashes \in Nat
    /\ operatorOps \in Nat

Init ==
    /\ now = 0
    /\ endpoint = [e \in Endpoints |-> "enabled"]
    /\ status = [d \in Deliveries |-> "absent"]
    /\ attemptCount = [d \in Deliveries |-> 0]
    /\ nextAttemptAt = [d \in Deliveries |-> None]
    /\ leaseExpiresAt = [d \in Deliveries |-> None]
    /\ attempts = [d \in Deliveries |-> << >>]
    /\ metered = 0
    /\ claim = [w \in Workers |-> [d \in Deliveries |-> NoTask]]
    /\ epochStart = [d \in Deliveries |-> 0]
    /\ crashes = 0
    /\ operatorOps = 0

-----------------------------------------------------------------------------
(* Time passes between any two steps. *)
Tick ==
    /\ now < MaxTime
    /\ now' = now + 1
    /\ UNCHANGED <<endpoint, rowVars, claim, epochStart, boundVars>>

(* acceptMessage inserts one pending delivery, due at once, for each       *)
(* endpoint that is enabled.                                               *)
Enqueue(d) ==
    /\ status[d] = "absent"
    /\ endpoint[EndpointOf[d]] = "enabled"
    /\ status' = [status EXCEPT ![d] = "pending"]
    /\ UNCHANGED <<now, endpoint, attemptCount, nextAttemptAt, leaseExpiresAt,
                   attempts, metered, claim, epochStart, boundVars>>

-----------------------------------------------------------------------------
(* Claiming *)

RetryIsDue(d) == nextAttemptAt[d] = None \/ nextAttemptAt[d] <= now

(* Variants of the claim's WHERE clause, each with one slip.               *)
LeaseIsAboutToExpire(d) ==
    leaseExpiresAt[d] # None /\ leaseExpiresAt[d] <= now + 1
ClaimableWithAnyLease(d) ==
    /\ \/ status[d] = "pending" /\ RetryIsDue(d)
       \/ status[d] = "delivering"
    /\ endpoint[EndpointOf[d]] = "enabled"
ClaimableUnlessSucceeded(d) ==
    /\ status[d] \in {"pending", "dead_letter"} /\ RetryIsDue(d)
    /\ endpoint[EndpointOf[d]] = "enabled"

LeaseHasExpired(d) == leaseExpiresAt[d] # None /\ leaseExpiresAt[d] <= now

Claimable(d) ==
    /\ \/ status[d] = "pending" /\ RetryIsDue(d)
       \/ status[d] = "delivering" /\ LeaseHasExpired(d)
    /\ endpoint[EndpointOf[d]] = "enabled"

NewLease == now + VisibilityTimeout

(* runDeliveryWorkerTick claims a batch and keeps a snapshot of its rows.  *)
(* The next tick of a worker starts when the last one has ended.           *)
Claim(w) ==
    LET claimable == {d \in Deliveries : Claimable(d)}
    IN  /\ \A d \in Deliveries : ~Holds(w, d)
        /\ \E batch \in SUBSET claimable :
              /\ batch # {}
              /\ Cardinality(batch) = Smaller(BatchSize, Cardinality(claimable))
              /\ status' = [d \in Deliveries |->
                               IF d \in batch THEN "delivering" ELSE status[d]]
              /\ leaseExpiresAt' = [d \in Deliveries |->
                               IF d \in batch THEN NewLease ELSE leaseExpiresAt[d]]
              /\ claim' = [claim EXCEPT ![w] = [d \in Deliveries |->
                               IF d \in batch
                               THEN [phase |-> "queued", count |-> attemptCount[d],
                                     lease |-> NewLease, at |-> 0]
                               ELSE NoTask]]
        /\ UNCHANGED <<now, endpoint, attemptCount, nextAttemptAt, attempts,
                       metered, epochStart, boundVars>>

-----------------------------------------------------------------------------
(* Sending *)

(* A request slot of the tick is free: mapWithConcurrency starts the task. *)
(* The lease is not looked at again.                                       *)
Send(w, d) ==
    /\ claim[w][d].phase = "queued"
    /\ Cardinality({e \in Deliveries : Requesting(w, e)}) < Concurrency
    /\ claim' = [claim EXCEPT ![w][d] = [@ EXCEPT !.phase = "sending", !.at = now]]
    /\ UNCHANGED <<now, endpoint, rowVars, epochStart, boundVars>>

(* The receiver answers 2xx; the answer may still be lost. *)
ReceiverAccepts(w, d) ==
    /\ claim[w][d].phase = "sending"
    /\ claim' = [claim EXCEPT ![w][d] = [@ EXCEPT !.phase = "accepted"]]
    /\ UNCHANGED <<now, endpoint, rowVars, epochStart, boundVars>>

-----------------------------------------------------------------------------
(* Recording *)

(* The WHERE clause of both recording updates: the row is still leased by  *)
(* the claim this task came from.  The lease's timestamp is its identity.  *)
(* Before it, variants that leave out the timestamp, or the whole fence.   *)
IsStillDelivering(w, d) == status[d] = "delivering"
IsStillThere(w, d) == status[d] # "deleted"
OwnsLease(w, d) ==
    /\ status[d] = "delivering"
    /\ leaseExpiresAt[d] = claim[w][d].lease

AttemptNumber(w, d) == claim[w][d].count + 1

(* The outcome of a failed attempt: dead_letter iff the budget is used up. *)
BudgetIsExceeded(w, d) == AttemptNumber(w, d) > AttemptBudget  \* off by one
BudgetIsUsedUp(w, d) == AttemptNumber(w, d) >= AttemptBudget

(* The audit log, and the meter the app is billed by; before it, a variant *)
(* that meters the delivery, by its number of attempts.                    *)
LogAttempt(w, d, outcome) ==
    attempts' = [attempts EXCEPT ![d] =
                    Append(@, [number |-> AttemptNumber(w, d),
                               outcome |-> outcome, at |-> claim[w][d].at])]
InsertAndMeterAll(w, d, outcome) ==
    /\ LogAttempt(w, d, outcome)
    /\ metered' = metered + AttemptNumber(w, d)
InsertDeliveryAttempt(w, d, outcome) ==
    /\ LogAttempt(w, d, outcome)
    /\ metered' = metered + 1

EndTask(w, d) == claim' = [claim EXCEPT ![w][d] = NoTask]

RecordSuccess(w, d) ==
    /\ claim[w][d].phase = "accepted"
    /\ OwnsLease(w, d)
    /\ status' = [status EXCEPT ![d] = "succeeded"]
    /\ attemptCount' = [attemptCount EXCEPT ![d] = AttemptNumber(w, d)]
    /\ nextAttemptAt' = [nextAttemptAt EXCEPT ![d] = None]
    /\ leaseExpiresAt' = [leaseExpiresAt EXCEPT ![d] = None]
    /\ InsertDeliveryAttempt(w, d, "succeeded")
    /\ EndTask(w, d)
    /\ UNCHANGED <<now, endpoint, epochStart, boundVars>>

(* The request was refused or timed out, or its 2xx never came back. *)
RecordFailure(w, d) ==
    /\ Requesting(w, d)
    /\ ~BudgetIsUsedUp(w, d)
    /\ OwnsLease(w, d)
    /\ status' = [status EXCEPT ![d] = "pending"]
    /\ attemptCount' = [attemptCount EXCEPT ![d] = AttemptNumber(w, d)]
    /\ nextAttemptAt' = [nextAttemptAt EXCEPT ![d] =
                            now + CalculateRetryBackoffMs(AttemptNumber(w, d))]
    /\ leaseExpiresAt' = [leaseExpiresAt EXCEPT ![d] = None]
    /\ InsertDeliveryAttempt(w, d, "failed")
    /\ EndTask(w, d)
    /\ UNCHANGED <<now, endpoint, epochStart, boundVars>>

(* The attempts of endpoint e with one of these outcomes; before it, a     *)
(* variant whose query is not restricted to the endpoint.                  *)
AttemptsOfAnyEndpoint(e, rows, outcomes) ==
    UNION {{rows[d][i] : i \in {j \in DOMAIN rows[d] : rows[d][j].outcome \in outcomes}} :
              d \in Deliveries}
AttemptsOf(e, rows, outcomes) ==
    UNION {{rows[d][i] : i \in {j \in DOMAIN rows[d] : rows[d][j].outcome \in outcomes}} :
              d \in {c \in Deliveries : EndpointOf[c] = e}}

(* disableEndpointAfterFailureWindow: some failure is as old as the window *)
(* and older than the attempt being recorded, and no success is younger    *)
(* than the window.  rows includes the attempt being recorded.             *)
FailureWindowCrossed(e, rows, attemptedAt) ==
    LET cutoff == now - AutoDisableAfter
    IN  /\ AutoDisableAfter # 0
        /\ \E a \in AttemptsOf(e, rows, {"failed", "dead_letter"}) :
              a.at <= cutoff /\ a.at < attemptedAt
        /\ \A a \in AttemptsOf(e, rows, {"succeeded"}) : a.at <= cutoff

(* The failure that exhausts the budget, in the same transaction as the    *)
(* endpoint it may disable.                                                *)
RecordDeadLetter(w, d) ==
    LET e == EndpointOf[d]
    IN  /\ Requesting(w, d)
        /\ BudgetIsUsedUp(w, d)
        /\ OwnsLease(w, d)
        /\ status' = [status EXCEPT ![d] = "dead_letter"]
        /\ attemptCount' = [attemptCount EXCEPT ![d] = AttemptNumber(w, d)]
        /\ nextAttemptAt' = [nextAttemptAt EXCEPT ![d] = None]
        /\ leaseExpiresAt' = [leaseExpiresAt EXCEPT ![d] = None]
        /\ InsertDeliveryAttempt(w, d, "dead_letter")
        /\ endpoint' = IF /\ endpoint[e] = "enabled"
                          /\ FailureWindowCrossed(e, attempts', claim[w][d].at)
                       THEN [endpoint EXCEPT ![e] = "disabled"]
                       ELSE endpoint
        /\ EndTask(w, d)
        /\ UNCHANGED <<now, epochStart, boundVars>>

(* The update matched no row: roll back, and report the task as stale. *)
RecordStale(w, d) ==
    /\ Requesting(w, d)
    /\ ~OwnsLease(w, d)
    /\ EndTask(w, d)
    /\ UNCHANGED <<now, endpoint, rowVars, epochStart, boundVars>>

Record(w, d) ==
    \/ RecordSuccess(w, d)
    \/ RecordFailure(w, d)
    \/ RecordDeadLetter(w, d)
    \/ RecordStale(w, d)

(* The process dies and is started again: the ticks are gone, the database *)
(* is as the last committed transaction left it, and nothing is repaired.  *)
Crash ==
    /\ crashes < MaxCrashes
    /\ \E w \in Workers, d \in Deliveries : Holds(w, d)
    /\ crashes' = crashes + 1
    /\ claim' = [w \in Workers |-> [d \in Deliveries |-> NoTask]]
    /\ UNCHANGED <<now, endpoint, rowVars, epochStart, operatorOps>>

-----------------------------------------------------------------------------
(* Operators *)

OperatorRequest ==
    /\ operatorOps < MaxOperatorOps
    /\ operatorOps' = operatorOps + 1

Retryable(m) == {d \in Deliveries : MessageOf[d] = m /\ status[d] = "dead_letter"}

(* retryMessage: every dead-lettered delivery of the message starts over.  *)
RetryMessage(m) ==
    /\ OperatorRequest
    /\ Retryable(m) # {}
    /\ status' = [d \in Deliveries |->
                     IF d \in Retryable(m) THEN "pending" ELSE status[d]]
    /\ attemptCount' = [d \in Deliveries |->
                     IF d \in Retryable(m) THEN 0 ELSE attemptCount[d]]
    /\ nextAttemptAt' = [d \in Deliveries |->
                     IF d \in Retryable(m) THEN None ELSE nextAttemptAt[d]]
    /\ leaseExpiresAt' = [d \in Deliveries |->
                     IF d \in Retryable(m) THEN None ELSE leaseExpiresAt[d]]
    /\ epochStart' = [d \in Deliveries |->
                     IF d \in Retryable(m) THEN Len(attempts[d]) ELSE epochStart[d]]
    /\ UNCHANGED <<now, endpoint, attempts, metered, claim, crashes>>

(* updateEndpoint with "enabled"; the queue is not touched. *)
SetEnabled(e, enabled) ==
    /\ OperatorRequest
    /\ endpoint[e] \in {"enabled", "disabled"} \ {enabled}
    /\ endpoint' = [endpoint EXCEPT ![e] = enabled]
    /\ UNCHANGED <<now, rowVars, claim, epochStart, crashes>>

(* deleteEndpoint: the foreign keys delete its deliveries and their        *)
(* attempts; a tick that holds one of them is not told.  What was metered  *)
(* stays so.                                                               *)
DeleteEndpoint(e) ==
    LET gone == {d \in Deliveries : EndpointOf[d] = e /\ status[d] # "absent"}
    IN  /\ OperatorRequest
        /\ endpoint[e] # "deleted"
        /\ endpoint' = [endpoint EXCEPT ![e] = "deleted"]
        /\ status' = [d \in Deliveries |->
                         IF d \in gone THEN "deleted" ELSE status[d]]
        /\ attemptCount' = [d \in Deliveries |->
                         IF d \in gone THEN 0 ELSE attemptCount[d]]
        /\ nextAttemptAt' = [d \in Deliveries |->
                         IF d \in gone THEN None ELSE nextAttemptAt[d]]
        /\ leaseExpiresAt' = [d \in Deliveries |->
                         IF d \in gone THEN None ELSE leaseExpiresAt[d]]
        /\ attempts' = [d \in Deliveries |->
                         IF d \in gone THEN << >> ELSE attempts[d]]
        /\ epochStart' = [d \in Deliveries |->
                         IF d \in gone THEN 0 ELSE epochStart[d]]
        /\ UNCHANGED <<now, metered, claim, crashes>>

-----------------------------------------------------------------------------
Next ==
    \/ Tick
    \/ \E d \in Deliveries : Enqueue(d)
    \/ \E w \in Workers : Claim(w)
    \/ \E w \in Workers, d \in Deliveries : Send(w, d)
    \/ \E w \in Workers, d \in Deliveries : ReceiverAccepts(w, d)
    \/ \E w \in Workers, d \in Deliveries : Record(w, d)
    \/ Crash
    \/ \E m \in Messages : RetryMessage(m)
    \/ \E e \in Endpoints, s \in {"enabled", "disabled"} : SetEnabled(e, s)
    \/ \E e \in Endpoints : DeleteEndpoint(e)

Spec == Init /\ [][Next]_vars

-----------------------------------------------------------------------------
(* Properties *)

Live(d) == status[d] \notin {"absent", "deleted"}

(* F-0007.md:14, worker.ts:217-221: while its lease runs, a claim excludes *)
(* everyone else.  Until then no other tick, no stale outcome and no       *)
(* operator request (but the row's deletion) takes the row away from the   *)
(* task or settles it.                                                     *)
LiveLeaseIsOwner ==
    \A w \in Workers, d \in Deliveries :
        Holds(w, d) /\ claim[w][d].lease > now /\ Live(d) => OwnsLease(w, d)

(* worker.ts:518 and worker.ts:575 fence a stale outcome with the lease's  *)
(* expiry time alone: no two tasks in memory for one delivery may carry    *)
(* the same one, or both could record.                                     *)
FencingTokenUnique ==
    \A v, w \in Workers, d \in Deliveries :
        Holds(v, d) /\ Holds(w, d) /\ v # w => claim[v][d].lease # claim[w][d].lease

(* worker.ts:431: the attempt number is computed from a snapshot taken     *)
(* before the request.  Whoever may still record has an up-to-date one.    *)
OwnerSnapshotIsFresh ==
    \A w \in Workers, d \in Deliveries :
        Holds(w, d) /\ OwnsLease(w, d) =>
            claim[w][d].count = attemptCount[d] /\ attemptCount[d] < AttemptBudget

(* The audit log of a delivery since its epoch began. *)
EpochIsLogged(d) ==
    /\ Len(attempts[d]) = epochStart[d] + attemptCount[d]
    /\ \A n \in 1 .. attemptCount[d] :
          LET row == attempts[d][epochStart[d] + n]
          IN  /\ row.number = n
              /\ row.outcome = IF n = attemptCount[d] /\ status[d] \in {"succeeded", "dead_letter"}
                               THEN status[d] ELSE "failed"
    /\ status[d] = "succeeded" => attemptCount[d] > 0
    /\ status[d] = "dead_letter" => attemptCount[d] = AttemptBudget

(* worker.ts:606, messages.ts:400: since its creation or its last manual   *)
(* retry a delivery has attempts 1, 2, ... in the audit log, as many as    *)
(* the row counts, all failed but the one that settled it.                 *)
AuditTrail == \A d \in Deliveries : Live(d) => EpochIsLogged(d)

(* The rows of delivery_attempts. *)
LoggedAttempts == UNION {{d} \X DOMAIN attempts[d] : d \in Deliveries}

(* usage.ts:78, worker.ts:630: the app is billed for every attempt in the  *)
(* log, also for those a manual retry starts over from and those that went *)
(* with their endpoint, and for no request whose outcome came too late.    *)
AttemptsAreMetered ==
    LET logged == Cardinality(LoggedAttempts)
    IN  /\ logged <= metered
        /\ (\A e \in Endpoints : endpoint[e] # "deleted") => logged = metered

(* worker.ts:224-229, 310: no row can be left where no claim would ever    *)
(* pick it up: a delivering row has a lease that ends within the           *)
(* visibility timeout, only a delivering row has one, and a pending row    *)
(* has attempts left.                                                      *)
NoRowIsStranded ==
    \A d \in Deliveries :
        /\ status[d] = "delivering" <=> leaseExpiresAt[d] # None
        /\ status[d] = "delivering" => leaseExpiresAt[d] <= now + VisibilityTimeout
        /\ status[d] \in {"pending", "delivering"} => attemptCount[d] < AttemptBudget
        /\ status[d] \in {"succeeded", "dead_letter"} => nextAttemptAt[d] = None

(* worker.ts:518, messages.ts:397: a success is final, whatever a slower   *)
(* duplicate of the request reports later, and a dead letter is revived    *)
(* only by a retry that clears its count.                                  *)
SettledRowsStay ==
    [][\A d \in Deliveries :
          /\ status[d] = "succeeded" => status'[d] \in {"succeeded", "deleted"}
          /\ status[d] = "dead_letter" =>
                \/ status'[d] \in {"dead_letter", "deleted"}
                \/ status'[d] = "pending" /\ attemptCount'[d] = 0]_vars

(* The worker, not an operator, takes endpoint e out of rotation. *)
WorkerDisables(e) ==
    /\ endpoint[e] = "enabled" /\ endpoint'[e] = "disabled"
    /\ operatorOps' = operatorOps

(* A request to endpoint e failed at least one window ago. *)
HasOlderFailure(e) ==
    \E d \in Deliveries :
        /\ EndpointOf[d] = e
        /\ \E i \in DOMAIN attempts[d] :
              /\ attempts[d][i].outcome # "succeeded"
              /\ attempts[d][i].at <= now - AutoDisableAfter

(* DECISIONS.md:29, worker.test.ts:646, worker.test.ts:686: the failure    *)
(* that is being recorded is not evidence against the endpoint, however    *)
(* long it took, and neither is what happened to another endpoint: some    *)
(* earlier request to this one failed a whole window ago.                  *)
DisabledOnItsOwnOlderFailure ==
    [][\A e \in Endpoints : WorkerDisables(e) => HasOlderFailure(e)]_vars

-----------------------------------------------------------------------------
(* The queue implements DeliveryOwnership.  The owner of a delivery is the *)
(* tick whose lease is the row's; a timer has run out when the program     *)
(* would find it so.                                                       *)
Owner(d) ==
    IF \E w \in Workers : Holds(w, d) /\ OwnsLease(w, d)
    THEN CHOOSE w \in Workers : Holds(w, d) /\ OwnsLease(w, d)
    ELSE None

Ownership == INSTANCE DeliveryOwnership WITH
    due     <- [d \in Deliveries |->
                  \/ status[d] = "pending" /\ RetryIsDue(d)
                  \/ status[d] = "delivering" /\ LeaseHasExpired(d)],
    owner   <- [d \in Deliveries |-> Owner(d)],
    working <- [w \in Workers |-> {d \in Deliveries : Holds(w, d)}],
    AutoDisables <- AutoDisableAfter # 0

(* worker.ts: leases and the recording fence give every delivery at most   *)
(* one owner, and only owners change what is promised to the producer.     *)
ImplementsOwnership == Ownership!Spec
=============================================================================
