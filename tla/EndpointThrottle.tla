-------------------------- MODULE EndpointThrottle --------------------------
(***************************************************************************)
(* Which due deliveries a claim takes: selectClaimCandidates and the       *)
(* throttle windows of claimDeliveries in src/worker.ts, with the PATCH of *)
(* a rate limit in src/endpoints.ts.  DeliveryQueue takes this choice to   *)
(* be arbitrary; here it is all there is.                                  *)
(*                                                                         *)
(* Time is relative, so that no clock has to be bounded: a window has an   *)
(* age, and the timeline is the order of the past moments that claims sort *)
(* by, coalesce(next_attempt_at, created_at).  A failed attempt moves a    *)
(* delivery to the end of its backoff, so behind all that is due by then.  *)
(* A dead letter has no next_attempt_at; when its message is retried, it   *)
(* is where its creation put it, before all that became due since.  A      *)
(* delivery whose lease runs out is where it was.  No two moments are the  *)
(* same (the rowid orders deliveries of the same millisecond).             *)
(*                                                                         *)
(* The candidates are read just before the claim's transaction, and the    *)
(* windows again in it.  Nothing happens in between, as one process has    *)
(* one connection, and the two are one step here.                          *)
(***************************************************************************)
EXTENDS Naturals, Sequences, FiniteSets, SequencesExt

CONSTANTS
    Endpoints, Deliveries, EndpointOf,
    BatchSize,     \* deliveries a claim takes at most
    AttemptBudget, \* attempts before a delivery is dead-lettered
    Limits,        \* the rate limits the operator sets for each endpoint
    Second,        \* length of a throttle window
    None,          \* SQL NULL
    MaxUpsets      \* bound: leases that run out before their delivery is
                   \* done, and PATCHes of an endpoint

ASSUME ThrottleAssumption ==
    /\ EndpointOf \in [Deliveries -> Endpoints]
    /\ BatchSize \in Nat \ {0} /\ Second \in Nat \ {0}
    /\ AttemptBudget \in Nat \ {0}
    /\ None \notin Nat
    /\ Limits \in [Endpoints -> SUBSET ((Nat \ {0}) \cup {None})]
    /\ MaxUpsets \in Nat

VARIABLES
    limit,         \* endpoints.rate_limit_per_second
    window,        \* age of rate_limit_window_started_at, and its count
    enabled,       \* endpoints.enabled
    state,         \* waiting: due, leased, backing off, dead, or absent
    attemptCount,  \* deliveries.attempt_count
    timeline,      \* the past moments of the deliveries, the first one first
    recent,        \* history: claims of the last second, by age
    upsets         \* leases that ran out and PATCHes so far

vars == <<limit, window, enabled, state, attemptCount, timeline, recent, upsets>>

(* The moments of a delivery: its created_at, and its next_attempt_at once *)
(* that has come.                                                          *)
Created(d) == <<d, "created_at">>
Retried(d) == <<d, "next_attempt_at">>
Moments == Deliveries \X {"created_at", "next_attempt_at"}

States == {"absent", "waiting", "leased", "backing_off", "dead_letter"}

Ages == 0 .. Second - 1
NoWindow == [age |-> Second, count |-> 0]
NoClaims == [a \in Ages |-> 0]

(* A window never counts more claims than the limit allows. *)
TypeOK ==
    /\ DOMAIN limit = Endpoints
    /\ \A e \in Endpoints : limit[e] \in Limits[e]
    /\ window \in [Endpoints -> [age : 0 .. Second, count : Nat]]
    /\ \A e \in Endpoints : limit[e] # None => window[e].count <= limit[e]
    /\ enabled \in [Endpoints -> BOOLEAN]
    /\ state \in [Deliveries -> States]
    /\ attemptCount \in [Deliveries -> 0 .. AttemptBudget]
    /\ timeline \in Seq(Moments) /\ IsInjective(timeline)
    /\ \A d \in Deliveries :
          /\ Created(d) \in ToSet(timeline) <=> state[d] # "absent"
          /\ Retried(d) \in ToSet(timeline) => state[d] \in {"waiting", "leased"}
          /\ state[d] # "dead_letter" => attemptCount[d] < AttemptBudget
    /\ recent \in [Endpoints -> [Ages -> Nat]]
    /\ upsets \in Nat

Init ==
    /\ limit \in {f \in [Endpoints -> UNION {Limits[e] : e \in Endpoints}] :
                    \A e \in Endpoints : f[e] \in Limits[e]}
    /\ window = [e \in Endpoints |-> NoWindow]
    /\ enabled = [e \in Endpoints |-> TRUE]
    /\ state = [d \in Deliveries |-> "absent"]
    /\ attemptCount = [d \in Deliveries |-> 0]
    /\ timeline = << >>
    /\ recent = [e \in Endpoints |-> NoClaims]
    /\ upsets = 0

-----------------------------------------------------------------------------
(* Windows and claims grow older; a window is over after a second. *)
Tick ==
    /\ window' = [e \in Endpoints |->
                     IF window[e].age < Second
                     THEN [age |-> window[e].age + 1, count |-> window[e].count]
                     ELSE window[e]]
    /\ recent' = [e \in Endpoints |->
                     [a \in Ages |-> IF a = 0 THEN 0 ELSE recent[e][a - 1]]]
    /\ UNCHANGED <<limit, enabled, state, attemptCount, timeline, upsets>>

(* acceptMessage, for an enabled endpoint *)
Create(d) ==
    /\ state[d] = "absent" /\ enabled[EndpointOf[d]]
    /\ state' = [state EXCEPT ![d] = "waiting"]
    /\ timeline' = Append(timeline, Created(d))
    /\ UNCHANGED <<limit, window, enabled, attemptCount, recent, upsets>>

Without(moments, m) ==
    IF \E i \in DOMAIN moments : moments[i] = m
    THEN RemoveAt(moments, CHOOSE i \in DOMAIN moments : moments[i] = m)
    ELSE moments

(* recordSuccess; the row is not looked at again, and its name is free for *)
(* a new one.                                                              *)
Succeed(d) ==
    /\ state[d] = "leased"
    /\ state' = [state EXCEPT ![d] = "absent"]
    /\ attemptCount' = [attemptCount EXCEPT ![d] = 0]
    /\ timeline' = Without(Without(timeline, Retried(d)), Created(d))
    /\ UNCHANGED <<limit, window, enabled, recent, upsets>>

(* recordFailure: the delivery backs off, or is dead-lettered with NULL as *)
(* its next_attempt_at.                                                    *)
Fail(d) ==
    /\ state[d] = "leased"
    /\ attemptCount' = [attemptCount EXCEPT ![d] = @ + 1]
    /\ state' = [state EXCEPT ![d] =
                    IF attemptCount'[d] >= AttemptBudget
                    THEN "dead_letter" ELSE "backing_off"]
    /\ timeline' = Without(timeline, Retried(d))
    /\ UNCHANGED <<limit, window, enabled, recent, upsets>>

(* The backoff of a failed attempt is over. *)
BackoffEnds(d) ==
    /\ state[d] = "backing_off"
    /\ state' = [state EXCEPT ![d] = "waiting"]
    /\ timeline' = Append(timeline, Retried(d))
    /\ UNCHANGED <<limit, window, enabled, attemptCount, recent, upsets>>

(* retryMessage, of the dead letters S of a message; before it, a variant  *)
(* that gives them one more attempt each, instead of a budget of their own.*)
RetryOnce(S) ==
    /\ S # {} /\ \A d \in S : state[d] = "dead_letter"
    /\ state' = [d \in Deliveries |-> IF d \in S THEN "waiting" ELSE state[d]]
    /\ attemptCount' = [d \in Deliveries |->
                           IF d \in S THEN AttemptBudget - 1 ELSE attemptCount[d]]
    /\ UNCHANGED <<limit, window, enabled, timeline, recent, upsets>>
RetryMessage(S) ==
    /\ S # {} /\ \A d \in S : state[d] = "dead_letter"
    /\ state' = [d \in Deliveries |-> IF d \in S THEN "waiting" ELSE state[d]]
    /\ attemptCount' = [d \in Deliveries |-> IF d \in S THEN 0 ELSE attemptCount[d]]
    /\ UNCHANGED <<limit, window, enabled, timeline, recent, upsets>>

(* Its tick died, or is late: the delivery is up for a claim again. *)
LeaseExpires(d) ==
    /\ state[d] = "leased"
    /\ upsets < MaxUpsets
    /\ upsets' = upsets + 1
    /\ state' = [state EXCEPT ![d] = "waiting"]
    /\ UNCHANGED <<limit, window, enabled, attemptCount, timeline, recent>>

-----------------------------------------------------------------------------
(* Claiming *)

(* readEndpointThrottleStates: the stored window is younger than a second; *)
(* before it, with the boundary off by one.                                *)
WindowIsYoung(e) == window[e].age + 1 < Second
HasActiveWindow(e) == window[e].age < Second

WindowCount(e) == IF HasActiveWindow(e) THEN window[e].count ELSE 0

(* hasThrottleCapacity, and available_capacity of the candidate query;     *)
(* before it, with one claim too many.                                     *)
CapacityPlusOne(e) ==
    IF limit[e] = None THEN BatchSize ELSE limit[e] + 1 - WindowCount(e)
AvailableCapacity(e) ==
    IF limit[e] = None THEN BatchSize
    ELSE IF WindowCount(e) < limit[e] THEN limit[e] - WindowCount(e) ELSE 0

(* COALESCE(next_attempt_at, created_at) *)
DueAt(d) == IF Retried(d) \in ToSet(timeline) THEN Retried(d) ELSE Created(d)

(* ORDER BY due_at, rowid; before it, the other way round.                 *)
NewestFirst == Reverse(timeline)
InDueOrder == timeline

Place(d) == LET due == DueAt(d)
            IN  CHOOSE i \in DOMAIN InDueOrder : InDueOrder[i] = due
Precedes(c, d) == Place(c) <= Place(d)

Eligible(d) == state[d] = "waiting" /\ enabled[EndpointOf[d]]

(* ROW_NUMBER() OVER (PARTITION BY endpoint_id ORDER BY due_at, rowid) *)
EndpointRank(d) ==
    Cardinality({c \in Deliveries : /\ Eligible(c)
                                    /\ EndpointOf[c] = EndpointOf[d]
                                    /\ Precedes(c, d)})

IsCandidate(d) ==
    /\ Eligible(d)
    /\ EndpointRank(d) <= AvailableCapacity(EndpointOf[d])
    /\ EndpointRank(d) <= BatchSize

(* The candidates of a claim, up to the size of a batch (the query's LIMIT *)
(* is a multiple of it).  Before it, a variant whose LIMIT comes before    *)
(* the throttle, so that a throttled endpoint fills the batch.             *)
EligibleRank(d) == Cardinality({c \in Deliveries : Eligible(c) /\ Precedes(c, d)})
LimitedThenThrottled ==
    {d \in Deliveries : IsCandidate(d) /\ EligibleRank(d) <= BatchSize}

Batch ==
    LET candidates == {d \in Deliveries : IsCandidate(d)}
    IN  {d \in candidates :
            Cardinality({c \in candidates : Precedes(c, d)}) <= BatchSize}

(* One claim: its deliveries are leased, and each endpoint with a limit    *)
(* counts its own in its window, which starts now if there was none.       *)
Claim ==
    \E claimed \in {Batch} :
        LET ClaimsOf(e) == Cardinality({d \in claimed : EndpointOf[d] = e})
            Counted(e) == limit[e] # None /\ ClaimsOf(e) > 0
        IN  /\ claimed # {}
            /\ state' = [d \in Deliveries |->
                            IF d \in claimed THEN "leased" ELSE state[d]]
            /\ window' = [e \in Endpoints |->
                            IF Counted(e)
                            THEN [age |-> IF HasActiveWindow(e) THEN window[e].age ELSE 0,
                                  count |-> WindowCount(e) + ClaimsOf(e)]
                            ELSE window[e]]
            /\ recent' = [e \in Endpoints |->
                            IF Counted(e)
                            THEN [a \in Ages |->
                                     recent[e][a] + (IF a = 0 THEN ClaimsOf(e) ELSE 0)]
                            ELSE recent[e]]
            /\ UNCHANGED <<limit, enabled, attemptCount, timeline, upsets>>

-----------------------------------------------------------------------------
Patch ==
    /\ upsets < MaxUpsets
    /\ upsets' = upsets + 1
    /\ UNCHANGED <<state, attemptCount, timeline>>

(* updateEndpoint with "rateLimitPerSecond" forgets the window, also when  *)
(* the limit stays the same.                                               *)
SetRateLimit(e, n) ==
    /\ Patch
    /\ limit' = [limit EXCEPT ![e] = n]
    /\ window' = [window EXCEPT ![e] = NoWindow]
    /\ recent' = [recent EXCEPT ![e] = NoClaims]
    /\ UNCHANGED enabled

(* updateEndpoint with "enabled" *)
SetEnabled(e, on) ==
    /\ Patch
    /\ enabled[e] # on
    /\ enabled' = [enabled EXCEPT ![e] = on]
    /\ UNCHANGED <<limit, window, recent>>

Next ==
    \/ Tick
    \/ \E d \in Deliveries : Create(d)
    \/ \E d \in Deliveries : Succeed(d)
    \/ \E d \in Deliveries : Fail(d)
    \/ \E d \in Deliveries : BackoffEnds(d)
    \/ \E S \in SUBSET Deliveries : RetryMessage(S)
    \/ \E d \in Deliveries : LeaseExpires(d)
    \/ Claim
    \/ \E e \in Endpoints : \E n \in Limits[e] : SetRateLimit(e, n)
    \/ \E e \in Endpoints, on \in BOOLEAN : SetEnabled(e, on)

(* Time passes and the poll loop claims.  Nothing is assumed of when       *)
(* messages come, attempts end and how, how long a backoff is, or of the   *)
(* operator.                                                               *)
Fairness == WF_vars(Tick) /\ WF_vars(Claim)

Spec == Init /\ [][Next]_vars /\ Fairness

-----------------------------------------------------------------------------
LastSecond(e) == UNION {{a} \X (1 .. recent[e][a]) : a \in Ages}
ClaimsOfTheLastSecond(e) == Cardinality(LastSecond(e))

(* F-0030.md:15: a window starts at its first claim, so that the end of    *)
(* one and the start of the next meet in less than a second.  Since its    *)
(* limit N was last set, an endpoint gets at most 2N - 1 claims in any     *)
(* second; with N = 1 they are a second apart (F-0030.md:61).              *)
BurstIsBounded ==
    \A e \in Endpoints :
        limit[e] # None => ClaimsOfTheLastSecond(e) <= 2 * limit[e] - 1

Claimed(d) == state[d] = "waiting" /\ state'[d] = "leased"
LeftWaiting(d) ==
    state[d] = "waiting" /\ state'[d] = "waiting" /\ enabled[EndpointOf[d]]

OnlyOwnLimitHoldsBack ==
    (\E d \in Deliveries : Claimed(d)) =>
        \A d \in Deliveries : LeftWaiting(d) =>
            LET e == EndpointOf[d]
            IN  \/ Cardinality({c \in Deliveries : Claimed(c)}) = BatchSize
                \/ limit[e] # None /\ window'[e].age < Second
                                   /\ window'[e].count = limit[e]

DueBefore(c, d) ==
    \E i, j \in DOMAIN timeline :
        timeline[i] = DueAt(c) /\ timeline[j] = DueAt(d) /\ i < j

OldestFirst ==
    \A c, d \in Deliveries :
        EndpointOf[c] = EndpointOf[d] /\ LeftWaiting(c) /\ Claimed(d) => ~DueBefore(c, d)

(* F-0030.md:38-39, worker.ts:323: what a claim leaves behind, it leaves   *)
(* because the batch is full or the delivery's own endpoint is at its      *)
(* limit, not because of another endpoint's throttle; and no delivery of   *)
(* an endpoint overtakes one that was due before it, reclaimed ones        *)
(* included.                                                               *)
ClaimsAreFair == [][OnlyOwnLimitHoldsBack /\ OldestFirst]_vars

(* README.md:79 (excess deliveries stay queued): a due delivery is claimed *)
(* in the end unless its endpoint is disabled, however many others keep    *)
(* coming to this or another endpoint, and however often dead letters are  *)
(* retried.  A retried one overtakes what became due since its creation    *)
(* (worker.ts:308, messages.ts:402), but once only: its count starts over, *)
(* and its next attempt queues at the end.  With a budget of one attempt   *)
(* there is no next one, and this is not so.                               *)
NoStarvation ==
    \A d \in Deliveries :
        []<>(state[d] # "waiting" \/ ~enabled[EndpointOf[d]])
=============================================================================
