-------------------------- MODULE DeliveryOwnership --------------------------
(***************************************************************************)
(* What Posthorn's delivery queue promises, with no clock and no lease     *)
(* timestamps: a delivery that is being attempted has at most one owner, a *)
(* timer eventually takes the ownership away from an owner that does not   *)
(* finish, and only the owner may record an outcome.                       *)
(*                                                                         *)
(* DeliveryQueue, the module that follows the source statement by          *)
(* statement, implements this one.  Liveness is checked here, where no     *)
(* clock has to be bounded.                                                *)
(***************************************************************************)
EXTENDS Naturals, FiniteSets

CONSTANTS
    Deliveries,     \* rows of the deliveries table
    Endpoints,      \* rows of the endpoints table
    Messages,       \* rows of the messages table
    EndpointOf,     \* deliveries.endpoint_id
    MessageOf,      \* deliveries.message_id
    Workers,        \* worker ticks that can be in progress at the same time
    AttemptBudget,  \* attempts before a delivery is dead-lettered
    AutoDisables,   \* TRUE iff the auto-disable window is not 0
    None,           \* "no owner"
    MaxCrashes,     \* bound: process crashes
    MaxOperatorOps  \* bound: operator requests that interfere with the queue

ASSUME OwnershipAssumption ==
    /\ EndpointOf \in [Deliveries -> Endpoints]
    /\ MessageOf \in [Deliveries -> Messages]
    /\ AttemptBudget \in Nat \ {0}
    /\ AutoDisables \in BOOLEAN
    /\ None \notin Workers
    /\ MaxCrashes \in Nat /\ MaxOperatorOps \in Nat

VARIABLES
    status,        \* the delivery's state
    attemptCount,  \* attempts recorded since it was created or last retried
    due,           \* its timer (retry time, or lease) has run out
    owner,         \* the worker tick whose outcome will be recorded
    working,       \* the deliveries each worker tick has yet to finish
    endpoint,      \* the endpoint's state
    crashes,       \* crashes so far
    operatorOps    \* operator requests so far

vars == <<status, attemptCount, due, owner, working, endpoint, crashes,
          operatorOps>>

Settled(d) == status[d] \in {"succeeded", "dead_letter"}
Unsettled(d) == status[d] \in {"pending", "delivering"}

TypeOK ==
    /\ status \in [Deliveries -> {"absent", "pending", "delivering",
                                  "succeeded", "dead_letter", "deleted"}]
    /\ attemptCount \in [Deliveries -> 0 .. AttemptBudget]
    /\ due \in [Deliveries -> BOOLEAN]
    /\ owner \in [Deliveries -> Workers \cup {None}]
    /\ working \in [Workers -> SUBSET Deliveries]
    /\ endpoint \in [Endpoints -> {"enabled", "disabled", "deleted"}]
    /\ crashes \in 0 .. MaxCrashes
    /\ operatorOps \in 0 .. MaxOperatorOps

Init ==
    /\ status = [d \in Deliveries |-> "absent"]
    /\ attemptCount = [d \in Deliveries |-> 0]
    /\ due = [d \in Deliveries |-> FALSE]
    /\ owner = [d \in Deliveries |-> None]
    /\ working = [w \in Workers |-> {}]
    /\ endpoint = [e \in Endpoints |-> "enabled"]
    /\ crashes = 0
    /\ operatorOps = 0

-----------------------------------------------------------------------------
(* Accepting a message inserts a pending delivery for an enabled endpoint. *)
Enqueue(d) ==
    /\ status[d] = "absent"
    /\ endpoint[EndpointOf[d]] = "enabled"
    /\ status' = [status EXCEPT ![d] = "pending"]
    /\ due' = [due EXCEPT ![d] = TRUE]
    /\ UNCHANGED <<attemptCount, owner, working, endpoint, crashes, operatorOps>>

(* Time passes until the timers of the deliveries in S have run out. *)
Elapse(S) ==
    /\ S # {}
    /\ \A d \in S : Unsettled(d) /\ ~due[d]
    /\ due' = [d \in Deliveries |-> due[d] \/ d \in S]
    /\ UNCHANGED <<status, attemptCount, owner, working, endpoint, crashes,
                   operatorOps>>

(* Variant: an expired lease is never reclaimed. *)
ClaimableIfPending(d) ==
    /\ status[d] = "pending"
    /\ due[d]
    /\ endpoint[EndpointOf[d]] = "enabled"

Claimable(d) ==
    /\ Unsettled(d)
    /\ due[d]
    /\ endpoint[EndpointOf[d]] = "enabled"

(* A worker tick becomes the owner of a batch of due deliveries.  Whoever  *)
(* owned one of them before has lost it.                                   *)
Claim(w) ==
    /\ working[w] = {}
    /\ \E batch \in SUBSET {d \in Deliveries : Claimable(d)} :
          /\ batch # {}
          /\ status' = [d \in Deliveries |->
                           IF d \in batch THEN "delivering" ELSE status[d]]
          /\ due' = [d \in Deliveries |-> due[d] /\ d \notin batch]
          /\ owner' = [d \in Deliveries |->
                          IF d \in batch THEN w ELSE owner[d]]
          /\ working' = [working EXCEPT ![w] = batch]
    /\ UNCHANGED <<attemptCount, endpoint, crashes, operatorOps>>

BudgetIsUsedUp(d) == attemptCount[d] + 1 >= AttemptBudget

(* The owner records a success. *)
Succeed(w, d) ==
    /\ d \in working[w] /\ owner[d] = w
    /\ status' = [status EXCEPT ![d] = "succeeded"]
    /\ attemptCount' = [attemptCount EXCEPT ![d] = @ + 1]
    /\ due' = [due EXCEPT ![d] = FALSE]
    /\ owner' = [owner EXCEPT ![d] = None]
    /\ working' = [working EXCEPT ![w] = @ \ {d}]
    /\ UNCHANGED <<endpoint, crashes, operatorOps>>

(* The owner records a failure that leaves attempts in the budget. *)
FailAndReschedule(w, d) ==
    /\ d \in working[w] /\ owner[d] = w
    /\ ~BudgetIsUsedUp(d)
    /\ status' = [status EXCEPT ![d] = "pending"]
    /\ attemptCount' = [attemptCount EXCEPT ![d] = @ + 1]
    /\ due' = [due EXCEPT ![d] = FALSE]
    /\ owner' = [owner EXCEPT ![d] = None]
    /\ working' = [working EXCEPT ![w] = @ \ {d}]
    /\ UNCHANGED <<endpoint, crashes, operatorOps>>

(* The owner records the last failure of the budget, which may also take   *)
(* an enabled endpoint out of rotation.                                    *)
DeadLetter(w, d) ==
    /\ d \in working[w] /\ owner[d] = w
    /\ BudgetIsUsedUp(d)
    /\ status' = [status EXCEPT ![d] = "dead_letter"]
    /\ attemptCount' = [attemptCount EXCEPT ![d] = @ + 1]
    /\ due' = [due EXCEPT ![d] = FALSE]
    /\ owner' = [owner EXCEPT ![d] = None]
    /\ working' = [working EXCEPT ![w] = @ \ {d}]
    /\ \/ UNCHANGED endpoint
       \/ /\ AutoDisables
          /\ endpoint[EndpointOf[d]] = "enabled"
          /\ endpoint' = [endpoint EXCEPT ![EndpointOf[d]] = "disabled"]
    /\ UNCHANGED <<crashes, operatorOps>>

(* A tick that has lost a delivery finishes it without recording anything. *)
DropStale(w, d) ==
    /\ d \in working[w] /\ owner[d] # w
    /\ working' = [working EXCEPT ![w] = @ \ {d}]
    /\ UNCHANGED <<status, attemptCount, due, owner, endpoint, crashes,
                   operatorOps>>

Finish(w, d) ==
    \/ Succeed(w, d)
    \/ FailAndReschedule(w, d)
    \/ DeadLetter(w, d)
    \/ DropStale(w, d)

(* The process crashes: every tick is lost, and every ownership with it.   *)
(* The timers go on.                                                       *)
Crash ==
    /\ crashes < MaxCrashes
    /\ \E w \in Workers : working[w] # {}
    /\ crashes' = crashes + 1
    /\ working' = [w \in Workers |-> {}]
    /\ owner' = [d \in Deliveries |-> None]
    /\ UNCHANGED <<status, attemptCount, due, endpoint, operatorOps>>

-----------------------------------------------------------------------------
OperatorRequest ==
    /\ operatorOps < MaxOperatorOps
    /\ operatorOps' = operatorOps + 1

(* An operator retries a message: its dead-lettered deliveries start over. *)
RetryMessage(m) ==
    LET dead == {d \in Deliveries : MessageOf[d] = m /\ status[d] = "dead_letter"}
    IN  /\ OperatorRequest
        /\ dead # {}
        /\ status' = [d \in Deliveries |->
                         IF d \in dead THEN "pending" ELSE status[d]]
        /\ attemptCount' = [d \in Deliveries |->
                               IF d \in dead THEN 0 ELSE attemptCount[d]]
        /\ due' = [d \in Deliveries |-> due[d] \/ d \in dead]
        /\ UNCHANGED <<owner, working, endpoint, crashes>>

(* An operator enables or disables an endpoint. *)
SetEnabled(e, enabled) ==
    /\ OperatorRequest
    /\ endpoint[e] \in {"enabled", "disabled"} \ {enabled}
    /\ endpoint' = [endpoint EXCEPT ![e] = enabled]
    /\ UNCHANGED <<status, attemptCount, due, owner, working, crashes>>

(* An operator deletes an endpoint, and with it every delivery to it. *)
DeleteEndpoint(e) ==
    LET gone == {d \in Deliveries : EndpointOf[d] = e /\ status[d] # "absent"}
    IN  /\ OperatorRequest
        /\ endpoint[e] # "deleted"
        /\ endpoint' = [endpoint EXCEPT ![e] = "deleted"]
        /\ status' = [d \in Deliveries |->
                         IF d \in gone THEN "deleted" ELSE status[d]]
        /\ due' = [d \in Deliveries |-> due[d] /\ d \notin gone]
        /\ owner' = [d \in Deliveries |->
                        IF d \in gone THEN None ELSE owner[d]]
        /\ attemptCount' = [d \in Deliveries |->
                               IF d \in gone THEN 0 ELSE attemptCount[d]]
        /\ UNCHANGED <<working, crashes>>

-----------------------------------------------------------------------------
Next ==
    \/ \E d \in Deliveries : Enqueue(d)
    \/ \E S \in SUBSET Deliveries : Elapse(S)
    \/ \E w \in Workers : Claim(w)
    \/ \E w \in Workers, d \in Deliveries : Finish(w, d)
    \/ Crash
    \/ \E m \in Messages : RetryMessage(m)
    \/ \E e \in Endpoints, s \in {"enabled", "disabled"} : SetEnabled(e, s)
    \/ \E e \in Endpoints : DeleteEndpoint(e)

Spec == Init /\ [][Next]_vars

(* Timers run out, the poll loop claims what is due, and every attempt     *)
(* ends (the request has a timeout).  Nothing is assumed of the receivers, *)
(* of the operator, or of when the process crashes.                        *)
Fairness ==
    /\ \A d \in Deliveries : WF_vars(\E S \in SUBSET Deliveries : d \in S /\ Elapse(S))
    /\ \A w \in Workers : WF_vars(Claim(w))
    /\ \A w \in Workers, d \in Deliveries : WF_vars(Finish(w, d))

FairSpec == Spec /\ Fairness

-----------------------------------------------------------------------------
(* README.md:77 (crash-safe retries): if a delivery's endpoint stays       *)
(* enabled from some point on, the delivery ends as succeeded or           *)
(* dead-lettered, whatever crashes, lost leases and retries came before.   *)
EveryDeliverySettles ==
    \A d \in Deliveries :
        <>[](endpoint[EndpointOf[d]] = "enabled") => (Unsettled(d) ~> Settled(d))
=============================================================================
