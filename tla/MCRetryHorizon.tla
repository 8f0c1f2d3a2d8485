--------------------------- MODULE MCRetryHorizon ---------------------------
(* One delivery to an endpoint that never answers, under the worker's      *)
(* default schedule (DEFAULT_WORKER_OPTIONS): eight attempts, backoffs     *)
(* from one minute to one hour.  A unit of time is a minute, so the 30 s   *)
(* lease and the 10 s timeout are rounded up to one.                       *)
EXTENDS DeliveryQueue

CONSTANT d1

OnlyEndpoint == [d \in Deliveries |-> CHOOSE e \in Endpoints : TRUE]
OnlyMessage == [d \in Deliveries |-> CHOOSE m \in Messages : TRUE]

(* The worker is never behind: no time passes while the delivery is due.   *)
Idle ==
    \A d \in Deliveries : ~Claimable(d) /\ status[d] # "absent"
PromptNext ==
    \/ Idle /\ Tick
    \/ Enqueue(d1)
    \/ \E w \in Workers : Claim(w) \/ Send(w, d1)
    \/ \E w \in Workers : RecordFailure(w, d1) \/ RecordDeadLetter(w, d1)
PromptSpec == Init /\ [][PromptNext]_vars

Minute == 1
Hour == 60 * Minute

(* README.md:77: "exponential backoff, 8 attempts over ~28h".  A delivery  *)
(* that is given up on was tried over at least a day.                      *)
TriedForADay ==
    \A d \in Deliveries : status[d] = "dead_letter" =>
        attempts[d][Len(attempts[d])].at - attempts[d][1].at >= 24 * Hour
=============================================================================
