-------------------------- MODULE MCMessageIntake --------------------------
(* One tenant's two requests, which reuse an idempotency key for another   *)
(* body and repeat a deduplication key with and without an idempotency     *)
(* key, and a second tenant that uses the same keys.                       *)
EXTENDS MessageIntake, TLC

CONSTANTS a1, a2, k1, k2, e1, e2, r1, r2, r3, t, p1, p2, i1, i2, dup

MCAppOfKey == (k1 :> a1) @@ (k2 :> a2)
MCAppOfEndpoint == (e1 :> a1) @@ (e2 :> a2)
MCSubscriptions == [e \in Endpoints |-> {t}]
MCKeyOf == (r1 :> k1) @@ (r2 :> k1) @@ (r3 :> k2)

MCItem(payload, idempotencyKey, deduplicationKey, window) ==
    [eventType |-> t, payload |-> payload, idempotencyKey |-> idempotencyKey,
     deduplicationKey |-> deduplicationKey, deduplicationWindow |-> window]

MCBody ==
    (r1 :> <<MCItem(p1, i1, dup, 2), MCItem(p2, None, dup, 1)>>) @@
    (r2 :> <<MCItem(p2, i1, None, 1), MCItem(p1, i2, dup, 1)>>) @@
    (r3 :> <<MCItem(p1, i1, dup, 1)>>)

MCQuotas == {None, 1}
=============================================================================
