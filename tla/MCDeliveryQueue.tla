-------------------------- MODULE MCDeliveryQueue --------------------------
(* Two deliveries, each of its own message and to its own endpoint, raced  *)
(* by two worker ticks.                                                    *)
EXTENDS DeliveryReports, TLC

CONSTANTS d1, d2, e1, e2

MCEndpointOf == (d1 :> e1) @@ (d2 :> e2)
MCMessageOf == [d \in Deliveries |-> d]

(* Swapping the deliveries together with their endpoints, and the workers. *)
Swapped == (d1 :> d2) @@ (d2 :> d1) @@ (e1 :> e2) @@ (e2 :> e1)
Unswapped == [x \in {d1, d2, e1, e2} |-> x]
Symmetric == {p @@ q : p \in Permutations(Workers), q \in {Swapped, Unswapped}}
=============================================================================
