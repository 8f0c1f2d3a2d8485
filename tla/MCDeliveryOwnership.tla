------------------------ MODULE MCDeliveryOwnership ------------------------
(* The worker loop of one process, two messages to one endpoint, and a     *)
(* client that lists their deliveries.                                     *)
EXTENDS DeliveryListings

CONSTANTS d1, d2

MCEndpointOf == [d \in Deliveries |-> CHOOSE e \in Endpoints : TRUE]

(* Every delivery belongs to a message of its own. *)
MCMessageOf == [d \in Deliveries |-> d]

MCNewer == {<<d2, d1>>}
=============================================================================
