------------------------- MODULE MCEndpointThrottle -------------------------
(* Two deliveries to an endpoint with a rate limit, one to one without.    *)
EXTENDS EndpointThrottle

CONSTANTS d1, d2, d3, e1, e2

MCEndpointOf == [d \in Deliveries |-> IF d = d3 THEN e2 ELSE e1]
MCLimits == [e \in Endpoints |-> IF e = e1 THEN {None, 1, 2} ELSE {None}]
=============================================================================
