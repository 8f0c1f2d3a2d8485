---- MODULE MCTenantResources ----
(* Two tenants with a key each, and two requests in flight. *)
EXTENDS TenantResources, TLC

CONSTANTS a1, a2, k1, k2

MCAppOf == (k1 :> a1) @@ (k2 :> a2)
====
