---- MODULE MCDashboard ----
(***************************************************************************)
(* Two tenants.  The messages of tA are three, two of them of the same     *)
(* moment, and a page holds one; tB has none.                              *)
(***************************************************************************)
EXTENDS Dashboard, TLC

CONSTANTS tA, tB

MCKeys == {tA, tB}
MCCreatedAt == (1 :> 1) @@ (2 :> 1) @@ (3 :> 2)
MCTenantOf == (1 :> tA) @@ (2 :> tA) @@ (3 :> tA)
====
