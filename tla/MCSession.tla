----------------------------- MODULE MCSession -----------------------------
(***************************************************************************)
(* ana has yet to register, ben belongs to the tenant home.                *)
(***************************************************************************)
EXTENDS Session, TLC

CONSTANTS ana, ben, home

MCRoleOf   == [u \in Users |-> IF u = ben THEN "CUSTOMER" ELSE None]
MCTenantOf == [u \in Users |-> IF u = ben THEN home ELSE None]

Symmetry == Permutations(Requests) \cup Permutations(TenantIds \ {home})
=============================================================================
