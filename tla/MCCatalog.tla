----------------------------- MODULE MCCatalog -----------------------------
(***************************************************************************)
(* A tenant with its owner and a provider, and a user who has registered    *)
(* as an administrator and may found the other tenant, or be made a         *)
(* provider of the first; "hair" is contained in "haircut", and the empty  *)
(* name in both.                                                           *)
(***************************************************************************)
EXTENDS Catalog, TLC

CONSTANTS owner, barber, drifter

MCRoleOf == [u \in Users |-> IF u = barber THEN "PROVIDER" ELSE "ADMIN"]
MCTenantOf == [u \in Users |-> IF u = drifter THEN None ELSE "home"]

MCProfileOf == [u \in Users |-> IF u = barber THEN "home" ELSE None]

MCWithin == [m \in Names |-> CASE m = ""     -> Names
                               [] m = "hair" -> {"hair", "haircut"}
                               [] OTHER      -> {m}]

Symmetry == Permutations(CategoryIds) \cup Permutations(ServiceIds)
            \cup Permutations(Requests)
=============================================================================
