----------------------------- MODULE MCSchedule -----------------------------
(***************************************************************************)
(* Three weekdays and bodies that share one of them, share all of them in  *)
(* another order, share none, name none, or name one twice.                *)
(***************************************************************************)
EXTENDS Schedule

CONSTANTS admin, barberUser, dentistUser

MCDtos == {<<1, 2>>, <<2, 1>>, <<2>>, <<3>>, <<>>, <<3, 3>>}

MCRoleOf == [u \in Users |-> IF u = admin THEN "ADMIN" ELSE "PROVIDER"]
MCTenantOf == [u \in Users |-> "home"]
=============================================================================
