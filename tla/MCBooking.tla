----------------------------- MODULE MCBooking -----------------------------
(***************************************************************************)
(* Two tenants with one provider each, and the user behind each provider.  *)
(* alice and bob are customers of the first tenant, carol of the second;   *)
(* owner is the ADMIN of the first tenant, root a SUPER_ADMIN.  A          *)
(* configuration picks who takes part.                                     *)
(***************************************************************************)
EXTENDS Booking, TLC

CONSTANTS home, away, barber, dentist,
          alice, bob, carol, barberUser, dentistUser, owner, root

MCTenants == {home, away}

MCRoleOf == [u \in Users |->
    CASE u \in {alice, bob, carol}          -> "CUSTOMER"
      [] u \in {barberUser, dentistUser}    -> "PROVIDER"
      [] u = owner                          -> "ADMIN"
      [] u = root                           -> "SUPER_ADMIN"]
MCTenantOf == [u \in Users |-> CASE u \in {carol, dentistUser} -> away
                                 [] u = root                   -> "none"
                                 [] OTHER                      -> home]
MCProviderTenant == [p \in Providers |-> IF p = barber THEN home ELSE away]
MCProviderUser   == [p \in Providers |-> IF p = barber THEN barberUser
                                                       ELSE dentistUser]
MCOwnerProvides  == [p \in Providers |-> owner]
MCServiceProvider == [p \in Providers |-> p]  \* one service per provider

\* The second interval overlaps both neighbours; the last is no interval.
MCSlots == {[start |-> 1, end |-> 3], [start |-> 2, end |-> 4],
            [start |-> 2, end |-> 2]}
MCMoreSlots == MCSlots \cup {[start |-> 3, end |-> 5]}

Symmetry == Permutations(HoldIds) \cup Permutations(BookingIds)
            \cup Permutations(Requests)
=============================================================================
