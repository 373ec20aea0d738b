------------------------------- MODULE Access -------------------------------
(***************************************************************************)
(* The roles of users and the guard in front of the routes.  A request     *)
(* that JwtStrategy let in (module Session) comes with a user; a route     *)
(* without the decorator Roles is open to all of them.                     *)
(***************************************************************************)

UserRole == {"SUPER_ADMIN", "ADMIN", "PROVIDER", "CUSTOMER"}

Administrators == {"SUPER_ADMIN", "ADMIN"}
Staff          == Administrators \cup {"PROVIDER"}

\* RolesGuard, for a user of that role and a route that requires one of these.
canActivate(role, required) == required = {} \/ role \in required
=============================================================================
