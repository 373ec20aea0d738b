------------------------------ MODULE Session ------------------------------
(***************************************************************************)
(* AuthService and JwtStrategy: who may be signed in, with which tokens,   *)
(* and in which tenant.  A step runs from one await to the next.           *)
(*                                                                         *)
(* A JWT is its payload and the second it was signed in: signing is        *)
(* deterministic, so two tokens of one payload and one second are the same *)
(* token.  A row of refresh_tokens holds the hash of a token, its user and *)
(* its expiry, all of them functions of the token: the row is the token.   *)
(***************************************************************************)
EXTENDS Integers, FiniteSets

CONSTANTS
    Users,
    TenantIds,   \* the tenants there may be, each with its unique slug
    Requests,    \* requests that may be in flight together
    RoleOf,      \* role of a user at the start, None before registration
    TenantOf,    \* tenant of a user at the start, None without one
    None,
    RefreshTTL,  \* lifetimes of the two tokens, in seconds
    AccessTTL,
    CanAbort,    \* may a request stop half way
    MaxTime      \* bound on the clock

VARIABLES
    users,    \* users[u]: active, tenant, role, or None
    tenants,  \* tenants[t]: status, and the user whose setup created it
    store,    \* the table refresh_tokens
    latest,   \* latest[u]: the last token pair u was given, or None
    issued,   \* every token pair given to anybody
    req,      \* req[r]: where request r is and what it has read
    now,      \* the clock, in seconds
    crossed,  \* users two of whose sign-ins were in flight together
    torn      \* users two of whose setups were in flight together, or one of
              \* whose setups stopped half way

vars == <<users, tenants, store, latest, issued, req, now, crossed, torn>>

\* A SUPER_ADMIN, who belongs to no tenant and whose sessions are like any
\* other's, is not one of Users: what he does to them can happen at any time.
\* Nothing here tells a PROVIDER from a CUSTOMER.
Roles == {"CUSTOMER", "ADMIN"}

UserRow   == [active: BOOLEAN, tenant: TenantIds \cup {None}, role: Roles]
TenantRow == [status: {"none", "active", "disabled"},
              founder: Users \cup {None}]

\* The payload both tokens of a pair are signed with, and the second.
Token == [user: Users, role: Roles, tenant: TenantIds \cup {None}, iat: Nat]

Idle == [pc |-> "idle"]

SignIn ==
    [pc: {"loginTenant", "sign"}, user: Users, seen: UserRow,
     given: Token \cup {None}]
    \cup [pc: {"readUser"}, user: Users, given: Token]
    \cup [pc: {"revoke", "store"}, user: Users, token: Token,
          given: Token \cup {None}]
LogoutRequest == [pc: {"delete"}, token: Token]
Registration  == [pc: {"insertUser"}, user: Users, role: Roles]
SetupRequest  == [pc: {"checkSlug", "createTenant", "joinTenant"},
                  user: Users, tenant: TenantIds]
ToggleRequest == [pc: {"toggle"}, user: Users, active: BOOLEAN,
                  scope: TenantIds \cup {None}]
AccessRequest == [pc: {"checkTenant", "granted"}, user: Users,
                  tenant: TenantIds \cup {None}]

Request == {Idle} \cup Registration \cup SignIn \cup LogoutRequest \cup SetupRequest
           \cup ToggleRequest \cup AccessRequest

ASSUME SessionAssumption ==
    /\ RoleOf \in [Users -> Roles \cup {None}]
    /\ TenantOf \in [Users -> TenantIds \cup {None}]
    /\ \A u \in Users : RoleOf[u] = None => TenantOf[u] = None
    /\ None \notin TenantIds \cup Users \cup Token \cup UserRow \cup Roles
    /\ IsFiniteSet(Requests)
    /\ CanAbort \in BOOLEAN
    /\ RefreshTTL \in Nat /\ AccessTTL \in Nat /\ MaxTime \in Nat

TypeOK ==
    /\ users \in [Users -> UserRow \cup {None}]
    /\ tenants \in [TenantIds -> TenantRow]
    /\ store \subseteq Token
    /\ latest \in [Users -> Token \cup {None}]
    /\ issued \subseteq Token
    /\ req \in [Requests -> Request]
    /\ now \in Nat
    /\ crossed \subseteq Users
    /\ torn \subseteq Users

NewUser(role, tenant) == [active |-> TRUE, tenant |-> tenant, role |-> role]

Init ==
    /\ users = [u \in Users |-> IF RoleOf[u] = None THEN None
                                ELSE NewUser(RoleOf[u], TenantOf[u])]
    /\ tenants = [t \in TenantIds |->
                    [status |-> IF \E u \in Users : TenantOf[u] = t
                                THEN "active" ELSE "none",
                     founder |-> None]]
    /\ store = {}
    /\ latest = [u \in Users |-> None]
    /\ issued = {}
    /\ req = [r \in Requests |-> Idle]
    /\ now = 0
    /\ crossed = {}
    /\ torn = {}

Goto(r, next) == req' = [req EXCEPT ![r] = next]

Registered == {u \in Users : users[u] # None}

TenantActive(t) == tenants[t].status = "active"

-----------------------------------------------------------------------------
(* AuthService.register.                                                   *)

\* The email is looked up, ...
Register(r, u, role) ==
    /\ req[r] = Idle
    /\ users[u] = None
    /\ Goto(r, [pc |-> "insertUser", user |-> u, role |-> role])
    /\ UNCHANGED <<users, tenants, store, latest, issued, now>>

\* ... and the user inserted, once the password is hashed: of any role, and
\* without a tenant.  The unique email refuses a second one (see Abort).
InsertUser(r) ==
    LET q == req[r] IN
    /\ q.pc = "insertUser"
    /\ users[q.user] = None
    /\ users' = [users EXCEPT ![q.user] = NewUser(q.role, None)]
    /\ Goto(r, Idle)
    /\ UNCHANGED <<tenants, store, latest, issued, now>>

-----------------------------------------------------------------------------
(* AuthService.login and refreshToken.                                     *)

\* login: the user, then the user's tenant if there is one.  The password,
\* checked after the tenant, is the right one.
Login(r, u) ==
    /\ req[r] = Idle
    /\ users[u].active
    /\ Goto(r, [pc |-> IF users[u].tenant = None THEN "sign" ELSE "loginTenant",
                user |-> u, seen |-> users[u], given |-> None])
    /\ UNCHANGED <<users, tenants, store, latest, issued, now>>

LoginTenant(r) ==
    /\ req[r].pc = "loginTenant"
    /\ \/ TenantActive(req[r].seen.tenant)
             /\ req' = [req EXCEPT ![r].pc = "sign"]
       \/ ~TenantActive(req[r].seen.tenant) /\ Goto(r, Idle)
    /\ UNCHANGED <<users, tenants, store, latest, issued, now>>

RefreshExpired(k) == k.iat + RefreshTTL < now

\* refreshToken: the row of the token, its expiry, then its user.  Nothing
\* asks whether the user is still active.
Refresh(r, k) ==
    /\ req[r] = Idle
    /\ k \in store
    /\ ~RefreshExpired(k)
    /\ Goto(r, [pc |-> "readUser", user |-> k.user, given |-> k])
    /\ UNCHANGED <<users, tenants, store, latest, issued, now>>

ReadUser(r) ==
    LET q == req[r] IN
    /\ q.pc = "readUser"
    /\ Goto(r, [pc |-> "sign", user |-> q.user, seen |-> users[q.user],
                given |-> q.given])
    /\ UNCHANGED <<users, tenants, store, latest, issued, now>>

\* _generateTokens: the payload is the user as read, the time is now.
Sign(r) ==
    LET q == req[r] IN
    /\ q.pc = "sign"
    /\ Goto(r, [pc |-> "revoke", user |-> q.user, given |-> q.given,
                token |-> [user |-> q.user, role |-> q.seen.role,
                           tenant |-> q.seen.tenant, iat |-> now]])
    /\ UNCHANGED <<users, tenants, store, latest, issued, now>>

\* Mutant: only the token that was presented is deleted.
RevokeGiven(r) ==
    /\ req[r].pc = "revoke"
    /\ store' = store \ {req[r].given}
    /\ req' = [req EXCEPT ![r].pc = "store"]
    /\ UNCHANGED <<users, tenants, latest, issued, now>>

\* deleteMany of the user's refresh tokens, ...
Revoke(r) ==
    /\ req[r].pc = "revoke"
    /\ store' = {k \in store : k.user # req[r].user}
    /\ req' = [req EXCEPT ![r].pc = "store"]
    /\ UNCHANGED <<users, tenants, latest, issued, now>>

\* ... then _tokenHash inserts the new one, in no transaction with it.  The
\* unique tokenHash refuses a token that is there already (see Abort).
Store(r) ==
    LET q == req[r] IN
    /\ q.pc = "store"
    /\ q.token \notin store
    /\ store' = store \cup {q.token}
    /\ latest' = [latest EXCEPT ![q.user] = q.token]
    /\ issued' = issued \cup {q.token}
    /\ Goto(r, Idle)
    /\ UNCHANGED <<users, tenants, now>>

-----------------------------------------------------------------------------
(* AuthService.logout.                                                     *)

Logout(r, k) ==
    /\ req[r] = Idle
    /\ k \in store
    /\ Goto(r, [pc |-> "delete", token |-> k])
    /\ UNCHANGED <<users, tenants, store, latest, issued, now>>

\* The delete fails when the row has gone since (see Abort).
DeleteToken(r) ==
    /\ req[r].pc = "delete"
    /\ req[r].token \in store
    /\ store' = store \ {req[r].token}
    /\ Goto(r, Idle)
    /\ UNCHANGED <<users, tenants, latest, issued, now>>

-----------------------------------------------------------------------------
(* AuthService.setupTenant and toggleUserStatus, TenantService.            *)

\* Mutant: a user who has a tenant is taken all the same.
SetupTenantAgain(r, u, t) ==
    /\ req[r] = Idle
    /\ users[u].active
    /\ Goto(r, [pc |-> "checkSlug", user |-> u, tenant |-> t])
    /\ UNCHANGED <<users, tenants, store, latest, issued, now>>

\* setupTenant: the user, the slug, the tenant, and the user again: four
\* statements, no transaction.
SetupTenant(r, u, t) ==
    /\ req[r] = Idle
    /\ users[u].active  \* the guard of the route
    /\ users[u].tenant = None
    /\ Goto(r, [pc |-> "checkSlug", user |-> u, tenant |-> t])
    /\ UNCHANGED <<users, tenants, store, latest, issued, now>>

CheckSlug(r) ==
    LET q == req[r]  taken == tenants[q.tenant].status # "none" IN
    /\ q.pc = "checkSlug"
    /\ \/ ~taken /\ req' = [req EXCEPT ![r].pc = "createTenant"]
       \/ taken /\ Goto(r, Idle)
    /\ UNCHANGED <<users, tenants, store, latest, issued, now>>

\* The unique slug refuses a tenant that was created since (see Abort).
CreateTenant(r) ==
    LET q == req[r] IN
    /\ q.pc = "createTenant"
    /\ tenants[q.tenant].status = "none"
    /\ tenants' = [tenants EXCEPT ![q.tenant] =
                     [status |-> "active", founder |-> q.user]]
    /\ req' = [req EXCEPT ![r].pc = "joinTenant"]
    /\ UNCHANGED <<users, store, latest, issued, now>>

\* Mutant: the role is set and the tenant is not.
JoinTenantRoleOnly(r) ==
    LET q == req[r] IN
    /\ q.pc = "joinTenant"
    /\ users' = [users EXCEPT ![q.user].role = "ADMIN"]
    /\ Goto(r, Idle)
    /\ UNCHANGED <<tenants, store, latest, issued, now>>

JoinTenant(r) ==
    LET q == req[r] IN
    /\ q.pc = "joinTenant"
    /\ users' = [users EXCEPT ![q.user].tenant = q.tenant,
                              ![q.user].role = "ADMIN"]
    /\ Goto(r, Idle)
    /\ UNCHANGED <<tenants, store, latest, issued, now>>

\* TenantService.create, by a SUPER_ADMIN.
AddTenant(t) ==
    /\ tenants[t].status = "none"
    /\ tenants' = [tenants EXCEPT ![t].status = "active"]
    /\ UNCHANGED <<users, store, latest, issued, req, now>>

\* TenantService.toggleStatus.
ToggleTenant(t) ==
    /\ tenants[t].status # "none"
    /\ tenants' = [tenants EXCEPT ![t].status =
                     IF @ = "active" THEN "disabled" ELSE "active"]
    /\ UNCHANGED <<users, store, latest, issued, req, now>>

\* toggleUserStatus: an administrator of the user's tenant reads the user, ...
ToggleUser(r, actor, u, active) ==
    LET a == users[actor] IN
    /\ req[r] = Idle
    /\ a.active
    /\ a.role = "ADMIN" /\ a.tenant # None
    /\ users[u].tenant = a.tenant
    /\ Goto(r, [pc |-> "toggle", user |-> u, active |-> active,
                scope |-> a.tenant])
    /\ UNCHANGED <<users, tenants, store, latest, issued, now>>

\* ... or a SUPER_ADMIN does, ...
ToggleAnyUser(r, u, active) ==
    /\ req[r] = Idle
    /\ Goto(r, [pc |-> "toggle", user |-> u, active |-> active,
                scope |-> None])
    /\ UNCHANGED <<users, tenants, store, latest, issued, now>>

\* ... then updates the row.  The tokens of the user stay where they are.
SetActive(r) ==
    LET q == req[r] IN
    /\ q.pc = "toggle"
    /\ users' = [users EXCEPT ![q.user].active = q.active]
    /\ Goto(r, Idle)
    /\ UNCHANGED <<tenants, store, latest, issued, now>>

-----------------------------------------------------------------------------
(* JwtStrategy.validate.                                                   *)

\* The tenant in the token is the tenant of the user.
ContextMatches(k) == k.tenant = users[k.user].tenant

\* A request with an access token that has not expired: the user, ...
Access(r, k) ==
    LET u == users[k.user] IN
    /\ req[r] = Idle
    /\ k \in issued
    /\ now < k.iat + AccessTTL
    /\ u.active
    /\ ContextMatches(k)
    /\ Goto(r, [pc |-> IF u.tenant = None THEN "granted" ELSE "checkTenant",
                user |-> k.user, tenant |-> u.tenant])
    /\ UNCHANGED <<users, tenants, store, latest, issued, now>>

\* ... then the user's tenant.
CheckTenant(r) ==
    LET q == req[r] IN
    /\ q.pc = "checkTenant"
    /\ \/ TenantActive(q.tenant) /\ req' = [req EXCEPT ![r].pc = "granted"]
       \/ ~TenantActive(q.tenant) /\ Goto(r, Idle)
    /\ UNCHANGED <<users, tenants, store, latest, issued, now>>

\* The request is over.
Serve(r) ==
    /\ req[r].pc = "granted"
    /\ Goto(r, Idle)
    /\ UNCHANGED <<users, tenants, store, latest, issued, now>>

-----------------------------------------------------------------------------

\* A statement fails: on a unique column, or on a row that is gone.
Fails(r) ==
    LET q == req[r] IN
    \/ q.pc = "store" /\ q.token \in store
    \/ q.pc = "delete" /\ q.token \notin store
    \/ q.pc = "createTenant" /\ tenants[q.tenant].status # "none"
    \/ q.pc = "insertUser" /\ users[q.user] # None

\* A request stops short: it fails, or the process dies.
Abort(r) ==
    /\ Fails(r) \/ (CanAbort /\ req[r] # Idle)
    /\ Goto(r, Idle)
    /\ UNCHANGED <<users, tenants, store, latest, issued, now>>

Tick ==
    /\ now < MaxTime
    /\ now' = now + 1
    /\ UNCHANGED <<users, tenants, store, latest, issued, req>>

RegisterStep(r) ==
    (\E u \in Users, role \in Roles : Register(r, u, role)) \/ InsertUser(r)

SignInStep(r) ==
    \/ \E u \in Registered : Login(r, u)
    \/ LoginTenant(r)
    \/ \E k \in store : Refresh(r, k)
    \/ ReadUser(r)
    \/ Sign(r)
    \/ Revoke(r)
    \/ Store(r)

LogoutStep(r) == (\E k \in store : Logout(r, k)) \/ DeleteToken(r)

SetupStep(r) ==
    \/ \E u \in Registered, t \in TenantIds : SetupTenant(r, u, t)
    \/ CheckSlug(r)
    \/ CreateTenant(r)
    \/ JoinTenant(r)

ToggleStep(r) ==
    \/ \E a, u \in Registered, active \in BOOLEAN : ToggleUser(r, a, u, active)
    \/ \E u \in Registered, active \in BOOLEAN : ToggleAnyUser(r, u, active)
    \/ SetActive(r)

AccessStep(r) ==
    (\E k \in issued : Access(r, k)) \/ CheckTenant(r) \/ Serve(r)

Step ==
    \/ \E r \in Requests : \/ RegisterStep(r)
                           \/ SignInStep(r)
                           \/ LogoutStep(r)
                           \/ SetupStep(r)
                           \/ ToggleStep(r)
                           \/ AccessStep(r)
                           \/ Abort(r)
    \/ \E t \in TenantIds : AddTenant(t) \/ ToggleTenant(t)
    \/ Tick

(***************************************************************************)
(* The history the properties refer to: nothing in the code keeps two      *)
(* requests of one user apart, and nothing undoes half a setup.            *)
(***************************************************************************)
SigningIn(u) ==
    {r \in Requests :
        /\ req[r].pc \in {"loginTenant", "readUser", "sign", "revoke", "store"}
        /\ req[r].user = u}
SettingUp(u) ==
    {r \in Requests :
        /\ req[r].pc \in {"checkSlug", "createTenant", "joinTenant"}
        /\ req[r].user = u}
Joining(u) == {r \in SettingUp(u) : req[r].pc = "joinTenant"}

Several(S) == \E r1, r2 \in S : r1 # r2

Record ==
    /\ crossed' = crossed \cup {u \in Users : Several(SigningIn(u))'}
    /\ torn' = torn \cup {u \in Users :
                  \/ Several(SettingUp(u))'
                  \/ \E r \in Joining(u) : req'[r] = Idle /\ users' = users}

Next == Step /\ Record

Spec == Init /\ [][Next]_vars

-----------------------------------------------------------------------------
(* What holds of the code as it is.                                        *)

TokensOf(u) == {k \in store : k.user = u}

\* However logins and refreshes of a user interleave, the tokens they leave
\* behind never outnumber the requests in flight together: each has deleted
\* all of them before it adds its one.
TokensBoundedByRace ==
    \A u \in Users :
        Cardinality(TokensOf(u))
        + Cardinality({r \in SigningIn(u) : req[r].pc = "store"})
        <= Cardinality(Requests)

\* The only refresh token that works is the last one its user was given,
\* whatever stops half way, unless two sign-ins of the user have crossed.
StoredIsLatest == \A k \in store : k.user \notin crossed => k = latest[k.user]

\* No tenant is left behind without the user whose setup created it, unless
\* the setup is still under way, stopped half way or met another one.
FounderJoins ==
    \A t \in TenantIds, u \in Users \ torn :
        tenants[t].founder = u
        => \/ users[u].tenant = t /\ users[u].role = "ADMIN"
           \/ \E r \in Joining(u) : req[r].tenant = t

\* A request that was let in for a tenant, and an administrator about to
\* switch a user of a tenant, work in the tenant the user is in by now: what
\* was read before an await still holds, unless two setups have met.
ContextIsCurrent ==
    \A r \in Requests :
        LET q == req[r] IN
        /\ q.pc \in {"checkTenant", "granted"} /\ q.tenant # None
           => q.user \in torn \/ users[q.user].tenant = q.tenant
        /\ q.pc = "toggle" /\ q.scope # None
           => q.user \in torn \/ users[q.user].tenant = q.scope

\* A user founds one tenant, and the tenant and role a user has come to stay
\* what they are: one setup after another is refused, and only two that meet
\* get past the check.
FoundsOnce ==
    \A u \in Users \ torn : \A t1, t2 \in TenantIds :
        tenants[t1].founder = u /\ tenants[t2].founder = u => t1 = t2

TenantIsFinal ==
    [][\A u \in Registered \ torn :
          users[u].tenant # None
          => /\ users'[u].tenant = users[u].tenant
             /\ users'[u].role = users[u].role]_vars
=============================================================================
