------------------------------- MODULE Catalog -------------------------------
(***************************************************************************)
(* What a tenant offers: its service categories (TenantService), provider  *)
(* profiles and services (ProviderService) behind their routes, while a    *)
(* user without tenant may found one (AuthService.setupTenant).  A step    *)
(* runs from one await to the next; what a handler remembers is in req.    *)
(***************************************************************************)
EXTENDS Access

CONSTANTS
    Tenants, Users,
    CategoryIds, ServiceIds,  \* the uuids the database may hand out
    Names,     \* names of categories
    Empty,     \* the one of no characters
    Within,    \* Within[m]: the names that contain m, in any case
    Requests,  \* requests that may be in flight together
    RoleOf, TenantOf,  \* role and tenant of a user at the start
    ProfileOf,         \* tenant of the provider profile of a user at the start
    None,      \* no tenant, no row, no category
    Unused, Deleted

VARIABLES
    users,       \* users[u]: tenant and role
    profiles,    \* profiles[u]: the tenant of the provider profile of u
    categories,  \* categories[c]: a row of service_categories
    services,    \* services[s]: a row of services
    opened,      \* the tenants whose slug is taken
    req,         \* req[r]: where request r is and what it has read
    late         \* auxiliary: the users who joined a tenant after a profile
                 \* of theirs was made, or while one was being made

vars == <<users, profiles, categories, services, opened, req, late>>
rows == <<users, profiles, categories, services, opened, late>>

UserRow == [tenant: Tenants \cup {None}, role: UserRole]

\* seen is auxiliary: the other categories of the tenant when the name was
\* admitted that have kept theirs since.
CategoryRow == [tenant: Tenants, name: Names, seen: SUBSET CategoryIds]

\* A provider is known by its user: providerProfile.userId is unique.
ServiceRow == [provider: Users, category: CategoryIds \cup {None}]

Idle == [pc |-> "idle"]

\* tenant: the one of the access token, as found when the request began.
NamingRequest ==
    [pc: {"write"}, call: {"createCategory", "updateCategory"},
     tenant: Tenants, category: CategoryIds \cup {None}, name: Names,
     seen: SUBSET CategoryIds]
DroppingRequest ==
    [pc: {"write"}, call: {"deleteCategory"}, tenant: Tenants,
     category: CategoryIds]
ServiceRequest ==
    [pc: {"service", "category", "write"},
     call: {"createService", "updateService", "deleteService"},
     tenant: Tenants, provider: Users, service: ServiceIds \cup {None},
     category: CategoryIds \cup {None}]
ProfileRequest ==
    [pc: {"profile", "write"}, call: {"createProfile"}, tenant: Tenants,
     provider: Users]
SetupRequest ==
    [pc: {"write"}, call: {"setupTenant"}, user: Users, tenant: Tenants]

Request == {Idle} \cup NamingRequest \cup DroppingRequest
           \cup ServiceRequest \cup ProfileRequest \cup SetupRequest

ASSUME CatalogAssumption ==
    /\ RoleOf \in [Users -> UserRole]
    /\ TenantOf \in [Users -> Tenants \cup {None}]
    /\ ProfileOf \in [Users -> Tenants \cup {None}]
    /\ \A u \in Users : ProfileOf[u] # None => TenantOf[u] = ProfileOf[u]
    /\ Within \in [Names -> SUBSET Names]
    /\ \A m \in Names : m \in Within[m]
    /\ Empty \in Names /\ Within[Empty] = Names
    /\ None \notin Tenants \cup Users \cup CategoryIds \cup ServiceIds
    /\ Unused # Deleted
    /\ {Unused, Deleted} \cap (CategoryRow \cup ServiceRow) = {}

TypeOK ==
    /\ users \in [Users -> UserRow]
    /\ profiles \in [Users -> Tenants \cup {None}]
    /\ categories \in [CategoryIds -> CategoryRow \cup {Unused, Deleted}]
    /\ services \in [ServiceIds -> ServiceRow \cup {Unused, Deleted}]
    /\ opened \subseteq Tenants
    /\ req \in [Requests -> Request]
    /\ late \subseteq Users

Init ==
    /\ users = [u \in Users |-> [tenant |-> TenantOf[u], role |-> RoleOf[u]]]
    /\ profiles = ProfileOf
    /\ categories = [c \in CategoryIds |-> Unused]
    /\ services = [s \in ServiceIds |-> Unused]
    /\ opened = {t \in Tenants : \E u \in Users : t \in {TenantOf[u], ProfileOf[u]}}
    /\ req = [r \in Requests |-> Idle]
    /\ late = {}

Categories == {c \in CategoryIds : categories[c] \notin {Unused, Deleted}}
Services   == {s \in ServiceIds : services[s] \notin {Unused, Deleted}}

CategoriesOf(t) == {c \in Categories : categories[c].tenant = t}

Goto(r, next) == req' = [req EXCEPT ![r] = next]
-----------------------------------------------------------------------------
(* The routes, each up to its first lookup.  One that finds what it must    *)
(* not find, or nothing, ends there.                                       *)

\* Mutant: the controllers do not ask for a tenant.
AdmittedAnyTenant(u, required) == canActivate(users[u].role, required)

\* RolesGuard, and the tenant the controllers ask for.
Admitted(u, required) ==
    canActivate(users[u].role, required) /\ users[u].tenant # None

\* Mutant: the lookup is for the whole name.
NameTakenWhole(t, n) == \E c \in CategoriesOf(t) : categories[c].name = n

\* A category of the tenant whose name contains the new one: updateCategory
\* may find the very row it is about to change.
NameTaken(t, n) == \E c \in CategoriesOf(t) : categories[c].name \in Within[n]

createCategory(r, u, n) ==
    LET t == users[u].tenant IN
    /\ req[r] = Idle /\ Admitted(u, Administrators)
    /\ n # Empty
    /\ ~NameTaken(t, n)
    /\ Goto(r, [pc |-> "write", call |-> "createCategory", tenant |-> t,
                category |-> None, name |-> n, seen |-> CategoriesOf(t)])
    /\ UNCHANGED rows

\* Without a name an update touches nothing that is modelled here; for an
\* empty one nothing is looked up, but it is written all the same.
updateCategory(r, u, c, n) ==
    LET t == users[u].tenant IN
    /\ req[r] = Idle /\ Admitted(u, Administrators)
    /\ n # Empty => ~NameTaken(t, n)
    /\ Goto(r, [pc |-> "write", call |-> "updateCategory", tenant |-> t,
                category |-> c, name |-> n,
                seen |-> CategoriesOf(t) \ {c}])
    /\ UNCHANGED rows

deleteCategory(r, u, c) ==
    /\ req[r] = Idle /\ Admitted(u, Administrators)
    /\ c \in CategoriesOf(users[u].tenant)
    /\ Goto(r, [pc |-> "write", call |-> "deleteCategory",
                tenant |-> users[u].tenant, category |-> c])
    /\ UNCHANGED rows

\* Mutant: nobody asks for the tenant of the user.
MayProvideAnyone(p, t) == TRUE

\* The user may belong to the tenant or to none.
MayProvide(p, t) == users[p].tenant \in {t, None}

createProfile(r, u, p) ==
    /\ req[r] = Idle /\ Admitted(u, Administrators)
    /\ MayProvide(p, users[u].tenant)
    /\ Goto(r, [pc |-> "profile", call |-> "createProfile",
                tenant |-> users[u].tenant, provider |-> p])
    /\ UNCHANGED rows

\* Mutant: an administrator manages the providers of every tenant.
OwnsAny(u, p) ==
    /\ profiles[p] # None
    /\ users[u].role = "PROVIDER" => p = u

\* assertProviderOwnership: the profile is of the tenant, and a provider
\* manages none but its own.
Owns(u, p) ==
    /\ profiles[p] = users[u].tenant
    /\ users[u].role = "PROVIDER" => p = u

ServiceCall(r, u, call, p, s, c, pc) ==
    /\ req[r] = Idle /\ Admitted(u, Staff)
    /\ Owns(u, p)
    /\ Goto(r, [pc |-> pc, call |-> call, tenant |-> users[u].tenant,
                provider |-> p, service |-> s, category |-> c])
    /\ UNCHANGED rows

createService(r, u, p, c) ==
    ServiceCall(r, u, "createService", p, None, c,
                IF c = None THEN "write" ELSE "category")

\* An update that leaves the category undefined touches nothing modelled here.
updateService(r, u, p, s, c) ==
    ServiceCall(r, u, "updateService", p, s, c, "service")

deleteService(r, u, p, s) ==
    ServiceCall(r, u, "deleteService", p, s, None, "service")

\* Up to the insert of the tenant, whose slug is free; module Session has the
\* statements one by one.
setupTenant(r, u, t) ==
    /\ req[r] = Idle
    /\ users[u].tenant = None
    /\ t \notin opened
    /\ opened' = opened \cup {t}
    /\ Goto(r, [pc |-> "write", call |-> "setupTenant", user |-> u,
                tenant |-> t])
    /\ UNCHANGED <<users, profiles, categories, services, late>>
-----------------------------------------------------------------------------
(* The further lookups.                                                    *)

Proceed(r, found, next) ==
    /\ \/ found /\ req' = [req EXCEPT ![r].pc = next]
       \/ ~found /\ Goto(r, Idle)
    /\ UNCHANGED rows

\* ProviderService.create: the user has no profile yet.
FindProfile(r) ==
    /\ req[r].pc = "profile"
    /\ Proceed(r, profiles[req[r].provider] = None, "write")

\* updateService and deleteService: a service of that provider.
FindService(r) ==
    LET q == req[r] IN
    /\ q.pc = "service"
    /\ Proceed(r, q.service \in Services
                  /\ services[q.service].provider = q.provider,
               IF q.category = None THEN "write" ELSE "category")

\* Mutant: the category may be of any tenant.
FindCategoryAnywhere(r) ==
    /\ req[r].pc = "category"
    /\ Proceed(r, req[r].category \in Categories, "write")

\* createService and updateService: a category of the tenant.
FindCategory(r) ==
    /\ req[r].pc = "category"
    /\ Proceed(r, req[r].category \in CategoriesOf(req[r].tenant), "write")
-----------------------------------------------------------------------------
(* The writes, each an await after the lookups it relies on.               *)

Writes(r, call) == req[r].pc = "write" /\ req[r].call = call

\* The unique (tenantId, name) lets a name be used once.
NameFree(t, n, c) == \A d \in CategoriesOf(t) \ {c} : categories[d].name # n

\* A category that has changed its name is not the one that was looked at.
Forget(c) ==
    [o \in Requests |->
        IF req[o] \in NamingRequest THEN [req[o] EXCEPT !.seen = @ \ {c}]
                                    ELSE req[o]]

InsertCategory(r, c) ==
    LET q == req[r] IN
    /\ Writes(r, "createCategory")
    /\ categories[c] = Unused
    /\ NameFree(q.tenant, q.name, c)
    /\ categories' = [categories EXCEPT ![c] =
          [tenant |-> q.tenant, name |-> q.name, seen |-> q.seen]]
    /\ Goto(r, Idle)
    /\ UNCHANGED <<users, profiles, services, opened, late>>

\* The update names the tenant again.
RenameCategory(r) ==
    LET q == req[r] c == q.category IN
    /\ Writes(r, "updateCategory")
    /\ c \in CategoriesOf(q.tenant)
    /\ NameFree(q.tenant, q.name, c)
    /\ categories' = [d \in CategoryIds |->
          IF d = c THEN [tenant |-> q.tenant, name |-> q.name,
                         seen |-> q.seen]
          ELSE IF d \in Categories
               THEN [categories[d] EXCEPT !.seen = @ \ {c}]
               ELSE categories[d]]
    /\ req' = [Forget(c) EXCEPT ![r] = Idle]
    /\ UNCHANGED <<users, profiles, services, opened, late>>

\* Mutant: the services keep the category.
DropCategoryOnly(r) ==
    /\ Writes(r, "deleteCategory")
    /\ req[r].category \in Categories
    /\ categories' = [categories EXCEPT ![req[r].category] = Deleted]
    /\ Goto(r, Idle)
    /\ UNCHANGED <<users, profiles, services, opened, late>>

\* The delete is by id alone; its foreign key takes the category from the
\* services that have it (ON DELETE SET NULL).
DropCategory(r) ==
    LET c == req[r].category IN
    /\ Writes(r, "deleteCategory")
    /\ c \in Categories
    /\ categories' = [categories EXCEPT ![c] = Deleted]
    /\ services' = [s \in ServiceIds |->
          IF s \in Services /\ services[s].category = c
          THEN [services[s] EXCEPT !.category = None] ELSE services[s]]
    /\ Goto(r, Idle)
    /\ UNCHANGED <<users, profiles, opened, late>>

InsertProfile(r) ==
    LET q == req[r] IN
    /\ Writes(r, "createProfile")
    /\ profiles[q.provider] = None
    /\ profiles' = [profiles EXCEPT ![q.provider] = q.tenant]
    /\ Goto(r, Idle)
    /\ UNCHANGED <<users, categories, services, opened, late>>

\* The foreign key on the category asks for the row, not for its tenant.
CategoryStands(c) == c = None \/ c \in Categories

InsertService(r, s) ==
    LET q == req[r] IN
    /\ Writes(r, "createService")
    /\ services[s] = Unused
    /\ CategoryStands(q.category)
    /\ services' = [services EXCEPT ![s] = [provider |-> q.provider,
                                            category |-> q.category]]
    /\ Goto(r, Idle)
    /\ UNCHANGED <<users, profiles, categories, opened, late>>

\* By id alone.
SetCategory(r) ==
    LET q == req[r] IN
    /\ Writes(r, "updateService")
    /\ q.service \in Services
    /\ CategoryStands(q.category)
    /\ services' = [services EXCEPT ![q.service].category = q.category]
    /\ Goto(r, Idle)
    /\ UNCHANGED <<users, profiles, categories, opened, late>>

\* By id alone.  That bookings may stand in the way is module Booking's.
DropService(r) ==
    /\ Writes(r, "deleteService")
    /\ req[r].service \in Services
    /\ services' = [services EXCEPT ![req[r].service] = Deleted]
    /\ Goto(r, Idle)
    /\ UNCHANGED <<users, profiles, categories, opened, late>>

\* Requests that have found user u fit to be a provider.
Providing(u) == {o \in Requests : /\ req[o] \in ProfileRequest
                                  /\ req[o].provider = u}

\* setupTenant: the user becomes the administrator of the tenant.
Join(r) ==
    LET u == req[r].user IN
    /\ Writes(r, "setupTenant")
    /\ users' = [users EXCEPT ![u] = [tenant |-> req[r].tenant,
                                      role |-> "ADMIN"]]
    /\ late' = IF profiles[u] # None \/ Providing(u) # {} THEN late \cup {u}
                                                          ELSE late
    /\ Goto(r, Idle)
    /\ UNCHANGED <<profiles, categories, services, opened>>

\* A request stops short: a constraint, a row that is gone, bookings that are
\* not (deleteService), or the process dying.
Abort(r) ==
    /\ req[r] # Idle
    /\ Goto(r, Idle)
    /\ UNCHANGED rows

Route(r, u) ==
    \/ \E n \in Names : \/ createCategory(r, u, n)
                        \/ \E c \in CategoryIds : updateCategory(r, u, c, n)
    \/ \E c \in CategoryIds : deleteCategory(r, u, c)
    \/ \E p \in Users :
          \/ createProfile(r, u, p)
          \/ \E c \in CategoryIds \cup {None} :
                \/ createService(r, u, p, c)
                \/ \E s \in ServiceIds : updateService(r, u, p, s, c)
          \/ \E s \in ServiceIds : deleteService(r, u, p, s)
    \/ \E t \in Tenants : setupTenant(r, u, t)

Lookup(r) == FindProfile(r) \/ FindService(r) \/ FindCategory(r)

Write(r) ==
    \/ \E c \in CategoryIds : InsertCategory(r, c)
    \/ RenameCategory(r)
    \/ DropCategory(r)
    \/ InsertProfile(r)
    \/ \E s \in ServiceIds : InsertService(r, s)
    \/ SetCategory(r)
    \/ DropService(r)
    \/ Join(r)

Next ==
    \E r \in Requests :
        (\E u \in Users : Route(r, u)) \/ Lookup(r) \/ Write(r) \/ Abort(r)

Spec == Init /\ [][Next]_vars
-----------------------------------------------------------------------------

\* The category of a service stands, in the tenant of the service's provider,
\* although the row is checked at one moment and written at a later one, and
\* categories are deleted in between: what lookup and foreign key say by turns
\* adds up.
CategoryOfOwnTenant ==
    \A s \in Services :
        services[s].category # None =>
            services[s].category \in CategoriesOf(profiles[services[s].provider])

\* A provider profile is in another tenant than its user only if the user
\* founded one after the profile was made, or while it was being made: nothing
\* in setupTenant looks for profiles.
StrayOnlyByLateJoin ==
    \A u \in Users \ late :
        profiles[u] # None => users[u].tenant \in {profiles[u], None}

\* Two names of a tenant contain one another only if the longer one came
\* later, or the lookup of the shorter one did not see the other category as
\* it is, or the shorter one is the empty name, which every name contains: no
\* category is created with it, but an update writes it unasked.
ContainedOnlyByRace ==
    \A t \in Tenants : \A c, d \in CategoriesOf(t) :
        /\ c # d
        /\ categories[d].name \in Within[categories[c].name]
        /\ categories[c].name # Empty
        => d \notin categories[c].seen

\* Whatever is in flight, rows of a tenant change at the hands of requests
\* admitted for that tenant, services along with them: no delete of a category
\* reaches into another tenant.
TenantsApart ==
    [][ /\ \A s \in Services : services'[s] # services[s] =>
              \E r \in Requests :
                  req[r].pc = "write" /\ req'[r] = Idle
                  /\ req[r].tenant = profiles[services[s].provider]
        /\ \A c \in Categories : categories'[c] \notin CategoryRow
                                 \/ categories'[c].name # categories[c].name =>
              \E r \in Requests :
                  req[r].pc = "write" /\ req'[r] = Idle
                  /\ req[r].tenant = categories[c].tenant ]_vars
=============================================================================
