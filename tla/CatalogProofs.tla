---------------------------- MODULE CatalogProofs ----------------------------
(***************************************************************************)
(* Proofs about Catalog, for any tenants, users, names and number of       *)
(* requests in flight together.                                            *)
(***************************************************************************)
EXTENDS Catalog, TLAPS

-----------------------------------------------------------------------------
(* The inductive invariant: what a request may rely on after its lookups,  *)
(* and what the tables have in common.  No part relates two requests.      *)

\* None of the categories seen at the lookup has a name that contains the new
\* one; for the empty name there was no lookup.
NamerSound(q) ==
    q \in NamingRequest =>
        \A d \in q.seen :
            /\ categories[d] # Unused
            /\ d \in CategoriesOf(q.tenant) /\ q.name # Empty =>
                  categories[d].name \notin Within[q.name]

\* A category that was looked up may be gone, and is of the tenant otherwise.
Checked(c, t) == categories[c] = Deleted \/ c \in CategoriesOf(t)

DropperSound(q) ==
    q \in DroppingRequest => Checked(q.category, q.tenant)

ServiceSound(q) ==
    q \in ServiceRequest =>
        /\ profiles[q.provider] = q.tenant
        /\ q.call # "createService" /\ q.pc # "service" =>
              /\ q.service \in ServiceIds
              /\ \/ services[q.service] = Deleted
                 \/ /\ q.service \in Services
                    /\ services[q.service].provider = q.provider
        /\ q.pc = "write" /\ q.category # None => Checked(q.category, q.tenant)

ProfileSound(q) ==
    q \in ProfileRequest /\ q.provider \notin late =>
        users[q.provider].tenant \in {q.tenant, None}

RequestSound(q) ==
    NamerSound(q) /\ DropperSound(q) /\ ServiceSound(q) /\ ProfileSound(q)

RequestsSound == \A r \in Requests : RequestSound(req[r])

\* The lookup that let a category have its name speaks for the row as well.
NamesSound ==
    \A c \in Categories : \A d \in categories[c].seen \ {c} :
        /\ categories[d] # Unused
        /\ /\ d \in Categories
           /\ categories[d].tenant = categories[c].tenant
           /\ categories[c].name # Empty
           => categories[d].name \notin Within[categories[c].name]

ServicesSound ==
    \A s \in Services :
        /\ profiles[services[s].provider] # None
        /\ services[s].category # None =>
              /\ services[s].category \in Categories
              /\ categories[services[s].category].tenant
                 = profiles[services[s].provider]

IInv ==
    /\ TypeOK
    /\ RequestsSound
    /\ NamesSound
    /\ ServicesSound
    /\ StrayOnlyByLateJoin

-----------------------------------------------------------------------------
(* What the tables keep, and what follows for the requests in flight.      *)

CategoriesKept ==
    \A c \in CategoryIds :
        /\ categories[c] = Deleted => categories'[c] = Deleted
        /\ c \in Categories =>
              \/ categories'[c] = Deleted
              \/ /\ c \in Categories'
                 /\ categories'[c].tenant = categories[c].tenant

NamesKept ==
    \A c \in CategoryIds :
        categories[c] # Unused =>
            /\ categories'[c] # Unused
            /\ c \in Categories' =>
                  /\ c \in Categories
                  /\ categories'[c].tenant = categories[c].tenant
                  /\ categories'[c].name = categories[c].name

ServicesKept ==
    \A s \in ServiceIds :
        /\ services[s] = Deleted => services'[s] = Deleted
        /\ s \in Services =>
              \/ services'[s] = Deleted
              \/ /\ s \in Services'
                 /\ services'[s].provider = services[s].provider

ProfilesKept ==
    \A u \in Users : profiles[u] # None => profiles'[u] = profiles[u]

LEMMA KeptNamer ==
    ASSUME NamesKept, NEW q \in Request, NamerSound(q)
    PROVE  NamerSound(q)'
<1> SUFFICES ASSUME q \in NamingRequest, NEW d \in q.seen
             PROVE  /\ categories'[d] # Unused
                    /\ d \in CategoriesOf(q.tenant)' /\ q.name # Empty =>
                          categories'[d].name \notin Within[q.name]
  BY DEF NamerSound
<1>1. d \in CategoryIds /\ categories[d] # Unused
  BY DEF NamingRequest, NamerSound
<1>2. d \in CategoriesOf(q.tenant)' =>
         d \in CategoriesOf(q.tenant) /\ categories'[d].name = categories[d].name
  BY <1>1 DEF NamesKept, CategoriesOf
<1> QED
  BY <1>1, <1>2 DEF NamesKept, NamerSound

LEMMA KeptChecked ==
    ASSUME CategoriesKept, NEW c \in CategoryIds, NEW t, Checked(c, t)
    PROVE  Checked(c, t)'
BY DEF CategoriesKept, Checked, CategoriesOf

LEMMA KeptOthers ==
    ASSUME CategoriesKept, ServicesKept, ProfilesKept,
           None \notin Tenants, NEW q \in Request
    PROVE  /\ DropperSound(q) => DropperSound(q)'
           /\ ServiceSound(q) => ServiceSound(q)'
<1>1. ASSUME DropperSound(q), q \in DroppingRequest
      PROVE  Checked(q.category, q.tenant)'
  BY <1>1, KeptChecked DEF DropperSound, DroppingRequest
<1>2. ASSUME ServiceSound(q), q \in ServiceRequest
      PROVE  ServiceSound(q)'
  <2>1. /\ q.provider \in Users /\ q.tenant \in Tenants
        /\ q.category \in CategoryIds \cup {None}
    BY <1>2 DEF ServiceRequest
  <2>2. profiles'[q.provider] = q.tenant
    BY <1>2, <2>1 DEF ServiceSound, ProfilesKept
  <2>3. q.call # "createService" /\ q.pc # "service" =>
              /\ q.service \in ServiceIds
              /\ \/ services'[q.service] = Deleted
                 \/ /\ q.service \in Services'
                    /\ services'[q.service].provider = q.provider
    BY <1>2 DEF ServiceSound, ServicesKept
  <2>4. q.pc = "write" /\ q.category # None => Checked(q.category, q.tenant)'
    BY <1>2, <2>1, KeptChecked DEF ServiceSound
  <2> QED
    BY <2>2, <2>3, <2>4 DEF ServiceSound
<1> QED
  BY <1>1, <1>2 DEF DropperSound, ServiceSound

\* All of them, when neither users nor names change.
LEMMA KeptRequest ==
    ASSUME NamesKept, CategoriesKept, ServicesKept, ProfilesKept,
           UNCHANGED <<users, late>>, None \notin Tenants,
           NEW q \in Request, RequestSound(q)
    PROVE  RequestSound(q)'
<1>1. ProfileSound(q)'
  BY DEF RequestSound, ProfileSound
<1> QED
  BY <1>1, KeptNamer, KeptOthers DEF RequestSound

\* A request that is over relies on nothing.
LEMMA IdleSound == RequestSound(Idle) /\ RequestSound(Idle)' /\ Idle \in Request
BY DEF RequestSound, NamerSound, DropperSound, ServiceSound, ProfileSound, Idle,
       NamingRequest, DroppingRequest, ServiceRequest, ProfileRequest, Request

\* A step that touches nothing but its own request.
LEMMA OwnStep ==
    ASSUME IInv, NEW r \in Requests, NEW STATE q, q \in Request, UNCHANGED rows,
           req' = [req EXCEPT ![r] = q], RequestSound(q)
    PROVE  IInv'
<1>1. TypeOK'
  BY DEF IInv, TypeOK, rows
<1>2. Categories' = Categories /\ Services' = Services
      /\ \A t : CategoriesOf(t)' = CategoriesOf(t)
  BY DEF Categories, Services, CategoriesOf, rows
<1>3. NamesSound' /\ ServicesSound' /\ StrayOnlyByLateJoin'
  BY <1>2 DEF IInv, NamesSound, ServicesSound, StrayOnlyByLateJoin, rows
<1>4. \A o \in Requests : RequestSound(req'[o])
  BY DEF IInv, TypeOK, RequestsSound
<1>5. \A o \in Requests : RequestSound(req[o])'
  BY <1>2, <1>4 DEF RequestSound, NamerSound, DropperSound, ServiceSound,
                    ProfileSound, Checked, rows
<1> QED
  BY <1>1, <1>3, <1>5 DEF IInv, RequestsSound

-----------------------------------------------------------------------------
(* The routes.                                                             *)

LEMMA AdmittedTenant ==
    ASSUME TypeOK, NEW u \in Users, NEW required, Admitted(u, required)
    PROVE  users[u].tenant \in Tenants
BY DEF TypeOK, UserRow, Admitted

LEMMA InvNaming ==
    ASSUME IInv, NEW r \in Requests, NEW u \in Users, NEW n \in Names,
           NEW c \in CategoryIds \cup {None},
           createCategory(r, u, n) \/ updateCategory(r, u, c, n)
    PROVE  IInv'
<1> DEFINE t == users[u].tenant
           q(call, k) == [pc |-> "write", call |-> call, tenant |-> t,
                          category |-> k, name |-> n,
                          seen |-> CategoriesOf(t) \ {k}]
<1>1. t \in Tenants
  BY AdmittedTenant DEF IInv, createCategory, updateCategory
<1>2. CategoriesOf(t) \subseteq CategoryIds /\ CategoriesOf(t) \ {None} = CategoriesOf(t)
  BY CatalogAssumption DEF CategoriesOf, Categories
<1>3. n # Empty => ~NameTaken(t, n)
  BY DEF createCategory, updateCategory
<1>4. ASSUME NEW call \in {"createCategory", "updateCategory"},
             NEW k \in CategoryIds \cup {None}
      PROVE  q(call, k) \in Request /\ RequestSound(q(call, k))
  <2>1. q(call, k) \in NamingRequest
    BY <1>1, <1>2 DEF NamingRequest
  <2>2. \A d \in CategoriesOf(t) :
           /\ categories[d] # Unused
           /\ n # Empty => categories[d].name \notin Within[n]
    BY <1>3 DEF NameTaken, CategoriesOf, Categories
  <2> QED
    BY <2>1, <2>2 DEF Request, RequestSound, NamerSound, DropperSound,
       ServiceSound, ProfileSound, DroppingRequest, ServiceRequest,
       ProfileRequest
<1>5. /\ UNCHANGED rows
      /\ \/ req' = [req EXCEPT ![r] = q("createCategory", None)]
         \/ req' = [req EXCEPT ![r] = q("updateCategory", c)]
  BY <1>2 DEF createCategory, updateCategory, Goto
<1> HIDE DEF q
<1> QED
  BY <1>4, <1>5, OwnStep

LEMMA InvDeleteCategory ==
    ASSUME IInv, NEW r \in Requests, NEW u \in Users, NEW c \in CategoryIds,
           deleteCategory(r, u, c)
    PROVE  IInv'
<1> DEFINE q == [pc |-> "write", call |-> "deleteCategory",
                 tenant |-> users[u].tenant, category |-> c]
<1>1. q \in DroppingRequest /\ Checked(c, users[u].tenant)
  BY AdmittedTenant DEF IInv, deleteCategory, DroppingRequest, Checked
<1>2. q \in Request /\ RequestSound(q)
  BY <1>1 DEF Request, RequestSound, NamerSound, DropperSound, ServiceSound,
     ProfileSound, DroppingRequest, NamingRequest, ServiceRequest,
     ProfileRequest
<1>3. UNCHANGED rows /\ req' = [req EXCEPT ![r] = q]
  BY DEF deleteCategory, Goto
<1> HIDE DEF q
<1> QED
  BY <1>2, <1>3, OwnStep

LEMMA InvCreateProfile ==
    ASSUME IInv, NEW r \in Requests, NEW u \in Users, NEW p \in Users,
           createProfile(r, u, p)
    PROVE  IInv'
<1> DEFINE q == [pc |-> "profile", call |-> "createProfile",
                 tenant |-> users[u].tenant, provider |-> p]
<1>1. q \in ProfileRequest /\ users[p].tenant \in {users[u].tenant, None}
  BY AdmittedTenant DEF IInv, createProfile, ProfileRequest, MayProvide
<1>2. q \in Request /\ RequestSound(q)
  BY <1>1 DEF Request, RequestSound, NamerSound, DropperSound, ServiceSound,
     ProfileSound, DroppingRequest, NamingRequest, ServiceRequest,
     ProfileRequest
<1>3. UNCHANGED rows /\ req' = [req EXCEPT ![r] = q]
  BY DEF createProfile, Goto
<1> HIDE DEF q
<1> QED
  BY <1>2, <1>3, OwnStep

LEMMA InvServiceCall ==
    ASSUME IInv, NEW r \in Requests, NEW u \in Users, NEW p \in Users,
           NEW call \in {"createService", "updateService", "deleteService"},
           NEW s \in ServiceIds \cup {None}, NEW c \in CategoryIds \cup {None},
           NEW pc \in {"service", "category", "write"},
           call # "createService" => pc = "service",
           pc = "write" => c = None,
           ServiceCall(r, u, call, p, s, c, pc)
    PROVE  IInv'
<1> DEFINE q == [pc |-> pc, call |-> call, tenant |-> users[u].tenant,
                 provider |-> p, service |-> s, category |-> c]
<1>1. q \in ServiceRequest /\ profiles[p] = users[u].tenant
  BY AdmittedTenant DEF IInv, ServiceCall, ServiceRequest, Owns
<1>2. q \in Request /\ RequestSound(q)
  BY <1>1 DEF Request, RequestSound, NamerSound, DropperSound, ServiceSound,
     ProfileSound, DroppingRequest, NamingRequest, ServiceRequest,
     ProfileRequest
<1>3. UNCHANGED rows /\ req' = [req EXCEPT ![r] = q]
  BY DEF ServiceCall, Goto
<1> HIDE DEF q
<1> QED
  BY <1>2, <1>3, OwnStep

\* setupTenant takes the slug, which no other part of the invariant mentions.
LEMMA InvSetupTenant ==
    ASSUME IInv, NEW r \in Requests, NEW u \in Users, NEW t \in Tenants,
           setupTenant(r, u, t)
    PROVE  IInv'
<1> DEFINE q == [pc |-> "write", call |-> "setupTenant", user |-> u, tenant |-> t]
<1>1. q \in Request /\ RequestSound(q)
  BY DEF Request, RequestSound, NamerSound, DropperSound, ServiceSound,
     ProfileSound, DroppingRequest, NamingRequest, ServiceRequest,
     ProfileRequest, SetupRequest
<1>2. /\ req' = [req EXCEPT ![r] = q] /\ opened' = opened \cup {t}
      /\ UNCHANGED <<users, profiles, categories, services, late>>
  BY DEF setupTenant, Goto
<1> HIDE DEF q
<1>3. TypeOK'
  BY <1>1, <1>2 DEF IInv, TypeOK
<1>4. /\ Categories' = Categories /\ Services' = Services
      /\ \A x : CategoriesOf(x)' = CategoriesOf(x)
  BY <1>2 DEF Categories, Services, CategoriesOf
<1>5. NamesSound' /\ ServicesSound' /\ StrayOnlyByLateJoin'
  BY <1>2, <1>4 DEF IInv, NamesSound, ServicesSound, StrayOnlyByLateJoin
<1>6. \A o \in Requests : RequestSound(req'[o])
  BY <1>1, <1>2 DEF IInv, TypeOK, RequestsSound
<1>7. \A o \in Requests : RequestSound(req[o])'
  BY <1>2, <1>4, <1>6 DEF RequestSound, NamerSound, DropperSound, ServiceSound,
                          ProfileSound, Checked
<1> QED
  BY <1>3, <1>5, <1>7 DEF IInv, RequestsSound

LEMMA InvRoute ==
    ASSUME IInv, NEW r \in Requests, NEW u \in Users, Route(r, u)
    PROVE  IInv'
<1>1. ASSUME NEW n \in Names, createCategory(r, u, n) PROVE IInv'
  BY <1>1, InvNaming
<1>2. ASSUME NEW n \in Names, NEW c \in CategoryIds, updateCategory(r, u, c, n)
      PROVE  IInv'
  BY <1>2, InvNaming
<1>3. ASSUME NEW c \in CategoryIds, deleteCategory(r, u, c) PROVE IInv'
  BY <1>3, InvDeleteCategory
<1>4. ASSUME NEW p \in Users, createProfile(r, u, p) PROVE IInv'
  BY <1>4, InvCreateProfile
<1>5. ASSUME NEW p \in Users, NEW c \in CategoryIds \cup {None},
             createService(r, u, p, c)
      PROVE  IInv'
  <2>1. CASE c = None
    <3>1. ServiceCall(r, u, "createService", p, None, c, "write")
      BY <1>5, <2>1 DEF createService
    <3> QED
      BY <2>1, <3>1, InvServiceCall
  <2>2. CASE c # None
    <3>1. ServiceCall(r, u, "createService", p, None, c, "category")
      BY <1>5, <2>2 DEF createService
    <3> QED
      BY <3>1, InvServiceCall
  <2> QED
    BY <2>1, <2>2
<1>6. ASSUME NEW p \in Users, NEW c \in CategoryIds \cup {None},
             NEW s \in ServiceIds, updateService(r, u, p, s, c)
      PROVE  IInv'
  BY <1>6, InvServiceCall DEF updateService
<1>7. ASSUME NEW p \in Users, NEW s \in ServiceIds, deleteService(r, u, p, s)
      PROVE  IInv'
  BY <1>7, InvServiceCall DEF deleteService
<1>8. ASSUME NEW t \in Tenants, setupTenant(r, u, t) PROVE IInv'
  BY <1>8, InvSetupTenant
<1> QED
  BY <1>1, <1>2, <1>3, <1>4, <1>5, <1>6, <1>7, <1>8 DEF Route

-----------------------------------------------------------------------------
(* The lookups.                                                            *)

\* A lookup that fails ends the request; one that finds lets it go on.
LEMMA InvProceed ==
    ASSUME IInv, NEW r \in Requests, NEW found, NEW next,
           Proceed(r, found, next),
           found => /\ [req[r] EXCEPT !.pc = next] \in Request
                    /\ RequestSound([req[r] EXCEPT !.pc = next])
    PROVE  IInv'
<1>1. CASE found /\ req' = [req EXCEPT ![r].pc = next]
  <2>1. req' = [req EXCEPT ![r] = [req[r] EXCEPT !.pc = next]]
    BY <1>1 DEF IInv, TypeOK
  <2> QED
    BY <1>1, <2>1, OwnStep DEF Proceed
<1>2. CASE Goto(r, Idle)
  BY <1>2, IdleSound, OwnStep DEF Proceed, Goto
<1> QED
  BY <1>1, <1>2 DEF Proceed

\* The label and the call of a request say which of the kinds it is.
LEMMA RequestKinds ==
    ASSUME NEW q \in Request
    PROVE  /\ q.pc = "profile" => q \in ProfileRequest
           /\ q.pc \in {"service", "category"} => q \in ServiceRequest
           /\ q.pc = "write" =>
                 /\ q.call \in {"createCategory", "updateCategory"}
                       => q \in NamingRequest
                 /\ q.call = "deleteCategory" => q \in DroppingRequest
                 /\ q.call = "createProfile" => q \in ProfileRequest
                 /\ q.call \in {"createService", "updateService",
                                "deleteService"} => q \in ServiceRequest
                 /\ q.call = "setupTenant" => q \in SetupRequest
BY DEF Request, Idle, NamingRequest, DroppingRequest, ServiceRequest,
       ProfileRequest, SetupRequest

\* A request of the provider routes in a later place.
LEMMA LaterService ==
    ASSUME NEW STATE q, q \in ServiceRequest, NEW pc \in {"category", "write"},
           profiles[q.provider] = q.tenant,
           q.call # "createService" =>
              /\ q.service \in ServiceIds
              /\ \/ services[q.service] = Deleted
                 \/ /\ q.service \in Services
                    /\ services[q.service].provider = q.provider,
           pc = "write" /\ q.category # None => Checked(q.category, q.tenant)
    PROVE  /\ [q EXCEPT !.pc = pc] \in Request
           /\ RequestSound([q EXCEPT !.pc = pc])
<1> DEFINE n == [q EXCEPT !.pc = pc]
<1>1. /\ n \in ServiceRequest /\ n.pc = pc /\ n.call = q.call
      /\ n.provider = q.provider /\ n.tenant = q.tenant
      /\ n.service = q.service /\ n.category = q.category
  BY DEF ServiceRequest
<1> HIDE DEF n
<1>2. n \in Request /\ RequestSound(n)
  BY <1>1 DEF Request, RequestSound, NamerSound, DropperSound, ServiceSound,
     ProfileSound, DroppingRequest, NamingRequest, ServiceRequest,
     ProfileRequest
<1> QED
  BY <1>2 DEF n

LEMMA InvLookup ==
    ASSUME IInv, NEW r \in Requests, Lookup(r)
    PROVE  IInv'
<1> DEFINE q == req[r]
<1>1. q \in Request /\ RequestSound(q)
  BY DEF IInv, TypeOK, RequestsSound
<1>2. CASE FindProfile(r)
  <2>1. q \in ProfileRequest
    BY <1>1, <1>2, RequestKinds DEF FindProfile
  <2> DEFINE n == [q EXCEPT !.pc = "write"]
  <2>2. n \in ProfileRequest /\ n.provider = q.provider /\ n.tenant = q.tenant
    BY <2>1 DEF ProfileRequest
  <2> HIDE DEF n
  <2>3. n \in Request /\ RequestSound(n)
    BY <1>1, <2>1, <2>2 DEF Request, RequestSound, NamerSound, DropperSound,
       ServiceSound, ProfileSound, DroppingRequest, NamingRequest,
       ServiceRequest, ProfileRequest
  <2> QED
    BY <1>2, <2>3, InvProceed DEF FindProfile, n
<1>3. CASE FindService(r)
  <2>1. q \in ServiceRequest /\ profiles[q.provider] = q.tenant
    BY <1>1, <1>3, RequestKinds DEF FindService, RequestSound, ServiceSound
  <2> DEFINE found == /\ q.service \in Services
                      /\ services[q.service].provider = q.provider
             next == IF q.category = None THEN "write" ELSE "category"
  <2>2. found => /\ [q EXCEPT !.pc = next] \in Request
                 /\ RequestSound([q EXCEPT !.pc = next])
    <3>1. found => q.service \in ServiceIds
      BY DEF Services
    <3> QED
      BY <2>1, <3>1, LaterService
  <2>3. Proceed(r, found, next)
    BY <1>3 DEF FindService
  <2> HIDE DEF found, next
  <2> QED
    BY <2>2, <2>3, InvProceed
<1>4. CASE FindCategory(r)
  <2>1. q \in ServiceRequest /\ q.pc = "category" /\ ServiceSound(q)
    BY <1>1, <1>4, RequestKinds DEF FindCategory, RequestSound
  <2>2. q.category \in CategoriesOf(q.tenant) =>
            /\ [q EXCEPT !.pc = "write"] \in Request
            /\ RequestSound([q EXCEPT !.pc = "write"])
    BY <2>1, LaterService DEF ServiceSound, Checked
  <2> QED
    BY <1>4, <2>2, InvProceed DEF FindCategory
<1> QED
  BY <1>2, <1>3, <1>4 DEF Lookup

-----------------------------------------------------------------------------
(* The writes.                                                             *)

\* A write that keeps what there was about categories, services and profiles,
\* and ends its request, keeps what the other requests rely on.
LEMMA RequestsKept ==
    ASSUME IInv, NEW r \in Requests, req' = [req EXCEPT ![r] = Idle],
           UNCHANGED <<users, late>>,
           NamesKept, CategoriesKept, ServicesKept, ProfilesKept
    PROVE  RequestsSound' /\ req' \in [Requests -> Request]
<1>1. req \in [Requests -> Request] /\ None \notin Tenants
  BY CatalogAssumption DEF IInv, TypeOK
<1>2. ASSUME NEW o \in Requests PROVE RequestSound(req[o])'
  <2>1. CASE o = r
    <3>1. req'[o] = Idle
      BY <1>1, <2>1
    <3> QED
      BY <3>1, IdleSound DEF RequestSound, NamerSound, DropperSound,
         ServiceSound, ProfileSound
  <2>2. CASE o # r
    <3>1. req'[o] = req[o] /\ req[o] \in Request /\ RequestSound(req[o])
      BY <1>1, <2>2 DEF IInv, RequestsSound
    <3>2. \A q \in Request : RequestSound(q) => RequestSound(q)'
      BY <1>1, KeptRequest
    <3> QED
      BY <3>1, <3>2 DEF RequestSound, NamerSound, DropperSound, ServiceSound,
         ProfileSound, Checked, CategoriesOf
  <2> QED
    BY <2>1, <2>2
<1> QED
  BY <1>1, <1>2, IdleSound DEF RequestsSound

\* No row is one of the two marks.
LEMMA RowsAreRows ==
    /\ \A row \in CategoryRow : row # Unused /\ row # Deleted
    /\ \A row \in ServiceRow : row # Unused /\ row # Deleted
    /\ None \notin Tenants /\ None \notin CategoryIds /\ Unused # Deleted
BY CatalogAssumption

\* The rows of the tables, by what TypeOK says of them.
LEMMA RowTypes ==
    ASSUME TypeOK
    PROVE  /\ \A c \in Categories : c \in CategoryIds /\ categories[c] \in CategoryRow
           /\ \A s \in Services : s \in ServiceIds /\ services[s] \in ServiceRow
BY DEF TypeOK, Categories, Services

LEMMA InvInsertCategory ==
    ASSUME IInv, NEW r \in Requests, NEW c \in CategoryIds, InsertCategory(r, c)
    PROVE  IInv'
<1> DEFINE q   == req[r]
           row == [tenant |-> q.tenant, name |-> q.name, seen |-> q.seen]
<1>1. q \in NamingRequest /\ NamerSound(q)
  BY RequestKinds DEF InsertCategory, Writes, IInv, TypeOK, RequestsSound,
                      RequestSound
<1>2. row \in CategoryRow /\ row # Unused /\ row # Deleted
  BY <1>1, RowsAreRows DEF NamingRequest, CategoryRow
<1>3. /\ categories' = [categories EXCEPT ![c] = row]
      /\ categories[c] = Unused
      /\ req' = [req EXCEPT ![r] = Idle]
      /\ UNCHANGED <<users, profiles, services, opened, late>>
  BY DEF InsertCategory, Goto
<1>4. /\ categories'[c] = row
      /\ \A d \in CategoryIds \ {c} : categories'[d] = categories[d]
  BY <1>3 DEF IInv, TypeOK
<1>5. /\ Categories' = Categories \cup {c} /\ c \notin Categories
      /\ Services' = Services
  BY <1>2, <1>3, <1>4 DEF Categories, Services
<1>6. NamesKept /\ CategoriesKept /\ ServicesKept /\ ProfilesKept
  BY <1>3, <1>4, <1>5, RowsAreRows DEF NamesKept, CategoriesKept, ServicesKept,
     ProfilesKept, Categories
<1>7. RequestsSound' /\ req' \in [Requests -> Request]
  BY <1>3, <1>6, RequestsKept
<1>8. TypeOK'
  BY <1>2, <1>3, <1>7 DEF IInv, TypeOK
<1>9. NamesSound'
  <2> SUFFICES ASSUME NEW e \in Categories', NEW d \in categories'[e].seen \ {e}
               PROVE  /\ categories'[d] # Unused
                      /\ /\ d \in Categories'
                         /\ categories'[d].tenant = categories'[e].tenant
                         /\ categories'[e].name # Empty
                         => categories'[d].name \notin Within[categories'[e].name]
    BY DEF NamesSound
  <2>1. CASE e = c
    <3>1. d \in q.seen /\ d \in CategoryIds /\ d # c
      BY <1>1, <1>4, <2>1 DEF NamingRequest
    <3>2. categories'[d] = categories[d] /\ categories[d] # Unused
      BY <1>1, <1>4, <3>1 DEF NamerSound
    <3>3. d \in Categories' => d \in Categories
      BY <1>5, <3>1
    <3> QED
      BY <1>1, <1>4, <2>1, <3>1, <3>2, <3>3 DEF NamerSound, CategoriesOf
  <2>2. CASE e # c
    <3>1. e \in Categories /\ categories'[e] = categories[e]
      BY <1>4, <1>5, <2>2, RowTypes DEF IInv
    <3>2. d \in categories[e].seen \ {e} /\ d \in CategoryIds /\ categories[d] # Unused
      BY <3>1, RowTypes DEF IInv, NamesSound, CategoryRow
    <3>3. d # c /\ categories'[d] = categories[d]
      BY <1>3, <1>4, <3>2
    <3>4. d \in Categories' => d \in Categories
      BY <1>5, <3>3
    <3> QED
      BY <3>1, <3>2, <3>3, <3>4 DEF IInv, NamesSound
  <2> QED
    BY <2>1, <2>2
<1>10. ServicesSound'
  BY <1>3, <1>4, <1>5, RowTypes DEF IInv, ServicesSound
<1>11. StrayOnlyByLateJoin'
  BY <1>3 DEF IInv, StrayOnlyByLateJoin
<1> QED
  BY <1>7, <1>8, <1>9, <1>10, <1>11 DEF IInv

\* Rows of categories that go, or stay as they are, keep NamesSound.
LEMMA NamesOfKept ==
    ASSUME TypeOK, NamesSound, NamesKept,
           \A c \in Categories' : categories'[c] = categories[c]
    PROVE  NamesSound'
<1> SUFFICES ASSUME NEW e \in Categories', NEW d \in categories'[e].seen \ {e}
             PROVE  /\ categories'[d] # Unused
                    /\ /\ d \in Categories'
                       /\ categories'[d].tenant = categories'[e].tenant
                       /\ categories'[e].name # Empty
                       => categories'[d].name \notin Within[categories'[e].name]
  BY DEF NamesSound
<1>1. e \in CategoryIds /\ categories'[e] = categories[e]
  BY DEF Categories
<1>2. e \in Categories
  BY <1>1 DEF Categories
<1>3. d \in categories[e].seen \ {e} /\ d \in CategoryIds /\ categories[d] # Unused
  BY <1>1, <1>2, RowTypes DEF NamesSound, CategoryRow
<1>4. d \in Categories' => d \in Categories /\ categories'[d] = categories[d]
  BY <1>3 DEF NamesKept
<1> QED
  BY <1>1, <1>2, <1>3, <1>4 DEF NamesSound, NamesKept

LEMMA InvDropCategory ==
    ASSUME IInv, NEW r \in Requests, DropCategory(r)
    PROVE  IInv'
<1> DEFINE c == req[r].category
<1>1. c \in CategoryIds /\ c \in Categories
  BY DEF DropCategory, Categories
<1>2. /\ categories' = [categories EXCEPT ![c] = Deleted]
      /\ req' = [req EXCEPT ![r] = Idle]
      /\ UNCHANGED <<users, profiles, opened, late>>
  BY DEF DropCategory, Goto
<1>3. /\ categories'[c] = Deleted
      /\ \A d \in CategoryIds \ {c} : categories'[d] = categories[d]
      /\ Categories' = Categories \ {c}
  BY <1>1, <1>2 DEF IInv, TypeOK, Categories
<1>4. \A s \in ServiceIds :
         services'[s] = IF s \in Services /\ services[s].category = c
                        THEN [services[s] EXCEPT !.category = None]
                        ELSE services[s]
  BY DEF DropCategory
<1>5. \A s \in Services :
         /\ services'[s] \in ServiceRow
         /\ services'[s].provider = services[s].provider
         /\ services'[s].category =
               IF services[s].category = c THEN None ELSE services[s].category
  BY <1>4, RowTypes DEF IInv, ServiceRow
<1>6. Services' = Services
  BY <1>4, <1>5, RowsAreRows DEF Services
<1>7. NamesKept /\ CategoriesKept /\ ServicesKept /\ ProfilesKept
  BY <1>1, <1>2, <1>3, <1>4, <1>5, <1>6, RowsAreRows DEF NamesKept,
     CategoriesKept, ServicesKept, ProfilesKept, Categories, Services
<1>8. RequestsSound' /\ req' \in [Requests -> Request]
  BY <1>2, <1>7, RequestsKept
<1>9. TypeOK'
  <2>1. \A s \in ServiceIds : services'[s] \in ServiceRow \cup {Unused, Deleted}
    BY <1>4, <1>5 DEF IInv, TypeOK
  <2>2. services' \in [ServiceIds -> ServiceRow \cup {Unused, Deleted}]
    BY <2>1 DEF DropCategory
  <2> QED
    BY <1>2, <1>8, <2>2 DEF IInv, TypeOK
<1>10. NamesSound'
  BY <1>3, <1>7, NamesOfKept, RowTypes DEF IInv
<1>11. ServicesSound'
  <2> SUFFICES ASSUME NEW s \in Services
               PROVE  /\ profiles'[services'[s].provider] # None
                      /\ services'[s].category # None =>
                            /\ services'[s].category \in Categories'
                            /\ categories'[services'[s].category].tenant
                               = profiles'[services'[s].provider]
    BY <1>6 DEF ServicesSound
  <2> DEFINE k == services[s].category
  <2>1. /\ profiles[services[s].provider] # None
        /\ k # None => /\ k \in Categories
                       /\ categories[k].tenant = profiles[services[s].provider]
    BY DEF IInv, ServicesSound
  <2>2. k \in Categories /\ k # c =>
           k \in Categories' /\ categories'[k] = categories[k]
    BY <1>3, RowTypes DEF IInv
  <2> QED
    BY <1>2, <1>5, <2>1, <2>2
<1>12. StrayOnlyByLateJoin'
  BY <1>2 DEF IInv, StrayOnlyByLateJoin
<1> QED
  BY <1>8, <1>9, <1>10, <1>11, <1>12 DEF IInv

\* The rename: the other rows and requests no longer count the category among
\* those they have seen.
LEMMA InvRenameCategory ==
    ASSUME IInv, NEW r \in Requests, RenameCategory(r)
    PROVE  IInv'
<1> DEFINE q   == req[r]
           c   == q.category
           row == [tenant |-> q.tenant, name |-> q.name, seen |-> q.seen]
<1>1. q \in NamingRequest /\ NamerSound(q)
  BY RequestKinds DEF RenameCategory, Writes, IInv, TypeOK, RequestsSound,
                      RequestSound
<1>2. /\ c \in CategoryIds /\ c \in Categories
      /\ categories[c].tenant = q.tenant /\ categories[c] \in CategoryRow
  BY RowTypes DEF RenameCategory, CategoriesOf, IInv
<1>3. row \in CategoryRow /\ row # Unused /\ row # Deleted
  BY <1>1, RowsAreRows DEF NamingRequest, CategoryRow
<1>4. /\ \A d \in CategoryIds : categories'[d] =
            IF d = c THEN row
            ELSE IF d \in Categories
                 THEN [categories[d] EXCEPT !.seen = @ \ {c}]
                 ELSE categories[d]
      /\ req' = [Forget(c) EXCEPT ![r] = Idle]
      /\ UNCHANGED <<users, profiles, services, opened, late>>
  BY DEF RenameCategory
<1>5. \A d \in Categories \ {c} :
         /\ categories'[d] \in CategoryRow
         /\ categories'[d].tenant = categories[d].tenant
         /\ categories'[d].name = categories[d].name
         /\ categories'[d].seen = categories[d].seen \ {c}
  BY <1>4, RowTypes DEF IInv, CategoryRow
<1>6. categories'[c] = row
  BY <1>2, <1>4
<1>7. Categories' = Categories /\ Services' = Services
  <2>1. ASSUME NEW d \in CategoryIds
        PROVE  categories'[d] \notin {Unused, Deleted}
               <=> categories[d] \notin {Unused, Deleted}
    <3>1. CASE d = c
      BY <1>2, <1>3, <1>6, <3>1, RowsAreRows
    <3>2. CASE d \in Categories \ {c}
      BY <1>5, <3>2, RowsAreRows DEF Categories
    <3>3. CASE d \notin Categories /\ d # c
      BY <1>4, <3>3
    <3> QED
      BY <3>1, <3>2, <3>3
  <2> QED
    BY <1>4, <2>1 DEF Categories, Services
<1>8. CategoriesKept /\ ServicesKept /\ ProfilesKept
  <2>1. CategoriesKept
    <3> SUFFICES ASSUME NEW d \in CategoryIds
                 PROVE  /\ categories[d] = Deleted => categories'[d] = Deleted
                        /\ d \in Categories =>
                              /\ d \in Categories'
                              /\ categories'[d].tenant = categories[d].tenant
      BY DEF CategoriesKept
    <3>1. d \in Categories =>
             d \in Categories' /\ categories'[d].tenant = categories[d].tenant
      BY <1>2, <1>5, <1>6, <1>7
    <3>2. categories[d] = Deleted => d \notin Categories /\ d # c
      BY <1>2, RowsAreRows DEF Categories
    <3> QED
      BY <1>4, <3>1, <3>2
  <2> QED
    BY <1>4, <1>7, <2>1 DEF ServicesKept, ProfilesKept
<1>9. \A d \in CategoryIds : categories[d] # Unused => categories'[d] # Unused
  BY <1>3, <1>4, <1>5, <1>6, RowsAreRows
<1>10. req'[r] = Idle
       /\ \A o \in Requests \ {r} :
             req'[o] = IF req[o] \in NamingRequest
                       THEN [req[o] EXCEPT !.seen = @ \ {c}] ELSE req[o]
  BY <1>4 DEF Forget
<1>11. ASSUME NEW o \in Requests \ {r}
       PROVE  req'[o] \in Request /\ RequestSound(req[o])'
  <2>1. req[o] \in Request /\ RequestSound(req[o])
    BY DEF IInv, TypeOK, RequestsSound
  <2>2. CASE req[o] \in NamingRequest
    <3>1. /\ req'[o] \in NamingRequest /\ req'[o].tenant = req[o].tenant
          /\ req'[o].name = req[o].name /\ req'[o].seen = req[o].seen \ {c}
      <4>1. req'[o] = [req[o] EXCEPT !.seen = @ \ {c}]
        BY <1>10, <2>2
      <4> QED
        BY <2>2, <4>1 DEF NamingRequest
    <3>2. ASSUME NEW d \in req'[o].seen
          PROVE  /\ categories'[d] # Unused
                 /\ /\ d \in Categories'
                    /\ categories'[d].tenant = req'[o].tenant
                    /\ req'[o].name # Empty
                    => categories'[d].name \notin Within[req'[o].name]
      <4>1. d \in req[o].seen /\ d # c /\ d \in CategoryIds
        BY <2>2, <3>1 DEF NamingRequest
      <4>2. /\ categories[d] # Unused
            /\ /\ d \in Categories
               /\ categories[d].tenant = req[o].tenant
               /\ req[o].name # Empty
               => categories[d].name \notin Within[req[o].name]
        BY <2>1, <2>2, <4>1 DEF RequestSound, NamerSound, CategoriesOf
      <4> QED
        BY <1>5, <1>7, <1>9, <3>1, <4>1, <4>2
    <3>3. NamerSound(req[o])'
      BY <3>2 DEF NamerSound, CategoriesOf
    <3> QED
      BY <3>1, <3>3 DEF RequestSound, DropperSound, ServiceSound, ProfileSound,
         NamingRequest, DroppingRequest, ServiceRequest, ProfileRequest, Request
  <2>3. CASE req[o] \notin NamingRequest
    <3>1. req'[o] = req[o]
      BY <1>10, <2>3
    <3>2. \A x \in Request : /\ DropperSound(x) => DropperSound(x)'
                             /\ ServiceSound(x) => ServiceSound(x)'
      BY <1>8, KeptOthers, RowsAreRows
    <3>3. DropperSound(req[o])' /\ ServiceSound(req[o])'
      BY <2>1, <3>1, <3>2 DEF RequestSound, DropperSound, ServiceSound, Checked,
         CategoriesOf
    <3>4. NamerSound(req[o])' /\ ProfileSound(req[o])'
      BY <1>4, <2>1, <2>3, <3>1 DEF RequestSound, NamerSound, ProfileSound
    <3> QED
      BY <2>1, <3>1, <3>3, <3>4 DEF RequestSound
  <2> QED
    BY <2>2, <2>3
<1>12. RequestsSound'
  <2>1. RequestSound(req[r])'
    BY <1>10 DEF RequestSound, NamerSound, DropperSound, ServiceSound,
       ProfileSound, Idle, NamingRequest, DroppingRequest, ServiceRequest,
       ProfileRequest
  <2> QED
    BY <1>11, <2>1 DEF RequestsSound
<1>13. TypeOK'
  <2>1. \A o \in Requests : req'[o] \in Request
    BY <1>10, <1>11, IdleSound
  <2>2. req' \in [Requests -> Request]
    BY <1>4, <2>1 DEF Forget
  <2>3. \A d \in CategoryIds :
           categories'[d] \in CategoryRow \cup {Unused, Deleted}
    BY <1>3, <1>4, <1>5, <1>6 DEF IInv, TypeOK
  <2>4. categories' \in [CategoryIds -> CategoryRow \cup {Unused, Deleted}]
    BY <2>3 DEF RenameCategory
  <2> QED
    BY <1>4, <2>2, <2>4 DEF IInv, TypeOK
<1>14. NamesSound'
  <2> SUFFICES ASSUME NEW e \in Categories', NEW d \in categories'[e].seen \ {e}
               PROVE  /\ categories'[d] # Unused
                      /\ /\ d \in Categories'
                         /\ categories'[d].tenant = categories'[e].tenant
                         /\ categories'[e].name # Empty
                         => categories'[d].name \notin Within[categories'[e].name]
    BY DEF NamesSound
  <2>1. CASE e = c
    <3>1. d \in q.seen /\ d \in CategoryIds /\ d # c
      BY <1>1, <1>6, <2>1 DEF NamingRequest
    <3>2. /\ categories[d] # Unused
          /\ /\ d \in Categories
             /\ categories[d].tenant = q.tenant
             /\ q.name # Empty
             => categories[d].name \notin Within[q.name]
      BY <1>1, <3>1 DEF NamerSound, CategoriesOf
    <3> QED
      BY <1>5, <1>6, <1>7, <1>9, <2>1, <3>1, <3>2
  <2>2. CASE e # c
    <3>1. e \in Categories \ {c} /\ d \in categories[e].seen \ {e} /\ d # c
      BY <1>5, <1>7, <2>2
    <3>2. d \in CategoryIds
      BY <3>1, RowTypes DEF IInv, CategoryRow
    <3> QED
      BY <1>5, <1>7, <1>9, <3>1, <3>2 DEF IInv, NamesSound
  <2> QED
    BY <2>1, <2>2
<1>15. ServicesSound'
  <2>1. \A k \in Categories : categories'[k].tenant = categories[k].tenant
    BY <1>2, <1>5, <1>6
  <2> QED
    BY <1>4, <1>7, <2>1 DEF IInv, ServicesSound
<1>16. StrayOnlyByLateJoin'
  BY <1>4 DEF IInv, StrayOnlyByLateJoin
<1> QED
  BY <1>12, <1>13, <1>14, <1>15, <1>16 DEF IInv

\* Categories and names as they are.
LEMMA SameCategories ==
    ASSUME IInv, UNCHANGED categories
    PROVE  NamesKept /\ CategoriesKept /\ NamesSound' /\ Categories' = Categories
<1>1. Categories' = Categories
  BY DEF Categories
<1>2. NamesKept /\ CategoriesKept
  BY <1>1 DEF NamesKept, CategoriesKept, Categories
<1> QED
  BY <1>1, <1>2 DEF IInv, NamesSound

LEMMA InvInsertProfile ==
    ASSUME IInv, NEW r \in Requests, InsertProfile(r)
    PROVE  IInv'
<1> DEFINE q == req[r]
           p == q.provider
<1>1. /\ q \in ProfileRequest /\ ProfileSound(q)
      /\ p \in Users /\ q.tenant \in Tenants
  BY RequestKinds DEF InsertProfile, Writes, IInv, TypeOK, RequestsSound,
                      RequestSound, ProfileRequest
<1>2. /\ profiles' = [profiles EXCEPT ![p] = q.tenant]
      /\ profiles[p] = None
      /\ req' = [req EXCEPT ![r] = Idle]
      /\ UNCHANGED <<users, categories, services, opened, late>>
  BY DEF InsertProfile, Goto
<1>3. /\ profiles'[p] = q.tenant
      /\ \A u \in Users \ {p} : profiles'[u] = profiles[u]
  BY <1>1, <1>2 DEF IInv, TypeOK
<1>4. Services' = Services
  BY <1>2 DEF Services
<1>5. NamesKept /\ CategoriesKept /\ NamesSound' /\ Categories' = Categories
  BY <1>2, SameCategories
<1>6. ServicesKept /\ ProfilesKept
  BY <1>2, <1>3, <1>4 DEF ServicesKept, ProfilesKept, Services
<1>7. RequestsSound' /\ req' \in [Requests -> Request]
  BY <1>2, <1>5, <1>6, RequestsKept
<1>8. TypeOK'
  BY <1>1, <1>2, <1>7 DEF IInv, TypeOK
<1>9. ServicesSound'
  <2>1. \A s \in Services : /\ services[s].provider \in Users
                            /\ profiles[services[s].provider] # None
    BY RowTypes DEF IInv, ServicesSound, ServiceRow
  <2> QED
    BY <1>2, <1>3, <1>4, <1>5, <2>1 DEF IInv, ServicesSound
<1>10. StrayOnlyByLateJoin'
  BY <1>1, <1>2, <1>3 DEF IInv, StrayOnlyByLateJoin, ProfileSound
<1> QED
  BY <1>5, <1>7, <1>8, <1>9, <1>10 DEF IInv

LEMMA InvInsertService ==
    ASSUME IInv, NEW r \in Requests, NEW s \in ServiceIds, InsertService(r, s)
    PROVE  IInv'
<1> DEFINE q   == req[r]
           row == [provider |-> q.provider, category |-> q.category]
<1>1. /\ q \in ServiceRequest /\ ServiceSound(q) /\ q.pc = "write"
      /\ q.provider \in Users /\ q.tenant \in Tenants
      /\ q.category \in CategoryIds \cup {None}
  BY RequestKinds DEF InsertService, Writes, IInv, TypeOK, RequestsSound,
                      RequestSound, ServiceRequest
<1>2. row \in ServiceRow /\ row # Unused /\ row # Deleted
  BY <1>1, RowsAreRows DEF ServiceRow
<1>3. /\ services' = [services EXCEPT ![s] = row]
      /\ services[s] = Unused
      /\ req' = [req EXCEPT ![r] = Idle]
      /\ UNCHANGED <<users, profiles, categories, opened, late>>
      /\ CategoryStands(q.category)
  BY DEF InsertService, Goto
<1>4. /\ services'[s] = row
      /\ \A x \in ServiceIds \ {s} : services'[x] = services[x]
      /\ Services' = Services \cup {s} /\ s \notin Services
  BY <1>2, <1>3 DEF IInv, TypeOK, Services
<1>5. NamesKept /\ CategoriesKept /\ NamesSound' /\ Categories' = Categories
  BY <1>3, SameCategories
<1>6. ServicesKept /\ ProfilesKept
  BY <1>3, <1>4, RowsAreRows DEF ServicesKept, ProfilesKept, Services
<1>7. RequestsSound' /\ req' \in [Requests -> Request]
  BY <1>3, <1>5, <1>6, RequestsKept
<1>8. TypeOK'
  BY <1>2, <1>3, <1>7 DEF IInv, TypeOK
<1>9. ServicesSound'
  <2>1. /\ profiles[q.provider] = q.tenant /\ q.tenant # None
        /\ q.category # None => /\ q.category \in Categories
                                /\ categories[q.category].tenant = q.tenant
    BY <1>1, <1>3, RowsAreRows DEF ServiceSound, Checked, CategoryStands,
       CategoriesOf, Categories
  <2> QED
    BY <1>3, <1>4, <1>5, <2>1, RowTypes DEF IInv, ServicesSound
<1>10. StrayOnlyByLateJoin'
  BY <1>3 DEF IInv, StrayOnlyByLateJoin
<1> QED
  BY <1>5, <1>7, <1>8, <1>9, <1>10 DEF IInv

\* The service a request is about to change is of the provider it named.
LEMMA OwnService ==
    ASSUME IInv, NEW r \in Requests,
           Writes(r, "updateService") \/ Writes(r, "deleteService"),
           req[r].service \in Services
    PROVE  LET q == req[r] IN
           /\ q \in ServiceRequest
           /\ q.service \in ServiceIds
           /\ services[q.service].provider = q.provider
           /\ profiles[q.provider] = q.tenant
<1>1. req[r] \in Request /\ RequestSound(req[r])
  BY DEF IInv, TypeOK, RequestsSound
<1>2. req[r] \in ServiceRequest /\ ServiceSound(req[r])
  BY <1>1, RequestKinds DEF Writes, RequestSound
<1> QED
  BY <1>2 DEF ServiceSound, Writes, Services

LEMMA InvSetCategory ==
    ASSUME IInv, NEW r \in Requests, SetCategory(r)
    PROVE  IInv'
<1> DEFINE q == req[r]
           s == q.service
<1>1. /\ q \in ServiceRequest /\ ServiceSound(q) /\ q.pc = "write"
      /\ q.tenant \in Tenants /\ q.category \in CategoryIds \cup {None}
  BY RequestKinds DEF SetCategory, Writes, IInv, TypeOK, RequestsSound,
                      RequestSound, ServiceRequest
<1>2. /\ s \in Services /\ s \in ServiceIds /\ services[s] \in ServiceRow
      /\ services[s].provider = q.provider /\ profiles[q.provider] = q.tenant
  BY OwnService, RowTypes DEF SetCategory, IInv
<1>3. /\ services' = [services EXCEPT ![s].category = q.category]
      /\ req' = [req EXCEPT ![r] = Idle]
      /\ UNCHANGED <<users, profiles, categories, opened, late>>
      /\ CategoryStands(q.category)
  BY DEF SetCategory, Goto
<1>4. /\ services'[s] = [services[s] EXCEPT !.category = q.category]
      /\ \A x \in ServiceIds \ {s} : services'[x] = services[x]
  BY <1>2, <1>3 DEF IInv, TypeOK
<1>5. /\ services'[s] \in ServiceRow /\ services'[s].category = q.category
      /\ services'[s].provider = q.provider
  BY <1>1, <1>2, <1>4 DEF ServiceRow
<1>6. Services' = Services
  <2>1. services'[s] \notin {Unused, Deleted}
    BY <1>5, RowsAreRows
  <2> QED
    BY <1>2, <1>4, <2>1 DEF Services
<1>7. NamesKept /\ CategoriesKept /\ NamesSound' /\ Categories' = Categories
  BY <1>3, SameCategories
<1>8. ServicesKept /\ ProfilesKept
  <2>1. ServicesKept
    <3> SUFFICES ASSUME NEW x \in ServiceIds
                 PROVE  /\ services[x] = Deleted => services'[x] = Deleted
                        /\ x \in Services =>
                              /\ x \in Services'
                              /\ services'[x].provider = services[x].provider
      BY DEF ServicesKept
    <3>1. CASE x = s
      BY <1>2, <1>5, <1>6, <3>1, RowsAreRows
    <3>2. CASE x # s
      BY <1>4, <1>6, <3>2
    <3> QED
      BY <3>1, <3>2
  <2> QED
    BY <1>3, <2>1 DEF ProfilesKept
<1>9. RequestsSound' /\ req' \in [Requests -> Request]
  BY <1>3, <1>7, <1>8, RequestsKept
<1>10. TypeOK'
  <2>1. services' \in [ServiceIds -> ServiceRow \cup {Unused, Deleted}]
    BY <1>2, <1>3, <1>4, <1>5 DEF IInv, TypeOK
  <2> QED
    BY <1>3, <1>9, <2>1 DEF IInv, TypeOK
<1>11. ServicesSound'
  <2>1. /\ q.tenant # None
        /\ q.category # None => /\ q.category \in Categories
                                /\ categories[q.category].tenant = q.tenant
    BY <1>1, <1>3, RowsAreRows DEF ServiceSound, Checked, CategoryStands,
       CategoriesOf, Categories
  <2>2. \A x \in Services \ {s} : services'[x] = services[x]
    BY <1>4, RowTypes DEF IInv
  <2> QED
    BY <1>2, <1>3, <1>5, <1>6, <1>7, <2>1, <2>2 DEF IInv, ServicesSound
<1>12. StrayOnlyByLateJoin'
  BY <1>3 DEF IInv, StrayOnlyByLateJoin
<1> QED
  BY <1>7, <1>9, <1>10, <1>11, <1>12 DEF IInv

LEMMA InvDropService ==
    ASSUME IInv, NEW r \in Requests, DropService(r)
    PROVE  IInv'
<1> DEFINE s == req[r].service
<1>1. /\ s \in Services /\ s \in ServiceIds
      /\ services' = [services EXCEPT ![s] = Deleted]
      /\ req' = [req EXCEPT ![r] = Idle]
      /\ UNCHANGED <<users, profiles, categories, opened, late>>
  BY DEF DropService, Goto, Services
<1>2. /\ services'[s] = Deleted
      /\ \A x \in ServiceIds \ {s} : services'[x] = services[x]
      /\ Services' = Services \ {s}
  BY <1>1 DEF IInv, TypeOK, Services
<1>3. NamesKept /\ CategoriesKept /\ NamesSound' /\ Categories' = Categories
  BY <1>1, SameCategories
<1>4. ServicesKept /\ ProfilesKept
  BY <1>1, <1>2 DEF ServicesKept, ProfilesKept, Services
<1>5. RequestsSound' /\ req' \in [Requests -> Request]
  BY <1>1, <1>3, <1>4, RequestsKept
<1>6. TypeOK'
  BY <1>1, <1>5 DEF IInv, TypeOK
<1>7. ServicesSound'
  BY <1>1, <1>2, <1>3, RowTypes DEF IInv, ServicesSound
<1>8. StrayOnlyByLateJoin'
  BY <1>1 DEF IInv, StrayOnlyByLateJoin
<1> QED
  BY <1>3, <1>5, <1>6, <1>7, <1>8 DEF IInv

\* A user who founds a tenant becomes late if there is a profile, or a request
\* that is making one.
LEMMA InvJoin ==
    ASSUME IInv, NEW r \in Requests, Join(r)
    PROVE  IInv'
<1> DEFINE q == req[r]
           u == q.user
<1>1. u \in Users /\ q.tenant \in Tenants /\ q \in SetupRequest
  BY RequestKinds DEF Join, Writes, IInv, TypeOK, SetupRequest
<1>2. /\ users' = [users EXCEPT ![u] = [tenant |-> q.tenant, role |-> "ADMIN"]]
      /\ late' = IF profiles[u] # None \/ Providing(u) # {} THEN late \cup {u}
                                                            ELSE late
      /\ req' = [req EXCEPT ![r] = Idle]
      /\ UNCHANGED <<profiles, categories, services, opened>>
  BY DEF Join, Goto
<1>3. /\ \A x \in Users \ {u} : users'[x] = users[x]
      /\ late \subseteq late'
      /\ u \notin late' => profiles[u] = None /\ Providing(u) = {}
  BY <1>2 DEF IInv, TypeOK
<1>4. /\ req'[r] = Idle
      /\ \A o \in Requests \ {r} : req'[o] = req[o]
  BY <1>2 DEF IInv, TypeOK
<1>5. Categories' = Categories /\ Services' = Services
  BY <1>2 DEF Categories, Services
<1>6. TypeOK'
  <2>1. [tenant |-> q.tenant, role |-> "ADMIN"] \in UserRow
    BY <1>1 DEF UserRow, UserRole
  <2> QED
    BY <1>1, <1>2, <2>1, IdleSound DEF IInv, TypeOK
<1>7. RequestsSound'
  <2> SUFFICES ASSUME NEW o \in Requests PROVE RequestSound(req[o])'
    BY DEF RequestsSound
  <2>1. CASE o = r
    BY <1>4, <2>1 DEF RequestSound, NamerSound, DropperSound, ServiceSound,
       ProfileSound, Idle, NamingRequest, DroppingRequest, ServiceRequest,
       ProfileRequest
  <2>2. CASE o # r
    <3>1. req'[o] = req[o] /\ RequestSound(req[o])
      BY <1>4, <2>2 DEF IInv, RequestsSound
    <3>2. NamerSound(req[o])' /\ DropperSound(req[o])' /\ ServiceSound(req[o])'
      BY <1>2, <1>5, <3>1 DEF RequestSound, NamerSound, DropperSound,
         ServiceSound, Checked, CategoriesOf
    <3>3. ProfileSound(req[o])'
      <4> SUFFICES ASSUME req[o] \in ProfileRequest, req[o].provider \notin late'
                   PROVE  users'[req[o].provider].tenant \in {req[o].tenant, None}
        BY <3>1 DEF ProfileSound
      <4>1. req[o].provider # u
        BY <1>3 DEF Providing
      <4>2. req[o].provider \in Users \ {u}
        BY <4>1 DEF ProfileRequest
      <4> QED
        BY <1>3, <3>1, <4>2 DEF RequestSound, ProfileSound
    <3> QED
      BY <3>2, <3>3 DEF RequestSound
  <2> QED
    BY <2>1, <2>2
<1>8. NamesSound' /\ ServicesSound'
  BY <1>2, <1>5 DEF IInv, NamesSound, ServicesSound
<1>9. StrayOnlyByLateJoin'
  BY <1>2, <1>3 DEF IInv, StrayOnlyByLateJoin
<1> QED
  BY <1>6, <1>7, <1>8, <1>9 DEF IInv

-----------------------------------------------------------------------------
(* The theorems.                                                           *)

LEMMA InvInit == Init => IInv
<1> SUFFICES ASSUME Init PROVE IInv
  OBVIOUS
<1>1. TypeOK
  <2>1. \A u \in Users : [tenant |-> TenantOf[u], role |-> RoleOf[u]] \in UserRow
    BY CatalogAssumption DEF UserRow
  <2> QED
    BY <2>1, CatalogAssumption DEF Init, TypeOK, Request
<1>2. RequestsSound
  BY IdleSound DEF Init, RequestsSound
<1>3. Categories = {} /\ Services = {}
  BY DEF Init, Categories, Services
<1>4. StrayOnlyByLateJoin
  BY CatalogAssumption DEF Init, StrayOnlyByLateJoin
<1> QED
  BY <1>1, <1>2, <1>3, <1>4 DEF IInv, NamesSound, ServicesSound

LEMMA InvNext == IInv /\ [Next]_vars => IInv'
<1> SUFFICES ASSUME IInv, [Next]_vars PROVE IInv'
  OBVIOUS
<1>1. ASSUME NEW r \in Requests, NEW u \in Users, Route(r, u) PROVE IInv'
  BY <1>1, InvRoute
<1>2. ASSUME NEW r \in Requests, Lookup(r) PROVE IInv'
  BY <1>2, InvLookup
<1>3. ASSUME NEW r \in Requests, Write(r) PROVE IInv'
  <2>1. ASSUME NEW c \in CategoryIds, InsertCategory(r, c) PROVE IInv'
    BY <2>1, InvInsertCategory
  <2>2. ASSUME NEW s \in ServiceIds, InsertService(r, s) PROVE IInv'
    BY <2>2, InvInsertService
  <2> QED
    BY <1>3, <2>1, <2>2, InvRenameCategory, InvDropCategory, InvInsertProfile,
       InvSetCategory, InvDropService, InvJoin DEF Write
<1>4. ASSUME NEW r \in Requests, Abort(r) PROVE IInv'
  BY <1>4, IdleSound, OwnStep DEF Abort, Goto
<1>5. CASE UNCHANGED vars
  <2>1. Categories' = Categories /\ Services' = Services
    BY <1>5 DEF vars, Categories, Services
  <2> QED
    BY <1>5, <2>1 DEF vars, IInv, TypeOK, RequestsSound, RequestSound,
       NamerSound, DropperSound, ServiceSound, ProfileSound, Checked,
       CategoriesOf, NamesSound, ServicesSound, StrayOnlyByLateJoin
<1> QED
  BY <1>1, <1>2, <1>3, <1>4, <1>5 DEF Next

LEMMA Inductive == Spec => []IInv
BY InvInit, InvNext, PTL DEF Spec

\* Rows and requests keep to their types: in particular no category is ever
\* made for a user without tenant.
THEOREM CatalogTypes == Spec => []TypeOK
<1>1. IInv => TypeOK
  BY DEF IInv
<1> QED
  BY <1>1, Inductive, PTL

\* The category of a service exists and is of the tenant of its provider,
\* however lookups, writes and deletions interleave.
THEOREM CategoriesStayInTenant == Spec => []CategoryOfOwnTenant
<1>1. IInv => CategoryOfOwnTenant
  BY DEF IInv, ServicesSound, CategoryOfOwnTenant, CategoriesOf
<1> QED
  BY <1>1, Inductive, PTL

\* Profile and user are of different tenants only when the user founded one
\* after, or while, the profile was made.
THEOREM StraysJoinedLate == Spec => []StrayOnlyByLateJoin
<1>1. IInv => StrayOnlyByLateJoin
  BY DEF IInv
<1> QED
  BY <1>1, Inductive, PTL

\* The lookup of names fails only for categories it could not see as they are,
\* and is left out only for the empty name.
THEOREM ContainedAreRaces == Spec => []ContainedOnlyByRace
<1>1. IInv => ContainedOnlyByRace
  BY DEF IInv, NamesSound, ContainedOnlyByRace, CategoriesOf
<1> QED
  BY <1>1, Inductive, PTL

\* Who has written: a request of tenant t that now is over.
WrittenFor(t) ==
    \E r \in Requests :
        req[r].pc = "write" /\ req'[r] = Idle /\ req[r].tenant = t

\* The writes that touch services or categories, and what they touch.
LEMMA WritesApart ==
    ASSUME IInv, NEW r \in Requests, Write(r)
    PROVE  /\ \A s \in Services : services'[s] # services[s] =>
                 WrittenFor(profiles[services[s].provider])
           /\ \A c \in Categories : categories'[c] \notin CategoryRow
                                    \/ categories'[c].name # categories[c].name =>
                 WrittenFor(categories[c].tenant)
<1> DEFINE q == req[r]
<1>1. /\ q \in Request /\ RequestSound(q) /\ req \in [Requests -> Request]
      /\ \A c \in Categories : c \in CategoryIds /\ categories[c] \in CategoryRow
      /\ \A s \in Services : s \in ServiceIds /\ services[s] \in ServiceRow
      /\ categories \in [CategoryIds -> CategoryRow \cup {Unused, Deleted}]
      /\ services \in [ServiceIds -> ServiceRow \cup {Unused, Deleted}]
  BY RowTypes DEF IInv, TypeOK, RequestsSound
<1>2. ASSUME q.pc = "write", req' = [req EXCEPT ![r] = Idle]
      PROVE  WrittenFor(q.tenant)
  BY <1>1, <1>2 DEF WrittenFor
<1>3. UNCHANGED categories =>
         \A c \in Categories : /\ categories'[c] \in CategoryRow
                               /\ categories'[c].name = categories[c].name
  BY <1>1
<1>4. ASSUME NEW c \in CategoryIds, InsertCategory(r, c)
      PROVE  UNCHANGED services /\ \A d \in Categories : categories'[d] = categories[d]
  BY <1>1, <1>4 DEF InsertCategory, Categories
<1>5. CASE RenameCategory(r)
  <2> DEFINE c == q.category
  <2>1. c \in Categories /\ categories[c].tenant = q.tenant
    BY <1>5 DEF RenameCategory, CategoriesOf
  <2>2. \A d \in Categories \ {c} :
           /\ categories'[d] = [categories[d] EXCEPT !.seen = @ \ {c}]
           /\ categories'[d] \in CategoryRow
           /\ categories'[d].name = categories[d].name
    <3>1. \A d \in Categories \ {c} :
             categories'[d] = [categories[d] EXCEPT !.seen = @ \ {c}]
      BY <1>1, <1>5 DEF RenameCategory
    <3> QED
      BY <1>1, <3>1 DEF CategoryRow
  <2>3. WrittenFor(q.tenant)
    <3>1. req'[r] = Idle
      BY <1>5 DEF RenameCategory, Forget
    <3> QED
      BY <1>5, <3>1 DEF RenameCategory, Writes, WrittenFor
  <2> QED
    BY <1>5, <2>1, <2>2, <2>3 DEF RenameCategory
<1>6. CASE DropCategory(r)
  <2> DEFINE c == q.category
  <2>1. q \in DroppingRequest /\ c \in Categories
    BY <1>1, <1>6, RequestKinds DEF DropCategory, Writes
  <2>2. categories[c].tenant = q.tenant
    BY <1>1, <2>1 DEF RequestSound, DropperSound, Checked, CategoriesOf,
                      Categories
  <2>3. \A s \in Services : services[s].category # c => services'[s] = services[s]
    BY <1>1, <1>6 DEF DropCategory
  <2>4. \A s \in Services : services[s].category = c =>
           profiles[services[s].provider] = q.tenant
    BY <1>1, <2>1, <2>2, RowsAreRows DEF IInv, ServicesSound
  <2>5. \A d \in Categories \ {c} : categories'[d] = categories[d]
    BY <1>1, <1>6 DEF DropCategory
  <2>6. WrittenFor(q.tenant)
    BY <1>2, <1>6 DEF DropCategory, Writes, Goto
  <2> QED
    BY <1>1, <2>2, <2>3, <2>4, <2>5, <2>6
<1>7. CASE SetCategory(r) \/ DropService(r)
  <2> DEFINE s == q.service
  <2>1. s \in Services /\ profiles[services[s].provider] = q.tenant
    BY <1>7, OwnService DEF SetCategory, DropService
  <2>2. \A x \in Services \ {s} : services'[x] = services[x]
    BY <1>1, <1>7 DEF SetCategory, DropService
  <2>3. WrittenFor(q.tenant) /\ UNCHANGED categories
    BY <1>2, <1>7 DEF SetCategory, DropService, Writes, Goto
  <2> QED
    BY <1>3, <2>1, <2>2, <2>3
<1>8. ASSUME NEW s \in ServiceIds, InsertService(r, s)
      PROVE  UNCHANGED categories /\ \A x \in Services : services'[x] = services[x]
  BY <1>1, <1>8 DEF InsertService, Services
<1>9. CASE InsertProfile(r) \/ Join(r)
  BY <1>3, <1>9 DEF InsertProfile, Join
<1> QED
  BY <1>1, <1>3, <1>4, <1>5, <1>6, <1>7, <1>8, <1>9 DEF Write

\* Services and categories of a tenant change at the hands of its own requests.
THEOREM WritesStayApart == Spec => TenantsApart
<1> DEFINE Stepwise ==
        /\ \A s \in Services : services'[s] # services[s] =>
              \E r \in Requests :
                  req[r].pc = "write" /\ req'[r] = Idle
                  /\ req[r].tenant = profiles[services[s].provider]
        /\ \A c \in Categories : categories'[c] \notin CategoryRow
                                 \/ categories'[c].name # categories[c].name =>
              \E r \in Requests :
                  req[r].pc = "write" /\ req'[r] = Idle
                  /\ req[r].tenant = categories[c].tenant
<1>1. ASSUME IInv, [Next]_vars
      PROVE  Stepwise
  <2>1. ASSUME UNCHANGED <<services, categories>>
        PROVE  Stepwise
    <3>1. \A c \in Categories : /\ categories'[c] \in CategoryRow
                                /\ categories'[c].name = categories[c].name
      BY <1>1, <2>1, RowTypes DEF IInv
    <3> QED
      BY <2>1, <3>1
  <2>2. ASSUME NEW r \in Requests, Write(r)
        PROVE  Stepwise
    BY <1>1, <2>2, WritesApart DEF WrittenFor
  <2>3. ASSUME NEW r \in Requests, NEW u \in Users, Route(r, u)
        PROVE  UNCHANGED <<services, categories>>
    BY <2>3 DEF Route, createCategory, updateCategory, deleteCategory,
       createProfile, createService, updateService, deleteService, ServiceCall,
       setupTenant, rows
  <2>4. ASSUME NEW r \in Requests, Lookup(r) \/ Abort(r)
        PROVE  UNCHANGED <<services, categories>>
    BY <2>4 DEF Lookup, FindProfile, FindService, FindCategory, Proceed, Abort,
       rows
  <2>5. CASE UNCHANGED vars
    BY <2>1, <2>5 DEF vars
  <2> HIDE DEF Stepwise
  <2> QED
    BY <1>1, <2>1, <2>2, <2>3, <2>4, <2>5 DEF Next
<1> QED
  BY <1>1, Inductive, PTL DEF Spec, TenantsApart
=============================================================================
