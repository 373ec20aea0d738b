---------------------------- MODULE SessionProofs ----------------------------
(***************************************************************************)
(* Proofs about Session, for any users, tenants, lifetimes and number of   *)
(* requests in flight together.                                            *)
(***************************************************************************)
EXTENDS Session, FiniteSetTheorems, TLAPS

-----------------------------------------------------------------------------
(* The inductive invariant: what a request may rely on, and what the rows  *)
(* have to do with one another.                                            *)

SigningPcs == {"loginTenant", "readUser", "sign", "revoke", "store"}
SettingPcs == {"checkSlug", "createTenant", "joinTenant"}

\* Everybody but who is signing up has a row.
UserKnown(q) ==
    q.pc \notin {"idle", "insertUser", "delete"} => users[q.user] # None

\* The token about to be stored is of the user whose tokens were deleted, and
\* the deletion has left none.
TokenSound(q) ==
    /\ q.pc \in {"revoke", "store"} => q.token.user = q.user
    /\ q.pc = "store" => q.user \in crossed \/ TokensOf(q.user) = {}

\* A user in the middle of a setup has no tenant.
SetupSound(q) ==
    q.pc \in SettingPcs => q.user \in torn \/ users[q.user].tenant = None

\* ContextIsCurrent of one request.
ContextSound(q) ==
    /\ q.pc \in {"checkTenant", "granted"} /\ q.tenant # None
       => q.user \in torn \/ users[q.user].tenant = q.tenant
    /\ q.pc = "toggle" /\ q.scope # None
       => q.user \in torn \/ users[q.user].tenant = q.scope

RequestSound(q) ==
    UserKnown(q) /\ TokenSound(q) /\ SetupSound(q) /\ ContextSound(q)

RequestsSound == \A r \in Requests : RequestSound(req[r])

\* What is recorded of requests that met.
MeetingsRecorded ==
    /\ \A u \in Users \ crossed : ~Several(SigningIn(u))
    /\ \A u \in Users \ torn : ~Several(SettingUp(u))

\* Tokens and founders are of users that exist.
RowsKnown ==
    /\ \A k \in store \cup issued : users[k.user] # None
    /\ \A t \in TenantIds :
          tenants[t].founder # None => users[tenants[t].founder] # None

IInv ==
    /\ TypeOK
    /\ RequestsSound
    /\ MeetingsRecorded
    /\ RowsKnown
    /\ StoredIsLatest
    /\ FounderJoins

-----------------------------------------------------------------------------
(* What the record and the labels tell.                                    *)

LEMMA Recorded ==
    ASSUME TypeOK, Record
    PROVE  /\ crossed \subseteq crossed' /\ torn \subseteq torn'
           /\ crossed' \subseteq Users /\ torn' \subseteq Users
           /\ MeetingsRecorded'
           /\ \A u \in Users \ torn' : \A r \in Joining(u) :
                 ~(req'[r] = Idle /\ users' = users)
BY DEF TypeOK, Record, MeetingsRecorded

\* The labels of the requests, and what they carry.
LEMMA RequestKinds ==
    ASSUME NEW q \in Request
    PROVE  /\ q.pc \notin {"idle", "delete"} => q.user \in Users
           /\ q.pc \in {"revoke", "store"} =>
                 q \in [pc: {"revoke", "store"}, user: Users, token: Token,
                        given: Token \cup {None}]
           /\ q.pc \in {"loginTenant", "sign"} =>
                 q \in [pc: {"loginTenant", "sign"}, user: Users, seen: UserRow,
                        given: Token \cup {None}]
           /\ q.pc = "readUser" => q \in [pc: {"readUser"}, user: Users, given: Token]
           /\ q.pc \in SettingPcs => q \in SetupRequest
           /\ q.pc = "toggle" => q \in ToggleRequest
           /\ q.pc \in {"checkTenant", "granted"} => q \in AccessRequest
           /\ q.pc = "insertUser" => q \in Registration
           /\ q.pc = "delete" => q.token \in Token
BY DEF Request, Idle, Registration, SignIn, LogoutRequest, SetupRequest,
       ToggleRequest, AccessRequest, SettingPcs

\* A request that is over relies on nothing.
LEMMA IdleSound == Idle \in Request /\ RequestSound(Idle) /\ RequestSound(Idle)'
BY DEF Request, RequestSound, UserKnown, TokenSound, SetupSound, ContextSound,
       SettingPcs, Idle

\* What the other requests rely on stays, if users and tokens keep to it.
LEMMA OthersSound ==
    ASSUME TypeOK, RequestsSound, Record, NEW o \in Requests, req'[o] = req[o],
           \A u \in Users : users[u] # None =>
              /\ users'[u] # None
              /\ users'[u].tenant = users[u].tenant,
           store' \subseteq store
    PROVE  RequestSound(req[o])'
<1> DEFINE q == req[o]
<1>1. q \in Request /\ RequestSound(q)
  BY DEF TypeOK, RequestsSound
<1>2. crossed \subseteq crossed' /\ torn \subseteq torn'
  BY Recorded
<1>3. UserKnown(q)'
  BY <1>1, RequestKinds DEF RequestSound, UserKnown
<1>4. TokenSound(q)'
  BY <1>1, <1>2 DEF RequestSound, TokenSound, TokensOf
<1>5. SetupSound(q)'
  BY <1>1, <1>2, RequestKinds DEF RequestSound, UserKnown, SetupSound, SettingPcs
<1>6. ContextSound(q)'
  BY <1>1, <1>2, RequestKinds DEF RequestSound, UserKnown, ContextSound
<1> QED
  BY <1>3, <1>4, <1>5, <1>6 DEF RequestSound

\* A step of one request that changes no row, or takes tokens away.
LEMMA QuietStep ==
    ASSUME IInv, Record, NEW r \in Requests, NEW STATE q,
           req' = [req EXCEPT ![r] = q], q \in Request, RequestSound(req[r])',
           req[r].pc = "joinTenant" => q = Idle,
           UNCHANGED <<users, tenants, latest, issued, now>>,
           store' \subseteq store
    PROVE  IInv'
<1>1. /\ req' \in [Requests -> Request] /\ req'[r] = q
      /\ \A o \in Requests \ {r} : req'[o] = req[o]
  BY DEF IInv, TypeOK
<1>2. TypeOK'
  BY <1>1, Recorded DEF IInv, TypeOK
<1>3. RequestsSound'
  <2> SUFFICES ASSUME NEW o \in Requests PROVE RequestSound(req[o])'
    BY DEF RequestsSound
  <2>1. CASE o = r
    BY <2>1
  <2>2. CASE o # r
    BY <1>1, <2>2, OthersSound DEF IInv
  <2> QED
    BY <2>1, <2>2
<1>4. MeetingsRecorded'
  BY Recorded DEF IInv
<1>5. RowsKnown'
  BY DEF IInv, RowsKnown
<1>6. StoredIsLatest'
  BY Recorded DEF IInv, StoredIsLatest
<1>7. FounderJoins'
  <2> SUFFICES ASSUME NEW t \in TenantIds, NEW u \in Users \ torn',
                      tenants[t].founder = u
               PROVE  \/ users[u].tenant = t /\ users[u].role = "ADMIN"
                      \/ \E o \in Joining(u)' : req'[o].tenant = t
    BY DEF FounderJoins
  <2>1. CASE users[u].tenant = t /\ users[u].role = "ADMIN"
    BY <2>1
  <2>2. CASE \E o \in Joining(u) : req[o].tenant = t
    <3>1. PICK o \in Joining(u) : req[o].tenant = t
      BY <2>2
    <3>2. o \in Requests /\ req[o].pc = "joinTenant" /\ req[o].user = u
      BY DEF Joining, SettingUp
    <3>3. o # r
      BY <1>1, <3>2, Recorded DEF IInv
    <3>4. o \in Joining(u)' /\ req'[o].tenant = t
      BY <1>1, <3>1, <3>2, <3>3 DEF Joining, SettingUp
    <3> QED
      BY <3>4
  <2> QED
    BY <2>1, <2>2, Recorded DEF IInv, FounderJoins
<1> QED
  BY <1>2, <1>3, <1>4, <1>5, <1>6, <1>7 DEF IInv

\* The same for a request that relies on what is so before the step.
LEMMA PlainStep ==
    ASSUME IInv, Record, NEW r \in Requests, NEW STATE q,
           req' = [req EXCEPT ![r] = q], q \in Request, RequestSound(q),
           req[r].pc = "joinTenant" => q = Idle,
           UNCHANGED <<users, tenants, latest, issued, now>>,
           store' \subseteq store
    PROVE  IInv'
<1>1. req'[r] = q
  BY DEF IInv, TypeOK
<1>2. crossed \subseteq crossed' /\ torn \subseteq torn'
  BY Recorded DEF IInv
<1>3. RequestSound(req[r])'
  BY <1>1, <1>2 DEF RequestSound, UserKnown, TokenSound, SetupSound,
                    ContextSound, TokensOf
<1> QED
  BY <1>3, QuietStep

-----------------------------------------------------------------------------
(* The actions, by the part of the service they belong to.                 *)

LEMMA InvRegister ==
    ASSUME IInv, Record, NEW r \in Requests, NEW u \in Users, NEW role \in Roles,
           Register(r, u, role)
    PROVE  IInv'
<1> DEFINE q == [pc |-> "insertUser", user |-> u, role |-> role]
<1>1. q \in Request /\ RequestSound(q)
  BY DEF Request, Registration, RequestSound, UserKnown, TokenSound, SetupSound,
         ContextSound, SettingPcs
<1>2. /\ req' = [req EXCEPT ![r] = q] /\ req[r].pc # "joinTenant"
      /\ UNCHANGED <<users, tenants, store, latest, issued, now>>
  BY DEF Register, Goto, Idle
<1> HIDE DEF q
<1> QED
  BY <1>1, <1>2, PlainStep

\* A user appears: one nobody relied on.
LEMMA InvInsertUser ==
    ASSUME IInv, Record, NEW r \in Requests, InsertUser(r)
    PROVE  IInv'
<1> DEFINE q == req[r]
           n == NewUser(q.role, None)
<1>1. q \in Registration /\ users[q.user] = None
  BY RequestKinds DEF InsertUser, IInv, TypeOK
<1>2. n \in UserRow /\ n # None
  <2>1. n \in UserRow
    BY <1>1 DEF Registration, NewUser, UserRow
  <2> HIDE DEF n
  <2> QED
    BY <2>1, SessionAssumption
<1>3. /\ users' = [users EXCEPT ![q.user] = n]
      /\ req' = [req EXCEPT ![r] = Idle]
      /\ UNCHANGED <<tenants, store, latest, issued, now>>
  BY DEF InsertUser, Goto
<1> HIDE DEF n
<1>4. \A u \in Users : users[u] # None => users'[u] = users[u]
  BY <1>1, <1>3 DEF IInv, TypeOK
<1>5. TypeOK'
  BY <1>1, <1>2, <1>3, IdleSound, Recorded DEF IInv, TypeOK, Registration
<1>6. RequestsSound'
  <2> SUFFICES ASSUME NEW o \in Requests PROVE RequestSound(req[o])'
    BY DEF RequestsSound
  <2>1. CASE o = r
    <3>1. req'[o] = Idle
      BY <1>3, <2>1 DEF IInv, TypeOK
    <3> QED
      BY <3>1, IdleSound DEF RequestSound, UserKnown, TokenSound, SetupSound,
                             ContextSound
  <2>2. CASE o # r
    <3>1. req'[o] = req[o]
      BY <1>3, <2>2 DEF IInv, TypeOK
    <3> QED
      BY <1>3, <1>4, <3>1, OthersSound DEF IInv
  <2> QED
    BY <2>1, <2>2
<1>7. RowsKnown'
  <2>1. \A k \in store \cup issued : k.user \in Users
    BY DEF IInv, TypeOK, Token
  <2>2. \A t \in TenantIds : tenants[t].founder \in Users \cup {None}
    BY DEF IInv, TypeOK, TenantRow
  <2> QED
    BY <1>3, <1>4, <2>1, <2>2 DEF IInv, RowsKnown
<1>8. MeetingsRecorded'
  BY Recorded DEF IInv
<1>9. StoredIsLatest'
  BY <1>3, Recorded DEF IInv, StoredIsLatest
<1>10. FounderJoins'
  <2> SUFFICES ASSUME NEW t \in TenantIds, NEW u \in Users \ torn',
                      tenants'[t].founder = u
               PROVE  \/ users'[u].tenant = t /\ users'[u].role = "ADMIN"
                      \/ \E o \in Joining(u)' : req'[o].tenant = t
    BY DEF FounderJoins
  <2>1. u \in Users \ torn /\ tenants[t].founder = u /\ u # None
    BY <1>3, Recorded, SessionAssumption DEF IInv
  <2>2. users'[u] = users[u]
    BY <1>4, <2>1 DEF IInv, RowsKnown
  <2>3. CASE \E o \in Joining(u) : req[o].tenant = t
    <3>1. PICK o \in Joining(u) : req[o].tenant = t
      BY <2>3
    <3>2. o \in Requests /\ req[o].pc = "joinTenant" /\ req[o].user = u /\ o # r
      BY DEF Joining, SettingUp, InsertUser
    <3>3. o \in Joining(u)' /\ req'[o].tenant = t
      BY <1>3, <3>1, <3>2 DEF Joining, SettingUp, IInv, TypeOK
    <3> QED
      BY <3>3
  <2> QED
    BY <2>1, <2>2, <2>3 DEF IInv, FounderJoins
<1> QED
  BY <1>5, <1>6, <1>7, <1>8, <1>9, <1>10 DEF IInv

LEMMA InvSignInReads ==
    ASSUME IInv, Record, NEW r \in Requests,
           \/ \E u \in Registered : Login(r, u)
           \/ LoginTenant(r)
           \/ \E k \in store : Refresh(r, k)
           \/ ReadUser(r)
           \/ Sign(r)
    PROVE  IInv'
<1>1. req[r] \in Request /\ RequestSound(req[r]) /\ req \in [Requests -> Request]
  BY DEF IInv, TypeOK, RequestsSound
<1>2. ASSUME NEW STATE q, q \in SignIn, q.pc \in {"loginTenant", "readUser", "sign"},
             q.user \in Users, users[q.user] # None
      PROVE  q \in Request /\ RequestSound(q)
  BY <1>2 DEF Request, RequestSound, UserKnown, TokenSound, SetupSound,
     ContextSound, SettingPcs
<1>3. ASSUME NEW u \in Registered, Login(r, u)
      PROVE  IInv'
  <2> DEFINE q == [pc |-> IF users[u].tenant = None THEN "sign" ELSE "loginTenant",
                   user |-> u, seen |-> users[u], given |-> None]
  <2>1. users[u] \in UserRow /\ users[u] # None /\ u \in Users
    BY DEF IInv, TypeOK, Registered
  <2>2. /\ q \in SignIn /\ q.pc \in {"loginTenant", "readUser", "sign"}
        /\ q.user = u
    BY <2>1 DEF SignIn
  <2>3. /\ req' = [req EXCEPT ![r] = q] /\ req[r].pc # "joinTenant"
        /\ UNCHANGED <<users, tenants, store, latest, issued, now>>
    BY <1>3 DEF Login, Goto, Idle
  <2> HIDE DEF q
  <2>4. q \in Request /\ RequestSound(q)
    BY <1>2, <2>1, <2>2
  <2> QED
    BY <2>3, <2>4, PlainStep
<1>4. CASE LoginTenant(r)
  <2>1. UNCHANGED <<users, tenants, store, latest, issued, now>>
        /\ req[r].pc = "loginTenant"
    BY <1>4 DEF LoginTenant
  <2>2. CASE Goto(r, Idle)
    BY <2>1, <2>2, IdleSound, PlainStep DEF Goto
  <2>3. CASE req' = [req EXCEPT ![r].pc = "sign"]
    <3> DEFINE q == [req[r] EXCEPT !.pc = "sign"]
    <3>1. req[r] \in [pc: {"loginTenant", "sign"}, user: Users, seen: UserRow,
                      given: Token \cup {None}]
      BY <1>1, <2>1, RequestKinds
    <3>2. /\ q \in [pc: {"loginTenant", "sign"}, user: Users, seen: UserRow,
                    given: Token \cup {None}]
          /\ q.pc = "sign" /\ q.user = req[r].user
      BY <3>1
    <3>3. q \in SignIn
      BY <3>2 DEF SignIn
    <3>4. req' = [req EXCEPT ![r] = q]
      BY <1>1, <2>3
    <3>5. q.user \in Users /\ users[q.user] # None
      BY <1>1, <2>1, <3>1, <3>2 DEF RequestSound, UserKnown
    <3> HIDE DEF q
    <3>6. q \in Request /\ RequestSound(q)
      BY <1>2, <3>2, <3>3, <3>5
    <3> QED
      BY <2>1, <3>4, <3>6, PlainStep
  <2> QED
    BY <1>4, <2>2, <2>3 DEF LoginTenant
<1>5. ASSUME NEW k \in store, Refresh(r, k)
      PROVE  IInv'
  <2> DEFINE q == [pc |-> "readUser", user |-> k.user, given |-> k]
  <2>1. k \in Token /\ k.user \in Users /\ users[k.user] # None
    BY DEF IInv, TypeOK, Token, RowsKnown
  <2>2. q \in SignIn /\ q.pc = "readUser" /\ q.user = k.user
    BY <2>1 DEF SignIn
  <2>3. /\ req' = [req EXCEPT ![r] = q] /\ req[r].pc # "joinTenant"
        /\ UNCHANGED <<users, tenants, store, latest, issued, now>>
    BY <1>5 DEF Refresh, Goto, Idle
  <2> HIDE DEF q
  <2>4. q \in Request /\ RequestSound(q)
    BY <1>2, <2>1, <2>2
  <2> QED
    BY <2>3, <2>4, PlainStep
<1>6. CASE ReadUser(r)
  <2> DEFINE q == [pc |-> "sign", user |-> req[r].user,
                   seen |-> users[req[r].user], given |-> req[r].given]
  <2>1. /\ req[r] \in [pc: {"readUser"}, user: Users, given: Token]
        /\ users[req[r].user] # None
    BY <1>1, <1>6, RequestKinds DEF ReadUser, RequestSound, UserKnown
  <2>2. users[req[r].user] \in UserRow
    BY <2>1 DEF IInv, TypeOK
  <2>3. q \in SignIn /\ q.pc = "sign" /\ q.user = req[r].user
    BY <2>1, <2>2 DEF SignIn
  <2>4. /\ req' = [req EXCEPT ![r] = q] /\ req[r].pc = "readUser"
        /\ UNCHANGED <<users, tenants, store, latest, issued, now>>
    BY <1>6 DEF ReadUser, Goto
  <2> HIDE DEF q
  <2>5. q \in Request /\ RequestSound(q)
    BY <1>2, <2>1, <2>3
  <2> QED
    BY <2>4, <2>5, PlainStep
<1>7. CASE Sign(r)
  <2> DEFINE token == [user |-> req[r].user, role |-> req[r].seen.role,
                       tenant |-> req[r].seen.tenant, iat |-> now]
             q == [pc |-> "revoke", user |-> req[r].user, given |-> req[r].given,
                   token |-> token]
  <2>1. /\ req[r] \in [pc: {"loginTenant", "sign"}, user: Users, seen: UserRow,
                       given: Token \cup {None}]
        /\ users[req[r].user] # None
    BY <1>1, <1>7, RequestKinds DEF Sign, RequestSound, UserKnown
  <2>2. token \in Token /\ token.user = req[r].user
    BY <2>1 DEF Token, UserRow, IInv, TypeOK
  <2> HIDE DEF token
  <2>3. q \in SignIn
    BY <2>1, <2>2 DEF SignIn
  <2>4. RequestSound(q)
    BY <2>1, <2>2 DEF RequestSound, UserKnown, TokenSound, SetupSound,
       ContextSound, SettingPcs
  <2>5. /\ req' = [req EXCEPT ![r] = q] /\ req[r].pc = "sign"
        /\ UNCHANGED <<users, tenants, store, latest, issued, now>>
    BY <1>7 DEF Sign, Goto, token
  <2> HIDE DEF q
  <2> QED
    BY <2>3, <2>4, <2>5, PlainStep DEF Request
<1> QED
  BY <1>3, <1>4, <1>5, <1>6, <1>7

LEMMA InvRevoke ==
    ASSUME IInv, Record, NEW r \in Requests, Revoke(r)
    PROVE  IInv'
<1> DEFINE q == [req[r] EXCEPT !.pc = "store"]
<1>1. /\ req[r] \in [pc: {"revoke", "store"}, user: Users, token: Token,
                     given: Token \cup {None}]
      /\ req[r].pc = "revoke" /\ RequestSound(req[r])
  BY RequestKinds DEF Revoke, IInv, TypeOK, RequestsSound
<1>2. /\ q \in [pc: {"revoke", "store"}, user: Users, token: Token,
                given: Token \cup {None}]
      /\ q.pc = "store" /\ q.user = req[r].user /\ q.token = req[r].token
  BY <1>1
<1>3. /\ req' = [req EXCEPT ![r] = q] /\ req'[r] = q
      /\ store' = {k \in store : k.user # req[r].user}
      /\ UNCHANGED <<users, tenants, latest, issued, now>>
  BY DEF Revoke, IInv, TypeOK
<1> HIDE DEF q
<1>4. q \in Request
  BY <1>2 DEF Request, SignIn
<1>5. RequestSound(req[r])'
  <2>1. /\ users'[q.user] # None /\ q.token.user = q.user
        /\ \A k \in store' : k.user # q.user
    BY <1>1, <1>2, <1>3 DEF RequestSound, UserKnown, TokenSound
  <2> QED
    BY <1>2, <1>3, <2>1 DEF RequestSound, UserKnown, TokenSound, SetupSound,
                            ContextSound, SettingPcs, TokensOf
<1> QED
  BY <1>1, <1>3, <1>4, <1>5, QuietStep

\* The new token: if no other sign-in of the user was under way, it is alone.
LEMMA InvStore ==
    ASSUME IInv, Record, NEW r \in Requests, Store(r)
    PROVE  IInv'
<1> DEFINE u == req[r].user
           k == req[r].token
<1>1. /\ u \in Users /\ k \in Token /\ k.user = u /\ users[u] # None
      /\ req[r].pc = "store"
      /\ u \in crossed \/ TokensOf(u) = {}
  BY RequestKinds DEF Store, IInv, TypeOK, RequestsSound, RequestSound,
                      UserKnown, TokenSound
<1>2. /\ store' = store \cup {k}
      /\ latest' = [latest EXCEPT ![u] = k]
      /\ issued' = issued \cup {k}
      /\ req' = [req EXCEPT ![r] = Idle]
      /\ UNCHANGED <<users, tenants, now>>
  BY DEF Store, Goto
<1>3. /\ req' \in [Requests -> Request] /\ req'[r] = Idle
      /\ \A o \in Requests \ {r} : req'[o] = req[o]
  BY <1>2, IdleSound DEF IInv, TypeOK
<1>4. crossed \subseteq crossed' /\ torn \subseteq torn' /\ MeetingsRecorded'
  BY Recorded DEF IInv
<1>5. TypeOK'
  BY <1>1, <1>2, <1>3, Recorded DEF IInv, TypeOK
<1>6. RequestsSound'
  <2> SUFFICES ASSUME NEW o \in Requests PROVE RequestSound(req[o])'
    BY DEF RequestsSound
  <2>1. CASE o = r
    BY <1>3, <2>1, IdleSound DEF RequestSound, UserKnown, TokenSound, SetupSound,
                                 ContextSound
  <2>2. CASE o # r
    <3>1. req'[o] = req[o] /\ req[o] \in Request /\ RequestSound(req[o])
      BY <1>3, <2>2 DEF IInv, TypeOK, RequestsSound
    <3>2. TokenSound(req[o])'
      <4>1. ASSUME req[o].pc = "store", req[o].user = u
            PROVE  u \in crossed
        <5>1. o \in SigningIn(u) /\ r \in SigningIn(u)
          BY <1>1, <4>1 DEF SigningIn
        <5> QED
          BY <1>1, <2>2, <5>1 DEF IInv, MeetingsRecorded, Several
      <4>2. ASSUME req[o].pc = "store", req[o].user # u
            PROVE  TokensOf(req[o].user)' = TokensOf(req[o].user)
        BY <1>1, <1>2, <3>1, <4>2 DEF TokensOf
      <4> QED
        BY <1>4, <3>1, <4>1, <4>2 DEF RequestSound, TokenSound
    <3> QED
      BY <1>2, <1>4, <3>1, <3>2 DEF RequestSound, UserKnown, SetupSound,
                                    ContextSound
  <2> QED
    BY <2>1, <2>2
<1>7. RowsKnown'
  BY <1>1, <1>2 DEF IInv, RowsKnown
<1>8. StoredIsLatest'
  <2> SUFFICES ASSUME NEW x \in store', x.user \notin crossed'
               PROVE  x = latest'[x.user]
    BY DEF StoredIsLatest
  <2>1. x.user \notin crossed
    BY <1>4
  <2>2. CASE x = k
    BY <1>1, <1>2, <2>2 DEF IInv, TypeOK
  <2>3. CASE x # k
    <3>1. x \in store /\ x.user # u
      BY <1>1, <1>2, <2>1, <2>3 DEF TokensOf
    <3> QED
      BY <1>2, <2>1, <3>1 DEF IInv, TypeOK, StoredIsLatest
  <2> QED
    BY <2>2, <2>3
<1>9. FounderJoins'
  <2> SUFFICES ASSUME NEW t \in TenantIds, NEW f \in Users \ torn',
                      tenants[t].founder = f
               PROVE  \/ users[f].tenant = t /\ users[f].role = "ADMIN"
                      \/ \E o \in Joining(f)' : req'[o].tenant = t
    BY <1>2 DEF FounderJoins
  <2>1. \A o \in Joining(f) : o \in Joining(f)' /\ req'[o] = req[o]
    BY <1>1, <1>3 DEF Joining, SettingUp
  <2> QED
    BY <1>4, <2>1 DEF IInv, FounderJoins
<1> QED
  BY <1>4, <1>5, <1>6, <1>7, <1>8, <1>9 DEF IInv

LEMMA InvLogout ==
    ASSUME IInv, Record, NEW r \in Requests, LogoutStep(r)
    PROVE  IInv'
<1>1. ASSUME NEW k \in store, Logout(r, k)
      PROVE  IInv'
  <2> DEFINE q == [pc |-> "delete", token |-> k]
  <2>1. q \in Request /\ RequestSound(q)
    BY DEF IInv, TypeOK, Request, LogoutRequest, RequestSound, UserKnown,
           TokenSound, SetupSound, ContextSound, SettingPcs
  <2>2. /\ req' = [req EXCEPT ![r] = q] /\ req[r].pc # "joinTenant"
        /\ UNCHANGED <<users, tenants, store, latest, issued, now>>
    BY <1>1 DEF Logout, Goto, Idle
  <2> HIDE DEF q
  <2> QED
    BY <2>1, <2>2, PlainStep
<1>2. CASE DeleteToken(r)
  <2>1. /\ req' = [req EXCEPT ![r] = Idle] /\ store' \subseteq store
        /\ UNCHANGED <<users, tenants, latest, issued, now>>
    BY <1>2 DEF DeleteToken, Goto
  <2> QED
    BY <2>1, IdleSound, PlainStep
<1> QED
  BY <1>1, <1>2 DEF LogoutStep

LEMMA InvSetupReads ==
    ASSUME IInv, Record, NEW r \in Requests,
           \/ \E u \in Registered, t \in TenantIds : SetupTenant(r, u, t)
           \/ CheckSlug(r)
    PROVE  IInv'
<1>1. ASSUME NEW u \in Registered, NEW t \in TenantIds, SetupTenant(r, u, t)
      PROVE  IInv'
  <2> DEFINE q == [pc |-> "checkSlug", user |-> u, tenant |-> t]
  <2>1. u \in Users /\ users[u] # None /\ users[u].tenant = None
    BY <1>1 DEF Registered, SetupTenant
  <2>2. q \in Request /\ RequestSound(q)
    BY <2>1 DEF Request, SetupRequest, RequestSound, UserKnown, TokenSound,
       SetupSound, ContextSound
  <2>3. /\ req' = [req EXCEPT ![r] = q] /\ req[r].pc # "joinTenant"
        /\ UNCHANGED <<users, tenants, store, latest, issued, now>>
    BY <1>1 DEF SetupTenant, Goto, Idle
  <2> HIDE DEF q
  <2> QED
    BY <2>2, <2>3, PlainStep
<1>2. CASE CheckSlug(r)
  <2>1. UNCHANGED <<users, tenants, store, latest, issued, now>>
        /\ req[r].pc = "checkSlug"
    BY <1>2 DEF CheckSlug
  <2>2. CASE Goto(r, Idle)
    BY <2>1, <2>2, IdleSound, PlainStep DEF Goto
  <2>3. CASE req' = [req EXCEPT ![r].pc = "createTenant"]
    <3> DEFINE q == [req[r] EXCEPT !.pc = "createTenant"]
    <3>1. req[r] \in SetupRequest /\ RequestSound(req[r])
      BY <2>1, RequestKinds DEF IInv, TypeOK, RequestsSound, SettingPcs
    <3>2. q \in SetupRequest /\ q.pc = "createTenant" /\ q.user = req[r].user
      BY <3>1 DEF SetupRequest
    <3>3. req' = [req EXCEPT ![r] = q]
      BY <2>3 DEF IInv, TypeOK
    <3> HIDE DEF q
    <3>4. q \in Request /\ RequestSound(q)
      BY <2>1, <3>1, <3>2 DEF Request, RequestSound, UserKnown, TokenSound,
         SetupSound, ContextSound, SettingPcs
    <3> QED
      BY <2>1, <3>3, <3>4, PlainStep
  <2> QED
    BY <1>2, <2>2, <2>3 DEF CheckSlug
<1> QED
  BY <1>1, <1>2

LEMMA InvToggleReads ==
    ASSUME IInv, Record, NEW r \in Requests, NEW u \in Registered,
           NEW active \in BOOLEAN,
           \/ \E a \in Registered : ToggleUser(r, a, u, active)
           \/ ToggleAnyUser(r, u, active)
    PROVE  IInv'
<1>1. u \in Users /\ users[u] # None
  BY DEF Registered
<1>2. ASSUME NEW STATE scope, scope \in TenantIds \cup {None},
             scope # None => users[u].tenant = scope
      PROVE  LET q == [pc |-> "toggle", user |-> u, active |-> active,
                       scope |-> scope]
             IN  q \in Request /\ RequestSound(q)
  BY <1>1, <1>2 DEF Request, ToggleRequest, RequestSound, UserKnown, TokenSound,
     SetupSound, ContextSound, SettingPcs
<1>3. ASSUME NEW a \in Registered, ToggleUser(r, a, u, active)
      PROVE  IInv'
  <2> DEFINE q == [pc |-> "toggle", user |-> u, active |-> active,
                   scope |-> users[a].tenant]
  <2>1. users[a].tenant \in TenantIds \cup {None}
    BY DEF Registered, IInv, TypeOK, UserRow
  <2>2. q \in Request /\ RequestSound(q)
    BY <1>2, <1>3, <2>1 DEF ToggleUser
  <2>3. /\ req' = [req EXCEPT ![r] = q] /\ req[r].pc # "joinTenant"
        /\ UNCHANGED <<users, tenants, store, latest, issued, now>>
    BY <1>3 DEF ToggleUser, Goto, Idle
  <2> HIDE DEF q
  <2> QED
    BY <2>2, <2>3, PlainStep
<1>4. CASE ToggleAnyUser(r, u, active)
  <2> DEFINE q == [pc |-> "toggle", user |-> u, active |-> active, scope |-> None]
  <2>1. q \in Request /\ RequestSound(q)
    BY <1>2
  <2>2. /\ req' = [req EXCEPT ![r] = q] /\ req[r].pc # "joinTenant"
        /\ UNCHANGED <<users, tenants, store, latest, issued, now>>
    BY <1>4 DEF ToggleAnyUser, Goto, Idle
  <2> HIDE DEF q
  <2> QED
    BY <2>1, <2>2, PlainStep
<1> QED
  BY <1>3, <1>4

LEMMA InvAccess ==
    ASSUME IInv, Record, NEW r \in Requests, AccessStep(r)
    PROVE  IInv'
<1>1. ASSUME NEW k \in issued, Access(r, k)
      PROVE  IInv'
  <2> DEFINE t == users[k.user].tenant
             q == [pc |-> IF t = None THEN "granted" ELSE "checkTenant",
                   user |-> k.user, tenant |-> t]
  <2>1. k.user \in Users /\ users[k.user] # None
    BY DEF IInv, TypeOK, Token, RowsKnown
  <2>2. t \in TenantIds \cup {None}
    BY <2>1 DEF IInv, TypeOK, UserRow
  <2>3. q \in Request /\ RequestSound(q)
    BY <2>1, <2>2 DEF Request, AccessRequest, RequestSound, UserKnown,
       TokenSound, SetupSound, ContextSound, SettingPcs
  <2>4. /\ req' = [req EXCEPT ![r] = q] /\ req[r].pc # "joinTenant"
        /\ UNCHANGED <<users, tenants, store, latest, issued, now>>
    BY <1>1 DEF Access, Goto, Idle
  <2> HIDE DEF q
  <2> QED
    BY <2>3, <2>4, PlainStep
<1>2. CASE CheckTenant(r)
  <2>1. UNCHANGED <<users, tenants, store, latest, issued, now>>
        /\ req[r].pc = "checkTenant"
    BY <1>2 DEF CheckTenant
  <2>2. CASE Goto(r, Idle)
    BY <2>1, <2>2, IdleSound, PlainStep DEF Goto
  <2>3. CASE req' = [req EXCEPT ![r].pc = "granted"]
    <3> DEFINE q == [req[r] EXCEPT !.pc = "granted"]
    <3>1. req[r] \in AccessRequest /\ RequestSound(req[r])
      BY <2>1, RequestKinds DEF IInv, TypeOK, RequestsSound
    <3>2. /\ q \in AccessRequest /\ q.pc = "granted"
          /\ q.user = req[r].user /\ q.tenant = req[r].tenant
      BY <3>1 DEF AccessRequest
    <3>3. req' = [req EXCEPT ![r] = q]
      BY <2>3 DEF IInv, TypeOK
    <3> HIDE DEF q
    <3>4. q \in Request /\ RequestSound(q)
      BY <2>1, <3>1, <3>2 DEF Request, RequestSound, UserKnown, TokenSound,
         SetupSound, ContextSound, SettingPcs
    <3> QED
      BY <2>1, <3>3, <3>4, PlainStep
  <2> QED
    BY <1>2, <2>2, <2>3 DEF CheckTenant
<1>3. CASE Serve(r)
  <2>1. /\ req' = [req EXCEPT ![r] = Idle]
        /\ UNCHANGED <<users, tenants, store, latest, issued, now>>
    BY <1>3 DEF Serve, Goto
  <2> QED
    BY <2>1, IdleSound, PlainStep
<1> QED
  BY <1>1, <1>2, <1>3 DEF AccessStep

-----------------------------------------------------------------------------
(* The actions that change tenants and users.                              *)

\* The tenant is there, and its founder about to join it.
LEMMA InvCreateTenant ==
    ASSUME IInv, Record, NEW r \in Requests, CreateTenant(r)
    PROVE  IInv'
<1> DEFINE q   == req[r]
           n   == [q EXCEPT !.pc = "joinTenant"]
           row == [status |-> "active", founder |-> q.user]
<1>1. q \in SetupRequest /\ q.pc = "createTenant" /\ RequestSound(q)
  BY RequestKinds DEF CreateTenant, IInv, TypeOK, RequestsSound, SettingPcs
<1>2. /\ n \in SetupRequest /\ n.pc = "joinTenant"
      /\ n.user = q.user /\ n.tenant = q.tenant
  BY <1>1 DEF SetupRequest
<1>3. /\ tenants' = [tenants EXCEPT ![q.tenant] = row]
      /\ req' = [req EXCEPT ![r] = n]
      /\ UNCHANGED <<users, store, latest, issued, now>>
  BY DEF CreateTenant, IInv, TypeOK
<1> HIDE DEF n
<1>4. q.user \in Users /\ q.tenant \in TenantIds /\ users[q.user] # None
  BY <1>1 DEF SetupRequest, RequestSound, UserKnown
<1>5. /\ req' \in [Requests -> Request] /\ req'[r] = n
      /\ \A o \in Requests \ {r} : req'[o] = req[o]
  BY <1>2, <1>3 DEF IInv, TypeOK, Request
<1>6. crossed \subseteq crossed' /\ torn \subseteq torn' /\ MeetingsRecorded'
  BY Recorded DEF IInv
<1>7. TypeOK'
  <2>1. row \in TenantRow
    BY <1>4 DEF TenantRow
  <2> QED
    BY <1>3, <1>5, <2>1, Recorded DEF IInv, TypeOK
<1>8. RequestsSound'
  <2> SUFFICES ASSUME NEW o \in Requests PROVE RequestSound(req[o])'
    BY DEF RequestsSound
  <2>1. CASE o = r
    <3>1. SetupSound(req[r])'
      BY <1>1, <1>2, <1>3, <1>5, <1>6 DEF RequestSound, SetupSound, SettingPcs
    <3> QED
      BY <1>2, <1>3, <1>4, <1>5, <2>1, <3>1 DEF RequestSound, UserKnown,
         TokenSound, ContextSound
  <2>2. CASE o # r
    BY <1>3, <1>5, <2>2, OthersSound DEF IInv
  <2> QED
    BY <2>1, <2>2
<1>9. RowsKnown'
  BY <1>3, <1>4 DEF IInv, TypeOK, RowsKnown
<1>10. StoredIsLatest'
  BY <1>3, <1>6 DEF IInv, StoredIsLatest
<1>11. FounderJoins'
  <2> SUFFICES ASSUME NEW t \in TenantIds, NEW u \in Users \ torn',
                      tenants'[t].founder = u
               PROVE  \/ users[u].tenant = t /\ users[u].role = "ADMIN"
                      \/ \E o \in Joining(u)' : req'[o].tenant = t
    BY <1>3 DEF FounderJoins
  <2>1. CASE t = q.tenant
    <3>1. u = q.user
      BY <1>3, <2>1 DEF IInv, TypeOK
    <3>2. r \in Joining(u)' /\ req'[r].tenant = t
      BY <1>2, <1>5, <2>1, <3>1 DEF Joining, SettingUp
    <3> QED
      BY <3>2
  <2>2. CASE t # q.tenant
    <3>1. tenants[t].founder = u /\ u \notin torn
      BY <1>3, <1>6, <2>2 DEF IInv, TypeOK
    <3>2. \A o \in Joining(u) : o \in Joining(u)' /\ req'[o] = req[o]
      BY <1>1, <1>5 DEF Joining, SettingUp
    <3> QED
      BY <3>1, <3>2 DEF IInv, FounderJoins
  <2> QED
    BY <2>1, <2>2
<1> QED
  BY <1>6, <1>7, <1>8, <1>9, <1>10, <1>11 DEF IInv

\* The founder joins: without a tenant until now, and in no other setup, or
\* recorded as torn.
LEMMA InvJoinTenant ==
    ASSUME IInv, Record, NEW r \in Requests, JoinTenant(r)
    PROVE  IInv'
<1> DEFINE q == req[r]
           u == q.user
           t == q.tenant
<1>1. q \in SetupRequest /\ q.pc = "joinTenant" /\ RequestSound(q)
  BY RequestKinds DEF JoinTenant, IInv, TypeOK, RequestsSound, SettingPcs
<1>2. /\ u \in Users /\ t \in TenantIds /\ users[u] # None /\ t # None
      /\ users[u] \in UserRow
      /\ u \in torn \/ users[u].tenant = None
      /\ r \in SettingUp(u)
  BY <1>1, SessionAssumption DEF SetupRequest, RequestSound, UserKnown,
     SetupSound, SettingPcs, SettingUp, IInv, TypeOK
<1>3. /\ users' = [users EXCEPT ![u].tenant = t, ![u].role = "ADMIN"]
      /\ req' = [req EXCEPT ![r] = Idle]
      /\ UNCHANGED <<tenants, store, latest, issued, now>>
  BY DEF JoinTenant, Goto
<1>4. /\ users'[u] \in UserRow /\ users'[u] # None
      /\ users'[u].tenant = t /\ users'[u].role = "ADMIN"
      /\ \A x \in Users \ {u} : users'[x] = users[x]
      /\ users' \in [Users -> UserRow \cup {None}]
  <2>1. /\ users'[u] = [users[u] EXCEPT !.tenant = t, !.role = "ADMIN"]
        /\ \A x \in Users \ {u} : users'[x] = users[x]
        /\ DOMAIN users' = Users /\ users' = [x \in Users |-> users'[x]]
    BY <1>2, <1>3 DEF IInv, TypeOK
  <2>2. /\ users'[u] \in UserRow
        /\ users'[u].tenant = t /\ users'[u].role = "ADMIN"
    BY <1>2, <2>1 DEF UserRow, Roles
  <2>3. users'[u] # None
    BY <2>2, SessionAssumption
  <2> QED
    BY <2>1, <2>2, <2>3 DEF IInv, TypeOK
<1>5. /\ req' \in [Requests -> Request] /\ req'[r] = Idle
      /\ \A o \in Requests \ {r} : req'[o] = req[o]
  BY <1>3, IdleSound DEF IInv, TypeOK
<1>6. crossed \subseteq crossed' /\ torn \subseteq torn' /\ MeetingsRecorded'
  BY Recorded DEF IInv
<1>7. TypeOK'
  BY <1>3, <1>4, <1>5, Recorded DEF IInv, TypeOK
\* Another setup of the user has met this one.
<1>8. ASSUME NEW o \in Requests \ {r}, req[o].pc \in SettingPcs, req[o].user = u
      PROVE  u \in torn
  <2>1. o \in SettingUp(u)
    BY <1>8 DEF SettingUp, SettingPcs
  <2> QED
    BY <1>2, <2>1 DEF IInv, MeetingsRecorded, Several
<1>9. RequestsSound'
  <2> SUFFICES ASSUME NEW o \in Requests PROVE RequestSound(req[o])'
    BY DEF RequestsSound
  <2>1. CASE o = r
    BY <1>5, <2>1, IdleSound DEF RequestSound, UserKnown, TokenSound, SetupSound,
                                 ContextSound
  <2>2. CASE o # r
    <3>1. req'[o] = req[o] /\ req[o] \in Request /\ RequestSound(req[o])
      BY <1>5, <2>2 DEF IInv, TypeOK, RequestsSound
    <3>2. UserKnown(req[o])' /\ TokenSound(req[o])'
      <4>1. \A x \in Users : users[x] # None => users'[x] # None
        BY <1>4
      <4>2. UserKnown(req[o])'
        BY <3>1, <4>1, RequestKinds DEF RequestSound, UserKnown
      <4>3. TokenSound(req[o])'
        BY <1>3, <1>6, <3>1 DEF RequestSound, TokenSound, TokensOf
      <4> QED
        BY <4>2, <4>3
    <3>3. SetupSound(req[o])'
      <4>1. CASE req[o].user = u
        BY <1>6, <1>8, <2>2, <3>1, <4>1 DEF SetupSound
      <4>2. CASE req[o].user # u
        BY <1>4, <1>6, <3>1, <4>2, RequestKinds DEF RequestSound, SetupSound,
           SettingPcs
      <4> QED
        BY <4>1, <4>2
    <3>4. ContextSound(req[o])'
      <4>1. CASE req[o].user = u
        BY <1>2, <1>6, <3>1, <4>1 DEF RequestSound, ContextSound
      <4>2. CASE req[o].user # u
        BY <1>4, <1>6, <3>1, <4>2, RequestKinds DEF RequestSound, ContextSound
      <4> QED
        BY <4>1, <4>2
    <3> QED
      BY <3>2, <3>3, <3>4 DEF RequestSound
  <2> QED
    BY <2>1, <2>2
<1>10. RowsKnown'
  <2>1. \A x \in Users : users[x] # None => users'[x] # None
    BY <1>4
  <2>2. /\ \A k \in store \cup issued : k.user \in Users
        /\ \A x \in TenantIds : tenants[x].founder \in Users \cup {None}
    BY DEF IInv, TypeOK, Token, TenantRow
  <2> QED
    BY <1>3, <2>1, <2>2 DEF IInv, RowsKnown
<1>11. StoredIsLatest'
  BY <1>3, <1>6 DEF IInv, StoredIsLatest
<1>12. FounderJoins'
  <2> SUFFICES ASSUME NEW x \in TenantIds, NEW f \in Users \ torn',
                      tenants[x].founder = f
               PROVE  \/ users'[f].tenant = x /\ users'[f].role = "ADMIN"
                      \/ \E o \in Joining(f)' : req'[o].tenant = x
    BY <1>3 DEF FounderJoins
  <2>1. f \notin torn
    BY <1>6
  <2>2. \/ users[f].tenant = x /\ users[f].role = "ADMIN"
        \/ \E o \in Joining(f) : req[o].tenant = x
    BY <2>1 DEF IInv, FounderJoins
  <2>3. CASE f = u
    <3>1. users[f].tenant # x
      BY <1>2, <2>1, <2>3, SessionAssumption
    <3>2. PICK o \in Joining(f) : req[o].tenant = x
      BY <2>2, <3>1
    <3>3. o = r
      BY <1>8, <2>1, <2>3, <3>2 DEF Joining, SettingUp, SettingPcs
    <3> QED
      BY <1>4, <2>3, <3>2, <3>3
  <2>4. CASE f # u
    <3>1. \A o \in Joining(f) : o \in Joining(f)' /\ req'[o] = req[o]
      BY <1>5, <2>4 DEF Joining, SettingUp
    <3> QED
      BY <1>4, <2>2, <2>4, <3>1
  <2> QED
    BY <2>3, <2>4
<1> QED
  BY <1>6, <1>7, <1>9, <1>10, <1>11, <1>12 DEF IInv

\* Switching a user on or off.
LEMMA InvSetActive ==
    ASSUME IInv, Record, NEW r \in Requests, SetActive(r)
    PROVE  IInv'
<1> DEFINE q == req[r]
           u == q.user
<1>1. q \in ToggleRequest /\ q.pc = "toggle" /\ RequestSound(q)
  BY RequestKinds DEF SetActive, IInv, TypeOK, RequestsSound
<1>2. /\ u \in Users /\ q.active \in BOOLEAN
      /\ users[u] # None /\ users[u] \in UserRow
  BY <1>1 DEF ToggleRequest, RequestSound, UserKnown, IInv, TypeOK
<1>3. /\ users' = [users EXCEPT ![u].active = q.active]
      /\ req' = [req EXCEPT ![r] = Idle]
      /\ UNCHANGED <<tenants, store, latest, issued, now>>
  BY DEF SetActive, Goto
<1>4. /\ users'[u] \in UserRow /\ users'[u] # None
      /\ users'[u].tenant = users[u].tenant /\ users'[u].role = users[u].role
      /\ \A x \in Users \ {u} : users'[x] = users[x]
      /\ users' \in [Users -> UserRow \cup {None}]
  <2>1. /\ users'[u] = [users[u] EXCEPT !.active = q.active]
        /\ \A x \in Users \ {u} : users'[x] = users[x]
        /\ DOMAIN users' = Users /\ users' = [x \in Users |-> users'[x]]
    BY <1>2, <1>3 DEF IInv, TypeOK
  <2>2. /\ users'[u] \in UserRow
        /\ users'[u].tenant = users[u].tenant /\ users'[u].role = users[u].role
    BY <1>2, <2>1 DEF UserRow
  <2>3. users'[u] # None
    BY <2>2, SessionAssumption
  <2> QED
    BY <2>1, <2>2, <2>3 DEF IInv, TypeOK
<1>5. /\ req' \in [Requests -> Request] /\ req'[r] = Idle
      /\ \A o \in Requests \ {r} : req'[o] = req[o]
  BY <1>3, IdleSound DEF IInv, TypeOK
<1>6. crossed \subseteq crossed' /\ torn \subseteq torn' /\ MeetingsRecorded'
  BY Recorded DEF IInv
<1>7. TypeOK'
  BY <1>3, <1>4, <1>5, Recorded DEF IInv, TypeOK
<1>8. \A x \in Users : users[x] # None => /\ users'[x] # None
                                          /\ users'[x].tenant = users[x].tenant
  BY <1>4
<1>9. RequestsSound'
  <2> SUFFICES ASSUME NEW o \in Requests PROVE RequestSound(req[o])'
    BY DEF RequestsSound
  <2>1. CASE o = r
    BY <1>5, <2>1, IdleSound DEF RequestSound, UserKnown, TokenSound, SetupSound,
                                 ContextSound
  <2>2. CASE o # r
    BY <1>3, <1>5, <1>8, <2>2, OthersSound DEF IInv
  <2> QED
    BY <2>1, <2>2
<1>10. RowsKnown'
  <2>1. /\ \A k \in store \cup issued : k.user \in Users
        /\ \A x \in TenantIds : tenants[x].founder \in Users \cup {None}
    BY DEF IInv, TypeOK, Token, TenantRow
  <2> QED
    BY <1>3, <1>8, <2>1 DEF IInv, RowsKnown
<1>11. StoredIsLatest'
  BY <1>3, <1>6 DEF IInv, StoredIsLatest
<1>12. FounderJoins'
  <2> SUFFICES ASSUME NEW x \in TenantIds, NEW f \in Users \ torn',
                      tenants[x].founder = f
               PROVE  \/ users'[f].tenant = x /\ users'[f].role = "ADMIN"
                      \/ \E o \in Joining(f)' : req'[o].tenant = x
    BY <1>3 DEF FounderJoins
  <2>1. users'[f].tenant = users[f].tenant /\ users'[f].role = users[f].role
    BY <1>4
  <2>2. \A o \in Joining(f) : o \in Joining(f)' /\ req'[o] = req[o]
    BY <1>1, <1>5 DEF Joining, SettingUp
  <2> QED
    BY <1>6, <2>1, <2>2 DEF IInv, FounderJoins
<1> QED
  BY <1>6, <1>7, <1>9, <1>10, <1>11, <1>12 DEF IInv

\* Tenants added, disabled and enabled keep their founders.
LEMMA InvTenant ==
    ASSUME IInv, Record, NEW t \in TenantIds, AddTenant(t) \/ ToggleTenant(t)
    PROVE  IInv'
<1>1. UNCHANGED <<users, store, latest, issued, req, now>>
  BY DEF AddTenant, ToggleTenant
<1>2. PICK s \in {"active", "disabled"} :
         tenants' = [tenants EXCEPT ![t].status = s]
  BY DEF AddTenant, ToggleTenant
<1>3. /\ tenants' \in [TenantIds -> TenantRow]
      /\ \A x \in TenantIds : tenants'[x].founder = tenants[x].founder
  BY <1>2 DEF IInv, TypeOK, TenantRow
<1>4. crossed \subseteq crossed' /\ torn \subseteq torn' /\ MeetingsRecorded'
  BY Recorded DEF IInv
<1>5. TypeOK'
  BY <1>1, <1>3, Recorded DEF IInv, TypeOK
<1>6. RequestsSound'
  BY <1>1, OthersSound DEF IInv, RequestsSound
<1>7. RowsKnown' /\ StoredIsLatest'
  BY <1>1, <1>3, <1>4 DEF IInv, RowsKnown, StoredIsLatest
<1>8. FounderJoins'
  BY <1>1, <1>3, <1>4 DEF IInv, FounderJoins, Joining, SettingUp
<1> QED
  BY <1>4, <1>5, <1>6, <1>7, <1>8 DEF IInv

LEMMA InvTick ==
    ASSUME IInv, Record, Tick
    PROVE  IInv'
<1>1. UNCHANGED <<users, tenants, store, latest, issued, req>>
  BY DEF Tick
<1>2. crossed \subseteq crossed' /\ torn \subseteq torn' /\ MeetingsRecorded'
  BY Recorded DEF IInv
<1>3. TypeOK'
  BY <1>1, Recorded DEF IInv, TypeOK, Tick
<1>4. RequestsSound'
  BY <1>1, OthersSound DEF IInv, RequestsSound
<1>5. RowsKnown' /\ StoredIsLatest' /\ FounderJoins'
  BY <1>1, <1>2 DEF IInv, RowsKnown, StoredIsLatest, FounderJoins, Joining,
                    SettingUp
<1> QED
  BY <1>2, <1>3, <1>4, <1>5 DEF IInv

-----------------------------------------------------------------------------
(* The theorems.                                                           *)

LEMMA InvInit == Init => IInv
<1> SUFFICES ASSUME Init PROVE IInv
  OBVIOUS
<1>1. TypeOK
  <2>1. \A u \in Users : RoleOf[u] # None =>
           NewUser(RoleOf[u], TenantOf[u]) \in UserRow
    BY SessionAssumption DEF NewUser, UserRow
  <2>2. users \in [Users -> UserRow \cup {None}]
    BY <2>1 DEF Init
  <2>3. tenants \in [TenantIds -> TenantRow]
    BY DEF Init, TenantRow
  <2> QED
    BY <2>2, <2>3, IdleSound DEF Init, TypeOK
<1>2. RequestsSound
  BY IdleSound DEF Init, RequestsSound
<1>3. MeetingsRecorded
  BY DEF Init, MeetingsRecorded, Several, SigningIn, SettingUp, Idle
<1>4. \A t \in TenantIds : tenants[t].founder = None
  BY DEF Init
<1>5. RowsKnown /\ StoredIsLatest
  BY <1>4 DEF Init, RowsKnown, StoredIsLatest
<1>6. FounderJoins
  BY <1>4, SessionAssumption DEF FounderJoins
<1> QED
  BY <1>1, <1>2, <1>3, <1>5, <1>6 DEF IInv

LEMMA InvNext == IInv /\ [Next]_vars => IInv'
<1> SUFFICES ASSUME IInv, [Next]_vars PROVE IInv'
  OBVIOUS
<1>1. CASE UNCHANGED vars
  BY <1>1 DEF vars, IInv, TypeOK, RequestsSound, RequestSound, UserKnown,
     TokenSound, SetupSound, ContextSound, TokensOf, MeetingsRecorded, Several,
     SigningIn, SettingUp, RowsKnown, StoredIsLatest, FounderJoins, Joining
<1>2. CASE Next
  <2>1. Record /\ Step
    BY <1>2 DEF Next
  <2>2. ASSUME NEW r \in Requests, RegisterStep(r) PROVE IInv'
    BY <2>1, <2>2, InvRegister, InvInsertUser DEF RegisterStep
  <2>3. ASSUME NEW r \in Requests, SignInStep(r) PROVE IInv'
    BY <2>1, <2>3, InvSignInReads, InvRevoke, InvStore DEF SignInStep
  <2>4. ASSUME NEW r \in Requests, SetupStep(r) PROVE IInv'
    BY <2>1, <2>4, InvSetupReads, InvCreateTenant, InvJoinTenant DEF SetupStep
  <2>5. ASSUME NEW r \in Requests, ToggleStep(r) PROVE IInv'
    <3>1. ASSUME NEW a \in Registered, NEW u \in Registered,
                 NEW active \in BOOLEAN, ToggleUser(r, a, u, active)
          PROVE  IInv'
      BY <2>1, <3>1, InvToggleReads
    <3>2. ASSUME NEW u \in Registered, NEW active \in BOOLEAN,
                 ToggleAnyUser(r, u, active)
          PROVE  IInv'
      BY <2>1, <3>2, InvToggleReads
    <3> QED
      BY <2>1, <2>5, <3>1, <3>2, InvSetActive DEF ToggleStep
  <2>6. ASSUME NEW r \in Requests, Abort(r) PROVE IInv'
    BY <2>1, <2>6, IdleSound, PlainStep DEF Abort, Goto
  <2> QED
    BY <2>1, <2>2, <2>3, <2>4, <2>5, <2>6, InvLogout, InvAccess, InvTenant,
       InvTick DEF Step
<1> QED
  BY <1>1, <1>2

LEMMA Inductive == Spec => []IInv
BY InvInit, InvNext, PTL DEF Spec

\* Rows, tokens and requests keep to their types: in particular no token is
\* signed for a user who is not there.
THEOREM SessionTypes == Spec => []TypeOK
<1>1. IInv => TypeOK
  BY DEF IInv
<1> QED
  BY <1>1, Inductive, PTL

\* The one refresh token that works is the last one given, unless two sign-ins
\* of the user have crossed.
THEOREM WorkingTokenIsLatest == Spec => []StoredIsLatest
<1>1. IInv => StoredIsLatest
  BY DEF IInv
<1> QED
  BY <1>1, Inductive, PTL

\* A founder is the administrator of the tenant, unless the setup is under way,
\* stopped, or met another.
THEOREM FoundersJoin == Spec => []FounderJoins
<1>1. IInv => FounderJoins
  BY DEF IInv
<1> QED
  BY <1>1, Inductive, PTL

\* The tenant a request was admitted for stays that of its user.
THEOREM ContextsAreCurrent == Spec => []ContextIsCurrent
<1>1. IInv => ContextIsCurrent
  BY DEF IInv, RequestsSound, RequestSound, ContextSound, ContextIsCurrent
<1> QED
  BY <1>1, Inductive, PTL

-----------------------------------------------------------------------------
(* One setup, one tenant.                                                   *)

\* A user founds one tenant at most, unless two of the user's setups met: a
\* founder who still has to join has none, and one join is all there is.
THEOREM OneTenantEach == Spec => []FoundsOnce
<1>1. ASSUME IInv
      PROVE  FoundsOnce
  <2> SUFFICES ASSUME NEW u \in Users \ torn,
                      NEW t1 \in TenantIds, NEW t2 \in TenantIds,
                      tenants[t1].founder = u, tenants[t2].founder = u
               PROVE  t1 = t2
    BY DEF FoundsOnce
  <2>1. ASSUME NEW r \in Joining(u)
        PROVE  users[u].tenant = None
    <3>1. r \in Requests /\ req[r].pc = "joinTenant" /\ req[r].user = u
      BY DEF Joining, SettingUp
    <3> QED
      BY <1>1, <3>1 DEF IInv, RequestsSound, RequestSound, SetupSound, SettingPcs
  <2>2. \A r1, r2 \in Joining(u) : r1 = r2
    BY <1>1 DEF IInv, MeetingsRecorded, Several, Joining
  <2>3. ASSUME NEW t \in TenantIds, tenants[t].founder = u
        PROVE  \/ users[u].tenant = t /\ t # None
               \/ \E r \in Joining(u) : req[r].tenant = t
    BY <1>1, <2>3, SessionAssumption DEF IInv, FounderJoins
  <2> QED
    BY <2>1, <2>2, <2>3
<1> QED
  BY <1>1, Inductive, PTL

\* The only writes to a row of users: the row itself, a join, a switch.
LEMMA UserWrites ==
    ASSUME Step
    PROVE  \/ users' = users
           \/ \E r \in Requests : InsertUser(r) \/ JoinTenant(r) \/ SetActive(r)
<1>1. ASSUME NEW r \in Requests, RegisterStep(r)
      PROVE  users' = users \/ InsertUser(r)
  BY <1>1 DEF RegisterStep, Register
<1>2. ASSUME NEW r \in Requests, SignInStep(r)
      PROVE  users' = users
  BY <1>2 DEF SignInStep, Login, LoginTenant, Refresh, ReadUser, Sign, Revoke, Store
<1>3. ASSUME NEW r \in Requests, LogoutStep(r)
      PROVE  users' = users
  BY <1>3 DEF LogoutStep, Logout, DeleteToken
<1>4. ASSUME NEW r \in Requests, SetupStep(r)
      PROVE  users' = users \/ JoinTenant(r)
  BY <1>4 DEF SetupStep, SetupTenant, CheckSlug, CreateTenant
<1>5. ASSUME NEW r \in Requests, ToggleStep(r)
      PROVE  users' = users \/ SetActive(r)
  BY <1>5 DEF ToggleStep, ToggleUser, ToggleAnyUser
<1>6. ASSUME NEW r \in Requests, AccessStep(r)
      PROVE  users' = users
  BY <1>6 DEF AccessStep, Access, CheckTenant, Serve
<1>7. ASSUME NEW r \in Requests, Abort(r)
      PROVE  users' = users
  BY <1>7 DEF Abort
<1> QED
  BY <1>1, <1>2, <1>3, <1>4, <1>5, <1>6, <1>7
  DEF Step, AddTenant, ToggleTenant, Tick

\* Nothing moves a user out of the tenant, nor out of the role, it has come
\* to: the setup that would is refused, unless it met another one.
THEOREM TenantsAreFinal == Spec => TenantIsFinal
<1> DEFINE Kept == \A u \in Registered \ torn :
                      users[u].tenant # None
                      => /\ users'[u].tenant = users[u].tenant
                         /\ users'[u].role = users[u].role
<1>1. ASSUME IInv, Next
      PROVE  Kept
  <2> SUFFICES ASSUME NEW u \in Registered \ torn, users[u].tenant # None
               PROVE  /\ users'[u].tenant = users[u].tenant
                      /\ users'[u].role = users[u].role
    OBVIOUS
  <2>1. /\ u \in Users /\ users[u] # None /\ users[u] \in UserRow
        /\ users = [x \in Users |-> users[x]]
    BY <1>1 DEF Registered, IInv, TypeOK
  <2>2. CASE users' = users
    BY <2>2
  <2>3. ASSUME NEW r \in Requests, InsertUser(r)
        PROVE  users'[u] = users[u]
    <3>1. req[r].user # u
      BY <2>1, <2>3 DEF InsertUser
    <3> QED
      BY <2>1, <2>3, <3>1 DEF InsertUser
  <2>4. ASSUME NEW r \in Requests, JoinTenant(r)
        PROVE  users'[u] = users[u]
    <3>1. req[r].user # u
      BY <1>1, <2>4 DEF JoinTenant, IInv, RequestsSound, RequestSound,
                        SetupSound, SettingPcs
    <3> QED
      BY <2>1, <2>4, <3>1 DEF JoinTenant
  <2>5. ASSUME NEW r \in Requests, SetActive(r)
        PROVE  /\ users'[u].tenant = users[u].tenant
               /\ users'[u].role = users[u].role
    BY <2>1, <2>5 DEF SetActive, UserRow
  <2> QED
    BY <1>1, <2>2, <2>3, <2>4, <2>5, UserWrites DEF Next
<1>2. IInv /\ [Next]_vars => [Kept]_vars
  BY <1>1
<1> QED
  BY <1>2, Inductive, PTL DEF Spec, TenantIsFinal

-----------------------------------------------------------------------------
(* Tokens counted: the deletion of a sign-in takes all tokens of the user   *)
(* away, and its one token takes the place of the sign-in itself.           *)

Storing(u) == {r \in SigningIn(u) : req[r].pc = "store"}

\* A step that neither adds a token nor brings a sign-in to its INSERT.
NoneAdded ==
    /\ store' \subseteq store
    /\ \A r \in Requests : req'[r].pc = "store" => req'[r] = req[r]

LEMMA MovesElsewhere ==
    ASSUME TypeOK, NEW r \in Requests, NEW STATE q, q.pc # "store",
           req' = [req EXCEPT ![r] = q], store' \subseteq store
    PROVE  NoneAdded
<1>1. \A o \in Requests : req'[o] = IF o = r THEN q ELSE req[o]
  BY DEF TypeOK
<1> QED
  BY <1>1 DEF NoneAdded

LEMMA OnlySignInsAdd ==
    ASSUME IInv, Step
    PROVE  \/ NoneAdded
           \/ \E r \in Requests : Revoke(r) \/ Store(r)
<1> USE DEF IInv, Goto
<1>1. Idle.pc # "store"
  BY DEF Idle
<1>2. ASSUME NEW r \in Requests,
             NEW pc \in {"sign", "createTenant", "joinTenant", "granted"},
             req[r].pc \in {"loginTenant", "checkSlug", "createTenant",
                            "checkTenant"},
             req' = [req EXCEPT ![r].pc = pc], UNCHANGED store
      PROVE  NoneAdded
  <2> DEFINE q == [req[r] EXCEPT !.pc = pc]
  <2>1. req[r] \in Request
    BY DEF TypeOK
  <2>2. q.pc = pc
    BY <1>2, <2>1, RequestKinds DEF SetupRequest, AccessRequest, SettingPcs
  <2>3. q.pc # "store" /\ req' = [req EXCEPT ![r] = q]
    BY <1>2, <2>2
  <2> HIDE DEF q
  <2> QED
    BY <1>2, <2>3, MovesElsewhere
<1>3. ASSUME NEW r \in Requests, NEW STATE q, q.pc # "store",
             req' = [req EXCEPT ![r] = q], store' \subseteq store
      PROVE  NoneAdded
  BY <1>3, MovesElsewhere
<1>4. CASE UNCHANGED <<req, store>>
  BY <1>4 DEF NoneAdded
<1>5. ASSUME NEW r \in Requests, RegisterStep(r)
      PROVE  NoneAdded
  <2>1. ASSUME NEW u \in Users, NEW role \in Roles, Register(r, u, role)
        PROVE  NoneAdded
    BY <2>1, <1>3 DEF Register
  <2> QED
    BY <1>1, <1>3, <1>5, <2>1 DEF RegisterStep, InsertUser
<1>6. ASSUME NEW r \in Requests, SignInStep(r), ~Revoke(r), ~Store(r)
      PROVE  NoneAdded
  <2>1. ASSUME NEW u \in Registered, Login(r, u)
        PROVE  NoneAdded
    <3> DEFINE q == [pc |-> IF users[u].tenant = None THEN "sign"
                                                      ELSE "loginTenant",
                     user |-> u, seen |-> users[u], given |-> None]
    <3>1. q.pc # "store" /\ req' = [req EXCEPT ![r] = q] /\ UNCHANGED store
      BY <2>1 DEF Login
    <3> HIDE DEF q
    <3> QED
      BY <3>1, <1>3
  <2>2. ASSUME NEW k \in store, Refresh(r, k)
        PROVE  NoneAdded
    BY <2>2, <1>3 DEF Refresh
  <2>3. CASE LoginTenant(r)
    BY <2>3, <1>1, <1>2, <1>3 DEF LoginTenant
  <2>4. CASE ReadUser(r)
    BY <2>4, <1>3 DEF ReadUser
  <2>5. CASE Sign(r)
    BY <2>5, <1>3 DEF Sign
  <2> QED
    BY <1>6, <2>1, <2>2, <2>3, <2>4, <2>5 DEF SignInStep
<1>7. ASSUME NEW r \in Requests, LogoutStep(r)
      PROVE  NoneAdded
  <2>1. ASSUME NEW k \in store, Logout(r, k)
        PROVE  NoneAdded
    BY <2>1, <1>3 DEF Logout
  <2> QED
    BY <1>1, <1>3, <1>7, <2>1 DEF LogoutStep, DeleteToken
<1>8. ASSUME NEW r \in Requests, SetupStep(r)
      PROVE  NoneAdded
  <2>1. ASSUME NEW u \in Registered, NEW t \in TenantIds, SetupTenant(r, u, t)
        PROVE  NoneAdded
    BY <2>1, <1>3 DEF SetupTenant
  <2>2. CASE CheckSlug(r)
    BY <2>2, <1>1, <1>2, <1>3 DEF CheckSlug
  <2>3. CASE CreateTenant(r)
    BY <2>3, <1>2 DEF CreateTenant
  <2> QED
    BY <1>1, <1>3, <1>8, <2>1, <2>2, <2>3 DEF SetupStep, JoinTenant
<1>9. ASSUME NEW r \in Requests, ToggleStep(r)
      PROVE  NoneAdded
  <2>1. ASSUME NEW a \in Registered, NEW u \in Registered,
               NEW active \in BOOLEAN, ToggleUser(r, a, u, active)
        PROVE  NoneAdded
    BY <2>1, <1>3 DEF ToggleUser
  <2>2. ASSUME NEW u \in Registered, NEW active \in BOOLEAN,
               ToggleAnyUser(r, u, active)
        PROVE  NoneAdded
    BY <2>2, <1>3 DEF ToggleAnyUser
  <2> QED
    BY <1>1, <1>3, <1>9, <2>1, <2>2 DEF ToggleStep, SetActive
<1>10. ASSUME NEW r \in Requests, AccessStep(r)
       PROVE  NoneAdded
  <2>1. ASSUME NEW k \in issued, Access(r, k)
        PROVE  NoneAdded
    <3> DEFINE u == users[k.user]
               q == [pc |-> IF u.tenant = None THEN "granted" ELSE "checkTenant",
                     user |-> k.user, tenant |-> u.tenant]
    <3>1. q.pc # "store" /\ req' = [req EXCEPT ![r] = q] /\ UNCHANGED store
      BY <2>1 DEF Access
    <3> HIDE DEF q
    <3> QED
      BY <3>1, <1>3
  <2>2. CASE CheckTenant(r)
    BY <2>2, <1>1, <1>2, <1>3 DEF CheckTenant
  <2> QED
    BY <1>1, <1>3, <1>10, <2>1, <2>2 DEF AccessStep, Serve
<1>11. ASSUME NEW r \in Requests, Abort(r)
       PROVE  NoneAdded
  BY <1>1, <1>3, <1>11 DEF Abort
<1> QED
  BY <1>4, <1>5, <1>6, <1>7, <1>8, <1>9, <1>10, <1>11
     DEF Step, AddTenant, ToggleTenant, Tick

Counted == IsFiniteSet(store) /\ TokensBoundedByRace

LEMMA CountFacts ==
    ASSUME IsFiniteSet(store), NEW u
    PROVE  /\ IsFiniteSet(TokensOf(u)) /\ Cardinality(TokensOf(u)) \in Nat
           /\ IsFiniteSet(Storing(u)) /\ Cardinality(Storing(u)) \in Nat
           /\ Cardinality(Storing(u)) <= Cardinality(Requests)
           /\ Cardinality(Requests) \in Nat
<1>1. TokensOf(u) \subseteq store /\ Storing(u) \subseteq Requests
  BY DEF TokensOf, Storing, SigningIn
<1> QED
  BY <1>1, SessionAssumption, FS_Subset, FS_CardinalityType

LEMMA CountNext ==
    ASSUME IInv, Counted, [Next]_vars
    PROVE  Counted'
<1>1. CASE NoneAdded
  <2>1. IsFiniteSet(store')
    BY <1>1, FS_Subset DEF NoneAdded, Counted
  <2> SUFFICES ASSUME NEW u \in Users
               PROVE  Cardinality(TokensOf(u)') + Cardinality(Storing(u)')
                        <= Cardinality(Requests)
    BY <2>1 DEF Counted, TokensBoundedByRace, Storing
  <2>2. TokensOf(u)' \subseteq TokensOf(u)
    BY <1>1 DEF NoneAdded, TokensOf
  <2>3. Storing(u)' \subseteq Storing(u)
    BY <1>1 DEF NoneAdded, Storing, SigningIn
  <2>4. /\ Cardinality(TokensOf(u)') \in Nat
        /\ Cardinality(TokensOf(u)') <= Cardinality(TokensOf(u))
        /\ Cardinality(Storing(u)') \in Nat
        /\ Cardinality(Storing(u)') <= Cardinality(Storing(u))
    BY <2>2, <2>3, CountFacts, FS_Subset, FS_CardinalityType DEF Counted
  <2>5. Cardinality(TokensOf(u)) + Cardinality(Storing(u))
          <= Cardinality(Requests)
    BY DEF Counted, TokensBoundedByRace, Storing
  <2> QED
    BY <2>4, <2>5, CountFacts DEF Counted
<1>2. ASSUME NEW r \in Requests, Revoke(r)
      PROVE  Counted'
  <2>1. store' \subseteq store
    BY <1>2 DEF Revoke
  <2>2. IsFiniteSet(store)'
    BY <2>1, FS_Subset DEF Counted
  <2>3. /\ req[r] \in [pc: {"revoke", "store"}, user: Users, token: Token,
                       given: Token \cup {None}]
        /\ req \in [Requests -> Request]
    BY <1>2, RequestKinds DEF Revoke, IInv, TypeOK
  <2>4. req'[r].user = req[r].user /\ \A o \in Requests \ {r} : req'[o] = req[o]
    BY <1>2, <2>3 DEF Revoke
  <2> SUFFICES ASSUME NEW u \in Users
               PROVE  Cardinality(TokensOf(u)') + Cardinality(Storing(u)')
                        <= Cardinality(Requests)
    BY <2>2 DEF Counted, TokensBoundedByRace, Storing
  <2>5. CASE u = req[r].user
    <3>1. TokensOf(u)' = {}
      BY <1>2, <2>5 DEF Revoke, TokensOf
    <3>2. Storing(u)' \subseteq Requests
      BY DEF Storing, SigningIn
    <3>3. /\ Cardinality(Storing(u)') \in Nat
          /\ Cardinality(Storing(u)') <= Cardinality(Requests)
      BY <3>2, SessionAssumption, FS_Subset, FS_CardinalityType
    <3> QED
      BY <3>1, <3>3, FS_EmptySet
  <2>6. CASE u # req[r].user
    <3>1. TokensOf(u)' = TokensOf(u)
      BY <1>2, <2>6 DEF Revoke, TokensOf
    <3>2. Storing(u)' \subseteq Storing(u)
      BY <2>4, <2>6 DEF Storing, SigningIn
    <3>3. /\ Cardinality(Storing(u)') \in Nat
          /\ Cardinality(Storing(u)') <= Cardinality(Storing(u))
      BY <3>2, CountFacts, FS_Subset, FS_CardinalityType DEF Counted
    <3>4. Cardinality(TokensOf(u)) + Cardinality(Storing(u))
            <= Cardinality(Requests)
      BY DEF Counted, TokensBoundedByRace, Storing
    <3> QED
      BY <3>1, <3>3, <3>4, CountFacts DEF Counted
  <2> QED
    BY <2>5, <2>6
<1>3. ASSUME NEW r \in Requests, Store(r)
      PROVE  Counted'
  <2>1. /\ store' = store \cup {req[r].token} /\ req[r].token \notin store
        /\ req[r].pc = "store" /\ req' = [req EXCEPT ![r] = Idle]
    BY <1>3 DEF Store, Goto
  <2>2. IsFiniteSet(store)'
    BY <2>1, FS_AddElement DEF Counted
  <2>3. req[r].token.user = req[r].user
    BY <2>1 DEF IInv, RequestsSound, RequestSound, TokenSound
  <2>4. \A o \in Requests : req'[o] = IF o = r THEN Idle ELSE req[o]
    BY <2>1 DEF IInv, TypeOK
  <2> SUFFICES ASSUME NEW u \in Users
               PROVE  Cardinality(TokensOf(u)') + Cardinality(Storing(u)')
                        <= Cardinality(Requests)
    BY <2>2 DEF Counted, TokensBoundedByRace, Storing
  <2>5. Cardinality(TokensOf(u)) + Cardinality(Storing(u))
          <= Cardinality(Requests)
    BY DEF Counted, TokensBoundedByRace, Storing
  <2>6. CASE u = req[r].user
    <3>1. /\ TokensOf(u)' = TokensOf(u) \cup {req[r].token}
          /\ req[r].token \notin TokensOf(u)
      BY <2>1, <2>3, <2>6 DEF TokensOf
    <3>2. Storing(u)' = Storing(u) \ {r} /\ r \in Storing(u)
      BY <2>1, <2>4, <2>6 DEF Storing, SigningIn, Idle
    <3>3. Cardinality(TokensOf(u)') = Cardinality(TokensOf(u)) + 1
      <4>1. IsFiniteSet(TokensOf(u))
        BY CountFacts DEF Counted
      <4> QED
        BY <3>1, <4>1, FS_AddElement
    <3>4. Cardinality(Storing(u)') = Cardinality(Storing(u)) - 1
      <4>1. IsFiniteSet(Storing(u))
        BY CountFacts DEF Counted
      <4> QED
        BY <3>2, <4>1, FS_RemoveElement
    <3> QED
      BY <2>5, <3>3, <3>4, CountFacts DEF Counted
  <2>7. CASE u # req[r].user
    <3>1. TokensOf(u)' = TokensOf(u)
      BY <2>1, <2>3, <2>7 DEF TokensOf
    <3>2. Storing(u)' = Storing(u)
      BY <2>1, <2>4, <2>7 DEF Storing, SigningIn, Idle
    <3> QED
      BY <2>5, <3>1, <3>2
  <2> QED
    BY <2>6, <2>7
<1>4. CASE UNCHANGED vars
  BY <1>1, <1>4 DEF vars, NoneAdded
<1> QED
  BY <1>1, <1>2, <1>3, <1>4, OnlySignInsAdd DEF Next

\* However many sign-ins of a user cross, the tokens they leave are at most as
\* many as the requests that can be in flight.
THEOREM TokensBounded == Spec => []TokensBoundedByRace
<1>1. Init => Counted
  <2> SUFFICES ASSUME Init
               PROVE  Counted
    OBVIOUS
  <2>1. IsFiniteSet(store)
    BY FS_EmptySet DEF Init
  <2>2. \A u \in Users : TokensOf(u) = {} /\ Storing(u) = {}
    BY DEF Init, TokensOf, Storing, SigningIn, Idle
  <2>3. Cardinality({}) = 0 /\ Cardinality(Requests) \in Nat
    BY SessionAssumption, FS_EmptySet, FS_CardinalityType
  <2>4. \A u \in Users : Cardinality(TokensOf(u)) + Cardinality(Storing(u))
                          <= Cardinality(Requests)
    BY <2>2, <2>3
  <2> QED
    BY <2>1, <2>4 DEF Counted, TokensBoundedByRace, Storing
<1>2. IInv /\ Counted /\ [Next]_vars => Counted'
  BY CountNext
<1>3. Counted => TokensBoundedByRace
  BY DEF Counted
<1> QED
  BY <1>1, <1>2, <1>3, Inductive, PTL DEF Spec
=============================================================================
