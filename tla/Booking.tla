------------------------------ MODULE Booking ------------------------------
(***************************************************************************)
(* Slot holds and bookings: SlotService and BookingService over the tables *)
(* slot_holds, bookings, booking_status_logs and services.                 *)
(*                                                                         *)
(* A handler runs from one `await' to the next without interruption, so a  *)
(* step of this module is the code between two awaits together with the    *)
(* one statement it waits for.  What a handler remembers over an await is  *)
(* in req.  A Prisma $transaction here reads nothing that decides what it  *)
(* writes to these tables, so it is one step: it commits whole or not at   *)
(* all.  The fee cancelBooking works out in its own is CancellationPolicy. *)
(***************************************************************************)
EXTENDS Access, Integers, Sequences, FiniteSets

CONSTANTS
    Tenants, Users, Providers, Services,
    HoldIds, BookingIds,  \* the uuids the database may hand out
    Requests,             \* the handlers that may be in flight together
    Slots,                \* the [start, end) intervals a client may ask for
    RoleOf,               \* the role of a user
    TenantOf,             \* the tenant of a user (a SUPER_ADMIN has none)
    ProviderTenant,       \* the tenant of a provider profile
    ProviderUser,         \* the user a provider profile belongs to
    ServiceProvider,      \* the provider that offers a service
    HoldTTL,              \* lifetime of a hold, in ticks
    MaxTime,              \* bound on the clock
    Unused,               \* the place of a row not inserted yet
    Deleted               \* the place of a row deleted: its uuid never returns

VARIABLES
    services,  \* services[s]: "active", "inactive" or "deleted"
    holds,     \* holds[h]: a row of slot_holds, Unused or Deleted
    bookings,  \* bookings[b]: a row of bookings, or Unused
    logs,      \* logs[b]: the rows of booking_status_logs of b, in order
    req,       \* req[r]: where handler r is and what it has read
    now        \* the clock

vars == <<services, holds, bookings, logs, req, now>>

-----------------------------------------------------------------------------
(* The rows of the tables.                                                 *)

Status == {"PENDING", "CONFIRMED", "IN_PROGRESS", "COMPLETED",
           "CANCELLED", "NO_SHOW"}

\* The statuses the conflict query of createBooking leaves out.
Released == {"CANCELLED", "NO_SHOW"}

HoldRow ==
    [tenant: Tenants, customer: Users, provider: Providers, service: Services,
     slot: Slots, expiresAt: Nat, isConverted: BOOLEAN]

\* hold and checked are auxiliary: the hold a booking was made from, and the
\* bookings that existed when its conflict query ran.
BookingRow ==
    [tenant: Tenants, customer: Users, provider: Providers, service: Services,
     slot: Slots, status: Status, version: Nat,
     hold: HoldIds, checked: SUBSET BookingIds]

LogRow == [previous: Status \cup {"NULL"}, new: Status]

(***************************************************************************)
(* A handler between two awaits.  The label says what it does next.        *)
(***************************************************************************)
Idle == [pc |-> "idle"]

Customers == {u \in Users : RoleOf[u] = "CUSTOMER" /\ TenantOf[u] \in Tenants}

HoldRequest   == [pc: {"insertHold"}, user: Customers, provider: Providers,
                  service: Services, slot: Slots]
BookRequest   == [pc: {"checkConflict", "fetchService", "insertBooking"},
                  user: Customers, hold: HoldIds, seen: HoldRow,
                  checked: SUBSET BookingIds]
StatusRequest == [pc: {"confirm", "cancel", "complete"},
                  booking: BookingIds, status: Status, version: Nat]

Request == {Idle} \cup HoldRequest \cup BookRequest \cup StatusRequest

ASSUME ConstantsAssumption ==
    /\ RoleOf \in [Users -> UserRole]
    /\ ProviderTenant \in [Providers -> Tenants]
    /\ ProviderUser \in [Providers -> Users]
    /\ ServiceProvider \in [Services -> Providers]
    /\ Slots \subseteq [start: Nat, end: Nat]
    /\ HoldTTL \in Nat
    /\ MaxTime \in Nat

ASSUME RowAssumption ==
    /\ Unused \notin HoldRow \cup BookingRow
    /\ Unused \notin [provider: Providers, slot: Slots, status: Status]
    /\ Deleted \notin HoldRow
    /\ Deleted # Unused

TypeOK ==
    /\ services \in [Services -> {"active", "inactive", "deleted"}]
    /\ holds \in [HoldIds -> HoldRow \cup {Unused, Deleted}]
    /\ bookings \in [BookingIds -> BookingRow \cup {Unused}]
    /\ logs \in [BookingIds -> Seq(LogRow)]
    /\ req \in [Requests -> Request]
    /\ now \in Nat

HeldIds   == {h \in HoldIds : holds[h] \notin {Unused, Deleted}}
BookedIds == {b \in BookingIds : bookings[b] # Unused}

Init ==
    /\ services = [s \in Services |-> "active"]
    /\ holds = [h \in HoldIds |-> Unused]
    /\ bookings = [b \in BookingIds |-> Unused]
    /\ logs = [b \in BookingIds |-> <<>>]
    /\ req = [r \in Requests |-> Idle]
    /\ now = 0

Overlap(s, t) == s.start < t.end /\ s.end > t.start

-----------------------------------------------------------------------------
(* SlotService.                                                            *)

\* The lookup: an active service of that provider, who belongs to the tenant.
Offered(t, p, s) ==
    /\ services[s] = "active"
    /\ ServiceProvider[s] = p
    /\ ProviderTenant[p] = t

\* createHold up to the lookup of the service.
CreateHold(r, u, p, s, slot) ==
    /\ req[r] = Idle
    /\ u \in Customers
    /\ slot.start < slot.end
    /\ slot.start >= now
    /\ Offered(TenantOf[u], p, s)
    /\ req' = [req EXCEPT ![r] = [pc |-> "insertHold", user |-> u,
                                  provider |-> p, service |-> s,
                                  slot |-> slot]]
    /\ UNCHANGED <<services, holds, bookings, logs, now>>

NewHoldRow(q) ==
    [tenant |-> TenantOf[q.user], customer |-> q.user,
     provider |-> q.provider, service |-> q.service, slot |-> q.slot,
     expiresAt |-> now + HoldTTL, isConverted |-> FALSE]

\* createHold: the INSERT.  Its foreign key refuses a service deleted since
\* the lookup; nothing looks at bookings or at other holds.
InsertHold(r, h) ==
    /\ req[r].pc = "insertHold"
    /\ holds[h] = Unused
    /\ services[req[r].service] # "deleted"
    /\ holds' = [holds EXCEPT ![h] = NewHoldRow(req[r])]
    /\ req' = [req EXCEPT ![r] = Idle]
    /\ UNCHANGED <<services, bookings, logs, now>>

Expired(hold) == hold.expiresAt < now

\* Mutant: the cleanup forgets isConverted.
StaleAnyHold(t) == {h \in HeldIds : holds[h].tenant = t /\ Expired(holds[h])}

\* The rows the deleteMany of deleteExpiredHolds takes.
Stale(t) == {h \in HeldIds : /\ holds[h].tenant = t
                             /\ Expired(holds[h])
                             /\ ~holds[h].isConverted}

\* deleteExpiredHolds.
DeleteExpiredHolds(t) ==
    /\ Stale(t) # {}
    /\ holds' = [h \in HoldIds |-> IF h \in Stale(t) THEN Deleted ELSE holds[h]]
    /\ UNCHANGED <<services, bookings, logs, req, now>>

-----------------------------------------------------------------------------
(* BookingService.createBooking.                                           *)

\* Mutant: nobody asks whether the hold is used up.
UsableTwice(u, h) ==
    /\ holds[h].customer = u
    /\ holds[h].tenant = TenantOf[u]
    /\ ~Expired(holds[h])

\* A hold of the customer that still stands.
Usable(u, h) ==
    /\ ~holds[h].isConverted
    /\ holds[h].customer = u
    /\ holds[h].tenant = TenantOf[u]
    /\ ~Expired(holds[h])

\* The lookup of the hold and the checks on it.
ReadHold(r, u, h) ==
    /\ req[r] = Idle
    /\ u \in Customers
    /\ h \in HeldIds
    /\ Usable(u, h)
    /\ req' = [req EXCEPT ![r] = [pc |-> "checkConflict", user |-> u,
                                  hold |-> h, seen |-> holds[h],
                                  checked |-> {}]]
    /\ UNCHANGED <<services, holds, bookings, logs, now>>

\* Mutant: only bookings that start inside the hold conflict with it.
ConflictsByStart(hold) ==
    {b \in BookedIds : /\ bookings[b].provider = hold.provider
                       /\ bookings[b].status \notin Released
                       /\ bookings[b].slot.start >= hold.slot.start
                       /\ bookings[b].slot.start < hold.slot.end}

\* Mutant: a booking nobody has confirmed yet does not conflict.
ConflictsIgnorePending(hold) ==
    {b \in BookedIds : /\ bookings[b].provider = hold.provider
                       /\ bookings[b].status \notin Released \cup {"PENDING"}
                       /\ Overlap(bookings[b].slot, hold.slot)}

\* The conflict query: it sees bookings, not holds.
Conflicts(hold) ==
    {b \in BookedIds : /\ bookings[b].provider = hold.provider
                       /\ bookings[b].status \notin Released
                       /\ Overlap(bookings[b].slot, hold.slot)}

CheckConflict(r) ==
    /\ req[r].pc = "checkConflict"
    /\ \/ /\ Conflicts(req[r].seen) = {}
          /\ req' = [req EXCEPT ![r].pc = "fetchService",
                                ![r].checked = BookedIds]
       \/ /\ Conflicts(req[r].seen) # {}
          /\ req' = [req EXCEPT ![r] = Idle]
    /\ UNCHANGED <<services, holds, bookings, logs, now>>

FetchService(r) ==
    /\ req[r].pc = "fetchService"
    /\ \/ /\ services[req[r].seen.service] # "deleted"
          /\ req' = [req EXCEPT ![r].pc = "insertBooking"]
       \/ /\ services[req[r].seen.service] = "deleted"
          /\ req' = [req EXCEPT ![r] = Idle]
    /\ UNCHANGED <<services, holds, bookings, logs, now>>

NewBookingRow(q) ==
    [tenant |-> TenantOf[q.user], customer |-> q.user,
     provider |-> q.seen.provider, service |-> q.seen.service,
     slot |-> q.seen.slot, status |-> "PENDING", version |-> 1,
     hold |-> q.hold, checked |-> q.checked]

LogEntry(previous, new) == [previous |-> previous, new |-> new]

\* The transaction: the booking, the hold marked converted, the first log row.
\* The update of the hold has no condition but its id, so it fails, and rolls
\* the transaction back, only when the row is gone.
InsertBooking(r, b) ==
    LET q == req[r] IN
    /\ q.pc = "insertBooking"
    /\ bookings[b] = Unused
    /\ q.hold \in HeldIds
    /\ bookings' = [bookings EXCEPT ![b] = NewBookingRow(q)]
    /\ holds' = [holds EXCEPT ![q.hold].isConverted = TRUE]
    /\ logs' = [logs EXCEPT ![b] = <<LogEntry("NULL", "PENDING")>>]
    /\ req' = [req EXCEPT ![r] = Idle]
    /\ UNCHANGED <<services, now>>

-----------------------------------------------------------------------------
(* BookingService: confirm, cancel, complete.                              *)

\* findOneOrThrow: the users a booking is shown to.
MayAccess(u, row) ==
    \/ RoleOf[u] = "SUPER_ADMIN"
    \/ /\ TenantOf[u] \in Tenants
       /\ row.tenant = TenantOf[u]
       /\ RoleOf[u] = "CUSTOMER" => row.customer = u
       /\ RoleOf[u] = "PROVIDER" => ProviderUser[row.provider] = u

\* Mutants: confirm does not look at the status, cancel takes a completed one.
ConfirmAllowedAnyStatus(u, status) == RoleOf[u] # "CUSTOMER"
CancelAllowedCompleted(u, status) == status # "CANCELLED"

ConfirmAllowed(u, status) == RoleOf[u] # "CUSTOMER" /\ status = "PENDING"
CancelAllowed(u, status) == status \notin {"CANCELLED", "COMPLETED"}
CompleteAllowed(u, status) ==
    RoleOf[u] # "CUSTOMER" /\ status \in {"CONFIRMED", "IN_PROGRESS"}

\* Each of the three handlers first reads the booking and checks what it read.
ReadBooking(r, u, b, pc) ==
    /\ req[r] = Idle
    /\ b \in BookedIds
    /\ MayAccess(u, bookings[b])
    /\ req' = [req EXCEPT ![r] = [pc |-> pc, booking |-> b,
                                  status |-> bookings[b].status,
                                  version |-> bookings[b].version]]
    /\ UNCHANGED <<services, holds, bookings, logs, now>>

ReadConfirm(r, u, b) ==
    ReadBooking(r, u, b, "confirm") /\ ConfirmAllowed(u, bookings[b].status)
ReadCancel(r, u, b) ==
    ReadBooking(r, u, b, "cancel") /\ CancelAllowed(u, bookings[b].status)
ReadComplete(r, u, b) ==
    ReadBooking(r, u, b, "complete") /\ CompleteAllowed(u, bookings[b].status)

Moved(row, new) == [row EXCEPT !.status = new, !.version = row.version + 1]

\* Mutants: the transaction forgets the log, forgets the version, or always
\* logs PENDING as the previous status, as confirmBooking does.
SetStatusUnlogged(r, new) ==
    LET q == req[r] IN
    /\ bookings' = [bookings EXCEPT ![q.booking] = Moved(@, new)]
    /\ req' = [req EXCEPT ![r] = Idle]
    /\ UNCHANGED <<services, holds, logs, now>>
SetStatusUnversioned(r, new) ==
    LET q == req[r] IN
    /\ bookings' = [bookings EXCEPT ![q.booking].status = new]
    /\ logs' = [logs EXCEPT ![q.booking] =
                    Append(@, LogEntry(q.status, new))]
    /\ req' = [req EXCEPT ![r] = Idle]
    /\ UNCHANGED <<services, holds, now>>
SetStatusLogsPending(r, new) ==
    LET q == req[r] IN
    /\ bookings' = [bookings EXCEPT ![q.booking] = Moved(@, new)]
    /\ logs' = [logs EXCEPT ![q.booking] =
                    Append(@, LogEntry("PENDING", new))]
    /\ req' = [req EXCEPT ![r] = Idle]
    /\ UNCHANGED <<services, holds, now>>

\* Its transaction then updates the row by id alone, whatever it holds by now,
\* and logs the status that was read as the previous one.
SetStatus(r, new) ==
    LET q == req[r] IN
    /\ bookings' = [bookings EXCEPT ![q.booking] = Moved(@, new)]
    /\ logs' = [logs EXCEPT ![q.booking] =
                    Append(@, LogEntry(q.status, new))]
    /\ req' = [req EXCEPT ![r] = Idle]
    /\ UNCHANGED <<services, holds, now>>

Confirm(r)  == req[r].pc = "confirm" /\ SetStatus(r, "CONFIRMED")
Cancel(r)   == req[r].pc = "cancel" /\ SetStatus(r, "CANCELLED")
Complete(r) == req[r].pc = "complete" /\ SetStatus(r, "COMPLETED")

-----------------------------------------------------------------------------
(* What goes on around them.                                               *)

\* A handler that stops short: a database error (InsertHold and InsertBooking
\* include a violated foreign key and the vanished hold) or the process dying.
Abort(r) ==
    /\ req[r] # Idle
    /\ req' = [req EXCEPT ![r] = Idle]
    /\ UNCHANGED <<services, holds, bookings, logs, now>>

\* ProviderService.updateService switching isActive.
UpdateService(s) ==
    /\ services[s] # "deleted"
    /\ services' = [services EXCEPT ![s] = IF @ = "active" THEN "inactive"
                                                           ELSE "active"]
    /\ UNCHANGED <<holds, bookings, logs, req, now>>

\* ProviderService.deleteService.  It counts the active bookings first, but
\* the foreign keys of slot_holds and bookings (ON DELETE RESTRICT) decide.
DeleteService(s) ==
    /\ services[s] # "deleted"
    /\ \A h \in HeldIds : holds[h].service # s
    /\ \A b \in BookedIds : bookings[b].service # s
    /\ services' = [services EXCEPT ![s] = "deleted"]
    /\ UNCHANGED <<holds, bookings, logs, req, now>>

Tick ==
    /\ now < MaxTime
    /\ now' = now + 1
    /\ UNCHANGED <<services, holds, bookings, logs, req>>

-----------------------------------------------------------------------------
(* The routes of BookingController, each up to the handler's first await.  *)

PostSlotHold(r) ==
    \E u \in Users, p \in Providers, s \in Services, slot \in Slots :
        canActivate(RoleOf[u], {"CUSTOMER"}) /\ CreateHold(r, u, p, s, slot)

\* A SUPER_ADMIN names the tenant, an ADMIN cleans up in its own.
CleanupExpiredHolds ==
    \E u \in Users, t \in Tenants :
        /\ canActivate(RoleOf[u], Administrators)
        /\ RoleOf[u] # "SUPER_ADMIN" => TenantOf[u] = t
        /\ DeleteExpiredHolds(t)

PostBooking(r) ==
    \E u \in Users, h \in HoldIds :
        canActivate(RoleOf[u], {"CUSTOMER"}) /\ ReadHold(r, u, h)

PatchConfirm(r) ==
    \E u \in Users, b \in BookingIds :
        canActivate(RoleOf[u], Staff) /\ ReadConfirm(r, u, b)

\* The routes of cancel and complete ask for no role.
PatchCancel(r) ==
    \E u \in Users, b \in BookingIds :
        canActivate(RoleOf[u], {}) /\ ReadCancel(r, u, b)

PatchComplete(r) ==
    \E u \in Users, b \in BookingIds :
        canActivate(RoleOf[u], {}) /\ ReadComplete(r, u, b)

HoldStep(r) == PostSlotHold(r) \/ \E h \in HoldIds : InsertHold(r, h)

BookStep(r) ==
    \/ PostBooking(r)
    \/ CheckConflict(r)
    \/ FetchService(r)
    \/ \E b \in BookingIds : InsertBooking(r, b)

StatusStep(r) ==
    \/ PatchConfirm(r) \/ PatchCancel(r) \/ PatchComplete(r)
    \/ Confirm(r)
    \/ Cancel(r)
    \/ Complete(r)

Next ==
    \/ \E r \in Requests : HoldStep(r) \/ BookStep(r) \/ StatusStep(r)
                                       \/ Abort(r)
    \/ CleanupExpiredHolds
    \/ \E s \in Services : UpdateService(s) \/ DeleteService(s)
    \/ Tick

Spec == Init /\ [][Next]_vars

(***************************************************************************)
(* The same handlers under a discipline the code does not impose: no two   *)
(* createBooking in flight for one provider, and no two status changes in  *)
(* flight for one booking.                                                 *)
(***************************************************************************)
Booking(r)  == req[r].pc \in {"checkConflict", "fetchService", "insertBooking"}
Changing(r) == req[r].pc \in {"confirm", "cancel", "complete"}

Serialised ==
    \A r1, r2 \in Requests : r1 # r2 =>
        /\ Booking(r1) /\ Booking(r2) =>
              req[r1].seen.provider # req[r2].seen.provider
        /\ Changing(r1) /\ Changing(r2) => req[r1].booking # req[r2].booking

SerialisedSpec == Init /\ [][Next /\ Serialised']_vars

-----------------------------------------------------------------------------
(* What holds of the code as it is, whatever the handlers in flight.       *)

\* The audit trail tells the truth about the present: a booking has as many
\* log rows as its version says, they begin with its creation, and the last
\* one names its status (every transaction of BookingService writes both).
LogMirrorsBooking ==
    \A b \in BookingIds :
        IF bookings[b] = Unused THEN logs[b] = <<>>
        ELSE /\ Len(logs[b]) = bookings[b].version
             /\ bookings[b].version >= 1
             /\ logs[b][1].previous = "NULL" /\ logs[b][1].new = "PENDING"
             /\ logs[b][bookings[b].version].new = bookings[b].status

\* The version column would serve as an optimistic lock: a handler of
\* confirm, cancel or complete whose version is still current holds the
\* current status.  No statement of the code compares the two.
VersionDetectsStale ==
    \A r \in Requests : Changing(r) =>
        LET q == req[r]  row == bookings[q.booking] IN
        /\ row # Unused
        /\ q.version <= row.version
        /\ q.version = row.version => q.status = row.status

\* Every booking keeps the hold it came from, marked converted, whatever the
\* cleanup of expired holds does meanwhile; the two agree on customer,
\* provider, service and interval, nobody books across tenants, and the
\* service is still there.
BookingBackedByHold ==
    \A b \in BookedIds :
        LET row == bookings[b]  hold == holds[row.hold] IN
        /\ row.hold \in HeldIds
        /\ hold.isConverted
        /\ row.customer = hold.customer /\ row.provider = hold.provider
        /\ row.service = hold.service /\ row.slot = hold.slot
        /\ row.tenant = hold.tenant
        /\ row.tenant = TenantOf[row.customer]
        /\ row.tenant = ProviderTenant[row.provider]
        /\ row.slot.start < row.slot.end
        /\ services[row.service] # "deleted"

Live(b) == b \in BookedIds /\ bookings[b].status \notin Released

Clash(b, c) ==
    /\ b # c
    /\ Live(b) /\ Live(c)
    /\ bookings[b].provider = bookings[c].provider
    /\ Overlap(bookings[b].slot, bookings[c].slot)

\* A booking that was released and is not any more.
Reopened(b) == \E i \in 1..(Len(logs[b]) - 1) : logs[b][i].new \in Released

\* How a provider comes to be booked twice: createBooking lets it happen only
\* when neither of the two bookings existed at the other's conflict query, or
\* when one of them had been cancelled and was reopened afterwards.
OverlapOnlyByRace ==
    \A b, c \in BookedIds :
        Clash(b, c) /\ c \in bookings[b].checked => Reopened(c)

\* A cancelled or completed booking changes status only at the hands of a
\* handler whose read is out of date: comparing versions in the update, as
\* the optimistic lock of the documentation would, closes every such case.
ReopenedOnlyByStaleRead ==
    [][\A b \in BookedIds :
          /\ bookings[b].status \in {"CANCELLED", "COMPLETED"}
          /\ bookings'[b].status # bookings[b].status
          => \E r \in Requests : /\ Changing(r)
                                 /\ req[r].booking = b
                                 /\ req[r].version < bookings[b].version]_vars

-----------------------------------------------------------------------------
(* What the documentation promises.  The handlers as they are break each of *)
(* these; all three, and the timetable, hold under SerialisedSpec.         *)

\* No provider is booked twice for overlapping intervals.
NoDoubleBooking == \A b, c \in BookedIds : ~Clash(b, c)

\* Every log row of a booking begins where the row before it ended.
AuditChain ==
    \A b \in BookedIds : \A i \in 2..Len(logs[b]) :
        logs[b][i].previous = logs[b][i - 1].new

\* A hold is good for one booking, even after that one was cancelled.
HoldConvertedOnce ==
    \A b, c \in BookedIds : bookings[b].hold = bookings[c].hold => b = c

(***************************************************************************)
(* The timetable the holds and bookings stand for.                         *)
(***************************************************************************)
Calendar == [b \in BookingIds |->
                IF bookings[b] = Unused THEN Unused
                ELSE [provider |-> bookings[b].provider,
                      slot |-> bookings[b].slot,
                      status |-> bookings[b].status]]

T == INSTANCE Timetable WITH calendar <- Calendar, Free <- Unused

\* confirm, cancel or complete about to write by a read that is out of date.
StaleWrite(r) ==
    /\ Changing(r)
    /\ req[r].version < bookings[req[r].booking].version
    /\ req'[r] = Idle

\* createBooking inserting over bookings that its conflict query did not see,
\* or saw after they had been cancelled and before they were reopened.
InsertOver(r) ==
    /\ req[r].pc = "insertBooking"
    /\ Conflicts(req[r].seen) # {}
    /\ \A c \in Conflicts(req[r].seen) \cap req[r].checked : Reopened(c)
    /\ req'[r] = Idle

\* The handlers as they are, whatever their interleaving, depart from the
\* timetable in two ways only: a status written by a read that is out of date,
\* and a booking inserted over one that the conflict query could not see.
LeavesTimetableOnlyByRace ==
    /\ T!Init
    /\ [][bookings' # bookings
          => \/ \E r \in Requests : StaleWrite(r) \/ InsertOver(r)
             \/ [T!Next]_Calendar]_vars

\* Under the discipline the handlers implement the timetable: no entry is
\* made over a live one, and each moves along the status flow only.
ImplementsTimetable == T!Spec
=============================================================================
