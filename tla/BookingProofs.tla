--------------------------- MODULE BookingProofs ---------------------------
(***************************************************************************)
(* Proofs about Booking and BookingWebhook, for any tenants, users,        *)
(* providers, services, intervals, handlers in flight, time to live and    *)
(* clock: first the handlers as they are, then under the discipline of     *)
(* SerialisedSpec, down to the timetable, then beside the webhook.         *)
(***************************************************************************)
EXTENDS BookingWebhook, TLAPS

-----------------------------------------------------------------------------
(* The inductive invariant, in parts: first what a handler may rely on     *)
(* after an await, then what the tables have in common.                    *)

\* Tenant, provider and interval fit together in a hold.
HoldSound(row) ==
    /\ row.tenant = TenantOf[row.customer]
    /\ row.tenant = ProviderTenant[row.provider]
    /\ row.slot.start < row.slot.end

\* A hold changes in nothing but isConverted while it exists.
SameHold(g, h) ==
    /\ g.tenant = h.tenant
    /\ g.customer = h.customer
    /\ g.provider = h.provider
    /\ g.service = h.service
    /\ g.slot = h.slot

\* What the conflict query has established for the bookings it saw.
Cleared(ids, provider, slot) ==
    \A c \in ids :
        /\ c \in BookedIds
        /\ bookings[c].provider = provider /\ Overlap(bookings[c].slot, slot)
           => WasReleased(c)

InserterSound(q) ==
    q.pc = "insertHold" =>
        /\ ProviderTenant[q.provider] = TenantOf[q.user]
        /\ q.slot.start < q.slot.end

ReaderSound(q) ==
    q.pc \in {"checkConflict", "fetchService", "insertBooking"} =>
        /\ holds[q.hold] # Unused
        /\ q.hold \in HeldIds => SameHold(holds[q.hold], q.seen)
        /\ HoldSound(q.seen)
        /\ q.seen.customer = q.user
        /\ Cleared(q.checked, q.seen.provider, q.seen.slot)

\* The status a handler has read is the one its version names in the log, and
\* not a final one.
ChangerSound(q) ==
    q.pc \in {"confirm", "cancel", "complete"} =>
        /\ q.booking \in BookedIds
        /\ q.version \in 1..bookings[q.booking].version
        /\ logs[q.booking][q.version].new = q.status
        /\ q.status \notin {"CANCELLED", "COMPLETED"}

HandlerSound(q) == InserterSound(q) /\ ReaderSound(q) /\ ChangerSound(q)

HandlersSound == \A r \in Requests : HandlerSound(req[r])

HoldsSound ==
    \A h \in HeldIds : /\ HoldSound(holds[h])
                       /\ services[holds[h].service] # "deleted"

BookingsCleared ==
    \A b \in BookedIds :
        /\ b \notin bookings[b].checked
        /\ Cleared(bookings[b].checked, bookings[b].provider, bookings[b].slot)

IInv ==
    /\ TypeOK
    /\ HandlersSound
    /\ HoldsSound
    /\ LogMirrorsBooking
    /\ BookingBackedByHold
    /\ BookingsCleared

-----------------------------------------------------------------------------
(* Type correctness.                                                       *)

\* The label of a handler says which variables it has.
LEMMA RequestKinds ==
    ASSUME NEW q \in Request
    PROVE  /\ q.pc = "insertHold" => q \in HoldRequest
           /\ q.pc \in {"checkConflict", "fetchService", "insertBooking"}
              => q \in BookRequest
           /\ q.pc \in {"confirm", "cancel", "complete"} => q \in StatusRequest
           /\ q = Idle => q.pc = "idle"
BY DEF Request, Idle, HoldRequest, BookRequest, StatusRequest

LEMMA TypeInit == Init => TypeOK
BY ConstantsAssumption, RowAssumption
   DEF Init, TypeOK, Request, Idle

LEMMA TypeHoldStep ==
    ASSUME TypeOK, NEW r \in Requests, HoldStep(r)
    PROVE  TypeOK'
<1> USE ConstantsAssumption, RowAssumption
<1> Idle \in Request
  BY DEF Request
<1>1. ASSUME NEW u \in Users, NEW p \in Providers, NEW s \in Services,
             NEW slot \in Slots, CreateHold(r, u, p, s, slot)
      PROVE  TypeOK'
  <2>1. [pc |-> "insertHold", user |-> u, provider |-> p, service |-> s,
         slot |-> slot] \in Request
    BY <1>1 DEF Request, HoldRequest, CreateHold
  <2> QED
    BY <1>1, <2>1 DEF CreateHold, TypeOK
<1>2. ASSUME NEW h \in HoldIds, InsertHold(r, h)
      PROVE  TypeOK'
  <2>1. req[r] \in HoldRequest
    BY <1>2, RequestKinds DEF InsertHold, TypeOK
  <2>2. NewHoldRow(req[r]) \in HoldRow
    BY <2>1 DEF NewHoldRow, HoldRow, HoldRequest, Customers, TypeOK
  <2> QED
    BY <1>2, <2>2 DEF InsertHold, TypeOK
<1> QED
  BY <1>1, <1>2 DEF HoldStep, PostSlotHold

LEMMA TypeBookStep ==
    ASSUME TypeOK, NEW r \in Requests, BookStep(r)
    PROVE  TypeOK'
<1> USE ConstantsAssumption, RowAssumption
<1> Idle \in Request
  BY DEF Request
<1>1. ASSUME NEW u \in Users, NEW h \in HoldIds, ReadHold(r, u, h)
      PROVE  TypeOK'
  <2>1. holds[h] \in HoldRow
    BY <1>1 DEF ReadHold, HeldIds, TypeOK
  <2>2. [pc |-> "checkConflict", user |-> u, hold |-> h, seen |-> holds[h],
         checked |-> {}] \in Request
    BY <1>1, <2>1 DEF Request, BookRequest, ReadHold
  <2> QED
    BY <1>1, <2>2 DEF ReadHold, TypeOK
<1>2. CASE CheckConflict(r)
  <2>1. req[r] \in BookRequest
    BY <1>2, RequestKinds DEF CheckConflict, TypeOK
  <2>2. BookedIds \subseteq BookingIds
    BY DEF BookedIds
  <2>3. [req[r] EXCEPT !.pc = "fetchService", !.checked = BookedIds] \in Request
    BY <2>1, <2>2 DEF Request, BookRequest
  <2> QED
    BY <1>2, <2>3 DEF CheckConflict, TypeOK
<1>3. CASE FetchService(r)
  <2>1. req[r] \in BookRequest
    BY <1>3, RequestKinds DEF FetchService, TypeOK
  <2>2. [req[r] EXCEPT !.pc = "insertBooking"] \in Request
    BY <2>1 DEF Request, BookRequest
  <2> QED
    BY <1>3, <2>2 DEF FetchService, TypeOK
<1>4. ASSUME NEW b \in BookingIds, InsertBooking(r, b)
      PROVE  TypeOK'
  <2>1. req[r] \in BookRequest
    BY <1>4, RequestKinds DEF InsertBooking, TypeOK
  <2>2. NewBookingRow(req[r]) \in BookingRow
    BY <2>1 DEF NewBookingRow, BookingRow, BookRequest, HoldRow, Customers,
                Status
  <2>3. <<LogEntry("NULL", "PENDING")>> \in Seq(LogRow)
    BY DEF LogEntry, LogRow, Status
  <2>4. /\ holds[req[r].hold] \in HoldRow
        /\ req[r].hold \in HoldIds
    BY <1>4, <2>1 DEF InsertBooking, HeldIds, BookRequest, TypeOK
  <2>5. [holds[req[r].hold] EXCEPT !.isConverted = TRUE] \in HoldRow
    BY <2>4 DEF HoldRow
  <2>6. holds' \in [HoldIds -> HoldRow \cup {Unused, Deleted}]
    BY <1>4, <2>5 DEF InsertBooking, TypeOK
  <2> QED
    BY <1>4, <2>2, <2>3, <2>6 DEF InsertBooking, TypeOK
<1> QED
  BY <1>1, <1>2, <1>3, <1>4 DEF BookStep, PostBooking

\* What a transaction of StatusStep does to the row it updates.
LEMMA MovedRow ==
    ASSUME NEW row \in BookingRow, NEW new \in Status
    PROVE  /\ Moved(row, new) \in BookingRow
           /\ Moved(row, new).status = new
           /\ Moved(row, new).version = row.version + 1
           /\ Moved(row, new).tenant = row.tenant
           /\ Moved(row, new).customer = row.customer
           /\ Moved(row, new).provider = row.provider
           /\ Moved(row, new).service = row.service
           /\ Moved(row, new).slot = row.slot
           /\ Moved(row, new).hold = row.hold
           /\ Moved(row, new).checked = row.checked
<1> DEFINE once == [row EXCEPT !.status = new]
<1>1. once \in BookingRow
  BY DEF BookingRow
<1>2. row.version + 1 \in Nat
  BY DEF BookingRow
<1>3. [once EXCEPT !.version = row.version + 1] \in BookingRow
  BY <1>1, <1>2 DEF BookingRow
<1> QED
  BY <1>1, <1>3 DEF Moved, BookingRow

\* The three transactions of StatusStep differ in the status they write.
LEMMA TypeSetStatus ==
    ASSUME TypeOK, NEW r \in Requests, Changing(r), NEW new \in Status,
           bookings[req[r].booking] # Unused, SetStatus(r, new)
    PROVE  TypeOK'
<1> DEFINE b == req[r].booking
<1>1. req[r] \in StatusRequest
  BY RequestKinds DEF Changing, TypeOK
<1>2. b \in BookingIds /\ bookings[b] \in BookingRow
  BY <1>1 DEF StatusRequest, TypeOK
<1>3. Moved(bookings[b], new) \in BookingRow
  BY <1>2, MovedRow
<1>4. LogEntry(req[r].status, new) \in LogRow
  BY <1>1 DEF LogEntry, LogRow, StatusRequest
<1>5. Append(logs[b], LogEntry(req[r].status, new)) \in Seq(LogRow)
  BY <1>2, <1>4 DEF TypeOK
<1>6. Idle \in Request
  BY DEF Request
<1>7. bookings' \in [BookingIds -> BookingRow \cup {Unused}]
  BY <1>2, <1>3 DEF SetStatus, TypeOK
<1>8. logs' \in [BookingIds -> Seq(LogRow)]
  BY <1>2, <1>5 DEF SetStatus, TypeOK
<1> QED
  BY <1>6, <1>7, <1>8 DEF SetStatus, TypeOK

-----------------------------------------------------------------------------
(* The rest of the invariant: the steps that only move a handler.          *)

\* A row is not the place of a row.
LEMMA RowsAreRows ==
    ASSUME TypeOK
    PROVE  /\ \A h \in HoldIds : h \in HeldIds <=> holds[h] \in HoldRow
           /\ \A b \in BookingIds : b \in BookedIds <=> bookings[b] \in BookingRow
BY RowAssumption DEF TypeOK, HeldIds, BookedIds

LEMMA IdleSound == HandlerSound(Idle)
BY DEF HandlerSound, InserterSound, ReaderSound, ChangerSound, Idle

\* A step that leaves the tables alone and moves one handler to a sound state.
LEMMA HandlerMoves ==
    ASSUME IInv, TypeOK', NEW r \in Requests, NEW q, HandlerSound(q),
           req' = [req EXCEPT ![r] = q],
           UNCHANGED <<services, holds, bookings, logs>>
    PROVE  IInv'
<1>1. /\ HeldIds' = HeldIds
      /\ BookedIds' = BookedIds
  BY DEF HeldIds, BookedIds
<1>2. HandlersSound'
  <2> SUFFICES ASSUME NEW r2 \in Requests
               PROVE  HandlerSound(req[r2])'
    BY DEF HandlersSound
  <2>1. req'[r2] = IF r2 = r THEN q ELSE req[r2]
    BY DEF IInv, TypeOK
  <2>2. HandlerSound(req'[r2])
    BY <2>1 DEF IInv, HandlersSound
  <2> QED
    BY <2>2, <1>1
       DEF HandlerSound, InserterSound, ReaderSound, ChangerSound, Cleared,
           WasReleased
<1>3. HoldsSound'
  BY <1>1 DEF IInv, HoldsSound
<1>4. LogMirrorsBooking'
  BY DEF IInv, LogMirrorsBooking
<1>5. BookingBackedByHold'
  BY <1>1 DEF IInv, BookingBackedByHold
<1>6. BookingsCleared'
  BY <1>1 DEF IInv, BookingsCleared, Cleared, WasReleased
<1> QED
  BY <1>2, <1>3, <1>4, <1>5, <1>6 DEF IInv

LEMMA InvCreateHold ==
    ASSUME IInv, TypeOK', NEW r \in Requests, NEW u \in Users,
           NEW p \in Providers, NEW s \in Services, NEW slot \in Slots,
           CreateHold(r, u, p, s, slot)
    PROVE  IInv'
<1> DEFINE q == [pc |-> "insertHold", user |-> u, provider |-> p,
                 service |-> s, slot |-> slot]
<1>1. HandlerSound(q)
  BY DEF HandlerSound, InserterSound, ReaderSound, ChangerSound, CreateHold,
         Offered
<1> QED
  BY <1>1, HandlerMoves DEF CreateHold

LEMMA InvReadHold ==
    ASSUME IInv, TypeOK', NEW r \in Requests, NEW u \in Users,
           NEW h \in HoldIds, ReadHold(r, u, h)
    PROVE  IInv'
<1> DEFINE q == [pc |-> "checkConflict", user |-> u, hold |-> h,
                 seen |-> holds[h], checked |-> {}]
<1>1. HandlerSound(q)
  BY DEF HandlerSound, InserterSound, ReaderSound, ChangerSound, ReadHold, Usable,
         IInv, HoldsSound, SameHold, Cleared, HeldIds
<1> QED
  BY <1>1, HandlerMoves DEF ReadHold

LEMMA InvCheckConflict ==
    ASSUME IInv, TypeOK', NEW r \in Requests, CheckConflict(r)
    PROVE  IInv'
<1>1. req[r] \in BookRequest
  BY RequestKinds DEF CheckConflict, IInv, TypeOK
<1>2. HandlerSound(req[r])
  BY DEF IInv, HandlersSound
<1>3. CASE Conflicts(req[r].seen) = {}
  <2> DEFINE q == [req[r] EXCEPT !.pc = "fetchService", !.checked = BookedIds]
  <2>1. /\ q.pc = "fetchService"
        /\ q.hold = req[r].hold
        /\ q.seen = req[r].seen
        /\ q.user = req[r].user
        /\ q.checked = BookedIds
    BY <1>1 DEF BookRequest
  <2>2. ASSUME NEW c \in BookedIds,
               bookings[c].provider = req[r].seen.provider,
               Overlap(bookings[c].slot, req[r].seen.slot)
        PROVE  WasReleased(c)
    <3>1. bookings[c].status \in Released
      BY <1>3, <2>2 DEF Conflicts
    <3>2. /\ Len(logs[c]) = bookings[c].version
          /\ bookings[c].version >= 1
          /\ logs[c][bookings[c].version].new = bookings[c].status
      BY DEF BookedIds, IInv, LogMirrorsBooking
    <3>3. bookings[c].version \in 1..Len(logs[c])
      BY <3>2, RowsAreRows DEF BookedIds, IInv, BookingRow
    <3> QED
      BY <3>1, <3>2, <3>3 DEF WasReleased
  <2>3. Cleared(q.checked, q.seen.provider, q.seen.slot)
    BY <2>1, <2>2 DEF Cleared
  <2>4. HandlerSound(q)
    BY <1>2, <2>1, <2>3
       DEF HandlerSound, InserterSound, ReaderSound, ChangerSound, CheckConflict
  <2>5. req' = [req EXCEPT ![r] = q]
    BY <1>3 DEF CheckConflict
  <2> QED
    BY <2>4, <2>5, HandlerMoves DEF CheckConflict
<1>4. CASE Conflicts(req[r].seen) # {}
  BY <1>4, IdleSound, HandlerMoves DEF CheckConflict
<1> QED
  BY <1>3, <1>4

LEMMA InvFetchService ==
    ASSUME IInv, TypeOK', NEW r \in Requests, FetchService(r)
    PROVE  IInv'
<1>1. req[r] \in BookRequest
  BY RequestKinds DEF FetchService, IInv, TypeOK
<1>2. HandlerSound(req[r])
  BY DEF IInv, HandlersSound
<1> DEFINE q == [req[r] EXCEPT !.pc = "insertBooking"]
<1>3. /\ q.pc = "insertBooking"
      /\ q.hold = req[r].hold
      /\ q.seen = req[r].seen
      /\ q.user = req[r].user
      /\ q.checked = req[r].checked
  BY <1>1 DEF BookRequest
<1>4. HandlerSound(q)
  BY <1>2, <1>3
     DEF HandlerSound, InserterSound, ReaderSound, ChangerSound, FetchService
<1> QED
  BY <1>4, IdleSound, HandlerMoves DEF FetchService

LEMMA InvReadBooking ==
    ASSUME IInv, TypeOK', NEW r \in Requests, NEW u \in Users,
           NEW b \in BookingIds, NEW pc \in {"confirm", "cancel", "complete"},
           ReadBooking(r, u, b, pc),
           bookings[b].status \notin {"CANCELLED", "COMPLETED"}
    PROVE  IInv'
<1> DEFINE q == [pc |-> pc, booking |-> b, status |-> bookings[b].status,
                 version |-> bookings[b].version]
<1>1. b \in BookedIds /\ bookings[b] # Unused
  BY DEF ReadBooking, BookedIds
<1>2. bookings[b].version \in 1..bookings[b].version
  BY <1>1, RowsAreRows DEF IInv, LogMirrorsBooking, BookingRow
<1>3. logs[b][bookings[b].version].new = bookings[b].status
  BY <1>1 DEF IInv, LogMirrorsBooking
<1>4. HandlerSound(q)
  BY <1>1, <1>2, <1>3
     DEF HandlerSound, InserterSound, ReaderSound, ChangerSound
<1> QED
  BY <1>4, HandlerMoves DEF ReadBooking

LEMMA InvAbort ==
    ASSUME IInv, TypeOK', NEW r \in Requests, Abort(r)
    PROVE  IInv'
BY IdleSound, HandlerMoves DEF Abort

-----------------------------------------------------------------------------
(* The rest of the invariant: the steps that write to the tables.          *)

\* A step that writes to the tables lets a handler go idle or leaves it alone,
\* so it is enough that it keeps sound whatever was sound.
LEMMA HandlersKept ==
    ASSUME IInv, NEW r \in Requests,
           req' = [req EXCEPT ![r] = Idle] \/ UNCHANGED req,
           \A q \in Request : HandlerSound(q) => HandlerSound(q)'
    PROVE  HandlersSound'
<1> SUFFICES ASSUME NEW r2 \in Requests
             PROVE  HandlerSound(req[r2])'
  BY DEF HandlersSound
<1>1. req'[r2] \in {req[r2], Idle}
  BY DEF IInv, TypeOK
<1>2. req'[r2] \in Request
  BY <1>1 DEF IInv, TypeOK, Request
<1>3. HandlerSound(req'[r2])
  BY <1>1, IdleSound DEF IInv, HandlersSound
<1>4. PICK q \in Request : q = req'[r2]
  BY <1>2
<1>5. HandlerSound(q)'
  BY <1>3, <1>4
<1> QED
  BY <1>4, <1>5 DEF HandlerSound, InserterSound, ReaderSound, ChangerSound

LEMMA InvInsertHold ==
    ASSUME IInv, TypeOK', NEW r \in Requests, NEW h \in HoldIds,
           InsertHold(r, h)
    PROVE  IInv'
<1> DEFINE new == NewHoldRow(req[r])
<1> USE DEF InsertHold
<1>1. req[r] \in HoldRequest
  BY RequestKinds DEF IInv, TypeOK
<1>2. new \in HoldRow
  BY <1>1, ConstantsAssumption
     DEF NewHoldRow, HoldRow, HoldRequest, Customers, IInv, TypeOK
<1>3. holds' = [holds EXCEPT ![h] = new] /\ holds'[h] = new
  BY DEF IInv, TypeOK
<1>4. HeldIds' = HeldIds \cup {h} /\ h \notin HeldIds
  BY <1>2, <1>3, RowAssumption DEF HeldIds, IInv, TypeOK
<1>5. BookedIds' = BookedIds
  BY DEF BookedIds
<1>6. HandlersSound'
  <2>1. ASSUME NEW q \in Request, HandlerSound(q)
        PROVE  HandlerSound(q)'
    <3>1. InserterSound(q)'
      BY <2>1 DEF HandlerSound, InserterSound
    <3>2. ReaderSound(q)'
      <4> SUFFICES ASSUME q.pc \in {"checkConflict", "fetchService",
                                    "insertBooking"}
                   PROVE  ReaderSound(q)'
        BY DEF ReaderSound
      <4>1. q.hold # h /\ q.hold \in HoldIds
        BY <2>1, RequestKinds DEF HandlerSound, ReaderSound, BookRequest
      <4>2. holds'[q.hold] = holds[q.hold]
        BY <4>1, <1>3 DEF IInv, TypeOK
      <4> QED
        BY <2>1, <4>1, <4>2, <1>4, <1>5
           DEF HandlerSound, ReaderSound, Cleared, WasReleased
    <3>3. ChangerSound(q)'
      BY <2>1, <1>5 DEF HandlerSound, ChangerSound
    <3> QED
      BY <3>1, <3>2, <3>3 DEF HandlerSound
  <2> QED
    BY <2>1, HandlersKept
<1>7. HoldsSound'
  <2> SUFFICES ASSUME NEW g \in HeldIds'
               PROVE  /\ HoldSound(holds'[g])
                      /\ services[holds'[g].service] # "deleted"
    BY DEF HoldsSound, HoldSound
  <2>1. CASE g = h
    <3>1. InserterSound(req[r])
      BY DEF IInv, HandlersSound, HandlerSound
    <3> QED
      BY <2>1, <3>1, <1>3 DEF InserterSound, NewHoldRow, HoldSound
  <2>2. CASE g # h
    BY <2>2, <1>3, <1>4 DEF IInv, HoldsSound, TypeOK, HeldIds
  <2> QED
    BY <2>1, <2>2
<1>8. LogMirrorsBooking'
  BY DEF IInv, LogMirrorsBooking
<1>9. BookingBackedByHold'
  <2> SUFFICES ASSUME NEW b \in BookedIds
               PROVE  /\ holds'[bookings[b].hold] = holds[bookings[b].hold]
                      /\ bookings[b].hold \in HeldIds'
    BY <1>5 DEF IInv, BookingBackedByHold
  <2>1. bookings[b].hold \in HeldIds /\ bookings[b].hold # h
    BY <1>4 DEF IInv, BookingBackedByHold
  <2> QED
    BY <2>1, <1>3, <1>4 DEF IInv, TypeOK, HeldIds
<1>10. BookingsCleared'
  BY <1>5 DEF IInv, BookingsCleared, Cleared, WasReleased
<1> QED
  BY <1>6, <1>7, <1>8, <1>9, <1>10 DEF IInv

LEMMA InvDeleteExpiredHolds ==
    ASSUME IInv, TypeOK', NEW t \in Tenants, DeleteExpiredHolds(t)
    PROVE  IInv'
<1> USE DEF DeleteExpiredHolds
<1>1. \A h \in HoldIds : holds'[h] = IF h \in Stale(t) THEN Deleted ELSE holds[h]
  OBVIOUS
<1>2. HeldIds' = HeldIds \ Stale(t)
  BY <1>1, RowAssumption DEF HeldIds, Stale
<1>3. BookedIds' = BookedIds
  BY DEF BookedIds
<1>4. HandlersSound'
  <2> SUFFICES ASSUME NEW r \in Requests
               PROVE  HandlerSound(req[r])'
    BY DEF HandlersSound
  <2>1. HandlerSound(req[r]) /\ req[r] \in Request
    BY DEF IInv, HandlersSound, TypeOK
  <2>2. InserterSound(req[r])'
    BY <2>1 DEF HandlerSound, InserterSound
  <2>3. ReaderSound(req[r])'
    <3> SUFFICES ASSUME req[r].pc \in {"checkConflict", "fetchService",
                                       "insertBooking"}
                 PROVE  ReaderSound(req[r])'
      BY DEF ReaderSound
    <3>1. req[r].hold \in HoldIds
      BY <2>1, RequestKinds DEF BookRequest
    <3>2. holds'[req[r].hold] # Unused
      BY <2>1, <3>1, <1>1, RowAssumption DEF HandlerSound, ReaderSound
    <3>3. req[r].hold \in HeldIds' => SameHold(holds'[req[r].hold], req[r].seen)
      BY <2>1, <3>1, <1>1, <1>2 DEF HandlerSound, ReaderSound
    <3> QED
      BY <2>1, <3>2, <3>3, <1>3
         DEF HandlerSound, ReaderSound, Cleared, WasReleased, SameHold, HoldSound
  <2>4. ChangerSound(req[r])'
    BY <2>1, <1>3 DEF HandlerSound, ChangerSound
  <2> QED
    BY <2>2, <2>3, <2>4 DEF HandlerSound
<1>5. HoldsSound'
  BY <1>1, <1>2 DEF IInv, HoldsSound, HeldIds, HoldSound
<1>6. LogMirrorsBooking'
  BY DEF IInv, LogMirrorsBooking
<1>7. BookingBackedByHold'
  <2> SUFFICES ASSUME NEW b \in BookedIds
               PROVE  /\ holds'[bookings[b].hold] = holds[bookings[b].hold]
                      /\ bookings[b].hold \in HeldIds'
    BY <1>3 DEF IInv, BookingBackedByHold
  <2>1. bookings[b].hold \in HeldIds /\ holds[bookings[b].hold].isConverted
    BY DEF IInv, BookingBackedByHold
  <2> QED
    BY <2>1, <1>1, <1>2 DEF HeldIds, Stale
<1>8. BookingsCleared'
  BY <1>3 DEF IInv, BookingsCleared, Cleared, WasReleased
<1> QED
  BY <1>4, <1>5, <1>6, <1>7, <1>8 DEF IInv

LEMMA InvInsertBooking ==
    ASSUME IInv, TypeOK', NEW r \in Requests, NEW b \in BookingIds,
           InsertBooking(r, b)
    PROVE  IInv'
<1> DEFINE q == req[r]
           row == NewBookingRow(q)
<1> USE DEF InsertBooking
<1>1. q \in BookRequest
  BY RequestKinds DEF IInv, TypeOK
<1>2. ReaderSound(q)
  BY DEF IInv, HandlersSound, HandlerSound
<1>3. row \in BookingRow
  BY <1>1 DEF NewBookingRow, BookingRow, BookRequest, HoldRow, Customers, Status
<1>4. /\ bookings'[b] = row
      /\ \A c \in BookedIds : c # b /\ bookings'[c] = bookings[c]
                                   /\ logs'[c] = logs[c]
      /\ BookedIds' = BookedIds \cup {b}
  BY <1>3, RowAssumption DEF BookedIds, IInv, TypeOK
<1>5. /\ q.hold \in HeldIds /\ q.hold \in HoldIds
      /\ holds[q.hold] \in HoldRow
  BY <1>1, RowsAreRows DEF HeldIds, IInv
<1>6. \A h \in HoldIds : SameHold(holds'[h], holds[h])
  BY <1>5 DEF IInv, TypeOK, SameHold, HoldRow
<1>7. /\ HeldIds' = HeldIds
      /\ \A h \in HeldIds : holds[h].isConverted => holds'[h].isConverted
      /\ holds'[q.hold].isConverted
      /\ \A h \in HoldIds : holds[h] # Unused => holds'[h] # Unused
  <2> DEFINE converted == [holds[q.hold] EXCEPT !.isConverted = TRUE]
  <2>1. /\ converted \in HoldRow
        /\ converted.isConverted
    BY <1>5 DEF HoldRow
  <2>2. \A h \in HoldIds : holds'[h] = IF h = q.hold THEN converted ELSE holds[h]
    BY <1>5 DEF IInv, TypeOK
  <2>3. converted \notin {Unused, Deleted}
    BY <2>1, RowAssumption
  <2> HIDE DEF converted
  <2>4. HeldIds' = HeldIds
    BY <1>5, <2>2, <2>3 DEF HeldIds
  <2>5. \A h \in HoldIds : holds[h] # Unused => holds'[h] # Unused
    BY <2>2, <2>3
  <2> QED
    BY <1>5, <2>1, <2>2, <2>4, <2>5 DEF HeldIds
<1>8. \A ids, p, s : Cleared(ids, p, s) => Cleared(ids, p, s)'
  BY <1>4 DEF Cleared, WasReleased
<1>9. HandlersSound'
  <2>1. ASSUME NEW q2 \in Request, HandlerSound(q2)
        PROVE  HandlerSound(q2)'
    <3>1. InserterSound(q2)'
      BY <2>1 DEF HandlerSound, InserterSound
    <3>2. ReaderSound(q2)'
      <4> SUFFICES ASSUME q2.pc \in {"checkConflict", "fetchService",
                                     "insertBooking"}
                   PROVE  ReaderSound(q2)'
        BY DEF ReaderSound
      <4>1. q2.hold \in HoldIds
        BY <2>1, RequestKinds DEF BookRequest
      <4> QED
        BY <2>1, <4>1, <1>6, <1>7, <1>8
           DEF HandlerSound, ReaderSound, SameHold, HoldSound
    <3>3. ChangerSound(q2)'
      BY <2>1, <1>4 DEF HandlerSound, ChangerSound
    <3> QED
      BY <3>1, <3>2, <3>3 DEF HandlerSound
  <2> QED
    BY <2>1, HandlersKept
<1>10. HoldsSound'
  BY <1>6, <1>7 DEF IInv, HoldsSound, HoldSound, SameHold, HeldIds
<1>11. LogMirrorsBooking'
  <2> SUFFICES ASSUME NEW c \in BookingIds
               PROVE  IF bookings'[c] = Unused THEN logs'[c] = <<>>
                      ELSE /\ Len(logs'[c]) = bookings'[c].version
                           /\ bookings'[c].version >= 1
                           /\ logs'[c][1].previous = "NULL"
                           /\ logs'[c][1].new = "PENDING"
                           /\ logs'[c][bookings'[c].version].new
                                = bookings'[c].status
    BY DEF LogMirrorsBooking
  <2>1. CASE c = b
    <3>1. logs'[b] = <<LogEntry("NULL", "PENDING")>>
      BY DEF IInv, TypeOK
    <3>2. row # Unused
      BY <1>3, RowAssumption
    <3>3. row.version = 1 /\ row.status = "PENDING"
      BY DEF NewBookingRow
    <3>4. Len(logs'[b]) = 1 /\ logs'[b][1] = LogEntry("NULL", "PENDING")
      BY <3>1
    <3>5. /\ bookings'[c] # Unused
          /\ bookings'[c].version = 1
          /\ bookings'[c].status = "PENDING"
      BY <2>1, <1>4, <3>2, <3>3
    <3>6. /\ Len(logs'[c]) = 1
          /\ logs'[c][1].previous = "NULL"
          /\ logs'[c][1].new = "PENDING"
      BY <2>1, <3>4 DEF LogEntry
    <3>7. logs'[c][bookings'[c].version].new = bookings'[c].status
      BY ONLY <3>5, <3>6
    <3>8. bookings'[c].version >= 1
      BY ONLY <3>5
    <3> QED
      BY ONLY <3>5, <3>6, <3>7, <3>8
  <2>2. CASE c # b
    BY <2>2 DEF IInv, TypeOK, LogMirrorsBooking
  <2> QED
    BY <2>1, <2>2
<1>12. BookingBackedByHold'
  <2> SUFFICES ASSUME NEW c \in BookedIds'
               PROVE  LET new == bookings'[c]  hold == holds'[new.hold] IN
                      /\ new.hold \in HeldIds'
                      /\ hold.isConverted
                      /\ new.customer = hold.customer
                      /\ new.provider = hold.provider
                      /\ new.service = hold.service /\ new.slot = hold.slot
                      /\ new.tenant = hold.tenant
                      /\ new.tenant = TenantOf[new.customer]
                      /\ new.tenant = ProviderTenant[new.provider]
                      /\ new.slot.start < new.slot.end
                      /\ services[new.service] # "deleted"
    BY DEF BookingBackedByHold
  <2>1. CASE c = b
    <3>1. SameHold(holds'[q.hold], q.seen)
      BY <1>2, <1>5, <1>6 DEF ReaderSound, SameHold
    <3>2. services[q.seen.service] # "deleted"
      BY <1>2, <1>5 DEF ReaderSound, SameHold, IInv, HoldsSound
    <3> QED
      BY <2>1, <1>2, <1>4, <1>5, <1>7, <3>1, <3>2
         DEF NewBookingRow, ReaderSound, HoldSound, SameHold
  <2>2. CASE c # b
    <3>1. c \in BookedIds /\ bookings'[c] = bookings[c]
      BY <2>2, <1>4
    <3>2. bookings[c].hold \in HeldIds /\ bookings[c].hold \in HoldIds
      BY <3>1 DEF IInv, BookingBackedByHold, HeldIds
    <3> QED
      BY <3>1, <3>2, <1>6, <1>7 DEF IInv, BookingBackedByHold, SameHold
  <2> QED
    BY <2>1, <2>2
<1>13. BookingsCleared'
  <2> SUFFICES ASSUME NEW c \in BookedIds'
               PROVE  /\ c \notin bookings'[c].checked
                      /\ Cleared(bookings[c].checked, bookings[c].provider,
                                 bookings[c].slot)'
    BY DEF BookingsCleared
  <2>1. CASE c = b
    <3>1. /\ row.checked = q.checked
          /\ row.provider = q.seen.provider
          /\ row.slot = q.seen.slot
      BY DEF NewBookingRow
    <3>2. b \notin q.checked
      BY <1>2, <1>4 DEF ReaderSound, Cleared
    <3>3. Cleared(q.checked, q.seen.provider, q.seen.slot)
      BY <1>2 DEF ReaderSound
    <3>4. PICK ids, p, s : ids = q.checked /\ p = q.seen.provider
                           /\ s = q.seen.slot
      OBVIOUS
    <3>5. Cleared(ids, p, s)'
      BY <3>3, <3>4, <1>8
    <3>6. /\ bookings'[c].checked = ids
          /\ bookings'[c].provider = p
          /\ bookings'[c].slot = s
      BY <2>1, <3>1, <3>4, <1>4
    <3> QED
      BY <2>1, <3>1, <3>2, <3>5, <3>6, <1>4 DEF Cleared
  <2>2. CASE c # b
    <3>1. c \in BookedIds /\ bookings'[c] = bookings[c]
      BY <2>2, <1>4
    <3> QED
      BY <3>1, <1>4 DEF IInv, BookingsCleared, Cleared, WasReleased
  <2> QED
    BY <2>1, <2>2
<1> QED
  BY <1>9, <1>10, <1>11, <1>12, <1>13 DEF IInv

\* One proof for confirm, cancel and complete: the log grows by the new status.
LEMMA InvSetStatus ==
    ASSUME IInv, TypeOK', NEW r \in Requests, Changing(r), NEW new \in Status,
           SetStatus(r, new)
    PROVE  IInv'
<1> DEFINE b == req[r].booking
           entry == LogEntry(req[r].status, new)
<1> USE DEF SetStatus
<1>1. /\ b \in BookedIds /\ b \in BookingIds
      /\ bookings[b] \in BookingRow
  BY RowsAreRows DEF Changing, IInv, HandlersSound, HandlerSound, ChangerSound,
                     BookedIds
<1>2. /\ Moved(bookings[b], new) \in BookingRow
      /\ bookings'[b] = Moved(bookings[b], new)
      /\ \A c \in BookingIds : c # b => bookings'[c] = bookings[c]
  BY <1>1, MovedRow DEF IInv, TypeOK
<1>3. /\ BookedIds' = BookedIds
      /\ HeldIds' = HeldIds
  BY <1>1, <1>2, RowAssumption DEF BookedIds, HeldIds
<1>4. \A c \in BookedIds :
         /\ bookings'[c].tenant = bookings[c].tenant
         /\ bookings'[c].customer = bookings[c].customer
         /\ bookings'[c].provider = bookings[c].provider
         /\ bookings'[c].service = bookings[c].service
         /\ bookings'[c].slot = bookings[c].slot
         /\ bookings'[c].hold = bookings[c].hold
         /\ bookings'[c].checked = bookings[c].checked
  BY <1>1, <1>2, MovedRow DEF BookedIds
<1>5. /\ bookings'[b].status = new
      /\ bookings'[b].version = bookings[b].version + 1
  BY <1>1, <1>2, MovedRow
<1>6. /\ logs'[b] = Append(logs[b], entry)
      /\ \A c \in BookingIds : c # b => logs'[c] = logs[c]
  BY <1>1 DEF IInv, TypeOK
<1>7. \A c \in BookingIds : logs[c] \in Seq(LogRow)
  BY DEF IInv, TypeOK
<1>8. entry \in LogRow
  BY <1>1, RequestKinds
     DEF Changing, IInv, TypeOK, StatusRequest, LogEntry, LogRow
<1>9. \A c \in BookingIds :
         /\ Len(logs'[c]) \in Nat
         /\ Len(logs'[c]) = IF c = b THEN Len(logs[c]) + 1 ELSE Len(logs[c])
         /\ \A i \in 1..Len(logs[c]) : logs'[c][i] = logs[c][i]
  BY <1>6, <1>7, <1>8
<1>10. \A c \in BookingIds : WasReleased(c) => WasReleased(c)'
  BY <1>7, <1>9 DEF WasReleased
<1>11. \A ids, p, s : Cleared(ids, p, s) => Cleared(ids, p, s)'
  BY <1>3, <1>4, <1>10 DEF Cleared, BookedIds
<1>12. HandlersSound'
  <2>1. ASSUME NEW q \in Request, HandlerSound(q)
        PROVE  HandlerSound(q)'
    <3>1. InserterSound(q)'
      BY <2>1 DEF HandlerSound, InserterSound
    <3>2. ReaderSound(q)'
      BY <2>1, <1>3, <1>11 DEF HandlerSound, ReaderSound
    <3>3. ChangerSound(q)'
      <4> SUFFICES ASSUME q.pc \in {"confirm", "cancel", "complete"}
                   PROVE  /\ q.booking \in BookedIds'
                          /\ q.version \in 1..bookings'[q.booking].version
                          /\ logs'[q.booking][q.version].new = q.status
        BY <2>1 DEF HandlerSound, ChangerSound
      <4>1. /\ q.booking \in BookedIds /\ q.booking \in BookingIds
            /\ q.version \in 1..bookings[q.booking].version
            /\ logs[q.booking][q.version].new = q.status
        BY <2>1 DEF HandlerSound, ChangerSound, BookedIds
      <4>2. /\ Len(logs[q.booking]) = bookings[q.booking].version
            /\ bookings[q.booking] \in BookingRow
        BY <4>1, RowsAreRows DEF IInv, LogMirrorsBooking, BookedIds
      <4>3. bookings[q.booking].version \in Nat
        BY <4>2 DEF BookingRow
      <4>4. q.version \in 1..bookings'[q.booking].version
        BY <4>1, <4>3, <1>2, <1>5
      <4> QED
        BY <4>1, <4>2, <4>4, <1>3, <1>9
    <3> QED
      BY <3>1, <3>2, <3>3 DEF HandlerSound
  <2> QED
    BY <2>1, HandlersKept
<1>13. HoldsSound'
  BY <1>3 DEF IInv, HoldsSound, HoldSound
<1>14. LogMirrorsBooking'
  <2> SUFFICES ASSUME NEW c \in BookingIds
               PROVE  IF bookings'[c] = Unused THEN logs'[c] = <<>>
                      ELSE /\ Len(logs'[c]) = bookings'[c].version
                           /\ bookings'[c].version >= 1
                           /\ logs'[c][1].previous = "NULL"
                           /\ logs'[c][1].new = "PENDING"
                           /\ logs'[c][bookings'[c].version].new
                                = bookings'[c].status
    BY DEF LogMirrorsBooking
  <2>1. CASE c # b
    BY <2>1, <1>2, <1>6 DEF IInv, LogMirrorsBooking
  <2>2. CASE c = b
    <3>1. /\ Len(logs[b]) = bookings[b].version
          /\ bookings[b].version >= 1
          /\ logs[b][1].previous = "NULL"
          /\ logs[b][1].new = "PENDING"
      BY <1>1 DEF IInv, LogMirrorsBooking, BookedIds
    <3>2. bookings[b].version \in Nat
      BY <1>1 DEF BookingRow
    <3>3. logs'[b][1] = logs[b][1]
      BY <3>1, <3>2, <1>1, <1>9
    <3>4. logs'[b][bookings[b].version + 1] = entry
      BY <3>1, <3>2, <1>1, <1>6, <1>7, <1>8
    <3>5. Len(logs'[b]) = bookings[b].version + 1
      BY <3>1, <1>1, <1>9
    <3> QED
      BY <2>2, <3>1, <3>2, <3>3, <3>4, <3>5, <1>2, <1>5, RowAssumption
         DEF LogEntry
  <2> QED
    BY <2>1, <2>2
<1>15. BookingBackedByHold'
  BY <1>3, <1>4 DEF IInv, BookingBackedByHold
<1>16. BookingsCleared'
  <2> SUFFICES ASSUME NEW c \in BookedIds
               PROVE  /\ c \notin bookings'[c].checked
                      /\ Cleared(bookings[c].checked, bookings[c].provider,
                                 bookings[c].slot)'
    BY <1>3 DEF BookingsCleared
  <2>1. PICK ids, p, s : /\ ids = bookings[c].checked
                         /\ p = bookings[c].provider
                         /\ s = bookings[c].slot
    OBVIOUS
  <2>2. Cleared(ids, p, s)'
    BY <2>1, <1>11 DEF IInv, BookingsCleared
  <2> QED
    BY <2>1, <2>2, <1>4 DEF IInv, BookingsCleared, Cleared
<1> QED
  BY <1>12, <1>13, <1>14, <1>15, <1>16 DEF IInv

LEMMA InvUpdateService ==
    ASSUME IInv, TypeOK', NEW s \in Services,
           UpdateService(s) \/ DeleteService(s)
    PROVE  IInv'
<1>1. UNCHANGED <<holds, bookings, logs, req, now>>
  BY DEF UpdateService, DeleteService
<1>2. /\ HeldIds' = HeldIds
      /\ BookedIds' = BookedIds
  BY <1>1 DEF HeldIds, BookedIds
<1>3. ASSUME NEW t \in Services, services[t] # "deleted", services'[t] = "deleted"
      PROVE  /\ \A h \in HeldIds : holds[h].service # t
             /\ \A b \in BookedIds : bookings[b].service # t
  <2>1. CASE UpdateService(s)
    BY <2>1, <1>3 DEF UpdateService, IInv, TypeOK
  <2>2. CASE DeleteService(s)
    BY <2>2, <1>3 DEF DeleteService, IInv, TypeOK
  <2> QED
    BY <2>1, <2>2
<1>4. HandlersSound'
  BY <1>1, <1>2
     DEF IInv, HandlersSound, HandlerSound, InserterSound, ReaderSound,
         ChangerSound, Cleared, WasReleased
<1>5. HoldsSound'
  <2> SUFFICES ASSUME NEW h \in HeldIds
               PROVE  HoldSound(holds[h]) /\ services'[holds[h].service] # "deleted"
    BY <1>1, <1>2 DEF HoldsSound, HoldSound
  <2>1. holds[h] \in HoldRow
    BY RowsAreRows DEF HeldIds, IInv
  <2> QED
    BY <2>1, <1>3 DEF IInv, HoldsSound, HoldRow
<1>6. LogMirrorsBooking'
  BY <1>1 DEF IInv, LogMirrorsBooking
<1>7. BookingBackedByHold'
  <2>1. \A b \in BookedIds : bookings[b].service \in Services
    BY RowsAreRows DEF BookedIds, IInv, BookingRow
  <2>2. \A b \in BookedIds : services'[bookings[b].service] # "deleted"
    BY <2>1, <1>3 DEF IInv, BookingBackedByHold
  <2> QED
    BY <2>2, <1>1, <1>2 DEF IInv, BookingBackedByHold
<1>8. BookingsCleared'
  BY <1>1, <1>2 DEF IInv, BookingsCleared, Cleared, WasReleased
<1> QED
  BY <1>4, <1>5, <1>6, <1>7, <1>8 DEF IInv

\* The clock alone, or nothing at all.
LEMMA InvTick ==
    ASSUME IInv, TypeOK', UNCHANGED <<services, holds, bookings, logs, req>>
    PROVE  IInv'
<1>1. /\ HeldIds' = HeldIds
      /\ BookedIds' = BookedIds
  BY DEF HeldIds, BookedIds
<1>2. HandlersSound'
  BY <1>1 DEF IInv, HandlersSound, HandlerSound, InserterSound, ReaderSound,
              ChangerSound, Cleared, WasReleased
<1>3. HoldsSound' /\ LogMirrorsBooking' /\ BookingBackedByHold'
  BY <1>1 DEF IInv, HoldsSound, LogMirrorsBooking, BookingBackedByHold
<1>4. BookingsCleared'
  BY <1>1 DEF IInv, BookingsCleared, Cleared, WasReleased
<1> QED
  BY <1>2, <1>3, <1>4 DEF IInv

-----------------------------------------------------------------------------
(* The invariant as a whole, and the theorems that follow from it.         *)

LEMMA InvInit == Init => IInv
<1> SUFFICES ASSUME Init
             PROVE  IInv
  OBVIOUS
<1>1. TypeOK
  BY TypeInit
<1>2. HeldIds = {} /\ BookedIds = {}
  BY DEF Init, HeldIds, BookedIds
<1>3. HandlersSound
  BY IdleSound DEF Init, HandlersSound
<1>4. LogMirrorsBooking
  BY DEF Init, LogMirrorsBooking
<1> QED
  BY <1>1, <1>2, <1>3, <1>4
     DEF IInv, HoldsSound, BookingBackedByHold, BookingsCleared

LEMMA ChangersBooked ==
    ASSUME IInv, NEW r \in Requests, Changing(r)
    PROVE  bookings[req[r].booking] # Unused
BY DEF IInv, HandlersSound, HandlerSound, ChangerSound, Changing, BookedIds

LEMMA InvHoldStep ==
    ASSUME IInv, NEW r \in Requests, HoldStep(r)
    PROVE  IInv'
BY TypeHoldStep, InvCreateHold, InvInsertHold DEF HoldStep, PostSlotHold, IInv

LEMMA InvBookStep ==
    ASSUME IInv, NEW r \in Requests, BookStep(r)
    PROVE  IInv'
<1>1. TypeOK'
  BY TypeBookStep DEF IInv
<1> QED
  BY <1>1, InvReadHold, InvCheckConflict, InvFetchService, InvInsertBooking
     DEF BookStep, PostBooking

LEMMA InvStatusStep ==
    ASSUME IInv, NEW r \in Requests, StatusStep(r)
    PROVE  IInv'
<1>1. ASSUME NEW u \in Users, NEW b \in BookingIds,
             NEW pc \in {"confirm", "cancel", "complete"},
             ReadBooking(r, u, b, pc),
             bookings[b].status \notin {"CANCELLED", "COMPLETED"}
      PROVE  IInv'
  <2>1. bookings[b] \in BookingRow
    BY <1>1, RowsAreRows DEF ReadBooking, IInv
  <2>2. [pc |-> pc, booking |-> b, status |-> bookings[b].status,
         version |-> bookings[b].version] \in Request
    BY <2>1 DEF Request, StatusRequest, BookingRow
  <2>3. TypeOK'
    BY <1>1, <2>2 DEF ReadBooking, IInv, TypeOK
  <2> QED
    BY <1>1, <2>3, InvReadBooking
<1>2. ASSUME NEW new \in Status, Changing(r), SetStatus(r, new)
      PROVE  IInv'
  BY <1>2, ChangersBooked, TypeSetStatus, InvSetStatus DEF IInv
<1>3. CASE \E u \in Users, b \in BookingIds : \/ ReadConfirm(r, u, b)
                                              \/ ReadCancel(r, u, b)
                                              \/ ReadComplete(r, u, b)
  BY <1>3, <1>1 DEF ReadConfirm, ReadCancel, ReadComplete, ConfirmAllowed,
                    CancelAllowed, CompleteAllowed
<1>4. CASE Confirm(r) \/ Cancel(r) \/ Complete(r)
  BY <1>4, <1>2 DEF Confirm, Cancel, Complete, Changing, Status
<1> QED
  BY <1>3, <1>4 DEF StatusStep, PatchConfirm, PatchCancel, PatchComplete

LEMMA InvNext == IInv /\ [Next]_vars => IInv'
<1> SUFFICES ASSUME IInv, [Next]_vars
             PROVE  IInv'
  OBVIOUS
<1>1. ASSUME NEW r \in Requests, HoldStep(r)
      PROVE  IInv'
  BY <1>1, InvHoldStep
<1>2. ASSUME NEW r \in Requests, BookStep(r)
      PROVE  IInv'
  BY <1>2, InvBookStep
<1>3. ASSUME NEW r \in Requests, StatusStep(r)
      PROVE  IInv'
  BY <1>3, InvStatusStep
<1>4. ASSUME NEW r \in Requests, Abort(r)
      PROVE  IInv'
  <2>1. TypeOK'
    BY <1>4 DEF Abort, IInv, TypeOK, Request
  <2> QED
    BY <1>4, <2>1, InvAbort
<1>5. ASSUME NEW t \in Tenants, DeleteExpiredHolds(t)
      PROVE  IInv'
  <2>1. TypeOK'
    BY <1>5 DEF DeleteExpiredHolds, IInv, TypeOK
  <2> QED
    BY <1>5, <2>1, InvDeleteExpiredHolds
<1>6. ASSUME NEW s \in Services, UpdateService(s) \/ DeleteService(s)
      PROVE  IInv'
  <2>1. TypeOK'
    BY <1>6 DEF UpdateService, DeleteService, IInv, TypeOK
  <2> QED
    BY <1>6, <2>1, InvUpdateService
<1>7. CASE Tick
  <2>1. TypeOK'
    BY <1>7 DEF Tick, IInv, TypeOK
  <2> QED
    BY <1>7, <2>1, InvTick DEF Tick
<1>8. CASE UNCHANGED vars
  <2>1. TypeOK'
    BY <1>8 DEF vars, IInv, TypeOK
  <2> QED
    BY <1>8, <2>1, InvTick DEF vars
<1> QED
  BY <1>1, <1>2, <1>3, <1>4, <1>5, <1>6, <1>7, <1>8
     DEF Next, CleanupExpiredHolds

LEMMA Inductive == Spec => []IInv
<1>1. Init => IInv
  BY InvInit
<1>2. IInv /\ [Next]_vars => IInv'
  BY InvNext
<1> QED
  BY <1>1, <1>2, PTL DEF Spec

\* Every variable keeps its type: in particular no transaction of the service
\* leaves a row half written.
THEOREM TypeCorrect == Spec => []TypeOK
BY Inductive, PTL DEF IInv

\* The log and the version of a booking agree with its status after any
\* interleaving of confirm, cancel and complete.
THEOREM LogsMirror == Spec => []LogMirrorsBooking
BY Inductive, PTL DEF IInv

\* Cleanup, deletion of services and concurrent bookings never take away the
\* hold or the service a booking refers to, nor mix tenants.
THEOREM HoldsBackBookings == Spec => []BookingBackedByHold
BY Inductive, PTL DEF IInv

LEMMA SnapshotsTellStatus ==
    ASSUME IInv, NEW r \in Requests, Changing(r)
    PROVE  /\ req[r].booking \in BookedIds
           /\ req[r].version <= bookings[req[r].booking].version
           /\ req[r].version = bookings[req[r].booking].version
              => req[r].status = bookings[req[r].booking].status
           /\ req[r].version # bookings[req[r].booking].version
              => req[r].version < bookings[req[r].booking].version
           /\ req[r].status \notin {"CANCELLED", "COMPLETED"}
<1> DEFINE b == req[r].booking
<1>1. /\ b \in BookedIds
      /\ req[r].version \in 1..bookings[b].version
      /\ logs[b][req[r].version].new = req[r].status
      /\ req[r].status \notin {"CANCELLED", "COMPLETED"}
  BY DEF IInv, HandlersSound, HandlerSound, ChangerSound, Changing
<1>2. logs[b][bookings[b].version].new = bookings[b].status
  BY <1>1 DEF IInv, LogMirrorsBooking, BookedIds
<1>3. bookings[b].version \in Nat
  BY <1>1, RowsAreRows DEF IInv, BookedIds, BookingRow
<1> QED
  BY <1>1, <1>2, <1>3

\* Comparing the version a handler has read with the one in the row would tell
\* confirm, cancel and complete whether the status they checked still holds.
THEOREM VersionsDetectStale == Spec => []VersionDetectsStale
<1>1. IInv => VersionDetectsStale
  BY SnapshotsTellStatus DEF VersionDetectsStale, BookedIds
<1> QED
  BY <1>1, Inductive, PTL

\* A booking that was released and is live has been reopened.
LEMMA ReleasedAndLive ==
    ASSUME IInv, NEW c \in BookedIds, WasReleased(c),
           bookings[c].status \notin Released
    PROVE  Reopened(c)
<1>1. PICK i \in 1..Len(logs[c]) : logs[c][i].new \in Released
  BY DEF WasReleased
<1>2. /\ Len(logs[c]) = bookings[c].version
      /\ logs[c][bookings[c].version].new = bookings[c].status
  BY DEF IInv, LogMirrorsBooking, BookedIds
<1>3. Len(logs[c]) \in Nat
  BY DEF IInv, TypeOK, BookedIds
<1>4. i \in 1..(Len(logs[c]) - 1)
  BY <1>1, <1>2, <1>3
<1> QED
  BY <1>1, <1>4 DEF Reopened

\* Two live overlapping bookings of a provider: neither was there when the
\* other was checked for conflicts, or one was cancelled and then reopened.
THEOREM OverlapsAreRaces == Spec => []OverlapOnlyByRace
<1>1. IInv => OverlapOnlyByRace
  BY ReleasedAndLive DEF IInv, BookingsCleared, Cleared, Clash, Live, Overlap,
                         OverlapOnlyByRace
<1> QED
  BY <1>1, Inductive, PTL

\* A booking leaves CANCELLED or COMPLETED only by the transaction of a handler
\* that read an older version of it.
THEOREM ReopenedByStaleRead == Spec => ReopenedOnlyByStaleRead
<1> DEFINE Stepwise ==
        \A b \in BookedIds :
          /\ bookings[b].status \in {"CANCELLED", "COMPLETED"}
          /\ bookings'[b].status # bookings[b].status
          => \E r \in Requests : /\ Changing(r)
                                 /\ req[r].booking = b
                                 /\ req[r].version < bookings[b].version
<1>1. ASSUME IInv, [Next]_vars
      PROVE  Stepwise
  <2> SUFFICES ASSUME NEW b \in BookedIds,
                      bookings[b].status \in {"CANCELLED", "COMPLETED"},
                      bookings'[b].status # bookings[b].status
               PROVE  \E r \in Requests :
                         /\ Changing(r)
                         /\ req[r].booking = b
                         /\ req[r].version < bookings[b].version
    OBVIOUS
  <2>1. ASSUME NEW r \in Requests, NEW new \in Status, Changing(r),
               SetStatus(r, new)
        PROVE  req[r].booking = b /\ req[r].version < bookings[b].version
    <3>1. req[r].booking = b
      BY <1>1, <2>1 DEF SetStatus, IInv, TypeOK, BookedIds
    <3> QED
      BY <1>1, <2>1, <3>1, SnapshotsTellStatus
  <2>2. ASSUME NEW r \in Requests, NEW c \in BookingIds, InsertBooking(r, c)
        PROVE  FALSE
    BY <1>1, <2>2 DEF InsertBooking, IInv, TypeOK, BookedIds
  <2>3. ASSUME NEW r \in Requests, Confirm(r) \/ Cancel(r) \/ Complete(r)
        PROVE  Changing(r) /\ \E new \in Status : SetStatus(r, new)
    BY <2>3 DEF Confirm, Cancel, Complete, Changing, Status
  <2>4. CASE UNCHANGED bookings
    BY <2>4
  <2>5. CASE ~UNCHANGED bookings
    <3>1. \E r \in Requests : \/ \E c \in BookingIds : InsertBooking(r, c)
                              \/ Confirm(r) \/ Cancel(r) \/ Complete(r)
      BY <1>1, <2>5
         DEF Next, vars, HoldStep, BookStep, StatusStep, PostSlotHold,
             PostBooking, PatchConfirm, PatchCancel, PatchComplete,
             CleanupExpiredHolds, CreateHold, InsertHold,
             ReadHold, CheckConflict, FetchService, ReadBooking, ReadConfirm,
             ReadCancel, ReadComplete, Abort, DeleteExpiredHolds, UpdateService,
             DeleteService, Tick
    <3> QED
      BY <2>1, <2>2, <2>3, <3>1
  <2> QED
    BY <2>4, <2>5
<1>2. IInv /\ [Next]_vars => [Stepwise]_vars
  BY <1>1
<1> QED
  BY <1>2, Inductive, PTL DEF Spec, ReopenedOnlyByStaleRead

-----------------------------------------------------------------------------
(* With the discipline of SerialisedSpec nothing a handler has checked is   *)
(* out of date when it writes.                                              *)

\* The conflict query and the status check of a handler still hold.
Fresh(q) ==
    /\ q.pc \in {"fetchService", "insertBooking"} => Conflicts(q.seen) = {}
    /\ q.pc \in {"confirm", "cancel", "complete"}
       => q.status = bookings[q.booking].status
    /\ q.pc = "confirm" => q.status = "PENDING"
    /\ q.pc = "complete" => q.status \in {"CONFIRMED", "IN_PROGRESS"}

HandlersFresh == \A r \in Requests : Fresh(req[r])

SInv ==
    /\ IInv
    /\ Serialised
    /\ HandlersFresh
    /\ NoDoubleBooking
    /\ AuditChain

LEMMA IdleFresh == Fresh(Idle)
BY DEF Fresh, Idle

LEMMA SerialisedInit == Init => SInv
<1> SUFFICES ASSUME Init
             PROVE  SInv
  OBVIOUS
<1>1. IInv
  BY InvInit
<1>2. HandlersFresh
  BY IdleFresh DEF Init, HandlersFresh
<1>3. Serialised
  BY DEF Init, Serialised, Booking, Changing, Idle
<1>4. BookedIds = {}
  BY DEF Init, BookedIds
<1> QED
  BY <1>1, <1>2, <1>3, <1>4 DEF SInv, NoDoubleBooking, AuditChain

\* A step that leaves bookings and log alone and moves one handler.
LEMMA FreshMoves ==
    ASSUME SInv, NEW r \in Requests, NEW q, Fresh(q),
           req' = [req EXCEPT ![r] = q], UNCHANGED <<bookings, logs>>
    PROVE  HandlersFresh' /\ NoDoubleBooking' /\ AuditChain'
<1>1. BookedIds' = BookedIds
  BY DEF BookedIds
<1>2. HandlersFresh'
  <2> SUFFICES ASSUME NEW r2 \in Requests
               PROVE  Fresh(req[r2])'
    BY DEF HandlersFresh
  <2>1. req'[r2] = IF r2 = r THEN q ELSE req[r2]
    BY DEF SInv, IInv, TypeOK
  <2>2. Fresh(req'[r2])
    BY <2>1 DEF SInv, HandlersFresh
  <2> QED
    BY <2>2, <1>1 DEF Fresh, Conflicts
<1>3. NoDoubleBooking' /\ AuditChain'
  BY <1>1 DEF SInv, NoDoubleBooking, AuditChain, Clash, Live
<1> QED
  BY <1>2, <1>3

LEMMA FreshReadBooking ==
    ASSUME SInv, NEW r \in Requests, NEW u \in Users, NEW b \in BookingIds,
           ReadConfirm(r, u, b) \/ ReadCancel(r, u, b) \/ ReadComplete(r, u, b)
    PROVE  HandlersFresh' /\ NoDoubleBooking' /\ AuditChain'
<1>1. PICK pc \in {"confirm", "cancel", "complete"} :
         /\ ReadBooking(r, u, b, pc)
         /\ pc = "confirm" => bookings[b].status = "PENDING"
         /\ pc = "complete" => bookings[b].status \in {"CONFIRMED",
                                                      "IN_PROGRESS"}
  BY DEF ReadConfirm, ReadCancel, ReadComplete, ConfirmAllowed, CompleteAllowed
<1> DEFINE q == [pc |-> pc, booking |-> b, status |-> bookings[b].status,
                 version |-> bookings[b].version]
<1>2. Fresh(q)
  BY <1>1 DEF Fresh
<1> QED
  BY <1>1, <1>2, FreshMoves DEF ReadBooking

LEMMA FreshCheckConflict ==
    ASSUME SInv, NEW r \in Requests, CheckConflict(r) \/ FetchService(r)
    PROVE  HandlersFresh' /\ NoDoubleBooking' /\ AuditChain'
<1>1. req[r] \in BookRequest /\ Fresh(req[r])
  BY RequestKinds DEF CheckConflict, FetchService, SInv, IInv, TypeOK,
                      HandlersFresh
<1>2. CASE CheckConflict(r) /\ Conflicts(req[r].seen) = {}
  <2> DEFINE q == [req[r] EXCEPT !.pc = "fetchService", !.checked = BookedIds]
  <2>1. q.pc = "fetchService" /\ q.seen = req[r].seen
    BY <1>1 DEF BookRequest
  <2>2. Fresh(q)
    BY <1>2, <2>1 DEF Fresh
  <2> QED
    BY <1>2, <2>2, FreshMoves DEF CheckConflict
<1>3. CASE FetchService(r) /\ services[req[r].seen.service] # "deleted"
  <2> DEFINE q == [req[r] EXCEPT !.pc = "insertBooking"]
  <2>1. q.pc = "insertBooking" /\ q.seen = req[r].seen
    BY <1>1 DEF BookRequest
  <2>2. Fresh(q)
    BY <1>1, <1>3, <2>1 DEF Fresh, FetchService
  <2> QED
    BY <1>3, <2>2, FreshMoves DEF FetchService
<1>4. CASE req' = [req EXCEPT ![r] = Idle] /\ UNCHANGED <<bookings, logs>>
  BY <1>4, IdleFresh, FreshMoves
<1> QED
  BY <1>2, <1>3, <1>4 DEF CheckConflict, FetchService

\* createBooking: nothing it did not see has been booked for the provider.
LEMMA FreshInsertBooking ==
    ASSUME SInv, IInv', NEW r \in Requests, NEW b \in BookingIds,
           InsertBooking(r, b)
    PROVE  HandlersFresh' /\ NoDoubleBooking' /\ AuditChain'
<1> DEFINE q == req[r]
           row == NewBookingRow(q)
<1> USE DEF InsertBooking
<1>1. q \in BookRequest /\ Fresh(q)
  BY RequestKinds DEF SInv, IInv, TypeOK, HandlersFresh
<1>2. row \in BookingRow
  BY <1>1 DEF NewBookingRow, BookingRow, BookRequest, HoldRow, Customers, Status
<1>3. /\ bookings'[b] = row
      /\ \A c \in BookedIds : c # b /\ bookings'[c] = bookings[c]
                                   /\ logs'[c] = logs[c]
      /\ BookedIds' = BookedIds \cup {b}
  BY <1>2, RowAssumption DEF BookedIds, SInv, IInv, TypeOK
<1>4. /\ row.provider = q.seen.provider
      /\ row.slot = q.seen.slot
  BY DEF NewBookingRow
<1>5. Conflicts(q.seen) = {}
  BY <1>1 DEF Fresh
<1>6. HandlersFresh'
  <2> SUFFICES ASSUME NEW r2 \in Requests
               PROVE  Fresh(req[r2])'
    BY DEF HandlersFresh
  <2>1. CASE r2 = r
    <3>1. req'[r2] = Idle
      BY <2>1 DEF SInv, IInv, TypeOK
    <3> QED
      BY <3>1 DEF Fresh, Idle
  <2>2. CASE r2 # r
    <3>1. req'[r2] = req[r2] /\ Fresh(req[r2])
      BY <2>2 DEF SInv, IInv, TypeOK, HandlersFresh
    <3>2. ASSUME req[r2].pc \in {"fetchService", "insertBooking"}
          PROVE  Conflicts(req[r2].seen)' = {}
      <4>1. req[r2].seen.provider # row.provider
        BY <2>2, <3>2, <1>4 DEF SInv, Serialised, Booking
      <4>2. Conflicts(req[r2].seen) = {}
        BY <3>1, <3>2 DEF Fresh
      <4> QED
        BY <3>1, <4>1, <4>2, <1>3 DEF Conflicts
    <3>3. ASSUME req[r2].pc \in {"confirm", "cancel", "complete"}
          PROVE  bookings'[req[r2].booking] = bookings[req[r2].booking]
      <4>1. req[r2].booking \in BookedIds
        BY <3>3 DEF SInv, IInv, HandlersSound, HandlerSound, ChangerSound
      <4> QED
        BY <4>1, <1>3
    <3> QED
      BY <3>1, <3>2, <3>3 DEF Fresh
  <2> QED
    BY <2>1, <2>2
<1>7. NoDoubleBooking'
  <2> SUFFICES ASSUME NEW c \in BookedIds', NEW d \in BookedIds', Clash(c, d)'
               PROVE  FALSE
    BY DEF NoDoubleBooking
  <2>1. ASSUME NEW e \in BookedIds, Clash(b, e)' \/ Clash(e, b)'
        PROVE  FALSE
    <3>1. /\ bookings[e].status \notin Released
          /\ bookings[e].provider = row.provider
          /\ \/ Overlap(bookings[e].slot, row.slot)
             \/ Overlap(row.slot, bookings[e].slot)
      BY <2>1, <1>3 DEF Clash, Live
    <3>2. /\ bookings[e].slot \in [start: Nat, end: Nat]
          /\ row.slot \in [start: Nat, end: Nat]
      BY <1>2, RowsAreRows, ConstantsAssumption
         DEF SInv, IInv, BookingRow, BookedIds
    <3>3. Overlap(bookings[e].slot, row.slot)
      BY <3>1, <3>2 DEF Overlap
    <3> QED
      BY <3>1, <3>3, <1>4, <1>5 DEF Conflicts
  <2>2. CASE c \in BookedIds /\ d \in BookedIds
    BY <2>2, <1>3 DEF Clash, Live, SInv, NoDoubleBooking
  <2>3. CASE c = b \/ d = b
    BY <2>1, <2>3, <1>3 DEF Clash
  <2> QED
    BY <2>2, <2>3, <1>3
<1>8. AuditChain'
  <2> SUFFICES ASSUME NEW c \in BookedIds', NEW i \in 2..Len(logs'[c])
               PROVE  logs'[c][i].previous = logs'[c][i - 1].new
    BY DEF AuditChain
  <2>1. CASE c = b
    <3>1. logs'[b] = <<LogEntry("NULL", "PENDING")>>
      BY DEF SInv, IInv, TypeOK
    <3> QED
      BY <2>1, <3>1
  <2>2. CASE c \in BookedIds
    BY <2>2, <1>3 DEF SInv, AuditChain
  <2> QED
    BY <2>1, <2>2, <1>3
<1> QED
  BY <1>6, <1>7, <1>8

\* The status flow: what confirm, cancel and complete move from and to.
Flow(b, new) ==
    \/ bookings[b].status = "PENDING" /\ new = "CONFIRMED"
    \/ bookings[b].status \in {"CONFIRMED", "IN_PROGRESS"} /\ new = "COMPLETED"
    \/ bookings[b].status \notin {"CANCELLED", "COMPLETED"} /\ new = "CANCELLED"

LEMMA ChangesFlow ==
    ASSUME SInv, NEW r \in Requests, Confirm(r) \/ Cancel(r) \/ Complete(r)
    PROVE  /\ Changing(r)
           /\ req[r].booking \in BookedIds
           /\ req[r].status = bookings[req[r].booking].status
           /\ \E new \in Status : SetStatus(r, new) /\ Flow(req[r].booking, new)
<1>1. Changing(r)
  BY DEF Confirm, Cancel, Complete, Changing
<1>2. Fresh(req[r]) /\ ChangerSound(req[r])
  BY DEF SInv, IInv, HandlersSound, HandlerSound, HandlersFresh
<1> QED
  BY <1>1, <1>2 DEF Confirm, Cancel, Complete, Changing, Fresh, ChangerSound,
                    Flow, Status

LEMMA FreshSetStatus ==
    ASSUME SInv, IInv', NEW r \in Requests,
           Confirm(r) \/ Cancel(r) \/ Complete(r)
    PROVE  HandlersFresh' /\ NoDoubleBooking' /\ AuditChain'
<1> DEFINE b == req[r].booking
<1>1. /\ Changing(r) /\ b \in BookedIds /\ b \in BookingIds
      /\ req[r].status = bookings[b].status
  BY ChangesFlow DEF BookedIds
<1>2. PICK new \in Status : SetStatus(r, new) /\ Flow(b, new)
  BY ChangesFlow
<1>3. bookings[b] \in BookingRow
  BY <1>1, RowsAreRows DEF SInv, IInv
<1>4. /\ Moved(bookings[b], new) \in BookingRow
      /\ bookings'[b] = Moved(bookings[b], new)
      /\ \A c \in BookingIds : c # b => bookings'[c] = bookings[c]
  BY <1>1, <1>2, <1>3, MovedRow DEF SetStatus, SInv, IInv, TypeOK
<1>5. BookedIds' = BookedIds
  BY <1>1, <1>4, RowAssumption DEF BookedIds
<1>6. \A c \in BookedIds :
         /\ bookings'[c].provider = bookings[c].provider
         /\ bookings'[c].slot = bookings[c].slot
         /\ bookings'[c].status \notin Released
            => bookings[c].status \notin Released
  <2>1. bookings'[b].status = new
    BY <1>3, <1>4, MovedRow
  <2>2. new \notin Released => bookings[b].status \notin Released
    BY <1>2 DEF Flow, Released
  <2> QED
    BY <1>3, <1>4, <2>1, <2>2, MovedRow DEF BookedIds
<1>7. HandlersFresh'
  <2> SUFFICES ASSUME NEW r2 \in Requests
               PROVE  Fresh(req[r2])'
    BY DEF HandlersFresh
  <2>1. CASE r2 = r
    <3>1. req'[r2] = Idle
      BY <2>1, <1>2 DEF SetStatus, SInv, IInv, TypeOK
    <3> QED
      BY <3>1 DEF Fresh, Idle
  <2>2. CASE r2 # r
    <3>1. req'[r2] = req[r2] /\ Fresh(req[r2])
      BY <2>2, <1>2 DEF SetStatus, SInv, IInv, TypeOK, HandlersFresh
    <3>2. ASSUME NEW hold, Conflicts(hold) = {}
          PROVE  Conflicts(hold)' = {}
      BY <3>2, <1>5, <1>6 DEF Conflicts
    <3>3. ASSUME req[r2].pc \in {"confirm", "cancel", "complete"}
          PROVE  bookings'[req[r2].booking] = bookings[req[r2].booking]
      <4>1. req[r2].booking \in BookingIds
        BY <3>3 DEF SInv, IInv, HandlersSound, HandlerSound, ChangerSound,
                    BookedIds
      <4>2. req[r2].booking # b
        BY <2>2, <3>3, <1>1 DEF SInv, Serialised, Changing
      <4> QED
        BY <4>1, <4>2, <1>4
    <3>4. req[r2].pc \in {"fetchService", "insertBooking"}
          => Conflicts(req[r2].seen)' = {}
      <4>1. PICK hold : hold = req[r2].seen
        OBVIOUS
      <4>2. Conflicts(hold) = {} => Conflicts(hold)' = {}
        BY <3>2
      <4> QED
        BY <3>1, <4>1, <4>2 DEF Fresh, Conflicts
    <3> QED
      BY <3>1, <3>3, <3>4 DEF Fresh, Conflicts
  <2> QED
    BY <2>1, <2>2
<1>8. NoDoubleBooking'
  BY <1>5, <1>6 DEF SInv, NoDoubleBooking, Clash, Live
<1>9. AuditChain'
  <2> DEFINE entry == LogEntry(req[r].status, new)
  <2>1. /\ logs'[b] = Append(logs[b], entry)
        /\ \A c \in BookingIds : c # b => logs'[c] = logs[c]
    BY <1>1, <1>2 DEF SetStatus, SInv, IInv, TypeOK
  <2>2. /\ Len(logs[b]) = bookings[b].version
        /\ bookings[b].version >= 1
        /\ logs[b][bookings[b].version].new = bookings[b].status
        /\ logs[b] \in Seq(LogRow)
    BY <1>1 DEF SInv, IInv, LogMirrorsBooking, TypeOK, BookedIds
  <2>3. entry \in LogRow /\ entry.previous = bookings[b].status
    BY <1>1, <1>3 DEF LogEntry, LogRow, BookingRow
  <2>4. /\ Len(logs'[b]) = Len(logs[b]) + 1
        /\ logs'[b][Len(logs[b]) + 1] = entry
        /\ \A i \in 1..Len(logs[b]) : logs'[b][i] = logs[b][i]
    BY <2>1, <2>2, <2>3
  <2> SUFFICES ASSUME NEW c \in BookedIds, NEW i \in 2..Len(logs'[c])
               PROVE  logs'[c][i].previous = logs'[c][i - 1].new
    BY <1>5 DEF AuditChain
  <2>5. CASE c # b
    BY <2>1, <2>5 DEF BookedIds, SInv, AuditChain
  <2>6. CASE c = b /\ i <= Len(logs[b])
    <3>1. i \in 2..Len(logs[b]) /\ i \in 1..Len(logs[b])
                                /\ i - 1 \in 1..Len(logs[b])
      BY <2>2, <2>4, <2>6
    <3>2. logs[b][i].previous = logs[b][i - 1].new
      BY <3>1, <1>1 DEF SInv, AuditChain
    <3> QED
      BY <2>4, <2>6, <3>1, <3>2
  <2>7. CASE c = b /\ i > Len(logs[b])
    <3>1. PICK n \in Nat : n = Len(logs[b]) /\ n = bookings[b].version
      BY <2>2
    <3>2. i \in 2..(n + 1) /\ i > n /\ n >= 1
      BY <2>2, <2>4, <2>7, <3>1
    <3>3. i = n + 1 /\ i - 1 = n /\ n \in 1..n
      BY <3>2
    <3>4. logs'[b][i] = entry /\ logs'[b][i - 1] = logs[b][n]
      BY <2>4, <3>1, <3>3
    <3> QED
      BY <2>2, <2>3, <2>7, <3>1, <3>4
  <2> QED
    BY <2>2, <2>5, <2>6, <2>7
<1> QED
  BY <1>7, <1>8, <1>9

\* The steps that leave bookings, log and handlers alone.
LEMMA FreshStays ==
    ASSUME SInv, UNCHANGED <<bookings, logs, req>>
    PROVE  HandlersFresh' /\ NoDoubleBooking' /\ AuditChain'
<1>1. BookedIds' = BookedIds
  BY DEF BookedIds
<1> QED
  BY <1>1 DEF SInv, HandlersFresh, Fresh, Conflicts, NoDoubleBooking, Clash,
              Live, AuditChain

LEMMA SerialisedNext == SInv /\ [Next /\ Serialised']_vars => SInv'
<1> SUFFICES ASSUME SInv, [Next /\ Serialised']_vars
             PROVE  SInv'
  OBVIOUS
<1>1. IInv'
  BY InvNext DEF SInv
<1>2. Serialised'
  BY DEF SInv, Serialised, Booking, Changing, vars
<1> SUFFICES HandlersFresh' /\ NoDoubleBooking' /\ AuditChain'
  BY <1>1, <1>2 DEF SInv
<1>3. ASSUME NEW r \in Requests, HoldStep(r)
      PROVE  HandlersFresh' /\ NoDoubleBooking' /\ AuditChain'
  <2>1. ASSUME NEW u \in Users, NEW p \in Providers, NEW s \in Services,
               NEW slot \in Slots, CreateHold(r, u, p, s, slot)
        PROVE  HandlersFresh' /\ NoDoubleBooking' /\ AuditChain'
    <3> DEFINE q == [pc |-> "insertHold", user |-> u, provider |-> p,
                     service |-> s, slot |-> slot]
    <3>1. Fresh(q)
      BY DEF Fresh
    <3> QED
      BY <2>1, <3>1, FreshMoves DEF CreateHold
  <2>2. ASSUME NEW h \in HoldIds, InsertHold(r, h)
        PROVE  HandlersFresh' /\ NoDoubleBooking' /\ AuditChain'
    BY <2>2, IdleFresh, FreshMoves DEF InsertHold
  <2> QED
    BY <1>3, <2>1, <2>2 DEF HoldStep, PostSlotHold
<1>4. ASSUME NEW r \in Requests, BookStep(r)
      PROVE  HandlersFresh' /\ NoDoubleBooking' /\ AuditChain'
  <2>1. ASSUME NEW u \in Users, NEW h \in HoldIds, ReadHold(r, u, h)
        PROVE  HandlersFresh' /\ NoDoubleBooking' /\ AuditChain'
    <3> DEFINE q == [pc |-> "checkConflict", user |-> u, hold |-> h,
                     seen |-> holds[h], checked |-> {}]
    <3>1. Fresh(q)
      BY DEF Fresh
    <3> QED
      BY <2>1, <3>1, FreshMoves DEF ReadHold
  <2> QED
    BY <1>1, <1>4, <2>1, FreshCheckConflict, FreshInsertBooking
       DEF BookStep, PostBooking
<1>5. ASSUME NEW r \in Requests, StatusStep(r)
      PROVE  HandlersFresh' /\ NoDoubleBooking' /\ AuditChain'
  BY <1>1, <1>5, FreshReadBooking, FreshSetStatus
     DEF StatusStep, PatchConfirm, PatchCancel, PatchComplete
<1>6. ASSUME NEW r \in Requests, Abort(r)
      PROVE  HandlersFresh' /\ NoDoubleBooking' /\ AuditChain'
  BY <1>6, IdleFresh, FreshMoves DEF Abort
<1>7. CASE UNCHANGED <<bookings, logs, req>>
  BY <1>7, FreshStays
<1> QED
  BY <1>3, <1>4, <1>5, <1>6, <1>7
     DEF Next, vars, CleanupExpiredHolds, DeleteExpiredHolds, UpdateService,
         DeleteService, Tick

LEMMA SerialisedInductive == SerialisedSpec => []SInv
<1>1. Init => SInv
  BY SerialisedInit
<1>2. SInv /\ [Next /\ Serialised']_vars => SInv'
  BY SerialisedNext
<1> QED
  BY <1>1, <1>2, PTL DEF SerialisedSpec

\* With one createBooking per provider in flight at a time, nobody is booked
\* twice: the races are the only way to it.
THEOREM SerialisedNeverDouble == SerialisedSpec => []NoDoubleBooking
BY SerialisedInductive, PTL DEF SInv

\* With one status change per booking in flight at a time, the log rows of a
\* booking tell its history without a gap.
THEOREM SerialisedAudits == SerialisedSpec => []AuditChain
BY SerialisedInductive, PTL DEF SInv

-----------------------------------------------------------------------------
(* One booking of a hold: what isConverted said when a handler read it is   *)
(* still so when it inserts.                                                *)

\* The hold a handler of createBooking works with has no booking yet.
HoldsUnused ==
    \A r \in Requests : Booking(r) =>
        \A b \in BookedIds : bookings[b].hold # req[r].hold

OnceInv == SInv /\ HoldConvertedOnce /\ HoldsUnused

\* A step that books nothing, and takes up no hold but an unused one.
LEMMA HoldsStayUnused ==
    ASSUME OnceInv, BookedIds' = BookedIds,
           \A b \in BookedIds : bookings'[b].hold = bookings[b].hold,
           \A r \in Requests : Booking(r)' =>
              \/ Booking(r) /\ req'[r].hold = req[r].hold
              \/ \A b \in BookedIds : bookings[b].hold # req'[r].hold
    PROVE  HoldConvertedOnce' /\ HoldsUnused'
BY DEF OnceInv, HoldConvertedOnce, HoldsUnused

LEMMA OnceNext == OnceInv /\ [Next /\ Serialised']_vars => OnceInv'
<1> SUFFICES ASSUME OnceInv, [Next /\ Serialised']_vars
             PROVE  HoldConvertedOnce' /\ HoldsUnused'
  BY SerialisedNext DEF OnceInv
<1>1. /\ req \in [Requests -> Request]
      /\ bookings \in [BookingIds -> BookingRow \cup {Unused}]
  BY DEF OnceInv, SInv, IInv, TypeOK
<1>2. ASSUME NEW r \in Requests, NEW q, req' = [req EXCEPT ![r] = q],
             UNCHANGED bookings,
             \/ q.pc \notin {"checkConflict", "fetchService", "insertBooking"}
             \/ Booking(r) /\ q.hold = req[r].hold
             \/ \A b \in BookedIds : bookings[b].hold # q.hold
      PROVE  HoldConvertedOnce' /\ HoldsUnused'
  <2>1. BookedIds' = BookedIds
    BY <1>2 DEF BookedIds
  <2>2. /\ req'[r] = q
        /\ \A o \in Requests \ {r} : req'[o] = req[o]
    BY <1>1, <1>2
  <2> QED
    BY <1>2, <2>1, <2>2, HoldsStayUnused DEF Booking
<1>3. ASSUME NEW r \in Requests, NEW u \in Users, NEW h \in HoldIds,
             ReadHold(r, u, h)
      PROVE  HoldConvertedOnce' /\ HoldsUnused'
  <2> DEFINE q == [pc |-> "checkConflict", user |-> u, hold |-> h,
                   seen |-> holds[h], checked |-> {}]
  <2>1. \A b \in BookedIds : bookings[b].hold # q.hold
    BY <1>3 DEF ReadHold, Usable, OnceInv, SInv, IInv, BookingBackedByHold
  <2> HIDE DEF q
  <2>2. req' = [req EXCEPT ![r] = q] /\ UNCHANGED bookings
    BY <1>3 DEF ReadHold, q
  <2> QED
    BY <1>2, <2>1, <2>2
<1>4. ASSUME NEW r \in Requests, CheckConflict(r) \/ FetchService(r)
      PROVE  HoldConvertedOnce' /\ HoldsUnused'
  <2>1. req[r] \in BookRequest /\ Booking(r)
    BY <1>1, <1>4, RequestKinds DEF CheckConflict, FetchService, Booking
  <2>2. CASE req' = [req EXCEPT ![r] = Idle]
    BY <1>2, <1>4, <2>2 DEF CheckConflict, FetchService, Idle
  <2>3. CASE req' = [req EXCEPT ![r].pc = "fetchService",
                                ![r].checked = BookedIds]
    <3> DEFINE q == [req[r] EXCEPT !.pc = "fetchService", !.checked = BookedIds]
    <3>1. q.hold = req[r].hold
      BY <2>1 DEF BookRequest
    <3>2. req' = [req EXCEPT ![r] = q] /\ UNCHANGED bookings
      BY <1>1, <1>4, <2>3 DEF CheckConflict, FetchService
    <3> HIDE DEF q
    <3> QED
      BY <1>2, <2>1, <3>1, <3>2
  <2>4. CASE req' = [req EXCEPT ![r].pc = "insertBooking"]
    <3> DEFINE q == [req[r] EXCEPT !.pc = "insertBooking"]
    <3>1. q.hold = req[r].hold
      BY <2>1 DEF BookRequest
    <3> QED
      BY <1>2, <1>4, <2>1, <2>4, <3>1 DEF CheckConflict, FetchService
  <2> QED
    BY <1>4, <2>2, <2>3, <2>4 DEF CheckConflict, FetchService
\* Another handler with this hold would work for the same provider.
<1>5. ASSUME NEW r \in Requests, NEW b \in BookingIds, InsertBooking(r, b)
      PROVE  HoldConvertedOnce' /\ HoldsUnused'
  <2> DEFINE q == req[r]
             row == NewBookingRow(q)
  <2>1. q \in BookRequest /\ Booking(r) /\ q.hold \in HeldIds
    BY <1>1, <1>5, RequestKinds DEF InsertBooking, Booking
  <2>2. row \in BookingRow /\ row.hold = q.hold
    BY <2>1 DEF NewBookingRow, BookingRow, BookRequest, HoldRow, Customers, Status
  <2>3. /\ bookings'[b] = row
        /\ \A c \in BookedIds : c # b /\ bookings'[c] = bookings[c]
        /\ BookedIds' = BookedIds \cup {b}
    BY <1>1, <1>5, <2>2, RowAssumption DEF InsertBooking, BookedIds
  <2>4. \A c \in BookedIds : bookings[c].hold # q.hold
    BY <2>1 DEF OnceInv, HoldsUnused
  <2>5. HoldConvertedOnce'
    BY <2>2, <2>3, <2>4 DEF OnceInv, HoldConvertedOnce
  <2>6. HoldsUnused'
    <3> SUFFICES ASSUME NEW o \in Requests, Booking(o)', NEW c \in BookedIds'
                 PROVE  bookings'[c].hold # req'[o].hold
      BY DEF HoldsUnused
    <3>1. o # r /\ req'[o] = req[o] /\ Booking(o)
      BY <1>1, <1>5 DEF InsertBooking, Booking, Idle
    <3>2. CASE c = b
      <4>1. /\ SameHold(holds[q.hold], q.seen)
            /\ req[o].hold = q.hold => SameHold(holds[q.hold], req[o].seen)
        BY <2>1, <3>1 DEF OnceInv, SInv, IInv, HandlersSound, HandlerSound,
                          ReaderSound, Booking
      <4>2. req[o].seen.provider # q.seen.provider
        BY <2>1, <3>1 DEF OnceInv, SInv, Serialised
      <4> QED
        BY <2>2, <2>3, <3>1, <3>2, <4>1, <4>2 DEF SameHold
    <3>3. CASE c \in BookedIds
      BY <2>3, <3>1, <3>3 DEF OnceInv, HoldsUnused
    <3> QED
      BY <2>3, <3>2, <3>3
  <2> QED
    BY <2>5, <2>6
<1>6. ASSUME NEW r \in Requests, NEW new \in Status, Changing(r),
             SetStatus(r, new)
      PROVE  HoldConvertedOnce' /\ HoldsUnused'
  <2> DEFINE b == req[r].booking
  <2>1. b \in BookedIds /\ b \in BookingIds /\ bookings[b] \in BookingRow
    BY <1>1, <1>6 DEF Changing, OnceInv, SInv, IInv, HandlersSound, HandlerSound,
                      ChangerSound, BookedIds
  <2>2. /\ bookings'[b] = Moved(bookings[b], new)
        /\ \A c \in BookingIds \ {b} : bookings'[c] = bookings[c]
        /\ Moved(bookings[b], new) \in BookingRow
        /\ Moved(bookings[b], new).hold = bookings[b].hold
    BY <1>1, <1>6, <2>1, MovedRow DEF SetStatus
  <2>3. BookedIds' = BookedIds
    BY <2>1, <2>2, RowAssumption DEF BookedIds
  <2>4. \A c \in BookedIds : bookings'[c].hold = bookings[c].hold
    BY <2>2 DEF BookedIds
  <2>5. /\ req'[r] = Idle
        /\ \A o \in Requests \ {r} : req'[o] = req[o]
    BY <1>1, <1>6 DEF SetStatus
  <2> QED
    BY <2>3, <2>4, <2>5, HoldsStayUnused DEF Booking, Idle
<1>7. ASSUME NEW r \in Requests, StatusStep(r)
      PROVE  HoldConvertedOnce' /\ HoldsUnused'
  <2>1. CASE Confirm(r) \/ Cancel(r) \/ Complete(r)
    BY <1>6, <2>1 DEF Confirm, Cancel, Complete, Changing, Status
  <2>2. ASSUME NEW u \in Users, NEW b \in BookingIds,
               NEW pc \in {"confirm", "cancel", "complete"},
               ReadBooking(r, u, b, pc)
        PROVE  HoldConvertedOnce' /\ HoldsUnused'
    BY <1>2, <2>2 DEF ReadBooking
  <2> QED
    BY <1>7, <2>1, <2>2 DEF StatusStep, PatchConfirm, PatchCancel, PatchComplete,
                            ReadConfirm, ReadCancel, ReadComplete
<1>8. ASSUME NEW r \in Requests, HoldStep(r) \/ Abort(r)
      PROVE  HoldConvertedOnce' /\ HoldsUnused'
  BY <1>2, <1>8 DEF HoldStep, PostSlotHold, CreateHold, InsertHold, Abort, Idle
<1>9. CASE UNCHANGED <<bookings, req>>
  BY <1>9 DEF OnceInv, HoldConvertedOnce, HoldsUnused, BookedIds, Booking
<1> QED
  BY <1>3, <1>4, <1>5, <1>7, <1>8, <1>9
  DEF Next, BookStep, PostBooking, vars, CleanupExpiredHolds, DeleteExpiredHolds,
      UpdateService, DeleteService, Tick

\* With one createBooking per provider in flight at a time, no hold is turned
\* into two bookings: isConverted is still what it was when it was read.
THEOREM SerialisedConvertsOnce == SerialisedSpec => []HoldConvertedOnce
<1>1. Init => OnceInv
  BY SerialisedInit DEF OnceInv, HoldConvertedOnce, HoldsUnused, Init, BookedIds
<1>2. OnceInv => HoldConvertedOnce
  BY DEF OnceInv
<1> QED
  BY <1>1, <1>2, OnceNext, PTL DEF SerialisedSpec

-----------------------------------------------------------------------------
(* The refinement.                                                          *)

\* What a booking is in the timetable.
Entry(row) == IF row = Unused THEN Unused
              ELSE [provider |-> row.provider, slot |-> row.slot,
                    status |-> row.status]

LEMMA ReserveSimulated ==
    ASSUME TypeOK, NEW r \in Requests, NEW b \in BookingIds,
           InsertBooking(r, b), Conflicts(req[r].seen) = {}
    PROVE  \E p \in Providers, slot \in Slots : T!Reserve(b, p, slot)
<1> DEFINE q == req[r]
           row == NewBookingRow(q)
<1> USE DEF InsertBooking
<1>1. q \in BookRequest /\ Conflicts(q.seen) = {}
  BY RequestKinds DEF TypeOK
<1>2. q.seen.provider \in Providers /\ q.seen.slot \in Slots
  BY <1>1 DEF BookRequest, HoldRow
<1>3. row \in BookingRow /\ row # Unused
  BY <1>1, RowAssumption
     DEF NewBookingRow, BookingRow, BookRequest, HoldRow, Customers, Status
<1>4. \A c \in BookingIds :
         bookings'[c] = IF c = b THEN row ELSE bookings[c]
  BY DEF TypeOK
<1>5. Entry(row) = [provider |-> q.seen.provider, slot |-> q.seen.slot,
                    status |-> "PENDING"]
  BY <1>3 DEF Entry, NewBookingRow
<1>6. Calendar' = [Calendar EXCEPT ![b] = Entry(row)]
  BY <1>4 DEF Calendar, Entry
<1>7. ASSUME NEW c \in BookingIds
      PROVE  ~T!Takes(Calendar[c], q.seen.provider, q.seen.slot)
  <2> SUFFICES ASSUME T!Takes(Calendar[c], q.seen.provider, q.seen.slot)
               PROVE  c \in Conflicts(q.seen)
    BY <1>1
  <2>1. bookings[c] # Unused /\ Calendar[c] = Entry(bookings[c])
    BY DEF T!Takes, Calendar, Entry
  <2>2. /\ Calendar[c].provider = bookings[c].provider
        /\ Calendar[c].slot = bookings[c].slot
        /\ Calendar[c].status = bookings[c].status
    BY <2>1 DEF Entry
  <2>3. /\ bookings[c].slot \in [start: Nat, end: Nat]
        /\ q.seen.slot \in [start: Nat, end: Nat]
    BY <1>2, <2>1, RowsAreRows, ConstantsAssumption
       DEF BookingRow, BookedIds
  <2> QED
    BY <2>1, <2>2, <2>3
       DEF T!Takes, Conflicts, BookedIds, Overlap, Released
<1>8. Calendar[b] = Unused
  BY DEF Calendar, Entry
<1>9. PICK p \in Providers, slot \in Slots :
         p = q.seen.provider /\ slot = q.seen.slot
  BY <1>2
<1>10. T!Reserve(b, p, slot)
  BY <1>5, <1>6, <1>7, <1>8, <1>9 DEF T!Reserve, Calendar, Entry
<1> QED
  BY <1>9, <1>10

LEMMA MoveSimulated ==
    ASSUME TypeOK, NEW r \in Requests, NEW new \in Status,
           req[r].booking \in BookedIds, Flow(req[r].booking, new),
           SetStatus(r, new)
    PROVE  \E b \in BookingIds : T!Confirm(b) \/ T!Complete(b) \/ T!Cancel(b)
<1>1. PICK b \in BookingIds : b = req[r].booking /\ b \in BookedIds
  BY DEF BookedIds
<1> DEFINE row == bookings[b]
<1>2. SetStatus(r, new) /\ Flow(b, new)
  BY <1>1 DEF Flow
<1>3. row \in BookingRow /\ row # Unused
  BY <1>1, RowsAreRows DEF BookedIds
<1>4. /\ Moved(row, new) \in BookingRow
      /\ Moved(row, new) # Unused
      /\ Moved(row, new).provider = row.provider
      /\ Moved(row, new).slot = row.slot
      /\ Moved(row, new).status = new
  BY <1>3, MovedRow, RowAssumption
<1>5. \A c \in BookingIds :
         bookings'[c] = IF c = b THEN Moved(row, new) ELSE bookings[c]
  BY <1>1, <1>2 DEF SetStatus, TypeOK
<1>6. Entry(Moved(row, new)) = [Entry(row) EXCEPT !.status = new]
  BY <1>3, <1>4 DEF Entry
<1>7. Calendar' = [Calendar EXCEPT ![b].status = new]
  BY <1>1, <1>5, <1>6 DEF Calendar, Entry
<1>8. Calendar[b] = Entry(row) /\ Calendar[b] # Unused
  <2>1. Entry(row) \in [provider: Providers, slot: Slots, status: Status]
    BY <1>3 DEF Entry, BookingRow
  <2>2. Calendar[b] = Entry(row)
    BY <1>1 DEF Calendar, Entry
  <2> QED
    BY <2>1, <2>2, RowAssumption
<1>9. Calendar[b].status = row.status /\ row.status \in Status
  BY <1>3, <1>8 DEF Entry, BookingRow
<1>10. ASSUME NEW from, row.status \in from
       PROVE  T!Move(b, from, new)
  BY <1>7, <1>8, <1>9, <1>10 DEF T!Move, Calendar, Entry
<1>11. T!Confirm(b) \/ T!Complete(b) \/ T!Cancel(b)
  BY <1>2, <1>9, <1>10
     DEF Flow, Status, T!Confirm, T!Complete, T!Cancel
<1> QED
  BY <1>11

LEMMA TimetableStarts == Init => T!Init
BY DEF Init, T!Init, Calendar

\* The statements of Booking that write to the bookings table.
LEMMA BookingWriters ==
    ASSUME [Next]_vars
    PROVE  \/ UNCHANGED bookings
           \/ \E r \in Requests : \/ \E b \in BookingIds : InsertBooking(r, b)
                                  \/ Confirm(r) \/ Cancel(r) \/ Complete(r)
BY DEF Next, vars, HoldStep, BookStep, StatusStep, PostSlotHold,
       PostBooking, PatchConfirm, PatchCancel, PatchComplete,
       CleanupExpiredHolds, CreateHold, InsertHold, ReadHold,
       CheckConflict, FetchService, ReadBooking, ReadConfirm, ReadCancel,
       ReadComplete, Abort, DeleteExpiredHolds, UpdateService,
       DeleteService, Tick

\* The handlers implement the timetable: a createBooking is a reservation at
\* its INSERT, confirm, cancel and complete are moves at their transactions,
\* and no other step shows.
THEOREM SerialisedRefines == SerialisedSpec => ImplementsTimetable
<1>1. Init => T!Init
  BY TimetableStarts
<1>2. SInv /\ [Next /\ Serialised']_vars => [T!Next]_Calendar
  <2> SUFFICES ASSUME SInv, [Next /\ Serialised']_vars
               PROVE  [T!Next]_Calendar
    OBVIOUS
  <2>1. ASSUME NEW r \in Requests, NEW b \in BookingIds, InsertBooking(r, b)
        PROVE  T!Next
    <3>1. Conflicts(req[r].seen) = {}
      BY <2>1 DEF SInv, HandlersFresh, Fresh, InsertBooking
    <3> QED
      BY <2>1, <3>1, ReserveSimulated DEF T!Next, SInv, IInv
  <2>2. ASSUME NEW r \in Requests, Confirm(r) \/ Cancel(r) \/ Complete(r)
        PROVE  T!Next
    BY <2>2, ChangesFlow, MoveSimulated DEF T!Next, SInv, IInv
  <2>3. CASE UNCHANGED bookings
    BY <2>3 DEF Calendar
  <2>4. [Next]_vars
    OBVIOUS
  <2> QED
    BY <2>1, <2>2, <2>3, <2>4, BookingWriters
<1> QED
  BY <1>1, <1>2, SerialisedInductive, PTL
     DEF SerialisedSpec, ImplementsTimetable, T!Spec, Calendar

-----------------------------------------------------------------------------
(* How the handlers as they are depart from the timetable, with the payment *)
(* webhook or without.                                                      *)

\* What confirm, cancel and complete have checked of the status they read.
Checked(q) ==
    /\ q.pc = "confirm" => q.status = "PENDING"
    /\ q.pc = "cancel" => q.status \notin {"CANCELLED", "COMPLETED"}
    /\ q.pc = "complete" => q.status \in {"CONFIRMED", "IN_PROGRESS"}

StatusChecked == \A r \in Requests : Checked(req[r])

LEMMA IdleChecked == Checked(Idle)
BY DEF Checked, Idle

\* A step moves one handler at most, to a state in which it has checked what
\* it is about to act upon.
LEMMA CheckedNext ==
    TypeOK /\ StatusChecked /\ [WebhookNext]_vars => StatusChecked'
<1> SUFFICES ASSUME TypeOK, StatusChecked, [WebhookNext]_vars
             PROVE  StatusChecked'
  OBVIOUS
<1>1. ASSUME NEW r \in Requests, NEW q, Checked(q),
             req' = [req EXCEPT ![r] = q]
      PROVE  StatusChecked'
  BY <1>1 DEF StatusChecked, TypeOK
<1>2. CASE UNCHANGED req
  BY <1>2 DEF StatusChecked
<1>3. ASSUME NEW r \in Requests, HoldStep(r)
      PROVE  StatusChecked'
  <2>1. ASSUME NEW u \in Users, NEW p \in Providers, NEW s \in Services,
               NEW slot \in Slots, CreateHold(r, u, p, s, slot)
        PROVE  StatusChecked'
    <3>1. Checked([pc |-> "insertHold", user |-> u, provider |-> p,
                   service |-> s, slot |-> slot])
      BY DEF Checked
    <3> QED
      BY <1>1, <2>1, <3>1 DEF CreateHold
  <2> QED
    BY <1>1, <1>3, <2>1, IdleChecked DEF HoldStep, PostSlotHold, InsertHold
<1>4. ASSUME NEW r \in Requests, BookStep(r)
      PROVE  StatusChecked'
  <2>1. ASSUME NEW u \in Users, NEW h \in HoldIds, ReadHold(r, u, h)
        PROVE  StatusChecked'
    <3>1. Checked([pc |-> "checkConflict", user |-> u, hold |-> h,
                   seen |-> holds[h], checked |-> {}])
      BY DEF Checked
    <3> QED
      BY <1>1, <2>1, <3>1 DEF ReadHold
  <2>2. CASE CheckConflict(r) \/ FetchService(r)
    <3> DEFINE q1 == [req[r] EXCEPT !.pc = "fetchService",
                                    !.checked = BookedIds]
               q2 == [req[r] EXCEPT !.pc = "insertBooking"]
    <3>1. req[r] \in BookRequest
      BY <2>2, RequestKinds DEF CheckConflict, FetchService, TypeOK
    <3>2. q1.pc = "fetchService" /\ q2.pc = "insertBooking"
      BY <3>1 DEF BookRequest
    <3>3. Checked(q1) /\ Checked(q2)
      BY <3>2 DEF Checked
    <3>4. \/ req' = [req EXCEPT ![r] = q1]
          \/ req' = [req EXCEPT ![r] = q2]
          \/ req' = [req EXCEPT ![r] = Idle]
      BY <2>2 DEF CheckConflict, FetchService, TypeOK
    <3> HIDE DEF q1, q2
    <3> QED
      BY <1>1, <3>3, <3>4, IdleChecked
  <2>3. ASSUME NEW b \in BookingIds, InsertBooking(r, b)
        PROVE  StatusChecked'
    BY <1>1, <2>3, IdleChecked DEF InsertBooking
  <2> QED
    BY <1>4, <2>1, <2>2, <2>3 DEF BookStep, PostBooking
<1>5. ASSUME NEW r \in Requests, StatusStep(r)
      PROVE  StatusChecked'
  <2>1. ASSUME NEW u \in Users, NEW b \in BookingIds,
               NEW pc \in {"confirm", "cancel", "complete"},
               ReadBooking(r, u, b, pc),
               \/ pc = "confirm" /\ ConfirmAllowed(u, bookings[b].status)
               \/ pc = "cancel" /\ CancelAllowed(u, bookings[b].status)
               \/ pc = "complete" /\ CompleteAllowed(u, bookings[b].status)
        PROVE  StatusChecked'
    <3>1. Checked([pc |-> pc, booking |-> b, status |-> bookings[b].status,
                   version |-> bookings[b].version])
      BY <2>1 DEF Checked, ConfirmAllowed, CancelAllowed, CompleteAllowed
    <3> QED
      BY <1>1, <2>1, <3>1 DEF ReadBooking
  <2>2. ASSUME NEW u \in Users, NEW b \in BookingIds,
               \/ ReadConfirm(r, u, b) \/ ReadCancel(r, u, b)
               \/ ReadComplete(r, u, b)
        PROVE  StatusChecked'
    BY <2>1, <2>2 DEF ReadConfirm, ReadCancel, ReadComplete
  <2> QED
    BY <1>1, <1>5, <2>2, IdleChecked
       DEF StatusStep, PatchConfirm, PatchCancel, PatchComplete, Confirm,
           Cancel, Complete, SetStatus
<1>6. ASSUME NEW r \in Requests, Abort(r)
      PROVE  StatusChecked'
  BY <1>1, <1>6, IdleChecked DEF Abort
<1> QED
  BY <1>2, <1>3, <1>4, <1>5, <1>6
     DEF WebhookNext, Next, vars, CleanupExpiredHolds, DeleteExpiredHolds,
         UpdateService, DeleteService, Tick, ConfirmAfterPayment

LEMMA CheckedInit == Init => StatusChecked
BY IdleChecked DEF Init, StatusChecked

LEMMA SpecChecked == Spec => []StatusChecked
<1>1. IInv => TypeOK
  BY DEF IInv
<1>2. TypeOK /\ StatusChecked /\ [Next]_vars => StatusChecked'
  BY CheckedNext DEF WebhookNext
<1> QED
  BY <1>1, <1>2, CheckedInit, Inductive, PTL DEF Spec

\* A transaction whose handler has checked the current status, or has missed
\* a confirmation only, is a move of the timetable or changes nothing there.
LEMMA CurrentReadMoves ==
    ASSUME TypeOK, NEW r \in Requests, Confirm(r) \/ Cancel(r) \/ Complete(r),
           Checked(req[r]), req[r].booking \in BookedIds,
           bookings[req[r].booking].status \in {req[r].status, "CONFIRMED"}
    PROVE  [T!Next]_Calendar
<1> DEFINE b == req[r].booking
<1>1. CASE Confirm(r) /\ bookings[b].status # "PENDING"
  <2>1. /\ SetStatus(r, "CONFIRMED") /\ bookings[b].status = "CONFIRMED"
        /\ b \in BookingIds /\ bookings[b] \in BookingRow
    BY <1>1, RowsAreRows DEF Confirm, Checked, BookedIds
  <2>2. /\ Moved(bookings[b], "CONFIRMED").status = bookings[b].status
        /\ Moved(bookings[b], "CONFIRMED").provider = bookings[b].provider
        /\ Moved(bookings[b], "CONFIRMED").slot = bookings[b].slot
        /\ Moved(bookings[b], "CONFIRMED") # Unused
    BY <2>1, MovedRow, RowAssumption DEF Status
  <2>3. \A c \in BookingIds :
           bookings'[c] = IF c = b THEN Moved(bookings[b], "CONFIRMED")
                          ELSE bookings[c]
    BY <2>1 DEF SetStatus, TypeOK
  <2>4. bookings[b] # Unused
    BY DEF BookedIds
  <2> HIDE DEF b
  <2>5. UNCHANGED Calendar
    BY <2>2, <2>3, <2>4 DEF Calendar
  <2> QED
    BY <2>5
<1>2. ASSUME NEW new \in Status, SetStatus(r, new), Flow(b, new)
      PROVE  T!Next
  BY <1>2, MoveSimulated DEF T!Next
<1>3. CASE Confirm(r) /\ bookings[b].status = "PENDING"
  BY <1>2, <1>3 DEF Confirm, Flow, Status
<1>4. CASE Cancel(r)
  BY <1>2, <1>4 DEF Cancel, Flow, Status, Checked
<1>5. CASE Complete(r)
  BY <1>2, <1>5 DEF Complete, Flow, Status, Checked
<1> QED
  BY <1>1, <1>3, <1>4, <1>5

\* A status change is such a move, or its handler's read is out of date.
LEMMA ChangesOrStale ==
    ASSUME TypeOK, StatusChecked, NEW r \in Requests,
           Confirm(r) \/ Cancel(r) \/ Complete(r),
           LET b == req[r].booking IN
              /\ b \in BookedIds
              /\ \/ req[r].version < bookings[b].version
                 \/ bookings[b].status \in {req[r].status, "CONFIRMED"}
    PROVE  StaleWrite(r) \/ [T!Next]_Calendar
<1>1. Changing(r) /\ req'[r] = Idle
  BY DEF Confirm, Cancel, Complete, Changing, SetStatus, TypeOK
<1>2. Checked(req[r])
  BY DEF StatusChecked
<1> QED
  BY <1>1, <1>2, CurrentReadMoves DEF StaleWrite

\* An INSERT reserves, or what it overlaps is not what its query saw.
LEMMA InsertsOrOverlaps ==
    ASSUME TypeOK, NEW r \in Requests, NEW b \in BookingIds,
           InsertBooking(r, b)
    PROVE  \/ T!Next
           \/ /\ req[r].pc = "insertBooking" /\ req'[r] = Idle
              /\ Conflicts(req[r].seen) # {}
<1>1. req[r].pc = "insertBooking" /\ req'[r] = Idle
  BY DEF InsertBooking, TypeOK
<1> QED
  BY <1>1, ReserveSimulated DEF T!Next

\* Whatever the interleaving: a step that is none of the timetable's writes a
\* status by a read that is out of date, or inserts a booking over one its
\* conflict query did not see or saw cancelled.
THEOREM RacesAlone == Spec => LeavesTimetableOnlyByRace
<1>1. IInv /\ StatusChecked /\ [Next]_vars =>
        [bookings' # bookings
         => \/ \E r \in Requests : StaleWrite(r) \/ InsertOver(r)
            \/ [T!Next]_Calendar]_vars
  <2> SUFFICES ASSUME IInv, StatusChecked, [Next]_vars, bookings' # bookings
               PROVE  \/ \E r \in Requests : StaleWrite(r) \/ InsertOver(r)
                      \/ [T!Next]_Calendar
    OBVIOUS
  <2>1. ASSUME NEW r \in Requests, NEW b \in BookingIds, InsertBooking(r, b)
        PROVE  InsertOver(r) \/ T!Next
    <3>1. ASSUME NEW c \in Conflicts(req[r].seen) \cap req[r].checked
          PROVE  Reopened(c)
      <4>1. /\ c \in BookedIds /\ bookings[c].status \notin Released
            /\ WasReleased(c)
        BY <2>1 DEF Conflicts, InsertBooking, IInv, HandlersSound, HandlerSound,
                    ReaderSound, Cleared
      <4> QED
        BY <4>1, ReleasedAndLive
    <3> QED
      BY <2>1, <3>1, InsertsOrOverlaps DEF InsertOver, IInv
  <2>2. ASSUME NEW r \in Requests, Confirm(r) \/ Cancel(r) \/ Complete(r)
        PROVE  StaleWrite(r) \/ [T!Next]_Calendar
    <3>1. Changing(r)
      BY <2>2 DEF Confirm, Cancel, Complete, Changing
    <3> QED
      BY <2>2, <3>1, SnapshotsTellStatus, ChangesOrStale DEF IInv
  <2> QED
    BY <2>1, <2>2, BookingWriters
<1> QED
  BY <1>1, TimetableStarts, Inductive, SpecChecked, PTL
     DEF Spec, LeavesTimetableOnlyByRace

-----------------------------------------------------------------------------
(* With the payment webhook: the parts of the invariant that survive it.    *)

WebhookSound(q) ==
    /\ q.pc \in {"checkConflict", "fetchService", "insertBooking"}
       => Cleared(q.checked, q.seen.provider, q.seen.slot)
    /\ q.pc \in {"confirm", "cancel", "complete"} => q.booking \in BookedIds

WebhookHandlers == \A r \in Requests : WebhookSound(req[r])

WInv ==
    /\ TypeOK
    /\ WebhookHandlers
    /\ OnlyConfirmedUnlogged
    /\ \A b \in BookedIds : Len(logs[b]) >= 1
    /\ BookingsCleared

LEMMA IdleWebhookSound == WebhookSound(Idle)
BY DEF WebhookSound, Idle

LEMMA WebhookInit == Init => WInv
<1> SUFFICES ASSUME Init
             PROVE  WInv
  OBVIOUS
<1>1. TypeOK
  BY TypeInit
<1>2. WebhookHandlers
  BY IdleWebhookSound DEF Init, WebhookHandlers
<1>3. BookedIds = {}
  BY DEF Init, BookedIds
<1> QED
  BY <1>1, <1>2, <1>3 DEF WInv, OnlyConfirmedUnlogged, BookingsCleared

\* A step that leaves bookings and log alone and moves one handler.
LEMMA WebhookMoves ==
    ASSUME WInv, TypeOK', NEW q, WebhookSound(q),
           (\E r \in Requests : req' = [req EXCEPT ![r] = q]) \/ UNCHANGED req,
           UNCHANGED <<bookings, logs>>
    PROVE  WInv'
<1>1. BookedIds' = BookedIds
  BY DEF BookedIds
<1>2. WebhookHandlers'
  <2> SUFFICES ASSUME NEW r2 \in Requests
               PROVE  WebhookSound(req[r2])'
    BY DEF WebhookHandlers
  <2>1. req'[r2] \in {q, req[r2]}
    BY DEF WInv, TypeOK
  <2>2. WebhookSound(req'[r2])
    BY <2>1 DEF WInv, WebhookHandlers
  <2> QED
    BY <2>2, <1>1 DEF WebhookSound, Cleared, WasReleased
<1>3. OnlyConfirmedUnlogged' /\ \A b \in BookedIds' : Len(logs'[b]) >= 1
  BY <1>1 DEF WInv, OnlyConfirmedUnlogged, LastLogged
<1>4. BookingsCleared'
  BY <1>1 DEF WInv, BookingsCleared, Cleared, WasReleased
<1> QED
  BY <1>2, <1>3, <1>4 DEF WInv

\* A step that writes to bookings or log keeps what the handlers know.
LEMMA WebhookWrites ==
    ASSUME WInv,
           \/ \E r \in Requests : req' = [req EXCEPT ![r] = Idle]
           \/ UNCHANGED req,
           \A c \in BookedIds :
              /\ c \in BookedIds'
              /\ bookings'[c].provider = bookings[c].provider
              /\ bookings'[c].slot = bookings[c].slot
              /\ WasReleased(c) => WasReleased(c)'
    PROVE  /\ \A ids, p, s : Cleared(ids, p, s) => Cleared(ids, p, s)'
           /\ WebhookHandlers'
<1>1. \A ids, p, s : Cleared(ids, p, s) => Cleared(ids, p, s)'
  BY DEF Cleared
<1>2. WebhookHandlers'
  <2> SUFFICES ASSUME NEW r2 \in Requests
               PROVE  WebhookSound(req[r2])'
    BY DEF WebhookHandlers
  <2>1. req'[r2] \in {Idle, req[r2]}
    BY DEF WInv, TypeOK
  <2>2. PICK q : q = req'[r2]
    OBVIOUS
  <2>3. WebhookSound(q)
    BY <2>1, <2>2, IdleWebhookSound DEF WInv, WebhookHandlers
  <2>4. WebhookSound(q)'
    BY <2>3, <1>1 DEF WebhookSound
  <2> QED
    BY <2>2, <2>4 DEF WebhookSound
<1> QED
  BY <1>1, <1>2

LEMMA WebhookCheckConflict ==
    ASSUME WInv, TypeOK', NEW r \in Requests,
           CheckConflict(r) \/ FetchService(r)
    PROVE  WInv'
<1>1. req[r] \in BookRequest /\ WebhookSound(req[r])
  BY RequestKinds DEF CheckConflict, FetchService, WInv, TypeOK,
                      WebhookHandlers
<1>2. CASE CheckConflict(r) /\ Conflicts(req[r].seen) = {}
  <2> DEFINE q == [req[r] EXCEPT !.pc = "fetchService", !.checked = BookedIds]
  <2>1. /\ q.pc = "fetchService"
        /\ q.seen = req[r].seen
        /\ q.checked = BookedIds
    BY <1>1 DEF BookRequest
  <2>2. ASSUME NEW c \in BookedIds,
               bookings[c].provider = req[r].seen.provider,
               Overlap(bookings[c].slot, req[r].seen.slot)
        PROVE  WasReleased(c)
    <3>1. bookings[c].status \in Released
      BY <1>2, <2>2 DEF Conflicts
    <3>2. LastLogged(c) \in Released
      BY <3>1 DEF WInv, OnlyConfirmedUnlogged, Released
    <3>3. Len(logs[c]) \in 1..Len(logs[c])
      BY DEF WInv, TypeOK, BookedIds
    <3> QED
      BY <3>2, <3>3 DEF LastLogged, WasReleased
  <2>3. WebhookSound(q)
    BY <2>1, <2>2 DEF WebhookSound, Cleared
  <2>4. req' = [req EXCEPT ![r] = q]
    BY <1>2 DEF CheckConflict
  <2> QED
    BY <1>2, <2>3, <2>4, WebhookMoves DEF CheckConflict
<1>3. CASE FetchService(r) /\ services[req[r].seen.service] # "deleted"
  <2> DEFINE q == [req[r] EXCEPT !.pc = "insertBooking"]
  <2>1. /\ q.pc = "insertBooking"
        /\ q.seen = req[r].seen
        /\ q.checked = req[r].checked
    BY <1>1 DEF BookRequest
  <2>2. WebhookSound(q)
    BY <1>1, <1>3, <2>1 DEF WebhookSound, FetchService
  <2> QED
    BY <1>3, <2>2, WebhookMoves DEF FetchService
<1>4. CASE req' = [req EXCEPT ![r] = Idle] /\ UNCHANGED <<bookings, logs>>
  BY <1>4, IdleWebhookSound, WebhookMoves
<1> QED
  BY <1>2, <1>3, <1>4 DEF CheckConflict, FetchService

LEMMA WebhookInsertBooking ==
    ASSUME WInv, TypeOK', NEW r \in Requests, NEW b \in BookingIds,
           InsertBooking(r, b)
    PROVE  WInv'
<1> DEFINE q == req[r]
           row == NewBookingRow(q)
<1> USE DEF InsertBooking
<1>1. /\ q \in BookRequest
      /\ Cleared(q.checked, q.seen.provider, q.seen.slot)
  BY RequestKinds DEF WInv, TypeOK, WebhookHandlers, WebhookSound
<1>2. row \in BookingRow
  BY <1>1 DEF NewBookingRow, BookingRow, BookRequest, HoldRow, Customers, Status
<1>3. /\ bookings'[b] = row
      /\ \A c \in BookedIds : c # b /\ bookings'[c] = bookings[c]
                                   /\ logs'[c] = logs[c]
      /\ BookedIds' = BookedIds \cup {b}
  BY <1>2, RowAssumption DEF BookedIds, WInv, TypeOK
<1>4. /\ \A ids, p, s : Cleared(ids, p, s) => Cleared(ids, p, s)'
      /\ WebhookHandlers'
  BY <1>3, WebhookWrites DEF WasReleased
<1>5. logs'[b] = <<LogEntry("NULL", "PENDING")>>
  BY DEF WInv, TypeOK
<1>6. /\ Len(logs'[b]) = 1
      /\ LastLogged(b)' = "PENDING"
  BY <1>5 DEF LastLogged, LogEntry
<1>7. row.version = 1 /\ row.status = "PENDING"
  BY DEF NewBookingRow
<1>8. OnlyConfirmedUnlogged' /\ \A c \in BookedIds' : Len(logs'[c]) >= 1
  <2> SUFFICES ASSUME NEW c \in BookedIds'
               PROVE  /\ Len(logs'[c]) = bookings'[c].version
                      /\ bookings'[c].status
                           \in {logs'[c][Len(logs'[c])].new, "CONFIRMED"}
                      /\ Len(logs'[c]) >= 1
    BY DEF OnlyConfirmedUnlogged, LastLogged
  <2>1. CASE c = b
    <3>1. /\ bookings'[b].version = 1
          /\ bookings'[b].status = "PENDING"
          /\ logs'[b][Len(logs'[b])].new = "PENDING"
      BY <1>3, <1>6, <1>7 DEF LastLogged
    <3> QED
      BY ONLY <2>1, <3>1, <1>6
  <2>2. CASE c \in BookedIds
    BY <2>2, <1>3 DEF WInv, OnlyConfirmedUnlogged, LastLogged
  <2> QED
    BY <2>1, <2>2, <1>3
<1>9. BookingsCleared'
  <2> SUFFICES ASSUME NEW c \in BookedIds'
               PROVE  /\ c \notin bookings'[c].checked
                      /\ Cleared(bookings[c].checked, bookings[c].provider,
                                 bookings[c].slot)'
    BY DEF BookingsCleared
  <2>1. PICK ids, p, s : /\ ids = bookings'[c].checked
                         /\ p = bookings'[c].provider
                         /\ s = bookings'[c].slot
    OBVIOUS
  <2>2. c \notin ids /\ Cleared(ids, p, s)
    <3>1. CASE c = b
      <4>1. ids = q.checked /\ p = q.seen.provider /\ s = q.seen.slot
        BY <2>1, <3>1, <1>3 DEF NewBookingRow
      <4>2. b \notin q.checked
        BY <1>1, <1>3 DEF Cleared
      <4> QED
        BY <3>1, <4>1, <4>2, <1>1
    <3>2. CASE c \in BookedIds
      BY <2>1, <3>2, <1>3 DEF WInv, BookingsCleared
    <3> QED
      BY <3>1, <3>2, <1>3
  <2>3. Cleared(ids, p, s)'
    BY <2>2, <1>4
  <2> QED
    BY <2>1, <2>2, <2>3 DEF Cleared
<1> QED
  BY <1>4, <1>8, <1>9 DEF WInv

\* BookingService logs the status it writes, the webhook writes CONFIRMED and
\* logs nothing.
LEMMA WebhookChanges ==
    ASSUME WInv, TypeOK',
           \/ \E r \in Requests, new \in Status :
                 Changing(r) /\ SetStatus(r, new)
           \/ \E c \in BookingIds : ConfirmAfterPayment(c)
    PROVE  WInv'
<1>1. PICK b \in BookedIds :
         /\ \A c \in BookedIds : c # b => /\ bookings'[c] = bookings[c]
                                          /\ logs'[c] = logs[c]
         /\ BookedIds' = BookedIds
         /\ bookings'[b].provider = bookings[b].provider
         /\ bookings'[b].slot = bookings[b].slot
         /\ bookings'[b].checked = bookings[b].checked
         /\ Len(logs'[b]) = bookings'[b].version
         /\ Len(logs'[b]) >= 1
         /\ bookings'[b].status \in {LastLogged(b)', "CONFIRMED"}
         /\ WasReleased(b) => WasReleased(b)'
         /\ \/ \E r \in Requests : req' = [req EXCEPT ![r] = Idle]
            \/ UNCHANGED req
  <2>1. ASSUME NEW r \in Requests, NEW new \in Status, Changing(r),
               SetStatus(r, new), NEW b \in BookedIds, b = req[r].booking
        PROVE  /\ \A c \in BookedIds : c # b => /\ bookings'[c] = bookings[c]
                                                /\ logs'[c] = logs[c]
               /\ BookedIds' = BookedIds
               /\ bookings'[b].provider = bookings[b].provider
               /\ bookings'[b].slot = bookings[b].slot
               /\ bookings'[b].checked = bookings[b].checked
               /\ Len(logs'[b]) = bookings'[b].version
               /\ Len(logs'[b]) >= 1
               /\ bookings'[b].status \in {LastLogged(b)', "CONFIRMED"}
               /\ WasReleased(b) => WasReleased(b)'
    <3> DEFINE entry == LogEntry(req[r].status, new)
    <3>1. b \in BookingIds /\ bookings[b] \in BookingRow
      BY RowsAreRows DEF BookedIds, WInv
    <3>2. entry \in LogRow /\ entry.new = new
      BY <2>1, RequestKinds
         DEF Changing, WInv, TypeOK, StatusRequest, LogEntry, LogRow
    <3>3. /\ bookings'[b] = Moved(bookings[b], new)
          /\ \A c \in BookingIds : c # b => bookings'[c] = bookings[c]
          /\ logs'[b] = Append(logs[b], entry)
          /\ \A c \in BookingIds : c # b => logs'[c] = logs[c]
      BY <2>1, <3>1 DEF SetStatus, WInv, TypeOK
    <3>4. /\ Moved(bookings[b], new) \in BookingRow
          /\ bookings'[b].provider = bookings[b].provider
          /\ bookings'[b].slot = bookings[b].slot
          /\ bookings'[b].checked = bookings[b].checked
          /\ bookings'[b].version = bookings[b].version + 1
          /\ bookings'[b].status = new
      BY <3>1, <3>3, MovedRow
    <3>5. BookedIds' = BookedIds
      BY <3>1, <3>3, <3>4, RowAssumption DEF BookedIds
    <3>6. /\ Len(logs[b]) = bookings[b].version
          /\ logs[b] \in Seq(LogRow)
      BY <3>1 DEF WInv, OnlyConfirmedUnlogged, TypeOK
    <3>7. /\ Len(logs'[b]) = Len(logs[b]) + 1
          /\ Len(logs[b]) \in Nat
          /\ logs'[b][Len(logs[b]) + 1] = entry
          /\ \A i \in 1..Len(logs[b]) : logs'[b][i] = logs[b][i]
      BY <3>2, <3>3, <3>6
    <3>8. LastLogged(b)' = new
      BY <3>2, <3>7 DEF LastLogged
    <3>9. WasReleased(b) => WasReleased(b)'
      BY <3>7 DEF WasReleased
    <3> QED
      BY <3>3, <3>4, <3>5, <3>6, <3>7, <3>8, <3>9 DEF BookedIds
  <2>2. ASSUME NEW b \in BookingIds, ConfirmAfterPayment(b)
        PROVE  /\ \A c \in BookedIds : c # b => bookings'[c] = bookings[c]
               /\ BookedIds' = BookedIds
               /\ bookings'[b].provider = bookings[b].provider
               /\ bookings'[b].slot = bookings[b].slot
               /\ bookings'[b].checked = bookings[b].checked
               /\ bookings'[b].version = bookings[b].version
               /\ bookings'[b].status = "CONFIRMED"
    <3> DEFINE confirmed == [bookings[b] EXCEPT !.status = "CONFIRMED"]
    <3>1. bookings[b] \in BookingRow
      BY <2>2, RowsAreRows DEF ConfirmAfterPayment, WInv
    <3>2. /\ confirmed \in BookingRow
          /\ confirmed.provider = bookings[b].provider
          /\ confirmed.slot = bookings[b].slot
          /\ confirmed.checked = bookings[b].checked
          /\ confirmed.version = bookings[b].version
          /\ confirmed.status = "CONFIRMED"
      BY <3>1 DEF BookingRow, Status
    <3>3. \A c \in BookingIds :
             bookings'[c] = IF c = b THEN confirmed ELSE bookings[c]
      BY <2>2 DEF ConfirmAfterPayment, WInv, TypeOK
    <3> HIDE DEF confirmed
    <3>4. BookedIds' = BookedIds
      BY <3>1, <3>2, <3>3, RowAssumption DEF BookedIds
    <3> QED
      BY <3>2, <3>3, <3>4 DEF BookedIds
  <2>3. CASE \E r \in Requests, new \in Status :
                Changing(r) /\ SetStatus(r, new)
    <3> PICK r \in Requests, new \in Status : Changing(r) /\ SetStatus(r, new)
      BY <2>3
    <3>1. PICK b \in BookedIds : b = req[r].booking
      BY DEF Changing, WInv, WebhookHandlers, WebhookSound
    <3> QED
      BY <2>1, <3>1 DEF SetStatus
  <2>4. CASE \E c \in BookingIds : ConfirmAfterPayment(c)
    <3>1. PICK c \in BookingIds : ConfirmAfterPayment(c)
      BY <2>4
    <3>2. c \in BookedIds /\ UNCHANGED <<logs, req>>
      BY <3>1 DEF ConfirmAfterPayment
    <3> QED
      BY <2>2, <3>1, <3>2
         DEF WInv, OnlyConfirmedUnlogged, WasReleased, LastLogged
  <2> QED
    BY <2>3, <2>4
<1>2. /\ \A ids, p, s : Cleared(ids, p, s) => Cleared(ids, p, s)'
      /\ WebhookHandlers'
  <2>1. \A c \in BookedIds :
              /\ c \in BookedIds'
              /\ bookings'[c].provider = bookings[c].provider
              /\ bookings'[c].slot = bookings[c].slot
              /\ WasReleased(c) => WasReleased(c)'
    BY <1>1 DEF WasReleased
  <2> QED
    BY <1>1, <2>1, WebhookWrites
<1>3. OnlyConfirmedUnlogged' /\ \A c \in BookedIds' : Len(logs'[c]) >= 1
  BY <1>1 DEF WInv, OnlyConfirmedUnlogged, LastLogged
<1>4. BookingsCleared'
  <2> SUFFICES ASSUME NEW c \in BookedIds
               PROVE  /\ c \notin bookings'[c].checked
                      /\ Cleared(bookings[c].checked, bookings[c].provider,
                                 bookings[c].slot)'
    BY <1>1 DEF BookingsCleared
  <2>1. PICK ids, p, s : /\ ids = bookings[c].checked
                         /\ p = bookings[c].provider
                         /\ s = bookings[c].slot
    OBVIOUS
  <2>2. /\ bookings'[c].checked = ids
        /\ bookings'[c].provider = p
        /\ bookings'[c].slot = s
    BY <1>1, <2>1
  <2>3. c \notin ids /\ Cleared(ids, p, s)
    BY <2>1 DEF WInv, BookingsCleared
  <2>4. Cleared(ids, p, s)'
    BY <2>3, <1>2
  <2> QED
    BY <2>2, <2>3, <2>4 DEF Cleared
<1> QED
  BY <1>2, <1>3, <1>4 DEF WInv

LEMMA TypeNext == TypeOK /\ (\A r \in Requests : Changing(r) =>
                                bookings[req[r].booking] # Unused)
                  /\ [WebhookNext]_vars => TypeOK'
<1> SUFFICES ASSUME TypeOK, [WebhookNext]_vars,
                    \A r \in Requests : Changing(r) =>
                        bookings[req[r].booking] # Unused
             PROVE  TypeOK'
  OBVIOUS
<1>1. ASSUME NEW r \in Requests, HoldStep(r) \/ BookStep(r)
      PROVE  TypeOK'
  BY <1>1, TypeHoldStep, TypeBookStep
<1>2. ASSUME NEW r \in Requests, StatusStep(r)
      PROVE  TypeOK'
  <2>1. ASSUME NEW u \in Users, NEW b \in BookingIds,
               NEW pc \in {"confirm", "cancel", "complete"},
               ReadBooking(r, u, b, pc)
        PROVE  TypeOK'
    <3>1. bookings[b] \in BookingRow
      BY <2>1, RowsAreRows DEF ReadBooking
    <3>2. [pc |-> pc, booking |-> b, status |-> bookings[b].status,
           version |-> bookings[b].version] \in Request
      BY <3>1 DEF Request, StatusRequest, BookingRow
    <3> QED
      BY <2>1, <3>2 DEF ReadBooking, TypeOK
  <2>2. ASSUME NEW new \in Status, Changing(r), SetStatus(r, new)
        PROVE  TypeOK'
    BY <2>2, TypeSetStatus
  <2>3. CASE \E u \in Users, b \in BookingIds : \/ ReadConfirm(r, u, b)
                                                \/ ReadCancel(r, u, b)
                                                \/ ReadComplete(r, u, b)
    BY <2>3, <2>1 DEF ReadConfirm, ReadCancel, ReadComplete
  <2>4. CASE Confirm(r) \/ Cancel(r) \/ Complete(r)
    BY <2>4, <2>2 DEF Confirm, Cancel, Complete, Changing, Status
  <2> QED
    BY <1>2, <2>3, <2>4
       DEF StatusStep, PatchConfirm, PatchCancel, PatchComplete
<1>3. ASSUME NEW r \in Requests, Abort(r)
      PROVE  TypeOK'
  BY <1>3 DEF Abort, TypeOK, Request
<1>4. ASSUME NEW t \in Tenants, DeleteExpiredHolds(t)
      PROVE  TypeOK'
  BY <1>4 DEF DeleteExpiredHolds, TypeOK
<1>5. ASSUME NEW s \in Services, UpdateService(s) \/ DeleteService(s)
      PROVE  TypeOK'
  BY <1>5 DEF UpdateService, DeleteService, TypeOK
<1>6. CASE Tick \/ UNCHANGED vars
  BY <1>6 DEF Tick, vars, TypeOK
<1>7. ASSUME NEW b \in BookingIds, ConfirmAfterPayment(b)
      PROVE  TypeOK'
  <2>1. bookings[b] \in BookingRow
    BY <1>7, RowsAreRows DEF ConfirmAfterPayment
  <2>2. [bookings[b] EXCEPT !.status = "CONFIRMED"] \in BookingRow
    BY <2>1 DEF BookingRow, Status
  <2> QED
    BY <1>7, <2>2 DEF ConfirmAfterPayment, TypeOK
<1> QED
  BY <1>1, <1>2, <1>3, <1>4, <1>5, <1>6, <1>7
     DEF WebhookNext, Next, CleanupExpiredHolds

LEMMA WebhookNextKeeps == WInv /\ [WebhookNext]_vars => WInv'
<1> SUFFICES ASSUME WInv, [WebhookNext]_vars
             PROVE  WInv'
  OBVIOUS
<1>1. \A r \in Requests : Changing(r) => bookings[req[r].booking] # Unused
  BY DEF WInv, WebhookHandlers, WebhookSound, Changing, BookedIds
<1>2. TypeOK'
  BY <1>1, TypeNext DEF WInv
<1>3. ASSUME NEW r \in Requests, HoldStep(r)
      PROVE  WInv'
  <2>1. ASSUME NEW u \in Users, NEW p \in Providers, NEW s \in Services,
               NEW slot \in Slots, CreateHold(r, u, p, s, slot)
        PROVE  WInv'
    <3> DEFINE q == [pc |-> "insertHold", user |-> u, provider |-> p,
                     service |-> s, slot |-> slot]
    <3>1. WebhookSound(q)
      BY DEF WebhookSound
    <3> QED
      BY <1>2, <2>1, <3>1, WebhookMoves DEF CreateHold
  <2>2. ASSUME NEW h \in HoldIds, InsertHold(r, h)
        PROVE  WInv'
    BY <1>2, <2>2, IdleWebhookSound, WebhookMoves DEF InsertHold
  <2> QED
    BY <1>3, <2>1, <2>2 DEF HoldStep, PostSlotHold
<1>4. ASSUME NEW r \in Requests, BookStep(r)
      PROVE  WInv'
  <2>1. ASSUME NEW u \in Users, NEW h \in HoldIds, ReadHold(r, u, h)
        PROVE  WInv'
    <3> DEFINE q == [pc |-> "checkConflict", user |-> u, hold |-> h,
                     seen |-> holds[h], checked |-> {}]
    <3>1. WebhookSound(q)
      BY DEF WebhookSound, Cleared
    <3> QED
      BY <1>2, <2>1, <3>1, WebhookMoves DEF ReadHold
  <2> QED
    BY <1>2, <1>4, <2>1, WebhookCheckConflict, WebhookInsertBooking
       DEF BookStep, PostBooking
<1>5. ASSUME NEW r \in Requests, StatusStep(r)
      PROVE  WInv'
  <2>1. ASSUME NEW u \in Users, NEW b \in BookingIds,
               NEW pc \in {"confirm", "cancel", "complete"},
               ReadBooking(r, u, b, pc)
        PROVE  WInv'
    <3> DEFINE q == [pc |-> pc, booking |-> b, status |-> bookings[b].status,
                     version |-> bookings[b].version]
    <3>1. WebhookSound(q)
      BY <2>1 DEF WebhookSound, ReadBooking
    <3> QED
      BY <1>2, <2>1, <3>1, WebhookMoves DEF ReadBooking
  <2>2. CASE \E u \in Users, b \in BookingIds : \/ ReadConfirm(r, u, b)
                                                \/ ReadCancel(r, u, b)
                                                \/ ReadComplete(r, u, b)
    BY <2>1, <2>2 DEF ReadConfirm, ReadCancel, ReadComplete
  <2>3. CASE Confirm(r) \/ Cancel(r) \/ Complete(r)
    BY <1>2, <2>3, WebhookChanges
       DEF Confirm, Cancel, Complete, Changing, Status
  <2> QED
    BY <1>5, <2>2, <2>3
       DEF StatusStep, PatchConfirm, PatchCancel, PatchComplete
<1>6. ASSUME NEW r \in Requests, Abort(r)
      PROVE  WInv'
  BY <1>2, <1>6, IdleWebhookSound, WebhookMoves DEF Abort
<1>7. ASSUME NEW b \in BookingIds, ConfirmAfterPayment(b)
      PROVE  WInv'
  BY <1>2, <1>7, WebhookChanges
<1>8. CASE UNCHANGED <<bookings, logs, req>>
  BY <1>2, <1>8, IdleWebhookSound, WebhookMoves
<1> QED
  BY <1>3, <1>4, <1>5, <1>6, <1>7, <1>8
     DEF WebhookNext, Next, vars, CleanupExpiredHolds, DeleteExpiredHolds,
         UpdateService, DeleteService, Tick

LEMMA WebhookInductive == WebhookSpec => []WInv
<1>1. Init => WInv
  BY WebhookInit
<1>2. WInv /\ [WebhookNext]_vars => WInv'
  BY WebhookNextKeeps
<1> QED
  BY <1>1, <1>2, PTL DEF WebhookSpec

\* The webhook leaves the log in step with the version, and CONFIRMED is all
\* the log can miss.
THEOREM WebhookLeavesConfirmed == WebhookSpec => []OnlyConfirmedUnlogged
BY WebhookInductive, PTL DEF WInv

\* With the webhook, overlapping bookings of a provider are still the work of a
\* race or of a booking that was cancelled once.
THEOREM WebhookOverlapsAreRaces == WebhookSpec => []OverlapOnlyByRaceOrReturn
<1>1. WInv => OverlapOnlyByRaceOrReturn
  BY DEF WInv, BookingsCleared, Cleared, Clash, Overlap,
         OverlapOnlyByRaceOrReturn
<1> QED
  BY <1>1, WebhookInductive, PTL

-----------------------------------------------------------------------------
(* The webhook and the timetable: what a handler's version still tells.     *)

\* The version read is not ahead of the row's, and as long as it is current,
\* the webhook alone can have written to the row.
VersionKnown(q) ==
    q.pc \in {"confirm", "cancel", "complete"} =>
        LET row == bookings[q.booking] IN
        /\ q.version <= row.version
        /\ q.version = row.version => row.status \in {q.status, "CONFIRMED"}

VersionsKnown == \A r \in Requests : VersionKnown(req[r])

\* A handler about to change a status was about to before the step, or has
\* read the booking in it.
LEMMA ReadOrKept ==
    ASSUME TypeOK, [WebhookNext]_vars, NEW r \in Requests, Changing(r)'
    PROVE  \/ req'[r] = req[r]
           \/ /\ UNCHANGED bookings
              /\ req'[r].booking \in BookedIds
              /\ req'[r].version = bookings[req'[r].booking].version
              /\ req'[r].status = bookings[req'[r].booking].status
<1>1. ASSUME NEW r2 \in Requests, NEW q,
             q.pc \notin {"confirm", "cancel", "complete"},
             req' = [req EXCEPT ![r2] = q]
      PROVE  req'[r] = req[r]
  BY <1>1 DEF Changing, TypeOK
<1>2. Idle.pc \notin {"confirm", "cancel", "complete"}
  BY DEF Idle
<1>3. ASSUME NEW r2 \in Requests, HoldStep(r2)
      PROVE  req'[r] = req[r]
  <2>1. ASSUME NEW u \in Users, NEW p \in Providers, NEW s \in Services,
               NEW slot \in Slots, CreateHold(r2, u, p, s, slot)
        PROVE  req'[r] = req[r]
    BY <1>1, <2>1 DEF CreateHold
  <2> QED
    BY <1>1, <1>2, <1>3, <2>1 DEF HoldStep, PostSlotHold, InsertHold
<1>4. ASSUME NEW r2 \in Requests, BookStep(r2)
      PROVE  req'[r] = req[r]
  <2>1. ASSUME NEW u \in Users, NEW h \in HoldIds, ReadHold(r2, u, h)
        PROVE  req'[r] = req[r]
    BY <1>1, <2>1 DEF ReadHold
  <2>2. CASE CheckConflict(r2) \/ FetchService(r2)
    <3> DEFINE q1 == [req[r2] EXCEPT !.pc = "fetchService",
                                     !.checked = BookedIds]
               q2 == [req[r2] EXCEPT !.pc = "insertBooking"]
    <3>1. req[r2] \in BookRequest
      BY <2>2, RequestKinds DEF CheckConflict, FetchService, TypeOK
    <3>2. q1.pc = "fetchService" /\ q2.pc = "insertBooking"
      BY <3>1 DEF BookRequest
    <3>3. \/ req' = [req EXCEPT ![r2] = q1]
          \/ req' = [req EXCEPT ![r2] = q2]
          \/ req' = [req EXCEPT ![r2] = Idle]
      BY <2>2 DEF CheckConflict, FetchService, TypeOK
    <3> HIDE DEF q1, q2
    <3> QED
      BY <1>1, <1>2, <3>2, <3>3
  <2>3. ASSUME NEW b \in BookingIds, InsertBooking(r2, b)
        PROVE  req'[r] = req[r]
    BY <1>1, <1>2, <2>3 DEF InsertBooking
  <2> QED
    BY <1>4, <2>1, <2>2, <2>3 DEF BookStep, PostBooking
<1>5. ASSUME NEW r2 \in Requests, NEW u \in Users, NEW b \in BookingIds,
             \/ ReadConfirm(r2, u, b) \/ ReadCancel(r2, u, b)
             \/ ReadComplete(r2, u, b)
      PROVE  \/ req'[r] = req[r]
             \/ /\ UNCHANGED bookings
                /\ req'[r].booking \in BookedIds
                /\ req'[r].version = bookings[req'[r].booking].version
                /\ req'[r].status = bookings[req'[r].booking].status
  <2>1. PICK pc : ReadBooking(r2, u, b, pc)
    BY <1>5 DEF ReadConfirm, ReadCancel, ReadComplete
  <2> QED
    BY <2>1 DEF ReadBooking, TypeOK
<1>6. ASSUME NEW r2 \in Requests, Confirm(r2) \/ Cancel(r2) \/ Complete(r2)
      PROVE  req'[r] = req[r]
  BY <1>1, <1>2, <1>6 DEF Confirm, Cancel, Complete, SetStatus
<1>7. ASSUME NEW r2 \in Requests, Abort(r2)
      PROVE  req'[r] = req[r]
  BY <1>1, <1>2, <1>7 DEF Abort
<1>8. CASE UNCHANGED req
  BY <1>8
<1> QED
  BY <1>3, <1>4, <1>5, <1>6, <1>7, <1>8
     DEF WebhookNext, Next, vars, StatusStep, PatchConfirm, PatchCancel,
         PatchComplete, CleanupExpiredHolds, DeleteExpiredHolds,
         UpdateService, DeleteService, Tick, ConfirmAfterPayment

\* A booking's version never goes back, and it stands still only as long as no
\* one but the webhook writes to the row.
LEMMA RowsAdvance ==
    ASSUME WInv, [WebhookNext]_vars, NEW b \in BookedIds
    PROVE  \/ bookings'[b] = bookings[b]
           \/ bookings'[b].version = bookings[b].version + 1
           \/ /\ bookings'[b].version = bookings[b].version
              /\ bookings'[b].status = "CONFIRMED"
<1>1. b \in BookingIds /\ bookings[b] \in BookingRow /\ bookings[b] # Unused
  BY RowsAreRows DEF BookedIds, WInv
<1>2. ASSUME NEW r \in Requests, NEW c \in BookingIds, InsertBooking(r, c)
      PROVE  bookings'[b] = bookings[b]
  BY <1>1, <1>2 DEF InsertBooking, WInv, TypeOK
<1>3. ASSUME NEW r \in Requests, Confirm(r) \/ Cancel(r) \/ Complete(r)
      PROVE  \/ bookings'[b] = bookings[b]
             \/ bookings'[b].version = bookings[b].version + 1
  <2>1. PICK new \in Status : SetStatus(r, new)
    BY <1>3 DEF Confirm, Cancel, Complete, Status
  <2>2. Moved(bookings[b], new).version = bookings[b].version + 1
    BY <1>1, MovedRow
  <2> QED
    BY <1>1, <2>1, <2>2 DEF SetStatus, WInv, TypeOK
<1>4. ASSUME NEW c \in BookingIds, ConfirmAfterPayment(c)
      PROVE  \/ bookings'[b] = bookings[b]
             \/ /\ bookings'[b].version = bookings[b].version
                /\ bookings'[b].status = "CONFIRMED"
  <2>1. /\ [bookings[b] EXCEPT !.status = "CONFIRMED"].version
              = bookings[b].version
        /\ [bookings[b] EXCEPT !.status = "CONFIRMED"].status = "CONFIRMED"
    BY <1>1 DEF BookingRow
  <2> QED
    BY <1>1, <1>4, <2>1 DEF ConfirmAfterPayment, WInv, TypeOK
<1> QED
  BY <1>2, <1>3, <1>4, BookingWriters DEF WebhookNext

LEMMA VersionsNext ==
    WInv /\ VersionsKnown /\ [WebhookNext]_vars => VersionsKnown'
<1> SUFFICES ASSUME WInv, VersionsKnown, [WebhookNext]_vars,
                    NEW r \in Requests, Changing(r)'
             PROVE  VersionKnown(req[r])'
  BY DEF VersionsKnown, VersionKnown, Changing
<1>1. CASE req'[r] = req[r]
  <2>1. Changing(r) /\ req[r] \in StatusRequest
    BY <1>1, RequestKinds DEF Changing, WInv, TypeOK
  <2>2. PICK b \in BookedIds : b = req[r].booking
    BY <2>1 DEF Changing, WInv, WebhookHandlers, WebhookSound
  <2>3. /\ req[r].version \in Nat
        /\ bookings[b].version \in Nat
    BY <2>1, <2>2, RowsAreRows DEF StatusRequest, BookingRow, BookedIds, WInv
  <2>4. /\ req[r].version <= bookings[b].version
        /\ req[r].version = bookings[b].version
           => bookings[b].status \in {req[r].status, "CONFIRMED"}
    BY <2>1, <2>2 DEF VersionsKnown, VersionKnown, Changing
  <2>5. /\ req[r].version <= bookings'[b].version
        /\ req[r].version = bookings'[b].version
           => bookings'[b].status \in {req[r].status, "CONFIRMED"}
    BY <2>3, <2>4, RowsAdvance
  <2> QED
    BY <1>1, <2>2, <2>5 DEF VersionKnown
<1>2. CASE /\ UNCHANGED bookings
           /\ req'[r].booking \in BookedIds
           /\ req'[r].version = bookings[req'[r].booking].version
           /\ req'[r].status = bookings[req'[r].booking].status
  <2>1. bookings[req'[r].booking].version \in Nat
    BY <1>2, RowsAreRows DEF BookingRow, BookedIds, WInv
  <2> QED
    BY <1>2, <2>1 DEF VersionKnown
<1> QED
  BY <1>1, <1>2, ReadOrKept DEF WInv

\* The webhook's own write is the return the timetable allows for.
LEMMA ReturnSimulated ==
    ASSUME TypeOK, NEW b \in BookingIds, ConfirmAfterPayment(b)
    PROVE  T!Return(b)
<1> DEFINE confirmed == [bookings[b] EXCEPT !.status = "CONFIRMED"]
<1>1. bookings[b] \in BookingRow /\ bookings[b] # Unused
  BY RowsAreRows DEF ConfirmAfterPayment, BookedIds
<1>2. /\ confirmed \in BookingRow
      /\ confirmed.provider = bookings[b].provider
      /\ confirmed.slot = bookings[b].slot
      /\ confirmed.status = "CONFIRMED"
  BY <1>1 DEF BookingRow, Status
<1>3. \A c \in BookingIds :
         bookings'[c] = IF c = b THEN confirmed ELSE bookings[c]
  BY DEF ConfirmAfterPayment, TypeOK
<1> HIDE DEF confirmed
<1>4. confirmed # Unused
  BY <1>2, RowAssumption
<1>5. /\ Entry(bookings[b]) \in [provider: Providers, slot: Slots,
                                 status: Status]
      /\ Entry(confirmed) = [Entry(bookings[b]) EXCEPT !.status = "CONFIRMED"]
  <2>1. Entry(bookings[b]) \in [provider: Providers, slot: Slots,
                                status: Status]
    BY <1>1 DEF Entry, BookingRow
  <2>2. Entry(confirmed) = [Entry(bookings[b]) EXCEPT !.status = "CONFIRMED"]
    BY <1>1, <1>2, <1>4 DEF Entry
  <2> QED
    BY <2>1, <2>2
<1>6. Calendar[b] = Entry(bookings[b]) /\ Calendar[b] # Unused
  BY <1>1, <1>5, RowAssumption DEF Calendar, Entry
<1>7. Calendar' = [Calendar EXCEPT ![b].status = "CONFIRMED"]
  BY <1>1, <1>3, <1>4, <1>5 DEF Calendar, Entry
<1> QED
  BY <1>6, <1>7 DEF T!Return

\* Two writers and any interleaving: the timetable that allows for the
\* webhook's confirmations is left by an outdated status change or an INSERT
\* over what its conflict query did not see or saw released, and by nothing
\* else.  A handler that has missed only a webhook stays within it.
THEOREM WebhookRacesAlone == WebhookSpec => LeavesPaidTimetableOnlyByRace
<1>1. WInv /\ StatusChecked /\ VersionsKnown /\ [WebhookNext]_vars =>
        [bookings' # bookings
         => \/ \E r \in Requests : StaleWrite(r) \/ InsertOverReturned(r)
            \/ [T!PaidNext]_Calendar]_vars
  <2> SUFFICES ASSUME WInv, StatusChecked, VersionsKnown, [WebhookNext]_vars,
                      bookings' # bookings
               PROVE  \/ \E r \in Requests :
                            StaleWrite(r) \/ InsertOverReturned(r)
                      \/ [T!PaidNext]_Calendar
    OBVIOUS
  <2>1. ASSUME NEW r \in Requests, NEW b \in BookingIds, InsertBooking(r, b)
        PROVE  InsertOverReturned(r) \/ T!Next
    <3>1. ASSUME NEW c \in Conflicts(req[r].seen) \cap req[r].checked
          PROVE  WasReleased(c)
      BY <2>1 DEF Conflicts, InsertBooking, WInv, WebhookHandlers,
                  WebhookSound, Cleared
    <3> QED
      BY <2>1, <3>1, InsertsOrOverlaps DEF InsertOverReturned, WInv
  <2>2. ASSUME NEW r \in Requests, Confirm(r) \/ Cancel(r) \/ Complete(r)
        PROVE  StaleWrite(r) \/ [T!Next]_Calendar
    <3>1. Changing(r) /\ req[r] \in StatusRequest
      BY <2>2, RequestKinds
         DEF Confirm, Cancel, Complete, Changing, WInv, TypeOK
    <3>2. PICK b \in BookedIds : b = req[r].booking
      BY <3>1 DEF Changing, WInv, WebhookHandlers, WebhookSound
    <3>3. /\ req[r].version \in Nat
          /\ bookings[b].version \in Nat
      BY <3>1, <3>2, RowsAreRows DEF StatusRequest, BookingRow, BookedIds, WInv
    <3>4. \/ req[r].version < bookings[b].version
          \/ bookings[b].status \in {req[r].status, "CONFIRMED"}
      BY <3>1, <3>2, <3>3 DEF VersionsKnown, VersionKnown, Changing
    <3> QED
      BY <2>2, <3>2, <3>4, ChangesOrStale DEF WInv
  <2>3. ASSUME NEW b \in BookingIds, ConfirmAfterPayment(b)
        PROVE  T!PaidNext
    BY <2>3, ReturnSimulated DEF T!PaidNext, WInv
  <2> QED
    BY <2>1, <2>2, <2>3, BookingWriters DEF WebhookNext, T!PaidNext
<1>2. Init => StatusChecked /\ VersionsKnown
  BY CheckedInit DEF Init, VersionsKnown, VersionKnown, Idle
<1>3. WInv => TypeOK
  BY DEF WInv
<1> QED
  BY <1>1, <1>2, <1>3, CheckedNext, VersionsNext, WebhookInductive,
     TimetableStarts, PTL DEF WebhookSpec, LeavesPaidTimetableOnlyByRace
=============================================================================
