# Nest Booking Core in TLA+

Nest Booking Core is a multi-tenant booking engine (NestJS, Prisma, PostgreSQL).
Customers of a tenant hold a slot of a provider, turn the hold into a booking,
pay, and cancel; providers and administrators confirm and complete bookings;
a payment gateway reports payments through a webhook.

This directory models the services that decide something, `src/src/modules`,
at the granularity at which they can be interrupted: a NestJS handler runs on a
single thread from one `await` to the next, so **one action is the code between
two awaits with the database statement (or gateway call) it waits for**. What a
handler remembers across an await is in a record of the model (`req` or `job`),
labelled with the place where it goes on. PostgreSQL runs single statements
atomically. A Prisma `$transaction` is one action where its decision does not
depend on what it reads and it touches rows found by their ids, which holds for
those of bookings; the one of updateSchedule is modelled statement by statement
and row by row, with its row locks and roll-backs (module `Schedule`).

A request begins with its route: the roles of `RolesGuard` and the tenant the
controller asks for are guards of the first action of the handler.

## Inventory

| component | state | operations | talks to |
|---|---|---|---|
| Slot holds, `SlotService` | `slot_holds` (interval, expiry, isConverted) | createHold, deleteExpiredHolds | services, bookings (converts) |
| Bookings, `BookingService` | `bookings` (status, version), `booking_status_logs` | createBooking, confirm, cancel, complete | holds, services, policies; emits `booking.created` |
| Payments, `PaymentService` | `payments` (status, externalPaymentId) | createPayment, handler of `booking.created`, updatePaymentStatus, confirmBookingAfterPayment, retryPayment | gateway, bookings (writes status); emits `payment.completed` |
| Gateways and webhook | none of their own; transactions at the gateway | handleWebhook, status mapping, re-query | payments |
| Sessions, `AuthService`, `JwtStrategy`, `JwtAuthGuard` | `users`, `refresh_tokens` | register, login, refreshToken, logout, setupTenant, toggleUserStatus, validate | tenants |
| Tenants, `TenantService` | `tenants`, `cancellation_policies`, `service_categories` | create, update, toggleStatus; policies and categories: create, update, delete | sessions, cancelBooking, services |
| Slot calculator | none | calculateAvailableSlots | called by availability |
| Availability, `ProviderService.getAvailability` | none; reads five tables one after the other | getAvailability | schedules, breaks, bookings, holds, services |
| Schedules and breaks, `ScheduleService` | `provider_schedules`, `provider_breaks` | updateSchedule, createBreak, deleteBreak | availability |
| Profiles and services, `ProviderService` | `provider_profiles`, `services` | create, update, delete | users, categories; holds and bookings (foreign keys) |
| Guards and controllers | none | canActivate; the routes of all of the above | every service |
| DTOs, filters, interceptors, configuration, health | none | | |
| `notifications`, `idempotency_keys` | tables no code reads or writes | | |

What makes each component correct, and what is hard about it:

* **Bookings.** A provider is never booked twice, the audit trail tells what
  happened, final statuses stay, a booking stays backed by its hold and within
  its tenant. Hard: every handler checks first and writes later, and no check is
  repeated in the write; the `version` column is written and never compared.
* **Payments.** Behind Midtrans money is never invented, and money paid confirms
  the booking; the mock that is wired by default believes whoever calls. Hard: notifications are repeated, late and out of
  order; the idempotency check and the write are far apart; a denied order may
  still be paid; the handler may die between two writes; the webhook also writes to the bookings table.
* **Sessions.** One working refresh token per user, a founder who owns the
  tenant, requests served in the right tenant. Hard: deletes and inserts without
  a transaction; tokens are deterministic within one second.
* **Availability and calculator.** What is taken is not offered, what is free is
  not withheld, the loop ends. Hard: five reads of five moments; boundaries of
  the day, buffers, breaks without times.
* **Schedules.** The stored week is that of one request, and an update ends.
  Hard: a DELETE under READ COMMITTED passes over rows committed since it began;
  two INSERTs meet at the unique weekday, or wait for each other.
* **Cancellation policies.** One default, and it is what is charged. Hard: the
  default is handed on by two statements.
* **Categories, profiles, services.** Everything stays within its tenant, names
  of categories do not contain one another. Hard: each lookup is a statement of
  its own and the write finds its row by id alone; users change tenants.

`PROJECT.json` lists the hazards one by one, each at its line.

## Modules

| module | models | state and actions |
|---|---|---|
| `Access` | roles, `RolesGuard` | `canActivate`, extended by the modules with routes |
| `Booking` | `SlotService`, `BookingService` and their controllers, the parts of `ProviderService` that holds and bookings meet | `holds`, `bookings`, `logs`, `services` are the tables; `req[r]` a handler. The routes `PostSlotHold`, `PostBooking`, `PatchConfirm`, `PatchCancel`, `PatchComplete`, `CleanupExpiredHolds` run up to the first await of their handler (createHold's ends in `InsertHold`, createBooking's goes on with `CheckConflict`, `FetchService`, `InsertBooking`, the others with `Confirm`, `Cancel`, `Complete`); `Abort` is a failing statement or a dying process |
| `Timetable` | what bookings promise: entries, none made over a live one, moving along the status flow, each change indivisible | `calendar`. `Booking` refines it under `SerialisedSpec` (`T`, `ImplementsTimetable`) and leaves it otherwise by two named races only; `PaidSpec` adds `Return`, the confirmation by a payment in any status, for `BookingWebhook`; `Payment` builds on it. `NoOverlap` and `EndedStays` are what it is good for |
| `BookingWebhook` | `Booking` with the payment webhook as second writer of the table | adds `ConfirmAfterPayment` |
| `Payment` | `PaymentService`, `MidtransWebhookController`, both gateway adapters, the gateway | `payments`, the gateway's `txn`, every notification `sent`, handlers `job[w]`. `Requery` is the adapter: Midtrans, whose transactions make the `Moves`, whose notices are signed and whose status is asked for again; or the mock, whose webhook accepts any of the `Posts`, wherever they come from, and takes one without a status for a settlement (`Arrives`, `Answer`). Bookings are the `calendar` of `Timetable`, whose actions stand for the handlers of `Booking` |
| `Session` | `AuthService`, `JwtStrategy`, the tenant status | `users`, `tenants`, `store` (refresh tokens), requests `req[r]`; a token is its payload and the second it was signed in. `Register`, `InsertUser` are the registration of a user |
| `Slots`, `SlotCalculator` | `calculateAvailableSlots` as a set, minute by minute, and as its loop | `currentStart`, `slots`; one action per round |
| `Availability` | `getAvailability` against `ScheduleService`, holds and bookings | one action per query; `since`, `ever`, `kept`, `once` record what changed meanwhile |
| `Schedule` | the transaction of updateSchedule, with its route | `rows` are what is committed, `req[r]` what a transaction has deleted (`seen`) and inserted (`at`). `StartDelete` takes the rows committed by then, `DeleteRows` waits for their locks, `InsertRow` goes row by row and waits or collides (`Collide`), `Commit` makes it visible; `RollBack` is a failure, `BreakDeadlock` PostgreSQL's |
| `Week` | what updating a schedule promises: whole bodies come and go in one step | `rows`. `Schedule` refines it (`W`, `ImplementsWeek`) |
| `Catalog` | categories, provider profiles and services with their routes, setupTenant as it changes a user's tenant | `categories`, `profiles`, `services`, `users`; one action per lookup, one per write |
| `CancellationPolicy` | the policies of `TenantService` and the fee of cancelBooking | `policies`, requests `req[r]`; `promised`, `charged`, `torn` are history |
| `BookingProofs`, `PaymentProofs`, `SlotCalculatorProofs`, `SessionProofs`, `ScheduleProofs`, `CatalogProofs`, `CancellationPolicyProofs`, `AvailabilityProofs` | proofs | |

`MC…` modules give the constants values. Definitions named *Mutant* in comments
(`ConflictsByStart` and the like) are faulty variants of the definition they
precede; replacing it with one of them makes a property fail, which shows that
the property depends on the code. They take no part in any specification.

History (auxiliary) variables and fields decide nothing: `hold` and `checked` of
a booking, `completions`, `dropped` in `Payment`, `latest`, `issued` (also the
tokens clients hold), `founder`, `crossed`, `torn` in `Session`, `last` and the
field `late` in `Schedule`, `seen` of a category and `late` in `Catalog`, and
those named above.

## What is checked

The code as it is breaks several promises of its documentation. A property
therefore states **what does hold, exactly**: when and only when the promise
fails. The promise itself is stated where the code keeps it. Type invariants are
theorems of every module; the runs check some of them too.

| run | what it shows |
|---|---|
| `booking_race` | Two handlers, any interleaving. The log mirrors version and status (`LogMirrorsBooking`); equal versions mean equal statuses (`VersionDetectsStale`), so comparing versions would be enough; bookings keep their converted hold, whatever cleanup and deletion do (`BookingBackedByHold`); a provider is booked twice only if neither conflict query could see the other booking or one was reopened (`OverlapOnlyByRace`); and whatever step is none of the timetable's writes a status by an outdated read, or inserts over a booking the conflict query did not see or saw cancelled (`LeavesTimetableOnlyByRace`) |
| `booking_serialised` | With one createBooking per provider and one status change per booking at a time, everything promised holds: `NoDoubleBooking`, `AuditChain`, one booking per hold (`HoldConvertedOnce`), and the refinement `ImplementsTimetable`, over two tenants and all roles |
| `booking_webhook` | What the webhook leaves of it: the audit trail misses CONFIRMED only (`OnlyConfirmedUnlogged`), double bookings need a race or a booking once cancelled (`OverlapOnlyByRaceOrReturn`), and the two writers leave the timetable with returns by the same two races only (`LeavesPaidTimetableOnlyByRace`) |
| `payment` | The mock gateway, with calls that leave the status out: whatever status a payment has, a call about an order of that very booking stood for it (`StatusWasNotified`). That is all that holds behind the mock |
| `payment_confirms` | Midtrans, with crashes, payments after a denial, and fairness: nothing is completed that was not paid (`CompletedOnlyIfPaid`); a notice of money taken is answered only when the booking is decided, the money went back, a handler is on its way to the booking, or in the two cases the code gives it up (`PaidIsPursued`); and but for these two, what is paid gets confirmed, ended or refunded (`PaidIsConfirmed`) |
| `session` | Refresh tokens never outnumber the requests in flight (`TokensBoundedByRace`); the one that works is the last one given unless two sign-ins crossed (`StoredIsLatest`); founders join their tenants unless a setup stopped or met another (`FounderJoins`); no request is served in a tenant its user has left (`ContextIsCurrent`); a tenant and a role, once there, stay (`TenantIsFinal`) |
| `slots` | The loop equals its definition and the minute-by-minute one (`OffersAvailable`), a provider can serve all it offers (`SlotsServable`), it ends (`Terminates`) |
| `availability` | A slot offered lies in the hours the request found open and is clear of what was settled for the whole request: the bookings and holds that begin that day, the recurring breaks of the weekday (`AnswerRespectsSettled`), and nothing is withheld without a reason that was true at some moment of the request (`WithheldForReason`) |
| `schedule` | Two updates of one week: what a body brought is there whole or not at all (`StoredWhole`), an update that met no other replaced everything (`AloneReplacesAll`), only a race runs into the unique weekday (`CollidesOnlyByRace`), every update ends (`UpdateEnds`), and the transaction implements the abstract week (`ImplementsWeek`) |
| `catalog` | The category of a service exists and is of its tenant (`CategoryOfOwnTenant`); a profile is in another tenant than its user only if the user joined later (`StrayOnlyByLateJoin`); one name contains another only if the longer one came later, the checks raced, or the contained one is the empty name (`ContainedOnlyByRace`); no request changes the rows of another tenant (`TenantsApart`) |
| `policy` | There is exactly one default, and its charge, as an amount, is the late fee, unless two requests crossed, one stopped, or one is in between (`OneDefault`, `FeeIsPolicy`); the next undisturbed change repairs it |
| `double_booking` | (violation of `NoDoubleBooking`) two createBooking both find no conflict, both insert |

### Bounds, and why they are enough

* `booking_race`: two handlers, two holds, two bookings, the intervals [1,3) and
  [2,4), which overlap, and the empty [2,2), which createHold must refuse; a hold
  lives zero ticks and the clock reaches 1, so holds expire under a handler and
  are deleted. Every hazard listed concerns two handlers on one or two rows.
* `booking_serialised`: two tenants with one provider and service each, users of
  every role, two handlers, a hold lives one tick, three moments.
* `booking_webhook`: one interval, no expiry; `MaxLog` = 2 stops webhooks for a
  booking with more than two log rows, so that each can still be cancelled,
  reopened and changed again.
* `payment`: two bookings, two orders for the first and one for the second, so
  that a webhook could pay for the wrong one and a second order can hide the
  first; two handlers; `Calls`, one of which says `expire` and two say nothing.
  No crashes: the theorems cover them, and any calls. `completions` counts none,
  one, several.
* `payment_confirms`: one booking and its order (payments of different bookings
  share nothing behind Midtrans: the theorems cover any number), two handlers,
  crashes, and `ReviewMoves`: pending, challenge, capture, settlement, denial,
  settlement after denial, refund.
* `session`: one user, ana, who has yet to register, and two tenants she may
  found; two requests, two seconds, both tokens live one second. Requests of
  different users meet only in a tenant's slug and status.
* `slots`: a day of eight units, schedules that are open, inactive, missing or
  end before they begin; at most one break, booking and hold (a slot is blocked
  by one interval at a time), bookings over midnight, durations 1–3, buffers 0–2.
* `availability`: two overlapping claims, three breaks (of the weekday, of
  another one, and a day off), two services, a schedule that may be missing,
  inactive or changed.
* `schedule`: three weekdays; the bodies ⟨1,2⟩, ⟨2,1⟩, ⟨2⟩, ⟨3⟩, ⟨⟩ share some,
  all or none of their days, in both orders, and ⟨3,3⟩ must be refused; two
  updates, by an administrator, the provider, or another provider.
* `catalog`: a tenant with its owner and a provider, and a user without tenant who
  may found the other one; two categories, one service, the names "", "hair" and
  "haircut", each of which contains the ones before, two requests.
* `policy`: two policies with two names and charges of 20 or 50, so that the fee
  tells which of them was applied; a price of 200, so that an amount is not the
  percentage; free until 24 hours before, cancelled 1 or 24 hours before, two
  requests.

Symmetry is used on identifiers, requests and names that are interchangeable,
and only in runs without liveness. Deadlock is not checked because each system
may stop: its bounded identifiers run out, or nobody asks for anything.

### Fairness

* `Payment!FairSpec`: a handler that has begun goes on or stops (WF on `Continue`:
  Node resumes every awaited statement), and as long as an order has notices not
  yet answered with 200, one of them is delivered again (SF on `Deliver`: gateways
  retry; strong, because the model lets a call wait for one of its few `Jobs`,
  which a server does not). An error may stop a handler before it has stored the
  status, but not each time it is called (SF on `RequeryStatus` and on
  `UpdatePaymentStatus`): a database or a gateway that is never there confirms
  nothing.
* `SlotCalculator!FairSpec`: WF on the loop, which is synchronous.
* `Schedule!FairSpec`: a transaction goes on when the rows it waits for are free
  (SF on `Work`: PostgreSQL serves the lock queue of a row in order, so who keeps
  finding it free gets it), and deadlocks are detected (WF on `BreakDeadlock`).
* Nothing else assumes fairness: customers need not do anything.

## What the code does not guarantee

* **Double bookings.** The conflict query and the insert of createBooking are
  apart (`booking.service.ts:191`, `:218`): run `double_booking`. createHold does
  not prevent them: it looks at no other hold, at no booking, and not at the
  buffer of the service. A hold is converted by id (`booking.service.ts:236`), so
  one hold can make two bookings.
* **Stale status changes.** confirm, cancel and complete write by id after a read
  and never compare the version (`booking.service.ts:285`): a cancelled booking
  can be confirmed again, and a log row may begin with a status that was not the
  last one. The webhook writes the status alone, without log row and version, and
  to a booking in any status (`payment.service.ts:208`).
* **A paid booking may stay PENDING**, in two cases. If the process dies at
  `payment-webhook.controller.ts:95`, after the payment was stored, the repeated
  notification is skipped as already processed. And a payment that was stored as
  FAILED or EXPIRED is processed as well: when the customer then pays the same
  order, after a denied card, that notice is answered `already_processed` at `:62`,
  and neither payment nor booking ever learn of the money, unless createPayment had
  set the payment back to PENDING before. `PaidIsPursued` and `PaidIsConfirmed`
  name both (`dropped`) and show that there is no third.
* **The mock believes every call.** `payment.module.ts:15` wires
  `MockPaymentGateway`: it finds every signature valid
  (`mock-payment.gateway.ts:28`) and takes a missing `transaction_status` for
  `settlement` (`:38`). Behind it a call without a status makes a payment SUCCESS
  and its booking CONFIRMED, so `CompletedOnlyIfPaid` is stated and proved for
  Midtrans, and `StatusWasNotified` is what is left behind the mock. A booking gets a
  new order with each call of createPayment there, and a notice about an earlier
  order finds no payment any more (404).
* **Payments are overwritten.** `payment.service.ts:80` and `:169` write over any
  status; two copies of a notification pass the check together and announce the
  payment twice. A refund after SUCCESS is skipped
  (`payment-webhook.controller.ts:62`). retryPayment asks for
  `metadata.gatewayResponse.transactionStatus` (`payment.service.ts:244`), which
  nothing stores, so it always refuses.
* **Taken slots are offered.** getAvailability reads bookings before holds
  (`provider.service.ts:353`, `:366`): a hold converted in between is in neither,
  and `AnswerRespectsSettled` speaks of bookings and holds that did not change.
  It looks bookings up by their start within the day (`:357`) and misses those
  that began before midnight. It leaves out CANCELLED bookings only, while
  createBooking leaves out NO_SHOW as well.
* **Days off are offered.** One-time breaks have no times of day, and
  `slot-calculator.util.ts:119` passes over breaks without times.
* **Schedules mix.** Two updates of a week at once may leave days of both, or one
  of them fails. A schedule over midnight is accepted and yields no slot.
* **No default, or two.** The default policy is handed on by two statements
  (`tenant.service.ts:236`, `:285`).
* **Amount or percentage.** lateCancelCharge is charged as an amount
  (`booking.service.ts:341`), which is what `FeeIsPolicy` says and what the tests
  of the repository expect. `create-cancellation-policy.dto.ts:24` describes it as
  `default 50 (persentase)`, and `CASE-STUDY.md` speaks of a charge of 50%: for a
  booking of 200 the code charges 50, and they 100.
* **Categories.** A name may be contained in another after a race, or because the
  later one contains the earlier: the lookup asks for the other direction only.
  updateCategory looks nothing up for the empty name (`tenant.service.ts:89`), which
  `UpdateCategoryDto` admits, and writes it (`:105`); every name contains it.
  updateCategory finds the very category it renames when the new name is part of
  the old one, and refuses.
* **Founders.** A setup that fails half way leaves a tenant without
  administrator; two setups of a user leave one as well.

## What is proved

TLAPS checks the proofs for **every** value of the constants that satisfies the
named assumptions of the modules (`ConstantsAssumption`, `RowAssumption`,
`PaymentAssumption`, `InputAssumption`, `SessionAssumption`, `CatalogAssumption`,
`ScheduleAssumption`, `PolicyAssumption`, `AvailabilityAssumption`): any tenants,
users, providers, handlers, orders and times. The assumptions type the constants
and keep the markers of missing rows apart from rows; two ask for a finite set of
requests, because the proofs count them. Every invariant, every action property
and both refinements of the passing runs are theorems.

Some theorems state what no run checks, because it follows from what the runs
check or bears on every value of a constant: `ReopenedOnlyByStaleRead`,
`UndisturbedIsExact`, `RoundsUseUp`, `SlotsFitDay`, `UpdatesAdvance`,
`FoundsOnce`, the type invariants of `Booking`, `Session`, `SlotCalculator`,
`Availability` and `CancellationPolicy`, and what the abstract specifications
guarantee.

**`BookingProofs`**: `TypeCorrect`, `LogsMirror`, `HoldsBackBookings`,
`VersionsDetectStale`, `OverlapsAreRaces`, `ReopenedByStaleRead`, all from one
inductive invariant

    IInv == TypeOK /\ HandlersSound /\ HoldsSound /\ LogMirrorsBooking
            /\ BookingBackedByHold /\ BookingsCleared

The properties are not inductive by themselves. `HandlersSound` says what a
handler remembers is still of use: the hold it read has not changed except for
isConverted (or is gone, if nothing converted it), every booking its conflict
query saw is either no conflict or was released at some time, and the status it
read is the one the log has for the version it read. `HoldsSound` says a
hold stays within one tenant and its service is not deleted. `BookingsCleared` is
`OverlapOnlyByRace` over all bookings a conflict query saw, live or not. One
lemma per action, `HandlerMoves` for those that touch `req` alone.

Under `SerialisedSpec` the stronger `SInv` adds `HandlersFresh`: what a handler
has checked is *still* true when it writes, because nobody else may write in
between. From it `SerialisedNeverDouble`, `SerialisedAudits` and
`SerialisedRefines`: InsertBooking is a `Reserve` of the timetable
(`ReserveSimulated`), a status change a `Move` (`MoveSimulated`), anything else a
stutter. `SerialisedConvertsOnce` adds `HoldsUnused`: another handler with the same
hold would work for the same provider.

`RacesAlone` is the refinement of the handlers **as they are**: a step that changes
the bookings is a `Reserve` or a `Move` of the timetable, unless it is one of the
two races `StaleWrite` and `InsertOver`. For a status change this is
`SnapshotsTellStatus` (a current version means a current status) with
`StatusChecked` (the status read allowed the change); for an insertion, that
whatever the conflict query saw and let pass had been released (`HandlersSound`).

Beside the webhook, `WInv` keeps of `IInv` what the webhook leaves, for
`WebhookLeavesConfirmed` and `WebhookOverlapsAreRaces`. `WebhookRacesAlone` needs
`VersionsKnown` in addition: as long as the version a handler has read is current,
the status is the one it read or the CONFIRMED of a webhook, and from there every
change the handler may be about to make is in the status flow again. So a handler
that missed nothing but a webhook does no harm.

**`PaymentProofs`**: `PaymentTypes` and `StatusesWereNotified`, for both gateways,
any moves of a transaction and any calls of the webhook, and `CompletedArePaid`,
for Midtrans, from

    IInv == PaymentsOK /\ OwnOrders /\ MovesNotified /\ NoticesSay /\ JobsSound
            /\ CompletionsTold /\ StatusWasNotified

`OwnOrders` ties a payment to orders of its own booking, so that a webhook can
never pay for another one; `MovesNotified` makes the re-query of Midtrans as good
as a notification; `JobsSound` says that every status a webhook handler is about to
write is one a notification stood for. `NoticesSay` is what sets Midtrans apart: its
notices have a status, so being told of money is the same as its being taken
(`ToldIsPaid`).

`AnsweredArePursued` (`PaidIsPursued`) holds under `Orderly`: the gateway is
Midtrans, where every booking has one order, and a transaction that was captured or
settled can only go back. One that was denied, cancelled or expired may still be
paid, and handlers may die at any await. The constants of `payment_confirms`
satisfy it; those of `payment` do not, which is why it is a hypothesis of the
theorem and no `ASSUME` of the module. The invariant `PInv` says that the payment of
an issued order is stored (`OrdersKnown`), that money once taken stays taken until
it goes back (`TakenStays`), so that the re-query a handler makes cannot contradict
the notification it was sent (`HandlersPursue`), and that a payment stored as SUCCESS
has a handler on its way to the booking, a booking already decided, or a handler
that died on the way (`SuccessPursued`). `ReturnsAreTold` and
`PaymentKeepsTimetable` relate `Payment` to `Timetable`: the webhook is its
`Return`, allowed for a booking it was told is paid for, behind Midtrans one that
is. `TimetableKeepsApart` and
`TimetableEndsForGood` say what the timetable is good for, and with it every
module that refines it.

**`SlotCalculatorProofs`**: `LoopTypes`, `OffersAreServable`, `LoopIsCorrect`,
for any schedule, breaks, bookings, holds, duration and buffer (assumption
`InputAssumption`: the arguments are those the DTOs admit, durations above zero).
The invariant `IInv == TypeOK /\ OnGrid /\ FoundFree` says that the loop stands at
a multiple of duration plus buffer from the opening and that the slots found are
the free candidates behind it. The lemmas `GridStep` and `GridNext` supply the
arithmetic of remainders, `UnblockedIsVacant` and `VacantIsUnblocked` lead from
the overlap test of the code to single minutes. `LoopUsesUp` is the variant behind
`Terminates`, which needs fairness and stays with TLC: every round leaves less of
the day. `AnswerFits` bounds the answer by the length of the schedule.

**`SessionProofs`**: `SessionTypes`, `WorkingTokenIsLatest`, `FoundersJoin`,
`ContextsAreCurrent`, `TokensBounded`, `TenantsAreFinal`, `OneTenantEach`, from

    IInv == TypeOK /\ RequestsSound /\ MeetingsRecorded /\ RowsKnown
            /\ StoredIsLatest /\ FounderJoins

`RequestsSound` says what a request knows: its user has registered, no token of
the user is stored when it is about to store one unless sign-ins crossed, a user
in the middle of a setup has no tenant and the tenant a request was let into is
still the user's, unless setups met or stopped.
`MeetingsRecorded` says that two requests of a user in flight together are on
record in `crossed` or `torn`. The count of tokens is an invariant of its own
(`Counted`): a deletion empties the table for the user, and an insert replaces
the request that makes it by its token.

**`ScheduleProofs`**: `ScheduleTypes`, `WeeksAreWhole`, `AloneUpdatesReplace`,
`CollisionsAreRaces`. The invariant says of each transaction that what it is to
delete is stored and made of whole bodies, and is everything stored unless another
has committed since (`SeenSound`), and of any two that they never hold the same
weekday (`Apart`).
`ScheduleKeepsWeeks` is the refinement of `Week`: a commit is a `Replace` of the
bodies it had deleted (`CommitReplaces`), everything before it, roll-backs and
deadlocks included, a stutter; `WeekGoesWhole` says what the week then guarantees,
by itself. `UpdatesComeCloser` is the variant behind `UpdateEnds`: no step of an
update, nor the commit of another, sends it back.

**`CatalogProofs`**: `CatalogTypes`, `CategoriesStayInTenant`, `StraysJoinedLate`,
`ContainedAreRaces` (names that contain one another, the empty one excepted),
`WritesStayApart`. What a handler looked up stays true long
enough: a category and a service never change tenant, so what remains to check
at the write is that the category exists, which the foreign key does
(`RequestsSound`, `NamesSound`, `ServicesSound`). `TenantsApart` follows as an
action property.

**`CancellationPolicyProofs`**: `PolicyTypes`, `DefaultIsOne`, `FeesArePolicy`.
The invariant is the hand-over: while nothing is torn at most one request is
between unsetting and setting, no policy is the default while there is one, and
otherwise there is exactly one once promised (`HandOver`); a request about to set
a default was to set one (`UnsetToGive`).

**`AvailabilityProofs`**: `AvailabilityTypes`, `SettledIsRespected`,
`WithheldWithReason`. The invariant ties what the request has read to the history
(`GatheredSound`: all of it was there at some moment; `GatheredWhole`: what was
there all the time is in it), and the answer to what was read (`AnswerSound`).
`SettledIsRespected` covers the hours the schedule had when it was read, bookings and
holds that begin that day and stay as they are during the request, and recurring
breaks of the weekday that were there throughout. It does not cover days off,
bookings begun before midnight and holds converted meanwhile, which the code offers.
`UndisturbedIsAnswered` follows: five reads of tables at rest are one, and the
answer is then exact.

Model-checked only: liveness under fairness (`PaidIsConfirmed`, `Terminates`,
`UpdateEnds`), which is beyond the prover, as is ENABLED; of the two loops the
variants are proved. That the assumptions a theorem has about moves and constants
can be met is what the runs show, under which TLC evaluates them.

## What is not modelled

* Signatures, passwords and hashes (taken to be right); amounts, currencies, dates
  and texts no decision depends on; time zones (the calculator is right only where
  the server runs in UTC); validation, filters, interceptors, health checks and
  configuration (no state); lists and pagination (they change nothing).
* retryPayment: its guard is false for every payment the code stores.
* The update of a profile and of a tenant: descriptive columns, and an `isAvailable`
  of profiles that nothing reads.
* The routes of tenants, policies and payments: their handlers are modelled from
  the service on, so any user stands for one their guards admit.
* IN_PROGRESS and NO_SHOW are written by no code; the guards that mention them are
  kept.
* Tables that no code uses (`notifications`, `idempotency_keys`), seeds and tests.

## Plan

Bookings, payments and their composition, sessions, slots, availability,
schedules, the catalog and policies are modelled, checked and proved, in this
order. What may follow as the code grows:

1. `retryPayment`, once the metadata it reads is stored.
2. A comparison of versions in the status changes and a constraint against
   overlaps in the database: `SerialisedSpec` can then give way to `Spec` in
   `ImplementsTimetable`.
3. Writers of IN_PROGRESS and NO_SHOW, notifications and idempotency keys.
