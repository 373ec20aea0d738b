------------------------------ MODULE Payment ------------------------------
(***************************************************************************)
(* PaymentService and MidtransWebhookController, the payment gateway they  *)
(* talk to, and the bookings they confirm.                                 *)
(*                                                                         *)
(* Bookings are the timetable that module Booking implements: its handlers *)
(* are one indivisible step each here, and what the payment code writes to *)
(* the bookings table, it writes to calendar.  Jobs are the handlers of    *)
(* the payment code in flight; a step runs from one await to the next.     *)
(***************************************************************************)
EXTENDS Integers, FiniteSets

CONSTANTS
    BookingIds, Providers, Slots, Free,  \* as in Timetable
    Jobs,       \* payment handlers that may be in flight together
    OrderIds,   \* names of transactions at the gateway
    OrdersFor,  \* the order ids the gateway may issue for a booking:
                \* the booking's own id (Midtrans), or fresh ones (mock)
    Requery,    \* the adapter: Midtrans, which verifies signatures and asks
                \* for the current status, or the mock, which does neither
    Moves,      \* Midtrans: the status a transaction may take next
    Posts,      \* mock: the calls of the webhook that are made
    CanAbort,   \* may a handler stop half way
    NoPayment,  \* the place of a payment not inserted yet
    NoOrder     \* a payment without externalPaymentId

VARIABLES
    calendar,    \* the bookings
    announced,   \* bookings whose booking.created event is on its way
    payments,    \* payments[b]: the row with bookingId b, or NoPayment
    txn,         \* txn[o]: status of transaction o at the gateway
    issued,      \* orders whose payment page customers can reach
    sent,        \* every notification there was: of the gateway or, behind
                 \* the mock, of whoever called the webhook
    acked,       \* those a webhook call has answered with 200
    completions, \* completions[b]: payment.completed events (2 is "several")
    job,         \* job[w]: where handler w is and what it has read
    dropped      \* auxiliary: orders of which a notice of money taken was
                 \* skipped, the payment having failed or expired before, or
                 \* of which a handler that stored SUCCESS stopped there

vars == <<calendar, announced, payments, txn, issued, sent, acked,
          completions, job, dropped>>

T == INSTANCE Timetable

PaymentStatus == {"PENDING", "SUCCESS", "FAILED", "EXPIRED", "REFUNDED"}

\* "challenge" is a capture under fraud review; partial_refund and
\* authorization are mapped like refund and pending.
GatewayStatus == {"pending", "challenge", "capture", "settlement", "deny",
                  "cancel", "expire", "refund"}

Taken == {"capture", "settlement"}

\* A call may leave its transaction_status out.
Notice     == [order: OrderIds, status: GatewayStatus \cup {"absent"}]
PaymentRow == [status: PaymentStatus, order: OrderIds \cup {NoOrder}]

Idle == [pc |-> "idle"]

PayJob ==
    [pc: {"readPayment"}, booking: BookingIds, auto: BOOLEAN]
    \cup [pc: {"savePayment"}, booking: BookingIds, exists: BOOLEAN]
    \cup [pc: {"callGateway"}, booking: BookingIds]
    \cup [pc: {"saveOrder"}, booking: BookingIds, order: OrderIds]
HookJob ==
    [pc: {"requery", "findPaid"}, notice: Notice]
    \cup [pc: {"update"}, notice: Notice, result: PaymentStatus]
    \cup [pc: {"confirmBooking"}, notice: Notice, booking: BookingIds]

Job == {Idle} \cup PayJob \cup HookJob

ASSUME PaymentAssumption ==
    /\ OrdersFor \in [BookingIds -> SUBSET OrderIds]
    /\ \A b, c \in BookingIds : b # c => OrdersFor[b] \cap OrdersFor[c] = {}
    /\ Requery \in BOOLEAN
    /\ CanAbort \in BOOLEAN
    /\ Moves \in [GatewayStatus -> SUBSET GatewayStatus]
    /\ Posts \subseteq Notice
    /\ NoPayment \notin PaymentRow
    /\ NoOrder \notin OrderIds
    /\ Free \notin T!Entry

PaymentsOK ==
    /\ announced \subseteq BookingIds
    /\ payments \in [BookingIds -> PaymentRow \cup {NoPayment}]
    /\ txn \in [OrderIds -> GatewayStatus \cup {"none"}]
    /\ issued \subseteq OrderIds
    /\ sent \subseteq Notice
    /\ acked \subseteq sent
    /\ completions \in [BookingIds -> 0..2]
    /\ job \in [Jobs -> Job]
    /\ dropped \subseteq OrderIds

TypeOK == T!TypeOK /\ PaymentsOK

Init ==
    /\ T!Init
    /\ announced = {}
    /\ payments = [b \in BookingIds |-> NoPayment]
    /\ txn = [o \in OrderIds |-> "none"]
    /\ issued = {}
    /\ sent = {}
    /\ acked = {}
    /\ completions = [b \in BookingIds |-> 0]
    /\ job = [w \in Jobs |-> Idle]
    /\ dropped = {}

Goto(w, next) == job' = [job EXCEPT ![w] = next]

-----------------------------------------------------------------------------
(* BookingService, as the timetable sees it.                               *)

\* createBooking commits and emits booking.created.
CreateBooking ==
    /\ \E b \in BookingIds, p \in Providers, slot \in Slots :
          /\ T!Reserve(b, p, slot)
          /\ announced' = announced \cup {b}
    /\ UNCHANGED <<payments, txn, issued, sent, acked, completions, job,
                   dropped>>

\* The process dies between the commit and the emit.
LoseEvent ==
    /\ CanAbort
    /\ \E b \in announced : announced' = announced \ {b}
    /\ UNCHANGED <<calendar, payments, txn, issued, sent, acked, completions,
                   job, dropped>>

\* confirmBooking, cancelBooking, completeBooking.
ChangeBooking ==
    /\ \E b \in BookingIds : T!Confirm(b) \/ T!Cancel(b) \/ T!Complete(b)
    /\ UNCHANGED <<announced, payments, txn, issued, sent, acked, completions,
                   job, dropped>>

-----------------------------------------------------------------------------
(* PaymentService.createPayment, and handleBookingCreated (auto).          *)

StartPayment(w, b) ==
    /\ job[w] = Idle
    /\ calendar[b] # Free
    /\ calendar[b].status = "PENDING"
    /\ Goto(w, [pc |-> "readPayment", booking |-> b, auto |-> FALSE])
    /\ UNCHANGED <<calendar, announced, payments, txn, issued, sent, acked,
                   completions, dropped>>

HandleBookingCreated(w, b) ==
    /\ job[w] = Idle
    /\ b \in announced
    /\ announced' = announced \ {b}
    /\ Goto(w, [pc |-> "readPayment", booking |-> b, auto |-> TRUE])
    /\ UNCHANGED <<calendar, payments, txn, issued, sent, acked, completions,
                   dropped>>

\* The event handler leaves an existing payment alone; createPayment refuses a
\* successful one and takes over any other.
Payable(row, auto) ==
    row = NoPayment \/ (~auto /\ row.status # "SUCCESS")

ReadPayment(w) ==
    LET q == job[w]  row == payments[q.booking] IN
    /\ q.pc = "readPayment"
    /\ Goto(w, IF Payable(row, q.auto)
               THEN [pc |-> "savePayment", booking |-> q.booking,
                     exists |-> row # NoPayment]
               ELSE Idle)
    /\ UNCHANGED <<calendar, announced, payments, txn, issued, sent, acked,
                   completions, dropped>>

\* The row is written by what was read, not by what is there: an update sets
\* PENDING over any status, an insert fails on the unique bookingId.
SavePayment(w) ==
    LET b == job[w].booking IN
    /\ job[w].pc = "savePayment"
    /\ \/ /\ job[w].exists
          /\ payments' = [payments EXCEPT ![b].status = "PENDING"]
       \/ /\ ~job[w].exists
          /\ payments[b] = NoPayment
          /\ payments' = [payments EXCEPT
                            ![b] = [status |-> "PENDING", order |-> NoOrder]]
    /\ Goto(w, [pc |-> "callGateway", booking |-> b])
    /\ UNCHANGED <<calendar, announced, txn, issued, sent, acked, completions,
                   dropped>>

CallGateway(w, o) ==
    LET b == job[w].booking IN
    /\ job[w].pc = "callGateway"
    /\ o \in OrdersFor[b]
    /\ txn' = [txn EXCEPT ![o] = IF @ = "none" THEN "pending" ELSE @]
    /\ Goto(w, [pc |-> "saveOrder", booking |-> b, order |-> o])
    /\ UNCHANGED <<calendar, announced, payments, issued, sent, acked,
                   completions, dropped>>

SaveOrder(w) ==
    LET q == job[w] IN
    /\ q.pc = "saveOrder"
    /\ payments' = [payments EXCEPT ![q.booking].order = q.order]
    /\ issued' = issued \cup {q.order}
    /\ Goto(w, Idle)
    /\ UNCHANGED <<calendar, announced, txn, sent, acked, completions,
                   dropped>>

-----------------------------------------------------------------------------
(* The gateway.                                                            *)

\* A transaction moves, and the gateway notifies the shop.  Behind the mock
\* there is no gateway.
GatewayMove(o, s) ==
    /\ Requery
    /\ o \in issued
    /\ s \in Moves[txn[o]]
    /\ txn' = [txn EXCEPT ![o] = s]
    /\ sent' = sent \cup {[order |-> o, status |-> s]}
    /\ UNCHANGED <<calendar, announced, payments, issued, acked, completions,
                   job, dropped>>

-----------------------------------------------------------------------------
(* MidtransWebhookController.handleWebhook.                                *)

\* Mutants: a capture under fraud review counts as paid; a transaction that
\* ended without payment gets the status of a booking.
MapStatusChallengePaid(s) ==
    CASE s \in {"capture", "challenge", "settlement"} -> "SUCCESS"
      [] s = "deny" -> "FAILED"
      [] s \in {"cancel", "expire"} -> "EXPIRED"
      [] s = "refund" -> "REFUNDED"
      [] OTHER -> "PENDING"
MapStatusCancelled(s) ==
    CASE s \in {"capture", "settlement"} -> "SUCCESS"
      [] s = "deny" -> "FAILED"
      [] s \in {"cancel", "expire"} -> "CANCELLED"
      [] s = "refund" -> "REFUNDED"
      [] OTHER -> "PENDING"

\* mapMidtransStatusToPaymentStatus.
MapStatus(s) ==
    CASE s \in {"capture", "settlement"} -> "SUCCESS"
      [] s = "deny" -> "FAILED"
      [] s \in {"cancel", "expire"} -> "EXPIRED"
      [] s = "refund" -> "REFUNDED"
      [] OTHER -> "PENDING"

\* Mutant: a payment without externalPaymentId is found for every order.
PaidByOrderless(o) == {b \in BookingIds : /\ payments[b] # NoPayment
                                          /\ payments[b].order \in {o, NoOrder}}

\* findByExternalId: the booking whose payment has this order, if any.
PaidBy(o) == {b \in BookingIds : /\ payments[b] # NoPayment
                                 /\ payments[b].order = o}

\* Mutant: the idempotency check does not look at the status.
ProcessedIfKnown(o) == PaidBy(o) # {}

\* The idempotency check: a payment that is not PENDING any more is answered
\* with "already_processed".
Processed(o) == \E b \in PaidBy(o) : payments[b].status # "PENDING"

\* A payment that ended without money is not PENDING either.
Ended(o) == \E b \in PaidBy(o) : payments[b].status \in {"FAILED", "EXPIRED"}

\* Midtrans signs its notices: late, twice or before an older one, as may be.
\* The mock finds every signature valid, so whatever is posted arrives.
Arrives(n) == IF Requery THEN n \in sent ELSE n \in Posts

ReceiveWebhook(w, n) ==
    /\ job[w] = Idle
    /\ Arrives(n)
    /\ sent' = sent \cup {n}
    /\ \/ /\ Processed(n.order)
          /\ acked' = acked \cup {n}
          /\ dropped' = IF Ended(n.order) /\ n.status \in Taken
                        THEN dropped \cup {n.order} ELSE dropped
          /\ UNCHANGED job
       \/ /\ ~Processed(n.order)
          /\ Goto(w, [pc |-> "requery", notice |-> n])
          /\ UNCHANGED <<acked, dropped>>
    /\ UNCHANGED <<calendar, announced, payments, txn, issued, completions>>

\* What the mock takes a call to say: nothing is as good as settled.
Stands(s) == IF s = "absent" THEN "settlement" ELSE s

\* handleWebhookNotification of the adapter: Midtrans is asked what the status
\* of the transaction is by now, the mock repeats what the call says.
Answer(n) == IF Requery THEN txn[n.order] ELSE Stands(n.status)

\* ... and the mapping.
RequeryStatus(w) ==
    LET n == job[w].notice IN
    /\ job[w].pc = "requery"
    /\ Goto(w, [pc |-> "update", notice |-> n,
                result |-> MapStatus(Answer(n))])
    /\ UNCHANGED <<calendar, announced, payments, txn, issued, sent, acked,
                   completions, dropped>>

\* updatePaymentStatus: whatever the status is by now.  Without a payment of
\* that order the call is answered with 404, and the gateway will try again.
UpdatePaymentStatus(w) ==
    LET q == job[w]  o == q.notice.order IN
    /\ q.pc = "update"
    /\ payments' = [b \in BookingIds |->
                      IF b \in PaidBy(o)
                      THEN [payments[b] EXCEPT !.status = q.result]
                      ELSE payments[b]]
    /\ \/ /\ PaidBy(o) # {}
          /\ q.result = "SUCCESS"
          /\ Goto(w, [pc |-> "findPaid", notice |-> q.notice])
          /\ UNCHANGED acked
       \/ /\ PaidBy(o) # {}
          /\ q.result # "SUCCESS"
          /\ Goto(w, Idle)
          /\ acked' = acked \cup {q.notice}
       \/ /\ PaidBy(o) = {}
          /\ Goto(w, Idle)
          /\ UNCHANGED acked
    /\ UNCHANGED <<calendar, announced, txn, issued, sent, completions,
                   dropped>>

\* confirmBookingAfterPayment: the payment again, by its order, ...
FindPaid(w) ==
    LET n == job[w].notice IN
    /\ job[w].pc = "findPaid"
    /\ \/ \E b \in PaidBy(n.order) :
             Goto(w, [pc |-> "confirmBooking", notice |-> n, booking |-> b])
       \/ PaidBy(n.order) = {} /\ Goto(w, Idle)
    /\ UNCHANGED <<calendar, announced, payments, txn, issued, sent, acked,
                   completions, dropped>>

\* ... then the booking, whatever its status, and payment.completed.
ConfirmBooking(w) ==
    LET q == job[w] IN
    /\ q.pc = "confirmBooking"
    /\ calendar' = [calendar EXCEPT ![q.booking].status = "CONFIRMED"]
    /\ completions' = [completions EXCEPT ![q.booking] =
                         IF @ < 2 THEN @ + 1 ELSE @]
    /\ acked' = acked \cup {q.notice}
    /\ Goto(w, Idle)
    /\ UNCHANGED <<announced, payments, txn, issued, sent, dropped>>

-----------------------------------------------------------------------------

\* A handler stops short: an error of the database (SavePayment: the unique
\* bookingId) or of the gateway, or the process dies.
Abort(w) ==
    /\ \/ CanAbort /\ job[w] # Idle
       \/ job[w].pc = "savePayment" /\ ~job[w].exists
             /\ payments[job[w].booking] # NoPayment
    /\ Goto(w, Idle)
    /\ dropped' = IF job[w].pc \in {"findPaid", "confirmBooking"}
                  THEN dropped \cup {job[w].notice.order} ELSE dropped
    /\ UNCHANGED <<calendar, announced, payments, txn, issued, sent, acked,
                   completions>>

Continue(w) ==
    \/ ReadPayment(w)
    \/ SavePayment(w)
    \/ \E o \in OrderIds : CallGateway(w, o)
    \/ SaveOrder(w)
    \/ RequeryStatus(w)
    \/ UpdatePaymentStatus(w)
    \/ FindPaid(w)
    \/ ConfirmBooking(w)
    \/ Abort(w)

Deliver(n) == \E w \in Jobs : ReceiveWebhook(w, n)

Next ==
    \/ CreateBooking
    \/ LoseEvent
    \/ ChangeBooking
    \/ \E w \in Jobs, b \in BookingIds : \/ StartPayment(w, b)
                                         \/ HandleBookingCreated(w, b)
    \/ \E w \in Jobs : Continue(w)
    \/ \E n \in Notice : Deliver(n)
    \/ \E o \in OrderIds, s \in GatewayStatus : GatewayMove(o, s)

Spec == Init /\ [][Next]_vars

(***************************************************************************)
(* A handler that has begun goes on or stops, and the gateway calls again  *)
(* and again until it has an answer of 200 to each notice of an order; an  *)
(* error may stop a handler before it has stored the status, but not each  *)
(* time it is called.  Jobs bounds the handlers the model keeps in flight, *)
(* not those a server accepts, so a call may have to wait for a free job:  *)
(* hence strong fairness.                                                  *)
(***************************************************************************)
FairSpec ==
    /\ Spec
    /\ \A w \in Jobs : WF_vars(Continue(w))
    /\ SF_vars(\E w \in Jobs : RequeryStatus(w))
    /\ SF_vars(\E w \in Jobs : UpdatePaymentStatus(w))
    /\ \A o \in OrderIds :
          SF_vars(\E n \in sent \ acked : n.order = o /\ Deliver(n))

-----------------------------------------------------------------------------
(* What holds of the code as it is.                                        *)

\* The notifications about the orders of a booking.
NoticesFor(b) == {n \in sent : n.order \in OrdersFor[b]}

\* Behind Midtrans: the gateway has taken money for the booking.
Paid(b) == \E n \in NoticesFor(b) : n.status \in Taken

\* Behind the mock: some call has said so, or has said nothing.
Told(b) == \E n \in NoticesFor(b) : Stands(n.status) \in Taken

\* A payment never says more than the webhook was told: any status but PENDING
\* is one that a notification about an order of this very booking stands for,
\* however calls are repeated, delayed and reordered, and however often the
\* payment is begun again.  Behind Midtrans notifications are the gateway's;
\* behind the mock the webhook believes every call, and one without a status
\* stands for a settlement.
StatusWasNotified ==
    \A b \in BookingIds :
        payments[b] # NoPayment /\ payments[b].status # "PENDING"
        => \E n \in NoticesFor(b) : MapStatus(Stands(n.status)) = payments[b].status

\* Behind Midtrans no booking is reported paid, and none is about to be
\* confirmed by a webhook, unless the gateway has captured or settled an order
\* of it.  Behind the mock this is false: see Told.
CompletedOnlyIfPaid ==
    /\ \A b \in BookingIds : completions[b] > 0 => Paid(b)
    /\ \A w \in Jobs : job[w].pc = "confirmBooking" => Paid(job[w].booking)

Refunded(b) == \E n \in NoticesFor(b) : n.status = "refund"

Decided(b) == calendar[b] # Free /\ calendar[b].status # "PENDING"

\* To the bookings the payment code is a second writer that keeps to the
\* timetable but for one thing: it confirms, in any status, a booking it was
\* told is paid for.  BookingWebhook lets it do that to any booking.
ReturnsOnlyTold ==
    T!Init /\ [][\/ T!Next
                 \/ \E b \in BookingIds :
                       Told(b) /\ (Requery => Paid(b)) /\ T!Return(b)]_calendar

\* A webhook handler has stored the payment of the booking as paid, and is on
\* its way to the booking.
Pursued(b) ==
    \E w \in Jobs : /\ job[w].pc \in {"findPaid", "confirmBooking"}
                    /\ job[w].notice.order \in OrdersFor[b]

Dropped(b) == dropped \cap OrdersFor[b] # {}

\* The gateway stops repeating a notification once it is answered, so nobody
\* but the handlers in flight can finish the work.  A notice of money taken is
\* answered only when its booking is confirmed or ended, when the money went
\* back, when some handler is still about to confirm it, or in the two cases
\* the code gives it up: the notice found the payment FAILED or EXPIRED, as
\* when a customer pays after a card was denied, or a handler stopped between
\* the payment and the booking.  A payment that failed and was begun again
\* before the money came is not among them.
PaidIsPursued ==
    \A b \in BookingIds :
        \A n \in NoticesFor(b) \cap acked :
            n.status \in Taken
            => Pursued(b) \/ Decided(b) \/ Refunded(b) \/ Dropped(b)

\* What customers pay for becomes theirs but in those two cases: once the
\* gateway says that an order is settled, its booking is confirmed by and by,
\* or somebody has ended it, or the money went back.
PaidIsConfirmed ==
    \A b \in BookingIds :
        Paid(b) ~> (Decided(b) \/ Refunded(b) \/ Dropped(b))
=============================================================================
