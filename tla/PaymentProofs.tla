--------------------------- MODULE PaymentProofs ---------------------------
(***************************************************************************)
(* Proofs about Payment, for any bookings, orders, gateway (Midtrans, and  *)
(* whatever moves its transactions make, or the mock, and whatever calls   *)
(* its webhook gets) and handlers in flight.                               *)
(***************************************************************************)
EXTENDS Payment, TLAPS

-----------------------------------------------------------------------------
(* The inductive invariant.                                                *)

\* A payment has an order of its own booking, or none yet.
OwnOrders ==
    \A b \in BookingIds :
        payments[b] # NoPayment => payments[b].order \in OrdersFor[b] \cup {NoOrder}

\* Wherever a transaction has moved to, the gateway has said so.
MovesNotified ==
    \A o \in OrderIds :
        txn[o] \in {"none", "pending"} \/ [order |-> o, status |-> txn[o]] \in sent

\* Midtrans always says a status.
NoticesSay == Requery => \A n \in sent : n.status \in GatewayStatus

\* A status heard of for order o.
Heard(o, result) ==
    \E n \in sent : n.order = o /\ MapStatus(Stands(n.status)) = result

\* A handler about to write to an existing payment finds one.
PayerSound(q) ==
    /\ q.pc = "savePayment" /\ q.exists => payments[q.booking] # NoPayment
    /\ q.pc \in {"callGateway", "saveOrder"} => payments[q.booking] # NoPayment
    /\ q.pc = "saveOrder" => q.order \in OrdersFor[q.booking]

\* What a webhook handler is about to write has been heard of.
HookSound(q) ==
    /\ q.pc \in {"requery", "update", "findPaid", "confirmBooking"} =>
          q.notice \in sent
    /\ q.pc = "update" /\ q.result # "PENDING" => Heard(q.notice.order, q.result)
    /\ q.pc = "findPaid" => Heard(q.notice.order, "SUCCESS")
    /\ q.pc = "confirmBooking" => Told(q.booking)

JobSound(q) == PayerSound(q) /\ HookSound(q)

JobsSound == \A w \in Jobs : JobSound(job[w])

CompletionsTold == \A b \in BookingIds : completions[b] > 0 => Told(b)

IInv ==
    /\ PaymentsOK
    /\ OwnOrders
    /\ MovesNotified
    /\ NoticesSay
    /\ JobsSound
    /\ CompletionsTold
    /\ StatusWasNotified

-----------------------------------------------------------------------------

LEMMA JobKinds ==
    ASSUME NEW q \in Job
    PROVE  /\ q.pc \in {"readPayment", "savePayment", "callGateway", "saveOrder"}
              => q \in PayJob
           /\ q.pc \in {"requery", "update", "findPaid", "confirmBooking"}
              => q \in HookJob
BY DEF Job, PayJob, HookJob, Idle

\* The mapping of statuses yields a payment status, SUCCESS for money taken
\* only, and PENDING for a transaction that has not moved.
LEMMA MapStatusFacts ==
    ASSUME NEW s \in GatewayStatus \cup {"none"}
    PROVE  /\ MapStatus(s) \in PaymentStatus
           /\ MapStatus(s) = "SUCCESS" => s \in {"capture", "settlement"}
           /\ s \in {"none", "pending"} => MapStatus(s) = "PENDING"
BY DEF GatewayStatus, PaymentStatus, MapStatus

\* What a notice stands for is a status of a transaction, its own if it has
\* one.
LEMMA StandsFacts ==
    ASSUME NEW n \in Notice
    PROVE  /\ Stands(n.status) \in GatewayStatus
           /\ n.status \in GatewayStatus => Stands(n.status) = n.status
BY DEF Notice, Stands, GatewayStatus

\* Behind Midtrans what the shop is told is what the gateway took.
LEMMA ToldIsPaid ==
    ASSUME IInv, Requery, NEW b \in BookingIds, Told(b)
    PROVE  Paid(b)
BY StandsFacts DEF IInv, PaymentsOK, NoticesSay, Told, Paid, NoticesFor

\* An order whose status was heard of belongs to the booking that has it.
LEMMA PaidByOwner ==
    ASSUME PaymentsOK, OwnOrders, NEW o \in OrderIds, NEW b \in PaidBy(o)
    PROVE  o \in OrdersFor[b]
BY PaymentAssumption DEF PaymentsOK, OwnOrders, PaidBy

LEMMA TypeInit == Init => PaymentsOK
BY PaymentAssumption DEF Init, PaymentsOK, Job

LEMMA IdleJob == Idle \in Job /\ JobSound(Idle)
BY DEF Job, Idle, JobSound, PayerSound, HookSound

LEMMA InvInit == Init => IInv
<1> SUFFICES ASSUME Init
             PROVE  IInv
  OBVIOUS
<1>1. PaymentsOK
  BY TypeInit
<1>2. JobsSound
  BY IdleJob DEF Init, JobsSound
<1> QED
  BY <1>1, <1>2 DEF Init, IInv, OwnOrders, MovesNotified, NoticesSay,
                    CompletionsTold, StatusWasNotified

\* A handler stays sound while payments stay and notifications add up, so a
\* step that moves one handler to a sound state keeps all of them sound.
LEMMA JobsKept ==
    ASSUME IInv, NEW w \in Jobs, NEW q \in Job, JobSound(q)',
           Goto(w, q) \/ UNCHANGED job,
           sent \subseteq sent',
           \A b \in BookingIds :
              payments[b] # NoPayment => payments'[b] # NoPayment
    PROVE  JobsSound'
<1> SUFFICES ASSUME NEW v \in Jobs
             PROVE  JobSound(job[v])'
  BY DEF JobsSound
<1>1. job'[v] = job[v] \/ job'[v] = q
  BY DEF Goto, IInv, PaymentsOK
<1>2. CASE job'[v] = q
  BY <1>2 DEF JobSound, PayerSound, HookSound
<1>3. CASE job'[v] = job[v]
  <2>1. JobSound(job[v]) /\ job[v] \in Job
    BY DEF IInv, JobsSound, PaymentsOK
  <2>2. HookSound(job[v])'
    BY <1>3, <2>1 DEF JobSound, HookSound, Heard, Told, NoticesFor
  <2>3. PayerSound(job[v])'
    BY <1>3, <2>1, JobKinds DEF JobSound, PayerSound, PayJob
  <2> QED
    BY <2>2, <2>3 DEF JobSound
<1> QED
  BY <1>1, <1>2, <1>3

\* What was notified stays notified.
LEMMA RowsKept ==
    ASSUME IInv, sent \subseteq sent', UNCHANGED <<payments, completions>>
    PROVE  OwnOrders' /\ CompletionsTold' /\ StatusWasNotified'
BY DEF IInv, OwnOrders, CompletionsTold, StatusWasNotified, Told, NoticesFor

-----------------------------------------------------------------------------
(* One lemma per action, or per group that writes the same tables.         *)

\* Steps of the booking side write nothing the invariant speaks of but
\* announced.
LEMMA InvBookings ==
    ASSUME IInv, CreateBooking \/ LoseEvent \/ ChangeBooking
    PROVE  IInv'
<1>1. /\ announced' \subseteq BookingIds
      /\ UNCHANGED <<payments, txn, issued, sent, acked, completions, job,
                     dropped>>
  BY DEF IInv, PaymentsOK, CreateBooking, LoseEvent, ChangeBooking
<1> QED
  BY <1>1 DEF IInv, PaymentsOK, OwnOrders, MovesNotified, NoticesSay, JobsSound,
              JobSound, PayerSound, HookSound, Heard, Told, NoticesFor,
              CompletionsTold, StatusWasNotified

\* A step of which the invariant sees nothing but a handler that moves on, and
\* perhaps a webhook call received or answered or a transaction opened.
LEMMA InvJobMoves ==
    ASSUME IInv, NEW w \in Jobs, NEW q \in Job, JobSound(q)',
           Goto(w, q) \/ UNCHANGED job,
           UNCHANGED <<payments, issued, completions>>,
           announced' \subseteq BookingIds,
           sent \subseteq sent', sent' \subseteq Notice, NoticesSay',
           acked' \subseteq sent',
           dropped' \subseteq OrderIds,
           txn' \in [OrderIds -> GatewayStatus \cup {"none"}],
           \A o \in OrderIds : txn'[o] \in {txn[o], "pending"}
    PROVE  IInv'
<1>1. PaymentsOK'
  BY DEF IInv, PaymentsOK, Goto
<1>2. JobsSound'
  BY JobsKept
<1>3. MovesNotified'
  BY DEF IInv, MovesNotified
<1> QED
  BY <1>1, <1>2, <1>3, RowsKept DEF IInv

\* The same when no call is received.
LEMMA InvJobSteps ==
    ASSUME IInv, NEW w \in Jobs, NEW q \in Job, JobSound(q),
           Goto(w, q) \/ UNCHANGED job,
           UNCHANGED <<payments, issued, sent, completions>>,
           announced' \subseteq BookingIds,
           acked' \subseteq sent,
           dropped' \subseteq OrderIds,
           txn' \in [OrderIds -> GatewayStatus \cup {"none"}],
           \A o \in OrderIds : txn'[o] \in {txn[o], "pending"}
    PROVE  IInv'
<1>1. JobSound(q)'
  BY DEF JobSound, PayerSound, HookSound, Heard, Told, NoticesFor
<1>2. sent' = sent /\ sent \subseteq Notice /\ NoticesSay'
  BY DEF IInv, PaymentsOK, NoticesSay
<1> QED
  BY <1>1, <1>2, InvJobMoves

LEMMA InvStart ==
    ASSUME IInv, NEW w \in Jobs, NEW b \in BookingIds,
           StartPayment(w, b) \/ HandleBookingCreated(w, b)
    PROVE  IInv'
<1>1. PICK q \in [pc: {"readPayment"}, booking: BookingIds, auto: BOOLEAN] :
        Goto(w, q)
  BY DEF StartPayment, HandleBookingCreated
<1>2. q \in Job /\ JobSound(q)
  BY DEF Job, PayJob, JobSound, PayerSound, HookSound
<1>3. /\ announced' \subseteq BookingIds
      /\ UNCHANGED <<payments, txn, issued, sent, acked, completions, dropped>>
  BY DEF StartPayment, HandleBookingCreated, IInv, PaymentsOK
<1> QED
  BY <1>1, <1>2, <1>3, InvJobSteps DEF IInv, PaymentsOK

LEMMA InvReadPayment ==
    ASSUME IInv, NEW w \in Jobs, ReadPayment(w)
    PROVE  IInv'
<1> DEFINE q == [pc |-> "savePayment", booking |-> job[w].booking,
                 exists |-> payments[job[w].booking] # NoPayment]
<1>1. job[w] \in PayJob /\ job[w].pc = "readPayment"
  BY JobKinds DEF ReadPayment, IInv, PaymentsOK
<1>2. q \in Job /\ JobSound(q)
  BY <1>1 DEF Job, PayJob, JobSound, PayerSound, HookSound
<1>3. Goto(w, q) \/ Goto(w, Idle)
  BY DEF ReadPayment
<1> QED
  BY <1>2, <1>3, IdleJob, InvJobSteps DEF ReadPayment, IInv, PaymentsOK

LEMMA InvSavePayment ==
    ASSUME IInv, NEW w \in Jobs, SavePayment(w)
    PROVE  IInv'
<1> DEFINE b == job[w].booking
<1>1. job[w] \in PayJob /\ b \in BookingIds /\ job[w].pc = "savePayment"
  BY JobKinds DEF SavePayment, IInv, PaymentsOK, PayJob
<1>2. /\ payments'[b].status = "PENDING"
      /\ payments'[b].order \in OrdersFor[b] \cup {NoOrder}
      /\ payments'[b] \in PaymentRow
  <2>1. CASE job[w].exists
    <3>1. payments[b] # NoPayment
      BY <2>1, <1>1 DEF IInv, JobsSound, JobSound, PayerSound
    <3>2. payments'[b] = [payments[b] EXCEPT !.status = "PENDING"]
      BY <2>1, <1>1 DEF SavePayment, IInv, PaymentsOK
    <3> QED
      BY <1>1, <3>1, <3>2
         DEF IInv, PaymentsOK, OwnOrders, PaymentRow, PaymentStatus
  <2>2. CASE ~job[w].exists
    <3>1. payments'[b] = [status |-> "PENDING", order |-> NoOrder]
      BY <2>2, <1>1 DEF SavePayment, IInv, PaymentsOK
    <3> QED
      BY <3>1 DEF PaymentRow, PaymentStatus
  <2> QED
    BY <2>1, <2>2
<1>3. /\ \A c \in BookingIds : c # b => payments'[c] = payments[c]
      /\ payments' \in [BookingIds -> PaymentRow \cup {NoPayment}]
  BY <1>1, <1>2 DEF SavePayment, IInv, PaymentsOK
<1>4. payments'[b] # NoPayment
  BY <1>2, PaymentAssumption
<1>5. PICK q \in Job : q = [pc |-> "callGateway", booking |-> b]
  BY <1>1 DEF Job, PayJob
<1>6. JobSound(q)'
  BY <1>4, <1>5 DEF JobSound, PayerSound, HookSound
<1>7. PaymentsOK'
  BY <1>3, <1>5 DEF SavePayment, Goto, IInv, PaymentsOK
<1>8. JobsSound'
  BY <1>3, <1>4, <1>5, <1>6, JobsKept DEF SavePayment
<1>9. /\ OwnOrders' /\ MovesNotified' /\ NoticesSay'
      /\ CompletionsTold' /\ StatusWasNotified'
  BY <1>2, <1>3 DEF SavePayment, IInv, OwnOrders, MovesNotified, NoticesSay,
                    CompletionsTold, StatusWasNotified, Told, NoticesFor
<1> QED
  BY <1>7, <1>8, <1>9 DEF IInv

LEMMA InvCallGateway ==
    ASSUME IInv, NEW w \in Jobs, NEW o \in OrderIds, CallGateway(w, o)
    PROVE  IInv'
<1> DEFINE q == [pc |-> "saveOrder", booking |-> job[w].booking, order |-> o]
<1>1. job[w] \in PayJob /\ job[w].pc = "callGateway"
  BY JobKinds DEF CallGateway, IInv, PaymentsOK
<1>2. payments[job[w].booking] # NoPayment
  BY <1>1 DEF IInv, JobsSound, JobSound, PayerSound
<1>3. q \in Job /\ JobSound(q)
  BY <1>1, <1>2 DEF Job, PayJob, JobSound, PayerSound, HookSound, CallGateway
<1>4. /\ txn' \in [OrderIds -> GatewayStatus \cup {"none"}]
      /\ \A p \in OrderIds : txn'[p] \in {txn[p], "pending"}
  BY DEF CallGateway, IInv, PaymentsOK, GatewayStatus
<1> QED
  BY <1>3, <1>4, InvJobSteps DEF CallGateway, IInv, PaymentsOK

LEMMA InvSaveOrder ==
    ASSUME IInv, NEW w \in Jobs, SaveOrder(w)
    PROVE  IInv'
<1> DEFINE b == job[w].booking
           o == job[w].order
<1>1. /\ job[w] \in PayJob /\ job[w].pc = "saveOrder"
      /\ b \in BookingIds /\ o \in OrderIds
  BY JobKinds DEF SaveOrder, IInv, PaymentsOK, PayJob
<1>2. payments[b] # NoPayment /\ o \in OrdersFor[b]
  BY <1>1 DEF IInv, JobsSound, JobSound, PayerSound
<1>3. payments'[b] = [payments[b] EXCEPT !.order = o]
  BY <1>1 DEF SaveOrder, IInv, PaymentsOK
<1>4. /\ payments'[b] \in PaymentRow
      /\ payments'[b].order = o
      /\ payments'[b].status = payments[b].status
  BY <1>1, <1>2, <1>3 DEF IInv, PaymentsOK, PaymentRow
<1>5. /\ \A c \in BookingIds : c # b => payments'[c] = payments[c]
      /\ payments' \in [BookingIds -> PaymentRow \cup {NoPayment}]
  BY <1>1, <1>4 DEF SaveOrder, IInv, PaymentsOK
<1>6. payments'[b] # NoPayment
  BY <1>4, PaymentAssumption
<1>7. PaymentsOK'
  BY <1>1, <1>5, IdleJob DEF SaveOrder, Goto, IInv, PaymentsOK
<1>8. JobSound(Idle)'
  BY DEF JobSound, PayerSound, HookSound, Idle
<1>9. JobsSound'
  BY <1>5, <1>6, <1>8, IdleJob, JobsKept DEF SaveOrder
<1>10. /\ OwnOrders' /\ MovesNotified' /\ NoticesSay'
       /\ CompletionsTold' /\ StatusWasNotified'
  BY <1>2, <1>4, <1>5 DEF SaveOrder, IInv, OwnOrders, MovesNotified, NoticesSay,
                     CompletionsTold, StatusWasNotified, Told, NoticesFor
<1> QED
  BY <1>7, <1>9, <1>10 DEF IInv

LEMMA InvGatewayMove ==
    ASSUME IInv, NEW o \in OrderIds, NEW s \in GatewayStatus, GatewayMove(o, s)
    PROVE  IInv'
<1>1. /\ sent \subseteq sent' /\ [order |-> o, status |-> s] \in sent'
      /\ txn' = [txn EXCEPT ![o] = s]
  BY DEF GatewayMove
<1>2. PaymentsOK'
  BY DEF GatewayMove, IInv, PaymentsOK, Notice
<1>3. MovesNotified'
  BY <1>1 DEF IInv, PaymentsOK, MovesNotified
<1>4. JobsSound'
  BY <1>1 DEF GatewayMove, IInv, JobsSound, JobSound, PayerSound, HookSound,
              Heard, Told, NoticesFor
<1>5. NoticesSay'
  BY DEF GatewayMove, IInv, NoticesSay
<1> QED
  BY <1>1, <1>2, <1>3, <1>4, <1>5, RowsKept DEF GatewayMove, IInv

LEMMA InvReceiveWebhook ==
    ASSUME IInv, NEW w \in Jobs, NEW n \in Notice, ReceiveWebhook(w, n)
    PROVE  IInv'
<1> DEFINE q == [pc |-> "requery", notice |-> n]
<1>1. /\ sent \subseteq sent' /\ sent' \subseteq Notice /\ n \in sent'
      /\ n.order \in OrderIds
  BY DEF ReceiveWebhook, IInv, PaymentsOK, Notice
<1>2. NoticesSay'
  BY DEF ReceiveWebhook, Arrives, IInv, NoticesSay
<1>3. q \in Job /\ JobSound(q)'
  BY <1>1 DEF Job, HookJob, JobSound, PayerSound, HookSound
<1>4. /\ Goto(w, q) \/ UNCHANGED job
      /\ acked' \subseteq sent'
      /\ dropped' \subseteq OrderIds
  BY <1>1 DEF ReceiveWebhook, IInv, PaymentsOK
<1> HIDE DEF q
<1> QED
  BY <1>1, <1>2, <1>3, <1>4, InvJobMoves DEF ReceiveWebhook, IInv, PaymentsOK

LEMMA InvRequeryStatus ==
    ASSUME IInv, NEW w \in Jobs, RequeryStatus(w)
    PROVE  IInv'
<1> DEFINE n == job[w].notice
           s == Answer(n)
           q == [pc |-> "update", notice |-> n, result |-> MapStatus(s)]
<1>1. /\ job[w] \in HookJob /\ job[w].pc = "requery"
      /\ n \in Notice /\ n \in sent
  BY JobKinds DEF RequeryStatus, IInv, PaymentsOK, HookJob, JobsSound, JobSound,
                  HookSound
<1>2. s \in GatewayStatus \cup {"none"} /\ n.order \in OrderIds
  BY <1>1, StandsFacts DEF Answer, IInv, PaymentsOK, Notice
<1>3. MapStatus(s) # "PENDING" => Heard(n.order, MapStatus(s))
  <2>1. (Requery /\ s = txn[n.order]) \/ s = Stands(n.status)
    BY DEF Answer
  <2>2. CASE Requery /\ s = txn[n.order]
    <3>1. \/ s \in {"none", "pending"}
          \/ [order |-> n.order, status |-> s] \in sent
      BY <1>2, <2>2 DEF IInv, MovesNotified
    <3> HIDE DEF s
    <3>2. CASE s \in {"none", "pending"}
      BY <1>2, <3>2, MapStatusFacts
    <3>3. CASE [order |-> n.order, status |-> s] \in sent
      <4> DEFINE m == [order |-> n.order, status |-> s]
      <4>1. m.status \in GatewayStatus /\ m \in Notice
        BY <2>2, <3>3 DEF IInv, NoticesSay, PaymentsOK
      <4> QED
        BY <3>3, <4>1, StandsFacts DEF Heard
    <3> QED
      BY <3>1, <3>2, <3>3
  <2>3. CASE s = Stands(n.status)
    BY <1>1, <2>3 DEF Heard
  <2> HIDE DEF s
  <2> QED
    BY <2>1, <2>2, <2>3
<1>4. q \in Job
  BY <1>1, <1>2, MapStatusFacts DEF Job, HookJob
<1>5. JobSound(q)
  BY <1>1, <1>3 DEF JobSound, PayerSound, HookSound
<1> QED
  BY <1>4, <1>5, InvJobSteps DEF RequeryStatus, IInv, PaymentsOK

LEMMA InvUpdatePaymentStatus ==
    ASSUME IInv, NEW w \in Jobs, UpdatePaymentStatus(w)
    PROVE  IInv'
<1> DEFINE n == job[w].notice
           r == job[w].result
<1>1. /\ job[w] \in HookJob /\ job[w].pc = "update"
      /\ n \in Notice /\ n \in sent /\ n.order \in OrderIds
      /\ r \in PaymentStatus
      /\ r # "PENDING" => Heard(n.order, r)
  BY JobKinds DEF UpdatePaymentStatus, IInv, PaymentsOK, HookJob, JobsSound,
                  JobSound, HookSound, Notice
<1>2. UNCHANGED <<announced, txn, issued, sent, completions, dropped>>
  BY DEF UpdatePaymentStatus
<1>3. \A c \in BookingIds :
         /\ c \in PaidBy(n.order) =>
               /\ payments[c] # NoPayment
               /\ payments'[c] = [payments[c] EXCEPT !.status = r]
         /\ c \notin PaidBy(n.order) => payments'[c] = payments[c]
  BY DEF UpdatePaymentStatus, PaidBy
<1>4. \A c \in PaidBy(n.order) :
         /\ payments'[c] \in PaymentRow
         /\ payments'[c].order = payments[c].order
         /\ payments'[c].status = r
  <2> SUFFICES ASSUME NEW c \in PaidBy(n.order)
               PROVE  /\ payments'[c] \in PaymentRow
                      /\ payments'[c].order = payments[c].order
                      /\ payments'[c].status = r
    OBVIOUS
  <2>1. c \in BookingIds /\ payments[c] \in PaymentRow
    BY DEF PaidBy, IInv, PaymentsOK
  <2> QED
    BY <1>1, <1>3, <2>1 DEF PaymentRow
<1>5. payments' \in [BookingIds -> PaymentRow \cup {NoPayment}]
  <2>1. \A c \in BookingIds : payments'[c] \in PaymentRow \cup {NoPayment}
    BY <1>3, <1>4 DEF IInv, PaymentsOK
  <2> QED
    BY <2>1 DEF UpdatePaymentStatus
<1>6. \A c \in BookingIds :
         payments[c] # NoPayment <=> payments'[c] # NoPayment
  BY <1>3, <1>4, PaymentAssumption
<1>7. PICK q \in Job : /\ Goto(w, q)
                       /\ \/ q = Idle
                          \/ /\ q = [pc |-> "findPaid", notice |-> n]
                             /\ r = "SUCCESS"
  BY <1>1, IdleJob DEF UpdatePaymentStatus, Job, HookJob
<1>8. PaymentsOK'
  BY <1>1, <1>2, <1>5, <1>7 DEF UpdatePaymentStatus, Goto, IInv, PaymentsOK
<1>9. JobSound(q)'
  BY <1>1, <1>2, <1>7 DEF JobSound, PayerSound, HookSound, Heard, Idle
<1>10. JobsSound'
  BY <1>2, <1>6, <1>7, <1>9, JobsKept
<1>11. OwnOrders'
  BY <1>3, <1>4, <1>6 DEF IInv, OwnOrders
<1>12. MovesNotified' /\ NoticesSay' /\ CompletionsTold'
  BY <1>2 DEF IInv, MovesNotified, NoticesSay, CompletionsTold, Told, NoticesFor
<1>13. StatusWasNotified'
  <2> SUFFICES ASSUME NEW c \in BookingIds, payments'[c] # NoPayment,
                      payments'[c].status # "PENDING"
               PROVE  \E m \in NoticesFor(c)' :
                         MapStatus(Stands(m.status)) = payments'[c].status
    BY DEF StatusWasNotified
  <2>1. NoticesFor(c)' = NoticesFor(c)
    BY <1>2 DEF NoticesFor
  <2>2. CASE c \in PaidBy(n.order)
    <3>1. n.order \in OrdersFor[c]
      BY <1>1, <2>2, PaidByOwner DEF IInv
    <3> QED
      BY <1>1, <1>4, <2>1, <2>2, <3>1 DEF Heard, NoticesFor
  <2>3. CASE c \notin PaidBy(n.order)
    BY <1>3, <2>1, <2>3 DEF IInv, StatusWasNotified
  <2> QED
    BY <2>2, <2>3
<1> QED
  BY <1>8, <1>10, <1>11, <1>12, <1>13 DEF IInv

LEMMA InvFindPaid ==
    ASSUME IInv, NEW w \in Jobs, FindPaid(w)
    PROVE  IInv'
<1> DEFINE n == job[w].notice
<1>1. /\ job[w] \in HookJob /\ job[w].pc = "findPaid"
      /\ n \in Notice /\ n \in sent /\ n.order \in OrderIds
      /\ Heard(n.order, "SUCCESS")
  BY JobKinds DEF FindPaid, IInv, PaymentsOK, HookJob, JobsSound, JobSound,
                  HookSound, Notice
<1>2. CASE Goto(w, Idle)
  BY <1>2, IdleJob, InvJobSteps DEF FindPaid, IInv, PaymentsOK
<1>3. ASSUME NEW b \in PaidBy(n.order),
             Goto(w, [pc |-> "confirmBooking", notice |-> n, booking |-> b])
      PROVE  IInv'
  <2>1. b \in BookingIds /\ n.order \in OrdersFor[b]
    BY <1>1, PaidByOwner DEF IInv, PaidBy
  <2>2. PICK m \in sent : /\ m.order = n.order
                          /\ MapStatus(Stands(m.status)) = "SUCCESS"
    BY <1>1 DEF Heard
  <2>3. Stands(m.status) \in Taken
    BY <2>2, MapStatusFacts, StandsFacts DEF IInv, PaymentsOK, Taken
  <2>4. Told(b)
    BY <2>1, <2>2, <2>3 DEF Told, NoticesFor
  <2>5. PICK q \in Job :
          q = [pc |-> "confirmBooking", notice |-> n, booking |-> b]
    BY <1>1, <2>1 DEF Job, HookJob
  <2>6. JobSound(q)
    BY <1>1, <2>4, <2>5 DEF JobSound, PayerSound, HookSound
  <2> QED
    BY <1>3, <2>5, <2>6, InvJobSteps DEF FindPaid, IInv, PaymentsOK
<1> QED
  BY <1>2, <1>3 DEF FindPaid

LEMMA InvConfirmBooking ==
    ASSUME IInv, NEW w \in Jobs, ConfirmBooking(w)
    PROVE  IInv'
<1> DEFINE b == job[w].booking
<1>1. /\ job[w] \in HookJob /\ job[w].pc = "confirmBooking"
      /\ b \in BookingIds /\ job[w].notice \in sent /\ Told(b)
  BY JobKinds DEF ConfirmBooking, IInv, PaymentsOK, HookJob, JobsSound, JobSound,
                  HookSound
<1>2. UNCHANGED <<announced, payments, txn, issued, sent, dropped>>
  BY DEF ConfirmBooking
<1>3. /\ completions' \in [BookingIds -> 0..2]
      /\ \A c \in BookingIds : c # b => completions'[c] = completions[c]
  BY <1>1 DEF ConfirmBooking, IInv, PaymentsOK
<1>4. PaymentsOK'
  BY <1>1, <1>2, <1>3, IdleJob DEF ConfirmBooking, Goto, IInv, PaymentsOK
<1>5. JobSound(Idle)'
  BY DEF JobSound, PayerSound, HookSound, Idle
<1>6. JobsSound'
  BY <1>2, <1>5, IdleJob, JobsKept DEF ConfirmBooking
<1>7. CompletionsTold'
  BY <1>1, <1>2, <1>3 DEF IInv, CompletionsTold, Told, NoticesFor
<1>8. OwnOrders' /\ MovesNotified' /\ NoticesSay' /\ StatusWasNotified'
  BY <1>2 DEF IInv, OwnOrders, MovesNotified, NoticesSay, StatusWasNotified,
              NoticesFor
<1> QED
  BY <1>4, <1>6, <1>7, <1>8 DEF IInv

LEMMA InvAbort ==
    ASSUME IInv, NEW w \in Jobs, Abort(w)
    PROVE  IInv'
<1>1. dropped' \subseteq OrderIds
  <2>1. job[w].pc \in {"findPaid", "confirmBooking"} =>
           job[w].notice.order \in OrderIds
    BY JobKinds DEF IInv, PaymentsOK, HookJob, Notice
  <2> QED
    BY <2>1 DEF Abort, IInv, PaymentsOK
<1> QED
  BY <1>1, IdleJob, InvJobSteps DEF Abort, IInv, PaymentsOK

LEMMA InvNext == IInv /\ [Next]_vars => IInv'
<1> SUFFICES ASSUME IInv, [Next]_vars
             PROVE  IInv'
  OBVIOUS
<1>1. CASE CreateBooking \/ LoseEvent \/ ChangeBooking
  BY <1>1, InvBookings
<1>2. ASSUME NEW w \in Jobs, NEW b \in BookingIds,
             StartPayment(w, b) \/ HandleBookingCreated(w, b)
      PROVE  IInv'
  BY <1>2, InvStart
<1>3. ASSUME NEW w \in Jobs, Continue(w)
      PROVE  IInv'
  BY <1>3, InvReadPayment, InvSavePayment, InvCallGateway, InvSaveOrder,
     InvRequeryStatus, InvUpdatePaymentStatus, InvFindPaid, InvConfirmBooking,
     InvAbort DEF Continue
<1>4. ASSUME NEW n \in Notice, Deliver(n)
      PROVE  IInv'
  BY <1>4, InvReceiveWebhook DEF Deliver
<1>5. ASSUME NEW o \in OrderIds, NEW s \in GatewayStatus, GatewayMove(o, s)
      PROVE  IInv'
  BY <1>5, InvGatewayMove
<1>6. CASE UNCHANGED vars
  <2>1. UNCHANGED <<announced, payments, txn, issued, sent, acked, completions,
                    job, dropped>>
    BY <1>6 DEF vars
  <2> QED
    BY <2>1 DEF IInv, PaymentsOK, OwnOrders, MovesNotified, NoticesSay,
                JobsSound, JobSound, PayerSound, HookSound, Heard, Told, NoticesFor,
                CompletionsTold, StatusWasNotified
<1> QED
  BY <1>1, <1>2, <1>3, <1>4, <1>5, <1>6 DEF Next

LEMMA Invariant == Spec => []IInv
<1> QED
  BY InvInit, InvNext, PTL DEF Spec

-----------------------------------------------------------------------------
(* The timetable under payments.                                           *)

\* Whoever works for a booking finds it in the timetable: entries never go.
Reserved ==
    /\ \A b \in BookingIds :
          payments[b] # NoPayment \/ b \in announced => calendar[b] # Free
    /\ \A w \in Jobs :
          /\ job[w] \in PayJob => calendar[job[w].booking] # Free
          /\ job[w].pc = "confirmBooking" => calendar[job[w].booking] # Free

CInv == T!TypeOK /\ Reserved

\* A step of the payment code leaves the timetable alone.
LEMMA HandlersLeaveCalendar ==
    ASSUME NEW w \in Jobs, Continue(w), ~ConfirmBooking(w)
    PROVE  UNCHANGED calendar
BY DEF Continue, ReadPayment, SavePayment, CallGateway, SaveOrder,
       RequeryStatus, UpdatePaymentStatus, FindPaid, Abort

LEMMA WebhookConfirms ==
    ASSUME IInv, CInv, NEW w \in Jobs, ConfirmBooking(w)
    PROVE  /\ job[w].booking \in BookingIds
           /\ Told(job[w].booking)
           /\ Requery => Paid(job[w].booking)
           /\ T!Return(job[w].booking)
<1>1. job[w].pc = "confirmBooking" /\ job[w] \in HookJob
  BY JobKinds DEF ConfirmBooking, IInv, PaymentsOK
<1>2. job[w].booking \in BookingIds /\ calendar[job[w].booking] # Free
  BY <1>1 DEF HookJob, CInv, Reserved
<1>3. Told(job[w].booking)
  BY <1>1 DEF IInv, JobsSound, JobSound, HookSound
<1>4. Requery => Paid(job[w].booking)
  BY <1>2, <1>3, ToldIsPaid
<1> QED
  BY <1>1, <1>2, <1>3, <1>4 DEF ConfirmBooking, T!Return

\* Every step is one of the timetable, a return the shop was told of, or none
\* of its business.
LEMMA TimetableSteps ==
    ASSUME IInv, CInv, [Next]_vars
    PROVE  \/ T!Next
           \/ \E b \in BookingIds : /\ Told(b) /\ (Requery => Paid(b))
                                     /\ T!Return(b)
           \/ UNCHANGED calendar
<1>1. CASE CreateBooking \/ ChangeBooking
  BY <1>1 DEF CreateBooking, ChangeBooking, T!Next
<1>2. ASSUME NEW w \in Jobs, Continue(w)
      PROVE  \/ \E b \in BookingIds : /\ Told(b) /\ (Requery => Paid(b))
                                       /\ T!Return(b)
             \/ UNCHANGED calendar
  BY <1>2, HandlersLeaveCalendar, WebhookConfirms
<1>3. CASE UNCHANGED vars
  BY <1>3 DEF vars
<1> QED
  BY <1>1, <1>2, <1>3
     DEF Next, LoseEvent, StartPayment, HandleBookingCreated, Deliver,
         ReceiveWebhook, GatewayMove

\* Entries stay entries, and what has left PENDING does not return to it.
LEMMA EntriesStay ==
    ASSUME T!TypeOK, T!PaidNext \/ UNCHANGED calendar
    PROVE  /\ T!TypeOK'
           /\ \A b \in BookingIds :
                 /\ calendar[b] # Free => calendar'[b] # Free
                 /\ Decided(b) => Decided(b)'
<1>1. \A e \in T!Entry, s \in T!Status :
        /\ [e EXCEPT !.status = s] \in T!Entry
        /\ [e EXCEPT !.status = s].status = s
        /\ [e EXCEPT !.status = s] # Free
  BY PaymentAssumption DEF T!Entry
<1>2. \A p \in Providers, slot \in Slots :
        [provider |-> p, slot |-> slot, status |-> "PENDING"] \in T!Entry
  BY DEF T!Entry, T!Status
<1>3. ASSUME NEW b \in BookingIds, NEW p \in Providers, NEW slot \in Slots,
             T!Reserve(b, p, slot)
      PROVE  /\ T!TypeOK'
             /\ \A c \in BookingIds :
                   calendar[c] # Free => calendar'[c] = calendar[c]
  BY <1>2, <1>3 DEF T!Reserve, T!TypeOK
<1>4. ASSUME NEW b \in BookingIds, NEW s \in T!Status \ {"PENDING"},
             calendar[b] # Free,
             calendar' = [calendar EXCEPT ![b].status = s]
      PROVE  /\ T!TypeOK'
             /\ calendar'[b] # Free
             /\ calendar'[b].status # "PENDING"
             /\ \A c \in BookingIds : c # b => calendar'[c] = calendar[c]
  <2>1. calendar[b] \in T!Entry
    BY <1>4 DEF T!TypeOK
  <2>2. calendar'[b] = [calendar[b] EXCEPT !.status = s]
    BY <1>4 DEF T!TypeOK
  <2> QED
    BY <1>1, <1>4, <2>1, <2>2 DEF T!TypeOK
<1>5. ASSUME NEW b \in BookingIds,
             T!Confirm(b) \/ T!Complete(b) \/ T!Cancel(b) \/ T!Return(b)
      PROVE  \E s \in T!Status \ {"PENDING"} :
                /\ calendar[b] # Free
                /\ calendar' = [calendar EXCEPT ![b].status = s]
  BY <1>5 DEF T!Confirm, T!Complete, T!Cancel, T!Return, T!Move, T!Status
<1>6. CASE UNCHANGED calendar
  BY <1>6 DEF T!TypeOK, Decided
<1>7. ASSUME NEW b \in BookingIds, NEW p \in Providers, NEW slot \in Slots,
             T!Reserve(b, p, slot)
      PROVE  /\ T!TypeOK'
             /\ \A c \in BookingIds :
                   /\ calendar[c] # Free => calendar'[c] # Free
                   /\ Decided(c) => Decided(c)'
  BY <1>3, <1>7 DEF Decided
<1>8. ASSUME NEW b \in BookingIds,
             T!Confirm(b) \/ T!Complete(b) \/ T!Cancel(b) \/ T!Return(b)
      PROVE  /\ T!TypeOK'
             /\ \A c \in BookingIds :
                   /\ calendar[c] # Free => calendar'[c] # Free
                   /\ Decided(c) => Decided(c)'
  BY <1>4, <1>5, <1>8 DEF Decided
<1> QED
  BY <1>6, <1>7, <1>8 DEF T!PaidNext, T!Next

LEMMA CalendarInit == Init => CInv
<1> SUFFICES ASSUME Init
             PROVE  CInv
  OBVIOUS
<1>1. T!TypeOK
  BY DEF Init, T!Init, T!TypeOK
<1>2. \A w \in Jobs : job[w] = Idle /\ job[w] \notin PayJob
  BY DEF Init, Idle, PayJob
<1> QED
  BY <1>1, <1>2 DEF Init, CInv, Reserved, Idle

LEMMA CalendarNext == IInv /\ CInv /\ [Next]_vars => CInv'
<1> SUFFICES ASSUME IInv, CInv, [Next]_vars
             PROVE  CInv'
  OBVIOUS
<1>1. /\ T!TypeOK'
      /\ \A b \in BookingIds : calendar[b] # Free => calendar'[b] # Free
  BY TimetableSteps, EntriesStay DEF CInv, T!PaidNext
<1>2. \A b \in BookingIds :
        payments'[b] # NoPayment \/ b \in announced' => calendar'[b] # Free
  <2> SUFFICES ASSUME NEW b \in BookingIds,
                      payments'[b] # NoPayment \/ b \in announced',
                      ~(payments[b] # NoPayment \/ b \in announced)
               PROVE  calendar'[b] # Free
    BY <1>1 DEF CInv, Reserved
  <2>1. CASE CreateBooking
    <3>1. PICK c \in BookingIds, p \in Providers, slot \in Slots :
            T!Reserve(c, p, slot) /\ announced' = announced \cup {c}
      BY <2>1 DEF CreateBooking
    <3>2. c = b
      BY <2>1, <3>1 DEF CreateBooking
    <3>3. calendar'[b] = [provider |-> p, slot |-> slot, status |-> "PENDING"]
      BY <3>1, <3>2 DEF T!Reserve, CInv, T!TypeOK
    <3> QED
      BY <3>3, PaymentAssumption DEF T!Entry, T!Status
  <2>2. ASSUME NEW w \in Jobs, SavePayment(w)
        PROVE  calendar'[b] # Free
    <3>1. job[w] \in PayJob /\ job[w].booking \in BookingIds
      BY <2>2, JobKinds DEF SavePayment, IInv, PaymentsOK, PayJob
    <3>2. job[w].booking = b
      BY <2>2, <3>1 DEF SavePayment, IInv, PaymentsOK
    <3> QED
      BY <1>1, <3>1, <3>2 DEF CInv, Reserved
  <2>3. ASSUME NEW w \in Jobs, SaveOrder(w)
        PROVE  FALSE
    <3>1. job[w] \in PayJob /\ payments[job[w].booking] # NoPayment
      BY <2>3, JobKinds DEF SaveOrder, IInv, PaymentsOK, JobsSound, JobSound,
                            PayerSound
    <3> QED
      BY <2>3, <3>1 DEF SaveOrder, IInv, PaymentsOK
  <2>4. ASSUME NEW w \in Jobs, UpdatePaymentStatus(w)
        PROVE  FALSE
    BY <2>4 DEF UpdatePaymentStatus, PaidBy
  <2> QED
    BY <2>1, <2>2, <2>3, <2>4
       DEF Next, vars, LoseEvent, ChangeBooking, StartPayment,
           HandleBookingCreated, Continue, ReadPayment, CallGateway,
           RequeryStatus, FindPaid, ConfirmBooking, Abort, Deliver,
           ReceiveWebhook, GatewayMove
<1>3. ASSUME NEW w \in Jobs,
             job'[w] \in PayJob \/ job'[w].pc = "confirmBooking",
             job'[w] # job[w]
      PROVE  job'[w].booking \in BookingIds /\ calendar'[job'[w].booking] # Free
  <2>1. \A v \in Jobs, q \in Job : Goto(v, q) => v = w /\ job'[w] = q
    BY <1>3 DEF Goto, IInv, PaymentsOK
  <2>2. job'[w] # Idle
    BY <1>3 DEF Idle, PayJob
  <2>3. ASSUME NEW v \in Jobs, NEW b \in BookingIds,
               StartPayment(v, b) \/ HandleBookingCreated(v, b)
        PROVE  job'[w].booking \in BookingIds /\ calendar'[job'[w].booking] # Free
    <3>1. calendar[b] # Free
      BY <2>3 DEF StartPayment, HandleBookingCreated, CInv, Reserved
    <3>2. PICK auto \in BOOLEAN :
            Goto(v, [pc |-> "readPayment", booking |-> b, auto |-> auto])
      BY <2>3 DEF StartPayment, HandleBookingCreated
    <3> DEFINE q == [pc |-> "readPayment", booking |-> b, auto |-> auto]
    <3>3. q \in Job /\ Goto(v, q)
      BY <3>2 DEF Job, PayJob
    <3>4. job'[w] = q
      BY <2>1, <3>3
    <3> QED
      BY <1>1, <3>1, <3>4
  <2>4. ASSUME NEW v \in Jobs, Continue(v), job[v] \in PayJob
        PROVE  job'[w].booking \in BookingIds /\ calendar'[job'[w].booking] # Free
    <3>1. job[v].booking \in BookingIds /\ calendar[job[v].booking] # Free
      BY <2>4 DEF PayJob, CInv, Reserved
    <3>2. PICK q \in Job : Goto(v, q) /\ (q = Idle \/ q.booking = job[v].booking)
      <4>1. job[v].pc \in {"readPayment", "savePayment", "callGateway",
                           "saveOrder"}
        BY <2>4 DEF PayJob
      <4>2. Idle \in Job
        BY IdleJob
      <4>3. /\ [pc |-> "savePayment", booking |-> job[v].booking,
                exists |-> payments[job[v].booking] # NoPayment] \in Job
            /\ [pc |-> "callGateway", booking |-> job[v].booking] \in Job
            /\ \A o \in OrderIds : [pc |-> "saveOrder",
                  booking |-> job[v].booking, order |-> o] \in Job
        BY <3>1 DEF Job, PayJob
      <4> QED
        BY <2>4, <4>1, <4>2, <4>3
           DEF Continue, ReadPayment, SavePayment, CallGateway, SaveOrder,
               RequeryStatus, UpdatePaymentStatus, FindPaid, ConfirmBooking,
               Abort
    <3> QED
      BY <1>1, <2>1, <2>2, <3>1, <3>2
  <2>5. ASSUME NEW v \in Jobs, Continue(v), job[v] \notin PayJob
        PROVE  job'[w].booking \in BookingIds /\ calendar'[job'[w].booking] # Free
    <3>1. job[v].pc \notin {"readPayment", "savePayment", "callGateway",
                            "saveOrder"}
      BY <2>5, JobKinds DEF IInv, PaymentsOK
    <3>2. CASE FindPaid(v)
      <4>1. PICK b \in BookingIds :
              /\ payments[b] # NoPayment
              /\ Goto(v, [pc |-> "confirmBooking", notice |-> job[v].notice,
                          booking |-> b])
        BY <2>1, <2>2, <3>2, IdleJob DEF FindPaid, PaidBy
      <4>2. job[v].notice \in Notice
        BY <3>2, JobKinds DEF FindPaid, IInv, PaymentsOK, HookJob
      <4>3. PICK q \in Job : /\ q = [pc |-> "confirmBooking",
                                     notice |-> job[v].notice, booking |-> b]
                             /\ Goto(v, q)
        BY <4>1, <4>2 DEF Job, HookJob
      <4> QED
        BY <1>1, <2>1, <4>1, <4>3 DEF CInv, Reserved
    <3>3. CASE ~FindPaid(v)
      <4>1. \E q \in Job : Goto(v, q) /\ q \notin PayJob
                           /\ q.pc # "confirmBooking"
        <5>1. Idle \in Job /\ Idle \notin PayJob /\ Idle.pc # "confirmBooking"
          BY IdleJob DEF Idle, PayJob
        <5>2. CASE RequeryStatus(v)
          <6> DEFINE n == job[v].notice
                     s == Answer(n)
          <6>1. n \in Notice
            BY <5>2, JobKinds DEF RequeryStatus, IInv, PaymentsOK, HookJob
          <6>2. s \in GatewayStatus \cup {"none"}
            BY <6>1, StandsFacts DEF Answer, IInv, PaymentsOK, Notice
          <6>3. MapStatus(s) \in PaymentStatus
            BY <6>2, MapStatusFacts
          <6> HIDE DEF s
          <6> DEFINE q == [pc |-> "update", notice |-> n, result |-> MapStatus(s)]
          <6>4. q \in Job /\ q \notin PayJob /\ q.pc # "confirmBooking"
            BY <6>1, <6>3 DEF Job, HookJob, PayJob
          <6>5. Goto(v, q)
            BY <5>2 DEF RequeryStatus, s
          <6> QED
            BY <6>4, <6>5
        <5>3. CASE UpdatePaymentStatus(v)
          <6> DEFINE q == [pc |-> "findPaid", notice |-> job[v].notice]
          <6>1. job[v].notice \in Notice
            BY <5>3, JobKinds DEF UpdatePaymentStatus, IInv, PaymentsOK, HookJob
          <6>2. q \in Job /\ q \notin PayJob /\ q.pc # "confirmBooking"
            BY <6>1 DEF Job, HookJob, PayJob
          <6> QED
            BY <5>1, <5>3, <6>2 DEF UpdatePaymentStatus
        <5> QED
          BY <2>5, <3>1, <3>3, <5>1, <5>2, <5>3
             DEF Continue, ReadPayment, SavePayment, CallGateway, SaveOrder,
                 ConfirmBooking, Abort
      <4> QED
        BY <1>3, <2>1, <4>1
    <3> QED
      BY <3>2, <3>3
  <2>6. ASSUME NEW v \in Jobs, NEW n \in Notice, ReceiveWebhook(v, n)
        PROVE  FALSE
    <3>1. [pc |-> "requery", notice |-> n] \in Job
      BY DEF Job, HookJob
    <3>2. [pc |-> "requery", notice |-> n] \notin PayJob
      BY DEF PayJob
    <3> QED
      BY <1>3, <2>1, <2>6, <3>1, <3>2 DEF ReceiveWebhook
  <2> QED
    BY <1>3, <2>3, <2>4, <2>5, <2>6
       DEF Next, vars, CreateBooking, LoseEvent, ChangeBooking, Deliver,
           GatewayMove
<1>4. \A w \in Jobs :
        /\ job'[w] \in PayJob => calendar'[job'[w].booking] # Free
        /\ job'[w].pc = "confirmBooking" => calendar'[job'[w].booking] # Free
  <2>1. \A w \in Jobs : job[w] \in PayJob \/ job[w].pc = "confirmBooking"
                        => job[w].booking \in BookingIds
    BY JobKinds DEF IInv, PaymentsOK, PayJob, HookJob
  <2> QED
    BY <1>1, <1>3, <2>1 DEF CInv, Reserved
<1> QED
  BY <1>1, <1>2, <1>4 DEF CInv, Reserved

LEMMA CalendarInvariant == Spec => []CInv
<1> QED
  BY Invariant, CalendarInit, CalendarNext, PTL DEF Spec

-----------------------------------------------------------------------------
(* What the timetable promises to whoever keeps to it.                     *)

LEMMA TimetableInit == T!Init => T!TypeOK /\ T!NoOverlap
BY DEF T!Init, T!TypeOK, T!NoOverlap

LEMMA TimetableNext ==
    T!TypeOK /\ T!NoOverlap /\ [T!Next]_calendar => T!TypeOK' /\ T!NoOverlap'
<1> SUFFICES ASSUME T!TypeOK, T!NoOverlap, [T!Next]_calendar
             PROVE  T!TypeOK' /\ T!NoOverlap'
  OBVIOUS
<1>1. T!TypeOK'
  BY EntriesStay DEF T!PaidNext
<1>2. ASSUME NEW b \in BookingIds, NEW p \in Providers, NEW slot \in Slots,
             T!Reserve(b, p, slot)
      PROVE  T!NoOverlap'
  <2> SUFFICES ASSUME NEW c \in BookingIds, NEW d \in BookingIds, c # d,
                      calendar'[c] # Free,
                      calendar'[c].status \notin {"CANCELLED", "NO_SHOW"}
               PROVE  ~T!Takes(calendar'[d], calendar'[c].provider,
                               calendar'[c].slot)
    BY DEF T!NoOverlap, T!Takes
  <2>1. /\ calendar'[b] = [provider |-> p, slot |-> slot, status |-> "PENDING"]
        /\ \A e \in BookingIds : e # b => calendar'[e] = calendar[e]
        /\ \A e \in BookingIds : ~T!Takes(calendar[e], p, slot)
    BY <1>2 DEF T!Reserve, T!TypeOK
  <2>2. CASE c = b
    BY <2>1, <2>2 DEF T!Takes
  <2>3. CASE d = b
    BY <2>1, <2>3 DEF T!Takes
  <2>4. CASE c # b /\ d # b
    BY <2>1, <2>4 DEF T!NoOverlap, T!Takes
  <2> QED
    BY <2>2, <2>3, <2>4
<1>3. ASSUME NEW b \in BookingIds, NEW from, NEW to \in T!Status,
             T!Move(b, from, to), "CANCELLED" \notin from,
             "NO_SHOW" \in from => to = "CANCELLED"
      PROVE  T!NoOverlap'
  <2> SUFFICES ASSUME NEW c \in BookingIds, NEW d \in BookingIds, c # d,
                      calendar'[c] # Free,
                      calendar'[c].status \notin {"CANCELLED", "NO_SHOW"}
               PROVE  ~T!Takes(calendar'[d], calendar'[c].provider,
                               calendar'[c].slot)
    BY DEF T!NoOverlap, T!Takes
  <2>1. /\ calendar[b] \in T!Entry
        /\ calendar[b].status \in from
        /\ calendar'[b] = [calendar[b] EXCEPT !.status = to]
        /\ \A e \in BookingIds : e # b => calendar'[e] = calendar[e]
    BY <1>3 DEF T!Move, T!TypeOK
  <2>2. /\ calendar'[b].status = to
        /\ calendar'[b].provider = calendar[b].provider
        /\ calendar'[b].slot = calendar[b].slot
        /\ calendar'[b] # Free /\ calendar[b] # Free
    BY <2>1, PaymentAssumption DEF T!Entry
  <2>3. to \notin {"CANCELLED", "NO_SHOW"} =>
          calendar[b].status \notin {"CANCELLED", "NO_SHOW"}
    BY <1>3, <2>1
  <2>4. /\ calendar[c] # Free
        /\ calendar[c].status \notin {"CANCELLED", "NO_SHOW"}
        /\ calendar[c].provider = calendar'[c].provider
        /\ calendar[c].slot = calendar'[c].slot
    BY <2>1, <2>2, <2>3
  <2>5. ~T!Takes(calendar[d], calendar[c].provider, calendar[c].slot)
    BY <2>4 DEF T!NoOverlap
  <2>6. T!Takes(calendar'[d], calendar'[c].provider, calendar'[c].slot) =>
          T!Takes(calendar[d], calendar[c].provider, calendar[c].slot)
    BY <2>1, <2>2, <2>3, <2>4 DEF T!Takes
  <2> QED
    BY <2>5, <2>6
<1>4. CASE UNCHANGED calendar
  BY <1>1, <1>4 DEF T!NoOverlap, T!Takes
<1>5. ASSUME NEW b \in BookingIds, T!Confirm(b) \/ T!Complete(b) \/ T!Cancel(b)
      PROVE  T!NoOverlap'
  BY <1>3, <1>5 DEF T!Confirm, T!Complete, T!Cancel, T!Status
<1>6. CASE T!Next
  BY <1>1, <1>2, <1>5, <1>6 DEF T!Next
<1> QED
  BY <1>4, <1>6

LEMMA TimetableInvariant == T!Spec => [](T!TypeOK /\ T!NoOverlap)
<1> QED
  BY TimetableInit, TimetableNext, PTL DEF T!Spec

-----------------------------------------------------------------------------
(* Behind Midtrans: who takes care of a booking the gateway took money     *)
(* for, and that the code gives it up in two cases only.                   *)

\* The gateway is Midtrans: the order id is the booking's id, and money taken
\* can only go back ("refund" stands for every way it does).  Denied, expired
\* and cancelled transactions may still be paid, and handlers may die.
Orderly ==
    /\ Requery
    /\ \A b \in BookingIds : \A o, p \in OrdersFor[b] : o = p
    /\ \A s \in Taken : Moves[s] \subseteq Taken \cup {"refund"}

Back(o) == \E n \in sent : n.order = o /\ n.status = "refund"

\* Of an order its customers can pay the payment is known.
OrdersKnown ==
    \A b \in BookingIds : \A o \in issued \cap OrdersFor[b] :
        payments[b] # NoPayment /\ payments[b].order = o

\* Money once taken stays taken, until it goes back.
TakenStays ==
    \A n \in sent :
        /\ n.order \in issued
        /\ n.status \in Taken => txn[n.order] \in Taken \/ Back(n.order)

\* A handler told of money taken finds it taken.
ResultSound(q) ==
    q.pc = "update" /\ q.notice.status \in Taken
    => q.result = "SUCCESS" \/ Back(q.notice.order)

ConfirmsOwn(q) ==
    q.pc = "confirmBooking" => q.notice.order \in OrdersFor[q.booking]

HandlersPursue == \A w \in Jobs : ResultSound(job[w]) /\ ConfirmsOwn(job[w])

Handled(b) == Pursued(b) \/ Decided(b) \/ Refunded(b) \/ Dropped(b)

SuccessPursued ==
    \A b \in BookingIds :
        payments[b] # NoPayment /\ payments[b].status = "SUCCESS" => Handled(b)

PInv ==
    /\ OrdersKnown
    /\ TakenStays
    /\ HandlersPursue
    /\ SuccessPursued
    /\ PaidIsPursued

Unfinished == {"update", "findPaid", "confirmBooking"}

LEMMA PursuitInit == Init => PInv
<1> SUFFICES ASSUME Init
             PROVE  PInv
  OBVIOUS
<1>1. \A w \in Jobs : job[w].pc = "idle"
  BY DEF Init, Idle
<1> QED
  BY <1>1 DEF Init, PInv, OrdersKnown, TakenStays, HandlersPursue, ResultSound,
              ConfirmsOwn, SuccessPursued, PaidIsPursued, NoticesFor

\* A refund is for good, and is one of the booking the order belongs to.
LEMMA BackFacts ==
    ASSUME sent \subseteq sent'
    PROVE  /\ \A o : Back(o) => Back(o)'
           /\ \A b \in BookingIds : Refunded(b) => Refunded(b)'
           /\ \A b \in BookingIds : \A o \in OrdersFor[b] :
                 Back(o) => Refunded(b)
BY DEF Back, Refunded, NoticesFor

\* What is pursued stays so until it is decided or dropped: while a handler on
\* its way to the booking stays there, or somebody takes its place.
LEMMA HandledKept ==
    ASSUME CInv, IInv, [Next]_vars, sent \subseteq sent',
           dropped \subseteq dropped', NEW b \in BookingIds, Handled(b),
           \A w \in Jobs :
              job[w].pc \in {"findPaid", "confirmBooking"} =>
                 \/ job'[w] = job[w]
                 \/ /\ job'[w].pc \in {"findPaid", "confirmBooking"}
                    /\ job'[w].notice = job[w].notice
                 \/ job[w].notice.order \in OrdersFor[b] =>
                       Decided(b)' \/ Dropped(b)'
    PROVE  Handled(b)'
<1>1. Decided(b) => Decided(b)'
  BY TimetableSteps, EntriesStay DEF CInv, T!PaidNext
<1>2. Refunded(b) => Refunded(b)'
  BY BackFacts
<1>3. Pursued(b) => Handled(b)'
  BY DEF Pursued, Handled
<1>4. Dropped(b) => Dropped(b)'
  BY DEF Dropped
<1> QED
  BY <1>1, <1>2, <1>3, <1>4 DEF Handled

\* A step that only moves a handler that is not about to finish, answers no
\* call and stores nothing.
LEMMA PursuitQuiet ==
    ASSUME CInv, IInv, PInv, [Next]_vars,
           UNCHANGED <<payments, issued, sent, acked, dropped>>,
           \A o \in OrderIds : txn[o] # "none" => txn'[o] = txn[o],
           \A w \in Jobs : \/ job'[w] = job[w]
                           \/ /\ job[w].pc \notin Unfinished
                              /\ job'[w].pc \notin Unfinished
    PROVE  PInv'
<1>1. \A b \in BookingIds : Handled(b) => Handled(b)'
  BY HandledKept DEF Unfinished
<1>2. OrdersKnown'
  BY DEF PInv, OrdersKnown
<1>3. TakenStays'
  <2>1. \A n \in sent : n.order \in OrderIds
    BY DEF IInv, PaymentsOK, Notice
  <2> QED
    BY <2>1 DEF PInv, TakenStays, Back, Taken
<1>4. HandlersPursue'
  BY DEF PInv, HandlersPursue, ResultSound, ConfirmsOwn, Back, Unfinished
<1>5. SuccessPursued'
  BY <1>1 DEF PInv, SuccessPursued
<1>6. PaidIsPursued'
  BY <1>1 DEF PInv, PaidIsPursued, Handled, NoticesFor
<1> QED
  BY <1>2, <1>3, <1>4, <1>5, <1>6 DEF PInv

\* Which steps those are.
LEMMA QuietSteps ==
    ASSUME CInv, IInv, PInv, [Next]_vars,
           ~\E w \in Jobs : \/ SavePayment(w) \/ SaveOrder(w)
                            \/ RequeryStatus(w) \/ UpdatePaymentStatus(w)
                            \/ FindPaid(w) \/ ConfirmBooking(w) \/ Abort(w),
           ~\E n \in Notice : Deliver(n),
           ~\E o \in OrderIds, s \in GatewayStatus : GatewayMove(o, s)
    PROVE  PInv'
<1>1. \A w \in Jobs, q \in Job : Goto(w, q) =>
         job'[w] = q /\ \A v \in Jobs : v # w => job'[v] = job[v]
  BY DEF Goto, IInv, PaymentsOK
<1>2. CASE CreateBooking \/ LoseEvent \/ ChangeBooking \/ UNCHANGED vars
  <2>1. UNCHANGED <<payments, txn, issued, sent, acked, job, dropped>>
    BY <1>2 DEF CreateBooking, LoseEvent, ChangeBooking, vars
  <2> QED
    BY <2>1, PursuitQuiet
<1>3. ASSUME NEW w \in Jobs, NEW b \in BookingIds,
             StartPayment(w, b) \/ HandleBookingCreated(w, b)
      PROVE  PInv'
  <2>1. PICK auto \in BOOLEAN :
          Goto(w, [pc |-> "readPayment", booking |-> b, auto |-> auto])
    BY <1>3 DEF StartPayment, HandleBookingCreated
  <2>2. [pc |-> "readPayment", booking |-> b, auto |-> auto] \in Job
    BY DEF Job, PayJob
  <2>3. /\ job[w] = Idle
        /\ UNCHANGED <<payments, txn, issued, sent, acked, dropped>>
    BY <1>3 DEF StartPayment, HandleBookingCreated
  <2> QED
    BY <1>1, <2>1, <2>2, <2>3, PursuitQuiet DEF Unfinished, Idle
<1>4. ASSUME NEW w \in Jobs, ReadPayment(w)
      PROVE  PInv'
  <2>1. job[w] \in PayJob /\ job[w].booking \in BookingIds
    BY <1>4, JobKinds DEF ReadPayment, IInv, PaymentsOK, PayJob
  <2>2. PICK q \in Job : Goto(w, q) /\ q.pc \notin Unfinished
    <3>1. [pc |-> "savePayment", booking |-> job[w].booking,
           exists |-> payments[job[w].booking] # NoPayment] \in Job
      BY <2>1 DEF Job, PayJob
    <3> QED
      BY <1>4, <3>1, IdleJob DEF ReadPayment, Unfinished, Idle
  <2> QED
    BY <1>1, <1>4, <2>2, PursuitQuiet DEF ReadPayment, Unfinished
<1>5. ASSUME NEW w \in Jobs, NEW o \in OrderIds, CallGateway(w, o)
      PROVE  PInv'
  <2>1. job[w] \in PayJob /\ job[w].booking \in BookingIds
    BY <1>5, JobKinds DEF CallGateway, IInv, PaymentsOK, PayJob
  <2>2. [pc |-> "saveOrder", booking |-> job[w].booking, order |-> o] \in Job
    BY <2>1 DEF Job, PayJob
  <2>3. \A p \in OrderIds : txn[p] # "none" => txn'[p] = txn[p]
    BY <1>5 DEF CallGateway, IInv, PaymentsOK
  <2> QED
    BY <1>1, <1>5, <2>2, <2>3, PursuitQuiet DEF CallGateway, Unfinished
<1> QED
  BY <1>2, <1>3, <1>4, <1>5 DEF Next, Continue

\* Writing a payment as PENDING, or for the first time.
LEMMA PursuitSavePayment ==
    ASSUME CInv, IInv, PInv, [Next]_vars, NEW w \in Jobs, SavePayment(w)
    PROVE  PInv'
<1> DEFINE b == job[w].booking
<1>1. /\ job[w] \in PayJob /\ b \in BookingIds /\ job[w].pc = "savePayment"
      /\ UNCHANGED <<txn, issued, sent, acked, dropped>>
  BY JobKinds DEF SavePayment, IInv, PaymentsOK, PayJob
<1>2. /\ job'[w].pc = "callGateway"
      /\ \A v \in Jobs : v # w => job'[v] = job[v]
  BY <1>1 DEF SavePayment, Goto, IInv, PaymentsOK
<1>3. \A c \in BookingIds : Handled(c) => Handled(c)'
  BY <1>1, <1>2, HandledKept
<1>4. /\ \A c \in BookingIds : c # b => payments'[c] = payments[c]
      /\ payments'[b].status = "PENDING"
      /\ payments[b] # NoPayment =>
            payments'[b] # NoPayment /\ payments'[b].order = payments[b].order
  <2>1. CASE job[w].exists
    <3>1. payments[b] \in PaymentRow
      BY <2>1, <1>1 DEF IInv, JobsSound, JobSound, PayerSound, PaymentsOK
    <3>2. payments'[b] = [payments[b] EXCEPT !.status = "PENDING"]
      BY <2>1, <1>1 DEF SavePayment, IInv, PaymentsOK
    <3>3. payments'[b] \in PaymentRow
      BY <3>1, <3>2 DEF PaymentRow, PaymentStatus
    <3> QED
      BY <1>1, <2>1, <3>1, <3>2, <3>3, PaymentAssumption
         DEF SavePayment, IInv, PaymentsOK, PaymentRow
  <2>2. CASE ~job[w].exists
    BY <1>1, <2>2 DEF SavePayment, IInv, PaymentsOK
  <2> QED
    BY <2>1, <2>2
<1>5. OrdersKnown'
  BY <1>1, <1>4 DEF PInv, OrdersKnown
<1>6. TakenStays'
  BY <1>1 DEF PInv, TakenStays, Back
<1>7. HandlersPursue'
  BY <1>1, <1>2 DEF PInv, HandlersPursue, ResultSound, ConfirmsOwn, Back
<1>8. SuccessPursued'
  BY <1>3, <1>4 DEF PInv, SuccessPursued
<1>9. PaidIsPursued'
  BY <1>1, <1>3 DEF PInv, PaidIsPursued, Handled, NoticesFor
<1> QED
  BY <1>5, <1>6, <1>7, <1>8, <1>9 DEF PInv

\* The one order of the booking becomes payable, and is written to its payment.
LEMMA PursuitSaveOrder ==
    ASSUME CInv, IInv, PInv, [Next]_vars, Orderly, NEW w \in Jobs, SaveOrder(w)
    PROVE  PInv'
<1> DEFINE b == job[w].booking
           o == job[w].order
<1>1. /\ job[w].pc = "saveOrder" /\ b \in BookingIds /\ o \in OrdersFor[b]
      /\ payments[b] \in PaymentRow
      /\ UNCHANGED <<txn, sent, acked, dropped>> /\ issued' = issued \cup {o}
  BY JobKinds DEF SaveOrder, IInv, PaymentsOK, PayJob, JobsSound, JobSound,
                  PayerSound
<1>2. /\ job'[w].pc = "idle"
      /\ \A v \in Jobs : v # w => job'[v] = job[v]
  BY <1>1, IdleJob DEF SaveOrder, Goto, IInv, PaymentsOK, Idle
<1>3. \A c \in BookingIds : Handled(c) => Handled(c)'
  BY <1>1, <1>2, HandledKept
<1>4. /\ \A c \in BookingIds : c # b => payments'[c] = payments[c]
      /\ payments'[b] # NoPayment /\ payments[b] # NoPayment
      /\ payments'[b].order = o
      /\ payments'[b].status = payments[b].status
  <2>1. payments'[b] = [payments[b] EXCEPT !.order = o]
    BY <1>1 DEF SaveOrder, IInv, PaymentsOK
  <2>2. payments'[b] \in PaymentRow
    BY <1>1, <2>1, PaymentAssumption DEF PaymentRow
  <2> QED
    BY <1>1, <2>1, <2>2, PaymentAssumption
       DEF SaveOrder, IInv, PaymentsOK, PaymentRow
<1>5. OrdersKnown'
  <2> SUFFICES ASSUME NEW c \in BookingIds, NEW p \in issued' \cap OrdersFor[c]
               PROVE  payments'[c] # NoPayment /\ payments'[c].order = p
    BY DEF OrdersKnown
  <2>1. CASE c = b
    BY <1>1, <1>4, <2>1 DEF Orderly
  <2>2. CASE c # b
    <3>1. p # o
      BY <1>1, <2>2, PaymentAssumption
    <3> QED
      BY <1>1, <1>4, <2>2, <3>1 DEF PInv, OrdersKnown
  <2> QED
    BY <2>1, <2>2
<1>6. TakenStays'
  BY <1>1 DEF PInv, TakenStays, Back
<1>7. HandlersPursue'
  BY <1>1, <1>2 DEF PInv, HandlersPursue, ResultSound, ConfirmsOwn, Back
<1>8. SuccessPursued'
  BY <1>3, <1>4 DEF PInv, SuccessPursued
<1>9. PaidIsPursued'
  BY <1>1, <1>3 DEF PInv, PaidIsPursued, Handled, NoticesFor
<1> QED
  BY <1>5, <1>6, <1>7, <1>8, <1>9 DEF PInv

\* A transaction moves on, within its outcome.
LEMMA PursuitGatewayMove ==
    ASSUME CInv, IInv, PInv, [Next]_vars, Orderly,
           NEW o \in OrderIds, NEW s \in GatewayStatus, GatewayMove(o, s)
    PROVE  PInv'
<1>1. /\ sent' = sent \cup {[order |-> o, status |-> s]}
      /\ o \in issued /\ txn'[o] = s /\ s \in Moves[txn[o]]
      /\ \A p \in OrderIds : p # o => txn'[p] = txn[p]
      /\ UNCHANGED <<payments, issued, acked, job, dropped>>
  BY DEF GatewayMove, IInv, PaymentsOK
<1>2. \A c \in BookingIds : Handled(c) => Handled(c)'
  BY <1>1, HandledKept
<1>3. \A p : Back(p) => Back(p)'
  BY <1>1, BackFacts
<1>4. TakenStays'
  <2> SUFFICES ASSUME NEW n \in sent'
               PROVE  /\ n.order \in issued'
                      /\ n.status \in Taken =>
                            txn'[n.order] \in Taken \/ Back(n.order)'
    BY DEF TakenStays, Taken
  <2>1. CASE n.order # o
    <3>1. n \in sent /\ n.order \in OrderIds
      BY <1>1, <2>1 DEF IInv, PaymentsOK, Notice
    <3> QED
      BY <1>1, <1>3, <2>1, <3>1 DEF PInv, TakenStays
  <2>2. CASE n.order = o /\ s = "refund"
    <3> DEFINE m == [order |-> o, status |-> s]
    <3>1. m \in sent' /\ m.order = o /\ m.status = "refund"
      BY <1>1, <2>2
    <3>2. Back(o)'
      BY <3>1 DEF Back
    <3> QED
      BY <1>1, <2>2, <3>2
  <2>3. CASE n.order = o /\ n \in sent /\ s # "refund"
    <3>1. txn[o] \in Taken => s \in Taken
      BY <1>1, <2>3 DEF Orderly
    <3>2. n.status \in Taken => txn[o] \in Taken \/ Back(o)
      BY <2>3 DEF PInv, TakenStays
    <3> QED
      BY <1>1, <1>3, <2>3, <3>1, <3>2
  <2>4. CASE n.order = o /\ n \notin sent
    BY <1>1, <2>4
  <2> QED
    BY <2>1, <2>2, <2>3, <2>4
<1>5. OrdersKnown'
  BY <1>1 DEF PInv, OrdersKnown
<1>6. HandlersPursue'
  BY <1>1, <1>3 DEF PInv, HandlersPursue, ResultSound, ConfirmsOwn
<1>7. SuccessPursued'
  BY <1>1, <1>2 DEF PInv, SuccessPursued
<1>8. PaidIsPursued'
  <2> SUFFICES ASSUME NEW b \in BookingIds, NEW n \in NoticesFor(b)' \cap acked',
                      n.status \in Taken
               PROVE  Handled(b)'
    BY DEF PaidIsPursued, Handled, Taken
  <2>1. n \in NoticesFor(b) \cap acked
    BY <1>1 DEF NoticesFor, IInv, PaymentsOK
  <2> QED
    BY <1>2, <2>1 DEF PInv, PaidIsPursued, Handled, Taken
<1> QED
  BY <1>4, <1>5, <1>6, <1>7, <1>8 DEF PInv

\* A handler that stops on its way to a booking leaves it behind for good.
LEMMA PursuitAbort ==
    ASSUME CInv, IInv, PInv, [Next]_vars, NEW w \in Jobs, Abort(w)
    PROVE  PInv'
<1>1. /\ job'[w].pc = "idle"
      /\ \A v \in Jobs : v # w => job'[v] = job[v]
      /\ UNCHANGED <<payments, txn, issued, sent, acked>>
      /\ dropped \subseteq dropped'
  BY IdleJob DEF Abort, Goto, IInv, PaymentsOK, Idle
<1>2. \A c \in BookingIds : Handled(c) => Handled(c)'
  <2> SUFFICES ASSUME NEW c \in BookingIds, Handled(c)
               PROVE  Handled(c)'
    OBVIOUS
  <2>1. job[w].pc \in {"findPaid", "confirmBooking"}
        /\ job[w].notice.order \in OrdersFor[c] => Dropped(c)'
    BY DEF Abort, Dropped
  <2> QED
    BY <1>1, <2>1, HandledKept
<1>3. OrdersKnown' /\ TakenStays'
  BY <1>1 DEF PInv, OrdersKnown, TakenStays, Back
<1>4. HandlersPursue'
  BY <1>1 DEF PInv, HandlersPursue, ResultSound, ConfirmsOwn, Back
<1>5. SuccessPursued'
  BY <1>1, <1>2 DEF PInv, SuccessPursued
<1>6. PaidIsPursued'
  BY <1>1, <1>2 DEF PInv, PaidIsPursued, Handled, NoticesFor
<1> QED
  BY <1>3, <1>4, <1>5, <1>6 DEF PInv

\* A payment of that order stored as anything but PENDING belongs to a booking
\* taken care of, or has ended.
LEMMA ProcessedFacts ==
    ASSUME IInv, PInv, Orderly, NEW n \in sent, n.status \in Taken,
           NEW b \in PaidBy(n.order), payments[b].status # "PENDING"
    PROVE  n \in NoticesFor(b) /\ (Handled(b) \/ Ended(n.order))
<1>1. /\ b \in BookingIds /\ payments[b] # NoPayment /\ n.order \in OrderIds
      /\ payments[b].status \in PaymentStatus
  BY DEF PaidBy, IInv, PaymentsOK, Notice, PaymentRow
<1>2. n.order \in OrdersFor[b] /\ n \in NoticesFor(b)
  BY <1>1, PaidByOwner DEF IInv, NoticesFor
<1>3. PICK m \in NoticesFor(b) :
        MapStatus(Stands(m.status)) = payments[b].status
  BY <1>1 DEF IInv, StatusWasNotified
<1>4. CASE payments[b].status = "SUCCESS"
  BY <1>1, <1>2, <1>4 DEF PInv, SuccessPursued
<1>5. CASE payments[b].status = "REFUNDED"
  <2>1. m \in sent /\ m.status \in GatewayStatus
    BY <1>3 DEF NoticesFor, Orderly, IInv, NoticesSay
  <2>2. MapStatus(m.status) = "REFUNDED"
    BY <1>3, <1>5, <2>1, StandsFacts DEF IInv, PaymentsOK
  <2>3. m.status = "refund"
    BY <2>2 DEF MapStatus
  <2> QED
    BY <1>2, <1>3, <2>3 DEF Refunded, Handled
<1>6. CASE payments[b].status \in {"FAILED", "EXPIRED"}
  BY <1>2, <1>6 DEF Ended
<1> QED
  BY <1>1, <1>4, <1>5, <1>6 DEF PaymentStatus

LEMMA PursuitReceiveWebhook ==
    ASSUME CInv, IInv, PInv, [Next]_vars, Orderly,
           NEW w \in Jobs, NEW n \in Notice, ReceiveWebhook(w, n)
    PROVE  PInv'
<1>1. /\ n \in sent /\ UNCHANGED <<payments, txn, issued, sent>>
      /\ dropped \subseteq dropped'
  BY DEF ReceiveWebhook, Arrives, Orderly
<1>2. CASE ~Processed(n.order)
  <2>1. [pc |-> "requery", notice |-> n] \in Job
    BY DEF Job, HookJob
  <2>2. /\ job[w] = Idle /\ job'[w].pc = "requery"
        /\ \A v \in Jobs : v # w => job'[v] = job[v]
    BY <1>2, <2>1 DEF ReceiveWebhook, Goto, IInv, PaymentsOK
  <2>3. UNCHANGED <<acked, dropped>>
    BY <1>2 DEF ReceiveWebhook
  <2> QED
    BY <1>1, <2>2, <2>3, PursuitQuiet DEF Unfinished, Idle
<1>3. CASE Processed(n.order)
  <2>1. /\ acked' = acked \cup {n} /\ UNCHANGED job
        /\ Ended(n.order) /\ n.status \in Taken => n.order \in dropped'
    BY <1>3 DEF ReceiveWebhook
  <2>2. \A c \in BookingIds : Handled(c) => Handled(c)'
    BY <1>1, <2>1, HandledKept
  <2>3. OrdersKnown' /\ TakenStays' /\ HandlersPursue'
    BY <1>1, <2>1 DEF PInv, OrdersKnown, TakenStays, HandlersPursue,
                      ResultSound, ConfirmsOwn, Back
  <2>4. SuccessPursued'
    BY <1>1, <2>2 DEF PInv, SuccessPursued
  <2>5. PaidIsPursued'
    <3> SUFFICES ASSUME NEW b \in BookingIds,
                        NEW m \in NoticesFor(b)' \cap acked', m.status \in Taken
                 PROVE  Handled(b)'
      BY DEF PaidIsPursued, Handled, Taken
    <3>1. m \in NoticesFor(b)
      BY <1>1 DEF NoticesFor
    <3>2. CASE m \in acked
      BY <2>2, <3>1, <3>2 DEF PInv, PaidIsPursued, Handled, Taken
    <3>3. CASE m = n
      <4>1. PICK c \in PaidBy(n.order) : payments[c].status # "PENDING"
        BY <1>3 DEF Processed
      <4>2. /\ Handled(c) \/ Ended(n.order)
            /\ n \in NoticesFor(c)
        BY <1>1, <3>3, <4>1, ProcessedFacts
      <4>3. c = b /\ n.order \in OrdersFor[b]
        BY <3>1, <3>3, <4>1, <4>2, PaymentAssumption DEF NoticesFor, PaidBy
      <4>4. Ended(n.order) => Dropped(b)'
        BY <2>1, <3>3, <4>3 DEF Dropped
      <4> QED
        BY <2>2, <4>2, <4>3, <4>4 DEF Handled
    <3> QED
      BY <2>1, <3>2, <3>3
  <2> QED
    BY <2>3, <2>4, <2>5 DEF PInv
<1> QED
  BY <1>2, <1>3

\* The status asked for is that of the transaction by now.
LEMMA PursuitRequeryStatus ==
    ASSUME CInv, IInv, PInv, [Next]_vars, Orderly,
           NEW w \in Jobs, RequeryStatus(w)
    PROVE  PInv'
<1> DEFINE n == job[w].notice
           s == txn[n.order]
           q == [pc |-> "update", notice |-> n, result |-> MapStatus(s)]
<1>1. /\ job[w].pc = "requery" /\ n \in Notice /\ n \in sent
      /\ Goto(w, q)
      /\ UNCHANGED <<payments, txn, issued, sent, acked, dropped>>
  BY JobKinds DEF RequeryStatus, Answer, Orderly, IInv, PaymentsOK, HookJob,
                  JobsSound, JobSound, HookSound
<1>2. s \in GatewayStatus \cup {"none"}
  BY <1>1 DEF IInv, PaymentsOK, Notice
<1>3. n.status \in Taken => MapStatus(s) = "SUCCESS" \/ Back(n.order)
  BY <1>1 DEF PInv, TakenStays, Taken, MapStatus
<1>4. q \in Job
  BY <1>1, <1>2, MapStatusFacts DEF Job, HookJob
<1> HIDE DEF s
<1>5. ResultSound(q) /\ ConfirmsOwn(q) /\ q.pc = "update"
  BY <1>3 DEF ResultSound, ConfirmsOwn
<1>6. job'[w] = q /\ \A v \in Jobs : v # w => job'[v] = job[v]
  BY <1>1, <1>4 DEF Goto, IInv, PaymentsOK
<1> HIDE DEF q
<1>7. \A c \in BookingIds : Handled(c) => Handled(c)'
  BY <1>1, <1>5, <1>6, HandledKept
<1>8. OrdersKnown' /\ TakenStays'
  BY <1>1 DEF PInv, OrdersKnown, TakenStays, Back
<1>9. HandlersPursue'
  BY <1>1, <1>5, <1>6 DEF PInv, HandlersPursue, ResultSound, ConfirmsOwn, Back
<1>10. SuccessPursued'
  BY <1>1, <1>7 DEF PInv, SuccessPursued
<1>11. PaidIsPursued'
  BY <1>1, <1>7 DEF PInv, PaidIsPursued, Handled, NoticesFor
<1> QED
  BY <1>8, <1>9, <1>10, <1>11 DEF PInv

\* A handler that stores SUCCESS goes on to the booking itself; one that
\* stores anything else and answers the call was not told of money taken, or
\* the money went back.
LEMMA PursuitUpdatePaymentStatus ==
    ASSUME CInv, IInv, PInv, [Next]_vars, NEW w \in Jobs, UpdatePaymentStatus(w)
    PROVE  PInv'
<1> DEFINE n == job[w].notice
           r == job[w].result
<1>1. /\ job[w].pc = "update" /\ n \in Notice /\ n \in sent
      /\ n.order \in OrderIds /\ r \in PaymentStatus
      /\ UNCHANGED <<txn, issued, sent, dropped>>
  BY JobKinds DEF UpdatePaymentStatus, IInv, PaymentsOK, HookJob, JobsSound,
                  JobSound, HookSound, Notice
<1>2. \A c \in BookingIds :
         /\ payments[c] # NoPayment =>
               /\ payments'[c] # NoPayment
               /\ payments'[c].order = payments[c].order
               /\ payments'[c].status =
                     IF c \in PaidBy(n.order) THEN r ELSE payments[c].status
         /\ payments[c] = NoPayment => payments'[c] = NoPayment
  <2> SUFFICES ASSUME NEW c \in BookingIds
               PROVE  /\ payments[c] # NoPayment =>
                            /\ payments'[c] # NoPayment
                            /\ payments'[c].order = payments[c].order
                            /\ payments'[c].status =
                                  IF c \in PaidBy(n.order) THEN r
                                  ELSE payments[c].status
                      /\ payments[c] = NoPayment => payments'[c] = NoPayment
    OBVIOUS
  <2>1. CASE c \in PaidBy(n.order)
    <3>1. payments'[c] = [payments[c] EXCEPT !.status = r]
      BY <2>1 DEF UpdatePaymentStatus
    <3>2. payments[c] \in PaymentRow /\ payments[c] # NoPayment
      BY <2>1 DEF PaidBy, IInv, PaymentsOK
    <3>3. payments'[c] \in PaymentRow
      BY <1>1, <3>1, <3>2 DEF PaymentRow
    <3> QED
      BY <2>1, <3>1, <3>2, <3>3, PaymentAssumption DEF PaymentRow
  <2>2. CASE c \notin PaidBy(n.order)
    BY <2>2 DEF UpdatePaymentStatus
  <2> QED
    BY <2>1, <2>2
<1>3. /\ \A v \in Jobs : v # w => job'[v] = job[v]
      /\ \/ /\ PaidBy(n.order) # {} /\ r = "SUCCESS"
            /\ job'[w] = [pc |-> "findPaid", notice |-> n]
            /\ UNCHANGED acked
         \/ /\ r # "SUCCESS" \/ PaidBy(n.order) = {}
            /\ job'[w] = Idle
            /\ \/ UNCHANGED acked
               \/ r # "SUCCESS" /\ acked' = acked \cup {n}
  BY DEF UpdatePaymentStatus, Goto, IInv, PaymentsOK
<1>4. job'[w].pc \notin {"update", "confirmBooking"}
  BY <1>3 DEF Idle
<1>5. \A c \in BookingIds : Handled(c) => Handled(c)'
  BY <1>1, <1>3, HandledKept
<1>6. OrdersKnown'
  BY <1>1, <1>2 DEF PInv, OrdersKnown
<1>7. TakenStays'
  BY <1>1 DEF PInv, TakenStays, Back
<1>8. HandlersPursue'
  BY <1>1, <1>3, <1>4 DEF PInv, HandlersPursue, ResultSound, ConfirmsOwn, Back
<1>9. SuccessPursued'
  <2> SUFFICES ASSUME NEW c \in BookingIds, payments'[c] # NoPayment,
                      payments'[c].status = "SUCCESS"
               PROVE  Handled(c)'
    BY DEF SuccessPursued
  <2>1. CASE c \in PaidBy(n.order)
    <3>1. r = "SUCCESS" /\ n.order \in OrdersFor[c]
      BY <1>1, <1>2, <2>1, PaidByOwner DEF IInv, PaidBy
    <3>2. job'[w] = [pc |-> "findPaid", notice |-> n]
      BY <1>3, <2>1, <3>1
    <3> QED
      BY <3>1, <3>2 DEF Handled, Pursued
  <2>2. CASE c \notin PaidBy(n.order)
    BY <1>2, <1>5, <2>2 DEF PInv, SuccessPursued
  <2> QED
    BY <2>1, <2>2
<1>10. PaidIsPursued'
  <2> SUFFICES ASSUME NEW b \in BookingIds,
                      NEW m \in NoticesFor(b)' \cap acked', m.status \in Taken
               PROVE  Handled(b)'
    BY DEF PaidIsPursued, Handled, Taken
  <2>1. m \in NoticesFor(b)
    BY <1>1 DEF NoticesFor
  <2>2. CASE m \in acked
    BY <1>5, <2>1, <2>2 DEF PInv, PaidIsPursued, Handled, Taken
  <2>3. CASE m \notin acked
    <3>1. m = n /\ r # "SUCCESS"
      BY <1>3, <2>3
    <3>2. Back(n.order)
      BY <1>1, <3>1 DEF PInv, HandlersPursue, ResultSound
    <3>3. Refunded(b)
      BY <2>1, <3>1, <3>2 DEF NoticesFor, Back, Refunded
    <3> QED
      BY <1>5, <3>3 DEF Handled
  <2> QED
    BY <2>2, <2>3
<1> QED
  BY <1>6, <1>7, <1>8, <1>9, <1>10 DEF PInv

\* The payment is found again, since nothing takes the order away from it.
LEMMA PursuitFindPaid ==
    ASSUME CInv, IInv, PInv, [Next]_vars, NEW w \in Jobs, FindPaid(w)
    PROVE  PInv'
<1> DEFINE n == job[w].notice
<1>1. /\ job[w].pc = "findPaid" /\ n \in Notice /\ n \in sent
      /\ n.order \in OrderIds
      /\ UNCHANGED <<calendar, payments, txn, issued, sent, acked, dropped>>
  BY JobKinds DEF FindPaid, IInv, PaymentsOK, HookJob, JobsSound, JobSound,
                  HookSound, Notice
<1>2. /\ \A v \in Jobs : v # w => job'[v] = job[v]
      /\ \/ \E b \in PaidBy(n.order) :
               job'[w] = [pc |-> "confirmBooking", notice |-> n, booking |-> b]
         \/ PaidBy(n.order) = {} /\ job'[w] = Idle
  BY DEF FindPaid, Goto, IInv, PaymentsOK
<1>3. /\ job'[w].pc \in {"confirmBooking", "idle"}
      /\ job'[w].pc = "confirmBooking" =>
            /\ job'[w].notice = n
            /\ n.order \in OrdersFor[job'[w].booking]
      /\ PaidBy(n.order) # {} => job'[w].pc = "confirmBooking"
  <2>1. ASSUME NEW b \in PaidBy(n.order),
               job'[w] = [pc |-> "confirmBooking", notice |-> n, booking |-> b]
        PROVE  /\ job'[w].pc = "confirmBooking"
               /\ job'[w].notice = n
               /\ n.order \in OrdersFor[job'[w].booking]
    <3>1. n.order \in OrdersFor[b]
      BY <1>1, PaidByOwner DEF IInv, PaidBy
    <3> QED
      BY <2>1, <3>1
  <2>2. Idle.pc = "idle"
    BY DEF Idle
  <2> QED
    BY <1>2, <2>1, <2>2
<1>4. \A c \in BookingIds : n.order \in OrdersFor[c] => PaidBy(n.order) # {}
  BY <1>1 DEF PInv, TakenStays, OrdersKnown, PaidBy
<1>5. \A c \in BookingIds : Handled(c) => Handled(c)'
  <2> SUFFICES ASSUME NEW c \in BookingIds, Handled(c)
               PROVE  Handled(c)'
    OBVIOUS
  <2>1. CASE n.order \in OrdersFor[c]
    <3>1. job'[w].pc = "confirmBooking" /\ job'[w].notice = n
      BY <1>3, <1>4, <2>1
    <3> QED
      BY <2>1, <3>1 DEF Handled, Pursued
  <2>2. CASE n.order \notin OrdersFor[c]
    <3>1. \A v \in Jobs : job'[v] = job[v] \/ job[v].notice.order \notin OrdersFor[c]
      BY <1>2, <2>2
    <3> QED
      BY <1>1, <3>1, HandledKept
  <2> QED
    BY <2>1, <2>2
<1>6. OrdersKnown' /\ TakenStays'
  BY <1>1 DEF PInv, OrdersKnown, TakenStays, Back
<1>7. HandlersPursue'
  <2>1. ResultSound(job[w])' /\ ConfirmsOwn(job[w])'
    BY <1>3 DEF ResultSound, ConfirmsOwn
  <2>2. \A v \in Jobs : v # w => ResultSound(job[v])' /\ ConfirmsOwn(job[v])'
    BY <1>1, <1>2 DEF PInv, HandlersPursue, ResultSound, ConfirmsOwn, Back
  <2> QED
    BY <2>1, <2>2 DEF HandlersPursue
<1>8. SuccessPursued'
  BY <1>1, <1>5 DEF PInv, SuccessPursued
<1>9. PaidIsPursued'
  BY <1>1, <1>5 DEF PInv, PaidIsPursued, Handled, NoticesFor
<1> QED
  BY <1>6, <1>7, <1>8, <1>9 DEF PInv

\* The call is answered in the step that confirms the booking.
LEMMA PursuitConfirmBooking ==
    ASSUME CInv, IInv, PInv, [Next]_vars, NEW w \in Jobs, ConfirmBooking(w)
    PROVE  PInv'
<1>0. PICK n, b : n = job[w].notice /\ b = job[w].booking
  OBVIOUS
<1>1. /\ job[w].pc = "confirmBooking" /\ job[w] \in HookJob
      /\ b \in BookingIds /\ n.order \in OrdersFor[b]
      /\ acked' = acked \cup {n}
      /\ UNCHANGED <<payments, txn, issued, sent, dropped>>
  BY <1>0, JobKinds DEF ConfirmBooking, IInv, PaymentsOK, HookJob, PInv,
                        HandlersPursue, ConfirmsOwn
<1>2. job'[w] = Idle /\ \A v \in Jobs : v # w => job'[v] = job[v]
  BY <1>1, IdleJob DEF ConfirmBooking, Goto, IInv, PaymentsOK
<1>3. Decided(b)'
  <2>1. T!TypeOK' /\ calendar[b] # Free
    BY <1>0, CalendarNext, WebhookConfirms DEF CInv, T!Return
  <2>2. calendar'[b] \in T!Entry /\ calendar'[b].status = "CONFIRMED"
    <3>1. calendar[b] \in T!Entry
      BY <1>1, <2>1 DEF CInv, T!TypeOK
    <3>2. calendar'[b] = [calendar[b] EXCEPT !.status = "CONFIRMED"]
      BY <1>0, <1>1 DEF ConfirmBooking, CInv, T!TypeOK
    <3>3. "CONFIRMED" \in T!Status
      BY DEF T!Status
    <3> QED
      BY <3>1, <3>2, <3>3 DEF T!Entry
  <2> QED
    BY <2>2, PaymentAssumption DEF Decided
<1>4. \A c \in BookingIds : n.order \in OrdersFor[c] => c = b
  BY <1>1, PaymentAssumption
<1>5. \A c \in BookingIds : Handled(c) => Handled(c)'
  <2>1. \A c \in BookingIds : \A v \in Jobs :
          \/ job'[v] = job[v]
          \/ job[v].notice.order \in OrdersFor[c] => Decided(c)'
    BY <1>0, <1>2, <1>3, <1>4
  <2> QED
    BY <1>1, <2>1, HandledKept
<1>6. OrdersKnown' /\ TakenStays'
  BY <1>1 DEF PInv, OrdersKnown, TakenStays, Back
<1>7. HandlersPursue'
  BY <1>1, <1>2 DEF PInv, HandlersPursue, ResultSound, ConfirmsOwn, Back, Idle
<1>8. SuccessPursued'
  BY <1>1, <1>5 DEF PInv, SuccessPursued
<1>9. PaidIsPursued'
  <2> SUFFICES ASSUME NEW c \in BookingIds,
                      NEW m \in NoticesFor(c)' \cap acked', m.status \in Taken
               PROVE  Handled(c)'
    BY DEF PaidIsPursued, Handled, Taken
  <2>1. m \in NoticesFor(c)
    BY <1>1 DEF NoticesFor
  <2>2. CASE m \in acked
    BY <1>5, <2>1, <2>2 DEF PInv, PaidIsPursued, Handled, Taken
  <2>3. CASE m = n
    BY <1>3, <1>4, <2>1, <2>3 DEF NoticesFor, Handled
  <2> QED
    BY <1>1, <2>2, <2>3
<1> QED
  BY <1>6, <1>7, <1>8, <1>9 DEF PInv

LEMMA PursuitNext == Orderly /\ CInv /\ IInv /\ PInv /\ [Next]_vars => PInv'
<1> SUFFICES ASSUME Orderly, CInv, IInv, PInv, [Next]_vars
             PROVE  PInv'
  OBVIOUS
<1>1. ASSUME NEW w \in Jobs,
             \/ SavePayment(w) \/ SaveOrder(w)
             \/ RequeryStatus(w) \/ UpdatePaymentStatus(w)
             \/ FindPaid(w) \/ ConfirmBooking(w) \/ Abort(w)
      PROVE  PInv'
  BY <1>1, PursuitSavePayment, PursuitSaveOrder, PursuitRequeryStatus,
     PursuitUpdatePaymentStatus, PursuitFindPaid, PursuitConfirmBooking,
     PursuitAbort
<1>2. ASSUME NEW n \in Notice, Deliver(n)
      PROVE  PInv'
  BY <1>2, PursuitReceiveWebhook DEF Deliver
<1>3. ASSUME NEW o \in OrderIds, NEW s \in GatewayStatus, GatewayMove(o, s)
      PROVE  PInv'
  BY <1>3, PursuitGatewayMove
<1> QED
  BY <1>1, <1>2, <1>3, QuietSteps

-----------------------------------------------------------------------------

\* The tables and the handlers keep their types, and only notifications that
\* were sent are ever answered.
THEOREM PaymentTypes == Spec => []TypeOK
<1>1. IInv /\ CInv => TypeOK
  BY DEF IInv, CInv, TypeOK
<1> QED
  BY <1>1, Invariant, CalendarInvariant, PTL

\* Whatever is repeated, late, reordered or interleaved: a payment's status is
\* PENDING or what a notification about an order of that booking stands for.
\* Behind the mock, where anybody may notify and a call without a status stands
\* for a settlement, that is all there is to say.
THEOREM StatusesWereNotified == Spec => []StatusWasNotified
<1>1. IInv => StatusWasNotified
  BY DEF IInv
<1> QED
  BY <1>1, Invariant, PTL

\* Behind Midtrans no webhook confirms a booking, and no payment.completed goes
\* out, without money captured or settled for an order of that booking.
THEOREM CompletedArePaid == Requery => (Spec => []CompletedOnlyIfPaid)
<1> SUFFICES ASSUME Requery
             PROVE  Spec => []CompletedOnlyIfPaid
  OBVIOUS
<1>1. IInv => CompletedOnlyIfPaid
  <2> SUFFICES ASSUME IInv
               PROVE  CompletedOnlyIfPaid
    OBVIOUS
  <2>1. ASSUME NEW w \in Jobs, job[w].pc = "confirmBooking"
        PROVE  Paid(job[w].booking)
    <3>1. job[w].booking \in BookingIds
      BY <2>1, JobKinds DEF IInv, PaymentsOK, HookJob
    <3>2. Told(job[w].booking)
      BY <2>1 DEF IInv, JobsSound, JobSound, HookSound
    <3> QED
      BY <3>1, <3>2, ToldIsPaid
  <2>2. \A b \in BookingIds : completions[b] > 0 => Paid(b)
    BY ToldIsPaid DEF IInv, CompletionsTold
  <2> QED
    BY <2>1, <2>2 DEF CompletedOnlyIfPaid
<1> QED
  BY <1>1, Invariant, PTL

\* What createBooking is for: whoever keeps to the timetable never has two
\* live entries of one provider overlap.
THEOREM TimetableKeepsApart == T!Spec => []T!NoOverlap
<1>1. T!TypeOK /\ T!NoOverlap => T!NoOverlap
  OBVIOUS
<1> QED
  BY <1>1, TimetableInvariant, PTL

\* ... and none that was cancelled or completed ever changes again.
THEOREM TimetableEndsForGood == T!Spec => T!EndedStays
<1>1. T!TypeOK /\ [T!Next]_calendar =>
        [\A b \in BookingIds :
            /\ calendar[b] # Free
            /\ calendar[b].status \in {"CANCELLED", "COMPLETED"}
            => calendar'[b] = calendar[b]]_calendar
  <2> SUFFICES ASSUME T!TypeOK, T!Next, NEW b \in BookingIds,
                      calendar[b] # Free,
                      calendar[b].status \in {"CANCELLED", "COMPLETED"}
               PROVE  calendar'[b] = calendar[b]
    OBVIOUS
  <2> QED
    BY DEF T!Next, T!Reserve, T!Confirm, T!Complete, T!Cancel, T!Move, T!TypeOK
<1>2. T!TypeOK /\ T!NoOverlap => T!TypeOK
  OBVIOUS
<1> QED
  BY <1>1, <1>2, TimetableInvariant, PTL DEF T!Spec, T!EndedStays

\* The payment code leaves the bookings as the timetable moves them, but for
\* the bookings it confirms; and those it was told are paid for, behind
\* Midtrans by the gateway that took the money.
THEOREM ReturnsAreTold == Spec => ReturnsOnlyTold
<1>1. Init => T!Init
  BY DEF Init
<1>2. IInv /\ CInv /\ [Next]_vars =>
        [\/ T!Next
         \/ \E b \in BookingIds :
               Told(b) /\ (Requery => Paid(b)) /\ T!Return(b)]_calendar
  BY TimetableSteps
<1> QED
  BY <1>1, <1>2, Invariant, CalendarInvariant, PTL DEF Spec, ReturnsOnlyTold

\* Seen from the bookings, payments are the webhook the timetable allows for.
THEOREM PaymentKeepsTimetable == Spec => T!PaidSpec
<1>1. Init => T!Init
  BY DEF Init
<1>2. IInv /\ CInv /\ [Next]_vars => [T!PaidNext]_calendar
  BY TimetableSteps DEF T!PaidNext
<1> QED
  BY <1>1, <1>2, Invariant, CalendarInvariant, PTL DEF Spec, T!PaidSpec

\* Behind Midtrans a notification of money taken is answered only when its
\* booking is confirmed or ended, the money has gone back, a handler is still
\* on its way to the booking, or in the two cases the code gives it up: the
\* payment had failed or expired before, or a handler died between storing
\* SUCCESS and confirming.  Transactions may be paid after they were denied,
\* and handlers may die at any await.
THEOREM AnsweredArePursued == Orderly => (Spec => []PaidIsPursued)
<1> SUFFICES ASSUME Orderly
             PROVE  Spec => []PaidIsPursued
  OBVIOUS
<1>1. Init => PInv
  BY PursuitInit
<1>2. CInv /\ IInv /\ PInv /\ [Next]_vars => PInv'
  BY PursuitNext
<1>3. PInv => PaidIsPursued
  BY DEF PInv
<1> QED
  BY <1>1, <1>2, <1>3, Invariant, CalendarInvariant, PTL DEF Spec
=============================================================================
