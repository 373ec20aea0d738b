-------------------------- MODULE BookingWebhook --------------------------
(***************************************************************************)
(* Booking together with the other writer of the bookings table: the       *)
(* payment webhook.  Payment shows when a webhook gets that far; from the  *)
(* point of view of BookingService it may happen to any booking, since     *)
(* every booking gets a payment, in any status and at any moment.          *)
(***************************************************************************)
EXTENDS Booking

CONSTANT MaxLog  \* bound: a booking with more log rows gets no more webhooks

\* Mutant: the webhook writes the status a new booking has.
ConfirmAfterPaymentPending(b) ==
    /\ b \in BookedIds
    /\ Len(logs[b]) <= MaxLog
    /\ bookings' = [bookings EXCEPT ![b].status = "PENDING"]
    /\ UNCHANGED <<services, holds, logs, req, now>>

\* The last step of confirmBookingAfterPayment: an update of the status by id,
\* outside any transaction, without the version and without a log row.
ConfirmAfterPayment(b) ==
    /\ b \in BookedIds
    /\ Len(logs[b]) <= MaxLog
    /\ bookings' = [bookings EXCEPT ![b].status = "CONFIRMED"]
    /\ UNCHANGED <<services, holds, logs, req, now>>

WebhookNext == Next \/ \E b \in BookingIds : ConfirmAfterPayment(b)

WebhookSpec == Init /\ [][WebhookNext]_vars

-----------------------------------------------------------------------------

LastLogged(b) == logs[b][Len(logs[b])].new

\* What the webhook leaves of LogMirrorsBooking: versions and log rows still
\* agree in number, and the one status the audit trail can miss is CONFIRMED.
OnlyConfirmedUnlogged ==
    \A b \in BookedIds :
        /\ Len(logs[b]) = bookings[b].version
        /\ bookings[b].status \in {LastLogged(b), "CONFIRMED"}

WasReleased(b) == \E i \in 1..Len(logs[b]) : logs[b][i].new \in Released

\* With the webhook as well, a provider comes to be booked twice only when
\* neither conflict query could see the other booking, or when a booking that
\* was once cancelled came back to life.
OverlapOnlyByRaceOrReturn ==
    \A b, c \in BookedIds :
        Clash(b, c) /\ c \in bookings[b].checked => WasReleased(c)

\* Of a booking that returned after its end the log says no more than that it
\* was released once.
InsertOverReturned(r) ==
    /\ req[r].pc = "insertBooking"
    /\ Conflicts(req[r].seen) # {}
    /\ \A c \in Conflicts(req[r].seen) \cap req[r].checked : WasReleased(c)
    /\ req'[r] = Idle

\* Beside the webhook the handlers depart from the timetable that allows for
\* its confirmations in the same two ways as without it.  In particular a
\* handler that has missed a webhook, and nothing else, does no harm.
LeavesPaidTimetableOnlyByRace ==
    /\ T!Init
    /\ [][bookings' # bookings
          => \/ \E r \in Requests : StaleWrite(r) \/ InsertOverReturned(r)
             \/ [T!PaidNext]_Calendar]_vars
=============================================================================
