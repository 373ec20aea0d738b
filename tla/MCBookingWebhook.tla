-------------------------- MODULE MCBookingWebhook --------------------------
(***************************************************************************)
(* The shops and users of MCBooking, and a webhook.                        *)
(***************************************************************************)
EXTENDS BookingWebhook, MCBooking

\* One interval: any two bookings of it overlap.
MCOneSlot == {[start |-> 1, end |-> 3]}
=============================================================================
