----------------------------- MODULE MCPayment -----------------------------
(***************************************************************************)
(* Bookings and their payments, behind Midtrans (the order id is the       *)
(* booking's) or behind the mock gateway (each call makes a new order).    *)
(***************************************************************************)
EXTENDS Payment, TLC

CONSTANTS barber, order1, order2, order3

MCProviders == {barber}
MCSlots     == {[start |-> 1, end |-> 2]}

MidtransOrders == [b \in BookingIds |-> {b}]

\* Two calls of createPayment for one booking, one for the other.
MockOrders ==
    LET first == CHOOSE b \in BookingIds : TRUE IN
    [b \in BookingIds |-> IF b = first THEN {order1, order2} ELSE {order3}]

\* A transaction that is reviewed, paid or denied; after a denial customers
\* may pay the same order in another way.
ReviewMoves ==
    [s \in GatewayStatus |->
        CASE s = "pending"    -> {"challenge", "settlement", "deny"}
          [] s = "challenge"  -> {"capture"}
          [] s = "deny"       -> {"settlement"}
          [] s = "settlement" -> {"refund"}
          [] OTHER            -> {}]

\* Calls of the mock's webhook, one of them without a status for each booking.
Calls == {[order |-> order1, status |-> "expire"],
          [order |-> order2, status |-> "absent"],
          [order |-> order3, status |-> "absent"]}

Symmetry == Permutations(Jobs)

\* Behind the mock no transaction moves.
NoMoves == [s \in GatewayStatus |-> {}]
=============================================================================
