SPECIFICATION Spec
CONSTANTS
    barber = barber
    order1 = order1
    order2 = order2
    order3 = order3
    Free = Free
    NoPayment = NoPayment
    NoOrder = NoOrder
    BookingIds = {b1, b2}
    Providers <- MCProviders
    Slots <- MCSlots
    Jobs = {w1, w2}
    OrderIds = {order1, order2, order3}
    OrdersFor <- MockOrders
    Requery = FALSE
    Moves <- NoMoves
    Posts <- Calls
    CanAbort = FALSE
SYMMETRY Symmetry
CHECK_DEADLOCK FALSE
INVARIANTS
    TypeOK
    StatusWasNotified
