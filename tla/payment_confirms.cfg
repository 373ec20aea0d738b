SPECIFICATION FairSpec
CONSTANTS
    barber = barber
    order1 = order1
    order2 = order2
    order3 = order3
    Free = Free
    NoPayment = NoPayment
    NoOrder = NoOrder
    BookingIds = {b1}
    Providers <- MCProviders
    Slots <- MCSlots
    Jobs = {w1, w2}
    OrderIds = {b1}
    OrdersFor <- MidtransOrders
    Requery = TRUE
    Moves <- ReviewMoves
    Posts = {}
    CanAbort = TRUE
CHECK_DEADLOCK FALSE
INVARIANTS
    CompletedOnlyIfPaid
    PaidIsPursued
PROPERTIES
    PaidIsConfirmed
