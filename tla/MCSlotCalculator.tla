-------------------------- MODULE MCSlotCalculator --------------------------
(***************************************************************************)
(* A day of eight units, four schedules in it, at most one break, booking  *)
(* and hold each, some bookings reaching over midnight.                    *)
(***************************************************************************)
EXTENDS SlotCalculator

MCSchedules ==
    {Null} \cup [startTime: {0, 1}, endTime: {5, 8}, isActive: BOOLEAN]

\* One of these ends before it begins.
TimedBreaks == [breakStart: {2, 4}, breakEnd: {3, 5}]
WholeDay == [breakStart |-> Null, breakEnd |-> Null]

Busy == {b \in [startTime: {-2, 1, 3, 4}, endTime: {1, 4, 6, 10}] :
            b.startTime < b.endTime}

MCInputs ==
    [schedule: MCSchedules,
     breaks: {{}, {WholeDay}} \cup {{b} : b \in TimedBreaks},
     existingBookings: {{}} \cup {{b} : b \in Busy},
     existingHolds: {{}} \cup {{[startTime |-> a, endTime |-> a + 2]} : a \in {0, 5}},
     duration: 1..3, buffer: 0..2]
=============================================================================
