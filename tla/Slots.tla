------------------------------- MODULE Slots -------------------------------
(***************************************************************************)
(* The slots of a day: what calculateAvailableSlots is given, what makes   *)
(* it pass over a candidate, and what its answer should be.  Times are     *)
(* minutes since the midnight the day begins with; bookings and holds may  *)
(* begin or end outside the day.                                           *)
(***************************************************************************)
EXTENDS Integers

CONSTANT Null  \* no schedule; the missing times of a break

\* Creating a hold refuses an interval that ends before it begins.
Interval == {i \in [startTime: Int, endTime: Int] : i.startTime < i.endTime}
Break    == [breakStart: Nat \cup {Null}, breakEnd: Nat \cup {Null}]
Schedule == [startTime: Nat, endTime: Nat, isActive: BOOLEAN]

\* duration and buffer as the DTOs of the services admit them.
Input ==
    [schedule: Schedule \cup {Null}, breaks: SUBSET Break,
     existingBookings: SUBSET Interval, existingHolds: SUBSET Interval,
     duration: Nat \ {0}, buffer: Nat]

\* Mutant: only an interval that begins within the other overlaps it.
isOverlappingByStart(startA, endA, startB, endB) ==
    startA <= startB /\ endA > startB

isOverlapping(startA, endA, startB, endB) == startA < endB /\ endA > startB

Works(in) == in.schedule # Null /\ in.schedule.isActive

totalDuration(in) == in.duration + in.buffer

\* A break without times of day blocks nothing.
Timed(breaks) == {b \in breaks : b.breakStart # Null /\ b.breakEnd # Null}

\* The candidate at start, its buffer included, runs into a break, a booking
\* or a hold.
Blocked(in, start) ==
    LET slotWithBufferEnd == start + totalDuration(in) IN
    \/ \E b \in Timed(in.breaks) :
          isOverlapping(start, slotWithBufferEnd, b.breakStart, b.breakEnd)
    \/ \E b \in in.existingBookings \cup in.existingHolds :
          isOverlapping(start, slotWithBufferEnd, b.startTime, b.endTime)

Slot(in, start) == [startTime |-> start, endTime |-> start + in.duration]

\* The candidates: from the opening on, one slot and one buffer apart, as
\* long as both fit the schedule.
Grid(in) ==
    {start \in in.schedule.startTime..in.schedule.endTime :
        /\ (start - in.schedule.startTime) % totalDuration(in) = 0
        /\ start + totalDuration(in) <= in.schedule.endTime}

\* What the loop of calculateAvailableSlots computes (see SlotCalculator).
calculateAvailableSlots(in) ==
    IF Works(in)
    THEN {Slot(in, start) : start \in {s \in Grid(in) : ~Blocked(in, s)}}
    ELSE {}

-----------------------------------------------------------------------------
(* The same in terms of minutes, for comparison.                           *)

\* Minute m is taken by a break with times, a booking or a hold.
Taken(in, m) ==
    \/ \E b \in Timed(in.breaks) : b.breakStart <= m /\ m < b.breakEnd
    \/ \E b \in in.existingBookings \cup in.existingHolds :
          b.startTime <= m /\ m < b.endTime

\* No minute of the slot at start, nor of the buffer after it, is taken.
Vacant(in, start) ==
    \A m \in start..(start + totalDuration(in) - 1) : ~Taken(in, m)

\* Every break with times ends after it begins.
Regular(in) == \A b \in Timed(in.breaks) : b.breakStart < b.breakEnd
=============================================================================
