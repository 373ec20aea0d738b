--------------------------- MODULE MCAvailability ---------------------------
(***************************************************************************)
(* A day of eight units, asked for once.  morning and noon are intervals   *)
(* of that day, night reaches into it from the day before.                 *)
(***************************************************************************)
EXTENDS Availability, TLC

CONSTANTS morning, noon, night

MCIntervalOf == [c \in Claims |->
    CASE c = morning -> [startTime |-> 1, endTime |-> 3]
      [] c = noon    -> [startTime |-> 2, endTime |-> 6]
      [] c = night   -> [startTime |-> -2, endTime |-> 2]]

Open(start, end) == [startTime |-> start, endTime |-> end, isActive |-> TRUE]
MCSchedules == {Null, Open(0, 6), Open(1, 8), [Open(0, 6) EXCEPT !.isActive = FALSE]}

Recurring(day, start, end) ==
    [isRecurring |-> TRUE, dayOfWeek |-> day, breakStart |-> start,
     breakEnd |-> end, dateStart |-> Null, dateEnd |-> Null]
DayOff(from, to) ==
    [isRecurring |-> FALSE, dayOfWeek |-> Null, breakStart |-> Null,
     breakEnd |-> Null, dateStart |-> from, dateEnd |-> to]
MCBreaks == {Recurring(3, 2, 4), Recurring(4, 0, 8), DayOff(9, 10)}

MCServices == {[duration |-> 2, buffer |-> 0], [duration |-> 2, buffer |-> 1]}
=============================================================================
