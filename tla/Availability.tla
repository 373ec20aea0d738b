---------------------------- MODULE Availability ----------------------------
(***************************************************************************)
(* ProviderService.getAvailability: one request for one day of a provider, *)
(* which reads the schedule, the breaks, the bookings, the holds and the   *)
(* service one after the other, while other requests change them.          *)
(***************************************************************************)
EXTENDS Slots, FiniteSets

CONSTANTS
    Claims,     \* the intervals customers hold and book, by name
    IntervalOf, \* their times, relative to the midnight of the day asked for
    Schedules,  \* the rows the weekday's schedule may have, or Null
    Breaks,     \* the rows of provider_breaks there may be
    Weekday, Date, DayLength,
    Services    \* duration and buffer of the service asked about: its own, or
                \* 60 and 0 minutes when none is named or none is found

VARIABLES
    schedule,  \* the row of the weekday
    breaks,    \* the table provider_breaks
    claim,     \* claim[c]: "none", "held", "booked", "cancelled" or "lapsed"
    req,       \* the request
    since,     \* since[c]: what claim c has been ever since the request began:
               \* "held", "booked", "taken" (held, then booked) or "no"
    ever,      \* the claims that were taken at some time since then
    kept,      \* the breaks that were there all the time since then
    once       \* the breaks that were there at some time since then

vars == <<schedule, breaks, claim, req, since, ever, kept, once>>

BreakRow ==
    [isRecurring: BOOLEAN, dayOfWeek: 0..6 \cup {Null},
     breakStart: Nat \cup {Null}, breakEnd: Nat \cup {Null},
     dateStart: Nat \cup {Null}, dateEnd: Nat \cup {Null}]

\* createBreak: a recurring break has a weekday and times of day, a one-time
\* break has dates and nothing else.
RecurringBreak(b) ==
    /\ b.isRecurring
    /\ b.dayOfWeek # Null /\ b.breakStart # Null /\ b.breakEnd # Null
    /\ b.dateStart = Null /\ b.dateEnd = Null
OneTimeBreak(b) ==
    /\ ~b.isRecurring
    /\ b.dayOfWeek = Null /\ b.breakStart = Null /\ b.breakEnd = Null
    /\ b.dateStart # Null /\ b.dateEnd # Null
    /\ b.dateStart <= b.dateEnd

ASSUME AvailabilityAssumption ==
    /\ IntervalOf \in [Claims -> Interval]
    /\ Schedules \subseteq Schedule \cup {Null}
    /\ Breaks \subseteq {b \in BreakRow : RecurringBreak(b) \/ OneTimeBreak(b)}
    /\ Weekday \in 0..6
    /\ Date \in Nat /\ DayLength \in Nat
    /\ Services \subseteq [duration: Nat \ {0}, buffer: Nat]
    /\ Null \notin Nat \cup Schedule

Idle == [pc |-> "idle"]

\* What the request has read so far is in the arguments of the calculator.
Reading ==
    [pc: {"breaks", "bookings", "holds", "service"}, in: Input]

Answer == [pc: {"done"}, in: Input, slots: SUBSET Interval]

TypeOK ==
    /\ schedule \in Schedules
    /\ breaks \subseteq Breaks
    /\ claim \in [Claims -> {"none", "held", "booked", "cancelled", "lapsed"}]
    /\ req \in {Idle} \cup Reading \cup Answer
    /\ since \in [Claims -> {"held", "booked", "taken", "no"}]
    /\ ever \subseteq Claims
    /\ kept \subseteq breaks
    /\ once \subseteq Breaks

Init ==
    /\ schedule \in Schedules
    /\ breaks = {}
    /\ claim = [c \in Claims |-> "none"]
    /\ req = Idle
    /\ since = [c \in Claims |-> "no"]
    /\ ever = {}
    /\ kept = {}
    /\ once = {}
-----------------------------------------------------------------------------
(* The request.                                                            *)

Times(c) == IntervalOf[c]

\* The window of the queries: from startOfDay to endOfDay, by start time.
StartsToday(c) == Times(c).startTime \in 0..(DayLength - 1)

\* The provider exists; the schedule of the weekday.  From here on what other
\* requests do is recorded in since, ever, kept and once.
ReadSchedule ==
    LET in == [schedule |-> schedule, breaks |-> {}, existingBookings |-> {},
               existingHolds |-> {}, duration |-> 60, buffer |-> 0] IN
    /\ req = Idle
    /\ req' = IF Works(in) THEN [pc |-> "breaks", in |-> in]
              ELSE [pc |-> "done", in |-> in, slots |-> {}]
    /\ since' = [c \in Claims |-> IF claim[c] \in {"held", "booked"}
                                  THEN claim[c] ELSE "no"]
    /\ ever' = {c \in Claims : claim[c] \in {"held", "booked"}}
    /\ kept' = breaks
    /\ once' = breaks
    /\ UNCHANGED <<schedule, breaks, claim>>

\* Mutant: the weekday of a recurring break is not compared.
AppliesAnyDay(b) == b.isRecurring \/ (b.dateStart <= Date /\ Date <= b.dateEnd)

Applies(b) ==
    \/ b.isRecurring /\ b.dayOfWeek = Weekday
    \/ ~b.isRecurring /\ b.dateStart <= Date /\ Date <= b.dateEnd

TimesOfDay(b) == [breakStart |-> b.breakStart, breakEnd |-> b.breakEnd]

ReadBreaks ==
    /\ req.pc = "breaks"
    /\ req' = [req EXCEPT !.pc = "bookings",
                          !.in.breaks = {TimesOfDay(b) :
                                           b \in {x \in breaks : Applies(x)}}]
    /\ UNCHANGED <<schedule, breaks, claim, since, ever, kept, once>>

\* The claims in state s that a query by start time finds.
TodayIn(s) == {c \in Claims : claim[c] = s /\ StartsToday(c)}

\* All bookings but the cancelled ones.
ReadBookings ==
    /\ req.pc = "bookings"
    /\ req' = [req EXCEPT !.pc = "holds",
                          !.in.existingBookings = {Times(c) : c \in TodayIn("booked")}]
    /\ UNCHANGED <<schedule, breaks, claim, since, ever, kept, once>>

\* Mutant: the holds are not asked for.
ReadHoldsNone ==
    /\ req.pc = "holds"
    /\ req' = [req EXCEPT !.pc = "service"]
    /\ UNCHANGED <<schedule, breaks, claim, since, ever, kept, once>>

\* The holds neither converted nor expired.
ReadHolds ==
    /\ req.pc = "holds"
    /\ req' = [req EXCEPT !.pc = "service",
                          !.in.existingHolds = {Times(c) : c \in TodayIn("held")}]
    /\ UNCHANGED <<schedule, breaks, claim, since, ever, kept, once>>

\* The service, and the calculation.
ReadService ==
    /\ req.pc = "service"
    /\ \E s \in Services :
          LET in == [req.in EXCEPT !.duration = s.duration, !.buffer = s.buffer]
          IN  req' = [pc |-> "done", in |-> in,
                      slots |-> calculateAvailableSlots(in)]
    /\ UNCHANGED <<schedule, breaks, claim, since, ever, kept, once>>

-----------------------------------------------------------------------------
(* Other requests.                                                         *)

Claim(c, from, to) ==
    /\ claim[c] = from
    /\ claim' = [claim EXCEPT ![c] = to]
    /\ UNCHANGED <<schedule, breaks, req, kept, once>>

\* createHold.
Hold(c) ==
    /\ Claim(c, "none", "held")
    /\ ever' = ever \cup {c}
    /\ UNCHANGED since

\* createBooking turns the hold into a booking, in one transaction.
Book(c) ==
    /\ Claim(c, "held", "booked")
    /\ since' = [since EXCEPT ![c] = IF @ = "held" THEN "taken" ELSE @]
    /\ UNCHANGED ever

\* The hold expires; cancelBooking.
Lapse(c) ==
    /\ Claim(c, "held", "lapsed")
    /\ since' = [since EXCEPT ![c] = "no"]
    /\ UNCHANGED ever
Cancel(c) ==
    /\ Claim(c, "booked", "cancelled")
    /\ since' = [since EXCEPT ![c] = "no"]
    /\ UNCHANGED ever

\* updateSchedule, of which one weekday shows.
UpdateSchedule(row) ==
    /\ schedule' = row
    /\ UNCHANGED <<breaks, claim, req, since, ever, kept, once>>

CreateBreak(b) ==
    /\ b \notin breaks
    /\ breaks' = breaks \cup {b}
    /\ once' = once \cup {b}
    /\ UNCHANGED <<schedule, claim, req, since, ever, kept>>

DeleteBreak(b) ==
    /\ b \in breaks
    /\ breaks' = breaks \ {b}
    /\ kept' = kept \ {b}
    /\ UNCHANGED <<schedule, claim, req, since, ever, once>>

Request ==
    ReadSchedule \/ ReadBreaks \/ ReadBookings \/ ReadHolds \/ ReadService

Next ==
    \/ Request
    \/ \E c \in Claims : Hold(c) \/ Book(c) \/ Lapse(c) \/ Cancel(c)
    \/ \E row \in Schedules : UpdateSchedule(row)
    \/ \E b \in Breaks : CreateBreak(b) \/ DeleteBreak(b)

Spec == Init /\ [][Next]_vars

-----------------------------------------------------------------------------
(* What holds of the code as it is.                                        *)

\* The time from start to end is clear of the interval i.
Clear(start, end, i) == end <= i.startTime \/ i.endTime <= start

Occupied(s) == s.endTime + req.in.buffer

\* What was settled for the whole request is respected, however its five
\* queries interleave with other requests: slot and buffer lie within the hours
\* of the weekday, open when the request began, and stay clear of a booking or
\* a hold that begins that day and did not change, and of a recurring break of
\* the weekday.  Not of a day off, which has no times, of what began before
\* midnight, nor of a hold that became a booking meanwhile.
AnswerRespectsSettled ==
    req.pc = "done" =>
        \A s \in req.slots :
            /\ Works(req.in)
            /\ req.in.schedule.startTime <= s.startTime
            /\ Occupied(s) <= req.in.schedule.endTime
            /\ \A c \in Claims :
                  since[c] \in {"held", "booked"} /\ StartsToday(c)
                  => Clear(s.startTime, Occupied(s), Times(c))
            /\ \A b \in kept :
                  b.isRecurring /\ b.dayOfWeek = Weekday
                  => Occupied(s) <= b.breakStart \/ b.breakEnd <= s.startTime

\* And no slot is withheld without a reason: the time of a candidate that the
\* answer leaves out was held or booked at some moment of the request, by a
\* claim that begins that day, or a break of that day was there.
WithheldForReason ==
    req.pc = "done" /\ Works(req.in) =>
        \A start \in Grid(req.in) :
            LET end == start + totalDuration(req.in) IN
            \/ Slot(req.in, start) \in req.slots
            \/ \E c \in ever : StartsToday(c) /\ ~Clear(start, end, Times(c))
            \/ \E b \in once : /\ b.isRecurring /\ b.dayOfWeek = Weekday
                              /\ start < b.breakEnd /\ b.breakStart < end

\* Nothing was held, booked, released, added or removed since the request began.
Undisturbed ==
    /\ kept = once
    /\ \A c \in ever : since[c] \in {"held", "booked"}

\* The two together: five queries of a table at rest are one.  An answer that
\* nothing disturbed offers a candidate exactly when no claim that begins that
\* day and no recurring break of the weekday takes any of its time.
UndisturbedIsExact ==
    req.pc = "done" /\ Works(req.in) /\ Undisturbed =>
        \A start \in Grid(req.in) :
            LET end == start + totalDuration(req.in) IN
            Slot(req.in, start) \in req.slots <=>
                /\ \A c \in ever :
                      StartsToday(c) => Clear(start, end, Times(c))
                /\ \A b \in once :
                      b.isRecurring /\ b.dayOfWeek = Weekday
                      => end <= b.breakStart \/ b.breakEnd <= start
=============================================================================
