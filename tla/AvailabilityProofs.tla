------------------------- MODULE AvailabilityProofs -------------------------
(***************************************************************************)
(* Proofs about Availability, for any claims, schedules, breaks and        *)
(* services.                                                               *)
(***************************************************************************)
EXTENDS Availability, TLAPS

-----------------------------------------------------------------------------
(* The inductive invariant: what the history says of the tables, and what  *)
(* the arguments gathered so far have to do with the history.              *)

HistorySound ==
    /\ \A c \in Claims :
          /\ since[c] \in {"held", "booked"} => claim[c] = since[c]
          /\ claim[c] \in {"held", "booked"} => c \in ever
    /\ breaks \subseteq once

\* The day is worked, and what is gathered was there at some moment.
GatheredSound ==
    req \in Reading \cup Answer =>
        /\ \A b \in req.in.breaks :
              \E x \in once : Applies(x) /\ b = TimesOfDay(x)
        /\ \A i \in req.in.existingBookings \cup req.in.existingHolds :
              \E c \in ever : StartsToday(c) /\ i = Times(c)
        /\ req.pc # "done" => Works(req.in)

\* What was settled for the whole request is gathered by its query.
GatheredWhole ==
    req \in Reading \cup Answer /\ Works(req.in) =>
        /\ req.pc # "breaks" =>
              \A b \in kept : Applies(b) => TimesOfDay(b) \in req.in.breaks
        /\ req.pc \in {"holds", "service", "done"} =>
              \A c \in Claims : since[c] = "booked" /\ StartsToday(c) =>
                  Times(c) \in req.in.existingBookings
        /\ req.pc \in {"service", "done"} =>
              \A c \in Claims : since[c] = "held" /\ StartsToday(c) =>
                  Times(c) \in req.in.existingHolds

AnswerSound ==
    req.pc = "done" => req.slots = calculateAvailableSlots(req.in)

IInv ==
    /\ TypeOK
    /\ HistorySound
    /\ GatheredSound
    /\ GatheredWhole
    /\ AnswerSound

-----------------------------------------------------------------------------

\* The request, by its label.
LEMMA RequestKinds ==
    ASSUME TypeOK
    PROVE  /\ req.pc = "done" => req \in Answer
           /\ req.pc \in {"breaks", "bookings", "holds", "service"} =>
                 req \in Reading
           /\ req \in Reading \cup Answer => req.in \in Input /\ req # Idle
BY DEF TypeOK, Idle, Reading, Answer

\* The times of the calculator's arguments.
LEMMA InputFacts ==
    ASSUME NEW in \in Input
    PROVE  /\ in.duration \in Nat \ {0} /\ in.buffer \in Nat
           /\ totalDuration(in) = in.duration + in.buffer
           /\ Works(in) => in.schedule.startTime \in Nat
                           /\ in.schedule.endTime \in Nat
BY DEF Input, Schedule, Works, totalDuration

\* The slots of a day are intervals.
LEMMA SlotsAreIntervals ==
    ASSUME NEW in \in Input
    PROVE  calculateAvailableSlots(in) \subseteq Interval
<1>1. CASE Works(in)
  <2>1. \A start \in Grid(in) : Slot(in, start) \in Interval
    BY <1>1, InputFacts DEF Grid, Slot, Interval
  <2> QED
    BY <2>1 DEF calculateAvailableSlots
<1>2. CASE ~Works(in)
  BY <1>2 DEF calculateAvailableSlots
<1> QED
  BY <1>1, <1>2

LEMMA IntervalTimes ==
    ASSUME NEW c \in Claims
    PROVE  Times(c) \in Interval
BY AvailabilityAssumption DEF Times

LEMMA BreakTimes ==
    ASSUME NEW b \in Breaks
    PROVE  TimesOfDay(b) \in Break
BY AvailabilityAssumption DEF TimesOfDay, Break, BreakRow

-----------------------------------------------------------------------------
(* The five queries.                                                       *)

LEMMA InvReadSchedule ==
    ASSUME IInv, ReadSchedule
    PROVE  IInv'
<1> DEFINE in == [schedule |-> schedule, breaks |-> {}, existingBookings |-> {},
                  existingHolds |-> {}, duration |-> 60, buffer |-> 0]
<1>1. in \in Input
  BY AvailabilityAssumption DEF IInv, TypeOK, Input
<1>2. in.breaks = {} /\ in.existingBookings = {} /\ in.existingHolds = {}
  OBVIOUS
<1>3. /\ req' = IF Works(in) THEN [pc |-> "breaks", in |-> in]
                ELSE [pc |-> "done", in |-> in, slots |-> {}]
      /\ since' = [c \in Claims |-> IF claim[c] \in {"held", "booked"}
                                    THEN claim[c] ELSE "no"]
      /\ ever' = {c \in Claims : claim[c] \in {"held", "booked"}}
      /\ kept' = breaks /\ once' = breaks
      /\ UNCHANGED <<schedule, breaks, claim>>
  BY DEF ReadSchedule
<1> HIDE DEF in
<1>4. HistorySound'
  BY <1>3 DEF IInv, TypeOK, HistorySound
<1>5. CASE Works(in)
  <2>1. req' \in Reading /\ req'.in = in /\ req'.pc = "breaks"
    BY <1>1, <1>3, <1>5 DEF Reading
  <2>2. TypeOK'
    BY <1>3, <2>1 DEF IInv, TypeOK
  <2> QED
    BY <1>2, <1>4, <1>5, <2>1, <2>2 DEF IInv, GatheredSound, GatheredWhole,
                                        AnswerSound
<1>6. CASE ~Works(in)
  <2>1. req' \in Answer /\ req'.in = in /\ req'.pc = "done" /\ req'.slots = {}
    BY <1>1, <1>3, <1>6 DEF Answer
  <2>2. TypeOK'
    BY <1>3, <2>1 DEF IInv, TypeOK
  <2>3. calculateAvailableSlots(in) = {}
    BY <1>6 DEF calculateAvailableSlots
  <2>4. AnswerSound'
    BY <2>1, <2>3 DEF AnswerSound
  <2> QED
    BY <1>2, <1>4, <1>6, <2>1, <2>2, <2>4 DEF IInv, GatheredSound, GatheredWhole
<1> QED
  BY <1>5, <1>6

\* A query that adds to the arguments and goes on to the next.
LEMMA ReadingStep ==
    ASSUME IInv, NEW pc \in {"bookings", "holds", "service"}, NEW STATE in,
           in \in Input, req \in Reading, in.schedule = req.in.schedule,
           req' = [pc |-> pc, in |-> in],
           UNCHANGED <<schedule, breaks, claim, since, ever, kept, once>>,
           \A b \in in.breaks : \E x \in once : Applies(x) /\ b = TimesOfDay(x),
           \A i \in in.existingBookings \cup in.existingHolds :
              \E c \in ever : StartsToday(c) /\ i = Times(c),
           \A b \in kept : Applies(b) => TimesOfDay(b) \in in.breaks,
           pc \in {"holds", "service"} =>
              \A c \in Claims : since[c] = "booked" /\ StartsToday(c) =>
                  Times(c) \in in.existingBookings,
           pc = "service" =>
              \A c \in Claims : since[c] = "held" /\ StartsToday(c) =>
                  Times(c) \in in.existingHolds
    PROVE  IInv'
<1>1. req' \in Reading /\ req'.pc = pc /\ req'.in = in
  BY DEF Reading
<1>2. TypeOK'
  BY <1>1 DEF IInv, TypeOK
<1>3. Works(in)
  <2>1. Works(req.in)
    BY DEF IInv, GatheredSound, Reading
  <2> QED
    BY <2>1 DEF Works
<1>4. HistorySound'
  BY DEF IInv, HistorySound
<1>5. GatheredSound'
  BY <1>1, <1>3 DEF GatheredSound
<1>6. GatheredWhole'
  BY <1>1, <1>3 DEF GatheredWhole
<1>7. AnswerSound'
  BY <1>1 DEF AnswerSound
<1> QED
  BY <1>2, <1>4, <1>5, <1>6, <1>7 DEF IInv

LEMMA InvReadBreaks ==
    ASSUME IInv, ReadBreaks
    PROVE  IInv'
<1> DEFINE found == {TimesOfDay(b) : b \in {x \in breaks : Applies(x)}}
           in == [req.in EXCEPT !.breaks = found]
<1>1. req \in Reading /\ req.in \in Input
  BY RequestKinds DEF ReadBreaks, IInv
<1>2. found \subseteq Break
  BY BreakTimes DEF IInv, TypeOK
<1>3. /\ in \in Input /\ in.breaks = found /\ in.schedule = req.in.schedule
      /\ in.existingBookings = req.in.existingBookings
      /\ in.existingHolds = req.in.existingHolds
  BY <1>1, <1>2 DEF Input
<1>4. /\ req' = [pc |-> "bookings", in |-> in]
      /\ UNCHANGED <<schedule, breaks, claim, since, ever, kept, once>>
  BY <1>1 DEF ReadBreaks, Reading
<1>5. /\ \A b \in found : \E x \in once : Applies(x) /\ b = TimesOfDay(x)
      /\ \A b \in kept : Applies(b) => TimesOfDay(b) \in found
  BY DEF IInv, TypeOK, HistorySound
<1>6. \A i \in in.existingBookings \cup in.existingHolds :
         \E c \in ever : StartsToday(c) /\ i = Times(c)
  BY <1>1, <1>3 DEF IInv, GatheredSound
<1> HIDE DEF found, in
<1> QED
  BY <1>1, <1>3, <1>4, <1>5, <1>6, ReadingStep

LEMMA InvReadBookings ==
    ASSUME IInv, ReadBookings
    PROVE  IInv'
<1> DEFINE found == {Times(c) : c \in TodayIn("booked")}
           in == [req.in EXCEPT !.existingBookings = found]
<1>1. req \in Reading /\ req.in \in Input /\ req.pc = "bookings"
  BY RequestKinds DEF ReadBookings, IInv
<1>2. found \subseteq Interval
  BY IntervalTimes DEF TodayIn
<1>3. /\ in \in Input /\ in.existingBookings = found
      /\ in.schedule = req.in.schedule /\ in.breaks = req.in.breaks
      /\ in.existingHolds = req.in.existingHolds
  BY <1>1, <1>2 DEF Input
<1>4. /\ req' = [pc |-> "holds", in |-> in]
      /\ UNCHANGED <<schedule, breaks, claim, since, ever, kept, once>>
  BY <1>1 DEF ReadBookings, Reading
<1>5. /\ \A i \in found : \E c \in ever : StartsToday(c) /\ i = Times(c)
      /\ \A c \in Claims : since[c] = "booked" /\ StartsToday(c) =>
            Times(c) \in found
  BY DEF IInv, HistorySound, TodayIn
<1>6. Works(req.in)
  BY <1>1 DEF IInv, GatheredSound
<1>7. /\ \A b \in in.breaks : \E x \in once : Applies(x) /\ b = TimesOfDay(x)
      /\ \A i \in in.existingHolds : \E c \in ever : StartsToday(c) /\ i = Times(c)
      /\ \A b \in kept : Applies(b) => TimesOfDay(b) \in in.breaks
  BY <1>1, <1>3, <1>6 DEF IInv, GatheredSound, GatheredWhole
<1>8. \A i \in in.existingBookings \cup in.existingHolds :
         \E c \in ever : StartsToday(c) /\ i = Times(c)
  BY <1>3, <1>5, <1>7
<1> HIDE DEF found, in
<1> QED
  BY <1>1, <1>3, <1>4, <1>5, <1>7, <1>8, ReadingStep

LEMMA InvReadHolds ==
    ASSUME IInv, ReadHolds
    PROVE  IInv'
<1> DEFINE found == {Times(c) : c \in TodayIn("held")}
           in == [req.in EXCEPT !.existingHolds = found]
<1>1. req \in Reading /\ req.in \in Input /\ req.pc = "holds"
  BY RequestKinds DEF ReadHolds, IInv
<1>2. found \subseteq Interval
  BY IntervalTimes DEF TodayIn
<1>3. /\ in \in Input /\ in.existingHolds = found
      /\ in.schedule = req.in.schedule /\ in.breaks = req.in.breaks
      /\ in.existingBookings = req.in.existingBookings
  BY <1>1, <1>2 DEF Input
<1>4. /\ req' = [pc |-> "service", in |-> in]
      /\ UNCHANGED <<schedule, breaks, claim, since, ever, kept, once>>
  BY <1>1 DEF ReadHolds, Reading
<1>5. /\ \A i \in found : \E c \in ever : StartsToday(c) /\ i = Times(c)
      /\ \A c \in Claims : since[c] = "held" /\ StartsToday(c) =>
            Times(c) \in found
  BY DEF IInv, HistorySound, TodayIn
<1>6. Works(req.in)
  BY <1>1 DEF IInv, GatheredSound
<1>7. /\ \A b \in in.breaks : \E x \in once : Applies(x) /\ b = TimesOfDay(x)
      /\ \A i \in in.existingBookings : \E c \in ever : StartsToday(c) /\ i = Times(c)
      /\ \A b \in kept : Applies(b) => TimesOfDay(b) \in in.breaks
      /\ \A c \in Claims : since[c] = "booked" /\ StartsToday(c) =>
            Times(c) \in in.existingBookings
  BY <1>1, <1>3, <1>6 DEF IInv, GatheredSound, GatheredWhole
<1>8. \A i \in in.existingBookings \cup in.existingHolds :
         \E c \in ever : StartsToday(c) /\ i = Times(c)
  BY <1>3, <1>5, <1>7
<1> HIDE DEF found, in
<1> QED
  BY <1>1, <1>3, <1>4, <1>5, <1>7, <1>8, ReadingStep

LEMMA InvReadService ==
    ASSUME IInv, ReadService
    PROVE  IInv'
<1>1. req \in Reading /\ req.in \in Input /\ req.pc = "service"
  BY RequestKinds DEF ReadService, IInv
<1>2. PICK s \in Services :
         req' = LET in == [req.in EXCEPT !.duration = s.duration,
                                         !.buffer = s.buffer]
                IN  [pc |-> "done", in |-> in,
                     slots |-> calculateAvailableSlots(in)]
  BY DEF ReadService
<1> DEFINE in == [req.in EXCEPT !.duration = s.duration, !.buffer = s.buffer]
<1>3. /\ in \in Input /\ in.schedule = req.in.schedule
      /\ in.breaks = req.in.breaks /\ in.existingHolds = req.in.existingHolds
      /\ in.existingBookings = req.in.existingBookings
  BY <1>1, AvailabilityAssumption DEF Input
<1>4. /\ req'.pc = "done" /\ req'.in = in
      /\ req'.slots = calculateAvailableSlots(in)
      /\ req' \in Answer
  BY <1>2, <1>3, SlotsAreIntervals DEF Answer
<1>5. UNCHANGED <<schedule, breaks, claim, since, ever, kept, once>>
  BY DEF ReadService
<1>6. Works(req.in)
  BY <1>1 DEF IInv, GatheredSound
<1> HIDE DEF in
<1>7. TypeOK'
  BY <1>4, <1>5 DEF IInv, TypeOK
<1>8. HistorySound'
  BY <1>5 DEF IInv, HistorySound
<1>9. GatheredSound'
  BY <1>1, <1>3, <1>4, <1>5 DEF IInv, GatheredSound
<1>10. GatheredWhole'
  BY <1>1, <1>3, <1>4, <1>5, <1>6 DEF IInv, GatheredWhole
<1>11. AnswerSound'
  BY <1>4 DEF AnswerSound
<1> QED
  BY <1>7, <1>8, <1>9, <1>10, <1>11 DEF IInv

-----------------------------------------------------------------------------
(* The other requests.                                                     *)

\* What is gathered stays sound while the history only tells of more that was
\* taken, and of less that was settled.
LEMMA OtherStep ==
    ASSUME IInv, UNCHANGED req, TypeOK', HistorySound',
           ever \subseteq ever', once \subseteq once', kept' \subseteq kept,
           \A c \in Claims : since'[c] \in {"held", "booked"} =>
               since'[c] = since[c]
    PROVE  IInv'
<1>1. GatheredSound'
  BY DEF IInv, GatheredSound
<1>2. GatheredWhole'
  BY DEF IInv, GatheredWhole
<1>3. AnswerSound'
  BY DEF IInv, AnswerSound
<1> QED
  BY <1>1, <1>2, <1>3 DEF IInv

LEMMA InvClaims ==
    ASSUME IInv, NEW c \in Claims, Hold(c) \/ Book(c) \/ Lapse(c) \/ Cancel(c)
    PROVE  IInv'
<1>1. /\ UNCHANGED <<schedule, breaks, req, kept, once>>
      /\ \/ claim' = [claim EXCEPT ![c] = "held"] /\ claim[c] = "none"
            /\ ever' = ever \cup {c} /\ since' = since
         \/ claim' = [claim EXCEPT ![c] = "booked"] /\ claim[c] = "held"
            /\ ever' = ever
            /\ since' = [since EXCEPT ![c] = IF since[c] = "held" THEN "taken"
                                                                  ELSE since[c]]
         \/ \E to \in {"lapsed", "cancelled"} :
               claim' = [claim EXCEPT ![c] = to] /\ ever' = ever
               /\ since' = [since EXCEPT ![c] = "no"]
  BY DEF Hold, Book, Lapse, Cancel, Claim
<1>2. TypeOK'
  BY <1>1 DEF IInv, TypeOK
<1>3. \A d \in Claims : since'[d] \in {"held", "booked"} => since'[d] = since[d]
  BY <1>1 DEF IInv, TypeOK
<1>4. HistorySound'
  BY <1>1 DEF IInv, TypeOK, HistorySound
<1> QED
  BY <1>1, <1>2, <1>3, <1>4, OtherStep

LEMMA InvSchedules ==
    ASSUME IInv,
           \/ \E row \in Schedules : UpdateSchedule(row)
           \/ \E b \in Breaks : CreateBreak(b) \/ DeleteBreak(b)
    PROVE  IInv'
<1>1. /\ UNCHANGED <<claim, req, since, ever>>
      /\ schedule' \in Schedules
      /\ once \subseteq once' /\ once' \subseteq Breaks
      /\ kept' \subseteq kept /\ kept' \subseteq breaks'
      /\ breaks' \subseteq once'
  BY DEF UpdateSchedule, CreateBreak, DeleteBreak, IInv, TypeOK, HistorySound
<1>2. TypeOK'
  BY <1>1 DEF IInv, TypeOK
<1>3. HistorySound'
  BY <1>1 DEF IInv, HistorySound
<1> QED
  BY <1>1, <1>2, <1>3, OtherStep

-----------------------------------------------------------------------------
(* The theorems.                                                           *)

LEMMA InvInit == Init => IInv
BY DEF Init, IInv, TypeOK, HistorySound, GatheredSound, GatheredWhole,
       AnswerSound, Idle, Reading, Answer

LEMMA InvNext == IInv /\ [Next]_vars => IInv'
<1> SUFFICES ASSUME IInv, [Next]_vars PROVE IInv'
  OBVIOUS
<1>1. CASE UNCHANGED vars
  BY <1>1, OtherStep DEF vars, IInv, TypeOK, HistorySound
<1> QED
  BY <1>1, InvReadSchedule, InvReadBreaks, InvReadBookings, InvReadHolds,
     InvReadService, InvClaims, InvSchedules DEF Next, Request

LEMMA Inductive == Spec => []IInv
BY InvInit, InvNext, PTL DEF Spec

\* The arguments of the calculator are of the types it expects, whatever was
\* found by the five queries.
THEOREM AvailabilityTypes == Spec => []TypeOK
<1>1. IInv => TypeOK
  BY DEF IInv
<1> QED
  BY <1>1, Inductive, PTL

\* A slot of an answer: a candidate that runs into nothing.
LEMMA Answered ==
    ASSUME IInv, req.pc = "done"
    PROVE  /\ req \in Answer /\ req.in \in Input
           /\ \A s \in req.slots :
                 /\ Works(req.in)
                 /\ \E start \in Grid(req.in) :
                       s = Slot(req.in, start) /\ ~Blocked(req.in, start)
           /\ Works(req.in) => \A start \in Grid(req.in) :
                 ~Blocked(req.in, start) => Slot(req.in, start) \in req.slots
<1>1. req \in Answer /\ req.in \in Input
  BY RequestKinds DEF IInv
<1> QED
  BY <1>1 DEF IInv, AnswerSound, calculateAvailableSlots

\* However the queries interleave with other requests, every slot of the answer
\* lies with its buffer within the hours the request found the provider open,
\* and runs into no booking or hold that begins that day and stayed what it was
\* all the time, nor into a recurring break of the weekday that was there all
\* the time.
THEOREM SettledIsRespected == Spec => []AnswerRespectsSettled
<1>1. ASSUME IInv
      PROVE  AnswerRespectsSettled
  <2> SUFFICES ASSUME req.pc = "done", NEW s \in req.slots
               PROVE  /\ Works(req.in)
                      /\ req.in.schedule.startTime <= s.startTime
                      /\ Occupied(s) <= req.in.schedule.endTime
                      /\ \A c \in Claims :
                            since[c] \in {"held", "booked"} /\ StartsToday(c)
                            => Clear(s.startTime, Occupied(s), Times(c))
                      /\ \A b \in kept :
                            b.isRecurring /\ b.dayOfWeek = Weekday
                            => Occupied(s) <= b.breakStart
                               \/ b.breakEnd <= s.startTime
    BY DEF AnswerRespectsSettled
  <2> DEFINE in == req.in
  <2>1. Works(in) /\ in \in Input /\ req \in Answer
    BY <1>1, Answered
  <2>2. PICK start \in Grid(in) : s = Slot(in, start) /\ ~Blocked(in, start)
    BY <1>1, Answered
  <2>3. /\ start \in Int /\ in.duration \in Nat /\ in.buffer \in Nat
        /\ totalDuration(in) = in.duration + in.buffer
        /\ s.startTime = start /\ s.endTime = start + in.duration
        /\ Occupied(s) = start + totalDuration(in)
    BY <2>1, <2>2, InputFacts DEF Grid, Slot, Occupied
  <2>4. ASSUME NEW c \in Claims, since[c] \in {"held", "booked"}, StartsToday(c)
        PROVE  Clear(s.startTime, Occupied(s), Times(c))
    <3>1. Times(c) \in in.existingBookings \cup in.existingHolds
      BY <1>1, <2>1, <2>4 DEF IInv, GatheredWhole
    <3>2. ~isOverlapping(start, start + totalDuration(in),
                         Times(c).startTime, Times(c).endTime)
      BY <2>2, <3>1 DEF Blocked
    <3>3. Times(c).startTime \in Int /\ Times(c).endTime \in Int
      BY IntervalTimes DEF Interval
    <3> QED
      BY <2>3, <3>2, <3>3 DEF isOverlapping, Clear
  <2>5. ASSUME NEW b \in kept, b.isRecurring, b.dayOfWeek = Weekday
        PROVE  Occupied(s) <= b.breakStart \/ b.breakEnd <= s.startTime
    <3>1. b \in Breaks
      BY <1>1 DEF IInv, TypeOK
    <3>2. b \in BreakRow /\ (RecurringBreak(b) \/ OneTimeBreak(b))
      BY <3>1, AvailabilityAssumption
    <3>3. RecurringBreak(b)
      BY <2>5, <3>2 DEF OneTimeBreak
    <3>4. b.breakStart \in Nat /\ b.breakEnd \in Nat /\ b.breakStart # Null
          /\ b.breakEnd # Null
      BY <3>2, <3>3 DEF RecurringBreak, BreakRow
    <3>5. TimesOfDay(b) \in in.breaks
      BY <1>1, <2>1, <2>5 DEF IInv, GatheredWhole, Applies
    <3>6. /\ TimesOfDay(b).breakStart = b.breakStart
          /\ TimesOfDay(b).breakEnd = b.breakEnd
      BY DEF TimesOfDay
    <3>7. ~isOverlapping(start, start + totalDuration(in), b.breakStart, b.breakEnd)
      BY <2>2, <3>4, <3>5, <3>6 DEF Blocked, Timed
    <3> QED
      BY <2>3, <3>4, <3>7 DEF isOverlapping
  <2>6. in.schedule.startTime <= s.startTime /\ Occupied(s) <= in.schedule.endTime
    BY <2>1, <2>2, <2>3, InputFacts DEF Grid
  <2> QED
    BY <2>1, <2>4, <2>5, <2>6
<1> QED
  BY <1>1, Inductive, PTL

\* Whatever is withheld was taken, or blocked, at some moment of the request.
THEOREM WithheldWithReason == Spec => []WithheldForReason
<1>1. ASSUME IInv
      PROVE  WithheldForReason
  <2> SUFFICES ASSUME req.pc = "done", Works(req.in), NEW start \in Grid(req.in),
                      Slot(req.in, start) \notin req.slots
               PROVE  \/ \E c \in ever :
                            /\ StartsToday(c)
                            /\ ~Clear(start, start + totalDuration(req.in),
                                      Times(c))
                      \/ \E b \in once :
                            /\ b.isRecurring /\ b.dayOfWeek = Weekday
                            /\ start < b.breakEnd
                            /\ b.breakStart < start + totalDuration(req.in)
    BY DEF WithheldForReason
  <2> DEFINE in  == req.in
             end == start + totalDuration(in)
  <2>1. req \in Answer /\ in \in Input /\ Blocked(in, start)
    BY <1>1, Answered
  <2>2. start \in Int /\ end \in Int
    BY <2>1, InputFacts DEF Grid
  <2>3. CASE \E i \in in.existingBookings \cup in.existingHolds :
                isOverlapping(start, end, i.startTime, i.endTime)
    <3>1. PICK i \in in.existingBookings \cup in.existingHolds :
                  isOverlapping(start, end, i.startTime, i.endTime)
      BY <2>3
    <3>2. PICK c \in ever : StartsToday(c) /\ i = Times(c)
      BY <1>1, <2>1 DEF IInv, GatheredSound
    <3>3. c \in Claims
      BY <1>1 DEF IInv, TypeOK
    <3>4. Times(c).startTime \in Int /\ Times(c).endTime \in Int
      BY <3>3, IntervalTimes DEF Interval
    <3>5. ~Clear(start, end, Times(c))
      BY <2>2, <3>1, <3>2, <3>4 DEF isOverlapping, Clear
    <3> QED
      BY <3>2, <3>5
  <2>4. CASE \E b \in Timed(in.breaks) :
                isOverlapping(start, end, b.breakStart, b.breakEnd)
    <3>1. PICK b \in Timed(in.breaks) :
                  isOverlapping(start, end, b.breakStart, b.breakEnd)
      BY <2>4
    <3>2. b \in in.breaks /\ b.breakStart # Null
      BY DEF Timed
    <3>3. PICK x \in once : Applies(x) /\ b = TimesOfDay(x)
      BY <1>1, <2>1, <3>2 DEF IInv, GatheredSound
    <3>4. b.breakStart = x.breakStart /\ b.breakEnd = x.breakEnd
      BY <3>3 DEF TimesOfDay
    <3>5. x \in BreakRow /\ (RecurringBreak(x) \/ OneTimeBreak(x))
      BY <1>1, AvailabilityAssumption DEF IInv, TypeOK
    <3>6. RecurringBreak(x)
      BY <3>2, <3>4, <3>5 DEF OneTimeBreak
    <3>7. x.isRecurring /\ x.dayOfWeek = Weekday
      BY <3>3, <3>6 DEF RecurringBreak, Applies
    <3>8. x.breakStart \in Nat /\ x.breakEnd \in Nat
      BY <3>5, <3>6 DEF RecurringBreak, BreakRow
    <3>9. start < x.breakEnd /\ x.breakStart < end
      BY <2>2, <3>1, <3>4, <3>8 DEF isOverlapping
    <3> QED
      BY <3>7, <3>9
  <2> QED
    BY <2>1, <2>3, <2>4 DEF Blocked
<1> QED
  BY <1>1, Inductive, PTL

\* Five queries of tables at rest answer as one query would.
THEOREM UndisturbedIsAnswered == Spec => []UndisturbedIsExact
<1>1. ASSUME TypeOK, AnswerRespectsSettled, WithheldForReason
      PROVE  UndisturbedIsExact
  <2> SUFFICES ASSUME req.pc = "done", Works(req.in), Undisturbed,
                      NEW start \in Grid(req.in)
               PROVE  Slot(req.in, start) \in req.slots <=>
                         /\ \A c \in ever :
                               StartsToday(c) =>
                               Clear(start, start + totalDuration(req.in),
                                     Times(c))
                         /\ \A b \in once :
                               b.isRecurring /\ b.dayOfWeek = Weekday
                               => \/ start + totalDuration(req.in)
                                       <= b.breakStart
                                  \/ b.breakEnd <= start
    BY DEF UndisturbedIsExact
  <2> DEFINE end == start + totalDuration(req.in)
             s   == Slot(req.in, start)
  <2>1. req.in \in Input
    BY <1>1, RequestKinds
  <2>2. /\ start \in Int /\ end \in Int
        /\ s.startTime = start /\ Occupied(s) = end
    BY <2>1, InputFacts DEF Grid, Slot, Occupied
  <2>3. \A b \in once : b.isRecurring =>
           b.breakStart \in Nat /\ b.breakEnd \in Nat
    <3> SUFFICES ASSUME NEW b \in once, b.isRecurring
                 PROVE  b.breakStart \in Nat /\ b.breakEnd \in Nat
      OBVIOUS
    <3>1. b \in BreakRow /\ (RecurringBreak(b) \/ OneTimeBreak(b))
      BY <1>1, AvailabilityAssumption DEF TypeOK
    <3> QED
      BY <3>1 DEF BreakRow, RecurringBreak, OneTimeBreak
  <2>4. /\ ever \subseteq Claims
        /\ \A c \in ever : since[c] \in {"held", "booked"}
        /\ kept = once
    BY <1>1 DEF Undisturbed, TypeOK
  <2> HIDE DEF end, s
  <2>5. ASSUME s \in req.slots
        PROVE  /\ \A c \in ever :
                     StartsToday(c) => Clear(start, end, Times(c))
               /\ \A b \in once :
                     b.isRecurring /\ b.dayOfWeek = Weekday
                     => end <= b.breakStart \/ b.breakEnd <= start
    BY <1>1, <2>2, <2>4, <2>5 DEF AnswerRespectsSettled
  <2>6. ASSUME s \notin req.slots
        PROVE  \/ \E c \in ever :
                     StartsToday(c) /\ ~Clear(start, end, Times(c))
               \/ \E b \in once : /\ b.isRecurring /\ b.dayOfWeek = Weekday
                                 /\ start < b.breakEnd /\ b.breakStart < end
    BY <1>1, <2>6 DEF WithheldForReason, end, s
  <2>7. ASSUME NEW b \in once, b.isRecurring, start < b.breakEnd,
               b.breakStart < end
        PROVE  ~(end <= b.breakStart \/ b.breakEnd <= start)
    BY <2>2, <2>3, <2>7
  <2>8. s \in req.slots <=>
           /\ \A c \in ever :
                 StartsToday(c) => Clear(start, end, Times(c))
           /\ \A b \in once :
                 b.isRecurring /\ b.dayOfWeek = Weekday
                 => end <= b.breakStart \/ b.breakEnd <= start
    BY <2>5, <2>6, <2>7
  <2> QED
    BY <2>8 DEF end, s
<1> QED
  BY <1>1, AvailabilityTypes, SettledIsRespected, WithheldWithReason, PTL
=============================================================================
