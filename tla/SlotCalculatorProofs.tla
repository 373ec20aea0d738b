----------------------- MODULE SlotCalculatorProofs -----------------------
(***************************************************************************)
(* Proofs about the loop of calculateAvailableSlots, for every schedule,   *)
(* breaks, bookings, holds, duration and buffer.                           *)
(***************************************************************************)
EXTENDS SlotCalculator, SequenceTheorems, TLAPS

-----------------------------------------------------------------------------
(* The inductive invariant.                                                *)

\* The candidates before m that nothing blocks.
Free(m) == {s \in Grid(input) : s < m /\ ~Blocked(input, s)}

\* The loop stands at a point of the grid, and leaves it behind its end only.
OnGrid ==
    /\ ~finished => Works(input)
    /\ Works(input) =>
          /\ currentStart >= input.schedule.startTime
          /\ (currentStart - input.schedule.startTime) % totalDuration(input) = 0
          /\ finished => currentStart + totalDuration(input)
                            > input.schedule.endTime

\* The slots found are the free candidates behind it, one after the other.
FoundFree ==
    /\ ~Works(input) => slots = <<>>
    /\ Works(input) => Found = {Slot(input, s) : s \in Free(currentStart)}
    /\ \A i, j \in 1..Len(slots) : i < j =>
          slots[i].startTime + totalDuration(input) <= slots[j].startTime

IInv == TypeOK /\ OnGrid /\ FoundFree

-----------------------------------------------------------------------------
(* The arguments.                                                          *)

\* A call has arguments the DTOs admit; its slots take some time.
LEMMA InputFacts ==
    ASSUME NEW in \in Inputs
    PROVE  /\ in \in Input
           /\ in.duration \in Nat \ {0}
           /\ in.buffer \in Nat
           /\ totalDuration(in) \in Nat \ {0}
           /\ totalDuration(in) = in.duration + in.buffer
           /\ Works(in) => /\ in.schedule.startTime \in Nat
                           /\ in.schedule.endTime \in Nat
BY InputAssumption DEF Input, Schedule, Works, totalDuration

LEMMA Division ==
    ASSUME NEW d \in Nat \ {0}, NEW x \in Nat
    PROVE  /\ x \div d \in Int
           /\ x % d \in 0..(d - 1)
           /\ x = d * (x \div d) + (x % d)
OBVIOUS

LEMMA MultiplesApart ==
    ASSUME NEW d \in Nat \ {0}, NEW p \in Int, NEW q \in Int,
           d * p <= d * q, d * q < d * p + d
    PROVE  p = q
<1>1. CASE q < p
  <2>1. d * p >= d * (q + 1)
    BY <1>1
  <2>2. d * (q + 1) = d * q + d
    OBVIOUS
  <2>3. d * q >= d * p
    OBVIOUS
  <2> QED
    BY <2>1, <2>2, <2>3
<1>2. CASE q > p
  <2>1. d * q >= d * (p + 1)
    BY <1>2
  <2>2. d * (p + 1) = d * p + d
    OBVIOUS
  <2> QED
    BY <2>1, <2>2
<1> QED
  BY <1>1, <1>2

\* Two points of a grid that lie closer than its step are the same point.
LEMMA GridStep ==
    ASSUME NEW d \in Nat \ {0}, NEW x \in Nat, NEW y \in Nat,
           x % d = 0, y % d = 0, x <= y, y < x + d
    PROVE  x = y
<1>1. x = d * (x \div d) /\ x \div d \in Int
  BY Division
<1>2. y = d * (y \div d) /\ y \div d \in Int
  BY Division
<1>3. x \div d = y \div d
  BY <1>1, <1>2, MultiplesApart
<1> QED
  BY <1>1, <1>2, <1>3

\* One step further is a point of the grid again.
LEMMA GridNext ==
    ASSUME NEW d \in Nat \ {0}, NEW x \in Nat, x % d = 0
    PROVE  (x + d) % d = 0
<1> DEFINE y == x + d
           r == y % d
<1>1. x = d * (x \div d) /\ x \div d \in Int
  BY Division
<1>2. /\ y = d * (y \div d) + r
      /\ y \div d \in Int
      /\ r \in 0..(d - 1)
  <2>1. y \in Nat
    OBVIOUS
  <2> HIDE DEF y
  <2> QED
    BY <2>1, Division
<1>3. y = d * ((x \div d) + 1)
  BY <1>1
<1>4. y \div d = (x \div d) + 1
  <2>1. /\ d * (y \div d) <= d * ((x \div d) + 1)
        /\ d * ((x \div d) + 1) < d * (y \div d) + d
    BY <1>2, <1>3
  <2> QED
    BY <2>1, <1>1, <1>2, MultiplesApart
<1> QED
  BY <1>2, <1>3, <1>4

-----------------------------------------------------------------------------
(* The steps.                                                              *)

LEMMA InvInit == Init => IInv
<1> SUFFICES ASSUME Init
             PROVE  IInv
  OBVIOUS
<1>1. /\ input \in Inputs
      /\ slots = <<>>
      /\ Len(slots) = 0
  BY DEF Init
<1>2. TypeOK
  BY <1>1, InputFacts DEF Init, TypeOK
<1>3. OnGrid
  <2>1. finished <=> ~Works(input)
    BY DEF Init, Works
  <2>2. ASSUME NEW d \in Nat \ {0}
        PROVE  0 % d = 0
    OBVIOUS
  <2>3. ASSUME Works(input)
        PROVE  /\ currentStart >= input.schedule.startTime
               /\ (currentStart - input.schedule.startTime)
                     % totalDuration(input) = 0
    <3>1. /\ input.schedule.startTime \in Nat
          /\ currentStart = input.schedule.startTime
          /\ currentStart - input.schedule.startTime = 0
      BY <1>1, <2>3, InputFacts DEF Init
    <3> QED
      BY <1>1, <2>2, <3>1, InputFacts
  <2> QED
    BY <2>1, <2>3 DEF OnGrid
<1>4. FoundFree
  <2>1. Found = {}
    BY <1>1 DEF Found
  <2>2. Works(input) => Free(currentStart) = {}
    BY <1>1, InputFacts DEF Init, Free, Grid
  <2> QED
    BY <1>1, <2>1, <2>2 DEF FoundFree
<1> QED
  BY <1>2, <1>3, <1>4 DEF IInv

\* A candidate that fits the schedule is the next point of the grid.
LEMMA CandidateOnGrid ==
    ASSUME IInv, Candidate
    PROVE  /\ input \in Inputs
           /\ Works(input)
           /\ currentStart \in Grid(input)
           /\ currentStart' = currentStart + totalDuration(input)
           /\ \A s \in Grid(input) : s < currentStart' <=>
                 s < currentStart \/ s = currentStart
<1> DEFINE d == totalDuration(input)
           first == input.schedule.startTime
<1>1. /\ input \in Inputs
      /\ Works(input)
      /\ currentStart \in Nat
      /\ currentStart >= first
      /\ (currentStart - first) % d = 0
      /\ currentStart + d <= input.schedule.endTime
      /\ currentStart' = currentStart + d
  BY DEF IInv, TypeOK, OnGrid, Candidate
<1>2. d \in Nat \ {0} /\ first \in Nat /\ input.schedule.endTime \in Nat
  BY <1>1, InputFacts
<1>3. currentStart \in Grid(input)
  BY <1>1, <1>2 DEF Grid
<1>4. ASSUME NEW s \in Grid(input)
      PROVE  s < currentStart' <=> s < currentStart \/ s = currentStart
  <2>1. s \in Nat /\ s >= first /\ (s - first) % d = 0
    BY <1>2 DEF Grid
  <2>2. ASSUME s >= currentStart, s < currentStart + d
        PROVE  s = currentStart
    <3>1. currentStart - first \in Nat /\ s - first \in Nat
      BY <1>1, <1>2, <2>1
    <3>2. currentStart - first = s - first
      <4>1. currentStart - first <= s - first
        BY <1>1, <1>2, <2>1, <2>2
      <4>2. s - first < (currentStart - first) + d
        BY <1>1, <1>2, <2>1, <2>2
      <4> QED
        BY <1>1, <1>2, <2>1, <3>1, <4>1, <4>2, GridStep
    <3> QED
      BY <3>2, <1>1, <1>2, <2>1
  <2> QED
    BY <1>1, <1>2, <2>1, <2>2
<1> QED
  BY <1>1, <1>3, <1>4

LEMMA InvCandidate ==
    ASSUME IInv, Candidate
    PROVE  IInv'
<1> DEFINE d == totalDuration(input)
           first == input.schedule.startTime
           new == Slot(input, currentStart)
<1>1. /\ input \in Inputs
      /\ Works(input)
      /\ currentStart \in Grid(input)
      /\ currentStart' = currentStart + d
      /\ \A s \in Grid(input) : s < currentStart' <=>
            s < currentStart \/ s = currentStart
      /\ input' = input
      /\ finished' = finished
      /\ ~finished
  BY CandidateOnGrid DEF Candidate
<1>2. /\ d \in Nat \ {0}
      /\ d = input.duration + input.buffer
      /\ input.duration \in Nat \ {0}
      /\ first \in Nat
      /\ currentStart \in Nat
      /\ slots \in Seq(Interval)
  BY <1>1, InputFacts DEF IInv, TypeOK
<1>3. /\ new \in Interval
      /\ new.startTime = currentStart
  BY <1>2 DEF Slot, Interval
<1>4. slots' = IF Blocked(input, currentStart) THEN slots
               ELSE Append(slots, new)
  BY DEF Candidate, Kept
<1>5. TypeOK'
  BY <1>1, <1>2, <1>3, <1>4 DEF IInv, TypeOK
<1>6. OnGrid'
  <2>1. currentStart - first \in Nat /\ (currentStart - first) % d = 0
    BY <1>1, <1>2 DEF IInv, OnGrid
  <2>2. ((currentStart - first) + d) % d = 0
    BY <1>2, <2>1, GridNext
  <2>3. (currentStart - first) + d = currentStart' - first
    BY <1>1, <1>2
  <2>4. /\ Works(input)'
        /\ (currentStart' - first) % d = 0
        /\ currentStart' >= first
    BY <1>1, <1>2, <2>1, <2>2, <2>3 DEF Works
  <2> QED
    BY <1>1, <2>4 DEF OnGrid, Works, totalDuration
<1>7. Free(currentStart)' =
         IF Blocked(input, currentStart) THEN Free(currentStart)
         ELSE Free(currentStart) \cup {currentStart}
  BY <1>1 DEF Free, Grid, Blocked, totalDuration
<1>8. Found' = IF Blocked(input, currentStart) THEN Found
               ELSE Found \cup {new}
  <2>1. CASE Blocked(input, currentStart)
    BY <1>4, <2>1 DEF Found
  <2>2. CASE ~Blocked(input, currentStart)
    <3>1. /\ slots' = Append(slots, new)
          /\ Len(slots') = Len(slots) + 1
          /\ Len(slots) \in Nat
          /\ \A i \in 1..Len(slots) : slots'[i] = slots[i]
          /\ slots'[Len(slots) + 1] = new
      BY <1>2, <1>3, <1>4, <2>2
    <3>2. 1..Len(slots') = (1..Len(slots)) \cup {Len(slots) + 1}
      BY <3>1
    <3> QED
      BY <2>2, <3>1, <3>2 DEF Found
  <2> QED
    BY <2>1, <2>2
<1>9. FoundFree'
  <2>1. Found = {Slot(input, s) : s \in Free(currentStart)}
    BY <1>1 DEF IInv, FoundFree
  <2>2. Found' = {Slot(input, s) : s \in Free(currentStart)'}
    BY <1>7, <1>8, <2>1
  <2>3. \A i \in 1..Len(slots) : slots[i].startTime + d <= currentStart
    <3> SUFFICES ASSUME NEW i \in 1..Len(slots)
                 PROVE  slots[i].startTime + d <= currentStart
      OBVIOUS
    <3>1. PICK s \in Free(currentStart) : slots[i] = Slot(input, s)
      BY <2>1 DEF Found
    <3>2. slots[i].startTime = s /\ s \in Grid(input) /\ s < currentStart
      BY <3>1 DEF Free, Slot
    <3>3. /\ s \in Nat /\ s >= first /\ (s - first) % d = 0
          /\ currentStart >= first /\ (currentStart - first) % d = 0
      BY <1>1, <1>2, <3>2 DEF Grid, IInv, OnGrid
    <3>4. s - first \in Nat /\ currentStart - first \in Nat
      BY <1>2, <3>3
    <3>5. ~(currentStart - first < (s - first) + d)
      <4> SUFFICES ASSUME currentStart - first < (s - first) + d
                   PROVE  FALSE
        OBVIOUS
      <4>1. s - first <= currentStart - first
        BY <1>2, <3>2, <3>3
      <4>2. s - first = currentStart - first
        BY <1>2, <3>3, <3>4, <4>1, GridStep
      <4> QED
        BY <4>2, <1>2, <3>2, <3>3
    <3>6. s + d <= currentStart
      BY <1>2, <3>4, <3>5, <3>3
    <3> QED
      BY <3>2, <3>6
  <2>4. ASSUME NEW i \in 1..Len(slots'), NEW j \in 1..Len(slots'), i < j
        PROVE  slots'[i].startTime + d <= slots'[j].startTime
    <3>1. CASE Blocked(input, currentStart)
      BY <1>4, <2>4, <3>1 DEF IInv, FoundFree
    <3>2. CASE ~Blocked(input, currentStart)
      <4>1. /\ Len(slots') = Len(slots) + 1
            /\ Len(slots) \in Nat
            /\ \A k \in 1..Len(slots) : slots'[k] = slots[k]
            /\ slots'[Len(slots) + 1].startTime = currentStart
        BY <1>2, <1>3, <1>4, <3>2
      <4>2. i \in 1..Len(slots)
        BY <2>4, <4>1
      <4>3. CASE j \in 1..Len(slots)
        BY <2>4, <4>1, <4>2, <4>3 DEF IInv, FoundFree
      <4>4. CASE j = Len(slots) + 1
        BY <2>3, <4>1, <4>2, <4>4
      <4> QED
        BY <4>1, <4>3, <4>4
    <3> QED
      BY <3>1, <3>2
  <2> QED
    BY <1>1, <2>2, <2>4 DEF FoundFree, Works, totalDuration, Slot
<1> QED
  BY <1>5, <1>6, <1>9 DEF IInv

LEMMA InvFinish ==
    ASSUME IInv, Finish
    PROVE  IInv'
<1>1. TypeOK'
  BY DEF IInv, TypeOK, Finish
<1>2. OnGrid'
  BY DEF IInv, OnGrid, Finish, Works, totalDuration
<1>3. FoundFree'
  BY DEF IInv, FoundFree, Finish, Works, totalDuration, Found, Free, Grid,
         Blocked, Slot
<1> QED
  BY <1>1, <1>2, <1>3 DEF IInv

LEMMA Inductive == Spec => []IInv
<1>1. IInv /\ UNCHANGED vars => IInv'
  BY DEF IInv, TypeOK, OnGrid, FoundFree, vars, Works, totalDuration, Found,
         Free, Grid, Blocked, Slot
<1>2. IInv /\ [Next]_vars => IInv'
  BY <1>1, InvCandidate, InvFinish DEF Next
<1> QED
  BY InvInit, <1>2, PTL DEF Spec

-----------------------------------------------------------------------------
(* The theorems.                                                           *)

\* The loop keeps to its types, whatever it is given.
THEOREM LoopTypes == Spec => []TypeOK
BY Inductive, PTL DEF IInv

\* What runs into nothing takes no minute of anything.
LEMMA UnblockedIsVacant ==
    ASSUME NEW in \in Inputs, NEW s \in Nat, ~Blocked(in, s)
    PROVE  Vacant(in, s)
<1> SUFFICES ASSUME NEW m \in s..(s + totalDuration(in) - 1), Taken(in, m)
             PROVE  FALSE
  BY DEF Vacant
<1>1. /\ totalDuration(in) \in Nat \ {0}
      /\ in \in Input
  BY InputFacts
<1>2. m \in Nat /\ s <= m /\ m < s + totalDuration(in)
  BY <1>1
<1>3. CASE \E b \in Timed(in.breaks) : b.breakStart <= m /\ m < b.breakEnd
  <2>1. PICK b \in Timed(in.breaks) : b.breakStart <= m /\ m < b.breakEnd
    BY <1>3
  <2>2. b.breakStart \in Nat /\ b.breakEnd \in Nat
    BY <1>1 DEF Timed, Input, Break
  <2> QED
    BY <1>1, <1>2, <2>1, <2>2 DEF Blocked, isOverlapping
<1>4. CASE \E b \in in.existingBookings \cup in.existingHolds :
              b.startTime <= m /\ m < b.endTime
  <2>1. PICK b \in in.existingBookings \cup in.existingHolds :
               b.startTime <= m /\ m < b.endTime
    BY <1>4
  <2>2. b.startTime \in Int /\ b.endTime \in Int
    BY <1>1 DEF Input, Interval
  <2> QED
    BY <1>1, <1>2, <2>1, <2>2 DEF Blocked, isOverlapping
<1> QED
  BY <1>3, <1>4 DEF Taken

\* And the other way round, when every break ends after it begins.
LEMMA VacantIsUnblocked ==
    ASSUME NEW in \in Inputs, NEW s \in Nat, Regular(in), Vacant(in, s)
    PROVE  ~Blocked(in, s)
<1> DEFINE Span == s..(s + totalDuration(in) - 1)
<1>1. /\ totalDuration(in) \in Nat \ {0}
      /\ in \in Input
  BY InputFacts
<1>2. ASSUME NEW from \in Int, NEW to \in Int, from < to,
             isOverlapping(s, s + totalDuration(in), from, to)
      PROVE  \E m \in Span : from <= m /\ m < to
  <2> DEFINE m == IF from <= s THEN s ELSE from
  <2>1. m \in Span /\ from <= m /\ m < to
    BY <1>1, <1>2 DEF isOverlapping
  <2> QED
    BY <2>1
<1>3. \A m \in Span : ~Taken(in, m)
  BY DEF Vacant
<1> HIDE DEF Span
<1>4. ASSUME NEW b \in Timed(in.breaks)
      PROVE  ~isOverlapping(s, s + totalDuration(in), b.breakStart, b.breakEnd)
  <2>1. /\ b.breakStart \in Nat /\ b.breakEnd \in Nat
        /\ b.breakStart < b.breakEnd
    BY <1>1 DEF Timed, Input, Break, Regular
  <2>2. ASSUME isOverlapping(s, s + totalDuration(in), b.breakStart, b.breakEnd)
        PROVE  FALSE
    <3>1. PICK m \in Span : b.breakStart <= m /\ m < b.breakEnd
      BY <1>2, <2>1, <2>2
    <3>2. Taken(in, m)
      BY <3>1 DEF Taken
    <3> QED
      BY <1>3, <3>1, <3>2
  <2> QED
    BY <2>2
<1>5. ASSUME NEW b \in in.existingBookings \cup in.existingHolds
      PROVE  ~isOverlapping(s, s + totalDuration(in), b.startTime, b.endTime)
  <2>1. /\ b.startTime \in Int /\ b.endTime \in Int
        /\ b.startTime < b.endTime
    BY <1>1 DEF Input, Interval
  <2>2. ASSUME isOverlapping(s, s + totalDuration(in), b.startTime, b.endTime)
        PROVE  FALSE
    <3>1. PICK m \in Span : b.startTime <= m /\ m < b.endTime
      BY <1>2, <2>1, <2>2
    <3>2. Taken(in, m)
      BY <3>1 DEF Taken
    <3> QED
      BY <1>3, <3>1, <3>2
  <2> QED
    BY <2>2
<1> QED
  BY <1>4, <1>5 DEF Blocked

\* A provider can serve every slot offered: each lies within the schedule with
\* its buffer, runs into nothing, and begins after the buffer of the last one.
THEOREM OffersAreServable == Spec => []SlotsServable
<1> SUFFICES ASSUME IInv
             PROVE  SlotsServable
  BY Inductive, PTL
<1> SUFFICES ASSUME NEW i \in 1..Len(slots)
             PROVE  /\ slots[i].startTime >= input.schedule.startTime
                    /\ slots[i].endTime + input.buffer <= input.schedule.endTime
                    /\ slots[i].endTime = slots[i].startTime + input.duration
                    /\ Vacant(input, slots[i].startTime)
                    /\ \A j \in 1..Len(slots) : i < j =>
                          slots[i].endTime + input.buffer <= slots[j].startTime
  BY DEF SlotsServable
<1>1. input \in Inputs /\ slots # <<>>
  BY DEF IInv, TypeOK
<1>2. Works(input)
  BY <1>1 DEF IInv, FoundFree
<1>3. PICK s \in Free(currentStart) : slots[i] = Slot(input, s)
  BY <1>2 DEF IInv, FoundFree, Found
<1>4. /\ s \in Grid(input) /\ ~Blocked(input, s)
      /\ slots[i].startTime = s
      /\ slots[i].endTime = s + input.duration
  BY <1>3 DEF Free, Slot
<1>5. /\ input.duration \in Nat \ {0} /\ input.buffer \in Nat
      /\ totalDuration(input) = input.duration + input.buffer
      /\ input.schedule.startTime \in Nat /\ input.schedule.endTime \in Nat
  BY <1>1, <1>2, InputFacts
<1>6. /\ s \in Nat /\ s >= input.schedule.startTime
      /\ s + totalDuration(input) <= input.schedule.endTime
  BY <1>4, <1>5 DEF Grid
<1>7. Vacant(input, s)
  BY <1>1, <1>4, <1>6, UnblockedIsVacant
<1>8. \A j \in 1..Len(slots) : i < j =>
         slots[i].startTime + totalDuration(input) <= slots[j].startTime
  BY DEF IInv, FoundFree
<1>9. s + input.duration + input.buffer = s + totalDuration(input)
  BY <1>5, <1>6
<1> QED
  BY <1>4, <1>5, <1>6, <1>7, <1>8, <1>9

\* What the loop returns is the set the definition names, in order, and when
\* breaks end after they begin, exactly the candidates no minute of which is
\* taken.
THEOREM LoopIsCorrect == Spec => []OffersAvailable
<1> SUFFICES ASSUME IInv, finished
             PROVE  /\ Found = calculateAvailableSlots(input)
                    /\ \A i, j \in 1..Len(slots) : i < j =>
                          slots[i].startTime < slots[j].startTime
                    /\ Works(input) /\ Regular(input) =>
                          Found = {Slot(input, start) :
                                     start \in {s \in Grid(input) :
                                                   Vacant(input, s)}}
  BY Inductive, PTL DEF OffersAvailable
<1>1. input \in Inputs
  BY DEF IInv, TypeOK
<1>2. Works(input) =>
         Free(currentStart) = {s \in Grid(input) : ~Blocked(input, s)}
  <2> SUFFICES ASSUME Works(input), NEW s \in Grid(input)
               PROVE  s < currentStart
    BY DEF Free
  <2>1. /\ totalDuration(input) \in Nat \ {0}
        /\ input.schedule.startTime \in Nat
        /\ input.schedule.endTime \in Nat
    BY <1>1, InputFacts
  <2>2. s \in Nat /\ s + totalDuration(input) <= input.schedule.endTime
    BY <2>1 DEF Grid
  <2>3. /\ currentStart \in Nat
        /\ currentStart + totalDuration(input) > input.schedule.endTime
    BY DEF IInv, TypeOK, OnGrid
  <2> QED
    BY <2>1, <2>2, <2>3
<1>3. Found = calculateAvailableSlots(input)
  <2>1. CASE Works(input)
    BY <1>2, <2>1 DEF IInv, FoundFree, calculateAvailableSlots
  <2>2. CASE ~Works(input)
    BY <2>2 DEF IInv, FoundFree, calculateAvailableSlots, Found
  <2> QED
    BY <2>1, <2>2
<1>4. ASSUME NEW i \in 1..Len(slots), NEW j \in 1..Len(slots), i < j
      PROVE  slots[i].startTime < slots[j].startTime
  <2>1. slots[i].startTime + totalDuration(input) <= slots[j].startTime
    BY <1>4 DEF IInv, FoundFree
  <2>2. slots[i].startTime \in Int /\ slots[j].startTime \in Int
    BY <1>4, ElementOfSeq DEF IInv, TypeOK, Interval
  <2> QED
    BY <1>1, <2>1, <2>2, InputFacts
<1>5. ASSUME Works(input), Regular(input)
      PROVE  {s \in Grid(input) : ~Blocked(input, s)} =
             {s \in Grid(input) : Vacant(input, s)}
  <2>1. Grid(input) \subseteq Nat
    BY <1>1, <1>5, InputFacts DEF Grid
  <2> QED
    BY <1>1, <1>5, <2>1, UnblockedIsVacant, VacantIsUnblocked
<1>6. ASSUME Works(input), Regular(input)
      PROVE  Found = {Slot(input, start) :
                         start \in {s \in Grid(input) : Vacant(input, s)}}
  BY <1>3, <1>5, <1>6 DEF calculateAvailableSlots
<1> QED
  BY <1>3, <1>4, <1>6

\* No round is for nothing: with a service that takes time, the day runs out.
THEOREM LoopUsesUp == Spec => RoundsUseUp
<1>1. IInv /\ [Next]_vars => [Left' \in 0..(Left - 1)]_vars
  <2> SUFFICES ASSUME IInv, Next
               PROVE  Left' \in 0..(Left - 1)
    OBVIOUS
  <2>1. /\ input \in Inputs /\ currentStart \in Nat
        /\ ~finished /\ Works(input)
    BY DEF IInv, TypeOK, OnGrid, Next, Candidate, Finish
  <2>2. /\ totalDuration(input) \in Nat \ {0}
        /\ input.schedule.endTime \in Nat
    BY <2>1, InputFacts
  <2>3. CASE Candidate
    BY <2>1, <2>2, <2>3 DEF Candidate, Left
  <2>4. CASE Finish
    BY <2>1, <2>2, <2>4 DEF Finish, Left
  <2> QED
    BY <2>3, <2>4 DEF Next
<1> QED
  BY <1>1, Inductive, PTL DEF Spec, RoundsUseUp

LEMMA OneMore ==
    ASSUME NEW n \in Nat, NEW d \in Nat
    PROVE  (n + 1) * d = n * d + d
OBVIOUS

\* The slots found so far fit into the day up to the next candidate.
Fit ==
    Works(input) =>
        /\ Len(slots) * totalDuration(input)
              <= currentStart - input.schedule.startTime
        /\ slots # <<>> => currentStart <= input.schedule.endTime

\* The answer fits into the day.
THEOREM AnswerFits == Spec => []SlotsFitDay
<1>1. Init => Fit
  <2> SUFFICES ASSUME Init, Works(input)
               PROVE  Len(slots) * totalDuration(input)
                         <= currentStart - input.schedule.startTime
    BY DEF Init, Fit
  <2>1. /\ input \in Inputs /\ Len(slots) = 0
        /\ currentStart = input.schedule.startTime
    BY DEF Init
  <2>2. /\ totalDuration(input) \in Nat
        /\ input.schedule.startTime \in Nat
    BY <2>1, InputFacts
  <2> HIDE DEF Init
  <2> QED
    BY <2>1, <2>2
<1>2. IInv /\ Fit /\ [Next]_vars => Fit'
  <2> SUFFICES ASSUME IInv, Fit, [Next]_vars, Works(input)'
               PROVE  /\ Len(slots') * totalDuration(input)'
                            <= currentStart' - input'.schedule.startTime
                      /\ slots' # <<>> =>
                            currentStart' <= input'.schedule.endTime
    BY DEF Fit
  <2>1. CASE Candidate
    <3> DEFINE d == totalDuration(input)
               n == Len(slots)
               first == input.schedule.startTime
    <3>1. /\ input \in Inputs /\ input' = input /\ currentStart \in Nat
          /\ Works(input) /\ slots \in Seq(Interval)
          /\ currentStart' = currentStart + d
          /\ currentStart + d <= input.schedule.endTime
          /\ totalDuration(input)' = d
      BY <2>1 DEF IInv, TypeOK, OnGrid, Candidate, totalDuration
    <3>2. d \in Nat /\ n \in Nat /\ first \in Nat /\ n * d \in Nat
      BY <3>1, InputFacts
    <3>3. n * d <= currentStart - first
      BY <3>1 DEF Fit
    <3>4. Len(slots') \in {n, n + 1}
      BY <2>1, <3>1 DEF Candidate, Kept
    <3>5. (n + 1) * d = n * d + d
      BY <3>2, OneMore
    <3> HIDE DEF d, n, first
    <3>6. Len(slots') * d <= n * d + d
      BY <3>2, <3>4, <3>5
    <3>7. n * d + d <= currentStart' - first
      BY <3>1, <3>2, <3>3
    <3>8. Len(slots') * d <= currentStart' - first
      <4>1. Len(slots') * d \in Nat
        BY <3>2, <3>4, <3>5
      <4> QED
        BY <4>1, <3>1, <3>2, <3>6, <3>7
    <3> QED
      BY <3>1, <3>8 DEF first
  <2>2. CASE Finish \/ UNCHANGED vars
    BY <2>2 DEF Finish, vars, Fit, Works, totalDuration
  <2> QED
    BY <2>1, <2>2 DEF Next
<1>3. IInv /\ Fit => SlotsFitDay
  <2> SUFFICES ASSUME IInv, Fit
               PROVE  SlotsFitDay
    OBVIOUS
  <2>1. input \in Inputs /\ currentStart \in Nat /\ slots \in Seq(Interval)
    BY DEF IInv, TypeOK
  <2>2. totalDuration(input) \in Nat /\ Len(slots) \in Nat
    BY <2>1, InputFacts
  <2>3. CASE slots = <<>>
    <3>1. Len(slots) = 0
      BY <2>3
    <3> QED
      BY <2>2, <2>3, <3>1 DEF SlotsFitDay
  <2>4. CASE slots # <<>>
    <3>1. Works(input)
      BY <2>4 DEF IInv, FoundFree
    <3>2. /\ Len(slots) * totalDuration(input)
                <= currentStart - input.schedule.startTime
          /\ currentStart <= input.schedule.endTime
      BY <2>4, <3>1 DEF Fit
    <3>3. /\ input.schedule.startTime \in Nat /\ input.schedule.endTime \in Nat
          /\ Len(slots) * totalDuration(input) \in Nat
      BY <2>1, <2>2, <3>1, InputFacts
    <3> QED
      BY <2>1, <2>4, <3>2, <3>3 DEF SlotsFitDay
  <2> QED
    BY <2>3, <2>4
<1> QED
  BY <1>1, <1>2, <1>3, Inductive, PTL DEF Spec
=============================================================================
