--------------------------- MODULE SlotCalculator ---------------------------
(***************************************************************************)
(* The loop of calculateAvailableSlots, one step a round.                  *)
(***************************************************************************)
EXTENDS Slots, Sequences

CONSTANT Inputs  \* the arguments a call may have

VARIABLES
    input,         \* the arguments
    currentStart,  \* start of the next candidate
    slots,         \* the slots found so far
    finished

vars == <<input, currentStart, slots, finished>>

ASSUME InputAssumption ==
    /\ Inputs \subseteq Input
    /\ Null \notin Nat \cup Schedule

TypeOK ==
    /\ input \in Inputs
    /\ currentStart \in Nat
    /\ slots \in Seq(Interval)
    /\ finished \in BOOLEAN

Init ==
    /\ input \in Inputs
    /\ slots = <<>>
    /\ finished = ~Works(input)
    /\ currentStart = IF Works(input) THEN input.schedule.startTime ELSE 0

\* The slots after the candidate at currentStart.
Kept == IF Blocked(input, currentStart) THEN slots
        ELSE Append(slots, Slot(input, currentStart))

\* Mutants: the step forgets the buffer; a blocked candidate is tried again.
CandidateNoBufferStep ==
    /\ ~finished
    /\ currentStart + totalDuration(input) <= input.schedule.endTime
    /\ slots' = Kept
    /\ currentStart' = currentStart + input.duration
    /\ UNCHANGED <<input, finished>>
CandidateTriedAgain ==
    /\ ~finished
    /\ currentStart + totalDuration(input) <= input.schedule.endTime
    /\ slots' = Kept
    /\ currentStart' = IF Blocked(input, currentStart) THEN currentStart
                       ELSE currentStart + totalDuration(input)
    /\ UNCHANGED <<input, finished>>

\* One round: a candidate that fits the schedule together with its buffer.
Candidate ==
    /\ ~finished
    /\ currentStart + totalDuration(input) <= input.schedule.endTime
    /\ slots' = Kept
    /\ currentStart' = currentStart + totalDuration(input)
    /\ UNCHANGED <<input, finished>>

\* The loop is left when the next candidate does not fit, or breaks when only
\* its buffer does not.
Finish ==
    /\ ~finished
    /\ currentStart + totalDuration(input) > input.schedule.endTime
    /\ finished' = TRUE
    /\ UNCHANGED <<input, currentStart, slots>>

Next == Candidate \/ Finish

Spec == Init /\ [][Next]_vars

\* The loop is synchronous code: nothing interrupts it.
FairSpec == Spec /\ WF_vars(Next)

-----------------------------------------------------------------------------

Found == {slots[i] : i \in 1..Len(slots)}

\* The loop finds the candidates that nothing blocks, each once and in order;
\* when breaks end after they begin these are the ones with no minute taken.
OffersAvailable ==
    finished =>
        /\ Found = calculateAvailableSlots(input)
        /\ \A i, j \in 1..Len(slots) : i < j =>
              slots[i].startTime < slots[j].startTime
        /\ Works(input) /\ Regular(input) =>
              Found = {Slot(input, start) :
                          start \in {s \in Grid(input) : Vacant(input, s)}}

\* A provider can serve all the slots offered: each lies within the schedule
\* with its buffer, no minute of either is taken, and no slot begins before
\* the buffer of an earlier one is over.
SlotsServable ==
    \A i \in 1..Len(slots) :
        /\ slots[i].startTime >= input.schedule.startTime
        /\ slots[i].endTime + input.buffer <= input.schedule.endTime
        /\ slots[i].endTime = slots[i].startTime + input.duration
        /\ Vacant(input, slots[i].startTime)
        /\ \A j \in 1..Len(slots) : i < j =>
              slots[i].endTime + input.buffer <= slots[j].startTime

\* What is left of the day; a loop that has ended has nothing left.
Left ==
    IF finished THEN 0
    ELSE IF currentStart < input.schedule.endTime
         THEN 1 + input.schedule.endTime - currentStart
    ELSE 1

\* Every round uses up some of the day, whatever is blocked: the loop cannot go
\* on for ever, nor longer than the day has minutes.
RoundsUseUp == [][Left' \in 0..(Left - 1)]_vars

\* The answer is no longer than the day allows: the slots found, each with its
\* buffer, fit into the schedule side by side.
SlotsFitDay ==
    Len(slots) * totalDuration(input) <=
        IF slots = <<>> THEN 0
        ELSE input.schedule.endTime - input.schedule.startTime

\* The loop ends: every round moves on, as no service takes zero minutes.
Terminates == <>finished
=============================================================================
