----------------------------- MODULE Timetable -----------------------------
(***************************************************************************)
(* What the booking component promises: a timetable of entries, none made  *)
(* over a live entry of the same provider, each moving along the status    *)
(* flow of the product.  Every change is one indivisible step here; that   *)
(* the handlers of Booking take several is what refinement has to bridge.  *)
(***************************************************************************)
EXTENDS Naturals

CONSTANTS BookingIds, Providers, Slots,
          Free  \* an id that has no entry yet

VARIABLE calendar  \* calendar[b]: Free, or the entry's provider, slot, status

Status == {"PENDING", "CONFIRMED", "IN_PROGRESS", "COMPLETED",
           "CANCELLED", "NO_SHOW"}

Entry == [provider: Providers, slot: Slots, status: Status]

TypeOK == calendar \in [BookingIds -> Entry \cup {Free}]

Takes(entry, p, slot) ==
    /\ entry # Free
    /\ entry.status \notin {"CANCELLED", "NO_SHOW"}
    /\ entry.provider = p
    /\ entry.slot.start < slot.end
    /\ slot.start < entry.slot.end

Init == calendar = [b \in BookingIds |-> Free]

Reserve(b, p, slot) ==
    /\ calendar[b] = Free
    /\ \A c \in BookingIds : ~Takes(calendar[c], p, slot)
    /\ calendar' = [calendar EXCEPT ![b] = [provider |-> p, slot |-> slot,
                                            status |-> "PENDING"]]

Move(b, from, to) ==
    /\ calendar[b] # Free
    /\ calendar[b].status \in from
    /\ calendar' = [calendar EXCEPT ![b].status = to]

Confirm(b)  == Move(b, {"PENDING"}, "CONFIRMED")
Complete(b) == Move(b, {"CONFIRMED", "IN_PROGRESS"}, "COMPLETED")
Cancel(b) ==
    Move(b, {"PENDING", "CONFIRMED", "IN_PROGRESS", "NO_SHOW"}, "CANCELLED")

Next ==
    \E b \in BookingIds :
        \/ \E p \in Providers, slot \in Slots : Reserve(b, p, slot)
        \/ Confirm(b)
        \/ Complete(b)
        \/ Cancel(b)

Spec == Init /\ [][Next]_calendar

(***************************************************************************)
(* The timetable with the payment webhook as a second writer: it confirms  *)
(* an entry whatever its status, so that one may return after its end.     *)
(***************************************************************************)
Return(b) ==
    /\ calendar[b] # Free
    /\ calendar' = [calendar EXCEPT ![b].status = "CONFIRMED"]

PaidNext == Next \/ \E b \in BookingIds : Return(b)

PaidSpec == Init /\ [][PaidNext]_calendar

-----------------------------------------------------------------------------

\* What the timetable is for: no two live entries of one provider overlap.
\* Spec keeps to it, PaidSpec does not.
NoOverlap ==
    \A b, c \in BookingIds :
        /\ b # c
        /\ calendar[b] # Free
        /\ calendar[b].status \notin {"CANCELLED", "NO_SHOW"}
        => ~Takes(calendar[c], calendar[b].provider, calendar[b].slot)

\* An entry that has ended does not come back.
EndedStays ==
    [][\A b \in BookingIds :
          /\ calendar[b] # Free
          /\ calendar[b].status \in {"CANCELLED", "COMPLETED"}
          => calendar'[b] = calendar[b]]_calendar
=============================================================================
