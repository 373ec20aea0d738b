-------------------------------- MODULE Week --------------------------------
(***************************************************************************)
(* What updating a schedule promises: the weekdays of a provider filled by *)
(* whole bodies.  An update takes bodies away, each with all its rows, and *)
(* fills weekdays that are free by then; it does so in one step, and does  *)
(* not touch the others.  Which bodies it takes away is left open: all of  *)
(* them when nobody interferes (see AloneReplacesAll of Schedule), fewer   *)
(* when another update commits after it has begun.                         *)
(***************************************************************************)
EXTENDS Naturals, Sequences

CONSTANTS Weekdays,
          Dtos,  \* the bodies: the weekdays they name, in order
          None

VARIABLE rows  \* rows[d]: the body weekday d is filled by, or None

Days(dto) == {dto[i] : i \in 1..Len(dto)}

Filled == {d \in Weekdays : rows[d] # None}

Init == rows = [d \in Weekdays |-> None]

Replace(dto, gone) ==
    /\ \A d \in gone : Days(rows[d]) \subseteq gone
    /\ Days(dto) \cap (Filled \ gone) = {}
    /\ rows' = [d \in Weekdays |-> IF d \in Days(dto) THEN dto
                                   ELSE IF d \in gone THEN None
                                   ELSE rows[d]]

Next == \E dto \in Dtos, gone \in SUBSET Filled : Replace(dto, gone)

Spec == Init /\ [][Next]_rows

-----------------------------------------------------------------------------

\* Bodies are there whole, and have no weekday in common.
Whole ==
    \A d \in Filled :
        /\ d \in Days(rows[d])
        /\ \A e \in Days(rows[d]) : rows[e] = rows[d]

\* A body goes as a whole too: a row that stays has all its rows stay.
GoesWhole ==
    [][\A d \in Filled :
          rows'[d] = rows[d] =>
              \A e \in Days(rows[d]) : rows'[e] = rows[e]]_rows
=============================================================================
