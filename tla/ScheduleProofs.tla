--------------------------- MODULE ScheduleProofs ---------------------------
(***************************************************************************)
(* Proofs about Schedule, for any weekdays, bodies, users and number of     *)
(* updates in flight together.                                             *)
(***************************************************************************)
EXTENDS Schedule, TLAPS

-----------------------------------------------------------------------------
(* The inductive invariant, in parts: what a transaction knows of the rows, *)
(* and that no two transactions have their hands on one row.               *)

Request == {Idle} \cup Start \cup Update

BodySound(r) == req[r] # Idle => Accepted(req[r].dto)

\* The rows a transaction takes, or has taken, are whole bodies; the weekdays
\* it has inserted are free once those rows are gone.
SeenSound(r) ==
    req[r].pc \in {"lock", "insert"} =>
        /\ req[r].seen \subseteq Stored
        /\ \A d \in req[r].seen : Days(rows[d]) \subseteq req[r].seen
        /\ ~req[r].late => req[r].seen = Stored
        /\ req[r].at <= Len(req[r].dto)
        /\ req[r].pc = "lock" => req[r].at = 0
        /\ Inserting(r) \cap (Stored \ req[r].seen) = {}

Held(r) == Deleting(r) \cup Inserting(r)

Apart(r, o) == r # o => Held(r) \cap Held(o) = {}

IInv ==
    /\ TypeOK
    /\ \A r \in Requests : BodySound(r)
    /\ \A r \in Requests : SeenSound(r)
    /\ \A r, o \in Requests : Apart(r, o)
    /\ StoredWhole
    /\ AloneReplacesAll

-----------------------------------------------------------------------------

\* The label of a request says what it has read and done.
LEMMA RequestKinds ==
    ASSUME NEW q \in Request
    PROVE  /\ q.pc = "idle" <=> q = Idle
           /\ q.pc = "delete" => q \in Start
           /\ q.pc \in {"lock", "insert"} => q \in Update
           /\ q # Idle => q.dto \in Dtos
           /\ q.pc \in {"idle", "delete", "lock", "insert"}
BY DEF Request, Idle, Start, Update

\* A body is a sequence of weekdays.
LEMMA Bodies ==
    ASSUME NEW dto \in Dtos
    PROVE  /\ Len(dto) \in Nat
           /\ \A i \in 1..Len(dto) : dto[i] \in Weekdays
           /\ Days(dto) \subseteq Weekdays
           /\ dto # None
BY ScheduleAssumption DEF Days

\* A step that touches neither the table nor the other requests keeps the
\* invariant if it keeps the parts about its own request.
LEMMA OwnStep ==
    ASSUME IInv, NEW r \in Requests, NEW q \in Request,
           req' = [req EXCEPT ![r] = q], UNCHANGED <<rows, last>>,
           BodySound(r)', SeenSound(r)',
           \A o \in Requests \ {r} : Held(r)' \cap Held(o) = {}
    PROVE  IInv'
<1>1. TypeOK'
  BY DEF IInv, TypeOK, Request
<1>2. req'[r] = q /\ \A o \in Requests \ {r} : req'[o] = req[o]
  BY DEF IInv, TypeOK
<1>3. Stored' = Stored
  BY DEF Stored
<1>4. \A o \in Requests \ {r} : /\ Deleting(o)' = Deleting(o)
                                /\ Inserting(o)' = Inserting(o)
  BY <1>2 DEF Deleting, Inserting
<1>5. \A o \in Requests \ {r} : BodySound(o)' /\ SeenSound(o)'
  BY <1>2, <1>3, <1>4 DEF IInv, BodySound, SeenSound
<1>6. \A o, p \in Requests : Apart(o, p)'
  <2> SUFFICES ASSUME NEW o \in Requests, NEW p \in Requests, o # p
               PROVE  Held(o)' \cap Held(p)' = {}
    BY DEF Apart
  <2>1. \A x \in Requests \ {r} : Held(x)' = Held(x)
    BY <1>4 DEF Held
  <2>2. CASE o = r
    BY <2>1, <2>2
  <2>3. CASE p = r
    BY <2>1, <2>3
  <2>4. CASE o # r /\ p # r
    BY <2>1, <2>4 DEF IInv, Apart
  <2> QED
    BY <2>2, <2>3, <2>4
<1>7. StoredWhole' /\ AloneReplacesAll'
  BY <1>3 DEF IInv, StoredWhole, AloneReplacesAll
<1> QED
  BY <1>1, <1>5, <1>6, <1>7 DEF IInv

-----------------------------------------------------------------------------
(* One lemma per action.                                                   *)

LEMMA InvUpdateSchedule ==
    ASSUME IInv, NEW r \in Requests, NEW u \in Users, NEW dto \in Dtos,
           UpdateSchedule(r, u, dto)
    PROVE  IInv'
<1> DEFINE q == [pc |-> "delete", dto |-> dto]
<1>1. q \in Request /\ q # Idle
  BY DEF Request, Start, Idle
<1>2. req' = [req EXCEPT ![r] = q] /\ UNCHANGED <<rows, last>> /\ Accepted(dto)
  BY DEF UpdateSchedule
<1>3. req'[r] = q
  BY <1>2 DEF IInv, TypeOK
<1>4. BodySound(r)' /\ SeenSound(r)'
  BY <1>2, <1>3 DEF BodySound, SeenSound, Accepted
<1>5. Held(r)' = {}
  BY <1>3 DEF Held, Deleting, Inserting
<1> HIDE DEF q
<1> QED
  BY <1>1, <1>2, <1>4, <1>5, OwnStep

LEMMA InvStartDelete ==
    ASSUME IInv, NEW r \in Requests, StartDelete(r)
    PROVE  IInv'
<1> DEFINE q == [pc |-> "lock", dto |-> req[r].dto, seen |-> Stored,
                 at |-> 0, late |-> FALSE]
<1>1. req[r] \in Request /\ req[r] # Idle /\ req[r].dto \in Dtos
  BY RequestKinds DEF IInv, TypeOK, Request, StartDelete, Idle
<1>2. q \in Request /\ q # Idle
  BY <1>1 DEF Request, Update, Idle, Stored
<1>3. req' = [req EXCEPT ![r] = q] /\ UNCHANGED <<rows, last>>
  BY DEF StartDelete
<1>4. req'[r] = q
  BY <1>3 DEF IInv, TypeOK
<1>5. BodySound(r)'
  BY <1>1, <1>3, <1>4 DEF IInv, BodySound, Accepted
<1>6. Held(r)' = {} /\ Inserting(r)' = {}
  BY <1>4 DEF Held, Deleting, Inserting
<1>7. SeenSound(r)'
  <2>1. Stored' = Stored
    BY <1>3 DEF Stored
  <2>2. \A d \in Stored : Days(rows'[d]) \subseteq Stored
    <3> SUFFICES ASSUME NEW d \in Stored, NEW e \in Days(rows[d])
                 PROVE  e \in Stored
      BY <1>3
    <3>1. rows[d] \in Dtos
      BY DEF IInv, TypeOK, Stored
    <3>2. e \in Weekdays /\ rows[e] = rows[d]
      BY <3>1, Bodies DEF IInv, StoredWhole
    <3> QED
      BY <3>1, <3>2 DEF Stored
  <2>3. 0 <= Len(req[r].dto)
    BY <1>1, Bodies
  <2> QED
    BY <1>4, <1>6, <2>1, <2>2, <2>3 DEF SeenSound
<1> HIDE DEF q
<1> QED
  BY <1>2, <1>3, <1>5, <1>6, <1>7, OwnStep

LEMMA InvDeleteRows ==
    ASSUME IInv, NEW r \in Requests, DeleteRows(r)
    PROVE  IInv'
<1> DEFINE q == [req[r] EXCEPT !.pc = "insert"]
<1>1. req[r] \in Update /\ req[r] # Idle
  BY RequestKinds DEF IInv, TypeOK, Request, DeleteRows, Idle
<1>2. q \in Request /\ q # Idle
  BY <1>1 DEF Request, Update, Idle
<1>3. req' = [req EXCEPT ![r] = q] /\ UNCHANGED <<rows, last>>
  BY DEF DeleteRows
<1>4. /\ req'[r] = q /\ q.pc = "insert" /\ q.dto = req[r].dto
      /\ q.seen = req[r].seen /\ q.at = req[r].at /\ q.late = req[r].late
  BY <1>1, <1>3 DEF IInv, TypeOK, Update
<1>5. BodySound(r)'
  BY <1>1, <1>3, <1>4 DEF IInv, BodySound, Accepted
<1>6. req[r].pc = "lock" /\ req[r].at = 0 /\ SeenSound(r)
  BY DEF DeleteRows, IInv, SeenSound
<1>7. Inserting(r)' = {} /\ Held(r)' = req[r].seen
  BY <1>4, <1>6 DEF Held, Deleting, Inserting
<1>8. SeenSound(r)'
  BY <1>3, <1>4, <1>6, <1>7 DEF SeenSound, Stored
<1>9. \A o \in Requests \ {r} : Held(r)' \cap Held(o) = {}
  BY <1>7 DEF DeleteRows, Locked, Held
<1> HIDE DEF q
<1> QED
  BY <1>2, <1>3, <1>5, <1>8, <1>9, OwnStep

LEMMA InvInsertRow ==
    ASSUME IInv, NEW r \in Requests, InsertRow(r)
    PROVE  IInv'
<1> DEFINE q == [req[r] EXCEPT !.at = @ + 1]
<1>1. req[r] \in Update /\ req[r] # Idle /\ req[r].pc = "insert"
  BY RequestKinds DEF IInv, TypeOK, Request, InsertRow, Inserts, Idle
<1>2. q \in Request /\ q # Idle
  BY <1>1 DEF Request, Update, Idle
<1>3. req' = [req EXCEPT ![r] = q] /\ UNCHANGED <<rows, last>>
  BY DEF InsertRow
<1>4. /\ req'[r] = q /\ q.pc = "insert" /\ q.dto = req[r].dto
      /\ q.seen = req[r].seen /\ q.at = req[r].at + 1 /\ q.late = req[r].late
  BY <1>1, <1>3 DEF IInv, TypeOK, Update
<1>5. BodySound(r)'
  BY <1>1, <1>3, <1>4 DEF IInv, BodySound, Accepted
<1>6. SeenSound(r) /\ req[r].at \in Nat /\ req[r].at < Len(req[r].dto)
  BY <1>1 DEF IInv, InsertRow, Inserts, Update
<1>7. Inserting(r)' = Inserting(r) \cup {NextDay(r)}
  <2>1. 1..(req[r].at + 1) = (1..req[r].at) \cup {req[r].at + 1}
    BY <1>6
  <2>2. Inserting(r)' = {req[r].dto[i] : i \in 1..(req[r].at + 1)}
    BY <1>4 DEF Inserting
  <2>3. Inserting(r) = {req[r].dto[i] : i \in 1..req[r].at}
    BY <1>1 DEF Inserting
  <2> QED
    BY <2>1, <2>2, <2>3 DEF NextDay
<1>8. Held(r)' = Held(r) \cup {NextDay(r)}
  BY <1>1, <1>4, <1>7 DEF Held, Deleting
<1>9. SeenSound(r)'
  <2>1. Stored' = Stored
    BY <1>3 DEF Stored
  <2>2. Inserting(r)' \cap (Stored \ req[r].seen) = {}
    BY <1>1, <1>6, <1>7 DEF InsertRow, Taken, SeenSound
  <2>3. req[r].dto \in Dtos /\ req[r].at + 1 <= Len(req[r].dto)
    BY <1>1, <1>6, Bodies DEF Update
  <2> QED
    BY <1>1, <1>3, <1>4, <1>6, <2>1, <2>2, <2>3 DEF SeenSound
<1>10. \A o \in Requests \ {r} : Held(r)' \cap Held(o) = {}
  BY <1>8 DEF InsertRow, Locked, IInv, Apart, Held
<1> HIDE DEF q
<1> QED
  BY <1>2, <1>3, <1>5, <1>9, <1>10, OwnStep

LEMMA InvToIdle ==
    ASSUME IInv, NEW r \in Requests, req' = [req EXCEPT ![r] = Idle],
           UNCHANGED <<rows, last>>
    PROVE  IInv'
<1>1. req'[r] = Idle
  BY DEF IInv, TypeOK
<1>2. BodySound(r)' /\ SeenSound(r)' /\ Held(r)' = {}
  BY <1>1 DEF BodySound, SeenSound, Held, Deleting, Inserting, Idle
<1> QED
  BY <1>2, OwnStep DEF Request

\* What a request knows, or has done, after somebody else's commit.
LEMMA OvertakenRequest ==
    ASSUME NEW r \in Requests, NEW o \in Requests, req[o] \in Request,
           req'[o] = Overtaken(o, req[r].seen)
    PROVE  /\ req'[o] \in Request
           /\ req'[o].pc = req[o].pc
           /\ req'[o] = Idle <=> req[o] = Idle
           /\ req[o] # Idle => req'[o].dto = req[o].dto
           /\ req[o].pc \in {"lock", "insert"} =>
                 /\ req'[o].seen = req[o].seen \ req[r].seen
                 /\ req'[o].at = req[o].at
                 /\ req'[o].late = TRUE
<1>1. CASE req[o].pc \in {"lock", "insert"}
  <2>1. req[o] \in Update
    BY <1>1, RequestKinds
  <2>2. req'[o] = [req[o] EXCEPT !.seen = @ \ req[r].seen, !.late = TRUE]
    BY <1>1 DEF Overtaken
  <2> QED
    BY <1>1, <2>1, <2>2 DEF Request, Update, Idle
<1>2. CASE req[o].pc \notin {"lock", "insert"}
  BY <1>2 DEF Overtaken
<1> QED
  BY <1>1, <1>2

LEMMA InvCommit ==
    ASSUME IInv, NEW r \in Requests, Commit(r)
    PROVE  IInv'
<1> DEFINE dto  == req[r].dto
           days == Days(dto)
           gone == req[r].seen
<1>1. /\ req[r] \in Update /\ req[r].pc = "insert"
      /\ dto \in Dtos /\ dto # None /\ days \subseteq Weekdays
  BY RequestKinds, Bodies DEF IInv, TypeOK, Request, Commit, Update
<1>2. SeenSound(r) /\ TypeOK /\ StoredWhole /\ gone \subseteq Stored
  BY <1>1 DEF IInv, SeenSound
<1>3. days = Inserting(r) /\ gone = Deleting(r)
  BY <1>1 DEF Commit, Inserting, Deleting, Days
<1>4. \A d \in Weekdays : rows'[d] = CASE d \in days -> dto
                                       [] d \in gone \ days -> None
                                       [] OTHER -> rows[d]
  BY DEF Commit
<1>5. days \cap (Stored \ gone) = {}
  BY <1>1, <1>2, <1>3 DEF SeenSound
<1>6. \A d \in gone : Days(rows[d]) \subseteq gone
  BY <1>1, <1>2 DEF SeenSound
<1>7. /\ req'[r] = Idle
      /\ \A o \in Requests \ {r} : req'[o] = Overtaken(o, gone)
      /\ last' = [dto |-> dto, late |-> req[r].late]
  BY DEF Commit
<1>8. \A o \in Requests : req[o] \in Request
  BY <1>2 DEF TypeOK, Request
<1>9. TypeOK'
  <2>1. rows' \in [Weekdays -> Dtos \cup {None}]
    <3>1. \A d \in Weekdays : rows'[d] \in Dtos \cup {None}
      BY <1>1, <1>2, <1>4 DEF TypeOK
    <3> QED
      BY <3>1 DEF Commit
  <2>2. req' \in [Requests -> Request]
    <3>1. \A o \in Requests : req'[o] \in Request
      BY <1>7, <1>8, OvertakenRequest DEF Request
    <3> QED
      BY <3>1 DEF Commit
  <2>3. last' \in [dto: Dtos, late: BOOLEAN] \cup {None}
    BY <1>1, <1>7 DEF Update
  <2> QED
    BY <2>1, <2>2, <2>3 DEF TypeOK, Request
<1>10. Stored' = days \cup (Stored \ gone)
  BY <1>1, <1>4 DEF Stored
\* The rows that stay are whole bodies, and none of their weekdays is deleted
\* or inserted.
<1>11. ASSUME NEW d \in Stored \ gone
       PROVE  /\ rows'[d] = rows[d] /\ d \in Days(rows[d])
              /\ \A e \in Days(rows[d]) :
                    /\ e \in Stored \ gone
                    /\ rows[e] = rows[d] /\ rows'[e] = rows[d]
  <2>1. d \in Weekdays /\ rows[d] \in Dtos /\ d \in Days(rows[d])
    BY <1>2, <1>11 DEF TypeOK, Stored, StoredWhole
  <2>2. rows'[d] = rows[d]
    BY <1>4, <1>5, <1>11, <2>1
  <2>3. ASSUME NEW e \in Days(rows[d])
        PROVE  e \in Stored \ gone /\ rows[e] = rows[d] /\ rows'[e] = rows[d]
    <3>1. e \in Weekdays /\ rows[e] = rows[d]
      BY <1>2, <1>11, <2>1, <2>3, Bodies DEF StoredWhole
    <3>2. e \in Stored
      BY <1>11, <3>1 DEF Stored
    <3>3. e \notin gone
      BY <1>6, <1>11, <2>1, <3>1
    <3>4. e \notin days
      BY <1>5, <3>2, <3>3
    <3> QED
      BY <1>4, <3>1, <3>2, <3>3, <3>4
  <2> QED
    BY <2>1, <2>2, <2>3
<1>12. StoredWhole'
  <2> SUFFICES ASSUME NEW d \in Stored'
               PROVE  /\ d \in Days(rows'[d])
                      /\ \A e \in Days(rows'[d]) : rows'[e] = rows'[d]
    BY DEF StoredWhole
  <2>1. CASE d \in days
    BY <1>1, <1>4, <2>1
  <2>2. CASE d \in Stored \ gone
    BY <1>11, <2>2
  <2> QED
    BY <1>10, <2>1, <2>2
<1>13. AloneReplacesAll'
  <2> SUFFICES ASSUME ~req[r].late
               PROVE  rows' = [d \in Weekdays |-> IF d \in days THEN dto ELSE None]
    BY <1>7 DEF AloneReplacesAll
  <2>1. gone = Stored
    BY <1>1, <1>2 DEF SeenSound
  <2>2. \A d \in Weekdays : rows'[d] = IF d \in days THEN dto ELSE None
    BY <1>4, <2>1 DEF Stored
  <2> QED
    BY <2>2 DEF Commit
<1>14. ASSUME NEW o \in Requests \ {r}
       PROVE  /\ BodySound(o)'
              /\ Inserting(o)' = Inserting(o)
              /\ Deleting(o)' = Deleting(o) \ gone
  <2>1. /\ req'[o].pc = req[o].pc
        /\ req'[o] = Idle <=> req[o] = Idle
        /\ req[o] # Idle => req'[o].dto = req[o].dto
        /\ req[o].pc \in {"lock", "insert"} =>
              req'[o].seen = req[o].seen \ gone /\ req'[o].at = req[o].at
    BY <1>7, <1>8, OvertakenRequest
  <2>2. BodySound(o)'
    BY <2>1 DEF IInv, BodySound, Accepted
  <2>3. req[o].pc = "insert" => req[o] # Idle
    BY DEF Idle
  <2> QED
    BY <2>1, <2>2, <2>3 DEF Inserting, Deleting
<1>15. ASSUME NEW o \in Requests \ {r}
       PROVE  SeenSound(o)'
  <2> SUFFICES ASSUME req'[o].pc \in {"lock", "insert"}
               PROVE  SeenSound(o)'
    BY DEF SeenSound
  <2>1. /\ req'[o].pc = req[o].pc
        /\ req'[o].dto = req[o].dto
        /\ req'[o].seen = req[o].seen \ gone
        /\ req'[o].at = req[o].at
        /\ req'[o].late = TRUE
    <3>1. req'[o] # Idle
      BY DEF Idle
    <3> QED
      BY <1>7, <1>8, <3>1, OvertakenRequest
  <2>2. /\ req[o].seen \subseteq Stored
        /\ \A d \in req[o].seen : Days(rows[d]) \subseteq req[o].seen
        /\ req[o].at <= Len(req[o].dto)
        /\ req[o].pc = "lock" => req[o].at = 0
        /\ Inserting(o) \cap (Stored \ req[o].seen) = {}
    BY <2>1 DEF IInv, SeenSound
  <2>3. req'[o].seen \subseteq Stored'
    BY <1>10, <2>1, <2>2
  <2>4. \A d \in req'[o].seen : Days(rows'[d]) \subseteq req'[o].seen
    BY <1>11, <2>1, <2>2
  <2>5. Inserting(o) \cap days = {}
    BY <1>3 DEF IInv, Apart, Held
  <2>6. Inserting(o)' \cap (Stored' \ req'[o].seen) = {}
    BY <1>10, <1>14, <2>1, <2>2, <2>5
  <2> QED
    BY <2>1, <2>2, <2>3, <2>4, <2>6 DEF SeenSound
<1>16. Held(r)' = {} /\ BodySound(r)' /\ SeenSound(r)'
  BY <1>7 DEF Held, Deleting, Inserting, BodySound, SeenSound, Idle
<1>17. \A o, p \in Requests : Apart(o, p)'
  <2>1. \A o \in Requests : Held(o)' \subseteq Held(o)
    BY <1>14, <1>16 DEF Held
  <2> QED
    BY <2>1 DEF IInv, Apart
<1> QED
  BY <1>9, <1>12, <1>13, <1>14, <1>15, <1>16, <1>17 DEF IInv

-----------------------------------------------------------------------------
(* The theorems.                                                           *)

LEMMA InvInit == Init => IInv
<1> SUFFICES ASSUME Init PROVE IInv
  OBVIOUS
<1>1. Stored = {}
  BY DEF Init, Stored
<1> QED
  BY <1>1 DEF Init, IInv, TypeOK, BodySound, SeenSound, Apart, Held, Deleting,
              Inserting, StoredWhole, AloneReplacesAll, Idle

LEMMA InvNext == IInv /\ [Next]_vars => IInv'
<1> SUFFICES ASSUME IInv, [Next]_vars PROVE IInv'
  OBVIOUS
<1>1. ASSUME NEW r \in Requests, NEW u \in Users, NEW dto \in Dtos,
             UpdateSchedule(r, u, dto)
      PROVE  IInv'
  BY <1>1, InvUpdateSchedule
<1>2. ASSUME NEW r \in Requests, Work(r)
      PROVE  IInv'
  <2>1. CASE StartDelete(r)
    BY <2>1, InvStartDelete
  <2>2. CASE DeleteRows(r)
    BY <2>2, InvDeleteRows
  <2>3. CASE InsertRow(r)
    BY <2>3, InvInsertRow
  <2>4. CASE Collide(r)
    BY <2>4, InvToIdle DEF Collide
  <2>5. CASE Commit(r)
    BY <2>5, InvCommit
  <2> QED
    BY <1>2, <2>1, <2>2, <2>3, <2>4, <2>5 DEF Work
<1>3. ASSUME NEW r \in Requests, RollBack(r)
      PROVE  IInv'
  BY <1>3, InvToIdle DEF RollBack
<1>4. CASE UNCHANGED vars
  BY <1>4 DEF vars, IInv, TypeOK, BodySound, SeenSound, Apart, Held, Deleting,
              Inserting, StoredWhole, AloneReplacesAll, Accepted, Stored
<1> QED
  BY <1>1, <1>2, <1>3, <1>4 DEF Next

LEMMA Inductive == Spec => []IInv
BY InvInit, InvNext, PTL DEF Spec

\* The table keeps one row per weekday at most, and every transaction what
\* its label says, however many updates of the provider are in flight.
THEOREM ScheduleTypes == Spec => []TypeOK
<1>1. IInv => TypeOK
  BY DEF IInv
<1> QED
  BY <1>1, Inductive, PTL

\* Weeks are stored whole or not at all: no interleaving of DELETE and INSERT
\* under READ COMMITTED, and no rollback, leaves part of a body behind.
THEOREM WeeksAreWhole == Spec => []StoredWhole
<1>1. IInv => StoredWhole
  BY DEF IInv
<1> QED
  BY <1>1, Inductive, PTL

\* An update nobody overlapped leaves exactly the weekdays of its body.
THEOREM AloneUpdatesReplace == Spec => []AloneReplacesAll
<1>1. IInv => AloneReplacesAll
  BY DEF IInv
<1> QED
  BY <1>1, Inductive, PTL

\* Without a concurrent commit the unique weekday refuses nothing: what the
\* DELETE took is all there was, and the check of the body excludes the rest.
THEOREM CollisionsAreRaces == Spec => []CollidesOnlyByRace
<1>1. ASSUME IInv
      PROVE  CollidesOnlyByRace
  <2> SUFFICES ASSUME NEW r \in Requests, Inserts(r), Taken(r, NextDay(r)),
                      ~req[r].late
               PROVE  FALSE
    BY DEF CollidesOnlyByRace, Inserts, IInv, TypeOK, Update
  <2>1. req[r] \in Update /\ req[r] # Idle
    BY <1>1, RequestKinds DEF IInv, TypeOK, Request, Inserts, Idle
  <2>2. req[r].seen = Stored /\ Accepted(req[r].dto)
    BY <1>1, <2>1 DEF IInv, SeenSound, BodySound, Inserts
  <2>3. NextDay(r) \in Inserting(r)
    BY <2>2 DEF Taken
  <2>4. PICK i \in 1..req[r].at : req[r].dto[i] = req[r].dto[req[r].at + 1]
    BY <2>3 DEF Inserting, NextDay, Inserts
  <2>5. Len(req[r].dto) \in Nat /\ req[r].at \in Nat
    BY <2>1, Bodies DEF Update
  <2>6. i \in 1..Len(req[r].dto) /\ req[r].at + 1 \in 1..Len(req[r].dto)
    BY <2>5 DEF Inserts
  <2>7. i = req[r].at + 1
    BY <2>2, <2>4, <2>6 DEF Accepted
  <2> QED
    BY <2>5, <2>7
<1> QED
  BY <1>1, Inductive, PTL

-----------------------------------------------------------------------------
(* Updates come closer to their end.                                        *)

LEMMA StepsKnown ==
    ASSUME NEW q \in Request
    PROVE  /\ q = Idle => Steps(q) = 0
           /\ q # Idle => Len(q.dto) \in Nat
           /\ q.pc = "delete" => Steps(q) = Len(q.dto) + 3
           /\ q.pc = "lock" => Steps(q) = Len(q.dto) + 2
           /\ q.pc = "insert" => Steps(q) = Len(q.dto) - q.at + 1
<1>1. q # Idle => Len(q.dto) \in Nat
  BY RequestKinds, Bodies
<1> QED
  BY <1>1 DEF Steps, Idle

\* A transaction in flight has at least one step before it.
LEMMA StepsLeft ==
    ASSUME IInv, NEW r \in Requests, req[r] # Idle
    PROVE  Steps(req[r]) \in Nat \ {0}
<1>1. req[r] \in Request
  BY DEF IInv, TypeOK, Request
<1>2. req[r].pc \in {"delete", "lock", "insert"}
  BY <1>1, RequestKinds
<1>3. CASE req[r].pc = "insert"
  <2>1. req[r] \in Update
    BY <1>1, <1>3, RequestKinds
  <2>2. req[r].at \in Nat /\ req[r].at <= Len(req[r].dto)
    BY <1>3, <2>1 DEF Update, IInv, SeenSound
  <2> QED
    BY <1>1, <1>3, <2>2, StepsKnown
<1> QED
  BY <1>1, <1>2, <1>3, StepsKnown

\* A step of one update that leaves the others alone.
LEMMA OneAdvances ==
    ASSUME IInv, NEW r \in Requests, NEW q, req' = [req EXCEPT ![r] = q],
           Steps(q) \in Nat,
           \/ Steps(q) < Steps(req[r])
           \/ req[r] = Idle /\ q # Idle
    PROVE  /\ \A o \in Requests :
                 req[o] # Idle => Steps(req'[o]) <= Steps(req[o])
           /\ \E o \in Requests : \/ Steps(req'[o]) < Steps(req[o])
                                  \/ req[o] = Idle /\ req'[o] # Idle
<1>1. req'[r] = q /\ \A o \in Requests \ {r} : req'[o] = req[o]
  BY DEF IInv, TypeOK
<1>2. ASSUME NEW o \in Requests, req[o] # Idle
      PROVE  Steps(req'[o]) <= Steps(req[o])
  <2>1. CASE o # r
    BY <1>1, <1>2, <2>1, StepsLeft
  <2>2. CASE o = r
    <3>1. Steps(q) < Steps(req[r])
      BY <1>2, <2>2
    <3>2. Steps(req[r]) \in Nat
      BY <1>2, <2>2, StepsLeft
    <3> QED
      BY <1>1, <2>2, <3>1, <3>2
  <2> QED
    BY <2>1, <2>2
<1> QED
  BY <1>1, <1>2

\* Nothing takes an update back: neither the commit of another one, nor a
\* collision, which ends it.
THEOREM UpdatesComeCloser == Spec => UpdatesAdvance
<1> DEFINE Closer ==
              /\ \A r \in Requests :
                    req[r] # Idle => Steps(req'[r]) <= Steps(req[r])
              /\ \E r \in Requests : \/ Steps(req'[r]) < Steps(req[r])
                                     \/ req[r] = Idle /\ req'[r] # Idle
<1>1. IInv /\ Next => Closer
  <2> SUFFICES ASSUME IInv, Next PROVE Closer
    OBVIOUS
  <2>1. ASSUME NEW r \in Requests, req[r] # Idle, req' = [req EXCEPT ![r] = Idle]
        PROVE  Closer
    <3>1. Steps(Idle) \in Nat /\ Steps(Idle) < Steps(req[r])
      BY <2>1, StepsLeft, StepsKnown DEF Request
    <3> QED
      BY <2>1, <3>1, OneAdvances
  <2>2. ASSUME NEW r \in Requests, NEW u \in Users, NEW dto \in Dtos,
               UpdateSchedule(r, u, dto)
        PROVE  Closer
    <3>1. /\ [pc |-> "delete", dto |-> dto] # Idle
          /\ Steps([pc |-> "delete", dto |-> dto]) \in Nat
      BY Bodies DEF Idle, Steps
    <3> QED
      BY <2>2, <3>1, OneAdvances DEF UpdateSchedule
  <2>3. ASSUME NEW r \in Requests, StartDelete(r)
        PROVE  Closer
    <3> DEFINE q == [pc |-> "lock", dto |-> req[r].dto, seen |-> Stored,
                     at |-> 0, late |-> FALSE]
    <3>1. req[r] \in Request /\ req[r] # Idle
      BY <2>3 DEF IInv, TypeOK, Request, StartDelete, Idle
    <3>2. Steps(q) = Len(req[r].dto) + 2
      BY DEF Steps
    <3>3. Steps(q) \in Nat /\ Steps(q) < Steps(req[r])
      BY <2>3, <3>1, <3>2, StepsKnown DEF StartDelete, Idle
    <3> HIDE DEF q
    <3>4. req' = [req EXCEPT ![r] = q]
      BY <2>3 DEF StartDelete, q
    <3> QED
      BY <3>3, <3>4, OneAdvances
  <2>4. ASSUME NEW r \in Requests, DeleteRows(r)
        PROVE  Closer
    <3> DEFINE q == [req[r] EXCEPT !.pc = "insert"]
    <3>1. req[r] \in Update /\ req[r] \in Request /\ req[r].pc = "lock"
      BY <2>4, RequestKinds DEF IInv, TypeOK, Request, DeleteRows
    <3>2. req[r] # Idle /\ req[r].at = 0
      BY <3>1 DEF Idle, IInv, SeenSound
    <3>3. q \in Request /\ q.pc = "insert" /\ q.dto = req[r].dto /\ q.at = 0
      BY <3>1, <3>2 DEF Update, Request
    <3>4. Steps(q) = Len(req[r].dto) - 0 + 1
      BY <3>3, StepsKnown
    <3> HIDE DEF q
    <3>5. Steps(q) \in Nat /\ Steps(q) < Steps(req[r])
      BY <3>1, <3>2, <3>4, StepsKnown
    <3>6. req' = [req EXCEPT ![r] = q]
      BY <2>4 DEF DeleteRows, q
    <3> QED
      BY <3>5, <3>6, OneAdvances
  <2>5. ASSUME NEW r \in Requests, InsertRow(r)
        PROVE  Closer
    <3> DEFINE q == [req[r] EXCEPT !.at = @ + 1]
    <3>1. /\ req[r] \in Update /\ req[r] \in Request /\ req[r] # Idle
          /\ req[r].pc = "insert" /\ req[r].at \in Nat
      BY <2>5, RequestKinds
         DEF IInv, TypeOK, Request, InsertRow, Inserts, Idle, Update
    <3>2. /\ q \in Request /\ q.pc = "insert" /\ q.dto = req[r].dto
          /\ q.at = req[r].at + 1 /\ q.at <= Len(q.dto)
      BY <2>5, <3>1 DEF Update, Request, InsertRow, Inserts
    <3> HIDE DEF q
    <3>3. Steps(q) \in Nat /\ Steps(q) < Steps(req[r])
      <4>1. q # Idle /\ Len(q.dto) \in Nat
        BY <3>1, <3>2, StepsKnown DEF Idle
      <4>2. /\ Steps(q) = Len(q.dto) - q.at + 1
            /\ Steps(req[r]) = Len(req[r].dto) - req[r].at + 1
        BY <3>1, <3>2, StepsKnown
      <4> QED
        BY <3>1, <3>2, <4>1, <4>2
    <3>4. req' = [req EXCEPT ![r] = q]
      BY <2>5 DEF InsertRow, q
    <3> QED
      BY <3>3, <3>4, OneAdvances
  <2>6. ASSUME NEW r \in Requests, Commit(r)
        PROVE  Closer
    <3>1. /\ req'[r] = Idle
          /\ \A o \in Requests \ {r} : req'[o] = Overtaken(o, req[r].seen)
      BY <2>6 DEF Commit
    <3>2. req[r] # Idle /\ Idle \in Request
      BY <2>6 DEF Commit, Idle, Request
    <3>3. Steps(req'[r]) < Steps(req[r])
      BY <3>1, <3>2, StepsLeft, StepsKnown
    <3>4. ASSUME NEW o \in Requests, req[o] # Idle
          PROVE  Steps(req'[o]) <= Steps(req[o])
      <4>1. CASE o = r
        <5>1. Steps(req'[o]) = 0
          BY <3>1, <3>2, <4>1, StepsKnown
        <5> QED
          BY <3>4, <5>1, StepsLeft
      <4>2. CASE o # r
        <5>1. req[o] \in Request /\ req'[o] = Overtaken(o, req[r].seen)
          BY <3>1, <4>2 DEF IInv, TypeOK, Request
        <5>2. /\ req'[o] \in Request /\ req'[o].pc = req[o].pc
              /\ req'[o].dto = req[o].dto
              /\ req[o].pc = "insert" => req'[o].at = req[o].at
          BY <3>4, <5>1, OvertakenRequest
        <5>3. req[o].pc \in {"delete", "lock", "insert"}
          BY <3>4, <5>1, RequestKinds
        <5>4. Steps(req'[o]) = Steps(req[o])
          BY <5>1, <5>2, <5>3, StepsKnown
        <5> QED
          BY <3>4, <5>4, StepsLeft
      <4> QED
        BY <4>1, <4>2
    <3> QED
      BY <3>3, <3>4
  <2>7. ASSUME NEW r \in Requests, Collide(r) \/ RollBack(r)
        PROVE  Closer
    BY <2>1, <2>7 DEF Collide, RollBack, Inserts, Idle
  <2> QED
    BY <2>2, <2>3, <2>4, <2>5, <2>6, <2>7 DEF Next, Work
<1> QED
  BY <1>1, Inductive, PTL DEF Spec, UpdatesAdvance

-----------------------------------------------------------------------------
(* The abstract week.                                                       *)

\* A commit replaces the bodies its DELETE took and that are still there.
LEMMA CommitReplaces ==
    ASSUME IInv, NEW r \in Requests, Commit(r)
    PROVE  W!Next
<1> DEFINE dto  == req[r].dto
           gone == req[r].seen
<1>1. /\ req[r] \in Update /\ req[r].pc = "insert"
      /\ dto \in Dtos /\ dto # None
  BY RequestKinds, Bodies DEF IInv, TypeOK, Request, Commit, Update
<1>2. /\ gone \subseteq Stored
      /\ \A d \in gone : Days(rows[d]) \subseteq gone
      /\ Inserting(r) \cap (Stored \ gone) = {}
  BY <1>1 DEF IInv, SeenSound
<1>3. Days(dto) = Inserting(r)
  BY <1>1 DEF Commit, Inserting, Days
<1>4. rows' = [d \in Weekdays |-> IF d \in Days(dto) THEN dto
                                  ELSE IF d \in gone THEN None
                                  ELSE rows[d]]
  BY DEF Commit
<1>5. gone \in SUBSET W!Filled
  BY <1>2 DEF W!Filled, Stored
<1>6. W!Replace(dto, gone)
  BY <1>2, <1>3, <1>4 DEF W!Replace, W!Filled, W!Days, Stored, Days
<1> QED
  BY <1>1, <1>5, <1>6 DEF W!Next

\* DELETE and INSERT under READ COMMITTED, with any number of updates in
\* flight, replace whole bodies in one step.
THEOREM ScheduleKeepsWeeks == Spec => ImplementsWeek
<1>1. Init => W!Init
  BY DEF Init, W!Init
<1>2. IInv /\ [Next]_vars => [W!Next]_rows
  BY CommitReplaces
     DEF Next, vars, UpdateSchedule, Work, StartDelete, DeleteRows, InsertRow,
         Collide, RollBack
<1> QED
  BY <1>1, <1>2, Inductive, PTL DEF Spec, ImplementsWeek, W!Spec

\* Every body is a sequence of weekdays and not the mark of an empty day.
LEMMA WeekWhole == W!Spec => [](rows \in [Weekdays -> Dtos \cup {None}] /\ W!Whole)
<1> DEFINE WInv == rows \in [Weekdays -> Dtos \cup {None}] /\ W!Whole
<1>1. W!Init => WInv
  BY DEF W!Init, W!Whole, W!Filled
<1>2. ASSUME WInv, NEW dto \in Dtos, NEW gone \in SUBSET W!Filled,
             W!Replace(dto, gone)
      PROVE  WInv'
  <2>1. dto # None /\ W!Days(dto) \subseteq Weekdays
    BY Bodies DEF Days, W!Days
  <2>2. \A d \in Weekdays : rows'[d] = IF d \in W!Days(dto) THEN dto
                                       ELSE IF d \in gone THEN None
                                       ELSE rows[d]
    BY <1>2 DEF W!Replace
  <2>3. rows' \in [Weekdays -> Dtos \cup {None}]
    BY <1>2 DEF W!Replace, W!Filled
  <2>4. ASSUME NEW d \in Weekdays, rows'[d] # None
        PROVE  /\ d \in W!Days(rows'[d])
               /\ \A e \in W!Days(rows'[d]) : rows'[e] = rows'[d]
    <3>1. CASE d \in W!Days(dto)
      BY <2>1, <2>2, <3>1
    <3>2. CASE d \notin W!Days(dto)
      <4>1. d \notin gone /\ rows'[d] = rows[d] /\ d \in W!Filled \ gone
        BY <2>2, <2>4, <3>2 DEF W!Filled
      <4>2. /\ d \in W!Days(rows[d])
            /\ \A e \in W!Days(rows[d]) : rows[e] = rows[d]
            /\ rows[d] \in Dtos /\ rows[d] # None
        BY <1>2, <4>1 DEF W!Whole, W!Filled
      <4>3. ASSUME NEW e \in W!Days(rows[d])
            PROVE  rows'[e] = rows[d]
        <5>1. e \in Weekdays /\ rows[e] = rows[d]
          BY <4>2, Bodies DEF Days, W!Days
        <5>2. e \in W!Filled /\ e \notin gone
          BY <1>2, <4>1, <4>2, <5>1 DEF W!Filled, W!Replace
        <5>3. e \notin W!Days(dto)
          BY <1>2, <5>2 DEF W!Replace
        <5> QED
          BY <2>2, <5>1, <5>2, <5>3
      <4> QED
        BY <4>1, <4>2, <4>3
    <3> QED
      BY <3>1, <3>2
  <2> QED
    BY <2>3, <2>4 DEF W!Whole, W!Filled
<1>3. WInv /\ UNCHANGED rows => WInv'
  BY DEF W!Whole, W!Filled
<1>4. WInv /\ [W!Next]_rows => WInv'
  BY <1>2, <1>3 DEF W!Next
<1> QED
  BY <1>1, <1>4, PTL DEF W!Spec

\* Whatever implements the abstract week stores bodies whole and lets go of
\* them whole.
THEOREM WeekGoesWhole == W!Spec => []W!Whole /\ W!GoesWhole
<1> DEFINE WInv == rows \in [Weekdays -> Dtos \cup {None}] /\ W!Whole
<1>1. ASSUME WInv, WInv', NEW d \in W!Filled, rows'[d] = rows[d],
             NEW e \in W!Days(rows[d])
      PROVE  rows'[e] = rows[e]
  <2>1. rows[e] = rows[d]
    BY <1>1 DEF W!Whole
  <2>2. rows'[d] # None /\ d \in Weekdays
    BY <1>1 DEF W!Filled
  <2>3. rows'[e] = rows'[d]
    BY <1>1, <2>2 DEF W!Whole, W!Filled
  <2> QED
    BY <1>1, <2>1, <2>3
<1>2. WInv /\ WInv' => [\A d \in W!Filled :
                           rows'[d] = rows[d] =>
                             \A e \in W!Days(rows[d]) : rows'[e] = rows[e]]_rows
  BY <1>1
<1> HIDE DEF WInv
<1>3. WInv => W!Whole
  BY DEF WInv
<1>4. W!Spec => []WInv
  BY WeekWhole DEF WInv
<1> QED
  BY <1>2, <1>3, <1>4, PTL DEF W!GoesWhole
=============================================================================
