------------------------------ MODULE Schedule ------------------------------
(***************************************************************************)
(* ScheduleService.updateSchedule: the transactions that replace the rows  *)
(* of provider_schedules of one provider, under PostgreSQL's READ          *)
(* COMMITTED.  The DELETE sees the rows committed when it starts and waits *)
(* for whoever is deleting one of them; the INSERT goes row by row, waits  *)
(* for other transactions at work on the same weekday, and fails on the    *)
(* unique (providerId, dayOfWeek) when a row is there.  A row stands for   *)
(* the request body it came from: its times decide nothing here.           *)
(***************************************************************************)
EXTENDS Access, Naturals, Sequences

CONSTANTS
    Weekdays,
    Dtos,        \* the weekdays of the request bodies, in order
    Requests,    \* updates that may be in flight together
    Users, RoleOf, TenantOf,
    Tenant, Owner,  \* tenant and user of the provider profile
    None

VARIABLES
    rows,  \* rows[d]: the committed row of weekday d, or None
    req,   \* req[r]: where request r is and what its transaction has done
    last   \* the last commit: its body, and whether it was overlapped

vars == <<rows, req, last>>

Idle == [pc |-> "idle"]

\* seen: the weekdays whose rows the DELETE takes; at: how many rows the
\* INSERT has written.  late is auxiliary: another update has committed since
\* the DELETE started.
Update == [pc: {"lock", "insert"}, dto: Dtos, seen: SUBSET Weekdays,
           at: Nat, late: BOOLEAN]

Start == [pc: {"delete"}, dto: Dtos]

ASSUME ScheduleAssumption ==
    /\ RoleOf \in [Users -> UserRole]
    /\ Dtos \subseteq Seq(Weekdays)
    /\ None \notin Dtos

TypeOK ==
    /\ rows \in [Weekdays -> Dtos \cup {None}]
    /\ req \in [Requests -> {Idle} \cup Start \cup Update]
    /\ last \in [dto: Dtos, late: BOOLEAN] \cup {None}

Init ==
    /\ rows = [d \in Weekdays |-> None]
    /\ req = [r \in Requests |-> Idle]
    /\ last = None

Days(dto) == {dto[i] : i \in 1..Len(dto)}

Stored == {d \in Weekdays : rows[d] # None}
-----------------------------------------------------------------------------
(* The transaction.                                                        *)

\* A transaction holds the rows it has deleted, and those it has inserted.
Deleting(r)  == IF req[r].pc = "insert" THEN req[r].seen ELSE {}
Inserting(r) ==
    IF req[r].pc = "insert" THEN {req[r].dto[i] : i \in 1..req[r].at} ELSE {}

\* Another transaction is at work on the row of weekday d.
Locked(r, d) ==
    \E o \in Requests \ {r} : d \in Deleting(o) \cup Inserting(o)

\* Mutant: repeated weekdays are let through.
AcceptedAny(dto) == TRUE

\* The check of the body: no weekday twice.
Accepted(dto) ==
    \A i, j \in 1..Len(dto) : dto[i] = dto[j] => i = j

\* assertProviderOwnership: administrators of the tenant manage every
\* provider of it, a provider only itself.
Manages(u) ==
    /\ TenantOf[u] = Tenant
    /\ RoleOf[u] = "PROVIDER" => u = Owner

\* The route, the two checks, and the beginning of the transaction.
UpdateSchedule(r, u, dto) ==
    /\ req[r] = Idle
    /\ canActivate(RoleOf[u], Staff)
    /\ Manages(u)
    /\ Accepted(dto)
    /\ req' = [req EXCEPT ![r] = [pc |-> "delete", dto |-> dto]]
    /\ UNCHANGED <<rows, last>>

\* deleteMany starts: the rows it will take are those committed by now.
StartDelete(r) ==
    /\ req[r].pc = "delete"
    /\ req' = [req EXCEPT ![r] = [pc |-> "lock", dto |-> req[r].dto,
                                  seen |-> Stored, at |-> 0, late |-> FALSE]]
    /\ UNCHANGED <<rows, last>>

\* deleteMany ends, when nobody else is deleting one of its rows.
DeleteRows(r) ==
    /\ req[r].pc = "lock"
    /\ \A d \in req[r].seen : ~Locked(r, d)
    /\ req' = [req EXCEPT ![r].pc = "insert"]
    /\ UNCHANGED <<rows, last>>

\* The weekday createManyAndReturn comes to next.
NextDay(r) == req[r].dto[req[r].at + 1]

Inserts(r) == req[r].pc = "insert" /\ req[r].at < Len(req[r].dto)

\* Mutant: there is no unique index, a transaction minds its own rows only.
TakenOwn(r, d) == d \in Inserting(r)

\* A row of weekday d is there that the transaction has not deleted, or it
\* has inserted one itself.
Taken(r, d) == d \in (Stored \ req[r].seen) \cup Inserting(r)

InsertRow(r) ==
    /\ Inserts(r)
    /\ ~Locked(r, NextDay(r))
    /\ ~Taken(r, NextDay(r))
    /\ req' = [req EXCEPT ![r].at = @ + 1]
    /\ UNCHANGED <<rows, last>>

\* Mutant: a collision starts the update over.
CollideRetry(r) ==
    /\ Inserts(r) /\ ~Locked(r, NextDay(r)) /\ Taken(r, NextDay(r))
    /\ req' = [req EXCEPT ![r] = [pc |-> "delete", dto |-> req[r].dto]]
    /\ UNCHANGED <<rows, last>>

\* The unique constraint: the transaction is rolled back.
Collide(r) ==
    /\ Inserts(r)
    /\ ~Locked(r, NextDay(r))
    /\ Taken(r, NextDay(r))
    /\ req' = [req EXCEPT ![r] = Idle]
    /\ UNCHANGED <<rows, last>>

\* Rows deleted for good are no longer among those others were to delete.
Overtaken(o, gone) ==
    IF req[o].pc \in {"lock", "insert"}
    THEN [req[o] EXCEPT !.seen = @ \ gone, !.late = TRUE]
    ELSE req[o]

\* Mutants: the rows are marked and stay; the deletion is left out.
CommitMarks(r) ==
    /\ req[r].pc = "insert" /\ req[r].at = Len(req[r].dto)
    /\ rows' = [d \in Weekdays |->
                  CASE d \in Days(req[r].dto) -> req[r].dto
                    [] d \in req[r].seen \ Days(req[r].dto) -> "inactive"
                    [] OTHER -> rows[d]]
    /\ req' = [req EXCEPT ![r] = Idle]
    /\ UNCHANGED last
CommitKeepsRows(r) ==
    /\ req[r].pc = "insert" /\ req[r].at = Len(req[r].dto)
    /\ rows' = [d \in Weekdays |->
                  IF d \in Days(req[r].dto) THEN req[r].dto ELSE rows[d]]
    /\ req' = [o \in Requests |-> IF o = r THEN Idle ELSE Overtaken(o, {})]
    /\ last' = [dto |-> req[r].dto, late |-> req[r].late]

Commit(r) ==
    /\ req[r].pc = "insert" /\ req[r].at = Len(req[r].dto)
    /\ rows' = [d \in Weekdays |->
                  CASE d \in Days(req[r].dto) -> req[r].dto
                    [] d \in req[r].seen \ Days(req[r].dto) -> None
                    [] OTHER -> rows[d]]
    /\ req' = [o \in Requests |->
                 IF o = r THEN Idle ELSE Overtaken(o, req[r].seen)]
    /\ last' = [dto |-> req[r].dto, late |-> req[r].late]

\* A transaction ends from outside: the time limit of an interactive
\* transaction, a lost connection, the process dying.
RollBack(r) ==
    /\ req[r] # Idle
    /\ req' = [req EXCEPT ![r] = Idle]
    /\ UNCHANGED <<rows, last>>

Work(r) ==
    \/ StartDelete(r)
    \/ DeleteRows(r)
    \/ InsertRow(r)
    \/ Collide(r)
    \/ Commit(r)

\* The rows r has to wait for.
Needs(r) == CASE req[r].pc = "lock" -> req[r].seen
              [] Inserts(r)         -> {NextDay(r)}
              [] OTHER              -> {}

WaitsFor(r, o) ==
    r # o /\ Needs(r) \cap (Deleting(o) \cup Inserting(o)) # {}

\* PostgreSQL ends a transaction of a group that waits for itself.
BreakDeadlock ==
    \E group \in SUBSET Requests :
        /\ \A r \in group : \E o \in group : WaitsFor(r, o)
        /\ \E r \in group : RollBack(r)

Next ==
    \/ \E r \in Requests, u \in Users, dto \in Dtos : UpdateSchedule(r, u, dto)
    \/ \E r \in Requests : Work(r) \/ RollBack(r)

Spec == Init /\ [][Next]_vars

\* The server and the database go on with a transaction; PostgreSQL serves
\* the lock queue of a row in order, so that a transaction which keeps finding
\* its row free gets it; deadlocks are detected.  Nothing else is sure to end
\* an update.
FairSpec ==
    /\ Spec
    /\ \A r \in Requests : SF_vars(Work(r))
    /\ WF_vars(BreakDeadlock)
-----------------------------------------------------------------------------

\* A week is stored whole or not at all: whichever updates overlap, every
\* row a body brought is there as long as one of them is, so that bodies whose
\* rows stand side by side have no weekday in common.
StoredWhole ==
    \A d \in Stored :
        /\ d \in Days(rows[d])
        /\ \A e \in Days(rows[d]) : rows[e] = rows[d]

\* An update that no other one overlapped leaves its own weekdays and nothing
\* else: two schedules mix, or a closed day stays open, only by a race.
AloneReplacesAll ==
    last # None /\ ~last.late =>
        rows = [d \in Weekdays |-> IF d \in Days(last.dto) THEN last.dto
                                                           ELSE None]

\* An update fails on the unique weekday only because another one committed
\* since its DELETE started, never because of the rows it replaces or of
\* rows of its own.
CollidesOnlyByRace ==
    \A r \in Requests :
        Inserts(r) /\ Taken(r, NextDay(r)) => req[r].late

\* Every update comes to an end: whatever it waits for ends as well.
UpdateEnds == \A r \in Requests : req[r] # Idle ~> req[r] = Idle

\* The part of it that does not depend on fairness: an update in flight only
\* comes closer to its end, by steps of its own and whatever others do, and a
\* step that brings none closer begins another one.
Steps(q) ==
    CASE q.pc = "idle"   -> 0
      [] q.pc = "delete" -> Len(q.dto) + 3
      [] q.pc = "lock"   -> Len(q.dto) + 2
      [] q.pc = "insert" -> Len(q.dto) - q.at + 1

UpdatesAdvance ==
    [][/\ \A r \in Requests : req[r] # Idle => Steps(req'[r]) <= Steps(req[r])
       /\ \E r \in Requests : \/ Steps(req'[r]) < Steps(req[r])
                              \/ req[r] = Idle /\ req'[r] # Idle]_vars

\* All that can be seen of an update is its commit, and that is one step of
\* the abstract week: bodies are taken away whole, weekdays that others have
\* filled are left alone.
W == INSTANCE Week

ImplementsWeek == W!Spec
=============================================================================
