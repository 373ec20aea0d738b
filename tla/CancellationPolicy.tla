------------------------- MODULE CancellationPolicy -------------------------
(***************************************************************************)
(* The cancellation policies of one tenant: TenantService changes them,    *)
(* and BookingService.cancelBooking charges a customer by the default one. *)
(* A step runs from one await to the next.                                 *)
(***************************************************************************)
EXTENDS Integers, FiniteSets

CONSTANTS
    PolicyIds,
    Names,
    Hours,      \* the values of hoursBeforeFree
    Left,       \* the hours left until a booking begins when it is cancelled
    Charges,    \* the values of lateCancelCharge
    Prices,     \* the values of totalPrice of a booking
    Requests,   \* requests that may be in flight together
    CanAbort,   \* may a request stop half way
    None        \* no such row, no such value

VARIABLES
    policies,  \* policies[i]: the row with id i, or None
    req,       \* req[r]: where request r is
    promised,  \* the last request that settled the default left one
    charged,   \* the last cancellation by a customer: hours left, price, fee
    torn       \* the last hand-over of the default was crossed by another,
               \* or stopped half way

vars == <<policies, req, promised, charged, torn>>

PolicyRow == [name: Names, free: Hours, charge: Charges, isDefault: BOOLEAN]

\* What an update may leave undefined is None.
Change == [name: Names \cup {None}, free: Hours \cup {None},
           charge: Charges \cup {None}, isDefault: BOOLEAN \cup {None}]

Idle == [pc |-> "idle"]

Request ==
    {Idle} \cup [pc: {"unset", "create"}, row: PolicyRow]
    \cup [pc: {"checkName", "unset", "update"}, id: PolicyIds, change: Change]
    \cup [pc: {"delete"}, id: PolicyIds]

ASSUME PolicyAssumption ==
    /\ Hours \subseteq Int /\ Left \subseteq Int
    /\ Charges \subseteq 0..100
    /\ Prices \subseteq Nat
    /\ CanAbort \in BOOLEAN
    /\ IsFiniteSet(Requests)
    /\ None \notin Names \cup Hours \cup Charges \cup PolicyRow \cup BOOLEAN

TypeOK ==
    /\ policies \in [PolicyIds -> PolicyRow \cup {None}]
    /\ req \in [Requests -> Request]
    /\ promised \in BOOLEAN
    /\ torn \in BOOLEAN
    /\ \/ charged = None
       \/ charged \in [hours: Left, price: Prices, fee: Charges \cup {0}]

Rows     == {i \in PolicyIds : policies[i] # None}
Defaults == {i \in Rows : policies[i].isDefault}

Init ==
    /\ policies = [i \in PolicyIds |-> None]
    /\ req = [r \in Requests |-> Idle]
    /\ promised = FALSE
    /\ charged = None
    /\ torn = FALSE

Goto(r, next) == req' = [req EXCEPT ![r] = next]

-----------------------------------------------------------------------------
(* TenantService.                                                          *)

\* createCancellationPolicy: the lookup of the name.
CreatePolicy(r, row) ==
    /\ req[r] = Idle
    /\ \A i \in Rows : policies[i].name # row.name
    /\ Goto(r, [pc |-> IF row.isDefault THEN "unset" ELSE "create",
                row |-> row])
    /\ UNCHANGED <<policies, promised, charged>>

\* updateCancellationPolicy: the lookup of the policy, ...
UpdatePolicy(r, i, change) ==
    /\ req[r] = Idle
    /\ i \in Rows
    /\ Goto(r, [pc |-> IF change.name # None THEN "checkName"
                       ELSE IF change.isDefault = TRUE THEN "unset"
                       ELSE "update",
                id |-> i, change |-> change])
    /\ UNCHANGED <<policies, promised, charged>>

\* ... then of the name.
CheckName(r) ==
    LET q == req[r]
        taken == \E i \in Rows \ {q.id} : policies[i].name = q.change.name IN
    /\ q.pc = "checkName"
    /\ \/ taken /\ Goto(r, Idle)
       \/ ~taken /\ req' = [req EXCEPT ![r].pc =
                              IF q.change.isDefault = TRUE THEN "unset"
                              ELSE "update"]
    /\ UNCHANGED <<policies, promised, charged>>

\* Mutant: the old default is left alone.
UnsetNothing(r) ==
    /\ req[r].pc = "unset"
    /\ req' = [req EXCEPT ![r].pc = IF "id" \in DOMAIN req[r] THEN "update"
                                    ELSE "create"]
    /\ UNCHANGED <<policies, promised, charged>>

\* Both: the updateMany that takes the default away from whoever has it, ...
Unset(r) ==
    /\ req[r].pc = "unset"
    /\ policies' = [i \in PolicyIds |->
                      IF i \in Rows THEN [policies[i] EXCEPT !.isDefault = FALSE]
                      ELSE None]
    /\ req' = [req EXCEPT ![r].pc = IF "id" \in DOMAIN req[r] THEN "update"
                                    ELSE "create"]
    /\ UNCHANGED <<promised, charged>>

NameFree(name, i) == \A j \in Rows \ {i} : policies[j].name # name

\* ... then, in no transaction with it, the insert or the update that gives it
\* to the new one.  A name taken since then, or a row deleted since then,
\* makes it fail (see Abort).
Create(r, i) ==
    LET q == req[r] IN
    /\ q.pc = "create"
    /\ policies[i] = None
    /\ NameFree(q.row.name, i)
    /\ policies' = [policies EXCEPT ![i] = q.row]
    /\ promised' = (promised \/ q.row.isDefault)
    /\ Goto(r, Idle)
    /\ UNCHANGED charged

Changed(row, c) ==
    [name |-> IF c.name = None THEN row.name ELSE c.name,
     free |-> IF c.free = None THEN row.free ELSE c.free,
     charge |-> IF c.charge = None THEN row.charge ELSE c.charge,
     isDefault |-> IF c.isDefault = None THEN row.isDefault ELSE c.isDefault]

\* The promise ends with the update that takes the default back on purpose.
Update(r) ==
    LET q == req[r]  row == policies[q.id] IN
    /\ q.pc = "update"
    /\ row # None
    /\ NameFree(Changed(row, q.change).name, q.id)
    /\ policies' = [policies EXCEPT ![q.id] = Changed(row, q.change)]
    /\ promised' = \/ q.change.isDefault = TRUE
                   \/ promised /\ ~(q.change.isDefault = FALSE /\ row.isDefault)
    /\ Goto(r, Idle)
    /\ UNCHANGED charged

DeletePolicy(r, i) ==
    /\ req[r] = Idle
    /\ i \in Rows
    /\ Goto(r, [pc |-> "delete", id |-> i])
    /\ UNCHANGED <<policies, promised, charged>>

Delete(r) ==
    LET i == req[r].id IN
    /\ req[r].pc = "delete"
    /\ policies[i] # None
    /\ policies' = [policies EXCEPT ![i] = None]
    /\ promised' = (promised /\ ~policies[i].isDefault)
    /\ Goto(r, Idle)
    /\ UNCHANGED charged

-----------------------------------------------------------------------------
(* BookingService.cancelBooking.                                           *)

\* The charge as it is, whatever the price.
LateFee(row, hours) == IF hours < row.free THEN row.charge ELSE 0

\* Mutant: findFirst does not ask for the default.
CancelByAny(hours, price) ==
    /\ \/ \E i \in Rows :
             charged' = [hours |-> hours, price |-> price,
                         fee |-> LateFee(policies[i], hours)]
       \/ /\ Rows = {}
          /\ charged' = [hours |-> hours, price |-> price, fee |-> 0]
    /\ UNCHANGED <<policies, req, promised>>

\* A customer cancels with so many hours left: findFirst takes any default.
Cancel(hours, price) ==
    /\ \/ \E i \in Defaults :
             charged' = [hours |-> hours, price |-> price,
                         fee |-> LateFee(policies[i], hours)]
       \/ /\ Defaults = {}
          /\ charged' = [hours |-> hours, price |-> price, fee |-> 0]
    /\ UNCHANGED <<policies, req, promised>>

-----------------------------------------------------------------------------

Fails(r) ==
    LET q == req[r] IN
    \/ /\ q.pc = "create"
       /\ ~NameFree(q.row.name, None)
    \/ /\ q.pc = "update"
       /\ \/ policies[q.id] = None
          \/ /\ policies[q.id] # None
             /\ ~NameFree(Changed(policies[q.id], q.change).name, q.id)
    \/ q.pc = "delete" /\ policies[q.id] = None

Abort(r) ==
    /\ Fails(r) \/ (CanAbort /\ req[r] # Idle)
    /\ Goto(r, Idle)
    /\ UNCHANGED <<policies, promised, charged>>

Step ==
    \/ \E r \in Requests :
          \/ \E row \in PolicyRow : CreatePolicy(r, row)
          \/ \E i \in PolicyIds, change \in Change : UpdatePolicy(r, i, change)
          \/ CheckName(r)
          \/ Unset(r)
          \/ \E i \in PolicyIds : Create(r, i) \/ DeletePolicy(r, i)
          \/ Update(r)
          \/ Delete(r)
          \/ Abort(r)
    \/ \E hours \in Left, price \in Prices : Cancel(hours, price)

\* The requests that have taken the default away and are about to give it.
Giving == {r \in Requests :
             \/ req[r].pc = "create" /\ req[r].row.isDefault
             \/ req[r].pc = "update" /\ req[r].change.isDefault = TRUE}

\* A request leaves Giving by its Create or Update, which change policies, or
\* by Abort; a hand-over that begins while none is under way starts afresh.
Record ==
    torn' = \/ Cardinality(Giving') > 1
            \/ Giving \ Giving' # {} /\ promised' = promised
                                     /\ policies' = policies
            \/ torn /\ ~(Giving = {} /\ Giving' # {})

Next == Step /\ Record

Spec == Init /\ [][Next]_vars

-----------------------------------------------------------------------------
(* What holds of the code as it is.                                        *)

\* A tenant that was left with a default policy has exactly one, unless the
\* last two requests to hand it on crossed, or one stopped half way, or one is
\* under way; the next request that hands it on undisturbed repairs it.
OneDefault ==
    ~torn => /\ Cardinality(Defaults) <= 1
             /\ promised /\ Giving = {} => Defaults # {}

\* Where that holds, the late fee logged for a customer who cancels is the one
\* of the one default policy, although hand-overs and cancellations interleave;
\* what is left is the free cancellation in the middle of a hand-over.  The fee
\* is lateCancelCharge as an amount, as in the tests of cancelBooking, whatever
\* the booking costs: not the percentage of its price that the comment in the
\* DTO and the case study speak of.
FeeIsPolicy ==
    [][charged' # charged /\ promised /\ ~torn /\ Giving = {} =>
          \E i \in Defaults :
              /\ Defaults = {i}
              /\ charged'.fee = IF charged'.hours < policies[i].free
                                THEN policies[i].charge ELSE 0]_vars
=============================================================================
