---------------------- MODULE CancellationPolicyProofs ----------------------
(***************************************************************************)
(* Proofs about CancellationPolicy, for any policies and any finite number *)
(* of requests in flight together.                                         *)
(***************************************************************************)
EXTENDS CancellationPolicy, FiniteSetTheorems, TLAPS

-----------------------------------------------------------------------------
(* The inductive invariant.                                                *)

\* A request that is about to take the default away is about to give it too.
UnsetToGive ==
    \A r \in Requests :
        req[r].pc = "unset" =>
            IF "id" \in DOMAIN req[r] THEN req[r].change.isDefault = TRUE
                                      ELSE req[r].row.isDefault = TRUE

AtMostOne(S) == \A x, y \in S : x = y

\* OneDefault, and what a hand-over under way has to do with it: there is no
\* default until it ends.
HandOver ==
    torn = FALSE =>
        /\ AtMostOne(Defaults)
        /\ AtMostOne(Giving)
        /\ Giving # {} => Defaults = {}
        /\ promised = TRUE /\ Giving = {} => Defaults # {}

IInv == TypeOK /\ UnsetToGive /\ HandOver

-----------------------------------------------------------------------------

LEMMA GivingFinite == IsFiniteSet(Giving) /\ IsFiniteSet(Giving')
<1>1. Giving \in SUBSET Requests /\ Giving' \in SUBSET Requests
  BY DEF Giving
<1> QED
  BY <1>1, FS_Subset, PolicyAssumption

\* A finite set that does not count more than one has at most one element.
LEMMA NotMany ==
    ASSUME NEW S, IsFiniteSet(S), ~(Cardinality(S) > 1)
    PROVE  AtMostOne(S)
<1>1. Cardinality(S) \in Nat
  BY FS_CardinalityType
<1>2. Cardinality(S) = 0 \/ Cardinality(S) = 1
  BY <1>1
<1>3. CASE Cardinality(S) = 0
  BY <1>3, FS_EmptySet DEF AtMostOne
<1>4. CASE Cardinality(S) = 1
  BY <1>4, FS_Singleton DEF AtMostOne
<1> QED
  BY <1>2, <1>3, <1>4

LEMMA FewCount ==
    ASSUME NEW S, AtMostOne(S)
    PROVE  Cardinality(S) \in {0, 1}
<1>1. CASE S = {}
  BY <1>1, FS_EmptySet
<1>2. CASE S # {}
  <2>1. PICK x : x \in S
    BY <1>2
  <2>2. S = {x}
    BY <2>1 DEF AtMostOne
  <2> QED
    BY <2>2, FS_Singleton
<1> QED
  BY <1>1, <1>2

-----------------------------------------------------------------------------
(* What a step does to the requests, the rows and who is giving.           *)

\* The kinds of requests, told by their labels.
LEMMA RequestKinds ==
    ASSUME NEW q \in Request
    PROVE  /\ q.pc = "create" => q.row \in PolicyRow /\ "id" \notin DOMAIN q
           /\ q.pc \in {"checkName", "update"} =>
                 q.id \in PolicyIds /\ q.change \in Change /\ "id" \in DOMAIN q
           /\ q.pc = "delete" => q.id \in PolicyIds
           /\ q.pc = "unset" =>
                 \/ /\ q \in [pc: {"unset", "create"}, row: PolicyRow]
                    /\ "id" \notin DOMAIN q
                 \/ /\ q \in [pc: {"checkName", "unset", "update"},
                              id: PolicyIds, change: Change]
                    /\ "id" \in DOMAIN q
BY DEF Request, Idle

LEMMA ChangedRow ==
    ASSUME NEW row \in PolicyRow, NEW c \in Change
    PROVE  /\ Changed(row, c) \in PolicyRow
           /\ Changed(row, c).isDefault =
                 IF c.isDefault = None THEN row.isDefault ELSE c.isDefault
BY DEF Changed, PolicyRow, Change

Gives(q) ==
    \/ q.pc = "create" /\ q.row.isDefault
    \/ q.pc = "update" /\ q.change.isDefault = TRUE

\* A step of one request lets that one in or out.
LEMMA GivingAfter ==
    ASSUME TypeOK, NEW r \in Requests, NEW STATE q, req' = [req EXCEPT ![r] = q]
    PROVE  /\ Giving' = IF Gives(q) THEN Giving \cup {r} ELSE Giving \ {r}
           /\ r \in Giving <=> Gives(req[r])
<1>1. /\ req'[r] = q
      /\ \A o \in Requests \ {r} : req'[o] = req[o]
  BY DEF TypeOK
<1>2. \A o \in Requests : o \in Giving <=> Gives(req[o])
  BY DEF Giving, Gives
<1>3. \A o \in Requests : o \in Giving' <=> Gives(req'[o])
  BY DEF Giving, Gives
<1>4. Giving \subseteq Requests /\ Giving' \subseteq Requests
  BY DEF Giving
<1> QED
  BY <1>1, <1>2, <1>3, <1>4

\* What it takes for the record to stay, or become, clean.
LEMMA Settled ==
    ASSUME Record, torn' = FALSE
    PROVE  /\ AtMostOne(Giving')
           /\ torn = FALSE \/ (Giving = {} /\ Giving' # {})
           /\ promised' = promised /\ policies' = policies =>
                 Giving \subseteq Giving'
<1>1. ~(Cardinality(Giving') > 1)
  BY DEF Record
<1>2. AtMostOne(Giving')
  BY <1>1, GivingFinite, NotMany
<1>3. torn = FALSE \/ (Giving = {} /\ Giving' # {})
  BY DEF Record
<1>4. promised' = promised /\ policies' = policies => Giving \subseteq Giving'
  BY DEF Record
<1> QED
  BY <1>2, <1>3, <1>4

LEMMA RecordType == Record => torn' \in BOOLEAN
BY DEF Record

\* What the requests rely on, after a step of one of them.
LEMMA RequestsAfter ==
    ASSUME TypeOK, UnsetToGive, NEW r \in Requests, NEW STATE q,
           req' = [req EXCEPT ![r] = q], q \in Request,
           q.pc = "unset" =>
               IF "id" \in DOMAIN q THEN q.change.isDefault = TRUE
                                    ELSE q.row.isDefault = TRUE
    PROVE  req' \in [Requests -> Request] /\ UnsetToGive'
<1>1. /\ req' \in [Requests -> Request] /\ req'[r] = q
      /\ \A o \in Requests \ {r} : req'[o] = req[o]
  BY DEF TypeOK
<1> QED
  BY <1>1 DEF UnsetToGive

\* A step that changes no policy, and puts its request where it gives nothing.
LEMMA QuietStep ==
    ASSUME IInv, Record, NEW r \in Requests, NEW STATE q,
           req' = [req EXCEPT ![r] = q], q \in Request, ~Gives(q),
           q.pc = "unset" =>
               IF "id" \in DOMAIN q THEN q.change.isDefault = TRUE
                                    ELSE q.row.isDefault = TRUE,
           UNCHANGED <<policies, promised, charged>>
    PROVE  IInv'
<1>1. req' \in [Requests -> Request] /\ UnsetToGive'
  BY RequestsAfter DEF IInv
<1>2. TypeOK'
  BY <1>1, RecordType DEF IInv, TypeOK
<1>3. HandOver'
  <2> SUFFICES ASSUME torn' = FALSE
               PROVE  /\ AtMostOne(Defaults')
                      /\ AtMostOne(Giving')
                      /\ Giving' # {} => Defaults' = {}
                      /\ promised' = TRUE /\ Giving' = {} => Defaults' # {}
    BY DEF HandOver
  <2>1. Giving' = Giving
    BY Settled, GivingAfter DEF IInv
  <2>2. torn = FALSE
    BY <2>1, Settled
  <2>3. Defaults' = Defaults
    BY DEF Defaults, Rows
  <2> QED
    BY <2>1, <2>2, <2>3 DEF IInv, HandOver
<1> QED
  BY <1>1, <1>2, <1>3 DEF IInv

LEMMA InvCreatePolicy ==
    ASSUME IInv, Record, NEW r \in Requests, NEW row \in PolicyRow,
           CreatePolicy(r, row)
    PROVE  IInv'
<1> DEFINE q == [pc |-> IF row.isDefault THEN "unset" ELSE "create", row |-> row]
<1>1. q \in Request /\ ~Gives(q)
  BY DEF Request, Gives
<1>2. q.pc = "unset" => "id" \notin DOMAIN q /\ q.row.isDefault = TRUE
  BY DEF PolicyRow
<1>3. req' = [req EXCEPT ![r] = q] /\ UNCHANGED <<policies, promised, charged>>
  BY DEF CreatePolicy, Goto
<1> HIDE DEF q
<1> QED
  BY <1>1, <1>2, <1>3, QuietStep

LEMMA InvUpdatePolicy ==
    ASSUME IInv, Record, NEW r \in Requests, NEW i \in PolicyIds,
           NEW change \in Change, UpdatePolicy(r, i, change)
    PROVE  IInv'
<1> DEFINE q == [pc |-> IF change.name # None THEN "checkName"
                        ELSE IF change.isDefault = TRUE THEN "unset"
                        ELSE "update",
                 id |-> i, change |-> change]
<1>1. q \in Request /\ ~Gives(q)
  BY DEF Request, Gives
<1>2. q.pc = "unset" => "id" \in DOMAIN q /\ q.change.isDefault = TRUE
  BY DEF Change
<1>3. req' = [req EXCEPT ![r] = q] /\ UNCHANGED <<policies, promised, charged>>
  BY DEF UpdatePolicy, Goto
<1> HIDE DEF q
<1> QED
  BY <1>1, <1>2, <1>3, QuietStep

LEMMA IdleQuiet ==
    Idle \in Request /\ ~Gives(Idle) /\ Idle.pc # "unset"
BY DEF Idle, Request, Gives

LEMMA InvCheckName ==
    ASSUME IInv, Record, NEW r \in Requests, CheckName(r)
    PROVE  IInv'
<1>1. UNCHANGED <<policies, promised, charged>>
  BY DEF CheckName
<1>2. CASE Goto(r, Idle)
  BY <1>1, <1>2, IdleQuiet, QuietStep DEF Goto
<1>3. CASE req' = [req EXCEPT ![r].pc =
                     IF req[r].change.isDefault = TRUE THEN "unset"
                     ELSE "update"]
  <2> DEFINE pc == IF req[r].change.isDefault = TRUE THEN "unset" ELSE "update"
             q  == [req[r] EXCEPT !.pc = pc]
  <2>1. req[r] \in [pc: {"checkName", "unset", "update"}, id: PolicyIds,
                    change: Change]
    BY DEF CheckName, IInv, TypeOK, Request, Idle
  <2>2. /\ q \in [pc: {"checkName", "unset", "update"}, id: PolicyIds,
                  change: Change]
        /\ "id" \in DOMAIN q /\ q.change = req[r].change /\ q.pc = pc
    BY <2>1
  <2>3. q \in Request /\ ~Gives(q)
    BY <2>2 DEF Request, Gives
  <2>4. req' = [req EXCEPT ![r] = q]
    BY <1>3 DEF IInv, TypeOK
  <2> HIDE DEF q
  <2> QED
    BY <1>1, <2>2, <2>3, <2>4, QuietStep
<1> QED
  BY <1>2, <1>3 DEF CheckName

LEMMA InvDeletePolicy ==
    ASSUME IInv, Record, NEW r \in Requests, NEW i \in PolicyIds,
           DeletePolicy(r, i)
    PROVE  IInv'
<1> DEFINE q == [pc |-> "delete", id |-> i]
<1>1. q \in Request /\ ~Gives(q) /\ q.pc # "unset"
  BY DEF Request, Gives
<1>2. req' = [req EXCEPT ![r] = q] /\ UNCHANGED <<policies, promised, charged>>
  BY DEF DeletePolicy, Goto
<1> HIDE DEF q
<1> QED
  BY <1>1, <1>2, QuietStep

\* Taking the default away: nobody has it, and the request gives it next.
LEMMA InvUnset ==
    ASSUME IInv, Record, NEW r \in Requests, Unset(r)
    PROVE  IInv'
<1> DEFINE pc == IF "id" \in DOMAIN req[r] THEN "update" ELSE "create"
           q  == [req[r] EXCEPT !.pc = pc]
<1>1. req[r] \in Request /\ req[r].pc = "unset"
  BY DEF Unset, IInv, TypeOK
<1>2. q \in Request /\ Gives(q) /\ q.pc # "unset"
  <2>1. CASE "id" \in DOMAIN req[r]
    <3>1. /\ req[r] \in [pc: {"checkName", "unset", "update"}, id: PolicyIds,
                         change: Change]
          /\ req[r].change.isDefault = TRUE
      BY <1>1, <2>1, RequestKinds DEF IInv, UnsetToGive
    <3>2. /\ q \in [pc: {"checkName", "unset", "update"}, id: PolicyIds,
                    change: Change]
          /\ q.change = req[r].change /\ q.pc = "update"
      BY <2>1, <3>1
    <3> QED
      BY <3>1, <3>2 DEF Request, Gives
  <2>2. CASE "id" \notin DOMAIN req[r]
    <3>1. /\ req[r] \in [pc: {"unset", "create"}, row: PolicyRow]
          /\ req[r].row.isDefault = TRUE
      BY <1>1, <2>2, RequestKinds DEF IInv, UnsetToGive
    <3>2. /\ q \in [pc: {"unset", "create"}, row: PolicyRow]
          /\ q.row = req[r].row /\ q.pc = "create"
      BY <2>2, <3>1
    <3> QED
      BY <3>1, <3>2 DEF Request, Gives
  <2> QED
    BY <2>1, <2>2
<1>3. req' = [req EXCEPT ![r] = q] /\ UNCHANGED <<promised, charged>>
  BY DEF Unset, IInv, TypeOK
<1> HIDE DEF q
<1>4. req' \in [Requests -> Request] /\ UnsetToGive'
  BY <1>2, <1>3, RequestsAfter DEF IInv
<1>5. /\ policies' \in [PolicyIds -> PolicyRow \cup {None}]
      /\ Defaults' = {}
  <2>1. \A i \in PolicyIds :
           /\ i \in Rows => /\ policies'[i] \in PolicyRow
                            /\ policies'[i].isDefault = FALSE
           /\ i \notin Rows => policies'[i] = None
    <3>1. \A i \in Rows : policies[i] \in PolicyRow
      BY DEF IInv, TypeOK, Rows
    <3>2. \A i \in Rows : policies'[i] = [policies[i] EXCEPT !.isDefault = FALSE]
      BY DEF Unset, Rows
    <3> QED
      BY <3>1, <3>2 DEF Unset, PolicyRow
  <2>2. policies' \in [PolicyIds -> PolicyRow \cup {None}]
    BY <2>1 DEF Unset
  <2>3. \A i \in Rows' : i \in PolicyIds /\ policies'[i].isDefault = FALSE
    BY <2>1 DEF Rows
  <2> QED
    BY <2>2, <2>3 DEF Defaults
<1>6. TypeOK'
  BY <1>3, <1>4, <1>5, RecordType DEF IInv, TypeOK
<1>7. HandOver'
  <2>1. r \in Giving'
    BY <1>2, <1>3, GivingAfter DEF IInv
  <2> QED
    BY <1>5, <2>1, Settled DEF HandOver, AtMostOne
<1> QED
  BY <1>4, <1>6, <1>7 DEF IInv

\* The end of a request that writes: if the record stays clean, there was no
\* other giving, and no default if this one was.
LEMMA WriteStep ==
    ASSUME IInv, Record, NEW r \in Requests, req' = [req EXCEPT ![r] = Idle],
           UNCHANGED charged, promised' \in BOOLEAN,
           policies' \in [PolicyIds -> PolicyRow \cup {None}],
           \* what becomes of the defaults, if the invariant spoke of them
           torn = FALSE =>
              /\ AtMostOne(Defaults')
              /\ Giving \ {r} # {} => Defaults' = {}
              /\ promised' = TRUE /\ Giving \ {r} = {} => Defaults' # {}
    PROVE  IInv'
<1>1. req' \in [Requests -> Request] /\ UnsetToGive'
  BY IdleQuiet, RequestsAfter DEF IInv
<1>2. TypeOK'
  BY <1>1, RecordType DEF IInv, TypeOK
<1>3. Giving' = Giving \ {r}
  BY IdleQuiet, GivingAfter DEF IInv
<1>4. HandOver'
  <2> SUFFICES ASSUME torn' = FALSE
               PROVE  /\ AtMostOne(Defaults')
                      /\ AtMostOne(Giving')
                      /\ Giving' # {} => Defaults' = {}
                      /\ promised' = TRUE /\ Giving' = {} => Defaults' # {}
    BY DEF HandOver
  <2>1. torn = FALSE
    BY <1>3, Settled
  <2> QED
    BY <1>3, <2>1, Settled
<1> QED
  BY <1>1, <1>2, <1>4 DEF IInv

LEMMA InvCreate ==
    ASSUME IInv, Record, NEW r \in Requests, NEW i \in PolicyIds, Create(r, i)
    PROVE  IInv'
<1> DEFINE row == req[r].row
<1>1. /\ row \in PolicyRow /\ row # None /\ row.isDefault \in BOOLEAN
      /\ req[r].pc = "create"
  BY RequestKinds, PolicyAssumption DEF Create, IInv, TypeOK, PolicyRow
<1>2. /\ policies' = [policies EXCEPT ![i] = row] /\ policies[i] = None
      /\ promised' = (promised \/ row.isDefault)
      /\ req' = [req EXCEPT ![r] = Idle] /\ UNCHANGED charged
  BY DEF Create, Goto
<1>3. policies' \in [PolicyIds -> PolicyRow \cup {None}]
  BY <1>1, <1>2 DEF IInv, TypeOK
<1>4. Defaults' = IF row.isDefault = TRUE THEN Defaults \cup {i} ELSE Defaults
  BY <1>1, <1>2 DEF IInv, TypeOK, Defaults, Rows
<1>5. r \in Giving <=> row.isDefault = TRUE
  BY <1>1 DEF Giving
<1>6. promised' \in BOOLEAN
      /\ (promised' = TRUE => promised = TRUE \/ row.isDefault = TRUE)
  BY <1>1, <1>2 DEF IInv, TypeOK
<1>7. ASSUME torn = FALSE
      PROVE  /\ AtMostOne(Defaults')
             /\ Giving \ {r} # {} => Defaults' = {}
             /\ promised' = TRUE /\ Giving \ {r} = {} => Defaults' # {}
  <2>1. CASE row.isDefault = TRUE
    BY <1>4, <1>5, <1>7, <2>1 DEF IInv, HandOver, AtMostOne
  <2>2. CASE row.isDefault # TRUE
    BY <1>4, <1>5, <1>6, <1>7, <2>2 DEF IInv, HandOver
  <2> QED
    BY <2>1, <2>2
<1> QED
  BY <1>2, <1>3, <1>6, <1>7, WriteStep

LEMMA InvUpdate ==
    ASSUME IInv, Record, NEW r \in Requests, Update(r)
    PROVE  IInv'
<1> DEFINE c   == req[r].change
           i   == req[r].id
           row == policies[i]
           new == Changed(row, c)
<1>1. c \in Change /\ i \in PolicyIds /\ req[r].pc = "update"
  BY RequestKinds DEF Update, IInv, TypeOK
<1>2. row \in PolicyRow /\ row # None
  BY <1>1 DEF Update, IInv, TypeOK
<1>3. /\ new \in PolicyRow /\ new # None
      /\ new.isDefault = IF c.isDefault = None THEN row.isDefault ELSE c.isDefault
      /\ new.isDefault \in BOOLEAN /\ row.isDefault \in BOOLEAN
  BY <1>1, <1>2, ChangedRow, PolicyAssumption DEF PolicyRow
<1>4. /\ policies' = [policies EXCEPT ![i] = new]
      /\ promised' = \/ c.isDefault = TRUE
                     \/ promised /\ ~(c.isDefault = FALSE /\ row.isDefault)
      /\ req' = [req EXCEPT ![r] = Idle] /\ UNCHANGED charged
  BY DEF Update, Goto
<1> HIDE DEF new
<1>5. policies' \in [PolicyIds -> PolicyRow \cup {None}]
  BY <1>3, <1>4 DEF IInv, TypeOK
<1>6. Defaults' = IF new.isDefault = TRUE THEN Defaults \cup {i}
                                          ELSE Defaults \ {i}
  BY <1>1, <1>3, <1>4 DEF IInv, TypeOK, Defaults, Rows
<1>7. i \in Defaults <=> row.isDefault = TRUE
  BY <1>1, <1>2, <1>3 DEF Defaults, Rows
<1>8. r \in Giving <=> c.isDefault = TRUE
  BY <1>1 DEF Giving
<1>9. /\ promised' \in BOOLEAN
      /\ promised' = TRUE => \/ c.isDefault = TRUE
                             \/ /\ promised = TRUE
                                /\ ~(c.isDefault = FALSE /\ row.isDefault = TRUE)
  BY <1>3, <1>4 DEF IInv, TypeOK
<1>10. ASSUME torn = FALSE
       PROVE  /\ AtMostOne(Defaults')
              /\ Giving \ {r} # {} => Defaults' = {}
              /\ promised' = TRUE /\ Giving \ {r} = {} => Defaults' # {}
  <2>1. CASE c.isDefault = TRUE
    <3>1. new.isDefault = TRUE
      BY <1>3, <2>1, PolicyAssumption
    <3> QED
      BY <1>6, <1>8, <1>10, <2>1, <3>1 DEF IInv, HandOver, AtMostOne
  <2>2. CASE c.isDefault # TRUE /\ new.isDefault = row.isDefault
    <3>1. Defaults' = Defaults
      BY <1>3, <1>6, <1>7, <2>2
    <3> QED
      BY <1>8, <1>9, <1>10, <2>2, <3>1 DEF IInv, HandOver
  <2>3. CASE c.isDefault # TRUE /\ new.isDefault # row.isDefault
    <3>1. c.isDefault = FALSE /\ new.isDefault = FALSE /\ row.isDefault = TRUE
      BY <1>1, <1>3, <2>3 DEF Change
    <3>2. Defaults' = Defaults \ {i} /\ promised' # TRUE
      BY <1>6, <1>9, <3>1
    <3> QED
      BY <1>8, <1>10, <2>3, <3>2 DEF IInv, HandOver, AtMostOne
  <2> QED
    BY <2>1, <2>2, <2>3
<1> QED
  BY <1>4, <1>5, <1>9, <1>10, WriteStep

LEMMA InvDelete ==
    ASSUME IInv, Record, NEW r \in Requests, Delete(r)
    PROVE  IInv'
<1> DEFINE i   == req[r].id
           row == policies[i]
<1>1. i \in PolicyIds /\ req[r].pc = "delete"
  BY RequestKinds DEF Delete, IInv, TypeOK
<1>2. row \in PolicyRow /\ row.isDefault \in BOOLEAN /\ row # None
  BY <1>1 DEF Delete, IInv, TypeOK, PolicyRow
<1>3. /\ policies' = [policies EXCEPT ![i] = None]
      /\ promised' = (promised /\ ~row.isDefault)
      /\ req' = [req EXCEPT ![r] = Idle] /\ UNCHANGED charged
  BY DEF Delete, Goto
<1>4. policies' \in [PolicyIds -> PolicyRow \cup {None}]
  BY <1>3 DEF IInv, TypeOK
<1>5. Defaults' = Defaults \ {i}
  BY <1>1, <1>3 DEF IInv, TypeOK, Defaults, Rows
<1>6. i \in Defaults <=> row.isDefault = TRUE
  BY <1>1, <1>2 DEF Defaults, Rows
<1>7. r \notin Giving
  BY <1>1 DEF Giving
<1>8. /\ promised' \in BOOLEAN
      /\ promised' = TRUE => promised = TRUE /\ row.isDefault # TRUE
  BY <1>2, <1>3 DEF IInv, TypeOK
<1>9. ASSUME torn = FALSE
      PROVE  /\ AtMostOne(Defaults')
             /\ Giving \ {r} # {} => Defaults' = {}
             /\ promised' = TRUE /\ Giving \ {r} = {} => Defaults' # {}
  BY <1>5, <1>6, <1>7, <1>8, <1>9 DEF IInv, HandOver, AtMostOne
<1> QED
  BY <1>3, <1>4, <1>8, <1>9, WriteStep

LEMMA InvCancel ==
    ASSUME IInv, Record, NEW hours \in Left, NEW price \in Prices,
           Cancel(hours, price)
    PROVE  IInv'
<1>1. UNCHANGED <<policies, req, promised>>
  BY DEF Cancel
<1>2. Defaults' = Defaults /\ Giving' = Giving /\ UnsetToGive'
  BY <1>1 DEF Defaults, Rows, Giving, IInv, UnsetToGive
<1>3. charged' \in [hours: Left, price: Prices, fee: Charges \cup {0}]
  <2>1. \A i \in Defaults : LateFee(policies[i], hours) \in Charges \cup {0}
    BY DEF IInv, TypeOK, Defaults, Rows, LateFee, PolicyRow
  <2> QED
    BY <2>1 DEF Cancel
<1>4. TypeOK'
  BY <1>1, <1>3, RecordType DEF IInv, TypeOK
<1>5. HandOver'
  BY <1>1, <1>2, Settled DEF IInv, HandOver
<1> QED
  BY <1>2, <1>4, <1>5 DEF IInv

-----------------------------------------------------------------------------
(* The theorems.                                                           *)

LEMMA InvInit == Init => IInv
<1> SUFFICES ASSUME Init PROVE IInv
  OBVIOUS
<1>1. TypeOK
  BY IdleQuiet DEF Init, TypeOK
<1>2. Rows = {} /\ Defaults = {} /\ Giving = {} /\ UnsetToGive
  BY DEF Init, Rows, Defaults, Giving, UnsetToGive, Idle
<1> QED
  BY <1>1, <1>2 DEF Init, IInv, HandOver, AtMostOne

LEMMA InvNext == IInv /\ [Next]_vars => IInv'
<1> SUFFICES ASSUME IInv, [Next]_vars PROVE IInv'
  OBVIOUS
<1>1. CASE UNCHANGED vars
  BY <1>1 DEF vars, IInv, TypeOK, UnsetToGive, HandOver, AtMostOne, Defaults,
     Rows, Giving
<1>2. CASE Next
  <2>1. Record /\ Step
    BY <1>2 DEF Next
  <2>2. ASSUME NEW r \in Requests, NEW row \in PolicyRow, CreatePolicy(r, row)
        PROVE  IInv'
    BY <2>1, <2>2, InvCreatePolicy
  <2>3. ASSUME NEW r \in Requests, NEW i \in PolicyIds, NEW change \in Change,
               UpdatePolicy(r, i, change)
        PROVE  IInv'
    BY <2>1, <2>3, InvUpdatePolicy
  <2>4. ASSUME NEW r \in Requests, NEW i \in PolicyIds,
               Create(r, i) \/ DeletePolicy(r, i)
        PROVE  IInv'
    BY <2>1, <2>4, InvCreate, InvDeletePolicy
  <2>5. ASSUME NEW r \in Requests, CheckName(r) \/ Unset(r) \/ Update(r) \/ Delete(r)
        PROVE  IInv'
    BY <2>1, <2>5, InvCheckName, InvUnset, InvUpdate, InvDelete
  <2>6. ASSUME NEW r \in Requests, Abort(r)
        PROVE  IInv'
    BY <2>1, <2>6, IdleQuiet, QuietStep DEF Abort, Goto
  <2>7. ASSUME NEW hours \in Left, NEW price \in Prices, Cancel(hours, price)
        PROVE  IInv'
    BY <2>1, <2>7, InvCancel
  <2> QED
    BY <2>1, <2>2, <2>3, <2>4, <2>5, <2>6, <2>7 DEF Step
<1> QED
  BY <1>1, <1>2

LEMMA Inductive == Spec => []IInv
BY InvInit, InvNext, PTL DEF Spec

\* Rows keep to their types, so no update writes a field left undefined.
THEOREM PolicyTypes == Spec => []TypeOK
<1>1. IInv => TypeOK
  BY DEF IInv
<1> QED
  BY <1>1, Inductive, PTL

\* A tenant left with a default policy has exactly one, unless hand-overs
\* crossed, one stopped, or one is under way.
THEOREM DefaultIsOne == Spec => []OneDefault
<1>1. IInv => OneDefault
  <2> SUFFICES ASSUME IInv, ~torn
               PROVE  /\ Cardinality(Defaults) <= 1
                      /\ promised /\ Giving = {} => Defaults # {}
    BY DEF OneDefault
  <2>1. torn = FALSE
    BY DEF IInv, TypeOK
  <2>2. Cardinality(Defaults) <= 1
    <3>1. Cardinality(Defaults) \in {0, 1}
      BY <2>1, FewCount DEF IInv, HandOver
    <3> QED
      BY <3>1
  <2>3. promised => promised = TRUE
    BY DEF IInv, TypeOK
  <2> QED
    BY <2>1, <2>2, <2>3 DEF IInv, HandOver
<1> QED
  BY <1>1, Inductive, PTL

\* Wherever that is so, a customer who cancels pays what the one default
\* policy says.
THEOREM FeesArePolicy == Spec => FeeIsPolicy
<1> DEFINE Stepwise ==
        charged' # charged /\ promised /\ ~torn /\ Giving = {} =>
            \E i \in Defaults :
                /\ Defaults = {i}
                /\ charged'.fee = IF charged'.hours < policies[i].free
                                  THEN policies[i].charge ELSE 0
<1>1. ASSUME IInv, [Next]_vars
      PROVE  Stepwise
  <2> SUFFICES ASSUME charged' # charged, promised, ~torn, Giving = {}
               PROVE  \E i \in Defaults :
                         /\ Defaults = {i}
                         /\ charged'.fee = IF charged'.hours < policies[i].free
                                           THEN policies[i].charge ELSE 0
    OBVIOUS
  <2>1. PICK hours \in Left, price \in Prices : Cancel(hours, price)
    BY <1>1 DEF Next, Step, CreatePolicy, UpdatePolicy, CheckName, Unset, Create,
       DeletePolicy, Update, Delete, Abort, vars
  <2>2. torn = FALSE /\ promised = TRUE
    BY <1>1 DEF IInv, TypeOK
  <2>3. AtMostOne(Defaults) /\ Defaults # {}
    BY <1>1, <2>2 DEF IInv, HandOver
  <2>4. PICK i \in Defaults :
           charged' = [hours |-> hours, price |-> price,
                       fee |-> LateFee(policies[i], hours)]
    BY <2>1, <2>3 DEF Cancel
  <2>5. Defaults = {i}
    BY <2>3 DEF AtMostOne
  <2> QED
    BY <2>4, <2>5 DEF LateFee
<1> QED
  BY <1>1, Inductive, PTL DEF Spec, FeeIsPolicy
=============================================================================
