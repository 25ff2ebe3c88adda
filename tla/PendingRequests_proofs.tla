----------------------- MODULE PendingRequests_proofs -----------------------
(* Proofs about PendingRequests, for every number of wallets and slots. *)
EXTENDS PendingRequests, FiniteSetTheorems, TLAPS

(***************************************************************************)
(* The invariant.                                                          *)
(***************************************************************************)

IdsUnique(table) == \A row, other \in table : row.id = other.id => row = other

Granted(table) == {row \in table : row.approved}

\* What must be true of a call given the table.
CallOk(c, table) ==
  /\ c.pc \in CreatePc \cup ApprovePc => c.student \in Student /\ c.university \in University
  /\ c.pc # "done" => c.answer = "none" /\ c.rows = {}
  /\ \A i \in c.rows :
       \E row \in table : /\ row.id = i
                          /\ row.university = c.university
                          /\ c.answer # "listed" => row.student = c.student
  /\ c.answer = "updated" => c.rows \subseteq Ids(Granted(table))

Disjoint ==
  \A s, t \in Slot :
    call[s].answer = "updated" /\ call[t].answer = "updated" /\ s # t =>
      call[s].rows \cap call[t].rows = {}

OpenFinite == \A st \in Student, un \in University : IsFiniteSet(Open(st, un))

IndInv ==
  /\ TypeOK
  /\ IdsUnique(requests)
  /\ OpenFinite
  /\ OpenBounded
  /\ \A s \in Slot : CallOk(call[s], requests)
  /\ Disjoint

(***************************************************************************)
(* The table: what the three kinds of statement do to it.                  *)
(***************************************************************************)

\* A row keeps its key and its wallets, and once approved it stays so.
Kept(row, new) ==
  /\ new.id = row.id /\ new.student = row.student /\ new.university = row.university
  /\ row.approved => new.approved

Keeps(table, later) == \A row \in table : \E new \in later : Kept(row, new)

LEMMA CallOkKept ==
  ASSUME NEW c, NEW table, NEW later, Keeps(table, later), CallOk(c, table)
  PROVE  CallOk(c, later)
<1>1. ASSUME NEW i \in c.rows
      PROVE  \E new \in later : /\ new.id = i
                                /\ new.university = c.university
                                /\ c.answer # "listed" => new.student = c.student
  BY DEF CallOk, Keeps, Kept
<1>2. ASSUME c.answer = "updated", NEW i \in c.rows
      PROVE  i \in Ids(Granted(later))
  <2>1. PICK row \in table : row.id = i /\ row.approved
    BY <1>2 DEF CallOk, Ids, Granted
  <2>2. PICK new \in later : new.id = i /\ new.approved
    BY <2>1 DEF Keeps, Kept
  <2> QED
    BY <2>2 DEF Ids, Granted
<1> QED
  BY <1>1, <1>2 DEF CallOk

\* An INSERT: the new row is open and its key is new.
LEMMA InsertTable ==
  ASSUME requests \subseteq Request, IdsUnique(requests),
         NEW s \in Slot, NEW i \in Uuid, InsertRow(s, i),
         call[s].student \in Student, call[s].university \in University
  PROVE  /\ requests' \subseteq Request
         /\ IdsUnique(requests')
         /\ Keeps(requests, requests')
         /\ \E row \in requests' : /\ row.id = i
                                   /\ row.student = call[s].student
                                   /\ row.university = call[s].university
<1> DEFINE new == [id |-> i, student |-> call[s].student,
                   university |-> call[s].university, approved |-> FALSE]
<1>1. new \in Request /\ new.id = i /\ new.student = call[s].student
      /\ new.university = call[s].university
  BY DEF Request
<1>2. requests' = requests \cup {new} /\ \A row \in requests : row.id # i
  BY DEF InsertRow, UnusedUuid, Ids
<1> HIDE DEF new
<1>3. IdsUnique(requests')
  BY <1>1, <1>2 DEF IdsUnique
<1>4. Keeps(requests, requests')
  BY <1>2 DEF Keeps, Kept
<1> QED
  BY <1>1, <1>2, <1>3, <1>4

\* The UPDATE, row by row.
LEMMA ApprovedFrom ==
  ASSUME requests \subseteq Request, NEW rows \in SUBSET requests,
         NEW new \in Approved(rows)
  PROVE  \E row \in requests :
           /\ new.id = row.id /\ new.student = row.student
           /\ new.university = row.university /\ new \in Request
           /\ row \in rows => new = [row EXCEPT !.approved = TRUE] /\ new.approved
           /\ row \notin rows => new = row
<1>1. PICK row \in requests :
        new = IF row \in rows THEN [row EXCEPT !.approved = TRUE] ELSE row
  BY DEF Approved
<1>2. row \in Request
  OBVIOUS
<1>3. /\ new.id = row.id /\ new.student = row.student
      /\ new.university = row.university /\ new \in Request
      /\ row \in rows => new = [row EXCEPT !.approved = TRUE] /\ new.approved
      /\ row \notin rows => new = row
  BY <1>1, <1>2 DEF Request
<1> QED
  BY <1>3

LEMMA ApprovedTo ==
  ASSUME requests \subseteq Request, NEW rows \in SUBSET requests, NEW row \in requests
  PROVE  \E new \in Approved(rows) :
           /\ Kept(row, new)
           /\ row \in rows => new = [row EXCEPT !.approved = TRUE] /\ new.approved
           /\ row \notin rows => new = row
<1> DEFINE new == IF row \in rows THEN [row EXCEPT !.approved = TRUE] ELSE row
<1>1. new \in Approved(rows)
  BY DEF Approved
<1>2. row \in Request
  OBVIOUS
<1>3. /\ Kept(row, new)
      /\ row \in rows => new = [row EXCEPT !.approved = TRUE] /\ new.approved
      /\ row \notin rows => new = row
  BY <1>2 DEF Kept, Request
<1> QED
  BY <1>1, <1>3

LEMMA UpdateTable ==
  ASSUME requests \subseteq Request, IdsUnique(requests), NEW rows \in SUBSET requests,
         requests' = Approved(rows)
  PROVE  /\ requests' \subseteq Request
         /\ IdsUnique(requests')
         /\ Keeps(requests, requests')
<1>1. requests' \subseteq Request
  BY ApprovedFrom
<1>2. IdsUnique(requests')
  <2> SUFFICES ASSUME NEW a \in Approved(rows), NEW b \in Approved(rows), a.id = b.id
               PROVE  a = b
    BY DEF IdsUnique
  <2>1. PICK ra \in requests : /\ a.id = ra.id
                               /\ ra \in rows => a = [ra EXCEPT !.approved = TRUE]
                               /\ ra \notin rows => a = ra
    BY ApprovedFrom
  <2>2. PICK rb \in requests : /\ b.id = rb.id
                               /\ rb \in rows => b = [rb EXCEPT !.approved = TRUE]
                               /\ rb \notin rows => b = rb
    BY ApprovedFrom
  <2>3. ra = rb
    BY <2>1, <2>2 DEF IdsUnique
  <2> QED
    BY <2>1, <2>2, <2>3
<1>3. Keeps(requests, requests')
  BY ApprovedTo DEF Keeps
<1> QED
  BY <1>1, <1>2, <1>3

(***************************************************************************)
(* The calls.                                                              *)
(***************************************************************************)

\* A step of slot s: its call becomes c.
LEMMA CallsStep ==
  ASSUME IndInv, NEW s \in Slot, NEW c \in PendingCall,
         call' = [call EXCEPT ![s] = c],
         Keeps(requests, requests'),
         CallOk(c, requests'),
         c.answer = "updated" => c.rows \cap Ids(Granted(requests)) = {}
  PROVE  /\ call' \in [Slot -> PendingCall]
         /\ \A t \in Slot : CallOk(call'[t], requests')
         /\ Disjoint'
<1>1. call \in [Slot -> PendingCall] /\ \A t \in Slot : CallOk(call[t], requests)
  BY DEF IndInv, TypeOK
<1>2. call'[s] = c /\ \A t \in Slot : t # s => call'[t] = call[t]
  BY <1>1
<1>3. ASSUME NEW t \in Slot
      PROVE  CallOk(call'[t], requests')
  BY <1>1, <1>2, CallOkKept
<1>4. ASSUME NEW t \in Slot, t # s, c.answer = "updated", call[t].answer = "updated"
      PROVE  c.rows \cap call[t].rows = {}
  BY <1>1, <1>4 DEF CallOk
<1>5. Disjoint'
  BY <1>2, <1>4 DEF IndInv, Disjoint
<1> QED
  BY <1>1, <1>3, <1>5

LEMMA IdleOk ==
  ASSUME NEW table
  PROVE  Idle \in PendingCall /\ CallOk(Idle, table)
BY DEF Idle, CallOk, PendingCall, CreatePc, ApprovePc, Outcome

\* Going on.
LEMMA GotoCalls ==
  ASSUME IndInv, NEW s \in Slot,
         NEW pc \in CreatePc \cup ApprovePc \cup ListPc, Goto(s, pc),
         pc \in CreatePc \cup ApprovePc => call[s].pc \in CreatePc \cup ApprovePc,
         InFlight(s),
         UNCHANGED requests
  PROVE  /\ call' \in [Slot -> PendingCall]
         /\ \A t \in Slot : CallOk(call'[t], requests')
         /\ Disjoint'
<1> DEFINE c == [call[s] EXCEPT !.pc = pc]
<1>1. call[s] \in PendingCall /\ CallOk(call[s], requests)
  BY DEF IndInv, TypeOK
<1>2. /\ c \in PendingCall /\ c.pc = pc /\ c.student = call[s].student
      /\ c.university = call[s].university /\ c.rows = call[s].rows
      /\ c.answer = call[s].answer
  BY <1>1 DEF PendingCall
<1>3. call' = [call EXCEPT ![s] = c]
  BY DEF Goto, IndInv, TypeOK
<1> HIDE DEF c
<1>4. CallOk(c, requests')
  BY <1>1, <1>2 DEF CallOk, InFlight, Free
<1>5. Keeps(requests, requests')
  BY DEF Keeps, Kept
<1>6. c.answer # "updated"
  BY <1>1, <1>2 DEF CallOk, InFlight, Free
<1> QED
  BY <1>2, <1>3, <1>4, <1>5, <1>6, CallsStep

\* Answering with the keys of some rows.
LEMMA ReplyCalls ==
  ASSUME IndInv, NEW s \in Slot, NEW code \in Outcome, NEW ids \in SUBSET Uuid,
         Reply(s, code, ids),
         Keeps(requests, requests'),
         \A i \in ids : \E row \in requests' :
            /\ row.id = i /\ row.university = call[s].university
            /\ code # "listed" => row.student = call[s].student,
         code = "updated" => /\ ids \subseteq Ids(Granted(requests'))
                             /\ ids \cap Ids(Granted(requests)) = {}
  PROVE  /\ call' \in [Slot -> PendingCall]
         /\ \A t \in Slot : CallOk(call'[t], requests')
         /\ Disjoint'
<1> DEFINE c == [call[s] EXCEPT !.pc = "done", !.answer = code, !.rows = ids]
<1>1. call[s] \in PendingCall
  BY DEF IndInv, TypeOK
<1>2. /\ c \in PendingCall /\ c.pc = "done" /\ c.student = call[s].student
      /\ c.university = call[s].university /\ c.rows = ids /\ c.answer = code
  BY <1>1 DEF PendingCall
<1>3. call' = [call EXCEPT ![s] = c]
  BY DEF Reply, IndInv, TypeOK
<1> HIDE DEF c
<1>4. CallOk(c, requests')
  BY <1>2 DEF CallOk, CreatePc, ApprovePc
<1> QED
  BY <1>2, <1>3, <1>4, CallsStep

(***************************************************************************)
(* The bound on open requests.                                             *)
(***************************************************************************)

LEMMA InsertingFinite ==
  ASSUME NEW st, NEW un
  PROVE  /\ IsFiniteSet(Inserting(st, un))
         /\ Cardinality(Inserting(st, un)) \in Nat
         /\ Cardinality(Inserting(st, un)) <= Cardinality(Slot)
         /\ Cardinality(Slot) \in Nat
<1>1. Inserting(st, un) \in SUBSET Slot /\ IsFiniteSet(Slot)
  BY PendingAssumption DEF Inserting
<1> QED
  BY <1>1, FS_Subset, FS_CardinalityType

\* A step that opens no request and sends none past its check.
LEMMA BoundKept ==
  ASSUME OpenFinite, OpenBounded, OpenFinite', IndInv,
         NEW st \in Student, NEW un \in University,
         Open(st, un)' \subseteq Open(st, un),
         Inserting(st, un)' \subseteq Inserting(st, un)
  PROVE  Cardinality(Open(st, un)') + Cardinality(Inserting(st, un)') <= Cardinality(Slot)
<1>1. IsFiniteSet(Open(st, un)) /\ IsFiniteSet(Inserting(st, un))
  BY InsertingFinite DEF OpenFinite
<1>2. /\ Cardinality(Open(st, un)') <= Cardinality(Open(st, un))
      /\ Cardinality(Inserting(st, un)') <= Cardinality(Inserting(st, un))
      /\ IsFiniteSet(Open(st, un)') /\ IsFiniteSet(Inserting(st, un)')
  BY <1>1, FS_Subset
<1>3. /\ Cardinality(Open(st, un)) \in Nat /\ Cardinality(Open(st, un)') \in Nat
      /\ Cardinality(Inserting(st, un)) \in Nat /\ Cardinality(Inserting(st, un)') \in Nat
      /\ Cardinality(Slot) \in Nat
  BY <1>1, <1>2, FS_CardinalityType, PendingAssumption
<1>4. Cardinality(Open(st, un)) + Cardinality(Inserting(st, un)) <= Cardinality(Slot)
  BY DEF OpenBounded
<1> QED
  BY <1>2, <1>3, <1>4

LEMMA BoundStays ==
  ASSUME IndInv,
         \A st \in Student, un \in University :
           /\ Open(st, un)' \subseteq Open(st, un)
           /\ Inserting(st, un)' \subseteq Inserting(st, un)
  PROVE  OpenFinite' /\ OpenBounded'
<1>1. OpenFinite'
  BY FS_Subset DEF IndInv, OpenFinite
<1> QED
  BY <1>1, BoundKept DEF IndInv, OpenBounded

\* The check found no open request: nothing is open, so those inserting are at
\* most the slots.
LEMMA BoundAtCheck ==
  ASSUME IndInv, NEW s \in Slot, Existing(s) = {}, Goto(s, "c_insert"),
         UNCHANGED requests
  PROVE  OpenFinite' /\ OpenBounded'
<1>1. OpenFinite'
  BY DEF IndInv, OpenFinite, Open
<1>2. ASSUME NEW st \in Student, NEW un \in University
      PROVE  Cardinality(Open(st, un)') + Cardinality(Inserting(st, un)') <= Cardinality(Slot)
  <2>1. Open(st, un)' = Open(st, un)
    BY DEF Open
  <2>2. CASE st = call[s].student /\ un = call[s].university
    <3>1. Open(st, un)' = {}
      BY <2>1, <2>2 DEF Existing
    <3>2. Inserting(st, un)' \in SUBSET Slot /\ IsFiniteSet(Slot)
      BY PendingAssumption DEF Inserting
    <3>3. Cardinality(Inserting(st, un)') <= Cardinality(Slot)
          /\ Cardinality(Inserting(st, un)') \in Nat
      BY <3>2, FS_Subset, FS_CardinalityType
    <3> QED
      BY <3>1, <3>3, FS_EmptySet
  <2>3. CASE ~(st = call[s].student /\ un = call[s].university)
    <3>1. /\ call \in [Slot -> PendingCall]
          /\ call'[s].student = call[s].student
          /\ call'[s].university = call[s].university
          /\ \A t \in Slot : t # s => call'[t] = call[t]
      BY DEF Goto, IndInv, TypeOK, PendingCall
    <3>2. Inserting(st, un)' \subseteq Inserting(st, un)
      BY <2>3, <3>1 DEF Inserting, At
    <3> QED
      BY <1>1, <2>1, <3>2, BoundKept DEF IndInv
  <2> QED
    BY <2>2, <2>3
<1> QED
  BY <1>1, <1>2 DEF OpenBounded

\* An insert opens one request more, and one creation less is past its check.
LEMMA BoundAtInsert ==
  ASSUME IndInv, NEW s \in Slot, At(s, "c_insert"), NEW i \in Uuid, InsertRow(s, i),
         NEW code, NEW ids, Reply(s, code, ids)
  PROVE  OpenFinite' /\ OpenBounded'
<1>1. PICK new : new = [id |-> i, student |-> call[s].student,
                        university |-> call[s].university, approved |-> FALSE]
  OBVIOUS
<1>2. /\ new.student = call[s].student /\ new.university = call[s].university
      /\ ~new.approved /\ requests' = requests \cup {new}
  BY <1>1 DEF InsertRow
<1>3. /\ call'[s].pc = "done"
      /\ \A t \in Slot : t # s => call'[t] = call[t]
  BY DEF Reply, IndInv, TypeOK, PendingCall
<1>4. ASSUME NEW st \in Student, NEW un \in University
      PROVE  /\ IsFiniteSet(Open(st, un)')
             /\ Cardinality(Open(st, un)') + Cardinality(Inserting(st, un)')
                  <= Cardinality(Slot)
  <2>1. /\ IsFiniteSet(Open(st, un))
        /\ Cardinality(Open(st, un)) + Cardinality(Inserting(st, un)) <= Cardinality(Slot)
    BY DEF IndInv, OpenFinite, OpenBounded
  <2>2. /\ Cardinality(Open(st, un)) \in Nat
        /\ IsFiniteSet(Inserting(st, un)) /\ Cardinality(Inserting(st, un)) \in Nat
        /\ Cardinality(Slot) \in Nat
    BY <2>1, FS_CardinalityType, InsertingFinite
  <2>3. CASE st = call[s].student /\ un = call[s].university
    <3>1. Open(st, un)' = Open(st, un) \cup {new}
      BY <1>2, <2>3 DEF Open
    <3>2. Inserting(st, un)' = Inserting(st, un) \ {s} /\ s \in Inserting(st, un)
      BY <1>3, <2>3 DEF Inserting, At
    <3>3. IsFiniteSet(Open(st, un)')
          /\ Cardinality(Open(st, un)') <= Cardinality(Open(st, un)) + 1
          /\ Cardinality(Open(st, un)') \in Nat
      <4>1. /\ IsFiniteSet(Open(st, un) \cup {new})
            /\ Cardinality(Open(st, un) \cup {new}) \in Nat
        BY <2>1, FS_AddElement, FS_CardinalityType
      <4>2. Cardinality(Open(st, un) \cup {new}) =
              IF new \in Open(st, un) THEN Cardinality(Open(st, un))
                                      ELSE Cardinality(Open(st, un)) + 1
        BY <2>1, FS_AddElement
      <4> QED
        BY <2>2, <3>1, <4>1, <4>2
    <3>4. Cardinality(Inserting(st, un)') = Cardinality(Inserting(st, un)) - 1
      BY <2>2, <3>2, FS_RemoveElement
    <3> QED
      BY <2>1, <2>2, <3>3, <3>4
  <2>4. CASE ~(st = call[s].student /\ un = call[s].university)
    <3>1. Open(st, un)' = Open(st, un)
      BY <1>2, <2>4 DEF Open
    <3>2. Inserting(st, un)' = Inserting(st, un)
      BY <1>3, <2>4 DEF Inserting, At
    <3> QED
      BY <2>1, <3>1, <3>2
  <2> QED
    BY <2>3, <2>4
<1> QED
  BY <1>4 DEF OpenFinite, OpenBounded

\* No step that leaves the table alone, or updates it, and moves only slot s to
\* another point than the insert, disturbs the bound.
LEMMA InsertingShrinks ==
  ASSUME IndInv, NEW s \in Slot, NEW c, call' = [call EXCEPT ![s] = c], c.pc # "c_insert",
         NEW st, NEW un
  PROVE  Inserting(st, un)' \subseteq Inserting(st, un)
BY DEF Inserting, At, IndInv, TypeOK

LEMMA UpdateCloses ==
  ASSUME requests \subseteq Request, NEW rows \in SUBSET requests,
         requests' = Approved(rows), NEW st, NEW un
  PROVE  Open(st, un)' \subseteq Open(st, un)
<1> SUFFICES ASSUME NEW new \in requests', new.student = st, new.university = un,
                    ~new.approved
             PROVE  new \in Open(st, un)
  BY DEF Open
<1>1. new \in requests
  BY ApprovedFrom
<1> QED
  BY <1>1 DEF Open

LEMMA BoundElsewhere ==
  ASSUME IndInv, NEW s \in Slot, NEW c, call' = [call EXCEPT ![s] = c], c.pc # "c_insert",
         requests' \in {requests, Approved(Matching(s))}
  PROVE  OpenFinite' /\ OpenBounded'
<1>1. requests \subseteq Request /\ Matching(s) \in SUBSET requests
  BY DEF IndInv, TypeOK, Matching, Open
<1>2. ASSUME NEW st, NEW un
      PROVE  Open(st, un)' \subseteq Open(st, un)
  <2>1. CASE requests' = requests
    BY <2>1 DEF Open
  <2>2. CASE requests' = Approved(Matching(s))
    BY <1>1, <2>2, UpdateCloses
  <2> QED
    BY <2>1, <2>2
<1> QED
  BY <1>2, InsertingShrinks, BoundStays

LEMMA ReplyBound ==
  ASSUME IndInv, NEW s \in Slot, NEW code, NEW ids, Reply(s, code, ids),
         requests' \in {requests, Approved(Matching(s))}
  PROVE  OpenFinite' /\ OpenBounded'
<1>1. PICK c : c = [call[s] EXCEPT !.pc = "done", !.answer = code, !.rows = ids]
  OBVIOUS
<1>2. call[s] \in PendingCall
  BY DEF IndInv, TypeOK
<1>3. c.pc # "c_insert" /\ call' = [call EXCEPT ![s] = c]
  BY <1>1, <1>2 DEF Reply, IndInv, TypeOK, PendingCall
<1> QED
  BY <1>3, BoundElsewhere

(***************************************************************************)
(* One step per action.                                                    *)
(***************************************************************************)

\* An answer other than 200 with rows, the table unchanged.
LEMMA FailInv ==
  ASSUME IndInv, NEW s \in Slot, NEW code \in Outcome \ {"updated"}, Reply(s, code, {}),
         UNCHANGED <<students, universities, requests>>
  PROVE  IndInv'
<1>1. Keeps(requests, requests')
  BY DEF Keeps, Kept
<1>2. /\ call' \in [Slot -> PendingCall]
      /\ \A t \in Slot : CallOk(call'[t], requests')
      /\ Disjoint'
  BY <1>1, ReplyCalls
<1>3. OpenFinite' /\ OpenBounded'
  BY ReplyBound
<1> QED
  BY <1>2, <1>3 DEF IndInv, TypeOK

\* Going on to any point but the insert.
LEMMA GotoInv ==
  ASSUME IndInv, NEW s \in Slot, InFlight(s),
         NEW pc \in (CreatePc \cup ApprovePc \cup ListPc) \ {"c_insert"}, Goto(s, pc),
         pc \in CreatePc \cup ApprovePc => call[s].pc \in CreatePc \cup ApprovePc,
         UNCHANGED <<students, universities, requests>>
  PROVE  IndInv'
<1>1. /\ call' \in [Slot -> PendingCall]
      /\ \A t \in Slot : CallOk(call'[t], requests')
      /\ Disjoint'
  BY GotoCalls
<1>2. PICK c : c = [call[s] EXCEPT !.pc = pc]
  OBVIOUS
<1>3. c.pc # "c_insert" /\ call' = [call EXCEPT ![s] = c]
  BY <1>2 DEF Goto, IndInv, TypeOK, PendingCall
<1>4. OpenFinite' /\ OpenBounded'
  BY <1>3, BoundElsewhere
<1> QED
  BY <1>1, <1>4 DEF IndInv, TypeOK

\* The five lookups of a profile.
LEMMA LookupInv ==
  ASSUME IndInv, NEW s \in Slot,
         CreateUser(s) \/ CreateOrg(s) \/ ApproveOrg(s) \/ ApproveUser(s) \/ ListOrg(s)
  PROVE  IndInv'
<1> USE DEF CreatePc, ApprovePc, ListPc
<1>1. ASSUME NEW here, NEW found, NEW next, NEW code \in {"400", "401"},
             Lookup(s, here, found, next, code),
             here \in CreatePc \cup ApprovePc \cup ListPc,
             next \in (CreatePc \cup ApprovePc \cup ListPc) \ {"c_insert"},
             next \in CreatePc \cup ApprovePc => here \in CreatePc \cup ApprovePc
      PROVE  IndInv'
  <2>1. CASE Reply(s, code, {})
    BY <1>1, <2>1, FailInv DEF Lookup, Outcome
  <2>2. CASE Goto(s, next)
    BY <1>1, <2>2, GotoInv DEF Lookup, At, InFlight, Free
  <2> QED
    BY <1>1, <2>1, <2>2 DEF Lookup
<1> QED
  BY <1>1 DEF CreateUser, CreateOrg, ApproveOrg, ApproveUser, ListOrg

\* The duplicate check: 409 names a row of the pair, else the insert is next.
LEMMA CheckInv ==
  ASSUME IndInv, NEW s \in Slot, CreateDup(s)
  PROVE  IndInv'
<1>1. /\ call[s].pc = "c_dup" /\ requests \subseteq Request
      /\ UNCHANGED <<students, universities, requests>>
  BY DEF CreateDup, At, IndInv, TypeOK
<1>2. CASE Existing(s) = {} /\ Goto(s, "c_insert")
  <2>1. /\ call' \in [Slot -> PendingCall]
        /\ \A t \in Slot : CallOk(call'[t], requests')
        /\ Disjoint'
    BY <1>1, <1>2, GotoCalls DEF CreatePc, InFlight, Free
  <2>2. OpenFinite' /\ OpenBounded'
    BY <1>1, <1>2, BoundAtCheck
  <2> QED
    BY <1>1, <2>1, <2>2 DEF IndInv, TypeOK
<1>3. ASSUME NEW row \in Existing(s), Reply(s, "409", {row.id})
      PROVE  IndInv'
  <2>1. /\ row \in requests /\ row \in Request
        /\ row.student = call[s].student /\ row.university = call[s].university
    BY <1>1, <1>3 DEF Existing, Open
  <2>2. row.id \in Uuid
    BY <2>1 DEF Request
  <2>3. Keeps(requests, requests')
    BY <1>1 DEF Keeps, Kept
  <2>4. /\ call' \in [Slot -> PendingCall]
        /\ \A t \in Slot : CallOk(call'[t], requests')
        /\ Disjoint'
    BY <1>1, <1>3, <2>1, <2>2, <2>3, ReplyCalls DEF Outcome
  <2>5. OpenFinite' /\ OpenBounded'
    BY <1>1, <1>3, ReplyBound
  <2> QED
    BY <1>1, <2>4, <2>5 DEF IndInv, TypeOK
<1> QED
  BY <1>2, <1>3 DEF CreateDup

\* The insert, whether or not its success is reported.
LEMMA InsertInv ==
  ASSUME IndInv, NEW s \in Slot, CreateInsert(s) \/ InsertFails(s)
  PROVE  IndInv'
<1>1. /\ call[s].pc = "c_insert" /\ requests \subseteq Request
      /\ IdsUnique(requests) /\ UNCHANGED <<students, universities>>
      /\ call[s].student \in Student /\ call[s].university \in University
  BY DEF CreateInsert, InsertFails, At, IndInv, TypeOK, CallOk, CreatePc
<1>2. ASSUME NEW i \in Uuid, InsertRow(s, i),
             NEW code \in {"created", "500"}, NEW ids \in SUBSET {i}, Reply(s, code, ids)
      PROVE  IndInv'
  <2>1. /\ requests' \subseteq Request /\ IdsUnique(requests')
        /\ Keeps(requests, requests')
        /\ \E row \in requests' : /\ row.id = i
                                  /\ row.student = call[s].student
                                  /\ row.university = call[s].university
    BY <1>1, <1>2, InsertTable
  <2>2. /\ call' \in [Slot -> PendingCall]
        /\ \A t \in Slot : CallOk(call'[t], requests')
        /\ Disjoint'
    BY <1>2, <2>1, ReplyCalls DEF Outcome
  <2>3. OpenFinite' /\ OpenBounded'
    BY <1>1, <1>2, BoundAtInsert DEF At
  <2> QED
    BY <1>1, <2>1, <2>2, <2>3 DEF IndInv, TypeOK
<1>3. ASSUME UNCHANGED requests, Reply(s, "500", {})
      PROVE  IndInv'
  BY <1>1, <1>3, FailInv DEF Outcome
<1> QED
  BY <1>2, <1>3 DEF CreateInsert, InsertFails

\* What an approval reports are rows it approved itself.
LEMMA UpdateReports ==
  ASSUME IndInv, NEW s \in Slot, requests' = Approved(Matching(s))
  PROVE  /\ Ids(Matching(s)) \subseteq Uuid
         /\ Ids(Matching(s)) \subseteq Ids(Granted(requests'))
         /\ Ids(Matching(s)) \cap Ids(Granted(requests)) = {}
         /\ \A i \in Ids(Matching(s)) : \E row \in requests' :
               /\ row.id = i /\ row.university = call[s].university
               /\ row.student = call[s].student
<1>1. /\ requests \subseteq Request /\ Matching(s) \in SUBSET requests
      /\ IdsUnique(requests)
      /\ \A row \in Matching(s) : /\ ~row.approved
                                  /\ row.student = call[s].student
                                  /\ row.university = call[s].university
  BY DEF IndInv, TypeOK, Matching, Open
<1>2. ASSUME NEW row \in Matching(s)
      PROVE  \E new \in requests' : /\ new.id = row.id /\ new.approved
                                    /\ new.university = call[s].university
                                    /\ new.student = call[s].student
  BY <1>1, <1>2, ApprovedTo DEF Kept
<1>3. Ids(Matching(s)) \subseteq Uuid
  BY <1>1 DEF Ids, Request
<1>4. Ids(Matching(s)) \cap Ids(Granted(requests)) = {}
  BY <1>1 DEF Ids, Granted, IdsUnique
<1> QED
  BY <1>2, <1>3, <1>4 DEF Ids, Granted

LEMMA UpdateInv ==
  ASSUME IndInv, NEW s \in Slot, ApproveUpdate(s) \/ UpdateFails(s)
  PROVE  IndInv'
<1>1. /\ requests \subseteq Request /\ IdsUnique(requests)
      /\ Matching(s) \in SUBSET requests
      /\ UNCHANGED <<students, universities>>
  BY DEF ApproveUpdate, UpdateFails, IndInv, TypeOK, Matching, Open
<1>2. ASSUME requests' = Approved(Matching(s)), NEW code \in {"updated", "404", "500"},
             NEW ids \in {{}, Ids(Matching(s))}, Reply(s, code, ids)
      PROVE  IndInv'
  <2>1. /\ requests' \subseteq Request /\ IdsUnique(requests')
        /\ Keeps(requests, requests')
    BY <1>1, <1>2, UpdateTable
  <2>2. /\ call' \in [Slot -> PendingCall]
        /\ \A t \in Slot : CallOk(call'[t], requests')
        /\ Disjoint'
    <3>1. /\ ids \in SUBSET Uuid /\ ids \subseteq Ids(Granted(requests'))
          /\ ids \cap Ids(Granted(requests)) = {}
          /\ \A i \in ids : \E row \in requests' :
               /\ row.id = i /\ row.university = call[s].university
               /\ row.student = call[s].student
      BY <1>2, UpdateReports
    <3> QED
      BY <1>2, <2>1, <3>1, ReplyCalls DEF Outcome
  <2>3. OpenFinite' /\ OpenBounded'
    BY <1>2, ReplyBound
  <2> QED
    BY <1>1, <2>1, <2>2, <2>3 DEF IndInv, TypeOK
<1>3. ASSUME UNCHANGED requests, Reply(s, "500", {})
      PROVE  IndInv'
  BY <1>1, <1>3, FailInv DEF Outcome
<1> QED
  BY <1>2, <1>3 DEF ApproveUpdate, UpdateFails

LEMMA ListInv ==
  ASSUME IndInv, NEW s \in Slot, ListSelect(s)
  PROVE  IndInv'
<1>1. PICK ids : /\ ids = Ids({row \in requests : row.university = call[s].university
                                                   /\ ~row.approved})
                 /\ Reply(s, "listed", ids)
                 /\ UNCHANGED <<students, universities, requests>>
  BY DEF ListSelect
<1>2. /\ ids \in SUBSET Uuid
      /\ \A i \in ids : \E row \in requests' :
            row.id = i /\ row.university = call[s].university
  BY <1>1 DEF Ids, IndInv, TypeOK, Request
<1>3. Keeps(requests, requests')
  BY <1>1 DEF Keeps, Kept
<1>4. /\ call' \in [Slot -> PendingCall]
      /\ \A t \in Slot : CallOk(call'[t], requests')
      /\ Disjoint'
  BY <1>1, <1>2, <1>3, ReplyCalls DEF Outcome
<1>5. OpenFinite' /\ OpenBounded'
  BY <1>1, ReplyBound
<1> QED
  BY <1>1, <1>4, <1>5 DEF IndInv, TypeOK

LEMMA ReadFailsInv ==
  ASSUME IndInv, NEW s \in Slot, ReadFails(s)
  PROVE  IndInv'
BY FailInv DEF ReadFails, Outcome

\* A request arrives, at its first point or answered at once.
LEMMA ArrivalInv ==
  ASSUME IndInv, NEW s \in Slot, Arrival(s)
  PROVE  IndInv'
<1>1. ASSUME NEW c \in PendingCall, call' = [call EXCEPT ![s] = c],
             CallOk(c, requests), c.pc # "c_insert", c.answer # "updated",
             UNCHANGED <<students, universities, requests>>
      PROVE  IndInv'
  <2>1. Keeps(requests, requests')
    BY <1>1 DEF Keeps, Kept
  <2>2. /\ call' \in [Slot -> PendingCall]
        /\ \A t \in Slot : CallOk(call'[t], requests')
        /\ Disjoint'
    BY <1>1, <2>1, CallsStep
  <2>3. OpenFinite' /\ OpenBounded'
    BY <1>1, BoundElsewhere
  <2> QED
    BY <1>1, <2>2, <2>3 DEF IndInv, TypeOK
<1>2. ASSUME NEW code \in {"400", "401", "empty"}, Reject(s, code)
      PROVE  IndInv'
  <2>1. PICK c : c = [Idle EXCEPT !.pc = "done", !.answer = code]
    OBVIOUS
  <2>2. /\ c \in PendingCall /\ CallOk(c, requests)
        /\ c.pc # "c_insert" /\ c.answer # "updated"
    BY <2>1 DEF Idle, PendingCall, Outcome, CallOk, CreatePc, ApprovePc
  <2> QED
    BY <1>1, <1>2, <2>1, <2>2 DEF Reject
<1>3. ASSUME NEW pc \in {"c_user", "a_org", "l_org"},
             NEW st \in Student \cup {None}, NEW un \in University, Begin(s, pc, st, un),
             pc # "l_org" => st \in Student
      PROVE  IndInv'
  <2>1. PICK c : c = [Idle EXCEPT !.pc = pc, !.student = st, !.university = un]
    OBVIOUS
  <2>2. /\ c \in PendingCall /\ CallOk(c, requests)
        /\ c.pc # "c_insert" /\ c.answer # "updated"
    BY <1>3, <2>1 DEF Idle, PendingCall, Outcome, CallOk, CreatePc, ApprovePc, ListPc
  <2> QED
    BY <1>1, <1>3, <2>1, <2>2 DEF Begin
<1> QED
  BY <1>2, <1>3 DEF Arrival, BeginCreate, BeginApprove, BeginList

LEMMA EnrollInv ==
  ASSUME IndInv, Enroll
  PROVE  IndInv'
<1>1. UNCHANGED <<requests, call>>
  BY DEF Enroll, EnrollStudent, EnrollUniversity
<1>2. TypeOK'
  BY <1>1 DEF Enroll, EnrollStudent, EnrollUniversity, IndInv, TypeOK
<1>3. OpenFinite' /\ OpenBounded' /\ Disjoint'
  BY <1>1 DEF IndInv, OpenFinite, OpenBounded, Disjoint, Open, Inserting, At
<1> QED
  BY <1>1, <1>2, <1>3 DEF IndInv

LEMMA KillInv ==
  ASSUME IndInv, Kill
  PROVE  IndInv'
<1>1. /\ call' = [s \in Slot |-> Idle]
      /\ UNCHANGED <<students, universities, requests>>
  BY DEF Kill
<1>2. TypeOK'
  BY <1>1, IdleOk DEF IndInv, TypeOK
<1>3. \A s \in Slot : CallOk(call'[s], requests')
  BY <1>1, IdleOk
<1>4. Disjoint'
  BY <1>1 DEF Disjoint, Idle
<1>5. OpenFinite' /\ OpenBounded'
  BY <1>1, BoundStays DEF Open, Inserting, At, Idle
<1> QED
  BY <1>1, <1>2, <1>3, <1>4, <1>5 DEF IndInv

LEMMA StutterInv ==
  ASSUME IndInv, UNCHANGED vars
  PROVE  IndInv'
BY DEF vars, IndInv, TypeOK, OpenFinite, OpenBounded, Disjoint, Open, Inserting, At

LEMMA InvInit == Init => IndInv
<1> SUFFICES ASSUME Init
             PROVE  IndInv
  OBVIOUS
<1>1. TypeOK /\ \A s \in Slot : CallOk(call[s], requests)
  BY IdleOk DEF Init, TypeOK
<1>2. Disjoint /\ IdsUnique(requests)
  BY DEF Init, Disjoint, Idle, IdsUnique
<1>3. OpenFinite /\ OpenBounded
  <2> SUFFICES ASSUME NEW st \in Student, NEW un \in University
               PROVE  /\ IsFiniteSet(Open(st, un))
                      /\ Cardinality(Open(st, un)) + Cardinality(Inserting(st, un))
                           <= Cardinality(Slot)
    BY DEF OpenFinite, OpenBounded
  <2>1. Open(st, un) = {}
    BY DEF Init, Open
  <2> QED
    BY <2>1, FS_EmptySet, InsertingFinite
<1> QED
  BY <1>1, <1>2, <1>3 DEF IndInv

LEMMA InvNext == IndInv /\ [Next]_vars => IndInv'
<1> SUFFICES ASSUME IndInv, [Next]_vars
             PROVE  IndInv'
  OBVIOUS
<1>1. ASSUME NEW s \in Slot, Step(s)
      PROVE  IndInv'
  BY <1>1, LookupInv, CheckInv, InsertInv, UpdateInv, ListInv DEF Step
<1>2. ASSUME NEW s \in Slot, Failure(s)
      PROVE  IndInv'
  BY <1>2, ReadFailsInv, InsertInv, UpdateInv DEF Failure
<1> QED
  BY <1>1, <1>2, ArrivalInv, KillInv, EnrollInv, StutterInv DEF Next

(***************************************************************************)
(* The theorems.                                                           *)
(***************************************************************************)

\* IndInv holds in every reachable state, whatever fails or dies on the way.
THEOREM Invariance == Spec => []IndInv
BY InvInit, InvNext, PTL DEF Spec

\* Every reachable state is well typed.
THEOREM TypeCorrect == Spec => []TypeOK
<1>1. IndInv => TypeOK
  BY DEF IndInv
<1> QED
  BY <1>1, Invariance, PTL

\* A student never has more requests open with a university than creations can
\* be in flight at once, for any number of requests made and approved.
THEOREM OpenIsBounded == Spec => []OpenBounded
<1>1. IndInv => OpenBounded
  BY DEF IndInv
<1> QED
  BY <1>1, Invariance, PTL

\* No row is reported as approved by two approvals, and those reported are.
THEOREM RowsApprovedOnce == Spec => []ApprovedOnce
<1>1. IndInv => ApprovedOnce
  BY DEF IndInv, ApprovedOnce, CallOk, Disjoint, Granted
<1> QED
  BY <1>1, Invariance, PTL

\* Every answer names stored rows of the wallets its request named.
THEOREM AnswersAreOwn == Spec => []AnswersNameOwnRows
<1>1. IndInv => AnswersNameOwnRows
  BY DEF IndInv, AnswersNameOwnRows, CallOk
<1> QED
  BY <1>1, Invariance, PTL

\* The step OnlyTheOrgApproves allows.
ApprovedByOrg ==
  \A row \in requests :
    \/ row \in requests'
    \/ /\ [row EXCEPT !.approved = TRUE] \in requests'
       /\ \E s \in Slot : /\ At(s, "a_update") /\ ~At(s, "a_update")'
                          /\ call[s].university = row.university
                          /\ call[s].student = row.student

\* The steps that change the table: an insert by one slot or an update by one.
LEMMA TableSteps ==
  ASSUME Next, requests' # requests
  PROVE  \E s \in Slot :
           \/ /\ At(s, "c_insert")
              /\ \E i \in Uuid : InsertRow(s, i)
           \/ /\ At(s, "a_update")
              /\ requests' = Approved(Matching(s))
              /\ \E code, ids : Reply(s, code, ids)
<1>1. ASSUME NEW s \in Slot, Step(s) \/ Failure(s)
      PROVE  \/ CreateInsert(s) \/ InsertFails(s) \/ ApproveUpdate(s) \/ UpdateFails(s)
  BY <1>1 DEF Step, Failure, CreateUser, CreateOrg, ApproveOrg, ApproveUser, ListOrg,
              Lookup, CreateDup, ListSelect, ReadFails
<1>2. PICK s \in Slot : CreateInsert(s) \/ InsertFails(s) \/ ApproveUpdate(s)
                        \/ UpdateFails(s)
  BY <1>1 DEF Next, Arrival, Reject, BeginCreate, BeginApprove, BeginList, Begin, Kill,
              Enroll, EnrollStudent, EnrollUniversity
<1>3. CASE CreateInsert(s) \/ InsertFails(s)
  BY <1>3 DEF CreateInsert, InsertFails
<1>4. CASE ApproveUpdate(s) \/ UpdateFails(s)
  BY <1>4 DEF ApproveUpdate, UpdateFails, Outcome
<1> QED
  BY <1>2, <1>3, <1>4

\* A row only ever becomes approved, in an approval by its own university.
THEOREM OrgsApproveTheirOwn == Spec => OnlyTheOrgApproves
<1>1. ASSUME IndInv, NEW s \in Slot, At(s, "a_update"), requests' = Approved(Matching(s)),
             NEW code, NEW ids, Reply(s, code, ids)
      PROVE  ApprovedByOrg
  <2> SUFFICES ASSUME NEW row \in requests, row \notin requests'
               PROVE  /\ [row EXCEPT !.approved = TRUE] \in requests'
                      /\ ~At(s, "a_update")'
                      /\ call[s].university = row.university
                      /\ call[s].student = row.student
    BY <1>1 DEF ApprovedByOrg
  <2>1. requests \subseteq Request /\ Matching(s) \in SUBSET requests
    BY <1>1 DEF IndInv, TypeOK, Matching, Open
  <2>2. row \in Matching(s) /\ [row EXCEPT !.approved = TRUE] \in requests'
    <3>1. PICK new \in Approved(Matching(s)) :
            /\ row \in Matching(s) => new = [row EXCEPT !.approved = TRUE]
            /\ row \notin Matching(s) => new = row
      BY <2>1, ApprovedTo
    <3>2. row \in Matching(s)
      BY <1>1, <3>1
    <3> QED
      BY <1>1, <3>1, <3>2
  <2>3. ~At(s, "a_update")'
    BY <1>1 DEF Reply, At, IndInv, TypeOK, PendingCall
  <2> QED
    BY <2>2, <2>3 DEF Matching, Open
<1>2. IndInv /\ [Next]_vars => [ApprovedByOrg]_vars
  <2> SUFFICES ASSUME IndInv, Next, ~(requests \subseteq requests')
               PROVE  ApprovedByOrg
    BY DEF vars, ApprovedByOrg
  <2>1. PICK s \in Slot :
           \/ \E i \in Uuid : InsertRow(s, i)
           \/ /\ At(s, "a_update")
              /\ requests' = Approved(Matching(s))
              /\ \E code, ids : Reply(s, code, ids)
    BY TableSteps
  <2> QED
    BY <1>1, <2>1 DEF InsertRow
<1>3. Spec => [][ApprovedByOrg]_vars
  BY <1>2, Invariance, PTL DEF Spec
<1> QED
  BY <1>3 DEF OnlyTheOrgApproves, ApprovedByOrg

(***************************************************************************)
(* PendingRequests implements Approval.                                    *)
(***************************************************************************)

Waiting == {row \in requests : ~row.approved}

\* A step that keeps both sets of pairs, asks, or approves.
LEMMA InsertAsks ==
  ASSUME IndInv, NEW s \in Slot, At(s, "c_insert"), NEW i \in Uuid, InsertRow(s, i)
  PROVE  Promise!Next
<1>1. PICK p \in Promise!Pair : p = <<call[s].student, call[s].university>>
  BY DEF IndInv, CallOk, At, CreatePc, Promise!Pair
<1>2. PICK new : /\ new.student = call[s].student /\ new.university = call[s].university
                 /\ ~new.approved /\ requests' = requests \cup {new}
  <2>1. PICK n : n = [id |-> i, student |-> call[s].student,
                      university |-> call[s].university, approved |-> FALSE]
    OBVIOUS
  <2> QED
    BY <2>1 DEF InsertRow
<1>3. Waiting' = Waiting \cup {new} /\ Granted(requests)' = Granted(requests)
  BY <1>2 DEF Waiting, Granted
<1>4. PairsOf(Waiting') = PairsOf(Waiting) \cup {p}
  BY <1>1, <1>2, <1>3 DEF PairsOf
<1>5. Promise!Ask(p)
  BY <1>3, <1>4 DEF Promise!Ask, Waiting, Granted
<1> QED
  BY <1>5 DEF Promise!Next

LEMMA UpdateApproves ==
  ASSUME IndInv, NEW s \in Slot, At(s, "a_update"), requests' = Approved(Matching(s)),
         requests' # requests
  PROVE  Promise!Next
<1>1. PICK p \in Promise!Pair : p = <<call[s].student, call[s].university>>
  BY DEF IndInv, CallOk, At, ApprovePc, Promise!Pair
<1>2. requests \subseteq Request /\ Matching(s) \in SUBSET requests
  BY DEF IndInv, TypeOK, Matching, Open
<1>3. PICK hit : hit \in Matching(s)
  <2>1. ASSUME Matching(s) = {}
        PROVE  requests' = requests
    BY <2>1 DEF Approved
  <2> QED
    BY <2>1
<1>4. \A row \in requests : row \in Matching(s) <=> ~row.approved /\ <<row.student, row.university>> = p
  BY <1>1 DEF Matching, Open
<1>5. p \in PairsOf(Waiting)
  BY <1>2, <1>3, <1>4 DEF PairsOf, Waiting
<1>6. PairsOf(Waiting') = PairsOf(Waiting) \ {p}
  <2>1. Waiting' = Waiting \ Matching(s)
    <3>1. ASSUME NEW new \in requests', ~new.approved
          PROVE  new \in Waiting \ Matching(s)
      BY <1>2, <3>1, ApprovedFrom DEF Waiting
    <3>2. ASSUME NEW row \in requests, ~row.approved, row \notin Matching(s)
          PROVE  row \in requests'
      BY <1>2, <3>2, ApprovedTo
    <3> QED
      BY <3>1, <3>2 DEF Waiting
  <2> QED
    BY <1>2, <1>4, <2>1 DEF PairsOf, Waiting
<1>7. PairsOf(Granted(requests)') = PairsOf(Granted(requests)) \cup {p}
  <2>1. ASSUME NEW new \in requests', new.approved
        PROVE  \/ <<new.student, new.university>> = p
               \/ new \in Granted(requests)
    BY <1>2, <1>4, <2>1, ApprovedFrom DEF Granted
  <2>2. ASSUME NEW row \in requests, row.approved
        PROVE  row \in requests'
    BY <1>2, <1>4, <2>2, ApprovedTo
  <2>3. \E new \in requests' : new.approved /\ <<new.student, new.university>> = p
    BY <1>2, <1>3, <1>4, ApprovedTo DEF Kept
  <2> QED
    BY <2>1, <2>2, <2>3 DEF PairsOf, Granted
<1>8. Promise!Approve(p)
  BY <1>5, <1>6, <1>7 DEF Promise!Approve, Waiting, Granted
<1> QED
  BY <1>8 DEF Promise!Next

\* One approval settles all that a student has asked of a university.
THEOREM RequestsImplementApproval == Spec => ImplementsApproval
<1>1. Init => Promise!Init
  BY DEF Init, Promise!Init, PairsOf
<1>2. IndInv /\ [Next]_vars => [Promise!Next]_(Promise!vars)
  <2> SUFFICES ASSUME IndInv, Next, requests' # requests
               PROVE  Promise!Next
    BY DEF vars, Promise!vars
  <2> QED
    BY TableSteps, InsertAsks, UpdateApproves
<1> QED
  BY <1>1, <1>2, Invariance, PTL DEF Spec, ImplementsApproval, Promise!Spec

(***************************************************************************)
(* PendingRequests implements Registry.                                    *)
(***************************************************************************)

\* A creation past a lookup has found the profile, and profiles stay.
RegisteredCall(c, sts, uns) ==
  /\ c.pc \in {"c_org", "c_dup", "c_insert"} => c.student \in sts
  /\ c.pc \in {"c_dup", "c_insert"} => c.university \in uns

Registered == \A s \in Slot : RegisteredCall(call[s], students, universities)

LEMMA ProfilesStay ==
  ASSUME [Next]_vars
  PROVE  students \subseteq students' /\ universities \subseteq universities'
<1>1. ASSUME NEW s \in Slot, Step(s) \/ Failure(s)
      PROVE  UNCHANGED <<students, universities>>
  BY <1>1 DEF Step, Failure, CreateUser, CreateOrg, ApproveOrg, ApproveUser, ListOrg, Lookup,
              CreateDup, CreateInsert, ApproveUpdate, ListSelect, ReadFails, InsertFails,
              UpdateFails
<1>2. ASSUME NEW s \in Slot, Arrival(s)
      PROVE  UNCHANGED <<students, universities>>
  BY <1>2 DEF Arrival, Reject, BeginCreate, BeginApprove, BeginList, Begin
<1> QED
  BY <1>1, <1>2 DEF Next, vars, Kill, Enroll, EnrollStudent, EnrollUniversity

\* What a handler or an arrival does to its own call: it starts or ends, it goes
\* on past a lookup that found the profile, or it does no creation.
LEMMA OwnCall ==
  ASSUME TypeOK, NEW s \in Slot, Step(s) \/ Failure(s) \/ Arrival(s)
  PROVE  /\ \A t \in Slot : t # s => call'[t] = call[t]
         /\ \/ call'[s].pc \notin {"c_org", "c_dup", "c_insert"}
            \/ /\ CreateUser(s) \/ CreateOrg(s) \/ CreateDup(s)
               /\ call'[s].student = call[s].student
               /\ call'[s].university = call[s].university
<1>0. call \in [Slot -> PendingCall] /\ call[s] \in PendingCall
  BY DEF TypeOK
<1>1. ASSUME NEW pc, Goto(s, pc)
      PROVE  /\ \A t \in Slot : t # s => call'[t] = call[t]
             /\ call'[s].pc = pc
             /\ call'[s].student = call[s].student
             /\ call'[s].university = call[s].university
  <2> DEFINE n == [call[s] EXCEPT !.pc = pc]
  <2>1. n.pc = pc /\ n.student = call[s].student /\ n.university = call[s].university
    BY <1>0 DEF PendingCall
  <2>2. call' = [call EXCEPT ![s] = n]
    BY <1>0, <1>1 DEF Goto
  <2> HIDE DEF n
  <2> QED
    BY <1>0, <2>1, <2>2
<1>2. ASSUME NEW code, NEW ids, Reply(s, code, ids)
      PROVE  /\ \A t \in Slot : t # s => call'[t] = call[t]
             /\ call'[s].pc = "done"
  <2> DEFINE n == [call[s] EXCEPT !.pc = "done", !.answer = code, !.rows = ids]
  <2>1. n.pc = "done"
    BY <1>0 DEF PendingCall
  <2>2. call' = [call EXCEPT ![s] = n]
    BY <1>0, <1>2 DEF Reply
  <2> HIDE DEF n
  <2> QED
    BY <1>0, <2>1, <2>2
<1>3. ASSUME NEW n, n.pc \in {"c_user", "a_org", "l_org", "done"}, call' = [call EXCEPT ![s] = n]
      PROVE  /\ \A t \in Slot : t # s => call'[t] = call[t]
             /\ call'[s].pc \notin {"c_org", "c_dup", "c_insert"}
  BY <1>0, <1>3
<1>4. CASE CreateUser(s) \/ CreateOrg(s) \/ CreateDup(s)
  BY <1>1, <1>2, <1>4 DEF CreateUser, CreateOrg, CreateDup, Lookup
<1>5. CASE ApproveOrg(s) \/ ApproveUser(s) \/ ListOrg(s)
  BY <1>1, <1>2, <1>5 DEF ApproveOrg, ApproveUser, ListOrg, Lookup
<1>6. CASE CreateInsert(s) \/ ApproveUpdate(s) \/ ListSelect(s) \/ Failure(s)
  BY <1>2, <1>6 DEF CreateInsert, ApproveUpdate, ListSelect, Failure, ReadFails, InsertFails,
                    UpdateFails
<1>7. CASE Arrival(s)
  <2>1. ASSUME NEW code, Reject(s, code)
        PROVE  \E n : n.pc = "done" /\ call' = [call EXCEPT ![s] = n]
    <3>1. [Idle EXCEPT !.pc = "done", !.answer = code].pc = "done"
      BY DEF Idle
    <3> QED
      BY <2>1, <3>1 DEF Reject
  <2>2. ASSUME NEW pc, NEW st, NEW un, Begin(s, pc, st, un)
        PROVE  \E n : n.pc = pc /\ call' = [call EXCEPT ![s] = n]
    <3>1. [Idle EXCEPT !.pc = pc, !.student = st, !.university = un].pc = pc
      BY DEF Idle
    <3> QED
      BY <2>2, <3>1 DEF Begin
  <2> QED
    BY <1>3, <1>7, <2>1, <2>2 DEF Arrival, BeginCreate, BeginApprove, BeginList
<1> QED
  BY <1>4, <1>5, <1>6, <1>7 DEF Step

LEMMA RegisteredNext == TypeOK /\ Registered /\ [Next]_vars => Registered'
<1> SUFFICES ASSUME TypeOK, Registered, [Next]_vars, NEW t \in Slot
             PROVE  RegisteredCall(call'[t], students', universities')
  BY DEF Registered
<1>1. students \subseteq students' /\ universities \subseteq universities'
  BY ProfilesStay
<1>2. RegisteredCall(call[t], students, universities)
  BY DEF Registered
<1>3. CASE call'[t] = call[t]
  BY <1>1, <1>2, <1>3 DEF RegisteredCall
<1>4. ASSUME NEW s \in Slot, Step(s) \/ Failure(s) \/ Arrival(s)
      PROVE  RegisteredCall(call'[t], students', universities')
  <2>1. CASE t # s
    BY <1>3, <1>4, <2>1, OwnCall
  <2>2. CASE call'[s].pc \notin {"c_org", "c_dup", "c_insert"} /\ t = s
    BY <2>2 DEF RegisteredCall
  <2>3. ASSUME CreateUser(s) \/ CreateOrg(s) \/ CreateDup(s), t = s,
               call'[s].student = call[s].student, call'[s].university = call[s].university
        PROVE  RegisteredCall(call'[t], students', universities')
    <3>1. ASSUME NEW pc, Goto(s, pc)
          PROVE  call'[s].pc = pc
      BY <3>1 DEF Goto, TypeOK, PendingCall
    <3>2. ASSUME NEW code, NEW ids, Reply(s, code, ids)
          PROVE  call'[s].pc = "done"
      BY <3>2 DEF Reply, TypeOK, PendingCall
    <3>3. CASE CreateUser(s)
      BY <1>1, <2>3, <3>1, <3>2, <3>3 DEF CreateUser, Lookup, RegisteredCall
    <3>4. CASE CreateOrg(s)
      BY <1>1, <1>2, <2>3, <3>1, <3>2, <3>4 DEF CreateOrg, Lookup, RegisteredCall, At
    <3>5. CASE CreateDup(s)
      BY <1>1, <1>2, <2>3, <3>1, <3>2, <3>5 DEF CreateDup, RegisteredCall, At
    <3> QED
      BY <2>3, <3>3, <3>4, <3>5
  <2> QED
    BY <1>4, <2>1, <2>2, <2>3, OwnCall
<1>5. CASE Kill
  BY <1>5 DEF Kill, Idle, RegisteredCall
<1>6. CASE Enroll \/ UNCHANGED vars
  BY <1>3, <1>6 DEF Enroll, EnrollStudent, EnrollUniversity, vars
<1> QED
  BY <1>4, <1>5, <1>6 DEF Next

\* The entry of a row.
EntryOf(row) == [key |-> row.id, party |-> <<row.student, row.university>>, content |-> "request"]

LEMMA RowsAre == Rows = {EntryOf(row) : row \in requests} /\ Rows' = {EntryOf(row) : row \in requests'}
BY DEF Rows, EntryOf

LEMMA InsertRecords ==
  ASSUME IndInv, Registered, NEW s \in Slot, At(s, "c_insert"), NEW i \in Uuid,
         InsertRow(s, i), UNCHANGED <<students, universities>>
  PROVE  Record!Next
<1>1. /\ call[s].student \in students /\ call[s].university \in universities
      /\ students \subseteq Student /\ universities \subseteq University
  BY DEF Registered, RegisteredCall, At, IndInv, TypeOK
<1>2. PICK new : /\ new.id = i /\ new.student = call[s].student
                 /\ new.university = call[s].university
                 /\ requests' = requests \cup {new}
  <2>1. PICK n : n = [id |-> i, student |-> call[s].student,
                      university |-> call[s].university, approved |-> FALSE]
    OBVIOUS
  <2> QED
    BY <2>1 DEF InsertRow
<1>3. PICK d : d = EntryOf(new)
  OBVIOUS
<1>4. /\ d.key = i /\ d.party = <<call[s].student, call[s].university>>
      /\ d \in Record!Document
  BY <1>1, <1>2, <1>3 DEF EntryOf, Record!Document
<1>5. d.party \in Pairs
  BY <1>1, <1>4 DEF Pairs
<1>6. d.key \notin {e.key : e \in Rows}
  <2>1. \A row \in requests : row.id # i
    BY DEF InsertRow, UnusedUuid, Ids
  <2>2. \A row \in requests : EntryOf(row).key = row.id
    BY DEF EntryOf
  <2> QED
    BY <1>4, <2>1, <2>2, RowsAre
<1>7. Rows' = Rows \cup {d}
  BY <1>2, <1>3, RowsAre
<1>8. d \in Rows' \ Rows
  BY <1>6, <1>7
<1>9. Pairs' = Pairs
  BY DEF Pairs
<1>10. Record!Issue
  BY <1>4, <1>5, <1>6, <1>7, <1>8, <1>9 DEF Record!Issue
<1> QED
  BY <1>10 DEF Record!Next

\* An approval changes no entry.
LEMMA UpdateKeepsRows ==
  ASSUME IndInv, NEW s \in Slot, requests' = Approved(Matching(s))
  PROVE  Rows' = Rows
<1>1. requests \subseteq Request /\ Matching(s) \in SUBSET requests
  BY DEF IndInv, TypeOK, Matching, Open
<1>2. \A row \in requests : \E new \in requests' : EntryOf(new) = EntryOf(row)
  <2> SUFFICES ASSUME NEW row \in requests
               PROVE  \E new \in requests' : EntryOf(new) = EntryOf(row)
    OBVIOUS
  <2>1. PICK new \in requests' :
          new = IF row \in Matching(s) THEN [row EXCEPT !.approved = TRUE] ELSE row
    BY DEF Approved
  <2>2. row \in Request
    BY <1>1
  <2>3. new.id = row.id /\ new.student = row.student /\ new.university = row.university
    BY <2>1, <2>2 DEF Request
  <2> QED
    BY <2>3 DEF EntryOf
<1>3. \A new \in requests' : \E row \in requests : EntryOf(new) = EntryOf(row)
  <2> SUFFICES ASSUME NEW new \in requests' PROVE \E row \in requests : EntryOf(new) = EntryOf(row)
    OBVIOUS
  <2>1. PICK row \in requests :
          new = IF row \in Matching(s) THEN [row EXCEPT !.approved = TRUE] ELSE row
    BY DEF Approved
  <2>2. row \in Request
    BY <1>1
  <2>3. new.id = row.id /\ new.student = row.student /\ new.university = row.university
    BY <2>1, <2>2 DEF Request
  <2> QED
    BY <2>3 DEF EntryOf
<1> QED
  BY <1>2, <1>3, RowsAre

\* Rows are appended for registered pairs only, under keys of their own, and no
\* lookup, approval or failure changes one (pendingrequest.go:47-92, 191-207).
THEOREM RequestsAreRecorded == Spec => ImplementsRecord
<1>1. Init => Record!Init /\ Registered
  BY DEF Init, Record!Init, Registered, RegisteredCall, Idle, Pairs, Rows
<1>2. IndInv /\ Registered /\ [Next]_vars => [Record!Next]_(Record!vars)
  <2> SUFFICES ASSUME IndInv, Registered, [Next]_vars
               PROVE  Record!Next \/ UNCHANGED <<Pairs, Rows>>
    BY DEF Record!vars
  <2>1. students \subseteq students' /\ universities \subseteq universities'
    BY ProfilesStay
  <2>2. CASE UNCHANGED requests
    <3>1. students' \subseteq Student /\ universities' \subseteq University
      BY InvNext DEF IndInv, TypeOK
    <3>2. UNCHANGED Rows
      BY <2>2 DEF Rows
    <3>3. Pairs' \in SUBSET (Student \X University) /\ Pairs \subseteq Pairs'
      BY <2>1, <3>1 DEF Pairs
    <3> QED
      BY <3>2, <3>3 DEF Record!Next, Record!Admit
  <2>3. CASE requests' # requests
    <3>1. Next
      BY <2>3 DEF vars
    <3>2. UNCHANGED <<students, universities>>
      BY <2>3, <3>1 DEF Next, Step, Failure, Arrival, CreateUser, CreateOrg, ApproveOrg, ApproveUser,
         ListOrg, Lookup, CreateDup, CreateInsert, ApproveUpdate, ListSelect, ReadFails,
         InsertFails, UpdateFails, Reject, BeginCreate, BeginApprove, BeginList, Begin, Kill,
         Enroll, EnrollStudent, EnrollUniversity
    <3>3. ASSUME NEW s \in Slot, At(s, "c_insert"), NEW i \in Uuid, InsertRow(s, i)
          PROVE  Record!Next
      BY <3>2, <3>3, InsertRecords
    <3>4. ASSUME NEW s \in Slot, requests' = Approved(Matching(s))
          PROVE  UNCHANGED <<Pairs, Rows>>
      BY <3>2, <3>4, UpdateKeepsRows DEF Pairs
    <3> QED
      BY <2>3, <3>1, <3>3, <3>4, TableSteps
  <2> QED
    BY <2>2, <2>3
<1>3. IndInv => TypeOK
  BY DEF IndInv
<1>4. Spec => []Registered
  BY <1>1, <1>3, Invariance, RegisteredNext, PTL DEF Spec
<1> QED
  BY <1>1, <1>2, <1>4, Invariance, PTL DEF Spec, ImplementsRecord, Record!Spec

(***************************************************************************)
(* One handler at a time.                                                  *)
(***************************************************************************)

\* What pendingrequest.go:67 promises is true of a server that runs one request
\* at a time: it is the overlap of two creations that the bound leaves room for.
THEOREM OneSlotNoDuplicates == Spec => [](Cardinality(Slot) = 1 => NoDuplicatePending)
<1>1. IndInv => (Cardinality(Slot) = 1 => NoDuplicatePending)
  <2> SUFFICES ASSUME IndInv, Cardinality(Slot) = 1, NEW st \in Student, NEW un \in University
               PROVE  Cardinality(Open(st, un)) <= 1
    BY DEF NoDuplicatePending
  <2>1. Cardinality(Open(st, un)) + Cardinality(Inserting(st, un)) <= 1
    BY DEF IndInv, OpenBounded
  <2>2. Cardinality(Open(st, un)) \in Nat
    BY FS_CardinalityType DEF IndInv, OpenFinite
  <2>3. Cardinality(Inserting(st, un)) \in Nat
    BY InsertingFinite, FS_CardinalityType
  <2> QED
    BY <2>1, <2>2, <2>3
<1> QED
  BY <1>1, Invariance, PTL
=============================================================================
