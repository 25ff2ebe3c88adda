--------------------------- MODULE PendingRequests --------------------------
(***************************************************************************)
(* A student's requests for a university's approval                        *)
(* (internal/handlers/pendingrequest.go): CreatePendingRequest,            *)
(* ListPendingRequestsForOrg and ApprovePendingRequest over the            *)
(* pending_requests table.  Each handler is a chain of SQL statements and  *)
(* any other request can run between two of them.                          *)
(*                                                                         *)
(* A profile is found by its wallet and a wallet has one profile of each   *)
(* kind at most (module Registration), so a row names the two wallets in   *)
(* the place of requester_id and organization_id.                          *)
(***************************************************************************)
EXTENDS FiniteSets, Naturals

CONSTANTS
  Student,     \* wallets that may have a users row
  University,  \* wallets that may have an organizations row
  Uuid,        \* primary keys; their number bounds the rows TLC explores
  Slot,        \* slots for requests in flight
  None,        \* no wallet
  Faults       \* TRUE: a statement may fail and the process may be killed

ASSUME PendingAssumption == /\ None \notin Student \cup University
                            /\ IsFiniteSet(Slot) /\ Slot # {}
                            /\ Faults \in BOOLEAN

VARIABLES
  students,      \* wallets with a users row
  universities,  \* wallets with an organizations row
  requests,      \* the pending_requests table
  call           \* the requests in flight

vars == <<students, universities, requests, call>>

Request == [id : Uuid, student : Student, university : University, approved : BOOLEAN]

\* The points before the statements of the three handlers.
CreatePc  == {"c_user", "c_org", "c_dup", "c_insert"}
ApprovePc == {"a_org", "a_user", "a_update"}
ListPc    == {"l_org", "l_select"}

\* Successful answers by what they carry; the other answers by their status.
Outcome == {"none", "created", "409", "updated", "404", "listed", "400",
            "401", "empty", "500"}

\* rows are the ids the answer carries.
PendingCall == [pc         : {"idle", "done"} \cup CreatePc \cup ApprovePc \cup ListPc,
                student    : Student \cup {None},
                university : University \cup {None},
                rows       : SUBSET Uuid,
                answer     : Outcome]

Idle == [pc |-> "idle", student |-> None, university |-> None,
         rows |-> {}, answer |-> "none"]

TypeOK ==
  /\ students \subseteq Student
  /\ universities \subseteq University
  /\ requests \subseteq Request
  /\ call \in [Slot -> PendingCall]

Init ==
  /\ students = {} /\ universities = {} /\ requests = {}
  /\ call = [s \in Slot |-> Idle]

At(s, pc)   == call[s].pc = pc
Goto(s, pc) == call' = [call EXCEPT ![s].pc = pc]
Reply(s, code, ids) ==
  call' = [call EXCEPT ![s].pc = "done", ![s].answer = code, ![s].rows = ids]
Free(s)     == call[s].pc \in {"idle", "done"}
InFlight(s) == ~Free(s)

Ids(rows)   == {row.id : row \in rows}
UnusedUuid  == Uuid \ Ids(requests)
Open(s, u)  == {row \in requests : row.student = s /\ row.university = u /\ ~row.approved}

-----------------------------------------------------------------------------
(* The environment: CreateUser and CreateUniversity add profiles. *)

EnrollStudent(w) ==
  /\ students' = students \cup {w}
  /\ UNCHANGED <<universities, requests, call>>

EnrollUniversity(w) ==
  /\ universities' = universities \cup {w}
  /\ UNCHANGED <<students, requests, call>>

-----------------------------------------------------------------------------
(* A request arrives. *)

Begin(s, pc, st, un) ==
  /\ Free(s)
  /\ call' = [call EXCEPT ![s] = [Idle EXCEPT !.pc = pc, !.student = st,
                                              !.university = un]]
  /\ UNCHANGED <<students, universities, requests>>

\* The bound on the rows: a primary key is left for every creation under way.
UuidsLeft == Cardinality({s \in Slot : call[s].pc \in CreatePc}) < Cardinality(UnusedUuid)

BeginCreate(s, st, un)  == UuidsLeft /\ Begin(s, "c_user", st, un)
BeginApprove(s, st, un) == Begin(s, "a_org", st, un)
BeginList(s, un)        == Begin(s, "l_org", None, un)

\* A body that does not decode or lacks a wallet; no token.  A token that does
\* not verify is answered by an empty 200: the middleware returns without a status.
Reject(s, code) ==
  /\ Free(s)
  /\ call' = [call EXCEPT ![s] = [Idle EXCEPT !.pc = "done", !.answer = code]]
  /\ UNCHANGED <<students, universities, requests>>

-----------------------------------------------------------------------------
(* The statements. *)

\* Finding a profile by its wallet: go on, or answer that it is not there.
Lookup(s, here, found, next, code) ==
  /\ At(s, here)
  /\ IF found THEN Goto(s, next) ELSE Reply(s, code, {})
  /\ UNCHANGED <<students, universities, requests>>

CreateUser(s) == Lookup(s, "c_user", call[s].student \in students, "c_org", "400")
CreateOrg(s)  == Lookup(s, "c_org", call[s].university \in universities, "c_dup", "400")
\* Mutant of ApproveOrg: another status.
ApproveOrgForbidden(s) ==
  Lookup(s, "a_org", call[s].university \in universities, "a_user", "403")
ApproveOrg(s) == Lookup(s, "a_org", call[s].university \in universities, "a_user", "401")
ApproveUser(s) == Lookup(s, "a_user", call[s].student \in students, "a_update", "400")
ListOrg(s)    == Lookup(s, "l_org", call[s].university \in universities, "l_select", "401")

\* Mutants of Existing: the duplicate is looked for among the approved rows;
\* or among the student's requests to every university.
ExistingApproved(s) ==
  {row \in requests : /\ row.student = call[s].student
                      /\ row.university = call[s].university
                      /\ row.approved}
ExistingAnywhere(s) ==
  {row \in requests : row.student = call[s].student /\ ~row.approved}

Existing(s) == Open(call[s].student, call[s].university)

\* Mutant of CreateDup: the handler waits for the open request to be approved.
CreateDupWaits(s) ==
  /\ At(s, "c_dup")
  /\ Existing(s) = {}
  /\ Goto(s, "c_insert")
  /\ UNCHANGED <<students, universities, requests>>

CreateDup(s) ==
  /\ At(s, "c_dup")
  /\ \/ Existing(s) = {} /\ Goto(s, "c_insert")
     \/ \E row \in Existing(s) : Reply(s, "409", {row.id})
  /\ UNCHANGED <<students, universities, requests>>

InsertRow(s, i) ==
  /\ i \in UnusedUuid
  /\ requests' = requests \cup {[id |-> i, student |-> call[s].student,
                                 university |-> call[s].university, approved |-> FALSE]}

CreateInsert(s) ==
  /\ At(s, "c_insert")
  /\ \E i \in Uuid : InsertRow(s, i) /\ Reply(s, "created", {i})
  /\ UNCHANGED <<students, universities>>

\* Mutants of Matching: the UPDATE forgets is_approved = false; or
\* organization_id.
MatchingAny(s) ==
  {row \in requests : row.student = call[s].student /\ row.university = call[s].university}
MatchingAnywhere(s) ==
  {row \in requests : row.student = call[s].student /\ ~row.approved}

Matching(s) == Open(call[s].student, call[s].university)

\* Mutant of Approved: only one of the matching rows is updated.
ApprovedFirst(rows) ==
  {IF row \in rows /\ row = CHOOSE r \in rows : TRUE
   THEN [row EXCEPT !.approved = TRUE] ELSE row : row \in requests}

\* UPDATE pending_requests SET is_approved = true
Approved(rows) ==
  {IF row \in rows THEN [row EXCEPT !.approved = TRUE] ELSE row : row \in requests}

ApproveUpdate(s) ==
  /\ At(s, "a_update")
  /\ requests' = Approved(Matching(s))
  /\ IF Matching(s) = {} THEN Reply(s, "404", {})
                         ELSE Reply(s, "updated", Ids(Matching(s)))
  /\ UNCHANGED <<students, universities>>

ListSelect(s) ==
  /\ At(s, "l_select")
  /\ Reply(s, "listed",
           Ids({row \in requests : row.university = call[s].university /\ ~row.approved}))
  /\ UNCHANGED <<students, universities, requests>>

-----------------------------------------------------------------------------
(* Failures. *)

\* A lookup fails; in the two handlers behind AuthMiddleware any error of the
\* organization lookup is answered 401.
ReadFails(s) ==
  /\ Faults
  /\ call[s].pc \in {"c_user", "c_org", "c_dup", "a_org", "a_user", "l_org", "l_select"}
  /\ Reply(s, IF call[s].pc \in {"a_org", "l_org"} THEN "401" ELSE "500", {})
  /\ UNCHANGED <<students, universities, requests>>

\* A write reports an error, whether or not the server had committed it.
InsertFails(s) ==
  /\ Faults
  /\ At(s, "c_insert")
  /\ (\E i \in Uuid : InsertRow(s, i)) \/ UNCHANGED requests
  /\ Reply(s, "500", {})
  /\ UNCHANGED <<students, universities>>

UpdateFails(s) ==
  /\ Faults
  /\ At(s, "a_update")
  /\ requests' \in {requests, Approved(Matching(s))}
  /\ Reply(s, "500", {})
  /\ UNCHANGED <<students, universities>>

\* The process exits: the requests in flight are lost, the tables stay.
Kill ==
  /\ Faults
  /\ call' = [s \in Slot |-> Idle]
  /\ UNCHANGED <<students, universities, requests>>

-----------------------------------------------------------------------------
Step(s) ==
  \/ CreateUser(s) \/ CreateOrg(s) \/ CreateDup(s) \/ CreateInsert(s)
  \/ ApproveOrg(s) \/ ApproveUser(s) \/ ApproveUpdate(s)
  \/ ListOrg(s) \/ ListSelect(s)

Failure(s) == ReadFails(s) \/ InsertFails(s) \/ UpdateFails(s)

Arrival(s) ==
  \/ Reject(s, "400") \/ Reject(s, "401") \/ Reject(s, "empty")
  \/ \E st \in Student, un \in University : BeginCreate(s, st, un) \/ BeginApprove(s, st, un)
  \/ \E un \in University : BeginList(s, un)

Enroll == \/ \E w \in Student : EnrollStudent(w)
          \/ \E w \in University : EnrollUniversity(w)

Next ==
  \/ \E s \in Slot : Step(s) \/ Failure(s) \/ Arrival(s)
  \/ Kill
  \/ Enroll

Spec == Init /\ [][Next]_vars

\* net/http runs every request in a goroutine of its own; none is starved, and
\* a statement that keeps failing is answered too (Failure).
LiveSpec == Spec /\ \A s \in Slot : WF_vars(Step(s))

-----------------------------------------------------------------------------
(* Properties. *)

Inserting(st, un) ==
  {s \in Slot : At(s, "c_insert") /\ call[s].student = st /\ call[s].university = un}

\* The duplicate check (pendingrequest.go:67-79) is not atomic with the insert
\* at :86, and still bounds the requests a pair has open: by the number of
\* creations that can be past their check at once, whatever was approved,
\* retried or lost in between.  With one slot there are no duplicates.
OpenBounded ==
  \A st \in Student, un \in University :
    Cardinality(Open(st, un)) + Cardinality(Inserting(st, un)) <= Cardinality(Slot)

\* pendingrequest.go:192-207: two approvals never both count a row, and the
\* rows an approval reports are approved and stay so.
ApprovedOnce ==
  /\ \A s \in Slot : call[s].answer = "updated" =>
       call[s].rows \subseteq Ids({row \in requests : row.approved})
  /\ \A s, t \in Slot :
       call[s].answer = "updated" /\ call[t].answer = "updated" /\ s # t =>
         call[s].rows \cap call[t].rows = {}

\* The request a creation, a conflict, an approval or a list carries to the
\* client is in the table and is one of the wallets that the client named.
AnswersNameOwnRows ==
  \A s \in Slot : \A i \in call[s].rows :
    \E row \in requests : /\ row.id = i
                          /\ row.university = call[s].university
                          /\ call[s].answer # "listed" => row.student = call[s].student

\* A row is never lost and never un-approved, and it becomes approved only
\* while an approval by its own university, of its own student, runs.
OnlyTheOrgApproves ==
  [][\A row \in requests :
       \/ row \in requests'
       \/ /\ [row EXCEPT !.approved = TRUE] \in requests'
          /\ \E s \in Slot : /\ At(s, "a_update") /\ ~At(s, "a_update")'
                             /\ call[s].university = row.university
                             /\ call[s].student = row.student]_vars

\* One approval settles all that a student has asked of a university, even the
\* duplicates two racing creations left behind (pendingrequest.go:191).
PairsOf(rows) == {<<row.student, row.university>> : row \in rows}
Promise == INSTANCE Approval WITH
             asked   <- PairsOf({row \in requests : ~row.approved}),
             granted <- PairsOf({row \in requests : row.approved})
ImplementsApproval == Promise!Spec

\* Apart from their approval the rows are a record: one at a time is appended,
\* under a key of its own and for a student and a university that both have a
\* profile, and none is lost or handed to somebody else, whatever is looked up,
\* approved or retried in between (pendingrequest.go:47-92, 191-207).
Pairs == students \X universities
Rows  == {[key |-> row.id, party |-> <<row.student, row.university>>, content |-> "request"] :
            row \in requests}
Record == INSTANCE Registry WITH Party <- Student \X University, Key <- Uuid,
                                 Content <- {"request"}, parties <- Pairs, documents <- Rows
ImplementsRecord == Record!Spec

\* Every request is answered, or lost with the process: none waits for another
\* one, whatever the duplicate check and the failures do.
EveryCallAnswered == \A s \in Slot : InFlight(s) ~> Free(s)

\* pendingrequest.go:67, "prevent duplicate pending requests": a student never
\* has two requests open with a university.
NoDuplicatePending ==
  \A st \in Student, un \in University : Cardinality(Open(st, un)) <= 1
=============================================================================
