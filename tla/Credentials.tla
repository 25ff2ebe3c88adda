----------------------------- MODULE Credentials -----------------------------
(***************************************************************************)
(* Credential records (internal/handlers/cred.go): MintCredentials, which  *)
(* inserts in a transaction of its own and reads the row back after the    *)
(* commit, and the two lists of a student's credentials, UserCreds and     *)
(* ShowSearchedUserCreds.  Rows name the two wallets in the place of       *)
(* user_id and organization_id, as in PendingRequests.                     *)
(***************************************************************************)
EXTENDS FiniteSets, Naturals

CONSTANTS
  Student,     \* wallets that may have a users row
  University,  \* wallets that may have an organizations row
  Cid,         \* IPFS content identifiers
  Uuid,        \* primary keys; their number bounds the rows TLC explores
  Post,        \* slots for requests in flight
  None,        \* no wallet, no content: in none of these sets
  Faults       \* TRUE: a statement may fail and the process may be killed

VARIABLES
  students,      \* wallets with a users row
  universities,  \* wallets with an organizations row
  credentials,   \* the credentials table
  post           \* the requests in flight

tables == <<students, universities, credentials>>
vars   == <<students, universities, credentials, post>>

\* An ipfs_link: the content it names, and whether it has white space around it.
Link       == [cid : Cid \cup {None}, padded : BOOLEAN]
EmptyLink  == [cid |-> None, padded |-> FALSE]

Credential == [id : Uuid, student : Student, university : University, link : Link]

\* The statements of MintCredentials, and the one of the lists.
MintPc  == {"org", "user", "insert", "commit", "reload"}
Outcome == {"none", "created", "listed", "400", "401", "empty", "500"}

\* rows are the ids the handler holds, and those its answer carries.
CredCall == [pc         : {"idle", "done", "select"} \cup MintPc,
             student    : Student \cup {None},
             university : University \cup {None},
             link       : Link,
             rows       : SUBSET Uuid,
             answer     : Outcome]

Idle == [pc |-> "idle", student |-> None, university |-> None, link |-> EmptyLink,
         rows |-> {}, answer |-> "none"]

TypeOK ==
  /\ students \subseteq Student
  /\ universities \subseteq University
  /\ credentials \subseteq Credential
  /\ post \in [Post -> CredCall]

Init ==
  /\ students = {} /\ universities = {} /\ credentials = {}
  /\ post = [p \in Post |-> Idle]

At(p, pc)   == post[p].pc = pc
Goto(p, pc) == post' = [post EXCEPT ![p].pc = pc]
Reply(p, code, ids) ==
  post' = [post EXCEPT ![p].pc = "done", ![p].answer = code, ![p].rows = ids]
Free(p)     == post[p].pc \in {"idle", "done"}
InFlight(p) == ~Free(p)

Ids(rows)  == {row.id : row \in rows}
\* The keys of rows inserted by transactions that are still open.
Staged     == UNION {post[p].rows : p \in {q \in Post : At(q, "commit")}}
UnusedUuid == Uuid \ (Ids(credentials) \cup Staged)
RowsOf(st) == {row \in credentials : row.student = st}

-----------------------------------------------------------------------------
(* The environment: CreateUser and CreateUniversity add profiles. *)

EnrollStudent(w) ==
  /\ students' = students \cup {w}
  /\ UNCHANGED <<universities, credentials, post>>

EnrollUniversity(w) ==
  /\ universities' = universities \cup {w}
  /\ UNCHANGED <<students, credentials, post>>

-----------------------------------------------------------------------------
(* A request arrives. *)

Begin(p, call) ==
  /\ Free(p)
  /\ post' = [post EXCEPT ![p] = call]
  /\ UNCHANGED tables

\* The bound on the rows: a key is left for every insert to come.
UuidsLeft == Cardinality({p \in Post : post[p].pc \in {"org", "user", "insert"}})
               < Cardinality(UnusedUuid)

\* strings.TrimSpace
Trimmed(l) == [l EXCEPT !.padded = FALSE]

\* Mutant of BeginMint: the link is stored as it came.
BeginMintUntrimmed(p, st, un, l) ==
  /\ UuidsLeft /\ l # EmptyLink
  /\ Begin(p, [Idle EXCEPT !.pc = "org", !.student = st, !.university = un, !.link = l])

\* The link is checked before it is trimmed (cred.go:106, 111): one that is all
\* white space passes and is stored empty.
BeginMint(p, st, un, l) ==
  /\ UuidsLeft /\ l # EmptyLink
  /\ Begin(p, [Idle EXCEPT !.pc = "org", !.student = st, !.university = un,
                           !.link = Trimmed(l)])

BeginList(p, st) == Begin(p, [Idle EXCEPT !.pc = "select", !.student = st])

\* A body without a field the handler needs, or a date in no known format (400);
\* at UserCreds no token (401) or one that does not verify (empty 200).
Reject(p, code) == Begin(p, [Idle EXCEPT !.pc = "done", !.answer = code])

-----------------------------------------------------------------------------
(* The statements. *)

\* Mutants of Lookup: a profile that is missing is not answered; by another status.
LookupForgets(p, here, found, next) ==
  /\ At(p, here)
  /\ found /\ Goto(p, next)
  /\ UNCHANGED tables
LookupNotFound(p, here, found, next) ==
  /\ At(p, here)
  /\ IF found THEN Goto(p, next) ELSE Reply(p, "404", {})
  /\ UNCHANGED tables

\* Finding a profile by its wallet: go on, or answer that it is not registered.
Lookup(p, here, found, next) ==
  /\ At(p, here)
  /\ IF found THEN Goto(p, next) ELSE Reply(p, "400", {})
  /\ UNCHANGED tables

FindOrg(p)  == Lookup(p, "org", post[p].university \in universities, "user")
\* Mutant of FindUser: the university's wallet is looked up again.
FindUserAgain(p) == Lookup(p, "user", post[p].university \in universities, "insert")
FindUser(p) == Lookup(p, "user", post[p].student \in students, "insert")

\* tx.Create: nobody else sees the row before the commit.
Insert(p) ==
  /\ At(p, "insert")
  /\ \E i \in UnusedUuid :
       post' = [post EXCEPT ![p].pc = "commit", ![p].rows = {i}]
  /\ UNCHANGED tables

StagedRow(p, i) == [id |-> i, student |-> post[p].student,
                    university |-> post[p].university, link |-> post[p].link]

Committed(p) == credentials \cup {StagedRow(p, i) : i \in post[p].rows}

Commit(p) ==
  /\ At(p, "commit")
  /\ credentials' = Committed(p)
  /\ Goto(p, "reload")
  /\ UNCHANGED <<students, universities>>

\* Mutant of Reloaded: the row is looked for by its wallets.
ReloadedByWallets(p) ==
  {row \in credentials : row.student = post[p].student /\ row.university = post[p].university}

\* Where("id = ?", cred.ID)
Reloaded(p) == {row \in credentials : row.id \in post[p].rows}

Reload(p) ==
  /\ At(p, "reload")
  /\ \/ \E row \in Reloaded(p) : Reply(p, "created", {row.id})
     \/ Reloaded(p) = {} /\ Reply(p, "500", {})
  /\ UNCHANGED tables

Select(p) ==
  /\ At(p, "select")
  /\ Reply(p, "listed", Ids(RowsOf(post[p].student)))
  /\ UNCHANGED tables

-----------------------------------------------------------------------------
(* Failures. *)

\* Mutant of StatementFails: what cannot be read back is deleted.
StatementFailsUndoes(p) ==
  /\ Faults
  /\ post[p].pc \in {"org", "user", "insert", "reload", "select"}
  /\ Reply(p, "500", {})
  /\ credentials' = IF At(p, "reload") THEN credentials \ Reloaded(p) ELSE credentials
  /\ UNCHANGED <<students, universities>>

\* A SELECT fails, or the INSERT, which is rolled back.
StatementFails(p) ==
  /\ Faults
  /\ post[p].pc \in {"org", "user", "insert", "reload", "select"}
  /\ Reply(p, "500", {})
  /\ UNCHANGED tables

\* The commit reports an error, whether or not the server has done it.
CommitFails(p) ==
  /\ Faults
  /\ At(p, "commit")
  /\ credentials' \in {credentials, Committed(p)}
  /\ Reply(p, "500", {})
  /\ UNCHANGED <<students, universities>>

\* The process exits: PostgreSQL rolls the open transactions back.
Kill ==
  /\ Faults
  /\ post' = [p \in Post |-> Idle]
  /\ UNCHANGED tables

-----------------------------------------------------------------------------
Step(p) == \/ FindOrg(p) \/ FindUser(p) \/ Insert(p) \/ Commit(p) \/ Reload(p)
           \/ Select(p)

Failure(p) == StatementFails(p) \/ CommitFails(p)

Arrival(p) ==
  \/ \E code \in {"400", "401", "empty"} : Reject(p, code)
  \/ \E st \in Student : BeginList(p, st)
  \/ \E st \in Student, un \in University, l \in Link : BeginMint(p, st, un, l)

Enroll == \/ \E w \in Student : EnrollStudent(w)
          \/ \E w \in University : EnrollUniversity(w)

Next ==
  \/ \E p \in Post : Step(p) \/ Failure(p) \/ Arrival(p)
  \/ Kill
  \/ Enroll

Spec == Init /\ [][Next]_vars

-----------------------------------------------------------------------------
(* Properties. *)

\* What a 201 carries is stored, is of the wallets and the link the client sent
\* (cred.go:121-148), and is no other 201's row, whatever other requests committed
\* between this one's commit and its reload (cred.go:160-166).
CreatedIsOwn ==
  /\ \A p \in Post : post[p].answer = "created" =>
       \E row \in credentials : post[p].rows = {row.id} /\ row = StagedRow(p, row.id)
  /\ \A p, q \in Post : post[p].answer = "created" /\ post[q].answer = "created" /\ p # q =>
       post[p].rows # post[q].rows

\* The credentials as a registry between universities and students: each has a
\* key of its own, a university and a student that were registered before it, and
\* none ever changes or goes - although the two lookups, the insert and the commit
\* are separate statements and the process may die (cred.go:122-160).
Record  == INSTANCE Registry WITH
             Party     <- University \X Student,
             Key       <- Uuid,
             Content   <- Link,
             parties   <- universities \X students,
             documents <- {[key |-> row.id, party |-> <<row.university, row.student>>,
                            content |-> row.link] : row \in credentials}
ImplementsRegistry == Record!Spec

\* Every request is answered, or lost with the process.
EveryPostAnswered == \A p \in Post : InFlight(p) ~> Free(p)
=============================================================================
