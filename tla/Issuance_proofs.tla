--------------------------- MODULE Issuance_proofs ---------------------------
(* Proofs about Issuance: Credentials and Uploads in one process, for every   *)
(* number of students, universities, contents and slots.                      *)
EXTENDS Issuance, TLAPS

(***************************************************************************)
(* The invariant.  CallOk mentions a request's own record and tables that  *)
(* never shrink; what relates the keys of two requests is KeysApart.       *)
(***************************************************************************)

\* A row of the table: registered parties, and a link an upload was answered.
RowOk(row, studs, univs, links) ==
  /\ row \in Cred!Credential
  /\ row.student \in studs /\ row.university \in univs
  /\ row.link.cid \in links /\ ~row.link.padded

KeysUnique(creds) == \A r, s \in creds : r.id = s.id => r = s

\* The row a request stands for.
RowFor(c, i) == [id |-> i, student |-> c.student, university |-> c.university, link |-> c.link]

CallOk(c, creds, studs, univs, links) ==
  /\ c.pc # "done" => c.answer = "none"
  /\ c.pc \in Cred!MintPc => /\ c.student \in Student /\ c.university \in University
                             /\ c.link.cid \in links /\ ~c.link.padded
  /\ c.pc \in {"user", "insert", "commit", "reload"} => c.university \in univs
  /\ c.pc \in {"insert", "commit", "reload"} => c.student \in studs
  /\ c.pc = "commit" => \E i \in Uuid : c.rows = {i}
  /\ c.pc = "reload" \/ c.answer = "created" =>
       \E i \in Uuid : c.rows = {i} /\ RowFor(c, i) \in creds

\* The keys a request has inserted.
Own(c) == IF c.pc \in {"commit", "reload"} \/ c.answer = "created" THEN c.rows ELSE {}

\* No two requests inserted the same key, and what is not committed is not there.
KeysApart ==
  /\ \A p \in Post : post[p].pc = "commit" => post[p].rows \cap Cred!Ids(credentials) = {}
  /\ \A p, q \in Post : p # q => Own(post[p]) \cap Own(post[q]) = {}

\* An upload that is about to pin has written its file.
UploadOk(c) == /\ c.pc \in Up!UploadPc => c.body \in Cid
               /\ c.pc = "pin" => c.file = "written"

IndInv ==
  /\ TypeOK
  /\ Up!GivenIsPinned
  /\ KeysUnique(credentials)
  /\ KeysApart
  /\ \A row \in credentials : RowOk(row, students, universities, given)
  /\ \A p \in Post : CallOk(post[p], credentials, students, universities, given)
  /\ \A u \in Upload : UploadOk(upload[u])

LEMMA RowOkGrows ==
  ASSUME NEW row,
         NEW studs, NEW studs2, studs \subseteq studs2,
         NEW univs, NEW univs2, univs \subseteq univs2,
         NEW links, NEW links2, links \subseteq links2,
         RowOk(row, studs, univs, links)
  PROVE  RowOk(row, studs2, univs2, links2)
BY DEF RowOk

LEMMA CallOkGrows ==
  ASSUME NEW c,
         NEW creds, NEW creds2, creds \subseteq creds2,
         NEW studs, NEW studs2, studs \subseteq studs2,
         NEW univs, NEW univs2, univs \subseteq univs2,
         NEW links, NEW links2, links \subseteq links2,
         CallOk(c, creds, studs, univs, links)
  PROVE  CallOk(c, creds2, studs2, univs2, links2)
BY DEF CallOk

LEMMA IdleOk ==
  ASSUME NEW creds, NEW studs, NEW univs, NEW links
  PROVE  /\ Cred!Idle \in Cred!CredCall /\ Own(Cred!Idle) = {} /\ Cred!Idle.pc = "idle"
         /\ CallOk(Cred!Idle, creds, studs, univs, links)
         /\ Up!Idle \in Up!UploadCall /\ UploadOk(Up!Idle)
<1>1. Cred!Idle \in Cred!CredCall
  BY DEF Cred!Idle, Cred!CredCall, Cred!EmptyLink, Cred!Link, Cred!Outcome
<1>2. CallOk(Cred!Idle, creds, studs, univs, links) /\ Own(Cred!Idle) = {} /\ Cred!Idle.pc = "idle"
  BY DEF Cred!Idle, CallOk, Cred!MintPc, Own
<1>3. Up!Idle \in Up!UploadCall /\ UploadOk(Up!Idle)
  BY DEF Up!Idle, Up!UploadCall, UploadOk, Up!UploadPc
<1> QED
  BY <1>1, <1>2, <1>3

(***************************************************************************)
(* A step of one credential request: its call becomes n.                   *)
(***************************************************************************)

\* The calls of all others are as they were.
LEMMA OtherCalls ==
  ASSUME IndInv, NEW p \in Post, NEW n, post' = [post EXCEPT ![p] = n],
         credentials \subseteq credentials', UNCHANGED <<students, universities, given>>
  PROVE  /\ post'[p] = n
         /\ \A q \in Post : q # p =>
              /\ post'[q] = post[q]
              /\ CallOk(post'[q], credentials', students', universities', given')
<1>1. post \in [Post -> Cred!CredCall]
  BY DEF IndInv, TypeOK, Cred!TypeOK
<1>2. ASSUME NEW q \in Post, q # p
      PROVE  /\ post'[q] = post[q]
             /\ CallOk(post'[q], credentials', students', universities', given')
  <2>1. post'[q] = post[q]
    BY <1>1, <1>2
  <2>2. CallOk(post[q], credentials, students, universities, given)
    BY DEF IndInv
  <2> QED
    BY <2>1, <2>2, CallOkGrows
<1> QED
  BY <1>1, <1>2

\* A call that claims no new key; the table may gain a row that nobody else claims.
LEMMA CallStep ==
  ASSUME IndInv, NEW p \in Post, NEW n \in Cred!CredCall,
         post' = [post EXCEPT ![p] = n],
         UNCHANGED <<students, universities, pinned, given, upload>>,
         credentials \subseteq credentials',
         \A row \in credentials' : RowOk(row, students, universities, given),
         KeysUnique(credentials'),
         \A q \in Post : q # p /\ post[q].pc = "commit" =>
           post[q].rows \cap Cred!Ids(credentials') = {},
         n.pc # "commit", Own(n) \subseteq Own(post[p]),
         CallOk(n, credentials', students, universities, given)
  PROVE  IndInv'
<1>1. /\ post'[p] = n
      /\ \A q \in Post : q # p =>
           /\ post'[q] = post[q]
           /\ CallOk(post'[q], credentials', students', universities', given')
  BY OtherCalls
<1>2. TypeOK'
  <2>1. credentials' \subseteq Cred!Credential
    BY DEF RowOk
  <2> QED
    BY <2>1 DEF IndInv, TypeOK, Cred!TypeOK, Up!TypeOK
<1>3. KeysApart'
  <2>1. \A q \in Post : q # p => Own(post'[q]) = Own(post[q])
    BY <1>1
  <2>2. \A q, r \in Post : q # r => Own(post'[q]) \cap Own(post'[r]) = {}
    BY <1>1, <2>1 DEF IndInv, KeysApart
  <2> QED
    BY <1>1, <2>2 DEF KeysApart
<1>4. \A q \in Post : CallOk(post'[q], credentials', students', universities', given')
  BY <1>1
<1>5. Up!GivenIsPinned' /\ (\A u \in Upload : UploadOk(upload'[u]))
  BY DEF IndInv, Up!GivenIsPinned
<1> QED
  BY <1>2, <1>3, <1>4, <1>5 DEF IndInv

\* The same when the table stays.
LEMMA QuietStep ==
  ASSUME IndInv, NEW p \in Post, NEW n \in Cred!CredCall,
         post' = [post EXCEPT ![p] = n],
         UNCHANGED <<students, universities, credentials, pinned, given, upload>>,
         n.pc # "commit", Own(n) \subseteq Own(post[p]),
         CallOk(n, credentials, students, universities, given)
  PROVE  IndInv'
<1>1. /\ \A row \in credentials' : RowOk(row, students, universities, given)
      /\ KeysUnique(credentials')
      /\ \A q \in Post : post[q].pc = "commit" => post[q].rows \cap Cred!Ids(credentials') = {}
  BY DEF IndInv, KeysApart
<1> QED
  BY <1>1, CallStep

LEMMA BeginInv ==
  ASSUME IndInv, NEW p \in Post, NEW n \in Cred!CredCall, Cred!Begin(p, n),
         UNCHANGED uploadVars, n.pc \notin {"commit", "reload"}, n.answer # "created",
         CallOk(n, credentials, students, universities, given)
  PROVE  IndInv'
<1>1. /\ post' = [post EXCEPT ![p] = n]
      /\ UNCHANGED <<students, universities, credentials, pinned, given, upload>>
  BY DEF Cred!Begin, Cred!tables, uploadVars
<1>2. Own(n) = {}
  BY DEF Own
<1> QED
  BY <1>1, <1>2, QuietStep

LEMMA ArrivalInv ==
  ASSUME IndInv, NEW p \in Post, Arrival(p), UNCHANGED uploadVars
  PROVE  IndInv'
<1>1. ASSUME NEW code \in {"400", "401", "empty"}, Cred!Reject(p, code)
      PROVE  IndInv'
  <2> DEFINE n == [Cred!Idle EXCEPT !.pc = "done", !.answer = code]
  <2>1. n \in Cred!CredCall /\ n.pc = "done" /\ n.answer = code
    BY DEF Cred!Idle, Cred!CredCall, Cred!EmptyLink, Cred!Link, Cred!Outcome
  <2>2. Cred!Begin(p, n)
    BY <1>1 DEF Cred!Reject
  <2> HIDE DEF n
  <2>3. CallOk(n, credentials, students, universities, given)
    BY <2>1, <1>1 DEF CallOk, Cred!MintPc
  <2> QED
    BY <2>1, <2>2, <2>3, <1>1, BeginInv
<1>2. ASSUME NEW st \in Student, Cred!BeginList(p, st)
      PROVE  IndInv'
  <2> DEFINE n == [Cred!Idle EXCEPT !.pc = "select", !.student = st]
  <2>1. n \in Cred!CredCall /\ n.pc = "select" /\ n.answer = "none"
    BY DEF Cred!Idle, Cred!CredCall, Cred!EmptyLink, Cred!Link, Cred!Outcome
  <2>2. Cred!Begin(p, n)
    BY <1>2 DEF Cred!BeginList
  <2> HIDE DEF n
  <2>3. CallOk(n, credentials, students, universities, given)
    BY <2>1 DEF CallOk, Cred!MintPc
  <2> QED
    BY <2>1, <2>2, <2>3, BeginInv
<1>3. ASSUME NEW st \in Student, NEW un \in University, NEW l \in AnsweredLink,
             Cred!BeginMint(p, st, un, l)
      PROVE  IndInv'
  <2> DEFINE m == [l EXCEPT !.padded = FALSE]
             n == [Cred!Idle EXCEPT !.pc = "org", !.student = st, !.university = un,
                                    !.link = m]
  <2>1. given \subseteq Cid \cup {None}
    BY DEF IndInv, TypeOK, Up!TypeOK
  <2>2. m \in Cred!Link /\ m.cid \in given /\ ~m.padded
    BY <2>1 DEF AnsweredLink, Cred!Link
  <2>3. Cred!Begin(p, n)
    BY <1>3 DEF Cred!BeginMint, Cred!Trimmed
  <2> HIDE DEF m
  <2>4. /\ n \in Cred!CredCall /\ n.pc = "org" /\ n.answer = "none"
        /\ n.student = st /\ n.university = un /\ n.link = m
    BY <2>2 DEF Cred!Idle, Cred!CredCall, Cred!MintPc, Cred!Outcome
  <2> HIDE DEF n
  <2>5. CallOk(n, credentials, students, universities, given)
    BY <2>2, <2>4 DEF CallOk
  <2> QED
    BY <2>3, <2>4, <2>5, BeginInv
<1> QED
  BY <1>1, <1>2, <1>3 DEF Arrival

\* An answer that reports no row.
LEMMA ReplyInv ==
  ASSUME IndInv, NEW p \in Post, NEW code \in {"400", "500"}, Cred!Reply(p, code, {}),
         UNCHANGED <<students, universities, credentials, pinned, given, upload>>
  PROVE  IndInv'
<1> DEFINE n == [post[p] EXCEPT !.pc = "done", !.answer = code, !.rows = {}]
<1>1. post[p] \in Cred!CredCall /\ post' = [post EXCEPT ![p] = n]
  BY DEF IndInv, TypeOK, Cred!TypeOK, Cred!Reply
<1>2. n \in Cred!CredCall /\ n.pc = "done" /\ n.answer = code
  BY <1>1 DEF Cred!CredCall, Cred!Outcome
<1> HIDE DEF n
<1>3. Own(n) = {} /\ CallOk(n, credentials, students, universities, given)
  BY <1>2 DEF Own, CallOk, Cred!MintPc
<1> QED
  BY <1>1, <1>2, <1>3, QuietStep

LEMMA LookupInv ==
  ASSUME IndInv, NEW p \in Post, Cred!FindOrg(p) \/ Cred!FindUser(p), UNCHANGED uploadVars
  PROVE  IndInv'
<1>1. UNCHANGED <<students, universities, credentials, pinned, given, upload>>
  BY DEF Cred!FindOrg, Cred!FindUser, Cred!Lookup, Cred!tables, uploadVars
<1>2. post[p] \in Cred!CredCall /\ CallOk(post[p], credentials, students, universities, given)
  BY DEF IndInv, TypeOK, Cred!TypeOK
<1>3. CASE Cred!Reply(p, "400", {})
  BY <1>1, <1>3, ReplyInv
<1>4. ASSUME NEW next \in {"user", "insert"}, Cred!Goto(p, next),
             post[p].pc \in Cred!MintPc, post[p].university \in universities,
             next = "insert" => post[p].student \in students
      PROVE  IndInv'
  <2> DEFINE n == [post[p] EXCEPT !.pc = next]
  <2>1. post' = [post EXCEPT ![p] = n]
    BY <1>4 DEF Cred!Goto, IndInv, TypeOK, Cred!TypeOK
  <2>2. /\ n \in Cred!CredCall /\ n.pc = next /\ n.student = post[p].student
        /\ n.university = post[p].university /\ n.link = post[p].link
        /\ n.answer = post[p].answer
    BY <1>2 DEF Cred!CredCall, Cred!MintPc
  <2> HIDE DEF n
  <2>3. post[p].answer = "none"
    BY <1>2, <1>4 DEF CallOk, Cred!MintPc
  <2>4. Own(n) = {} /\ CallOk(n, credentials, students, universities, given)
    BY <1>2, <1>4, <2>2, <2>3 DEF Own, CallOk
  <2> QED
    BY <1>1, <2>1, <2>2, <2>4, QuietStep
<1>5. CASE Cred!FindOrg(p) /\ ~Cred!Reply(p, "400", {})
  BY <1>4, <1>5 DEF Cred!FindOrg, Cred!Lookup, Cred!At, Cred!MintPc
<1>6. CASE Cred!FindUser(p) /\ ~Cred!Reply(p, "400", {})
  <2>1. post[p].university \in universities
    BY <1>2, <1>6 DEF Cred!FindUser, Cred!Lookup, Cred!At, CallOk
  <2> QED
    BY <1>4, <1>6, <2>1 DEF Cred!FindUser, Cred!Lookup, Cred!At, Cred!MintPc
<1> QED
  BY <1>3, <1>5, <1>6

LEMMA InsertInv ==
  ASSUME IndInv, NEW p \in Post, Cred!Insert(p), UNCHANGED uploadVars
  PROVE  IndInv'
<1>1. PICK i \in Cred!UnusedUuid :
        post' = [post EXCEPT ![p].pc = "commit", ![p].rows = {i}]
  BY DEF Cred!Insert
<1> DEFINE n == [post[p] EXCEPT !.pc = "commit", !.rows = {i}]
<1>2. /\ UNCHANGED <<students, universities, credentials, pinned, given, upload>>
      /\ post[p].pc = "insert"
  BY DEF Cred!Insert, Cred!At, Cred!tables, uploadVars
<1>3. post[p] \in Cred!CredCall /\ CallOk(post[p], credentials, students, universities, given)
  BY DEF IndInv, TypeOK, Cred!TypeOK
<1>4. i \in Uuid /\ i \notin Cred!Ids(credentials) /\ i \notin Cred!Staged
  BY DEF Cred!UnusedUuid
<1>5. post' = [post EXCEPT ![p] = n]
  BY <1>1 DEF IndInv, TypeOK, Cred!TypeOK
<1>6. /\ n \in Cred!CredCall /\ n.pc = "commit" /\ n.rows = {i} /\ n.answer = post[p].answer
      /\ n.student = post[p].student /\ n.university = post[p].university
      /\ n.link = post[p].link
  BY <1>3, <1>4 DEF Cred!CredCall, Cred!MintPc
<1> HIDE DEF n
<1>7. CallOk(n, credentials, students, universities, given)
  BY <1>2, <1>3, <1>4, <1>6 DEF CallOk, Cred!MintPc
<1>8. /\ post'[p] = n
      /\ \A q \in Post : q # p =>
           /\ post'[q] = post[q]
           /\ CallOk(post'[q], credentials', students', universities', given')
  BY <1>2, <1>5, OtherCalls
<1>9. ASSUME NEW q \in Post, q # p
      PROVE  i \notin Own(post[q])
  <2>1. CallOk(post[q], credentials, students, universities, given)
    BY DEF IndInv
  <2>2. CASE post[q].pc = "commit"
    BY <1>4, <2>2 DEF Cred!Staged, Cred!At, Own
  <2>3. CASE post[q].pc = "reload" \/ post[q].answer = "created"
    <3>1. PICK j \in Uuid : post[q].rows = {j} /\ RowFor(post[q], j) \in credentials
      BY <2>1, <2>3 DEF CallOk
    <3>2. j \in Cred!Ids(credentials)
      BY <3>1 DEF Cred!Ids, RowFor
    <3> QED
      BY <3>1, <3>2, <1>4 DEF Own
  <2> QED
    BY <2>2, <2>3 DEF Own
<1>10. KeysApart'
  <2>1. Own(n) = {i}
    BY <1>6 DEF Own
  <2>2. \A q \in Post : q # p => Own(post'[q]) = Own(post[q])
    BY <1>8
  <2>3. \A q, r \in Post : q # r => Own(post'[q]) \cap Own(post'[r]) = {}
    BY <2>1, <2>2, <1>8, <1>9 DEF IndInv, KeysApart
  <2>4. \A q \in Post : post'[q].pc = "commit" =>
          post'[q].rows \cap Cred!Ids(credentials') = {}
    BY <1>2, <1>4, <1>6, <1>8 DEF IndInv, KeysApart
  <2> QED
    BY <2>3, <2>4 DEF KeysApart
<1>11. TypeOK'
  BY <1>2, <1>5, <1>6 DEF IndInv, TypeOK, Cred!TypeOK, Up!TypeOK
<1>12. /\ Up!GivenIsPinned' /\ KeysUnique(credentials')
       /\ \A row \in credentials' : RowOk(row, students', universities', given')
       /\ \A u \in Upload : UploadOk(upload'[u])
  BY <1>2 DEF IndInv, Up!GivenIsPinned
<1> QED
  BY <1>2, <1>7, <1>8, <1>10, <1>11, <1>12 DEF IndInv

\* What committing adds: one row, under a key that is nobody else's.
LEMMA CommittedRow ==
  ASSUME IndInv, NEW p \in Post, post[p].pc = "commit"
  PROVE  \E i \in Uuid :
           /\ post[p].rows = {i} /\ i \notin Cred!Ids(credentials)
           /\ Cred!Committed(p) = credentials \cup {RowFor(post[p], i)}
           /\ RowOk(RowFor(post[p], i), students, universities, given)
           /\ KeysUnique(Cred!Committed(p))
           /\ \A q \in Post : q # p /\ post[q].pc = "commit" =>
                post[q].rows \cap Cred!Ids(Cred!Committed(p)) = {}
<1>1. post[p] \in Cred!CredCall /\ CallOk(post[p], credentials, students, universities, given)
  BY DEF IndInv, TypeOK, Cred!TypeOK
<1>2. PICK i \in Uuid : post[p].rows = {i}
  BY <1>1 DEF CallOk
<1>3. i \notin Cred!Ids(credentials)
  BY <1>2 DEF IndInv, KeysApart
<1>4. Cred!Committed(p) = credentials \cup {RowFor(post[p], i)}
  BY <1>2 DEF Cred!Committed, Cred!StagedRow, RowFor
<1>5. RowOk(RowFor(post[p], i), students, universities, given)
  <2>1. /\ post[p].student \in Student /\ post[p].university \in University
        /\ post[p].link \in Cred!Link /\ post[p].link.cid \in given /\ ~post[p].link.padded
        /\ post[p].student \in students /\ post[p].university \in universities
    BY <1>1 DEF CallOk, Cred!MintPc, Cred!CredCall
  <2> QED
    BY <2>1 DEF RowOk, RowFor, Cred!Credential
<1>6. KeysUnique(Cred!Committed(p))
  <2>1. \A r \in credentials : r.id # RowFor(post[p], i).id
    BY <1>3 DEF Cred!Ids, RowFor
  <2> QED
    BY <2>1, <1>4 DEF IndInv, KeysUnique
<1>7. ASSUME NEW q \in Post, q # p, post[q].pc = "commit"
      PROVE  post[q].rows \cap Cred!Ids(Cred!Committed(p)) = {}
  <2>1. Own(post[p]) = {i} /\ Own(post[q]) = post[q].rows
    BY <1>2, <1>7 DEF Own
  <2>2. i \notin post[q].rows /\ post[q].rows \cap Cred!Ids(credentials) = {}
    BY <2>1, <1>7 DEF IndInv, KeysApart
  <2>3. Cred!Ids(Cred!Committed(p)) = Cred!Ids(credentials) \cup {i}
    <3>1. RowFor(post[p], i).id = i
      BY DEF RowFor
    <3> QED
      BY <1>4, <3>1 DEF Cred!Ids
  <2> QED
    BY <2>2, <2>3
<1> QED
  BY <1>2, <1>3, <1>4, <1>5, <1>6, <1>7

LEMMA CommitInv ==
  ASSUME IndInv, NEW p \in Post, Cred!Commit(p), UNCHANGED uploadVars
  PROVE  IndInv'
<1>1. /\ UNCHANGED <<students, universities, pinned, given, upload>> /\ post[p].pc = "commit"
      /\ credentials' = Cred!Committed(p)
  BY DEF Cred!Commit, Cred!At, uploadVars
<1>2. PICK i \in Uuid :
        /\ post[p].rows = {i}
        /\ Cred!Committed(p) = credentials \cup {RowFor(post[p], i)}
        /\ RowOk(RowFor(post[p], i), students, universities, given)
        /\ KeysUnique(Cred!Committed(p))
        /\ \A q \in Post : q # p /\ post[q].pc = "commit" =>
             post[q].rows \cap Cred!Ids(Cred!Committed(p)) = {}
  BY <1>1, CommittedRow
<1> DEFINE n == [post[p] EXCEPT !.pc = "reload"]
<1>3. post[p] \in Cred!CredCall /\ CallOk(post[p], credentials, students, universities, given)
  BY DEF IndInv, TypeOK, Cred!TypeOK
<1>4. post' = [post EXCEPT ![p] = n]
  BY DEF Cred!Commit, Cred!Goto, IndInv, TypeOK, Cred!TypeOK
<1>5. /\ n \in Cred!CredCall /\ n.pc = "reload" /\ n.rows = {i} /\ n.answer = post[p].answer
      /\ n.student = post[p].student /\ n.university = post[p].university
      /\ n.link = post[p].link
  BY <1>2, <1>3 DEF Cred!CredCall, Cred!MintPc
<1> HIDE DEF n
<1>6. RowFor(n, i) = RowFor(post[p], i)
  BY <1>5 DEF RowFor
<1>7. CallOk(n, credentials', students, universities, given)
  BY <1>1, <1>2, <1>3, <1>5, <1>6 DEF CallOk, Cred!MintPc
<1>8. Own(n) \subseteq Own(post[p])
  BY <1>1, <1>2, <1>5 DEF Own
<1>9. \A row \in credentials' : RowOk(row, students, universities, given)
  BY <1>1, <1>2 DEF IndInv
<1> QED
  BY <1>1, <1>2, <1>4, <1>5, <1>7, <1>8, <1>9, CallStep

LEMMA CommitFailsInv ==
  ASSUME IndInv, NEW p \in Post, Cred!CommitFails(p), UNCHANGED uploadVars
  PROVE  IndInv'
<1>1. /\ UNCHANGED <<students, universities, pinned, given, upload>> /\ post[p].pc = "commit"
      /\ credentials' \in {credentials, Cred!Committed(p)} /\ Cred!Reply(p, "500", {})
  BY DEF Cred!CommitFails, Cred!At, uploadVars
<1>2. CASE credentials' = credentials
  BY <1>1, <1>2, ReplyInv
<1>3. CASE credentials' = Cred!Committed(p)
  <2>1. PICK i \in Uuid :
          /\ Cred!Committed(p) = credentials \cup {RowFor(post[p], i)}
          /\ RowOk(RowFor(post[p], i), students, universities, given)
          /\ KeysUnique(Cred!Committed(p))
          /\ \A q \in Post : q # p /\ post[q].pc = "commit" =>
               post[q].rows \cap Cred!Ids(Cred!Committed(p)) = {}
    BY <1>1, CommittedRow
  <2> DEFINE n == [post[p] EXCEPT !.pc = "done", !.answer = "500", !.rows = {}]
  <2>2. post[p] \in Cred!CredCall /\ post' = [post EXCEPT ![p] = n]
    BY <1>1 DEF IndInv, TypeOK, Cred!TypeOK, Cred!Reply
  <2>3. n \in Cred!CredCall /\ n.pc = "done" /\ n.answer = "500"
    BY <2>2 DEF Cred!CredCall, Cred!Outcome
  <2> HIDE DEF n
  <2>4. Own(n) = {} /\ CallOk(n, credentials', students, universities, given)
    BY <2>3 DEF Own, CallOk, Cred!MintPc
  <2>5. \A row \in credentials' : RowOk(row, students, universities, given)
    BY <1>3, <2>1 DEF IndInv
  <2> QED
    BY <1>1, <1>3, <2>1, <2>2, <2>3, <2>4, <2>5, CallStep
<1> QED
  BY <1>1, <1>2, <1>3

LEMMA ReloadInv ==
  ASSUME IndInv, NEW p \in Post, Cred!Reload(p), UNCHANGED uploadVars
  PROVE  IndInv'
<1>1. /\ UNCHANGED <<students, universities, credentials, pinned, given, upload>>
      /\ post[p].pc = "reload"
  BY DEF Cred!Reload, Cred!At, Cred!tables, uploadVars
<1>2. CASE Cred!Reply(p, "500", {})
  BY <1>1, <1>2, ReplyInv
<1>3. ASSUME NEW row \in Cred!Reloaded(p), Cred!Reply(p, "created", {row.id})
      PROVE  IndInv'
  <2>1. post[p] \in Cred!CredCall /\ CallOk(post[p], credentials, students, universities, given)
    BY DEF IndInv, TypeOK, Cred!TypeOK
  <2>2. PICK i \in Uuid : post[p].rows = {i} /\ RowFor(post[p], i) \in credentials
    BY <1>1, <2>1 DEF CallOk
  <2>3. row.id = i
    BY <2>2 DEF Cred!Reloaded
  <2> DEFINE n == [post[p] EXCEPT !.pc = "done", !.answer = "created", !.rows = {i}]
  <2>4. post' = [post EXCEPT ![p] = n]
    BY <1>3, <2>3 DEF Cred!Reply, IndInv, TypeOK, Cred!TypeOK
  <2>5. /\ n \in Cred!CredCall /\ n.pc = "done" /\ n.answer = "created" /\ n.rows = {i}
        /\ n.student = post[p].student /\ n.university = post[p].university
        /\ n.link = post[p].link
    BY <2>1 DEF Cred!CredCall, Cred!Outcome
  <2> HIDE DEF n
  <2>6. RowFor(n, i) = RowFor(post[p], i)
    BY <2>5 DEF RowFor
  <2>7. CallOk(n, credentials, students, universities, given)
    BY <2>2, <2>5, <2>6 DEF CallOk, Cred!MintPc
  <2>8. Own(n) \subseteq Own(post[p])
    BY <1>1, <2>2, <2>5 DEF Own
  <2> QED
    BY <1>1, <2>4, <2>5, <2>7, <2>8, QuietStep
<1> QED
  BY <1>2, <1>3 DEF Cred!Reload

LEMMA SelectInv ==
  ASSUME IndInv, NEW p \in Post, Cred!Select(p), UNCHANGED uploadVars
  PROVE  IndInv'
<1> DEFINE ids == Cred!Ids(Cred!RowsOf(post[p].student))
           n == [post[p] EXCEPT !.pc = "done", !.answer = "listed", !.rows = ids]
<1>1. /\ UNCHANGED <<students, universities, credentials, pinned, given, upload>>
      /\ post[p] \in Cred!CredCall
  BY DEF Cred!Select, Cred!tables, uploadVars, IndInv, TypeOK, Cred!TypeOK
<1>2. ids \subseteq Uuid
  BY DEF Cred!Ids, Cred!RowsOf, IndInv, TypeOK, Cred!TypeOK, Cred!Credential
<1>3. post' = [post EXCEPT ![p] = n]
  BY DEF Cred!Select, Cred!Reply, IndInv, TypeOK, Cred!TypeOK
<1> HIDE DEF ids
<1>4. n \in Cred!CredCall /\ n.pc = "done" /\ n.answer = "listed"
  BY <1>1, <1>2 DEF Cred!CredCall, Cred!Outcome
<1> HIDE DEF n
<1>5. CallOk(n, credentials, students, universities, given) /\ Own(n) = {}
  BY <1>4 DEF CallOk, Cred!MintPc, Own
<1> QED
  BY <1>1, <1>3, <1>4, <1>5, QuietStep

LEMMA StatementFailsInv ==
  ASSUME IndInv, NEW p \in Post, Cred!StatementFails(p), UNCHANGED uploadVars
  PROVE  IndInv'
<1>1. /\ UNCHANGED <<students, universities, credentials, pinned, given, upload>>
      /\ Cred!Reply(p, "500", {})
  BY DEF Cred!StatementFails, Cred!tables, uploadVars
<1> QED
  BY <1>1, ReplyInv

LEMMA EnrollInv ==
  ASSUME IndInv, Cred!Enroll, UNCHANGED uploadVars
  PROVE  IndInv'
<1>1. /\ students \subseteq students' /\ students' \subseteq Student
      /\ universities \subseteq universities' /\ universities' \subseteq University
      /\ UNCHANGED <<credentials, post, pinned, given, upload>>
  BY DEF Cred!Enroll, Cred!EnrollStudent, Cred!EnrollUniversity, uploadVars, IndInv, TypeOK,
         Cred!TypeOK
<1>2. \A row \in credentials' : RowOk(row, students', universities', given')
  BY <1>1, RowOkGrows DEF IndInv
<1>3. ASSUME NEW p \in Post
      PROVE  CallOk(post'[p], credentials', students', universities', given')
  <2>1. CallOk(post[p], credentials, students, universities, given)
    BY DEF IndInv
  <2> QED
    BY <1>1, <2>1, CallOkGrows
<1>4. TypeOK' /\ Up!GivenIsPinned' /\ KeysApart' /\ KeysUnique(credentials')
  BY <1>1 DEF IndInv, TypeOK, Cred!TypeOK, Up!TypeOK, Up!GivenIsPinned, KeysApart
<1> QED
  BY <1>1, <1>2, <1>3, <1>4 DEF IndInv

(***************************************************************************)
(* A step of an upload: its call becomes n, and what it pinned is pinned   *)
(* before it is given.                                                     *)
(***************************************************************************)

LEMMA UploadStep ==
  ASSUME IndInv, NEW u \in Upload, NEW n \in Up!UploadCall,
         upload' = [upload EXCEPT ![u] = n], UploadOk(n), UNCHANGED credVars,
         pinned \subseteq pinned', pinned' \subseteq Cid \cup {None},
         given \subseteq given', given' \subseteq pinned' \cap Cid
  PROVE  IndInv'
<1>1. TypeOK' /\ Up!GivenIsPinned' /\ KeysApart' /\ KeysUnique(credentials')
  BY DEF IndInv, TypeOK, Cred!TypeOK, Up!TypeOK, Up!GivenIsPinned, KeysApart, credVars
<1>2. \A v \in Upload : UploadOk(upload'[v])
  BY DEF IndInv, TypeOK, Up!TypeOK
<1>3. \A row \in credentials' : RowOk(row, students', universities', given')
  BY RowOkGrows DEF IndInv, credVars
<1>4. ASSUME NEW p \in Post
      PROVE  CallOk(post'[p], credentials', students', universities', given')
  <2>1. CallOk(post[p], credentials, students, universities, given)
    BY DEF IndInv
  <2> QED
    BY <2>1, CallOkGrows DEF credVars
<1> QED
  BY <1>1, <1>2, <1>3, <1>4 DEF IndInv

\* Moving on without touching what is pinned or given.
LEMMA UploadSet ==
  ASSUME IndInv, NEW u \in Upload, UNCHANGED <<pinned, given>>, UNCHANGED credVars,
         NEW pc \in {"done", "write", "pin", "remove"}, NEW file \in {"absent", "empty", "written"},
         NEW code \in {"none", "link", "500"},
         Up!Set(u, pc, file, code), pc # "done" => upload[u].body \in Cid,
         pc = "pin" => file = "written"
  PROVE  IndInv'
<1> DEFINE n == [upload[u] EXCEPT !.pc = pc, !.file = file, !.answer = code]
<1>1. upload[u] \in Up!UploadCall /\ upload' = [upload EXCEPT ![u] = n]
  BY DEF IndInv, TypeOK, Up!TypeOK, Up!Set
<1>2. n \in Up!UploadCall /\ n.pc = pc /\ n.file = file /\ n.body = upload[u].body
  BY <1>1 DEF Up!UploadCall, Up!UploadPc
<1> HIDE DEF n
<1>3. UploadOk(n)
  BY <1>2 DEF UploadOk, Up!UploadPc
<1>4. given' \subseteq pinned' \cap Cid /\ pinned' \subseteq Cid \cup {None}
  BY DEF IndInv, TypeOK, Up!TypeOK, Up!GivenIsPinned
<1> QED
  BY <1>1, <1>2, <1>3, <1>4, UploadStep

LEMMA PinInv ==
  ASSUME IndInv, NEW u \in Upload, Up!Pin(u) \/ Up!PinFails(u), UNCHANGED credVars
  PROVE  IndInv'
<1>1. upload[u] \in Up!UploadCall /\ upload[u].pc = "pin" /\ UploadOk(upload[u])
  BY DEF IndInv, TypeOK, Up!TypeOK, Up!Pin, Up!PinFails, Up!At
<1>2. upload[u].body \in Cid /\ Up!Content(u) = upload[u].body
  BY <1>1 DEF UploadOk, Up!UploadPc, Up!Content
<1>3. PICK code \in {"link", "500"} :
        upload' = [upload EXCEPT ![u].pc = "remove", ![u].file = upload[u].file,
                                 ![u].answer = code]
  BY DEF Up!Pin, Up!PinFails, Up!Set
<1> DEFINE n == [upload[u] EXCEPT !.pc = "remove", !.file = upload[u].file, !.answer = code]
<1>4. upload' = [upload EXCEPT ![u] = n]
  BY <1>3 DEF IndInv, TypeOK, Up!TypeOK
<1>5. n \in Up!UploadCall /\ n.pc = "remove" /\ n.body = upload[u].body
  BY <1>1 DEF Up!UploadCall, Up!UploadPc
<1> HIDE DEF n
<1>6. UploadOk(n)
  BY <1>2, <1>5 DEF UploadOk, Up!UploadPc
<1>7. /\ pinned \subseteq pinned' /\ pinned' \subseteq Cid \cup {None}
      /\ given \subseteq given' /\ given' \subseteq pinned' \cap Cid
  BY <1>2 DEF Up!Pin, Up!PinFails, IndInv, TypeOK, Up!TypeOK, Up!GivenIsPinned
<1> QED
  BY <1>4, <1>5, <1>6, <1>7, UploadStep

LEMMA UploadBegins ==
  ASSUME IndInv, NEW u \in Upload, Up!Arrival(u), UNCHANGED credVars
  PROVE  IndInv'
<1>1. given' \subseteq pinned' \cap Cid /\ pinned' \subseteq Cid \cup {None}
      /\ UNCHANGED <<pinned, given>>
  BY DEF IndInv, TypeOK, Up!TypeOK, Up!GivenIsPinned, Up!Arrival, Up!Reject, Up!BeginUpload,
         Up!Begin
<1>2. ASSUME NEW code \in {"400", "401", "empty"}, Up!Reject(u, code)
      PROVE  IndInv'
  <2> DEFINE n == [Up!Idle EXCEPT !.pc = "done", !.answer = code]
  <2>1. n \in Up!UploadCall /\ n.pc = "done"
    BY DEF Up!Idle, Up!UploadCall, Up!UploadPc
  <2>2. upload' = [upload EXCEPT ![u] = n]
    BY <1>2 DEF Up!Reject, Up!Begin
  <2> HIDE DEF n
  <2>3. UploadOk(n)
    BY <2>1 DEF UploadOk, Up!UploadPc
  <2> QED
    BY <1>1, <2>1, <2>2, <2>3, UploadStep
<1>3. ASSUME NEW c \in Cid, Up!BeginUpload(u, c)
      PROVE  IndInv'
  <2> DEFINE n == [Up!Idle EXCEPT !.pc = "create", !.body = c]
  <2>1. n \in Up!UploadCall /\ n.pc = "create" /\ n.body = c
    BY DEF Up!Idle, Up!UploadCall, Up!UploadPc
  <2>2. upload' = [upload EXCEPT ![u] = n]
    BY <1>3 DEF Up!BeginUpload, Up!Begin
  <2> HIDE DEF n
  <2>3. UploadOk(n)
    BY <2>1 DEF UploadOk
  <2> QED
    BY <1>1, <2>1, <2>2, <2>3, UploadStep
<1> QED
  BY <1>2, <1>3 DEF Up!Arrival

LEMMA UploadSideInv ==
  ASSUME IndInv, UploadSide
  PROVE  IndInv'
<1>1. PICK u \in Upload : Up!Step(u) \/ Up!Failure(u) \/ Up!Arrival(u)
  BY DEF UploadSide
<1>2. UNCHANGED credVars
  BY DEF UploadSide
<1>3. /\ upload[u] \in Up!UploadCall
      /\ upload[u].pc \in Up!UploadPc => upload[u].body \in Cid
  BY DEF IndInv, TypeOK, Up!TypeOK, UploadOk
<1>4. CASE Up!Create(u)
  <2>1. upload[u].body \in Cid /\ UNCHANGED <<pinned, given>> /\ Up!Set(u, "write", "empty", "none")
    BY <1>3, <1>4 DEF Up!Create, Up!At, Up!UploadPc
  <2> QED
    BY <1>2, <2>1, UploadSet
<1>5. CASE Up!Write(u)
  <2>1. upload[u].body \in Cid /\ UNCHANGED <<pinned, given>> /\ Up!Set(u, "pin", "written", "none")
    BY <1>3, <1>5 DEF Up!Write, Up!At, Up!UploadPc
  <2> QED
    BY <1>2, <2>1, UploadSet
<1>6. CASE Up!Remove(u)
  <2> DEFINE n == [upload[u] EXCEPT !.pc = "done", !.file = "absent",
                                    !.answer = upload[u].answer]
  <2>1. upload' = [upload EXCEPT ![u] = n] /\ UNCHANGED <<pinned, given>>
    BY <1>6 DEF Up!Remove, Up!Set, IndInv, TypeOK, Up!TypeOK
  <2>2. n \in Up!UploadCall /\ n.pc = "done"
    BY <1>3 DEF Up!UploadCall
  <2> HIDE DEF n
  <2>3. UploadOk(n)
    BY <2>2 DEF UploadOk, Up!UploadPc
  <2>4. given' \subseteq pinned' \cap Cid /\ pinned' \subseteq Cid \cup {None}
    BY <2>1 DEF IndInv, TypeOK, Up!TypeOK, Up!GivenIsPinned
  <2> QED
    BY <1>2, <2>1, <2>2, <2>3, <2>4, UploadStep
<1>7. CASE Up!DiskFails(u)
  <2>1. UNCHANGED <<pinned, given>>
    BY <1>7 DEF Up!DiskFails
  <2>2. CASE Up!At(u, "create") /\ Up!Set(u, "done", "absent", "500")
    BY <1>2, <2>1, <2>2, UploadSet
  <2>3. CASE Up!At(u, "write") /\ Up!Set(u, "remove", "empty", "500")
    <3>1. upload[u].body \in Cid
      BY <1>3, <2>3 DEF Up!At, Up!UploadPc
    <3> QED
      BY <1>2, <2>1, <2>3, <3>1, UploadSet
  <2> QED
    BY <2>2, <2>3, <1>7 DEF Up!DiskFails
<1> QED
  BY <1>1, <1>2, <1>4, <1>5, <1>6, <1>7, PinInv, UploadBegins DEF Up!Step, Up!Failure

(***************************************************************************)
(* Exits, and the composition.                                             *)
(***************************************************************************)

LEMMA KillInv ==
  ASSUME IndInv, Kill
  PROVE  IndInv'
<1>1. /\ UNCHANGED <<students, universities, credentials, pinned, given>>
      /\ post' = [p \in Post |-> Cred!Idle] /\ upload' = [u \in Upload |-> Up!Idle]
  BY DEF Kill, Cred!Kill, Cred!tables, Up!Kill
<1>2. /\ \A p \in Post : post'[p] = Cred!Idle
      /\ \A u \in Upload : upload'[u] = Up!Idle
  BY <1>1
<1>3. TypeOK'
  BY <1>1, IdleOk DEF IndInv, TypeOK, Cred!TypeOK, Up!TypeOK
<1>4. /\ \A p \in Post : CallOk(post'[p], credentials', students', universities', given')
      /\ \A u \in Upload : UploadOk(upload'[u])
  BY <1>2, IdleOk
<1>5. KeysApart'
  BY <1>2, IdleOk DEF KeysApart
<1>6. /\ Up!GivenIsPinned' /\ KeysUnique(credentials')
      /\ \A row \in credentials' : RowOk(row, students', universities', given')
  BY <1>1 DEF IndInv, Up!GivenIsPinned
<1> QED
  BY <1>3, <1>4, <1>5, <1>6 DEF IndInv

LEMMA InitInv == Init => IndInv
<1> SUFFICES ASSUME Init PROVE IndInv
  OBVIOUS
<1>1. /\ \A p \in Post : post[p] = Cred!Idle
      /\ \A u \in Upload : upload[u] = Up!Idle
  BY DEF Init, Cred!Init, Up!Init
<1>2. TypeOK
  BY IdleOk DEF Init, Cred!Init, Up!Init, TypeOK, Cred!TypeOK, Up!TypeOK
<1>3. /\ \A p \in Post : CallOk(post[p], credentials, students, universities, given)
      /\ \A u \in Upload : UploadOk(upload[u])
  BY <1>1, IdleOk
<1>4. KeysApart
  BY <1>1, IdleOk DEF KeysApart
<1>5. /\ Up!GivenIsPinned /\ KeysUnique(credentials)
      /\ \A row \in credentials : RowOk(row, students, universities, given)
  BY DEF Init, Cred!Init, Up!Init, Up!GivenIsPinned, KeysUnique
<1> QED
  BY <1>2, <1>3, <1>4, <1>5 DEF IndInv

LEMMA NextInv == IndInv /\ [Next]_vars => IndInv'
<1> SUFFICES ASSUME IndInv, [Next]_vars PROVE IndInv'
  OBVIOUS
<1>1. CASE UNCHANGED vars
  <2>1. TypeOK' /\ Up!GivenIsPinned' /\ KeysApart'
    BY <1>1 DEF vars, IndInv, TypeOK, Cred!TypeOK, Up!TypeOK, Up!GivenIsPinned, KeysApart
  <2> QED
    BY <1>1, <2>1 DEF vars, IndInv
<1>2. ASSUME NEW p \in Post, Cred!Step(p), UNCHANGED uploadVars
      PROVE  IndInv'
  BY <1>2, LookupInv, InsertInv, CommitInv, ReloadInv, SelectInv DEF Cred!Step
<1>3. ASSUME NEW p \in Post, Cred!Failure(p), UNCHANGED uploadVars
      PROVE  IndInv'
  BY <1>3, StatementFailsInv, CommitFailsInv DEF Cred!Failure
<1>4. CASE CredentialSide
  BY <1>2, <1>3, <1>4, ArrivalInv, EnrollInv DEF CredentialSide
<1> QED
  BY <1>1, <1>4, UploadSideInv, KillInv DEF Next

(***************************************************************************)
(* The registry.                                                           *)
(***************************************************************************)

\* The document of a row.
DocOf(row) == [key |-> row.id, party |-> <<row.university, row.student>>, content |-> row.link]

\* A credential that is committed is one issue.
LEMMA CommitIssues ==
  ASSUME IndInv, NEW p \in Post, post[p].pc = "commit", credentials' = Cred!Committed(p),
         UNCHANGED <<students, universities>>
  PROVE  Cred!Record!Issue
<1>1. PICK i \in Uuid :
        /\ i \notin Cred!Ids(credentials)
        /\ Cred!Committed(p) = credentials \cup {RowFor(post[p], i)}
        /\ RowOk(RowFor(post[p], i), students, universities, given)
  BY CommittedRow
<1> DEFINE r == RowFor(post[p], i)
<1>2. r.id = i /\ credentials' = credentials \cup {r} /\ RowOk(r, students, universities, given)
  BY <1>1 DEF RowFor
<1> HIDE DEF r
<1> DEFINE D == {DocOf(row) : row \in credentials}
<1>3. {DocOf(row) : row \in credentials'} = D \cup {DocOf(r)}
  BY <1>2
<1>4. DocOf(r).key = i /\ DocOf(r).party = <<r.university, r.student>> /\ DocOf(r).content = r.link
  BY <1>2 DEF DocOf
<1>5. DocOf(r).key \notin {e.key : e \in D}
  BY <1>1, <1>4 DEF DocOf, Cred!Ids
<1>6. DocOf(r) \notin D
  BY <1>5
<1>7. DocOf(r).party \in universities \X students
  BY <1>2, <1>4 DEF RowOk
<1>8. DocOf(r) \in Cred!Record!Document
  BY <1>2 DEF RowOk, DocOf, Cred!Record!Document, Cred!Credential
<1> QED
  BY <1>3, <1>5, <1>6, <1>7, <1>8 DEF Cred!Record!Issue, DocOf

LEMMA RegistryNext == IndInv /\ [Next]_vars => [Cred!Record!Next]_(Cred!Record!vars)
<1> SUFFICES ASSUME IndInv, [Next]_vars,
                    ~UNCHANGED <<students, universities, credentials>>
             PROVE  Cred!Record!Next
  BY DEF Cred!Record!vars
<1>1. ASSUME NEW p \in Post, Cred!Commit(p) \/ Cred!CommitFails(p)
      PROVE  Cred!Record!Next
  <2>1. /\ post[p].pc = "commit" /\ UNCHANGED <<students, universities>>
        /\ credentials' = Cred!Committed(p)
    BY <1>1 DEF Cred!Commit, Cred!CommitFails, Cred!At
  <2> QED
    BY <2>1, CommitIssues DEF Cred!Record!Next
<1>2. CASE Cred!Enroll
  <2>1. /\ students \subseteq students' /\ students' \subseteq Student
        /\ universities \subseteq universities' /\ universities' \subseteq University
        /\ UNCHANGED credentials
    BY <1>2 DEF Cred!Enroll, Cred!EnrollStudent, Cred!EnrollUniversity, IndInv, TypeOK, Cred!TypeOK
  <2>2. /\ (universities' \X students') \in SUBSET (University \X Student)
        /\ (universities \X students) \subseteq (universities' \X students')
    BY <2>1
  <2>3. Cred!Record!Admit
    BY <2>1, <2>2 DEF Cred!Record!Admit
  <2> QED
    BY <2>3 DEF Cred!Record!Next
<1>3. ~UploadSide /\ ~Kill /\ ~UNCHANGED vars
  BY DEF UploadSide, credVars, Kill, Cred!Kill, Cred!tables, vars
<1>4. ASSUME NEW p \in Post, Cred!Step(p) \/ Cred!Failure(p) \/ Arrival(p)
      PROVE  Cred!Commit(p) \/ Cred!CommitFails(p)
  BY <1>4 DEF Cred!Step, Cred!FindOrg, Cred!FindUser, Cred!Lookup, Cred!Insert, Cred!Reload,
     Cred!Select, Cred!Failure, Cred!StatementFails, Arrival, Cred!Reject, Cred!BeginList,
     Cred!BeginMint, Cred!Begin, Cred!tables
<1> QED
  BY <1>1, <1>2, <1>3, <1>4 DEF Next, CredentialSide

(***************************************************************************)
(* The theorems.                                                           *)
(***************************************************************************)

\* The invariant holds of every behaviour.
THEOREM Invariance == Spec => []IndInv
BY InitInv, NextInv, PTL DEF Spec

\* The variables of both components have their types.
THEOREM TypeCorrect == Spec => []TypeOK
<1>1. IndInv => TypeOK
  BY DEF IndInv
<1> QED
  BY <1>1, Invariance, PTL

\* Every stored link is bare and names content that is pinned.
THEOREM LinksArePinned == Spec => []LinkIsPinned
<1>1. IndInv => LinkIsPinned
  BY DEF IndInv, RowOk, LinkIsPinned, Up!GivenIsPinned
<1> QED
  BY <1>1, Invariance, PTL

\* A 201 carries the request's own stored row, which no other 201 carries.
THEOREM CreatedAreOwn == Spec => []CreatedIsOwn
<1>1. ASSUME IndInv PROVE CreatedIsOwn
  <2>1. ASSUME NEW p \in Post, post[p].answer = "created"
        PROVE  \E i \in Uuid : post[p].rows = {i} /\ RowFor(post[p], i) \in credentials
    BY <1>1, <2>1 DEF IndInv, CallOk
  <2>2. ASSUME NEW p \in Post, post[p].answer = "created"
        PROVE  \E row \in credentials :
                 post[p].rows = {row.id} /\ row = Cred!StagedRow(p, row.id)
    BY <2>1, <2>2 DEF RowFor, Cred!StagedRow
  <2>3. ASSUME NEW p \in Post, NEW q \in Post, p # q,
               post[p].answer = "created", post[q].answer = "created"
        PROVE  post[p].rows # post[q].rows
    BY <1>1, <2>1, <2>3 DEF IndInv, KeysApart, Own
  <2> QED
    BY <2>2, <2>3 DEF CreatedIsOwn, Cred!CreatedIsOwn
<1> QED
  BY <1>1, Invariance, PTL

\* The credentials table is an append-only registry between registered parties.
THEOREM CredentialsImplementRegistry == Spec => ImplementsRegistry
<1>1. Init => Cred!Record!Init
  BY DEF Init, Cred!Init, Cred!Record!Init
<1> QED
  BY <1>1, RegistryNext, Invariance, PTL
     DEF Spec, ImplementsRegistry, Cred!ImplementsRegistry, Cred!Record!Spec

\* The app is a client Credentials may have: its links are links, an upload is a
\* stutter, and an exit takes the posts as it does there (cred.go:18-173).
THEOREM IssuanceImplementsCredentials == Spec => ImplementsCredentials
<1>1. Init => Cred!Init
  BY DEF Init
<1>2. IndInv /\ [Next]_vars => [Cred!Next]_(Cred!vars)
  <2> SUFFICES ASSUME IndInv, [Next]_vars PROVE Cred!Next \/ UNCHANGED Cred!vars
    OBVIOUS
  <2>1. AnsweredLink \subseteq Cred!Link
    BY DEF AnsweredLink, Cred!Link, IndInv, TypeOK, Up!TypeOK
  <2>2. ASSUME NEW p \in Post, Arrival(p) PROVE Cred!Arrival(p)
    BY <2>1, <2>2 DEF Arrival, Cred!Arrival
  <2>3. CASE CredentialSide
    BY <2>2, <2>3 DEF CredentialSide, Cred!Next
  <2>4. CASE UploadSide \/ UNCHANGED vars
    BY <2>4 DEF UploadSide, credVars, vars, Cred!vars
  <2>5. CASE Kill
    BY <2>5 DEF Kill, Cred!Next
  <2> QED
    BY <2>3, <2>4, <2>5 DEF Next
<1> QED
  BY <1>1, <1>2, Invariance, PTL DEF Spec, ImplementsCredentials, Cred!Spec

\* A post of a credential is nothing an upload could notice (createJson.go:11-41).
THEOREM IssuanceImplementsUploads == Spec => ImplementsUploads
<1>1. Init => Up!Init
  BY DEF Init
<1>2. [Next]_vars => [Up!Next]_(Up!vars)
  BY DEF Next, UploadSide, CredentialSide, Kill, uploadVars, vars, Up!Next, Up!vars
<1> QED
  BY <1>1, <1>2, PTL DEF Spec, ImplementsUploads, Up!Spec
=============================================================================
