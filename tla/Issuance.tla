------------------------------ MODULE Issuance ------------------------------
(***************************************************************************)
(* Issuing a credential, as README.md:35-36 and 63-66 tell it: the         *)
(* university uploads the metadata, is answered a link, and posts the      *)
(* credential with it.  Uploads and Credentials in one process, behind one *)
(* router (internal/router/router.go:25, 43); an exit takes both.          *)
(*                                                                         *)
(* The client is the app: it posts links that it was answered, with or     *)
(* without the line feed that UploadToIPFS puts at their end.              *)
(***************************************************************************)
EXTENDS FiniteSets, Naturals

CONSTANTS Student, University, Cid, Uuid, Post, Upload, None, Faults  \* as there

ASSUME IssuanceAssumption == /\ None \notin Student \cup University \cup Cid
                             /\ Faults \in BOOLEAN

VARIABLES students, universities, credentials, post, pinned, given, upload

Cred == INSTANCE Credentials
Up   == INSTANCE Uploads

vars == <<students, universities, credentials, post, pinned, given, upload>>

uploadVars == <<pinned, given, upload>>
credVars   == <<students, universities, credentials, post>>

Init == Cred!Init /\ Up!Init

\* A request to the upload.
UploadSide ==
  /\ \E u \in Upload : Up!Step(u) \/ Up!Failure(u) \/ Up!Arrival(u)
  /\ UNCHANGED credVars

\* The link the app posts.
AnsweredLink == [cid : given, padded : BOOLEAN]

\* A credential, or a list.
Arrival(p) ==
  \/ \E code \in {"400", "401", "empty"} : Cred!Reject(p, code)
  \/ \E st \in Student : Cred!BeginList(p, st)
  \/ \E st \in Student, un \in University, l \in AnsweredLink : Cred!BeginMint(p, st, un, l)

CredentialSide ==
  /\ (\E p \in Post : Cred!Step(p) \/ Cred!Failure(p) \/ Arrival(p)) \/ Cred!Enroll
  /\ UNCHANGED uploadVars

Kill == Cred!Kill /\ Up!Kill

Next == UploadSide \/ CredentialSide \/ Kill

Spec == Init /\ [][Next]_vars

\* Every handler's next statement is taken; a call that keeps failing is
\* answered too.
LiveSpec == /\ Spec
            /\ \A p \in Post : WF_vars(Cred!Step(p) /\ UNCHANGED uploadVars)
            /\ \A u \in Upload : WF_vars(Up!Step(u) /\ UNCHANGED credVars)

-----------------------------------------------------------------------------
(* Properties; those of the two components are stated over the whole. *)

TypeOK == Cred!TypeOK /\ Up!TypeOK

\* Whoever resolves a credential's link finds its metadata: it is a bare link to
\* content that is pinned, through failed uploads, retries and exits
\* (createJson.go:35, uploadtoIPFS.go:21, cred.go:111).
LinkIsPinned ==
  \A row \in credentials : row.link.cid \in pinned \cap Cid /\ ~row.link.padded

\* The promises of Credentials with the links the app posts: a 201 carries the
\* client's own stored row (cred.go:160-173).
CreatedIsOwn == Cred!CreatedIsOwn

\* The table is an append-only registry between registered universities and
\* registered students (cred.go:122-160).
ImplementsRegistry == Cred!ImplementsRegistry

\* The two handlers meet in nothing but the app: to the credentials an upload is
\* nobody's step, to the uploads a credential is, and the links the app posts are
\* among those anybody could (router.go:25, 43).
ImplementsCredentials == Cred!Spec
ImplementsUploads     == Up!Spec

\* Every request of either kind is answered, or lost with the process.
EveryRequestAnswered == Cred!EveryPostAnswered /\ Up!EveryUploadAnswered
=============================================================================
