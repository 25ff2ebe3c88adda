------------------------------- MODULE Uploads -------------------------------
(***************************************************************************)
(* Metadata uploads (internal/eth/ipfs): CreateJSONFileAndStoreToIPFS      *)
(* writes the request's body to a temporary file, has UploadToIPFS pin the *)
(* file at Pinata, answers the link and removes the file.                  *)
(*                                                                         *)
(* os.CreateTemp gives every upload a file name of its own, so the file is *)
(* part of the upload.                                                     *)
(***************************************************************************)
CONSTANTS
  Cid,     \* IPFS content identifiers; a body stands for the identifier it gets
  Upload,  \* slots for uploads in flight
  None,    \* no content: the identifier of an empty file
  Faults   \* TRUE: a call may fail and the process may be killed

VARIABLES
  pinned,  \* what Pinata holds
  given,   \* the identifiers in the links clients were answered
  upload   \* the uploads in flight

vars == <<pinned, given, upload>>

UploadPc   == {"create", "write", "pin", "remove"}
UploadCall == [pc     : {"idle", "done"} \cup UploadPc,
               body   : Cid \cup {None},
               file   : {"absent", "empty", "written"},
               answer : {"none", "link", "400", "401", "empty", "500"}]

Idle == [pc |-> "idle", body |-> None, file |-> "absent", answer |-> "none"]

TypeOK ==
  /\ pinned \subseteq Cid \cup {None}
  /\ given \subseteq Cid \cup {None}
  /\ upload \in [Upload -> UploadCall]

Init ==
  /\ pinned = {} /\ given = {}
  /\ upload = [u \in Upload |-> Idle]

At(u, pc)   == upload[u].pc = pc
Set(u, pc, file, code) ==
  upload' = [upload EXCEPT ![u].pc = pc, ![u].file = file, ![u].answer = code]
Free(u)     == upload[u].pc \in {"idle", "done"}
InFlight(u) == ~Free(u)

-----------------------------------------------------------------------------
Begin(u, call) ==
  /\ Free(u)
  /\ upload' = [upload EXCEPT ![u] = call]
  /\ UNCHANGED <<pinned, given>>

BeginUpload(u, c) == Begin(u, [Idle EXCEPT !.pc = "create", !.body = c])

\* A body that cannot be read; no token, or one that does not verify.
Reject(u, code) == Begin(u, [Idle EXCEPT !.pc = "done", !.answer = code])

Create(u) ==
  /\ At(u, "create")
  /\ Set(u, "write", "empty", "none")
  /\ UNCHANGED <<pinned, given>>

Write(u) ==
  /\ At(u, "write")
  /\ Set(u, "pin", "written", "none")
  /\ UNCHANGED <<pinned, given>>

\* What PinFile finds in the file.
Content(u) == IF upload[u].file = "written" THEN upload[u].body ELSE None

\* PinFile, then "https://ipfs.io/ipfs/%s\n" with the hash Pinata answers.
Pin(u) ==
  /\ At(u, "pin")
  /\ pinned' = pinned \cup {Content(u)}
  /\ given' = given \cup {Content(u)}
  /\ Set(u, "remove", upload[u].file, "link")

\* The deferred Close and Remove, on every path that created the file.
Remove(u) ==
  /\ At(u, "remove")
  /\ Set(u, "done", "absent", upload[u].answer)
  /\ UNCHANGED <<pinned, given>>

-----------------------------------------------------------------------------
(* Failures. *)

\* Mutant of DiskFails: the error of the write is dropped, as UploadFile does.
DiskFailsSilently(u) ==
  /\ Faults
  /\ \/ At(u, "create") /\ Set(u, "done", "absent", "500")
     \/ At(u, "write") /\ Set(u, "pin", "empty", "none")
  /\ UNCHANGED <<pinned, given>>

DiskFails(u) ==
  /\ Faults
  /\ \/ At(u, "create") /\ Set(u, "done", "absent", "500")
     \/ At(u, "write") /\ Set(u, "remove", "empty", "500")
  /\ UNCHANGED <<pinned, given>>

\* The call to Pinata fails, whether or not the file was pinned.
PinFails(u) ==
  /\ Faults
  /\ At(u, "pin")
  /\ pinned' \in {pinned, pinned \cup {Content(u)}}
  /\ Set(u, "remove", upload[u].file, "500")
  /\ UNCHANGED given

\* The process exits; a temporary file it had is left behind and never read.
Kill ==
  /\ Faults
  /\ upload' = [u \in Upload |-> Idle]
  /\ UNCHANGED <<pinned, given>>

-----------------------------------------------------------------------------
Step(u)    == Create(u) \/ Write(u) \/ Pin(u) \/ Remove(u)
Failure(u) == DiskFails(u) \/ PinFails(u)
Arrival(u) == \/ \E code \in {"400", "401", "empty"} : Reject(u, code)
              \/ \E c \in Cid : BeginUpload(u, c)

Next == (\E u \in Upload : Step(u) \/ Failure(u) \/ Arrival(u)) \/ Kill

Spec == Init /\ [][Next]_vars

-----------------------------------------------------------------------------
(* Properties. *)

\* A link that a client was answered names content that was uploaded and is
\* pinned: never an empty or half-written file, and never one that Pinata
\* refused (createJson.go:30-39).
GivenIsPinned == given \subseteq pinned \cap Cid

\* Every upload is answered, or lost with the process.
EveryUploadAnswered == \A u \in Upload : InFlight(u) ~> Free(u)
=============================================================================
