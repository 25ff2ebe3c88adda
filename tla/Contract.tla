------------------------------ MODULE Contract ------------------------------
(***************************************************************************)
(* vericredNFT (contracts/mint.sol), the ERC-721 contract whose verified   *)
(* organizations mint documents.  One action is one transaction that was   *)
(* executed and did not revert.                                            *)
(*                                                                         *)
(* mint.sol does not compile as it stands (owner is declared twice, the    *)
(* event of newOrg not at all); what Deploy deploys is the bytecode of     *)
(* internal/eth/build/build.go, an earlier version whose constructor sets  *)
(* owner to the deployer and whose newOrg lacks the two checks of          *)
(* mint.sol:42-43.  Which version is at C.cAddress is left open: guarded.  *)
(***************************************************************************)
EXTENDS Naturals, Sequences

CONSTANTS
  Address,  \* the wallets that send and receive
  Owner,    \* the deployer, one of them
  Zero,     \* address(0), none of them
  Uri       \* token URIs

VARIABLES
  guarded,   \* newOrg has the checks of mint.sol:42-43
  listed,    \* verifiedOrgs, as the set of the addresses mapped to true
  orgs,      \* Orgs
  tokenIds,  \* _tokenIds
  docs       \* the tokens

state == <<guarded, listed, orgs, tokenIds, docs>>

\* by is msg.sender of the mintDoc, which the contract does not store.
Doc == [id : Nat \ {0}, by : Address, holder : Address, uri : Uri]

TypeOK ==
  /\ guarded \in BOOLEAN
  /\ listed \subseteq Address \cup {Zero}
  /\ orgs \in Seq(Address \cup {Zero})
  /\ tokenIds \in Nat
  /\ docs \subseteq Doc

Init ==
  /\ guarded \in BOOLEAN
  /\ listed = {} /\ orgs = <<>>
  /\ tokenIds = 0 /\ docs = {}

\* Mutant of NewOrgOk: the duplicate check is missing from the source too.
NewOrgOkUnlisted(sender, o) == sender = Owner /\ (guarded => o # Zero)

\* newOrg does not revert.
NewOrgOk(sender, o) ==
  /\ sender = Owner
  /\ guarded => o # Zero /\ o \notin listed

NewOrg(sender, o) ==
  /\ NewOrgOk(sender, o)
  /\ listed' = listed \cup {o}
  /\ orgs' = Append(orgs, o)
  /\ UNCHANGED <<guarded, tokenIds, docs>>

\* Mutant of MintDocOk: the organization is not required to be listed.
MintDocOkUnlisted(sender, user) == user # Zero

\* mintDoc does not revert; _mint refuses address(0).
MintDocOk(sender, user) == sender \in listed /\ user # Zero

\* Mutant of NextId: the id is taken before the counter is incremented.
NextIdBefore == tokenIds

NextId == tokenIds + 1

MintDoc(sender, user, u) ==
  /\ MintDocOk(sender, user)
  /\ tokenIds' = tokenIds + 1
  /\ docs' = docs \cup {[id |-> NextId, by |-> sender, holder |-> user, uri |-> u]}
  /\ UNCHANGED <<guarded, listed, orgs>>

\* ERC-721's transferFrom, by the holder or whoever it approved.
Transfer(d, to) ==
  /\ d \in docs
  /\ docs' = (docs \ {d}) \cup {[d EXCEPT !.holder = to]}
  /\ UNCHANGED <<guarded, listed, orgs, tokenIds>>

Next ==
  \/ \E sender \in Address, o \in Address \cup {Zero} : NewOrg(sender, o)
  \/ \E sender \in Address, user \in Address, u \in Uri : MintDoc(sender, user, u)
  \/ \E d \in docs, to \in Address : Transfer(d, to)

Spec == Init /\ [][Next]_state

-----------------------------------------------------------------------------
(* Properties. *)

\* The tokens are numbered from 1 without gaps and each number is one token's,
\* whatever reverted in between, so currentTokenId is the number of documents
\* and the id of the last (mint.sol:19-24).
TokensDense ==
  /\ {d.id : d \in docs} = 1..tokenIds
  /\ \A d, e \in docs : d.id = e.id => d = e

\* allOrgs and isVerfiedOrg agree; with the checks of the source an organization
\* is listed once and address(0) never (mint.sol:40-46).
OrgsSound ==
  /\ listed = {orgs[i] : i \in DOMAIN orgs}
  /\ guarded => /\ Zero \notin listed
                /\ \A i, j \in DOMAIN orgs : orgs[i] = orgs[j] => i = j

\* The tokens as a registry: no document by an organization that was not listed
\* first; id, issuer and URI are for good, only the holder changes.
Record == INSTANCE Registry WITH
            Party     <- Address \cup {Zero},
            Key       <- Nat \ {0},
            Content   <- Uri,
            parties   <- listed,
            documents <- {[key |-> d.id, party |-> d.by, content |-> d.uri] : d \in docs}
ImplementsRegistry == Record!Spec
=============================================================================
