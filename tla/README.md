# A verification project for the VeriCred backend

VeriCred is a Go web server (chi, GORM over PostgreSQL, Redis, JWT) through which
students and universities log in with a wallet, register, request and approve
verification, record credentials and follow the minting transactions of an ERC-721
contract. This directory holds TLA+ models of its stateful parts, the TLC runs that
check them, and TLAPS proofs about them. Line references are to the repository.

## 1. Inventory

Every request runs in a goroutine of its own and every handler is a chain of
separate SQL, Redis, HTTP or file calls. Nothing in the server is locked, one
transaction (`cred.go:152`) is explicit, and the only shared state is outside the
process: the database, Redis, Pinata, the chain, and the tokens the clients hold.
What is hard is therefore what another request, a failure, or the death of the
process does *between two statements* of a handler.

| Component | State | Operations | Correct when | Modelled |
|---|---|---|---|---|
| Login (`account.go`, `nonce.go`, `redis.go`, `utils.go`) | Redis nonces with a TTL, `accounts`, JWTs | GetNonce, health probe, LoginInMetamask | a token is only held for an address with an account, by a signer of a nonce stored for it; a verified login gets its session | `Sessions`, `Login` |
| Registration (`user.go`, `org.go`) | `accounts`, `users`, `organizations` | CreateUser, CreateUniversity | an account names its own wallet's profile; an organization's wallet that never posts to CreateUser is linked in the end; nobody is signed in without a row | `Tables`, `Registration` |
| Both in one process (`router.go`, `main.go`) | all of the above | the routes | login is the environment Registration assumes | `Identity` |
| Pending requests (`pendingrequest.go`) | `pending_requests` | create, list, approve | duplicates are bounded, an approval settles a pair, rows are approved once and by their own university | `Approval`, `PendingRequests` |
| Credentials (`cred.go`) | `credentials`, open transactions | MintCredentials, UserCreds, ShowSearchedUserCreds | a 201 carries the client's own committed row; the table is append-only | `Registry`, `Credentials` |
| Uploads and IPFS (`eth/ipfs/`) | temporary files, what Pinata pins | CreateJSONFileAndStoreToIPFS, UploadToIPFS | an answered link leads to the uploaded content | `Uploads` |
| Both in one process (`router.go`) | all of the above | the routes | the link of every stored credential leads to its metadata | `Issuance` |
| Transaction records (`transactions.go`) | `transactions` | SetTransactionInfo, ShowAllTransactions | a row's number and time are of blocks the chain had, and of the transaction's own block if it stayed there; what is reported is recorded | `Transactions` |
| Token contract (`mint.sol`, `build.go`) | `verifiedOrgs`, `Orgs`, `_tokenIds`, tokens | newOrg, mintDoc, transfer | only listed organizations mint, ids are dense and unique, the two lists agree | `Registry`, `Contract` |
| Chain client (`eth/contract.go`) | the key's nonce, the pool | Deploy, NewOrg, MintDoc, views | the pool is never held up, calls in sequence execute in sequence, what is reported is accounted for | `ChainClient` |
| Auth middleware (`middleware.go`) | none | check a JWT | handlers see the address of a valid token | in `Begin`, `Refuse`, `Reject` |
| Schema (`models.go`, `db.go`) | tables and constraints | migrate at start | - | constraints used are in `Tables` |
| Read endpoints, QR code, UploadFile, logging, scripts, generated bindings | none of their own | - | - | not modelled (section 8) |

Interaction: Login creates the `accounts` row that both profile handlers look up,
and each of those ends the *whole process* with `log.Fatalf` on any error of the
lookup (`user.go:46`, `org.go:124`), a missing row among them, which takes every other
component's requests along;
so do the `os.Exit` calls of `transactions.go:55-73`. Registration creates the
profiles that PendingRequests and Credentials look up. An upload answers a link that
the app posts with the credential and passes to `mintDoc`. The chain client is a
library no handler imports; its transactions are those that universities mint next
to, from their own wallets, and that SetTransactionInfo later records.
PROJECT.json lists the hazards at their lines with the properties that cover them.

## 2. Modules

- `Tables` - rows, UNIQUE constraints, the UPDATE of an account's owner.
- `Sessions` - abstract: which addresses are known and which hold a token.
- `Login` - the nonce endpoint, Redis, `LoginInMetamask`; refines `Sessions`.
- `Registration` - `CreateUser` and `CreateUniversity`, logging in as environment.
- `Identity` - the two composed; implements `Registration!Spec`.
- `Approval` - abstract: the pairs that asked and the pairs that were granted.
- `PendingRequests` - create, list, approve; refines `Approval`.
- `Registry` - abstract: an append-only record of documents, each with a key of its
  own and of a party that was admitted before. Refined by every table that only grows
  and by the tokens.
- `Credentials` - `MintCredentials` and the two lists; refines `Registry` (a party is a
  university with a student, a document a credential).
- `Uploads` - the temporary file, the pin, the link.
- `Issuance` - the two composed: the links posted are links that were answered.
- `Transactions` - `SetTransactionInfo`, with Etherscan and a chain that moves on.
- `Contract` - `newOrg`, `mintDoc` and transfers; refines `Registry` (a party is a
  listed organization, a document a token).
- `ChainClient` - the client's calls, the pool and the blocks, over one `Contract`.
- `X_proofs` - the theorems about module `X`: `Registration`, `Login`, `Identity`,
  `PendingRequests`, `Issuance`, `Transactions`, `Contract`, `ChainClient`.
- `MC*` - constants and symmetry of the TLC runs.

How a handler is modelled. A request in flight is a record in a slot: `pc` names
the statement it is about to run (`u_save` is `db.DB.Save` at `user.go:56`), the
other fields are what it has read so far. One action is one statement and the code
up to the next one, so any other request can run in between. Validation that
precedes the first statement is part of the arrival: what passes begins, what does
not is `Refuse`/`Reject`. After the answer the slot keeps address and answer, which
the properties read, until it is reused. `Create(&user)` is a single action, since
GORM runs the insert and the association's upsert in one transaction. Each slot may
serve any number of requests. A write that reports an error may or may not have been
committed; `Kill` is the process ending at any point (a signal, or the `os.Exit`
calls of `transactions.go:55-73`), which loses the slots and keeps the tables. These
failures are enabled by the constant `Faults`.

The explicit transaction of `MintCredentials` is a row that only its own request
holds (`Staged`) until `Commit` puts it into the table; a commit that reports an
error may have been done, and `Kill` rolls back. An upload's file is `absent`,
`empty` or `written` and belongs to the upload, since `os.CreateTemp` names every file
anew. In `Transactions` the chain is a set of blocks, each with a height and
its transactions. It grows, and a reorganization takes blocks off it, between the two
calls of a request as well. The second call asks for a block *by number*
(`transactions.go:106`), so it is answered with whatever block has that height by then,
or with null, on which `:120` panics. The first answer may be an error object, which
decodes to an empty result (`:69`). `seen` (every block there ever was) and `steady`
(the transaction was in one block all along and no error was answered) are history
variables that only properties read. `signed` in `Identity` is one too: every signature
a login has presented.

In `ChainClient` a call is one invocation, in the order of beginning. `bind` reads
the pending nonce in one call and submits in another, so two calls may hold the same
nonce; the node then refuses the second or puts it in the first one's place, with a
higher gas price. `NewOrg` and `MintDoc` return on submission, `Deploy` waits for its
receipt. Blocks take the key's transactions in the order of nonces and execute them
or revert. A `log.Fatal` ends the process under all calls in flight, while the pool
and the chain go on. `guarded` chooses between the two versions of the contract.

Abstractions. Names, URLs and other columns no handler compares are left out.
Addresses are model values: an address string as the client spells it; `WalletOf`
says whose it is, because `VerifySignature` compares with `EqualFold` while the
database compares exactly. A signature is who signed and what. `accounts.owner_type`
keeps its four real values. A JWT is the fact that an address holds a valid one;
two tokens of one address are not told apart. In `PendingRequests` a row names the
wallets instead of their ids, which is sound because a wallet has at most one
profile of each kind and keeps it (proved: `ProfilesAreRecords`). A nonce whose SET failed
(`nonce.go:26` ignores it) is a nonce Redis never had, so that failure changes no
state.

## 3. Properties

Registration
- `LinkSound`: an account that names an owner names an existing profile of its own
  wallet - across stale copies, lost races, torn failures and crashes.
- `AccountAlwaysFound`: whoever holds a token or is in a handler has an accounts row. The
  lookups of `user.go:46` and `org.go:124` end the server on *any* error; this leaves them
  the errors of the database, and no client ends the server by being unknown.
- `CreatedMeansStored`: a 201 reports a row that is there.
- `LinksMovedByOwner` (action): an account changes only in a saving statement of a
  request of its own wallet, and is never lost.
- `UnlinkedOnlyInFlight` (fault-free): an account that was never saved, though its wallet
  has an organization, is only seen while a request of the wallet is about to save it.
- `OrgGetsLinked` (fault-free): a wallet that has an organization, and never posts to
  `CreateUser`, has its account linked to the organization in the end, for good. The
  condition is needed: finding 1 of section 5 is a `CreateUser` that undoes a link.
- `EveryRequestAnswered` (fault-free): no admitted request ends unanswered.
- Proved only: `KeepsSessions` (the handlers lose nobody's account) and
  `ProfilesAreRecords` (each profile table refines `Registry`, one row a wallet).
- `LinkedWhenQuiet`: what README.md:53 says; violated (section 5).

Login
- `TokenHasAccount`: tokens, and requests about to get one, have an account.
- `SessionWasChallenged`: past the signature check, the wallet signed a nonce that
  was stored under exactly this spelling of its address; `challenged` is a history
  variable of everything ever stored. A nonce that was read before it was replaced or
  expired still verifies, and the property allows it.
- `ImplementsSessions`: refinement of `Sessions`.
- `RetrySucceeds` (fault-free): a 500 means the row is there by now.
- `EveryLoginAnswered` (fault-free): every login ends, and only one whose signature is too
  short for `sig[64]` (`utils.go:89`) ends in a closed connection instead of an answer.
- `VerifiedGetsSession` is violated (section 5).

Identity
- `ImplementsRegistration`: the composition refines Registration, so the login
  handler really is the environment Registration was checked and proved with, and
  `LinkSound`, `AccountAlwaysFound` and the others hold in the joint process.
- `ProfileWasChallenged`: for whoever has a profile, a login presented a signature, by the
  wallet of the profile's address, of a nonce stored for that address - a property of
  neither component alone.

PendingRequests
- `OpenBounded`: open requests of a pair plus creations past their duplicate check
  never exceed the number of concurrent calls; a lost answer and a retry add none.
- `ImplementsApproval`: one approval removes all that a pair has open.
- `ApprovedOnce`: no row is counted by two approvals; counted rows stay approved.
- `AnswersNameOwnRows`: the rows an answer carries are the caller's.
- `OnlyTheOrgApproves` (action): only the row's own university, for its own student;
  nothing is lost or un-approved.
- Proved only: `ImplementsRecord`: but for their approval the rows are a `Registry` of
  pairs that both have profiles.
- `EveryCallAnswered`; `NoDuplicatePending` is violated (section 5), and proved for a
  server with one slot.

Issuance
- `LinkIsPinned`: whoever resolves a stored credential's link finds content that was
  uploaded and pinned; the line feed `UploadToIPFS` ends it with is gone.
- `CreatedIsOwn`: a 201 carries a committed row with the client's own wallets and link,
  and no two 201s the same row, although the row is read back after the commit.
- `ImplementsRegistry`: refinement of `Registry`: both profiles were there before the
  credential, keys are unique, nothing changes or goes.
- Proved only: `ImplementsCredentials` and `ImplementsUploads`: the composition refines
  both of its parts.
- `EveryRequestAnswered`, with failing calls and a dying process.

Transactions
- `RowsFromChain`: the number of a row is of a block its transaction was in, and the time
  that of a block of the same number - after a reorganization between the two answers not
  always the same block.
- `RecordedIsStored`: who is told "recorded" has a row of its own, and if the transaction
  was in one block all along and no error was answered, the row names it, its number
  and the time of that very block.
- Proved only: `ImplementsArchive`: the rows with a block number are a `Registry` of numbers
  that transactions have been mined at.
- `EverySaveAnswered`: every request ends; the panic of `:120` is an end.

ChainClient
- `ContractSound`: token ids are 1..n, each once; `Orgs` and `verifiedOrgs` agree; with
  the checks of `mint.sol` no organization is listed twice and address(0) never.
- `OrderKept`: without evictions, a call begun after another returned is not executed
  before it. TLC shows that the condition is needed: with three calls an eviction
  leaves a gap that the next call fills.
- `ReturnedIsAccountedFor`: what was reported as sent is in a block, waits, or was
  evicted or replaced by a transaction with its nonce, which itself is in a block,
  waits or was evicted.
- `ImplementsRegistry`: refinement of `Registry` by the tokens.
- `NeverHeldUp`: without evictions a pool that is not empty holds the next nonce, so that
  a block can take one; a waiting `Deploy` waits for a transaction that can still be
  mined, or was, or lost its nonce to a rival.
- Proved only: `ImplementsContract` (the client refines the contract).
- `SubmittedSettles` (liveness): without evictions the pool empties, and only a
  `Deploy` whose transaction was replaced waits for ever.

## 4. Runs and bounds

| Run | Instance | Faults | Shows |
|---|---|---|---|
| `registration_faults` | 2 addresses, 2 e-mails, 2 ids, 2 slots | yes | safety of Registration |
| `registration_live` | 2 addresses, 1 contested e-mail, 2 slots | no | liveness of Registration |
| `registration_email` | as first, 1 slot | no | violation of `LinkedWhenQuiet` |
| `login_race` | 2 spellings of one wallet and a stranger, 2 nonces, 2 slots | yes | safety and refinement of Login |
| `login_live` | as above, 1 nonce | no | liveness of Login, `RetrySucceeds` |
| `login_first` | as above | no | violation of `VerifiedGetsSession` |
| `identity_compose` | 2 wallets (one registers), 1 slot per side | yes | the composition |
| `pending_requests` | 1 student, 2 universities, 3 rows, 2 slots | yes | safety, refinement, liveness |
| `pending_duplicate` | 1 pair, 2 rows, 2 slots | no | violation of `NoDuplicatePending` |
| `issuance` | 1 pair, 2 contents, 2 rows, 2 posts, 1 upload | yes | safety, refinement, liveness of Issuance |
| `transactions` | 1 hash, 3 blocks at 2 heights, 2 rows, 2 slots | yes | safety and liveness of Transactions |
| `chain` | 3 calls, the owner and an organization, both contracts | yes | safety, refinement, liveness of ChainClient |

Two slots are what it takes for one handler to run between two statements of another;
slots are reused without limit, so a third request follows either. Two wallets and a
contested e-mail address reach both UNIQUE conflicts. As many ids as addresses suffice:
each table has at most one row per address. Two nonces let one overwrite the other while
a login is under way. Three pending rows exceed the two slots, so that `OpenBounded`
could fail. Two contents let a credential be read back as another's; one pair makes all
posts collide on it. Of the three blocks one has the hash at height 1, one replaces it
there without the hash and one has it at height 2, so that a transaction leaves a block,
its number becomes another block's or vacant, and it is mined again. Three chain calls
let the last fill the nonce that an eviction in the middle of the pool left free.

Explicit bounds: `UuidsLeft` (PendingRequests, Credentials, Transactions) admits a
creation when a row is left for it; `MaxCalls` is the number of invocations of the
chain client, each of which happens once; `MaxDocs` is how many documents there may be
for an organization to mint from its own wallet. Symmetry is used only in runs without
liveness properties, over slots, ids and nonces, which no property distinguishes. Only
`chain` turns deadlock checking off: its calls are used up in the end.

Fairness: weak fairness of `Step` for every slot, in `LiveSpec`. net/http gives each
request a goroutine, the Go scheduler starves none, and no statement waits for another
request; so a handler that can run its next statement eventually does. Of the remote
services it is assumed that Redis, PostgreSQL, Etherscan, Pinata and the node answer or
the connection breaks: `http.Get` (`transactions.go:55`, `:107`), the Pinata client and
the node's client have no timeout of their own, so that without this assumption a
request could hang for ever. `ChainClient` adds weak fairness of `Mine` for the
transaction that is next in order: blocks go on. It assumes besides that only this
client uses the key, that one node with one pool answers all nonces, that a transaction
this pool dropped is in no other, and that blocks are final; `Transactions`, which only
reads the chain, has reorganizations. `Transactions` assumes that Etherscan answers from
one view of the chain. Nothing is assumed of clients, of expiry or of failures. Liveness
of Registration and Login is checked without faults, since a dying process answers
nobody; the other properties allow for that and are checked with faults.

The properties marked "proved only" were model-checked on the instances above before
they were proved; their proofs make a run of their own redundant.

Every property of a passing run has a mutant in PROJECT.json: a plausible bug in a
modelled definition (a forgotten WHERE, an unchecked error, a torn transaction, a
swapped order) that makes TLC refute it. The mutants stand next to what they mutate.

## 5. What the code does not do

1. *A registration that fails erases a link* (`registration_email`). README.md:53 says
   users and organizations are "linked via polymorphic Accounts". `CreateUser` saves
   owner 0 into the account (`user.go:51-56`, `user.ID` is still 0) before it inserts
   the user. If the insert fails - the e-mail address is taken - a wallet that already
   was an organization has lost its link. With `Call = {c1, c2}` the same property
   fails when two `CreateUser` requests of one wallet overlap (the slower save erases
   the faster one's link), and with `Faults = TRUE` when `CreateUniversity` is cut off
   between `org.go:116` and `:131`: a retry finds the organization, answers 201 and
   never links it.
2. *A verified login can be answered 500* (`login_first`). README.md:79: "verify
   signature and establish session". Two first logins of an address race for the row
   (`account.go:64-71`). `RetrySucceeds` shows that trying again helps.
3. *Duplicates are possible* (`pending_duplicate`). pendingrequest.go:67: "prevent
   duplicate pending requests". Check and insert are not atomic and no constraint
   backs them. `OpenBounded` and `ImplementsApproval` show the damage is limited.

Smaller divergences met while reading, decided by one line each and so without a run:

- `GET /getnonce`, the health check of README.md:78, runs `GetNonce` and writes a nonce
  under the empty address (`router.go:20`), while `GetNonceHealth` (nonce.go:34,
  "without touching Redis or DB") is never routed.
- A login without a stored nonce is answered 200 with an empty body
  (`account.go:39-42`); so is a request whose token does not verify (`middleware.go:33`).
- `VerifySignature` compares with `EqualFold` (`utils.go:99`) and the database exactly:
  a wallet may have an account for every spelling of its address.
- `CreateUniversity` writes owner type "university" where `polymorphic:Owner`
  (models.go:65) makes GORM look for "organizations" (`org.go:129`).
- CORS does not allow PATCH (`middleware.go:76`), with which `router.go:48` routes the
  approval: a browser of another origin cannot approve.
- A credential is inserted whether or not the student has an approved request
  (`cred.go:153` against README.md's verification flow): no statement reads
  `pending_requests`. A link of white space only passes the check at `cred.go:106` and
  is stored empty; `LinkIsPinned` is about the app, which posts what it was answered.
- A failed second call to Etherscan is answered 200 with nothing recorded
  (`transactions.go:76`). An unknown transaction, or a first answer that is an error
  object such as a rate limit's (`:69`), may be recorded as an empty row, or panics. A
  block orphaned between the two calls leaves a row with the time of the block that has
  its number now: `blockHash` (`:20`) is decoded and not used.
- A killed upload leaves its temporary file behind (`createJson.go:19`). `UploadFile`
  reports success although `CreateTemp` failed (`fileupload.go:27`).
- `mint.sol` does not compile as it stands (`owner` is declared twice, the event of
  `newOrg` not at all); the bytecode of `build.go` is another version, without the checks
  of mint.sol:42-43. `Contract` has both (`guarded`).
- `Deploy` does not use the address it was answered (`contract.go:89`): the other calls go
  to the constant `cAddress`.

## 6. Proofs

Proved by TLAPS for every value of the constants (only the named assumptions of the
modules: `Null`, `None` and `Zero` are not proper values, `EmailsOf` and `WalletOf` are
functions, `Slot` is finite and not empty, the owner is a wallet). Each module of
proofs has one inductive invariant `IndInv`, one lemma per action, and derives its
theorems from `Invariance`.

`Registration_proofs`: `IndInv` is inductive, and `TypeOK`, `LinkSound`,
`AccountAlwaysFound`, `CreatedMeansStored` and the action property
`LinksMovedByOwner` follow. `LinkSound` is not inductive: a save writes to the row
whose key the handler read earlier, so one needs that this key still is its own
wallet's (`CallSound`) and that no other row has it (`IdsUnique(accounts)`).
`AccountAlwaysFound` gives the handler a row to read. The argument is split into the
lemmas on `SetOwner` (an UPDATE keeps keys, wallets and all other rows), `OtherCall`
(what holds of a slot survives any step that keeps the rows, `TablesKeep`), and one
lemma per handler action. On top of it stand `KeepsSessions`; `UnlinkedOnlyInFlight`,
whose own invariant `LinkInv` adds that addresses are unique and that an organization's
wallet has an account; and `ProfilesAreRecords`: an insert finds no row of its wallet
(`Insertable`) and a wallet that signed in, and the UPDATE that comes with it admits
nobody (`PartiesStay`).

`Login_proofs`: `TypeOK`, `TokenHasAccount`, `SessionWasChallenged`, `RetrySucceeds`
and `ImplementsSessions`. The invariant adds what links the first three:
`NoncesStored`, that Redis only ever holds nonces that `GetNonce` stored, from which
`NonceGet` concludes. A request's part of it, `CallOk`, mentions its own record and
two tables that only grow, so a step of another request keeps it (`CallOkGrows`).

`Identity_proofs` is put together from the components' proofs: `LP == INSTANCE
Login_proofs` and `RP == INSTANCE Registration_proofs`, and the invariant is `LP!IndInv
/\ RP!IndInv /\ Carried`. A step of one component keeps its own invariant by that
component's `InvNext`; that it keeps the other's is what there is to show, and little: a
login only adds rows without owner (`LoginSideSignsIn`: it is Registration's `SignIn` or
`Authorize`), a handler takes no address away (`LoginKept`). `Carried` follows the
addresses whose wallet has signed a nonce stored for them (over the history `signed`)
from where `SessionWasChallenged` leaves them: a token, a request to a handler and a
profile are each only of such an address. `ProfileWasChallenged` and
`ImplementsRegistration` follow, and with the refinement (`ToRegistration`) the theorems
of the components are carried over to the joint process: `LinkSound`,
`AccountAlwaysFound`, `CreatedMeansStored`, `UnlinkedOnlyInFlight`, `LinksMovedByOwner`,
`ProfilesAreRecords`; `TokenHasAccount`, `SessionWasChallenged`, `RetrySucceeds` and
`ImplementsSessions`. The composition has no assumption but those of its components.

`PendingRequests_proofs`: `TypeOK`, `OpenBounded`, `ApprovedOnce`,
`AnswersNameOwnRows`, `OnlyTheOrgApproves` and `ImplementsApproval`. `OpenBounded` is
an invariant by counting: at the check nothing is open and those inserting are slots
(`BoundAtCheck`); an insert moves one from inserting to open (`BoundAtInsert`); every
other step only shrinks the two sets (`BoundElsewhere`). It needs that the open rows
are finitely many (`OpenFinite`). `ApprovedOnce` needs unique keys and that reported
rows are approved already, so that the next UPDATE, which matches open rows, cannot
report them again (`UpdateReports`). The refinement rests on `UpdateApproves`: the
UPDATE leaves no open row of the pair and touches no other pair. `ImplementsRecord`
needs `Registered`, that a creation past its lookups is of two wallets with profiles,
which holds to the insert because profiles stay. `OneSlotNoDuplicates` is `OpenBounded`
for one slot: without overlap the promise of pendingrequest.go:67 is kept.

`Issuance_proofs`: `TypeOK`, `LinkIsPinned`, `CreatedIsOwn` and `ImplementsRegistry`.
`LinkIsPinned` goes through `GivenIsPinned` (what uploads answered is pinned, because
whoever pins has written its file, `UploadOk`) and through the posts, which carry given
links. `CreatedIsOwn` needs `KeysApart`: the keys that two requests inserted differ,
staged or committed, so a reload by key finds the caller's row only.
`ImplementsCredentials` and `ImplementsUploads` show that the composition adds nothing
to either part: a step of one is a stutter of the other, and a link that an upload gave
is one that the credentials' environment may post.

`Transactions_proofs`: `TypeOK`, `RowsFromChain`, `RecordedIsStored`. The invariant says
what an answer of Etherscan's is worth after the chain has moved on: the number was one
the transaction was mined at (`ResultOk`), the time is of a block of that number
(`TimeOk`), both over the history `seen`; and while a request is `steady`, the one block
that has the number is the one the transaction is in, because blocks of one chain have
different heights and share no transaction (`ChainOk`). `OrphanedInv` is where the step
matters: it takes blocks away and ends `steady` for whoever waits for one of them.
`ImplementsArchive` follows: whatever is inserted with a number, its block is in `seen`
(`InsertRows`), and nothing is unseen.

`Contract_proofs`: `TypeOK`, `TokensDense`, `OrgsSound` and `ImplementsRegistry`, for any
senders and both versions of the contract.

`ChainClient_proofs` takes the contract from there: with `ImplementsContract` (a block's
execution is one transaction of the contract, every other step none) `ContractSound`,
`ImplementsRegistry` and the contract's half of `TypeOK` are the theorems of
`Contract_proofs`. Its own invariant, `ClientType` and `ClientOk`, is about nonces,
and gives `OrderKept`, `ReturnedIsAccountedFor` and `NeverHeldUp`. The network's own rules
are a conjunct of it (`NoncesUsedOnce`: each nonce is executed once, in order). That
`PendingNonce` exists is a pigeonhole argument (`SomeNonceFree`), that it is the least
free nonce a choice among the naturals (`PendingNonceIs`). `OrderKept` follows from
`Ordered` (nonces are dealt in the order of the calls) and `NoGap` (no nonce below one in
use is free), both of which an eviction ends; `NoGap` also gives `NeverHeldUp`. `Settled`
and `ReplacedOk` account for what was returned: of the calls that shared a nonce, the one
that holds it is in the pool, executed or evicted (`Standing`).

## 7. Only model-checked

All liveness properties (TLAPS has no way to ENABLED here): `EveryRequestAnswered`,
`OrgGetsLinked`, `EveryLoginAnswered`, `EveryCallAnswered`, `EverySaveAnswered` and
`SubmittedSettles`. The safety halves of two of them are proved: `UnlinkedOnlyInFlight`
for `OrgGetsLinked` (whoever was never linked has a request that will do it) and
`NeverHeldUp` for `SubmittedSettles` (a block can always take one). The three violations
of section 5 are runs only. Every other property of the runs is also a theorem.

## 8. Not modelled, and plan

Not modelled: the read endpoints and the QR code (single SELECTs that change nothing,
with oddities of wording and status: `user.go:79`, `:98`, `:128`, `org.go:168`, `:198`);
`UploadFile`, whose temporary file nothing reads; logging; CORS; AutoMigrate and
connecting; the Python scripts, which are run once by hand; the bindings, which abigen
generates. None of them keeps state that a property of the others depends on.

The plan that the modules followed, most important behaviour first: Registration, Login,
Identity, PendingRequests; Credentials and Uploads, composed as Issuance; Transactions;
Contract and ChainClient; then the proofs, component by component, and last the
compositions from the components' proofs. What could be added: tokens of one address
told apart, so that one expires while the other lives; a second node behind the chain
client, which may answer an old nonce; and Issuance composed with the contract, where
the app mints with the links that uploads answered.
