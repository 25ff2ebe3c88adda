----------------------------- MODULE ChainClient -----------------------------
(***************************************************************************)
(* The client of the contract (internal/eth/contract.go): Deploy, NewOrg   *)
(* and MintDoc send transactions with the one key of the server, the view  *)
(* functions read.  go-ethereum's bind asks the network for a nonce, signs *)
(* and submits; NewOrg and MintDoc return then, Deploy waits for the       *)
(* receipt.  Every error is a log.Fatal, which ends the process.           *)
(*                                                                         *)
(* A call is one invocation.  With GasLimit set (:65, :211) bind estimates *)
(* no gas, so that a transaction that will revert is submitted like any    *)
(* other.  Nothing else uses the key, and all nonces come from one node.   *)
(***************************************************************************)
EXTENDS Naturals, Sequences, FiniteSets

CONSTANTS
  Address, Owner, Zero, Uri,  \* as in Contract
  MaxCalls, \* bound: invocations of the client, and so nonces
  None,     \* no token URI
  Listee, Receiver,  \* whom NewOrg and MintDoc are called with
  MaxDocs,  \* bound: organizations mint from their own wallets up to this many
  Faults    \* TRUE: connections break, transactions are evicted, the process dies

ASSUME ClientAssumption == /\ Owner \in Address /\ Zero \notin Address
                           /\ None \notin Uri
                           /\ Listee \cup Receiver \subseteq Address \cup {Zero}
                           /\ MaxCalls \in Nat /\ MaxDocs \in Nat /\ Faults \in BOOLEAN

\* The invocations, numbered in the order they begin.
Call == 1..MaxCalls

VARIABLES
  guarded, listed, orgs, tokenIds, docs,  \* as in Contract
  call,   \* the invocations
  pool,   \* the calls whose transactions are submitted and not mined
  mined,  \* the key's nonce: how many of its transactions were mined
  fate    \* what became of a call's transaction

Token == INSTANCE Contract

token  == <<guarded, listed, orgs, tokenIds, docs>>
client == <<call, pool, mined, fate>>
vars   == <<guarded, listed, orgs, tokenIds, docs, call, pool, mined, fate>>

Sending == {"newOrg", "mintDoc", "deploy"}

\* after: the calls that had returned when this one began (for the properties).
ClientCall == [pc    : {"new", "nonce", "send", "wait", "view", "returned", "dead"},
               kind  : {"none", "view"} \cup Sending,
               to    : Address \cup {Zero},
               uri   : Uri \cup {None},
               nonce : Nat,
               after : SUBSET Call]

TypeOK ==
  /\ Token!TypeOK
  /\ call \in [Call -> ClientCall]
  /\ pool \subseteq Call
  /\ mined \in Nat
  /\ fate \in [Call -> {"none", "ok", "reverted", "replaced", "evicted"}]

Init ==
  /\ Token!Init
  /\ call = [c \in Call |-> [pc |-> "new", kind |-> "none", to |-> Zero, uri |-> None,
                             nonce |-> 0, after |-> {}]]
  /\ pool = {} /\ mined = 0
  /\ fate = [c \in Call |-> "none"]

At(c, pc)   == call[c].pc = pc
Goto(c, pc) == call' = [call EXCEPT ![c].pc = pc]
Running     == {c \in Call : call[c].pc \in {"nonce", "send", "wait", "view"}}
Returned    == {c \in Call : At(c, "returned")}
Rivals(c)   == {d \in pool : call[d].nonce = call[c].nonce}

\* log.Fatal, or a signal: the process ends under every call it runs.
Die == call' = [c \in Call |-> IF c \in Running THEN [call[c] EXCEPT !.pc = "dead"] ELSE call[c]]

-----------------------------------------------------------------------------
(* The client. *)

Begin(c, pc, kind, to, u) ==
  /\ At(c, "new") /\ \A d \in 1..(c - 1) : ~At(d, "new")
  /\ call' = [call EXCEPT ![c].pc = pc, ![c].kind = kind, ![c].to = to, ![c].uri = u,
                          ![c].after = Returned]
  /\ UNCHANGED <<token, pool, mined, fate>>

\* common.HexToAddress never fails: text that is no address may become address(0).
NewOrg(c, to)      == Begin(c, "nonce", "newOrg", to, None)
MintDoc(c, to, u)  == Begin(c, "nonce", "mintDoc", to, u)
Deploy(c)          == Begin(c, "nonce", "deploy", Zero, None)
BeginView(c)       == Begin(c, "view", "view", Zero, None)

\* Mutants of PendingNonce: the last nonce used; one too many.
LastNonce  == mined - 1
NonceAhead == mined + Cardinality(pool) + 1

\* PendingNonceAt: the first nonce that neither a block nor the pool has used.
PendingNonce ==
  CHOOSE n \in mined..(mined + Cardinality(pool)) :
    /\ \A c \in pool : call[c].nonce # n
    /\ \A m \in mined..(n - 1) : \E c \in pool : call[c].nonce = m

\* Mutant of ReadNonce: the nonces are dealt out of order.
ReadNonceUnordered(c) ==
  /\ At(c, "nonce")
  /\ \E n \in {PendingNonce, PendingNonce + 1} :
       call' = [call EXCEPT ![c].pc = "send", ![c].nonce = n]
  /\ UNCHANGED <<token, pool, mined, fate>>

ReadNonce(c) ==
  /\ At(c, "nonce")
  /\ call' = [call EXCEPT ![c].pc = "send", ![c].nonce = PendingNonce]
  /\ UNCHANGED <<token, pool, mined, fate>>

\* The pool accepts the transaction; a rival with its nonce and a lower gas price
\* goes.
Accept(c) ==
  /\ call[c].nonce >= mined
  /\ pool' = (pool \ Rivals(c)) \cup {c}
  /\ fate' = [d \in Call |-> IF d \in Rivals(c) THEN "replaced" ELSE fate[d]]

\* Mutant of Send: a refusal is not looked at.
SendUnchecked(c) ==
  /\ At(c, "send")
  /\ Accept(c) \/ (call[c].nonce < mined /\ UNCHANGED <<pool, fate>>)
  /\ Goto(c, IF call[c].kind = "deploy" THEN "wait" ELSE "returned")
  /\ UNCHANGED <<token, mined>>

\* "Added successfully", "Minted successfully": submitted, that is.
Send(c) ==
  /\ At(c, "send")
  /\ Accept(c)
  /\ Goto(c, IF call[c].kind = "deploy" THEN "wait" ELSE "returned")
  /\ UNCHANGED <<token, mined>>

\* "nonce too low", "already known", "replacement transaction underpriced".
SendRefused(c) ==
  /\ At(c, "send")
  /\ call[c].nonce < mined \/ Rivals(c) # {}
  /\ Die
  /\ UNCHANGED <<token, pool, mined, fate>>

\* WaitDeployed asks for the receipt until there is one, without a deadline; a
\* deployment that reverted leaves no code, which is an error.
Wait(c) ==
  /\ At(c, "wait")
  /\ \/ fate[c] = "ok" /\ Goto(c, "returned")
     \/ fate[c] = "reverted" /\ Die
  /\ UNCHANGED <<token, pool, mined, fate>>

\* CurrentTokenID, AllOrgs, IsVerfiedOrg, TokenURI: they read and change nothing.
View(c) ==
  /\ At(c, "view")
  /\ Goto(c, "returned")
  /\ UNCHANGED <<token, pool, mined, fate>>

-----------------------------------------------------------------------------
(* The network: the transactions of the key are mined in the order of nonces. *)

Executes(c) ==
  CASE call[c].kind = "newOrg"  -> Token!NewOrg(Owner, call[c].to)
    [] call[c].kind = "mintDoc" -> Token!MintDoc(Owner, call[c].to, call[c].uri)
    [] OTHER                    -> UNCHANGED token

Reverts(c) ==
  CASE call[c].kind = "newOrg"  -> ~Token!NewOrgOk(Owner, call[c].to)
    [] call[c].kind = "mintDoc" -> ~Token!MintDocOk(Owner, call[c].to)
    [] OTHER                    -> Faults  \* a deployment that runs out of gas

Mine(c) ==
  /\ c \in pool
  /\ call[c].nonce = mined
  /\ \/ Executes(c) /\ fate' = [fate EXCEPT ![c] = "ok"]
     \/ Reverts(c) /\ fate' = [fate EXCEPT ![c] = "reverted"] /\ UNCHANGED token
  /\ pool' = pool \ {c}
  /\ mined' = mined + 1
  /\ UNCHANGED call

\* An organization mints from its own wallet (README.md:65), or a holder transfers.
OrgMints(o, user, u) ==
  /\ o # Owner /\ tokenIds < MaxDocs
  /\ Token!MintDoc(o, user, u)
  /\ UNCHANGED client

Transfers(d, to) == Token!Transfer(d, to) /\ UNCHANGED client

-----------------------------------------------------------------------------
(* Failures. *)

\* A connection breaks: log.Fatal in all but TokenURI, which prints the error. A
\* transaction may have reached the pool all the same.
CallFails(c) ==
  /\ Faults
  /\ c \in Running
  /\ \/ At(c, "send") /\ Accept(c)
     \/ UNCHANGED <<pool, fate>>
  /\ Die \/ (At(c, "view") /\ Goto(c, "returned"))
  /\ UNCHANGED <<token, mined>>

\* The pool drops a transaction, for its price or its age.
Evict(c) ==
  /\ Faults
  /\ c \in pool
  /\ pool' = pool \ {c}
  /\ fate' = [fate EXCEPT ![c] = "evicted"]
  /\ UNCHANGED <<token, call, mined>>

-----------------------------------------------------------------------------
Step(c) == ReadNonce(c) \/ Send(c) \/ SendRefused(c) \/ Wait(c) \/ View(c)

Arrival(c) ==
  \/ \E to \in Listee : NewOrg(c, to)
  \/ \E to \in Receiver, u \in Uri : MintDoc(c, to, u)
  \/ Deploy(c)
  \/ BeginView(c)

Outside ==
  \/ \E o \in Address, user \in Address, u \in Uri : OrgMints(o, user, u)
  \/ \E d \in docs, to \in Address : Transfers(d, to)

Next ==
  \/ \E c \in Call : Step(c) \/ Arrival(c) \/ Mine(c) \/ CallFails(c) \/ Evict(c)
  \/ Outside

Spec == Init /\ [][Next]_vars

\* The process runs its calls, and a transaction that is next in order is mined.
LiveSpec == Spec /\ \A c \in Call : WF_vars(Step(c)) /\ WF_vars(Mine(c))

-----------------------------------------------------------------------------
(* Properties. *)

Executed == {c \in Call : fate[c] \in {"ok", "reverted"}}
Evicted  == {c \in Call : fate[c] = "evicted"}

\* The promises of the contract, with the client and the organizations as its
\* senders: dense, unique token ids, and two lists of organizations that agree
\* (mint.sol:19, 45-46).
ContractSound == Token!TokensDense /\ Token!OrgsSound

\* No document by an organization that was not listed, and none changes.
ImplementsRegistry == Token!ImplementsRegistry

\* NewOrg and MintDoc return when they are submitted; a call begun after another
\* has returned is still executed after it, if both are (contract.go:229-233).
\* An eviction leaves a gap among the nonces, and the next call fills it.
OrderKept ==
  Evicted = {} =>
    \A c \in Executed : \A d \in call[c].after :
      call[d].kind \in Sending =>
        /\ d \notin pool
        /\ d \in Executed => call[d].nonce < call[c].nonce

\* "Minted successfully" is said of a transaction that is mined, waits, or was
\* evicted, or of one whose very nonce another took over that is mined, waits or
\* was evicted itself; it is never nowhere, however long the chain of rivals.
ReturnedIsAccountedFor ==
  \A c \in Returned : call[c].kind \in Sending =>
    \/ c \in pool \cup Executed \cup Evicted
    \/ /\ fate[c] = "replaced"
       /\ \E d \in pool \cup Executed \cup Evicted : call[d].nonce = call[c].nonce

\* The client is one of the contract's senders and nothing more: whatever its
\* calls do, in whatever order they are mined or revert (contract.go:229-246),
\* the contract makes a step of its own or none.
ImplementsContract == Token!Spec

\* While nothing is evicted the pool is never held up: whatever it holds, the next
\* nonce is there to be mined, though bind asks for nonces call by call
\* (contract.go:229, 241); and whoever waits for a receipt (:77) waits for a
\* transaction that can still be mined, or was, or for ever, its nonce taken.
NeverHeldUp ==
  Evicted = {} =>
    /\ pool # {} => \E c \in pool : call[c].nonce = mined
    /\ \A c \in Call : At(c, "wait") => c \in pool \cup Executed \/ fate[c] = "replaced"

\* As long as nothing is evicted, all that is submitted is mined or replaced in
\* the end - the pending nonces leave no gap that would hold the pool up - and no
\* Deploy is left waiting but one whose transaction was replaced: its receipt
\* never comes (contract.go:77).
SubmittedSettles ==
  <>[](Evicted = {} => /\ pool = {}
                       /\ \A c \in Call : At(c, "wait") => fate[c] = "replaced")
=============================================================================
