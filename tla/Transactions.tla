---------------------------- MODULE Transactions ----------------------------
(***************************************************************************)
(* Transaction records (internal/handlers/transactions.go):                *)
(* SetTransactionInfo asks Etherscan for a transaction, then for the block *)
(* with the number it was told, and inserts what it got;                   *)
(* ShowAllTransactions lists the table.  The chain moves on between the    *)
(* two answers, and a number may by then be another block's.               *)
(***************************************************************************)
EXTENDS FiniteSets, Naturals

CONSTANTS
  Hash,    \* transaction hashes
  Block,   \* blocks some node may mine
  Height,  \* block numbers
  HeightOf, TxsOf,  \* the number of a block, and the transactions in it
  Uuid,    \* primary keys; their number bounds the rows TLC explores
  Save,    \* slots for requests in flight
  None,    \* Go's zero value: no hash, no block
  Faults   \* TRUE: a call may fail and the process may be killed

ASSUME TransactionsAssumption ==
  /\ Height \subseteq Nat
  /\ HeightOf \in [Block -> Height] /\ TxsOf \in [Block -> SUBSET Hash]
  /\ None \notin Hash \cup Height \cup Block /\ Faults \in BOOLEAN

VARIABLES
  blocks,        \* the chain Etherscan follows: at most one block of a number
  known,         \* the transactions Etherscan knows, in a block or pending
  seen,          \* history: every block that has been on the chain
  transactions,  \* the transactions table
  save           \* the requests in flight

network == <<blocks, known, seen>>
vars    == <<network, transactions, save>>

\* EtherscanResponse.Result: nothing for an unknown hash, no block for a pending
\* transaction.
Result  == [hash : Hash \cup {None}, block : Height \cup {None}]
Unknown == [hash |-> None, block |-> None]

\* A row's time is the block whose timestamp it has.
Transaction == [id : Uuid, hash : Hash \cup {None}, block : Height \cup {None}, time : Block]

\* "empty" is a 200 without a body; "aborted" a panic, which net/http recovers.
Outcome == {"none", "recorded", "listed", "404", "401", "empty", "500", "aborted"}

\* steady: the transaction was in a block when the request came and has stayed in
\* it, and the first answer was not an error (for the properties; no code reads it).
SaveCall == [pc     : {"idle", "done", "tx", "block", "create", "show"},
             hash   : Hash \cup {None},
             result : Result,
             time   : Block \cup {None},
             rows   : SUBSET Uuid,
             answer : Outcome,
             steady : BOOLEAN]

Idle == [pc |-> "idle", hash |-> None, result |-> Unknown, time |-> None,
         rows |-> {}, answer |-> "none", steady |-> FALSE]

TypeOK ==
  /\ blocks \subseteq Block /\ seen \subseteq Block
  /\ known \subseteq Hash
  /\ transactions \subseteq Transaction
  /\ save \in [Save -> SaveCall]

Init ==
  /\ blocks = {} /\ known = {} /\ seen = {}
  /\ transactions = {}
  /\ save = [c \in Save |-> Idle]

At(c, pc)   == save[c].pc = pc
Reply(c, code, ids) ==
  save' = [save EXCEPT ![c] = [@ EXCEPT !.pc = "done", !.answer = code, !.rows = ids,
                                        !.result = Unknown, !.time = None]]
Free(c)     == save[c].pc \in {"idle", "done"}
InFlight(c) == ~Free(c)
Ids(rows)   == {row.id : row \in rows}
UnusedUuid  == Uuid \ Ids(transactions)

-----------------------------------------------------------------------------
(* The chain as Etherscan sees it. *)

\* The blocks of the chain with a transaction in them.
InBlock(h) == {b \in blocks : h \in TxsOf[b]}

Sent(h) ==
  /\ h \notin known
  /\ known' = known \cup {h}
  /\ UNCHANGED <<blocks, seen, transactions, save>>

\* A pending transaction is dropped.
Dropped(h) ==
  /\ h \in known /\ InBlock(h) = {}
  /\ known' = known \ {h}
  /\ UNCHANGED <<blocks, seen, transactions, save>>

\* A block is added on top; no transaction is in two blocks of a chain.
Mined(b) ==
  /\ \A d \in blocks : HeightOf[d] < HeightOf[b] /\ TxsOf[d] \cap TxsOf[b] = {}
  /\ blocks' = blocks \cup {b}
  /\ seen' = seen \cup {b}
  /\ known' = known \cup TxsOf[b]
  /\ UNCHANGED <<transactions, save>>

\* A reorganization takes a block off the chain, and those on top of it; their
\* transactions are pending again.
Orphaned(b) ==
  /\ b \in blocks
  /\ blocks' = {d \in blocks : HeightOf[d] < HeightOf[b]}
  /\ save' = [c \in Save |->
                IF InFlight(c) /\ \E d \in blocks \ blocks' : save[c].hash \in TxsOf[d]
                THEN [save[c] EXCEPT !.steady = FALSE] ELSE save[c]]
  /\ UNCHANGED <<known, seen, transactions>>

Chain == \/ \E h \in Hash : Sent(h) \/ Dropped(h)
         \/ \E b \in Block : Mined(b) \/ Orphaned(b)

-----------------------------------------------------------------------------
(* A request arrives. *)

Begin(c, call) ==
  /\ Free(c)
  /\ save' = [save EXCEPT ![c] = call]
  /\ UNCHANGED <<network, transactions>>

\* The bound on the rows: a key is left for every insert to come.
UuidsLeft == Cardinality({c \in Save : save[c].pc \in {"tx", "block", "create"}})
               < Cardinality(UnusedUuid)

BeginSave(c, h) ==
  /\ UuidsLeft
  /\ Begin(c, [Idle EXCEPT !.pc = "tx", !.hash = h, !.steady = InBlock(h) # {}])

BeginShow(c) == Begin(c, [Idle EXCEPT !.pc = "show"])

\* A body without a transaction_hash panics at :51; no token (401), or one that
\* does not verify (empty 200).
Reject(c, code) == Begin(c, [Idle EXCEPT !.pc = "done", !.answer = code])

-----------------------------------------------------------------------------
(* SetTransactionInfo and ShowAllTransactions. *)

\* What Etherscan answers: nothing for a hash it does not know, no block for a
\* pending transaction.
AnswersOn(h) ==
  IF h \notin known THEN {Unknown}
  ELSE IF InBlock(h) = {} THEN {[hash |-> h, block |-> None]}
  ELSE {[hash |-> h, block |-> HeightOf[b]] : b \in InBlock(h)}

GetTransaction(c) ==
  /\ At(c, "tx")
  /\ \E r \in AnswersOn(save[c].hash) :
       save' = [save EXCEPT ![c].pc = "block", ![c].result = r]
  /\ UNCHANGED <<network, transactions>>

GotTime(c, b) == save' = [save EXCEPT ![c].pc = "create", ![c].time = b]

\* eth_getBlockByNumber: the block that has the number now, whatever block had it
\* at the first answer.  Without a number the tag is empty, which Etherscan may
\* take for some block.
BlocksAt(n) == IF n = None THEN blocks ELSE {b \in blocks : HeightOf[b] = n}

\* Mutants of GetBlock: the latest block is asked for; the error is not returned,
\* and the time is Go's zero time; a pending transaction is waited for.
GetBlockLatest(c) ==
  /\ At(c, "block")
  /\ \E b \in blocks : (\A d \in blocks : HeightOf[d] <= HeightOf[b]) /\ GotTime(c, b)
  /\ UNCHANGED <<network, transactions>>
GetBlockUnchecked(c) ==
  /\ At(c, "block")
  /\ \/ \E b \in BlocksAt(save[c].result.block) : GotTime(c, b)
     \/ BlocksAt(save[c].result.block) = {} /\ GotTime(c, None)
  /\ UNCHANGED <<network, transactions>>
GetBlockWaits(c) ==
  /\ At(c, "block")
  /\ save[c].result.block # None
  /\ \E b \in BlocksAt(save[c].result.block) : GotTime(c, b)
  /\ UNCHANGED <<network, transactions>>

\* getBlockTimestamp.  A number no block has any more is answered null, and an
\* empty tag perhaps an error object: no timestamp, on which timestampHex[2:]
\* panics.  An empty tag may also be answered an error text, which does not decode
\* and which :76 turns into a 200 without a body.
GetBlock(c) ==
  /\ At(c, "block")
  /\ LET n == save[c].result.block IN
       \/ \E b \in BlocksAt(n) : GotTime(c, b)
       \/ (n = None \/ BlocksAt(n) = {}) /\ Reply(c, "aborted", {})
       \/ n = None /\ Reply(c, "empty", {})
  /\ UNCHANGED <<network, transactions>>

\* Mutant of NewRow: the block number is forgotten in the literal.
NewRowBlockless(c, i) == [id |-> i, hash |-> save[c].result.hash,
                          block |-> None, time |-> save[c].time]

NewRow(c, i) == [id |-> i, hash |-> save[c].result.hash,
                 block |-> save[c].result.block, time |-> save[c].time]

Insert(c, i) ==
  /\ i \in UnusedUuid
  /\ transactions' = transactions \cup {NewRow(c, i)}

\* Mutant of Create: a transaction that is recorded already is not inserted again.
CreateOnce(c) ==
  /\ At(c, "create")
  /\ \/ /\ {row \in transactions : row.hash = save[c].result.hash} = {}
        /\ \E i \in Uuid : Insert(c, i) /\ Reply(c, "recorded", {i})
     \/ \E row \in transactions : /\ row.hash = save[c].result.hash
                                  /\ Reply(c, "recorded", {row.id})
                                  /\ UNCHANGED transactions
  /\ UNCHANGED network

Create(c) ==
  /\ At(c, "create")
  /\ \E i \in Uuid : Insert(c, i) /\ Reply(c, "recorded", {i})
  /\ UNCHANGED network

Show(c) ==
  /\ At(c, "show")
  /\ Reply(c, "listed", Ids(transactions))
  /\ UNCHANGED <<network, transactions>>

-----------------------------------------------------------------------------
(* Failures. *)

\* The process exits: the requests in flight are lost, the table stays.
Lost == /\ save' = [c \in Save |-> Idle]
        /\ UNCHANGED <<network, transactions>>

\* The first call fails, or answers what does not decode (a rate limit's result
\* is a string): os.Exit, under every other request.
Exit(c) == Faults /\ At(c, "tx") /\ Lost

\* The first answer is an error object: it decodes, to an empty result (:69), and
\* the request goes on with it.
GetTransactionErrs(c) ==
  /\ Faults
  /\ At(c, "tx")
  /\ save' = [save EXCEPT ![c].pc = "block", ![c].result = Unknown, ![c].steady = FALSE]
  /\ UNCHANGED <<network, transactions>>

Kill == Faults /\ Lost

\* The second call fails, or is answered without a timestamp.
GetBlockFails(c) ==
  /\ Faults
  /\ At(c, "block")
  /\ \E code \in {"empty", "aborted"} : Reply(c, code, {})
  /\ UNCHANGED <<network, transactions>>

\* The insert reports an error, whether or not the server had committed it.
CreateFails(c) ==
  /\ Faults
  /\ At(c, "create")
  /\ (\E i \in Uuid : Insert(c, i)) \/ UNCHANGED transactions
  /\ Reply(c, "500", {})
  /\ UNCHANGED network

ShowFails(c) ==
  /\ Faults
  /\ At(c, "show")
  /\ Reply(c, "404", {})
  /\ UNCHANGED <<network, transactions>>

-----------------------------------------------------------------------------
Step(c)    == GetTransaction(c) \/ GetBlock(c) \/ Create(c) \/ Show(c)
Failure(c) == \/ Exit(c) \/ GetTransactionErrs(c) \/ GetBlockFails(c)
              \/ CreateFails(c) \/ ShowFails(c)
Arrival(c) == \/ \E code \in {"aborted", "401", "empty"} : Reject(c, code)
              \/ BeginShow(c)
              \/ \E h \in Hash : BeginSave(c, h)

Next == \/ \E c \in Save : Step(c) \/ Failure(c) \/ Arrival(c)
        \/ Kill
        \/ Chain

Spec == Init /\ [][Next]_vars

\* No request is starved, and Etherscan answers or the connection breaks.
LiveSpec == Spec /\ \A c \in Save : WF_vars(Step(c))

-----------------------------------------------------------------------------
(* Properties. *)

\* A row that names a block number is of a transaction that was in a block of that
\* number, and its time is that of a block of the same number; but not always the
\* same block, for the second call asks by the number, which may by then be the
\* block's that replaced the first (transactions.go:75-90, 106).
RowsFromChain ==
  \A row \in transactions : row.block # None =>
    /\ \E b \in seen : HeightOf[b] = row.block /\ row.hash \in TxsOf[b]
    /\ row.time \in seen /\ HeightOf[row.time] = row.block

\* "Transaction successfully recorded" is true, and two requests that are told
\* so have a row each.  If the transaction was in a block all along and Etherscan
\* did not answer an error, the row names it, its number and the time of the very
\* block; otherwise it may be empty (transactions.go:69-100).
RecordedIsStored ==
  /\ \A c \in Save : save[c].answer = "recorded" =>
       \E row \in transactions :
         /\ save[c].rows = {row.id} /\ row.hash \in {save[c].hash, None}
         /\ save[c].steady => /\ row.hash = save[c].hash
                              /\ row.block = HeightOf[row.time] /\ row.hash \in TxsOf[row.time]
  /\ \A c, d \in Save : save[c].answer = "recorded" /\ save[d].answer = "recorded" /\ c # d =>
       save[c].rows # save[d].rows

\* The rows that name a block number are a record of the chain's history: appended
\* one at a time, each under a key of its own and for a number its transaction had
\* been in by then, and neither a reorganization nor another request ever changes
\* one (transactions.go:83-92).
MinedIn == {p \in Hash \X Height : \E b \in seen : p[1] \in TxsOf[b] /\ p[2] = HeightOf[b]}
Records ==
  {[key |-> row.id, party |-> <<row.hash, row.block>>, content |-> row.time] :
     row \in {r \in transactions : r.block # None}}
Archive == INSTANCE Registry WITH Party <- Hash \X Height, Key <- Uuid, Content <- Block,
                                  parties <- MinedIn, documents <- Records
ImplementsArchive == Archive!Spec

\* Every request ends, unless it is lost with the process: answered, or aborted by
\* the panic of :120, after which net/http closes the connection.
EverySaveAnswered == \A c \in Save : InFlight(c) ~> Free(c)
=============================================================================
