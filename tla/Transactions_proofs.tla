------------------------- MODULE Transactions_proofs -------------------------
(* Proofs about Transactions, for every number of hashes, blocks and slots. *)
EXTENDS Transactions, TLAPS

(***************************************************************************)
(* The invariant.  A request's part of it mentions its own record, the     *)
(* chain, and two sets that never shrink.                                  *)
(***************************************************************************)

\* The chain has one block of a number, a transaction once, and only blocks that
\* were seen; what is in it is known.
ChainOk ==
  /\ \A b, d \in blocks : HeightOf[b] = HeightOf[d] => b = d
  /\ \A b, d \in blocks : TxsOf[b] \cap TxsOf[d] # {} => b = d
  /\ blocks \subseteq seen
  /\ \A b \in blocks : TxsOf[b] \subseteq known

\* A block of the number had the transaction.
WasIn(h, n, past) == \E b \in past : HeightOf[b] = n /\ h \in TxsOf[b]

\* The answer a request holds, and what steady says of it.
ResultOk(c, past) ==
  /\ c.result.hash \in {c.hash, None}
  /\ c.result.block # None => WasIn(c.result.hash, c.result.block, past)
  /\ c.steady => c.result.block # None /\ c.result.hash = c.hash

\* The time a request holds.
TimeOk(c, past) ==
  /\ c.time \in past
  /\ c.result.block # None => HeightOf[c.time] = c.result.block
  /\ c.steady => c.hash \in TxsOf[c.time]

\* The row a request was told of.
RowOk(c, trs) ==
  \E row \in trs :
    /\ c.rows = {row.id} /\ row.hash \in {c.hash, None}
    /\ c.steady => /\ row.hash = c.hash
                   /\ row.block = HeightOf[row.time] /\ row.hash \in TxsOf[row.time]

CallOk(c, onChain, past, trs) ==
  /\ c.pc # "done" => c.answer = "none"
  /\ c.pc \in {"tx", "block", "create"} => c.hash \in Hash
  /\ c.pc = "tx" /\ c.steady => \E b \in onChain : c.hash \in TxsOf[b]
  /\ c.pc = "block" /\ c.steady => WasIn(c.hash, c.result.block, onChain)
  /\ c.pc \in {"block", "create"} => ResultOk(c, past)
  /\ c.pc = "create" => TimeOk(c, past)
  /\ c.answer = "recorded" => RowOk(c, trs)

RowsApart ==
  \A c, d \in Save : save[c].answer = "recorded" /\ save[d].answer = "recorded" /\ c # d =>
    save[c].rows # save[d].rows

IndInv ==
  /\ TypeOK
  /\ ChainOk
  /\ RowsFromChain
  /\ RowsApart
  /\ \A c \in Save : CallOk(save[c], blocks, seen, transactions)

\* A call keeps its part while the tables grow and the chain keeps the block its
\* transaction is in.
LEMMA CallOkGrows ==
  ASSUME NEW c, NEW onChain, NEW later, NEW past, NEW more, past \subseteq more,
         c.steady /\ c.pc \in {"tx", "block"} =>
           \A b \in onChain : c.hash \in TxsOf[b] => b \in later,
         NEW trs, NEW grown, trs \subseteq grown,
         CallOk(c, onChain, past, trs)
  PROVE  CallOk(c, later, more, grown)
<1>1. RowOk(c, trs) => RowOk(c, grown)
  BY DEF RowOk
<1>2. ResultOk(c, past) => ResultOk(c, more)
  BY DEF ResultOk, WasIn
<1>3. TimeOk(c, past) => TimeOk(c, more)
  BY DEF TimeOk
<1>4. c.steady /\ c.pc = "tx" => \E b \in later : c.hash \in TxsOf[b]
  BY DEF CallOk
<1>5. c.steady /\ c.pc = "block" => WasIn(c.hash, c.result.block, later)
  BY DEF CallOk, WasIn
<1> QED
  BY <1>1, <1>2, <1>3, <1>4, <1>5 DEF CallOk

LEMMA IdleOk ==
  ASSUME NEW onChain, NEW past, NEW trs
  PROVE  Idle \in SaveCall /\ CallOk(Idle, onChain, past, trs)
<1>1. Idle \in SaveCall
  BY DEF Idle, SaveCall, Unknown, Result, Outcome
<1>2. CallOk(Idle, onChain, past, trs)
  BY DEF Idle, CallOk
<1> QED
  BY <1>1, <1>2

\* A step of one request: its call becomes n, the table may grow.
LEMMA CallStep ==
  ASSUME IndInv, NEW c \in Save, NEW n \in SaveCall,
         save' = [save EXCEPT ![c] = n],
         UNCHANGED network,
         transactions \subseteq transactions', transactions' \subseteq Transaction,
         RowsFromChain',
         CallOk(n, blocks', seen', transactions'),
         n.answer = "recorded" => n.rows \cap Ids(transactions) = {}
  PROVE  IndInv'
<1>1. TypeOK'
  BY DEF IndInv, TypeOK, network
<1>2. ChainOk'
  BY DEF IndInv, ChainOk, network
<1>3. ASSUME NEW d \in Save, d # c
      PROVE  save'[d] = save[d] /\ CallOk(save'[d], blocks', seen', transactions')
  <2>1. save'[d] = save[d]
    BY <1>3 DEF IndInv, TypeOK
  <2>2. CallOk(save[d], blocks, seen, transactions)
    BY DEF IndInv
  <2> QED
    BY <2>1, <2>2, CallOkGrows DEF network
<1>4. save'[c] = n
  BY DEF IndInv, TypeOK
<1>5. ASSUME NEW d \in Save, d # c, n.answer = "recorded", save[d].answer = "recorded"
      PROVE  n.rows # save[d].rows
  <2>1. CallOk(save[d], blocks, seen, transactions)
    BY DEF IndInv
  <2>2. PICK row \in transactions : save[d].rows = {row.id}
    BY <2>1, <1>5 DEF CallOk, RowOk
  <2>3. row.id \in Ids(transactions)
    BY DEF Ids
  <2> QED
    BY <2>2, <2>3, <1>5
<1>6. RowsApart'
  <2> SUFFICES ASSUME NEW a \in Save, NEW b \in Save, a # b,
                      save'[a].answer = "recorded", save'[b].answer = "recorded"
               PROVE  save'[a].rows # save'[b].rows
    BY DEF RowsApart
  <2>1. CASE a = c
    BY <2>1, <1>3, <1>4, <1>5
  <2>2. CASE b = c
    BY <2>2, <1>3, <1>4, <1>5
  <2>3. CASE a # c /\ b # c
    BY <2>3, <1>3 DEF IndInv, RowsApart
  <2> QED
    BY <2>1, <2>2, <2>3
<1>7. \A d \in Save : CallOk(save'[d], blocks', seen', transactions')
  BY <1>3, <1>4
<1> QED
  BY <1>1, <1>2, <1>6, <1>7 DEF IndInv

\* The rows are untouched: their part of the invariant is kept.
LEMMA RowsKept ==
  ASSUME IndInv, UNCHANGED <<seen, transactions>>
  PROVE  RowsFromChain' /\ transactions' \subseteq Transaction
BY DEF IndInv, RowsFromChain, TypeOK

(***************************************************************************)
(* One step per action.                                                    *)
(***************************************************************************)

LEMMA BeginInv ==
  ASSUME IndInv, NEW c \in Save, NEW n \in SaveCall, Begin(c, n),
         CallOk(n, blocks, seen, transactions), n.answer # "recorded"
  PROVE  IndInv'
<1>1. UNCHANGED <<network, transactions>> /\ save' = [save EXCEPT ![c] = n]
  BY DEF Begin
<1> QED
  BY <1>1, RowsKept, CallStep DEF network

LEMMA ArrivalInv ==
  ASSUME IndInv, NEW c \in Save, Arrival(c)
  PROVE  IndInv'
<1>1. ASSUME NEW code \in {"aborted", "401", "empty"}, Reject(c, code)
      PROVE  IndInv'
  <2> DEFINE n == [Idle EXCEPT !.pc = "done", !.answer = code]
  <2>1. n \in SaveCall /\ n.pc = "done" /\ n.answer = code /\ n.steady = FALSE
    BY DEF Idle, SaveCall, Unknown, Result, Outcome
  <2>2. Begin(c, n)
    BY <1>1 DEF Reject
  <2> HIDE DEF n
  <2>3. CallOk(n, blocks, seen, transactions)
    BY <2>1, <1>1 DEF CallOk
  <2> QED
    BY <2>1, <2>2, <2>3, <1>1, BeginInv
<1>2. ASSUME BeginShow(c)
      PROVE  IndInv'
  <2> DEFINE n == [Idle EXCEPT !.pc = "show"]
  <2>1. n \in SaveCall /\ n.pc = "show" /\ n.answer = "none"
    BY DEF Idle, SaveCall, Unknown, Result, Outcome
  <2>2. Begin(c, n)
    BY <1>2 DEF BeginShow
  <2> HIDE DEF n
  <2>3. CallOk(n, blocks, seen, transactions)
    BY <2>1 DEF CallOk
  <2> QED
    BY <2>1, <2>2, <2>3, BeginInv
<1>3. ASSUME NEW h \in Hash, BeginSave(c, h)
      PROVE  IndInv'
  <2> DEFINE n == [Idle EXCEPT !.pc = "tx", !.hash = h, !.steady = InBlock(h) # {}]
  <2>1. /\ n \in SaveCall /\ n.pc = "tx" /\ n.hash = h /\ n.answer = "none"
        /\ n.steady = (InBlock(h) # {})
    BY DEF Idle, SaveCall, Unknown, Result, Outcome
  <2>2. Begin(c, n)
    BY <1>3 DEF BeginSave
  <2> HIDE DEF n
  <2>3. CallOk(n, blocks, seen, transactions)
    BY <2>1 DEF CallOk, InBlock
  <2> QED
    BY <2>1, <2>2, <2>3, BeginInv
<1> QED
  BY <1>1, <1>2, <1>3 DEF Arrival

\* An answer that reports no row.
LEMMA ReplyInv ==
  ASSUME IndInv, NEW c \in Save, NEW code \in Outcome \ {"recorded"}, NEW ids \in SUBSET Uuid,
         Reply(c, code, ids), UNCHANGED network,
         transactions \subseteq transactions', transactions' \subseteq Transaction,
         RowsFromChain'
  PROVE  IndInv'
<1> DEFINE n == [save[c] EXCEPT !.pc = "done", !.answer = code, !.rows = ids,
                                !.result = Unknown, !.time = None]
<1>1. save[c] \in SaveCall
  BY DEF IndInv, TypeOK
<1>2. n \in SaveCall /\ n.pc = "done" /\ n.answer = code
  BY <1>1 DEF SaveCall, Unknown, Result
<1>3. save' = [save EXCEPT ![c] = n]
  BY DEF Reply, IndInv, TypeOK
<1> HIDE DEF n
<1>4. CallOk(n, blocks', seen', transactions')
  BY <1>2 DEF CallOk
<1> QED
  BY <1>2, <1>3, <1>4, CallStep

\* The request goes on to the second call with an answer.
LEMMA ToBlock ==
  ASSUME IndInv, NEW c \in Save, save[c].pc = "tx", NEW r \in Result, NEW st \in BOOLEAN,
         save' = [save EXCEPT ![c].pc = "block", ![c].result = r, ![c].steady = st],
         UNCHANGED <<network, transactions>>,
         r.hash \in {save[c].hash, None},
         r.block # None => WasIn(r.hash, r.block, seen),
         st => r.block # None /\ r.hash = save[c].hash /\ WasIn(save[c].hash, r.block, blocks)
  PROVE  IndInv'
<1> DEFINE n == [save[c] EXCEPT !.pc = "block", !.result = r, !.steady = st]
<1>1. save[c] \in SaveCall /\ CallOk(save[c], blocks, seen, transactions)
  BY DEF IndInv, TypeOK
<1>2. save[c].hash \in Hash /\ save[c].answer = "none"
  BY <1>1 DEF CallOk
<1>3. /\ n \in SaveCall /\ n.pc = "block" /\ n.result = r
      /\ n.hash = save[c].hash /\ n.steady = st /\ n.answer = "none"
  BY <1>1, <1>2 DEF SaveCall
<1>4. save' = [save EXCEPT ![c] = n]
  BY DEF IndInv, TypeOK
<1> HIDE DEF n
<1>5. ResultOk(n, seen) /\ (n.steady => WasIn(n.hash, n.result.block, blocks))
  BY <1>3 DEF ResultOk
<1>6. CallOk(n, blocks', seen', transactions')
  BY <1>2, <1>3, <1>5 DEF CallOk, network
<1> QED
  BY <1>3, <1>4, <1>6, RowsKept, CallStep DEF network

\* What Etherscan answers is true of the chain, and names the block of a
\* transaction that is in one.
LEMMA AnswersAreTrue ==
  ASSUME IndInv, NEW h \in Hash, NEW r \in AnswersOn(h)
  PROVE  /\ r \in Result /\ r.hash \in {h, None}
         /\ r.block # None => WasIn(r.hash, r.block, seen)
         /\ InBlock(h) # {} => /\ r.block # None /\ r.hash = h
                              /\ WasIn(h, r.block, blocks)
<1>1. /\ \A b \in blocks : TxsOf[b] \subseteq known /\ b \in seen
      /\ blocks \subseteq Block
  BY DEF IndInv, ChainOk, TypeOK
<1>2. \A b \in Block : HeightOf[b] \in Height /\ HeightOf[b] # None
  BY TransactionsAssumption
<1>3. CASE h \notin known
  BY <1>1, <1>3 DEF AnswersOn, Unknown, Result, InBlock
<1>4. CASE h \in known /\ InBlock(h) = {}
  BY <1>4 DEF AnswersOn, Result
<1>5. CASE h \in known /\ InBlock(h) # {}
  <2>1. PICK b \in InBlock(h) : r = [hash |-> h, block |-> HeightOf[b]]
    BY <1>5 DEF AnswersOn
  <2>2. b \in blocks /\ h \in TxsOf[b] /\ b \in seen /\ b \in Block
    BY <1>1 DEF InBlock
  <2>3. r.hash = h /\ r.block = HeightOf[b] /\ r \in Result
    BY <2>1, <2>2, <1>2 DEF Result
  <2> QED
    BY <2>2, <2>3, <1>2 DEF WasIn
<1> QED
  BY <1>3, <1>4, <1>5

LEMMA GetTransactionInv ==
  ASSUME IndInv, NEW c \in Save, GetTransaction(c) \/ GetTransactionErrs(c)
  PROVE  IndInv'
<1>1. /\ save[c] \in SaveCall /\ CallOk(save[c], blocks, seen, transactions)
      /\ save[c].pc = "tx" /\ UNCHANGED <<network, transactions>>
  BY DEF IndInv, TypeOK, GetTransaction, GetTransactionErrs, At
<1>2. save[c].hash \in Hash /\ save[c].steady \in BOOLEAN
  BY <1>1 DEF CallOk, SaveCall
<1>3. CASE GetTransaction(c)
  <2>1. PICK r \in AnswersOn(save[c].hash) :
          save' = [save EXCEPT ![c].pc = "block", ![c].result = r]
    BY <1>3 DEF GetTransaction
  <2>2. save' = [save EXCEPT ![c].pc = "block", ![c].result = r, ![c].steady = save[c].steady]
    BY <2>1, <1>1 DEF IndInv, TypeOK, SaveCall
  <2>3. save[c].steady => InBlock(save[c].hash) # {}
    BY <1>1 DEF CallOk, InBlock
  <2>4. /\ r \in Result /\ r.hash \in {save[c].hash, None}
        /\ r.block # None => WasIn(r.hash, r.block, seen)
        /\ InBlock(save[c].hash) # {} => /\ r.block # None /\ r.hash = save[c].hash
                                        /\ WasIn(save[c].hash, r.block, blocks)
    BY <1>2, AnswersAreTrue
  <2> QED
    BY <1>1, <1>2, <2>2, <2>3, <2>4, ToBlock
<1>4. CASE GetTransactionErrs(c)
  <2>1. Unknown \in Result /\ Unknown.hash = None /\ Unknown.block = None
    BY DEF Unknown, Result
  <2>2. save' = [save EXCEPT ![c].pc = "block", ![c].result = Unknown, ![c].steady = FALSE]
    BY <1>4 DEF GetTransactionErrs
  <2> QED
    BY <1>1, <2>1, <2>2, ToBlock
<1> QED
  BY <1>3, <1>4

LEMMA GotTimeInv ==
  ASSUME IndInv, NEW c \in Save, save[c].pc = "block", NEW b \in BlocksAt(save[c].result.block),
         GotTime(c, b), UNCHANGED <<network, transactions>>
  PROVE  IndInv'
<1> DEFINE n == [save[c] EXCEPT !.pc = "create", !.time = b]
<1>1. save[c] \in SaveCall /\ CallOk(save[c], blocks, seen, transactions)
  BY DEF IndInv, TypeOK
<1>2. b \in blocks /\ b \in seen /\ b \in Block
  BY DEF BlocksAt, IndInv, TypeOK, ChainOk
<1>3. /\ n \in SaveCall /\ n.pc = "create" /\ n.time = b /\ n.result = save[c].result
      /\ n.hash = save[c].hash /\ n.steady = save[c].steady /\ n.answer = save[c].answer
  BY <1>1, <1>2 DEF SaveCall
<1>4. save' = [save EXCEPT ![c] = n]
  BY DEF GotTime, IndInv, TypeOK
<1> HIDE DEF n
<1>5. ResultOk(save[c], seen) /\ save[c].answer = "none" /\ save[c].hash \in Hash
  BY <1>1 DEF CallOk
<1>6. save[c].result.block # None => HeightOf[b] = save[c].result.block
  BY DEF BlocksAt
<1>7. save[c].steady => save[c].hash \in TxsOf[b]
  <2> HAVE save[c].steady
  <2>1. PICK d \in blocks : HeightOf[d] = save[c].result.block /\ save[c].hash \in TxsOf[d]
    BY <1>1 DEF CallOk, WasIn
  <2>2. HeightOf[b] = HeightOf[d]
    BY <2>1, <1>5, <1>6 DEF ResultOk
  <2>3. b = d
    BY <2>2, <1>2 DEF IndInv, ChainOk
  <2> QED
    BY <2>1, <2>3
<1>8. ResultOk(n, seen) /\ TimeOk(n, seen)
  BY <1>2, <1>3, <1>5, <1>6, <1>7 DEF ResultOk, TimeOk
<1>9. CallOk(n, blocks', seen', transactions')
  BY <1>3, <1>5, <1>8 DEF CallOk, network
<1> QED
  BY <1>3, <1>4, <1>5, <1>9, RowsKept, CallStep DEF network

LEMMA GetBlockInv ==
  ASSUME IndInv, NEW c \in Save, GetBlock(c) \/ GetBlockFails(c)
  PROVE  IndInv'
<1>1. UNCHANGED <<network, transactions>> /\ save[c].pc = "block"
  BY DEF GetBlock, GetBlockFails, At
<1>2. ASSUME NEW b \in BlocksAt(save[c].result.block), GotTime(c, b)
      PROVE  IndInv'
  BY <1>1, <1>2, GotTimeInv
<1>3. ASSUME NEW code \in {"empty", "aborted"}, Reply(c, code, {})
      PROVE  IndInv'
  <2>1. code \in Outcome \ {"recorded"} /\ {} \in SUBSET Uuid
    BY <1>3 DEF Outcome
  <2> QED
    BY <1>1, <1>3, <2>1, RowsKept, ReplyInv DEF network
<1> QED
  BY <1>2, <1>3 DEF GetBlock, GetBlockFails

\* The insert of a row by a request about to create keeps RowsFromChain.
LEMMA InsertRows ==
  ASSUME IndInv, NEW c \in Save, save[c].pc = "create", NEW i \in Uuid, Insert(c, i),
         UNCHANGED seen
  PROVE  /\ RowsFromChain' /\ transactions \subseteq transactions'
         /\ transactions' \subseteq Transaction /\ NewRow(c, i) \in transactions'
<1>1. save[c] \in SaveCall /\ CallOk(save[c], blocks, seen, transactions)
  BY DEF IndInv, TypeOK
<1>2. save[c].result \in Result /\ TimeOk(save[c], seen) /\ ResultOk(save[c], seen)
  BY <1>1 DEF CallOk, SaveCall
<1>3. NewRow(c, i) \in Transaction
  BY <1>2 DEF NewRow, Transaction, Result, TimeOk, IndInv, TypeOK
<1>4. transactions' = transactions \cup {NewRow(c, i)}
  BY DEF Insert
<1>5. NewRow(c, i).block # None =>
        /\ WasIn(NewRow(c, i).hash, NewRow(c, i).block, seen)
        /\ NewRow(c, i).time \in seen /\ HeightOf[NewRow(c, i).time] = NewRow(c, i).block
  BY <1>2 DEF ResultOk, TimeOk, NewRow
<1>6. RowsFromChain'
  BY <1>4, <1>5 DEF IndInv, RowsFromChain, WasIn
<1> QED
  BY <1>3, <1>4, <1>6 DEF IndInv, TypeOK

LEMMA CreateInv ==
  ASSUME IndInv, NEW c \in Save, Create(c)
  PROVE  IndInv'
<1>1. PICK i \in Uuid : Insert(c, i) /\ Reply(c, "recorded", {i})
  BY DEF Create
<1>2. UNCHANGED network /\ save[c].pc = "create"
  BY DEF Create, At
<1>3. /\ RowsFromChain' /\ transactions \subseteq transactions'
      /\ transactions' \subseteq Transaction /\ NewRow(c, i) \in transactions'
  BY <1>1, <1>2, InsertRows DEF network
<1> DEFINE n == [save[c] EXCEPT !.pc = "done", !.answer = "recorded", !.rows = {i},
                                !.result = Unknown, !.time = None]
<1>4. save[c] \in SaveCall /\ CallOk(save[c], blocks, seen, transactions)
  BY DEF IndInv, TypeOK
<1>5. /\ n \in SaveCall /\ n.pc = "done" /\ n.answer = "recorded" /\ n.rows = {i}
      /\ n.hash = save[c].hash /\ n.steady = save[c].steady
  BY <1>4 DEF SaveCall, Outcome, Unknown, Result
<1>6. save' = [save EXCEPT ![c] = n]
  BY <1>1 DEF Reply, IndInv, TypeOK
<1> HIDE DEF n
<1>7. ResultOk(save[c], seen) /\ TimeOk(save[c], seen)
  BY <1>2, <1>4 DEF CallOk
<1>8. RowOk(n, transactions')
  <2>1. NewRow(c, i).id = i /\ NewRow(c, i).hash = save[c].result.hash
        /\ NewRow(c, i).block = save[c].result.block /\ NewRow(c, i).time = save[c].time
    BY DEF NewRow
  <2> QED
    BY <2>1, <1>3, <1>5, <1>7 DEF RowOk, ResultOk, TimeOk
<1>9. CallOk(n, blocks', seen', transactions')
  BY <1>5, <1>8 DEF CallOk
<1>10. n.rows \cap Ids(transactions) = {}
  BY <1>1, <1>5 DEF Insert, UnusedUuid
<1> QED
  BY <1>2, <1>3, <1>5, <1>6, <1>9, <1>10, CallStep

LEMMA CreateFailsInv ==
  ASSUME IndInv, NEW c \in Save, CreateFails(c)
  PROVE  IndInv'
<1>1. /\ Reply(c, "500", {}) /\ UNCHANGED network /\ save[c].pc = "create"
      /\ "500" \in Outcome \ {"recorded"} /\ {} \in SUBSET Uuid
  BY DEF CreateFails, At, Outcome
<1>2. RowsFromChain' /\ transactions \subseteq transactions' /\ transactions' \subseteq Transaction
  <2>1. CASE \E i \in Uuid : Insert(c, i)
    BY <2>1, <1>1, InsertRows DEF network
  <2>2. CASE UNCHANGED transactions
    BY <2>2, <1>1, RowsKept DEF network
  <2> QED
    BY <2>1, <2>2 DEF CreateFails
<1> QED
  BY <1>1, <1>2, ReplyInv

LEMMA ShowInv ==
  ASSUME IndInv, NEW c \in Save, Show(c) \/ ShowFails(c)
  PROVE  IndInv'
<1>1. UNCHANGED <<network, transactions>>
  BY DEF Show, ShowFails
<1>2. Ids(transactions) \in SUBSET Uuid /\ {} \in SUBSET Uuid
  BY DEF Ids, IndInv, TypeOK, Transaction
<1>3. {"listed", "404"} \subseteq Outcome \ {"recorded"}
  BY DEF Outcome
<1>4. Reply(c, "listed", Ids(transactions)) \/ Reply(c, "404", {})
  BY DEF Show, ShowFails
<1> QED
  BY <1>1, <1>2, <1>3, <1>4, RowsKept, ReplyInv DEF network

LEMMA LostInv ==
  ASSUME IndInv, Lost
  PROVE  IndInv'
<1>1. UNCHANGED <<network, transactions>> /\ save' = [c \in Save |-> Idle]
  BY DEF Lost
<1>2. TypeOK' /\ ChainOk'
  BY <1>1, IdleOk DEF IndInv, TypeOK, ChainOk, network
<1>3. \A c \in Save : save'[c] = Idle
  BY <1>1
<1>4. \A c \in Save : CallOk(save'[c], blocks', seen', transactions')
  BY <1>3, IdleOk
<1>5. RowsApart'
  BY <1>3 DEF RowsApart, Idle
<1> QED
  BY <1>1, <1>2, <1>4, <1>5, RowsKept DEF IndInv, network

\* The chain grows or nothing of it changes; no request does.
LEMMA ChainStep ==
  ASSUME IndInv, UNCHANGED <<transactions, save>>,
         blocks \subseteq blocks', seen \subseteq seen', seen' \subseteq Block,
         known' \subseteq Hash, ChainOk'
  PROVE  IndInv'
<1>1. blocks' \subseteq Block
  BY DEF ChainOk
<1>2. TypeOK' /\ RowsApart'
  BY <1>1 DEF IndInv, TypeOK, RowsApart
<1>3. RowsFromChain'
  BY DEF IndInv, RowsFromChain
<1>4. ASSUME NEW c \in Save
      PROVE  CallOk(save[c], blocks', seen', transactions')
  <2>1. CallOk(save[c], blocks, seen, transactions)
    BY DEF IndInv
  <2> QED
    BY <2>1, CallOkGrows
<1> QED
  BY <1>2, <1>3, <1>4 DEF IndInv

LEMMA OrphanedInv ==
  ASSUME IndInv, NEW b \in Block, Orphaned(b)
  PROVE  IndInv'
<1>1. blocks' \subseteq blocks /\ UNCHANGED <<known, seen, transactions>>
  BY DEF Orphaned
<1>2. ChainOk' /\ RowsFromChain'
  BY <1>1 DEF IndInv, ChainOk, RowsFromChain
<1>3. ASSUME NEW c \in Save
      PROVE  /\ save'[c] \in SaveCall
             /\ save'[c].answer = save[c].answer /\ save'[c].rows = save[c].rows
             /\ CallOk(save'[c], blocks', seen', transactions')
  <2>1. save[c] \in SaveCall /\ CallOk(save[c], blocks, seen, transactions)
    BY DEF IndInv, TypeOK
  <2>2. CASE InFlight(c) /\ \E d \in blocks \ blocks' : save[c].hash \in TxsOf[d]
    <3> DEFINE n == [save[c] EXCEPT !.steady = FALSE]
    <3>1. /\ n \in SaveCall /\ n.pc = save[c].pc /\ n.answer = save[c].answer
          /\ n.rows = save[c].rows /\ n.hash = save[c].hash /\ n.result = save[c].result
          /\ n.time = save[c].time /\ n.steady = FALSE
      BY <2>1 DEF SaveCall
    <3>2. save'[c] = n
      BY <2>2 DEF Orphaned
    <3> HIDE DEF n
    <3>3. ResultOk(save[c], seen) => ResultOk(n, seen)
      BY <3>1 DEF ResultOk
    <3>4. TimeOk(save[c], seen) => TimeOk(n, seen)
      BY <3>1 DEF TimeOk
    <3>5. RowOk(save[c], transactions) => RowOk(n, transactions)
      BY <3>1 DEF RowOk
    <3>6. CallOk(n, blocks', seen', transactions')
      BY <2>1, <3>1, <3>3, <3>4, <3>5, <1>1 DEF CallOk
    <3> QED
      BY <3>1, <3>2, <3>6
  <2>3. CASE ~(InFlight(c) /\ \E d \in blocks \ blocks' : save[c].hash \in TxsOf[d])
    <3>1. save'[c] = save[c]
      BY <2>3 DEF Orphaned
    <3>2. save[c].pc \in {"tx", "block"} =>
            \A d \in blocks : save[c].hash \in TxsOf[d] => d \in blocks'
      BY <2>3 DEF InFlight, Free
    <3>3. CallOk(save[c], blocks', seen', transactions')
      BY <2>1, <3>2, <1>1, CallOkGrows
    <3> QED
      BY <2>1, <3>1, <3>3
  <2> QED
    BY <2>2, <2>3
<1>4. RowsApart'
  BY <1>3 DEF IndInv, RowsApart
<1>5. TypeOK'
  <2>1. save' = [c \in Save |-> save'[c]]
    BY DEF Orphaned
  <2> QED
    BY <2>1, <1>1, <1>3 DEF IndInv, TypeOK
<1> QED
  BY <1>2, <1>3, <1>4, <1>5 DEF IndInv

\* The new block has a number above all others and transactions of none.
LEMMA MinedInv ==
  ASSUME IndInv, NEW b \in Block, Mined(b)
  PROVE  IndInv'
<1>1. /\ blocks' = blocks \cup {b} /\ seen' = seen \cup {b}
      /\ known' = known \cup TxsOf[b] /\ UNCHANGED <<transactions, save>>
  BY DEF Mined
<1>2. /\ blocks \subseteq Block /\ seen \subseteq Block /\ known \subseteq Hash
      /\ TxsOf[b] \subseteq Hash
  BY TransactionsAssumption DEF IndInv, TypeOK
<1>3. \A d \in blocks : HeightOf[d] # HeightOf[b] /\ TxsOf[d] \cap TxsOf[b] = {}
  <2>1. \A d \in blocks : HeightOf[d] \in Nat /\ HeightOf[b] \in Nat
    BY <1>2, TransactionsAssumption
  <2> QED
    BY <2>1 DEF Mined
<1>4. ChainOk'
  BY <1>1, <1>3 DEF IndInv, ChainOk
<1> QED
  BY <1>1, <1>2, <1>4, ChainStep

LEMMA ChainInv ==
  ASSUME IndInv, Chain
  PROVE  IndInv'
<1>1. ASSUME NEW h \in Hash, Sent(h)
      PROVE  IndInv'
  <2>1. /\ UNCHANGED <<blocks, seen, transactions, save>> /\ known' = known \cup {h}
    BY <1>1 DEF Sent
  <2>2. ChainOk'
    BY <2>1 DEF IndInv, ChainOk
  <2> QED
    BY <2>1, <2>2, ChainStep DEF IndInv, TypeOK
<1>2. ASSUME NEW h \in Hash, Dropped(h)
      PROVE  IndInv'
  <2>1. /\ UNCHANGED <<blocks, seen, transactions, save>> /\ known' = known \ {h}
        /\ \A b \in blocks : h \notin TxsOf[b]
    BY <1>2 DEF Dropped, InBlock
  <2>2. ChainOk'
    BY <2>1 DEF IndInv, ChainOk
  <2> QED
    BY <2>1, <2>2, ChainStep DEF IndInv, TypeOK
<1> QED
  BY <1>1, <1>2, OrphanedInv, MinedInv DEF Chain

LEMMA InitInv == Init => IndInv
<1> SUFFICES ASSUME Init PROVE IndInv
  OBVIOUS
<1>1. \A c \in Save : save[c] = Idle
  BY DEF Init
<1>2. TypeOK
  BY IdleOk DEF Init, TypeOK
<1>3. ChainOk /\ RowsFromChain
  BY DEF Init, ChainOk, RowsFromChain
<1>4. RowsApart
  BY <1>1 DEF RowsApart, Idle
<1>5. \A c \in Save : CallOk(save[c], blocks, seen, transactions)
  BY <1>1, IdleOk
<1> QED
  BY <1>2, <1>3, <1>4, <1>5 DEF IndInv

LEMMA NextInv == IndInv /\ [Next]_vars => IndInv'
<1> SUFFICES ASSUME IndInv, [Next]_vars PROVE IndInv'
  OBVIOUS
<1>1. CASE UNCHANGED vars
  BY <1>1 DEF vars, network, IndInv, TypeOK, ChainOk, RowsFromChain, RowsApart
<1>2. ASSUME NEW c \in Save, Step(c)
      PROVE  IndInv'
  BY <1>2, GetTransactionInv, GetBlockInv, CreateInv, ShowInv DEF Step
<1>3. ASSUME NEW c \in Save, Failure(c)
      PROVE  IndInv'
  <2>1. Exit(c) => Lost
    BY DEF Exit
  <2> QED
    BY <2>1, <1>3, LostInv, GetTransactionInv, GetBlockInv, CreateFailsInv, ShowInv
       DEF Failure
<1>4. CASE Kill
  BY <1>4, LostInv DEF Kill
<1> QED
  BY <1>1, <1>2, <1>3, <1>4, ArrivalInv, ChainInv DEF Next

(***************************************************************************)
(* The theorems.                                                           *)
(***************************************************************************)

\* The invariant holds of every behaviour.
THEOREM Invariance == Spec => []IndInv
BY InitInv, NextInv, PTL DEF Spec

\* The variables have their types.
THEOREM TypeCorrect == Spec => []TypeOK
<1>1. IndInv => TypeOK
  BY DEF IndInv
<1> QED
  BY <1>1, Invariance, PTL

\* A row with a block number is of a transaction that was in a block of that number,
\* and has the time of a block of that number: not always the same one.
THEOREM RowsAreFromTheChain == Spec => []RowsFromChain
<1>1. IndInv => RowsFromChain
  BY DEF IndInv
<1> QED
  BY <1>1, Invariance, PTL

\* Whoever is told "successfully recorded" has a row of its own, with the time of
\* the very block if the transaction stayed in it.
THEOREM RecordedAreStored == Spec => []RecordedIsStored
<1>1. IndInv => RecordedIsStored
  BY DEF IndInv, CallOk, RowOk, RowsApart, RecordedIsStored
<1> QED
  BY <1>1, Invariance, PTL

(***************************************************************************)
(* The rows that name a block implement Registry.                          *)
(***************************************************************************)

\* The entry of a row, and the rows that have one.
EntryOf(row) == [key |-> row.id, party |-> <<row.hash, row.block>>, content |-> row.time]
Numbered(trs) == {row \in trs : row.block # None}

LEMMA RecordsAre ==
  /\ Records  = {EntryOf(row) : row \in Numbered(transactions)}
  /\ Records' = {EntryOf(row) : row \in Numbered(transactions')}
BY DEF Records, EntryOf, Numbered

\* The steps that change the table, and that nothing is unmined.
LEMMA TableSteps ==
  ASSUME [Next]_vars
  PROVE  /\ seen \subseteq seen'
         /\ \/ UNCHANGED transactions
            \/ /\ UNCHANGED seen
               /\ \E c \in Save : save[c].pc = "create" /\ \E i \in Uuid : Insert(c, i)
<1>1. ASSUME NEW c \in Save, Step(c) \/ Failure(c)
      PROVE  /\ UNCHANGED seen
             /\ UNCHANGED transactions \/ Create(c) \/ CreateFails(c)
  BY <1>1 DEF Step, Failure, GetTransaction, GetBlock, Create, Show, Exit, Lost,
              GetTransactionErrs, GetBlockFails, CreateFails, ShowFails, network
<1>2. ASSUME NEW c \in Save, Arrival(c)
      PROVE  UNCHANGED <<seen, transactions>>
  BY <1>2 DEF Arrival, Reject, BeginShow, BeginSave, Begin, network
<1>3. ASSUME NEW c \in Save, Create(c) \/ CreateFails(c)
      PROVE  \/ UNCHANGED transactions
             \/ save[c].pc = "create" /\ \E i \in Uuid : Insert(c, i)
  BY <1>3 DEF Create, CreateFails, At
<1>4. CASE Chain
  BY <1>4 DEF Chain, Sent, Dropped, Mined, Orphaned
<1>5. CASE Kill \/ UNCHANGED vars
  BY <1>5 DEF Kill, Lost, vars, network
<1> QED
  BY <1>1, <1>2, <1>3, <1>4, <1>5 DEF Next

LEMMA SeenAreBlocks ==
  ASSUME IndInv
  PROVE  seen \subseteq Block
BY DEF IndInv, TypeOK

LEMMA InsertArchives ==
  ASSUME IndInv, NEW c \in Save, save[c].pc = "create", NEW i \in Uuid, Insert(c, i),
         UNCHANGED seen
  PROVE  Archive!Next \/ UNCHANGED Records
<1> DEFINE new == NewRow(c, i)
<1>1. /\ RowsFromChain' /\ transactions' = transactions \cup {new} /\ new \in Transaction
      /\ new.id = i
  BY InsertRows DEF Insert, NewRow
<1> HIDE DEF new
<1>2. CASE new.block = None
  <2>1. Numbered(transactions') = Numbered(transactions)
    BY <1>1, <1>2 DEF Numbered
  <2> QED
    BY <2>1, RecordsAre
<1>3. CASE new.block # None
  <2>1. Numbered(transactions') = Numbered(transactions) \cup {new}
    BY <1>1, <1>3 DEF Numbered
  <2>2. <<new.hash, new.block>> \in MinedIn /\ MinedIn \subseteq Hash \X Height
    <3>1. PICK b \in seen : HeightOf[b] = new.block /\ new.hash \in TxsOf[b]
      BY <1>1, <1>3 DEF RowsFromChain
    <3>2. b \in Block
      BY <3>1, SeenAreBlocks
    <3>3. new.hash \in Hash /\ new.block \in Height
      BY <3>1, <3>2, TransactionsAssumption
    <3> QED
      BY <3>1, <3>3 DEF MinedIn
  <2>3. PICK d : d = EntryOf(new)
    OBVIOUS
  <2>4. d.key = i /\ d.party = <<new.hash, new.block>> /\ d \in Archive!Document
    BY <1>1, <2>2, <2>3 DEF EntryOf, Archive!Document, Transaction
  <2>5. d.key \notin {e.key : e \in Records}
    <3>1. \A row \in transactions : row.id # i
      BY DEF Insert, UnusedUuid, Ids
    <3>2. \A row : EntryOf(row).key = row.id
      BY DEF EntryOf
    <3>3. \A e \in Records : \E row \in transactions : e = EntryOf(row)
      BY RecordsAre DEF Numbered
    <3> QED
      BY <2>4, <3>1, <3>2, <3>3
  <2>6. Records' = Records \cup {d}
    BY <2>1, <2>3, RecordsAre
  <2>7. d \in Records' \ Records
    BY <2>5, <2>6
  <2>8. Archive!Issue
    BY <2>2, <2>4, <2>5, <2>6, <2>7 DEF Archive!Issue, MinedIn
  <2> QED
    BY <2>8 DEF Archive!Next
<1> QED
  BY <1>2, <1>3

\* What was recorded of a block number stays, for a transaction that was in a block
\* of that number
\* (transactions.go:83-92).
THEOREM RecordsAreArchived == Spec => ImplementsArchive
<1>1. Init => Archive!Init
  BY DEF Init, Archive!Init, Records, MinedIn
<1>2. IndInv /\ [Next]_vars => [Archive!Next]_(Archive!vars)
  <2> SUFFICES ASSUME IndInv, [Next]_vars
               PROVE  Archive!Next \/ UNCHANGED <<MinedIn, Records>>
    BY DEF Archive!vars
  <2>1. CASE UNCHANGED transactions
    <3>1. MinedIn \subseteq MinedIn' /\ MinedIn' \in SUBSET (Hash \X Height)
      BY TableSteps DEF MinedIn
    <3>2. UNCHANGED Records
      BY <2>1 DEF Records
    <3> QED
      BY <3>1, <3>2 DEF Archive!Next, Archive!Admit
  <2>2. ASSUME UNCHANGED seen, NEW c \in Save, save[c].pc = "create",
               NEW i \in Uuid, Insert(c, i)
        PROVE  Archive!Next \/ UNCHANGED <<MinedIn, Records>>
    BY <2>2, InsertArchives DEF MinedIn
  <2> QED
    BY <2>1, <2>2, TableSteps
<1> QED
  BY <1>1, <1>2, Invariance, PTL DEF Spec, ImplementsArchive, Archive!Spec
=============================================================================
