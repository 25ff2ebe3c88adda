--------------------------- MODULE MCTransactions ---------------------------
(* Small instances of Transactions for TLC. *)
EXTENDS Transactions

CONSTANTS h1, b1, b2, b3, i1, i2, t1, t2

\* A transaction that may be in the first block or, when an empty block takes the
\* first one's place, in the second.
MCHeightOf == [b \in {b1, b2, b3} |-> IF b = b3 THEN 2 ELSE 1]
MCTxsOf    == [b \in {b1, b2, b3} |-> IF b = b2 THEN {} ELSE {h1}]
=============================================================================
