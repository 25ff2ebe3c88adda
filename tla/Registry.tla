------------------------------ MODULE Registry ------------------------------
(***************************************************************************)
(* What a table that only grows promises, in the database and on the chain *)
(* alike: an append-only record of documents, each under a key of its own  *)
(* and in the name of a party that was admitted first.  A party is a       *)
(* university with a student in Credentials and in PendingRequests, a      *)
(* wallet with an accounts row in Registration, a transaction in a block   *)
(* in Transactions and a listed organization in Contract; the documents    *)
(* are the rows of credentials, of pending_requests, of each table of      *)
(* profiles, of the mined rows of transactions, and the tokens.            *)
(***************************************************************************)
CONSTANTS Party, Key, Content

VARIABLES
  parties,   \* who may have documents
  documents  \* what was issued

vars == <<parties, documents>>

Document == [key : Key, party : Party, content : Content]

Init == parties = {} /\ documents = {}

\* Parties come and never go.
Admit ==
  /\ parties' \in SUBSET Party
  /\ parties \subseteq parties'
  /\ UNCHANGED documents

\* Exactly one document is added; nothing else about the record changes.
Issue ==
  /\ \E d \in documents' \ documents :
       /\ d \in Document
       /\ d.party \in parties
       /\ d.key \notin {e.key : e \in documents}
       /\ documents' = documents \cup {d}
  /\ UNCHANGED parties

Next == Issue \/ Admit

Spec == Init /\ [][Next]_vars
=============================================================================
