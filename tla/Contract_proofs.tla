---------------------------- MODULE Contract_proofs ----------------------------
(* Proofs about Contract, for every number of wallets, organizations and       *)
(* documents.                                                                  *)
EXTENDS Contract, TLAPS

(***************************************************************************)
(* The invariant.  Whatever its senders do, a transaction keeps the tokens *)
(* dense and the two lists of organizations in agreement.  A new id is new *)
(* because the ids are dense: tokenIds is the greatest of them.            *)
(***************************************************************************)

IndInv == TypeOK /\ TokensDense /\ OrgsSound

LEMMA InvInit == Init => IndInv
BY DEF Init, IndInv, TypeOK, TokensDense, OrgsSound

LEMMA NewOrgInv ==
  ASSUME IndInv, NEW sender, NEW o \in Address \cup {Zero}, NewOrg(sender, o)
  PROVE  IndInv'
<1>1. /\ listed' = listed \cup {o} /\ orgs' = Append(orgs, o) /\ tokenIds' = tokenIds
      /\ docs' = docs /\ guarded' = guarded
      /\ guarded => o # Zero /\ o \notin listed
  BY DEF NewOrg, NewOrgOk
<1>2. orgs \in Seq(Address \cup {Zero}) /\ listed = {orgs[i] : i \in DOMAIN orgs}
  BY DEF IndInv, TypeOK, OrgsSound
<1>3. /\ orgs' \in Seq(Address \cup {Zero}) /\ DOMAIN orgs' = DOMAIN orgs \cup {Len(orgs) + 1}
      /\ orgs'[Len(orgs) + 1] = o /\ Len(orgs) + 1 \notin DOMAIN orgs
      /\ \A i \in DOMAIN orgs : orgs'[i] = orgs[i]
  <2> DEFINE A == Address \cup {Zero}
  <2>1. orgs \in Seq(A) /\ o \in A /\ orgs' = Append(orgs, o)
    BY <1>1, <1>2
  <2> HIDE DEF A
  <2>2. orgs' \in Seq(A) /\ Len(orgs') = Len(orgs) + 1 /\ Len(orgs) \in Nat
    BY <2>1
  <2>3. DOMAIN orgs = 1..Len(orgs) /\ DOMAIN orgs' = 1..(Len(orgs) + 1)
    BY <2>1, <2>2
  <2>4. 1..(Len(orgs) + 1) = 1..Len(orgs) \cup {Len(orgs) + 1}
    BY <2>2
  <2>5. orgs'[Len(orgs) + 1] = o /\ \A i \in 1..Len(orgs) : orgs'[i] = orgs[i]
    BY <2>1
  <2> QED
    BY <2>2, <2>3, <2>4, <2>5 DEF A
<1>4. TypeOK'
  BY <1>1, <1>3 DEF IndInv, TypeOK
<1>5. TokensDense'
  BY <1>1 DEF IndInv, TokensDense
<1>6. listed' = {orgs'[i] : i \in DOMAIN orgs'}
  BY <1>1, <1>2, <1>3
<1>7. ASSUME guarded'
      PROVE  /\ Zero \notin listed'
             /\ \A i, j \in DOMAIN orgs' : orgs'[i] = orgs'[j] => i = j
  <2>1. Zero \notin listed /\ (\A i, j \in DOMAIN orgs : orgs[i] = orgs[j] => i = j)
    BY <1>1, <1>7 DEF IndInv, OrgsSound
  <2>2. \A i \in DOMAIN orgs : orgs[i] # o
    BY <1>1, <1>2, <1>7
  <2> QED
    BY <1>1, <1>3, <1>7, <2>1, <2>2
<1> QED
  BY <1>4, <1>5, <1>6, <1>7 DEF IndInv, OrgsSound

LEMMA MintDocInv ==
  ASSUME IndInv, NEW sender \in Address, NEW user \in Address \cup {Zero}, NEW u \in Uri,
         MintDoc(sender, user, u)
  PROVE  IndInv'
<1> DEFINE d == [id |-> tokenIds + 1, by |-> sender, holder |-> user, uri |-> u]
<1>1. /\ listed' = listed /\ orgs' = orgs /\ tokenIds' = tokenIds + 1
      /\ docs' = docs \cup {d} /\ guarded' = guarded /\ user \in Address
  BY DEF MintDoc, MintDocOk, NextId
<1>2. d.id = tokenIds + 1 /\ tokenIds \in Nat /\ d \in Doc
  BY <1>1 DEF IndInv, TypeOK, Doc
<1> HIDE DEF d
<1>3. TypeOK'
  BY <1>1, <1>2 DEF IndInv, TypeOK
<1>4. {e.id : e \in docs} = 1..tokenIds /\ (\A e, f \in docs : e.id = f.id => e = f)
  BY DEF IndInv, TokensDense
<1>5. \A e \in docs : e.id # tokenIds + 1
  BY <1>2, <1>4
<1>6. {e.id : e \in docs'} = 1..tokenIds'
  <2>1. {e.id : e \in docs'} = 1..tokenIds \cup {tokenIds + 1}
    BY <1>1, <1>2, <1>4
  <2>2. 1..(tokenIds + 1) = 1..tokenIds \cup {tokenIds + 1}
    BY <1>2
  <2> QED
    BY <1>1, <2>1, <2>2
<1>7. \A e, f \in docs' : e.id = f.id => e = f
  BY <1>1, <1>2, <1>4, <1>5
<1>8. OrgsSound'
  BY <1>1 DEF IndInv, OrgsSound
<1> QED
  BY <1>3, <1>6, <1>7, <1>8 DEF IndInv, TokensDense

LEMMA TransferInv ==
  ASSUME IndInv, NEW d, NEW to \in Address, Transfer(d, to)
  PROVE  IndInv'
<1> DEFINE e == [d EXCEPT !.holder = to]
<1>1. /\ d \in docs /\ docs' = (docs \ {d}) \cup {e}
      /\ UNCHANGED <<guarded, listed, orgs, tokenIds>>
  BY DEF Transfer
<1>2. d \in Doc /\ docs \subseteq Doc
  BY <1>1 DEF IndInv, TypeOK
<1>3. e \in Doc /\ e.id = d.id
  BY <1>2 DEF Doc
<1> HIDE DEF e
<1>4. TypeOK'
  BY <1>1, <1>2, <1>3 DEF IndInv, TypeOK
<1>5. {x.id : x \in docs} = 1..tokenIds /\ (\A x, y \in docs : x.id = y.id => x = y)
  BY DEF IndInv, TokensDense
<1>6. {x.id : x \in docs'} = {x.id : x \in docs}
  BY <1>1, <1>3
<1>7. \A x, y \in docs' : x.id = y.id => x = y
  BY <1>1, <1>3, <1>5
<1>8. OrgsSound'
  BY <1>1 DEF IndInv, OrgsSound
<1> QED
  BY <1>1, <1>4, <1>5, <1>6, <1>7, <1>8 DEF IndInv, TokensDense

LEMMA StutterInv ==
  ASSUME IndInv, UNCHANGED state
  PROVE  IndInv'
BY DEF IndInv, state, TypeOK, TokensDense, OrgsSound

LEMMA InvNext == IndInv /\ [Next]_state => IndInv'
<1> SUFFICES ASSUME IndInv, [Next]_state PROVE IndInv'
  OBVIOUS
<1> QED
  BY NewOrgInv, MintDocInv, TransferInv, StutterInv DEF Next

(***************************************************************************)
(* The tokens are a registry.                                              *)
(***************************************************************************)

Row(d) == [key |-> d.id, party |-> d.by, content |-> d.uri]
Rows   == {Row(d) : d \in docs}

\* A new token is a new document of the registry.
LEMMA MintDocIssues ==
  ASSUME IndInv, NEW sender \in Address, NEW user, NEW u \in Uri,
         MintDoc(sender, user, u)
  PROVE  Record!Issue
<1> DEFINE d == [id |-> tokenIds + 1, by |-> sender, holder |-> user, uri |-> u]
           r == [key |-> tokenIds + 1, party |-> sender, content |-> u]
<1>1. /\ listed' = listed /\ docs' = docs \cup {d} /\ sender \in listed
  BY DEF MintDoc, MintDocOk, NextId
<1>2. Row(d) = r
  BY DEF Row
<1>3. Rows' = Rows \cup {r}
  BY <1>1, <1>2 DEF Rows, Row
<1>4. r \in Record!Document /\ r.party = sender /\ r.key = tokenIds + 1
  BY DEF Record!Document, IndInv, TypeOK
<1>5. \A e \in docs : e.id # tokenIds + 1
  <2>1. {e.id : e \in docs} = 1..tokenIds /\ tokenIds \in Nat
    BY DEF IndInv, TokensDense, TypeOK
  <2>2. tokenIds + 1 \notin 1..tokenIds
    BY <2>1
  <2> QED
    BY <2>1, <2>2
<1>6. \A e \in Rows : e.key # tokenIds + 1
  BY <1>5 DEF Rows, Row
<1> HIDE DEF r, d
<1>7. r \notin Rows /\ tokenIds + 1 \notin {e.key : e \in Rows}
  BY <1>4, <1>6
<1> QED
  BY <1>1, <1>3, <1>4, <1>7 DEF Record!Issue, Rows, Row

\* A transfer is none of the registry's business.
LEMMA TransferStutters ==
  ASSUME IndInv, NEW d, NEW to \in Address, Transfer(d, to)
  PROVE  UNCHANGED <<listed, Rows>>
<1> DEFINE e == [d EXCEPT !.holder = to]
<1>1. d \in docs /\ docs' = (docs \ {d}) \cup {e} /\ listed' = listed
  BY DEF Transfer
<1>2. d \in Doc
  BY <1>1 DEF IndInv, TypeOK
<1>3. e.id = d.id /\ e.by = d.by /\ e.uri = d.uri
  BY <1>2 DEF Doc
<1> HIDE DEF e
<1>4. Row(e) = Row(d)
  BY <1>3 DEF Row
<1>5. Rows' = Rows
  BY <1>1, <1>4 DEF Rows, Row
<1> QED
  BY <1>1, <1>5

LEMMA NewOrgAdmits ==
  ASSUME IndInv, NEW sender, NEW o \in Address \cup {Zero}, NewOrg(sender, o)
  PROVE  Record!Admit
<1>1. listed' = listed \cup {o} /\ docs' = docs /\ listed \subseteq Address \cup {Zero}
  BY DEF NewOrg, IndInv, TypeOK
<1> QED
  BY <1>1 DEF Record!Admit

LEMMA RegistryNext == IndInv /\ [Next]_state => [Record!Next]_(Record!vars)
<1> SUFFICES ASSUME IndInv, [Next]_state PROVE Record!Next \/ UNCHANGED Record!vars
  OBVIOUS
<1>1. ASSUME NEW sender \in Address, NEW o \in Address \cup {Zero}, NewOrg(sender, o)
      PROVE  Record!Next
  BY <1>1, NewOrgAdmits DEF Record!Next
<1>2. ASSUME NEW sender \in Address, NEW user \in Address, NEW u \in Uri,
             MintDoc(sender, user, u)
      PROVE  Record!Next
  BY <1>2, MintDocIssues DEF Record!Next
<1>3. ASSUME NEW d \in docs, NEW to \in Address, Transfer(d, to)
      PROVE  UNCHANGED Record!vars
  BY <1>3, TransferStutters DEF Record!vars, Rows, Row
<1>4. CASE UNCHANGED state
  BY <1>4 DEF state, Record!vars
<1> QED
  BY <1>1, <1>2, <1>3, <1>4 DEF Next

(***************************************************************************)
(* The theorems.                                                           *)
(***************************************************************************)

\* The invariant is inductive.
THEOREM Invariance == Spec => []IndInv
BY InvInit, InvNext, PTL DEF Spec

\* The contract keeps its types.
THEOREM TypeCorrect == Spec => []TypeOK
<1>1. IndInv => TypeOK
  BY DEF IndInv
<1> QED
  BY <1>1, Invariance, PTL

\* currentTokenId is the number of documents and the id of the last one, and no
\* two documents share an id (mint.sol:19-24).
THEOREM TokensAreDense == Spec => []TokensDense
<1>1. IndInv => TokensDense
  BY DEF IndInv
<1> QED
  BY <1>1, Invariance, PTL

\* allOrgs and isVerfiedOrg agree, and where the duplicate check was deployed an
\* organization is listed once (mint.sol:40-46).
THEOREM OrgsAreSound == Spec => []OrgsSound
<1>1. IndInv => OrgsSound
  BY DEF IndInv
<1> QED
  BY <1>1, Invariance, PTL

\* No document by an organization that was not listed, and none changes but its
\* holder (mint.sol:19-25, 40-47).
THEOREM ContractImplementsRegistry == Spec => ImplementsRegistry
<1>1. Init => Record!Init
  BY DEF Init, Record!Init
<1> QED
  BY <1>1, RegistryNext, Invariance, PTL DEF Spec, ImplementsRegistry, Record!Spec
=============================================================================
