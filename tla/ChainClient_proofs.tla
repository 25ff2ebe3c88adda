-------------------------- MODULE ChainClient_proofs --------------------------
(* Proofs about ChainClient, for every number of calls, wallets and documents: *)
(* of the client by an invariant of its own, of the contract by implementing   *)
(* it and citing what Contract_proofs proves.                                  *)
EXTENDS ChainClient, TLAPS, FiniteSetTheorems, WellFoundedInduction

\* The contract with the theorems about it.
CP == INSTANCE Contract_proofs

ClientType == /\ call \in [Call -> ClientCall]
              /\ pool \subseteq Call
              /\ mined \in Nat
              /\ fate \in [Call -> {"none", "ok", "reverted", "replaced", "evicted"}]

(***************************************************************************)
(* Nonces.                                                                 *)
(***************************************************************************)

\* A set of naturals has a least element.
LEMMA Least ==
  ASSUME NEW S \in SUBSET Nat, S # {}
  PROVE  \E n \in S : \A m \in S : n <= m
<1>1. PICK n \in S : \A m \in S : <<m, n>> \notin OpToRel(<, Nat)
  BY NatLessThanWellFounded, WFMin
<1>2. ASSUME NEW m \in S PROVE n <= m
  <2>1. m \in Nat /\ n \in Nat /\ ~(m < n)
    BY <1>1 DEF OpToRel
  <2> QED
    BY <2>1
<1> QED
  BY <1>2

\* One of any Cardinality(pool) + 1 nonces in a row is free.
LEMMA SomeNonceFree ==
  ASSUME ClientType
  PROVE  \E n \in mined..(mined + Cardinality(pool)) : \A c \in pool : call[c].nonce # n
<1> DEFINE I == mined..(mined + Cardinality(pool))
           f == [n \in I |-> CHOOSE c \in pool : call[c].nonce = n]
<1>1. IsFiniteSet(pool) /\ Cardinality(pool) \in Nat /\ mined \in Nat
  <2>1. IsFiniteSet(Call)
    BY FS_Interval, ClientAssumption DEF Call
  <2>2. IsFiniteSet(pool)
    BY <2>1, FS_Subset DEF ClientType
  <2> QED
    BY <2>2, FS_CardinalityType DEF ClientType
<1>2. IsFiniteSet(I) /\ Cardinality(I) = Cardinality(pool) + 1
  <2>1. mined \in Int /\ mined + Cardinality(pool) \in Int /\ ~(mined > mined + Cardinality(pool))
    BY <1>1
  <2>2. /\ IsFiniteSet(I)
        /\ Cardinality(I) = IF mined > mined + Cardinality(pool) THEN 0
                            ELSE (mined + Cardinality(pool)) - mined + 1
    BY <2>1, FS_Interval
  <2> QED
    BY <1>1, <2>1, <2>2
<1>3. SUFFICES ASSUME \A n \in I : \E c \in pool : call[c].nonce = n
               PROVE  FALSE
  OBVIOUS
<1>4. \A n \in I : f[n] \in pool /\ call[f[n]].nonce = n
  BY <1>3
<1>5. f \in [I -> pool]
  BY <1>4
<1>6. Cardinality(pool) < Cardinality(I)
  BY <1>1, <1>2
<1> HIDE DEF f, I
<1>7. \E m, n \in I : m # n /\ f[m] = f[n]
  BY <1>1, <1>2, <1>5, <1>6, FS_PigeonHole
<1> QED
  BY <1>4, <1>7

\* PendingNonce is the least nonce that neither a block nor the pool has used.
LEMMA PendingNonceIs ==
  ASSUME ClientType
  PROVE  /\ PendingNonce \in Nat /\ PendingNonce >= mined
         /\ \A c \in pool : call[c].nonce # PendingNonce
         /\ \A m \in mined..(PendingNonce - 1) : \E c \in pool : call[c].nonce = m
<1> DEFINE I == mined..(mined + Cardinality(pool))
           S == {n \in I : \A c \in pool : call[c].nonce # n}
<1>1. mined \in Nat /\ I \subseteq Nat
  BY DEF ClientType
<1>2. S \in SUBSET Nat /\ S # {}
  BY <1>1, SomeNonceFree
<1>3. PICK n \in S : \A m \in S : n <= m
  BY <1>2, Least
<1>4. ASSUME NEW m \in mined..(n - 1)
      PROVE  \E c \in pool : call[c].nonce = m
  <2>1. n \in Nat /\ m \in Nat /\ m >= mined /\ m < n /\ n \in I
    BY <1>1, <1>3, <1>4
  <2>2. Cardinality(pool) \in Nat
    <3>1. IsFiniteSet(Call)
      BY FS_Interval, ClientAssumption DEF Call
    <3>2. IsFiniteSet(pool)
      BY <3>1, FS_Subset DEF ClientType
    <3> QED
      BY <3>2, FS_CardinalityType
  <2>3. m \in I
    BY <1>1, <2>1, <2>2
  <2>4. m \notin S
    BY <1>3, <2>1
  <2> QED
    BY <2>3, <2>4
<1>5. \E k \in I : /\ \A c \in pool : call[c].nonce # k
                   /\ \A m \in mined..(k - 1) : \E c \in pool : call[c].nonce = m
  BY <1>3, <1>4
<1>6. /\ PendingNonce \in I
      /\ \A c \in pool : call[c].nonce # PendingNonce
      /\ \A m \in mined..(PendingNonce - 1) : \E c \in pool : call[c].nonce = m
  BY <1>5 DEF PendingNonce
<1>7. PendingNonce >= mined
  BY <1>1, <1>6
<1> QED
  BY <1>1, <1>6, <1>7

(***************************************************************************)
(* The client's invariant.                                                 *)
(***************************************************************************)

\* What a call carries, and that those it came after have returned.
Shaped ==
  \A c \in Call :
    /\ call[c].pc \in {"nonce", "send", "wait"} => call[c].kind \in Sending
    /\ call[c].pc = "view" => call[c].kind \notin Sending
    /\ call[c].kind = "mintDoc" => call[c].uri \in Uri
    /\ \A d \in call[c].after : call[d].pc = "returned"

\* A transaction is in the pool or has a fate once it was submitted, not before.
Settled ==
  \A c \in Call :
    /\ call[c].pc \in {"new", "nonce", "send", "view"} => c \notin pool /\ fate[c] = "none"
    /\ c \in pool => fate[c] = "none" /\ call[c].nonce >= mined
    /\ call[c].pc \in {"wait", "returned"} /\ call[c].kind \in Sending =>
         c \in pool \/ fate[c] # "none"

\* The calls whose transactions count: the last of the rivals for each nonce.
Standing == pool \cup Executed \cup Evicted

\* Whoever was replaced has a rival with its nonce that stands.
ReplacedOk ==
  \A c \in Call : fate[c] = "replaced" =>
    \E d \in Standing : call[d].nonce = call[c].nonce

LEMMA StandingCalls ==
  ASSUME ClientType
  PROVE  /\ pool \subseteq Call /\ Executed \subseteq Call /\ Evicted \subseteq Call
         /\ Standing \subseteq Call
BY DEF ClientType, Executed, Evicted, Standing

\* A step that keeps the nonces and takes nobody's standing away.
LEMMA ReplacedStays ==
  ASSUME ClientType, ReplacedOk, \A d \in Standing : d \in Standing' /\ call'[d].nonce = call[d].nonce,
         \A d \in Call : fate'[d] = "replaced" =>
                        fate[d] = "replaced" /\ call'[d].nonce = call[d].nonce
  PROVE  ReplacedOk'
<1> SUFFICES ASSUME NEW c \in Call, fate'[c] = "replaced"
             PROVE  \E d \in Standing' : call'[d].nonce = call'[c].nonce
  BY DEF ReplacedOk
<1>1. PICK d \in Standing : call[d].nonce = call[c].nonce
  BY DEF ReplacedOk
<1> QED
  BY <1>1

\* What was executed has the nonces from 0 up, each once, and the pool holds one
\* transaction per nonce: the rules of the network, which the rest counts on.
NoncesUsedOnce ==
  /\ {call[c].nonce : c \in Executed} = 0..(mined - 1)
  /\ \A c, d \in Executed \cup pool : c # d => call[c].nonce # call[d].nonce

\* Without evictions the nonces below one that is used or about to be are used.
NoGap ==
  Evicted = {} =>
    \A c \in Call : call[c].pc = "send" \/ c \in pool =>
      \A n \in mined..(call[c].nonce - 1) : \E d \in pool : call[d].nonce = n

\* Without evictions nonces are dealt in the order of the calls.
Ordered ==
  Evicted = {} =>
    \A c \in Call : call[c].pc = "send" \/ c \in pool \cup Executed =>
      \A d \in call[c].after :
        call[d].kind \in Sending /\ d \in pool \cup Executed => call[d].nonce < call[c].nonce

ClientOk == Shaped /\ Settled /\ ReplacedOk /\ NoncesUsedOnce /\ NoGap /\ Ordered

\* Calls that begin: c has a new record, nothing is submitted.
LEMMA BeginOk ==
  ASSUME ClientType, ClientOk, NEW c \in Call,
         NEW pc \in {"nonce", "view"}, NEW kind \in Sending \cup {"view"},
         pc = "nonce" <=> kind \in Sending,
         NEW to \in Address \cup {Zero}, NEW u \in Uri \cup {None},
         kind = "mintDoc" => u \in Uri,
         Begin(c, pc, kind, to, u)
  PROVE  ClientType' /\ ClientOk'
<1> DEFINE n == [call[c] EXCEPT !.pc = pc, !.kind = kind, !.to = to, !.uri = u,
                                !.after = Returned]
<1>1. /\ call[c] \in ClientCall /\ call[c].pc = "new" /\ call' = [call EXCEPT ![c] = n]
      /\ UNCHANGED <<pool, mined, fate>>
  BY DEF Begin, At, ClientType
<1>2. Returned \subseteq Call /\ c \notin Returned /\ \A d \in Returned : call[d].pc = "returned"
  BY <1>1 DEF Returned, At
<1>3. /\ n \in ClientCall /\ n.pc = pc /\ n.kind = kind /\ n.uri = u /\ n.after = Returned
      /\ n.nonce = call[c].nonce
  BY <1>1, <1>2 DEF ClientCall
<1> HIDE DEF n
<1>4. ClientType'
  BY <1>1, <1>3 DEF ClientType
<1>5. call'[c] = n /\ \A d \in Call : d # c => call'[d] = call[d]
  BY <1>1 DEF ClientType
<1>6. c \notin pool /\ fate[c] = "none" /\ c \notin Executed
  BY <1>1 DEF ClientOk, Settled, Executed
<1>7. \A d \in Call : c \notin call[d].after /\ call[d].after \subseteq Call
  BY <1>1 DEF ClientOk, Shaped, ClientType, ClientCall
<1>8. Shaped'
  BY <1>2, <1>3, <1>5, <1>7 DEF ClientOk, Shaped
<1>9. Settled'
  BY <1>1, <1>3, <1>5, <1>6 DEF ClientOk, Settled
<1>10. ReplacedOk'
  <2>1. Standing' = Standing /\ c \notin Standing
    BY <1>1, <1>6 DEF Standing, Executed, Evicted
  <2>2. \A d \in Standing : call'[d].nonce = call[d].nonce
    BY <1>5, <2>1, StandingCalls
  <2>3. \A d \in Call : fate'[d] = "replaced" =>
                       fate[d] = "replaced" /\ call'[d].nonce = call[d].nonce
    BY <1>1, <1>5, <1>6
  <2> QED
    BY <2>1, <2>2, <2>3, ReplacedStays DEF ClientOk
<1>11. Executed' = Executed /\ Evicted' = Evicted
  BY <1>1 DEF Executed, Evicted
<1>12. pool \subseteq Call /\ Executed \subseteq Call
  BY DEF ClientType, Executed
<1>13. NoncesUsedOnce'
  <2>1. \A d \in Executed \cup pool : call'[d] = call[d]
    BY <1>5, <1>6, <1>12
  <2> QED
    BY <1>1, <1>11, <2>1 DEF ClientOk, NoncesUsedOnce
<1>14. NoGap'
  BY <1>1, <1>3, <1>5, <1>6, <1>11, <1>12 DEF ClientOk, NoGap
<1>15. Ordered'
  BY <1>1, <1>3, <1>5, <1>6, <1>7, <1>11, <1>12 DEF ClientOk, Ordered
<1> QED
  BY <1>4, <1>8, <1>9, <1>10, <1>13, <1>14, <1>15 DEF ClientOk

\* A call reads its nonce: above all that waits or was executed.
LEMMA ReadNonceOk ==
  ASSUME ClientType, ClientOk, NEW c \in Call, ReadNonce(c)
  PROVE  ClientType' /\ ClientOk'
<1> DEFINE k == PendingNonce
           n == [call[c] EXCEPT !.pc = "send", !.nonce = k]
<1>1. /\ k \in Nat /\ k >= mined
      /\ \A d \in pool : call[d].nonce # k
      /\ \A m \in mined..(k - 1) : \E d \in pool : call[d].nonce = m
  BY PendingNonceIs
<1>2. ClientType
  OBVIOUS
<1>3. /\ call[c] \in ClientCall /\ call[c].pc = "nonce" /\ call' = [call EXCEPT ![c] = n]
      /\ UNCHANGED <<pool, mined, fate>>
  BY <1>2 DEF ReadNonce, At, ClientType
<1> HIDE DEF k
<1>4. /\ n \in ClientCall /\ n.pc = "send" /\ n.kind = call[c].kind /\ n.uri = call[c].uri
      /\ n.after = call[c].after /\ n.nonce = k
  BY <1>1, <1>3 DEF ClientCall
<1> HIDE DEF n
<1>5. ClientType'
  BY <1>2, <1>3, <1>4 DEF ClientType
<1>6. call'[c] = n /\ \A d \in Call : d # c => call'[d] = call[d]
  BY <1>2, <1>3 DEF ClientType
<1>7. c \notin pool /\ fate[c] = "none" /\ c \notin Executed
  BY <1>3 DEF ClientOk, Settled, Executed
<1>8. \A d \in Call : c \notin call[d].after /\ call[d].after \subseteq Call
  BY <1>2, <1>3 DEF ClientOk, Shaped, ClientType, ClientCall
<1>9. Shaped'
  BY <1>3, <1>4, <1>6, <1>8 DEF ClientOk, Shaped
<1>10. Settled'
  BY <1>3, <1>4, <1>6, <1>7 DEF ClientOk, Settled
<1>11. ReplacedOk'
  <2>1. Standing' = Standing /\ c \notin Standing
    BY <1>3, <1>7 DEF Standing, Executed, Evicted
  <2>2. \A d \in Standing : call'[d].nonce = call[d].nonce
    BY <1>6, <2>1, StandingCalls
  <2>3. \A d \in Call : fate'[d] = "replaced" =>
                       fate[d] = "replaced" /\ call'[d].nonce = call[d].nonce
    BY <1>3, <1>6, <1>7
  <2> QED
    BY <2>1, <2>2, <2>3, ReplacedStays DEF ClientOk
<1>12. Executed' = Executed /\ Evicted' = Evicted
  BY <1>3 DEF Executed, Evicted
<1>13. pool \subseteq Call /\ Executed \subseteq Call
  BY <1>2 DEF ClientType, Executed
<1>14. NoncesUsedOnce'
  <2>1. \A d \in Executed \cup pool : call'[d] = call[d]
    BY <1>6, <1>7, <1>13
  <2> QED
    BY <1>3, <1>12, <2>1 DEF ClientOk, NoncesUsedOnce
<1>15. \A d \in pool : call'[d] = call[d]
  BY <1>6, <1>7, <1>13
<1>16. NoGap'
  BY <1>1, <1>3, <1>4, <1>6, <1>7, <1>12, <1>15 DEF ClientOk, NoGap
<1>17. ASSUME Evicted = {}, NEW d \in pool \cup Executed
       PROVE  call[d].nonce < k
  <2>1. call[d].nonce \in Nat /\ mined \in Nat
    BY <1>2, <1>13 DEF ClientType, ClientCall
  <2>2. CASE d \in Executed
    <3>1. call[d].nonce \in 0..(mined - 1)
      BY <2>2 DEF ClientOk, NoncesUsedOnce
    <3> QED
      BY <1>1, <2>1, <3>1
  <2>3. CASE d \in pool
    <3>1. call[d].nonce >= mined /\ call[d].nonce # k
      BY <1>1, <1>13, <2>3 DEF ClientOk, Settled
    <3>2. ASSUME k < call[d].nonce
          PROVE  FALSE
      <4>1. k \in mined..(call[d].nonce - 1)
        BY <1>1, <2>1, <3>2
      <4>2. \E e \in pool : call[e].nonce = k
        BY <1>13, <1>17, <2>3, <4>1 DEF ClientOk, NoGap
      <4> QED
        BY <1>1, <4>2
    <3> QED
      BY <1>1, <2>1, <3>1, <3>2
  <2> QED
    BY <2>2, <2>3
<1>18. Ordered'
  BY <1>3, <1>4, <1>6, <1>7, <1>8, <1>12, <1>13, <1>17 DEF ClientOk, Ordered
<1> QED
  BY <1>5, <1>9, <1>10, <1>11, <1>14, <1>16, <1>18 DEF ClientOk

\* What calls do otherwise: they wait, return or die, and change nothing else.
Moved ==
  /\ call' \in [Call -> ClientCall]
  /\ \A d \in Call :
       /\ call'[d].kind = call[d].kind /\ call'[d].uri = call[d].uri
       /\ call'[d].nonce = call[d].nonce /\ call'[d].after = call[d].after
       /\ call'[d].pc \in {call[d].pc, "wait", "returned", "dead"}
       /\ call[d].pc \in {"new", "returned", "dead"} => call'[d].pc = call[d].pc
       /\ call'[d].pc = "wait" => call[d].kind \in Sending
       /\ call'[d].pc \in {"wait", "returned"} /\ call[d].kind \in Sending =>
            d \in pool' \/ fate'[d] # "none"

LEMMA MovedShaped ==
  ASSUME ClientType, ClientOk, Moved
  PROVE  Shaped' /\ (\A c \in Call : call[c].pc \notin {"new", "nonce"} =>
                                       call'[c].pc \notin {"new", "nonce"})
<1>1. ASSUME NEW c \in Call
      PROVE  /\ call'[c].pc \in {"nonce", "send", "wait"} => call'[c].kind \in Sending
             /\ call'[c].pc = "view" => call'[c].kind \notin Sending
             /\ call'[c].kind = "mintDoc" => call'[c].uri \in Uri
             /\ call[c].pc \notin {"new", "nonce"} => call'[c].pc \notin {"new", "nonce"}
  BY DEF Moved, ClientOk, Shaped
<1>2. ASSUME NEW c \in Call, NEW d \in call'[c].after
      PROVE  call'[d].pc = "returned"
  <2>1. d \in call[c].after /\ d \in Call
    BY <1>2 DEF Moved, ClientType, ClientCall
  <2> QED
    BY <2>1 DEF Moved, ClientOk, Shaped
<1> QED
  BY <1>1, <1>2 DEF Shaped

\* Nothing is submitted.
LEMMA MovedQuietly ==
  ASSUME ClientType, ClientOk, Moved, UNCHANGED <<pool, mined, fate>>
  PROVE  ClientType' /\ ClientOk'
<1>1. ClientType'
  BY DEF ClientType, Moved
<1>2. Settled'
  BY DEF Moved, ClientOk, Settled
<1>3. ReplacedOk'
  <2>1. Standing' = Standing
    BY DEF Standing, Executed, Evicted
  <2>2. \A d \in Call : call'[d].nonce = call[d].nonce
    BY DEF Moved
  <2> QED
    BY <2>1, <2>2, StandingCalls, ReplacedStays DEF ClientOk
<1>4. Executed' = Executed /\ Evicted' = Evicted /\ pool \subseteq Call /\ Executed \subseteq Call
  BY DEF Executed, Evicted, ClientType
<1>5. \A d \in Call : call'[d].nonce = call[d].nonce
  BY DEF Moved
<1>6. NoncesUsedOnce'
  <2>1. {call'[d].nonce : d \in Executed} = {call[d].nonce : d \in Executed}
    BY <1>4, <1>5
  <2> QED
    BY <1>4, <1>5, <2>1 DEF ClientOk, NoncesUsedOnce
<1>7. NoGap'
  BY <1>4, <1>5 DEF ClientOk, NoGap, Moved
<1>8. Ordered'
  <2>1. SUFFICES ASSUME Evicted = {}, NEW c \in Call,
                        call'[c].pc = "send" \/ c \in pool \cup Executed,
                        NEW d \in call'[c].after,
                        call'[d].kind \in Sending, d \in pool \cup Executed
                 PROVE  call'[d].nonce < call'[c].nonce
    BY <1>4 DEF Ordered
  <2>2. d \in call[c].after /\ d \in Call
    BY <2>1, <1>4 DEF Moved
  <2>3. call[c].pc = "send" \/ c \in pool \cup Executed
    BY <2>1 DEF Moved
  <2>4. call[d].kind \in Sending
    BY <2>1, <2>2 DEF Moved
  <2> QED
    BY <1>5, <2>1, <2>2, <2>3, <2>4 DEF ClientOk, Ordered
<1> QED
  BY <1>1, <1>2, <1>3, <1>6, <1>7, <1>8, MovedShaped DEF ClientOk

\* One call's transaction is accepted, and its rivals go.
LEMMA AcceptOk ==
  ASSUME ClientType, ClientOk, NEW c \in Call, call[c].pc = "send", Accept(c),
         Moved, call'[c].pc # "send", UNCHANGED mined
  PROVE  ClientType' /\ ClientOk'
<1>1. /\ call[c].nonce >= mined /\ pool' = (pool \ Rivals(c)) \cup {c}
      /\ fate' = [d \in Call |-> IF d \in Rivals(c) THEN "replaced" ELSE fate[d]]
  BY DEF Accept
<1>2. Rivals(c) = {d \in pool : call[d].nonce = call[c].nonce}
  BY DEF Rivals
<1>3. c \notin pool /\ fate[c] = "none" /\ \A d \in pool : d \in Call /\ fate[d] = "none"
  BY DEF ClientOk, Settled, ClientType
<1>4. fate'[c] = "none" /\ \A d \in Call : fate'[d] = IF d \in Rivals(c) THEN "replaced" ELSE fate[d]
  BY <1>1, <1>2, <1>3
<1>5. Executed' = Executed /\ Evicted' = Evicted /\ pool \subseteq Call /\ Executed \subseteq Call
  <2>1. \A d \in Call : (fate'[d] \in {"ok", "reverted"}) = (fate[d] \in {"ok", "reverted"})
    BY <1>2, <1>3, <1>4
  <2>2. \A d \in Call : (fate'[d] = "evicted") = (fate[d] = "evicted")
    BY <1>2, <1>3, <1>4
  <2> QED
    BY <2>1, <2>2 DEF Executed, Evicted, ClientType
<1>6. ClientType'
  <2>1. fate' \in [Call -> {"none", "ok", "reverted", "replaced", "evicted"}]
    BY <1>1 DEF ClientType
  <2> QED
    BY <1>1, <1>5, <2>1 DEF ClientType, Moved
<1>7. \A d \in Call : call'[d].nonce = call[d].nonce
  BY DEF Moved
<1>8. Settled'
  <2>1. ASSUME NEW d \in Call, call'[d].pc \in {"new", "nonce", "send", "view"}
        PROVE  d \notin pool' /\ fate'[d] = "none"
    <3>1. call[d].pc = call'[d].pc
      BY <2>1 DEF Moved
    <3>2. d # c
      BY <2>1, <3>1
    <3>3. d \notin pool /\ fate[d] = "none"
      BY <2>1, <3>1 DEF ClientOk, Settled
    <3> QED
      BY <1>1, <1>2, <1>4, <3>2, <3>3
  <2>2. ASSUME NEW d \in Call, d \in pool'
        PROVE  fate'[d] = "none" /\ call'[d].nonce >= mined'
    BY <1>1, <1>2, <1>3, <1>4, <1>7, <2>2 DEF ClientOk, Settled
  <2>3. ASSUME NEW d \in Call, call'[d].pc \in {"wait", "returned"}, call'[d].kind \in Sending
        PROVE  d \in pool' \/ fate'[d] # "none"
    BY <2>3 DEF Moved
  <2> QED
    BY <2>1, <2>2, <2>3 DEF Settled
<1>9. ReplacedOk'
  <2>1. c \in Standing' /\ \A d \in Standing : d \in Standing' \/ d \in Rivals(c)
    BY <1>1, <1>5 DEF Standing
  <2>2. SUFFICES ASSUME NEW d \in Call, fate'[d] = "replaced"
                 PROVE  \E e \in Standing' : call[e].nonce = call[d].nonce
    <3>1. Standing' \subseteq Call
      BY <1>6 DEF ClientType, Standing, Executed, Evicted
    <3> QED
      BY <1>7, <2>2, <3>1 DEF ReplacedOk
  <2>3. CASE d \in Rivals(c)
    BY <1>2, <2>1, <2>3
  <2>4. CASE d \notin Rivals(c)
    <3>1. fate[d] = "replaced"
      BY <1>4, <2>2, <2>4
    <3>2. PICK e \in Standing : call[e].nonce = call[d].nonce
      BY <3>1 DEF ClientOk, ReplacedOk
    <3> QED
      BY <1>2, <2>1, <3>2
  <2> QED
    BY <2>3, <2>4
<1>10. NoncesUsedOnce'
  <2>1. {call'[d].nonce : d \in Executed} = {call[d].nonce : d \in Executed}
    BY <1>5, <1>7
  <2>2. \A d \in Executed : call[d].nonce # call[c].nonce
    <3>1. ASSUME NEW d \in Executed PROVE call[d].nonce # call[c].nonce
      <4>1. call[d].nonce \in 0..(mined - 1)
        BY DEF ClientOk, NoncesUsedOnce
      <4>2. call[c].nonce \in Nat /\ mined \in Nat
        BY DEF ClientType, ClientCall
      <4> QED
        BY <1>1, <4>1, <4>2
    <3> QED
      BY <3>1
  <2>3. \A d \in pool \ Rivals(c) : call[d].nonce # call[c].nonce
    BY <1>2
  <2>4. \A d, e \in (Executed \cup pool) : d # e => call[d].nonce # call[e].nonce
    BY DEF ClientOk, NoncesUsedOnce
  <2>5. \A d, e \in Executed \cup pool' : d # e => call[d].nonce # call[e].nonce
    BY <1>1, <2>2, <2>3, <2>4
  <2>6. pool' \subseteq Call
    BY <1>6 DEF ClientType
  <2> QED
    BY <1>5, <1>7, <2>1, <2>5, <2>6 DEF ClientOk, NoncesUsedOnce
<1>11. NoGap'
  <2>1. SUFFICES ASSUME Evicted = {}, NEW d \in Call, call'[d].pc = "send" \/ d \in pool',
                        NEW m \in mined..(call[d].nonce - 1)
                 PROVE  \E e \in pool' : call'[e].nonce = m
    BY <1>5, <1>7 DEF NoGap
  <2>2. call[d].pc = "send" \/ d \in pool
    BY <1>1, <2>1 DEF Moved
  <2>3. PICK e \in pool : call[e].nonce = m
    BY <2>1, <2>2 DEF ClientOk, NoGap
  <2> QED
    BY <1>1, <1>2, <1>3, <1>7, <2>3
<1>12. Ordered'
  <2>1. SUFFICES ASSUME Evicted = {}, NEW x \in Call,
                        call'[x].pc = "send" \/ x \in pool' \cup Executed,
                        NEW d \in call'[x].after,
                        call'[d].kind \in Sending, d \in pool' \cup Executed
                 PROVE  call'[d].nonce < call'[x].nonce
    BY <1>5 DEF Ordered
  <2>2. d \in call[x].after /\ d \in Call
    BY <2>1, <1>5, <1>6 DEF Moved, ClientType
  <2>3. d # c
    BY <2>2 DEF ClientOk, Shaped
  <2>4. call[x].pc = "send" \/ x \in pool \cup Executed
    BY <1>1, <2>1 DEF Moved
  <2>5. call[d].kind \in Sending /\ d \in pool \cup Executed
    BY <1>1, <2>1, <2>2, <2>3 DEF Moved
  <2> QED
    BY <1>7, <2>1, <2>2, <2>4, <2>5 DEF ClientOk, Ordered
<1> QED
  BY <1>6, <1>8, <1>9, <1>10, <1>11, <1>12, MovedShaped DEF ClientOk

\* The transaction that is next in order is executed.
LEMMA MineOk ==
  ASSUME ClientType, ClientOk, NEW c \in pool, call[c].nonce = mined,
         NEW f \in {"ok", "reverted"}, fate' = [fate EXCEPT ![c] = f],
         pool' = pool \ {c}, mined' = mined + 1, UNCHANGED call
  PROVE  ClientType' /\ ClientOk'
<1>1. c \in Call /\ fate[c] = "none" /\ call[c].pc \notin {"new", "nonce", "send", "view"}
  BY DEF ClientOk, Settled, ClientType
<1>2. ClientType'
  BY <1>1 DEF ClientType
<1>3. /\ fate'[c] = f /\ \A d \in Call : d # c => fate'[d] = fate[d]
  BY <1>1 DEF ClientType
<1>4. Executed' = Executed \cup {c} /\ Evicted' = Evicted
  <2>1. \A d \in Call : (fate'[d] \in {"ok", "reverted"}) = (fate[d] \in {"ok", "reverted"} \/ d = c)
    BY <1>3
  <2>2. \A d \in Call : (fate'[d] = "evicted") = (fate[d] = "evicted")
    BY <1>1, <1>3
  <2> QED
    BY <1>1, <2>1, <2>2 DEF Executed, Evicted
<1>5. mined \in Nat /\ \A d \in Call : call[d].nonce \in Nat
  BY DEF ClientType, ClientCall
<1>6. \A d \in pool : d # c => call[d].nonce >= mined + 1
  <2>1. \A d \in pool : d # c => call[d].nonce # mined /\ call[d].nonce >= mined /\ d \in Call
    BY DEF ClientOk, NoncesUsedOnce, Settled, ClientType
  <2> QED
    BY <1>5, <2>1
<1>7. Shaped'
  BY DEF ClientOk, Shaped
<1>8. Settled'
  BY <1>1, <1>3, <1>6 DEF ClientOk, Settled
<1>9. ReplacedOk'
  <2>1. Standing' = Standing
    BY <1>4 DEF Standing
  <2>2. \A d \in Call : fate'[d] = "replaced" => fate[d] = "replaced"
    BY <1>3
  <2> QED
    BY <2>1, <2>2, ReplacedStays DEF ClientOk
<1>10. NoncesUsedOnce'
  <2>1. {call[d].nonce : d \in Executed} = 0..(mined - 1)
    BY DEF ClientOk, NoncesUsedOnce
  <2>2. {call[d].nonce : d \in Executed \cup {c}} = 0..(mined - 1) \cup {mined}
    BY <2>1
  <2>3. 0..(mined + 1 - 1) = 0..(mined - 1) \cup {mined}
    BY <1>5
  <2>4. \A d, e \in Executed' \cup pool' : d # e => call[d].nonce # call[e].nonce
    BY <1>4 DEF ClientOk, NoncesUsedOnce
  <2> QED
    BY <1>4, <2>2, <2>3, <2>4 DEF NoncesUsedOnce
<1>11. NoGap'
  <2>1. SUFFICES ASSUME Evicted = {}, NEW d \in Call, call[d].pc = "send" \/ d \in pool,
                        NEW m \in (mined + 1)..(call[d].nonce - 1)
                 PROVE  \E e \in pool' : call[e].nonce = m
    BY <1>4 DEF NoGap
  <2>2. m \in mined..(call[d].nonce - 1) /\ m # mined
    BY <1>5, <2>1
  <2>3. PICK e \in pool : call[e].nonce = m
    BY <2>1, <2>2 DEF ClientOk, NoGap
  <2> QED
    BY <2>2, <2>3
<1>12. Ordered'
  <2>1. pool' \cup Executed' = pool \cup Executed
    BY <1>4
  <2> QED
    BY <1>4, <2>1 DEF ClientOk, Ordered
<1> QED
  BY <1>2, <1>7, <1>8, <1>9, <1>10, <1>11, <1>12 DEF ClientOk

\* After an eviction nothing is promised of the order.
LEMMA EvictOk ==
  ASSUME ClientType, ClientOk, NEW c \in Call, Evict(c)
  PROVE  ClientType' /\ ClientOk'
<1>1. /\ c \in pool /\ pool' = pool \ {c} /\ fate' = [fate EXCEPT ![c] = "evicted"]
      /\ UNCHANGED <<call, mined>>
  BY DEF Evict
<1>2. fate[c] = "none" /\ call[c].pc \notin {"new", "nonce", "send", "view"}
  BY <1>1 DEF ClientOk, Settled
<1>3. fate'[c] = "evicted" /\ \A d \in Call : d # c => fate'[d] = fate[d]
  BY <1>1 DEF ClientType
<1>4. ClientType'
  BY <1>1 DEF ClientType
<1>5. Executed' = Executed /\ Evicted' # {}
  <2>1. \A d \in Call : (fate'[d] \in {"ok", "reverted"}) = (fate[d] \in {"ok", "reverted"})
    BY <1>2, <1>3
  <2>2. c \in Evicted'
    BY <1>3 DEF Evicted
  <2> QED
    BY <2>1, <2>2 DEF Executed
<1>6. Shaped'
  BY <1>1 DEF ClientOk, Shaped
<1>7. Settled'
  BY <1>1, <1>2, <1>3 DEF ClientOk, Settled
<1>8. ReplacedOk'
  <2>1. Evicted \subseteq Evicted' /\ c \in Evicted'
    BY <1>1, <1>2, <1>3 DEF Evicted
  <2>2. \A d \in Standing : d \in Standing'
    BY <1>1, <1>5, <2>1 DEF Standing
  <2>3. \A d \in Call : fate'[d] = "replaced" => fate[d] = "replaced"
    BY <1>3
  <2> QED
    BY <1>1, <2>2, <2>3, ReplacedStays DEF ClientOk
<1>9. NoncesUsedOnce'
  BY <1>1, <1>5 DEF ClientOk, NoncesUsedOnce
<1>10. NoGap' /\ Ordered'
  BY <1>5 DEF NoGap, Ordered
<1> QED
  BY <1>4, <1>6, <1>7, <1>8, <1>9, <1>10 DEF ClientOk

\* Whoever was submitted still is, or has a fate.
LEMMA StillSettled ==
  ASSUME ClientType, ClientOk, NEW c \in Call, Accept(c) \/ UNCHANGED <<pool, fate>>,
         NEW d \in Call, d \in pool \/ fate[d] # "none"
  PROVE  d \in pool' \/ fate'[d] # "none"
BY DEF Accept, Rivals

LEMMA GotoMoves ==
  ASSUME ClientType, ClientOk, NEW c \in Call, Accept(c) \/ UNCHANGED <<pool, fate>>,
         NEW pc \in {"wait", "returned"}, Goto(c, pc), call[c].pc \in {"send", "wait", "view"},
         pc = "wait" => call[c].kind \in Sending,
         call[c].kind \in Sending => c \in pool' \/ fate'[c] # "none"
  PROVE  Moved /\ call'[c].pc = pc
<1> DEFINE n == [call[c] EXCEPT !.pc = pc]
<1>1. call[c] \in ClientCall /\ call' = [call EXCEPT ![c] = n]
  BY DEF ClientType, Goto
<1>2. /\ n \in ClientCall /\ n.pc = pc /\ n.kind = call[c].kind /\ n.uri = call[c].uri
      /\ n.nonce = call[c].nonce /\ n.after = call[c].after
  BY <1>1 DEF ClientCall
<1> HIDE DEF n
<1>3. call'[c] = n /\ (\A d \in Call : d # c => call'[d] = call[d])
  BY <1>1 DEF ClientType
<1>4. call' \in [Call -> ClientCall]
  BY <1>1, <1>2 DEF ClientType
<1>5. ASSUME NEW d \in Call, d # c
      PROVE  /\ call'[d].pc = "wait" => call[d].kind \in Sending
             /\ call'[d].pc \in {"wait", "returned"} /\ call[d].kind \in Sending =>
                  d \in pool' \/ fate'[d] # "none"
  BY <1>3, <1>5, StillSettled DEF ClientOk, Settled, Shaped
<1> QED
  BY <1>2, <1>3, <1>4, <1>5 DEF Moved

LEMMA DieMoves ==
  ASSUME ClientType, ClientOk, NEW c \in Running, Accept(c) \/ UNCHANGED <<pool, fate>>, Die
  PROVE  Moved /\ call'[c].pc = "dead"
<1>1. \A d \in Call : call[d] \in ClientCall
  BY DEF ClientType
<1>2. ASSUME NEW d \in Call
      PROVE  /\ call'[d] \in ClientCall
             /\ call'[d].kind = call[d].kind /\ call'[d].uri = call[d].uri
             /\ call'[d].nonce = call[d].nonce /\ call'[d].after = call[d].after
             /\ call'[d].pc = IF d \in Running THEN "dead" ELSE call[d].pc
  <2>1. CASE d \in Running
    <3> DEFINE n == [call[d] EXCEPT !.pc = "dead"]
    <3>1. call'[d] = n
      BY <2>1 DEF Die
    <3>2. /\ n \in ClientCall /\ n.pc = "dead" /\ n.kind = call[d].kind /\ n.uri = call[d].uri
          /\ n.nonce = call[d].nonce /\ n.after = call[d].after
      BY <1>1 DEF ClientCall
    <3> QED
      BY <2>1, <3>1, <3>2
  <2>2. CASE d \notin Running
    BY <1>1, <2>2 DEF Die
  <2> QED
    BY <2>1, <2>2
<1>3. c \in Call /\ call' \in [Call -> ClientCall]
  <2>1. call' = [d \in Call |-> call'[d]]
    BY DEF Die
  <2> QED
    BY <1>2, <2>1 DEF Running
<1>4. ASSUME NEW d \in Call, call'[d].pc \in {"wait", "returned"}, call[d].kind \in Sending
      PROVE  d \in pool' \/ fate'[d] # "none"
  BY <1>2, <1>3, <1>4, StillSettled DEF ClientOk, Settled
<1>5. ASSUME NEW d \in Call
      PROVE  /\ call'[d].pc \in {call[d].pc, "dead"} /\ call'[d].pc # "wait"
             /\ call[d].pc \in {"new", "returned", "dead"} => call'[d].pc = call[d].pc
  BY <1>2 DEF Running
<1> QED
  BY <1>2, <1>3, <1>4, <1>5 DEF Moved

(***************************************************************************)
(* The invariant, action by action.                                        *)
(***************************************************************************)

IndInv == ClientType /\ ClientOk

LEMMA InitInv == Init => IndInv
<1> SUFFICES ASSUME Init PROVE IndInv
  OBVIOUS
<1> DEFINE n == [pc |-> "new", kind |-> "none", to |-> Zero, uri |-> None,
                 nonce |-> 0, after |-> {}]
<1>1. /\ call = [c \in Call |-> n] /\ pool = {} /\ mined = 0
      /\ fate = [c \in Call |-> "none"]
  BY DEF Init
<1>2. /\ n \in ClientCall /\ n.pc = "new" /\ n.kind = "none" /\ n.after = {}
  BY DEF ClientCall
<1> HIDE DEF n
<1>3. \A c \in Call : call[c] = n /\ fate[c] = "none"
  BY <1>1
<1>4. ClientType
  BY <1>1, <1>2 DEF ClientType
<1>7. Executed = {}
  BY <1>3 DEF Executed
<1>8. NoncesUsedOnce
  <2>1. 0..(mined - 1) = {}
    BY <1>1
  <2> QED
    BY <1>1, <1>7, <2>1 DEF NoncesUsedOnce
<1>9. Shaped /\ Settled /\ ReplacedOk
  BY <1>1, <1>2, <1>3 DEF Shaped, Settled, ReplacedOk, Sending
<1>10. NoGap /\ Ordered
  BY <1>1, <1>2, <1>3, <1>7 DEF NoGap, Ordered
<1> QED
  BY <1>4, <1>8, <1>9, <1>10 DEF IndInv, ClientOk

LEMMA ArrivalInv ==
  ASSUME IndInv, NEW c \in Call, Arrival(c)
  PROVE  IndInv'
<1>1. PICK pc \in {"nonce", "view"}, kind \in Sending \cup {"view"},
           to \in Address \cup {Zero}, u \in Uri \cup {None} :
        /\ Begin(c, pc, kind, to, u)
        /\ pc = "nonce" <=> kind \in Sending
        /\ (kind = "mintDoc" => u \in Uri)
  <2> DEFINE P(pc, kind, to, u) == /\ Begin(c, pc, kind, to, u)
                                   /\ pc = "nonce" <=> kind \in Sending
                                   /\ (kind = "mintDoc" => u \in Uri)
  <2> SUFFICES \E pc \in {"nonce", "view"}, kind \in Sending \cup {"view"},
                  to \in Address \cup {Zero}, u \in Uri \cup {None} : P(pc, kind, to, u)
    OBVIOUS
  <2>1. CASE \E to \in Listee : NewOrg(c, to)
    <3>1. PICK to \in Listee : Begin(c, "nonce", "newOrg", to, None)
      BY <2>1 DEF NewOrg
    <3>2. to \in Address \cup {Zero} /\ P("nonce", "newOrg", to, None)
      BY <3>1, ClientAssumption DEF Sending
    <3> HIDE DEF P
    <3> QED
      BY <3>2 DEF Sending
  <2>2. CASE \E to \in Receiver, u \in Uri : MintDoc(c, to, u)
    <3>1. PICK to \in Receiver, u \in Uri : Begin(c, "nonce", "mintDoc", to, u)
      BY <2>2 DEF MintDoc
    <3>2. to \in Address \cup {Zero} /\ P("nonce", "mintDoc", to, u)
      BY <3>1, ClientAssumption DEF Sending
    <3> HIDE DEF P
    <3> QED
      BY <3>2 DEF Sending
  <2>3. CASE Deploy(c)
    <3>1. P("nonce", "deploy", Zero, None)
      BY <2>3 DEF Deploy, Sending
    <3> HIDE DEF P
    <3> QED
      BY <3>1 DEF Sending
  <2>4. CASE BeginView(c)
    <3>1. P("view", "view", Zero, None)
      BY <2>4 DEF BeginView, Sending
    <3> HIDE DEF P
    <3> QED
      BY <3>1 DEF Sending
  <2> QED
    BY <2>1, <2>2, <2>3, <2>4 DEF Arrival
<1> QED
  BY <1>1, BeginOk DEF IndInv

LEMMA StepInv ==
  ASSUME IndInv, NEW c \in Call, Step(c)
  PROVE  IndInv'
<1> SUFFICES ClientType' /\ ClientOk'
  BY DEF IndInv
<1>2. ClientType /\ ClientOk /\ call[c] \in ClientCall
  BY DEF IndInv, ClientType
<1>3. CASE ReadNonce(c)
  BY <1>2, <1>3, ReadNonceOk
<1>4. CASE Send(c)
  <2> DEFINE pc == IF call[c].kind = "deploy" THEN "wait" ELSE "returned"
  <2>1. call[c].pc = "send" /\ Accept(c) /\ Goto(c, pc) /\ UNCHANGED mined
    BY <1>4 DEF Send, At
  <2>2. pc \in {"wait", "returned"} /\ (pc = "wait" => call[c].kind \in Sending)
    BY DEF Sending
  <2>3. c \in pool'
    BY <2>1 DEF Accept
  <2> HIDE DEF pc
  <2>4. Moved /\ call'[c].pc = pc
    BY <1>2, <2>1, <2>2, <2>3, GotoMoves
  <2> QED
    BY <1>2, <2>1, <2>2, <2>4, AcceptOk
<1>5. CASE SendRefused(c)
  <2>1. c \in Running /\ Die /\ UNCHANGED <<pool, mined, fate>>
    BY <1>5 DEF SendRefused, Running, At
  <2> QED
    BY <1>2, <2>1, DieMoves, MovedQuietly
<1>6. CASE Wait(c)
  <2>1. call[c].pc = "wait" /\ UNCHANGED <<pool, mined, fate>>
    BY <1>6 DEF Wait, At
  <2>2. CASE fate[c] = "ok" /\ Goto(c, "returned")
    BY <1>2, <2>1, <2>2, GotoMoves, MovedQuietly
  <2>3. CASE Die
    <3>1. c \in Running
      BY <2>1 DEF Running
    <3> QED
      BY <1>2, <2>1, <2>3, <3>1, DieMoves, MovedQuietly
  <2> QED
    BY <1>6, <2>2, <2>3 DEF Wait
<1>7. CASE View(c)
  <2>1. call[c].pc = "view" /\ Goto(c, "returned") /\ UNCHANGED <<pool, mined, fate>>
    BY <1>7 DEF View, At
  <2>2. call[c].kind \notin Sending
    BY <1>2, <2>1 DEF ClientOk, Shaped
  <2> QED
    BY <1>2, <2>1, <2>2, GotoMoves, MovedQuietly
<1> QED
  BY <1>3, <1>4, <1>5, <1>6, <1>7 DEF Step

LEMMA CallFailsInv ==
  ASSUME IndInv, NEW c \in Call, CallFails(c)
  PROVE  IndInv'
<1>1. /\ c \in Running /\ UNCHANGED mined
      /\ (call[c].pc = "send" /\ Accept(c)) \/ UNCHANGED <<pool, fate>>
      /\ Die \/ (call[c].pc = "view" /\ Goto(c, "returned"))
  BY DEF CallFails, At
<1> SUFFICES ClientType' /\ ClientOk'
  BY DEF IndInv
<1>2. ClientType /\ ClientOk
  BY DEF IndInv
<1>3. CASE Die
  <2>1. Moved /\ call'[c].pc = "dead"
    BY <1>1, <1>2, <1>3, DieMoves
  <2>2. CASE call[c].pc = "send" /\ Accept(c)
    BY <1>1, <1>2, <2>1, <2>2, AcceptOk DEF Running
  <2>3. CASE UNCHANGED <<pool, fate>>
    BY <1>1, <1>2, <2>1, <2>3, MovedQuietly
  <2> QED
    BY <1>1, <2>2, <2>3
<1>4. CASE call[c].pc = "view" /\ Goto(c, "returned")
  <2>1. c \in Call /\ call[c].kind \notin Sending
    BY <1>2, <1>4 DEF ClientOk, Shaped
  <2>2. UNCHANGED <<pool, mined, fate>>
    BY <1>1, <1>4
  <2> QED
    BY <1>2, <1>4, <2>1, <2>2, GotoMoves, MovedQuietly
<1> QED
  BY <1>1, <1>3, <1>4

LEMMA MineInv ==
  ASSUME IndInv, NEW c \in Call, Mine(c)
  PROVE  IndInv'
<1>1. /\ c \in pool /\ call[c].nonce = mined /\ pool' = pool \ {c} /\ mined' = mined + 1
      /\ UNCHANGED call
      /\ \E f \in {"ok", "reverted"} : fate' = [fate EXCEPT ![c] = f]
  BY DEF Mine
<1> QED
  BY <1>1, MineOk DEF IndInv

\* What others do at the contract does not reach the client.
LEMMA ClientKept ==
  ASSUME ClientType, ClientOk, UNCHANGED client
  PROVE  ClientType' /\ ClientOk'
BY DEF client, ClientType, ClientOk, Shaped, Settled, ReplacedOk, NoncesUsedOnce, NoGap, Ordered,
       Standing, Executed, Evicted

LEMMA InvNext == IndInv /\ [Next]_vars => IndInv'
<1> SUFFICES ASSUME IndInv, [Next]_vars PROVE IndInv'
  OBVIOUS
<1>1. ASSUME NEW c \in Call, Evict(c)
      PROVE  IndInv'
  BY <1>1, EvictOk DEF IndInv
<1>2. CASE Outside \/ UNCHANGED vars
  <2>1. UNCHANGED client
    BY <1>2 DEF Outside, OrgMints, Transfers, vars, client
  <2> QED
    BY <2>1, ClientKept DEF IndInv
<1> QED
  BY <1>1, <1>2, StepInv, ArrivalInv, MineInv, CallFailsInv DEF Next

(***************************************************************************)
(* The theorems about the client.                                          *)
(***************************************************************************)

\* The invariant is inductive.
THEOREM Invariance == Spec => []IndInv
BY InitInv, InvNext, PTL DEF Spec

\* Without evictions a call that begins after another has returned is executed
\* after it (contract.go:229-233).
THEOREM OrderIsKept == Spec => []OrderKept
<1>1. IndInv => OrderKept
  <2> SUFFICES ASSUME IndInv, Evicted = {}, NEW c \in Executed, NEW d \in call[c].after,
                      call[d].kind \in Sending
               PROVE  d \notin pool /\ (d \in Executed => call[d].nonce < call[c].nonce)
    BY DEF OrderKept
  <2>1. c \in Call
    BY DEF Executed
  <2>2. d \in pool \cup Executed => call[d].nonce < call[c].nonce
    BY <2>1 DEF IndInv, ClientOk, Ordered
  <2>3. d \notin pool
    <3> SUFFICES ASSUME d \in pool PROVE FALSE
      OBVIOUS
    <3>1. d \in Call /\ call[d].nonce >= mined /\ call[d].nonce \in Nat /\ mined \in Nat
      BY DEF IndInv, ClientType, ClientCall, ClientOk, Settled
    <3>2. call[c].nonce \in 0..(mined - 1)
      BY DEF IndInv, ClientOk, NoncesUsedOnce
    <3> QED
      BY <2>2, <3>1, <3>2
  <2> QED
    BY <2>2, <2>3
<1> QED
  BY <1>1, Invariance, PTL

\* A call that returned has its transaction in a block or in the pool, unless it
\* was evicted or another took its nonce over, which in its turn is in a block, in
\* the pool or evicted (contract.go:229-246).
THEOREM ReturnedAreAccountedFor == Spec => []ReturnedIsAccountedFor
<1>1. IndInv => ReturnedIsAccountedFor
  <2> SUFFICES ASSUME IndInv, NEW c \in Returned, call[c].kind \in Sending
               PROVE  \/ c \in Standing
                      \/ fate[c] = "replaced" /\ \E d \in Standing : call[d].nonce = call[c].nonce
    BY DEF ReturnedIsAccountedFor, Standing
  <2>1. c \in Call /\ call[c].pc = "returned"
    BY DEF Returned, At
  <2>2. c \in pool \/ fate[c] # "none"
    BY <2>1 DEF IndInv, ClientOk, Settled
  <2>3. fate[c] \in {"none", "ok", "reverted", "replaced", "evicted"}
    BY <2>1 DEF IndInv, ClientType
  <2>4. fate[c] = "replaced" => \E d \in Standing : call[d].nonce = call[c].nonce
    BY <2>1 DEF IndInv, ClientOk, ReplacedOk
  <2> QED
    BY <2>1, <2>2, <2>3, <2>4 DEF Standing, Executed, Evicted
<1> QED
  BY <1>1, Invariance, PTL

\* Without evictions the transaction with the next nonce is in the pool whenever
\* any is, and nobody waits for a receipt that was lost other than to a rival
\* (contract.go:77, 229, 241): what is left of SubmittedSettles is that the network
\* mines on.
THEOREM PoolIsNeverHeldUp == Spec => []NeverHeldUp
<1>1. IndInv => NeverHeldUp
  <2> SUFFICES ASSUME IndInv, Evicted = {} PROVE NeverHeldUp
    BY DEF NeverHeldUp
  <2>1. ASSUME NEW c \in pool, call[c].nonce # mined
        PROVE  \E d \in pool : call[d].nonce = mined
    <3>1. c \in Call /\ call[c].nonce >= mined /\ call[c].nonce \in Nat /\ mined \in Nat
      BY DEF IndInv, ClientType, ClientCall, ClientOk, Settled
    <3>2. mined \in mined..(call[c].nonce - 1)
      BY <2>1, <3>1
    <3> QED
      BY <3>1, <3>2 DEF IndInv, ClientOk, NoGap
  <2>2. ASSUME NEW c \in Call, At(c, "wait")
        PROVE  c \in pool \cup Executed \/ fate[c] = "replaced"
    <3>1. call[c].kind \in Sending
      BY <2>2 DEF At, IndInv, ClientOk, Shaped
    <3>2. c \in pool \/ fate[c] # "none"
      BY <2>2, <3>1 DEF At, IndInv, ClientOk, Settled
    <3>3. fate[c] \in {"none", "ok", "reverted", "replaced", "evicted"}
      BY DEF IndInv, ClientType
    <3>4. fate[c] # "evicted"
      BY DEF Evicted
    <3> QED
      BY <3>2, <3>3, <3>4 DEF Executed
  <2> QED
    BY <2>1, <2>2 DEF NeverHeldUp
<1> QED
  BY <1>1, Invariance, PTL

(***************************************************************************)
(* The contract, and what is known of it.                                  *)
(***************************************************************************)

\* A call's transaction, mined, is one the contract's specification allows.
LEMMA MineIsToken ==
  ASSUME IndInv, NEW c \in Call, Mine(c)
  PROVE  Token!Next \/ UNCHANGED token
<1>1. call[c] \in ClientCall /\ Owner \in Address
  BY ClientAssumption DEF IndInv, ClientType
<1>2. Executes(c) \/ UNCHANGED token
  BY DEF Mine
<1>3. CASE Executes(c) /\ call[c].kind = "newOrg"
  <2>1. Token!NewOrg(Owner, call[c].to) /\ call[c].to \in Address \cup {Zero}
    BY <1>1, <1>3 DEF Executes, ClientCall
  <2> QED
    BY <1>1, <2>1 DEF Token!Next
<1>4. CASE Executes(c) /\ call[c].kind = "mintDoc"
  <2>1. Token!MintDoc(Owner, call[c].to, call[c].uri) /\ call[c].to \in Address \cup {Zero}
    BY <1>1, <1>4 DEF Executes, ClientCall
  <2>2. call[c].to \in Address /\ call[c].uri \in Uri
    BY <1>4, <2>1 DEF Token!MintDoc, Token!MintDocOk, IndInv, ClientOk, Shaped
  <2> QED
    BY <1>1, <2>1, <2>2 DEF Token!Next
<1>5. CASE Executes(c) /\ call[c].kind \notin {"newOrg", "mintDoc"}
  BY <1>5 DEF Executes
<1> QED
  BY <1>2, <1>3, <1>4, <1>5

\* The client, the network and the other senders together implement the contract
\* (contract.go:229-246, mint.sol:17-50): a duplicate, a rival, an eviction or an
\* exit is a step the contract does not see.
THEOREM ClientImplementsContract == Spec => ImplementsContract
<1>1. Init => Token!Init
  BY DEF Init
<1>2. IndInv /\ [Next]_vars => [Token!Next]_(Token!state)
  <2> SUFFICES ASSUME IndInv, [Next]_vars PROVE Token!Next \/ UNCHANGED Token!state
    OBVIOUS
  <2>1. CASE \E c \in Call : Mine(c)
    BY <2>1, MineIsToken DEF token, Token!state
  <2>2. CASE Outside
    BY <2>2 DEF Outside, OrgMints, Transfers, Token!Next
  <2>3. CASE \E c \in Call : Step(c) \/ Arrival(c) \/ CallFails(c) \/ Evict(c)
    <3>1. ASSUME NEW c \in Call, Step(c) PROVE UNCHANGED token
      BY <3>1 DEF Step, ReadNonce, Send, SendRefused, Wait, View
    <3>2. ASSUME NEW c \in Call, Arrival(c) PROVE UNCHANGED token
      BY <3>2 DEF Arrival, NewOrg, MintDoc, Deploy, BeginView, Begin
    <3>3. ASSUME NEW c \in Call, CallFails(c) \/ Evict(c) PROVE UNCHANGED token
      BY <3>3 DEF CallFails, Evict
    <3> QED
      BY <2>3, <3>1, <3>2, <3>3 DEF token, Token!state
  <2>4. CASE UNCHANGED vars
    BY <2>4 DEF vars, Token!state
  <2> QED
    BY <2>1, <2>2, <2>3, <2>4 DEF Next
<1> QED
  BY <1>1, <1>2, Invariance, PTL DEF Spec, ImplementsContract, Token!Spec

\* Token and CP are instances of one module.
LEMMA ToContract == Spec => CP!Spec
<1>1. Token!Init => CP!Init
  BY DEF Token!Init, CP!Init
<1>2. [Token!Next]_(Token!state) => [CP!Next]_(CP!state)
  BY Zenon
     DEF Token!Next, CP!Next, Token!state, CP!state, Token!NewOrg, CP!NewOrg, Token!NewOrgOk,
         CP!NewOrgOk, Token!MintDoc, CP!MintDoc, Token!MintDocOk, CP!MintDocOk, Token!NextId,
         CP!NextId, Token!Transfer, CP!Transfer
<1> QED
  BY <1>1, <1>2, ClientImplementsContract, PTL DEF ImplementsContract, Token!Spec, CP!Spec

\* The client and the contract keep their types.
THEOREM TypeCorrect == Spec => []TypeOK
<1>1. CP!TypeOK /\ IndInv => TypeOK
  BY DEF CP!TypeOK, CP!Doc, IndInv, ClientType, TypeOK, Token!TypeOK, Token!Doc
<1> QED
  BY <1>1, ToContract, CP!TypeCorrect, Invariance, PTL

\* However the server and the organizations interleave, the tokens are numbered
\* without gaps and the two lists of organizations agree (mint.sol:19, 45-46).
THEOREM ContractIsSound == Spec => []ContractSound
<1>1. CP!TokensDense /\ CP!OrgsSound => ContractSound
  BY DEF CP!TokensDense, CP!OrgsSound, ContractSound, Token!TokensDense, Token!OrgsSound
<1> QED
  BY <1>1, ToContract, CP!TokensAreDense, CP!OrgsAreSound, PTL

\* No document by an organization that was not listed, and none changes
\* (mint.sol:19-25, 40-47).
THEOREM TokensImplementRegistry == Spec => ImplementsRegistry
<1>1. CP!ImplementsRegistry => ImplementsRegistry
  <2>1. CP!Record!Init => Token!Record!Init
    BY DEF CP!Record!Init, Token!Record!Init
  <2>2. [CP!Record!Next]_(CP!Record!vars) => [Token!Record!Next]_(Token!Record!vars)
    BY Zenon
       DEF CP!Record!Next, Token!Record!Next, CP!Record!vars, Token!Record!vars,
           CP!Record!Issue, Token!Record!Issue, CP!Record!Admit, Token!Record!Admit,
           CP!Record!Document, Token!Record!Document
  <2> QED
    BY <2>1, <2>2, PTL
       DEF CP!ImplementsRegistry, ImplementsRegistry, Token!ImplementsRegistry,
           CP!Record!Spec, Token!Record!Spec
<1> QED
  BY <1>1, ToContract, CP!ContractImplementsRegistry, PTL
=============================================================================
