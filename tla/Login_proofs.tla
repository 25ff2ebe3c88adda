---------------------------- MODULE Login_proofs ----------------------------
(* Proofs about Login, for every number of wallets, spellings and slots. *)
EXTENDS Login, TLAPS

(***************************************************************************)
(* The invariant, one request at a time.  A request's part of it depends   *)
(* only on its own call and on two tables that never shrink, so a step of  *)
(* another request cannot disturb it.                                      *)
(***************************************************************************)

\* What must be true of a call given the accounts table and the nonces stored.
CallOk(c, accts, stored) ==
  /\ c.pc \in {"find", "create", "token"} =>
       /\ c.addr \in Addr
       /\ c.sig.by = WalletOf[c.addr]
       /\ <<c.addr, c.sig.over>> \in stored
  /\ c.pc = "token" => RowsOf(accts, c.addr) # {}
  /\ ~Faults /\ c.answer = "500" => RowsOf(accts, c.addr) # {}

TokensKnown == \A a \in tokens : RowsOf(accounts, a) # {}

\* Redis never holds a nonce that no GetNonce stored.
NoncesStored == \A k \in Key : nonces[k] # NoNonce => <<k, nonces[k]>> \in challenged

IndInv ==
  /\ TypeOK
  /\ TokensKnown
  /\ NoncesStored
  /\ \A r \in LoginReq : CallOk(login[r], accounts, challenged)

LEMMA CallOkGrows ==
  ASSUME NEW c, NEW accts, NEW more, accts \subseteq more,
         NEW stored, NEW later, stored \subseteq later,
         CallOk(c, accts, stored)
  PROVE  CallOk(c, more, later)
BY DEF CallOk, RowsOf

LEMMA IdleOk ==
  ASSUME NEW accts, NEW stored
  PROVE  Idle \in LoginCall /\ CallOk(Idle, accts, stored)
BY DEF Idle, CallOk, LoginCall, Signature, Outcome

\* A step of one request: its call becomes c, the tables only grow.
LEMMA CallStep ==
  ASSUME IndInv, NEW r \in LoginReq, NEW c \in LoginCall,
         login' = [login EXCEPT ![r] = c],
         accounts \subseteq accounts', accounts' \subseteq Account,
         UNCHANGED <<nonces, challenged>>,
         tokens \subseteq tokens', tokens' \subseteq tokens \cup {login[r].addr},
         tokens' # tokens => c.addr \in Addr /\ c.addr = login[r].addr
                             /\ RowsOf(accounts', c.addr) # {},
         CallOk(c, accounts', challenged')
  PROVE  IndInv'
<1>1. TypeOK'
  BY DEF IndInv, TypeOK
<1>2. TokensKnown'
  BY DEF IndInv, TokensKnown, RowsOf
<1>3. NoncesStored'
  BY DEF IndInv, NoncesStored
<1>4. ASSUME NEW q \in LoginReq
      PROVE  CallOk(login'[q], accounts', challenged')
  <2>1. CASE q = r
    BY <2>1 DEF IndInv, TypeOK
  <2>2. CASE q # r
    <3>1. login'[q] = login[q]
      BY <2>2 DEF IndInv, TypeOK
    <3>2. CallOk(login[q], accounts, challenged)
      BY DEF IndInv
    <3> QED
      BY <3>1, <3>2, CallOkGrows
  <2> QED
    BY <2>1, <2>2
<1> QED
  BY <1>1, <1>2, <1>3, <1>4 DEF IndInv

\* The call that was answered is well formed.
LEMMA AnswerType ==
  ASSUME IndInv, NEW r \in LoginReq, NEW code \in Outcome
  PROVE  LET c == [Idle EXCEPT !.pc = "done", !.addr = login[r].addr, !.answer = code]
         IN  c \in LoginCall /\ c.pc = "done" /\ c.answer = code /\ c.addr = login[r].addr
<1> login[r] \in LoginCall
  BY DEF IndInv, TypeOK
<1> QED
  BY DEF LoginCall, Idle, Signature

\* An answer preserves the invariant; a 500 needs faults or the row.
LEMMA AnswerInv ==
  ASSUME IndInv, NEW r \in LoginReq, NEW code \in Outcome, Answer(r, code),
         accounts \subseteq accounts', accounts' \subseteq Account,
         UNCHANGED <<nonces, challenged>>,
         tokens \subseteq tokens', tokens' \subseteq tokens \cup {login[r].addr},
         tokens' # tokens => login[r].addr \in Addr /\ RowsOf(accounts', login[r].addr) # {},
         ~Faults /\ code = "500" => RowsOf(accounts', login[r].addr) # {}
  PROVE  IndInv'
<1> DEFINE c == [Idle EXCEPT !.pc = "done", !.addr = login[r].addr, !.answer = code]
<1>1. c \in LoginCall /\ c.pc = "done" /\ c.answer = code /\ c.addr = login[r].addr
  BY AnswerType
<1>2. login' = [login EXCEPT ![r] = c]
  BY DEF Answer
<1> HIDE DEF c
<1>3. CallOk(c, accounts', challenged')
  BY <1>1 DEF CallOk
<1> QED
  BY <1>1, <1>2, <1>3, CallStep

\* Going on preserves it when what the next statement relies on is there.
LEMMA GotoInv ==
  ASSUME IndInv, NEW r \in LoginReq, NEW pc \in {"find", "create", "token"}, Goto(r, pc),
         accounts \subseteq accounts', accounts' \subseteq Account,
         UNCHANGED <<tokens, nonces, challenged>>,
         login[r].addr \in Addr,
         login[r].sig.by = WalletOf[login[r].addr],
         <<login[r].addr, login[r].sig.over>> \in challenged,
         pc = "token" => RowsOf(accounts', login[r].addr) # {}
  PROVE  IndInv'
<1> DEFINE c == [login[r] EXCEPT !.pc = pc]
<1>1. /\ c \in LoginCall /\ c.pc = pc /\ c.addr = login[r].addr
      /\ c.sig = login[r].sig /\ c.answer = login[r].answer
  <2> login[r] \in LoginCall
    BY DEF IndInv, TypeOK
  <2> QED
    BY DEF LoginCall
<1>2. login' = [login EXCEPT ![r] = c]
  BY DEF Goto, IndInv, TypeOK
<1>3. CallOk(login[r], accounts, challenged)
  BY DEF IndInv
<1> HIDE DEF c
<1>4. CallOk(c, accounts', challenged')
  BY <1>1, <1>3 DEF CallOk, RowsOf
<1> QED
  BY <1>1, <1>2, <1>4, CallStep

(***************************************************************************)
(* One step per action.                                                    *)
(***************************************************************************)

LEMMA NonceInv ==
  ASSUME IndInv, NEW r \in LoginReq,
         NonceGet(r) \/ ShortSignature(r) \/ GetFails(r)
  PROVE  IndInv'
<1> USE DEF Outcome
<1>1. accounts \subseteq Account /\ login[r] \in LoginCall /\ login[r].pc = "get"
  BY DEF IndInv, TypeOK, NonceGet, ShortSignature, GetFails, At
<1>2. CASE \E code \in {"empty", "401", "aborted"} :
             Answer(r, code) /\ UNCHANGED <<accounts, tokens, nonces, challenged>>
  BY <1>1, <1>2, AnswerInv
<1>3. CASE /\ NonceOf(r) # NoNonce /\ Verifies(login[r].addr, NonceOf(r), login[r].sig)
           /\ Goto(r, "find")
           /\ UNCHANGED <<accounts, tokens, nonces, challenged>>
  <2>1. login[r].addr \in Addr /\ login[r].sig.by = WalletOf[login[r].addr]
        /\ login[r].sig.over = nonces[login[r].addr] /\ nonces[login[r].addr] # NoNonce
    BY <1>3 DEF Verifies, NonceOf
  <2>2. <<login[r].addr, login[r].sig.over>> \in challenged
    BY <2>1 DEF IndInv, NoncesStored, Key
  <2> QED
    BY <1>1, <1>3, <2>1, <2>2, GotoInv
<1> QED
  BY <1>2, <1>3 DEF NonceGet, ShortSignature, GetFails

\* What is known of a request that has got past the signature.
LEMMA PastSignature ==
  ASSUME IndInv, NEW r \in LoginReq, login[r].pc \in {"find", "create", "token"}
  PROVE  /\ accounts \subseteq Account
         /\ login[r].addr \in Addr
         /\ login[r].sig.by = WalletOf[login[r].addr]
         /\ <<login[r].addr, login[r].sig.over>> \in challenged
         /\ login[r].pc = "token" => RowsOf(accounts, login[r].addr) # {}
BY DEF IndInv, TypeOK, CallOk

LEMMA FindInv ==
  ASSUME IndInv, NEW r \in LoginReq, AccountFind(r) \/ FindFails(r)
  PROVE  IndInv'
<1>1. CASE AccountFind(r)
  BY <1>1, PastSignature, GotoInv DEF AccountFind, AccountOf, At
<1>2. CASE FindFails(r)
  BY <1>2, PastSignature, AnswerInv DEF FindFails, At, Outcome
<1> QED
  BY <1>1, <1>2

LEMMA InsertType ==
  ASSUME accounts \subseteq Account, NEW r, login[r].addr \in Addr, NEW i \in Id,
         InsertAccount(r, i)
  PROVE  /\ accounts \subseteq accounts'
         /\ accounts' \subseteq Account
         /\ RowsOf(accounts', login[r].addr) # {}
<1>1. NewAccount(i, login[r].addr) \in Account
  BY DEF NewAccount, Account, OwnerType
<1>2. NewAccount(i, login[r].addr).addr = login[r].addr
  BY DEF NewAccount
<1> QED
  BY <1>1, <1>2 DEF InsertAccount, RowsOf

LEMMA CreateInv ==
  ASSUME IndInv, NEW r \in LoginReq, AccountCreate(r) \/ CreateFails(r)
  PROVE  IndInv'
<1>1. login[r].pc = "create" /\ UNCHANGED <<tokens, nonces, challenged>>
  BY DEF AccountCreate, CreateFails, At
<1>2. ASSUME NEW i \in Id, InsertAccount(r, i), Goto(r, "token")
      PROVE  IndInv'
  BY <1>1, <1>2, PastSignature, InsertType, GotoInv
<1>3. ASSUME NEW i \in Id, InsertAccount(r, i), Answer(r, "500"), Faults
      PROVE  IndInv'
  BY <1>1, <1>3, PastSignature, InsertType, AnswerInv DEF Outcome
<1>4. ASSUME UNCHANGED accounts, Answer(r, "500"), Faults \/ Taken(login[r].addr)
      PROVE  IndInv'
  BY <1>1, <1>4, PastSignature, AnswerInv DEF Outcome, Taken
<1> QED
  BY <1>2, <1>3, <1>4 DEF AccountCreate, CreateFails

LEMMA GrantInv ==
  ASSUME IndInv, NEW r \in LoginReq, Grant(r) \/ GrantFails(r)
  PROVE  IndInv'
<1>1. CASE Grant(r)
  BY <1>1, PastSignature, AnswerInv DEF Grant, At, Outcome
<1>2. CASE GrantFails(r)
  BY <1>2, PastSignature, AnswerInv DEF GrantFails, At, Outcome
<1> QED
  BY <1>1, <1>2

LEMMA ArrivalInv ==
  ASSUME IndInv, NEW r \in LoginReq, Arrival(r)
  PROVE  IndInv'
<1>1. accounts \subseteq Account
  BY DEF IndInv, TypeOK
<1>2. CASE Reject(r)
  <2> DEFINE c == [Idle EXCEPT !.pc = "done", !.answer = "400"]
  <2>1. c \in LoginCall /\ CallOk(c, accounts', challenged')
    BY DEF Idle, LoginCall, Signature, Outcome, CallOk
  <2>2. login' = [login EXCEPT ![r] = c] /\ UNCHANGED <<accounts, tokens, nonces, challenged>>
    BY <1>2 DEF Reject
  <2> HIDE DEF c
  <2> QED
    BY <1>1, <2>1, <2>2, CallStep
<1>3. ASSUME NEW k \in Key, NEW s \in Signature, Begin(r, k, s)
      PROVE  IndInv'
  <2> DEFINE c == [Idle EXCEPT !.pc = "get", !.addr = k, !.sig = s]
  <2>1. c \in LoginCall /\ CallOk(c, accounts', challenged')
    BY DEF Idle, LoginCall, Outcome, CallOk
  <2>2. login' = [login EXCEPT ![r] = c] /\ UNCHANGED <<accounts, tokens, nonces, challenged>>
    BY <1>3 DEF Begin
  <2> HIDE DEF c
  <2> QED
    BY <1>1, <2>1, <2>2, CallStep
<1> QED
  BY <1>2, <1>3 DEF Arrival

\* Steps outside the requests: the tables of nonces and tokens, a crash.
LEMMA NoncesInv ==
  ASSUME IndInv, Nonces
  PROVE  IndInv'
<1>1. ASSUME NEW k \in Key, NEW n \in Nonce, StoreNonce(k, n)
      PROVE  IndInv'
  <2>1. challenged \subseteq challenged' /\ UNCHANGED <<accounts, tokens, login>>
    BY <1>1 DEF StoreNonce
  <2>2. TypeOK'
    BY <1>1 DEF StoreNonce, IndInv, TypeOK
  <2>3. TokensKnown'
    BY <2>1 DEF IndInv, TokensKnown
  <2>4. NoncesStored'
    BY <1>1 DEF StoreNonce, IndInv, TypeOK, NoncesStored
  <2>5. \A r \in LoginReq : CallOk(login'[r], accounts', challenged')
    BY <2>1, CallOkGrows DEF IndInv
  <2> QED
    BY <2>2, <2>3, <2>4, <2>5 DEF IndInv
<1>2. ASSUME NEW k \in Key, NonceExpires(k)
      PROVE  IndInv'
  <2>1. TypeOK'
    BY <1>2 DEF NonceExpires, IndInv, TypeOK
  <2>2. NoncesStored'
    BY <1>2 DEF NonceExpires, IndInv, TypeOK, NoncesStored
  <2> QED
    BY <1>2, <2>1, <2>2 DEF NonceExpires, IndInv, TokensKnown
<1> QED
  BY <1>1, <1>2 DEF Nonces, HealthProbe, GetNonce, Key

LEMMA ExpireInv ==
  ASSUME IndInv, NEW a \in Addr, Expire(a)
  PROVE  IndInv'
BY DEF Expire, IndInv, TypeOK, TokensKnown, NoncesStored

LEMMA ExitInv ==
  ASSUME IndInv, Exit
  PROVE  IndInv'
<1>1. TypeOK'
  BY IdleOk DEF Exit, IndInv, TypeOK
<1>2. \A r \in LoginReq : CallOk(login'[r], accounts', challenged')
  BY IdleOk DEF Exit
<1> QED
  BY <1>1, <1>2 DEF Exit, IndInv, TokensKnown, NoncesStored

LEMMA StutterInv ==
  ASSUME IndInv, UNCHANGED vars
  PROVE  IndInv'
BY DEF vars, IndInv, TypeOK, TokensKnown, NoncesStored

LEMMA InvInit == Init => IndInv
<1> SUFFICES ASSUME Init
             PROVE  IndInv
  OBVIOUS
<1>1. TypeOK
  BY IdleOk DEF Init, TypeOK
<1>2. \A r \in LoginReq : CallOk(login[r], accounts, challenged)
  BY IdleOk DEF Init
<1> QED
  BY <1>1, <1>2 DEF Init, IndInv, TokensKnown, NoncesStored

LEMMA InvNext == IndInv /\ [Next]_vars => IndInv'
<1> SUFFICES ASSUME IndInv, [Next]_vars
             PROVE  IndInv'
  OBVIOUS
<1>1. ASSUME NEW r \in LoginReq, Request(r)
      PROVE  IndInv'
  BY <1>1, NonceInv, FindInv, CreateInv, GrantInv, ArrivalInv DEF Request, Step, Failure
<1>2. ASSUME NEW a \in Addr, Expire(a)
      PROVE  IndInv'
  BY <1>2, ExpireInv
<1> QED
  BY <1>1, <1>2, NoncesInv, ExitInv, StutterInv DEF Next, Kill

(***************************************************************************)
(* The theorems.                                                           *)
(***************************************************************************)

\* IndInv holds in every reachable state.
THEOREM Invariance == Spec => []IndInv
BY InvInit, InvNext, PTL DEF Spec

\* Every reachable state is well typed.
THEOREM TypeCorrect == Spec => []TypeOK
<1>1. IndInv => TypeOK
  BY DEF IndInv
<1> QED
  BY <1>1, Invariance, PTL

\* Whoever holds a token has an accounts row, and CreateToken (account.go:78)
\* is only reached with one, through races, failed inserts and crashes.
THEOREM TokensHaveAccounts == Spec => []TokenHasAccount
<1>1. IndInv => TokenHasAccount
  BY DEF IndInv, TokenHasAccount, TokensKnown, CallOk, At, AccountOf
<1> QED
  BY <1>1, Invariance, PTL

\* Nobody gets past VerifySignature (account.go:50) without a signature by the
\* named wallet of a nonce stored under that very spelling of its address.
THEOREM SessionsWereChallenged == Spec => []SessionWasChallenged
<1>1. IndInv => SessionWasChallenged
  BY DEF IndInv, SessionWasChallenged, CallOk
<1> QED
  BY <1>1, Invariance, PTL

\* Without faults a 500 means that the row of the address is there: trying the
\* login again succeeds.
THEOREM RetriesSucceed == Spec => []RetrySucceeds
<1>1. IndInv => RetrySucceeds
  BY DEF IndInv, RetrySucceeds, CallOk, AccountOf
<1> QED
  BY <1>1, Invariance, PTL

(***************************************************************************)
(* Login implements Sessions.                                              *)
(***************************************************************************)

Known == {row.addr : row \in accounts}

\* The insert opens the account of an address that had none.
LEMMA InsertOpens ==
  ASSUME IndInv, NEW r \in LoginReq, NEW i \in Id, login[r].pc = "create",
         InsertAccount(r, i), UNCHANGED tokens
  PROVE  Promise!Next
<1>1. PICK a \in Addr : a = login[r].addr
  BY PastSignature
<1>2. PICK new : new = NewAccount(i, a)
  OBVIOUS
<1>3. new.addr = a
  BY <1>2 DEF NewAccount
<1>4. accounts' = accounts \cup {new} /\ a \notin Known
  BY <1>1, <1>2 DEF InsertAccount, Taken, RowsOf, Known
<1>5. Known' = Known \cup {a}
  BY <1>3, <1>4 DEF Known
<1>6. Promise!OpenAccount(a)
  BY <1>4, <1>5 DEF Promise!OpenAccount, Known
<1> QED
  BY <1>6 DEF Promise!Next

\* Every step of Login opens an account, grants or loses a token, or changes
\* nothing that Sessions sees.
LEMMA SessionsNext == IndInv /\ [Next]_vars => [Promise!Next]_(Promise!vars)
<1> SUFFICES ASSUME IndInv, [Next]_vars
             PROVE  Promise!Next \/ UNCHANGED <<accounts, tokens>>
  BY DEF Promise!vars
<1>1. ASSUME NEW r \in LoginReq, AccountCreate(r) \/ CreateFails(r)
      PROVE  Promise!Next \/ UNCHANGED <<accounts, tokens>>
  BY <1>1, InsertOpens DEF AccountCreate, CreateFails, At
<1>2. ASSUME NEW r \in LoginReq, Grant(r)
      PROVE  Promise!Next
  <2>1. login[r].addr \in Addr /\ login[r].addr \in Known
    BY <1>2, PastSignature DEF Grant, At, RowsOf, Known
  <2>2. Promise!Grant(login[r].addr)
    BY <1>2, <2>1 DEF Grant, Promise!Grant, Known
  <2> QED
    BY <2>1, <2>2 DEF Promise!Next
<1>3. ASSUME NEW a \in Addr, Expire(a)
      PROVE  Promise!Next
  <2>1. Promise!Expire(a)
    BY <1>3 DEF Expire, Promise!Expire
  <2> QED
    BY <2>1 DEF Promise!Next
<1> QED
  BY <1>1, <1>2, <1>3
     DEF Next, vars, Request, Step, Failure, Arrival, NonceGet, ShortSignature,
         AccountFind, GetFails, FindFails, GrantFails, Reject, Begin, Kill, Exit, Nonces,
         HealthProbe, GetNonce, StoreNonce, NonceExpires

\* The login handler keeps what Sessions promises the other handlers: accounts
\* are opened once and for good, and only their addresses are given tokens.
THEOREM LoginImplementsSessions == Spec => ImplementsSessions
<1>1. Init => Promise!Init
  BY DEF Init, Promise!Init
<1> QED
  BY <1>1, SessionsNext, Invariance, PTL DEF Spec, ImplementsSessions, Promise!Spec
=============================================================================
