--------------------------- MODULE Identity_proofs ---------------------------
(* Proofs about Identity, for every number of wallets, keys and requests.    *)
(*                                                                           *)
(* The proof is by composition.  To Registration a step of the login is      *)
(* signing in, to Login a step of the profile handlers is one that keeps     *)
(* every wallet's account; so the invariants that were proved of the two     *)
(* alone hold in the process that runs both, and so does what follows from   *)
(* them.                                                                     *)
EXTENDS Identity, TLAPS

\* The two components with the theorems about them.
LP == INSTANCE Login_proofs
RP == INSTANCE Registration_proofs

\* Log and LP are instances of one module, and so are Reg and RP.
LEMMA SameLogin ==
  /\ Log!Init <=> LP!Init
  /\ Log!Next <=> LP!Next
  /\ Log!Exit <=> LP!Exit
BY Zenon
   DEF Log!Init, Log!Next, Log!Exit, Log!Key, Log!NoSig, Log!Signature, Log!Idle, Log!At,
       Log!Goto, Log!Answer, Log!Free, Log!StoreNonce, Log!GetNonce, Log!HealthProbe,
       Log!NonceExpires, Log!Begin, Log!Reject, Log!Verifies, Log!NonceOf, Log!NonceGet,
       Log!ShortSignature, Log!AccountOf, Log!AccountFind, Log!Taken, Log!InsertAccount,
       Log!AccountCreate, Log!Grant, Log!Expire, Log!GetFails, Log!FindFails, Log!CreateFails,
       Log!GrantFails, Log!Kill, Log!Step, Log!Failure, Log!Arrival, Log!Request, Log!Nonces,
       Log!RowsOf, Log!Unused, Log!NewAccount,
       LP!Init, LP!Next, LP!Exit, LP!Key, LP!NoSig, LP!Signature, LP!Idle, LP!At,
       LP!Goto, LP!Answer, LP!Free, LP!StoreNonce, LP!GetNonce, LP!HealthProbe,
       LP!NonceExpires, LP!Begin, LP!Reject, LP!Verifies, LP!NonceOf, LP!NonceGet,
       LP!ShortSignature, LP!AccountOf, LP!AccountFind, LP!Taken, LP!InsertAccount,
       LP!AccountCreate, LP!Grant, LP!Expire, LP!GetFails, LP!FindFails, LP!CreateFails,
       LP!GrantFails, LP!Kill, LP!Step, LP!Failure, LP!Arrival, LP!Request, LP!Nonces,
       LP!RowsOf, LP!Unused, LP!NewAccount

LEMMA SameRegistration ==
  /\ Reg!Init <=> RP!Init
  /\ Reg!Next <=> RP!Next
  /\ Reg!Exit <=> RP!Exit
  /\ \A c : /\ Reg!Step(c) <=> RP!Step(c)
            /\ Reg!Failure(c) <=> RP!Failure(c)
BY Zenon
   DEF Reg!Init, Reg!Next, Reg!Exit, Reg!Idle, Reg!At, Reg!Goto, Reg!Answer, Reg!Free,
       Reg!SignIn, Reg!Authorize, Reg!Expire, Reg!Begin, Reg!BeginUser, Reg!BeginOrg,
       Reg!Refuse, Reg!UserFind, Reg!AccountRead, Reg!UserAccount, Reg!UserSave,
       Reg!Insertable, Reg!UserInsert, Reg!UserCreate, Reg!OrgFind, Reg!OrgInsert,
       Reg!OrgCreate, Reg!OrgAccount, Reg!OrgSave, Reg!FindFails, Reg!UserCreateFails,
       Reg!OrgCreateFails, Reg!Fatal, Reg!Kill, Reg!Step, Reg!Failure, Reg!Arrival,
       Reg!Session, Reg!RowsOf, Reg!Mailed, Reg!Unused, Reg!NewAccount, Reg!SetOwner,
       RP!Init, RP!Next, RP!Exit, RP!Idle, RP!At, RP!Goto, RP!Answer, RP!Free,
       RP!SignIn, RP!Authorize, RP!Expire, RP!Begin, RP!BeginUser, RP!BeginOrg,
       RP!Refuse, RP!UserFind, RP!AccountRead, RP!UserAccount, RP!UserSave,
       RP!Insertable, RP!UserInsert, RP!UserCreate, RP!OrgFind, RP!OrgInsert,
       RP!OrgCreate, RP!OrgAccount, RP!OrgSave, RP!FindFails, RP!UserCreateFails,
       RP!OrgCreateFails, RP!Fatal, RP!Kill, RP!Step, RP!Failure, RP!Arrival,
       RP!Session, RP!RowsOf, RP!Mailed, RP!Unused, RP!NewAccount, RP!SetOwner

(***************************************************************************)
(* The invariant: those of the components, and that a wallet's signed      *)
(* nonce is passed on from the token to the handlers, from them to the     *)
(* profile.                                                                *)
(***************************************************************************)

\* The addresses a nonce was stored for and signed by their wallet.
Signed(a, n) == <<a, n>> \in challenged /\ [by |-> WalletOf[a], over |-> n] \in signed
Asked == {a \in Addr : \E n \in Nonce : Signed(a, n)}

Pending(c) == c.pc \notin {"idle", "done"}

Carried ==
  /\ Presented \subseteq signed
  /\ tokens \subseteq Asked
  /\ \A c \in Call : Pending(reg[c]) => reg[c].addr \in Asked
  /\ \A row \in users \cup orgs : row.addr \in Asked

IndInv == LP!IndInv /\ RP!IndInv /\ Carried

LEMMA InitInv == Init => IndInv
<1> SUFFICES ASSUME Init PROVE IndInv
  OBVIOUS
<1>1. LP!IndInv
  BY LP!InvInit, SameLogin, TablesAssumption, LoginAssumption DEF Init
<1>2. RP!IndInv
  BY RP!InvInit, SameRegistration, TablesAssumption, RegistrationAssumption DEF Init
<1>3. Carried
  BY DEF Init, Log!Init, Log!Idle, Log!NoSig, Reg!Init, Reg!Idle, Carried, Pending, Presented
<1> QED
  BY <1>1, <1>2, <1>3 DEF IndInv

(***************************************************************************)
(* The login's side.                                                       *)
(***************************************************************************)

profile == <<users, orgs, reg>>

\* Past VerifySignature a nonce was stored for the address and signed by its wallet;
\* past the accounts row there is one.
LEMMA PastSignature ==
  ASSUME IndInv, NEW r \in LoginReq, login[r].pc \in {"find", "create", "token"}
  PROVE  /\ login[r].addr \in Asked
         /\ login[r].pc = "token" => RowsOf(accounts, login[r].addr) # {}
<1>1. /\ LP!CallOk(login[r], accounts, challenged) /\ challenged \subseteq LP!Key \X Nonce
      /\ login[r].sig \in LP!Signature
  BY DEF IndInv, LP!IndInv, LP!TypeOK, LP!LoginCall
<1>2. /\ login[r].addr \in Addr /\ <<login[r].addr, login[r].sig.over>> \in challenged
      /\ login[r].sig.by = WalletOf[login[r].addr]
  BY <1>1 DEF LP!CallOk
<1>3. login[r].sig.over \in Nonce
  BY <1>1, <1>2
<1>5. Null \notin Nonce
  BY LoginAssumption
<1>6. login[r].sig # Log!NoSig
  BY <1>3, <1>5 DEF Log!NoSig
<1>7. login[r].sig = [by |-> WalletOf[login[r].addr], over |-> login[r].sig.over]
  BY <1>1, <1>2, <1>3, <1>5 DEF LP!Signature, LP!NoSig
<1>8. login[r].sig \in signed
  BY <1>6 DEF Presented, IndInv, Carried
<1>9. Signed(login[r].addr, login[r].sig.over)
  BY <1>2, <1>7, <1>8 DEF Signed
<1>4. login[r].pc = "token" => RowsOf(accounts, login[r].addr) # {}
  BY <1>1 DEF LP!CallOk, LP!RowsOf, RowsOf
<1> QED
  BY <1>2, <1>3, <1>4, <1>9 DEF Asked

\* A login's steps are what Registration expects of logging in.
LEMMA RequestSignsIn ==
  ASSUME IndInv, NEW r \in LoginReq, Log!Request(r), UNCHANGED profile
  PROVE  Reg!Session \/ UNCHANGED Reg!vars
<1> DEFINE a == login[r].addr
<1>1. CASE Log!AccountCreate(r) \/ Log!CreateFails(r)
  <2>1. login[r].pc = "create" /\ UNCHANGED tokens
        /\ ((\E i \in Id : Log!InsertAccount(r, i)) \/ UNCHANGED accounts)
    BY <1>1 DEF Log!AccountCreate, Log!CreateFails, Log!At
  <2>2. a \in Addr
    BY <2>1, PastSignature DEF Asked
  <2>3. ASSUME NEW i \in Id, Log!InsertAccount(r, i) PROVE Reg!SignIn(a)
    BY <2>1, <2>3 DEF Log!InsertAccount, Log!Taken, Log!RowsOf, Log!Unused, Log!NewAccount,
                      Reg!SignIn, Reg!RowsOf, Reg!Unused, Reg!NewAccount, profile
  <2> QED
    BY <2>1, <2>2, <2>3 DEF Reg!Session, Reg!vars, profile
<1>2. CASE Log!Grant(r)
  <2>1. a \in Addr /\ RowsOf(accounts, a) # {}
    BY <1>2, PastSignature DEF Asked, Log!Grant, Log!At
  <2>2. Reg!Authorize(a)
    BY <1>2, <2>1 DEF Log!Grant, Reg!Authorize, Reg!RowsOf, RowsOf, profile
  <2> QED
    BY <2>1, <2>2 DEF Reg!Session
<1> QED
  BY <1>1, <1>2
     DEF Log!Request, Log!Step, Log!Failure, Log!Arrival, Log!NonceGet, Log!ShortSignature,
         Log!AccountFind, Log!GetFails, Log!FindFails, Log!GrantFails, Log!Reject, Log!Begin,
         Reg!vars, profile

LEMMA LoginSideSignsIn ==
  ASSUME IndInv, LoginSide
  PROVE  Reg!Session \/ UNCHANGED Reg!vars
<1>1. UNCHANGED profile
  BY DEF LoginSide, profile
<1>2. CASE \E r \in LoginReq : Log!Request(r)
  BY <1>1, <1>2, RequestSignsIn
<1>3. CASE Log!Nonces
  BY <1>1, <1>3 DEF Log!Nonces, Log!HealthProbe, Log!GetNonce, Log!StoreNonce,
                    Log!NonceExpires, Reg!vars, profile
<1>4. ASSUME NEW a \in Addr, Log!Expire(a) PROVE Reg!Session
  <2>1. Reg!Expire(a)
    BY <1>1, <1>4 DEF Log!Expire, Reg!Expire, profile
  <2> QED
    BY <2>1 DEF Reg!Session
<1> QED
  BY <1>2, <1>3, <1>4 DEF LoginSide

\* What was asked for stays so, and a token goes to whom it was asked for.
LEMMA LoginSideCarries ==
  ASSUME IndInv, LoginSide
  PROVE  Carried'
<1>1. UNCHANGED profile
  BY DEF LoginSide, profile
<1>2. challenged \subseteq challenged' /\ tokens' \subseteq Asked
  <2>1. tokens \subseteq Asked
    BY DEF IndInv, Carried
  <2>2. ASSUME NEW r \in LoginReq, Log!Grant(r)
        PROVE  challenged \subseteq challenged' /\ tokens' \subseteq Asked
    <3>1. login[r].pc = "token" /\ UNCHANGED challenged /\ tokens' = tokens \cup {login[r].addr}
      BY <2>2 DEF Log!Grant, Log!At
    <3> QED
      BY <2>1, <3>1, PastSignature
  <2>3. ASSUME NEW r \in LoginReq, Log!Request(r), ~Log!Grant(r)
        PROVE  UNCHANGED <<tokens, challenged>>
    BY <2>3 DEF Log!Request, Log!Step, Log!Failure, Log!Arrival, Log!NonceGet,
                Log!ShortSignature, Log!AccountFind, Log!AccountCreate, Log!GetFails,
                Log!FindFails, Log!CreateFails, Log!GrantFails, Log!Reject, Log!Begin
  <2>4. CASE Log!Nonces
    BY <2>1, <2>4 DEF Log!Nonces, Log!HealthProbe, Log!GetNonce, Log!StoreNonce,
                      Log!NonceExpires
  <2>5. ASSUME NEW a \in Addr, Log!Expire(a)
        PROVE  challenged \subseteq challenged' /\ tokens' \subseteq Asked
    BY <2>1, <2>5 DEF Log!Expire
  <2> QED
    BY <2>1, <2>2, <2>3, <2>4, <2>5 DEF LoginSide
<1>3. signed' = signed \cup Presented'
  BY DEF LoginSide
<1>4. Asked \subseteq Asked'
  BY <1>2, <1>3 DEF Asked, Signed
<1> QED
  BY <1>1, <1>2, <1>3, <1>4 DEF IndInv, Carried, profile

LEMMA LoginSideInv ==
  ASSUME IndInv, LoginSide
  PROVE  IndInv'
<1>1. LP!Next
  BY SameLogin DEF LoginSide, Log!Next
<1>2. LP!IndInv'
  BY <1>1, LP!InvNext, TablesAssumption, LoginAssumption DEF IndInv
<1>3. RP!Next \/ UNCHANGED RP!vars
  BY LoginSideSignsIn, SameRegistration DEF Reg!Next, Reg!vars, RP!vars
<1>4. RP!IndInv'
  BY <1>3, RP!InvNext, TablesAssumption, RegistrationAssumption DEF IndInv
<1> QED
  BY <1>2, <1>4, LoginSideCarries DEF IndInv

(***************************************************************************)
(* The profile handlers' side.                                             *)
(***************************************************************************)

session == <<tokens, nonces, challenged, login, signed>>

\* The login's invariant only asks that accounts stay with their addresses.
LEMMA LoginKept ==
  ASSUME IndInv, accounts' \subseteq Account, UNCHANGED session,
         \A a : RowsOf(accounts, a) # {} => RowsOf(accounts', a) # {}
  PROVE  LP!IndInv'
<1>1. LP!TypeOK'
  BY DEF IndInv, LP!IndInv, LP!TypeOK, session, Account, LP!Account, OwnerType, LP!OwnerType
<1>2. LP!TokensKnown' /\ LP!NoncesStored'
  BY DEF IndInv, LP!IndInv, LP!TokensKnown, LP!NoncesStored, session, LP!RowsOf, RowsOf
<1>3. \A r \in LoginReq : LP!CallOk(login'[r], accounts', challenged')
  BY DEF IndInv, LP!IndInv, LP!CallOk, session, LP!RowsOf, RowsOf
<1> QED
  BY <1>1, <1>2, <1>3 DEF LP!IndInv

\* What a step of a profile request does to the requests and the profiles.
LEMMA ProfileCarries ==
  ASSUME IndInv, NEW c \in Call, UNCHANGED session,
         \A d \in Call : d # c => reg'[d] = reg[d],
         Pending(reg'[c]) => reg'[c].addr \in Asked,
         \A row \in users' \cup orgs' :
           row \in users \cup orgs \/ (Pending(reg[c]) /\ row.addr = reg[c].addr)
  PROVE  Carried'
<1>1. Asked' = Asked /\ Presented' = Presented
  BY DEF Asked, Signed, Presented, session
<1> QED
  BY <1>1 DEF IndInv, Carried, session

LEMMA StepCarries ==
  ASSUME IndInv, NEW c \in Call, UNCHANGED session,
         \/ Reg!Step(c) \/ Reg!FindFails(c) \/ Reg!UserCreateFails(c) \/ Reg!OrgCreateFails(c)
  PROVE  Carried'
<1>1. reg[c] \in RP!RegCall /\ reg \in [Call -> RP!RegCall]
  BY DEF IndInv, RP!IndInv, RP!TypeOK
<1>2. Pending(reg[c])
  BY DEF Pending, Reg!Step, Reg!FindFails, Reg!UserCreateFails, Reg!OrgCreateFails, Reg!UserFind,
         Reg!UserAccount, Reg!UserSave, Reg!UserCreate, Reg!OrgFind, Reg!OrgCreate,
         Reg!OrgAccount, Reg!OrgSave, Reg!At
<1>3. ASSUME NEW row \in users' \cup orgs'
      PROVE  row \in users \cup orgs \/ row.addr = reg[c].addr
  <2>1. ASSUME NEW i, Reg!UserInsert(c, i), UNCHANGED orgs
        PROVE  row \in users \cup orgs \/ row.addr = reg[c].addr
    BY <2>1 DEF Reg!UserInsert
  <2>2. ASSUME NEW i, Reg!OrgInsert(c, i), UNCHANGED users
        PROVE  row \in users \cup orgs \/ row.addr = reg[c].addr
    BY <2>2 DEF Reg!OrgInsert
  <2> QED
    BY <2>1, <2>2
       DEF Reg!Step, Reg!FindFails, Reg!UserCreateFails, Reg!OrgCreateFails, Reg!UserFind,
           Reg!UserAccount, Reg!UserSave, Reg!UserCreate, Reg!OrgFind, Reg!OrgCreate,
           Reg!OrgAccount, Reg!OrgSave
<1>4. \/ \E pc : Reg!Goto(c, pc)
      \/ \E code : Reg!Answer(c, code)
      \/ \E i, pc : \/ reg' = [reg EXCEPT ![c].org = i, ![c].pc = pc]
                    \/ reg' = [reg EXCEPT ![c].acct = i, ![c].pc = pc]
  BY DEF Reg!Step, Reg!FindFails, Reg!UserCreateFails, Reg!OrgCreateFails, Reg!UserFind,
         Reg!UserAccount, Reg!UserSave, Reg!UserCreate, Reg!OrgFind, Reg!OrgCreate,
         Reg!OrgAccount, Reg!OrgSave
<1>5. \A d \in Call : d # c => reg'[d] = reg[d]
  BY <1>1, <1>4 DEF Reg!Goto, Reg!Answer
<1>6. reg'[c].addr = reg[c].addr \/ reg'[c].pc = "done"
  BY <1>1, <1>4 DEF Reg!Goto, Reg!Answer, Reg!Idle, RP!RegCall
<1>7. Pending(reg'[c]) => reg'[c].addr \in Asked
  BY <1>2, <1>6 DEF IndInv, Carried, Pending
<1> QED
  BY <1>2, <1>3, <1>5, <1>7, ProfileCarries

\* A request is let in with a token.
LEMMA ArrivalCarries ==
  ASSUME IndInv, NEW c \in Call, UNCHANGED session, Reg!Arrival(c)
  PROVE  Carried'
<1>1. reg \in [Call -> RP!RegCall]
  BY DEF IndInv, RP!IndInv, RP!TypeOK
<1>2. /\ UNCHANGED <<users, orgs>>
      /\ \A d \in Call : d # c => reg'[d] = reg[d]
      /\ Pending(reg'[c]) => reg'[c].addr \in tokens
  BY <1>1 DEF Reg!Arrival, Reg!Refuse, Reg!BeginUser, Reg!BeginOrg, Reg!Begin, Reg!Idle, Pending
<1> QED
  BY <1>2, ProfileCarries DEF IndInv, Carried

LEMMA ProfileSideInv ==
  ASSUME IndInv, ProfileSide
  PROVE  IndInv'
<1>1. PICK c \in Call : \/ Reg!Step(c) \/ Reg!Arrival(c) \/ Reg!FindFails(c)
                        \/ Reg!UserCreateFails(c) \/ Reg!OrgCreateFails(c)
  BY DEF ProfileSide
<1>2. UNCHANGED session
  <2>1. UNCHANGED tokens
    BY <1>1 DEF Reg!Arrival, Reg!Refuse, Reg!BeginUser, Reg!BeginOrg, Reg!Begin, Reg!Step,
                Reg!FindFails, Reg!UserCreateFails, Reg!OrgCreateFails, Reg!UserFind,
                Reg!UserAccount, Reg!UserSave, Reg!UserCreate, Reg!OrgFind, Reg!OrgCreate,
                Reg!OrgAccount, Reg!OrgSave
  <2> QED
    BY <2>1 DEF ProfileSide, session
<1>3. RP!Next
  BY <1>1, SameRegistration DEF Reg!Next, Reg!Failure
<1>4. RP!IndInv'
  BY <1>3, RP!InvNext, TablesAssumption, RegistrationAssumption DEF IndInv
<1>5. \A a : RowsOf(accounts, a) # {} => RowsOf(accounts', a) # {}
  <2>1. CASE Reg!Arrival(c)
    BY <2>1 DEF Reg!Arrival, Reg!Refuse, Reg!BeginUser, Reg!BeginOrg, Reg!Begin
  <2>2. CASE RP!Step(c) \/ RP!Failure(c)
    <3>1. \/ UNCHANGED accounts
          \/ \E oid, otype : accounts' = RP!SetOwner(accounts, reg[c].acct, oid, otype)
      BY <2>2, RP!StepTables, TablesAssumption, RegistrationAssumption
    <3>2. accounts \in SUBSET RP!Account
      BY DEF IndInv, RP!IndInv, RP!TypeOK
    <3>3. ASSUME NEW oid, NEW otype, accounts' = RP!SetOwner(accounts, reg[c].acct, oid, otype),
                 NEW a, RP!RowsOf(accounts, a) # {}
          PROVE  RP!RowsOf(accounts', a) # {}
      BY <3>2, <3>3, RP!SetOwnerRows, TablesAssumption, RegistrationAssumption
    <3> QED
      BY <3>1, <3>3 DEF RP!RowsOf, RowsOf
  <2> QED
    BY <1>1, <2>1, <2>2, SameRegistration DEF Reg!Failure
<1>6. accounts' \subseteq Account
  BY <1>4 DEF RP!IndInv, RP!TypeOK, Account, RP!Account, OwnerType, RP!OwnerType
<1>7. LP!IndInv'
  BY <1>2, <1>5, <1>6, LoginKept
<1> QED
  BY <1>1, <1>2, <1>4, <1>7, StepCarries, ArrivalCarries DEF IndInv

(***************************************************************************)
(* The whole.                                                              *)
(***************************************************************************)

LEMMA ExitInv ==
  ASSUME IndInv, Log!Exit, Reg!Exit, UNCHANGED signed
  PROVE  IndInv'
<1>1. LP!IndInv'
  BY LP!ExitInv, SameLogin, TablesAssumption, LoginAssumption DEF IndInv
<1>2. RP!IndInv'
  BY RP!ExitInv, SameRegistration, TablesAssumption, RegistrationAssumption DEF IndInv
<1>3. Carried'
  <2>1. Presented' = {}
    BY DEF Presented, Log!Exit, Log!Idle
  <2> QED
    BY <2>1 DEF IndInv, Carried, Asked, Signed, Pending, Log!Exit, Reg!Exit, Reg!Idle
<1> QED
  BY <1>1, <1>2, <1>3 DEF IndInv

LEMMA NextInv == IndInv /\ [Next]_vars => IndInv'
<1> SUFFICES ASSUME IndInv, [Next]_vars PROVE IndInv'
  OBVIOUS
<1>1. CASE Fatal \/ Kill
  <2>1. Log!Exit /\ Reg!Exit /\ UNCHANGED signed
    BY <1>1 DEF Fatal, Kill, Log!Kill, Reg!Kill, Reg!Fatal
  <2> QED
    BY <2>1, ExitInv
<1>2. CASE UNCHANGED vars
  <2>1. UNCHANGED LP!vars /\ UNCHANGED RP!vars /\ Carried'
    BY <1>2 DEF vars, LP!vars, RP!vars, IndInv, Carried, Asked, Signed, Presented
  <2>2. LP!IndInv'
    BY <2>1, LP!InvNext, TablesAssumption, LoginAssumption DEF IndInv
  <2>3. RP!IndInv'
    BY <2>1, RP!InvNext, TablesAssumption, RegistrationAssumption DEF IndInv
  <2> QED
    BY <2>1, <2>2, <2>3 DEF IndInv
<1> QED
  BY <1>1, <1>2, LoginSideInv, ProfileSideInv DEF Next

(***************************************************************************)
(* The theorems.                                                           *)
(***************************************************************************)

\* The components' invariants hold side by side, and the nonces are carried on.
THEOREM Invariance == Spec => []IndInv
BY InitInv, NextInv, PTL DEF Spec

\* Nobody registers for somebody else: a login presented a signature, by the wallet a
\* profile's address names, of a nonce stored for that address, and nothing else leads
\* to the insert (account.go:50, user.go:60, org.go:116).
THEOREM ProfilesWereChallenged == Spec => []ProfileWasChallenged
<1>1. IndInv => ProfileWasChallenged
  BY DEF IndInv, Carried, Asked, Signed, ProfileWasChallenged
<1> QED
  BY <1>1, Invariance, PTL

(***************************************************************************)
(* What the components promise alone, in one process.                      *)
(***************************************************************************)

\* Logging in is an environment Registration may have: every step of the process
\* is one of Registration, a login's insert as its SignIn, a login's grant as its
\* Authorize and the rest a stutter (account.go:60-85, router.go:35-50).
THEOREM IdentityImplementsRegistration == Spec => ImplementsRegistration
<1>1. Init => Reg!Init
  BY DEF Init
<1>2. IndInv /\ [Next]_vars => [Reg!Next]_(Reg!vars)
  <2> SUFFICES ASSUME IndInv, [Next]_vars PROVE Reg!Next \/ UNCHANGED Reg!vars
    OBVIOUS
  <2>1. CASE LoginSide
    BY <2>1, LoginSideSignsIn DEF Reg!Next
  <2>2. CASE ProfileSide
    BY <2>2 DEF ProfileSide, Reg!Next, Reg!Failure
  <2>3. CASE Fatal \/ Kill
    BY <2>3 DEF Fatal, Kill, Reg!Next, Reg!Failure
  <2>4. CASE UNCHANGED vars
    BY <2>4 DEF vars, Reg!vars
  <2> QED
    BY <2>1, <2>2, <2>3, <2>4 DEF Next
<1> QED
  BY <1>1, <1>2, Invariance, PTL DEF Spec, ImplementsRegistration, Reg!Spec

\* A behaviour of the process is one of the Registration the theorems are about.
LEMMA ToRegistration == Spec => RP!Spec
<1>1. Reg!vars = RP!vars
  BY DEF Reg!vars, RP!vars
<1>2. [Reg!Next]_(Reg!vars) => [RP!Next]_(RP!vars)
  BY SameRegistration DEF Reg!vars, RP!vars
<1> QED
  BY <1>2, SameRegistration, IdentityImplementsRegistration, PTL
     DEF ImplementsRegistration, Reg!Spec, RP!Spec

\* An account is linked to its own wallet's profile or to none, with the logins
\* of every wallet running beside the two handlers (user.go:46-60,
\* org.go:112-131, account.go:60-85).
THEOREM LinksAreSound == Spec => []Reg!LinkSound
<1>1. RP!LinkSound => Reg!LinkSound
  BY DEF RP!LinkSound, Reg!LinkSound, RP!Owners, Reg!Owners
<1> QED
  BY <1>1, ToRegistration, RP!LinksAreSound, TablesAssumption, RegistrationAssumption, PTL

\* With the real login handler, too, whoever is signed in or in a profile handler has an
\* accounts row: in no order of a login's insert, its grant and a profile request does
\* the lookup of user.go:46 or org.go:124 miss one.
THEOREM AccountsAreFound == Spec => []Reg!AccountAlwaysFound
<1>1. RP!AccountAlwaysFound => Reg!AccountAlwaysFound
  BY DEF RP!AccountAlwaysFound, Reg!AccountAlwaysFound, RP!RowsOf, Reg!RowsOf, RP!InFlight,
         Reg!InFlight, RP!AccountRead, Reg!AccountRead
<1> QED
  BY <1>1, ToRegistration, RP!AccountsAreFound, TablesAssumption, RegistrationAssumption, PTL

\* No login moves a link: only a request of the same wallet, at a statement that
\* saves, changes an account (user.go:56-60, org.go:131).
THEOREM LinksAreMovedByOwner == Spec => Reg!LinksMovedByOwner
BY ToRegistration, RP!LinksAreMovedByOwner, TablesAssumption, RegistrationAssumption, PTL
   DEF RP!LinksMovedByOwner, Reg!LinksMovedByOwner, RP!vars, Reg!vars

\* The handlers' chains of statements leave nothing for a login to break: what
\* LoginInMetamask relies on and promises - a token only for an address with a
\* row, only after that very address's nonce was signed, and a lost race that can
\* be retried (account.go:50-85) - holds with both handlers writing the table.
THEOREM LoginsAreSound ==
  Spec => [](Log!TokenHasAccount /\ Log!SessionWasChallenged /\ Log!RetrySucceeds)
<1>1. IndInv => Log!TokenHasAccount
  BY DEF IndInv, LP!IndInv, LP!TokensKnown, LP!CallOk, Log!TokenHasAccount, LP!RowsOf,
         Log!RowsOf, Log!At, Log!AccountOf
<1>2. IndInv => Log!SessionWasChallenged
  BY DEF IndInv, LP!IndInv, LP!CallOk, Log!SessionWasChallenged
<1>3. IndInv => Log!RetrySucceeds
  BY DEF IndInv, LP!IndInv, LP!CallOk, Log!RetrySucceeds, LP!RowsOf, Log!RowsOf, Log!AccountOf
<1> QED
  BY <1>1, <1>2, <1>3, Invariance, PTL

\* The sessions of the process are those of Sessions: the profile handlers, and
\* an exit of the process under any of them, forget nobody (user.go:49-60,
\* org.go:127-131).
THEOREM IdentityImplementsSessions == Spec => Log!ImplementsSessions
<1>1. Spec => RP!KeepsSessions
  BY ToRegistration, RP!RegistrationKeepsSessions, TablesAssumption, RegistrationAssumption, PTL
<1>2. RP!KeepsSessions => Log!ImplementsSessions
  <2>1. RP!Promise!Init <=> Log!Promise!Init
    BY DEF RP!Promise!Init, Log!Promise!Init
  <2>2. [RP!Promise!Next]_(RP!Promise!vars) => [Log!Promise!Next]_(Log!Promise!vars)
    BY Zenon
       DEF RP!Promise!Next, Log!Promise!Next, RP!Promise!vars, Log!Promise!vars,
           RP!Promise!OpenAccount, Log!Promise!OpenAccount, RP!Promise!Grant,
           Log!Promise!Grant, RP!Promise!Expire, Log!Promise!Expire
  <2> QED
    BY <2>1, <2>2, PTL
       DEF RP!KeepsSessions, Log!ImplementsSessions, RP!Promise!Spec, Log!Promise!Spec
<1> QED
  BY <1>1, <1>2

\* What the other handlers rely on when they look a wallet up: it has one profile
\* of each kind at most, which no login and no registration changes
\* (user.go:40-60, org.go:112-116).
THEOREM ProfilesAreRecorded == Spec => Reg!ProfilesAreRecords
<1>1. Spec => RP!ProfilesAreRecords
  BY ToRegistration, RP!ProfilesAreRecorded, TablesAssumption, RegistrationAssumption, PTL
<1>2. RP!ProfilesAreRecords => Reg!ProfilesAreRecords
  <2>1. /\ RP!Users!Init <=> Reg!Users!Init
        /\ RP!Organizations!Init <=> Reg!Organizations!Init
    BY DEF RP!Users!Init, Reg!Users!Init, RP!Organizations!Init, Reg!Organizations!Init,
           RP!Parties, Reg!Parties, RP!Entries, Reg!Entries
  <2>2. [RP!Users!Next]_(RP!Users!vars) => [Reg!Users!Next]_(Reg!Users!vars)
    BY Zenon
       DEF RP!Users!Next, Reg!Users!Next, RP!Users!vars, Reg!Users!vars, RP!Users!Issue,
           Reg!Users!Issue, RP!Users!Admit, Reg!Users!Admit, RP!Users!Document,
           Reg!Users!Document, RP!Parties, Reg!Parties, RP!Entries, Reg!Entries
  <2>3. [RP!Organizations!Next]_(RP!Organizations!vars) =>
          [Reg!Organizations!Next]_(Reg!Organizations!vars)
    BY Zenon
       DEF RP!Organizations!Next, Reg!Organizations!Next, RP!Organizations!vars,
           Reg!Organizations!vars, RP!Organizations!Issue, Reg!Organizations!Issue,
           RP!Organizations!Admit, Reg!Organizations!Admit, RP!Organizations!Document,
           Reg!Organizations!Document, RP!Parties, Reg!Parties, RP!Entries, Reg!Entries
  <2> QED
    BY <2>1, <2>2, <2>3, PTL
       DEF RP!ProfilesAreRecords, Reg!ProfilesAreRecords, RP!Users!Spec, Reg!Users!Spec,
           RP!Organizations!Spec, Reg!Organizations!Spec
<1> QED
  BY <1>1, <1>2

\* A 201 reports a profile that is stored, with logins running beside the
\* registrations (user.go:73, org.go:140).
THEOREM CreatedIsStored == Spec => []Reg!CreatedMeansStored
<1>1. RP!CreatedMeansStored => Reg!CreatedMeansStored
  BY DEF RP!CreatedMeansStored, Reg!CreatedMeansStored, RP!RowsOf, Reg!RowsOf
<1> QED
  BY <1>1, ToRegistration, RP!CreatedIsStored, TablesAssumption, RegistrationAssumption, PTL

\* Without faults an account that no request has ever saved, though its wallet has an
\* organization, is seen only while a request of the wallet is on its way from the
\* insert to the save, whatever its wallet's logins did meanwhile (org.go:116-131).
THEOREM UnlinkedAreInFlight == Spec => []Reg!UnlinkedOnlyInFlight
<1>1. RP!UnlinkedOnlyInFlight => Reg!UnlinkedOnlyInFlight
  BY DEF RP!UnlinkedOnlyInFlight, Reg!UnlinkedOnlyInFlight, RP!RowsOf, Reg!RowsOf
<1> QED
  BY <1>1, ToRegistration, RP!UnlinkedAreInFlight, TablesAssumption, RegistrationAssumption, PTL
=============================================================================
