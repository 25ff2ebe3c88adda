------------------------------- MODULE Login --------------------------------
(***************************************************************************)
(* Logging in with a wallet.  GetNonce (internal/handlers/nonce.go) writes *)
(* a nonce to Redis under the address the client sent; LoginInMetamask     *)
(* (account.go) reads it back, checks the wallet's signature over it,      *)
(* finds or creates the accounts row and answers with a JWT.  Redis may    *)
(* forget a nonce at any time: SET carries a TTL of five minutes.          *)
(***************************************************************************)
EXTENDS Tables

CONSTANTS
  Wallet,    \* key pairs
  WalletOf,  \* the wallet an address string names; EqualFold ignores case, so
             \* several strings name the same wallet
  Nonce,     \* the messages GenerateNonce makes
  NoNonce,   \* no value under a key
  Blank,     \* the key "": GetNonce found no address in the body
  LoginReq,  \* slots for login requests in flight
  Faults     \* TRUE: a statement may fail and the process may be killed

ASSUME LoginAssumption == /\ WalletOf \in [Addr -> Wallet]
                          /\ NoNonce \notin Nonce
                          /\ Blank \notin Addr
                          /\ Null \notin Wallet \cup Nonce \cup {Blank}
                          /\ Faults \in BOOLEAN

VARIABLES
  accounts,    \* the accounts table
  tokens,      \* addresses that hold a JWT that has not expired
  nonces,      \* Redis: the nonce under each key
  challenged,  \* history: every <<key, nonce>> that was ever stored
  login        \* the requests in flight

vars == <<accounts, tokens, nonces, challenged, login>>

Key == Addr \cup {Blank}

\* Who signed and what.  NoSig is a string no public key can be recovered from.
NoSig == [by |-> Null, over |-> Null]
Signature == [by : Wallet, over : Nonce] \cup {NoSig}

\* "empty" is the 200 without a body of account.go:39-42; "aborted" is the
\* connection closed by a panic.
Outcome == {"none", "400", "empty", "401", "500", "aborted", "token"}

LoginCall == [pc     : {"idle", "get", "find", "create", "token", "done"},
              addr   : Key \cup {Null},
              sig    : Signature,
              answer : Outcome]

Idle == [pc |-> "idle", addr |-> Null, sig |-> NoSig, answer |-> "none"]

TypeOK ==
  /\ accounts \subseteq Account
  /\ tokens \subseteq Addr
  /\ nonces \in [Key -> Nonce \cup {NoNonce}]
  /\ challenged \subseteq Key \X Nonce
  /\ login \in [LoginReq -> LoginCall]

Init ==
  /\ accounts = {} /\ tokens = {} /\ challenged = {}
  /\ nonces = [k \in Key |-> NoNonce]
  /\ login = [r \in LoginReq |-> Idle]

At(r, pc)       == login[r].pc = pc
Goto(r, pc)     == login' = [login EXCEPT ![r].pc = pc]
Answer(r, code) == login' = [login EXCEPT ![r] = [Idle EXCEPT !.pc = "done",
                                                              !.addr = login[r].addr,
                                                              !.answer = code]]
Free(r)     == login[r].pc \in {"idle", "done"}
InFlight(r) == ~Free(r)

-----------------------------------------------------------------------------
(* The nonce endpoint and Redis. *)

StoreNonce(k, n) ==
  /\ nonces' = [nonces EXCEPT ![k] = n]
  /\ challenged' = challenged \cup {<<k, n>>}
  /\ UNCHANGED <<accounts, tokens, login>>

\* POST /getnonce.  A body that does not decode leaves the address "".  The
\* error of a SET that fails is dropped: the client then holds a nonce that
\* Redis does not, and no state changes.
GetNonce(k) == \E n \in Nonce : StoreNonce(k, n)

\* GET /getnonce has no body and is routed to GetNonce too.
HealthProbe == GetNonce(Blank)

\* The TTL of the key runs out.
NonceExpires(k) ==
  /\ nonces[k] # NoNonce
  /\ nonces' = [nonces EXCEPT ![k] = NoNonce]
  /\ UNCHANGED <<accounts, tokens, challenged, login>>

-----------------------------------------------------------------------------
(* LoginInMetamask. *)

Begin(r, k, s) ==
  /\ Free(r)
  /\ login' = [login EXCEPT ![r] = [Idle EXCEPT !.pc = "get", !.addr = k, !.sig = s]]
  /\ UNCHANGED <<accounts, tokens, nonces, challenged>>

\* A body without an address or a signature.
Reject(r) ==
  /\ Free(r)
  /\ login' = [login EXCEPT ![r] = [Idle EXCEPT !.pc = "done", !.answer = "400"]]
  /\ UNCHANGED <<accounts, tokens, nonces, challenged>>

\* Mutant of Verifies: no address in the body passes for a match.
VerifiesBlank(k, n, s) == k = Blank \/ (s.by = WalletOf[k] /\ s.over = n)

\* Mutant of Verifies: the recovered key is compared, the message is not.
VerifiesSigner(k, n, s) == k \in Addr /\ s.by = WalletOf[k]

\* Mutant of Verifies: any key that signed the message will do.
VerifiesMessage(k, n, s) == k \in Addr /\ s.over = n

\* VerifySignature: the wallet named by the address signed this very nonce.
Verifies(k, n, s) == k \in Addr /\ s.by = WalletOf[k] /\ s.over = n

\* Mutant of NonceOf: one nonce for everybody.
NonceShared(r) == nonces[Blank]

NonceOf(r) == nonces[login[r].addr]

NonceGet(r) ==
  /\ At(r, "get")
  /\ \/ NonceOf(r) = NoNonce /\ Answer(r, "empty")
     \/ /\ NonceOf(r) # NoNonce
        /\ IF Verifies(login[r].addr, NonceOf(r), login[r].sig)
           THEN Goto(r, "find")
           ELSE Answer(r, "401")
  /\ UNCHANGED <<accounts, tokens, nonces, challenged>>

\* sig[64] of a signature of fewer than 65 bytes.
ShortSignature(r) ==
  /\ At(r, "get")
  /\ login[r].sig = NoSig
  /\ NonceOf(r) # NoNonce
  /\ Answer(r, "aborted")
  /\ UNCHANGED <<accounts, tokens, nonces, challenged>>

\* Mutant of AccountOf: First(&existingAcc) without its condition.
AnyAccount(r) == accounts

AccountOf(r) == RowsOf(accounts, login[r].addr)

AccountFind(r) ==
  /\ At(r, "find")
  /\ Goto(r, IF AccountOf(r) = {} THEN "create" ELSE "token")
  /\ UNCHANGED <<accounts, tokens, nonces, challenged>>

\* Mutant of Taken: the UNIQUE index ignores case.
TakenByWallet(a) == \E row \in accounts : WalletOf[row.addr] = WalletOf[a]

\* The UNIQUE constraint on accounts.metamask_address.
Taken(a) == RowsOf(accounts, a) # {}

InsertAccount(r, i) ==
  /\ ~Taken(login[r].addr)
  /\ i \in Unused(accounts)
  /\ accounts' = accounts \cup {NewAccount(i, login[r].addr)}

\* Mutant of AccountCreate: a conflict is tried again without another lookup.
AccountCreateLoops(r) ==
  /\ At(r, "create")
  /\ \E i \in Id : InsertAccount(r, i) /\ Goto(r, "token")
  /\ UNCHANGED <<tokens, nonces, challenged>>

AccountCreate(r) ==
  /\ At(r, "create")
  /\ \/ \E i \in Id : InsertAccount(r, i) /\ Goto(r, "token")
     \/ Taken(login[r].addr) /\ Answer(r, "500") /\ UNCHANGED accounts
  /\ UNCHANGED <<tokens, nonces, challenged>>

Grant(r) ==
  /\ At(r, "token")
  /\ tokens' = tokens \cup {login[r].addr}
  /\ Answer(r, "token")
  /\ UNCHANGED <<accounts, nonces, challenged>>

\* The JWT is older than 24 hours.
Expire(a) ==
  /\ a \in tokens
  /\ tokens' = tokens \ {a}
  /\ UNCHANGED <<accounts, nonces, challenged, login>>

-----------------------------------------------------------------------------
(* Failures. *)

\* Redis cannot be reached: the same return as for a missing key.
GetFails(r) ==
  /\ Faults
  /\ At(r, "get")
  /\ Answer(r, "empty")
  /\ UNCHANGED <<accounts, tokens, nonces, challenged>>

\* Mutant of FindFails: any error but "not found" passes for a row.
FindErrorIgnored(r) ==
  /\ Faults
  /\ At(r, "find")
  /\ Goto(r, "token")
  /\ UNCHANGED <<accounts, tokens, nonces, challenged>>

FindFails(r) ==
  /\ Faults
  /\ At(r, "find")
  /\ Answer(r, "500")
  /\ UNCHANGED <<accounts, tokens, nonces, challenged>>

\* Mutant of CreateFails: createResult.Error is not looked at.
CreateErrorIgnored(r) ==
  /\ Faults
  /\ At(r, "create")
  /\ (\E i \in Id : InsertAccount(r, i)) \/ UNCHANGED accounts
  /\ Goto(r, "token")
  /\ UNCHANGED <<tokens, nonces, challenged>>

\* The insert reports an error, whether or not the server had committed it.
CreateFails(r) ==
  /\ Faults
  /\ At(r, "create")
  /\ (\E i \in Id : InsertAccount(r, i)) \/ UNCHANGED accounts
  /\ Answer(r, "500")
  /\ UNCHANGED <<tokens, nonces, challenged>>

\* CreateToken reports an error: no token is handed out.
GrantFails(r) ==
  /\ Faults
  /\ At(r, "token")
  /\ Answer(r, "500")
  /\ UNCHANGED <<accounts, tokens, nonces, challenged>>

\* The process exits: every request in flight is lost; Redis, the database and
\* the tokens the clients hold stay.
Exit ==
  /\ login' = [r \in LoginReq |-> Idle]
  /\ UNCHANGED <<accounts, tokens, nonces, challenged>>

Kill == Faults /\ Exit

-----------------------------------------------------------------------------
Step(r) ==
  NonceGet(r) \/ ShortSignature(r) \/ AccountFind(r) \/ AccountCreate(r) \/ Grant(r)

Failure(r) == GetFails(r) \/ FindFails(r) \/ CreateFails(r) \/ GrantFails(r)

Arrival(r) == Reject(r) \/ \E k \in Key, s \in Signature : Begin(r, k, s)

Request(r) == Step(r) \/ Failure(r) \/ Arrival(r)

Nonces == HealthProbe \/ \E k \in Key : GetNonce(k) \/ NonceExpires(k)

Next ==
  \/ \E r \in LoginReq : Request(r)
  \/ Nonces
  \/ \E a \in Addr : Expire(a)
  \/ Kill

Spec == Init /\ [][Next]_vars

\* net/http runs every request in a goroutine of its own; none is starved.
LiveSpec == Spec /\ \A r \in LoginReq : WF_vars(Step(r))

-----------------------------------------------------------------------------
(* Properties. *)

\* The handlers behind AuthMiddleware find the row of whoever holds a token,
\* and a request is only let through to CreateToken (account.go:78) once its
\* row is there, also when it lost a race or an earlier insert was reported as
\* failed.
TokenHasAccount ==
  /\ \A a \in tokens : RowsOf(accounts, a) # {}
  /\ \A r \in LoginReq : At(r, "token") => AccountOf(r) # {}

\* A request that has got past VerifySignature (account.go:50) carries a
\* signature, by the wallet its address names, of a nonce that was stored
\* under that very spelling of the address.
SessionWasChallenged ==
  \A r \in LoginReq :
    login[r].pc \in {"find", "create", "token"} =>
      /\ login[r].addr \in Addr
      /\ login[r].sig.by = WalletOf[login[r].addr]
      /\ <<login[r].addr, login[r].sig.over>> \in challenged

\* Without faults a login answered 500 (account.go:69) lost the race for the
\* row of its own address, so the row is there and trying again succeeds.
RetrySucceeds ==
  ~Faults => \A r \in LoginReq : login[r].answer = "500" => AccountOf(r) # {}

\* Without faults every login ends, and one whose signature a key can be recovered
\* from is answered: only the panic on a signature that is too short (utils.go:89),
\* which net/http recovers, aborts a request, and it aborts no other's.
EveryLoginAnswered ==
  \A r \in LoginReq :
    /\ InFlight(r) ~> At(r, "done")
    /\ InFlight(r) /\ login[r].sig # NoSig ~> At(r, "done") /\ login[r].answer # "aborted"

\* Login implements Sessions.
Promise == INSTANCE Sessions WITH known <- {row.addr : row \in accounts}
ImplementsSessions == Promise!Spec

\* README.md:79: POST /auth/metamasklogin is to "verify signature and
\* establish session".  A login whose signature was verified, and for which no
\* statement failed, is given its session.
VerifiedGetsSession == ~Faults => \A r \in LoginReq : login[r].answer # "500"
=============================================================================
