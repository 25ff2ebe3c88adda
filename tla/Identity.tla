------------------------------ MODULE Identity ------------------------------
(***************************************************************************)
(* The identity half of the server in one process: Login and Registration  *)
(* over the same accounts table and the same tokens, behind one chi router *)
(* (internal/router/router.go:19-22, 35-50).  The steps are those of the   *)
(* two components; an exit of the process takes the requests of both.      *)
(***************************************************************************)
EXTENDS Tables

CONSTANTS Wallet, WalletOf, Nonce, NoNonce, Blank, LoginReq,  \* as in Login
          Call, EmailsOf,                              \* as in Registration
          Faults

ASSUME LoginAssumption == /\ WalletOf \in [Addr -> Wallet]
                          /\ NoNonce \notin Nonce
                          /\ Blank \notin Addr
                          /\ Null \notin Wallet \cup Nonce \cup {Blank}
                          /\ Faults \in BOOLEAN
ASSUME RegistrationAssumption == /\ EmailsOf \in [Addr -> SUBSET Email]
                                 /\ Faults \in BOOLEAN

VARIABLES accounts, users, orgs, tokens, reg, nonces, challenged, login
VARIABLE  signed  \* history: every signature a login request has presented

Log == INSTANCE Login
Reg == INSTANCE Registration

vars == <<accounts, users, orgs, tokens, reg, nonces, challenged, login, signed>>

Init == Log!Init /\ Reg!Init /\ signed = {}

Presented == {login[r].sig : r \in LoginReq} \ {Log!NoSig}

\* A request to GetNonce or LoginInMetamask; the profile tables do not change.
LoginSide ==
  /\ \/ \E r \in LoginReq : Log!Request(r)
     \/ Log!Nonces
     \/ \E a \in Addr : Log!Expire(a)
  /\ signed' = signed \cup Presented'
  /\ UNCHANGED <<users, orgs, reg>>

\* A request to CreateUser or CreateUniversity.
ProfileSide ==
  /\ \E c \in Call : \/ Reg!Step(c) \/ Reg!Arrival(c) \/ Reg!FindFails(c)
                     \/ Reg!UserCreateFails(c) \/ Reg!OrgCreateFails(c)
  /\ UNCHANGED <<nonces, challenged, login, signed>>

\* log.Fatalf in one of the profile handlers ends the process under every
\* request, the logins included.
Fatal == /\ \E c \in Call : Reg!Fatal(c)
         /\ Log!Exit
         /\ UNCHANGED signed

Kill == Reg!Kill /\ Log!Kill /\ UNCHANGED signed

Next == LoginSide \/ ProfileSide \/ Fatal \/ Kill

Spec == Init /\ [][Next]_vars

\* Every handler's next statement is taken (see Login and Registration).
LiveSpec == /\ Spec
            /\ \A r \in LoginReq :
                 WF_vars(Log!Step(r) /\ UNCHANGED <<users, orgs, reg, signed>>)
            /\ \A c \in Call :
                 WF_vars(Reg!Step(c) /\ UNCHANGED <<nonces, challenged, login, signed>>)

-----------------------------------------------------------------------------
(* Properties. *)

\* Logging in is an environment Registration may have: every step of the
\* composition is a step of Registration, with its SignIn, Authorize and Expire
\* in the place of the login handler's own steps.
ImplementsRegistration == Reg!Spec

\* Nobody registers for somebody else: for whoever has a profile, a login presented
\* a signature, by the wallet the address names, of a nonce that was stored for that
\* address - however long the way through the token and the two handlers took
\* (account.go:50, user.go:26).
ProfileWasChallenged ==
  \A row \in users \cup orgs : \E n \in Nonce :
    /\ <<row.addr, n>> \in challenged
    /\ [by |-> WalletOf[row.addr], over |-> n] \in signed
=============================================================================
