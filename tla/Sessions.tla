------------------------------ MODULE Sessions ------------------------------
(***************************************************************************)
(* What logging in promises the rest of the backend: an address that holds *)
(* a token is an address with an accounts row, for good.  The handlers     *)
(* behind AuthMiddleware rely on it: CreateUser and CreateUniversity exit  *)
(* the process when the row is missing (user.go:47, org.go:125).           *)
(***************************************************************************)
CONSTANT Addr  \* metamask_address strings

VARIABLES
  known,  \* the addresses that have an accounts row
  tokens  \* the addresses that hold a JWT that has not expired

vars == <<known, tokens>>

Init == known = {} /\ tokens = {}

OpenAccount(a) ==
  /\ a \notin known
  /\ known' = known \cup {a}
  /\ UNCHANGED tokens

Grant(a) ==
  /\ a \in known
  /\ tokens' = tokens \cup {a}
  /\ UNCHANGED known

\* CreateToken's 24 hours are over.
Expire(a) ==
  /\ a \in tokens
  /\ tokens' = tokens \ {a}
  /\ UNCHANGED known

Next == \E a \in Addr : OpenAccount(a) \/ Grant(a) \/ Expire(a)

Spec == Init /\ [][Next]_vars
=============================================================================
