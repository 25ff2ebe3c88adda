------------------------------- MODULE MCLogin -------------------------------
(* Small instances of Login for TLC. *)
EXTENDS Login, TLC

CONSTANTS a1, a2, w1, w2, n1, n2, i1, i2, r1, r2

\* a1 and a2 are two spellings of w1's address; w2 is somebody else.
Spellings == (a1 :> w1) @@ (a2 :> w1)

Symmetry == Permutations(LoginReq) \cup Permutations(Id) \cup Permutations(Nonce)
=============================================================================
