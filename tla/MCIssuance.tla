----------------------------- MODULE MCIssuance -----------------------------
(* Small instances of Issuance for TLC. *)
EXTENDS Issuance

CONSTANTS s1, n1, c1, c2, i1, i2, p1, p2, u1
=============================================================================
