----------------------------- MODULE MCIdentity -----------------------------
(* Small instances of Identity for TLC. *)
EXTENDS Identity, TLC

CONSTANTS a1, a2, w1, w2, n1, e1, i1, i2, r1, c1

\* Two wallets, an address each.
TwoWallets == (a1 :> w1) @@ (a2 :> w2)

\* a1's owner registers; a2's owner only logs in.
FirstRegisters == (a1 :> Email) @@ (a2 :> {})

Symmetry == Permutations(Id)
=============================================================================
