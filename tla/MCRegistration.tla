--------------------------- MODULE MCRegistration ---------------------------
(* Small instances of Registration for TLC. *)
EXTENDS Registration, TLC

CONSTANTS a1, a2, e1, e2, c1, c2, i1, i2

\* Any owner may use any address: two wallets can compete for one e-mail.
AnyEmail == [a \in Addr |-> Email]

\* Slots are interchangeable, and so are primary keys.
Symmetry == Permutations(Call) \cup Permutations(Id)
=============================================================================
