------------------------------- MODULE Tables -------------------------------
(***************************************************************************)
(* The PostgreSQL tables the identity handlers share (internal/models):    *)
(* accounts, users and organizations.  A table is a set of rows; its       *)
(* UNIQUE constraints are the guards of the actions that insert, and its   *)
(* sequence hands out any id no row of the table has.  No handler deletes  *)
(* a row.  Columns that no handler compares, and the is_verified flag that *)
(* both creation handlers always set, are left out.                        *)
(***************************************************************************)
CONSTANTS
  Addr,   \* metamask_address strings: a wallet's address as a client spells it
  Email,  \* e-mail addresses; users.email and organizations.acad_email are UNIQUE
  Id,     \* primary keys
  Null    \* Go's zero value: id 0, no address, no e-mail

ASSUME TablesAssumption == Null \notin Addr \cup Email \cup Id

\* accounts.owner_type: "" at login, "user" before a user row exists, "users"
\* once GORM has saved the association, "university" for an organization.
OwnerType == {"", "user", "users", "university"}

Account == [id : Id, addr : Addr, ownerId : Id \cup {Null}, ownerType : OwnerType]
Profile == [id : Id, addr : Addr, email : Email]

RowsOf(table, a) == {row \in table : row.addr = a}
Mailed(table, e) == {row \in table : row.email = e}
Unused(table)    == Id \ {row.id : row \in table}

\* The accounts row LoginInMetamask inserts.
NewAccount(i, a) == [id |-> i, addr |-> a, ownerId |-> Null, ownerType |-> ""]

\* UPDATE accounts SET owner_id = oid, owner_type = otype WHERE id = i
SetOwner(accts, i, oid, otype) ==
  {IF row.id = i THEN [row EXCEPT !.ownerId = oid, !.ownerType = otype] ELSE row :
     row \in accts}
=============================================================================
