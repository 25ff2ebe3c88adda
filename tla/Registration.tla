---------------------------- MODULE Registration ----------------------------
(***************************************************************************)
(* CreateUser (internal/handlers/user.go) and CreateUniversity (org.go):   *)
(* the handlers that give a signed-in wallet its profile and link the      *)
(* wallet's accounts row to it.  Each handler is a chain of separate SQL   *)
(* statements; any other request can run between two of them, and the      *)
(* process can exit between two of them.                                   *)
(*                                                                         *)
(* Logging in (account.go) is the environment here: SignIn and Authorize   *)
(* are what module Login is shown to implement.                            *)
(***************************************************************************)
EXTENDS Tables

CONSTANTS
  Call,     \* slots for requests in flight, one goroutine of net/http each
  EmailsOf, \* the e-mail addresses the owner of an address registers with
  Faults    \* TRUE: a statement may fail and the process may be killed

ASSUME RegistrationAssumption == /\ EmailsOf \in [Addr -> SUBSET Email]
                                 /\ Faults \in BOOLEAN

VARIABLES
  accounts, users, orgs,  \* the tables
  tokens,                 \* addresses that hold a JWT that has not expired
  reg                     \* the requests in flight

vars == <<accounts, users, orgs, tokens, reg>>

\* "u_..." are the points of CreateUser before its next statement, "o_..."
\* those of CreateUniversity.
UserPc == {"u_find", "u_account", "u_save", "u_create"}
OrgPc  == {"o_find", "o_create", "o_account", "o_save"}

\* 201 with a user, 201 with an organization, 500, or a request turned away
\* before its first statement.
Answers == {"user", "org", "500", "refused"}

\* acct and org are the ids of the rows the handler has read or inserted so far.
RegCall == [pc     : {"idle", "done"} \cup UserPc \cup OrgPc,
            addr   : Addr \cup {Null},
            email  : Email \cup {Null},
            acct   : Id \cup {Null},
            org    : Id \cup {Null},
            answer : Answers \cup {"none"}]

Idle == [pc |-> "idle", addr |-> Null, email |-> Null,
         acct |-> Null, org |-> Null, answer |-> "none"]

TypeOK ==
  /\ accounts \subseteq Account
  /\ users \subseteq Profile
  /\ orgs \subseteq Profile
  /\ tokens \subseteq Addr
  /\ reg \in [Call -> RegCall]

Init ==
  /\ accounts = {} /\ users = {} /\ orgs = {} /\ tokens = {}
  /\ reg = [c \in Call |-> Idle]

At(c, pc)       == reg[c].pc = pc
Goto(c, pc)     == reg' = [reg EXCEPT ![c].pc = pc]
Answer(c, code) == reg' = [reg EXCEPT ![c] = [Idle EXCEPT !.pc = "done",
                                                          !.addr = reg[c].addr,
                                                          !.answer = code]]
Free(c) == reg[c].pc \in {"idle", "done"}

-----------------------------------------------------------------------------
(* The environment: logging in, and the 24 hours of a JWT. *)

SignIn(a) ==
  /\ RowsOf(accounts, a) = {}
  /\ \E i \in Unused(accounts) : accounts' = accounts \cup {NewAccount(i, a)}
  /\ UNCHANGED <<users, orgs, tokens, reg>>

\* Mutant of Authorize: the token is issued before the row is inserted.
AuthorizeFirst(a) ==
  /\ tokens' = tokens \cup {a}
  /\ UNCHANGED <<accounts, users, orgs, reg>>

Authorize(a) ==
  /\ RowsOf(accounts, a) # {}
  /\ tokens' = tokens \cup {a}
  /\ UNCHANGED <<accounts, users, orgs, reg>>

Expire(a) ==
  /\ a \in tokens
  /\ tokens' = tokens \ {a}
  /\ UNCHANGED <<accounts, users, orgs, reg>>

-----------------------------------------------------------------------------
(* A request arrives. *)

\* AuthMiddleware hands the address of a valid JWT to the handler; the token is
\* not looked at again.
Begin(c, pc, a, e) ==
  /\ Free(c)
  /\ a \in tokens
  /\ reg' = [reg EXCEPT ![c] = [Idle EXCEPT !.pc = pc, !.addr = a, !.email = e]]
  /\ UNCHANGED <<accounts, users, orgs, tokens>>

BeginUser(c, a, e) == Begin(c, "u_find", a, e)
BeginOrg(c, a, e)  == Begin(c, "o_find", a, e)

\* No valid token, or a body without a field the handler needs (400, or the
\* panic of a failed type assertion, which net/http recovers).
Refuse(c) ==
  /\ Free(c)
  /\ reg' = [reg EXCEPT ![c] = [Idle EXCEPT !.pc = "done", !.answer = "refused"]]
  /\ UNCHANGED <<accounts, users, orgs, tokens>>

-----------------------------------------------------------------------------
(* CreateUser: find the user, read the account, save it, insert the user. *)

UserFind(c) ==
  /\ At(c, "u_find")
  /\ IF RowsOf(users, reg[c].addr) # {} THEN Answer(c, "user")
                                        ELSE Goto(c, "u_account")
  /\ UNCHANGED <<accounts, users, orgs, tokens>>

\* Mutant of AccountRead: First(&account) without its Where.
AnyAccount(c) == accounts

\* Where("metamask_address = ?").First(&account): the handler keeps a copy.
AccountRead(c) == RowsOf(accounts, reg[c].addr)

UserAccount(c) ==
  /\ At(c, "u_account")
  /\ \E row \in AccountRead(c) :
       reg' = [reg EXCEPT ![c].acct = row.id, ![c].pc = "u_save"]
  /\ UNCHANGED <<accounts, users, orgs, tokens>>

\* user.ID is still 0 when it is copied into the account that is saved here.
UserSave(c) ==
  /\ At(c, "u_save")
  /\ accounts' = SetOwner(accounts, reg[c].acct, Null, "user")
  /\ Goto(c, "u_create")
  /\ UNCHANGED <<users, orgs, tokens>>

\* The UNIQUE constraints of a profile table.
Insertable(table, c) == /\ RowsOf(table, reg[c].addr) = {}
                        /\ Mailed(table, reg[c].email) = {}

\* db.DB.Create(&user): one transaction that inserts the user and, through the
\* has-one association, sets the account's owner to the new row.
UserInsert(c, i) ==
  /\ Insertable(users, c)
  /\ i \in Unused(users)
  /\ users' = users \cup {[id |-> i, addr |-> reg[c].addr, email |-> reg[c].email]}
  /\ accounts' = SetOwner(accounts, reg[c].acct, i, "users")

UserCreate(c) ==
  /\ At(c, "u_create")
  /\ \/ \E i \in Id : UserInsert(c, i) /\ Answer(c, "user")
     \/ ~Insertable(users, c) /\ Answer(c, "500") /\ UNCHANGED <<accounts, users>>
  /\ UNCHANGED <<orgs, tokens>>

-----------------------------------------------------------------------------
(* CreateUniversity: find, insert the organization, read the account, save. *)

OrgFind(c) ==
  /\ At(c, "o_find")
  /\ IF RowsOf(orgs, reg[c].addr) # {} THEN Answer(c, "org")
                                       ELSE Goto(c, "o_create")
  /\ UNCHANGED <<accounts, users, orgs, tokens>>

OrgInsert(c, i) ==
  /\ Insertable(orgs, c)
  /\ i \in Unused(orgs)
  /\ orgs' = orgs \cup {[id |-> i, addr |-> reg[c].addr, email |-> reg[c].email]}

\* Mutant of OrgCreate: createResult.Error is not looked at.
OrgCreateUnchecked(c) ==
  /\ At(c, "o_create")
  /\ \/ \E i \in Id : /\ OrgInsert(c, i)
                      /\ reg' = [reg EXCEPT ![c].org = i, ![c].pc = "o_account"]
     \/ ~Insertable(orgs, c) /\ Goto(c, "o_account") /\ UNCHANGED orgs
  /\ UNCHANGED <<accounts, users, tokens>>

OrgCreate(c) ==
  /\ At(c, "o_create")
  /\ \/ \E i \in Id : /\ OrgInsert(c, i)
                      /\ reg' = [reg EXCEPT ![c].org = i, ![c].pc = "o_account"]
     \/ ~Insertable(orgs, c) /\ Answer(c, "500") /\ UNCHANGED orgs
  /\ UNCHANGED <<accounts, users, tokens>>

OrgAccount(c) ==
  /\ At(c, "o_account")
  /\ \E row \in AccountRead(c) :
       reg' = [reg EXCEPT ![c].acct = row.id, ![c].pc = "o_save"]
  /\ UNCHANGED <<accounts, users, orgs, tokens>>

\* Mutant of OrgSave: the account is changed in memory and not saved.
OrgSaveDropped(c) ==
  /\ At(c, "o_save")
  /\ Answer(c, "org")
  /\ UNCHANGED <<accounts, users, orgs, tokens>>

\* Mutant of OrgSave: a type no reader of the table knows.
OrgSaveMisnamed(c) ==
  /\ At(c, "o_save")
  /\ accounts' = SetOwner(accounts, reg[c].acct, reg[c].org, "organization")
  /\ Answer(c, "org")
  /\ UNCHANGED <<users, orgs, tokens>>

OrgSave(c) ==
  /\ At(c, "o_save")
  /\ accounts' = SetOwner(accounts, reg[c].acct, reg[c].org, "university")
  /\ Answer(c, "org")
  /\ UNCHANGED <<users, orgs, tokens>>

-----------------------------------------------------------------------------
(* Failures. *)

\* The lookup of the profile fails: nothing was written, 500.
FindFails(c) ==
  /\ Faults
  /\ reg[c].pc \in {"u_find", "o_find"}
  /\ Answer(c, "500")
  /\ UNCHANGED <<accounts, users, orgs, tokens>>

\* Mutant of UserCreateFails: the two writes of Create are no transaction.
UserCreateTorn(c) ==
  /\ Faults
  /\ At(c, "u_create")
  /\ \E i \in Id : accounts' = SetOwner(accounts, reg[c].acct, i, "users")
  /\ Answer(c, "500")
  /\ UNCHANGED <<users, orgs, tokens>>

\* The insert reports an error, whether or not the server had committed it.
UserCreateFails(c) ==
  /\ Faults
  /\ At(c, "u_create")
  /\ \/ UNCHANGED <<accounts, users>>
     \/ \E i \in Id : UserInsert(c, i)
  /\ Answer(c, "500")
  /\ UNCHANGED <<orgs, tokens>>

OrgCreateFails(c) ==
  /\ Faults
  /\ At(c, "o_create")
  /\ \/ UNCHANGED orgs
     \/ \E i \in Id : OrgInsert(c, i)
  /\ Answer(c, "500")
  /\ UNCHANGED <<accounts, users, tokens>>

\* The process exits: every request in flight is lost, the database stays.
Exit ==
  /\ reg' = [c \in Call |-> Idle]
  /\ UNCHANGED <<accounts, users, orgs, tokens>>

\* log.Fatalf when the account is not found or the statement fails; the save
\* may have been applied before its error, which is the save and then Kill.
Fatal(c) ==
  /\ reg[c].pc \in {"u_account", "o_account", "u_save", "o_save"}
  /\ Faults \/ (reg[c].pc \in {"u_account", "o_account"} /\ AccountRead(c) = {})
  /\ Exit

\* Another handler's os.Exit, a signal, a power cut.
Kill == Faults /\ Exit

-----------------------------------------------------------------------------
Step(c) ==
  \/ UserFind(c) \/ UserAccount(c) \/ UserSave(c) \/ UserCreate(c)
  \/ OrgFind(c) \/ OrgCreate(c) \/ OrgAccount(c) \/ OrgSave(c)

Failure(c) == FindFails(c) \/ UserCreateFails(c) \/ OrgCreateFails(c) \/ Fatal(c)

Arrival(c) ==
  \/ Refuse(c)
  \/ \E a \in Addr : \E e \in EmailsOf[a] : BeginUser(c, a, e) \/ BeginOrg(c, a, e)

Session == \E a \in Addr : SignIn(a) \/ Authorize(a) \/ Expire(a)

Next ==
  \/ \E c \in Call : Step(c) \/ Failure(c) \/ Arrival(c)
  \/ Kill
  \/ Session

Spec == Init /\ [][Next]_vars

\* net/http runs every request in a goroutine of its own and the Go scheduler
\* starves none, so a handler that can take its next statement takes it.
LiveSpec == Spec /\ \A c \in Call : WF_vars(Step(c))

-----------------------------------------------------------------------------
(* Properties. *)

InFlight(c) == reg[c].pc \notin {"idle", "done"}
Busy(a)     == \E c \in Call : InFlight(c) /\ reg[c].addr = a
HasProfile(a) == RowsOf(users, a) \cup RowsOf(orgs, a) # {}

\* The row of the profile tables an account refers to.
Owners(acct) ==
  {row \in (CASE acct.ownerType = "users"      -> users
              [] acct.ownerType = "university" -> orgs
              [] OTHER                         -> {}) : row.id = acct.ownerId}

\* An account that names an owner names a row that exists and belongs to the
\* account's own wallet, and an account without one names none; whatever the
\* interleaving of the statements of user.go:46-60 and org.go:112-131, and
\* wherever the process dies.
LinkSound ==
  \A acct \in accounts :
    IF acct.ownerId = Null THEN acct.ownerType \in {"", "user"}
                           ELSE \E row \in Owners(acct) : row.addr = acct.addr

\* Whoever holds a token, or is in a handler behind AuthMiddleware, has an
\* accounts row.  The lookups of user.go:46 and org.go:124 end the whole server on
\* any error; this leaves them the errors of the database, and no client brings the
\* server down by being unknown.
AccountAlwaysFound ==
  /\ \A a \in tokens : RowsOf(accounts, a) # {}
  /\ \A c \in Call : InFlight(c) => AccountRead(c) # {}

\* A 201 (user.go:73, org.go:140) reports a row that is in the table, even
\* when the request lost a race for the wallet or the e-mail address.
CreatedMeansStored ==
  \A c \in Call :
    /\ reg[c].answer = "user" => RowsOf(users, reg[c].addr) # {}
    /\ reg[c].answer = "org"  => RowsOf(orgs, reg[c].addr) # {}

\* The rows a handler has read or inserted so far are those of its own wallet,
\* and stay so while others run: what its copies of the ids rely on.
OwnRow(table, i, a) == \E row \in table : row.id = i /\ row.addr = a
CallSound ==
  \A c \in Call :
    /\ InFlight(c) => reg[c].addr \in Addr /\ reg[c].email \in Email
    /\ reg[c].pc \in {"u_save", "u_create", "o_save"} =>
         OwnRow(accounts, reg[c].acct, reg[c].addr)
    /\ reg[c].pc \in {"o_account", "o_save"} => OwnRow(orgs, reg[c].org, reg[c].addr)

\* The inductive invariant: an UPDATE by primary key is an UPDATE of the
\* caller's own row because the keys are unique and the callers' copies sound.
IdsUnique(table) == \A row, other \in table : row.id = other.id => row = other
IndInv ==
  /\ TypeOK
  /\ IdsUnique(accounts)
  /\ CallSound
  /\ AccountAlwaysFound
  /\ LinkSound
  /\ CreatedMeansStored

\* README.md:53: users and organizations are "linked via polymorphic
\* Accounts".  A wallet that has a profile, and no request under way that is
\* still establishing the link, has an account that names its profile.
LinkedWhenQuiet ==
  \A acct \in accounts :
    HasProfile(acct.addr) /\ ~Busy(acct.addr) => Owners(acct) # {}

\* Only a request of the same wallet, at a statement that saves, changes an
\* account; rows are never deleted and never change their wallet.
LinksMovedByOwner ==
  [][\A acct \in accounts :
       \/ acct \in accounts'
       \/ /\ \E new \in accounts' : new.id = acct.id /\ new.addr = acct.addr
          /\ \E c \in Call : /\ reg[c].addr = acct.addr
                             /\ reg[c].pc \in {"u_save", "u_create", "o_save"}
                             /\ reg'[c].pc # reg[c].pc]_vars

\* Registration is an environment logging in may have: no statement of the two
\* handlers, and no exit, takes an accounts row away or gives it another address
\* (user.go:49-60, org.go:127-131), so what Sessions promises goes on holding.
Promise == INSTANCE Sessions WITH known <- {row.addr : row \in accounts}
KeepsSessions == Promise!Spec

\* What the pending requests and the credentials rely on when they find a profile
\* by its wallet: each table of profiles is a record in which a wallet has one row
\* at most, has signed in before it has one, and keeps it as it is - with two
\* requests of the wallet racing, and whatever is updated in accounts in the same
\* statement (user.go:40-60, org.go:112-116).
Parties == {row.addr : row \in accounts}
Entries(table) ==
  {[key |-> row.addr, party |-> row.addr, content |-> <<row.id, row.email>>] : row \in table}
Users == INSTANCE Registry WITH Party <- Addr, Key <- Addr, Content <- Id \X Email,
                                parties <- Parties, documents <- Entries(users)
Organizations == INSTANCE Registry WITH Party <- Addr, Key <- Addr, Content <- Id \X Email,
                                        parties <- Parties, documents <- Entries(orgs)
ProfilesAreRecords == Users!Spec /\ Organizations!Spec

\* CreateUniversity inserts the organization before it links the account
\* (org.go:116-131).  Without faults an account that was never linked though its
\* wallet has an organization is only seen while a request of that wallet is
\* between the two: none is left behind, whatever else runs for the wallet.
UnlinkedOnlyInFlight ==
  ~Faults => \A acct \in accounts :
    acct.ownerType = "" /\ RowsOf(orgs, acct.addr) # {} =>
      \E c \in Call : reg[c].addr = acct.addr /\ reg[c].pc \in {"o_account", "o_save"}

\* Without faults every request that got past AuthMiddleware is answered, on every
\* path through the two chains of statements (user.go:40-75, org.go:112-142).
EveryRequestAnswered == \A c \in Call : InFlight(c) ~> reg[c].pc = "done"

\* Without faults a wallet that has an organization, and that never posts to
\* CreateUser, has its account linked to the organization in the end, for good; also
\* when several CreateUniversity race and only one of them inserts (org.go:112-131).
\* What a CreateUser does to the link is LinkedWhenQuiet's subject.
NoCreateUser(a) == \A c \in Call : reg[c].pc \in UserPc => reg[c].addr # a
LinkedToOrg(a)  == \A acct \in RowsOf(accounts, a) :
                     /\ acct.ownerType = "university"
                     /\ \E row \in Owners(acct) : row.addr = a
OrgGetsLinked ==
  \A a \in Addr :
    []NoCreateUser(a) /\ <>(RowsOf(orgs, a) # {}) => <>[]LinkedToOrg(a)
=============================================================================
