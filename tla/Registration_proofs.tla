------------------------- MODULE Registration_proofs ------------------------
(* Proofs about Registration, for every number of wallets, slots and keys. *)
EXTENDS Registration, TLAPS

(***************************************************************************)
(* SetOwner, the UPDATE of one accounts row by its primary key.            *)
(***************************************************************************)

\* Every row keeps its key and its wallet; a row with another key is untouched.
LEMMA SetOwnerKeeps ==
  ASSUME NEW accts \in SUBSET Account, NEW i, NEW oid, NEW otype,
         NEW row \in accts
  PROVE  \E new \in SetOwner(accts, i, oid, otype) :
           /\ new.id = row.id
           /\ new.addr = row.addr
           /\ row.id # i => new = row
<1> DEFINE new == IF row.id = i
                  THEN [row EXCEPT !.ownerId = oid, !.ownerType = otype]
                  ELSE row
<1>1. new \in SetOwner(accts, i, oid, otype)
  BY DEF SetOwner
<1>2. row \in Account
  OBVIOUS
<1>3. new.id = row.id /\ new.addr = row.addr /\ (row.id # i => new = row)
  BY <1>2 DEF Account
<1> QED
  BY <1>1, <1>3

\* Every row of the result is an old row, or an old row with the key i and the
\* new owner.
LEMMA SetOwnerFrom ==
  ASSUME NEW accts \in SUBSET Account, NEW i, NEW oid, NEW otype,
         NEW new \in SetOwner(accts, i, oid, otype)
  PROVE  \/ new \in accts /\ new.id # i
         \/ \E row \in accts : /\ row.id = i
                               /\ new.id = row.id /\ new.addr = row.addr
                               /\ new.ownerId = oid /\ new.ownerType = otype
BY DEF SetOwner, Account

\* The result is a table of accounts.
LEMMA SetOwnerType ==
  ASSUME NEW accts \in SUBSET Account, NEW i,
         NEW oid \in Id \cup {Null}, NEW otype \in OwnerType
  PROVE  SetOwner(accts, i, oid, otype) \subseteq Account
BY DEF SetOwner, Account

\* The keys stay unique.
LEMMA SetOwnerUnique ==
  ASSUME NEW accts \in SUBSET Account, IdsUnique(accts), NEW i, NEW oid, NEW otype
  PROVE  IdsUnique(SetOwner(accts, i, oid, otype))
BY DEF SetOwner, Account, IdsUnique

\* An UPDATE neither adds a wallet to the table nor takes one away.
LEMMA SetOwnerRows ==
  ASSUME NEW accts \in SUBSET Account, NEW i, NEW oid, NEW otype, NEW a
  PROVE  RowsOf(SetOwner(accts, i, oid, otype), a) = {} <=> RowsOf(accts, a) = {}
<1> DEFINE result == SetOwner(accts, i, oid, otype)
<1>1. ASSUME NEW new \in result, new.addr = a
      PROVE  \E row \in accts : row.addr = a
  BY <1>1, SetOwnerFrom
<1>2. ASSUME NEW row \in accts, row.addr = a
      PROVE  \E new \in result : new.addr = a
  BY <1>2, SetOwnerKeeps
<1> QED
  BY <1>1, <1>2 DEF RowsOf

\* A caller's copy of its own row's key stays sound.
LEMMA SetOwnerOwn ==
  ASSUME NEW accts \in SUBSET Account, NEW i, NEW oid, NEW otype, NEW j, NEW a,
         OwnRow(accts, j, a)
  PROVE  OwnRow(SetOwner(accts, i, oid, otype), j, a)
BY SetOwnerKeeps DEF OwnRow

(***************************************************************************)
(* The invariant, one slot and one account at a time.                      *)
(***************************************************************************)

\* What IndInv says of one request.
CallOk(c) ==
  /\ InFlight(c) => /\ reg[c].addr \in Addr /\ reg[c].email \in Email
                    /\ AccountRead(c) # {}
  /\ reg[c].pc \in {"u_save", "u_create", "o_save"} =>
       OwnRow(accounts, reg[c].acct, reg[c].addr)
  /\ reg[c].pc \in {"o_account", "o_save"} => OwnRow(orgs, reg[c].org, reg[c].addr)
  /\ reg[c].answer = "user" => RowsOf(users, reg[c].addr) # {}
  /\ reg[c].answer = "org"  => RowsOf(orgs, reg[c].addr) # {}

\* What it says of one account.
LinkOk(acct) == IF acct.ownerId = Null THEN acct.ownerType \in {"", "user"}
                                       ELSE \E row \in Owners(acct) : row.addr = acct.addr

TokensKnown == \A a \in tokens : RowsOf(accounts, a) # {}

\* The two ways to write the invariant agree.
LEMMA IndInvByCall ==
  IndInv <=> /\ TypeOK /\ IdsUnique(accounts) /\ TokensKnown
             /\ \A acct \in accounts : LinkOk(acct)
             /\ \A c \in Call : CallOk(c)
BY DEF IndInv, CallSound, AccountAlwaysFound, LinkSound, CreatedMeansStored,
       CallOk, LinkOk, TokensKnown

LEMMA IndInvByCallPrimed ==
  IndInv' <=> /\ TypeOK' /\ IdsUnique(accounts)' /\ TokensKnown'
              /\ \A acct \in accounts' : LinkOk(acct)'
              /\ \A c \in Call : CallOk(c)'
BY DEF IndInv, CallSound, AccountAlwaysFound, LinkSound, CreatedMeansStored,
       CallOk, LinkOk, TokensKnown

\* No step takes a row out of a table or changes its key or its wallet.
TablesKeep ==
  /\ \A row \in accounts : OwnRow(accounts, row.id, row.addr)'
  /\ users \subseteq users'
  /\ orgs \subseteq orgs'

\* What holds of a request a step does not touch holds after the step.
LEMMA OtherCall ==
  ASSUME TablesKeep, NEW c \in Call, CallOk(c), reg'[c] = reg[c]
  PROVE  CallOk(c)'
<1>1. ASSUME NEW i, NEW a, OwnRow(accounts, i, a)
      PROVE  OwnRow(accounts, i, a)'
  BY <1>1 DEF TablesKeep, OwnRow
<1>2. ASSUME NEW a, RowsOf(accounts, a) # {}
      PROVE  RowsOf(accounts, a)' # {}
  BY <1>2 DEF TablesKeep, OwnRow, RowsOf
<1>3. ASSUME NEW i, NEW a, OwnRow(orgs, i, a)
      PROVE  OwnRow(orgs, i, a)'
  BY <1>3 DEF TablesKeep, OwnRow
<1>4. ASSUME NEW a
      PROVE  /\ RowsOf(users, a) # {} => RowsOf(users, a)' # {}
             /\ RowsOf(orgs, a) # {} => RowsOf(orgs, a)' # {}
  BY DEF TablesKeep, RowsOf
<1> QED
  BY <1>1, <1>2, <1>3, <1>4 DEF CallOk, InFlight, AccountRead

\* A link that is sound stays sound while the profile tables grow.
LEMMA LinkStays ==
  ASSUME TablesKeep, NEW acct, LinkOk(acct)
  PROVE  LinkOk(acct)'
BY DEF TablesKeep, LinkOk, Owners

\* A step of one handler: what is left to show of it.
LEMMA CallStep ==
  ASSUME IndInv, TablesKeep,
         accounts' \subseteq Account, users' \subseteq Profile, orgs' \subseteq Profile,
         tokens' = tokens,
         IdsUnique(accounts)',
         \A acct \in accounts' : LinkOk(acct)',
         NEW c \in Call, NEW r \in RegCall, reg' = [reg EXCEPT ![c] = r],
         CallOk(c)'
  PROVE  IndInv'
<1>1. TypeOK'
  BY DEF IndInv, TypeOK
<1>2. TokensKnown'
  <2>1. ASSUME NEW a \in tokens
        PROVE  RowsOf(accounts, a)' # {}
    BY DEF IndInv, AccountAlwaysFound, TablesKeep, OwnRow, RowsOf
  <2> QED
    BY <2>1 DEF TokensKnown
<1>3. ASSUME NEW d \in Call
      PROVE  CallOk(d)'
  <2>1. CASE d = c
    BY <2>1
  <2>2. CASE d # c
    <3>1. reg'[d] = reg[d]
      BY <2>2 DEF IndInv, TypeOK
    <3>2. CallOk(d)
      BY IndInvByCall
    <3> QED
      BY <3>1, <3>2, OtherCall
  <2> QED
    BY <2>1, <2>2
<1> QED
  BY <1>1, <1>2, <1>3, IndInvByCallPrimed

\* A step of one handler that writes to no table.
LEMMA ReadStep ==
  ASSUME IndInv, UNCHANGED <<accounts, users, orgs, tokens>>,
         NEW c \in Call, NEW r \in RegCall, reg' = [reg EXCEPT ![c] = r],
         CallOk(c)'
  PROVE  IndInv'
<1>1. TablesKeep
  BY DEF TablesKeep, OwnRow
<1>2. \A acct \in accounts' : LinkOk(acct)'
  BY <1>1, LinkStays, IndInvByCall
<1>3. IdsUnique(accounts)'
  BY DEF IndInv, IdsUnique
<1> QED
  BY <1>1, <1>2, <1>3, CallStep DEF IndInv, TypeOK

(***************************************************************************)
(* The UPDATE of the caller's own accounts row.                            *)
(***************************************************************************)

LEMMA UpdateKeeps ==
  ASSUME IndInv, NEW i, NEW oid \in Id \cup {Null}, NEW otype \in OwnerType,
         accounts' = SetOwner(accounts, i, oid, otype),
         users \subseteq users', orgs \subseteq orgs'
  PROVE  /\ TablesKeep
         /\ accounts' \subseteq Account
         /\ IdsUnique(accounts)'
<1>1. accounts \in SUBSET Account /\ IdsUnique(accounts)
  BY DEF IndInv, TypeOK
<1>2. accounts' \subseteq Account
  BY <1>1, SetOwnerType
<1>3. IdsUnique(SetOwner(accounts, i, oid, otype))
  BY <1>1, SetOwnerUnique
<1>4. IdsUnique(accounts)'
  BY <1>3 DEF IdsUnique
<1>5. ASSUME NEW row \in accounts
      PROVE  OwnRow(accounts, row.id, row.addr)'
  BY <1>1, SetOwnerKeeps DEF OwnRow
<1> QED
  BY <1>2, <1>4, <1>5 DEF TablesKeep

\* The new owner is nobody or a profile of the same wallet.
LEMMA UpdateLinks ==
  ASSUME IndInv, TablesKeep, NEW i, NEW a, OwnRow(accounts, i, a),
         NEW oid, NEW otype, accounts' = SetOwner(accounts, i, oid, otype),
         \/ oid = Null /\ otype = "user"
         \/ /\ oid # Null
            /\ \/ otype = "users" /\ OwnRow(users', oid, a)
               \/ otype = "university" /\ OwnRow(orgs', oid, a)
  PROVE  \A acct \in accounts' : LinkOk(acct)'
<1> SUFFICES ASSUME NEW acct \in accounts'
             PROVE  LinkOk(acct)'
  OBVIOUS
<1>1. accounts \in SUBSET Account
  BY DEF IndInv, TypeOK
<1>2. CASE acct \in accounts
  BY <1>2, LinkStays, IndInvByCall
<1>3. CASE acct \notin accounts
  <2>1. PICK row \in accounts : /\ row.id = i
                                /\ acct.addr = row.addr
                                /\ acct.ownerId = oid /\ acct.ownerType = otype
    BY <1>1, <1>3, SetOwnerFrom
  <2>2. acct.addr = a
    BY <2>1 DEF IndInv, IdsUnique, OwnRow
  <2> QED
    BY <2>1, <2>2 DEF LinkOk, Owners, OwnRow
<1> QED
  BY <1>2, <1>3

(***************************************************************************)
(* The invariant is inductive.                                             *)
(***************************************************************************)

LEMMA InvInit == Init => IndInv
BY DEF Init, IndInv, TypeOK, IdsUnique, CallSound, AccountAlwaysFound, LinkSound,
       CreatedMeansStored, RegCall, Idle, InFlight, Answers

\* The records the handlers leave in their slot are well typed.
LEMMA GotoType ==
  ASSUME TypeOK, NEW c \in Call, NEW pc \in {"idle", "done"} \cup UserPc \cup OrgPc
  PROVE  [reg[c] EXCEPT !.pc = pc] \in RegCall
BY DEF TypeOK, RegCall

Answered(c, code) == [Idle EXCEPT !.pc = "done", !.addr = reg[c].addr, !.answer = code]

LEMMA AnswerType ==
  ASSUME TypeOK, NEW c \in Call, NEW code \in Answers
  PROVE  Answered(c, code) \in RegCall
BY DEF TypeOK, RegCall, Answered, Idle

\* A failure is always an answer that keeps the invariant.
LEMMA AnswerFailure ==
  ASSUME IndInv, NEW c \in Call, Answer(c, "500")
  PROVE  CallOk(c)'
BY DEF IndInv, TypeOK, Answer, CallOk, InFlight, Idle, RegCall

LEMMA BeginInv ==
  ASSUME IndInv, NEW c \in Call, NEW pc \in {"u_find", "o_find"},
         NEW a \in Addr, NEW e \in EmailsOf[a], Begin(c, pc, a, e)
  PROVE  IndInv'
<1> DEFINE r == [Idle EXCEPT !.pc = pc, !.addr = a, !.email = e]
<1>1. e \in Email
  BY RegistrationAssumption
<1>2. r \in RegCall
  BY <1>1 DEF RegCall, Idle, UserPc, OrgPc
<1>3. CallOk(c)'
  BY <1>1 DEF Begin, CallOk, IndInv, TypeOK, AccountAlwaysFound, InFlight, AccountRead,
              RowsOf, Idle
<1> QED
  BY <1>2, <1>3, ReadStep DEF Begin

LEMMA RefuseInv ==
  ASSUME IndInv, NEW c \in Call, Refuse(c)
  PROVE  IndInv'
<1> DEFINE r == [Idle EXCEPT !.pc = "done", !.answer = "refused"]
<1>1. r \in RegCall
  BY DEF RegCall, Idle, Answers
<1>2. CallOk(c)'
  BY DEF Refuse, CallOk, IndInv, TypeOK, InFlight, Idle
<1> QED
  BY <1>1, <1>2, ReadStep DEF Refuse

LEMMA FindInv ==
  ASSUME IndInv, NEW c \in Call, UserFind(c) \/ OrgFind(c) \/ FindFails(c)
  PROVE  IndInv'
<1>1. UNCHANGED <<accounts, users, orgs, tokens>> /\ InFlight(c) /\ TypeOK
  BY DEF UserFind, OrgFind, FindFails, At, InFlight, IndInv
<1>2. ASSUME NEW pc \in {"u_account", "o_create"}, Goto(c, pc)
      PROVE  IndInv'
  <2>1. [reg[c] EXCEPT !.pc = pc] \in RegCall
    BY <1>1, GotoType DEF UserPc, OrgPc
  <2>2. reg' = [reg EXCEPT ![c] = [reg[c] EXCEPT !.pc = pc]]
    BY <1>2 DEF Goto
  <2>3. CallOk(c)'
    BY <1>1, <1>2, IndInvByCall
       DEF Goto, CallOk, InFlight, AccountRead, RowsOf, TypeOK, RegCall
  <2> QED
    BY <1>1, <2>1, <2>2, <2>3, ReadStep
<1>3. ASSUME NEW code \in Answers, Answer(c, code),
             code = "user" => RowsOf(users, reg[c].addr) # {},
             code = "org" => RowsOf(orgs, reg[c].addr) # {}
      PROVE  IndInv'
  <2>1. Answered(c, code) \in RegCall
    BY <1>1, AnswerType
  <2>2. reg' = [reg EXCEPT ![c] = Answered(c, code)]
    BY <1>3 DEF Answer, Answered
  <2>3. CallOk(c)'
    BY <1>1, <1>3, <2>2 DEF CallOk, InFlight, Answered, Idle, TypeOK, RowsOf
  <2> QED
    BY <1>1, <2>1, <2>2, <2>3, ReadStep
<1> QED
  BY <1>2, <1>3 DEF UserFind, OrgFind, FindFails, Answers

LEMMA AccountInv ==
  ASSUME IndInv, NEW c \in Call, UserAccount(c) \/ OrgAccount(c)
  PROVE  IndInv'
<1>1. PICK row \in AccountRead(c), pc \in {"u_save", "o_save"} :
        /\ reg' = [reg EXCEPT ![c].acct = row.id, ![c].pc = pc]
        /\ pc = "o_save" => At(c, "o_account")
  BY DEF UserAccount, OrgAccount
<1>2. /\ UNCHANGED <<accounts, users, orgs, tokens>>
      /\ InFlight(c) /\ CallOk(c) /\ TypeOK
  BY IndInvByCall DEF UserAccount, OrgAccount, At, InFlight, IndInv
<1> DEFINE r == [reg[c] EXCEPT !.acct = row.id, !.pc = pc]
<1>3. row \in accounts /\ row.id \in Id /\ row.addr = reg[c].addr
  BY <1>2 DEF AccountRead, RowsOf, TypeOK, Account
<1>4. r \in RegCall
  BY <1>2, <1>3 DEF TypeOK, RegCall, UserPc, OrgPc
<1>5. reg' = [reg EXCEPT ![c] = r]
  BY <1>1
<1>6. CallOk(c)'
  BY <1>1, <1>2, <1>3
     DEF CallOk, InFlight, AccountRead, RowsOf, OwnRow, At, TypeOK, RegCall
<1> QED
  BY <1>2, <1>4, <1>5, <1>6, ReadStep

\* user.go:56: the account forgets its owner until the user row is inserted.
LEMMA UserSaveInv ==
  ASSUME IndInv, NEW c \in Call, UserSave(c)
  PROVE  IndInv'
<1>1. /\ CallOk(c) /\ At(c, "u_save") /\ TypeOK
      /\ accounts' = SetOwner(accounts, reg[c].acct, Null, "user")
      /\ UNCHANGED <<users, orgs, tokens>>
  BY IndInvByCall DEF UserSave, IndInv
<1>2. TablesKeep /\ accounts' \subseteq Account /\ IdsUnique(accounts)'
  BY <1>1, UpdateKeeps DEF OwnerType
<1>3. OwnRow(accounts, reg[c].acct, reg[c].addr)
  BY <1>1 DEF CallOk, At
<1>4. \A acct \in accounts' : LinkOk(acct)'
  BY <1>1, <1>2, <1>3, UpdateLinks
<1> DEFINE r == [reg[c] EXCEPT !.pc = "u_create"]
<1>5. r \in RegCall
  BY <1>1, GotoType DEF UserPc
<1>6. reg' = [reg EXCEPT ![c] = r]
  BY DEF UserSave, Goto
<1>7. OwnRow(accounts', reg[c].acct, reg[c].addr)
  BY <1>1, <1>3, SetOwnerOwn DEF TypeOK
<1>8. RowsOf(accounts', reg[c].addr) # {}
  BY <1>7 DEF OwnRow, RowsOf
<1>9. CallOk(c)'
  BY <1>1, <1>6, <1>7, <1>8
     DEF CallOk, InFlight, AccountRead, At, TypeOK, RegCall, RowsOf, OwnRow
<1> QED
  BY <1>1, <1>2, <1>4, <1>5, <1>6, <1>9, CallStep DEF TypeOK

\* user.go:60: one transaction inserts the user and links the account to it.
LEMMA UserInsertKeeps ==
  ASSUME IndInv, NEW c \in Call, At(c, "u_create"), NEW i \in Id, UserInsert(c, i),
         UNCHANGED orgs
  PROVE  /\ TablesKeep
         /\ accounts' \subseteq Account /\ users' \subseteq Profile
         /\ IdsUnique(accounts)'
         /\ \A acct \in accounts' : LinkOk(acct)'
         /\ RowsOf(users', reg[c].addr) # {}
<1> DEFINE user == [id |-> i, addr |-> reg[c].addr, email |-> reg[c].email]
<1>1. /\ CallOk(c) /\ TypeOK
      /\ users' = users \cup {user}
      /\ accounts' = SetOwner(accounts, reg[c].acct, i, "users")
      /\ i # Null
  BY IndInvByCall, TablesAssumption DEF UserInsert, IndInv
<1>2. user \in Profile
  BY <1>1 DEF CallOk, InFlight, At, Profile
<1>3. users' \subseteq Profile
  BY <1>1, <1>2 DEF TypeOK
<1>4. TablesKeep /\ accounts' \subseteq Account /\ IdsUnique(accounts)'
  BY <1>1, UpdateKeeps DEF OwnerType
<1>5. OwnRow(accounts, reg[c].acct, reg[c].addr)
  BY <1>1 DEF CallOk, At
<1>6. OwnRow(users', i, reg[c].addr)
  <2>1. user \in users' /\ user.id = i /\ user.addr = reg[c].addr
    BY <1>1
  <2> QED
    BY <2>1 DEF OwnRow
<1>7. \A acct \in accounts' : LinkOk(acct)'
  BY <1>1, <1>4, <1>5, <1>6, UpdateLinks
<1>8. RowsOf(users', reg[c].addr) # {}
  BY <1>6 DEF OwnRow, RowsOf
<1> QED
  BY <1>3, <1>4, <1>7, <1>8

\* A step that ends in an answer, whatever it wrote.
LEMMA AnswerStep ==
  ASSUME IndInv, TablesKeep,
         accounts' \subseteq Account, users' \subseteq Profile, orgs' \subseteq Profile,
         tokens' = tokens,
         IdsUnique(accounts)',
         \A acct \in accounts' : LinkOk(acct)',
         NEW c \in Call, NEW code \in Answers, Answer(c, code),
         code = "user" => RowsOf(users', reg[c].addr) # {},
         code = "org" => RowsOf(orgs', reg[c].addr) # {}
  PROVE  IndInv'
<1>1. TypeOK
  BY DEF IndInv
<1>2. Answered(c, code) \in RegCall
  BY <1>1, AnswerType
<1>3. reg' = [reg EXCEPT ![c] = Answered(c, code)]
  BY DEF Answer, Answered
<1>4. CallOk(c)'
  BY <1>1, <1>3 DEF CallOk, InFlight, Answered, Idle, TypeOK, RowsOf
<1> QED
  BY <1>2, <1>3, <1>4, CallStep

\* An answer of a step that wrote nothing.
LEMMA AnswerOnly ==
  ASSUME IndInv, UNCHANGED <<accounts, users, orgs, tokens>>,
         NEW c \in Call, Answer(c, "500")
  PROVE  IndInv'
<1>1. TypeOK
  BY DEF IndInv
<1>2. Answered(c, "500") \in RegCall
  BY <1>1, AnswerType DEF Answers
<1>3. reg' = [reg EXCEPT ![c] = Answered(c, "500")]
  BY DEF Answer, Answered
<1> QED
  BY <1>2, <1>3, AnswerFailure, ReadStep

LEMMA UserCreateInv ==
  ASSUME IndInv, NEW c \in Call, UserCreate(c) \/ UserCreateFails(c)
  PROVE  IndInv'
<1>1. At(c, "u_create") /\ UNCHANGED <<orgs, tokens>> /\ TypeOK
  BY DEF UserCreate, UserCreateFails, IndInv
<1>2. ASSUME NEW i \in Id, NEW code \in {"user", "500"}, UserInsert(c, i), Answer(c, code)
      PROVE  IndInv'
  <2>1. orgs' \subseteq Profile /\ code \in Answers /\ code # "org"
    BY <1>1 DEF TypeOK, Answers
  <2> QED
    BY <1>1, <1>2, <2>1, UserInsertKeeps, AnswerStep
<1>3. ASSUME Answer(c, "500"), UNCHANGED <<accounts, users>>
      PROVE  IndInv'
  BY <1>1, <1>3, AnswerOnly
<1> QED
  BY <1>2, <1>3 DEF UserCreate, UserCreateFails

\* org.go:116: the organization is inserted before the account is looked at.
LEMMA OrgInsertKeeps ==
  ASSUME IndInv, NEW c \in Call, At(c, "o_create"), NEW i \in Id, OrgInsert(c, i),
         UNCHANGED <<accounts, users>>
  PROVE  /\ TablesKeep
         /\ accounts' \subseteq Account /\ users' \subseteq Profile
         /\ orgs' \subseteq Profile
         /\ IdsUnique(accounts)'
         /\ \A acct \in accounts' : LinkOk(acct)'
         /\ OwnRow(orgs', i, reg[c].addr)
<1> DEFINE org == [id |-> i, addr |-> reg[c].addr, email |-> reg[c].email]
<1>1. CallOk(c) /\ TypeOK /\ orgs' = orgs \cup {org}
  BY IndInvByCall DEF OrgInsert, IndInv
<1>2. org \in Profile
  BY <1>1 DEF CallOk, InFlight, At, Profile
<1>3. /\ accounts' \subseteq Account /\ users' \subseteq Profile
      /\ orgs' \subseteq Profile
  BY <1>1, <1>2 DEF TypeOK
<1>4. TablesKeep
  BY <1>1 DEF TablesKeep, OwnRow
<1>5. IdsUnique(accounts)'
  BY DEF IndInv, IdsUnique
<1>6. \A acct \in accounts' : LinkOk(acct)'
  BY <1>4, LinkStays, IndInvByCall
<1>7. OwnRow(orgs', i, reg[c].addr)
  <2>1. org \in orgs' /\ org.id = i /\ org.addr = reg[c].addr
    BY <1>1
  <2> QED
    BY <2>1 DEF OwnRow
<1> QED
  BY <1>3, <1>4, <1>5, <1>6, <1>7

LEMMA OrgCreateInv ==
  ASSUME IndInv, NEW c \in Call, OrgCreate(c) \/ OrgCreateFails(c)
  PROVE  IndInv'
<1>1. /\ At(c, "o_create") /\ UNCHANGED <<accounts, users, tokens>>
      /\ TypeOK /\ CallOk(c)
  BY IndInvByCall DEF OrgCreate, OrgCreateFails, IndInv
<1>2. ASSUME NEW i \in Id, OrgInsert(c, i),
             reg' = [reg EXCEPT ![c].org = i, ![c].pc = "o_account"]
      PROVE  IndInv'
  <2> DEFINE r == [reg[c] EXCEPT !.org = i, !.pc = "o_account"]
  <2>1. r \in RegCall
    BY <1>1 DEF TypeOK, RegCall, OrgPc
  <2>2. reg' = [reg EXCEPT ![c] = r]
    BY <1>2
  <2>3. OwnRow(orgs', i, reg[c].addr)
    BY <1>1, <1>2, OrgInsertKeeps
  <2>4. CallOk(c)'
    BY <1>1, <2>2, <2>3
       DEF CallOk, InFlight, AccountRead, RowsOf, OwnRow, At, TypeOK, RegCall
  <2> QED
    BY <1>1, <1>2, <2>1, <2>2, <2>4, OrgInsertKeeps, CallStep
<1>3. ASSUME NEW i \in Id, OrgInsert(c, i), Answer(c, "500")
      PROVE  IndInv'
  BY <1>1, <1>3, OrgInsertKeeps, AnswerStep DEF Answers
<1>4. ASSUME Answer(c, "500"), UNCHANGED orgs
      PROVE  IndInv'
  BY <1>1, <1>4, AnswerOnly
<1> QED
  BY <1>2, <1>3, <1>4 DEF OrgCreate, OrgCreateFails

LEMMA OrgSaveInv ==
  ASSUME IndInv, NEW c \in Call, OrgSave(c)
  PROVE  IndInv'
<1>1. /\ CallOk(c) /\ At(c, "o_save") /\ TypeOK
      /\ accounts' = SetOwner(accounts, reg[c].acct, reg[c].org, "university")
      /\ UNCHANGED <<users, orgs, tokens>> /\ Answer(c, "org")
  BY IndInvByCall DEF OrgSave, IndInv
<1>2. /\ OwnRow(accounts, reg[c].acct, reg[c].addr)
      /\ OwnRow(orgs', reg[c].org, reg[c].addr)
  BY <1>1 DEF CallOk, At, OwnRow
<1>3. reg[c].org \in Id /\ reg[c].org # Null
  BY <1>1, <1>2, TablesAssumption DEF OwnRow, TypeOK, Profile
<1>4. TablesKeep /\ accounts' \subseteq Account /\ IdsUnique(accounts)'
  BY <1>1, <1>3, UpdateKeeps DEF OwnerType
<1>5. \A acct \in accounts' : LinkOk(acct)'
  BY <1>1, <1>2, <1>3, <1>4, UpdateLinks
<1>6. RowsOf(orgs', reg[c].addr) # {}
  BY <1>2 DEF OwnRow, RowsOf
<1>7. users' \subseteq Profile /\ orgs' \subseteq Profile
  BY <1>1 DEF TypeOK
<1> QED
  BY <1>1, <1>4, <1>5, <1>6, <1>7, AnswerStep DEF Answers

\* The environment's steps: a new account has no owner, a token needs a row.
LEMMA SessionInv ==
  ASSUME IndInv, NEW a \in Addr, SignIn(a) \/ Authorize(a) \/ Expire(a)
  PROVE  IndInv'
<1>1. TypeOK /\ UNCHANGED <<users, orgs, reg>>
  BY DEF SignIn, Authorize, Expire, IndInv
<1>2. /\ TablesKeep /\ accounts' \subseteq Account /\ IdsUnique(accounts)'
      /\ \A acct \in accounts' : LinkOk(acct)'
  <2>1. CASE UNCHANGED accounts
    <3>1. TablesKeep
      BY <1>1, <2>1 DEF TablesKeep, OwnRow
    <3> QED
      BY <1>1, <2>1, <3>1, LinkStays, IndInvByCall DEF IndInv, IdsUnique, TypeOK
  <2>2. ASSUME NEW i \in Unused(accounts), accounts' = accounts \cup {NewAccount(i, a)}
        PROVE  /\ TablesKeep /\ accounts' \subseteq Account /\ IdsUnique(accounts)'
               /\ \A acct \in accounts' : LinkOk(acct)'
    <3>1. NewAccount(i, a) \in Account
      BY <2>2 DEF NewAccount, Account, OwnerType, Unused
    <3>2. TablesKeep
      BY <1>1, <2>2 DEF TablesKeep, OwnRow
    <3>3. IdsUnique(accounts)'
      <4>1. \A row \in accounts : row.id # i
        BY <2>2 DEF Unused
      <4>2. NewAccount(i, a).id = i
        BY DEF NewAccount
      <4>3. IdsUnique(accounts)
        BY DEF IndInv
      <4> QED
        BY <2>2, <4>1, <4>2, <4>3 DEF IdsUnique
    <3>4. ASSUME NEW acct, acct = NewAccount(i, a)
          PROVE  LinkOk(acct)'
      <4>1. acct.ownerId = Null /\ acct.ownerType = ""
        BY <3>4 DEF NewAccount
      <4> QED
        BY <4>1 DEF LinkOk
    <3>5. \A acct \in accounts : LinkOk(acct)'
      BY <3>2, LinkStays, IndInvByCall
    <3>6. \A acct \in accounts' : LinkOk(acct)'
      BY <2>2, <3>4, <3>5
    <3> QED
      BY <1>1, <2>2, <3>1, <3>2, <3>3, <3>6 DEF TypeOK
  <2> QED
    BY <2>1, <2>2 DEF SignIn, Authorize, Expire
<1>3. ASSUME NEW b, RowsOf(accounts, b) # {}
      PROVE  RowsOf(accounts, b)' # {}
  BY <1>2, <1>3 DEF TablesKeep, OwnRow, RowsOf
<1>4. TokensKnown'
  BY <1>3, IndInvByCall DEF SignIn, Authorize, Expire, TokensKnown
<1>5. TypeOK'
  BY <1>1, <1>2 DEF TypeOK, SignIn, Authorize, Expire
<1>6. \A c \in Call : CallOk(c)'
  BY <1>1, <1>2, OtherCall, IndInvByCall
<1> QED
  BY <1>2, <1>4, <1>5, <1>6, IndInvByCallPrimed

\* The process exits: the slots are empty, the tables are as they were.
LEMMA ExitInv ==
  ASSUME IndInv, Exit
  PROVE  IndInv'
<1>1. TablesKeep /\ UNCHANGED <<accounts, users, orgs, tokens>>
  BY DEF Exit, TablesKeep, OwnRow
<1>2. TypeOK'
  BY <1>1 DEF IndInv, TypeOK, Exit, RegCall, Idle
<1>3. ASSUME NEW c \in Call
      PROVE  CallOk(c)'
  BY DEF Exit, CallOk, InFlight, Idle
<1>4. IdsUnique(accounts)' /\ TokensKnown' /\ \A acct \in accounts' : LinkOk(acct)'
  BY <1>1, LinkStays, IndInvByCall DEF IdsUnique, TokensKnown, RowsOf
<1> QED
  BY <1>2, <1>3, <1>4, IndInvByCallPrimed

LEMMA StutterInv ==
  ASSUME IndInv, UNCHANGED vars
  PROVE  IndInv'
<1>1. TablesKeep /\ UNCHANGED <<accounts, users, orgs, tokens, reg>>
  BY DEF vars, TablesKeep, OwnRow
<1>2. TypeOK' /\ IdsUnique(accounts)' /\ TokensKnown'
  BY <1>1, IndInvByCall DEF TypeOK, IdsUnique, TokensKnown, RowsOf
<1>3. \A acct \in accounts' : LinkOk(acct)'
  BY <1>1, LinkStays, IndInvByCall
<1>4. \A c \in Call : CallOk(c)'
  BY <1>1, OtherCall, IndInvByCall
<1> QED
  BY <1>2, <1>3, <1>4, IndInvByCallPrimed

\* IndInv is preserved by every step.
LEMMA InvNext == IndInv /\ [Next]_vars => IndInv'
<1> SUFFICES ASSUME IndInv, [Next]_vars
             PROVE  IndInv'
  OBVIOUS
<1>1. ASSUME NEW c \in Call, Step(c)
      PROVE  IndInv'
  BY <1>1, FindInv, AccountInv, UserSaveInv, UserCreateInv, OrgCreateInv, OrgSaveInv
     DEF Step
<1>2. ASSUME NEW c \in Call, Failure(c)
      PROVE  IndInv'
  BY <1>2, FindInv, UserCreateInv, OrgCreateInv, ExitInv DEF Failure, Fatal
<1>3. ASSUME NEW c \in Call, Arrival(c)
      PROVE  IndInv'
  BY <1>3, RefuseInv, BeginInv DEF Arrival, BeginUser, BeginOrg
<1>4. CASE Kill
  BY <1>4, ExitInv DEF Kill
<1>5. CASE Session
  BY <1>5, SessionInv DEF Session
<1>6. CASE UNCHANGED vars
  BY <1>6, StutterInv
<1> QED
  BY <1>1, <1>2, <1>3, <1>4, <1>5, <1>6 DEF Next

(***************************************************************************)
(* The theorems.                                                           *)
(***************************************************************************)

\* IndInv holds in every reachable state, whatever fails or dies on the way.
THEOREM Invariance == Spec => []IndInv
BY InvInit, InvNext, PTL DEF Spec

\* Every reachable state is well typed.
THEOREM TypeCorrect == Spec => []TypeOK
<1>1. IndInv => TypeOK
  BY DEF IndInv
<1> QED
  BY <1>1, Invariance, PTL

\* No account ever names a profile that is not there or is another wallet's,
\* through any interleaving, failed statement or crash of the two handlers.
THEOREM LinksAreSound == Spec => []LinkSound
<1>1. IndInv => LinkSound
  BY DEF IndInv
<1> QED
  BY <1>1, Invariance, PTL

\* Whoever is signed in or in a handler has an accounts row, so that only an error
\* of the database is left to end the process at user.go:46 and org.go:124.
THEOREM AccountsAreFound == Spec => []AccountAlwaysFound
<1>1. IndInv => AccountAlwaysFound
  BY DEF IndInv
<1> QED
  BY <1>1, Invariance, PTL

\* A 201 never reports a profile that is not in its table.
THEOREM CreatedIsStored == Spec => []CreatedMeansStored
<1>1. IndInv => CreatedMeansStored
  BY DEF IndInv
<1> QED
  BY <1>1, Invariance, PTL

\* The step LinksMovedByOwner allows.
Moved ==
  \A acct \in accounts :
    \/ acct \in accounts'
    \/ /\ \E new \in accounts' : new.id = acct.id /\ new.addr = acct.addr
       /\ \E c \in Call : /\ reg[c].addr = acct.addr
                          /\ reg[c].pc \in {"u_save", "u_create", "o_save"}
                          /\ reg'[c].pc # reg[c].pc

\* The UPDATE is of the caller's own row: keys are unique, its copy is sound.
LEMMA MovedBySave ==
  ASSUME IndInv, NEW c \in Call, NEW oid, NEW otype,
         reg[c].pc \in {"u_save", "u_create", "o_save"},
         reg'[c].pc # reg[c].pc,
         accounts' = SetOwner(accounts, reg[c].acct, oid, otype)
  PROVE  Moved
<1> SUFFICES ASSUME NEW acct \in accounts, acct \notin accounts'
             PROVE  /\ \E new \in accounts' : new.id = acct.id /\ new.addr = acct.addr
                    /\ reg[c].addr = acct.addr
  BY DEF Moved
<1>1. accounts \in SUBSET Account
  BY DEF IndInv, TypeOK
<1>2. PICK new \in accounts' : /\ new.id = acct.id /\ new.addr = acct.addr
                               /\ acct.id # reg[c].acct => new = acct
  BY <1>1, SetOwnerKeeps
<1>3. OwnRow(accounts, reg[c].acct, reg[c].addr)
  BY DEF IndInv, CallSound
<1>4. acct.addr = reg[c].addr
  BY <1>2, <1>3 DEF IndInv, IdsUnique, OwnRow
<1> QED
  BY <1>2, <1>4

\* An account changes only in a saving step of a request of its own wallet.
THEOREM LinksAreMovedByOwner == Spec => LinksMovedByOwner
<1>1. ASSUME IndInv, NEW c \in Call,
             UserSave(c) \/ UserCreate(c) \/ UserCreateFails(c) \/ OrgSave(c),
             accounts' # accounts
      PROVE  Moved
  <2>1. reg[c].pc \in {"u_save", "u_create", "o_save"} /\ TypeOK
    BY <1>1 DEF UserSave, UserCreate, UserCreateFails, OrgSave, At, IndInv
  <2>2. reg'[c].pc # reg[c].pc
    <3>1. CASE \E pc \in {"u_create", "done"} : Goto(c, pc) /\ reg[c].pc # pc
      BY <2>1, <3>1 DEF Goto, TypeOK, RegCall
    <3>2. CASE \E code : Answer(c, code)
      BY <2>1, <3>2 DEF Answer, Idle, TypeOK
    <3> QED
      BY <1>1, <3>1, <3>2 DEF UserSave, UserCreate, UserCreateFails, OrgSave, At
  <2>3. CASE UserSave(c)
    BY MovedBySave, <1>1, <2>1, <2>2, <2>3 DEF UserSave
  <2>4. CASE OrgSave(c)
    BY MovedBySave, <1>1, <2>1, <2>2, <2>4 DEF OrgSave
  <2>5. ASSUME NEW i \in Id, UserInsert(c, i)
        PROVE  Moved
    BY MovedBySave, <1>1, <2>1, <2>2, <2>5 DEF UserInsert
  <2> QED
    BY <1>1, <2>3, <2>4, <2>5 DEF UserCreate, UserCreateFails
<1>2. IndInv /\ [Next]_vars => [Moved]_vars
  <2> SUFFICES ASSUME IndInv, Next, accounts \notin SUBSET accounts'
               PROVE  Moved
    BY DEF vars, Moved
  <2>1. ASSUME NEW c \in Call, Step(c) \/ Failure(c)
        PROVE  Moved
    BY <1>1, <2>1 DEF Step, Failure, UserFind, UserAccount, OrgFind, OrgCreate,
                      OrgAccount, FindFails, OrgCreateFails, Fatal, Exit
  <2> QED
    BY <2>1 DEF Next, Arrival, Refuse, BeginUser, BeginOrg, Begin, Kill, Exit, Session,
                SignIn, Authorize, Expire
<1>3. Spec => [][Moved]_vars
  BY <1>2, Invariance, PTL DEF Spec
<1> QED
  BY <1>3 DEF LinksMovedByOwner, Moved

(***************************************************************************)
(* Registration keeps what Sessions promises.                              *)
(***************************************************************************)

\* An UPDATE leaves the addresses in the table as they are.
LEMMA SetOwnerKnown ==
  ASSUME NEW accts \in SUBSET Account, NEW i, NEW oid, NEW otype
  PROVE  {row.addr : row \in SetOwner(accts, i, oid, otype)} = {row.addr : row \in accts}
BY SetOwnerKeeps, SetOwnerFrom

\* What a request does to the tables, whatever it does to its own call.
LEMMA StepTables ==
  ASSUME NEW c \in Call, Step(c) \/ Failure(c)
  PROVE  /\ UNCHANGED tokens
         /\ \/ UNCHANGED accounts
            \/ \E oid, otype : accounts' = SetOwner(accounts, reg[c].acct, oid, otype)
BY DEF Step, Failure, UserFind, UserAccount, UserSave, UserCreate, UserInsert, OrgFind,
       OrgCreate, OrgAccount, OrgSave, FindFails, UserCreateFails, OrgCreateFails, Fatal, Exit

\* The accounts stay and keep their addresses (user.go:49-60, org.go:127-131).
THEOREM RegistrationKeepsSessions == Spec => KeepsSessions
<1>1. Init => Promise!Init
  BY DEF Init, Promise!Init
<1>2. IndInv /\ [Next]_vars => [Promise!Next]_(Promise!vars)
  <2> DEFINE known == {row.addr : row \in accounts}
  <2> SUFFICES ASSUME IndInv, [Next]_vars
               PROVE  Promise!Next \/ UNCHANGED <<known, tokens>>
    BY DEF Promise!vars
  <2>1. ASSUME NEW c \in Call, Step(c) \/ Failure(c)
        PROVE  UNCHANGED <<known, tokens>>
    <3>1. accounts \in SUBSET Account
      BY DEF IndInv, TypeOK
    <3>2. ASSUME NEW oid, NEW otype, accounts' = SetOwner(accounts, reg[c].acct, oid, otype)
          PROVE  known' = known
      BY <3>1, <3>2, SetOwnerKnown
    <3> QED
      BY <2>1, <3>2, StepTables
  <2>2. ASSUME NEW a \in Addr, SignIn(a)
        PROVE  Promise!Next
    <3>1. PICK i \in Id : accounts' = accounts \cup {NewAccount(i, a)}
      BY <2>2 DEF SignIn, Unused
    <3>2. PICK new : new = NewAccount(i, a)
      OBVIOUS
    <3>3. new.addr = a
      BY <3>2 DEF NewAccount
    <3>4. known' = known \cup {a} /\ a \notin known
      BY <2>2, <3>1, <3>2, <3>3 DEF SignIn, RowsOf
    <3>5. Promise!OpenAccount(a)
      BY <2>2, <3>4 DEF SignIn, Promise!OpenAccount
    <3> QED
      BY <3>5 DEF Promise!Next
  <2>3. ASSUME NEW a \in Addr, Authorize(a) \/ Expire(a)
        PROVE  Promise!Next
    <3>1. Promise!Grant(a) \/ Promise!Expire(a)
      BY <2>3 DEF Authorize, RowsOf, Expire, Promise!Grant, Promise!Expire
    <3> QED
      BY <3>1 DEF Promise!Next
  <2> QED
    BY <2>1, <2>2, <2>3 DEF Next, vars, Arrival, Refuse, BeginUser, BeginOrg, Begin, Kill, Exit,
                            Session
<1> QED
  BY <1>1, <1>2, Invariance, PTL DEF Spec, KeepsSessions, Promise!Spec

(***************************************************************************)
(* The link of an organization, without faults.                            *)
(***************************************************************************)

\* metamask_address is UNIQUE, and an organization's wallet has signed in.
AddrsUnique == \A acct, other \in accounts : acct.addr = other.addr => acct = other
OrgsKnown   == \A row \in orgs : RowsOf(accounts, row.addr) # {}

LinkInv == AddrsUnique /\ OrgsKnown /\ UnlinkedOnlyInFlight

\* A request that is between its insert and its link.
IsLinking(c, a) == reg[c].addr = a /\ reg[c].pc \in {"o_account", "o_save"}

\* Neither the accounts nor the organizations change, and who is linking goes on.
LEMMA NothingLinked ==
  ASSUME LinkInv, UNCHANGED <<accounts, orgs>>,
         Faults \/ \A c \in Call : \A a : IsLinking(c, a) => IsLinking(c, a)'
  PROVE  LinkInv'
<1>1. AddrsUnique' /\ OrgsKnown'
  BY DEF LinkInv, AddrsUnique, OrgsKnown
<1>2. ASSUME ~Faults, NEW acct \in accounts, acct.ownerType = "", RowsOf(orgs, acct.addr) # {}
      PROVE  \E d \in Call : IsLinking(d, acct.addr)'
  <2>1. PICK d \in Call : IsLinking(d, acct.addr)
    BY <1>2 DEF LinkInv, UnlinkedOnlyInFlight, IsLinking
  <2> QED
    BY <1>2, <2>1
<1>3. UnlinkedOnlyInFlight'
  BY <1>2 DEF UnlinkedOnlyInFlight, IsLinking
<1> QED
  BY <1>1, <1>3 DEF LinkInv

\* Whoever has another type than the new owner's was not updated.
LEMMA SetOwnerOthers ==
  ASSUME NEW accts \in SUBSET Account, NEW i, NEW oid, NEW otype,
         NEW new \in SetOwner(accts, i, oid, otype), new.ownerType # otype
  PROVE  new \in accts /\ new.id # i
BY DEF SetOwner, Account

\* A request saves the account of its own wallet: no account is unlinked by it,
\* and its own wallet's is linked.
LEMMA OwnerSet ==
  ASSUME IndInv, LinkInv, NEW c \in Call, NEW i, NEW oid, NEW otype, otype # "",
         OwnRow(accounts, i, reg[c].addr),
         accounts' = SetOwner(accounts, i, oid, otype), UNCHANGED orgs,
         \A d \in Call : d # c => reg'[d] = reg[d]
  PROVE  LinkInv'
<1>1. accounts \in SUBSET Account
  BY DEF IndInv, TypeOK
<1>2. AddrsUnique'
  <2> DEFINE upd(row) == IF row.id = i
                         THEN [row EXCEPT !.ownerId = oid, !.ownerType = otype] ELSE row
  <2>1. accounts' = {upd(row) : row \in accounts}
    BY DEF SetOwner
  <2>2. \A row \in accounts : upd(row).addr = row.addr
    BY <1>1 DEF Account
  <2> HIDE DEF upd
  <2>3. ASSUME NEW acct \in accounts', NEW other \in accounts', acct.addr = other.addr
        PROVE  acct = other
    <3>1. PICK a \in accounts, b \in accounts : acct = upd(a) /\ other = upd(b)
      BY <2>1
    <3> QED
      BY <2>2, <2>3, <3>1 DEF LinkInv, AddrsUnique
  <2> QED
    BY <2>3 DEF AddrsUnique
<1>3. OrgsKnown'
  <2>1. \A a : RowsOf(accounts', a) = {} <=> RowsOf(accounts, a) = {}
    BY <1>1, SetOwnerRows
  <2> QED
    BY <2>1 DEF LinkInv, OrgsKnown
<1>4. ASSUME ~Faults, NEW acct \in accounts', acct.ownerType = "", RowsOf(orgs, acct.addr) # {}
      PROVE  \E d \in Call : IsLinking(d, acct.addr)'
  <2>1. acct \in accounts /\ acct.id # i
    <3>1. acct \in SetOwner(accounts, i, oid, otype)
      OBVIOUS
    <3> QED
      BY <1>1, <1>4, <3>1, SetOwnerOthers
  <2>2. PICK d \in Call : IsLinking(d, acct.addr)
    BY <1>4, <2>1 DEF LinkInv, UnlinkedOnlyInFlight, IsLinking
  <2>3. reg[c].addr # acct.addr
    BY <2>1 DEF LinkInv, AddrsUnique, OwnRow
  <2> QED
    BY <2>2, <2>3 DEF IsLinking
<1>5. UnlinkedOnlyInFlight'
  BY <1>4 DEF UnlinkedOnlyInFlight, IsLinking
<1> QED
  BY <1>2, <1>3, <1>5 DEF LinkInv

\* The organization is inserted, and its request goes on to link the account.
LEMMA OrgInserted ==
  ASSUME IndInv, LinkInv, NEW c \in Call, NEW i, reg[c].pc = "o_create", OrgInsert(c, i),
         UNCHANGED accounts, \A d \in Call : d # c => reg'[d] = reg[d],
         Faults \/ (reg'[c].addr = reg[c].addr /\ reg'[c].pc = "o_account")
  PROVE  LinkInv'
<1>1. PICK new : /\ new = [id |-> i, addr |-> reg[c].addr, email |-> reg[c].email]
                 /\ orgs' = orgs \cup {new}
  BY DEF OrgInsert
<1>2. new.addr = reg[c].addr
  BY <1>1
<1>3. OrgsKnown'
  <2>1. RowsOf(accounts, reg[c].addr) # {}
    BY DEF IndInv, AccountAlwaysFound, AccountRead, InFlight
  <2> QED
    BY <1>1, <1>2, <2>1 DEF LinkInv, OrgsKnown
<1>4. ASSUME ~Faults, NEW acct \in accounts, acct.ownerType = "", RowsOf(orgs', acct.addr) # {}
      PROVE  \E d \in Call : IsLinking(d, acct.addr)'
  <2>1. CASE acct.addr = reg[c].addr
    BY <1>4, <2>1 DEF IsLinking
  <2>2. CASE acct.addr # reg[c].addr
    <3>1. RowsOf(orgs, acct.addr) # {}
      BY <1>1, <1>2, <1>4, <2>2 DEF RowsOf
    <3>2. PICK d \in Call : IsLinking(d, acct.addr)
      BY <1>4, <3>1 DEF LinkInv, UnlinkedOnlyInFlight, IsLinking
    <3> QED
      BY <2>2, <3>2 DEF IsLinking
  <2> QED
    BY <2>1, <2>2
<1>5. UnlinkedOnlyInFlight'
  BY <1>4 DEF UnlinkedOnlyInFlight, IsLinking
<1> QED
  BY <1>3, <1>5 DEF LinkInv, AddrsUnique

\* A wallet that signs in for the first time has no organization yet.
LEMMA SignedIn ==
  ASSUME IndInv, LinkInv, NEW a \in Addr, SignIn(a)
  PROVE  LinkInv'
<1>1. PICK i \in Id : accounts' = accounts \cup {NewAccount(i, a)}
  BY DEF SignIn, Unused
<1>2. PICK new : new = NewAccount(i, a)
  OBVIOUS
<1>3. new.addr = a /\ accounts' = accounts \cup {new} /\ UNCHANGED <<orgs, reg>>
  BY <1>1, <1>2 DEF NewAccount, SignIn
<1>4. \A acct \in accounts : acct.addr # a
  BY DEF SignIn, RowsOf
<1>5. \A row \in orgs : row.addr # a
  BY <1>4 DEF LinkInv, OrgsKnown, RowsOf
<1>6. AddrsUnique'
  BY <1>3, <1>4 DEF LinkInv, AddrsUnique
<1>7. OrgsKnown'
  BY <1>3 DEF LinkInv, OrgsKnown, RowsOf
<1>8. UnlinkedOnlyInFlight'
  BY <1>3, <1>5 DEF LinkInv, UnlinkedOnlyInFlight, RowsOf
<1> QED
  BY <1>6, <1>7, <1>8 DEF LinkInv

\* A request changes its own call only.
LEMMA OwnCallOnly ==
  ASSUME IndInv, NEW c \in Call,
         \/ \E pc : Goto(c, pc)
         \/ \E code : Answer(c, code)
         \/ \E i, pc : \/ reg' = [reg EXCEPT ![c].org = i, ![c].pc = pc]
                       \/ reg' = [reg EXCEPT ![c].acct = i, ![c].pc = pc]
         \/ \E n : reg' = [reg EXCEPT ![c] = n]
  PROVE  \A d \in Call : d # c => reg'[d] = reg[d]
BY DEF IndInv, TypeOK, Goto, Answer

LEMMA StepLinks ==
  ASSUME IndInv, LinkInv, NEW c \in Call, Step(c)
  PROVE  LinkInv'
<1>1. \A d \in Call : d # c => reg'[d] = reg[d]
  BY OwnCallOnly DEF Step, UserFind, UserAccount, UserSave, UserCreate, OrgFind, OrgCreate,
                     OrgAccount, OrgSave
<1>2. ASSUME reg[c].pc \notin {"o_account", "o_save"}, UNCHANGED <<accounts, orgs>>
      PROVE  LinkInv'
  BY <1>1, <1>2, NothingLinked DEF IsLinking
<1>3. CASE UserFind(c) \/ UserAccount(c) \/ OrgFind(c)
  BY <1>2, <1>3 DEF UserFind, UserAccount, OrgFind, At
<1>4. CASE OrgAccount(c)
  <2>1. PICK i : reg' = [reg EXCEPT ![c].acct = i, ![c].pc = "o_save"]
    BY <1>4 DEF OrgAccount
  <2>2. reg'[c].addr = reg[c].addr /\ reg'[c].pc = "o_save"
    BY <2>1 DEF IndInv, TypeOK, RegCall
  <2> QED
    BY <1>1, <1>4, <2>2, NothingLinked DEF OrgAccount, IsLinking
<1>5. ASSUME reg[c].pc \in {"u_save", "u_create", "o_save"}
      PROVE  OwnRow(accounts, reg[c].acct, reg[c].addr)
  BY <1>5 DEF IndInv, CallSound
<1>6. CASE UserSave(c) \/ OrgSave(c)
  BY <1>1, <1>5, <1>6, OwnerSet DEF UserSave, OrgSave, At
<1>7. CASE UserCreate(c)
  <2>1. ASSUME NEW i, UserInsert(c, i)
        PROVE  LinkInv'
    BY <1>1, <1>5, <1>7, <2>1, OwnerSet DEF UserCreate, UserInsert, At
  <2> QED
    BY <1>2, <1>7, <2>1 DEF UserCreate, At
<1>8. CASE OrgCreate(c)
  <2>1. ASSUME NEW i, OrgInsert(c, i), reg' = [reg EXCEPT ![c].org = i, ![c].pc = "o_account"]
        PROVE  LinkInv'
    <3>1. reg'[c].addr = reg[c].addr /\ reg'[c].pc = "o_account"
      BY <2>1 DEF IndInv, TypeOK, RegCall
    <3> QED
      BY <1>1, <1>8, <2>1, <3>1, OrgInserted DEF OrgCreate, At
  <2> QED
    BY <1>2, <1>8, <2>1 DEF OrgCreate, At
<1> QED
  BY <1>3, <1>4, <1>6, <1>7, <1>8 DEF Step

\* A request that cannot find its account does not exist (AccountAlwaysFound).
LEMMA FailureLinks ==
  ASSUME IndInv, LinkInv, NEW c \in Call, Failure(c)
  PROVE  LinkInv'
<1>1. Faults
  BY DEF Failure, FindFails, UserCreateFails, OrgCreateFails, Fatal, IndInv, AccountAlwaysFound,
         InFlight
<1>2. CASE UNCHANGED <<accounts, orgs>>
  BY <1>1, <1>2, NothingLinked
<1>3. ASSUME UserCreateFails(c) \/ OrgCreateFails(c)
      PROVE  \A d \in Call : d # c => reg'[d] = reg[d]
  BY <1>3, OwnCallOnly DEF UserCreateFails, OrgCreateFails
<1>4. ASSUME UserCreateFails(c), NEW i, UserInsert(c, i)
      PROVE  LinkInv'
  <2>1. OwnRow(accounts, reg[c].acct, reg[c].addr)
    BY <1>4 DEF UserCreateFails, At, IndInv, CallSound
  <2> QED
    BY <1>3, <1>4, <2>1, OwnerSet DEF UserCreateFails, UserInsert
<1>5. ASSUME OrgCreateFails(c), NEW i, OrgInsert(c, i)
      PROVE  LinkInv'
  BY <1>1, <1>3, <1>5, OrgInserted DEF OrgCreateFails, At
<1> QED
  BY <1>2, <1>4, <1>5 DEF Failure, FindFails, UserCreateFails, OrgCreateFails, Fatal, Exit

LEMMA ArrivalLinks ==
  ASSUME IndInv, LinkInv, NEW c \in Call, Arrival(c)
  PROVE  LinkInv'
<1>1. Free(c) /\ UNCHANGED <<accounts, orgs>> /\ \E n : reg' = [reg EXCEPT ![c] = n]
  BY DEF Arrival, Refuse, BeginUser, BeginOrg, Begin
<1>2. \A d \in Call : d # c => reg'[d] = reg[d]
  BY <1>1, OwnCallOnly
<1> QED
  BY <1>1, <1>2, NothingLinked DEF Free, IsLinking

\* Without faults an account that no request has ever saved, though its wallet has an
\* organization, is seen only while a request of the wallet is on its way from the
\* insert to OrgSave (org.go:116-131).
THEOREM UnlinkedAreInFlight == Spec => []UnlinkedOnlyInFlight
<1>1. Init => LinkInv
  BY DEF Init, LinkInv, AddrsUnique, OrgsKnown, UnlinkedOnlyInFlight
<1>2. IndInv /\ LinkInv /\ [Next]_vars => LinkInv'
  <2> SUFFICES ASSUME IndInv, LinkInv, [Next]_vars PROVE LinkInv'
    OBVIOUS
  <2>1. CASE Kill
    BY <2>1, NothingLinked DEF Kill, Exit
  <2>2. ASSUME NEW a \in Addr, SignIn(a) \/ Authorize(a) \/ Expire(a)
        PROVE  LinkInv'
    BY <2>2, SignedIn, NothingLinked DEF Authorize, Expire, IsLinking
  <2>3. CASE UNCHANGED vars
    BY <2>3, NothingLinked DEF vars, IsLinking
  <2> QED
    BY <2>1, <2>2, <2>3, StepLinks, FailureLinks, ArrivalLinks DEF Next, Session
<1>3. LinkInv => UnlinkedOnlyInFlight
  BY DEF LinkInv
<1> QED
  BY <1>1, <1>2, <1>3, Invariance, PTL DEF Spec

(***************************************************************************)
(* Each table of profiles is a record of its own.                          *)
(***************************************************************************)

\* The entry of a row, as the record has it.
EntryOf(row) == [key |-> row.addr, party |-> row.addr, content |-> <<row.id, row.email>>]

LEMMA EntriesAre == \A table : Entries(table) = {EntryOf(row) : row \in table}
BY DEF Entries, EntryOf

\* A row of a wallet that has none adds one entry, under a key of its own.
LEMMA EntryAdded ==
  ASSUME NEW table \in SUBSET Profile, NEW row \in Profile,
         RowsOf(table, row.addr) = {}, RowsOf(accounts, row.addr) # {}
  PROVE  LET d == EntryOf(row)
         IN  /\ d \in [key : Addr, party : Addr, content : Id \X Email]
             /\ d \in Entries(table \cup {row}) \ Entries(table)
             /\ d.party \in Parties
             /\ d.key \notin {e.key : e \in Entries(table)}
             /\ Entries(table \cup {row}) = Entries(table) \cup {d}
<1> DEFINE d == EntryOf(row)
<1>1. /\ d.key = row.addr /\ d.party = row.addr
      /\ d \in [key : Addr, party : Addr, content : Id \X Email]
  BY DEF EntryOf, Profile
<1>2. \A r : EntryOf(r).key = r.addr
  BY DEF EntryOf
<1>3. d.party \in Parties
  BY <1>1 DEF RowsOf, Parties
<1>4. d.key \notin {e.key : e \in Entries(table)}
  BY <1>1, <1>2, EntriesAre DEF RowsOf
<1>5. Entries(table \cup {row}) = Entries(table) \cup {d}
  BY EntriesAre
<1>6. d \notin Entries(table)
  BY <1>4
<1> QED
  BY <1>1, <1>3, <1>4, <1>5, <1>6

\* The wallets that have an account: a request adds none, signing in adds one.
LEMMA PartiesStay ==
  ASSUME IndInv, NEW c \in Call, Step(c) \/ Failure(c)
  PROVE  Parties' = Parties
<1>1. accounts \in SUBSET Account
  BY DEF IndInv, TypeOK
<1>2. ASSUME NEW oid, NEW otype, accounts' = SetOwner(accounts, reg[c].acct, oid, otype)
      PROVE  Parties' = Parties
  BY <1>1, <1>2, SetOwnerKnown DEF Parties
<1>3. CASE UNCHANGED accounts
  BY <1>3 DEF Parties
<1> QED
  BY <1>2, <1>3, StepTables

\* What a request may insert, and where.
LEMMA RequestInserts ==
  ASSUME NEW c \in Call, Step(c) \/ Failure(c)
  PROVE  \/ UNCHANGED <<users, orgs>>
         \/ /\ At(c, "u_create") /\ UNCHANGED orgs
            /\ \E i \in Id : UserInsert(c, i)
         \/ /\ At(c, "o_create") /\ UNCHANGED users
            /\ \E i \in Id : OrgInsert(c, i)
BY DEF Step, Failure, UserFind, UserAccount, UserSave, UserCreate, OrgFind, OrgCreate,
       OrgAccount, OrgSave, FindFails, UserCreateFails, OrgCreateFails, Fatal, Exit

\* The row it inserts is the one of a wallet that signed in and had none.
LEMMA RowInserted ==
  ASSUME IndInv, NEW c \in Call, reg[c].pc \in {"u_create", "o_create"}, NEW i \in Id
  PROVE  LET row == [id |-> i, addr |-> reg[c].addr, email |-> reg[c].email]
         IN  row \in Profile /\ row.addr = reg[c].addr /\ RowsOf(accounts, row.addr) # {}
<1>1. InFlight(c)
  BY DEF InFlight
<1>2. reg[c].addr \in Addr /\ reg[c].email \in Email
  BY <1>1 DEF IndInv, CallSound
<1>3. RowsOf(accounts, reg[c].addr) # {}
  BY <1>1 DEF IndInv, AccountAlwaysFound, AccountRead
<1> QED
  BY <1>2, <1>3 DEF Profile

LEMMA UserIssued ==
  ASSUME IndInv, NEW c \in Call, Step(c) \/ Failure(c), At(c, "u_create"),
         NEW i \in Id, UserInsert(c, i)
  PROVE  Users!Issue
<1> DEFINE row == [id |-> i, addr |-> reg[c].addr, email |-> reg[c].email]
<1>1. row \in Profile /\ row.addr = reg[c].addr /\ RowsOf(accounts, row.addr) # {}
  BY RowInserted DEF At
<1>2. users' = users \cup {row} /\ RowsOf(users, reg[c].addr) = {}
  BY DEF UserInsert, Insertable
<1>3. users \in SUBSET Profile
  BY DEF IndInv, TypeOK
<1> HIDE DEF row
<1>4. Entries(users)' = Entries(users \cup {row}) /\ RowsOf(users, row.addr) = {}
  BY <1>1, <1>2 DEF Entries
<1>5. PICK d : d = EntryOf(row)
  OBVIOUS
<1>6. /\ d \in [key : Addr, party : Addr, content : Id \X Email]
      /\ d \in Entries(users)' \ Entries(users)
      /\ d.party \in Parties
      /\ d.key \notin {e.key : e \in Entries(users)}
      /\ Entries(users)' = Entries(users) \cup {d}
  <2>1. LET n == EntryOf(row)
        IN  /\ n \in [key : Addr, party : Addr, content : Id \X Email]
            /\ n \in Entries(users \cup {row}) \ Entries(users)
            /\ n.party \in Parties
            /\ n.key \notin {e.key : e \in Entries(users)}
            /\ Entries(users \cup {row}) = Entries(users) \cup {n}
    BY <1>1, <1>3, <1>4, EntryAdded
  <2> QED
    BY <2>1, <1>4, <1>5
<1>7. Parties' = Parties
  BY PartiesStay
<1> QED
  BY <1>6, <1>7 DEF Users!Issue, Users!Document

LEMMA OrgIssued ==
  ASSUME IndInv, NEW c \in Call, Step(c) \/ Failure(c), At(c, "o_create"),
         NEW i \in Id, OrgInsert(c, i)
  PROVE  Organizations!Issue
<1> DEFINE row == [id |-> i, addr |-> reg[c].addr, email |-> reg[c].email]
<1>1. row \in Profile /\ row.addr = reg[c].addr /\ RowsOf(accounts, row.addr) # {}
  BY RowInserted DEF At
<1>2. orgs' = orgs \cup {row} /\ RowsOf(orgs, reg[c].addr) = {}
  BY DEF OrgInsert, Insertable
<1>3. orgs \in SUBSET Profile
  BY DEF IndInv, TypeOK
<1> HIDE DEF row
<1>4. Entries(orgs)' = Entries(orgs \cup {row}) /\ RowsOf(orgs, row.addr) = {}
  BY <1>1, <1>2 DEF Entries
<1>5. PICK d : d = EntryOf(row)
  OBVIOUS
<1>6. /\ d \in [key : Addr, party : Addr, content : Id \X Email]
      /\ d \in Entries(orgs)' \ Entries(orgs)
      /\ d.party \in Parties
      /\ d.key \notin {e.key : e \in Entries(orgs)}
      /\ Entries(orgs)' = Entries(orgs) \cup {d}
  <2>1. LET n == EntryOf(row)
        IN  /\ n \in [key : Addr, party : Addr, content : Id \X Email]
            /\ n \in Entries(orgs \cup {row}) \ Entries(orgs)
            /\ n.party \in Parties
            /\ n.key \notin {e.key : e \in Entries(orgs)}
            /\ Entries(orgs \cup {row}) = Entries(orgs) \cup {n}
    BY <1>1, <1>3, <1>4, EntryAdded
  <2> QED
    BY <2>1, <1>4, <1>5
<1>7. Parties' = Parties
  BY PartiesStay
<1> QED
  BY <1>6, <1>7 DEF Organizations!Issue, Organizations!Document

\* A step that inserts no profile at most admits a wallet.
LEMMA OnlyAdmits ==
  ASSUME IndInv, [Next]_vars, ~ \E c \in Call : Step(c) \/ Failure(c)
  PROVE  /\ UNCHANGED <<Entries(users), Entries(orgs)>>
         /\ Parties' = Parties \/ (Parties' \in SUBSET Addr /\ Parties \subseteq Parties')
<1>1. ASSUME NEW a \in Addr, SignIn(a)
      PROVE  /\ UNCHANGED <<users, orgs>>
             /\ Parties' \in SUBSET Addr /\ Parties \subseteq Parties'
  <2>1. accounts \subseteq accounts' /\ UNCHANGED <<users, orgs>>
    BY <1>1 DEF SignIn
  <2>2. PICK i \in Id : accounts' = accounts \cup {NewAccount(i, a)}
    BY <1>1 DEF SignIn, Unused
  <2>3. NewAccount(i, a).addr = a
    BY DEF NewAccount
  <2>4. \A row \in accounts : row.addr \in Addr
    BY DEF IndInv, TypeOK, Account
  <2> QED
    BY <2>1, <2>2, <2>3, <2>4 DEF Parties
<1>2. CASE UNCHANGED <<accounts, users, orgs>>
  BY <1>2 DEF Entries, Parties
<1>3. UNCHANGED <<accounts, users, orgs>> \/ \E a \in Addr : SignIn(a)
  BY DEF Next, vars, Arrival, Refuse, BeginUser, BeginOrg, Begin, Kill, Exit, Session,
         Authorize, Expire
<1> QED
  BY <1>1, <1>2, <1>3 DEF Entries

\* A wallet has one profile of each kind, and keeps it (user.go:40-60, org.go:112-116).
THEOREM ProfilesAreRecorded == Spec => ProfilesAreRecords
<1>1. Init => Users!Init /\ Organizations!Init
  BY DEF Init, Users!Init, Organizations!Init, Parties, Entries
<1>2. IndInv /\ [Next]_vars =>
        [Users!Next]_(Users!vars) /\ [Organizations!Next]_(Organizations!vars)
  <2> SUFFICES ASSUME IndInv, [Next]_vars
               PROVE  /\ Users!Next \/ UNCHANGED <<Parties, Entries(users)>>
                      /\ Organizations!Next \/ UNCHANGED <<Parties, Entries(orgs)>>
    BY DEF Users!vars, Organizations!vars
  <2>1. ASSUME NEW c \in Call, Step(c) \/ Failure(c)
        PROVE  /\ Users!Issue \/ UNCHANGED <<Parties, Entries(users)>>
               /\ Organizations!Issue \/ UNCHANGED <<Parties, Entries(orgs)>>
    <3>1. Parties' = Parties
      BY <2>1, PartiesStay
    <3>2. CASE UNCHANGED <<users, orgs>>
      BY <3>1, <3>2 DEF Entries
    <3>3. ASSUME At(c, "u_create"), UNCHANGED orgs, NEW i \in Id, UserInsert(c, i)
          PROVE  Users!Issue /\ UNCHANGED <<Parties, Entries(orgs)>>
      BY <2>1, <3>1, <3>3, UserIssued DEF Entries
    <3>4. ASSUME At(c, "o_create"), UNCHANGED users, NEW i \in Id, OrgInsert(c, i)
          PROVE  Organizations!Issue /\ UNCHANGED <<Parties, Entries(users)>>
      BY <2>1, <3>1, <3>4, OrgIssued DEF Entries
    <3> QED
      BY <2>1, <3>2, <3>3, <3>4, RequestInserts
  <2>2. CASE ~ \E c \in Call : Step(c) \/ Failure(c)
    BY <2>2, OnlyAdmits DEF Users!Next, Users!Admit, Organizations!Next, Organizations!Admit
  <2> QED
    BY <2>1, <2>2 DEF Users!Next, Organizations!Next
<1> QED
  BY <1>1, <1>2, Invariance, PTL
  DEF Spec, ProfilesAreRecords, Users!Spec, Organizations!Spec
=============================================================================
