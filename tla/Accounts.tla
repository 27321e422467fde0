------------------------------ MODULE Accounts ------------------------------
(***************************************************************************)
(* Accounts and their roles, in a MySQL database that several requests use  *)
(* at once.  An account is created by a registration with a password or by  *)
(* the first login through Feishu, in a transaction whose plain reads see   *)
(* the database as it was at its first read, while what it writes meets the *)
(* rows of today.  The first account is an administrator's.  Roles are      *)
(* managed meanwhile, and every start of the service repairs them.          *)
(***************************************************************************)
EXTENDS Integers, FiniteSets

CONSTANTS
    Logins,         \* the requests that register or log in at one time
    Ids,            \* bound: the identifiers of accounts
    Emails, Uids,   \* addresses, and identities at Feishu
    Nobody,         \* no address, no identity, no name, no account
    RoleIds,        \* bound: the identifiers of roles, never given twice
    MaxEdits,       \* bound: how often roles are edited
    MaxStarts       \* bound: how often the service is started

RoleNames == {"admin", "user", "other"}
Deleted == "deleted"

ASSUME AccountsAssumption ==
    /\ IsFiniteSet(Ids)
    /\ Nobody \notin Ids \cup Emails \cup Uids \cup RoleNames
    /\ {MaxEdits, MaxStarts} \subseteq Nat
    /\ IsFiniteSet(RoleIds) /\ RoleIds \subseteq Nat /\ Cardinality(RoleIds) >= 2 + MaxEdits

VARIABLES
    up,             \* the service runs
    starts,
    users,          \* the accounts
    roles,          \* the names of the roles
    holds,          \* rbac_user_roles: accounts and roles
    edits,          \* how often roles were edited
    edited,         \* they were edited since the service was started
    login           \* where each request stands

accountVars == <<up, starts, users, roles, holds, edits, edited, login>>

User == [id : Ids, uid : Uids \cup {Nobody}, email : Emails \cup {Nobody}, admin : BOOLEAN]

Idle == [at |-> "idle", uid |-> Nobody, email |-> Nobody, seen |-> {}, names |-> << >>,
         held |-> {}, row |-> {}, grant |-> {}, user |-> Nobody]

AccountsTypeOK ==
    /\ up \in BOOLEAN /\ edited \in BOOLEAN
    /\ starts \in 0..MaxStarts /\ edits \in 0..MaxEdits
    /\ users \subseteq User
    /\ roles \in [RoleIds -> RoleNames \cup {Nobody, Deleted}]
    /\ holds \subseteq Ids \X RoleIds
    /\ \A l \in Logins :
        /\ login[l].at \in {"idle", "insert", "read", "role", "commit"}
        /\ login[l].row \subseteq User /\ Cardinality(login[l].row) <= 1

AccountsInit ==
    /\ up = FALSE /\ starts = 0
    /\ users = {} /\ roles = [i \in RoleIds |-> Nobody] /\ holds = {}
    /\ edits = 0 /\ edited = FALSE
    /\ login = [l \in Logins |-> Idle]

---------------------------------------------------------------------------
(* The start: seed and repair *)

Named(names, n) == {i \in RoleIds : names[i] = n}

Free(names) == Named(names, Nobody)

Live(names) == {i \in RoleIds : names[i] \in RoleNames}

\* INSERT IGNORE of a role, with the next identifier.
WithRole(names, n) ==
    IF Named(names, n) # {} THEN names
    ELSE [names EXCEPT ![CHOOSE i \in Free(names) : \A j \in Free(names) : i <= j] = n]

RolesHeld(id, pairs) == {p[2] : p \in {q \in pairs : q[1] = id}}

\* An administrator has the role of one; whoever has none is a standard user.
RepairedHolds(f) ==
    holds \cup {<<u.id, i>> : u \in {v \in users : v.admin}, i \in Named(f, "admin")}
          \cup {<<u.id, i>> : u \in {v \in users : ~v.admin /\ RolesHeld(v.id, holds) = {}},
                              i \in Named(f, "user")}

\* The service starts, after a stop or a crash that ended every request.
Start ==
    /\ starts < MaxStarts
    /\ starts' = starts + 1
    /\ up' = TRUE
    /\ login' = [l \in Logins |-> Idle]
    /\ roles' = WithRole(WithRole(roles, "admin"), "user")
    /\ holds' = RepairedHolds(roles')
    /\ edited' = FALSE
    /\ UNCHANGED <<users, edits>>

---------------------------------------------------------------------------
(* Accounts are created and logged in to *)

Goto(l, s) == login' = [login EXCEPT ![l] = s]
Ends(l) == Goto(l, Idle)

tables == <<users, roles, holds>>

\* The first read of a transaction fixes what its plain reads see.
Begin(l, uid, email) ==
    Goto(l, [Idle EXCEPT !.at = "insert", !.uid = uid, !.email = email,
                         !.seen = users, !.names = roles, !.held = holds])

\* Callback of the Feishu login: UpsertUser.
LoginWithFeishu(l) ==
    /\ up /\ login[l].at = "idle"
    /\ \E uid \in Uids, email \in Emails \cup {Nobody} : Begin(l, uid, email)
    /\ UNCHANGED <<up, starts, tables, edits, edited>>

\* Register: CreateUserWithPassword, unless the address is taken.
Register(l) ==
    /\ up /\ login[l].at = "idle"
    /\ \E email \in Emails :
        IF \E u \in users : u.email = email THEN Ends(l) ELSE Begin(l, Nobody, email)
    /\ UNCHANGED <<up, starts, tables, edits, edited>>

\* Any statement may fail; a transaction is rolled back then.
StatementFails(l) ==
    /\ login[l].at # "idle"
    /\ Ends(l)
    /\ UNCHANGED <<up, starts, tables, edits, edited>>

\* Broken variant: whether there are accounts is asked without the snapshot's
\* isolation, so that rows not yet committed count.
FirstUserEver(l) == login[l].seen = {} /\ \A m \in Logins \ {l} : login[m].row = {}

FirstUserIsAdmin(l) == login[l].seen = {}

\* The rows that a unique key of a new row would meet.
Same(uid, u) == uid # Nobody /\ u.uid = uid
SameEmail(email, u) == email # Nobody /\ u.email = email

\* The rows a transaction holds until it ends: as they will be, and as they are.
Locked(m) == login[m].row \cup {u \in users : \E v \in login[m].row : v.id = u.id}

\* Another transaction's row with one of the keys: the INSERT waits for it.
Blocked(l) ==
    \E m \in Logins \ {l} : \E u \in Locked(m) :
        Same(login[l].uid, u) \/ SameEmail(login[l].email, u)

\* A new row, with the next identifier.
NewId == Ids \ ({u.id : u \in users} \cup {u.id : u \in UNION {login[m].row : m \in Logins}})

Insert(l) ==
    /\ login[l].at = "insert" /\ ~Blocked(l)
    /\ ~\E u \in users : Same(login[l].uid, u) \/ SameEmail(login[l].email, u)
    /\ \E id \in NewId :
        Goto(l, [login[l] EXCEPT
                   !.row = {[id |-> id, uid |-> login[l].uid, email |-> login[l].email,
                             admin |-> FirstUserIsAdmin(l)]},
                   !.at = "read"])
    /\ UNCHANGED <<up, starts, tables, edits, edited>>

\* ON DUPLICATE KEY UPDATE: the row with the identity, or else the one with the
\* address, gets the address of today, unless a third row has it.  A row that is
\* left as it was is not one of the transaction's own.
Update(l) ==
    /\ login[l].at = "insert" /\ ~Blocked(l) /\ login[l].uid # Nobody
    /\ \E u \in users :
        /\ \/ Same(login[l].uid, u)
           \/ SameEmail(login[l].email, u) /\ ~\E v \in users : Same(login[l].uid, v)
        /\ \A v \in users \ {u} : ~SameEmail(login[l].email, v)
        /\ \E changed \in {c \in BOOLEAN : u.email # login[l].email => c} :
            Goto(l, [login[l] EXCEPT
                       !.row = IF changed THEN {[u EXCEPT !.email = login[l].email]} ELSE {},
                       !.at = "read"])
    /\ UNCHANGED <<up, starts, tables, edits, edited>>

\* The statement is refused: the address belongs to another account.
Taken(l) ==
    /\ login[l].at = "insert" /\ ~Blocked(l)
    /\ \E u \in users : /\ SameEmail(login[l].email, u)
                        /\ login[l].uid = Nobody \/ \E v \in users \ {u} : Same(login[l].uid, v)
    /\ Ends(l)
    /\ UNCHANGED <<up, starts, tables, edits, edited>>

\* The rows a transaction sees: its own, and those of its snapshot.
Visible(l) ==
    login[l].row \cup {u \in login[l].seen : \A v \in login[l].row : v.id # u.id}

\* The account is read back by its identity; a registration knows its own.
ReadBack(l) ==
    /\ login[l].at = "read"
    /\ LET mine == IF login[l].uid = Nobody THEN login[l].row
                   ELSE {u \in Visible(l) : u.uid = login[l].uid}
       IN IF mine = {} THEN Ends(l)
          ELSE \E u \in mine : Goto(l, [login[l] EXCEPT !.user = u.id, !.at = "role"])
    /\ UNCHANGED <<up, starts, tables, edits, edited>>

\* assignRole reads the role from the snapshot.  INSERT IGNORE forgives a role
\* that is gone by now, and then the account gets none.
AssignSystemRole(l) ==
    /\ login[l].at = "role"
    /\ LET me == CHOOSE u \in Visible(l) : u.id = login[l].user
           role == Named(login[l].names, IF me.admin THEN "admin" ELSE "user")
           has == login[l].uid # Nobody /\ ~me.admin /\ RolesHeld(me.id, login[l].held) # {}
           next == [login[l] EXCEPT !.at = "commit"]
       IN IF has THEN Goto(l, next)
          ELSE IF role = {} THEN Ends(l)
          ELSE Goto(l, [next EXCEPT !.grant = {<<me.id, i>> : i \in role \cap Live(roles)}])
    /\ UNCHANGED <<up, starts, tables, edits, edited>>

Commit(l) ==
    /\ login[l].at = "commit"
    /\ users' = {u \in users : \A v \in login[l].row : v.id # u.id} \cup login[l].row
    /\ holds' = holds \cup login[l].grant
    /\ Ends(l)
    /\ UNCHANGED <<up, starts, roles, edits, edited>>

---------------------------------------------------------------------------
(* Roles are managed, one statement each *)

Edit ==
    /\ up /\ edits < MaxEdits
    /\ edits' = edits + 1 /\ edited' = TRUE
    /\ UNCHANGED <<up, starts, users, login>>

\* A transaction that gives a role away holds its row.
Held(i) == \E l \in Logins : \E p \in login[l].grant : p[2] = i

CreateRole ==
    /\ Edit
    /\ \E n \in RoleNames : Named(roles, n) = {} /\ roles' = WithRole(roles, n)
    /\ UNCHANGED holds

UpdateRole ==
    /\ Edit
    /\ \E i \in Live(roles), n \in RoleNames :
        /\ ~Held(i) /\ Named(roles, n) \subseteq {i}
        /\ roles' = [roles EXCEPT ![i] = n]
    /\ UNCHANGED holds

\* With a role go those who hold it.
DeleteRole ==
    /\ Edit
    /\ \E i \in Live(roles) :
        /\ ~Held(i)
        /\ roles' = [roles EXCEPT ![i] = Deleted]
        /\ holds' = {p \in holds : p[2] # i}

AssignRole ==
    /\ Edit
    /\ \E u \in users, i \in Live(roles) : holds' = holds \cup {<<u.id, i>>}
    /\ UNCHANGED roles

RevokeRole ==
    /\ Edit
    /\ \E p \in holds : holds' = holds \ {p}
    /\ UNCHANGED roles

AccountsNext ==
    \/ \E l \in Logins :
        \/ LoginWithFeishu(l) \/ Register(l) \/ StatementFails(l)
        \/ Insert(l) \/ Update(l) \/ Taken(l) \/ ReadBack(l) \/ AssignSystemRole(l) \/ Commit(l)
    \/ Start
    \/ CreateRole \/ UpdateRole \/ DeleteRole \/ AssignRole \/ RevokeRole

\* The accounts by themselves.
AccountsSpec == AccountsInit /\ [][AccountsNext]_accountVars

---------------------------------------------------------------------------
\* However logins overlap and fail: as soon as there is an account there is an
\* administrator's, and no two accounts share an address or an identity; and as
\* long as nobody changed roles since the start, every account has a role and an
\* administrator that of one.
AuthorityIsKept ==
    /\ users # {} => \E u \in users : u.admin
    /\ \A u, v \in users :
        u # v => /\ u.id # v.id
                 /\ u.email # v.email \/ u.email = Nobody
                 /\ u.uid # v.uid \/ u.uid = Nobody
    /\ up /\ ~edited =>
        \A u \in users : /\ RolesHeld(u.id, holds) # {}
                         /\ u.admin => Named(roles, "admin") \subseteq RolesHeld(u.id, holds)
=============================================================================
