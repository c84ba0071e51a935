---------------------------- MODULE UserAccounts ----------------------------
(***************************************************************************)
(* UsersService's writes as database transactions: the first setup,        *)
(* creation, change of role and deletion, of several connections (of one   *)
(* process or more) at once.  A statement reads what was committed when it *)
(* began; a commit makes a transaction's rows visible at once; a           *)
(* transaction may roll back at any step, by an error or because its       *)
(* request was dropped.                                                    *)
(***************************************************************************)
EXTENDS Naturals, FiniteSets

CONSTANTS
    Conns,  \* connections
    Names,  \* user names
    MaxUsers   \* bound: ids handed out

Ids == 1..MaxUsers
Roles == {"admin", "viewer"}
NoUser == [name |-> "none", role |-> "none"]

VARIABLES
    users,   \* committed rows, by id
    lastId,     \* the last id handed out; one is never handed out twice
    lock,    \* who holds the write lock of users
    conn,    \* where each connection is and what it carries
    setups,  \* history: setups that were answered with an account
    governed \* history: an administrator has existed

vars == <<users, lastId, lock, conn, setups, governed>>

Idle == [at |-> "idle"]
Nobody == "nobody"

ASSUME ConstantsOK == MaxUsers \in Nat /\ Nobody \notin Conns /\ "none" \notin Names

Init ==
    /\ users = [i \in Ids |-> NoUser] /\ lastId = 0
    /\ lock = Nobody /\ conn = [k \in Conns |-> Idle]
    /\ setups = 0 /\ governed = FALSE

At(k, pc) == conn[k].at = pc
Goto(k, s) == conn' = [conn EXCEPT ![k] = s]
Exists(i) == users[i] # NoUser
Admins == {i \in Ids : users[i].role = "admin"}
Taken(name) == \E i \in Ids : users[i].name = name

-----------------------------------------------------------------------------
\* setup_first_user looks before it hashes the password ...
SetupCheck(k, name) ==
    /\ At(k, "idle") /\ \A i \in Ids : ~Exists(i)
    /\ Goto(k, [at |-> "begin", op |-> "setup", name |-> name])
    /\ UNCHANGED <<users, lastId, lock, setups, governed>>

\* ... and create_user looks for the name.
CreateCheck(k, name, role) ==
    /\ At(k, "idle") /\ ~Taken(name)
    /\ Goto(k, [at |-> "insert", name |-> name, role |-> role])
    /\ UNCHANGED <<users, lastId, lock, setups, governed>>

UpdateUser(k, id, role) ==
    /\ At(k, "idle") /\ id <= lastId
    /\ Goto(k, [at |-> "begin", op |-> "update", id |-> id, role |-> role])
    /\ UNCHANGED <<users, lastId, lock, setups, governed>>

\* Refused at once for the account that acts, if an account acts.
DeleteUser(k, id, acting) ==
    /\ At(k, "idle") /\ id <= lastId /\ acting # id
    /\ Goto(k, [at |-> "begin", op |-> "delete", id |-> id])
    /\ UNCHANGED <<users, lastId, lock, setups, governed>>

\* BEGIN IMMEDIATE, or LOCK TABLE users IN SHARE ROW EXCLUSIVE MODE: taken
\* before anything is read, it keeps every other writer out until the commit.
LockIsFree == lock = Nobody

Begin(k) ==
    /\ At(k, "begin") /\ LockIsFree
    /\ lock' = k /\ Goto(k, [conn[k] EXCEPT !.at = "write"])
    /\ UNCHANGED <<users, lastId, setups, governed>>

MutMayRemove(i) == Exists(i)

\* ensure_admin_removal_allowed.
MayRemove(i) == Exists(i) /\ (users[i].role = "admin" => Cardinality(Admins) > 1)

\* What the transaction's statements, which see the rows committed so far,
\* leave to commit: a row for an id, or nothing.
Outcome(s) ==
    CASE s.op = "setup" ->
           IF (\A i \in Ids : ~Exists(i)) /\ lastId < MaxUsers
             THEN <<lastId + 1, [name |-> s.name, role |-> "admin"]>> ELSE <<>>
      [] s.op = "update" ->
           IF MayRemove(s.id) \/ (Exists(s.id) /\ s.role = "admin")
             THEN <<s.id, [users[s.id] EXCEPT !.role = s.role]>> ELSE <<>>
      [] s.op = "delete" -> IF MayRemove(s.id) THEN <<s.id, NoUser>> ELSE <<>>

Released(k) == IF lock = k THEN Nobody ELSE lock

\* A refusal rolls back.
WriteRows(k) ==
    /\ At(k, "write")
    /\ LET out == Outcome(conn[k]) IN
         IF out = <<>>
           THEN Goto(k, Idle) /\ lock' = Released(k) /\ UNCHANGED lastId
           ELSE /\ Goto(k, [at |-> "commit", op |-> conn[k].op, id |-> out[1], row |-> out[2]])
                /\ lastId' = IF out[1] > lastId THEN out[1] ELSE lastId
                /\ UNCHANGED lock
    /\ UNCHANGED <<users, setups, governed>>

Commit(k) ==
    /\ At(k, "commit")
    /\ users' = [users EXCEPT ![conn[k].id] = conn[k].row]
    /\ setups' = IF conn[k].op = "setup" THEN setups + 1 ELSE setups
    /\ governed' = (governed \/ conn[k].row.role = "admin")
    /\ Goto(k, Idle) /\ lock' = Released(k)
    /\ UNCHANGED lastId

\* UNIQUE on username.
RefusesDuplicate(name) == Taken(name)

\* create_user's INSERT is a statement of its own, that waits for the lock.
Insert(k) ==
    /\ At(k, "insert") /\ LockIsFree
    /\ IF RefusesDuplicate(conn[k].name) \/ lastId = MaxUsers
         THEN UNCHANGED <<users, lastId, governed>>
         ELSE /\ lastId' = lastId + 1
              /\ users' = [users EXCEPT ![lastId + 1] = [name |-> conn[k].name, role |-> conn[k].role]]
              /\ governed' = (governed \/ conn[k].role = "admin")
    /\ Goto(k, Idle)
    /\ UNCHANGED <<lock, setups>>

Rollback(k) ==
    /\ ~At(k, "idle")
    /\ Goto(k, Idle) /\ lock' = Released(k)
    /\ UNCHANGED <<users, lastId, setups, governed>>

Next ==
    \E k \in Conns :
        \/ \E name \in Names :
             SetupCheck(k, name) \/ \E role \in Roles : CreateCheck(k, name, role)
        \/ \E id \in Ids :
             \/ \E role \in Roles : UpdateUser(k, id, role)
             \/ \E acting \in {0} \cup Ids : DeleteUser(k, id, acting)
        \/ Begin(k) \/ WriteRows(k) \/ Commit(k) \/ Insert(k) \/ Rollback(k)

Spec == Init /\ [][Next]_vars

-----------------------------------------------------------------------------
\* Once there was an administrator there is one, whatever demotions and
\* deletions run at once (with_users_write_transaction and
\* ensure_admin_removal_allowed).
AnAdministratorRemains == governed => Admins # {}

\* Of concurrent first setups one wins, over an empty table
\* (setup_first_user's conditional INSERT), and creations that both found the
\* name free end in one account (create_user).
AccountsAreDistinct ==
    /\ setups <= 1
    /\ \A i, j \in Ids : Exists(i) /\ users[i].name = users[j].name => i = j

\* Whatever setups, creations, demotions and deletions run at once, the table
\* keeps an administrator and one account for each name.
AccountsStaySound == AnAdministratorRemains /\ AccountsAreDistinct
=============================================================================
