---------------------------- MODULE StorageProofs ----------------------------
(***************************************************************************)
(* What is stored stays sound, for any number of connections, accounts,    *)
(* requests, names, uploads and restores.                                  *)
(*                                                                         *)
(* Accounts: an administrator and one account for each name, because a     *)
(* transaction takes the write lock before it reads and what it found      *)
(* still holds when it commits.  Backup: no step of a restore leaves what  *)
(* was committed without a file to find it in.  Audited writes: the steps  *)
(* of a handler come in one order, so that each may rely on those before.  *)
(* Attachments: an id belongs to one upload until a deletion takes its     *)
(* row, and every table saved anywhere agrees with the files.  Placement:  *)
(* the folders read are those above either exe, and the check of an object *)
(* leaves nobody else a right to write it.  Lists: the first key in which  *)
(* two rows differ decides, and the unique key among the keys leaves one   *)
(* order; an escaped pattern is the searched text and nothing else.        *)
(***************************************************************************)
EXTENDS MCStorage, FiniteSetTheorems, SequenceTheorems, NaturalsInduction, WellFoundedInduction,
        TLAPS

Rows == [name : Names, role : Roles] \cup {NoUser}

\* What a connection can carry, by its step and operation.
Carried ==
    {Idle}
    \cup [at : {"begin", "write"}, op : {"setup"}, name : Names]
    \cup [at : {"begin", "write"}, op : {"update"}, id : Ids, role : Roles]
    \cup [at : {"begin", "write"}, op : {"delete"}, id : Ids]
    \cup [at : {"insert"}, name : Names, role : Roles]
    \cup [at : {"commit"}, op : {"setup", "update", "delete"}, id : Ids, row : Rows]

TypeOK ==
    /\ users \in [Ids -> Rows] /\ lastId \in 0..MaxUsers
    /\ lock \in Conns \cup {Nobody} /\ conn \in [Conns -> Carried]
    /\ setups \in Nat /\ governed \in BOOLEAN

LockInv == \A k \in Conns : conn[k].at \in {"write", "commit"} => lock = k

\* Ids past the last one are free, and the history is the table's.
TableInv ==
    /\ \A i \in Ids : Exists(i) => i <= lastId
    /\ governed => \E i \in Ids : users[i].role = "admin"
    /\ \A i \in Ids : users[i].role = "admin" => governed
    /\ setups <= 1 /\ (setups = 1 => governed)
    /\ \A i, j \in Ids : Exists(i) /\ users[i].name = users[j].name => i = j

\* A row may go from being an administrator's if another one's is left.
Spared(i) == users[i].role = "admin" => \E j \in Ids \ {i} : users[j].role = "admin"

\* What a transaction found, until it commits.
Found(s) ==
    CASE s.op = "setup" ->
           (\A i \in Ids : ~Exists(i)) /\ s.row.role = "admin" /\ s.row.name \in Names
      [] s.op = "update" ->
           /\ Exists(s.id) /\ s.row.name = users[s.id].name
           /\ s.row.role \in Roles /\ (Spared(s.id) \/ s.row.role = "admin")
      [] OTHER -> s.row = NoUser /\ Spared(s.id)

CommitInv == \A k \in Conns : At(k, "commit") => conn[k].id <= lastId /\ Found(conn[k])

IInv == TypeOK /\ LockInv /\ TableInv /\ CommitInv

-----------------------------------------------------------------------------
\* More than one administrator is another one.
LEMMA AnotherAdmin ==
  ASSUME NEW i \in Ids, MayRemove(i)
  PROVE  Spared(i)
  <1> SUFFICES ASSUME users[i].role = "admin" PROVE \E j \in Ids \ {i} : users[j].role = "admin"
    BY DEF Spared
  <1>1. IsFiniteSet(Admins)
    <2>1. IsFiniteSet(Ids)
      BY ConstantsOK, FS_Interval DEF Ids
    <2> QED BY <2>1, FS_Subset DEF Admins
  <1>2. i \in Admins /\ Cardinality(Admins) > 1 /\ Cardinality(Admins) \in Nat
    BY <1>1, FS_CardinalityType DEF Admins, MayRemove
  <1>3. IsFiniteSet(Admins \ {i}) /\ Cardinality(Admins \ {i}) = Cardinality(Admins) - 1
    BY <1>1, <1>2, FS_RemoveElement
  <1>4. Admins \ {i} # {}
    BY <1>2, <1>3, FS_EmptySet
  <1> QED BY <1>4 DEF Admins

\* What a connection carries, by its step.
LEMMA CarriedAt ==
  ASSUME NEW s \in Carried
  PROVE  /\ s.at = "begin" => [s EXCEPT !.at = "write"] \in Carried
                              /\ [s EXCEPT !.at = "write"].at = "write"
         /\ s.at = "write" => \/ s.op = "setup" /\ s.name \in Names
                              \/ s.op = "update" /\ s.id \in Ids /\ s.role \in Roles
                              \/ s.op = "delete" /\ s.id \in Ids
         /\ s.at = "insert" => s.name \in Names /\ s.role \in Roles
         /\ s.at = "commit" => /\ s.op \in {"setup", "update", "delete"}
                               /\ s.id \in Ids /\ s.row \in Rows
  BY DEF Carried, Idle

LEMMA IInvInit == Init => IInv
  <1> SUFFICES ASSUME Init PROVE IInv
    OBVIOUS
  <1>1. TypeOK
    <2>1. users \in [Ids -> Rows]
      BY DEF Init, Rows
    <2>2. conn \in [Conns -> Carried]
      BY DEF Init, Carried
    <2>3. lastId \in 0..MaxUsers /\ setups \in Nat
      BY ConstantsOK DEF Init
    <2>4. lock \in Conns \cup {Nobody} /\ governed \in BOOLEAN
      BY DEF Init
    <2> QED BY <2>1, <2>2, <2>3, <2>4 DEF TypeOK
  <1>2. \A i \in Ids : ~Exists(i) /\ users[i].role = "none"
    BY DEF Init, Exists, NoUser
  <1>3. \A k \in Conns : conn[k].at = "idle"
    BY DEF Init, Idle
  <1> QED BY <1>1, <1>2, <1>3 DEF Init, IInv, LockInv, TableInv, CommitInv, At

\* A step that leaves the table and the lock, and takes a connection that was
\* not in a transaction to where it is in none.
LEMMA OutsideStep ==
  ASSUME IInv, NEW k \in Conns, NEW s \in Carried,
         Goto(k, s), s.at \notin {"write", "commit"},
         UNCHANGED <<users, lastId, setups, governed>>,
         lock' = lock \/ lock' = Released(k)
  PROVE  IInv'
  <1>1. TypeOK'
    BY DEF IInv, TypeOK, Goto, Released
  <1>2. \A c \in Conns : conn'[c] = IF c = k THEN s ELSE conn[c]
    BY DEF IInv, TypeOK, Goto
  <1>3. LockInv'
    BY <1>2 DEF IInv, LockInv, Released
  <1>4. TableInv'
    BY DEF IInv, TableInv, Exists
  <1>5. CommitInv'
    BY <1>2 DEF IInv, CommitInv, At, Found, Exists, Spared
  <1> QED BY <1>1, <1>3, <1>4, <1>5 DEF IInv

LEMMA BeginStep == ASSUME IInv, NEW k \in Conns, Begin(k) PROVE IInv'
  <1>1. conn[k] \in Carried /\ conn[k].at = "begin"
    BY DEF IInv, TypeOK, Begin, At
  <1> DEFINE s == [conn[k] EXCEPT !.at = "write"]
  <1>2. s \in Carried /\ s.at = "write"
    BY <1>1, CarriedAt
  <1>3. /\ \A c \in Conns : conn'[c] = IF c = k THEN s ELSE conn[c]
        /\ conn' \in [Conns -> Carried]
        /\ lock' = k /\ lock = Nobody /\ UNCHANGED <<users, lastId, setups, governed>>
    BY <1>2 DEF IInv, TypeOK, Begin, Goto, LockIsFree
  <1> HIDE DEF s
  <1>4. TypeOK'
    BY <1>3 DEF IInv, TypeOK
  <1>5. LockInv'
    BY ConstantsOK, <1>3 DEF IInv, LockInv
  <1>6. TableInv'
    BY <1>3 DEF IInv, TableInv, Exists
  <1>7. CommitInv'
    BY <1>2, <1>3 DEF IInv, CommitInv, At, Found, Exists, Spared
  <1> QED BY <1>4, <1>5, <1>6, <1>7 DEF IInv

\* What the statements of a transaction leave to commit is found so.
LEMMA OutcomeFound ==
  ASSUME IInv, NEW k \in Conns, At(k, "write"), Outcome(conn[k]) # <<>>
  PROVE  \E id \in Ids, row \in Rows :
           /\ Outcome(conn[k]) = <<id, row>> /\ id <= lastId + 1
           /\ conn[k].op \in {"setup", "update", "delete"}
           /\ Found([at |-> "commit", op |-> conn[k].op, id |-> id, row |-> row])
  <1> DEFINE s == conn[k]
  <1>1. s \in Carried /\ s.at = "write"
    BY DEF IInv, TypeOK, At
  <1>2. \/ s.op = "setup" /\ s.name \in Names
        \/ s.op = "update" /\ s.id \in Ids /\ s.role \in Roles
        \/ s.op = "delete" /\ s.id \in Ids
    BY <1>1, CarriedAt
  <1>3. Outcome(s) # <<>>
    OBVIOUS
  <1> HIDE DEF s
  <1>4. CASE s.op = "setup" /\ s.name \in Names
    <2> DEFINE row == [name |-> s.name, role |-> "admin"]
    <2>1. (\A i \in Ids : ~Exists(i)) /\ lastId < MaxUsers /\ Outcome(s) = <<lastId + 1, row>>
      BY <1>3, <1>4 DEF Outcome
    <2>2. lastId + 1 \in Ids /\ row \in Rows /\ row.role = "admin" /\ row.name \in Names
      BY ConstantsOK, <1>4, <2>1 DEF IInv, TypeOK, Ids, Rows, Roles
    <2> HIDE DEF row
    <2>3. Found([at |-> "commit", op |-> s.op, id |-> lastId + 1, row |-> row])
      BY <1>4, <2>1, <2>2 DEF Found
    <2> QED BY <1>4, <2>1, <2>2, <2>3 DEF s, IInv, TypeOK
  <1>5. CASE s.op = "update" /\ s.id \in Ids /\ s.role \in Roles
    <2> DEFINE row == [users[s.id] EXCEPT !.role = s.role]
    <2>1. /\ MayRemove(s.id) \/ (Exists(s.id) /\ s.role = "admin")
          /\ Outcome(s) = <<s.id, row>>
      BY <1>3, <1>5 DEF Outcome
    <2>2. Exists(s.id) /\ (Spared(s.id) \/ s.role = "admin")
      BY <1>5, <2>1, AnotherAdmin DEF MayRemove
    <2>3. users[s.id] \in [name : Names, role : Roles]
      BY <1>5, <2>2 DEF IInv, TypeOK, Rows, Exists
    <2>4. row \in Rows /\ row.name = users[s.id].name /\ row.role = s.role
      BY <1>5, <2>3 DEF Rows
    <2> HIDE DEF row
    <2>5. Found([at |-> "commit", op |-> s.op, id |-> s.id, row |-> row])
      BY <1>5, <2>2, <2>4 DEF Found
    <2>6. s.id <= lastId + 1
      BY <1>5, <2>2 DEF IInv, TableInv, TypeOK, Ids
    <2> QED BY <1>5, <2>1, <2>4, <2>5, <2>6 DEF s
  <1>6. CASE s.op = "delete" /\ s.id \in Ids
    <2>1. MayRemove(s.id) /\ Outcome(s) = <<s.id, NoUser>>
      BY <1>3, <1>6 DEF Outcome
    <2>2. Exists(s.id) /\ Spared(s.id)
      BY <1>6, <2>1, AnotherAdmin DEF MayRemove
    <2>3. Found([at |-> "commit", op |-> s.op, id |-> s.id, row |-> NoUser])
      BY <1>6, <2>2 DEF Found
    <2>4. s.id <= lastId + 1 /\ NoUser \in Rows
      BY <1>6, <2>2 DEF IInv, TableInv, TypeOK, Ids, Rows
    <2> QED BY <1>6, <2>1, <2>3, <2>4 DEF s
  <1> QED BY <1>2, <1>4, <1>5, <1>6

LEMMA WriteStep == ASSUME IInv, NEW k \in Conns, WriteRows(k) PROVE IInv'
  <1>1. CASE Outcome(conn[k]) = <<>>
    <2>1. Idle \in Carried /\ Idle.at \notin {"write", "commit"}
      BY DEF Carried, Idle
    <2> QED BY <1>1, <2>1, OutsideStep DEF WriteRows
  <1>2. CASE Outcome(conn[k]) # <<>>
    <2>1. PICK id \in Ids, row \in Rows :
            /\ Outcome(conn[k]) = <<id, row>> /\ id <= lastId + 1
            /\ conn[k].op \in {"setup", "update", "delete"}
            /\ Found([at |-> "commit", op |-> conn[k].op, id |-> id, row |-> row])
      BY <1>2, OutcomeFound DEF WriteRows
    <2> DEFINE s == [at |-> "commit", op |-> conn[k].op, id |-> id, row |-> row]
    <2>2. /\ Goto(k, s) /\ At(k, "write")
          /\ lastId' = IF id > lastId THEN id ELSE lastId
          /\ UNCHANGED <<users, lock, setups, governed>>
      BY <1>2, <2>1 DEF WriteRows
    <2>3. s \in Carried /\ s.at = "commit" /\ s.id = id
      BY <2>1 DEF Carried
    <2>4. Found(s)
      BY <2>1
    <2> HIDE DEF s
    <2>5. /\ conn' \in [Conns -> Carried]
          /\ \A c \in Conns : conn'[c] = IF c = k THEN s ELSE conn[c]
      BY <2>2, <2>3 DEF Goto, IInv, TypeOK
    <2>6. lastId' \in 0..MaxUsers /\ lastId <= lastId' /\ id <= lastId'
      BY ConstantsOK, <2>1, <2>2 DEF IInv, TypeOK, Ids
    <2>7. TypeOK'
      BY <2>2, <2>5, <2>6 DEF IInv, TypeOK
    <2>8. LockInv'
      BY <2>2, <2>5 DEF IInv, LockInv, At
    <2>9. TableInv'
      BY <2>2, <2>6 DEF IInv, TableInv, Exists, TypeOK, Ids
    <2>10. CommitInv'
      <3> SUFFICES ASSUME NEW c \in Conns, At(c, "commit")'
                   PROVE  (conn[c].id <= lastId)' /\ Found(conn[c])'
        BY DEF CommitInv
      <3>1. CASE c = k
        BY <2>2, <2>3, <2>4, <2>5, <2>6, <3>1 DEF Found, Exists, Spared
      <3>2. CASE c # k
        <4>1. conn'[c] = conn[c] /\ conn[c].id <= lastId /\ Found(conn[c]) /\ conn[c].id \in Ids
          BY <2>5, <3>2, CarriedAt DEF IInv, CommitInv, At, TypeOK
        <4>2. conn[c].id <= lastId'
          BY <2>6, <4>1 DEF IInv, TypeOK, Ids
        <4> QED BY <2>2, <4>1, <4>2 DEF Found, Exists, Spared
      <3> QED BY <3>1, <3>2
    <2> QED BY <2>7, <2>8, <2>9, <2>10 DEF IInv
  <1> QED BY <1>1, <1>2

LEMMA CommitStep == ASSUME IInv, NEW k \in Conns, Commit(k) PROVE IInv'
  <1> DEFINE s == conn[k]
  <1>1. /\ s.at = "commit" /\ s.op \in {"setup", "update", "delete"}
        /\ s.id \in Ids /\ s.row \in Rows /\ s.id <= lastId /\ Found(s) /\ lock = k
    BY CarriedAt DEF Commit, At, IInv, TypeOK, CommitInv, LockInv
  <1>2. /\ users' \in [Ids -> Rows]
        /\ \A i \in Ids : users'[i] = IF i = s.id THEN s.row ELSE users[i]
        /\ lastId' = lastId /\ lock' = Nobody
        /\ setups' = IF s.op = "setup" THEN setups + 1 ELSE setups
        /\ governed' = (governed \/ s.row.role = "admin")
    BY <1>1 DEF Commit, IInv, TypeOK, Released
  <1>3. /\ conn' \in [Conns -> Carried]
        /\ \A c \in Conns : conn'[c].at \notin {"write", "commit"}
    <2>1. Idle \in Carried /\ Idle.at \notin {"write", "commit"}
      BY DEF Carried, Idle
    <2>2. conn' = [conn EXCEPT ![k] = Idle]
      BY DEF Commit, Goto
    <2>3. \A c \in Conns : c # k => conn[c].at \notin {"write", "commit"}
      BY <1>1 DEF IInv, LockInv
    <2> QED BY <2>1, <2>2, <2>3 DEF IInv, TypeOK
  <1>4. Rows = [name : Names, role : Roles] \cup {NoUser} /\ NoUser.role = "none" /\ NoUser.name = "none"
    BY DEF Rows, NoUser
  <1> HIDE DEF s
  <1>5. TypeOK'
    <2>1. setups' \in Nat
      BY <1>2 DEF IInv, TypeOK
    <2>2. governed' \in BOOLEAN
      BY <1>2 DEF IInv, TypeOK
    <2> QED BY <1>2, <1>3, <2>1, <2>2 DEF IInv, TypeOK
  <1>6. LockInv' /\ CommitInv'
    BY <1>3 DEF LockInv, CommitInv, At
  <1>7. TableInv'
    <2>1. \A i \in Ids : Exists(i)' => i <= lastId'
      BY <1>1, <1>2 DEF IInv, TableInv, Exists
    <2>2. \A i \in Ids : users'[i].role = "admin" => governed'
      BY <1>1, <1>2 DEF IInv, TableInv
    <2>3. CASE s.op = "setup"
      <3>1. (\A i \in Ids : ~Exists(i)) /\ s.row.role = "admin" /\ s.row.name \in Names
        BY <1>1, <2>3 DEF Found
      <3>2. ~governed
        BY <1>4, <3>1 DEF IInv, TableInv, Exists, TypeOK
      <3>3. setups = 0
        BY <3>2 DEF IInv, TableInv, TypeOK
      <3>4. setups' = 1 /\ governed'
        <4>1. setups' = 0 + 1
          BY <1>2, <2>3, <3>3
        <4>2. governed'
          BY <1>2, <3>1
        <4> QED BY <4>1, <4>2
      <3>5. \A i \in Ids : i # s.id => users'[i] = NoUser
        BY <1>2, <3>1 DEF Exists
      <3>6. \A i, j \in Ids : Exists(i)' /\ users'[i].name = users'[j].name => i = j
        BY ConstantsOK, <1>1, <1>2, <1>4, <3>1, <3>5 DEF Exists
      <3>7. users'[s.id].role = "admin"
        BY <1>1, <1>2, <3>1
      <3> QED BY <1>1, <2>1, <2>2, <3>4, <3>6, <3>7 DEF TableInv
    <2>4. CASE s.op # "setup"
      <3>1. setups' <= 1 /\ (setups' = 1 => governed')
        BY <1>2, <2>4 DEF IInv, TableInv
      <3>2. governed' => \E i \in Ids : users'[i].role = "admin"
        <4> SUFFICES ASSUME governed' PROVE \E i \in Ids : users'[i].role = "admin"
          OBVIOUS
        <4>1. CASE s.row.role = "admin"
          BY <1>1, <1>2, <4>1
        <4>2. CASE s.row.role # "admin"
          <5>1. Spared(s.id)
            BY <1>1, <2>4, <4>2 DEF Found
          <5>2. PICK i \in Ids : users[i].role = "admin"
            BY <1>2, <4>2 DEF IInv, TableInv
          <5>3. \E j \in Ids \ {s.id} : users[j].role = "admin"
            BY <5>1, <5>2 DEF Spared
          <5> QED BY <1>2, <5>3
        <4> QED BY <4>1, <4>2
      <3>3. \A i, j \in Ids : Exists(i)' /\ users'[i].name = users'[j].name => i = j
        <4>1. CASE s.op = "update"
          <5>1. Exists(s.id) /\ s.row.name = users[s.id].name
            BY <1>1, <4>1 DEF Found
          <5>2. \A i \in Ids : users'[i].name = users[i].name /\ (Exists(i)' => Exists(i))
            BY <1>2, <5>1 DEF Exists
          <5> QED BY <5>2 DEF IInv, TableInv
        <4>2. CASE s.op = "delete"
          <5>1. s.row = NoUser
            BY <1>1, <4>2 DEF Found
          <5>2. \A i \in Ids : Exists(i)' => /\ Exists(i) /\ users'[i] = users[i] /\ i # s.id
                                             /\ users[i].name \in Names
            BY <1>2, <1>4, <5>1 DEF Exists, IInv, TypeOK
          <5> QED BY ConstantsOK, <1>2, <1>4, <5>1, <5>2 DEF IInv, TableInv
        <4> QED BY <1>1, <2>4, <4>1, <4>2
      <3> QED BY <2>1, <2>2, <3>1, <3>2, <3>3 DEF TableInv
    <2> QED BY <2>3, <2>4
  <1> QED BY <1>5, <1>6, <1>7 DEF IInv

LEMMA InsertStep == ASSUME IInv, NEW k \in Conns, Insert(k) PROVE IInv'
  <1>1. Idle \in Carried /\ Idle.at \notin {"write", "commit"}
    BY DEF Carried, Idle
  <1>2. conn[k].name \in Names /\ conn[k].role \in Roles
    BY CarriedAt DEF Insert, At, IInv, TypeOK
  <1>3. CASE RefusesDuplicate(conn[k].name) \/ lastId = MaxUsers
    BY <1>1, <1>3, OutsideStep DEF Insert
  <1>4. CASE ~(RefusesDuplicate(conn[k].name) \/ lastId = MaxUsers)
    <2> DEFINE new == [name |-> conn[k].name, role |-> conn[k].role]
    <2>1. /\ lastId' = lastId + 1 /\ users' = [users EXCEPT ![lastId + 1] = new]
          /\ governed' = (governed \/ new.role = "admin")
          /\ Goto(k, Idle) /\ UNCHANGED <<lock, setups>> /\ lock = Nobody
          /\ \A i \in Ids : users[i].name # new.name
      BY <1>4 DEF Insert, LockIsFree, RefusesDuplicate, Taken
    <2>2. lastId + 1 \in Ids /\ lastId' \in 0..MaxUsers
      BY ConstantsOK, <1>4, <2>1 DEF IInv, TypeOK, Ids
    <2>3. new \in Rows /\ new \in [name : Names, role : Roles]
      BY <1>2 DEF Rows
    <2> HIDE DEF new
    <2>4. /\ users' \in [Ids -> Rows]
          /\ \A i \in Ids : users'[i] = IF i = lastId + 1 THEN new ELSE users[i]
      BY <2>1, <2>2, <2>3 DEF IInv, TypeOK
    <2>5. /\ conn' \in [Conns -> Carried]
          /\ \A c \in Conns : conn'[c].at \notin {"write", "commit"}
      <3>1. conn' = [conn EXCEPT ![k] = Idle]
        BY <2>1 DEF Goto
      <3>2. \A c \in Conns : conn[c].at \notin {"write", "commit"}
        BY ConstantsOK, <2>1 DEF IInv, LockInv
      <3> QED BY <1>1, <3>1, <3>2 DEF IInv, TypeOK
    <2>6. governed' \in BOOLEAN
      BY <2>1 DEF IInv, TypeOK
    <2>7. TypeOK'
      BY <2>1, <2>2, <2>4, <2>5, <2>6 DEF IInv, TypeOK
    <2>8. LockInv' /\ CommitInv'
      BY <2>5 DEF LockInv, CommitInv, At
    <2>9. \A i \in Ids : Exists(i) => i # lastId + 1
      BY DEF IInv, TableInv, TypeOK, Ids
    <2>10. \A i \in Ids : Exists(i)' => i <= lastId'
      BY <2>1, <2>2, <2>4 DEF IInv, TableInv, TypeOK, Exists, Ids
    <2>11. governed' => \E i \in Ids : users'[i].role = "admin"
      <3>1. CASE new.role = "admin"
        BY <2>2, <2>4, <3>1
      <3>2. CASE governed
        <4>1. PICK i \in Ids : users[i].role = "admin"
          BY <3>2 DEF IInv, TableInv
        <4>2. Exists(i)
          BY <4>1 DEF Exists, NoUser
        <4> QED BY <2>4, <2>9, <4>1, <4>2
      <3> QED BY <2>1, <3>1, <3>2
    <2>12. \A i \in Ids : users'[i].role = "admin" => governed'
      BY <2>1, <2>4 DEF IInv, TableInv
    <2>13. setups' <= 1 /\ (setups' = 1 => governed')
      BY <2>1 DEF IInv, TableInv
    <2>14. \A i, j \in Ids : Exists(i)' /\ users'[i].name = users'[j].name => i = j
      BY <2>1, <2>4 DEF IInv, TableInv, Exists
    <2>15. TableInv'
      BY <2>10, <2>11, <2>12, <2>13, <2>14 DEF TableInv
    <2> QED BY <2>7, <2>8, <2>15 DEF IInv
  <1> QED BY <1>3, <1>4

LEMMA IInvStep == IInv /\ [Next]_vars => IInv'
  <1> SUFFICES ASSUME IInv, [Next]_vars PROVE IInv'
    OBVIOUS
  <1>1. ASSUME NEW k \in Conns, NEW name \in Names, SetupCheck(k, name) PROVE IInv'
    <2> DEFINE s == [at |-> "begin", op |-> "setup", name |-> name]
    <2>1. s \in Carried /\ s.at \notin {"write", "commit"}
      BY DEF Carried
    <2> QED BY <1>1, <2>1, OutsideStep DEF SetupCheck
  <1>2. ASSUME NEW k \in Conns, NEW name \in Names, NEW role \in Roles, CreateCheck(k, name, role)
        PROVE  IInv'
    <2> DEFINE s == [at |-> "insert", name |-> name, role |-> role]
    <2>1. s \in Carried /\ s.at \notin {"write", "commit"}
      BY DEF Carried
    <2> QED BY <1>2, <2>1, OutsideStep DEF CreateCheck
  <1>3. ASSUME NEW k \in Conns, NEW id \in Ids, NEW role \in Roles, UpdateUser(k, id, role)
        PROVE  IInv'
    <2> DEFINE s == [at |-> "begin", op |-> "update", id |-> id, role |-> role]
    <2>1. s \in Carried /\ s.at \notin {"write", "commit"}
      BY DEF Carried
    <2> QED BY <1>3, <2>1, OutsideStep DEF UpdateUser
  <1>4. ASSUME NEW k \in Conns, NEW id \in Ids, NEW acting \in {0} \cup Ids, DeleteUser(k, id, acting)
        PROVE  IInv'
    <2> DEFINE s == [at |-> "begin", op |-> "delete", id |-> id]
    <2>1. s \in Carried /\ s.at \notin {"write", "commit"}
      BY DEF Carried
    <2> QED BY <1>4, <2>1, OutsideStep DEF DeleteUser
  <1>5. ASSUME NEW k \in Conns, Rollback(k) PROVE IInv'
    <2>1. Idle \in Carried /\ Idle.at \notin {"write", "commit"}
      BY DEF Carried, Idle
    <2> QED BY <1>5, <2>1, OutsideStep DEF Rollback
  <1>6. CASE UNCHANGED vars
    BY <1>6 DEF vars, IInv, TypeOK, LockInv, TableInv, CommitInv, At, Found, Exists, Spared
  <1> QED BY <1>1, <1>2, <1>3, <1>4, <1>5, <1>6, BeginStep, WriteStep, CommitStep, InsertStep DEF Next

\* Whatever setups, creations, demotions and deletions run at once, an
\* administrator remains, one setup wins, and a name is one account's
\* (with_users_write_transaction, ensure_admin_removal_allowed, create_user).
THEOREM SoundAccounts == Spec => []AccountsStaySound
  <1>1. IInv => AccountsStaySound
    BY DEF IInv, TableInv, AccountsStaySound, AnAdministratorRemains, AccountsAreDistinct, Admins
  <1>2. Init => IInv
    BY IInvInit
  <1>3. IInv /\ [Next]_vars => IInv'
    BY IInvStep
  <1> QED BY <1>1, <1>2, <1>3, PTL DEF Spec

-----------------------------------------------------------------------------
(* Backups and the staged restore.                                         *)

\* A file of the start's copy of the database.
Copied(n, state) ==
    files[n].kind = "pre-restore" /\ files[n].state = state /\ main.has \subseteq files[n].has

BackupTypes ==
    /\ main = [has |-> main.has, gen |-> main.gen, state |-> main.state]
    /\ main.gen \in Nat /\ main.state \in {"sound", "mixed", "replayed"}
    /\ wal = [has |-> wal.has, gen |-> wal.gen]
    /\ written \in Nat
    /\ DOMAIN files = Names
    /\ \A n \in Names : files[n] = B!File(files[n].kind, files[n].has, files[n].state)
    /\ pend = B!Staged(pend.has, pend.state, pend.by, pend.mixed)
    /\ DOMAIN req = Reqs
    /\ \A r \in Reqs : /\ req[r].at \in {"vacuum", "filling"} => req[r].name \in Names
                       /\ req[r].at = "filling" => files[req[r].name].kind = "backup"

\* A log that is not the file's was left by a refused removal; one that is read
\* from is the file's.
LogInv ==
    /\ wal.has # {} /\ wal.gen # main.gen => "log kept" \in refused
    /\ boot = "up" /\ main.state = "sound" => wal.has = {} \/ wal.gen = main.gen

\* What the restore that is under way has made sure of.
StepInv ==
    /\ boot \in {"copy", "copying", "remove log", "rename"} =>
          B!Live \ main.has \subseteq excused
    /\ boot = "copying" => \E n \in Names : Copied(n, "copying")
    /\ boot \in {"remove log", "rename"} => \E n \in Names : Copied(n, "whole")
    /\ boot = "rename" => wal.has = {} \/ "log kept" \in refused
    /\ boot \in {"checkpoint", "copy", "copying", "remove log", "rename"} => B!Validates(pend)

\* Two copies in one file were an overlap.
StagedInv == pend.mixed \/ pend.state = "mixed" => "overlap" \in refused

BackupInv ==
    /\ BackupTypes /\ LogInv /\ StepInv /\ StagedInv
    /\ B!CommittedSurvives /\ B!RestoredIsSound

LEMMA BackupInit == B!Init => BackupInv
    BY DEF B!Init, B!Absent, B!File, B!NotStaged, B!Staged, B!Idle, BackupInv, BackupTypes, LogInv,
           StepInv, StagedInv, B!CommittedSurvives, B!RestoredIsSound

LEMMA SixSteps ==
    /\ \A i \in 1..6 : i = 1 \/ i = 2 \/ i = 3 \/ i = 4 \/ i = 5 \/ i = 6
    /\ 1 \in 1..6 /\ 2 \in 1..6 /\ 3 \in 1..6 /\ 4 \in 1..6 /\ 5 \in 1..6 /\ 6 \in 1..6
    /\ 1 + 1 = 2 /\ 2 + 1 = 3 /\ 3 + 1 = 4 /\ 4 + 1 = 5 /\ 5 + 1 = 6 /\ 6 + 1 = 7
    OBVIOUS

LEMMA StepsInOrder ==
    \A pc \in {"validate", "checkpoint", "copy", "copying", "remove log", "rename"} :
        B!Done(pc) => /\ boot = pc
                      /\ pc = "validate" => boot' = "checkpoint"
                      /\ pc = "checkpoint" => boot' = "copy"
                      /\ pc = "copy" => boot' = "copying"
                      /\ pc = "copying" => boot' = "remove log"
                      /\ pc = "remove log" => boot' = "rename"
                      /\ pc = "rename" => boot' = "open"
    <1>1. /\ B!Steps[1] = "validate" /\ B!Steps[2] = "checkpoint" /\ B!Steps[3] = "copy"
          /\ B!Steps[4] = "copying" /\ B!Steps[5] = "remove log" /\ B!Steps[6] = "rename"
          /\ B!Steps[7] = "open"
        BY DEF B!Steps
    <1>2. \A pc : B!Done(pc) =>
             /\ boot = pc
             /\ boot' = B!Steps[(CHOOSE i \in 1..6 : B!Steps[i] = pc) + 1]
        BY DEF B!Done
    <1>3. \A pc : (\E i \in 1..6 : B!Steps[i] = pc) =>
                     /\ (CHOOSE i \in 1..6 : B!Steps[i] = pc) \in 1..6
                     /\ B!Steps[CHOOSE i \in 1..6 : B!Steps[i] = pc] = pc
        OBVIOUS
    <1>4. \A pc \in {"validate", "checkpoint", "copy", "copying", "remove log", "rename"} :
             \E i \in 1..6 : B!Steps[i] = pc
        <2> SUFFICES ASSUME NEW pc \in {"validate", "checkpoint", "copy", "copying",
                                        "remove log", "rename"}
                     PROVE  \E i \in 1..6 : B!Steps[i] = pc
            OBVIOUS
        <2>1. \/ B!Steps[1] = pc \/ B!Steps[2] = pc \/ B!Steps[3] = pc
              \/ B!Steps[4] = pc \/ B!Steps[5] = pc \/ B!Steps[6] = pc
            BY <1>1
        <2> QED BY <2>1, SixSteps, Zenon
    <1>5. \A pc \in {"validate", "checkpoint", "copy", "copying", "remove log", "rename"} :
             B!Done(pc) => boot = pc /\ \E i \in 1..6 : B!Steps[i] = pc /\ boot' = B!Steps[i + 1]
        <2> TAKE pc \in {"validate", "checkpoint", "copy", "copying", "remove log", "rename"}
        <2>1. PICK j : j = CHOOSE i \in 1..6 : B!Steps[i] = pc
            OBVIOUS
        <2>2. j \in 1..6 /\ B!Steps[j] = pc
            BY <1>3, <1>4, <2>1, Zenon
        <2> QED BY <1>2, <2>1, <2>2
    <1>6. /\ B!Steps[1 + 1] = "checkpoint" /\ B!Steps[2 + 1] = "copy"
          /\ B!Steps[3 + 1] = "copying" /\ B!Steps[4 + 1] = "remove log"
          /\ B!Steps[5 + 1] = "rename" /\ B!Steps[6 + 1] = "open"
        BY <1>1, SixSteps
    <1>7. ASSUME NEW pc \in {"validate", "checkpoint", "copy", "copying", "remove log", "rename"},
                 boot = pc,
                 NEW i \in 1..6, B!Steps[i] = pc, boot' = B!Steps[i + 1]
          PROVE  /\ pc = "validate" => boot' = "checkpoint"
                 /\ pc = "checkpoint" => boot' = "copy"
                 /\ pc = "copy" => boot' = "copying"
                 /\ pc = "copying" => boot' = "remove log"
                 /\ pc = "remove log" => boot' = "rename"
                 /\ pc = "rename" => boot' = "open"
        <2>1. CASE i = 1
            BY <1>1, <1>6, <1>7, <2>1
        <2>2. CASE i = 2
            BY <1>1, <1>6, <1>7, <2>2
        <2>3. CASE i = 3
            BY <1>1, <1>6, <1>7, <2>3
        <2>4. CASE i = 4
            BY <1>1, <1>6, <1>7, <2>4
        <2>5. CASE i = 5
            BY <1>1, <1>6, <1>7, <2>5
        <2>6. CASE i = 6
            BY <1>1, <1>6, <1>7, <2>6
        <2> QED BY <2>1, <2>2, <2>3, <2>4, <2>5, <2>6, SixSteps
    <1> QED BY <1>5, <1>7

\* Nothing committed is lost while no file of a start's copy is touched and what
\* the database shows does not shrink.
LEMMA StillSurvives ==
    ASSUME B!CommittedSurvives, written' = written, excused \subseteq excused',
           B!Live \ excused' \subseteq B!Live',
           \A n \in Names : files[n].kind = "pre-restore" /\ files[n].state = "whole" =>
                               files'[n] = files[n]
    PROVE  B!CommittedSurvives'
    BY DEF B!CommittedSurvives

\* The open database.
LEMMA DatabaseInv == ASSUME BackupInv, B!Write \/ B!Fold PROVE BackupInv'
    <1>1. UNCHANGED <<files, pend, req, boot, starts, excused, refused>> /\ boot = "up"
        BY DEF B!Write, B!Fold, B!dirVars, B!history
    <1>2. CASE B!Write
        <2>1. PICK kept \in {wal.has} \cup (IF wal.has \subseteq main.has THEN {{}} ELSE {}) :
                 wal' = [has |-> kept \cup {written + 1}, gen |-> main.gen]
            BY <1>2 DEF B!Write
        <2>2. main' = main /\ written' = written + 1 /\ main.state = "sound" /\ written \in Nat
            BY <1>2 DEF B!Write, BackupInv, BackupTypes
        <2>3. B!Live' = main.has \cup kept \cup {written + 1}
            BY <2>1, <2>2 DEF B!Live
        <2>4. B!Live \subseteq B!Live'
            <3>1. wal.has = {} \/ wal.gen = main.gen
                BY <1>1, <2>2 DEF BackupInv, LogInv
            <3> QED BY <2>1, <2>3, <3>1 DEF B!Live
        <2>5. B!CommittedSurvives'
            <3> SUFFICES ASSUME NEW w \in (1..written') \ excused'
                         PROVE  \/ w \in B!Live'
                                \/ \E n \in Names : /\ files'[n].kind = "pre-restore"
                                                    /\ files'[n].state = "whole"
                                                    /\ w \in files'[n].has
                BY DEF B!CommittedSurvives
            <3>1. w = written + 1 \/ w \in (1..written) \ excused
                BY <1>1, <2>2
            <3> QED BY <1>1, <2>3, <2>4, <3>1 DEF BackupInv, B!CommittedSurvives
        <2>6. BackupTypes'
            BY <1>1, <2>1, <2>2 DEF BackupInv, BackupTypes
        <2>7. LogInv' /\ StagedInv' /\ B!RestoredIsSound'
            BY <1>1, <2>1, <2>2 DEF BackupInv, LogInv, StagedInv, B!RestoredIsSound
        <2>8. StepInv'
            BY <1>1 DEF StepInv
        <2> QED BY <2>5, <2>6, <2>7, <2>8 DEF BackupInv
    <1>3. CASE B!Fold
        <2>1. main' = [main EXCEPT !.has = B!Live] /\ wal' = wal /\ written' = written
              /\ main.state = "sound"
            BY <1>3 DEF B!Fold
        <2>2. main'.has = B!Live /\ main'.gen = main.gen /\ main'.state = main.state
              /\ main' = [has |-> main'.has, gen |-> main'.gen, state |-> main'.state]
            BY <2>1 DEF BackupInv, BackupTypes
        <2>3. B!Live \subseteq B!Live'
            BY <2>2 DEF B!Live
        <2>4. B!CommittedSurvives'
            BY <1>1, <2>1, <2>3, StillSurvives DEF BackupInv
        <2> QED BY <1>1, <2>1, <2>2, <2>4
                DEF BackupInv, BackupTypes, LogInv, StepInv, StagedInv, B!RestoredIsSound
    <1> QED BY <1>2, <1>3

\* The requests' steps.
LEMMA CreateInv ==
    ASSUME BackupInv, NEW r \in Reqs,
           (\E n \in Names : B!CreatePick(r, n)) \/ B!VacuumInto(r) \/ B!VacuumEnd(r)
    PROVE  BackupInv'
    <1>1. UNCHANGED <<main, wal, written, pend, boot, starts, excused, refused>> /\ boot = "up"
        BY DEF B!CreatePick, B!VacuumInto, B!VacuumEnd, B!dbVars, B!dirVars, B!history, B!At
    <1>2. B!Live' = B!Live
        BY <1>1 DEF B!Live
    <1>3. /\ DOMAIN files' = Names /\ DOMAIN req' = Reqs
          /\ \A n \in Names : files'[n] = B!File(files'[n].kind, files'[n].has, files'[n].state)
          /\ \A q \in Reqs : /\ req'[q].at \in {"vacuum", "filling"} => req'[q].name \in Names
                             /\ req'[q].at = "filling" => files'[req'[q].name].kind = "backup"
          /\ \A n \in Names : files[n].kind = "pre-restore" /\ files[n].state = "whole" =>
                                 files'[n] = files[n]
        <2>1. CASE \E n \in Names : B!CreatePick(r, n)
            BY <2>1 DEF B!CreatePick, B!dirVars, B!Goto, BackupInv, BackupTypes
        <2>2. CASE B!VacuumInto(r)
            BY <2>2 DEF B!VacuumInto, B!At, B!Goto, B!Idle, B!Absent, B!File, BackupInv, BackupTypes
        <2>3. CASE B!VacuumEnd(r)
            <3>1. PICK end \in {"whole", "part"} : files' = [files EXCEPT ![req[r].name].state = end]
                BY <2>3 DEF B!VacuumEnd
            <3>2. req[r].name \in Names /\ files[req[r].name].kind = "backup"
                  /\ req' = [req EXCEPT ![r] = [at |-> "idle"]]
                BY <2>3 DEF B!VacuumEnd, B!At, B!Goto, B!Idle, BackupInv, BackupTypes
            <3> QED BY <3>1, <3>2 DEF B!File, BackupInv, BackupTypes
        <2> QED BY <2>1, <2>2, <2>3
    <1>4. B!CommittedSurvives'
        BY <1>1, <1>2, <1>3, StillSurvives DEF BackupInv
    <1> QED BY <1>1, <1>3, <1>4
            DEF BackupInv, BackupTypes, LogInv, StepInv, StagedInv, B!RestoredIsSound

\* Staging and cancelling touch the staged file only.
LEMMA StagingInv ==
    ASSUME BackupInv,
           \/ \E r \in Reqs :
                \/ \E n \in Names : B!StageFile(r, n) \/ B!Upload(r, n)
                \/ B!CopyOpen(r) \/ B!CopyEnd(r) \/ B!UploadPlace(r)
           \/ B!CancelPending
    PROVE  BackupInv'
    <1>1. /\ UNCHANGED <<main, wal, written, files, boot, starts, excused>> /\ boot = "up"
          /\ refused \subseteq refused'
        BY DEF B!StageFile, B!Upload, B!CopyOpen, B!CopyEnd, B!UploadPlace, B!CancelPending,
               B!dbVars, B!dirVars, B!history, B!At
    <1>2. B!Live' = B!Live
        BY <1>1 DEF B!Live
    <1>3. /\ DOMAIN req' = Reqs
          /\ \A q \in Reqs : req'[q].at \in {"vacuum", "filling"} => req'[q] = req[q]
        <2>1. \/ req' = req
              \/ \E r \in Reqs : \E s : s.at \notin {"vacuum", "filling"} /\ req' = [req EXCEPT ![r] = s]
            <3>1. CASE \E r \in Reqs : \E n \in Names : B!StageFile(r, n) \/ B!Upload(r, n)
                BY <3>1 DEF B!StageFile, B!Upload, B!Goto
            <3>2. CASE \E r \in Reqs : B!CopyOpen(r)
                BY <3>2 DEF B!CopyOpen, B!Goto
            <3>3. CASE \E r \in Reqs : B!CopyEnd(r) \/ B!UploadPlace(r)
                BY <3>3 DEF B!CopyEnd, B!UploadPlace, B!Goto, B!Idle
            <3>4. CASE B!CancelPending
                BY <3>4 DEF B!CancelPending
            <3> QED BY <3>1, <3>2, <3>3, <3>4
        <2> QED BY <2>1 DEF BackupInv, BackupTypes
    <1>4. /\ pend' = B!Staged(pend'.has, pend'.state, pend'.by, pend'.mixed)
          /\ StagedInv'
        <2>1. CASE \E r \in Reqs : \E n \in Names : B!StageFile(r, n) \/ B!Upload(r, n)
            BY <2>1 DEF B!StageFile, B!Upload, B!dirVars, B!history, BackupInv, BackupTypes, StagedInv
        <2>2. CASE \E r \in Reqs : B!CopyOpen(r)
            <3>1. PICK r \in Reqs : B!CopyOpen(r)
                BY <2>2
            <3>2. \E m : /\ m => pend.by # {}
                         /\ pend' = B!Staged(req[r].has, "part", pend.by \cup {r}, m)
                BY <3>1 DEF B!CopyOpen
            <3>3. pend.by # {} => "overlap" \in refused'
                BY <3>1 DEF B!CopyOpen
            <3> QED BY <3>2, <3>3 DEF B!Staged, StagedInv
        <2>3. CASE \E r \in Reqs : B!CopyEnd(r)
            <3>1. refused' = refused
                BY <2>3 DEF B!CopyEnd, B!history
            <3>2. CASE pend' = pend
                BY <3>1, <3>2 DEF BackupInv, BackupTypes, StagedInv
            <3>3. CASE \E r \in Reqs :
                          \E end \in {"whole", "part"} \cup (IF pend.mixed THEN {"mixed"} ELSE {}) :
                             pend' = [pend EXCEPT !.by = @ \ {r},
                                                  !.state = IF pend.by = {r} THEN end ELSE @]
                BY <3>1, <3>3 DEF B!Staged, BackupInv, BackupTypes, StagedInv
            <3> QED BY <2>3, <3>2, <3>3 DEF B!CopyEnd
        <2>4. CASE \E r \in Reqs : B!UploadPlace(r)
            BY <2>4 DEF B!UploadPlace, B!Staged, B!history, BackupInv, BackupTypes, StagedInv
        <2>5. CASE B!CancelPending
            BY <2>5 DEF B!CancelPending, B!NotStaged, B!Staged, B!history, BackupInv, StagedInv
        <2> QED BY <2>1, <2>2, <2>3, <2>4, <2>5
    <1>5. BackupTypes'
        BY <1>1, <1>3, <1>4 DEF BackupInv, BackupTypes
    <1>6. LogInv' /\ B!RestoredIsSound'
        BY <1>1 DEF BackupInv, LogInv, B!RestoredIsSound
    <1>7. StepInv'
        BY <1>1 DEF StepInv
    <1>8. B!CommittedSurvives'
        BY <1>1, <1>2, StillSurvives DEF BackupInv
    <1> QED BY <1>4, <1>5, <1>6, <1>7, <1>8 DEF BackupInv

\* A copy that is cut short or completed; whole copies are left.
LEMMA SettledIs ==
    ASSUME BackupTypes, NEW end, files' = B!Settled(end)
    PROVE  /\ DOMAIN files' = Names
           /\ \A n \in Names : files'[n] = B!File(files'[n].kind, files'[n].has, files'[n].state)
           /\ \A n \in Names : /\ files'[n].kind = files[n].kind /\ files'[n].has = files[n].has
                               /\ files[n].state # "copying" => files'[n] = files[n]
                               /\ files[n].state = "copying" => files'[n].state = end
    BY DEF B!Settled, B!File, BackupTypes

LEMMA HaltInv == ASSUME BackupInv, B!Halt PROVE BackupInv'
    <1>1. /\ boot' = "validate" /\ req' = [r \in Reqs |-> B!Idle]
          /\ pend' = [pend EXCEPT !.by = {}, !.mixed = FALSE]
          /\ files' = B!Settled("part") /\ UNCHANGED <<written, excused, refused>>
        BY DEF B!Halt, B!history
    <1>2. /\ main' = [has |-> main'.has, gen |-> main.gen, state |-> main.state]
          /\ wal' = [has |-> wal'.has, gen |-> wal.gen] /\ wal'.has \subseteq wal.has
          /\ main'.gen = main.gen /\ main'.state = main.state /\ wal'.gen = wal.gen
          /\ B!Live \subseteq B!Live'
        <2>1. CASE UNCHANGED <<main, wal>>
            BY <2>1 DEF BackupInv, BackupTypes, B!Live
        <2>2. CASE main' = [main EXCEPT !.has = B!Live] /\ wal' = [wal EXCEPT !.has = {}]
            BY <2>2 DEF BackupInv, BackupTypes, B!Live
        <2> QED BY <2>1, <2>2 DEF B!Halt
    <1>3. BackupTypes'
        <2>1. /\ DOMAIN files' = Names
              /\ \A n \in Names : files'[n] = B!File(files'[n].kind, files'[n].has, files'[n].state)
            BY <1>1, SettledIs DEF BackupInv
        <2>2. pend' = B!Staged(pend'.has, pend'.state, pend'.by, pend'.mixed)
            BY <1>1 DEF BackupInv, BackupTypes, B!Staged
        <2>3. DOMAIN req' = Reqs /\ \A r \in Reqs : req'[r].at = "idle"
            BY <1>1 DEF B!Idle
        <2> QED BY <1>1, <1>2, <2>1, <2>2, <2>3 DEF BackupInv, BackupTypes
    <1>4. LogInv' /\ B!RestoredIsSound'
        BY <1>1, <1>2 DEF BackupInv, LogInv, B!RestoredIsSound
    <1>5. StepInv'
        BY <1>1 DEF StepInv
    <1>6. StagedInv'
        BY <1>1 DEF BackupInv, BackupTypes, StagedInv, B!Staged
    <1>7. B!CommittedSurvives'
        <2>1. \A n \in Names : files[n].kind = "pre-restore" /\ files[n].state = "whole" =>
                                  files'[n] = files[n]
            BY <1>1, SettledIs DEF BackupInv
        <2> QED BY <1>1, <1>2, <2>1, StillSurvives DEF BackupInv
    <1> QED BY <1>3, <1>4, <1>5, <1>6, <1>7 DEF BackupInv

\* The steps of the start.
LEMMA ValidateInv == ASSUME BackupInv, B!Validate PROVE BackupInv'
    <1>1. /\ UNCHANGED <<main, wal, written, files, req, starts, excused, refused>>
          /\ boot = "validate" /\ boot' \in {"checkpoint", "open"}
          /\ pend' \in {pend, B!NotStaged}
          /\ boot' = "checkpoint" => B!Validates(pend) /\ pend' = pend
        BY StepsInOrder DEF B!Validate, B!GiveUp, B!dbVars, B!dirVars, B!history
    <1>2. B!Live' = B!Live
        BY <1>1 DEF B!Live
    <1>3. BackupTypes' /\ StagedInv'
        BY <1>1 DEF BackupInv, BackupTypes, StagedInv, B!NotStaged, B!Staged
    <1>4. LogInv' /\ B!RestoredIsSound'
        BY <1>1 DEF BackupInv, LogInv, B!RestoredIsSound
    <1>5. StepInv'
        BY <1>1 DEF StepInv, B!Validates
    <1>6. B!CommittedSurvives'
        BY <1>1, <1>2, StillSurvives DEF BackupInv
    <1> QED BY <1>3, <1>4, <1>5, <1>6 DEF BackupInv

LEMMA CheckpointInv == ASSUME BackupInv, B!Checkpoint PROVE BackupInv'
    <1>1. /\ boot = "checkpoint" /\ boot' = "copy"
          /\ UNCHANGED <<written, files, pend, req, starts, refused>>
        BY StepsInOrder DEF B!Checkpoint, B!dirVars, B!history
    <1>2. /\ main' = [has |-> main'.has, gen |-> main.gen, state |-> main.state]
          /\ wal' = [has |-> wal'.has, gen |-> wal.gen] /\ wal'.has \subseteq wal.has
          /\ main'.gen = main.gen /\ main'.state = main.state /\ wal'.gen = wal.gen
          /\ B!Live \subseteq B!Live' /\ B!Live' \ main'.has \subseteq excused'
          /\ excused \subseteq excused'
        <2>1. CASE /\ main' = [main EXCEPT !.has = B!Live] /\ excused' = excused
                   /\ wal' \in {wal, [wal EXCEPT !.has = {}]}
            BY <2>1 DEF BackupInv, BackupTypes, B!Live
        <2>2. CASE excused' = excused \cup (B!Live \ main.has) /\ UNCHANGED <<main, wal>>
            BY <2>2 DEF BackupInv, BackupTypes, B!Live
        <2> QED BY <2>1, <2>2 DEF B!Checkpoint, B!history
    <1>3. BackupTypes' /\ StagedInv'
        BY <1>1, <1>2 DEF BackupInv, BackupTypes, StagedInv
    <1>4. LogInv' /\ B!RestoredIsSound'
        BY <1>1, <1>2 DEF BackupInv, LogInv, B!RestoredIsSound
    <1>5. StepInv'
        BY <1>1, <1>2 DEF BackupInv, StepInv, B!Validates
    <1>6. B!CommittedSurvives'
        BY <1>1, <1>2, StillSurvives DEF BackupInv
    <1> QED BY <1>3, <1>4, <1>5, <1>6 DEF BackupInv

LEMMA CopyInv ==
    ASSUME BackupInv, (\E n \in Names : B!CopyBegin(n)) \/ B!CopyDone
    PROVE  BackupInv'
    <1>1. UNCHANGED <<main, wal, written, pend, req, starts, excused, refused>>
        BY DEF B!CopyBegin, B!CopyDone, B!dbVars, B!history
    <1>2. B!Live' = B!Live
        BY <1>1 DEF B!Live
    <1>3. /\ DOMAIN files' = Names
          /\ \A n \in Names : files'[n] = B!File(files'[n].kind, files'[n].has, files'[n].state)
          /\ \A n \in Names : files[n].kind = "pre-restore" /\ files[n].state = "whole" =>
                                 files'[n] = files[n]
          /\ \A n \in Names : files[n].kind = "backup" => files'[n].kind = "backup"
          /\ boot \in {"copy", "copying"} /\ boot' \in {"copying", "remove log", "open"}
          /\ boot' = "copying" => \E n \in Names : Copied(n, "copying")'
          /\ boot' = "remove log" => \E n \in Names : Copied(n, "whole")'
        <2>1. CASE \E n \in Names : B!CopyBegin(n)
            <3>1. PICK n \in Names : B!CopyBegin(n)
                BY <2>1
            <3>2. /\ files[n] = B!Absent /\ boot = "copy" /\ boot' = "copying"
                  /\ files' = [files EXCEPT ![n] = B!File("pre-restore", main.has, "copying")]
                BY <3>1, StepsInOrder DEF B!CopyBegin
            <3>3. Copied(n, "copying")'
                BY <1>1, <3>2 DEF Copied, B!File, BackupInv, BackupTypes
            <3> QED BY <3>2, <3>3 DEF B!Absent, B!File, BackupInv, BackupTypes
        <2>2. CASE B!Done("copying") /\ files' = B!Settled("whole")
            <3>1. boot = "copying" /\ boot' = "remove log"
                BY <2>2, StepsInOrder
            <3>2. PICK n \in Names : Copied(n, "copying")
                BY <3>1 DEF BackupInv, StepInv
            <3>3. Copied(n, "whole")'
                BY <1>1, <2>2, <3>2, SettledIs DEF Copied, BackupInv
            <3> QED BY <2>2, <3>1, <3>3, SettledIs DEF BackupInv
        <2>3. CASE B!GiveUp("copying") /\ files' = B!Settled("part")
            BY <2>3, SettledIs DEF B!GiveUp, BackupInv
        <2> QED BY <2>1, <2>2, <2>3 DEF B!CopyDone
    <1>4. BackupTypes'
        BY <1>1, <1>3 DEF BackupInv, BackupTypes
    <1>5. LogInv' /\ B!RestoredIsSound' /\ StagedInv'
        BY <1>1, <1>3 DEF BackupInv, LogInv, B!RestoredIsSound, StagedInv
    <1>6. StepInv'
        BY <1>1, <1>2, <1>3 DEF BackupInv, StepInv, B!Validates
    <1>7. B!CommittedSurvives'
        BY <1>1, <1>2, <1>3, StillSurvives DEF BackupInv
    <1> QED BY <1>4, <1>5, <1>6, <1>7 DEF BackupInv

\* What the log alone held was excused before the copy was made.
LEMMA RemoveLogInv == ASSUME BackupInv, B!RemoveLog PROVE BackupInv'
    <1>1. /\ boot = "remove log" /\ boot' = "rename"
          /\ UNCHANGED <<main, written, files, pend, req, starts, excused>>
        BY StepsInOrder DEF B!RemoveLog, B!dirVars
    <1>2. /\ wal' = [has |-> wal'.has, gen |-> wal.gen] /\ wal'.has \subseteq wal.has
          /\ wal'.gen = wal.gen
          /\ refused \subseteq refused' /\ (wal'.has = {} \/ "log kept" \in refused')
        BY DEF B!RemoveLog, BackupInv, BackupTypes
    <1>3. BackupTypes' /\ StagedInv'
        BY <1>1, <1>2 DEF BackupInv, BackupTypes, StagedInv
    <1>4. LogInv' /\ B!RestoredIsSound'
        BY <1>1, <1>2 DEF BackupInv, LogInv, B!RestoredIsSound
    <1>5. B!Live \ excused \subseteq main.has /\ B!Live' \subseteq B!Live /\ main.has \subseteq B!Live'
        BY <1>1, <1>2 DEF BackupInv, StepInv, B!Live
    <1>6. StepInv'
        <2>1. \E n \in Names : Copied(n, "whole")'
            BY <1>1 DEF BackupInv, StepInv, Copied
        <2> QED BY <1>1, <1>2, <1>5, <2>1 DEF BackupInv, StepInv, B!Validates
    <1>7. B!CommittedSurvives'
        BY <1>1, <1>5, StillSurvives DEF BackupInv
    <1> QED BY <1>3, <1>4, <1>6, <1>7 DEF BackupInv

\* What the replaced file held is in the start's copy.
LEMMA RenameInv == ASSUME BackupInv, B!Rename PROVE BackupInv'
    <1>1. /\ boot = "rename" /\ boot' = "open"
          /\ UNCHANGED <<wal, written, files, req, starts, excused, refused>>
        BY StepsInOrder DEF B!Rename, B!GiveUp, B!history
    <1>2. CASE UNCHANGED <<main, pend>>
        <2>1. B!Live' = B!Live
            BY <1>1, <1>2 DEF B!Live
        <2>2. BackupTypes' /\ LogInv' /\ B!RestoredIsSound' /\ StagedInv'
            BY <1>1, <1>2 DEF BackupInv, BackupTypes, LogInv, B!RestoredIsSound, StagedInv
        <2>3. StepInv'
            BY <1>1 DEF StepInv
        <2>4. B!CommittedSurvives'
            BY <1>1, <2>1, StillSurvives DEF BackupInv
        <2> QED BY <2>2, <2>3, <2>4 DEF BackupInv
    <1>3. CASE /\ main' = [has |-> pend.has, gen |-> main.gen + 1,
                           state |-> IF pend.state = "whole" THEN "sound" ELSE pend.state]
               /\ pend' = B!NotStaged
        <2>1. pend.state \in {"whole", "mixed"} /\ (wal.has = {} \/ "log kept" \in refused)
            BY <1>1 DEF BackupInv, StepInv, B!Validates
        <2>2. BackupTypes'
            <3>1. /\ main' = [has |-> main'.has, gen |-> main'.gen, state |-> main'.state]
                  /\ main'.gen = main.gen + 1 /\ main'.state \in {"sound", "mixed"}
                BY <1>3, <2>1
            <3>2. pend' = B!Staged(pend'.has, pend'.state, pend'.by, pend'.mixed)
                BY <1>3 DEF B!NotStaged, B!Staged
            <3> QED BY <1>1, <3>1, <3>2 DEF BackupInv, BackupTypes
        <2>3. LogInv' /\ B!RestoredIsSound' /\ StagedInv'
            BY <1>1, <1>3, <2>1
               DEF BackupInv, LogInv, B!RestoredIsSound, StagedInv, B!NotStaged, B!Staged
        <2>4. StepInv'
            BY <1>1 DEF StepInv
        <2>5. PICK n \in Names : Copied(n, "whole")
            BY <1>1 DEF BackupInv, StepInv
        <2>6. B!Live \ excused \subseteq files[n].has
            BY <1>1, <2>5 DEF BackupInv, StepInv, Copied
        <2>7. B!CommittedSurvives'
            BY <1>1, <2>5, <2>6 DEF BackupInv, B!CommittedSurvives, Copied
        <2> QED BY <2>2, <2>3, <2>4, <2>7 DEF BackupInv
    <1> QED BY <1>2, <1>3 DEF B!Rename

LEMMA OpenInv == ASSUME BackupInv, B!Open PROVE BackupInv'
    <1>1. /\ boot' = "up" /\ UNCHANGED <<wal, written, files, pend, req, starts, excused, refused>>
          /\ main' = IF wal.has # {} /\ wal.gen # main.gen /\ main.state = "sound"
                     THEN [main EXCEPT !.state = "replayed"] ELSE main
        BY DEF B!Open, B!dirVars, B!history
    <1>2. main'.has = main.has /\ main'.gen = main.gen
        BY <1>1 DEF BackupInv, BackupTypes
    <1>3. B!Live' = B!Live
        BY <1>1, <1>2 DEF B!Live
    <1>4. BackupTypes' /\ StagedInv'
        BY <1>1 DEF BackupInv, BackupTypes, StagedInv
    <1>5. LogInv' /\ B!RestoredIsSound'
        BY <1>1 DEF BackupInv, BackupTypes, LogInv, B!RestoredIsSound
    <1>6. StepInv'
        BY <1>1 DEF StepInv
    <1>7. B!CommittedSurvives'
        BY <1>1, <1>3, StillSurvives DEF BackupInv
    <1> QED BY <1>4, <1>5, <1>6, <1>7 DEF BackupInv

LEMMA BackupNext == ASSUME BackupInv, B!Next PROVE BackupInv'
    BY DatabaseInv, CreateInv, StagingInv, HaltInv, ValidateInv, CheckpointInv, CopyInv,
       RemoveLogInv, RenameInv, OpenInv DEF B!Next

LEMMA RestIs ==
    \A h \in DOMAIN W!Rest :
        \/ h = "itemsRead" /\ W!Rest[h] = W!ItemsRead
        \/ h = "itemsCreate" /\ W!Rest[h] = W!ItemsCreate
        \/ h = "itemsUpdate" /\ W!Rest[h] = W!ItemsUpdate
        \/ h = "itemsDelete" /\ W!Rest[h] = W!ItemsDelete
        \/ h = "itemsImport" /\ W!Rest[h] = W!ItemsImport
        \/ h = "attachmentsRead" /\ W!Rest[h] = W!AttachmentsRead
        \/ h = "attachmentsUpload" /\ W!Rest[h] = W!AttachmentsUpload
        \/ h = "attachmentsDelete" /\ W!Rest[h] = W!AttachmentsDelete
        \/ h = "usersList" /\ W!Rest[h] = W!UsersList
        \/ h = "usersCreate" /\ W!Rest[h] = W!UsersCreate
        \/ h = "usersUpdate" /\ W!Rest[h] = W!UsersUpdate
        \/ h = "usersReset" /\ W!Rest[h] = W!UsersResetPassword
        \/ h = "usersDelete" /\ W!Rest[h] = W!UsersDelete
        \/ h = "auditList" /\ W!Rest[h] = W!AuditLogList
        \/ h = "auditGet" /\ W!Rest[h] = W!AuditConfigGet
        \/ h = "auditApply" /\ W!Rest[h] = W!AuditConfigApply
        \/ h = "backupsRead" /\ W!Rest[h] = W!BackupsRead
        \/ h = "backupsCreate" /\ W!Rest[h] = W!BackupsCreate
        \/ h = "restoreUpload" /\ W!Rest[h] = W!RestoreFromUpload
        \/ h = "stageRestore" /\ W!Rest[h] = W!StageRestore
        \/ h = "cancelRestore" /\ W!Rest[h] = W!CancelRestore
        \/ h = "systemInfo" /\ W!Rest[h] = W!SystemInfo
        \/ h = "uiGet" /\ W!Rest[h] = W!UiSettingsGet
        \/ h = "uiSet" /\ W!Rest[h] = W!UiSettingsSet
        \/ h = "changePassword" /\ W!Rest[h] = W!ChangePassword
        \/ h = "logout" /\ W!Rest[h] = W!Logout
    BY DEF W!Rest

LEMMA DesktopIs ==
    \A h \in DOMAIN W!Desktop :
        \/ h = "itemsRead" /\ W!Desktop[h] = W!DesktopItemsRead
        \/ h = "itemsCreate" /\ W!Desktop[h] = W!DesktopItemsCreate
        \/ h = "itemsUpdate" /\ W!Desktop[h] = W!DesktopItemsUpdate
        \/ h = "itemsDelete" /\ W!Desktop[h] = W!DesktopItemsDelete
        \/ h = "itemsImport" /\ W!Desktop[h] = W!DesktopItemsImport
        \/ h = "itemsExport" /\ W!Desktop[h] = W!DesktopExportItems
        \/ h = "attachmentsRead" /\ W!Desktop[h] = W!DesktopAttachmentsRead
        \/ h = "attachmentsUpload" /\ W!Desktop[h] = W!DesktopAttachmentsUpload
        \/ h = "attachmentsDelete" /\ W!Desktop[h] = W!DesktopAttachmentsDelete
        \/ h = "attachmentsOpen" /\ W!Desktop[h] = W!DesktopAttachmentsOpen
        \/ h = "usersList" /\ W!Desktop[h] = W!DesktopUsersList
        \/ h = "usersCreate" /\ W!Desktop[h] = W!DesktopUsersCreate
        \/ h = "usersUpdate" /\ W!Desktop[h] = W!DesktopUsersUpdate
        \/ h = "usersReset" /\ W!Desktop[h] = W!DesktopUsersReset
        \/ h = "usersDelete" /\ W!Desktop[h] = W!DesktopUsersDelete
        \/ h = "auditList" /\ W!Desktop[h] = W!DesktopAuditLogList
        \/ h = "auditGet" /\ W!Desktop[h] = W!DesktopAuditConfigGet
        \/ h = "auditApply" /\ W!Desktop[h] = W!DesktopAuditConfigApply
        \/ h = "settingsGet" /\ W!Desktop[h] = W!DesktopSettingsGet
        \/ h = "settingsSet" /\ W!Desktop[h] = W!DesktopSettingsSet
        \/ h = "vibrancyApply" /\ W!Desktop[h] = W!DesktopVibrancyApply
        \/ h = "backupsRead" /\ W!Desktop[h] = W!DesktopBackupsRead
        \/ h = "backupsCreate" /\ W!Desktop[h] = W!DesktopBackupsCreate
        \/ h = "backupsOpen" /\ W!Desktop[h] = W!DesktopBackupsOpen
        \/ h = "stageRestore" /\ W!Desktop[h] = W!DesktopStageRestore
        \/ h = "cancelRestore" /\ W!Desktop[h] = W!DesktopCancelRestore
        \/ h = "systemInfo" /\ W!Desktop[h] = W!DesktopSystemInfo
        \/ h = "uiGet" /\ W!Desktop[h] = W!DesktopUiSettingsGet
        \/ h = "uiSet" /\ W!Desktop[h] = W!DesktopUiSettingsSet
        \/ h = "changePassword" /\ W!Desktop[h] = W!DesktopChangePassword
    BY DEF W!Desktop

-----------------------------------------------------------------------------
(* AuditedWrites: the order of the steps of every handler.                 *)

ServiceSteps == {"write", "read", "import", "update", "reset", "delete", "rekey"}

\* What a handler's steps come to: admission, the service, and its record last.
Shaped(row) ==
    \/ /\ \E x \in {"read", "write"} : row.steps = <<"authenticate", "role", x>>
       /\ row.says = W!Unrecorded
    \/ /\ \E x \in {"read", "write"} : row.steps = <<"authenticate", "role", "acting", x>>
       /\ row.says = W!Unrecorded
    \/ \E x \in {"write", "import", "update", "reset", "delete"} :
          row.steps = <<"authenticate", "role", x, "record">>
    \/ row.steps = <<"authenticate", "role", "acting", "delete", "record">>
    \/ row.steps = <<"authenticate", "role", "own", "rekey", "rebind", "recordAs">>
    \/ row.steps = <<"authenticate", "role", "rekey", "rebind", "record">>

Extends2(S, a, b, s, t) ==
    /\ a \in S /\ b \in S /\ s \in Seq(S) /\ t \in Seq(S)
    /\ Len(t) = Len(s) + 2 /\ t[1] = a /\ t[2] = b
    /\ \A i \in 1..Len(s) : t[i + 2] = s[i]

LEMMA PrefixedBy ==
    ASSUME NEW S, NEW a, NEW b, NEW s, NEW t, Extends2(S, a, b, s, t)
    PROVE  <<a, b>> \o s = t
    <1> USE DEF Extends2
    <1>1. <<a, b>> \in Seq(S)
        OBVIOUS
    <1> DEFINE l == <<a, b>> \o s
    <1>2. l \in Seq(S) /\ Len(l) = Len(s) + 2
        BY <1>1
    <1>3. \A i \in 1..Len(l) : l[i] = t[i]
        <2> SUFFICES ASSUME NEW i \in 1..Len(s) + 2 PROVE l[i] = t[i]
            BY <1>2
        <2>1. CASE i \in {1, 2}
            BY <1>1, <2>1
        <2>2. CASE i - 2 \in 1..Len(s)
            <3>1. l[i] = s[i - 2]
                BY <1>1, <2>2
            <3>2. t[(i - 2) + 2] = s[i - 2] /\ (i - 2) + 2 = i
                BY <2>2
            <3> QED BY <3>1, <3>2
        <2> QED BY <2>1, <2>2
    <1> HIDE DEF l
    <1>4. l = t
        BY <1>2, <1>3, SeqEqual
    <1> QED BY <1>4 DEF l

LEMMA Prefixed ==
    /\ \A a, b, x : <<a, b>> \o <<x>> = <<a, b, x>>
    /\ \A a, b, x, y : <<a, b>> \o <<x, y>> = <<a, b, x, y>>
    /\ \A a, b, x, y, z : <<a, b>> \o <<x, y, z>> = <<a, b, x, y, z>>
    /\ \A a, b, x, y, z, w : <<a, b>> \o <<x, y, z, w>> = <<a, b, x, y, z, w>>
    <1>1. ASSUME NEW a, NEW b, NEW x PROVE <<a, b>> \o <<x>> = <<a, b, x>>
        <2> DEFINE s == <<x>>
                   t == <<a, b, x>>
                   S == {a, b, x}
        <2>1. a \in S /\ b \in S /\ s \in Seq(S) /\ t \in Seq(S)
            OBVIOUS
        <2>2. Len(s) = 1 /\ Len(t) = Len(s) + 2 /\ t[1] = a /\ t[2] = b
            OBVIOUS
        <2>3. \A i \in 1..Len(s) : t[i + 2] = s[i]
            <3>1. \A i \in 1..Len(s) : i = 1
                OBVIOUS
            <3> QED BY <3>1
        <2>4. Extends2(S, a, b, s, t)
            BY <2>1, <2>2, <2>3 DEF Extends2
        <2> HIDE DEF s, t, S
        <2>5. <<a, b>> \o s = t
            BY PrefixedBy, <2>4
        <2> QED BY <2>5 DEF s, t
    <1>2. ASSUME NEW a, NEW b, NEW x, NEW y PROVE <<a, b>> \o <<x, y>> = <<a, b, x, y>>
        <2> DEFINE s == <<x, y>>
                   t == <<a, b, x, y>>
                   S == {a, b, x, y}
        <2>1. a \in S /\ b \in S /\ s \in Seq(S) /\ t \in Seq(S)
            OBVIOUS
        <2>2. Len(s) = 2 /\ Len(t) = Len(s) + 2 /\ t[1] = a /\ t[2] = b
            OBVIOUS
        <2>3. \A i \in 1..Len(s) : t[i + 2] = s[i]
            <3>1. \A i \in 1..Len(s) : i = 1 \/ i = 2
                OBVIOUS
            <3> QED BY <3>1
        <2>4. Extends2(S, a, b, s, t)
            BY <2>1, <2>2, <2>3 DEF Extends2
        <2> HIDE DEF s, t, S
        <2>5. <<a, b>> \o s = t
            BY PrefixedBy, <2>4
        <2> QED BY <2>5 DEF s, t
    <1>3. ASSUME NEW a, NEW b, NEW x, NEW y, NEW z PROVE <<a, b>> \o <<x, y, z>> = <<a, b, x, y, z>>
        <2> DEFINE s == <<x, y, z>>
                   t == <<a, b, x, y, z>>
                   S == {a, b, x, y, z}
        <2>1. a \in S /\ b \in S /\ s \in Seq(S) /\ t \in Seq(S)
            OBVIOUS
        <2>2. Len(s) = 3 /\ Len(t) = Len(s) + 2 /\ t[1] = a /\ t[2] = b
            OBVIOUS
        <2>3. \A i \in 1..Len(s) : t[i + 2] = s[i]
            <3>1. \A i \in 1..Len(s) : i = 1 \/ i = 2 \/ i = 3
                OBVIOUS
            <3> QED BY <3>1
        <2>4. Extends2(S, a, b, s, t)
            BY <2>1, <2>2, <2>3 DEF Extends2
        <2> HIDE DEF s, t, S
        <2>5. <<a, b>> \o s = t
            BY PrefixedBy, <2>4
        <2> QED BY <2>5 DEF s, t
    <1>4. ASSUME NEW a, NEW b, NEW x, NEW y, NEW z, NEW w PROVE <<a, b>> \o <<x, y, z, w>> = <<a, b, x, y, z, w>>
        <2> DEFINE s == <<x, y, z, w>>
                   t == <<a, b, x, y, z, w>>
                   S == {a, b, x, y, z, w}
        <2>1. a \in S /\ b \in S /\ s \in Seq(S) /\ t \in Seq(S)
            OBVIOUS
        <2>2. Len(s) = 4 /\ Len(t) = Len(s) + 2 /\ t[1] = a /\ t[2] = b
            OBVIOUS
        <2>3. \A i \in 1..Len(s) : t[i + 2] = s[i]
            <3>1. \A i \in 1..Len(s) : i = 1 \/ i = 2 \/ i = 3 \/ i = 4
                OBVIOUS
            <3> QED BY <3>1
        <2>4. Extends2(S, a, b, s, t)
            BY <2>1, <2>2, <2>3 DEF Extends2
        <2> HIDE DEF s, t, S
        <2>5. <<a, b>> \o s = t
            BY PrefixedBy, <2>4
        <2> QED BY <2>5 DEF s, t
    <1> QED BY <1>1, <1>2, <1>3, <1>4

\* The forms of a row.
LEMMA RowForms ==
    /\ \A guard : LET row == W!Reads(guard) IN
                  Shaped(row) /\ row.guard = guard /\ row.says = W!Unrecorded
    /\ \A guard, says : \A x \in {"write", "import", "update", "reset", "delete"} :
          LET row == W!Row(guard, says, <<x, "record">>) IN
          Shaped(row) /\ row.guard = guard /\ row.says = says
    /\ \A guard : \A x \in {"read", "write"} :
          LET row == W!Row(guard, W!Unrecorded, <<"acting", x>>) IN
          Shaped(row) /\ row.guard = guard /\ row.says = W!Unrecorded
    /\ \A guard : \A x \in {"read", "write"} :
          LET row == W!Row(guard, W!Unrecorded, <<x>>) IN
          Shaped(row) /\ row.guard = guard /\ row.says = W!Unrecorded
    /\ \A guard, says :
          \A row \in {W!Row(guard, says, <<"acting", "delete", "record">>),
                      W!Row(guard, says, <<"own", "rekey", "rebind", "recordAs">>),
                      W!Row(guard, says, <<"rekey", "rebind", "record">>)} :
          Shaped(row) /\ row.guard = guard /\ row.says = says
    <1> DEFINE Made(guard, says, steps) == [guard |-> guard, says |-> says, steps |-> steps]
    <1>0. \A guard, says, steps : W!Row(guard, says, steps) =
                                    Made(guard, says, <<"authenticate", "role">> \o steps)
        BY DEF W!Row
    <1>2. ASSUME NEW guard, NEW says, NEW steps
          PROVE  LET row == Made(guard, says, steps) IN
                 row.guard = guard /\ row.says = says /\ row.steps = steps
        OBVIOUS
    <1> HIDE DEF Made
    <1>1. \A guard, says :
             /\ \A x : W!Row(guard, says, <<x>>) =
                        Made(guard, says, <<"authenticate", "role", x>>)
             /\ \A x, y : W!Row(guard, says, <<x, y>>) =
                           Made(guard, says, <<"authenticate", "role", x, y>>)
             /\ \A x, y, z : W!Row(guard, says, <<x, y, z>>) =
                              Made(guard, says, <<"authenticate", "role", x, y, z>>)
             /\ \A x, y, z, w : W!Row(guard, says, <<x, y, z, w>>) =
                                 Made(guard, says, <<"authenticate", "role", x, y, z, w>>)
        <2>1. \A guard, says, x : W!Row(guard, says, <<x>>) =
                                   Made(guard, says, <<"authenticate", "role", x>>)
            BY <1>0, Prefixed
        <2>2. \A guard, says, x, y : W!Row(guard, says, <<x, y>>) =
                                      Made(guard, says, <<"authenticate", "role", x, y>>)
            BY <1>0, Prefixed
        <2>3. ASSUME NEW guard, NEW says, NEW x, NEW y, NEW z
              PROVE  W!Row(guard, says, <<x, y, z>>) =
                         Made(guard, says, <<"authenticate", "role", x, y, z>>)
            <3>1. <<"authenticate", "role">> \o <<x, y, z>> = <<"authenticate", "role", x, y, z>>
                BY Prefixed
            <3>2. W!Row(guard, says, <<x, y, z>>) =
                    Made(guard, says, <<"authenticate", "role">> \o <<x, y, z>>)
                BY <1>0, Zenon
            <3> QED BY <3>1, <3>2, Zenon
        <2>4. ASSUME NEW guard, NEW says, NEW x, NEW y, NEW z, NEW w
              PROVE  W!Row(guard, says, <<x, y, z, w>>) =
                         Made(guard, says, <<"authenticate", "role", x, y, z, w>>)
            <3>1. <<"authenticate", "role">> \o <<x, y, z, w>> = <<"authenticate", "role", x, y, z, w>>
                BY Prefixed
            <3>2. W!Row(guard, says, <<x, y, z, w>>) =
                    Made(guard, says, <<"authenticate", "role">> \o <<x, y, z, w>>)
                BY <1>0, Zenon
            <3> QED BY <3>1, <3>2, Zenon
        <2> QED BY <2>1, <2>2, <2>3, <2>4
    <1>3. ASSUME NEW guard
          PROVE  LET row == W!Reads(guard) IN
                 Shaped(row) /\ row.guard = guard /\ row.says = W!Unrecorded
        <2>1. W!Reads(guard) = Made(guard, W!Unrecorded, <<"authenticate", "role", "read">>)
            BY <1>1, Zenon DEF W!Reads
        <2> QED BY <2>1, <1>2 DEF Shaped
    <1>4. ASSUME NEW guard, NEW says, NEW x \in {"write", "import", "update", "reset", "delete"}
          PROVE  LET row == W!Row(guard, says, <<x, "record">>) IN
                 Shaped(row) /\ row.guard = guard /\ row.says = says
        <2>1. W!Row(guard, says, <<x, "record">>) =
                Made(guard, says, <<"authenticate", "role", x, "record">>)
            BY <1>1, Zenon
        <2> QED BY <2>1, <1>2 DEF Shaped
    <1>5. ASSUME NEW guard, NEW x \in {"read", "write"}
          PROVE  LET row == W!Row(guard, W!Unrecorded, <<"acting", x>>) IN
                 Shaped(row) /\ row.guard = guard /\ row.says = W!Unrecorded
        <2>1. W!Row(guard, W!Unrecorded, <<"acting", x>>) =
                Made(guard, W!Unrecorded, <<"authenticate", "role", "acting", x>>)
            BY <1>1, Zenon
        <2> QED BY <2>1, <1>2 DEF Shaped
    <1>6. ASSUME NEW guard, NEW x \in {"read", "write"}
          PROVE  LET row == W!Row(guard, W!Unrecorded, <<x>>) IN
                 Shaped(row) /\ row.guard = guard /\ row.says = W!Unrecorded
        <2>1. W!Row(guard, W!Unrecorded, <<x>>) =
                Made(guard, W!Unrecorded, <<"authenticate", "role", x>>)
            BY <1>1, Zenon
        <2> QED BY <2>1, <1>2 DEF Shaped
    <1>7. ASSUME NEW guard, NEW says
          PROVE  \A row \in {W!Row(guard, says, <<"acting", "delete", "record">>),
                             W!Row(guard, says, <<"own", "rekey", "rebind", "recordAs">>),
                             W!Row(guard, says, <<"rekey", "rebind", "record">>)} :
                 Shaped(row) /\ row.guard = guard /\ row.says = says
        <2>1. /\ W!Row(guard, says, <<"acting", "delete", "record">>) =
                   Made(guard, says, <<"authenticate", "role", "acting", "delete", "record">>)
              /\ W!Row(guard, says, <<"rekey", "rebind", "record">>) =
                   Made(guard, says, <<"authenticate", "role", "rekey", "rebind", "record">>)
              /\ W!Row(guard, says, <<"own", "rekey", "rebind", "recordAs">>) =
                   Made(guard, says,
                        <<"authenticate", "role", "own", "rekey", "rebind", "recordAs">>)
            BY <1>1, Zenon
        <2> QED BY <2>1, <1>2 DEF Shaped
    <1> QED BY <1>3, <1>4, <1>5, <1>6, <1>7, Zenon


\* A guard's floor is a role, and a row's record is none or names three things.
Formed(row) == Shaped(row) /\ row.guard.min \in 1..3

LEMMA Guards ==
    /\ W!ItemsGuard.min \in 1..3
    /\ W!AttachmentsGuard.min \in 1..3
    /\ W!UsersGuard.min \in 1..3
    /\ W!AuditListGuard.min \in 1..3
    /\ W!AuditConfigGuard.min \in 1..3
    /\ W!BackupsGuard.min \in 1..3
    /\ W!SystemGuard.min \in 1..3
    /\ \A tag : W!AnyRole(tag).min = 1
    BY DEF W!ItemsGuard, W!AttachmentsGuard, W!UsersGuard, W!AuditListGuard, W!AuditConfigGuard,
           W!BackupsGuard, W!SystemGuard, W!AnyRole, W!Viewer, W!Editor, W!Admin

LEMMA RestShapes ==
    \A h \in DOMAIN W!Rest \ {"logout"} : Formed(W!Rest[h])
    <1>1. /\ Formed(W!ItemsRead)
          /\ Formed(W!AttachmentsRead)
          /\ Formed(W!UsersList)
          /\ Formed(W!AuditLogList)
          /\ Formed(W!AuditConfigGet)
          /\ Formed(W!BackupsRead)
        BY Guards, RowForms DEF Formed, W!ItemsRead, W!AttachmentsRead, W!UsersList,
           W!AuditLogList, W!AuditConfigGet, W!BackupsRead
    <1>2. /\ Formed(W!SystemInfo)
        BY Guards, RowForms DEF Formed, W!SystemInfo
    <1>3. /\ Formed(W!ItemsCreate)
          /\ Formed(W!ItemsUpdate)
          /\ Formed(W!ItemsDelete)
          /\ Formed(W!ItemsImport)
          /\ Formed(W!AttachmentsUpload)
          /\ Formed(W!AttachmentsDelete)
        BY Guards, RowForms DEF Formed, W!ItemsCreate, W!ItemsUpdate, W!ItemsDelete,
           W!ItemsImport, W!AttachmentsUpload, W!AttachmentsDelete
    <1>4. /\ Formed(W!UsersCreate)
          /\ Formed(W!UsersUpdate)
          /\ Formed(W!UsersResetPassword)
          /\ Formed(W!AuditConfigApply)
          /\ Formed(W!BackupsCreate)
          /\ Formed(W!RestoreFromUpload)
        BY Guards, RowForms DEF Formed, W!UsersCreate, W!UsersUpdate, W!UsersResetPassword,
           W!AuditConfigApply, W!BackupsCreate, W!RestoreFromUpload
    <1>5. /\ Formed(W!StageRestore)
          /\ Formed(W!CancelRestore)
        BY Guards, RowForms DEF Formed, W!StageRestore, W!CancelRestore
    <1>6. /\ Formed(W!UsersDelete)
          /\ Formed(W!UiSettingsGet)
          /\ Formed(W!UiSettingsSet)
          /\ Formed(W!ChangePassword)
        BY Guards, RowForms DEF Formed, W!UsersDelete, W!UiSettingsGet, W!UiSettingsSet,
           W!ChangePassword
    <1> QED BY <1>1, <1>2, <1>3, <1>4, <1>5, <1>6, RestIs

LEMMA DesktopShapes == \A h \in DOMAIN W!Desktop : Formed(W!Desktop[h])
    <1>1. /\ Formed(W!DesktopItemsRead)
          /\ Formed(W!DesktopAttachmentsRead)
          /\ Formed(W!DesktopAttachmentsOpen)
          /\ Formed(W!DesktopUsersList)
          /\ Formed(W!DesktopAuditLogList)
          /\ Formed(W!DesktopAuditConfigGet)
        BY Guards, RowForms DEF Formed, W!DesktopItemsRead, W!DesktopAttachmentsRead,
           W!DesktopAttachmentsOpen, W!DesktopUsersList, W!DesktopAuditLogList,
           W!DesktopAuditConfigGet
    <1>2. /\ Formed(W!DesktopSettingsGet)
          /\ Formed(W!DesktopBackupsRead)
          /\ Formed(W!DesktopBackupsOpen)
          /\ Formed(W!DesktopSystemInfo)
        BY Guards, RowForms DEF Formed, W!DesktopSettingsGet, W!DesktopBackupsRead,
           W!DesktopBackupsOpen, W!DesktopSystemInfo
    <1>3. /\ Formed(W!DesktopItemsCreate)
          /\ Formed(W!DesktopItemsUpdate)
          /\ Formed(W!DesktopItemsDelete)
          /\ Formed(W!DesktopItemsImport)
          /\ Formed(W!DesktopAttachmentsUpload)
          /\ Formed(W!DesktopAttachmentsDelete)
        BY Guards, RowForms DEF Formed, W!DesktopItemsCreate, W!DesktopItemsUpdate,
           W!DesktopItemsDelete, W!DesktopItemsImport, W!DesktopAttachmentsUpload,
           W!DesktopAttachmentsDelete
    <1>4. /\ Formed(W!DesktopUsersCreate)
          /\ Formed(W!DesktopUsersUpdate)
          /\ Formed(W!DesktopUsersReset)
          /\ Formed(W!DesktopUsersDelete)
          /\ Formed(W!DesktopAuditConfigApply)
          /\ Formed(W!DesktopSettingsSet)
        BY Guards, RowForms DEF Formed, W!DesktopUsersCreate, W!DesktopUsersUpdate,
           W!DesktopUsersReset, W!DesktopUsersDelete, W!DesktopAuditConfigApply,
           W!DesktopSettingsSet
    <1>5. /\ Formed(W!DesktopVibrancyApply)
          /\ Formed(W!DesktopBackupsCreate)
          /\ Formed(W!DesktopStageRestore)
          /\ Formed(W!DesktopCancelRestore)
        BY Guards, RowForms DEF Formed, W!DesktopVibrancyApply, W!DesktopBackupsCreate,
           W!DesktopStageRestore, W!DesktopCancelRestore
    <1>6. /\ Formed(W!DesktopExportItems)
          /\ Formed(W!DesktopUiSettingsGet)
          /\ Formed(W!DesktopUiSettingsSet)
          /\ Formed(W!DesktopChangePassword)
        BY Guards, RowForms DEF Formed, W!DesktopExportItems, W!DesktopUiSettingsGet,
           W!DesktopUiSettingsSet, W!DesktopChangePassword
    <1> QED BY <1>1, <1>2, <1>3, <1>4, <1>5, <1>6, DesktopIs

\* A handler's row at both entrances.
SameRow(row, other) == row.guard = other.guard /\ row.says = other.says

LEMMA PathsAgreeAlways ==
    \A h \in DOMAIN W!Rest \cap DOMAIN W!Desktop :
        /\ W!Rest[h].guard = W!Desktop[h].guard
        /\ h # "stageRestore" => W!Rest[h].says = W!Desktop[h].says
    <1>1. /\ SameRow(W!ItemsRead, W!DesktopItemsRead)
          /\ SameRow(W!ItemsCreate, W!DesktopItemsCreate)
          /\ SameRow(W!ItemsUpdate, W!DesktopItemsUpdate)
          /\ SameRow(W!ItemsDelete, W!DesktopItemsDelete)
          /\ SameRow(W!ItemsImport, W!DesktopItemsImport)
        BY RowForms DEF SameRow, W!ItemsRead, W!DesktopItemsRead, W!ItemsCreate,
           W!DesktopItemsCreate, W!ItemsUpdate, W!DesktopItemsUpdate, W!ItemsDelete,
           W!DesktopItemsDelete, W!ItemsImport, W!DesktopItemsImport
    <1>2. /\ SameRow(W!AttachmentsRead, W!DesktopAttachmentsRead)
          /\ SameRow(W!AttachmentsUpload, W!DesktopAttachmentsUpload)
          /\ SameRow(W!AttachmentsDelete, W!DesktopAttachmentsDelete)
          /\ SameRow(W!UsersList, W!DesktopUsersList)
          /\ SameRow(W!UsersCreate, W!DesktopUsersCreate)
        BY RowForms DEF SameRow, W!AttachmentsRead, W!DesktopAttachmentsRead, W!AttachmentsUpload,
           W!DesktopAttachmentsUpload, W!AttachmentsDelete, W!DesktopAttachmentsDelete,
           W!UsersList, W!DesktopUsersList, W!UsersCreate, W!DesktopUsersCreate
    <1>3. /\ SameRow(W!UsersUpdate, W!DesktopUsersUpdate)
          /\ SameRow(W!UsersResetPassword, W!DesktopUsersReset)
          /\ SameRow(W!UsersDelete, W!DesktopUsersDelete)
          /\ SameRow(W!AuditLogList, W!DesktopAuditLogList)
          /\ SameRow(W!AuditConfigGet, W!DesktopAuditConfigGet)
        BY RowForms DEF SameRow, W!UsersUpdate, W!DesktopUsersUpdate, W!UsersResetPassword,
           W!DesktopUsersReset, W!UsersDelete, W!DesktopUsersDelete, W!AuditLogList,
           W!DesktopAuditLogList, W!AuditConfigGet, W!DesktopAuditConfigGet
    <1>4. /\ SameRow(W!AuditConfigApply, W!DesktopAuditConfigApply)
          /\ SameRow(W!BackupsRead, W!DesktopBackupsRead)
          /\ SameRow(W!BackupsCreate, W!DesktopBackupsCreate)
          /\ W!StageRestore.guard = W!DesktopStageRestore.guard
          /\ SameRow(W!CancelRestore, W!DesktopCancelRestore)
        BY RowForms DEF SameRow, W!AuditConfigApply, W!DesktopAuditConfigApply, W!BackupsRead,
           W!DesktopBackupsRead, W!BackupsCreate, W!DesktopBackupsCreate, W!StageRestore,
           W!DesktopStageRestore, W!CancelRestore, W!DesktopCancelRestore
    <1>5. /\ SameRow(W!SystemInfo, W!DesktopSystemInfo)
          /\ SameRow(W!UiSettingsGet, W!DesktopUiSettingsGet)
          /\ SameRow(W!UiSettingsSet, W!DesktopUiSettingsSet)
          /\ SameRow(W!ChangePassword, W!DesktopChangePassword)
        BY RowForms DEF SameRow, W!SystemInfo, W!DesktopSystemInfo, W!UiSettingsGet,
           W!DesktopUiSettingsGet, W!UiSettingsSet, W!DesktopUiSettingsSet, W!ChangePassword,
           W!DesktopChangePassword
    <1> QED BY <1>1, <1>2, <1>3, <1>4, <1>5, RestIs, DesktopIs DEF SameRow

\* What follows a step of a handler, the i-th of its row.
Follows(pc, next, last, unrecorded) ==
    /\ pc = "authenticate" => ~last /\ next = "role"
    /\ pc = "role" => ~last /\ next \in {"own", "acting"} \cup ServiceSteps
    /\ pc \in {"own", "acting"} => ~last /\ next \in ServiceSteps
    /\ pc \in ServiceSteps => \/ last /\ unrecorded
                              \/ ~last /\ next = "record"
                              \/ ~last /\ pc = "rekey" /\ next = "rebind"
    /\ pc = "rebind" => ~last /\ next \in {"record", "recordAs"}
    /\ pc \in {"record", "recordAs"} => last
    /\ pc \notin {"caller", "end"}

Ordered(row) ==
    /\ Len(row.steps) \in Nat \ {0}
    /\ row.steps[1] = "authenticate"
    /\ \A i \in 1..Len(row.steps) :
          Follows(row.steps[i], row.steps[i + 1], i = Len(row.steps), row.says = W!Unrecorded)

LEMMA ShapedIsOrdered == ASSUME NEW row, Shaped(row) PROVE Ordered(row)
    <1>1. ASSUME NEW x \in {"read", "write"},
                 row.steps = <<"authenticate", "role", x>>,
                 row.says = W!Unrecorded
          PROVE  Ordered(row)
        <2>1. /\ Len(row.steps) = 3 /\ row.steps[1] = "authenticate"
              /\ row.steps[2] = "role" /\ row.steps[3] = x
              /\ \A i \in 1..3 : i = 1 \/ i = 2 \/ i = 3
            BY <1>1
        <2> QED BY <1>1, <2>1 DEF Ordered, Follows, ServiceSteps
    <1>2. ASSUME NEW x \in {"read", "write"},
                 row.steps = <<"authenticate", "role", "acting", x>>,
                 row.says = W!Unrecorded
          PROVE  Ordered(row)
        <2>1. /\ Len(row.steps) = 4 /\ row.steps[1] = "authenticate"
              /\ row.steps[2] = "role" /\ row.steps[3] = "acting" /\ row.steps[4] = x
              /\ \A i \in 1..4 : i = 1 \/ i = 2 \/ i = 3 \/ i = 4
            BY <1>2
        <2> QED BY <1>2, <2>1 DEF Ordered, Follows, ServiceSteps
    <1>3. ASSUME NEW x \in {"write", "import", "update", "reset", "delete"},
                 row.steps = <<"authenticate", "role", x, "record">>
          PROVE  Ordered(row)
        <2>1. /\ Len(row.steps) = 4 /\ row.steps[1] = "authenticate"
              /\ row.steps[2] = "role" /\ row.steps[3] = x /\ row.steps[4] = "record"
              /\ \A i \in 1..4 : i = 1 \/ i = 2 \/ i = 3 \/ i = 4
            BY <1>3
        <2> QED BY <1>3, <2>1 DEF Ordered, Follows, ServiceSteps
    <1>4. ASSUME row.steps = <<"authenticate", "role", "acting", "delete", "record">>
          PROVE  Ordered(row)
        <2>1. /\ Len(row.steps) = 5 /\ row.steps[1] = "authenticate"
              /\ row.steps[2] = "role" /\ row.steps[3] = "acting"
              /\ row.steps[4] = "delete" /\ row.steps[5] = "record"
              /\ \A i \in 1..5 : i = 1 \/ i = 2 \/ i = 3 \/ i = 4 \/ i = 5
            BY <1>4
        <2> QED BY <1>4, <2>1 DEF Ordered, Follows, ServiceSteps
    <1>5. ASSUME row.steps = <<"authenticate", "role", "own", "rekey", "rebind", "recordAs">>
          PROVE  Ordered(row)
        <2>1. /\ Len(row.steps) = 6 /\ row.steps[1] = "authenticate"
              /\ row.steps[2] = "role" /\ row.steps[3] = "own" /\ row.steps[4] = "rekey"
              /\ row.steps[5] = "rebind" /\ row.steps[6] = "recordAs"
              /\ \A i \in 1..6 : i = 1 \/ i = 2 \/ i = 3 \/ i = 4 \/ i = 5 \/ i = 6
            BY <1>5
        <2> QED BY <1>5, <2>1 DEF Ordered, Follows, ServiceSteps
    <1>6. ASSUME row.steps = <<"authenticate", "role", "rekey", "rebind", "record">>
          PROVE  Ordered(row)
        <2>1. /\ Len(row.steps) = 5 /\ row.steps[1] = "authenticate"
              /\ row.steps[2] = "role" /\ row.steps[3] = "rekey"
              /\ row.steps[4] = "rebind" /\ row.steps[5] = "record"
              /\ \A i \in 1..5 : i = 1 \/ i = 2 \/ i = 3 \/ i = 4 \/ i = 5
            BY <1>6
        <2> QED BY <1>6, <2>1 DEF Ordered, Follows, ServiceSteps
    <1> QED BY <1>1, <1>2, <1>3, <1>4, <1>5, <1>6 DEF Shaped

LogoutFollows(pc, next, last) ==
    \/ pc = "caller" /\ ~last /\ next = "end"
    \/ pc = "end" /\ ~last /\ next = "recordAs"
    \/ pc = "recordAs" /\ last

LEMMA LogoutIsOrdered ==
    /\ W!Logout.guard.min = 1 /\ Len(W!Logout.steps) = 3 /\ W!Logout.steps[1] = "caller"
    /\ \A i \in 1..3 : LogoutFollows(W!Logout.steps[i], W!Logout.steps[i + 1], i = 3)
    <1>1. /\ W!Logout.steps = <<"caller", "end", "recordAs">>
          /\ W!Logout.guard = W!AnyRole("auth")
        BY DEF W!Logout, W!Row
    <1>2. /\ Len(W!Logout.steps) = 3 /\ W!Logout.steps[1] = "caller"
          /\ W!Logout.steps[2] = "end" /\ W!Logout.steps[3] = "recordAs"
          /\ \A i \in 1..3 : i = 1 \/ i = 2 \/ i = 3
        BY <1>1
    <1> QED BY <1>1, <1>2, Guards DEF LogoutFollows

-----------------------------------------------------------------------------
(* AuditedWrites: what holds of the request while it is served.            *)

Pc(q) == q.row.steps[q.at]
NextPc(q) == q.row.steps[q.at + 1]
Last(q) == q.at = Len(q.row.steps)

OnTrack(q) ==
    /\ q.token \in W!Tokens /\ q.handler \in DOMAIN W!Rows(q.token)
    /\ q.row = W!Rows(q.token)[q.handler]
    /\ q.at \in 1..Len(q.row.steps)

LEMMA TrackIs ==
    ASSUME NEW q, OnTrack(q)
    PROVE  /\ q.handler # "logout" =>
                /\ Follows(Pc(q), NextPc(q), Last(q), q.row.says = W!Unrecorded)
                /\ q.row.guard.min \in 1..3
           /\ q.handler = "logout" =>
                /\ LogoutFollows(Pc(q), NextPc(q), Last(q))
                /\ q.row.guard.min = 1 /\ q.token # "slot"
    <1>1. \A h \in DOMAIN W!Desktop : h # "logout"
        BY DesktopIs
    <1>2. ASSUME q.handler # "logout" PROVE Formed(q.row)
        BY <1>2, RestShapes, DesktopShapes DEF OnTrack, W!Rows
    <1>3. ASSUME q.handler # "logout"
          PROVE  /\ Follows(Pc(q), NextPc(q), Last(q), q.row.says = W!Unrecorded)
                 /\ q.row.guard.min \in 1..3
        BY <1>2, <1>3, ShapedIsOrdered DEF Formed, Ordered, OnTrack, Pc, NextPc, Last
    <1>4. ASSUME q.handler = "logout"
          PROVE  /\ LogoutFollows(Pc(q), NextPc(q), Last(q))
                 /\ q.row.guard.min = 1 /\ q.token # "slot"
        <2>1. q.token # "slot" /\ q.row = W!Logout
            BY <1>1, <1>4, RestIs DEF OnTrack, W!Rows
        <2> QED BY <2>1, LogoutIsOrdered DEF OnTrack, Pc, NextPc, Last
    <1> QED BY <1>3, <1>4

Sessions == {W!NoSession} \cup [user : Accounts \cup {"grant"}, role : 1..3, epoch : Nat]

IsRequest(q) ==
    /\ q = [handler |-> q.handler, row |-> q.row, token |-> q.token, at |-> q.at,
            actor |-> q.actor, rekeyed |-> q.rekeyed, done |-> q.done, answer |-> q.answer]
    /\ q.at \in Nat /\ q.actor \in Sessions /\ q.rekeyed \in Nat /\ q.done \in BOOLEAN

TheRequest == request["request"]

\* What each step of a handler may rely on; s is its token's session, w
\* whether the caller has been seen with the role.
Assured(pc, q, s, w) ==
    IF q.handler = "logout"
    THEN /\ pc \in {"caller", "end"} => ~q.done
         /\ pc = "recordAs" => (q.done <=> q.actor # W!NoSession)
    ELSE /\ pc \in {"authenticate", "role", "own", "acting"} \cup ServiceSteps => ~q.done
         /\ pc \in {"rebind", "recordAs"} => q.done
         /\ pc = "role" /\ q.actor.role >= q.row.guard.min => w
         /\ pc \notin {"authenticate", "role"} => w /\ q.actor.role >= q.row.guard.min
         /\ pc # "authenticate" =>
              /\ q.actor # W!NoSession
              /\ q.token # "slot" => \/ s = W!NoSession
                                     \/ s.user = q.actor.user /\ s.role = q.actor.role

WriteTypes ==
    /\ accounts \in [Accounts -> [role : 0..3, epoch : Nat]]
    /\ session \in [W!Tokens -> Sessions]
    /\ request = [r \in {"request"} |-> TheRequest]
    /\ trail = [r \in {"request"} |-> trail["request"]]
    /\ warranted \in [{"request"} -> BOOLEAN]
    /\ IsRequest(TheRequest)

Warranted == TheRequest.done /\ TheRequest.handler # "logout" => warranted["request"]

ServedInv ==
    LET q == TheRequest IN
    /\ q.answer = "none" => ~q.done /\ trail["request"] = <<>>
    /\ q.answer = "pending" =>
         /\ trail["request"] = <<>> /\ OnTrack(q)
         /\ Assured(Pc(q), q, session[q.token], warranted["request"])

WritesInv ==
    WriteTypes /\ ServedInv /\ Warranted /\ W!EveryWriteIsTold /\ W!NothingElseIsTold

LEMMA WritesInit == W!Init => WritesInv
    <1> SUFFICES ASSUME W!Init PROVE WritesInv
        OBVIOUS
    <1>1. TheRequest = W!Idle /\ trail["request"] = <<>>
        BY DEF W!Init, TheRequest
    <1>2. IsRequest(W!Idle) /\ W!Idle.answer = "none" /\ W!Idle.done = FALSE
        BY DEF W!Idle, IsRequest, Sessions, W!NoSession
    <1>3. accounts \in [Accounts -> [role : 0..3, epoch : Nat]]
        BY DEF W!Init, W!Roles, W!Viewer, W!Admin
    <1>4. \A u \in Accounts : W!SessionOf(u) \in Sessions /\ W!PastOf(u) \in Sessions
        BY DEF W!Init, W!SessionOf, W!PastOf, Sessions, W!Roles, W!Viewer, W!Admin
    <1>5. W!GrantSession \in Sessions /\ W!NoSession \in Sessions
        BY DEF W!GrantSession, W!NoSession, Sessions, W!Admin
    <1>6. session \in [W!Tokens -> Sessions]
        BY <1>4, <1>5 DEF W!Init
    <1>7. /\ request = [r \in {"request"} |-> request["request"]]
          /\ trail = [r \in {"request"} |-> trail["request"]]
          /\ warranted \in [{"request"} -> BOOLEAN]
        BY DEF W!Init
    <1> QED BY <1>1, <1>2, <1>3, <1>6, <1>7
            DEF WritesInv, WriteTypes, ServedInv, Warranted, TheRequest, W!EveryWriteIsTold,
                W!NothingElseIsTold

\* The history only grows, and notes an entitled caller.
LEMMA WatchIs ==
    ASSUME WriteTypes, W!Watch
    PROVE  /\ warranted' \in [{"request"} -> BOOLEAN]
           /\ warranted["request"] => warranted'["request"]
           /\ W!Entitled(TheRequest) => warranted'["request"]
    <1>1. /\ warranted' = [r \in {"request"} |-> warranted'["request"]]
          /\ warranted'["request"] = (warranted["request"] \/ W!Entitled(TheRequest))
        BY DEF W!Watch, TheRequest
    <1>2. (warranted["request"] \/ W!Entitled(TheRequest)) \in BOOLEAN
        BY Zenon
    <1>3. warranted'["request"] \in BOOLEAN
        BY <1>1, <1>2, Zenon
    <1>4. warranted' \in [{"request"} -> BOOLEAN]
        BY <1>1, <1>3
    <1> QED BY <1>1, <1>4, Zenon

SameButAnswer(q, p) ==
    /\ p.handler = q.handler /\ p.row = q.row /\ p.token = q.token /\ p.at = q.at
    /\ p.actor = q.actor /\ p.rekeyed = q.rekeyed /\ p.done = q.done

LEMMA AnswersIs ==
    ASSUME WriteTypes, NEW a, W!Answers("request", a)
    PROVE  /\ request' = [r \in {"request"} |-> TheRequest'] /\ IsRequest(TheRequest')
           /\ SameButAnswer(TheRequest, TheRequest') /\ TheRequest'.answer = a
    <1> DEFINE q == TheRequest
    <1>1. request' = [r \in {"request"} |-> [q EXCEPT !.answer = a]]
        BY DEF WriteTypes, W!Answers, TheRequest
    <1>2. TheRequest' = [q EXCEPT !.answer = a]
        BY <1>1 DEF TheRequest
    <1>3. PICK done : done = q.done /\ done \in BOOLEAN
        BY DEF WriteTypes, IsRequest
    <1>4. [q EXCEPT !.answer = a] =
            [handler |-> q.handler, row |-> q.row, token |-> q.token, at |-> q.at,
             actor |-> q.actor, rekeyed |-> q.rekeyed, done |-> done, answer |-> a]
        BY <1>3 DEF WriteTypes, IsRequest
    <1> QED BY <1>1, <1>2, <1>3, <1>4 DEF WriteTypes, IsRequest, SameButAnswer

\* A request that goes on: to its next step, or to its answer after the last.
LEMMA GoesIs ==
    ASSUME WriteTypes, NEW q, IsRequest(q), OnTrack(q), W!Goes("request", q)
    PROVE  /\ request' = [r \in {"request"} |-> TheRequest'] /\ IsRequest(TheRequest')
           /\ Last(q) => SameButAnswer(q, TheRequest') /\ TheRequest'.answer = "ok"
           /\ ~Last(q) => /\ TheRequest'.answer = q.answer /\ TheRequest'.handler = q.handler
                          /\ TheRequest'.row = q.row /\ TheRequest'.token = q.token
                          /\ TheRequest'.actor = q.actor /\ TheRequest'.done = q.done
                          /\ TheRequest'.rekeyed = q.rekeyed
                          /\ Pc(TheRequest') = NextPc(q) /\ OnTrack(TheRequest')
    <1>1. request' = [r \in {"request"} |-> W!Onward(q)] /\ TheRequest' = W!Onward(q)
        BY DEF WriteTypes, W!Goes, TheRequest
    <1>2. PICK done : done = q.done /\ done \in BOOLEAN
        BY DEF IsRequest
    <1>3. CASE Last(q)
        <2>1. TheRequest' =
                [handler |-> q.handler, row |-> q.row, token |-> q.token, at |-> q.at,
                 actor |-> q.actor, rekeyed |-> q.rekeyed, done |-> done, answer |-> "ok"]
            BY <1>1, <1>2, <1>3 DEF W!Onward, Last, IsRequest
        <2> QED BY <1>1, <1>2, <1>3, <2>1 DEF IsRequest, SameButAnswer
    <1>4. CASE ~Last(q)
        <2>1. TheRequest' =
                [handler |-> q.handler, row |-> q.row, token |-> q.token, at |-> q.at + 1,
                 actor |-> q.actor, rekeyed |-> q.rekeyed, done |-> done, answer |-> q.answer]
            BY <1>1, <1>2, <1>4 DEF W!Onward, Last, IsRequest
        <2>2. q.at + 1 \in 1..Len(q.row.steps)
            <3>1. Len(q.row.steps) \in Int
                BY DEF OnTrack
            <3> QED BY <1>4, <3>1 DEF OnTrack, Last
        <2> QED BY <1>1, <1>2, <1>4, <2>1, <2>2 DEF IsRequest, OnTrack, Pc, NextPc
    <1> QED BY <1>3, <1>4

\* Accounts and sessions stay what they are, whoever changes them.
AccountTypes ==
    /\ accounts \in [Accounts -> [role : 0..3, epoch : Nat]]
    /\ session \in [W!Tokens -> Sessions]

Pending == WritesInv /\ TheRequest.answer = "pending"

\* An answer other than success, nothing recorded.
LEMMA RefusesInv ==
    ASSUME Pending, W!Watch, AccountTypes',
           NEW a \in {"unauthorized", "error", "dropped"}, W!Answers("request", a), UNCHANGED trail
    PROVE  WritesInv'
    <1> USE DEF Pending, WritesInv
    <1>1. /\ request' = [r \in {"request"} |-> TheRequest'] /\ IsRequest(TheRequest')
          /\ SameButAnswer(TheRequest, TheRequest') /\ TheRequest'.answer = a
        BY AnswersIs
    <1>2. /\ warranted' \in [{"request"} -> BOOLEAN]
          /\ warranted["request"] => warranted'["request"]
        BY WatchIs
    <1>3. trail' = [r \in {"request"} |-> trail'["request"]] /\ trail'["request"] = <<>>
        BY DEF ServedInv, WriteTypes
    <1>4. WriteTypes'
        BY <1>1, <1>2, <1>3 DEF WriteTypes, AccountTypes
    <1>5. ServedInv'
        BY <1>1 DEF ServedInv
    <1>6. Warranted'
        BY <1>1, <1>2 DEF Warranted, SameButAnswer
    <1>7. W!EveryWriteIsTold' /\ W!NothingElseIsTold'
        BY <1>1, <1>3 DEF W!EveryWriteIsTold, W!NothingElseIsTold, TheRequest
    <1> QED BY <1>4, <1>5, <1>6, <1>7

\* A refusal that is recorded.
LEMMA DeniesInv ==
    ASSUME Pending, W!Watch, AccountTypes', ~TheRequest.done, W!Answers("request", "forbidden"),
           NEW e, W!Tell("request", e), e.result = "denied"
    PROVE  WritesInv'
    <1> USE DEF Pending, WritesInv
    <1>1. /\ request' = [r \in {"request"} |-> TheRequest'] /\ IsRequest(TheRequest')
          /\ SameButAnswer(TheRequest, TheRequest') /\ TheRequest'.answer = "forbidden"
        BY AnswersIs
    <1>2. warranted' \in [{"request"} -> BOOLEAN]
        BY WatchIs
    <1>3. trail' = [r \in {"request"} |-> trail'["request"]] /\ trail'["request"] = <<e>>
        <2>1. trail' = [r \in {"request"} |-> Append(trail["request"], e)]
            BY DEF WriteTypes, W!Tell
        <2>2. trail["request"] = <<>> /\ Append(<<>>, e) = <<e>>
            BY DEF ServedInv
        <2> QED BY <2>1, <2>2
    <1>4. WriteTypes'
        BY <1>1, <1>2, <1>3 DEF WriteTypes, AccountTypes
    <1>5. ServedInv' /\ Warranted'
        BY <1>1 DEF ServedInv, Warranted, SameButAnswer
    <1>6. W!EveryWriteIsTold'
        BY <1>1 DEF W!EveryWriteIsTold, TheRequest
    <1>7. \A i \in DOMAIN trail'["request"] : trail'["request"][i] = e
        BY <1>3
    <1>8. W!NothingElseIsTold'
        BY <1>1, <1>7 DEF W!NothingElseIsTold, TheRequest, SameButAnswer
    <1> QED BY <1>4, <1>5, <1>6, <1>8

\* A step that records nothing.
LEMMA GoesOnInv ==
    ASSUME Pending, W!Watch, AccountTypes', UNCHANGED trail,
           NEW q, IsRequest(q), OnTrack(q), q.answer = "pending", W!Goes("request", q),
           q.done /\ q.handler # "logout" => warranted'["request"],
           Last(q) => ~q.done \/ q.row.says = W!Unrecorded,
           ~Last(q) => Assured(NextPc(q), q, session'[q.token], warranted'["request"])
    PROVE  WritesInv'
    <1> USE DEF Pending, WritesInv
    <1>1. /\ request' = [r \in {"request"} |-> TheRequest'] /\ IsRequest(TheRequest')
          /\ Last(q) => SameButAnswer(q, TheRequest') /\ TheRequest'.answer = "ok"
          /\ ~Last(q) => /\ TheRequest'.answer = q.answer /\ TheRequest'.handler = q.handler
                         /\ TheRequest'.row = q.row /\ TheRequest'.token = q.token
                         /\ TheRequest'.actor = q.actor /\ TheRequest'.done = q.done
                         /\ Pc(TheRequest') = NextPc(q) /\ OnTrack(TheRequest')
        BY GoesIs
    <1>2. warranted' \in [{"request"} -> BOOLEAN]
        BY WatchIs
    <1>3. trail' = [r \in {"request"} |-> trail'["request"]] /\ trail'["request"] = <<>>
        BY DEF ServedInv, WriteTypes
    <1>4. WriteTypes'
        BY <1>1, <1>2, <1>3 DEF WriteTypes, AccountTypes
    <1>5. ServedInv'
        <2>1. CASE Last(q)
            BY <1>1, <2>1 DEF ServedInv
        <2>2. CASE ~Last(q)
            <3>1. Assured(Pc(TheRequest'), TheRequest', session'[TheRequest'.token],
                          warranted'["request"])
                BY <1>1, <2>2 DEF Assured
            <3> QED BY <1>1, <1>3, <2>2, <3>1 DEF ServedInv
        <2> QED BY <2>1, <2>2
    <1>6. Warranted'
        BY <1>1 DEF Warranted, SameButAnswer
    <1>7. W!EveryWriteIsTold'
        <2>1. TheRequest'.answer = "ok" =>
                 ~TheRequest'.done \/ TheRequest'.row.says = W!Unrecorded
            BY <1>1 DEF SameButAnswer
        <2> QED BY <2>1 DEF W!EveryWriteIsTold, TheRequest
    <1>8. W!NothingElseIsTold'
        BY <1>3 DEF W!NothingElseIsTold
    <1> QED BY <1>4, <1>5, <1>6, <1>7, <1>8

\* The last step, with its record.
LEMMA TellsInv ==
    ASSUME Pending, W!Watch, AccountTypes',
           OnTrack(TheRequest), Last(TheRequest), W!Goes("request", TheRequest),
           NEW e, W!Tell("request", e),
           \/ TheRequest.done /\ e.result = "ok"
           \/ ~TheRequest.done /\ e.result = "failed",
           TheRequest.done =>
              \/ e.actor = TheRequest.actor.user /\ e.role >= TheRequest.row.guard.min
              \/ /\ e.actor = "nobody" /\ TheRequest.token # "slot"
                 /\ session'[TheRequest.token] = W!NoSession
    PROVE  WritesInv'
    <1> USE DEF Pending, WritesInv
    <1>0. IsRequest(TheRequest)
        BY DEF WriteTypes
    <1>1. /\ request' = [r \in {"request"} |-> TheRequest'] /\ IsRequest(TheRequest')
          /\ SameButAnswer(TheRequest, TheRequest') /\ TheRequest'.answer = "ok"
        BY <1>0, GoesIs
    <1>2. /\ warranted' \in [{"request"} -> BOOLEAN]
          /\ warranted["request"] => warranted'["request"]
        BY WatchIs
    <1>3. trail' = [r \in {"request"} |-> trail'["request"]] /\ trail'["request"] = <<e>>
        <2>1. trail' = [r \in {"request"} |-> Append(trail["request"], e)]
            BY DEF WriteTypes, W!Tell
        <2>2. trail["request"] = <<>> /\ Append(<<>>, e) = <<e>>
            BY DEF ServedInv
        <2> QED BY <2>1, <2>2
    <1>4. WriteTypes'
        BY <1>1, <1>2, <1>3 DEF WriteTypes, AccountTypes
    <1>5. ServedInv'
        BY <1>1 DEF ServedInv
    <1>6. Warranted'
        BY <1>1, <1>2 DEF Warranted, SameButAnswer
    <1>7. /\ Len(trail'["request"]) = 1 /\ trail'["request"][1] = e
          /\ \A i \in DOMAIN trail'["request"] : trail'["request"][i] = e
        BY <1>3
    <1>8. W!EveryWriteIsTold'
        BY <1>1, <1>7 DEF W!EveryWriteIsTold, TheRequest, SameButAnswer
    <1>9. W!NothingElseIsTold'
        BY <1>1, <1>7 DEF W!NothingElseIsTold, TheRequest, SameButAnswer
    <1> QED BY <1>4, <1>5, <1>6, <1>8, <1>9

LEMMA AtIs ==
    ASSUME WritesInv, NEW S, W!At("request", S)
    PROVE  /\ Pending /\ WriteTypes /\ AccountTypes /\ IsRequest(TheRequest) /\ OnTrack(TheRequest)
           /\ Pc(TheRequest) \in S
           /\ Assured(Pc(TheRequest), TheRequest, session[TheRequest.token],
                      warranted["request"])
           /\ session[TheRequest.token] \in Sessions
    <1>1. TheRequest.answer = "pending" /\ Pc(TheRequest) \in S
        BY DEF W!At, TheRequest, Pc
    <1>2. WriteTypes /\ AccountTypes /\ IsRequest(TheRequest)
        BY DEF WritesInv, WriteTypes, AccountTypes
    <1>3. OnTrack(TheRequest) /\ TheRequest.token \in W!Tokens
        BY <1>1 DEF WritesInv, ServedInv, OnTrack
    <1> QED BY <1>1, <1>2, <1>3 DEF Pending, WritesInv, ServedInv, WriteTypes

\* What validation makes of a session: nothing, or an identity that the account
\* bears out at this moment.
LEMMA ObservedIs ==
    ASSUME AccountTypes, NEW t \in W!Tokens, W!Observed(session[t]) # W!NoSession
    PROVE  LET s == W!Observed(session[t]) IN
           /\ s \in Sessions /\ s.user = session[t].user
           /\ \/ s.user = "grant"
              \/ /\ s.user \in Accounts /\ s.role = accounts[s.user].role
                 /\ accounts[s.user].epoch = session[t].epoch
    <1> DEFINE b == session[t]
    <1>1. b \in Sessions
        BY DEF AccountTypes
    <1>2. b # W!NoSession
        <2> SUFFICES ASSUME b = W!NoSession PROVE FALSE
            OBVIOUS
        <2>1. b.user = "nobody"
            BY DEF W!NoSession
        <2> QED BY <2>1 DEF W!Observed
    <1>3. b.user \in Accounts \cup {"grant"} /\ b.role \in 1..3 /\ b.user # "nobody"
        BY <1>1, <1>2, WritesConstants DEF Sessions
    <1>4. CASE b.user = "grant"
        BY <1>1, <1>3, <1>4 DEF W!Observed
    <1>5. CASE b.user \in Accounts /\ b.user # "grant"
        <2>1. /\ ~(accounts[b.user].role = W!Gone \/ accounts[b.user].epoch # b.epoch)
              /\ W!Observed(b) = W!SessionOf(b.user)
            BY <1>3, <1>5 DEF W!Observed
        <2>2. accounts[b.user].role \in 1..3 /\ accounts[b.user].epoch \in Nat
            BY <1>5, <2>1 DEF AccountTypes, W!Gone
        <2> QED BY <1>5, <2>1, <2>2 DEF W!SessionOf, Sessions
    <1> QED BY <1>3, <1>4, <1>5

LEMMA ActorSet ==
    ASSUME NEW q, NEW s \in Sessions, IsRequest(q), OnTrack(q)
    PROVE  LET p == [q EXCEPT !.actor = s] IN
           /\ IsRequest(p) /\ OnTrack(p) /\ p.actor = s /\ p.answer = q.answer
           /\ p.handler = q.handler /\ p.row = q.row /\ p.token = q.token /\ p.at = q.at
           /\ p.done = q.done
    <1>1. PICK done : done = q.done /\ done \in BOOLEAN
        BY DEF IsRequest
    <1>2. [q EXCEPT !.actor = s] =
            [handler |-> q.handler, row |-> q.row, token |-> q.token, at |-> q.at,
             actor |-> s, rekeyed |-> q.rekeyed, done |-> done, answer |-> q.answer]
        BY <1>1 DEF IsRequest
    <1> QED BY <1>1, <1>2 DEF IsRequest, OnTrack

LEMMA AuthenticateInv ==
    ASSUME WritesInv, W!Authenticate("request"), W!Watch
    PROVE  WritesInv'
    <1> DEFINE q == TheRequest
               s == W!Observed(session[q.token])
    <1>1. /\ Pending /\ WriteTypes /\ AccountTypes /\ IsRequest(q) /\ OnTrack(q)
          /\ Pc(q) = "authenticate" /\ session[q.token] \in Sessions
          /\ Assured(Pc(q), q, session[q.token], warranted["request"])
        BY AtIs DEF W!Authenticate
    <1>2. /\ session' = [session EXCEPT ![q.token] = s] /\ UNCHANGED <<accounts, trail>>
          /\ IF s = W!NoSession THEN W!Answers("request", "unauthorized")
             ELSE W!Goes("request", [q EXCEPT !.actor = s])
        BY DEF W!Authenticate, TheRequest
    <1>3. q.token \in W!Tokens /\ q.answer = "pending"
        BY <1>1 DEF OnTrack, Pending
    <1>4. s \in Sessions /\ AccountTypes' /\ session'[q.token] = s
        <2>1. s \in Sessions
            BY <1>1, <1>3, ObservedIs DEF Sessions
        <2> QED BY <1>1, <1>2, <1>3, <2>1 DEF AccountTypes
    <1>5. CASE s = W!NoSession
        BY <1>1, <1>2, <1>4, <1>5, RefusesInv
    <1>6. CASE s # W!NoSession
        <2> DEFINE p == [q EXCEPT !.actor = s]
        <2>1. /\ IsRequest(p) /\ OnTrack(p) /\ p.actor = s /\ p.answer = "pending"
              /\ p.handler = q.handler /\ p.row = q.row /\ p.token = q.token /\ p.at = q.at
              /\ p.done = q.done
            BY <1>1, <1>3, <1>4, ActorSet
        <2>2. q.handler # "logout" /\ ~Last(q) /\ NextPc(q) = "role" /\ ~q.done
              /\ q.row.guard.min \in 1..3
            BY <1>1, TrackIs DEF Follows, LogoutFollows, Assured
        <2>3. ~Last(p) /\ NextPc(p) = "role" /\ ~p.done
            BY <2>1, <2>2 DEF Last, NextPc
        <2>4. s.role >= q.row.guard.min => warranted'["request"]
            <3>1. s.role >= q.row.guard.min => W!Entitled(q)
                BY <1>3, <1>6, <1>1, ObservedIs DEF W!Entitled
            <3> QED BY <1>1, <3>1, WatchIs
        <2>5. Assured("role", p, s, warranted'["request"])
            BY <1>6, <2>1, <2>2, <2>4 DEF Assured, ServiceSteps
        <2> HIDE DEF p
        <2>6. Assured(NextPc(p), p, session'[p.token], warranted'["request"])
            BY <1>4, <2>1, <2>3, <2>5
        <2>7. W!Goes("request", p)
            BY <1>2, <1>6 DEF p
        <2> QED BY <1>1, <1>2, <1>4, <2>1, <2>3, <2>6, <2>7, GoesOnInv
    <1> QED BY <1>5, <1>6

LEMMA CheckRoleInv ==
    ASSUME WritesInv, W!CheckRole("request"), W!Watch
    PROVE  WritesInv'
    <1> DEFINE q == TheRequest
    <1>1. /\ Pending /\ WriteTypes /\ AccountTypes /\ IsRequest(q) /\ OnTrack(q)
          /\ Pc(q) = "role" /\ Assured(Pc(q), q, session[q.token], warranted["request"])
        BY AtIs DEF W!CheckRole
    <1>2. /\ q.handler # "logout" /\ ~Last(q) /\ ~q.done
          /\ NextPc(q) \in {"own", "acting"} \cup ServiceSteps
        BY <1>1, TrackIs DEF Follows, LogoutFollows, Assured
    <1>3. AccountTypes' /\ session' = session
        BY <1>1 DEF W!CheckRole, AccountTypes
    <1>4. CASE q.actor.role >= q.row.guard.min
        <2>1. W!Goes("request", q) /\ UNCHANGED trail
            BY <1>4 DEF W!CheckRole, TheRequest
        <2>2. warranted'["request"]
            BY <1>1, <1>2, <1>4, WatchIs DEF Assured
        <2>3. Assured(NextPc(q), q, session'[q.token], warranted'["request"])
            BY <1>1, <1>2, <1>3, <1>4, <2>2 DEF Assured, ServiceSteps
        <2> QED BY <1>1, <1>2, <1>3, <2>1, <2>3, GoesOnInv DEF Pending
    <1>5. CASE ~(q.actor.role >= q.row.guard.min)
        <2> DEFINE e == [action |-> "denied", resource |-> q.row.guard.tag, entity |-> "none",
                         result |-> "denied", actor |-> q.actor.user, role |-> q.actor.role]
        <2>1. W!Answers("request", "forbidden") /\ W!Tell("request", e) /\ e.result = "denied"
            BY <1>5 DEF W!CheckRole, TheRequest
        <2> QED BY <1>1, <1>2, <1>3, <2>1, DeniesInv
    <1> QED BY <1>4, <1>5

LEMMA CheckOwnerInv ==
    ASSUME WritesInv, W!CheckOwner("request"), W!Watch
    PROVE  WritesInv'
    <1> DEFINE q == TheRequest
    <1>1. /\ Pending /\ WriteTypes /\ AccountTypes /\ IsRequest(q) /\ OnTrack(q)
          /\ Pc(q) = "own" /\ Assured(Pc(q), q, session[q.token], warranted["request"])
        BY AtIs DEF W!CheckOwner
    <1>2. /\ q.handler # "logout" /\ ~Last(q) /\ ~q.done /\ NextPc(q) \in ServiceSteps
        BY <1>1, TrackIs DEF Follows, LogoutFollows, Assured
    <1>3. AccountTypes' /\ session' = session
        BY <1>1 DEF W!CheckOwner, AccountTypes
    <1>4. CASE q.actor.user # "grant"
        <2>1. W!Goes("request", q) /\ UNCHANGED trail
            BY <1>4 DEF W!CheckOwner, TheRequest
        <2>2. Assured(NextPc(q), q, session'[q.token], warranted'["request"])
            BY <1>1, <1>2, <1>3, WatchIs DEF Assured, ServiceSteps
        <2> QED BY <1>1, <1>2, <1>3, <2>1, <2>2, GoesOnInv DEF Pending
    <1>5. CASE q.actor.user = "grant"
        <2> DEFINE e == [W!Entry(q, "denied", q.actor) EXCEPT !.entity = "none"]
        <2>1. W!Answers("request", "forbidden") /\ W!Tell("request", e)
            BY <1>5 DEF W!CheckOwner, TheRequest
        <2>2. e.result = "denied"
            BY DEF W!Entry
        <2> QED BY <1>1, <1>2, <1>3, <2>1, <2>2, DeniesInv
    <1> QED BY <1>4, <1>5

LEMMA FindActingInv ==
    ASSUME WritesInv, W!FindActing("request"), W!Watch
    PROVE  WritesInv'
    <1> DEFINE q == TheRequest
    <1>1. /\ Pending /\ WriteTypes /\ AccountTypes /\ IsRequest(q) /\ OnTrack(q)
          /\ Pc(q) = "acting" /\ Assured(Pc(q), q, session[q.token], warranted["request"])
        BY AtIs DEF W!FindActing
    <1>2. /\ q.handler # "logout" /\ ~Last(q) /\ ~q.done /\ NextPc(q) \in ServiceSteps
        BY <1>1, TrackIs DEF Follows, LogoutFollows, Assured
    <1>3. AccountTypes' /\ session' = session /\ UNCHANGED trail
        BY <1>1 DEF W!FindActing, AccountTypes
    <1>4. W!Answers("request", "unauthorized") \/ W!Goes("request", q)
        BY DEF W!FindActing, TheRequest
    <1>5. Assured(NextPc(q), q, session'[q.token], warranted'["request"])
        BY <1>1, <1>2, <1>3, WatchIs DEF Assured, ServiceSteps
    <1>6. W!Goes("request", q) => WritesInv'
        BY <1>1, <1>2, <1>3, <1>5, GoesOnInv DEF Pending
    <1>7. W!Answers("request", "unauthorized") => WritesInv'
        BY <1>1, <1>3, RefusesInv
    <1> QED BY <1>4, <1>6, <1>7

LEMMA FailInv ==
    ASSUME WritesInv, W!Fail("request") \/ W!Drop("request"), W!Watch
    PROVE  WritesInv'
    <1>1. TheRequest.answer = "pending" /\ UNCHANGED <<accounts, session, trail>>
        BY DEF W!Fail, W!Drop, W!At, TheRequest
    <1>2. Pending /\ AccountTypes'
        BY <1>1 DEF Pending, WritesInv, WriteTypes, AccountTypes
    <1>3. W!Answers("request", "error") \/ W!Answers("request", "dropped")
        BY DEF W!Fail, W!Drop
    <1> QED BY <1>1, <1>2, <1>3, RefusesInv

LEMMA RollBackInv ==
    ASSUME WritesInv, W!RollBack("request"), W!Watch
    PROVE  WritesInv'
    <1> DEFINE q == TheRequest
    <1>1. /\ Pending /\ WriteTypes /\ AccountTypes /\ IsRequest(q) /\ OnTrack(q)
          /\ Pc(q) = "import" /\ Assured(Pc(q), q, session[q.token], warranted["request"])
        BY AtIs DEF W!RollBack
    <1>2. /\ q.handler # "logout" /\ ~q.done
          /\ ~Last(q) => NextPc(q) = "record"
        BY <1>1, TrackIs DEF Follows, LogoutFollows, Assured, ServiceSteps
    <1>3. AccountTypes' /\ session' = session /\ UNCHANGED trail /\ W!Goes("request", q)
        BY <1>1 DEF W!RollBack, AccountTypes, TheRequest
    <1>4. ~Last(q) => Assured(NextPc(q), q, session'[q.token], warranted'["request"])
        BY <1>1, <1>2, <1>3, WatchIs DEF Assured, ServiceSteps
    <1> QED BY <1>1, <1>2, <1>3, <1>4, GoesOnInv DEF Pending

LEMMA EffectsAreAccounts ==
    ASSUME AccountTypes, NEW q, NEW step, NEW after \in W!Effects(q, step)
    PROVE  /\ after \in [Accounts -> [role : 0..3, epoch : Nat]]
           /\ step = "rekey" => q.actor.user \in Accounts
    <1> USE DEF AccountTypes
    <1>1. \A u \in Accounts : W!Rekeyed(u) \in [Accounts -> [role : 0..3, epoch : Nat]]
        BY DEF W!Rekeyed
    <1>2. \A u \in Accounts, role \in 1..3 :
             W!Reroled(u, role) \in [Accounts -> [role : 0..3, epoch : Nat]]
        BY DEF W!Reroled
    <1>3. \A u \in Accounts : W!Deleted(u) \in [Accounts -> [role : 0..3, epoch : Nat]]
        BY DEF W!Deleted, W!Gone
    <1>4. W!Roles = 1..3
        BY DEF W!Roles, W!Viewer, W!Admin
    <1> DEFINE present == {u \in Accounts : accounts[u].role # W!Gone}
    <1> DEFINE made ==
                 CASE step = "update" -> {W!Reroled(u, role) : u \in present, role \in W!Roles}
                   [] step = "reset" -> {W!Rekeyed(u) : u \in present}
                   [] step = "delete" -> {W!Deleted(u) : u \in present \ {q.actor.user}}
                   [] step = "rekey" -> {W!Rekeyed(u) : u \in present \cap {q.actor.user}}
                   [] OTHER -> {accounts}
    <1>5. after \in made
        BY DEF W!Effects
    <1>6. CASE step = "update"
        <2>1. made = {W!Reroled(u, role) : u \in present, role \in W!Roles}
            BY <1>6
        <2> HIDE DEF made
        <2>2. PICK u \in present, role \in W!Roles : after = W!Reroled(u, role)
            BY <1>5, <2>1
        <2> QED BY <1>2, <1>4, <1>6, <2>2
    <1>7. CASE step = "reset"
        <2>1. made = {W!Rekeyed(u) : u \in present}
            BY <1>7
        <2> HIDE DEF made
        <2> QED BY <1>1, <1>5, <1>7, <2>1
    <1>8. CASE step = "delete"
        <2>1. made = {W!Deleted(u) : u \in present \ {q.actor.user}}
            BY <1>8
        <2> HIDE DEF made
        <2> QED BY <1>3, <1>5, <1>8, <2>1
    <1>9. CASE step = "rekey"
        <2>1. made = {W!Rekeyed(u) : u \in present \cap {q.actor.user}}
            BY <1>9
        <2> HIDE DEF made
        <2> QED BY <1>1, <1>5, <1>9, <2>1
    <1>10. CASE step \notin {"update", "reset", "delete", "rekey"}
        <2>1. made = {accounts}
            BY <1>10
        <2> HIDE DEF made
        <2> QED BY <1>5, <1>10, <2>1
    <1> QED BY <1>6, <1>7, <1>8, <1>9, <1>10

LEMMA DoneSet ==
    ASSUME NEW q, NEW d \in BOOLEAN, IsRequest(q), OnTrack(q)
    PROVE  LET p == [q EXCEPT !.done = d] IN
           /\ p = [handler |-> q.handler, row |-> q.row, token |-> q.token, at |-> q.at,
                   actor |-> q.actor, rekeyed |-> q.rekeyed, done |-> d, answer |-> q.answer]
           /\ IsRequest(p) /\ OnTrack(p) /\ p.done = d /\ p.answer = q.answer
           /\ p.handler = q.handler /\ p.row = q.row /\ p.token = q.token /\ p.at = q.at
           /\ p.actor = q.actor
    <1>1. [q EXCEPT !.done = d] =
            [handler |-> q.handler, row |-> q.row, token |-> q.token, at |-> q.at,
             actor |-> q.actor, rekeyed |-> q.rekeyed, done |-> d, answer |-> q.answer]
        BY DEF IsRequest
    <1> QED BY <1>1 DEF IsRequest, OnTrack

LEMMA ServedSet ==
    ASSUME NEW q, NEW n \in Nat, IsRequest(q), OnTrack(q)
    PROVE  LET p == [q EXCEPT !.done = TRUE, !.rekeyed = n] IN
           /\ IsRequest(p) /\ OnTrack(p) /\ p.done = TRUE /\ p.answer = q.answer
           /\ p.handler = q.handler /\ p.row = q.row /\ p.token = q.token /\ p.at = q.at
           /\ p.actor = q.actor
    <1>1. PICK d : d = TRUE
        OBVIOUS
    <1> DEFINE p == [q EXCEPT !.done = d]
    <1>2. [q EXCEPT !.done = d, !.rekeyed = n] = [p EXCEPT !.rekeyed = n]
        OBVIOUS
    <1>3. p = [handler |-> q.handler, row |-> q.row, token |-> q.token, at |-> q.at,
               actor |-> q.actor, rekeyed |-> q.rekeyed, done |-> d, answer |-> q.answer]
        BY <1>1, DoneSet
    <1> HIDE DEF p
    <1>4. [p EXCEPT !.rekeyed = n] =
            [handler |-> q.handler, row |-> q.row, token |-> q.token, at |-> q.at,
             actor |-> q.actor, rekeyed |-> n, done |-> d, answer |-> q.answer]
        BY <1>3
    <1>5. LET m == [p EXCEPT !.rekeyed = n] IN
          /\ m.handler = q.handler /\ m.row = q.row /\ m.token = q.token /\ m.at = q.at
          /\ m.actor = q.actor /\ m.done = TRUE /\ m.answer = q.answer
          /\ IsRequest(m) /\ OnTrack(m)
        BY <1>1, <1>4 DEF IsRequest, OnTrack
    <1> QED BY <1>1, <1>2, <1>5

LEMMA ServeInv ==
    ASSUME WritesInv, W!Serve("request"), W!Watch
    PROVE  WritesInv'
    <1> DEFINE q == TheRequest
               n == IF Pc(q) = "rekey" THEN accounts[q.actor.user].epoch + 1 ELSE 0
               p == [q EXCEPT !.done = TRUE, !.rekeyed = n]
    <1>1. /\ Pending /\ WriteTypes /\ AccountTypes /\ IsRequest(q) /\ OnTrack(q)
          /\ Pc(q) \in ServiceSteps
          /\ Assured(Pc(q), q, session[q.token], warranted["request"])
        BY AtIs DEF W!Serve, ServiceSteps
    <1>2. /\ accounts' \in W!Effects(q, Pc(q)) /\ W!Goes("request", p)
          /\ UNCHANGED <<session, trail>>
        BY DEF W!Serve, TheRequest, Pc
    <1>3. /\ AccountTypes' /\ session' = session
          /\ Pc(q) = "rekey" => q.actor.user \in Accounts
        BY <1>1, <1>2, EffectsAreAccounts DEF AccountTypes
    <1>4. n \in Nat
        BY <1>1, <1>3 DEF AccountTypes
    <1>5. /\ IsRequest(p) /\ OnTrack(p) /\ p.done = TRUE /\ p.answer = q.answer
          /\ p.handler = q.handler /\ p.row = q.row /\ p.token = q.token /\ p.at = q.at
          /\ p.actor = q.actor
        <2> HIDE DEF n
        <2> QED BY <1>1, <1>4, ServedSet
    <1>6. /\ q.handler # "logout" /\ warranted'["request"]
          /\ q.actor.role >= q.row.guard.min /\ q.actor # W!NoSession
          /\ Last(q) => q.row.says = W!Unrecorded
          /\ ~Last(q) => NextPc(q) \in {"record", "rebind"}
        BY <1>1, TrackIs, WatchIs DEF Follows, LogoutFollows, Assured, ServiceSteps
    <1>7. ASSUME ~Last(q) PROVE Assured(NextPc(q), p, session'[q.token], warranted'["request"])
        BY <1>1, <1>3, <1>5, <1>6, <1>7 DEF Assured, ServiceSteps
    <1> HIDE DEF p
    <1>8. Last(p) = Last(q) /\ NextPc(p) = NextPc(q)
        BY <1>5 DEF Last, NextPc
    <1>9. q.answer = "pending"
        BY <1>1 DEF Pending
    <1> QED BY <1>1, <1>2, <1>3, <1>5, <1>6, <1>7, <1>8, <1>9, GoesOnInv

LEMMA RebindInv ==
    ASSUME WritesInv, W!Rebind("request"), W!Watch
    PROVE  WritesInv'
    <1> DEFINE q == TheRequest
    <1>1. /\ Pending /\ WriteTypes /\ AccountTypes /\ IsRequest(q) /\ OnTrack(q)
          /\ Pc(q) = "rebind" /\ session[q.token] \in Sessions
          /\ Assured(Pc(q), q, session[q.token], warranted["request"])
        BY AtIs DEF W!Rebind
    <1>2. /\ q.handler # "logout" /\ ~Last(q) /\ NextPc(q) \in {"record", "recordAs"} /\ q.done
          /\ warranted["request"] /\ q.actor # W!NoSession
        BY <1>1, TrackIs DEF Follows, LogoutFollows, Assured, ServiceSteps
    <1>3. /\ session' = session \/ /\ session[q.token] = q.actor
                                   /\ session' = [session EXCEPT ![q.token].epoch = q.rekeyed]
          /\ W!Goes("request", q) /\ UNCHANGED <<accounts, trail>>
        BY DEF W!Rebind, TheRequest
    <1>4. q.token \in W!Tokens /\ q.actor \in Sessions /\ q.rekeyed \in Nat /\ q.answer = "pending"
        BY <1>1 DEF OnTrack, IsRequest, Pending
    <1>5. /\ session' \in [W!Tokens -> Sessions]
          /\ \/ session'[q.token] = session[q.token]
             \/ /\ session'[q.token].user = q.actor.user
                /\ session'[q.token].role = q.actor.role
        <2>1. CASE session' = session
            BY <1>1, <2>1 DEF AccountTypes
        <2>2. CASE /\ session[q.token] = q.actor
                   /\ session' = [session EXCEPT ![q.token].epoch = q.rekeyed]
            <3>1. q.actor \in [user : Accounts \cup {"grant"}, role : 1..3, epoch : Nat]
                BY <1>2, <1>4 DEF Sessions
            <3> DEFINE b == [q.actor EXCEPT !.epoch = q.rekeyed]
            <3>2. /\ b \in [user : Accounts \cup {"grant"}, role : 1..3, epoch : Nat]
                  /\ b.user = q.actor.user /\ b.role = q.actor.role
                BY <1>4, <3>1
            <3>3. session' = [session EXCEPT ![q.token] = b]
                BY <2>2
            <3> QED BY <1>1, <1>4, <3>2, <3>3 DEF AccountTypes, Sessions
        <2> QED BY <1>3, <2>1, <2>2
    <1>6. AccountTypes'
        BY <1>1, <1>3, <1>5 DEF AccountTypes
    <1>7. Assured(NextPc(q), q, session'[q.token], warranted'["request"])
        BY <1>1, <1>2, <1>5, WatchIs DEF Assured, ServiceSteps
    <1> QED BY <1>1, <1>2, <1>3, <1>4, <1>6, <1>7, WatchIs, GoesOnInv

LEMMA ReadCallerInv ==
    ASSUME WritesInv, W!ReadCaller("request"), W!Watch
    PROVE  WritesInv'
    <1> DEFINE q == TheRequest
               s == session[q.token]
               p == [q EXCEPT !.actor = s]
    <1>1. /\ Pending /\ WriteTypes /\ AccountTypes /\ IsRequest(q) /\ OnTrack(q)
          /\ Pc(q) = "caller" /\ s \in Sessions /\ Assured(Pc(q), q, s, warranted["request"])
        BY AtIs DEF W!ReadCaller
    <1>2. q.handler = "logout" /\ ~Last(q) /\ NextPc(q) = "end" /\ ~q.done
        BY <1>1, TrackIs DEF Follows, LogoutFollows, Assured, ServiceSteps
    <1>3. AccountTypes' /\ UNCHANGED trail /\ W!Goes("request", p)
        BY <1>1 DEF W!ReadCaller, AccountTypes, TheRequest
    <1>4. /\ IsRequest(p) /\ OnTrack(p) /\ p.answer = "pending" /\ p.handler = "logout"
          /\ p.row = q.row /\ p.at = q.at /\ p.done = q.done
        BY <1>1, <1>2, ActorSet DEF Pending
    <1> HIDE DEF p
    <1>5. ~Last(p) /\ NextPc(p) = "end"
        BY <1>2, <1>4 DEF Last, NextPc
    <1>6. Assured(NextPc(p), p, session'[p.token], warranted'["request"])
        BY <1>2, <1>4, <1>5 DEF Assured
    <1> QED BY <1>1, <1>2, <1>3, <1>4, <1>5, <1>6, GoesOnInv

LEMMA EndOwnInv ==
    ASSUME WritesInv, W!EndOwn("request"), W!Watch
    PROVE  WritesInv'
    <1> DEFINE q == TheRequest
    <1>1. /\ Pending /\ WriteTypes /\ AccountTypes /\ IsRequest(q) /\ OnTrack(q)
          /\ Pc(q) = "end" /\ Assured(Pc(q), q, session[q.token], warranted["request"])
        BY AtIs DEF W!EndOwn
    <1>2. q.handler = "logout" /\ ~Last(q) /\ NextPc(q) = "recordAs" /\ ~q.done
        BY <1>1, TrackIs DEF Follows, LogoutFollows, Assured, ServiceSteps
    <1>3. PICK d \in BOOLEAN : d <=> q.actor # W!NoSession
        OBVIOUS
    <1> DEFINE p == [q EXCEPT !.done = d]
    <1>4. W!Goes("request", p)
        <2>1. (q.done \/ q.actor # W!NoSession) = d
            BY <1>2, <1>3
        <2>2. W!Goes("request", [q EXCEPT !.done = q.done \/ q.actor # W!NoSession])
            BY DEF W!EndOwn, TheRequest
        <2> QED BY <2>1, <2>2
    <1>5. AccountTypes' /\ UNCHANGED trail
        <2>1. /\ session' = [session EXCEPT ![q.token] = W!NoSession]
              /\ UNCHANGED <<accounts, trail>>
            BY DEF W!EndOwn, TheRequest
        <2>2. W!NoSession \in Sessions
            BY DEF Sessions
        <2> HIDE DEF q
        <2> QED BY <1>1, <2>1, <2>2 DEF AccountTypes
    <1>6. /\ IsRequest(p) /\ OnTrack(p) /\ p.done = d /\ p.answer = "pending"
          /\ p.handler = "logout" /\ p.row = q.row /\ p.at = q.at /\ p.actor = q.actor
        BY <1>1, <1>2, DoneSet DEF Pending
    <1> HIDE DEF p
    <1>7. ~Last(p) /\ NextPc(p) = "recordAs"
        BY <1>2, <1>6 DEF Last, NextPc
    <1>8. Assured(NextPc(p), p, session'[p.token], warranted'["request"])
        BY <1>3, <1>6, <1>7 DEF Assured
    <1> QED BY <1>1, <1>4, <1>5, <1>6, <1>7, <1>8, GoesOnInv

LEMMA RecordInv ==
    ASSUME WritesInv, W!Record("request"), W!Watch
    PROVE  WritesInv'
    <1> DEFINE q == TheRequest
               e == W!Entry(q, W!Reported(q), W!Recorder(q))
    <1>1. /\ Pending /\ WriteTypes /\ AccountTypes /\ IsRequest(q) /\ OnTrack(q)
          /\ Pc(q) = "record" /\ Assured(Pc(q), q, session[q.token], warranted["request"])
        BY AtIs DEF W!Record
    <1>2. /\ q.handler # "logout" /\ Last(q) /\ q.actor.role >= q.row.guard.min
          /\ q.token # "slot" => \/ session[q.token] = W!NoSession
                                 \/ /\ session[q.token].user = q.actor.user
                                    /\ session[q.token].role = q.actor.role
        BY <1>1, TrackIs DEF Follows, LogoutFollows, Assured, ServiceSteps
    <1>3. /\ AccountTypes' /\ session' = session
          /\ W!Goes("request", q) /\ W!Tell("request", e)
        BY <1>1 DEF W!Record, AccountTypes, TheRequest
    <1>4. /\ e.result = W!Reported(q) /\ e.actor = W!Recorder(q).user
          /\ e.role = W!Recorder(q).role
        BY DEF W!Entry
    <1>5. \/ q.done /\ e.result = "ok"
          \/ ~q.done /\ e.result = "failed"
        BY <1>4 DEF W!Reported
    <1>6. \/ e.actor = q.actor.user /\ e.role >= q.row.guard.min
          \/ /\ e.actor = "nobody" /\ q.token # "slot" /\ session'[q.token] = W!NoSession
        BY <1>2, <1>3, <1>4 DEF W!Recorder, W!NoSession
    <1> HIDE DEF e
    <1> QED BY <1>1, <1>2, <1>3, <1>5, <1>6, TellsInv

LEMMA RecordAsInv ==
    ASSUME WritesInv, W!RecordAs("request"), W!Watch
    PROVE  WritesInv'
    <1> DEFINE q == TheRequest
    <1>1. /\ Pending /\ WriteTypes /\ AccountTypes /\ IsRequest(q) /\ OnTrack(q)
          /\ Pc(q) = "recordAs" /\ Assured(Pc(q), q, session[q.token], warranted["request"])
        BY AtIs DEF W!RecordAs
    <1>2. Last(q)
        BY <1>1, TrackIs DEF Follows, LogoutFollows
    <1>3. q.handler # "logout" => /\ q.done /\ q.actor # W!NoSession /\ warranted["request"]
                                  /\ q.actor.role >= q.row.guard.min
        BY <1>1 DEF Assured, ServiceSteps
    <1>4. q.handler = "logout" => (q.done <=> q.actor # W!NoSession) /\ q.row.guard.min = 1
        BY <1>1, TrackIs DEF Assured
    <1>5. AccountTypes' /\ W!Goes("request", q)
        BY <1>1 DEF W!RecordAs, AccountTypes, TheRequest
    <1>6. CASE q.actor = W!NoSession
        <2>1. UNCHANGED trail /\ ~q.done
            BY <1>3, <1>4, <1>6 DEF W!RecordAs, TheRequest
        <2> QED BY <1>1, <1>2, <1>5, <2>1, GoesOnInv DEF Pending
    <1>7. CASE q.actor # W!NoSession
        <2> DEFINE entry == W!Entry(q, "ok", q.actor)
        <2>1. PICK e : /\ W!Tell("request", e) /\ e \in {entry, [entry EXCEPT !.entity = "none"]}
            BY <1>7 DEF W!RecordAs, TheRequest
        <2>2. e.result = "ok" /\ e.actor = q.actor.user /\ e.role = q.actor.role
            BY <2>1 DEF W!Entry
        <2>3. q.done /\ q.actor.role >= q.row.guard.min
            BY <1>1, <1>3, <1>4, <1>7 DEF IsRequest, Sessions
        <2> QED BY <1>1, <1>2, <1>5, <2>1, <2>2, <2>3, TellsInv
    <1> QED BY <1>6, <1>7

LEMMA BeginInv ==
    ASSUME WritesInv, NEW t \in W!Tokens, NEW h \in DOMAIN W!Rows(t), W!Begin("request", t, h),
           W!Watch
    PROVE  WritesInv'
    <1> DEFINE row == W!Rows(t)[h]
    <1>1. /\ TheRequest.answer = "none" /\ UNCHANGED <<accounts, session, trail>>
          /\ request' = [request EXCEPT !["request"] =
                           [W!Idle EXCEPT !.handler = h, !.row = row, !.token = t, !.at = 1,
                                          !.answer = "pending"]]
        BY DEF W!Begin, TheRequest
    <1>2. [W!Idle EXCEPT !.handler = h, !.row = row, !.token = t, !.at = 1, !.answer = "pending"] =
            [handler |-> h, row |-> row, token |-> t, at |-> 1, actor |-> W!NoSession,
             rekeyed |-> 0, done |-> FALSE, answer |-> "pending"]
        <2>0. PICK f, w, l : f = FALSE /\ w = W!Reads(W!AnyRole("none")) /\ l = W!NoSession
            OBVIOUS
        <2> DEFINE a == [W!Idle EXCEPT !.handler = h]
                   b == [a EXCEPT !.row = row]
                   c == [b EXCEPT !.token = t]
                   d == [c EXCEPT !.at = 1]
                   e == [d EXCEPT !.answer = "pending"]
                   Made(g, r, k, n, x) ==
                       [handler |-> g, row |-> r, token |-> k, at |-> n, actor |-> l,
                        rekeyed |-> 0, done |-> f, answer |-> x]
        <2>1. [W!Idle EXCEPT !.handler = h, !.row = row, !.token = t, !.at = 1,
                             !.answer = "pending"] = e
            OBVIOUS
        <2>2. a = Made(h, w, "nobody", 0, "none")
            <3>1. W!Idle = Made("none", w, "nobody", 0, "none")
                BY <2>0 DEF W!Idle
            <3> QED BY <3>1
        <2> HIDE DEF a
        <2>3. b = Made(h, row, "nobody", 0, "none")
            BY <2>2
        <2> HIDE DEF b
        <2>4. c = Made(h, row, t, 0, "none")
            BY <2>3
        <2> HIDE DEF c
        <2>5. d = Made(h, row, t, 1, "none")
            BY <2>4
        <2> HIDE DEF d
        <2>6. e = Made(h, row, t, 1, "pending")
            BY <2>5
        <2> QED BY <2>0, <2>1, <2>6
    <1> HIDE DEF row
    <1>3. /\ request' = [r \in {"request"} |-> TheRequest']
          /\ TheRequest' = [handler |-> h, row |-> row, token |-> t, at |-> 1,
                            actor |-> W!NoSession, rekeyed |-> 0, done |-> FALSE,
                            answer |-> "pending"]
        BY <1>1, <1>2 DEF TheRequest, WritesInv, WriteTypes
    <1>4. IsRequest(TheRequest')
        BY <1>3 DEF IsRequest, Sessions
    <1>5. /\ Len(row.steps) \in Nat \ {0}
          /\ row.steps[1] = IF h = "logout" THEN "caller" ELSE "authenticate"
        <2>1. \A g \in DOMAIN W!Desktop : g # "logout"
            BY DesktopIs
        <2>2. CASE h = "logout"
            <3>1. row = W!Logout
                BY <2>1, <2>2, RestIs DEF W!Rows, row
            <3> QED BY <2>2, <3>1, LogoutIsOrdered
        <2>3. CASE h # "logout"
            <3>1. Formed(row)
                BY <2>3, RestShapes, DesktopShapes DEF W!Rows, row
            <3> QED BY <2>3, <3>1, ShapedIsOrdered DEF Formed, Ordered
        <2> QED BY <2>2, <2>3
    <1>6. OnTrack(TheRequest')
        BY <1>3, <1>5 DEF OnTrack, row
    <1>7. Assured(Pc(TheRequest'), TheRequest', session'[t], warranted'["request"])
        <2>1. Pc(TheRequest') = IF h = "logout" THEN "caller" ELSE "authenticate"
            BY <1>3, <1>5 DEF Pc
        <2> QED BY <1>3, <2>1 DEF Assured, ServiceSteps
    <1>8. trail["request"] = <<>> /\ trail' = trail
        BY <1>1 DEF WritesInv, ServedInv
    <1>9. warranted' \in [{"request"} -> BOOLEAN]
        BY WatchIs DEF WritesInv
    <1>10. WriteTypes'
        BY <1>1, <1>3, <1>4, <1>8, <1>9 DEF WriteTypes, WritesInv
    <1>11. ServedInv' /\ Warranted'
        BY <1>3, <1>6, <1>7, <1>8 DEF ServedInv, Warranted
    <1>12. W!EveryWriteIsTold' /\ W!NothingElseIsTold'
        BY <1>3, <1>8 DEF W!EveryWriteIsTold, W!NothingElseIsTold, TheRequest
    <1> QED BY <1>10, <1>11, <1>12 DEF WritesInv

\* What anything else does to accounts and sessions.
LEMMA ElsewhereInv ==
    ASSUME WritesInv, W!ChangeElsewhere \/ (\E t \in W!Tokens : W!EndElsewhere(t))
                        \/ (\E u \in Accounts : W!LoginElsewhere(u)),
           W!Watch
    PROVE  WritesInv'
    <1> DEFINE q == TheRequest
    <1>1. TheRequest.answer = "pending" /\ UNCHANGED <<request, trail>>
        BY DEF W!ChangeElsewhere, W!EndElsewhere, W!LoginElsewhere, W!Elsewhere, TheRequest
    <1>2. WriteTypes /\ AccountTypes
        BY DEF WritesInv, WriteTypes, AccountTypes
    <1>3. /\ AccountTypes'
          /\ \A t \in W!Tokens : t # "slot" => session'[t] \in {session[t], W!NoSession}
        <2>1. CASE W!ChangeElsewhere
            <3>1. PICK u \in Accounts :
                     accounts' \in {W!Rekeyed(u), W!Deleted(u)}
                                     \cup {W!Reroled(u, role) : role \in W!Roles}
                BY <2>1 DEF W!ChangeElsewhere
            <3>2. accounts' \in [Accounts -> [role : 0..3, epoch : Nat]]
                BY <1>2, <3>1 DEF AccountTypes, W!Rekeyed, W!Deleted, W!Reroled, W!Gone, W!Roles,
                                  W!Viewer, W!Admin
            <3> QED BY <1>2, <2>1, <3>2 DEF W!ChangeElsewhere, AccountTypes
        <2>2. CASE \E t \in W!Tokens : W!EndElsewhere(t)
            BY <1>2, <2>2 DEF W!EndElsewhere, AccountTypes, Sessions
        <2>3. CASE \E u \in Accounts : W!LoginElsewhere(u)
            <3>1. PICK u \in Accounts : W!LoginElsewhere(u)
                BY <2>3
            <3>2. W!SessionOf(u) \in Sessions
                BY <1>2, <3>1 DEF W!LoginElsewhere, W!SessionOf, Sessions, AccountTypes, W!Gone
            <3> QED BY <1>2, <3>1, <3>2 DEF W!LoginElsewhere, AccountTypes
        <2> QED BY <2>1, <2>2, <2>3
    <1>4. /\ warranted' \in [{"request"} -> BOOLEAN]
          /\ warranted["request"] => warranted'["request"]
        BY <1>2, WatchIs
    <1>5. TheRequest' = TheRequest
        BY <1>1 DEF TheRequest
    <1>6. WriteTypes'
        BY <1>1, <1>2, <1>3, <1>4, <1>5 DEF WriteTypes, AccountTypes, IsRequest
    <1>7. OnTrack(q) /\ Assured(Pc(q), q, session[q.token], warranted["request"])
        BY <1>1 DEF WritesInv, ServedInv
    <1>8. Assured(Pc(q), q, session'[q.token], warranted'["request"])
        BY <1>3, <1>4, <1>7 DEF Assured, OnTrack
    <1>9. ServedInv'
        BY <1>1, <1>5, <1>7, <1>8 DEF WritesInv, ServedInv, OnTrack, Pc
    <1>10. Warranted'
        BY <1>4, <1>5 DEF WritesInv, Warranted
    <1>11. W!EveryWriteIsTold' /\ W!NothingElseIsTold'
        BY <1>1 DEF WritesInv, W!EveryWriteIsTold, W!NothingElseIsTold, TheRequest
    <1> QED BY <1>6, <1>9, <1>10, <1>11 DEF WritesInv

LEMMA WritesNext == ASSUME WritesInv, W!Next PROVE WritesInv'
    <1>1. W!Watch
        BY DEF W!Next
    <1> QED BY <1>1, BeginInv, AuthenticateInv, CheckRoleInv, CheckOwnerInv, FindActingInv,
               ServeInv, RollBackInv, FailInv, RebindInv, ReadCallerInv, EndOwnInv, RecordInv,
               RecordAsInv, ElsewhereInv DEF W!Next

LEMMA WritesSound ==
    ASSUME WritesInv
    PROVE  W!WritesAreWarranted /\ W!TrailIsTrue
    <1>1. W!WritesAreWarranted
        BY DEF WritesInv, Warranted, W!WritesAreWarranted, TheRequest
    <1>2. W!PathsAgree
        BY PathsAgreeAlways DEF W!PathsAgree
    <1> QED BY <1>1, <1>2 DEF WritesInv, W!TrailIsTrue

-----------------------------------------------------------------------------
(* Attachments: rows, files and calls.                                     *)

RowTables == [A!Ids -> [c : 0..MaxUploads, thumb : BOOLEAN]]
UploadSteps == {"create", "write", "undo", "thumb", "flag", "answer"}
ImportSteps == {"import", "place"}
CallSteps == {"idle", "next", "row", "body", "rest"} \cup UploadSteps \cup ImportSteps

AttachmentTypes ==
    /\ backend \in {"sqlite", "postgres"}
    /\ rows \in RowTables /\ copy.rows \in RowTables
    /\ copy = [rows |-> copy.rows, seq |-> copy.seq]
    /\ seq \in Nat /\ copy.seq \in Nat /\ uploads \in 0..MaxUploads
    /\ body = [i \in A!Ids |-> body[i]] /\ thumb = [i \in A!Ids |-> thumb[i]]
    /\ answered = [i \in A!Ids |-> answered[i]]
    /\ \A i \in A!Ids : \A c \in answered[i] : c \in 1..uploads
    /\ call = [r \in Reqs |-> call[r]]

\* What a table promises of an attachment nobody deleted: the bytes of an
\* answered upload are there, and so are those of a flagged thumbnail.
KeptAt(T, i) ==
    /\ T[i].c \in answered[i] => \/ body[i] = A!Whole(T[i].c)
                                 \/ backend = "postgres" /\ i = 1 /\ body[i] = A!NoFile
    /\ T[i].thumb => \/ body[i] = A!Whole(T[i].c) /\ thumb[i] = A!Whole(T[i].c)
                     \/ backend = "postgres" /\ i = 1
Kept(T) == \A i \in A!Ids \ removed : KeptAt(T, i)

\* No table, the saved ones included, says the attachment has a thumbnail.
NoFlag(i) ==
    /\ ~rows[i].thumb /\ ~copy.rows[i].thumb
    /\ \A r \in Reqs : call[r].at \in ImportSteps => ~call[r].rows[i].thumb

\* An upload owns its id until it is deleted.
UploadOk(s) ==
    /\ s = [at |-> s.at, id |-> s.id, c |-> s.c, image |-> s.image]
    /\ s.id \in A!Ids /\ s.id <= seq /\ s.c \in 1..uploads
    /\ backend = "postgres" => s.id # 1
    /\ s.id \notin removed =>
         /\ rows[s.id].c = s.c
         /\ s.at = "write" => body[s.id] = A!Part(s.c)
         /\ s.at \in {"thumb", "flag", "answer"} => body[s.id] = A!Whole(s.c)
         /\ s.at = "flag" => thumb[s.id] = A!Whole(s.c)
         /\ s.at \in {"write", "thumb", "flag"} => NoFlag(s.id)

DeleteOk(s) ==
    /\ s = [at |-> s.at, ids |-> s.ids, id |-> s.id, thumb |-> s.thumb]
    /\ s.id \in A!Ids
    /\ s.at \in {"body", "rest"} => s.id \in removed

\* An import places what the older directory holds of attachment 1 only.
ImportShape(s) ==
    /\ backend = "postgres" /\ s.rows \in RowTables
    /\ 1 \in A!Ids \ removed => s.rows[1].c = 1
    /\ s.at = "import" => s = [at |-> s.at, rows |-> s.rows, ids |-> s.ids]
    /\ s.at = "place" =>
         /\ s = [at |-> s.at, rows |-> s.rows, ids |-> s.ids, id |-> s.id, kind |-> s.kind]
         /\ s.id \in A!Ids
         /\ s.id \notin removed => s.id = 1 /\ legacy[1] = 1

CallOk(s) ==
    /\ s.at \in CallSteps
    /\ s.at \in UploadSteps => UploadOk(s)
    /\ s.at \in {"row", "body", "rest"} => DeleteOk(s)
    /\ s.at \in ImportSteps => ImportShape(s) /\ Kept(s.rows)

OwnIds == \A r, q \in Reqs : r # q /\ {call[r].at, call[q].at} \subseteq UploadSteps =>
                                call[r].id # call[q].id

PostgresInv ==
    backend = "postgres" =>
        /\ seq >= 1
        /\ \A i \in A!Ids : /\ copy.rows[i] = A!NoRow
                            /\ i # 1 => legacy[i] = A!Foreign
        /\ 1 \in A!Ids \ removed =>
             /\ rows[1].c = 1 /\ legacy[1] \in {1, A!Foreign}
             /\ {body[1], thumb[1]} \subseteq {A!NoFile, A!Whole(1)}
             /\ body[1] # A!NoFile => legacy[1] = 1

AttachmentsInv ==
    /\ AttachmentTypes /\ PostgresInv /\ OwnIds
    /\ Kept(rows) /\ Kept(copy.rows)
    /\ \A r \in Reqs : CallOk(call[r])

LEMMA FilesDiffer ==
    /\ \A c, d : /\ A!Part(c) # A!Whole(d) /\ A!Whole(c) # A!NoFile
                 /\ A!Whole(c) = A!Whole(d) => c = d
    /\ \A c \in 1..MaxUploads : A!Part(c) # A!NoFile
    BY DEF A!Part, A!Whole, A!NoFile

LEMMA NoRowIs == A!NoRow \in [c : 0..MaxUploads, thumb : BOOLEAN] /\ A!NoRow.c = 0 /\ ~A!NoRow.thumb
    BY AttachmentBounds DEF A!NoRow

LEMMA AttachmentsInit == A!Init => AttachmentsInv
    <1> SUFFICES ASSUME A!Init PROVE AttachmentsInv
        OBVIOUS
    <1>1. AttachmentTypes
        BY NoRowIs, AttachmentBounds DEF A!Init, AttachmentTypes, RowTables
    <1>2. PostgresInv
        BY AttachmentBounds DEF A!Init, PostgresInv, A!NoRow, A!Ids
    <1>3. \A r \in Reqs : call[r].at = "idle"
        BY DEF A!Init, A!Idle
    <1>4. Kept(rows)
        BY NoRowIs, AttachmentBounds DEF A!Init, Kept, KeptAt
    <1>5. Kept(copy.rows)
        BY NoRowIs DEF A!Init, Kept, KeptAt
    <1> QED BY <1>1, <1>2, <1>3, <1>4, <1>5
            DEF AttachmentsInv, OwnIds, CallOk, CallSteps, UploadSteps, ImportSteps

\* A step of one call: what it touches under the ids J is its own or of a
\* deleted attachment, and the table it notes is the current one.
Frame(r, J) ==
    /\ UNCHANGED <<backend, legacy, copy>>
    /\ seq <= seq' /\ uploads <= uploads' /\ removed \subseteq removed'
    /\ \A i \in A!Ids \ J : /\ rows'[i] = rows[i] /\ body'[i] = body[i] /\ thumb'[i] = thumb[i]
                            /\ answered'[i] = answered[i]
    /\ \A j \in J \ removed' : \A q \in Reqs \ {r} : call[q].at \in UploadSteps => call[q].id # j
    /\ \A q \in Reqs \ {r} : call'[q] = call[q]
    /\ call'[r].at \in ImportSteps =>
         \/ call'[r].rows = rows'
         \/ call[r].at \in ImportSteps /\ call'[r].rows = call[r].rows

\* A table some call or copy holds.
Noted(T) ==
    \/ T = copy.rows
    \/ \E r \in Reqs : call[r].at \in ImportSteps /\ T = call[r].rows

LEMMA NotedIs ==
    ASSUME AttachmentsInv, NEW T, Noted(T)
    PROVE  /\ T \in RowTables /\ Kept(T)
           /\ \A i \in A!Ids : NoFlag(i) => ~T[i].thumb
           /\ backend = "postgres" => \/ T = copy.rows
                                      \/ 1 \in A!Ids \ removed => T[1].c = 1
    BY DEF AttachmentsInv, AttachmentTypes, Noted, CallOk, ImportShape, NoFlag, UploadSteps, ImportSteps

LEMMA KeptStays ==
    ASSUME NEW r, NEW J, Frame(r, J), NEW T, Kept(T), \A j \in J \ removed' : KeptAt(T, j)'
    PROVE  Kept(T)'
    BY DEF Frame, Kept, KeptAt

LEMMA NoFlagStays ==
    ASSUME NEW r \in Reqs, NEW J, Frame(r, J), NEW i \in A!Ids, NoFlag(i),
           i \in J => ~rows'[i].thumb
    PROVE  NoFlag(i)'
    <1>1. ~rows'[i].thumb /\ ~copy'.rows[i].thumb
        BY DEF Frame, NoFlag
    <1>2. ASSUME NEW q \in Reqs, call'[q].at \in ImportSteps PROVE ~call'[q].rows[i].thumb
        <2>1. CASE q = r
            BY <1>1, <1>2, <2>1 DEF Frame, NoFlag
        <2>2. CASE q # r
            BY <1>2, <2>2 DEF Frame, NoFlag
        <2> QED BY <2>1, <2>2
    <1> QED BY <1>1, <1>2 DEF NoFlag

\* What the calls next to the one that steps rely on stays true.
LEMMA OthersStay ==
    ASSUME AttachmentsInv, NEW r \in Reqs, NEW J, Frame(r, J), AttachmentTypes',
           \A T : Noted(T) => \A j \in J \ removed' : KeptAt(T, j)'
    PROVE  /\ \A T : Noted(T) => Kept(T)'
           /\ \A q \in Reqs \ {r} : CallOk(call[q])'
    <1>1. ASSUME NEW T, Noted(T) PROVE Kept(T)'
        BY <1>1, NotedIs, KeptStays
    <1>2. ASSUME NEW q \in Reqs \ {r} PROVE CallOk(call[q])'
        <2> DEFINE s == call[q]
        <2>1. CallOk(s) /\ call'[q] = s
            BY DEF AttachmentsInv, Frame
        <2>2. ASSUME s.at \in UploadSteps PROVE UploadOk(s)'
            <3>1. UploadOk(s)
                BY <2>1, <2>2 DEF CallOk
            <3>2. s'.id = s.id /\ s.id \in J => s.id \in removed'
                BY <2>1, <2>2, <3>1 DEF Frame
            <3>3. /\ seq \in Nat /\ seq' \in Nat /\ uploads \in Nat /\ uploads' \in Nat
                  /\ seq <= seq' /\ uploads <= uploads' /\ backend' = backend
                BY AttachmentBounds DEF Frame, AttachmentTypes, AttachmentsInv
            <3>4. /\ s.id \in A!Ids /\ s.id <= seq' /\ s.c \in 1..uploads'
                BY <3>1, <3>3, AttachmentBounds DEF UploadOk, A!Ids
            <3>5. ASSUME s.id \notin removed'
                  PROVE  /\ s.id \notin removed /\ s.id \notin J
                         /\ rows'[s.id] = rows[s.id] /\ body'[s.id] = body[s.id]
                         /\ thumb'[s.id] = thumb[s.id]
                         /\ NoFlag(s.id) => NoFlag(s.id)'
                BY <2>1, <3>1, <3>2, <3>5, NoFlagStays DEF Frame, UploadOk
            <3> QED BY <2>1, <3>1, <3>3, <3>4, <3>5 DEF UploadOk
        <2>3. ASSUME s.at \in {"row", "body", "rest"} PROVE DeleteOk(s)'
            BY <2>1, <2>3 DEF CallOk, DeleteOk, Frame
        <2>4. ASSUME s.at \in ImportSteps PROVE ImportShape(s)' /\ Kept(s.rows)'
            <3>1. ImportShape(s) /\ Noted(s.rows)
                BY <2>1, <2>4 DEF CallOk, Noted
            <3>2. \A T : T = s.rows => Kept(T)'
                BY <3>1, <1>1
            <3> QED BY <2>1, <3>1, <3>2 DEF ImportShape, Frame, Kept, KeptAt
        <2> QED BY <2>1, <2>2, <2>3, <2>4 DEF CallOk
    <1> QED BY <1>1, <1>2

\* What a step has to show of itself: the types, what it did under J, and
\* what its own call carries now.
LEMMA StepIsEnough ==
    ASSUME AttachmentsInv, NEW r \in Reqs, NEW J \in SUBSET A!Ids, Frame(r, J), AttachmentTypes',
           \A T : Noted(T) => \A j \in J \ removed' : KeptAt(T, j)',
           \A j \in J \ removed' : KeptAt(rows, j)',
           1 \in J \ removed' => PostgresInv',
           call'[r].at \in CallSteps,
           call'[r].at \in UploadSteps =>
               /\ UploadOk(call[r])'
               /\ \/ call[r].at \in UploadSteps /\ call'[r].id = call[r].id
                  \/ call'[r].id = seq + 1,
           call'[r].at \in {"row", "body", "rest"} => DeleteOk(call[r])',
           call'[r].at \in ImportSteps => ImportShape(call[r])'
    PROVE  AttachmentsInv'
    <1>1. Kept(rows)'
        BY DEF AttachmentsInv, Kept, KeptAt, Frame
    <1>2. /\ \A T : Noted(T) => Kept(T)'
          /\ \A q \in Reqs \ {r} : CallOk(call[q])'
        BY OthersStay
    <1>3. Kept(copy.rows)'
        <2>1. Noted(copy.rows)
            BY DEF Noted
        <2>2. \A T : T = copy.rows => Kept(T)'
            BY <1>2, <2>1
        <2>3. copy'.rows = copy.rows
            BY DEF Frame
        <2> QED BY <2>2, <2>3 DEF Kept, KeptAt
    <1>4. PostgresInv'
        <2>1. CASE 1 \in J \ removed'
            BY <2>1
        <2>2. CASE 1 \notin J \ removed'
            BY <2>2, AttachmentBounds DEF AttachmentsInv, AttachmentTypes, PostgresInv, Frame
        <2> QED BY <2>1, <2>2
    <1>5. CallOk(call[r])'
        <2>1. ASSUME call'[r].at \in ImportSteps PROVE Kept(call[r].rows)'
            <3>1. CASE call'[r].rows = rows'
                BY <1>1, <3>1 DEF Kept, KeptAt
            <3>2. CASE call[r].at \in ImportSteps /\ call'[r].rows = call[r].rows
                <4>1. Noted(call[r].rows)
                    BY <3>2 DEF Noted
                <4>2. \A T : T = call[r].rows => Kept(T)'
                    BY <1>2, <4>1
                <4> QED BY <3>2, <4>2 DEF Kept, KeptAt
            <3> QED BY <2>1, <3>1, <3>2 DEF Frame
        <2> QED BY <2>1 DEF CallOk
    <1>6. OwnIds'
        <2> SUFFICES ASSUME NEW a \in Reqs, NEW b \in Reqs, a # b,
                            call'[a].at \in UploadSteps, call'[b].at \in UploadSteps
                     PROVE  call'[a].id # call'[b].id
            BY DEF OwnIds
        <2>1. ASSUME NEW q \in Reqs \ {r}, call'[q].at \in UploadSteps, call'[r].at \in UploadSteps
              PROVE  call'[q].id # call'[r].id
            <3>1. call'[q] = call[q] /\ UploadOk(call[q])
                BY <2>1 DEF Frame, AttachmentsInv, CallOk
            <3>2. CASE call[r].at \in UploadSteps /\ call'[r].id = call[r].id
                BY <2>1, <3>1, <3>2 DEF AttachmentsInv, OwnIds
            <3>3. CASE call'[r].id = seq + 1
                BY <3>1, <3>3, AttachmentBounds DEF UploadOk, A!Ids, AttachmentsInv, AttachmentTypes
            <3> QED BY <2>1, <3>2, <3>3
        <2>2. CASE a = r \/ b = r
            BY <2>1, <2>2
        <2>3. CASE a # r /\ b # r
            BY <2>3 DEF Frame, AttachmentsInv, OwnIds
        <2> QED BY <2>2, <2>3
    <1> QED BY <1>1, <1>2, <1>3, <1>4, <1>5, <1>6 DEF AttachmentsInv

\* The premise of every lemma on an action.
Stepping(r) == r \in Reqs /\ AttachmentsInv

\* Steps that only move the call on.
LEMMA CallMoves ==
    ASSUME NEW r, Stepping(r), UNCHANGED <<A!worldVars, A!dbVars, A!fileVars, copy, answered, removed, uploads>>,
           NEW s, call' = [call EXCEPT ![r] = s], s.at \in CallSteps \ UploadSteps,
           s.at \in {"row", "body", "rest"} => DeleteOk(s),
           s.at \in ImportSteps =>
               /\ ImportShape(s)
               /\ \/ s.rows = rows
                  \/ call[r].at \in ImportSteps /\ s.rows = call[r].rows
    PROVE  AttachmentsInv'
    <1>1. AttachmentsInv /\ r \in Reqs /\ call'[r] = s /\ call' = [q \in Reqs |-> call'[q]]
        BY DEF Stepping, AttachmentsInv, AttachmentTypes
    <1>2. AttachmentTypes'
        BY <1>1 DEF AttachmentsInv, AttachmentTypes, A!worldVars, A!dbVars, A!fileVars
    <1>3. Frame(r, {})
        BY <1>1 DEF Frame, AttachmentsInv, AttachmentTypes, A!worldVars, A!dbVars, A!fileVars
    <1>4. call'[r].at \in {"row", "body", "rest"} => DeleteOk(call[r])'
        BY <1>1 DEF DeleteOk
    <1>5. call'[r].at \in ImportSteps => ImportShape(call[r])'
        BY <1>1 DEF ImportShape, A!worldVars
    <1> QED BY <1>1, <1>2, <1>3, <1>4, <1>5, StepIsEnough

LEMMA DeletionMoves ==
    ASSUME NEW r, Stepping(r),
           \/ \E ids : A!Delete(r, ids)
           \/ \E i \in A!Ids : A!DeleteGet(r, i)
           \/ A!Drop(r)
    PROVE  AttachmentsInv'
    <1>1. ASSUME NEW ids, A!Delete(r, ids) PROVE AttachmentsInv'
        BY <1>1, CallMoves DEF A!Delete, A!Goto, A!counters, A!history, CallSteps, UploadSteps, ImportSteps
    <1>2. ASSUME NEW i \in A!Ids, A!DeleteGet(r, i) PROVE AttachmentsInv'
        <2> DEFINE rest == call[r].ids \ {i}
                   s == [at |-> "row", ids |-> rest, id |-> i, thumb |-> rows[i].thumb]
        <2>1. s.at = "row" /\ DeleteOk(s)
            BY DEF DeleteOk
        <2>2. CASE call' = [call EXCEPT ![r] = s]
            <3> HIDE DEF s
            <3> QED BY <1>2, <2>1, <2>2, CallMoves
                    DEF A!DeleteGet, A!counters, A!history, CallSteps, UploadSteps, ImportSteps
        <2>3. CASE call' = [call EXCEPT ![r] = A!Idle]
            BY <1>2, <2>3, CallMoves
               DEF A!DeleteGet, A!Idle, A!counters, A!history, CallSteps, UploadSteps, ImportSteps
        <2>4. CASE call' = [call EXCEPT ![r] = [at |-> "next", ids |-> rest]]
            BY <1>2, <2>4, CallMoves
               DEF A!DeleteGet, A!counters, A!history, CallSteps, UploadSteps, ImportSteps
        <2> QED BY <1>2, <2>2, <2>3, <2>4 DEF A!DeleteGet, A!Goto
    <1>3. ASSUME A!Drop(r) PROVE AttachmentsInv'
        BY <1>3, CallMoves
           DEF A!Drop, A!Goto, A!Idle, A!history, CallSteps, UploadSteps, ImportSteps
    <1> QED BY <1>1, <1>2, <1>3

LEMMA ImportMoves ==
    ASSUME NEW r, Stepping(r),
           A!ImportStart(r) \/ \E i \in A!Ids : A!ImportCheck(r, i)
    PROVE  AttachmentsInv'
    <1>1. ASSUME A!ImportStart(r) PROVE AttachmentsInv'
        <2> DEFINE s == [at |-> "import", rows |-> rows, ids |-> {i \in A!Ids : rows[i] # A!NoRow}]
        <2>1. s.at = "import" /\ s.rows = rows /\ ImportShape(s)
            BY <1>1 DEF A!ImportStart, ImportShape, Stepping, AttachmentsInv, AttachmentTypes, PostgresInv
        <2>2. call' = [call EXCEPT ![r] = s]
            BY <1>1 DEF A!ImportStart, A!Goto
        <2> HIDE DEF s
        <2> QED BY <1>1, <2>1, <2>2, CallMoves
                DEF A!ImportStart, A!counters, A!history, CallSteps, UploadSteps, ImportSteps
    <1>2. ASSUME NEW i \in A!Ids, A!ImportCheck(r, i) PROVE AttachmentsInv'
        <2> DEFINE o == call[r]
                   s == [o EXCEPT !.ids = @ \ {i}]
                   c == o.rows[i].c
                   b == [at |-> "place", rows |-> o.rows, ids |-> o.ids \ {i}, id |-> i, kind |-> "body"]
                   t == [at |-> "place", rows |-> o.rows, ids |-> o.ids \ {i}, id |-> i, kind |-> "thumb"]
        <2>1. /\ o.at = "import" /\ ImportShape(o) /\ Kept(o.rows)
              /\ s = [at |-> "import", rows |-> o.rows, ids |-> o.ids \ {i}]
            <3>1. o.at = "import" /\ ImportShape(o) /\ Kept(o.rows)
                BY <1>2 DEF A!ImportCheck, A!At, Stepping, AttachmentsInv, CallOk, ImportSteps
            <3>2. o = [at |-> "import", rows |-> o.rows, ids |-> o.ids]
                BY <3>1 DEF ImportShape
            <3> HIDE DEF o
            <3>3. \A d : d = [at |-> "import", rows |-> o.rows, ids |-> o.ids] =>
                    [d EXCEPT !.ids = @ \ {i}] =
                    [at |-> "import", rows |-> o.rows, ids |-> o.ids \ {i}]
                OBVIOUS
            <3> QED BY <3>1, <3>2, <3>3
        <2>2. /\ ImportShape(s) /\ s.at = "import" /\ s.rows = o.rows /\ s.ids = o.ids \ {i}
            BY <2>1 DEF ImportShape
        <2> DEFINE p == [at |-> "place", rows |-> s.rows, ids |-> s.ids, id |-> i, kind |-> "body"]
        <2>a. call' = [call EXCEPT ![r] =
                  IF body[i] = A!NoFile /\ legacy[i] = s.rows[i].c THEN p
                  ELSE IF body[i] = A!Whole(s.rows[i].c) /\ s.rows[i].thumb /\ thumb[i] = A!NoFile
                         THEN [p EXCEPT !.kind = "thumb"]
                  ELSE IF s.ids = {} THEN A!Idle ELSE s]
            BY <1>2 DEF A!ImportCheck, A!Goto, A!Verified
        <2>b. p = b /\ [p EXCEPT !.kind = "thumb"] = t
            BY <2>2
        <2> HIDE DEF s, p
        <2>3. ASSUME i \notin removed,
                     \/ body[i] = A!NoFile /\ legacy[i] = c
                     \/ body[i] = A!Whole(c) /\ o.rows[i].thumb /\ thumb[i] = A!NoFile
              PROVE  i = 1 /\ legacy[1] = 1
            <3>1. /\ backend = "postgres" /\ KeptAt(o.rows, i) /\ c \in 0..MaxUploads
                  /\ PostgresInv /\ (i = 1 => c = 1)
                BY <2>1, <2>3 DEF ImportShape, Kept, RowTables, Stepping, AttachmentsInv
            <3>2. CASE body[i] = A!NoFile /\ legacy[i] = c
                BY <2>3, <3>1, <3>2, AttachmentBounds DEF PostgresInv, A!Foreign
            <3>3. CASE body[i] = A!Whole(c) /\ o.rows[i].thumb /\ thumb[i] = A!NoFile
                BY <2>3, <3>1, <3>3, FilesDiffer DEF PostgresInv, KeptAt
            <3> QED BY <2>3, <3>2, <3>3
        <2>4. CASE body[i] = A!NoFile /\ legacy[i] = c
            <3>1. ImportShape(b) /\ b.at = "place" /\ b.rows = o.rows
                BY <2>1, <2>3, <2>4 DEF ImportShape
            <3>2. call' = [call EXCEPT ![r] = b]
                BY <2>2, <2>4, <2>b, <2>a
            <3> HIDE DEF b
            <3> QED BY <1>2, <2>1, <3>1, <3>2, CallMoves
                    DEF A!ImportCheck, A!counters, A!history, CallSteps, UploadSteps, ImportSteps
        <2>5. CASE /\ ~(body[i] = A!NoFile /\ legacy[i] = c)
                   /\ body[i] = A!Whole(c) /\ o.rows[i].thumb /\ thumb[i] = A!NoFile
            <3>1. ImportShape(t) /\ t.at = "place" /\ t.rows = o.rows
                BY <2>1, <2>3, <2>5 DEF ImportShape
            <3>2. call' = [call EXCEPT ![r] = t]
                BY <2>2, <2>5, <2>b, <2>a
            <3> HIDE DEF t
            <3> QED BY <1>2, <2>1, <3>1, <3>2, CallMoves
                    DEF A!ImportCheck, A!counters, A!history, CallSteps, UploadSteps, ImportSteps
        <2>6. CASE /\ ~(body[i] = A!NoFile /\ legacy[i] = c)
                   /\ ~(body[i] = A!Whole(c) /\ o.rows[i].thumb /\ thumb[i] = A!NoFile)
            <3>1. \/ call' = [call EXCEPT ![r] = A!Idle]
                  \/ call' = [call EXCEPT ![r] = s]
                BY <2>2, <2>6, <2>a
            <3>2. CASE call' = [call EXCEPT ![r] = A!Idle]
                BY <1>2, <3>2, CallMoves
                   DEF A!ImportCheck, A!Idle, A!counters, A!history, CallSteps, UploadSteps, ImportSteps
            <3>3. CASE call' = [call EXCEPT ![r] = s]
                BY <1>2, <2>1, <2>2, <3>3, CallMoves
                   DEF A!ImportCheck, A!counters, A!history, CallSteps, UploadSteps, ImportSteps
            <3> QED BY <3>1, <3>2, <3>3
        <2> QED BY <2>4, <2>5, <2>6
    <1> QED BY <1>1, <1>2

\* An upload's id is its own.
LEMMA OwnIdIs ==
    ASSUME NEW r, Stepping(r), call[r].at \in UploadSteps
    PROVE  /\ UploadOk(call[r]) /\ call[r].id \in A!Ids
           /\ \A q \in Reqs \ {r} : call[q].at \in UploadSteps => call[q].id # call[r].id
           /\ backend = "postgres" => call[r].id # 1
    BY DEF Stepping, AttachmentsInv, CallOk, UploadOk, OwnIds

\* Of a body that is not whole no table has anything to keep.
LEMMA NothingToKeep ==
    ASSUME AttachmentsInv, NEW i \in A!Ids \ removed, backend = "postgres" => i # 1,
           \A c : body[i] # A!Whole(c)
    PROVE  /\ NoFlag(i)
           /\ \A T : T = rows \/ Noted(T) => T[i].c \notin answered[i] /\ ~T[i].thumb
    <1>1. ASSUME NEW T, T = rows \/ Noted(T) PROVE T[i].c \notin answered[i] /\ ~T[i].thumb
        <2>1. KeptAt(T, i)
            BY <1>1, NotedIs DEF AttachmentsInv, Kept
        <2> QED BY <2>1 DEF KeptAt
    <1>2. NoFlag(i)
        <2>1. Noted(copy.rows) /\ \A q \in Reqs : call[q].at \in ImportSteps => Noted(call[q].rows)
            BY DEF Noted
        <2> QED BY <1>1, <2>1 DEF NoFlag
    <1> QED BY <1>1, <1>2

LEMMA UploadInserted ==
    ASSUME NEW r, Stepping(r), NEW image \in BOOLEAN, A!Insert(r, image)
    PROVE  AttachmentsInv'
    <1>0. PICK j : j = seq + 1
        OBVIOUS
    <1> DEFINE s == [at |-> "create", id |-> j, c |-> uploads + 1, image |-> image]
    <1>1. /\ j \in A!Ids /\ uploads' = uploads + 1 /\ seq' = seq + 1 /\ uploads' \in 0..MaxUploads
          /\ seq \in Nat /\ uploads \in Nat /\ rows \in RowTables /\ removed' = removed
        BY <1>0, AttachmentBounds DEF A!Insert, A!Ids, A!history, Stepping, AttachmentsInv, AttachmentTypes
    <1>2. call'[r] = s /\ call' = [call EXCEPT ![r] = s]
        BY <1>0 DEF A!Insert, A!Goto, Stepping, AttachmentsInv, AttachmentTypes
    <1>3. /\ rows'[j] = [c |-> uploads', thumb |-> FALSE] /\ rows' \in RowTables
          /\ \A i \in A!Ids \ {j} : rows'[i] = rows[i]
        BY <1>0, <1>1 DEF A!Insert, RowTables
    <1>4. AttachmentTypes'
        <2>1. \A i \in A!Ids : \A c \in answered[i] : c \in 1..(uploads + 1)
            BY <1>1, AttachmentBounds DEF Stepping, AttachmentsInv, AttachmentTypes
        <2> QED BY <1>1, <1>2, <1>3, <2>1
                DEF A!Insert, A!worldVars, A!fileVars, A!history, Stepping, AttachmentsInv, AttachmentTypes
    <1>5. \A q \in Reqs \ {r} : call[q].at \in UploadSteps => call[q].id # j
        <2> SUFFICES ASSUME NEW q \in Reqs \ {r}, call[q].at \in UploadSteps PROVE call[q].id # j
            OBVIOUS
        <2>1. UploadOk(call[q])
            BY DEF Stepping, AttachmentsInv, CallOk
        <2>2. call[q].id <= seq /\ call[q].id \in Nat
            BY <2>1, AttachmentBounds DEF UploadOk, A!Ids
        <2> QED BY <1>0, <1>1, <2>2
    <1>6. Frame(r, {j})
        <2>1. seq <= seq' /\ uploads <= uploads'
            BY <1>1
        <2>2. call'[r].at \notin ImportSteps
            BY <1>2 DEF ImportSteps
        <2>3. \A q \in Reqs \ {r} : call'[q] = call[q]
            BY <1>2
        <2> QED BY <1>3, <1>5, <2>1, <2>2, <2>3
                DEF A!Insert, A!worldVars, A!fileVars, A!history, Frame
    <1>7. ASSUME j \notin removed PROVE KeptAt(rows, j)' /\ \A T : Noted(T) => KeptAt(T, j)'
        <2>1. KeptAt(rows, j)'
            BY <1>1, <1>3, AttachmentBounds
               DEF KeptAt, A!Insert, A!history, Stepping, AttachmentsInv, AttachmentTypes
        <2>2. \A T : Noted(T) => KeptAt(T, j)
            BY <1>1, <1>7, NotedIs DEF Kept, Stepping
        <2> QED BY <2>1, <2>2 DEF KeptAt, A!Insert, A!worldVars, A!fileVars, A!history
    <1>8. UploadOk(call[r])'
        <2>1. backend' = "postgres" => j # 1
            BY <1>0, <1>1 DEF A!Insert, A!worldVars, Stepping, AttachmentsInv, PostgresInv
        <2> QED BY <1>0, <1>1, <1>2, <1>3, <2>1, AttachmentBounds DEF UploadOk
    <1>9. backend = "postgres" => j # 1
        BY <1>0, <1>1 DEF Stepping, AttachmentsInv, PostgresInv
    <1>10. PostgresInv' \/ backend = "postgres"
        BY DEF PostgresInv, A!Insert, A!worldVars
    <1> QED BY <1>0, <1>1, <1>2, <1>4, <1>6, <1>7, <1>8, <1>9, <1>10, StepIsEnough
            DEF Stepping, CallSteps, UploadSteps, ImportSteps

\* A step of an upload under its own id.
UploadMove(r, i, s) ==
    /\ UNCHANGED <<A!worldVars, seq, copy, uploads, removed>>
    /\ rows' \in RowTables /\ body' = [k \in A!Ids |-> body'[k]] /\ thumb' = [k \in A!Ids |-> thumb'[k]]
    /\ answered' = [k \in A!Ids |-> answered'[k]]
    /\ \A k \in A!Ids \ {i} : /\ rows'[k] = rows[k] /\ body'[k] = body[k]
                              /\ thumb'[k] = thumb[k] /\ answered'[k] = answered[k]
    /\ answered'[i] \in {answered[i], answered[i] \cup {call[r].c}}
    /\ i \notin removed => KeptAt(rows, i)' /\ \A T : Noted(T) => KeptAt(T, i)'
    /\ call' = [call EXCEPT ![r] = s]
    /\ \/ s = A!Idle
       \/ /\ s.at \in UploadSteps /\ s = [call[r] EXCEPT !.at = s.at]
          /\ i \notin removed =>
               /\ rows'[i].c = rows[i].c
               /\ s.at = "write" => body'[i] = A!Part(s.c)
               /\ s.at \in {"thumb", "flag", "answer"} => body'[i] = A!Whole(s.c)
               /\ s.at = "flag" => thumb'[i] = A!Whole(s.c)
               /\ s.at \in {"write", "thumb", "flag"} => NoFlag(i) /\ ~rows'[i].thumb

LEMMA UploadMoves ==
    ASSUME NEW r, Stepping(r), call[r].at \in UploadSteps, NEW i, i = call[r].id,
           NEW s, UploadMove(r, i, s)
    PROVE  AttachmentsInv'
    <1> USE DEF UploadMove
    <1>1. /\ AttachmentsInv /\ r \in Reqs /\ call'[r] = s /\ call' = [q \in Reqs |-> call'[q]]
          /\ \A q \in Reqs \ {r} : call'[q] = call[q]
        BY DEF Stepping, AttachmentsInv, AttachmentTypes
    <1>2. /\ UploadOk(call[r]) /\ i \in A!Ids /\ (backend = "postgres" => i # 1)
          /\ \A q \in Reqs \ {r} : call[q].at \in UploadSteps => call[q].id # i
        BY OwnIdIs
    <1>3. \A k \in A!Ids : \A c \in answered'[k] : c \in 1..uploads
        <2> TAKE k \in A!Ids
        <2>1. \A c \in answered[k] : c \in 1..uploads
            BY <1>1 DEF AttachmentsInv, AttachmentTypes
        <2>2. call[r].c \in 1..uploads
            BY <1>2 DEF UploadOk
        <2> QED BY <2>1, <2>2
    <1>4. AttachmentTypes'
        BY <1>1, <1>3 DEF AttachmentsInv, AttachmentTypes, A!worldVars
    <1>5. s.at \notin ImportSteps /\ s.at \in CallSteps /\ s.at \notin {"row", "body", "rest"}
        BY DEF A!Idle, CallSteps, UploadSteps, ImportSteps
    <1>6. Frame(r, {i})
        <2>1. seq <= seq /\ uploads <= uploads
            BY <1>1, AttachmentBounds DEF AttachmentsInv, AttachmentTypes
        <2> QED BY <1>1, <1>2, <1>5, <2>1 DEF Frame, A!worldVars
    <1>7. ASSUME s.at \in UploadSteps PROVE UploadOk(s)' /\ s.id = call[r].id
        <2>1. s = [call[r] EXCEPT !.at = s.at] /\ s.at # "idle"
            BY <1>7 DEF A!Idle, UploadSteps
        <2>2. /\ s = [at |-> s.at, id |-> s.id, c |-> s.c, image |-> s.image]
              /\ s.id = i /\ s.c = call[r].c
            <3>1. call[r] = [at |-> call[r].at, id |-> call[r].id, c |-> call[r].c, image |-> call[r].image]
                BY <1>2 DEF UploadOk
            <3>2. [call[r] EXCEPT !.at = s.at] =
                    [at |-> s.at, id |-> call[r].id, c |-> call[r].c, image |-> call[r].image]
                BY <3>1
            <3> QED BY <2>1, <3>2
        <2>3. s.id \notin removed' /\ s.at \in {"write", "thumb", "flag"} => NoFlag(s.id)'
            BY <1>1, <1>2, <1>6, <1>7, <2>1, <2>2, NoFlagStays DEF A!Idle
        <2> QED BY <1>2, <1>7, <2>1, <2>2, <2>3 DEF UploadOk, A!worldVars, A!Idle
    <1>8. UploadOk(s)' /\ s.at \in UploadSteps => UploadOk(call[r])'
        BY <1>1 DEF UploadOk
    <1> QED BY <1>1, <1>2, <1>4, <1>5, <1>6, <1>7, <1>8, StepIsEnough
            DEF A!worldVars, PostgresInv

LEMMA BodySteps ==
    ASSUME NEW r, Stepping(r), A!CreateBody(r) \/ A!WriteBody(r)
    PROVE  AttachmentsInv'
    <1>1. PICK i : i = call[r].id
        OBVIOUS
    <1>2. call[r].at \in {"create", "write"} /\ call[r].at \in UploadSteps
        BY DEF A!CreateBody, A!WriteBody, A!At, UploadSteps
    <1>3. AttachmentsInv /\ UploadOk(call[r]) /\ i \in A!Ids /\ (backend = "postgres" => i # 1)
        BY <1>1, <1>2, OwnIdIs DEF Stepping
    <1>4. PICK s : /\ call' = [call EXCEPT ![r] = s] /\ s = [call[r] EXCEPT !.at = s.at]
                   /\ \/ /\ call[r].at = "create" /\ s.at = "write" /\ body[i] = A!NoFile
                         /\ body' = [body EXCEPT ![i] = A!Part(call[r].c)]
                      \/ s.at = "undo" /\ body' = body
                      \/ /\ call[r].at = "write" /\ s.at \in {"thumb", "answer"}
                         /\ body' = [body EXCEPT ![i] = A!Whole(call[r].c)]
                      \/ /\ call[r].at = "write" /\ s.at = "undo"
                         /\ \E left : body' = [body EXCEPT ![i] = left]
        <2> DEFINE s(pc) == [call[r] EXCEPT !.at = pc]
        <2>1. \A pc : s(pc).at = pc /\ s(pc) = [call[r] EXCEPT !.at = s(pc).at]
            BY <1>3 DEF UploadOk
        <2>2. CASE A!CreateBody(r)
            <3>1. \/ /\ body[i] = A!NoFile /\ call' = [call EXCEPT ![r] = s("write")]
                     /\ body' = [body EXCEPT ![i] = A!Part(call[r].c)]
                  \/ call' = [call EXCEPT ![r] = s("undo")] /\ body' = body
                BY <1>1, <2>2 DEF A!CreateBody, A!Goto, A!MayCreate
            <3>2. call[r].at = "create"
                BY <2>2 DEF A!CreateBody, A!At
            <3> HIDE DEF s
            <3> QED BY <2>1, <3>1, <3>2
        <2>3. CASE A!WriteBody(r)
            <3>1. \/ /\ \E pc \in {"thumb", "answer"} : call' = [call EXCEPT ![r] = s(pc)]
                     /\ body' = [body EXCEPT ![i] = A!Whole(call[r].c)]
                  \/ /\ call' = [call EXCEPT ![r] = s("undo")]
                     /\ \E left : body' = [body EXCEPT ![i] = left]
                BY <1>1, <2>3 DEF A!WriteBody, A!Goto
            <3>2. call[r].at = "write"
                BY <2>3 DEF A!WriteBody, A!At
            <3> HIDE DEF s
            <3> QED BY <2>1, <3>1, <3>2
        <2> QED BY <2>2, <2>3
    <1>5. UNCHANGED <<A!worldVars, A!dbVars, thumb, copy, uploads, A!history>>
        BY DEF A!CreateBody, A!WriteBody
    <1>6. s.c = call[r].c
        BY <1>3, <1>4 DEF UploadOk
    <1>7. /\ body' = [k \in A!Ids |-> body'[k]]
          /\ \A k \in A!Ids \ {i} : body'[k] = body[k]
        <2>1. \A left : \A b : b = [body EXCEPT ![i] = left] =>
                /\ b = [k \in A!Ids |-> b[k]]
                /\ \A k \in A!Ids \ {i} : b[k] = body[k]
            BY <1>3 DEF AttachmentsInv, AttachmentTypes
        <2>2. body = [k \in A!Ids |-> body[k]]
            BY <1>3 DEF AttachmentsInv, AttachmentTypes
        <2> QED BY <1>4, <2>1, <2>2
    <1>8. /\ s.at = "write" => body'[i] = A!Part(s.c)
          /\ s.at \in {"thumb", "flag", "answer"} => body'[i] = A!Whole(s.c)
          /\ s.at \in {"undo", "write", "thumb", "answer"}
        BY <1>3, <1>4, <1>6 DEF AttachmentsInv, AttachmentTypes
    <1>9. ASSUME i \notin removed, body' # body \/ s.at # "undo"
          PROVE  /\ NoFlag(i)
                 /\ \A T : T = rows \/ Noted(T) => T[i].c \notin answered[i] /\ ~T[i].thumb
        <2>1. body[i] = A!NoFile \/ body[i] = A!Part(call[r].c)
            BY <1>1, <1>2, <1>3, <1>4, <1>9 DEF UploadOk
        <2>2. \A c : body[i] # A!Whole(c)
            BY <2>1, FilesDiffer
        <2> QED BY <1>3, <1>9, <2>2, NothingToKeep
    <1>10. ASSUME i \notin removed PROVE KeptAt(rows, i)' /\ \A T : Noted(T) => KeptAt(T, i)'
        <2>1. CASE body' = body
            <3>1. \A T : T = rows \/ Noted(T) => KeptAt(T, i)
                BY <1>3, <1>10, NotedIs DEF AttachmentsInv, Kept
            <3> QED BY <1>5, <2>1, <3>1 DEF KeptAt, A!worldVars, A!dbVars, A!history
        <2>2. CASE body' # body
            BY <1>5, <1>9, <1>10, <2>2 DEF KeptAt, A!dbVars, A!history
        <2> QED BY <2>1, <2>2
    <1>11. i \notin removed /\ s.at \in {"write", "thumb", "flag"} => NoFlag(i) /\ ~rows'[i].thumb
        BY <1>5, <1>9 DEF NoFlag, A!dbVars
    <1>12. s.at \in UploadSteps
        BY <1>8 DEF UploadSteps
    <1>13. rows \in RowTables /\ thumb = [k \in A!Ids |-> thumb[k]] /\ answered = [k \in A!Ids |-> answered[k]]
        BY <1>3 DEF AttachmentsInv, AttachmentTypes
    <1>14. UploadMove(r, i, s)
        <2>1. s.at \in UploadSteps /\ s = [call[r] EXCEPT !.at = s.at] /\ rows'[i].c = rows[i].c
              /\ s.at # "flag"
            BY <1>4, <1>5, <1>8, <1>12 DEF A!dbVars
        <2> QED BY <1>4, <1>5, <1>7, <1>8, <1>10, <1>11, <1>13, <2>1 DEF UploadMove, A!dbVars, A!history
    <1> QED BY <1>1, <1>2, <1>14, UploadMoves

LEMMA UndoStep ==
    ASSUME NEW r, Stepping(r), A!Undo(r)
    PROVE  AttachmentsInv'
    <1>1. PICK i : i = call[r].id
        OBVIOUS
    <1>2. call[r].at \in UploadSteps
        BY DEF A!Undo, A!At, UploadSteps
    <1>3. AttachmentsInv /\ i \in A!Ids
        BY <1>1, <1>2, OwnIdIs DEF Stepping
    <1>4. /\ call' = [call EXCEPT ![r] = A!Idle]
          /\ UNCHANGED <<A!worldVars, seq, A!fileVars, copy, uploads, A!history>>
          /\ rows' \in {rows, [rows EXCEPT ![i] = A!NoRow]}
        BY <1>1 DEF A!Undo, A!Goto
    <1>5. /\ rows' \in RowTables /\ \A k \in A!Ids \ {i} : rows'[k] = rows[k]
          /\ rows'[i] \in {rows[i], A!NoRow}
        BY <1>3, <1>4, NoRowIs DEF AttachmentsInv, AttachmentTypes, RowTables
    <1>6. ASSUME i \notin removed PROVE KeptAt(rows, i)' /\ \A T : Noted(T) => KeptAt(T, i)'
        <2>1. \A T : T = rows \/ Noted(T) => KeptAt(T, i)
            BY <1>3, <1>6, NotedIs DEF AttachmentsInv, Kept
        <2>2. 0 \notin answered[i]
            BY <1>3, AttachmentBounds DEF AttachmentsInv, AttachmentTypes
        <2> QED BY <1>4, <1>5, <2>1, <2>2, NoRowIs DEF KeptAt, A!worldVars, A!fileVars, A!history
    <1>7. /\ body = [k \in A!Ids |-> body[k]] /\ thumb = [k \in A!Ids |-> thumb[k]]
          /\ answered = [k \in A!Ids |-> answered[k]]
        BY <1>3 DEF AttachmentsInv, AttachmentTypes
    <1>8. UploadMove(r, i, A!Idle)
        BY <1>4, <1>5, <1>6, <1>7 DEF UploadMove, A!fileVars, A!history
    <1> QED BY <1>1, <1>2, <1>8, UploadMoves

LEMMA ThumbnailSteps ==
    ASSUME NEW r, Stepping(r), A!WriteThumbnail(r) \/ A!FlagThumbnail(r)
    PROVE  AttachmentsInv'
    <1>1. PICK i : i = call[r].id
        OBVIOUS
    <1>2. call[r].at \in {"thumb", "flag"} /\ call[r].at \in UploadSteps
        BY DEF A!WriteThumbnail, A!FlagThumbnail, A!At, UploadSteps
    <1>3. AttachmentsInv /\ UploadOk(call[r]) /\ i \in A!Ids /\ (backend = "postgres" => i # 1)
        BY <1>1, <1>2, OwnIdIs DEF Stepping
    <1>4. PICK s : /\ call' = [call EXCEPT ![r] = s] /\ s = [call[r] EXCEPT !.at = s.at]
                   /\ \/ /\ call[r].at = "thumb" /\ s.at = "flag" /\ rows' = rows
                         /\ thumb' = [thumb EXCEPT ![i] = A!Whole(call[r].c)]
                      \/ /\ s.at = "answer" /\ rows' = rows
                         /\ thumb' = thumb \/ \E left : thumb' = [thumb EXCEPT ![i] = left]
                      \/ /\ call[r].at = "flag" /\ s.at = "answer" /\ thumb' = thumb
                         /\ rows' = [rows EXCEPT ![i].thumb = rows[i].thumb \/ rows[i] # A!NoRow]
        <2> DEFINE s(pc) == [call[r] EXCEPT !.at = pc]
        <2>1. \A pc : s(pc).at = pc /\ s(pc) = [call[r] EXCEPT !.at = s(pc).at]
            BY <1>3 DEF UploadOk
        <2>2. CASE A!WriteThumbnail(r)
            <3>1. \/ /\ call' = [call EXCEPT ![r] = s("flag")]
                     /\ thumb' = [thumb EXCEPT ![i] = A!Whole(call[r].c)]
                  \/ /\ call' = [call EXCEPT ![r] = s("answer")]
                     /\ thumb' \in {thumb, [thumb EXCEPT ![i] = A!Part(call[r].c)]}
                BY <1>1, <2>2 DEF A!WriteThumbnail, A!Goto
            <3>2. call[r].at = "thumb" /\ rows' = rows
                BY <2>2 DEF A!WriteThumbnail, A!At, A!dbVars
            <3> HIDE DEF s
            <3> QED BY <2>1, <3>1, <3>2
        <2>3. CASE A!FlagThumbnail(r)
            <3>1. /\ call' = [call EXCEPT ![r] = s("answer")] /\ call[r].at = "flag"
                  /\ \/ /\ thumb' = thumb
                        /\ rows' = [rows EXCEPT ![i].thumb = rows[i].thumb \/ rows[i] # A!NoRow]
                     \/ rows' = rows /\ \E left : thumb' = [thumb EXCEPT ![i] = left]
                BY <1>1, <2>3 DEF A!FlagThumbnail, A!Goto, A!At
            <3> HIDE DEF s
            <3> QED BY <2>1, <3>1
        <2> QED BY <2>2, <2>3
    <1>5. UNCHANGED <<A!worldVars, seq, body, copy, uploads, A!history>>
        BY DEF A!WriteThumbnail, A!FlagThumbnail, A!dbVars
    <1>6. s.c = call[r].c
        BY <1>3, <1>4 DEF UploadOk
    <1>7. /\ thumb' = [k \in A!Ids |-> thumb'[k]]
          /\ \A k \in A!Ids \ {i} : thumb'[k] = thumb[k]
        <2>1. \A left : \A b : b = [thumb EXCEPT ![i] = left] =>
                /\ b = [k \in A!Ids |-> b[k]]
                /\ \A k \in A!Ids \ {i} : b[k] = thumb[k]
            BY <1>3 DEF AttachmentsInv, AttachmentTypes
        <2>2. thumb = [k \in A!Ids |-> thumb[k]]
            BY <1>3 DEF AttachmentsInv, AttachmentTypes
        <2> QED BY <1>4, <2>1, <2>2
    <1>8. /\ rows' \in RowTables /\ rows'[i].c = rows[i].c /\ \A k \in A!Ids \ {i} : rows'[k] = rows[k]
          /\ rows' # rows => call[r].at = "flag" /\ thumb' = thumb
        <2>1. rows \in RowTables
            BY <1>3 DEF AttachmentsInv, AttachmentTypes
        <2>2. CASE rows' = rows
            BY <2>1, <2>2
        <2>3. CASE /\ call[r].at = "flag" /\ thumb' = thumb
                   /\ rows' = [rows EXCEPT ![i].thumb = rows[i].thumb \/ rows[i] # A!NoRow]
            <3>1. PICK b \in BOOLEAN : b = (rows[i].thumb \/ rows[i] # A!NoRow)
                BY <1>3, <2>1 DEF RowTables
            <3>2. rows' = [rows EXCEPT ![i].thumb = b]
                BY <2>3, <3>1
            <3> QED BY <1>3, <2>1, <2>3, <3>2 DEF RowTables
        <2> QED BY <1>4, <2>2, <2>3
    <1>9. /\ s.at \in {"flag", "answer"} /\ s.at \in UploadSteps
          /\ s.at = "flag" => thumb'[i] = A!Whole(s.c)
        BY <1>2, <1>3, <1>4, <1>6 DEF UploadSteps, AttachmentsInv, AttachmentTypes
    <1>10. ASSUME i \notin removed
           PROVE  /\ KeptAt(rows, i)' /\ \A T : Noted(T) => KeptAt(T, i)'
                  /\ body'[i] = A!Whole(s.c)
                  /\ s.at = "flag" => NoFlag(i) /\ ~rows'[i].thumb
        <2>1. \A T : T = rows \/ Noted(T) => KeptAt(T, i)
            BY <1>3, <1>10, NotedIs DEF AttachmentsInv, Kept
        <2>2. /\ body[i] = A!Whole(s.c) /\ NoFlag(i) /\ rows[i].c = s.c /\ ~rows[i].thumb
              /\ call[r].at = "flag" => thumb[i] = A!Whole(s.c)
            BY <1>1, <1>2, <1>3, <1>6, <1>10 DEF UploadOk, NoFlag
        <2>3. \A T : Noted(T) => ~T[i].thumb
            BY <1>3, <2>2, NotedIs
        <2>4. KeptAt(rows, i)'
            BY <1>5, <1>8, <2>1, <2>2 DEF KeptAt, A!worldVars, A!history
        <2>5. \A T : Noted(T) => KeptAt(T, i)'
            BY <1>5, <2>1, <2>3 DEF KeptAt, A!worldVars, A!history
        <2>6. s.at = "flag" => ~rows'[i].thumb
            BY <1>4, <2>2
        <2> QED BY <1>5, <2>2, <2>4, <2>5, <2>6
    <1>11. /\ body = [k \in A!Ids |-> body[k]] /\ answered = [k \in A!Ids |-> answered[k]]
        BY <1>3 DEF AttachmentsInv, AttachmentTypes
    <1>12. UploadMove(r, i, s)
        <2>1. s = [call[r] EXCEPT !.at = s.at] /\ s.at # "write"
            BY <1>4, <1>9
        <2> QED BY <1>4, <1>5, <1>7, <1>8, <1>9, <1>10, <1>11, <2>1 DEF UploadMove, A!history
    <1> QED BY <1>1, <1>2, <1>12, UploadMoves

LEMMA AnswerStep ==
    ASSUME NEW r, Stepping(r), A!Answer(r)
    PROVE  AttachmentsInv'
    <1>1. PICK i : i = call[r].id
        OBVIOUS
    <1>2. call[r].at = "answer" /\ call[r].at \in UploadSteps
        BY DEF A!Answer, A!At, UploadSteps
    <1>3. AttachmentsInv /\ UploadOk(call[r]) /\ i \in A!Ids
        BY <1>1, <1>2, OwnIdIs DEF Stepping
    <1>4. /\ call' = [call EXCEPT ![r] = A!Idle]
          /\ UNCHANGED <<A!worldVars, A!dbVars, A!fileVars, copy, uploads, removed>>
          /\ answered' = [answered EXCEPT ![i] = @ \cup {call[r].c}]
        BY <1>1 DEF A!Answer, A!Goto, A!counters
    <1>5. /\ answered' = [k \in A!Ids |-> answered'[k]]
          /\ \A k \in A!Ids \ {i} : answered'[k] = answered[k]
          /\ answered'[i] = answered[i] \cup {call[r].c}
        BY <1>3, <1>4 DEF AttachmentsInv, AttachmentTypes
    <1>6. ASSUME i \notin removed PROVE KeptAt(rows, i)' /\ \A T : Noted(T) => KeptAt(T, i)'
        <2>1. \A T : T = rows \/ Noted(T) => KeptAt(T, i)
            BY <1>3, <1>6, NotedIs DEF AttachmentsInv, Kept
        <2>2. body[i] = A!Whole(call[r].c)
            BY <1>1, <1>2, <1>3, <1>6 DEF UploadOk
        <2> QED BY <1>4, <1>5, <2>1, <2>2 DEF KeptAt, A!worldVars, A!fileVars, A!dbVars
    <1>7. /\ body = [k \in A!Ids |-> body[k]] /\ thumb = [k \in A!Ids |-> thumb[k]] /\ rows \in RowTables
        BY <1>3 DEF AttachmentsInv, AttachmentTypes
    <1>8. UploadMove(r, i, A!Idle)
        BY <1>4, <1>5, <1>6, <1>7 DEF UploadMove, A!fileVars, A!dbVars
    <1> QED BY <1>1, <1>2, <1>8, UploadMoves

\* A step of a deletion that took the row.
LEMMA DeleteSteps ==
    ASSUME NEW r, Stepping(r), A!DeleteRow(r) \/ A!DeleteBody(r) \/ A!DeleteThumbnail(r)
    PROVE  AttachmentsInv'
    <1>1. PICK i : i = call[r].id
        OBVIOUS
    <1>2. call[r].at \in {"row", "body", "rest"}
        BY DEF A!DeleteRow, A!DeleteBody, A!DeleteThumbnail, A!At
    <1>3. AttachmentsInv /\ r \in Reqs /\ DeleteOk(call[r]) /\ i \in A!Ids
        BY <1>1, <1>2 DEF Stepping, AttachmentsInv, CallOk, DeleteOk
    <1>4. /\ UNCHANGED <<A!worldVars, seq, copy, uploads, answered>>
          /\ removed' \in {removed, removed \cup {i}}
          /\ rows' = rows \/ rows' = [rows EXCEPT ![i] = A!NoRow]
          /\ body' = body \/ body' = [body EXCEPT ![i] = A!NoFile]
          /\ thumb' = thumb \/ thumb' = [thumb EXCEPT ![i] = A!NoFile]
          /\ \/ i \in removed'
             \/ UNCHANGED <<rows, A!fileVars>>
        BY <1>1, <1>2, <1>3 DEF A!DeleteRow, A!DeleteBody, A!DeleteThumbnail, A!At, A!counters,
           A!dbVars, A!fileVars, A!history, DeleteOk
    <1>5. PICK s : /\ call' = [call EXCEPT ![r] = s]
                   /\ \/ s.at \in {"idle", "next"}
                      \/ s.at = "body" /\ i \in removed' /\ s = [call[r] EXCEPT !.at = "body"]
                      \/ s.at = "rest" /\ i \in removed' /\ s = [call[r] EXCEPT !.at = "rest"]
        <2> DEFINE s(pc) == [call[r] EXCEPT !.at = pc]
                   n == [at |-> "next", ids |-> call[r].ids]
        <2>1. A!Idle.at = "idle" /\ n.at = "next" /\ \A pc : s(pc).at = pc
            BY <1>3 DEF A!Idle, DeleteOk
        <2>2. CASE A!Continue(r)
            <3>1. call' = [call EXCEPT ![r] = A!Idle] \/ call' = [call EXCEPT ![r] = n]
                BY <2>2 DEF A!Continue, A!Goto
            <3> HIDE DEF n
            <3> QED BY <2>1, <3>1
        <2>3. CASE call' = [call EXCEPT ![r] = s("body")] /\ i \in removed'
            BY <2>1, <2>3
        <2>4. CASE call' = [call EXCEPT ![r] = s("rest")] /\ i \in removed'
            BY <2>1, <2>4
        <2>5. \/ A!Continue(r)
              \/ i \in removed' /\ \E pc \in {"body", "rest"} : call' = [call EXCEPT ![r] = s(pc)]
            BY <1>1, <1>2, <1>3, <1>4
               DEF A!DeleteRow, A!DeleteBody, A!DeleteThumbnail, A!Goto, A!At, A!history, DeleteOk
        <2> QED BY <2>2, <2>3, <2>4, <2>5
    <1>6. /\ call'[r] = s /\ call' = [q \in Reqs |-> call'[q]]
          /\ \A q \in Reqs \ {r} : call'[q] = call[q]
        BY <1>3, <1>5 DEF AttachmentsInv, AttachmentTypes
    <1>7. /\ rows' \in RowTables
          /\ body' = [k \in A!Ids |-> body'[k]] /\ thumb' = [k \in A!Ids |-> thumb'[k]]
          /\ \A k \in A!Ids \ {i} : rows'[k] = rows[k] /\ body'[k] = body[k] /\ thumb'[k] = thumb[k]
        <2>1. rows' \in RowTables /\ \A k \in A!Ids \ {i} : rows'[k] = rows[k]
            BY <1>3, <1>4, NoRowIs DEF AttachmentsInv, AttachmentTypes, RowTables
        <2>2. body' = [k \in A!Ids |-> body'[k]] /\ \A k \in A!Ids \ {i} : body'[k] = body[k]
            BY <1>3, <1>4 DEF AttachmentsInv, AttachmentTypes
        <2>3. thumb' = [k \in A!Ids |-> thumb'[k]] /\ \A k \in A!Ids \ {i} : thumb'[k] = thumb[k]
            BY <1>3, <1>4 DEF AttachmentsInv, AttachmentTypes
        <2> QED BY <2>1, <2>2, <2>3
    <1>8. AttachmentTypes'
        BY <1>3, <1>4, <1>6, <1>7 DEF AttachmentsInv, AttachmentTypes, A!worldVars
    <1>9. s.at \notin ImportSteps /\ s.at \in CallSteps \ UploadSteps
        BY <1>5 DEF CallSteps, UploadSteps, ImportSteps
    <1>10. seq <= seq /\ uploads <= uploads
        BY <1>3, AttachmentBounds DEF AttachmentsInv, AttachmentTypes
    <1>11. s.at \in {"row", "body", "rest"} => DeleteOk(call[r])'
        <2>1. call[r] = [at |-> call[r].at, ids |-> call[r].ids, id |-> i, thumb |-> call[r].thumb]
            BY <1>1, <1>3 DEF DeleteOk
        <2>2. \A pc : [call[r] EXCEPT !.at = pc] =
                        [at |-> pc, ids |-> call[r].ids, id |-> i, thumb |-> call[r].thumb]
            BY <2>1
        <2>3. s.at \in {"row", "body", "rest"} =>
                /\ s = [at |-> s.at, ids |-> s.ids, id |-> s.id, thumb |-> s.thumb]
                /\ s.id = i /\ i \in removed'
            BY <1>5, <2>2
        <2> QED BY <1>3, <1>6, <2>3 DEF DeleteOk
    <1>12. CASE i \in removed'
        <2>1. Frame(r, {i})
            BY <1>3, <1>4, <1>6, <1>7, <1>9, <1>10, <1>12 DEF Frame, A!worldVars
        <2> QED BY <1>3, <1>6, <1>8, <1>9, <1>11, <1>12, <2>1, StepIsEnough
    <1>13. CASE UNCHANGED <<rows, A!fileVars>>
        <2>1. Frame(r, {})
            BY <1>3, <1>4, <1>6, <1>7, <1>9, <1>10, <1>13 DEF Frame, A!worldVars, A!fileVars
        <2> QED BY <1>3, <1>6, <1>8, <1>9, <1>11, <2>1, StepIsEnough
    <1> QED BY <1>4, <1>12, <1>13

LEMMA ImportPlaceStep ==
    ASSUME NEW r, Stepping(r), A!ImportPlace(r)
    PROVE  AttachmentsInv'
    <1>1. PICK i : i = call[r].id
        OBVIOUS
    <1> DEFINE o == call[r]
    <1>2. call[r].at = "place"
        BY DEF A!ImportPlace, A!At
    <1>3. /\ AttachmentsInv /\ r \in Reqs /\ ImportShape(o) /\ Kept(o.rows) /\ i \in A!Ids
          /\ o = [at |-> "place", rows |-> o.rows, ids |-> o.ids, id |-> i, kind |-> o.kind]
          /\ i \notin removed => i = 1 /\ legacy[1] = 1
        BY <1>1, <1>2 DEF Stepping, AttachmentsInv, CallOk, ImportShape, ImportSteps
    <1>4. /\ UNCHANGED <<A!worldVars, A!dbVars, copy, uploads, A!history>>
          /\ \/ body' = body
             \/ body' = [body EXCEPT ![i] = IF @ = A!NoFile THEN A!Whole(legacy[i]) ELSE @]
          /\ \/ thumb' = thumb
             \/ thumb' = [thumb EXCEPT ![i] = IF @ = A!NoFile THEN A!Whole(legacy[i]) ELSE @]
        BY <1>1 DEF A!ImportPlace, A!fileVars
    <1>5. PICK s : /\ call' = [call EXCEPT ![r] = s]
                   /\ \/ s = A!Idle
                      \/ s = [at |-> "import", rows |-> o.rows, ids |-> o.ids]
                      \/ s = [o EXCEPT !.kind = "thumb"]
        BY DEF A!ImportPlace, A!Goto
    <1>6. /\ call'[r] = s /\ call' = [q \in Reqs |-> call'[q]]
          /\ \A q \in Reqs \ {r} : call'[q] = call[q]
        BY <1>3, <1>5 DEF AttachmentsInv, AttachmentTypes
    <1>7. /\ body' = [k \in A!Ids |-> body'[k]] /\ thumb' = [k \in A!Ids |-> thumb'[k]]
          /\ \A k \in A!Ids \ {i} : body'[k] = body[k] /\ thumb'[k] = thumb[k]
          /\ body'[i] \in {body[i], IF body[i] = A!NoFile THEN A!Whole(legacy[i]) ELSE body[i]}
          /\ thumb'[i] \in {thumb[i], IF thumb[i] = A!NoFile THEN A!Whole(legacy[i]) ELSE thumb[i]}
        BY <1>3, <1>4 DEF AttachmentsInv, AttachmentTypes
    <1>8. AttachmentTypes'
        BY <1>3, <1>4, <1>6, <1>7 DEF AttachmentsInv, AttachmentTypes, A!worldVars, A!dbVars, A!history
    <1>9. \/ s.at = "idle"
          \/ /\ s.at \in ImportSteps /\ s.rows = o.rows
             /\ s.at = "import" => s = [at |-> s.at, rows |-> s.rows, ids |-> s.ids]
             /\ s.at = "place" =>
                  /\ s = [at |-> s.at, rows |-> s.rows, ids |-> s.ids, id |-> s.id, kind |-> s.kind]
                  /\ s.id = i
        <2>1. CASE s = [o EXCEPT !.kind = "thumb"]
            <3>1. s = [at |-> "place", rows |-> o.rows, ids |-> o.ids, id |-> i, kind |-> "thumb"]
                BY <1>3, <2>1
            <3> QED BY <3>1 DEF ImportSteps
        <2> QED BY <1>5, <2>1 DEF A!Idle, ImportSteps
    <1>10. /\ s.at \in CallSteps /\ s.at \notin UploadSteps /\ s.at \notin {"row", "body", "rest"}
        BY <1>9 DEF CallSteps, UploadSteps, ImportSteps
    <1>11. s.at \in ImportSteps => ImportShape(call[r])'
        BY <1>3, <1>4, <1>6, <1>9 DEF ImportShape, A!worldVars, A!history, ImportSteps
    <1>12. Frame(r, {i})
        <2>1. seq <= seq /\ uploads <= uploads
            BY <1>3, AttachmentBounds DEF AttachmentsInv, AttachmentTypes
        <2>2. i \notin removed => \A q \in Reqs : call[q].at \in UploadSteps => call[q].id # i
            BY <1>3 DEF AttachmentsInv, CallOk, UploadOk, ImportShape
        <2>3. s.at \in ImportSteps => s.rows = call[r].rows /\ call[r].at \in ImportSteps
            BY <1>2, <1>9 DEF ImportSteps
        <2> QED BY <1>4, <1>6, <1>7, <2>1, <2>2, <2>3
                DEF Frame, A!worldVars, A!dbVars, A!history
    <1>13. ASSUME i \notin removed
           PROVE  /\ PostgresInv'
                  /\ \A T : T = rows \/ Noted(T) => KeptAt(T, i)'
        <2>1. /\ backend = "postgres" /\ PostgresInv /\ i = 1 /\ legacy[1] = 1
              /\ {body[1], thumb[1]} \subseteq {A!NoFile, A!Whole(1)} /\ rows[1].c = 1
            BY <1>3, <1>13 DEF ImportShape, AttachmentsInv, PostgresInv
        <2>2. {body'[1], thumb'[1]} \subseteq {A!NoFile, A!Whole(1)}
            BY <1>7, <2>1
        <2>3. PostgresInv'
            BY <1>4, <2>1, <2>2 DEF PostgresInv, A!worldVars, A!dbVars, A!history
        <2>4. ASSUME NEW T, T = rows \/ Noted(T) PROVE KeptAt(T, i)'
            <3>1. T[1].c = 1 \/ T[1].c \notin answered[1]
                <4>1. 0 \notin answered[1]
                    BY <1>3, <2>1, AttachmentBounds DEF AttachmentsInv, AttachmentTypes
                <4> QED BY <1>3, <1>13, <2>1, <2>4, <4>1, NotedIs, NoRowIs DEF PostgresInv
            <3> QED BY <1>4, <2>1, <2>2, <3>1 DEF KeptAt, A!worldVars, A!history
        <2> QED BY <2>3, <2>4
    <1>14. i \notin removed => KeptAt(rows, i)' /\ \A T : Noted(T) => KeptAt(T, i)'
        <2>1. rows' = rows
            BY <1>4 DEF A!dbVars
        <2> QED BY <1>13, <2>1 DEF KeptAt
    <1> QED BY <1>3, <1>4, <1>6, <1>8, <1>10, <1>11, <1>12, <1>13, <1>14, StepIsEnough DEF A!history

\* A backup, or the start that puts one back: the older directory is of
\* PostgreSQL and the copies are of SQLite.
LEMMA CopySteps ==
    ASSUME AttachmentsInv, A!SaveCopy \/ A!Restore
    PROVE  AttachmentsInv'
    <1>1. AttachmentTypes /\ backend = "sqlite" /\ backend' = backend
        BY DEF A!SaveCopy, A!Restore, A!worldVars, AttachmentsInv
    <1>2. CASE A!SaveCopy
        <2>1. /\ UNCHANGED <<A!worldVars, A!dbVars, A!fileVars, call, uploads, A!history>>
              /\ copy' = [rows |-> rows, seq |-> seq]
            BY <1>2 DEF A!SaveCopy, A!counters
        <2>2. AttachmentTypes'
            BY <1>1, <2>1 DEF AttachmentTypes, A!worldVars, A!dbVars, A!fileVars, A!history
        <2>3. Kept(rows)'
            BY <2>1 DEF AttachmentsInv, Kept, KeptAt, A!worldVars, A!dbVars, A!fileVars, A!history
        <2>4. Kept(copy.rows)'
            BY <2>1 DEF AttachmentsInv, Kept, KeptAt, A!worldVars, A!dbVars, A!fileVars, A!history
        <2>5. ASSUME NEW q \in Reqs PROVE CallOk(call[q])'
            <3>1. CallOk(call[q]) /\ call'[q] = call[q] /\ call[q].at \notin ImportSteps
                BY <1>1, <2>1 DEF AttachmentsInv, CallOk, ImportShape
            <3>2. \A i : NoFlag(i) => NoFlag(i)'
                BY <2>1 DEF NoFlag, A!dbVars
            <3>3. UploadOk(call[q]) => UploadOk(call[q])'
                BY <2>1, <3>2 DEF UploadOk, A!worldVars, A!dbVars, A!fileVars, A!history
            <3>4. DeleteOk(call[q]) => DeleteOk(call[q])'
                BY <2>1 DEF DeleteOk, A!history
            <3> QED BY <3>1, <3>3, <3>4 DEF CallOk
        <2>6. OwnIds' /\ PostgresInv'
            BY <1>1, <2>1 DEF AttachmentsInv, OwnIds, PostgresInv
        <2> QED BY <2>2, <2>3, <2>4, <2>5, <2>6 DEF AttachmentsInv
    <1>3. CASE A!Restore
        <2>1. /\ UNCHANGED <<A!worldVars, A!fileVars, uploads, A!history>>
              /\ rows' = copy.rows /\ seq' = copy.seq
              /\ copy' = [rows |-> rows, seq |-> seq] /\ call' = [r \in Reqs |-> A!Idle]
            BY <1>3 DEF A!Restore
        <2>2. AttachmentTypes'
            BY <1>1, <2>1 DEF AttachmentTypes, A!worldVars, A!fileVars, A!history
        <2>3. Kept(rows)'
            BY <2>1 DEF AttachmentsInv, Kept, KeptAt, A!worldVars, A!fileVars, A!history
        <2>4. Kept(copy.rows)'
            BY <2>1 DEF AttachmentsInv, Kept, KeptAt, A!worldVars, A!fileVars, A!history
        <2>5. \A q \in Reqs : call'[q].at = "idle"
            BY <2>1 DEF A!Idle
        <2>6. OwnIds' /\ PostgresInv' /\ \A q \in Reqs : CallOk(call[q])'
            BY <1>1, <2>5 DEF OwnIds, PostgresInv, CallOk, CallSteps, UploadSteps, ImportSteps
        <2> QED BY <2>2, <2>3, <2>4, <2>6 DEF AttachmentsInv
    <1> QED BY <1>2, <1>3

LEMMA AttachmentsNext ==
    ASSUME AttachmentsInv, A!Next \/ UNCHANGED attachmentVars
    PROVE  AttachmentsInv'
    <1>1. ASSUME NEW r \in Reqs, A!Next,
                 \/ \E image \in BOOLEAN : A!Insert(r, image)
                 \/ A!CreateBody(r) \/ A!WriteBody(r) \/ A!Undo(r)
                 \/ A!WriteThumbnail(r) \/ A!FlagThumbnail(r) \/ A!Answer(r)
                 \/ \E i \in A!Ids : A!Delete(r, {i}) \/ A!DeleteGet(r, i) \/ A!ImportCheck(r, i)
                 \/ A!Delete(r, {i \in A!Ids : rows[i] # A!NoRow})
                 \/ A!DeleteRow(r) \/ A!DeleteBody(r) \/ A!DeleteThumbnail(r)
                 \/ A!ImportStart(r) \/ A!ImportPlace(r) \/ A!Drop(r)
          PROVE  AttachmentsInv'
        <2>1. Stepping(r)
            BY DEF Stepping
        <2> QED BY <1>1, <2>1, UploadInserted, BodySteps, UndoStep, ThumbnailSteps, AnswerStep,
                   DeletionMoves, DeleteSteps, ImportMoves, ImportPlaceStep
    <1>2. CASE UNCHANGED attachmentVars
        <2>1. AttachmentTypes' /\ PostgresInv' /\ OwnIds' /\ Kept(rows)' /\ Kept(copy.rows)'
            BY <1>2 DEF attachmentVars, AttachmentsInv, AttachmentTypes, PostgresInv, OwnIds, Kept, KeptAt
        <2>2. ASSUME NEW q \in Reqs PROVE CallOk(call[q])'
            BY <1>2 DEF attachmentVars, AttachmentsInv, CallOk, UploadOk, DeleteOk, ImportShape,
                        NoFlag, Kept, KeptAt
        <2> QED BY <2>1, <2>2 DEF AttachmentsInv
    <1> QED BY <1>1, <1>2, CopySteps DEF A!Next

LEMMA AttachmentsSound == AttachmentsInv => A!AttachmentKeepsItsBody
    <1> SUFFICES ASSUME AttachmentsInv, NEW i \in A!Ids \ removed, rows[i].c \in answered[i]
                 PROVE  /\ \/ body[i] = A!Whole(rows[i].c)
                           \/ backend = "postgres" /\ i = 1 /\ body[i] = A!NoFile
                        /\ rows[i].thumb /\ thumb[i] # A!NoFile => thumb[i] = A!Whole(rows[i].c)
        BY DEF A!AttachmentKeepsItsBody
    <1>1. KeptAt(rows, i) /\ PostgresInv
        BY DEF AttachmentsInv, Kept
    <1> QED BY <1>1 DEF KeptAt, PostgresInv

-----------------------------------------------------------------------------
(* Placement: whatever the disk.                                           *)

Less == {p \in Nat \X Nat : p[1] < p[2]}

LEMMA LeastOf ==
    ASSUME NEW T \in SUBSET Nat, T # {}
    PROVE  \E x \in T : \A y \in T : x <= y
    <1>1. OpToRel(<, Nat) = Less
        BY DEF OpToRel, Less
    <1>2. IsWellFoundedOn(Less, Nat)
        BY <1>1, NatLessThanWellFounded
    <1>3. PICK x \in T : \A y \in T : <<y, x>> \notin Less
        BY <1>2, WFMin
    <1>4. \A y \in T : x <= y
        <2> TAKE y \in T
        <2>1. x \in Nat /\ y \in Nat /\ <<y, x>> \notin Less
            BY <1>3
        <2>2. y < x => <<y, x>> \in Less
            BY <2>1 DEF Less
        <2> QED BY <2>1, <2>2
    <1> QED BY <1>3, <1>4

\* A disk: paths are sequences of elements, and a handle's final path is final.
DiskOK(E) ==
    /\ {HelperName, MainName} \subseteq E /\ exe \in Seq(E)
    /\ disk.knownFolders \in Seq(Seq(E))
    /\ \A path \in Seq(E) : /\ P!FinalPath(path) \in Seq(E)
                            /\ P!FinalPath(P!FinalPath(path)) = P!FinalPath(path)

\* Two paths in one folder are inside the same folders, above the same ones.
LEMMA Siblings ==
    ASSUME NEW E, NEW p \in Seq(E), NEW q \in Seq(E), P!HasParent(p), P!HasParent(q),
           P!Parent(p) = P!Parent(q)
    PROVE  /\ Len(p) = Len(q) /\ p[1] = q[1]
           /\ \A n \in 0 .. Len(p) - 1 : SubSeq(p, 1, n) = SubSeq(q, 1, n)
           /\ \A dir \in Seq(E) : P!IsStrictlyInside(p, dir) <=> P!IsStrictlyInside(q, dir)
    <1> DEFINE a == Len(p)
               b == Len(q)
    <1>1. a \in Nat /\ b \in Nat /\ a > 1 /\ b > 1
        BY DEF P!HasParent
    <1>2. Len(P!Parent(p)) = a - 1 /\ Len(P!Parent(q)) = b - 1
        BY <1>1, SubSeqProperties DEF P!Parent
    <1>3. a = b
        BY <1>1, <1>2
    <1>4. \A n \in 0 .. a - 1 : SubSeq(p, 1, n) = SubSeq(q, 1, n)
        <2> TAKE n \in 0 .. a - 1
        <2>1. SubSeq(P!Parent(p), 1, n) = SubSeq(p, 1, n)
            BY <1>1, SubSeqOfSubSeq DEF P!Parent
        <2>2. SubSeq(P!Parent(q), 1, n) = SubSeq(q, 1, n)
            BY <1>1, <1>3, SubSeqOfSubSeq DEF P!Parent
        <2> QED BY <2>1, <2>2
    <1>5. p[1] = q[1]
        BY <1>1, <1>3 DEF P!Parent
    <1>6. ASSUME NEW dir \in Seq(E) PROVE P!IsStrictlyInside(p, dir) <=> P!IsStrictlyInside(q, dir)
        <2>1. Len(dir) \in Nat
            OBVIOUS
        <2>2. CASE Len(dir) < a
            <3>1. SubSeq(p, 1, Len(dir)) = SubSeq(q, 1, Len(dir))
                <4>1. Len(dir) \in 0 .. a - 1
                    BY <1>1, <2>1, <2>2
                <4> HIDE DEF a
                <4> QED BY <1>4, <4>1
            <3>2. Len(p) = Len(q)
                BY <1>3
            <3> QED BY <3>1, <3>2 DEF P!IsStrictlyInside
        <2>3. CASE ~(Len(dir) < a)
            BY <1>1, <1>3, <2>1, <2>3 DEF P!IsStrictlyInside
        <2> QED BY <2>2, <2>3
    <1> QED BY <1>3, <1>4, <1>5, <1>6

LEMMA PathIs ==
    ASSUME NEW E, NEW p \in Seq(E), P!HasParent(p)
    PROVE  /\ P!Parent(p) \in Seq(E) /\ P!Parent(p) # <<>>
           /\ p = Append(P!Parent(p), P!FileName(p))
    <1>1. Len(p) \in Nat /\ Len(p) > 1 /\ P!Parent(p) = SubSeq(p, 1, Len(p) - 1)
        BY DEF P!HasParent, P!Parent
    <1>2. /\ P!Parent(p) \in Seq(E) /\ Len(P!Parent(p)) = Len(p) - 1
          /\ \A i \in 1 .. Len(p) - 1 : P!Parent(p)[i] = p[i]
        BY <1>1, SubSeqProperties
    <1>3. P!Parent(p) # <<>>
        <2>1. \A s : s = <<>> => Len(s) = 0
            OBVIOUS
        <2>2. Len(P!Parent(p)) > 0
            BY <1>1, <1>2
        <2> QED BY <2>1, <2>2
    <1>4. p[Len(p)] \in E
        BY <1>1
    <1> DEFINE q == Append(P!Parent(p), P!FileName(p))
    <1>6. /\ q \in Seq(E) /\ Len(q) = Len(p)
          /\ \A i \in 1 .. Len(p) - 1 : q[i] = p[i]
          /\ q[Len(p)] = p[Len(p)]
        BY <1>1, <1>2, <1>4, AppendProperties DEF P!FileName
    <1>7. \A i \in 1 .. Len(p) : q[i] = p[i]
        BY <1>1, <1>6
    <1> QED BY <1>2, <1>3, <1>6, <1>7
\* Who may write is told by the check, whatever it skips of a list.
LEMMA CheckedIsTrusted ==
    ASSUME NEW path, P!CheckObject(P!ObjectFacts(path))
    PROVE  /\ ~disk.objects[P!FinalPath(path)].reparse
           /\ P!OnlyTrustedMayWrite(P!FinalPath(path))
    <1> DEFINE o == disk.objects[P!FinalPath(path)]
               f == P!ObjectFacts(path)
    <1>1. /\ f.reparse = o.reparse /\ f.owner = o.owner /\ f.nullDacl = o.nullDacl
          /\ f.dacl = [i \in DOMAIN o.dacl |-> P!AceFact(o.dacl[i])]
        BY DEF P!ObjectFacts
    <1>2. ~o.reparse /\ o.owner \in Trusted /\ ~o.nullDacl
        BY <1>1 DEF P!CheckObject
    <1>3. \A i \in DOMAIN o.dacl : P!MayStay(P!AceFact(o.dacl[i]))
        BY <1>1 DEF P!CheckObject
    <1>4. ASSUME NEW sid \in Sids \ Trusted, NEW right \in WriteRights, NEW i \in DOMAIN o.dacl,
                 P!Decides(o.dacl[i], sid, right), o.dacl[i].type = "allow"
          PROVE  FALSE
        <2>1. /\ P!MayStay(P!AceFact(o.dacl[i])) /\ o.dacl[i].sid = sid
              /\ ~o.dacl[i].inheritOnly /\ right \in o.dacl[i].rights
            BY <1>3, <1>4 DEF P!Decides
        <2>2. LET a == P!AceFact(o.dacl[i])
              IN /\ a.type = "allow" /\ a.rights = o.dacl[i].rights
                 /\ a.inheritOnly = o.dacl[i].inheritOnly /\ a.sid \in {None, sid}
            BY <1>4, <2>1 DEF P!AceFact
        <2> QED BY <2>1, <2>2, NoneIsNoSid DEF P!MayStay
    <1>5. P!OnlyTrustedMayWrite(P!FinalPath(path))
        <2> SUFFICES ASSUME NEW sid \in Sids \ Trusted, NEW right \in WriteRights
                     PROVE  ~P!MayUse(o, sid, right)
            BY DEF P!OnlyTrustedMayWrite
        <2> QED BY <1>2, <1>4 DEF P!MayUse
    <1> QED BY <1>2, <1>5

\* The folder of Program Files a path is found in.
LEMMA ContainingIs ==
    ASSUME NEW E, DiskOK(E), NEW p \in Seq(E), P!Contains(P!ProgramFilesDirs, p) # {}
    PROVE  \E i \in P!Contains(P!ProgramFilesDirs, p) :
               /\ i \in DOMAIN P!ProgramFilesDirs
               /\ P!ContainingProgramFiles(p, P!ProgramFilesDirs) = P!ProgramFilesDirs[i]
               /\ P!ProgramFilesDirs[i] \in Seq(E) /\ P!IsStrictlyInside(p, P!ProgramFilesDirs[i])
    <1> DEFINE inside == P!Contains(P!ProgramFilesDirs, p)
    <1>1. /\ DOMAIN P!ProgramFilesDirs \subseteq DOMAIN disk.knownFolders
          /\ \A i \in DOMAIN P!ProgramFilesDirs : P!ProgramFilesDirs[i] = P!FinalPath(disk.knownFolders[i])
        BY DEF P!ProgramFilesDirs
    <1>2. /\ DOMAIN P!ProgramFilesDirs \subseteq Nat
          /\ \A i \in DOMAIN P!ProgramFilesDirs : P!ProgramFilesDirs[i] \in Seq(E)
        <2>1. \A i \in DOMAIN disk.knownFolders : i \in Nat /\ disk.knownFolders[i] \in Seq(E)
            BY DEF DiskOK
        <2> QED BY <1>1, <2>1 DEF DiskOK
    <1>3. /\ inside \in SUBSET Nat
          /\ \A i \in inside : i \in DOMAIN P!ProgramFilesDirs /\ P!IsStrictlyInside(p, P!ProgramFilesDirs[i])
        BY <1>2 DEF P!Contains
    <1> HIDE DEF inside
    <1>4. \E i \in inside : \A j \in inside : i <= j
        BY <1>3, LeastOf DEF inside
    <1>5. PICK i : /\ i \in inside /\ P!ContainingProgramFiles(p, P!ProgramFilesDirs) = P!ProgramFilesDirs[i]
        BY <1>4 DEF P!ContainingProgramFiles, inside
    <1> QED BY <1>2, <1>3, <1>5 DEF inside


\* An accepted place: the two exes are objects in the folder of the one that
\* runs, and one of them is the one that runs.
LEMMA AcceptedPlace ==
    ASSUME NEW E, DiskOK(E), NEW path \in Seq(E), P!Collects(path), P!CheckBelow(P!PlacementFacts(path)),
           NEW anchor, anchor = P!FinalPath(path),
           NEW h, h = P!NextTo(anchor, HelperName), NEW m, m = P!NextTo(anchor, MainName)
    PROVE  /\ {anchor, h, m} \subseteq Seq(E) /\ anchor \in {h, m}
           /\ \A p \in {anchor, h, m} : P!HasParent(p) /\ P!Parent(p) = P!Parent(anchor)
           /\ \A p \in {anchor, h, m} :
                P!FinalPath(p) = p /\ P!Exists(p) /\ P!Readable(p) /\ P!IsPlain(p)
           /\ P!FileName(h) = HelperName /\ P!FileName(m) = MainName
           /\ P!PlacementFacts(path).helper = P!ObjectFacts(h) /\ P!ObjectFacts(h).path = h
           /\ P!PlacementFacts(path).main = P!ObjectFacts(m) /\ P!ObjectFacts(m).path = m
           /\ P!Contains(P!ProgramFilesDirs, h) # {}
           /\ \A p \in {anchor, h, m} :
                P!Contains(P!ProgramFilesDirs, p) = P!Contains(P!ProgramFilesDirs, h)
    <1> DEFINE facts == P!PlacementFacts(path)
    <1>1. /\ anchor \in Seq(E) /\ P!HasParent(anchor) /\ P!Readable(path)
          /\ P!FinalPath(anchor) = anchor
          /\ P!Exists(h) => P!Readable(h)
          /\ P!Exists(m) => P!Readable(m)
        BY DEF P!Collects, DiskOK
    <1>2. /\ facts.helper = P!FactsOrNone(h) /\ facts.main = P!FactsOrNone(m)
          /\ facts.anchor = anchor /\ facts.programFiles = P!ProgramFilesDirs
        BY DEF P!PlacementFacts
    <1>3. /\ facts.helper # None /\ facts.main # None
          /\ P!FileName(facts.helper.path) = HelperName /\ P!FileName(facts.main.path) = MainName
          /\ facts.anchor \in {facts.helper.path, facts.main.path}
          /\ P!HasParent(facts.helper.path) /\ P!HasParent(facts.main.path)
          /\ P!Parent(facts.helper.path) = P!Parent(facts.main.path)
          /\ P!Contains(facts.programFiles, facts.helper.path) # {}
        BY DEF P!CheckBelow, P!AnchorIsChecked
    <1>4. /\ P!Exists(h) /\ facts.helper = P!ObjectFacts(h) /\ facts.helper.path = P!FinalPath(h)
          /\ P!Exists(m) /\ facts.main = P!ObjectFacts(m) /\ facts.main.path = P!FinalPath(m)
        BY <1>2, <1>3 DEF P!FactsOrNone, P!ObjectFacts
    <1>5. P!Parent(anchor) \in Seq(E) /\ h \in Seq(E) /\ m \in Seq(E)
        BY <1>1, PathIs DEF P!NextTo, DiskOK
    <1>6. P!FinalPath(h) \in Seq(E) /\ P!FinalPath(m) \in Seq(E)
        BY <1>5 DEF DiskOK
    <1>7. P!Parent(P!FinalPath(h)) = P!Parent(anchor) /\ P!Parent(P!FinalPath(m)) = P!Parent(anchor)
        BY <1>2, <1>3, <1>4
    <1>8. P!FinalPath(h) = h /\ P!FinalPath(m) = m
        BY <1>3, <1>4, <1>6, <1>7, PathIs DEF P!NextTo
    <1>9. /\ anchor \in {h, m} /\ P!FileName(h) = HelperName /\ P!FileName(m) = MainName
          /\ \A p \in {anchor, h, m} : P!HasParent(p) /\ P!Parent(p) = P!Parent(anchor)
        BY <1>1, <1>2, <1>3, <1>4, <1>7, <1>8
    <1>10. \A p \in {anchor, h, m} :
             P!FinalPath(p) = p /\ P!Exists(p) /\ P!Readable(p) /\ P!IsPlain(p)
        BY <1>1, <1>4, <1>8, <1>9 DEF P!Readable
    <1>11. \A p \in {anchor, h, m} :
             P!Contains(P!ProgramFilesDirs, p) = P!Contains(P!ProgramFilesDirs, h)
        <2> TAKE p \in {anchor, h, m}
        <2>1. \A dir \in Seq(E) : P!IsStrictlyInside(p, dir) <=> P!IsStrictlyInside(h, dir)
            BY <1>1, <1>5, <1>9, Siblings
        <2>2. \A i \in DOMAIN P!ProgramFilesDirs : P!ProgramFilesDirs[i] \in Seq(E)
            BY DEF P!ProgramFilesDirs, DiskOK
        <2> QED BY <2>1, <2>2 DEF P!Contains
    <1> QED BY <1>1, <1>2, <1>3, <1>4, <1>5, <1>8, <1>9, <1>10, <1>11

\* The folders checked are those above either of the two.
LEMMA CheckedFolders ==
    ASSUME NEW E, DiskOK(E), NEW p \in Seq(E), NEW q \in Seq(E), P!HasParent(p), P!HasParent(q),
           P!Parent(p) = P!Parent(q),
           P!Contains(P!ProgramFilesDirs, p) # {},
           P!Contains(P!ProgramFilesDirs, q) = P!Contains(P!ProgramFilesDirs, p)
    PROVE  /\ P!Folders(q) = P!Folders(p)
           /\ P!Folders(p) =
                P!FolderChain(p, P!ContainingProgramFiles(p, P!ProgramFilesDirs))
           /\ P!ContainingProgramFiles(q, P!ProgramFilesDirs) =
                P!ContainingProgramFiles(p, P!ProgramFilesDirs)
    <1> DEFINE dir == P!ContainingProgramFiles(p, P!ProgramFilesDirs)
    <1>1. dir \in Seq(E) /\ P!IsStrictlyInside(p, dir)
        BY ContainingIs
    <1>2. P!ContainingProgramFiles(q, P!ProgramFilesDirs) = dir
        BY DEF P!ContainingProgramFiles
    <1>3. P!Folders(p) = P!FolderChain(p, dir) /\ P!Folders(q) = P!FolderChain(q, dir)
        BY <1>2 DEF P!Folders
    <1>4. P!FolderChain(q, dir) = P!FolderChain(p, dir)
        <2> HIDE DEF dir
        <2>1. Len(p) = Len(q) /\ Len(p) \in Nat /\ Len(dir) \in Nat
            BY <1>1, Siblings
        <2>2. \A i \in 1 .. (Len(p) - Len(dir)) : SubSeq(p, 1, Len(p) - i) = SubSeq(q, 1, Len(q) - i)
            <3> TAKE i \in 1 .. (Len(p) - Len(dir))
            <3>1. Len(p) - i \in 0 .. Len(p) - 1
                BY <2>1
            <3>2. \A n \in 0 .. Len(p) - 1 : SubSeq(p, 1, n) = SubSeq(q, 1, n)
                BY Siblings
            <3>3. Len(q) - i = Len(p) - i
                BY <2>1
            <3> QED BY <3>1, <3>2, <3>3
        <2> QED BY <2>1, <2>2 DEF P!FolderChain
    <1> QED BY <1>2, <1>3, <1>4

LEMMA AcceptedIsTrustedAlways ==
    ASSUME NEW E, DiskOK(E)
    PROVE  P!AcceptedIsTrusted
    <1> SUFFICES ASSUME P!AppAccepts(exe)
                 PROVE  LET facts == P!PlacementFacts(exe)
                            path == facts.main.path
                        IN \E pf \in DOMAIN P!ProgramFilesDirs :
                             LET above == {SubSeq(path, 1, n) :
                                             n \in Len(P!ProgramFilesDirs[pf]) .. (Len(path) - 1)}
                             IN /\ P!IsStrictlyInside(path, P!ProgramFilesDirs[pf])
                                /\ \A p \in {facts.helper.path, path} \cup above :
                                      ~disk.objects[p].reparse /\ P!OnlyTrustedMayWrite(p)
        BY DEF P!AcceptedIsTrusted
    <1>1. PICK anchor, h, m : /\ anchor = P!FinalPath(exe) /\ h = P!NextTo(anchor, HelperName)
                              /\ m = P!NextTo(anchor, MainName)
        OBVIOUS
    <1> DEFINE facts == P!PlacementFacts(exe)
    <1>2. exe \in Seq(E) /\ P!Collects(exe) /\ P!CheckBelow(facts)
        BY DEF DiskOK, P!AppAccepts, P!CheckPlacement
    <1>3. /\ {anchor, h, m} \subseteq Seq(E)
          /\ \A p \in {anchor, h, m} : /\ P!HasParent(p) /\ P!Parent(p) = P!Parent(anchor)
                                       /\ P!FinalPath(p) = p
                                       /\ P!Contains(P!ProgramFilesDirs, p) =
                                            P!Contains(P!ProgramFilesDirs, h)
          /\ facts.helper = P!ObjectFacts(h) /\ P!ObjectFacts(h).path = h
          /\ facts.main = P!ObjectFacts(m) /\ P!ObjectFacts(m).path = m
          /\ P!Contains(P!ProgramFilesDirs, h) # {}
        BY <1>1, <1>2, AcceptedPlace
    <1>4. PICK i \in P!Contains(P!ProgramFilesDirs, h) :
              /\ i \in DOMAIN P!ProgramFilesDirs
              /\ P!ContainingProgramFiles(h, P!ProgramFilesDirs) = P!ProgramFilesDirs[i]
              /\ P!ProgramFilesDirs[i] \in Seq(E) /\ P!IsStrictlyInside(h, P!ProgramFilesDirs[i])
        BY <1>3, ContainingIs
    <1>5. PICK dir : dir = P!ProgramFilesDirs[i]
        OBVIOUS
    <1>6. /\ P!IsStrictlyInside(m, dir) /\ Len(m) = Len(h) /\ Len(m) \in Nat
          /\ Len(dir) \in Nat /\ Len(dir) < Len(m)
          /\ \A n \in 0 .. Len(m) - 1 : SubSeq(m, 1, n) = SubSeq(h, 1, n)
        <2>1. /\ Len(m) = Len(h) /\ \A n \in 0 .. Len(m) - 1 : SubSeq(m, 1, n) = SubSeq(h, 1, n)
              /\ P!IsStrictlyInside(m, dir)
            BY <1>3, <1>4, <1>5, Siblings
        <2>2. Len(m) \in Nat /\ Len(dir) \in Nat
            BY <1>3, <1>4, <1>5
        <2>3. Len(dir) < Len(m)
            BY <2>1, <2>2 DEF P!IsStrictlyInside
        <2> QED BY <2>1, <2>2, <2>3
    <1>7. P!Folders(anchor) = P!FolderChain(h, dir)
        BY <1>3, <1>4, <1>5, CheckedFolders
    <1>8. \A p \in {h, m} : ~disk.objects[p].reparse /\ P!OnlyTrustedMayWrite(p)
        <2>1. P!CheckObject(facts.helper) /\ P!CheckObject(facts.main)
            BY <1>2 DEF P!CheckBelow
        <2>2. P!FinalPath(h) = h /\ P!FinalPath(m) = m
            BY <1>3
        <2> QED BY <1>3, <2>1, <2>2, CheckedIsTrusted
    <1>9. ASSUME NEW n \in Len(dir) .. (Len(m) - 1)
          PROVE  LET p == SubSeq(m, 1, n) IN ~disk.objects[p].reparse /\ P!OnlyTrustedMayWrite(p)
        <2> DEFINE chain == P!FolderChain(h, dir)
                   k == Len(h) - n
        <2>1. n \in 0 .. Len(m) - 1 /\ k \in 1 .. (Len(h) - Len(dir)) /\ Len(h) - k = n
            BY <1>6
        <2>2. k \in DOMAIN chain /\ chain[k] = SubSeq(m, 1, n)
            <3>1. SubSeq(m, 1, n) = SubSeq(h, 1, n)
                BY <1>6, <2>1
            <3> HIDE DEF k
            <3> QED BY <2>1, <3>1 DEF P!FolderChain
        <2>3. /\ DOMAIN facts.folders = DOMAIN chain
              /\ facts.folders[k] = P!ObjectFacts(chain[k])
            BY <1>1, <1>7, <2>2 DEF P!PlacementFacts
        <2>4. P!CheckObject(facts.folders[k]) /\ chain[k] = facts.folders[k].path
            <3>1. P!ContainingProgramFiles(facts.helper.path, facts.programFiles) = dir
                BY <1>3, <1>4, <1>5 DEF P!PlacementFacts
            <3>2. chain = P!FolderChain(facts.helper.path, dir)
                BY <1>3
            <3>3. k \in DOMAIN facts.folders
                BY <2>2, <2>3
            <3> HIDE DEF facts, chain, k
            <3> QED BY <1>2, <3>1, <3>2, <3>3 DEF P!CheckBelow
        <2>5. P!FinalPath(chain[k]) = chain[k]
            BY <2>3, <2>4 DEF P!ObjectFacts
        <2>6. ~disk.objects[chain[k]].reparse /\ P!OnlyTrustedMayWrite(chain[k])
            <3> HIDE DEF chain, k
            <3>1. P!CheckObject(P!ObjectFacts(chain[k]))
                BY <2>3, <2>4
            <3> QED BY <2>5, <3>1, CheckedIsTrusted
        <2> HIDE DEF chain, k
        <2> QED BY <2>2, <2>6
    <1>10. \A path \in {SubSeq(m, 1, n) : n \in Len(dir) .. (Len(m) - 1)} :
              ~disk.objects[path].reparse /\ P!OnlyTrustedMayWrite(path)
        BY <1>9
    <1> QED BY <1>3, <1>4, <1>5, <1>6, <1>8, <1>10

LEMMA JudgesAgreeAlways ==
    ASSUME NEW E, DiskOK(E)
    PROVE  P!JudgesAgree
    <1>1. PICK anchor, h, m : /\ anchor = P!FinalPath(exe) /\ h = P!NextTo(anchor, HelperName)
                              /\ m = P!NextTo(anchor, MainName)
        OBVIOUS
    <1> DEFINE facts == P!PlacementFacts(exe)
               Place ==
                   /\ {anchor, h, m} \subseteq Seq(E) /\ anchor \in {h, m}
                   /\ \A p \in {anchor, h, m} :
                        /\ P!HasParent(p) /\ P!Parent(p) = P!Parent(anchor)
                        /\ P!FinalPath(p) = p /\ P!Exists(p) /\ P!Readable(p) /\ P!IsPlain(p)
                        /\ P!Contains(P!ProgramFilesDirs, p) = P!Contains(P!ProgramFilesDirs, h)
                   /\ P!FileName(h) = HelperName /\ P!FileName(m) = MainName
                   /\ facts.helper = P!ObjectFacts(h) /\ P!ObjectFacts(h).path = h
                   /\ facts.main = P!ObjectFacts(m) /\ P!ObjectFacts(m).path = m
                   /\ P!Contains(P!ProgramFilesDirs, h) # {}
    <1>2. P!Collects(exe) /\ P!CheckBelow(facts) => Place
        <2> SUFFICES ASSUME P!Collects(exe), P!CheckBelow(facts) PROVE Place
            OBVIOUS
        <2>1. exe \in Seq(E)
            BY DEF DiskOK
        <2> QED BY <1>1, <2>1, AcceptedPlace
    <1>3. P!Collects(exe) /\ P!CheckBelow(facts) => P!CheckPlacement(facts)
        BY <1>1, <1>2 DEF P!CheckPlacement, P!PlacementFacts
    <1>4. ASSUME P!AppAccepts(exe)
          PROVE  /\ P!HelperAccepts(facts.helper.path)
                 /\ P!PlacementFacts(facts.helper.path).main = facts.main
                 /\ P!UninstallerAccepts(P!Parent(facts.main.path))
                 /\ P!ObjectFacts(Append(P!Parent(facts.main.path), MainName)).path = facts.main.path
        <2>1. P!Collects(exe) /\ P!CheckBelow(facts) /\ Place /\ facts.helper.path = h /\ facts.main.path = m
            BY <1>2, <1>4 DEF P!AppAccepts, P!CheckPlacement
        <2>2. /\ P!NextTo(h, HelperName) = h /\ P!NextTo(h, MainName) = m
              /\ P!FinalPath(h) = h /\ P!Folders(h) = P!Folders(anchor)
            <3>1. P!NextTo(h, HelperName) = h /\ P!NextTo(h, MainName) = m
                BY <1>1, <2>1 DEF P!NextTo
            <3>2. P!Folders(h) = P!Folders(anchor)
                BY <2>1, CheckedFolders
            <3> QED BY <2>1, <3>1, <3>2
        <2>3. P!PlacementFacts(h) = [facts EXCEPT !.anchor = h]
            <3>1. facts = [anchor |-> anchor, programFiles |-> P!ProgramFilesDirs,
                           helper |-> P!FactsOrNone(h), main |-> P!FactsOrNone(m),
                           folders |-> [i \in DOMAIN P!Folders(anchor) |->
                                          P!ObjectFacts(P!Folders(anchor)[i])]]
                BY <1>1 DEF P!PlacementFacts
            <3>2. P!PlacementFacts(h) =
                    [anchor |-> h, programFiles |-> P!ProgramFilesDirs,
                     helper |-> P!FactsOrNone(h), main |-> P!FactsOrNone(m),
                     folders |-> [i \in DOMAIN P!Folders(anchor) |->
                                    P!ObjectFacts(P!Folders(anchor)[i])]]
                BY <2>2 DEF P!PlacementFacts
            <3> QED BY <3>1, <3>2
        <2>4. P!Collects(h)
            BY <1>1, <2>1, <2>2 DEF P!Collects
        <2>5. P!CheckPlacement(P!PlacementFacts(h))
            <3>1. LET other == P!PlacementFacts(h)
                  IN /\ other.anchor = h /\ other.helper = facts.helper /\ other.main = facts.main
                     /\ other.programFiles = facts.programFiles /\ other.folders = facts.folders
                BY <2>3 DEF P!PlacementFacts
            <3>2. P!CheckBelow(P!PlacementFacts(h))
                BY <2>1, <3>1 DEF P!CheckBelow, P!AnchorIsChecked
            <3> QED BY <2>1, <3>1, <3>2 DEF P!CheckPlacement, P!PlacementFacts
        <2>6. P!PlacementFacts(h).main = facts.main
            BY <2>3 DEF P!PlacementFacts
        <2>7. Append(P!Parent(m), MainName) = m
            BY <1>1, <2>1 DEF P!NextTo
        <2>8. P!IsPlain(P!Parent(m))
            <3>1. P!Parent(m) # <<>> /\ P!Parent(m)[1] = m[1]
                <4>1. m \in Seq(E) /\ Len(m) > 1
                    BY <2>1 DEF P!HasParent
                <4>2. P!Parent(m)[1] = m[1]
                    BY <4>1 DEF P!Parent
                <4> QED BY <2>1, <4>1, <4>2, PathIs
            <3> QED BY <2>1, <3>1 DEF P!IsPlain
        <2>9. P!UninstallerAccepts(P!Parent(m))
            <3>1. ~P!ObjectFacts(m).directory /\ ~P!ObjectFacts(m).reparse
                BY <2>1 DEF P!CheckBelow, P!CheckObject
            <3> QED BY <2>1, <2>7, <2>8, <3>1 DEF P!UninstallerAccepts
        <2> QED BY <2>1, <2>4, <2>5, <2>6, <2>7, <2>9 DEF P!HelperAccepts
    <1> QED BY <1>3, <1>4 DEF P!JudgesAgree

\* A junction whose target is elsewhere leads to a final path.
LEMMA JunctionIsFinal ==
    ASSUME NEW E, NEW at \in Seq(E), NEW target \in Seq(E), Len(at) > 1, Len(target) > 1,
           at[2] # target[2], disk.junctions = [path \in {at} |-> target]
    PROVE  \A path \in Seq(E) : /\ P!FinalPath(path) \in Seq(E)
                                /\ P!FinalPath(P!FinalPath(path)) = P!FinalPath(path)
    <1>1. ASSUME NEW path \in Seq(E)
          PROVE  P!FinalPath(path) = IF P!IsStrictlyInside(path, at)
                                     THEN target \o SubSeq(path, Len(at) + 1, Len(path)) ELSE path
        BY DEF P!FinalPath
    <1>2. ASSUME NEW path \in Seq(E), P!IsStrictlyInside(path, at)
          PROVE  LET final == target \o SubSeq(path, Len(at) + 1, Len(path))
                 IN final \in Seq(E) /\ ~P!IsStrictlyInside(final, at)
        <2> DEFINE rest == SubSeq(path, Len(at) + 1, Len(path))
        <2>1. rest \in Seq(E)
            <3>1. Len(at) \in Nat /\ Len(path) \in Nat /\ \A i \in Len(at) + 1 .. Len(path) : path[i] \in E
                OBVIOUS
            <3> QED BY <3>1, SubSeqProperties
        <2> HIDE DEF rest
        <2>2. /\ target \o rest \in Seq(E) /\ (target \o rest)[2] = target[2]
            BY <2>1
        <2>3. \A s \in Seq(E) : P!IsStrictlyInside(s, at) => s[2] = at[2]
            <3> SUFFICES ASSUME NEW s \in Seq(E), P!IsStrictlyInside(s, at) PROVE s[2] = at[2]
                OBVIOUS
            <3>1. SubSeq(s, 1, Len(at)) = at /\ Len(s) > Len(at) /\ Len(at) \in Nat
                BY DEF P!IsStrictlyInside
            <3>2. SubSeq(s, 1, Len(at))[2] = s[2]
                BY <3>1
            <3> QED BY <3>1, <3>2
        <2> QED BY <2>2, <2>3 DEF rest
    <1> QED BY <1>1, <1>2

\* The elements of the paths a run judges.
Elements == {"C", "Program Files", "Program Files (x86)", "App", "Tools", "Link", "net", "share",
             HelperName, MainName}

LEMMA PlacementInit ==
    ASSUME exe \in C!Started, disk \in C!Disks
    PROVE  DiskOK(Elements)
    <1> DEFINE pf == <<"C", "Program Files">>
               app == <<"C", "Program Files", "App">>
               tools == <<"C", "Tools">>
               link == <<"C", "Tools", "Link">>
    <1>1. /\ C!ProgramFiles = pf /\ C!App = app /\ C!Tools = tools /\ Append(C!Tools, "Link") = link
        <2>1. \A a, b, c : Append(<<a, b>>, c) = <<a, b, c>>
            <3> TAKE a, b, c
            <3> DEFINE U == {a, b, c}
                       s == Append(<<a, b>>, c)
            <3>1. <<a, b>> \in Seq(U) /\ c \in U /\ Len(<<a, b>>) = 2
                OBVIOUS
            <3>2. s \in Seq(U) /\ Len(s) = 3 /\ s[1] = a /\ s[2] = b /\ s[3] = c
                BY <3>1, AppendProperties
            <3> HIDE DEF s
            <3>3. <<a, b, c>> \in Seq(U) /\ Len(<<a, b, c>>) = 3
                OBVIOUS
            <3>4. \A i \in 1 .. 3 : s[i] = <<a, b, c>>[i]
                BY <3>2
            <3>5. s = <<a, b, c>>
                BY <3>2, <3>3, <3>4
            <3> QED BY <3>5 DEF s
        <2> QED BY <2>1 DEF C!ProgramFiles, C!App, C!Tools
    <1>2. /\ {pf, app, tools, link} \subseteq Seq(Elements)
          /\ {<<"C">>, <<"C", "Program Files (x86)">>, <<"net", "share">>} \subseteq Seq(Elements)
        BY DEF Elements
    <1>3. {HelperName, MainName} \subseteq Elements /\ exe \in Seq(Elements)
        <2>1. \A d \in Seq(Elements) : \A n \in Elements : Append(d, n) \in Seq(Elements)
            OBVIOUS
        <2>2. HelperName \in Elements /\ MainName \in Elements
            BY DEF Elements
        <2>3. PICK d \in {C!App, C!Tools, Append(C!Tools, "Link")}, n \in {MainName, HelperName} :
                    exe = Append(d, n)
            BY DEF C!Started
        <2>4. d \in Seq(Elements) /\ n \in Elements
            BY <1>1, <1>2, <2>2, <2>3
        <2>5. exe \in Seq(Elements)
            BY <2>1, <2>3, <2>4
        <2> QED BY <2>2, <2>5
    <1>4. PICK j \in C!Junctions : disk.junctions = j
        BY DEF C!Disks, C!Disk
    <1>5. disk.knownFolders \in Seq(Seq(Elements))
        <2>1. disk.knownFolders \in {<<>>, C!Usual, <<<<"C">>, C!ProgramFiles>>, <<C!Tools, C!ProgramFiles>>,
                                    <<<<"net", "share">>>>}
            BY DEF C!Disks, C!Disk
        <2>2. \A U : \A a, b \in U : <<a, b>> \in Seq(U) /\ <<a>> \in Seq(U) /\ <<>> \in Seq(U)
            OBVIOUS
        <2>3. /\ C!Usual = <<pf, <<"C", "Program Files (x86)">>>>
              /\ <<<<"C">>, C!ProgramFiles>> = <<<<"C">>, pf>>
              /\ <<C!Tools, C!ProgramFiles>> = <<tools, pf>>
            BY <1>1 DEF C!Usual
        <2> HIDE DEF pf, tools
        <2> QED BY <1>2, <2>1, <2>2, <2>3
    <1>6. \A path \in Seq(Elements) : /\ P!FinalPath(path) \in Seq(Elements)
                                      /\ P!FinalPath(P!FinalPath(path)) = P!FinalPath(path)
        <2>1. CASE j = <<>>
            BY <1>4, <2>1 DEF P!FinalPath
        <2>2. CASE j = [path \in {link} |-> app]
            <3>1. Len(link) > 1 /\ Len(app) > 1 /\ link[2] # app[2]
                OBVIOUS
            <3> HIDE DEF link, app
            <3> QED BY <1>2, <1>4, <2>2, <3>1, JunctionIsFinal
        <2>3. CASE j = [path \in {app} |-> tools]
            <3>1. Len(app) > 1 /\ Len(tools) > 1 /\ app[2] # tools[2]
                OBVIOUS
            <3> HIDE DEF app, tools
            <3> QED BY <1>2, <1>4, <2>3, <3>1, JunctionIsFinal
        <2> QED BY <1>1, <2>1, <2>2, <2>3 DEF C!Junctions
    <1> QED BY <1>3, <1>5, <1>6 DEF DiskOK

-----------------------------------------------------------------------------
(* Lists: recursion over data, by the least place where it would fail.     *)

\* A set of numbers with 0, and with each number the next, has them all.
LEMMA Climb ==
    ASSUME NEW N \in Nat, NEW G, 0 \in G, \A n \in 1 .. N : n - 1 \in G => n \in G
    PROVE  \A n \in 0 .. N : n \in G
    <1> DEFINE T == (0 .. N) \ G
    <1>1. SUFFICES ASSUME T # {} PROVE FALSE
        OBVIOUS
    <1>2. T \in SUBSET Nat
        OBVIOUS
    <1>3. PICK k \in T : \A y \in T : k <= y
        <2> HIDE DEF T
        <2> QED BY <1>1, <1>2, LeastOf
    <1>4. k \in 1 .. N /\ k - 1 \in 0 .. N
        BY <1>3
    <1>5. k - 1 \notin T
        <2> HIDE DEF T
        <2> QED BY <1>2, <1>3, <1>4
    <1> QED BY <1>3, <1>4, <1>5

Steps(V, a, N, step) == a \in V /\ N \in Nat /\ step \in [1 .. N -> [V -> V]]

\* A function may be defined by a first value and a step from each to the next.
LEMMA Recursion ==
    ASSUME NEW V, NEW a, NEW N, NEW step, Steps(V, a, N, step)
    PROVE  \E f \in [0 .. N -> V] : f[0] = a /\ \A n \in 1 .. N : f[n] = step[n][f[n - 1]]
    <1> DEFINE Upto(k, f) == /\ f \in [0 .. k -> V] /\ f[0] = a
                             /\ \A n \in 1 .. k : f[n] = step[n][f[n - 1]]
               G == {k \in 0 .. N : \E f : Upto(k, f)}
    <1> USE DEF Steps
    <1>1. Upto(0, [n \in 0 .. 0 |-> a])
        OBVIOUS
    <1>2. ASSUME NEW k \in 1 .. N, NEW f, Upto(k - 1, f)
          PROVE  Upto(k, [n \in 0 .. k |-> IF n = k THEN step[k][f[k - 1]] ELSE f[n]])
        <2> DEFINE g == [n \in 0 .. k |-> IF n = k THEN step[k][f[k - 1]] ELSE f[n]]
        <2>1. g \in [0 .. k -> V] /\ g[0] = a
            BY <1>2
        <2>2. \A n \in 1 .. k : g[n] = step[n][g[n - 1]]
            BY <1>2
        <2> QED BY <2>1, <2>2
    <1> HIDE DEF Upto
    <1>3. 0 \in G
        BY <1>1
    <1>4. ASSUME NEW k \in 1 .. N, k - 1 \in G PROVE k \in G
        <2>1. PICK f : Upto(k - 1, f)
            BY <1>4
        <2>2. \E g : Upto(k, g)
            BY <1>2, <2>1
        <2> QED BY <2>2
    <1>5. N \in G
        <2> HIDE DEF G
        <2>1. \A n \in 0 .. N : n \in G
            BY <1>3, <1>4, Climb
        <2> QED BY <2>1
    <1>6. PICK f : Upto(N, f)
        BY <1>5
    <1> QED BY <1>6 DEF Upto

Piece(c) == IF c \in L!Special THEN <<"\\", c>> ELSE <<c>>

\* The escaped text grows by one piece for each character.
LEMMA EscapedSoFar ==
    ASSUME NEW S, NEW raw \in Seq(S)
    PROVE  \E E \in [0 .. Len(raw) -> Seq(S \cup {"\\"})] :
               /\ L!EscapeLike(raw) = E[Len(raw)] /\ E[0] = <<>>
               /\ \A n \in 1 .. Len(raw) : E[n] = E[n - 1] \o Piece(raw[n])
    <1> DEFINE V == Seq(S \cup {"\\"})
               N == Len(raw)
               Body(E) == [n \in 0 .. Len(raw) |->
                   IF n = 0 THEN <<>>
                   ELSE E[n - 1] \o (IF raw[n] \in L!Special THEN <<"\\", raw[n]>> ELSE <<raw[n]>>)]
               E == CHOOSE E : E = Body(E)
               step == [n \in 1 .. N |-> [w \in V |-> w \o Piece(raw[n])]]
    <1>1. L!EscapeLike(raw) = E[N]
        BY DEF L!EscapeLike
    <1>2. N \in Nat /\ <<>> \in V /\ \A n \in 1 .. N : raw[n] \in S
        OBVIOUS
    <1>3. \A n \in 1 .. N : Piece(raw[n]) \in V
        <2>1. \A n \in 1 .. N : raw[n] \in S \cup {"\\"}
            BY <1>2
        <2>2. \A U : \A a, b \in U : <<a, b>> \in Seq(U) /\ <<a>> \in Seq(U)
            OBVIOUS
        <2> QED BY <2>1, <2>2 DEF Piece
    <1>4. \A w \in V, n \in 1 .. N : w \o Piece(raw[n]) \in V
        BY <1>3, ConcatProperties
    <1>5. step \in [1 .. N -> [V -> V]]
        BY <1>4
    <1>6. \E f \in [0 .. N -> V] : f[0] = <<>> /\ \A n \in 1 .. N : f[n] = step[n][f[n - 1]]
        <2>1. Steps(V, <<>>, N, step)
            BY <1>2, <1>5 DEF Steps
        <2> HIDE DEF step, V, N
        <2> QED BY <2>1, Recursion
    <1>7. PICK f \in [0 .. N -> V] : f[0] = <<>> /\ \A n \in 1 .. N : f[n] = step[n][f[n - 1]]
        <2> HIDE DEF step
        <2> QED BY <1>6
    <1>8. \A n \in 1 .. N : f[n] = f[n - 1] \o Piece(raw[n])
        <2> TAKE n \in 1 .. N
        <2>1. f[n - 1] \in V
            <3> HIDE DEF V, step
            <3> QED BY <1>2, <1>7
        <2>2. step[n][f[n - 1]] = f[n - 1] \o Piece(raw[n])
            <3> HIDE DEF V, N
            <3> QED BY <2>1
        <2> QED BY <1>7, <2>2
    <1>9. f = Body(f)
        BY <1>2, <1>7, <1>8 DEF Piece
    <1>10. E = Body(E)
        BY <1>9
    <1> HIDE DEF E
    <1>11. \A n \in 0 .. N : E[n] = IF n = 0 THEN <<>> ELSE E[n - 1] \o Piece(raw[n])
        BY <1>10 DEF Piece
    <1>12. \A n \in 0 .. N : E[n] = f[n]
        <2> DEFINE G == {n \in 0 .. N : E[n] = f[n]}
        <2>1. 0 \in G
            BY <1>2, <1>7, <1>11
        <2>2. ASSUME NEW n \in 1 .. N, n - 1 \in G PROVE n \in G
            <3>1. n \in 0 .. N /\ n # 0 /\ E[n - 1] = f[n - 1]
                BY <1>2, <2>2
            <3>2. E[n] = E[n - 1] \o Piece(raw[n])
                BY <1>11, <3>1
            <3> QED BY <1>8, <3>1, <3>2
        <2>3. \A n \in 0 .. N : n \in G
            <3> HIDE DEF G
            <3> QED BY <1>2, <2>1, <2>2, Climb
        <2> QED BY <2>3
    <1>13. E = f
        BY <1>7, <1>10, <1>12
    <1> QED BY <1>1, <1>7, <1>8, <1>13

Grows(N, E, pieces, len, wide) ==
    /\ N \in Nat /\ len \in [0 .. N -> Nat] /\ wide \in [1 .. N -> Nat]
    /\ \A n \in 1 .. N : /\ len[n] = len[n - 1] + wide[n]
                         /\ \A i \in 1 .. len[n - 1] : E[n][i] = E[n - 1][i]
                         /\ \A i \in 1 .. wide[n] : E[n][len[n - 1] + i] = pieces[n][i]

\* What grows piece by piece keeps its pieces where they were put.
LEMMA PiecesStay ==
    ASSUME NEW N, NEW E, NEW pieces, NEW len, NEW wide, Grows(N, E, pieces, len, wide)
    PROVE  \A n \in 1 .. N : /\ len[n] <= len[N]
                             /\ \A i \in 1 .. wide[n] : E[N][len[n - 1] + i] = pieces[n][i]
    <1> DEFINE Same(n) == len[n] <= len[N] /\ \A i \in 1 .. len[n] : E[N][i] = E[n][i]
               G == {n \in 0 .. N : Same(N - n)}
    <1> USE DEF Grows
    <1>1. 0 \in G
        <2>1. N - 0 = N /\ Same(N)
            OBVIOUS
        <2> QED BY <2>1
    <1>2. ASSUME NEW n \in 1 .. N, n - 1 \in G PROVE n \in G
        <2>1. PICK m \in 1 .. N : m = N - (n - 1) /\ m - 1 = N - n /\ m - 1 \in 0 .. N /\ n \in 0 .. N
            OBVIOUS
        <2>2. Same(m)
            BY <1>2, <2>1
        <2>3. /\ len[m] = len[m - 1] + wide[m]
              /\ \A i \in 1 .. len[m - 1] : E[m][i] = E[m - 1][i]
            BY <2>1
        <2>4. len[m] \in Nat /\ len[m - 1] \in Nat /\ len[N] \in Nat /\ wide[m] \in Nat
            <3>1. m \in 0 .. N /\ N \in 0 .. N
                BY <2>1
            <3> QED BY <2>1, <3>1
        <2>5. Same(m - 1)
            BY <2>2, <2>3, <2>4
        <2> QED BY <2>1, <2>5
    <1>3. \A n \in 0 .. N : n \in G
        <2> HIDE DEF G
        <2> QED BY <1>1, <1>2, Climb
    <1>4. ASSUME NEW n \in 1 .. N PROVE Same(n)
        <2>1. N - n \in 0 .. N /\ N - (N - n) = n
            OBVIOUS
        <2>2. N - n \in G
            BY <1>3, <2>1
        <2> QED BY <2>1, <2>2
    <1>5. ASSUME NEW n \in 1 .. N, NEW i \in 1 .. wide[n]
          PROVE  E[N][len[n - 1] + i] = pieces[n][i]
        <2>1. /\ len[n] = len[n - 1] + wide[n] /\ E[n][len[n - 1] + i] = pieces[n][i]
              /\ len[n - 1] \in Nat /\ wide[n] \in Nat
            OBVIOUS
        <2>2. len[n - 1] + i \in 1 .. len[n]
            BY <2>1
        <2> QED BY <1>4, <2>1, <2>2
    <1> QED BY <1>4, <1>5

\* One sequence behind the other.
LEMMA Behind ==
    ASSUME NEW S, NEW u \in Seq(S), NEW v \in Seq(S)
    PROVE  /\ u \o v \in Seq(S) /\ Len(u \o v) = Len(u) + Len(v)
           /\ \A i \in 1 .. Len(u) : (u \o v)[i] = u[i]
           /\ \A i \in 1 .. Len(v) : (u \o v)[Len(u) + i] = v[i]
    <1>1. /\ Len(u \o v) = Len(u) + Len(v) /\ Len(u) \in Nat /\ Len(v) \in Nat /\ u \o v \in Seq(S)
          /\ \A i \in 1 .. Len(u) + Len(v) :
                (u \o v)[i] = IF i <= Len(u) THEN u[i] ELSE v[i - Len(u)]
        OBVIOUS
    <1>2. ASSUME NEW i \in 1 .. Len(v) PROVE (u \o v)[Len(u) + i] = v[i]
        <2>1. Len(u) + i \in 1 .. Len(u) + Len(v) /\ ~(Len(u) + i <= Len(u)) /\ Len(u) + i - Len(u) = i
            BY <1>1
        <2> QED BY <1>1, <2>1
    <1> QED BY <1>1, <1>2

EscapedAt(raw, len) ==
    /\ len[0] = 0 /\ len[Len(raw)] = Len(L!EscapeLike(raw))
    /\ \A n \in 1 .. Len(raw) :
          /\ len[n] = len[n - 1] + Len(Piece(raw[n])) /\ len[n] <= len[Len(raw)]
          /\ \A i \in 1 .. Len(Piece(raw[n])) :
                L!EscapeLike(raw)[len[n - 1] + i] = Piece(raw[n])[i]

\* The escaped text: the pieces of its characters, one behind the other.
LEMMA EscapedText ==
    ASSUME NEW S, NEW raw \in Seq(S), "\\" \in S
    PROVE  /\ L!EscapeLike(raw) \in Seq(S)
           /\ \E len \in [0 .. Len(raw) -> Nat] : EscapedAt(raw, len)
    <1>1. S \cup {"\\"} = S
        OBVIOUS
    <1>2. PICK E \in [0 .. Len(raw) -> Seq(S)] :
              /\ L!EscapeLike(raw) = E[Len(raw)] /\ E[0] = <<>>
              /\ \A n \in 1 .. Len(raw) : E[n] = E[n - 1] \o Piece(raw[n])
        <2>1. Seq(S \cup {"\\"}) = Seq(S)
            BY <1>1
        <2>2. \E E \in [0 .. Len(raw) -> Seq(S \cup {"\\"})] :
                  /\ L!EscapeLike(raw) = E[Len(raw)] /\ E[0] = <<>>
                  /\ \A n \in 1 .. Len(raw) : E[n] = E[n - 1] \o Piece(raw[n])
            BY EscapedSoFar
        <2> QED BY <2>1, <2>2
    <1> DEFINE N == Len(raw)
               len == [n \in 0 .. N |-> Len(E[n])]
               pieces == [n \in 1 .. N |-> Piece(raw[n])]
               wide == [n \in 1 .. N |-> Len(Piece(raw[n]))]
    <1>3. N \in Nat /\ N \in 0 .. N
        OBVIOUS
    <1>4. ASSUME NEW n \in 1 .. N PROVE Piece(raw[n]) \in Seq(S) /\ Len(Piece(raw[n])) \in Nat
        <2>1. raw[n] \in S
            OBVIOUS
        <2>2. \A a, b \in S : <<a, b>> \in Seq(S) /\ <<a>> \in Seq(S)
            OBVIOUS
        <2>3. Piece(raw[n]) \in Seq(S)
            BY <2>1, <2>2 DEF Piece
        <2> QED BY <2>3
    <1>5. len \in [0 .. N -> Nat] /\ wide \in [1 .. N -> Nat]
        <2>1. \A n \in 0 .. N : Len(E[n]) \in Nat
            OBVIOUS
        <2> QED BY <1>4, <2>1
    <1>6. ASSUME NEW n \in 1 .. N
          PROVE  /\ len[n] = len[n - 1] + wide[n]
                 /\ \A i \in 1 .. len[n - 1] : E[n][i] = E[n - 1][i]
                 /\ \A i \in 1 .. wide[n] : E[n][len[n - 1] + i] = pieces[n][i]
        <2>1. n - 1 \in 0 .. N /\ n \in 0 .. N
            BY <1>3
        <2>2. PICK u \in Seq(S), v \in Seq(S) : u = E[n - 1] /\ v = Piece(raw[n]) /\ E[n] = u \o v
            BY <1>2, <1>4, <2>1
        <2>3. len[n] = Len(u \o v) /\ len[n - 1] = Len(u) /\ wide[n] = Len(v) /\ pieces[n] = v
            BY <2>1, <2>2
        <2> HIDE DEF len, wide, pieces
        <2>4. /\ Len(u \o v) = Len(u) + Len(v)
              /\ \A i \in 1 .. Len(u) : (u \o v)[i] = u[i]
              /\ \A i \in 1 .. Len(v) : (u \o v)[Len(u) + i] = v[i]
            BY Behind
        <2>5. \A i \in 1 .. len[n - 1] : E[n][i] = E[n - 1][i]
            BY <2>2, <2>3, <2>4
        <2>6. \A i \in 1 .. wide[n] : E[n][len[n - 1] + i] = pieces[n][i]
            BY <2>2, <2>3, <2>4
        <2> QED BY <2>3, <2>4, <2>5, <2>6
    <1>7. \A n \in 1 .. N : /\ len[n] <= len[N]
                            /\ \A i \in 1 .. wide[n] : E[N][len[n - 1] + i] = pieces[n][i]
        <2> HIDE DEF len, wide, pieces, N
        <2>1. Grows(N, E, pieces, len, wide)
            BY <1>3, <1>5, <1>6 DEF Grows
        <2> QED BY <2>1, PiecesStay
    <1>8. len[0] = 0 /\ len[N] = Len(E[N])
        BY <1>2, <1>3
    <1>9. \A n \in 1 .. N : pieces[n] = Piece(raw[n]) /\ wide[n] = Len(Piece(raw[n]))
        OBVIOUS
    <1> HIDE DEF len, wide, pieces
    <1>10. \A n \in 1 .. N : /\ len[n] = len[n - 1] + Len(Piece(raw[n])) /\ len[n] <= len[N]
                             /\ \A i \in 1 .. Len(Piece(raw[n])) :
                                   E[N][len[n - 1] + i] = Piece(raw[n])[i]
        BY <1>6, <1>7, <1>9
    <1>11. E[N] \in Seq(S) /\ L!EscapeLike(raw) = E[N]
        BY <1>2, <1>3
    <1>12. EscapedAt(raw, len)
        BY <1>8, <1>10, <1>11 DEF EscapedAt
    <1> QED BY <1>5, <1>11, <1>12

\* A row of the table of LIKE: where in the text the pattern from p on matches,
\* from the rows of the next places of the pattern.
RowOf(pattern, value, p, next, after) ==
    [t \in 1 .. (Len(value) + 1) |->
        IF p > Len(pattern) THEN t > Len(value)
        ELSE IF pattern[p] = "%" THEN \E u \in t .. (Len(value) + 1) : next[u]
        ELSE IF pattern[p] = "_" THEN t <= Len(value) /\ next[t + 1]
        ELSE IF pattern[p] = "\\"
        THEN p < Len(pattern) /\ t <= Len(value) /\ pattern[p + 1] = value[t] /\ after[t + 1]
        ELSE t <= Len(value) /\ pattern[p] = value[t] /\ next[t + 1]]

\* What a row has at one place of the text, by what the pattern has.
LEMMA RowPastEnd ==
    ASSUME NEW pattern, NEW value, NEW p, NEW next, NEW after, NEW t \in 1 .. (Len(value) + 1),
           p > Len(pattern)
    PROVE  RowOf(pattern, value, p, next, after)[t] <=> t > Len(value)
    BY DEF RowOf

LEMMA RowOfAny ==
    ASSUME NEW pattern, NEW value, NEW p, NEW next, NEW after, NEW t \in 1 .. (Len(value) + 1),
           ~(p > Len(pattern)), pattern[p] = "%"
    PROVE  RowOf(pattern, value, p, next, after)[t] <=> \E u \in t .. (Len(value) + 1) : next[u]
    BY DEF RowOf

LEMMA RowOfEscape ==
    ASSUME NEW pattern, NEW value, NEW p, NEW next, NEW after, NEW t \in 1 .. (Len(value) + 1),
           ~(p > Len(pattern)), pattern[p] = "\\"
    PROVE  RowOf(pattern, value, p, next, after)[t]
              <=> p < Len(pattern) /\ t <= Len(value) /\ pattern[p + 1] = value[t] /\ after[t + 1]
    BY DEF RowOf

LEMMA RowOfPlain ==
    ASSUME NEW pattern, NEW value, NEW p, NEW next, NEW after, NEW t \in 1 .. (Len(value) + 1),
           ~(p > Len(pattern)), pattern[p] \notin L!Special
    PROVE  RowOf(pattern, value, p, next, after)[t]
              <=> t <= Len(value) /\ pattern[p] = value[t] /\ next[t + 1]
    BY DEF RowOf, L!Special

LEMMA RowIsRow ==
    ASSUME NEW pattern, NEW value, NEW p, NEW next, NEW after
    PROVE  RowOf(pattern, value, p, next, after) \in [1 .. (Len(value) + 1) -> BOOLEAN]
    <1> DEFINE Cell(t) ==
            IF p > Len(pattern) THEN t > Len(value)
            ELSE IF pattern[p] = "%" THEN \E u \in t .. (Len(value) + 1) : next[u]
            ELSE IF pattern[p] = "_" THEN t <= Len(value) /\ next[t + 1]
            ELSE IF pattern[p] = "\\"
            THEN p < Len(pattern) /\ t <= Len(value) /\ pattern[p + 1] = value[t] /\ after[t + 1]
            ELSE t <= Len(value) /\ pattern[p] = value[t] /\ next[t + 1]
    <1>1. RowOf(pattern, value, p, next, after) = [t \in 1 .. (Len(value) + 1) |-> Cell(t)]
        BY DEF RowOf
    <1>2. \A t : Cell(t) \in BOOLEAN
        <2> TAKE t
        <2>1. CASE p > Len(pattern)
            BY <2>1
        <2>2. CASE ~(p > Len(pattern)) /\ pattern[p] = "%"
            BY <2>2
        <2>3. CASE ~(p > Len(pattern)) /\ pattern[p] = "_"
            BY <2>3
        <2>4. CASE ~(p > Len(pattern)) /\ pattern[p] = "\\"
            BY <2>4
        <2>5. CASE ~(p > Len(pattern)) /\ pattern[p] \notin {"%", "_", "\\"}
            BY <2>5
        <2> HIDE DEF Cell
        <2> QED BY <2>1, <2>2, <2>3, <2>4, <2>5
    <1> HIDE DEF Cell
    <1> QED BY <1>1, <1>2

\* The row of p does not look at the row after the next one but before the end.
LEMMA RowBeforeEnd ==
    ASSUME NEW pattern, NEW value, NEW p, NEW next, NEW a, NEW b, p < Len(pattern) => a = b
    PROVE  RowOf(pattern, value, p, next, a) = RowOf(pattern, value, p, next, b)
    <1>1. CASE a = b
        BY <1>1
    <1>2. CASE ~(p < Len(pattern))
        BY <1>2 DEF RowOf
    <1> QED BY <1>1, <1>2

Table(M, pattern, value) ==
    \A p \in 1 .. (Len(pattern) + 1) : M[p] = RowOf(pattern, value, p, M[p + 1], M[p + 2])

\* LIKE has such a table.
LEMMA LikeTable ==
    ASSUME NEW pattern, NEW value, Len(pattern) \in Nat, Len(value) \in Nat
    PROVE  \E M : L!Like(pattern, value) = M[1][1] /\ Table(M, pattern, value)
    <1> DEFINE size == Len(pattern)
               T == Len(value)
               Line == [1 .. (T + 1) -> BOOLEAN]
               V == Line \X Line
               Body(M) == [p \in 1 .. (size + 1) |-> [t \in 1 .. (T + 1) |->
                    IF p > size THEN t > T
                    ELSE IF pattern[p] = "%" THEN \E u \in t .. (T + 1) : M[p + 1][u]
                    ELSE IF pattern[p] = "_" THEN t <= T /\ M[p + 1][t + 1]
                    ELSE IF pattern[p] = "\\"
                    THEN p < size /\ t <= T /\ pattern[p + 1] = value[t] /\ M[p + 2][t + 1]
                    ELSE t <= T /\ pattern[p] = value[t] /\ M[p + 1][t + 1]]]
               M == CHOOSE M : M = Body(M)
    <1>1. L!Like(pattern, value) = M[1][1]
        BY DEF L!Like
    <1>2. \A F : Body(F) = [p \in 1 .. (size + 1) |-> RowOf(pattern, value, p, F[p + 1], F[p + 2])]
        BY DEF RowOf
    <1> DEFINE step == [k \in 1 .. size |-> [w \in V |->
                            <<RowOf(pattern, value, size + 1 - k, w[1], w[2]), w[1]>>]]
               last == [t \in 1 .. (T + 1) |-> t > T]
    <1> HIDE DEF Body
    <1>3. step \in [1 .. size -> [V -> V]] /\ <<last, last>> \in V
        <2>1. last \in Line
            OBVIOUS
        <2> HIDE DEF last, Line
        <2>2. \A w \in V, k \in 1 .. size :
                  <<RowOf(pattern, value, size + 1 - k, w[1], w[2]), w[1]>> \in V
            BY RowIsRow DEF Line
        <2> QED BY <2>1, <2>2
    <1>4. \E f \in [0 .. size -> V] : f[0] = <<last, last>> /\ \A k \in 1 .. size : f[k] = step[k][f[k - 1]]
        <2>1. Steps(V, <<last, last>>, size, step)
            BY <1>3 DEF Steps
        <2> HIDE DEF step, V, last, size
        <2> QED BY <2>1, Recursion
    <1>5. PICK f \in [0 .. size -> V] : f[0] = <<last, last>> /\ \A k \in 1 .. size : f[k] = step[k][f[k - 1]]
        <2> HIDE DEF step, V, last
        <2> QED BY <1>4
    <1>6. ASSUME NEW k \in 1 .. size
          PROVE  /\ f[k][1] = RowOf(pattern, value, size + 1 - k, f[k - 1][1], f[k - 1][2])
                 /\ f[k][2] = f[k - 1][1]
        <2>1. f[k - 1] \in V
            <3> HIDE DEF step, V, last
            <3> QED BY <1>5
        <2>2. step[k][f[k - 1]] =
                <<RowOf(pattern, value, size + 1 - k, f[k - 1][1], f[k - 1][2]), f[k - 1][1]>>
            <3> HIDE DEF V, last
            <3> QED BY <2>1
        <2>3. f[k] = step[k][f[k - 1]]
            <3> HIDE DEF step, V, last
            <3> QED BY <1>5
        <2> HIDE DEF step
        <2> QED BY <2>2, <2>3
    <1> DEFINE F == [p \in 1 .. (size + 1) |-> f[size + 1 - p][1]]
    <1>7. \A p \in 1 .. (size + 1) : F[p] = RowOf(pattern, value, p, F[p + 1], F[p + 2])
        <2> TAKE p \in 1 .. (size + 1)
        <2>1. CASE p = size + 1
            <3>1. F[p] = f[0][1]
                BY <2>1
            <3>2. last = RowOf(pattern, value, size + 1, F[p + 1], F[p + 2])
                <4>1. size + 1 > size
                    OBVIOUS
                <4> HIDE DEF F
                <4> QED BY <4>1 DEF RowOf
            <3>3. f[0][1] = last
                <4> HIDE DEF step, V, last
                <4> QED BY <1>5
            <3> QED BY <2>1, <3>1, <3>2, <3>3
        <2>2. CASE p # size + 1
            <3>1. PICK k \in 1 .. size : k = size + 1 - p /\ p = size + 1 - k /\ p + 1 \in 1 .. (size + 1)
                <4>1. size + 1 - p \in 1 .. size /\ p = size + 1 - (size + 1 - p) /\ p + 1 \in 1 .. (size + 1)
                    BY <2>2
                <4> QED BY <4>1
            <3>2. F[p] = f[k][1] /\ F[p + 1] = f[k - 1][1]
                BY <3>1
            <3>3. p < size => F[p + 2] = f[k - 1][2]
                <4> HAVE p < size
                <4>1. k - 1 \in 1 .. size /\ p + 2 \in 1 .. (size + 1) /\ size + 1 - (p + 2) = k - 1 - 1
                    BY <3>1
                <4>2. f[k - 1][2] = f[k - 1 - 1][1]
                    BY <1>6, <4>1
                <4> QED BY <4>1, <4>2
            <3> HIDE DEF F
            <3>4. F[p] = RowOf(pattern, value, p, F[p + 1], f[k - 1][2])
                BY <1>6, <3>1, <3>2
            <3> QED BY <3>3, <3>4, RowBeforeEnd
        <2> QED BY <2>1, <2>2
    <1>8. F = Body(F)
        BY <1>2, <1>7
    <1>9. M = Body(M)
        BY <1>8
    <1> HIDE DEF M
    <1>10. \A p \in 1 .. (size + 1) : M[p] = RowOf(pattern, value, p, M[p + 1], M[p + 2])
        BY <1>2, <1>9
    <1>11. Table(M, pattern, value)
        BY <1>10 DEF Table
    <1> QED BY <1>1, <1>11

\* A pattern that ends with a text escaped and a wildcard: character n of the
\* text is where at[n - 1] says.
Spells(pattern, raw, at) ==
    /\ at \in [0 .. Len(raw) -> 1 .. Len(pattern)] /\ at[Len(raw)] = Len(pattern)
    /\ pattern[Len(pattern)] = "%"
    /\ \A n \in 1 .. Len(raw) :
          \/ /\ raw[n] \in L!Special /\ at[n] = at[n - 1] + 2
             /\ pattern[at[n - 1]] = "\\" /\ pattern[at[n - 1] + 1] = raw[n]
          \/ /\ raw[n] \notin L!Special /\ at[n] = at[n - 1] + 1 /\ pattern[at[n - 1]] = raw[n]

\* What is left of the text after n characters is in the value from t on.
RestAt(raw, value, n, t) ==
    /\ t + (Len(raw) - n) <= Len(value) + 1
    /\ \A j \in 1 .. (Len(raw) - n) : value[t + j - 1] = raw[n + j]

\* One character of the text is one character of the value.
LEMMA OneCharacter ==
    ASSUME NEW pattern, NEW raw, NEW value, NEW M, NEW at,
           Len(pattern) \in Nat, Len(raw) \in Nat, Len(value) \in Nat,
           Table(M, pattern, value), Spells(pattern, raw, at),
           NEW n \in 1 .. Len(raw), NEW t \in 1 .. (Len(value) + 1)
    PROVE  M[at[n - 1]][t] <=> t <= Len(value) /\ value[t] = raw[n] /\ M[at[n]][t + 1]
    <1> DEFINE p == at[n - 1]
    <1>1. p \in 1 .. Len(pattern) /\ at[n] \in 1 .. Len(pattern) /\ p < at[n] /\ n - 1 \in 0 .. Len(raw)
        <2>1. n - 1 \in 0 .. Len(raw) /\ n \in 0 .. Len(raw)
            OBVIOUS
        <2>2. at[n - 1] \in 1 .. Len(pattern) /\ at[n] \in 1 .. Len(pattern)
            BY <2>1 DEF Spells
        <2>3. at[n] = at[n - 1] + 1 \/ at[n] = at[n - 1] + 2
            BY DEF Spells
        <2> QED BY <2>1, <2>2, <2>3
    <1>2. M[p] = RowOf(pattern, value, p, M[p + 1], M[p + 2])
        <2>1. p \in 1 .. (Len(pattern) + 1)
            BY <1>1
        <2> HIDE DEF p
        <2> QED BY <2>1 DEF Table
    <1>3. CASE raw[n] \in L!Special
        <2>1. at[n] = p + 2 /\ pattern[p] = "\\" /\ pattern[p + 1] = raw[n]
            BY <1>3 DEF Spells
        <2> HIDE DEF p
        <2>3. p < Len(pattern) /\ ~(p > Len(pattern))
            BY <1>1, <2>1
        <2>2. RowOf(pattern, value, p, M[p + 1], M[p + 2])[t]
                  <=> t <= Len(value) /\ pattern[p + 1] = value[t] /\ M[p + 2][t + 1]
            BY <2>1, <2>3, RowOfEscape
        <2> QED BY <1>2, <2>1, <2>2 DEF p
    <1>4. CASE raw[n] \notin L!Special
        <2>1. at[n] = p + 1 /\ pattern[p] = raw[n]
            BY <1>1, <1>4 DEF Spells
        <2>2. pattern[p] \notin L!Special /\ ~(p > Len(pattern))
            BY <1>1, <1>4, <2>1
        <2> HIDE DEF p
        <2>3. RowOf(pattern, value, p, M[p + 1], M[p + 2])[t]
                  <=> t <= Len(value) /\ pattern[p] = value[t] /\ M[p + 1][t + 1]
            BY <2>2, RowOfPlain
        <2> QED BY <1>2, <2>1, <2>3 DEF p
    <1> QED BY <1>3, <1>4

\* From where the text starts in the pattern, the pattern matches where the
\* value has the text.
LEMMA PatternFindsText ==
    ASSUME NEW pattern, NEW raw, NEW value, NEW M, NEW at,
           Len(pattern) \in Nat, Len(raw) \in Nat, Len(value) \in Nat,
           Table(M, pattern, value), Spells(pattern, raw, at)
    PROVE  \A t \in 1 .. (Len(value) + 1) : M[at[0]][t] <=> RestAt(raw, value, 0, t)
    <1> DEFINE N == Len(raw)
               T == Len(value)
               Agrees(n) == \A t \in 1 .. (T + 1) : M[at[n]][t] <=> RestAt(raw, value, n, t)
               G == {k \in 0 .. N : Agrees(N - k)}
    <1>1. Agrees(N)
        <2> TAKE t \in 1 .. (T + 1)
        <2> DEFINE size == Len(pattern)
        <2>1. at[N] = size /\ size \in 1 .. size /\ size \in Nat /\ size >= 1 /\ pattern[size] = "%"
            BY DEF Spells
        <2>2. M[size] = RowOf(pattern, value, size, M[size + 1], M[size + 2])
              /\ M[size + 1] = RowOf(pattern, value, size + 1, M[size + 2], M[size + 3])
            <3>1. size + 1 \in 1 .. (size + 1) /\ size \in 1 .. (size + 1) /\ size + 1 + 1 = size + 2 /\ size + 1 + 2 = size + 3
                BY <2>1
            <3> HIDE DEF size
            <3> QED BY <3>1 DEF Table, size
        <2>3. RowOf(pattern, value, size + 1, M[size + 2], M[size + 3])[T + 1]
            <3>1. size + 1 > Len(pattern) /\ T + 1 \in 1 .. (Len(value) + 1) /\ T + 1 > Len(value)
                OBVIOUS
            <3> HIDE DEF size, T
            <3> QED BY <3>1, RowPastEnd
        <2>4. RowOf(pattern, value, size, M[size + 1], M[size + 2])[t] <=> \E u \in t .. (T + 1) : M[size + 1][u]
            <3>1. ~(size > Len(pattern)) /\ pattern[size] = "%" /\ t \in 1 .. (Len(value) + 1)
                BY <2>1
            <3> HIDE DEF size
            <3> QED BY <3>1, RowOfAny
        <2>5. T + 1 \in t .. (T + 1)
            OBVIOUS
        <2>6. M[at[N]][t]
            <3> HIDE DEF size, T, N
            <3> QED BY <2>1, <2>2, <2>3, <2>4, <2>5
        <2>7. RestAt(raw, value, N, t)
            BY DEF RestAt
        <2> QED BY <2>6, <2>7
    <1>2. ASSUME NEW n \in 1 .. N, Agrees(n) PROVE Agrees(n - 1)
        <2> TAKE t \in 1 .. (T + 1)
        <2>1. M[at[n - 1]][t] <=> t <= T /\ value[t] = raw[n] /\ M[at[n]][t + 1]
            <3> HIDE DEF Agrees
            <3>1. n \in 1 .. Len(raw) /\ t \in 1 .. (Len(value) + 1)
                OBVIOUS
            <3> QED BY <3>1, OneCharacter
        <2>2. t <= T => (M[at[n]][t + 1] <=> RestAt(raw, value, n, t + 1))
            BY <1>2
        <2>3. RestAt(raw, value, n - 1, t)
                <=> t <= T /\ value[t] = raw[n] /\ RestAt(raw, value, n, t + 1)
            <3>1. ASSUME RestAt(raw, value, n - 1, t)
                  PROVE  t <= T /\ value[t] = raw[n] /\ RestAt(raw, value, n, t + 1)
                <4>1. t <= T /\ t + 1 + (N - n) <= T + 1
                    BY <3>1 DEF RestAt
                <4>2. 1 \in 1 .. (N - (n - 1)) /\ t + 1 - 1 = t /\ n - 1 + 1 = n
                    OBVIOUS
                <4>3. value[t] = raw[n]
                    BY <3>1, <4>2 DEF RestAt
                <4>4. ASSUME NEW j \in 1 .. (N - n) PROVE value[t + 1 + j - 1] = raw[n + j]
                    <5>1. j + 1 \in 1 .. (N - (n - 1)) /\ t + (j + 1) - 1 = t + 1 + j - 1
                          /\ n - 1 + (j + 1) = n + j
                        OBVIOUS
                    <5> QED BY <3>1, <5>1 DEF RestAt
                <4> QED BY <4>1, <4>3, <4>4 DEF RestAt
            <3>2. ASSUME t <= T, value[t] = raw[n], RestAt(raw, value, n, t + 1)
                  PROVE  RestAt(raw, value, n - 1, t)
                <4>1. t + (N - (n - 1)) <= T + 1
                    BY <3>2 DEF RestAt
                <4>2. ASSUME NEW j \in 1 .. (N - (n - 1)) PROVE value[t + j - 1] = raw[n - 1 + j]
                    <5>1. CASE j = 1
                        <6>1. t + j - 1 = t /\ n - 1 + j = n
                            BY <5>1
                        <6> QED BY <3>2, <6>1
                    <5>2. CASE j # 1
                        <6>1. j - 1 \in 1 .. (N - n) /\ t + 1 + (j - 1) - 1 = t + j - 1
                              /\ n + (j - 1) = n - 1 + j
                            BY <5>2
                        <6> QED BY <3>2, <6>1 DEF RestAt
                    <5> QED BY <5>1, <5>2
                <4> QED BY <4>1, <4>2 DEF RestAt
            <3> QED BY <3>1, <3>2
        <2> QED BY <2>1, <2>2, <2>3
    <1> HIDE DEF Agrees
    <1>3. 0 \in G
        <2>1. N - 0 = N
            OBVIOUS
        <2> QED BY <1>1, <2>1
    <1>4. ASSUME NEW k \in 1 .. N, k - 1 \in G PROVE k \in G
        <2>1. N - (k - 1) \in 1 .. N /\ N - (k - 1) - 1 = N - k /\ k \in 0 .. N
            OBVIOUS
        <2> QED BY <1>2, <1>4, <2>1
    <1>5. \A k \in 0 .. N : k \in G
        <2>1. N \in Nat
            OBVIOUS
        <2> HIDE DEF G, N
        <2> QED BY <1>3, <1>4, <2>1, Climb
    <1>6. Agrees(0)
        <2>1. N \in G /\ N - N = 0
            BY <1>5
        <2> QED BY <2>1
    <1> QED BY <1>6 DEF Agrees

\* The wildcards around an escaped text.
LEMMA PatternSpells ==
    ASSUME NEW S, NEW raw \in Seq(S), {"\\", "%"} \subseteq S, NEW op \in {"contains", "starts_with"}
    PROVE  /\ L!Pattern(raw, op) \in Seq(S)
           /\ op = "contains" => L!Pattern(raw, op)[1] = "%"
           /\ \E at : /\ Spells(L!Pattern(raw, op), raw, at)
                      /\ at[0] = IF op = "contains" THEN 2 ELSE 1
    <1> DEFINE pre == IF op = "contains" THEN <<"%">> ELSE <<>>
               esc == L!EscapeLike(raw)
               end == <<"%">>
               off == IF op = "contains" THEN 1 ELSE 0
               N == Len(raw)
               front == pre \o esc
               pattern == front \o end
    <1>1. /\ pre \in Seq(S) /\ Len(pre) = off /\ (op = "contains" => pre[1] = "%")
          /\ end \in Seq(S) /\ Len(end) = 1 /\ end[1] = "%"
        <2>1. <<"%">> \in Seq(S) /\ <<>> \in Seq(S) /\ Len(<<"%">>) = 1 /\ Len(<<>>) = 0 /\ <<"%">>[1] = "%"
            <3>1. \A U : \A a \in U : <<a>> \in Seq(U) /\ <<>> \in Seq(U)
                OBVIOUS
            <3> QED BY <3>1
        <2> QED BY <2>1
    <1>2. esc \in Seq(S) /\ N \in Nat
        BY EscapedText
    <1>3. PICK len \in [0 .. N -> Nat] :
             /\ len[0] = 0 /\ len[N] = Len(esc)
             /\ \A n \in 1 .. N : /\ len[n] = len[n - 1] + Len(Piece(raw[n])) /\ len[n] <= len[N]
                                  /\ \A i \in 1 .. Len(Piece(raw[n])) :
                                        esc[len[n - 1] + i] = Piece(raw[n])[i]
        <2>1. "\\" \in S
            OBVIOUS
        <2>2. \E len \in [0 .. Len(raw) -> Nat] : EscapedAt(raw, len)
            BY <2>1, EscapedText
        <2> QED BY <2>2 DEF EscapedAt
    <1>4. pattern = L!Pattern(raw, op)
        BY DEF L!Pattern
    <1>5. off \in {0, 1}
        OBVIOUS
    <1> HIDE DEF pre, esc, end, off
    <1>6. /\ front \in Seq(S) /\ Len(front) = off + Len(esc)
          /\ \A i \in 1 .. off : front[i] = pre[i]
          /\ \A i \in 1 .. Len(esc) : front[off + i] = esc[i]
        <2>1. /\ front \in Seq(S) /\ Len(front) = Len(pre) + Len(esc)
              /\ \A i \in 1 .. Len(pre) : front[i] = pre[i]
              /\ \A i \in 1 .. Len(esc) : front[Len(pre) + i] = esc[i]
            <3>1. pre \in Seq(S) /\ esc \in Seq(S)
                BY <1>1, <1>2
            <3> QED BY <3>1, Behind
        <2> HIDE DEF front
        <2> QED BY <1>1, <2>1
    <1> HIDE DEF front
    <1>7. /\ pattern \in Seq(S) /\ Len(pattern) = Len(front) + 1
          /\ \A i \in 1 .. Len(front) : pattern[i] = front[i]
          /\ pattern[Len(front) + 1] = "%"
        <2>1. front \in Seq(S) /\ end \in Seq(S) /\ Len(end) = 1 /\ end[1] = "%" /\ 1 \in 1 .. 1
            BY <1>1, <1>6
        <2>2. /\ pattern \in Seq(S) /\ Len(pattern) = Len(front) + Len(end)
              /\ \A i \in 1 .. Len(front) : pattern[i] = front[i]
              /\ \A i \in 1 .. Len(end) : pattern[Len(front) + i] = end[i]
            <3>1. front \in Seq(S) /\ end \in Seq(S)
                BY <2>1
            <3> QED BY <3>1, Behind
        <2> HIDE DEF pattern
        <2> QED BY <2>1, <2>2
    <1> HIDE DEF pattern
    <1>8. Len(esc) \in Nat /\ Len(front) \in Nat
        BY <1>2, <1>6
    <1>9. /\ Len(pattern) = off + Len(esc) + 1 /\ pattern[Len(pattern)] = "%"
          /\ \A i \in 1 .. Len(esc) : pattern[off + i] = esc[i]
          /\ op = "contains" => pattern[1] = "%"
        <2>1. \A i \in 1 .. Len(esc) : off + i \in 1 .. Len(front)
            BY <1>5, <1>6, <1>8
        <2>2. op = "contains" => off = 1 /\ 1 \in 1 .. off /\ 1 \in 1 .. Len(front)
            BY <1>6, <1>8 DEF off
        <2> QED BY <1>1, <1>6, <1>7, <2>1, <2>2
    <1> DEFINE at == [n \in 0 .. N |-> off + len[n] + 1]
    <1>10. \A n \in 0 .. N : len[n] \in Nat /\ len[n] <= Len(esc)
        <2> TAKE n \in 0 .. N
        <2>1. len[n] \in Nat /\ len[N] = Len(esc)
            BY <1>3
        <2>2. n # 0 => n \in 1 .. N
            BY <1>2
        <2>3. len[n] <= len[N]
            BY <1>3, <1>8, <2>1, <2>2
        <2> QED BY <2>1, <2>3
    <1>11. at \in [0 .. N -> 1 .. Len(pattern)]
        BY <1>5, <1>8, <1>9, <1>10
    <1>12. at[N] = Len(pattern) /\ at[0] = off + 1
        <2>1. 0 \in 0 .. N /\ N \in 0 .. N
            BY <1>2
        <2>2. at[N] = off + len[N] + 1 /\ at[0] = off + len[0] + 1
            BY <2>1
        <2>3. len[0] = 0 /\ len[N] = Len(esc)
            BY <1>3
        <2> QED BY <1>5, <1>9, <2>2, <2>3
    <1>13. ASSUME NEW n \in 1 .. N
           PROVE  \/ /\ raw[n] \in L!Special /\ at[n] = at[n - 1] + 2
                     /\ pattern[at[n - 1]] = "\\" /\ pattern[at[n - 1] + 1] = raw[n]
                  \/ raw[n] \notin L!Special /\ at[n] = at[n - 1] + 1 /\ pattern[at[n - 1]] = raw[n]
        <2> DEFINE l == len[n - 1]
        <2>1. /\ at[n - 1] = off + l + 1 /\ at[n] = off + len[n] + 1
              /\ l \in Nat /\ len[n] \in Nat /\ len[n] <= Len(esc) /\ off \in Nat
            BY <1>2, <1>5, <1>10
        <2>2. /\ len[n] = l + Len(Piece(raw[n]))
              /\ \A i \in 1 .. Len(Piece(raw[n])) : esc[l + i] = Piece(raw[n])[i]
            BY <1>3
        <2> HIDE DEF l, at
        <2>3. CASE raw[n] \in L!Special
            <3>1. Len(Piece(raw[n])) = 2 /\ Piece(raw[n])[1] = "\\" /\ Piece(raw[n])[2] = raw[n]
                BY <2>3 DEF Piece
            <3>2. len[n] = l + 2 /\ esc[l + 1] = "\\" /\ esc[l + 2] = raw[n]
                BY <2>2, <3>1
            <3>3. l + 1 \in 1 .. Len(esc) /\ l + 2 \in 1 .. Len(esc)
                BY <1>8, <2>1, <3>2
            <3>4. pattern[off + (l + 1)] = "\\" /\ pattern[off + (l + 2)] = raw[n]
                BY <1>9, <3>2, <3>3
            <3>5. off + (l + 1) = at[n - 1] /\ off + (l + 2) = at[n - 1] + 1 /\ at[n] = at[n - 1] + 2
                BY <2>1, <3>2
            <3> QED BY <2>3, <3>4, <3>5
        <2>4. CASE raw[n] \notin L!Special
            <3>1. Len(Piece(raw[n])) = 1 /\ Piece(raw[n])[1] = raw[n]
                BY <2>4 DEF Piece
            <3>2. len[n] = l + 1 /\ esc[l + 1] = raw[n]
                BY <2>2, <3>1
            <3>3. l + 1 \in 1 .. Len(esc)
                BY <1>8, <2>1, <3>2
            <3>4. pattern[off + (l + 1)] = raw[n]
                BY <1>9, <3>2, <3>3
            <3>5. off + (l + 1) = at[n - 1] /\ at[n] = at[n - 1] + 1
                BY <2>1, <3>2
            <3> QED BY <2>4, <3>4, <3>5
        <2> QED BY <2>3, <2>4
    <1>14. Spells(pattern, raw, at)
        <2> HIDE DEF at
        <2> QED BY <1>9, <1>11, <1>12, <1>13 DEF Spells
    <1>15. at[0] = IF op = "contains" THEN 2 ELSE 1
        BY <1>12 DEF off
    <1> QED BY <1>4, <1>7, <1>9, <1>14, <1>15

\* The two ways to find a text in a value.
LEMMA PlainSearch ==
    ASSUME NEW S, NEW raw \in Seq(S), NEW value \in Seq(S)
    PROVE  /\ L!Includes(value, raw) <=> \E t \in 1 .. (Len(value) + 1) : RestAt(raw, value, 0, t)
           /\ L!StartsWith(value, raw) <=> RestAt(raw, value, 0, 1)
    <1> DEFINE N == Len(raw)
               T == Len(value)
    <1>1. N \in Nat /\ T \in Nat
        OBVIOUS
    <1>2. ASSUME NEW t \in 1 .. (T + 1)
          PROVE  RestAt(raw, value, 0, t) <=> t + N - 1 <= T /\ L!IncludesAt(value, raw, t)
        <2>1. CASE t + N - 1 <= T
            <3> DEFINE sub == SubSeq(value, t, t + N - 1)
            <3>1. t \in 1 .. (T + 1) /\ t + N - 1 \in (t - 1) .. T
                BY <1>1, <2>1
            <3>2. sub \in Seq(S) /\ Len(sub) = N /\ \A j \in 1 .. N : sub[j] = value[t + j - 1]
                <4>1. /\ sub \in Seq(S) /\ Len(sub) = t + N - 1 - t + 1
                      /\ \A j \in 1 .. (t + N - 1 - t + 1) : sub[j] = value[t + j - 1]
                    BY <3>1, SubSeqProperties
                <4>2. t + N - 1 - t + 1 = N
                    BY <1>1
                <4> QED BY <4>1, <4>2
            <3> HIDE DEF sub
            <3>3. sub = raw <=> \A j \in 1 .. N : sub[j] = raw[j]
                BY <3>2, SeqEqual
            <3>4. RestAt(raw, value, 0, t) <=> \A j \in 1 .. N : value[t + j - 1] = raw[j]
                <4>1. N - 0 = N /\ t + N <= T + 1 /\ \A j \in 1 .. N : 0 + j = j
                    BY <1>1, <2>1
                <4> QED BY <4>1 DEF RestAt
            <3> QED BY <2>1, <3>2, <3>3, <3>4 DEF L!IncludesAt, sub
        <2>2. CASE ~(t + N - 1 <= T)
            BY <1>1, <2>2 DEF RestAt
        <2> QED BY <2>1, <2>2
    <1>3. 1 \in 1 .. (T + 1) /\ 1 + N - 1 = N
        BY <1>1
    <1>4. L!StartsWith(value, raw) <=> RestAt(raw, value, 0, 1)
        BY <1>2, <1>3 DEF L!StartsWith
    <1> QED BY <1>2, <1>4 DEF L!Includes

\* LIKE with the operand escaped finds a text where the in-memory provider does,
\* whatever characters it has and whatever it is searched in (escape_like,
\* push_like; the table of LIKE is computed once for every pattern and value).
THEOREM SearchIsLiteralAlways ==
    ASSUME NEW S, NEW raw \in Seq(S), NEW value \in Seq(S), {"\\", "%"} \subseteq S
    PROVE  /\ L!Like(L!Pattern(raw, "contains"), value) <=> L!Includes(value, raw)
           /\ L!Like(L!Pattern(raw, "starts_with"), value) <=> L!StartsWith(value, raw)
    <1>1. ASSUME NEW op \in {"contains", "starts_with"}
          PROVE  /\ L!Pattern(raw, op) \in Seq(S)
                 /\ \E M, at : /\ L!Like(L!Pattern(raw, op), value) = M[1][1]
                               /\ Table(M, L!Pattern(raw, op), value)
                               /\ Spells(L!Pattern(raw, op), raw, at)
                               /\ op = "contains" => L!Pattern(raw, op)[1] = "%"
                               /\ at[0] = IF op = "contains" THEN 2 ELSE 1
        <2>1. /\ L!Pattern(raw, op) \in Seq(S)
              /\ op = "contains" => L!Pattern(raw, op)[1] = "%"
            BY PatternSpells
        <2>2. PICK at : /\ Spells(L!Pattern(raw, op), raw, at)
                        /\ at[0] = IF op = "contains" THEN 2 ELSE 1
            BY PatternSpells
        <2>3. Len(L!Pattern(raw, op)) \in Nat /\ Len(value) \in Nat
            BY <2>1
        <2>4. PICK M : /\ L!Like(L!Pattern(raw, op), value) = M[1][1]
                       /\ Table(M, L!Pattern(raw, op), value)
            BY <2>3, LikeTable
        <2> QED BY <2>1, <2>2, <2>4
    <1> DEFINE T == Len(value)
    <1>2. Len(raw) \in Nat /\ T \in Nat /\ 1 \in 1 .. (T + 1)
        OBVIOUS
    <1>3. L!Like(L!Pattern(raw, "starts_with"), value) <=> RestAt(raw, value, 0, 1)
        <2> DEFINE pattern == L!Pattern(raw, "starts_with")
        <2>1. PICK M, at : /\ L!Like(pattern, value) = M[1][1] /\ Table(M, pattern, value)
                           /\ Spells(pattern, raw, at) /\ at[0] = 1
            BY <1>1
        <2>2. Len(pattern) \in Nat
            BY <1>1
        <2> HIDE DEF pattern
        <2>3. \A t \in 1 .. (T + 1) : M[at[0]][t] <=> RestAt(raw, value, 0, t)
            BY <1>2, <2>1, <2>2, PatternFindsText
        <2> HIDE DEF T
        <2>4. L!Like(pattern, value) <=> M[1][1]
            BY <2>1
        <2>5. M[1][1] <=> RestAt(raw, value, 0, 1)
            BY <1>2, <2>1, <2>3
        <2> QED BY <2>4, <2>5 DEF pattern
    <1>4. L!Like(L!Pattern(raw, "contains"), value)
              <=> \E t \in 1 .. (T + 1) : RestAt(raw, value, 0, t)
        <2> DEFINE pattern == L!Pattern(raw, "contains")
        <2>1. PICK M, at : /\ L!Like(pattern, value) = M[1][1] /\ Table(M, pattern, value)
                           /\ Spells(pattern, raw, at) /\ at[0] = 2 /\ pattern[1] = "%"
            BY <1>1
        <2>2. Len(pattern) \in Nat
            BY <1>1
        <2> HIDE DEF pattern
        <2>3. \A t \in 1 .. (T + 1) : M[at[0]][t] <=> RestAt(raw, value, 0, t)
            BY <1>2, <2>1, <2>2, PatternFindsText
        <2>4. 2 <= Len(pattern)
            <3>1. 0 \in 0 .. Len(raw)
                BY <1>2
            <3>2. at[0] \in 1 .. Len(pattern)
                BY <2>1, <3>1 DEF Spells
            <3> QED BY <2>1, <2>2, <3>2
        <2>5. M[1] = RowOf(pattern, value, 1, M[2], M[3])
            <3>1. 1 \in 1 .. (Len(pattern) + 1) /\ 1 + 1 = 2 /\ 1 + 2 = 3
                BY <2>2
            <3> QED BY <2>1, <3>1 DEF Table
        <2>6. M[1][1] <=> \E u \in 1 .. (T + 1) : M[2][u]
            <3>1. ~(1 > Len(pattern))
                BY <2>2, <2>4
            <3> QED BY <1>2, <2>1, <2>5, <3>1, RowOfAny
        <2>7. L!Like(pattern, value) <=> M[1][1]
            BY <2>1
        <2>8. \A t \in 1 .. (T + 1) : M[2][t] <=> RestAt(raw, value, 0, t)
            BY <2>1, <2>3
        <2> HIDE DEF T
        <2> QED BY <2>6, <2>7, <2>8 DEF pattern
    <1> QED BY <1>3, <1>4, PlainSearch

Values == Nat \cup {Null}
ListRows == [id : Nat, grp : Values, score : Values]
SortKeys == [field : {"id", "grp", "score", "removed"}, direction : {"asc", "desc"}]
KnownKeys == {e \in SortKeys : L!Resolves(e.field)}

\* The keys a sort keeps are of the fields there are.
LEMMA KnownAreKnown ==
    ASSUME NEW entries \in Seq(SortKeys)
    PROVE  L!Known(entries) \in Seq(KnownKeys)
    <1> DEFINE V == Seq(KnownKeys)
               N == Len(entries)
               Body(K) == [n \in 0 .. Len(entries) |->
                    IF n = 0 THEN <<>>
                    ELSE IF L!Resolves(entries[n].field) THEN Append(K[n - 1], entries[n]) ELSE K[n - 1]]
               K == CHOOSE K : K = Body(K)
               More(n, w) == IF L!Resolves(entries[n].field) THEN Append(w, entries[n]) ELSE w
               step == [n \in 1 .. N |-> [w \in V |-> More(n, w)]]
    <1>1. L!Known(entries) = K[N]
        BY DEF L!Known
    <1>2. N \in Nat /\ <<>> \in V /\ \A n \in 1 .. N : entries[n] \in SortKeys
        OBVIOUS
    <1>3. \A w \in V, n \in 1 .. N : More(n, w) \in V
        <2> TAKE w \in V, n \in 1 .. N
        <2>1. CASE L!Resolves(entries[n].field)
            <3>1. entries[n] \in KnownKeys
                BY <1>2, <2>1 DEF KnownKeys
            <3> QED BY <2>1, <3>1, AppendProperties
        <2>2. CASE ~L!Resolves(entries[n].field)
            BY <2>2
        <2> QED BY <2>1, <2>2
    <1> HIDE DEF More
    <1>4. Steps(V, <<>>, N, step)
        <2>1. step \in [1 .. N -> [V -> V]]
            <3> HIDE DEF V, N
            <3> QED BY <1>3
        <2> HIDE DEF step, V, N
        <2> QED BY <1>2, <2>1 DEF Steps
    <1>5. PICK f \in [0 .. N -> V] : f[0] = <<>> /\ \A n \in 1 .. N : f[n] = step[n][f[n - 1]]
        <2> HIDE DEF step, V, N
        <2> QED BY <1>4, Recursion
    <1>6. ASSUME NEW n \in 1 .. N PROVE f[n] = More(n, f[n - 1])
        <2>1. f[n - 1] \in V
            <3> HIDE DEF V, step
            <3> QED BY <1>2, <1>5
        <2>2. step[n][f[n - 1]] = More(n, f[n - 1])
            <3> HIDE DEF V, N
            <3> QED BY <2>1
        <2> HIDE DEF step
        <2> QED BY <1>5, <2>2
    <1> HIDE DEF step
    <1>7. f = Body(f)
        <2>1. \A n \in 0 .. N : n # 0 => n \in 1 .. N
            BY <1>2
        <2>2. \A n \in 0 .. N : f[n] = IF n = 0 THEN <<>> ELSE More(n, f[n - 1])
            BY <1>5, <1>6, <2>1
        <2>3. Body(f) = [n \in 0 .. N |-> IF n = 0 THEN <<>> ELSE More(n, f[n - 1])]
            BY DEF More
        <2> HIDE DEF Body, V, N
        <2> QED BY <1>5, <2>2, <2>3
    <1>8. K = Body(K)
        BY <1>7
    <1> HIDE DEF K
    <1>9. K[0] = <<>> /\ \A n \in 1 .. N : K[n] = More(n, K[n - 1])
        <2>1. Body(K) = [n \in 0 .. N |-> IF n = 0 THEN <<>> ELSE More(n, K[n - 1])]
            BY DEF More
        <2>2. 0 \in 0 .. N /\ \A n \in 1 .. N : n \in 0 .. N /\ n # 0
            BY <1>2
        <2> HIDE DEF Body, N
        <2> QED BY <1>8, <2>1, <2>2
    <1> DEFINE G == {n \in 0 .. N : K[n] \in V}
    <1>10. 0 \in G
        <2>1. 0 \in 0 .. N
            BY <1>2
        <2> HIDE DEF V, N
        <2> QED BY <1>2, <1>9, <2>1
    <1>11. ASSUME NEW n \in 1 .. N, n - 1 \in G PROVE n \in G
        BY <1>2, <1>3, <1>9, <1>11
    <1>12. \A n \in 0 .. N : n \in G
        <2> HIDE DEF G
        <2> QED BY <1>2, <1>10, <1>11, Climb
    <1> QED BY <1>1, <1>2, <1>12

\* One key: of two rows that do not tie under it, one is before the other.
LEMMA OneKey ==
    ASSUME NEW a \in ListRows, NEW b \in ListRows, NEW e \in KnownKeys
    PROVE  /\ L!Ties(a, b, e) <=> L!Ties(b, a, e)
           /\ L!Ties(a, b, e) => ~L!SqlBefore(a, b, e) /\ ~L!SqlBefore(b, a, e)
           /\ ~L!Ties(a, b, e) => (L!SqlBefore(a, b, e) <=> ~L!SqlBefore(b, a, e))
    <1>1. a[e.field] \in Values /\ b[e.field] \in Values
        BY DEF KnownKeys, SortKeys, L!Resolves, L!Columns, ListRows, Values
    <1> DEFINE va == a[e.field]
               vb == b[e.field]
    <1>2. /\ L!Ties(a, b, e) <=> va = vb
          /\ L!Ties(b, a, e) <=> va = vb
          /\ L!SqlBefore(a, b, e) <=> IF va = Null \/ vb = Null THEN va # Null /\ vb = Null
                                      ELSE IF e.direction = "asc" THEN va < vb ELSE vb < va
          /\ L!SqlBefore(b, a, e) <=> IF va = Null \/ vb = Null THEN vb # Null /\ va = Null
                                      ELSE IF e.direction = "asc" THEN vb < va ELSE va < vb
        BY DEF L!Ties, L!SqlBefore
    <1> HIDE DEF va, vb
    <1>3. va \in Nat \cup {Null} /\ vb \in Nat \cup {Null}
        BY <1>1 DEF va, vb, Values
    <1> QED BY <1>2, <1>3, NullIsNoNumber

\* Two rows that some key tells apart are ordered by the first key that does.
LEMMA FirstDifference ==
    ASSUME NEW a \in ListRows, NEW b \in ListRows, NEW ks \in Seq(KnownKeys),
           NEW i \in 1 .. Len(ks), ~L!Ties(a, b, ks[i])
    PROVE  \E d \in 1 .. Len(ks) :
              /\ ~L!Ties(a, b, ks[d]) /\ \A j \in 1 .. (d - 1) : L!Ties(a, b, ks[j])
              /\ L!Precedes(a, b, ks) <=> L!SqlBefore(a, b, ks[d])
              /\ L!Precedes(b, a, ks) <=> L!SqlBefore(b, a, ks[d])
    <1> DEFINE N == Len(ks)
               D == {j \in 1 .. N : ~L!Ties(a, b, ks[j])}
    <1>1. N \in Nat /\ DOMAIN ks = 1 .. N /\ \A j \in 1 .. N : ks[j] \in KnownKeys
        OBVIOUS
    <1>2. D \in SUBSET Nat /\ D # {}
        BY <1>1
    <1>3. PICK d \in D : \A y \in D : d <= y
        <2> HIDE DEF D
        <2> QED BY <1>2, LeastOf
    <1>4. d \in 1 .. N /\ ~L!Ties(a, b, ks[d])
        BY <1>3
    <1>5. \A j \in 1 .. (d - 1) : j \in 1 .. N /\ L!Ties(a, b, ks[j])
        BY <1>1, <1>3, <1>4
    <1>6. ASSUME NEW j \in 1 .. N, j # d, \A k \in 1 .. (j - 1) : L!Ties(a, b, ks[k])
          PROVE  L!Ties(a, b, ks[j])
        <2>1. j <= d
            BY <1>1, <1>4, <1>6
        <2> QED BY <1>4, <1>5, <1>6, <2>1
    <1>7. L!Precedes(a, b, ks) <=> L!SqlBefore(a, b, ks[d])
        <2>1. ASSUME NEW j \in 1 .. N, L!SqlBefore(a, b, ks[j]),
                     \A k \in 1 .. (j - 1) : L!Ties(a, b, ks[k])
              PROVE  j = d
            BY <1>1, <1>6, <2>1, OneKey
        <2> QED BY <1>1, <1>4, <1>5, <2>1 DEF L!Precedes
    <1>8. L!Precedes(b, a, ks) <=> L!SqlBefore(b, a, ks[d])
        <2>1. \A j \in 1 .. N : L!Ties(a, b, ks[j]) <=> L!Ties(b, a, ks[j])
            BY <1>1, OneKey
        <2>2. ASSUME NEW j \in 1 .. N, L!SqlBefore(b, a, ks[j]),
                     \A k \in 1 .. (j - 1) : L!Ties(b, a, ks[k])
              PROVE  j = d
            <3>1. \A k \in 1 .. (j - 1) : L!Ties(a, b, ks[k])
                BY <1>1, <2>1, <2>2
            <3> QED BY <1>1, <1>6, <2>2, <3>1, OneKey
        <2>3. \A j \in 1 .. (d - 1) : L!Ties(b, a, ks[j])
            BY <1>5, <2>1
        <2> QED BY <1>1, <1>4, <2>2, <2>3 DEF L!Precedes
    <1> QED BY <1>4, <1>5, <1>7, <1>8

\* Rows that every key ties are in no order.
LEMMA NoDifference ==
    ASSUME NEW a \in ListRows, NEW b \in ListRows, NEW ks \in Seq(KnownKeys),
           \A i \in 1 .. Len(ks) : L!Ties(a, b, ks[i])
    PROVE  ~L!Precedes(a, b, ks) /\ ~L!Precedes(b, a, ks)
    <1>1. DOMAIN ks = 1 .. Len(ks) /\ \A j \in 1 .. Len(ks) : ks[j] \in KnownKeys
        OBVIOUS
    <1>2. \A j \in 1 .. Len(ks) : ~L!SqlBefore(a, b, ks[j]) /\ ~L!SqlBefore(b, a, ks[j])
        BY <1>1, OneKey
    <1> QED BY <1>1, <1>2 DEF L!Precedes

\* A key more decides between those the others tie.
LEMMA OneKeyMore ==
    ASSUME NEW a \in ListRows, NEW b \in ListRows, NEW ks \in Seq(KnownKeys), NEW e \in KnownKeys
    PROVE  L!Precedes(a, b, Append(ks, e)) <=>
              \/ L!Precedes(a, b, ks)
              \/ L!SqlBefore(a, b, e) /\ \A i \in 1 .. Len(ks) : L!Ties(a, b, ks[i])
    <1> DEFINE N == Len(ks)
               more == Append(ks, e)
    <1>1. /\ N \in Nat /\ DOMAIN ks = 1 .. N /\ DOMAIN more = 1 .. (N + 1)
          /\ more[N + 1] = e /\ \A i \in 1 .. N : more[i] = ks[i]
        BY AppendProperties
    <1> HIDE DEF more, N
    <1>2. ASSUME NEW i \in 1 .. (N + 1)
          PROVE  (\A j \in 1 .. (i - 1) : L!Ties(a, b, more[j]))
                    <=> \A j \in 1 .. (i - 1) : L!Ties(a, b, ks[j])
        <2>1. \A j \in 1 .. (i - 1) : j \in 1 .. N
            BY <1>1
        <2> QED BY <1>1, <2>1
    <1>3. N + 1 - 1 = N /\ N + 1 \in 1 .. (N + 1) /\ \A i \in 1 .. N : i \in 1 .. (N + 1)
        BY <1>1
    <1>4. \A i \in 1 .. (N + 1) : i \in 1 .. N \/ i = N + 1
        BY <1>1
    <1> QED BY <1>1, <1>2, <1>3, <1>4 DEF L!Precedes, more, N

IdKey == [field |-> "id", direction |-> L!LastDirection(L!Known(sort))]

\* Whether row m of the table is before row n.
Before(m, n) == L!Precedes(table[m], table[n], L!OrderByEntries(sort))

\* A case of a list: rows with ids of their own, and a sort by any fields.
ListCase ==
    /\ table \in Seq(ListRows) /\ sort \in Seq(SortKeys)
    /\ \A m, n \in DOMAIN table : table[m].id = table[n].id => m = n

\* The id is a key there is, behind any others.
LEMMA IdKeyIsKnown ==
    ASSUME sort \in Seq(SortKeys)
    PROVE  IdKey \in KnownKeys
    <1> DEFINE ks == L!Known(sort)
    <1>1. ks \in Seq(KnownKeys)
        BY KnownAreKnown
    <1>2. L!LastDirection(ks) \in {"asc", "desc"}
        <2>1. CASE ks = <<>>
            BY <2>1 DEF L!LastDirection
        <2>2. CASE ks # <<>>
            <3>1. Len(ks) \in 1 .. Len(ks)
                BY <1>1, <2>2, EmptySeq
            <3>2. ks[Len(ks)] \in KnownKeys
                <4> HIDE DEF ks
                <4> QED BY <1>1, <3>1
            <3>3. ks[Len(ks)].direction \in {"asc", "desc"}
                BY <3>2 DEF KnownKeys, SortKeys
            <3> QED BY <2>2, <3>3 DEF L!LastDirection
        <2> QED BY <2>1, <2>2
    <1> QED BY <1>2 DEF IdKey, KnownKeys, SortKeys, L!Resolves, L!Columns

\* Two rows of different ids are ordered one way, by all three.
LEMMA OneOrder ==
    ASSUME sort \in Seq(SortKeys), NEW a \in ListRows, NEW b \in ListRows, a.id # b.id
    PROVE  /\ L!Precedes(a, b, L!OrderByEntries(sort)) <=> ~L!Precedes(b, a, L!OrderByEntries(sort))
           /\ L!Precedes(a, b, L!OrderByEntries(sort)) <=> L!Precedes(a, b, Append(L!Known(sort), IdKey))
           /\ L!Precedes(a, b, L!OrderByEntries(sort)) <=> L!GridPrecedes(a, b)
    <1> DEFINE ks == L!Known(sort)
               full == Append(ks, IdKey)
               keys == L!OrderByEntries(sort)
    <1>1. ks \in Seq(KnownKeys)
        BY KnownAreKnown
    <1>2. IdKey \in KnownKeys
        BY IdKeyIsKnown
    <1>3. /\ Len(ks) \in Nat /\ DOMAIN ks = 1 .. Len(ks) /\ \A i \in 1 .. Len(ks) : ks[i] \in KnownKeys
        BY <1>1
    <1>4. /\ full \in Seq(KnownKeys) /\ Len(full) = Len(ks) + 1 /\ full[Len(ks) + 1] = IdKey
          /\ Len(full) \in 1 .. Len(full)
        <2> HIDE DEF ks
        <2> QED BY <1>1, <1>2, <1>3, AppendProperties
    <1>5. keys = IF \E i \in 1 .. Len(ks) : ks[i].field = "id" THEN ks ELSE full
        BY <1>3 DEF L!OrderByEntries, L!UniqueKeyColumn, IdKey
    <1>6. \A e \in KnownKeys : e.field = "id" => ~L!Ties(a, b, e)
        BY DEF L!Ties
    <1>7. ~L!Ties(a, b, IdKey)
        BY <1>2, <1>6 DEF IdKey
    <1> HIDE DEF ks, full, keys
    \* With or without the id behind the keys that have it.
    <1>8. (\E i \in 1 .. Len(ks) : ks[i].field = "id")
              => /\ L!Precedes(a, b, ks) <=> L!Precedes(a, b, full)
                 /\ L!Precedes(a, b, ks) <=> ~L!Precedes(b, a, ks)
        <2> HAVE \E i \in 1 .. Len(ks) : ks[i].field = "id"
        <2>1. PICK i \in 1 .. Len(ks) : ~L!Ties(a, b, ks[i])
            BY <1>3, <1>6
        <2>2. L!Precedes(a, b, full) <=> L!Precedes(a, b, ks)
            BY <1>1, <1>2, <2>1, OneKeyMore DEF full
        <2>3. L!Precedes(a, b, ks) <=> ~L!Precedes(b, a, ks)
            BY <1>1, <1>3, <2>1, FirstDifference, OneKey
        <2> QED BY <2>2, <2>3
    <1>9. L!Precedes(a, b, full) <=> ~L!Precedes(b, a, full)
        <2>1. PICK i \in 1 .. Len(full) : full[i] = IdKey
            BY <1>4
        <2>2. PICK d \in 1 .. Len(full) :
                 /\ ~L!Ties(a, b, full[d])
                 /\ L!Precedes(a, b, full) <=> L!SqlBefore(a, b, full[d])
                 /\ L!Precedes(b, a, full) <=> L!SqlBefore(b, a, full[d])
            BY <1>4, <1>7, <2>1, FirstDifference
        <2>3. full[d] \in KnownKeys
            BY <1>4
        <2> QED BY <2>2, <2>3, OneKey
    <1>10. L!GridPrecedes(a, b) <=> L!Precedes(a, b, full)
        <2>1. L!GridPrecedes(a, b) <=> \/ L!Precedes(a, b, ks)
                                       \/ ~L!Precedes(b, a, ks) /\ L!SqlBefore(a, b, IdKey)
            BY DEF L!GridPrecedes, ks, IdKey
        <2>2. L!Precedes(a, b, full) <=>
                 \/ L!Precedes(a, b, ks)
                 \/ L!SqlBefore(a, b, IdKey) /\ \A i \in 1 .. Len(ks) : L!Ties(a, b, ks[i])
            BY <1>1, <1>2, OneKeyMore DEF full
        <2>3. CASE \A i \in 1 .. Len(ks) : L!Ties(a, b, ks[i])
            <3>1. ~L!Precedes(a, b, ks) /\ ~L!Precedes(b, a, ks)
                BY <1>1, <2>3, NoDifference
            <3> QED BY <2>1, <2>2, <2>3, <3>1
        <2>4. CASE ~\A i \in 1 .. Len(ks) : L!Ties(a, b, ks[i])
            <3>1. PICK i \in 1 .. Len(ks) : ~L!Ties(a, b, ks[i])
                BY <2>4
            <3>2. L!Precedes(a, b, ks) <=> ~L!Precedes(b, a, ks)
                BY <1>1, <1>3, <3>1, FirstDifference, OneKey
            <3> QED BY <2>1, <2>2, <2>4, <3>2
        <2> QED BY <2>3, <2>4
    <1>11. /\ L!Precedes(a, b, keys) <=> ~L!Precedes(b, a, keys)
           /\ L!Precedes(a, b, keys) <=> L!Precedes(a, b, full)
        BY <1>5, <1>8, <1>9
    <1> QED BY <1>10, <1>11 DEF keys, full, ks

\* The rows of a case, each before or behind each other.
LEMMA RowsOrdered ==
    ASSUME ListCase, NEW m \in L!Selected, NEW n \in L!Selected, m # n
    PROVE  /\ Before(m, n) <=> ~Before(n, m)
           /\ L!InMemoryPrecedes(m, n) <=> Before(m, n)
           /\ L!GridPrecedes(table[m], table[n]) <=> Before(m, n)
    <1>1. /\ sort \in Seq(SortKeys) /\ m \in DOMAIN table /\ n \in DOMAIN table
          /\ table[m] \in ListRows /\ table[n] \in ListRows
        BY DEF ListCase, L!Selected
    <1>2. table[m].id # table[n].id
        BY <1>1 DEF ListCase
    <1> DEFINE a == table[m]
               b == table[n]
    <1> HIDE DEF a, b
    <1>3. a \in ListRows /\ b \in ListRows /\ a.id # b.id
        BY <1>1, <1>2 DEF a, b
    <1>4. /\ L!Precedes(a, b, L!OrderByEntries(sort)) <=> ~L!Precedes(b, a, L!OrderByEntries(sort))
          /\ L!Precedes(a, b, L!OrderByEntries(sort)) <=> L!Precedes(a, b, Append(L!Known(sort), IdKey))
          /\ L!Precedes(a, b, L!OrderByEntries(sort)) <=> L!GridPrecedes(a, b)
        BY <1>1, <1>3, OneOrder
    <1>5. L!Precedes(b, a, L!OrderByEntries(sort)) <=> L!Precedes(b, a, Append(L!Known(sort), IdKey))
        BY <1>1, <1>3, OneOrder
    <1>6. L!InMemoryPrecedes(m, n) <=>
             \/ L!Precedes(a, b, Append(L!Known(sort), IdKey))
             \/ ~L!Precedes(b, a, Append(L!Known(sort), IdKey)) /\ m < n
        BY DEF L!InMemoryPrecedes, IdKey, L!UniqueKeyColumn, a, b
    <1> QED BY <1>4, <1>5, <1>6 DEF Before, a, b

\* A listing in order.
InOrder(s) ==
    /\ s \in L!Listings(L!Selected)
    /\ \A i, j \in DOMAIN s : i < j => Before(s[i], s[j])

LEMMA SameCount == \A S : L!Cardinality(S) = Cardinality(S)
    BY DEF L!Cardinality, Cardinality

LEMMA SelectedFinite ==
    ASSUME ListCase
    PROVE  /\ L!Selected \subseteq 1 .. Len(table) /\ IsFiniteSet(L!Selected)
           /\ Cardinality(L!Selected) \in 0 .. Len(table) /\ Len(table) \in Nat
    <1>1. table \in Seq(ListRows) /\ Len(table) \in Nat /\ DOMAIN table = 1 .. Len(table)
        BY DEF ListCase
    <1>2. L!Selected \in SUBSET (1 .. Len(table))
        BY <1>1 DEF L!Selected
    <1>3. IsFiniteSet(1 .. Len(table)) /\ Cardinality(1 .. Len(table)) = Len(table)
        <2>1. 1 \in Int /\ Len(table) \in Int /\ (1 > Len(table) => Len(table) = 0)
              /\ Len(table) - 1 + 1 = Len(table)
            BY <1>1
        <2> QED BY <2>1, FS_Interval
    <1>4. /\ IsFiniteSet(L!Selected) /\ Cardinality(L!Selected) <= Len(table)
        BY <1>2, <1>3, FS_Subset
    <1>5. Cardinality(L!Selected) \in Nat
        BY <1>4, FS_CardinalityType
    <1> QED BY <1>1, <1>2, <1>4, <1>5

\* A listing has each selected row, at one place.
LEMMA ListingHasAll ==
    ASSUME ListCase, NEW s \in L!Listings(L!Selected)
    PROVE  /\ s \in [1 .. Cardinality(L!Selected) -> L!Selected]
           /\ \A i, j \in 1 .. Cardinality(L!Selected) : s[i] = s[j] => i = j
           /\ \A x \in L!Selected : \E i \in 1 .. Cardinality(L!Selected) : s[i] = x
    <1> DEFINE count == Cardinality(L!Selected)
    <1>1. /\ s \in [1 .. count -> L!Selected] /\ DOMAIN s = 1 .. count
          /\ \A i, j \in 1 .. count : s[i] = s[j] => i = j
        <2>1. /\ s \in [1 .. count -> L!Selected]
              /\ \A i, j \in DOMAIN s : i # j => s[i] # s[j]
            BY SameCount DEF L!Listings
        <2> HIDE DEF count
        <2> QED BY <2>1
    <1>2. IsFiniteSet(L!Selected) /\ count \in Nat
        BY SelectedFinite
    <1>3. s \in Injection(1 .. count, L!Selected)
        BY <1>1 DEF Injection, IsInjective
    <1>4. Cardinality(1 .. count) = count
        <2>1. 1 \in Int /\ count \in Int /\ (1 > count => count = 0) /\ count - 1 + 1 = count
            BY <1>2
        <2> HIDE DEF count
        <2> QED BY <2>1, FS_Interval
    <1>5. s \in Surjection(1 .. count, L!Selected)
        BY <1>2, <1>3, <1>4, FS_Injection
    <1> QED BY <1>1, <1>5 DEF Surjection

\* The queries answer the listings that are in order.
LEMMA AnswersInOrder ==
    ASSUME ListCase, NEW s
    PROVE  /\ s \in L!SqlListings <=> InOrder(s)
           /\ s \in L!InMemoryListings <=> InOrder(s)
           /\ s \in {z \in L!Listings(L!Selected) : \A i, j \in DOMAIN z :
                         i < j => L!GridPrecedes(table[z[i]], table[z[j]])} <=> InOrder(s)
    <1>1. SUFFICES ASSUME s \in L!Listings(L!Selected)
                   PROVE  \A i, j \in DOMAIN s : i < j =>
                             /\ Before(s[i], s[j]) <=>
                                   ~L!Precedes(table[s[j]], table[s[i]], L!OrderByEntries(sort))
                             /\ Before(s[i], s[j]) <=> L!InMemoryPrecedes(s[i], s[j])
                             /\ Before(s[i], s[j]) <=> L!GridPrecedes(table[s[i]], table[s[j]])
        BY DEF L!SqlListings, L!InMemoryListings, InOrder
    <1> DEFINE count == Cardinality(L!Selected)
    <1>2. /\ DOMAIN s = 1 .. count /\ s \in [1 .. count -> L!Selected]
          /\ \A i, j \in 1 .. count : s[i] = s[j] => i = j
        BY <1>1, ListingHasAll
    <1> TAKE i, j \in DOMAIN s
    <1> HAVE i < j
    <1>3. s[i] \in L!Selected /\ s[j] \in L!Selected /\ s[i] # s[j]
        BY <1>2, SelectedFinite
    <1>4. Before(s[j], s[i]) <=> L!Precedes(table[s[j]], table[s[i]], L!OrderByEntries(sort))
        BY DEF Before
    <1> QED BY <1>3, <1>4, RowsOrdered

\* There is one order: two listings in it are the same.
LEMMA OneListing ==
    ASSUME ListCase, NEW s, NEW z, InOrder(s), InOrder(z)
    PROVE  s = z
    <1> DEFINE count == Cardinality(L!Selected)
               D == {i \in 1 .. count : s[i] # z[i]}
    <1>1. /\ s \in [1 .. count -> L!Selected] /\ \A i, j \in 1 .. count : s[i] = s[j] => i = j
          /\ \A x \in L!Selected : \E i \in 1 .. count : s[i] = x
        BY ListingHasAll DEF InOrder
    <1>2. /\ z \in [1 .. count -> L!Selected] /\ \A i, j \in 1 .. count : z[i] = z[j] => i = j
          /\ \A x \in L!Selected : \E i \in 1 .. count : z[i] = x
        BY ListingHasAll DEF InOrder
    <1>3. D = {} => s = z
        <2>1. D = {} => \A i \in 1 .. count : s[i] = z[i]
            OBVIOUS
        <2>2. s \in [1 .. count -> L!Selected] /\ z \in [1 .. count -> L!Selected]
            BY <1>1, <1>2
        <2>3. ASSUME \A i \in 1 .. count : s[i] = z[i] PROVE s = z
            <3>1. s = [i \in 1 .. count |-> s[i]] /\ z = [i \in 1 .. count |-> z[i]]
                BY <2>2
            <3>2. [i \in 1 .. count |-> s[i]] = [i \in 1 .. count |-> z[i]]
                BY <2>3
            <3> QED BY <3>1, <3>2
        <2> HIDE DEF count, D
        <2> QED BY <2>1, <2>3
    <1> SUFFICES ASSUME D # {} PROVE FALSE
        BY <1>3
    <1>4. PICK i \in D : \A y \in D : i <= y
        <2>1. D \in SUBSET Nat
            OBVIOUS
        <2> HIDE DEF D
        <2> QED BY <2>1, LeastOf
    <1>5. count \in Nat
        BY SelectedFinite
    <1> HIDE DEF count
    <1>6. i \in 1 .. count /\ s[i] # z[i] /\ s[i] \in L!Selected /\ z[i] \in L!Selected
        BY <1>1, <1>2, <1>4
    <1>7. \A k \in 1 .. (i - 1) : k \in 1 .. count /\ s[k] = z[k]
        BY <1>4, <1>5, <1>6
    <1>8. PICK j \in 1 .. count : s[j] = z[i]
        BY <1>1, <1>6
    <1>9. PICK k \in 1 .. count : z[k] = s[i]
        BY <1>2, <1>6
    <1>10. i < j
        <2>1. j # i
            BY <1>6, <1>8
        <2>2. j < i => z[j] = z[i]
            BY <1>5, <1>6, <1>7, <1>8
        <2> QED BY <1>2, <1>5, <1>6, <2>1, <2>2
    <1>11. i < k
        <2>1. k # i
            BY <1>6, <1>9
        <2>2. k < i => s[k] = s[i]
            BY <1>5, <1>6, <1>7, <1>9
        <2> QED BY <1>1, <1>5, <1>6, <2>1, <2>2
    <1>12. Before(s[i], z[i])
        BY <1>1, <1>6, <1>8, <1>10 DEF InOrder
    <1>13. Before(z[i], s[i])
        BY <1>2, <1>6, <1>9, <1>11 DEF InOrder
    <1> QED BY <1>6, <1>12, <1>13, RowsOrdered

\* The grid sorts what it is given to the one listing there is.
LEMMA ThreeAgree ==
    ASSUME ListCase
    PROVE  /\ L!SqlListings = L!InMemoryListings
           /\ \A s \in L!SqlListings : L!GridListings(s) = L!SqlListings
    <1>1. \A s : (s \in L!SqlListings <=> s \in L!InMemoryListings)
        BY AnswersInOrder
    <1>2. L!SqlListings = L!InMemoryListings
        BY <1>1
    <1>3. ASSUME NEW s \in L!SqlListings PROVE L!GridListings(s) = L!SqlListings
        <2>1. InOrder(s)
            BY AnswersInOrder
        <2>2. CASE sort = <<>>
            <3>1. \A z \in L!SqlListings : z = s
                BY <2>1, AnswersInOrder, OneListing
            <3>2. L!GridListings(s) = {s}
                BY <2>2 DEF L!GridListings
            <3> QED BY <3>1, <3>2
        <2>3. CASE sort # <<>>
            <3>1. L!GridListings(s) = {z \in L!Listings(L!Selected) : \A i, j \in DOMAIN z :
                         i < j => L!GridPrecedes(table[z[i]], table[z[j]])}
                BY <2>3 DEF L!GridListings
            <3>2. \A z : z \in L!GridListings(s) <=> z \in L!SqlListings
                BY <3>1, AnswersInOrder
            <3> QED BY <3>2
        <2> QED BY <2>2, <2>3
    <1> QED BY <1>2, <1>3

\* Keys order rows transitively.
LEMMA Transitive ==
    ASSUME NEW a \in ListRows, NEW b \in ListRows, NEW c \in ListRows, NEW ks \in Seq(KnownKeys),
           L!Precedes(a, b, ks), L!Precedes(b, c, ks)
    PROVE  L!Precedes(a, c, ks)
    <1>1. DOMAIN ks = 1 .. Len(ks) /\ Len(ks) \in Nat
        OBVIOUS
    <1>2. PICK i \in 1 .. Len(ks) :
              L!SqlBefore(a, b, ks[i]) /\ \A k \in 1 .. (i - 1) : L!Ties(a, b, ks[k])
        BY <1>1 DEF L!Precedes
    <1>3. PICK j \in 1 .. Len(ks) :
              L!SqlBefore(b, c, ks[j]) /\ \A k \in 1 .. (j - 1) : L!Ties(b, c, ks[k])
        BY <1>1 DEF L!Precedes
    <1>4. \A k \in 1 .. Len(ks) : L!Ties(a, b, ks[k]) /\ L!Ties(b, c, ks[k]) => L!Ties(a, c, ks[k])
        BY DEF L!Ties
    <1>5. CASE i < j
        <2>1. L!Ties(b, c, ks[i])
            BY <1>1, <1>3, <1>5
        <2>2. L!SqlBefore(a, c, ks[i])
            BY <1>2, <2>1 DEF L!SqlBefore, L!Ties
        <2>3. \A k \in 1 .. (i - 1) : L!Ties(a, c, ks[k])
            BY <1>1, <1>2, <1>3, <1>4, <1>5
        <2> QED BY <1>1, <2>2, <2>3 DEF L!Precedes
    <1>6. CASE j < i
        <2>1. L!Ties(a, b, ks[j])
            BY <1>1, <1>2, <1>6
        <2>2. L!SqlBefore(a, c, ks[j])
            BY <1>3, <2>1 DEF L!SqlBefore, L!Ties
        <2>3. \A k \in 1 .. (j - 1) : L!Ties(a, c, ks[k])
            BY <1>1, <1>2, <1>3, <1>4, <1>6
        <2> QED BY <1>1, <2>2, <2>3 DEF L!Precedes
    <1>7. CASE i = j
        <2>1. ks[i] \in KnownKeys
            BY <1>1
        <2>2. PICK e \in KnownKeys : e = ks[i]
            BY <2>1
        <2>3. /\ a[e.field] \in Nat \cup {Null} /\ b[e.field] \in Nat \cup {Null}
              /\ c[e.field] \in Nat \cup {Null}
            BY DEF KnownKeys, SortKeys, L!Resolves, L!Columns, ListRows, Values
        <2>4. L!SqlBefore(a, b, e) /\ L!SqlBefore(b, c, e)
            BY <1>2, <1>3, <1>7, <2>2
        <2>5. L!SqlBefore(a, c, e)
            <3> DEFINE va == a[e.field]
                       vb == b[e.field]
                       vc == c[e.field]
            <3>1. /\ L!SqlBefore(a, b, e) <=> IF va = Null \/ vb = Null THEN va # Null /\ vb = Null
                                              ELSE IF e.direction = "asc" THEN va < vb ELSE vb < va
                  /\ L!SqlBefore(b, c, e) <=> IF vb = Null \/ vc = Null THEN vb # Null /\ vc = Null
                                              ELSE IF e.direction = "asc" THEN vb < vc ELSE vc < vb
                  /\ L!SqlBefore(a, c, e) <=> IF va = Null \/ vc = Null THEN va # Null /\ vc = Null
                                              ELSE IF e.direction = "asc" THEN va < vc ELSE vc < va
                BY DEF L!SqlBefore
            <3>2. va \in Nat \cup {Null} /\ vb \in Nat \cup {Null} /\ vc \in Nat \cup {Null}
                BY <2>3
            <3> HIDE DEF va, vb, vc
            <3> QED BY <2>4, <3>1, <3>2, NullIsNoNumber
        <2>6. \A k \in 1 .. (i - 1) : L!Ties(a, c, ks[k])
            BY <1>1, <1>2, <1>3, <1>4, <1>7
        <2> QED BY <1>1, <2>2, <2>5, <2>6 DEF L!Precedes
    <1> QED BY <1>1, <1>5, <1>6, <1>7

LEMMA KeysAreKnown ==
    ASSUME sort \in Seq(SortKeys)
    PROVE  L!OrderByEntries(sort) \in Seq(KnownKeys)
    <1> DEFINE ks == L!Known(sort)
    <1>1. ks \in Seq(KnownKeys)
        BY KnownAreKnown
    <1>2. IdKey \in KnownKeys
        BY IdKeyIsKnown
    <1>3. Append(ks, IdKey) \in Seq(KnownKeys)
        <2> HIDE DEF ks
        <2> QED BY <1>1, <1>2, AppendProperties
    <1>4. L!OrderByEntries(sort) \in {ks, Append(ks, IdKey)}
        BY DEF L!OrderByEntries, L!UniqueKeyColumn, IdKey
    <1> QED BY <1>1, <1>3, <1>4

\* The row with so many rows before it is at the next place.
LEMMA SomeListing ==
    ASSUME ListCase
    PROVE  \E s : InOrder(s)
    <1> DEFINE S == L!Selected
               count == Cardinality(S)
               Ahead(x) == {y \in S : Before(y, x)}
               rank == [x \in S |-> Cardinality(Ahead(x)) + 1]
    <1>1. IsFiniteSet(S) /\ count \in Nat
        BY SelectedFinite
    <1>2. \A x \in S : x \in DOMAIN table /\ table[x] \in ListRows
        BY DEF ListCase, L!Selected
    <1>3. ASSUME NEW x \in S, NEW y \in S, NEW z \in S, Before(x, y), Before(y, z)
          PROVE  Before(x, z)
        BY <1>2, <1>3, KeysAreKnown, Transitive DEF Before, ListCase
    <1>4. ASSUME NEW x \in S, NEW y \in S PROVE ~(Before(x, y) /\ Before(y, x))
        <2>1. CASE x # y
            BY <2>1, RowsOrdered
        <2>2. CASE x = y
            <3>1. \A i \in 1 .. Len(L!OrderByEntries(sort)) :
                     L!Ties(table[x], table[x], L!OrderByEntries(sort)[i])
                BY DEF L!Ties
            <3>2. ~L!Precedes(table[x], table[x], L!OrderByEntries(sort))
                BY <1>2, <3>1, KeysAreKnown, NoDifference DEF ListCase
            <3> QED BY <2>2, <3>2 DEF Before
        <2> QED BY <2>1, <2>2
    <1>5. ASSUME NEW x \in S PROVE Ahead(x) \in SUBSET S /\ x \notin Ahead(x)
        BY <1>4
    <1>6. ASSUME NEW x \in S
          PROVE  /\ IsFiniteSet(Ahead(x)) /\ Cardinality(Ahead(x)) \in Nat
                 /\ Cardinality(Ahead(x)) < count
        <2>1. IsFiniteSet(Ahead(x)) /\ Cardinality(Ahead(x)) <= count
              /\ (count = Cardinality(Ahead(x)) => S = Ahead(x))
            <3>1. Ahead(x) \in SUBSET S
                OBVIOUS
            <3> HIDE DEF Ahead, S
            <3> QED BY <1>1, <3>1, FS_Subset
        <2>2. Cardinality(Ahead(x)) \in Nat
            BY <2>1, FS_CardinalityType
        <2>3. S # Ahead(x)
            BY <1>5
        <2> QED BY <1>1, <2>1, <2>2, <2>3
    <1>7. rank \in [S -> 1 .. count]
        <2>1. \A x \in S : Cardinality(Ahead(x)) + 1 \in 1 .. count
            <3> HIDE DEF count
            <3> QED BY <1>1, <1>6
        <2> QED BY <2>1
    <1>8. ASSUME NEW x \in S, NEW y \in S, Before(x, y) PROVE rank[x] < rank[y]
        <2>1. Ahead(x) \in SUBSET Ahead(y) /\ x \in Ahead(y) /\ x \notin Ahead(x)
            BY <1>3, <1>4, <1>8
        <2>2. Cardinality(Ahead(x)) <= Cardinality(Ahead(y))
              /\ Cardinality(Ahead(x)) # Cardinality(Ahead(y))
            <3>1. IsFiniteSet(Ahead(y))
                BY <1>6
            <3> HIDE DEF Ahead
            <3> QED BY <2>1, <3>1, FS_Subset
        <2>3. Cardinality(Ahead(x)) < Cardinality(Ahead(y))
            BY <1>6, <2>2
        <2> HIDE DEF Ahead
        <2> QED BY <1>6, <2>3
    <1> HIDE DEF rank, Ahead, count
    <1>9. \A x, y \in S : rank[x] = rank[y] => x = y
        <2> TAKE x \in S, y \in S
        <2> HAVE rank[x] = rank[y]
        <2>1. rank[x] \in Nat /\ rank[y] \in Nat
            BY <1>1, <1>7
        <2>2. ~Before(x, y) /\ ~Before(y, x)
            BY <1>8, <2>1
        <2> QED BY <2>2, RowsOrdered
    <1>10. rank \in Surjection(S, 1 .. count)
        <2>1. rank \in Injection(S, 1 .. count)
            BY <1>7, <1>9 DEF Injection, IsInjective
        <2>2. IsFiniteSet(1 .. count) /\ Cardinality(1 .. count) = count
            <3>1. 1 \in Int /\ count \in Int /\ (1 > count => count = 0) /\ count - 1 + 1 = count
                BY <1>1
            <3> QED BY <3>1, FS_Interval
        <2> QED BY <1>1, <2>1, <2>2, FS_Injection DEF count
    <1>11. \A i \in 1 .. count : \E x \in S : rank[x] = i
        BY <1>10 DEF Surjection
    <1> DEFINE s == [i \in 1 .. count |-> CHOOSE x \in S : rank[x] = i]
    <1>12. ASSUME NEW i \in 1 .. count PROVE s[i] \in S /\ rank[s[i]] = i
        BY <1>11
    <1>13. s \in [1 .. count -> S] /\ DOMAIN s = 1 .. count
        BY <1>12
    <1> HIDE DEF s
    <1>14. s \in L!Listings(S)
        <2>1. \A i, j \in DOMAIN s : i # j => s[i] # s[j]
            BY <1>12, <1>13
        <2> QED BY <1>13, <2>1, SameCount DEF L!Listings, count
    <1>15. ASSUME NEW i \in DOMAIN s, NEW j \in DOMAIN s, i < j PROVE Before(s[i], s[j])
        <2>1. s[i] \in S /\ s[j] \in S /\ rank[s[i]] = i /\ rank[s[j]] = j /\ i \in Nat /\ j \in Nat
            BY <1>1, <1>12, <1>13
        <2>2. ~Before(s[j], s[i])
            BY <1>8, <1>15, <2>1
        <2>3. s[i] # s[j]
            BY <1>15, <2>1
        <2> QED BY <2>1, <2>2, <2>3, RowsOrdered
    <1> QED BY <1>14, <1>15 DEF InOrder

\* Every number is on a page, of any size.
LEMMA OnAPage ==
    ASSUME NEW limit \in Nat \ {0}, NEW k \in Nat \ {0}
    PROVE  \E n \in Nat : n < k /\ n * limit < k /\ k <= n * limit + limit
    <1> DEFINE On(j, n) == n <= j /\ n * limit <= j /\ j + 1 <= n * limit + limit
               G == {j \in 0 .. (k - 1) : \E n \in Nat : On(j, n)}
    <1>1. 0 \in G
        <2>1. On(0, 0)
            <3>1. 0 * limit = 0
                OBVIOUS
            <3> QED BY <3>1
        <2> QED BY <2>1
    <1>2. ASSUME NEW j \in 1 .. (k - 1), j - 1 \in G PROVE j \in G
        <2>1. PICK n \in Nat : On(j - 1, n)
            BY <1>2
        <2>2. n * limit \in Nat /\ (n + 1) * limit = n * limit + limit /\ n + 1 \in Nat
            OBVIOUS
        <2>3. CASE j + 1 <= n * limit + limit
            <3>1. On(j, n)
                BY <2>1, <2>2, <2>3
            <3> QED BY <3>1
        <2>4. CASE ~(j + 1 <= n * limit + limit)
            <3>1. On(j, n + 1)
                BY <2>1, <2>2, <2>4
            <3>2. j \in 0 .. (k - 1)
                OBVIOUS
            <3> HIDE DEF On
            <3> QED BY <2>2, <3>1, <3>2
        <2> QED BY <2>3, <2>4
    <1>3. k - 1 \in G
        <2>1. k - 1 \in Nat /\ k - 1 \in 0 .. (k - 1)
            OBVIOUS
        <2> HIDE DEF G
        <2>2. \A j \in 0 .. (k - 1) : j \in G
            BY <1>1, <1>2, <2>1, Climb
        <2> QED BY <2>1, <2>2
    <1>4. PICK n \in Nat : On(k - 1, n)
        BY <1>3
    <1>5. n < k /\ n * limit < k /\ k <= n * limit + limit
        <2>1. n * limit \in Nat
            OBVIOUS
        <2> QED BY <1>4, <2>1
    <1> QED BY <1>5

\* A number is on one page, at one place of it.
LEMMA OnOnePage ==
    ASSUME NEW limit \in Nat \ {0}, NEW m \in Nat, NEW n \in Nat,
           NEW i \in 1 .. limit, NEW j \in 1 .. limit, m * limit + i = n * limit + j
    PROVE  m = n /\ i = j
    <1>1. \A a, b \in Nat : a < b => a * limit + limit <= b * limit
        <2> TAKE a, b \in Nat
        <2> HAVE a < b
        <2>1. PICK d \in Nat : b = a + 1 + d
            <3>1. b - a - 1 \in Nat /\ b = a + 1 + (b - a - 1)
                OBVIOUS
            <3> QED BY <3>1
        <2>2. (a + 1 + d) * limit = a * limit + limit + d * limit
            OBVIOUS
        <2>3. d * limit \in Nat /\ a * limit \in Nat
            OBVIOUS
        <2> QED BY <2>1, <2>2, <2>3
    <1>2. m * limit \in Nat /\ n * limit \in Nat
        OBVIOUS
    <1>3. ~(m < n) /\ ~(n < m)
        BY <1>1, <1>2
    <1>4. m = n
        BY <1>3
    <1> QED BY <1>2, <1>4

\* Page n has what the listing has behind its first n pages.
CutFrom(s, limit, pages) ==
    /\ DOMAIN pages = {n \in 0 .. Len(table) : n * limit < Cardinality(L!Selected)}
    /\ \A n \in DOMAIN pages :
          /\ DOMAIN pages[n] = {i \in 1 .. limit : n * limit + i <= Cardinality(L!Selected)}
          /\ \A i \in DOMAIN pages[n] : pages[n][i] = s[n * limit + i]

LEMMA PagesOfTheListing ==
    ASSUME ListCase, NEW limit \in Nat \ {0}, NEW pages \in L!ReadByPages(limit),
           NEW s, InOrder(s)
    PROVE  CutFrom(s, limit, pages)
    <1> DEFINE count == Cardinality(L!Selected)
               Ns == {n \in 0 .. Len(table) : n * limit < count}
    <1>1. count \in Nat /\ Len(table) \in Nat
        BY SelectedFinite
    <1>2. \E choice \in [Ns -> L!SqlListings] :
              pages = [n \in Ns |-> L!Page(choice[n], n * limit, limit)]
        BY SameCount DEF L!ReadByPages
    <1>3. PICK choice \in [Ns -> L!SqlListings] :
              pages = [n \in Ns |-> L!Page(choice[n], n * limit, limit)]
        BY <1>2
    <1>4. \A n \in Ns : choice[n] = s
        BY <1>3, AnswersInOrder, OneListing
    <1>5. DOMAIN pages = Ns /\ \A n \in Ns : pages[n] = L!Page(s, n * limit, limit)
        BY <1>3, <1>4
    <1>6. s \in [1 .. count -> L!Selected]
        BY ListingHasAll DEF InOrder
    <1>7. Len(s) = count
        BY <1>1, <1>6
    <1>8. ASSUME NEW n \in Ns
          PROVE  /\ DOMAIN pages[n] = {i \in 1 .. limit : n * limit + i <= count}
                 /\ \A i \in DOMAIN pages[n] : pages[n][i] = s[n * limit + i]
        <2> DEFINE o == n * limit
                   last == IF o + limit < count THEN o + limit ELSE count
        <2>1. pages[n] = SubSeq(s, o + 1, last)
            BY <1>5, <1>7 DEF L!Page
        <2>2. o \in Nat /\ o < count
            <3>1. n \in Nat
                BY <1>1
            <3> QED BY <3>1
        <2> HIDE DEF o, count
        <2>3. /\ last \in Nat /\ o < last /\ last <= count /\ last <= o + limit
              /\ o + 1 \in Int /\ last \in Int /\ o + 1 <= last /\ last - (o + 1) + 1 = last - o
              /\ \A i \in 1 .. limit : i \in 1 .. (last - o) <=> o + i <= count
            BY <1>1, <2>2
        <2>4. \A i \in (o + 1) .. last : s[i] \in L!Selected
            BY <1>1, <1>6, <2>2, <2>3
        <2> HIDE DEF last
        <2>5. /\ SubSeq(s, o + 1, last) \in Seq(L!Selected)
              /\ Len(SubSeq(s, o + 1, last)) = last - (o + 1) + 1
              /\ \A i \in 1 .. (last - (o + 1) + 1) : SubSeq(s, o + 1, last)[i] = s[o + 1 + i - 1]
            BY <2>3, <2>4, SubSeqProperties
        <2>6. \A i \in 1 .. (last - o) : o + 1 + i - 1 = o + i
            BY <2>2
        <2>7. /\ DOMAIN pages[n] = 1 .. (last - o)
              /\ \A i \in 1 .. (last - o) : pages[n][i] = s[o + i]
            <3> DEFINE q == SubSeq(s, o + 1, last)
            <3> HIDE DEF q
            <3>1. q \in Seq(L!Selected) /\ Len(q) = last - o
                BY <2>3, <2>5 DEF q
            <3>2. DOMAIN q = 1 .. (last - o)
                BY <3>1
            <3>3. \A i \in 1 .. (last - o) : q[i] = s[o + i]
                BY <2>3, <2>5, <2>6 DEF q
            <3> QED BY <2>1, <3>2, <3>3 DEF q
        <2>8. 1 .. (last - o) = {i \in 1 .. limit : o + i <= count}
            <3>1. \A i \in 1 .. (last - o) : i \in 1 .. limit
                BY <2>2, <2>3
            <3>2. \A i : i \in 1 .. (last - o) <=> i \in 1 .. limit /\ o + i <= count
                BY <2>3, <3>1
            <3> QED BY <3>2
        <2> QED BY <2>7, <2>8 DEF o
    <1> QED BY <1>5, <1>8 DEF CutFrom

\* The pages show each selected row, and none twice: for every size of a page.
LEMMA PagesShowAll ==
    ASSUME ListCase, NEW limit \in Nat \ {0}, NEW pages \in L!ReadByPages(limit)
    PROVE  L!Shown(pages) = L!Selected /\ L!ShownOnce(pages)
    <1> DEFINE count == Cardinality(L!Selected)
    <1>1. count \in Nat /\ Len(table) \in Nat /\ count <= Len(table)
        BY SelectedFinite
    <1>2. PICK s : InOrder(s)
        BY SomeListing
    <1>3. /\ s \in [1 .. count -> L!Selected]
          /\ \A i, j \in 1 .. count : s[i] = s[j] => i = j
          /\ \A x \in L!Selected : \E i \in 1 .. count : s[i] = x
        BY <1>2, ListingHasAll DEF InOrder
    <1>4. /\ DOMAIN pages = {n \in 0 .. Len(table) : n * limit < count}
          /\ \A n \in DOMAIN pages :
                /\ DOMAIN pages[n] = {i \in 1 .. limit : n * limit + i <= count}
                /\ \A i \in DOMAIN pages[n] : pages[n][i] = s[n * limit + i]
        <2>1. CutFrom(s, limit, pages)
            BY <1>2, PagesOfTheListing
        <2> QED BY <2>1 DEF CutFrom
    <1> HIDE DEF count
    <1>5. ASSUME NEW n \in DOMAIN pages, NEW i \in DOMAIN pages[n]
          PROVE  /\ n \in Nat /\ n * limit + i \in 1 .. count
                 /\ i \in 1 .. limit /\ pages[n][i] = s[n * limit + i]
        <2>1. n \in Nat /\ n * limit + i <= count /\ i \in 1 .. limit /\ pages[n][i] = s[n * limit + i]
            BY <1>1, <1>4
        <2>2. n * limit \in Nat
            BY <2>1
        <2>3. n * limit + i \in 1 .. count
            BY <1>1, <2>1, <2>2
        <2> QED BY <2>1, <2>3
    <1>6. L!ShownOnce(pages)
        <2> SUFFICES ASSUME NEW m \in DOMAIN pages, NEW n \in DOMAIN pages,
                            NEW i \in DOMAIN pages[m], NEW j \in DOMAIN pages[n],
                            pages[m][i] = pages[n][j]
                     PROVE  m = n /\ i = j
            BY DEF L!ShownOnce
        <2>1. m * limit + i = n * limit + j
            BY <1>3, <1>5
        <2> QED BY <1>5, <2>1, OnOnePage
    <1>7. \A x : x \in L!Shown(pages)
                  <=> \E n \in DOMAIN pages : \E i \in DOMAIN pages[n] : pages[n][i] = x
        BY DEF L!Shown
    <1>8. ASSUME NEW x \in L!Selected
          PROVE  \E n \in DOMAIN pages : \E i \in DOMAIN pages[n] : pages[n][i] = x
        <2>1. PICK k \in 1 .. count : s[k] = x
            BY <1>3
        <2>2. k \in Nat \ {0} /\ k <= count
            BY <1>1
        <2>3. PICK n \in Nat : n < k /\ n * limit < k /\ k <= n * limit + limit
            BY <2>2, OnAPage
        <2>4. n * limit \in Nat
            OBVIOUS
        <2>5. n \in DOMAIN pages
            <3>1. n \in 0 .. Len(table) /\ n * limit < count
                BY <1>1, <2>2, <2>3, <2>4
            <3> QED BY <1>4, <3>1
        <2>6. k - n * limit \in 1 .. limit /\ n * limit + (k - n * limit) = k
            BY <2>2, <2>3, <2>4
        <2>7. k - n * limit \in DOMAIN pages[n]
            BY <1>4, <2>2, <2>5, <2>6
        <2>8. pages[n][k - n * limit] = x
            BY <1>4, <2>1, <2>5, <2>6, <2>7
        <2> QED BY <2>5, <2>7, <2>8
    <1>9. ASSUME NEW n \in DOMAIN pages, NEW i \in DOMAIN pages[n] PROVE pages[n][i] \in L!Selected
        BY <1>3, <1>5
    <1> QED BY <1>6, <1>7, <1>8, <1>9

\* A request has one answer, its pages are that answer, and the three programs
\* give it alike: for every table of rows with ids of their own, and every sort,
\* of known and unknown fields, with the id among them or not.
THEOREM PagesAreOneListAlways ==
    ASSUME ListCase
    PROVE  L!PagesAreOneList
    <1>1. PICK s : InOrder(s)
        BY SomeListing
    <1>2. s \in L!Listings(L!Selected)
        BY <1>1 DEF InOrder
    <1>3. \A z : z \in L!SqlListings <=> z = s
        BY <1>1, AnswersInOrder, OneListing
    <1>4. L!SqlListings = {s}
        BY <1>3
    <1>5. \A limit \in 1 .. 2 : \A pages \in L!ReadByPages(limit) :
              L!Shown(pages) = L!Selected /\ L!ShownOnce(pages)
        BY PagesShowAll
    <1> QED BY <1>2, <1>4, <1>5, ThreeAgree DEF L!PagesAreOneList

ListInv == ListCase /\ text \in Seq(Chars) /\ needle \in Seq(Chars)

LEMMA ListInit == L!Init => ListInv
    <1> SUFFICES ASSUME L!Init PROVE ListInv
        OBVIOUS
    <1>1. <<>> \in Seq(ListRows) /\ <<>> \in Seq(SortKeys) /\ <<>> \in Seq(Chars) /\ DOMAIN <<>> = {}
        OBVIOUS
    <1>2. CASE table \in ATables /\ sort \in ASorts /\ text = <<>> /\ needle = <<>>
        <2>1. PICK g, h \in {0, 1}, a, b, c \in {0, 1, Null} :
                  table = <<Row(2, 0, a), Row(1, g, b), Row(3, h, c)>>
            BY <1>2 DEF ATables
        <2>2. /\ Row(2, 0, a) \in ListRows /\ Row(1, g, b) \in ListRows /\ Row(3, h, c) \in ListRows
              /\ Row(2, 0, a).id = 2 /\ Row(1, g, b).id = 1 /\ Row(3, h, c).id = 3
            BY DEF Row, ListRows, Values
        <2>3. \A U : \A x, y, z \in U : /\ <<x, y, z>> \in Seq(U) /\ DOMAIN <<x, y, z>> = 1 .. 3
                                       /\ <<x, y>> \in Seq(U) /\ <<x>> \in Seq(U)
            OBVIOUS
        <2>4. table \in Seq(ListRows) /\ DOMAIN table = 1 .. 3
            BY <2>1, <2>2, <2>3
        <2>5. table[1].id = 2 /\ table[2].id = 1 /\ table[3].id = 3
            BY <2>1, <2>2
        <2>6. \A m, n \in DOMAIN table : table[m].id = table[n].id => m = n
            BY <2>4, <2>5
        <2>7. Entries = SortKeys
            BY DEF Entries, SortKeys
        <2>8. sort \in Seq(SortKeys)
            <3>1. CASE sort = <<>>
                BY <1>1, <3>1
            <3>2. CASE sort \in {<<e>> : e \in Entries}
                BY <2>3, <2>7, <3>2
            <3>3. CASE sort \in {<<e, f>> : e \in {e \in Entries : e.field # "id"}, f \in Entries}
                <4>1. PICK e \in Entries, f \in Entries : sort = <<e, f>>
                    BY <3>3
                <4> QED BY <2>3, <2>7, <4>1
            <3> QED BY <1>2, <3>1, <3>2, <3>3 DEF ASorts
        <2> QED BY <1>1, <1>2, <2>4, <2>6, <2>8 DEF ListInv, ListCase
    <1>3. CASE table = <<>> /\ sort = <<>> /\ text \in ATexts /\ needle \in ANeedles
        <2>1. \A n \in Nat : Strings(n) \subseteq Seq(Chars)
            BY DEF Strings
        <2>2. text \in Seq(Chars) /\ needle \in Seq(Chars)
            BY <1>3, <2>1 DEF ATexts, ANeedles
        <2> QED BY <1>1, <1>3, <2>2 DEF ListInv, ListCase
    <1> QED BY <1>2, <1>3 DEF L!Init

LEMMA ListsFaithfulAlways == ListInv => L!ListIsFaithful
    <1> SUFFICES ASSUME ListInv PROVE L!ListIsFaithful
        OBVIOUS
    <1>1. L!PagesAreOneList
        BY PagesAreOneListAlways DEF ListInv
    <1>2. {"\\", "%"} \subseteq Chars
        BY DEF Chars
    <1>3. L!SearchIsLiteral
        BY <1>2, SearchIsLiteralAlways DEF ListInv, L!SearchIsLiteral
    <1> QED BY <1>1, <1>3 DEF L!ListIsFaithful

-----------------------------------------------------------------------------
(* The parts together.                                                     *)

StorageInv ==
    /\ part = "backup" => BackupInv
    /\ part = "attachments" => AttachmentsInv
    /\ part = "writes" => WritesInv
    /\ part = "placement" => DiskOK(Elements)
    /\ part = "list" => ListInv

LEMMA StorageInit == PartsInit => StorageInv
    BY BackupInit, AttachmentsInit, WritesInit, PlacementInit, ListInit
       DEF PartsInit, StorageInv

LEMMA StorageNext ==
    StorageInv /\ [PartsNext]_<<part, backupVars, attachmentVars, vars, writeVars, caseVars>>
        => StorageInv'
    <1> SUFFICES ASSUME StorageInv,
                        [PartsNext]_<<part, backupVars, attachmentVars, vars, writeVars, caseVars>>
                 PROVE  StorageInv'
        OBVIOUS
    <1>1. part' = part
        BY DEF PartsNext
    <1>2. ASSUME part = "backup" PROVE BackupInv'
        <2>1. BackupInv
            BY <1>2 DEF StorageInv
        <2>2. B!Next \/ UNCHANGED backupVars
            BY <1>2 DEF PartsNext
        <2>3. ASSUME UNCHANGED backupVars PROVE BackupInv'
            <3>1. /\ UNCHANGED <<main, wal, files, pend, req, boot, written, starts, excused, refused>>
                  /\ B!Live' = B!Live
                BY <2>3 DEF backupVars, B!Live
            <3>2. BackupTypes' /\ LogInv' /\ StagedInv' /\ B!RestoredIsSound'
                BY <2>1, <3>1 DEF BackupInv, BackupTypes, LogInv, StagedInv, B!RestoredIsSound
            <3>3. StepInv'
                BY <2>1, <3>1 DEF BackupInv, StepInv, Copied
            <3>4. B!CommittedSurvives'
                BY <2>1, <3>1 DEF BackupInv, B!CommittedSurvives
            <3> QED BY <3>2, <3>3, <3>4 DEF BackupInv
        <2> QED BY <2>1, <2>2, <2>3, BackupNext
    <1>3. ASSUME part = "writes" PROVE WritesInv'
        <2>1. WritesInv
            BY <1>3 DEF StorageInv
        <2>2. W!Next \/ UNCHANGED writeVars
            BY <1>3 DEF PartsNext
        <2>3. ASSUME UNCHANGED writeVars PROVE WritesInv'
            BY <2>1, <2>3 DEF writeVars, WritesInv, WriteTypes, ServedInv, Warranted, TheRequest,
                              IsRequest, OnTrack, Assured, Pc, W!EveryWriteIsTold,
                              W!NothingElseIsTold
        <2> QED BY <2>1, <2>2, <2>3, WritesNext
    <1>4. ASSUME part = "attachments" PROVE AttachmentsInv'
        <2>1. AttachmentsInv
            BY <1>4 DEF StorageInv
        <2>2. A!Next \/ UNCHANGED attachmentVars
            BY <1>4 DEF PartsNext
        <2> QED BY <2>1, <2>2, AttachmentsNext
    <1>5. ASSUME part = "placement" PROVE DiskOK(Elements)'
        <2>1. DiskOK(Elements) /\ UNCHANGED <<disk, exe>>
            BY <1>5 DEF StorageInv, PartsNext, caseVars
        <2>2. \A path : P!FinalPath(path)' = P!FinalPath(path)
            BY <2>1 DEF P!FinalPath
        <2> QED BY <2>1, <2>2 DEF DiskOK
    <1>6. ASSUME part = "list" PROVE ListInv'
        <2>1. ListInv /\ UNCHANGED <<table, sort, text, needle>>
            BY <1>6 DEF StorageInv, PartsNext, caseVars
        <2> QED BY <2>1 DEF ListInv, ListCase
    <1> QED BY <1>1, <1>2, <1>3, <1>4, <1>5, <1>6 DEF StorageInv

LEMMA StorageInvHolds == PartsSpec => []StorageInv
    BY StorageInit, StorageNext, PTL DEF PartsSpec

\* At every moment of a restore, and of the starts that carry it out, crash or
\* fail, what was committed is in the database or in a copy a person can find,
\* and what took its place was valid and complete: for any number of requests,
\* names, writes, restores and starts (backup.rs, apply_pending_restore).
THEOREM RestoresAreSafe == PartsSpec => []RestoreIsSafe
    <1>1. StorageInv => RestoreIsSafe
        BY DEF StorageInv, BackupInv, RestoreIsSafe, B!RestoreIsSafe
    <1> QED BY <1>1, StorageInvHolds, PTL

\* An upload that was answered keeps its own bytes and thumbnail under its id
\* until it is deleted, whatever uploads, deletions, imports, dropped requests
\* and restores there are next to it: crates/banto-attachments.
THEOREM AttachmentsAreKept == PartsSpec => []AttachmentKeepsItsBody
    <1>1. StorageInv => AttachmentKeepsItsBody
        BY AttachmentsSound DEF StorageInv, AttachmentKeepsItsBody
    <1> QED BY <1>1, StorageInvHolds, PTL

\* Whatever happens to accounts and sessions between the steps of a handler,
\* nothing is written or read out for a caller that did not have the handler's
\* role at some moment of it: require_auth, require_role_at_least, require_role.
THEOREM OnlyWarrantedWrites == PartsSpec => []WritesAreWarranted
    <1>1. StorageInv => WritesAreWarranted
        BY WritesSound DEF StorageInv, WritesAreWarranted
    <1> QED BY <1>1, StorageInvHolds, PTL

\* An answered write has one record that names its caller, or over REST nobody
\* once the session is over; a record tells of nothing else; and both entrances
\* have the same floors and say the same: audit.rs, routes/*.rs, lib.rs.
THEOREM TheTrailIsTrue == PartsSpec => []TrailIsTrue
    <1>1. StorageInv => TrailIsTrue
        BY WritesSound DEF StorageInv, TrailIsTrue
    <1> QED BY <1>1, StorageInvHolds, PTL

\* A helper and a main exe that are accepted, and all above them, are where only
\* the trusted may write, and the three programs that judge a place agree: on
\* every disk of PlacementCases, of which no more is used than that its final
\* paths are final (elev/src/placement.rs, win.rs).
THEOREM PlacementsAreSound == PartsSpec => []PlacementIsSound
    <1>1. StorageInv => PlacementIsSound
        BY AcceptedIsTrustedAlways, JudgesAgreeAlways
           DEF StorageInv, PlacementIsSound, P!PlacementIsSound
    <1> QED BY <1>1, StorageInvHolds, PTL

\* A list is one list, whatever is asked: a query with a unique last key has one
\* answer, its pages read one after the other show each selected row once, and
\* the in-memory provider and the grid's sort give the same; and a text is looked
\* for as it is.  The steps hold for any table of rows with ids of their own, any
\* sort, and texts of any length (list_query.rs, inMemory.ts, sort.ts).
THEOREM ListsAreFaithful == PartsSpec => []ListIsFaithful
    <1>1. StorageInv => ListIsFaithful
        BY ListsFaithfulAlways DEF StorageInv, ListIsFaithful
    <1> QED BY <1>1, StorageInvHolds, PTL
=============================================================================
