------------------------- MODULE AuthSessionsProofs -------------------------
(***************************************************************************)
(* Proofs about AuthSessions, for any number of accounts, tokens and       *)
(* concurrent requests and any bounds.                                     *)
(***************************************************************************)
EXTENDS AuthSessions, TLAPS

-----------------------------------------------------------------------------
(* Type correctness.                                                       *)

\* The initial tables, and requests that have not begun, are well typed.
LEMMA InitTyped == Init => TypeOK
    <1> SUFFICES ASSUME Init PROVE TypeOK
        OBVIOUS
    <1>1. PICK ids \in InitialIds :
            /\ store = [u \in Users |-> IF ids[u] = 0 THEN NoAccount
                                        ELSE [id |-> ids[u], epoch |-> 0,
                                              role |-> Admin, hash |-> 0]]
            /\ newest = ids
        BY DEF Init
    <1>2. ASSUME NEW u \in Users PROVE store[u] \in Account \cup {NoAccount}
        <2>1. ids[u] \in Nat
            BY InitialIdsArePast
        <2> QED BY <1>1, <2>1, AdminIsARole DEF Account
    <1>3. /\ store \in [Users -> Account \cup {NoAccount}]
          /\ newest \in [Users -> Nat]
        BY <1>1, <1>2, InitialIdsArePast
    <1>4. nextId \in Nat \ {0} /\ nextHash \in Nat \ {0}
        BY InitialIdsArePast DEF Init
    <1>5. /\ tokens \in [Tokens -> Record \cup {NoRecord}]
          /\ issued \subseteq Tokens
          /\ proven \in [Tokens -> Nat]
        BY DEF Init
    <1>6. /\ pc \in [Procs -> Phase]
          /\ tok \in [Procs -> Tokens \cup {NoToken}]
          /\ usr \in [Procs -> Users \cup {NoUser}]
          /\ row \in [Procs -> Account \cup {NoAccount}]
          /\ seen \in [Procs -> Stamp \cup {NoStamp}]
          /\ cred \in [Procs -> Account \cup {NoAccount}]
          /\ claim \in [Procs -> Nat]
          /\ live \in [Procs -> BOOLEAN]
        BY DEF Init, Phase
    <1> QED BY <1>3, <1>4, <1>5, <1>6 DEF TypeOK

\* TypeOK without the history variable that Observe sets, and what a request
\* holds at each point: together they are inductive.
Typed ==
    /\ store \in [Users -> Account \cup {NoAccount}]
    /\ nextId \in Nat \ {0}
    /\ nextHash \in Nat \ {0}
    /\ tokens \in [Tokens -> Record \cup {NoRecord}]
    /\ issued \subseteq Tokens
    /\ proven \in [Tokens -> Nat]
    /\ pc \in [Procs -> Phase]
    /\ tok \in [Procs -> Tokens \cup {NoToken}]
    /\ usr \in [Procs -> Users \cup {NoUser}]
    /\ row \in [Procs -> Account \cup {NoAccount}]
    /\ seen \in [Procs -> Stamp \cup {NoStamp}]
    /\ cred \in [Procs -> Account \cup {NoAccount}]
    /\ claim \in [Procs -> Nat]
    /\ newest \in [Users -> Nat]

AllLocated == \A p \in Procs : Located(p)

\* What Finish leaves behind is well typed.
LEMMA FinishTyped ==
    ASSUME Typed, NEW p \in Procs, Finish(p)
    PROVE  /\ pc' \in [Procs -> Phase]
           /\ tok' \in [Procs -> Tokens \cup {NoToken}]
           /\ usr' \in [Procs -> Users \cup {NoUser}]
           /\ row' \in [Procs -> Account \cup {NoAccount}]
           /\ seen' \in [Procs -> Stamp \cup {NoStamp}]
           /\ cred' \in [Procs -> Account \cup {NoAccount}]
           /\ claim' \in [Procs -> Nat]
    BY DEF Typed, Finish, Phase

\* A password write, a role change and a new row are rows.
LEMMA RowsTyped ==
    ASSUME Typed, NEW u \in Users, NEW r \in Roles
    PROVE  /\ NewAccount(r) \in Account /\ NewAccount(r) # NoAccount
           /\ store[u] # NoAccount =>
                /\ store[u] \in Account
                /\ Rehashed(store[u]) \in Account
                /\ Rehashed(store[u]) # NoAccount
                /\ Reroled(store[u], r) \in Account
                /\ StampOf(store[u]) \in Stamp
    <1>1. NewAccount(r) \in Account
        BY DEF Typed, NewAccount, Account
    <1>2. ASSUME store[u] # NoAccount
          PROVE  /\ store[u] \in Account
                 /\ Rehashed(store[u]) \in Account
                 /\ Reroled(store[u], r) \in Account
                 /\ StampOf(store[u]) \in Stamp
        BY <1>2 DEF Typed, Account, Stamp, Rehashed, Reroled, StampOf
    <1> QED BY <1>1, <1>2, NullsAreFresh DEF Account

\* What Next does, one step per action, keeps every table well typed.
LEMMA StoreStepTyped == ASSUME Typed, AllLocated, StoreStep PROVE Typed' /\ AllLocated'
    <1>a. \A u \in Users, r \in Roles :
            /\ NewAccount(r) \in Account
            /\ store[u] # NoAccount =>
                /\ Rehashed(store[u]) \in Account
                /\ Reroled(store[u], r) \in Account
        BY RowsTyped
    <1> USE SubjectsAreUsers DEF Typed, AllLocated, Located
    <1>1. PICK u \in Subjects :
            \/ \E r \in Roles : CreateUser(u, r) \/ UpdateUser(u, r)
            \/ ResetPassword(u)
            \/ DeleteUser(u)
            \/ IssueUnstamped(u)
        BY DEF StoreStep
    <1> u \in Users
        OBVIOUS
    <1>2. ASSUME NEW r \in Roles, CreateUser(u, r) PROVE Typed' /\ AllLocated'
        BY <1>2, <1>a DEF CreateUser, InsertUser, tokenVars, procVars
    <1>3. ASSUME NEW r \in Roles, UpdateUser(u, r) PROVE Typed' /\ AllLocated'
        BY <1>3, <1>a DEF UpdateUser, tokenVars, procVars
    <1>4. CASE ResetPassword(u)
        BY <1>4, <1>a, AdminIsARole DEF ResetPassword, tokenVars, procVars
    <1>5. CASE DeleteUser(u)
        BY <1>5 DEF DeleteUser, tokenVars, procVars
    <1>6. CASE IssueUnstamped(u)
        BY <1>6, NullsAreFresh DEF IssueUnstamped, Account, Record, storeVars, procVars
    <1> QED BY <1>1, <1>2, <1>3, <1>4, <1>5, <1>6

LEMMA TokenStepTyped == ASSUME Typed, AllLocated, TokenStep PROVE Typed' /\ AllLocated'
    BY DEF TokenStep, Logout, Expire, Drop, Typed, AllLocated, Located, storeVars, procVars

LEMMA RequestStepTyped ==
    ASSUME Typed, AllLocated, NEW p \in Procs, RequestStep(p)
    PROVE  Typed' /\ AllLocated'
    <1>a. /\ NewAccount(Admin) \in Account /\ NewAccount(Admin) # NoAccount
          /\ \A u \in Users : store[u] # NoAccount =>
                /\ Rehashed(store[u]) \in Account
                /\ Rehashed(store[u]) # NoAccount
        BY AdminIsARole, NullsAreFresh
           DEF Typed, NewAccount, Rehashed, Account
    <1> USE SubjectsAreUsers DEF Typed, AllLocated, Located
    <1>1. ASSUME NEW u \in Users, LoginPreRead(p, u) PROVE Typed' /\ AllLocated'
        BY <1>1 DEF LoginPreRead, Phase, storeVars, tokenVars
    <1>2. ASSUME NEW u \in Users, Setup(p, u) PROVE Typed' /\ AllLocated'
        BY <1>2, <1>a
           DEF Setup, InsertUser, Phase, tokenVars
    <1>3. CASE LoginVerify(p)
        BY <1>3, FinishTyped DEF LoginVerify, Phase, storeVars, tokenVars, Finish
    <1>4. CASE LoginIssue(p)
        <2>1. PICK t \in Tokens : /\ issued' = issued \cup {t}
                                  /\ proven' = [proven EXCEPT ![t] = cred[p].hash]
                                  /\ tokens' = [tokens EXCEPT ![t] =
                                        [user |-> usr[p], role |-> cred[p].role,
                                         stamp |-> StampOf(row[p])]]
            BY <1>4 DEF LoginIssue
        <2>2. /\ usr[p] \in Users /\ cred[p] \in Account
              /\ StampOf(row[p]) \in Stamp
            BY <1>4 DEF LoginIssue, StampOf, Stamp, Account
        <2> QED BY <1>4, <2>1, <2>2, FinishTyped
               DEF LoginIssue, Account, Record, storeVars, Finish
    <1>5. ASSUME NEW t \in Tokens, AuthBegin(p, t) PROVE Typed' /\ AllLocated'
        BY <1>5, NullsAreFresh DEF AuthBegin, Record, Phase, storeVars, tokenVars
    <1>6. CASE RevokeUnstamped(p)
        <2>1. tokens' \in [Tokens -> Record \cup {NoRecord}]
            BY <1>6 DEF RevokeUnstamped, Drop
        <2> QED BY <1>6, <2>1, FinishTyped DEF RevokeUnstamped, storeVars, Finish
    <1>7. CASE AuthLookup(p)
        BY <1>7, FinishTyped DEF AuthLookup, Phase, storeVars, tokenVars, Finish
    <1>8. CASE AuthAccept(p)
        BY <1>8, SMTT(30) DEF AuthAccept, Matches, Record, Account, Phase, storeVars
    <1>9. CASE SettleRevoke(p)
        BY <1>9, FinishTyped DEF SettleRevoke, Drop, storeVars, Finish
    <1>10. CASE SettleRebound(p)
        <2>1. CASE Finish(p) /\ UNCHANGED tokens
            BY <1>10, <2>1, FinishTyped DEF SettleRebound, storeVars, Finish
        <2>2. CASE ~(Finish(p) /\ UNCHANGED tokens)
            <3>1. /\ row[p] # NoAccount
                  /\ tokens[tok[p]] # NoRecord
                  /\ tokens' = [tokens EXCEPT ![tok[p]].role = row[p].role]
                  /\ seen' = [seen EXCEPT ![p] = StampOf(row[p])]
                  /\ pc' = [pc EXCEPT ![p] = "handling"]
                  /\ UNCHANGED <<tok, usr, row, cred, claim>>
                BY <1>10, <2>2 DEF SettleRebound
            <3>2. StampOf(row[p]) \in Stamp /\ row[p].role \in Roles
                BY <3>1 DEF StampOf, Stamp, Account
            <3>3. tokens' \in [Tokens -> Record \cup {NoRecord}]
                <4>1. tokens[tok[p]] \in Record => [tokens[tok[p]] EXCEPT !.role = row[p].role] \in Record
                    BY <3>2 DEF Record
                <4>2. tok[p] \in Tokens => tokens[tok[p]] \in Record
                    BY <3>1
                <4> QED BY <3>1, <4>1, <4>2
            <3> QED BY <1>10, <3>1, <3>2, <3>3, NullsAreFresh
                   DEF SettleRebound, Phase, Stamp, storeVars
        <2> QED BY <2>1, <2>2
    <1>11. CASE PwSelect(p)
        BY <1>11 DEF PwSelect, Phase, storeVars, tokenVars
    <1>12. CASE PwUpdate(p)
        BY <1>12, FinishTyped, <1>a
           DEF PwUpdate, HashUnchanged, Phase, tokenVars, Finish
    <1>13. CASE PwRotate(p)
        <2>1. /\ seen[p].id \in Nat /\ cred[p].epoch \in Nat /\ cred[p].hash \in Nat
              /\ tok[p] \in Tokens
            BY <1>13 DEF PwRotate, Stamp, Account
        <2>2. tokens' \in [Tokens -> Record \cup {NoRecord}]
            BY <1>13, <2>1 DEF PwRotate, StillBound, Record, Stamp
        <2>3. proven' \in [Tokens -> Nat]
            BY <1>13, <2>1 DEF PwRotate
        <2> QED BY <1>13, <2>2, <2>3, FinishTyped DEF PwRotate, storeVars, Finish
    <1>14. CASE Done(p)
        BY <1>14, FinishTyped DEF Done, storeVars, tokenVars, Finish
    <1> QED BY <1>1, <1>2, <1>3, <1>4, <1>5, <1>6, <1>7, <1>8, <1>9, <1>10,
               <1>11, <1>12, <1>13, <1>14 DEF RequestStep

LEMMA NextTyped == TypeOK /\ AllLocated /\ [Next]_vars => (TypeOK /\ AllLocated)'
    <1> SUFFICES ASSUME TypeOK, AllLocated, [Next]_vars PROVE (TypeOK /\ AllLocated)'
        OBVIOUS
    <1>1. CASE Next
        <2>1. Typed
            BY DEF TypeOK, Typed
        <2>2. Typed' /\ AllLocated'
            BY <1>1, <2>1, StoreStepTyped, TokenStepTyped, RequestStepTyped
               DEF Next, Step
        <2>3. live' \in [Procs -> BOOLEAN]
            BY <1>1 DEF Next, Observe
        <2> QED BY <2>2, <2>3 DEF Typed, TypeOK
    <1>2. CASE UNCHANGED vars
        BY <1>2 DEF TypeOK, AllLocated, Located, vars, storeVars, tokenVars, procVars
    <1> QED BY <1>1, <1>2

\* Every reachable state is well typed.
THEOREM TypeCorrect == Spec => []TypeOK
    <1>1. Init => TypeOK /\ AllLocated
        BY InitTyped DEF Init, AllLocated, Located
    <1> QED BY <1>1, NextTyped, PTL DEF Spec

-----------------------------------------------------------------------------
(* LiveSessionProvesCurrentPassword.                                       *)

\* What a step may do to the table: a username's row is new, under an id past
\* all it had; or it keeps its epoch, password and role; or it moves its epoch;
\* or it goes.
StoreAdvance ==
    \A u \in Users :
        /\ newest[u] <= newest'[u] /\ newest'[u] < nextId'
        /\ store'[u] # NoAccount =>
            /\ store'[u].id = newest'[u]
            /\ \/ newest[u] < newest'[u]
               \/ /\ store[u] # NoAccount /\ store'[u].id = store[u].id
                  /\ \/ /\ store'[u].epoch = store[u].epoch
                        /\ store'[u].hash = store[u].hash
                        /\ store'[u].role = store[u].role
                     \/ store'[u].epoch = store[u].epoch + 1

\* What a step may do to the tokens: none that was issued comes back or
\* changes hands.
TokenAdvance ==
    /\ issued \subseteq issued'
    /\ \A t \in issued : tokens'[t] # NoRecord =>
        tokens[t] # NoRecord /\ tokens'[t].user = tokens[t].user

LEMMA StoreAdvances == ASSUME Typed, AllLocated, RowsInv, Step PROVE StoreAdvance
    <1> USE SubjectsAreUsers DEF Typed, RowsInv, StoreAdvance
    <1>1. ASSUME UNCHANGED storeVars PROVE StoreAdvance
        BY <1>1 DEF storeVars
    <1>2. ASSUME NEW u \in Users, NEW r \in Roles, InsertUser(u, r), store[u] = NoAccount
          PROVE  StoreAdvance
        BY <1>2 DEF InsertUser, NewAccount
    <1>3. ASSUME NEW u \in Users, NEW a, store[u] # NoAccount,
                 store' = [store EXCEPT ![u] = a], UNCHANGED <<nextId, newest>>,
                 a # NoAccount =>
                    /\ a.id = store[u].id
                    /\ \/ /\ a.epoch = store[u].epoch /\ a.hash = store[u].hash
                          /\ a.role = store[u].role
                       \/ a.epoch = store[u].epoch + 1
          PROVE  StoreAdvance
        BY <1>3
    <1>4. CASE StoreStep
        <2>1. ASSUME NEW u \in Users, NEW r \in Roles, CreateUser(u, r)
              PROVE  StoreAdvance
            BY <2>1, <1>2 DEF CreateUser
        <2>2. ASSUME NEW u \in Users, NEW r \in Roles, UpdateUser(u, r)
              PROVE  StoreAdvance
            BY <2>2, <1>3 DEF UpdateUser, Reroled
        <2>3. ASSUME NEW u \in Users, ResetPassword(u) PROVE StoreAdvance
            BY <2>3, <1>3 DEF ResetPassword, Rehashed
        <2>4. ASSUME NEW u \in Users, DeleteUser(u) PROVE StoreAdvance
            BY <2>4, <1>3 DEF DeleteUser
        <2>5. ASSUME NEW u \in Users, IssueUnstamped(u) PROVE StoreAdvance
            BY <2>5, <1>1 DEF IssueUnstamped
        <2> QED BY <1>4, <2>1, <2>2, <2>3, <2>4, <2>5 DEF StoreStep
    <1>5. CASE TokenStep
        BY <1>5, <1>1 DEF TokenStep, Logout, Expire
    <1>6. ASSUME NEW p \in Procs, RequestStep(p) PROVE StoreAdvance
        <2>1. ASSUME NEW u \in Users, Setup(p, u) PROVE StoreAdvance
            BY <2>1, <1>2, AdminIsARole DEF Setup, IsInitialized
        <2>2. CASE PwUpdate(p)
            <3>1. usr[p] \in Users
                BY <2>2 DEF PwUpdate, AllLocated, Located
            <3> QED BY <2>2, <3>1, <1>3 DEF PwUpdate, HashUnchanged, Rehashed
        <2>3. ASSUME UNCHANGED storeVars PROVE StoreAdvance
            BY <2>3, <1>1
        <2> QED BY <1>6, <2>1, <2>2, <2>3
               DEF RequestStep, LoginPreRead, LoginVerify, LoginIssue, AuthBegin,
                   RevokeUnstamped, AuthLookup, AuthAccept, SettleRevoke,
                   SettleRebound, PwSelect, PwRotate, Done
    <1> QED BY <1>4, <1>5, <1>6 DEF Step

LEMMA TokensAdvance == ASSUME Typed, Step PROVE TokenAdvance
    <1> USE DEF Typed, TokenAdvance
    <1>1. CASE StoreStep
        BY <1>1 DEF StoreStep, CreateUser, UpdateUser, ResetPassword, DeleteUser,
                    IssueUnstamped, tokenVars
    <1>2. CASE TokenStep
        BY <1>2 DEF TokenStep, Logout, Expire, Drop
    <1>3. ASSUME NEW p \in Procs, RequestStep(p) PROVE TokenAdvance
        <2>1. CASE LoginIssue(p)
            BY <2>1 DEF LoginIssue
        <2>2. CASE AuthAccept(p) \/ SettleRebound(p)
            BY <2>2 DEF AuthAccept, SettleRebound, Record
        <2>3. CASE RevokeUnstamped(p) \/ SettleRevoke(p)
            BY <2>3 DEF RevokeUnstamped, SettleRevoke, Drop
        <2>4. CASE PwRotate(p)
            BY <2>4 DEF PwRotate, StillBound, Record
        <2>5. CASE UNCHANGED <<tokens, issued>>
            BY <2>5
        <2> QED BY <1>3, <2>1, <2>2, <2>3, <2>4, <2>5
               DEF RequestStep, LoginPreRead, LoginVerify, Setup, AuthBegin,
                   AuthLookup, PwSelect, PwUpdate, Done, tokenVars
    <1> QED BY <1>1, <1>2, <1>3 DEF Step

\* What was read before stays in the past.
LEMMA PastKept ==
    ASSUME Typed, Typed', StoreAdvance, NEW u \in Users,
           NEW a, a.id \in Nat, a.epoch \in Nat, Past(a, u)
    PROVE  Past(a, u)'
    BY DEF Typed, StoreAdvance, Past, Account

\* A past stamp the account has after a step, it had before it: the row is the
\* same.
LEMMA UnchangedSince ==
    ASSUME Typed, Typed', StoreAdvance, NEW u \in Users,
           NEW a, a.id \in Nat, a.epoch \in Nat, Past(a, u),
           store'[u] # NoAccount, a.id = store'[u].id, a.epoch = store'[u].epoch
    PROVE  /\ store[u] # NoAccount
           /\ store[u].id = a.id /\ store[u].epoch = a.epoch
           /\ store'[u].hash = store[u].hash /\ store'[u].role = store[u].role
    <1>1. newest[u] \in Nat /\ newest'[u] \in Nat /\ a.id <= newest[u]
        BY DEF Typed, Past
    <1>2. newest[u] >= newest'[u]
        BY <1>1 DEF StoreAdvance
    <1>3. store[u] # NoAccount /\ store[u].id = a.id /\ a.epoch <= store[u].epoch
        BY <1>1, <1>2 DEF StoreAdvance, Past
    <1>4. store[u] \in Account /\ store[u].epoch \in Nat
        BY <1>3 DEF Typed, Account
    <1> QED BY <1>1, <1>2, <1>3, <1>4 DEF StoreAdvance

\* What follows a copy of the present row is a copy of it too.
LEMMA FollowsNow ==
    ASSUME Typed, RowsInv, NEW u \in Users, store[u] # NoAccount,
           NEW a \in Account, NEW b \in Account,
           PastRow(b, u), Follows(b, a), a.id = store[u].id
    PROVE  b.id = store[u].id /\ a.epoch <= b.epoch /\ b.epoch <= store[u].epoch
    <1>1. b.id <= store[u].id
        BY DEF PastRow, Past, RowsInv
    <1>2. a.id \in Nat /\ b.id \in Nat
        BY DEF Account
    <1> QED BY <1>1, <1>2 DEF PastRow, Past, Follows

LEMMA PastRowKept ==
    ASSUME Typed, Typed', StoreAdvance, NEW u \in Users,
           NEW a \in Account, PastRow(a, u)
    PROVE  PastRow(a, u)'
    <1>1. Past(a, u)'
        BY PastKept DEF PastRow, Account
    <1>2. ASSUME store'[u] # NoAccount, StampOf(a) = StampOf(store'[u])
          PROVE  a.hash = store'[u].hash /\ a.role = store'[u].role
        BY <1>2 DEF Typed, StoreAdvance, PastRow, Past, StampOf, Account
    <1> QED BY <1>1, <1>2 DEF PastRow, StampOf

\* A token that keeps its binding keeps its invariant.
LEMMA TokenKept ==
    ASSUME Typed, Typed', StoreAdvance, TokenAdvance, NEW t \in Tokens,
           tokens[t] # NoRecord, TokenInv(t),
           tokens'[t] # NoRecord, tokens'[t].user = tokens[t].user,
           tokens'[t].stamp = tokens[t].stamp, proven'[t] = proven[t]
    PROVE  TokenInv(t)'
    <1> DEFINE u == tokens[t].user
               s == tokens[t].stamp
    <1>1. u \in Users /\ (s # NoStamp => s.id \in Nat /\ s.epoch \in Nat)
        BY DEF Typed, Record, Stamp
    <1>2. s # NoStamp => Past(s, u)'
        BY <1>1, PastKept DEF TokenInv
    <1>3. ASSUME Bound(t)' PROVE proven'[t] = store'[u].hash
        <2>1. s \in Stamp /\ s # NoStamp /\ s = StampOf(store'[u]) /\ store'[u] # NoAccount
            BY <1>3, <1>1, NullsAreFresh DEF Bound, StampOf, Typed, Account, Stamp
        <2>2. s.id = store'[u].id /\ s.epoch = store'[u].epoch
            BY <2>1 DEF StampOf
        <2>3. /\ store[u] # NoAccount /\ s.id = store[u].id
              /\ s.epoch = store[u].epoch /\ store'[u].hash = store[u].hash
            BY <1>1, <2>1, <2>2, UnchangedSince DEF TokenInv
        <2>4. Bound(t)
            BY <1>1, <2>1, <2>3 DEF Bound, StampOf, Stamp
        <2> QED BY <2>3, <2>4 DEF TokenInv
    <1> QED BY <1>2, <1>3 DEF TokenInv, TokenAdvance, Past

\* The row a table holds now is a past row from now on.
LEMMA CurrentIsPast ==
    ASSUME Typed, RowsInv, NEW u \in Users, store[u] # NoAccount
    PROVE  PastRow(store[u], u) /\ Follows(store[u], store[u])
    BY DEF Typed, RowsInv, PastRow, Past, Follows, Account

\* What a request keeps of its locals stays true of them.
LEMMA RowKept ==
    ASSUME IInv, Typed, AllLocated, Typed', StoreAdvance, NEW p \in Procs,
           row'[p] = row[p], usr'[p] = usr[p]
    PROVE  (row[p] # NoAccount => PastRow(row[p], usr[p]))'
    <1> SUFFICES ASSUME row[p] # NoAccount PROVE PastRow(row[p], usr[p])'
        OBVIOUS
    <1>1. usr[p] \in Users /\ row[p] \in Account /\ PastRow(row[p], usr[p])
        BY DEF IInv, RequestInv, AllLocated, Located, Typed
    <1>2. \A a \in Account, u \in Users :
            PastRow(a, u) => PastRow(a, u)'
        BY PastRowKept
    <1> QED BY <1>1, <1>2 DEF PastRow, Past

LEMMA CredKept ==
    ASSUME IInv, Typed, AllLocated, Typed', StoreAdvance, NEW p \in Procs,
           cred'[p] = cred[p], usr'[p] = usr[p]
    PROVE  (cred[p] # NoAccount => PastRow(cred[p], usr[p]))'
    <1> SUFFICES ASSUME cred[p] # NoAccount PROVE PastRow(cred[p], usr[p])'
        OBVIOUS
    <1>1. usr[p] \in Users /\ cred[p] \in Account /\ PastRow(cred[p], usr[p])
        BY DEF IInv, RequestInv, AllLocated, Located, Typed
    <1>2. \A a \in Account, u \in Users :
            PastRow(a, u) => PastRow(a, u)'
        BY PastRowKept
    <1> QED BY <1>1, <1>2 DEF PastRow, Past

LEMMA SeenKept ==
    ASSUME IInv, Typed, AllLocated, Typed', StoreAdvance, NEW p \in Procs,
           seen'[p] = seen[p], usr'[p] = usr[p]
    PROVE  (seen[p] # NoStamp => Past(seen[p], usr[p]))'
    <1> SUFFICES ASSUME seen[p] # NoStamp PROVE Past(seen[p], usr[p])'
        OBVIOUS
    <1>1. usr[p] \in Users /\ seen[p] \in Stamp /\ Past(seen[p], usr[p])
        BY DEF IInv, RequestInv, AllLocated, Located, Typed
    <1>2. \A a \in Stamp, u \in Users : Past(a, u) => Past(a, u)'
        BY PastKept DEF Stamp
    <1> QED BY <1>1, <1>2 DEF Past

SameLocals(p) ==
    /\ pc'[p] = pc[p] /\ tok'[p] = tok[p] /\ usr'[p] = usr[p]
    /\ row'[p] = row[p] /\ seen'[p] = seen[p] /\ cred'[p] = cred[p]

TokHeld(p) ==
    tok[p] # NoToken =>
        /\ tok[p] \in issued
        /\ tokens[tok[p]] # NoRecord => tokens[tok[p]].user = usr[p]

LEMMA TokKept ==
    ASSUME IInv, TokenAdvance, NEW p \in Procs,
           tok'[p] = tok[p], usr'[p] = usr[p]
    PROVE  TokHeld(p)'
    BY DEF IInv, RequestInv, TokenAdvance, TokHeld

LEMMA SameLocalsKept ==
    ASSUME IInv, Typed, AllLocated, Typed', StoreAdvance, TokenAdvance,
           NEW p \in Procs, SameLocals(p)
    PROVE  RequestInv(p)'
    BY RowKept, CredKept, TokKept, SeenKept
       DEF SameLocals, IInv, RequestInv, TokHeld, Follows, StampOf

\* A request that ends holds nothing.
LEMMA FinishKept ==
    ASSUME Typed, NEW p \in Procs, Finish(p) PROVE RequestInv(p)'
    BY DEF Typed, Finish, RequestInv

\* A step of one request leaves the others' locals alone.
LEMMA OthersKept ==
    ASSUME Typed, NEW p \in Procs, RequestStep(p), NEW q \in Procs, q # p
    PROVE  SameLocals(q)
    BY DEF Typed, RequestStep, SameLocals, Finish, LoginPreRead, LoginVerify,
           LoginIssue, Setup, AuthBegin, RevokeUnstamped, AuthLookup, AuthAccept,
           SettleRevoke, SettleRebound, PwSelect, PwUpdate, PwRotate, Done

LEMMA RequestStepKept ==
    ASSUME IInv, Typed, AllLocated, Typed', AllLocated', StoreAdvance, TokenAdvance,
           NEW p \in Procs, RequestStep(p)
    PROVE  RequestInv(p)'
    <1> USE SubjectsAreUsers
    <1>1. CASE Finish(p)
        BY <1>1, FinishKept
    <1>2. ASSUME NEW u \in Users, LoginPreRead(p, u) PROVE RequestInv(p)'
        <2>1. /\ row'[p] \in {store[u], NoAccount} /\ usr'[p] = u /\ store' = store
              /\ newest' = newest /\ cred'[p] = cred[p] /\ cred[p] = NoAccount
              /\ seen'[p] = seen[p] /\ seen[p] = NoStamp
              /\ tok'[p] = NoToken /\ pc'[p] = "verify"
            BY <1>2 DEF LoginPreRead, Typed, storeVars, AllLocated, Located
        <2>2. store[u] # NoAccount => PastRow(store[u], u)
            BY CurrentIsPast DEF IInv
        <2> QED BY <2>1, <2>2 DEF RequestInv, PastRow, Past
    <1>3. ASSUME NEW u \in Users, Setup(p, u) PROVE RequestInv(p)'
        <2>1. /\ row'[p] = NewAccount(Admin) /\ cred'[p] = NewAccount(Admin)
              /\ store'[u] = NewAccount(Admin) /\ usr'[p] = u /\ newest'[u] = nextId
              /\ seen'[p] = seen[p] /\ tok'[p] = NoToken /\ pc'[p] = "issue"
            BY <1>3 DEF Setup, InsertUser, Typed
        <2>2. seen[p] = NoStamp
            BY <1>3 DEF Setup, AllLocated, Located
        <2> QED BY <2>1, <2>2
               DEF RequestInv, PastRow, Past, Follows, NewAccount, StampOf, Typed
    <1>4. CASE LoginVerify(p)
        <2>1. CASE ~Finish(p)
            <3>1. /\ pc[p] = "verify" /\ store[usr[p]] # NoAccount /\ row[p] # NoAccount
                  /\ cred'[p] = store[usr[p]] /\ pc'[p] = "issue" /\ tok'[p] = tok[p]
                  /\ seen'[p] = seen[p]
                  /\ usr'[p] = usr[p] /\ row'[p] = row[p] /\ store' = store /\ newest' = newest
                BY <1>4, <2>1 DEF LoginVerify, Typed, storeVars
            <3>2. usr[p] \in Users
                BY <3>1 DEF AllLocated, Located
            <3>3. PastRow(row[p], usr[p]) /\ PastRow(store[usr[p]], usr[p])
                BY <3>1, <3>2, CurrentIsPast DEF IInv, RequestInv
            <3>4. Follows(store[usr[p]], row[p])
                BY <3>1, <3>2, <3>3 DEF PastRow, Past, Follows, IInv, RowsInv
            <3> QED BY <3>1, <3>3, <3>4, RowKept, TokKept, SeenKept
                   DEF RequestInv, TokHeld, PastRow, Past, Follows
        <2> QED BY <2>1, <1>1
    <1>5. ASSUME NEW t \in Tokens, AuthBegin(p, t) PROVE RequestInv(p)'
        <2>1. /\ pc'[p] = "lookup" /\ tok'[p] = t /\ usr'[p] = tokens[t].user
              /\ seen'[p] = tokens[t].stamp /\ row'[p] = row[p] /\ cred'[p] = cred[p]
              /\ tokens' = tokens /\ issued' = issued
              /\ store' = store /\ newest' = newest
              /\ row[p] = NoAccount /\ cred[p] = NoAccount
            BY <1>5 DEF AuthBegin, Typed, AllLocated, Located, tokenVars, storeVars
        <2>2. TokenInv(t)
            BY <1>5 DEF AuthBegin, IInv
        <2> QED BY <2>1, <2>2 DEF TokenInv, RequestInv, Past
    <1>6. CASE AuthLookup(p)
        <2>1. CASE ~Finish(p)
            <3>1. /\ pc[p] = "lookup" /\ row'[p] = store[usr[p]] /\ pc'[p] = "settle"
                  /\ tok'[p] = tok[p] /\ usr'[p] = usr[p] /\ cred'[p] = cred[p]
                  /\ seen'[p] = seen[p] /\ store' = store /\ newest' = newest
                BY <1>6, <2>1 DEF AuthLookup, Typed, storeVars
            <3>2. usr[p] \in Users
                BY <3>1 DEF AllLocated, Located
            <3>3. store[usr[p]] # NoAccount => PastRow(store[usr[p]], usr[p])
                BY <3>2, CurrentIsPast DEF IInv
            <3> QED BY <3>1, <3>3, CredKept, TokKept, SeenKept
                   DEF RequestInv, TokHeld, PastRow, Past
        <2> QED BY <2>1, <1>1
    <1>7. CASE AuthAccept(p)
        <2>1. /\ pc'[p] = "handling" /\ tok'[p] = tok[p] /\ usr'[p] = usr[p]
              /\ row'[p] = row[p] /\ seen'[p] = seen[p] /\ cred'[p] = cred[p]
              /\ seen[p] = StampOf(row[p])
            BY <1>7 DEF AuthAccept, Matches, Typed
        <2> QED BY <2>1, RowKept, CredKept, TokKept, SeenKept DEF RequestInv, TokHeld, StampOf
    <1>8. CASE SettleRebound(p)
        <2>1. CASE ~Finish(p)
            <3>1. /\ pc'[p] = "handling" /\ tok'[p] = tok[p] /\ usr'[p] = usr[p]
                  /\ row'[p] = row[p] /\ cred'[p] = cred[p]
                  /\ seen'[p] = StampOf(row[p])
                BY <1>8, <2>1 DEF SettleRebound, Typed
            <3>2. row[p] \in Account /\ PastRow(row[p], usr[p])
                BY <1>8, <2>1 DEF SettleRebound, IInv, RequestInv, Typed
            <3>3. store' = store /\ newest' = newest
                BY <1>8 DEF SettleRebound, storeVars
            <3>4. Past(StampOf(row[p]), usr[p])
                BY <3>2 DEF PastRow, Past, StampOf
            <3>5. Past(seen[p], usr[p])'
                BY <3>1, <3>3, <3>4 DEF Past
            <3> QED BY <3>1, <3>5, RowKept, CredKept, TokKept
                   DEF RequestInv, TokHeld, StampOf
        <2> QED BY <2>1, <1>1
    <1>9. CASE PwSelect(p)
        <2>1. /\ pc[p] = "handling" /\ store[usr[p]] # NoAccount
              /\ cred'[p] = store[usr[p]] /\ pc'[p] = "update" /\ tok'[p] = tok[p]
              /\ usr'[p] = usr[p] /\ row'[p] = row[p] /\ seen'[p] = seen[p]
              /\ store' = store /\ newest' = newest
            BY <1>9 DEF PwSelect, Typed, storeVars
        <2>2. usr[p] \in Users /\ row[p] # NoAccount
            BY <2>1 DEF AllLocated, Located
        <2>3. PastRow(row[p], usr[p]) /\ PastRow(store[usr[p]], usr[p])
            BY <2>1, <2>2, CurrentIsPast DEF IInv, RequestInv
        <2>4. Follows(store[usr[p]], row[p]) /\ seen[p] = StampOf(row[p])
            BY <2>1, <2>2, <2>3
               DEF PastRow, Past, Follows, IInv, RowsInv, RequestInv
        <2> QED BY <2>1, <2>3, <2>4, RowKept, TokKept, SeenKept
               DEF RequestInv, TokHeld, PastRow, Past, Follows, StampOf
    <1>10. CASE PwUpdate(p)
        <2>1. CASE ~Finish(p)
            <3> DEFINE old == store[usr[p]]
                       new == Rehashed(store[usr[p]])
            <3>1. /\ pc[p] = "update" /\ old # NoAccount /\ old.id = cred[p].id
                  /\ store' = [store EXCEPT ![usr[p]] = new]
                  /\ cred'[p] = new /\ pc'[p] = "rotate" /\ tok'[p] = tok[p]
                  /\ usr'[p] = usr[p] /\ row'[p] = row[p] /\ seen'[p] = seen[p]
                  /\ newest' = newest
                BY <1>10, <2>1 DEF PwUpdate, HashUnchanged, Typed
            <3>2. usr[p] \in Users /\ row[p] # NoAccount /\ cred[p] # NoAccount
                BY <3>1 DEF AllLocated, Located
            <3>3. /\ old \in Account /\ new.id = old.id /\ new.epoch = old.epoch + 1
                  /\ store'[usr[p]] = new
                BY <3>1, <3>2 DEF Typed, Rehashed
            <3>4. /\ PastRow(row[p], usr[p]) /\ seen[p] = StampOf(row[p])
                  /\ row[p] \in Account
                BY <3>1, <3>2 DEF IInv, RequestInv, Typed
            <3>5. Follows(new, row[p])
                BY <3>1, <3>2, <3>3, <3>4
                   DEF PastRow, Past, Follows, Account, IInv, RowsInv
            <3>6. PastRow(cred[p], usr[p])'
                BY <3>1, <3>3 DEF PastRow, Past, IInv, RowsInv, Account, Typed
            <3> QED BY <3>1, <3>4, <3>5, <3>6, RowKept, TokKept, SeenKept
                   DEF RequestInv, TokHeld, Follows, StampOf
        <2> QED BY <2>1, <1>1
    <1> QED BY <1>1, <1>2, <1>3, <1>4, <1>5, <1>6, <1>7, <1>8, <1>9, <1>10
           DEF RequestStep, LoginIssue, RevokeUnstamped, SettleRevoke, PwRotate, Done

\* A step that leaves a live token's binding and history alone keeps it.
LEMMA TokensKept ==
    ASSUME IInv, Typed, Typed', StoreAdvance, TokenAdvance, NEW t \in Tokens,
           tokens'[t] # NoRecord => /\ tokens[t] # NoRecord
                                    /\ tokens'[t].user = tokens[t].user
                                    /\ tokens'[t].stamp = tokens[t].stamp,
           proven'[t] = proven[t]
    PROVE  tokens'[t] # NoRecord => TokenInv(t)'
    BY TokenKept DEF IInv

LEMMA StoreStepTokens ==
    ASSUME IInv, Typed, Typed', StoreAdvance, TokenAdvance, StoreStep,
           NEW t \in Tokens
    PROVE  tokens'[t] # NoRecord => TokenInv(t)'
    <1>1. CASE UNCHANGED tokenVars
        BY <1>1, TokensKept DEF tokenVars
    <1>2. ASSUME NEW u \in Users, IssueUnstamped(u)
          PROVE  tokens'[t] # NoRecord => TokenInv(t)'
        <2>1. PICK n \in Tokens \ issued :
                /\ tokens' = [tokens EXCEPT ![n] = [user |-> u, role |-> store[u].role,
                                                    stamp |-> NoStamp]]
                /\ issued' = issued \cup {n}
            BY <1>2 DEF IssueUnstamped
        <2>2. CASE t = n
            <3>1. tokens'[t].stamp = NoStamp /\ tokens'[t].user = u /\ t \in issued'
                BY <2>1, <2>2 DEF Typed
            <3>2. ~Bound(t)'
                <4>1. store'[u] # NoAccount => StampOf(store'[u]) \in Stamp
                    BY <1>2 DEF Typed, StampOf, Stamp, Account
                <4> QED BY <3>1, <4>1, NullsAreFresh DEF Bound, StampOf, Stamp
            <3> QED BY <3>1, <3>2 DEF TokenInv
        <2>3. CASE t # n
            BY <1>2, <2>1, <2>3, TokensKept DEF IssueUnstamped, Typed
        <2> QED BY <2>2, <2>3
    <1> QED BY <1>1, <1>2, SubjectsAreUsers
           DEF StoreStep, CreateUser, UpdateUser, ResetPassword, DeleteUser

\* A token is minted with the stamp read before the credential check: if the
\* account still has it, the check saw the password the account still has.
LEMMA LoginIssueTokens ==
    ASSUME IInv, Typed, AllLocated, Typed', StoreAdvance, TokenAdvance,
           NEW p \in Procs, LoginIssue(p), NEW t \in Tokens
    PROVE  tokens'[t] # NoRecord => TokenInv(t)'
    <1>1. PICK n \in Tokens \ issued :
            /\ tokens' = [tokens EXCEPT ![n] = [user |-> usr[p], role |-> cred[p].role,
                                                stamp |-> StampOf(row[p])]]
            /\ issued' = issued \cup {n}
            /\ proven' = [proven EXCEPT ![n] = cred[p].hash]
        BY DEF LoginIssue
    <1>2. CASE t # n
        BY <1>1, <1>2, TokensKept DEF Typed
    <1>3. CASE t = n
        <2>1. /\ tokens'[t].user = usr[p] /\ tokens'[t].stamp = StampOf(row[p])
              /\ proven'[t] = cred[p].hash /\ t \in issued'
              /\ store' = store /\ newest' = newest
            BY <1>1, <1>3 DEF Typed, LoginIssue, storeVars
        <2>2. /\ usr[p] \in Users /\ row[p] \in Account /\ cred[p] \in Account
              /\ PastRow(row[p], usr[p]) /\ PastRow(cred[p], usr[p])
              /\ Follows(cred[p], row[p])
            BY DEF LoginIssue, AllLocated, Located, IInv, RequestInv, Typed
        <2>3. Past(tokens[t].stamp, tokens[t].user)'
            BY <2>1, <2>2 DEF PastRow, Past, StampOf
        <2>4. ASSUME Bound(t)' PROVE cred[p].hash = store[usr[p]].hash
            <3>1. /\ store[usr[p]] # NoAccount /\ store[usr[p]] \in Account
                  /\ row[p].id = store[usr[p]].id /\ row[p].epoch = store[usr[p]].epoch
                BY <2>1, <2>2, <2>4 DEF Bound, StampOf, Typed
            <3>2. cred[p].id = store[usr[p]].id /\ cred[p].epoch = store[usr[p]].epoch
                BY <2>2, <3>1, FollowsNow DEF IInv, Account
            <3> QED BY <2>1, <2>2, <3>1, <3>2 DEF PastRow, StampOf
        <2> QED BY <2>1, <2>3, <2>4 DEF TokenInv
    <1> QED BY <1>2, <1>3

\* A re-bound token gets the epoch its own password change wrote: if the
\* account still has it, it still has the password of that change.
LEMMA PwRotateTokens ==
    ASSUME IInv, Typed, AllLocated, Typed', StoreAdvance, TokenAdvance,
           NEW p \in Procs, PwRotate(p), NEW t \in Tokens
    PROVE  tokens'[t] # NoRecord => TokenInv(t)'
    <1>1. CASE t # tok[p] \/ ~StillBound(p)
        BY <1>1, TokensKept DEF PwRotate, Typed
    <1>2. CASE t = tok[p] /\ StillBound(p)
        <2> DEFINE s == [id |-> seen[p].id, epoch |-> cred[p].epoch]
        <2>1. /\ tokens[t] # NoRecord /\ tokens' = [tokens EXCEPT ![t].stamp = s]
              /\ proven' = [proven EXCEPT ![t] = cred[p].hash]
              /\ issued' = issued /\ store' = store /\ newest' = newest
            BY <1>2 DEF PwRotate, StillBound, storeVars
        <2>2. /\ usr[p] \in Users /\ row[p] \in Account /\ cred[p] \in Account
              /\ PastRow(row[p], usr[p]) /\ PastRow(cred[p], usr[p])
              /\ Follows(cred[p], row[p]) /\ seen[p] = StampOf(row[p])
              /\ tokens[t].user = usr[p] /\ t \in issued
            BY <1>2, <2>1 DEF PwRotate, AllLocated, Located, IInv, RequestInv, Typed
        <2>3. /\ tokens'[t].user = usr[p] /\ tokens'[t].stamp = s
              /\ proven'[t] = cred[p].hash /\ t \in issued'
              /\ s.id = row[p].id
            BY <2>1, <2>2 DEF Typed, Record, StampOf
        <2>4. ASSUME store[usr[p]] # NoAccount, s.id = store[usr[p]].id
              PROVE  cred[p].id = store[usr[p]].id /\ cred[p].epoch <= store[usr[p]].epoch
            BY <2>2, <2>3, <2>4, FollowsNow DEF IInv
        <2>5. Past(tokens[t].stamp, tokens[t].user)'
            BY <2>1, <2>2, <2>3, <2>4 DEF PastRow, Past
        <2>6. ASSUME Bound(t)' PROVE cred[p].hash = store[usr[p]].hash
            <3>1. /\ store[usr[p]] # NoAccount
                  /\ s.id = store[usr[p]].id /\ cred[p].epoch = store[usr[p]].epoch
                BY <2>1, <2>3, <2>6 DEF Bound, StampOf
            <3> QED BY <2>2, <2>4, <3>1 DEF PastRow, StampOf
        <2> QED BY <2>1, <2>3, <2>5, <2>6 DEF TokenInv
    <1> QED BY <1>1, <1>2

LEMMA RequestStepTokens ==
    ASSUME IInv, Typed, AllLocated, Typed', StoreAdvance, TokenAdvance,
           NEW p \in Procs, RequestStep(p), NEW t \in Tokens
    PROVE  tokens'[t] # NoRecord => TokenInv(t)'
    <1>1. CASE UNCHANGED <<tokens, proven>>
        BY <1>1, TokensKept
    <1>2. CASE LoginIssue(p)
        BY <1>2, LoginIssueTokens
    <1>3. CASE PwRotate(p)
        BY <1>3, PwRotateTokens
    <1>4. CASE RevokeUnstamped(p) \/ SettleRevoke(p)
        BY <1>4, TokensKept DEF RevokeUnstamped, SettleRevoke, Drop, Typed
    <1>5. CASE AuthAccept(p) \/ SettleRebound(p)
        BY <1>5, TokensKept, SMTT(30) DEF AuthAccept, SettleRebound, Typed, Record
    <1> QED BY <1>1, <1>2, <1>3, <1>4, <1>5
           DEF RequestStep, LoginPreRead, LoginVerify, Setup, AuthBegin, AuthLookup,
               PwSelect, PwUpdate, Done, tokenVars

LEMMA InvInit == Init => IInv
    <1> SUFFICES ASSUME Init PROVE IInv
        OBVIOUS
    <1>1. TypeOK
        BY InitTyped
    <1>2. /\ \A p \in Procs : Located(p)
          /\ \A t \in Tokens : tokens[t] # NoRecord => TokenInv(t)
          /\ \A p \in Procs : RequestInv(p)
        BY DEF Init, Located, RequestInv
    <1>3. RowsInv
        <2>1. PICK ids \in InitialIds :
                /\ store = [u \in Users |-> IF ids[u] = 0 THEN NoAccount
                                            ELSE [id |-> ids[u], epoch |-> 0,
                                                  role |-> Admin, hash |-> 0]]
                /\ newest = ids
            BY DEF Init
        <2>2. nextId = FirstId /\ \A u \in Users : ids[u] < FirstId
            BY InitialIdsArePast DEF Init
        <2> QED BY <2>1, <2>2 DEF RowsInv
    <1> QED BY <1>1, <1>2, <1>3 DEF IInv

LEMMA InvNext == IInv /\ [Next]_vars => IInv'
    <1> SUFFICES ASSUME IInv, [Next]_vars PROVE IInv'
        OBVIOUS
    <1>1. TypeOK /\ AllLocated /\ Typed
        BY DEF IInv, AllLocated, TypeOK, Typed
    <1>2. TypeOK' /\ AllLocated'
        BY <1>1, NextTyped
    <1>3. Typed'
        BY <1>2 DEF TypeOK, Typed
    <1>4. CASE Next
        <2>1. StoreAdvance /\ TokenAdvance
            BY <1>1, <1>4, StoreAdvances, TokensAdvance DEF Next, IInv
        <2>2. RowsInv'
            BY <1>1, <1>3, <2>1 DEF IInv, RowsInv, StoreAdvance, Typed, Account
        <2>3. ASSUME NEW t \in Tokens PROVE tokens'[t] # NoRecord => TokenInv(t)'
            <3>1. CASE StoreStep
                BY <1>1, <1>3, <2>1, <3>1, StoreStepTokens
            <3>2. CASE TokenStep
                BY <1>1, <1>3, <2>1, <3>2, TokensKept
                   DEF TokenStep, Logout, Expire, Drop, Typed
            <3>3. CASE \E p \in Procs : RequestStep(p)
                BY <1>1, <1>3, <2>1, <3>3, RequestStepTokens
            <3> QED BY <1>4, <3>1, <3>2, <3>3 DEF Next, Step
        <2>4. ASSUME NEW q \in Procs PROVE RequestInv(q)'
            <3>1. CASE UNCHANGED procVars
                BY <1>1, <1>3, <2>1, <3>1, SameLocalsKept DEF SameLocals, procVars
            <3>2. ASSUME NEW p \in Procs, RequestStep(p) PROVE RequestInv(q)'
                <4>1. CASE q = p
                    BY <1>1, <1>2, <1>3, <2>1, <3>2, <4>1, RequestStepKept
                <4>2. CASE q # p
                    BY <1>1, <1>3, <2>1, <3>2, <4>2, OthersKept, SameLocalsKept
                <4> QED BY <4>1, <4>2
            <3> QED BY <1>4, <3>1, <3>2
                   DEF Next, Step, StoreStep, CreateUser, UpdateUser, ResetPassword,
                       DeleteUser, IssueUnstamped, TokenStep, Logout, Expire
        <2> QED BY <1>2, <2>2, <2>3, <2>4 DEF IInv, AllLocated
    <1>5. CASE UNCHANGED vars
        BY <1>2, <1>5
           DEF IInv, AllLocated, RowsInv, TokenInv, RequestInv, PastRow, Past, Bound,
               Follows, vars, storeVars, tokenVars, procVars
    <1> QED BY <1>4, <1>5

\* Whatever logins, password changes, demotions, deletions and re-creations
\* interleave, a usable session belongs to someone who proved the password
\* the account has now.
THEOREM SessionsProveCurrentPassword == Spec => []LiveSessionProvesCurrentPassword
    <1>1. IInv => LiveSessionProvesCurrentPassword
        BY DEF IInv, TokenInv, LiveSessionProvesCurrentPassword, Bound
    <1> QED BY <1>1, InvInit, InvNext, PTL DEF Spec

-----------------------------------------------------------------------------
(* What a step does to one request and to one token.                       *)

\* A request that has no token, or lost it.
Forgets(p) == tok'[p] = NoToken /\ pc'[p] \in {"idle", "verify", "issue"}

\* The account is read under a token.
LooksUp(p) == AuthLookup(p) /\ pc'[p] = "settle"

\* A request is accepted because its token was re-bound to what it read.
Adopts(p) == SettleRebound(p) /\ pc'[p] = "handling"

\* A request keeps what it knows of its token and account.
Keeps(p) ==
    /\ pc[p] # "idle" /\ pc'[p] # "idle"
    /\ tok'[p] = tok[p] /\ usr'[p] = usr[p] /\ row'[p] = row[p]
    /\ seen'[p] = seen[p] /\ claim'[p] = claim[p]
    /\ pc'[p] \in {"lookup", "settle"} => pc'[p] = pc[p]
    /\ pc'[p] = "rotate" => PwUpdate(p) \/ (pc[p] = "rotate" /\ cred'[p] = cred[p])

RequestKind(p) ==
    \/ Forgets(p) \/ LooksUp(p) \/ Adopts(p) \/ Keeps(p)
    \/ \E t \in Tokens : AuthBegin(p, t)

LEMMA RequestKinds ==
    ASSUME Typed, AllLocated, Step, NEW p \in Procs PROVE RequestKind(p)
    <1>1. ASSUME pc'[p] = pc[p], tok'[p] = tok[p], usr'[p] = usr[p], row'[p] = row[p],
                 seen'[p] = seen[p], cred'[p] = cred[p], claim'[p] = claim[p]
          PROVE  Forgets(p) \/ Keeps(p)
        BY <1>1 DEF Forgets, Keeps, AllLocated, Located
    <1>2. CASE UNCHANGED procVars
        BY <1>1, <1>2 DEF procVars, RequestKind
    <1>3. ASSUME NEW q \in Procs, q # p, RequestStep(q) PROVE RequestKind(p)
        <2>1. claim'[p] = claim[p]
            BY <1>3 DEF Typed, RequestStep, Finish, LoginPreRead, LoginVerify,
                   LoginIssue, Setup, AuthBegin, RevokeUnstamped, AuthLookup, AuthAccept,
                   SettleRevoke, SettleRebound, PwSelect, PwUpdate, PwRotate, Done
        <2> QED BY <1>1, <1>3, <2>1, OthersKept DEF SameLocals, RequestKind
    <1>4. CASE RequestStep(p)
        <2> USE DEF RequestKind
        <2>1. CASE Finish(p)
            BY <2>1 DEF Finish, Forgets, Typed
        <2>2. ASSUME NEW u \in Subjects, LoginPreRead(p, u) \/ Setup(p, u)
              PROVE  Forgets(p)
            BY <2>2 DEF LoginPreRead, Setup, Forgets, Typed
        <2>3. CASE LoginVerify(p) /\ ~Finish(p)
            BY <2>3 DEF LoginVerify, Keeps, Typed
        <2>4. CASE AuthLookup(p) /\ ~Finish(p)
            BY <2>4 DEF AuthLookup, LooksUp, Typed
        <2>5. CASE AuthAccept(p)
            BY <2>5 DEF AuthAccept, Keeps, Typed
        <2>6. CASE SettleRebound(p) /\ ~Finish(p)
            BY <2>6 DEF SettleRebound, Adopts, Typed
        <2>7. CASE PwSelect(p)
            BY <2>7 DEF PwSelect, Keeps, Typed
        <2>8. CASE PwUpdate(p) /\ ~Finish(p)
            BY <2>8 DEF PwUpdate, Keeps, Typed
        <2> QED BY <1>4, <2>1, <2>2, <2>3, <2>4, <2>5, <2>6, <2>7, <2>8
               DEF RequestStep, LoginIssue, RevokeUnstamped, SettleRevoke, PwRotate, Done
    <1> QED BY <1>2, <1>3, <1>4
           DEF Step, StoreStep, TokenStep, CreateUser, UpdateUser, ResetPassword,
               DeleteUser, IssueUnstamped, Logout, Expire

\* The token is given the role of the row it is bound to, which q read.
Refreshed(q, t) ==
    /\ pc[q] = "settle" /\ tok[q] = t /\ row[q] # NoAccount
    /\ tokens[t] # NoRecord /\ tokens[t].stamp = StampOf(row[q])
    /\ tokens' = [tokens EXCEPT ![t].role = row[q].role]
    /\ proven' = proven /\ UNCHANGED storeVars

\* The token is re-bound by the password change of q.
Rotated(q, t) ==
    /\ pc[q] = "rotate" /\ tok[q] = t
    /\ tokens[t] # NoRecord /\ tokens[t].stamp = seen[q]
    /\ tokens' = [tokens EXCEPT ![t].stamp =
                    [id |-> seen[q].id, epoch |-> cred[q].epoch]]
    /\ proven' = [proven EXCEPT ![t] = cred[q].hash]
    /\ UNCHANGED storeVars

TokenKind(t) ==
    \/ tokens'[t] = NoRecord
    \/ tokens'[t] = tokens[t] /\ proven'[t] = proven[t]
    \/ t \notin issued /\ \/ \E p \in Procs : LoginIssue(p) /\ t \in issued'
                          \/ ~Bound(t)'
    \/ \E q \in Procs : Refreshed(q, t) \/ Rotated(q, t)

LEMMA TokenKinds ==
    ASSUME Typed, Typed', AllLocated, Step, NEW t \in Tokens PROVE TokenKind(t)
    <1> USE SubjectsAreUsers DEF TokenKind
    <1>1. CASE UNCHANGED <<tokens, proven>>
        BY <1>1
    <1>2. ASSUME NEW s \in Tokens, Drop(s), proven' = proven PROVE TokenKind(t)
        BY <1>2 DEF Drop, Typed
    <1>3. ASSUME NEW u \in Users, IssueUnstamped(u) PROVE TokenKind(t)
        <2>1. PICK n \in Tokens \ issued :
                tokens' = [tokens EXCEPT ![n] = [user |-> u, role |-> store[u].role,
                                                 stamp |-> NoStamp]]
            BY <1>3 DEF IssueUnstamped
        <2>2. proven' = proven
            BY <1>3 DEF IssueUnstamped
        <2>3. CASE t # n
            BY <2>1, <2>2, <2>3 DEF Typed
        <2>4. CASE t = n
            <3>1. tokens'[t].stamp = NoStamp /\ tokens'[t].user = u
                BY <2>1, <2>4 DEF Typed
            <3>2. store'[u] # NoAccount => StampOf(store'[u]) \in Stamp
                BY DEF Typed, StampOf, Stamp, Account
            <3> QED BY <2>1, <2>4, <3>1, <3>2, NullsAreFresh DEF Bound, Stamp
        <2> QED BY <2>3, <2>4
    <1>4. ASSUME NEW p \in Procs, LoginIssue(p) PROVE TokenKind(t)
        BY <1>4 DEF LoginIssue, Typed
    <1>5. ASSUME NEW p \in Procs, AuthAccept(p) \/ SettleRebound(p) PROVE TokenKind(t)
        <2>1. CASE t = tok[p] /\ tokens' # tokens
            <3>1. Refreshed(p, t)
                BY <1>5, <2>1
                   DEF AuthAccept, SettleRebound, Matches, Refreshed, storeVars
            <3> QED BY <3>1
        <2>2. CASE t # tok[p] \/ tokens' = tokens
            BY <1>5, <2>2 DEF AuthAccept, SettleRebound, Typed
        <2> QED BY <2>1, <2>2
    <1>6. ASSUME NEW p \in Procs, PwRotate(p) PROVE TokenKind(t)
        <2>1. CASE t = tok[p] /\ StillBound(p)
            <3>1. Rotated(p, t)
                BY <1>6, <2>1 DEF PwRotate, StillBound, Rotated, storeVars
            <3> QED BY <3>1
        <2>2. CASE t # tok[p] \/ ~StillBound(p)
            BY <1>6, <2>2 DEF PwRotate, Typed
        <2> QED BY <2>1, <2>2
    <1>7. CASE StoreStep
        BY <1>1, <1>3, <1>7
           DEF StoreStep, CreateUser, UpdateUser, ResetPassword, DeleteUser, tokenVars
    <1>8. CASE TokenStep
        BY <1>2, <1>8 DEF TokenStep, Logout, Expire
    <1>9. ASSUME NEW p \in Procs, RequestStep(p) PROVE TokenKind(t)
        <2>1. CASE RevokeUnstamped(p) \/ SettleRevoke(p)
            <3>1. tok[p] \in Tokens
                BY <2>1 DEF RevokeUnstamped, SettleRevoke, AllLocated, Located, Typed
            <3> QED BY <1>1, <1>2, <2>1, <3>1 DEF RevokeUnstamped, SettleRevoke
        <2> QED BY <1>1, <1>4, <1>5, <1>6, <1>9, <2>1
               DEF RequestStep, LoginPreRead, LoginVerify, Setup, AuthBegin, AuthLookup,
                   PwSelect, PwUpdate, Done, tokenVars
    <1> QED BY <1>7, <1>8, <1>9 DEF Step

-----------------------------------------------------------------------------
(* What an accepted request relied on.                                     *)

\* What holds before and after a step, and what the step may do.
Advancing ==
    /\ AcceptInv /\ IInv' /\ Typed /\ Typed' /\ AllLocated /\ AllLocated'
    /\ Step /\ Observe /\ StoreAdvance /\ TokenAdvance

\* A request's token is live from the moment it was.
LEMMA LiveStays ==
    ASSUME Typed, Observe, NEW p \in Procs, pc'[p] # "idle"
    PROVE  /\ pc[p] # "idle" /\ live[p] => live'[p]
           /\ \A t \in Tokens : tok'[p] = t /\ (Bound(t)' \/ Rebinding(t)') => live'[p]
    BY DEF Observe

\* The row last given to a username does not become one that was not.
LEMMA NewestBefore ==
    ASSUME Advancing, NEW p \in Procs, row[p] # NoAccount,
           row'[p] = row[p], usr'[p] = usr[p], Newest(p)'
    PROVE  /\ Newest(p) /\ usr[p] \in Users /\ row[p] \in Account
           /\ newest'[usr[p]] = newest[usr[p]]
    <1>1. usr[p] \in Users /\ row[p] \in Account /\ row[p].id <= newest[usr[p]]
        BY DEF Advancing, AcceptInv, IInv, RequestInv, PastRow, Past, AllLocated,
               Located, Typed
    <1>2. newest[usr[p]] <= newest'[usr[p]] /\ newest[usr[p]] \in Nat
          /\ newest'[usr[p]] \in Nat /\ row[p].id \in Nat
        BY <1>1 DEF Advancing, StoreAdvance, Typed, Account
    <1> QED BY <1>1, <1>2 DEF Newest

\* What Located and the token's own invariant say of a request that carries one.
LEMMA Carried ==
    ASSUME Advancing, NEW p \in Procs, tok[p] # NoToken, tokens[tok[p]] # NoRecord
    PROVE  /\ pc[p] # "idle" /\ usr[p] \in Users /\ tok[p] \in Tokens
           /\ tok[p] \in issued /\ tokens[tok[p]].user = usr[p]
           /\ tokens[tok[p]] \in Record /\ TokenInv(tok[p])
    BY DEF Advancing, AcceptInv, IInv, RequestInv, AllLocated, Located, Typed

\* A binding that is a request's row, when the row is the username's newest, is
\* of that row for every request that carries the token.
LEMMA SameRow ==
    ASSUME Advancing, NEW p \in Procs, NEW q \in Procs, tok[p] # NoToken, tok[q] = tok[p],
           tokens[tok[p]] # NoRecord, row[p] # NoAccount, row[q] # NoAccount,
           StampOf(row[p]) \in {seen[p], tokens[tok[p]].stamp},
           StampOf(row[q]) \in {seen[q], tokens[tok[q]].stamp}
    PROVE  /\ row[p].id = tokens[tok[p]].stamp.id
           /\ row[q].id = row[p].id /\ usr[p] = usr[q]
           /\ Newest(p) => Newest(q)
    <1>1. usr[p] = usr[q]
        BY Carried
    <1>2. ASSUME NEW r \in Procs, tok[r] = tok[p], row[r] # NoAccount,
                 StampOf(row[r]) \in {seen[r], tokens[tok[r]].stamp}
          PROVE  row[r].id = tokens[tok[p]].stamp.id
        <2>1. row[r] \in Account /\ StampOf(row[r]) \in Stamp
            BY <1>2 DEF Advancing, Typed, Account, Stamp, StampOf
        <2>2. CASE StampOf(row[r]) = seen[r]
            <3>1. seen[r] # NoStamp /\ seen[r].id = row[r].id
                BY <2>1, <2>2, NullsAreFresh DEF Stamp, StampOf
            <3> QED BY <1>2, <3>1 DEF Advancing, AcceptInv, BindingInv
        <2>3. CASE StampOf(row[r]) = tokens[tok[r]].stamp
            BY <1>2, <2>1, <2>3 DEF StampOf
        <2> QED BY <1>2, <2>2, <2>3
    <1> QED BY <1>1, <1>2 DEF Newest

\* Giving the token the role of the row it is bound to changes nothing while the
\* row is the username's newest.
LEMMA RefreshIsIdle ==
    ASSUME Advancing, NEW q \in Procs, NEW t \in Tokens, Refreshed(q, t), Newest(q)
    PROVE  tokens'[t] = tokens[t]
    <1>1. tokens[t].role = row[q].role
        BY NullsAreFresh DEF Refreshed, Advancing, AcceptInv, HolderInv, Typed
    <1>2. tokens[t] \in Record
        BY DEF Refreshed, Advancing, Typed
    <1> QED BY <1>1, <1>2 DEF Refreshed, Record, Advancing, Typed

\* A re-binding is one epoch up.
LEMMA RotatedStamp ==
    ASSUME Advancing, NEW q \in Procs, NEW t \in Tokens, Rotated(q, t)
    PROVE  /\ t \in issued /\ tokens[t].stamp \in Stamp /\ tokens[t].stamp # NoStamp
           /\ tokens'[t].stamp = [id |-> tokens[t].stamp.id,
                                  epoch |-> tokens[t].stamp.epoch + 1]
           /\ tokens'[t].role = tokens[t].role /\ tokens'[t].user = tokens[t].user
           /\ proven'[t] = cred[q].hash
           /\ cred[q].epoch = tokens[t].stamp.epoch + 1
           /\ tokens'[t].stamp = [id |-> seen[q].id, epoch |-> cred[q].epoch]
           /\ seen[q] = tokens[t].stamp /\ StampOf(row[q]) = seen[q]
           /\ row[q] \in Account /\ cred[q] \in Account /\ usr[q] \in Users
           /\ usr[q] = tokens[t].user /\ Follows(cred[q], row[q])
           /\ PastRow(row[q], usr[q]) /\ PastRow(cred[q], usr[q])
    <1>1. /\ row[q] # NoAccount /\ cred[q] # NoAccount /\ seen[q] # NoStamp
          /\ usr[q] \in Users /\ tok[q] # NoToken
        BY DEF Rotated, Advancing, AllLocated, Located
    <1>2. /\ row[q] \in Account /\ cred[q] \in Account /\ seen[q] \in Stamp
          /\ tokens[t] \in Record
        BY <1>1 DEF Rotated, Advancing, Typed
    <1>3. /\ StampOf(row[q]) = seen[q] /\ Follows(cred[q], row[q])
          /\ usr[q] = tokens[t].user /\ t \in issued
          /\ PastRow(row[q], usr[q]) /\ PastRow(cred[q], usr[q])
          /\ cred[q].epoch = seen[q].epoch + 1
        BY <1>1 DEF Rotated, Advancing, AcceptInv, IInv, RequestInv, RotateInv
    <1> QED BY <1>1, <1>2, <1>3 DEF Rotated, Record, Stamp, Advancing, Typed

\* A token's stamp keeps its row and does not go back.
LEMMA StampAdvances ==
    ASSUME Advancing, NEW t \in issued, tokens'[t] # NoRecord,
           tokens[t].stamp # NoStamp
    PROVE  /\ tokens'[t].stamp # NoStamp /\ tokens'[t].stamp.id = tokens[t].stamp.id
           /\ tokens[t].stamp.epoch \in Nat /\ tokens'[t].stamp.epoch \in Nat
           /\ tokens[t].stamp.epoch <= tokens'[t].stamp.epoch
    <1>1. t \in Tokens /\ tokens[t] # NoRecord /\ tokens[t].stamp \in Stamp
        BY DEF Advancing, Typed, TokenAdvance, Record
    <1>2. TokenKind(t)
        BY <1>1, TokenKinds DEF Advancing
    <1>3. CASE \E q \in Procs : Rotated(q, t)
        <2>1. PICK q \in Procs : Rotated(q, t)
            BY <1>3
        <2>2. tokens'[t].stamp = [id |-> tokens[t].stamp.id,
                                  epoch |-> tokens[t].stamp.epoch + 1]
            BY <1>1, <2>1, RotatedStamp
        <2>3. tokens'[t].stamp \in Stamp
            BY <1>1, <2>2 DEF Stamp
        <2> QED BY <1>1, <2>2, <2>3, NullsAreFresh DEF Stamp
    <1>4. CASE \E q \in Procs : Refreshed(q, t)
        BY <1>1, <1>4 DEF Refreshed, Record, Stamp, Advancing, Typed
    <1> QED BY <1>1, <1>2, <1>3, <1>4 DEF TokenKind, Stamp

LEMMA BindingKept ==
    ASSUME Advancing, NEW p \in Procs PROVE BindingInv(p)'
    <1> SUFFICES ASSUME seen'[p] # NoStamp, tokens'[tok'[p]] # NoRecord
                 PROVE  BindingInv(p)'
        BY DEF BindingInv
    <1>1. RequestKind(p)
        BY RequestKinds DEF Advancing
    <1>2. ~Forgets(p)
        BY DEF Forgets, Advancing, AllLocated, Located
    <1>3. CASE seen'[p] = seen[p] /\ tok'[p] = tok[p]
        <2>1. tok[p] \in issued
            BY <1>3 DEF Advancing, AcceptInv, IInv, RequestInv, AllLocated, Located, Typed,
                        Phase
        <2>2. tokens[tok[p]] # NoRecord
            BY <1>3, <2>1 DEF Advancing, TokenAdvance
        <2>3. /\ tokens[tok[p]].stamp # NoStamp /\ tokens[tok[p]].stamp.id = seen[p].id
              /\ seen[p].epoch <= tokens[tok[p]].stamp.epoch
            BY <1>3, <2>2 DEF Advancing, AcceptInv, BindingInv
        <2>4. seen[p].epoch \in Nat
            BY <1>3 DEF Advancing, Typed, Stamp
        <2> QED BY <1>3, <2>1, <2>3, <2>4, StampAdvances DEF BindingInv
    <1>4. CASE Adopts(p)
        <2>1. /\ tokens[tok[p]] # NoRecord /\ tokens[tok[p]].stamp = StampOf(row[p])
              /\ row[p] # NoAccount /\ seen'[p] = StampOf(row[p]) /\ tok'[p] = tok[p]
              /\ tokens' = [tokens EXCEPT ![tok[p]].role = row[p].role]
              /\ tok[p] \in Tokens
            BY <1>4 DEF Adopts, SettleRebound, Finish, Advancing, Typed, AllLocated, Located
        <2>2. tokens'[tok[p]].stamp = StampOf(row[p]) /\ StampOf(row[p]) \in Stamp
            BY <2>1 DEF Advancing, Typed, Record, Account, Stamp, StampOf
        <2> QED BY <2>1, <2>2, NullsAreFresh DEF BindingInv, Stamp
    <1>5. ASSUME NEW t \in Tokens, AuthBegin(p, t) PROVE BindingInv(p)'
        <2>1. seen'[p] = tokens[t].stamp /\ tok'[p] = t /\ tokens' = tokens
            BY <1>5 DEF AuthBegin, tokenVars, Advancing, Typed
        <2> QED BY <2>1 DEF BindingInv, Advancing, Typed, Stamp
    <1>6. CASE LooksUp(p)
        BY <1>3, <1>6 DEF LooksUp, AuthLookup, Finish, Advancing, Typed
    <1> QED BY <1>1, <1>2, <1>3, <1>4, <1>5, <1>6 DEF RequestKind, Keeps

\* What a lookup leaves behind.
LEMMA LookedUp ==
    ASSUME Advancing, NEW p \in Procs, LooksUp(p)
    PROVE  /\ pc[p] = "lookup" /\ seen[p] # NoStamp /\ seen[p] \in Stamp
           /\ usr[p] \in Users /\ tok[p] # NoToken /\ Past(seen[p], usr[p])
           /\ pc'[p] = "settle" /\ row'[p] = store[usr[p]]
           /\ tok'[p] = tok[p] /\ usr'[p] = usr[p] /\ seen'[p] = seen[p]
           /\ claim'[p] = claim[p]
           /\ tokens' = tokens /\ proven' = proven /\ UNCHANGED storeVars
           /\ \A q \in Procs : q # p => SameLocals(q)
    <1>1. \A q \in Procs : q # p => SameLocals(q)
        BY OthersKept DEF LooksUp, RequestStep, Advancing
    <1>2. /\ pc[p] = "lookup" /\ seen[p] # NoStamp
          /\ tokens' = tokens /\ proven' = proven /\ UNCHANGED storeVars
          /\ pc'[p] = "settle" /\ row'[p] = store[usr[p]]
          /\ tok'[p] = tok[p] /\ usr'[p] = usr[p] /\ seen'[p] = seen[p]
          /\ claim'[p] = claim[p]
        BY DEF LooksUp, AuthLookup, Finish, tokenVars, Advancing, Typed
    <1> QED BY <1>1, <1>2
           DEF Advancing, Typed, AllLocated, Located, AcceptInv, IInv, RequestInv

\* What the account is now and was bound to the request before, it was before.
LEMMA SeenStill ==
    ASSUME Advancing, NEW p \in Procs, pc[p] # "idle", usr'[p] = usr[p],
           seen'[p] = seen[p], seen[p] # NoStamp,
           store'[usr[p]] # NoAccount, StampOf(store'[usr[p]]) = seen[p]
    PROVE  /\ store[usr[p]] # NoAccount /\ StampOf(store[usr[p]]) = seen[p]
           /\ store'[usr[p]].hash = store[usr[p]].hash
    <1>1. /\ usr[p] \in Users /\ seen[p].id \in Nat /\ seen[p].epoch \in Nat
          /\ Past(seen[p], usr[p]) /\ seen[p] \in Stamp
        BY DEF Advancing, AllLocated, Located, Typed, Stamp, AcceptInv, IInv, RequestInv
    <1>2. seen[p].id = store'[usr[p]].id /\ seen[p].epoch = store'[usr[p]].epoch
        BY DEF StampOf
    <1>3. /\ store[usr[p]] # NoAccount
          /\ store[usr[p]].id = seen[p].id /\ store[usr[p]].epoch = seen[p].epoch
          /\ store'[usr[p]].hash = store[usr[p]].hash
        BY <1>1, <1>2, UnchangedSince DEF Advancing
    <1> QED BY <1>1, <1>3 DEF StampOf, Stamp

LEMMA LiveKept ==
    ASSUME Advancing, NEW p \in Procs PROVE LiveInv(p)' /\ DeadInv(p)'
    <1>1. RequestKind(p)
        BY RequestKinds DEF Advancing
    <1>2. CASE Forgets(p) \/ Adopts(p)
        BY <1>2 DEF Forgets, Adopts, LiveInv, DeadInv
    <1>3. CASE LooksUp(p)
        <2>1. DeadInv(p)'
            BY <1>3, LookedUp DEF DeadInv, Matches, storeVars
        <2>2. ASSUME Matches(p)' PROVE live'[p] /\ claim'[p] = row'[p].hash
            <3>1. store[usr[p]] # NoAccount /\ StampOf(store[usr[p]]) = seen[p]
                BY <1>3, <2>2, LookedUp DEF Matches
            <3>2. live[p] /\ claim[p] = store[usr[p]].hash
                BY <1>3, <3>1, LookedUp DEF Advancing, AcceptInv, LiveInv
            <3> QED BY <1>3, <3>2, LookedUp, LiveStays DEF Advancing
        <2> QED BY <1>3, <2>1, <2>2, LookedUp DEF LiveInv
    <1>4. CASE Keeps(p)
        <2>1. live[p] => live'[p]
            BY <1>4, LiveStays DEF Keeps, Advancing
        <2>2. Matches(p)' <=> Matches(p)
            BY <1>4 DEF Keeps, Matches
        <2>3. ASSUME pc'[p] = "lookup", seen'[p] # NoStamp, store'[usr'[p]] # NoAccount,
                     StampOf(store'[usr'[p]]) = seen'[p]
              PROVE  live'[p] /\ claim'[p] = store'[usr'[p]].hash
            BY <1>4, <2>1, <2>3, SeenStill DEF Keeps, Advancing, AcceptInv, LiveInv
        <2>4. ASSUME pc'[p] = "settle", Matches(p)'
              PROVE  live'[p] /\ claim'[p] = row'[p].hash
            BY <1>4, <2>1, <2>2, <2>4 DEF Keeps, Advancing, AcceptInv, LiveInv
        <2>5. ASSUME pc'[p] = "settle", ~Matches(p)', store'[usr'[p]] # NoAccount
              PROVE  StampOf(store'[usr'[p]]) # seen'[p]
            <3>1. seen[p] # NoStamp /\ pc[p] = "settle"
                BY <1>4, <2>5 DEF Keeps, Advancing, AllLocated, Located
            <3> QED BY <1>4, <2>2, <2>5, <3>1, SeenStill
                   DEF Keeps, Advancing, AcceptInv, DeadInv
        <2> QED BY <2>3, <2>4, <2>5 DEF LiveInv, DeadInv
    <1>5. ASSUME NEW t \in Tokens, AuthBegin(p, t) PROVE LiveInv(p)' /\ DeadInv(p)'
        <2>1. /\ pc'[p] = "lookup" /\ tok'[p] = t /\ usr'[p] = tokens[t].user
              /\ seen'[p] = tokens[t].stamp /\ claim'[p] = proven[t]
              /\ tokens' = tokens /\ store' = store /\ tokens[t] # NoRecord
            BY <1>5 DEF AuthBegin, tokenVars, storeVars, Advancing, Typed
        <2>2. ASSUME store'[usr'[p]] # NoAccount, StampOf(store'[usr'[p]]) = seen'[p]
              PROVE  live'[p] /\ claim'[p] = store'[usr'[p]].hash
            <3>1. Bound(t) /\ Bound(t)'
                BY <2>1, <2>2 DEF Bound
            <3>2. live'[p]
                BY <2>1, <3>1, LiveStays DEF Advancing
            <3>3. proven[t] = store[tokens[t].user].hash
                BY <2>1, <3>1 DEF Advancing, AcceptInv, IInv, TokenInv
            <3> QED BY <2>1, <3>2, <3>3
        <2> QED BY <2>1, <2>2 DEF LiveInv, DeadInv
    <1> QED BY <1>1, <1>2, <1>3, <1>4, <1>5 DEF RequestKind

\* A request's copies are kept, or read of the table as it is after the step.
LEMMA RowSource ==
    ASSUME Advancing, NEW p \in Procs, row'[p] # NoAccount
    PROVE  \/ row'[p] = row[p] /\ usr'[p] = usr[p]
           \/ usr'[p] \in Users /\ row'[p] = store'[usr'[p]]
    <1> USE SubjectsAreUsers
    <1>1. CASE ~RequestStep(p)
        BY <1>1, OthersKept
           DEF Advancing, SameLocals, procVars, Step, StoreStep, TokenStep, CreateUser,
               UpdateUser, ResetPassword, DeleteUser, IssueUnstamped, Logout, Expire
    <1>2. ASSUME NEW u \in Subjects, LoginPreRead(p, u) \/ Setup(p, u)
          PROVE  usr'[p] \in Users /\ row'[p] = store'[usr'[p]]
        BY <1>2 DEF LoginPreRead, Setup, InsertUser, storeVars, Advancing, Typed
    <1>3. CASE AuthLookup(p)
        BY <1>3 DEF AuthLookup, Finish, storeVars, Advancing, Typed, AllLocated, Located
    <1>4. ASSUME NEW t \in Tokens, AuthBegin(p, t) PROVE FALSE
        BY <1>4 DEF AuthBegin, Advancing, AllLocated, Located
    <1>5. CASE Finish(p)
        BY <1>5 DEF Finish, Advancing, Typed
    <1> QED BY <1>1, <1>2, <1>3, <1>4, <1>5
           DEF RequestStep, LoginVerify, LoginIssue, RevokeUnstamped, AuthAccept,
               SettleRevoke, SettleRebound, PwSelect, PwUpdate, PwRotate, Done

LEMMA CredSource ==
    ASSUME Advancing, NEW p \in Procs, cred'[p] # NoAccount
    PROVE  \/ cred'[p] = cred[p] /\ usr'[p] = usr[p]
           \/ usr'[p] \in Users /\ cred'[p] = store'[usr'[p]]
    <1> USE SubjectsAreUsers
    <1>1. CASE ~RequestStep(p)
        BY <1>1, OthersKept
           DEF Advancing, SameLocals, procVars, Step, StoreStep, TokenStep, CreateUser,
               UpdateUser, ResetPassword, DeleteUser, IssueUnstamped, Logout, Expire
    <1>2. ASSUME NEW u \in Subjects, Setup(p, u)
          PROVE  usr'[p] \in Users /\ cred'[p] = store'[usr'[p]]
        BY <1>2 DEF Setup, InsertUser, Advancing, Typed
    <1>3. CASE (LoginVerify(p) \/ PwSelect(p)) /\ ~Finish(p)
        BY <1>3 DEF LoginVerify, PwSelect, storeVars, Advancing, Typed, AllLocated, Located
    <1>4. CASE PwUpdate(p) /\ ~Finish(p)
        BY <1>4 DEF PwUpdate, Advancing, Typed, AllLocated, Located
    <1>5. CASE Finish(p)
        BY <1>5 DEF Finish, Advancing, Typed
    <1>6. ASSUME NEW u \in Subjects, LoginPreRead(p, u)
          PROVE  cred'[p] = NoAccount
        BY <1>6 DEF LoginPreRead, Advancing, AllLocated, Located
    <1>7. ASSUME NEW t \in Tokens, AuthBegin(p, t) PROVE cred'[p] = NoAccount
        BY <1>7 DEF AuthBegin, Advancing, AllLocated, Located
    <1> QED BY <1>1, <1>2, <1>3, <1>4, <1>5, <1>6, <1>7
           DEF RequestStep, LoginVerify, LoginIssue, RevokeUnstamped, AuthAccept,
               AuthLookup, SettleRevoke, SettleRebound, PwSelect, PwUpdate, PwRotate, Done

LEMMA CopiesKept ==
    ASSUME Advancing, NEW p \in Procs, NEW q \in Procs PROVE CopiesAgree(p, q)'
    <1> SUFFICES ASSUME row'[p] # NoAccount, cred'[q] # NoAccount, usr'[p] = usr'[q],
                        StampOf(row'[p]) = StampOf(cred'[q])
                 PROVE  row'[p].role = cred'[q].role /\ row'[p].hash = cred'[q].hash
        BY DEF CopiesAgree
    <1>1. PastRow(row[p], usr[p])' /\ PastRow(cred[q], usr[q])'
        BY DEF Advancing, IInv, RequestInv
    <1>2. CASE row'[p] = store'[usr'[p]] \/ cred'[q] = store'[usr'[q]]
        BY <1>1, <1>2 DEF PastRow
    <1>3. CASE row'[p] = row[p] /\ usr'[p] = usr[p] /\ cred'[q] = cred[q] /\ usr'[q] = usr[q]
        BY <1>3 DEF Advancing, AcceptInv, CopiesAgree
    <1> QED BY <1>2, <1>3, RowSource, CredSource

\* A binding the account has after a step that leaves the record alone, it had
\* before, with the same role.
LEMMA BoundBefore ==
    ASSUME Advancing, NEW t \in Tokens, tokens'[t] = tokens[t], Bound(t)'
    PROVE  Bound(t) /\ store'[tokens[t].user].role = store[tokens[t].user].role
    <1> DEFINE u == tokens[t].user
               s == tokens[t].stamp
    <1>1. /\ u \in Users /\ store'[u] # NoAccount /\ s = StampOf(store'[u])
          /\ tokens[t] # NoRecord
        BY DEF Bound, Advancing, Typed, Record
    <1>2. StampOf(store'[u]) \in Stamp
        BY <1>1 DEF Advancing, Typed, Account, Stamp, StampOf
    <1>3. /\ s.id \in Nat /\ s.epoch \in Nat /\ s # NoStamp
          /\ s.id = store'[u].id /\ s.epoch = store'[u].epoch /\ s \in Stamp
        BY <1>1, <1>2, NullsAreFresh DEF Stamp, StampOf
    <1>4. Past(s, u)
        BY <1>1, <1>3 DEF Advancing, AcceptInv, IInv, TokenInv
    <1>5. /\ store[u] # NoAccount /\ store[u].id = s.id /\ store[u].epoch = s.epoch
          /\ store'[u].role = store[u].role
        BY <1>1, <1>3, <1>4, UnchangedSince DEF Advancing
    <1> QED BY <1>1, <1>3, <1>5 DEF Bound, StampOf, Stamp

\* A re-binding of the username's newest row: the row written has its role and
\* its stamp is the new binding.
LEMMA RotatedRow ==
    ASSUME Advancing, NEW q \in Procs, NEW t \in Tokens, Rotated(q, t), Newest(q)
    PROVE  /\ StampOf(cred[q]) = tokens'[t].stamp
           /\ tokens'[t].role = cred[q].role
    <1>1. /\ row[q] \in Account /\ cred[q] \in Account /\ usr[q] \in Users
          /\ Follows(cred[q], row[q]) /\ PastRow(cred[q], usr[q])
          /\ seen[q] = tokens[t].stamp /\ StampOf(row[q]) = seen[q]
          /\ tokens'[t].stamp = [id |-> tokens[t].stamp.id,
                                 epoch |-> tokens[t].stamp.epoch + 1]
          /\ cred[q].epoch = tokens[t].stamp.epoch + 1
          /\ tokens'[t].role = tokens[t].role
        BY RotatedStamp
    <1>2. cred[q].id = row[q].id
        <2>1. cred[q].id <= newest[usr[q]] /\ row[q].id <= cred[q].id
            BY <1>1 DEF PastRow, Past, Follows
        <2>2. cred[q].id \in Nat /\ row[q].id \in Nat
            BY <1>1 DEF Account
        <2> QED BY <2>1, <2>2 DEF Newest
    <1>3. cred[q].role = row[q].role
        BY <1>2 DEF Rotated, Advancing, AcceptInv, RotateInv
    <1>4. tokens[t].role = row[q].role
        <2>1. tok[q] # NoToken /\ row[q] # NoAccount
            BY DEF Rotated, Advancing, AllLocated, Located
        <2> QED BY <1>1, <2>1 DEF Rotated, Advancing, AcceptInv, HolderInv
    <1>5. tokens[t].stamp.id = row[q].id
        BY <1>1 DEF StampOf
    <1> QED BY <1>1, <1>2, <1>3, <1>4, <1>5 DEF StampOf

LEMMA RoleKept ==
    ASSUME Advancing, NEW t \in Tokens PROVE RoleInv(t)'
    <1> SUFFICES ASSUME Bound(t)'
                 PROVE  tokens'[t].role = store'[tokens'[t].user].role
        BY DEF RoleInv
    <1>1. TokenKind(t)
        BY TokenKinds DEF Advancing
    <1>2. CASE tokens'[t] = tokens[t]
        BY <1>2, BoundBefore DEF Advancing, AcceptInv, RoleInv
    <1>3. ASSUME NEW p \in Procs, LoginIssue(p), t \in issued', t \notin issued
          PROVE  tokens'[t].role = store'[tokens'[t].user].role
        <2>1. /\ tokens'[t] = [user |-> usr[p], role |-> cred[p].role,
                              stamp |-> StampOf(row[p])]
              /\ store' = store
            BY <1>3 DEF LoginIssue, storeVars, Advancing, Typed
        <2>2. /\ usr[p] \in Users /\ row[p] \in Account /\ cred[p] \in Account
              /\ PastRow(row[p], usr[p]) /\ PastRow(cred[p], usr[p])
              /\ Follows(cred[p], row[p])
            BY <1>3 DEF LoginIssue, Advancing, AllLocated, Located, AcceptInv, IInv,
                        RequestInv, Typed
        <2>3. /\ store[usr[p]] # NoAccount
              /\ row[p].id = store[usr[p]].id /\ row[p].epoch = store[usr[p]].epoch
            BY <2>1 DEF Bound, StampOf
        <2>4. cred[p].id = store[usr[p]].id /\ cred[p].epoch = store[usr[p]].epoch
            <3>1. /\ cred[p].id = store[usr[p]].id
                  /\ row[p].epoch <= cred[p].epoch /\ cred[p].epoch <= store[usr[p]].epoch
                BY <2>2, <2>3, FollowsNow DEF Advancing, AcceptInv, IInv
            <3> QED BY <2>2, <2>3, <3>1 DEF Account
        <2> QED BY <2>1, <2>2, <2>3, <2>4 DEF PastRow, StampOf
    <1>4. ASSUME NEW q \in Procs, Refreshed(q, t)
          PROVE  tokens'[t].role = store'[tokens'[t].user].role
        <2>1. /\ tokens'[t].role = row[q].role /\ tokens'[t].user = tokens[t].user
              /\ tokens'[t].stamp = StampOf(row[q]) /\ store' = store
            BY <1>4 DEF Refreshed, storeVars, Record, Advancing, Typed
        <2>2. usr[q] = tokens[t].user /\ PastRow(row[q], usr[q])
            BY <1>4, NullsAreFresh DEF Refreshed, Advancing, AcceptInv, IInv, RequestInv
        <2> QED BY <2>1, <2>2 DEF Bound, PastRow
    <1>5. ASSUME NEW q \in Procs, Rotated(q, t)
          PROVE  tokens'[t].role = store'[tokens'[t].user].role
        <2>1. /\ store' = store /\ tokens'[t].user = usr[q] /\ usr[q] \in Users
              /\ store[usr[q]] # NoAccount /\ tokens'[t].stamp = StampOf(store[usr[q]])
            <3>1. tokens'[t].user = usr[q] /\ usr[q] \in Users
                <4>1. /\ tokens'[t].user = tokens[t].user /\ usr[q] \in Users
                      /\ usr[q] = tokens[t].user
                    BY <1>5, RotatedStamp, Zenon
                <4> QED BY <4>1
            <3>2. store' = store
                BY <1>5 DEF Rotated, storeVars
            <3> QED BY <3>1, <3>2 DEF Bound
        <2>2. row[q].id = store[usr[q]].id
            <3>1. /\ StampOf(row[q]) = tokens[t].stamp
                  /\ tokens'[t].stamp = [id |-> tokens[t].stamp.id,
                                         epoch |-> tokens[t].stamp.epoch + 1]
                BY <1>5, RotatedStamp
            <3> QED BY <2>1, <3>1 DEF StampOf
        <2>3. Newest(q)
            BY <2>1, <2>2 DEF Newest, Advancing, AcceptInv, IInv, RowsInv
        <2>4. StampOf(cred[q]) = StampOf(store[usr[q]]) /\ tokens'[t].role = cred[q].role
            BY <1>5, <2>1, <2>3, RotatedRow
        <2> QED BY <1>5, <2>1, <2>4, RotatedStamp DEF PastRow
    <1> QED BY <1>1, <1>2, <1>3, <1>4, <1>5 DEF TokenKind, Bound

LEMMA HolderKept ==
    ASSUME Advancing, NEW p \in Procs PROVE HolderInv(p)'
    <1> DEFINE t == tok[p]
    <1> SUFFICES ASSUME tok'[p] # NoToken, tokens'[tok'[p]] # NoRecord,
                        row'[p] # NoAccount, Newest(p)'
                 PROVE  HolderInv(p)'
        BY DEF HolderInv
    <1>1. RequestKind(p)
        BY RequestKinds DEF Advancing
    <1>2. ASSUME NEW s \in Tokens, AuthBegin(p, s) PROVE FALSE
        BY <1>2 DEF AuthBegin, Advancing, AllLocated, Located
    <1>3. CASE LooksUp(p)
        <2>1. /\ tok'[p] = t /\ tokens' = tokens /\ store' = store /\ proven' = proven
              /\ row'[p] = store[usr[p]] /\ seen'[p] = seen[p] /\ usr[p] \in Users
              /\ seen[p] # NoStamp /\ seen[p] \in Stamp /\ store[usr[p]] \in Account
            BY <1>3, LookedUp DEF storeVars, Advancing, Typed
        <2>2. /\ tokens[t] # NoRecord /\ tokens[t].user = usr[p] /\ t \in Tokens
              /\ tokens[t] \in Record /\ TokenInv(t)
            BY <2>1, Carried
        <2>3. ASSUME StampOf(store[usr[p]]) = seen[p]
              PROVE  StampOf(store[usr[p]]) = tokens[t].stamp
            <3>1. /\ tokens[t].stamp # NoStamp /\ tokens[t].stamp.id = seen[p].id
                  /\ seen[p].epoch <= tokens[t].stamp.epoch
                BY <2>1, <2>2 DEF Advancing, AcceptInv, BindingInv
            <3>2. tokens[t].stamp.epoch <= store[usr[p]].epoch
                BY <2>1, <2>2, <2>3, <3>1 DEF TokenInv, Past, StampOf
            <3>3. tokens[t].stamp \in Stamp
                BY <2>2, <3>1 DEF Record
            <3> QED BY <2>1, <2>3, <3>1, <3>2, <3>3 DEF Stamp, StampOf, Account
        <2>4. ASSUME StampOf(store[usr[p]]) = tokens[t].stamp
              PROVE  /\ tokens[t].role = store[usr[p]].role
                     /\ live'[p] /\ proven[t] = store[usr[p]].hash
            <3>1. Bound(t) /\ Bound(t)'
                BY <2>1, <2>2, <2>4 DEF Bound
            <3>2. live'[p]
                BY <1>3, <2>1, <2>2, <3>1, LookedUp, LiveStays DEF Advancing
            <3> QED BY <2>2, <3>1, <3>2 DEF TokenInv, Advancing, AcceptInv, RoleInv
        <2> QED BY <2>1, <2>3, <2>4 DEF HolderInv
    <1>4. CASE Keeps(p) \/ Adopts(p)
        <2>1. /\ tok'[p] = t /\ usr'[p] = usr[p] /\ row'[p] = row[p]
              /\ pc[p] # "idle" /\ pc'[p] # "idle"
              /\ seen'[p] \in {seen[p], tokens[t].stamp}
            BY <1>4 DEF Keeps, Adopts, SettleRebound, Finish, Advancing, Typed
        <2>2. Newest(p) /\ row[p] \in Account
            BY <2>1, NewestBefore
        <2>3. t \in issued /\ t \in Tokens /\ tokens[t] # NoRecord
            BY <2>1 DEF Advancing, AcceptInv, IInv, RequestInv, TokenAdvance, Typed
        <2>4. /\ StampOf(row[p]) \in {seen[p], tokens[t].stamp}
                    => tokens[t].role = row[p].role
              /\ StampOf(row[p]) = tokens[t].stamp => live[p] /\ proven[t] = row[p].hash
            BY <2>1, <2>2, <2>3 DEF Advancing, AcceptInv, HolderInv
        <2>5. live[p] => live'[p]
            BY <2>1, LiveStays DEF Advancing
        <2>6. CASE tokens'[t] = tokens[t] /\ proven'[t] = proven[t]
            BY <2>1, <2>4, <2>5, <2>6 DEF HolderInv
        <2>7. ASSUME NEW q \in Procs, Refreshed(q, t) PROVE HolderInv(p)'
            <3>1. tokens'[t].stamp = tokens[t].stamp /\ proven'[t] = proven[t]
                BY <2>3, <2>7 DEF Refreshed, Record, Advancing, Typed
            <3>2. CASE StampOf(row[p]) \in {seen[p], tokens[t].stamp}
                <4>1. Newest(q)
                    BY <2>1, <2>2, <2>3, <2>7, <3>2, SameRow DEF Refreshed
                <4>2. tokens'[t] = tokens[t]
                    BY <2>3, <2>7, <4>1, RefreshIsIdle
                <4> QED BY <2>6, <3>1, <4>2
            <3>3. CASE StampOf(row[p]) \notin {seen[p], tokens[t].stamp}
                BY <2>1, <3>1, <3>3 DEF HolderInv
            <3> QED BY <3>2, <3>3
        <2>8. ASSUME NEW q \in Procs, Rotated(q, t) PROVE HolderInv(p)'
            <3>1. /\ tokens'[t].role = tokens[t].role /\ proven'[t] = cred[q].hash
                  /\ StampOf(row[q]) = seen[q] /\ seen[q] = tokens[t].stamp
                  /\ tokens'[t].stamp = [id |-> seen[q].id, epoch |-> cred[q].epoch]
                BY <2>3, <2>8, RotatedStamp
            <3>2. ASSUME StampOf(row[p]) = tokens'[t].stamp
                  PROVE  /\ tokens'[t].role = row[p].role
                         /\ live[p] /\ proven'[t] = row[p].hash
                <4>1. usr[p] = tokens[t].user /\ usr[q] = usr[p]
                    BY <2>1, <2>3, <2>8, Carried, RotatedStamp
                <4>2. row[p].id = row[q].id
                    BY <3>1, <3>2 DEF StampOf
                <4>3. Newest(q)
                    BY <2>2, <4>1, <4>2 DEF Newest
                <4>4. /\ StampOf(cred[q]) = StampOf(row[p]) /\ tokens'[t].role = cred[q].role
                      /\ cred[q] # NoAccount
                    <5>1. StampOf(cred[q]) = tokens'[t].stamp /\ tokens'[t].role = cred[q].role
                        BY <2>3, <2>8, <4>3, RotatedRow
                    <5>2. cred[q] \in Account
                        BY <2>3, <2>8, RotatedStamp
                    <5> QED BY <3>2, <5>1, <5>2, NullsAreFresh DEF Account
                <4>5. row[p].role = cred[q].role /\ row[p].hash = cred[q].hash
                    BY <2>1, <4>1, <4>4 DEF Advancing, AcceptInv, CopiesAgree
                <4>6. live[p]
                    <5>1. StampOf(row[p]) = [id |-> seen[q].id, epoch |-> cred[q].epoch]
                        BY <3>1, <3>2
                    <5> QED BY <2>1, <2>2, <2>3, <2>8, <5>1
                           DEF Rotated, Advancing, AcceptInv, RotateInv
                <4> QED BY <3>1, <4>4, <4>5, <4>6
            <3>3. ASSUME StampOf(row[p]) = seen'[p], StampOf(row[p]) # tokens'[t].stamp
                  PROVE  tokens'[t].role = row[p].role
                BY <2>1, <2>4, <3>1, <3>3
            <3> QED BY <2>1, <2>5, <3>2, <3>3 DEF HolderInv
        <2>9. TokenKind(t)
            BY <2>3, TokenKinds DEF Advancing
        <2> QED BY <2>1, <2>3, <2>6, <2>7, <2>8, <2>9 DEF TokenKind
    <1> QED BY <1>1, <1>2, <1>3, <1>4 DEF RequestKind, Forgets

LEMMA RotateKept ==
    ASSUME Advancing, NEW q \in Procs PROVE RotateInv(q)'
    <1> DEFINE t == tok[q]
    <1> SUFFICES ASSUME pc'[q] = "rotate" PROVE RotateInv(q)'
        BY DEF RotateInv
    <1>1. Keeps(q)
        BY RequestKinds
           DEF Advancing, RequestKind, Forgets, LooksUp, Adopts, AuthBegin, Typed
    <1>2. /\ tok'[q] = t /\ usr'[q] = usr[q] /\ row'[q] = row[q] /\ seen'[q] = seen[q]
          /\ t # NoToken /\ usr[q] \in Users /\ seen[q] # NoStamp /\ seen[q] \in Stamp
        BY <1>1 DEF Keeps, Advancing, AllLocated, Located, Typed
    <1>3. CASE pc[q] = "rotate" /\ cred'[q] = cred[q]
        <2>1. ASSUME NEW p \in Procs, tok'[p] = tok'[q], row'[p] # NoAccount, Newest(p)',
                     tokens'[t] # NoRecord, tokens'[t].stamp = seen'[q],
                     StampOf(row'[p]) = [id |-> seen'[q].id, epoch |-> cred'[q].epoch]
              PROVE  live'[p]
            <3>1. RequestKind(p)
                BY RequestKinds DEF Advancing
            <3>2. ~Forgets(p) /\ \A s \in Tokens : ~AuthBegin(p, s)
                BY <1>2, <2>1 DEF Forgets, AuthBegin, Advancing, AllLocated, Located
            <3>3. CASE LooksUp(p)
                <4>1. /\ tok[p] = t /\ tokens' = tokens /\ store' = store
                      /\ row'[p] = store[usr[p]] /\ tok'[p] = t /\ pc'[p] = "settle"
                    BY <1>2, <2>1, <3>3, LookedUp DEF storeVars
                <4>2. usr[q] = usr[p]
                    BY <1>2, <2>1, <4>1, Carried
                <4>3. [seen'[q] EXCEPT !.epoch = cred'[q].epoch]
                        = [id |-> seen'[q].id, epoch |-> cred'[q].epoch]
                    BY <1>2 DEF Stamp
                <4>4. PICK s \in Tokens : s = t
                    BY <1>2 DEF Advancing, Typed
                <4>5. Rebinding(s)'
                    BY <1>2, <2>1, <4>1, <4>2, <4>3, <4>4 DEF Rebinding
                <4>6. pc'[p] # "idle" /\ tok'[p] = s
                    BY <4>1, <4>4
                <4> QED BY <4>5, <4>6, LiveStays DEF Advancing
            <3>4. CASE Keeps(p) \/ Adopts(p)
                <4>1. /\ tok[p] = t /\ usr'[p] = usr[p] /\ row'[p] = row[p]
                      /\ pc[p] # "idle" /\ pc'[p] # "idle"
                    BY <1>2, <2>1, <3>4
                       DEF Keeps, Adopts, SettleRebound, Finish, Advancing, Typed
                <4>2. Newest(p)
                    BY <2>1, <4>1, NewestBefore
                <4>3. t \in issued /\ t \in Tokens /\ tokens[t] # NoRecord
                    BY <1>2, <2>1 DEF Advancing, AcceptInv, IInv, RequestInv, TokenAdvance,
                                      Typed
                <4>4. ASSUME tokens'[t].stamp = tokens[t].stamp PROVE live'[p]
                    <5>1. live[p]
                        BY <1>2, <1>3, <2>1, <4>1, <4>2, <4>3, <4>4
                           DEF Advancing, AcceptInv, RotateInv
                    <5> QED BY <4>1, <5>1, LiveStays DEF Advancing
                <4>5. ASSUME NEW r \in Procs, Rotated(r, t) PROVE FALSE
                    <5>1. /\ tokens'[t].stamp.epoch = tokens[t].stamp.epoch + 1
                          /\ tokens[t].stamp \in Stamp
                        <6>1. tokens'[t].stamp = [id |-> tokens[t].stamp.id,
                                                  epoch |-> tokens[t].stamp.epoch + 1]
                            BY <4>3, <4>5, RotatedStamp
                        <6>2. tokens[t].stamp \in Stamp
                            BY <4>3, <4>5, RotatedStamp
                        <6> QED BY <6>1, <6>2
                    <5>2. seen[q].epoch <= tokens[t].stamp.epoch
                        BY <1>2, <4>3 DEF Advancing, AcceptInv, BindingInv
                    <5> QED BY <1>2, <2>1, <5>1, <5>2 DEF Stamp
                <4>6. ASSUME NEW r \in Procs, Refreshed(r, t)
                      PROVE  tokens'[t].stamp = tokens[t].stamp
                    BY <4>3, <4>6 DEF Refreshed, Record, Advancing, Typed
                <4>7. TokenKind(t)
                    BY <4>3, TokenKinds DEF Advancing
                <4> QED BY <2>1, <4>3, <4>4, <4>5, <4>6, <4>7 DEF TokenKind
            <3> QED BY <3>1, <3>2, <3>3, <3>4 DEF RequestKind
        <2>2. /\ cred[q].epoch = seen[q].epoch + 1
              /\ cred[q].id = row[q].id => cred[q].role = row[q].role
            BY <1>3 DEF Advancing, AcceptInv, RotateInv
        <2> QED BY <1>2, <1>3, <2>1, <2>2 DEF RotateInv
    <1>4. CASE PwUpdate(q)
        <2> DEFINE old == store[usr[q]]
        <2>1. /\ pc[q] = "update" /\ old # NoAccount /\ cred'[q] = Rehashed(old)
              /\ MayRotate(q, Rehashed(old)) /\ old.id = cred[q].id
              /\ tokens' = tokens /\ newest' = newest
            BY <1>4 DEF PwUpdate, HashUnchanged, Finish, tokenVars, Advancing, Typed
        <2>2. /\ old \in Account /\ row[q] \in Account /\ PastRow(row[q], usr[q])
              /\ seen[q] = StampOf(row[q])
            BY <1>2, <2>1
               DEF Advancing, Typed, AllLocated, Located, AcceptInv, IInv, RequestInv
        <2>3. /\ cred'[q].epoch = old.epoch + 1 /\ cred'[q].id = old.id
              /\ cred'[q].role = old.role /\ cred'[q].epoch = seen[q].epoch + 1
            BY <2>1, <2>2 DEF Rehashed, MayRotate
        <2>4. ASSUME old.id = row[q].id PROVE old.role = row[q].role
            <3>1. old.epoch = row[q].epoch
                BY <1>2, <2>2, <2>3 DEF StampOf, Account, Stamp
            <3> QED BY <2>1, <2>2, <2>4, <3>1 DEF PastRow, StampOf
        <2>5. ASSUME NEW p \in Procs, tok'[p] = tok'[q], row'[p] # NoAccount, Newest(p)',
                     tokens'[t] # NoRecord,
                     StampOf(row'[p]) = [id |-> seen'[q].id, epoch |-> cred'[q].epoch]
              PROVE  FALSE
            <3>1. tok[p] = t /\ usr'[p] = usr[p] /\ row'[p] = row[p]
                BY <1>2, <1>4, <2>5, OthersKept DEF Advancing, RequestStep, SameLocals
            <3>2. usr[p] = usr[q]
                BY <1>2, <2>1, <2>5, <3>1, Carried
            <3>3. /\ row[p].id = newest[usr[q]] /\ row[p].epoch = old.epoch + 1
                  /\ row[p] # NoAccount
                BY <2>1, <2>3, <2>5, <3>1, <3>2 DEF Newest, StampOf
            <3>4. old.id = newest[usr[q]]
                BY <1>2, <2>1 DEF Advancing, AcceptInv, IInv, RowsInv
            <3>5. PastRow(row[p], usr[q])
                BY <3>2, <3>3 DEF Advancing, AcceptInv, IInv, RequestInv
            <3> QED BY <2>1, <2>2, <3>3, <3>4, <3>5 DEF PastRow, Past, Account
        <2> QED BY <1>2, <2>3, <2>4, <2>5 DEF RotateInv
    <1> QED BY <1>1, <1>3, <1>4 DEF Keeps

-----------------------------------------------------------------------------
LEMMA AcceptInit == Init => AcceptInv
    <1> SUFFICES ASSUME Init PROVE AcceptInv
        OBVIOUS
    <1>1. IInv
        BY InvInit
    <1>2. \A t \in Tokens : RoleInv(t)
        BY DEF Init, RoleInv, Bound
    <1>3. \A p \in Procs :
            BindingInv(p) /\ LiveInv(p) /\ DeadInv(p) /\ HolderInv(p) /\ RotateInv(p)
        BY DEF Init, BindingInv, LiveInv, DeadInv, HolderInv, RotateInv
    <1>4. \A p, q \in Procs : CopiesAgree(p, q)
        BY DEF Init, CopiesAgree
    <1> QED BY <1>1, <1>2, <1>3, <1>4 DEF AcceptInv

\* A step of the system gives everything the lemmas above assume of it.
LEMMA NextAdvances == ASSUME AcceptInv, Next PROVE Advancing
    <1>1. IInv'
        BY InvNext DEF AcceptInv
    <1>2. Typed /\ AllLocated /\ Typed' /\ AllLocated'
        BY <1>1 DEF AcceptInv, IInv, TypeOK, Typed, AllLocated
    <1>3. StoreAdvance /\ TokenAdvance
        BY <1>2, StoreAdvances, TokensAdvance DEF Next, AcceptInv, IInv
    <1> QED BY <1>1, <1>2, <1>3 DEF Advancing, Next

LEMMA AcceptNext == AcceptInv /\ [Next]_vars => AcceptInv'
    <1> SUFFICES ASSUME AcceptInv, [Next]_vars PROVE AcceptInv'
        OBVIOUS
    <1>1. CASE Next
        <2>1. Advancing
            BY <1>1, NextAdvances
        <2> QED BY <2>1, RoleKept, BindingKept, LiveKept, HolderKept, RotateKept, CopiesKept
               DEF AcceptInv, Advancing
    <1>2. CASE UNCHANGED vars
        <2>1. IInv'
            BY InvNext DEF AcceptInv
        <2>2. /\ (\A t \in Tokens : RoleInv(t))'
              /\ (\A p \in Procs : BindingInv(p) /\ LiveInv(p) /\ DeadInv(p))'
              /\ (\A p, q \in Procs : CopiesAgree(p, q))'
            BY <1>2
               DEF AcceptInv, RoleInv, Bound, BindingInv, LiveInv, DeadInv, Matches,
                   CopiesAgree, vars, storeVars, tokenVars, procVars
        <2>3. (\A p \in Procs : HolderInv(p) /\ RotateInv(p))'
            BY <1>2
               DEF AcceptInv, HolderInv, RotateInv, Newest,
                   vars, storeVars, tokenVars, procVars
        <2> QED BY <2>1, <2>2, <2>3 DEF AcceptInv
    <1> QED BY <1>1, <1>2

\* Whoever else logs in with, refreshes or re-binds the same token, a handler
\* sees the role its request was validated with, or no session.
THEOREM HandlersReadValidatedRole == Spec => []HandlerReadsValidatedRole
    <1>1. AcceptInv => HandlerReadsValidatedRole
        BY DEF AcceptInv, IInv, RequestInv, Located, HolderInv, HandlerReadsValidatedRole
    <1> QED BY <1>1, AcceptInit, AcceptNext, PTL DEF Spec

\* No request is accepted under a token that was dead throughout it, or with an
\* account whose password the token's holder did not prove.
THEOREM AcceptancesAreWarranted == Spec => AcceptedIsWarranted
    <1> DEFINE Warranted ==
            \A p \in Procs :
                (/\ pc[p] = "settle" /\ pc'[p] = "handling"
                 /\ seen'[p] = seen[p] \/ Newest(p))
                    => /\ live'[p]
                       /\ row[p].hash = IF seen'[p] = seen[p] THEN claim[p]
                                        ELSE proven[tok[p]]
    <1>1. ASSUME AcceptInv, Next PROVE Warranted
        <2> SUFFICES ASSUME NEW p \in Procs, pc[p] = "settle", pc'[p] = "handling",
                            seen'[p] = seen[p] \/ Newest(p)
                     PROVE  /\ live'[p]
                            /\ row[p].hash = IF seen'[p] = seen[p] THEN claim[p]
                                             ELSE proven[tok[p]]
            OBVIOUS
        <2>1. Advancing
            BY <1>1, NextAdvances
        <2>2. live[p] => live'[p]
            BY <2>1, LiveStays DEF Advancing
        <2>3. AuthAccept(p) \/ SettleRebound(p)
            <3>1. RequestStep(p)
                BY <2>1, OthersKept
                   DEF Advancing, SameLocals, procVars, Step, StoreStep, TokenStep,
                       CreateUser, UpdateUser, ResetPassword, DeleteUser, IssueUnstamped,
                       Logout, Expire
            <3> QED BY <2>1, <3>1
                   DEF Advancing, Typed, RequestStep, LoginPreRead, LoginVerify, LoginIssue,
                       Setup, AuthBegin, RevokeUnstamped, AuthLookup, SettleRevoke,
                       PwSelect, PwUpdate, PwRotate, Done, Finish
        <2>4. CASE AuthAccept(p)
            <3>1. live[p] /\ claim[p] = row[p].hash
                BY <2>1, <2>4 DEF AuthAccept, Advancing, AcceptInv, LiveInv
            <3> QED BY <2>2, <2>4, <3>1 DEF AuthAccept
        <2>5. CASE SettleRebound(p)
            <3>1. /\ tokens[tok[p]] # NoRecord /\ row[p] # NoAccount
                  /\ tokens[tok[p]].stamp = StampOf(row[p])
                  /\ seen'[p] = StampOf(row[p]) /\ seen'[p] # seen[p]
                BY <2>1, <2>5
                   DEF SettleRebound, Matches, Finish, Advancing, Typed
            <3>2. live[p] /\ proven[tok[p]] = row[p].hash
                BY <2>1, <3>1 DEF Advancing, AcceptInv, HolderInv, AllLocated, Located
            <3> QED BY <2>2, <3>1, <3>2
        <2> QED BY <2>3, <2>4, <2>5
    <1>2. AcceptInv /\ [Next]_vars => [Warranted]_vars
        BY <1>1
    <1> QED BY <1>2, AcceptInit, AcceptNext, PTL DEF Spec, AcceptedIsWarranted

\* No validation, however late its lookup is, ends a session that a request
\* beginning now would be accepted with.
THEOREM LiveSessionsSurviveValidation == Spec => ValidationKeepsLiveSessions
    <1> DEFINE Spares ==
            \A p \in Procs, t \in Tokens :
                (/\ pc[p] \in {"lookup", "settle"} /\ pc'[p] # pc[p]
                 /\ tokens[t] # NoRecord /\ tokens'[t] = NoRecord)
                    => ~Bound(t)
    <1>1. ASSUME AcceptInv, Next PROVE Spares
        <2> SUFFICES ASSUME NEW p \in Procs, NEW t \in Tokens,
                            pc[p] \in {"lookup", "settle"}, pc'[p] # pc[p],
                            tokens[t] # NoRecord, tokens'[t] = NoRecord
                     PROVE  ~Bound(t)
            OBVIOUS
        <2>1. Advancing
            BY <1>1, NextAdvances
        <2>2. RequestStep(p)
            BY <2>1, OthersKept
               DEF Advancing, SameLocals, procVars, Step, StoreStep, TokenStep,
                   CreateUser, UpdateUser, ResetPassword, DeleteUser, IssueUnstamped,
                   Logout, Expire
        <2>3. CASE RevokeUnstamped(p)
            <3>1. tokens[t].stamp = NoStamp
                BY <2>1, <2>3 DEF RevokeUnstamped, Drop, Advancing, Typed
            <3>2. ASSUME store[tokens[t].user] # NoAccount
                  PROVE  StampOf(store[tokens[t].user]) \in Stamp
                BY <2>1, <3>2 DEF Advancing, Typed, Record, Account, Stamp, StampOf
            <3> QED BY <3>1, <3>2, NullsAreFresh DEF Bound, Stamp
        <2>4. CASE SettleRevoke(p)
            <3>1. t = tok[p] /\ tokens[t].stamp = seen[p] /\ ~Matches(p)
                BY <2>1, <2>4 DEF SettleRevoke, Drop, Advancing, Typed
            <3>2. tokens[t].user = usr[p]
                BY <2>1, <3>1, Carried, NullsAreFresh
            <3> QED BY <2>1, <2>4, <3>1, <3>2
                   DEF SettleRevoke, Bound, Advancing, AcceptInv, DeadInv
        <2>5. ASSUME tokens'[t] = tokens[t] PROVE FALSE
            BY <2>5
        <2>6. CASE AuthAccept(p) \/ SettleRebound(p)
            <3>1. TokenKind(t)
                BY <2>1, TokenKinds DEF Advancing
            <3>2. tokens[t] \in Record
                BY <2>1 DEF Advancing, Typed
            <3>3. CASE t = tok[p] /\ tokens' = [tokens EXCEPT ![tok[p]].role = row[p].role]
                <4>1. tokens'[t] = [tokens[t] EXCEPT !.role = row[p].role]
                    BY <2>1, <3>3 DEF Advancing, Typed
                <4>2. row[p] # NoAccount
                    BY <2>6, <3>3, <2>5 DEF AuthAccept, SettleRebound, Matches
                <4>3. row[p].role \in Roles
                    BY <2>1, <4>2 DEF Advancing, Typed, Account
                <4>4. tokens'[t] \in Record
                    BY <3>2, <4>1, <4>3 DEF Record
                <4> QED BY <4>4, NullsAreFresh DEF Record, Stamp
            <3> QED BY <2>1, <2>5, <2>6, <3>3
                   DEF AuthAccept, SettleRebound, Advancing, Typed
        <2>7. CASE UNCHANGED tokens
            BY <2>5, <2>7
        <2> QED BY <2>2, <2>3, <2>4, <2>6, <2>7
               DEF RequestStep, LoginPreRead, LoginVerify, LoginIssue, Setup, AuthBegin,
                   AuthLookup, PwSelect, PwUpdate, PwRotate, Done, tokenVars
    <1>2. AcceptInv /\ [Next]_vars => [Spares]_vars
        BY <1>1
    <1> QED BY <1>2, AcceptInit, AcceptNext, PTL DEF Spec, ValidationKeepsLiveSessions

=============================================================================
