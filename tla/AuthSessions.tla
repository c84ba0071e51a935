---------------------------- MODULE AuthSessions ----------------------------
(***************************************************************************)
(* Account-bound bearer sessions (ADR-0014): the in-memory token map of    *)
(* banto-server's AuthState against the `users` table of                   *)
(* banto-admin-services' UsersService.                                     *)
(*                                                                         *)
(* Every request is a process whose steps are the stretches of code        *)
(* between two awaits or two lock sections: the pre-login read of the      *)
(* account, the credential check, the issue of the token; the in-memory    *)
(* lookup of a token, the re-read of its account, the settlement; the      *)
(* select, the compare-and-set UPDATE and the re-binding of a password     *)
(* change.  Account writes of other requests and of the desktop run        *)
(* between any two of them.                                                *)
(*                                                                         *)
(* Abstractions.  A password is only the identity of the salted hash that  *)
(* stores it; whether a submitted password matches is the environment's    *)
(* choice.  Time is left out: a token may expire whenever it likes.        *)
(***************************************************************************)
EXTENDS Naturals

CONSTANTS
    Users,       \* usernames (Identity::id)
    Tokens,      \* bearer tokens (uuid v4, never issued twice)
    Procs,       \* concurrent requests
    Roles,       \* account roles
    Admin,       \* the role the last-admin guard protects
    NoAccount,   \* "no such row"
    NoRecord,    \* "no such token"
    NoStamp,     \* a token minted without a stamp
    NoToken,     \* a request that carries no token
    NoUser,      \* a request about no account
    InitialIds,  \* the row ids of the accounts a restart may find; 0: none
    FirstId,     \* the row id the next account gets
    Subjects,    \* bound: the accounts requests and admins act on
    MaxId,       \* bound: row ids handed out
    MaxEpoch,    \* bound: epoch steps of one row by role changes and resets
    MaxHash      \* bound: password hashes written

ASSUME AdminIsARole == Admin \in Roles
ASSUME BoundsAreNat == MaxId \in Nat /\ MaxEpoch \in Nat /\ MaxHash \in Nat
ASSUME InitialIdsArePast ==
    /\ InitialIds \subseteq [Users -> Nat]
    /\ FirstId \in Nat \ {0}
    /\ \A ids \in InitialIds : \A u \in Users : ids[u] < FirstId
ASSUME SubjectsAreUsers == Subjects \subseteq Users
ASSUME NullsAreFresh ==
    /\ NoAccount \notin [id : Nat, epoch : Nat, role : Roles, hash : Nat]
    /\ NoRecord \notin [user : Users, role : Roles,
                        stamp : [id : Nat, epoch : Nat] \cup {NoStamp}]
    /\ NoStamp \notin [id : Nat, epoch : Nat]
    /\ NoToken \notin Tokens
    /\ NoUser \notin Users

VARIABLES
    store,     \* the users table: username -> row
    nextId,    \* AUTOINCREMENT: a deleted row's id is never used again
    nextHash,  \* the next salted hash (no two writes store the same one)
    tokens,    \* AuthState::tokens
    issued,    \* tokens ever minted
    pc,        \* where each request is
    tok,       \* the bearer token of each request
    usr,       \* the username each request is about
    row,       \* the account its last lookup returned
    seen,      \* the stamp its token was bound to when it was looked up
    cred,      \* the row its credential check read, or its UPDATE wrote
    proven,    \* history: the password hash each token's holder proved
    claim,     \* history: proven[tok] when the request began
    live,      \* history: the request's token was live at some moment of it
    newest     \* history: the row id each username was given last; 0: none

storeVars == <<store, nextId, nextHash, newest>>
tokenVars == <<tokens, issued, proven>>
procVars  == <<pc, tok, usr, row, seen, cred, claim>>
vars == <<storeVars, tokenVars, procVars, live>>

-----------------------------------------------------------------------------
Account == [id : Nat, epoch : Nat, role : Roles, hash : Nat]
Stamp   == [id : Nat, epoch : Nat]
Record  == [user : Users, role : Roles, stamp : Stamp \cup {NoStamp}]
Phase   == {"idle", "verify", "issue", "lookup", "settle", "handling",
            "update", "rotate"}

StampOf(a) == [id |-> a.id, epoch |-> a.epoch]

\* The token would be accepted if its account were looked up now.
Bound(t) ==
    /\ tokens[t] # NoRecord
    /\ store[tokens[t].user] # NoAccount
    /\ tokens[t].stamp = StampOf(store[tokens[t].user])

\* ... or its own password change has been written and will re-bind it.
Rebinding(t) ==
    /\ tokens[t] # NoRecord
    /\ \E p \in Procs :
        /\ pc[p] = "rotate" /\ tok[p] = t
        /\ seen[p] = tokens[t].stamp
        /\ store[usr[p]] # NoAccount
        /\ [seen[p] EXCEPT !.epoch = cred[p].epoch] = StampOf(store[usr[p]])

Init ==
    /\ \E ids \in InitialIds :
         /\ store = [u \in Users |-> IF ids[u] = 0 THEN NoAccount
                                     ELSE [id |-> ids[u], epoch |-> 0,
                                           role |-> Admin, hash |-> 0]]
         /\ newest = ids
    /\ nextId = FirstId
    /\ nextHash = 1
    /\ tokens = [t \in Tokens |-> NoRecord]
    /\ issued = {}
    /\ proven = [t \in Tokens |-> 0]
    /\ pc = [p \in Procs |-> "idle"]
    /\ tok = [p \in Procs |-> NoToken]
    /\ usr = [p \in Procs |-> NoUser]
    /\ row = [p \in Procs |-> NoAccount]
    /\ seen = [p \in Procs |-> NoStamp]
    /\ cred = [p \in Procs |-> NoAccount]
    /\ claim = [p \in Procs |-> 0]
    /\ live = [p \in Procs |-> FALSE]

-----------------------------------------------------------------------------
(* The users table: each write is one SQL transaction.                     *)

IsInitialized == \E u \in Users : store[u] # NoAccount

OnlyAdmin(u) ==
    /\ store[u].role = Admin
    /\ \A v \in Users \ {u} : store[v] # NoAccount => store[v].role # Admin

NewAccount(r) == [id |-> nextId, epoch |-> 0, role |-> r, hash |-> nextHash]

InsertUser(u, r) ==
    /\ nextId <= MaxId /\ nextHash <= MaxHash
    /\ store' = [store EXCEPT ![u] = NewAccount(r)]
    /\ nextId' = nextId + 1
    /\ nextHash' = nextHash + 1
    /\ newest' = [newest EXCEPT ![u] = nextId]

CreateUser(u, r) ==
    /\ IsInitialized
    /\ store[u] = NoAccount
    /\ InsertUser(u, r)
    /\ UNCHANGED <<tokenVars, procVars>>

\* Mutant: a role change leaves the epoch alone.
MutReroled(a, r) == [id |-> a.id, epoch |-> a.epoch, role |-> r, hash |-> a.hash]

\* A role change advances the epoch; a display-name-only update does not.
Reroled(a, r) ==
    [id |-> a.id, epoch |-> IF a.role = r THEN a.epoch ELSE a.epoch + 1,
     role |-> r, hash |-> a.hash]

UpdateUser(u, r) ==
    /\ store[u] # NoAccount
    /\ r # Admin => ~OnlyAdmin(u)
    /\ store[u].role = r \/ store[u].epoch < MaxEpoch
    /\ store' = [store EXCEPT ![u] = Reroled(store[u], r)]
    /\ UNCHANGED <<nextId, nextHash, newest, tokenVars, procVars>>

\* Mutant: a password write that leaves the epoch alone.
MutRehashed(a) ==
    [id |-> a.id, epoch |-> a.epoch, role |-> a.role, hash |-> nextHash]

\* The row with a newly written password.
Rehashed(a) ==
    [id |-> a.id, epoch |-> a.epoch + 1, role |-> a.role, hash |-> nextHash]

ResetPassword(u) ==
    /\ store[u] # NoAccount
    /\ nextHash <= MaxHash /\ store[u].epoch < MaxEpoch
    /\ store' = [store EXCEPT ![u] = Rehashed(store[u])]
    /\ nextHash' = nextHash + 1
    /\ UNCHANGED <<nextId, newest, tokenVars, procVars>>

DeleteUser(u) ==
    /\ store[u] # NoAccount
    /\ ~OnlyAdmin(u)
    /\ store' = [store EXCEPT ![u] = NoAccount]
    /\ UNCHANGED <<nextId, nextHash, newest, tokenVars, procVars>>

-----------------------------------------------------------------------------
(* Login: pre-read the stamp, verify, issue.                               *)

\* The request ends: its locals are gone.
Finish(p) ==
    /\ pc' = [pc EXCEPT ![p] = "idle"]
    /\ tok' = [tok EXCEPT ![p] = NoToken]
    /\ usr' = [usr EXCEPT ![p] = NoUser]
    /\ row' = [row EXCEPT ![p] = NoAccount]
    /\ seen' = [seen EXCEPT ![p] = NoStamp]
    /\ cred' = [cred EXCEPT ![p] = NoAccount]
    /\ claim' = [claim EXCEPT ![p] = 0]

\* get_by_username: the row, or nothing usable when the store cannot answer.
LoginPreRead(p, u) ==
    /\ pc[p] = "idle"
    /\ pc' = [pc EXCEPT ![p] = "verify"]
    /\ usr' = [usr EXCEPT ![p] = u]
    /\ tok' = [tok EXCEPT ![p] = NoToken]
    /\ \E a \in {store[u], NoAccount} : row' = [row EXCEPT ![p] = a]
    /\ UNCHANGED <<seen, cred, claim, storeVars, tokenVars>>

\* Rejected, Unavailable (no usable pre-read), or accepted.
LoginVerify(p) ==
    /\ pc[p] = "verify"
    /\ \/ /\ store[usr[p]] # NoAccount
          /\ row[p] # NoAccount
          /\ cred' = [cred EXCEPT ![p] = store[usr[p]]]
          /\ pc' = [pc EXCEPT ![p] = "issue"]
          /\ UNCHANGED <<tok, usr, row, seen, claim>>
       \/ Finish(p)
    /\ UNCHANGED <<storeVars, tokenVars>>

\* The identity is the verifier's, the stamp the pre-read's.
LoginIssue(p) ==
    /\ pc[p] = "issue"
    /\ \E t \in Tokens \ issued :
        /\ tokens' = [tokens EXCEPT ![t] = [user |-> usr[p], role |-> cred[p].role,
                                            stamp |-> StampOf(row[p])]]
        /\ issued' = issued \cup {t}
        /\ proven' = [proven EXCEPT ![t] = cred[p].hash]
    /\ Finish(p)
    /\ UNCHANGED storeVars

\* First-run setup: the conditional INSERT; the token is issued after the
\* audit record's await.
Setup(p, u) ==
    /\ pc[p] = "idle"
    /\ ~IsInitialized
    /\ InsertUser(u, Admin)
    /\ pc' = [pc EXCEPT ![p] = "issue"]
    /\ usr' = [usr EXCEPT ![p] = u]
    /\ tok' = [tok EXCEPT ![p] = NoToken]
    /\ row' = [row EXCEPT ![p] = NewAccount(Admin)]
    /\ cred' = [cred EXCEPT ![p] = NewAccount(Admin)]
    /\ UNCHANGED <<seen, claim, tokenVars>>

\* issue_token / issue_token_remembered: a token with no stamp.
IssueUnstamped(u) ==
    /\ store[u] # NoAccount
    /\ \E t \in Tokens \ issued :
        /\ tokens' = [tokens EXCEPT ![t] = [user |-> u, role |-> store[u].role,
                                            stamp |-> NoStamp]]
        /\ issued' = issued \cup {t}
    /\ UNCHANGED <<proven, storeVars, procVars>>

-----------------------------------------------------------------------------
(* Authentication of a request.                                            *)

Drop(t) == tokens' = [tokens EXCEPT ![t] = NoRecord]

AuthBegin(p, t) ==
    /\ pc[p] = "idle"
    /\ tokens[t] # NoRecord
    /\ pc' = [pc EXCEPT ![p] = "lookup"]
    /\ tok' = [tok EXCEPT ![p] = t]
    /\ usr' = [usr EXCEPT ![p] = tokens[t].user]
    /\ seen' = [seen EXCEPT ![p] = tokens[t].stamp]
    /\ claim' = [claim EXCEPT ![p] = proven[t]]
    /\ UNCHANGED <<row, cred, storeVars, tokenVars>>

\* revoke_if_stamp(token, None).
RevokeUnstamped(p) ==
    /\ pc[p] = "lookup" /\ seen[p] = NoStamp
    /\ IF tokens[tok[p]] # NoRecord /\ tokens[tok[p]].stamp = NoStamp
       THEN Drop(tok[p]) ELSE UNCHANGED tokens
    /\ Finish(p)
    /\ UNCHANGED <<issued, proven, storeVars>>

\* A store failure ends the request and keeps the token.
AuthLookup(p) ==
    /\ pc[p] = "lookup" /\ seen[p] # NoStamp
    /\ \/ /\ row' = [row EXCEPT ![p] = store[usr[p]]]
          /\ pc' = [pc EXCEPT ![p] = "settle"]
          /\ UNCHANGED <<tok, usr, seen, cred, claim>>
       \/ Finish(p)
    /\ UNCHANGED <<storeVars, tokenVars>>

Matches(p) == row[p] # NoAccount /\ StampOf(row[p]) = seen[p]

\* The lookup agrees with the binding: refresh_identity, if still so bound.
AuthAccept(p) ==
    /\ pc[p] = "settle" /\ Matches(p)
    /\ IF tokens[tok[p]] # NoRecord /\ tokens[tok[p]].stamp = seen[p]
       THEN tokens' = [tokens EXCEPT ![tok[p]].role = row[p].role]
       ELSE UNCHANGED tokens
    /\ pc' = [pc EXCEPT ![p] = "handling"]
    /\ UNCHANGED <<tok, usr, row, seen, cred, claim, issued, proven, storeVars>>

\* Mutant: a failed validation always ends the session.
MutSettleRevoke(p) ==
    /\ pc[p] = "settle" /\ ~Matches(p)
    /\ tokens[tok[p]] # NoRecord
    /\ Drop(tok[p])
    /\ Finish(p)
    /\ UNCHANGED <<issued, proven, storeVars>>

\* settle_stamp_mismatch, the token is still bound to what was validated.
SettleRevoke(p) ==
    /\ pc[p] = "settle" /\ ~Matches(p)
    /\ tokens[tok[p]] # NoRecord
    /\ tokens[tok[p]].stamp = seen[p]
    /\ Drop(tok[p])
    /\ Finish(p)
    /\ UNCHANGED <<issued, proven, storeVars>>

\* Mutant: a re-bound token is accepted with whatever row was read.
MutSettleRebound(p) ==
    /\ pc[p] = "settle" /\ ~Matches(p)
    /\ tokens[tok[p]] # NoRecord => tokens[tok[p]].stamp # seen[p]
    /\ IF tokens[tok[p]] # NoRecord /\ row[p] # NoAccount
       THEN /\ tokens' = [tokens EXCEPT ![tok[p]].role = row[p].role]
            /\ seen' = [seen EXCEPT ![p] = StampOf(row[p])]
            /\ pc' = [pc EXCEPT ![p] = "handling"]
            /\ UNCHANGED <<tok, usr, row, cred, claim>>
       ELSE Finish(p) /\ UNCHANGED tokens
    /\ UNCHANGED <<issued, proven, storeVars>>

\* settle_stamp_mismatch, the token was re-bound meanwhile (or is gone).
SettleRebound(p) ==
    /\ pc[p] = "settle" /\ ~Matches(p)
    /\ tokens[tok[p]] # NoRecord => tokens[tok[p]].stamp # seen[p]
    /\ IF /\ tokens[tok[p]] # NoRecord
          /\ row[p] # NoAccount
          /\ tokens[tok[p]].stamp = StampOf(row[p])
       THEN /\ tokens' = [tokens EXCEPT ![tok[p]].role = row[p].role]
            /\ seen' = [seen EXCEPT ![p] = StampOf(row[p])]
            /\ pc' = [pc EXCEPT ![p] = "handling"]
            /\ UNCHANGED <<tok, usr, row, cred, claim>>
       ELSE Finish(p) /\ UNCHANGED tokens
    /\ UNCHANGED <<issued, proven, storeVars>>

\* The handler behind require_auth answers; or the client goes away and the
\* future is dropped at one of its awaits.
Done(p) ==
    /\ pc[p] # "idle"
    /\ Finish(p)
    /\ UNCHANGED <<storeVars, tokenVars>>

-----------------------------------------------------------------------------
(* POST /api/auth/change-password, behind an accepted session.             *)

\* SELECT id, password_hash; the submitted current password matches it.
PwSelect(p) ==
    /\ pc[p] = "handling"
    /\ store[usr[p]] # NoAccount
    /\ cred' = [cred EXCEPT ![p] = store[usr[p]]]
    /\ pc' = [pc EXCEPT ![p] = "update"]
    /\ UNCHANGED <<tok, usr, row, seen, claim, storeVars, tokenVars>>

\* The UPDATE ... WHERE id AND password_hash; re-bind only if this was the
\* single epoch step since the session was validated.
HashUnchanged(p) ==
    /\ store[usr[p]] # NoAccount
    /\ store[usr[p]].id = cred[p].id
    /\ store[usr[p]].hash = cred[p].hash

MayRotate(p, a) == a.epoch = seen[p].epoch + 1

PwUpdate(p) ==
    /\ pc[p] = "update"
    /\ IF HashUnchanged(p)
       THEN LET a == Rehashed(store[usr[p]])
            IN  /\ nextHash <= MaxHash
                /\ store' = [store EXCEPT ![usr[p]] = a]
                /\ nextHash' = nextHash + 1
                /\ IF MayRotate(p, a)
                   THEN /\ cred' = [cred EXCEPT ![p] = a]
                        /\ pc' = [pc EXCEPT ![p] = "rotate"]
                        /\ UNCHANGED <<tok, usr, row, seen, claim>>
                   ELSE Finish(p)
       ELSE Finish(p) /\ UNCHANGED <<store, nextHash>>
    /\ UNCHANGED <<nextId, newest, tokenVars>>

\* rotate_session_epoch: a compare-and-set on the validated stamp.
StillBound(p) ==
    /\ tokens[tok[p]] # NoRecord
    /\ tokens[tok[p]].stamp = seen[p]

PwRotate(p) ==
    /\ pc[p] = "rotate"
    /\ IF StillBound(p)
       THEN /\ tokens' = [tokens EXCEPT ![tok[p]].stamp =
                            [id |-> seen[p].id, epoch |-> cred[p].epoch]]
            /\ proven' = [proven EXCEPT ![tok[p]] = cred[p].hash]
       ELSE UNCHANGED <<tokens, proven>>
    /\ Finish(p)
    /\ UNCHANGED <<issued, storeVars>>

-----------------------------------------------------------------------------
Logout(t) ==
    /\ tokens[t] # NoRecord
    /\ Drop(t)
    /\ UNCHANGED <<issued, proven, storeVars, procVars>>

\* The lazy eviction of session_for or the sweep of a write.
Expire(t) ==
    /\ tokens[t] # NoRecord
    /\ Drop(t)
    /\ UNCHANGED <<issued, proven, storeVars, procVars>>

StoreStep ==
    \E u \in Subjects :
        \/ \E r \in Roles : CreateUser(u, r) \/ UpdateUser(u, r)
        \/ ResetPassword(u)
        \/ DeleteUser(u)
        \/ IssueUnstamped(u)

TokenStep == \E t \in Tokens : Logout(t) \/ Expire(t)

RequestStep(p) ==
    \/ \E u \in Subjects : LoginPreRead(p, u) \/ Setup(p, u)
    \/ LoginVerify(p) \/ LoginIssue(p)
    \/ \E t \in Tokens : AuthBegin(p, t)
    \/ RevokeUnstamped(p) \/ AuthLookup(p) \/ AuthAccept(p)
    \/ SettleRevoke(p) \/ SettleRebound(p)
    \/ PwSelect(p) \/ PwUpdate(p) \/ PwRotate(p)
    \/ Done(p)

\* History only: has the request's token been live since the request began?
Observe ==
    live' = [p \in Procs |->
        /\ pc'[p] # "idle"
        /\ \/ pc[p] # "idle" /\ live[p]
           \/ \E t \in Tokens : tok'[p] = t /\ (Bound(t) \/ Rebinding(t))']

Step == StoreStep \/ TokenStep \/ \E p \in Procs : RequestStep(p)

Next == Step /\ Observe

Spec == Init /\ [][Next]_vars

-----------------------------------------------------------------------------
\* Rows, token records and the locals of each request have the shapes the code
\* gives them: a stamp is a row id and an epoch, or absent.
TypeOK ==
    /\ store \in [Users -> Account \cup {NoAccount}]
    /\ nextId \in Nat \ {0}
    /\ nextHash \in Nat \ {0}
    /\ tokens \in [Tokens -> Record \cup {NoRecord}]
    /\ issued \subseteq Tokens
    /\ pc \in [Procs -> Phase]
    /\ tok \in [Procs -> Tokens \cup {NoToken}]
    /\ usr \in [Procs -> Users \cup {NoUser}]
    /\ row \in [Procs -> Account \cup {NoAccount}]
    /\ seen \in [Procs -> Stamp \cup {NoStamp}]
    /\ cred \in [Procs -> Account \cup {NoAccount}]
    /\ proven \in [Tokens -> Nat]
    /\ claim \in [Procs -> Nat]
    /\ live \in [Procs -> BOOLEAN]
    /\ newest \in [Users -> Nat]

\* A session that would be accepted now was opened (or kept open by its own
\* password change) by someone who proved the password the account has NOW:
\* a reset, a change made elsewhere, or a username re-created after a delete
\* leaves no usable session behind, whatever login was in flight (Issue #204).
LiveSessionProvesCurrentPassword ==
    \A t \in Tokens : Bound(t) => proven[t] = store[tokens[t].user].hash

\* No row of the username was inserted since this one: what a request read of
\* the account is of the account that has the name now, or had it last.
Newest(p) == row[p].id = newest[usr[p]]

\* When a request is accepted, its token was live at some moment of the request
\* (or was being re-bound by its own password change), so that one that begins
\* after its account was re-keyed, demoted or deleted is never let through; and
\* the account it is authorized with carries the password the token's holder
\* proved when the request began, or, when the token was re-bound under the
\* request, the one the session itself wrote: settle_stamp_mismatch never adopts
\* the store's newest epoch on behalf of a token that did not earn it.  Of a
\* re-bound token this holds while the username is not given to a new row: the
\* re-binding pairs the validated row's id with the epoch of whatever row has the
\* name, and a request that read the deleted row can be accepted by chance.
AcceptedIsWarranted ==
    [][\A p \in Procs :
        (/\ pc[p] = "settle" /\ pc'[p] = "handling"
         /\ seen'[p] = seen[p] \/ Newest(p))
            => /\ live'[p]
               /\ row[p].hash = IF seen'[p] = seen[p] THEN claim[p]
                                ELSE proven[tok[p]]]_vars

\* Behind require_auth the synchronous identity_for reads the role the request
\* was validated with, or nothing: never a role from another epoch, whatever
\* logins, refreshes and re-bindings of the same token run concurrently.  (Once
\* the username belongs to a new row, a binding that mixes the two rows lets
\* another request write the new row's role to the token.)
HandlerReadsValidatedRole ==
    \A p \in Procs :
        pc[p] = "handling" /\ tokens[tok[p]] # NoRecord /\ Newest(p)
            => tokens[tok[p]].role = row[p].role

\* Validation ends only sessions that are really stale: a token whose own
\* re-binding overtook the lookup that failed is left alone.
ValidationKeepsLiveSessions ==
    [][\A p \in Procs, t \in Tokens :
        (/\ pc[p] \in {"lookup", "settle"} /\ pc'[p] # pc[p]
         /\ tokens[t] # NoRecord /\ tokens'[t] = NoRecord)
            => ~Bound(t)]_vars

-----------------------------------------------------------------------------
(* The inductive strengthening of these properties.                         *)

\* What was read of account u earlier: an id the username had, and if it is the
\* row still there, an epoch that is not ahead of it.
Past(a, u) ==
    /\ a.id <= newest[u]
    /\ store[u] # NoAccount /\ a.id = store[u].id => a.epoch <= store[u].epoch

\* ... and with the epoch it has now, the password and the role it has now.
PastRow(a, u) ==
    /\ Past(a, u)
    /\ store[u] # NoAccount /\ StampOf(a) = StampOf(store[u])
           => a.hash = store[u].hash /\ a.role = store[u].role

\* b was read of the account no earlier than a.
Follows(b, a) ==
    /\ a.id <= b.id
    /\ a.id = b.id => a.epoch <= b.epoch

\* A username's row is the last it was given.
RowsInv ==
    \A u \in Users :
        /\ newest[u] < nextId
        /\ store[u] # NoAccount => store[u].id = newest[u]

TokenInv(t) ==
    /\ t \in issued
    /\ tokens[t].stamp # NoStamp => Past(tokens[t].stamp, tokens[t].user)
    /\ Bound(t) => proven[t] = store[tokens[t].user].hash

\* The locals a request holds at each point.
Located(p) ==
    /\ pc[p] # "idle" => usr[p] \in Users
    /\ pc[p] \in {"lookup", "settle", "handling", "update", "rotate"} =>
        tok[p] # NoToken
    /\ pc[p] \in {"settle", "handling", "update", "rotate"} => seen[p] # NoStamp
    /\ pc[p] \in {"issue", "handling", "update", "rotate"} => row[p] # NoAccount
    /\ pc[p] \in {"issue", "update", "rotate"} => cred[p] # NoAccount
    /\ pc[p] \in {"idle", "verify", "issue"} => seen[p] = NoStamp
    /\ pc[p] = "idle" => row[p] = NoAccount /\ cred[p] = NoAccount /\ tok[p] = NoToken
    /\ pc[p] = "lookup" => row[p] = NoAccount

\* The rows a request holds are of the past, and so is its stamp, which the
\* token it carries is never behind of.
RequestInv(p) ==
    /\ row[p] # NoAccount => PastRow(row[p], usr[p])
    /\ cred[p] # NoAccount => PastRow(cred[p], usr[p])
    /\ tok[p] # NoToken =>
        /\ tok[p] \in issued
        /\ tokens[tok[p]] # NoRecord => tokens[tok[p]].user = usr[p]
    /\ pc[p] \in {"issue", "update", "rotate"} => Follows(cred[p], row[p])
    /\ pc[p] \in {"handling", "update", "rotate"} => seen[p] = StampOf(row[p])
    /\ seen[p] # NoStamp => Past(seen[p], usr[p])

\* A token bound to the row its account has, has its role.
RoleInv(t) == Bound(t) => tokens[t].role = store[tokens[t].user].role

\* The token a request carries keeps the row id the request saw, and an epoch
\* no earlier.
BindingInv(p) ==
    (seen[p] # NoStamp /\ tokens[tok[p]] # NoRecord) =>
        /\ tokens[tok[p]].stamp # NoStamp
        /\ tokens[tok[p]].stamp.id = seen[p].id
        /\ seen[p].epoch <= tokens[tok[p]].stamp.epoch

\* While the account still is what the token was bound to when the request
\* began, the token was live then; a lookup that found it so says the same.
LiveInv(p) ==
    /\ (/\ pc[p] = "lookup" /\ seen[p] # NoStamp
        /\ store[usr[p]] # NoAccount /\ StampOf(store[usr[p]]) = seen[p])
           => live[p] /\ claim[p] = store[usr[p]].hash
    /\ pc[p] = "settle" /\ Matches(p) => live[p] /\ claim[p] = row[p].hash

\* An account that once differed from the stamp never equals it again.
DeadInv(p) ==
    (pc[p] = "settle" /\ ~Matches(p) /\ store[usr[p]] # NoAccount)
        => StampOf(store[usr[p]]) # seen[p]

\* Two copies of an account's row with one epoch are the same row.
CopiesAgree(p, q) ==
    (/\ row[p] # NoAccount /\ cred[q] # NoAccount /\ usr[p] = usr[q]
     /\ StampOf(row[p]) = StampOf(cred[q]))
        => row[p].role = cred[q].role /\ row[p].hash = cred[q].hash

\* A token bound to the row a request holds has that row's role and was earned
\* with that row's password, within the request.
HolderInv(p) ==
    (/\ tok[p] # NoToken /\ tokens[tok[p]] # NoRecord
     /\ row[p] # NoAccount /\ Newest(p)) =>
        /\ StampOf(row[p]) \in {seen[p], tokens[tok[p]].stamp}
               => tokens[tok[p]].role = row[p].role
        /\ StampOf(row[p]) = tokens[tok[p]].stamp
               => live[p] /\ proven[tok[p]] = row[p].hash

\* A password change about to re-bind its token wrote the next epoch of the row
\* it was validated with, and the requests that read that epoch saw it live.
RotateInv(q) ==
    pc[q] = "rotate" =>
        /\ cred[q].epoch = seen[q].epoch + 1
        /\ cred[q].id = row[q].id => cred[q].role = row[q].role
        /\ \A p \in Procs :
            (/\ tok[p] = tok[q] /\ row[p] # NoAccount /\ Newest(p)
             /\ tokens[tok[q]] # NoRecord /\ tokens[tok[q]].stamp = seen[q]
             /\ StampOf(row[p]) = [id |-> seen[q].id, epoch |-> cred[q].epoch])
                => live[p]

IInv ==
    /\ TypeOK
    /\ \A p \in Procs : Located(p)
    /\ RowsInv
    /\ \A t \in Tokens : tokens[t] # NoRecord => TokenInv(t)
    /\ \A p \in Procs : RequestInv(p)

\* ... and what the acceptance and the role of a request add to it.
AcceptInv ==
    /\ IInv
    /\ \A t \in Tokens : RoleInv(t)
    /\ \A p \in Procs : BindingInv(p) /\ LiveInv(p) /\ DeadInv(p)
    /\ \A p \in Procs : HolderInv(p) /\ RotateInv(p)
    /\ \A p, q \in Procs : CopiesAgree(p, q)

=============================================================================
