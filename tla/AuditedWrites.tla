--------------------------- MODULE AuditedWrites ---------------------------
(***************************************************************************)
(* Who may do what, and what the audit log tells of it, at both entrances: *)
(* the REST handlers behind require_auth and require_role_at_least, and    *)
(* the desktop's commands behind require_role.  A handler is a row: its    *)
(* floor, the resource its refusals are tagged with, what its record says, *)
(* and its steps in the order of the code.  Any await may see another      *)
(* request change accounts and sessions in between, and a REST request may *)
(* be dropped there with its connection.                                   *)
(*                                                                         *)
(* Validation is one step here (AuthSessions has its parts), a service     *)
(* call is done or fails as a whole, a record is always kept (AuditSpool)  *)
(* and the events that announce a write are ChangeFeed's.  Accounts and    *)
(* sessions are moved by the requests and by anything else that may move   *)
(* them meanwhile.                                                         *)
(***************************************************************************)
EXTENDS Naturals, Sequences

CONSTANTS
    Users,       \* accounts
    Requests,    \* one-shot requests
    Slot, Grant, \* the desktop's session slot; the token of a grant
    Nobody,
    MaxChanges   \* bound: changes of accounts and sessions by others

Gone == 0
Viewer == 1
Editor == 2
Admin == 3
Roles == Viewer .. Admin
Tokens == Users \cup {Slot, Grant}   \* a REST token per account

VARIABLES
    accounts,   \* role and auth_epoch of each account
    session,    \* what each token, and the slot, is bound to
    request,    \* where each request is, its row and its locals
    trail,      \* the audit records of each request
    warranted,  \* history: its user had the floor's role at some moment of it
    changes

vars == <<accounts, session, request, trail, warranted, changes>>

-----------------------------------------------------------------------------
\* The floors and the resources refusals are tagged with.
ItemsGuard == [min |-> Editor, tag |-> "items"]
AttachmentsGuard == [min |-> Editor, tag |-> "attachments"]
UsersGuard == [min |-> Admin, tag |-> "users"]
AuditListGuard == [min |-> Admin, tag |-> "audit_log"]
AuditConfigGuard == [min |-> Admin, tag |-> "settings"]
BackupsGuard == [min |-> Admin, tag |-> "backups"]
SystemGuard == [min |-> Admin, tag |-> "system"]
AnyRole(tag) == [min |-> Viewer, tag |-> tag]

\* What a handler's record says; the entity is the target's real name or none.
Unrecorded == [action |-> "none", resource |-> "none", entity |-> "none"]
Says(action, resource, entity) ==
    [action |-> action, resource |-> resource, entity |-> entity]

Row(guard, says, steps) ==
    [guard |-> guard, says |-> says, steps |-> <<"authenticate", "role">> \o steps]
Reads(guard) == Row(guard, Unrecorded, <<"read">>)

-----------------------------------------------------------------------------
\* The REST handlers.
ItemsRead == Reads(AnyRole("items"))
ItemsCreate == Row(ItemsGuard, Says("create", "items", "name"), <<"write", "record">>)
ItemsUpdate == Row(ItemsGuard, Says("update", "items", "name"), <<"write", "record">>)
ItemsDelete == Row(ItemsGuard, Says("delete", "items", "name"), <<"write", "record">>)
ItemsImport == Row(ItemsGuard, Says("import", "items", "none"), <<"import", "record">>)
AttachmentsRead == Reads(AnyRole("attachments"))
AttachmentsUpload ==
    Row(AttachmentsGuard, Says("create", "attachments", "name"), <<"write", "record">>)
AttachmentsDelete ==
    Row(AttachmentsGuard, Says("delete", "attachments", "name"), <<"write", "record">>)
UsersList == Reads(UsersGuard)
UsersCreate == Row(UsersGuard, Says("create", "users", "name"), <<"write", "record">>)
UsersUpdate == Row(UsersGuard, Says("update", "users", "name"), <<"update", "record">>)
UsersResetPassword ==
    Row(UsersGuard, Says("password_reset", "users", "name"), <<"reset", "record">>)
UsersDelete == Row(UsersGuard, Says("delete", "users", "name"), <<"acting", "delete", "record">>)
AuditLogList == Reads(AuditListGuard)
AuditConfigGet == Reads(AuditConfigGuard)
AuditConfigApply ==
    Row(AuditConfigGuard, Says("settings_change", "settings", "none"), <<"write", "record">>)
BackupsRead == Reads(BackupsGuard)
BackupsCreate == Row(BackupsGuard, Says("backup", "backups", "name"), <<"write", "record">>)
RestoreFromUpload ==
    Row(BackupsGuard, Says("restore_staged", "backups", "none"), <<"write", "record">>)
StageRestore == Row(BackupsGuard, Says("restore_staged", "backups", "name"), <<"write", "record">>)
CancelRestore ==
    Row(BackupsGuard, Says("restore_cancelled", "backups", "none"), <<"write", "record">>)
SystemInfo == Reads(SystemGuard)
UiSettingsGet == Row(AnyRole("settings"), Unrecorded, <<"acting", "read">>)
UiSettingsSet == Row(AnyRole("settings"), Unrecorded, <<"acting", "write">>)
ChangePassword ==
    Row(AnyRole("users"), Says("password_change", "users", "name"),
        <<"own", "rekey", "rebind", "recordAs">>)
\* Outside the guards: only the end of a session is recorded.
Logout == [Row(AnyRole("auth"), Says("logout", "auth", "none"), <<>>) EXCEPT
              !.steps = <<"caller", "end", "recordAs">>]

Rest ==
    [itemsRead |-> ItemsRead, itemsCreate |-> ItemsCreate, itemsUpdate |-> ItemsUpdate,
     itemsDelete |-> ItemsDelete, itemsImport |-> ItemsImport,
     attachmentsRead |-> AttachmentsRead, attachmentsUpload |-> AttachmentsUpload,
     attachmentsDelete |-> AttachmentsDelete,
     usersList |-> UsersList, usersCreate |-> UsersCreate, usersUpdate |-> UsersUpdate,
     usersReset |-> UsersResetPassword, usersDelete |-> UsersDelete,
     auditList |-> AuditLogList, auditGet |-> AuditConfigGet, auditApply |-> AuditConfigApply,
     backupsRead |-> BackupsRead, backupsCreate |-> BackupsCreate,
     restoreUpload |-> RestoreFromUpload, stageRestore |-> StageRestore,
     cancelRestore |-> CancelRestore, systemInfo |-> SystemInfo,
     uiGet |-> UiSettingsGet, uiSet |-> UiSettingsSet,
     changePassword |-> ChangePassword, logout |-> Logout]

-----------------------------------------------------------------------------
\* The desktop's commands.  Their record carries the identity require_role returned.
DesktopItemsRead == Reads(AnyRole("items"))
DesktopItemsCreate == Row(ItemsGuard, Says("create", "items", "name"), <<"write", "record">>)
DesktopItemsUpdate == Row(ItemsGuard, Says("update", "items", "name"), <<"write", "record">>)
DesktopItemsDelete == Row(ItemsGuard, Says("delete", "items", "name"), <<"write", "record">>)
DesktopItemsImport == Row(ItemsGuard, Says("import", "items", "none"), <<"import", "record">>)
DesktopExportItems == Row(AnyRole("items"), Unrecorded, <<"write">>)
DesktopAttachmentsRead == Reads(AnyRole("attachments"))
DesktopAttachmentsUpload ==
    Row(AttachmentsGuard, Says("create", "attachments", "name"), <<"write", "record">>)
DesktopAttachmentsDelete ==
    Row(AttachmentsGuard, Says("delete", "attachments", "name"), <<"write", "record">>)
DesktopAttachmentsOpen == Reads(AttachmentsGuard)
DesktopUsersList == Reads(UsersGuard)
DesktopUsersCreate == Row(UsersGuard, Says("create", "users", "name"), <<"write", "record">>)
DesktopUsersUpdate == Row(UsersGuard, Says("update", "users", "name"), <<"update", "record">>)
DesktopUsersReset ==
    Row(UsersGuard, Says("password_reset", "users", "name"), <<"reset", "record">>)
DesktopUsersDelete == Row(UsersGuard, Says("delete", "users", "name"), <<"delete", "record">>)
DesktopAuditLogList == Reads(AuditListGuard)
DesktopAuditConfigGet == Reads(AuditConfigGuard)
DesktopAuditConfigApply ==
    Row(AuditConfigGuard, Says("settings_change", "settings", "none"), <<"write", "record">>)
DesktopSettingsGet == Reads(AuditConfigGuard)
DesktopSettingsSet ==
    Row(AuditConfigGuard, Says("settings_change", "settings", "none"), <<"write", "record">>)
DesktopVibrancyApply ==
    Row(AuditConfigGuard, Says("settings_change", "settings", "none"), <<"write", "record">>)
DesktopBackupsRead == Reads(BackupsGuard)
DesktopBackupsCreate == Row(BackupsGuard, Says("backup", "backups", "name"), <<"write", "record">>)
DesktopBackupsOpen == Reads(BackupsGuard)
DesktopStageRestore ==
    Row(BackupsGuard, Says("restore_staged", "backups", "none"), <<"write", "record">>)
DesktopCancelRestore ==
    Row(BackupsGuard, Says("restore_cancelled", "backups", "none"), <<"write", "record">>)
DesktopSystemInfo == Reads(SystemGuard)
DesktopUiSettingsGet == Row(AnyRole("settings"), Unrecorded, <<"read">>)
DesktopUiSettingsSet == Row(AnyRole("settings"), Unrecorded, <<"write">>)
DesktopChangePassword ==
    Row(AnyRole("users"), Says("password_change", "users", "name"),
        <<"rekey", "rebind", "record">>)

Desktop ==
    [itemsRead |-> DesktopItemsRead, itemsCreate |-> DesktopItemsCreate,
     itemsUpdate |-> DesktopItemsUpdate, itemsDelete |-> DesktopItemsDelete,
     itemsImport |-> DesktopItemsImport, itemsExport |-> DesktopExportItems,
     attachmentsRead |-> DesktopAttachmentsRead, attachmentsUpload |-> DesktopAttachmentsUpload,
     attachmentsDelete |-> DesktopAttachmentsDelete, attachmentsOpen |-> DesktopAttachmentsOpen,
     usersList |-> DesktopUsersList, usersCreate |-> DesktopUsersCreate,
     usersUpdate |-> DesktopUsersUpdate, usersReset |-> DesktopUsersReset,
     usersDelete |-> DesktopUsersDelete,
     auditList |-> DesktopAuditLogList, auditGet |-> DesktopAuditConfigGet,
     auditApply |-> DesktopAuditConfigApply,
     settingsGet |-> DesktopSettingsGet, settingsSet |-> DesktopSettingsSet,
     vibrancyApply |-> DesktopVibrancyApply,
     backupsRead |-> DesktopBackupsRead, backupsCreate |-> DesktopBackupsCreate,
     backupsOpen |-> DesktopBackupsOpen, stageRestore |-> DesktopStageRestore,
     cancelRestore |-> DesktopCancelRestore, systemInfo |-> DesktopSystemInfo,
     uiGet |-> DesktopUiSettingsGet, uiSet |-> DesktopUiSettingsSet,
     changePassword |-> DesktopChangePassword]

Rows(token) == IF token = Slot THEN Desktop ELSE Rest

-----------------------------------------------------------------------------
\* Sessions and accounts.
NoSession == [user |-> Nobody, role |-> Gone, epoch |-> 0]
SessionOf(u) == [user |-> u, role |-> accounts[u].role, epoch |-> accounts[u].epoch]
GrantSession == [user |-> Grant, role |-> Admin, epoch |-> 0]

\* Mutant: the role cached at login is believed.
MutObserved(s) == s

\* Whether the account is still the one the session was bound to, and as what.
Observed(s) ==
    CASE s.user = Nobody -> NoSession
      [] s.user = Grant -> s
      [] accounts[s.user].role = Gone \/ accounts[s.user].epoch # s.epoch -> NoSession
      [] OTHER -> SessionOf(s.user)

Rekeyed(u) == [accounts EXCEPT ![u].epoch = @ + 1]
\* A role that stays leaves the sessions alone.
Reroled(u, role) ==
    IF accounts[u].role = role THEN accounts
    ELSE [accounts EXCEPT ![u] = [role |-> role, epoch |-> @.epoch + 1]]
Deleted(u) == [accounts EXCEPT ![u].role = Gone]
\* The last administrator is neither demoted nor deleted.
AnAdminIsLeft(as) == \E u \in Users : as[u].role = Admin

\* What users_update, users_reset_password, users_delete (never of oneself) and
\* the change of one's own password may make of the accounts.
Effects(q, step) ==
    LET present == {u \in Users : accounts[u].role # Gone}
        made == CASE step = "update" -> {Reroled(u, role) : u \in present, role \in Roles}
                  [] step = "reset" -> {Rekeyed(u) : u \in present}
                  [] step = "delete" -> {Deleted(u) : u \in present \ {q.actor.user}}
                  [] step = "rekey" -> {Rekeyed(u) : u \in present \cap {q.actor.user}}
                  [] OTHER -> {accounts}
    IN  {as \in made : AnAdminIsLeft(as)}

-----------------------------------------------------------------------------
Idle ==
    [handler |-> "none", row |-> Reads(AnyRole("none")), token |-> Nobody, at |-> 0, actor |-> NoSession,
     rekeyed |-> 0, done |-> FALSE, answer |-> "none"]

\* Bound before an administrator was demoted: demotion moved the epoch on.
PastOf(u) == IF accounts[u].role = Admin THEN SessionOf(u)
             ELSE [user |-> u, role |-> Admin, epoch |-> 0]

Init ==
    /\ accounts \in [Users -> [role : Roles, epoch : {1}]]
    /\ AnAdminIsLeft(accounts)
    /\ session \in [Tokens -> {NoSession, GrantSession}
                                \cup UNION {{SessionOf(u), PastOf(u)} : u \in Users}]
    /\ \A u \in Users : session[u] \in {SessionOf(u), PastOf(u)}
    /\ session[Grant] = GrantSession
    /\ session[Slot] # GrantSession
    /\ request = [r \in Requests |-> Idle]
    /\ trail = [r \in Requests |-> <<>>]
    /\ warranted = [r \in Requests |-> FALSE]
    /\ changes = 0

\* A request with the client header, or a command; without it the answer is 403.
Begin(r, token, h) ==
    /\ request[r].answer = "none"
    /\ request' = [request EXCEPT ![r] =
                     [Idle EXCEPT !.handler = h, !.row = Rows(token)[h],
                                  !.token = token, !.at = 1, !.answer = "pending"]]
    /\ UNCHANGED <<accounts, session, trail, changes>>

At(r, steps) ==
    /\ request[r].answer = "pending"
    /\ request[r].row.steps[request[r].at] \in steps

\* The next step of a handler; after the last one it answers.
Onward(q) ==
    IF q.at = Len(q.row.steps) THEN [q EXCEPT !.answer = "ok"] ELSE [q EXCEPT !.at = @ + 1]
Goes(r, q) == request' = [request EXCEPT ![r] = Onward(q)]
Answers(r, answer) == request' = [request EXCEPT ![r].answer = answer]

Entry(q, result, s) ==
    LET says == q.row.says IN
    [action |-> says.action, resource |-> says.resource, entity |-> says.entity,
     result |-> result, actor |-> s.user, role |-> s.role]
Tell(r, entry) == trail' = [trail EXCEPT ![r] = Append(@, entry)]

\* require_auth, and the first half of require_role: the account is read again
\* and a session it does not bear out is ended.
Authenticate(r) ==
    /\ At(r, {"authenticate"})
    /\ LET q == request[r]
           s == Observed(session[q.token])
       IN  /\ session' = [session EXCEPT ![q.token] = s]
           /\ IF s = NoSession THEN Answers(r, "unauthorized")
              ELSE Goes(r, [q EXCEPT !.actor = s])
    /\ UNCHANGED <<accounts, trail, changes>>

\* A role below the floor is refused and the refusal recorded.
CheckRole(r) ==
    /\ At(r, {"role"})
    /\ LET q == request[r]
           guard == q.row.guard
       IN  IF q.actor.role >= guard.min THEN Goes(r, q) /\ UNCHANGED trail
           ELSE /\ Answers(r, "forbidden")
                /\ Tell(r, [action |-> "denied", resource |-> guard.tag, entity |-> "none",
                            result |-> "denied", actor |-> q.actor.user, role |-> q.actor.role])
    /\ UNCHANGED <<accounts, session, changes>>

\* A grant owns no password.
CheckOwner(r) ==
    /\ At(r, {"own"})
    /\ LET q == request[r] IN
       IF q.actor.user # Grant THEN Goes(r, q) /\ UNCHANGED trail
       ELSE Answers(r, "forbidden")
            /\ Tell(r, [Entry(q, "denied", q.actor) EXCEPT !.entity = "none"])
    /\ UNCHANGED <<accounts, session, changes>>

\* acting_user and acting_username: who the token is bound to by now.
FindActing(r) ==
    /\ At(r, {"acting"})
    /\ LET q == request[r]
           isGrant == q.actor.user = Grant
           lost == IF q.handler = "usersDelete"
                   THEN ~isGrant /\ (session[q.token] = NoSession
                                     \/ accounts[q.actor.user].role = Gone)
                   ELSE session[q.token] = NoSession
       IN  IF lost THEN Answers(r, "unauthorized") ELSE Goes(r, q)
    /\ UNCHANGED <<accounts, session, trail, changes>>

\* The service call, whole; a change of one's password returns the new epoch.
Serve(r) ==
    /\ At(r, {"write", "read", "import", "update", "reset", "delete", "rekey"})
    /\ LET q == request[r]
           step == q.row.steps[q.at]
       IN  /\ accounts' \in Effects(q, step)
           /\ Goes(r, [q EXCEPT !.done = TRUE,
                                !.rekeyed = IF step = "rekey" THEN accounts[q.actor.user].epoch + 1
                                            ELSE 0])
    /\ UNCHANGED <<session, trail, changes>>

\* An import with a row in error is rolled back, and answered as a report.
RollBack(r) ==
    /\ At(r, {"import"})
    /\ Goes(r, request[r])
    /\ UNCHANGED <<accounts, session, trail, changes>>

\* The service refuses, or its database does; validation fails closed.
Fail(r) ==
    /\ At(r, {"authenticate", "acting", "write", "read", "import", "update", "reset", "delete",
              "rekey"})
    /\ Answers(r, "error")
    /\ UNCHANGED <<accounts, session, trail, changes>>

\* The session that proved the old password follows the account, if this
\* change was the only one since it was validated.
Rebind(r) ==
    /\ At(r, {"rebind"})
    /\ LET q == request[r] IN
       /\ session' = IF q.rekeyed = q.actor.epoch + 1 /\ session[q.token] = q.actor
                     THEN [session EXCEPT ![q.token].epoch = q.rekeyed]
                     ELSE session
       /\ Goes(r, q)
    /\ UNCHANGED <<accounts, trail, changes>>

\* audit_logout_middleware, around the handler that ends the session.
ReadCaller(r) ==
    /\ At(r, {"caller"})
    /\ Goes(r, [request[r] EXCEPT !.actor = session[request[r].token]])
    /\ UNCHANGED <<accounts, session, trail, changes>>
EndOwn(r) ==
    /\ At(r, {"end"})
    /\ session' = [session EXCEPT ![request[r].token] = NoSession]
    /\ Goes(r, [request[r] EXCEPT !.done = @ \/ request[r].actor # NoSession])
    /\ UNCHANGED <<accounts, trail, changes>>

\* Who a record names: over REST the token is asked again after the write.
Recorder(q) == IF q.token = Slot THEN q.actor ELSE session[q.token]
\* Mutant: an import that was rolled back is recorded as done.
MutReported(q) == "ok"
Reported(q) == IF q.done THEN "ok" ELSE "failed"

Record(r) ==
    /\ At(r, {"record"})
    /\ LET q == request[r] IN Tell(r, Entry(q, Reported(q), Recorder(q))) /\ Goes(r, q)
    /\ UNCHANGED <<accounts, session, changes>>

\* The entries built by hand: the caller known before, its row looked up again.
RecordAs(r) ==
    /\ At(r, {"recordAs"})
    /\ LET q == request[r]
           entry == Entry(q, "ok", q.actor)
           rowGone == q.actor.user \in Users /\ accounts[q.actor.user].role = Gone
       IN  /\ IF q.actor = NoSession THEN UNCHANGED trail
              ELSE Tell(r, IF rowGone THEN [entry EXCEPT !.entity = "none"] ELSE entry)
           /\ Goes(r, q)
    /\ UNCHANGED <<accounts, session, changes>>

\* A connection that closes takes its handler with it, at any await.
Drop(r) ==
    /\ request[r].answer = "pending"
    /\ request[r].token # Slot
    /\ Answers(r, "dropped")
    /\ UNCHANGED <<accounts, session, trail, changes>>

\* Anything else that changes accounts and sessions while a request is served.
Elsewhere ==
    /\ changes < MaxChanges
    /\ changes' = changes + 1
    /\ \E r \in Requests : request[r].answer = "pending"
    /\ UNCHANGED <<request, trail>>
ChangeElsewhere ==
    /\ Elsewhere
    /\ \E u \in Users :
         /\ accounts[u].role # Gone
         /\ accounts' \in {Rekeyed(u), Deleted(u)} \cup {Reroled(u, role) : role \in Roles}
         /\ AnAdminIsLeft(accounts')
    /\ UNCHANGED session
EndElsewhere(token) ==
    /\ Elsewhere
    /\ session[token] # NoSession
    /\ session' = [session EXCEPT ![token] = NoSession]
    /\ UNCHANGED accounts
LoginElsewhere(u) ==
    /\ Elsewhere
    /\ accounts[u].role # Gone
    /\ session' = [session EXCEPT ![Slot] = SessionOf(u)]
    /\ UNCHANGED accounts

-----------------------------------------------------------------------------
\* History: the account a request's token is bound to has the role, now.
Entitled(q) ==
    /\ q.answer = "pending"
    /\ LET s == session[q.token] IN
       \/ s.user = Grant
       \/ /\ s.user \in Users
          /\ accounts[s.user].role >= q.row.guard.min
          /\ accounts[s.user].epoch = s.epoch
Watch == warranted' = [r \in Requests |-> warranted[r] \/ Entitled(request[r])]

Next ==
    /\ \/ \E r \in Requests :
            \/ \E token \in Tokens :
                 \E h \in DOMAIN Rows(token) : Begin(r, token, h)
            \/ Authenticate(r) \/ CheckRole(r) \/ CheckOwner(r) \/ FindActing(r)
            \/ Serve(r) \/ RollBack(r) \/ Fail(r) \/ Rebind(r)
            \/ ReadCaller(r) \/ EndOwn(r) \/ Record(r) \/ RecordAs(r) \/ Drop(r)
       \/ ChangeElsewhere
       \/ \E token \in Tokens : EndElsewhere(token)
       \/ \E u \in Users : LoginElsewhere(u)
    /\ Watch

Spec == Init /\ [][Next]_vars

-----------------------------------------------------------------------------
\* Nothing is written, and nothing read out, for a caller that had not the
\* handler's role at some moment between its request and its answer: the
\* role a session carried in is not enough (routes/mod.rs, lib.rs require_role).
WritesAreWarranted ==
    \A r \in Requests : request[r].done /\ request[r].handler # "logout" => warranted[r]

\* A write that was answered is told by one record, which says so, names its
\* caller or, over REST, nobody once the session is over, and names no one
\* without the role.
EveryWriteIsTold ==
    \A r \in Requests : LET q == request[r] IN
        (q.answer = "ok" /\ q.done /\ q.row.says # Unrecorded) =>
            /\ Len(trail[r]) = 1
            /\ LET e == trail[r][1] IN
               /\ e.result = "ok"
               /\ \/ e.actor = q.actor.user /\ e.role >= q.row.guard.min
                  \/ e.actor = Nobody /\ q.token # Slot /\ session[q.token] = NoSession

\* A record that says "ok" is of a write, and a refusal is of a request that
\* wrote nothing and was answered as forbidden.
NothingElseIsTold ==
    \A r \in Requests : \A i \in DOMAIN trail[r] : LET e == trail[r][i] IN
        /\ e.result = "ok" => request[r].done
        /\ e.result = "denied" => ~request[r].done /\ request[r].answer = "forbidden"
        /\ e.result = "failed" => ~request[r].done

\* A handler has the same floor, the same tag and the same record on both paths
\* (conventions.md section 1) - but for the entity of a staged restore, the
\* backup's name over REST and none on the desktop.
PathsAgree ==
    \A r \in Requests : LET q == request[r] IN
        (q.at = 1 /\ q.handler \in DOMAIN Rest \cap DOMAIN Desktop) =>
            /\ Rest[q.handler].guard = Desktop[q.handler].guard
            /\ q.handler # "stageRestore" => Rest[q.handler].says = Desktop[q.handler].says

\* The audit log tells every answered write, nothing that did not happen, and
\* the same of both entrances.
TrailIsTrue == EveryWriteIsTold /\ NothingElseIsTold /\ PathsAgree

=============================================================================
