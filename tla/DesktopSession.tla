--------------------------- MODULE DesktopSession ---------------------------
(***************************************************************************)
(* The webview session of the desktop app (admin-template's src-tauri):    *)
(* one slot {session, seq}, the auth mode stored in the settings, the      *)
(* account row behind the session, and the commands that run concurrently  *)
(* over them.                                                              *)
(*                                                                         *)
(* Every .await is a step boundary: what a command read before it may be   *)
(* stale after it.  `slot` is guarded by a plain mutex that is never held  *)
(* across an .await, so a read or a write of the slot is one step;         *)
(* auth_config_lock (`lock`) is held across steps.  Every writer of the    *)
(* auth settings holds it, so a read and a save made under it are one step *)
(* unless the code depends on it.                                          *)
(*                                                                         *)
(* One username is followed; its row may be re-keyed, deleted and created  *)
(* again by other commands or over REST.  Passwords are the user's choice: *)
(* a check of one may succeed or fail.  Audit entries are left out.        *)
(***************************************************************************)
EXTENDS Naturals, FiniteSets

CONSTANTS
    Procs,      \* concurrent commands
    Ops,        \* the kinds of command of this instance
    Roles,      \* account roles
    Admin,      \* the role that may change the auth mode
    NoRole,     \* the role of no session
    FirstId,    \* the newest row id at start
    MaxSeq,     \* bound: slot writes before the last command starts
    MaxEpoch,   \* bound: re-keyings of a row
    MaxId       \* bound: row ids

AllOps == {"login", "setup", "logout", "check", "password", "apply", "autologin"}

ASSUME AdminIsARole == Admin \in Roles /\ NoRole \notin Roles
ASSUME OpsAreOps == Ops \subseteq AllOps
ASSUME BoundsAreNat == {FirstId, MaxSeq, MaxEpoch, MaxId} \subseteq Nat /\ FirstId > 0

VARIABLES
    slot,         \* AppState::auth - the session
    seq,          \* AppState::auth - its sequence number
    config,       \* the stored auth settings
    lock,         \* AppState::auth_config_lock: its holder
    row,          \* the account row of the username, as a session of it
    nextId,       \* ids handed out by the users table
    initialized,  \* some account exists
    op, pc,       \* each command and where it stands
    entry,        \* seq_at_entry
    cached,       \* the session read at entry
    fresh,        \* what the store (or the password check) reported
    conf,         \* settings a command carries across an .await
    newEpoch      \* what change_password returned

\* Ghost state, read by properties only.
VARIABLES
    vouched,      \* roles the mode stood for since the command began
    ended,        \* commands in flight when a session ended
    adrift        \* a save was stored but reported as failed, its re-read failed
                  \* too, and no re-bind has come since

store == <<config, row, nextId, initialized>>
local == <<op, entry, cached, fresh, conf, newEpoch>>
vars == <<slot, seq, lock, store, local, pc, vouched, ended, adrift>>

-----------------------------------------------------------------------------
(* Sessions and settings.                                                  *)

NoSession == [kind |-> "none", id |-> 0, epoch |-> 0, role |-> NoRole]
Account(i, e, r) == [kind |-> "account", id |-> i, epoch |-> e, role |-> r]
LocalSession(r) == [kind |-> "local", id |-> 0, epoch |-> 0, role |-> r]

Accounts == [kind : {"account"}, id : Nat, epoch : Nat, role : Roles]
Sessions ==
    {NoSession} \cup Accounts \cup [kind : {"local"}, id : {0}, epoch : {0}, role : Roles]
Settings == [disabled : BOOLEAN, role : Roles, autologin : BOOLEAN]
NoConf == [disabled |-> FALSE, role |-> Admin, autologin |-> FALSE]
Free == "free"
ASSUME FreeIsNoCommand == Free \notin Procs

SameBinding(a, b) ==
    /\ a.kind # "none" /\ b.kind # "none"
    /\ a.kind = b.kind /\ a.id = b.id /\ a.epoch = b.epoch

\* What the bootstrap of run() leaves: the synthetic session in auth-disabled
\* mode, an account session by autologin, or the login screen.
Init ==
    /\ config \in {c \in Settings : ~c.autologin}
    /\ initialized \in BOOLEAN
    /\ row = IF initialized THEN Account(FirstId, 0, Admin) ELSE NoSession
    /\ slot = IF config.disabled THEN LocalSession(config.role) ELSE row
    /\ seq = 0
    /\ lock = Free
    /\ nextId = FirstId
    /\ op = [p \in Procs |-> "none"]
    /\ pc = [p \in Procs |-> "idle"]
    /\ entry = [p \in Procs |-> 0]
    /\ cached = [p \in Procs |-> NoSession]
    /\ fresh = [p \in Procs |-> NoSession]
    /\ conf = [p \in Procs |-> NoConf]
    /\ newEpoch = [p \in Procs |-> 0]
    /\ vouched = [p \in Procs |-> {}]
    /\ ended = {}
    /\ adrift = FALSE

-----------------------------------------------------------------------------
(* Steps shared by the commands.                                           *)

\* The command returns; its guard of auth_config_lock is dropped.
Return(p) ==
    /\ op' = [op EXCEPT ![p] = "none"]
    /\ pc' = [pc EXCEPT ![p] = "idle"]
    /\ entry' = [entry EXCEPT ![p] = 0]
    /\ cached' = [cached EXCEPT ![p] = NoSession]
    /\ fresh' = [fresh EXCEPT ![p] = NoSession]
    /\ conf' = [conf EXCEPT ![p] = NoConf]
    /\ newEpoch' = [newEpoch EXCEPT ![p] = 0]
    /\ lock' = IF lock = p THEN Free ELSE lock

Goto(p, label) == pc' = [pc EXCEPT ![p] = label]

InFlight == {p \in Procs : pc[p] # "idle"}

\* Mutant: seq advances only when the value changes.
MutCas(expected, next) ==
    IF seq = expected THEN slot' = next /\ seq' = (IF slot = next THEN seq ELSE seq + 1)
    ELSE UNCHANGED <<slot, seq>>

\* cas_session: written only while seq is the one read at entry, and then seq
\* advances even when the value does not change.
Cas(expected, next) ==
    IF seq = expected THEN slot' = next /\ seq' = seq + 1
    ELSE UNCHANGED <<slot, seq>>

\* rebind_local_session, past its expected_seq check.
RebindLocal(r, changed) ==
    IF slot = LocalSession(r) /\ ~changed THEN UNCHANGED <<slot, seq>>
    ELSE slot' = LocalSession(r) /\ seq' = seq + 1

\* apply_mode_to_session, end_local_session in its second branch.
ApplyMode(previous, saved) ==
    IF saved.disabled
    THEN RebindLocal(saved.role, \/ ~previous.disabled
                                 \/ previous.role # saved.role)
    ELSE IF previous.disabled /\ slot.kind = "local"
    THEN slot' = NoSession /\ seq' = seq + 1
    ELSE UNCHANGED <<slot, seq>>


-----------------------------------------------------------------------------
(* Beginning a command.  One that needs a session and finds none returns   *)
(* at once.                                                                *)

Begin(p) ==
    /\ pc[p] = "idle" /\ seq < MaxSeq
    /\ \E o \in Ops \ {"apply"} :
        /\ op' = [op EXCEPT ![p] = o]
        /\ entry' = [entry EXCEPT ![p] = seq]
        /\ \/ /\ o \in {"login", "setup", "logout"}
              /\ Goto(p, "mode")
              /\ UNCHANGED cached
           \/ /\ o \in {"check", "password", "autologin"}
              /\ slot # NoSession
              /\ Goto(p, "read")
              /\ cached' = [cached EXCEPT ![p] = slot]
    /\ UNCHANGED <<slot, seq, lock, store, fresh, conf, newEpoch, adrift>>

BeginApply(p) ==
    /\ pc[p] = "idle" /\ seq < MaxSeq /\ "apply" \in Ops
    /\ \E wanted \in [disabled : BOOLEAN, role : Roles, autologin : {FALSE}] :
        conf' = [conf EXCEPT ![p] = wanted]
    /\ op' = [op EXCEPT ![p] = "apply"]
    /\ Goto(p, "lock")
    /\ UNCHANGED <<slot, seq, lock, store, entry, cached, fresh, newEpoch, adrift>>

\* A read of the store fails, or the password is wrong: the command returns
\* an error before it writes the slot (a logout that has cleared: success).
GiveUp(p) ==
    /\ pc[p] \in {"mode", "verify", "read", "change", "lock", "save"}
    /\ Return(p)
    /\ UNCHANGED <<slot, seq, store, adrift>>

-----------------------------------------------------------------------------
(* auth_login, auth_setup.                                                 *)

LoginMode(p) ==
    /\ pc[p] = "mode" /\ op[p] \in {"login", "setup"}
    /\ IF config.disabled THEN Return(p)
       ELSE Goto(p, "verify") /\ UNCHANGED <<lock, local>>
    /\ UNCHANGED <<slot, seq, store, adrift>>

\* The account the session will be bound to is the row the password check read.
Verify(p) ==
    /\ pc[p] = "verify" /\ op[p] = "login"
    /\ row # NoSession
    /\ fresh' = [fresh EXCEPT ![p] = row]
    /\ Goto(p, "lock")
    /\ UNCHANGED <<slot, seq, lock, store, op, entry, cached, conf, newEpoch, adrift>>

SetupFirstUser(p) ==
    /\ pc[p] = "verify" /\ op[p] = "setup"
    /\ ~initialized /\ nextId < MaxId
    /\ initialized' = TRUE
    /\ nextId' = nextId + 1
    /\ row' = Account(nextId + 1, 0, Admin)
    /\ fresh' = [fresh EXCEPT ![p] = row']
    /\ Goto(p, "lock")
    /\ UNCHANGED <<slot, seq, lock, config, op, entry, cached, conf, newEpoch, adrift>>

\* install_account_unless_auth_disabled: under the lock, the mode once more.
LoginLock(p) ==
    /\ pc[p] = "lock" /\ op[p] \in {"login", "setup"} /\ lock = Free
    /\ IF config.disabled THEN Return(p)
       ELSE Goto(p, "install") /\ lock' = p /\ UNCHANGED local
    /\ UNCHANGED <<slot, seq, store, adrift>>

\* install_login.
Install(p) ==
    /\ pc[p] = "install"
    /\ Cas(entry[p], fresh[p])
    /\ Return(p)
    /\ UNCHANGED <<store, adrift>>

-----------------------------------------------------------------------------
(* auth_logout.                                                            *)

LogoutMode(p) ==
    /\ pc[p] = "mode" /\ op[p] = "logout"
    /\ IF config.disabled THEN Return(p)
       ELSE Goto(p, "clear") /\ UNCHANGED <<lock, local>>
    /\ UNCHANGED <<slot, seq, store, adrift>>

\* entry becomes the seq of the clear, which the re-read is for.
Clear(p) ==
    /\ pc[p] = "clear"
    /\ Cas(entry[p], NoSession)
    /\ IF seq # entry[p] THEN Return(p)
       ELSE /\ Goto(p, "lock")
            /\ entry' = [entry EXCEPT ![p] = seq + 1]
            /\ UNCHANGED <<lock, op, cached, fresh, conf, newEpoch>>
    /\ UNCHANGED <<store, adrift>>

LogoutLock(p) ==
    /\ pc[p] = "lock" /\ op[p] = "logout" /\ lock = Free
    /\ IF ~config.disabled THEN Return(p)
       ELSE /\ Goto(p, "rebind")
            /\ lock' = p
            /\ conf' = [conf EXCEPT ![p] = config]
            /\ UNCHANGED <<op, entry, cached, fresh, newEpoch>>
    /\ UNCHANGED <<slot, seq, store, adrift>>

LogoutRebind(p) ==
    /\ pc[p] = "rebind"
    /\ IF seq = entry[p] THEN RebindLocal(conf[p].role, FALSE)
       ELSE UNCHANGED <<slot, seq>>
    /\ Return(p)
    /\ UNCHANGED <<store, adrift>>

-----------------------------------------------------------------------------
(* current_session: read_slot at entry, read_session_source, then          *)
(* settle_session.  auth_check, auth_identity, auth_resolve and every      *)
(* guarded command ("check") are this; the other commands begin with it.   *)

Read(p) ==
    /\ pc[p] = "read"
    /\ fresh' = [fresh EXCEPT ![p] =
         IF cached[p].kind = "account" THEN row
         ELSE IF config.disabled THEN LocalSession(config.role) ELSE NoSession]
    /\ Goto(p, "settle")
    /\ UNCHANGED <<slot, seq, lock, store, op, entry, cached, conf, newEpoch, adrift>>

\* The session of the slot as the store reports it, if its binding is that.
Confirmed(p) == IF SameBinding(slot, fresh[p]) THEN fresh[p] ELSE NoSession

Stale(p) == seq # entry[p]

\* What the command goes on with.
Answer(p) ==
    IF Stale(p) /\ Confirmed(p) # NoSession THEN slot ELSE Confirmed(p)

SettleSlot(p) ==
    IF Stale(p) THEN UNCHANGED <<slot, seq>>
    ELSE /\ slot' = Confirmed(p)
         /\ seq' = IF Confirmed(p) = NoSession THEN seq + 1 ELSE seq

\* change_own_password goes on with an account session only; the settings
\* commands require the Admin role.
Settle(p) ==
    /\ pc[p] = "settle"
    /\ SettleSlot(p)
    /\ \/ /\ op[p] = "password" /\ Answer(p).kind = "account"
          /\ Goto(p, "change")
          /\ fresh' = [fresh EXCEPT ![p] = Answer(p)]
          /\ UNCHANGED <<lock, op, entry, cached, conf, newEpoch>>
       \/ /\ op[p] \in {"apply", "autologin"} /\ Answer(p).role = Admin
          /\ Goto(p, IF op[p] = "apply" THEN "save" ELSE "lock")
          /\ fresh' = [fresh EXCEPT ![p] = Answer(p)]
          /\ UNCHANGED <<lock, op, entry, cached, conf, newEpoch>>
       \/ /\ ~(op[p] = "password" /\ Answer(p).kind = "account")
          /\ ~(op[p] \in {"apply", "autologin"} /\ Answer(p).role = Admin)
          /\ Return(p)
    /\ UNCHANGED <<store, adrift>>

-----------------------------------------------------------------------------
(* auth_change_password.                                                   *)

ChangePassword(p) ==
    /\ pc[p] = "change"
    /\ row # NoSession /\ row.epoch < MaxEpoch
    /\ row' = [row EXCEPT !.epoch = @ + 1]
    /\ newEpoch' = [newEpoch EXCEPT ![p] = row.epoch + 1]
    /\ Goto(p, "rotate")
    /\ UNCHANGED <<slot, seq, lock, config, nextId, initialized, op, entry, cached,
                   fresh, conf, adrift>>

\* Mutant: the re-bind is taken for a refresh and does not advance seq.
MutRotate(p) ==
    /\ pc[p] = "rotate"
    /\ IF newEpoch[p] = fresh[p].epoch + 1 /\ SameBinding(slot, fresh[p])
       THEN slot' = [slot EXCEPT !.epoch = newEpoch[p]] /\ UNCHANGED seq
       ELSE UNCHANGED <<slot, seq>>
    /\ Return(p)
    /\ UNCHANGED <<store, adrift>>

\* The re-bind after the change: only over the very session that was checked,
\* and only if the change was the next one of its account.
Rotate(p) ==
    /\ pc[p] = "rotate"
    /\ IF newEpoch[p] = fresh[p].epoch + 1 /\ SameBinding(slot, fresh[p])
       THEN slot' = [slot EXCEPT !.epoch = newEpoch[p]] /\ seq' = seq + 1
       ELSE UNCHANGED <<slot, seq>>
    /\ Return(p)
    /\ UNCHANGED <<store, adrift>>

-----------------------------------------------------------------------------
(* auth_config_apply.                                                      *)

\* Under the lock from here on.  While the mode is on, or no account exists,
\* no session is asked for; otherwise the command is one of an admin.
ApplyLock(p) ==
    /\ pc[p] = "lock" /\ op[p] = "apply" /\ lock = Free
    /\ \/ /\ config.disabled \/ ~initialized
          /\ Goto(p, "save")
          /\ lock' = p
          /\ UNCHANGED <<entry, cached>>
       \/ /\ ~config.disabled /\ initialized /\ slot # NoSession
          /\ Goto(p, "read")
          /\ lock' = p
          /\ entry' = [entry EXCEPT ![p] = seq]
          /\ cached' = [cached EXCEPT ![p] = slot]
    /\ UNCHANGED <<slot, seq, store, op, fresh, conf, newEpoch, adrift>>

Wanted(p) == [config EXCEPT !.disabled = conf[p].disabled, !.role = conf[p].role]

\* The save, which may be refused; a refused one is followed by a re-read.
\* From here conf is the setting before the save.
Save(p) ==
    /\ pc[p] = "save" /\ op[p] = "apply"
    /\ config' \in {Wanted(p), config}
    /\ conf' = [conf EXCEPT ![p] = config]
    /\ Goto(p, "follow")
    /\ UNCHANGED <<slot, seq, lock, row, nextId, initialized, op, entry, cached,
                   fresh, newEpoch, adrift>>

\* The save is stored but reported as failed, and so does the re-read.
SaveLost(p) ==
    /\ pc[p] = "save" /\ op[p] = "apply"
    /\ config' = Wanted(p)
    /\ adrift' = TRUE
    /\ Return(p)
    /\ UNCHANGED <<slot, seq, row, nextId, initialized>>

\* What the save left is still what is stored: the lock is held.  A re-bind
\* that advances seq also ends what an earlier lost save left behind.
Follow(p) ==
    /\ pc[p] = "follow"
    /\ ApplyMode(conf[p], config)
    /\ adrift' = (adrift /\ seq' = seq)
    /\ Return(p)
    /\ UNCHANGED store

-----------------------------------------------------------------------------
(* autologin_enable, autologin_disable: a read-modify-write of the row the *)
(* auth mode is stored in.                                                 *)

\* Mutant: without the lock.
MutAutologinLock(p) ==
    /\ pc[p] = "lock" /\ op[p] = "autologin"
    /\ conf' = [conf EXCEPT ![p] = config]
    /\ Goto(p, "save")
    /\ UNCHANGED <<slot, seq, lock, store, op, entry, cached, fresh, newEpoch, adrift>>

AutologinLock(p) ==
    /\ pc[p] = "lock" /\ op[p] = "autologin" /\ lock = Free
    /\ lock' = p
    /\ conf' = [conf EXCEPT ![p] = config]
    /\ Goto(p, "save")
    /\ UNCHANGED <<slot, seq, store, op, entry, cached, fresh, newEpoch, adrift>>

AutologinSave(p) ==
    /\ pc[p] = "save" /\ op[p] = "autologin"
    /\ \E on \in BOOLEAN : config' = [conf[p] EXCEPT !.autologin = on]
    /\ Return(p)
    /\ UNCHANGED <<slot, seq, row, nextId, initialized, adrift>>

-----------------------------------------------------------------------------
(* The account changes behind the session: another device, or an admin     *)
(* command of this one (users_update, users_reset_password, users_delete,  *)
(* users_create).                                                          *)

\* A role change, a reset, or a password change elsewhere.
Rekey ==
    /\ row # NoSession /\ row.epoch < MaxEpoch
    /\ \E r \in Roles : row' = Account(row.id, row.epoch + 1, r)
    /\ UNCHANGED <<nextId, initialized>>

Delete ==
    /\ row # NoSession
    /\ row' = NoSession
    /\ UNCHANGED <<nextId, initialized>>

Create ==
    /\ row = NoSession /\ initialized /\ nextId < MaxId
    /\ \E r \in Roles : row' = Account(nextId + 1, 0, r)
    /\ nextId' = nextId + 1
    /\ UNCHANGED initialized

Elsewhere ==
    /\ Rekey \/ Delete \/ Create
    /\ UNCHANGED <<slot, seq, lock, config, local, pc, adrift>>

-----------------------------------------------------------------------------
Command(p) ==
    \/ Begin(p) \/ BeginApply(p) \/ GiveUp(p)
    \/ LoginMode(p) \/ Verify(p) \/ SetupFirstUser(p) \/ LoginLock(p) \/ Install(p)
    \/ LogoutMode(p) \/ Clear(p) \/ LogoutLock(p) \/ LogoutRebind(p)
    \/ Read(p) \/ Settle(p)
    \/ ChangePassword(p) \/ Rotate(p)
    \/ ApplyLock(p) \/ Save(p) \/ SaveLost(p) \/ Follow(p)
    \/ AutologinLock(p) \/ AutologinSave(p)

\* A session ends, or a logout of none goes through.
Ends ==
    /\ slot' = NoSession
    /\ slot # NoSession \/ \E p \in Procs : pc[p] = "clear" /\ pc'[p] = "lock"

\* The ghosts follow every step.
Observe ==
    /\ vouched' = [p \in Procs |->
         IF pc'[p] = "idle" THEN {}
         ELSE vouched[p] \cup (IF config'.disabled THEN {config'.role} ELSE {})]
    /\ ended' = {p \in InFlight : pc'[p] # "idle"} \cap
         (IF Ends THEN Procs ELSE ended)

Next == ((\E p \in Procs : Command(p)) \/ Elsewhere) /\ Observe

Spec == Init /\ [][Next]_vars

-----------------------------------------------------------------------------
Labels == {"idle", "mode", "verify", "lock", "install", "clear", "rebind", "read",
           "settle", "change", "rotate", "save", "follow"}

\* The slot, the settings and the locals of each command have the shapes the
\* code gives them; the synthetic session carries no row id and no epoch.
TypeOK ==
    /\ slot \in Sessions /\ seq \in Nat
    /\ config \in Settings
    /\ lock \in Procs \cup {Free}
    /\ row \in Accounts \cup {NoSession} /\ nextId \in Nat /\ initialized \in BOOLEAN
    /\ op \in [Procs -> Ops \cup {"none"}]
    /\ pc \in [Procs -> Labels]
    /\ entry \in [Procs -> Nat]
    /\ cached \in [Procs -> Sessions] /\ fresh \in [Procs -> Sessions]
    /\ conf \in [Procs -> Settings]
    /\ newEpoch \in [Procs -> Nat]
    /\ vouched \in [Procs -> SUBSET Roles]
    /\ ended \in SUBSET Procs
    /\ adrift \in BOOLEAN

\* "auth.disabled == true <=> AuthDisabledLocal", with the mode's role: in
\* every state in which no apply stands between its save and its re-bind,
\* whatever logins, logouts, checks and autologin toggles are under way.
ModeIsFollowed ==
    ~adrift /\ (\A p \in Procs : pc[p] # "follow") =>
        /\ config.disabled <=> slot.kind = "local"
        /\ config.disabled => slot.role = config.role

\* settle_session's debug_assert: as long as seq has not moved, the slot
\* holds the very binding the check set out with.
UnmovedSlotKeepsItsBinding ==
    \A p \in Procs :
        pc[p] \in {"read", "settle"} /\ ~Stale(p) => SameBinding(slot, cached[p])

\* No command is decided on a role of the synthetic session that the mode
\* never had while the command ran.
AnswerWasVouched ==
    \A p \in Procs :
        pc[p] = "settle" /\ Answer(p).kind = "local" => Answer(p).role \in vouched[p]

\* What a check acts on is what stood in the slot while it ran.
ChecksActOnTheSlot == AnswerWasVouched /\ UnmovedSlotKeepsItsBinding

\* No command undoes what happened while it was slow: a login is not installed
\* over the end of a session - a logout, a revocation, the mode's end - that
\* came while it ran, and a check ends only a session the store no longer stands
\* for at that very moment, however old its own read is.
NoSlowCommandUndoes ==
    [][\A p \in Procs :
        /\ pc[p] = "install" /\ pc'[p] # "install" /\ slot' # slot => p \notin ended
        /\ pc[p] = "settle" /\ pc'[p] # "settle" /\ slot # NoSession /\ slot' = NoSession =>
               IF slot.kind = "account" THEN ~SameBinding(slot, row)
               ELSE ~config.disabled \/ adrift]_vars

=============================================================================
