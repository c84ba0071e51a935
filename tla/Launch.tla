------------------------------- MODULE Launch -------------------------------
(***************************************************************************)
(* The start of the program over what earlier runs left behind: run() of   *)
(* the desktop app and main() of banto-serve, one process at a time on one *)
(* SQLite file.  A start applies a staged restore, opens and migrates the  *)
(* database, seeds the demo rows and, into an empty settings table, the    *)
(* first-boot settings, key by key; the desktop then decides the window's  *)
(* session from the settings it finds and opens the LAN listener, on a     *)
(* neighbour of the saved port if that is taken.  The program may die      *)
(* between any two steps.                                                  *)
(*                                                                         *)
(* How a restore is applied is BackupRestore's, what the commands do while *)
(* the program is up ServerApply's and DesktopSession's.                   *)
(***************************************************************************)
EXTENDS Naturals, Sequences

CONSTANTS
    MaxPort,    \* the highest port
    Reserved,   \* ports the OS refuses for another reason than use
    Span,       \* PORT_FALLBACK_SPAN
    Seeds,      \* FIRST_BOOT_SETTINGS: keys, each seeded with TRUE
    None,       \* no image, no port, no password
    MaxStarts,  \* bound: starts of the program
    MaxEdits    \* bound: changes by users

VARIABLES
    db,       \* the database: see Image
    staged,   \* the staged restore: an image or None
    keyring,  \* the password of the autologin account the keyring holds
    busy,     \* ports other programs listen on
    kind,     \* the program started last: "desktop" or "serve"
    at,       \* the step it is at, "down" when it does not run
    cursor,   \* the seed to write or the port to try next
    session,  \* the window's session: "none", "local" or "account"
    live,     \* the port of the LAN listener, or None
    notice,   \* what the settings screen is told of the port
    starts, edits

shown == <<session, live, notice>>
process == <<kind, at, cursor, shown>>
bounds == <<starts, edits>>
vars == <<db, staged, keyring, busy, process, bounds>>

Ports == 1..MaxPort

\* said is a history: the settings that users chose.
Image(current, rows, stored, password, said) ==
    [current |-> current, rows |-> rows, stored |-> stored,
     password |-> password, said |-> said]

\* server_config and auth_config: a key that was never set has its default.
Stored(k, default) == IF k \in DOMAIN db.stored THEN db.stored[k] ELSE default
Disabled == Stored("disabled", FALSE)
Autologin == Stored("autologin", FALSE)
Enabled == Stored("enabled", FALSE)
Public == Stored("public", FALSE)
Port == Stored("port", 1)

\* set and set_many: the keys of values are stored together.
With(stored, values) ==
    [k \in DOMAIN stored \cup DOMAIN values |->
        IF k \in DOMAIN values THEN values[k] ELSE stored[k]]

One(k, value) == [key \in {k} |-> value]

\* auth_server_combination_allowed.
Allowed(disabled, enabled, public) == ~(disabled /\ enabled /\ ~public)

\* A fresh install, or the database of an older version.
Init ==
    /\ \E old \in {[k \in {} |-> TRUE], One("enabled", TRUE)} :
         db = Image(FALSE, "none", old, 0, old)
    /\ staged = None /\ keyring = None /\ busy = {}
    /\ kind = "desktop" /\ at = "down" /\ cursor = None
    /\ session = "none" /\ live = None /\ notice = "none"
    /\ starts = 0 /\ edits = 0

-----------------------------------------------------------------------------
(* What both programs do first.                                            *)

Start(program) ==
    /\ at = "down" /\ starts < MaxStarts
    /\ starts' = starts + 1
    /\ kind' = program /\ at' = "restore"
    /\ UNCHANGED <<db, staged, keyring, busy, cursor, shown, edits>>

\* The program ends, is killed, or a step it cannot do without fails.
End ==
    /\ at # "down"
    /\ at' = "down" /\ cursor' = None
    /\ session' = "none" /\ live' = None /\ notice' = "none"
    /\ UNCHANGED <<kind, db, staged, keyring, busy, bounds>>

\* apply_pending_restore_at_startup: applied, or refused and only logged.
ApplyRestore ==
    /\ at = "restore" /\ at' = "open"
    /\ \/ staged # None /\ db' = staged /\ staged' = None
       \/ UNCHANGED <<db, staged>>
    /\ UNCHANGED <<kind, cursor, shown, keyring, busy, bounds>>

\* init_db: the schema is migrated, then seed_if_empty adds all demo rows in
\* one transaction to an empty table.
Open ==
    /\ at = "open" /\ at' = "rows"
    /\ db' = [db EXCEPT !.current = TRUE]
    /\ UNCHANGED <<kind, cursor, shown, staged, keyring, busy, bounds>>

SeedRows ==
    /\ at = "rows" /\ at' = "fresh"
    /\ db' = [db EXCEPT !.rows = IF @ = "none" THEN "demo" ELSE @]
    /\ UNCHANGED <<kind, cursor, shown, staged, keyring, busy, bounds>>

AfterSeeds == IF kind = "desktop" THEN "session" ELSE "public"

\* seed_with: nothing to do, or the table is not empty, or cannot be read.
MutAskFresh ==
    /\ at = "fresh"
    /\ \/ at' = AfterSeeds /\ UNCHANGED cursor
       \/ Len(Seeds) > 0 /\ at' = "seed" /\ cursor' = 1
    /\ UNCHANGED <<kind, shown, db, staged, keyring, busy, bounds>>

AskFresh ==
    /\ at = "fresh"
    /\ \/ at' = AfterSeeds /\ UNCHANGED cursor
       \/ /\ Len(Seeds) > 0 /\ DOMAIN db.stored = {}
          /\ at' = "seed" /\ cursor' = 1
    /\ UNCHANGED <<kind, shown, db, staged, keyring, busy, bounds>>

\* One key of the seed, a statement of its own; a failure ends the seeding.
SeedKey ==
    /\ at = "seed"
    /\ \/ /\ db' = [db EXCEPT !.stored = With(@, One(Seeds[cursor], TRUE))]
          /\ IF cursor < Len(Seeds)
             THEN cursor' = cursor + 1 /\ UNCHANGED at
             ELSE cursor' = None /\ at' = AfterSeeds
       \/ cursor' = None /\ at' = AfterSeeds /\ UNCHANGED db
    /\ UNCHANGED <<kind, shown, staged, keyring, busy, bounds>>

-----------------------------------------------------------------------------
(* banto-serve.                                                            *)

\* What set_server_config stores: all keys of the section in one transaction.
ServerKeys(enabled, port, public) ==
    [k \in {"enabled", "port", "public"} |->
        IF k = "enabled" THEN enabled ELSE IF k = "port" THEN port ELSE public]

\* BANTO_VIEWER_PUBLIC=1, read, changed and written; without it, or if that
\* fails, nothing is stored.  The operator's word counts as chosen.
SeedPublic ==
    /\ at = "public" /\ at' = "listen"
    /\ \/ db' = [db EXCEPT !.stored = With(@, ServerKeys(Enabled, Port, TRUE)),
                           !.said = With(@, One("public", TRUE))]
       \/ UNCHANGED db
    /\ UNCHANGED <<kind, cursor, shown, staged, keyring, busy, bounds>>

\* start: the port of the environment or none, whatever the settings say.
Listen(port) ==
    /\ at = "listen" /\ at' = "up"
    /\ port \notin busy \cup Reserved
    /\ live' = port
    /\ UNCHANGED <<kind, cursor, session, notice, db, staged, keyring, busy, bounds>>

-----------------------------------------------------------------------------
(* The desktop app.                                                        *)

CanRead == keyring # None

Verified == keyring = db.password

\* The M11 bootstrap: login-free mode, or the password the keyring holds, if
\* it can be read and verified, or the login screen.
DecideSession ==
    /\ at = "session" /\ at' = "server"
    /\ \/ Disabled /\ session' = "local"
       \/ /\ ~Disabled /\ Autologin /\ CanRead /\ Verified
          /\ session' = "account"
       \/ ~Disabled /\ UNCHANGED session
    /\ UNCHANGED <<kind, cursor, live, notice, db, staged, keyring, busy, bounds>>

\* A saved state the guards would refuse keeps the listener closed.
DecideServer ==
    /\ at = "server"
    /\ IF Enabled /\ Allowed(Disabled, Enabled, Public)
       THEN at' = "bind" /\ cursor' = Port
       ELSE at' = "ready" /\ UNCHANGED cursor
    /\ UNCHANGED <<kind, shown, db, staged, keyring, busy, bounds>>

\* bind_with_port_fallback_span, a port at a time.
BindTo ==
    /\ at = "bind" /\ cursor \notin busy \cup Reserved
    /\ live' = cursor /\ cursor' = None
    /\ at' = IF live' = Port THEN "ready" ELSE "save"
    /\ UNCHANGED <<kind, session, notice, db, staged, keyring, busy, bounds>>

LastPort == IF Port + Span < MaxPort THEN Port + Span ELSE MaxPort

\* The saved port must be in use for another to be tried; a neighbour may be
\* unavailable in any way.
TryNext ==
    /\ at = "bind"
    /\ cursor \in IF cursor = Port THEN busy ELSE busy \cup Reserved
    /\ IF cursor < LastPort
       THEN cursor' = cursor + 1 /\ UNCHANGED <<at, notice>>
       ELSE cursor' = None /\ at' = "ready" /\ notice' = "exhausted"
    /\ UNCHANGED <<kind, session, live, db, staged, keyring, busy, bounds>>

BindFails ==
    /\ at = "bind" /\ cursor = Port /\ Port \in Reserved \ busy
    /\ cursor' = None /\ at' = "ready"
    /\ UNCHANGED <<kind, shown, db, staged, keyring, busy, bounds>>

\* The neighbour's port is saved before the listener serves, or the screen is
\* told that it is not.
SavePort ==
    /\ at = "save" /\ at' = "ready"
    /\ \/ /\ db' = [db EXCEPT !.stored = With(@, ServerKeys(Enabled, live, Public))]
          /\ notice' = "fallback"
       \/ UNCHANGED db /\ notice' = "fallbackUnsaved"
    /\ UNCHANGED <<kind, cursor, session, live, staged, keyring, busy, bounds>>

\* start_embedded_server and app.manage: the commands may be called.
Manage ==
    /\ at = "ready" /\ at' = "up"
    /\ UNCHANGED <<kind, cursor, shown, db, staged, keyring, busy, bounds>>

-----------------------------------------------------------------------------
(* The users and the other programs.                                       *)

Edit == /\ edits < MaxEdits /\ edits' = edits + 1
        /\ UNCHANGED <<process, busy, starts>>

Chosen(values) ==
    db' = [db EXCEPT !.stored = With(@, values), !.said = With(@, values)]

AuthKeys(disabled, autologin) ==
    [k \in {"disabled", "autologin"} |-> IF k = "disabled" THEN disabled ELSE autologin]

\* The settings screen: what the guards of set_auth_config and
\* set_server_config let through.
ChangeMode ==
    /\ at = "up" /\ kind = "desktop" /\ Allowed(~Disabled, Enabled, Public)
    /\ Chosen(AuthKeys(~Disabled, Autologin))
    /\ Edit /\ UNCHANGED <<staged, keyring>>

ChangeServer(enabled, port, public) ==
    /\ at = "up" /\ kind = "desktop" /\ Allowed(Disabled, enabled, public)
    /\ Chosen(ServerKeys(enabled, port, public))
    /\ Edit /\ UNCHANGED <<staged, keyring>>

\* The keyring first; the setting may be refused after it.
EnableAutologin ==
    /\ at = "up" /\ kind = "desktop"
    /\ keyring' = db.password
    /\ \/ Allowed(Disabled, Enabled, Public) /\ Chosen(AuthKeys(Disabled, TRUE))
       \/ UNCHANGED db
    /\ Edit /\ UNCHANGED staged

ChangePassword ==
    /\ at = "up"
    /\ db' = [db EXCEPT !.password = @ + 1]
    /\ Edit /\ UNCHANGED <<staged, keyring>>

\* A backup of the database as it is, staged to be restored.
Stage ==
    /\ at = "up"
    /\ staged' = db
    /\ Edit /\ UNCHANGED <<db, keyring>>

\* The database is edited by hand, into any combination.
HandEdit(k, value) ==
    /\ at = "down" /\ starts > 0 /\ db.current
    /\ Chosen(One(k, value))
    /\ Edit /\ UNCHANGED <<staged, keyring>>

OtherProgram(port) ==
    /\ port # live
    /\ busy' = IF port \in busy THEN busy \ {port} ELSE busy \cup {port}
    /\ UNCHANGED <<db, staged, keyring, process, bounds>>

Users ==
    \/ ChangeMode \/ EnableAutologin \/ ChangePassword \/ Stage
    \/ \E enabled, public \in BOOLEAN, port \in Ports : ChangeServer(enabled, port, public)
    \/ \E k \in {"disabled", "enabled", "public"}, value \in BOOLEAN : HandEdit(k, value)

Next ==
    \/ \E program \in {"desktop", "serve"} : Start(program)
    \/ End \/ ApplyRestore \/ Open \/ SeedRows \/ AskFresh \/ SeedKey
    \/ SeedPublic \/ \E port \in Ports : Listen(port)
    \/ DecideSession \/ DecideServer
    \/ BindTo \/ TryNext \/ BindFails \/ SavePort \/ Manage
    \/ Users
    \/ \E port \in Ports : OtherProgram(port)

Spec == Init /\ [][Next]_vars

-----------------------------------------------------------------------------
\* What a user chose is what a start finds, through seeds that were cut short,
\* environment, fallback ports and restores (which bring back what was chosen
\* then); only the port may be another.
ChosenSettingsStand ==
    \A k \in DOMAIN db.said \ {"port"} : db.stored[k] = db.said[k]

\* The window that opens is the one the settings of the database it opened ask
\* for, a preset's or a restored one's too; the account's only with the
\* password it has in that database.
WindowFollowsTheStore ==
    at = "ready" =>
        /\ (session = "local") <=> Disabled
        /\ session = "account" => Autologin /\ keyring = db.password

\* The listener it opens is one the guards of the settings would let through,
\* whatever was written past them, and it is on the saved port unless the
\* screen says that it could not be saved.
ListenerFollowsTheStore ==
    at = "ready" /\ live # None =>
        /\ Enabled /\ Allowed(Disabled, Enabled, Public)
        /\ live = Port \/ notice = "fallbackUnsaved"

\* A start does what the settings ask for and loses none (lib.rs:3963).
LaunchFollowsTheStore ==
    /\ ChosenSettingsStand
    /\ WindowFollowsTheStore
    /\ ListenerFollowsTheStore
=============================================================================
