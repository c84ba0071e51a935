# Banto in TLA+

Banto is a template for business applications on a local network: a Tauri
desktop program with an embedded HTTP server, so that one PC of an office runs
the application and the others use it in a browser.  Rust crates
(`src/crates/`) hold sessions, users, the audit log, backups, attachments and
storage; the application (`src/apps/admin-template/`) wires them together and
owns the desktop session, the settings, the server's life and an elevated
helper for the firewall; Svelte packages (`src/packages/`) hold the state of a
page.

This directory models the parts of it in which the order of events decides
whether it works, checks them with TLC on small instances and proves the most
important results with TLAPS for instances of any size.

    tlc -config AuthSessions.cfg MCAuthSessions     # one run
    tlapm AuthSessionsProofs.tla                    # one module of proofs

`PROJECT.json` ties everything to the code: `components` (what is modelled),
`runs`, `mutants` (for every property of a passing run, a plausible bug in the
code that the property catches), `map` (for every definition, the lines it
stands for), `hazards` (what a test would hardly reach, at its line, with the
properties that watch it), `findings` and `theorems`.  An operator named `Mut...`
is such a bug; nothing else uses it.

## 1. Inventory

### Where the state is, and what runs concurrently

| Part | Code | State | Operations | What makes it hard |
|---|---|---|---|---|
| Sessions | `banto-server/auth/{state,session,policy}.rs`, `routes/auth.rs` | in-memory map token -> record (account stamp: row id, `auth_epoch`, role) | login, setup, logout, validation of every request, own password change, expiry | the account is read across an await; the map and the database have no common lock |
| Accounts | `banto-admin-services/users.rs` | `users` rows, each with an id that is never reused and an epoch | first setup, create, update role, reset and change password, delete | hashing happens outside the transaction, the UPDATE compares; rules over the whole table |
| Login throttle | `auth/{state,policy}.rs` | failures per (address, user) and per address; slots in flight | reserve, verify, record, release | a burst verifies in parallel; windows fall due meanwhile; a request is dropped |
| Grants | `grant.rs`, `state.rs` | per kind: a generation and a queue of tokens | judge, issue, close the kind, evict | judged open, closed, then issued |
| Handlers | `routes/*.rs`, `src-tauri/lib.rs`, `core/src/rest/` | the caller's role, the audit trail | some two dozen writes at two entrances | awaits between the floor, the write and its record; dropped requests |
| Desktop session | `src-tauri/lib.rs` | one slot with a sequence number; auth mode; autologin entry in the keyring | check, login, logout, setup, apply mode, autologin, own password | every command awaits between reading the slot and writing it |
| Launch | `src-tauri/lib.rs`, `first_boot.rs`, `banto-serve.rs`, `db.rs` | what earlier runs stored | restore, migrate, seed, open the window, listen | it may end between any two steps; hand-edited settings; taken ports |
| Server apply | `src-tauri/lib.rs`, `server.rs`, `settings.rs` | listener, generation, saved settings | apply, auth-mode writer, firewall change | stop - bind - save - serve, each may fail; two locks; a person at a UAC prompt |
| Reach check | `reach_check.rs` | a one-time token, records, a table of failing peers | issue, check, expire, block, evict | the clock is read before the lock; a stopped listener still delivers |
| Firewall | `elev/`, `firewall_{change,status}.rs` | the rule stores of the PC | allow, remove, show, uninstall | processes of different rights; others edit the same store; who may write the helper |
| Audit spool | `audit.rs`, `audit/spool.rs` | `audit_log` rows, files of a shared directory, an in-memory index per process | record, flush, scan, prune | an INSERT that is given up on may land; several processes; crashes |
| Backup and restore | `backup.rs`, `core/db.rs` | database file, its log, backup files, a staged file | back up, stage, cancel, apply at start | a crash or a refused file operation between any two steps |
| Attachments | `banto-attachments` | rows in the database, bodies and thumbnails as files | upload, delete, import | no transaction over both; ids come back after a restore |
| Change events | `events.rs`, `admin-core/events.ts` | a broadcast channel, one stream per client | publish, re-validate, close, reconnect | a biased select; a lagged receiver; lost connections |
| List queries | `banto-storage/list_query.rs` | none | filter, sort, page, search | ties, missing values, wildcards; three implementations |
| Session controller | `admin-core/sessionController.svelte.ts`, `providers/http.ts` | the confirmed state of the tab, probe, waiting callers, timers; token in two storages | resolve, signals, sign-in, sign-out, grant, timers | answers come late and out of order; other tabs write the same storage |
| Lists of a page | `admin-core/{snapshot,windowed}.svelte.ts`, `blockFetch.ts` | blocks, an in-flight map, a generation | fetch, refresh, new parameters | late answers of superseded requests; the server's rows change |
| Settings and drafts of a page | `admin-core/savedSetting.svelte.ts`, `forms/src/draft*.ts` | edited value, baseline, revisions | edit, save, load, apply, settle, discard | saves and loads overlap; panes come and go |

The rest - core types, the static edges of HTTP, system metrics, widgets,
charts, printing, scripts - is stateless, rendering, or tooling.

### How they interact

* A request reaches a handler only through `require_auth`, which looks the token
  up in the map, reads the account behind it, and settles the two; the handler
  then reads the role from the map synchronously.  Account writes never touch
  the map: a session ends because its stamp no longer matches its row.
* The throttle stands before the credential check of a login.
* Grants are sessions without an account; the application decides whether a
  kind is open, and *persists* the closed condition before it revokes the kind.
* The desktop window has one session of its own.  `auth_config_apply` stores the
  mode and re-binds the slot; `auth.disabled` and an open LAN exclude each
  other, which the two writers check against each other's row.
* `server_apply` replaces the listener.  The generation it bumps is what the
  reach check's tokens and the firewall change are compared with.
* A handler commits, records in the audit log, and announces the change on the
  event channel, in that order and not in one transaction; what the database
  refuses of the log goes to the spool.
* The session controller of a tab is the only writer of "who is signed in here";
  the provider owns the credential and its revision.

### What each part must guarantee

* Sessions: no usable session without the password the account has *now*; a
  request is decided on a session that was live while it ran; validation ends
  no live session.
* Accounts: an administrator remains; one first setup; a name is one account's.
* Throttle: parallel logins buy no more guesses than sequential ones, no slot
  leaks.  Grants: a closed kind has no session, a kind keeps its cap.
* Handlers: nothing is done for a caller without the role; the audit log tells
  one true record of every write.
* Desktop and launch: the session follows the stored mode; no slow login undoes
  a logout; an old read never ends a newer session; no chosen setting is lost.
* Server: the LAN is never open without login; what serves is what is saved; an
  outage is reported; what the screen shows belongs to the listener that serves.
* Firewall: what is answered was so; only the application's own rule is
  removed; the helper is trusted only where nobody else can write.
* Audit: an entry is in the log, in a file, or counted as lost, and never twice.
* Backup, attachments: no committed write and no attachment's bytes are lost,
  and the database that is opened is one whole file.
* Tab: an answer about an old credential settles nothing; nobody who waits is
  forgotten; lists come to show what was written; no input is lost.

## 2. The modules

`MC*` modules hold the constants and the symmetry of a run.  Four of them
(`MCServerParts`, `MCStorage`, `MCPageParts`, `MCDesktopSession`) put several
modules into one run.  The modules of such a pack share no state, so a behaviour
in which one of them (`part`) moves while the others rest stands for every
behaviour of them together, and the run explores each by itself.

Steps are the stretches of code between two awaits, or between two lock sections
where two threads may interleave there.  Several modules have history variables
(said so where they are declared); they record, never steer.

### Sessions, accounts, handlers

**AuthSessions.** `store` is the `users` table, `tokens` the map, `proven`
history: which password hash each token's holder proved last.  A process is one
request: `pc` its await point, `tok`, `usr`, `row`, `seen`, `cred` the locals it
carries over awaits.  Requests: login (pre-read, check, issue), setup, validation
(`authenticate_with`: lookup, account read, settle), the handler behind it, and
the own password change (select, hash, compare-and-set UPDATE, re-bind).  Account
writes of other requests and of the desktop are actions between any two of those
steps.  A password is the identity of its salted hash; a token may expire at any
moment, which covers every lifetime.

**UserAccounts.** The writes of `UsersService` as transactions: begin (the write
lock, where the code takes it), the checks over what is committed, the write,
the commit or a roll-back at any step.

**AuditedWrites.** A handler is a row of two tables (`Rest`, `Desktop`): its
floor, the resource its refusals are tagged with, its steps in the order of the
code, what its record says.  A request runs the steps of its row; accounts and
sessions change between any two, and a REST request may be dropped there.
`PathsAgree` compares the two tables.

**LoginThrottle.** `failures` and `in_flight` have locks of their own, so the
reads of a reservation, the two failure records, the two resets and the release
are separate steps.  A dropped request's guard releases its slot.  Time is a
counter of ticks.

**GrantIssue.** The issuing route (generation, judgment, insertion), `AuthState`'s
per-kind queue and generation, and the closer (save, revoke).

### The desktop program

**DesktopSession.** `slot` with `seq` stands for `{session, seq}` behind a plain
mutex that is never held over an await; `lock` is `auth_config_lock`, which is.
One username is followed; its row is re-keyed, deleted and re-created by others.
Every command that touches the slot is there: session check, login, setup,
logout, the mode apply with its three possible save outcomes, autologin enable,
disable and use, the own password change.  `adrift` marks what the code itself
documents as unresolved: a save whose answer was lost.

**Launch.** The starts of the desktop program and of `banto-serve` over one
SQLite file, step by step, each of which may be the last.  A database is its
settings, its users and what users chose (history).  Between the starts users
choose, edit by hand, stage restores; other programs take ports.

**ServerApply.** `server` is the async mutex of the slot and `authLock` the lock
of the two settings rows.  An apply: validate, stop, bind, check, save, serve, or
restore.  Beside it the auth writer, the reach check's token and records of a
generation, and the firewall change with its two comparisons around the UAC
prompt.  The elevated helper's outcome is any of its answers; when it was busy,
the closing re-read of the rules changes nothing and is left out.

**ReachCheck, ReachLimiter.** The one-time token from its issue to its record,
with the peers whose addresses were this PC's own; and the table of failing
peers with its window, its blocks and its eviction.  In both a check reads the
clock first and takes the lock later.

**FirewallRules, FirewallChange.** The judgment of one rule, written twice in the
code (helper and screen); and the command, the elevated helper, the uninstaller's
helper and other administrators over the same stores.  What the firewall does
with its stores is external, modelled from what the scripts ask of it.

**Placement, PlacementCases.** The verdict on the folders above the helper as a
pure algorithm, judged against a reference that says who may write by reading
the access lists in order; and the disks it is checked on, with every single and
every pair of deviations from what an installer leaves.  A state is one disk.

### Storage

**AuditSpool.** An entry is its `pending_id`.  `record` waits for a detached
INSERT and gives up on it; the write reserves a slot, writes a temporary file
and renames it; a flush lists, reads, inserts if absent and removes; `reconcile`
drops the ids of files it did not see; the start-up scan rebuilds the index.
Two processes share the directory and the database.  A file that cannot be
parsed (and goes to the quarantine) is not modelled: entries are written whole
before they get their name.

**BackupRestore.** The database as its main file and its write-ahead log, each
with the set of writes in it; requests that back up, stage and cancel; every
file operation of the restore at start, each of which may be refused, with a
crash between any two.

**Attachments.** Row, body and thumbnail of an upload in the order of the code,
the undo of a failed one, deletions, the import of an older directory, and the
database replaced under the directory by a restore.

**ListQuery.** Filters, sort keys, the tie-break on the unique key, paging and
the escaped search, over what the SQL means: a query is the *set* of the
sequences a database may return.  Beside it the two implementations in the
browser.  A state is one request over one table.

### The page

**SessionController, HttpSession.** Between two awaits the controller is one
synchronous continuation whose functions call one another, so
`SessionController` writes each function as an operator from the controller's
state `c` and a view of the provider to the next `c`, and `HttpSession` makes
the actions: the tab's calls and timers, the three parts of a question to the
server, the storages, the other tab, the server.  The epoch is left out because
a probe in flight always has the current one; `generation`, `verification` and
the length of the backoff because the controller only writes them.

**AuditSnapshot, SnapshotRead.** The audit log read by blocks while rows are
added, commit late and are pruned.  An answer is represented by the set of rows
it was cut from; the code compares boundaries, counts and prune epochs.
`SnapshotRead` is the abstract specification: the blocks on the screen are slices
of one set that answers the query.  `AuditSnapshot` implements it, with the set
the first answer was cut from (`ReadsOneSet == Reading!Spec`).

**WindowedList, SavedSetting, Drafts.** A list whose refresh is staged until all
of it has settled; a setting with one send at a time and loads that a save makes
stale; drafts with baseline, revision and unparsed text under the coordinator's
settle.  Drafts takes applies to be served in the order they were sent.

**ChangeFeed.** The composition of a write's announcement, the broadcast channel
with its lagging receiver, the stream with its biased re-check, the tab that
reads, reconnects and signs in again, and the list it reloads.  It is run twice:
on its own for what must come about, and as a part of `page_parts` for what must
hold at every moment (`NoChangeIsStranded`: a list that is behind has its update
on its way; with `SettledListIsCurrent` it is the property `ListsAreCurrent`).

## 3. The runs

The bounds are in the `.cfg` files and named as constants; none of them cuts an
operation short, it only stops new ones from starting.  `CHECK_DEADLOCK FALSE`
stands where such a bound lets the system come to rest with every request served
(or where a state is a case and takes no step); `http_session`, `server_apply`
and `server_changes` check for deadlock.

| Run | Instance | Shows |
|---|---|---|
| `auth_sessions` | 2 requests, 2 tokens, 1 account acted on beside a second administrator (or the first run); ids to 3, 2 hashes, epochs to 1 | no usable session survives a password it did not prove (`LiveSessionProvesCurrentPassword`), a handler's role and session were live while it ran (`HandlerReadsValidatedRole`, `AcceptedIsWarranted`), validation ends only stale ones (`ValidationKeepsLiveSessions`) |
| `server_parts` | grants: 2 kinds with caps 2 and 1, 2 issuers, 3 tokens, 2 revocations; throttle: 3 requests, 2 users behind 1 address, limits 2 and 3, lockout 2 of 2 ticks; limiter: 3 peers over a table of 2, 3 ticks; reach check: 2 addresses, 2 tokens, 1 change of listener; firewall: 2 calls, 2 of 3 helpers, 1 edit by others, 1 fault | `NoGrantWhileClosed`, `GrantsAreCapped`, `ThrottleIsExact`, `ReachCheckIsSound`, `RuleAnswersAreTrue`, `OnlyOwnRulesAreRemoved` |
| `desktop_session` | 2 commands of any kind, the second started after at most 1 write of the slot, 1 re-keying, 2 row ids; apart from it 2 starts, 2 changes by users, 3 ports of which one is reserved | `ModeIsFollowed`, `ChecksActOnTheSlot`, `NoSlowCommandUndoes`; `LaunchFollowsTheStore` |
| `server_apply` | 2 applies, auth writer, 2 ports, 2 generations, 1 relaunch | `LanNeverOpenWithoutLogin`, `RunningServerIsTheSavedOne` (an outage is the slot's and has its reason) |
| `server_changes` | 1 apply, auth writer, 1 firewall change, 2 generations, 1 reach token; fairness | `ReachCheckFollowsTheListener`, `CurrentChangeWasConfirmed`, `EveryApplyReturns` |
| `audit_spool` | 2 processes, 2 entries over a cap of 1, 1 crash | `LoggedOnce`, `CapHolds` |
| `spool_flush` | 1 entry, 2 processes, 2 exits; fairness | `SpooledIsLogged` |
| `storage_parts` | restore: 2 requests, 3 file names, 1 write, 2 starts; attachments: 2 ids, 2 uploads, 2 swaps of the database, 1 fault; accounts: 2 connections, 3 names and ids; handlers: every row, 2 accounts, 1 change by others; placement: all pairs of deviations, three ways to reach the folder; lists: 3 rows, up to 2 keys, texts to 3 characters | `RestoreIsSafe`, `AttachmentKeepsItsBody`, `AccountsStaySound`, `WritesAreWarranted`, `TrailIsTrue`, `PlacementIsSound`, `ListIsFaithful` |
| `page_parts` | snapshot: 3 rows, blocks of 1, 1 prune, 1 new generation, 1 fault; windowed list: 2 blocks, 1 write, 1 change of parameters, 1 fault; setting: 2 values, 3 edits, 2 loads, 1 fault; drafts: 2 forms of which one keeps its input in the pane, 2 inputs, 2 settles, 1 refusal; feed: 2 writes, a channel of 1, 1 fault, 2 tokens | `NothingIsForgotten`, `ReadsOneSet` (the refinement), `ListsAreCurrent` (windowed lists and the feed), `SavedIsStored`, `NoInputIsLost` |
| `change_feed` | 1 write, a channel of 1, 1 fault, 2 tokens; fairness | `ShownBecomesCurrent`, `RevokedStreamEnds` |
| `http_session` | 1 waiting caller beside the background, 2 users and a grant, 2 tokens, 2 writes of the other tab, 1 abandoned question, 1 stale retry | `ConfirmedIsCurrent`, `NobodyIsForgotten`, `SignalIsAnsweredAfresh`, `LiveTokenStays` |
| `restore_error` | the restore part of `storage_parts` | a violation of `UntouchedOnError`, section 5 |

Why these bounds are enough to be interesting: every hazard modelled is a race
of two actors over one object, so two requests (commands, applies, processes,
connections), the object and one intervening change or fault reach it; the
throttle needs three requests because the reservation limit of 2 has to be
passed by a third, and the limiter three peers to overrun a table of two; the
caps are one below what arrives; the pure algorithms take the smallest inputs on
which ties, missing values and pairs of deviations exist; and each counter
allows one value more than the comparison it feeds can tell apart.  The mutants
say the same from the other side: each breaks its property within these bounds.

A run takes from seconds to a few minutes.  Symmetry is used over requests,
processes, tokens or users, never in a run with a liveness property.  Two runs
also give TLC a `VIEW` that merges states no later step can tell apart, so
nothing is cut off: `http_session` keeps of a revision only whether it is the
current one (the code compares revisions for equality only) and forgets tokens
that nothing holds; `audit_spool` forgets who recorded an entry whose call is
over and whose file is gone.

### Fairness

* `ServerApply`: weak fairness on the steps an apply takes once it holds the
  server lock, strong fairness on taking a lock, since tokio's `Mutex` queues
  its waiters in order; weak fairness on the auth writer's save.  Nothing is
  assumed of the user: the UAC prompt may stay open for ever.
* `AuditSpool`: weak fairness on the steps of a flush that is running (the
  flush task is periodic and waits for its own end), strong fairness on the
  listing and the INSERT, because the task retries and a database or a disk
  that fails is assumed not to fail for ever.  No process has to stay up, and
  none has to come back: `SpooledIsLogged` only speaks of times at which some
  process runs.
* `ChangeFeed`: weak fairness on what tasks do when they can (the announcement,
  the loads, the tab's reading, the timer); strong fairness on the answer of a
  re-check, on delivery and on the two answers to a connection, all of which
  are tried again and again (an account store that never answers, or a
  connection that never comes about, is excluded).  Nothing is assumed of
  users: nobody has to write, revoke or sign in.

## 4. The proofs

The modules of proofs are for any values of the constants: any number of users,
tokens, requests, commands, logins, peers, calls, entries, rows, blocks, forms,
ports, ids, and any bounds.  The only assumptions are the named `ASSUME`s of the
modules, which every run evaluates: bounds are natural numbers, caps, thresholds
and the capacity of the channel are positive, marks such as "nobody", "no token"
or "none" differ from what they stand beside (a missing value is no number),
initial row ids are in the past, the operations a run enables are operations.
Four of the modules prove about a pack (`ServerPartsProofs` about
`MCServerParts`, and so on): a pack has one invariant, the conjunction of its
parts', and a step of it is a step of one part.  Each argument is an inductive
invariant that adds to the property what a process still *may believe* at its
place in the code.

**AuthSessionsProofs** (`SessionsProveCurrentPassword`,
`AcceptancesAreWarranted`, `HandlersReadValidatedRole`,
`LiveSessionsSurviveValidation`).  Ids are never reused and epochs of a row only
rise, so a stamp taken once is either the row's present stamp or one no row will
ever have again; what a request holds over its awaits is of that past, and *if
it is still the present, so are the password and the role that go with it*
(`RequestInv`); the same of a token's record (`TokenInv`).  That is enough for
the first theorem.  The other three need what a token and the requests that
carry it know of each other (`AcceptInv`): a binding keeps its row and never goes
back (`BindingInv`), a lookup that found what the token was bound to saw it live
(`LiveInv`), one that did not never will (`DeadInv`), and a token bound to the
row a request holds has that row's role and password, whoever refreshed or
re-bound it last (`HolderInv`, `RotateInv`).

**ServerPartsProofs**, the parts of `server_parts`.
* Grants (`ClosedMeansClosed`, `CapsAreKept`).  A request judged allowed finds
  the condition still open, *or* the closer between its save and its revocation,
  *or* its generation moved (`Judged`) - which is exactly why the order "persist,
  then revoke" matters.  The queue is within the cap and contains every live
  session of the kind, though it may hold tokens long gone.
* The throttle (`ThrottleHolds`).  A key's record counts every failure that is
  not a lockout old, is no older than the last of them, and locks for as long as
  it is fresh (`StreakOK`); such failures and the verifications still awaited are
  together within the limit (`BoundOK`), which is what a reservation counts; and
  the slots counted are the slots held (`SlotsOK`).  The sum over a sliding
  window of the property follows because the history numbers the failures as
  they come (`failed` is a set of records), so that cardinalities of sets do.
* The limiter and the reach check (`ReachCheckIsTrue`).  An entry of the table
  tells when its peer was last refused or counted and until when it is blocked,
  and a blocked peer without an entry has been pushed out by as many others as
  the table holds (`TableOK`).  A record is of one use of the token it names,
  made while that token lived, by a peer that was not this PC; records are of
  older tokens the older they are, and none is of the token in force
  (`StoreOK`) - through clocks read before the lock and listeners that deliver
  after their stop.
* The firewall (`AnswersAreTrue`, `RemovalsAreItsOwn`).  What a helper holds of
  the store when it is about to judge it was so at a moment that was noted, it
  removes only what it took for its own (`HelperOK`), and the command answers
  and records what its helper said (`CallOK`).

**ServerApplyProofs** (`NeverOpenWithoutLogin`, `ServesWhatIsSaved`,
`ReachCheckIsOfTheListener`, `CurrentIsConfirmed`).  Who stands between
validation and return holds the slot, who saves holds the settings lock
(`LockInv`); what a writer checked stands until it saves (`RowsInv`); what an
apply carries between its stop and its return says which listener has to come
back (`PlanInv`), so the slot is right whenever it can be read (`SlotInv`); the
reach store is of the slot's generation (`ReachInv`), which only grows while a
change is under way (`ChangeInv`).

**DesktopSessionProofs** (`SlotFollowsTheMode`, `ChecksAreOfTheSlot`,
`NoCommandUndoes`, `LaunchFollows`).  Everything hangs on the sequence number,
which moves with every change of the binding, and on the lock, without which the
settings do not move: a command whose number is still the slot's read the
binding that is still there (`ReadInv`, `EndedInv`), a check that may settle the
local session read the mode in force or one whose apply will still move the slot
(`SettleInv`), and the role it vouches for was the mode's while it ran
(`VouchedInv`).  For the starts: what was chosen is stored in the database and
in every image a restore brings back, a database that is being seeded is one in
which nothing was chosen, and the window and the listener are decided from rows
that nothing moves before the commands come up (`LaunchInv`).

**AuditSpoolProofs** (`EntriesAreLoggedOnce`, `SpoolKeepsItsCap`).  Whoever goes
on without an entry - the caller that returned, the flush that removes the file
- knows that it is somewhere (`LogInv`, `KnowledgeInv`); the index of a writer
knows every file of its own past the rename (`IndexInv`), and a place under the
cap is taken before the disk is touched (`CapInv`).

**StorageProofs**, the parts of `storage_parts`.
* Accounts (`SoundAccounts`).  The write lock is taken before the checks read,
  so what they found holds until the commit (`LockInv`, `CommitInv`).
* Restore (`RestoresAreSafe`).  The property is of every moment, so the
  invariant says what the restore under way has made sure of: from the
  checkpoint on, everything committed and not excused is in the main file;
  before the log may go, in a whole copy besides (`StepInv`).  A log that is not its file's was
  left by a refused removal (`LogInv`), a staged file of two was an overlap
  (`StagedInv`).
* Attachments (`AttachmentsAreKept`).  An id belongs to one upload until its row
  is removed (`UploadOk`, `OwnIds`), and not only the rows in force but every
  table that may come back - the saved copy, the one an import still reads -
  agrees with the files on disk (`Kept`).  `PostgresInv` is about the directory
  that an import reads.
* Audited writes (`OnlyWarrantedWrites`, `TheTrailIsTrue`).  In every row of the
  two tables the steps come in an order of which each may rely on those before:
  a write stands after a floor or a check of it, a record after its write.
  What a step may rely on (`Assured`) holds whenever a request waits there,
  whatever happened to its account and its session (`WritesInv`).
* Placement (`PlacementsAreSound`).  The invariant is that a handle's final path
  is final (`DiskOK`), which every disk of PlacementCases satisfies; from that
  alone, with no other bound on the disk, follows that the folders above *either*
  exe are the ones that were checked, that the verdict on an access list is at
  least as strict as reading it in order, and that the three programs that judge
  a place see the same one.
* Lists (`ListsAreFaithful`, with `PagesAreOneListAlways` and
  `SearchIsLiteralAlways`).  A list is a case and takes no step; what is proved is
  what the recursive functions compute.  They are recursive over numbers, so the
  induction is one over subsets of an interval (`Climb`), and that such a function
  exists and obeys its equation is a lemma (`Recursion`).  For the order: of two
  rows the first key in which they differ decides, and the unique key is among the
  keys, so that no two rows tie (`OneOrder`); a sequence sorted by a total order
  has each row at the place its rank gives it, so that there is one (`OneListing`,
  `SomeListing`), the three programs find it, and pages of *any* size cut it
  without overlap or gap (`PagesShowAll`).  For the search: the pattern is the
  searched characters one after the other, each as one piece of one or two
  characters that stands for itself (`PatternSpells`), and the table of LIKE is
  followed piece by piece, for texts of any length over any characters.

**PagePartsProofs**, the parts of `page_parts`.
* The audit log (`SnapshotIsRead`, `NothingVisibleIsForgotten`).  The
  refinement: every step of the list is a step of `SnapshotRead` or a stutter.
  The code compares counts, the argument is about sets: two answers of one
  boundary and one prune epoch were cut from sets of which one contains the
  other, and then equal counts make them equal (`SnapshotInv`).  The second: the
  pump runs after every change of what it looks at and leaves nothing it would
  ask for (`RestInv`).
* Windowed list (`ListsStayCurrent`, first half).  A request of the generation
  is for its parameters, and its answer was read since it began; while a refresh
  is staged, something of it is in flight (`ListInv`).
* Setting (`SettingIsStored`).  There is one send at a time, and a load that
  still counts began after the last send (`SettingInv`).
* Drafts (`InputIsKept`).  An input that is neither applied nor thrown away is
  what the form shows, or what was captured when its pane went, and is not the
  baseline, so that the form is dirty; of the accepted applies of a form the
  newest is the stored one and becomes the baseline last (`DraftInv`).
* Feed (`ListsStayCurrent`, second half).  The invariant (`FeedInv`) is stronger
  than the property in one place: a list that shows all there is may still have
  a load under way that would undo it, so that being current only counts when no
  load may write the list (`Settled`).  What is lost with a connection is
  excused or made up for by the next one, because a tab reads the stream of the
  token it asked with; and a stream that ended before its connection did was a
  revoked token's (`LinkInv`).

**HttpSessionProofs** (`UserIsCurrent`, `NobodyIsLost`, `SignalIsFresh`,
`TokenIsNotTaken`).  All that the controller's functions do to one another's
state, but for applying an answer, is one transitive relation on `c`, so that the
proof goes through a continuation once however it was composed.  What a question
heard of its token - that it is over, or whose it is - stays true of it
(`AsksOK`); while the revision and the storage have not moved, the probe's
question is about the stored token (`ProbeOK`); the user last shown and the one
the page was told of go together (`UserOK`).

Every invariant carries the types it needs; where a module has a type invariant
of its own, `TypeCorrect` states it.

Only model-checked:
* Liveness (`EveryApplyReturns`, `SpooledIsLogged`, `ShownBecomesCurrent`,
  `RevokedStreamEnds`), which needs fairness and ENABLED.  Of the third the part
  that is about single states is proved: `ListsStayCurrent`.

## 5. Where the code and its comments disagree

* `restore_error` - `src-tauri/lib.rs:3979` says of a staged restore that "the
  current db (if any) is left untouched on error".  The start removes the
  write-ahead log (`backup.rs:825`) before the rename (`:829`), and a checkpoint
  that was refused before is let go (`:793`).  If both the checkpoint and the
  rename are refused, the start goes on with a database that has lost the
  committed writes whose frames were only in that log; they are in no copy
  either.

Seen while modelling, without a run:

* `routes/auth.rs:218` says the session is re-bound only when its own password
  change was the only one.  The code compares epochs, not row ids: an account
  deleted and re-created in between can reach the same number.  The session
  stays bound to the old row and is refused at its next lookup; only a request
  that read the old row at that very epoch before it was deleted is still
  accepted.  `AcceptedIsWarranted` and `HandlerReadsValidatedRole` therefore
  speak of rows that are the last their username was given (`Newest`): without
  it both fail, from three hashes or three requests on, which the attempt to
  prove them showed.
* `src-tauri/lib.rs:1639` says `auth.disabled = true` is never observable together
  with an account session.  The save is visible before the re-bind, and a check
  in between confirms the account session.
* `sessionController.svelte.ts:752` says only an answer's own news starts a probe
  at once.  A held session's revision differs from the confirmed one anyway, so
  the rejection of an aborted probe restarts it without the backoff.
* The desktop's restore from an existing backup records no entity
  (`src-tauri/lib.rs:3525`), where `docs/conventions.en.md:91` names the backup
  file for both paths.  `PathsAgree` leaves this one row out.
* A start that ends in the middle of writing the first-boot preset leaves half
  of it: the next start finds settings and writes no more (`first_boot.rs:53`).
  What is stored is followed all the same (`LaunchFollowsTheStore`).
* Two concurrent checks may write the shown name and role of the desktop session
  in the wrong order until the next check (`lib.rs:578`); a check that read the
  row between the UPDATE of the own password and its re-bind ends the desktop
  session that changed it (`lib.rs:1234`, the user signs in again).
* `resolve()` with a signal that is already aborted records the need of a
  confirmation without scheduling it (`sessionController.svelte.ts:888`);
  `commit()` notifies listeners before `appliedRevision` is set (`:715`).  No
  caller in the repository meets either.

## 6. Not modelled, and why

* Hazards without a property.  A flush stops at the first entry the database
  refuses and starts again at the same one (`audit.rs:566`): an entry that is
  refused for ever would hold the others back; `SpooledIsLogged` assumes that
  none is.  A row that was flushed and then pruned may be inserted again by the
  INSERT that was given up on (`spool.rs:4`): what the retention deleted is out
  of `LoggedOnce`'s sight, which counts rows at one moment.
* The Tauri provider's own revision and `grantFallback`'s tickets and retries:
  the controller meets both only through the revisions that HttpSession already
  moves in every order.
* The quarantine of unreadable spool files; names and listings of backups;
  password rules; validation of item fields, file names and images; Host
  parsing of the reach check; the text of the PowerShell scripts and of their
  answers: functions of one input, tested as such in the repository.
* The lifetimes of tokens: a token may expire at any moment, which covers them.
* Core types, static files, headers, system metrics, image cache, grid, tree,
  dock, charts, printing, theme, pages, scripts and tests: rendering, formatting
  and tooling, with no state that two actors share.
* What SQLite, PostgreSQL, tokio, axum, the browser, the keyring, the firewall
  and the operating system do inside: transactions are steps, an INSERT either
  lands once or not, mutexes are fair, a rename is atomic.
