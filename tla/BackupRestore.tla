--------------------------- MODULE BackupRestore ---------------------------
(***************************************************************************)
(* Backups and the staged restore: the database as its main file and its   *)
(* write-ahead log, BackupService's files next to it, requests that create *)
(* a backup, stage a restore or cancel it, and the start of the program,   *)
(* which applies a staged restore before it opens the database.  The       *)
(* program may stop or crash between any two steps, and every file         *)
(* operation of the start may be refused.                                  *)
(*                                                                         *)
(* The content of a file is the set of committed writes in it.             *)
(***************************************************************************)
EXTENDS Naturals, FiniteSets

CONSTANTS
    Reqs,         \* requests
    Names,        \* file names in the backup directory, bounding the files
    MaxWrites,    \* bound: committed writes
    MaxRestores,  \* bound: applied restores
    MaxStarts     \* bound: starts of the program

Writes == 1..MaxWrites

VARIABLES
    main,     \* the database file: content, incarnation, what is wrong with it
    wal,      \* the frames in its -wal file, and the incarnation they are of
    files,    \* the backup directory: a file or Absent, by name
    pend,     \* restore-pending.sqlite3: a file being written by some, or Absent
    req,      \* where each request is and what it carries
    boot,     \* the step the start is at, "up" once the database is open
    written,  \* writes committed so far
    starts,
    excused,  \* history: writes a refused checkpoint left outside the main file
    refused   \* history: what went wrong that the code knowingly lets go

dbVars == <<main, wal, written>>
dirVars == <<files, pend>>
history == <<excused, refused>>
vars == <<dbVars, dirVars, req, boot, starts, history>>

Idle == [at |-> "idle"]
File(kind, has, state) == [kind |-> kind, has |-> has, state |-> state]
Absent == File("none", {}, "absent")
Staged(has, state, by, mixed) ==
    [has |-> has, state |-> state, by |-> by, mixed |-> mixed]
NotStaged == Staged({}, "absent", {}, FALSE)

\* What a reader of the open database sees: its log belongs to it, or it is
\* not its log.
Live == main.has \cup IF wal.gen = main.gen THEN wal.has ELSE {}

Init ==
    /\ main = [has |-> {}, gen |-> 0, state |-> "sound"]
    /\ wal = [has |-> {}, gen |-> 0]
    /\ files = [n \in Names |-> Absent] /\ pend = NotStaged
    /\ req = [r \in Reqs |-> Idle]
    /\ boot = "up" /\ written = 0 /\ starts = 0
    /\ excused = {} /\ refused = {}

At(r, pc) == boot = "up" /\ req[r].at = pc
Goto(r, s) == req' = [req EXCEPT ![r] = s]

-----------------------------------------------------------------------------
(* The open database.                                                      *)

\* A commit appends to the log, which starts over once all of it is folded.
Write ==
    /\ boot = "up" /\ main.state = "sound" /\ written < MaxWrites
    /\ written' = written + 1
    /\ \E kept \in {wal.has} \cup (IF wal.has \subseteq main.has THEN {{}} ELSE {}) :
         wal' = [has |-> kept \cup {written + 1}, gen |-> main.gen]
    /\ UNCHANGED <<main, dirVars, req, boot, starts, history>>

\* SQLite folds the log into the file now and then, and leaves its frames.
Fold ==
    /\ boot = "up" /\ main.state = "sound" /\ Live # main.has
    /\ main' = [main EXCEPT !.has = Live]
    /\ UNCHANGED <<wal, written, dirVars, req, boot, starts, history>>

-----------------------------------------------------------------------------
(* create: pick a name nobody has, and VACUUM INTO it.                     *)

CreatePick(r, n) ==
    /\ At(r, "idle") /\ files[n] = Absent
    /\ Goto(r, [at |-> "vacuum", name |-> n])
    /\ UNCHANGED <<dbVars, dirVars, boot, starts, history>>

\* Two requests of one second may have picked the same name: VACUUM INTO
\* refuses a file that is there.
VacuumInto(r) ==
    /\ At(r, "vacuum")
    /\ LET n == req[r].name IN
         IF files[n] = Absent
           THEN /\ files' = [files EXCEPT ![n] = File("backup", Live, "part")]
                /\ Goto(r, [at |-> "filling", name |-> n])
           ELSE Goto(r, Idle) /\ UNCHANGED files
    /\ UNCHANGED <<dbVars, pend, boot, starts, history>>

\* It completes, or an error leaves what was written.
VacuumEnd(r) ==
    /\ At(r, "filling")
    /\ \E end \in {"whole", "part"} :
         files' = [files EXCEPT ![req[r].name].state = end]
    /\ Goto(r, Idle)
    /\ UNCHANGED <<dbVars, pend, boot, starts, history>>

-----------------------------------------------------------------------------
(* Staging a restore, and cancelling it.                                   *)

\* validate_sqlite_file: a partial file never passes; one that two copies
\* wrote over each other may, since integrity_check compares no contents.
Validates(f) == f.state \in {"whole", "mixed"}

\* stage_restore_from_file: the backup is validated where it is ...
StageFile(r, n) ==
    /\ At(r, "idle") /\ Validates(files[n])
    /\ Goto(r, [at |-> "copy", has |-> files[n].has])
    /\ UNCHANGED <<dbVars, dirVars, boot, starts, history>>

\* ... and copied over restore-pending.sqlite3, which is truncated first: a
\* copy under way goes on in the same file.
CopyOpen(r) ==
    /\ At(r, "copy")
    /\ pend' = Staged(req[r].has, "part", pend.by \cup {r}, pend.by # {})
    /\ refused' = IF pend.by = {} THEN refused ELSE refused \cup {"overlap"}
    /\ Goto(r, [at |-> "copying"])
    /\ UNCHANGED <<dbVars, files, boot, starts, excused>>

\* The last copy to end leaves its file, or pieces of both; a copy whose file
\* was unlinked or replaced ends in a file without a name.
CopyEnd(r) ==
    /\ At(r, "copying")
    /\ IF r \in pend.by
         THEN \E end \in {"whole", "part"} \cup (IF pend.mixed THEN {"mixed"} ELSE {}) :
                pend' = [pend EXCEPT !.by = @ \ {r},
                                     !.state = IF pend.by = {r} THEN end ELSE @]
         ELSE UNCHANGED pend
    /\ Goto(r, Idle)
    /\ UNCHANGED <<dbVars, files, boot, starts, history>>

\* stage_restore_from_bytes: what was uploaded is written to a private file
\* and validated there; a file that does not pass is gone without a trace.
Upload(r, n) ==
    /\ At(r, "idle") /\ Validates(files[n])
    /\ Goto(r, [at |-> "place", has |-> files[n].has])
    /\ UNCHANGED <<dbVars, dirVars, boot, starts, history>>

\* The rename replaces what is staged, or fails and changes nothing.
UploadPlace(r) ==
    /\ At(r, "place")
    /\ \/ pend' = Staged(req[r].has, "whole", {}, FALSE)
       \/ UNCHANGED pend
    /\ Goto(r, Idle)
    /\ UNCHANGED <<dbVars, files, boot, starts, history>>

CancelPending ==
    /\ boot = "up" /\ pend # NotStaged
    /\ pend' = NotStaged
    /\ UNCHANGED <<dbVars, files, req, boot, starts, history>>

-----------------------------------------------------------------------------
(* apply_pending_restore_at_startup.                                       *)

MutSteps == <<"validate", "checkpoint", "copy", "copying", "rename", "remove log", "open">>

\* The steps in their order, before init_db opens the database.
Steps == <<"validate", "checkpoint", "copy", "copying", "remove log", "rename", "open">>

Done(step) ==
    /\ boot = step
    /\ LET i == CHOOSE i \in 1..6 : Steps[i] = step IN boot' = Steps[i + 1]

\* An error ends the start's restore, never the start.
GiveUp(step) == boot = step /\ boot' = "open"

\* The copy of the start is complete, or cut short.
Settled(end) ==
    [n \in Names |-> IF files[n].state = "copying" THEN [files[n] EXCEPT !.state = end] ELSE files[n]]

\* The process ends: its files stay as they are, a copy under way stays cut.
\* An orderly end may have closed the database, which folds and deletes the log.
Halt ==
    /\ starts < MaxStarts
    /\ starts' = starts + 1 /\ boot' = "validate"
    /\ req' = [r \in Reqs |-> Idle]
    /\ pend' = [pend EXCEPT !.by = {}, !.mixed = FALSE]
    /\ files' = Settled("part")
    /\ \/ UNCHANGED <<main, wal>>
       \/ /\ boot = "up" /\ main.state = "sound"
          /\ main' = [main EXCEPT !.has = Live] /\ wal' = [wal EXCEPT !.has = {}]
    /\ UNCHANGED <<written, history>>

\* Nothing staged, a staged file that passes, or one that does not (or cannot
\* be read) and is deleted, when that can be done.
Validate ==
    \/ /\ pend = NotStaged /\ GiveUp("validate")
       /\ UNCHANGED <<dbVars, dirVars, req, starts, history>>
    \/ /\ pend # NotStaged /\ Validates(pend) /\ Done("validate")
       /\ UNCHANGED <<dbVars, dirVars, req, starts, history>>
    \/ /\ pend # NotStaged /\ GiveUp("validate")
       /\ pend' \in {pend, NotStaged}
       /\ UNCHANGED <<dbVars, files, req, starts, history>>

\* PRAGMA wal_checkpoint(TRUNCATE): done, folded without truncating, or
\* refused - which is let go.
Checkpoint ==
    /\ Done("checkpoint")
    /\ \/ /\ main' = [main EXCEPT !.has = Live]
          /\ wal' \in {wal, [wal EXCEPT !.has = {}]}
          /\ UNCHANGED history
       \/ /\ excused' = excused \cup (Live \ main.has)
          /\ UNCHANGED <<main, wal, refused>>
    /\ UNCHANGED <<written, dirVars, req, starts>>

\* The current database is copied to a name of its own ...
CopyBegin(n) ==
    /\ Done("copy") /\ files[n] = Absent
    /\ files' = [files EXCEPT ![n] = File("pre-restore", main.has, "copying")]
    /\ UNCHANGED <<dbVars, pend, req, starts, history>>

\* ... or the copy fails.
CopyDone ==
    /\ \/ /\ Done("copying")
          /\ files' = Settled("whole")
       \/ GiveUp("copying") /\ files' = Settled("part")
    /\ UNCHANGED <<dbVars, pend, req, starts, history>>

\* -wal and -shm: whether they could be removed is not looked at.
RemoveLog ==
    /\ Done("remove log")
    /\ \/ wal' = [wal EXCEPT !.has = {}] /\ UNCHANGED refused
       \/ UNCHANGED wal /\ refused' = IF wal.has = {} THEN refused ELSE refused \cup {"log kept"}
    /\ UNCHANGED <<main, written, dirVars, req, starts, excused>>

Rename ==
    /\ \/ /\ Done("rename") /\ main.gen < MaxRestores
          /\ main' = [has |-> pend.has, gen |-> main.gen + 1,
                      state |-> IF pend.state = "whole" THEN "sound" ELSE pend.state]
          /\ pend' = NotStaged
       \/ GiveUp("rename") /\ UNCHANGED <<main, pend>>
    /\ UNCHANGED <<wal, written, files, req, starts, history>>

\* init_db: SQLite replays whatever log lies next to the file.
Open ==
    /\ boot = "open" /\ boot' = "up"
    /\ main' = IF wal.has # {} /\ wal.gen # main.gen /\ main.state = "sound"
                 THEN [main EXCEPT !.state = "replayed"] ELSE main
    /\ UNCHANGED <<wal, written, dirVars, req, starts, history>>

-----------------------------------------------------------------------------
Next ==
    \/ Write \/ Fold \/ CancelPending \/ Halt
    \/ \E r \in Reqs :
         \/ \E n \in Names : CreatePick(r, n) \/ StageFile(r, n) \/ Upload(r, n)
         \/ VacuumInto(r) \/ VacuumEnd(r) \/ CopyOpen(r) \/ CopyEnd(r) \/ UploadPlace(r)
    \/ Validate \/ Checkpoint \/ CopyDone \/ RemoveLog \/ Rename \/ Open
    \/ \E n \in Names : CopyBegin(n)

Spec == Init /\ [][Next]_vars

-----------------------------------------------------------------------------
\* A restore loses nothing: whatever was ever committed is in the database or
\* in a complete copy the start made of it, wherever the start was cut short
\* and however often it began again - but for what a refused checkpoint kept
\* out of that copy (the checkpoint and the copy of
\* apply_pending_restore_at_startup).
CommittedSurvives ==
    \A w \in (1..written) \ excused :
        \/ w \in Live
        \/ \E n \in Names : files[n].kind = "pre-restore" /\ files[n].state = "whole"
                            /\ w \in files[n].has

\* The database that is opened is one file somebody staged, whole, and never
\* gets the log of the database it replaced - unless two stagings wrote over
\* each other, or removing the log was refused and the refusal let go
\* (stage_restore_from_file, the validation and the order of the start).
RestoredIsSound ==
    /\ main.state # "part"
    /\ main.state = "mixed" => "overlap" \in refused
    /\ main.state = "replayed" => "log kept" \in refused

\* Neither what was committed nor what is restored is damaged on the way.
RestoreIsSafe == CommittedSurvives /\ RestoredIsSound

\* "the current db (if any) is left untouched on error": while nothing has
\* been restored, the database holds everything committed to it.
UntouchedOnError == boot = "up" /\ main.gen = 0 => 1..written \subseteq Live
=============================================================================
