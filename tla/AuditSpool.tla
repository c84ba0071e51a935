----------------------------- MODULE AuditSpool -----------------------------
(***************************************************************************)
(* The audit log's spool: AuditLogService::record with a spool, its        *)
(* detached INSERT that may land after `record` stopped waiting for it,    *)
(* the spool files of several processes that share one directory, the      *)
(* flush that writes them into audit_log, the in-memory index that answers *)
(* the backlog and the cap, the retention prune, and crashes between any   *)
(* two steps.                                                              *)
(*                                                                         *)
(* An entry stands for its pending_id; entries are numbered in the order   *)
(* of their ts, the order a flush takes.                                   *)
(***************************************************************************)
EXTENDS Naturals, FiniteSets

CONSTANTS
    Procs,       \* processes that share the spool directory
    MaxEntries,  \* bound: audit entries
    MaxFiles,    \* SpoolConfig::max_files
    MaxCrashes   \* bound: crashes

ASSUME BoundsAreNat == {MaxEntries, MaxFiles, MaxCrashes} \subseteq Nat

Entries == 1..MaxEntries

VARIABLES
    rows,     \* audit_log: how many rows carry the pending_id
    pruned,   \* entries whose row the retention prune deleted
    flying,   \* entries with an INSERT at the database that may still commit
    answer,   \* what the task of record's INSERT has answered
    rec,      \* where the record call of an entry is
    writer,   \* the process (since its last start) that records it
    lost,     \* entries counted as dropped or failed
    files,    \* <pending_id>.json in the spool directory
    tmps,     \* <pending_id>.json.tmp
    index, writing,   \* SpoolState of each process
    flush,    \* where the flush of a process is
    queue,    \* the scanned entries it has not dealt with
    known,    \* the ids reconcile is checking
    up, crashes

table == <<rows, pruned>>
inserts == <<flying, answer>>
records == <<rec, writer, lost>>
dir == <<files, tmps>>
state == <<index, writing>>
flushVars == <<flush, queue, known>>
world == <<up, crashes>>
vars == <<table, inserts, records, dir, state, flushVars, world>>

NoProc == 0
ASSUME ProcsAreNotZero == NoProc \notin Procs

\* The processes are up, over a directory that is empty.
Init ==
    /\ rows = [e \in Entries |-> 0] /\ pruned = {}
    /\ flying = {} /\ answer = [e \in Entries |-> "none"]
    /\ rec = [e \in Entries |-> "new"] /\ writer = [e \in Entries |-> NoProc] /\ lost = {}
    /\ files = {} /\ tmps = {}
    /\ index = [p \in Procs |-> {}] /\ writing = [p \in Procs |-> {}]
    /\ flush = [p \in Procs |-> "idle"]
    /\ queue = [p \in Procs |-> {}] /\ known = [p \in Procs |-> {}]
    /\ up = [p \in Procs |-> TRUE] /\ crashes = 0

-----------------------------------------------------------------------------
\* INSERT ... ON CONFLICT (pending_id) DO NOTHING.
Put(e) == rows' = IF rows[e] > 0 THEN rows ELSE [rows EXCEPT ![e] = 1]

\* An INSERT nobody may be waiting for commits.  The answer may be the
\* success, an error (the connection broke after the commit), or late.
Land(e) ==
    /\ e \in flying
    /\ Put(e)
    /\ flying' = flying \ {e}
    /\ \E a \in IF rec[e] = "wait" THEN {"none", "ok", "failed"} ELSE {answer[e]} :
         answer' = [answer EXCEPT ![e] = a]
    /\ UNCHANGED <<pruned, records, dir, state, flushVars, world>>

Refuse(e) ==
    /\ e \in flying
    /\ flying' = flying \ {e}
    /\ answer' = [answer EXCEPT ![e] = IF rec[e] = "wait" THEN "failed" ELSE @]
    /\ UNCHANGED <<table, records, dir, state, flushVars, world>>

\* The retention prune deletes a row (each entry's at most once).
Prune(e) ==
    /\ rows[e] > 0 /\ e \notin pruned
    /\ rows' = [rows EXCEPT ![e] = 0]
    /\ pruned' = pruned \cup {e}
    /\ UNCHANGED <<inserts, records, dir, state, flushVars, world>>

-----------------------------------------------------------------------------
(* record_spooled and Spool::write.                                        *)

Goto(e, l) == rec' = [rec EXCEPT ![e] = l]

\* Entries are recorded in the order of their ts.
Record(p, e) ==
    /\ up[p] /\ rec[e] = "new" /\ \A d \in Entries : d < e => rec[d] # "new"
    /\ writer' = [writer EXCEPT ![e] = p]
    /\ flying' = flying \cup {e}
    /\ Goto(e, "wait")
    /\ UNCHANGED <<table, answer, lost, dir, state, flushVars, world>>

\* The JoinHandle is dropped.
Hang(e) == answer' = [answer EXCEPT ![e] = "none"]

Recorded(e) ==
    /\ rec[e] = "wait" /\ answer[e] = "ok"
    /\ Goto(e, "done") /\ Hang(e)
    /\ UNCHANGED <<table, flying, writer, lost, dir, state, flushVars, world>>

Full(p) == Cardinality(index[p]) >= MaxFiles

Reserve(p, e) ==
    /\ index' = [index EXCEPT ![p] = @ \cup {e}]
    /\ writing' = [writing EXCEPT ![p] = @ \cup {e}]

\* An error, or no answer within the timeout.
Spool(p, e) ==
    /\ writer[e] = p /\ rec[e] = "wait" /\ answer[e] # "ok"
    /\ Hang(e)
    /\ IF Full(p)
       THEN Goto(e, "done") /\ lost' = lost \cup {e} /\ UNCHANGED state
       ELSE Goto(e, "create") /\ UNCHANGED lost /\ Reserve(p, e)
    /\ UNCHANGED <<table, flying, writer, dir, flushVars, world>>

CreateTmp(e) ==
    /\ rec[e] = "create"
    /\ \/ Goto(e, "rename") /\ tmps' = tmps \cup {e}
       \/ Goto(e, "failed") /\ UNCHANGED tmps
    /\ UNCHANGED <<table, inserts, writer, lost, files, state, flushVars, world>>

\* The rename fails if a flush took the .tmp for a leftover.
Rename(e) ==
    /\ rec[e] = "rename"
    /\ tmps' = tmps \ {e}
    /\ \/ e \in tmps /\ files' = files \cup {e} /\ Goto(e, "written")
       \/ UNCHANGED files /\ Goto(e, "failed")
    /\ UNCHANGED <<table, inserts, writer, lost, state, flushVars, world>>

\* The file is there, or the write has failed: the entry is not being written.
Settled(p, e) ==
    /\ writer[e] = p /\ rec[e] \in {"written", "failed"}
    /\ writing' = [writing EXCEPT ![p] = @ \ {e}]
    /\ Goto(e, IF rec[e] = "written" THEN "done" ELSE "forget")
    /\ UNCHANGED <<table, inserts, writer, lost, dir, index, flushVars, world>>

WriteFailed(p, e) ==
    /\ writer[e] = p /\ rec[e] = "forget"
    /\ index' = [index EXCEPT ![p] = @ \ {e}]
    /\ lost' = lost \cup {e}
    /\ Goto(e, "done")
    /\ UNCHANGED <<table, inserts, writer, dir, writing, flushVars, world>>

-----------------------------------------------------------------------------
(* flush_spool and its periodic and opportunistic triggers.                *)

FlushAt(p, l) == flush' = [flush EXCEPT ![p] = l]
After(rest) == IF rest = {} THEN "reconcile" ELSE "next"

\* Mutant: a process with no backlog of its own does not look.
MutMayFlush(p) == flush[p] = "idle" /\ index[p] # {}
MayFlush(p) == flush[p] = "idle"

\* scan_dir: any file may be unreadable just now, or gone again; a .tmp older
\* than STALE_TMP_AGE is removed, a writer as slow as that or not.
Scan(p, found, stale) ==
    /\ up[p] /\ MayFlush(p)
    /\ queue' = [queue EXCEPT ![p] = found]
    /\ tmps' = tmps \ stale
    /\ FlushAt(p, "scanned")
    /\ UNCHANGED <<table, inserts, records, files, state, known, world>>

ScanAny(p) == \E found \in SUBSET files, stale \in SUBSET tmps : Scan(p, found, stale)

Index(p) ==
    /\ flush[p] = "scanned"
    /\ index' = [index EXCEPT ![p] = @ \cup queue[p]]
    /\ FlushAt(p, After(queue[p]))
    /\ UNCHANGED <<table, inserts, records, dir, writing, queue, known, world>>

Oldest(p, e) == e \in queue[p] /\ \A d \in queue[p] : e <= d

FlushInsert(p, e) ==
    /\ flush[p] = "next" /\ Oldest(p, e)
    /\ Put(e)
    /\ FlushAt(p, "remove")
    /\ UNCHANGED <<pruned, inserts, records, dir, state, queue, known, world>>

\* An error or a timeout stops the flush; the INSERT may still commit.
\* Mutant: it is taken for done.
MutFlushFail(p, e) ==
    /\ flush[p] = "next" /\ Oldest(p, e)
    /\ FlushAt(p, "remove")
    /\ \/ UNCHANGED flying
       \/ flying' = flying \cup {e}
    /\ UNCHANGED <<table, answer, records, dir, state, queue, known, world>>

FlushFail(p, e) ==
    /\ flush[p] = "next" /\ Oldest(p, e)
    /\ FlushAt(p, "reconcile")
    /\ queue' = [queue EXCEPT ![p] = {}]
    /\ \/ UNCHANGED flying
       \/ flying' = flying \cup {e}
    /\ UNCHANGED <<table, answer, records, dir, state, known, world>>

\* The file is removed (another process may have done so) and the entry
\* forgotten, or the file cannot be removed and both stay.
Remove(p, e) ==
    /\ flush[p] = "remove" /\ Oldest(p, e)
    /\ queue' = [queue EXCEPT ![p] = @ \ {e}]
    /\ FlushAt(p, After(queue[p] \ {e}))
    /\ \/ files' = files \ {e} /\ index' = [index EXCEPT ![p] = @ \ {e}]
       \/ e \in files /\ UNCHANGED <<files, index>>
    /\ UNCHANGED <<table, inserts, records, tmps, writing, known, world>>

\* Mutant: entries being written are checked like the others.
MutSettledIds(p) == index[p]
SettledIds(p) == index[p] \ writing[p]

ReconcileIds(p) ==
    /\ flush[p] = "reconcile"
    /\ known' = [known EXCEPT ![p] = SettledIds(p)]
    /\ FlushAt(p, "forget")
    /\ UNCHANGED <<table, inserts, records, dir, state, queue, world>>

ReconcileForget(p) ==
    /\ flush[p] = "forget"
    /\ index' = [index EXCEPT ![p] = @ \ (known[p] \ files)]
    /\ known' = [known EXCEPT ![p] = {}]
    /\ FlushAt(p, "idle")
    /\ UNCHANGED <<table, inserts, records, dir, writing, queue, world>>

-----------------------------------------------------------------------------
Busy == {"wait", "create", "rename", "written", "failed", "forget"}

\* Record calls are cut, their INSERTs may be at the database; what is on the
\* disk stays.
Crash(p) ==
    /\ up[p] /\ crashes < MaxCrashes
    /\ crashes' = crashes + 1
    /\ up' = [up EXCEPT ![p] = FALSE]
    /\ rec' = [e \in Entries |->
         IF writer[e] = p /\ rec[e] \in Busy THEN "cut" ELSE rec[e]]
    /\ answer' = [e \in Entries |-> IF writer[e] = p THEN "none" ELSE answer[e]]
    /\ writer' = [e \in Entries |-> IF writer[e] = p THEN NoProc ELSE writer[e]]
    /\ index' = [index EXCEPT ![p] = {}] /\ writing' = [writing EXCEPT ![p] = {}]
    /\ flush' = [flush EXCEPT ![p] = "idle"]
    /\ queue' = [queue EXCEPT ![p] = {}] /\ known' = [known EXCEPT ![p] = {}]
    /\ UNCHANGED <<table, flying, lost, dir>>

\* Spool::open loads the entries waiting in the directory.
Open(p) ==
    /\ ~up[p]
    /\ up' = [up EXCEPT ![p] = TRUE]
    /\ \E found \in SUBSET files : index' = [index EXCEPT ![p] = found]
    /\ UNCHANGED <<table, inserts, records, dir, writing, flushVars, crashes>>

-----------------------------------------------------------------------------
Database == \E e \in Entries : Land(e) \/ Refuse(e) \/ Prune(e)

RecordStep(e) ==
    \/ Recorded(e) \/ CreateTmp(e) \/ Rename(e)
    \/ \E p \in Procs : Record(p, e) \/ Spool(p, e) \/ Settled(p, e) \/ WriteFailed(p, e)

FlushStep(p) ==
    \/ ScanAny(p) \/ Index(p) \/ ReconcileIds(p) \/ ReconcileForget(p)
    \/ \E e \in Entries : FlushInsert(p, e) \/ FlushFail(p, e) \/ Remove(p, e)

Next ==
    \/ Database
    \/ \E e \in Entries : RecordStep(e)
    \/ \E p \in Procs : FlushStep(p) \/ Crash(p) \/ Open(p)

Spec == Init /\ [][Next]_vars

\* A flush of a running process goes on and is started again and again by the
\* periodic task; a file is not locked, and the database not out of order,
\* for ever.  Nothing is assumed of crashed processes.
Fairness ==
    \A p \in Procs :
        /\ WF_vars(Index(p))
        /\ WF_vars(ReconcileIds(p)) /\ WF_vars(ReconcileForget(p))
        /\ SF_vars(Scan(p, files, {}))
        /\ \A e \in Entries : SF_vars(FlushInsert(p, e)) /\ WF_vars(Remove(p, e))

FairSpec == Spec /\ Fairness

-----------------------------------------------------------------------------
Phases == {"new", "done", "cut"} \cup Busy
FlushPhases == {"idle", "scanned", "next", "remove", "reconcile", "forget"}

\* The shapes of the table, the directory, the index of each process and the
\* locals of each call.
TypeOK ==
    /\ rows \in [Entries -> Nat] /\ pruned \subseteq Entries
    /\ flying \subseteq Entries
    /\ answer \in [Entries -> {"none", "ok", "failed"}]
    /\ rec \in [Entries -> Phases] /\ writer \in [Entries -> Procs \cup {NoProc}]
    /\ lost \subseteq Entries /\ files \subseteq Entries /\ tmps \subseteq Entries
    /\ index \in [Procs -> SUBSET Entries] /\ writing \in [Procs -> SUBSET Entries]
    /\ flush \in [Procs -> FlushPhases]
    /\ queue \in [Procs -> SUBSET Entries] /\ known \in [Procs -> SUBSET Entries]
    /\ up \in [Procs -> BOOLEAN] /\ crashes \in Nat

\* However late an INSERT lands and however many processes flush the same
\* file, an entry is never twice in the log; and one whose record call returned
\* is in the log, or in a spool file, or was counted as lost, or was in the log
\* until the prune deleted it: no timeout, crash, failed flush or second process
\* loses one silently.
LoggedOnce ==
    \A e \in Entries :
        /\ rows[e] <= 1
        /\ rec[e] = "done" => rows[e] > 0 \/ e \in files \cup lost \cup pruned

\* A file a running process has spooled stays in its index until some flush
\* has removed it, so the backlog it reports misses none; and however many of
\* its record calls spool at once, the files it has spooled and is writing keep
\* to max_files.
CapHolds ==
    \A p \in Procs :
        LET mine == {e \in Entries : writer[e] = p}
        IN /\ mine \cap files \subseteq index[p]
           /\ Cardinality({e \in mine : e \in files \/ rec[e] = "rename"}) <= MaxFiles

\* A spooled entry reaches the log as long as one process runs: whoever
\* spooled it, even a process that has exited and never comes back.
SpooledIsLogged ==
    \A e \in Entries :
        (e \in files /\ \E p \in Procs : up[p])
            ~> (e \in pruned \/ rows[e] > 0 \/ \A p \in Procs : ~up[p])

=============================================================================
