----------------------------- MODULE MCStorage -----------------------------
(***************************************************************************)
(* BackupRestore, Attachments, UserAccounts, AuditedWrites, Placement and  *)
(* ListQuery for TLC.  They share no variable, so one run explores each of *)
(* them by itself: a behaviour is of one part, and the variables of the    *)
(* other parts are never looked at.  The last two judge one case and take  *)
(* no step.                                                                *)
(***************************************************************************)
EXTENDS UserAccounts, Sequences, TLC

CONSTANTS
    Parts,  \* the parts a run explores
    Reqs, MaxWrites, MaxRestores, MaxStarts,
    MaxIds, MaxUploads, MaxSwaps, MaxFaults,
    Accounts, MaxChanges,
    Trusted, CreatorOwner, Sids, Drives, HelperName, MainName, WriteRights, None,
    Null

VARIABLES
    part,
    main, wal, files, pend, req, boot, written, starts, excused, refused,
    backend, rows, seq, body, thumb, legacy, copy, call, uploads, restores, faults,
    answered, removed,
    accounts, session, request, trail, warranted, changes,
    disk, exe,
    table, sort, filters, text, needle

-----------------------------------------------------------------------------
\* The list requests: three rows whose values tie and are missing in every way,
\* under one or two keys, known and unknown, and filters of both kinds.
Row(id, grp, score) == [id |-> id, grp |-> grp, score |-> score]
ATables ==
    {<<Row(2, 0, a), Row(1, g, b), Row(3, h, c)>> : g, h \in {0, 1}, a, b, c \in {0, 1, Null}}
Entries == [field : {"id", "grp", "score", "removed"}, direction : {"asc", "desc"}]
ASorts == {<<>>} \cup {<<e>> : e \in Entries}
            \cup {<<e, f>> : e \in {e \in Entries : e.field # "id"}, f \in Entries}
Filter(field, op, value) == [field |-> field, op |-> op, value |-> value]
AFilters == {<<>>, <<Filter("score", "ne", 0)>>,
             <<Filter("score", "in", {0, 1}), Filter("grp", "gte", 1)>>,
             <<Filter("removed", "eq", 0)>>}
Chars == {"a", "%", "_", "\\"}
Strings(n) == UNION {[1 .. m -> Chars] : m \in 0 .. n}
ATexts == Strings(3)
ANeedles == Strings(2)

-----------------------------------------------------------------------------
B == INSTANCE BackupRestore
A == INSTANCE Attachments
W == INSTANCE AuditedWrites WITH Users <- Accounts, Requests <- {"request"}, Slot <- "slot",
                                 Grant <- "grant", Nobody <- "nobody"
\* Bounds that bound, accounts that are none of the names used for no
\* account, and a missing value that is no number.
ASSUME AttachmentBounds == MaxIds \in Nat /\ MaxUploads \in Nat \ {0}
ASSUME WritesConstants == Accounts \cap {"slot", "grant", "nobody"} = {}
ASSUME NoneIsNoSid == None \notin Trusted
ASSUME NullIsNoNumber == Null \notin Nat

P == INSTANCE Placement
C == INSTANCE PlacementCases WITH Administrators <- "admins", Everyone <- "everyone"
L == INSTANCE ListQuery WITH Tables <- ATables, Sorts <- ASorts, Filters <- AFilters,
                            Texts <- ATexts, Needles <- ANeedles

backupVars == <<main, wal, files, pend, req, boot, written, starts, excused, refused>>
attachmentVars ==
    <<backend, rows, seq, body, thumb, legacy, copy, call, uploads, restores, faults,
      answered, removed>>
writeVars == <<accounts, session, request, trail, warranted, changes>>
caseVars == <<disk, exe, table, sort, filters, text, needle>>

noBackup ==
    /\ main = 0 /\ wal = 0 /\ files = 0 /\ pend = 0 /\ req = 0 /\ boot = 0
    /\ written = 0 /\ starts = 0 /\ excused = 0 /\ refused = 0
noAttachments ==
    /\ backend = 0 /\ rows = 0 /\ seq = 0 /\ body = 0 /\ thumb = 0 /\ legacy = 0
    /\ copy = 0 /\ call = 0 /\ uploads = 0 /\ restores = 0 /\ faults = 0
    /\ answered = 0 /\ removed = 0
noWrites ==
    /\ accounts = 0 /\ session = 0 /\ request = 0 /\ trail = 0 /\ warranted = 0 /\ changes = 0
noPlacement == disk = 0 /\ exe = 0
noList == table = 0 /\ sort = 0 /\ filters = 0 /\ text = 0 /\ needle = 0

PartsInit ==
    /\ part \in Parts
    /\ IF part = "backup" THEN B!Init ELSE noBackup
    /\ IF part = "attachments" THEN A!Init ELSE noAttachments
    /\ Init
    /\ IF part = "writes" THEN W!Init ELSE noWrites
    /\ IF part = "placement" THEN exe \in C!Started /\ disk \in C!Disks ELSE noPlacement
    /\ IF part = "list" THEN L!Init ELSE noList

PartsNext ==
    \/ /\ part = "backup" /\ B!Next
       /\ UNCHANGED <<part, attachmentVars, vars, writeVars, caseVars>>
    \/ /\ part = "attachments" /\ A!Next
       /\ UNCHANGED <<part, backupVars, vars, writeVars, caseVars>>
    \/ /\ part = "users" /\ Next
       /\ UNCHANGED <<part, backupVars, attachmentVars, writeVars, caseVars>>
    \/ /\ part = "writes" /\ W!Next
       /\ UNCHANGED <<part, backupVars, attachmentVars, vars, caseVars>>

PartsSpec == PartsInit /\ [][PartsNext]_<<part, backupVars, attachmentVars, vars, writeVars, caseVars>>

\* BackupRestore!RestoreIsSafe
RestoreIsSafe == part = "backup" => B!RestoreIsSafe

\* BackupRestore!UntouchedOnError
UntouchedOnError == part = "backup" => B!UntouchedOnError

\* Attachments!AttachmentKeepsItsBody
AttachmentKeepsItsBody == part = "attachments" => A!AttachmentKeepsItsBody

\* AuditedWrites!WritesAreWarranted
WritesAreWarranted == part = "writes" => W!WritesAreWarranted

\* AuditedWrites!TrailIsTrue
TrailIsTrue == part = "writes" => W!TrailIsTrue

\* Placement!PlacementIsSound
PlacementIsSound == part = "placement" => P!PlacementIsSound

\* ListQuery!ListIsFaithful
ListIsFaithful == part = "list" => L!ListIsFaithful

Symmetry == Permutations(Reqs) \cup Permutations(Names) \cup Permutations(Accounts)
=============================================================================
