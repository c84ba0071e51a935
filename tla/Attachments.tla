---------------------------- MODULE Attachments ----------------------------
(***************************************************************************)
(* AttachmentsService: attachment rows in the database, their bodies and   *)
(* thumbnails as files named after the row's id, and no transaction over   *)
(* both.  Uploads, deletions (of one attachment or of all of a record) and *)
(* the import of an older directory run step by step next to each other; a *)
(* request may be dropped at any step, as when its connection closes or    *)
(* the process ends.  On SQLite the database may be replaced by a copy of  *)
(* an earlier moment while the files stay, and back again; the import      *)
(* exists on PostgreSQL only.                                              *)
(*                                                                         *)
(* The bytes of an upload are the number of the upload.                    *)
(***************************************************************************)
EXTENDS Naturals, FiniteSets

CONSTANTS
    Reqs,         \* requests, an import of a starting server among them
    MaxIds,        \* bound: ids handed out
    MaxUploads,   \* bound: uploads
    MaxSwaps,  \* bound: times the database is replaced
    MaxFaults     \* bound: dropped requests and failed operations

Ids == 1..MaxIds

VARIABLES
    backend,   \* "sqlite" or "postgres"
    rows,      \* attachments: by id, the content hashed in the row and has_thumbnail
    seq,       \* the last id handed out
    body, thumb,  \* {id} and {id}.thumb.jpg
    legacy,    \* what the older directory holds for an id
    copy,      \* rows and seq of the saved copy
    call,       \* where each request is and what it carries
    uploads, restores, faults,
    answered,  \* history: the contents answered as stored under this id
    removed    \* history: ids a deletion took a row of

fileVars == <<body, thumb>>
dbVars == <<rows, seq>>
worldVars == <<backend, legacy>>
counters == <<uploads, restores, faults>>
history == <<answered, removed>>
vars == <<worldVars, dbVars, fileVars, copy, call, counters, history>>

NoRow == [c |-> 0, thumb |-> FALSE]
NoFile == [c |-> 0, whole |-> FALSE]
Part(c) == [c |-> c, whole |-> FALSE]
Whole(c) == [c |-> c, whole |-> TRUE]
Idle == [at |-> "idle"]

\* The content an older directory of another database holds under an id.
Foreign == MaxUploads + 1

\* A new SQLite database, or a PostgreSQL one that uploaded attachment 1, with
\* its thumbnail, through a version that kept files elsewhere; the directory it
\* finds there may be its own or of another database.
Init ==
    /\ backend \in {"sqlite", "postgres"}
    /\ LET old == backend = "postgres" IN
         /\ rows = [i \in Ids |-> IF old /\ i = 1 THEN [c |-> 1, thumb |-> TRUE] ELSE NoRow]
         /\ seq = IF old THEN 1 ELSE 0
         /\ uploads = IF old THEN 1 ELSE 0
         /\ answered = [i \in Ids |-> IF old /\ i = 1 THEN {1} ELSE {}]
         /\ \E c \in IF old THEN {1, Foreign} ELSE {0} :
              legacy = [i \in Ids |-> IF i = 1 THEN c ELSE IF old THEN Foreign ELSE 0]
    /\ body = [i \in Ids |-> NoFile] /\ thumb = [i \in Ids |-> NoFile]
    /\ copy = [rows |-> [i \in Ids |-> NoRow], seq |-> 0]
    /\ call = [r \in Reqs |-> Idle]
    /\ restores = 0 /\ faults = 0 /\ removed = {}

Fault == faults < MaxFaults /\ faults' = faults + 1
NoFault == UNCHANGED faults
At(r, pc) == call[r].at = pc
Goto(r, s) == call' = [call EXCEPT ![r] = s]

-----------------------------------------------------------------------------
(* upload                                                                  *)

\* The row comes first: it hands out the id.
Insert(r, image) ==
    /\ At(r, "idle") /\ seq < MaxIds /\ uploads < MaxUploads
    /\ seq' = seq + 1 /\ uploads' = uploads + 1
    /\ rows' = [rows EXCEPT ![seq + 1] = [c |-> uploads + 1, thumb |-> FALSE]]
    /\ Goto(r, [at |-> "create", id |-> seq + 1, c |-> uploads + 1, image |-> image])
    /\ UNCHANGED <<worldVars, fileVars, copy, restores, faults, history>>

MutMayCreate(i) == TRUE

\* create_new: the body is never written over a file that is there.
MayCreate(i) == body[i] = NoFile

CreateBody(r) ==
    /\ At(r, "create")
    /\ LET s == call[r] IN
         \/ /\ MayCreate(s.id) /\ NoFault
            /\ body' = [body EXCEPT ![s.id] = Part(s.c)]
            /\ Goto(r, [s EXCEPT !.at = "write"])
         \/ /\ IF MayCreate(s.id) THEN Fault ELSE NoFault
            /\ Goto(r, [s EXCEPT !.at = "undo"]) /\ UNCHANGED body
    /\ UNCHANGED <<worldVars, dbVars, thumb, copy, uploads, restores, history>>

\* A failed write removes its own file, when that can be done.
WriteBody(r) ==
    /\ At(r, "write")
    /\ LET s == call[r] IN
         \/ /\ NoFault /\ body' = [body EXCEPT ![s.id] = Whole(s.c)]
            /\ Goto(r, [s EXCEPT !.at = IF s.image THEN "thumb" ELSE "answer"])
         \/ /\ Fault /\ \E left \in {NoFile, body[s.id]} : body' = [body EXCEPT ![s.id] = left]
            /\ Goto(r, [s EXCEPT !.at = "undo"])
    /\ UNCHANGED <<worldVars, dbVars, thumb, copy, uploads, restores, history>>

\* The row of a body that could not be written is deleted, at best.
Undo(r) ==
    /\ At(r, "undo")
    /\ \/ NoFault /\ rows' = [rows EXCEPT ![call[r].id] = NoRow]
       \/ Fault /\ UNCHANGED rows
    /\ Goto(r, Idle)
    /\ UNCHANGED <<worldVars, seq, fileVars, copy, uploads, restores, history>>

\* make_thumbnail and write_thumbnail; a failure of either is no failure of
\* the upload, and may leave a piece of the file.
WriteThumbnail(r) ==
    /\ At(r, "thumb")
    /\ LET s == call[r] IN
         \/ /\ NoFault /\ thumb' = [thumb EXCEPT ![s.id] = Whole(s.c)]
            /\ Goto(r, [s EXCEPT !.at = "flag"])
         \/ /\ Fault /\ thumb' \in {thumb, [thumb EXCEPT ![s.id] = Part(s.c)]}
            /\ Goto(r, [s EXCEPT !.at = "answer"])
    /\ UNCHANGED <<worldVars, dbVars, body, copy, uploads, restores, history>>

\* The UPDATE (of no row, if it was deleted meanwhile); when it fails the
\* thumbnail goes, at best.
FlagThumbnail(r) ==
    /\ At(r, "flag")
    /\ LET s == call[r] IN
         /\ \/ /\ NoFault /\ rows' = [rows EXCEPT ![s.id].thumb = @ \/ rows[s.id] # NoRow]
               /\ UNCHANGED thumb
            \/ /\ Fault
               /\ \E left \in {NoFile, thumb[s.id]} : thumb' = [thumb EXCEPT ![s.id] = left]
               /\ UNCHANGED rows
         /\ Goto(r, [s EXCEPT !.at = "answer"])
    /\ UNCHANGED <<worldVars, seq, body, copy, uploads, restores, history>>

Answer(r) ==
    /\ At(r, "answer")
    /\ answered' = [answered EXCEPT ![call[r].id] = @ \cup {call[r].c}]
    /\ Goto(r, Idle)
    /\ UNCHANGED <<worldVars, dbVars, fileVars, copy, counters, removed>>

-----------------------------------------------------------------------------
(* delete and delete_for_record                                            *)

\* One attachment, or the ids a record had when they were listed.
Delete(r, ids) ==
    /\ At(r, "idle") /\ ids # {}
    /\ Goto(r, [at |-> "next", ids |-> ids])
    /\ UNCHANGED <<worldVars, dbVars, fileVars, copy, counters, history>>

\* get: an id without a row is skipped.
DeleteGet(r, i) ==
    /\ At(r, "next") /\ i \in call[r].ids
    /\ LET rest == call[r].ids \ {i} IN
         IF rows[i] = NoRow
           THEN Goto(r, IF rest = {} THEN Idle ELSE [at |-> "next", ids |-> rest])
           ELSE Goto(r, [at |-> "row", ids |-> rest, id |-> i, thumb |-> rows[i].thumb])
    /\ UNCHANGED <<worldVars, dbVars, fileVars, copy, counters, history>>

Continue(r) ==
    Goto(r, IF call[r].ids = {} THEN Idle ELSE [at |-> "next", ids |-> call[r].ids])

\* The row goes first; whoever deletes no row removes no file.
DeleteRow(r) ==
    /\ At(r, "row")
    /\ IF rows[call[r].id] = NoRow
         THEN Continue(r) /\ UNCHANGED <<rows, removed>>
         ELSE /\ rows' = [rows EXCEPT ![call[r].id] = NoRow]
              /\ removed' = removed \cup {call[r].id}
              /\ Goto(r, [call[r] EXCEPT !.at = "body"])
    /\ UNCHANGED <<worldVars, seq, fileVars, copy, counters, answered>>

DeleteBody(r) ==
    /\ At(r, "body")
    /\ \/ NoFault /\ body' = [body EXCEPT ![call[r].id] = NoFile]
       \/ Fault /\ UNCHANGED body
    /\ IF call[r].thumb THEN Goto(r, [call[r] EXCEPT !.at = "rest"]) ELSE Continue(r)
    /\ UNCHANGED <<worldVars, dbVars, thumb, copy, uploads, restores, history>>

DeleteThumbnail(r) ==
    /\ At(r, "rest")
    /\ \/ NoFault /\ thumb' = [thumb EXCEPT ![call[r].id] = NoFile]
       \/ Fault /\ UNCHANGED thumb
    /\ Continue(r)
    /\ UNCHANGED <<worldVars, dbVars, body, copy, uploads, restores, history>>

-----------------------------------------------------------------------------
(* import_legacy_files                                                     *)

ImportStart(r) ==
    /\ backend = "postgres" /\ At(r, "idle")
    /\ \E i \in Ids : rows[i] # NoRow
    /\ Goto(r, [at |-> "import", rows |-> rows, ids |-> {i \in Ids : rows[i] # NoRow}])
    /\ UNCHANGED <<worldVars, dbVars, fileVars, copy, counters, history>>

Verified(i, c) == legacy[i] = c

\* What is in place is compared with the row; what is not is copied only
\* when its hash is the row's.
ImportCheck(r, i) ==
    /\ At(r, "import") /\ i \in call[r].ids
    /\ LET s == [call[r] EXCEPT !.ids = @ \ {i}]
           c == s.rows[i].c
           then == [at |-> "place", rows |-> s.rows, ids |-> s.ids, id |-> i, kind |-> "body"]
       IN Goto(r, IF body[i] = NoFile /\ Verified(i, c) THEN then
                  ELSE IF body[i] = Whole(c) /\ s.rows[i].thumb /\ thumb[i] = NoFile
                         THEN [then EXCEPT !.kind = "thumb"]
                  ELSE IF s.ids = {} THEN Idle ELSE s)
    /\ UNCHANGED <<worldVars, dbVars, fileVars, copy, counters, history>>

\* The temporary file is linked to its name, which never replaces a file.
\* The thumbnail follows the body, and is the one next to it.
ImportPlace(r) ==
    /\ At(r, "place")
    /\ LET s == call[r]
           i == s.id
           c == s.rows[i].c
           then == IF s.ids = {} THEN Idle ELSE [at |-> "import", rows |-> s.rows, ids |-> s.ids]
       IN \/ /\ s.kind = "body" /\ NoFault
             /\ body' = [body EXCEPT ![i] = IF @ = NoFile THEN Whole(legacy[i]) ELSE @]
             /\ Goto(r, IF body'[i] = Whole(c) /\ s.rows[i].thumb
                          THEN [s EXCEPT !.kind = "thumb"] ELSE then)
             /\ UNCHANGED thumb
          \/ /\ s.kind = "thumb" /\ NoFault
             /\ thumb' = [thumb EXCEPT ![i] = IF @ = NoFile THEN Whole(legacy[i]) ELSE @]
             /\ Goto(r, then) /\ UNCHANGED body
          \/ Fault /\ Goto(r, then) /\ UNCHANGED fileVars
    /\ UNCHANGED <<worldVars, dbVars, copy, uploads, restores, history>>

-----------------------------------------------------------------------------
(* The world around it.                                                    *)

Drop(r) ==
    /\ ~At(r, "idle") /\ Fault /\ Goto(r, Idle)
    /\ UNCHANGED <<worldVars, dbVars, fileVars, copy, uploads, restores, history>>

\* A backup.
SaveCopy ==
    /\ backend = "sqlite" /\ restores = 0 /\ copy # [rows |-> rows, seq |-> seq]
    /\ copy' = [rows |-> rows, seq |-> seq]
    /\ UNCHANGED <<worldVars, dbVars, fileVars, call, counters, history>>

\* A start that applies a staged restore: the saved copy and the database
\* change places, the files stay.
Restore ==
    /\ backend = "sqlite" /\ restores < MaxSwaps
    /\ restores' = restores + 1
    /\ rows' = copy.rows /\ seq' = copy.seq
    /\ copy' = [rows |-> rows, seq |-> seq]
    /\ call' = [r \in Reqs |-> Idle]
    /\ UNCHANGED <<worldVars, fileVars, uploads, faults, history>>

Next ==
    \/ \E r \in Reqs :
         \/ \E image \in BOOLEAN : Insert(r, image)
         \/ CreateBody(r) \/ WriteBody(r) \/ Undo(r)
         \/ WriteThumbnail(r) \/ FlagThumbnail(r) \/ Answer(r)
         \/ \E i \in Ids : Delete(r, {i}) \/ DeleteGet(r, i) \/ ImportCheck(r, i)
         \/ Delete(r, {i \in Ids : rows[i] # NoRow})
         \/ DeleteRow(r) \/ DeleteBody(r) \/ DeleteThumbnail(r)
         \/ ImportStart(r) \/ ImportPlace(r) \/ Drop(r)
    \/ SaveCopy \/ Restore

Spec == Init /\ [][Next]_vars

-----------------------------------------------------------------------------
\* An attachment whose upload was answered keeps its bytes, and shows no
\* thumbnail but its own, until it is deleted: no upload, no deletion of
\* another, no import and no restore to and fro puts other bytes under its id
\* or takes them away.  One of the older directory may still be missing.
AttachmentKeepsItsBody ==
    \A i \in Ids \ removed :
        LET c == rows[i].c IN
        c \in answered[i] =>
            /\ \/ body[i] = Whole(c)
               \/ backend = "postgres" /\ i = 1 /\ body[i] = NoFile
            /\ rows[i].thumb /\ thumb[i] # NoFile => thumb[i] = Whole(c)
=============================================================================
