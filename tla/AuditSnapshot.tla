--------------------------- MODULE AuditSnapshot ----------------------------
(***************************************************************************)
(* The audit log read block by block (SnapshotListResource) while rows are *)
(* added, commit late and are pruned (AuditLogService::list_as_of, prune). *)
(*                                                                         *)
(* An answer is represented by the set of rows it was cut from: its rows   *)
(* are a slice of that set and its count is the size of it. The code       *)
(* compares counts, never sets.                                            *)
(***************************************************************************)
EXTENDS Naturals, FiniteSets, FiniteSetsExt

CONSTANTS
    MaxId,      \* bound: rows ever written
    Queries,    \* each the set of ids its filters match
    BlockSize,
    LastBlock,  \* bound: the last block the page can show
    MaxEpoch,   \* bound: prunes
    MaxGens,    \* bound: setParams and refresh
    MaxFaults   \* bound: requests that fail or time out

ASSUME BoundsAreNat == {MaxId, LastBlock} \subseteq Nat

ASSUME BlockIsNotEmpty == BlockSize \in Nat \ {0}

Ids == 1..MaxId
Blocks == 0..LastBlock
Hole == {0}
NoSnapshot == [fixed |-> FALSE, asOf |-> 0, set |-> {}, epoch |-> 0]

VARIABLES
    rows,     \* committed rows
    open,     \* rows with an id, not committed yet
    lastId, epoch,
    query,    \* of the resource
    range,    \* the visible blocks
    snapshot, loaded, failures,  \* of the current generation
    calls,    \* requests: the ones in flight are `mine`, late ones are not
    shown,    \* the set the rows on the screen were read from
    view,     \* block -> the ids on the screen, or Hole
    gens, faults

logVars == <<rows, open, lastId, epoch>>
readVars == <<snapshot, loaded, failures>>
screenVars == <<shown, view>>
vars == <<logVars, query, range, readVars, calls, screenVars, gens, faults>>

Slice(S, b) == {i \in S : Cardinality({j \in S : j > i}) \div BlockSize = b}

Init ==
    /\ rows = {} /\ open = {} /\ lastId = 0 /\ epoch = 0
    /\ query \in Queries /\ range = {}
    /\ snapshot = NoSnapshot /\ loaded = {} /\ failures = [b \in Blocks |-> "none"]
    /\ calls = {}
    /\ shown = {} /\ view = [b \in Blocks |-> Hole]
    /\ gens = 0 /\ faults = 0

-----------------------------------------------------------------------------
(* The log.                                                                *)

\* An id is allocated; on PostgreSQL its row may commit after higher ones.
Allocate ==
    /\ lastId < MaxId
    /\ lastId' = lastId + 1 /\ open' = open \cup {lastId + 1}
    /\ UNCHANGED <<rows, epoch, query, range, readVars, calls, screenVars, gens, faults>>

Commit(i) ==
    /\ i \in open
    /\ open' = open \ {i} /\ rows' = rows \cup {i}
    /\ UNCHANGED <<lastId, epoch, query, range, readVars, calls, screenVars, gens, faults>>

\* Old rows by age or by number; the epoch moves in the same transaction.
Prune(old) ==
    /\ epoch < MaxEpoch /\ old # {}
    /\ rows' = rows \ old /\ epoch' = epoch + 1
    /\ UNCHANGED <<open, lastId, query, range, readVars, calls, screenVars, gens, faults>>

\* A request for a block of q, asked at the boundary asOf if one is fixed, and
\* what it was answered with.
Call(b, q, mine, at, fixed, asOf, set, e) ==
    [block |-> b, query |-> q, mine |-> mine, at |-> at, fixed |-> fixed,
     asOf |-> asOf, set |-> set, epoch |-> e]

\* list_as_of: boundary, rows, count and epoch of one read transaction.
Answered(c) ==
    LET asOf == IF c.fixed THEN c.asOf ELSE Max(rows \cup {0})
    IN  Call(c.block, c.query, c.mine, "answer", c.fixed, asOf,
             {i \in rows \cap c.query : i <= asOf}, epoch)

\* Aborted: its answer may come all the same.
Late(c) == Call(c.block, c.query, FALSE, c.at, c.fixed, c.asOf, c.set, c.epoch)

ReadBlock(c) ==
    /\ c.at = "asked"
    /\ calls' = (calls \ {c}) \cup {Answered(c)}
    /\ UNCHANGED <<logVars, query, range, readVars, screenVars, gens, faults>>

-----------------------------------------------------------------------------
(* SnapshotListResource                                                    *)

InFlight(cs) == {c.block : c \in {d \in cs : d.mine}}
Failed(fs) == {b \in Blocks : fs[b] \in {"error", "expired"}}
Halted(fs) == \E b \in Blocks : fs[b] = "expired"

\* blocksToFetch
Wanted(visible, snap, done, fs, cs) ==
    LET blocks == visible \cup {b \in Blocks : fs[b] = "old" \/ (b = 0 /\ ~snap.fixed)}
        candidates == blocks \ (done \cup InFlight(cs) \cup Failed(fs))
    IN  IF Halted(fs) THEN {}
        ELSE IF snap.fixed
          THEN {b \in candidates : b * BlockSize < Cardinality(snap.set)}
          ELSE IF InFlight(cs) # {} \/ Failed(fs) # {} THEN {}
            ELSE {b \in candidates : \A other \in candidates : b <= other}

\* pump: until the boundary is fixed, one request at a time.
Pumped(visible, snap, done, fs, cs) ==
    cs \cup {Call(b, query', TRUE, "asked", snap.fixed, snap.asOf, {}, 0)
             : b \in Wanted(visible, snap, done, fs, cs)}

EnsureRange(visible) ==
    /\ range' = visible
    /\ UNCHANGED <<logVars, query, readVars, screenVars, gens, faults>>
    /\ calls' = Pumped(visible, snapshot, loaded, failures, calls)

\* Requests still in flight are aborted.
NewGeneration ==
    /\ gens < MaxGens /\ gens' = gens + 1
    /\ snapshot' = NoSnapshot /\ loaded' = {}
    /\ calls' = Pumped(range, NoSnapshot, {}, failures', {Late(c) : c \in calls})
    /\ UNCHANGED <<logVars, range, faults>>

\* A refresh keeps what is shown until it is answered.
Refresh ==
    /\ failures' = [b \in Blocks |-> IF failures[b] = "none" THEN "none" ELSE "old"]
    /\ UNCHANGED <<query, screenVars>>
    /\ NewGeneration

SetParams(q) ==
    /\ query' = q
    /\ failures' = [b \in Blocks |-> "none"]
    /\ shown' = {} /\ view' = [b \in Blocks |-> Hole]
    /\ NewGeneration

MutSameSet(c) ==
    Cardinality(c.set) = Cardinality(snapshot.set)

\* Either one differing means the set inside the boundary changed.
SameSet(c) ==
    Cardinality(c.set) = Cardinality(snapshot.set) /\ c.epoch = snapshot.epoch

\* write: the generation's first answer replaces the rows, the count and the
\* failures past the count.
First(c) ==
    /\ snapshot' = [fixed |-> TRUE, asOf |-> c.asOf, set |-> c.set, epoch |-> c.epoch]
    /\ shown' = c.set
    /\ view' = [b \in Blocks |-> IF b = c.block THEN Slice(c.set, b) ELSE Hole]
    /\ loaded' = {c.block}
    /\ failures' = [b \in Blocks |->
                      IF b = c.block \/ b * BlockSize >= Cardinality(c.set) THEN "none" ELSE failures[b]]

Later(c) ==
    /\ view' = [view EXCEPT ![c.block] = Slice(c.set, c.block)]
    /\ loaded' = loaded \cup {c.block}
    /\ failures' = [failures EXCEPT ![c.block] = "none"]
    /\ UNCHANGED <<snapshot, shown>>

Fail(c, kind) ==
    /\ failures' = [failures EXCEPT ![c.block] = kind]
    /\ UNCHANGED <<snapshot, loaded, screenVars>>

MutPumpedAgain(c) == calls \ {c}

PumpedAgain(c) == Pumped(range, snapshot', loaded', failures', calls \ {c})

\* settle and apply
Settle(c) ==
    /\ c.at = "answer" /\ c.mine
    /\ IF ~snapshot.fixed THEN First(c)
       ELSE IF c.asOf # snapshot.asOf THEN Fail(c, "error")
       ELSE IF ~SameSet(c) THEN Fail(c, "expired")
       ELSE Later(c)
    /\ UNCHANGED <<logVars, query, range, gens, faults>>
    /\ calls' = PumpedAgain(c)

\* The request failed.
SettleError(c) ==
    /\ c.mine /\ faults < MaxFaults /\ faults' = faults + 1
    /\ Fail(c, "error")
    /\ UNCHANGED <<logVars, query, range, gens>>
    /\ calls' = PumpedAgain(c)

\* It timed out: aborted, and its answer, if it comes, is late.
SettleTimeout(c) ==
    /\ c.mine /\ faults < MaxFaults /\ faults' = faults + 1
    /\ Fail(c, "error")
    /\ UNCHANGED <<logVars, query, range, gens>>
    /\ calls' = PumpedAgain(c) \cup {Late(c)}

\* Of another generation, or after its timeout.
Ignore(c) ==
    /\ c.at = "answer" /\ ~c.mine
    /\ calls' = calls \ {c}
    /\ UNCHANGED <<logVars, query, range, readVars, screenVars, gens, faults>>

-----------------------------------------------------------------------------
Log == Allocate \/ \E i \in Ids : Commit(i) \/ \E old \in SUBSET rows : Prune(old)

Request(c) ==
    ReadBlock(c) \/ Settle(c) \/ SettleError(c) \/ SettleTimeout(c) \/ Ignore(c)

Next ==
    \/ Log
    \/ \E first, last \in Blocks : first <= last /\ EnsureRange(first..last)
    \/ Refresh
    \/ \E q \in Queries : SetParams(q)
    \/ \E c \in calls : Request(c)

Spec == Init /\ [][Next]_vars

-----------------------------------------------------------------------------
\* The blocks on the screen are slices of one set of rows that answer the
\* query: an abstract reading, whose state is the set the first answer of the
\* generation was cut from (apply, write; list_as_of, prune).
Reading == INSTANCE SnapshotRead WITH set <- shown

ReadsOneSet == Reading!Spec

\* When nothing is in flight, a visible block is on the screen, or has failed,
\* or lies past the count; or the generation has said that it has ended
\* (blocksToFetch and the pump after each settlement).
NothingIsForgotten ==
    (range # {} /\ InFlight(calls) = {}) =>
        \/ Halted(failures)
        \/ ~snapshot.fixed /\ Failed(failures) # {}
        \/ snapshot.fixed /\ \A b \in range : \/ view[b] # Hole /\ b \in loaded
                                             \/ b \in Failed(failures)
                                             \/ b * BlockSize >= Cardinality(shown)
=============================================================================
