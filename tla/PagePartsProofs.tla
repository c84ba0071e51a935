-------------------------- MODULE PagePartsProofs --------------------------
(***************************************************************************)
(* What the parts of a page promise, for any number of rows, blocks,       *)
(* values, edits, inputs, loads, panes and faults.  They are stated of the *)
(* composition MCPageParts that TLC runs, and proved of each part.         *)
(***************************************************************************)
EXTENDS MCPageParts, Sequences, FiniteSetTheorems, TLAPS

-----------------------------------------------------------------------------
(* AuditSnapshot: the block-wise reading of the audit log implements       *)
(* SnapshotRead.                                                           *)
(*                                                                         *)
(* The code compares counts; the argument is about sets.  Two answers of   *)
(* one boundary and one prune epoch were cut from a set that only grew     *)
(* between them, so that one contains the other, and of two finite sets    *)
(* that contain each other's elements so, equal counts make them equal.    *)

\* A request of the current generation is for the current query.
CallOK(c) == c.block \in Blocks /\ (c.mine => c.query = query)

CallsOK == range \subseteq Blocks /\ \A c \in calls : CallOK(c)

\* What was read at x's boundary and epoch: while the epoch is still the log's,
\* all of it is still there.
Read(x) ==
    /\ x.set \subseteq Ids \cap query
    /\ x.epoch \in Nat /\ x.epoch <= epoch
    /\ x.epoch = epoch => x.set \subseteq {i \in rows : i <= x.asOf}

Nested(x, y) ==
    x.asOf = y.asOf /\ x.epoch = y.epoch => x.set \subseteq y.set \/ y.set \subseteq x.set

Answer(c) == c.mine /\ c.at = "answer"

LogOK == rows \subseteq Ids /\ open \subseteq Ids /\ lastId \in Nat /\ lastId <= MaxId /\ epoch \in Nat

ReadingsOK ==
    /\ \A c \in calls : Answer(c) => Read(c) /\ (snapshot.fixed => Nested(c, snapshot))
    /\ \A c, d \in calls : Answer(c) /\ Answer(d) => Nested(c, d)
    /\ snapshot.fixed => Read(snapshot) /\ shown = snapshot.set

SnapshotInv == LogOK /\ CallsOK /\ ReadingsOK

-----------------------------------------------------------------------------
\* The pump asks for blocks of the list.
LEMMA WantedBlocks ==
  ASSUME NEW visible \in SUBSET Blocks, NEW snap, NEW done, NEW fs, NEW cs
  PROVE  Wanted(visible, snap, done, fs, cs) \subseteq Blocks
  BY DEF Wanted

\* It only adds requests of the current generation, not yet answered: what it
\* leaves are requests if it was given requests, and its answers were there.
LEMMA PumpKeeps ==
  ASSUME NEW visible \in SUBSET Blocks, NEW snap, NEW done, NEW fs, NEW cs,
         calls' = Pumped(visible, snap, done, fs, cs), \A c \in cs : CallOK(c)'
  PROVE  /\ \A c \in calls' : CallOK(c)'
         /\ \A c \in calls' : Answer(c) => c \in cs
  <1> SUFFICES ASSUME NEW c \in calls' PROVE CallOK(c)' /\ (Answer(c) => c \in cs)
    OBVIOUS
  <1>1. CASE c \in cs
    BY <1>1
  <1>2. ASSUME NEW b \in Blocks,
               c = Call(b, query', TRUE, "asked", snap.fixed, snap.asOf, {}, 0)
        PROVE  CallOK(c)' /\ (Answer(c) => c \in cs)
    BY <1>2 DEF CallOK, Answer, Call
  <1>3. Wanted(visible, snap, done, fs, cs) \subseteq Blocks
    BY WantedBlocks
  <1>4. \/ c \in cs
        \/ \E b \in Blocks : c = Call(b, query', TRUE, "asked", snap.fixed, snap.asOf, {}, 0)
    BY <1>3 DEF Pumped
  <1> QED BY <1>1, <1>2, <1>4

\* Equal counts at one boundary and epoch are equal sets.
LEMMA SameCountSameSet ==
  ASSUME NEW S \in SUBSET Ids, NEW T \in SUBSET Ids,
         S \subseteq T \/ T \subseteq S, Cardinality(S) = Cardinality(T)
  PROVE  S = T
  <1>1. IsFiniteSet(Ids)
    BY FS_Interval, BoundsAreNat DEF Ids
  <1>2. IsFiniteSet(S) /\ IsFiniteSet(T)
    BY <1>1, FS_Subset
  <1>3. CASE S \subseteq T
    BY <1>2, <1>3, FS_Subset
  <1>4. CASE T \subseteq S
    BY <1>2, <1>4, FS_Subset
  <1> QED BY <1>3, <1>4

-----------------------------------------------------------------------------
LEMMA SnapshotInit == Init => SnapshotInv
  BY BoundsAreNat DEF Init, SnapshotInv, LogOK, CallsOK, ReadingsOK, NoSnapshot

LEMMA LogStep ==
  ASSUME SnapshotInv, Log
  PROVE  SnapshotInv' /\ UNCHANGED <<query, shown, view>>
  <1> USE DEF SnapshotInv, readVars, screenVars
  <1>1. UNCHANGED <<query, range, readVars, calls, screenVars>>
    BY DEF Log, Allocate, Commit, Prune
  <1>2. LogOK'
    <2>1. CASE Allocate
      BY <2>1, BoundsAreNat DEF Allocate, LogOK, Ids
    <2>2. CASE \E i \in Ids : Commit(i)
      BY <2>2 DEF Commit, LogOK
    <2>3. CASE \E old \in SUBSET rows : Prune(old)
      BY <2>3 DEF Prune, LogOK
    <2> QED BY <2>1, <2>2, <2>3 DEF Log
  <1>3. (epoch' = epoch /\ rows \subseteq rows') \/ epoch' = epoch + 1
    BY DEF Log, Allocate, Commit, Prune
  <1>4. ASSUME NEW x, Read(x) PROVE Read(x)'
    BY <1>1, <1>3, <1>4 DEF Read, LogOK
  <1>5. ReadingsOK'
    BY <1>1, <1>4 DEF ReadingsOK, Nested
  <1>6. CallsOK'
    BY <1>1 DEF CallsOK, CallOK
  <1> QED BY <1>1, <1>2, <1>5, <1>6

LEMMA ReadBlockStep ==
  ASSUME SnapshotInv, NEW c \in calls, ReadBlock(c)
  PROVE  SnapshotInv' /\ UNCHANGED <<query, shown, view>>
  <1> USE DEF SnapshotInv, logVars, readVars, screenVars
  <1> DEFINE a == Answered(c)
  <1>1. /\ calls' = (calls \ {c}) \cup {a}
        /\ UNCHANGED <<rows, open, lastId, epoch, query, range, snapshot, shown, view>>
    BY DEF ReadBlock
  <1>2. /\ a.block = c.block /\ a.query = c.query /\ a.mine = c.mine /\ a.epoch = epoch
        /\ a.set = {i \in rows \cap c.query : i <= a.asOf}
    BY DEF Answered, Call
  <1> HIDE DEF a
  <1>3. CallsOK'
    BY <1>1, <1>2 DEF CallsOK, CallOK
  <1>4. c.mine => Read(a)
    BY <1>2 DEF Read, LogOK, CallsOK, CallOK
  <1>5. ASSUME NEW y, Read(y), c.mine PROVE Nested(y, a) /\ Nested(a, y)
    BY <1>2, <1>5 DEF Read, Nested, CallsOK, CallOK
  <1>6. \A y : Read(y)' <=> Read(y)
    BY <1>1 DEF Read
  <1>7. ReadingsOK'
    BY <1>1, <1>2, <1>4, <1>5, <1>6 DEF ReadingsOK, Answer, Nested
  <1> QED BY <1>1, <1>3, <1>7 DEF LogOK

LEMMA EnsureStep ==
  ASSUME SnapshotInv, NEW first \in Blocks, NEW last \in Blocks, EnsureRange(first..last)
  PROVE  SnapshotInv' /\ UNCHANGED <<query, shown, view>>
  <1> USE DEF SnapshotInv, logVars, readVars, screenVars
  <1>1. first..last \in SUBSET Blocks
    BY BoundsAreNat DEF Blocks
  <1>2. /\ calls' = Pumped(first..last, snapshot, loaded, failures, calls)
        /\ UNCHANGED <<rows, open, lastId, epoch, query, snapshot, shown, view>>
        /\ range' = first..last
    BY DEF EnsureRange
  <1>3. \A c \in calls : CallOK(c)'
    BY <1>2 DEF CallsOK, CallOK
  <1>4. /\ \A c \in calls' : CallOK(c)'
        /\ \A c \in calls' : Answer(c) => c \in calls
    BY <1>1, <1>2, <1>3, PumpKeeps
  <1>5. ReadingsOK'
    BY <1>2, <1>4 DEF ReadingsOK, Read, Nested, Answer
  <1>6. CallsOK'
    BY <1>1, <1>2, <1>4 DEF CallsOK
  <1> QED BY <1>2, <1>5, <1>6 DEF LogOK

LEMMA GenerationStep ==
  ASSUME SnapshotInv, NewGeneration
  PROVE  SnapshotInv'
  <1> USE DEF SnapshotInv, logVars, readVars
  <1> DEFINE late == {Late(c) : c \in calls}
  <1>1. /\ calls' = Pumped(range, NoSnapshot, {}, failures', late)
        /\ UNCHANGED <<rows, open, lastId, epoch, range>> /\ snapshot' = NoSnapshot
    BY DEF NewGeneration
  <1>2. \A c \in late : ~c.mine /\ CallOK(c)'
    BY DEF Late, Call, CallsOK, CallOK
  <1> HIDE DEF late
  <1>3. /\ \A c \in calls' : CallOK(c)'
        /\ \A c \in calls' : Answer(c) => c \in late
    BY <1>1, <1>2, PumpKeeps DEF CallsOK
  <1>4. \A c \in calls' : ~Answer(c)
    BY <1>2, <1>3 DEF Answer
  <1>5. ReadingsOK'
    BY <1>1, <1>4 DEF ReadingsOK, NoSnapshot, Answer
  <1> QED BY <1>1, <1>3, <1>5 DEF CallsOK, LogOK

\* A failed or late request leaves the readings as they are.
LEMMA DropStep ==
  ASSUME SnapshotInv, NEW c \in calls,
         UNCHANGED <<rows, open, lastId, epoch, query, range, snapshot, shown>>,
         NEW kept, \A d \in kept : CallOK(d) /\ (Answer(d) => d \in calls),
         calls' = kept \/ calls' = Pumped(range, snapshot', loaded', failures', kept)
                       \/ \E late : /\ calls' = Pumped(range, snapshot', loaded', failures', kept) \cup late
                                    /\ \A d \in late : CallOK(d) /\ ~Answer(d)
  PROVE  SnapshotInv'
  <1> USE DEF SnapshotInv
  <1>1. \A d \in kept : CallOK(d)'
    BY DEF CallOK
  <1> DEFINE pumped == Pumped(range, snapshot', loaded', failures', kept)
  <1>2. \A d \in pumped : CallOK(d)' /\ (Answer(d) => d \in kept)
    <2> SUFFICES ASSUME NEW d \in pumped PROVE CallOK(d)' /\ (Answer(d) => d \in kept)
      OBVIOUS
    <2>1. CASE d \in kept
      BY <1>1, <2>1
    <2>2. ASSUME NEW b \in Blocks,
                 d = Call(b, query', TRUE, "asked", snapshot'.fixed, snapshot'.asOf, {}, 0)
          PROVE  CallOK(d)' /\ (Answer(d) => d \in kept)
      BY <2>2 DEF CallOK, Answer, Call
    <2>3. range \in SUBSET Blocks
      BY DEF CallsOK
    <2>4. Wanted(range, snapshot', loaded', failures', kept) \subseteq Blocks
      BY <2>3, WantedBlocks
    <2>5. \/ d \in kept
          \/ \E b \in Blocks :
               d = Call(b, query', TRUE, "asked", snapshot'.fixed, snapshot'.asOf, {}, 0)
      BY <2>4 DEF Pumped
    <2> QED BY <2>1, <2>2, <2>5
  <1> HIDE DEF pumped
  <1>3. \A d \in calls' : CallOK(d)' /\ (Answer(d) => d \in calls)
    <2>1. CASE calls' = kept
      BY <1>1, <2>1
    <2>2. CASE calls' = pumped
      BY <1>2, <2>2
    <2>3. ASSUME NEW late, calls' = pumped \cup late, \A d \in late : CallOK(d) /\ ~Answer(d)
          PROVE  \A d \in calls' : CallOK(d)' /\ (Answer(d) => d \in calls)
      BY <1>2, <2>3 DEF CallOK
    <2> QED BY <2>1, <2>2, <2>3 DEF pumped
  <1>4. CallsOK'
    BY <1>3 DEF CallsOK
  <1>5. ReadingsOK'
    BY <1>3 DEF ReadingsOK, Read, Nested, Answer
  <1> QED BY <1>4, <1>5 DEF LogOK

\* An answer that joins the snapshot: the readings stay nested, and what is
\* shown is one of them.
LEMMA SettleStep ==
  ASSUME SnapshotInv, NEW c \in calls, Settle(c)
  PROVE  SnapshotInv' /\ [Reading!Next]_<<query, shown, view>>
  <1> USE DEF SnapshotInv, logVars, readVars, screenVars
  <1>1. /\ Answer(c) /\ CallOK(c) /\ Read(c)
        /\ UNCHANGED <<rows, open, lastId, epoch, query, range>>
        /\ calls' = Pumped(range, snapshot', loaded', failures', calls \ {c})
    BY DEF Settle, Answer, CallsOK, ReadingsOK, PumpedAgain
  <1>2. \A d \in calls \ {c} : CallOK(d)'
    BY <1>1 DEF CallsOK, CallOK
  <1>3. /\ \A d \in calls' : CallOK(d)'
        /\ \A d \in calls' : Answer(d) => d \in calls
    BY <1>1, <1>2, PumpKeeps DEF CallsOK
  <1>4. LogOK' /\ CallsOK'
    BY <1>1, <1>3 DEF LogOK, CallsOK
  <1>5. \A x : Read(x) => Read(x)'
    BY <1>1 DEF Read
  <1>6. CASE ~snapshot.fixed
    <2>1. First(c)
      BY <1>6 DEF Settle
    <2>2. /\ snapshot' = [fixed |-> TRUE, asOf |-> c.asOf, set |-> c.set, epoch |-> c.epoch]
          /\ shown' = c.set
          /\ view' = [b \in Blocks |-> IF b = c.block THEN Slice(c.set, b) ELSE Hole]
      BY <2>1 DEF First
    <2>3. Read(snapshot')
      BY <1>1, <2>2 DEF Read
    <2>4. \A d \in calls : Answer(d) => Nested(d, c)
      BY <1>1 DEF ReadingsOK
    <2>5. ReadingsOK'
      BY <1>3, <1>5, <2>2, <2>3, <2>4 DEF ReadingsOK, Nested, Answer
    <2>6. Reading!FirstBlock(c.block)
      <3>1. view' = [b \in Blocks |-> IF b = c.block THEN Reading!Slice(shown', b) ELSE Hole]
        BY <2>2 DEF Slice, Reading!Slice, Cardinality, Reading!Cardinality
      <3>2. view' = [[b \in Blocks |-> Hole] EXCEPT ![c.block] = Reading!Slice(shown', c.block)]
        BY <3>1
      <3>3. shown' \in SUBSET (Ids \cap query)
        BY <1>1, <2>2 DEF Read
      <3> QED BY <1>1, <3>2, <3>3 DEF Reading!FirstBlock, Reading!Empty
    <2> QED BY <1>1, <1>4, <2>5, <2>6 DEF Reading!Next, CallOK
  <1>7. CASE snapshot.fixed /\ (c.asOf # snapshot.asOf \/ ~SameSet(c))
    <2>1. UNCHANGED <<snapshot, shown, view>>
      BY <1>7 DEF Settle, Fail
    <2>2. ReadingsOK'
      BY <1>1, <1>3, <1>5, <2>1 DEF ReadingsOK, Nested, Answer
    <2> QED BY <1>1, <1>4, <2>1, <2>2
  <1>8. CASE snapshot.fixed /\ c.asOf = snapshot.asOf /\ SameSet(c)
    <2>1. UNCHANGED <<snapshot, shown>> /\ view' = [view EXCEPT ![c.block] = Slice(c.set, c.block)]
      BY <1>8 DEF Settle, Later
    <2>2. ReadingsOK'
      BY <1>1, <1>3, <1>5, <2>1 DEF ReadingsOK, Nested, Answer
    <2>3. /\ c.set \in SUBSET Ids /\ snapshot.set \in SUBSET Ids
          /\ c.set \subseteq snapshot.set \/ snapshot.set \subseteq c.set
      BY <1>1, <1>8 DEF ReadingsOK, Read, Nested, SameSet
    <2>4. c.set = shown
      BY <1>8, <2>3, SameCountSameSet DEF ReadingsOK, SameSet
    <2>5. Reading!NextBlock(c.block)
      BY <1>1, <2>1, <2>4 DEF Reading!NextBlock, Slice, Reading!Slice, Cardinality, Reading!Cardinality
    <2> QED BY <1>1, <1>4, <2>2, <2>5 DEF Reading!Next, CallOK
  <1> QED BY <1>6, <1>7, <1>8

LEMMA RequestStep ==
  ASSUME SnapshotInv, NEW c \in calls, Request(c)
  PROVE  SnapshotInv' /\ [Reading!Next]_<<query, shown, view>>
  <1> USE DEF logVars, readVars, screenVars
  <1>1. CASE ReadBlock(c)
    BY <1>1, ReadBlockStep
  <1>2. CASE Settle(c)
    BY <1>2, SettleStep
  <1>3. \A d \in calls \ {c} : CallOK(d) /\ (Answer(d) => d \in calls)
    BY DEF SnapshotInv, CallsOK
  <1>4. CASE SettleError(c)
    <2>1. /\ UNCHANGED <<rows, open, lastId, epoch, query, range, snapshot, shown, view>>
          /\ calls' = Pumped(range, snapshot', loaded', failures', calls \ {c})
      BY <1>4 DEF SettleError, Fail, PumpedAgain
    <2> QED BY <1>3, <2>1, DropStep
  <1>5. CASE SettleTimeout(c)
    <2>1. /\ UNCHANGED <<rows, open, lastId, epoch, query, range, snapshot, shown, view>>
          /\ calls' = Pumped(range, snapshot', loaded', failures', calls \ {c})
                        \cup {Late(c)}
      BY <1>5 DEF SettleTimeout, Fail, PumpedAgain
    <2>2. \A d \in {Late(c)} : CallOK(d) /\ ~Answer(d)
      BY DEF SnapshotInv, CallsOK, CallOK, Answer, Late, Call
    <2> QED BY <1>3, <2>1, <2>2, DropStep
  <1>6. CASE Ignore(c)
    <2>1. /\ UNCHANGED <<rows, open, lastId, epoch, query, range, snapshot, shown, view>>
          /\ calls' = calls \ {c}
      BY <1>6 DEF Ignore
    <2> QED BY <1>3, <2>1, DropStep
  <1> QED BY <1>1, <1>2, <1>4, <1>5, <1>6 DEF Request

\* Every step keeps the invariant and is a step of the abstract reading, or
\* leaves it as it is.
LEMMA SnapshotStep == SnapshotInv /\ [Next]_vars => SnapshotInv' /\ [Reading!Next]_<<query, shown, view>>
  <1> SUFFICES ASSUME SnapshotInv, [Next]_vars
               PROVE  SnapshotInv' /\ [Reading!Next]_<<query, shown, view>>
    OBVIOUS
  <1>1. CASE Log
    BY <1>1, LogStep
  <1>2. CASE \E first, last \in Blocks : first <= last /\ EnsureRange(first..last)
    BY <1>2, EnsureStep
  <1>3. CASE Refresh
    BY <1>3, GenerationStep DEF Refresh, screenVars
  <1>4. ASSUME NEW q \in Queries, SetParams(q)
        PROVE  SnapshotInv' /\ [Reading!Next]_<<query, shown, view>>
    <2>1. Reading!NewQuery
      BY <1>4 DEF SetParams, Reading!NewQuery, Reading!Empty
    <2> QED BY <1>4, <2>1, GenerationStep DEF SetParams, Reading!Next
  <1>5. ASSUME NEW c \in calls, Request(c)
        PROVE  SnapshotInv' /\ [Reading!Next]_<<query, shown, view>>
    BY <1>5, RequestStep
  <1>6. CASE UNCHANGED vars
    BY <1>6 DEF vars, logVars, readVars, screenVars, SnapshotInv, LogOK, CallsOK, CallOK, ReadingsOK,
                Read, Nested, Answer
  <1> QED BY <1>1, <1>2, <1>3, <1>4, <1>5, <1>6 DEF Next

-----------------------------------------------------------------------------
(* AuditSnapshot: nothing the page shows is forgotten.  The pump runs after*)
(* every change to what it looks at, so that it never has anything left to *)
(* ask for.                                                                *)

Idle(visible, snap, done, fs, cs) == Wanted(visible, snap, done, fs, cs) = {}

ScreenOK ==
    /\ failures \in [Blocks -> {"none", "old", "error", "expired"}]
    /\ DOMAIN view = Blocks
    /\ loaded \subseteq Blocks /\ \A b \in loaded : view[b] # Hole
    /\ ~snapshot.fixed => loaded = {}

\* Before the first range nothing is asked for.
RestInv == ScreenOK /\ (range = {} \/ Idle(range, snapshot, loaded, failures, calls))

\* Of the requests, the pump looks at the blocks in flight only.
LEMMA SameFlight ==
  ASSUME NEW visible, NEW snap, NEW done, NEW fs, NEW cs, NEW ds, InFlight(cs) = InFlight(ds)
  PROVE  Idle(visible, snap, done, fs, cs) <=> Idle(visible, snap, done, fs, ds)
  BY DEF Idle, Wanted

\* Having asked for what it wants, it wants nothing.
LEMMA PumpRests ==
  ASSUME NEW visible, NEW snap, NEW done, NEW fs, NEW cs
  PROVE  Idle(visible, snap, done, fs, Pumped(visible, snap, done, fs, cs))
  <1> DEFINE wanted == Wanted(visible, snap, done, fs, cs)
             pumped == Pumped(visible, snap, done, fs, cs)
             asked(b) == Call(b, query', TRUE, "asked", snap.fixed, snap.asOf, {}, 0)
  <1>1. InFlight(pumped) = InFlight(cs) \cup wanted
    <2>1. pumped = cs \cup {asked(b) : b \in wanted}
      BY DEF Pumped
    <2>2. \A b : asked(b).mine /\ asked(b).block = b
      BY DEF Call
    <2> HIDE DEF asked, pumped, wanted
    <2> QED BY <2>1, <2>2 DEF InFlight
  <1>2. CASE Halted(fs)
    BY <1>2 DEF Idle, Wanted
  <1>3. CASE ~Halted(fs) /\ snap.fixed
    BY <1>1, <1>3 DEF Idle, Wanted
  <1>4. CASE ~Halted(fs) /\ ~snap.fixed
    <2>1. CASE InFlight(pumped) # {} \/ Failed(fs) # {}
      <3> HIDE DEF pumped, wanted
      <3>1. Wanted(visible, snap, done, fs, pumped) = {}
        BY <1>4, <2>1 DEF Wanted
      <3> QED BY <3>1 DEF Idle, pumped
    <2>2. CASE InFlight(pumped) = {}
      <3>1. wanted = {} /\ InFlight(pumped) = InFlight(cs)
        BY <1>1, <2>2
      <3> QED BY <3>1, SameFlight DEF Idle
    <2> QED BY <2>1, <2>2
  <1> QED BY <1>2, <1>3, <1>4

\* A request that is not the generation's own is not in flight.
LEMMA FlightOfOthers ==
  ASSUME NEW cs, NEW c, ~c.mine
  PROVE  InFlight(cs \cup {c}) = InFlight(cs) /\ InFlight(cs \ {c}) = InFlight(cs)
  BY DEF InFlight

\* The first row of a block is never the number that stands for a hole.
LEMMA SliceIsNoHole ==
  ASSUME NEW S \in SUBSET Ids, NEW b
  PROVE  Slice(S, b) # Hole
  <1>1. Slice(S, b) \subseteq S
    BY DEF Slice
  <1>2. 0 \notin Ids
    BY BoundsAreNat DEF Ids
  <1> QED BY <1>1, <1>2 DEF Hole

LEMMA RestInit == Init => RestInv
  <1> SUFFICES ASSUME Init PROVE RestInv
    OBVIOUS
  <1>1. ScreenOK
    BY DEF Init, ScreenOK
  <1>2. range = {}
    BY DEF Init
  <1> QED BY <1>1, <1>2 DEF RestInv

\* After a settlement the pump has run, whatever late request is left beside it.
LEMMA PumpedAgainRests ==
  ASSUME NEW c, NEW d, ~d.mine, UNCHANGED range,
         calls' = PumpedAgain(c) \/ calls' = PumpedAgain(c) \cup {d}
  PROVE  Idle(range, snapshot, loaded, failures, calls)'
  <1> DEFINE left == calls \ {c}
             pumped == Pumped(range, snapshot', loaded', failures', left)
  <1>1. Idle(range, snapshot', loaded', failures', pumped)
    BY PumpRests
  <1>2. calls' = pumped \/ calls' = pumped \cup {d}
    BY DEF PumpedAgain
  <1> HIDE DEF pumped
  <1>3. InFlight(calls') = InFlight(pumped)
    BY <1>2, FlightOfOthers
  <1>4. Idle(range, snapshot', loaded', failures', calls')
    BY <1>1, <1>3, SameFlight
  <1> QED BY <1>4 DEF Idle, Wanted, InFlight, Failed, Halted

LEMMA FailScreen ==
  ASSUME ScreenOK, NEW c, c.block \in Blocks, Fail(c, "error") \/ Fail(c, "expired")
  PROVE  ScreenOK'
  BY DEF ScreenOK, Fail, screenVars

LEMMA RestStep ==
  ASSUME SnapshotInv, RestInv, [Next]_vars
  PROVE  RestInv'
  <1> USE DEF RestInv
  <1>1. CASE UNCHANGED <<range, readVars, screenVars>> /\ InFlight(calls') = InFlight(calls)
    <2>1. ScreenOK'
      BY <1>1 DEF ScreenOK, readVars, screenVars
    <2>2. Idle(range, snapshot, loaded, failures, calls') <=> Idle(range, snapshot, loaded, failures, calls)
      BY <1>1, SameFlight
    <2>3. UNCHANGED <<range, snapshot, loaded, failures>>
      BY <1>1 DEF readVars
    <2> QED BY <2>1, <2>2, <2>3 DEF Idle
  <1>2. CASE Log
    BY <1>1, <1>2 DEF Log, Allocate, Commit, Prune
  <1>3. ASSUME NEW first \in Blocks, NEW last \in Blocks, EnsureRange(first..last)
        PROVE  RestInv'
    <2>1. /\ range' = first..last /\ calls' = Pumped(first..last, snapshot, loaded, failures, calls)
          /\ UNCHANGED <<snapshot, loaded, failures, view>>
      BY <1>3 DEF EnsureRange, readVars, screenVars
    <2>2. Idle(range', snapshot, loaded, failures, calls')
      BY <2>1, PumpRests
    <2> QED BY <2>1, <2>2 DEF ScreenOK, Idle
  <1>4. ASSUME NewGeneration, failures' \in [Blocks -> {"none", "old"}], DOMAIN view' = Blocks
        PROVE  RestInv'
    <2>1. /\ calls' = Pumped(range, NoSnapshot, {}, failures', {Late(c) : c \in calls})
          /\ snapshot' = NoSnapshot /\ loaded' = {} /\ range' = range
      BY <1>4 DEF NewGeneration
    <2>2. Idle(range', snapshot', loaded', failures', calls')
      BY <2>1, PumpRests
    <2>3. ScreenOK'
      BY <1>4, <2>1 DEF ScreenOK
    <2> QED BY <2>2, <2>3 DEF Idle
  <1>5. CASE Refresh
    BY <1>4, <1>5 DEF Refresh, ScreenOK, screenVars
  <1>6. ASSUME NEW q \in Queries, SetParams(q) PROVE RestInv'
    BY <1>4, <1>6 DEF SetParams
  <1>7. ASSUME NEW c \in calls, Request(c) PROVE RestInv'
    <2>1. c.block \in Blocks
      BY DEF SnapshotInv, CallsOK, CallOK
    <2>2. ~Late(c).mine
      BY DEF Late, Call
    <2>3. CASE ReadBlock(c)
      <3>1. calls' = (calls \ {c}) \cup {Answered(c)} /\ UNCHANGED <<range, readVars, screenVars>>
        BY <2>3 DEF ReadBlock
      <3>2. Answered(c).block = c.block /\ Answered(c).mine = c.mine
        BY DEF Answered, Call
      <3>3. InFlight(calls') = InFlight(calls)
        BY <3>1, <3>2 DEF InFlight
      <3> QED BY <1>1, <3>1, <3>3
    <2>4. CASE Settle(c)
      <3>1. calls' = PumpedAgain(c) /\ UNCHANGED range /\ Answer(c)
        BY <2>4 DEF Settle, Answer
      <3>2. c.set \in SUBSET Ids
        BY <3>1 DEF SnapshotInv, ReadingsOK, Read
      <3>3. ScreenOK'
        <4>1. CASE First(c)
          BY <2>1, <3>2, <4>1, SliceIsNoHole DEF First, ScreenOK
        <4>2. CASE snapshot.fixed /\ Later(c)
          BY <2>1, <3>2, <4>2, SliceIsNoHole DEF Later, ScreenOK
        <4>3. CASE Fail(c, "error") \/ Fail(c, "expired")
          BY <2>1, <4>3, FailScreen
        <4> QED BY <2>4, <4>1, <4>2, <4>3 DEF Settle
      <3>4. Idle(range, snapshot, loaded, failures, calls)'
        BY <2>2, <3>1, PumpedAgainRests
      <3> QED BY <3>3, <3>4
    <2>5. CASE SettleError(c)
      <3>1. calls' = PumpedAgain(c) /\ UNCHANGED range /\ Fail(c, "error")
        BY <2>5 DEF SettleError
      <3>2. Idle(range, snapshot, loaded, failures, calls)'
        BY <2>2, <3>1, PumpedAgainRests
      <3>3. ScreenOK'
        BY <2>1, <3>1, FailScreen
      <3> QED BY <3>2, <3>3
    <2>6. CASE SettleTimeout(c)
      <3>1. calls' = PumpedAgain(c) \cup {Late(c)} /\ UNCHANGED range /\ Fail(c, "error")
        BY <2>6 DEF SettleTimeout
      <3> QED BY <2>1, <2>2, <3>1, FailScreen, PumpedAgainRests
    <2>7. CASE Ignore(c)
      BY <1>1, <2>7, FlightOfOthers DEF Ignore
    <2> QED BY <1>7, <2>3, <2>4, <2>5, <2>6, <2>7 DEF Request
  <1>8. CASE UNCHANGED vars
    BY <1>1, <1>8 DEF vars
  <1> QED BY <1>2, <1>3, <1>5, <1>6, <1>7, <1>8 DEF Next

\* At rest, with the pump idle, a visible block that is not loaded and has not
\* failed lies past the count.
LEMMA RestForgetsNothing == SnapshotInv /\ RestInv => NothingIsForgotten
  <1> SUFFICES ASSUME SnapshotInv, RestInv, range # {}, InFlight(calls) = {}, ~Halted(failures),
                      snapshot.fixed \/ Failed(failures) = {}
               PROVE  /\ snapshot.fixed
                      /\ \A b \in range : \/ view[b] # Hole /\ b \in loaded
                                          \/ b \in Failed(failures)
                                          \/ b * BlockSize >= Cardinality(shown)
    BY DEF NothingIsForgotten
  <1>1. Wanted(range, snapshot, loaded, failures, calls) = {}
    BY DEF RestInv, Idle
  <1>2. CASE ~snapshot.fixed
    <2>1. 0 \in Blocks /\ \A b \in Blocks : 0 <= b
      BY BoundsAreNat DEF Blocks
    <2>2. loaded = {} /\ Failed(failures) = {} /\ range \subseteq Blocks
      BY <1>2 DEF RestInv, ScreenOK, SnapshotInv, CallsOK
    <2>3. 0 \in Wanted(range, snapshot, loaded, failures, calls)
      BY <1>2, <2>1, <2>2 DEF Wanted
    <2> QED BY <1>1, <2>3
  <1>3. CASE snapshot.fixed
    <2> SUFFICES ASSUME NEW b \in range, b \notin loaded, b \notin Failed(failures)
                 PROVE  b * BlockSize >= Cardinality(shown)
      BY <1>3 DEF RestInv, ScreenOK
    <2>1. shown = snapshot.set /\ shown \subseteq Ids
      BY <1>3 DEF SnapshotInv, ReadingsOK, Read
    <2>2. Cardinality(shown) \in Nat
      <3>1. IsFiniteSet(Ids)
        BY FS_Interval, BoundsAreNat DEF Ids
      <3>2. IsFiniteSet(shown)
        BY <2>1, <3>1, FS_Subset
      <3> QED BY <3>2, FS_CardinalityType
    <2>3. b * BlockSize \in Nat
      BY BoundsAreNat, BlockIsNotEmpty DEF SnapshotInv, CallsOK, Blocks
    <2>4. ~(b * BlockSize < Cardinality(snapshot.set))
      BY <1>1, <1>3 DEF Wanted
    <2> QED BY <2>1, <2>2, <2>3, <2>4
  <1> QED BY <1>2, <1>3

-----------------------------------------------------------------------------
(* SavedSetting.  SavedIsStored is not inductive: that the saved value is  *)
(* the stored one when a send ends rests on there being one send at a time,*)
(* and when a load ends on no send having begun since the load             *)
(* (Invalidated).                                                          *)

IsSend(s) == s = [value |-> s.value, at |-> s.at]

IsLoad(l) ==
    /\ l = [at |-> l.at, live |-> l.live, touched |-> l.touched, value |-> l.value]
    /\ l.live \in BOOLEAN

\* One send at a time; once the provider has stored it, it holds its value.
SendsInv ==
    /\ \A s \in sends : IsSend(s) /\ (s.at = "stored" => saved = s.value)
    /\ \A s, t \in sends : s = t

\* A load that still counts began after the last send, and reads the stored value.
LoadsInv ==
    \A l \in loads :
        /\ IsLoad(l)
        /\ l.live => sends = {}
        /\ l.live /\ l.at = "answer" => l.value = saved

SettingInv == SendsInv /\ LoadsInv /\ P!SavedIsStored

-----------------------------------------------------------------------------
\* Edited and Invalidated touch no load but for the mark they set.
LEMMA EditedLoads ==
  ASSUME NEW l \in P!Edited(loads), \A k \in loads : IsLoad(k)
  PROVE  \E k \in loads : /\ IsLoad(l) /\ l.live = k.live
                          /\ l.at = k.at /\ l.value = k.value
  <1>1. PICK k \in loads : l = [k EXCEPT !.touched = TRUE]
    BY DEF P!Edited
  <1>2. k = [at |-> k.at, live |-> k.live, touched |-> k.touched, value |-> k.value] /\ k.live \in BOOLEAN
    BY DEF IsLoad
  <1>3. l = [at |-> k.at, live |-> k.live, touched |-> TRUE, value |-> k.value]
    BY <1>1, <1>2
  <1> QED BY <1>2, <1>3 DEF IsLoad

LEMMA InvalidatedLoads ==
  ASSUME NEW ls, NEW l \in P!Invalidated(ls), \A k \in ls : IsLoad(k)
  PROVE  IsLoad(l) /\ ~l.live
  <1>1. PICK k \in ls : l = [k EXCEPT !.live = FALSE]
    BY DEF P!Invalidated
  <1>2. k = [at |-> k.at, live |-> k.live, touched |-> k.touched, value |-> k.value]
    BY DEF IsLoad
  <1>3. l = [at |-> k.at, live |-> FALSE, touched |-> k.touched, value |-> k.value]
    BY <1>1, <1>2
  <1> QED BY <1>3 DEF IsLoad

\* A save that may start finds no send and leaves no load that counts.
LEMMA SaveKeeps ==
  ASSUME SettingInv, NEW v, NEW ls, P!SaveOf(v, ls), UNCHANGED saved,
         \A l \in ls : IsLoad(l) /\ (l.live => sends = {})
                       /\ (l.live /\ l.at = "answer" => l.value = saved)
  PROVE  SendsInv' /\ LoadsInv' /\ sends' # {}
  <1>1. CASE P!Busy
    <2>1. sends' = sends /\ loads' = ls /\ sends # {}
      BY <1>1 DEF P!SaveOf, P!Busy
    <2> QED BY <2>1 DEF SettingInv, SendsInv, LoadsInv
  <1>2. CASE ~P!Busy
    <2>1. sends' = {[value |-> v, at |-> "sent"]} /\ loads' = P!Invalidated(ls)
      BY <1>2 DEF P!SaveOf, P!Busy, P!Send
    <2>2. SendsInv'
      BY <2>1 DEF SendsInv, IsSend
    <2>3. LoadsInv'
      BY <2>1, InvalidatedLoads DEF LoadsInv
    <2> QED BY <2>1, <2>2, <2>3
  <1> QED BY <1>1, <1>2

\* The end of a send starts the queued one or leaves none.
LEMMA FollowKeeps ==
  ASSUME SettingInv, NEW s \in sends, P!Follow(s, loads), UNCHANGED saved
  PROVE  SendsInv' /\ LoadsInv'
  <1>1. sends \ {s} = {}
    BY DEF SettingInv, SendsInv
  <1>2. sends' = {} \/ sends' = {[value |-> current, at |-> "sent"]}
    BY <1>1 DEF P!Follow, P!Send
  <1>3. SendsInv'
    BY <1>2 DEF SendsInv, IsSend
  <1>4. LoadsInv'
    <2>1. loads' = P!Invalidated(loads) /\ \A k \in loads : IsLoad(k)
      BY DEF P!Follow, SettingInv, LoadsInv
    <2> QED BY <2>1, InvalidatedLoads DEF LoadsInv
  <1> QED BY <1>3, <1>4

-----------------------------------------------------------------------------
LEMMA SettingInit == P!Init => SettingInv
  BY DEF P!Init, SettingInv, SendsInv, LoadsInv, P!SavedIsStored

LEMMA SettingStep == SettingInv /\ [P!Next]_(P!vars) => SettingInv'
  <1> SUFFICES ASSUME SettingInv, [P!Next]_(P!vars) PROVE SettingInv'
    OBVIOUS
  <1>loads. \A k \in loads : IsLoad(k)
    BY DEF SettingInv, LoadsInv
  <1>edited. \A l \in P!Edited(loads) : IsLoad(l) /\ (l.live => sends = {})
                                       /\ (l.live /\ l.at = "answer" => l.value = saved)
    BY <1>loads, EditedLoads DEF SettingInv, LoadsInv
  <1>1. ASSUME NEW v \in Values, NEW immediate \in BOOLEAN, P!Set(v, immediate) PROVE SettingInv'
    <2>1. CASE P!SaveOf(v, P!Edited(loads))
      <3>1. SendsInv' /\ LoadsInv' /\ sends' # {}
        BY <1>1, <2>1, <1>edited, SaveKeeps DEF P!Set
      <3> QED BY <3>1 DEF SettingInv, P!SavedIsStored
    <2>2. CASE loads' = P!Edited(loads) /\ UNCHANGED <<sends, queued>>
      BY <1>1, <2>2, <1>edited DEF P!Set, SettingInv, SendsInv, LoadsInv, P!SavedIsStored
    <2> QED BY <1>1, <2>1, <2>2 DEF P!Set
  <1>2. CASE P!Restore
    BY <1>2, <1>edited DEF P!Restore, SettingInv, SendsInv, LoadsInv, P!SavedIsStored
  <1>3. CASE P!Save
    <2>1. P!SaveOf(current, loads) /\ UNCHANGED saved
      BY <1>3 DEF P!Save
    <2>2. SendsInv' /\ LoadsInv' /\ sends' # {}
      BY <2>1, SaveKeeps DEF SettingInv, LoadsInv
    <2> QED BY <2>2 DEF SettingInv, P!SavedIsStored
  <1>4. CASE P!BeginLoad
    <2>1. /\ sends = {} /\ UNCHANGED <<saved, P!valueVars, sends, error, disposed>>
          /\ loads' = P!Invalidated(loads) \cup
                        {[at |-> "asked", live |-> TRUE, touched |-> FALSE, value |-> Nothing]}
      BY <1>4 DEF P!BeginLoad, P!Busy
    <2>2. LoadsInv'
      <3> SUFFICES ASSUME NEW l \in loads' PROVE IsLoad(l) /\ ~(l.live /\ l.at = "answer")
        BY <2>1 DEF LoadsInv
      <3>1. CASE l \in P!Invalidated(loads)
        BY <3>1, <1>loads, InvalidatedLoads
      <3>2. CASE l = [at |-> "asked", live |-> TRUE, touched |-> FALSE, value |-> Nothing]
        BY <3>2 DEF IsLoad
      <3> QED BY <2>1, <3>1, <3>2
    <2> QED BY <2>1, <2>2 DEF SettingInv, SendsInv, P!SavedIsStored, P!valueVars
  <1>5. CASE P!Dispose
    BY <1>5 DEF P!Dispose, SettingInv, SendsInv, LoadsInv, P!SavedIsStored, P!valueVars
  <1>6. ASSUME NEW s \in sends, P!Store(s) PROVE SettingInv'
    <2>1. s = [value |-> s.value, at |-> s.at] /\ sends = {s}
      BY DEF SettingInv, SendsInv, IsSend
    <2>2. sends' = {[value |-> s.value, at |-> "stored"]} /\ saved' = s.value /\ loads' = loads
      BY <1>6, <2>1 DEF P!Store
    <2>3. \A l \in loads : IsLoad(l) /\ ~l.live
      BY DEF SettingInv, LoadsInv
    <2>4. SendsInv'
      BY <2>2 DEF SendsInv, IsSend
    <2>5. LoadsInv'
      BY <2>2, <2>3 DEF LoadsInv, IsLoad
    <2>6. P!SavedIsStored'
      BY <2>2 DEF P!SavedIsStored
    <2> QED BY <2>4, <2>5, <2>6 DEF SettingInv
  <1>7. ASSUME NEW s \in sends, P!Sent(s) PROVE SettingInv'
    <2>1. SendsInv' /\ LoadsInv'
      BY <1>7, FollowKeeps DEF P!Sent
    <2>2. saved = s.value
      BY <1>7 DEF P!Sent, SettingInv, SendsInv
    <2> QED BY <1>7, <2>1, <2>2 DEF P!Sent, SettingInv, P!SavedIsStored
  <1>8. ASSUME NEW s \in sends, P!SendFails(s) PROVE SettingInv'
    <2>1. SendsInv' /\ LoadsInv'
      BY <1>8, FollowKeeps DEF P!SendFails
    <2> QED BY <1>8, <2>1 DEF P!SendFails, SettingInv, P!SavedIsStored
  <1>9. ASSUME NEW l \in loads, P!Get(l) PROVE SettingInv'
    <2>1. l = [at |-> l.at, live |-> l.live, touched |-> l.touched, value |-> l.value] /\ l.live \in BOOLEAN
      BY <1>loads DEF IsLoad
    <2> DEFINE m == [at |-> "answer", live |-> l.live, touched |-> l.touched, value |-> saved]
    <2>2. loads' = (loads \ {l}) \cup {m}
      BY <1>9 DEF P!Get
    <2>3. IsLoad(m) /\ (m.live => sends = {}) /\ m.value = saved
      BY <2>1 DEF IsLoad, SettingInv, LoadsInv
    <2>4. UNCHANGED <<saved, P!valueVars, sends, error, disposed>>
      BY <1>9 DEF P!Get
    <2>5. LoadsInv'
      BY <2>2, <2>3, <2>4 DEF SettingInv, LoadsInv
    <2> QED BY <2>4, <2>5 DEF SettingInv, SendsInv, P!SavedIsStored, P!valueVars
  <1>10. ASSUME NEW l \in loads, P!Loaded(l) PROVE SettingInv'
    <2>1. SendsInv' /\ LoadsInv'
      BY <1>10 DEF P!Loaded, SettingInv, SendsInv, LoadsInv
    <2>2. CASE ~l.live \/ disposed
      BY <1>10, <2>1, <2>2 DEF P!Loaded, SettingInv, P!SavedIsStored, P!valueVars
    <2>3. CASE l.live /\ ~disposed
      <3>1. l.value = saved
        BY <1>10, <2>3 DEF P!Loaded, SettingInv, LoadsInv
      <3>2. hasSaved' => base' = saved
        BY <1>10, <2>3, <3>1 DEF P!Loaded
      <3> QED BY <1>10, <2>1, <3>2 DEF P!Loaded, SettingInv, P!SavedIsStored
    <2>4. l.live \in BOOLEAN
      BY <1>loads DEF IsLoad
    <2> QED BY <2>2, <2>3, <2>4
  <1>11. ASSUME NEW l \in loads, P!LoadFails(l) PROVE SettingInv'
    BY <1>11 DEF P!LoadFails, SettingInv, SendsInv, LoadsInv, P!SavedIsStored, P!valueVars
  <1>12. CASE UNCHANGED P!vars
    BY <1>12 DEF P!vars, SettingInv, SendsInv, LoadsInv, P!SavedIsStored, P!valueVars
  <1> QED BY <1>1, <1>2, <1>3, <1>4, <1>5, <1>6, <1>7, <1>8, <1>9, <1>10, <1>11, <1>12 DEF P!Next

LEMMA SettingSafe == SettingInv => P!SavedIsStored
  BY DEF SettingInv
-----------------------------------------------------------------------------
(* WindowedList.  While a replacement is staged the screen keeps the rows  *)
(* of the generation before, of which only the query is known; what is     *)
(* being built has been read since the generation began.  It becomes the   *)
(* screen when nothing of it is in flight.                                 *)

ListCall(c) ==
    /\ c = [block |-> c.block, query |-> c.query, mine |-> c.mine, at |-> c.at, writes |-> c.writes]
    /\ c.block \in W!Blocks
    /\ c.mine => c.query = params /\ (c.at = "answer" => c.writes \in since..writes)

ListTypes ==
    /\ params \in Params /\ listRange \subseteq W!Blocks
    /\ writes \in Nat /\ since \in 0..writes /\ staged \in BOOLEAN /\ active \in BOOLEAN
    /\ listLoaded \subseteq W!Blocks
    /\ listFailures \in [W!Blocks -> {"none", "old", "now"}]
    /\ \A c \in listCalls : ListCall(c)

Rows == [W!Blocks -> [query : {params, NoQuery}, writes : Nat]]

\* What the generation has loaded is what it has to show, read since it began.
IsRead(rs, done, from) ==
    \A b \in W!Blocks : /\ b \in done <=> rs[b] # W!Hole
                        /\ b \in done => rs[b].writes >= from

ListScreen ==
    /\ listRows \in Rows /\ next \in Rows
    /\ IsRead(W!Shown, listLoaded, since)
    /\ staged => W!InFlight(listCalls) # {}
    /\ ~staged => next = W!Holes

ListAsked ==
    active => \A b \in listRange : b \in listLoaded \cup W!InFlight(listCalls) \/ listFailures[b] = "now"

ListInv == ListTypes /\ ListScreen /\ ListAsked

-----------------------------------------------------------------------------
\* What Load adds to the requests, and which blocks it leaves in flight.
LEMMA LoadAsks ==
  ASSUME NEW wanted \in SUBSET W!Blocks, NEW done, NEW fs, NEW hasCount, NEW cs,
         params' \in Params, since' \in 0..writes', \A c \in cs : ListCall(c)'
  PROVE  LET asked == W!Load(wanted, done, fs, hasCount, cs)
         IN  /\ \A c \in asked : ListCall(c)'
             /\ W!InFlight(cs) \subseteq W!InFlight(asked)
             /\ wanted \subseteq done \cup W!InFlight(asked)
             /\ ~hasCount /\ 0 \notin done /\ fs[0] # "now" => W!InFlight(asked) # {}
  <1> DEFINE blocks == wanted \ (done \cup W!InFlight(cs))
             ask(b) == [block |-> b, query |-> params', mine |-> TRUE, at |-> "asked", writes |-> 0]
             toFetch == IF blocks = {} /\ W!ImplicitFirstBlock(done, fs, hasCount, cs) THEN {0} ELSE blocks
             asked == W!Load(wanted, done, fs, hasCount, cs)
  <1>1. asked = cs \cup {ask(b) : b \in toFetch}
    BY DEF W!Load
  <1>2. toFetch \subseteq W!Blocks
    <2>1. 0 \in W!Blocks
      BY ListBoundIsNat DEF W!Blocks
    <2> QED BY <2>1
  <1>3. ASSUME NEW b \in W!Blocks, NEW c, c = ask(b) PROVE ListCall(c)'
    BY <1>3 DEF ListCall
  <1>4. \A b : ask(b).mine /\ ask(b).block = b
    OBVIOUS
  <1>5. ~hasCount /\ 0 \notin done /\ fs[0] # "now" => W!InFlight(cs) # {} \/ toFetch # {}
    BY DEF W!ImplicitFirstBlock
  <1>6. blocks \subseteq toFetch
    OBVIOUS
  <1> HIDE DEF asked, ask, toFetch
  <1>7. W!InFlight(asked) = W!InFlight(cs) \cup toFetch
    BY <1>1, <1>4 DEF W!InFlight
  <1>8. \A c \in asked : ListCall(c)'
    <2> SUFFICES ASSUME NEW c \in asked PROVE ListCall(c)'
      OBVIOUS
    <2>1. c \in cs \/ \E b \in toFetch : c = ask(b)
      BY <1>1
    <2> QED BY <1>2, <1>3, <2>1
  <1>9. wanted \subseteq done \cup W!InFlight(asked)
    BY <1>6, <1>7
  <1> QED BY <1>5, <1>7, <1>8, <1>9 DEF asked

LEMMA SupersededCalls ==
  ASSUME ListTypes, NEW c \in W!Superseded(listCalls)
  PROVE  ListCall(c)' /\ ~c.mine
  <1>1. PICK d \in listCalls : c = [d EXCEPT !.mine = FALSE]
    BY DEF W!Superseded
  <1>2. d = [block |-> d.block, query |-> d.query, mine |-> d.mine, at |-> d.at, writes |-> d.writes]
        /\ d.block \in W!Blocks
    BY DEF ListTypes, ListCall
  <1>3. c = [block |-> d.block, query |-> d.query, mine |-> FALSE, at |-> d.at, writes |-> d.writes]
    BY <1>1, <1>2
  <1> QED BY <1>2, <1>3 DEF ListCall

LEMMA NoneSuperseded == ASSUME ListTypes PROVE W!InFlight(W!Superseded(listCalls)) = {}
  BY SupersededCalls DEF W!InFlight

LEMMA ListInit == W!Init => ListInv
  <1> SUFFICES ASSUME W!Init PROVE ListInv
    OBVIOUS
  <1>1. ListTypes
    <2>1. writes = 0 /\ since = 0 /\ listFailures = [b \in W!Blocks |-> "none"]
      BY DEF W!Init
    <2>2. since \in 0..writes
      BY <2>1
    <2>3. listFailures \in [W!Blocks -> {"none", "old", "now"}]
      BY <2>1
    <2>4. staged \in BOOLEAN /\ active \in BOOLEAN
      BY DEF W!Init
    <2> QED BY <2>1, <2>2, <2>3, <2>4 DEF W!Init, ListTypes
  <1>2. W!Shown = W!Holes /\ W!Holes \in Rows /\ \A b \in W!Blocks : W!Holes[b] = W!Hole
    BY DEF W!Init, W!Shown, W!Holes, W!Hole, Rows
  <1>3. ListScreen
    BY <1>2 DEF W!Init, ListScreen, IsRead
  <1> QED BY <1>1, <1>3 DEF W!Init, ListInv, ListAsked

\* A new generation has nothing loaded; a refresh of a list in use stages it.
LEMMA GenerationBegins ==
  ASSUME ListInv, params' \in Params, writes' = writes, since' = writes, listRange' = listRange, active' = active,
         listLoaded' = {}, listFailures' \in [W!Blocks -> {"none", "old"}], next' = W!Holes,
         NEW wanted \in SUBSET W!Blocks, listRange \subseteq wanted,
         listCalls' = IF active THEN W!Load(wanted, {}, listFailures', FALSE, W!Superseded(listCalls))
                                ELSE W!Superseded(listCalls),
         \/ staged' = active /\ params' = params /\ listRows' = IF active THEN listRows ELSE W!Holes
         \/ staged' = FALSE /\ listRows' = W!Holes
  PROVE  ListInv'
  <1> DEFINE old == W!Superseded(listCalls)
  <1>1. \A c \in old : ListCall(c)' /\ ~c.mine
    BY SupersededCalls DEF ListInv
  <1>2. since' \in 0..writes'
    BY DEF ListInv, ListTypes
  <1>3. 0 \in W!Blocks
    BY BoundsAreNat, ListBoundIsNat DEF W!Blocks
  <1> HIDE DEF old
  <1>4. (\A c \in listCalls' : ListCall(c)') /\ (active => /\ W!InFlight(listCalls') # {}
                                                          /\ wanted \subseteq W!InFlight(listCalls'))
    <2>1. CASE active
      <3>1. listCalls' = W!Load(wanted, {}, listFailures', FALSE, old)
        BY <2>1 DEF old
      <3>2. listFailures'[0] # "now"
        BY <1>3
      <3> QED BY <1>1, <1>2, <3>1, <3>2, LoadAsks
    <2>2. CASE ~active
      BY <1>1, <2>2 DEF old
    <2> QED BY <2>1, <2>2
  <1>5. W!Holes \in [W!Blocks -> [query : {params', NoQuery}, writes : Nat]]
        /\ \A b \in W!Blocks : W!Holes[b] = W!Hole
    BY DEF W!Holes, W!Hole
  <1>6. ListTypes'
    <2>1. listFailures' \in [W!Blocks -> {"none", "old", "now"}]
      OBVIOUS
    <2>2. staged' \in BOOLEAN
      BY DEF ListInv, ListTypes
    <2> QED BY <1>2, <1>4, <2>1, <2>2 DEF ListInv, ListTypes
  <1>7. ListScreen'
    <2>1. W!Shown' = W!Holes
      BY DEF W!Shown, ListInv, ListTypes
    <2>2. IsRead(W!Shown, listLoaded, since)'
      BY <1>5, <2>1 DEF IsRead
    <2>3. (listRows \in Rows /\ next \in Rows)'
      BY <1>5 DEF Rows, ListInv, ListScreen
    <2>4. staged' => W!InFlight(listCalls') # {}
      BY <1>4
    <2>5. (~staged => next = W!Holes)'
      OBVIOUS
    <2> QED BY <2>2, <2>3, <2>4, <2>5 DEF ListScreen
  <1>8. ListAsked'
    BY <1>4 DEF ListAsked
  <1> QED BY <1>6, <1>7, <1>8 DEF ListInv

\* A settlement: what there is to show goes on the screen when it is complete.
LEMMA SettledKeeps ==
  ASSUME ListInv, NEW target \in Rows, NEW cs, W!Settled(target, cs),
         UNCHANGED <<writes, params, active, listRange, since>>,
         IsRead(target, listLoaded', since), listLoaded' \in SUBSET W!Blocks,
         listFailures' \in [W!Blocks -> {"none", "old", "now"}], \A c \in cs : ListCall(c),
         active => \A b \in listRange : b \in listLoaded' \cup W!InFlight(cs) \/ listFailures'[b] = "now"
  PROVE  ListInv'
  <1>1. /\ listCalls' = cs /\ staged' = (staged /\ W!InFlight(cs) # {})
        /\ IF staged THEN IF W!InFlight(cs) = {} THEN listRows' = target /\ next' = W!Holes
                                                 ELSE next' = target /\ listRows' = listRows
                     ELSE listRows' = target /\ next' = next
    BY DEF W!Settled
  <1>2. ListTypes'
    BY <1>1 DEF ListInv, ListTypes, ListCall
  <1>3. W!Holes \in Rows
    BY DEF W!Holes, W!Hole, Rows
  <1>4. Rows' = Rows
    BY DEF Rows
  <1>5. W!Shown' = target
    BY <1>1 DEF W!Shown, ListInv, ListTypes
  <1>6. (listRows \in Rows /\ next \in Rows)'
    BY <1>1, <1>3, <1>4 DEF ListInv, ListScreen
  <1>7. (staged => W!InFlight(listCalls) # {})' /\ (~staged => next = W!Holes)'
    BY <1>1 DEF ListInv, ListTypes, ListScreen
  <1>8. ListScreen'
    BY <1>5, <1>6, <1>7 DEF ListScreen, IsRead
  <1>9. ListAsked'
    BY <1>1 DEF ListAsked
  <1> QED BY <1>2, <1>8, <1>9 DEF ListInv
LEMMA ListStep == ListInv /\ [W!Next]_(W!vars) => ListInv'
  <1> SUFFICES ASSUME ListInv, [W!Next]_(W!vars) PROVE ListInv'
    OBVIOUS
  <1> USE DEF ListInv
  <1>calls. \A c \in listCalls : ListCall(c)
    BY DEF ListTypes
  <1>failures. \A b \in W!Blocks : listFailures[b] \in {"none", "old", "now"}
    BY DEF ListTypes
  <1>1. CASE W!Write
    <2>1. UNCHANGED <<params, active, listRange, listLoaded, listFailures, counted, listCalls, staged, next,
                      listRows, since>> /\ writes' = writes + 1
      BY <1>1 DEF W!Write, W!listVars, W!generationVars
    <2>2. \A c \in listCalls : ListCall(c)'
      BY <1>calls, <2>1 DEF ListCall, ListTypes
    <2>3. ListTypes'
      BY <2>1, <2>2 DEF ListTypes
    <2>4. ListScreen' /\ ListAsked'
      BY <2>1 DEF ListScreen, ListAsked, Rows, IsRead, W!Shown, W!InFlight
    <2> QED BY <2>3, <2>4
  <1>2. CASE W!Invalidate
    <2> DEFINE wanted == listRange \cup {b \in W!Blocks : listFailures[b] # "none"}
    <2>1. /\ UNCHANGED <<writes, params, active, listRange>> /\ since' = writes
          /\ listLoaded' = {} /\ next' = W!Holes
          /\ listFailures' = [b \in W!Blocks |-> IF listFailures[b] = "none" THEN "none" ELSE "old"]
          /\ IF active
               THEN /\ staged' = TRUE /\ UNCHANGED listRows
                    /\ listCalls' = W!Load(wanted, {}, listFailures', FALSE, W!Superseded(listCalls))
               ELSE staged' = FALSE /\ listRows' = W!Holes /\ listCalls' = W!Superseded(listCalls)
      BY <1>2 DEF W!Invalidate, W!Refresh
    <2>2. listFailures' \in [W!Blocks -> {"none", "old"}]
      BY <2>1
    <2>3. wanted \in SUBSET W!Blocks /\ listRange \subseteq wanted /\ params' \in Params
      BY <2>1 DEF ListTypes
    <2>4. \/ staged' = active /\ params' = params /\ listRows' = IF active THEN listRows ELSE W!Holes
          \/ staged' = FALSE /\ listRows' = W!Holes
      BY <2>1 DEF ListTypes
    <2>5. listCalls' = IF active THEN W!Load(wanted, {}, listFailures', FALSE, W!Superseded(listCalls))
                                 ELSE W!Superseded(listCalls)
      BY <2>1
    <2> HIDE DEF wanted
    <2> QED BY <2>1, <2>2, <2>3, <2>4, <2>5, GenerationBegins
  <1>3. ASSUME NEW q \in Params, W!SetParams(q) PROVE ListInv'
    <2>1. /\ params' = q /\ UNCHANGED <<writes, active, listRange>> /\ since' = writes
          /\ listLoaded' = {} /\ next' = W!Holes
          /\ listFailures' = [b \in W!Blocks |-> "none"]
          /\ staged' = FALSE /\ listRows' = W!Holes
          /\ listCalls' = IF active THEN W!Load(listRange, {}, listFailures', FALSE, W!Superseded(listCalls))
                                    ELSE W!Superseded(listCalls)
      BY <1>3 DEF W!SetParams
    <2>2. listFailures' \in [W!Blocks -> {"none", "old"}]
      BY <2>1
    <2>3. listRange \in SUBSET W!Blocks
      BY DEF ListTypes
    <2> QED BY <2>1, <2>2, <2>3, GenerationBegins
  <1>4. ASSUME NEW blocks \in SUBSET W!Blocks, W!EnsureRange(blocks) PROVE ListInv'
    <2>1. /\ active' = TRUE /\ listRange' = blocks
          /\ UNCHANGED <<writes, params, listLoaded, listFailures, staged, next, listRows, since>>
          /\ listCalls' = W!Load(blocks, listLoaded, listFailures, counted, listCalls)
      BY <1>4 DEF W!EnsureRange, W!generationVars
    <2>2. \A c \in listCalls : ListCall(c)'
      BY <1>calls, <2>1 DEF ListCall
    <2>3. since' \in 0..writes' /\ params' \in Params
      BY <2>1 DEF ListTypes
    <2>4. /\ \A c \in listCalls' : ListCall(c)'
          /\ W!InFlight(listCalls) \subseteq W!InFlight(listCalls')
          /\ blocks \subseteq listLoaded \cup W!InFlight(listCalls')
      BY <2>1, <2>2, <2>3, LoadAsks
    <2>5. ListTypes'
      BY <2>1, <2>4 DEF ListTypes
    <2>6. ListScreen'
      <3>1. staged' => W!InFlight(listCalls') # {}
        BY <2>1, <2>4 DEF ListScreen
      <3>2. W!Shown' = W!Shown /\ Rows' = Rows
        BY <2>1 DEF W!Shown, Rows
      <3> QED BY <2>1, <3>1, <3>2 DEF ListScreen, IsRead
    <2>7. ListAsked'
      BY <2>1, <2>4 DEF ListAsked
    <2> QED BY <2>5, <2>6, <2>7
  <1>5. ASSUME NEW c \in listCalls, W!ReadBlock(c) PROVE ListInv'
    <2>0. PICK d : d = [c EXCEPT !.at = "answer", !.writes = writes]
      OBVIOUS
    <2>1. /\ c.mine /\ listCalls' = (listCalls \ {c}) \cup {d}
          /\ UNCHANGED <<writes, params, active, listRange, listLoaded, listFailures, staged, next, listRows, since>>
      BY <1>5, <2>0 DEF W!ReadBlock, W!generationVars
    <2>2. ListCall(d) /\ d.mine = c.mine /\ d.block = c.block
      <3>1. c = [block |-> c.block, query |-> c.query, mine |-> c.mine, at |-> c.at, writes |-> c.writes]
        BY <1>calls DEF ListCall
      <3>2. d = [block |-> c.block, query |-> c.query, mine |-> c.mine, at |-> "answer", writes |-> writes]
        BY <2>0, <3>1
      <3> QED BY <1>calls, <2>1, <3>2 DEF ListCall, ListTypes
    <2>3. W!InFlight(listCalls') = W!InFlight(listCalls)
      BY <2>1, <2>2 DEF W!InFlight
    <2>4. \A k \in listCalls' : ListCall(k)'
      BY <1>calls, <2>1, <2>2 DEF ListCall
    <2>5. ListTypes'
      BY <2>1, <2>4 DEF ListTypes
    <2>6. W!Shown' = W!Shown /\ Rows' = Rows
      BY <2>1 DEF W!Shown, Rows
    <2>7. ListScreen' /\ ListAsked'
      BY <2>1, <2>3, <2>6 DEF ListScreen, IsRead, ListAsked
    <2> QED BY <2>5, <2>7
  <1>6. ASSUME NEW c \in listCalls, W!Answer(c) PROVE ListInv'
    <2>1. CASE c.mine
      <3> DEFINE row == [query |-> c.query, writes |-> c.writes]
                 target == [W!Shown EXCEPT ![c.block] = row]
      <3>1. /\ listLoaded' = listLoaded \cup {c.block} /\ listFailures' = [listFailures EXCEPT ![c.block] = "none"]
            /\ W!Settled(target, listCalls \ {c}) /\ c.at = "answer"
            /\ UNCHANGED <<writes, params, active, listRange, since>>
        BY <1>6, <2>1 DEF W!Answer, W!IsOurs
      <3>2. c.block \in W!Blocks /\ c.query = params /\ c.writes \in since..writes
        BY <1>calls, <2>1, <3>1 DEF ListCall
      <3>3. row \in [query : {params, NoQuery}, writes : Nat] /\ row # W!Hole /\ row.writes >= since
        BY <3>2, NoQueryIsNone DEF ListTypes, W!Hole
      <3>4. W!Shown \in Rows
        BY DEF ListScreen, W!Shown
      <3> HIDE DEF row
      <3>5. target \in Rows
        BY <3>3, <3>4 DEF Rows
      <3>6. IsRead(target, listLoaded', since)
        BY <3>1, <3>2, <3>3, <3>4 DEF IsRead, ListScreen, Rows
      <3>7. /\ listLoaded' \in SUBSET W!Blocks
            /\ listFailures' \in [W!Blocks -> {"none", "old", "now"}]
        BY <3>1, <3>2 DEF ListTypes
      <3>8. W!InFlight(listCalls) \subseteq W!InFlight(listCalls \ {c}) \cup {c.block}
        BY DEF W!InFlight
      <3>9. active => \A b \in listRange : \/ b \in listLoaded' \cup W!InFlight(listCalls \ {c})
                                           \/ listFailures'[b] = "now"
        <4> SUFFICES ASSUME active, NEW b \in listRange, b # c.block, b \notin W!InFlight(listCalls)
                     PROVE  b \in listLoaded' \/ listFailures'[b] = "now"
          BY <3>1, <3>8
        <4> QED BY <3>1 DEF ListAsked, ListTypes
      <3> HIDE DEF target
      <3> QED BY <1>calls, <3>1, <3>5, <3>6, <3>7, <3>9, SettledKeeps
    <2>2. CASE ~c.mine
      <3>1. /\ listCalls' = listCalls \ {c}
            /\ UNCHANGED <<writes, params, active, listRange, listLoaded, listFailures, staged, next, listRows,
                           since>>
        BY <1>6, <2>2 DEF W!Answer, W!IsOurs, W!generationVars
      <3>2. W!InFlight(listCalls') = W!InFlight(listCalls)
        BY <2>2, <3>1 DEF W!InFlight
      <3>3. ListTypes'
        BY <3>1 DEF ListTypes, ListCall
      <3>4. W!Shown' = W!Shown /\ Rows' = Rows
        BY <3>1 DEF W!Shown, Rows
      <3>5. ListScreen' /\ ListAsked'
        BY <3>1, <3>2, <3>4 DEF ListScreen, IsRead, ListAsked
      <3> QED BY <3>3, <3>5
    <2> QED BY <2>1, <2>2
  <1>7. ASSUME NEW c \in listCalls, NEW left, W!Failure(c, left),
               \A k \in left : ListCall(k) /\ ~k.mine
        PROVE  ListInv'
    <2> DEFINE cs == (listCalls \ {c}) \cup left
    <2>1. /\ listFailures' = [listFailures EXCEPT ![c.block] = "now"] /\ listLoaded' = listLoaded
          /\ W!Settled(W!Shown, cs)
          /\ UNCHANGED <<writes, params, active, listRange, since>>
      BY <1>7 DEF W!Failure
    <2>2. c.block \in W!Blocks
      BY <1>calls DEF ListCall
    <2>3. W!Shown \in Rows /\ IsRead(W!Shown, listLoaded', since)
      BY <2>1 DEF ListScreen, W!Shown
    <2>4. /\ listLoaded' \in SUBSET W!Blocks
          /\ listFailures' \in [W!Blocks -> {"none", "old", "now"}]
      BY <2>1, <2>2 DEF ListTypes
    <2>5. W!InFlight(listCalls) \subseteq W!InFlight(cs) \cup {c.block}
      BY DEF W!InFlight
    <2>6. active => \A b \in listRange : b \in listLoaded' \cup W!InFlight(cs) \/ listFailures'[b] = "now"
      <3> SUFFICES ASSUME active, NEW b \in listRange, b \notin W!InFlight(cs)
                   PROVE  b \in listLoaded' \/ listFailures'[b] = "now"
        OBVIOUS
      <3> QED BY <2>1, <2>2, <2>5 DEF ListAsked, ListTypes
    <2>7. \A k \in cs : ListCall(k)
      BY <1>calls, <1>7
    <2> HIDE DEF cs
    <2> QED BY <2>1, <2>3, <2>4, <2>6, <2>7, SettledKeeps
  <1>8. ASSUME NEW c \in listCalls, NEW d, d = [c EXCEPT !.mine = FALSE] PROVE ListCall(d) /\ ~d.mine
    <2>1. c = [block |-> c.block, query |-> c.query, mine |-> c.mine, at |-> c.at, writes |-> c.writes]
      BY <1>calls DEF ListCall
    <2>2. d = [block |-> c.block, query |-> c.query, mine |-> FALSE, at |-> c.at, writes |-> c.writes]
      BY <1>8, <2>1
    <2> QED BY <1>calls, <2>2 DEF ListCall
  <1>9. CASE UNCHANGED W!vars
    <2>1. UNCHANGED <<writes, params, active, listRange, listLoaded, listFailures, listCalls, staged, next, listRows,
                      since>>
      BY <1>9 DEF W!vars, W!listVars, W!generationVars
    <2>2. ListTypes'
      BY <2>1 DEF ListTypes, ListCall
    <2>3. ListScreen' /\ ListAsked'
      BY <2>1 DEF ListScreen, IsRead, ListAsked, Rows, W!Shown, W!InFlight
    <2> QED BY <2>2, <2>3
  <1>10. ASSUME NEW first \in W!Blocks, NEW last \in W!Blocks PROVE first..last \in SUBSET W!Blocks
    BY ListBoundIsNat DEF W!Blocks
  <1>11. CASE \E first, last \in W!Blocks : first <= last /\ W!EnsureRange(first..last)
    BY <1>4, <1>10, <1>11
  <1>12. CASE \E c \in listCalls : W!Failure(c, {}) \/ W!Failure(c, {[c EXCEPT !.mine = FALSE]})
    <2>1. PICK c \in listCalls : W!Failure(c, {}) \/ W!Failure(c, {[c EXCEPT !.mine = FALSE]})
      BY <1>12
    <2>2. CASE W!Failure(c, {})
      BY <1>7, <2>2
    <2>3. CASE W!Failure(c, {[c EXCEPT !.mine = FALSE]})
      <3>1. \A k \in {[c EXCEPT !.mine = FALSE]} : ListCall(k) /\ ~k.mine
        BY <1>8
      <3> QED BY <1>7, <2>3, <3>1
    <2> QED BY <2>1, <2>2, <2>3
  <1> QED BY <1>1, <1>2, <1>3, <1>4, <1>5, <1>6, <1>9, <1>11, <1>12 DEF W!Next

LEMMA ListSafe == ListInv => W!SettledListIsCurrent
  <1> SUFFICES ASSUME ListInv PROVE W!SettledListIsCurrent
    OBVIOUS
  <1>1. \A b \in W!Blocks : listRows[b].query \in {params, NoQuery}
    BY DEF ListInv, ListScreen, Rows
  <1>2. ASSUME W!InFlight(listCalls) = {}
        PROVE  /\ ~staged /\ W!Shown = listRows
               /\ active => \A b \in listRange : b \in listLoaded \/ listFailures[b] = "now"
    BY <1>2 DEF ListInv, ListScreen, ListAsked, W!Shown
  <1> QED BY <1>1, <1>2 DEF ListInv, ListScreen, ListTypes, IsRead, W!SettledListIsCurrent
-----------------------------------------------------------------------------
(* Drafts.  The newest input of a form that is neither applied nor thrown  *)
(* away is what the form shows, or what was captured when its pane went,   *)
(* and is not the baseline: the form is dirty.  Of the accepted applies of *)
(* a form the newest is the stored one, and becomes the baseline last.     *)

Newest(k) == IF mounted[k] THEN D!Final(k) ELSE captured[k]

Resolutions == {"clean", "applied", "discarded"}
Results == Resolutions \cup {"stale", "cancelled", "failed", "dirty-again"}

SettleState ==
    [at : {"idle", "asking", "applying"}, targets : SUBSET Keys, dirty : SUBSET Keys,
     fresh : BOOLEAN, ok : BOOLEAN, result : Results \cup {"none"}]

ApplyState == [settle : Settles, key : Keys, input : Nat, revision : Nat, ok : BOOLEAN]

\* Every input is one that was typed, or 0, what there was before any.
DraftTypes ==
    /\ inputs \in Nat
    /\ value \in [Keys -> Nat] /\ baseline \in [Keys -> Nat] /\ captured \in [Keys -> Nat]
    /\ raw \in [Keys -> [input : Nat, valid : BOOLEAN]]
    /\ unapplied \in [Keys -> Nat] /\ stored \in [Keys -> Nat]
    /\ revision \in [Keys -> Nat] /\ baselineRevision \in [Keys -> Nat]
    /\ mounted \in [Keys -> BOOLEAN] /\ closed \subseteq Keys
    /\ settle \in [Settles -> SettleState] /\ applies \subseteq ApplyState

InputKept(k) ==
    /\ ~mounted[k] => raw[k] = D!NoText
    /\ baseline[k] <= inputs /\ unapplied[k] <= inputs /\ value[k] <= inputs /\ raw[k].input <= inputs
    /\ captured[k] <= inputs
    /\ unapplied[k] # 0 => unapplied[k] = Newest(k) /\ unapplied[k] # baseline[k] /\ k \notin closed

AppliesTyped == \A a \in applies : a.input <= inputs

\* r is the revision of the last accepted apply.
LastApply(k, r) ==
    /\ r <= revision[k] /\ baselineRevision[k] <= r
    /\ \A a \in applies : a.key = k /\ a.ok => a.revision <= r /\ (a.revision = r => a.input = stored[k])
    /\ IF baselineRevision[k] = r THEN baseline[k] = stored[k]
                                  ELSE \E a \in applies : a.key = k /\ a.ok /\ a.revision = r
    /\ mounted[k] /\ revision[k] = r => D!Final(k) = stored[k]

InputsKept == \A k \in Keys : InputKept(k)
LastApplies == \A k \in Keys : \E r \in Nat : LastApply(k, r)

\* The forms of a settle that has just resolved hold no input.
ResultsOK ==
    \A s \in Settles : settle[s].result \in Resolutions => \A k \in settle[s].targets : unapplied[k] = 0

DraftInv == DraftTypes /\ InputsKept /\ AppliesTyped /\ LastApplies /\ ResultsOK /\ ~lost

-----------------------------------------------------------------------------
\* A form that is clean, or not there and without a capture, holds no input.
LEMMA CleanHoldsNone ==
  ASSUME DraftInv, NEW k \in Keys, ~D!IsDirtyNow(k)
  PROVE  unapplied[k] = 0
  <1> SUFFICES ASSUME unapplied[k] # 0 PROVE FALSE
    OBVIOUS
  <1>1. unapplied[k] = Newest(k) /\ unapplied[k] # baseline[k]
    BY DEF DraftInv, InputsKept, InputKept
  <1>2. CASE mounted[k]
    <2>1. raw[k] = D!NoText /\ value[k] = baseline[k]
      BY <1>2 DEF D!IsDirtyNow, D!IsDirty
    <2> QED BY <1>1, <1>2, <2>1 DEF Newest, D!Final
  <1>3. CASE ~mounted[k]
    BY <1>1, <1>3 DEF D!IsDirtyNow, D!HeldDirty, Newest
  <1> QED BY <1>2, <1>3 DEF DraftInv, DraftTypes

LEMMA DraftInit == D!Init => DraftInv
  <1> SUFFICES ASSUME D!Init PROVE DraftInv
    OBVIOUS
  <1>1. DraftTypes
    BY DEF D!Init, DraftTypes, D!Idle, D!NoText, SettleState
  <1>2. ASSUME NEW k \in Keys PROVE InputKept(k) /\ LastApply(k, 0)
    <2>1. /\ value[k] = 0 /\ baseline[k] = 0 /\ captured[k] = 0 /\ unapplied[k] = 0 /\ stored[k] = 0
          /\ revision[k] = 0 /\ baselineRevision[k] = 0 /\ raw[k] = D!NoText /\ inputs = 0 /\ applies = {}
      BY DEF D!Init
    <2>2. raw[k].input = 0 /\ D!Final(k) = 0
      BY <2>1 DEF D!NoText, D!Final
    <2> QED BY <2>1, <2>2 DEF InputKept, LastApply
  <1>3. ResultsOK
    BY DEF D!Init, ResultsOK, D!Idle
  <1> QED BY <1>1, <1>2, <1>3 DEF D!Init, DraftInv, InputsKept, LastApplies, AppliesTyped

LEMMA StaledSettles ==
  ASSUME DraftTypes, NEW k \in Keys
  PROVE  /\ D!Staled(k) \in [Settles -> SettleState]
         /\ \A s \in Settles : D!Staled(k)[s].result = settle[s].result
  <1> SUFFICES ASSUME NEW s \in Settles
               PROVE  D!Staled(k)[s] \in SettleState /\ D!Staled(k)[s].result = settle[s].result
    BY DEF D!Staled
  <1>1. settle[s] \in SettleState
    BY DEF DraftTypes
  <1> QED BY <1>1 DEF D!Staled, SettleState

LEMMA FinishSettle ==
  ASSUME DraftTypes, NEW s \in Settles, NEW result \in Results, D!Finish(s, result, settle)
  PROVE  /\ settle' \in [Settles -> SettleState]
         /\ settle'[s].result = result /\ settle'[s].targets = settle[s].targets
         /\ \A t \in Settles \ {s} : settle'[t] = settle[t]
  <1>1. settle[s].targets \in SUBSET Keys
    BY DEF DraftTypes, SettleState
  <1>2. [D!Idle EXCEPT !.targets = settle[s].targets, !.result = result] \in SettleState
    BY <1>1 DEF SettleState, D!Idle, Results
  <1> QED BY <1>1, <1>2 DEF D!Finish, DraftTypes, D!Idle

\* A settle whose result is what it is leaves the forms alone.
LEMMA OneResolves ==
  ASSUME DraftInv, D!Resolved = {}, NEW s \in Settles,
         \A t \in Settles \ {s} : settle'[t].result = settle[t].result,
         settle'[s].result \in Resolutions => \A k \in settle'[s].targets : unapplied'[k] = 0
  PROVE  ResultsOK'
  BY DEF D!Resolved, ResultsOK, Resolutions

LEMMA NoneResolves ==
  ASSUME DraftInv, D!Resolved = {}, \A t \in Settles : settle'[t].result = settle[t].result
  PROVE  ResultsOK'
  BY DEF D!Resolved, ResultsOK, Resolutions

\* What concerns the forms alone.
LEMMA SameDrafts ==
  ASSUME DraftInv,
         UNCHANGED <<value, raw, baseline, revision, baselineRevision, mounted, applies, stored, inputs>>,
         captured' \in [Keys -> Nat], \A k \in Keys : captured'[k] <= inputs /\ (captured'[k] = captured[k] \/ mounted[k]),
         UNCHANGED unapplied, closed' \in SUBSET Keys, \A k \in closed' : k \in closed \/ unapplied[k] = 0,
         settle' \in [Settles -> SettleState]
  PROVE  DraftTypes' /\ InputsKept' /\ AppliesTyped' /\ LastApplies'
  <1>1. DraftTypes'
    BY DEF DraftInv, DraftTypes
  <1>2. ASSUME NEW k \in Keys PROVE InputKept(k)'
    <2>1. InputKept(k)
      BY DEF DraftInv, InputsKept
    <2>2. mounted[k] \in BOOLEAN
      BY DEF DraftInv, DraftTypes
    <2>3. Newest(k)' = Newest(k) \/ (unapplied[k] = 0)
      BY <2>1 DEF Newest, D!Final
    <2> QED BY <2>1, <2>3 DEF InputKept
  <1>3. ASSUME NEW k \in Keys, NEW r \in Nat, LastApply(k, r) PROVE LastApply(k, r)'
    BY <1>3 DEF LastApply, D!Final
  <1> QED BY <1>1, <1>2, <1>3 DEF DraftInv, InputsKept, LastApplies, AppliesTyped
\* A settle asks, is not resolved, or is resolved without more ado.
LEMMA SettleStays ==
  ASSUME DraftInv, D!Resolved = {}, NEW s \in Settles,
         D!NotResolved(s) \/ D!Resolve(s) \/ \E targets \in SUBSET Keys : D!BeginSettle(s, targets)
  PROVE  DraftInv'
  <1> USE DEF D!draftVars, D!paneVars, D!counters
  <1>1. /\ UNCHANGED <<value, raw, baseline, revision, baselineRevision, mounted, captured, applies, stored,
                       unapplied, closed, lost, inputs>>
    BY DEF D!NotResolved, D!Resolve, D!BeginSettle
  <1>2. settle' \in [Settles -> SettleState] /\ ResultsOK'
    <2>1. CASE D!NotResolved(s)
      <3>1. PICK result \in {"stale", "cancelled"} : D!Finish(s, result, settle)
        BY <2>1 DEF D!NotResolved
      <3>2. result \in Results /\ result \notin Resolutions
        BY DEF Results, Resolutions
      <3> QED BY <1>1, <3>1, <3>2, FinishSettle, OneResolves DEF DraftInv
    <2>2. CASE D!Resolve(s)
      <3> DEFINE result == CASE ~settle[s].fresh -> "stale"
                             [] ~settle[s].ok -> "failed"
                             [] D!AllClean(s, {k \in Keys : D!IsDirtyNow(k)}) -> "applied"
                             [] OTHER -> "dirty-again"
      <3>1. D!Finish(s, result, settle)
        BY <2>2 DEF D!Resolve
      <3>2. settle[s].fresh \in BOOLEAN /\ settle[s].ok \in BOOLEAN /\ settle[s].targets \in SUBSET Keys
        BY DEF DraftInv, DraftTypes, SettleState
      <3>3. result \in Results
        BY <3>2 DEF Results, Resolutions
      <3>4. result \in Resolutions => D!AllClean(s, {k \in Keys : D!IsDirtyNow(k)})
        BY <3>2 DEF Resolutions
      <3> HIDE DEF result
      <3>5. /\ settle' \in [Settles -> SettleState]
            /\ settle'[s].result = result /\ settle'[s].targets = settle[s].targets
            /\ \A t \in Settles \ {s} : settle'[t] = settle[t]
        BY <3>1, <3>3, FinishSettle DEF DraftInv
      <3>6. settle'[s].result \in Resolutions => \A k \in settle'[s].targets : unapplied'[k] = 0
        BY <1>1, <3>2, <3>4, <3>5, CleanHoldsNone DEF D!AllClean
      <3> QED BY <3>5, <3>6, OneResolves
    <2>3. ASSUME NEW targets \in SUBSET Keys, D!BeginSettle(s, targets)
          PROVE  settle' \in [Settles -> SettleState] /\ ResultsOK'
      <3> DEFINE dirty == {k \in targets : D!IsDirtyNow(k)}
                 others == [t \in Settles |->
                              IF settle[t].targets \cap targets # {} THEN [settle[t] EXCEPT !.fresh = FALSE]
                                                                     ELSE settle[t]]
                 clean == [D!Idle EXCEPT !.targets = targets, !.result = "clean"]
                 asking == [D!Idle EXCEPT !.at = "asking", !.targets = targets, !.dirty = dirty, !.fresh = TRUE]
      <3>1. settle' = IF dirty = {} THEN [settle EXCEPT ![s] = clean] ELSE [others EXCEPT ![s] = asking]
        BY <2>3 DEF D!BeginSettle
      <3>2. clean \in SettleState /\ clean.result = "clean" /\ clean.targets = targets
        BY DEF SettleState, D!Idle, Results, Resolutions
      <3>3. asking \in SettleState /\ asking.result = "none"
        BY DEF SettleState, D!Idle, Results
      <3>4. others \in [Settles -> SettleState] /\ \A t \in Settles : others[t].result = settle[t].result
        <4> SUFFICES ASSUME NEW t \in Settles
                     PROVE  others[t] \in SettleState /\ others[t].result = settle[t].result
          OBVIOUS
        <4>1. settle[t] \in SettleState
          BY DEF DraftInv, DraftTypes
        <4> QED BY <4>1 DEF SettleState
      <3> HIDE DEF clean, asking, others
      <3>5. settle' \in [Settles -> SettleState]
        BY <3>1, <3>2, <3>3, <3>4 DEF DraftInv, DraftTypes
      <3>6. \A t \in Settles \ {s} : settle'[t].result = settle[t].result
        BY <3>1, <3>4 DEF DraftInv, DraftTypes
      <3>7. settle'[s].result \in Resolutions => dirty = {} /\ settle'[s].targets = targets
        BY <3>1, <3>2, <3>3, <3>4 DEF Resolutions, DraftInv, DraftTypes
      <3>8. dirty = {} => \A k \in targets : unapplied'[k] = 0
        BY <1>1, CleanHoldsNone
      <3> QED BY <3>5, <3>6, <3>7, <3>8, OneResolves
    <2> QED BY <2>1, <2>2, <2>3
  <1>3. /\ captured' \in [Keys -> Nat] /\ closed' \in SUBSET Keys
        /\ \A k \in Keys : captured'[k] <= inputs
    BY <1>1 DEF DraftInv, DraftTypes, InputsKept, InputKept
  <1>4. DraftTypes' /\ InputsKept' /\ AppliesTyped' /\ LastApplies'
    BY <1>1, <1>2, <1>3, SameDrafts
  <1> QED BY <1>1, <1>2, <1>4 DEF DraftInv

\* Forms are thrown away that hold no input.
LEMMA ThrowAway ==
  ASSUME DraftInv, NEW keys \in SUBSET Keys, D!ThrownAway(keys), \A k \in keys : unapplied[k] = 0,
         UNCHANGED <<value, raw, baseline, revision, baselineRevision, mounted, captured, applies, stored,
                     unapplied, inputs>>,
         settle' \in [Settles -> SettleState], ResultsOK'
  PROVE  DraftInv'
  <1>1. closed' \in SUBSET Keys /\ (\A k \in closed' : k \in closed \/ unapplied[k] = 0) /\ ~lost'
    BY DEF D!ThrownAway, DraftInv, DraftTypes
  <1>2. captured' \in [Keys -> Nat] /\ \A k \in Keys : captured'[k] <= inputs
    BY DEF DraftInv, DraftTypes, InputsKept, InputKept
  <1>3. DraftTypes' /\ InputsKept' /\ AppliesTyped' /\ LastApplies'
    BY <1>1, <1>2, SameDrafts
  <1> QED BY <1>1, <1>3 DEF DraftInv

LEMMA SettleEnds ==
  ASSUME DraftInv, NEW s \in Settles, D!Close(s) \/ D!Keep(s)
  PROVE  DraftInv'
  <1> USE DEF D!draftVars, D!paneVars, D!counters
  <1>1. /\ UNCHANGED <<value, raw, baseline, revision, baselineRevision, mounted, captured, applies, stored,
                       unapplied, inputs>>
        /\ settle' = [settle EXCEPT ![s] = D!Idle]
    BY DEF D!Close, D!Keep
  <1>2. D!Idle \in SettleState /\ D!Idle.result = "none"
    BY DEF SettleState, D!Idle
  <1>3. settle' \in [Settles -> SettleState]
    BY <1>1, <1>2 DEF DraftInv, DraftTypes
  <1>4. ResultsOK'
    BY <1>1, <1>2 DEF DraftInv, DraftTypes, ResultsOK, Resolutions
  <1>5. CASE D!Close(s)
    <2>1. settle[s].targets \in SUBSET Keys /\ \A k \in settle[s].targets : unapplied[k] = 0
      BY <1>5 DEF D!Close, DraftInv, DraftTypes, SettleState, ResultsOK, Resolutions
    <2> QED BY <1>1, <1>3, <1>4, <1>5, <2>1, ThrowAway DEF D!Close
  <1>6. CASE D!Keep(s)
    <2>1. captured' \in [Keys -> Nat] /\ \A k \in Keys : captured'[k] <= inputs
      BY <1>1 DEF DraftInv, DraftTypes, InputsKept, InputKept
    <2>2. UNCHANGED <<closed, lost>> /\ closed' \in SUBSET Keys
      BY <1>6 DEF D!Keep, DraftInv, DraftTypes
    <2>3. DraftTypes' /\ InputsKept' /\ AppliesTyped' /\ LastApplies'
      BY <1>1, <1>3, <2>1, <2>2, SameDrafts
    <2> QED BY <1>4, <2>2, <2>3 DEF DraftInv
  <1> QED BY <1>5, <1>6

LEMMA LeaveStep ==
  ASSUME DraftInv, D!Leave
  PROVE  DraftInv'
  <1> USE DEF D!draftVars, D!paneVars, D!counters
  <1>1. /\ UNCHANGED <<value, raw, baseline, revision, baselineRevision, mounted, captured, applies, stored,
                       unapplied, settle, inputs>>
        /\ D!ThrownAway(Keys \ closed) /\ \A k \in D!Known : ~D!IsDirtyNow(k)
    BY DEF D!Leave, D!Pending
  <1>2. ASSUME NEW k \in Keys \ closed PROVE unapplied[k] = 0
    <2>1. CASE k \in D!Known
      BY <1>1, <2>1, CleanHoldsNone
    <2>2. CASE k \notin D!Known
      BY <2>2, CleanHoldsNone DEF D!Known, D!IsDirtyNow, D!HeldDirty
    <2> QED BY <2>1, <2>2
  <1>3. settle' \in [Settles -> SettleState] /\ ResultsOK'
    BY <1>1 DEF DraftInv, DraftTypes, ResultsOK
  <1> QED BY <1>1, <1>2, <1>3, ThrowAway
-----------------------------------------------------------------------------
\* One form changes; the others and the settles do not, but for what makes a
\* settle stale.
LEMMA OneForm ==
  ASSUME DraftInv, D!Resolved = {}, NEW k \in Keys, DraftTypes', inputs <= inputs',
         \A j \in Keys \ {k} :
           UNCHANGED <<value[j], raw[j], baseline[j], revision[j], baselineRevision[j], mounted[j], captured[j],
                       unapplied[j], stored[j]>>,
         InputKept(k)', \E r \in Nat : LastApply(k, r)', UNCHANGED <<applies, closed, lost>>,
         \A s \in Settles : settle'[s].result = settle[s].result
  PROVE  DraftInv'
  <1>1. ASSUME NEW j \in Keys \ {k} PROVE InputKept(j)'
    <2>1. InputKept(j)
      BY DEF DraftInv, InputsKept
    <2>2. /\ value[j] \in Nat /\ raw[j].input \in Nat /\ baseline[j] \in Nat /\ captured[j] \in Nat
          /\ unapplied[j] \in Nat /\ inputs \in Nat /\ inputs' \in Nat
      BY DEF DraftInv, DraftTypes
    <2>3. Newest(j)' = Newest(j)
      BY DEF Newest, D!Final
    <2> QED BY <2>1, <2>2, <2>3 DEF InputKept
  <1>2. ASSUME NEW j \in Keys \ {k}, NEW r \in Nat, LastApply(j, r) PROVE LastApply(j, r)'
    BY <1>2 DEF LastApply, D!Final
  <1>3. InputsKept' /\ LastApplies'
    BY <1>1, <1>2 DEF DraftInv, InputsKept, LastApplies
  <1>4. AppliesTyped'
    <2>1. applies \subseteq ApplyState /\ inputs \in Nat /\ inputs' \in Nat
      BY DEF DraftInv, DraftTypes
    <2> QED BY <2>1 DEF DraftInv, AppliesTyped, ApplyState
  <1> QED BY <1>3, <1>4, NoneResolves DEF DraftInv

\* What the types and the invariant say of one form.
LEMMA FormFacts ==
  ASSUME DraftInv, NEW k \in Keys
  PROVE  /\ InputKept(k) /\ \E r \in Nat : LastApply(k, r)
         /\ value[k] \in Nat /\ raw[k] \in [input : Nat, valid : BOOLEAN] /\ baseline[k] \in Nat
         /\ captured[k] \in Nat /\ unapplied[k] \in Nat /\ inputs \in Nat /\ revision[k] \in Nat
         /\ baselineRevision[k] \in Nat /\ mounted[k] \in BOOLEAN /\ D!Final(k) \in Nat
         /\ D!Final(k) <= inputs
  <1>1. InputKept(k) /\ \E r \in Nat : LastApply(k, r)
    BY DEF DraftInv, InputsKept, LastApplies
  <1>2. /\ value[k] \in Nat /\ raw[k] \in [input : Nat, valid : BOOLEAN] /\ baseline[k] \in Nat
        /\ captured[k] \in Nat /\ unapplied[k] \in Nat /\ inputs \in Nat /\ revision[k] \in Nat
        /\ baselineRevision[k] \in Nat /\ mounted[k] \in BOOLEAN
    BY DEF DraftInv, DraftTypes
  <1>3. raw[k].input \in Nat
    BY <1>2
  <1>4. D!Final(k) \in Nat /\ D!Final(k) <= inputs
    BY <1>1, <1>2, <1>3 DEF InputKept, D!Final
  <1> QED BY <1>1, <1>2, <1>4

LEMMA TypeStep ==
  ASSUME DraftInv, D!Resolved = {}, NEW k \in Keys, NEW valid \in BOOLEAN, D!Type(k, valid)
  PROVE  DraftInv'
  <1> DEFINE text == [input |-> inputs + 1, valid |-> valid]
  <1>1. /\ mounted[k] /\ k \notin closed /\ inputs' = inputs + 1
        /\ raw' = [raw EXCEPT ![k] = text] /\ revision' = [revision EXCEPT ![k] = @ + 1]
        /\ unapplied' = [unapplied EXCEPT ![k] = inputs + 1]
        /\ UNCHANGED <<value, baseline, baselineRevision, mounted, captured, applies, settle, stored, closed, lost>>
    BY DEF D!Type, D!paneVars
  <1>2. text \in [input : Nat, valid : BOOLEAN] /\ text.input = inputs + 1 /\ text # D!NoText
    BY FormFacts DEF D!NoText
  <1> HIDE DEF text
  <1>3. DraftTypes'
    BY <1>1, <1>2 DEF DraftInv, DraftTypes
  <1>4. raw'[k] = text /\ unapplied'[k] = inputs + 1 /\ revision'[k] = revision[k] + 1
    BY <1>1 DEF DraftInv, DraftTypes
  <1>5. D!Final(k)' = inputs + 1
    BY <1>2, <1>4 DEF D!Final
  <1>6. InputKept(k)'
    BY <1>1, <1>2, <1>4, <1>5, FormFacts DEF InputKept, Newest
  <1>7. ASSUME NEW r \in Nat, LastApply(k, r) PROVE LastApply(k, r)'
    BY <1>1, <1>4, <1>7, FormFacts DEF LastApply
  <1>8. \A j \in Keys \ {k} : UNCHANGED <<raw[j], revision[j], unapplied[j]>>
    BY <1>1 DEF DraftInv, DraftTypes
  <1> QED BY <1>1, <1>3, <1>6, <1>7, <1>8, FormFacts, OneForm

LEMMA CommitStep ==
  ASSUME DraftInv, D!Resolved = {}, NEW k \in Keys, D!Commit(k)
  PROVE  DraftInv'
  <1>1. /\ raw[k] # D!NoText
        /\ value' = [value EXCEPT ![k] = raw[k].input] /\ raw' = [raw EXCEPT ![k] = D!NoText]
        /\ revision' = [revision EXCEPT ![k] = @ + 1]
        /\ UNCHANGED <<baseline, baselineRevision, mounted, captured, applies, settle, stored, unapplied, closed,
                       lost, inputs>>
    BY DEF D!Commit, D!paneVars, D!counters
  <1>2. D!NoText \in [input : Nat, valid : BOOLEAN] /\ D!NoText.input = 0
    BY DEF D!NoText
  <1>3. raw[k].input \in Nat
    BY FormFacts
  <1>4. DraftTypes'
    BY <1>1, <1>2, <1>3 DEF DraftInv, DraftTypes
  <1>5. raw'[k] = D!NoText /\ value'[k] = raw[k].input /\ revision'[k] = revision[k] + 1
    BY <1>1 DEF DraftInv, DraftTypes
  <1>6. D!Final(k)' = D!Final(k)
    BY <1>1, <1>5 DEF D!Final
  <1>7. InputKept(k)'
    BY <1>1, <1>2, <1>5, <1>6, FormFacts DEF InputKept, Newest
  <1>8. ASSUME NEW r \in Nat, LastApply(k, r) PROVE LastApply(k, r)'
    BY <1>1, <1>5, <1>8, FormFacts DEF LastApply
  <1>9. \A j \in Keys \ {k} : UNCHANGED <<value[j], raw[j], revision[j]>>
    BY <1>1 DEF DraftInv, DraftTypes
  <1> QED BY <1>1, <1>4, <1>7, <1>8, <1>9, FormFacts, OneForm

LEMMA CaptureStep ==
  ASSUME DraftInv, D!Resolved = {}, NEW k \in Keys, D!Capture(k)
  PROVE  DraftInv'
  <1>1. /\ mounted[k] /\ captured' = [captured EXCEPT ![k] = D!Final(k)]
        /\ UNCHANGED <<value, raw, baseline, revision, baselineRevision, mounted, applies, settle, stored,
                       unapplied, closed, lost, inputs>>
    BY DEF D!Capture, D!draftVars, D!counters
  <1>2. captured' \in [Keys -> Nat] /\ \A j \in Keys : /\ captured'[j] <= inputs
                                                       /\ captured'[j] = captured[j] \/ mounted[j]
    BY <1>1, FormFacts DEF DraftInv, DraftTypes, InputsKept, InputKept
  <1>3. settle' \in [Settles -> SettleState] /\ closed' \in SUBSET Keys /\ ResultsOK'
    BY <1>1 DEF DraftInv, DraftTypes, ResultsOK
  <1>4. DraftTypes' /\ InputsKept' /\ AppliesTyped' /\ LastApplies'
    BY <1>1, <1>2, <1>3, SameDrafts
  <1> QED BY <1>1, <1>3, <1>4 DEF DraftInv

\* The pane goes with what was captured ...
LEMMA UnregisterStep ==
  ASSUME DraftInv, D!Resolved = {}, NEW k \in Keys, D!Unregister(k)
  PROVE  DraftInv'
  <1>1. /\ mounted[k] /\ captured[k] = D!Final(k) /\ mounted' = [mounted EXCEPT ![k] = FALSE]
        /\ settle' = D!Staled(k)
        /\ value' = [value EXCEPT ![k] = baseline[k]] /\ raw' = [raw EXCEPT ![k] = D!NoText]
        /\ UNCHANGED <<baseline, revision, baselineRevision, captured, applies, stored, unapplied, closed, lost,
                       inputs>>
    BY DEF D!Unregister
  <1>2. D!NoText \in [input : Nat, valid : BOOLEAN] /\ D!NoText.input = 0
    BY DEF D!NoText
  <1>3. settle' \in [Settles -> SettleState] /\ \A s \in Settles : settle'[s].result = settle[s].result
    BY <1>1, StaledSettles DEF DraftInv
  <1>4. DraftTypes'
    BY <1>1, <1>2, <1>3, FormFacts DEF DraftInv, DraftTypes
  <1>5. raw'[k] = D!NoText /\ value'[k] = baseline[k] /\ ~mounted'[k]
    BY <1>1 DEF DraftInv, DraftTypes
  <1>6. InputKept(k)'
    BY <1>1, <1>2, <1>5, FormFacts DEF InputKept, Newest
  <1>7. ASSUME NEW r \in Nat, LastApply(k, r) PROVE LastApply(k, r)'
    BY <1>1, <1>5, <1>7 DEF LastApply
  <1>8. \A j \in Keys \ {k} : UNCHANGED <<value[j], raw[j], mounted[j]>>
    BY <1>1 DEF DraftInv, DraftTypes
  <1>9. (\E r \in Nat : LastApply(k, r)') /\ inputs <= inputs'
    BY <1>1, <1>7, FormFacts
  <1> QED BY <1>1, <1>3, <1>4, <1>6, <1>8, <1>9, OneForm

\* ... and shows it when it comes back.
LEMMA RegisterStep ==
  ASSUME DraftInv, D!Resolved = {}, NEW k \in Keys, D!Register(k)
  PROVE  DraftInv'
  <1>1. /\ ~mounted[k] /\ mounted' = [mounted EXCEPT ![k] = TRUE] /\ captured' = [captured EXCEPT ![k] = 0]
        /\ settle' = D!Staled(k)
        /\ value' = IF captured[k] # 0 THEN [value EXCEPT ![k] = captured[k]] ELSE value
        /\ revision' = [revision EXCEPT ![k] = @ + 1]
        /\ UNCHANGED <<raw, baseline, baselineRevision, applies, stored, unapplied, closed, lost, inputs>>
    BY DEF D!Register, D!counters
  <1>2. settle' \in [Settles -> SettleState] /\ \A s \in Settles : settle'[s].result = settle[s].result
    BY <1>1, StaledSettles DEF DraftInv
  <1>3. DraftTypes'
    BY <1>1, <1>2, FormFacts DEF DraftInv, DraftTypes
  <1>4. /\ mounted'[k] /\ captured'[k] = 0 /\ revision'[k] = revision[k] + 1
        /\ value'[k] = IF captured[k] # 0 THEN captured[k] ELSE value[k]
    BY <1>1 DEF DraftInv, DraftTypes
  <1>5. raw[k] = D!NoText
    BY <1>1, FormFacts DEF InputKept
  <1>6. captured[k] # 0 => Newest(k)' = Newest(k)
    BY <1>1, <1>4, <1>5 DEF Newest, D!Final
  <1>7. captured[k] = 0 => unapplied[k] = 0
    BY <1>1, FormFacts DEF InputKept, Newest
  <1>8. InputKept(k)'
    BY <1>1, <1>4, <1>5, <1>6, <1>7, FormFacts DEF InputKept
  <1>9. ASSUME NEW r \in Nat, LastApply(k, r) PROVE LastApply(k, r)'
    BY <1>1, <1>4, <1>9, FormFacts DEF LastApply
  <1>10. \A j \in Keys \ {k} : UNCHANGED <<value[j], mounted[j], captured[j], revision[j]>>
    BY <1>1 DEF DraftInv, DraftTypes
  <1>11. (\E r \in Nat : LastApply(k, r)') /\ inputs <= inputs'
    BY <1>1, <1>9, FormFacts
  <1> QED BY <1>1, <1>2, <1>3, <1>8, <1>10, <1>11, OneForm

\* What was dirty is thrown away by the person's word.
LEMMA DiscardStep ==
  ASSUME DraftInv, D!Resolved = {}, NEW s \in Settles, D!Discard(s)
  PROVE  DraftInv'
  <1> DEFINE mine == settle[s].dirty
             here == {k \in mine : mounted[k]}
             dirty == {k \in Keys : D!IsDirtyNow(k)} \ mine
             result == IF D!AllClean(s, dirty) THEN "discarded" ELSE "dirty-again"
  <1>1. /\ value' = [k \in Keys |-> IF k \in here THEN baseline[k] ELSE value[k]]
        /\ raw' = [k \in Keys |-> IF k \in here THEN D!NoText ELSE raw[k]]
        /\ revision' = [k \in Keys |-> IF k \in here THEN revision[k] + 1 ELSE revision[k]]
        /\ captured' = [k \in Keys |-> IF k \in mine \ here THEN 0 ELSE captured[k]]
        /\ unapplied' = [k \in Keys |-> IF k \in mine THEN 0 ELSE unapplied[k]]
        /\ D!Finish(s, result, settle)
        /\ UNCHANGED <<baseline, baselineRevision, mounted, applies, stored, closed, lost, inputs>>
    BY DEF D!Discard, D!counters
  <1>2. D!NoText \in [input : Nat, valid : BOOLEAN] /\ D!NoText.input = 0
    BY DEF D!NoText
  <1>3. mine \in SUBSET Keys /\ settle[s].targets \in SUBSET Keys
    BY DEF DraftInv, DraftTypes, SettleState
  <1>4. result \in Results /\ (result \in Resolutions => D!AllClean(s, dirty))
    BY DEF Results, Resolutions
  <1> HIDE DEF result
  <1>5. /\ settle' \in [Settles -> SettleState]
        /\ settle'[s].result = result /\ settle'[s].targets = settle[s].targets
        /\ \A t \in Settles \ {s} : settle'[t] = settle[t]
    BY <1>1, <1>4, FinishSettle DEF DraftInv
  <1>6. settle'[s].result \in Resolutions => \A k \in settle'[s].targets : unapplied'[k] = 0
    <2> SUFFICES ASSUME D!AllClean(s, dirty), NEW k \in settle[s].targets PROVE unapplied'[k] = 0
      BY <1>4, <1>5
    <2>1. CASE k \in mine
      BY <1>1, <1>3, <2>1
    <2>2. CASE k \notin mine
      <3>1. ~D!IsDirtyNow(k)
        BY <1>3, <2>2 DEF D!AllClean
      <3>2. unapplied[k] = 0
        BY <1>3, <3>1, CleanHoldsNone
      <3> QED BY <1>1, <1>3, <2>2, <3>2
    <2> QED BY <2>1, <2>2
  <1>7. ResultsOK'
    BY <1>5, <1>6, OneResolves
  <1>8. DraftTypes'
    BY <1>1, <1>2, <1>5 DEF DraftInv, DraftTypes
  <1>9. ASSUME NEW k \in Keys PROVE InputKept(k)' /\ \E r \in Nat : LastApply(k, r)'
    <2>1. CASE k \in here
      <3>1. /\ value'[k] = baseline[k] /\ raw'[k] = D!NoText /\ revision'[k] = revision[k] + 1
            /\ captured'[k] = captured[k] /\ unapplied'[k] = 0 /\ mounted[k]
        BY <1>1, <2>1
      <3>2. InputKept(k)'
        BY <1>1, <1>2, <3>1, FormFacts DEF InputKept
      <3>3. ASSUME NEW r \in Nat, LastApply(k, r) PROVE LastApply(k, r)'
        BY <1>1, <3>1, <3>3, FormFacts DEF LastApply
      <3> QED BY <3>2, <3>3, FormFacts
    <2>2. CASE k \notin here
      <3>1. /\ value'[k] = value[k] /\ raw'[k] = raw[k] /\ revision'[k] = revision[k]
            /\ mounted'[k] = mounted[k]
            /\ IF k \in mine THEN captured'[k] = 0 /\ unapplied'[k] = 0
                             ELSE captured'[k] = captured[k] /\ unapplied'[k] = unapplied[k]
        BY <1>1, <2>2
      <3>2. D!Final(k)' = D!Final(k)
        BY <3>1 DEF D!Final
      <3>3. InputKept(k)'
        BY <1>1, <3>1, <3>2, FormFacts DEF InputKept, Newest
      <3>4. ASSUME NEW r \in Nat, LastApply(k, r) PROVE LastApply(k, r)'
        BY <1>1, <3>1, <3>2, <3>4 DEF LastApply
      <3> QED BY <3>3, <3>4, FormFacts
    <2> QED BY <2>1, <2>2
  <1> QED BY <1>1, <1>7, <1>8, <1>9 DEF DraftInv, InputsKept, LastApplies, AppliesTyped

\* A snapshot is sent of every form that is to be applied.
LEMMA ApplyStep ==
  ASSUME DraftInv, D!Resolved = {}, NEW s \in Settles, NEW refused \in SUBSET Keys, D!Apply(s, refused)
  PROVE  DraftInv'
  <1> DEFINE sent == {k \in settle[s].dirty : mounted[k] /\ D!CommitAllOk(k)}
             snapped(k) == [settle |-> s, key |-> k, input |-> D!Final(k), revision |-> D!Committed(k),
                            ok |-> k \notin refused]
  <1>1. /\ value' = [k \in Keys |-> IF k \in sent THEN D!Final(k) ELSE value[k]]
        /\ raw' = [k \in Keys |-> IF k \in sent THEN D!NoText ELSE raw[k]]
        /\ revision' = [k \in Keys |-> IF k \in sent THEN D!Committed(k) ELSE revision[k]]
        /\ applies' = applies \cup {snapped(k) : k \in sent}
        /\ stored' = [k \in Keys |-> IF k \in sent \ refused THEN D!Final(k) ELSE stored[k]]
        /\ settle' = [settle EXCEPT ![s].at = "applying", ![s].ok = (sent = settle[s].dirty)]
        /\ UNCHANGED <<baseline, baselineRevision, mounted, captured, unapplied, closed, lost, inputs>>
    BY DEF D!Apply, D!paneVars
  <1>2. D!NoText \in [input : Nat, valid : BOOLEAN] /\ D!NoText.input = 0
    BY DEF D!NoText
  <1>3. \A k \in sent : k \in Keys /\ mounted[k]
    BY DEF DraftInv, DraftTypes, SettleState
  <1>4. \A k \in Keys : D!Committed(k) \in {revision[k], revision[k] + 1} /\ D!Committed(k) \in Nat
    BY FormFacts DEF D!Committed
  <1>5. \A k \in sent : /\ snapped(k) \in ApplyState /\ snapped(k).key = k /\ snapped(k).input = D!Final(k)
                        /\ snapped(k).revision = D!Committed(k) /\ (snapped(k).ok <=> k \notin refused)
    BY <1>3, <1>4, FormFacts DEF ApplyState
  <1>6. settle' \in [Settles -> SettleState] /\ \A t \in Settles : settle'[t].result = settle[t].result
    <2>1. settle[s] \in SettleState
      BY DEF DraftInv, DraftTypes
    <2> QED BY <1>1, <2>1 DEF DraftInv, DraftTypes, SettleState
  <1> HIDE DEF snapped, sent
  <1>7. DraftTypes'
    <2>1. applies' \subseteq ApplyState
      BY <1>1, <1>5 DEF DraftInv, DraftTypes
    <2> QED BY <1>1, <1>2, <1>4, <1>6, <2>1, FormFacts DEF DraftInv, DraftTypes
  <1>8. AppliesTyped'
    <2> SUFFICES ASSUME NEW a \in applies' PROVE a.input <= inputs
      BY <1>1 DEF AppliesTyped
    <2>1. CASE a \in applies
      BY <2>1 DEF DraftInv, AppliesTyped
    <2>2. ASSUME NEW k \in sent, a = snapped(k) PROVE a.input <= inputs
      BY <1>3, <1>5, <2>2, FormFacts
    <2> QED BY <1>1, <2>1, <2>2
  <1>9. ASSUME NEW k \in Keys PROVE InputKept(k)' /\ \E r \in Nat : LastApply(k, r)'
    <2>1. PICK r \in Nat : LastApply(k, r)
      BY FormFacts
    <2>2. CASE k \notin sent
      <3>1. /\ value'[k] = value[k] /\ raw'[k] = raw[k] /\ revision'[k] = revision[k] /\ stored'[k] = stored[k]
            /\ mounted'[k] = mounted[k] /\ captured'[k] = captured[k] /\ unapplied'[k] = unapplied[k]
        BY <1>1, <2>2
      <3>2. D!Final(k)' = D!Final(k)
        BY <3>1 DEF D!Final
      <3>3. InputKept(k)'
        BY <1>1, <3>1, <3>2, FormFacts DEF InputKept, Newest
      <3>4. \A a \in applies' : a.key = k => a \in applies
        BY <1>1, <1>5, <2>2
      <3>5. LastApply(k, r)'
        BY <1>1, <2>1, <3>1, <3>2, <3>4 DEF LastApply
      <3> QED BY <3>3, <3>5
    <2>3. CASE k \in sent
      <3>1. /\ value'[k] = D!Final(k) /\ raw'[k] = D!NoText /\ revision'[k] = D!Committed(k)
            /\ mounted[k] /\ mounted'[k] = mounted[k] /\ captured'[k] = captured[k]
            /\ unapplied'[k] = unapplied[k]
            /\ stored'[k] = IF k \in refused THEN stored[k] ELSE D!Final(k)
        BY <1>1, <1>3, <2>3
      <3>2. D!Final(k)' = D!Final(k)
        BY <3>1 DEF D!Final
      <3>3. InputKept(k)'
        BY <1>1, <1>2, <3>1, <3>2, FormFacts DEF InputKept, Newest
      <3>4. \A a \in applies' : a.key = k => a \in applies \/ a = snapped(k)
        BY <1>1, <1>5
      <3>5. \/ raw[k] # D!NoText /\ D!Committed(k) = revision[k] + 1
            \/ raw[k] = D!NoText /\ D!Committed(k) = revision[k]
        BY DEF D!Committed
      <3>6. /\ snapped(k) \in applies' /\ snapped(k).key = k /\ snapped(k).input = D!Final(k)
            /\ snapped(k).revision = D!Committed(k) /\ (snapped(k).ok <=> k \notin refused)
        BY <1>1, <1>5, <2>3
      <3>7. CASE k \in refused
        <4>1. \A a \in applies' : a.key = k /\ a.ok => a \in applies
          BY <3>4, <3>6, <3>7
        <4>2. applies \subseteq applies'
          BY <1>1
        <4>3. LastApply(k, r)'
          BY <1>1, <2>1, <3>1, <3>2, <3>5, <3>7, <4>1, <4>2, FormFacts DEF LastApply
        <4> QED BY <3>3, <4>3
      <3>8. CASE k \notin refused
        <4>0. PICK q \in Nat : q = D!Committed(k)
          BY <1>4
        <4>1. r <= q /\ baselineRevision[k] \in Nat /\ stored'[k] = D!Final(k)
          BY <4>0, <2>1, <3>1, <3>5, <3>8, FormFacts DEF LastApply
        <4>2. q = r => D!Final(k) = stored[k] /\ raw[k] = D!NoText
          BY <4>0, <2>1, <3>1, <3>5, FormFacts DEF LastApply
        <4>3. \A a \in applies : a.revision \in Nat
          BY DEF DraftInv, DraftTypes, ApplyState
        <4>4. \A a \in applies' : a.key = k /\ a.ok => a.revision <= q /\ (a.revision = q => a.input = stored'[k])
          BY <2>1, <3>4, <3>6, <4>0, <4>1, <4>2, <4>3 DEF LastApply
        <4>5. baselineRevision[k] <= q /\ (baselineRevision[k] = q => baseline[k] = stored'[k])
          BY <2>1, <4>1, <4>2 DEF LastApply
        <4>6. \E a \in applies' : a.key = k /\ a.ok /\ a.revision = q
          BY <3>6, <3>8, <4>0
        <4>7. LastApply(k, q)'
          BY <1>1, <3>1, <3>2, <4>0, <4>1, <4>4, <4>5, <4>6 DEF LastApply
        <4> QED BY <3>3, <4>7
      <3> QED BY <3>7, <3>8
    <2> QED BY <2>2, <2>3
  <1> QED BY <1>1, <1>6, <1>7, <1>8, <1>9, NoneResolves DEF DraftInv, InputsKept, LastApplies

\* An answer: the baseline follows the newest accepted apply, in any order of
\* the answers.
LEMMA AppliedStep ==
  ASSUME DraftInv, D!Resolved = {}, NEW a \in applies, D!Applied(a)
  PROVE  DraftInv'
  <1>1. /\ a.ok /\ applies' = applies \ {a}
        /\ IF D!IsOlder(a)
             THEN UNCHANGED <<baseline, baselineRevision>>
             ELSE /\ baseline' = [baseline EXCEPT ![a.key] = a.input]
                  /\ baselineRevision' = [baselineRevision EXCEPT ![a.key] = a.revision]
        /\ unapplied' = [unapplied EXCEPT ![a.key] = IF unapplied[a.key] <= a.input THEN 0 ELSE unapplied[a.key]]
        /\ UNCHANGED <<value, raw, revision, mounted, captured, settle, stored, closed, lost, inputs>>
    BY DEF D!Applied, D!AppliedValue, D!paneVars, D!counters
  <1>2. a.key \in Keys /\ a.input \in Nat /\ a.revision \in Nat /\ a.input <= inputs
    BY DEF DraftInv, DraftTypes, ApplyState, AppliesTyped
  <1>3. DraftTypes'
    BY <1>1, <1>2 DEF DraftInv, DraftTypes
  <1>4. \A k \in Keys : D!Final(k)' = D!Final(k) /\ Newest(k)' = Newest(k)
    BY <1>1 DEF D!Final, Newest
  <1>5. ASSUME NEW k \in Keys PROVE InputKept(k)' /\ \E r \in Nat : LastApply(k, r)'
    <2>1. PICK r \in Nat : LastApply(k, r)
      BY FormFacts
    <2>2. CASE k # a.key
      <3>1. baseline'[k] = baseline[k] /\ baselineRevision'[k] = baselineRevision[k] /\ unapplied'[k] = unapplied[k]
        BY <1>1, <2>2 DEF DraftInv, DraftTypes
      <3>2. InputKept(k)'
        BY <1>1, <1>4, <3>1, FormFacts DEF InputKept
      <3>3. LastApply(k, r)'
        BY <1>1, <1>4, <2>1, <2>2, <3>1 DEF LastApply
      <3> QED BY <3>2, <3>3
    <2>3. CASE k = a.key
      <3>1. /\ IF a.revision < baselineRevision[k]
                 THEN baseline'[k] = baseline[k] /\ baselineRevision'[k] = baselineRevision[k]
                 ELSE baseline'[k] = a.input /\ baselineRevision'[k] = a.revision
            /\ unapplied'[k] = IF unapplied[k] <= a.input THEN 0 ELSE unapplied[k]
        BY <1>1, <2>3 DEF D!IsOlder, DraftInv, DraftTypes
      <3>2. InputKept(k)'
        BY <1>1, <1>2, <1>4, <3>1, FormFacts DEF InputKept
      <3>3. a.revision <= r /\ (a.revision = r => a.input = stored[k])
        BY <1>1, <2>1, <2>3 DEF LastApply
      <3>4. baselineRevision'[k] <= r /\ (baselineRevision'[k] = r => baseline'[k] = stored[k])
        BY <1>2, <2>1, <3>1, <3>3, FormFacts DEF LastApply
      <3>5. ASSUME baselineRevision'[k] # r
            PROVE  \E b \in applies \ {a} : b.key = k /\ b.ok /\ b.revision = r
        <4>1. baselineRevision[k] # r /\ a.revision # r
          BY <1>2, <2>1, <3>1, <3>3, <3>5, FormFacts DEF LastApply
        <4> QED BY <2>1, <4>1 DEF LastApply
      <3>6. LastApply(k, r)'
        BY <1>1, <1>4, <2>1, <3>4, <3>5 DEF LastApply
      <3> QED BY <3>2, <3>6
    <2> QED BY <2>2, <2>3
  <1>6. AppliesTyped'
    BY <1>1 DEF DraftInv, AppliesTyped
  <1>7. ResultsOK'
    BY <1>1, NoneResolves
  <1> QED BY <1>1, <1>3, <1>5, <1>6, <1>7 DEF DraftInv, InputsKept, LastApplies

LEMMA RefusedStep ==
  ASSUME DraftInv, D!Resolved = {}, NEW a \in applies, D!Refused(a)
  PROVE  DraftInv'
  <1>1. /\ ~a.ok /\ applies' = applies \ {a} /\ settle' = [settle EXCEPT ![a.settle].ok = FALSE]
        /\ UNCHANGED <<value, raw, baseline, revision, baselineRevision, mounted, captured, stored, unapplied,
                       closed, lost, inputs>>
    BY DEF D!Refused, D!draftVars, D!paneVars, D!counters
  <1>2. settle' \in [Settles -> SettleState] /\ \A t \in Settles : settle'[t].result = settle[t].result
    <2>1. a.settle \in Settles /\ settle[a.settle] \in SettleState
      BY DEF DraftInv, DraftTypes, ApplyState
    <2> QED BY <1>1, <2>1 DEF DraftInv, DraftTypes, SettleState
  <1>3. DraftTypes'
    BY <1>1, <1>2 DEF DraftInv, DraftTypes
  <1>4. ASSUME NEW k \in Keys PROVE InputKept(k)' /\ \E r \in Nat : LastApply(k, r)'
    <2>1. InputKept(k)'
      BY <1>1, FormFacts DEF InputKept, Newest, D!Final
    <2>2. ASSUME NEW r \in Nat, LastApply(k, r) PROVE LastApply(k, r)'
      BY <1>1, <2>2 DEF LastApply, D!Final
    <2> QED BY <2>1, <2>2, FormFacts
  <1>5. AppliesTyped'
    BY <1>1 DEF DraftInv, AppliesTyped
  <1>6. ResultsOK'
    BY <1>2, NoneResolves
  <1> QED BY <1>1, <1>3, <1>4, <1>5, <1>6 DEF DraftInv, InputsKept, LastApplies

LEMMA DraftStep == DraftInv /\ [D!Next]_(D!vars) => DraftInv'
  <1> SUFFICES ASSUME DraftInv, [D!Next]_(D!vars) PROVE DraftInv'
    OBVIOUS
  <1>1. CASE D!Resolved # {} /\ D!Next
    BY <1>1, SettleEnds DEF D!Next, D!Resolved
  <1>2. CASE D!Resolved = {} /\ D!Next
    <2>1. CASE \E k \in Keys : D!Commit(k) \/ D!Capture(k) \/ D!Unregister(k) \/ D!Register(k)
      BY <1>2, <2>1, CommitStep, CaptureStep, UnregisterStep, RegisterStep
    <2>2. CASE \E k \in Keys, valid \in BOOLEAN : D!Type(k, valid)
      BY <1>2, <2>2, TypeStep
    <2>3. CASE \E s \in Settles, targets \in SUBSET Keys : D!BeginSettle(s, targets)
      BY <1>2, <2>3, SettleStays
    <2>4. CASE \E s \in Settles : D!NotResolved(s) \/ D!Discard(s) \/ D!Resolve(s)
      BY <1>2, <2>4, SettleStays, DiscardStep
    <2>5. CASE \E s \in Settles, refused \in SUBSET Keys : D!Apply(s, refused)
      BY <1>2, <2>5, ApplyStep
    <2>6. CASE \E a \in applies : D!Applied(a) \/ D!Refused(a)
      BY <1>2, <2>6, AppliedStep, RefusedStep
    <2>7. CASE D!Leave
      BY <2>7, LeaveStep
    <2> QED BY <1>2, <2>1, <2>2, <2>3, <2>4, <2>5, <2>6, <2>7 DEF D!Next
  <1>3. CASE UNCHANGED D!vars
    <2>1. UNCHANGED <<value, raw, baseline, revision, baselineRevision, mounted, captured, applies, settle, stored,
                      unapplied, closed, lost, inputs>>
      BY <1>3 DEF D!vars, D!draftVars, D!paneVars, D!counters
    <2>2. ASSUME NEW k \in Keys PROVE InputKept(k)' /\ \E r \in Nat : LastApply(k, r)'
      <3>1. InputKept(k)'
        BY <2>1, FormFacts DEF InputKept, Newest, D!Final
      <3>2. ASSUME NEW r \in Nat, LastApply(k, r) PROVE LastApply(k, r)'
        BY <2>1, <3>2 DEF LastApply, D!Final
      <3> QED BY <3>1, <3>2, FormFacts
    <2>3. DraftTypes' /\ AppliesTyped' /\ ResultsOK' /\ ~lost'
      BY <2>1 DEF DraftInv, DraftTypes, AppliesTyped, ResultsOK
    <2> QED BY <2>2, <2>3 DEF DraftInv, InputsKept, LastApplies
  <1> QED BY <1>1, <1>2, <1>3

LEMMA DraftSafe == DraftInv => D!NoInputIsLost
  <1> SUFFICES ASSUME DraftInv PROVE D!CleanDraftIsStored
    BY DEF DraftInv, D!NoInputIsLost, D!NoInputIsThrownAway
  <1> SUFFICES ASSUME NEW k \in Keys, ~D!IsDirty(k), ~(\E a \in applies : a.key = k)
               PROVE  value[k] = stored[k]
    BY DEF D!CleanDraftIsStored
  <1>1. PICK r \in Nat : LastApply(k, r)
    BY FormFacts
  <1>2. baseline[k] = stored[k]
    BY <1>1 DEF LastApply
  <1> QED BY <1>2 DEF D!IsDirty

-----------------------------------------------------------------------------
(* ChangeFeed: a list that is behind has its update on its way.            *)

FeedLoads == [latest : BOOLEAN, at : {"asked", "read"}, rows : Nat]

\* A tab reads the stream of the token it asked with, a stream that ended
\* before its connection did was the stream of a revoked token, and without one
\* nothing is held for it.
LinkInv ==
    /\ link \in {"none", "asking", "accepted", "open"}
    /\ link # "none" => used = feedAsked
    /\ link \in {"accepted", "open"} => stream \/ feedAsked \in revoked
    /\ ~stream => queue = <<>> /\ lag = {}

LoadInv == \A l, m \in feedLoads : l.latest /\ m.latest => l = m

\* The list shows all there is and no load can change that.
Settled == feedShown = db /\ \A l \in feedLoads : ~l.latest

Excused == failed \/ missed \/ token \in revoked \cup {F!NoToken}

FeedInv ==
    /\ db \in Nat /\ owed \in Nat
    /\ queue \in Seq(F!Kinds) /\ wire \in Seq(F!Kinds) /\ feedLoads \subseteq FeedLoads
    /\ LinkInv /\ LoadInv
    /\ Settled \/ F!UpdateIsOnItsWay \/ Excused

LEMMA FeedInit == F!Init => FeedInv
  <1> SUFFICES ASSUME F!Init PROVE FeedInv
    OBVIOUS
  <1> DEFINE l == [latest |-> TRUE, at |-> "asked", rows |-> 0]
  <1>1. feedLoads = {l} /\ l \in FeedLoads /\ l.latest /\ l.at = "asked"
    BY DEF F!Init, FeedLoads
  <1> HIDE DEF l
  <1>2. F!UpdateIsOnItsWay
    BY <1>1 DEF F!UpdateIsOnItsWay
  <1>3. LoadInv
    BY <1>1 DEF LoadInv
  <1>4. <<>> \in Seq(F!Kinds) /\ link = "none"
    BY DEF F!Init
  <1> QED BY <1>1, <1>2, <1>3, <1>4 DEF F!Init, FeedInv, LinkInv

\* What an event put behind others, or taken from before them, leaves.
LEMMA HeldAfterAppend ==
  ASSUME NEW s \in Seq(F!Kinds), NEW k \in F!Kinds
  PROVE  /\ Append(s, k) \in Seq(F!Kinds)
         /\ F!Held(Append(s, k)) = F!Held(s) \cup {k}
  <1>1. /\ Len(Append(s, k)) = Len(s) + 1 /\ Len(s) \in Nat
        /\ Append(s, k)[Len(s) + 1] = k
        /\ \A i \in 1 .. Len(s) : Append(s, k)[i] = s[i]
    OBVIOUS
  <1>2. 1 .. (Len(s) + 1) = (1 .. Len(s)) \cup {Len(s) + 1}
    BY <1>1
  <1>3. Append(s, k) \in Seq(F!Kinds)
    OBVIOUS
  <1> QED BY <1>1, <1>2, <1>3 DEF F!Held

LEMMA HeldWithoutHead ==
  ASSUME NEW s \in Seq(F!Kinds), s # <<>>
  PROVE  /\ Head(s) \in F!Kinds /\ Tail(s) \in Seq(F!Kinds)
         /\ F!Held(s) = {Head(s)} \cup F!Held(Tail(s))
  <1>1. /\ Len(s) \in Nat \ {0} /\ Len(Tail(s)) = Len(s) - 1 /\ Head(s) = s[1]
        /\ \A i \in 1 .. (Len(s) - 1) : Tail(s)[i] = s[i + 1]
        /\ Head(s) \in F!Kinds /\ Tail(s) \in Seq(F!Kinds)
    OBVIOUS
  <1>2. ASSUME NEW x \in F!Held(s) PROVE x \in {Head(s)} \cup F!Held(Tail(s))
    <2>1. PICK i \in 1 .. Len(s) : s[i] = x
      BY <1>2 DEF F!Held
    <2>2. CASE i = 1
      BY <1>1, <2>1, <2>2
    <2>3. CASE i # 1
      <3>1. i - 1 \in 1 .. Len(Tail(s)) /\ Tail(s)[i - 1] = x
        BY <1>1, <2>1, <2>3
      <3> QED BY <3>1 DEF F!Held
    <2> QED BY <2>2, <2>3
  <1>3. ASSUME NEW x \in {Head(s)} \cup F!Held(Tail(s)) PROVE x \in F!Held(s)
    <2>1. CASE x = Head(s)
      <3>1. 1 \in 1 .. Len(s)
        BY <1>1
      <3> QED BY <1>1, <2>1, <3>1 DEF F!Held
    <2>2. CASE x \in F!Held(Tail(s))
      <3>1. PICK i \in 1 .. Len(Tail(s)) : Tail(s)[i] = x
        BY <2>2 DEF F!Held
      <3>2. i + 1 \in 1 .. Len(s) /\ s[i + 1] = x
        BY <1>1, <3>1
      <3> QED BY <3>2 DEF F!Held
    <2> QED BY <1>3, <2>1, <2>2
  <1> QED BY <1>1, <1>2, <1>3

\* A load that was just begun will show all there is.
LEMMA BegunIsOnItsWay ==
  ASSUME feedLoads \subseteq FeedLoads, F!BeginLoad
  PROVE  /\ feedLoads' \subseteq FeedLoads /\ LoadInv'
         /\ F!UpdateIsOnItsWay'
  <1> DEFINE n == [latest |-> TRUE, at |-> "asked", rows |-> 0]
             Old == {[l EXCEPT !.latest = FALSE] : l \in feedLoads}
  <1>1. feedLoads' = Old \cup {n}
    BY DEF F!BeginLoad
  <1>2. n \in FeedLoads /\ n.latest /\ n.at = "asked"
    BY DEF FeedLoads
  <1>3. \A l \in Old : l \in FeedLoads /\ ~l.latest
    BY DEF FeedLoads
  <1> HIDE DEF n, Old
  <1>4. feedLoads' \subseteq FeedLoads
    BY <1>1, <1>2, <1>3
  <1>5. LoadInv'
    BY <1>1, <1>3 DEF LoadInv
  <1>6. F!UpdateIsOnItsWay'
    <2>1. \E l \in feedLoads' : l.latest /\ (l.at = "read" => l.rows = db')
      BY <1>1, <1>2
    <2> QED BY <2>1 DEF F!UpdateIsOnItsWay
  <1> QED BY <1>4, <1>5, <1>6

\* A receiver keeps what is sent, or knows that it lost it, and what it had.
LEMMA SendHolds ==
  ASSUME queue \in Seq(F!Kinds), stream, NEW kind \in F!Kinds, F!Send(kind)
  PROVE  /\ queue' \in Seq(F!Kinds) /\ missed' = missed
         /\ F!Held(queue') \cup lag' = F!Held(queue) \cup lag \cup {kind}
  <1>0. missed' = missed
    BY DEF F!Send
  <1>1. CASE Len(queue) = Capacity
    <2>1. queue' = Append(Tail(queue), kind) /\ lag' = lag \cup {Head(queue)}
      BY <1>1 DEF F!Send
    <2>2. queue # <<>>
      BY <1>1, CapacityIsPositive
    <2>3. /\ Tail(queue) \in Seq(F!Kinds)
          /\ F!Held(queue) = {Head(queue)} \cup F!Held(Tail(queue))
      BY <2>2, HeldWithoutHead
    <2>4. queue' \in Seq(F!Kinds) /\ F!Held(queue') = F!Held(Tail(queue)) \cup {kind}
      BY <2>1, <2>3, HeldAfterAppend
    <2> QED BY <1>0, <2>1, <2>3, <2>4
  <1>2. CASE Len(queue) # Capacity
    <2>1. queue' = Append(queue, kind) /\ lag' = lag
      BY <1>2 DEF F!Send
    <2>2. queue' \in Seq(F!Kinds) /\ F!Held(queue') = F!Held(queue) \cup {kind}
      BY <2>1, HeldAfterAppend
    <2> QED BY <1>0, <2>1, <2>2
  <1> QED BY <1>1, <1>2

LEMMA FeedStep == FeedInv /\ [F!Next]_(F!vars) => FeedInv'
  <1> SUFFICES ASSUME FeedInv, [F!Next]_(F!vars) PROVE FeedInv'
    OBVIOUS
  <1> USE DEF F!dbVars, F!streamVars, F!tokenVars, F!linkVars, F!listVars
  <1>0. /\ db \in Nat /\ owed \in Nat
        /\ queue \in Seq(F!Kinds) /\ wire \in Seq(F!Kinds) /\ feedLoads \subseteq FeedLoads
        /\ LinkInv /\ LoadInv
        /\ Settled \/ F!UpdateIsOnItsWay \/ Excused
    BY DEF FeedInv
  <1>1. CASE F!Write
    BY <1>0, <1>1 DEF FeedInv, F!Write, LinkInv, LoadInv, F!UpdateIsOnItsWay
  <1>2. CASE F!Notify
    <2>1. owed' \in Nat /\ "shown" \in F!Kinds
      BY <1>0, <1>2 DEF F!Notify, F!Kinds
    <2>2. LinkInv' /\ LoadInv'
      BY <1>0, <1>2 DEF F!Notify, F!Send, LinkInv, LoadInv
    <2>3. CASE ~stream
      <3>1. queue' = queue /\ missed' = F!Lost({"shown"})
        BY <1>2, <2>3 DEF F!Notify, F!Send
      <3>2. missed' \/ (hasConnected /\ used = token)
        BY <3>1 DEF F!Lost
      <3>3. link = "open" => feedAsked \in revoked /\ used = feedAsked
        BY <1>0, <2>3 DEF LinkInv
      <3>4. F!UpdateIsOnItsWay' \/ Excused'
        BY <1>2, <3>2, <3>3 DEF F!Notify, F!UpdateIsOnItsWay, Excused
      <3> QED BY <1>0, <1>2, <2>1, <2>2, <3>1, <3>4 DEF F!Notify, FeedInv
    <2>4. CASE stream
      <3>1. queue' \in Seq(F!Kinds) /\ "shown" \in F!Held(queue') \cup lag'
        BY <1>0, <1>2, <2>1, <2>4, SendHolds DEF F!Notify
      <3>2. F!UpdateIsOnItsWay'
        BY <3>1 DEF F!UpdateIsOnItsWay
      <3> QED BY <1>0, <1>2, <2>1, <2>2, <3>1, <3>2 DEF F!Notify, FeedInv
    <2> QED BY <2>3, <2>4
  <1>3. CASE F!NotifyNever
    <2>1. owed' \in Nat /\ missed'
      BY <1>0, <1>3 DEF F!NotifyNever
    <2> QED BY <1>0, <1>3, <2>1 DEF F!NotifyNever, FeedInv, LinkInv, LoadInv, Excused
  <1>4. CASE F!OtherEvent
    <2>1. "other" \in F!Kinds
      BY DEF F!Kinds
    <2>2. /\ queue' \in Seq(F!Kinds) /\ missed' = missed
          /\ F!Held(queue') \cup lag' = F!Held(queue) \cup lag \cup {"other"}
      BY <1>0, <1>4, <2>1, SendHolds DEF F!OtherEvent
    <2>3. F!UpdateIsOnItsWay => F!UpdateIsOnItsWay'
      BY <1>4, <2>2 DEF F!OtherEvent, F!UpdateIsOnItsWay
    <2>4. LinkInv' /\ LoadInv' /\ (Settled => Settled') /\ (Excused => Excused')
      BY <1>0, <1>4, <2>2 DEF F!OtherEvent, LinkInv, LoadInv, Settled, Excused
    <2> QED BY <1>0, <1>4, <2>2, <2>3, <2>4 DEF F!OtherEvent, FeedInv
  <1>5. CASE F!Due \/ F!RecheckUnknown
    BY <1>0, <1>5
       DEF F!Due, F!RecheckUnknown, FeedInv, LinkInv, LoadInv, Settled, Excused, F!UpdateIsOnItsWay
  <1>6. CASE F!Recheck
    <2>1. CASE feedAsked \notin revoked
      BY <1>0, <1>6, <2>1
         DEF F!Recheck, FeedInv, LinkInv, LoadInv, Settled, Excused, F!UpdateIsOnItsWay
    <2>2. CASE feedAsked \in revoked
      <3>1. /\ queue' = <<>> /\ lag' = {} /\ missed' = F!Lost(F!Held(queue) \cup lag)
            /\ UNCHANGED <<db, owed, wire, revoked, token, used, hasConnected, link, feedAsked,
                           feedLoads, feedShown, failed>>
        BY <1>6, <2>2 DEF F!Recheck, F!CloseStream
      <3>2. queue' \in Seq(F!Kinds) /\ LinkInv' /\ LoadInv' /\ (Settled => Settled')
        BY <1>0, <2>2, <3>1 DEF LinkInv, LoadInv, Settled
      <3>3. Excused => Excused'
        BY <3>1 DEF Excused, F!Lost
      <3>4. F!UpdateIsOnItsWay => F!UpdateIsOnItsWay' \/ Excused'
        <4>1. CASE "shown" \in F!Held(queue) \cup lag
          <5>1. missed' \/ (hasConnected /\ used = token)
            BY <3>1, <4>1 DEF F!Lost
          <5>2. link = "open" => used = feedAsked
            BY <1>0 DEF LinkInv
          <5> QED BY <2>2, <3>1, <5>1, <5>2 DEF F!UpdateIsOnItsWay, Excused
        <4>2. CASE "shown" \notin F!Held(queue) \cup lag
          BY <3>1, <4>2 DEF F!UpdateIsOnItsWay
        <4> QED BY <4>1, <4>2
      <3> QED BY <1>0, <3>1, <3>2, <3>3, <3>4 DEF FeedInv
    <2> QED BY <2>1, <2>2
  <1>7. CASE F!Deliver
    <2>1. /\ UNCHANGED <<db, owed, stream, revoked, token, used, hasConnected, link, feedAsked,
                         feedLoads, feedShown, failed>>
          /\ LinkInv' /\ LoadInv' /\ (Settled => Settled')
      BY <1>0, <1>7 DEF F!Deliver, LinkInv, LoadInv, Settled
    <2>2. CASE lag # {}
      <3>1. lag' = {} /\ missed' = (missed \/ "shown" \in lag) /\ queue' = queue /\ wire' = wire
        BY <1>7, <2>2 DEF F!Deliver
      <3>2. Excused => Excused'
        BY <2>1, <3>1 DEF Excused
      <3>3. F!UpdateIsOnItsWay => F!UpdateIsOnItsWay' \/ Excused'
        BY <2>1, <3>1 DEF F!UpdateIsOnItsWay, Excused
      <3> QED BY <1>0, <2>1, <3>1, <3>2, <3>3 DEF FeedInv
    <2>3. CASE lag = {}
      <3>1. /\ queue # <<>> /\ queue' = Tail(queue) /\ wire' = <<Head(queue)>>
            /\ lag' = lag /\ missed' = missed /\ wire = <<>>
        BY <1>7, <2>3 DEF F!Deliver
      <3>2. /\ Head(queue) \in F!Kinds /\ Tail(queue) \in Seq(F!Kinds)
            /\ F!Held(queue) = {Head(queue)} \cup F!Held(Tail(queue))
        BY <1>0, <3>1, HeldWithoutHead
      <3>3. wire' \in Seq(F!Kinds) /\ F!Held(wire') = F!Held(wire) \cup {Head(queue)}
        <4>1. wire' = Append(wire, Head(queue))
          BY <3>1, <3>2
        <4> QED BY <1>0, <3>2, <4>1, HeldAfterAppend
      <3>4. Excused => Excused'
        BY <2>1, <3>1 DEF Excused
      <3>5. F!UpdateIsOnItsWay => F!UpdateIsOnItsWay'
        BY <2>1, <3>1, <3>2, <3>3 DEF F!UpdateIsOnItsWay
      <3> QED BY <1>0, <2>1, <3>1, <3>2, <3>3, <3>4, <3>5 DEF FeedInv
    <2> QED BY <2>2, <2>3
  <1>8. CASE F!LoadStep \/ \E l \in feedLoads : F!LoadFails(l)
    <2>1. /\ UNCHANGED <<db, owed, stream, queue, lag, wire, revoked, token, used, hasConnected,
                         link, feedAsked, missed>>
          /\ LinkInv'
      BY <1>0, <1>8 DEF F!LoadStep, F!ReadRows, F!Answer, F!LoadFails, LinkInv
    <2>2. PICK l \in feedLoads : F!ReadRows(l) \/ F!Answer(l) \/ F!LoadFails(l)
      BY <1>8 DEF F!LoadStep
    <2>3. CASE F!ReadRows(l)
      <3> DEFINE n == [l EXCEPT !.at = "read", !.rows = db]
      <3>1. feedLoads' = (feedLoads \ {l}) \cup {n} /\ feedShown' = feedShown /\ failed' = failed
        BY <2>3 DEF F!ReadRows
      <3>2. n \in FeedLoads /\ n.latest = l.latest /\ n.rows = db
        BY <1>0 DEF FeedLoads
      <3> HIDE DEF n
      <3>3. feedLoads' \subseteq FeedLoads /\ LoadInv'
        BY <1>0, <3>1, <3>2 DEF LoadInv
      <3>4. (Settled => Settled') /\ (Excused => Excused')
        BY <2>1, <3>1, <3>2 DEF Settled, Excused
      <3>5. F!UpdateIsOnItsWay => F!UpdateIsOnItsWay'
        BY <2>1, <3>1, <3>2 DEF F!UpdateIsOnItsWay
      <3> QED BY <1>0, <2>1, <3>3, <3>4, <3>5 DEF FeedInv
    <2>4. CASE F!Answer(l)
      <3>1. /\ feedLoads' = feedLoads \ {l} /\ failed' = failed /\ l.at = "read"
            /\ feedShown' = IF l.latest THEN l.rows ELSE feedShown
        BY <2>4 DEF F!Answer, F!IsCurrent
      <3>2. feedLoads' \subseteq FeedLoads /\ LoadInv' /\ (Excused => Excused')
        BY <1>0, <2>1, <3>1 DEF LoadInv, Excused
      <3>3. Settled => Settled'
        BY <2>1, <3>1 DEF Settled
      <3>4. F!UpdateIsOnItsWay => F!UpdateIsOnItsWay' \/ Settled'
        <4>1. ASSUME NEW m \in feedLoads, m.latest, m.at = "read" => m.rows = db
              PROVE  F!UpdateIsOnItsWay' \/ Settled'
          <5>1. CASE m = l
            BY <1>0, <2>1, <3>1, <4>1, <5>1 DEF Settled, LoadInv
          <5>2. CASE m # l
            BY <2>1, <3>1, <4>1, <5>2 DEF F!UpdateIsOnItsWay
          <5> QED BY <5>1, <5>2
        <4> QED BY <2>1, <4>1 DEF F!UpdateIsOnItsWay
      <3> QED BY <1>0, <2>1, <3>2, <3>3, <3>4 DEF FeedInv
    <2>5. CASE F!LoadFails(l)
      <3>1. /\ feedLoads' = feedLoads \ {l} /\ feedShown' = feedShown
            /\ failed' = (failed \/ l.latest)
        BY <2>5 DEF F!LoadFails, F!IsCurrent
      <3>2. feedLoads' \subseteq FeedLoads /\ LoadInv' /\ (Settled => Settled')
        BY <1>0, <2>1, <3>1 DEF LoadInv, Settled
      <3>3. Excused => Excused'
        BY <2>1, <3>1 DEF Excused
      <3>4. F!UpdateIsOnItsWay => F!UpdateIsOnItsWay' \/ Excused'
        BY <2>1, <3>1 DEF F!UpdateIsOnItsWay, Excused
      <3> QED BY <1>0, <2>1, <3>2, <3>3, <3>4 DEF FeedInv
    <2> QED BY <2>2, <2>3, <2>4, <2>5
  <1>9. CASE F!Connect
    BY <1>0, <1>9 DEF F!Connect, FeedInv, LinkInv, LoadInv, Settled, Excused, F!UpdateIsOnItsWay
  <1>10. CASE F!Unauthorized
    BY <1>0, <1>10
       DEF F!Unauthorized, FeedInv, LinkInv, LoadInv, Settled, Excused, F!UpdateIsOnItsWay
  <1>11. CASE F!NoAnswer \/ F!Subscribe \/ F!ReadEnd
    <2>1. LinkInv'
      BY <1>0, <1>11 DEF F!NoAnswer, F!Subscribe, F!ReadEnd, LinkInv
    <2>2. /\ UNCHANGED <<db, owed, wire, revoked, token, used, hasConnected, feedLoads, feedShown,
                         failed, missed>>
          /\ link' # "open"
      BY <1>11 DEF F!NoAnswer, F!Subscribe, F!ReadEnd
    <2>3. LoadInv' /\ (Settled => Settled') /\ (Excused => Excused')
      BY <1>0, <2>2 DEF LoadInv, Settled, Excused
    <2>4. queue' = queue /\ lag' = lag
      BY <1>0, <1>11 DEF F!NoAnswer, F!Subscribe, F!ReadEnd, LinkInv
    <2>5. F!UpdateIsOnItsWay => F!UpdateIsOnItsWay'
      BY <2>2, <2>4 DEF F!UpdateIsOnItsWay
    <2> QED BY <1>0, <2>1, <2>2, <2>3, <2>4, <2>5 DEF FeedInv
  <1>12. CASE F!Established
    <2>1. LinkInv'
      BY <1>0, <1>12 DEF F!Established, LinkInv
    <2>2. CASE F!Resyncs
      BY <1>0, <1>12, <2>1, <2>2, BegunIsOnItsWay DEF F!Established, FeedInv
    <2>3. CASE ~F!Resyncs
      <3>1. ~(hasConnected /\ used = token)
        BY <1>0, <1>12, <2>3 DEF F!Established, F!Resyncs, LinkInv
      <3> QED BY <1>0, <1>12, <2>1, <2>3, <3>1
           DEF F!Established, FeedInv, LoadInv, Settled, Excused, F!UpdateIsOnItsWay
    <2> QED BY <2>2, <2>3
  <1>13. CASE F!Read
    <2>1. /\ Head(wire) \in F!Kinds /\ wire' \in Seq(F!Kinds)
          /\ F!Held(wire) = {Head(wire)} \cup F!Held(wire')
      BY <1>0, <1>13, HeldWithoutHead DEF F!Read
    <2>2. LinkInv'
      BY <1>0, <1>13 DEF F!Read, LinkInv
    <2>3. CASE Head(wire) = "shown"
      BY <1>0, <1>13, <2>1, <2>2, <2>3, BegunIsOnItsWay DEF F!Read, FeedInv
    <2>4. CASE Head(wire) # "shown"
      BY <1>0, <1>13, <2>1, <2>2, <2>4
         DEF F!Read, FeedInv, LoadInv, Settled, Excused, F!UpdateIsOnItsWay
    <2> QED BY <2>3, <2>4
  <1>14. CASE F!Break
    <2>1. /\ missed' = F!Lost(F!Held(queue) \cup lag \cup F!Held(wire))
          /\ queue' = <<>> /\ lag' = {} /\ wire' = <<>> /\ link' = "none"
          /\ UNCHANGED <<db, owed, revoked, token, used, hasConnected, feedLoads, feedShown, failed>>
      BY <1>14 DEF F!Break
    <2>2. /\ LinkInv' /\ LoadInv' /\ (Settled => Settled')
          /\ queue' \in Seq(F!Kinds) /\ wire' \in Seq(F!Kinds)
      BY <1>0, <2>1 DEF LinkInv, LoadInv, Settled
    <2>3. Excused => Excused'
      BY <2>1 DEF Excused, F!Lost
    <2>4. F!UpdateIsOnItsWay => F!UpdateIsOnItsWay' \/ Excused'
      BY <2>1 DEF F!UpdateIsOnItsWay, Excused, F!Lost
    <2> QED BY <1>0, <2>1, <2>2, <2>3, <2>4 DEF FeedInv
  <1>15. CASE F!Revoke \/ F!ClearToken
    BY <1>0, <1>15
       DEF F!Revoke, F!ClearToken, FeedInv, LinkInv, LoadInv, Excused
  <1>16. CASE F!Login
    <2>1. LinkInv'
      BY <1>0, <1>16 DEF F!Login, LinkInv
    <2> QED BY <1>0, <1>16, <2>1, BegunIsOnItsWay DEF F!Login, FeedInv
  <1>17. CASE UNCHANGED F!vars
    BY <1>0, <1>17
       DEF F!vars, FeedInv, LinkInv, LoadInv, Settled, Excused, F!UpdateIsOnItsWay
  <1> QED BY <1>1, <1>2, <1>3, <1>4, <1>5, <1>6, <1>7, <1>8, <1>9, <1>10, <1>11, <1>12, <1>13,
             <1>14, <1>15, <1>16, <1>17 DEF F!Next

LEMMA FeedSafe == FeedInv => F!NoChangeIsStranded
  BY DEF FeedInv, Settled, Excused, F!NoChangeIsStranded

-----------------------------------------------------------------------------
(* The composition: a step of it is a step of each part, or leaves it.     *)

PartInv == SnapshotInv /\ RestInv /\ ListInv /\ SettingInv /\ DraftInv /\ FeedInv

LEMMA PartInit == PartsInit => Init /\ PartInv
  BY SnapshotInit, RestInit, ListInit, SettingInit, DraftInit, FeedInit DEF PartsInit, PartInv

LEMMA StepOfEach ==
  [PartsNext]_partVars =>
    /\ [Next]_vars /\ [W!Next]_(W!vars) /\ [P!Next]_(P!vars)
    /\ [D!Next]_(D!vars) /\ [F!Next]_(F!vars)
  <1>1. UNCHANGED windowVars => UNCHANGED W!vars
    BY DEF windowVars, W!vars, W!listVars, W!generationVars
  <1>2. UNCHANGED settingVars => UNCHANGED P!vars
    BY DEF settingVars, P!vars, P!valueVars
  <1>3. UNCHANGED draftVars => UNCHANGED D!vars
    BY DEF draftVars, D!vars, D!draftVars, D!paneVars, D!counters
  <1>4. UNCHANGED feedVars => UNCHANGED F!vars
    BY DEF feedVars, F!vars, F!dbVars, F!streamVars, F!tokenVars, F!linkVars, F!listVars
  <1> QED BY <1>1, <1>2, <1>3, <1>4 DEF PartsNext, partVars

LEMMA PartStep == PartInv /\ [PartsNext]_partVars => PartInv'
  <1> SUFFICES ASSUME PartInv, [PartsNext]_partVars PROVE PartInv'
    OBVIOUS
  <1>1. /\ [Next]_vars /\ [W!Next]_(W!vars) /\ [P!Next]_(P!vars)
        /\ [D!Next]_(D!vars) /\ [F!Next]_(F!vars)
    BY StepOfEach
  <1>2. SnapshotInv' /\ RestInv'
    BY <1>1, SnapshotStep, RestStep DEF PartInv
  <1>3. ListInv' /\ SettingInv' /\ DraftInv' /\ FeedInv'
    BY <1>1, ListStep, SettingStep, DraftStep, FeedStep DEF PartInv
  <1> QED BY <1>2, <1>3 DEF PartInv

LEMMA PartsInvariant == PartsSpec => []PartInv
  BY PartInit, PartStep, PTL DEF PartsSpec

\* The audit list read block by block shows slices of one set of rows, although
\* the code only compares boundaries, counts and prune epochs.
THEOREM SnapshotIsRead == PartsSpec => ReadsOneSet
  <1>1. Init => Reading!Init
    BY DEF Init, Reading!Init, Reading!Empty
  <1>2. SnapshotInv /\ [Next]_vars => [Reading!Next]_<<query, shown, view>>
    BY SnapshotStep
  <1>3. PartInv => SnapshotInv
    BY DEF PartInv
  <1> QED BY <1>1, <1>2, <1>3, PartInit, StepOfEach, PartsInvariant, PTL
          DEF PartsSpec, ReadsOneSet, Reading!Spec, Reading!vars

\* Whatever the order of settlements, refreshes and changes of the range, with
\* nothing in flight every visible block is on the screen or has failed, lies
\* past the count, or the generation has ended.
THEOREM NothingVisibleIsForgotten == PartsSpec => []NothingIsForgotten
  <1>1. PartInv => NothingIsForgotten
    BY RestForgetsNothing DEF PartInv
  <1> QED BY <1>1, PartsInvariant, PTL

\* Whatever a windowed list has on the screen answers the present query, and when loading has
\* come down it shows what was read since the event that began it, with every
\* visible block there or failed (fetchBlock, settleLoading, refresh,
\* setParams, ensureRange).
LEMMA ListIsCurrent == PartInv => SettledListIsCurrent
  BY ListSafe DEF PartInv, SettledListIsCurrent

\* A setting that says it is saved is stored, for every value and any number
\* of overlapping saves, loads and failures (createSavedSetting).
THEOREM SettingIsStored == PartsSpec => []SavedIsStored
  <1>1. PartInv => SavedIsStored
    BY SettingSafe DEF PartInv, SavedIsStored
  <1> QED BY <1>1, PartsInvariant, PTL

\* What a person typed is on the screen, stored or thrown away by their word,
\* for any number of forms, panes, settles and applies, however their answers
\* are ordered (settle, markApplied, runLeaveCheck).
THEOREM InputIsKept == PartsSpec => []NoInputIsLost
  <1>1. PartInv => NoInputIsLost
    BY DraftSafe DEF PartInv, NoInputIsLost
  <1> QED BY <1>1, PartsInvariant, PTL

\* A list that is behind has its update on its way: no order of writes,
\* announcements, overruns, re-checks, breaks, reconnections, changes of the token
\* and overtaking answers comes to rest with a stale list (notify_changed,
\* event_stream, connectOnce, load).
LEMMA UpdatesArrive == PartInv => NoChangeIsStranded
  BY FeedSafe DEF PartInv, NoChangeIsStranded

\* Lists are current or being made so, for any number of blocks, writes, events,
\* refreshes, breaks and failures, and any capacity of the channel.
THEOREM ListsStayCurrent == PartsSpec => []ListsAreCurrent
  <1>1. PartInv => ListsAreCurrent
    BY ListIsCurrent, UpdatesArrive DEF ListsAreCurrent
  <1> QED BY <1>1, PartsInvariant, PTL
=============================================================================
