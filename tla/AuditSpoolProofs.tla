--------------------------- MODULE AuditSpoolProofs ---------------------------
(***************************************************************************)
(* The spool loses nothing and keeps its cap, for any number of entries,   *)
(* processes and crashes.  What makes it so is the order of the code: a    *)
(* flush removes a file only after its row is in the log, a write reserves *)
(* its slot before it looks at the disk, and reconcile leaves entries      *)
(* alone that are being written.                                           *)
(***************************************************************************)
EXTENDS AuditSpool, FiniteSetTheorems, TLAPS

Kept(e) == rows[e] > 0 \/ e \in files \cup lost \cup pruned
Logged(e) == rows[e] > 0 \/ e \in pruned

\* Whoever goes on without an entry knows that it is somewhere.
LogInv ==
    \A e \in Entries :
        /\ rows[e] <= 1
        /\ answer[e] = "ok" => Logged(e)
        /\ rec[e] \in {"written", "done"} => Kept(e)
        /\ \A p \in Procs : flush[p] = "remove" /\ Oldest(p, e) => Logged(e)

\* The calls whose entry has no file.
Fileless == {"new", "wait", "create", "rename", "failed", "forget"}

\* How far along an entry is that the directory, a flush or an index knows.
KnowledgeInv ==
    \A e \in Entries :
        /\ rec[e] \in Fileless => e \notin files
        /\ \A p \in Procs :
              /\ e \in queue[p] => rec[e] \notin Fileless
              /\ e \in index[p] \cup known[p] => rec[e] \notin {"new", "wait"}

\* What the index of the process that records an entry knows of it.
IndexInv ==
    \A p \in Procs, e \in Entries :
        writer[e] = p =>
            /\ up[p]
            /\ e \in files => e \in index[p]
            /\ rec[e] \in {"create", "rename"} => e \in index[p] /\ e \in writing[p] \ known[p]

\* The entries of a process that take a place under the cap.
Placed(p) == {e \in Entries : writer[e] = p /\ (e \in files \/ rec[e] \in {"create", "rename"})}

CapInv == \A p \in Procs : Cardinality(Placed(p)) <= MaxFiles

IInv == TypeOK /\ LogInv /\ KnowledgeInv /\ IndexInv /\ CapInv

-----------------------------------------------------------------------------
\* A set within one that keeps the cap keeps it.
LEMMA SmallerKeepsCap ==
  ASSUME NEW S \in SUBSET Entries, NEW T \in SUBSET S, Cardinality(S) <= MaxFiles
  PROVE  Cardinality(T) <= MaxFiles
  <1>1. MaxEntries \in Nat /\ MaxFiles \in Nat
    BY BoundsAreNat
  <1>2. IsFiniteSet(S)
    <2>1. IsFiniteSet(Entries)
      BY <1>1, FS_Interval DEF Entries
    <2> QED BY <2>1, FS_Subset
  <1>3. IsFiniteSet(T) /\ Cardinality(T) <= Cardinality(S)
    BY <1>2, FS_Subset
  <1> QED BY <1>1, <1>2, <1>3, FS_CardinalityType

\* One more than a set below the cap keeps it.
LEMMA OneMoreKeepsCap ==
  ASSUME NEW S \in SUBSET Entries, NEW e \in Entries, NEW T \in SUBSET (S \cup {e}),
         ~(Cardinality(S) >= MaxFiles)
  PROVE  Cardinality(T) <= MaxFiles
  <1>1. MaxEntries \in Nat /\ MaxFiles \in Nat
    BY BoundsAreNat
  <1>2. IsFiniteSet(S)
    <2>1. IsFiniteSet(Entries)
      BY <1>1, FS_Interval DEF Entries
    <2> QED BY <2>1, FS_Subset
  <1>3. /\ IsFiniteSet(S \cup {e})
        /\ Cardinality(S \cup {e}) = IF e \in S THEN Cardinality(S) ELSE Cardinality(S) + 1
    BY <1>2, FS_AddElement
  <1>4. Cardinality(S) \in Nat /\ Cardinality(S \cup {e}) \in Nat
    BY <1>2, <1>3, FS_CardinalityType
  <1>5. Cardinality(S \cup {e}) <= MaxFiles
    BY <1>1, <1>3, <1>4
  <1>6. S \cup {e} \in SUBSET Entries
    OBVIOUS
  <1> QED BY <1>5, <1>6, SmallerKeepsCap

LEMMA Initially == Init => IInv
  <1> SUFFICES ASSUME Init PROVE IInv
    OBVIOUS
  <1>0. MaxFiles \in Nat /\ MaxEntries \in Nat
    BY BoundsAreNat
  <1>1. TypeOK
    BY <1>0, ProcsAreNotZero DEF Init, TypeOK, Phases, FlushPhases, Busy
  <1>2. LogInv /\ KnowledgeInv
    BY DEF Init, LogInv, KnowledgeInv, Logged, Kept, Fileless
  <1>3. IndexInv
    BY ProcsAreNotZero DEF Init, IndexInv
  <1>4. \A p \in Procs : Placed(p) = {}
    BY DEF Init, Placed
  <1>5. CapInv
    BY <1>0, <1>4, FS_EmptySet DEF CapInv
  <1> QED BY <1>1, <1>2, <1>3, <1>5 DEF IInv

-----------------------------------------------------------------------------
LEMMA TypeKept == TypeOK /\ [Next]_vars => TypeOK'
  <1> SUFFICES ASSUME TypeOK, [Next]_vars PROVE TypeOK'
    OBVIOUS
  <1> USE DEF TypeOK, Phases, FlushPhases, Busy, table, inserts, records, dir, state,
              flushVars, world
  <1>1. CASE UNCHANGED vars
    BY <1>1 DEF vars
  <1>2. CASE Database
    <2> PICK e \in Entries : Land(e) \/ Refuse(e) \/ Prune(e)
      BY <1>2 DEF Database
    <2>1. CASE Land(e)
      <3>1. rows' \in [Entries -> Nat]
        BY <2>1 DEF Land, Put
      <3>2. answer' \in [Entries -> {"none", "ok", "failed"}]
        BY <2>1 DEF Land
      <3> QED BY <2>1, <3>1, <3>2 DEF Land
    <2>2. CASE Refuse(e) BY <2>2 DEF Refuse
    <2>3. CASE Prune(e) BY <2>3 DEF Prune
    <2> QED BY <2>1, <2>2, <2>3
  <1>3. CASE \E e \in Entries : RecordStep(e)
    <2> PICK e \in Entries : RecordStep(e)
      BY <1>3
    <2>1. CASE Recorded(e) BY <2>1 DEF Recorded, Goto, Hang
    <2>2. CASE CreateTmp(e) BY <2>2 DEF CreateTmp, Goto
    <2>3. CASE Rename(e) BY <2>3 DEF Rename, Goto
    <2>4. ASSUME NEW p \in Procs, Record(p, e) PROVE TypeOK'
      BY <2>4 DEF Record, Goto
    <2>5. ASSUME NEW p \in Procs, Spool(p, e) PROVE TypeOK'
      BY <2>5 DEF Spool, Goto, Hang, Reserve
    <2>6. ASSUME NEW p \in Procs, Settled(p, e) PROVE TypeOK'
      BY <2>6 DEF Settled, Goto
    <2>7. ASSUME NEW p \in Procs, WriteFailed(p, e) PROVE TypeOK'
      BY <2>7 DEF WriteFailed, Goto
    <2> QED BY <2>1, <2>2, <2>3, <2>4, <2>5, <2>6, <2>7 DEF RecordStep
  <1>4. ASSUME NEW p \in Procs, FlushStep(p) PROVE TypeOK'
    <2> USE DEF FlushAt
    <2>1. CASE ScanAny(p) BY <2>1 DEF ScanAny, Scan
    <2>2. CASE Index(p) BY <2>2 DEF Index, After
    <2>3. CASE ReconcileIds(p) BY <2>3 DEF ReconcileIds, SettledIds
    <2>4. CASE ReconcileForget(p) BY <2>4 DEF ReconcileForget
    <2>5. ASSUME NEW e \in Entries, FlushInsert(p, e) PROVE TypeOK'
      BY <2>5 DEF FlushInsert, Put
    <2>6. ASSUME NEW e \in Entries, FlushFail(p, e) PROVE TypeOK'
      BY <2>6 DEF FlushFail
    <2>7. ASSUME NEW e \in Entries, Remove(p, e) PROVE TypeOK'
      BY <2>7 DEF Remove, After
    <2> QED BY <1>4, <2>1, <2>2, <2>3, <2>4, <2>5, <2>6, <2>7 DEF FlushStep
  <1>5. ASSUME NEW p \in Procs, Crash(p) PROVE TypeOK'
    BY <1>5 DEF Crash
  <1>6. ASSUME NEW p \in Procs, Open(p) PROVE TypeOK'
    BY <1>6 DEF Open
  <1> QED BY <1>1, <1>2, <1>3, <1>4, <1>5, <1>6 DEF Next

-----------------------------------------------------------------------------
LEMMA LogKept == TypeOK /\ LogInv /\ [Next]_vars => LogInv'
  <1> SUFFICES ASSUME TypeOK, LogInv, [Next]_vars, NEW d \in Entries
               PROVE  /\ rows'[d] <= 1
                      /\ answer'[d] = "ok" => Logged(d)'
                      /\ rec'[d] \in {"written", "done"} => Kept(d)'
                      /\ \A q \in Procs : flush'[q] = "remove" /\ Oldest(q, d)' => Logged(d)'
    BY DEF LogInv
  <1>0. \A a, b \in Entries : a \in Nat /\ (a <= b /\ b <= a => a = b)
    BY BoundsAreNat DEF Entries
  <1> USE DEF TypeOK, LogInv, Logged, Kept, Oldest, table, inserts, records, dir, state,
              flushVars, world
  <1>1. CASE UNCHANGED vars
    BY <1>1 DEF vars
  <1>2. CASE Database
    <2> PICK e \in Entries : Land(e) \/ Refuse(e) \/ Prune(e)
      BY <1>2 DEF Database
    <2>1. CASE Land(e)
      <3>1. rows'[e] = 1 /\ (d # e => rows'[d] = rows[d])
        BY <2>1 DEF Land, Put
      <3>2. d # e => answer'[d] = answer[d]
        BY <2>1 DEF Land
      <3>3. rows[d] > 0 => rows'[d] > 0
        BY <3>1
      <3> QED BY <2>1, <3>1, <3>2, <3>3 DEF Land
    <2>2. CASE Refuse(e) BY <2>2 DEF Refuse
    <2>3. CASE Prune(e) BY <2>3 DEF Prune
    <2> QED BY <2>1, <2>2, <2>3
  <1>3. CASE \E e \in Entries : RecordStep(e)
    <2> PICK e \in Entries : RecordStep(e)
      BY <1>3
    <2>1. CASE Recorded(e) BY <2>1 DEF Recorded, Goto, Hang
    <2>2. CASE CreateTmp(e) BY <2>2 DEF CreateTmp, Goto
    <2>3. CASE Rename(e) BY <2>3 DEF Rename, Goto
    <2>4. ASSUME NEW p \in Procs, Record(p, e) PROVE LogInv'
      BY <2>4 DEF Record, Goto
    <2>5. ASSUME NEW p \in Procs, Spool(p, e) PROVE LogInv'
      BY <2>5 DEF Spool, Goto, Hang, Reserve
    <2>6. ASSUME NEW p \in Procs, Settled(p, e) PROVE LogInv'
      BY <2>6 DEF Settled, Goto
    <2>7. ASSUME NEW p \in Procs, WriteFailed(p, e) PROVE LogInv'
      BY <2>7 DEF WriteFailed, Goto
    <2> QED BY <2>1, <2>2, <2>3, <2>4, <2>5, <2>6, <2>7 DEF RecordStep
  <1>4. ASSUME NEW p \in Procs, FlushStep(p) PROVE LogInv'
    <2> USE DEF FlushAt
    <2>1. CASE ScanAny(p) BY <2>1 DEF ScanAny, Scan
    <2>2. CASE Index(p) BY <2>2 DEF Index, After
    <2>3. CASE ReconcileIds(p) BY <2>3 DEF ReconcileIds, SettledIds
    <2>4. CASE ReconcileForget(p) BY <2>4 DEF ReconcileForget
    <2>5. ASSUME NEW e \in Entries, FlushInsert(p, e) PROVE LogInv'
      <3>1. rows'[e] = 1 /\ \A b \in Entries : b # e => rows'[b] = rows[b]
        BY <2>5 DEF FlushInsert, Put
      <3>2. \A b \in Entries : Oldest(p, b) => b = e
        BY <1>0, <2>5 DEF FlushInsert
      <3> QED BY <2>5, <3>1, <3>2 DEF FlushInsert
    <2>6. ASSUME NEW e \in Entries, FlushFail(p, e) PROVE LogInv'
      BY <2>6 DEF FlushFail
    <2>7. ASSUME NEW e \in Entries, Remove(p, e) PROVE LogInv'
      <3>1. Logged(e)
        BY <2>7 DEF Remove
      <3> QED BY <2>7, <3>1 DEF Remove, After
    <2> QED BY <1>4, <2>1, <2>2, <2>3, <2>4, <2>5, <2>6, <2>7 DEF FlushStep
  <1>5. ASSUME NEW p \in Procs, Crash(p) PROVE LogInv'
    BY <1>5 DEF Crash
  <1>6. ASSUME NEW p \in Procs, Open(p) PROVE LogInv'
    BY <1>6 DEF Open
  <1> QED BY <1>1, <1>2, <1>3, <1>4, <1>5, <1>6 DEF Next

-----------------------------------------------------------------------------
LEMMA KnowledgeKept == TypeOK /\ KnowledgeInv /\ [Next]_vars => KnowledgeInv'
  <1> SUFFICES ASSUME TypeOK, KnowledgeInv, [Next]_vars PROVE KnowledgeInv'
    OBVIOUS
  <1> USE DEF TypeOK, KnowledgeInv, Fileless, table, inserts, records, dir, state,
              flushVars, world
  <1>1. CASE UNCHANGED vars
    BY <1>1 DEF vars
  <1>2. CASE Database
    BY <1>2 DEF Database, Land, Refuse, Prune
  <1>3. CASE \E e \in Entries : RecordStep(e)
    <2> PICK e \in Entries : RecordStep(e)
      BY <1>3
    <2>1. CASE Recorded(e) BY <2>1 DEF Recorded, Goto, Hang
    <2>2. CASE CreateTmp(e) BY <2>2 DEF CreateTmp, Goto
    <2>3. CASE Rename(e) BY <2>3 DEF Rename, Goto
    <2>4. ASSUME NEW p \in Procs, Record(p, e) PROVE KnowledgeInv'
      BY <2>4 DEF Record, Goto
    <2>5. ASSUME NEW p \in Procs, Spool(p, e) PROVE KnowledgeInv'
      BY <2>5, SMTT(30) DEF Spool, Goto, Hang, Reserve
    <2>6. ASSUME NEW p \in Procs, Settled(p, e) PROVE KnowledgeInv'
      BY <2>6 DEF Settled, Goto
    <2>7. ASSUME NEW p \in Procs, WriteFailed(p, e) PROVE KnowledgeInv'
      BY <2>7 DEF WriteFailed, Goto
    <2> QED BY <2>1, <2>2, <2>3, <2>4, <2>5, <2>6, <2>7 DEF RecordStep
  <1>4. ASSUME NEW p \in Procs, FlushStep(p) PROVE KnowledgeInv'
    <2> USE DEF FlushAt
    <2>1. CASE ScanAny(p) BY <2>1 DEF ScanAny, Scan
    <2>2. CASE Index(p) BY <2>2 DEF Index, After
    <2>3. CASE ReconcileIds(p) BY <2>3 DEF ReconcileIds, SettledIds
    <2>4. CASE ReconcileForget(p) BY <2>4 DEF ReconcileForget
    <2>5. ASSUME NEW e \in Entries, FlushInsert(p, e) PROVE KnowledgeInv'
      BY <2>5 DEF FlushInsert, Put
    <2>6. ASSUME NEW e \in Entries, FlushFail(p, e) PROVE KnowledgeInv'
      BY <2>6 DEF FlushFail
    <2>7. ASSUME NEW e \in Entries, Remove(p, e) PROVE KnowledgeInv'
      BY <2>7 DEF Remove, After
    <2> QED BY <1>4, <2>1, <2>2, <2>3, <2>4, <2>5, <2>6, <2>7 DEF FlushStep
  <1>5. ASSUME NEW p \in Procs, Crash(p) PROVE KnowledgeInv'
    BY <1>5 DEF Crash
  <1>6. ASSUME NEW p \in Procs, Open(p) PROVE KnowledgeInv'
    BY <1>6 DEF Open
  <1> QED BY <1>1, <1>2, <1>3, <1>4, <1>5, <1>6 DEF Next

-----------------------------------------------------------------------------
LEMMA IndexKept == TypeOK /\ KnowledgeInv /\ IndexInv /\ [Next]_vars => IndexInv'
  <1> SUFFICES ASSUME TypeOK, KnowledgeInv, IndexInv, [Next]_vars PROVE IndexInv'
    OBVIOUS
  <1> USE DEF TypeOK, IndexInv, table, inserts, records, dir, state, flushVars, world
  <1>1. CASE UNCHANGED vars
    BY <1>1 DEF vars
  <1>2. CASE Database
    BY <1>2 DEF Database, Land, Refuse, Prune
  <1>3. CASE \E e \in Entries : RecordStep(e)
    <2> PICK e \in Entries : RecordStep(e)
      BY <1>3
    <2>1. CASE Recorded(e) BY <2>1 DEF Recorded, Goto, Hang
    <2>2. CASE CreateTmp(e) BY <2>2 DEF CreateTmp, Goto
    <2>3. CASE Rename(e) BY <2>3 DEF Rename, Goto
    <2>4. ASSUME NEW p \in Procs, Record(p, e) PROVE IndexInv'
      BY <2>4 DEF Record, Goto, KnowledgeInv, Fileless
    <2>5. ASSUME NEW p \in Procs, Spool(p, e) PROVE IndexInv'
      BY <2>5 DEF Spool, Goto, Hang, Reserve, KnowledgeInv
    <2>6. ASSUME NEW p \in Procs, Settled(p, e) PROVE IndexInv'
      BY <2>6 DEF Settled, Goto
    <2>7. ASSUME NEW p \in Procs, WriteFailed(p, e) PROVE IndexInv'
      BY <2>7 DEF WriteFailed, Goto, KnowledgeInv, Fileless
    <2> QED BY <2>1, <2>2, <2>3, <2>4, <2>5, <2>6, <2>7 DEF RecordStep
  <1>4. ASSUME NEW p \in Procs, FlushStep(p) PROVE IndexInv'
    <2> USE DEF FlushAt
    <2>1. CASE ScanAny(p) BY <2>1 DEF ScanAny, Scan
    <2>2. CASE Index(p) BY <2>2 DEF Index, After
    <2>3. CASE ReconcileIds(p) BY <2>3 DEF ReconcileIds, SettledIds
    <2>4. CASE ReconcileForget(p) BY <2>4 DEF ReconcileForget
    <2>5. ASSUME NEW e \in Entries, FlushInsert(p, e) PROVE IndexInv'
      BY <2>5 DEF FlushInsert, Put
    <2>6. ASSUME NEW e \in Entries, FlushFail(p, e) PROVE IndexInv'
      BY <2>6 DEF FlushFail
    <2>7. ASSUME NEW e \in Entries, Remove(p, e) PROVE IndexInv'
      BY <2>7 DEF Remove, After, Oldest, KnowledgeInv, Fileless
    <2> QED BY <1>4, <2>1, <2>2, <2>3, <2>4, <2>5, <2>6, <2>7 DEF FlushStep
  <1>5. ASSUME NEW p \in Procs, Crash(p) PROVE IndexInv'
    BY <1>5, ProcsAreNotZero DEF Crash
  <1>6. ASSUME NEW p \in Procs, Open(p) PROVE IndexInv'
    BY <1>6 DEF Open
  <1> QED BY <1>1, <1>2, <1>3, <1>4, <1>5, <1>6 DEF Next

-----------------------------------------------------------------------------
\* Only a call that reserves takes a place, and it found the cap not reached.
LEMMA CapKept ==
  TypeOK /\ KnowledgeInv /\ IndexInv /\ CapInv /\ [Next]_vars => CapInv'
  <1> SUFFICES ASSUME TypeOK, KnowledgeInv, IndexInv, CapInv, [Next]_vars, NEW q \in Procs
               PROVE  Cardinality(Placed(q)') <= MaxFiles
    BY DEF CapInv
  <1>a. Placed(q) \in SUBSET Entries /\ Cardinality(Placed(q)) <= MaxFiles
    BY DEF CapInv, Placed
  <1>b. SUFFICES ASSUME ~(Placed(q)' \in SUBSET Placed(q))
                 PROVE  Cardinality(Placed(q)') <= MaxFiles
    BY <1>a, SmallerKeepsCap
  <1> USE DEF TypeOK, Placed, table, inserts, records, dir, state, flushVars, world
  <1>1. CASE UNCHANGED vars
    BY <1>1, <1>b DEF vars
  <1>2. CASE Database
    BY <1>2, <1>b DEF Database, Land, Refuse, Prune
  <1>3. CASE \E e \in Entries : RecordStep(e)
    <2> PICK e \in Entries : RecordStep(e)
      BY <1>3
    <2>1. CASE Recorded(e) BY <1>b, <2>1 DEF Recorded, Goto, Hang
    <2>2. CASE CreateTmp(e) BY <1>b, <2>2 DEF CreateTmp, Goto
    <2>3. CASE Rename(e) BY <1>b, <2>3 DEF Rename, Goto
    <2>4. ASSUME NEW p \in Procs, Record(p, e) PROVE FALSE
      BY <1>b, <2>4 DEF Record, Goto, KnowledgeInv, Fileless
    <2>5. ASSUME NEW p \in Procs, Spool(p, e) PROVE Cardinality(Placed(q)') <= MaxFiles
      <3>1. ~Full(p) /\ q = p
        BY <1>b, <2>5 DEF Spool, Goto, Hang, Reserve
      <3>2. Placed(q) \in SUBSET index[q]
        BY DEF IndexInv
      <3>3. Placed(q)' \in SUBSET (index[q] \cup {e})
        BY <2>5, <3>1, <3>2 DEF Spool, Goto, Hang, Reserve
      <3>4. index[q] \in SUBSET Entries
        OBVIOUS
      <3> HIDE DEF Placed
      <3> QED BY <3>1, <3>3, <3>4, OneMoreKeepsCap DEF Full
    <2>6. ASSUME NEW p \in Procs, Settled(p, e) PROVE FALSE
      BY <1>b, <2>6 DEF Settled, Goto
    <2>7. ASSUME NEW p \in Procs, WriteFailed(p, e) PROVE FALSE
      BY <1>b, <2>7 DEF WriteFailed, Goto
    <2> QED BY <2>1, <2>2, <2>3, <2>4, <2>5, <2>6, <2>7 DEF RecordStep
  <1>4. ASSUME NEW p \in Procs, FlushStep(p) PROVE FALSE
    <2> USE DEF FlushAt
    <2>1. CASE ScanAny(p) BY <1>b, <2>1 DEF ScanAny, Scan
    <2>2. CASE Index(p) BY <1>b, <2>2 DEF Index, After
    <2>3. CASE ReconcileIds(p) BY <1>b, <2>3 DEF ReconcileIds, SettledIds
    <2>4. CASE ReconcileForget(p) BY <1>b, <2>4 DEF ReconcileForget
    <2>5. ASSUME NEW e \in Entries, FlushInsert(p, e) PROVE FALSE
      BY <1>b, <2>5 DEF FlushInsert, Put
    <2>6. ASSUME NEW e \in Entries, FlushFail(p, e) PROVE FALSE
      BY <1>b, <2>6 DEF FlushFail
    <2>7. ASSUME NEW e \in Entries, Remove(p, e) PROVE FALSE
      BY <1>b, <2>7 DEF Remove, After
    <2> QED BY <1>4, <2>1, <2>2, <2>3, <2>4, <2>5, <2>6, <2>7 DEF FlushStep
  <1>5. ASSUME NEW p \in Procs, Crash(p) PROVE FALSE
    BY <1>b, <1>5, ProcsAreNotZero DEF Crash
  <1>6. ASSUME NEW p \in Procs, Open(p) PROVE FALSE
    BY <1>b, <1>6 DEF Open
  <1> QED BY <1>1, <1>2, <1>3, <1>4, <1>5, <1>6 DEF Next

-----------------------------------------------------------------------------
LEMMA Inductive == IInv /\ [Next]_vars => IInv'
  BY TypeKept, LogKept, KnowledgeKept, IndexKept, CapKept DEF IInv

LEMMA InvariantHolds == Spec => []IInv
  <1> QED BY Initially, Inductive, PTL DEF Spec

\* Every variable of AuditSpool keeps its type.
THEOREM TypeCorrect == Spec => []TypeOK
  <1>1. IInv => TypeOK
    BY DEF IInv
  <1> QED BY <1>1, InvariantHolds, PTL

\* No entry is twice in the log, and none whose record call returned is lost
\* without a word, however many processes flush, crash and prune.
THEOREM EntriesAreLoggedOnce == Spec => []LoggedOnce
  <1>1. IInv => LoggedOnce
    BY DEF IInv, LogInv, Kept, LoggedOnce
  <1> QED BY <1>1, InvariantHolds, PTL

\* The index of a running process misses none of its files, and these keep to
\* the cap, however many record calls of it spool at once.
THEOREM SpoolKeepsItsCap == Spec => []CapHolds
  <1>1. ASSUME IInv, NEW p \in Procs
        PROVE  /\ {e \in Entries : writer[e] = p} \cap files \subseteq index[p]
               /\ Cardinality({e \in {e \in Entries : writer[e] = p} :
                                 e \in files \/ rec[e] = "rename"}) <= MaxFiles
    <2> DEFINE T == {e \in {e \in Entries : writer[e] = p} : e \in files \/ rec[e] = "rename"}
    <2>1. {e \in Entries : writer[e] = p} \cap files \subseteq index[p]
      BY <1>1 DEF IInv, IndexInv
    <2>2. Placed(p) \in SUBSET Entries /\ T \in SUBSET Placed(p)
          /\ Cardinality(Placed(p)) <= MaxFiles
      BY <1>1 DEF IInv, CapInv, Placed
    <2> HIDE DEF T
    <2>3. Cardinality(T) <= MaxFiles
      BY <2>2, SmallerKeepsCap
    <2> QED BY <2>1, <2>3 DEF T
  <1>2. IInv => CapHolds
    BY <1>1 DEF CapHolds
  <1> QED BY <1>2, InvariantHolds, PTL
=============================================================================
