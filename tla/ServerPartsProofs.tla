-------------------------- MODULE ServerPartsProofs --------------------------
(***************************************************************************)
(* Proofs about the guards of banto-server, the reach check and the        *)
(* firewall change: the grants for any kinds, caps, number of concurrent   *)
(* requests, tokens and revocations; the failure table for any addresses,  *)
(* cap, window and checks in flight; the reach check for any addresses,    *)
(* tokens, listeners and requests in flight; the firewall change for any   *)
(* number of calls, edits by others and faults.                            *)
(***************************************************************************)
EXTENDS MCServerParts, Sequences, FiniteSetTheorems, TLAPS

-----------------------------------------------------------------------------
(* Type correctness.                                                       *)

\* A request that has begun knows its kind and a generation of the past.
Begun ==
    \A p \in Procs :
        pc[p] # "idle" => kind[p] \in Kinds /\ observed[p] <= generation[kind[p]]

Typed == TypeOK /\ Begun

\* No kind is the mark of an idle request or of an account session.
LEMMA KindsDiffer == None \notin Kinds /\ Account \notin Kinds /\ Account # None
    BY KindsAreKinds

LEMMA TypedInit == Init => Typed
    <1> SUFFICES ASSUME Init PROVE Typed
        OBVIOUS
    <1>1. queue \in [Kinds -> Seq(Ids)]
        BY DEF Init
    <1> QED BY <1>1, BoundsAreNat DEF Init, Typed, TypeOK, Begun

\* What an issuance appends to, and the token it mints, are well typed; the
\* new queue still ends in the old one's later entries.
LEMMA IssuedQueue ==
    ASSUME TypeOK, NEW k \in Kinds, minted < MaxTokens
    PROVE  LET out == Evicted(queue[k], k)
               rest == IF out = {} THEN queue[k] ELSE Tail(queue[k])
           IN /\ minted + 1 \in Ids
              /\ rest \in Seq(Ids)
              /\ Len(queue[k]) <= MaxSessions[k] => Len(rest) < MaxSessions[k]
              /\ Range(queue[k]) \subseteq Range(rest) \cup out
    <1> DEFINE q == queue[k]
               out == Evicted(queue[k], k)
               rest == IF out = {} THEN queue[k] ELSE Tail(queue[k])
    <1>1. q \in Seq(Ids) /\ MaxSessions[k] \in Nat \ {0} /\ minted + 1 \in Ids
        BY BoundsAreNat, CapsArePositive DEF TypeOK, Ids
    <1>2. CASE Len(q) >= MaxSessions[k]
        <2>1. out = {Head(q)} /\ rest = Tail(q)
            BY <1>2 DEF Evicted
        <2>2. q # <<>> /\ Tail(q) \in Seq(Ids) /\ Len(Tail(q)) = Len(q) - 1
            BY <1>1, <1>2
        <2>3. ASSUME NEW i \in DOMAIN q PROVE q[i] \in Range(Tail(q)) \cup {Head(q)}
            <3>1. CASE i = 1
                BY <2>2, <3>1
            <3>2. CASE i # 1
                <4>1. i - 1 \in DOMAIN Tail(q) /\ Tail(q)[i - 1] = q[i]
                    BY <1>1, <2>2, <3>2
                <4> QED BY <4>1 DEF Range
            <3> QED BY <3>1, <3>2
        <2>4. Range(q) \subseteq Range(Tail(q)) \cup {Head(q)}
            BY <2>3 DEF Range
        <2>5. Len(q) <= MaxSessions[k] => Len(Tail(q)) < MaxSessions[k]
            BY <1>1, <2>2
        <2> QED BY <1>1, <2>1, <2>2, <2>4, <2>5
    <1>3. CASE ~(Len(q) >= MaxSessions[k])
        <2>1. out = {} /\ rest = q
            BY <1>3 DEF Evicted
        <2>2. Len(q) < MaxSessions[k]
            BY <1>1, <1>3
        <2> QED BY <1>1, <2>1, <2>2
    <1> QED BY <1>2, <1>3

LEMMA TypedNext == Typed /\ [Next]_vars => Typed'
    <1> SUFFICES ASSUME Typed, [Next]_vars PROVE Typed'
        OBVIOUS
    <1>1. ASSUME NEW p \in Procs, NEW k \in Kinds, Begin(p, k) PROVE Typed'
        BY <1>1 DEF Begin, Typed, TypeOK, Begun
    <1>2. ASSUME NEW p \in Procs, Judge(p) PROVE Typed'
        <2>1. CASE Leave(p)
            BY <1>2, <2>1 DEF Judge, Leave, Typed, TypeOK, Begun
        <2>2. CASE ~Leave(p)
            <3>1. /\ pc' = [pc EXCEPT ![p] = "issue"]
                  /\ UNCHANGED <<kind, observed>>
                BY <1>2, <2>2 DEF Judge
            <3> QED BY <1>2, <3>1 DEF Judge, Typed, TypeOK, Begun
        <2> QED BY <2>1, <2>2
    <1>3. ASSUME NEW p \in Procs, Issue(p) PROVE Typed'
        <2>1. kind[p] \in Kinds
            BY <1>3 DEF Issue, Typed, Begun
        <2>2. CASE generation[kind[p]] # observed[p]
            BY <1>3, <2>2 DEF Issue, Leave, Typed, TypeOK, Begun
        <2>3. CASE generation[kind[p]] = observed[p]
            <3> DEFINE k == kind[p]
                       out == Evicted(queue[k], k)
                       rest == IF out = {} THEN queue[k] ELSE Tail(queue[k])
            <3>1. /\ minted < MaxTokens
                  /\ minted' = minted + 1
                  /\ tokens' = [i \in Ids |-> IF i = minted + 1 THEN k
                                              ELSE IF i \in out THEN None ELSE tokens[i]]
                  /\ queue' = [queue EXCEPT ![k] = Append(rest, minted + 1)]
                BY <1>3, <2>1, <2>3 DEF Issue, Typed, TypeOK
            <3>2. minted + 1 \in Ids /\ rest \in Seq(Ids)
                BY <2>1, <3>1, IssuedQueue DEF Typed
            <3>3. Append(rest, minted + 1) \in Seq(Ids)
                BY <3>2
            <3>4. queue' \in [Kinds -> Seq(Ids)]
                BY <3>1, <3>3 DEF Typed, TypeOK
            <3>5. tokens' \in [Ids -> Kinds \cup {Account, None}]
                BY <2>1, <3>1 DEF Typed, TypeOK
            <3>6. minted' \in 0..MaxTokens
                BY <3>1, BoundsAreNat DEF Typed, TypeOK
            <3>7. Begun' /\ pc' \in [Procs -> {"idle", "judge", "issue"}]
                  /\ kind' \in [Procs -> Kinds \cup {None}]
                  /\ observed' \in [Procs -> Nat]
                BY <1>3 DEF Issue, Leave, Typed, TypeOK, Begun
            <3> QED BY <1>3, <3>4, <3>5, <3>6, <3>7 DEF Issue, Typed, TypeOK
        <2> QED BY <2>2, <2>3
    <1>4. ASSUME NEW k \in Kinds, Open(k) \/ Close(k) PROVE Typed'
        BY <1>4 DEF Open, Close, requestVars, Typed, TypeOK, Begun
    <1>5. CASE Revoke
        <2>1. closing \in Kinds
            BY <1>5 DEF Revoke, Typed, TypeOK
        <2>2. generation' \in [Kinds -> Nat]
              /\ \A k \in Kinds : generation[k] <= generation'[k]
            BY <1>5, <2>1 DEF Revoke, Typed, TypeOK
        <2>3. queue' \in [Kinds -> Seq(Ids)]
            BY <1>5 DEF Revoke, Typed, TypeOK
        <2>4. Begun'
            BY <1>5, <2>2 DEF Revoke, requestVars, Typed, TypeOK, Begun
        <2> QED BY <1>5, <2>2, <2>3, <2>4 DEF Revoke, requestVars, Typed, TypeOK
    <1>6. CASE Login
        BY <1>6, BoundsAreNat DEF Login, requestVars, Ids, Typed, TypeOK, Begun
    <1>7. ASSUME NEW t \in Ids, Gone(t) PROVE Typed'
        BY <1>7 DEF Gone, requestVars, Typed, TypeOK, Begun
    <1>8. CASE UNCHANGED vars
        BY <1>8 DEF vars, Typed, TypeOK, Begun
    <1> QED BY <1>1, <1>2, <1>3, <1>4, <1>5, <1>6, <1>7, <1>8 DEF Next

\* Every variable keeps its type, and a request under way the kind it is for.
THEOREM TypeCorrect == Spec => []TypeOK
    <1>1. Typed => TypeOK
        BY DEF Typed
    <1> QED BY <1>1, TypedInit, TypedNext, PTL DEF Spec

-----------------------------------------------------------------------------
(* A closed kind has no session.                                           *)

\* A request that was judged allowed finds the condition still open, or the
\* closer between its save and its revocation, or the generation moved.
Judged ==
    \A p \in Procs :
        pc[p] = "issue" /\ observed[p] = generation[kind[p]]
            => enabled[kind[p]] \/ closing = kind[p]

ClosedInv == Typed /\ NoGrantWhileClosed /\ Judged

LEMMA ClosedNext == ClosedInv /\ [Next]_vars => NoGrantWhileClosed' /\ Judged'
    <1> SUFFICES ASSUME ClosedInv, [Next]_vars PROVE NoGrantWhileClosed' /\ Judged'
        OBVIOUS
    <1> USE DEF Live
    <1>1. ASSUME NEW p \in Procs, NEW k \in Kinds, Begin(p, k)
          PROVE  NoGrantWhileClosed' /\ Judged'
        BY <1>1 DEF Begin, ClosedInv, Typed, TypeOK, NoGrantWhileClosed, Judged
    <1>2. ASSUME NEW p \in Procs, Judge(p) PROVE NoGrantWhileClosed' /\ Judged'
        <2>1. CASE Leave(p)
            BY <1>2, <2>1
               DEF Judge, Leave, ClosedInv, Typed, TypeOK, NoGrantWhileClosed, Judged
        <2>2. CASE ~Leave(p)
            <3>1. /\ enabled[kind[p]]
                  /\ pc' = [pc EXCEPT ![p] = "issue"]
                  /\ UNCHANGED <<kind, observed>>
                BY <1>2, <2>2 DEF Judge
            <3> QED BY <1>2, <3>1
                    DEF Judge, ClosedInv, Typed, TypeOK, NoGrantWhileClosed, Judged
        <2> QED BY <2>1, <2>2
    <1>3. ASSUME NEW p \in Procs, Issue(p) PROVE NoGrantWhileClosed' /\ Judged'
        <2>1. Judged'
            BY <1>3 DEF Issue, Leave, ClosedInv, Typed, TypeOK, Judged
        <2>2. ASSUME NEW k \in Kinds, ~enabled[k], closing # k,
                     NEW t \in Ids, tokens'[t] = k
              PROVE  tokens[t] = k
            <3>1. kind[p] # k \/ generation[kind[p]] # observed[p]
                BY <1>3, <2>2 DEF Issue, ClosedInv, Judged
            <3> QED BY <1>3, <2>2, <3>1, KindsDiffer DEF Issue, ClosedInv, Typed, TypeOK
        <2> QED BY <1>3, <2>1, <2>2 DEF Issue, ClosedInv, NoGrantWhileClosed
    <1>4. ASSUME NEW k \in Kinds, Open(k) \/ Close(k)
          PROVE  NoGrantWhileClosed' /\ Judged'
        <2>1. ASSUME NEW j \in Kinds, ~enabled'[j], closing' # j
              PROVE  ~enabled[j] /\ closing # j
            BY <1>4, <2>1, KindsDiffer DEF Open, Close, ClosedInv, Typed, TypeOK
        <2>2. NoGrantWhileClosed'
            <3>1. tokens' = tokens
                BY <1>4 DEF Open, Close
            <3> QED BY <2>1, <3>1 DEF ClosedInv, NoGrantWhileClosed
        <2>3. ASSUME NEW p \in Procs, pc[p] = "issue",
                     observed[p] = generation[kind[p]]
              PROVE  enabled'[kind[p]] \/ closing' = kind[p]
            <3>1. kind[p] \in Kinds /\ (enabled[kind[p]] \/ closing = kind[p])
                BY <2>3 DEF ClosedInv, Typed, Begun, Judged
            <3> QED BY <1>4, <3>1, KindsDiffer DEF Open, Close, ClosedInv, Typed, TypeOK
        <2> QED BY <1>4, <2>2, <2>3 DEF Open, Close, requestVars, Judged
    <1>5. CASE Revoke
        <2>1. NoGrantWhileClosed'
            BY <1>5, KindsDiffer
               DEF Revoke, ClosedInv, Typed, TypeOK, NoGrantWhileClosed
        <2>2. ASSUME NEW p \in Procs, pc[p] = "issue",
                     observed[p] = generation'[kind[p]]
              PROVE  enabled[kind[p]]
            <3>1. /\ kind[p] \in Kinds
                  /\ observed[p] \in Nat /\ generation[kind[p]] \in Nat
                  /\ observed[p] <= generation[kind[p]]
                BY <2>2 DEF ClosedInv, Typed, TypeOK, Begun
            <3>2. kind[p] # closing
                BY <1>5, <2>2, <3>1 DEF Revoke, ClosedInv, Typed, TypeOK
            <3>3. generation'[kind[p]] = generation[kind[p]]
                BY <1>5, <3>1, <3>2 DEF Revoke, ClosedInv, Typed, TypeOK
            <3> QED BY <2>2, <3>2, <3>3 DEF ClosedInv, Judged
        <2> QED BY <1>5, <2>1, <2>2 DEF Revoke, requestVars, Judged
    <1>6. CASE Login
        BY <1>6, KindsDiffer
           DEF Login, requestVars, ClosedInv, Typed, TypeOK, NoGrantWhileClosed, Judged
    <1>7. ASSUME NEW t \in Ids, Gone(t) PROVE NoGrantWhileClosed' /\ Judged'
        BY <1>7, KindsDiffer
           DEF Gone, requestVars, ClosedInv, Typed, TypeOK, NoGrantWhileClosed, Judged
    <1>8. CASE UNCHANGED vars
        BY <1>8 DEF vars, ClosedInv, NoGrantWhileClosed, Judged
    <1> QED BY <1>1, <1>2, <1>3, <1>4, <1>5, <1>6, <1>7, <1>8 DEF Next

\* Closing a condition by saving it and revoking the kind afterwards leaves no
\* session of the kind, whatever was being judged when it closed.
THEOREM ClosedMeansClosed == Spec => []NoGrantWhileClosed
    <1>1. Init => ClosedInv
        <2>1. Init => NoGrantWhileClosed /\ Judged
            BY KindsDiffer DEF Init, NoGrantWhileClosed, Judged, Live
        <2> QED BY <2>1, TypedInit DEF ClosedInv
    <1>2. ClosedInv /\ [Next]_vars => ClosedInv'
        BY TypedNext, ClosedNext DEF ClosedInv
    <1>3. ClosedInv => NoGrantWhileClosed
        BY DEF ClosedInv
    <1> QED BY <1>1, <1>2, <1>3, PTL DEF Spec

-----------------------------------------------------------------------------
(* The caps.                                                               *)

\* A queue keeps to its cap, and every live session of a kind is in it.
Queued ==
    \A k \in Kinds :
        /\ Len(queue[k]) <= MaxSessions[k]
        /\ Live(k) \subseteq Range(queue[k])

\* A sequence has at most as many elements as positions.
LEMMA RangeIsBounded ==
    ASSUME NEW S, NEW q \in Seq(S)
    PROVE  IsFiniteSet(Range(q)) /\ Cardinality(Range(q)) <= Len(q)
    <1>1. 1..Len(q) = DOMAIN q /\ Len(q) \in Nat
        OBVIOUS
    <1>2. q \in Surjection(1..Len(q), Range(q))
        BY <1>1 DEF Range, Surjection
    <1>3. IsFiniteSet(1..Len(q)) /\ Cardinality(1..Len(q)) = Len(q)
        BY <1>1, FS_Interval
    <1> QED BY <1>2, <1>3, FS_Surjection

\* The element appended and the ones before it are in the range.
LEMMA RangeAppend ==
    ASSUME NEW S, NEW q \in Seq(S), NEW x \in S
    PROVE  Range(q) \cup {x} \subseteq Range(Append(q, x))
    <1>1. Append(q, x)[Len(q) + 1] = x /\ Len(q) + 1 \in DOMAIN Append(q, x)
        OBVIOUS
    <1>2. ASSUME NEW i \in DOMAIN q
          PROVE  i \in DOMAIN Append(q, x) /\ Append(q, x)[i] = q[i]
        OBVIOUS
    <1> QED BY <1>1, <1>2 DEF Range

LEMMA QueuedNext == Typed /\ Queued /\ [Next]_vars => Queued'
    <1> SUFFICES ASSUME Typed, Queued, [Next]_vars PROVE Queued'
        OBVIOUS
    <1>1. CASE UNCHANGED <<queue, tokens>>
        BY <1>1 DEF Queued, Live
    <1>2. ASSUME NEW p \in Procs, Issue(p), ~UNCHANGED <<queue, tokens>>
          PROVE  Queued'
        <2> DEFINE k == kind[p]
                   out == Evicted(queue[k], k)
                   rest == IF out = {} THEN queue[k] ELSE Tail(queue[k])
        <2>1. k \in Kinds
            BY <1>2 DEF Issue, Typed, Begun
        <2>2. /\ minted < MaxTokens
              /\ tokens' = [i \in Ids |-> IF i = minted + 1 THEN k
                                          ELSE IF i \in out THEN None ELSE tokens[i]]
              /\ queue' = [queue EXCEPT ![k] = Append(rest, minted + 1)]
            BY <1>2, <2>1 DEF Issue, Typed, TypeOK
        <2>3. /\ minted + 1 \in Ids
              /\ rest \in Seq(Ids)
              /\ Len(rest) < MaxSessions[k]
              /\ Range(queue[k]) \subseteq Range(rest) \cup out
            BY <2>1, <2>2, IssuedQueue DEF Typed, Queued
        <2>4. ASSUME NEW j \in Kinds, j # k
              PROVE  Len(queue'[j]) <= MaxSessions[j]
                     /\ {t \in Ids : tokens'[t] = j} \subseteq Range(queue'[j])
            <3>1. queue'[j] = queue[j]
                BY <2>2, <2>4 DEF Typed, TypeOK
            <3>2. {t \in Ids : tokens'[t] = j} \subseteq Live(j)
                BY <2>2, <2>4, KindsDiffer DEF Live
            <3> QED BY <3>1, <3>2 DEF Queued
        <2>5. queue'[k] = Append(rest, minted + 1)
            BY <2>1, <2>2 DEF Typed, TypeOK
        <2>6. Len(queue'[k]) <= MaxSessions[k]
            BY <2>1, <2>3, <2>5, CapsArePositive
        <2>7. {t \in Ids : tokens'[t] = k} \subseteq (Live(k) \ out) \cup {minted + 1}
            BY <2>1, <2>2, KindsDiffer DEF Live
        <2>8. Live(k) \ out \subseteq Range(rest)
            BY <2>1, <2>3 DEF Queued
        <2>9. {t \in Ids : tokens'[t] = k} \subseteq Range(queue'[k])
            BY <2>3, <2>5, <2>7, <2>8, RangeAppend
        <2> QED BY <2>4, <2>6, <2>9 DEF Queued, Live
    <1>3. CASE Revoke
        <2>1. closing \in Kinds
            BY <1>3 DEF Revoke, Typed, TypeOK
        <2>2. queue'[closing] = <<>> /\ Len(queue'[closing]) <= MaxSessions[closing]
            <3>1. queue'[closing] = <<>>
                BY <1>3, <2>1 DEF Revoke, Typed, TypeOK
            <3>2. Len(<<>>) = 0 /\ MaxSessions[closing] \in Nat
                BY <2>1, CapsArePositive
            <3> QED BY <3>1, <3>2
        <2>3. {t \in Ids : tokens'[t] = closing} = {}
            BY <1>3, <2>1, KindsDiffer DEF Revoke
        <2>4. ASSUME NEW j \in Kinds, j # closing
              PROVE  queue'[j] = queue[j] /\ {t \in Ids : tokens'[t] = j} \subseteq Live(j)
            <3>1. queue'[j] = queue[j]
                BY <1>3, <2>4 DEF Revoke, Typed, TypeOK
            <3>2. ASSUME NEW t \in Ids, tokens'[t] = j PROVE tokens[t] = j
                BY <1>3, <2>4, <3>2, KindsDiffer DEF Revoke, Typed, TypeOK
            <3> QED BY <3>1, <3>2 DEF Live
        <2> QED BY <2>2, <2>3, <2>4 DEF Queued, Live
    <1>4. CASE Login
        <2>1. queue' = queue
              /\ \A k \in Kinds : {t \in Ids : tokens'[t] = k} \subseteq Live(k)
            BY <1>4, KindsDiffer DEF Login, Live, Typed, TypeOK
        <2> QED BY <2>1 DEF Queued, Live
    <1>5. ASSUME NEW i \in Ids, Gone(i) PROVE Queued'
        <2>1. queue' = queue
              /\ \A k \in Kinds : {t \in Ids : tokens'[t] = k} \subseteq Live(k)
            BY <1>5, KindsDiffer DEF Gone, Live, Typed, TypeOK
        <2> QED BY <2>1 DEF Queued, Live
    <1> QED BY <1>1, <1>2, <1>3, <1>4, <1>5
            DEF Next, Begin, Judge, Open, Close, vars

\* However issues, revocations, logouts and expiries interleave, a kind keeps
\* to its cap and its queue knows every live session of it.
THEOREM CapsAreKept == Spec => []GrantsAreCapped
    <1>1. Init => Queued
        <2> SUFFICES ASSUME Init PROVE Queued
            OBVIOUS
        <2>1. ASSUME NEW k \in Kinds
              PROVE  Len(queue[k]) <= MaxSessions[k] /\ Live(k) = {}
            BY KindsDiffer, CapsArePositive DEF Init, Live
        <2> QED BY <2>1 DEF Queued
    <1>2. Typed /\ Queued => GrantsAreCapped
        <2> SUFFICES ASSUME Typed, Queued, NEW k \in Kinds
                     PROVE  /\ Live(k) \subseteq Range(queue[k])
                            /\ Cardinality(Live(k)) <= MaxSessions[k]
            BY DEF GrantsAreCapped
        <2>1. queue[k] \in Seq(Ids) /\ Len(queue[k]) \in Nat /\ MaxSessions[k] \in Nat
            BY CapsArePositive DEF Typed, TypeOK
        <2>2. IsFiniteSet(Range(queue[k]))
              /\ Cardinality(Range(queue[k])) <= Len(queue[k])
            BY <2>1, RangeIsBounded
        <2>3. Live(k) \subseteq Range(queue[k]) /\ Len(queue[k]) <= MaxSessions[k]
            BY DEF Queued
        <2>4. IsFiniteSet(Live(k)) /\ Cardinality(Live(k)) <= Cardinality(Range(queue[k]))
            BY <2>2, <2>3, FS_Subset
        <2>5. Cardinality(Live(k)) \in Nat /\ Cardinality(Range(queue[k])) \in Nat
            BY <2>2, <2>4, FS_CardinalityType
        <2> QED BY <2>1, <2>2, <2>3, <2>4, <2>5
    <1> QED BY <1>1, <1>2, TypedInit, TypedNext, QueuedNext, PTL DEF Spec

-----------------------------------------------------------------------------
(* The failure table of the reach check.                                   *)

Entries == [start : Nat, failures : Nat, until : Nat, seen : Nat]

LimiterTypes ==
    /\ now \in Nat \ {0}
    /\ DOMAIN table \subseteq Addrs /\ \A a \in DOMAIN table : table[a] \in Entries
    /\ timed \subseteq [addr : Addrs, at : 1..now, counted : BOOLEAN]
    /\ lastTry \in [Addrs -> Nat] /\ since \in [Addrs -> SUBSET Addrs]
    /\ promised \in [Addrs -> Nat]

\* An entry tells when its address was last refused or counted and what it
\* was promised; an address without one is out of its time, or as many others
\* as the table holds have tried since it did.
TableOK ==
    /\ Cardinality(DOMAIN table) <= Cap
    /\ \A a \in DOMAIN table :
          table[a].seen = lastTry[a] /\ lastTry[a] > 0 /\ table[a].until = promised[a]
    /\ \A a \in Addrs \ DOMAIN table :
          now < promised[a] => Cardinality(R!TriedSince(a)) >= Cap

LimiterInv == LimiterTypes /\ TableOK

\* The limiter's instance brings its own FiniteSets.
LEMMA SameSizes ==
    /\ \A S : R!IsFiniteSet(S) <=> IsFiniteSet(S)
    /\ \A S : R!Cardinality(S) = Cardinality(S)
    <1>1. \A S : R!IsFiniteSet(S) <=> IsFiniteSet(S)
        BY DEF R!IsFiniteSet, IsFiniteSet
    <1>2. \A S : R!Cardinality(S) = Cardinality(S)
        BY DEF R!Cardinality, Cardinality
    <1> QED BY <1>1, <1>2

LEMMA LimitsAre == IsFiniteSet(Addrs) /\ Cap \in Nat /\ Failures \in Nat /\ Window \in Nat
    BY LimiterConstants, SameSizes DEF R!LimitsAreNat

LEMMA LimiterInit == R!Init => LimiterInv
    <1> SUFFICES ASSUME R!Init PROVE LimiterInv
        OBVIOUS
    <1>1. DOMAIN table = {}
        BY DEF R!Init
    <1>2. Cardinality(DOMAIN table) = 0
        BY <1>1, FS_EmptySet
    <1> QED BY <1>1, <1>2, LimitsAre DEF R!Init, LimiterInv, LimiterTypes, TableOK

\* A failure keeps the entries it does not count, but the one seen the
\* longest ago when the table is full.
Grown(u, t, a, at) ==
    /\ u[a] \in Entries /\ u[a].seen = at
    /\ \/ DOMAIN u = DOMAIN t \cup {a} /\ Cardinality(DOMAIN u) <= Cap
       \/ /\ a \notin DOMAIN t /\ Cardinality(DOMAIN t) = Cap /\ Cardinality(DOMAIN u) <= Cap
          /\ \E o \in R!Oldest(t) : DOMAIN u = (DOMAIN t \ {o}) \cup {a}
    /\ \A b \in DOMAIN u \ {a} : b \in DOMAIN t /\ u[b] = t[b]

Tables(t) ==
    /\ DOMAIN t \subseteq Addrs /\ \A b \in DOMAIN t : t[b] \in Entries
    /\ Cardinality(DOMAIN t) <= Cap

LEMMA AfterFailureIs ==
    ASSUME NEW t, Tables(t), NEW a \in Addrs, NEW at \in Nat, NEW u \in R!AfterFailure(t, a, at)
    PROVE  Grown(u, t, a, at)
    <1> USE DEF Tables, Grown
    <1> DEFINE kept == IF a \in DOMAIN t \/ Cardinality(DOMAIN t) < Cap
                       THEN {DOMAIN t}
                       ELSE {DOMAIN t \ {o} : o \in R!Oldest(t)}
               old == IF a \in DOMAIN t THEN t[a] ELSE R!Entry(at, 0, R!NotBlocked, at)
               new == R!Counted(old, at)
    <1>1. PICK k \in kept : u = [b \in k \cup {a} |-> IF b = a THEN new ELSE t[b]]
        BY SameSizes DEF R!AfterFailure
    <1>2. new \in Entries /\ new.seen = at
        <2>1. old \in Entries
            BY DEF R!Entry, R!NotBlocked, Entries
        <2> HIDE DEF old
        <2> QED BY <2>1, LimitsAre DEF R!Counted, R!Entry, Entries
    <1>3. k \subseteq DOMAIN t
        BY DEF R!Oldest
    <1> HIDE DEF new
    <1>4. DOMAIN u = k \cup {a} /\ u[a] = new /\ \A b \in DOMAIN u \ {a} : b \in DOMAIN t /\ u[b] = t[b]
        BY <1>1, <1>3
    <1>5. IsFiniteSet(DOMAIN t) /\ Cardinality(DOMAIN t) \in Nat
        BY LimitsAre, FS_Subset, FS_CardinalityType
    <1>6. CASE a \in DOMAIN t
        BY <1>2, <1>4, <1>6
    <1>7. CASE a \notin DOMAIN t /\ Cardinality(DOMAIN t) < Cap
        <2>1. k = DOMAIN t
            BY <1>7
        <2>2. Cardinality(DOMAIN u) = Cardinality(DOMAIN t) + 1
            BY <1>4, <1>5, <1>7, <2>1, FS_AddElement
        <2> QED BY <1>2, <1>4, <1>5, <1>7, <2>1, <2>2, LimitsAre
    <1>8. CASE a \notin DOMAIN t /\ ~(Cardinality(DOMAIN t) < Cap)
        <2>1. PICK o \in R!Oldest(t) : k = DOMAIN t \ {o}
            BY <1>8
        <2>2. o \in DOMAIN t /\ Cardinality(DOMAIN t) = Cap
            BY <1>5, <1>8, LimitsAre DEF R!Oldest
        <2>3. IsFiniteSet(k) /\ Cardinality(k) = Cap - 1
            BY <1>5, <2>1, <2>2, FS_RemoveElement
        <2>4. Cardinality(DOMAIN u) = Cardinality(k) + 1
            BY <1>3, <1>4, <1>8, <2>3, FS_AddElement
        <2>5. Cardinality(DOMAIN u) <= Cap
            BY <2>3, <2>4, LimitsAre
        <2> QED BY <1>2, <1>4, <1>8, <2>1, <2>2, <2>5
    <1> QED BY <1>6, <1>7, <1>8

\* Whoever tried since a did stays counted while a does not try.
LEMMA TriedSinceGrows ==
    ASSUME LimiterTypes, NEW c \in timed, R!Noted(c), NEW a \in Addrs, a # c.addr
    PROVE  /\ R!TriedSince(a) \subseteq R!TriedSince(a)' /\ c.addr \in R!TriedSince(a)'
           /\ R!TriedSince(a)' \subseteq Addrs
    <1>1. c.addr \in Addrs /\ c.at \in Nat
        BY DEF LimiterTypes
    <1>2. since'[a] = since[a] \cup {c.addr} /\ lastTry'[a] = lastTry[a]
          /\ \A b \in Addrs : b # c.addr => lastTry'[b] = lastTry[b]
        BY <1>1 DEF R!Noted, LimiterTypes
    <1> QED BY <1>1, <1>2 DEF R!TriedSince, LimiterTypes

LEMMA TypesOfEntries ==
    ASSUME LimiterTypes, NEW c \in timed
    PROVE  c.addr \in Addrs /\ c.at \in Nat /\ c.at > 0 /\ c.at <= now /\ now \in Nat
    BY DEF LimiterTypes

\* A step of a check under the lock leaves the types.
LEMMA JudgedTypes ==
    ASSUME LimiterTypes, NEW c \in timed, timed' = timed \ {c}, now' = now,
           DOMAIN table' \subseteq Addrs, \A a \in DOMAIN table' : table'[a] \in Entries,
           promised' \in [Addrs -> Nat],
           R!Noted(c) \/ UNCHANGED <<lastTry, since>>
    PROVE  LimiterTypes'
    <1>1. lastTry' \in [Addrs -> Nat] /\ since' \in [Addrs -> SUBSET Addrs]
        BY TypesOfEntries DEF LimiterTypes, R!Noted
    <1> QED BY <1>1 DEF LimiterTypes

LEMMA StillTried ==
    ASSUME LimiterInv, NEW c \in timed, R!Noted(c), NEW b \in Addrs, b # c.addr,
           Cardinality(R!TriedSince(b)) >= Cap
    PROVE  Cardinality(R!TriedSince(b)') >= Cap
    <1>1. R!TriedSince(b) \subseteq R!TriedSince(b)' /\ R!TriedSince(b)' \subseteq Addrs
        BY TriedSinceGrows DEF LimiterInv
    <1> DEFINE S == R!TriedSince(b)
               T2 == R!TriedSince(b)'
    <1> HIDE DEF S, T2
    <1>2. IsFiniteSet(T2) /\ IsFiniteSet(S) /\ Cardinality(S) <= Cardinality(T2)
        BY <1>1, LimitsAre, FS_Subset DEF S, T2
    <1>3. Cardinality(S) \in Nat /\ Cardinality(T2) \in Nat
        BY <1>2, FS_CardinalityType
    <1>4. Cardinality(T2) >= Cap
        BY <1>2, <1>3, LimitsAre DEF S
    <1> QED BY <1>4 DEF T2

LEMMA RefuseInv ==
    ASSUME LimiterInv, NEW c \in timed, R!Refuse(c), timed' = timed \ {c}, now' = now
    PROVE  LimiterInv'
    <1>1. c.addr \in Addrs /\ c.at \in Nat /\ c.at > 0 /\ c.at <= now /\ now \in Nat
        BY TypesOfEntries DEF LimiterInv
    <1>2. c.addr \in DOMAIN table /\ table' = [table EXCEPT ![c.addr].seen = c.at]
          /\ R!Noted(c) /\ promised' = promised
        BY DEF R!Refuse, R!IsBlocked, R!Touched
    <1>3. DOMAIN table' = DOMAIN table /\ \A b \in DOMAIN table : b # c.addr => table'[b] = table[b]
        BY <1>2
    <1>4. /\ table'[c.addr] \in Entries /\ table'[c.addr].seen = c.at
          /\ table'[c.addr].until = table[c.addr].until
        <2>1. table[c.addr] \in Entries /\ table'[c.addr] = [table[c.addr] EXCEPT !.seen = c.at]
            BY <1>2 DEF LimiterInv, LimiterTypes
        <2> QED BY <1>1, <2>1 DEF Entries
    <1>5. LimiterTypes'
        BY <1>2, <1>3, <1>4, JudgedTypes DEF LimiterInv, LimiterTypes
    <1>6. lastTry'[c.addr] = c.at /\ \A b \in Addrs : b # c.addr => lastTry'[b] = lastTry[b]
        BY <1>1, <1>2 DEF R!Noted, LimiterInv, LimiterTypes
    <1>7. ASSUME NEW b \in DOMAIN table'
          PROVE  table'[b].seen = lastTry'[b] /\ lastTry'[b] > 0 /\ table'[b].until = promised'[b]
        BY <1>1, <1>2, <1>3, <1>4, <1>6, <1>7 DEF LimiterInv, LimiterTypes, TableOK
    <1>8. ASSUME NEW b \in Addrs \ DOMAIN table', now' < promised'[b]
          PROVE  Cardinality(R!TriedSince(b)') >= Cap
        <2>1. Cardinality(R!TriedSince(b)) >= Cap /\ b # c.addr
            BY <1>2, <1>3, <1>8 DEF LimiterInv, TableOK
        <2> QED BY <1>2, <1>8, <2>1, StillTried
    <1>9. Cardinality(DOMAIN table') <= Cap
        BY <1>3 DEF LimiterInv, TableOK
    <1> QED BY <1>5, <1>7, <1>8, <1>9 DEF LimiterInv, TableOK

LEMMA ReleasedIs ==
    ASSUME LimiterInv, NEW a \in Addrs
    PROVE  LET t == R!Released(a)
           IN  /\ DOMAIN t \subseteq DOMAIN table /\ DOMAIN table \subseteq DOMAIN t \cup {a}
               /\ \A b \in DOMAIN t : t[b] = table[b] /\ t[b] \in Entries
               /\ IsFiniteSet(DOMAIN t) /\ Cardinality(DOMAIN t) <= Cap
               /\ a \notin DOMAIN t /\ a \in DOMAIN table => table[a].until # R!NotBlocked
    <1> DEFINE t == R!Released(a)
    <1>1. /\ DOMAIN t \subseteq DOMAIN table /\ DOMAIN table \subseteq DOMAIN t \cup {a}
          /\ \A b \in DOMAIN t : t[b] = table[b]
          /\ a \notin DOMAIN t /\ a \in DOMAIN table => table[a].until # R!NotBlocked
        BY DEF R!Released, R!Restricted
    <1> HIDE DEF t
    <1>2. IsFiniteSet(DOMAIN table)
        BY LimitsAre, FS_Subset DEF LimiterInv, LimiterTypes
    <1>3. IsFiniteSet(DOMAIN t) /\ Cardinality(DOMAIN t) <= Cardinality(DOMAIN table)
          /\ Cardinality(DOMAIN t) \in Nat /\ Cardinality(DOMAIN table) \in Nat
        BY <1>1, <1>2, FS_Subset, FS_CardinalityType
    <1>4. Cardinality(DOMAIN t) <= Cap
        BY <1>3, LimitsAre DEF LimiterInv, TableOK
    <1> QED BY <1>1, <1>3, <1>4 DEF t, LimiterInv, LimiterTypes

LEMMA FailInv ==
    ASSUME LimiterInv, NEW c \in timed, R!Fail(c), timed' = timed \ {c}, now' = now
    PROVE  LimiterInv'
    <1> DEFINE a == c.addr
               t == R!Released(c.addr)
    <1>1. a \in Addrs /\ c.at \in Nat /\ c.at > 0 /\ c.at <= now /\ now \in Nat
        BY TypesOfEntries DEF LimiterInv
    <1>2. table' \in R!AfterFailure(t, a, c.at) /\ R!Noted(c)
          /\ promised' = [promised EXCEPT ![a] = table'[a].until]
        BY DEF R!Fail
    <1>3. /\ DOMAIN t \subseteq DOMAIN table /\ DOMAIN table \subseteq DOMAIN t \cup {a}
          /\ \A b \in DOMAIN t : t[b] = table[b] /\ t[b] \in Entries
          /\ IsFiniteSet(DOMAIN t) /\ Cardinality(DOMAIN t) <= Cap
        BY <1>1, ReleasedIs
    <1>4. DOMAIN table \subseteq Addrs
        BY DEF LimiterInv, LimiterTypes
    <1> HIDE DEF t
    <1>5. Grown(table', t, a, c.at)
        <2>1. Tables(t)
            BY <1>3, <1>4 DEF Tables
        <2> HIDE DEF a
        <2> QED BY <1>1, <1>2, <2>1, AfterFailureIs
    <1>6. promised'[a] = table'[a].until /\ (\A b \in Addrs : b # a => promised'[b] = promised[b])
          /\ promised' \in [Addrs -> Nat]
        BY <1>1, <1>2, <1>5 DEF LimiterInv, LimiterTypes, Entries, Grown
    <1>7. lastTry'[a] = c.at /\ \A b \in Addrs : b # a => lastTry'[b] = lastTry[b]
        BY <1>1, <1>2 DEF R!Noted, LimiterInv, LimiterTypes
    <1>8. DOMAIN table' \subseteq Addrs /\ a \in DOMAIN table'
          /\ \A b \in DOMAIN table' : table'[b] \in Entries
        BY <1>1, <1>3, <1>4, <1>5 DEF Grown
    <1>9. LimiterTypes'
        BY <1>2, <1>6, <1>8, JudgedTypes DEF LimiterInv
    <1>10. ASSUME NEW b \in DOMAIN table'
           PROVE  table'[b].seen = lastTry'[b] /\ lastTry'[b] > 0 /\ table'[b].until = promised'[b]
        <2>1. CASE b = a
            BY <1>1, <1>5, <1>6, <1>7, <2>1 DEF Grown
        <2>2. CASE b # a
            BY <1>3, <1>4, <1>5, <1>6, <1>7, <1>8, <2>2 DEF LimiterInv, TableOK, Grown
        <2> QED BY <2>1, <2>2
    <1>11. ASSUME NEW b \in Addrs \ DOMAIN table', now' < promised'[b]
           PROVE  Cardinality(R!TriedSince(b)') >= Cap
        <2>1. b # a /\ now < promised[b]
            BY <1>6, <1>8, <1>11
        <2>2. CASE b \notin DOMAIN table
            BY <1>2, <2>1, <2>2, StillTried DEF LimiterInv, TableOK
        <2>3. CASE b \in DOMAIN table
            <3>1. b \in DOMAIN t /\ b \notin DOMAIN table'
                BY <1>3, <1>11, <2>1, <2>3
            <3>2. PICK o \in R!Oldest(t) : DOMAIN table' = (DOMAIN t \ {o}) \cup {a}
                BY <1>5, <3>1 DEF Grown
            <3>3. b = o /\ a \notin DOMAIN t /\ Cardinality(DOMAIN t) = Cap
                BY <1>5, <3>1, <3>2 DEF Grown
            <3>4. ASSUME NEW d \in DOMAIN t \ {b} PROVE d \in R!TriedSince(b)'
                <4>1. t[b].seen <= t[d].seen /\ d # a /\ d \in Addrs
                    BY <1>3, <1>4, <3>2, <3>3 DEF R!Oldest
                <4>2. lastTry[b] <= lastTry[d] /\ lastTry[d] > 0
                    BY <1>3, <3>1, <4>1 DEF LimiterInv, TableOK
                <4>3. lastTry'[b] = lastTry[b] /\ lastTry'[d] = lastTry[d]
                    BY <1>7, <2>1, <4>1
                <4>4. lastTry'[d] >= lastTry'[b] /\ lastTry'[d] > 0
                    BY <1>4, <2>3, <4>1, <4>2, <4>3 DEF LimiterInv, LimiterTypes
                <4> QED BY <4>1, <4>4 DEF R!TriedSince
            <3>5. a \in R!TriedSince(b)' /\ R!TriedSince(b)' \subseteq Addrs
                BY <1>2, <2>1, TriedSinceGrows DEF LimiterInv
            <3> DEFINE S == (DOMAIN t \ {b}) \cup {a}
                       T2 == R!TriedSince(b)'
            <3>6. S \subseteq T2
                BY <3>4, <3>5
            <3>7. IsFiniteSet(DOMAIN t \ {b}) /\ Cardinality(DOMAIN t \ {b}) = Cap - 1
                BY <1>3, <3>1, <3>3, FS_RemoveElement
            <3>8. Cardinality(S) = Cap
                <4> DEFINE K == DOMAIN t \ {b}
                <4>1. IsFiniteSet(K) /\ Cardinality(K) = Cap - 1 /\ a \notin K /\ S = K \cup {a}
                    BY <3>3, <3>7
                <4> HIDE DEF K, S, a
                <4>2. Cardinality(K \cup {a}) = Cardinality(K) + 1
                    BY <4>1, FS_AddElement
                <4> QED BY <4>1, <4>2, LimitsAre
            <3> HIDE DEF S, T2
            <3>9. IsFiniteSet(T2) /\ Cardinality(T2) \in Nat
                BY <3>5, LimitsAre, FS_Subset, FS_CardinalityType DEF T2
            <3>10. Cardinality(S) <= Cardinality(T2)
                BY <3>6, <3>9, FS_Subset
            <3>11. Cardinality(T2) >= Cap
                BY <3>8, <3>9, <3>10, LimitsAre
            <3> QED BY <3>11 DEF T2
        <2> QED BY <2>2, <2>3
    <1> QED BY <1>5, <1>9, <1>10, <1>11 DEF LimiterInv, TableOK, Grown

LEMMA PassInv ==
    ASSUME LimiterInv, NEW c \in timed, R!Pass(c), timed' = timed \ {c}, now' = now
    PROVE  LimiterInv'
    <1> DEFINE a == c.addr
               t == R!Released(c.addr)
    <1>1. a \in Addrs /\ c.at \in Nat /\ c.at > 0 /\ c.at <= now /\ now \in Nat
        BY TypesOfEntries DEF LimiterInv
    <1>2. table' = t /\ UNCHANGED <<promised, lastTry, since>> /\ ~R!IsBlocked(a, c.at)
        BY DEF R!Pass, R!history
    <1>3. /\ DOMAIN t \subseteq DOMAIN table /\ DOMAIN table \subseteq DOMAIN t \cup {a}
          /\ \A b \in DOMAIN t : t[b] = table[b] /\ t[b] \in Entries
          /\ IsFiniteSet(DOMAIN t) /\ Cardinality(DOMAIN t) <= Cap
        BY <1>1, ReleasedIs
    <1> HIDE DEF t
    <1>4. LimiterTypes'
        BY <1>2, <1>3, JudgedTypes DEF LimiterInv, LimiterTypes
    <1>5. ASSUME NEW b \in DOMAIN table'
          PROVE  table'[b].seen = lastTry'[b] /\ lastTry'[b] > 0 /\ table'[b].until = promised'[b]
        BY <1>2, <1>3 DEF LimiterInv, TableOK
    <1>6. ASSUME NEW b \in Addrs \ DOMAIN table', now' < promised'[b]
          PROVE  Cardinality(R!TriedSince(b)') >= Cap
        <2>1. R!TriedSince(b)' = R!TriedSince(b) /\ now < promised[b]
            BY <1>2, <1>6 DEF R!TriedSince
        <2>2. b \notin DOMAIN table
            <3>1. b \in DOMAIN table => b = a /\ table[a].until = promised[a] /\ table[a] \in Entries
                BY <1>2, <1>3, <1>6 DEF LimiterInv, TableOK, LimiterTypes
            <3>2. b \in DOMAIN table => ~(c.at < promised[a])
                BY <1>2, <3>1 DEF R!IsBlocked
            <3> QED BY <1>1, <2>1, <3>1, <3>2 DEF Entries
        <2> QED BY <2>1, <2>2 DEF LimiterInv, TableOK
    <1> QED BY <1>2, <1>3, <1>4, <1>5, <1>6 DEF LimiterInv, TableOK

LEMMA LimiterNext == ASSUME LimiterInv, [R!Next]_R!vars PROVE LimiterInv'
    <1>1. CASE R!Tick \/ \E a \in Addrs, counted \in BOOLEAN : R!Arrive(a, counted)
        <2>1. /\ UNCHANGED <<table, promised, lastTry, since>>
              /\ now' \in Nat \ {0} /\ now <= now'
            BY <1>1 DEF R!Tick, R!Arrive, R!history, LimiterInv, LimiterTypes
        <2>2. timed' \subseteq [addr : Addrs, at : 1..now', counted : BOOLEAN]
            <3>1. CASE R!Tick
                BY <2>1, <3>1 DEF R!Tick, LimiterInv, LimiterTypes
            <3>2. CASE \E a \in Addrs, counted \in BOOLEAN : R!Arrive(a, counted)
                BY <3>2 DEF R!Arrive, LimiterInv, LimiterTypes
            <3> QED BY <1>1, <3>1, <3>2
        <2>3. LimiterTypes'
            BY <2>1, <2>2 DEF LimiterInv, LimiterTypes
        <2>4. \A b \in Addrs : R!TriedSince(b)' = R!TriedSince(b)
            BY <2>1 DEF R!TriedSince
        <2>5. \A b \in Addrs : now' < promised[b] => now < promised[b]
            BY <2>1 DEF LimiterInv, LimiterTypes
        <2>6. TableOK'
            BY <2>1, <2>4, <2>5 DEF LimiterInv, TableOK
        <2> QED BY <2>3, <2>6 DEF LimiterInv
    <1>2. CASE \E c \in timed : R!Judge(c)
        BY <1>2, RefuseInv, FailInv, PassInv DEF R!Judge
    <1>3. CASE UNCHANGED R!vars
        BY <1>3 DEF R!vars, R!history, LimiterInv, LimiterTypes, TableOK, R!TriedSince
    <1> QED BY <1>1, <1>2, <1>3 DEF R!Next

LEMMA LimiterSound == LimiterInv => R!ABlockIsNotForgotten
    <1> SUFFICES ASSUME LimiterInv, NEW a \in Addrs,
                        now < promised[a], R!Cardinality(R!TriedSince(a)) < Cap
                 PROVE  R!IsBlocked(a, now)
        BY DEF R!ABlockIsNotForgotten
    <1> DEFINE S == R!TriedSince(a)
    <1>1. S \subseteq Addrs
        BY DEF R!TriedSince, LimiterInv, LimiterTypes
    <1> HIDE DEF S
    <1>2. Cardinality(S) \in Nat
        BY <1>1, LimitsAre, FS_Subset, FS_CardinalityType
    <1>3. Cardinality(S) < Cap
        BY SameSizes DEF S
    <1>4. a \in DOMAIN table
        <2>1. a \notin DOMAIN table => Cardinality(S) >= Cap
            BY DEF LimiterInv, TableOK, S
        <2> QED BY <1>2, <1>3, <2>1, LimitsAre
    <1>5. table[a].until = promised[a]
        BY <1>4 DEF LimiterInv, TableOK
    <1> QED BY <1>4, <1>5 DEF R!IsBlocked

-----------------------------------------------------------------------------
(* The reach check: a store agrees with what was issued.                   *)

Issues == [host : Lan, at : Nat, own : SUBSET Lan]
Stores == [generation : Nat, active : C!Tokens \cup {None}, last : C!Lasts \cup {None},
           records : Seq(C!Records), mark : Nat \cup {None}]
Requests == [peer : C!Peers, router : Nat, host : Lan, token : Nat, at : Nat]

CheckTypes ==
    /\ checkNow \in Nat /\ own \subseteq Lan
    /\ issued \in Seq(Issues) /\ store \in Stores /\ waiting \subseteq Requests

\* The token in force is the one issued last, and what is said of that is that
\* it is pending.
ActiveOK(s, h) ==
    s.active # None =>
        /\ s.active.id = Len(h) /\ Len(h) > 0
        /\ s.active.host = h[Len(h)].host
        /\ s.active.expires = h[Len(h)].at + Ttl
        /\ s.active.self = h[Len(h)].own \cup {h[Len(h)].host}
        /\ s.last # None /\ s.last.outcome = "pending" /\ s.last.expires = s.active.expires

LastOK(s, h) ==
    s.last # None =>
        /\ s.last.id = Len(h) /\ Len(h) > 0
        /\ s.last.outcome = "pending" => s.active # None
        /\ s.last.outcome = "recorded" <=> (Len(s.records) > 0 /\ s.records[1].id = s.last.id)

\* A record is of one use of the token it names.
RecordOK(r, h) ==
    /\ r.id \in 1..Len(h)
    /\ r.peer \notin h[r.id].own \cup {Loopback, h[r.id].host}
    /\ r.host = h[r.id].host
    /\ r.at \in h[r.id].at..(h[r.id].at + Ttl - 1)

\* Records are of older tokens the older they are, and never of the one in force.
RecordsOK(s, h) ==
    /\ \A i \in 1..Len(s.records) : RecordOK(s.records[i], h)
    /\ s.active # None => \A i \in 1..Len(s.records) : s.records[i].id < Len(h)
    /\ \A i, j \in 1..Len(s.records) : i < j => s.records[j].id < s.records[i].id

MarkOK(s, h) == s.mark # None => s.last # None /\ s.mark >= h[Len(h)].at

StoreOK(s, h) == ActiveOK(s, h) /\ LastOK(s, h) /\ RecordsOK(s, h) /\ MarkOK(s, h)

WaitingOK ==
    \A w \in waiting : w.token <= Len(issued) /\ (w.token > 0 => issued[w.token].at <= w.at)

IssuedOK == \A i \in 1..Len(issued) : issued[i].at <= checkNow

CheckInv == CheckTypes /\ StoreOK(store, issued) /\ WaitingOK /\ IssuedOK

LEMMA ConstantsAre == Ttl \in Nat /\ MaxRecords \in Nat \ {0} /\ None \notin Nat \cup C!Tokens \cup C!Lasts
    BY CheckConstants DEF C!LimitsAreNat, C!NoneIsNoValue

LEMMA BegunIsOK == \A g \in Nat : \A h : C!Begun(g) \in Stores /\ StoreOK(C!Begun(g), h)
    BY ConstantsAre DEF C!Begun, Stores, StoreOK, ActiveOK, LastOK, RecordsOK, MarkOK

\* What expires at t takes nothing from what the store agrees with.
LEMMA ExpiredIsOK ==
    ASSUME NEW s \in Stores, NEW h \in Seq(Issues), StoreOK(s, h), NEW t \in Nat
    PROVE  /\ C!Expired(s, t) \in Stores /\ StoreOK(C!Expired(s, t), h)
           /\ C!Expired(s, t).active # None =>
                 C!Expired(s, t).active = s.active /\ t < s.active.expires
    <1> DEFINE e == C!Expired(s, t)
    <1>1. /\ e.generation = s.generation /\ e.records = s.records /\ e.mark = s.mark
          /\ e.active = IF s.active # None /\ t >= s.active.expires THEN None ELSE s.active
          /\ e.last = IF s.last # None /\ s.last.outcome = "pending" /\ t >= s.last.expires
                      THEN [s.last EXCEPT !.outcome = "expired"] ELSE s.last
        BY DEF C!Expired, Stores
    <1>2. s.active # None => s.active \in C!Tokens
        BY DEF Stores
    <1>3. s.last # None => s.last \in C!Lasts
        BY DEF Stores
    <1>4. e.last # None => s.last # None /\ e.last \in C!Lasts /\ e.last.id = s.last.id
              /\ e.last.expires = s.last.expires
              /\ (e.last.outcome = s.last.outcome \/ e.last.outcome = "expired")
        BY <1>1, <1>3 DEF C!Lasts
    <1>5. s.last # None => e.last # None
        BY <1>1, <1>3, <1>4, ConstantsAre DEF C!Lasts
    <1>6. e \in Stores
        BY <1>1, <1>4 DEF Stores, C!Expired
    <1>7. e.active # None => e.active = s.active /\ s.active # None /\ t < s.active.expires
        BY <1>1, <1>2 DEF C!Tokens
    <1>8. ActiveOK(e, h)
        BY <1>1, <1>3, <1>7 DEF StoreOK, ActiveOK
    <1>9. LastOK(e, h)
        <2>1. CASE e.last # None
            <3>1. s.last # None /\ e.last.id = s.last.id /\ e.records = s.records /\ LastOK(s, h)
                BY <1>1, <1>4, <2>1 DEF StoreOK
            <3>2. e.last.outcome = "pending" => e.active # None
                <4>1. e.last.outcome = "pending" => s.last.outcome = "pending" /\ ~(t >= s.last.expires)
                    BY <1>1, <1>3, <3>1 DEF C!Lasts
                <4> QED BY <1>1, <3>1, <4>1 DEF StoreOK, ActiveOK, LastOK
            <3>3. e.last.outcome = "recorded" <=> s.last.outcome = "recorded"
                BY <1>1, <1>3, <3>1 DEF C!Lasts
            <3> QED BY <3>1, <3>2, <3>3 DEF LastOK
        <2> QED BY <2>1 DEF LastOK
    <1>10. RecordsOK(e, h)
        BY <1>1, <1>7 DEF StoreOK, RecordsOK
    <1>11. MarkOK(e, h)
        BY <1>1, <1>5 DEF StoreOK, MarkOK
    <1> QED BY <1>6, <1>7, <1>8, <1>9, <1>10, <1>11 DEF StoreOK

LEMMA IssueInv == ASSUME CheckInv, NEW host \in Lan, C!Issue(host) PROVE CheckInv'
    <1> DEFINE id == Len(issued) + 1
               entry == [host |-> host, at |-> checkNow, own |-> own]
               token == [id |-> id, generation |-> store.generation, host |-> host,
                         expires |-> checkNow + Ttl, self |-> own \cup {host}]
               last == [id |-> id, expires |-> checkNow + Ttl, outcome |-> "pending"]
    <1>1. /\ store' = [store EXCEPT !.active = token, !.mark = None, !.last = last]
          /\ issued' = Append(issued, entry)
          /\ checkNow' = checkNow /\ own' = own /\ waiting' = waiting
        BY DEF C!Issue
    <1>2. issued \in Seq(Issues) /\ store \in Stores /\ waiting \subseteq Requests
          /\ checkNow \in Nat /\ own \subseteq Lan
        BY DEF CheckInv, CheckTypes
    <1>3. token \in C!Tokens /\ last \in C!Lasts /\ entry \in Issues
        BY <1>2, ConstantsAre DEF C!Tokens, C!Lasts, Issues, Stores
    <1>4. /\ issued' \in Seq(Issues) /\ Len(issued') = id /\ issued'[id] = entry
          /\ \A i \in 1..Len(issued) : issued'[i] = issued[i]
        BY <1>1, <1>2, <1>3
    <1>5. /\ store'.active = token /\ store'.last = last /\ store'.mark = None
          /\ store'.records = store.records /\ store'.generation = store.generation
        BY <1>1, <1>2 DEF Stores
    <1>6. store' \in Stores
        BY <1>1, <1>2, <1>3 DEF Stores
    <1>7. ActiveOK(store', issued')
        <2>1. token # None /\ last # None
            BY <1>3, ConstantsAre
        <2> QED BY <1>2, <1>4, <1>5, <2>1 DEF ActiveOK
    <1>8. \A i \in 1..Len(store.records) : RecordOK(store.records[i], issued)
        BY DEF CheckInv, StoreOK, RecordsOK
    <1>9. store.records \in Seq(C!Records) /\ \A i \in 1..Len(store.records) :
             store.records[i].id \in 1..Len(issued)
        BY <1>2, <1>8 DEF RecordOK, Stores
    <1>10. LastOK(store', issued')
        <2>1. token # None
            BY <1>3, ConstantsAre
        <2>2. Len(store.records) > 0 => store.records[1].id # id
            BY <1>2, <1>9
        <2> QED BY <1>2, <1>4, <1>5, <2>1, <2>2 DEF LastOK
    <1>11. RecordsOK(store', issued')
        <2>1. \A i \in 1..Len(store.records) : RecordOK(store.records[i], issued')
            BY <1>2, <1>4, <1>8, <1>9 DEF RecordOK
        <2>2. \A i \in 1..Len(store.records) : store.records[i].id < id
            BY <1>2, <1>9
        <2> QED BY <1>4, <1>5, <2>1, <2>2 DEF RecordsOK, CheckInv, StoreOK
    <1>12. MarkOK(store', issued')
        BY <1>5 DEF MarkOK
    <1>13. WaitingOK'
        BY <1>1, <1>2, <1>4 DEF CheckInv, WaitingOK, Requests
    <1>14. IssuedOK'
        BY <1>1, <1>2, <1>4 DEF CheckInv, IssuedOK
    <1>15. CheckTypes'
        BY <1>1, <1>2, <1>4, <1>6 DEF CheckTypes
    <1> QED BY <1>7, <1>10, <1>11, <1>12, <1>13, <1>14, <1>15 DEF CheckInv, StoreOK

\* A check keeps the store it found without what was expired, or notes the
\* access, or spends the token.
LEMMA SelfAccessIsOK ==
    ASSUME NEW s \in Stores, NEW h \in Seq(Issues), StoreOK(s, h), s.active # None,
           NEW at \in Nat, at >= h[Len(h)].at
    PROVE  [s EXCEPT !.mark = at] \in Stores /\ StoreOK([s EXCEPT !.mark = at], h)
    <1> DEFINE e == [s EXCEPT !.mark = at]
    <1>1. /\ e \in Stores /\ e.mark = at
          /\ e.active = s.active /\ e.last = s.last /\ e.records = s.records
        BY DEF Stores
    <1> HIDE DEF e
    <1>2. s.last # None
        BY DEF StoreOK, ActiveOK
    <1>3. StoreOK(e, h)
        BY <1>1, <1>2 DEF StoreOK, ActiveOK, LastOK, RecordsOK, MarkOK
    <1> QED BY <1>1, <1>3 DEF e

LEMMA NewestIs ==
    ASSUME NEW r \in C!Records, NEW q \in Seq(C!Records)
    PROVE  LET n == C!Newest(<<r>> \o q)
           IN  /\ n \in Seq(C!Records) /\ Len(n) > 0 /\ Len(n) <= Len(q) + 1 /\ n[1] = r
               /\ \A i \in 2..Len(n) : n[i] = q[i - 1]
    <1> DEFINE l == <<r>> \o q
               k == IF Len(l) < MaxRecords THEN Len(l) ELSE MaxRecords
    <1>1. /\ l \in Seq(C!Records) /\ Len(l) = Len(q) + 1 /\ l[1] = r
          /\ \A i \in 2..Len(l) : l[i] = q[i - 1]
        OBVIOUS
    <1> HIDE DEF l
    <1>2. k \in 1..Len(l)
        BY <1>1, ConstantsAre
    <1>3. C!Newest(l) = SubSeq(l, 1, k)
        BY DEF C!Newest
    <1> HIDE DEF k
    <1>4. /\ SubSeq(l, 1, k) \in Seq(C!Records) /\ Len(SubSeq(l, 1, k)) = k
          /\ \A i \in 1..k : SubSeq(l, 1, k)[i] = l[i]
        BY <1>1, <1>2
    <1> DEFINE m == SubSeq(l, 1, k)
    <1> HIDE DEF m
    <1>5. /\ m \in Seq(C!Records) /\ Len(m) = k /\ k \in 1..Len(l)
          /\ \A i \in 1..k : m[i] = l[i]
        BY <1>2, <1>4 DEF m
    <1>6. Len(q) \in Nat
        OBVIOUS
    <1>7. /\ m \in Seq(C!Records) /\ Len(m) > 0 /\ Len(m) <= Len(q) + 1 /\ m[1] = r
          /\ \A i \in 2..Len(m) : m[i] = q[i - 1]
        BY <1>1, <1>5, <1>6
    <1> QED BY <1>3, <1>7 DEF m, l

LEMMA RecordedIsOK ==
    ASSUME NEW s \in Stores, NEW h \in Seq(Issues), StoreOK(s, h), s.active # None,
           NEW at \in Nat, at >= h[Len(h)].at, at < s.active.expires,
           NEW peer \in C!Peers, peer # Loopback, peer \notin s.active.self, NEW s2,
           s2 = [s EXCEPT
                   !.active = None,
                   !.last = IF s.last # None /\ s.last.id = s.active.id
                            THEN [s.last EXCEPT !.outcome = "recorded"] ELSE s.last,
                   !.records = C!Newest(<<[id |-> s.active.id, at |-> at, peer |-> peer,
                                           host |-> s.active.host]>> \o s.records)]
    PROVE  s2 \in Stores /\ StoreOK(s2, h)
    <1> DEFINE r == [id |-> s.active.id, at |-> at, peer |-> peer, host |-> s.active.host]
               n == C!Newest(<<r>> \o s.records)
               q == s.records
    <1>1. /\ s.active \in C!Tokens /\ q \in Seq(C!Records) /\ s.last \in C!Lasts
          /\ s.active.id = Len(h) /\ Len(h) > 0 /\ Len(h) \in Nat
          /\ s.active.host = h[Len(h)].host
          /\ s.active.expires = h[Len(h)].at + Ttl
          /\ s.active.self = h[Len(h)].own \cup {h[Len(h)].host}
          /\ s.last # None /\ s.last.id = Len(h) /\ h[Len(h)].at \in Nat
        <2>1. /\ s.active.id = Len(h) /\ Len(h) > 0 /\ Len(h) \in Nat
              /\ s.active.host = h[Len(h)].host
              /\ s.active.expires = h[Len(h)].at + Ttl
              /\ s.active.self = h[Len(h)].own \cup {s.active.host}
              /\ s.last # None /\ s.last.id = Len(h)
            BY DEF StoreOK, ActiveOK, LastOK
        <2>2. s.active \in C!Tokens /\ q \in Seq(C!Records) /\ s.last \in C!Lasts
            BY <2>1 DEF Stores
        <2>3. h[Len(h)] \in Issues
            BY <2>1
        <2> QED BY <2>1, <2>2, <2>3 DEF Issues
    <1>2. r \in C!Records
        BY <1>1 DEF C!Records, C!Tokens
    <1>3. /\ n \in Seq(C!Records) /\ Len(n) > 0 /\ Len(n) <= Len(q) + 1 /\ n[1] = r
          /\ \A i \in 2..Len(n) : n[i] = q[i - 1]
        BY <1>1, <1>2, NewestIs
    <1>4. /\ s2.active = None /\ s2.records = n /\ s2.mark = s.mark
          /\ s2.last = [s.last EXCEPT !.outcome = "recorded"]
          /\ s2 \in Stores
        <2>1. [s.last EXCEPT !.outcome = "recorded"] \in C!Lasts
            BY <1>1 DEF C!Lasts
        <2> HIDE DEF n
        <2>2. s2 = [s EXCEPT !.active = None, !.records = n,
                             !.last = [s.last EXCEPT !.outcome = "recorded"]]
            BY <1>1 DEF n, Stores
        <2> QED BY <1>3, <2>1, <2>2 DEF Stores
    <1>5. s2.last.id = Len(h) /\ s2.last.outcome = "recorded" /\ s2.last # None
        <2>1. s2.last \in C!Lasts
            BY <1>1, <1>4 DEF C!Lasts
        <2> QED BY <1>1, <1>4, <2>1, ConstantsAre DEF C!Lasts
    <1>6. RecordOK(r, h)
        BY <1>1, ConstantsAre DEF RecordOK
    <1>7. /\ \A i \in 1..Len(q) : RecordOK(q[i], h) /\ q[i].id < Len(h)
          /\ \A i, j \in 1..Len(q) : i < j => q[j].id < q[i].id
        BY DEF StoreOK, RecordsOK
    <1>8. r.id = Len(h)
        BY <1>1
    <1> HIDE DEF r, n, q
    <1>9. RecordsOK(s2, h)
        <2>1. ASSUME NEW i \in 1..Len(n)
              PROVE  RecordOK(n[i], h)
            <3>1. CASE i = 1
                BY <1>3, <1>6, <3>1
            <3>2. CASE i # 1
                <4>1. Len(n) \in Nat /\ Len(q) \in Nat
                    BY <1>1, <1>3 DEF q
                <4>2. i \in 2..Len(n) /\ i - 1 \in 1..Len(q)
                    BY <1>3, <3>2, <4>1
                <4> QED BY <1>3, <1>7, <4>2
            <3> QED BY <3>1, <3>2
        <2>2. ASSUME NEW i \in 1..Len(n), NEW j \in 1..Len(n), i < j
              PROVE  n[j].id < n[i].id
            <3>1. n[j] = q[j - 1] /\ j - 1 \in 1..Len(q)
                BY <1>1, <1>3, <2>2
            <3>2. CASE i = 1
                BY <1>3, <1>7, <1>8, <3>1, <3>2
            <3>3. CASE i # 1
                <4>1. n[i] = q[i - 1] /\ i - 1 \in 1..Len(q) /\ i - 1 < j - 1
                    BY <1>1, <1>3, <2>2, <3>3
                <4> QED BY <1>7, <3>1, <4>1
            <3> QED BY <3>2, <3>3
        <2> QED BY <1>4, <2>1, <2>2 DEF RecordsOK
    <1>10. LastOK(s2, h)
        BY <1>1, <1>3, <1>4, <1>5, <1>8 DEF LastOK
    <1>11. MarkOK(s2, h)
        BY <1>4, <1>5 DEF StoreOK, MarkOK
    <1> QED BY <1>4, <1>9, <1>10, <1>11 DEF StoreOK, ActiveOK

LEMMA CheckStepInv == ASSUME CheckInv, NEW c \in waiting, C!Check(c) PROVE CheckInv'
    <1> DEFINE s == C!Expired(store, c.at)
    <1>1. c \in Requests /\ issued \in Seq(Issues) /\ store \in Stores
        BY DEF CheckInv, CheckTypes
    <1>2. c.at \in Nat /\ c.peer \in C!Peers
        BY <1>1 DEF Requests
    <1>3. /\ s \in Stores /\ StoreOK(s, issued)
          /\ s.active # None => s.active = store.active /\ c.at < s.active.expires
        BY <1>1, <1>2, ExpiredIsOK DEF CheckInv
    <1> HIDE DEF s
    <1>4. s.active # None /\ C!Matches(c) => c.at >= issued[Len(issued)].at
        <2> SUFFICES ASSUME s.active # None, C!Matches(c)
                     PROVE  c.at >= issued[Len(issued)].at
            OBVIOUS
        <2>1. c.token = Len(issued) /\ Len(issued) > 0
            BY <1>3 DEF C!Matches, StoreOK, ActiveOK
        <2>2. issued[Len(issued)].at \in Nat
            <3>1. issued[Len(issued)] \in Issues
                BY <1>1, <2>1
            <3> QED BY <3>1 DEF Issues
        <2> QED BY <1>2, <2>1, <2>2 DEF CheckInv, WaitingOK
    <1>5. UNCHANGED <<checkNow, own, issued>> /\ waiting' \subseteq waiting
        BY DEF C!Check
    <1>6. \/ store' = store
          \/ C!Matches(c) /\ (C!Unusable(c, s) \/ C!SelfAccess(c, s) \/ C!Recorded(c, s))
        BY DEF C!Check, C!Refused, s
    <1>7. store' \in Stores /\ StoreOK(store', issued)
        <2>1. CASE store' = store \/ C!Unusable(c, s)
            BY <1>1, <1>3, <2>1 DEF C!Unusable, CheckInv
        <2>2. CASE C!Matches(c) /\ C!SelfAccess(c, s)
            <3>1. s.active # None /\ store' = [s EXCEPT !.mark = c.at]
                BY <2>2 DEF C!SelfAccess, C!AtItsUrl
            <3> QED BY <1>1, <1>2, <1>3, <1>4, <2>2, <3>1, SelfAccessIsOK
        <2>3. CASE C!Matches(c) /\ C!Recorded(c, s)
            <3>1. s.active # None /\ c.peer # Loopback /\ c.peer \notin s.active.self
                BY <2>3 DEF C!Recorded, C!AtItsUrl, C!IsSelf
            <3>2. store' = [s EXCEPT
                       !.active = None,
                       !.last = IF s.last # None /\ s.last.id = s.active.id
                                THEN [s.last EXCEPT !.outcome = "recorded"] ELSE s.last,
                       !.records = C!Newest(<<[id |-> s.active.id, at |-> c.at, peer |-> c.peer,
                                               host |-> s.active.host]>> \o s.records)]
                BY <2>3 DEF C!Recorded
            <3> QED BY <1>1, <1>2, <1>3, <1>4, <2>3, <3>1, <3>2, RecordedIsOK
        <2> QED BY <1>6, <2>1, <2>2, <2>3
    <1> QED BY <1>5, <1>7 DEF CheckInv, CheckTypes, WaitingOK, IssuedOK

LEMMA CheckInit == C!Init => CheckInv
    BY BegunIsOK DEF C!Init, CheckInv, CheckTypes, WaitingOK, IssuedOK

LEMMA CheckNext == ASSUME CheckInv, [C!Next]_C!vars PROVE CheckInv'
    <1>1. CASE C!Tick \/ C!Readdress
        <2>1. /\ UNCHANGED <<store, issued, waiting>>
              /\ checkNow \in Nat /\ checkNow' \in Nat /\ checkNow <= checkNow' /\ own' \subseteq Lan
            BY <1>1 DEF C!Tick, C!Readdress, CheckInv, CheckTypes
        <2>2. \A i \in 1..Len(issued) : issued[i].at \in Nat
            <3>1. \A i \in 1..Len(issued) : issued[i] \in Issues
                BY DEF CheckInv, CheckTypes
            <3> QED BY <3>1 DEF Issues
        <2>3. IssuedOK'
            BY <2>1, <2>2 DEF CheckInv, IssuedOK
        <2> QED BY <2>1, <2>3 DEF CheckInv, CheckTypes, WaitingOK
    <1>2. CASE C!ListenerChanges
        <2>1. store.generation + 1 \in Nat
            BY DEF CheckInv, CheckTypes, Stores
        <2> QED BY <1>2, <2>1, BegunIsOK
                DEF C!ListenerChanges, CheckInv, CheckTypes, WaitingOK, IssuedOK
    <1>3. CASE C!Status
        <2>1. checkNow \in Nat /\ store \in Stores /\ issued \in Seq(Issues)
            BY DEF CheckInv, CheckTypes
        <2>2. store' \in Stores /\ StoreOK(store', issued)
            BY <1>3, <2>1, ExpiredIsOK DEF C!Status, CheckInv
        <2> QED BY <1>3, <2>2 DEF C!Status, CheckInv, CheckTypes, WaitingOK, IssuedOK
    <1>4. ASSUME NEW peer \in C!Peers, NEW router \in 0..store.generation,
                 NEW host \in Lan, NEW token \in 0..Len(issued),
                 C!Arrive(peer, router, host, token)
          PROVE  CheckInv'
        <2> DEFINE w == [peer |-> peer, router |-> router, host |-> host,
                         token |-> token, at |-> checkNow]
        <2>1. /\ waiting' = waiting \cup {w}
              /\ UNCHANGED <<checkNow, own, store, issued>>
            BY <1>4 DEF C!Arrive
        <2>2. checkNow \in Nat /\ store.generation \in Nat /\ issued \in Seq(Issues)
            BY DEF CheckInv, CheckTypes, Stores
        <2>3. w \in Requests
            BY <2>2 DEF Requests
        <2>4. w.token <= Len(issued) /\ (w.token > 0 => issued[w.token].at <= w.at)
            BY <2>2 DEF CheckInv, IssuedOK
        <2> QED BY <2>1, <2>3, <2>4 DEF CheckInv, CheckTypes, WaitingOK, IssuedOK
    <1>5. CASE UNCHANGED C!vars
        BY <1>5 DEF C!vars, CheckInv, CheckTypes, WaitingOK, IssuedOK
    <1> QED BY <1>1, <1>2, <1>3, <1>4, <1>5, IssueInv, CheckStepInv DEF C!Next

LEMMA CheckSound == CheckInv => C!ReachResultsAreTrue
    <1> SUFFICES ASSUME CheckInv PROVE C!ReachResultsAreTrue
        OBVIOUS
    <1>1. issued \in Seq(Issues) /\ store \in Stores /\ store.records \in Seq(C!Records)
          /\ StoreOK(store, issued)
        BY DEF CheckInv, CheckTypes, Stores
    <1>2. DOMAIN store.records = 1..Len(store.records) /\ Len(store.records) \in Nat
        BY <1>1
    <1>3. C!RecordsAreOfOtherDevices
        <2>1. \A i \in 1..Len(store.records) : RecordOK(store.records[i], issued)
            BY <1>1 DEF StoreOK, RecordsOK
        <2>2. ASSUME NEW i \in 1..Len(store.records), NEW j \in 1..Len(store.records), i # j
              PROVE  store.records[j].id # store.records[i].id
            <3>1. store.records[i].id \in Nat /\ store.records[j].id \in Nat
                <4>1. store.records[i] \in C!Records /\ store.records[j] \in C!Records
                    BY <1>1
                <4> QED BY <4>1 DEF C!Records
            <3>2. i < j \/ j < i
                BY <2>2
            <3> QED BY <1>1, <3>1, <3>2 DEF StoreOK, RecordsOK
        <2> QED BY <1>2, <2>1, <2>2 DEF C!RecordsAreOfOtherDevices, RecordOK
    <1>4. C!OutcomeIsTheRecords
        BY <1>1 DEF C!OutcomeIsTheRecords, StoreOK, ActiveOK, LastOK
    <1>5. store.mark # None => store.last # None /\ store.mark >= issued[store.last.id].at
        BY <1>1 DEF StoreOK, MarkOK, LastOK
    <1> QED BY <1>3, <1>4, <1>5 DEF C!ReachResultsAreTrue

-----------------------------------------------------------------------------
(* The firewall change: what a helper has read, was so when it read it.    *)

RuleEntries ==
    {[by |-> "others", rule |-> r] : r \in {F!CreatedRule} \cup F!OtherRules}
        \cup {[by |-> "helper", rule |-> F!CreatedRule]}

\* The local store holds at most one rule of the name.
LocalRules == {<<>>} \cup {<<e>> : e \in RuleEntries}

Steps == {"off", "read", "active", "change", "read again", "active again", "done"}
Codes == {"none", "ok", "already", "precondition", "failed", "policy", "conflict"}
Answers == Codes \cup {"busy", "targetChanged", "cancelled", "launchFailed", "done"}

FirewallTypes ==
    /\ localRule \in LocalRules /\ disallowed \in BOOLEAN
    /\ step \in [F!Helpers -> Steps]
    /\ op \in [F!Helpers -> {"none", "allow", "remove"}]
    /\ snap \in [F!Helpers -> [disallowed : BOOLEAN, local : LocalRules]]
    /\ code \in [F!Helpers -> Codes]
    /\ call \in [Calls -> {"idle", "elevate", "wait", "audit", "reread", "answered"}]
    /\ answer \in [Calls -> Answers]
    /\ audited \in [Calls -> {<<>>, <<"ok">>, <<"failed">>}]

\* What the helper holds of the store when it is about to judge it was so at a
\* moment that was noted; it removes only what it took for its own.
HelperOK(h) ==
    /\ step[h] # "off" => op[h] \in {"allow", "remove"}
    /\ step[h] \in {"active", "active again"} =>
          /\ op[h] = "allow" =>
                /\ snap[h].local # <<>> /\ F!IsMine(snap[h].local[1].rule) => "own rule" \in seen[h]
                /\ ~snap[h].disallowed => "local rules apply" \in seen[h]
          /\ op[h] # "allow" /\ snap[h].local = <<>> => "no rule" \in seen[h]
    /\ step[h] = "change" /\ op[h] # "allow" =>
          snap[h].local # <<>> /\ F!IsMine(snap[h].local[1].rule)
    /\ F!SaysOk(h) =>
          IF op[h] = "allow" THEN "own rule" \in seen[h] /\ "local rules apply" \in seen[h]
                             ELSE "no rule" \in seen[h]

\* The command answers and records what its helper said.
CallOK(c) ==
    /\ call[c] \in {"idle", "elevate"} => step[c] = "off"
    /\ call[c] = "elevate" => op[c] \in {"allow", "remove"}
    /\ call[c] \in {"idle", "elevate", "wait", "audit"} => audited[c] = <<>>
    /\ call[c] \in {"audit", "reread", "answered"} /\ answer[c] \in {"done", "already"} =>
          step[c] = "done" /\ code[c] \in {"ok", "already"}
    /\ audited[c] # <<>> => audited[c] = <<F!AuditResult(answer[c])>>
    /\ call[c] \in {"reread", "answered"} =>
          (audited[c] = <<>> <=> answer[c] \in {"busy", "targetChanged"})
    /\ call[c] = "audit" => answer[c] \notin {"busy", "targetChanged"}

FirewallInv ==
    FirewallTypes /\ (\A h \in F!Helpers : HelperOK(h)) /\ (\A c \in Calls : CallOK(c))

LEMMA HelpersAre == Calls \subseteq F!Helpers /\ Other \in F!Helpers /\ Other \notin Calls
                    /\ \A h \in F!Helpers : h \in Calls \/ h = Other
    BY FirewallConstants DEF F!OtherIsNoCall, F!Helpers

LEMMA RulesOfIs ==
    ASSUME NEW l \in LocalRules
    PROVE  /\ l = <<>> => F!RulesOf(l) = <<>>
           /\ l # <<>> => Len(l) = 1 /\ DOMAIN l = {1} /\ F!RulesOf(l) = <<l[1].rule>>
    <1>1. l = <<>> => F!RulesOf(l) = <<>>
        BY DEF F!RulesOf
    <1>2. ASSUME l # <<>>
          PROVE  Len(l) = 1 /\ DOMAIN l = {1} /\ F!RulesOf(l) = <<l[1].rule>>
        <2>1. PICK e \in RuleEntries : l = <<e>>
            BY <1>2 DEF LocalRules
        <2>2. DOMAIN l = 1..1 /\ Len(l) = 1
            BY <2>1
        <2> QED BY <2>2 DEF F!RulesOf
    <1> QED BY <1>1, <1>2

IsList(a) == Len(a) \in Nat /\ (a = <<>> <=> Len(a) = 0)

LEMMA ListSizes ==
    ASSUME NEW a, IsList(a)
    PROVE  \/ a = <<>>
           \/ a # <<>> /\ Len(a) = 1
           \/ a # <<>> /\ Len(a) > 1 /\ Len(a) # 1
    BY DEF IsList

\* What a classification says of the local store and of the policy.
Classified(s, l) ==
    /\ F!Classify(s) \in {"absent", "conflict", "owned", "owned, not in effect"}
    /\ F!Classify(s) = "absent" <=> l = <<>> /\ s.active = <<>>
    /\ F!Classify(s) \in {"owned", "owned, not in effect"} =>
          l # <<>> /\ F!IsMine(l[1].rule)
    /\ F!Classify(s) = "owned" <=>
          /\ l # <<>> /\ F!IsMine(l[1].rule) /\ ~s.disallowed
          /\ s.active # <<>> /\ Len(s.active) = 1 /\ F!IsMineActive(s.active[1])
    /\ F!Classify(s) = "owned, not in effect" =>
          \/ s.active = <<>>
          \/ Len(s.active) = 1 /\ F!IsMineActive(s.active[1]) /\ s.disallowed

LEMMA ClassifyIs ==
    ASSUME NEW s, NEW l \in LocalRules, s.local = F!RulesOf(l),
           IsList(s.active)
    PROVE  Classified(s, l)
    <1> USE DEF Classified
    <1>1. CASE l = <<>>
        <2>1. s.local = <<>>
            BY <1>1, RulesOfIs
        <2>2. F!Classify(s) = IF s.active = <<>> THEN "absent" ELSE "conflict"
            BY <2>1 DEF F!Classify
        <2> QED BY <1>1, <2>2
    <1>2. CASE l # <<>>
        <2> DEFINE r == l[1].rule
        <2>0. \/ s.active = <<>>
              \/ s.active # <<>> /\ Len(s.active) = 1
              \/ s.active # <<>> /\ Len(s.active) > 1 /\ Len(s.active) # 1
            BY ListSizes
        <2>1. s.local = <<r>>
            BY <1>2, RulesOfIs
        <2> HIDE DEF r
        <2>2. s.local # <<>> /\ Len(s.local) = 1 /\ s.local[1] = r
            BY <2>1
        <2>3. CASE ~F!IsMine(r)
            <3>1. F!Classify(s) = "conflict"
                BY <2>2, <2>3 DEF F!Classify
            <3> QED BY <1>2, <2>3, <3>1 DEF r
        <2>4. CASE F!IsMine(r) /\ s.active = <<>>
            <3>1. F!Classify(s) = "owned, not in effect"
                BY <2>1, <2>2, <2>4 DEF F!Classify
            <3> QED BY <1>2, <2>4, <3>1 DEF r
        <2>5. CASE F!IsMine(r) /\ s.active # <<>> /\ Len(s.active) > 1 /\ Len(s.active) # 1
            <3>1. F!Classify(s) = "conflict"
                BY <2>2, <2>5 DEF F!Classify
            <3> QED BY <1>2, <2>5, <3>1 DEF r
        <2>7. CASE F!IsMine(r) /\ s.active # <<>> /\ Len(s.active) = 1 /\ ~F!IsMineActive(s.active[1])
            <3>1. F!Classify(s) = "conflict"
                BY <2>2, <2>7 DEF F!Classify
            <3> QED BY <1>2, <2>7, <3>1 DEF r
        <2>6. CASE F!IsMine(r) /\ s.active # <<>> /\ Len(s.active) = 1 /\ F!IsMineActive(s.active[1])
            <3>1. F!Classify(s) = IF s.disallowed THEN "owned, not in effect" ELSE "owned"
                BY <2>1, <2>2, <2>6 DEF F!Classify
            <3> QED BY <1>2, <2>6, <3>1 DEF r
        <2> QED BY <2>0, <2>3, <2>4, <2>5, <2>6, <2>7
    <1> QED BY <1>1, <1>2

LEMMA TwoTogether ==
    ASSUME NEW S, NEW a \in Seq(S), NEW b \in Seq(S), Len(a) = 1, Len(b) = 1
    PROVE  Len(a \o b) = 2
    <1>1. Len(a \o b) = Len(a) + Len(b)
        OBVIOUS
    <1> QED BY <1>1

LEMMA ActiveStoreIs ==
    ASSUME FirewallTypes
    PROVE  LET loc == IF (disallowed /\ ~listed) \/ localRule = <<>> THEN <<>>
                      ELSE <<F!ActiveOf(localRule[1].rule)>>
           IN  /\ ~policyRule => F!ActiveStore = loc
               /\ policyRule /\ loc = <<>> => F!ActiveStore = <<F!PolicyEntry>>
               /\ policyRule /\ loc # <<>> => Len(F!ActiveStore) = 2 /\ F!ActiveStore # <<>>
               /\ IsList(F!ActiveStore)
    <1> DEFINE loc == IF (disallowed /\ ~listed) \/ localRule = <<>> THEN <<>>
                      ELSE <<F!ActiveOf(localRule[1].rule)>>
               pol == IF policyRule THEN <<F!PolicyEntry>> ELSE <<>>
    <1>1. F!ActiveStore = loc \o pol
        <2>1. localRule = <<>> => [i \in DOMAIN localRule |-> F!ActiveOf(localRule[i].rule)] = <<>>
            OBVIOUS
        <2>2. localRule # <<>> =>
                 [i \in DOMAIN localRule |-> F!ActiveOf(localRule[i].rule)]
                     = <<F!ActiveOf(localRule[1].rule)>>
            <3>1. localRule # <<>> => DOMAIN localRule = 1..1
                BY RulesOfIs DEF FirewallTypes
            <3> QED BY <3>1
        <2> QED BY <2>1, <2>2 DEF F!ActiveStore
    <1> DEFINE e0 == F!ActiveOf(localRule[1].rule)
               e1 == F!PolicyEntry
    <1>2. loc = <<>> \/ loc = <<e0>>
        OBVIOUS
    <1>3. pol = IF policyRule THEN <<e1>> ELSE <<>>
        OBVIOUS
    <1> HIDE DEF loc, e0, e1, pol
    <1>4. CASE ~policyRule
        <2>1. loc \o pol = loc
            BY <1>2, <1>3, <1>4
        <2>2. Len(loc) \in Nat /\ (loc = <<>> <=> Len(loc) = 0)
            BY <1>2
        <2> QED BY <1>1, <1>4, <2>1, <2>2 DEF loc, IsList
    <1>5. CASE policyRule /\ loc = <<>>
        <2>1. loc \o pol = <<e1>>
            BY <1>3, <1>5
        <2>2. Len(<<e1>>) = 1 /\ <<e1>> # <<>>
            OBVIOUS
        <2> QED BY <1>1, <1>5, <2>1, <2>2 DEF loc, e1, IsList
    <1>6. CASE policyRule /\ loc # <<>>
        <2>1. loc = <<e0>> /\ pol = <<e1>>
            BY <1>2, <1>3, <1>6
        <2>2. <<e0>> \in Seq({e0, e1}) /\ <<e1>> \in Seq({e0, e1})
              /\ Len(<<e0>>) = 1 /\ Len(<<e1>>) = 1
            OBVIOUS
        <2>3. loc \in Seq({e0, e1}) /\ pol \in Seq({e0, e1}) /\ Len(loc) = 1 /\ Len(pol) = 1
            BY <2>1, <2>2
        <2>4. Len(loc \o pol) = 2
            BY <2>3, TwoTogether
        <2>5. Len(F!ActiveStore) = 2 /\ F!ActiveStore # <<>>
            BY <1>1, <2>4
        <2> QED BY <1>6, <2>5 DEF loc, IsList
    <1> QED BY <1>4, <1>5, <1>6

-----------------------------------------------------------------------------
LEMMA SeenIs ==
    ASSUME NEW h \in F!Helpers, seen' = F!Watched
    PROVE  /\ step[h] = "done" => seen'[h] = seen[h]
           /\ step[h] \notin {"done", "change"}
                 /\ (step'[h] \notin {"off", "done"} \/ F!SaysOk(h)') =>
                 seen'[h] = seen[h] \cup F!Moment(h)'
    BY DEF F!Watched

LEMMA RestingHelper ==
    ASSUME NEW h \in F!Helpers, HelperOK(h), seen' = F!Watched,
           step'[h] = step[h], snap'[h] = snap[h], code'[h] = code[h],
           op'[h] = op[h] \/ step[h] = "off"
    PROVE  HelperOK(h)'
    <1>1. step[h] \in {"active", "active again"} => seen[h] \subseteq seen'[h]
        BY SeenIs
    <1>2. F!SaysOk(h)' => seen[h] = seen'[h]
        BY SeenIs DEF F!SaysOk
    <1> QED BY <1>1, <1>2 DEF HelperOK, F!SaysOk

\* A helper that ended without saying "ok" says nothing.
LEMMA Ended ==
    ASSUME FirewallTypes, NEW h \in F!Helpers, HelperOK(h), step[h] # "off", NEW c \in Codes,
           F!Exit(h, c), op' = op, c \notin {"ok", "already"}
    PROVE  HelperOK(h)'
    <1>1. step'[h] = "done" /\ code'[h] = c
        BY DEF F!Exit, FirewallTypes
    <1> QED BY <1>1 DEF HelperOK, F!SaysOk

\* What every step of a helper leaves alone.
HelperActs(h) ==
    /\ step[h] \notin {"off", "done"} /\ seen' = F!Watched
    /\ UNCHANGED <<op, call, answer, audited>>
    /\ localRule' \in LocalRules /\ disallowed' \in BOOLEAN
    /\ step' \in [F!Helpers -> Steps] /\ code' \in [F!Helpers -> Codes]
    /\ snap' \in [F!Helpers -> [disallowed : BOOLEAN, local : LocalRules]]
    /\ \A k \in F!Helpers \ {h} : step'[k] = step[k] /\ snap'[k] = snap[k] /\ code'[k] = code[k]

LEMMA HelperActed ==
    ASSUME FirewallInv, NEW h \in F!Helpers, HelperActs(h), HelperOK(h)'
    PROVE  FirewallInv'
    <1>1. FirewallTypes'
        BY DEF HelperActs, FirewallInv, FirewallTypes
    <1>2. ASSUME NEW k \in F!Helpers, k # h PROVE HelperOK(k)'
        BY <1>2, RestingHelper DEF HelperActs, FirewallInv
    <1>3. ASSUME NEW c \in Calls PROVE CallOK(c)'
        <2>1. CallOK(c) /\ c \in F!Helpers
            BY HelpersAre DEF FirewallInv
        <2>2. UNCHANGED <<op, call, answer, audited>> /\ step[h] \notin {"off", "done"}
            BY DEF HelperActs
        <2>3. CASE c = h
            BY <2>1, <2>2, <2>3 DEF CallOK, F!AuditResult
        <2>4. CASE c # h
            <3>1. step'[c] = step[c] /\ code'[c] = code[c]
                BY <2>1, <2>4 DEF HelperActs
            <3> QED BY <2>1, <2>2, <3>1 DEF CallOK, F!AuditResult
        <2> QED BY <2>3, <2>4
    <1> QED BY <1>1, <1>2, <1>3 DEF FirewallInv

\* A helper that ends.
LEMMA ExitActs ==
    ASSUME FirewallInv, NEW h \in F!Helpers, step[h] \notin {"off", "done"}, NEW c \in Codes,
           F!Exit(h, c), seen' = F!Watched, UNCHANGED <<op, call, answer, audited>>,
           localRule' \in LocalRules, disallowed' = disallowed
    PROVE  HelperActs(h) /\ step'[h] = "done" /\ code'[h] = c
    <1>1. F!NoSnapshot \in [disallowed : BOOLEAN, local : LocalRules]
        BY DEF F!NoSnapshot, LocalRules
    <1> HIDE DEF F!NoSnapshot
    <1> QED BY <1>1 DEF F!Exit, HelperActs, FirewallInv, FirewallTypes, Steps

LEMMA NotOkInv ==
    ASSUME FirewallInv, NEW h \in F!Helpers, step[h] \notin {"off", "done"},
           NEW c \in Codes \ {"ok", "already"},
           F!Exit(h, c), seen' = F!Watched, UNCHANGED <<op, call, answer, audited>>,
           localRule' \in LocalRules, disallowed' = disallowed
    PROVE  FirewallInv'
    <1>1. HelperActs(h) /\ step'[h] = "done" /\ code'[h] = c
        BY ExitActs
    <1>2. HelperOK(h)'
        BY <1>1 DEF HelperOK, F!SaysOk, FirewallInv
    <1> QED BY <1>1, <1>2, HelperActed

LEMMA ReadLocalInv ==
    ASSUME FirewallInv, NEW h \in F!Helpers, F!ReadLocal(h), seen' = F!Watched
    PROVE  FirewallInv'
    <1> DEFINE s == [disallowed |-> disallowed, local |-> localRule]
    <1>1. /\ step[h] \in {"read", "read again"}
          /\ step' = [step EXCEPT ![h] = IF step[h] = "read" THEN "active" ELSE "active again"]
          /\ snap' = [snap EXCEPT ![h] = s]
          /\ UNCHANGED <<localRule, disallowed, op, code, call, answer, audited>>
        BY DEF F!ReadLocal, F!world, F!callVars
    <1>2. s \in [disallowed : BOOLEAN, local : LocalRules]
        BY DEF FirewallInv, FirewallTypes
    <1>3. step'[h] \in {"active", "active again"} /\ snap'[h] = s
        BY <1>1 DEF FirewallInv, FirewallTypes
    <1>4. HelperActs(h)
        BY <1>1, <1>2 DEF HelperActs, FirewallInv, FirewallTypes, Steps
    <1>5. seen'[h] = seen[h] \cup F!Moment(h)'
        BY <1>1, <1>3, SeenIs
    <1>6. snap'[h].disallowed = disallowed /\ snap'[h].local = localRule
        <2>1. \A d, l : [disallowed |-> d, local |-> l].disallowed = d
                       /\ [disallowed |-> d, local |-> l].local = l
            OBVIOUS
        <2>2. s.disallowed = disallowed /\ s.local = localRule
            BY <2>1, Zenon
        <2> HIDE DEF s
        <2> QED BY <1>3, <2>2, Zenon
    <1>7. op[h] = "allow" =>
             /\ localRule # <<>> /\ F!IsMine(localRule[1].rule) => "own rule" \in F!Moment(h)'
             /\ ~disallowed => "local rules apply" \in F!Moment(h)'
        BY <1>1 DEF F!Moment
    <1>8. op[h] # "allow" /\ localRule = <<>> => "no rule" \in F!Moment(h)'
        BY <1>1 DEF F!Moment
    <1>9. op[h] \in {"allow", "remove"}
        BY <1>1 DEF FirewallInv, HelperOK
    <1>10. HelperOK(h)'
        BY <1>1, <1>3, <1>5, <1>6, <1>7, <1>8, <1>9 DEF HelperOK, F!SaysOk
    <1> QED BY <1>4, <1>10, HelperActed

\* What the helper's own reading is classified as.
LEMMA ReadByIs ==
    ASSUME FirewallInv, NEW h \in F!Helpers
    PROVE  LET s == F!ReadBy(h)
               l == snap[h].local
           IN  /\ F!Classify(s) \in {"absent", "conflict", "owned", "owned, not in effect"}
               /\ F!Classify(s) = "absent" => l = <<>>
               /\ F!Classify(s) \in {"owned", "owned, not in effect"} =>
                     l # <<>> /\ F!IsMine(l[1].rule)
               /\ F!Classify(s) = "owned" => ~snap[h].disallowed
               /\ s.local = <<>> => l = <<>>
    <1> DEFINE s == F!ReadBy(h)
               l == snap[h].local
    <1>1. l \in LocalRules
        BY DEF FirewallInv, FirewallTypes
    <1>2. s.local = F!RulesOf(l) /\ s.disallowed = snap[h].disallowed /\ s.active = F!ActiveStore
        BY DEF F!ReadBy
    <1>3. IsList(s.active)
        BY <1>2, ActiveStoreIs DEF FirewallInv
    <1>4. s.local = <<>> => l = <<>>
        <2>1. l # <<>> => F!RulesOf(l) = <<l[1].rule>>
            BY <1>1, RulesOfIs
        <2> HIDE DEF l
        <2>2. <<l[1].rule>> # <<>>
            OBVIOUS
        <2> QED BY <1>2, <2>1, <2>2
    <1> HIDE DEF s, l
    <1>5. /\ F!Classify(s) \in {"absent", "conflict", "owned", "owned, not in effect"}
          /\ F!Classify(s) = "absent" <=> l = <<>> /\ s.active = <<>>
          /\ F!Classify(s) \in {"owned", "owned, not in effect"} =>
                l # <<>> /\ F!IsMine(l[1].rule)
          /\ F!Classify(s) = "owned" => ~s.disallowed
        <2>1. Classified(s, l)
            BY <1>1, <1>2, <1>3, ClassifyIs
        <2> QED BY <2>1 DEF Classified
    <1> QED BY <1>2, <1>4, <1>5 DEF s, l

LEMMA ReadActiveInv ==
    ASSUME FirewallInv, NEW h \in F!Helpers, F!ReadActive(h), seen' = F!Watched
    PROVE  FirewallInv'
    <1> DEFINE state == F!Classify(F!ReadBy(h))
               act == F!Acts(op[h], state, snap[h].disallowed)
               l == snap[h].local
    <1>1. /\ state \in {"absent", "conflict", "owned", "owned, not in effect"}
          /\ state = "absent" => l = <<>>
          /\ state \in {"owned", "owned, not in effect"} => l # <<>> /\ F!IsMine(l[1].rule)
          /\ state = "owned" => ~snap[h].disallowed
        BY ReadByIs
    <1>2. /\ step[h] = "active"
          /\ UNCHANGED <<localRule, disallowed, op, call, answer, audited>>
          /\ IF act = "change"
             THEN step' = [step EXCEPT ![h] = "change"] /\ UNCHANGED <<snap, code>>
             ELSE F!Exit(h, act)
        BY DEF F!ReadActive, F!world, F!callVars
    <1>3. /\ op[h] \in {"allow", "remove"}
          /\ op[h] = "allow" =>
                /\ l # <<>> /\ F!IsMine(l[1].rule) => "own rule" \in seen[h]
                /\ ~snap[h].disallowed => "local rules apply" \in seen[h]
          /\ op[h] # "allow" /\ l = <<>> => "no rule" \in seen[h]
        BY <1>2 DEF FirewallInv, HelperOK
    <1>4. localRule' \in LocalRules /\ disallowed' = disallowed /\ disallowed \in BOOLEAN
        BY <1>2 DEF FirewallInv, FirewallTypes
    <1> HIDE DEF state, l
    <1>5. act \in {"change", "conflict", "ok", "policy", "already"}
        BY <1>1, <1>3 DEF F!Acts
    <1>6. act = "change" /\ op[h] = "remove" => state \in {"owned", "owned, not in effect"}
        BY <1>1 DEF F!Acts
    <1>7. act = "ok" => state = "absent" /\ op[h] = "remove"
        BY <1>1, <1>3 DEF F!Acts
    <1>8. act = "already" => state = "owned" /\ op[h] = "allow"
        BY <1>1, <1>3 DEF F!Acts
    <1> HIDE DEF act
    <1>9. CASE act = "change"
        <2>1. step' = [step EXCEPT ![h] = "change"] /\ UNCHANGED <<snap, code>>
            BY <1>2, <1>9
        <2>2. HelperActs(h)
            BY <1>2, <1>4, <2>1 DEF HelperActs, FirewallInv, FirewallTypes, Steps
        <2>3. step'[h] = "change" /\ snap'[h].local = l /\ op'[h] = op[h]
            BY <1>2, <2>1 DEF FirewallInv, FirewallTypes, l
        <2>4. HelperOK(h)'
            BY <1>1, <1>3, <1>6, <1>9, <2>3 DEF HelperOK, F!SaysOk
        <2> QED BY <2>2, <2>4, HelperActed
    <1>10. CASE act \in {"conflict", "policy"}
        BY <1>2, <1>4, <1>10, NotOkInv DEF Codes
    <1>11. CASE act \in {"ok", "already"}
        <2>1. HelperActs(h) /\ step'[h] = "done" /\ code'[h] = act
            BY <1>2, <1>4, <1>11, ExitActs DEF Codes
        <2>2. F!SaysOk(h)' /\ op'[h] = op[h]
            BY <1>2, <1>11, <2>1 DEF F!SaysOk
        <2>3. seen[h] \subseteq seen'[h]
            BY <1>2, <2>2, SeenIs
        <2>4. IF op[h] = "allow" THEN "own rule" \in seen[h] /\ "local rules apply" \in seen[h]
                                 ELSE "no rule" \in seen[h]
            BY <1>1, <1>3, <1>7, <1>8, <1>11
        <2>5. HelperOK(h)'
            BY <1>3, <2>1, <2>2, <2>3, <2>4 DEF HelperOK
        <2> QED BY <2>1, <2>5, HelperActed
    <1> QED BY <1>5, <1>9, <1>10, <1>11

LEMMA ReadAgainInv ==
    ASSUME FirewallInv, NEW h \in F!Helpers, F!ReadAgain(h), seen' = F!Watched
    PROVE  FirewallInv'
    <1> DEFINE state == F!Classify(F!ReadBy(h))
               end == F!Ends(op[h], F!ReadBy(h))
               l == snap[h].local
               gone == F!ReadBy(h).local = <<>>
    <1>1. /\ state \in {"absent", "conflict", "owned", "owned, not in effect"}
          /\ state \in {"owned", "owned, not in effect"} => l # <<>> /\ F!IsMine(l[1].rule)
          /\ state = "owned" => ~snap[h].disallowed
          /\ gone => l = <<>>
        BY ReadByIs
    <1>2. /\ step[h] = "active again"
          /\ UNCHANGED <<localRule, disallowed, op, call, answer, audited>>
          /\ F!Exit(h, end)
        BY DEF F!ReadAgain, F!world, F!callVars
    <1>3. /\ op[h] \in {"allow", "remove"}
          /\ op[h] = "allow" =>
                /\ l # <<>> /\ F!IsMine(l[1].rule) => "own rule" \in seen[h]
                /\ ~snap[h].disallowed => "local rules apply" \in seen[h]
          /\ op[h] # "allow" /\ l = <<>> => "no rule" \in seen[h]
        BY <1>2 DEF FirewallInv, HelperOK
    <1>4. localRule' \in LocalRules /\ disallowed' = disallowed
        BY <1>2 DEF FirewallInv, FirewallTypes
    <1>5. /\ end \in {"ok", "policy", "failed"}
          /\ end = "ok" => IF op[h] = "allow" THEN state = "owned" ELSE gone
        <2>1. CASE op[h] = "allow"
            BY <1>1, <2>1 DEF F!Ends
        <2>2. CASE op[h] # "allow"
            BY <2>2 DEF F!Ends
        <2> QED BY <2>1, <2>2
    <1> HIDE DEF state, l, end, gone
    <1>6. CASE end \in {"policy", "failed"}
        BY <1>2, <1>4, <1>6, NotOkInv DEF Codes
    <1>7. CASE end = "ok"
        <2>1. HelperActs(h) /\ step'[h] = "done" /\ code'[h] = end
            BY <1>2, <1>4, <1>7, ExitActs DEF Codes
        <2>2. F!SaysOk(h)' /\ op'[h] = op[h]
            BY <1>2, <1>7, <2>1 DEF F!SaysOk
        <2>3. seen[h] \subseteq seen'[h]
            BY <1>2, <2>2, SeenIs
        <2>4. IF op[h] = "allow" THEN "own rule" \in seen[h] /\ "local rules apply" \in seen[h]
                                 ELSE "no rule" \in seen[h]
            BY <1>1, <1>3, <1>5, <1>7
        <2>5. HelperOK(h)'
            BY <1>3, <2>1, <2>2, <2>3, <2>4 DEF HelperOK
        <2> QED BY <2>1, <2>5, HelperActed
    <1> QED BY <1>5, <1>6, <1>7

\* The change itself creates a rule where there is none, or removes one.
LEMMA ChangeIs ==
    ASSUME FirewallInv, NEW h \in F!Helpers, F!Change(h)
    PROVE  /\ step[h] = "change"
           /\ UNCHANGED <<disallowed, op, call, answer, audited>>
           /\ localRule' \in LocalRules
           /\ \/ step' = [step EXCEPT ![h] = "read again"] /\ UNCHANGED <<snap, code>>
              \/ F!Exit(h, "failed")
           /\ localRule' # localRule =>
                 IF op[h] = "allow" THEN localRule' # <<>> ELSE localRule # <<>> /\ localRule' = <<>>
    <1>1. /\ step[h] = "change"
          /\ UNCHANGED <<disallowed, op, call, answer, audited>>
          /\ \/ step' = [step EXCEPT ![h] = "read again"] /\ UNCHANGED <<snap, code>>
             \/ F!Exit(h, "failed")
          /\ F!Performs(h) \/ UNCHANGED localRule
        BY DEF F!Change, F!callVars
    <1>2. CASE UNCHANGED localRule
        BY <1>1, <1>2 DEF FirewallInv, FirewallTypes
    <1>3. CASE F!Performs(h)
        <2>1. CASE op[h] = "allow"
            <3>1. localRule' = <<[by |-> "helper", rule |-> F!CreatedRule]>>
                BY <1>3, <2>1 DEF F!Performs, F!Create
            <3>2. localRule' \in LocalRules /\ localRule' # <<>>
                <4> HIDE DEF F!CreatedRule
                <4> QED BY <3>1 DEF LocalRules, RuleEntries
            <3> QED BY <1>1, <2>1, <3>2
        <2>2. CASE op[h] # "allow"
            BY <1>1, <1>3, <2>2 DEF F!Performs, F!Remove, LocalRules
        <2> QED BY <2>1, <2>2
    <1> QED BY <1>1, <1>2, <1>3

LEMMA ChangeInv ==
    ASSUME FirewallInv, NEW h \in F!Helpers, F!Change(h), seen' = F!Watched
    PROVE  FirewallInv'
    <1>1. /\ step[h] = "change"
          /\ UNCHANGED <<disallowed, op, call, answer, audited>>
          /\ localRule' \in LocalRules
          /\ \/ step' = [step EXCEPT ![h] = "read again"] /\ UNCHANGED <<snap, code>>
             \/ F!Exit(h, "failed")
        BY ChangeIs
    <1>2. CASE F!Exit(h, "failed")
        BY <1>1, <1>2, NotOkInv DEF Codes
    <1>3. CASE step' = [step EXCEPT ![h] = "read again"] /\ UNCHANGED <<snap, code>>
        <2>1. HelperActs(h)
            BY <1>1, <1>3 DEF HelperActs, FirewallInv, FirewallTypes, Steps
        <2>2. step'[h] = "read again" /\ op'[h] = op[h]
            BY <1>1, <1>3 DEF FirewallInv, FirewallTypes
        <2>3. op[h] \in {"allow", "remove"}
            BY <1>1 DEF FirewallInv, HelperOK
        <2>4. HelperOK(h)'
            BY <2>2, <2>3 DEF HelperOK, F!SaysOk
        <2> QED BY <2>1, <2>4, HelperActed
    <1> QED BY <1>1, <1>2, <1>3

LEMMA HelperStepInv ==
    ASSUME FirewallInv, NEW h \in F!Helpers, F!HelperStep(h), seen' = F!Watched
    PROVE  FirewallInv'
    <1>1. ASSUME F!NotPlaced(h) PROVE FirewallInv'
        <2>1. localRule' \in LocalRules /\ disallowed' = disallowed
              /\ UNCHANGED <<op, call, answer, audited>>
            BY <1>1 DEF F!NotPlaced, F!world, F!callVars, FirewallInv, FirewallTypes
        <2> QED BY <1>1, <2>1, NotOkInv DEF F!NotPlaced, Codes
    <1>2. ASSUME F!ReadFails(h) PROVE FirewallInv'
        <2>1. localRule' \in LocalRules /\ disallowed' = disallowed
              /\ UNCHANGED <<op, call, answer, audited>>
            BY <1>2 DEF F!ReadFails, F!world, F!callVars, FirewallInv, FirewallTypes
        <2> QED BY <1>2, <2>1, NotOkInv DEF F!ReadFails, Codes
    <1> QED BY <1>1, <1>2, ReadLocalInv, ReadActiveInv, ChangeInv, ReadAgainInv DEF F!HelperStep

-----------------------------------------------------------------------------
\* What the others and the command leave alone: every helper but one that
\* starts rests.
LEMMA OtherStepInv ==
    ASSUME FirewallInv, seen' = F!Watched, UNCHANGED <<snap, code>>,
           localRule' \in LocalRules, disallowed' \in BOOLEAN,
           step' \in [F!Helpers -> Steps],
           op' \in [F!Helpers -> {"none", "allow", "remove"}],
           \A h \in F!Helpers : step'[h] = step[h] \/ (step[h] = "off" /\ step'[h] = "read"),
           \A h \in F!Helpers : op'[h] = op[h] \/ step[h] = "off",
           \A h \in F!Helpers : step'[h] = "read" => op'[h] \in {"allow", "remove"},
           call' \in [Calls -> {"idle", "elevate", "wait", "audit", "reread", "answered"}],
           answer' \in [Calls -> Answers],
           audited' \in [Calls -> {<<>>, <<"ok">>, <<"failed">>}],
           \A c \in Calls : CallOK(c)'
    PROVE  FirewallInv'
    <1>1. FirewallTypes'
        BY DEF FirewallInv, FirewallTypes
    <1>2. ASSUME NEW h \in F!Helpers PROVE HelperOK(h)'
        <2>1. CASE step'[h] = step[h]
            BY <2>1, RestingHelper DEF FirewallInv
        <2>2. CASE step'[h] # step[h]
            <3>1. step'[h] = "read"
                BY <2>2
            <3> QED BY <3>1 DEF HelperOK, F!SaysOk
        <2> QED BY <2>1, <2>2
    <1> QED BY <1>1, <1>2 DEF FirewallInv

LEMMA EditInv == ASSUME FirewallInv, F!Edit, seen' = F!Watched PROVE FirewallInv'
    <1>1. UNCHANGED <<step, op, snap, code, call, answer, audited>>
        BY DEF F!Edit, F!helperVars, F!callVars
    <1>2. localRule' \in LocalRules /\ disallowed' \in BOOLEAN
        <2>1. \/ localRule' = localRule
              \/ localRule' = <<>>
              \/ \E rule \in F!OtherRules \cup {F!CreatedRule} :
                    localRule' = <<[by |-> "others", rule |-> rule]>>
            BY DEF F!Edit
        <2>2. disallowed' = disallowed \/ disallowed' = ~disallowed
            BY DEF F!Edit
        <2>3. localRule' \in LocalRules
            <3> HIDE DEF F!OtherRules, F!CreatedRule
            <3> QED BY <2>1 DEF FirewallInv, FirewallTypes, LocalRules, RuleEntries
        <2> QED BY <2>2, <2>3 DEF FirewallInv, FirewallTypes
    <1>3. \A c \in Calls : CallOK(c)'
        BY <1>1 DEF FirewallInv, CallOK, F!AuditResult
    <1>4. \A h \in F!Helpers : step[h] = "read" => op[h] \in {"allow", "remove"}
        BY DEF FirewallInv, HelperOK
    <1> QED BY <1>1, <1>2, <1>3, <1>4, OtherStepInv DEF FirewallInv, FirewallTypes

LEMMA UninstallInv == ASSUME FirewallInv, F!Uninstall, seen' = F!Watched PROVE FirewallInv'
    <1>1. /\ UNCHANGED <<localRule, disallowed, snap, code, call, answer, audited>>
          /\ step[Other] = "off" /\ step' = [step EXCEPT ![Other] = "read"]
          /\ op' = [op EXCEPT ![Other] = "remove"]
        BY DEF F!Uninstall, F!Starts, F!world, F!callVars
    <1>2. step \in [F!Helpers -> Steps] /\ op \in [F!Helpers -> {"none", "allow", "remove"}]
        BY DEF FirewallInv, FirewallTypes
    <1>3. /\ step' \in [F!Helpers -> Steps] /\ op' \in [F!Helpers -> {"none", "allow", "remove"}]
          /\ step'[Other] = "read" /\ op'[Other] = "remove"
          /\ \A h \in F!Helpers : h # Other => step'[h] = step[h] /\ op'[h] = op[h]
        BY <1>1, <1>2, HelpersAre DEF Steps
    <1>4. \A c \in Calls : step'[c] = step[c] /\ op'[c] = op[c]
        BY <1>3, HelpersAre
    <1>5. \A c \in Calls : CallOK(c)'
        BY <1>1, <1>4 DEF FirewallInv, CallOK, F!AuditResult
    <1>6. \A h \in F!Helpers : step[h] = "read" => op[h] \in {"allow", "remove"}
        BY DEF FirewallInv, HelperOK
    <1>7. localRule' \in LocalRules /\ disallowed' \in BOOLEAN
          /\ call' \in [Calls -> {"idle", "elevate", "wait", "audit", "reread", "answered"}]
          /\ answer' \in [Calls -> Answers]
          /\ audited' \in [Calls -> {<<>>, <<"ok">>, <<"failed">>}]
        BY <1>1 DEF FirewallInv, FirewallTypes
    <1>8. \A h \in F!Helpers :
             /\ step'[h] = step[h] \/ (step[h] = "off" /\ step'[h] = "read")
             /\ op'[h] = op[h] \/ step[h] = "off"
             /\ step'[h] = "read" => op'[h] \in {"allow", "remove"}
        BY <1>1, <1>3, <1>6
    <1> QED BY <1>1, <1>3, <1>5, <1>7, <1>8, OtherStepInv

\* What a step of one call leaves of the others.
CallActs(c) ==
    /\ UNCHANGED <<localRule, disallowed, snap, code>> /\ seen' = F!Watched
    /\ step' \in [F!Helpers -> Steps] /\ op' \in [F!Helpers -> {"none", "allow", "remove"}]
    /\ call' \in [Calls -> {"idle", "elevate", "wait", "audit", "reread", "answered"}]
    /\ answer' \in [Calls -> Answers]
    /\ audited' \in [Calls -> {<<>>, <<"ok">>, <<"failed">>}]
    /\ \A h \in F!Helpers \ {c} : step'[h] = step[h] /\ op'[h] = op[h]
    /\ \A d \in Calls \ {c} :
          call'[d] = call[d] /\ answer'[d] = answer[d] /\ audited'[d] = audited[d]
    /\ step'[c] = step[c] \/ (step[c] = "off" /\ step'[c] = "read")
    /\ op'[c] = op[c] \/ step[c] = "off"
    /\ step[c] = "off" /\ step'[c] = "read" => op'[c] \in {"allow", "remove"}

LEMMA CallActed ==
    ASSUME FirewallInv, NEW c \in Calls, CallActs(c), CallOK(c)'
    PROVE  FirewallInv'
    <1>1. ASSUME NEW d \in Calls, d # c PROVE CallOK(d)'
        <2>1. /\ step'[d] = step[d] /\ op'[d] = op[d] /\ code'[d] = code[d]
              /\ call'[d] = call[d] /\ answer'[d] = answer[d] /\ audited'[d] = audited[d]
            BY <1>1, HelpersAre DEF CallActs
        <2>2. CallOK(d)
            BY DEF FirewallInv
        <2> QED BY <2>1, <2>2 DEF CallOK, F!AuditResult
    <1>2. \A h \in F!Helpers :
             /\ step'[h] = step[h] \/ (step[h] = "off" /\ step'[h] = "read")
             /\ op'[h] = op[h] \/ step[h] = "off"
             /\ step'[h] = "read" => op'[h] \in {"allow", "remove"}
        <2>1. \A h \in F!Helpers : step[h] = "read" => op[h] \in {"allow", "remove"}
            BY DEF FirewallInv, HelperOK
        <2>2. \A h \in F!Helpers : h # c => step'[h] = step[h] /\ op'[h] = op[h]
            BY DEF CallActs
        <2>3. /\ step'[c] = step[c] \/ (step[c] = "off" /\ step'[c] = "read")
              /\ op'[c] = op[c] \/ step[c] = "off"
              /\ step[c] = "off" /\ step'[c] = "read" => op'[c] \in {"allow", "remove"}
            BY DEF CallActs
        <2> QED BY <2>1, <2>2, <2>3
    <1>3. localRule' \in LocalRules /\ disallowed' \in BOOLEAN
        BY DEF CallActs, FirewallInv, FirewallTypes
    <1> QED BY <1>1, <1>2, <1>3, OtherStepInv DEF CallActs

LEMMA CallTypes ==
    ASSUME FirewallInv, NEW c \in Calls
    PROVE  /\ c \in F!Helpers /\ CallOK(c)
           /\ step \in [F!Helpers -> Steps] /\ op \in [F!Helpers -> {"none", "allow", "remove"}]
           /\ code[c] \in Codes /\ answer \in [Calls -> Answers]
           /\ call \in [Calls -> {"idle", "elevate", "wait", "audit", "reread", "answered"}]
           /\ audited \in [Calls -> {<<>>, <<"ok">>, <<"failed">>}]
    BY HelpersAre DEF FirewallInv, FirewallTypes

LEMMA BeginInv ==
    ASSUME FirewallInv, NEW c \in Calls, F!Begin(c), seen' = F!Watched
    PROVE  FirewallInv'
    <1>1. /\ call[c] = "idle" /\ UNCHANGED <<localRule, disallowed, snap, code, step, audited>>
          /\ \/ /\ \E o \in {"allow", "remove"} : op' = [op EXCEPT ![c] = o]
                /\ call' = [call EXCEPT ![c] = "elevate"] /\ answer' = answer
             \/ /\ op' = op /\ call' = [call EXCEPT ![c] = "answered"]
                /\ answer' = [answer EXCEPT ![c] = "busy"]
        BY DEF F!Begin, F!world, F!To, F!Answer
    <1>2. step[c] = "off" /\ audited[c] = <<>>
        BY <1>1, CallTypes DEF CallOK
    <1>3. CallActs(c)
        BY <1>1, <1>2, CallTypes DEF CallActs, Answers
    <1>4. CallOK(c)'
        BY <1>1, <1>2, CallTypes DEF CallOK
    <1> QED BY <1>3, <1>4, CallActed

LEMMA ElevateInv ==
    ASSUME FirewallInv, NEW c \in Calls, F!Elevate(c), seen' = F!Watched
    PROVE  FirewallInv'
    <1>1. /\ call[c] = "elevate" /\ UNCHANGED <<localRule, disallowed, snap, code, op, audited>>
          /\ \/ /\ \E o \in {"precondition", "cancelled", "launchFailed"} :
                      answer' = [answer EXCEPT ![c] = o]
                /\ call' = [call EXCEPT ![c] = "audit"] /\ step' = step
             \/ /\ answer' = [answer EXCEPT ![c] = "targetChanged"]
                /\ call' = [call EXCEPT ![c] = "reread"] /\ step' = step
             \/ /\ answer' = answer /\ call' = [call EXCEPT ![c] = "wait"]
                /\ step' = [step EXCEPT ![c] = "read"]
        BY DEF F!Elevate, F!JudgeBeforeElevation, F!FirewallTargetIsOld, F!RunElevated,
               F!Starts, F!world, F!To, F!Answer
    <1>2. step[c] = "off" /\ audited[c] = <<>> /\ op[c] \in {"allow", "remove"}
        BY <1>1, CallTypes DEF CallOK
    <1>3. CallActs(c)
        <2>1. /\ step' \in [F!Helpers -> Steps]
              /\ call' \in [Calls -> {"idle", "elevate", "wait", "audit", "reread", "answered"}]
              /\ answer' \in [Calls -> Answers]
            BY <1>1, CallTypes DEF Answers, Codes, Steps
        <2>2. \A h \in F!Helpers \ {c} : step'[h] = step[h] /\ op'[h] = op[h]
            BY <1>1, CallTypes
        <2>3. \A d \in Calls \ {c} :
                 call'[d] = call[d] /\ answer'[d] = answer[d] /\ audited'[d] = audited[d]
            BY <1>1, CallTypes
        <2>4. step'[c] = step[c] \/ step'[c] = "read"
            BY <1>1, CallTypes
        <2> QED BY <1>1, <1>2, <2>1, <2>2, <2>3, <2>4, CallTypes DEF CallActs
    <1>4. CallOK(c)'
        BY <1>1, <1>2, CallTypes DEF CallOK
    <1> QED BY <1>3, <1>4, CallActed

LEMMA WaitInv ==
    ASSUME FirewallInv, NEW c \in Calls, F!Wait(c), seen' = F!Watched
    PROVE  FirewallInv'
    <1>1. /\ call[c] = "wait" /\ UNCHANGED <<localRule, disallowed, snap, code, step, op, audited>>
          /\ call' = [call EXCEPT ![c] = "audit"]
          /\ \/ step[c] = "done" /\ answer' = [answer EXCEPT ![c] = F!OutcomeOfExit(code[c])]
             \/ answer' = [answer EXCEPT ![c] = "launchFailed"]
        BY DEF F!Wait, F!world, F!helperVars, F!To, F!Answer
    <1>2. audited[c] = <<>>
        BY <1>1, CallTypes DEF CallOK
    <1>3. /\ F!OutcomeOfExit(code[c]) \in Answers \ {"busy", "targetChanged"}
          /\ F!OutcomeOfExit(code[c]) \in {"done", "already"} => code[c] \in {"ok", "already"}
        BY CallTypes DEF F!OutcomeOfExit, Codes, Answers
    <1>4. CallActs(c)
        BY <1>1, <1>3, CallTypes DEF CallActs, Answers
    <1>5. CallOK(c)'
        BY <1>1, <1>2, <1>3, CallTypes DEF CallOK
    <1> QED BY <1>4, <1>5, CallActed

LEMMA AuditInv ==
    ASSUME FirewallInv, NEW c \in Calls, F!Audit(c), seen' = F!Watched
    PROVE  FirewallInv'
    <1>1. /\ call[c] = "audit"
          /\ UNCHANGED <<localRule, disallowed, snap, code, step, op, answer>>
          /\ call' = [call EXCEPT ![c] = "reread"]
          /\ audited' = [audited EXCEPT ![c] = Append(audited[c], F!AuditResult(answer[c]))]
        BY DEF F!Audit, F!world, F!helperVars, F!To
    <1>2. audited[c] = <<>> /\ answer[c] \notin {"busy", "targetChanged"}
        BY <1>1, CallTypes DEF CallOK
    <1>3. Append(<<>>, F!AuditResult(answer[c])) = <<F!AuditResult(answer[c])>>
        OBVIOUS
    <1>4. audited' = [audited EXCEPT ![c] = <<F!AuditResult(answer[c])>>]
        BY <1>1, <1>2, <1>3
    <1>5. F!AuditResult(answer[c]) \in {"ok", "failed"}
        BY DEF F!AuditResult
    <1>6. <<F!AuditResult(answer[c])>> \in {<<"ok">>, <<"failed">>}
        BY <1>5
    <1>7. audited'[c] = <<F!AuditResult(answer[c])>> /\ audited'[c] # <<>>
        BY <1>4, <1>6, CallTypes
    <1>8. CallActs(c)
        BY <1>1, <1>4, <1>6, CallTypes DEF CallActs
    <1>9. CallOK(c)'
        BY <1>1, <1>2, <1>7, CallTypes DEF CallOK, F!AuditResult
    <1> QED BY <1>8, <1>9, CallActed

LEMMA ReturnInv ==
    ASSUME FirewallInv, NEW c \in Calls, F!Return(c), seen' = F!Watched
    PROVE  FirewallInv'
    <1>1. /\ call[c] = "reread" /\ call' = [call EXCEPT ![c] = "answered"]
          /\ UNCHANGED <<localRule, disallowed, snap, code, step, op, answer, audited>>
        BY DEF F!Return, F!world, F!helperVars, F!To
    <1>2. CallActs(c)
        BY <1>1, CallTypes DEF CallActs
    <1>3. CallOK(c)'
        BY <1>1, CallTypes DEF CallOK, F!AuditResult
    <1> QED BY <1>2, <1>3, CallActed

LEMMA FirewallInit == F!Init => FirewallInv
    <1> SUFFICES ASSUME F!Init PROVE FirewallInv
        OBVIOUS
    <1>1. F!NoSnapshot \in [disallowed : BOOLEAN, local : LocalRules]
        BY DEF F!NoSnapshot, LocalRules
    <1>2. FirewallTypes
        <2> HIDE DEF F!NoSnapshot
        <2> QED BY <1>1 DEF F!Init, FirewallTypes, LocalRules, Steps, Codes, Answers
    <1>3. ASSUME NEW h \in F!Helpers PROVE HelperOK(h)
        BY DEF F!Init, HelperOK, F!SaysOk
    <1>4. ASSUME NEW c \in Calls PROVE CallOK(c)
        BY HelpersAre DEF F!Init, CallOK
    <1> QED BY <1>2, <1>3, <1>4 DEF FirewallInv

LEMMA FirewallNext == ASSUME FirewallInv, [F!Next]_F!vars PROVE FirewallInv'
    <1>1. CASE F!Next
        BY <1>1, EditInv, UninstallInv, HelperStepInv,
           BeginInv, ElevateInv, WaitInv, AuditInv, ReturnInv DEF F!Next, F!CallStep
    <1>2. CASE UNCHANGED F!vars
        BY <1>2 DEF F!vars, F!world, F!helperVars, F!callVars, FirewallInv, FirewallTypes,
                    HelperOK, CallOK, F!SaysOk, F!AuditResult
    <1> QED BY <1>1, <1>2

-----------------------------------------------------------------------------
(* What the screen and the helper say.                                     *)

\* The screen wants of a field what the helper wants of it.
LEMMA ScreenWantsTheSame ==
    /\ DOMAIN F!ScreenExpects \subseteq DOMAIN F!ExpectedFields
    /\ \A f \in DOMAIN F!ScreenExpects : F!ScreenExpects[f] = F!ExpectedFields[f]
    <1> DEFINE s == F!ScreenExpects
               e == F!ExpectedFields
               names == {"Enabled", "Direction", "Action", "Protocol", "Profile",
                         "RemoteAddress", "Program", "LocalPort"}
    <1>1. DOMAIN s = names
        BY DEF F!ScreenExpects
    <1>2. names \subseteq DOMAIN e
        BY DEF F!ExpectedFields
    <1>3. /\ s["Enabled"] = e["Enabled"] /\ s["Direction"] = e["Direction"]
          /\ s["Action"] = e["Action"] /\ s["Protocol"] = e["Protocol"]
          /\ s["Profile"] = e["Profile"] /\ s["RemoteAddress"] = e["RemoteAddress"]
          /\ s["Program"] = e["Program"] /\ s["LocalPort"] = e["LocalPort"]
        BY DEF F!ScreenExpects, F!ExpectedFields
    <1> HIDE DEF s, e
    <1>4. DOMAIN s \subseteq DOMAIN e /\ \A f \in DOMAIN s : s[f] = e[f]
        BY <1>1, <1>2, <1>3
    <1> QED BY <1>4 DEF s, e

LEMMA CreatedIsMine == F!IsMine(F!CreatedRule)
    BY DEF F!IsMine, F!Differences, F!CreatedRule, F!ExpectedFields

LEMMA MismatchesAre ==
    ASSUME NEW rule
    PROVE  F!Mismatches(rule, TRUE) = F!Differences(rule) \cap DOMAIN F!ScreenExpects
    <1> HIDE DEF F!ScreenExpects, F!ExpectedFields
    <1> QED BY ScreenWantsTheSame DEF F!Mismatches, F!Differences

\* What the screen shows of a store that holds at most one rule.
LEMMA ReadStoreIs ==
    ASSUME NEW a, IsList(a)
    PROVE  /\ a = <<>> => F!ReadStore(a, TRUE) = "missing"
           /\ a # <<>> /\ Len(a) = 1 => F!ReadStore(a, TRUE) = "present"
           /\ Len(a) > 1 => F!ReadStore(a, TRUE) = "error"
    BY DEF IsList, F!ReadStore

Effective(check, l, e) ==
    /\ check.state = "present" /\ check.origin = e.source /\ check.unchecked = {}
    /\ l # <<>> /\ e.rule = l[1].rule => check.local = "same"
    /\ e.codes = {"Full"} => check.mismatches = F!Mismatches(e.rule, TRUE)
    /\ e.codes # {"Full"} =>
          check.mismatches = F!Mismatches(e.rule, TRUE) \cup {"Enforcement"}

LEMMA EffectiveIs ==
    ASSUME NEW l \in LocalRules, NEW e, e.codes = {"Full"} \/ e.codes = {"LocalFirewallRulesDisallowed"}
    PROVE  Effective(F!CheckEffective(F!RulesOf(l), e, TRUE, TRUE), l, e)
    <1> DEFINE m == F!Mismatches(e.rule, TRUE)
               check == F!CheckEffective(F!RulesOf(l), e, TRUE, TRUE)
    <1>1. F!EnforcementOf(e.codes) = IF e.codes = {"Full"} THEN "enforced" ELSE "not enforced"
        BY DEF F!EnforcementOf
    <1>2. F!Unchecked(TRUE) = {}
        BY DEF F!Unchecked
    <1> HIDE DEF m
    <1>3. /\ check.state = "present" /\ check.origin = e.source
          /\ check.unchecked =
                F!Unchecked(TRUE) \cup (IF F!EnforcementOf(e.codes) = "unknown" THEN {"Enforcement"} ELSE {})
          /\ check.mismatches =
                m \cup (IF F!EnforcementOf(e.codes) = "not enforced" THEN {"Enforcement"} ELSE {})
        BY DEF F!CheckEffective, m
    <1>4. check.unchecked = {} /\ check.mismatches = m \cup (IF e.codes = {"Full"} THEN {} ELSE {"Enforcement"})
        BY <1>1, <1>2, <1>3
    <1>5. ASSUME l # <<>>, e.rule = l[1].rule PROVE check.local = "same"
        <2>1. F!RulesOf(l) = <<l[1].rule>>
            BY <1>5, RulesOfIs
        <2>2. F!ReadStore(F!RulesOf(l), TRUE) = "present" /\ F!RulesOf(l)[1] = e.rule
            BY <1>5, <2>1 DEF F!ReadStore
        <2>3. F!SameValues(e.rule, e.rule)
            BY DEF F!SameValues
        <2> HIDE DEF F!RulesOf
        <2> QED BY <2>2, <2>3 DEF F!CheckEffective
    <1> QED BY <1>3, <1>4, <1>5 DEF m, Effective

\* A rule that is the helper's is no conflict where it is alone in effect.
LEMMA IsMineIsOwned ==
    ASSUME FirewallTypes, localRule # <<>>, F!IsMine(localRule[1].rule),
           \/ F!ActiveStore = <<>>
           \/ Len(F!ActiveStore) = 1 /\ F!IsMineActive(F!ActiveStore[1])
    PROVE  F!Classify(F!Now) # "conflict"
    <1> DEFINE r == localRule[1].rule
               a == F!ActiveStore
    <1>1. F!Now.local = F!RulesOf(localRule) /\ F!Now.active = a
        BY DEF F!Now, F!LocalStore
    <1>2. F!RulesOf(localRule) = <<r>>
        BY RulesOfIs DEF FirewallTypes
    <1> HIDE DEF r, a
    <1>3. PICK s : s = F!Now
        OBVIOUS
    <1>4. s.local # <<>> /\ Len(s.local) = 1 /\ s.local[1] = r /\ s.active = a
        <2>1. <<r>> # <<>> /\ Len(<<r>>) = 1 /\ <<r>>[1] = r
            OBVIOUS
        <2> QED BY <1>1, <1>2, <1>3, <2>1
    <1>5. CASE a = <<>>
        <2>1. F!Classify(s) = "owned, not in effect"
            BY <1>4, <1>5 DEF F!Classify, r
        <2> QED BY <1>3, <2>1
    <1>6. CASE a # <<>> /\ Len(a) = 1 /\ F!IsMineActive(a[1])
        <2>1. F!Classify(s) = IF s.disallowed THEN "owned, not in effect" ELSE "owned"
            BY <1>4, <1>6 DEF F!Classify, r
        <2> QED BY <1>3, <2>1
    <1> QED BY <1>5, <1>6 DEF a

\* The firewall as it is, read by both: nothing, only a local rule, a local
\* rule in effect, only a rule of a policy, or two rules.
LEMMA ScreenAgrees == FirewallInv => F!ScreenAgreesWithHelper
    <1> SUFFICES ASSUME FirewallInv PROVE F!ScreenAgreesWithHelper
        OBVIOUS
    <1> DEFINE l == localRule
               r == localRule[1].rule
               a == F!ActiveStore
               state == F!Classify(F!Now)
               ls == F!RulesOf(localRule)
               check == F!CheckRule(ls, a, TRUE, TRUE, TRUE)
               right == check.state = "present" /\ check.mismatches = {} /\ check.unchecked = {}
               screen == DOMAIN F!ScreenExpects
               Goal ==
                 /\ state = "owned" => right /\ check.origin = F!Local /\ check.local = "same"
                 /\ state = "owned, not in effect" =>
                       check.state = "present" /\ check.mismatches \cap {"Active", "Enforcement"} # {}
                 /\ state = "absent" <=> check.state = "missing"
                 /\ right /\ check.origin = F!Local =>
                       state = "owned" \/ F!Differences(r) \cap screen = {}
                 /\ l # <<>> /\ l[1].by = "helper" /\ ~policyRule => state # "conflict"
    <1>1. l \in LocalRules /\ FirewallTypes
        BY DEF FirewallInv, FirewallTypes
    <1>3. F!Now.disallowed <=> disallowed
        BY DEF F!Now
    <1>2. /\ state \in {"absent", "conflict", "owned", "owned, not in effect"}
          /\ state = "absent" <=> l = <<>> /\ a = <<>>
          /\ state \in {"owned", "owned, not in effect"} => l # <<>> /\ F!IsMine(r)
          /\ state = "owned" <=>
                /\ l # <<>> /\ F!IsMine(r) /\ ~disallowed
                /\ a # <<>> /\ Len(a) = 1 /\ F!IsMineActive(a[1])
          /\ state = "owned, not in effect" =>
                a = <<>> \/ (Len(a) = 1 /\ F!IsMineActive(a[1]) /\ disallowed)
        <2>1. F!Now.local = ls /\ F!Now.active = a
            BY DEF F!Now, F!LocalStore
        <2>2. IsList(a)
            BY <1>1, ActiveStoreIs
        <2> HIDE DEF a, ls
        <2>3. PICK s : s = F!Now
            OBVIOUS
        <2>4. s.local = F!RulesOf(l) /\ IsList(s.active) /\ s.active = a
            BY <2>1, <2>2, <2>3 DEF ls
        <2>5. Classified(s, l)
            BY <1>1, <2>4, ClassifyIs
        <2>6. Classified(F!Now, l)
            BY <2>3, <2>5
        <2>7. PICK n : n = F!Now
            OBVIOUS
        <2>8. Classified(n, l) /\ n.active = a /\ (n.disallowed <=> disallowed)
              /\ F!Classify(n) = state
            BY <2>1, <2>6, <2>7, <1>3
        <2>9. l[1].rule = r
            OBVIOUS
        <2> DEFINE c == F!Classify(n)
                   b == n.active
        <2>10. /\ c \in {"absent", "conflict", "owned", "owned, not in effect"}
               /\ c = "absent" <=> l = <<>> /\ b = <<>>
               /\ c \in {"owned", "owned, not in effect"} => l # <<>> /\ F!IsMine(l[1].rule)
            BY <2>8 DEF Classified
        <2>11. c = "owned" <=>
                  /\ l # <<>> /\ F!IsMine(l[1].rule) /\ ~n.disallowed
                  /\ b # <<>> /\ Len(b) = 1 /\ F!IsMineActive(b[1])
            BY <2>8 DEF Classified
        <2>12. c = "owned, not in effect" =>
                  b = <<>> \/ (Len(b) = 1 /\ F!IsMineActive(b[1]) /\ n.disallowed)
            BY <2>8 DEF Classified
        <2>13. c = state /\ b = a /\ (n.disallowed <=> disallowed)
            BY <2>8
        <2> HIDE DEF c, b, l, r, state
        <2> QED BY <2>9, <2>10, <2>11, <2>12, <2>13
    <1>4. /\ l = <<>> => ls = <<>>
          /\ l # <<>> => ls = <<r>> /\ ls # <<>> /\ Len(ls) = 1 /\ ls[1] = r
        <2>1. l # <<>> => ls = <<r>>
            BY <1>1, RulesOfIs
        <2> HIDE DEF r, ls
        <2>2. ls = <<r>> => ls # <<>> /\ Len(ls) = 1 /\ ls[1] = r
            OBVIOUS
        <2>3. l = <<>> => ls = <<>>
            BY <1>1, RulesOfIs DEF ls
        <2> QED BY <2>1, <2>2, <2>3
    <1>5. l # <<>> /\ l[1].by = "helper" => F!IsMine(r)
        <2>1. l # <<>> => \E e \in RuleEntries : l = <<e>>
            BY <1>1 DEF LocalRules
        <2>2. ASSUME NEW e \in RuleEntries, e.by = "helper" PROVE e.rule = F!CreatedRule
            <3> HIDE DEF F!CreatedRule, F!OtherRules
            <3> QED BY <2>2 DEF RuleEntries
        <2>3. l # <<>> /\ l[1].by = "helper" => r = F!CreatedRule
            BY <2>1, <2>2
        <2> QED BY <2>3, CreatedIsMine
    <1>6. F!IsMine(r) <=> F!Differences(r) = {}
        BY DEF F!IsMine
    <1>7. F!Mismatches(r, TRUE) = F!Differences(r) \cap screen
        BY MismatchesAre
    <1>8. /\ policyRule /\ (l = <<>> \/ (disallowed /\ ~listed)) => a = <<F!PolicyEntry>>
          /\ policyRule /\ ~(l = <<>> \/ (disallowed /\ ~listed)) => a # <<>> /\ Len(a) = 2
          /\ ~policyRule /\ (l = <<>> \/ (disallowed /\ ~listed)) => a = <<>>
          /\ ~policyRule /\ ~(l = <<>> \/ (disallowed /\ ~listed)) => a = <<F!ActiveOf(r)>>
        <2>1. <<F!ActiveOf(r)>> # <<>>
            OBVIOUS
        <2> QED BY <1>1, <2>1, ActiveStoreIs
    <1> DEFINE e0 == F!ActiveOf(r)
               e1 == F!PolicyEntry
    <1>9. /\ e0.rule = r /\ e0.source = F!Local
          /\ e0.codes = IF disallowed THEN {"LocalFirewallRulesDisallowed"} ELSE {"Full"}
          /\ e1.source = F!GroupPolicy /\ e1.codes = {"Full"}
        BY DEF F!ActiveOf, F!PolicyEntry
    <1>10. F!Local # F!GroupPolicy
        BY DEF F!Local, F!GroupPolicy
    <1> HIDE DEF l, r, a, state, ls, screen, e0, e1, check
    <1>11. ASSUME a = <<>> PROVE Goal
        <2>1. F!ReadStore(a, TRUE) = "missing"
            BY <1>11 DEF F!ReadStore
        <2>2. CASE l = <<>>
            <3>1. check = F!MissingCheck
                BY <1>4, <2>1, <2>2 DEF F!CheckRule, F!ReadStore, check
            <3>2. check.state = "missing"
                BY <3>1 DEF F!MissingCheck
            <3> QED BY <1>2, <1>11, <2>2, <3>2
        <2>3. CASE l # <<>>
            <3>1. check = F!CheckLocalOnly(r, TRUE)
                <4>1. ls # <<>> /\ Len(ls) = 1 /\ ls[1] = r
                    BY <1>4, <2>3
                <4>2. F!ReadStore(ls, TRUE) = "present"
                    BY <4>1 DEF F!ReadStore
                <4> QED BY <2>1, <4>1, <4>2 DEF F!CheckRule, check
            <3>2. check.state = "present" /\ check.origin = "none" /\ "Active" \in check.mismatches
                BY <3>1 DEF F!CheckLocalOnly
            <3>3. state # "owned" /\ state # "absent" /\ ~right
                BY <1>2, <1>11, <2>3, <3>2
            <3>4. F!IsMine(r) => state # "conflict"
                BY <1>1, <1>11, <2>3, IsMineIsOwned DEF a, l, r, state
            <3> QED BY <1>5, <3>2, <3>3, <3>4
        <2> QED BY <2>2, <2>3
    <1>12. ASSUME a = <<e0>>, l # <<>>, ~policyRule PROVE Goal
        <2>1. a # <<>> /\ Len(a) = 1 /\ a[1] = e0
            BY <1>12
        <2>2. F!ReadStore(a, TRUE) = "present"
            BY <2>1 DEF F!ReadStore
        <2>3. check = F!CheckEffective(ls, e0, TRUE, TRUE)
            BY <2>1, <2>2 DEF F!CheckRule, check
        <2>4. /\ check.state = "present" /\ check.origin = F!Local /\ check.unchecked = {}
              /\ check.local = "same"
              /\ ~disallowed => check.mismatches = F!Mismatches(r, TRUE)
              /\ disallowed => "Enforcement" \in check.mismatches
            <3>1. PICK e : e = e0
                OBVIOUS
            <3>2. /\ e.codes = {"Full"} \/ e.codes = {"LocalFirewallRulesDisallowed"}
                  /\ e.rule = r /\ e.source = F!Local
                  /\ disallowed => e.codes # {"Full"}
                  /\ ~disallowed => e.codes = {"Full"}
                BY <1>9, <3>1
            <3>3. Effective(check, l, e)
                <4>1. Effective(F!CheckEffective(F!RulesOf(l), e, TRUE, TRUE), l, e)
                    BY <1>1, <3>2, EffectiveIs
                <4> QED BY <2>3, <3>1, <4>1 DEF ls, l
            <3>4. l[1].rule = r
                BY DEF l, r
            <3> QED BY <1>12, <3>2, <3>3, <3>4 DEF Effective
        <2>5. F!IsMineActive(a[1]) <=> F!IsMine(r)
            BY <1>9, <2>1 DEF F!IsMineActive
        <2>6. state # "absent" /\ (state = "owned" => ~disallowed /\ F!IsMine(r))
              /\ (state = "owned, not in effect" => disallowed)
            BY <1>2, <1>12, <2>1
        <2>7. F!IsMine(r) => state # "conflict"
            BY <1>1, <1>12, <2>1, <2>5, IsMineIsOwned DEF a, l, r, state
        <2>8. right => F!Differences(r) \cap screen = {}
            BY <1>7, <2>4
        <2>9. state = "owned" => right
            BY <1>6, <1>7, <2>4, <2>6
        <2> QED BY <1>5, <2>4, <2>6, <2>7, <2>8, <2>9
    <1>13. ASSUME a = <<e1>>, policyRule PROVE Goal
        <2>1. a # <<>> /\ Len(a) = 1 /\ a[1] = e1
            BY <1>13
        <2>2. F!ReadStore(a, TRUE) = "present"
            BY <2>1 DEF F!ReadStore
        <2>3. check = F!CheckEffective(ls, e1, TRUE, TRUE)
            BY <2>1, <2>2 DEF F!CheckRule, check
        <2>4. check.state = "present" /\ check.origin = F!GroupPolicy
            <3>1. PICK e : e = e1
                OBVIOUS
            <3>2. e.codes = {"Full"} /\ e.source = F!GroupPolicy
                BY <1>9, <3>1
            <3>3. Effective(check, l, e)
                <4>1. Effective(F!CheckEffective(F!RulesOf(l), e, TRUE, TRUE), l, e)
                    BY <1>1, <3>2, EffectiveIs
                <4> QED BY <2>3, <3>1, <4>1 DEF ls, l
            <3> QED BY <3>2, <3>3 DEF Effective
        <2>5. ~F!IsMineActive(a[1])
            BY <1>9, <1>10, <2>1 DEF F!IsMineActive
        <2>6. state = "conflict"
            BY <1>2, <2>1, <2>5
        <2> QED BY <1>10, <1>13, <2>4, <2>6
    <1>14. ASSUME a # <<>>, Len(a) = 2, policyRule PROVE Goal
        <2>1. F!ReadStore(a, TRUE) = "error"
            BY <1>14 DEF F!ReadStore
        <2>2. check = F!UnknownCheck
            BY <2>1 DEF F!CheckRule, check
        <2>3. check.state = "unknown"
            BY <2>2 DEF F!UnknownCheck
        <2>4. state = "conflict"
            <3>1. Len(a) # 1
                BY <1>14
            <3> QED BY <1>2, <1>14, <3>1
        <2> QED BY <1>14, <2>3, <2>4
    <1>15. Goal
        BY <1>8, <1>11, <1>12, <1>13, <1>14 DEF e0, e1, l, r
    <1> QED BY <1>15 DEF F!ScreenAgreesWithHelper, F!LocalStore, l, r, a, state, ls, screen, check

LEMMA OkSound == FirewallInv => F!OkMeansAsAsked
    <1> SUFFICES ASSUME FirewallInv PROVE F!OkMeansAsAsked
        OBVIOUS
    <1>1. ASSUME NEW h \in F!Helpers, F!SaysOk(h)
          PROVE  IF op[h] = "allow" THEN {"own rule", "local rules apply"} \subseteq seen[h]
                                    ELSE "no rule" \in seen[h]
        BY <1>1 DEF FirewallInv, HelperOK
    <1>2. ASSUME NEW c \in Calls
          PROVE  /\ "ok" \in {audited[c][i] : i \in DOMAIN audited[c]} => code[c] \in {"ok", "already"}
                 /\ call[c] = "answered" =>
                       Len(audited[c]) = IF answer[c] \in {"busy", "targetChanged"} THEN 0 ELSE 1
        <2>1. /\ CallOK(c) /\ audited[c] \in {<<>>, <<"ok">>, <<"failed">>}
              /\ call[c] \in {"idle", "elevate", "wait", "audit", "reread", "answered"}
            BY CallTypes
        <2>2. CASE audited[c] = <<>>
            BY <2>1, <2>2 DEF CallOK
        <2>3. CASE audited[c] = <<F!AuditResult(answer[c])>>
            <3>1. audited[c] # <<>> /\ Len(audited[c]) = 1
                  /\ {audited[c][i] : i \in DOMAIN audited[c]} = {F!AuditResult(answer[c])}
                BY <2>3
            <3>2. F!AuditResult(answer[c]) = "ok" => answer[c] \in {"done", "already"}
                BY DEF F!AuditResult
            <3> QED BY <2>1, <3>1, <3>2 DEF CallOK
        <2> QED BY <2>1, <2>2, <2>3 DEF CallOK
    <1> QED BY <1>1, <1>2 DEF F!OkMeansAsAsked

\* A helper that is to remove has found a rule of its own.
LEMMA RemovalIsOfItsOwn ==
    ASSUME FirewallInv, [F!Next]_F!vars, NEW h \in F!Helpers,
           step[h] = "change", step'[h] # "change", localRule # <<>>, localRule' = <<>>
    PROVE  F!IsMine(localRule[1].rule) \/ snap[h].local # localRule
    <1>1. F!Next
        BY DEF F!vars, F!helperVars
    <1>2. step \in [F!Helpers -> Steps]
        BY DEF FirewallInv, FirewallTypes
    <1>3. F!Change(h)
        <2>1. ~F!Edit
            BY DEF F!Edit, F!helperVars
        <2>2. ~F!Uninstall
            BY <1>2 DEF F!Uninstall, F!Starts
        <2>3. ASSUME NEW c \in Calls, F!CallStep(c) PROVE FALSE
            <3>1. F!Begin(c) \/ F!Wait(c) \/ F!Audit(c) \/ F!Return(c) => step' = step
                BY DEF F!Begin, F!Wait, F!Audit, F!Return, F!helperVars
            <3>2. F!Elevate(c) => step' = step \/ (step[c] = "off" /\ step' = [step EXCEPT ![c] = "read"])
                BY DEF F!Elevate, F!JudgeBeforeElevation, F!FirewallTargetIsOld, F!RunElevated, F!Starts
            <3> QED BY <1>2, <2>3, <3>1, <3>2 DEF F!CallStep
        <2>4. PICK k \in F!Helpers : F!HelperStep(k)
            BY <1>1, <2>1, <2>2, <2>3 DEF F!Next
        <2>5. k = h
            <3> SUFFICES ASSUME k # h PROVE FALSE
                OBVIOUS
            <3>1. step' = step \/ \E x : step' = [step EXCEPT ![k] = x]
                BY <2>4 DEF F!HelperStep, F!NotPlaced, F!ReadLocal, F!ReadFails, F!ReadActive,
                            F!Change, F!ReadAgain, F!Exit
            <3> QED BY <1>2, <3>1
        <2> QED BY <2>4, <2>5 DEF F!HelperStep, F!NotPlaced, F!ReadLocal, F!ReadFails,
                                  F!ReadActive, F!ReadAgain
    <1>4. op[h] # "allow"
        BY <1>3, ChangeIs
    <1> QED BY <1>4 DEF FirewallInv, HelperOK

-----------------------------------------------------------------------------
(* The throttle: a record counts every recent failure of its key.          *)

Phases == {"idle", "counting", "verifying", "reject", "rejectIp", "clear", "clearIp", "release"}

ThrottleTypes ==
    /\ loginNow \in Nat
    /\ failures \in [T!Keys -> [count : Nat, until : Nat, last : Nat]]
    /\ inFlight \in [total : Nat, perKey : [T!Keys -> Nat]]
    /\ phase \in [Logins -> Phases]
    /\ who \in [Logins -> T!AccountKeys \cup {Nobody}]
    /\ start \in [Logins -> Nat]
    /\ failed \in [T!Keys -> SUBSET [begun : Nat, nth : Nat]]
    /\ \A p \in Logins : start[p] <= loginNow /\ (phase[p] # "idle" => who[p] \in T!AccountKeys)

\* The failures and the verifications of a key that are not a lockout old.
Recent(k) == {f \in failed[k] : loginNow < f.begun + Lockout}
Awaited(k) == {p \in Logins : T!Pending(p, k) /\ loginNow < start[p] + Lockout}
Holders(k) == {p \in Logins : T!HoldsSlot(p) /\ k \in T!KeysOf(p)}

\* A record counts every recent failure of its key, is no older than the last
\* of them, and locks for as long as it is fresh.
StreakOK(k) ==
    /\ IsFiniteSet(failed[k])
    /\ failures[k].last <= loginNow
    /\ failures[k].until # 0 =>
          failures[k].until = failures[k].last + Lockout /\ failures[k].count >= T!Threshold(k)
    /\ \A f \in Recent(k) : f.begun <= failures[k].last
    /\ Cardinality(Recent(k)) <= failures[k].count
    /\ \A f \in failed[k] : f.nth < Cardinality(T!FailedAt(k, f.begun))

BoundOK(k) == Cardinality(Awaited(k)) + Cardinality(Recent(k)) <= T!Threshold(k)

SlotsOK ==
    /\ inFlight.total = Cardinality({p \in Logins : T!HoldsSlot(p)})
    /\ \A k \in T!Keys : inFlight.perKey[k] = Cardinality(Holders(k))

ThrottleInv == ThrottleTypes /\ (\A k \in T!Keys : StreakOK(k) /\ BoundOK(k)) /\ SlotsOK

LEMMA SameLoginSizes ==
    /\ \A S : T!IsFiniteSet(S) <=> IsFiniteSet(S)
    /\ \A S : T!Cardinality(S) = Cardinality(S)
    <1>1. \A S : T!IsFiniteSet(S) <=> IsFiniteSet(S)
        BY DEF T!IsFiniteSet, IsFiniteSet
    <1>2. \A S : T!Cardinality(S) = Cardinality(S)
        BY DEF T!Cardinality, Cardinality
    <1> QED BY <1>1, <1>2

LEMMA ThrottleIs ==
    /\ \A k : T!Threshold(k) \in Nat \ {0}
    /\ Lockout \in Nat \ {0} /\ IsFiniteSet(Logins)
    /\ \A k \in T!AccountKeys : k \in T!Keys /\ k[1] \in T!Keys /\ k[1] \in Ips /\ k \notin Ips
    /\ Nobody \notin T!AccountKeys
    <1>1. /\ MaxFailures \in Nat \ {0} /\ MaxIpFailures \in Nat \ {0} /\ Lockout \in Nat \ {0}
          /\ Ips \cap T!AccountKeys = {} /\ IsFiniteSet(Logins) /\ Nobody \notin T!AccountKeys
        BY ThrottleConstants, SameLoginSizes
           DEF T!LimitsArePositive, T!KeysDiffer, T!RequestsAreFew, T!NobodyIsNoOne
    <1> QED BY <1>1 DEF T!Threshold, T!Keys, T!AccountKeys

LEMMA FewRequests ==
    ASSUME NEW S, S \subseteq Logins
    PROVE  IsFiniteSet(S) /\ Cardinality(S) \in Nat
    BY ThrottleIs, FS_Subset, FS_CardinalityType

LEMMA FewFailures ==
    ASSUME NEW k \in T!Keys, StreakOK(k)
    PROVE  IsFiniteSet(Recent(k)) /\ Cardinality(Recent(k)) \in Nat
    BY FS_Subset, FS_CardinalityType DEF StreakOK, Recent

LEMMA ThrottleInit == T!Init => ThrottleInv
    <1> SUFFICES ASSUME T!Init PROVE ThrottleInv
        OBVIOUS
    <1>1. \A p \in Logins : ~T!HoldsSlot(p) /\ \A k : ~T!Pending(p, k)
        BY DEF T!Init, T!HoldsSlot, T!Pending
    <1>2. \A k \in T!Keys : Recent(k) = {} /\ Awaited(k) = {} /\ Holders(k) = {} /\ failed[k] = {}
        BY <1>1 DEF T!Init, Recent, Awaited, Holders
    <1>3. {p \in Logins : T!HoldsSlot(p)} = {}
        BY <1>1
    <1>4. SlotsOK
        BY <1>2, <1>3, FS_EmptySet DEF T!Init, SlotsOK
    <1>5. ASSUME NEW k \in T!Keys PROVE StreakOK(k) /\ BoundOK(k)
        <2>1. failures[k].last = 0 /\ failures[k].until = 0 /\ failures[k].count = 0
            BY DEF T!Init, T!Clear
        <2>2. loginNow = 0
            BY DEF T!Init
        <2>3. Cardinality(Recent(k)) = 0 /\ Cardinality(Awaited(k)) = 0 /\ IsFiniteSet(failed[k])
            BY <1>2, FS_EmptySet
        <2>4. T!Threshold(k) \in Nat
            BY ThrottleIs
        <2> QED BY <1>2, <2>1, <2>2, <2>3, <2>4 DEF StreakOK, BoundOK
    <1>6. ThrottleTypes
        BY DEF T!Init, T!Clear, ThrottleTypes, Phases
    <1> QED BY <1>4, <1>5, <1>6 DEF ThrottleInv

\* Only p moves, and time stands still.
Moves(p) ==
    /\ loginNow' = loginNow
    /\ phase' \in [Logins -> Phases] /\ who' \in [Logins -> T!AccountKeys \cup {Nobody}]
    /\ start' \in [Logins -> Nat]
    /\ start'[p] <= loginNow /\ (phase'[p] # "idle" => who'[p] \in T!AccountKeys)
    /\ \A q \in Logins \ {p} : phase'[q] = phase[q] /\ who'[q] = who[q] /\ start'[q] = start[q]

LEMMA OthersKeep ==
    ASSUME NEW p \in Logins, Moves(p), NEW q \in Logins, q # p
    PROVE  /\ \A k : T!Pending(q, k)' <=> T!Pending(q, k)
           /\ T!HoldsSlot(q)' <=> T!HoldsSlot(q)
           /\ T!KeysOf(q)' = T!KeysOf(q)
           /\ start'[q] = start[q]
    BY DEF Moves, T!Pending, T!HoldsSlot, T!KeysOf

LEMMA AwaitedShrinks ==
    ASSUME NEW p \in Logins, Moves(p), NEW k \in T!Keys,
           T!Pending(p, k)' => T!Pending(p, k) /\ start'[p] = start[p]
    PROVE  Awaited(k)' \subseteq Awaited(k)
    <1> SUFFICES ASSUME NEW q \in Logins, T!Pending(q, k)', loginNow' < start'[q] + Lockout
                 PROVE  T!Pending(q, k) /\ loginNow < start[q] + Lockout
        BY DEF Awaited
    <1>1. CASE q = p
        BY <1>1 DEF Moves
    <1>2. CASE q # p
        BY <1>2, OthersKeep DEF Moves
    <1> QED BY <1>1, <1>2

LEMMA BoundShrinks ==
    ASSUME ThrottleInv, NEW k \in T!Keys,
           Awaited(k)' \subseteq Awaited(k), Recent(k)' \subseteq Recent(k)
    PROVE  BoundOK(k)'
    <1> DEFINE A == Awaited(k)
               A2 == Awaited(k)'
               R1 == Recent(k)
               R2 == Recent(k)'
    <1>1. IsFiniteSet(A) /\ Cardinality(A) \in Nat
        BY FewRequests DEF Awaited
    <1>2. IsFiniteSet(R1) /\ Cardinality(R1) \in Nat
        BY FewFailures DEF ThrottleInv
    <1>3. Cardinality(A) + Cardinality(R1) <= T!Threshold(k) /\ T!Threshold(k) \in Nat
        BY ThrottleIs DEF ThrottleInv, BoundOK
    <1>4. A2 \subseteq A /\ R2 \subseteq R1
        OBVIOUS
    <1> HIDE DEF A, A2, R1, R2
    <1>5. Cardinality(A2) \in Nat /\ Cardinality(A2) <= Cardinality(A)
        BY <1>1, <1>4, FS_Subset, FS_CardinalityType
    <1>6. Cardinality(R2) \in Nat /\ Cardinality(R2) <= Cardinality(R1)
        BY <1>2, <1>4, FS_Subset, FS_CardinalityType
    <1>7. Cardinality(A2) + Cardinality(R2) <= T!Threshold(k)
        BY <1>1, <1>2, <1>3, <1>5, <1>6
    <1>8. T!Threshold(k)' = T!Threshold(k)
        BY DEF T!Threshold
    <1> QED BY <1>7, <1>8 DEF BoundOK, A2, R2

LEMMA SlotsStay ==
    ASSUME ThrottleInv, NEW p \in Logins, Moves(p), inFlight' = inFlight,
           T!HoldsSlot(p)' <=> T!HoldsSlot(p), T!HoldsSlot(p) => who'[p] = who[p]
    PROVE  SlotsOK'
    <1>1. ASSUME NEW q \in Logins
          PROVE  /\ T!HoldsSlot(q)' <=> T!HoldsSlot(q)
                 /\ T!HoldsSlot(q) => T!KeysOf(q)' = T!KeysOf(q)
        <2>1. CASE q = p
            BY <2>1 DEF T!KeysOf
        <2>2. CASE q # p
            BY <2>2, OthersKeep
        <2> QED BY <2>1, <2>2
    <1>2. {q \in Logins : T!HoldsSlot(q)}' = {q \in Logins : T!HoldsSlot(q)}
        BY <1>1
    <1>3. \A k \in T!Keys : Holders(k)' = Holders(k)
        BY <1>1 DEF Holders
    <1>4. T!Keys' = T!Keys
        BY DEF T!Keys, T!AccountKeys
    <1> QED BY <1>2, <1>3, <1>4 DEF SlotsOK, ThrottleInv

LEMMA RecordStays ==
    ASSUME NEW k \in T!Keys, StreakOK(k), loginNow' = loginNow,
           failures'[k] = failures[k], failed'[k] = failed[k]
    PROVE  StreakOK(k)' /\ Recent(k)' = Recent(k)
    <1>1. Recent(k)' = Recent(k) /\ T!Threshold(k)' = T!Threshold(k)
        BY DEF Recent, T!Threshold
    <1>2. \A t : T!FailedAt(k, t)' = T!FailedAt(k, t)
        BY DEF T!FailedAt
    <1> QED BY <1>1, <1>2 DEF StreakOK

\* A step of p that touches no record leaves the invariant if it awaits no more.
LEMMA QuietInv ==
    ASSUME ThrottleInv, NEW p \in Logins, Moves(p), UNCHANGED <<failures, failed>>,
           \A k \in T!Keys : T!Pending(p, k)' => T!Pending(p, k) /\ start'[p] = start[p],
           inFlight' \in [total : Nat, perKey : [T!Keys -> Nat]], SlotsOK'
    PROVE  ThrottleInv'
    <1>1. ASSUME NEW k \in T!Keys PROVE StreakOK(k)' /\ BoundOK(k)'
        <2>1. StreakOK(k)' /\ Recent(k)' = Recent(k)
            BY RecordStays DEF Moves, ThrottleInv
        <2>2. Awaited(k)' \subseteq Awaited(k)
            BY AwaitedShrinks
        <2> QED BY <2>1, <2>2, BoundShrinks
    <1>2. T!Keys' = T!Keys /\ T!AccountKeys' = T!AccountKeys
        BY DEF T!Keys, T!AccountKeys
    <1>3. \A q \in Logins : start'[q] <= loginNow' /\ (phase'[q] # "idle" => who'[q] \in T!AccountKeys)
        BY DEF Moves, ThrottleInv, ThrottleTypes
    <1>4. ThrottleTypes'
        BY <1>2, <1>3 DEF ThrottleInv, ThrottleTypes, Moves
    <1> QED BY <1>1, <1>2, <1>4 DEF ThrottleInv

LEMMA CheckLocksInv == ASSUME ThrottleInv, NEW p \in Logins, T!CheckLocks(p) PROVE ThrottleInv'
    <1>1. PICK k \in T!AccountKeys :
             /\ phase[p] = "idle" /\ phase' = [phase EXCEPT ![p] = "counting"]
             /\ who' = [who EXCEPT ![p] = k]
             /\ UNCHANGED <<loginNow, failures, inFlight, start, failed>>
        BY DEF T!CheckLocks, T!GoTo
    <1>2. phase'[p] = "counting"
        BY <1>1 DEF ThrottleInv, ThrottleTypes
    <1>3. Moves(p)
        BY <1>1 DEF Moves, ThrottleInv, ThrottleTypes, Phases
    <1>4. ~T!HoldsSlot(p) /\ ~T!HoldsSlot(p)' /\ \A j : ~T!Pending(p, j)'
        BY <1>1, <1>2 DEF T!HoldsSlot, T!Pending
    <1>5. SlotsOK'
        BY <1>1, <1>3, <1>4, SlotsStay
    <1> QED BY <1>1, <1>3, <1>4, <1>5, QuietInv DEF ThrottleInv, ThrottleTypes

LEMMA VerifiedInv == ASSUME ThrottleInv, NEW p \in Logins, T!Verified(p) PROVE ThrottleInv'
    <1>1. /\ phase[p] = "verifying"
          /\ \E x \in {"reject", "clear"} : phase' = [phase EXCEPT ![p] = x]
          /\ UNCHANGED <<loginNow, failures, inFlight, who, start, failed>>
        BY DEF T!Verified, T!GoTo
    <1>2. phase'[p] \in {"reject", "clear"}
        BY <1>1 DEF ThrottleInv, ThrottleTypes
    <1>3. Moves(p)
        BY <1>1 DEF Moves, ThrottleInv, ThrottleTypes, Phases
    <1>4. T!HoldsSlot(p) /\ T!HoldsSlot(p)' /\ \A k : T!Pending(p, k)' => T!Pending(p, k)
        BY <1>1, <1>2 DEF T!HoldsSlot, T!Pending, T!KeysOf
    <1>5. SlotsOK'
        BY <1>1, <1>3, <1>4, SlotsStay
    <1> QED BY <1>1, <1>3, <1>4, <1>5, QuietInv DEF ThrottleInv, ThrottleTypes

\* A slot taken or given back is one of the request's two keys and of the total.
LEMMA SlotMoves ==
    ASSUME ThrottleInv, NEW p \in Logins, Moves(p), who[p] \in T!AccountKeys,
           \/ T!Shift(p, 1) /\ ~T!HoldsSlot(p) /\ T!HoldsSlot(p)' /\ who'[p] = who[p]
           \/ T!Shift(p, -1) /\ T!HoldsSlot(p) /\ ~T!HoldsSlot(p)'
    PROVE  SlotsOK' /\ inFlight' \in [total : Nat, perKey : [T!Keys -> Nat]]
    <1> DEFINE H == {q \in Logins : T!HoldsSlot(q)}
               H2 == {q \in Logins : T!HoldsSlot(q)'}
               K(k) == Holders(k)
               K2(k) == {q \in Logins : T!HoldsSlot(q)' /\ k \in T!KeysOf(q)'}
    <1>1. \A q \in Logins : q # p => /\ T!HoldsSlot(q)' <=> T!HoldsSlot(q)
                                     /\ T!KeysOf(q)' = T!KeysOf(q)
        BY OthersKeep
    <1>2. inFlight.total = Cardinality(H) /\ \A k \in T!Keys : inFlight.perKey[k] = Cardinality(K(k))
        BY DEF ThrottleInv, SlotsOK
    <1>3. IsFiniteSet(H) /\ Cardinality(H) \in Nat
          /\ \A k \in T!Keys : IsFiniteSet(K(k)) /\ Cardinality(K(k)) \in Nat
        BY FewRequests DEF Holders
    <1>4. \A k \in T!Keys : K2(k) = Holders(k)'
        BY DEF Holders
    <1>5. CASE T!Shift(p, 1) /\ ~T!HoldsSlot(p) /\ T!HoldsSlot(p)' /\ who'[p] = who[p]
        <2>1. H2 = H \cup {p} /\ p \notin H
            BY <1>1, <1>5
        <2>2. \A k \in T!Keys : /\ k \in T!KeysOf(p) => K2(k) = K(k) \cup {p} /\ p \notin K(k)
                                /\ k \notin T!KeysOf(p) => K2(k) = K(k)
            BY <1>1, <1>5 DEF Holders, T!KeysOf
        <2> HIDE DEF H, H2, K, K2
        <2>3. Cardinality(H2) = Cardinality(H) + 1
            BY <1>3, <2>1, FS_AddElement
        <2>4. \A k \in T!Keys : Cardinality(K2(k)) =
                 IF k \in T!KeysOf(p) THEN Cardinality(K(k)) + 1 ELSE Cardinality(K(k))
            <3> SUFFICES ASSUME NEW k \in T!Keys
                         PROVE  Cardinality(K2(k)) =
                                   IF k \in T!KeysOf(p) THEN Cardinality(K(k)) + 1 ELSE Cardinality(K(k))
                OBVIOUS
            <3>1. CASE k \in T!KeysOf(p)
                BY <1>3, <2>2, <3>1, FS_AddElement
            <3>2. CASE k \notin T!KeysOf(p)
                BY <2>2, <3>2
            <3> QED BY <3>1, <3>2
        <2>5. inFlight' = [total |-> inFlight.total + 1,
                 perKey |-> [k \in T!Keys |-> IF k \in T!KeysOf(p)
                                              THEN inFlight.perKey[k] + 1
                                              ELSE inFlight.perKey[k]]]
            BY <1>5 DEF T!Shift
        <2>6. inFlight'.total = Cardinality(H2)
              /\ \A k \in T!Keys : inFlight'.perKey[k] = Cardinality(K2(k))
            BY <1>2, <2>3, <2>4, <2>5
        <2>7. inFlight' \in [total : Nat, perKey : [T!Keys -> Nat]]
            BY <1>2, <1>3, <2>5
        <2>8. T!Keys' = T!Keys
            BY DEF T!Keys, T!AccountKeys
        <2> QED BY <1>4, <2>6, <2>7, <2>8 DEF SlotsOK, H2
    <1>6. CASE T!Shift(p, -1) /\ T!HoldsSlot(p) /\ ~T!HoldsSlot(p)'
        <2>1. H2 = H \ {p} /\ p \in H
            BY <1>1, <1>6
        <2>2. \A k \in T!Keys : /\ k \in T!KeysOf(p) => K2(k) = K(k) \ {p} /\ p \in K(k)
                                /\ k \notin T!KeysOf(p) => K2(k) = K(k)
            BY <1>1, <1>6 DEF Holders
        <2> HIDE DEF H, H2, K, K2
        <2>3. Cardinality(H2) = Cardinality(H) - 1 /\ Cardinality(H2) \in Nat
            BY <1>3, <2>1, FS_RemoveElement, FS_CardinalityType
        <2>4. \A k \in T!Keys :
                 /\ Cardinality(K2(k)) \in Nat
                 /\ Cardinality(K2(k)) =
                       IF k \in T!KeysOf(p) THEN Cardinality(K(k)) - 1 ELSE Cardinality(K(k))
            <3> SUFFICES ASSUME NEW k \in T!Keys
                         PROVE  /\ Cardinality(K2(k)) \in Nat
                                /\ Cardinality(K2(k)) =
                                   IF k \in T!KeysOf(p) THEN Cardinality(K(k)) - 1 ELSE Cardinality(K(k))
                OBVIOUS
            <3>1. CASE k \in T!KeysOf(p)
                BY <1>3, <2>2, <3>1, FS_RemoveElement, FS_CardinalityType
            <3>2. CASE k \notin T!KeysOf(p)
                BY <1>3, <2>2, <3>2
            <3> QED BY <3>1, <3>2
        <2>5. inFlight' = [total |-> inFlight.total + (-1),
                 perKey |-> [k \in T!Keys |-> IF k \in T!KeysOf(p)
                                              THEN inFlight.perKey[k] + (-1)
                                              ELSE inFlight.perKey[k]]]
            BY <1>6 DEF T!Shift
        <2>6. inFlight'.total = Cardinality(H2)
              /\ \A k \in T!Keys : inFlight'.perKey[k] = Cardinality(K2(k))
            BY <1>2, <1>3, <2>3, <2>4, <2>5
        <2>7. inFlight' \in [total : Nat, perKey : [T!Keys -> Nat]]
            <3>1. inFlight.total + (-1) \in Nat
                BY <1>2, <1>3, <2>3
            <3>2. \A k \in T!Keys : (IF k \in T!KeysOf(p) THEN inFlight.perKey[k] + (-1)
                                     ELSE inFlight.perKey[k]) \in Nat
                BY <1>2, <1>3, <2>4
            <3> QED BY <2>5, <3>1, <3>2
        <2>8. T!Keys' = T!Keys
            BY DEF T!Keys, T!AccountKeys
        <2> QED BY <1>4, <2>6, <2>7, <2>8 DEF SlotsOK, H2
    <1> QED BY <1>5, <1>6

LEMMA OneMore ==
    ASSUME NEW A, IsFiniteSet(A), NEW x, NEW B, B \subseteq A \cup {x}
    PROVE  /\ IsFiniteSet(B) /\ Cardinality(B) \in Nat
           /\ Cardinality(A) \in Nat /\ Cardinality(B) <= Cardinality(A) + 1
    <1>1. Cardinality(A) \in Nat
        BY FS_CardinalityType
    <1>2. CASE x \in A
        <2>1. B \subseteq A
            BY <1>2
        <2> QED BY <1>1, <2>1, FS_Subset, FS_CardinalityType
    <1>3. CASE x \notin A
        <2> DEFINE G == A \cup {x}
        <2>1. B \subseteq G
            OBVIOUS
        <2>2. IsFiniteSet(G) /\ Cardinality(G) = Cardinality(A) + 1
            BY <1>3, FS_AddElement
        <2> HIDE DEF G
        <2>3. IsFiniteSet(B) /\ Cardinality(B) <= Cardinality(G) /\ Cardinality(B) \in Nat
            BY <2>1, <2>2, FS_Subset, FS_CardinalityType
        <2> QED BY <1>1, <2>2, <2>3
    <1> QED BY <1>2, <1>3

\* A stale record has no recent failure: what a reservation counts is enough.
LEMMA RecentAreLive ==
    ASSUME ThrottleTypes, NEW k \in T!Keys, StreakOK(k)
    PROVE  /\ Cardinality(Recent(k)) <= T!LiveFailures(k) /\ T!LiveFailures(k) \in Nat
           /\ ~T!Fresh(k) => Recent(k) = {}
    <1>1. loginNow \in Nat /\ failures[k].last \in Nat /\ failures[k].count \in Nat
          /\ Lockout \in Nat
        BY ThrottleIs DEF ThrottleTypes
    <1>2. ASSUME ~T!Fresh(k), NEW f \in Recent(k) PROVE FALSE
        <2>1. f.begun \in Nat /\ loginNow < f.begun + Lockout /\ f.begun <= failures[k].last
            BY DEF Recent, StreakOK, ThrottleTypes
        <2>2. ~(loginNow - failures[k].last < Lockout)
            BY <1>2 DEF T!Fresh
        <2> QED BY <1>1, <2>1, <2>2
    <1>3. ~T!Fresh(k) => Recent(k) = {}
        BY <1>2
    <1>4. CASE T!Fresh(k)
        <2>1. T!LiveFailures(k) = failures[k].count
            BY <1>4 DEF T!LiveFailures
        <2>2. Cardinality(Recent(k)) <= failures[k].count
            BY DEF StreakOK
        <2> QED BY <1>1, <1>4, <2>1, <2>2
    <1>5. CASE ~T!Fresh(k)
        <2>1. T!LiveFailures(k) = 0
            BY <1>5 DEF T!LiveFailures
        <2>2. Cardinality(Recent(k)) = 0
            BY <1>3, <1>5, FS_EmptySet
        <2> QED BY <1>3, <2>1, <2>2
    <1> QED BY <1>4, <1>5

LEMMA AwaitedHold ==
    ASSUME ThrottleInv, NEW k \in T!Keys
    PROVE  /\ IsFiniteSet(Awaited(k)) /\ Cardinality(Awaited(k)) \in Nat
           /\ Cardinality(Awaited(k)) <= inFlight.perKey[k]
           /\ inFlight.perKey[k] \in Nat
    <1> DEFINE A == Awaited(k)
               H == Holders(k)
    <1>1. A \subseteq H
        BY DEF Awaited, Holders, T!Pending, T!HoldsSlot
    <1>2. IsFiniteSet(H) /\ Cardinality(H) \in Nat /\ IsFiniteSet(A) /\ Cardinality(A) \in Nat
        BY FewRequests DEF Holders, Awaited
    <1>3. inFlight.perKey[k] = Cardinality(H)
        BY DEF ThrottleInv, SlotsOK
    <1>4. Cardinality(A) <= Cardinality(H)
        <2> HIDE DEF A, H
        <2> QED BY <1>1, <1>2, FS_Subset
    <1> QED BY <1>2, <1>3, <1>4

LEMMA ReserveInv == ASSUME ThrottleInv, NEW p \in Logins, T!Reserve(p) PROVE ThrottleInv'
    <1>1. /\ phase[p] = "counting" /\ who[p] \in T!AccountKeys
          /\ UNCHANGED <<loginNow, failures, failed>>
        BY DEF T!Reserve, ThrottleInv, ThrottleTypes
    <1>2. CASE T!Busy(p)
        <2>1. /\ phase' = [phase EXCEPT ![p] = "idle"]
              /\ who' = [who EXCEPT ![p] = Nobody] /\ start' = [start EXCEPT ![p] = 0]
              /\ inFlight' = inFlight
            BY <1>2 DEF T!Reserve, T!Leave, T!GoTo
        <2>2. phase'[p] = "idle"
            BY <2>1 DEF ThrottleInv, ThrottleTypes
        <2>3. Moves(p)
            BY <1>1, <2>1 DEF Moves, ThrottleInv, ThrottleTypes, Phases
        <2>4. ~T!HoldsSlot(p) /\ ~T!HoldsSlot(p)' /\ \A j : ~T!Pending(p, j)'
            BY <1>1, <2>2 DEF T!HoldsSlot, T!Pending
        <2>5. SlotsOK'
            BY <2>1, <2>3, <2>4, SlotsStay
        <2> QED BY <1>1, <2>1, <2>3, <2>4, <2>5, QuietInv DEF ThrottleInv, ThrottleTypes
    <1>3. CASE ~T!Busy(p)
        <2>1. /\ phase' = [phase EXCEPT ![p] = "verifying"] /\ who' = who
              /\ start' = [start EXCEPT ![p] = loginNow] /\ T!Shift(p, 1)
            BY <1>3 DEF T!Reserve, T!GoTo
        <2>2. phase'[p] = "verifying"
            BY <2>1 DEF ThrottleInv, ThrottleTypes
        <2>3. Moves(p)
            BY <1>1, <2>1 DEF Moves, ThrottleInv, ThrottleTypes, Phases
        <2>4. ~T!HoldsSlot(p) /\ T!HoldsSlot(p)'
            BY <1>1, <2>2 DEF T!HoldsSlot
        <2>5. SlotsOK' /\ inFlight' \in [total : Nat, perKey : [T!Keys -> Nat]]
            BY <1>1, <2>1, <2>3, <2>4, SlotMoves
        <2>6. ASSUME NEW k \in T!Keys PROVE StreakOK(k)' /\ BoundOK(k)'
            <3>1. StreakOK(k)' /\ Recent(k)' = Recent(k) /\ T!Threshold(k)' = T!Threshold(k)
                BY <1>1, RecordStays DEF ThrottleInv, T!Threshold
            <3>2. CASE k \notin T!KeysOf(p)
                <4>1. ~T!Pending(p, k)'
                    BY <2>1, <3>2 DEF T!Pending, T!KeysOf
                <4>2. Awaited(k)' \subseteq Awaited(k)
                    BY <2>3, <4>1, AwaitedShrinks
                <4> QED BY <3>1, <4>2, BoundShrinks
            <3>3. CASE k \in T!KeysOf(p)
                <4> DEFINE A == Awaited(k)
                           A2 == Awaited(k)'
                           r == Cardinality(Recent(k))
                <4>1. T!LiveFailures(k) + inFlight.perKey[k] < T!Threshold(k)
                    <5>1. ~(T!LiveFailures(k) + inFlight.perKey[k] >= T!Threshold(k))
                        BY <1>3, <3>3 DEF T!Busy
                    <5> QED BY <5>1, RecentAreLive, AwaitedHold, ThrottleIs DEF ThrottleInv
                <4>2. A2 \subseteq A \cup {p}
                    <5> SUFFICES ASSUME NEW q \in Logins, q # p, T!Pending(q, k)',
                                        loginNow' < start'[q] + Lockout
                                 PROVE  T!Pending(q, k) /\ loginNow < start[q] + Lockout
                        BY DEF Awaited
                    <5> QED BY <1>1, <2>3, OthersKeep
                <4>3. IsFiniteSet(A) /\ Cardinality(A) \in Nat /\ Cardinality(A) <= inFlight.perKey[k]
                      /\ inFlight.perKey[k] \in Nat
                    BY AwaitedHold
                <4>4. Cardinality(A2) \in Nat /\ Cardinality(A2) <= Cardinality(A) + 1
                    <5> HIDE DEF A, A2
                    <5> QED BY <4>2, <4>3, OneMore
                <4>5. r \in Nat /\ r <= T!LiveFailures(k) /\ T!LiveFailures(k) \in Nat
                    BY RecentAreLive, FewFailures DEF ThrottleInv
                <4>6. T!Threshold(k) \in Nat
                    BY ThrottleIs
                <4> HIDE DEF A, A2, r
                <4>7. Cardinality(A2) + r <= T!Threshold(k)
                    BY <4>1, <4>3, <4>4, <4>5, <4>6
                <4> QED BY <3>1, <4>7 DEF BoundOK, A2, r
            <3> QED BY <3>2, <3>3
        <2>7. ThrottleTypes'
            <3>1. T!Keys' = T!Keys /\ T!AccountKeys' = T!AccountKeys
                BY DEF T!Keys, T!AccountKeys
            <3>2. \A q \in Logins : start'[q] <= loginNow' /\ (phase'[q] # "idle" => who'[q] \in T!AccountKeys)
                BY <1>1, <2>3 DEF Moves, ThrottleInv, ThrottleTypes
            <3> QED BY <1>1, <2>3, <2>5, <3>1, <3>2 DEF ThrottleInv, ThrottleTypes, Moves
        <2>8. T!Keys' = T!Keys
            BY DEF T!Keys, T!AccountKeys
        <2> QED BY <2>5, <2>6, <2>7, <2>8 DEF ThrottleInv
    <1> QED BY <1>2, <1>3

LEMMA DropInv == ASSUME ThrottleInv, NEW p \in Logins, T!Drop(p) PROVE ThrottleInv'
    <1>1. /\ phase[p] \in {"release", "verifying"} /\ who[p] \in T!AccountKeys
          /\ phase' = [phase EXCEPT ![p] = "idle"]
          /\ who' = [who EXCEPT ![p] = Nobody] /\ start' = [start EXCEPT ![p] = 0]
          /\ T!Shift(p, -1)
          /\ UNCHANGED <<loginNow, failures, failed>>
        BY DEF T!Drop, T!Leave, T!GoTo, ThrottleInv, ThrottleTypes
    <1>2. phase'[p] = "idle"
        BY <1>1 DEF ThrottleInv, ThrottleTypes
    <1>3. Moves(p)
        BY <1>1 DEF Moves, ThrottleInv, ThrottleTypes, Phases
    <1>4. T!HoldsSlot(p) /\ ~T!HoldsSlot(p)' /\ \A j : ~T!Pending(p, j)'
        BY <1>1, <1>2 DEF T!HoldsSlot, T!Pending
    <1>5. SlotsOK' /\ inFlight' \in [total : Nat, perKey : [T!Keys -> Nat]]
        BY <1>1, <1>3, <1>4, SlotMoves
    <1> QED BY <1>1, <1>3, <1>4, <1>5, QuietInv

\* What record_failure leaves: a lock that has run out is of a stale streak.
LEMMA RecordedIs ==
    ASSUME ThrottleTypes, NEW k \in T!Keys, StreakOK(k)
    PROVE  /\ T!Recorded(k) \in [count : Nat, until : Nat, last : Nat]
           /\ T!Recorded(k).last = loginNow
           /\ T!Recorded(k).until # 0 =>
                 /\ T!Recorded(k).until = loginNow + Lockout
                 /\ T!Recorded(k).count >= T!Threshold(k)
           /\ Cardinality(Recent(k)) + 1 <= T!Recorded(k).count
    <1> DEFINE o == failures[k]
               lock == T!LockedOut(k)
               fresh == T!Fresh(k)
               restart == (o.until # 0 /\ ~lock) \/ ~fresh
               n == IF restart THEN 1 ELSE o.count + 1
               u == IF n >= T!Threshold(k) THEN loginNow + Lockout
                    ELSE IF restart THEN 0 ELSE o.until
               r == Cardinality(Recent(k))
    <1>1. T!Recorded(k) = [count |-> n, last |-> loginNow, until |-> u]
        BY DEF T!Recorded
    <1>2. loginNow \in Nat /\ o.last \in Nat /\ o.count \in Nat /\ o.until \in Nat
          /\ Lockout \in Nat \ {0} /\ T!Threshold(k) \in Nat \ {0}
        BY ThrottleIs DEF ThrottleTypes
    <1>3. r \in Nat /\ r <= o.count /\ (~fresh => r = 0)
        <2>1. ~fresh => Recent(k) = {}
            BY RecentAreLive
        <2>2. r \in Nat /\ r <= o.count
            BY FewFailures DEF StreakOK
        <2> QED BY <2>1, <2>2, FS_EmptySet
    <1>4. lock <=> o.until > loginNow
        BY DEF T!LockedOut
    <1>5. fresh <=> loginNow - o.last < Lockout
        BY DEF T!Fresh
    <1>6. o.until # 0 => o.until = o.last + Lockout /\ o.count >= T!Threshold(k)
        BY DEF StreakOK
    <1> HIDE DEF o, lock, fresh, r
    <1>7. restart => ~fresh
        BY <1>2, <1>4, <1>5, <1>6
    <1>8. n \in Nat /\ r + 1 <= n
        BY <1>2, <1>3, <1>7
    <1>9. u \in Nat /\ (u # 0 => u = loginNow + Lockout /\ n >= T!Threshold(k))
        <2>1. CASE n >= T!Threshold(k)
            BY <1>2, <2>1
        <2>2. CASE ~(n >= T!Threshold(k)) /\ restart
            BY <2>2
        <2>3. CASE ~(n >= T!Threshold(k)) /\ ~restart
            <3>1. u = o.until /\ n = o.count + 1
                BY <2>3
            <3>2. ~(o.count >= T!Threshold(k))
                BY <1>2, <2>3, <3>1
            <3> QED BY <1>2, <1>6, <3>1, <3>2
        <2> QED BY <2>1, <2>2, <2>3
    <1> HIDE DEF n, u
    <1> QED BY <1>1, <1>2, <1>8, <1>9 DEF r

\* The numbers of the failures that began together stay below their count.
LEMMA FailureIsNew ==
    ASSUME ThrottleTypes, NEW p \in Logins, NEW k \in T!Keys, StreakOK(k),
           failed'[k] = failed[k] \cup {T!Failure(p, k)}
    PROVE  /\ T!Failure(p, k) \in [begun : Nat, nth : Nat]
           /\ T!Failure(p, k).begun = start[p]
           /\ IsFiniteSet(failed'[k])
           /\ \A f \in failed'[k] : f.nth < Cardinality(T!FailedAt(k, f.begun)')
    <1> DEFINE F0 == T!FailedAt(k, start[p])
               e == T!Failure(p, k)
    <1>1. \A t : IsFiniteSet(T!FailedAt(k, t)) /\ Cardinality(T!FailedAt(k, t)) \in Nat
        <2> SUFFICES ASSUME NEW t
                     PROVE  IsFiniteSet(T!FailedAt(k, t)) /\ Cardinality(T!FailedAt(k, t)) \in Nat
            OBVIOUS
        <2>1. T!FailedAt(k, t) \subseteq failed[k]
            BY DEF T!FailedAt
        <2> QED BY <2>1, FS_Subset, FS_CardinalityType DEF StreakOK
    <1>2. e = [begun |-> start[p], nth |-> Cardinality(F0)]
        BY SameLoginSizes DEF T!Failure
    <1>3. e \in [begun : Nat, nth : Nat] /\ e.begun = start[p] /\ e.nth = Cardinality(F0)
        BY <1>1, <1>2 DEF ThrottleTypes
    <1>4. IsFiniteSet(failed'[k])
        BY FS_AddElement DEF StreakOK
    <1>5. e \notin F0
        <2> SUFFICES ASSUME e \in F0 PROVE FALSE
            OBVIOUS
        <2>1. e \in failed[k]
            BY DEF T!FailedAt
        <2>2. e.nth < Cardinality(F0)
            BY <1>3, <2>1 DEF StreakOK
        <2> QED BY <1>1, <1>3, <2>2
    <1>6. T!FailedAt(k, start[p])' = {f \in failed'[k] : f.begun = start'[p]}
        BY DEF T!FailedAt
    <1>7. ASSUME NEW f \in failed'[k] PROVE f.nth < Cardinality(T!FailedAt(k, f.begun)')
        <2> DEFINE t == f.begun
                   New == {g \in failed'[k] : g.begun = t}
                   Old == T!FailedAt(k, t)
        <2>1. T!FailedAt(k, f.begun)' = {g \in failed'[k] : g.begun = f.begun}
            BY DEF T!FailedAt
        <2>2. CASE t = start[p]
            <3>1. Old = F0
                BY <2>2
            <3>2. New = F0 \cup {e}
                BY <1>3, <2>2 DEF T!FailedAt
            <3>3. Cardinality(New) = Cardinality(F0) + 1
                <4> HIDE DEF New, F0, e
                <4> QED BY <1>1, <1>5, <3>2, FS_AddElement DEF F0
            <3>4. f.nth <= Cardinality(F0) /\ f.nth \in Nat
                <4>1. CASE f = e
                    BY <1>1, <1>3, <4>1
                <4>2. CASE f \in failed[k]
                    <5>1. f.nth < Cardinality(T!FailedAt(k, f.begun)) /\ f.nth \in Nat
                        BY <4>2 DEF StreakOK, ThrottleTypes
                    <5>2. T!FailedAt(k, f.begun) = F0
                        BY <2>2
                    <5> QED BY <1>1, <5>1, <5>2
                <4> QED BY <4>1, <4>2
            <3>5. Cardinality(F0) \in Nat
                BY <1>1
            <3>6. f.nth < Cardinality(New)
                BY <3>3, <3>4, <3>5
            <3> QED BY <2>1, <3>6
        <2>3. CASE t # start[p]
            <3>1. f \in failed[k]
                BY <1>3, <2>3
            <3>2. New = Old
                BY <1>3, <2>3 DEF T!FailedAt
            <3>3. f.nth < Cardinality(Old)
                BY <3>1 DEF StreakOK
            <3> QED BY <2>1, <3>2, <3>3
        <2> QED BY <2>2, <2>3
    <1> QED BY <1>3, <1>4, <1>7

\* One verification less is awaited, and at most one failure more is recent.
LEMMA CountedNow ==
    ASSUME ThrottleInv, NEW p \in Logins, NEW k \in T!Keys, Moves(p), start'[p] = start[p],
           T!Pending(p, k), ~T!Pending(p, k)',
           failed'[k] = failed[k] \cup {T!Failure(p, k)}
    PROVE  BoundOK(k)' /\ Recent(k)' \subseteq Recent(k) \cup {T!Failure(p, k)}
    <1> DEFINE A == Awaited(k)
               A2 == Awaited(k)'
               R1 == Recent(k)
               R2 == Recent(k)'
               e == T!Failure(p, k)
    <1>1. e.begun = start[p] /\ start[p] \in Nat /\ loginNow \in Nat /\ Lockout \in Nat
        BY FailureIsNew, ThrottleIs DEF ThrottleInv, ThrottleTypes
    <1>2. R2 \subseteq R1 \cup {e}
        BY DEF Recent, Moves
    <1>3. A2 \subseteq A
        BY AwaitedShrinks
    <1>4. CASE ~(loginNow < start[p] + Lockout)
        <2>1. e \notin R2
            BY <1>1, <1>4 DEF Recent, Moves
        <2>2. R2 \subseteq R1
            BY <1>2, <2>1
        <2> QED BY <1>2, <1>3, <2>2, BoundShrinks
    <1>5. CASE loginNow < start[p] + Lockout
        <2>1. p \in A /\ p \notin A2
            BY <1>5 DEF Awaited
        <2>2. A2 \subseteq A \ {p}
            BY <1>3, <2>1
        <2>3. IsFiniteSet(A) /\ Cardinality(A) \in Nat
            BY AwaitedHold
        <2>4. IsFiniteSet(R1) /\ Cardinality(R1) \in Nat
            BY FewFailures DEF ThrottleInv
        <2>5. Cardinality(A) + Cardinality(R1) <= T!Threshold(k) /\ T!Threshold(k) \in Nat
            BY ThrottleIs DEF ThrottleInv, BoundOK
        <2>6. T!Threshold(k)' = T!Threshold(k)
            BY DEF T!Threshold
        <2> HIDE DEF A, A2, R1, R2, e
        <2>7. Cardinality(A2) \in Nat /\ Cardinality(A2) <= Cardinality(A) - 1
            <3> DEFINE Rest == A \ {p}
            <3>1. IsFiniteSet(Rest) /\ Cardinality(Rest) = Cardinality(A) - 1 /\ A2 \subseteq Rest
                BY <2>1, <2>2, <2>3, FS_RemoveElement
            <3> HIDE DEF Rest
            <3>2. Cardinality(A2) \in Nat /\ Cardinality(A2) <= Cardinality(Rest)
                BY <3>1, FS_Subset, FS_CardinalityType
            <3> QED BY <2>3, <3>1, <3>2
        <2>8. Cardinality(R2) \in Nat /\ Cardinality(R2) <= Cardinality(R1) + 1
            BY <1>2, <2>4, OneMore
        <2>9. Cardinality(A2) + Cardinality(R2) <= T!Threshold(k)
            BY <2>3, <2>4, <2>5, <2>7, <2>8
        <2> QED BY <1>2, <2>6, <2>9 DEF BoundOK, A2, R1, R2, e
    <1> QED BY <1>4, <1>5

LEMMA RecordFailureInv ==
    ASSUME ThrottleInv, NEW p \in Logins, NEW k \in T!Keys, Moves(p), T!RecordFailure(p, k),
           start'[p] = start[p], who'[p] = who[p], inFlight' = inFlight,
           T!HoldsSlot(p), T!HoldsSlot(p)', T!Pending(p, k), ~T!Pending(p, k)',
           \A j \in T!Keys : T!Pending(p, j)' => T!Pending(p, j)
    PROVE  ThrottleInv'
    <1>1. /\ failures' = [j \in T!Keys |-> IF j = k THEN T!Recorded(k)
                                           ELSE IF T!Live(j) THEN failures[j] ELSE T!Clear]
          /\ failed' = [failed EXCEPT ![k] = @ \cup {T!Failure(p, k)}]
        BY DEF T!RecordFailure
    <1>2. failed'[k] = failed[k] \cup {T!Failure(p, k)} /\ \A j \in T!Keys \ {k} : failed'[j] = failed[j]
        BY <1>1 DEF ThrottleInv, ThrottleTypes
    <1>3. \A j \in T!Keys : Awaited(j)' \subseteq Awaited(j)
        BY AwaitedShrinks
    <1>4. loginNow \in Nat /\ loginNow' = loginNow
        BY DEF Moves, ThrottleInv, ThrottleTypes
    <1>5. ASSUME NEW j \in T!Keys, j # k PROVE StreakOK(j)' /\ BoundOK(j)'
        <2>1. failed'[j] = failed[j] /\ failures'[j] = IF T!Live(j) THEN failures[j] ELSE T!Clear
            BY <1>1, <1>2, <1>5
        <2>2. CASE T!Live(j)
            <3>1. StreakOK(j)' /\ Recent(j)' = Recent(j)
                BY <1>4, <2>1, <2>2, RecordStays DEF ThrottleInv
            <3> QED BY <1>3, <3>1, BoundShrinks
        <2>3. CASE ~T!Live(j)
            <3>1. Recent(j) = {}
                BY <2>3, RecentAreLive DEF T!Live, ThrottleInv
            <3>2. Recent(j)' = {}
                BY <1>4, <2>1, <3>1 DEF Recent
            <3>3. BoundOK(j)'
                BY <1>3, <3>2, BoundShrinks
            <3>4. failures'[j].last = 0 /\ failures'[j].until = 0 /\ failures'[j].count = 0
                BY <2>1, <2>3 DEF T!Clear
            <3>5. Cardinality(Recent(j)') = 0
                BY <3>2, FS_EmptySet
            <3>6. IsFiniteSet(failed'[j])
                BY <2>1 DEF ThrottleInv, StreakOK
            <3>7. \A f \in failed'[j] : f.nth < Cardinality(T!FailedAt(j, f.begun)')
                <4>1. \A t : T!FailedAt(j, t)' = T!FailedAt(j, t)
                    BY <2>1 DEF T!FailedAt
                <4> QED BY <2>1, <4>1 DEF ThrottleInv, StreakOK
            <3> QED BY <1>4, <3>2, <3>3, <3>4, <3>5, <3>6, <3>7 DEF StreakOK
        <2> QED BY <2>2, <2>3
    <1>6. StreakOK(k)' /\ BoundOK(k)'
        <2> DEFINE e == T!Failure(p, k)
                   R1 == Recent(k)
                   R2 == Recent(k)'
        <2>1. failures'[k] = T!Recorded(k)
            BY <1>1
        <2>2. BoundOK(k)' /\ R2 \subseteq R1 \cup {e}
            BY <1>2, CountedNow
        <2>3. /\ T!Recorded(k) \in [count : Nat, until : Nat, last : Nat]
              /\ T!Recorded(k).last = loginNow
              /\ T!Recorded(k).until # 0 =>
                    /\ T!Recorded(k).until = loginNow + Lockout
                    /\ T!Recorded(k).count >= T!Threshold(k)
              /\ Cardinality(R1) + 1 <= T!Recorded(k).count
            BY RecordedIs DEF ThrottleInv
        <2>4. /\ e.begun = start[p] /\ IsFiniteSet(failed'[k])
              /\ \A f \in failed'[k] : f.nth < Cardinality(T!FailedAt(k, f.begun)')
            BY <1>2, FailureIsNew DEF ThrottleInv
        <2>5. ASSUME NEW f \in R2 PROVE f.begun <= loginNow
            <3>1. CASE f = e
                BY <2>4, <3>1 DEF ThrottleInv, ThrottleTypes
            <3>2. CASE f \in R1
                <4>1. f.begun <= failures[k].last /\ failures[k].last <= loginNow /\ f.begun \in Nat
                    <5>1. f.begun <= failures[k].last /\ failures[k].last <= loginNow
                        BY <3>2 DEF ThrottleInv, StreakOK
                    <5>2. f.begun \in Nat
                        BY <3>2 DEF ThrottleInv, Recent, ThrottleTypes
                    <5> QED BY <5>1, <5>2
                <4>2. failures[k].last \in Nat
                    BY DEF ThrottleInv, ThrottleTypes
                <4> QED BY <1>4, <4>1, <4>2
            <3> QED BY <2>2, <3>1, <3>2
        <2>6. Cardinality(R2) <= T!Recorded(k).count
            <3>1. IsFiniteSet(R1) /\ Cardinality(R1) \in Nat
                BY FewFailures DEF ThrottleInv
            <3> HIDE DEF R1, R2, e
            <3>2. Cardinality(R2) \in Nat /\ Cardinality(R2) <= Cardinality(R1) + 1
                BY <2>2, <3>1, OneMore
            <3> QED BY <2>3, <3>1, <3>2
        <2>7. T!Threshold(k)' = T!Threshold(k)
            BY DEF T!Threshold
        <2>8. StreakOK(k)'
            BY <1>4, <2>1, <2>3, <2>4, <2>5, <2>6, <2>7 DEF StreakOK
        <2> QED BY <2>2, <2>8
    <1>7. SlotsOK'
        BY SlotsStay
    <1>8. ThrottleTypes'
        <2>1. T!Keys' = T!Keys /\ T!AccountKeys' = T!AccountKeys
            BY DEF T!Keys, T!AccountKeys
        <2>2. \A q \in Logins : start'[q] <= loginNow' /\ (phase'[q] # "idle" => who'[q] \in T!AccountKeys)
            BY DEF Moves, ThrottleInv, ThrottleTypes
        <2>3. T!Recorded(k) \in [count : Nat, until : Nat, last : Nat]
            BY RecordedIs DEF ThrottleInv
        <2>4. failures' \in [T!Keys -> [count : Nat, until : Nat, last : Nat]]
            BY <1>1, <2>3 DEF ThrottleInv, ThrottleTypes, T!Clear
        <2>5. T!Failure(p, k) \in [begun : Nat, nth : Nat]
            BY <1>2, FailureIsNew DEF ThrottleInv
        <2>6. failed' \in [T!Keys -> SUBSET [begun : Nat, nth : Nat]]
            BY <1>1, <2>5 DEF ThrottleInv, ThrottleTypes
        <2> QED BY <2>1, <2>2, <2>4, <2>6 DEF ThrottleInv, ThrottleTypes, Moves
    <1>9. T!Keys' = T!Keys
        BY DEF T!Keys, T!AccountKeys
    <1> QED BY <1>5, <1>6, <1>7, <1>8, <1>9 DEF ThrottleInv

LEMMA RejectInv ==
    ASSUME ThrottleInv, NEW p \in Logins, T!RejectAccount(p) \/ T!RejectIp(p)
    PROVE  ThrottleInv'
    <1> DEFINE a == who[p]
    <1>1. UNCHANGED <<loginNow, inFlight, who, start>>
        BY DEF T!RejectAccount, T!RejectIp
    <1>2. CASE T!RejectAccount(p)
        <2>1. phase[p] = "reject" /\ T!RecordFailure(p, a) /\ phase' = [phase EXCEPT ![p] = "rejectIp"]
            BY <1>2 DEF T!RejectAccount, T!GoTo
        <2>2. phase'[p] = "rejectIp" /\ a \in T!AccountKeys
            BY <2>1 DEF ThrottleInv, ThrottleTypes
        <2>3. a \in T!Keys /\ a \notin Ips
            BY <2>2, ThrottleIs
        <2>4. Moves(p)
            BY <1>1, <2>1, <2>2 DEF Moves, ThrottleInv, ThrottleTypes, Phases
        <2>5. /\ T!HoldsSlot(p) /\ T!HoldsSlot(p)' /\ T!Pending(p, a) /\ ~T!Pending(p, a)'
              /\ \A j \in T!Keys : T!Pending(p, j)' => T!Pending(p, j)
            BY <1>1, <2>1, <2>2, <2>3 DEF T!HoldsSlot, T!Pending, T!KeysOf
        <2> QED BY <1>1, <2>1, <2>3, <2>4, <2>5, RecordFailureInv
    <1>3. CASE T!RejectIp(p)
        <2>1. phase[p] = "rejectIp" /\ T!RecordFailure(p, a[1]) /\ phase' = [phase EXCEPT ![p] = "release"]
            BY <1>3 DEF T!RejectIp, T!GoTo
        <2>2. phase'[p] = "release" /\ a \in T!AccountKeys
            BY <2>1 DEF ThrottleInv, ThrottleTypes
        <2>3. a[1] \in T!Keys /\ a[1] \in Ips
            BY <2>2, ThrottleIs
        <2>4. Moves(p)
            BY <1>1, <2>1, <2>2 DEF Moves, ThrottleInv, ThrottleTypes, Phases
        <2>5. /\ T!HoldsSlot(p) /\ T!HoldsSlot(p)' /\ T!Pending(p, a[1]) /\ \A j : ~T!Pending(p, j)'
            BY <1>1, <2>1, <2>2, <2>3 DEF T!HoldsSlot, T!Pending, T!KeysOf
        <2> QED BY <1>1, <2>1, <2>3, <2>4, <2>5, RecordFailureInv
    <1> QED BY <1>2, <1>3

LEMMA ResetInv ==
    ASSUME ThrottleInv, NEW p \in Logins, NEW k \in T!Keys, Moves(p), T!ResetFailures(k),
           start'[p] = start[p], who'[p] = who[p], inFlight' = inFlight,
           T!HoldsSlot(p), T!HoldsSlot(p)', \A j : ~T!Pending(p, j)'
    PROVE  ThrottleInv'
    <1>1. /\ failures' = [failures EXCEPT ![k] = T!Clear] /\ failed' = [failed EXCEPT ![k] = {}]
        BY DEF T!ResetFailures
    <1>2. \A j \in T!Keys : Awaited(j)' \subseteq Awaited(j)
        BY AwaitedShrinks
    <1>3. loginNow \in Nat /\ loginNow' = loginNow
        BY DEF Moves, ThrottleInv, ThrottleTypes
    <1>4. ASSUME NEW j \in T!Keys, j # k PROVE StreakOK(j)' /\ BoundOK(j)'
        <2>1. failed'[j] = failed[j] /\ failures'[j] = failures[j]
            BY <1>1, <1>4 DEF ThrottleInv, ThrottleTypes
        <2>2. StreakOK(j)' /\ Recent(j)' = Recent(j)
            BY <1>3, <2>1, RecordStays DEF ThrottleInv
        <2> QED BY <1>2, <2>2, BoundShrinks
    <1>5. StreakOK(k)' /\ BoundOK(k)'
        <2>1. failed'[k] = {} /\ failures'[k] = T!Clear
            BY <1>1 DEF ThrottleInv, ThrottleTypes
        <2>2. Recent(k)' = {}
            BY <2>1 DEF Recent
        <2>3. BoundOK(k)'
            BY <1>2, <2>2, BoundShrinks
        <2>4. failures'[k].last = 0 /\ failures'[k].until = 0 /\ failures'[k].count = 0
            BY <2>1 DEF T!Clear
        <2>5. Cardinality(Recent(k)') = 0 /\ IsFiniteSet(failed'[k])
            BY <2>1, <2>2, FS_EmptySet
        <2> QED BY <1>3, <2>1, <2>2, <2>3, <2>4, <2>5 DEF StreakOK
    <1>6. SlotsOK'
        BY SlotsStay
    <1>7. ThrottleTypes'
        <2>1. T!Keys' = T!Keys /\ T!AccountKeys' = T!AccountKeys
            BY DEF T!Keys, T!AccountKeys
        <2>2. \A q \in Logins : start'[q] <= loginNow' /\ (phase'[q] # "idle" => who'[q] \in T!AccountKeys)
            BY DEF Moves, ThrottleInv, ThrottleTypes
        <2>3. failures' \in [T!Keys -> [count : Nat, until : Nat, last : Nat]]
            BY <1>1 DEF ThrottleInv, ThrottleTypes, T!Clear
        <2>4. failed' \in [T!Keys -> SUBSET [begun : Nat, nth : Nat]]
            BY <1>1 DEF ThrottleInv, ThrottleTypes
        <2> QED BY <2>1, <2>2, <2>3, <2>4 DEF ThrottleInv, ThrottleTypes, Moves
    <1>8. T!Keys' = T!Keys
        BY DEF T!Keys, T!AccountKeys
    <1> QED BY <1>4, <1>5, <1>6, <1>7, <1>8 DEF ThrottleInv

LEMMA ClearInv ==
    ASSUME ThrottleInv, NEW p \in Logins, T!ClearAccount(p) \/ T!ClearIp(p)
    PROVE  ThrottleInv'
    <1>1. UNCHANGED <<loginNow, inFlight, who, start>>
        BY DEF T!ClearAccount, T!ClearIp
    <1>2. PICK k \in {who[p], who[p][1]} :
             /\ phase[p] \in {"clear", "clearIp"} /\ T!ResetFailures(k)
             /\ \E x \in {"clearIp", "release"} : phase' = [phase EXCEPT ![p] = x]
        BY DEF T!ClearAccount, T!ClearIp, T!GoTo
    <1>3. phase'[p] \in {"clearIp", "release"} /\ who[p] \in T!AccountKeys
        BY <1>2 DEF ThrottleInv, ThrottleTypes
    <1>4. k \in T!Keys
        BY <1>3, ThrottleIs
    <1>5. Moves(p)
        BY <1>1, <1>2, <1>3 DEF Moves, ThrottleInv, ThrottleTypes, Phases
    <1>6. T!HoldsSlot(p) /\ T!HoldsSlot(p)' /\ \A j : ~T!Pending(p, j)'
        BY <1>2, <1>3 DEF T!HoldsSlot, T!Pending
    <1> QED BY <1>1, <1>2, <1>4, <1>5, <1>6, ResetInv

\* Time only makes failures and verifications old.
LEMMA LoginTickInv == ASSUME ThrottleInv, T!Tick PROVE ThrottleInv'
    <1>1. /\ loginNow' = loginNow + 1 /\ loginNow \in Nat
          /\ failed' = [k \in T!Keys |-> {f \in failed[k] : loginNow' < f.begun + Lockout}]
          /\ UNCHANGED <<failures, inFlight, phase, who, start>>
        BY DEF T!Tick, ThrottleInv, ThrottleTypes
    <1>2. \A q \in Logins : /\ T!HoldsSlot(q)' <=> T!HoldsSlot(q)
                            /\ T!KeysOf(q)' = T!KeysOf(q)
                            /\ \A k : T!Pending(q, k)' <=> T!Pending(q, k)
        BY <1>1 DEF T!HoldsSlot, T!KeysOf, T!Pending
    <1>3. ASSUME NEW k \in T!Keys PROVE StreakOK(k)' /\ BoundOK(k)'
        <2> DEFINE R1 == Recent(k)
                   R2 == Recent(k)'
        <2>1. Awaited(k)' \subseteq Awaited(k)
            BY <1>1, <1>2, ThrottleIs DEF Awaited, ThrottleInv, ThrottleTypes
        <2>2. failed'[k] \subseteq failed[k] /\ failed[k] \subseteq [begun : Nat, nth : Nat]
            BY <1>1 DEF ThrottleInv, ThrottleTypes
        <2>3. R2 \subseteq R1
            <3> SUFFICES ASSUME NEW f \in failed'[k], loginNow' < f.begun + Lockout
                         PROVE  f \in failed[k] /\ loginNow < f.begun + Lockout
                BY DEF Recent
            <3>1. f \in failed[k] /\ f.begun \in Nat
                BY <2>2
            <3> QED BY <1>1, <3>1, ThrottleIs
        <2>4. BoundOK(k)'
            BY <2>1, <2>3, BoundShrinks
        <2>5. IsFiniteSet(R1) /\ Cardinality(R1) \in Nat /\ Cardinality(R1) <= failures[k].count
              /\ failures[k].count \in Nat /\ failures[k].last \in Nat /\ failures[k].last <= loginNow
            BY FewFailures DEF ThrottleInv, StreakOK, ThrottleTypes
        <2>6. Cardinality(R2) <= failures[k].count
            <3> HIDE DEF R1, R2
            <3>1. Cardinality(R2) <= Cardinality(R1) /\ Cardinality(R2) \in Nat
                BY <2>3, <2>5, FS_Subset, FS_CardinalityType
            <3> QED BY <2>5, <3>1
        <2>7. IsFiniteSet(failed'[k])
            BY <2>2, FS_Subset DEF ThrottleInv, StreakOK
        <2>8. ASSUME NEW f \in failed'[k] PROVE f.nth < Cardinality(T!FailedAt(k, f.begun)')
            <3>1. f \in failed[k] /\ loginNow' < f.begun + Lockout
                BY <1>1, <2>2
            <3>2. T!FailedAt(k, f.begun)' = {g \in failed'[k] : g.begun = f.begun}
                BY DEF T!FailedAt
            <3>3. {g \in failed'[k] : g.begun = f.begun} = {g \in failed[k] : g.begun = f.begun}
                BY <1>1, <2>2, <3>1
            <3>4. T!FailedAt(k, f.begun)' = T!FailedAt(k, f.begun)
                BY <3>2, <3>3 DEF T!FailedAt
            <3> QED BY <3>1, <3>4 DEF ThrottleInv, StreakOK
        <2>9. T!Threshold(k)' = T!Threshold(k)
            BY DEF T!Threshold
        <2>10. \A f \in R2 : f.begun <= failures[k].last
            BY <2>3 DEF ThrottleInv, StreakOK
        <2>11. StreakOK(k)'
            <3>1. failures[k].last <= loginNow' /\ failures' = failures
                BY <1>1, <2>5
            <3>2. failures[k].until # 0 =>
                     failures[k].until = failures[k].last + Lockout /\ failures[k].count >= T!Threshold(k)
                BY DEF ThrottleInv, StreakOK
            <3> QED BY <2>6, <2>7, <2>8, <2>9, <2>10, <3>1, <3>2 DEF StreakOK
        <2> QED BY <2>4, <2>11
    <1>4. T!Keys' = T!Keys /\ T!AccountKeys' = T!AccountKeys
        BY DEF T!Keys, T!AccountKeys
    <1>5. SlotsOK'
        <2>1. {q \in Logins : T!HoldsSlot(q)}' = {q \in Logins : T!HoldsSlot(q)}
            BY <1>2
        <2>2. \A k \in T!Keys : Holders(k)' = Holders(k)
            BY <1>2 DEF Holders
        <2> QED BY <1>1, <1>4, <2>1, <2>2 DEF SlotsOK, ThrottleInv
    <1>6. ThrottleTypes'
        <2>1. \A q \in Logins : start'[q] <= loginNow'
            BY <1>1 DEF ThrottleInv, ThrottleTypes
        <2>2. failed' \in [T!Keys -> SUBSET [begun : Nat, nth : Nat]]
            BY <1>1 DEF ThrottleInv, ThrottleTypes
        <2> QED BY <1>1, <1>4, <2>1, <2>2 DEF ThrottleInv, ThrottleTypes
    <1> QED BY <1>3, <1>4, <1>5, <1>6 DEF ThrottleInv

LEMMA ThrottleNext == ASSUME ThrottleInv, [T!Next]_T!vars PROVE ThrottleInv'
    <1>1. ASSUME NEW p \in Logins,
                 \/ T!CheckLocks(p) \/ T!Reserve(p) \/ T!Verified(p)
                 \/ T!RejectAccount(p) \/ T!RejectIp(p)
                 \/ T!ClearAccount(p) \/ T!ClearIp(p) \/ T!Drop(p)
          PROVE  ThrottleInv'
        BY <1>1, CheckLocksInv, ReserveInv, VerifiedInv, RejectInv, ClearInv, DropInv
    <1>2. CASE T!Tick
        BY <1>2, LoginTickInv
    <1>3. CASE UNCHANGED T!vars
        <2>1. UNCHANGED <<loginNow, failures, inFlight, phase, who, start, failed>>
            BY <1>3 DEF T!vars
        <2>2. \A q \in Logins : /\ T!HoldsSlot(q)' <=> T!HoldsSlot(q)
                                /\ T!KeysOf(q)' = T!KeysOf(q)
                                /\ \A k : T!Pending(q, k)' <=> T!Pending(q, k)
            BY <2>1 DEF T!HoldsSlot, T!KeysOf, T!Pending
        <2>3. T!Keys' = T!Keys /\ T!AccountKeys' = T!AccountKeys
            BY DEF T!Keys, T!AccountKeys
        <2>4. \A k \in T!Keys : StreakOK(k)' /\ BoundOK(k)'
            <3> SUFFICES ASSUME NEW k \in T!Keys PROVE StreakOK(k)' /\ BoundOK(k)'
                OBVIOUS
            <3>1. StreakOK(k)' /\ Recent(k)' = Recent(k)
                BY <2>1, RecordStays DEF ThrottleInv
            <3>2. Awaited(k)' \subseteq Awaited(k)
                BY <2>1, <2>2 DEF Awaited
            <3> QED BY <3>1, <3>2, BoundShrinks
        <2>5. SlotsOK'
            <3>1. {q \in Logins : T!HoldsSlot(q)}' = {q \in Logins : T!HoldsSlot(q)}
                BY <2>2
            <3>2. \A k \in T!Keys : Holders(k)' = Holders(k)
                BY <2>2 DEF Holders
            <3> QED BY <2>1, <2>3, <3>1, <3>2 DEF SlotsOK, ThrottleInv
        <2>6. ThrottleTypes'
            BY <2>1, <2>3 DEF ThrottleInv, ThrottleTypes
        <2> QED BY <2>3, <2>4, <2>5, <2>6 DEF ThrottleInv
    <1> QED BY <1>1, <1>2, <1>3 DEF T!Next

\* The invariant says what the throttle promises.
LEMMA ThrottleSound == ThrottleInv => T!ThrottleIsExact
    <1> SUFFICES ASSUME ThrottleInv PROVE T!ThrottleIsExact
        OBVIOUS
    <1>1. T!NeverMoreThanSequential
        <2> SUFFICES ASSUME NEW k \in T!Keys
                     PROVE  T!Cardinality({p \in Logins : T!Pending(p, k) /\ loginNow < start[p] + Lockout})
                              + T!Cardinality({f \in failed[k] : loginNow < f.begun + Lockout})
                                <= T!Threshold(k)
            BY DEF T!NeverMoreThanSequential
        <2>1. BoundOK(k)
            BY DEF ThrottleInv
        <2> QED BY <2>1, SameLoginSizes DEF BoundOK, Awaited, Recent
    <1>2. T!SlotsAreAccountedFor
        BY SameLoginSizes DEF ThrottleInv, SlotsOK, Holders, T!SlotsAreAccountedFor
    <1> QED BY <1>1, <1>2 DEF T!ThrottleIsExact

-----------------------------------------------------------------------------
(* The parts together: each keeps its invariant, moving or at rest.        *)

PartsInv == ThrottleInv /\ LimiterInv /\ CheckInv /\ FirewallInv

LEMMA RestingParts ==
    /\ ThrottleInv /\ UNCHANGED throttleVars => ThrottleInv'
    /\ LimiterInv /\ UNCHANGED limiterVars => LimiterInv'
    /\ CheckInv /\ UNCHANGED checkVars => CheckInv'
    /\ FirewallInv /\ UNCHANGED firewallVars => FirewallInv'
    <1>1. UNCHANGED limiterVars => UNCHANGED R!vars
        BY DEF limiterVars, R!vars
    <1>2. UNCHANGED checkVars => UNCHANGED C!vars
        BY DEF checkVars, C!vars
    <1>3. UNCHANGED firewallVars => UNCHANGED F!vars
        BY DEF firewallVars, F!vars, F!world, F!helperVars, F!callVars, F!bounds
    <1>4. UNCHANGED throttleVars => UNCHANGED T!vars
        BY DEF throttleVars, T!vars
    <1> QED BY <1>1, <1>2, <1>3, <1>4, LimiterNext, CheckNext, FirewallNext, ThrottleNext

LEMMA PartsInvHolds == PartsSpec => []PartsInv
    <1>1. PartsInit => PartsInv
        BY ThrottleInit, LimiterInit, CheckInit, FirewallInit DEF PartsInit, PartsInv
    <1>2. PartsInv /\ [PartsNext]_allVars => PartsInv'
        <2> SUFFICES ASSUME PartsInv, [PartsNext]_allVars PROVE PartsInv'
            OBVIOUS
        <2>1. /\ [T!Next]_throttleVars /\ [R!Next]_limiterVars
              /\ [C!Next]_checkVars /\ [F!Next]_firewallVars
            BY DEF PartsNext, allVars
        <2>2. R!Next => LimiterInv'
            BY LimiterNext DEF PartsInv
        <2>3. C!Next => CheckInv'
            BY CheckNext DEF PartsInv
        <2>4. F!Next => FirewallInv'
            BY FirewallNext DEF PartsInv
        <2>5. T!Next => ThrottleInv'
            BY ThrottleNext DEF PartsInv
        <2> QED BY <2>1, <2>2, <2>3, <2>4, <2>5, RestingParts DEF PartsInv
    <1> QED BY <1>1, <1>2, PTL DEF PartsSpec

\* However many requests interleave, and whatever fails, is cancelled or is
\* locked out, no more verifications begin for an account or an address within
\* a lockout window than the sequential policy allows, and the slots counted as
\* taken are those really held: login_rate_limited and reserve_attempt.
THEOREM ThrottleHolds == PartsSpec => []ThrottleIsExact
    <1>1. PartsInv => ThrottleIsExact
        BY ThrottleSound DEF PartsInv, ThrottleIsExact
    <1> QED BY <1>1, PartsInvHolds, PTL

\* What the screen shows of the reach check is of the URL issued last, for any
\* number of requests, expiries, replacements and listeners, and an address
\* that was blocked and keeps trying is not forgotten before as many others as
\* the table holds have tried since: ReachCheckState::check and Inner.
THEOREM ReachCheckIsTrue == PartsSpec => []ReachCheckIsSound
    <1>1. PartsInv => ReachCheckIsSound
        BY LimiterSound, CheckSound DEF PartsInv, ReachCheckIsSound
    <1> QED BY <1>1, PartsInvHolds, PTL

\* What the helper answers of its change was so at some moment of its run, the
\* audit log records it once and as it was, and the screen reads the firewall
\* as the helper does, for any number of overlapping calls, edits by others and
\* failures: act (elev/src/lib.rs) and check_rule (firewall_status.rs).
THEOREM AnswersAreTrue == PartsSpec => []RuleAnswersAreTrue
    <1>1. PartsInv => RuleAnswersAreTrue
        BY OkSound, ScreenAgrees DEF PartsInv, RuleAnswersAreTrue, F!RuleAnswersAreTrue
    <1> QED BY <1>1, PartsInvHolds, PTL

\* A helper removes only the rule that it has read as its own, or one that was
\* put in its place after it read the store (elev/src/lib.rs, act).
THEOREM RemovalsAreItsOwn == PartsSpec => OnlyOwnRulesAreRemoved
    <1> DEFINE A ==
           \A h \in F!Helpers :
              step[h] = "change" /\ step'[h] # "change" /\ localRule # <<>> /\ localRule' = <<>>
                  => F!IsMine(localRule[1].rule) \/ snap[h].local # localRule
    <1>1. PartsInv /\ [PartsNext]_allVars => [A]_F!vars
        <2> SUFFICES ASSUME PartsInv, [PartsNext]_allVars PROVE [A]_F!vars
            OBVIOUS
        <2>1. [F!Next]_F!vars
            <3>1. F!Next \/ UNCHANGED firewallVars
                BY DEF PartsNext, allVars
            <3> QED BY <3>1 DEF firewallVars, F!vars, F!world, F!helperVars, F!callVars, F!bounds
        <2>2. A
            BY <2>1, RemovalIsOfItsOwn DEF PartsInv
        <2> QED BY <2>2
    <1>2. PartsSpec => [][A]_F!vars
        BY <1>1, PartsInvHolds, PTL DEF PartsSpec
    <1> QED BY <1>2 DEF OnlyOwnRulesAreRemoved, F!OnlyOwnRulesAreRemoved
=============================================================================
