----------------------------- MODULE GrantIssue -----------------------------
(***************************************************************************)
(* Credential-less grant sessions (ADR-0017) of banto-server: the issuing  *)
(* route, AuthState's per-kind FIFO and revocation generation, and the     *)
(* application that closes a kind's condition by persisting it first and   *)
(* revoking the kind afterwards.                                           *)
(*                                                                         *)
(* An issuer reads the generation, judges the condition (an await on the   *)
(* settings) and inserts; the closer persists (an await) and revokes.      *)
(* `grants` is locked around the whole of an insertion or a revocation.    *)
(* Tokens are numbered in the order they are minted.                       *)
(***************************************************************************)
EXTENDS Naturals, FiniteSets, SequencesExt

CONSTANTS
    Kinds,        \* registered grant kinds
    Procs,        \* concurrent issuing requests
    MaxSessions,  \* GrantSpec::max_sessions of each kind
    Account,      \* the kind of a login session
    None,         \* no such token; an idle request
    MaxTokens,    \* bound: tokens minted
    MaxRevokes    \* bound: revocations of one kind

ASSUME KindsAreKinds == Account \notin Kinds /\ None \notin Kinds \cup {Account}
ASSUME CapsArePositive == MaxSessions \in [Kinds -> Nat \ {0}]
ASSUME BoundsAreNat == MaxTokens \in Nat /\ MaxRevokes \in Nat

Ids == 1..MaxTokens

VARIABLES
    enabled,     \* the persisted condition of each kind
    generation,  \* GrantQueue::generation
    queue,       \* GrantQueue::tokens
    tokens,      \* AuthState::tokens: id -> the kind it was minted for
    minted,      \* tokens minted so far
    closing,     \* the kind whose closed condition is saved, not yet revoked
    pc, kind, observed

vars == <<enabled, generation, queue, tokens, minted, closing, pc, kind, observed>>

requestVars == <<pc, kind, observed>>

-----------------------------------------------------------------------------
Live(k) == {t \in Ids : tokens[t] = k}

Init ==
    /\ enabled \in [Kinds -> BOOLEAN]
    /\ generation = [k \in Kinds |-> 0]
    /\ queue = [k \in Kinds |-> <<>>]
    /\ tokens = [t \in Ids |-> None]
    /\ minted = 0
    /\ closing = None
    /\ pc = [p \in Procs |-> "idle"]
    /\ kind = [p \in Procs |-> None]
    /\ observed = [p \in Procs |-> 0]

Leave(p) ==
    /\ pc' = [pc EXCEPT ![p] = "idle"]
    /\ kind' = [kind EXCEPT ![p] = None]
    /\ observed' = [observed EXCEPT ![p] = 0]

-----------------------------------------------------------------------------
(* POST /api/auth/grant/{kind}                                             *)

\* grant_generation, before the judgment.
Begin(p, k) ==
    /\ pc[p] = "idle"
    /\ pc' = [pc EXCEPT ![p] = "judge"]
    /\ kind' = [kind EXCEPT ![p] = k]
    /\ observed' = [observed EXCEPT ![p] = generation[k]]
    /\ UNCHANGED <<enabled, generation, queue, tokens, minted, closing>>

\* judge: closed, a refused peer or a failing condition end the request; so
\* does the client going away.
Judge(p) ==
    /\ pc[p] = "judge"
    /\ \/ /\ enabled[kind[p]]
          /\ pc' = [pc EXCEPT ![p] = "issue"]
          /\ UNCHANGED <<kind, observed>>
       \/ Leave(p)
    /\ UNCHANGED <<enabled, generation, queue, tokens, minted, closing>>

\* Mutant: one session too many.
MutEvictedLate(q, k) == IF Len(q) > MaxSessions[k] THEN {Head(q)} ELSE {}

\* The entries an issuance pushes out of the kind's queue.
Evicted(q, k) == IF Len(q) >= MaxSessions[k] THEN {Head(q)} ELSE {}

\* issue_grant_token.
Issue(p) ==
    /\ pc[p] = "issue"
    /\ LET k == kind[p]
           t == minted + 1
           out == Evicted(queue[k], k)
       IN  IF generation[k] # observed[p]
           THEN UNCHANGED <<tokens, queue, minted>>
           ELSE /\ minted < MaxTokens
                /\ minted' = t
                /\ tokens' = [i \in Ids |-> IF i = t THEN k
                                            ELSE IF i \in out THEN None ELSE tokens[i]]
                /\ queue' = [queue EXCEPT ![k] =
                                Append(IF out = {} THEN @ ELSE Tail(@), t)]
    /\ Leave(p)
    /\ UNCHANGED <<enabled, generation, closing>>

-----------------------------------------------------------------------------
(* The application.  server_apply holds its locks from the save to the     *)
(* revocation, so one change of a condition runs at a time.                *)

Open(k) ==
    /\ closing = None
    /\ enabled' = [enabled EXCEPT ![k] = TRUE]
    /\ UNCHANGED <<generation, queue, tokens, minted, closing, requestVars>>

Close(k) ==
    /\ closing = None /\ generation[k] < MaxRevokes
    /\ enabled' = [enabled EXCEPT ![k] = FALSE]
    /\ closing' = k
    /\ UNCHANGED <<generation, queue, tokens, minted, requestVars>>

\* Mutants: the generation is left alone, or runs backwards.
MutRevoke ==
    /\ closing # None
    /\ queue' = [queue EXCEPT ![closing] = <<>>]
    /\ tokens' = [t \in Ids |-> IF tokens[t] = closing THEN None ELSE tokens[t]]
    /\ closing' = None
    /\ UNCHANGED <<generation, enabled, minted, requestVars>>

\* revoke_grant_tokens.
Revoke ==
    /\ closing # None
    /\ generation' = [generation EXCEPT ![closing] = @ + 1]
    /\ queue' = [queue EXCEPT ![closing] = <<>>]
    /\ tokens' = [t \in Ids |-> IF tokens[t] = closing THEN None ELSE tokens[t]]
    /\ closing' = None
    /\ UNCHANGED <<enabled, minted, requestVars>>

-----------------------------------------------------------------------------
\* A login session is issued.
Login ==
    /\ minted < MaxTokens
    /\ minted' = minted + 1
    /\ tokens' = [tokens EXCEPT ![minted + 1] = Account]
    /\ UNCHANGED <<enabled, generation, queue, closing, requestVars>>

\* logout, the lazy eviction of an expired token, or the sweep of an issue:
\* the queue keeps its entry.
Gone(t) ==
    /\ tokens[t] # None
    /\ tokens' = [tokens EXCEPT ![t] = None]
    /\ UNCHANGED <<enabled, generation, queue, minted, closing, requestVars>>

Next ==
    \/ \E p \in Procs :
        \/ \E k \in Kinds : Begin(p, k)
        \/ Judge(p)
        \/ Issue(p)
    \/ \E k \in Kinds : Open(k) \/ Close(k)
    \/ Revoke
    \/ Login
    \/ \E t \in Ids : Gone(t)

Spec == Init /\ [][Next]_vars

-----------------------------------------------------------------------------
\* A kind's queue holds tokens, a token record the kind it was minted for, and
\* the counters of a kind never run below zero.
TypeOK ==
    /\ enabled \in [Kinds -> BOOLEAN]
    /\ generation \in [Kinds -> Nat]
    /\ queue \in [Kinds -> Seq(Ids)]
    /\ tokens \in [Ids -> Kinds \cup {Account, None}]
    /\ minted \in 0..MaxTokens
    /\ closing \in Kinds \cup {None}
    /\ pc \in [Procs -> {"idle", "judge", "issue"}]
    /\ kind \in [Procs -> Kinds \cup {None}]
    /\ observed \in [Procs -> Nat]

\* "Persist the closed condition, then revoke" is enough: once a closer is
\* done no grant session of the kind is alive, and none appears while the
\* condition stays closed, whatever was being judged when it closed.
NoGrantWhileClosed ==
    \A k \in Kinds : ~enabled[k] /\ closing # k => Live(k) = {}

\* Live sessions of a kind never exceed its cap, although the queue may hold
\* entries of tokens that are long gone; and the queue never loses track of a
\* live one, so that revoke_grant_tokens' second, defensive removal has nothing
\* left to do.
GrantsAreCapped ==
    \A k \in Kinds :
        /\ Live(k) \subseteq Range(queue[k])
        /\ Cardinality(Live(k)) <= MaxSessions[k]
=============================================================================
