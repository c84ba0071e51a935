---------------------------- MODULE ReachLimiter ----------------------------
(***************************************************************************)
(* The failure table of the reachability self-check (reach_check.rs): one  *)
(* entry per peer address, counted in a window, blocked for one window     *)
(* after Failures failures, and at most Cap entries: a new address pushes  *)
(* out the one seen the longest ago.  A check reads the clock first and    *)
(* takes the store's lock afterwards, so two checks may be judged in the   *)
(* other order than they were timed.  What a token is worth is not here:   *)
(* a check that gets past the block is counted or it is not.               *)
(***************************************************************************)
EXTENDS Naturals, FiniteSets

CONSTANTS
    Addrs,      \* peer addresses
    Cap,        \* RATE_LIMIT_TABLE_CAP: entries the table holds
    Failures,   \* RATE_LIMIT_FAILURES: failures in a window before the block
    Window,     \* RATE_LIMIT_WINDOW, in ticks
    MaxNow,     \* bound: ticks of the clock
    MaxChecks   \* bound: checks timed and not yet judged

LimitsAreNat == IsFiniteSet(Addrs) /\ {Cap, Failures, Window} \subseteq Nat

VARIABLES
    now,        \* the monotonic clock
    table,      \* address -> entry: Inner.failures
    timed,      \* checks that read the clock and wait for the lock
    lastTry,    \* history: the clock reading of the address's last refusal or failure
    since,      \* history: the addresses refused or counted since the address was
    promised    \* history: until when the address was told to stay away

vars == <<now, table, timed, lastTry, since, promised>>

history == <<lastTry, since>>

Entry(start, failures, until, seen) ==
    [start |-> start, failures |-> failures, until |-> until, seen |-> seen]

NotBlocked == 0

Restricted(f, S) == [a \in S |-> f[a]]

Init ==
    /\ now = 1
    /\ table = <<>>
    /\ timed = {}
    /\ lastTry = [a \in Addrs |-> 0]
    /\ since = [a \in Addrs |-> {}]
    /\ promised = [a \in Addrs |-> 0]

Tick ==
    /\ now < MaxNow
    /\ now' = now + 1
    /\ UNCHANGED <<table, timed, promised, history>>

\* ReachCheckState::check up to the lock.
Arrive(a, counted) ==
    /\ Cardinality(timed) < MaxChecks
    /\ timed' = timed \cup {[addr |-> a, at |-> now, counted |-> counted]}
    /\ UNCHANGED <<now, table, promised, history>>

IsBlocked(a, at) == a \in DOMAIN table /\ at < table[a].until

\* Inner::blocked: a blocked peer that keeps trying is seen, an entry whose
\* block is over is dropped.
Touched(a, at) == [table EXCEPT ![a].seen = at]

Released(a) ==
    IF a \in DOMAIN table /\ table[a].until # NotBlocked
    THEN Restricted(table, DOMAIN table \ {a})
    ELSE table

\* The entries one of which a new address replaces.
Oldest(t) == {a \in DOMAIN t : \A b \in DOMAIN t : t[a].seen <= t[b].seen}

\* Inner::count_failure on an entry (one made for the occasion included).
Counted(e, at) ==
    LET again == at < e.start + Window
        failures == IF again THEN e.failures + 1 ELSE 1
    IN Entry(IF again THEN e.start ELSE at, failures,
             IF failures >= Failures THEN at + Window ELSE e.until, at)

\* Inner::count_failure: the table t afterwards, for each entry it may drop.
AfterFailure(t, a, at) ==
    LET kept == IF a \in DOMAIN t \/ Cardinality(DOMAIN t) < Cap
                THEN {DOMAIN t}
                ELSE {DOMAIN t \ {o} : o \in Oldest(t)}
        old == IF a \in DOMAIN t THEN t[a] ELSE Entry(at, 0, NotBlocked, at)
    IN {[b \in k \cup {a} |-> IF b = a THEN Counted(old, at) ELSE t[b]] : k \in kept}

\* The history of a refusal or a failure; a check that passes leaves no trace.
Noted(c) ==
    /\ lastTry' = [lastTry EXCEPT ![c.addr] = c.at]
    /\ since' = [a \in Addrs |-> IF a = c.addr THEN {} ELSE since[a] \cup {c.addr}]

\* ReachCheckState::check under the lock.
Refuse(c) ==
    /\ IsBlocked(c.addr, c.at)
    /\ table' = Touched(c.addr, c.at)
    /\ Noted(c)
    /\ UNCHANGED promised

Fail(c) ==
    /\ ~IsBlocked(c.addr, c.at)
    /\ c.counted
    /\ table' \in AfterFailure(Released(c.addr), c.addr, c.at)
    /\ promised' = [promised EXCEPT ![c.addr] = table'[c.addr].until]
    /\ Noted(c)

Pass(c) ==
    /\ ~IsBlocked(c.addr, c.at)
    /\ ~c.counted
    /\ table' = Released(c.addr)
    /\ UNCHANGED <<promised, history>>

Judge(c) ==
    /\ Refuse(c) \/ Fail(c) \/ Pass(c)
    /\ timed' = timed \ {c}
    /\ UNCHANGED now

Next ==
    \/ Tick
    \/ \E a \in Addrs, counted \in BOOLEAN : Arrive(a, counted)
    \/ \E c \in timed : Judge(c)

Spec == Init /\ [][Next]_vars

-----------------------------------------------------------------------------
\* Addresses refused or counted no earlier than a was last, by the clock or by
\* the lock.
TriedSince(a) ==
    since[a] \cup {b \in Addrs \ {a} : lastTry[b] >= lastTry[a] /\ lastTry[b] > 0}

\* An address that was blocked stays blocked until the time it was told, as
\* long as it keeps trying: it is forgotten early only after Cap other
\* addresses have tried since (what the refresh in Inner::blocked is for,
\* reach_check.rs:333).
ABlockIsNotForgotten ==
    \A a \in Addrs :
        now < promised[a] /\ Cardinality(TriedSince(a)) < Cap
            => IsBlocked(a, now)
=============================================================================
