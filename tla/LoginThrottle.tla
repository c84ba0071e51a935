--------------------------- MODULE LoginThrottle ---------------------------
(***************************************************************************)
(* The login throttle of banto-server's AuthState (login_rate_limited):    *)
(* failed logins are counted per (address, username) and per address, a    *)
(* full streak locks the key out, and a verification slot is reserved      *)
(* before the slow credential check so that a burst cannot outrun the      *)
(* counters.                                                               *)
(*                                                                         *)
(* `failures` and `in_flight` have locks of their own, and a reservation   *)
(* holds the second while it reads the first several times; its reads, the *)
(* two failure records, the two resets and the release are separate steps. *)
(* A request may be cancelled at its one await, the credential check.      *)
(* Time is counted in ticks; a request without a peer address, which has   *)
(* no per-address key, is left out.                                        *)
(***************************************************************************)
EXTENDS Integers, FiniteSets

CONSTANTS
    Procs,          \* concurrent login requests
    Users, Ips,     \* usernames and peer addresses
    MaxFailures,    \* RateLimitPolicy::max_failures
    MaxIpFailures,  \* RateLimitPolicy::max_ip_failures
    Lockout,        \* RateLimitPolicy::lockout, in ticks
    MaxPerIp,       \* MAX_IN_FLIGHT_PER_IP
    MaxTotal,       \* MAX_CONCURRENT_VERIFICATIONS
    MaxNow,         \* bound: ticks
    Nobody          \* the in_flight mutex is free; an idle request is for no key

\* What is assumed of the constants.
LimitsArePositive ==
    /\ {MaxFailures, MaxIpFailures, Lockout, MaxPerIp, MaxTotal} \subseteq Nat \ {0}
    /\ MaxNow \in Nat

AccountKeys == Ips \X Users
Keys == AccountKeys \cup Ips

KeysDiffer == Ips \cap AccountKeys = {}

RequestsAreFew == IsFiniteSet(Procs)

NobodyIsNoOne == Nobody \notin Procs \cup AccountKeys

VARIABLES
    now,
    failures,  \* key -> failure record (a cleared one stands for no record)
    inFlight,  \* [total, perKey]: the reserved slots
    holder,    \* who holds the in_flight mutex across steps
    pc,
    who,       \* the (address, username) of each request
    start,     \* history: when its verification began
    failed     \* history: per key, the failed verifications since its last success
               \* (when each began, at most Lockout ago, and its number among those)

vars == <<now, failures, inFlight, holder, pc, who, start, failed>>

-----------------------------------------------------------------------------
Clear == [count |-> 0, until |-> 0, last |-> 0]

Threshold(k) == IF k \in Ips THEN MaxIpFailures ELSE MaxFailures

KeysOf(p) == {who[p], who[p][1]}

LockedOut(k) == failures[k].until > now

Fresh(k) == now - failures[k].last < Lockout

LiveFailures(k) == IF Fresh(k) THEN failures[k].count ELSE 0

Init ==
    /\ now = 0
    /\ failures = [k \in Keys |-> Clear]
    /\ inFlight = [total |-> 0, perKey |-> [k \in Keys |-> 0]]
    /\ holder = Nobody
    /\ pc = [p \in Procs |-> "idle"]
    /\ who = [p \in Procs |-> Nobody]
    /\ start = [p \in Procs |-> 0]
    /\ failed = [k \in Keys |-> {}]

GoTo(p, phase) == pc' = [pc EXCEPT ![p] = phase]

\* The request returns: its locals are gone.
Leave(p) ==
    /\ GoTo(p, "idle")
    /\ who' = [who EXCEPT ![p] = Nobody]
    /\ start' = [start EXCEPT ![p] = 0]

-----------------------------------------------------------------------------
(* reserve_attempt                                                         *)

\* The mutex is taken and the lockouts are read; a locked key is refused, and
\* that request is over.
CheckLocks(p) ==
    /\ pc[p] = "idle" /\ holder = Nobody
    /\ \E k \in AccountKeys :
        /\ ~LockedOut(k) /\ ~LockedOut(k[1])
        /\ who' = [who EXCEPT ![p] = k]
        /\ holder' = p
        /\ GoTo(p, "counting")
    /\ UNCHANGED <<now, failures, inFlight, start, failed>>

\* Mutant: attempts in flight do not count.
MutBusy(p) ==
    \/ \E k \in KeysOf(p) : LiveFailures(k) >= Threshold(k)
    \/ inFlight.perKey[who[p][1]] >= MaxPerIp
    \/ inFlight.total >= MaxTotal

\* Recorded failures plus attempts in flight reach a limit.
Busy(p) ==
    \/ \E k \in KeysOf(p) :
        LiveFailures(k) + inFlight.perKey[k] >= Threshold(k)
    \/ inFlight.perKey[who[p][1]] >= MaxPerIp
    \/ inFlight.total >= MaxTotal

\* The verifications in flight, in all and under the keys of p, by n more.
Shift(p, n) ==
    inFlight' = [total |-> inFlight.total + n,
                 perKey |-> [k \in Keys |-> IF k \in KeysOf(p)
                                            THEN inFlight.perKey[k] + n
                                            ELSE inFlight.perKey[k]]]

Reserve(p) ==
    /\ pc[p] = "counting"
    /\ IF Busy(p)
       THEN Leave(p) /\ UNCHANGED inFlight
       ELSE /\ Shift(p, 1)
            /\ start' = [start EXCEPT ![p] = now]
            /\ GoTo(p, "verifying")
            /\ UNCHANGED who
    /\ holder' = Nobody
    /\ UNCHANGED <<now, failures, failed>>

\* verify_and_stamp answers Rejected; or Accepted or Unavailable.
Verified(p) ==
    /\ pc[p] = "verifying"
    /\ GoTo(p, "reject") \/ GoTo(p, "clear")
    /\ UNCHANGED <<now, failures, inFlight, holder, who, start, failed>>

-----------------------------------------------------------------------------
\* The sweep of record_failure.
Live(k) == LockedOut(k) \/ Fresh(k)

\* record_failure: an expired lock or a stale streak counts from zero.
Recorded(k) ==
    LET restart == (failures[k].until # 0 /\ ~LockedOut(k)) \/ ~Fresh(k)
        n == IF restart THEN 1 ELSE failures[k].count + 1
    IN  [count |-> n, last |-> now,
         until |-> IF n >= Threshold(k) THEN now + Lockout
                   ELSE IF restart THEN 0 ELSE failures[k].until]

FailedAt(k, t) == {f \in failed[k] : f.begun = t}

Failure(p, k) == [begun |-> start[p], nth |-> Cardinality(FailedAt(k, start[p]))]

RecordFailure(p, k) ==
    /\ failures' = [j \in Keys |-> IF j = k THEN Recorded(k)
                                   ELSE IF Live(j) THEN failures[j] ELSE Clear]
    /\ failed' = [failed EXCEPT ![k] = @ \cup {Failure(p, k)}]

RejectAccount(p) ==
    /\ pc[p] = "reject"
    /\ RecordFailure(p, who[p])
    /\ GoTo(p, "rejectIp")
    /\ UNCHANGED <<now, inFlight, holder, who, start>>

RejectIp(p) ==
    /\ pc[p] = "rejectIp"
    /\ RecordFailure(p, who[p][1])
    /\ GoTo(p, "release")
    /\ UNCHANGED <<now, inFlight, holder, who, start>>

ResetFailures(k) ==
    /\ failures' = [failures EXCEPT ![k] = Clear]
    /\ failed' = [failed EXCEPT ![k] = {}]

ClearAccount(p) ==
    /\ pc[p] = "clear"
    /\ ResetFailures(who[p])
    /\ GoTo(p, "clearIp")
    /\ UNCHANGED <<now, inFlight, holder, who, start>>

ClearIp(p) ==
    /\ pc[p] = "clearIp"
    /\ ResetFailures(who[p][1])
    /\ GoTo(p, "release")
    /\ UNCHANGED <<now, inFlight, holder, who, start>>

\* The guard is dropped: the request returns, or is cancelled at its await.
Drop(p) ==
    /\ pc[p] \in {"release", "verifying"} /\ holder = Nobody
    /\ Shift(p, -1)
    /\ Leave(p)
    /\ UNCHANGED <<now, failures, holder, failed>>

Tick ==
    /\ now < MaxNow
    /\ now' = now + 1
    /\ failed' = [k \in Keys |-> {f \in failed[k] : now' < f.begun + Lockout}]
    /\ UNCHANGED <<failures, inFlight, holder, pc, who, start>>

Next ==
    \/ \E p \in Procs :
        \/ CheckLocks(p) \/ Reserve(p) \/ Verified(p)
        \/ RejectAccount(p) \/ RejectIp(p)
        \/ ClearAccount(p) \/ ClearIp(p)
        \/ Drop(p)
    \/ Tick

Spec == Init /\ [][Next]_vars

-----------------------------------------------------------------------------
HoldsSlot(p) == pc[p] \notin {"idle", "counting"}

\* Verifications of p that a failure record of k does not count yet.
Pending(p, k) ==
    /\ \/ pc[p] \in {"verifying", "reject"}
       \/ pc[p] = "rejectIp" /\ k \in Ips
    /\ k \in KeysOf(p)

\* The throttle's promise (reserve_attempt): within any lockout window, and
\* whatever runs at once, no more verifications begin for a key than the
\* sequential policy allows, failed logins before the key's last success and
\* cancelled requests aside.
NeverMoreThanSequential ==
    \A k \in Keys :
        Cardinality({p \in Procs : Pending(p, k) /\ now < start[p] + Lockout})
          + Cardinality({f \in failed[k] : now < f.begun + Lockout})
            <= Threshold(k)

\* However requests end, the counters are the slots really held: a slot that
\* leaked would refuse other users for good.
SlotsAreAccountedFor ==
    /\ inFlight.total = Cardinality({p \in Procs : HoldsSlot(p)})
    /\ \A k \in Keys : inFlight.perKey[k] =
            Cardinality({p \in Procs : HoldsSlot(p) /\ k \in KeysOf(p)})

\* Concurrency buys no guess, and costs nobody a slot.
ThrottleIsExact == NeverMoreThanSequential /\ SlotsAreAccountedFor
=============================================================================
