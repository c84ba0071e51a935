----------------------------- MODULE ReachCheck -----------------------------
(***************************************************************************)
(* The reachability self-check: the administrator issues a one-time URL of *)
(* the running listener, another device opens it, and the screen says what *)
(* came of it.  ReachCheckState is one mutex; a check reads the clock      *)
(* before it takes it, so that between its arrival and its judgment a      *)
(* token may expire, be replaced, or go with its listener.  The router of  *)
(* a stopped listener may still hold requests.                             *)
(*                                                                         *)
(* A listener is known by its generation: its port is part of it.  The     *)
(* table of failing peers is ReachLimiter's; here a check may be refused.  *)
(***************************************************************************)
EXTENDS Naturals, Sequences, FiniteSets

CONSTANTS
    Lan,           \* addresses of the LAN
    Loopback,      \* 127.0.0.1
    None,          \* no token, no address, no mark
    Ttl,           \* TOKEN_TTL, in ticks
    MaxRecords,    \* MAX_RECORDS
    MaxNow,        \* bound: ticks of the clock
    MaxIssues,     \* bound: tokens issued
    MaxListeners,  \* bound: listener changes
    MaxRequests    \* bound: checks that wait for the lock

LimitsAreNat == Ttl \in Nat /\ MaxRecords \in Nat \ {0}

VARIABLES
    now,
    own,       \* this PC's addresses, as its interfaces have them now
    live,      \* the running listener's bind, None when nothing listens
    store,     \* Inner, without the failures
    waiting,   \* checks that read the clock and wait for the lock
    issued     \* history: what each token was issued for, by issue_id

vars == <<now, own, live, store, waiting, issued>>

Peers == Lan \cup {Loopback}

\* The tokens, what is said of the last issuance, and the accesses that are kept.
Tokens == [id : Nat, generation : Nat, host : Lan, expires : Nat, self : SUBSET Lan]
Lasts == [id : Nat, expires : Nat, outcome : {"pending", "expired", "recorded"}]
Records == [id : Nat, at : Nat, peer : Peers, host : Lan]

NoneIsNoValue == None \notin Nat \cup Tokens \cup Lasts

Binds == {"any", "v6", Loopback} \cup Lan

\* lan_urls_for_bind: the hosts of the URLs of a listener bound so.
Urls(bind) ==
    IF bind = "any" THEN own \cup {Loopback}
    ELSE IF bind = "v6" THEN {} ELSE {bind}

\* What begin_generation leaves.
Begun(g) == [generation |-> g, active |-> None, last |-> None,
             records |-> <<>>, mark |-> None]

Init ==
    /\ now = 1 /\ live \in Binds \cup {None} /\ store = Begun(0)
    /\ own \in SUBSET Lan
    /\ waiting = {} /\ issued = <<>>

Tick ==
    /\ now < MaxNow
    /\ now' = now + 1
    /\ UNCHANGED <<own, live, store, waiting, issued>>

\* The PC joins or leaves a network.
Readdress ==
    /\ own' \in SUBSET Lan \ {own}
    /\ UNCHANGED <<now, live, store, waiting, issued>>

\* server_apply: the listener's generation and the store's, in one step.
ListenerChanges ==
    /\ store.generation < MaxListeners
    /\ live' \in Binds \cup {None}
    /\ store' = Begun(store.generation + 1)
    /\ UNCHANGED <<now, own, waiting, issued>>

-----------------------------------------------------------------------------
(* The administrator's side, under the server's lock.                      *)

\* reach_check_issue_body refuses anything else, and issues nothing.
CanIssue(host) == live # None /\ host \in Urls(live) \ {Loopback} /\ own # {}

MutIssue(host) ==
    LET id == Len(issued) + 1
        token == [id |-> id, generation |-> store.generation, host |-> host,
                  expires |-> now + Ttl, self |-> own \cup {host}]
    IN /\ Len(issued) < MaxIssues /\ CanIssue(host)
       /\ store' = [store EXCEPT !.active = token,
                                 !.last = [id |-> id, expires |-> now + Ttl,
                                           outcome |-> "pending"]]
       /\ issued' = Append(issued, [host |-> host, at |-> now, own |-> own])
       /\ UNCHANGED <<now, own, live, waiting>>

\* A new token replaces the one before it and clears the mark.
Issue(host) ==
    LET id == Len(issued) + 1
        token == [id |-> id, generation |-> store.generation, host |-> host,
                  expires |-> now + Ttl, self |-> own \cup {host}]
    IN /\ Len(issued) < MaxIssues /\ CanIssue(host)
       /\ store' = [store EXCEPT !.active = token, !.mark = None,
                                 !.last = [id |-> id, expires |-> now + Ttl,
                                           outcome |-> "pending"]]
       /\ issued' = Append(issued, [host |-> host, at |-> now, own |-> own])
       /\ UNCHANGED <<now, own, live, waiting>>

\* Inner::expire at the time t.
Expired(s, t) ==
    [s EXCEPT
        !.active = IF s.active # None /\ t >= s.active.expires THEN None ELSE s.active,
        !.last = IF s.last # None /\ s.last.outcome = "pending" /\ t >= s.last.expires
                 THEN [s.last EXCEPT !.outcome = "expired"] ELSE s.last]

\* reach_check_status.
Status ==
    /\ store' = Expired(store, now)
    /\ UNCHANGED <<now, own, live, waiting, issued>>

-----------------------------------------------------------------------------
(* POST /api/reach-check.                                                  *)

\* The handler, up to the lock: the peer, the listener's router, the Host the
\* request names and the token it holds; one that names no host or several is
\* like one that names another.  One without a peer address is answered at once.
Arrive(peer, router, host, token) ==
    /\ Cardinality(waiting) < MaxRequests
    /\ waiting' = waiting \cup {[peer |-> peer, router |-> router, host |-> host,
                                 token |-> token, at |-> now]}
    /\ UNCHANGED <<now, own, live, store, issued>>

Matches(c) == store.active # None /\ store.active.id = c.token

\* Its peer is blocked, or it holds another token than the one in force.
Refused(c) == UNCHANGED store

AtItsUrl(c, s) ==
    /\ s.active # None
    /\ s.active.generation = c.router /\ s.active.generation = s.generation
    /\ c.host = s.active.host

\* The token is expired, or of another listener, or at another host: it stays
\* in force unless it is expired.
Unusable(c, s) == ~AtItsUrl(c, s) /\ store' = s

IsSelf(c, s) == c.peer = Loopback \/ c.peer \in s.active.self

\* This PC opened the URL: noted, and the token stays in force.
SelfAccess(c, s) ==
    /\ AtItsUrl(c, s) /\ IsSelf(c, s)
    /\ store' = [s EXCEPT !.mark = c.at]

Newest(records) ==
    SubSeq(records, 1, IF Len(records) < MaxRecords THEN Len(records) ELSE MaxRecords)

\* Another device did: the token is spent and the access is kept.
Recorded(c, s) ==
    /\ AtItsUrl(c, s) /\ ~IsSelf(c, s)
    /\ store' = [s EXCEPT
         !.active = None,
         !.last = IF s.last # None /\ s.last.id = s.active.id
                  THEN [s.last EXCEPT !.outcome = "recorded"] ELSE s.last,
         !.records = Newest(<<[id |-> s.active.id, at |-> c.at, peer |-> c.peer,
                               host |-> s.active.host]>> \o s.records)]

\* ReachCheckState::check under the lock.
Check(c) ==
    LET s == Expired(store, c.at) IN
    /\ \/ Refused(c)
       \/ Matches(c) /\ (Unusable(c, s) \/ SelfAccess(c, s) \/ Recorded(c, s))
    /\ waiting' = waiting \ {c}
    /\ UNCHANGED <<now, own, live, issued>>

Next ==
    \/ Tick \/ Readdress \/ ListenerChanges \/ Status
    \/ \E host \in Lan : Issue(host)
    \/ \E peer \in Peers, router \in 0..store.generation,
          host \in Lan, token \in 0..Len(issued) :
          Arrive(peer, router, host, token)
    \/ \E c \in waiting : Check(c)

Spec == Init /\ [][Next]_vars

-----------------------------------------------------------------------------
\* A record is one use of one token: of a device that had none of this PC's
\* addresses when it was issued, at the host it was issued for, before it
\* expired.
RecordsAreOfOtherDevices ==
    \A i \in DOMAIN store.records :
        LET r == store.records[i] IN
        /\ r.peer \notin issued[r.id].own \cup {Loopback, issued[r.id].host}
        /\ r.host = issued[r.id].host
        /\ r.at \in issued[r.id].at..(issued[r.id].at + Ttl - 1)
        /\ \A j \in DOMAIN store.records \ {i} : store.records[j].id # r.id

\* The last issuance is pending exactly while its token is in force, and
\* recorded exactly if the newest record is of it.
OutcomeIsTheRecords ==
    /\ (store.active # None) <=> (store.last # None /\ store.last.outcome = "pending")
    /\ store.active # None => store.active.id = store.last.id
    /\ store.last # None =>
         (store.last.outcome = "recorded"
            <=> Len(store.records) > 0 /\ store.records[1].id = store.last.id)

\* What the screen shows of the reach check is of the URL issued last, however
\* requests, expiry, new URLs and listener changes are ordered: also the mark
\* that this PC opened it (reach_check.rs:500).
ReachResultsAreTrue ==
    /\ RecordsAreOfOtherDevices
    /\ OutcomeIsTheRecords
    /\ store.mark # None => store.last # None /\ store.mark >= issued[store.last.id].at
=============================================================================
