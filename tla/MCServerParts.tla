--------------------------- MODULE MCServerParts ---------------------------
(***************************************************************************)
(* The guards of banto-server, the reach check and the firewall change for *)
(* TLC: GrantIssue, LoginThrottle, ReachLimiter, ReachCheck and            *)
(* FirewallChange.  They share no state, so that a behaviour in which one  *)
(* of them (`part`) moves and the others rest in an initial state stands   *)
(* for every behaviour of them together.                                   *)
(***************************************************************************)
EXTENDS GrantIssue, TLC

CONSTANTS
    publicViewer, kiosk,
    Logins, Users, Ips, MaxFailures, MaxIpFailures, Lockout, MaxPerIp, MaxTotal,
    MaxLoginNow, Nobody,
    Addrs, Cap, Failures, Window, MaxNow, MaxChecks,
    Lan, Loopback, Ttl, MaxRecords, MaxCheckNow, MaxIssues, MaxListeners, MaxRequests,
    Calls, Other, MaxEdits, MaxHelpers, MaxFaults

\* One kind is capped at a single session.
Caps == publicViewer :> 2 @@ kiosk :> 1

VARIABLES
    part,
    loginNow, failures, inFlight, holder, phase, who, start, failed,
    now, table, timed, lastTry, since, promised,
    checkNow, own, listener, store, waiting, issued,
    localRule, disallowed, listed, policyRule, step, op, snap, code,
    call, answer, running, audited, edits, faults, seen

T == INSTANCE LoginThrottle WITH Procs <- Logins, now <- loginNow, pc <- phase,
                                   MaxNow <- MaxLoginNow
R == INSTANCE ReachLimiter
C == INSTANCE ReachCheck WITH now <- checkNow, live <- listener, MaxNow <- MaxCheckNow
F == INSTANCE FirewallChange

ASSUME LimiterConstants == R!LimitsAreNat
ASSUME CheckConstants == C!LimitsAreNat /\ C!NoneIsNoValue
ASSUME FirewallConstants == F!OtherIsNoCall
ASSUME ThrottleConstants ==
    T!LimitsArePositive /\ T!NobodyIsNoOne /\ T!KeysDiffer /\ T!RequestsAreFew

throttleVars == <<loginNow, failures, inFlight, holder, phase, who, start, failed>>
limiterVars == <<now, table, timed, lastTry, since, promised>>
checkVars == <<checkNow, own, listener, store, waiting, issued>>
firewallVars == <<localRule, disallowed, listed, policyRule, step, op, snap, code,
                  call, answer, running, audited, edits, faults, seen>>

PartsInit ==
    /\ part \in {"grant", "throttle", "limiter", "check", "firewall"}
    /\ Init
    /\ part # "grant" => \A k \in Kinds : enabled[k]
    /\ T!Init
    /\ R!Init
    /\ C!Init
    /\ part # "check" => own = {} /\ listener = None
    /\ F!Init
    /\ part # "firewall" => ~listed

PartsNext ==
    \/ /\ part = "grant" /\ Next
       /\ UNCHANGED <<part, throttleVars, limiterVars, checkVars, firewallVars>>
    \/ /\ part = "throttle" /\ T!Next
       /\ UNCHANGED <<part, vars, limiterVars, checkVars, firewallVars>>
    \/ /\ part = "limiter" /\ R!Next
       /\ UNCHANGED <<part, vars, throttleVars, checkVars, firewallVars>>
    \/ /\ part = "check" /\ C!Next
       /\ UNCHANGED <<part, vars, throttleVars, limiterVars, firewallVars>>
    \/ /\ part = "firewall" /\ F!Next
       /\ UNCHANGED <<part, vars, throttleVars, limiterVars, checkVars>>

allVars == <<part, vars, throttleVars, limiterVars, checkVars, firewallVars>>

PartsSpec == PartsInit /\ [][PartsNext]_allVars

\* LoginThrottle!ThrottleIsExact
ThrottleIsExact == part = "throttle" => T!ThrottleIsExact

\* ReachLimiter!ABlockIsNotForgotten and ReachCheck!ReachResultsAreTrue: the
\* reach check tells the truth and keeps those out that it said it would.
ReachCheckIsSound ==
    /\ part = "limiter" => R!ABlockIsNotForgotten
    /\ part = "check" => C!ReachResultsAreTrue

\* FirewallChange!RuleAnswersAreTrue
RuleAnswersAreTrue == part = "firewall" => F!RuleAnswersAreTrue

\* FirewallChange!OnlyOwnRulesAreRemoved
OnlyOwnRulesAreRemoved == F!OnlyOwnRulesAreRemoved

\* The requests, the users and the addresses of the LAN are the same two
\* values, the logins and the peers the same three: the group stays small.
Symmetry == Permutations(Procs \cup Users \cup Calls \cup Lan) \cup Permutations(Logins \cup Addrs)
=============================================================================
