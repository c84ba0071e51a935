---------------------------- MODULE ServerApply ----------------------------
(***************************************************************************)
(* The embedded LAN server of the desktop app: server_apply's "validate,   *)
(* stop, bind, save, serve" with its rollback, the auth.disabled writer it *)
(* is exclusive with, the launch that binds the saved settings (or a       *)
(* neighbouring port), the reach check, whose one-time tokens belong to    *)
(* one generation of the listener, and the firewall change, whose elevated *)
(* helper runs while no lock is held.                                      *)
(*                                                                         *)
(* `server` (an async mutex) is held for the whole of an apply;            *)
(* `authLock` for the check and the save of either settings row.  A save   *)
(* is one transaction: stored, or refused.  A stopped listener takes no    *)
(* new connection, but one it had accepted may still deliver a request.    *)
(***************************************************************************)
EXTENDS Naturals, FiniteSets

CONSTANTS
    Appliers,       \* concurrent server_apply commands
    AuthWriter,     \* an auth_config_apply
    Changes,        \* concurrent firewall_rule_change commands
    None,
    MaxPort,        \* ports are 1..MaxPort
    MaxGeneration,  \* bound: generations before the last apply is requested
    MaxIssue,       \* bound: reach-check tokens
    MaxCrashes      \* bound: relaunches of the app

ASSUME CommandsAreDistinct ==
    /\ AuthWriter \notin Appliers \cup Changes /\ Appliers \cap Changes = {}
    /\ None \notin Appliers \cup Changes \cup {AuthWriter}
ASSUME BoundsAreNat == {MaxPort, MaxGeneration, MaxIssue, MaxCrashes} \subseteq Nat /\ MaxPort > 0

Ports == 1..MaxPort
ServerSettings == [enabled : BOOLEAN, port : Ports, viewerPublic : BOOLEAN]
Listener == [generation : Nat, port : Ports]

ASSUME NoneIsNoValue == None \notin Ports /\ None \notin Listener

VARIABLES
    saved,      \* the server.* settings
    disabled,   \* auth.disabled
    server,     \* state.server: who holds it
    authLock,   \* auth_config_lock: who holds it
    live,       \* ServerSlot::live
    generation, \* ServerSlot::generation
    notice,     \* ServerSlot::port_notice
    failure,    \* ServerSlot::apply_failure
    routers,    \* routers that may still answer a request
    reach,      \* the reach-check store: its generation, token and records
    issued,     \* tokens issued so far
    busy,       \* ports other programs hold
    pc, want, previous, bound,   \* each apply: the settings asked for, the
                                 \* port it stopped, the port it has bound
    wantDisabled,                \* the auth writer's
    target, ran, result,         \* each firewall change: the generation the
                                 \* user confirmed, the one its helper ran at
                                 \* (history), and what it answered
    crashes

settings == <<saved, disabled>>
locks == <<server, authLock>>
slotVars == <<live, generation, notice, failure>>
store == <<reach, issued>>
plans == <<want, previous, bound>>
changeVars == <<target, ran, result>>
outside == <<busy, crashes>>
vars == <<settings, locks, slotVars, routers, store, pc, plans, wantDisabled,
          changeVars, outside>>

Commands == Appliers \cup {AuthWriter} \cup Changes

-----------------------------------------------------------------------------
\* auth_server_combination_allowed.
Allowed(d, s) == ~(d /\ s.enabled /\ ~s.viewerPublic)

NoWant == [enabled |-> FALSE, port |-> 1, viewerPublic |-> FALSE]
LivePort == IF live = None THEN None ELSE live.port
EmptyStore(g) == [generation |-> g, active |-> None, records |-> {}]

Idle == [c \in Commands |-> "idle"]
NoPlan == [a \in Appliers |-> None]

\* The first launch: nothing is saved but the defaults.
Init ==
    /\ saved = NoWant
    /\ disabled \in BOOLEAN
    /\ live = None /\ routers = {}
    /\ generation = 0 /\ notice = "none" /\ failure = "none"
    /\ reach = EmptyStore(0) /\ issued = 0
    /\ busy \in SUBSET Ports
    /\ crashes = 0
    /\ pc = Idle
    /\ want = [a \in Appliers |-> NoWant] /\ previous = NoPlan /\ bound = NoPlan
    /\ wantDisabled = FALSE /\ server = None /\ authLock = None
    /\ target = [c \in Changes |-> 0] /\ ran = target /\ result = [c \in Changes |-> "none"]

-----------------------------------------------------------------------------
(* server_apply.                                                           *)

Request(a) ==
    /\ pc[a] = "idle" /\ generation < MaxGeneration
    /\ \E w \in ServerSettings : want' = [want EXCEPT ![a] = w]
    /\ pc' = [pc EXCEPT ![a] = "wait"]
    /\ UNCHANGED <<settings, locks, slotVars, routers, store, previous, bound,
                   wantDisabled, changeVars, outside>>

\* The command returns and drops its guards.
Leave(a) ==
    /\ pc' = [pc EXCEPT ![a] = "idle"]
    /\ want' = [want EXCEPT ![a] = NoWant]
    /\ previous' = [previous EXCEPT ![a] = None]
    /\ bound' = [bound EXCEPT ![a] = None]
    /\ server' = IF server = a THEN None ELSE server

\* The slot is locked and the combination validated, before anything stops.
Validate(a) ==
    /\ pc[a] = "wait" /\ server = None
    /\ \/ /\ Allowed(disabled, want[a])
          /\ server' = a
          /\ pc' = [pc EXCEPT ![a] = "stop"]
          /\ UNCHANGED plans
       \/ Leave(a)
    /\ UNCHANGED <<settings, authLock, slotVars, routers, store, wantDisabled,
                   changeVars, outside>>

\* A new generation, whatever comes of it; the store follows; the old listener
\* is taken out and stopped.
Stop(a) ==
    /\ pc[a] = "stop"
    /\ generation' = generation + 1
    /\ reach' = EmptyStore(generation + 1)
    /\ previous' = [previous EXCEPT ![a] = LivePort]
    /\ live' = None
    /\ pc' = [pc EXCEPT ![a] = "bind"]
    /\ UNCHANGED <<settings, locks, notice, failure, routers, issued, want, bound,
                   wantDisabled, changeVars, outside>>

\* The failure of an apply; its reason goes to the status with the restore.
Fail(a, reason) ==
    /\ failure' = reason
    /\ bound' = [bound EXCEPT ![a] = None]
    /\ pc' = [pc EXCEPT ![a] = "restore"]

\* bind_without_fallback: the port is reserved, nothing is answered yet.
Bind(a) ==
    /\ pc[a] = "bind"
    /\ \/ /\ want[a].enabled => want[a].port \notin busy
          /\ bound' = [bound EXCEPT ![a] = IF want[a].enabled THEN want[a].port ELSE None]
          /\ pc' = [pc EXCEPT ![a] = "check"]
          /\ UNCHANGED failure
       \/ /\ want[a].enabled
          /\ Fail(a, IF want[a].port \in busy THEN "portInUse" ELSE "bindFailed")
    /\ UNCHANGED <<settings, locks, live, generation, notice, routers, store, want,
                   previous, wantDisabled, changeVars, outside>>

\* A mutant: the save trusts the validation done before the listener stopped.
MutCheck(a) ==
    /\ pc[a] = "check" /\ authLock = None
    /\ authLock' = a
    /\ pc' = [pc EXCEPT ![a] = "save"]
    /\ UNCHANGED <<settings, server, slotVars, routers, store, plans, wantDisabled,
                   changeVars, outside>>

\* save_server_config_locked, set_server_config: the combination again, under
\* auth_config_lock, then one transaction.
Check(a) ==
    /\ pc[a] = "check" /\ authLock = None
    /\ IF Allowed(disabled, want[a])
       THEN /\ authLock' = a
            /\ pc' = [pc EXCEPT ![a] = "save"]
            /\ UNCHANGED <<bound, failure>>
       ELSE Fail(a, "saveFailed") /\ UNCHANGED authLock
    /\ UNCHANGED <<settings, server, live, generation, notice, routers, store, want,
                   previous, wantDisabled, changeVars, outside>>

\* A mutant: the keys are written one by one, outside a transaction.
MutSave(a) ==
    /\ pc[a] = "save"
    /\ \/ /\ saved' = want[a]
          /\ pc' = [pc EXCEPT ![a] = "serve"]
          /\ UNCHANGED <<bound, failure>>
       \/ Fail(a, "saveFailed") /\ saved' = [saved EXCEPT !.port = want[a].port]
    /\ authLock' = None
    /\ UNCHANGED <<disabled, server, live, generation, notice, routers, store, want,
                   previous, wantDisabled, changeVars, outside>>

Save(a) ==
    /\ pc[a] = "save"
    /\ \/ /\ saved' = want[a]
          /\ pc' = [pc EXCEPT ![a] = "serve"]
          /\ UNCHANGED <<bound, failure>>
       \/ Fail(a, "saveFailed") /\ UNCHANGED saved
    /\ authLock' = None
    /\ UNCHANGED <<disabled, server, live, generation, notice, routers, store, want,
                   previous, wantDisabled, changeVars, outside>>

\* A mutant: the router gets the generation read before it was advanced.
MutLaunch(port) ==
    /\ live' = [generation |-> generation - 1, port |-> port]
    /\ routers' = routers \cup {live'}

\* start_embedded_server on a bound port: the router gets the slot's generation.
Launch(port) ==
    /\ live' = [generation |-> generation, port |-> port]
    /\ routers' = routers \cup {live'}

Serve(a) ==
    /\ pc[a] = "serve"
    /\ IF bound[a] = None THEN live' = None /\ UNCHANGED routers
       ELSE Launch(bound[a])
    /\ notice' = "none" /\ failure' = "none"
    /\ Leave(a)
    /\ UNCHANGED <<settings, authLock, generation, store, wantDisabled, changeVars, outside>>

\* The listener that was running comes back on the port it had, if it can.
Restore(a) ==
    /\ pc[a] = "restore"
    /\ \/ previous[a] \in Ports \ busy /\ Launch(previous[a])
       \/ UNCHANGED <<live, routers>>
    /\ Leave(a)
    /\ UNCHANGED <<settings, authLock, generation, notice, failure, store, wantDisabled,
                   changeVars, outside>>

-----------------------------------------------------------------------------
(* auth_config_apply, as far as the server is concerned: set_auth_config   *)
(* checks the combination and saves, under auth_config_lock.               *)

AuthRequest ==
    /\ pc[AuthWriter] = "idle"
    /\ wantDisabled' = ~disabled
    /\ pc' = [pc EXCEPT ![AuthWriter] = "wait"]
    /\ UNCHANGED <<settings, locks, slotVars, routers, store, plans, changeVars, outside>>

AuthLeave == /\ pc' = [pc EXCEPT ![AuthWriter] = "idle"]
             /\ wantDisabled' = FALSE
             /\ authLock' = None

AuthCheck ==
    /\ pc[AuthWriter] = "wait" /\ authLock = None
    /\ IF Allowed(wantDisabled, saved)
       THEN /\ authLock' = AuthWriter
            /\ pc' = [pc EXCEPT ![AuthWriter] = "save"]
            /\ UNCHANGED wantDisabled
       ELSE AuthLeave
    /\ UNCHANGED <<settings, server, slotVars, routers, store, plans, changeVars, outside>>

AuthSave ==
    /\ pc[AuthWriter] = "save"
    /\ disabled' \in {wantDisabled, disabled}
    /\ AuthLeave
    /\ UNCHANGED <<saved, server, slotVars, routers, store, plans, changeVars, outside>>

-----------------------------------------------------------------------------
(* The reach check.                                                        *)

\* reach_check_issue: a token for the listener of the slot, under its lock.
Issue ==
    /\ server = None /\ live # None /\ issued < MaxIssue
    /\ reach.generation = generation
    /\ issued' = issued + 1
    /\ reach' = [reach EXCEPT !.active = [generation |-> generation, port |-> live.port]]
    /\ UNCHANGED <<settings, locks, slotVars, routers, pc, plans, wantDisabled,
                   changeVars, outside>>

\* The tests of ReachCheckState::check a request on router r has to pass.
Matches(r, token) ==
    /\ token.generation = r.generation /\ token.generation = reach.generation
    /\ token.port = r.port

\* POST /api/reach-check with the active token, from another PC: recorded once.
Reached(r) ==
    /\ reach.active # None /\ Matches(r, reach.active)
    /\ reach' = [generation |-> reach.generation, active |-> None,
                 records |-> reach.records \cup {r}]
    /\ UNCHANGED <<settings, locks, slotVars, routers, issued, pc, plans, wantDisabled,
                   changeVars, outside>>

\* The token expires unused.
Expire ==
    /\ reach.active # None
    /\ reach' = [reach EXCEPT !.active = None]
    /\ UNCHANGED <<settings, locks, slotVars, routers, issued, pc, plans, wantDisabled,
                   changeVars, outside>>

-----------------------------------------------------------------------------
(* firewall_rule_change: no lock is held while the user answers UAC.       *)

Running(c) == pc[c] \in {"compare", "helper", "again", "reread"}

\* The screen confirms the generation it was shown.
Confirm(c) ==
    /\ pc[c] = "idle" /\ server = None
    /\ target' = [target EXCEPT ![c] = generation]
    /\ result' = [result EXCEPT ![c] = "none"]
    /\ pc' = [pc EXCEPT ![c] = "ask"]
    /\ UNCHANGED <<settings, locks, slotVars, routers, store, plans, wantDisabled, ran, outside>>

ChangeStep(c, next, answer) ==
    /\ pc' = [pc EXCEPT ![c] = next]
    /\ result' = [result EXCEPT ![c] = answer]
    /\ UNCHANGED <<settings, locks, slotVars, routers, store, plans, wantDisabled,
                   target, outside>>

\* RunningGuard::try_take, and the placement check, which may refuse.
TakeGuard(c) ==
    /\ pc[c] = "ask"
    /\ IF \E other \in Changes : Running(other)
       THEN ChangeStep(c, "idle", "busy")
       ELSE ChangeStep(c, "compare", "none") \/ ChangeStep(c, "reread", "refused")
    /\ UNCHANGED ran

\* A mutant: the slot stays locked while the user answers UAC.
MutCompare(c) ==
    /\ pc[c] = "compare" /\ server = None /\ generation = target[c]
    /\ server' = c
    /\ pc' = [pc EXCEPT ![c] = "helper"]
    /\ UNCHANGED <<settings, authLock, slotVars, routers, store, plans, wantDisabled,
                   changeVars, outside>>

\* firewall_target_is_current takes the slot's lock for the comparison only.
Compare(c) ==
    /\ pc[c] = "compare" /\ server = None
    /\ IF generation = target[c] THEN ChangeStep(c, "helper", "none")
       ELSE ChangeStep(c, "reread", "targetChanged")
    /\ UNCHANGED ran

\* The elevated helper changes the rule, or the user declines.
Helper(c) ==
    /\ pc[c] = "helper"
    /\ ran' = [ran EXCEPT ![c] = generation]
    /\ ChangeStep(c, "again", "none")

\* A mutant: the comparison made before the helper started is trusted after it.
MutCompareAgain(c) ==
    /\ pc[c] = "again" /\ server = None
    /\ ChangeStep(c, "reread", "current")
    /\ UNCHANGED ran

CompareAgain(c) ==
    /\ pc[c] = "again" /\ server = None
    /\ ChangeStep(c, "reread", IF generation = target[c] THEN "current" ELSE "stale")
    /\ UNCHANGED ran

\* The closing read_firewall_rule_status, then the guard is dropped.
Reread(c) ==
    /\ pc[c] = "reread" /\ server = None
    /\ ChangeStep(c, "idle", result[c])
    /\ UNCHANGED ran

-----------------------------------------------------------------------------
(* Around the app.                                                         *)

\* The last connection of a stopped listener ends.
Drained(r) ==
    /\ r # live
    /\ routers' = routers \ {r}
    /\ UNCHANGED <<settings, locks, slotVars, store, pc, plans, wantDisabled, changeVars, outside>>

\* Another program takes or leaves a port this app does not hold.
OtherProgram(p) ==
    /\ p # LivePort /\ \A a \in Appliers : bound[a] # p
    /\ busy' = IF p \in busy THEN busy \ {p} ELSE busy \cup {p}
    /\ UNCHANGED <<settings, locks, slotVars, routers, store, pc, plans, wantDisabled,
                   changeVars, crashes>>

\* bind_saved_server_at_launch: the saved port, or, only when it is in use, one
\* behind it, which is saved before it serves.
LaunchPort(p) ==
    /\ saved.enabled /\ Allowed(disabled, saved)
    /\ p \in Ports \ busy
    /\ live' = [generation |-> 0, port |-> p]
    /\ routers' = {live'}
    /\ \/ p = saved.port /\ UNCHANGED saved /\ notice' = "none"
       \/ /\ saved.port \in busy /\ p > saved.port
          /\ \/ saved' = [saved EXCEPT !.port = p] /\ notice' = "fallback"
             \/ UNCHANGED saved /\ notice' = "fallbackUnsaved"

\* Not enabled, an inconsistent combination, or no port could be bound.
NoLaunch ==
    /\ live' = None /\ routers' = {}
    /\ notice' = IF saved.enabled /\ Allowed(disabled, saved) /\ saved.port \in busy
                 THEN "exhausted" ELSE "none"
    /\ UNCHANGED saved

\* The app ends, at any point, and is launched again: run().
Relaunch ==
    /\ crashes < MaxCrashes
    /\ crashes' = crashes + 1
    /\ NoLaunch \/ \E p \in Ports : LaunchPort(p)
    /\ generation' = 0 /\ failure' = "none" /\ reach' = EmptyStore(0)
    /\ pc' = Idle
    /\ want' = [a \in Appliers |-> NoWant] /\ previous' = NoPlan /\ bound' = NoPlan
    /\ wantDisabled' = FALSE /\ server' = None /\ authLock' = None
    /\ target' = [c \in Changes |-> 0] /\ ran' = target' /\ result' = [c \in Changes |-> "none"]
    /\ UNCHANGED <<disabled, issued, busy>>

Apply(a) ==
    \/ Validate(a) \/ Stop(a) \/ Bind(a) \/ Check(a) \/ Save(a) \/ Serve(a) \/ Restore(a)

Change(c) == TakeGuard(c) \/ Compare(c) \/ Helper(c) \/ CompareAgain(c) \/ Reread(c)

Next ==
    \/ \E a \in Appliers : Request(a) \/ Apply(a)
    \/ AuthRequest \/ AuthCheck \/ AuthSave
    \/ Issue \/ Expire \/ \E r \in routers : Reached(r)
    \/ \E c \in Changes : Confirm(c) \/ Change(c)
    \/ \E r \in routers : Drained(r)
    \/ \E p \in Ports : OtherProgram(p)
    \/ Relaunch

Spec == Init /\ [][Next]_vars

\* Steps of code that runs on its own end; the two mutexes serve their waiters
\* in order (tokio's Mutex is fair), which is what the strong fairness says.
\* Nothing is assumed of the user: the UAC prompt of Helper may stay open.
Fairness ==
    /\ \A a \in Appliers :
        /\ SF_vars(Validate(a)) /\ SF_vars(Check(a))
        /\ WF_vars(Stop(a) \/ Bind(a) \/ Save(a) \/ Serve(a) \/ Restore(a))
    /\ WF_vars(AuthSave)

FairSpec == Spec /\ Fairness

-----------------------------------------------------------------------------
(* Properties.                                                             *)

\* Every variable stays in its type, the locks and each command's state included.
TypeOK ==
    /\ saved \in ServerSettings /\ disabled \in BOOLEAN
    /\ server \in Appliers \cup {None} /\ authLock \in Appliers \cup {AuthWriter, None}
    /\ live \in Listener \cup {None} /\ generation \in Nat
    /\ notice \in {"none", "fallback", "fallbackUnsaved", "exhausted"}
    /\ failure \in {"none", "portInUse", "bindFailed", "saveFailed"}
    /\ routers \subseteq Listener /\ (live # None => live \in routers)
    /\ reach \in [generation : Nat, active : Listener \cup {None}, records : SUBSET Listener]
    /\ issued \in Nat /\ crashes \in Nat /\ busy \subseteq Ports
    /\ pc \in [Commands -> {"idle", "wait", "stop", "bind", "check", "save", "serve",
                            "restore", "ask", "compare", "helper", "again", "reread"}]
    /\ want \in [Appliers -> ServerSettings] /\ wantDisabled \in BOOLEAN
    /\ previous \in [Appliers -> Ports \cup {None}] /\ bound \in [Appliers -> Ports \cup {None}]
    /\ target \in [Changes -> Nat] /\ ran \in [Changes -> Nat]
    /\ result \in [Changes -> {"none", "busy", "refused", "targetChanged", "current", "stale"}]

\* Authentication off and a LAN listener without public viewing are never both
\* in force, neither in what is saved nor in what serves, although the two
\* settings have two writers (auth_server_combination_allowed, #288).
LanNeverOpenWithoutLogin ==
    /\ Allowed(disabled, saved)
    /\ live # None => saved.enabled /\ (disabled => saved.viewerPublic)

\* Whenever the slot can be read, the listener that serves is the saved one: a
\* failed apply restored the port it stopped and saved nothing. The one
\* exception is announced by the launch's notice (server_status, #459). And
\* where the server is saved as enabled and yet nothing serves, the status says
\* why, unless the launch itself could not bind (ServerSlot::apply_failure).
RunningServerIsTheSavedOne ==
    server = None =>
        /\ live # None /\ notice # "fallbackUnsaved" =>
               saved.enabled /\ live.port = saved.port
        /\ saved.enabled /\ live = None /\ generation > 0 => failure # "none"

\* The reach check follows the listener: a token the screen can still be showing
\* is one that the listener that serves accepts, the restored one of a failed
\* apply included, and the results shown are only of that listener - a
\* connection a stopped one left open proves nothing about the new one.
ReachCheckFollowsTheListener ==
    server = None =>
        /\ reach.active # None => live # None /\ Matches(live, reach.active)
        /\ reach.records \subseteq {live}

\* A firewall change answered as current was made while the server was the one
\* the user confirmed, although an apply may run while UAC waits.
CurrentChangeWasConfirmed ==
    \A c \in Changes : result[c] = "current" => ran[c] = target[c]

\* An apply returns, whoever else applies, and however long UAC stays open.
EveryApplyReturns == \A a \in Appliers : pc[a] = "wait" ~> pc[a] = "idle"
=============================================================================
