--------------------------- MODULE FirewallChange ---------------------------
(***************************************************************************)
(* The change of the application's firewall rule: the desktop command      *)
(* firewall_rule_change (src-tauri/src/lib.rs), which checks, asks for     *)
(* elevation and waits; the elevated helper (elev/src/lib.rs), a process   *)
(* of its own that reads the firewall, acts and reads again; the           *)
(* uninstaller's copy of the helper, which knows nothing of the command;   *)
(* and whoever else administers the PC.                                    *)
(*                                                                         *)
(* Each reading of the firewall is one PowerShell process that reads the   *)
(* profile, the local store and the ActiveStore one after the other.  What *)
(* the firewall does with its stores is external and modelled from what    *)
(* the scripts ask of it: a name is the key of the local store, and the    *)
(* ActiveStore holds the local rules as far as the policy lets them, with  *)
(* those of a group policy.                                                *)
(***************************************************************************)
EXTENDS FirewallRules

CONSTANTS
    Calls,          \* overlapping calls of the command
    Other,          \* the helper the uninstaller carries
    MaxEdits,       \* bound: what others do to the firewall
    MaxHelpers,     \* bound: helpers that run in a behaviour
    MaxFaults       \* bound: readings, scripts and waits that fail

OtherIsNoCall == Other \notin Calls

Helpers == Calls \cup {Other}

VARIABLES
    localRule,      \* the local store: the rule of the name, as <<[by, rule]>> or <<>>
    disallowed,     \* a policy keeps local rules from applying
    listed,         \* ... and the ActiveStore lists them all the same, not enforced
    policyRule,     \* a group policy has a rule of the same name
    step,           \* helper -> where it is
    op,             \* helper -> what it was started for
    snap,           \* helper -> what it has read: the policy and the local store
    code,           \* helper -> its exit code
    call,           \* call -> where the command is
    answer,         \* call -> the outcome
    running,        \* AppState.firewall_change_running
    audited,        \* call -> the results recorded for it
    edits, faults,
    seen            \* history: helper -> what held at some moment since it began, and
                    \* of one that changed the store, since it did

world == <<localRule, disallowed, listed, policyRule>>
helperVars == <<step, op, snap, code>>
callVars == <<call, answer, running, audited>>
bounds == <<edits, faults>>

vars == <<world, helperVars, callVars, bounds, seen>>

NoSnapshot == [disallowed |-> FALSE, local |-> <<>>]

-----------------------------------------------------------------------------
\* The stores as a reading finds them (external).
RulesOf(entries) == [i \in DOMAIN entries |-> entries[i].rule]

LocalStore == RulesOf(localRule)

ActiveOf(rule) ==
    [rule |-> rule, source |-> Local,
     codes |-> IF disallowed THEN {"LocalFirewallRulesDisallowed"} ELSE {"Full"}]

PolicyEntry == [rule |-> CreatedRule, source |-> GroupPolicy, codes |-> {"Full"}]

ActiveStore ==
    (IF disallowed /\ ~listed THEN <<>>
     ELSE [i \in DOMAIN localRule |-> ActiveOf(localRule[i].rule)])
        \o (IF policyRule THEN <<PolicyEntry>> ELSE <<>>)

Now == [disallowed |-> disallowed, local |-> LocalStore, active |-> ActiveStore]

\* What a moment shows of what the helper was asked for.
Moment(h) ==
    IF op[h] = "allow"
    THEN (IF localRule # <<>> /\ IsMine(localRule[1].rule) THEN {"own rule"} ELSE {})
            \cup (IF ~disallowed THEN {"local rules apply"} ELSE {})
    ELSE IF localRule = <<>> THEN {"no rule"} ELSE {}

SaysOk(h) == step[h] = "done" /\ code[h] \in {"ok", "already"}

Watched ==
    [h \in Helpers |->
        IF step[h] = "done" THEN seen[h]
        ELSE IF step'[h] \in {"off", "done"} /\ ~SaysOk(h)' THEN {}
        ELSE IF step[h] = "change" THEN Moment(h)'
        ELSE seen[h] \cup Moment(h)']

Fail == faults < MaxFaults /\ faults' = faults + 1

-----------------------------------------------------------------------------
Init ==
    /\ localRule = <<>>
    /\ disallowed = FALSE
    /\ listed \in BOOLEAN
    /\ policyRule = FALSE
    /\ step = [h \in Helpers |-> "off"]
    /\ op = [h \in Helpers |-> "none"]
    /\ snap = [h \in Helpers |-> NoSnapshot]
    /\ code = [h \in Helpers |-> "none"]
    /\ call = [c \in Calls |-> "idle"]
    /\ answer = [c \in Calls |-> "none"]
    /\ running = FALSE
    /\ audited = [c \in Calls |-> <<>>]
    /\ edits = 0
    /\ faults = 0
    /\ seen = [h \in Helpers |-> {}]

\* An administrator or a policy changes the firewall (external).
Edit ==
    /\ edits < MaxEdits
    /\ edits' = edits + 1
    /\ \/ \E rule \in OtherRules \cup {CreatedRule} :
              /\ localRule' = <<[by |-> "others", rule |-> rule]>>
              /\ UNCHANGED <<disallowed, policyRule>>
       \/ /\ localRule # <<>>
          /\ localRule' = <<>>
          /\ UNCHANGED <<disallowed, policyRule>>
       \/ /\ disallowed' = ~disallowed
          /\ UNCHANGED <<localRule, policyRule>>
       \/ /\ policyRule' = ~policyRule
          /\ UNCHANGED <<localRule, disallowed>>
    /\ UNCHANGED <<listed, helperVars, callVars, faults>>

-----------------------------------------------------------------------------
\* The helper: run and act.

Exit(h, c) ==
    /\ step' = [step EXCEPT ![h] = "done"]
    /\ code' = [code EXCEPT ![h] = c]
    /\ snap' = [snap EXCEPT ![h] = NoSnapshot]

\* run: the placement is judged first; run_remove_installed judges the main
\* exe in the folder it is told.
NotPlaced(h) ==
    /\ step[h] = "read"
    /\ Exit(h, "precondition")
    /\ UNCHANGED <<world, op, callVars, bounds>>

\* FirewallOps::query, one store after the other: the profile and the local
\* store first.  The reading may fail, and is given up after a minute.
ReadLocal(h) ==
    /\ step[h] \in {"read", "read again"}
    /\ step' = [step EXCEPT ![h] = IF @ = "read" THEN "active" ELSE "active again"]
    /\ snap' = [snap EXCEPT ![h] =
                  [disallowed |-> disallowed, local |-> localRule]]
    /\ UNCHANGED <<world, op, code, callVars, bounds>>

ReadFails(h) ==
    /\ step[h] \in {"read", "active", "read again", "active again"}
    /\ Fail
    /\ Exit(h, "failed")
    /\ UNCHANGED <<world, op, callVars, edits>>

\* The ActiveStore is read last: RuleSnapshot.
ReadBy(h) == [disallowed |-> snap[h].disallowed, local |-> RulesOf(snap[h].local),
              active |-> ActiveStore]

\* act, on what the first reading found: the exit code, or "change".
MutActs(o, state, noLocal) ==
    CASE state = "conflict" -> IF o = "allow" THEN "conflict" ELSE "change"
      [] state = "absent" ->
            IF o = "remove" THEN "ok" ELSE IF noLocal THEN "policy" ELSE "change"
      [] state = "owned" -> IF o = "allow" THEN "already" ELSE "change"
      [] state = "owned, not in effect" -> IF o = "allow" THEN "policy" ELSE "change"

Acts(o, state, noLocal) ==
    CASE state = "conflict" -> "conflict"
      [] state = "absent" ->
            IF o = "remove" THEN "ok" ELSE IF noLocal THEN "policy" ELSE "change"
      [] state = "owned" -> IF o = "allow" THEN "already" ELSE "change"
      [] state = "owned, not in effect" -> IF o = "allow" THEN "policy" ELSE "change"

ReadActive(h) ==
    /\ step[h] = "active"
    /\ LET act == Acts(op[h], Classify(ReadBy(h)), snap[h].disallowed)
       IN IF act = "change"
          THEN /\ step' = [step EXCEPT ![h] = "change"]
               /\ UNCHANGED <<snap, code>>
          ELSE Exit(h, act)
    /\ UNCHANGED <<world, op, callVars, bounds>>

\* PowerShellFirewall::create: the name is a key, a second rule of it is
\* refused.
Create ==
    /\ localRule = <<>>
    /\ localRule' = <<[by |-> "helper", rule |-> CreatedRule]>>

\* PowerShellFirewall::remove: by name, from the local store; a rule that is
\* not there is an error.
Remove ==
    /\ localRule # <<>>
    /\ localRule' = <<>>

Performs(h) == IF op[h] = "allow" THEN Create ELSE Remove

Refuses(h) == IF op[h] = "allow" THEN localRule # <<>> ELSE localRule = <<>>

\* act: the change itself; a script that is given up on may have done it.
Change(h) ==
    /\ step[h] = "change"
    /\ \/ /\ Performs(h)
          /\ step' = [step EXCEPT ![h] = "read again"]
          /\ UNCHANGED <<snap, code, faults>>
       \/ /\ Refuses(h)
          /\ Exit(h, "failed")
          /\ UNCHANGED <<localRule, faults>>
       \/ /\ Performs(h)
          /\ Fail
          /\ Exit(h, "failed")
       \/ /\ Fail
          /\ Exit(h, "failed")
          /\ UNCHANGED localRule
    /\ UNCHANGED <<disallowed, listed, policyRule, op, callVars, edits>>

\* act, on what the reading after the change found.
MutEnds(o, read) == "ok"

Ends(o, read) ==
    IF o = "allow"
    THEN CASE Classify(read) = "owned" -> "ok"
           [] Classify(read) = "owned, not in effect" -> "policy"
           [] OTHER -> "failed"
    ELSE IF read.local = <<>> THEN "ok" ELSE "failed"

ReadAgain(h) ==
    /\ step[h] = "active again"
    /\ Exit(h, Ends(op[h], ReadBy(h)))
    /\ UNCHANGED <<world, op, callVars, bounds>>

Starts(h) ==
    /\ step[h] = "off"
    /\ Cardinality({k \in Helpers : step[k] # "off"}) < MaxHelpers
    /\ step' = [step EXCEPT ![h] = "read"]

\* The NSIS hook runs its own copy, at most once.
Uninstall ==
    /\ Starts(Other)
    /\ op' = [op EXCEPT ![Other] = "remove"]
    /\ UNCHANGED <<world, snap, code, callVars, bounds>>

-----------------------------------------------------------------------------
\* The command: firewall_rule_change_body.

To(c, at) == call' = [call EXCEPT ![c] = at]

Answer(c, outcome) == answer' = [answer EXCEPT ![c] = outcome]

\* RunningGuard::try_take.
Take == ~running

Begin(c) ==
    /\ call[c] = "idle"
    /\ IF Take
       THEN /\ running' = TRUE
            /\ \E o \in {"allow", "remove"} : op' = [op EXCEPT ![c] = o]
            /\ To(c, "elevate")
            /\ UNCHANGED answer
       ELSE /\ Answer(c, "busy")
            /\ To(c, "answered")
            /\ UNCHANGED <<op, running>>
    /\ UNCHANGED <<world, step, snap, code, audited, bounds>>

\* What comes before the helper changes nothing others see.  First
\* judge_before_elevation and the identifier, on a blocking thread ...
JudgeBeforeElevation(c) ==
    /\ Answer(c, "precondition")
    /\ To(c, "audit")
    /\ UNCHANGED step

\* ... firewall_target_is_current: the generation and the path are compared
\* with those the screen showed (ServerApply has what moves the generation)
FirewallTargetIsOld(c) ==
    /\ Answer(c, "targetChanged")
    /\ To(c, "reread")
    /\ UNCHANGED step

\* ... and run_elevated: the prompt is accepted and the helper starts, or it
\* is declined, or nothing can be started.
RunElevated(c) ==
    \/ /\ To(c, "wait")
       /\ Starts(c)
       /\ UNCHANGED answer
    \/ /\ \E o \in {"cancelled", "launchFailed"} : Answer(c, o)
       /\ To(c, "audit")
       /\ UNCHANGED step

Elevate(c) ==
    /\ call[c] = "elevate"
    /\ \/ JudgeBeforeElevation(c)
       \/ FirewallTargetIsOld(c)
       \/ RunElevated(c)
    /\ UNCHANGED <<world, op, snap, code, running, audited, bounds>>

\* outcome_of_exit.
OutcomeOfExit(c) ==
    CASE c = "ok" -> "done"
      [] OTHER -> c

\* WaitForSingleObject and GetExitCodeProcess; a wait that fails leaves the
\* helper at work.
Wait(c) ==
    /\ call[c] = "wait"
    /\ \/ /\ step[c] = "done"
          /\ Answer(c, OutcomeOfExit(code[c]))
          /\ UNCHANGED faults
       \/ /\ Fail
          /\ Answer(c, "launchFailed")
    /\ To(c, "audit")
    /\ UNCHANGED <<world, helperVars, running, audited, edits>>

\* Attempt.outcome.audit_result; AuditLog::record.
AuditResult(outcome) == IF outcome \in {"done", "already"} THEN "ok" ELSE "failed"

Audit(c) ==
    /\ call[c] = "audit"
    /\ audited' = [audited EXCEPT ![c] = Append(@, AuditResult(answer[c]))]
    /\ To(c, "reread")
    /\ UNCHANGED <<world, helperVars, answer, running, bounds>>

\* read_firewall_rule_status, and the guard is dropped with the answer.
Return(c) ==
    /\ call[c] = "reread"
    /\ To(c, "answered")
    /\ running' = FALSE
    /\ UNCHANGED <<world, helperVars, answer, audited, bounds>>

-----------------------------------------------------------------------------
HelperStep(h) ==
    \/ NotPlaced(h)
    \/ ReadLocal(h)
    \/ ReadFails(h)
    \/ ReadActive(h)
    \/ Change(h)
    \/ ReadAgain(h)

CallStep(c) ==
    \/ Begin(c)
    \/ Elevate(c)
    \/ Wait(c)
    \/ Audit(c)
    \/ Return(c)

Next ==
    /\ \/ Edit
       \/ Uninstall
       \/ \E h \in Helpers : HelperStep(h)
       \/ \E c \in Calls : CallStep(c)
    /\ seen' = Watched

Spec == Init /\ [][Next]_vars

-----------------------------------------------------------------------------
\* What the helper says it did was so at some moment of its run, and of a
\* change, at some moment after it (act's second reading, elev/src/lib.rs:304):
\* a rule reported as created or in place was there and its own, and local
\* rules applied; one reported as removed was gone.  The audit records a change
\* as "ok" only then, exactly once for every change that was started and not
\* at all for one that was not.
OkMeansAsAsked ==
    /\ \A h \in Helpers : SaysOk(h) =>
          IF op[h] = "allow" THEN {"own rule", "local rules apply"} \subseteq seen[h]
                             ELSE "no rule" \in seen[h]
    /\ \A c \in Calls :
          /\ "ok" \in {audited[c][i] : i \in DOMAIN audited[c]} => code[c] \in {"ok", "already"}
          /\ call[c] = "answered" =>
                Len(audited[c]) = IF answer[c] \in {"busy", "targetChanged"}
                                  THEN 0 ELSE 1

\* "Anything else with the same name is a conflict - it is neither reported as
\* already there nor removed" (elev/src/rules.rs:7): a rule the helper removes
\* and that is not its own was put there after it read the store.
OnlyOwnRulesAreRemoved ==
    [][\A h \in Helpers :
          step[h] = "change" /\ step'[h] # "change" /\ localRule # <<>> /\ localRule' = <<>>
              => IsMine(localRule[1].rule) \/ snap[h].local # localRule]_vars

\* The helper and the screen read the same firewall alike: the helper's own
\* rule is the one the screen calls right, a rule that is not in effect is
\* shown as such, nothing is nothing to both, and what the screen calls right
\* and local the helper owns, unless it differs where only the helper looks.
\* A rule the helper made and nobody touched is its own.
ScreenAgreesWithHelper ==
    LET state == Classify(Now)
        check == CheckRule(LocalStore, ActiveStore, TRUE, TRUE, TRUE)
        right == check.state = "present" /\ check.mismatches = {} /\ check.unchecked = {}
    IN /\ state = "owned" => right /\ check.origin = Local /\ check.local = "same"
       /\ state = "owned, not in effect" =>
             check.state = "present" /\ check.mismatches \cap {"Active", "Enforcement"} # {}
       /\ state = "absent" <=> check.state = "missing"
       /\ right /\ check.origin = Local =>
             state = "owned"
                 \/ Differences(localRule[1].rule) \cap DOMAIN ScreenExpects = {}
       /\ localRule # <<>> /\ localRule[1].by = "helper" /\ ~policyRule => state # "conflict"

\* What the screen and the helper say of the rule is so, and they say the same.
RuleAnswersAreTrue == OkMeansAsAsked /\ ScreenAgreesWithHelper
=============================================================================
