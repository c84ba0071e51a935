--------------------------- MODULE FirewallRules ---------------------------
(***************************************************************************)
(* The one firewall rule of the application, read by two programs that     *)
(* share no code for it: the elevated helper, which decides whether an     *)
(* existing rule is its own (elev/src/rules.rs), and the unelevated        *)
(* settings screen, which tells what the rule in effect is and where it    *)
(* differs from the one asked for (src-tauri/src/firewall_status.rs).      *)
(*                                                                         *)
(* A rule is a function from fields to what the cmdlets list for them.     *)
(* The texts both programs compare without regard to case are values here, *)
(* and the fields only the helper reads are stood for by three of them.    *)
(***************************************************************************)
EXTENDS Naturals, FiniteSets, Sequences

\* What rules::expected_fields compares, with the values it wants.
ExpectedFields ==
    [Group |-> {"identifier"}, Enabled |-> {"True"}, Direction |-> {"Inbound"},
     Action |-> {"Allow"}, Profile |-> {"Private"}, Program |-> {"main exe"},
     Protocol |-> {"TCP"}, LocalPort |-> {"Any"}, RemoteAddress |-> {"LocalSubnet"},
     EdgeTraversalPolicy |-> {"Block"}, Service |-> {"Any"}, Platform |-> {}]

\* The rule powershell::create_script makes: what it names, and the defaults
\* of New-NetFirewallRule for the rest.
CreatedRule ==
    [Group |-> {"identifier"}, Enabled |-> {"True"}, Direction |-> {"Inbound"},
     Action |-> {"Allow"}, Profile |-> {"Private"}, Program |-> {"main exe"},
     Protocol |-> {"TCP"}, LocalPort |-> {"Any"}, RemoteAddress |-> {"LocalSubnet"},
     EdgeTraversalPolicy |-> {"Block"}, Service |-> {"Any"}, Platform |-> {}]

\* Rules of the same name a person or a policy may have put there.
OtherRules ==
    {[CreatedRule EXCEPT !.Profile = {"Private", "Domain"}],
     [CreatedRule EXCEPT !.Program = {"old exe"}],
     [CreatedRule EXCEPT !.Service = {"one service"}]}

\* How a rule got into the ActiveStore, and whether the profile enforces it.
Local == "Local"
GroupPolicy == "GroupPolicy"

-----------------------------------------------------------------------------
\* rules::first_difference: the fields in which a rule read from a store is
\* not the helper's; in the ActiveStore its source is compared as well.
Differences(rule) == {f \in DOMAIN ExpectedFields : rule[f] # ExpectedFields[f]}

IsMine(rule) == Differences(rule) = {}

IsMineActive(entry) == IsMine(entry.rule) /\ entry.source = Local

\* rules::classify over a snapshot: the local rules of the name, those in
\* effect, and whether the policy keeps local rules from applying.
Classify(snapshot) ==
    LET local == snapshot.local
        active == snapshot.active
    IN CASE local = <<>> -> IF active = <<>> THEN "absent" ELSE "conflict"
         [] Len(local) > 1 -> "conflict"
         [] Len(local) = 1 /\ ~IsMine(local[1]) -> "conflict"
         [] Len(local) = 1 /\ IsMine(local[1]) ->
                CASE active = <<>> -> "owned, not in effect"
                  [] Len(active) > 1 -> "conflict"
                  [] Len(active) = 1 /\ ~IsMineActive(active[1]) -> "conflict"
                  [] Len(active) = 1 /\ IsMineActive(active[1]) ->
                        IF snapshot.disallowed THEN "owned, not in effect" ELSE "owned"

-----------------------------------------------------------------------------
\* The constants of firewall_status.rs and the values of the program rule.
ScreenExpects ==
    [Enabled |-> {"True"}, Direction |-> {"Inbound"}, Action |-> {"Allow"},
     Protocol |-> {"TCP"}, Profile |-> {"Private"}, RemoteAddress |-> {"LocalSubnet"},
     Program |-> {"main exe"}, LocalPort |-> {"Any"}]

\* firewall_status::compare for the program's rule: the executable's path is
\* unchecked when this process does not know its own.
Mismatches(rule, pathKnown) ==
    {f \in DOMAIN ScreenExpects :
        rule[f] # ScreenExpects[f] /\ (f = "Program" => pathKnown)}

Unchecked(pathKnown) == IF pathKnown THEN {} ELSE {"Program"}

\* Enforcement::from_value over the codes the CIM property lists.
EnforcementOf(codes) ==
    CASE codes = {} -> "unknown"
      [] codes = {"Full"} -> "enforced"
      [] codes # {} /\ "Full" \notin codes -> "not enforced"
      [] OTHER -> "unknown"

\* firewall_status::read_store: a store in which the name is found more than
\* once, or that cannot be read, is an error.
ReadStore(entries, readable) ==
    IF ~readable \/ Len(entries) > 1 THEN "error"
    ELSE IF entries = <<>> THEN "missing" ELSE "present"

SameValues(a, b) == \A f \in DOMAIN ScreenExpects : a[f] = b[f]

UnknownCheck == [state |-> "unknown", origin |-> "none", local |-> "unknown",
                 mismatches |-> {}, unchecked |-> {}]

MissingCheck == [state |-> "missing", origin |-> "none", local |-> "missing",
                 mismatches |-> {}, unchecked |-> {}]

\* check_rule when a rule of the name is in effect ...
CheckEffective(local, entry, pathKnown, localReadable) ==
    LET enforcement == EnforcementOf(entry.codes)
    IN [state |-> "present",
        origin |-> entry.source,
        local |-> CASE ReadStore(local, localReadable) = "error" -> "unknown"
                    [] ReadStore(local, localReadable) = "missing" -> "missing"
                    [] ReadStore(local, localReadable) = "present" ->
                          IF SameValues(local[1], entry.rule) THEN "same" ELSE "differs",
        mismatches |-> Mismatches(entry.rule, pathKnown)
            \cup (IF enforcement = "not enforced" THEN {"Enforcement"} ELSE {}),
        unchecked |-> Unchecked(pathKnown)
            \cup (IF enforcement = "unknown" THEN {"Enforcement"} ELSE {})]

\* ... and when only the local store has one.
CheckLocalOnly(rule, pathKnown) ==
    [state |-> "present", origin |-> "none", local |-> "same",
     mismatches |-> Mismatches(rule, pathKnown) \cup {"Active"},
     unchecked |-> Unchecked(pathKnown)]

\* check_rule over the two stores.
CheckRule(local, active, pathKnown, localReadable, activeReadable) ==
    CASE ReadStore(active, activeReadable) = "error" -> UnknownCheck
      [] ReadStore(active, activeReadable) = "present" ->
            CheckEffective(local, active[1], pathKnown, localReadable)
      [] ReadStore(active, activeReadable) = "missing" ->
            CASE ReadStore(local, localReadable) = "error" -> UnknownCheck
              [] ReadStore(local, localReadable) = "missing" -> MissingCheck
              [] ReadStore(local, localReadable) = "present" ->
                    CheckLocalOnly(local[1], pathKnown)
=============================================================================
