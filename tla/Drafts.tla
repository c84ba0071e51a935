------------------------------- MODULE Drafts -------------------------------
(***************************************************************************)
(* Unapplied input: the drafts of the forms on a screen (FormDraft), the   *)
(* one prompt that applies or discards several of them while their panes   *)
(* are docked and undocked (DraftCoordinator.settle), and the guard that   *)
(* asks before the page is left (runLeaveCheck).                           *)
(*                                                                         *)
(* Every input is a number of its own, so equal contents are the same      *)
(* input. A pane-local form keeps its input in the pane: it is captured    *)
(* before the pane goes and restored into the next one. Applies are served *)
(* in the order they were sent; their answers come in any order.           *)
(***************************************************************************)
EXTENDS Naturals, FiniteSets

CONSTANTS
    Keys, PaneLocal,   \* PaneLocal \subseteq Keys
    Settles,
    MaxInputs, MaxMounts, MaxRounds, MaxFaults   \* bounds: the last two settles, refused applies

NoText == [input |-> 0, valid |-> TRUE]

VARIABLES
    value, raw, baseline,       \* key -> values, uncommitted text, what was applied
    revision, baselineRevision,
    mounted,                    \* key -> its source is registered
    captured,                   \* key -> the input taken out of the pane, 0 if none
    applies,                    \* under way: answers are outstanding
    settle,                     \* settle call -> where it is
    stored,                     \* history: key -> what was applied last
    unapplied,                  \* history: key -> the newest input neither applied nor discarded
    closed, lost,               \* forms thrown away; one of them with unapplied input
    inputs, mounts, rounds, faults

counters == <<inputs, mounts, rounds, faults>>
draftVars == <<value, raw, baseline, revision, baselineRevision>>
paneVars == <<mounted, captured>>
vars == <<draftVars, paneVars, applies, settle, stored, unapplied, closed, lost, counters>>

Idle == [at |-> "idle", targets |-> {}, dirty |-> {}, fresh |-> FALSE, ok |-> TRUE, result |-> "none"]

Init ==
    /\ value = [k \in Keys |-> 0] /\ raw = [k \in Keys |-> NoText]
    /\ baseline = [k \in Keys |-> 0]
    /\ revision = [k \in Keys |-> 0] /\ baselineRevision = [k \in Keys |-> 0]
    /\ mounted = [k \in Keys |-> TRUE] /\ captured = [k \in Keys |-> 0]
    /\ applies = {} /\ settle = [s \in Settles |-> Idle]
    /\ stored = [k \in Keys |-> 0] /\ unapplied = [k \in Keys |-> 0]
    /\ closed = {} /\ lost = FALSE
    /\ inputs = 0 /\ mounts = 0 /\ rounds = 0 /\ faults = 0

-----------------------------------------------------------------------------
(* FormDraft                                                               *)

IsDirty(k) == value[k] # baseline[k] \/ raw[k] # NoText

\* setRaw: text that may not parse, in a pane that is on the screen.
Type(k, valid) ==
    /\ mounted[k] /\ k \notin closed /\ inputs < MaxInputs /\ inputs' = inputs + 1
    /\ raw' = [raw EXCEPT ![k] = [input |-> inputs', valid |-> valid]]
    /\ revision' = [revision EXCEPT ![k] = @ + 1]
    /\ unapplied' = [unapplied EXCEPT ![k] = inputs']
    /\ UNCHANGED <<value, baseline, baselineRevision, paneVars, applies, settle, stored, closed, lost,
                   mounts, rounds, faults>>

\* commit: on blur or Enter; text that does not parse stays.
Commit(k) ==
    /\ raw[k] # NoText /\ raw[k].valid
    /\ value' = [value EXCEPT ![k] = raw[k].input] /\ raw' = [raw EXCEPT ![k] = NoText]
    /\ revision' = [revision EXCEPT ![k] = @ + 1]
    /\ UNCHANGED <<baseline, baselineRevision, paneVars, applies, settle, stored, unapplied, closed,
                   lost, counters>>

\* commitAll and snapshotForApply.
CommitAllOk(k) == raw[k].valid
Final(k) == IF raw[k] # NoText THEN raw[k].input ELSE value[k]
Committed(k) == IF raw[k] # NoText THEN revision[k] + 1 ELSE revision[k]

\* markApplied: not for a snapshot older than the baseline.
IsOlder(a) == a.revision < baselineRevision[a.key]

MutAppliedValue(a) == value[a.key]

\* The baseline becomes the snapshot, not the values of now.
AppliedValue(a) == a.input

-----------------------------------------------------------------------------
(* DraftCoordinator                                                        *)

\* owner.invalidate(k): settles that wait on k have become stale.
Staled(k) == [s \in Settles |->
    IF k \in settle[s].targets /\ settle[s].at # "idle" THEN [settle[s] EXCEPT !.fresh = FALSE] ELSE settle[s]]

Capture(k) ==
    /\ k \in PaneLocal /\ mounted[k] /\ k \notin closed
    /\ captured' = [captured EXCEPT ![k] = Final(k)]
    /\ UNCHANGED <<draftVars, mounted, applies, settle, stored, unapplied, closed, lost, counters>>

\* A pane with its own input goes, right after its capture (a FormDraft is
\* registered by its page and stays). What it shows next is what was applied.
Unregister(k) ==
    /\ k \in PaneLocal /\ mounted[k] /\ k \notin closed
    /\ mounts < MaxMounts /\ mounts' = mounts + 1
    /\ captured[k] = Final(k)
    /\ mounted' = [mounted EXCEPT ![k] = FALSE]
    /\ settle' = Staled(k)
    /\ value' = [value EXCEPT ![k] = baseline[k]] /\ raw' = [raw EXCEPT ![k] = NoText]
    /\ UNCHANGED <<baseline, revision, baselineRevision, captured, applies, stored, unapplied, closed,
                   lost, inputs, rounds, faults>>

\* ... and comes back, with what was captured.
Register(k) ==
    /\ ~mounted[k] /\ k \notin closed
    /\ mounted' = [mounted EXCEPT ![k] = TRUE] /\ captured' = [captured EXCEPT ![k] = 0]
    /\ settle' = Staled(k)
    /\ value' = IF captured[k] # 0 THEN [value EXCEPT ![k] = captured[k]] ELSE value
    /\ revision' = [revision EXCEPT ![k] = @ + 1]
    /\ UNCHANGED <<raw, baseline, baselineRevision, applies, stored, unapplied, closed, lost,
                   counters>>

\* A held capture counts for a form that is not there.
HeldDirty(k) == captured[k] # 0 /\ captured[k] # baseline[k]
IsDirtyNow(k) == IF mounted[k] THEN IsDirty(k) ELSE HeldDirty(k)
Known == {k \in Keys \ closed : mounted[k] \/ captured[k] # 0}

Finish(s, result, others) ==
    settle' = [others EXCEPT ![s] = [Idle EXCEPT !.targets = settle[s].targets, !.result = result]]

\* settle, up to its prompt: every target's request begins anew.
BeginSettle(s, targets) ==
    /\ rounds < MaxRounds /\ rounds' = rounds + 1
    /\ settle[s] = Idle /\ targets # {} /\ targets \subseteq Known
    /\ LET dirty == {k \in targets : IsDirtyNow(k)}
           others == [t \in Settles |->
                        IF settle[t].targets \cap targets # {} THEN [settle[t] EXCEPT !.fresh = FALSE]
                                                               ELSE settle[t]]
       IN  settle' = IF dirty = {}
                       THEN [settle EXCEPT ![s] = [Idle EXCEPT !.targets = targets, !.result = "clean"]]
                       ELSE [others EXCEPT ![s] = [Idle EXCEPT !.at = "asking", !.targets = targets,
                                                     !.dirty = dirty, !.fresh = TRUE]]
    /\ UNCHANGED <<draftVars, paneVars, applies, stored, unapplied, closed, lost, inputs, mounts, faults>>

Asking(s) == settle[s].at = "asking"

NotResolved(s) ==
    /\ Asking(s)
    /\ \E result \in {"stale", "cancelled"} :
         (result = "stale" <=> ~settle[s].fresh) /\ Finish(s, result, settle)
    /\ UNCHANGED <<draftVars, paneVars, applies, stored, unapplied, closed, lost, counters>>

\* Every target, the ones that were clean too, is clean when settle resolves.
AllClean(s, dirty) == settle[s].targets \cap dirty = {}

Discard(s) ==
    /\ Asking(s) /\ settle[s].fresh
    /\ LET here == {k \in settle[s].dirty : mounted[k]}
       IN  /\ value' = [k \in Keys |-> IF k \in here THEN baseline[k] ELSE value[k]]
           /\ raw' = [k \in Keys |-> IF k \in here THEN NoText ELSE raw[k]]
           /\ revision' = [k \in Keys |-> IF k \in here THEN revision[k] + 1 ELSE revision[k]]
           /\ captured' = [k \in Keys |-> IF k \in settle[s].dirty \ here THEN 0 ELSE captured[k]]
           /\ unapplied' = [k \in Keys |-> IF k \in settle[s].dirty THEN 0 ELSE unapplied[k]]
           /\ LET dirty == {k \in Keys : IsDirtyNow(k)} \ settle[s].dirty
              IN  Finish(s, IF AllClean(s, dirty) THEN "discarded" ELSE "dirty-again", settle)
    /\ UNCHANGED <<baseline, baselineRevision, mounted, applies, stored, closed, lost, counters>>

\* Every apply starts, each with a snapshot of its own input, before any is
\* waited for; an input that does not validate, or a capture without its form,
\* fails at once.
Apply(s, refused) ==
    /\ Asking(s) /\ settle[s].fresh
    /\ faults + Cardinality(refused) <= MaxFaults /\ faults' = faults + Cardinality(refused)
    /\ LET sent == {k \in settle[s].dirty : mounted[k] /\ CommitAllOk(k)}
       IN  /\ refused \subseteq sent
           /\ value' = [k \in Keys |-> IF k \in sent THEN Final(k) ELSE value[k]]
           /\ raw' = [k \in Keys |-> IF k \in sent THEN NoText ELSE raw[k]]
           /\ revision' = [k \in Keys |-> IF k \in sent THEN Committed(k) ELSE revision[k]]
           /\ applies' = applies \cup {[settle |-> s, key |-> k, input |-> Final(k), revision |-> Committed(k),
                                        ok |-> k \notin refused] : k \in sent}
           /\ stored' = [k \in Keys |-> IF k \in sent \ refused THEN Final(k) ELSE stored[k]]
           /\ settle' = [settle EXCEPT ![s].at = "applying", ![s].ok = (sent = settle[s].dirty)]
    /\ UNCHANGED <<baseline, baselineRevision, paneVars, unapplied, closed, lost, inputs, mounts, rounds>>

\* An apply is confirmed: markApplied.
Applied(a) ==
    /\ a.ok /\ applies' = applies \ {a}
    /\ IF IsOlder(a)
         THEN UNCHANGED <<baseline, baselineRevision>>
         ELSE /\ baseline' = [baseline EXCEPT ![a.key] = AppliedValue(a)]
              /\ baselineRevision' = [baselineRevision EXCEPT ![a.key] = a.revision]
    /\ unapplied' = [unapplied EXCEPT ![a.key] = IF @ <= a.input THEN 0 ELSE @]
    /\ UNCHANGED <<value, raw, revision, paneVars, settle, stored, closed, lost, counters>>

\* Or refused, and its input stays dirty.
Refused(a) ==
    /\ ~a.ok /\ applies' = applies \ {a}
    /\ settle' = [settle EXCEPT ![a.settle].ok = FALSE]
    /\ UNCHANGED <<draftVars, paneVars, stored, unapplied, closed, lost, counters>>

\* settle, after its last answer.
Resolve(s) ==
    /\ settle[s].at = "applying" /\ ~(\E a \in applies : a.settle = s)
    /\ Finish(s, CASE ~settle[s].fresh -> "stale"
                   [] ~settle[s].ok -> "failed"
                   [] AllClean(s, {k \in Keys : IsDirtyNow(k)}) -> "applied"
                   [] OTHER -> "dirty-again", settle)
    /\ UNCHANGED <<draftVars, paneVars, applies, stored, unapplied, closed, lost, counters>>

ThrownAway(keys) ==
    /\ closed' = closed \cup keys
    /\ lost' = (lost \/ \E k \in keys : unapplied[k] # 0)

\* The panes of a settle that resolved are closed, in the same turn.
Close(s) ==
    /\ settle[s].result \in {"clean", "applied", "discarded"}
    /\ settle' = [settle EXCEPT ![s] = Idle]
    /\ ThrownAway(settle[s].targets)
    /\ UNCHANGED <<draftVars, paneVars, applies, stored, unapplied, counters>>

\* Or kept.
Keep(s) ==
    /\ settle[s].result # "none" /\ settle' = [settle EXCEPT ![s] = Idle]
    /\ UNCHANGED <<draftVars, paneVars, applies, stored, unapplied, closed, lost, counters>>

-----------------------------------------------------------------------------
(* The page is left without a question when nothing is pending.            *)

Pending == (\E k \in Known : IsDirtyNow(k)) \/ \E s \in Settles : settle[s].at # "idle"

Leave ==
    /\ ~Pending
    /\ ThrownAway(Keys \ closed)
    /\ UNCHANGED <<draftVars, paneVars, applies, settle, stored, unapplied, counters>>

-----------------------------------------------------------------------------
\* A settle that has its result runs on to what the page does with it.
Resolved == {s \in Settles : settle[s].result # "none"}

Next ==
    IF Resolved # {} THEN \E s \in Resolved : Close(s) \/ Keep(s)
    ELSE \/ \E k \in Keys : Commit(k) \/ Capture(k) \/ Unregister(k) \/ Register(k)
         \/ \E k \in Keys, valid \in BOOLEAN : Type(k, valid)
         \/ \E s \in Settles, targets \in SUBSET Keys : BeginSettle(s, targets)
         \/ \E s \in Settles : NotResolved(s) \/ Discard(s) \/ Resolve(s)
         \/ \E s \in Settles, refused \in SUBSET Keys : Apply(s, refused)
         \/ \E a \in applies : Applied(a) \/ Refused(a)
         \/ Leave

Spec == Init /\ [][Next]_vars

-----------------------------------------------------------------------------
\* What is thrown away without the person's word holds no input of theirs:
\* not typed while the prompt was open, nor while an apply was awaited, nor in
\* a pane that was docked meanwhile (settle, markApplied, runLeaveCheck).
NoInputIsThrownAway == ~lost

\* A draft that is clean, with no apply under way, shows what was applied last:
\* an earlier, slower apply does not move the baseline back (markApplied).
CleanDraftIsStored ==
    \A k \in Keys \ closed :
        (~IsDirty(k) /\ ~(\E a \in applies : a.key = k) /\ mounted[k]) => value[k] = stored[k]

\* What a person typed is on the screen, stored, or thrown away by their word.
NoInputIsLost == NoInputIsThrownAway /\ CleanDraftIsStored
=============================================================================
