---------------------------- MODULE MCPageParts ----------------------------
(***************************************************************************)
(* What a page of the frontend holds, for TLC: AuditSnapshot, WindowedList,*)
(* SavedSetting, Drafts, and the ChangeFeed that tells it of changes.      *)
(* They share no state, so that a behaviour in which one of them (`part`)  *)
(* moves and the others rest in an initial state stands for every          *)
(* behaviour of the five together.                                         *)
(***************************************************************************)
EXTENDS AuditSnapshot, TLC

CONSTANTS
    Params, NoQuery, LastListBlock, MaxWrites, MaxParams,
    Values, Fallback, Nothing, Corrupt, MaxEdits, MaxLoads,
    Keys, PaneLocal, Settles, MaxInputs, MaxMounts, MaxRounds,
    Capacity, MaxFeedWrites, MaxFeedFaults

ASSUME ListBoundIsNat == LastListBlock \in Nat
ASSUME CapacityIsPositive == Capacity \in Nat \ {0}
ASSUME NoQueryIsNone == NoQuery \notin Params

\* Everything, and a filter that leaves out one row.
Filters == {1..4, {1, 3, 4}}

VARIABLES
    part,
    writes, params, active, listRange, listLoaded, listFailures, counted, listCalls,
    staged, next, listRows, since, changes, listFaults,
    saved, current, base, hasSaved, sends, queued, loads, error, disposed, edits, reads,
    settingFaults,
    value, raw, baseline, revision, baselineRevision, mounted, captured, applies, settle,
    stored, unapplied, closed, lost, inputs, mounts, rounds, draftFaults,
    db, owed, stream, queue, lag, schedule, wire, revoked, token, rejected, used,
    hasConnected, link, feedAsked, feedLoads, feedShown, failed, missed, feedFaults

W == INSTANCE WindowedList
        WITH Queries <- Params, LastBlock <- LastListBlock, range <- listRange,
             loaded <- listLoaded, failures <- listFailures, calls <- listCalls,
             rows <- listRows, faults <- listFaults
P == INSTANCE SavedSetting WITH stored <- saved, faults <- settingFaults
D == INSTANCE Drafts WITH faults <- draftFaults
F == INSTANCE ChangeFeed
        WITH MaxWrites <- MaxFeedWrites, MaxFaults <- MaxFeedFaults, loads <- feedLoads,
             shown <- feedShown, asked <- feedAsked, faults <- feedFaults

windowVars ==
    <<writes, params, active, listRange, listLoaded, listFailures, counted, listCalls,
      staged, next, listRows, since, changes, listFaults>>
settingVars ==
    <<saved, current, base, hasSaved, sends, queued, loads, error, disposed, edits, reads,
      settingFaults>>
draftVars ==
    <<value, raw, baseline, revision, baselineRevision, mounted, captured, applies, settle,
      stored, unapplied, closed, lost, inputs, mounts, rounds, draftFaults>>
feedVars ==
    <<db, owed, stream, queue, lag, schedule, wire, revoked, token, rejected, used,
      hasConnected, link, feedAsked, feedLoads, feedShown, failed, missed, feedFaults>>
partVars == <<part, vars, windowVars, settingVars, draftVars, feedVars>>

PartsInit ==
    /\ part \in {"snapshot", "window", "setting", "drafts", "feed"}
    /\ Init /\ W!Init /\ P!Init /\ D!Init /\ F!Init
    /\ part # "snapshot" => query = 1..4
    /\ part # "window" => params = CHOOSE q \in Params : TRUE
    /\ part # "setting" => saved = Nothing

PartsNext ==
    \/ part = "snapshot" /\ Next /\ UNCHANGED <<part, windowVars, settingVars, draftVars, feedVars>>
    \/ part = "window" /\ W!Next /\ UNCHANGED <<part, vars, settingVars, draftVars, feedVars>>
    \/ part = "setting" /\ P!Next /\ UNCHANGED <<part, vars, windowVars, draftVars, feedVars>>
    \/ part = "drafts" /\ D!Next /\ UNCHANGED <<part, vars, windowVars, settingVars, feedVars>>
    \/ part = "feed" /\ F!Next /\ UNCHANGED <<part, vars, windowVars, settingVars, draftVars>>

PartsSpec == PartsInit /\ [][PartsNext]_partVars

\* WindowedList!SettledListIsCurrent
SettledListIsCurrent == part = "window" => W!SettledListIsCurrent

\* SavedSetting!SavedIsStored
SavedIsStored == part = "setting" => P!SavedIsStored

\* Drafts!NoInputIsLost
NoInputIsLost == part = "drafts" => D!NoInputIsLost

\* ChangeFeed!NoChangeIsStranded
NoChangeIsStranded == part = "feed" => F!NoChangeIsStranded

\* A list shows what was read since its last event, and one that is behind the
\* database has its update on its way (createWindowedListResource, event_stream,
\* createSseEventProvider).
ListsAreCurrent == SettledListIsCurrent /\ NoChangeIsStranded
=============================================================================
