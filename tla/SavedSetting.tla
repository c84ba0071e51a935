---------------------------- MODULE SavedSetting ----------------------------
(***************************************************************************)
(* A UI setting that is edited, saved and loaded (createSavedSetting): one *)
(* send at a time, later saves coalesced into one that follows, loads that *)
(* a save makes stale. The provider fails with or without having stored.   *)
(***************************************************************************)
EXTENDS Naturals

CONSTANTS
    Values, Fallback,  \* Fallback \in Values
    Nothing, Corrupt,  \* what else the provider may hold
    MaxEdits, MaxLoads, MaxFaults  \* bounds

VARIABLES
    stored,          \* the provider's value
    current, base, hasSaved,  \* the value edited, the one `dirty` compares it with
    sends, queued,   \* provider.set under way; a save waits for it
    loads,           \* provider.get under way; stale ones are not `live`
    error, disposed,
    edits, reads, faults

valueVars == <<current, base, hasSaved>>
vars == <<stored, valueVars, sends, queued, loads, error, disposed, edits, reads, faults>>

Init ==
    /\ stored \in Values \cup {Nothing, Corrupt}
    /\ current = Fallback /\ base = Fallback /\ hasSaved = FALSE
    /\ sends = {} /\ queued = FALSE /\ loads = {} /\ error = FALSE /\ disposed = FALSE
    /\ edits = 0 /\ reads = 0 /\ faults = 0

MutInvalidated(ls) == ls

\* A save makes every load under way stale.
Invalidated(ls) == {[l EXCEPT !.live = FALSE] : l \in ls}

\* An edit leaves a load under way to find `current` touched.
Edited(ls) == {[l EXCEPT !.touched = TRUE] : l \in ls}

\* The snapshot is taken when the send starts.
Send(value) == {[value |-> value, at |-> "sent"]}

MutBusy == FALSE

Busy == sends # {}

\* save(): starts a send, or queues the one that follows.
SaveOf(value, ls) ==
    IF Busy THEN queued' = TRUE /\ UNCHANGED sends /\ loads' = ls
            ELSE sends' = sends \cup Send(value) /\ UNCHANGED queued /\ loads' = Invalidated(ls)

\* set(); in immediate mode it saves as well.
Set(v, immediate) ==
    /\ edits < MaxEdits /\ edits' = edits + 1
    /\ current' = v
    /\ IF immediate /\ ~disposed /\ ~(hasSaved /\ v = base /\ ~Busy /\ ~queued)
         THEN SaveOf(v, Edited(loads))
         ELSE loads' = Edited(loads) /\ UNCHANGED <<sends, queued>>
    /\ UNCHANGED <<stored, base, hasSaved, error, disposed, reads, faults>>

\* revert() and resetToDefault(): an edit that is not saved.
Restore ==
    /\ edits < MaxEdits /\ edits' = edits + 1
    /\ current' \in {Fallback, IF hasSaved THEN base ELSE Fallback}
    /\ loads' = Edited(loads)
    /\ UNCHANGED <<stored, base, hasSaved, sends, queued, error, disposed, reads, faults>>

Save ==
    /\ ~disposed /\ edits < MaxEdits /\ edits' = edits + 1
    /\ SaveOf(current, loads)
    /\ UNCHANGED <<stored, valueVars, error, disposed, reads, faults>>

\* The provider stores ...
Store(s) ==
    /\ s.at = "sent" /\ stored' = s.value
    /\ sends' = (sends \ {s}) \cup {[s EXCEPT !.at = "stored"]}
    /\ UNCHANGED <<valueVars, queued, loads, error, disposed, edits, reads, faults>>

\* What follows a send: the queued one, with the value of now.
Follow(s, ls) ==
    /\ sends' = (sends \ {s}) \cup (IF queued /\ ~disposed THEN Send(current) ELSE {})
    /\ queued' = FALSE
    /\ loads' = Invalidated(ls)

\* ... and answers: `saved` becomes what was sent.
Sent(s) ==
    /\ s.at = "stored"
    /\ IF disposed THEN UNCHANGED <<base, hasSaved, error>>
                   ELSE base' = s.value /\ hasSaved' = TRUE /\ error' = FALSE
    /\ Follow(s, loads)
    /\ UNCHANGED <<stored, current, disposed, edits, reads, faults>>

\* Or it fails, whether it stored or not.
SendFails(s) ==
    /\ faults < MaxFaults /\ faults' = faults + 1
    /\ error' = (error \/ ~disposed)
    /\ Follow(s, loads)
    /\ UNCHANGED <<stored, valueVars, disposed, edits, reads>>

\* load(), not while a send is under way.
BeginLoad ==
    /\ ~disposed /\ ~Busy /\ reads < MaxLoads /\ reads' = reads + 1
    /\ loads' = Invalidated(loads) \cup
                  {[at |-> "asked", live |-> TRUE, touched |-> FALSE, value |-> Nothing]}
    /\ UNCHANGED <<stored, valueVars, sends, queued, error, disposed, edits, faults>>

Get(l) ==
    /\ l.at = "asked"
    /\ loads' = (loads \ {l}) \cup
         {[at |-> "answer", live |-> l.live, touched |-> l.touched, value |-> stored]}
    /\ UNCHANGED <<stored, valueVars, sends, queued, error, disposed, edits, reads, faults>>

\* A usable value becomes `saved`; what was edited meanwhile stays.
Loaded(l) ==
    /\ l.at = "answer"
    /\ loads' = loads \ {l}
    /\ IF ~l.live \/ disposed
         THEN UNCHANGED <<valueVars, error>>
         ELSE LET value == IF l.value \in Values THEN l.value ELSE Fallback
              IN  /\ base' = value /\ hasSaved' = (l.value \in Values)
                  /\ current' = IF l.touched THEN current ELSE value
                  /\ error' = FALSE
    /\ UNCHANGED <<stored, sends, queued, disposed, edits, reads, faults>>

LoadFails(l) ==
    /\ faults < MaxFaults /\ faults' = faults + 1
    /\ loads' = loads \ {l}
    /\ error' = (error \/ (l.live /\ ~disposed))
    /\ UNCHANGED <<stored, valueVars, sends, queued, disposed, edits, reads>>

Dispose ==
    /\ ~disposed /\ disposed' = TRUE /\ queued' = FALSE
    /\ UNCHANGED <<stored, valueVars, sends, loads, error, edits, reads, faults>>

Next ==
    \/ \E v \in Values, immediate \in BOOLEAN : Set(v, immediate)
    \/ Restore \/ Save \/ BeginLoad \/ Dispose
    \/ \E s \in sends : Store(s) \/ Sent(s) \/ SendFails(s)
    \/ \E l \in loads : Get(l) \/ Loaded(l) \/ LoadFails(l)

Spec == Init /\ [][Next]_vars

-----------------------------------------------------------------------------
\* A setting that says it is saved is: with no send under way and no error
\* shown, the saved value is what the provider holds, however saves, loads and
\* edits overlapped and whichever of them failed (send, load).
SavedIsStored == (hasSaved /\ ~error /\ ~disposed /\ sends = {}) => base = stored
=============================================================================
