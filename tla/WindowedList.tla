---------------------------- MODULE WindowedList ----------------------------
(***************************************************************************)
(* The block-fetched list of an ordinary page (WindowedListResource): its  *)
(* rows change with the events of its resource, and a refresh keeps what   *)
(* is on the screen until the whole of its replacement has settled.        *)
(*                                                                         *)
(* The content of a block is the query it answers and the number of writes *)
(* it was read after.                                                      *)
(***************************************************************************)
EXTENDS Naturals

CONSTANTS
    Queries, NoQuery,
    LastBlock,   \* bound: the last block the page can show
    MaxWrites,   \* bound
    MaxParams,   \* bound: setParams
    MaxFaults    \* bound: requests that fail or time out

Blocks == 0..LastBlock
Hole == [query |-> NoQuery, writes |-> 0]
Holes == [b \in Blocks |-> Hole]

VARIABLES
    writes,            \* to the resource
    params,
    active, range,     \* lastRange: whether there is one, and its blocks
    loaded, failures, counted,  \* of the generation; `counted`: it has a count
    calls,             \* requests: those in the in-flight map are `mine`
    staged, next,      \* the replacement a refresh builds
    rows,              \* what is on the screen
    since,             \* history: the writes when the generation began
    changes, faults

generationVars == <<loaded, failures, counted>>
listVars == <<params, active, range, generationVars, calls, staged, next, rows, since>>
vars == <<writes, listVars, changes, faults>>

Init ==
    /\ writes = 0 /\ params \in Queries
    /\ active = FALSE /\ range = {}
    /\ loaded = {} /\ failures = [b \in Blocks |-> "none"] /\ counted = FALSE
    /\ calls = {} /\ staged = FALSE /\ next = Holes
    /\ rows = Holes /\ since = 0
    /\ changes = 0 /\ faults = 0

InFlight(cs) == {c.block : c \in {d \in cs : d.mine}}
Superseded(cs) == {[c EXCEPT !.mine = FALSE] : c \in cs}

\* Block 0 is asked for while nothing else will bring the count.
ImplicitFirstBlock(done, fs, hasCount, cs) ==
    ~hasCount /\ InFlight(cs) = {} /\ 0 \notin done /\ fs[0] # "now"

\* load: what it adds to the requests.
Load(wanted, done, fs, hasCount, cs) ==
    LET blocks == wanted \ (done \cup InFlight(cs))
        toFetch == IF blocks = {} /\ ImplicitFirstBlock(done, fs, hasCount, cs) THEN {0} ELSE blocks
    IN  cs \cup {[block |-> b, query |-> params', mine |-> TRUE, at |-> "asked", writes |-> 0] : b \in toFetch}


EnsureRange(blocks) ==
    /\ active' = TRUE /\ range' = blocks
    /\ UNCHANGED <<writes, params, generationVars, staged, next, rows, since, changes, faults>>
    /\ calls' = Load(blocks, loaded, failures, counted, calls)

\* bumpGeneration, and the refresh of invalidate() or of the page.
Refresh ==
    /\ loaded' = {} /\ counted' = FALSE /\ since' = writes
    /\ failures' = [b \in Blocks |-> IF failures[b] = "none" THEN "none" ELSE "old"]
    /\ next' = Holes
    /\ UNCHANGED <<params, active, range>>
    /\ IF active
         THEN /\ staged' = TRUE
              /\ calls' = Load(range \cup {b \in Blocks : failures[b] # "none"},
                               {}, failures', FALSE, Superseded(calls))
              /\ UNCHANGED rows
         ELSE staged' = FALSE /\ rows' = Holes /\ calls' = Superseded(calls)

\* A write, and the event that tells this page.
Write ==
    /\ writes < MaxWrites /\ writes' = writes + 1
    /\ UNCHANGED <<listVars, changes, faults>>

Invalidate ==
    /\ since < writes
    /\ Refresh
    /\ UNCHANGED <<writes, changes, faults>>

SetParams(q) ==
    /\ changes < MaxParams /\ changes' = changes + 1
    /\ params' = q
    /\ loaded' = {} /\ counted' = FALSE /\ since' = writes
    /\ failures' = [b \in Blocks |-> "none"]
    /\ staged' = FALSE /\ next' = Holes /\ rows' = Holes
    /\ UNCHANGED <<writes, active, range, faults>>
    /\ calls' = IF active THEN Load(range, {}, failures', FALSE, Superseded(calls)) ELSE Superseded(calls)

\* The provider reads rows and count of the block. What a superseded request
\* reads is of no interest: its answer is its query.
ReadBlock(c) ==
    /\ c.at = "asked" /\ c.mine
    /\ calls' = (calls \ {c}) \cup {[c EXCEPT !.at = "answer", !.writes = writes]}
    /\ UNCHANGED <<writes, params, active, range, generationVars, staged, next, rows, since, changes, faults>>

\* settleLoading, after an answer or a failure left `target` to show.
Settled(target, cs) ==
    /\ calls' = cs
    /\ staged' = (staged /\ InFlight(cs) # {})
    /\ IF staged
         THEN IF InFlight(cs) = {} THEN rows' = target /\ next' = Holes
                                   ELSE next' = target /\ UNCHANGED rows
         ELSE rows' = target /\ UNCHANGED next

MutIsOurs(c) == c.block \in InFlight(calls)

\* The same generation, and the same attempt.
IsOurs(c) == c.mine

Shown == IF staged THEN next ELSE rows

Answer(c) ==
    /\ c.at = "answer" \/ ~c.mine
    /\ IF IsOurs(c)
         THEN /\ loaded' = loaded \cup {c.block} /\ counted' = TRUE
              /\ failures' = [failures EXCEPT ![c.block] = "none"]
              /\ Settled([Shown EXCEPT ![c.block] = [query |-> c.query, writes |-> c.writes]], calls \ {c})
         ELSE calls' = calls \ {c} /\ UNCHANGED <<generationVars, staged, next, rows>>
    /\ UNCHANGED <<writes, params, active, range, since, changes, faults>>

Failure(c, left) ==
    /\ c.mine /\ faults < MaxFaults /\ faults' = faults + 1
    /\ failures' = [failures EXCEPT ![c.block] = "now"]
    /\ Settled(Shown, (calls \ {c}) \cup left)
    /\ UNCHANGED <<writes, params, active, range, loaded, counted, since, changes>>

\* A refused or malformed answer; or none in time, and a late one.
Next ==
    \/ Write \/ Invalidate
    \/ \E first, last \in Blocks : first <= last /\ EnsureRange(first..last)
    \/ EnsureRange({})
    \/ \E q \in Queries : SetParams(q)
    \/ \E c \in calls : ReadBlock(c) \/ Answer(c)
    \/ \E c \in calls : Failure(c, {}) \/ Failure(c, {[c EXCEPT !.mine = FALSE]})

Spec == Init /\ [][Next]_vars

-----------------------------------------------------------------------------
\* Whatever is on the screen answers the present query: no answer to an
\* earlier one, and no late one, is written into it. And when loading has come
\* down, the screen shows what the generation read, none of it older than the
\* event that began it, and each visible block is there or has failed
\* (fetchBlock, settleLoading, refresh, setParams, ensureRange).
SettledListIsCurrent ==
    /\ \A b \in Blocks : rows[b].query \in {params, NoQuery}
    /\ InFlight(calls) = {} =>
        /\ ~staged
        /\ \A b \in Blocks : rows[b] # Hole => b \in loaded /\ rows[b].writes >= since
        /\ active => \A b \in range : rows[b] # Hole \/ failures[b] = "now"
=============================================================================
