----------------------------- MODULE ChangeFeed -----------------------------
(***************************************************************************)
(* How a change reaches a list that somebody looks at: a write commits and *)
(* is then announced on the broadcast channel; the event stream of a tab   *)
(* delivers what its receiver holds and re-checks its session in between;  *)
(* the tab reads the stream, reconnects, and reloads the list, whose rows  *)
(* and count are two queries and whose answers may overtake each other.    *)
(*                                                                         *)
(* One list of the resource "shown"; "other" stands for every other event. *)
(* The content of the resource is the number of writes committed to it.    *)
(***************************************************************************)
EXTENDS Naturals, Sequences, FiniteSets

CONSTANTS
    Capacity,   \* events a receiver may be behind (CHANNEL_CAPACITY)
    MaxWrites,  \* bound: writes
    MaxFaults   \* bound: broken connections, dropped requests, failed loads

Kinds == {"shown", "other"}
Tokens == {1, 2}
NoToken == 0

VARIABLES
    db,       \* writes committed
    owed,     \* committed writes not announced yet
    stream,   \* the server's side of the stream is open
    queue, lag,  \* its receiver: the events it holds, the kinds it lost since
    schedule, \* of its re-check: "armed", "due"; "off" without a stream
    wire,     \* delivered, not read by the tab
    revoked,  \* tokens that are no longer valid
    token, rejected, used, hasConnected,  \* the tab's, as in connectOnce
    link,     \* the tab's connection
    asked,    \* the token it was asked for with
    loads,    \* loads under way
    shown,    \* the list: the writes its rows show
    failed,   \* it shows the error of a failed load
    missed,   \* history: an event of the list may never reach this tab
    faults

dbVars == <<db, owed>>
streamVars == <<stream, queue, lag, schedule>>
tokenVars == <<token, rejected, used, hasConnected>>
linkVars == <<link, asked>>
listVars == <<loads, shown, failed>>
vars == <<dbVars, streamVars, wire, revoked, tokenVars, linkVars, listVars, missed, faults>>

\* Signed in, the list just mounted, the first connection not made yet.
Init ==
    /\ db = 0 /\ owed = 0
    /\ stream = FALSE /\ queue = <<>> /\ lag = {} /\ schedule = "off" /\ wire = <<>>
    /\ revoked = {} /\ token = 1 /\ rejected = NoToken /\ used = NoToken
    /\ hasConnected = FALSE /\ link = "none" /\ asked = NoToken
    /\ loads = {[latest |-> TRUE, at |-> "asked", rows |-> 0]}
    /\ shown = 0 /\ failed = FALSE
    /\ missed = FALSE /\ faults = 0

Fault == faults < MaxFaults /\ faults' = faults + 1
Held(s) == {s[i] : i \in 1..Len(s)}

\* Events that are gone with a connection are made up for when it is made
\* again - if the tab has been connected in this session before.
Lost(kinds) ==
    missed \/ ("shown" \in kinds /\ ~(hasConnected /\ used = token))

-----------------------------------------------------------------------------
(* Writers.                                                                *)

Write ==
    /\ db < MaxWrites
    /\ db' = db + 1 /\ owed' = owed + 1
    /\ UNCHANGED <<streamVars, wire, revoked, tokenVars, linkVars, listVars, missed, faults>>

\* broadcast::Sender::send: a receiver that is full loses its oldest event.
Send(kind) ==
    IF ~stream
      THEN missed' = Lost({kind}) /\ UNCHANGED <<queue, lag>>
      ELSE /\ IF Len(queue) = Capacity
                THEN queue' = Append(Tail(queue), kind) /\ lag' = lag \cup {Head(queue)}
                ELSE queue' = Append(queue, kind) /\ UNCHANGED lag
           /\ UNCHANGED missed

\* notify_changed comes after the commit.
Notify ==
    /\ owed > 0 /\ owed' = owed - 1
    /\ Send("shown")
    /\ UNCHANGED <<db, stream, schedule, wire, revoked, tokenVars, linkVars, listVars, faults>>

\* The request was dropped after its write: nobody announces it.
NotifyNever ==
    /\ owed > 0 /\ owed' = owed - 1
    /\ Fault /\ missed' = TRUE
    /\ UNCHANGED <<db, streamVars, wire, revoked, tokenVars, linkVars, listVars>>

OtherEvent ==
    /\ stream /\ Send("other")
    /\ UNCHANGED <<dbVars, stream, schedule, wire, revoked, tokenVars, linkVars, listVars, faults>>

-----------------------------------------------------------------------------
(* event_stream                                                            *)

Due ==
    /\ schedule = "armed" /\ schedule' = "due"
    /\ UNCHANGED <<dbVars, stream, queue, lag, wire, revoked, tokenVars, linkVars, listVars, missed, faults>>

\* What the receiver still held is gone with it.
CloseStream ==
    /\ stream' = FALSE /\ queue' = <<>> /\ lag' = {} /\ schedule' = "off"
    /\ missed' = Lost(Held(queue) \cup lag)

MutRearmed == "off"

\* The next deadline is set when a check has finished, whatever it found.
Rearmed == "armed"

\* The store could not answer, or not in time: the stream is kept.
RecheckUnknown ==
    /\ schedule = "due" /\ schedule' = Rearmed
    /\ UNCHANGED <<dbVars, stream, queue, lag, wire, revoked, tokenVars, linkVars, listVars, missed, faults>>

Recheck ==
    /\ schedule = "due"
    /\ IF asked \in revoked
         THEN CloseStream
         ELSE schedule' = Rearmed /\ UNCHANGED <<stream, queue, lag, missed>>
    /\ UNCHANGED <<dbVars, wire, revoked, tokenVars, linkVars, listVars, faults>>

\* `biased`: a due re-check runs before further events are taken.
RecheckFirst == schedule # "due"

\* An event goes out while the connection takes it; a receiver that was
\* overrun skips the gap.
Deliver ==
    /\ stream /\ RecheckFirst
    /\ IF lag # {}
         THEN /\ lag' = {}
              /\ missed' = (missed \/ "shown" \in lag)
              /\ UNCHANGED <<queue, wire>>
         ELSE /\ queue # <<>> /\ wire = <<>>
              /\ queue' = Tail(queue) /\ wire' = <<Head(queue)>>
              /\ UNCHANGED <<lag, missed>>
    /\ UNCHANGED <<dbVars, stream, schedule, revoked, tokenVars, linkVars, listVars, faults>>

-----------------------------------------------------------------------------
(* ListResource.load. Its rows and its count are two queries, the count the *)
(* later one: it is current whenever the rows are.                         *)

\* A new load supersedes those under way: only the latest writes the list.
BeginLoad ==
    /\ loads' = {[l EXCEPT !.latest = FALSE] : l \in loads}
                    \cup {[latest |-> TRUE, at |-> "asked", rows |-> 0]}
    /\ failed' = FALSE /\ missed' = FALSE
    /\ UNCHANGED shown

ReadRows(l) ==
    /\ l.at = "asked"
    /\ loads' = (loads \ {l}) \cup {[l EXCEPT !.at = "read", !.rows = db]}
    /\ UNCHANGED <<dbVars, streamVars, wire, revoked, tokenVars, linkVars, shown, failed, missed,
                   faults>>

MutIsCurrent(l) == TRUE

IsCurrent(l) == l.latest

Answer(l) ==
    /\ l.at = "read"
    /\ loads' = loads \ {l}
    /\ shown' = IF IsCurrent(l) THEN l.rows ELSE shown
    /\ UNCHANGED <<dbVars, streamVars, wire, revoked, tokenVars, linkVars, failed, missed, faults>>

LoadFails(l) ==
    /\ Fault
    /\ loads' = loads \ {l} /\ failed' = (failed \/ IsCurrent(l))
    /\ UNCHANGED <<dbVars, streamVars, wire, revoked, tokenVars, linkVars, shown, missed>>

-----------------------------------------------------------------------------
(* createSseEventProvider                                                  *)

\* connectOnce, up to its request: a token that went away or was replaced
\* ends the session the stream was of; a rejected one is not sent again.
Connect ==
    /\ link = "none"
    /\ \/ /\ token = NoToken /\ used # NoToken
          /\ used' = NoToken /\ hasConnected' = FALSE
          /\ UNCHANGED <<linkVars>>
       \/ /\ token # NoToken /\ token # rejected
          /\ hasConnected' = (hasConnected /\ (used = NoToken \/ used = token))
          /\ used' = token /\ asked' = token /\ link' = "asking"
    /\ UNCHANGED <<dbVars, streamVars, wire, revoked, token, rejected, listVars, missed, faults>>

\* require_auth refuses a revoked token ...
Unauthorized ==
    /\ link = "asking" /\ asked \in revoked
    /\ rejected' = asked /\ used' = NoToken /\ hasConnected' = FALSE /\ link' = "none"
    /\ UNCHANGED <<dbVars, streamVars, wire, revoked, token, asked, listVars, missed, faults>>

\* ... anything else that fails is tried again ...
NoAnswer ==
    /\ link = "asking" /\ link' = "none"
    /\ UNCHANGED <<dbVars, streamVars, wire, revoked, tokenVars, asked, listVars, missed, faults>>

\* ... and sse_handler subscribes before it answers.
Subscribe ==
    /\ link = "asking" /\ asked \notin revoked /\ ~stream
    /\ stream' = TRUE /\ queue' = <<>> /\ lag' = {} /\ schedule' = "armed"
    /\ link' = "accepted"
    /\ UNCHANGED <<dbVars, wire, revoked, tokenVars, asked, listVars, missed, faults>>

MutResyncs == ~hasConnected /\ token = asked

\* onReconnected: not for a first connection, nor for a token of the past.
Resyncs == hasConnected /\ token = asked

Established ==
    /\ link = "accepted" /\ link' = "open" /\ hasConnected' = TRUE
    /\ IF Resyncs THEN BeginLoad ELSE UNCHANGED <<listVars, missed>>
    /\ UNCHANGED <<dbVars, streamVars, wire, revoked, token, rejected, used, asked, faults>>

Read ==
    /\ link = "open" /\ wire # <<>> /\ wire' = Tail(wire)
    /\ IF Head(wire) = "shown" THEN BeginLoad ELSE UNCHANGED <<listVars, missed>>
    /\ UNCHANGED <<dbVars, streamVars, revoked, tokenVars, linkVars, faults>>

ReadEnd ==
    /\ link = "open" /\ ~stream /\ wire = <<>> /\ link' = "none"
    /\ UNCHANGED <<dbVars, streamVars, wire, revoked, tokenVars, asked, listVars, missed, faults>>

\* The connection breaks, or the server is stopped and started.
Break ==
    /\ link \in {"accepted", "open"} /\ Fault
    /\ stream' = FALSE /\ queue' = <<>> /\ lag' = {} /\ schedule' = "off" /\ wire' = <<>>
    /\ missed' = Lost(Held(queue) \cup lag \cup Held(wire))
    /\ link' = "none"
    /\ UNCHANGED <<dbVars, revoked, tokenVars, asked, listVars>>

-----------------------------------------------------------------------------
(* The session.                                                            *)

Revoke ==
    /\ token # NoToken /\ token \notin revoked /\ revoked' = revoked \cup {token}
    /\ UNCHANGED <<dbVars, streamVars, wire, tokenVars, linkVars, listVars, missed, faults>>

\* This tab or another confirms that it is gone, and clears it ...
ClearToken ==
    /\ token \in revoked /\ token' = NoToken
    /\ UNCHANGED <<dbVars, streamVars, wire, revoked, rejected, used, hasConnected, linkVars,
                   listVars, missed, faults>>

\* ... and somebody signs in, to a page that mounts its list.
Login ==
    /\ token = NoToken /\ 2 \notin revoked /\ token' = 2
    /\ BeginLoad
    /\ UNCHANGED <<dbVars, streamVars, wire, revoked, rejected, used, hasConnected, linkVars, faults>>

-----------------------------------------------------------------------------
LoadStep == \E l \in loads : ReadRows(l) \/ Answer(l)

Next ==
    \/ Write \/ Notify \/ NotifyNever \/ OtherEvent
    \/ Due \/ Recheck \/ RecheckUnknown \/ Deliver
    \/ LoadStep \/ \E l \in loads : LoadFails(l)
    \/ Connect \/ Unauthorized \/ NoAnswer \/ Subscribe \/ Established
    \/ Read \/ ReadEnd \/ Break
    \/ Revoke \/ ClearToken \/ Login

\* Tasks that can run do; time passes; a check that is tried again and again
\* is answered now and then, and so is a connection.
Fairness ==
    /\ WF_vars(Notify \/ NotifyNever) /\ WF_vars(Due) /\ WF_vars(Recheck \/ RecheckUnknown)
    /\ SF_vars(Recheck) /\ SF_vars(Deliver) /\ WF_vars(LoadStep)
    /\ WF_vars(Connect) /\ SF_vars(Subscribe) /\ SF_vars(Unauthorized)
    /\ WF_vars(Established) /\ WF_vars(Read) /\ WF_vars(ReadEnd)

Spec == Init /\ [][Next]_vars
LiveSpec == Spec /\ Fairness

-----------------------------------------------------------------------------
\* Once writing stops, the list of a tab that stays signed in comes to show
\* all of it, rows and count, through reconnects, re-checks and answers that
\* overtake each other - or it shows an error, or the event was lost where the
\* code lets it go: before the first connection, in an overrun receiver, or
\* with a dropped request (notify_changed, event_stream, connectOnce, load).
ShownBecomesCurrent ==
    <>[](\/ shown = db
         \/ failed \/ missed \/ token \in revoked \cup {NoToken})

\* What will bring the list up to date: an announcement that is owed, an event
\* that is held or delivered, a load that will show all there is, or the
\* connection that is to be made again.
UpdateIsOnItsWay ==
    \/ owed > 0
    \/ "shown" \in Held(queue) \cup lag \cup Held(wire)
    \/ \E l \in loads : l.latest /\ (l.at = "read" => l.rows = db)
    \/ hasConnected /\ used = token /\ link # "open"

\* The same at every moment: a list that is behind, of a tab that is signed in,
\* has its update on its way.  No order of writes, announcements, overruns,
\* re-checks, breaks, reconnections, token changes and overtaking answers comes
\* to rest with a stale list, but for the losses the code lets go and an error
\* on the screen (notify_changed, event_stream, connectOnce, load).
NoChangeIsStranded ==
    \/ shown = db \/ UpdateIsOnItsWay
    \/ failed \/ missed \/ token \in revoked \cup {NoToken}

\* The stream of a revoked session ends, however busy the events are and
\* however many checks go unanswered (Schedule and the biased select).
RevokedStreamEnds == (stream /\ asked \in revoked) ~> ~(stream /\ asked \in revoked)
=============================================================================
