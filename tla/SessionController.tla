-------------------------- MODULE SessionController --------------------------
(***************************************************************************)
(* The session controller of one browser tab                               *)
(* (packages/admin-core/src/sessionController.svelte.ts): the single       *)
(* writer of "who is signed in here".                                      *)
(*                                                                         *)
(* Everything the controller does between two awaits is one synchronous    *)
(* continuation, in which its functions call one another.  Each of them is *)
(* therefore an operator here, from the controller's state c and a view p  *)
(* of the provider to the next state; the module that has the provider's   *)
(* variables makes the actions.  p is [rev, ask]: the revision of the      *)
(* credential, compared only for equality, and the question that           *)
(* provider.resolve() would start at this moment.                          *)
(*                                                                         *)
(* The fields of c:                                                        *)
(*   status, owner    the confirmed state; NoOne when not active           *)
(*   lastUser, change lastConcreteOwner and pendingOwnerChange             *)
(*   applied          appliedRevision                                      *)
(*   probe            inflight, or NoProbe                                 *)
(*   waiting          the callers that wait for the probe in flight        *)
(*   late             questions of probes that are done, still unanswered  *)
(*   pending, timer   pendingBackground, and whether its timer runs        *)
(*                                                                         *)
(* Stamps are kept as what they are compared for: a probe is "signalled"   *)
(* when latestSignalAt is later than its start.  The epoch is left out: a  *)
(* commit the requests did not ask for retires the probe in flight and any *)
(* other commit comes from its own answer, so a probe in flight always has *)
(* the current epoch.  Left out because the controller only writes them:   *)
(* generation, verification, previousActiveOwner, the outcome it returns;  *)
(* and the length of the backoff.  One provider is bound for the life of   *)
(* the controller.                                                         *)
(***************************************************************************)
EXTENDS FiniteSets, Integers

CONSTANTS Callers,    \* the calls of resolve() a page makes
          Users,      \* owners of kind "account"
          Grants,     \* owners that are a credential-less grant
          NoOne,      \* no owner
          MaxStale    \* maxStaleRetries

ASSUME OwnersAssumption == /\ Users \cap Grants = {}
                           /\ NoOne \notin Users \cup Grants
ASSUME BoundsAreNat == MaxStale \in Nat

Owners == Users \cup Grants

NoProbe == [rev |-> -1]
NoChange == [from |-> NoOne, to |-> NoOne]

InitialController ==
    [status |-> "unknown", owner |-> NoOne, lastUser |-> NoOne,
     change |-> NoChange, applied |-> 0, probe |-> NoProbe, waiting |-> {},
     late |-> {}, pending |-> FALSE, timer |-> FALSE]

-----------------------------------------------------------------------------
(* The one writer.  A change of user is recorded when an account becomes   *)
(* active after another account with no end of session in between; it      *)
(* keeps the first user it started from, and nets out to nothing when that *)
(* user comes back.                                                        *)
Commit(c, status, owner) ==
    LET next == [c EXCEPT !.status = status, !.owner = owner]
        from == IF c.change = NoChange THEN c.lastUser ELSE c.change.from
    IN IF status = "none"
       THEN [next EXCEPT !.change = NoChange, !.lastUser = NoOne]
       ELSE IF owner \notin Users
       THEN next
       ELSE [next EXCEPT
               !.lastUser = owner,
               !.change = CASE c.lastUser \in {NoOne, owner} -> @
                            [] c.lastUser \notin {NoOne, owner} /\ from = owner -> NoChange
                            [] OTHER -> [from |-> from, to |-> owner]]

(* The callers waiting for the probe get their result: confirmed,          *)
(* unverified or superseded.                                               *)
Settle(c) == [c EXCEPT !.waiting = {}]

(* A probe that can no longer be applied: its question is aborted, but may *)
(* still be answered.  Its waiters stay in "waiting" for the caller of     *)
(* Retire to move or to settle.                                            *)
Retire(c) ==
    IF c.probe = NoProbe THEN c
    ELSE [c EXCEPT !.late = @ \cup {c.probe.ask}, !.probe = NoProbe]

IsJoinable(c, p) ==
    /\ c.probe # NoProbe
    /\ ~c.probe.signalled
    /\ c.probe.rev = p.rev

StartProbe(c, p, stale, caughtUp) ==
    [c EXCEPT !.probe = [rev |-> p.rev, ask |-> p.ask, signalled |-> FALSE,
                         stale |-> stale, caughtUp |-> caughtUp]]

(* A new event makes a new question: the waiters move over, the count of   *)
(* discarded answers is carried unchanged.                                 *)
ReplaceInflight(c, p) ==
    StartProbe([Retire(c) EXCEPT !.timer = FALSE], p,
               IF c.probe = NoProbe THEN 0 ELSE c.probe.stale,
               c.probe # NoProbe /\ c.probe.caughtUp)

KickBackground(c, p) ==
    IF c.pending /\ ~IsJoinable(c, p) THEN ReplaceInflight(c, p) ELSE c

ScheduleBackground(c) == [c EXCEPT !.timer = @ \/ c.pending]

(* An answer was discarded: ask again while somebody needs one.  No probe  *)
(* is in flight that could be joined: the callers have just retired it.    *)
Reissue(c, p, stale, caughtUp) ==
    CASE stale > MaxStale -> ScheduleBackground(Settle(c))
      [] stale <= MaxStale /\ c.waiting = {} /\ ~c.pending -> c
      [] OTHER -> StartProbe(c, p, stale, caughtUp)

(* The hold: the user on the screen stops being the user at the moment the *)
(* credential is known to have changed, before the new one is confirmed.   *)
Hold(c, p) ==
    LET held == Settle(Retire(Commit(c, "unknown", NoOne)))
    IN KickBackground([held EXCEPT !.pending = TRUE], p)

Drifted(c, p) == p.rev # c.applied

(* The revision moved away from the one last applied: an active session is *)
(* held, otherwise only the need of a confirmation is recorded.            *)
DetectDrift(c, p) ==
    IF ~Drifted(c, p) THEN c
    ELSE IF c.status = "active" THEN Hold(c, p)
    ELSE [c EXCEPT !.pending = TRUE]

Holds(c, p) == Drifted(c, p) /\ c.status = "active"

OnCredentialChanged(c, p) ==
    IF c.status = "active" THEN Hold(c, p)
    ELSE KickBackground([c EXCEPT !.pending = TRUE], p)

-----------------------------------------------------------------------------
(* An answer: [ok, stale, checked, current, who].  ok = FALSE is a         *)
(* rejection, stale a StaleAnswerError; who = NoOne is status "none".      *)
Cleared(a) == a.ok /\ a.current # a.checked

Acceptable(c, p, a) ==
    /\ ~c.probe.signalled
    /\ IF a.ok THEN a.checked = c.probe.rev /\ p.rev = a.current
               ELSE ~a.stale /\ p.rev = c.probe.rev

ApplyAnswer(c, a) ==
    [Commit(c, IF a.who = NoOne THEN "none" ELSE "active", a.who)
        EXCEPT !.applied = a.current]

StopBackground(c) == [c EXCEPT !.pending = FALSE, !.timer = FALSE]

(* The probe in flight is answered, well or badly. *)
OnProbeSettled(c, p, a) ==
    LET answered == [c EXCEPT !.probe = NoProbe]
        noted == [answered EXCEPT !.pending = @ \/ Cleared(a)]
        caughtUp == /\ a.ok
                    /\ ~c.probe.signalled
                    /\ ~c.probe.caughtUp
                    /\ a.checked # c.probe.rev
                    /\ p.rev = a.current
    IN CASE Acceptable(c, p, a) /\ a.ok ->
              Settle(ApplyAnswer(StopBackground(answered), a))
         [] Acceptable(c, p, a) /\ ~a.ok ->
              ScheduleBackground(Settle(answered))
         [] ~Acceptable(c, p, a) /\ Holds(noted, p) -> DetectDrift(noted, p)
         [] OTHER ->
              Reissue(DetectDrift(noted, p), p,
                      IF caughtUp THEN c.probe.stale ELSE c.probe.stale + 1,
                      c.probe.caughtUp \/ caughtUp)

(* The question of a probe that is done is answered after all: nothing is  *)
(* applied, but a cleared or moved credential has to be confirmed.         *)
OnLateAnswer(c, p, ask, a) ==
    LET rest == [c EXCEPT !.late = @ \ {ask}, !.pending = @ \/ Cleared(a)]
        drift == DetectDrift(rest, p)
    IN IF ~Holds(rest, p) /\ (Cleared(a) \/ Drifted(rest, p))
       THEN KickBackground(drift, p)
       ELSE drift

OnProbeTimeout(c, p) ==
    LET retired == Retire(c) IN
    CASE c.probe.rev = p.rev -> ScheduleBackground(Settle(retired))
      [] c.probe.rev # p.rev /\ Holds(retired, p) -> DetectDrift(retired, p)
      [] OTHER -> Reissue(DetectDrift(retired, p), p, c.probe.stale + 1, c.probe.caughtUp)

OnBackgroundTimer(c, p) == KickBackground([c EXCEPT !.timer = FALSE], p)

(* Mutant: the last caller that leaves takes the probe with it. *)
MutLeave(c, w) ==
    LET left == [c EXCEPT !.waiting = @ \ {w}]
    IN IF left.waiting = {} THEN Retire(left) ELSE left

(* A caller's own deadline: it leaves, and the probe goes on only while    *)
(* somebody needs it.                                                      *)
Leave(c, w) ==
    LET left == [c EXCEPT !.waiting = @ \ {w}]
    IN IF left.waiting = {} /\ ~left.pending THEN Retire(left) ELSE left

(* Mutant: a signal does not outdate the probe in flight. *)
MutStamp(c) == [c EXCEPT !.pending = TRUE]

(* The stamp of a signal: only a probe started after it answers it. *)
Stamp(c) ==
    [c EXCEPT !.pending = TRUE,
              !.probe = IF @ = NoProbe THEN @ ELSE [@ EXCEPT !.signalled = TRUE]]

Signal(c, p) == KickBackground(Stamp(c), p)

(* resolve(): cause is "navigation" or "signal". *)
Resolve(c, p, w, cause) ==
    LET checked == DetectDrift(c, p)
        asked == IF cause = "signal" THEN Stamp(checked) ELSE checked
        joined == [asked EXCEPT !.waiting = @ \cup {w}]
    IN IF IsJoinable(asked, p) THEN joined ELSE ReplaceInflight(joined, p)

(* acknowledgeOwnerChange(): the page told its user about the change. *)
Acknowledge(c) == [c EXCEPT !.change = NoChange]
=============================================================================
