-------------------------- MODULE HttpSessionProofs -------------------------
(***************************************************************************)
(* The session controller of a tab over the HTTP provider, for any number  *)
(* of users, callers, tokens, late questions and writes of other tabs.     *)
(*                                                                         *)
(* The controller's functions only ever do four things to it: move its     *)
(* probe (from the one in flight, or to a new question), hold the user,    *)
(* ask for a confirmation, and apply an answer.  All but the last are      *)
(* captured by one relation between the controller before and after        *)
(* (Later), which the operators' lemmas establish and compose; a step is   *)
(* then a matter of what it did to the storages and the revision.          *)
(***************************************************************************)
EXTENDS HttpSession, TLAPS

Asks == [checked : Nat, token : Nat, at : {"sent", "served", "body"},
         said : Owners \cup {NoOne, "nothing"}]

Probes == [rev : Nat, ask : Asks, signalled : BOOLEAN, stale : Nat, caughtUp : BOOLEAN]

Changes == [from : Users \cup {NoOne}, to : Users \cup {NoOne}]

Controllers ==
    [status : {"unknown", "active", "none"}, owner : Owners \cup {NoOne},
     lastUser : Users \cup {NoOne}, change : Changes, applied : Nat,
     probe : Probes \cup {NoProbe}, waiting : SUBSET Callers, late : SUBSET Asks,
     pending : BOOLEAN, timer : BOOLEAN]

IsView(p) == p.rev \in Nat /\ p.ask \in Asks

\* Every question of the controller that may still be answered.
Asked(x) == x.late \cup (IF x.probe = NoProbe THEN {} ELSE {x.probe.ask})

SameProbe(x, y) ==
    /\ x.probe # NoProbe /\ y.probe.rev = x.probe.rev /\ y.probe.ask = x.probe.ask
    /\ x.probe.signalled => y.probe.signalled

NewProbe(y, p) == y.probe # NoProbe /\ y.probe.rev = p.rev /\ y.probe.ask = p.ask

SameUser(x, y) == y.lastUser = x.lastUser /\ y.change = x.change /\ y.applied = x.applied

SameState(x, y) == y.status = x.status /\ y.owner = x.owner

\* The controller after steps that apply no answer.
Later(x, y, p) ==
    /\ y \in Controllers
    /\ y.late \subseteq Asked(x) \cup {p.ask}
    /\ y.probe # NoProbe => SameProbe(x, y) \/ NewProbe(y, p)
    /\ SameUser(x, y)
    /\ SameState(x, y) \/ (y.status = "unknown" /\ y.owner = NoOne)
    /\ x.pending => y.pending

\* Who waits, waits for a probe; a needed confirmation is being asked for.
Cared(x) ==
    /\ x.waiting # {} => x.probe # NoProbe
    /\ x.pending => x.probe # NoProbe \/ x.timer

-----------------------------------------------------------------------------
(* The operators of the controller.                                        *)

LEMMA NoProbeIsNone == \A q \in Probes : q # NoProbe
  BY DEF Probes, NoProbe

LEMMA LaterSelf == ASSUME NEW x \in Controllers, NEW p PROVE Later(x, x, p)
  BY DEF Later, SameUser, SameState, SameProbe, Asked, Controllers

LEMMA LaterTrans ==
  ASSUME NEW x, NEW y, NEW z, NEW p, Later(x, y, p), Later(y, z, p)
  PROVE  Later(x, z, p)
  <1>1. Asked(y) \subseteq Asked(x) \cup {p.ask}
    BY DEF Later, Asked, SameProbe, NewProbe
  <1>2. z.probe # NoProbe => SameProbe(x, z) \/ NewProbe(z, p)
    BY DEF Later, SameProbe, NewProbe
  <1>3. z \in Controllers /\ z.late \subseteq Asked(y) \cup {p.ask} /\ (x.pending => z.pending)
    BY DEF Later
  <1>4. SameUser(x, z) /\ (SameState(x, z) \/ (z.status = "unknown" /\ z.owner = NoOne))
    BY DEF Later, SameUser, SameState
  <1> QED BY <1>1, <1>2, <1>3, <1>4 DEF Later

\* An operator that changes none of the fields that say who is signed in.
LEMMA Fields ==
  ASSUME NEW x \in Controllers, NEW y \in Controllers, NEW p,
         SameUser(x, y), SameState(x, y), x.pending => y.pending,
         y.late \subseteq Asked(x) \cup {p.ask},
         y.probe \in {NoProbe, x.probe} \/ NewProbe(y, p)
  PROVE  Later(x, y, p)
  BY DEF Later, SameProbe

LEMMA SettleIs ==
  ASSUME NEW x \in Controllers, NEW p
  PROVE  LET y == Settle(x)
         IN  /\ Later(x, y, p) /\ SameState(x, y) /\ y.waiting = {}
             /\ y.probe = x.probe /\ y.pending = x.pending /\ y.timer = x.timer
  <1> DEFINE y == Settle(x)
  <1>1. /\ y \in Controllers /\ SameUser(x, y) /\ SameState(x, y) /\ y.waiting = {} /\ y.late = x.late
        /\ y.probe = x.probe /\ y.pending = x.pending /\ y.timer = x.timer
    BY DEF Settle, Controllers, SameUser, SameState
  <1> HIDE DEF y
  <1>2. Later(x, y, p)
    BY <1>1, Fields DEF Asked
  <1> QED BY <1>1, <1>2 DEF y

LEMMA RetireIs ==
  ASSUME NEW x \in Controllers, NEW p
  PROVE  LET y == Retire(x)
         IN  /\ Later(x, y, p) /\ SameState(x, y) /\ y.waiting = x.waiting
             /\ y.probe = NoProbe /\ y.pending = x.pending /\ y.timer = x.timer
  <1> DEFINE y == Retire(x)
  <1>1. /\ y \in Controllers /\ SameUser(x, y) /\ SameState(x, y) /\ y.waiting = x.waiting
        /\ y.late \subseteq Asked(x)
        /\ y.probe = NoProbe /\ y.pending = x.pending /\ y.timer = x.timer
    <2>1. CASE x.probe = NoProbe
      BY <2>1 DEF Retire, Controllers, SameUser, SameState, Asked
    <2>2. CASE x.probe # NoProbe
      <3>1. x.probe.ask \in Asks
        BY <2>2 DEF Controllers, Probes
      <3> QED BY <2>2, <3>1 DEF Retire, Controllers, SameUser, SameState, Asked
    <2> QED BY <2>1, <2>2
  <1> HIDE DEF y
  <1>2. Later(x, y, p)
    BY <1>1, Fields
  <1> QED BY <1>1, <1>2 DEF y

LEMMA StartProbeIs ==
  ASSUME NEW x \in Controllers, NEW p, IsView(p), NEW stale \in Nat, NEW caughtUp \in BOOLEAN
  PROVE  LET y == StartProbe(x, p, stale, caughtUp)
         IN  /\ Later(x, y, p) /\ SameState(x, y) /\ y.waiting = x.waiting
             /\ NewProbe(y, p) /\ y.pending = x.pending
  <1> DEFINE q == [rev |-> p.rev, ask |-> p.ask, signalled |-> FALSE, stale |-> stale, caughtUp |-> caughtUp]
             y == StartProbe(x, p, stale, caughtUp)
  <1>1. q \in Probes /\ q # NoProbe /\ q.rev = p.rev /\ q.ask = p.ask
    BY NoProbeIsNone DEF Probes, IsView
  <1>2. y = [x EXCEPT !.probe = q]
    BY DEF StartProbe
  <1> HIDE DEF q, y
  <1>3. /\ y \in Controllers /\ SameUser(x, y) /\ SameState(x, y) /\ y.waiting = x.waiting /\ y.late = x.late
        /\ y.probe = q /\ y.pending = x.pending
    BY <1>1, <1>2 DEF Controllers, SameUser, SameState
  <1>4. NewProbe(y, p)
    BY <1>1, <1>3 DEF NewProbe
  <1>5. Later(x, y, p)
    BY <1>3, <1>4, Fields DEF Asked
  <1> QED BY <1>3, <1>4, <1>5 DEF y

LEMMA ReplaceInflightIs ==
  ASSUME NEW x \in Controllers, NEW p, IsView(p)
  PROVE  LET y == ReplaceInflight(x, p)
         IN  /\ Later(x, y, p) /\ SameState(x, y) /\ y.waiting = x.waiting
             /\ NewProbe(y, p) /\ y.pending = x.pending
  <1> DEFINE r == Retire(x)
             t == [r EXCEPT !.timer = FALSE]
             stale == IF x.probe = NoProbe THEN 0 ELSE x.probe.stale
             caughtUp == x.probe # NoProbe /\ x.probe.caughtUp
             y == ReplaceInflight(x, p)
  <1>1. Later(x, r, p) /\ SameState(x, r) /\ r.waiting = x.waiting /\ r.probe = NoProbe /\ r.pending = x.pending
    BY RetireIs
  <1>2. r \in Controllers
    BY <1>1 DEF Later
  <1> HIDE DEF r
  <1>3. /\ t \in Controllers /\ SameUser(r, t) /\ SameState(r, t) /\ t.waiting = r.waiting /\ t.late = r.late
        /\ t.probe = r.probe /\ t.pending = r.pending
    BY <1>2 DEF Controllers, SameUser, SameState
  <1>4. stale \in Nat /\ caughtUp \in BOOLEAN
    BY DEF Controllers, Probes
  <1>5. y = StartProbe(t, p, stale, caughtUp)
    BY DEF ReplaceInflight, r
  <1> HIDE DEF t, stale, caughtUp, y
  <1>6. Later(r, t, p)
    BY <1>2, <1>3, Fields DEF Asked
  <1>7. Later(t, y, p) /\ SameState(t, y) /\ y.waiting = t.waiting /\ NewProbe(y, p) /\ y.pending = t.pending
    BY <1>3, <1>4, <1>5, StartProbeIs
  <1>8. Later(x, y, p)
    BY <1>1, <1>6, <1>7, LaterTrans
  <1> QED BY <1>1, <1>3, <1>7, <1>8 DEF y, SameState

LEMMA KickIs ==
  ASSUME NEW x \in Controllers, NEW p, IsView(p)
  PROVE  LET y == KickBackground(x, p)
         IN  /\ Later(x, y, p) /\ SameState(x, y) /\ y.waiting = x.waiting /\ y.pending = x.pending
             /\ y.pending => y.probe # NoProbe
             /\ x.probe # NoProbe => y.probe # NoProbe
             /\ x.pending /\ ~IsJoinable(x, p) => NewProbe(y, p)
  <1>1. CASE x.pending /\ ~IsJoinable(x, p)
    BY <1>1, ReplaceInflightIs DEF KickBackground, NewProbe
  <1>2. CASE ~(x.pending /\ ~IsJoinable(x, p))
    BY <1>2, LaterSelf DEF KickBackground, IsJoinable, SameState
  <1> QED BY <1>1, <1>2

LEMMA ScheduleIs ==
  ASSUME NEW x \in Controllers, NEW p
  PROVE  LET y == ScheduleBackground(x)
         IN  /\ Later(x, y, p) /\ SameState(x, y) /\ y.waiting = x.waiting
             /\ y.probe = x.probe /\ y.pending = x.pending /\ (y.pending => y.timer)
  <1> DEFINE b == x.timer \/ x.pending
             y == ScheduleBackground(x)
  <1>1. b \in BOOLEAN /\ (x.pending => b)
    OBVIOUS
  <1>2. y = [x EXCEPT !.timer = b]
    BY DEF ScheduleBackground
  <1> HIDE DEF b, y
  <1>3. /\ y \in Controllers /\ SameUser(x, y) /\ SameState(x, y) /\ y.waiting = x.waiting /\ y.late = x.late
        /\ y.probe = x.probe /\ y.pending = x.pending /\ (y.pending => y.timer)
    BY <1>1, <1>2 DEF Controllers, SameUser, SameState
  <1>4. Later(x, y, p)
    BY <1>3, Fields DEF Asked
  <1> QED BY <1>3, <1>4 DEF y

\* An answer that was discarded leaves nobody behind.
LEMMA ReissueIs ==
  ASSUME NEW x \in Controllers, NEW p, IsView(p), NEW stale \in Nat, NEW caughtUp \in BOOLEAN
  PROVE  LET y == Reissue(x, p, stale, caughtUp)
         IN  Later(x, y, p) /\ SameState(x, y) /\ Cared(y)
  <1>1. CASE stale > MaxStale
    <2> DEFINE t == Settle(x)
               z == ScheduleBackground(t)
    <2>1. Reissue(x, p, stale, caughtUp) = z
      BY <1>1, BoundsAreNat DEF Reissue
    <2>2. Later(x, t, p) /\ SameState(x, t) /\ t.waiting = {}
      BY SettleIs
    <2>3. t \in Controllers
      BY <2>2 DEF Later
    <2> HIDE DEF t
    <2>4. Later(t, z, p) /\ SameState(t, z) /\ z.waiting = {} /\ (z.pending => z.timer)
      BY <2>2, <2>3, ScheduleIs
    <2> HIDE DEF z
    <2>5. Later(x, z, p)
      BY <2>2, <2>4, LaterTrans
    <2> QED BY <2>1, <2>2, <2>4, <2>5 DEF Cared, SameState
  <1>2. CASE ~(stale > MaxStale) /\ x.waiting = {} /\ ~x.pending
    BY <1>2, BoundsAreNat, LaterSelf DEF Reissue, Cared, SameState
  <1>3. CASE ~(stale > MaxStale) /\ ~(x.waiting = {} /\ ~x.pending)
    <2>1. Reissue(x, p, stale, caughtUp) = StartProbe(x, p, stale, caughtUp)
      BY <1>3 DEF Reissue
    <2> QED BY <2>1, StartProbeIs DEF Cared, NewProbe
  <1> QED BY <1>1, <1>2, <1>3

LEMMA HoldIs ==
  ASSUME NEW x \in Controllers, NEW p, IsView(p)
  PROVE  LET y == Hold(x, p)
         IN  Later(x, y, p) /\ y.status = "unknown" /\ y.owner = NoOne /\ y.waiting = {} /\ Cared(y)
  <1> DEFINE r == [x EXCEPT !.status = "unknown", !.owner = NoOne]
             s == Retire(r)
             t == Settle(s)
             u == [t EXCEPT !.pending = TRUE]
             y == KickBackground(u, p)
  <1>1. Hold(x, p) = y
    BY OwnersAssumption DEF Hold, Commit
  <1>2. /\ r \in Controllers /\ SameUser(x, r) /\ r.status = "unknown" /\ r.owner = NoOne
        /\ r.pending = x.pending /\ r.late = x.late /\ r.probe = x.probe
    BY DEF Controllers, SameUser
  <1> HIDE DEF r
  <1>3. Later(x, r, p)
    BY <1>2 DEF Later, Asked, SameProbe
  <1>4. Later(r, s, p) /\ SameState(r, s)
    BY <1>2, RetireIs
  <1>5. s \in Controllers
    BY <1>4 DEF Later
  <1> HIDE DEF s
  <1>6. Later(s, t, p) /\ SameState(s, t) /\ t.waiting = {}
    BY <1>5, SettleIs
  <1>7. t \in Controllers
    BY <1>6 DEF Later
  <1> HIDE DEF t
  <1>8. /\ u \in Controllers /\ SameUser(t, u) /\ SameState(t, u) /\ u.late = t.late /\ u.probe = t.probe
        /\ u.waiting = {} /\ u.pending = TRUE
    BY <1>6, <1>7 DEF Controllers, SameUser, SameState
  <1> HIDE DEF u
  <1>9. Later(t, u, p)
    BY <1>7, <1>8, Fields DEF Asked
  <1>10. Later(u, y, p) /\ SameState(u, y) /\ y.waiting = {} /\ Cared(y)
    BY <1>8, KickIs DEF Cared
  <1> HIDE DEF y
  <1>11. Later(x, y, p)
    BY <1>3, <1>4, <1>6, <1>9, <1>10, LaterTrans
  <1> QED BY <1>1, <1>2, <1>4, <1>6, <1>8, <1>10, <1>11 DEF SameState

\* A user stays active only with the revision that was applied.
LEMMA DriftIs ==
  ASSUME NEW x \in Controllers, NEW p, IsView(p)
  PROVE  LET y == DetectDrift(x, p)
         IN  /\ Later(x, y, p)
             /\ y.status = "active" => p.rev = y.applied
             /\ Holds(x, p) => Cared(y)
             /\ ~Holds(x, p) => /\ SameState(x, y) /\ y.waiting = x.waiting /\ y.probe = x.probe
                                /\ y.timer = x.timer /\ y.pending = (x.pending \/ Drifted(x, p))
  <1> DEFINE y == DetectDrift(x, p)
  <1>1. CASE ~Drifted(x, p)
    <2>1. y = x
      BY <1>1 DEF DetectDrift
    <2>2. x.pending \in BOOLEAN
      BY DEF Controllers
    <2>3. x.pending = (x.pending \/ FALSE)
      BY <2>2
    <2> QED BY <1>1, <2>1, <2>3, LaterSelf DEF Drifted, Holds, SameState
  <1>2. CASE Holds(x, p)
    <2>1. y = Hold(x, p)
      BY <1>2 DEF DetectDrift, Holds
    <2> QED BY <1>2, <2>1, HoldIs
  <1>3. CASE Drifted(x, p) /\ ~Holds(x, p)
    <2>1. y = [x EXCEPT !.pending = TRUE] /\ x.status # "active"
      BY <1>3 DEF DetectDrift, Holds
    <2> HIDE DEF y
    <2>2. /\ y \in Controllers /\ SameUser(x, y) /\ SameState(x, y) /\ y.waiting = x.waiting /\ y.late = x.late
          /\ y.probe = x.probe /\ y.timer = x.timer /\ y.pending = TRUE
      BY <2>1 DEF Controllers, SameUser, SameState
    <2>3. Later(x, y, p)
      BY <2>2, Fields DEF Asked
    <2>4. y.pending = (x.pending \/ Drifted(x, p))
      BY <1>3, <2>2
    <2> QED BY <1>3, <2>1, <2>2, <2>3, <2>4 DEF y, SameState
  <1> QED BY <1>1, <1>2, <1>3

LEMMA CredentialIs ==
  ASSUME NEW x \in Controllers, NEW p, IsView(p), Cared(x)
  PROVE  LET y == OnCredentialChanged(x, p)
         IN  Later(x, y, p) /\ Cared(y) /\ y.status # "active"
  <1>1. CASE x.status = "active"
    BY <1>1, HoldIs DEF OnCredentialChanged
  <1>2. CASE x.status # "active"
    <2> DEFINE t == [x EXCEPT !.pending = TRUE]
               y == KickBackground(t, p)
    <2>1. /\ t \in Controllers /\ SameUser(x, t) /\ SameState(x, t) /\ t.waiting = x.waiting /\ t.late = x.late
          /\ t.probe = x.probe /\ t.pending = TRUE
      BY DEF Controllers, SameUser, SameState
    <2> HIDE DEF t
    <2>2. Later(x, t, p)
      BY <2>1, Fields DEF Asked
    <2>3. Later(t, y, p) /\ SameState(t, y) /\ y.waiting = t.waiting /\ (y.pending => y.probe # NoProbe)
          /\ (t.probe # NoProbe => y.probe # NoProbe)
      BY <2>1, KickIs
    <2> HIDE DEF y
    <2>4. Later(x, y, p)
      BY <2>2, <2>3, LaterTrans
    <2> QED BY <1>2, <2>1, <2>3, <2>4 DEF OnCredentialChanged, Cared, SameState, y, t
  <1> QED BY <1>1, <1>2

LEMMA StampIs ==
  ASSUME NEW x \in Controllers, NEW p
  PROVE  LET y == Stamp(x)
         IN  /\ Later(x, y, p) /\ SameState(x, y) /\ y.waiting = x.waiting /\ y.pending = TRUE
             /\ ~IsJoinable(y, p)
             /\ x.probe # NoProbe => y.probe # NoProbe
  <1> DEFINE q == IF x.probe = NoProbe THEN NoProbe ELSE [x.probe EXCEPT !.signalled = TRUE]
             y == Stamp(x)
  <1>1. /\ x.probe = NoProbe => q = NoProbe
        /\ x.probe # NoProbe => q \in Probes /\ q.rev = x.probe.rev /\ q.ask = x.probe.ask /\ q.signalled = TRUE
    <2>1. x.probe # NoProbe => x.probe \in Probes
      BY DEF Controllers
    <2> QED BY <2>1 DEF Probes
  <1>2. y = [x EXCEPT !.pending = TRUE, !.probe = q]
    BY DEF Stamp
  <1> HIDE DEF q, y
  <1>3. q \in Probes \cup {NoProbe} /\ (x.probe # NoProbe => q # NoProbe)
    BY <1>1, NoProbeIsNone
  <1>4. /\ y \in Controllers /\ SameUser(x, y) /\ SameState(x, y) /\ y.waiting = x.waiting /\ y.late = x.late
        /\ y.probe = q /\ y.pending = TRUE
    BY <1>2, <1>3 DEF Controllers, SameUser, SameState
  <1>5. Later(x, y, p)
    BY <1>1, <1>4 DEF Later, Asked, SameProbe
  <1>6. ~IsJoinable(y, p)
    BY <1>1, <1>4 DEF IsJoinable
  <1> QED BY <1>3, <1>4, <1>5, <1>6 DEF y

\* A signal is answered by a new question.
LEMMA SignalIs ==
  ASSUME NEW x \in Controllers, NEW p, IsView(p), Cared(x)
  PROVE  LET y == Signal(x, p)
         IN  Later(x, y, p) /\ SameState(x, y) /\ Cared(y) /\ NewProbe(y, p) /\ y.pending
  <1> DEFINE t == Stamp(x)
             y == KickBackground(t, p)
  <1>1. /\ Later(x, t, p) /\ SameState(x, t) /\ t.waiting = x.waiting /\ t.pending = TRUE /\ ~IsJoinable(t, p)
        /\ x.probe # NoProbe => t.probe # NoProbe
    BY StampIs
  <1>2. t \in Controllers
    BY <1>1 DEF Later
  <1> HIDE DEF t
  <1>3. Later(t, y, p) /\ SameState(t, y) /\ y.waiting = t.waiting /\ y.pending = t.pending /\ NewProbe(y, p)
    BY <1>1, <1>2, KickIs
  <1> HIDE DEF y
  <1>4. Later(x, y, p)
    BY <1>1, <1>3, LaterTrans
  <1>5. Cared(y) /\ y.pending
    BY <1>1, <1>3 DEF Cared, NewProbe
  <1> QED BY <1>1, <1>3, <1>4, <1>5 DEF Signal, t, y, SameState

LEMMA ResolveIs ==
  ASSUME NEW x \in Controllers, NEW p, IsView(p), Cared(x), NEW w \in Callers, NEW cause
  PROVE  LET y == Resolve(x, p, w, cause)
         IN  /\ Later(x, y, p) /\ Cared(y)
             /\ cause = "signal" => NewProbe(y, p) /\ y.pending
  <1> DEFINE d == DetectDrift(x, p)
             s == IF cause = "signal" THEN Stamp(d) ELSE d
             j == [s EXCEPT !.waiting = @ \cup {w}]
             y == Resolve(x, p, w, cause)
  <1>1. Later(x, d, p)
    BY DriftIs
  <1>2. d \in Controllers
    BY <1>1 DEF Later
  <1> HIDE DEF d
  <1>3. /\ Later(d, s, p)
        /\ cause = "signal" => s.pending = TRUE /\ ~IsJoinable(s, p)
    BY <1>2, StampIs, LaterSelf
  <1>4. s \in Controllers
    BY <1>3 DEF Later
  <1>5. y = IF IsJoinable(s, p) THEN j ELSE ReplaceInflight(j, p)
    BY DEF Resolve, d
  <1> HIDE DEF s
  <1>6. /\ j \in Controllers /\ SameUser(s, j) /\ SameState(s, j) /\ j.late = s.late
        /\ j.probe = s.probe /\ j.pending = s.pending
    BY <1>4 DEF Controllers, SameUser, SameState
  <1> HIDE DEF j, y
  <1>7. Later(s, j, p)
    BY <1>4, <1>6, Fields DEF Asked
  <1>8. Later(j, y, p) /\ y.probe # NoProbe /\ y.pending = j.pending /\ (~IsJoinable(s, p) => NewProbe(y, p))
    <2>1. CASE IsJoinable(s, p)
      BY <1>5, <1>6, <2>1, LaterSelf DEF IsJoinable
    <2>2. CASE ~IsJoinable(s, p)
      BY <1>5, <1>6, <2>2, ReplaceInflightIs DEF NewProbe
    <2> QED BY <2>1, <2>2
  <1>9. Later(x, y, p)
    BY <1>1, <1>3, <1>7, <1>8, LaterTrans
  <1> QED BY <1>3, <1>6, <1>8, <1>9 DEF Cared, y

\* A caller that leaves takes the probe with it only when nobody needs it.
LEMMA LeaveIs ==
  ASSUME NEW x \in Controllers, NEW p, NEW w, Cared(x)
  PROVE  LET y == Leave(x, w) IN Later(x, y, p) /\ Cared(y)
  <1> DEFINE t == [x EXCEPT !.waiting = @ \ {w}]
             y == Leave(x, w)
  <1>1. y = IF t.waiting = {} /\ ~t.pending THEN Retire(t) ELSE t
    BY DEF Leave
  <1>2. /\ t \in Controllers /\ SameUser(x, t) /\ SameState(x, t) /\ t.late = x.late
        /\ t.probe = x.probe /\ t.pending = x.pending /\ t.timer = x.timer /\ t.waiting \subseteq x.waiting
    BY DEF Controllers, SameUser, SameState
  <1> HIDE DEF t, y
  <1>3. Later(x, t, p)
    BY <1>2, Fields DEF Asked
  <1>4. CASE t.waiting = {} /\ ~t.pending
    <2>1. Later(t, y, p) /\ y.waiting = {} /\ ~y.pending
      BY <1>1, <1>2, <1>4, RetireIs
    <2> QED BY <1>3, <2>1, LaterTrans DEF Cared, y
  <1>5. CASE ~(t.waiting = {} /\ ~t.pending)
    <2>1. Cared(t)
      BY <1>2, <1>5 DEF Cared
    <2> QED BY <1>1, <1>3, <1>5, <2>1 DEF y
  <1> QED BY <1>4, <1>5

LEMMA TimeoutIs ==
  ASSUME NEW x \in Controllers, NEW p, IsView(p), x.probe # NoProbe
  PROVE  LET y == OnProbeTimeout(x, p) IN Later(x, y, p) /\ Cared(y)
  <1> DEFINE r == Retire(x)
             d == DetectDrift(r, p)
             t == Settle(r)
             s == ScheduleBackground(t)
             z == Reissue(d, p, x.probe.stale + 1, x.probe.caughtUp)
             y == OnProbeTimeout(x, p)
  <1>1. Later(x, r, p)
    BY RetireIs
  <1>2. r \in Controllers
    BY <1>1 DEF Later
  <1>3. x.probe \in Probes
    BY DEF Controllers
  <1>4. x.probe.stale + 1 \in Nat /\ x.probe.caughtUp \in BOOLEAN
    BY <1>3 DEF Probes
  <1>5. \/ y = s
        \/ y = d /\ Holds(r, p)
        \/ y = z
    BY DEF OnProbeTimeout
  <1> HIDE DEF r, y
  <1>6. Later(r, d, p) /\ (Holds(r, p) => Cared(d))
    BY <1>2, DriftIs
  <1>7. d \in Controllers
    BY <1>6 DEF Later
  <1> HIDE DEF d
  <1>8. Later(d, z, p) /\ Cared(z)
    BY <1>4, <1>7, ReissueIs
  <1>9. Later(r, t, p) /\ t.waiting = {}
    BY <1>2, SettleIs
  <1>10. t \in Controllers
    BY <1>9 DEF Later
  <1> HIDE DEF t, z
  <1>11. Later(t, s, p) /\ s.waiting = {} /\ (s.pending => s.timer)
    BY <1>9, <1>10, ScheduleIs
  <1> HIDE DEF s
  <1>12. Cared(s)
    BY <1>11 DEF Cared
  <1>13. Later(x, s, p) /\ Later(x, d, p) /\ Later(x, z, p)
    BY <1>1, <1>6, <1>8, <1>9, <1>11, LaterTrans
  <1> QED BY <1>5, <1>6, <1>8, <1>12, <1>13 DEF y

LEMMA TimerIs ==
  ASSUME NEW x \in Controllers, NEW p, IsView(p), Cared(x)
  PROVE  LET y == OnBackgroundTimer(x, p) IN Later(x, y, p) /\ Cared(y)
  <1> DEFINE t == [x EXCEPT !.timer = FALSE]
             y == KickBackground(t, p)
  <1>1. /\ t \in Controllers /\ SameUser(x, t) /\ SameState(x, t) /\ t.waiting = x.waiting /\ t.late = x.late
        /\ t.probe = x.probe /\ t.pending = x.pending
    BY DEF Controllers, SameUser, SameState
  <1> HIDE DEF t
  <1>2. Later(x, t, p)
    BY <1>1, Fields DEF Asked
  <1>3. Later(t, y, p) /\ y.waiting = t.waiting /\ (y.pending => y.probe # NoProbe)
        /\ (t.probe # NoProbe => y.probe # NoProbe)
    BY <1>1, KickIs
  <1> HIDE DEF y
  <1>4. Later(x, y, p)
    BY <1>2, <1>3, LaterTrans
  <1> QED BY <1>1, <1>3, <1>4 DEF OnBackgroundTimer, Cared, t, y

\* An answer to the question of a probe that is done applies nothing, and
\* whatever it cleared or noticed is asked for.
LEMMA LateIs ==
  ASSUME NEW x \in Controllers, NEW p, IsView(p), NEW ask \in x.late, NEW a, Cared(x)
  PROVE  LET y == OnLateAnswer(x, p, ask, a)
         IN  Later(x, y, p) /\ Cared(y) /\ (y.status = "active" => p.rev = y.applied)
  <1> DEFINE b == x.pending \/ Cleared(a)
             r == [x EXCEPT !.late = @ \ {ask}, !.pending = @ \/ Cleared(a)]
             d == DetectDrift(r, p)
             k == KickBackground(d, p)
             y == OnLateAnswer(x, p, ask, a)
  <1>1. b \in BOOLEAN /\ (x.pending => b) /\ (~Cleared(a) => b = x.pending)
    <2>1. x.pending \in BOOLEAN
      BY DEF Controllers
    <2> QED BY <2>1
  <1>2. r = [x EXCEPT !.late = @ \ {ask}, !.pending = b]
    OBVIOUS
  <1>3. y = IF ~Holds(r, p) /\ (Cleared(a) \/ Drifted(r, p)) THEN k ELSE d
    BY DEF OnLateAnswer
  <1> HIDE DEF b, r
  <1>4. /\ r \in Controllers /\ SameUser(x, r) /\ SameState(x, r) /\ r.waiting = x.waiting
        /\ r.late \subseteq x.late /\ r.probe = x.probe /\ r.timer = x.timer /\ r.pending = b
    BY <1>1, <1>2 DEF Controllers, SameUser, SameState
  <1>5. Later(x, r, p)
    BY <1>1, <1>4, Fields DEF Asked
  <1>6. /\ Later(r, d, p)
        /\ d.status = "active" => p.rev = d.applied
        /\ Holds(r, p) => Cared(d)
        /\ ~Holds(r, p) => /\ d.waiting = r.waiting /\ d.probe = r.probe
                           /\ d.timer = r.timer /\ d.pending = (r.pending \/ Drifted(r, p))
    BY <1>4, DriftIs
  <1>7. d \in Controllers
    BY <1>6 DEF Later
  <1> HIDE DEF d, y
  <1>8. /\ Later(d, k, p) /\ SameState(d, k) /\ k.waiting = d.waiting
        /\ k.pending => k.probe # NoProbe
        /\ d.probe # NoProbe => k.probe # NoProbe
    BY <1>7, KickIs
  <1> HIDE DEF k
  <1>9. Later(x, d, p) /\ Later(x, k, p)
    BY <1>5, <1>6, <1>8, LaterTrans
  <1>10. CASE Holds(r, p)
    BY <1>3, <1>6, <1>9, <1>10 DEF y
  <1>11. CASE ~Holds(r, p) /\ (Cleared(a) \/ Drifted(r, p))
    <2>1. y = k /\ SameUser(d, k)
      BY <1>3, <1>8, <1>11 DEF Later
    <2>2. Cared(k)
      BY <1>4, <1>6, <1>8, <1>11 DEF Cared
    <2> QED BY <1>6, <1>8, <1>9, <2>1, <2>2 DEF SameState, SameUser, y
  <1>12. CASE ~Holds(r, p) /\ ~Cleared(a) /\ ~Drifted(r, p)
    <2>1. y = d
      BY <1>3, <1>12
    <2>2. Cared(d)
      BY <1>1, <1>4, <1>6, <1>12 DEF Cared
    <2> QED BY <1>6, <1>9, <2>1, <2>2 DEF y
  <1> QED BY <1>10, <1>11, <1>12

Applies(x, p, a) == Acceptable(x, p, a) /\ a.ok

\* An answer of the probe in flight that is not applied.
LEMMA SettledIs ==
  ASSUME NEW x \in Controllers, NEW p, IsView(p), NEW a, x.probe # NoProbe, ~Applies(x, p, a)
  PROVE  LET y == OnProbeSettled(x, p, a)
         IN  /\ Later(x, y, p) /\ Cared(y)
             /\ a.ok => (y.status = "active" => p.rev = y.applied)
  <1> DEFINE b == x.pending \/ Cleared(a)
             s == [x EXCEPT !.probe = NoProbe]
             n == [s EXCEPT !.pending = @ \/ Cleared(a)]
             d == DetectDrift(n, p)
             t == Settle(s)
             u == ScheduleBackground(t)
             caughtUp == /\ a.ok
                         /\ ~x.probe.signalled
                         /\ ~x.probe.caughtUp
                         /\ a.checked # x.probe.rev
                         /\ p.rev = a.current
             count == IF caughtUp THEN x.probe.stale ELSE x.probe.stale + 1
             again == x.probe.caughtUp \/ caughtUp
             z == Reissue(d, p, count, again)
             y == OnProbeSettled(x, p, a)
  <1>1. \/ ~a.ok /\ y = u
        \/ Holds(n, p) /\ y = d
        \/ y = z
    BY DEF OnProbeSettled, Applies
  <1>2. x.probe \in Probes /\ b \in BOOLEAN /\ (x.pending => b)
    BY DEF Controllers
  <1>3. count \in Nat /\ again \in BOOLEAN
    <2>1. x.probe.stale \in Nat
      BY <1>2 DEF Probes
    <2> HIDE DEF caughtUp
    <2> QED BY <2>1
  <1> HIDE DEF count, again, caughtUp, y
  <1>4. n = [s EXCEPT !.pending = b]
    OBVIOUS
  <1>5. /\ s \in Controllers /\ SameUser(x, s) /\ SameState(x, s) /\ s.late = x.late
        /\ s.probe = NoProbe /\ s.pending = x.pending
    BY DEF Controllers, SameUser, SameState
  <1> HIDE DEF b, s
  <1>6. /\ n \in Controllers /\ SameUser(s, n) /\ SameState(s, n) /\ n.late = s.late
        /\ n.probe = NoProbe /\ (s.pending => n.pending)
    BY <1>2, <1>4, <1>5 DEF Controllers, SameUser, SameState
  <1> HIDE DEF n
  <1>7. Later(x, s, p) /\ Later(s, n, p)
    BY <1>5, <1>6, Fields DEF Asked
  <1>8. Later(n, d, p) /\ (d.status = "active" => p.rev = d.applied) /\ (Holds(n, p) => Cared(d))
    BY <1>6, DriftIs
  <1>9. d \in Controllers
    BY <1>8 DEF Later
  <1> HIDE DEF d
  <1>10. Later(d, z, p) /\ SameState(d, z) /\ Cared(z)
    BY <1>3, <1>9, ReissueIs
  <1> HIDE DEF z
  <1>11. Later(s, t, p) /\ t.waiting = {}
    BY <1>5, SettleIs
  <1>12. t \in Controllers
    BY <1>11 DEF Later
  <1> HIDE DEF t
  <1>13. Later(t, u, p) /\ u.waiting = {} /\ (u.pending => u.timer)
    BY <1>11, <1>12, ScheduleIs
  <1> HIDE DEF u
  <1>14. Later(x, u, p) /\ Later(x, d, p) /\ Later(x, z, p)
    BY <1>7, <1>8, <1>10, <1>11, <1>13, LaterTrans
  <1>15. Cared(u)
    BY <1>13 DEF Cared
  <1>16. z.status = "active" => p.rev = z.applied
    BY <1>8, <1>10 DEF Later, SameState, SameUser
  <1> QED BY <1>1, <1>8, <1>10, <1>14, <1>15, <1>16 DEF y

ChangeAfter(x, who) ==
    LET from == IF x.change = NoChange THEN x.lastUser ELSE x.change.from
    IN IF who = NoOne THEN NoChange
       ELSE IF who \notin Users \/ x.lastUser \in {NoOne, who} THEN x.change
       ELSE IF from = who THEN NoChange
       ELSE [from |-> from, to |-> who]

Settled(x, a, y) ==
    /\ y \in Controllers /\ y.probe = NoProbe /\ y.late = x.late
    /\ y.waiting = {} /\ y.pending = FALSE /\ y.applied = a.current /\ y.owner = a.who
    /\ y.status = IF a.who = NoOne THEN "none" ELSE "active"
    /\ y.lastUser = IF a.who = NoOne THEN NoOne ELSE IF a.who \in Users THEN a.who ELSE x.lastUser
    /\ y.change = ChangeAfter(x, a.who)

LEMMA AppliesIs ==
  ASSUME NEW x \in Controllers, NEW p, NEW a, Applies(x, p, a),
         a.who \in Owners \cup {NoOne}, a.current \in Nat
  PROVE  Settled(x, a, OnProbeSettled(x, p, a))
  <1> DEFINE s == [x EXCEPT !.probe = NoProbe, !.pending = FALSE, !.timer = FALSE]
             status == IF a.who = NoOne THEN "none" ELSE "active"
             m == Commit(s, status, a.who)
             y == OnProbeSettled(x, p, a)
  <1>1. y = Settle(ApplyAnswer(s, a))
    BY DEF OnProbeSettled, Applies, StopBackground
  <1>2. ApplyAnswer(s, a) = [m EXCEPT !.applied = a.current]
    BY DEF ApplyAnswer
  <1>3. y = [[m EXCEPT !.applied = a.current] EXCEPT !.waiting = {}]
    BY <1>1, <1>2 DEF Settle
  <1>4. /\ s \in Controllers /\ s.probe = NoProbe /\ s.late = x.late /\ s.pending = FALSE
        /\ s.lastUser = x.lastUser /\ s.change = x.change
    BY DEF Controllers
  <1>5. NoOne \notin Users /\ (a.who # NoOne => a.who \in Owners)
    BY OwnersAssumption
  <1>6. ChangeAfter(x, a.who) \in Changes
    BY <1>5 DEF ChangeAfter, Controllers, Changes, NoChange
  <1> HIDE DEF s, y
  <1>7. /\ m \in Controllers /\ m.probe = NoProbe /\ m.late = x.late /\ m.pending = FALSE
        /\ m.owner = a.who /\ m.status = status
        /\ m.lastUser = IF a.who = NoOne THEN NoOne ELSE IF a.who \in Users THEN a.who ELSE x.lastUser
        /\ m.change = ChangeAfter(x, a.who)
    <2>1. CASE a.who = NoOne
      <3> DEFINE n == [s EXCEPT !.status = status, !.owner = a.who]
      <3>1. m = [n EXCEPT !.change = NoChange, !.lastUser = NoOne]
        BY <2>1 DEF Commit
      <3>2. /\ n \in Controllers /\ n.probe = NoProbe /\ n.late = x.late /\ n.pending = FALSE
            /\ n.owner = a.who /\ n.status = status
        <4>1. status \in {"unknown", "active", "none"} /\ a.who \in Owners \cup {NoOne}
          BY <2>1
        <4> HIDE DEF status
        <4> QED BY <1>4, <4>1 DEF Controllers
      <3>3. status = "none" /\ NoChange \in Changes /\ ChangeAfter(x, a.who) = NoChange
        BY <1>6, <2>1 DEF ChangeAfter
      <3> HIDE DEF status, m, n
      <3> QED BY <1>5, <2>1, <3>1, <3>2, <3>3 DEF Controllers
    <2>2. CASE a.who # NoOne /\ a.who \notin Users
      BY <1>4, <1>5, <1>6, <2>2 DEF Commit, ChangeAfter, Controllers
    <2>3. CASE a.who \in Users
      <3> DEFINE from == IF s.change = NoChange THEN s.lastUser ELSE s.change.from
                 next == [s EXCEPT !.status = status, !.owner = a.who]
                 g == CASE s.lastUser \in {NoOne, a.who} -> next.change
                        [] s.lastUser \notin {NoOne, a.who} /\ from = a.who -> NoChange
                        [] OTHER -> [from |-> from, to |-> a.who]
      <3>1. /\ next \in Controllers /\ next.probe = NoProbe /\ next.late = x.late /\ next.pending = FALSE
            /\ next.owner = a.who /\ next.status = status /\ next.change = x.change
        BY <1>4, <2>3 DEF Controllers, Owners
      <3>2. m = [next EXCEPT !.lastUser = a.who, !.change = g]
        BY <1>5, <2>3 DEF Commit
      <3>3. g = ChangeAfter(x, a.who)
        <4>1. CASE s.lastUser \in {NoOne, a.who}
          <5>1. g = next.change
            BY <1>4, <2>3, <4>1, <1>5, <3>1 DEF ChangeAfter
          <5> QED BY <1>4, <2>3, <4>1, <1>5, <3>1, <5>1 DEF ChangeAfter
        <4>2. CASE s.lastUser \notin {NoOne, a.who}
          BY <1>4, <2>3, <4>2, <1>5 DEF ChangeAfter
        <4> QED BY <4>1, <4>2
      <3> HIDE DEF g, next, m
      <3>4. g \in Changes
        BY <1>6, <3>3
      <3>5. /\ m \in Controllers /\ m.probe = NoProbe /\ m.late = x.late /\ m.pending = FALSE
            /\ m.owner = a.who /\ m.status = status /\ m.lastUser = a.who /\ m.change = g
        BY <2>3, <3>1, <3>2, <3>4 DEF Controllers
      <3> QED BY <1>5, <2>3, <3>3, <3>5 DEF m
    <2> QED BY <1>5, <2>1, <2>2, <2>3
  <1> HIDE DEF m
  <1>8. /\ y \in Controllers /\ y.probe = m.probe /\ y.late = m.late
        /\ y.waiting = {} /\ y.pending = m.pending /\ y.applied = a.current /\ y.owner = m.owner
        /\ y.status = m.status /\ y.lastUser = m.lastUser /\ y.change = m.change
    BY <1>3, <1>7 DEF Controllers
  <1> QED BY <1>7, <1>8 DEF y, Settled

-----------------------------------------------------------------------------
(* The inductive invariant.                                                *)

TypeOK ==
    /\ c \in Controllers
    /\ counter \in Nat /\ events \in Nat /\ outside \in Nat
    /\ shared \in {0} \cup Minted /\ own \in {0} \cup Minted
    /\ op = NoOp \/ op \in [grant : BOOLEAN, rev : Nat, token : {0} \cup Minted]
    /\ ownerOf \in [Tokens -> Owners \cup {NoOne}]
    /\ live \subseteq Minted
    /\ dead \subseteq Minted \ live
    /\ told \in Users \cup {NoOne}

\* What a question heard about its token stays true of it.
AskOK(ask) ==
    /\ ask.checked <= counter
    /\ ask.token \in {0} \cup Minted
    /\ ask.at # "sent" => /\ ask.token # 0
                          /\ \/ ask.said = NoOne /\ ask.token \notin live
                             \/ ask.said = ownerOf[ask.token]

AsksOK == c.applied <= counter /\ \A ask \in Asked(c) : AskOK(ask)

\* The question of the probe in flight is about the stored token, unless an
\* event is to come or the revision has moved; and what it heard of a token
\* that was revoked before the last signal is not that it is accepted.
ProbeOK ==
    c.probe # NoProbe =>
        /\ c.probe.ask.checked = c.probe.rev
        /\ c.probe.rev = counter /\ events = 0 => Token = c.probe.ask.token
        /\ c.probe.ask.at # "sent" /\ ~c.probe.signalled /\ c.probe.ask.said # NoOne
              => c.probe.ask.token \notin dead

UserOK ==
    /\ c.owner \in Users => c.lastUser = c.owner
    /\ c.status # "active" => c.owner = NoOne
    /\ c.status = "none" => c.lastUser = NoOne
    /\ told = NoOne <=> c.lastUser = NoOne

IInv == TypeOK /\ AsksOK /\ ProbeOK /\ UserOK /\ ConfirmedIsCurrent /\ NobodyIsForgotten

LEMMA TypesOfMinted ==
  /\ 0 \notin Minted /\ Minted \subseteq Tokens /\ Tokens \subseteq Nat
  /\ NoOp \notin [grant : BOOLEAN, rev : Nat, token : {0} \cup Minted]
  BY TokensAreNat DEF Minted, Tokens, NoOp

LEMMA TokenIs ==
  ASSUME shared \in {0} \cup Minted, own \in {0} \cup Minted
  PROVE  Token \in {0} \cup Minted /\ Token \in Nat
  BY TypesOfMinted DEF Token

LEMMA InitInv == Init => IInv
  <1> SUFFICES ASSUME Init PROVE IInv
    OBVIOUS
  <1>1. c \in Controllers /\ c.probe = NoProbe /\ c.late = {} /\ c.applied = 0
        /\ c.status = "unknown" /\ c.owner = NoOne /\ c.lastUser = NoOne /\ c.change = NoChange
        /\ c.waiting = {} /\ ~c.pending
    BY DEF Init, InitialController, Controllers, Changes, NoChange
  <1>2. ownerOf \in [Tokens -> Owners \cup {NoOne}] /\ live = Minted
    BY DEF Init, Minted
  <1>3. shared \in {0} \cup Minted /\ own \in {0} \cup Minted
    BY <1>2 DEF Init
  <1>4. TypeOK
    BY <1>1, <1>2, <1>3 DEF Init, TypeOK
  <1>5. AsksOK /\ ProbeOK /\ NobodyIsForgotten
    BY <1>1 DEF Init, AsksOK, ProbeOK, Asked, NobodyIsForgotten
  <1>6. UserOK /\ ConfirmedIsCurrent
    BY <1>1, OwnersAssumption DEF Init, UserOK, ConfirmedIsCurrent
  <1> QED BY <1>4, <1>5, <1>6 DEF IInv

LEMMA MintIs ==
  ASSUME TypeOK, NEW who \in Owners, Mint(who)
  PROVE  /\ Fresh \in Tokens \ Minted
         /\ Minted' = Minted \cup {Fresh}
         /\ ownerOf' \in [Tokens -> Owners \cup {NoOne}] /\ ownerOf'[Fresh] = who
         /\ \A t \in Minted : ownerOf'[t] = ownerOf[t]
         /\ live' = live \cup {Fresh}
  <1>1. Fresh \in Tokens \ Minted
    BY TypesOfMinted DEF Fresh, Mint
  <1>2. /\ ownerOf' \in [Tokens -> Owners \cup {NoOne}] /\ ownerOf'[Fresh] = who
        /\ \A t \in Tokens : t # Fresh => ownerOf'[t] = ownerOf[t]
    BY <1>1 DEF Mint, TypeOK
  <1>3. who # NoOne
    BY OwnersAssumption DEF Owners
  <1>4. Minted' = Minted \cup {Fresh}
    BY <1>1, <1>2, <1>3 DEF Minted
  <1> QED BY <1>1, <1>2, <1>4 DEF Minted, Mint

-----------------------------------------------------------------------------
(* Steps that apply no answer.                                             *)

\* What the storages, the server and this tab's operations may do in a step.
ServerOnward ==
    /\ ownerOf' \in [Tokens -> Owners \cup {NoOne}]
    /\ Minted \subseteq Minted'
    /\ \A t \in Minted : ownerOf'[t] = ownerOf[t]
    /\ live' \subseteq Minted' /\ live' \cap Minted \subseteq live

StorageOnward ==
    /\ counter' \in Nat /\ events' \in Nat /\ outside' \in Nat
    /\ counter <= counter'
    /\ shared' \in {0} \cup Minted' /\ own' \in {0} \cup Minted'
    /\ counter' = counter /\ events' = 0 => events = 0 /\ Token' = Token

Onward ==
    /\ ServerOnward
    /\ StorageOnward
    /\ op' = NoOp \/ op' \in [grant : BOOLEAN, rev : Nat, token : {0} \cup Minted']

LEMMA ViewNext ==
  ASSUME Onward
  PROVE  /\ IsView(ProviderNext) /\ ProviderNext.rev = counter'
         /\ ProviderNext.ask = Ask(counter', Token') /\ Token' \in {0} \cup Minted'
  <1>1. Token' \in {0} \cup Minted' /\ Token' \in Nat
    <2>1. 0 \in Nat /\ Minted' \subseteq Nat
      BY TypesOfMinted, TokensAreNat DEF Minted, Tokens
    <2> QED BY <2>1 DEF Onward, ServerOnward, StorageOnward, Token
  <1>2. Ask(counter', Token') \in Asks
    BY <1>1 DEF Onward, ServerOnward, StorageOnward, Ask, Asks
  <1> QED BY <1>1, <1>2 DEF IsView, ProviderNext, Onward, ServerOnward, StorageOnward

LEMMA AskStays ==
  ASSUME IInv, Onward, NEW ask \in Asks, AskOK(ask)
  PROVE  AskOK(ask)'
  <1>1. ask.checked <= counter'
    <2>1. ask.checked \in Nat /\ ask.checked <= counter /\ counter \in Nat /\ counter' \in Nat /\ counter <= counter'
      BY DEF Onward, ServerOnward, StorageOnward, AskOK, IInv, TypeOK, Asks
    <2> QED BY <2>1
  <1>2. ask.token \in {0} \cup Minted'
    BY DEF Onward, ServerOnward, StorageOnward, AskOK
  <1>3. ask.at # "sent" => /\ ask.token # 0
                           /\ \/ ask.said = NoOne /\ ask.token \notin live'
                              \/ ask.said = ownerOf'[ask.token]
    BY DEF Onward, ServerOnward, StorageOnward, AskOK
  <1> QED BY <1>1, <1>2, <1>3 DEF AskOK

\* What SignalIsAnsweredAfresh says of a step.
Afresh ==
    c.pending /\ ~c'.pending /\ c'.status = "active" => c.probe.ask.token \notin dead

\* A step of the controller that applies no answer keeps the invariant.
LEMMA LaterStep ==
  ASSUME IInv, Onward, Later(c, c', ProviderNext), Cared(c'), told' = ToldAfter(c'),
         c'.status = "active" => c'.applied = counter',
         \/ dead' \in {dead, {}}
         \/ dead' = Minted \ live /\ NewProbe(c', ProviderNext)
  PROVE  IInv' /\ Afresh
  <1>1. /\ IsView(ProviderNext) /\ ProviderNext.rev = counter'
        /\ ProviderNext.ask = Ask(counter', Token') /\ Token' \in {0} \cup Minted'
    BY ViewNext
  <1>2. c' \in Controllers /\ c \in Controllers
    BY DEF Later, IInv, TypeOK
  <1>3. told' = told
    <2>1. c'.lastUser = c.lastUser /\ c.lastUser \in Users \cup {NoOne}
      BY <1>2 DEF Later, SameUser, Controllers
    <2>2. CASE SameState(c, c')
      BY <2>1, <2>2, OwnersAssumption DEF SameState, ToldAfter, IInv, UserOK
    <2>3. CASE c'.status = "unknown" /\ c'.owner = NoOne
      BY <2>3, OwnersAssumption DEF ToldAfter
    <2> QED BY <2>2, <2>3 DEF Later
  <1>4. dead' \subseteq Minted' \ live'
    BY DEF Onward, ServerOnward, StorageOnward, IInv, TypeOK
  <1>5. TypeOK'
    BY <1>2, <1>3, <1>4 DEF TypeOK, Onward, ServerOnward, StorageOnward, IInv
  <1>6. AsksOK'
    <2>1. c'.applied <= counter'
      <3>1. c'.applied = c.applied /\ c.applied \in Nat /\ c.applied <= counter
        BY <1>2 DEF Later, SameUser, Controllers, IInv, AsksOK
      <3> QED BY <3>1 DEF Onward, ServerOnward, StorageOnward, IInv, TypeOK
    <2>2. Asked(c') \subseteq Asked(c) \cup {ProviderNext.ask}
      BY DEF Later, Asked, SameProbe, NewProbe
    <2>3. \A ask \in Asked(c) : AskOK(ask)'
      <3>1. Asked(c) \subseteq Asks
        BY <1>2 DEF Asked, Controllers, Probes
      <3> QED BY <3>1, AskStays DEF IInv, AsksOK
    <2>4. \A q : q = ProviderNext.ask => AskOK(q)'
      <3> SUFFICES ASSUME NEW q, q = ProviderNext.ask PROVE AskOK(q)'
        OBVIOUS
      <3>1. q.checked = counter' /\ q.token = Token' /\ q.at = "sent"
        BY <1>1 DEF Ask
      <3> QED BY <1>1, <3>1 DEF AskOK, Onward, ServerOnward, StorageOnward
    <2> HIDE DEF ProviderNext
    <2> QED BY <2>1, <2>2, <2>3, <2>4 DEF AsksOK
  <1>7. ProbeOK'
    <2> SUFFICES ASSUME c'.probe # NoProbe
                 PROVE  /\ c'.probe.ask.checked = c'.probe.rev
                        /\ c'.probe.rev = counter' /\ events' = 0 => Token' = c'.probe.ask.token
                        /\ c'.probe.ask.at # "sent" /\ ~c'.probe.signalled /\ c'.probe.ask.said # NoOne
                             => c'.probe.ask.token \notin dead'
      BY DEF ProbeOK
    <2>1. CASE NewProbe(c', ProviderNext)
      BY <1>1, <2>1 DEF NewProbe, Ask
    <2>2. CASE SameProbe(c, c') /\ dead' \in {dead, {}}
      <3>1. c.probe \in Probes /\ c.probe.ask \in Asked(c)
        BY <1>2, <2>2 DEF SameProbe, Controllers, Asked
      <3>2. c.probe.rev <= counter /\ c.probe.rev \in Nat
        BY <3>1, <2>2 DEF SameProbe, IInv, ProbeOK, AsksOK, AskOK, Probes
      <3>3. c'.probe.rev = counter' => counter' = counter /\ c.probe.rev = counter
        BY <2>2, <3>2 DEF SameProbe, Onward, ServerOnward, StorageOnward, IInv, TypeOK
      <3> QED BY <2>2, <3>3 DEF SameProbe, Onward, ServerOnward, StorageOnward, IInv, ProbeOK
    <2> QED BY <2>1, <2>2 DEF Later
  <1>8. UserOK'
    BY <1>3, OwnersAssumption DEF UserOK, IInv, Later, SameUser, SameState
  <1>9. ConfirmedIsCurrent'
    <2> SUFFICES ASSUME events' = 0, c'.status # "unknown", c'.applied = counter'
                 PROVE  c'.owner = (IF Token' = 0 THEN NoOne ELSE ownerOf'[Token'])
      BY DEF ConfirmedIsCurrent
    <2>1. c.applied = counter' /\ c.status # "unknown" /\ c'.owner = c.owner
      BY DEF Later, SameUser, SameState
    <2>2. counter' = counter
      BY <1>2, <2>1 DEF Onward, ServerOnward, StorageOnward, IInv, AsksOK, TypeOK, Controllers
    <2>3. events = 0 /\ Token' = Token
      BY <2>2 DEF Onward, ServerOnward, StorageOnward
    <2>4. c.owner = (IF Token = 0 THEN NoOne ELSE ownerOf[Token])
      BY <2>1, <2>2, <2>3 DEF IInv, ConfirmedIsCurrent
    <2>5. Token \in {0} \cup Minted
      BY TokenIs DEF IInv, TypeOK
    <2> QED BY <2>1, <2>3, <2>4, <2>5 DEF Onward, ServerOnward, StorageOnward
  <1>10. NobodyIsForgotten'
    BY <1>3 DEF NobodyIsForgotten, IInv, Cared, Later, SameUser
  <1>11. Afresh
    BY DEF Afresh, Later
  <1> QED BY <1>5, <1>6, <1>7, <1>8, <1>9, <1>10, <1>11 DEF IInv

\* A step in which the controller takes no part.
LEMMA StillStep ==
  ASSUME IInv, Onward, UNCHANGED <<c, counter, ghosts>>
  PROVE  IInv' /\ Afresh
  <1>1. c \in Controllers /\ Cared(c)
    BY DEF IInv, TypeOK, NobodyIsForgotten, Cared
  <1>2. Later(c, c', ProviderNext) /\ Cared(c')
    BY <1>1, LaterSelf
  <1>3. told' = ToldAfter(c')
    BY OwnersAssumption DEF ToldAfter, IInv, UserOK, ghosts
  <1>4. c'.status = "active" => c'.applied = counter'
    BY DEF IInv, ConfirmedIsCurrent
  <1> QED BY <1>2, <1>3, <1>4, LaterStep DEF ghosts

-----------------------------------------------------------------------------
(* The storages and the server.                                            *)

LEMMA ServerSame ==
  ASSUME IInv, UNCHANGED server
  PROVE  ServerOnward /\ Minted' = Minted
  BY DEF ServerOnward, server, IInv, TypeOK, Minted

LEMMA MintOnward ==
  ASSUME IInv, NEW who \in Owners, Mint(who)
  PROVE  ServerOnward /\ Fresh \in Minted'
  <1>1. TypeOK /\ live \subseteq Minted
    BY DEF IInv, TypeOK
  <1>2. /\ Fresh \in Tokens \ Minted
        /\ Minted' = Minted \cup {Fresh}
        /\ ownerOf' \in [Tokens -> Owners \cup {NoOne}]
        /\ \A t \in Minted : ownerOf'[t] = ownerOf[t]
        /\ live' = live \cup {Fresh}
    BY <1>1, MintIs
  <1> QED BY <1>1, <1>2 DEF ServerOnward

LEMMA StorageSame ==
  ASSUME IInv, Minted \subseteq Minted', UNCHANGED <<counter, storage, events>>, outside' \in Nat
  PROVE  StorageOnward /\ Token' = Token
  BY DEF StorageOnward, storage, Token, IInv, TypeOK

LEMMA WriteTokenIs ==
  ASSUME IInv, Minted \subseteq Minted', UNCHANGED <<events, outside>>,
         NEW t \in {0} \cup Minted', NEW remember \in BOOLEAN, WriteToken(t, remember)
  PROVE  /\ StorageOnward
         /\ t = 0 => Token' = 0
         /\ counter' # counter => Token' # Token
  BY DEF WriteToken, SetToken, StorageOnward, Token, IInv, TypeOK

LEMMA CaredNow == IInv => c \in Controllers /\ Cared(c)
  BY DEF IInv, TypeOK, NobodyIsForgotten, Cared

\* A write that is reported to the controller, or none.
LEMMA StoreStep ==
  ASSUME IInv, ServerOnward, NEW start, NEW t \in {0} \cup Minted', NEW remember \in BOOLEAN,
         NEW grant, Replied(grant), WriteTokenIfUnchanged(start, t, remember)
  PROVE  IInv' /\ Afresh
  <1>1. op' = NoOp /\ UNCHANGED <<events, outside>> /\ Minted \subseteq Minted'
    BY DEF Replied, ServerOnward
  <1>2. CASE Unchanged(start)
    <2>1. WriteToken(t, remember)
      BY <1>2 DEF WriteTokenIfUnchanged
    <2>2. StorageOnward
      BY <1>1, <2>1, WriteTokenIs
    <2>3. Onward
      BY <1>1, <2>2 DEF Onward
    <2>4. IsView(ProviderNext)
      BY <2>3, ViewNext
    <2>5. CASE Token' # Token
      <3>1. c' = OnCredentialChanged(c, ProviderNext) /\ told' = ToldAfter(c') /\ dead' \in {dead, {}}
        BY <1>2, <2>5 DEF WriteTokenIfUnchanged, Controller, Advance
      <3>2. Later(c, c', ProviderNext) /\ Cared(c') /\ c'.status # "active"
        BY <2>4, <3>1, CaredNow, CredentialIs
      <3> QED BY <2>3, <3>1, <3>2, LaterStep
    <2>6. CASE Token' = Token
      <3>1. c' = c /\ told' = ToldAfter(c') /\ dead' \in {dead, {}} /\ counter' = counter
        BY <1>2, <2>1, <2>6 DEF WriteTokenIfUnchanged, Controller, Advance, WriteToken
      <3>2. Later(c, c', ProviderNext) /\ Cared(c')
        BY <3>1, CaredNow, LaterSelf
      <3>3. c'.status = "active" => c'.applied = counter'
        BY <3>1 DEF IInv, ConfirmedIsCurrent
      <3> QED BY <2>3, <3>1, <3>2, <3>3, LaterStep
    <2> QED BY <2>5, <2>6
  <1>3. CASE ~Unchanged(start)
    <2>1. UNCHANGED <<storage, counter, c, ghosts>>
      BY <1>3 DEF WriteTokenIfUnchanged
    <2>2. outside' \in Nat
      BY <1>1 DEF IInv, TypeOK
    <2>3. StorageOnward
      BY <1>1, <2>1, <2>2, StorageSame
    <2> QED BY <1>1, <2>1, <2>3, StillStep DEF Onward
  <1> QED BY <1>2, <1>3

LEMMA BeginStep ==
  ASSUME IInv, NEW grant \in BOOLEAN, Begin(grant)
  PROVE  IInv' /\ Afresh
  <1>1. UNCHANGED <<c, counter, storage, events, outside, server, ghosts>>
    BY DEF Begin
  <1>2. ServerOnward /\ Minted' = Minted
    BY <1>1, ServerSame
  <1>3. StorageOnward
    BY <1>1, <1>2, StorageSame DEF IInv, TypeOK
  <1>4. Token \in {0} \cup Minted
    BY TokenIs DEF IInv, TypeOK
  <1>5. Onward
    BY <1>2, <1>3, <1>4 DEF Onward, Begin, IInv, TypeOK
  <1> QED BY <1>1, <1>5, StillStep

LEMMA OperationInv == ASSUME IInv, Operation PROVE IInv' /\ Afresh
  <1>1. CASE StartOperation
    BY <1>1, BeginStep DEF StartOperation
  <1>2. CASE StartEnterGrant
    BY <1>2, BeginStep DEF StartEnterGrant
  <1>3. CASE \E user \in Users, remember \in BOOLEAN : LoginReply(user, remember)
    <2> SUFFICES ASSUME NEW user \in Users, NEW remember \in BOOLEAN, LoginReply(user, remember)
                 PROVE  IInv' /\ Afresh
      BY <1>3
    <2>1. ServerOnward /\ Fresh \in {0} \cup Minted'
      BY MintOnward DEF LoginReply, Owners
    <2>2. Replied(FALSE) /\ WriteTokenIfUnchanged(op, Fresh, remember)
      BY DEF LoginReply
    <2> HIDE DEF Fresh
    <2> QED BY <2>1, <2>2, StoreStep
  <1>4. CASE \E grant \in Grants : EnterGrantReply(grant)
    <2> SUFFICES ASSUME NEW grant \in Grants, EnterGrantReply(grant) PROVE IInv' /\ Afresh
      BY <1>4
    <2>1. ServerOnward /\ Fresh \in {0} \cup Minted'
      BY MintOnward DEF EnterGrantReply, Owners
    <2>2. Replied(TRUE) /\ WriteTokenIfUnchanged(op, Fresh, FALSE)
      BY DEF EnterGrantReply
    <2> QED BY <2>1, <2>2, StoreStep
  <1>5. CASE LogoutReply
    <2>1. ServerOnward
      BY <1>5, ServerSame DEF LogoutReply
    <2> QED BY <1>5, <2>1, StoreStep DEF LogoutReply
  <1>6. CASE ChangePasswordUnauthorized
    <2>1. ServerOnward /\ Minted' = Minted /\ op' = NoOp /\ UNCHANGED <<events, outside>>
      BY <1>6, ServerSame DEF ChangePasswordUnauthorized, Replied
    <2>2. CASE Token = op.token
      <3>1. /\ WriteToken(0, FALSE) /\ c' = OnCredentialChanged(c, ProviderNext)
            /\ told' = ToldAfter(c') /\ dead' \in {dead, {}}
        BY <1>6, <2>2 DEF ChangePasswordUnauthorized, Controller, Advance
      <3>2. Onward
        BY <2>1, <3>1, WriteTokenIs DEF Onward
      <3>3. Later(c, c', ProviderNext) /\ Cared(c') /\ c'.status # "active"
        BY <3>1, <3>2, ViewNext, CaredNow, CredentialIs
      <3> QED BY <3>1, <3>2, <3>3, LaterStep
    <2>3. CASE Token # op.token
      <3>1. UNCHANGED <<storage, counter, c, ghosts>> /\ outside' \in Nat
        BY <1>6, <2>1, <2>3 DEF ChangePasswordUnauthorized, IInv, TypeOK
      <3>2. Onward
        BY <2>1, <3>1, StorageSame DEF Onward
      <3> QED BY <3>1, <3>2, StillStep
    <2> QED BY <2>2, <2>3
  <1>7. CASE NothingStored
    <2>1. UNCHANGED <<c, counter, storage, events, outside, server, ghosts>> /\ op' = NoOp
      BY <1>7 DEF NothingStored
    <2>2. ServerOnward /\ Minted' = Minted
      BY <2>1, ServerSame
    <2>3. Onward
      BY <2>1, <2>2, StorageSame DEF Onward, IInv, TypeOK
    <2> QED BY <2>1, <2>3, StillStep
  <1> QED BY <1>1, <1>2, <1>3, <1>4, <1>5, <1>6, <1>7 DEF Operation

LEMMA OtherStep ==
  ASSUME IInv, ServerOnward, NEW t \in {0} \cup Minted', OtherWrites(t)
  PROVE  IInv' /\ Afresh
  <1>1. StorageOnward
    BY DEF OtherWrites, StorageOnward, ServerOnward, IInv, TypeOK
  <1>2. Onward
    BY <1>1 DEF Onward, OtherWrites, ServerOnward, IInv, TypeOK
  <1> QED BY <1>2, StillStep DEF OtherWrites

LEMMA EnvironmentInv == ASSUME IInv, Environment PROVE IInv' /\ Afresh
  <1>1. CASE \E user \in Users : OtherLogin(user)
    <2> SUFFICES ASSUME NEW user \in Users, OtherLogin(user) PROVE IInv' /\ Afresh
      BY <1>1
    <2>1. ServerOnward /\ Fresh \in {0} \cup Minted'
      BY MintOnward DEF OtherLogin, Owners
    <2> QED BY <2>1, OtherStep DEF OtherLogin
  <1>2. CASE OtherForgets
    BY <1>2, ServerSame, OtherStep DEF OtherForgets
  <1>3. CASE StorageEvent
    <2>1. ServerOnward /\ Minted' = Minted
      BY <1>3, ServerSame DEF StorageEvent
    <2>2. events' = events - 1 /\ events > 0 /\ counter' = counter + 1 /\ UNCHANGED <<storage, outside, op>>
      BY <1>3 DEF StorageEvent
    <2>3. StorageOnward
      BY <2>1, <2>2 DEF StorageOnward, storage, IInv, TypeOK
    <2>4. Onward
      BY <2>1, <2>2, <2>3 DEF Onward, IInv, TypeOK
    <2>5. Token' = Token
      BY <2>2 DEF storage, Token
    <2>6. c' = OnCredentialChanged(c, ProviderNext) /\ told' = ToldAfter(c') /\ dead' \in {dead, {}}
      BY <1>3, <2>2, <2>5 DEF StorageEvent, ProviderNext, Controller, Advance
    <2>7. Later(c, c', ProviderNext) /\ Cared(c') /\ c'.status # "active"
      BY <2>4, <2>6, ViewNext, CaredNow, CredentialIs
    <2> QED BY <2>4, <2>6, <2>7, LaterStep
  <1>4. CASE \E t \in Tokens : Revoke(t)
    <2> SUFFICES ASSUME NEW t \in Tokens, Revoke(t) PROVE IInv' /\ Afresh
      BY <1>4
    <2>1. UNCHANGED <<c, counter, storage, events, outside, op, ownerOf, ghosts>> /\ live' \subseteq live
      BY DEF Revoke
    <2>2. Minted' = Minted
      BY <2>1 DEF Minted
    <2>3. ServerOnward
      BY <2>1, <2>2 DEF ServerOnward, IInv, TypeOK
    <2>4. Onward
      BY <2>1, <2>2, <2>3, StorageSame DEF Onward, IInv, TypeOK
    <2> QED BY <2>1, <2>4, StillStep
  <1> QED BY <1>1, <1>2, <1>3, <1>4 DEF Environment

-----------------------------------------------------------------------------
(* The questions.                                                          *)

LEMMA ProgressIs ==
  ASSUME IInv, NEW ask \in Asks, AskOK(ask), NEW next \in Progress(ask)
  PROVE  /\ next \in Asks /\ AskOK(next) /\ next.checked = ask.checked /\ next.token = ask.token
         /\ next.at # "sent" /\ next.said # NoOne => next.token \notin dead \/ (ask.at # "sent" /\ ask.said = next.said)
  <1>1. CASE ask.at = "sent" /\ ask.token # 0
    <2> DEFINE said == IF ask.token \in live THEN ownerOf[ask.token] ELSE NoOne
    <2>1. next = [ask EXCEPT !.at = "served", !.said = said]
      BY <1>1 DEF Progress, Served
    <2>2. ask.token \in Minted /\ ask.token \in Tokens
      BY <1>1, TypesOfMinted DEF AskOK
    <2>3. said \in Owners \cup {NoOne}
      BY <2>2 DEF IInv, TypeOK
    <2>4. said # NoOne => ask.token \notin dead
      BY DEF IInv, TypeOK
    <2>5. \/ said = NoOne /\ ask.token \notin live
          \/ said = ownerOf[ask.token]
      OBVIOUS
    <2> HIDE DEF said
    <2>6. /\ next \in Asks /\ next.at = "served" /\ next.said = said
          /\ next.checked = ask.checked /\ next.token = ask.token
      BY <2>1, <2>3 DEF Asks
    <2>7. AskOK(next)
      <3>1. next.checked <= counter /\ next.token \in {0} \cup Minted /\ next.token # 0
        BY <1>1, <2>6 DEF AskOK
      <3>2. (next.said = NoOne /\ next.token \notin live) \/ next.said = ownerOf[next.token]
        BY <2>5, <2>6
      <3> QED BY <3>1, <3>2 DEF AskOK
    <2> QED BY <2>4, <2>6, <2>7
  <1>2. CASE ~(ask.at = "sent" /\ ask.token # 0)
    <2>1. ask.at = "served" /\ next = [ask EXCEPT !.at = "body"]
      BY <1>2 DEF Progress, Judged
    <2>2. /\ next \in Asks /\ next.at = "body" /\ next.said = ask.said
          /\ next.checked = ask.checked /\ next.token = ask.token
      BY <2>1 DEF Asks
    <2> QED BY <2>1, <2>2 DEF AskOK
  <1> QED BY <1>1, <1>2

\* Only a question moves: everything else the invariant reads is the same.
LEMMA ProgressStep ==
  ASSUME IInv, UNCHANGED <<counter, storage, events, outside, op, server, ghosts>>,
         c' \in Controllers, SameUser(c, c'), SameState(c, c'),
         c'.waiting = c.waiting, c'.pending = c.pending, c'.timer = c.timer,
         c'.probe = NoProbe <=> c.probe = NoProbe,
         AsksOK', ProbeOK'
  PROVE  IInv' /\ Afresh
  <1>1. TypeOK'
    BY DEF IInv, TypeOK, storage, server, ghosts, Minted
  <1>2. UserOK'
    BY DEF IInv, UserOK, SameUser, SameState, ghosts
  <1>3. ConfirmedIsCurrent'
    BY DEF IInv, ConfirmedIsCurrent, SameUser, SameState, storage, server, Token
  <1>4. NobodyIsForgotten'
    BY DEF IInv, NobodyIsForgotten, SameUser, ghosts
  <1> QED BY <1>1, <1>2, <1>3, <1>4 DEF IInv, Afresh

LEMMA AskOKSame ==
  ASSUME NEW ask, AskOK(ask), UNCHANGED <<counter, server>>
  PROVE  AskOK(ask)'
  BY DEF AskOK, server, Minted

LEMMA ProbeProgressInv == ASSUME IInv, ProbeProgress PROVE IInv' /\ Afresh
  <1>1. c.probe # NoProbe /\ UNCHANGED <<counter, storage, events, outside, op, server, ghosts>>
    BY DEF ProbeProgress
  <1>2. PICK next \in Progress(c.probe.ask) : c' = [c EXCEPT !.probe.ask = next]
    BY DEF ProbeProgress
  <1>3. c \in Controllers /\ c.probe \in Probes /\ c.probe.ask \in Asks /\ AskOK(c.probe.ask)
    BY <1>1 DEF IInv, TypeOK, AsksOK, Asked, Controllers, Probes
  <1>4. /\ next \in Asks /\ AskOK(next) /\ next.checked = c.probe.ask.checked /\ next.token = c.probe.ask.token
        /\ next.at # "sent" /\ next.said # NoOne
             => next.token \notin dead \/ (c.probe.ask.at # "sent" /\ c.probe.ask.said = next.said)
    BY <1>3, ProgressIs
  <1>5. PICK q : q = [c.probe EXCEPT !.ask = next]
    OBVIOUS
  <1>6. c' = [c EXCEPT !.probe = q]
    BY <1>2, <1>5
  <1>7. q \in Probes /\ q.rev = c.probe.rev /\ q.signalled = c.probe.signalled /\ q.ask = next /\ q # NoProbe
    BY <1>3, <1>4, <1>5, NoProbeIsNone DEF Probes
  <1>8. /\ c' \in Controllers /\ SameUser(c, c') /\ SameState(c, c') /\ c'.late = c.late
        /\ c'.waiting = c.waiting /\ c'.pending = c.pending /\ c'.timer = c.timer /\ c'.probe = q
    BY <1>3, <1>6, <1>7 DEF Controllers, SameUser, SameState
  <1>9. AsksOK'
    <2>1. Asked(c') \subseteq Asked(c) \cup {next}
      BY <1>7, <1>8 DEF Asked
    <2>2. \A ask \in Asked(c) \cup {next} : AskOK(ask)'
      BY <1>1, <1>4, AskOKSame DEF IInv, AsksOK
    <2> QED BY <1>1, <1>8, <2>1, <2>2 DEF IInv, AsksOK, SameUser
  <1>10. ProbeOK'
    BY <1>1, <1>4, <1>7, <1>8 DEF IInv, ProbeOK, storage, ghosts, Token
  <1> QED BY <1>1, <1>7, <1>8, <1>9, <1>10, ProgressStep

LEMMA LateProgressInv == ASSUME IInv, NEW ask \in c.late, LateProgress(ask) PROVE IInv' /\ Afresh
  <1>1. UNCHANGED <<counter, storage, events, outside, op, server, ghosts>>
    BY DEF LateProgress
  <1>2. PICK next \in Progress(ask) : c' = [c EXCEPT !.late = (@ \ {ask}) \cup {next}]
    BY DEF LateProgress
  <1>3. c \in Controllers /\ ask \in Asks /\ AskOK(ask)
    BY DEF IInv, TypeOK, AsksOK, Asked, Controllers
  <1>4. next \in Asks /\ AskOK(next)
    BY <1>3, ProgressIs
  <1>5. /\ c' \in Controllers /\ SameUser(c, c') /\ SameState(c, c') /\ c'.late \subseteq c.late \cup {next}
        /\ c'.waiting = c.waiting /\ c'.pending = c.pending /\ c'.timer = c.timer /\ c'.probe = c.probe
    BY <1>2, <1>3, <1>4 DEF Controllers, SameUser, SameState
  <1>6. AsksOK'
    <2>1. Asked(c') \subseteq Asked(c) \cup {next}
      BY <1>5 DEF Asked
    <2>2. \A q \in Asked(c) \cup {next} : AskOK(q)'
      BY <1>1, <1>4, AskOKSame DEF IInv, AsksOK
    <2> QED BY <1>1, <1>5, <2>1, <2>2 DEF IInv, AsksOK, SameUser
  <1>7. ProbeOK'
    BY <1>1, <1>5 DEF IInv, ProbeOK, storage, ghosts, Token
  <1> QED BY <1>1, <1>5, <1>6, <1>7, ProgressStep

\* What an answer that is applied leaves; the storages are those it was
\* judged with.
LEMMA ApplyStep ==
  ASSUME IInv, Onward, events' = events, UNCHANGED server, c.probe # NoProbe,
         NEW a, a.ok = TRUE, a.checked = c.probe.ask.checked,
         a.who \in Owners \cup {NoOne}, a.current \in Nat,
         Applies(c, ProviderNext, a),
         c' = OnProbeSettled(c, ProviderNext, a), told' = ToldAfter(c'), dead' \in {dead, {}},
         a.who # NoOne => c.probe.ask.at = "body" /\ a.who = c.probe.ask.said,
         a.who = NoOne => \/ Token' = 0
                          \/ counter' = counter /\ Token' = Token
                             /\ (c.probe.ask.token = 0 \/ c.probe.ask.token # Token),
         a.who # NoOne => counter' = counter,
         counter' = counter => a.current = a.checked
  PROVE  IInv' /\ Afresh
  <1> DEFINE ask == c.probe.ask
  <1>1. c \in Controllers /\ ask \in Asks /\ AskOK(ask) /\ ask.checked = c.probe.rev
    BY DEF IInv, TypeOK, AsksOK, Asked, ProbeOK, Controllers, Probes
  <1>2. /\ c' \in Controllers /\ c'.probe = NoProbe /\ c'.late = c.late
        /\ c'.waiting = {} /\ c'.pending = FALSE /\ c'.applied = a.current /\ c'.owner = a.who
        /\ c'.status = IF a.who = NoOne THEN "none" ELSE "active"
        /\ c'.lastUser = IF a.who = NoOne THEN NoOne ELSE IF a.who \in Users THEN a.who ELSE c.lastUser
        /\ c'.change = ChangeAfter(c, a.who)
    <2>1. PICK y : y = OnProbeSettled(c, ProviderNext, a)
      OBVIOUS
    <2>2. Settled(c, a, y)
      BY <1>1, <2>1, AppliesIs
    <2> QED BY <2>1, <2>2 DEF Settled
  <1>3. a.current = counter' /\ ~c.probe.signalled
    BY ViewNext DEF Applies, Acceptable
  <1>4. TypeOK'
    <2>1. told' \in Users \cup {NoOne}
      BY DEF ToldAfter, IInv, TypeOK
    <2>2. dead' \subseteq Minted' \ live'
      BY DEF Onward, ServerOnward, IInv, TypeOK
    <2> QED BY <1>2, <2>1, <2>2 DEF TypeOK, Onward, ServerOnward, StorageOnward
  <1>5. AsksOK'
    <2>1. Asked(c') \subseteq Asked(c)
      BY <1>2 DEF Asked
    <2>2. \A q \in Asked(c) : AskOK(q)'
      <3>1. Asked(c) \subseteq Asks
        BY <1>1 DEF Asked, Controllers, Probes
      <3> QED BY <3>1, AskStays DEF IInv, AsksOK
    <2>3. c'.applied <= counter'
      BY <1>2, <1>3 DEF Onward, StorageOnward
    <2> QED BY <2>1, <2>2, <2>3 DEF AsksOK
  <1>6. ProbeOK'
    BY <1>2 DEF ProbeOK
  <1>7. a.who # NoOne => /\ ask.token # 0 /\ ask.token \in Minted /\ a.who = ownerOf[ask.token]
                         /\ ask.token \notin dead
    BY <1>1, <1>3 DEF AskOK, IInv, ProbeOK
  <1>8. UserOK'
    BY <1>2, OwnersAssumption DEF UserOK, ToldAfter, IInv, Owners
  <1>9. ConfirmedIsCurrent'
    <2> SUFFICES ASSUME events' = 0
                 PROVE  c'.owner = (IF Token' = 0 THEN NoOne ELSE ownerOf'[Token'])
      BY <1>2, <1>3 DEF ConfirmedIsCurrent
    <2>1. counter' = counter => c.probe.rev = counter
      BY <1>1, <1>3 DEF Applies, Acceptable
    <2>2. counter' = counter => Token' = Token /\ Token = ask.token
      BY <2>1 DEF Onward, StorageOnward, IInv, ProbeOK
    <2>3. CASE a.who # NoOne
      BY <1>2, <1>7, <2>2, <2>3 DEF server
    <2>4. CASE a.who = NoOne
      BY <1>2, <2>2, <2>4
    <2> QED BY <2>3, <2>4
  <1>10. NobodyIsForgotten'
    <2>1. c.change = IF told = NoOne \/ told = c.lastUser THEN NoChange
                     ELSE [from |-> told, to |-> c.lastUser]
      BY DEF IInv, NobodyIsForgotten
    <2>2. told = NoOne <=> c.lastUser = NoOne
      BY DEF IInv, UserOK
    <2>3. c'.change = IF told' = NoOne \/ told' = c'.lastUser THEN NoChange
                      ELSE [from |-> told', to |-> c'.lastUser]
      <3>1. CASE a.who = NoOne
        BY <1>2, <3>1 DEF ChangeAfter, ToldAfter
      <3>2. CASE a.who # NoOne /\ a.who \notin Users
        BY <1>2, <2>1, <3>2 DEF ChangeAfter, ToldAfter
      <3>3. CASE a.who \in Users
        <4>1. a.who # NoOne
          BY <3>3, OwnersAssumption
        <4>2. CASE told = NoOne
          BY <1>2, <2>1, <2>2, <3>3, <4>1, <4>2 DEF ChangeAfter, ToldAfter
        <4>3. CASE told # NoOne
          <5> DEFINE from == IF c.change = NoChange THEN c.lastUser ELSE c.change.from
          <5>1. told' = told
            BY <1>2, <4>1, <4>3 DEF ToldAfter
          <5>2. from = told
            BY <2>1, <4>3 DEF NoChange
          <5>3. CASE c.lastUser = a.who
            BY <1>2, <2>1, <3>3, <4>1, <5>1, <5>3 DEF ChangeAfter
          <5>4. CASE c.lastUser # a.who
            <6>1. c'.change = IF from = a.who THEN NoChange ELSE [from |-> from, to |-> a.who]
              BY <1>2, <2>2, <3>3, <4>1, <4>3, <5>4 DEF ChangeAfter
            <6>2. c'.lastUser = a.who
              BY <1>2, <3>3, <4>1
            <6> QED BY <4>3, <5>1, <5>2, <6>1, <6>2
          <5> QED BY <5>3, <5>4
        <4> QED BY <4>2, <4>3
      <3> QED BY <3>1, <3>2, <3>3
    <2> QED BY <1>2, <2>3 DEF NobodyIsForgotten
  <1>11. Afresh
    BY <1>2, <1>7 DEF Afresh
  <1> QED BY <1>4, <1>5, <1>6, <1>8, <1>9, <1>10, <1>11 DEF IInv

\* An answer a to the question ask, of the probe in flight or of one that
\* is done, and what the step has done to the storages.
Answered(late, ask, a) ==
    /\ Onward /\ events' = events /\ UNCHANGED server
    /\ IF late THEN ask \in c.late ELSE c.probe # NoProbe /\ ask = c.probe.ask
    /\ a.ok \in BOOLEAN /\ a.checked = ask.checked
    /\ a.who \in Owners \cup {NoOne} /\ a.current \in Nat
    /\ counter' = counter => a.current = a.checked
    /\ Controller(Handled(late, ask, ProviderNext, a))
    /\ ~a.ok => counter' = counter
    /\ a.ok /\ a.who # NoOne => ask.at = "body" /\ a.who = ask.said /\ counter' = counter
    /\ a.ok /\ a.who = NoOne => \/ Token' = 0
                                \/ counter' = counter /\ Token' = Token
                                   /\ (ask.token = 0 \/ ask.token # Token)

LEMMA HandledStep ==
  ASSUME IInv, NEW late \in BOOLEAN, NEW ask, NEW a, Answered(late, ask, a)
  PROVE  IInv' /\ Afresh
  <1> USE DEF Answered
  <1>1. IsView(ProviderNext) /\ ProviderNext.rev = counter'
    BY ViewNext
  <1>2. c' = Handled(late, ask, ProviderNext, a) /\ told' = ToldAfter(c') /\ dead' \in {dead, {}}
    BY DEF Controller, Advance
  <1> HIDE DEF ProviderNext
  <1>3. CASE late
    <2>1. c' = OnLateAnswer(c, ProviderNext, ask, a)
      BY <1>2, <1>3 DEF Handled
    <2>2. /\ Later(c, c', ProviderNext) /\ Cared(c')
          /\ c'.status = "active" => counter' = c'.applied
      BY <1>1, <1>3, <2>1, CaredNow, LateIs
    <2> QED BY <1>2, <2>2, LaterStep
  <1>4. CASE ~late /\ Applies(c, ProviderNext, a)
    <2>1. c' = OnProbeSettled(c, ProviderNext, a)
      BY <1>2, <1>4 DEF Handled
    <2>2. a.ok = TRUE
      BY <1>4 DEF Applies
    <2> QED BY <1>2, <1>4, <2>1, <2>2, ApplyStep
  <1>5. CASE ~late /\ ~Applies(c, ProviderNext, a)
    <2>1. c' = OnProbeSettled(c, ProviderNext, a)
      BY <1>2, <1>5 DEF Handled
    <2>2. /\ Later(c, c', ProviderNext) /\ Cared(c')
          /\ a.ok => (c'.status = "active" => counter' = c'.applied)
      BY <1>1, <1>5, <2>1, CaredNow, SettledIs
    <2>3. c'.status = "active" => c'.applied = counter'
      BY <2>2 DEF Later, SameState, SameUser, IInv, ConfirmedIsCurrent
    <2> QED BY <1>2, <2>2, <2>3, LaterStep
  <1> QED BY <1>3, <1>4, <1>5

LEMMA SettlesInv ==
  ASSUME IInv, NEW late \in BOOLEAN, NEW ask,
         late => ask \in c.late, ~late => c.probe # NoProbe /\ ask = c.probe.ask,
         Settles(late, ask)
  PROVE  IInv' /\ Afresh
  <1>1. ask \in Asks /\ AskOK(ask)
    BY DEF IInv, TypeOK, AsksOK, Asked, Controllers, Probes
  <1>2. UNCHANGED <<events, outside, op, server>> /\ events' = events /\ UNCHANGED server
    BY DEF Settles
  <1>3. ServerOnward /\ Minted' = Minted
    BY <1>2, ServerSame
  <1>4. ask.checked \in Nat
    BY <1>1 DEF Asks
  <1>5. ASSUME UNCHANGED <<counter, storage>>
        PROVE  Onward /\ ProviderNext = Provider /\ Token' = Token
    <2>1. StorageOnward /\ Token' = Token
      BY <1>2, <1>3, <1>5, StorageSame DEF IInv, TypeOK
    <2> QED BY <1>2, <1>3, <1>5, <2>1 DEF Onward, IInv, TypeOK, Provider, ProviderNext
  <1>6. ASSUME NEW stale, SettlesUnchanged(late, ask, Rejection(ask, stale))
        PROVE  IInv' /\ Afresh
    <2>1. PICK a : a = Rejection(ask, stale)
      OBVIOUS
    <2>2. /\ a.ok = FALSE /\ a.checked = ask.checked /\ a.current = ask.checked
          /\ a.who \in Owners \cup {NoOne} /\ a.current \in Nat
      BY <1>4, <2>1 DEF Rejection
    <2>3. Controller(Handled(late, ask, ProviderNext, a)) /\ UNCHANGED <<counter, storage>> /\ Onward
      BY <1>5, <1>6, <2>1 DEF SettlesUnchanged
    <2>9. Answered(late, ask, a)
      BY <1>2, <2>2, <2>3 DEF Answered
    <2> QED BY <2>9, HandledStep
  <1>7. CASE Fails(late, ask)
    BY <1>6, <1>7 DEF Fails
  <1>8. CASE IsStale(late, ask)
    BY <1>6, <1>8 DEF IsStale
  <1>9. CASE AnswersActive(late, ask)
    <2>1. PICK a : a = Answer(ask, ask.said, ask.checked)
      OBVIOUS
    <2>2. /\ a.ok = TRUE /\ a.checked = ask.checked /\ a.current = ask.checked /\ a.who = ask.said
          /\ a.who \in Owners \cup {NoOne} /\ a.who # NoOne /\ a.current \in Nat
      BY <1>4, <1>9, <2>1, OwnersAssumption DEF Answer, AnswersActive, Owners
    <2>3. Controller(Handled(late, ask, ProviderNext, a)) /\ UNCHANGED <<counter, storage>> /\ Onward
      BY <1>5, <1>9, <2>1 DEF AnswersActive, SettlesUnchanged
    <2>4. ask.at = "body" /\ counter' = counter
      BY <1>9, <2>3 DEF AnswersActive
    <2>9. Answered(late, ask, a)
      BY <1>2, <2>2, <2>3, <2>4 DEF Answered
    <2> QED BY <2>9, HandledStep
  <1>10. CASE AnswersNone(late, ask) /\ ClearTokenIfCurrent(ask)
    <2>1. PICK a : a = Answer(ask, NoOne, counter')
      OBVIOUS
    <2>2. WriteToken(0, FALSE) /\ Controller(Handled(late, ask, ProviderNext, a))
      BY <1>10, <2>1 DEF AnswersNone
    <2>3. StorageOnward /\ Token' = 0
      BY <1>2, <1>3, <2>2, WriteTokenIs
    <2>4. Onward
      BY <1>2, <1>3, <2>3 DEF Onward, IInv, TypeOK
    <2>5. counter' # counter
      <3>1. Token # 0 /\ counter \in Nat
        BY <1>10 DEF ClearTokenIfCurrent, IInv, TypeOK
      <3> QED BY <2>2, <2>3, <3>1 DEF WriteToken
    <2>6. /\ a.ok = TRUE /\ a.checked = ask.checked
          /\ a.who \in Owners \cup {NoOne} /\ a.who = NoOne /\ a.current \in Nat
      BY <2>1, <2>4 DEF Answer, Onward, StorageOnward
    <2>9. Answered(late, ask, a)
      BY <1>2, <2>2, <2>3, <2>4, <2>5, <2>6 DEF Answered
    <2> QED BY <2>9, HandledStep
  <1>11. CASE AnswersNone(late, ask) /\ ~ClearTokenIfCurrent(ask)
    <2>1. PICK a : a = Answer(ask, NoOne, ask.checked)
      OBVIOUS
    <2>2. /\ a.ok = TRUE /\ a.checked = ask.checked /\ a.current = ask.checked
          /\ a.who \in Owners \cup {NoOne} /\ a.who = NoOne /\ a.current \in Nat
      BY <1>4, <2>1 DEF Answer
    <2>3. /\ Controller(Handled(late, ask, ProviderNext, a)) /\ UNCHANGED <<counter, storage>> /\ Onward
          /\ Token' = Token
      BY <1>5, <1>11, <2>1 DEF AnswersNone, SettlesUnchanged
    <2>4. ask.token = 0 \/ ask.token # Token
      BY <1>11 DEF ClearTokenIfCurrent
    <2>9. Answered(late, ask, a)
      BY <1>2, <2>2, <2>3, <2>4 DEF Answered
    <2> QED BY <2>9, HandledStep
  <1> QED BY <1>7, <1>8, <1>9, <1>10, <1>11 DEF Settles

-----------------------------------------------------------------------------
(* The controller's own events, and the page.                              *)

LEMMA QuietIs ==
  ASSUME IInv, Quiet, outside' \in Nat
  PROVE  Onward /\ IsView(ProviderNext) /\ ProviderNext = Provider /\ counter' = counter
  <1>1. UNCHANGED <<counter, storage, events, op, server>>
    BY DEF Quiet
  <1>2. ServerOnward /\ Minted' = Minted
    BY <1>1, ServerSame
  <1>3. StorageOnward /\ Token' = Token
    BY <1>1, <1>2, StorageSame
  <1>4. Onward
    BY <1>1, <1>2, <1>3 DEF Onward, IInv, TypeOK
  <1> QED BY <1>1, <1>3, <1>4, ViewNext DEF Provider, ProviderNext

LEMMA QuietStep ==
  ASSUME IInv, Quiet, outside' \in Nat, Later(c, c', Provider), Cared(c'), told' = ToldAfter(c'),
         dead' \in {dead, {}} \/ (dead' = Minted \ live /\ NewProbe(c', Provider))
  PROVE  IInv' /\ Afresh
  <1>1. Onward /\ ProviderNext = Provider /\ counter' = counter
    BY QuietIs
  <1>2. c'.status = "active" => c'.applied = counter'
    BY <1>1 DEF Later, SameState, SameUser, IInv, ConfirmedIsCurrent
  <1> QED BY <1>1, <1>2, LaterStep

LEMMA QuestionInv == ASSUME IInv, Question PROVE IInv' /\ Afresh
  <1>1. CASE ProbeProgress
    BY <1>1, ProbeProgressInv
  <1>2. CASE ProbeSettles
    BY <1>2, SettlesInv DEF ProbeSettles
  <1>3. CASE \E ask \in c.late : LateProgress(ask) \/ LateSettles(ask)
    BY <1>3, LateProgressInv, SettlesInv DEF LateSettles
  <1>4. CASE ProbeTimeout
    <2>1. /\ Quiet /\ outside' \in Nat /\ c' = OnProbeTimeout(c, Provider) /\ told' = ToldAfter(c')
          /\ dead' \in {dead, {}} /\ c.probe # NoProbe
      BY <1>4 DEF ProbeTimeout, Controller, Advance, IInv, TypeOK
    <2>2. IsView(Provider)
      BY <2>1, QuietIs
    <2>3. Later(c, c', Provider) /\ Cared(c')
      BY <2>1, <2>2, CaredNow, TimeoutIs
    <2> QED BY <2>1, <2>3, QuietStep
  <1>5. CASE BackgroundTimer
    <2>1. /\ Quiet /\ outside' \in Nat /\ c' = OnBackgroundTimer(c, Provider) /\ told' = ToldAfter(c')
          /\ dead' \in {dead, {}}
      BY <1>5 DEF BackgroundTimer, Controller, Advance, IInv, TypeOK
    <2>2. IsView(Provider)
      BY <2>1, QuietIs
    <2>3. Later(c, c', Provider) /\ Cared(c')
      BY <2>1, <2>2, CaredNow, TimerIs
    <2> QED BY <2>1, <2>3, QuietStep
  <1> QED BY <1>1, <1>2, <1>3, <1>4, <1>5 DEF Question

LEMMA SignalledStep ==
  ASSUME IInv, Quiet, NEW next, Signalled(next), Later(c, next, Provider), Cared(next), NewProbe(next, Provider)
  PROVE  IInv' /\ Afresh
  <1>1. /\ outside' \in Nat /\ c' = next /\ told' = ToldAfter(c')
        /\ dead' \in {Minted \ live, {}}
    BY DEF Signalled, Advance, IInv, TypeOK
  <1> QED BY <1>1, QuietStep

LEMMA PageInv == ASSUME IInv, Page PROVE IInv' /\ Afresh
  <1>1. ASSUME NEW w \in Callers, Navigate(w) PROVE IInv' /\ Afresh
    <2>1. /\ Quiet /\ outside' \in Nat /\ c' = Resolve(c, Provider, w, "navigation") /\ told' = ToldAfter(c')
          /\ dead' \in {dead, {}}
      BY <1>1 DEF Navigate, Controller, Advance, IInv, TypeOK
    <2>2. IsView(Provider)
      BY <2>1, QuietIs
    <2>3. Later(c, c', Provider) /\ Cared(c')
      BY <2>1, <2>2, CaredNow, ResolveIs
    <2> QED BY <2>1, <2>3, QuietStep
  <1>2. ASSUME NEW w \in Callers, AskBySignal(w) PROVE IInv' /\ Afresh
    <2>1. Quiet /\ Signalled(Resolve(c, Provider, w, "signal"))
      BY <1>2 DEF AskBySignal
    <2>2. IsView(Provider)
      BY <2>1, QuietIs DEF Signalled, IInv, TypeOK
    <2>3. PICK next : next = Resolve(c, Provider, w, "signal")
      OBVIOUS
    <2>4. Later(c, next, Provider) /\ Cared(next) /\ NewProbe(next, Provider)
      BY <2>2, <2>3, CaredNow, ResolveIs
    <2> QED BY <2>1, <2>3, <2>4, SignalledStep
  <1>3. ASSUME NEW w \in Callers, CallerLeaves(w) PROVE IInv' /\ Afresh
    <2>1. /\ Quiet /\ outside' \in Nat /\ c' = Leave(c, w) /\ told' = ToldAfter(c')
          /\ dead' \in {dead, {}}
      BY <1>3 DEF CallerLeaves, Controller, Advance, IInv, TypeOK
    <2>2. Later(c, c', Provider) /\ Cared(c')
      BY <2>1, CaredNow, LeaveIs
    <2> QED BY <2>1, <2>2, QuietStep
  <1>4. CASE RaiseSignal
    <2>1. Quiet /\ Signalled(Signal(c, Provider))
      BY <1>4 DEF RaiseSignal
    <2>2. IsView(Provider)
      BY <2>1, QuietIs DEF Signalled, IInv, TypeOK
    <2>3. PICK next : next = Signal(c, Provider)
      OBVIOUS
    <2>4. Later(c, next, Provider) /\ Cared(next) /\ NewProbe(next, Provider)
      BY <2>2, <2>3, CaredNow, SignalIs
    <2> QED BY <2>1, <2>3, <2>4, SignalledStep
  <1>5. CASE AcknowledgeOwnerChange
    <2>1. /\ Quiet /\ UNCHANGED <<outside, dead>> /\ c' = [c EXCEPT !.change = NoChange] /\ told' = c.lastUser
          /\ c \in Controllers /\ NoChange \in Changes
      BY <1>5 DEF AcknowledgeOwnerChange, Acknowledge, IInv, TypeOK, Changes, NoChange
    <2>2. /\ c' \in Controllers /\ c'.change = NoChange /\ c'.lastUser = c.lastUser /\ c'.applied = c.applied
          /\ SameState(c, c') /\ c'.probe = c.probe /\ c'.late = c.late /\ c'.waiting = c.waiting
          /\ c'.pending = c.pending /\ c'.timer = c.timer
      BY <2>1 DEF Controllers, SameState
    <2>3. UNCHANGED <<counter, shared, own, events, op, ownerOf, live, Token, Minted>>
      BY <2>1 DEF Quiet, storage, server, Token, Minted
    <2>4. TypeOK'
      BY <2>1, <2>2, <2>3 DEF IInv, TypeOK, Controllers
    <2>5. AsksOK'
      BY <2>2, <2>3 DEF IInv, AsksOK, Asked, AskOK
    <2>6. ProbeOK'
      BY <2>1, <2>2, <2>3 DEF IInv, ProbeOK
    <2>7. UserOK' /\ ConfirmedIsCurrent' /\ NobodyIsForgotten'
      BY <2>1, <2>2, <2>3 DEF IInv, UserOK, ConfirmedIsCurrent, NobodyIsForgotten, SameState
    <2> QED BY <2>2, <2>4, <2>5, <2>6, <2>7 DEF IInv, Afresh
  <1> QED BY <1>1, <1>2, <1>3, <1>4, <1>5 DEF Page

LEMMA NextInv == ASSUME IInv, [Next]_vars PROVE IInv' /\ Afresh
  <1>1. CASE Next
    BY <1>1, OperationInv, EnvironmentInv, QuestionInv, PageInv DEF Next
  <1>2. CASE UNCHANGED vars
    <2>1. /\ UNCHANGED <<counter, storage, events, outside, op, server, ghosts>>
          /\ UNCHANGED <<c, shared, own, ownerOf, live, dead, told, Token, Minted>>
      BY <1>2 DEF vars, storage, server, ghosts, Token, Minted
    <2>2. TypeOK' /\ AsksOK' /\ ProbeOK' /\ UserOK'
      BY <2>1 DEF IInv, TypeOK, AsksOK, Asked, AskOK, ProbeOK, UserOK
    <2>3. ConfirmedIsCurrent' /\ NobodyIsForgotten' /\ Afresh
      BY <2>1 DEF IInv, ConfirmedIsCurrent, NobodyIsForgotten, Afresh
    <2> QED BY <2>2, <2>3 DEF IInv
  <1> QED BY <1>1, <1>2

-----------------------------------------------------------------------------
(* What a step may do to a token the server still accepts.                 *)

TokenStays ==
    (Token \in live /\ Token' = 0)
        => \/ outside' # outside
           \/ op # NoOp /\ op' = NoOp /\ op.token = Token

LEMMA StoredStays == ASSUME IInv, UNCHANGED storage PROVE TokenStays
  <1>1. Token' = Token
    BY DEF storage, Token
  <1> QED BY <1>1, TypesOfMinted DEF TokenStays, IInv, TypeOK

\* An operation overwrites only the token it started from.
LEMMA OperationStays ==
  ASSUME IInv, NEW grant, Replied(grant), NEW t, NEW remember, WriteTokenIfUnchanged(op, t, remember)
  PROVE  TokenStays
  <1>1. CASE Unchanged(op)
    BY <1>1 DEF Unchanged, Replied, TokenStays
  <1>2. CASE ~Unchanged(op)
    BY <1>2, StoredStays DEF WriteTokenIfUnchanged
  <1> QED BY <1>1, <1>2

\* An answer clears only a token the server was found not to accept.
LEMMA ClearedStays ==
  ASSUME IInv, NEW late, NEW ask, AskOK(ask), Settles(late, ask)
  PROVE  TokenStays
  <1>1. CASE UNCHANGED storage
    BY <1>1, StoredStays
  <1>2. CASE AnswersNone(late, ask) /\ ClearTokenIfCurrent(ask)
    <2>1. ask.token # 0 /\ Token = ask.token /\ ask.token \in Minted
      BY <1>2 DEF ClearTokenIfCurrent, AskOK
    <2>2. ask.at # "sent" /\ ask.said = NoOne
      BY <1>2, <2>1 DEF AnswersNone, SaysNone
    <2>3. Token \notin live
      BY <2>1, <2>2 DEF AskOK, Minted
    <2> QED BY <2>3 DEF TokenStays
  <1> QED BY <1>1, <1>2
        DEF Settles, Fails, IsStale, AnswersActive, AnswersNone, SettlesUnchanged

LEMMA NextStays == ASSUME IInv, [Next]_vars PROVE TokenStays
  <1>1. CASE Operation
    <2>1. CASE StartOperation \/ StartEnterGrant \/ NothingStored
      BY <2>1, StoredStays DEF StartOperation, StartEnterGrant, NothingStored, Begin
    <2>2. CASE ChangePasswordUnauthorized
      <3>1. CASE Token = op.token
        BY <2>2, <3>1 DEF ChangePasswordUnauthorized, Replied, TokenStays
      <3>2. CASE Token # op.token
        BY <2>2, <3>2, StoredStays DEF ChangePasswordUnauthorized
      <3> QED BY <3>1, <3>2
    <2>3. CASE LogoutReply
      BY <2>3, OperationStays DEF LogoutReply
    <2>4. CASE \E user \in Users, remember \in BOOLEAN : LoginReply(user, remember)
      BY <2>4, OperationStays DEF LoginReply
    <2>5. CASE \E grant \in Grants : EnterGrantReply(grant)
      BY <2>5, OperationStays DEF EnterGrantReply
    <2> QED BY <1>1, <2>1, <2>2, <2>3, <2>4, <2>5 DEF Operation
  <1>2. CASE Environment
    <2>1. CASE StorageEvent \/ \E t \in Tokens : Revoke(t)
      BY <2>1, StoredStays DEF StorageEvent, Revoke
    <2>2. ASSUME NEW t, OtherWrites(t) PROVE TokenStays
      <3>1. outside' # outside
        BY <2>2 DEF OtherWrites, IInv, TypeOK
      <3> QED BY <3>1 DEF TokenStays
    <2> QED BY <1>2, <2>1, <2>2 DEF Environment, OtherLogin, OtherForgets
  <1>3. CASE Question
    <2>1. ASSUME NEW late, NEW ask \in Asked(c), Settles(late, ask) PROVE TokenStays
      BY <2>1, ClearedStays DEF IInv, AsksOK
    <2>2. CASE ProbeSettles
      BY <2>1, <2>2 DEF ProbeSettles, Asked
    <2>3. CASE \E ask \in c.late : LateSettles(ask)
      BY <2>1, <2>3 DEF LateSettles, Asked
    <2>4. CASE ~ProbeSettles /\ ~\E ask \in c.late : LateSettles(ask)
      BY <1>3, <2>4, StoredStays
         DEF Question, ProbeProgress, LateProgress, ProbeTimeout, BackgroundTimer, Quiet
    <2> QED BY <2>2, <2>3, <2>4
  <1>4. CASE Page
    BY <1>4, StoredStays
       DEF Page, Navigate, AskBySignal, CallerLeaves, RaiseSignal, AcknowledgeOwnerChange, Quiet
  <1>5. CASE UNCHANGED vars
    BY <1>5, StoredStays DEF vars, storage
  <1> QED BY <1>1, <1>2, <1>3, <1>4, <1>5 DEF Next

-----------------------------------------------------------------------------
(* The theorems.                                                           *)

LEMMA InvHolds == Spec => []IInv
  <1>1. Init => IInv
    BY InitInv
  <1>2. IInv /\ [Next]_vars => IInv'
    BY NextInv
  <1> QED BY <1>1, <1>2, PTL DEF Spec

\* No step of the tab, late answers of abandoned probes and unreported
\* clearings included, leaves a user active once the revision has moved from
\* the one that user was confirmed with; and a state confirmed with the
\* current revision is about the stored token (onCredentialChanged,
\* detectDrift, clearTokenIfCurrent, resolve()).
THEOREM UserIsCurrent == Spec => []ConfirmedIsCurrent
  <1>1. IInv => ConfirmedIsCurrent
    BY DEF IInv
  <1> QED BY <1>1, InvHolds, PTL

\* Through every retirement, hold, discarded answer, timeout and leaving
\* caller a waiting caller has a probe, a needed confirmation is being asked
\* for or has its timer, and the change of account to tell of leads from the
\* user the page last knew to the account last active (pendingBackground,
\* pendingOwnerChange).
THEOREM NobodyIsLost == Spec => []NobodyIsForgotten
  <1>1. IInv => NobodyIsForgotten
    BY DEF IInv
  <1> QED BY <1>1, InvHolds, PTL

\* The answer that ends a signal's confirmation never confirms a token that
\* was revoked before the signal (latestSignalAt against the probe's start).
THEOREM SignalIsFresh == Spec => SignalIsAnsweredAfresh
  <1>1. IInv /\ [Next]_vars
          => [(c.pending /\ ~c'.pending /\ c'.status = "active")
                 => c.probe.ask.token \notin dead]_vars
    BY NextInv DEF Afresh
  <1> QED BY <1>1, InvHolds, PTL DEF Spec, SignalIsAnsweredAfresh

\* A token the server accepts leaves this tab's storages only by the other
\* tab or by an operation that was started with it (writeTokenIfUnchanged,
\* clearTokenIfCurrent).
THEOREM TokenIsNotTaken == Spec => LiveTokenStays
  <1>1. IInv /\ [Next]_vars
          => [(Token \in live /\ Token' = 0)
                 => \/ outside' # outside
                    \/ op # NoOp /\ op' = NoOp /\ op.token = Token]_vars
    BY NextStays DEF TokenStays
  <1> QED BY <1>1, InvHolds, PTL DEF Spec, LiveTokenStays
=============================================================================
