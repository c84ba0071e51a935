------------------------- MODULE ServerApplyProofs -------------------------
(***************************************************************************)
(* For any number of applies, firewall changes, ports and relaunches: what *)
(* the slot serves is what is saved, the combination of the two settings   *)
(* rows stays allowed, the reach check follows the listener, and a change  *)
(* answered as current ran at the generation its user confirmed.           *)
(***************************************************************************)
EXTENDS ServerApply, TLAPS

\* The steps of an apply that hold the slot, and those after its stop.
Holding == {"stop", "bind", "check", "save", "serve", "restore"}
Stopped == Holding \ {"stop"}

\* The two mutexes: an apply between its validation and its return holds the
\* slot, whoever saves a settings row holds auth_config_lock.
LockInv ==
    /\ \A a \in Appliers : pc[a] \in Holding => server = a
    /\ \A w \in Appliers \cup {AuthWriter} : pc[w] = "save" => authLock = w

\* What the two writers have checked stands until they save.
RowsInv ==
    /\ Allowed(disabled, saved)
    /\ \A a \in Appliers : pc[a] = "save" => Allowed(disabled, want[a])
    /\ pc[AuthWriter] = "save" => Allowed(wantDisabled, saved)

\* The slot against the saved settings, and what an apply on its way carries.
SlotInv ==
    /\ live # None => saved.enabled
    /\ live # None /\ notice # "fallbackUnsaved" => live.port = saved.port
    /\ server = None /\ saved.enabled /\ live = None /\ generation > 0 => failure # "none"

PlanInv ==
    \A a \in Appliers :
        /\ pc[a] \in Stopped => live = None
        /\ pc[a] \in {"check", "save", "serve"} =>
               bound[a] = IF want[a].enabled THEN want[a].port ELSE None
        /\ pc[a] = "serve" => saved = want[a]
        /\ pc[a] \in {"bind", "check", "save", "restore"} /\ previous[a] # None =>
               saved.enabled /\ (notice # "fallbackUnsaved" => previous[a] = saved.port)
        /\ pc[a] = "restore" => failure # "none"

\* The reach-check store is of the slot's generation and knows only its listener.
ReachInv ==
    /\ reach.generation = generation
    /\ live # None => live.generation = generation
    /\ reach.active # None => live # None /\ reach.active = live
    /\ \A r \in reach.records : live # None /\ r = live

\* The generation only grows while a change is under way.
ChangeInv ==
    \A c \in Changes :
        /\ target[c] <= generation
        /\ pc[c] = "again" => target[c] <= ran[c] /\ ran[c] <= generation
        /\ result[c] = "current" => ran[c] = target[c]

USE CommandsAreDistinct, BoundsAreNat, NoneIsNoValue

-----------------------------------------------------------------------------
(* Type correctness.                                                       *)

LEMMA NoWantIsSettings == NoWant \in ServerSettings
  BY DEF NoWant, ServerSettings, Ports

LEMMA TypeInit == Init => TypeOK
  <1> SUFFICES ASSUME Init PROVE TypeOK
    OBVIOUS
  <1>1. /\ pc \in [Commands -> {"idle"}] /\ want \in [Appliers -> ServerSettings]
        /\ previous \in [Appliers -> {None}] /\ bound \in [Appliers -> {None}]
    BY NoWantIsSettings DEF Init, Idle, NoPlan
  <1>2. target \in [Changes -> {0}] /\ ran \in [Changes -> {0}] /\ result \in [Changes -> {"none"}]
    BY DEF Init
  <1>3. reach \in [generation : Nat, active : Listener \cup {None}, records : SUBSET Listener]
    BY DEF Init, EmptyStore
  <1> QED BY <1>1, <1>2, <1>3, NoWantIsSettings DEF Init, TypeOK

\* What returning from an apply leaves typed.
LEMMA LeaveTyped ==
  ASSUME TypeOK, NEW a \in Appliers, Leave(a)
  PROVE  /\ server' \in Appliers \cup {None}
         /\ pc' \in [Commands -> {"idle", "wait", "stop", "bind", "check", "save", "serve",
                            "restore", "ask", "compare", "helper", "again", "reread"}]
         /\ want' \in [Appliers -> ServerSettings]
         /\ previous' \in [Appliers -> Ports \cup {None}]
         /\ bound' \in [Appliers -> Ports \cup {None}]
  BY NoWantIsSettings DEF TypeOK, Leave, Commands

LEMMA TypeStep == TypeOK /\ [Next]_vars => TypeOK'
  <1> SUFFICES ASSUME TypeOK, [Next]_vars PROVE TypeOK'
    OBVIOUS
  <1> USE DEF settings, locks, slotVars, store, plans, changeVars, outside
  <1>1. ASSUME NEW a \in Appliers, Request(a) PROVE TypeOK'
    BY <1>1 DEF TypeOK, Request, Commands
  <1>2. ASSUME NEW a \in Appliers, Validate(a) PROVE TypeOK'
    <2>1. CASE Leave(a)
      BY <1>2, <2>1, LeaveTyped DEF TypeOK, Validate
    <2>2. CASE ~Leave(a)
      BY <1>2, <2>2 DEF TypeOK, Validate, Commands
    <2> QED BY <2>1, <2>2
  <1>3. ASSUME NEW a \in Appliers, Stop(a) PROVE TypeOK'
    BY <1>3 DEF TypeOK, Stop, EmptyStore, LivePort, Listener, Commands
  <1>4. ASSUME NEW a \in Appliers, Bind(a) PROVE TypeOK'
    <2>1. CASE Fail(a, IF want[a].port \in busy THEN "portInUse" ELSE "bindFailed")
      BY <1>4, <2>1 DEF TypeOK, Bind, Fail, Commands
    <2>2. CASE bound' = [bound EXCEPT ![a] = IF want[a].enabled THEN want[a].port ELSE None]
      BY <1>4, <2>2 DEF TypeOK, Bind, Fail, ServerSettings, Commands
    <2> QED BY <1>4, <2>1, <2>2 DEF Bind
  <1>5. ASSUME NEW a \in Appliers, Check(a) PROVE TypeOK'
    BY <1>5 DEF TypeOK, Check, Fail, Commands
  <1>6. ASSUME NEW a \in Appliers, Save(a) PROVE TypeOK'
    BY <1>6 DEF TypeOK, Save, Fail, Commands
  <1>7. ASSUME NEW a \in Appliers, Serve(a) PROVE TypeOK'
    BY <1>7, LeaveTyped DEF TypeOK, Serve, Launch, Listener
  <1>8. ASSUME NEW a \in Appliers, Restore(a) PROVE TypeOK'
    BY <1>8, LeaveTyped DEF TypeOK, Restore, Launch, Listener
  <1>9. ASSUME AuthRequest PROVE TypeOK'
    BY <1>9 DEF TypeOK, AuthRequest, Commands
  <1>10. ASSUME AuthCheck PROVE TypeOK'
    <2>1. pc' \in [Commands -> {"idle", "wait", "stop", "bind", "check", "save", "serve",
                                "restore", "ask", "compare", "helper", "again", "reread"}]
      BY <1>10 DEF TypeOK, AuthCheck, AuthLeave, Commands
    <2>2. authLock' \in {AuthWriter, None} /\ wantDisabled' \in BOOLEAN
      BY <1>10 DEF TypeOK, AuthCheck, AuthLeave
    <2> QED BY <1>10, <2>1, <2>2 DEF TypeOK, AuthCheck
  <1>11. ASSUME AuthSave PROVE TypeOK'
    <2>1. pc' \in [Commands -> {"idle", "wait", "stop", "bind", "check", "save", "serve",
                                "restore", "ask", "compare", "helper", "again", "reread"}]
      BY <1>11 DEF TypeOK, AuthSave, AuthLeave, Commands
    <2>2. authLock' = None /\ wantDisabled' = FALSE /\ disabled' \in BOOLEAN
      BY <1>11 DEF TypeOK, AuthSave, AuthLeave
    <2> QED BY <1>11, <2>1, <2>2 DEF TypeOK, AuthSave
  <1>12. ASSUME Issue PROVE TypeOK'
    BY <1>12 DEF TypeOK, Issue, Listener
  <1>13. ASSUME NEW r \in routers, Reached(r) PROVE TypeOK'
    BY <1>13 DEF TypeOK, Reached
  <1>14. ASSUME Expire PROVE TypeOK'
    BY <1>14 DEF TypeOK, Expire
  <1>15. ASSUME NEW c \in Changes, Confirm(c) PROVE TypeOK'
    BY <1>15 DEF TypeOK, Confirm, Commands
  <1>16. ASSUME NEW c \in Changes, Change(c) PROVE TypeOK'
    <2>1. CASE TakeGuard(c)
      BY <2>1 DEF TypeOK, TakeGuard, ChangeStep, Commands
    <2>2. CASE Compare(c)
      BY <2>2 DEF TypeOK, Compare, ChangeStep, Commands
    <2>3. CASE Helper(c)
      BY <2>3 DEF TypeOK, Helper, ChangeStep, Commands
    <2>4. CASE CompareAgain(c)
      BY <2>4 DEF TypeOK, CompareAgain, ChangeStep, Commands
    <2>5. CASE Reread(c)
      BY <2>5 DEF TypeOK, Reread, ChangeStep, Commands
    <2> QED BY <1>16, <2>1, <2>2, <2>3, <2>4, <2>5 DEF Change
  <1>17. ASSUME NEW r \in routers, Drained(r) PROVE TypeOK'
    BY <1>17 DEF TypeOK, Drained
  <1>18. ASSUME NEW p \in Ports, OtherProgram(p) PROVE TypeOK'
    BY <1>18 DEF TypeOK, OtherProgram
  <1>19. ASSUME Relaunch PROVE TypeOK'
    <2>1. /\ saved' \in ServerSettings /\ live' \in Listener \cup {None}
          /\ notice' \in {"none", "fallback", "fallbackUnsaved", "exhausted"}
          /\ routers' \subseteq Listener /\ (live' # None => live' \in routers')
      <3>1. CASE NoLaunch
        BY <3>1 DEF TypeOK, NoLaunch
      <3>2. ASSUME NEW p \in Ports, LaunchPort(p)
            PROVE /\ saved' \in ServerSettings /\ live' \in Listener \cup {None}
                  /\ notice' \in {"none", "fallback", "fallbackUnsaved", "exhausted"}
                  /\ routers' \subseteq Listener /\ (live' # None => live' \in routers')
        BY <3>2 DEF TypeOK, LaunchPort, Listener, ServerSettings
      <3> QED BY <1>19, <3>1, <3>2 DEF Relaunch
    <2>2. /\ pc' \in [Commands -> {"idle"}] /\ want' \in [Appliers -> ServerSettings]
          /\ previous' \in [Appliers -> {None}] /\ bound' \in [Appliers -> {None}]
      BY <1>19, NoWantIsSettings DEF Relaunch, Idle, NoPlan
    <2>3. /\ target' \in [Changes -> {0}] /\ ran' \in [Changes -> {0}]
          /\ result' \in [Changes -> {"none"}]
      BY <1>19 DEF Relaunch
    <2>4. reach' \in [generation : Nat, active : Listener \cup {None}, records : SUBSET Listener]
      BY <1>19 DEF Relaunch, EmptyStore
    <2>5. crashes' \in Nat /\ generation' \in Nat /\ issued' \in Nat
      BY <1>19 DEF Relaunch, TypeOK
    <2>6. /\ disabled' \in BOOLEAN /\ server' = None /\ authLock' = None
          /\ failure' = "none" /\ busy' \subseteq Ports /\ wantDisabled' \in BOOLEAN
      BY <1>19 DEF Relaunch, TypeOK
    <2> QED BY <2>1, <2>2, <2>3, <2>4, <2>5, <2>6 DEF TypeOK
  <1>20. CASE UNCHANGED vars
    BY <1>20 DEF TypeOK, vars
  <1> QED
    BY <1>1, <1>2, <1>3, <1>4, <1>5, <1>6, <1>7, <1>8, <1>9, <1>10, <1>11, <1>12, <1>13, <1>14,
       <1>15, <1>16, <1>17, <1>18, <1>19, <1>20 DEF Next, Apply

-----------------------------------------------------------------------------
(* The locks.                                                              *)

LEMMA LockStep == TypeOK /\ LockInv /\ [Next]_vars => LockInv'
  <1> SUFFICES ASSUME TypeOK, LockInv, [Next]_vars PROVE LockInv'
    OBVIOUS
  <1> USE DEF LockInv, Holding, settings, locks, slotVars, store, plans, changeVars, outside, Commands
  <1>1. ASSUME NEW a \in Appliers, Request(a) PROVE LockInv'
    BY <1>1 DEF TypeOK, Request
  <1>2. ASSUME NEW a \in Appliers, Validate(a) PROVE LockInv'
    BY <1>2 DEF TypeOK, Validate, Leave
  <1>3. ASSUME NEW a \in Appliers, Stop(a) PROVE LockInv'
    BY <1>3 DEF TypeOK, Stop
  <1>4. ASSUME NEW a \in Appliers, Bind(a) PROVE LockInv'
    BY <1>4 DEF TypeOK, Bind, Fail
  <1>5. ASSUME NEW a \in Appliers, Check(a) PROVE LockInv'
    BY <1>5 DEF TypeOK, Check, Fail
  <1>6. ASSUME NEW a \in Appliers, Save(a) PROVE LockInv'
    BY <1>6 DEF TypeOK, Save, Fail
  <1>7. ASSUME NEW a \in Appliers, Serve(a) \/ Restore(a) PROVE LockInv'
    BY <1>7 DEF TypeOK, Serve, Restore, Leave
  <1>8. ASSUME AuthRequest \/ AuthCheck \/ AuthSave PROVE LockInv'
    BY <1>8 DEF TypeOK, AuthRequest, AuthCheck, AuthSave, AuthLeave
  <1>9. ASSUME NEW c \in Changes, Confirm(c) \/ Change(c) PROVE LockInv'
    BY <1>9 DEF TypeOK, Confirm, Change, TakeGuard, Compare, Helper, CompareAgain, Reread, ChangeStep
  <1>10. CASE UNCHANGED <<pc, server, authLock>>
    BY <1>10
  <1>11. CASE Relaunch
    BY <1>11 DEF Relaunch, Idle
  <1>12. CASE \/ Issue \/ Expire \/ (\E r \in routers : Reached(r) \/ Drained(r))
              \/ (\E p \in Ports : OtherProgram(p)) \/ UNCHANGED vars
    BY <1>10, <1>12 DEF Issue, Expire, Reached, Drained, OtherProgram, vars
  <1> QED
    BY <1>1, <1>2, <1>3, <1>4, <1>5, <1>6, <1>7, <1>8, <1>9, <1>11, <1>12 DEF Next, Apply

-----------------------------------------------------------------------------
(* The settings rows and the slot.                                         *)

LEMMA RowsStep == TypeOK /\ LockInv /\ PlanInv /\ RowsInv /\ [Next]_vars => RowsInv'
  <1> SUFFICES ASSUME TypeOK, LockInv, PlanInv, RowsInv, [Next]_vars PROVE RowsInv'
    OBVIOUS
  <1> USE DEF RowsInv, Allowed, settings, locks, slotVars, store, plans, changeVars, outside, Commands
  <1>1. ASSUME NEW a \in Appliers, Request(a) PROVE RowsInv'
    BY <1>1 DEF TypeOK, Request
  <1>2. ASSUME NEW a \in Appliers, Validate(a) PROVE RowsInv'
    BY <1>2 DEF TypeOK, Validate, Leave
  <1>3. ASSUME NEW a \in Appliers, Stop(a) PROVE RowsInv'
    BY <1>3 DEF TypeOK, Stop
  <1>4. ASSUME NEW a \in Appliers, Bind(a) PROVE RowsInv'
    BY <1>4 DEF TypeOK, Bind, Fail
  <1>5. ASSUME NEW a \in Appliers, Check(a) PROVE RowsInv'
    BY <1>5 DEF TypeOK, Check, Fail
  <1>6. ASSUME NEW a \in Appliers, Save(a) PROVE RowsInv'
    <2>1. pc[AuthWriter] # "save" /\ \A b \in Appliers : pc[b] = "save" => b = a
      BY <1>6 DEF LockInv, Save
    <2> QED BY <1>6, <2>1 DEF TypeOK, Save, Fail
  <1>7. ASSUME NEW a \in Appliers, Serve(a) \/ Restore(a) PROVE RowsInv'
    BY <1>7 DEF TypeOK, Serve, Restore, Leave
  <1>8. ASSUME AuthRequest \/ AuthCheck PROVE RowsInv'
    BY <1>8 DEF TypeOK, AuthRequest, AuthCheck, AuthLeave
  <1>9. ASSUME AuthSave PROVE RowsInv'
    <2>1. \A b \in Appliers : pc[b] # "save"
      BY <1>9 DEF LockInv, AuthSave
    <2> QED BY <1>9, <2>1 DEF TypeOK, AuthSave, AuthLeave
  <1>10. ASSUME NEW c \in Changes, Confirm(c) \/ Change(c) PROVE RowsInv'
    BY <1>10 DEF TypeOK, Confirm, Change, TakeGuard, Compare, Helper, CompareAgain, Reread, ChangeStep
  <1>11. CASE Relaunch
    BY <1>11 DEF TypeOK, Relaunch, Idle, NoLaunch, LaunchPort, ServerSettings
  <1>12. CASE \/ Issue \/ Expire \/ (\E r \in routers : Reached(r) \/ Drained(r))
              \/ (\E p \in Ports : OtherProgram(p)) \/ UNCHANGED vars
    BY <1>12 DEF Issue, Expire, Reached, Drained, OtherProgram, vars
  <1> QED
    BY <1>1, <1>2, <1>3, <1>4, <1>5, <1>6, <1>7, <1>8, <1>9, <1>10, <1>11, <1>12 DEF Next, Apply

\* No other apply is past its validation while one is.
LEMMA Alone ==
  ASSUME LockInv, NEW a \in Appliers, pc[a] \in Holding
  PROVE  server = a /\ \A b \in Appliers : b # a => pc[b] \notin Holding
  BY DEF LockInv

LEMMA SlotStep == TypeOK /\ LockInv /\ PlanInv /\ SlotInv /\ [Next]_vars => SlotInv'
  <1> SUFFICES ASSUME TypeOK, LockInv, PlanInv, SlotInv, [Next]_vars PROVE SlotInv'
    OBVIOUS
  <1> USE DEF SlotInv, settings, locks, slotVars, store, plans, changeVars, outside, Commands
  <1>1. ASSUME NEW a \in Appliers, Request(a) PROVE SlotInv'
    BY <1>1 DEF Request
  <1>2. ASSUME NEW a \in Appliers, Validate(a) PROVE SlotInv'
    BY <1>2 DEF Validate, Leave
  <1>3. ASSUME NEW a \in Appliers, Stop(a) PROVE SlotInv'
    BY <1>3, Alone DEF Stop, Holding
  <1>4. ASSUME NEW a \in Appliers, Bind(a) PROVE SlotInv'
    BY <1>4, Alone DEF Bind, Fail, PlanInv, Stopped, Holding
  <1>5. ASSUME NEW a \in Appliers, Check(a) PROVE SlotInv'
    BY <1>5, Alone DEF Check, Fail, PlanInv, Stopped, Holding
  <1>6. ASSUME NEW a \in Appliers, Save(a) PROVE SlotInv'
    BY <1>6, Alone DEF Save, Fail, PlanInv, Stopped, Holding
  <1>7. ASSUME NEW a \in Appliers, Serve(a) PROVE SlotInv'
    <2>1. /\ bound[a] = IF want[a].enabled THEN want[a].port ELSE None
          /\ saved = want[a] /\ saved' = saved /\ notice' = "none"
      BY <1>7 DEF Serve, PlanInv
    <2>2. want[a].port \in Ports
      BY DEF TypeOK, ServerSettings
    <2>3. CASE bound[a] = None
      BY <1>7, <2>1, <2>2, <2>3 DEF Serve
    <2>4. CASE bound[a] # None
      <3>1. want[a].enabled /\ bound[a] = saved.port
        BY <2>1, <2>4
      <3>2. live' = [generation |-> generation, port |-> saved.port]
        BY <1>7, <2>4, <3>1 DEF Serve, Launch
      <3>3. live' \in Listener
        BY <3>2, <2>1, <2>2 DEF TypeOK, Listener
      <3> QED BY <2>1, <3>1, <3>2, <3>3
    <2> QED BY <2>3, <2>4
  <1>8. ASSUME NEW a \in Appliers, Restore(a) PROVE SlotInv'
    <2>1. failure' # "none" /\ live = None /\ UNCHANGED <<saved, notice>>
      BY <1>8 DEF Restore, PlanInv, Stopped, Holding
    <2>2. CASE UNCHANGED live
      BY <2>1, <2>2
    <2>3. CASE previous[a] \in Ports \ busy /\ Launch(previous[a])
      <3>1. saved.enabled /\ (notice # "fallbackUnsaved" => previous[a] = saved.port)
        BY <1>8, <2>3 DEF Restore, PlanInv
      <3>2. live'.port = previous[a]
        BY <2>3 DEF Launch
      <3> QED BY <2>1, <3>1, <3>2
    <2> QED BY <1>8, <2>2, <2>3 DEF Restore
  <1>9. ASSUME AuthRequest \/ AuthCheck \/ AuthSave PROVE SlotInv'
    BY <1>9 DEF AuthRequest, AuthCheck, AuthSave, AuthLeave
  <1>10. ASSUME NEW c \in Changes, Confirm(c) \/ Change(c) PROVE SlotInv'
    BY <1>10 DEF Confirm, Change, TakeGuard, Compare, Helper, CompareAgain, Reread, ChangeStep
  <1>11. CASE Relaunch
    <2>1. generation' = 0
      BY <1>11 DEF Relaunch
    <2>2. CASE NoLaunch
      BY <2>1, <2>2 DEF NoLaunch
    <2>3. ASSUME NEW p \in Ports, LaunchPort(p) PROVE SlotInv'
      <3>1. saved'.enabled
        BY <2>3 DEF LaunchPort, TypeOK, ServerSettings
      <3>2. notice' # "fallbackUnsaved" => live'.port = saved'.port
        BY <2>3 DEF LaunchPort, TypeOK, ServerSettings
      <3> QED BY <2>1, <3>1, <3>2
    <2> QED BY <1>11, <2>2, <2>3 DEF Relaunch
  <1>12. CASE \/ Issue \/ Expire \/ (\E r \in routers : Reached(r) \/ Drained(r))
              \/ (\E p \in Ports : OtherProgram(p)) \/ UNCHANGED vars
    BY <1>12 DEF Issue, Expire, Reached, Drained, OtherProgram, vars
  <1> QED
    BY <1>1, <1>2, <1>3, <1>4, <1>5, <1>6, <1>7, <1>8, <1>9, <1>10, <1>11, <1>12 DEF Next, Apply

LEMMA PlanStep == TypeOK /\ LockInv /\ SlotInv /\ PlanInv /\ [Next]_vars => PlanInv'
  <1> SUFFICES ASSUME TypeOK, LockInv, SlotInv, PlanInv, [Next]_vars PROVE PlanInv'
    OBVIOUS
  <1> USE DEF PlanInv, Stopped, Holding, settings, locks, slotVars, store, plans, changeVars,
              outside, Commands
  <1>1. ASSUME NEW a \in Appliers, Request(a) PROVE PlanInv'
    BY <1>1 DEF TypeOK, Request
  <1>2. ASSUME NEW a \in Appliers, Validate(a) PROVE PlanInv'
    BY <1>2 DEF TypeOK, Validate, Leave
  <1>3. ASSUME NEW a \in Appliers, Stop(a) PROVE PlanInv'
    BY <1>3, Alone DEF TypeOK, SlotInv, Stop, LivePort
  <1>4. ASSUME NEW a \in Appliers, Bind(a) PROVE PlanInv'
    BY <1>4, Alone DEF TypeOK, Bind, Fail
  <1>5. ASSUME NEW a \in Appliers, Check(a) PROVE PlanInv'
    BY <1>5, Alone DEF TypeOK, Check, Fail
  <1>6. ASSUME NEW a \in Appliers, Save(a) PROVE PlanInv'
    BY <1>6, Alone DEF TypeOK, Save, Fail
  <1>7. ASSUME NEW a \in Appliers, Serve(a) \/ Restore(a) PROVE PlanInv'
    <2>1. \A b \in Appliers : b # a => pc[b] \notin Holding
      BY <1>7, Alone DEF Serve, Restore
    <2>2. \A b \in Appliers : pc'[b] \notin Holding
      BY <1>7, <2>1 DEF TypeOK, Serve, Restore, Leave
    <2> QED BY <2>2
  <1>8. ASSUME AuthRequest \/ AuthCheck \/ AuthSave PROVE PlanInv'
    BY <1>8 DEF TypeOK, AuthRequest, AuthCheck, AuthSave, AuthLeave
  <1>9. ASSUME NEW c \in Changes, Confirm(c) \/ Change(c) PROVE PlanInv'
    BY <1>9 DEF TypeOK, Confirm, Change, TakeGuard, Compare, Helper, CompareAgain, Reread, ChangeStep
  <1>10. CASE Relaunch
    BY <1>10 DEF Relaunch, Idle
  <1>11. CASE \/ Issue \/ Expire \/ (\E r \in routers : Reached(r) \/ Drained(r))
              \/ (\E p \in Ports : OtherProgram(p)) \/ UNCHANGED vars
    BY <1>11 DEF Issue, Expire, Reached, Drained, OtherProgram, vars
  <1> QED
    BY <1>1, <1>2, <1>3, <1>4, <1>5, <1>6, <1>7, <1>8, <1>9, <1>10, <1>11 DEF Next, Apply

-----------------------------------------------------------------------------
(* The reach check.                                                        *)

LEMMA ReachStep == TypeOK /\ LockInv /\ PlanInv /\ ReachInv /\ [Next]_vars => ReachInv'
  <1> SUFFICES ASSUME TypeOK, LockInv, PlanInv, ReachInv, [Next]_vars PROVE ReachInv'
    OBVIOUS
  <1> USE DEF ReachInv, settings, locks, slotVars, store, plans, changeVars, outside, Commands
  <1>1. CASE UNCHANGED <<reach, generation, live>>
    BY <1>1
  <1>2. ASSUME NEW a \in Appliers, Request(a) \/ Validate(a) \/ Bind(a) \/ Check(a) \/ Save(a)
        PROVE ReachInv'
    BY <1>1, <1>2 DEF Request, Validate, Leave, Bind, Check, Save, Fail
  <1>3. ASSUME NEW a \in Appliers, Stop(a) PROVE ReachInv'
    BY <1>3 DEF Stop, EmptyStore
  <1>4. ASSUME NEW a \in Appliers, Serve(a) \/ Restore(a) PROVE ReachInv'
    <2>1. live = None /\ UNCHANGED <<reach, generation>>
      BY <1>4 DEF Serve, Restore, PlanInv, Stopped, Holding
    <2>2. live' = live \/ live'.generation = generation
      BY <1>4, <2>1 DEF Serve, Restore, Launch
    <2> QED BY <2>1, <2>2
  <1>5. CASE Issue
    <2>1. live \in Listener
      BY <1>5 DEF Issue, TypeOK
    <2>2. reach'.active = [generation |-> generation, port |-> live.port]
      BY <1>5 DEF Issue, TypeOK
    <2>3. reach'.active = live
      BY <2>1, <2>2, <1>5 DEF Issue, Listener
    <2>4. reach'.records = reach.records /\ reach'.generation = reach.generation
      BY <1>5 DEF Issue, TypeOK
    <2> QED BY <1>5, <2>3, <2>4 DEF Issue
  <1>6. ASSUME NEW r \in routers, Reached(r) PROVE ReachInv'
    <2>1. r \in Listener /\ live \in Listener /\ reach.active = live /\ live # None
      BY <1>6 DEF Reached, TypeOK
    <2>2. live.generation = r.generation /\ live.port = r.port
      BY <1>6, <2>1 DEF Reached, Matches
    <2>3. /\ r = [generation |-> r.generation, port |-> r.port]
          /\ live = [generation |-> live.generation, port |-> live.port]
      BY <2>1 DEF Listener
    <2>4. r = live
      BY <2>2, <2>3
    <2> QED BY <1>6, <2>1, <2>4 DEF Reached
  <1>7. CASE Expire
    BY <1>7 DEF Expire, TypeOK
  <1>8. CASE Relaunch
    <2>1. reach' = EmptyStore(0) /\ generation' = 0
      BY <1>8 DEF Relaunch
    <2>2. live' = None \/ live'.generation = 0
      BY <1>8 DEF Relaunch, NoLaunch, LaunchPort
    <2> QED BY <2>1, <2>2 DEF EmptyStore
  <1>9. CASE AuthRequest \/ AuthCheck \/ AuthSave
    BY <1>1, <1>9 DEF AuthRequest, AuthCheck, AuthSave
  <1>10. ASSUME NEW c \in Changes, Confirm(c) \/ Change(c) PROVE ReachInv'
    BY <1>1, <1>10 DEF Confirm, Change, TakeGuard, Compare, Helper, CompareAgain, Reread, ChangeStep
  <1>11. CASE \/ (\E r \in routers : Drained(r)) \/ (\E p \in Ports : OtherProgram(p))
              \/ UNCHANGED vars
    BY <1>1, <1>11 DEF Drained, OtherProgram, vars
  <1> QED
    BY <1>2, <1>3, <1>4, <1>5, <1>6, <1>7, <1>8, <1>9, <1>10, <1>11 DEF Next, Apply

-----------------------------------------------------------------------------
(* The firewall change.                                                    *)

LEMMA ChangeStepKeeps == TypeOK /\ ChangeInv /\ [Next]_vars => ChangeInv'
  <1> SUFFICES ASSUME TypeOK, ChangeInv, [Next]_vars PROVE ChangeInv'
    OBVIOUS
  <1> USE DEF ChangeInv, settings, locks, slotVars, store, plans, changeVars, outside, Commands
  <1>1. CASE UNCHANGED <<target, ran, result, generation>> /\ \A c \in Changes : pc'[c] = pc[c]
    BY <1>1
  <1>2. ASSUME NEW a \in Appliers, Request(a) \/ Validate(a) \/ Bind(a) \/ Check(a) \/ Save(a)
                                   \/ Serve(a) \/ Restore(a)
        PROVE ChangeInv'
    <2>1. UNCHANGED <<target, ran, result, generation>>
      BY <1>2 DEF Request, Validate, Bind, Check, Save, Serve, Restore
    <2>2. \A c \in Changes : pc'[c] = pc[c]
      BY <1>2 DEF TypeOK, Request, Validate, Leave, Bind, Check, Save, Serve, Restore, Fail
    <2> QED BY <1>1, <2>1, <2>2
  <1>3. ASSUME NEW a \in Appliers, Stop(a) PROVE ChangeInv'
    <2>1. UNCHANGED <<target, ran, result>> /\ generation' = generation + 1
      BY <1>3 DEF Stop
    <2>2. \A c \in Changes : pc'[c] = pc[c]
      BY <1>3 DEF TypeOK, Stop
    <2> QED BY <2>1, <2>2 DEF TypeOK
  <1>4. CASE AuthRequest \/ AuthCheck \/ AuthSave
    <2>1. UNCHANGED <<target, ran, result, generation>>
      BY <1>4 DEF AuthRequest, AuthCheck, AuthSave
    <2>2. \A c \in Changes : pc'[c] = pc[c]
      BY <1>4 DEF TypeOK, AuthRequest, AuthCheck, AuthSave, AuthLeave
    <2> QED BY <1>1, <2>1, <2>2
  <1>5. ASSUME NEW c \in Changes, Confirm(c) PROVE ChangeInv'
    BY <1>5 DEF TypeOK, Confirm
  <1>6. ASSUME NEW c \in Changes, TakeGuard(c) \/ Compare(c) \/ Reread(c) PROVE ChangeInv'
    BY <1>6 DEF TypeOK, TakeGuard, Compare, Reread, ChangeStep
  <1>7. ASSUME NEW c \in Changes, Helper(c) PROVE ChangeInv'
    BY <1>7 DEF TypeOK, Helper, ChangeStep
  <1>8. ASSUME NEW c \in Changes, CompareAgain(c) PROVE ChangeInv'
    BY <1>8 DEF TypeOK, CompareAgain, ChangeStep
  <1>9. CASE Relaunch
    <2>1. /\ target' = [c \in Changes |-> 0] /\ ran' = [c \in Changes |-> 0]
          /\ result' = [c \in Changes |-> "none"] /\ generation' = 0
      BY <1>9 DEF Relaunch
    <2>2. \A c \in Changes : pc'[c] = "idle"
      BY <1>9 DEF Relaunch, Idle
    <2> QED BY <2>1, <2>2
  <1>10. CASE \/ Issue \/ Expire \/ (\E r \in routers : Reached(r) \/ Drained(r))
              \/ (\E p \in Ports : OtherProgram(p)) \/ UNCHANGED vars
    BY <1>1, <1>10 DEF Issue, Expire, Reached, Drained, OtherProgram, vars
  <1> QED
    BY <1>2, <1>3, <1>4, <1>5, <1>6, <1>7, <1>8, <1>9, <1>10 DEF Next, Apply, Change

-----------------------------------------------------------------------------
(* The theorems.                                                           *)

IInv == TypeOK /\ LockInv /\ RowsInv /\ SlotInv /\ PlanInv /\ ReachInv /\ ChangeInv

LEMMA IInvInit == Init => IInv
  <1> SUFFICES ASSUME Init PROVE IInv
    OBVIOUS
  <1>1. \A c \in Commands : pc[c] = "idle"
    BY DEF Init, Idle
  <1>2. Appliers \cup {AuthWriter} \cup Changes = Commands
    BY DEF Commands
  <1>3. LockInv /\ PlanInv
    BY <1>1, <1>2 DEF LockInv, PlanInv, Holding, Stopped
  <1>4. RowsInv
    BY <1>1, <1>2 DEF Init, RowsInv, Allowed, NoWant
  <1>5. SlotInv
    BY DEF Init, SlotInv, NoWant
  <1>6. ReachInv
    BY DEF Init, ReachInv, EmptyStore
  <1>7. ChangeInv
    BY <1>1, <1>2 DEF Init, ChangeInv
  <1> QED BY TypeInit, <1>3, <1>4, <1>5, <1>6, <1>7 DEF IInv

LEMMA IInvStep == IInv /\ [Next]_vars => IInv'
  BY TypeStep, LockStep, RowsStep, SlotStep, PlanStep, ReachStep, ChangeStepKeeps DEF IInv

LEMMA InvariantHolds == Spec => []IInv
  BY IInvInit, IInvStep, PTL DEF Spec

\* Every variable keeps its type, each command's place and each lock included.
THEOREM TypeCorrect == Spec => []TypeOK
  <1>1. IInv => TypeOK
    BY DEF IInv
  <1> QED BY <1>1, InvariantHolds, PTL

\* Authentication off and a LAN listener without public viewing are never both
\* in force, however the two writers of the two settings interleave.
THEOREM NeverOpenWithoutLogin == Spec => []LanNeverOpenWithoutLogin
  <1>1. IInv => LanNeverOpenWithoutLogin
    BY DEF IInv, RowsInv, SlotInv, LanNeverOpenWithoutLogin, Allowed
  <1> QED BY <1>1, InvariantHolds, PTL

\* Whenever the slot can be read, what serves is what is saved, and an outage
\* is one the status reports.
THEOREM ServesWhatIsSaved == Spec => []RunningServerIsTheSavedOne
  <1>1. IInv => RunningServerIsTheSavedOne
    BY DEF IInv, SlotInv, RunningServerIsTheSavedOne
  <1> QED BY <1>1, InvariantHolds, PTL

\* A token the screen shows is accepted by the listener that serves, and every
\* result shown is that listener's, whatever a stopped one still delivers.
THEOREM ReachCheckIsOfTheListener == Spec => []ReachCheckFollowsTheListener
  <1>1. IInv => ReachCheckFollowsTheListener
    BY DEF IInv, ReachInv, ReachCheckFollowsTheListener, Matches
  <1> QED BY <1>1, InvariantHolds, PTL

\* A change answered as current ran at the generation its user confirmed.
THEOREM CurrentIsConfirmed == Spec => []CurrentChangeWasConfirmed
  <1>1. IInv => CurrentChangeWasConfirmed
    BY DEF IInv, ChangeInv, CurrentChangeWasConfirmed
  <1> QED BY <1>1, InvariantHolds, PTL
=============================================================================
