------------------------- MODULE DesktopSessionProofs -------------------------
(***************************************************************************)
(* The desktop's slot follows the stored mode, a check acts on what stood  *)
(* in the slot, and no slow command undoes what came meanwhile, for any    *)
(* number of concurrent commands, roles, row ids and epochs.               *)
(*                                                                         *)
(* The invariant says of every command what it may still believe at its    *)
(* place in the code: all of it hangs on the sequence number, which moves  *)
(* with every change of the slot's binding, and on the lock, which the     *)
(* settings do not move without.  The start of the program, at the end, is *)
(* by itself: what it decides from is only moved by what runs later.       *)
(***************************************************************************)
EXTENDS MCDesktopSession, TLAPS

\* Who stands where it holds auth_config_lock.
LockInv ==
    \A p \in Procs :
        \/ pc[p] \in {"install", "rebind", "follow"}
        \/ pc[p] = "save" /\ op[p] \in {"apply", "autologin"}
        \/ pc[p] \in {"read", "settle"} /\ op[p] = "apply"
        => lock = p

\* What the lock keeps as its holder read it.
HeldInv ==
    \A p \in Procs :
        /\ pc[p] = "install" => ~config.disabled
        /\ pc[p] = "rebind" => conf[p] = config /\ config.disabled
        /\ pc[p] = "save" /\ op[p] = "autologin" => conf[p] = config

\* What a command carries.
CarriedInv ==
    \A p \in Procs :
        /\ entry[p] <= seq
        /\ pc[p] = "install" \/ (pc[p] = "lock" /\ op[p] \in {"login", "setup"})
             \/ pc[p] \in {"change", "rotate"}
             => fresh[p].kind = "account"
        /\ pc[p] = "clear" => op[p] = "logout"

\* An apply that has saved another mode and moves the slot when it follows.
Moves(q) ==
    /\ pc[q] = "follow"
    /\ IF config.disabled THEN ~conf[q].disabled \/ conf[q].role # config.role
                          ELSE conf[q].disabled

\* Before an apply that turned the mode on, the slot had no local session.
FollowInv ==
    \A p \in Procs : pc[p] = "follow" /\ ~adrift /\ ~conf[p].disabled => slot.kind # "local"

\* A logout that may clear the slot saw no mode since the slot moved ...
ClearInv ==
    \A p \in Procs :
        pc[p] = "clear" /\ ~Stale(p) /\ config.disabled =>
            adrift \/ \E q \in Procs : Moves(q) /\ ~conf[q].disabled

\* ... and a check that may settle the local session read the mode in force,
\* or the mode has been changed and its apply will move the slot.
SettleInv ==
    \A p \in Procs :
        pc[p] = "settle" /\ ~Stale(p) /\ slot.kind = "local" =>
            \/ adrift
            \/ config.disabled /\ fresh[p] = LocalSession(config.role)
            \/ \E q \in Procs : Moves(q) /\ (fresh[p].kind = "local" \/ ~config.disabled)

\* A login or setup on its way, since it read the slot.
Entering(p) ==
    \/ pc[p] \in {"mode", "verify", "install"}
    \/ pc[p] = "lock" /\ op[p] \in {"login", "setup"}

\* The slot has moved since the entry of one that saw a session end.
EndedInv == \A p \in ended : Entering(p) => entry[p] < seq

\* A binding is of a row that was: its row, if it is still there, has not gone
\* back, and ids are not handed out again.
Past(s) ==
    s.kind = "account" =>
        s.id <= nextId /\ (row # NoSession /\ row.id = s.id => s.epoch <= row.epoch)

PastInv ==
    /\ row # NoSession => row.id <= nextId
    /\ Past(slot)
    /\ \A p \in Procs :
          /\ Past(fresh[p])
          /\ pc[p] = "rotate" /\ row # NoSession /\ row.id = fresh[p].id =>
                newEpoch[p] <= row.epoch

\* A row that was not the slot's at a check's read does not become it.
ReadInv ==
    \A p \in Procs :
        pc[p] = "settle" /\ ~Stale(p) /\ slot.kind = "account" /\ SameBinding(slot, row)
            => SameBinding(slot, fresh[p])

\* The role of a local session that was set, or read, while a command ran is
\* one the mode had meanwhile.
VouchedInv ==
    \A p \in Procs :
        pc[p] \in {"read", "settle"} =>
            /\ entry[p] < seq /\ slot.kind = "local" => slot.role \in vouched[p]
            /\ \A s \in Procs :
                  pc[s] = "settle" /\ fresh[s].kind = "local" /\ (s = p \/ entry[p] < entry[s])
                      => fresh[s].role \in vouched[p]

-----------------------------------------------------------------------------
\* The sessions the commands make are sessions.
LEMMA SomeShapes ==
  /\ NoSession \in Sessions /\ NoConf \in Settings
  /\ \A r \in Roles : LocalSession(r) \in Sessions
  /\ \A i \in Nat, e \in Nat, r \in Roles : Account(i, e, r) \in Accounts
  /\ Accounts \subseteq Sessions
  BY AdminIsARole DEF Sessions, Accounts, Settings, NoSession, NoConf, LocalSession, Account

\* The locals of a command that returns.
LEMMA ReturnShapes ==
  ASSUME TypeOK, NEW p \in Procs, Return(p)
  PROVE  /\ lock' \in Procs \cup {Free}
         /\ op' \in [Procs -> Ops \cup {"none"}] /\ pc' \in [Procs -> Labels]
         /\ entry' \in [Procs -> Nat]
         /\ cached' \in [Procs -> Sessions] /\ fresh' \in [Procs -> Sessions]
         /\ conf' \in [Procs -> Settings] /\ newEpoch' \in [Procs -> Nat]
  BY SomeShapes DEF TypeOK, Return, Labels

\* Every step keeps the types.
LEMMA TypeKept == TypeOK /\ CarriedInv /\ [Next]_vars => TypeOK'
  <1> SUFFICES ASSUME TypeOK, CarriedInv, [Next]_vars PROVE TypeOK'
    OBVIOUS
  <1> DEFINE Shapes ==
        /\ slot \in Sessions /\ seq \in Nat /\ config \in Settings
        /\ lock \in Procs \cup {Free}
        /\ row \in Accounts \cup {NoSession} /\ nextId \in Nat /\ initialized \in BOOLEAN
        /\ op \in [Procs -> Ops \cup {"none"}] /\ pc \in [Procs -> Labels]
        /\ entry \in [Procs -> Nat]
        /\ cached \in [Procs -> Sessions] /\ fresh \in [Procs -> Sessions]
        /\ conf \in [Procs -> Settings] /\ newEpoch \in [Procs -> Nat]
        /\ adrift \in BOOLEAN
  <1> USE DEF TypeOK, store, local
  <1>1. ASSUME NEW p \in Procs, Command(p) PROVE Shapes'
    <2>1. CASE Begin(p)
      BY <2>1 DEF Begin, Goto, Labels
    <2>2. CASE BeginApply(p)
      <3> PICK wanted \in [disabled : BOOLEAN, role : Roles, autologin : {FALSE}] :
                  conf' = [conf EXCEPT ![p] = wanted]
        BY <2>2 DEF BeginApply
      <3>1. wanted \in Settings
        BY DEF Settings
      <3> QED BY <2>2, <3>1 DEF BeginApply, Goto, Labels
    <2>3. CASE GiveUp(p)
      BY <2>3, ReturnShapes DEF GiveUp
    <2>4. CASE LoginMode(p)
      <3>1. CASE Return(p)
        BY <2>4, <3>1, ReturnShapes DEF LoginMode
      <3>2. CASE ~Return(p)
        BY <2>4, <3>2, SomeShapes DEF LoginMode, Goto, Labels
      <3> QED BY <3>1, <3>2
    <2>5. CASE Verify(p)
      BY <2>5, SomeShapes DEF Verify, Goto, Labels
    <2>6. CASE SetupFirstUser(p)
      <3>1. row' \in Accounts /\ row' \in Sessions
        BY <2>6, SomeShapes, AdminIsARole DEF SetupFirstUser
      <3> QED BY <2>6, <3>1 DEF SetupFirstUser, Goto, Labels
    <2>7. CASE LoginLock(p)
      <3>1. CASE Return(p)
        BY <2>7, <3>1, ReturnShapes DEF LoginLock
      <3>2. CASE ~Return(p)
        BY <2>7, <3>2, SomeShapes DEF LoginLock, Goto, Labels
      <3> QED BY <3>1, <3>2
    <2>8. CASE Install(p)
      BY <2>8, ReturnShapes DEF Install, Cas
    <2>9. CASE LogoutMode(p)
      <3>1. CASE Return(p)
        BY <2>9, <3>1, ReturnShapes DEF LogoutMode
      <3>2. CASE ~Return(p)
        BY <2>9, <3>2, SomeShapes DEF LogoutMode, Goto, Labels
      <3> QED BY <3>1, <3>2
    <2>10. CASE Clear(p)
      <3>0. slot' \in Sessions /\ seq' \in Nat
        BY <2>10, SomeShapes DEF Clear, Cas
      <3>1. CASE seq # entry[p]
        BY <2>10, <3>0, <3>1, ReturnShapes DEF Clear
      <3>2. CASE seq = entry[p]
        BY <2>10, <3>0, <3>2 DEF Clear, Goto, Labels
      <3> QED BY <3>1, <3>2
    <2>11. CASE LogoutLock(p)
      <3>1. CASE Return(p)
        BY <2>11, <3>1, ReturnShapes DEF LogoutLock
      <3>2. CASE ~Return(p)
        BY <2>11, <3>2, SomeShapes DEF LogoutLock, Goto, Labels
      <3> QED BY <3>1, <3>2
    <2>12. CASE LogoutRebind(p)
      <3>1. conf[p].role \in Roles
        BY DEF Settings
      <3> QED BY <2>12, <3>1, ReturnShapes, SomeShapes DEF LogoutRebind, RebindLocal
    <2>13. CASE Read(p)
      <3>1. config.role \in Roles
        BY DEF Settings
      <3>2. fresh' \in [Procs -> Sessions]
        BY <2>13, <3>1, SomeShapes DEF Read
      <3> QED BY <2>13, <3>2 DEF Read, Goto, Labels
    <2>14. CASE Settle(p)
      <3>1. Confirmed(p) \in Sessions /\ Answer(p) \in Sessions
        BY SomeShapes DEF Confirmed, Answer
      <3>2. slot' \in Sessions /\ seq' \in Nat
        BY <2>14, <3>1 DEF Settle, SettleSlot
      <3>3. CASE Return(p)
        BY <2>14, <3>2, <3>3, ReturnShapes DEF Settle
      <3>4. CASE ~Return(p)
        BY <2>14, <3>1, <3>2, <3>4 DEF Settle, Goto, Labels
      <3> QED BY <3>3, <3>4
    <2>15. CASE ChangePassword(p)
      <3>1. row \in Accounts
        BY <2>15 DEF ChangePassword
      <3>2. row.epoch + 1 \in Nat /\ row' \in Accounts
        BY <2>15, <3>1 DEF ChangePassword, Accounts
      <3> QED BY <2>15, <3>2 DEF ChangePassword, Goto, Labels
    <2>16. CASE Rotate(p)
      <3>1. slot' \in Sessions /\ seq' \in Nat
        <4>1. CASE UNCHANGED <<slot, seq>>
          BY <4>1
        <4>2. CASE ~UNCHANGED <<slot, seq>>
          <5>1. slot.kind = "account"
            BY <2>16, <4>2 DEF Rotate, SameBinding, CarriedInv
          <5>2. slot \in Accounts
            BY <5>1 DEF Sessions, NoSession
          <5>3. [slot EXCEPT !.epoch = newEpoch[p]] \in Accounts
            BY <5>2 DEF Accounts
          <5> QED BY <2>16, <4>2, <5>3, SomeShapes DEF Rotate
        <4> QED BY <4>1, <4>2
      <3> QED BY <2>16, <3>1, ReturnShapes DEF Rotate
    <2>17. CASE ApplyLock(p)
      BY <2>17 DEF ApplyLock, Goto, Labels
    <2>18. CASE Save(p)
      <3>1. Wanted(p) \in Settings
        BY DEF Wanted, Settings
      <3> QED BY <2>18, <3>1 DEF Save, Goto, Labels
    <2>19. CASE SaveLost(p)
      <3>1. Wanted(p) \in Settings
        BY DEF Wanted, Settings
      <3> QED BY <2>19, <3>1, ReturnShapes DEF SaveLost
    <2>20. CASE Follow(p)
      <3>1. config.role \in Roles
        BY DEF Settings
      <3>2. slot' \in Sessions /\ seq' \in Nat
        BY <2>20, <3>1, SomeShapes DEF Follow, ApplyMode, RebindLocal
      <3>3. adrift' \in BOOLEAN
        BY <2>20 DEF Follow
      <3> QED BY <2>20, <3>2, <3>3, ReturnShapes DEF Follow
    <2>21. CASE AutologinLock(p)
      BY <2>21 DEF AutologinLock, Goto, Labels
    <2>22. CASE AutologinSave(p)
      <3>1. config' \in Settings
        BY <2>22 DEF AutologinSave, Settings
      <3> QED BY <2>22, <3>1, ReturnShapes DEF AutologinSave
    <2> QED BY <1>1, <2>1, <2>2, <2>3, <2>4, <2>5, <2>6, <2>7, <2>8, <2>9, <2>10, <2>11,
               <2>12, <2>13, <2>14, <2>15, <2>16, <2>17, <2>18, <2>19, <2>20, <2>21,
               <2>22 DEF Command
  <1>2. ASSUME Elsewhere PROVE Shapes'
    <2>1. row # NoSession => row \in Accounts /\ row.id \in Nat /\ row.epoch + 1 \in Nat
      BY DEF Accounts
    <2>2. row' \in Accounts \cup {NoSession} /\ nextId' \in Nat
      BY <1>2, <2>1, SomeShapes DEF Elsewhere, Rekey, Delete, Create
    <2> QED BY <1>2, <2>2 DEF Elsewhere, Rekey, Delete, Create
  <1>3. ASSUME Observe, Shapes' PROVE TypeOK'
    <2>1. config'.role \in Roles
      BY <1>3 DEF Settings
    <2>2. vouched' \in [Procs -> SUBSET Roles]
      BY <1>3, <2>1 DEF Observe
    <2>3. ended' \in SUBSET Procs
      BY <1>3 DEF Observe, InFlight
    <2> QED BY <1>3, <2>2, <2>3
  <1>4. CASE UNCHANGED vars
    BY <1>4 DEF vars
  <1> QED BY <1>1, <1>2, <1>3, <1>4 DEF Next

\* The lock is held from its taking to the return.
LEMMA LockKept == TypeOK /\ LockInv /\ [Next]_vars => LockInv'
  <1> SUFFICES ASSUME TypeOK, LockInv, [Next]_vars PROVE LockInv'
    OBVIOUS
  <1> USE DEF TypeOK, LockInv, store, local
  <1>1. CASE UNCHANGED vars
    BY <1>1 DEF vars
  <1>2. ASSUME NEW p \in Procs, Command(p) PROVE LockInv'
    <2>1. CASE Begin(p) BY FreeIsNoCommand, <2>1 DEF Begin, Goto
    <2>2. CASE BeginApply(p) BY FreeIsNoCommand, <2>2 DEF BeginApply, Goto
    <2>3. CASE GiveUp(p) BY FreeIsNoCommand, <2>3 DEF GiveUp, Return
    <2>4. CASE LoginMode(p) BY FreeIsNoCommand, <2>4 DEF LoginMode, Return, Goto
    <2>5. CASE Verify(p) BY FreeIsNoCommand, <2>5 DEF Verify, Goto
    <2>6. CASE SetupFirstUser(p) BY FreeIsNoCommand, <2>6 DEF SetupFirstUser, Goto
    <2>7. CASE LoginLock(p) BY FreeIsNoCommand, <2>7 DEF LoginLock, Return, Goto
    <2>8. CASE Install(p) BY FreeIsNoCommand, <2>8 DEF Install, Cas, Return
    <2>9. CASE LogoutMode(p) BY FreeIsNoCommand, <2>9 DEF LogoutMode, Return, Goto
    <2>10. CASE Clear(p) BY FreeIsNoCommand, <2>10 DEF Clear, Cas, Return, Goto
    <2>11. CASE LogoutLock(p) BY FreeIsNoCommand, <2>11 DEF LogoutLock, Return, Goto
    <2>12. CASE LogoutRebind(p) BY FreeIsNoCommand, <2>12 DEF LogoutRebind, RebindLocal, Return
    <2>13. CASE Read(p) BY FreeIsNoCommand, <2>13 DEF Read, Goto
    <2>14. CASE Settle(p)
      BY FreeIsNoCommand, <2>14 DEF Settle, SettleSlot, Confirmed, Answer, Stale,
         SameBinding, Goto, Return
    <2>15. CASE ChangePassword(p) BY FreeIsNoCommand, <2>15 DEF ChangePassword, Goto
    <2>16. CASE Rotate(p) BY FreeIsNoCommand, <2>16 DEF Rotate, SameBinding, Return
    <2>17. CASE ApplyLock(p) BY FreeIsNoCommand, <2>17 DEF ApplyLock, Goto
    <2>18. CASE Save(p) BY FreeIsNoCommand, <2>18 DEF Save, Wanted, Goto
    <2>19. CASE SaveLost(p) BY FreeIsNoCommand, <2>19 DEF SaveLost, Wanted, Return
    <2>20. CASE Follow(p) BY FreeIsNoCommand, <2>20 DEF Follow, ApplyMode, RebindLocal, Return
    <2>21. CASE AutologinLock(p) BY FreeIsNoCommand, <2>21 DEF AutologinLock, Goto
    <2>22. CASE AutologinSave(p) BY FreeIsNoCommand, <2>22 DEF AutologinSave, Return
    <2> QED BY <1>2, <2>1, <2>2, <2>3, <2>4, <2>5, <2>6, <2>7, <2>8, <2>9, <2>10, <2>11,
               <2>12, <2>13, <2>14, <2>15, <2>16, <2>17, <2>18, <2>19, <2>20, <2>21, <2>22
                           DEF Command
  <1>3. ASSUME Elsewhere PROVE LockInv'
    BY FreeIsNoCommand, <1>3 DEF Elsewhere, Rekey, Delete, Create
  <1> QED BY <1>1, <1>2, <1>3 DEF Next

\* Only the holder of the lock writes the settings.
LEMMA HeldKept == TypeOK /\ LockInv /\ HeldInv /\ [Next]_vars => HeldInv'
  <1> SUFFICES ASSUME TypeOK, LockInv, HeldInv, [Next]_vars PROVE HeldInv'
    OBVIOUS
  <1> USE DEF TypeOK, Settings, LockInv, HeldInv, store, local
  <1>1. CASE UNCHANGED vars
    BY <1>1 DEF vars
  <1>2. ASSUME NEW p \in Procs, Command(p) PROVE HeldInv'
    <2>1. CASE Begin(p) BY <2>1 DEF Begin, Goto
    <2>2. CASE BeginApply(p) BY <2>2 DEF BeginApply, Goto
    <2>3. CASE GiveUp(p) BY <2>3 DEF GiveUp, Return
    <2>4. CASE LoginMode(p) BY <2>4 DEF LoginMode, Return, Goto
    <2>5. CASE Verify(p) BY <2>5 DEF Verify, Goto
    <2>6. CASE SetupFirstUser(p) BY <2>6 DEF SetupFirstUser, Goto
    <2>7. CASE LoginLock(p) BY <2>7 DEF LoginLock, Return, Goto
    <2>8. CASE Install(p) BY <2>8 DEF Install, Cas, Return
    <2>9. CASE LogoutMode(p) BY <2>9 DEF LogoutMode, Return, Goto
    <2>10. CASE Clear(p) BY <2>10 DEF Clear, Cas, Return, Goto
    <2>11. CASE LogoutLock(p) BY <2>11 DEF LogoutLock, Return, Goto
    <2>12. CASE LogoutRebind(p) BY <2>12 DEF LogoutRebind, RebindLocal, Return
    <2>13. CASE Read(p) BY <2>13 DEF Read, Goto
    <2>14. CASE Settle(p)
      BY <2>14 DEF Settle, SettleSlot, Confirmed, Answer, Stale, SameBinding, Goto, Return
    <2>15. CASE ChangePassword(p) BY <2>15 DEF ChangePassword, Goto
    <2>16. CASE Rotate(p) BY <2>16 DEF Rotate, SameBinding, Return
    <2>17. CASE ApplyLock(p) BY <2>17 DEF ApplyLock, Goto
    <2>18. CASE Save(p) BY <2>18 DEF Save, Wanted, Goto
    <2>19. CASE SaveLost(p) BY <2>19 DEF SaveLost, Wanted, Return
    <2>20. CASE Follow(p) BY <2>20 DEF Follow, ApplyMode, RebindLocal, Return
    <2>21. CASE AutologinLock(p) BY <2>21 DEF AutologinLock, Goto
    <2>22. CASE AutologinSave(p) BY <2>22 DEF AutologinSave, Return
    <2> QED BY <1>2, <2>1, <2>2, <2>3, <2>4, <2>5, <2>6, <2>7, <2>8, <2>9, <2>10, <2>11,
               <2>12, <2>13, <2>14, <2>15, <2>16, <2>17, <2>18, <2>19, <2>20, <2>21, <2>22
                           DEF Command
  <1>3. ASSUME Elsewhere PROVE HeldInv'
    BY <1>3 DEF Elsewhere, Rekey, Delete, Create
  <1> QED BY <1>1, <1>2, <1>3 DEF Next

\* The slot's sequence number never goes back.
LEMMA CarriedKept == TypeOK /\ CarriedInv /\ [Next]_vars => CarriedInv'
  <1> SUFFICES ASSUME TypeOK, CarriedInv, [Next]_vars PROVE CarriedInv'
    OBVIOUS
  <1> USE DEF TypeOK, Sessions, Accounts, NoSession, Account, LocalSession, CarriedInv,
              store, local
  <1>1. CASE UNCHANGED vars
    BY <1>1 DEF vars
  <1>2. ASSUME NEW p \in Procs, Command(p) PROVE CarriedInv'
    <2>1. CASE Begin(p) BY AdminIsARole, <2>1 DEF Begin, Goto
    <2>2. CASE BeginApply(p) BY AdminIsARole, <2>2 DEF BeginApply, Goto
    <2>3. CASE GiveUp(p) BY AdminIsARole, <2>3 DEF GiveUp, Return
    <2>4. CASE LoginMode(p) BY AdminIsARole, <2>4 DEF LoginMode, Return, Goto
    <2>5. CASE Verify(p) BY AdminIsARole, <2>5 DEF Verify, Goto
    <2>6. CASE SetupFirstUser(p) BY AdminIsARole, <2>6 DEF SetupFirstUser, Goto
    <2>7. CASE LoginLock(p) BY AdminIsARole, <2>7 DEF LoginLock, Return, Goto
    <2>8. CASE Install(p) BY AdminIsARole, <2>8 DEF Install, Cas, Return
    <2>9. CASE LogoutMode(p) BY AdminIsARole, <2>9 DEF LogoutMode, Return, Goto
    <2>10. CASE Clear(p)
      <3>1. seq' >= seq /\ (seq = entry[p] => seq' = seq + 1)
        BY <2>10 DEF Clear, Cas
      <3>2. \A q \in Procs : entry'[q] = IF seq = entry[p] /\ q = p THEN seq + 1
                              ELSE IF q = p THEN 0 ELSE entry[q]
        BY <2>10 DEF Clear, Return
      <3>3. \A q \in Procs : entry'[q] <= seq'
        BY <2>10, <3>1, <3>2 DEF Clear, Cas
      <3>4. \A q \in Procs : fresh'[q] = IF seq # entry[p] /\ q = p THEN NoSession ELSE fresh[q]
        BY <2>10 DEF Clear, Return
      <3>5. \A q \in Procs : pc'[q] = IF q # p THEN pc[q]
                                     ELSE IF seq = entry[p] THEN "lock" ELSE "idle"
        BY <2>10 DEF Clear, Return, Goto
      <3>6. seq = entry[p] => op' = op
        BY <2>10 DEF Clear
      <3>7. \A q \in Procs \ {p} : op'[q] = op[q]
        BY <2>10 DEF Clear, Return
      <3>8. op[p] = "logout"
        BY <2>10 DEF Clear
      <3>9. pc'[p] # "clear"
        BY <2>10 DEF Clear, Return, Goto
      <3> QED BY <3>3, <3>4, <3>5, <3>6, <3>7, <3>8, <3>9
    <2>11. CASE LogoutLock(p) BY AdminIsARole, <2>11 DEF LogoutLock, Return, Goto
    <2>12. CASE LogoutRebind(p) BY AdminIsARole, <2>12 DEF LogoutRebind, RebindLocal, Return
    <2>13. CASE Read(p) BY AdminIsARole, <2>13 DEF Read, Goto
    <2>14. CASE Settle(p)
      BY AdminIsARole, <2>14 DEF Settle, SettleSlot, Confirmed, Answer, Stale, SameBinding,
         Goto, Return
    <2>15. CASE ChangePassword(p) BY AdminIsARole, <2>15 DEF ChangePassword, Goto
    <2>16. CASE Rotate(p) BY AdminIsARole, <2>16 DEF Rotate, SameBinding, Return
    <2>17. CASE ApplyLock(p) BY AdminIsARole, <2>17 DEF ApplyLock, Goto
    <2>18. CASE Save(p) BY AdminIsARole, <2>18 DEF Save, Wanted, Goto
    <2>19. CASE SaveLost(p) BY AdminIsARole, <2>19 DEF SaveLost, Wanted, Return
    <2>20. CASE Follow(p) BY AdminIsARole, <2>20 DEF Follow, ApplyMode, RebindLocal, Return
    <2>21. CASE AutologinLock(p) BY AdminIsARole, <2>21 DEF AutologinLock, Goto
    <2>22. CASE AutologinSave(p) BY AdminIsARole, <2>22 DEF AutologinSave, Return
    <2> QED BY <1>2, <2>1, <2>2, <2>3, <2>4, <2>5, <2>6, <2>7, <2>8, <2>9, <2>10, <2>11,
               <2>12, <2>13, <2>14, <2>15, <2>16, <2>17, <2>18, <2>19, <2>20, <2>21, <2>22
                           DEF Command
  <1>3. ASSUME Elsewhere PROVE CarriedInv'
    BY AdminIsARole, <1>3 DEF Elsewhere, Rekey, Delete, Create
  <1> QED BY <1>1, <1>2, <1>3 DEF Next

\* The slot changes its binding only with its sequence number.
LEMMA BindingKept ==
  TypeOK /\ CarriedInv /\ UnmovedSlotKeepsItsBinding /\ [Next]_vars
  => UnmovedSlotKeepsItsBinding'
  <1> SUFFICES ASSUME TypeOK, CarriedInv, UnmovedSlotKeepsItsBinding, [Next]_vars
               PROVE  UnmovedSlotKeepsItsBinding'
    OBVIOUS
  <1> USE DEF TypeOK, Sessions, Accounts, NoSession, CarriedInv, UnmovedSlotKeepsItsBinding,
              Stale, SameBinding, store, local
  <1>1. CASE UNCHANGED vars
    BY <1>1 DEF vars
  <1>2. ASSUME NEW p \in Procs, Command(p) PROVE UnmovedSlotKeepsItsBinding'
    <2>1. CASE Begin(p) BY <2>1 DEF Begin, Goto
    <2>2. CASE BeginApply(p) BY <2>2 DEF BeginApply, Goto
    <2>3. CASE GiveUp(p) BY <2>3 DEF GiveUp, Return
    <2>4. CASE LoginMode(p) BY <2>4 DEF LoginMode, Return, Goto
    <2>5. CASE Verify(p) BY <2>5 DEF Verify, Goto
    <2>6. CASE SetupFirstUser(p) BY <2>6 DEF SetupFirstUser, Goto
    <2>7. CASE LoginLock(p) BY <2>7 DEF LoginLock, Return, Goto
    <2>8. CASE Install(p) BY <2>8 DEF Install, Cas, Return
    <2>9. CASE LogoutMode(p) BY <2>9 DEF LogoutMode, Return, Goto
    <2>10. CASE Clear(p) BY <2>10 DEF Clear, Cas, Return, Goto
    <2>11. CASE LogoutLock(p) BY <2>11 DEF LogoutLock, Return, Goto
    <2>12. CASE LogoutRebind(p) BY <2>12 DEF LogoutRebind, RebindLocal, Return
    <2>13. CASE Read(p) BY <2>13 DEF Read, Goto
    <2>14. CASE Settle(p)
      BY <2>14 DEF Settle, SettleSlot, Confirmed, Answer, Stale, SameBinding, Goto, Return
    <2>15. CASE ChangePassword(p) BY <2>15 DEF ChangePassword, Goto
    <2>16. CASE Rotate(p) BY <2>16 DEF Rotate, SameBinding, Return
    <2>17. CASE ApplyLock(p) BY <2>17 DEF ApplyLock, Goto
    <2>18. CASE Save(p) BY <2>18 DEF Save, Wanted, Goto
    <2>19. CASE SaveLost(p) BY <2>19 DEF SaveLost, Wanted, Return
    <2>20. CASE Follow(p) BY <2>20 DEF Follow, ApplyMode, RebindLocal, Return
    <2>21. CASE AutologinLock(p) BY <2>21 DEF AutologinLock, Goto
    <2>22. CASE AutologinSave(p) BY <2>22 DEF AutologinSave, Return
    <2> QED BY <1>2, <2>1, <2>2, <2>3, <2>4, <2>5, <2>6, <2>7, <2>8, <2>9, <2>10, <2>11,
               <2>12, <2>13, <2>14, <2>15, <2>16, <2>17, <2>18, <2>19, <2>20, <2>21, <2>22
                           DEF Command
  <1>3. ASSUME Elsewhere PROVE UnmovedSlotKeepsItsBinding'
    BY <1>3 DEF Elsewhere, Rekey, Delete, Create
  <1> QED BY <1>1, <1>2, <1>3 DEF Next

\* No slot write but a follow puts a local session in place or takes it away
\* while the settings stand still.
LEMMA ModeKept ==
  TypeOK /\ LockInv /\ HeldInv /\ CarriedInv /\ UnmovedSlotKeepsItsBinding /\ ModeIsFollowed
    /\ FollowInv /\ ClearInv /\ SettleInv /\ [Next]_vars
  => ModeIsFollowed'
  <1> SUFFICES ASSUME TypeOK, LockInv, HeldInv, CarriedInv, UnmovedSlotKeepsItsBinding,
                      ModeIsFollowed, FollowInv, ClearInv, SettleInv, [Next]_vars
               PROVE  ModeIsFollowed'
    OBVIOUS
  <1> USE DEF TypeOK, ModeIsFollowed, store, local
  <1>1. CASE UNCHANGED vars
    BY <1>1 DEF vars
  <1>2. ASSUME NEW p \in Procs, Command(p) PROVE ModeIsFollowed'
    <2>1. CASE Begin(p) BY <2>1 DEF Begin, Goto
    <2>2. CASE BeginApply(p) BY <2>2 DEF BeginApply, Goto
    <2>3. CASE GiveUp(p) BY <2>3 DEF GiveUp, Return
    <2>4. CASE LoginMode(p) BY <2>4 DEF LoginMode, Return, Goto
    <2>5. CASE Verify(p) BY <2>5 DEF Verify, Goto
    <2>6. CASE SetupFirstUser(p) BY <2>6 DEF SetupFirstUser, Goto
    <2>7. CASE LoginLock(p) BY <2>7 DEF LoginLock, Return, Goto
    <2>8. CASE Install(p)
      BY <2>8 DEF Install, Cas, Return, Sessions, Accounts, NoSession, LocalSession,
         Settings, LockInv, HeldInv, CarriedInv
    <2>9. CASE LogoutMode(p) BY <2>9 DEF LogoutMode, Return, Goto
    <2>10. CASE Clear(p)
      <3>1. CASE seq # entry[p]
        BY <2>10, <3>1 DEF Clear, Cas, Return
      <3>2. CASE seq = entry[p]
        <4>1. /\ slot' = NoSession /\ seq' = seq + 1 /\ UNCHANGED <<config, adrift, conf, fresh>>
              /\ pc'[p] = "lock" /\ pc[p] = "clear"
              /\ \A q \in Procs \ {p} : entry'[q] = entry[q] /\ pc'[q] = pc[q]
          BY <2>10, <3>2 DEF Clear, Cas, Goto
        <4> QED BY <4>1, <3>2 DEF ClearInv, Moves, Stale, NoSession
      <3> QED BY <3>1, <3>2
    <2>11. CASE LogoutLock(p) BY <2>11 DEF LogoutLock, Return, Goto
    <2>12. CASE LogoutRebind(p)
      BY <2>12 DEF LogoutRebind, RebindLocal, Return, Sessions, Accounts, NoSession,
         LocalSession, Settings, LockInv, HeldInv, CarriedInv
    <2>13. CASE Read(p)
      BY <2>13 DEF Read, Goto, Sessions, Accounts, NoSession, LocalSession, Settings,
         LockInv, HeldInv, CarriedInv
    <2>14. CASE Settle(p)
      BY <2>14 DEF Settle, SettleSlot, Confirmed, Answer, Stale, SameBinding, Goto, Return,
         Sessions, Accounts, NoSession, LocalSession, Settings, LockInv, HeldInv, CarriedInv,
         SettleInv, Moves
    <2>15. CASE ChangePassword(p) BY <2>15 DEF ChangePassword, Goto
    <2>16. CASE Rotate(p)
      BY <2>16 DEF Rotate, SameBinding, Return, Sessions, Accounts, NoSession, LocalSession,
         Settings, LockInv, HeldInv, CarriedInv
    <2>17. CASE ApplyLock(p) BY <2>17 DEF ApplyLock, Goto
    <2>18. CASE Save(p)
      BY <2>18 DEF Save, Wanted, Goto, Sessions, Accounts, NoSession, LocalSession,
         Settings, LockInv, HeldInv, CarriedInv
    <2>19. CASE SaveLost(p)
      BY <2>19 DEF SaveLost, Wanted, Return, Sessions, Accounts, NoSession, LocalSession,
         Settings, LockInv, HeldInv, CarriedInv
    <2>20. CASE Follow(p)
      BY <2>20 DEF Follow, ApplyMode, RebindLocal, Return, Sessions, Accounts, NoSession,
         LocalSession, Settings, LockInv, HeldInv, CarriedInv, FollowInv
    <2>21. CASE AutologinLock(p) BY <2>21 DEF AutologinLock, Goto
    <2>22. CASE AutologinSave(p)
      BY <2>22 DEF AutologinSave, Return, Sessions, Accounts, NoSession, LocalSession,
         Settings, LockInv, HeldInv, CarriedInv
    <2> QED BY <1>2, <2>1, <2>2, <2>3, <2>4, <2>5, <2>6, <2>7, <2>8, <2>9, <2>10, <2>11,
               <2>12, <2>13, <2>14, <2>15, <2>16, <2>17, <2>18, <2>19, <2>20, <2>21, <2>22
                           DEF Command
  <1>3. ASSUME Elsewhere PROVE ModeIsFollowed'
    BY <1>3 DEF Elsewhere, Rekey, Delete, Create
  <1> QED BY <1>1, <1>2, <1>3 DEF Next

\* Between the save and the follow, no local session comes up.
LEMMA FollowKept ==
  TypeOK /\ LockInv /\ CarriedInv /\ ModeIsFollowed /\ FollowInv /\ [Next]_vars
  => FollowInv'
  <1> SUFFICES ASSUME TypeOK, LockInv, CarriedInv, ModeIsFollowed, FollowInv, [Next]_vars
               PROVE  FollowInv'
    OBVIOUS
  <1> USE DEF TypeOK, ModeIsFollowed, FollowInv, store, local
  <1>1. CASE UNCHANGED vars
    BY <1>1 DEF vars
  <1>2. ASSUME NEW p \in Procs, Command(p) PROVE FollowInv'
    <2>1. CASE Begin(p) BY <2>1 DEF Begin, Goto
    <2>2. CASE BeginApply(p) BY <2>2 DEF BeginApply, Goto
    <2>3. CASE GiveUp(p) BY <2>3 DEF GiveUp, Return
    <2>4. CASE LoginMode(p) BY <2>4 DEF LoginMode, Return, Goto
    <2>5. CASE Verify(p) BY <2>5 DEF Verify, Goto
    <2>6. CASE SetupFirstUser(p) BY <2>6 DEF SetupFirstUser, Goto
    <2>7. CASE LoginLock(p) BY <2>7 DEF LoginLock, Return, Goto
    <2>8. CASE Install(p)
      BY <2>8 DEF Install, Cas, Return, Sessions, Accounts, NoSession, LocalSession,
         Settings, LockInv, HeldInv, CarriedInv
    <2>9. CASE LogoutMode(p) BY <2>9 DEF LogoutMode, Return, Goto
    <2>10. CASE Clear(p)
      <3>1. CASE seq # entry[p]
        BY <2>10, <3>1 DEF Clear, Cas, Return
      <3>2. CASE seq = entry[p]
        <4>1. /\ slot' = NoSession /\ seq' = seq + 1 /\ UNCHANGED <<config, adrift, conf, fresh>>
              /\ pc'[p] = "lock" /\ pc[p] = "clear"
              /\ \A q \in Procs \ {p} : entry'[q] = entry[q] /\ pc'[q] = pc[q]
          BY <2>10, <3>2 DEF Clear, Cas, Goto
        <4> QED BY <4>1, <3>2 DEF NoSession
      <3> QED BY <3>1, <3>2
    <2>11. CASE LogoutLock(p) BY <2>11 DEF LogoutLock, Return, Goto
    <2>12. CASE LogoutRebind(p)
      BY <2>12 DEF LogoutRebind, RebindLocal, Return, Sessions, Accounts, NoSession,
         LocalSession, Settings, LockInv, HeldInv, CarriedInv
    <2>13. CASE Read(p)
      BY <2>13 DEF Read, Goto, Sessions, Accounts, NoSession, LocalSession, Settings,
         LockInv, HeldInv, CarriedInv
    <2>14. CASE Settle(p)
      BY <2>14 DEF Settle, SettleSlot, Confirmed, Answer, Stale, SameBinding, Goto, Return,
         Sessions, Accounts, NoSession, LocalSession, Settings, LockInv, HeldInv, CarriedInv
    <2>15. CASE ChangePassword(p) BY <2>15 DEF ChangePassword, Goto
    <2>16. CASE Rotate(p)
      BY <2>16 DEF Rotate, SameBinding, Return, Sessions, Accounts, NoSession, LocalSession,
         Settings, LockInv, HeldInv, CarriedInv
    <2>17. CASE ApplyLock(p) BY <2>17 DEF ApplyLock, Goto
    <2>18. CASE Save(p)
      BY <2>18 DEF Save, Wanted, Goto, Sessions, Accounts, NoSession, LocalSession,
         Settings, LockInv, HeldInv, CarriedInv
    <2>19. CASE SaveLost(p)
      BY <2>19 DEF SaveLost, Wanted, Return, Sessions, Accounts, NoSession, LocalSession,
         Settings, LockInv, HeldInv, CarriedInv
    <2>20. CASE Follow(p)
      BY <2>20 DEF Follow, ApplyMode, RebindLocal, Return, Sessions, Accounts, NoSession,
         LocalSession, Settings, LockInv, HeldInv, CarriedInv
    <2>21. CASE AutologinLock(p) BY <2>21 DEF AutologinLock, Goto
    <2>22. CASE AutologinSave(p)
      BY <2>22 DEF AutologinSave, Return, Sessions, Accounts, NoSession, LocalSession,
         Settings, LockInv, HeldInv, CarriedInv
    <2> QED BY <1>2, <2>1, <2>2, <2>3, <2>4, <2>5, <2>6, <2>7, <2>8, <2>9, <2>10, <2>11,
               <2>12, <2>13, <2>14, <2>15, <2>16, <2>17, <2>18, <2>19, <2>20, <2>21, <2>22
                           DEF Command
  <1>3. ASSUME Elsewhere PROVE FollowInv'
    BY <1>3 DEF Elsewhere, Rekey, Delete, Create
  <1> QED BY <1>1, <1>2, <1>3 DEF Next

\* A mode that comes on moves the slot, or is about to.
LEMMA ClearKept ==
  TypeOK /\ LockInv /\ HeldInv /\ CarriedInv /\ ModeIsFollowed /\ ClearInv /\ [Next]_vars
  => ClearInv'
  <1> SUFFICES ASSUME TypeOK, LockInv, HeldInv, CarriedInv, ModeIsFollowed, ClearInv,
                      [Next]_vars
               PROVE  ClearInv'
    OBVIOUS
  <1> USE DEF TypeOK, ModeIsFollowed, ClearInv, Stale, Moves, store, local
  <1>1. CASE UNCHANGED vars
    BY <1>1 DEF vars
  <1>2. ASSUME NEW p \in Procs, Command(p) PROVE ClearInv'
    <2>1. CASE Begin(p) BY <2>1 DEF Begin, Goto
    <2>2. CASE BeginApply(p) BY <2>2 DEF BeginApply, Goto
    <2>3. CASE GiveUp(p) BY <2>3 DEF GiveUp, Return
    <2>4. CASE LoginMode(p) BY <2>4 DEF LoginMode, Return, Goto
    <2>5. CASE Verify(p) BY <2>5 DEF Verify, Goto
    <2>6. CASE SetupFirstUser(p) BY <2>6 DEF SetupFirstUser, Goto
    <2>7. CASE LoginLock(p) BY <2>7 DEF LoginLock, Return, Goto
    <2>8. CASE Install(p)
      BY <2>8 DEF Install, Cas, Return, Sessions, Accounts, NoSession, LocalSession,
         Settings, LockInv, HeldInv, CarriedInv
    <2>9. CASE LogoutMode(p) BY <2>9 DEF LogoutMode, Return, Goto
    <2>10. CASE Clear(p)
      <3>1. CASE seq # entry[p]
        BY <2>10, <3>1 DEF Clear, Cas, Return
      <3>2. CASE seq = entry[p]
        <4>1. /\ slot' = NoSession /\ seq' = seq + 1 /\ UNCHANGED <<config, adrift, conf, fresh>>
              /\ pc'[p] = "lock" /\ pc[p] = "clear"
              /\ \A q \in Procs \ {p} : entry'[q] = entry[q] /\ pc'[q] = pc[q]
          BY <2>10, <3>2 DEF Clear, Cas, Goto
        <4> QED BY <4>1, <3>2 DEF CarriedInv
      <3> QED BY <3>1, <3>2
    <2>11. CASE LogoutLock(p)
      <3>1. CASE Return(p)
        BY <2>11, <3>1 DEF LogoutLock, Return
      <3>2. CASE ~Return(p)
        <4>1. /\ \A q \in Procs \ {p} : pc'[q] = pc[q]
              /\ pc'[p] \notin {"settle", "follow", "clear"} /\ pc[p] # "follow"
          BY <2>11, <3>2 DEF LogoutLock, Goto
        <4>2. UNCHANGED <<slot, seq, config, adrift, fresh, entry>>
              /\ \A q \in Procs \ {p} : conf'[q] = conf[q]
          BY <2>11, <3>2 DEF LogoutLock
        <4>3. \A q \in Procs : Moves(q) => Moves(q)' /\ conf'[q] = conf[q]
          BY <4>1, <4>2
        <4> HIDE DEF Moves
        <4> QED BY <4>1, <4>2, <4>3
      <3> QED BY <3>1, <3>2
    <2>12. CASE LogoutRebind(p)
      BY <2>12 DEF LogoutRebind, RebindLocal, Return, Sessions, Accounts, NoSession,
         LocalSession, Settings, LockInv, HeldInv, CarriedInv
    <2>13. CASE Read(p)
      BY <2>13 DEF Read, Goto, Sessions, Accounts, NoSession, LocalSession, Settings,
         LockInv, HeldInv, CarriedInv
    <2>14. CASE Settle(p)
      <3>1. \A q \in Procs \ {p} : pc'[q] = pc[q] /\ entry'[q] = entry[q] /\ conf'[q] = conf[q]
        BY <2>14 DEF Settle, Return, Goto
      <3>2. pc'[p] # "clear" /\ pc[p] # "follow"
        BY <2>14 DEF Settle, Return, Goto
      <3>3. seq' = seq \/ seq' = seq + 1
        BY <2>14 DEF Settle, SettleSlot
      <3>4. UNCHANGED <<config, adrift>>
        BY <2>14 DEF Settle
      <3>5. CASE seq' = seq
        <4>1. \A q \in Procs : Moves(q) => Moves(q)' /\ conf'[q] = conf[q]
          BY <3>1, <3>2, <3>4
        <4> HIDE DEF Moves
        <4> QED BY <3>1, <3>2, <3>4, <3>5, <4>1
      <3>6. CASE seq' = seq + 1
        <4>1. \A q \in Procs : pc'[q] = "clear" => entry'[q] # seq'
          BY <3>1, <3>2, <3>6 DEF CarriedInv
        <4> QED BY <4>1
      <3> QED BY <3>3, <3>5, <3>6
    <2>15. CASE ChangePassword(p) BY <2>15 DEF ChangePassword, Goto
    <2>16. CASE Rotate(p)
      BY <2>16 DEF Rotate, SameBinding, Return, Sessions, Accounts, NoSession, LocalSession,
         Settings, LockInv, HeldInv, CarriedInv
    <2>17. CASE ApplyLock(p) BY <2>17 DEF ApplyLock, Goto
    <2>18. CASE Save(p)
      BY <2>18 DEF Save, Wanted, Goto, Sessions, Accounts, NoSession, LocalSession,
         Settings, LockInv, HeldInv, CarriedInv
    <2>19. CASE SaveLost(p)
      BY <2>19 DEF SaveLost, Wanted, Return, Sessions, Accounts, NoSession, LocalSession,
         Settings, LockInv, HeldInv, CarriedInv
    <2>20. CASE Follow(p)
      BY <2>20 DEF Follow, ApplyMode, RebindLocal, Return, Sessions, Accounts, NoSession,
         LocalSession, Settings, LockInv, HeldInv, CarriedInv
    <2>21. CASE AutologinLock(p) BY <2>21 DEF AutologinLock, Goto
    <2>22. CASE AutologinSave(p)
      BY <2>22 DEF AutologinSave, Return, Sessions, Accounts, NoSession, LocalSession,
         Settings, LockInv, HeldInv, CarriedInv
    <2> QED BY <1>2, <2>1, <2>2, <2>3, <2>4, <2>5, <2>6, <2>7, <2>8, <2>9, <2>10, <2>11,
               <2>12, <2>13, <2>14, <2>15, <2>16, <2>17, <2>18, <2>19, <2>20, <2>21, <2>22
                           DEF Command
  <1>3. ASSUME Elsewhere PROVE ClearInv'
    BY <1>3 DEF Elsewhere, Rekey, Delete, Create
  <1> QED BY <1>1, <1>2, <1>3 DEF Next

\* A mode that changes under a check moves the slot, or is about to.
LEMMA SettleKept ==
  TypeOK /\ LockInv /\ HeldInv /\ CarriedInv /\ UnmovedSlotKeepsItsBinding /\ ModeIsFollowed
    /\ FollowInv /\ SettleInv /\ [Next]_vars
  => SettleInv'
  <1> SUFFICES ASSUME TypeOK, LockInv, HeldInv, CarriedInv, UnmovedSlotKeepsItsBinding,
                      ModeIsFollowed, FollowInv, SettleInv, [Next]_vars
               PROVE  SettleInv'
    OBVIOUS
  <1> USE DEF TypeOK, SettleInv, Stale, Moves, store, local
  <1>1. CASE UNCHANGED vars
    BY <1>1 DEF vars
  <1>2. ASSUME NEW p \in Procs, Command(p) PROVE SettleInv'
    <2>1. CASE Begin(p) BY <2>1 DEF Begin, Goto
    <2>2. CASE BeginApply(p) BY <2>2 DEF BeginApply, Goto
    <2>3. CASE GiveUp(p) BY <2>3 DEF GiveUp, Return
    <2>4. CASE LoginMode(p)
      <3>1. CASE Return(p)
        BY <2>4, <3>1 DEF LoginMode, Return
      <3>2. CASE ~Return(p)
        <4>1. /\ \A q \in Procs \ {p} : pc'[q] = pc[q]
              /\ pc'[p] \notin {"settle", "follow", "clear"} /\ pc[p] # "follow"
          BY <2>4, <3>2 DEF LoginMode, Goto
        <4>2. UNCHANGED <<slot, seq, config, adrift, fresh, entry>>
              /\ \A q \in Procs \ {p} : conf'[q] = conf[q]
          BY <2>4, <3>2 DEF LoginMode
        <4>3. \A q \in Procs : Moves(q) => Moves(q)' /\ conf'[q] = conf[q]
          BY <4>1, <4>2
        <4> HIDE DEF Moves
        <4> QED BY <4>1, <4>2, <4>3
      <3> QED BY <3>1, <3>2
    <2>5. CASE Verify(p) BY <2>5 DEF Verify, Goto
    <2>6. CASE SetupFirstUser(p) BY <2>6 DEF SetupFirstUser, Goto
    <2>7. CASE LoginLock(p)
      <3>1. CASE Return(p)
        BY <2>7, <3>1 DEF LoginLock, Return
      <3>2. CASE ~Return(p)
        <4>1. /\ \A q \in Procs \ {p} : pc'[q] = pc[q]
              /\ pc'[p] \notin {"settle", "follow", "clear"} /\ pc[p] # "follow"
          BY <2>7, <3>2 DEF LoginLock, Goto
        <4>2. UNCHANGED <<slot, seq, config, adrift, fresh, entry>>
              /\ \A q \in Procs \ {p} : conf'[q] = conf[q]
          BY <2>7, <3>2 DEF LoginLock
        <4>3. \A q \in Procs : Moves(q) => Moves(q)' /\ conf'[q] = conf[q]
          BY <4>1, <4>2
        <4> HIDE DEF Moves
        <4> QED BY <4>1, <4>2, <4>3
      <3> QED BY <3>1, <3>2
    <2>8. CASE Install(p)
      BY <2>8 DEF Install, Cas, Return, Sessions, Accounts, NoSession, LocalSession,
         Settings, LockInv, HeldInv, CarriedInv
    <2>9. CASE LogoutMode(p)
      <3>1. CASE Return(p)
        BY <2>9, <3>1 DEF LogoutMode, Return
      <3>2. CASE ~Return(p)
        <4>1. /\ \A q \in Procs \ {p} : pc'[q] = pc[q]
              /\ pc'[p] \notin {"settle", "follow"} /\ pc[p] # "follow"
          BY <2>9, <3>2 DEF LogoutMode, Goto
        <4>2. UNCHANGED <<slot, seq, config, adrift, fresh, entry>>
              /\ \A q \in Procs \ {p} : conf'[q] = conf[q]
          BY <2>9, <3>2 DEF LogoutMode
        <4>3. \A q \in Procs : Moves(q) => Moves(q)' /\ conf'[q] = conf[q]
          BY <4>1, <4>2
        <4> HIDE DEF Moves
        <4> QED BY <4>1, <4>2, <4>3
      <3> QED BY <3>1, <3>2
    <2>10. CASE Clear(p)
      <3>1. CASE seq # entry[p]
        BY <2>10, <3>1 DEF Clear, Cas, Return
      <3>2. CASE seq = entry[p]
        <4>1. /\ slot' = NoSession /\ seq' = seq + 1 /\ UNCHANGED <<config, adrift, conf, fresh>>
              /\ pc'[p] = "lock" /\ pc[p] = "clear"
              /\ \A q \in Procs \ {p} : entry'[q] = entry[q] /\ pc'[q] = pc[q]
          BY <2>10, <3>2 DEF Clear, Cas, Goto
        <4> QED BY <4>1, <3>2 DEF CarriedInv
      <3> QED BY <3>1, <3>2
    <2>11. CASE LogoutLock(p)
      <3>1. CASE Return(p)
        BY <2>11, <3>1 DEF LogoutLock, Return
      <3>2. CASE ~Return(p)
        <4>1. /\ \A q \in Procs \ {p} : pc'[q] = pc[q]
              /\ pc'[p] \notin {"settle", "follow", "clear"} /\ pc[p] # "follow"
          BY <2>11, <3>2 DEF LogoutLock, Goto
        <4>2. UNCHANGED <<slot, seq, config, adrift, fresh, entry>>
              /\ \A q \in Procs \ {p} : conf'[q] = conf[q]
          BY <2>11, <3>2 DEF LogoutLock
        <4>3. \A q \in Procs : Moves(q) => Moves(q)' /\ conf'[q] = conf[q]
          BY <4>1, <4>2
        <4> HIDE DEF Moves
        <4> QED BY <4>1, <4>2, <4>3
      <3> QED BY <3>1, <3>2
    <2>12. CASE LogoutRebind(p)
      BY <2>12 DEF LogoutRebind, RebindLocal, Return, Sessions, Accounts, NoSession,
         LocalSession, Settings, LockInv, HeldInv, CarriedInv
    <2>13. CASE Read(p)
      BY <2>13 DEF Read, Goto, Sessions, Accounts, NoSession, LocalSession, Settings,
         LockInv, HeldInv, CarriedInv, ModeIsFollowed, FollowInv, UnmovedSlotKeepsItsBinding,
         SameBinding, Account
    <2>14. CASE Settle(p)
      <3>1. /\ \A q \in Procs \ {p} : UNCHANGED <<pc[q], entry[q], fresh[q], conf[q]>>
            /\ pc[p] = "settle" /\ pc'[p] \notin {"settle", "follow"}
            /\ UNCHANGED <<config, adrift>>
        BY <2>14 DEF Settle, Return, Goto
      <3>2. \/ seq' = seq + 1
            \/ seq' = seq /\ (slot'.kind = "local" => slot.kind = "local")
        BY <2>14 DEF Settle, SettleSlot, Confirmed, SameBinding
      <3>3. CASE seq' = seq + 1
        BY <3>1, <3>3 DEF CarriedInv
      <3>4. CASE seq' = seq /\ (slot'.kind = "local" => slot.kind = "local")
        <4>1. \A q \in Procs : Moves(q) => Moves(q)'
          BY <3>1
        <4> HIDE DEF Moves
        <4> QED BY <3>1, <3>4, <4>1
      <3> QED BY <3>2, <3>3, <3>4
    <2>15. CASE ChangePassword(p) BY <2>15 DEF ChangePassword, Goto
    <2>16. CASE Rotate(p)
      BY <2>16 DEF Rotate, SameBinding, Return, Sessions, Accounts, NoSession, LocalSession,
         Settings, LockInv, HeldInv, CarriedInv
    <2>17. CASE ApplyLock(p) BY <2>17 DEF ApplyLock, Goto
    <2>18. CASE Save(p)
      BY <2>18 DEF Save, Wanted, Goto, Sessions, Accounts, NoSession, LocalSession,
         Settings, LockInv, HeldInv, CarriedInv, ModeIsFollowed
    <2>19. CASE SaveLost(p)
      BY <2>19 DEF SaveLost, Wanted, Return, Sessions, Accounts, NoSession, LocalSession,
         Settings, LockInv, HeldInv, CarriedInv, ModeIsFollowed
    <2>20. CASE Follow(p)
      <3>1. /\ \A q \in Procs : pc'[q] # "follow"
            /\ \A q \in Procs \ {p} : UNCHANGED <<pc[q], entry[q], fresh[q]>>
            /\ pc'[p] = "idle" /\ pc[p] = "follow"
            /\ config' = config /\ adrift' = (adrift /\ seq' = seq)
        BY <2>20 DEF Follow, Return, LockInv
      <3>2. CASE seq' = seq + 1
        BY <3>1, <3>2 DEF CarriedInv
      <3>3. CASE UNCHANGED <<slot, seq>>
        <4>1. Moves(p) => slot.kind # "local"
          BY <2>20, <3>3 DEF Follow, ApplyMode, RebindLocal
        <4>2. \A q \in Procs : Moves(q) => q = p
          BY <2>20 DEF Follow, LockInv
        <4> HIDE DEF Moves
        <4> QED BY <3>1, <3>3, <4>1, <4>2
      <3> QED BY <2>20, <3>2, <3>3 DEF Follow, ApplyMode, RebindLocal
    <2>21. CASE AutologinLock(p) BY <2>21 DEF AutologinLock, Goto
    <2>22. CASE AutologinSave(p)
      BY <2>22 DEF AutologinSave, Return, Sessions, Accounts, NoSession, LocalSession,
         Settings, LockInv, HeldInv, CarriedInv
    <2> QED BY <1>2, <2>1, <2>2, <2>3, <2>4, <2>5, <2>6, <2>7, <2>8, <2>9, <2>10, <2>11,
               <2>12, <2>13, <2>14, <2>15, <2>16, <2>17, <2>18, <2>19, <2>20, <2>21, <2>22
                           DEF Command
  <1>3. ASSUME Elsewhere PROVE SettleInv'
    BY <1>3 DEF Elsewhere, Rekey, Delete, Create
  <1> QED BY <1>1, <1>2, <1>3 DEF Next

\* A session ends in a step that moves the slot.
LEMMA EndsMove ==
  ASSUME TypeOK, CarriedInv, NEW p \in Procs, Command(p), Ends
  PROVE  seq' = seq + 1
  <1> USE DEF TypeOK, CarriedInv, Ends, store, local
  <1>1. CASE Begin(p) BY <1>1 DEF Begin, Goto
  <1>2. CASE BeginApply(p) BY <1>2 DEF BeginApply, Goto
  <1>3. CASE GiveUp(p) BY <1>3 DEF GiveUp, Return
  <1>4. CASE LoginMode(p) BY <1>4 DEF LoginMode, Return, Goto
  <1>5. CASE Verify(p) BY <1>5 DEF Verify, Goto
  <1>6. CASE SetupFirstUser(p) BY <1>6 DEF SetupFirstUser, Goto
  <1>7. CASE LoginLock(p) BY <1>7 DEF LoginLock, Return, Goto
  <1>8. CASE Install(p) BY <1>8 DEF Install, Cas, Return, NoSession
  <1>9. CASE LogoutMode(p) BY <1>9 DEF LogoutMode, Return, Goto
  <1>10. CASE Clear(p) BY <1>10 DEF Clear, Cas, Return, Goto
  <1>11. CASE LogoutLock(p) BY <1>11 DEF LogoutLock, Return, Goto
  <1>12. CASE LogoutRebind(p)
    BY <1>12 DEF LogoutRebind, RebindLocal, Return, NoSession, LocalSession
  <1>13. CASE Read(p) BY <1>13 DEF Read, Goto
  <1>14. CASE Settle(p)
    BY <1>14 DEF Settle, SettleSlot, Confirmed, Answer, Stale, SameBinding, Goto, Return
  <1>15. CASE ChangePassword(p) BY <1>15 DEF ChangePassword, Goto
  <1>16. CASE Rotate(p) BY <1>16 DEF Rotate, SameBinding, Return, NoSession
  <1>17. CASE ApplyLock(p) BY <1>17 DEF ApplyLock, Goto
  <1>18. CASE Save(p) BY <1>18 DEF Save, Wanted, Goto
  <1>19. CASE SaveLost(p) BY <1>19 DEF SaveLost, Wanted, Return
  <1>20. CASE Follow(p)
    BY <1>20 DEF Follow, ApplyMode, RebindLocal, Return, NoSession, LocalSession
  <1>21. CASE AutologinLock(p) BY <1>21 DEF AutologinLock, Goto
  <1>22. CASE AutologinSave(p) BY <1>22 DEF AutologinSave, Return
  <1> QED BY <1>1, <1>2, <1>3, <1>4, <1>5, <1>6, <1>7, <1>8, <1>9, <1>10, <1>11, <1>12, <1>13,
             <1>14, <1>15, <1>16, <1>17, <1>18, <1>19, <1>20, <1>21, <1>22 DEF Command

\* An end moves the slot away from every entry.
LEMMA EndedKept == TypeOK /\ CarriedInv /\ EndedInv /\ [Next]_vars => EndedInv'
  <1> SUFFICES ASSUME TypeOK, CarriedInv, EndedInv, [Next]_vars PROVE EndedInv'
    OBVIOUS
  <1> USE DEF TypeOK, CarriedInv, EndedInv, Entering, InFlight, store, local
  <1>1. CASE UNCHANGED vars
    BY <1>1 DEF vars
  <1>2. ASSUME NEW p \in Procs, Command(p), Observe PROVE EndedInv'
    <2>1. CASE Begin(p) BY EndsMove, <1>2, <2>1 DEF Begin, Goto, Observe
    <2>2. CASE BeginApply(p) BY EndsMove, <1>2, <2>2 DEF BeginApply, Goto, Observe
    <2>3. CASE GiveUp(p) BY EndsMove, <1>2, <2>3 DEF GiveUp, Return, Observe
    <2>4. CASE LoginMode(p) BY EndsMove, <1>2, <2>4 DEF LoginMode, Return, Goto, Observe
    <2>5. CASE Verify(p) BY EndsMove, <1>2, <2>5 DEF Verify, Goto, Observe
    <2>6. CASE SetupFirstUser(p) BY EndsMove, <1>2, <2>6 DEF SetupFirstUser, Goto, Observe
    <2>7. CASE LoginLock(p) BY EndsMove, <1>2, <2>7 DEF LoginLock, Return, Goto, Observe
    <2>8. CASE Install(p) BY EndsMove, <1>2, <2>8 DEF Install, Cas, Return, Observe
    <2>9. CASE LogoutMode(p) BY EndsMove, <1>2, <2>9 DEF LogoutMode, Return, Goto, Observe
    <2>10. CASE Clear(p) BY EndsMove, <1>2, <2>10 DEF Clear, Cas, Return, Goto, Observe
    <2>11. CASE LogoutLock(p) BY EndsMove, <1>2, <2>11 DEF LogoutLock, Return, Goto, Observe
    <2>12. CASE LogoutRebind(p)
      BY EndsMove, <1>2, <2>12 DEF LogoutRebind, RebindLocal, Return, Observe
    <2>13. CASE Read(p) BY EndsMove, <1>2, <2>13 DEF Read, Goto, Observe
    <2>14. CASE Settle(p)
      <3>1. \A q \in Procs : Entering(q)' => q # p /\ Entering(q) /\ entry'[q] = entry[q]
        BY <2>14 DEF Settle, Return, Goto
      <3>2. seq' >= seq /\ (Ends => seq' = seq + 1)
        BY <1>2, <2>14, EndsMove DEF Settle, SettleSlot
      <3>3. ended' \subseteq IF Ends THEN Procs ELSE ended
        BY <1>2 DEF Observe
      <3>4. \A q \in Procs : entry[q] <= seq
        BY DEF CarriedInv
      <3> SUFFICES ASSUME NEW q \in ended', Entering(q)' PROVE entry'[q] < seq'
        OBVIOUS
      <3>5. q \in Procs /\ Entering(q) /\ entry'[q] = entry[q] /\ entry[q] \in Nat /\ seq' \in Nat
        BY <1>2, <2>14, <3>1 DEF Observe, Settle, SettleSlot
      <3> HIDE DEF Entering, CarriedInv
      <3>6. CASE Ends
        BY <3>2, <3>4, <3>5, <3>6
      <3>7. CASE ~Ends
        BY <3>2, <3>3, <3>5, <3>7
      <3> QED BY <3>6, <3>7
    <2>15. CASE ChangePassword(p) BY EndsMove, <1>2, <2>15 DEF ChangePassword, Goto, Observe
    <2>16. CASE Rotate(p) BY EndsMove, <1>2, <2>16 DEF Rotate, SameBinding, Return, Observe
    <2>17. CASE ApplyLock(p) BY EndsMove, <1>2, <2>17 DEF ApplyLock, Goto, Observe
    <2>18. CASE Save(p) BY EndsMove, <1>2, <2>18 DEF Save, Wanted, Goto, Observe
    <2>19. CASE SaveLost(p) BY EndsMove, <1>2, <2>19 DEF SaveLost, Wanted, Return, Observe
    <2>20. CASE Follow(p)
      BY EndsMove, <1>2, <2>20 DEF Follow, ApplyMode, RebindLocal, Return, Observe
    <2>21. CASE AutologinLock(p) BY EndsMove, <1>2, <2>21 DEF AutologinLock, Goto, Observe
    <2>22. CASE AutologinSave(p) BY EndsMove, <1>2, <2>22 DEF AutologinSave, Return, Observe
    <2> QED BY <1>2, <2>1, <2>2, <2>3, <2>4, <2>5, <2>6, <2>7, <2>8, <2>9, <2>10, <2>11,
               <2>12, <2>13, <2>14, <2>15, <2>16, <2>17, <2>18, <2>19, <2>20, <2>21, <2>22
                           DEF Command
  <1>3. ASSUME Elsewhere, Observe PROVE EndedInv'
    BY EndsMove, <1>3 DEF Elsewhere, Rekey, Delete, Create, Ends, Observe
  <1> QED BY <1>1, <1>2, <1>3 DEF Next

\* Epochs rise and ids are new.
LEMMA PastKept == TypeOK /\ CarriedInv /\ PastInv /\ [Next]_vars => PastInv'
  <1> SUFFICES ASSUME TypeOK, CarriedInv, PastInv, [Next]_vars PROVE PastInv'
    OBVIOUS
  <1> USE DEF TypeOK, Sessions, Accounts, NoSession, Account, LocalSession, PastInv, Past,
              store, local
  <1>1. CASE UNCHANGED vars
    BY <1>1 DEF vars
  <1>2. ASSUME NEW p \in Procs, Command(p) PROVE PastInv'
    <2>1. CASE Begin(p) BY BoundsAreNat, <2>1 DEF Begin, Goto
    <2>2. CASE BeginApply(p) BY BoundsAreNat, <2>2 DEF BeginApply, Goto
    <2>3. CASE GiveUp(p) BY BoundsAreNat, <2>3 DEF GiveUp, Return
    <2>4. CASE LoginMode(p) BY BoundsAreNat, <2>4 DEF LoginMode, Return, Goto
    <2>5. CASE Verify(p) BY BoundsAreNat, <2>5 DEF Verify, Goto
    <2>6. CASE SetupFirstUser(p) BY BoundsAreNat, <2>6 DEF SetupFirstUser, Goto
    <2>7. CASE LoginLock(p) BY BoundsAreNat, <2>7 DEF LoginLock, Return, Goto
    <2>8. CASE Install(p) BY BoundsAreNat, <2>8 DEF Install, Cas, Return, CarriedInv
    <2>9. CASE LogoutMode(p) BY BoundsAreNat, <2>9 DEF LogoutMode, Return, Goto
    <2>10. CASE Clear(p) BY BoundsAreNat, <2>10 DEF Clear, Cas, Return, Goto
    <2>11. CASE LogoutLock(p) BY BoundsAreNat, <2>11 DEF LogoutLock, Return, Goto
    <2>12. CASE LogoutRebind(p) BY BoundsAreNat, <2>12 DEF LogoutRebind, RebindLocal, Return
    <2>13. CASE Read(p) BY BoundsAreNat, <2>13 DEF Read, Goto
    <2>14. CASE Settle(p)
      <3>1. fresh' = [fresh EXCEPT ![p] = fresh'[p]] /\ fresh'[p] \in {fresh[p], slot, NoSession}
        BY <2>14 DEF Settle, Answer, Confirmed, Return
      <3>2. slot' \in {slot, fresh[p], NoSession}
        BY <2>14 DEF Settle, SettleSlot, Confirmed
      <3>3. \A q \in Procs : pc'[q] = "rotate" => q # p /\ pc[q] = "rotate"
        BY <2>14 DEF Settle, Return, Goto
      <3>4. UNCHANGED <<row, nextId>> /\ \A q \in Procs \ {p} : newEpoch'[q] = newEpoch[q]
        BY <2>14 DEF Settle, Return
      <3>5. Past(slot)' /\ (row' # NoSession => row'.id <= nextId')
        BY <3>2, <3>4
      <3>6. \A q \in Procs : Past(fresh[q])'
        BY <3>1, <3>4
      <3> QED BY <3>1, <3>3, <3>4, <3>5, <3>6
    <2>15. CASE ChangePassword(p) BY BoundsAreNat, <2>15 DEF ChangePassword, Goto
    <2>16. CASE Rotate(p) BY BoundsAreNat, <2>16 DEF Rotate, SameBinding, Return, CarriedInv
    <2>17. CASE ApplyLock(p) BY BoundsAreNat, <2>17 DEF ApplyLock, Goto
    <2>18. CASE Save(p) BY BoundsAreNat, <2>18 DEF Save, Wanted, Goto
    <2>19. CASE SaveLost(p) BY BoundsAreNat, <2>19 DEF SaveLost, Wanted, Return
    <2>20. CASE Follow(p) BY BoundsAreNat, <2>20 DEF Follow, ApplyMode, RebindLocal, Return
    <2>21. CASE AutologinLock(p) BY BoundsAreNat, <2>21 DEF AutologinLock, Goto
    <2>22. CASE AutologinSave(p) BY BoundsAreNat, <2>22 DEF AutologinSave, Return
    <2> QED BY <1>2, <2>1, <2>2, <2>3, <2>4, <2>5, <2>6, <2>7, <2>8, <2>9, <2>10, <2>11,
               <2>12, <2>13, <2>14, <2>15, <2>16, <2>17, <2>18, <2>19, <2>20, <2>21, <2>22
                           DEF Command
  <1>3. ASSUME Elsewhere PROVE PastInv'
    BY BoundsAreNat, <1>3 DEF Elsewhere, Rekey, Delete, Create
  <1> QED BY <1>1, <1>2, <1>3 DEF Next

\* A row that has left a binding does not come back to it.
LEMMA ReadKept ==
  TypeOK /\ CarriedInv /\ UnmovedSlotKeepsItsBinding /\ PastInv /\ ReadInv /\ [Next]_vars
  => ReadInv'
  <1> SUFFICES ASSUME TypeOK, CarriedInv, UnmovedSlotKeepsItsBinding, PastInv, ReadInv,
                      [Next]_vars
               PROVE  ReadInv'
    OBVIOUS
  <1> USE DEF TypeOK, Sessions, Accounts, NoSession, Account, LocalSession, PastInv, Past,
              store, local, ReadInv, CarriedInv, Stale, SameBinding
  <1>1. CASE UNCHANGED vars
    BY <1>1 DEF vars
  <1>2. ASSUME NEW p \in Procs, Command(p) PROVE ReadInv'
    <2>1. CASE Begin(p) BY BoundsAreNat, <2>1 DEF Begin, Goto
    <2>2. CASE BeginApply(p) BY BoundsAreNat, <2>2 DEF BeginApply, Goto
    <2>3. CASE GiveUp(p) BY BoundsAreNat, <2>3 DEF GiveUp, Return
    <2>4. CASE LoginMode(p) BY BoundsAreNat, <2>4 DEF LoginMode, Return, Goto
    <2>5. CASE Verify(p) BY BoundsAreNat, <2>5 DEF Verify, Goto
    <2>6. CASE SetupFirstUser(p) BY BoundsAreNat, <2>6 DEF SetupFirstUser, Goto
    <2>7. CASE LoginLock(p) BY BoundsAreNat, <2>7 DEF LoginLock, Return, Goto
    <2>8. CASE Install(p) BY BoundsAreNat, <2>8 DEF Install, Cas, Return
    <2>9. CASE LogoutMode(p) BY BoundsAreNat, <2>9 DEF LogoutMode, Return, Goto
    <2>10. CASE Clear(p) BY BoundsAreNat, <2>10 DEF Clear, Cas, Return, Goto
    <2>11. CASE LogoutLock(p) BY BoundsAreNat, <2>11 DEF LogoutLock, Return, Goto
    <2>12. CASE LogoutRebind(p) BY BoundsAreNat, <2>12 DEF LogoutRebind, RebindLocal, Return
    <2>13. CASE Read(p) BY BoundsAreNat, <2>13 DEF Read, Goto, UnmovedSlotKeepsItsBinding
    <2>14. CASE Settle(p)
      <3>1. /\ \A q \in Procs \ {p} : UNCHANGED <<pc[q], fresh[q], entry[q]>>
            /\ pc'[p] # "settle" /\ row' = row
        BY <2>14 DEF Settle, Return, Goto
      <3>2. \/ seq' = seq + 1
            \/ seq' = seq /\ (slot'.kind = "account" =>
                               slot.kind = "account" /\ slot'.id = slot.id /\ slot'.epoch = slot.epoch)
        BY <2>14 DEF Settle, SettleSlot, Confirmed
      <3> QED BY <3>1, <3>2
    <2>15. CASE ChangePassword(p) BY BoundsAreNat, <2>15 DEF ChangePassword, Goto
    <2>16. CASE Rotate(p) BY BoundsAreNat, <2>16 DEF Rotate, SameBinding, Return
    <2>17. CASE ApplyLock(p) BY BoundsAreNat, <2>17 DEF ApplyLock, Goto
    <2>18. CASE Save(p) BY BoundsAreNat, <2>18 DEF Save, Wanted, Goto
    <2>19. CASE SaveLost(p) BY BoundsAreNat, <2>19 DEF SaveLost, Wanted, Return
    <2>20. CASE Follow(p) BY BoundsAreNat, <2>20 DEF Follow, ApplyMode, RebindLocal, Return
    <2>21. CASE AutologinLock(p) BY BoundsAreNat, <2>21 DEF AutologinLock, Goto
    <2>22. CASE AutologinSave(p) BY BoundsAreNat, <2>22 DEF AutologinSave, Return
    <2> QED BY <1>2, <2>1, <2>2, <2>3, <2>4, <2>5, <2>6, <2>7, <2>8, <2>9, <2>10, <2>11,
               <2>12, <2>13, <2>14, <2>15, <2>16, <2>17, <2>18, <2>19, <2>20, <2>21, <2>22
                           DEF Command
  <1>3. ASSUME Elsewhere PROVE ReadInv'
    BY BoundsAreNat, <1>3 DEF Elsewhere, Rekey, Delete, Create
  <1> QED BY <1>1, <1>2, <1>3 DEF Next

\* A local session stands in the slot, and in what is read, with the mode's role.
LEMMA VouchedKept ==
  TypeOK /\ LockInv /\ HeldInv /\ CarriedInv /\ VouchedInv /\ [Next]_vars
  => VouchedInv'
  <1> SUFFICES ASSUME TypeOK, LockInv, HeldInv, CarriedInv, VouchedInv, [Next]_vars
               PROVE  VouchedInv'
    OBVIOUS
  <1> USE DEF TypeOK, Sessions, Accounts, NoSession, LocalSession, CarriedInv, VouchedInv,
              store, local
  <1>1. CASE UNCHANGED vars
    BY <1>1 DEF vars
  <1>2. ASSUME NEW p \in Procs, Command(p), Observe PROVE VouchedInv'
    <2>1. CASE Begin(p) BY <1>2, <2>1 DEF Begin, Goto, Observe
    <2>2. CASE BeginApply(p) BY <1>2, <2>2 DEF BeginApply, Goto, Observe
    <2>3. CASE GiveUp(p) BY <1>2, <2>3 DEF GiveUp, Return, Observe
    <2>4. CASE LoginMode(p)
      <3>1. CASE Return(p)
        BY <1>2, <2>4, <3>1 DEF LoginMode, Return, Observe
      <3>2. CASE ~Return(p)
        <4>1. /\ \A q \in Procs \ {p} : pc'[q] = pc[q]
              /\ pc'[p] \notin {"read", "settle", "idle"}
              /\ UNCHANGED <<slot, seq, fresh, entry>>
          BY <2>4, <3>2 DEF LoginMode, Goto
        <4>2. \A q \in Procs : pc'[q] \in {"read", "settle"} => vouched[q] \subseteq vouched'[q]
          BY <1>2, <4>1 DEF Observe
        <4> QED BY <4>1, <4>2
      <3> QED BY <3>1, <3>2
    <2>5. CASE Verify(p) BY <1>2, <2>5 DEF Verify, Goto, Observe
    <2>6. CASE SetupFirstUser(p) BY <1>2, <2>6 DEF SetupFirstUser, Goto, Observe
    <2>7. CASE LoginLock(p) BY <1>2, <2>7 DEF LoginLock, Return, Goto, Observe
    <2>8. CASE Install(p) BY <1>2, <2>8 DEF Install, Cas, Return, Observe
    <2>9. CASE LogoutMode(p)
      <3>1. CASE Return(p)
        BY <1>2, <2>9, <3>1 DEF LogoutMode, Return, Observe
      <3>2. CASE ~Return(p)
        <4>1. /\ \A q \in Procs \ {p} : pc'[q] = pc[q]
              /\ pc'[p] \notin {"read", "settle", "idle"}
              /\ UNCHANGED <<slot, seq, fresh, entry>>
          BY <2>9, <3>2 DEF LogoutMode, Goto
        <4>2. \A q \in Procs : pc'[q] \in {"read", "settle"} => vouched[q] \subseteq vouched'[q]
          BY <1>2, <4>1 DEF Observe
        <4> QED BY <4>1, <4>2
      <3> QED BY <3>1, <3>2
    <2>10. CASE Clear(p) BY <1>2, <2>10 DEF Clear, Cas, Return, Goto, Observe
    <2>11. CASE LogoutLock(p)
      <3>1. CASE Return(p)
        BY <1>2, <2>11, <3>1 DEF LogoutLock, Return, Observe
      <3>2. CASE ~Return(p)
        <4>1. /\ \A q \in Procs \ {p} : pc'[q] = pc[q]
              /\ pc'[p] \notin {"read", "settle", "idle"}
              /\ UNCHANGED <<slot, seq, fresh, entry>>
          BY <2>11, <3>2 DEF LogoutLock, Goto
        <4>2. \A q \in Procs : pc'[q] \in {"read", "settle"} => vouched[q] \subseteq vouched'[q]
          BY <1>2, <4>1 DEF Observe
        <4> QED BY <4>1, <4>2
      <3> QED BY <3>1, <3>2
    <2>12. CASE LogoutRebind(p)
      BY <1>2, <2>12 DEF LogoutRebind, RebindLocal, Return, HeldInv, Observe
    <2>13. CASE Read(p) BY <1>2, <2>13 DEF Read, Goto, Observe
    <2>14. CASE Settle(p)
      BY <1>2, <2>14 DEF Settle, SettleSlot, Confirmed, Answer, Stale, SameBinding, Goto,
         Return, Stale, Confirmed, SameBinding, Observe
    <2>15. CASE ChangePassword(p) BY <1>2, <2>15 DEF ChangePassword, Goto, Observe
    <2>16. CASE Rotate(p) BY <1>2, <2>16 DEF Rotate, SameBinding, Return, Observe
    <2>17. CASE ApplyLock(p) BY <1>2, <2>17 DEF ApplyLock, Goto, Observe
    <2>18. CASE Save(p) BY <1>2, <2>18 DEF Save, Wanted, Goto, Observe
    <2>19. CASE SaveLost(p) BY <1>2, <2>19 DEF SaveLost, Wanted, Return, Observe
    <2>20. CASE Follow(p) BY <1>2, <2>20 DEF Follow, ApplyMode, RebindLocal, Return, Observe
    <2>21. CASE AutologinLock(p) BY <1>2, <2>21 DEF AutologinLock, Goto, Observe
    <2>22. CASE AutologinSave(p) BY <1>2, <2>22 DEF AutologinSave, Return, Observe
    <2> QED BY <1>2, <2>1, <2>2, <2>3, <2>4, <2>5, <2>6, <2>7, <2>8, <2>9, <2>10, <2>11,
               <2>12, <2>13, <2>14, <2>15, <2>16, <2>17, <2>18, <2>19, <2>20, <2>21, <2>22
                           DEF Command
  <1>3. ASSUME Elsewhere, Observe PROVE VouchedInv'
    BY <1>3 DEF Elsewhere, Rekey, Delete, Create, Observe
  <1> QED BY <1>1, <1>2, <1>3 DEF Next

-----------------------------------------------------------------------------
IInv ==
    /\ TypeOK /\ LockInv /\ HeldInv /\ CarriedInv /\ UnmovedSlotKeepsItsBinding
    /\ ModeIsFollowed /\ FollowInv /\ ClearInv /\ SettleInv
    /\ EndedInv /\ PastInv /\ ReadInv /\ VouchedInv

LEMMA Initially == Init => IInv
  <1> SUFFICES ASSUME Init PROVE IInv
    OBVIOUS
  <1>1. row \in Accounts \cup {NoSession} /\ slot \in Sessions /\ config \in Settings
    <2>1. config \in Settings /\ config.role \in Roles
      BY DEF Init, Settings
    <2>2. row \in Accounts \cup {NoSession}
      BY AdminIsARole, BoundsAreNat, SomeShapes DEF Init
    <2> QED BY <2>1, <2>2, SomeShapes DEF Init
  <1>2. TypeOK
    BY <1>1, BoundsAreNat, SomeShapes DEF Init, TypeOK, Labels
  <1>3. LockInv /\ HeldInv /\ CarriedInv /\ UnmovedSlotKeepsItsBinding
    BY DEF Init, LockInv, HeldInv, CarriedInv, UnmovedSlotKeepsItsBinding
  <1>4. ModeIsFollowed
    BY DEF Init, ModeIsFollowed, LocalSession, Account, NoSession
  <1>5. FollowInv /\ ClearInv /\ SettleInv
    BY DEF Init, FollowInv, ClearInv, SettleInv
  <1>6. EndedInv /\ ReadInv /\ VouchedInv
    BY DEF Init, EndedInv, ReadInv, VouchedInv
  <1>7. PastInv
    BY BoundsAreNat DEF Init, PastInv, Past, LocalSession, Account, NoSession
  <1> QED BY <1>2, <1>3, <1>4, <1>5, <1>6, <1>7 DEF IInv

LEMMA Inductive == IInv /\ [Next]_vars => IInv'
  BY TypeKept, LockKept, HeldKept, CarriedKept, BindingKept, ModeKept, FollowKept, ClearKept,
     SettleKept, EndedKept, PastKept, ReadKept, VouchedKept DEF IInv

LEMMA InvariantHolds == Spec => []IInv
  <1> QED BY Initially, Inductive, PTL DEF Spec

\* Every variable of DesktopSession keeps its type.
THEOREM TypeCorrect == Spec => []TypeOK
  <1>1. IInv => TypeOK
    BY DEF IInv
  <1> QED BY <1>1, InvariantHolds, PTL

\* The session in the slot is the synthetic one, with the mode's role, exactly
\* while the stored mode is on, but between an apply's save and its re-bind.
THEOREM SlotFollowsTheMode == Spec => []ModeIsFollowed
  <1>1. IInv => ModeIsFollowed
    BY DEF IInv
  <1> QED BY <1>1, InvariantHolds, PTL

\* A check acts on what stood in the slot while it ran.
THEOREM ChecksAreOfTheSlot == Spec => []ChecksActOnTheSlot
  <1>1. ASSUME IInv, NEW p \in Procs, pc[p] = "settle", Answer(p).kind = "local"
        PROVE  Answer(p).role \in vouched[p]
    <2>1. CASE Stale(p) /\ Confirmed(p) # NoSession
      BY <1>1, <2>1 DEF IInv, TypeOK, CarriedInv, VouchedInv, Answer, Stale
    <2>2. CASE ~(Stale(p) /\ Confirmed(p) # NoSession)
      BY <1>1, <2>2 DEF IInv, VouchedInv, Answer, Confirmed, NoSession
    <2> QED BY <2>1, <2>2
  <1>2. IInv => ChecksActOnTheSlot
    BY <1>1 DEF IInv, ChecksActOnTheSlot, AnswerWasVouched
  <1> QED BY <1>2, InvariantHolds, PTL

\* A step that puts a login in place, or takes a session away, is about the
\* slot and the store as they are at that step.
LEMMA NothingIsUndone ==
  ASSUME IInv, [Next]_vars, NEW p \in Procs
  PROVE  /\ pc[p] = "install" /\ pc'[p] # "install" /\ slot' # slot => p \notin ended
         /\ pc[p] = "settle" /\ pc'[p] # "settle" /\ slot # NoSession /\ slot' = NoSession =>
                IF slot.kind = "account" THEN ~SameBinding(slot, row)
                ELSE ~config.disabled \/ adrift
  <1>1. ASSUME pc[p] = "install", pc'[p] # "install", slot' # slot
        PROVE  p \notin ended
    <2>1. Install(p)
      <3>1. CASE UNCHANGED vars
        BY <1>1, <3>1 DEF vars
      <3>2. CASE Elsewhere
        BY <1>1, <3>2 DEF Elsewhere
      <3>3. ASSUME NEW q \in Procs, Command(q) PROVE Install(p)
        <4> USE <1>1 DEF IInv, TypeOK, CarriedInv, local
        <4>1. CASE Begin(q) BY <4>1 DEF Begin, Goto
        <4>2. CASE BeginApply(q) BY <4>2 DEF BeginApply, Goto
        <4>3. CASE GiveUp(q) BY <4>3 DEF GiveUp, Return
        <4>4. CASE LoginMode(q) BY <4>4 DEF LoginMode, Return, Goto
        <4>5. CASE Verify(q) BY <4>5 DEF Verify, Goto
        <4>6. CASE SetupFirstUser(q) BY <4>6 DEF SetupFirstUser, Goto
        <4>7. CASE LoginLock(q) BY <4>7 DEF LoginLock, Return, Goto
        <4>8. CASE Install(q) BY <4>8 DEF Install, Return
        <4>9. CASE LogoutMode(q) BY <4>9 DEF LogoutMode, Return, Goto
        <4>10. CASE Clear(q) BY <4>10 DEF Clear, Return, Goto
        <4>11. CASE LogoutLock(q) BY <4>11 DEF LogoutLock, Return, Goto
        <4>12. CASE LogoutRebind(q) BY <4>12 DEF LogoutRebind, Return
        <4>13. CASE Read(q) BY <4>13 DEF Read, Goto
        <4>14. CASE Settle(q) BY <4>14 DEF Settle, Goto, Return
        <4>15. CASE ChangePassword(q) BY <4>15 DEF ChangePassword, Goto
        <4>16. CASE Rotate(q) BY <4>16 DEF Rotate, Return
        <4>17. CASE ApplyLock(q) BY <4>17 DEF ApplyLock, Goto
        <4>18. CASE Save(q) BY <4>18 DEF Save, Goto
        <4>19. CASE SaveLost(q) BY <4>19 DEF SaveLost, Return
        <4>20. CASE Follow(q) BY <4>20 DEF Follow, Return
        <4>21. CASE AutologinLock(q) BY <4>21 DEF AutologinLock, Goto
        <4>22. CASE AutologinSave(q) BY <4>22 DEF AutologinSave, Return
        <4> QED BY <3>3, <4>1, <4>2, <4>3, <4>4, <4>5, <4>6, <4>7, <4>8, <4>9, <4>10,
                   <4>11, <4>12, <4>13, <4>14, <4>15, <4>16, <4>17, <4>18, <4>19, <4>20,
                               <4>21, <4>22 DEF Command
      <3> QED BY <3>1, <3>2, <3>3 DEF Next
    <2>2. seq = entry[p]
      BY <1>1, <2>1 DEF Install, Cas
    <2> QED BY <1>1, <2>2 DEF IInv, TypeOK, EndedInv, Entering
  <1>2. ASSUME pc[p] = "settle", pc'[p] # "settle", slot # NoSession, slot' = NoSession
        PROVE  IF slot.kind = "account" THEN ~SameBinding(slot, row)
               ELSE ~config.disabled \/ adrift
    <2>1. Settle(p)
      <3>1. CASE UNCHANGED vars
        BY <1>2, <3>1 DEF vars
      <3>2. CASE Elsewhere
        BY <1>2, <3>2 DEF Elsewhere
      <3>3. ASSUME NEW q \in Procs, Command(q) PROVE Settle(p)
        <4> USE <1>2 DEF IInv, TypeOK, CarriedInv, local
        <4>1. CASE Begin(q) BY <4>1 DEF Begin, Goto
        <4>2. CASE BeginApply(q) BY <4>2 DEF BeginApply, Goto
        <4>3. CASE GiveUp(q) BY <4>3 DEF GiveUp, Return
        <4>4. CASE LoginMode(q) BY <4>4 DEF LoginMode, Return, Goto
        <4>5. CASE Verify(q) BY <4>5 DEF Verify, Goto
        <4>6. CASE SetupFirstUser(q) BY <4>6 DEF SetupFirstUser, Goto
        <4>7. CASE LoginLock(q) BY <4>7 DEF LoginLock, Return, Goto
        <4>8. CASE Install(q) BY <4>8 DEF Install, Return
        <4>9. CASE LogoutMode(q) BY <4>9 DEF LogoutMode, Return, Goto
        <4>10. CASE Clear(q) BY <4>10 DEF Clear, Return, Goto
        <4>11. CASE LogoutLock(q) BY <4>11 DEF LogoutLock, Return, Goto
        <4>12. CASE LogoutRebind(q) BY <4>12 DEF LogoutRebind, Return
        <4>13. CASE Read(q) BY <4>13 DEF Read, Goto
        <4>14. CASE Settle(q) BY <4>14 DEF Settle, Goto, Return
        <4>15. CASE ChangePassword(q) BY <4>15 DEF ChangePassword, Goto
        <4>16. CASE Rotate(q) BY <4>16 DEF Rotate, Return
        <4>17. CASE ApplyLock(q) BY <4>17 DEF ApplyLock, Goto
        <4>18. CASE Save(q) BY <4>18 DEF Save, Goto
        <4>19. CASE SaveLost(q) BY <4>19 DEF SaveLost, Return
        <4>20. CASE Follow(q) BY <4>20 DEF Follow, Return
        <4>21. CASE AutologinLock(q) BY <4>21 DEF AutologinLock, Goto
        <4>22. CASE AutologinSave(q) BY <4>22 DEF AutologinSave, Return
        <4> QED BY <3>3, <4>1, <4>2, <4>3, <4>4, <4>5, <4>6, <4>7, <4>8, <4>9, <4>10,
                   <4>11, <4>12, <4>13, <4>14, <4>15, <4>16, <4>17, <4>18, <4>19, <4>20,
                               <4>21, <4>22 DEF Command
      <3> QED BY <3>1, <3>2, <3>3 DEF Next
    <2>2. ~Stale(p) /\ Confirmed(p) = NoSession
      BY <1>2, <2>1 DEF Settle, SettleSlot
    <2>3. ~SameBinding(slot, fresh[p])
      BY <2>2 DEF Confirmed, SameBinding, NoSession
    <2>4. CASE slot.kind = "account"
      BY <1>2, <2>2, <2>3, <2>4 DEF IInv, ReadInv
    <2>5. CASE slot.kind = "local"
      <3>1. fresh[p].kind # "local"
        BY <2>3, <2>5 DEF IInv, TypeOK, Sessions, Accounts, NoSession, SameBinding
      <3> QED BY <1>2, <2>2, <2>5, <3>1 DEF IInv, SettleInv, LocalSession
    <2>6. slot.kind \in {"account", "local"}
      BY <1>2 DEF IInv, TypeOK, Sessions, Accounts
    <2> QED BY <2>4, <2>5, <2>6
  <1> QED BY <1>1, <1>2

\* No slow login is installed over an end, no old read ends a live session.
THEOREM NoCommandUndoes == Spec => NoSlowCommandUndoes
  <1>1. IInv /\ [Next]_vars =>
          [\A p \in Procs :
              /\ pc[p] = "install" /\ pc'[p] # "install" /\ slot' # slot => p \notin ended
              /\ pc[p] = "settle" /\ pc'[p] # "settle" /\ slot # NoSession /\ slot' = NoSession =>
                     IF slot.kind = "account" THEN ~SameBinding(slot, row)
                     ELSE ~config.disabled \/ adrift]_vars
    BY NothingIsUndone
  <1> QED BY <1>1, InvariantHolds, PTL DEF Spec, NoSlowCommandUndoes

-----------------------------------------------------------------------------
(* The start.                                                              *)

\* What was chosen is stored, but for the port: of the database, and of the
\* image that a restore brings back.
Stands(i) ==
    /\ i = L!Image(i.current, i.rows, i.stored, i.password, i.said)
    /\ DOMAIN i.said \subseteq DOMAIN i.stored
    /\ \A k \in DOMAIN i.said \ {"port"} : i.stored[k] = i.said[k]

\* Nothing was chosen in a database that is being seeded; the window and the
\* listener are decided from what nothing moves before the commands come up.
LaunchInv ==
    /\ Stands(db)
    /\ staged # None => Stands(staged)
    /\ at = "seed" => DOMAIN db.said = {}
    /\ at \in {"down", "restore", "open", "rows", "fresh", "seed", "session"} => session = "none"
    /\ at \in {"server", "bind", "save", "ready"} =>
          /\ (session = "local") <=> L!Disabled
          /\ session = "account" => L!Autologin /\ keyring = db.password
    /\ at \in {"down", "restore", "open", "rows", "fresh", "seed", "session", "server", "bind"} =>
          lanPort = None
    /\ at \in {"bind", "save"} => L!Enabled /\ L!Allowed(L!Disabled, L!Enabled, L!Public)
    /\ at = "ready" /\ lanPort # None =>
          /\ L!Enabled /\ L!Allowed(L!Disabled, L!Enabled, L!Public)
          /\ lanPort = L!Port \/ notice = "fallbackUnsaved"

LEMMA LaunchInit == L!Init => LaunchInv
    BY DEF L!Init, L!Image, L!One, LaunchInv, Stands

\* A step of the start that leaves the database and what it stages.
LEMMA StoredStays ==
    ASSUME db' = db
    PROVE  /\ L!Disabled' = L!Disabled /\ L!Autologin' = L!Autologin
           /\ L!Enabled' = L!Enabled /\ L!Public' = L!Public /\ L!Port' = L!Port
    BY DEF L!Disabled, L!Autologin, L!Enabled, L!Public, L!Port, L!Stored

\* Changes of the store that keep what was chosen.
LEMMA ChosenStands ==
    ASSUME Stands(db), NEW values, L!Chosen(values)
    PROVE  Stands(db')
    BY DEF Stands, L!Image, L!Chosen, L!With

LEMMA UsersInv == ASSUME LaunchInv, L!Users PROVE LaunchInv'
    <1>1. at \in {"up", "down"} /\ UNCHANGED <<at, session, lanPort>>
        BY DEF L!Users, L!ChangeMode, L!EnableAutologin, L!ChangePassword, L!Stage,
               L!ChangeServer, L!HandEdit, L!Edit, L!process, L!shown
    <1>2. Stands(db') /\ (staged' = staged \/ staged' = db)
        <2>1. CASE db' = db /\ (staged' = staged \/ staged' = db)
            BY <2>1 DEF LaunchInv
        <2>2. CASE (\E values : L!Chosen(values)) /\ staged' = staged
            BY <2>2, ChosenStands DEF LaunchInv
        <2>3. CASE db' = [db EXCEPT !.password = @ + 1] /\ staged' = staged
            BY <2>3 DEF LaunchInv, Stands, L!Image
        <2> QED BY <2>1, <2>2, <2>3 DEF L!Users, L!ChangeMode, L!EnableAutologin,
                L!ChangePassword, L!Stage, L!ChangeServer, L!HandEdit
    <1> QED BY <1>1, <1>2 DEF LaunchInv

\* What was chosen still stands when a listener is opened to viewers: the port
\* may be another, the rest is stored as it was.
LEMMA SeedsStand ==
    ASSUME Stands(db)
    PROVE  Stands([db EXCEPT !.stored = L!With(@, L!ServerKeys(L!Enabled, L!Port, TRUE)),
                             !.said = L!With(@, L!One("public", TRUE))])
    <1> DEFINE stored == L!With(db.stored, L!ServerKeys(L!Enabled, L!Port, TRUE))
               said == L!With(db.said, L!One("public", TRUE))
               i == [db EXCEPT !.stored = stored, !.said = said]
    <1> SUFFICES Stands(i)
        OBVIOUS
    <1>1. /\ DOMAIN stored = DOMAIN db.stored \cup {"enabled", "port", "public"}
          /\ stored["public"] = TRUE
          /\ \A k \in DOMAIN db.stored \ {"port", "public"} : stored[k] = db.stored[k]
        BY DEF L!With, L!ServerKeys, L!Enabled, L!Stored
    <1>2. /\ DOMAIN said = DOMAIN db.said \cup {"public"} /\ said["public"] = TRUE
          /\ \A k \in DOMAIN db.said \ {"public"} : said[k] = db.said[k]
        BY DEF L!With, L!One
    <1> HIDE DEF stored, said
    <1>3. i = L!Image(db.current, db.rows, stored, db.password, said)
        <2>1. PICK current, rows, st, password, sd :
                  db = [current |-> current, rows |-> rows, stored |-> st,
                        password |-> password, said |-> sd]
            BY DEF Stands, L!Image
        <2>2. [db EXCEPT !.stored = stored] =
                [current |-> current, rows |-> rows, stored |-> stored,
                 password |-> password, said |-> sd]
            BY <2>1
        <2>3. PICK j : j = [db EXCEPT !.stored = stored]
            OBVIOUS
        <2>4. [j EXCEPT !.said = said] =
                [current |-> current, rows |-> rows, stored |-> stored,
                 password |-> password, said |-> said]
            <3>1. j = [current |-> current, rows |-> rows, stored |-> stored,
                       password |-> password, said |-> sd]
                BY <2>2, <2>3
            <3> QED BY <3>1
        <2>5. i = [j EXCEPT !.said = said]
            BY <2>3
        <2> HIDE DEF i
        <2> QED BY <2>1, <2>4, <2>5 DEF L!Image
    <1>4. i.stored = stored /\ i.said = said /\ i = L!Image(i.current, i.rows, i.stored, i.password, i.said)
        BY <1>3 DEF L!Image
    <1>5. /\ DOMAIN db.said \subseteq DOMAIN db.stored
          /\ \A k \in DOMAIN db.said \ {"port"} : db.stored[k] = db.said[k]
        BY DEF Stands
    <1> HIDE DEF i
    <1>6. DOMAIN said \subseteq DOMAIN stored
        BY <1>1, <1>2, <1>5
    <1>7. ASSUME NEW k \in DOMAIN said \ {"port"} PROVE stored[k] = said[k]
        <2>1. CASE k = "public"
            BY <1>1, <1>2, <2>1
        <2>2. CASE k # "public"
            <3>1. k \in DOMAIN db.said \ {"port", "public"} /\ k \in DOMAIN db.stored
                BY <1>2, <1>5, <2>2
            <3> QED BY <1>1, <1>2, <1>5, <3>1
        <2> QED BY <2>1, <2>2
    <1> QED BY <1>4, <1>6, <1>7 DEF Stands

LEMMA StartsInv ==
    ASSUME LaunchInv,
           \/ \E any \in {"desktop", "serve"} : L!Start(any)
           \/ L!End \/ L!ApplyRestore \/ L!Open \/ L!SeedRows \/ L!AskFresh
           \/ L!SeedPublic \/ \E port \in L!Ports : L!Listen(port) \/ L!OtherProgram(port)
    PROVE  LaunchInv'
    <1>1. CASE \E any \in {"desktop", "serve"} : L!Start(any)
        BY <1>1 DEF LaunchInv, L!Start, L!shown
    <1>2. CASE L!End
        BY <1>2 DEF LaunchInv, L!End, L!bounds
    <1>3. CASE L!ApplyRestore
        BY <1>3 DEF LaunchInv, L!ApplyRestore, L!shown
    <1>4. CASE L!Open
        BY <1>4 DEF LaunchInv, L!Open, L!shown, Stands, L!Image
    <1>5. CASE L!SeedRows
        BY <1>5 DEF LaunchInv, L!SeedRows, L!shown, Stands, L!Image
    <1>6. CASE L!AskFresh
        BY <1>6 DEF LaunchInv, L!AskFresh, L!AfterSeeds, L!shown, Stands
    <1>7. CASE L!SeedPublic
        <2>1. Stands(db')
            <3>1. CASE db' = db
                BY <3>1 DEF LaunchInv
            <3>2. CASE db' = [db EXCEPT !.stored = L!With(@, L!ServerKeys(L!Enabled, L!Port, TRUE)),
                                        !.said = L!With(@, L!One("public", TRUE))]
                BY <3>2, SeedsStand DEF LaunchInv
            <3> QED BY <1>7, <3>1, <3>2 DEF L!SeedPublic
        <2> QED BY <1>7, <2>1 DEF LaunchInv, L!SeedPublic, L!shown
    <1>8. CASE \E port \in L!Ports : L!Listen(port)
        BY <1>8 DEF LaunchInv, L!Listen, L!bounds
    <1>9. CASE \E port \in L!Ports : L!OtherProgram(port)
        BY <1>9, StoredStays DEF LaunchInv, L!OtherProgram, L!process, L!shown, L!bounds
    <1> QED BY <1>1, <1>2, <1>3, <1>4, <1>5, <1>6, <1>7, <1>8, <1>9

\* A key that is seeded was not chosen.
LEMMA SeedKeyInv == ASSUME LaunchInv, L!SeedKey PROVE LaunchInv'
    <1>1. Stands(db') /\ DOMAIN db'.said = {}
        <2>1. CASE db' = db
            BY <2>1 DEF LaunchInv, L!SeedKey
        <2>2. CASE db' = [db EXCEPT !.stored = L!With(@, L!One(Preset[cursor], TRUE))]
            BY <2>2 DEF LaunchInv, L!SeedKey, Stands, L!Image, L!With, L!One
        <2> QED BY <2>1, <2>2 DEF L!SeedKey
    <1> QED BY <1>1 DEF LaunchInv, L!SeedKey, L!AfterSeeds, L!shown

LEMMA DesktopStartInv ==
    ASSUME LaunchInv,
           \/ L!DecideSession \/ L!DecideServer \/ L!BindTo \/ L!TryNext \/ L!BindFails \/ L!Manage
    PROVE  LaunchInv'
    <1>1. db' = db /\ staged' = staged /\ keyring' = keyring
        BY DEF L!DecideSession, L!DecideServer, L!BindTo, L!TryNext, L!BindFails, L!Manage
    <1>2. /\ L!Disabled' = L!Disabled /\ L!Autologin' = L!Autologin
          /\ L!Enabled' = L!Enabled /\ L!Public' = L!Public /\ L!Port' = L!Port
        BY <1>1, StoredStays
    <1>3. CASE L!DecideSession
        BY <1>1, <1>2, <1>3 DEF LaunchInv, L!DecideSession, L!Verified
    <1>4. CASE L!DecideServer
        BY <1>1, <1>2, <1>4 DEF LaunchInv, L!DecideServer, L!shown, L!Allowed
    <1>5. CASE L!BindTo
        BY <1>1, <1>2, <1>5 DEF LaunchInv, L!BindTo, L!Allowed
    <1>6. CASE L!TryNext
        BY <1>1, <1>2, <1>6 DEF LaunchInv, L!TryNext, L!Allowed
    <1>7. CASE L!BindFails
        BY <1>1, <1>2, <1>7 DEF LaunchInv, L!BindFails, L!shown, L!Allowed
    <1>8. CASE L!Manage
        BY <1>1, <1>2, <1>8 DEF LaunchInv, L!Manage, L!shown, L!Allowed
    <1> QED BY <1>3, <1>4, <1>5, <1>6, <1>7, <1>8

LEMMA SavePortInv == ASSUME LaunchInv, L!SavePort PROVE LaunchInv'
    <1>1. CASE db' = db /\ notice' = "fallbackUnsaved"
        BY <1>1, StoredStays DEF LaunchInv, L!SavePort, L!Allowed
    <1>2. CASE db' = [db EXCEPT !.stored = L!With(@, L!ServerKeys(L!Enabled, lanPort, L!Public))]
        <2> DEFINE keys == L!ServerKeys(L!Enabled, lanPort, L!Public)
        <2>1. /\ db'.said = db.said /\ db'.password = db.password
              /\ db'.stored = [k \in DOMAIN db.stored \cup {"enabled", "port", "public"} |->
                                  IF k \in {"enabled", "port", "public"} THEN keys[k] ELSE db.stored[k]]
              /\ keys["enabled"] = L!Enabled /\ keys["port"] = lanPort /\ keys["public"] = L!Public
            BY <1>2 DEF LaunchInv, Stands, L!Image, L!With, L!ServerKeys
        <2>2. L!Disabled' = L!Disabled /\ L!Autologin' = L!Autologin
            BY <2>1 DEF L!Disabled, L!Autologin, L!Stored
        <2>3. L!Enabled' = L!Enabled /\ L!Public' = L!Public /\ L!Port' = lanPort
            BY <2>1 DEF L!Enabled, L!Public, L!Port, L!Stored
        <2>4. Stands(db')
            <3>1. db' = L!Image(db'.current, db'.rows, db'.stored, db'.password, db'.said)
                BY <1>2 DEF LaunchInv, Stands, L!Image
            <3>2. DOMAIN db'.said \subseteq DOMAIN db'.stored
                BY <2>1 DEF LaunchInv, Stands
            <3>3. ASSUME NEW k \in DOMAIN db'.said \ {"port"} PROVE db'.stored[k] = db'.said[k]
                <4>1. k \in DOMAIN db.stored /\ db.stored[k] = db.said[k]
                    BY <2>1 DEF LaunchInv, Stands
                <4>2. CASE k = "enabled"
                    BY <2>1, <4>1, <4>2 DEF L!Enabled, L!Stored
                <4>3. CASE k = "public"
                    BY <2>1, <4>1, <4>3 DEF L!Public, L!Stored
                <4>4. CASE k \notin {"enabled", "public"}
                    BY <2>1, <4>1, <4>4
                <4> QED BY <4>2, <4>3, <4>4
            <3> QED BY <3>1, <3>2, <3>3 DEF Stands
        <2> QED BY <1>2, <2>1, <2>2, <2>3, <2>4 DEF LaunchInv, L!SavePort, L!Allowed
    <1> QED BY <1>1, <1>2 DEF L!SavePort

LEMMA LaunchNext == ASSUME LaunchInv, [L!Next]_launchVars PROVE LaunchInv'
    <1>1. CASE UNCHANGED launchVars
        BY <1>1, StoredStays DEF launchVars, LaunchInv
    <1>2. CASE L!Next
        BY <1>2, StartsInv, SeedKeyInv, DesktopStartInv, SavePortInv, UsersInv DEF L!Next
    <1> QED BY <1>1, <1>2

\* What users chose stands, and the window and the listener a start opens are
\* those that the settings it finds ask for, for any number of starts, edits,
\* restores and ends at any step, and any ports: run of lib.rs, seed_with,
\* bind_with_port_fallback_span.
THEOREM LaunchFollows == PartsSpec => []LaunchFollowsTheStore
    <1>1. PartsInit => LaunchInv
        BY LaunchInit DEF PartsInit
    <1>2. LaunchInv /\ [PartsNext]_allVars => LaunchInv'
        BY LaunchNext DEF PartsNext, allVars
    <1>3. LaunchInv => LaunchFollowsTheStore
        BY DEF LaunchInv, Stands, LaunchFollowsTheStore, L!LaunchFollowsTheStore,
               L!ChosenSettingsStand, L!WindowFollowsTheStore, L!ListenerFollowsTheStore
    <1> QED BY <1>1, <1>2, <1>3, PTL DEF PartsSpec
=============================================================================
