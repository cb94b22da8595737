-------------------------- MODULE ApiServer_proofs --------------------------
(***************************************************************************)
(* Theorems about the composition of vault and session in ApiServer.  What *)
(* is proved of each component on its own is brought over by instantiating *)
(* its module of proofs: every step of the server is a step of the vault   *)
(* or leaves it alone, and likewise of the session.                        *)
(***************************************************************************)
EXTENDS ApiServer, TLAPS

VP == INSTANCE Vault_proofs

(***************************************************************************)
(* V and VP are two instances of one module; expanding their definitions   *)
(* shows them to agree.                                                    *)
(***************************************************************************)
LEMMA VaultAssumptions == VP!VaultConstants /\ VP!BlobsDiffer
  BY ComponentConstants
  DEF V!VaultConstants, VP!VaultConstants, V!BlobsDiffer, VP!BlobsDiffer, V!Wrapped, VP!Wrapped,
      V!Keks, VP!Keks, V!Verifiers, VP!Verifiers, V!Formats, VP!Formats,
      V!VAULT_FORMAT_VERSION, VP!VAULT_FORMAT_VERSION

LEMMA SameTypes == VP!TypeOK => V!TypeOK
  BY DEF V!TypeOK, VP!TypeOK, V!Flash, VP!Flash, V!Keks, VP!Keks, V!Wrapped, VP!Wrapped,
         V!Verifiers, VP!Verifiers, V!DekValues, VP!DekValues, V!Formats, VP!Formats,
         V!VAULT_FORMAT_VERSION, VP!VAULT_FORMAT_VERSION, V!Writing, VP!Writing,
         V!Script, VP!Script, V!Erasures, VP!Erasures

LEMMA SameInit == V!Init => VP!Init
  BY DEF V!Init, VP!Init, V!OldVault, VP!OldVault, V!Blank, VP!Blank, V!Keys, VP!Keys,
         V!Formats, VP!Formats, V!VAULT_FORMAT_VERSION, VP!VAULT_FORMAT_VERSION

LEMMA SameStoreStep ==
  /\ V!StoreWrite => VP!StoreWrite
  /\ V!StoreCommit => VP!StoreCommit
  BY DEF V!StoreWrite, VP!StoreWrite, V!StoreCommit, VP!StoreCommit, V!Call, VP!Call,
         V!Writing, VP!Writing, V!Script, VP!Script, V!Erasures, VP!Erasures, V!Keys, VP!Keys,
         V!Blank, VP!Blank

LEMMA SameNext == V!Next => VP!Next
  BY DEF V!Next, VP!Next, V!Lock, VP!Lock, V!UnlockRefused, VP!UnlockRefused,
         V!FactoryReset, VP!FactoryReset, V!Setup, VP!Setup, V!UnlockWrong, VP!UnlockWrong,
         V!UnlockRight, VP!UnlockRight, V!SetTransferPassword, VP!SetTransferPassword,
         V!ChangePassword, VP!ChangePassword, V!Persist, VP!Persist,
         V!StoreWrite, VP!StoreWrite, V!StoreCommit, VP!StoreCommit, V!StoreFault, VP!StoreFault,
         V!PowerLoss, VP!PowerLoss, V!Boot, VP!Boot,
         V!Idle, VP!Idle, V!Locked, VP!Locked, V!Return, VP!Return, V!Start, VP!Start,
         V!is_initialized, VP!is_initialized, V!load_kek, VP!load_kek, V!Unwraps, VP!Unwraps,
         V!Loads, VP!Loads, V!FreshSalt, VP!FreshSalt, V!FreshTSalt, VP!FreshTSalt,
         V!FreshDek, VP!FreshDek, V!Call, VP!Call, V!Writing, VP!Writing,
         V!Script, VP!Script, V!Erasures, VP!Erasures, V!Keys, VP!Keys, V!Blank, VP!Blank,
         V!Tables, VP!Tables, V!VAULT_FORMAT_VERSION, VP!VAULT_FORMAT_VERSION

(***************************************************************************)
(* The vault is driven only by its own actions.                            *)
(***************************************************************************)
LEMMA VaultStep == [Next]_vars => [V!Next]_(V!vars)
<1> SUFFICES ASSUME [Next]_vars PROVE V!Next \/ UNCHANGED vaultVars
  BY DEF V!vars, vaultVars
<1> USE DEF V!Next
<1>1. ASSUME NEW pw \in Passwords, SetupBegin(pw) \/ SetupTransfer(pw) \/ LoginEnd(pw)
      PROVE  V!Next \/ UNCHANGED vaultVars
  BY <1>1 DEF SetupBegin, SetupTransfer, LoginEnd
<1>2. ASSUME NEW t \in Tokens, Refuse(t) \/ Read(t) \/ Wifi(t) \/ CatDelete(t) \/ Logout(t)
      PROVE  V!Next \/ UNCHANGED vaultVars
  BY <1>2 DEF Refuse, Read, Wifi, CatDelete, Logout, V!Tables
<1>3. ASSUME NEW t \in Tokens, NEW table \in V!Tables, Edit(t, table)
      PROVE  V!Next \/ UNCHANGED vaultVars
  BY <1>3 DEF Edit
<1>4. ASSUME NEW t \in Tokens, NEW pw \in Passwords, Reset(t, pw) \/ Export(t, pw)
      PROVE  V!Next \/ UNCHANGED vaultVars
  BY <1>4 DEF Reset, Export, V!Tables
<1>5. ASSUME NEW t \in Tokens, NEW cur \in Passwords, NEW next \in Passwords,
             ChangePw(t, cur, next) \/ ChangeTransfer(t, cur, next)
      PROVE  V!Next \/ UNCHANGED vaultVars
  BY <1>5 DEF ChangePw, ChangeTransfer
<1>6. ASSUME NEW t \in Tokens, NEW ms \in IdleInputs, IdleSet(t, ms)
      PROVE  V!Next \/ UNCHANGED vaultVars
  BY <1>6 DEF IdleSet
<1>7. CASE CatDeleteEntries \/ SetupEnd \/ LoginBegin \/ Reply \/ IdleLock
  BY <1>7 DEF CatDeleteEntries, SetupEnd, LoginBegin, Reply, IdleLock, V!Tables
<1>8. CASE StoreStep \/ Tick \/ Reboot \/ Boot
  BY <1>8 DEF StoreStep, Tick, Reboot, Boot
<1>9. CASE UNCHANGED vars
  BY <1>9 DEF vars
<1> QED BY <1>1, <1>2, <1>3, <1>4, <1>5, <1>6, <1>7, <1>8, <1>9 DEF Next

(***************************************************************************)
(* Whatever the handlers do, fail or leave half done, the vault only makes *)
(* the steps of its own specification: no handler calls it while another   *)
(* one is writing, and the idle check never locks it under a handler.      *)
(***************************************************************************)
THEOREM ServerDrivesVault == Spec => DrivesVault
<1>1. Init => V!Init
  BY DEF Init
<1> QED BY <1>1, VaultStep, PTL DEF Spec, DrivesVault, V!Spec

\* What Vault_proofs shows of the vault therefore holds in the server.
LEMMA VaultKeeps == Spec => [](VP!TypeOK /\ VP!KeyInv)
<1>1. Init => VP!Init
  BY SameInit DEF Init
<1>2. [Next]_vars => [VP!Next]_(VP!vars)
  BY VaultStep, SameNext DEF V!vars, VP!vars
<1>3. VP!Spec => [](VP!TypeOK /\ VP!KeyInv)
  BY VaultAssumptions, VP!KeyInvariant
<1> QED BY <1>1, <1>2, <1>3, PTL DEF Spec, VP!Spec

-----------------------------------------------------------------------------
(***************************************************************************)
(* What a handler can see of a call of the vault.                          *)
(***************************************************************************)
LEMMA CallEffects ==
  /\ V!Lock => op = "none" /\ UNCHANGED <<flash, op>> /\ unlocked' = FALSE
  /\ \A pw \in Passwords :
       /\ V!Setup(pw) =>
            /\ op = "none" /\ UNCHANGED <<flash, unlocked>>
            /\ op' = "none" \/ (op' = "setup" /\ ~V!is_initialized /\ result' = "none")
       /\ V!UnlockRight(pw) \/ V!UnlockWrong(pw) \/ V!UnlockRefused =>
            /\ op = "none" /\ UNCHANGED <<flash, op>>
            /\ result' = "ok" => V!is_initialized
            /\ result' # "ok" /\ unlocked' => unlocked
       /\ V!SetTransferPassword(pw) =>
            op = "none" /\ UNCHANGED <<flash, unlocked>> /\ op' = "transfer" /\ result' = "none"
  /\ \A cur, next \in Passwords :
       V!ChangePassword(cur, next) =>
         op = "none" /\ UNCHANGED <<flash, unlocked>> /\ op' \in {"none", "change"}
  /\ \A t \in V!Tables :
       V!Persist(t) => op = "none" /\ UNCHANGED <<flash, unlocked>> /\ op' = t
  /\ V!FactoryReset => op = "none" /\ UNCHANGED flash /\ op' = "wipe" /\ unlocked' = FALSE
  /\ V!PowerLoss => UNCHANGED flash /\ op' = "off" /\ unlocked' = FALSE
  /\ V!Boot => op = "off" /\ UNCHANGED <<flash, unlocked>> /\ op' \in {"none", "bootwipe"}
<1> USE DEF V!Idle, V!Return, V!Start, V!Locked
<1>1. V!Lock => op = "none" /\ UNCHANGED <<flash, op>> /\ unlocked' = FALSE
  BY DEF V!Lock
<1>2. ASSUME NEW pw \in Passwords, V!Setup(pw)
      PROVE  /\ op = "none" /\ UNCHANGED <<flash, unlocked>>
             /\ op' = "none" \/ (op' = "setup" /\ ~V!is_initialized /\ result' = "none")
  BY <1>2 DEF V!Setup
<1>3. ASSUME NEW pw \in Passwords, V!UnlockRight(pw)
      PROVE  /\ op = "none" /\ UNCHANGED <<flash, op>>
             /\ result' = "ok" => V!is_initialized
             /\ result' # "ok" /\ unlocked' => unlocked
  BY <1>3 DEF V!UnlockRight
<1>4. ASSUME NEW pw \in Passwords, V!UnlockWrong(pw) \/ V!UnlockRefused
      PROVE  /\ op = "none" /\ UNCHANGED <<flash, op>>
             /\ result' # "ok" /\ (unlocked' => unlocked)
  BY <1>4 DEF V!UnlockWrong, V!UnlockRefused
<1>5. ASSUME NEW pw \in Passwords, V!SetTransferPassword(pw)
      PROVE  op = "none" /\ UNCHANGED <<flash, unlocked>> /\ op' = "transfer" /\ result' = "none"
  BY <1>5 DEF V!SetTransferPassword
<1>6. ASSUME NEW cur \in Passwords, NEW next \in Passwords, V!ChangePassword(cur, next)
      PROVE  op = "none" /\ UNCHANGED <<flash, unlocked>> /\ op' \in {"none", "change"}
  BY <1>6 DEF V!ChangePassword
<1>7. ASSUME NEW t \in V!Tables, V!Persist(t)
      PROVE  op = "none" /\ UNCHANGED <<flash, unlocked>> /\ op' = t
  BY <1>7 DEF V!Persist
<1>8. V!FactoryReset => op = "none" /\ UNCHANGED flash /\ op' = "wipe" /\ unlocked' = FALSE
  BY DEF V!FactoryReset
<1>9. V!PowerLoss => UNCHANGED flash /\ op' = "off" /\ unlocked' = FALSE
  BY DEF V!PowerLoss
<1>10. V!Boot => op = "off" /\ UNCHANGED <<flash, unlocked>> /\ op' \in {"none", "bootwipe"}
  BY DEF V!Boot
<1> HIDE DEF V!Idle, V!Return, V!Start, V!Locked
<1> QED BY <1>1, <1>2, <1>3, <1>4, <1>5, <1>6, <1>7, <1>8, <1>9, <1>10

(***************************************************************************)
(* A store call leaves a vault that is set up so, except in the erasures,  *)
(* and at its commits a setup has stored the wrapped DEK.                  *)
(***************************************************************************)
LEMMA StoreEffects ==
  ASSUME VP!TypeOK, VP!KeyInv
  PROVE  /\ V!StoreWrite =>
              /\ op # "none" /\ UNCHANGED <<op, result, unlocked>>
              /\ V!is_initialized /\ op \notin {"setup", "wipe", "bootwipe"}
                   => V!is_initialized'
         /\ V!StoreCommit =>
              /\ op # "none" /\ UNCHANGED flash
              /\ op' = op \/ (op' = "none" /\ result' = "ok")
              /\ op = "setup" => V!is_initialized
              /\ op # "setup" => UNCHANGED unlocked
         /\ V!StoreFault =>
              /\ op \in FaultOps
              /\ UNCHANGED <<flash, unlocked>>
              /\ op' = IF op = "bootwipe" THEN "off" ELSE "none"
              /\ op # "none" /\ (op # "bootwipe" => result' = "throw")
<1>0. "none" \notin V!Writing
  BY DEF V!Writing, V!Script
<1>1. ASSUME V!StoreWrite
      PROVE  /\ op # "none" /\ UNCHANGED <<op, result, unlocked>>
             /\ V!is_initialized /\ op \notin {"setup", "wipe", "bootwipe"}
                  => V!is_initialized'
  <2>1. VP!StoreWrite /\ op \in VP!Writing /\ at \in 1 .. Len(VP!Script[op])
    BY <1>1, SameStoreStep DEF VP!StoreWrite, VP!TypeOK
  <2>2. VP!KeyInv'
    BY <2>1, VP!WdekWrite, VaultAssumptions
  <2>3. CASE op = "change"
    BY <1>0, <1>1, <2>2, <2>3 DEF VP!KeyInv, VP!is_initialized, V!is_initialized, V!StoreWrite
  <2>4. CASE op \notin {"setup", "change", "wipe", "bootwipe"}
    <3>1. VP!Call # "wdek"
      BY <2>1, <2>4, VP!WhoWrites, VaultAssumptions DEF VP!Call
    <3>2. flash'["wdek"] = flash["wdek"]
      BY <2>1, <3>1, VP!WriteOne, VaultAssumptions DEF VP!Keys
    <3> QED BY <1>0, <1>1, <3>2 DEF V!is_initialized, V!StoreWrite
  <2> QED BY <1>0, <1>1, <2>3, <2>4 DEF V!StoreWrite
<1>2. ASSUME V!StoreCommit
      PROVE  /\ op # "none" /\ UNCHANGED flash
             /\ op' = op \/ (op' = "none" /\ result' = "ok")
             /\ op = "setup" => V!is_initialized
             /\ op # "setup" => UNCHANGED unlocked
  <2>1. VP!StoreCommit /\ op \in VP!Writing /\ at \in 1 .. Len(VP!Script[op])
    BY <1>2, SameStoreStep DEF VP!StoreCommit, VP!TypeOK
  <2>2. op = "setup" => at > 3 /\ at \in Nat
    BY <2>1, VP!WhoWrites, VaultAssumptions DEF VP!StoreCommit, VP!Call, VP!TypeOK
  <2>3. op = "setup" => V!is_initialized
    BY <2>2 DEF VP!KeyInv, V!is_initialized
  <2>4. unlocked \in BOOLEAN
    BY DEF VP!TypeOK
  <2> QED BY <1>0, <1>2, <2>3, <2>4 DEF V!StoreCommit
<1>3. ASSUME V!StoreFault
      PROVE  /\ op \in FaultOps
             /\ UNCHANGED <<flash, unlocked>>
             /\ op' = IF op = "bootwipe" THEN "off" ELSE "none"
             /\ op # "none" /\ (op # "bootwipe" => result' = "throw")
  BY <1>0, <1>3 DEF V!StoreFault
<1> QED BY <1>1, <1>2, <1>3

(***************************************************************************)
(* How the handler under way, the running operation of the vault and the   *)
(* session fit together.  It is stronger than SessionMeansSetUp where a    *)
(* handler is between two calls: h_setup holds the task without a session  *)
(* until its last call, and by then the wrapped DEK is stored.             *)
(***************************************************************************)
ServerInv ==
  /\ task \in {"none", "login", "request", "catdel"} \cup InSetup
  /\ holder = IF task \in InSetup THEN "setup" ELSE IF task = "catdel" THEN "request" ELSE task
  /\ op \in {"change", "transfer", "entries", "cats"} =>
       task \in {"transfer", "request", "catdel"}
  /\ op = "setup" => task = "setup"
  /\ op = "wipe"  => task = "undo"
  /\ op \in {"off", "bootwipe"} => task = "none" /\ ~active
  /\ task = "login"    => op = "none"
  /\ task = "setup"    => op \in {"setup", "none"}
  /\ task = "transfer" => op \in {"transfer", "none"}
  /\ task = "undo"     => op \in {"wipe", "none"}
  /\ task \in InSetup => ~active
  /\ active => V!is_initialized
  /\ task = "setup" /\ op = "none" /\ result = "ok" => V!is_initialized
  /\ task = "transfer" => V!is_initialized

LEMMA ServerInit == Init => ServerInv
  BY DEF Init, V!Init, S!Init, ServerInv, InSetup

\* Authenticated requests: those that leave the vault alone, those that write.
LEMMA AuthedKeeps ==
  ASSUME ServerInv, NEW t \in Tokens, NEW next \in {"request", "catdel"}, Authed(t, next),
         flash' = flash, op' \in {"none", "change", "transfer", "entries", "cats"}
  PROVE  ServerInv'
<1>1. active /\ active'
  BY DEF Authed, S!Request, S!Accepts, S!validate, S!Expired
<1>2. holder' = "request" /\ task' = next
  BY DEF Authed
<1>3. V!is_initialized'
  BY <1>1 DEF ServerInv, V!is_initialized
<1> QED BY <1>1, <1>2, <1>3 DEF ServerInv, InSetup

LEMMA ServerNext ==
  ASSUME VP!TypeOK, VP!KeyInv, ServerInv, [Next]_vars
  PROVE  ServerInv'
<1> USE CallEffects DEF V!is_initialized, InSetup, Free
<1>1. ASSUME NEW pw \in Passwords, SetupBegin(pw) PROVE ServerInv'
  BY <1>1 DEF SetupBegin, ServerInv
<1>2. ASSUME NEW pw \in Passwords, SetupTransfer(pw) PROVE ServerInv'
  BY <1>2 DEF SetupTransfer, ServerInv, S!RequestEnd, S!sessionVars, sessionVars, vaultVars
<1>3. ASSUME NEW pw \in Passwords, LoginEnd(pw) PROVE ServerInv'
  BY <1>3 DEF LoginEnd, ServerInv, S!LoginOk, S!LoginFail, S!create
<1>4. ASSUME NEW t \in Tokens, Refuse(t) PROVE ServerInv'
  BY <1>4 DEF Refuse, ServerInv, S!Request, S!Accepts, S!validate, S!destroy
<1>5. ASSUME NEW t \in Tokens, Read(t) \/ Wifi(t) PROVE ServerInv'
  BY <1>5, AuthedKeeps DEF Read, Wifi, vaultVars, Authed
<1>6. ASSUME NEW t \in Tokens, NEW table \in V!Tables, Edit(t, table) PROVE ServerInv'
  BY <1>6, AuthedKeeps DEF Edit, V!Tables
<1>7. ASSUME NEW t \in Tokens, CatDelete(t) PROVE ServerInv'
  BY <1>7, AuthedKeeps DEF CatDelete, V!Tables
<1>8. ASSUME NEW t \in Tokens, NEW pw \in Passwords, Reset(t, pw) \/ Export(t, pw)
      PROVE  ServerInv'
  BY <1>8, AuthedKeeps DEF Reset, Export, V!Tables, vaultVars, Authed
<1>9. ASSUME NEW t \in Tokens, NEW cur \in Passwords, NEW next \in Passwords,
             ChangePw(t, cur, next) \/ ChangeTransfer(t, cur, next)
      PROVE  ServerInv'
  BY <1>9, AuthedKeeps DEF ChangePw, ChangeTransfer
<1>10. ASSUME NEW t \in Tokens, NEW ms \in IdleInputs, IdleSet(t, ms) PROVE ServerInv'
  BY <1>10 DEF IdleSet, S!SetIdle, ServerInv, vaultVars
<1>11. ASSUME NEW t \in Tokens, Logout(t) PROVE ServerInv'
  BY <1>11 DEF Logout, S!Logout, S!destroy, ServerInv
<1>12. CASE CatDeleteEntries
  BY <1>12 DEF CatDeleteEntries, ServerInv, sessionVars, V!Tables
<1>13. CASE SetupEnd
  BY <1>13 DEF SetupEnd, ServerInv, sessionVars, vaultVars, S!SetupOk, S!create, S!RequestEnd,
               S!sessionVars
<1>14. CASE LoginBegin
  BY <1>14 DEF LoginBegin, ServerInv, vaultVars, S!LoginStart, S!LoginRejected
<1>15. CASE Reply
  BY <1>15 DEF Reply, ServerInv, vaultVars, S!RequestEnd, S!sessionVars
<1>16. CASE IdleLock
  BY <1>16 DEF IdleLock, ServerInv, vaultVars, S!Poll, S!destroy
<1>17. CASE StoreStep
  BY <1>17, StoreEffects DEF StoreStep, ServerInv, sessionVars
<1>18. CASE Tick
  BY <1>18 DEF Tick, ServerInv, vaultVars, S!Tick, S!sessionVars
<1>19. CASE Reboot
  BY <1>19 DEF Reboot, S!Reboot, ServerInv
<1>20. CASE Boot
  BY <1>20 DEF Boot, ServerInv, sessionVars
<1>21. CASE UNCHANGED vars
  BY <1>21 DEF vars, ServerInv, sessionVars, vaultVars
<1> QED BY <1>1, <1>2, <1>3, <1>4, <1>5, <1>6, <1>7, <1>8, <1>9, <1>10, <1>11, <1>12, <1>13,
           <1>14, <1>15, <1>16, <1>17, <1>18, <1>19, <1>20, <1>21 DEF Next

LEMMA ServerKeeps == Spec => [](VP!TypeOK /\ VP!KeyInv /\ ServerInv)
<1>1. Init => ServerInv
  BY ServerInit
<1>2. VP!TypeOK /\ VP!KeyInv /\ ServerInv /\ [Next]_vars => ServerInv'
  BY ServerNext
<1> QED BY <1>1, <1>2, VaultKeeps, PTL DEF Spec

(***************************************************************************)
(* A session exists only on a device that is set up, under every fault and *)
(* loss of power.                                                          *)
(***************************************************************************)
THEOREM SessionNeedsSetUp == Spec => []SessionMeansSetUp
<1>1. ServerInv => SessionMeansSetUp
  BY DEF ServerInv, SessionMeansSetUp
<1> QED BY <1>1, ServerKeeps, PTL
-----------------------------------------------------------------------------
(***************************************************************************)
(* The session is driven only by its own actions: h_setup creates one only *)
(* where there was none, and idle_lock_work runs only between handlers.    *)
(***************************************************************************)
LEMMA SessionStep ==
  ASSUME VP!TypeOK, VP!KeyInv, ServerInv, [Next]_vars
  PROVE  S!Next \/ UNCHANGED sessionVars
<1> USE DEF S!Next, S!vars, S!sessionVars, sessionVars
<1>1. ASSUME NEW pw \in Passwords, SetupBegin(pw) PROVE S!Next \/ UNCHANGED sessionVars
  <2>1. CASE op' = "setup"
    <3>1. ~V!is_initialized
      BY <1>1, <2>1, CallEffects DEF SetupBegin
    <3>2. S!SetupStart
      BY <1>1, <2>1, <3>1 DEF SetupBegin, ServerInv, InSetup, Free, S!SetupStart, S!Free
    <3> QED BY <3>2
  <2> QED BY <1>1, <2>1 DEF SetupBegin
<1>2. ASSUME NEW pw \in Passwords, SetupTransfer(pw) PROVE S!Next \/ UNCHANGED sessionVars
  BY <1>2 DEF SetupTransfer
<1>3. ASSUME NEW pw \in Passwords, LoginEnd(pw) PROVE S!Next \/ UNCHANGED sessionVars
  BY <1>3 DEF LoginEnd
<1>4. ASSUME NEW t \in Tokens,
             S!Request(t) \/ Logout(t) \/ (\E ms \in IdleInputs : IdleSet(t, ms))
      PROVE  S!Next \/ UNCHANGED sessionVars
  BY <1>4 DEF Logout, IdleSet
<1>5. ASSUME NEW t \in Tokens,
             \/ Refuse(t) \/ Read(t) \/ Wifi(t) \/ CatDelete(t)
             \/ \E table \in V!Tables : Edit(t, table)
             \/ \E pw \in Passwords : Reset(t, pw) \/ Export(t, pw)
             \/ \E cur, next \in Passwords : ChangePw(t, cur, next) \/ ChangeTransfer(t, cur, next)
      PROVE  S!Request(t)
  BY <1>5 DEF Refuse, Read, Wifi, CatDelete, Edit, Reset, Export, ChangePw, ChangeTransfer, Authed
<1>6. CASE CatDeleteEntries \/ SetupEnd \/ LoginBegin \/ Reply \/ IdleLock
  BY <1>6 DEF CatDeleteEntries, SetupEnd, LoginBegin, Reply, IdleLock
<1>7. CASE StoreStep \/ Tick \/ Reboot \/ Boot
  BY <1>7 DEF StoreStep, Tick, Reboot, Boot
<1>8. CASE UNCHANGED vars
  BY <1>8 DEF vars
<1> HIDE DEF S!Next, S!vars, S!sessionVars, sessionVars
<1> QED BY <1>1, <1>2, <1>3, <1>4, <1>5, <1>6, <1>7, <1>8 DEF Next

(***************************************************************************)
(* Whatever the handlers do, the session only makes the steps of its own   *)
(* specification, so its lockout and its prompt expiry hold in the server. *)
(***************************************************************************)
THEOREM ServerDrivesSession == Spec => DrivesSession
<1>1. Init => S!Init
  BY DEF Init
<1>2. VP!TypeOK /\ VP!KeyInv /\ ServerInv /\ [Next]_vars => [S!Next]_(S!vars)
  BY SessionStep DEF S!vars, S!sessionVars, sessionVars
<1> QED BY <1>1, <1>2, ServerKeeps, PTL DEF Spec, DrivesSession, S!Spec

-----------------------------------------------------------------------------
(***************************************************************************)
(* An open vault has a session, provided no store call of h_setup's first  *)
(* half fails.  (If the second commit of Vault::setup fails the vault      *)
(* stays open with no session to expire.)                                  *)
(***************************************************************************)
OpenInv ==
  /\ unlocked /\ task \notin InSetup => active
  /\ task = "setup" /\ op = "none" => result = "ok"
  /\ task = "undo" => ~unlocked

LEMMA OpenNext ==
  ASSUME "setup" \notin FaultOps, VP!TypeOK, VP!KeyInv, ServerInv, OpenInv, [Next]_vars
  PROVE  OpenInv'
<1> USE CallEffects DEF InSetup, Free, OpenInv
<1>1. ASSUME NEW pw \in Passwords, SetupBegin(pw) PROVE OpenInv'
  BY <1>1 DEF SetupBegin
<1>2. ASSUME NEW pw \in Passwords, SetupTransfer(pw) PROVE OpenInv'
  BY <1>2 DEF SetupTransfer, sessionVars
<1>3. ASSUME NEW pw \in Passwords, LoginEnd(pw) PROVE OpenInv'
  BY <1>3 DEF LoginEnd, S!LoginOk, S!LoginFail, S!create
<1>4. ASSUME NEW t \in Tokens, Refuse(t) \/ Logout(t) PROVE OpenInv'
  BY <1>4 DEF Refuse, Logout
<1>5. ASSUME NEW t \in Tokens, NEW next \in {"request", "catdel"}, Authed(t, next)
      PROVE  active' /\ task' = next
  BY <1>5 DEF Authed, S!Request, S!Accepts, S!validate, S!Expired
<1>6. ASSUME NEW t \in Tokens,
             \/ Read(t) \/ Wifi(t) \/ CatDelete(t)
             \/ \E table \in V!Tables : Edit(t, table)
             \/ \E pw \in Passwords : Reset(t, pw) \/ Export(t, pw)
             \/ \E cur, next \in Passwords : ChangePw(t, cur, next) \/ ChangeTransfer(t, cur, next)
      PROVE  OpenInv'
  BY <1>5, <1>6 DEF Read, Wifi, CatDelete, Edit, Reset, Export, ChangePw, ChangeTransfer
<1>7. ASSUME NEW t \in Tokens, NEW ms \in IdleInputs, IdleSet(t, ms) PROVE OpenInv'
  BY <1>7 DEF IdleSet, S!SetIdle, vaultVars
<1>8. CASE CatDeleteEntries \/ LoginBegin \/ Reply
  BY <1>8 DEF CatDeleteEntries, LoginBegin, Reply, V!Tables, sessionVars, vaultVars, ServerInv,
              S!LoginStart, S!LoginRejected, S!RequestEnd, S!sessionVars
<1>9. CASE SetupEnd
  BY <1>9 DEF SetupEnd, sessionVars, vaultVars, S!SetupOk, S!create, S!RequestEnd, S!sessionVars
<1>10. CASE IdleLock
  BY <1>10 DEF IdleLock, S!Poll, vaultVars
<1>11. CASE StoreStep
  BY <1>11, StoreEffects DEF StoreStep, sessionVars, ServerInv
<1>12. CASE Tick
  BY <1>12 DEF Tick, S!Tick, S!sessionVars, vaultVars
<1>13. CASE Reboot \/ Boot
  BY <1>13 DEF Reboot, Boot, sessionVars, ServerInv
<1>14. CASE UNCHANGED vars
  BY <1>14 DEF vars, sessionVars, vaultVars
<1> QED BY <1>1, <1>2, <1>3, <1>4, <1>6, <1>7, <1>8, <1>9, <1>10, <1>11, <1>12, <1>13, <1>14
        DEF Next

LEMMA OpenKeeps ==
  ASSUME "setup" \notin FaultOps
  PROVE  Spec => [](VP!TypeOK /\ VP!KeyInv /\ ServerInv /\ OpenInv)
<1>1. Init => OpenInv
  BY DEF Init, V!Init, OpenInv
<1>2. VP!TypeOK /\ VP!KeyInv /\ ServerInv /\ OpenInv /\ [Next]_vars => OpenInv'
  BY OpenNext
<1> QED BY <1>1, <1>2, ServerKeeps, PTL DEF Spec

THEOREM OpenVaultWillBeLocked ==
  ASSUME "setup" \notin FaultOps
  PROVE  Spec => []OpenVaultHasSession
<1>1. OpenInv => OpenVaultHasSession
  BY DEF OpenInv, OpenVaultHasSession, InSetup
<1> QED BY <1>1, OpenKeeps, PTL
-----------------------------------------------------------------------------
(***************************************************************************)
(* Whoever is logged in has a transfer password.  h_setup must get through *)
(* for that: its two store updates, or the factory reset that takes a half *)
(* of it back, are not cut short.  Outside h_setup a wrapped DEK implies a *)
(* transfer verifier: the erasures remove the wrapped DEK first, and       *)
(* set_transfer_password replaces the verifier in one write.               *)
(***************************************************************************)
SetupCompletes == {"setup", "wipe"} \cap FaultOps = {} /\ "setup" \notin CrashOps

TransferInv ==
  /\ V!is_initialized /\ task \notin InSetup => flash.tverif # Absent
  /\ task = "transfer" /\ op = "none" /\ result = "ok" => flash.tverif # Absent
  /\ task = "undo" /\ op = "none" => ~V!is_initialized
  /\ op = "transfer" => staged.tverif # Absent /\ (at > 2 => flash.tverif # Absent)
  /\ op \in {"wipe", "bootwipe"} /\ at > 3 => ~V!is_initialized

LEMMA VerifierIsBlob ==
  ASSUME NEW pw \in Passwords, NEW s \in Salts PROVE [pw |-> pw, salt |-> s] # Absent
  BY ComponentConstants DEF V!BlobsDiffer, V!Verifiers

LEMMA TransferStarts ==
  ASSUME VP!TypeOK, NEW pw \in Passwords, V!SetTransferPassword(pw)
  PROVE  at' = 1 /\ staged'.tverif # Absent
<1>1. PICK s \in Salts :
        V!Start("transfer", [flash EXCEPT !.tsalt = s, !.tverif = [pw |-> pw, salt |-> s]])
  BY DEF V!SetTransferPassword
<1>2. [flash EXCEPT !.tsalt = s, !.tverif = [pw |-> pw, salt |-> s]].tverif = [pw |-> pw, salt |-> s]
  BY DEF VP!TypeOK, VP!Flash
<1> QED BY <1>1, <1>2, VerifierIsBlob DEF V!Start

\* Where the verifier and the wrapped DEK are written.
LEMMA WhoWritesVerifier ==
  ASSUME NEW o \in VP!Writing, NEW i \in 1 .. Len(VP!Script[o])
  PROVE  /\ o = "transfer" => (i = 2 <=> VP!Script[o][i] = "tverif")
         /\ o = "transfer" /\ VP!Script[o][i] = "commit" => i = 3
         /\ o \in {"wipe", "bootwipe"} /\ VP!Script[o][i] = "tverif" => i = 8
         /\ VP!Script[o][i] = "tverif" => o \in {"transfer", "wipe", "bootwipe"}
<1>1. o \in {"setup", "change", "transfer", "entries", "cats", "wipe", "bootwipe"}
  BY VP!WritingOps, VaultAssumptions
<1>2. CASE o = "setup"    BY <1>2 DEF VP!Script
<1>3. CASE o = "change"   BY <1>3 DEF VP!Script
<1>4. CASE o = "transfer" BY <1>4 DEF VP!Script
<1>5. CASE o = "entries"  BY <1>5 DEF VP!Script
<1>6. CASE o = "cats"     BY <1>6 DEF VP!Script
<1>7. CASE o = "wipe"     BY <1>7 DEF VP!Script, VP!Erasures
<1>8. CASE o = "bootwipe" BY <1>8 DEF VP!Script, VP!Erasures
<1> QED BY <1>1, <1>2, <1>3, <1>4, <1>5, <1>6, <1>7, <1>8

LEMMA TransferWrite ==
  ASSUME VP!TypeOK, VP!KeyInv, ServerInv, TransferInv, VP!StoreWrite, UNCHANGED task
  PROVE  TransferInv'
<1>0. /\ op \in VP!Writing /\ at \in 1 .. Len(VP!Script[op]) /\ at \in Nat
      /\ at' = at + 1 /\ UNCHANGED <<op, staged, result>> /\ op # "none"
  <2>1. "none" \notin VP!Writing
    BY VP!WritingOps, VaultAssumptions
  <2> QED BY <2>1 DEF VP!StoreWrite, VP!TypeOK
<1>1. /\ \A k \in {"wdek", "tverif"} : k # VP!Call => flash'[k] = flash[k]
      /\ flash'[VP!Call] = staged[VP!Call]
  BY VP!WriteOne, VaultAssumptions DEF VP!Keys
<1>2. VP!KeyInv'
  BY VP!WdekWrite, VaultAssumptions
<1>3. staged = VP!Blank => staged.wdek = Absent
  BY DEF VP!Blank, VP!Keys
<1>4. CASE VP!Call = "wdek"
  <2>1. op \in {"setup", "change", "wipe", "bootwipe"} /\ at = 3
    BY <1>0, <1>4, VP!WhoWrites, VaultAssumptions DEF VP!Call
  <2>2. flash'.tverif = flash.tverif /\ flash'.wdek = staged.wdek
    BY <1>1, <1>4
  <2>3. CASE op = "setup"
    BY <1>0, <2>1, <2>2, <2>3 DEF TransferInv, ServerInv, InSetup, V!is_initialized
  <2>4. CASE op = "change"
    BY <1>0, <2>1, <2>2, <2>4 DEF TransferInv, VP!KeyInv, V!is_initialized, VP!is_initialized
  <2>5. CASE op \in {"wipe", "bootwipe"}
    BY <1>0, <1>3, <2>1, <2>2, <2>5 DEF TransferInv, VP!KeyInv, V!is_initialized
  <2> QED BY <2>1, <2>3, <2>4, <2>5
<1>5. CASE VP!Call # "wdek"
  <2>1. flash'.wdek = flash.wdek
    BY <1>1, <1>5
  <2>2. op \in {"wipe", "bootwipe"} => at # 3
    BY <1>0, <1>5, VP!EraseSteps, VaultAssumptions DEF VP!Call
  <2>3. CASE VP!Call = "tverif"
    <3>1. \/ op = "transfer"
          \/ op \in {"wipe", "bootwipe"} /\ at = 8
      BY <1>0, <2>3, WhoWritesVerifier DEF VP!Call
    <3>2. flash'.tverif = staged.tverif
      BY <1>1, <2>3
    <3> QED BY <1>0, <2>1, <2>2, <3>1, <3>2 DEF TransferInv, V!is_initialized
  <2>4. CASE VP!Call # "tverif"
    <3>1. op = "transfer" => at # 2
      BY <1>0, <2>4, WhoWritesVerifier DEF VP!Call
    <3>2. flash'.tverif = flash.tverif
      BY <1>1, <2>4
    <3> QED BY <1>0, <2>1, <2>2, <3>1, <3>2 DEF TransferInv, V!is_initialized
  <2> QED BY <2>3, <2>4
<1> QED BY <1>4, <1>5

LEMMA TransferCommit ==
  ASSUME VP!TypeOK, ServerInv, TransferInv, VP!StoreCommit, UNCHANGED task
  PROVE  TransferInv'
<1>0. op \in VP!Writing /\ at \in 1 .. Len(VP!Script[op]) /\ at \in Nat
  BY DEF VP!StoreCommit, VP!TypeOK
<1>1. op = "transfer" => at = 3
  BY <1>0, WhoWritesVerifier DEF VP!StoreCommit, VP!Call
<1>2. op \in {"wipe", "bootwipe"} => at = 9
  BY <1>0, VP!EraseSteps, VaultAssumptions DEF VP!StoreCommit, VP!Call
<1>3. "none" \notin VP!Writing
  BY VP!WritingOps, VaultAssumptions
<1>4. UNCHANGED flash /\ ((UNCHANGED <<op, staged>> /\ at' = at + 1) \/ op' = "none")
  BY DEF VP!StoreCommit
<1> QED BY <1>0, <1>1, <1>2, <1>3, <1>4 DEF TransferInv, ServerInv, InSetup, V!is_initialized

LEMMA TransferNext ==
  ASSUME SetupCompletes, VP!TypeOK, VP!KeyInv, ServerInv, OpenInv, TransferInv, [Next]_vars
  PROVE  TransferInv'
<1> USE CallEffects DEF InSetup, Free, TransferInv, V!is_initialized
<1>1. ASSUME NEW pw \in Passwords, SetupBegin(pw) PROVE TransferInv'
  BY <1>1 DEF SetupBegin
<1>2. ASSUME NEW pw \in Passwords, SetupTransfer(pw) PROVE TransferInv'
  BY <1>2, TransferStarts DEF SetupTransfer, OpenInv
<1>3. ASSUME NEW pw \in Passwords, LoginEnd(pw) PROVE TransferInv'
  BY <1>3 DEF LoginEnd
<1>4. ASSUME NEW t \in Tokens, Refuse(t) \/ Logout(t) \/ \E ms \in IdleInputs : IdleSet(t, ms)
      PROVE  TransferInv'
  BY <1>4 DEF Refuse, Logout, IdleSet, vaultVars
<1>5. ASSUME NEW t \in Tokens,
             \/ Read(t) \/ Wifi(t) \/ CatDelete(t)
             \/ \E table \in V!Tables : Edit(t, table)
             \/ \E pw \in Passwords : Reset(t, pw) \/ Export(t, pw)
             \/ \E cur, next \in Passwords : ChangePw(t, cur, next)
      PROVE  TransferInv'
  BY <1>5 DEF Read, Wifi, CatDelete, Edit, Reset, Export, ChangePw, Authed, V!Tables, vaultVars
<1>6. ASSUME NEW t \in Tokens, NEW cur \in Passwords, NEW next \in Passwords,
             ChangeTransfer(t, cur, next)
      PROVE  TransferInv'
  BY <1>6, TransferStarts DEF ChangeTransfer, Authed
<1>7. CASE CatDeleteEntries \/ LoginBegin \/ Reply \/ IdleLock \/ Tick
  BY <1>7 DEF CatDeleteEntries, LoginBegin, Reply, IdleLock, Tick, V!Tables, vaultVars
<1>8. CASE SetupEnd
  <2>1. V!FactoryReset => at' = 1
    BY DEF V!FactoryReset, V!Start
  <2> QED BY <1>8, <2>1 DEF SetupEnd, vaultVars
<1>9. CASE StoreStep
  <2>1. CASE V!StoreWrite
    BY <1>9, <2>1, SameStoreStep, TransferWrite DEF StoreStep
  <2>2. CASE V!StoreCommit
    BY <1>9, <2>2, SameStoreStep, TransferCommit DEF StoreStep
  <2>3. CASE V!StoreFault
    BY <1>9, <2>3, StoreEffects DEF StoreStep, ServerInv, SetupCompletes
  <2> QED BY <1>9, <2>1, <2>2, <2>3 DEF StoreStep
<1>10. CASE Reboot
  BY <1>10 DEF Reboot, SetupCompletes
<1>11. CASE Boot
  <2>1. V!Boot => op' = "none" \/ at' = 1
    BY DEF V!Boot, V!Start
  <2> QED BY <1>11, <2>1 DEF Boot, ServerInv
<1>12. CASE UNCHANGED vars
  BY <1>12 DEF vars, vaultVars
<1> QED BY <1>1, <1>2, <1>3, <1>4, <1>5, <1>6, <1>7, <1>8, <1>9, <1>10, <1>11, <1>12 DEF Next

LEMMA TransferInit == Init => TransferInv
<1> SUFFICES ASSUME Init PROVE TransferInv
  OBVIOUS
<1>1. V!is_initialized => flash.tverif # Absent
  <2>1. CASE flash = V!Blank
    BY <2>1 DEF V!Blank, V!Keys, V!is_initialized
  <2>2. ASSUME NEW pw \in Passwords, NEW s \in Salts, NEW i \in Iters, NEW d \in Deks,
               NEW fmt \in V!Formats \cup {Absent}, flash = V!OldVault(pw, s, i, d, fmt)
        PROVE  flash.tverif # Absent
    BY <2>2, VerifierIsBlob DEF V!OldVault
  <2> QED BY <2>1, <2>2 DEF Init, V!Init
<1> QED BY <1>1 DEF Init, V!Init, TransferInv

THEOREM SessionHasTransferPassword ==
  ASSUME SetupCompletes
  PROVE  Spec => []TransferPasswordSet
<1>1. "setup" \notin FaultOps
  BY DEF SetupCompletes
<1>2. Init => TransferInv
  BY TransferInit
<1>3. /\ VP!TypeOK /\ VP!KeyInv /\ ServerInv /\ OpenInv
      /\ TransferInv /\ [Next]_vars
      => TransferInv'
  BY TransferNext
<1>4. ServerInv /\ TransferInv => TransferPasswordSet
  BY DEF ServerInv, TransferInv, TransferPasswordSet
<1> QED BY <1>1, <1>2, <1>3, <1>4, OpenKeeps, PTL DEF Spec
-----------------------------------------------------------------------------
(***************************************************************************)
(* And what Session_proofs shows of the session holds in the server.       *)
(***************************************************************************)
SP == INSTANCE Session_proofs

LEMMA SameSession ==
  /\ SP!SessionConstants
  /\ S!Init => SP!Init
  /\ S!Next => SP!Next
  /\ SP!TypeOK => S!TypeOK
<1>1. SP!SessionConstants
  BY ComponentConstants DEF S!SessionConstants, SP!SessionConstants
<1>2. S!Init => SP!Init
  BY DEF S!Init, SP!Init, S!Clamp, SP!Clamp
<1>3. S!Next => SP!Next
  BY DEF S!Next, SP!Next, S!SetupStart, SP!SetupStart, S!LoginStart, SP!LoginStart,
         S!LoginRejected, SP!LoginRejected, S!LoginFail, SP!LoginFail, S!RequestEnd, SP!RequestEnd,
         S!SetupOk, SP!SetupOk, S!LoginOk, SP!LoginOk, S!Request, SP!Request, S!Logout, SP!Logout,
         S!SetIdle, SP!SetIdle, S!Poll, SP!Poll, S!Tick, SP!Tick, S!Reboot, SP!Reboot,
         S!Free, SP!Free, S!login_allowed, SP!login_allowed, S!LockedOut, SP!LockedOut,
         S!note_login_result, SP!note_login_result, S!create, SP!create, S!destroy, SP!destroy,
         S!validate, SP!validate, S!Expired, SP!Expired, S!Accepts, SP!Accepts,
         S!Clamp, SP!Clamp, S!sessionVars, SP!sessionVars
<1>4. SP!TypeOK => S!TypeOK
  BY DEF S!TypeOK, SP!TypeOK
<1> QED BY <1>1, <1>2, <1>3, <1>4
\* The steps of the server are steps of the session as Session_proofs has it.
LEMMA SessionRefined == Spec => SP!Spec
<1>1. Init => SP!Init
  BY SameSession DEF Init
<1>2. VP!TypeOK /\ VP!KeyInv /\ ServerInv /\ [Next]_vars => [SP!Next]_(SP!vars)
  BY SessionStep, SameSession DEF SP!vars, SP!sessionVars, sessionVars
<1> QED BY <1>1, <1>2, ServerKeeps, PTL DEF Spec, SP!Spec

(***************************************************************************)
(* The types, and the rule that the store is written only under a handler  *)
(* or by the boot.                                                         *)
(***************************************************************************)
THEOREM ServerTyped == Spec => []TypeOK
<1>1. SP!Spec => []SP!TypeOK
  BY SP!SessionTyped, SameSession
<1>2. V!Writing = {"setup", "change", "transfer", "entries", "cats", "wipe", "bootwipe"}
  BY DEF V!Writing, V!Script
<1>3. VP!TypeOK /\ SP!TypeOK /\ ServerInv => TypeOK
  BY <1>2, SameTypes, SameSession DEF ServerInv, TypeOK, InSetup
<1> QED BY <1>1, <1>3, SessionRefined, ServerKeeps, PTL

(***************************************************************************)
(* Guessing is bounded and the idle lock is prompt in the server as wired, *)
(* whatever the vault does meanwhile.                                      *)
(***************************************************************************)
THEOREM ServerGuardsLogins == Spec => [](S!LockoutHolds /\ S!LockoutEnds /\ S!PromptExpiry)
<1>1. SP!Spec => [](SP!LockoutHolds /\ SP!LockoutEnds /\ SP!PromptExpiry)
  BY SP!LockoutAlwaysHolds, SP!LockoutAlwaysEnds, SP!IdleLockIsPrompt, SameSession, PTL
<1>2. SP!LockoutHolds /\ SP!LockoutEnds /\ SP!PromptExpiry
        => S!LockoutHolds /\ S!LockoutEnds /\ S!PromptExpiry
  BY DEF SP!LockoutHolds, S!LockoutHolds, SP!LockoutEnds, S!LockoutEnds,
         SP!PromptExpiry, S!PromptExpiry, S!LockedOut, SP!LockedOut, S!Free, SP!Free
<1> QED BY <1>1, <1>2, SessionRefined, PTL
==============================================================================
