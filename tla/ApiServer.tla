----------------------------- MODULE ApiServer -----------------------------
(***************************************************************************)
(* The HTTPS handlers of components/vault_api over the vault and the       *)
(* session, as main/main.cpp wires them: the session's expiry callback     *)
(* locks the vault.  Handlers and the idle check run one at a time on the  *)
(* httpd task; a handler that writes the store goes through the vault's    *)
(* store calls one by one, and h_setup chains several vault operations.    *)
(*                                                                         *)
(* The vault is V (module Vault) and the session S (module Session).  The  *)
(* control of a handler that spans several steps is `task'.                *)
(***************************************************************************)
EXTENDS Naturals, Sequences

CONSTANTS
  Passwords, Salts, Deks, Iters, ITERATIONS, Absent, Zeroed, Garbage,
  FaultOps, CrashOps, LoginWhileUnlocked,
  Tokens, NoToken, MAX_FAILS, LOCKOUT, IDLE_MIN, IDLE_DEFAULT, IDLE_MAX,
  POLL, HOLD, IdleInputs, MaxTime

VARIABLES
  flash, dek, unlocked, op, at, staged, result,
  token, active, lastSeen, failCount, lockoutUntil, idleMs,
  now, holder, spent, pollDue, timer, fails,
  task        \* the handler under way, and for h_setup which call it is in

vaultVars   == <<flash, dek, unlocked, op, at, staged, result>>
sessionVars == <<token, active, lastSeen, failCount, lockoutUntil, idleMs,
                 now, holder, spent, pollDue, timer, fails>>
vars        == <<vaultVars, sessionVars, task>>

V == INSTANCE Vault
S == INSTANCE Session

ASSUME ComponentConstants == V!VaultConstants /\ V!BlobsDiffer /\ S!SessionConstants

InSetup == {"setup", "transfer", "undo"}
Serving == op # "off" /\ op # "bootwipe"
Free    == task = "none" /\ op = "none"

\* The store is written, and the task held, only under a handler (or at boot).
TypeOK ==
  /\ V!TypeOK /\ S!TypeOK
  /\ task \in {"none", "login", "request", "catdel"} \cup InSetup
  /\ op \in V!Writing \ {"bootwipe"} => task # "none"
  /\ holder = CASE task \in InSetup  -> "setup"
                [] task = "catdel" -> "request"
                [] OTHER           -> task

Init == V!Init /\ S!Init /\ task = "none"

(***************************************************************************)
(* h_setup: the vault, then the transfer password; if that fails, a        *)
(* factory reset; a session at the end.                                    *)
(***************************************************************************)
SetupBegin(pw) ==
  /\ Free
  /\ V!Setup(pw)
  /\ IF op' = "setup" THEN task' = "setup" /\ holder' = "setup"
                      ELSE UNCHANGED <<task, holder>>
  /\ UNCHANGED <<token, active, lastSeen, failCount, lockoutUntil, idleMs,
                 now, spent, pollDue, timer, fails>>

\* A failed setup is answered "already initialized" and left as it is.
SetupTransfer(tpw) ==
  /\ task = "setup" /\ op = "none"
  /\ \/ /\ result = "ok"
        /\ V!SetTransferPassword(tpw)
        /\ task' = "transfer"
        /\ UNCHANGED sessionVars
     \/ /\ result = "throw"
        /\ S!RequestEnd
        /\ task' = "none"
        /\ UNCHANGED vaultVars

\* Mutant (TransferPasswordSet): the failure of the second half is ignored.
SetupEndNoUndo ==
  /\ task = "transfer" /\ op = "none"
  /\ \E t \in Tokens : S!SetupOk(t)
  /\ task' = "none"
  /\ UNCHANGED vaultVars

\* Mutant (SessionMeansSetUp): after the factory reset a session is created.
SetupEndFallsThrough ==
  \/ /\ task = "transfer" /\ op = "none" /\ result = "throw"
     /\ V!FactoryReset
     /\ task' = "undo"
     /\ UNCHANGED sessionVars
  \/ /\ task = "undo" /\ op = "none"
     /\ \E t \in Tokens : S!SetupOk(t)
     /\ task' = "none"
     /\ UNCHANGED vaultVars

SetupEnd ==
  \/ /\ task = "transfer" /\ op = "none" /\ result = "ok"
     /\ \E t \in Tokens : S!SetupOk(t)
     /\ task' = "none"
     /\ UNCHANGED vaultVars
  \/ /\ task = "transfer" /\ op = "none" /\ result = "throw"
     /\ V!FactoryReset
     /\ task' = "undo"
     /\ UNCHANGED sessionVars
  \/ /\ task = "undo" /\ op = "none"
     /\ S!RequestEnd
     /\ task' = "none"
     /\ UNCHANGED vaultVars

(***************************************************************************)
(* h_login.  An exception from unlock counts as a wrong password.          *)
(***************************************************************************)
LoginBegin ==
  /\ Free
  /\ \/ S!LoginStart /\ task' = "login"
     \/ S!LoginRejected /\ UNCHANGED task
  /\ UNCHANGED vaultVars

\* Mutant (DrivesSession): an exception leaves h_login before it is counted.
LoginEndUncounted(pw) ==
  /\ task = "login"
  /\ V!UnlockRight(pw) \/ V!UnlockWrong(pw) \/ V!UnlockRefused
  /\ IF result' = "ok" THEN \E t \in Tokens : S!LoginOk(t)
                      ELSE /\ holder' = "none" /\ spent' = 0
                           /\ UNCHANGED <<token, active, lastSeen, failCount, lockoutUntil,
                                          idleMs, now, pollDue, timer, fails>>
  /\ task' = "none"

LoginEnd(pw) ==
  /\ task = "login"
  /\ V!UnlockRight(pw) \/ V!UnlockWrong(pw) \/ V!UnlockRefused
  /\ IF result' = "ok" THEN \E t \in Tokens : S!LoginOk(t) ELSE S!LoginFail
  /\ task' = "none"

(***************************************************************************)
(* Authenticated handlers.                                                 *)
(***************************************************************************)
\* authed() finds the session expired: the callback locks the vault.
Refuse(t) ==
  /\ Free
  /\ S!Expired /\ S!Request(t)
  /\ V!Lock
  /\ UNCHANGED task

\* authed() accepts, and the handler holds the task until Reply.
Authed(t, next) == /\ Free
                   /\ S!Accepts(t) /\ S!Request(t)
                   /\ holder' = "request" /\ task' = next

\* Mutant (TypeOK): the answer does not wait for the save.
ReplyEarly == /\ task \in {"request", "catdel"}
              /\ S!RequestEnd
              /\ task' = "none"
              /\ UNCHANGED vaultVars

Reply == /\ task \in {"request", "catdel"} /\ op = "none"
         /\ S!RequestEnd
         /\ task' = "none"
         /\ UNCHANGED vaultVars

\* h_state, the lists and h_entry_secret; and every handler that finds its body
\* malformed, its password wrong or the vault locked.
Read(t) == Authed(t, "request") /\ UNCHANGED vaultVars

\* h_export reads everything, behind the transfer password.
Export(t, tpw) == Authed(t, "request") /\ V!verify_transfer(tpw) /\ UNCHANGED vaultVars

\* h_wifi_get and h_wifi_set.  What the second one stores, and the restart it
\* arms, are in Settings; here the restart is a Reboot, at any later moment.
Wifi(t) == Authed(t, "request") /\ UNCHANGED vaultVars

\* h_entries_add, h_entry_update, h_entry_delete, h_cats_add and h_import end
\* in saving a table (what the tables hold is in EntryTable).
Edit(t, table) == Authed(t, "request") /\ V!Persist(table)

\* h_cat_delete saves the categories and, if entries moved, the entries.
CatDelete(t) == Authed(t, "catdel") /\ V!Persist("cats")

CatDeleteEntries == /\ task = "catdel" /\ op = "none" /\ result = "ok"
                    /\ V!Persist("entries")
                    /\ task' = "request"
                    /\ UNCHANGED sessionVars

\* h_reset deletes every entry, behind the transfer password.
Reset(t, tpw) == Authed(t, "request") /\ V!verify_transfer(tpw) /\ V!Persist("entries")

ChangePw(t, cur, next) == Authed(t, "request") /\ V!ChangePassword(cur, next)

ChangeTransfer(t, cur, next) ==
  /\ Authed(t, "request")
  /\ V!verify_transfer(cur)
  /\ V!SetTransferPassword(next)

IdleSet(t, ms) == Free /\ S!SetIdle(t, ms) /\ UNCHANGED <<vaultVars, task>>

\* Mutant (OpenVaultHasSession): logout forgets the vault.
LogoutSessionOnly(t) == Free /\ S!Logout(t) /\ UNCHANGED <<vaultVars, task>>

Logout(t) == Free /\ S!Logout(t) /\ V!Lock /\ UNCHANGED task

\* Mutant (DrivesVault): the check runs on the timer task, beside the handlers.
IdleLockOnTimer ==
  /\ pollDue /\ pollDue' = FALSE
  /\ IF S!Expired THEN S!destroy /\ V!Locked
                  ELSE UNCHANGED <<token, active, dek, unlocked>>
  /\ UNCHANGED <<flash, op, at, staged, result, lastSeen, failCount, lockoutUntil,
                 idleMs, now, holder, spent, timer, fails, task>>

\* idle_lock_work, queued to the httpd task by the idle timer.
IdleLock ==
  /\ Free
  /\ S!Poll
  /\ IF S!Expired THEN V!Lock ELSE UNCHANGED vaultVars
  /\ UNCHANGED task

(***************************************************************************)
(* The store, the clock and power.                                         *)
(***************************************************************************)
StoreStep == /\ V!StoreWrite \/ V!StoreCommit \/ V!StoreFault
             /\ UNCHANGED <<sessionVars, task>>

Tick == Serving /\ S!Tick /\ UNCHANGED <<vaultVars, task>>

\* Power loss, or the restart that follows a change of the Wi-Fi settings.
Reboot == /\ task \in InSetup => "setup" \in CrashOps
          /\ V!PowerLoss /\ S!Reboot /\ task' = "none"

Boot == V!Boot /\ UNCHANGED <<sessionVars, task>>

Next ==
  \/ \E pw \in Passwords : SetupBegin(pw) \/ SetupTransfer(pw) \/ LoginEnd(pw)
  \/ \E t \in Tokens : Refuse(t) \/ Read(t) \/ Wifi(t) \/ CatDelete(t) \/ Logout(t)
  \/ \E t \in Tokens, table \in V!Tables : Edit(t, table)
  \/ \E t \in Tokens, pw \in Passwords : Reset(t, pw) \/ Export(t, pw)
  \/ \E t \in Tokens, cur, next \in Passwords : ChangePw(t, cur, next) \/ ChangeTransfer(t, cur, next)
  \/ \E t \in Tokens, ms \in IdleInputs : IdleSet(t, ms)
  \/ CatDeleteEntries \/ SetupEnd \/ LoginBegin \/ Reply \/ IdleLock
  \/ StoreStep \/ Tick \/ Reboot \/ Boot

Spec == Init /\ [][Next]_vars

-----------------------------------------------------------------------------
\* The composition drives each component only as its own specification allows:
\* no handler calls the vault while another one is writing, every session is
\* created where Session expects it.  What Vault and Session guarantee on
\* their own therefore holds in the server.
DrivesVault   == V!Spec
DrivesSession == S!Spec

\* Between handlers an open vault has a session, so the idle lock will close
\* it: expiry, logout, a reload that fails and setup all keep the two in step.
OpenVaultHasSession == unlocked /\ task = "none" => active

\* A session exists only on a device that is set up, so h_setup never runs,
\* nor holds the httpd task, under a session.
SessionMeansSetUp == active => V!is_initialized

\* A user who is logged in has a transfer password to export, reset or rotate
\* with: setup never leaves a usable vault without one.
TransferPasswordSet == active => flash.tverif # Absent
=============================================================================
