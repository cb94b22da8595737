------------------------------- MODULE Vault -------------------------------
(***************************************************************************)
(* The key lifecycle of components/vault/vault.cpp: the master password    *)
(* derives a KEK, the KEK wraps the DEK (blob "wdek"), the DEK seals the   *)
(* two tables (blobs "entries" and "cats"), and a transfer password has    *)
(* its own salt and verifier.  Everything durable lives in the NVS         *)
(* namespace "vault" (components/vault_store), one blob per key.           *)
(*                                                                         *)
(* Cryptography is symbolic.  A KEK is what it is derived from; the        *)
(* wrapped DEK is the pair of its KEK and DEK; a table blob is the DEK it  *)
(* is sealed under (what the tables hold is the subject of EntryTable).    *)
(* A fresh random salt or DEK is one that occurs nowhere in the state.     *)
(*                                                                         *)
(* Operations that write the store do so one nvs_set_blob or               *)
(* nvs_erase_key at a time.  NVS makes each of them durable at once, in    *)
(* order and atomically per key, so what a power loss or a store error     *)
(* leaves behind is a prefix of the operation's writes.  `op' names the    *)
(* operation under way and `at' the next step of its Script.               *)
(***************************************************************************)
EXTENDS Naturals, Sequences

CONSTANTS
  Passwords,           \* what a user may type
  Salts, Deks,         \* values crypto::random may draw
  Iters, ITERATIONS,   \* PBKDF2 counts; the one this firmware writes
  Absent,              \* no blob under this key
  Zeroed, Garbage,     \* a cleared DEK; the output of a failed unwrap
  FaultOps,            \* operations whose store calls may throw
  CrashOps,            \* operations power may be lost in
  LoginWhileUnlocked   \* may a login arrive while the vault is unlocked?

Keys    == {"salt", "iter", "wdek", "vfmt", "entries", "cats", "tsalt", "tverif"}
VAULT_FORMAT_VERSION == 2
Formats == {1, VAULT_FORMAT_VERSION}

ASSUME VaultConstants ==
  /\ ITERATIONS \in Iters
  /\ Absent \notin Salts \cup Iters \cup Deks \cup Formats \cup {Zeroed, Garbage}
  /\ Zeroed \notin Deks /\ Garbage \notin Deks /\ Zeroed # Garbage
  /\ LoginWhileUnlocked \in BOOLEAN

Keks      == [pw : Passwords, salt : Salts, iter : Iters]
Wrapped   == [kek : Keks, dek : Deks]
Verifiers == [pw : Passwords, salt : Salts]
DekValues == Deks \cup {Zeroed, Garbage}

ASSUME BlobsDiffer == Absent \notin Wrapped \cup Verifiers

Flash == [salt    : Salts \cup {Absent},     iter   : Iters \cup {Absent},
          wdek    : Wrapped \cup {Absent},   vfmt   : Formats \cup {Absent},
          entries : DekValues \cup {Absent}, cats   : DekValues \cup {Absent},
          tsalt   : Salts \cup {Absent},     tverif : Verifiers \cup {Absent}]

Blank == [k \in Keys |-> Absent]

VARIABLES
  flash,      \* the NVS namespace
  dek,        \* dek_
  unlocked,   \* unlocked_
  op, at,     \* the writing operation under way and its next store call
  staged,     \* the image of the store that operation is writing
  result      \* how the last call of the vault ended

vars == <<flash, dek, unlocked, op, at, staged, result>>

(***************************************************************************)
(* The store calls of each writing operation, in program order.  "commit"  *)
(* is nvs_commit: it can fail but has nothing left to make durable.        *)
(***************************************************************************)
\* Mutant (TablesReadable): factory_reset forgets the entries.
ErasuresKeepEntries == <<"salt", "iter", "wdek", "vfmt", "cats", "tsalt", "tverif", "commit">>

Erasures == <<"salt", "iter", "wdek", "vfmt", "entries", "cats", "tsalt", "tverif", "commit">>

\* Mutant (FormatMarked): setup marks the format when all else is done.
ScriptMarksLast ==
  [setup    |-> <<"salt", "iter", "wdek", "commit",
                  "cats", "commit", "entries", "commit", "vfmt">>,
   change   |-> <<"salt", "iter", "wdek", "commit">>,
   transfer |-> <<"tsalt", "tverif", "commit">>,
   entries  |-> <<"entries", "commit">>,
   cats     |-> <<"cats", "commit">>,
   wipe     |-> Erasures,
   bootwipe |-> Erasures]

\* Mutant (ImplementsSafe): a password change keeps the stored iteration count.
ScriptChangeKeepsCount ==
  [setup    |-> <<"salt", "iter", "wdek", "vfmt", "commit",
                  "cats", "commit", "entries", "commit">>,
   change   |-> <<"salt", "wdek", "commit">>,
   transfer |-> <<"tsalt", "tverif", "commit">>,
   entries  |-> <<"entries", "commit">>,
   cats     |-> <<"cats", "commit">>,
   wipe     |-> Erasures,
   bootwipe |-> Erasures]

Script ==
  [setup    |-> <<"salt", "iter", "wdek", "vfmt", "commit",
                  "cats", "commit", "entries", "commit">>,
   change   |-> <<"salt", "iter", "wdek", "commit">>,
   transfer |-> <<"tsalt", "tverif", "commit">>,
   entries  |-> <<"entries", "commit">>,
   cats     |-> <<"cats", "commit">>,
   wipe     |-> Erasures,
   bootwipe |-> Erasures]
Writing == DOMAIN Script
Tables  == {"entries", "cats"}

Idle == op = "none"

\* A wrapped DEK, in flash or on its way there, wraps a DEK that was drawn:
\* never a buffer that a lock has cleared or a failed login has spoilt.
TypeOK ==
  /\ flash \in Flash /\ staged \in Flash
  /\ dek \in DekValues
  /\ unlocked \in BOOLEAN
  /\ op \in Writing \cup {"none", "off"}
  /\ at \in 0 .. 9
  /\ op \in Writing => at \in 1 .. Len(Script[op])
  /\ result \in {"none", "ok", "false", "throw"}

(***************************************************************************)
(* What the blobs answer.                                                  *)
(***************************************************************************)
is_initialized == flash.wdek # Absent

\* Mutant (WrappedDekOpens): the iteration count of this firmware, always.
LoadKekOwnCount(pw) == [pw |-> pw, salt |-> flash.salt, iter |-> ITERATIONS]

\* load_kek: the stored count, or this firmware's if the key is missing.
load_kek(pw) == [pw |-> pw, salt |-> flash.salt,
                 iter |-> IF flash.iter = Absent THEN ITERATIONS ELSE flash.iter]

Unwraps(pw) == flash.wdek # Absent /\ flash.wdek.kek = load_kek(pw)

\* gcm_decrypt of a table blob: only the DEK it was sealed under opens it.
Loads(t, d) == flash[t] \in {Absent, d}

verify_transfer(pw) == /\ flash.tsalt # Absent
                       /\ flash.tverif = [pw |-> pw, salt |-> flash.tsalt]

FreshSalt(s)  == s # flash.salt /\ (flash.wdek # Absent => s # flash.wdek.kek.salt)
FreshTSalt(s) == s # flash.tsalt /\ (flash.tverif # Absent => s # flash.tverif.salt)
FreshDek(d)   == d \notin {flash.entries, flash.cats}

(***************************************************************************)
(* The device at its first boot with this firmware: never set up, or       *)
(* carrying a vault an earlier build left (an older or unmarked format, or *)
(* this format with another iteration count).                              *)
(***************************************************************************)
OldVault(pw, s, i, d, fmt) ==
  [salt |-> s, iter |-> i, wdek |-> [kek |-> [pw |-> pw, salt |-> s, iter |-> i], dek |-> d],
   vfmt |-> fmt, entries |-> d, cats |-> d,
   tsalt |-> s, tverif |-> [pw |-> pw, salt |-> s]]

Init ==
  /\ \/ flash = Blank
     \/ \E pw \in Passwords, s \in Salts, i \in Iters, d \in Deks, fmt \in Formats \cup {Absent} :
          flash = OldVault(pw, s, i, d, fmt)
  /\ dek = Zeroed /\ unlocked = FALSE
  /\ op = "off" /\ at = 0 /\ staged = Blank
  /\ result = "none"

(***************************************************************************)
(* Calls that only touch RAM or fail before their first write.             *)
(***************************************************************************)
Return(r) == result' = r /\ UNCHANGED <<flash, op, at, staged>>

\* Begin the store calls of operation o, which will leave the image `next'.
Start(o, next) == /\ op' = o /\ at' = 1
                  /\ staged' = next
                  /\ result' = "none"
                  /\ UNCHANGED flash

\* Mutant (DekOnlyWhileUnlocked): lock does not wipe dek_.
LockedNotWiped == unlocked' = FALSE /\ UNCHANGED dek

Locked == dek' = Zeroed /\ unlocked' = FALSE

Lock == /\ Idle
        /\ Locked
        /\ Return("ok")

\* Mutant (DekStable): setup goes ahead on a vault that is set up.
SetupAgain(pw) ==
  /\ Idle
  /\ \E s \in Salts, d \in Deks :
       /\ FreshSalt(s) /\ FreshDek(d)
       /\ dek' = d
       /\ Start("setup", [flash EXCEPT
            !.salt = s, !.iter = ITERATIONS, !.vfmt = VAULT_FORMAT_VERSION,
            !.wdek = [kek |-> [pw |-> pw, salt |-> s, iter |-> ITERATIONS], dek |-> d],
            !.cats = d, !.entries = d])
  /\ UNCHANGED unlocked

\* setup refuses a vault that already has a wrapped DEK.  dek_create puts the
\* new DEK into dek_ before anything is written.
Setup(pw) ==
  /\ Idle
  /\ \/ /\ is_initialized \/ "setup" \in FaultOps
        /\ Return("throw")
        /\ UNCHANGED <<dek, unlocked>>
     \/ /\ ~is_initialized
        /\ \E s \in Salts, d \in Deks :
             /\ FreshSalt(s) /\ FreshDek(d)
             /\ dek' = d
             /\ Start("setup", [flash EXCEPT
                  !.salt = s, !.iter = ITERATIONS, !.vfmt = VAULT_FORMAT_VERSION,
                  !.wdek = [kek |-> [pw |-> pw, salt |-> s, iter |-> ITERATIONS], dek |-> d],
                  !.cats = d, !.entries = d])
        /\ UNCHANGED unlocked

\* Before the unwrap: not initialized, no salt, or a store read that throws.
UnlockRefused ==
  /\ Idle
  /\ ~is_initialized \/ flash.salt = Absent \/ "unlock" \in FaultOps
  /\ Return("throw")
  /\ UNCHANGED <<dek, unlocked>>

\* dek_unwrap decrypts straight into dek_ and checks the tag afterwards, so a
\* wrong password may leave unauthenticated output there; unlocked_ stays.
UnlockWrong(pw) ==
  /\ Idle
  /\ is_initialized /\ flash.salt # Absent
  /\ unlocked => LoginWhileUnlocked
  /\ ~Unwraps(pw)
  /\ dek' \in {dek, Garbage}
  /\ Return("false")
  /\ UNCHANGED unlocked

UnlockRight(pw) ==
  /\ Idle
  /\ is_initialized /\ flash.salt # Absent
  /\ unlocked => LoginWhileUnlocked
  /\ Unwraps(pw)
  /\ \/ /\ Loads("entries", flash.wdek.dek) /\ Loads("cats", flash.wdek.dek)
        /\ dek' = flash.wdek.dek /\ unlocked' = TRUE
        /\ Return("ok")
     \/ /\ \/ ~Loads("entries", flash.wdek.dek) \/ ~Loads("cats", flash.wdek.dek)
           \/ "unlock" \in FaultOps
        /\ Locked
        /\ Return("throw")

\* Mutant (KeyAgreement): a new password gets a new DEK.
ChangePasswordAndDek(cur, next) ==
  /\ Idle
  /\ flash.salt # Absent /\ Unwraps(cur)
  /\ \E s \in Salts, d \in Deks :
       /\ FreshSalt(s) /\ FreshDek(d)
       /\ Start("change", [flash EXCEPT
            !.salt = s, !.iter = ITERATIONS,
            !.wdek = [kek |-> [pw |-> next, salt |-> s, iter |-> ITERATIONS], dek |-> d]])
  /\ UNCHANGED <<dek, unlocked>>

\* Mutant (TypeOK): the DEK is taken from RAM, where a lock or a failed login
\* has left zeros or garbage.
ChangePasswordRamDek(cur, next) ==
  /\ Idle
  /\ flash.salt # Absent /\ Unwraps(cur)
  /\ \E s \in Salts :
       /\ FreshSalt(s)
       /\ Start("change", [flash EXCEPT
            !.salt = s, !.iter = ITERATIONS,
            !.wdek = [kek |-> [pw |-> next, salt |-> s, iter |-> ITERATIONS], dek |-> dek]])
  /\ UNCHANGED <<dek, unlocked>>

\* change_password proves the current password by unwrapping into a local
\* buffer and re-wraps the SAME DEK under a fresh salt.
ChangePassword(cur, next) ==
  /\ Idle
  /\ \/ /\ flash.salt = Absent \/ "change" \in FaultOps
        /\ Return("throw")
     \/ flash.salt # Absent /\ ~Unwraps(cur) /\ Return("false")
     \/ /\ flash.salt # Absent /\ Unwraps(cur)
        /\ \E s \in Salts :
             /\ FreshSalt(s)
             /\ Start("change", [flash EXCEPT
                  !.salt = s, !.iter = ITERATIONS,
                  !.wdek = [kek |-> [pw |-> next, salt |-> s, iter |-> ITERATIONS],
                            dek |-> flash.wdek.dek]])
  /\ UNCHANGED <<dek, unlocked>>

\* Mutant (TransferVerifiable): the fresh salt is not stored.
SetTransferKeepSalt(pw) ==
  /\ Idle
  /\ \E s \in Salts :
       /\ FreshTSalt(s)
       /\ Start("transfer", [flash EXCEPT !.tverif = [pw |-> pw, salt |-> s]])
  /\ UNCHANGED <<dek, unlocked>>

SetTransferPassword(pw) ==
  /\ Idle
  /\ \E s \in Salts :
       /\ FreshTSalt(s)
       /\ Start("transfer", [flash EXCEPT !.tsalt = s, !.tverif = [pw |-> pw, salt |-> s]])
  /\ UNCHANGED <<dek, unlocked>>

\* persist_entries / persist_cats, the tail of every edit of a table.
Persist(t) ==
  /\ Idle
  /\ unlocked
  /\ Start(t, [flash EXCEPT ![t] = dek])
  /\ UNCHANGED <<dek, unlocked>>

\* Mutant (UnlockedIsSetUp): the reset does not lock.
FactoryResetOpen == /\ Idle
                    /\ Start("wipe", Blank)
                    /\ UNCHANGED <<dek, unlocked>>

FactoryReset == /\ Idle
                /\ Locked
                /\ Start("wipe", Blank)

(***************************************************************************)
(* The store calls.                                                        *)
(***************************************************************************)
Call == Script[op][at]

StoreWrite ==
  /\ op \in Writing
  /\ Call \in Keys
  /\ flash' = [flash EXCEPT ![Call] = staged[Call]]
  /\ at' = at + 1
  /\ UNCHANGED <<dek, unlocked, op, staged, result>>

\* setup opens the vault at its first commit and goes on to the tables.
StoreCommit ==
  /\ op \in Writing
  /\ Call = "commit"
  /\ unlocked' = (unlocked \/ op = "setup")
  /\ IF at < Len(Script[op])
       THEN at' = at + 1 /\ UNCHANGED <<op, staged, result>>
       ELSE op' = "none" /\ at' = 0 /\ staged' = Blank /\ result' = "ok"
  /\ UNCHANGED <<flash, dek>>

\* A store call throws: NVS keeps the old value of the key, and the rest of
\* the operation does not run.  During boot the exception reaches app_main,
\* which aborts.
StoreFault ==
  /\ op \in Writing /\ op \in FaultOps
  /\ IF op = "bootwipe" THEN op' = "off" /\ result' = "none"
                        ELSE op' = "none" /\ result' = "throw"
  /\ at' = 0 /\ staged' = Blank
  /\ UNCHANGED <<flash, dek, unlocked>>

(***************************************************************************)
(* Power.                                                                  *)
(***************************************************************************)
PowerLoss ==
  /\ op = "none" \/ (op \in Writing /\ op \in CrashOps)
  /\ Locked
  /\ op' = "off" /\ at' = 0 /\ staged' = Blank /\ result' = "none"
  /\ UNCHANGED flash

\* Vault::init: a vault of another format is wiped before anything is served.
Boot ==
  /\ op = "off"
  /\ IF is_initialized /\ flash.vfmt # VAULT_FORMAT_VERSION
       THEN Start("bootwipe", Blank)
       ELSE op' = "none" /\ UNCHANGED <<flash, at, staged, result>>
  /\ UNCHANGED <<dek, unlocked>>

Next ==
  \/ Lock \/ UnlockRefused \/ FactoryReset
  \/ \E pw \in Passwords : Setup(pw) \/ UnlockWrong(pw) \/ UnlockRight(pw)
                            \/ SetTransferPassword(pw)
  \/ \E cur, next \in Passwords : ChangePassword(cur, next)
  \/ \E t \in Tables : Persist(t)
  \/ StoreWrite \/ StoreCommit \/ StoreFault
  \/ PowerLoss \/ Boot

Spec == Init /\ [][Next]_vars

-----------------------------------------------------------------------------
(***************************************************************************)
(* What holds whatever fails, and however logins arrive.                   *)
(***************************************************************************)

\* A wrapped DEK is never replaced by one that wraps another DEK: setup
\* refuses an initialized device and change_password re-wraps the same key,
\* so the only way to a new DEK is through the erasures of factory_reset.
DekStable ==
  [][is_initialized /\ is_initialized' => flash'.wdek.dek = flash.wdek.dek]_vars

\* The vault is open only while a wrapped DEK is stored: setup opens it after
\* the write, and factory_reset locks before the first erasure.
UnlockedIsSetUp == unlocked => is_initialized

(***************************************************************************)
(* What holds as long as the multi-blob updates named in FaultOps and      *)
(* CrashOps are not cut short, and no login arrives at an open vault.      *)
(***************************************************************************)

\* An open vault seals its tables under the DEK that a later unlock recovers.
KeyAgreement == unlocked => is_initialized /\ dek = flash.wdek.dek

\* What is stored can be read back: both tables are sealed under the wrapped
\* DEK (or were never written).
TablesReadable ==
  is_initialized => \A t \in Tables : Loads(t, flash.wdek.dek)

\* Some password opens a vault of the current format: salt, iteration count
\* and wrapped DEK on flash belong to the same derivation.
WrappedDekOpens ==
  /\ is_initialized
  /\ flash.vfmt = VAULT_FORMAT_VERSION
  /\ op \notin {"change", "wipe"}
  => \E pw \in Passwords : Unwraps(pw)

\* A vault that can be used is marked with the current format, so the next
\* boot does not take it for an old one and wipe it.
FormatMarked == unlocked => flash.vfmt = VAULT_FORMAT_VERSION

\* The DEK is in RAM only while the vault is unlocked (or being set up).
DekOnlyWhileUnlocked == dek \in Deks /\ op # "setup" => unlocked

\* Once a transfer password was stored, some transfer password verifies.
TransferVerifiable ==
  flash.tsalt # Absent /\ op \notin {"transfer", "wipe", "bootwipe"}
  => \E pw \in Passwords : verify_transfer(pw)
=============================================================================
