-------------------------- MODULE VaultWhole_proofs --------------------------
(***************************************************************************)
(* Theorems about Vault that hold when one multi-blob update runs to its   *)
(* end: the marking of the format and the hygiene of dek_ when setup does, *)
(* the transfer password when its own update and the erasures do.          *)
(***************************************************************************)
EXTENDS Vault_proofs

\* What Setup stages, when it does not refuse.
LEMMA SetupStages ==
  ASSUME TypeOK, NEW pw \in Passwords, Setup(pw),
         ~(Return("throw") /\ UNCHANGED <<dek, unlocked>>)
  PROVE  /\ op' = "setup" /\ at' = 1 /\ flash' = flash /\ op = "none"
         /\ ~is_initialized /\ unlocked' = unlocked
         /\ staged'.vfmt = VAULT_FORMAT_VERSION
<1>1. PICK s \in Salts, d \in Deks :
        Start("setup", [flash EXCEPT
              !.salt = s, !.iter = ITERATIONS, !.vfmt = VAULT_FORMAT_VERSION,
              !.wdek = [kek |-> [pw |-> pw, salt |-> s, iter |-> ITERATIONS], dek |-> d],
              !.cats = d, !.entries = d])
  BY DEF Setup
<1>2. staged'.vfmt = VAULT_FORMAT_VERSION
  BY <1>1 DEF Start, TypeOK, Flash
<1> QED BY <1>1, <1>2 DEF Start, Setup, Idle

-----------------------------------------------------------------------------
(***************************************************************************)
(* The format marker.  setup writes it after the wrapped DEK and before    *)
(* the commit that opens the vault, and the erasures remove it after the   *)
(* wrapped DEK; so a wrapped DEK outside of boot and setup has its marker, *)
(* unless a setup stopped between the two and was not cleared by a boot.   *)
(***************************************************************************)
MarkInv ==
  /\ op \notin {"off", "bootwipe", "setup"} /\ is_initialized
       => flash.vfmt = VAULT_FORMAT_VERSION
  /\ op = "setup" => /\ staged.vfmt = VAULT_FORMAT_VERSION
                     /\ at > 4 => flash.vfmt = VAULT_FORMAT_VERSION
                     /\ unlocked => at > 4
  /\ op \in {"wipe", "bootwipe"} /\ at > 3 => ~is_initialized

\* The steps at which a setup marks the format and commits.
LEMMA MarkSteps ==
  ASSUME NEW i \in 1 .. Len(Script["setup"])
  PROVE  /\ i = 4 <=> Script["setup"][i] = "vfmt"
         /\ Script["setup"][i] = "commit" => i > 4
  BY DEF Script

LEMMA MarkWrite ==
  ASSUME TypeOK, KeyInv, MarkInv, StoreWrite
  PROVE  MarkInv'
<1> USE DEF TypeOK, is_initialized
<1>0. op \in Writing /\ at \in 1 .. Len(Script[op]) /\ at \in Nat /\ at' = at + 1
  BY DEF StoreWrite
<1>s. UNCHANGED <<unlocked, op, staged>>
  BY DEF StoreWrite
<1>w. /\ flash'.wdek = IF Call = "wdek" THEN staged.wdek ELSE flash.wdek
      /\ flash'.vfmt = IF Call = "vfmt" THEN staged.vfmt ELSE flash.vfmt
  BY WriteOne DEF Keys
<1>1. CASE op = "setup"
  <2>1. at = 4 <=> Call = "vfmt"
    BY <1>0, <1>1, MarkSteps DEF Call
  <2> QED BY <1>0, <1>1, <1>s, <1>w, <2>1 DEF MarkInv
<1>2. CASE op = "change"
  <2>1. Call # "vfmt"
    BY <1>0, <1>2 DEF Call, Script
  <2>2. is_initialized
    BY <1>2 DEF KeyInv
  <2> QED BY <1>2, <1>s, <1>w, <2>1, <2>2 DEF MarkInv
<1>3. CASE op \in {"wipe", "bootwipe"}
  <2>1. staged.wdek = Absent
    BY <1>3 DEF KeyInv, Blank, Keys
  <2>2. (at = 3 <=> Call = "wdek") /\ (Call = "vfmt" => at = 4)
    BY <1>0, <1>3, KeySteps DEF Call
  <2>3. at' > 3 => ~is_initialized'
    BY <1>0, <1>3, <1>w, <2>1, <2>2 DEF MarkInv
  <2>4. op = "wipe" /\ is_initialized' => flash'.vfmt = VAULT_FORMAT_VERSION
    BY <1>0, <1>w, <2>1, <2>2, <2>3 DEF MarkInv
  <2> QED BY <1>3, <1>s, <2>3, <2>4 DEF MarkInv
<1>4. CASE op \in Tables \cup {"transfer"}
  <2>1. Call \notin {"wdek", "vfmt"}
    BY <1>0, <1>4, KeySteps DEF Call, Tables
  <2> QED BY <1>4, <1>s, <1>w, <2>1 DEF MarkInv, Tables
<1> QED BY <1>0, <1>1, <1>2, <1>3, <1>4, WritingOps DEF Tables

LEMMA MarkNext ==
  ASSUME "setup" \notin FaultOps, TypeOK, KeyInv, MarkInv, [Next]_vars
  PROVE  MarkInv'
<1> USE DEF MarkInv, is_initialized
<1>1. CASE Lock
  BY <1>1 DEF Lock, Locked, Return, Idle
<1>2. CASE UnlockRefused
  BY <1>2 DEF UnlockRefused, Return, Idle
<1>3. CASE FactoryReset
  BY <1>3 DEF FactoryReset, Start, Idle
<1>4. ASSUME NEW pw \in Passwords, Setup(pw) PROVE MarkInv'
  <2>1. CASE Return("throw") /\ UNCHANGED <<dek, unlocked>>
    BY <1>4, <2>1 DEF Return, Setup, Idle
  <2>2. CASE ~(Return("throw") /\ UNCHANGED <<dek, unlocked>>)
    <3>1. ~unlocked
      BY <1>4, <2>2, SetupStages DEF KeyInv, UnlockedIsSetUp
    <3> QED BY <1>4, <2>2, <3>1, SetupStages
  <2> QED BY <2>1, <2>2
<1>5. ASSUME NEW pw \in Passwords, UnlockWrong(pw) PROVE MarkInv'
  BY <1>5 DEF UnlockWrong, Return, Idle
<1>6. ASSUME NEW pw \in Passwords, UnlockRight(pw) PROVE MarkInv'
  BY <1>6 DEF UnlockRight, Return, Idle
<1>7. ASSUME NEW pw \in Passwords, SetTransferPassword(pw) PROVE MarkInv'
  BY <1>7 DEF SetTransferPassword, Start, Idle
<1>8. ASSUME NEW cur \in Passwords, NEW next \in Passwords, ChangePassword(cur, next)
      PROVE  MarkInv'
  BY <1>8 DEF ChangePassword, Return, Start, Idle
<1>9. ASSUME NEW t \in Tables, Persist(t) PROVE MarkInv'
  BY <1>9 DEF Persist, Start, Idle, Tables
<1>10. CASE StoreWrite
  BY <1>10, MarkWrite
<1>11. CASE StoreCommit
  <2>1. op = "setup" => at > 4
    BY <1>11, MarkSteps DEF StoreCommit, Call, TypeOK
  <2>2. op \in {"wipe", "bootwipe"} => ~is_initialized
    BY <1>11, EraseSteps DEF StoreCommit, Call, TypeOK
  <2>3. CASE at < Len(Script[op])
    <3>1. flash' = flash /\ op' = op /\ staged' = staged /\ at' = at + 1 /\ at \in 0 .. 9
      BY <1>11, <2>3 DEF StoreCommit, TypeOK
    <3>2. op = "setup" => at' > 4
      BY <2>1, <3>1
    <3>3. op \in {"wipe", "bootwipe"} => ~is_initialized'
      BY <2>2, <3>1
    <3> QED BY <2>1, <3>1, <3>2, <3>3
  <2>4. CASE ~(at < Len(Script[op]))
    BY <1>11, <2>1, <2>2, <2>4, WritingOps DEF StoreCommit
  <2> QED BY <2>3, <2>4
<1>12. CASE StoreFault
  BY <1>12, WritingOps DEF StoreFault
<1>13. CASE PowerLoss
  BY <1>13 DEF PowerLoss
<1>14. CASE Boot
  BY <1>14 DEF Boot, Start
<1>15. CASE UNCHANGED vars
  BY <1>15 DEF vars
<1> QED BY <1>1, <1>2, <1>3, <1>4, <1>5, <1>6, <1>7, <1>8, <1>9, <1>10, <1>11,
           <1>12, <1>13, <1>14, <1>15 DEF Next

(***************************************************************************)
(* If no store call of a setup fails, a vault that opens is marked with    *)
(* the current format: no power loss at any point of a setup, and nothing  *)
(* that fails elsewhere, leaves a usable vault for the next boot to wipe.  *)
(***************************************************************************)
THEOREM OpenVaultIsMarked ==
  ASSUME "setup" \notin FaultOps
  PROVE  Spec => []FormatMarked
<1>1. Init => MarkInv
  BY DEF Init, MarkInv
<1>2. TypeOK /\ KeyInv /\ MarkInv /\ [Next]_vars => MarkInv'
  BY MarkNext
<1>3. KeyInv /\ MarkInv => FormatMarked
  BY DEF KeyInv, MarkInv, UnlockedIsSetUp, FormatMarked
<1> QED BY <1>1, <1>2, <1>3, KeyInvariant, PTL DEF Spec

-----------------------------------------------------------------------------
(***************************************************************************)
(* The DEK in RAM.  setup draws it before it opens the vault, so it may be *)
(* there with the vault closed only until the first commit of a setup.     *)
(***************************************************************************)
RamInv == /\ DekOnlyWhileUnlocked
          /\ op = "setup" /\ at > 5 => unlocked

LEMMA RamNext ==
  ASSUME "setup" \notin FaultOps, TypeOK, RamInv, [Next]_vars
  PROVE  RamInv'
<1> USE VaultConstants DEF RamInv, DekOnlyWhileUnlocked
<1>1. CASE Lock
  BY <1>1 DEF Lock, Locked, Return, Idle
<1>2. CASE UnlockRefused
  BY <1>2 DEF UnlockRefused, Return, Idle
<1>3. CASE FactoryReset
  BY <1>3 DEF FactoryReset, Locked, Start
<1>4. ASSUME NEW pw \in Passwords, Setup(pw) PROVE RamInv'
  <2>1. CASE Return("throw") /\ UNCHANGED <<dek, unlocked>>
    BY <1>4, <2>1 DEF Return, Setup, Idle
  <2>2. CASE ~(Return("throw") /\ UNCHANGED <<dek, unlocked>>)
    BY <1>4, <2>2, SetupStages
  <2> QED BY <2>1, <2>2
<1>5. ASSUME NEW pw \in Passwords, UnlockWrong(pw) PROVE RamInv'
  BY <1>5 DEF UnlockWrong, Return, Idle
<1>6. ASSUME NEW pw \in Passwords, UnlockRight(pw) PROVE RamInv'
  BY <1>6 DEF UnlockRight, Locked, Return, Idle
<1>7. ASSUME NEW pw \in Passwords, SetTransferPassword(pw) PROVE RamInv'
  BY <1>7 DEF SetTransferPassword, Start, Idle
<1>8. ASSUME NEW cur \in Passwords, NEW next \in Passwords, ChangePassword(cur, next)
      PROVE  RamInv'
  BY <1>8 DEF ChangePassword, Return, Start, Idle
<1>9. ASSUME NEW t \in Tables, Persist(t) PROVE RamInv'
  BY <1>9 DEF Persist, Start, Idle, Tables
<1>10. CASE StoreWrite
  <2>1. op = "setup" => at # 5
    BY <1>10 DEF StoreWrite, Call, Script, Keys
  <2> QED BY <1>10, <2>1 DEF StoreWrite, TypeOK
<1>11. CASE StoreCommit
  BY <1>11 DEF StoreCommit, TypeOK
<1>12. CASE StoreFault
  BY <1>12 DEF StoreFault
<1>13. CASE PowerLoss
  BY <1>13 DEF PowerLoss, Locked
<1>14. CASE Boot
  BY <1>14 DEF Boot, Start
<1>15. CASE UNCHANGED vars
  BY <1>15 DEF vars
<1> QED BY <1>1, <1>2, <1>3, <1>4, <1>5, <1>6, <1>7, <1>8, <1>9, <1>10, <1>11,
           <1>12, <1>13, <1>14, <1>15 DEF Next

(***************************************************************************)
(* If no store call of a setup fails, a data key is in RAM only while the  *)
(* vault is open or being set up, also after unlocks that fail at any      *)
(* point and logins at an open vault.                                      *)
(***************************************************************************)
THEOREM NoKeyInClosedVault ==
  ASSUME "setup" \notin FaultOps
  PROVE  Spec => []DekOnlyWhileUnlocked
<1>1. Init => RamInv
  BY VaultConstants DEF Init, RamInv, DekOnlyWhileUnlocked
<1>2. TypeOK /\ RamInv /\ [Next]_vars => RamInv'
  BY RamNext
<1>3. RamInv => DekOnlyWhileUnlocked
  BY DEF RamInv
<1> QED BY <1>1, <1>2, <1>3, TypeCorrect, PTL DEF Spec

-----------------------------------------------------------------------------
(***************************************************************************)
(* The transfer password.  Its salt and its verifier are two writes; they  *)
(* agree whenever neither set_transfer_password nor an erasure is between  *)
(* them.                                                                   *)
(***************************************************************************)
Verifies(f) == \E pw \in Passwords : f.tverif = [pw |-> pw, salt |-> f.tsalt]

TransferInv ==
  /\ op \notin {"transfer", "wipe", "bootwipe"} /\ flash.tsalt # Absent
       => Verifies(flash)
  /\ op = "transfer" =>
       /\ Verifies(staged)
       /\ at > 1 => flash.tsalt = staged.tsalt
       /\ at > 2 => flash.tverif = staged.tverif
  /\ op \in {"wipe", "bootwipe"} /\ at > 7 => flash.tsalt = Absent

\* Who writes the two blobs, and when.
LEMMA TransferSteps ==
  ASSUME NEW o \in Writing, NEW i \in 1 .. Len(Script[o])
  PROVE  /\ o = "transfer" => /\ i = 1 <=> Script[o][i] = "tsalt"
                              /\ i = 2 <=> Script[o][i] = "tverif"
                              /\ Script[o][i] = "commit" => i = 3 /\ i = Len(Script[o])
         /\ o \in {"wipe", "bootwipe"} =>
              /\ i = 7 <=> Script[o][i] = "tsalt"
              /\ Script[o][i] = "commit" => i = 9
         /\ o \notin {"transfer", "wipe", "bootwipe"} =>
              Script[o][i] \notin {"tsalt", "tverif"}
<1>2. CASE o = "setup"    BY <1>2 DEF Script
<1>3. CASE o = "change"   BY <1>3 DEF Script
<1>4. CASE o = "transfer" BY <1>4 DEF Script
<1>5. CASE o = "entries"  BY <1>5 DEF Script
<1>6. CASE o = "cats"     BY <1>6 DEF Script
<1>7. CASE o \in {"wipe", "bootwipe"}
  <2>1. Script[o] = Erasures
    BY <1>7 DEF Script
  <2> QED BY <2>1, <1>7 DEF Erasures
<1> QED BY WritingOps, <1>2, <1>3, <1>4, <1>5, <1>6, <1>7

LEMMA TransferWrite ==
  ASSUME TypeOK, KeyInv, TransferInv, StoreWrite
  PROVE  TransferInv'
<1> USE DEF TypeOK
<1>0. op \in Writing /\ at \in 1 .. Len(Script[op]) /\ at \in Nat /\ at' = at + 1
  BY DEF StoreWrite
<1>s. UNCHANGED <<op, staged>>
  BY DEF StoreWrite
<1>w. /\ flash'.tsalt = IF Call = "tsalt" THEN staged.tsalt ELSE flash.tsalt
      /\ flash'.tverif = IF Call = "tverif" THEN staged.tverif ELSE flash.tverif
  BY WriteOne DEF Keys
<1>1. CASE op = "transfer"
  <2>1. (at = 1 <=> Call = "tsalt") /\ (at = 2 <=> Call = "tverif")
    BY <1>0, <1>1, TransferSteps DEF Call
  <2>2. /\ at' > 1 => flash'.tsalt = staged.tsalt
        /\ at' > 2 => flash'.tverif = staged.tverif
    BY <1>0, <1>1, <1>w, <2>1 DEF TransferInv
  <2> QED BY <1>1, <1>s, <2>2 DEF TransferInv, Verifies
<1>2. CASE op \in {"wipe", "bootwipe"}
  <2>1. at = 7 <=> Call = "tsalt"
    BY <1>0, <1>2, TransferSteps DEF Call
  <2>2. staged.tsalt = Absent
    BY <1>2 DEF KeyInv, Blank, Keys
  <2>3. at' > 7 => flash'.tsalt = Absent
    BY <1>0, <1>2, <1>w, <2>1, <2>2 DEF TransferInv
  <2> QED BY <1>2, <1>s, <2>3 DEF TransferInv
<1>3. CASE op \notin {"transfer", "wipe", "bootwipe"}
  <2>1. Call \notin {"tsalt", "tverif"}
    BY <1>0, <1>3, TransferSteps DEF Call
  <2> QED BY <1>3, <1>s, <1>w, <2>1 DEF TransferInv, Verifies
<1> QED BY <1>1, <1>2, <1>3

LEMMA TransferInit == Init => TransferInv
<1> SUFFICES ASSUME Init PROVE TransferInv
  OBVIOUS
<1>1. CASE flash = Blank
  BY <1>1 DEF Init, TransferInv, Blank, Keys
<1>2. ASSUME NEW pw \in Passwords, NEW s \in Salts, NEW i \in Iters, NEW d \in Deks,
             NEW fmt \in Formats \cup {Absent}, flash = OldVault(pw, s, i, d, fmt)
      PROVE  TransferInv
  BY <1>2 DEF Init, TransferInv, Verifies, OldVault
<1> QED BY <1>1, <1>2 DEF Init

LEMMA TransferNext ==
  ASSUME {"transfer", "wipe", "bootwipe"} \cap (FaultOps \cup CrashOps) = {},
         TypeOK, KeyInv, TransferInv, [Next]_vars
  PROVE  TransferInv'
<1> USE DEF TransferInv, Verifies
<1>1. CASE Lock
  BY <1>1 DEF Lock, Return, Idle
<1>2. CASE UnlockRefused
  BY <1>2 DEF UnlockRefused, Return, Idle
<1>3. CASE FactoryReset
  BY <1>3 DEF FactoryReset, Start, Idle
<1>4. ASSUME NEW pw \in Passwords, Setup(pw) PROVE TransferInv'
  <2>1. CASE Return("throw") /\ UNCHANGED <<dek, unlocked>>
    BY <1>4, <2>1 DEF Return, Setup, Idle
  <2>2. CASE ~(Return("throw") /\ UNCHANGED <<dek, unlocked>>)
    BY <1>4, <2>2, SetupStages
  <2> QED BY <2>1, <2>2
<1>5. ASSUME NEW pw \in Passwords, UnlockWrong(pw) PROVE TransferInv'
  BY <1>5 DEF UnlockWrong, Return, Idle
<1>6. ASSUME NEW pw \in Passwords, UnlockRight(pw) PROVE TransferInv'
  BY <1>6 DEF UnlockRight, Return, Idle
<1>7. ASSUME NEW pw \in Passwords, SetTransferPassword(pw) PROVE TransferInv'
  <2>1. PICK s \in Salts :
          Start("transfer", [flash EXCEPT !.tsalt = s, !.tverif = [pw |-> pw, salt |-> s]])
    BY <1>7 DEF SetTransferPassword
  <2>2. staged'.tsalt = s /\ staged'.tverif = [pw |-> pw, salt |-> s]
    BY <2>1 DEF Start, TypeOK, Flash
  <2> QED BY <2>1, <2>2 DEF Start
<1>8. ASSUME NEW cur \in Passwords, NEW next \in Passwords, ChangePassword(cur, next)
      PROVE  TransferInv'
  BY <1>8 DEF ChangePassword, Return, Start, Idle
<1>9. ASSUME NEW t \in Tables, Persist(t) PROVE TransferInv'
  BY <1>9 DEF Persist, Start, Idle, Tables
<1>10. CASE StoreWrite
  BY <1>10, TransferWrite
<1>11. CASE StoreCommit
  <2>1. flash' = flash
    BY <1>11 DEF StoreCommit
  <2>2. CASE at < Len(Script[op])
    <3>1. op' = op /\ staged' = staged /\ op # "transfer"
      BY <1>11, <2>2, TransferSteps DEF StoreCommit, Call, TypeOK
    <3>2. op \in {"wipe", "bootwipe"} => flash.tsalt = Absent
      BY <1>11, TransferSteps DEF StoreCommit, Call, TypeOK
    <3> QED BY <2>1, <3>1, <3>2
  <2>3. CASE ~(at < Len(Script[op]))
    <3>1. op' = "none"
      BY <1>11, <2>3 DEF StoreCommit
    <3>2. op = "transfer" => at = 3
      BY <1>11, TransferSteps DEF StoreCommit, Call, TypeOK
    <3>3. op \in {"wipe", "bootwipe"} => at = 9
      BY <1>11, TransferSteps DEF StoreCommit, Call, TypeOK
    <3> QED BY <2>1, <3>1, <3>2, <3>3
  <2> QED BY <2>2, <2>3
<1>12. CASE StoreFault
  BY <1>12 DEF StoreFault
<1>13. CASE PowerLoss
  BY <1>13 DEF PowerLoss
<1>14. CASE Boot
  BY <1>14 DEF Boot, Start
<1>15. CASE UNCHANGED vars
  BY <1>15 DEF vars
<1> QED BY <1>1, <1>2, <1>3, <1>4, <1>5, <1>6, <1>7, <1>8, <1>9, <1>10, <1>11,
           <1>12, <1>13, <1>14, <1>15 DEF Next

(***************************************************************************)
(* If neither set_transfer_password nor an erasure is cut short, a stored  *)
(* transfer password verifies: no other operation, whole or torn, parts    *)
(* the verifier from its salt.                                             *)
(***************************************************************************)
THEOREM TransferPasswordVerifies ==
  ASSUME {"transfer", "wipe", "bootwipe"} \cap (FaultOps \cup CrashOps) = {}
  PROVE  Spec => []TransferVerifiable
<1>1. Init => TransferInv
  BY TransferInit
<1>2. TypeOK /\ KeyInv /\ TransferInv /\ [Next]_vars => TransferInv'
  BY TransferNext
<1>3. TransferInv => TransferVerifiable
  BY DEF TransferInv, Verifies, TransferVerifiable, verify_transfer
<1> QED BY <1>1, <1>2, <1>3, KeyInvariant, PTL DEF Spec
=============================================================================
