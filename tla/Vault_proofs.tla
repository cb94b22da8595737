---------------------------- MODULE Vault_proofs ----------------------------
(***************************************************************************)
(* Theorems about Vault for every value of its constants.                  *)
(***************************************************************************)
EXTENDS Vault, TLAPS

LEMMA WritingOps ==
  Writing = {"setup", "change", "transfer", "entries", "cats", "wipe", "bootwipe"}
  BY DEF Writing, Script

(***************************************************************************)
(* The step a running operation is at is a store key or a commit, and      *)
(* only the last step, a commit, ends it.                                  *)
(***************************************************************************)
LEMMA ScriptSteps ==
  ASSUME NEW o \in Writing, NEW i \in 1 .. Len(Script[o])
  PROVE  /\ Script[o][i] \in Keys \cup {"commit"}
         /\ i \in 1 .. 9 /\ Len(Script[o]) \in 1 .. 9
         /\ Script[o][i] # "commit" => i + 1 \in 1 .. Len(Script[o])
<1>1. o \in {"setup", "change", "transfer", "entries", "cats", "wipe", "bootwipe"}
  BY DEF Writing, Script
<1>2. CASE o = "setup"    BY <1>2 DEF Script, Keys
<1>3. CASE o = "change"   BY <1>3 DEF Script, Keys
<1>4. CASE o = "transfer" BY <1>4 DEF Script, Keys
<1>5. CASE o = "entries"  BY <1>5 DEF Script, Keys
<1>6. CASE o = "cats"     BY <1>6 DEF Script, Keys
<1>7. CASE o = "wipe"     BY <1>7 DEF Script, Erasures, Keys
<1>8. CASE o = "bootwipe" BY <1>8 DEF Script, Erasures, Keys
<1> QED BY <1>1, <1>2, <1>3, <1>4, <1>5, <1>6, <1>7, <1>8

(***************************************************************************)
(* Copying one blob of the staged image keeps the store well typed.        *)
(***************************************************************************)
LEMMA FlashUpdate ==
  ASSUME NEW f \in Flash, NEW g \in Flash, NEW k \in Keys
  PROVE  [f EXCEPT ![k] = g[k]] \in Flash
<1>1. CASE k = "salt"    BY <1>1 DEF Flash
<1>2. CASE k = "iter"    BY <1>2 DEF Flash
<1>3. CASE k = "wdek"    BY <1>3 DEF Flash
<1>4. CASE k = "vfmt"    BY <1>4 DEF Flash
<1>5. CASE k = "entries" BY <1>5 DEF Flash
<1>6. CASE k = "cats"    BY <1>6 DEF Flash
<1>7. CASE k = "tsalt"   BY <1>7 DEF Flash
<1>8. CASE k = "tverif"  BY <1>8 DEF Flash
<1> QED BY <1>1, <1>2, <1>3, <1>4, <1>5, <1>6, <1>7, <1>8 DEF Keys

LEMMA BlankTyped == Blank \in Flash
  BY DEF Blank, Flash, Keys

LEMMA InitTyped == Init => TypeOK
<1> SUFFICES ASSUME Init PROVE TypeOK
  OBVIOUS
<1>1. flash \in Flash
  <2>1. CASE flash = Blank
    BY <2>1, BlankTyped
  <2>2. ASSUME NEW pw \in Passwords, NEW s \in Salts, NEW i \in Iters, NEW d \in Deks,
               NEW fmt \in Formats \cup {Absent}, flash = OldVault(pw, s, i, d, fmt)
        PROVE  flash \in Flash
    BY <2>2 DEF OldVault, Flash, Wrapped, Keks, Verifiers, DekValues
  <2> QED BY <2>1, <2>2 DEF Init
<1>2. op \notin Writing
  BY WritingOps DEF Init
<1>3. dek \in DekValues /\ unlocked \in BOOLEAN
  BY DEF Init, DekValues
<1> QED BY <1>1, <1>2, <1>3, BlankTyped DEF Init, TypeOK

(***************************************************************************)
(* An operation starts at the first step of its script with a well-typed   *)
(* image, and every kind of end leaves the store as it is.                 *)
(***************************************************************************)
LEMMA StartTyped ==
  ASSUME TypeOK, NEW o \in Writing, NEW next \in Flash, Start(o, next),
         dek' \in DekValues, unlocked' \in BOOLEAN
  PROVE  TypeOK'
<1>1. 1 \in 1 .. Len(Script[o])
  <2>1. o \in {"setup", "change", "transfer", "entries", "cats", "wipe", "bootwipe"}
    BY WritingOps
  <2> QED BY <2>1 DEF Script, Erasures
<1> QED BY <1>1 DEF TypeOK, Start

LEMMA ReturnTyped ==
  ASSUME TypeOK, NEW r \in {"none", "ok", "false", "throw"}, Return(r),
         dek' \in DekValues, unlocked' \in BOOLEAN
  PROVE  TypeOK'
  BY DEF TypeOK, Return

LEMMA NextTyped == TypeOK /\ [Next]_vars => TypeOK'
<1> SUFFICES ASSUME TypeOK, [Next]_vars PROVE TypeOK'
  OBVIOUS
<1> USE VaultConstants
<1>1. CASE Lock
  BY <1>1, ReturnTyped DEF Lock, Locked, DekValues
<1>2. CASE UnlockRefused
  BY <1>2, ReturnTyped DEF UnlockRefused, TypeOK
<1>3. CASE FactoryReset
  <2>1. "wipe" \in Writing
    BY WritingOps
  <2> QED BY <1>3, <2>1, StartTyped, BlankTyped DEF FactoryReset, Locked, DekValues
<1>4. ASSUME NEW pw \in Passwords, Setup(pw) PROVE TypeOK'
  <2>1. CASE Return("throw") /\ UNCHANGED <<dek, unlocked>>
    BY <2>1, ReturnTyped DEF TypeOK
  <2>2. CASE ~(Return("throw") /\ UNCHANGED <<dek, unlocked>>)
    <3>1. PICK s \in Salts, d \in Deks :
            /\ dek' = d
            /\ Start("setup", [flash EXCEPT
                  !.salt = s, !.iter = ITERATIONS, !.vfmt = VAULT_FORMAT_VERSION,
                  !.wdek = [kek |-> [pw |-> pw, salt |-> s, iter |-> ITERATIONS], dek |-> d],
                  !.cats = d, !.entries = d])
      BY <1>4, <2>2 DEF Setup
    <3>2. [kek |-> [pw |-> pw, salt |-> s, iter |-> ITERATIONS], dek |-> d] \in Wrapped
      BY DEF Wrapped, Keks
    <3>3. [flash EXCEPT
             !.salt = s, !.iter = ITERATIONS, !.vfmt = VAULT_FORMAT_VERSION,
             !.wdek = [kek |-> [pw |-> pw, salt |-> s, iter |-> ITERATIONS], dek |-> d],
             !.cats = d, !.entries = d] \in Flash
      BY <3>2 DEF TypeOK, Flash, Formats, DekValues
    <3>4. "setup" \in Writing /\ unlocked' \in BOOLEAN /\ dek' \in DekValues
      BY <1>4, <2>2, <3>1, WritingOps DEF Setup, TypeOK, DekValues
    <3> QED BY <3>1, <3>3, <3>4, StartTyped
  <2> QED BY <2>1, <2>2
<1>5. ASSUME NEW pw \in Passwords, UnlockWrong(pw) PROVE TypeOK'
  BY <1>5, ReturnTyped DEF UnlockWrong, TypeOK, DekValues
<1>6. ASSUME NEW pw \in Passwords, UnlockRight(pw) PROVE TypeOK'
  <2>1. flash.wdek.dek \in Deks
    BY <1>6 DEF UnlockRight, is_initialized, TypeOK, Flash, Wrapped
  <2> QED BY <1>6, <2>1, ReturnTyped DEF UnlockRight, Locked, DekValues
<1>7. ASSUME NEW pw \in Passwords, SetTransferPassword(pw) PROVE TypeOK'
  <2>1. PICK s \in Salts :
          Start("transfer", [flash EXCEPT !.tsalt = s, !.tverif = [pw |-> pw, salt |-> s]])
    BY <1>7 DEF SetTransferPassword
  <2>2. [flash EXCEPT !.tsalt = s, !.tverif = [pw |-> pw, salt |-> s]] \in Flash
    BY DEF TypeOK, Flash, Verifiers
  <2>3. "transfer" \in Writing /\ unlocked' \in BOOLEAN /\ dek' \in DekValues
    BY <1>7, WritingOps DEF SetTransferPassword, TypeOK
  <2> QED BY <2>1, <2>2, <2>3, StartTyped
<1>8. ASSUME NEW cur \in Passwords, NEW next \in Passwords, ChangePassword(cur, next)
      PROVE  TypeOK'
  <2>1. dek' \in DekValues /\ unlocked' \in BOOLEAN
    BY <1>8 DEF ChangePassword, TypeOK
  <2>2. CASE Return("throw") \/ Return("false")
    BY <2>1, <2>2, ReturnTyped
  <2>3. CASE ~(Return("throw") \/ Return("false"))
    <3>1. Unwraps(cur)
      BY <1>8, <2>3 DEF ChangePassword
    <3>2. PICK s \in Salts :
            Start("change", [flash EXCEPT
               !.salt = s, !.iter = ITERATIONS,
               !.wdek = [kek |-> [pw |-> next, salt |-> s, iter |-> ITERATIONS],
                         dek |-> flash.wdek.dek]])
      BY <1>8, <2>3 DEF ChangePassword
    <3>3. [kek |-> [pw |-> next, salt |-> s, iter |-> ITERATIONS],
           dek |-> flash.wdek.dek] \in Wrapped
      BY <3>1 DEF Unwraps, TypeOK, Flash, Wrapped, Keks
    <3>4. [flash EXCEPT
             !.salt = s, !.iter = ITERATIONS,
             !.wdek = [kek |-> [pw |-> next, salt |-> s, iter |-> ITERATIONS],
                       dek |-> flash.wdek.dek]] \in Flash
      BY <3>3 DEF TypeOK, Flash
    <3>5. "change" \in Writing
      BY WritingOps
    <3> QED BY <2>1, <3>2, <3>4, <3>5, StartTyped
  <2> QED BY <2>2, <2>3
<1>9. ASSUME NEW t \in Tables, Persist(t) PROVE TypeOK'
  <2>1. [flash EXCEPT ![t] = dek] \in Flash
    <3>1. CASE t = "entries" BY <3>1 DEF TypeOK, Flash
    <3>2. CASE t = "cats"    BY <3>2 DEF TypeOK, Flash
    <3> QED BY <3>1, <3>2 DEF Tables
  <2>2. t \in Writing
    BY WritingOps DEF Tables
  <2> QED BY <1>9, <2>1, <2>2, StartTyped DEF Persist, TypeOK
<1>10. CASE StoreWrite
  <2>1. Call # "commit"
    BY <1>10 DEF StoreWrite, Keys
  <2>2. at' \in 1 .. Len(Script[op]) /\ at' \in 0 .. 9
    BY <1>10, <2>1, ScriptSteps DEF StoreWrite, Call, TypeOK
  <2>3. flash' \in Flash
    BY <1>10, FlashUpdate DEF StoreWrite, TypeOK
  <2> QED BY <1>10, <2>2, <2>3 DEF StoreWrite, TypeOK
<1>11. CASE StoreCommit
  <2>1. CASE at < Len(Script[op])
    <3>1. at + 1 \in 1 .. Len(Script[op]) /\ at + 1 \in 0 .. 9
      BY <1>11, <2>1, ScriptSteps DEF StoreCommit, TypeOK
    <3> QED BY <1>11, <2>1, <3>1 DEF StoreCommit, TypeOK
  <2>2. CASE ~(at < Len(Script[op]))
    BY <1>11, <2>2, BlankTyped, WritingOps DEF StoreCommit, TypeOK
  <2> QED BY <2>1, <2>2
<1>12. CASE StoreFault
  BY <1>12, BlankTyped, WritingOps DEF StoreFault, TypeOK
<1>13. CASE PowerLoss
  <2>1. dek' \in DekValues /\ unlocked' \in BOOLEAN
    BY <1>13 DEF PowerLoss, Locked, DekValues
  <2> QED BY <1>13, <2>1, BlankTyped, WritingOps DEF PowerLoss, TypeOK
<1>14. CASE Boot
  <2>1. "bootwipe" \in Writing
    BY WritingOps
  <2>2. CASE Start("bootwipe", Blank)
    BY <1>14, <2>1, <2>2, BlankTyped, StartTyped DEF Boot, TypeOK
  <2>3. CASE ~Start("bootwipe", Blank)
    BY <1>14, <2>3, WritingOps DEF Boot, TypeOK
  <2> QED BY <2>2, <2>3
<1>15. CASE UNCHANGED vars
  BY <1>15 DEF vars, TypeOK
<1> QED BY <1>1, <1>2, <1>3, <1>4, <1>5, <1>6, <1>7, <1>8, <1>9, <1>10, <1>11,
           <1>12, <1>13, <1>14, <1>15 DEF Next

(***************************************************************************)
(* Type correctness: the store, the key material and the position in the   *)
(* running operation's script keep their types in every behaviour.         *)
(***************************************************************************)
THEOREM TypeCorrect == Spec => []TypeOK
<1>1. Init => TypeOK
  BY InitTyped
<1>2. TypeOK /\ [Next]_vars => TypeOK'
  BY NextTyped
<1> QED BY <1>1, <1>2, PTL DEF Spec

-----------------------------------------------------------------------------
(***************************************************************************)
(* The wrapped DEK under every fault.  KeyInv says where each operation    *)
(* that writes "wdek" stands relative to what is stored: setup starts from *)
(* nothing and has written exactly its own wrapped DEK after step 3,       *)
(* change_password carries the stored DEK over, and the erasures run       *)
(* locked.                                                                 *)
(***************************************************************************)
KeyInv ==
  /\ UnlockedIsSetUp
  /\ op \in {"wipe", "bootwipe", "off"} => ~unlocked
  /\ op \in {"wipe", "bootwipe"} => staged = Blank
  /\ op = "change" => /\ is_initialized /\ staged.wdek # Absent
                      /\ staged.wdek.dek = flash.wdek.dek
  /\ op = "setup" => /\ staged.wdek # Absent
                     /\ IF at <= 3 THEN ~is_initialized ELSE flash.wdek = staged.wdek

\* A store write leaves every blob but the one under its key alone.
LEMMA WriteOne ==
  ASSUME TypeOK, StoreWrite
  PROVE  /\ Call \in Keys
         /\ flash'[Call] = staged[Call]
         /\ \A k \in Keys : k # Call => flash'[k] = flash[k]
<1>1. DOMAIN flash = Keys
  BY DEF TypeOK, Flash, Keys
<1> QED BY <1>1 DEF StoreWrite

\* Which steps of which scripts write a given key.
LEMMA WhoWrites ==
  ASSUME NEW o \in Writing, NEW i \in 1 .. Len(Script[o])
  PROVE  /\ Script[o][i] = "wdek" =>
              \/ o \in {"setup", "change", "wipe", "bootwipe"} /\ i = 3
         /\ o = "setup" => (i = 3 <=> Script[o][i] = "wdek")
         /\ o = "setup" /\ Script[o][i] = "commit" => i > 3
         /\ Script[o][i] = "entries" => o \in {"setup", "entries", "wipe", "bootwipe"}
         /\ Script[o][i] = "cats" => o \in {"setup", "cats", "wipe", "bootwipe"}
<1>2. CASE o = "setup"    BY <1>2 DEF Script
<1>3. CASE o = "change"   BY <1>3 DEF Script
<1>4. CASE o = "transfer" BY <1>4 DEF Script
<1>5. CASE o = "entries"  BY <1>5 DEF Script
<1>6. CASE o = "cats"     BY <1>6 DEF Script
<1>7. CASE o = "wipe"     BY <1>7 DEF Script, Erasures
<1>8. CASE o = "bootwipe" BY <1>8 DEF Script, Erasures
<1> QED BY WritingOps, <1>2, <1>3, <1>4, <1>5, <1>6, <1>7, <1>8

LEMMA KeyInvInit == Init => KeyInv
  BY DEF Init, KeyInv, UnlockedIsSetUp

LEMMA NotSentinel ==
  /\ \A w \in Wrapped : w # Absent
  /\ \A d \in Deks : d # Absent
  /\ Zeroed # Absent /\ Garbage # Absent
  BY BlobsDiffer, VaultConstants

LEMMA WdekWrite ==
  ASSUME TypeOK, KeyInv, StoreWrite
  PROVE  /\ KeyInv'
         /\ is_initialized /\ is_initialized' => flash'.wdek.dek = flash.wdek.dek
<1> USE DEF TypeOK
<1>0. op \in Writing /\ at \in 1 .. Len(Script[op]) /\ at \in Nat /\ at' = at + 1
  BY DEF StoreWrite
<1>s. UNCHANGED <<dek, unlocked, op, staged>>
  BY DEF StoreWrite
<1>1. CASE Call # "wdek"
  <2>1. flash'.wdek = flash.wdek
    BY <1>1, WriteOne DEF Keys
  <2>2. op = "setup" => at # 3
    BY <1>0, <1>1, WhoWrites DEF Call
  <2> QED BY <1>0, <1>s, <2>1, <2>2 DEF KeyInv, UnlockedIsSetUp, is_initialized
<1>2. CASE Call = "wdek"
  <2>1. flash'.wdek = staged.wdek
    BY <1>2, WriteOne
  <2>2. at = 3 /\ op \in {"setup", "change", "wipe", "bootwipe"}
    BY <1>0, <1>2, WhoWrites DEF Call
  <2>3. CASE op \in {"wipe", "bootwipe"}
    BY <1>s, <2>1, <2>3 DEF KeyInv, UnlockedIsSetUp, is_initialized, Blank, Keys
  <2>4. CASE op \in {"setup", "change"}
    BY <1>0, <1>s, <2>1, <2>2, <2>4 DEF KeyInv, UnlockedIsSetUp, is_initialized
  <2> QED BY <2>2, <2>3, <2>4
<1> QED BY <1>1, <1>2

\* Every other step leaves the store alone.
LEMMA OthersReadOnly ==
  ASSUME [Next]_vars, ~StoreWrite
  PROVE  flash' = flash
  BY DEF Next, vars, Lock, UnlockRefused, FactoryReset, Setup, UnlockWrong, UnlockRight,
         SetTransferPassword, ChangePassword, Persist, StoreCommit, StoreFault,
         PowerLoss, Boot, Return, Start

LEMMA KeyInvNext == TypeOK /\ KeyInv /\ [Next]_vars => KeyInv'
<1> SUFFICES ASSUME TypeOK, KeyInv, [Next]_vars PROVE KeyInv'
  OBVIOUS
<1> USE DEF KeyInv, UnlockedIsSetUp, is_initialized
<1>1. CASE Lock
  BY <1>1 DEF Lock, Locked, Return, Idle
<1>2. CASE UnlockRefused
  BY <1>2 DEF UnlockRefused, Return, Idle
<1>3. CASE FactoryReset
  BY <1>3 DEF FactoryReset, Locked, Start
<1>4. ASSUME NEW pw \in Passwords, Setup(pw) PROVE KeyInv'
  <2>1. CASE Return("throw") /\ UNCHANGED <<dek, unlocked>>
    BY <1>4, <2>1 DEF Return
  <2>2. CASE ~(Return("throw") /\ UNCHANGED <<dek, unlocked>>)
    <3>1. PICK s \in Salts, d \in Deks :
            Start("setup", [flash EXCEPT
                  !.salt = s, !.iter = ITERATIONS, !.vfmt = VAULT_FORMAT_VERSION,
                  !.wdek = [kek |-> [pw |-> pw, salt |-> s, iter |-> ITERATIONS], dek |-> d],
                  !.cats = d, !.entries = d])
      BY <1>4, <2>2 DEF Setup
    <3>2. [kek |-> [pw |-> pw, salt |-> s, iter |-> ITERATIONS], dek |-> d] \in Wrapped
      BY VaultConstants DEF Wrapped, Keks
    <3>3. staged'.wdek = [kek |-> [pw |-> pw, salt |-> s, iter |-> ITERATIONS], dek |-> d]
      BY <3>1 DEF Start, TypeOK, Flash
    <3>4. op' = "setup" /\ at' = 1 /\ flash' = flash
      BY <3>1 DEF Start
    <3>5. ~is_initialized /\ unlocked' = unlocked
      BY <1>4, <2>2 DEF Setup
    <3> QED BY <3>2, <3>3, <3>4, <3>5, NotSentinel
  <2> QED BY <2>1, <2>2
<1>5. ASSUME NEW pw \in Passwords, UnlockWrong(pw) PROVE KeyInv'
  BY <1>5 DEF UnlockWrong, Return, Idle
<1>6. ASSUME NEW pw \in Passwords, UnlockRight(pw) PROVE KeyInv'
  BY <1>6 DEF UnlockRight, Locked, Return, Idle
<1>7. ASSUME NEW pw \in Passwords, SetTransferPassword(pw) PROVE KeyInv'
  BY <1>7 DEF SetTransferPassword, Start, Idle
<1>8. ASSUME NEW cur \in Passwords, NEW next \in Passwords, ChangePassword(cur, next)
      PROVE  KeyInv'
  <2>1. UNCHANGED <<dek, unlocked>>
    BY <1>8 DEF ChangePassword
  <2>2. CASE Return("throw") \/ Return("false")
    BY <2>1, <2>2 DEF Return
  <2>3. CASE ~(Return("throw") \/ Return("false"))
    <3>1. Unwraps(cur)
      BY <1>8, <2>3 DEF ChangePassword
    <3>2. PICK s \in Salts :
            Start("change", [flash EXCEPT
               !.salt = s, !.iter = ITERATIONS,
               !.wdek = [kek |-> [pw |-> next, salt |-> s, iter |-> ITERATIONS],
                         dek |-> flash.wdek.dek]])
      BY <1>8, <2>3 DEF ChangePassword
    <3>3. [kek |-> [pw |-> next, salt |-> s, iter |-> ITERATIONS],
           dek |-> flash.wdek.dek] \in Wrapped
      BY <3>1, VaultConstants DEF Unwraps, TypeOK, Flash, Wrapped, Keks
    <3>4. staged'.wdek = [kek |-> [pw |-> next, salt |-> s, iter |-> ITERATIONS],
                          dek |-> flash.wdek.dek]
      BY <3>2 DEF Start, TypeOK, Flash
    <3>5. op' = "change" /\ at' = 1 /\ flash' = flash
      BY <3>2 DEF Start
    <3> QED BY <2>1, <3>1, <3>3, <3>4, <3>5, NotSentinel DEF Unwraps
  <2> QED BY <2>2, <2>3
<1>9. ASSUME NEW t \in Tables, Persist(t) PROVE KeyInv'
  BY <1>9 DEF Persist, Start, Tables
<1>10. CASE StoreWrite
  BY <1>10, WdekWrite
<1>11. CASE StoreCommit
  <2>1. op = "setup" => at > 3
    BY <1>11, WhoWrites DEF StoreCommit, Call, TypeOK
  <2> QED BY <1>11, <2>1 DEF StoreCommit, TypeOK
<1>12. CASE StoreFault
  BY <1>12 DEF StoreFault
<1>13. CASE PowerLoss
  BY <1>13 DEF PowerLoss, Locked
<1>14. CASE Boot
  BY <1>14 DEF Boot, Start
<1>15. CASE UNCHANGED vars
  BY <1>15 DEF vars
<1> QED BY <1>1, <1>2, <1>3, <1>4, <1>5, <1>6, <1>7, <1>8, <1>9, <1>10, <1>11,
           <1>12, <1>13, <1>14, <1>15 DEF Next

LEMMA KeyInvariant == Spec => [](TypeOK /\ KeyInv)
<1>1. Init => TypeOK /\ KeyInv
  BY InitTyped, KeyInvInit
<1>2. TypeOK /\ KeyInv /\ [Next]_vars => (TypeOK /\ KeyInv)'
  BY NextTyped, KeyInvNext
<1> QED BY <1>1, <1>2, PTL DEF Spec

(***************************************************************************)
(* The vault is open only while a wrapped DEK is stored, whatever store    *)
(* call fails and wherever power is lost.                                  *)
(***************************************************************************)
THEOREM OpenImpliesSetUp == Spec => []UnlockedIsSetUp
<1>1. KeyInv => UnlockedIsSetUp
  BY DEF KeyInv
<1> QED BY <1>1, KeyInvariant, PTL

(***************************************************************************)
(* No step of any operation, complete or cut short, replaces the wrapped   *)
(* DEK by one that wraps another DEK.                                      *)
(***************************************************************************)
THEOREM DekIsStable == Spec => DekStable
<1>1. TypeOK /\ KeyInv /\ [Next]_vars
        => [is_initialized /\ is_initialized' => flash'.wdek.dek = flash.wdek.dek]_vars
  BY WdekWrite, OthersReadOnly DEF vars
<1> QED BY <1>1, KeyInvariant, PTL DEF Spec, DekStable

-----------------------------------------------------------------------------
(***************************************************************************)
(* One browser.  If no login arrives at an open vault, dek_ is the wrapped *)
(* DEK for as long as the vault is open, whatever fails.                   *)
(***************************************************************************)
AgreeInv == /\ KeyAgreement
            /\ op = "setup" => staged.wdek.dek = dek

LEMMA AgreeNext ==
  ASSUME LoginWhileUnlocked = FALSE, TypeOK, KeyInv, AgreeInv, [Next]_vars
  PROVE  AgreeInv'
<1> USE DEF AgreeInv, KeyAgreement, is_initialized
<1>1. CASE Lock
  BY <1>1 DEF Lock, Locked, Return, Idle
<1>2. CASE UnlockRefused
  BY <1>2 DEF UnlockRefused, Return, Idle
<1>3. CASE FactoryReset
  BY <1>3 DEF FactoryReset, Locked, Start
<1>4. ASSUME NEW pw \in Passwords, Setup(pw) PROVE AgreeInv'
  <2>1. CASE Return("throw") /\ UNCHANGED <<dek, unlocked>>
    BY <1>4, <2>1 DEF Return, Setup, Idle
  <2>2. CASE ~(Return("throw") /\ UNCHANGED <<dek, unlocked>>)
    <3>1. PICK s \in Salts, d \in Deks :
            /\ dek' = d
            /\ Start("setup", [flash EXCEPT
                  !.salt = s, !.iter = ITERATIONS, !.vfmt = VAULT_FORMAT_VERSION,
                  !.wdek = [kek |-> [pw |-> pw, salt |-> s, iter |-> ITERATIONS], dek |-> d],
                  !.cats = d, !.entries = d])
      BY <1>4, <2>2 DEF Setup
    <3>2. staged'.wdek.dek = d
      BY <3>1 DEF Start, TypeOK, Flash
    <3>3. ~is_initialized /\ unlocked' = unlocked
      BY <1>4, <2>2 DEF Setup
    <3> QED BY <3>1, <3>2, <3>3
  <2> QED BY <2>1, <2>2
<1>5. ASSUME NEW pw \in Passwords, UnlockWrong(pw) PROVE AgreeInv'
  BY <1>5 DEF UnlockWrong, Return, Idle
<1>6. ASSUME NEW pw \in Passwords, UnlockRight(pw) PROVE AgreeInv'
  BY <1>6 DEF UnlockRight, Locked, Return, Idle
<1>7. ASSUME NEW pw \in Passwords, SetTransferPassword(pw) PROVE AgreeInv'
  BY <1>7 DEF SetTransferPassword, Start, Idle
<1>8. ASSUME NEW cur \in Passwords, NEW next \in Passwords, ChangePassword(cur, next)
      PROVE  AgreeInv'
  BY <1>8 DEF ChangePassword, Return, Start, Idle
<1>9. ASSUME NEW t \in Tables, Persist(t) PROVE AgreeInv'
  BY <1>9 DEF Persist, Start, Tables
<1>10. CASE StoreWrite
  <2>1. UNCHANGED <<dek, unlocked, op, staged>>
    BY <1>10 DEF StoreWrite
  <2>2. unlocked => is_initialized'
    BY <1>10, <2>1, WdekWrite DEF KeyInv, UnlockedIsSetUp
  <2> QED BY <1>10, <2>1, <2>2, WdekWrite
<1>11. CASE StoreCommit
  <2>1. op = "setup" => at > 3
    BY <1>11, WhoWrites DEF StoreCommit, Call, TypeOK
  <2> QED BY <1>11, <2>1 DEF StoreCommit, TypeOK, KeyInv
<1>12. CASE StoreFault
  BY <1>12 DEF StoreFault
<1>13. CASE PowerLoss
  BY <1>13 DEF PowerLoss, Locked
<1>14. CASE Boot
  BY <1>14 DEF Boot, Start
<1>15. CASE UNCHANGED vars
  BY <1>15 DEF vars
<1> QED BY <1>1, <1>2, <1>3, <1>4, <1>5, <1>6, <1>7, <1>8, <1>9, <1>10, <1>11,
           <1>12, <1>13, <1>14, <1>15 DEF Next

LEMMA AgreeInvariant ==
  ASSUME LoginWhileUnlocked = FALSE
  PROVE  Spec => [](TypeOK /\ KeyInv /\ AgreeInv)
<1>1. Init => TypeOK /\ KeyInv /\ AgreeInv
  BY InitTyped, KeyInvInit DEF Init, AgreeInv, KeyAgreement
<1>2. TypeOK /\ KeyInv /\ AgreeInv /\ [Next]_vars => (TypeOK /\ KeyInv /\ AgreeInv)'
  BY NextTyped, KeyInvNext, AgreeNext
<1> QED BY <1>1, <1>2, PTL DEF Spec

(***************************************************************************)
(* With one browser, an open vault always works with the DEK that is       *)
(* wrapped on flash: no fault or power loss in setup, in a password change *)
(* or in the erasures can leave it sealing tables under another key.       *)
(***************************************************************************)
THEOREM OpenVaultHoldsItsKey ==
  ASSUME LoginWhileUnlocked = FALSE
  PROVE  Spec => []KeyAgreement
<1>1. AgreeInv => KeyAgreement
  BY DEF AgreeInv
<1> QED BY <1>1, AgreeInvariant, PTL

-----------------------------------------------------------------------------
(***************************************************************************)
(* The tables stay readable.  Besides one browser this needs the erasures  *)
(* to run to their end: what an interrupted factory_reset leaves sealed    *)
(* under the old DEK would meet the DEK of the next setup.                 *)
(***************************************************************************)
TableInv ==
  /\ TablesReadable
  /\ ~is_initialized /\ op \notin {"wipe", "bootwipe"} => \A t \in Tables : flash[t] = Absent
  /\ op = "setup" => \A t \in Tables : staged[t] = staged.wdek.dek
  /\ op \in Tables => is_initialized /\ staged[op] = flash.wdek.dek
  /\ op \in {"wipe", "bootwipe"} =>
       /\ at > 3 => ~is_initialized
       /\ at > 5 => flash.entries = Absent
       /\ at > 6 => flash.cats = Absent

\* At which steps of the erasures the blobs that matter here go.
LEMMA EraseSteps ==
  ASSUME NEW o \in {"wipe", "bootwipe"}, NEW i \in 1 .. Len(Script[o])
  PROVE  /\ i = 3 <=> Script[o][i] = "wdek"
         /\ i = 5 <=> Script[o][i] = "entries"
         /\ i = 6 <=> Script[o][i] = "cats"
         /\ Script[o][i] = "commit" => i = 9 /\ i = Len(Script[o])
<1>1. Script[o] = Erasures
  BY DEF Script
<1> QED BY <1>1 DEF Erasures

LEMMA TableWrite ==
  ASSUME TypeOK, KeyInv, TableInv, StoreWrite
  PROVE  TableInv'
<1> USE DEF TypeOK, Loads, is_initialized
<1>0. op \in Writing /\ at \in 1 .. Len(Script[op]) /\ at \in Nat /\ at' = at + 1
  BY DEF StoreWrite
<1>s. UNCHANGED <<dek, unlocked, op, staged>>
  BY DEF StoreWrite
<1>w. /\ Call = "wdek" => flash'.wdek = staged.wdek
      /\ Call # "wdek" => flash'.wdek = flash.wdek
      /\ \A t \in Tables : flash'[t] = IF Call = t THEN staged[t] ELSE flash[t]
  BY WriteOne DEF Keys, Tables
<1>1. CASE op \in {"wipe", "bootwipe"}
  <2>1. staged.wdek = Absent /\ \A t \in Tables : staged[t] = Absent
    BY <1>1 DEF KeyInv, Blank, Keys, Tables
  <2>2. /\ at = 3 <=> Call = "wdek"
        /\ at = 5 <=> Call = "entries"
        /\ at = 6 <=> Call = "cats"
    BY <1>0, <1>1, EraseSteps DEF Call
  <2>3. TablesReadable'
    BY <1>1, <1>s, <1>w, <2>1 DEF TableInv, TablesReadable
  <2>4. op' \notin Tables /\ op' # "setup"
    BY <1>1, <1>s DEF Tables
  <2>5. /\ at' > 3 => ~is_initialized'
        /\ at' > 5 => flash'.entries = Absent
        /\ at' > 6 => flash'.cats = Absent
    <3>1. at' > 3 => ~is_initialized'
      BY <1>0, <1>1, <1>w, <2>1, <2>2 DEF TableInv
    <3>2. at' > 5 => flash'.entries = Absent
      <4>1. CASE at = 5
        BY <4>1, <1>w, <2>1, <2>2 DEF Tables
      <4>2. CASE at # 5
        BY <4>2, <1>0, <1>1, <1>w, <2>2 DEF TableInv, Tables
      <4> QED BY <4>1, <4>2
    <3>3. at' > 6 => flash'.cats = Absent
      <4>1. CASE at = 6
        BY <4>1, <1>w, <2>1, <2>2 DEF Tables
      <4>2. CASE at # 6
        BY <4>2, <1>0, <1>1, <1>w, <2>2 DEF TableInv, Tables
      <4> QED BY <4>1, <4>2
    <3> QED BY <3>1, <3>2, <3>3
  <2> QED BY <1>1, <1>s, <2>3, <2>4, <2>5 DEF TableInv
<1>2. CASE op = "setup"
  <2>1. at = 3 <=> Call = "wdek"
    BY <1>0, <1>2, WhoWrites DEF Call
  <2>2. Call \in Tables => at > 3
    BY <1>0, <1>2 DEF Call, Script, Tables
  <2>3. staged.wdek # Absent /\ (at > 3 => flash.wdek = staged.wdek)
    BY <1>0, <1>2 DEF KeyInv
  <2>4. \A t \in Tables : staged[t] = staged.wdek.dek
    BY <1>2 DEF TableInv
  <2>5. at <= 3 => ~is_initialized /\ \A t \in Tables : flash[t] = Absent
    BY <1>0, <1>2 DEF KeyInv, TableInv
  <2>6. TablesReadable'
    BY <1>0, <1>w, <2>1, <2>2, <2>3, <2>4, <2>5 DEF TableInv, TablesReadable
  <2>7. ~is_initialized' => \A t \in Tables : flash'[t] = Absent
    BY <1>0, <1>w, <2>1, <2>2, <2>3, <2>5
  <2> QED BY <1>2, <1>s, <2>4, <2>6, <2>7 DEF TableInv, Tables
<1>3. CASE op = "change"
  <2>1. Call \notin Tables
    BY <1>0, <1>3, WhoWrites DEF Call, Tables
  <2>2. is_initialized /\ is_initialized' /\ flash'.wdek.dek = flash.wdek.dek
    BY <1>3, <1>w, WdekWrite DEF KeyInv
  <2>3. TablesReadable'
    BY <1>w, <2>1, <2>2 DEF TableInv, TablesReadable
  <2> QED BY <1>3, <1>s, <2>2, <2>3 DEF TableInv, Tables
<1>4. CASE op \in Tables \cup {"transfer"}
  <2>1. Call # "wdek" /\ (Call \in Tables => op = Call)
    BY <1>0, <1>4, WhoWrites DEF Call, Tables
  <2>2. TablesReadable'
    BY <1>w, <2>1 DEF TableInv, TablesReadable
  <2>3. ~is_initialized' => \A t \in Tables : flash'[t] = Absent
    BY <1>4, <1>w, <2>1 DEF TableInv, Tables
  <2> QED BY <1>4, <1>s, <1>w, <2>1, <2>2, <2>3 DEF TableInv, Tables
<1> QED BY <1>0, <1>1, <1>2, <1>3, <1>4, WritingOps DEF Tables

LEMMA TableInit == Init => TableInv
<1> SUFFICES ASSUME Init PROVE TableInv
  OBVIOUS
<1> USE DEF Init, TableInv, TablesReadable, is_initialized, Loads, Tables
<1>1. CASE flash = Blank
  BY <1>1 DEF Blank, Keys
<1>2. ASSUME NEW pw \in Passwords, NEW s \in Salts, NEW i \in Iters, NEW d \in Deks,
             NEW fmt \in Formats \cup {Absent}, flash = OldVault(pw, s, i, d, fmt)
      PROVE  TableInv
  <2>1. [kek |-> [pw |-> pw, salt |-> s, iter |-> i], dek |-> d] \in Wrapped
    BY DEF Wrapped, Keks
  <2> QED BY <1>2, <2>1, NotSentinel DEF OldVault
<1> QED BY <1>1, <1>2

LEMMA TableNext ==
  ASSUME LoginWhileUnlocked = FALSE,
         {"wipe", "bootwipe"} \cap (FaultOps \cup CrashOps) = {},
         TypeOK, KeyInv, AgreeInv, TableInv, [Next]_vars
  PROVE  TableInv'
<1> USE DEF TableInv, TablesReadable, is_initialized, Loads, Tables
<1>1. CASE Lock
  BY <1>1 DEF Lock, Locked, Return, Idle
<1>2. CASE UnlockRefused
  BY <1>2 DEF UnlockRefused, Return, Idle
<1>3. CASE FactoryReset
  BY <1>3 DEF FactoryReset, Start, Idle
<1>4. ASSUME NEW pw \in Passwords, Setup(pw) PROVE TableInv'
  <2>1. CASE Return("throw") /\ UNCHANGED <<dek, unlocked>>
    BY <1>4, <2>1 DEF Return, Setup, Idle
  <2>2. CASE ~(Return("throw") /\ UNCHANGED <<dek, unlocked>>)
    <3>1. PICK s \in Salts, d \in Deks :
            /\ dek' = d
            /\ Start("setup", [flash EXCEPT
                  !.salt = s, !.iter = ITERATIONS, !.vfmt = VAULT_FORMAT_VERSION,
                  !.wdek = [kek |-> [pw |-> pw, salt |-> s, iter |-> ITERATIONS], dek |-> d],
                  !.cats = d, !.entries = d])
      BY <1>4, <2>2 DEF Setup
    <3>2. staged'.wdek.dek = d /\ \A t \in Tables : staged'[t] = d
      BY <3>1 DEF Start, TypeOK, Flash
    <3>3. op' = "setup" /\ flash' = flash
      BY <3>1 DEF Start
    <3>4. op = "none" /\ ~is_initialized
      BY <1>4, <2>2 DEF Setup, Idle
    <3> QED BY <3>2, <3>3, <3>4
  <2> QED BY <2>1, <2>2
<1>5. ASSUME NEW pw \in Passwords, UnlockWrong(pw) PROVE TableInv'
  BY <1>5 DEF UnlockWrong, Return, Idle
<1>6. ASSUME NEW pw \in Passwords, UnlockRight(pw) PROVE TableInv'
  BY <1>6 DEF UnlockRight, Return, Idle
<1>7. ASSUME NEW pw \in Passwords, SetTransferPassword(pw) PROVE TableInv'
  BY <1>7 DEF SetTransferPassword, Start, Idle
<1>8. ASSUME NEW cur \in Passwords, NEW next \in Passwords, ChangePassword(cur, next)
      PROVE  TableInv'
  BY <1>8 DEF ChangePassword, Return, Start, Idle
<1>9. ASSUME NEW t \in Tables, Persist(t) PROVE TableInv'
  <2>1. op' = t /\ flash' = flash /\ op = "none"
    BY <1>9 DEF Persist, Start, Idle
  <2>2. staged'[t] = flash.wdek.dek /\ is_initialized
    BY <1>9 DEF Persist, Start, AgreeInv, KeyAgreement, TypeOK, Flash
  <2> QED BY <1>9, <2>1, <2>2
<1>10. CASE StoreWrite
  BY <1>10, TableWrite
<1>11. CASE StoreCommit
  <2>1. op \in {"wipe", "bootwipe"} => at = 9 /\ ~(at < Len(Script[op]))
    BY <1>11, EraseSteps DEF StoreCommit, Call, TypeOK
  <2>2. CASE at < Len(Script[op])
    BY <1>11, <2>1, <2>2 DEF StoreCommit
  <2>3. CASE ~(at < Len(Script[op]))
    <3>1. op' = "none" /\ flash' = flash
      BY <1>11, <2>3 DEF StoreCommit
    <3>2. ~is_initialized => \A t \in Tables : flash[t] = Absent
      BY <2>1
    <3> QED BY <3>1, <3>2
  <2> QED BY <2>2, <2>3
<1>12. CASE StoreFault
  BY <1>12 DEF StoreFault
<1>13. CASE PowerLoss
  BY <1>13 DEF PowerLoss
<1>14. CASE Boot
  BY <1>14 DEF Boot, Start
<1>15. CASE UNCHANGED vars
  BY <1>15 DEF vars
<1> QED BY <1>1, <1>2, <1>3, <1>4, <1>5, <1>6, <1>7, <1>8, <1>9, <1>10, <1>11,
           <1>12, <1>13, <1>14, <1>15 DEF Next

(***************************************************************************)
(* Whatever else fails, both stored tables can be opened with the wrapped  *)
(* DEK: no order of setups, edits, password changes, logins from one       *)
(* browser, faults and power losses seals one under a key that is lost.    *)
(***************************************************************************)
THEOREM TablesStayReadable ==
  ASSUME LoginWhileUnlocked = FALSE,
         {"wipe", "bootwipe"} \cap (FaultOps \cup CrashOps) = {}
  PROVE  Spec => []TablesReadable
<1>1. Init => TableInv
  BY TableInit
<1>2. TypeOK /\ KeyInv /\ AgreeInv /\ TableInv /\ [Next]_vars => TableInv'
  BY TableNext
<1>3. TableInv => TablesReadable
  BY DEF TableInv
<1> QED BY <1>1, <1>2, <1>3, AgreeInvariant, PTL DEF Spec

-----------------------------------------------------------------------------
(***************************************************************************)
(* Some password opens the vault.  This needs the two updates that replace *)
(* the salt under an existing wrapped DEK, change_password and             *)
(* factory_reset, to run to their end; setup, the boot-time wipe and       *)
(* everything else may be cut anywhere.                                    *)
(***************************************************************************)
Matches(w) == w.kek = load_kek(w.kek.pw)

OpenInv ==
  /\ /\ is_initialized
     /\ flash.vfmt = VAULT_FORMAT_VERSION \/ op = "setup"
     /\ op \notin {"change", "wipe"}
     => Matches(flash.wdek)
  /\ op \in {"setup", "change"} =>
       /\ staged.wdek # Absent /\ staged.salt \in Salts /\ staged.iter = ITERATIONS
       /\ staged.wdek.kek.salt = staged.salt /\ staged.wdek.kek.iter = ITERATIONS
       /\ at > 1 => flash.salt = staged.salt
       /\ at > 2 => flash.iter = ITERATIONS
       /\ at > 3 => flash.wdek = staged.wdek
  /\ op = "setup" /\ at <= 3 => ~is_initialized
  /\ op \in {"wipe", "bootwipe"} /\ at > 3 => ~is_initialized
  /\ op = "bootwipe" /\ at <= 4 /\ is_initialized => flash.vfmt # VAULT_FORMAT_VERSION

\* At which steps the key blobs are written, and by whom.
LEMMA KeySteps ==
  ASSUME NEW o \in Writing, NEW i \in 1 .. Len(Script[o])
  PROVE  /\ o \in {"setup", "change", "wipe", "bootwipe"} =>
              /\ i = 1 <=> Script[o][i] = "salt"
              /\ i = 2 <=> Script[o][i] = "iter"
              /\ i = 3 <=> Script[o][i] = "wdek"
              /\ Script[o][i] = "vfmt" => i = 4
              /\ Script[o][i] = "commit" => i > 3
         /\ o \notin {"setup", "change", "wipe", "bootwipe"} =>
              Script[o][i] \notin {"salt", "iter", "wdek", "vfmt"}
<1>2. CASE o = "setup"    BY <1>2 DEF Script
<1>3. CASE o = "change"   BY <1>3 DEF Script
<1>4. CASE o = "transfer" BY <1>4 DEF Script
<1>5. CASE o = "entries"  BY <1>5 DEF Script
<1>6. CASE o = "cats"     BY <1>6 DEF Script
<1>7. CASE o \in {"wipe", "bootwipe"}
  <2>1. Script[o] = Erasures
    BY <1>7 DEF Script
  <2> QED BY <2>1, <1>7 DEF Erasures
<1> QED BY WritingOps, <1>2, <1>3, <1>4, <1>5, <1>6, <1>7

LEMMA OpenWrite ==
  ASSUME TypeOK, KeyInv, OpenInv, StoreWrite
  PROVE  OpenInv'
<1> USE DEF TypeOK, is_initialized
<1>0. op \in Writing /\ at \in 1 .. Len(Script[op]) /\ at \in Nat /\ at' = at + 1
  BY DEF StoreWrite
<1>s. UNCHANGED <<dek, unlocked, op, staged>>
  BY DEF StoreWrite
<1>w. /\ flash'.salt = IF Call = "salt" THEN staged.salt ELSE flash.salt
      /\ flash'.iter = IF Call = "iter" THEN staged.iter ELSE flash.iter
      /\ flash'.wdek = IF Call = "wdek" THEN staged.wdek ELSE flash.wdek
      /\ flash'.vfmt = IF Call = "vfmt" THEN staged.vfmt ELSE flash.vfmt
  BY WriteOne DEF Keys
<1>1. CASE op \in {"setup", "change"}
  <2>1. /\ at = 1 <=> Call = "salt"
        /\ at = 2 <=> Call = "iter"
        /\ at = 3 <=> Call = "wdek"
    BY <1>0, <1>1, KeySteps DEF Call
  <2>2. /\ staged.wdek # Absent /\ staged.salt \in Salts /\ staged.iter = ITERATIONS
        /\ staged.wdek.kek.salt = staged.salt /\ staged.wdek.kek.iter = ITERATIONS
    BY <1>1 DEF OpenInv
  <2>3. /\ at' > 1 => flash'.salt = staged.salt
        /\ at' > 2 => flash'.iter = ITERATIONS
        /\ at' > 3 => flash'.wdek = staged.wdek
    BY <1>0, <1>1, <1>w, <2>1, <2>2 DEF OpenInv
  <2>4. op = "setup" /\ at' <= 3 => ~is_initialized'
    BY <1>0, <1>w, <2>1 DEF OpenInv
  <2>5. op = "setup" /\ at' > 3 => Matches(flash.wdek)'
    <3> SUFFICES ASSUME op = "setup", at' > 3 PROVE Matches(flash.wdek)'
      OBVIOUS
    <3>1. staged.wdek \in Wrapped
      BY <2>2 DEF Flash
    <3>2. staged.wdek.kek = [pw |-> staged.wdek.kek.pw, salt |-> staged.salt, iter |-> ITERATIONS]
      BY <2>2, <3>1 DEF Wrapped, Keks
    <3>3. flash'.salt = staged.salt /\ flash'.iter = ITERATIONS /\ flash'.wdek = staged.wdek
      BY <1>0, <2>3
    <3> QED BY <3>2, <3>3 DEF Matches, load_kek
  <2> QED BY <1>0, <1>1, <1>s, <2>2, <2>3, <2>4, <2>5 DEF OpenInv
<1>2. CASE op \in {"wipe", "bootwipe"}
  <2>1. staged.wdek = Absent /\ staged.vfmt = Absent
    BY <1>2 DEF KeyInv, Blank, Keys
  <2>2. at = 3 <=> Call = "wdek"
    BY <1>0, <1>2, KeySteps DEF Call
  <2>3. Call = "vfmt" => at = 4
    BY <1>0, <1>2, KeySteps DEF Call
  <2>4. at' > 3 => ~is_initialized'
    BY <1>0, <1>2, <1>w, <2>1, <2>2 DEF OpenInv
  <2>5. op = "bootwipe" /\ is_initialized' => flash'.vfmt # VAULT_FORMAT_VERSION
    BY <1>0, <1>w, <2>1, <2>2, <2>3, <2>4 DEF OpenInv
  <2> QED BY <1>2, <1>s, <2>4, <2>5 DEF OpenInv
<1>3. CASE op \in Tables \cup {"transfer"}
  <2>1. Call \notin {"salt", "iter", "wdek", "vfmt"}
    BY <1>0, <1>3, KeySteps DEF Call, Tables
  <2> QED BY <1>3, <1>s, <1>w, <2>1 DEF OpenInv, Matches, load_kek, Tables
<1> QED BY <1>0, <1>1, <1>2, <1>3, WritingOps DEF Tables

LEMMA OpenInit == Init => OpenInv
<1> SUFFICES ASSUME Init PROVE OpenInv
  OBVIOUS
<1> USE DEF Init, OpenInv, is_initialized
<1>1. CASE flash = Blank
  BY <1>1 DEF Blank, Keys
<1>2. ASSUME NEW pw \in Passwords, NEW s \in Salts, NEW i \in Iters, NEW d \in Deks,
             NEW fmt \in Formats \cup {Absent}, flash = OldVault(pw, s, i, d, fmt)
      PROVE  OpenInv
  <2>1. i # Absent
    BY VaultConstants
  <2>2. Matches(flash.wdek)
    BY <1>2, <2>1 DEF Matches, load_kek, OldVault
  <2> QED BY <2>2
<1> QED BY <1>1, <1>2

LEMMA OpenNext ==
  ASSUME {"change", "wipe"} \cap (FaultOps \cup CrashOps) = {},
         TypeOK, KeyInv, OpenInv, [Next]_vars
  PROVE  OpenInv'
<1> USE DEF OpenInv, is_initialized, Matches, load_kek
<1>1. CASE Lock
  BY <1>1 DEF Lock, Return, Idle
<1>2. CASE UnlockRefused
  BY <1>2 DEF UnlockRefused, Return, Idle
<1>3. CASE FactoryReset
  BY <1>3 DEF FactoryReset, Start, Idle
<1>4. ASSUME NEW pw \in Passwords, Setup(pw) PROVE OpenInv'
  <2>1. CASE Return("throw") /\ UNCHANGED <<dek, unlocked>>
    BY <1>4, <2>1 DEF Return, Setup, Idle
  <2>2. CASE ~(Return("throw") /\ UNCHANGED <<dek, unlocked>>)
    <3>1. PICK s \in Salts, d \in Deks :
            /\ dek' = d
            /\ Start("setup", [flash EXCEPT
                  !.salt = s, !.iter = ITERATIONS, !.vfmt = VAULT_FORMAT_VERSION,
                  !.wdek = [kek |-> [pw |-> pw, salt |-> s, iter |-> ITERATIONS], dek |-> d],
                  !.cats = d, !.entries = d])
      BY <1>4, <2>2 DEF Setup
    <3>2. [kek |-> [pw |-> pw, salt |-> s, iter |-> ITERATIONS], dek |-> d] \in Wrapped
      BY VaultConstants DEF Wrapped, Keks
    <3>3. /\ staged'.salt = s /\ staged'.iter = ITERATIONS
          /\ staged'.wdek = [kek |-> [pw |-> pw, salt |-> s, iter |-> ITERATIONS], dek |-> d]
      BY <3>1 DEF Start, TypeOK, Flash
    <3>4. op' = "setup" /\ at' = 1 /\ flash' = flash
      BY <3>1 DEF Start
    <3>5. ~is_initialized
      BY <1>4, <2>2 DEF Setup
    <3> QED BY <3>2, <3>3, <3>4, <3>5, NotSentinel
  <2> QED BY <2>1, <2>2
<1>5. ASSUME NEW pw \in Passwords, UnlockWrong(pw) PROVE OpenInv'
  BY <1>5 DEF UnlockWrong, Return, Idle
<1>6. ASSUME NEW pw \in Passwords, UnlockRight(pw) PROVE OpenInv'
  BY <1>6 DEF UnlockRight, Return, Idle
<1>7. ASSUME NEW pw \in Passwords, SetTransferPassword(pw) PROVE OpenInv'
  BY <1>7 DEF SetTransferPassword, Start, Idle
<1>8. ASSUME NEW cur \in Passwords, NEW next \in Passwords, ChangePassword(cur, next)
      PROVE  OpenInv'
  <2>1. CASE Return("throw") \/ Return("false")
    BY <1>8, <2>1 DEF Return, ChangePassword, Idle
  <2>2. CASE ~(Return("throw") \/ Return("false"))
    <3>1. Unwraps(cur)
      BY <1>8, <2>2 DEF ChangePassword
    <3>2. PICK s \in Salts :
            Start("change", [flash EXCEPT
               !.salt = s, !.iter = ITERATIONS,
               !.wdek = [kek |-> [pw |-> next, salt |-> s, iter |-> ITERATIONS],
                         dek |-> flash.wdek.dek]])
      BY <1>8, <2>2 DEF ChangePassword
    <3>3. [kek |-> [pw |-> next, salt |-> s, iter |-> ITERATIONS],
           dek |-> flash.wdek.dek] \in Wrapped
      BY <3>1, VaultConstants DEF Unwraps, TypeOK, Flash, Wrapped, Keks
    <3>4. /\ staged'.salt = s /\ staged'.iter = ITERATIONS
          /\ staged'.wdek = [kek |-> [pw |-> next, salt |-> s, iter |-> ITERATIONS],
                             dek |-> flash.wdek.dek]
      BY <3>2 DEF Start, TypeOK, Flash
    <3>5. op' = "change" /\ at' = 1 /\ flash' = flash
      BY <3>2 DEF Start
    <3> QED BY <3>3, <3>4, <3>5, NotSentinel
  <2> QED BY <2>1, <2>2
<1>9. ASSUME NEW t \in Tables, Persist(t) PROVE OpenInv'
  BY <1>9 DEF Persist, Start, Idle, Tables
<1>10. CASE StoreWrite
  BY <1>10, OpenWrite
<1>11. CASE StoreCommit
  <2>1. op \in {"setup", "change", "wipe", "bootwipe"} => at > 3
    BY <1>11, KeySteps DEF StoreCommit, Call, TypeOK
  <2>2. CASE at < Len(Script[op])
    <3>1. UNCHANGED <<flash, op, staged>> /\ at' = at + 1
      BY <1>11, <2>2 DEF StoreCommit
    <3>2. op # "bootwipe"
      BY <1>11, <2>2, EraseSteps DEF StoreCommit, Call, TypeOK
    <3> QED BY <2>1, <3>1, <3>2 DEF TypeOK
  <2>3. CASE ~(at < Len(Script[op]))
    <3>1. op' = "none" /\ flash' = flash
      BY <1>11, <2>3 DEF StoreCommit
    <3>2. is_initialized /\ flash.vfmt = VAULT_FORMAT_VERSION => Matches(flash.wdek)
      <4>1. CASE op = "change"
        <5>1. /\ flash.salt = staged.salt /\ flash.iter = ITERATIONS
              /\ flash.wdek = staged.wdek /\ staged.wdek # Absent
          BY <2>1, <4>1 DEF TypeOK
        <5>2. staged.wdek.kek = [pw |-> staged.wdek.kek.pw, salt |-> staged.salt,
                                 iter |-> ITERATIONS]
          BY <4>1, <5>1 DEF TypeOK, Flash, Wrapped, Keks
        <5>3. flash.iter # Absent
          BY <5>1, VaultConstants
        <5> QED BY <5>1, <5>2, <5>3
      <4>2. CASE op # "change"
        BY <2>1, <4>2
      <4> QED BY <4>1, <4>2
    <3> QED BY <3>1, <3>2
  <2> QED BY <2>2, <2>3
<1>12. CASE StoreFault
  BY <1>12 DEF StoreFault, TypeOK
<1>13. CASE PowerLoss
  BY <1>13 DEF PowerLoss, TypeOK
<1>14. CASE Boot
  BY <1>14 DEF Boot, Start
<1>15. CASE UNCHANGED vars
  BY <1>15 DEF vars
<1> QED BY <1>1, <1>2, <1>3, <1>4, <1>5, <1>6, <1>7, <1>8, <1>9, <1>10, <1>11,
           <1>12, <1>13, <1>14, <1>15 DEF Next

(***************************************************************************)
(* Unless a password change or a factory reset is cut short, a vault of    *)
(* the current format is never left with a wrapped DEK no password opens:  *)
(* the salt, the iteration count and the wrapped DEK on flash belong       *)
(* together, also in a vault set up by a build with another count.         *)
(***************************************************************************)
THEOREM VaultStaysOpenable ==
  ASSUME {"change", "wipe"} \cap (FaultOps \cup CrashOps) = {}
  PROVE  Spec => []WrappedDekOpens
<1>1. Init => OpenInv
  BY OpenInit
<1>2. TypeOK /\ KeyInv /\ OpenInv /\ [Next]_vars => OpenInv'
  BY OpenNext
<1>3. TypeOK /\ OpenInv => WrappedDekOpens
  <2> SUFFICES ASSUME TypeOK, OpenInv, is_initialized, flash.vfmt = VAULT_FORMAT_VERSION,
                      op \notin {"change", "wipe"}
               PROVE  \E pw \in Passwords : Unwraps(pw)
    BY DEF WrappedDekOpens
  <2>1. flash.wdek.kek.pw \in Passwords
    BY DEF TypeOK, Flash, Wrapped, Keks, is_initialized
  <2>2. Unwraps(flash.wdek.kek.pw)
    BY DEF OpenInv, Matches, Unwraps, is_initialized
  <2> WITNESS flash.wdek.kek.pw \in Passwords
  <2> QED BY <2>2
<1> QED BY <1>1, <1>2, <1>3, KeyInvariant, PTL DEF Spec
=============================================================================
