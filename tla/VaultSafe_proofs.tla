-------------------------- MODULE VaultSafe_proofs --------------------------
(***************************************************************************)
(* The refinement of VaultSafe, for every value of the constants.  The     *)
(* invariants of Vault_proofs say where a running operation stands         *)
(* (KeyInv) and that dek_ is the wrapped DEK (AgreeInv); StagedInv adds    *)
(* that the three blobs setup and change_password write fit together.      *)
(***************************************************************************)
EXTENDS VaultSafe, Vault_proofs

StagedInv ==
  /\ op \in {"setup", "change"} =>
       /\ staged.wdek # Absent /\ staged.salt \in Salts /\ staged.iter = ITERATIONS
       /\ staged.wdek.kek.salt = staged.salt /\ staged.wdek.kek.iter = ITERATIONS
       /\ at > 1 => flash.salt = staged.salt
       /\ at > 2 => flash.iter = ITERATIONS
       /\ at > 3 => flash.wdek = staged.wdek
  /\ op \in {"wipe", "bootwipe"} /\ at > 1 => flash.salt = Absent

LEMMA StagedInit == Init => StagedInv
  BY DEF Init, StagedInv

\* What a store write does to the three key blobs.
LEMMA KeyWrite ==
  ASSUME TypeOK, StoreWrite
  PROVE  /\ flash'.salt = IF Call = "salt" THEN staged.salt ELSE flash.salt
         /\ flash'.iter = IF Call = "iter" THEN staged.iter ELSE flash.iter
         /\ flash'.wdek = IF Call = "wdek" THEN staged.wdek ELSE flash.wdek
         /\ op \in {"setup", "change", "wipe", "bootwipe"} =>
              /\ at = 1 <=> Call = "salt"
              /\ at = 2 <=> Call = "iter"
              /\ at = 3 <=> Call = "wdek"
         /\ op \notin {"setup", "change", "wipe", "bootwipe"} =>
              Call \notin {"salt", "iter", "wdek"}
         /\ at \in 1 .. 9 /\ at' = at + 1
         /\ op \in Writing /\ UNCHANGED <<dek, unlocked, op, staged>>
<1>1. op \in Writing /\ at \in 1 .. Len(Script[op]) /\ at' = at + 1
  BY DEF StoreWrite, TypeOK
<1>2. at \in 1 .. 9
  BY <1>1, ScriptSteps
<1>3. \A k \in {"salt", "iter", "wdek"} :
        flash'[k] = IF Call = k THEN staged[k] ELSE flash[k]
  BY WriteOne DEF Keys
<1> QED BY <1>1, <1>2, <1>3, KeySteps DEF Call, StoreWrite

LEMMA StagedNext ==
  ASSUME TypeOK, KeyInv, StagedInv, [Next]_vars
  PROVE  StagedInv'
<1> USE DEF StagedInv
<1>1. CASE Lock \/ UnlockRefused \/ FactoryReset \/ Boot \/ PowerLoss \/ StoreFault
  BY <1>1 DEF Lock, UnlockRefused, FactoryReset, Boot, PowerLoss, StoreFault, Return, Start,
              Idle
<1>4. ASSUME NEW pw \in Passwords, Setup(pw) PROVE StagedInv'
  <2>1. CASE Return("throw") /\ UNCHANGED <<dek, unlocked>>
    BY <1>4, <2>1 DEF Return, Setup, Idle
  <2>2. CASE ~(Return("throw") /\ UNCHANGED <<dek, unlocked>>)
    <3>1. PICK s \in Salts, d \in Deks :
            /\ dek' = d
            /\ Start("setup", [flash EXCEPT
                  !.salt = s, !.iter = ITERATIONS, !.vfmt = VAULT_FORMAT_VERSION,
                  !.wdek = [kek |-> [pw |-> pw, salt |-> s, iter |-> ITERATIONS], dek |-> d],
                  !.cats = d, !.entries = d])
      BY <1>4, <2>2 DEF Setup
    <3>2. [kek |-> [pw |-> pw, salt |-> s, iter |-> ITERATIONS], dek |-> d] \in Wrapped
      BY VaultConstants DEF Wrapped, Keks
    <3>3. /\ staged'.salt = s /\ staged'.iter = ITERATIONS
          /\ staged'.wdek = [kek |-> [pw |-> pw, salt |-> s, iter |-> ITERATIONS], dek |-> d]
      BY <3>1 DEF Start, TypeOK, Flash
    <3>4. at' = 1
      BY <3>1 DEF Start
    <3> QED BY <3>2, <3>3, <3>4, NotSentinel
  <2> QED BY <2>1, <2>2
<1>5. ASSUME NEW pw \in Passwords, UnlockWrong(pw) \/ UnlockRight(pw) PROVE StagedInv'
  BY <1>5 DEF UnlockWrong, UnlockRight, Return, Idle
<1>6. ASSUME NEW pw \in Passwords, SetTransferPassword(pw) PROVE StagedInv'
  BY <1>6 DEF SetTransferPassword, Start
<1>7. ASSUME NEW cur \in Passwords, NEW next \in Passwords, ChangePassword(cur, next)
      PROVE  StagedInv'
  <2>1. CASE Return("throw") \/ Return("false")
    BY <1>7, <2>1 DEF Return, ChangePassword, Idle
  <2>2. CASE ~(Return("throw") \/ Return("false"))
    <3>1. Unwraps(cur)
      BY <1>7, <2>2 DEF ChangePassword
    <3>2. PICK s \in Salts :
            Start("change", [flash EXCEPT
               !.salt = s, !.iter = ITERATIONS,
               !.wdek = [kek |-> [pw |-> next, salt |-> s, iter |-> ITERATIONS],
                         dek |-> flash.wdek.dek]])
      BY <1>7, <2>2 DEF ChangePassword
    <3>3. [kek |-> [pw |-> next, salt |-> s, iter |-> ITERATIONS],
           dek |-> flash.wdek.dek] \in Wrapped
      BY <3>1, VaultConstants DEF Unwraps, TypeOK, Flash, Wrapped, Keks
    <3>4. /\ staged'.salt = s /\ staged'.iter = ITERATIONS
          /\ staged'.wdek = [kek |-> [pw |-> next, salt |-> s, iter |-> ITERATIONS],
                             dek |-> flash.wdek.dek]
      BY <3>2 DEF Start, TypeOK, Flash
    <3>5. at' = 1
      BY <3>2 DEF Start
    <3> QED BY <3>3, <3>4, <3>5, NotSentinel
  <2> QED BY <2>1, <2>2
<1>8. ASSUME NEW t \in Tables, Persist(t) PROVE StagedInv'
  BY <1>8 DEF Persist, Start, Tables
<1>9. CASE StoreWrite
  <2>1. op \in {"wipe", "bootwipe"} => staged.salt = Absent
    BY DEF KeyInv, Blank, Keys
  <2> QED BY <1>9, <2>1, KeyWrite
<1>10. CASE StoreCommit
  <2>1. op \in {"setup", "change"} => at > 3 /\ at \in 1 .. 9
    BY <1>10, KeySteps, ScriptSteps DEF StoreCommit, Call, TypeOK
  <2>2. op \in {"wipe", "bootwipe"} => at > 1 /\ at \in 1 .. 9
    BY <1>10, KeySteps, ScriptSteps DEF StoreCommit, Call, TypeOK
  <2> QED BY <1>10, <2>1, <2>2 DEF StoreCommit
<1>11. CASE UNCHANGED vars
  BY <1>11 DEF vars
<1> QED BY <1>1, <1>4, <1>5, <1>6, <1>7, <1>8, <1>9, <1>10, <1>11 DEF Next

-----------------------------------------------------------------------------
(***************************************************************************)
(* The refinement.  A password opens the vault iff it is the one the       *)
(* wrapped DEK was wrapped under and the salt and count still fit.         *)
(***************************************************************************)
LEMMA OpenableMeans ==
  ASSUME TypeOK
  PROVE  Openable <=> is_initialized /\ (op = "change" \/ Matches(flash.wdek))
<1>1. ASSUME is_initialized, Matches(flash.wdek)
      PROVE  \E pw \in Passwords : Unwraps(pw)
  <2>1. flash.wdek.kek.pw \in Passwords
    BY <1>1 DEF TypeOK, Flash, Wrapped, Keks, is_initialized
  <2>2. Unwraps(flash.wdek.kek.pw)
    BY <1>1 DEF Matches, Unwraps, is_initialized
  <2> QED BY <2>1, <2>2
<1>2. ASSUME NEW pw \in Passwords, Unwraps(pw)
      PROVE  Matches(flash.wdek)
  BY <1>2 DEF Unwraps, load_kek, Matches
<1> QED BY <1>1, <1>2 DEF Openable

LEMMA OwnedSafe ==
  ASSUME TypeOK
  PROVE  /\ Openable =>
              /\ SafeOnFlash = [owner |-> flash.wdek.kek.pw, secret |-> flash.wdek.dek]
              /\ SafeOnFlash \in S!Owned /\ SafeOnFlash # Absent
              /\ flash.wdek.kek.pw \in Passwords /\ flash.wdek.dek \in Deks
         /\ ~Openable => SafeOnFlash = Absent
<1> SUFFICES ASSUME Openable
             PROVE  /\ SafeOnFlash \in S!Owned /\ SafeOnFlash # Absent
                    /\ flash.wdek.kek.pw \in Passwords /\ flash.wdek.dek \in Deks
  BY DEF SafeOnFlash
<1>1. flash.wdek \in Wrapped
  BY DEF Openable, is_initialized, TypeOK, Flash
<1> QED BY <1>1, OwnedDiffers DEF SafeOnFlash, S!Owned, Wrapped, Keks

\* A step that leaves the key blobs alone, and neither starts, ends nor cuts a
\* password change, leaves the safe alone.
LEMMA SameSafe ==
  ASSUME flash'.salt = flash.salt, flash'.iter = flash.iter, flash'.wdek = flash.wdek,
         op' = "change" <=> op = "change"
  PROVE  SafeOnFlash' = SafeOnFlash
<1>1. \A pw \in Passwords : Unwraps(pw)' <=> Unwraps(pw)
  BY DEF Unwraps, load_kek
<1>2. Openable' <=> Openable
  BY <1>1 DEF Openable, is_initialized
<1> QED BY <1>2 DEF SafeOnFlash

\* What a step may do to the safe: nothing, or the abstract action it names.
LEMMA Stutters ==
  ASSUME SafeOnFlash' = SafeOnFlash, Held' = Held,
         op' \in {"wipe", "bootwipe"} <=> op \in {"wipe", "bootwipe"}
  PROVE  [S!Next]_(S!vars)
  BY DEF S!vars

LEMMA Closes ==
  ASSUME SafeOnFlash' = SafeOnFlash, Held' = Absent,
         op' \in {"wipe", "bootwipe"} <=> op \in {"wipe", "bootwipe"}
  PROVE  [S!Next]_(S!vars)
<1>1. S!Close
  BY DEF S!Close
<1> QED BY <1>1 DEF S!Next

LEMMA StartsErase ==
  ASSUME SafeOnFlash' = SafeOnFlash, Held' = Absent,
         op \notin {"wipe", "bootwipe"}, op' \in {"wipe", "bootwipe"}
  PROVE  [S!Next]_(S!vars)
<1>1. S!StartErase
  BY DEF S!StartErase
<1> QED BY <1>1 DEF S!Next

LEMMA EndsErase ==
  ASSUME SafeOnFlash' = SafeOnFlash, Held' = Held,
         op \in {"wipe", "bootwipe"}, op' \notin {"wipe", "bootwipe"}
  PROVE  [S!Next]_(S!vars)
<1>1. S!EndErase
  BY DEF S!EndErase
<1> QED BY <1>1 DEF S!Next

LEMMA Opens ==
  ASSUME SafeOnFlash' = SafeOnFlash, SafeOnFlash # Absent, Held' = SafeOnFlash.secret,
         op' \in {"wipe", "bootwipe"} <=> op \in {"wipe", "bootwipe"},
         op \notin {"wipe", "bootwipe"}
  PROVE  [S!Next]_(S!vars)
<1>1. S!Open
  BY DEF S!Open
<1> QED BY <1>1 DEF S!Next

\* Without the salt its KEK was derived with, no password opens it.
LEMMA SaltlessIsShut ==
  ASSUME TypeOK', op' # "change", flash'.salt = Absent \/ flash'.wdek = Absent
  PROVE  ~Openable'
<1> SUFFICES ASSUME Openable' PROVE FALSE
  OBVIOUS
<1>1. PICK pw \in Passwords : Unwraps(pw)'
  BY DEF Openable
<1>2. flash'.wdek \in Wrapped
  BY <1>1 DEF Unwraps, TypeOK, Flash
<1>3. flash'.wdek.kek.salt \in Salts
  BY <1>2 DEF Wrapped, Keks
<1> QED BY <1>1, <1>3, VaultConstants DEF Unwraps, load_kek

\* The store writes: setup claims the safe and change_password changes its owner
\* with the write of "wdek"; an erasure of "salt" empties it.
LEMMA SafeWrite ==
  ASSUME TypeOK, TypeOK', KeyInv, StagedInv, StagedInv', StoreWrite
  PROVE  [S!Next]_(S!vars)
<1> USE KeyWrite
<1>1. UNCHANGED <<dek, unlocked, op, staged>> /\ Held' = Held
  BY DEF Held
<1>2. CASE op \notin {"setup", "change", "wipe", "bootwipe"}
  BY <1>1, <1>2, SameSafe, Stutters
<1>3. CASE op \in {"wipe", "bootwipe"}
  <2>1. staged.salt = Absent /\ staged.wdek = Absent
    BY <1>3 DEF KeyInv, Blank, Keys
  <2>2. CASE Call \notin {"salt", "iter", "wdek"}
    BY <1>1, <2>2, SameSafe, Stutters
  <2>3. CASE Call \in {"salt", "iter", "wdek"}
    <3>1. flash'.salt = Absent \/ flash'.wdek = Absent
      BY <1>1, <1>3, <2>1, <2>3 DEF StagedInv
    <3>2. ~Openable'
      BY <1>1, <1>3, <3>1, SaltlessIsShut
    <3>3. S!Erase
      BY <1>1, <1>3, <3>2 DEF S!Erase, SafeOnFlash
    <3> QED BY <3>3 DEF S!Next
  <2> QED BY <2>2, <2>3
<1>4. CASE op = "change"
  <2>1. /\ is_initialized /\ staged.wdek # Absent
        /\ staged.wdek.dek = flash.wdek.dek
    BY <1>4 DEF KeyInv
  <2>2. CASE Call = "wdek"
    <3>1. Openable /\ Openable' /\ flash'.wdek = staged.wdek
      BY <1>1, <1>4, <2>1, <2>2 DEF Openable, is_initialized
    <3>2. staged.wdek \in Wrapped
      BY <2>1 DEF TypeOK, Flash
    <3>3. staged.wdek.kek.pw \in Passwords
      BY <3>2 DEF Wrapped, Keks
    <3>4. S!ChangeOwner(staged.wdek.kek.pw)
      BY <1>1, <1>4, <2>1, <3>1, OwnedSafe DEF S!ChangeOwner, SafeOnFlash
    <3> QED BY <3>3, <3>4 DEF S!Next
  <2>3. CASE Call # "wdek"
    <3>1. SafeOnFlash' = SafeOnFlash
      BY <1>1, <1>4, <2>1, <2>3 DEF SafeOnFlash, Openable, is_initialized
    <3> QED BY <1>1, <3>1, Stutters
  <2> QED BY <2>2, <2>3
<1>5. CASE op = "setup"
  <2>1. CASE Call = "wdek"
    <3>1. ~is_initialized /\ Held = Absent /\ Held' = Absent
      BY <1>1, <1>5, <2>1 DEF KeyInv, UnlockedIsSetUp, Held
    <3>2. /\ flash'.wdek = staged.wdek /\ staged.wdek # Absent
          /\ flash'.salt = staged.wdek.kek.salt /\ flash'.iter = staged.wdek.kek.iter
          /\ staged.wdek \in Wrapped /\ flash'.iter # Absent
      BY <1>1, <1>5, <2>1, VaultConstants DEF StagedInv, TypeOK, Flash
    <3>3. Unwraps(staged.wdek.kek.pw)' /\ staged.wdek.kek.pw \in Passwords
          /\ staged.wdek.dek \in Deks
      BY <3>2 DEF Unwraps, load_kek, Wrapped, Keks
    <3>4. Openable'
      BY <3>2, <3>3, <1>1 DEF Openable, is_initialized
    <3>5. S!Claim(staged.wdek.kek.pw, staged.wdek.dek)
      BY <1>1, <1>5, <3>1, <3>2, <3>4 DEF S!Claim, SafeOnFlash, Openable
    <3> QED BY <3>3, <3>5 DEF S!Next
  <2>2. CASE Call \in {"salt", "iter"}
    <3>1. ~is_initialized /\ ~is_initialized'
      BY <1>1, <1>5, <2>2 DEF KeyInv, is_initialized
    <3> QED BY <1>1, <3>1, Stutters DEF SafeOnFlash, Openable
  <2>3. CASE Call \notin {"salt", "iter", "wdek"}
    BY <1>1, <2>3, SameSafe, Stutters
  <2> QED BY <2>1, <2>2, <2>3
<1> QED BY <1>2, <1>3, <1>4, <1>5

\* Ending a password change leaves the blobs it wrote fitting together.
LEMMA ChangeEnds ==
  ASSUME TypeOK, KeyInv, StagedInv, op = "change", at > 3,
         flash' = flash, op' = "none"
  PROVE  SafeOnFlash' = SafeOnFlash
<1>1. /\ flash.wdek = staged.wdek /\ flash.wdek \in Wrapped /\ is_initialized
      /\ flash.salt = flash.wdek.kek.salt /\ flash.iter = flash.wdek.kek.iter
      /\ flash.iter # Absent
  BY VaultConstants DEF StagedInv, KeyInv, TypeOK, Flash, is_initialized
<1>2. Unwraps(flash.wdek.kek.pw)' /\ flash.wdek.kek.pw \in Passwords
  BY <1>1 DEF Unwraps, load_kek, is_initialized, Wrapped, Keks
<1>3. Openable /\ Openable'
  BY <1>1, <1>2 DEF Openable, is_initialized, Unwraps
<1> QED BY <1>3 DEF SafeOnFlash

LEMMA SafeNext ==
  ASSUME LoginWhileUnlocked = FALSE, "change" \notin FaultOps \cup CrashOps,
         TypeOK, TypeOK', KeyInv, KeyInv', AgreeInv, AgreeInv', StagedInv, StagedInv',
         [Next]_vars
  PROVE  [S!Next]_(S!vars)
<1>1. CASE Lock
  <2>1. SafeOnFlash' = SafeOnFlash /\ Held' = Absent /\ op' = op
    BY <1>1, SameSafe DEF Lock, Locked, Return, Held
  <2> QED BY <2>1, Closes
<1>2. CASE UnlockRefused
  BY <1>2, SameSafe, Stutters DEF UnlockRefused, Return, Held
<1>3. CASE FactoryReset
  <2>1. SafeOnFlash' = SafeOnFlash /\ Held' = Absent
    BY <1>3, SameSafe DEF FactoryReset, Locked, Start, Held, Idle
  <2> QED BY <1>3, <2>1, StartsErase DEF FactoryReset, Start, Idle
<1>4. ASSUME NEW pw \in Passwords, Setup(pw) PROVE [S!Next]_(S!vars)
  <2>1. CASE Return("throw") /\ UNCHANGED <<dek, unlocked>>
    BY <2>1, SameSafe, Stutters DEF Return, Held
  <2>2. CASE ~(Return("throw") /\ UNCHANGED <<dek, unlocked>>)
    <3>1. ~is_initialized /\ unlocked' = unlocked /\ op' = "setup" /\ flash' = flash
          /\ op = "none"
      BY <1>4, <2>2 DEF Setup, Start, Idle
    <3>2. Held = Absent /\ Held' = Absent
      BY <3>1 DEF KeyInv, UnlockedIsSetUp, Held
    <3> QED BY <3>1, <3>2, SameSafe, Stutters
  <2> QED BY <2>1, <2>2
<1>5. ASSUME NEW pw \in Passwords, UnlockWrong(pw) PROVE [S!Next]_(S!vars)
  <2>1. ~unlocked /\ ~unlocked' /\ flash' = flash /\ op' = op
    BY <1>5 DEF UnlockWrong, Return, TypeOK
  <2> QED BY <2>1, SameSafe, Stutters DEF Held
<1>6. ASSUME NEW pw \in Passwords, UnlockRight(pw) PROVE [S!Next]_(S!vars)
  <2>1. flash' = flash /\ op' = op /\ op = "none" /\ Unwraps(pw)
    BY <1>6 DEF UnlockRight, Return, Idle
  <2>2. SafeOnFlash' = SafeOnFlash
    BY <2>1, SameSafe
  <2>3. CASE Locked
    BY <2>1, <2>2, <2>3, Closes DEF Locked, Held
  <2>4. CASE dek' = flash.wdek.dek /\ unlocked' = TRUE
    <3>1. Openable
      BY <2>1 DEF Openable, Unwraps, is_initialized
    <3>2. SafeOnFlash # Absent /\ Held' = SafeOnFlash.secret
      BY <2>4, <3>1, OwnedSafe DEF Held
    <3> QED BY <2>1, <2>2, <3>2, Opens
  <2> QED BY <1>6, <2>3, <2>4 DEF UnlockRight
<1>7. ASSUME NEW pw \in Passwords, SetTransferPassword(pw) PROVE [S!Next]_(S!vars)
  BY <1>7, SameSafe, Stutters DEF SetTransferPassword, Start, Held, Idle
<1>8. ASSUME NEW cur \in Passwords, NEW next \in Passwords, ChangePassword(cur, next)
      PROVE  [S!Next]_(S!vars)
  <2>1. flash' = flash /\ Held' = Held /\ op = "none"
    BY <1>8 DEF ChangePassword, Return, Start, Held, Idle
  <2>2. CASE Return("throw") \/ Return("false")
    BY <2>1, <2>2, SameSafe, Stutters DEF Return
  <2>3. CASE ~(Return("throw") \/ Return("false"))
    <3>1. Unwraps(cur) /\ op' = "change"
      BY <1>8, <2>3 DEF ChangePassword, Start
    <3>2. Openable /\ Openable'
      BY <2>1, <3>1 DEF Openable, Unwraps, is_initialized
    <3>3. SafeOnFlash' = SafeOnFlash
      BY <2>1, <3>2 DEF SafeOnFlash
    <3> QED BY <2>1, <3>1, <3>3, Stutters
  <2> QED BY <2>2, <2>3
<1>9. ASSUME NEW t \in Tables, Persist(t) PROVE [S!Next]_(S!vars)
  BY <1>9, SameSafe, Stutters DEF Persist, Start, Held, Idle, Tables
<1>10. CASE StoreWrite
  BY <1>10, SafeWrite
<1>11. CASE StoreCommit
  <2>1. flash' = flash /\ dek' = dek /\ op \in Writing /\ op' \in {op, "none"}
    BY <1>11 DEF StoreCommit
  <2>2. op \in {"setup", "change"} => at > 3
    BY <1>11, KeySteps DEF StoreCommit, Call, TypeOK
  <2>3. SafeOnFlash' = SafeOnFlash
    <3>1. CASE op = "change" /\ op' = "none"
      BY <2>1, <2>2, <3>1, ChangeEnds
    <3>2. CASE ~(op = "change" /\ op' = "none")
      BY <2>1, <3>2, SameSafe
    <3> QED BY <3>1, <3>2
  <2>4. CASE op = "setup" /\ ~unlocked
    <3>1. unlocked' /\ Held' = flash.wdek.dek
      <4>1. unlocked'
        BY <1>11, <2>4 DEF StoreCommit
      <4>2. flash.wdek = staged.wdek /\ staged.wdek.dek = dek
        BY <2>2, <2>4 DEF StagedInv, AgreeInv
      <4> QED BY <2>1, <4>1, <4>2 DEF Held
    <3>2. /\ flash.wdek = staged.wdek /\ flash.wdek \in Wrapped /\ is_initialized
          /\ flash.salt = flash.wdek.kek.salt /\ flash.iter = flash.wdek.kek.iter
          /\ flash.iter # Absent
      BY <2>2, <2>4, VaultConstants DEF StagedInv, TypeOK, Flash, is_initialized
    <3>3. Unwraps(flash.wdek.kek.pw) /\ flash.wdek.kek.pw \in Passwords
      BY <3>2 DEF Unwraps, load_kek, is_initialized, Wrapped, Keks
    <3>4. Openable
      BY <3>2, <3>3 DEF Openable
    <3> QED BY <2>1, <2>3, <2>4, <3>1, <3>4, OwnedSafe, Opens
  <2>5. CASE op \in {"wipe", "bootwipe"}
    BY <1>11, <2>1, <2>3, <2>5, Stutters, EndsErase DEF StoreCommit, Held, TypeOK
  <2>6. CASE op \notin {"wipe", "bootwipe"} /\ ~(op = "setup" /\ ~unlocked)
    <3>1. unlocked' = unlocked
      BY <1>11, <2>6 DEF StoreCommit, TypeOK
    <3> QED BY <2>1, <2>3, <2>6, <3>1, Stutters DEF Held
  <2> QED BY <2>4, <2>5, <2>6
<1>12. CASE StoreFault
  <2>1. flash' = flash /\ Held' = Held /\ op # "change" /\ op' \in {"off", "none"}
    BY <1>12 DEF StoreFault, Held
  <2>2. SafeOnFlash' = SafeOnFlash
    BY <2>1, SameSafe
  <2> QED BY <2>1, <2>2, Stutters, EndsErase
<1>13. CASE PowerLoss
  <2>1. flash' = flash /\ Held' = Absent /\ op # "change" /\ op' = "off"
    BY <1>13 DEF PowerLoss, Locked, Held
  <2>2. SafeOnFlash' = SafeOnFlash
    BY <2>1, SameSafe
  <2>3. op \in {"wipe", "bootwipe"} => Held = Absent
    BY DEF KeyInv, Held
  <2> QED BY <2>1, <2>2, <2>3, Closes, EndsErase
<1>14. CASE Boot
  <2>1. flash' = flash /\ op = "off" /\ op' \in {"none", "bootwipe"}
        /\ Held = Absent /\ Held' = Absent
    BY <1>14 DEF Boot, Start, Held, KeyInv
  <2>2. SafeOnFlash' = SafeOnFlash
    BY <2>1, SameSafe
  <2> QED BY <2>1, <2>2, Stutters, StartsErase
<1>15. CASE UNCHANGED vars
  BY <1>15, SameSafe, Stutters DEF vars, Held
<1> QED BY <1>1, <1>2, <1>3, <1>4, <1>5, <1>6, <1>7, <1>8, <1>9, <1>10, <1>11,
           <1>12, <1>13, <1>14, <1>15 DEF Next

LEMMA SafeInit == Init => S!Init
<1> SUFFICES ASSUME Init PROVE S!Init
  OBVIOUS
<1>1. SafeOnFlash \in S!Owned \cup {Absent}
  BY InitTyped, OwnedSafe
<1> QED BY <1>1 DEF Init, S!Init, Held

(***************************************************************************)
(* With one browser, and password changes that run to their end, the vault *)
(* implements the safe: setup, logins, saves, resets and the boot-time     *)
(* wipe may fail or lose power at any store call, for any sets of          *)
(* passwords, salts and keys.                                              *)
(***************************************************************************)
THEOREM VaultImplementsSafe ==
  ASSUME LoginWhileUnlocked = FALSE, "change" \notin FaultOps \cup CrashOps
  PROVE  Spec => ImplementsSafe
<1>1. Init => StagedInv
  BY StagedInit
<1>2. TypeOK /\ KeyInv /\ StagedInv /\ [Next]_vars => StagedInv'
  BY StagedNext
<1>3. Init => S!Init
  BY SafeInit
<1>4. /\ TypeOK /\ TypeOK' /\ KeyInv /\ KeyInv' /\ AgreeInv /\ AgreeInv'
      /\ StagedInv /\ StagedInv' /\ [Next]_vars
      => [S!Next]_(S!vars)
  BY SafeNext
<1> QED BY <1>1, <1>2, <1>3, <1>4, AgreeInvariant, PTL DEF Spec, ImplementsSafe, S!Spec

-----------------------------------------------------------------------------
(***************************************************************************)
(* What a safe guarantees by itself, and what the key handling of the      *)
(* vault therefore comes to: whatever is in hand is the secret of a safe   *)
(* that has an owner and is not being erased.                              *)
(***************************************************************************)
LEMMA GuardedStep == S!TypeOK /\ S!HeldIsGuarded /\ [S!Next]_(S!vars) => (S!TypeOK /\ S!HeldIsGuarded)'
<1> SUFFICES ASSUME S!TypeOK, S!HeldIsGuarded, [S!Next]_(S!vars)
             PROVE  (S!TypeOK /\ S!HeldIsGuarded)'
  OBVIOUS
<1> USE OwnedDiffers DEF S!HeldIsGuarded, S!TypeOK
<1>1. ASSUME NEW pw \in Passwords, NEW s \in Deks, S!Claim(pw, s)
      PROVE  (S!TypeOK /\ S!HeldIsGuarded)'
  BY <1>1 DEF S!Claim, S!Owned
<1>2. ASSUME NEW pw \in Passwords, S!ChangeOwner(pw)
      PROVE  (S!TypeOK /\ S!HeldIsGuarded)'
  <2>1. SafeOnFlash' \in S!Owned /\ SafeOnFlash'.secret = SafeOnFlash.secret
    BY <1>2 DEF S!ChangeOwner, S!Owned
  <2> QED BY <1>2, <2>1 DEF S!ChangeOwner, S!Owned
<1>3. CASE S!Open
  BY <1>3 DEF S!Open, S!Owned
<1>4. CASE S!Close \/ S!StartErase
  BY <1>4 DEF S!Close, S!StartErase
<1>5. CASE S!Erase \/ S!EndErase
  BY <1>5 DEF S!Erase, S!EndErase
<1>6. CASE UNCHANGED S!vars
  BY <1>6 DEF S!vars
<1> QED BY <1>1, <1>2, <1>3, <1>4, <1>5, <1>6 DEF S!Next

\* Of any safe, whatever implements it.
THEOREM GuardedWhileHeld == S!Spec => []S!HeldIsGuarded
<1>1. S!Init => S!TypeOK /\ S!HeldIsGuarded
  BY DEF S!Init, S!TypeOK, S!HeldIsGuarded
<1> QED BY <1>1, GuardedStep, PTL DEF S!Spec

\* The key in the RAM of the vault is the one its owner's password recovers
\* from flash, and none is there while the vault is being erased.
THEOREM VaultGuardsItsKey ==
  ASSUME LoginWhileUnlocked = FALSE, "change" \notin FaultOps \cup CrashOps
  PROVE  Spec => []S!HeldIsGuarded
  BY VaultImplementsSafe, GuardedWhileHeld, PTL DEF ImplementsSafe
=============================================================================
