------------------------------ MODULE VaultSafe ------------------------------
(***************************************************************************)
(* The vault of components/vault/vault.cpp implements a Safe.  The owner   *)
(* is whoever's password unwraps the stored DEK; while change_password     *)
(* replaces salt, count and wrapped DEK one by one the owner is the one of *)
(* the wrapped DEK on flash, so the owner changes with the third write.    *)
(* The safe is claimed by the write of "wdek" in setup, not when setup     *)
(* returns, and it is lost with the first erasure, of "salt".              *)
(***************************************************************************)
EXTENDS Vault

ASSUME OwnedDiffers == Absent \notin [owner : Passwords, secret : Deks]

Openable == is_initialized /\ (op = "change" \/ \E pw \in Passwords : Unwraps(pw))

SafeOnFlash == IF Openable
                 THEN [owner |-> flash.wdek.kek.pw, secret |-> flash.wdek.dek]
                 ELSE Absent

Held == IF unlocked THEN dek ELSE Absent

S == INSTANCE Safe WITH
       Secrets <- Deks,         Nobody  <- Absent,
       safe    <- SafeOnFlash,  held    <- Held,
       erasing <- op \in {"wipe", "bootwipe"}

\* Every store call, fault and power loss of the vault is a step of the safe or
\* invisible to it.  The owner of a torn setup can log in; a vault is never left
\* that two passwords open, or none, except by erasing it; an unlocked vault
\* works with the DEK its owner's password recovers.  It holds with one browser
\* and password changes that run to their end.
ImplementsSafe == S!Spec
=============================================================================
