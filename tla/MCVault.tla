------------------------------ MODULE MCVault ------------------------------
(***************************************************************************)
(* Small instances of Vault: two passwords, three salts (the live one, the *)
(* one a torn update leaves behind, a fresh one) and three DEKs.           *)
(***************************************************************************)
EXTENDS VaultSafe, TLC

Symmetry == Permutations(Passwords) \cup Permutations(Salts) \cup Permutations(Deks)
=============================================================================
