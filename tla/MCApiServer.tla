---------------------------- MODULE MCApiServer ----------------------------
(* Small instances of ApiServer. *)
EXTENDS ApiServer, TLC

Symmetry == Permutations(Passwords) \cup Permutations(Salts)
            \cup Permutations(Deks) \cup Permutations(Tokens)
=============================================================================
