----------------------------- MODULE MCSession -----------------------------
(* Small instances of Session; tokens are interchangeable. *)
EXTENDS Session, TLC

Symmetry == Permutations(Tokens)
=============================================================================
