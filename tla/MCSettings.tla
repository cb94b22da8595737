----------------------------- MODULE MCSettings -----------------------------
(* A small instance of Settings: two names and two passwords, windows of one
   to two units, a device that may have run firmware of schema 1 before. *)
EXTENDS Settings
=============================================================================
