----------------------------- MODULE MCStatusLed -----------------------------
(* A small instance of StatusLed: the 32-bit clock turns over after 6 ticks. *)
EXTENDS StatusLed
=============================================================================
