--------------------------- MODULE MCProverClient ---------------------------
(* The instance of ProverClient for TLC: all constants are in the cfg. *)
EXTENDS ProverClient
=============================================================================
