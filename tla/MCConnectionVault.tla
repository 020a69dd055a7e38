-------------------------- MODULE MCConnectionVault --------------------------
(* Constants for model checking ConnectionVault. *)
EXTENDS ConnectionVault

CONSTANTS j1, k1, k2, f1, f2, h1, h2
=============================================================================
