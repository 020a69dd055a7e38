------------------------------ MODULE MCJournal ------------------------------
(* Constants for model checking Journal. *)
EXTENDS Journal

OneKey == {"key"}
TwoKeys == {"key", "other"}
TwoSpecs == {"copy", "move"}
=============================================================================
