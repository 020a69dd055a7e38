-------------------------- MODULE MCAccountSessions --------------------------
(* Constants for model checking AccountSessions. *)
EXTENDS AccountSessions, TLC

CONSTANTS l1, l2, l3, h1, h2

Symmetric == Permutations(Logins) \cup Permutations(Handlers)
=============================================================================
