-------------------------- MODULE MCWorkerRegistry --------------------------
(* Constants for model checking WorkerRegistry. *)
EXTENDS WorkerRegistry

CONSTANTS c1, c2

\* Enough that one is always fresh: one per challenge, session, token and
\* request.
SmallNonces == 1..(2 * MaxEntries + 3 * Cardinality(Clients) + 1)
=============================================================================
