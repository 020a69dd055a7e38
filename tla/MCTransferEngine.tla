-------------------------- MODULE MCTransferEngine --------------------------
(* Constants for model checking TransferEngine. *)
EXTENDS TransferEngine, TLC

CONSTANTS w1, w2

ExecutorSymmetry == Permutations(Executors)

\* Every job writes to one destination.
SharedSink == [j \in Jobs |-> 1]

\* Spec.MaxRestarts of a job without automatic restarts.
NoRestarts == -1

\* One page of two records; two pages; and three of which one is empty.
ThroughOne == 0 :> 0 @@ 1 :> 2
ThroughFull == 0 :> 0 @@ 1 :> 1 @@ 2 :> 3
ThroughEmptyMiddle == 0 :> 0 @@ 1 :> 1 @@ 2 :> 1 @@ 3 :> 3
=============================================================================
