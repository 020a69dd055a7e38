---------------------------- MODULE StoreContract ----------------------------
(***************************************************************************)
(* What the users of a Store rely on, and what TransferEngine assumes of   *)
(* it: an append that succeeds is remembered and durable, one that fails   *)
(* changes no memory, may or may not be durable, and shuts the Store until *)
(* it is opened again, and opening it yields what is durable.              *)
(***************************************************************************)
CONSTANTS Jobs,    \* the identifiers of jobs
          Records  \* what is kept of a job

VARIABLES job,     \* job[j]: the record that readers are shown
          disk,    \* disk[j]: the record that a restart would find
          shut     \* nothing is accepted until the Store is opened again

contractVars == <<job, disk, shut>>

Init ==
  /\ job \in [Jobs -> Records]
  /\ disk = job
  /\ shut = FALSE

Succeed(j, new) ==
  /\ ~shut
  /\ job' = [job EXCEPT ![j] = new]
  /\ disk' = [disk EXCEPT ![j] = new]
  /\ UNCHANGED shut

\* The Store fails, or the process that holds it dies.
Fail(j, new) ==
  /\ ~shut
  /\ shut' = TRUE
  /\ disk' \in {disk, [disk EXCEPT ![j] = new]}
  /\ UNCHANGED job

Open ==
  /\ shut
  /\ shut' = FALSE
  /\ job' = disk
  /\ UNCHANGED disk

Next == Open \/ \E j \in Jobs, new \in Records : Succeed(j, new) \/ Fail(j, new)

Spec == Init /\ [][Next]_contractVars
=============================================================================
