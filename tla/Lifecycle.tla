------------------------------ MODULE Lifecycle ------------------------------
(***************************************************************************)
(* What a transfer promises its owner, whoever executes it: the job moves  *)
(* only along the edges of the job state machine, the acknowledged prefix  *)
(* of the source only grows and never outruns what the destination holds,  *)
(* nothing is written while the job is not being executed, and success     *)
(* means that every page was acknowledged.                                 *)
(***************************************************************************)
EXTENDS Integers

CONSTANTS Jobs,      \* the jobs
          LastPage   \* every source has the pages 1..LastPage

VARIABLES status,    \* status[j]: the state of the job
          acked,     \* acked[j]: the pages 1..acked[j] are acknowledged
          stored     \* stored[j]: the pages whose records the sink holds

lifecycleVars == <<status, acked, stored>>

Executing == {"running", "cancel_requested"}

\* The edges of the state machine; a restart of the host requeues a job that
\* was running.
Edges ==
  { <<"absent", "queued">>,
    <<"queued", "running">>,      <<"queued", "canceled">>,
    <<"running", "succeeded">>,   <<"running", "failed">>,
    <<"running", "retry_wait">>,  <<"running", "cancel_requested">>,
    <<"running", "queued">>,
    <<"retry_wait", "running">>,  <<"retry_wait", "queued">>,
    <<"retry_wait", "canceled">>,
    <<"cancel_requested", "canceled">>,
    <<"failed", "queued">>,       <<"canceled", "queued">> }

Init ==
  /\ status = [j \in Jobs |-> "absent"]
  /\ acked = [j \in Jobs |-> 0]
  /\ stored \in [Jobs -> SUBSET (1..LastPage)]

\* The destination takes pages of a job that is being executed.
Deliver(j) ==
  /\ status[j] \in Executing
  /\ \E pages \in SUBSET (1..LastPage) :
        stored' = [stored EXCEPT ![j] = @ \cup pages]
  /\ UNCHANGED <<status, acked>>

\* The job changes state, and while it executes it may acknowledge pages that
\* the destination already holds.
Move(j, to, upTo) ==
  /\ to # status[j] => <<status[j], to>> \in Edges
  /\ upTo # acked[j] => status[j] \in Executing /\ upTo > acked[j]
  /\ 1..upTo \subseteq stored[j]
  /\ to = "succeeded" => upTo = LastPage
  /\ status' = [status EXCEPT ![j] = to]
  /\ acked' = [acked EXCEPT ![j] = upTo]
  /\ UNCHANGED stored

Next ==
  \E j \in Jobs :
    \/ Deliver(j)
    \/ \E upTo \in 0..LastPage :
         \E to \in {e[2] : e \in Edges} : Move(j, to, upTo)

Spec == Init /\ [][Next]_lifecycleVars
=============================================================================
