------------------------------ MODULE JobRecord ------------------------------
(***************************************************************************)
(* The job record of control/store.go and the closures that Store.Update   *)
(* applies to it.  Each operator below takes the record the closure reads  *)
(* and returns the record the closure leaves, so that every module that    *)
(* moves a job moves it the same way.                                      *)
(*                                                                         *)
(* Kept fields: State, Cursor, SourceExhausted, Records and Restarts.      *)
(* Cursor is the number of source pages the saved provider cursor stands   *)
(* behind (0 is the empty cursor, where a scan starts).  NextRunAt is not  *)
(* a field: whether it has passed is chosen when Claim looks at it.        *)
(* Phase, Error, Runs, Retries, Batches and the time stamps only describe. *)
(*                                                                         *)
(* An operator X_Faulty... is no part of the model: it is X with a mistake *)
(* that one could make in the code, kept to see that a property notices.   *)
(***************************************************************************)
EXTENDS Integers

\* "absent" stands for an identifier that is not in the Store's map.
States == {"absent", "queued", "running", "retry_wait", "cancel_requested",
           "succeeded", "failed", "canceled"}

\* The states in which a job occupies its destination (Claim, Recover).
Busy == {"running", "cancel_requested"}

JobType(lastPage) ==
  [state : States, cursor : 0..lastPage, exhausted : BOOLEAN,
   records : Nat, restarts : Nat]

Absent == [state |-> "absent", cursor |-> 0, exhausted |-> FALSE,
           records |-> 0, restarts |-> 0]

NewJob == [Absent EXCEPT !.state = "queued"]

\* Engine.Action, "cancel".
Cancelable(j) == j.state \in {"queued", "retry_wait"} \cup Busy
CancelAsked(j) ==
  [j EXCEPT !.state = IF @ \in Busy THEN "cancel_requested" ELSE "canceled"]

\* Engine.Action, "resume".
Resumable(j) == j.state \in {"failed", "canceled", "retry_wait"}
Resumed_FaultyRewind(j) ==
  [j EXCEPT !.state = "queued", !.restarts = 0, !.cursor = 0]
Resumed(j) == [j EXCEPT !.state = "queued", !.restarts = 0]

\* Store.Claim and Engine.RunJob: the record of a started job.
Started(j) == [j EXCEPT !.state = "running"]

\* A cancellation that was asked for wins over what the executor decided.
CancelWins(j, state) ==
  IF j.state = "cancel_requested" THEN "canceled" ELSE state

\* Store.Recover.
Recovered_FaultyKept(j) == [j EXCEPT !.state = @]
Recovered(j) == [j EXCEPT !.state = CancelWins(j, "queued")]

\* Engine.finish.
Finished_FaultyForgetsCancel(j, verdict) == [j EXCEPT !.state = verdict]
Finished(j, verdict) == [j EXCEPT !.state = CancelWins(j, verdict)]

\* The "restart_scheduled" update: the budget is spent only by a real restart.
RestartScheduled(j) ==
  IF j.state = "cancel_requested"
  THEN [j EXCEPT !.state = "canceled"]
  ELSE [j EXCEPT !.state = "retry_wait", !.restarts = @ + 1]

\* The checkpoint update for page n of size records; done is Page.Done.
Checkpointed_FaultyEnd(j, n, size, done) ==
  [j EXCEPT !.cursor = n,
            !.exhausted = done /\ j.state # "cancel_requested",
            !.records = @ + size,
            !.state = CancelWins(j, IF done THEN "succeeded" ELSE j.state)]
Checkpointed(j, n, size, done) ==
  [j EXCEPT !.cursor = n,
            !.exhausted = done,
            !.records = @ + size,
            !.state = CancelWins(j, IF done THEN "succeeded" ELSE j.state)]
=============================================================================
